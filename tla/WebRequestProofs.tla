-------------------------- MODULE WebRequestProofs --------------------------
(***************************************************************************)
(* The proofs of WebRequest, for messages of any size in any chunks, any   *)
(* number of redirects and reads that split a message anywhere: what waits *)
(* for the server has a timeout, and what the caller gets is the body, or  *)
(* the beginning of it when the server closes the connection early.        *)
(***************************************************************************)
EXTENDS WebRequest, SequenceTheorems, WellFoundedInduction, TLAPS

\* The timeout of the chain does not depend on what is decoded.
LEMMA ChainTypeInit ==
  ASSUME Init
  PROVE  ChainType /\ TimerInv
BY RedirectAssumption DEF Init, ChainType, TimerInv, Phases, LapseKinds

\* What a handler leads to is an operation of the chain again.
LEMMA ChainTypeStep ==
  ASSUME ChainType, [Next]_vars
  PROVE  ChainType'
<1> USE DEF ChainType, Phases, Transfers
<1>1. CASE Request
  BY <1>1 DEF Request, Connection
<1>2. CASE Complete
  BY <1>2 DEF Complete, Closes, LapseKinds
<1>3. CASE TimerExpires
  BY <1>3 DEF TimerExpires, LapseKinds
<1>4. CASE TimerCallback
  BY <1>4 DEF TimerCallback
<1>5. CASE Handler
  <2> DEFINE Type == /\ phase' \in Phases /\ result' \in {"pending", "ok", "eof", "error"}
                     /\ timer' \in {"armed", "ready", "off"} /\ socket' \in {"open", "closed"}
                     /\ redirects' \in 0..MaxRedirects /\ answer' \in {"none", "ok", "error"}
  <2>1. \A r : Respond(r) => Type
    BY RedirectAssumption DEF Respond, Deliver, Answered, Connection, Cancelled
  <2>2. TransferFailed => Type
    BY DEF TransferFailed, Answered, Cancelled
  <2>3. \A op, r, w, b : op \in Phases /\ Receive(op, r, w, b) => Type
    BY DEF Receive, Then
  <2>4. OnResolve \/ OnConnect \/ OnHandshake => Type
    BY DEF OnResolve, OnConnect, OnHandshake, NotConnected, Answered, Then
  <2>5. OnWrite \/ OnHeader \/ OnChunkSize \/ OnChunk \/ OnStream => Type
    <3> HIDE DEF Type, ChainType
    <3> QED BY <2>1, <2>2, <2>3
            DEF OnWrite, OnHeader, OnLengthHeader, OnChunkSize, OnChunk, OnStream
  <2>6. OnLength \/ OnEof \/ OnTransferError => Type
    <3> HIDE DEF Type, ChainType
    <3> QED BY <2>1, <2>2 DEF OnLength, OnEof, OnTransferError
  <2> QED BY <1>5, <2>4, <2>5, <2>6 DEF Handler
<1>6. CASE UNCHANGED vars
  BY <1>6 DEF vars
<1> QED BY <1>1, <1>2, <1>3, <1>4, <1>5, <1>6 DEF Next

\* The timer is off in the middle of a connection only when the timeout has closed
\* the socket, and then every further operation fails at once.
LEMMA TimerStep ==
  ASSUME ChainType, TimerInv, [Next]_vars
  PROVE  TimerInv'
<1> USE DEF TimerInv
<1>1. CASE Request
  BY <1>1 DEF Request, Connection
<1>2. CASE Complete
  BY <1>2 DEF Complete, Closes
<1>3. CASE TimerExpires
  BY <1>3 DEF TimerExpires
<1>4. CASE TimerCallback
  BY <1>4 DEF TimerCallback, ChainType
<1>5. CASE Handler
  <2>1. \A r : Respond(r) /\ UNCHANGED lapses => TimerInv'
    BY DEF Respond, Deliver, Answered, Connection
  <2>2. TransferFailed /\ UNCHANGED lapses => TimerInv'
    BY DEF TransferFailed, Answered
  <2>3. \A op, r, w, b : op \in Transfers /\ phase \in Transfers /\ Receive(op, r, w, b)
                            /\ UNCHANGED lapses => TimerInv'
    BY DEF Receive, Then, Transfers
  <2>4. (OnResolve \/ OnConnect \/ OnHandshake) /\ UNCHANGED lapses => TimerInv'
    BY DEF OnResolve, OnConnect, OnHandshake, NotConnected, Answered, Then
  <2>5. (OnWrite \/ OnHeader \/ OnChunkSize \/ OnChunk \/ OnStream) /\ UNCHANGED lapses
          => TimerInv'
    <3> HIDE DEF TimerInv
    <3> QED BY <2>1, <2>2, <2>3
            DEF OnWrite, OnHeader, OnLengthHeader, OnChunkSize, OnChunk, OnStream, Transfers
  <2>6. (OnLength \/ OnEof \/ OnTransferError) /\ UNCHANGED lapses => TimerInv'
    <3> HIDE DEF TimerInv
    <3> QED BY <2>1, <2>2 DEF OnLength, OnEof, OnTransferError
  <2> QED BY <1>5, <2>4, <2>5, <2>6 DEF Handler
<1>6. CASE UNCHANGED vars
  BY <1>6 DEF vars
<1> QED BY <1>1, <1>2, <1>3, <1>4, <1>5, <1>6 DEF Next

\* "Callback called by the request timeout timer. Disconnects the socket if the
\* timeout expired." (http_con.h): an operation that waits for the server has a
\* timeout, after any number of redirects.
THEOREM NoUnguardedWaitHolds == Spec => []NoUnguardedWait
<1> DEFINE Inv == ChainType /\ TimerInv
<1>1. Init => Inv
  BY ChainTypeInit
<1>2. Inv /\ [Next]_vars => Inv'
  BY ChainTypeStep, TimerStep
<1>3. Inv => NoUnguardedWait
  BY DEF TimerInv, NoUnguardedWait
<1> QED BY <1>1, <1>2, <1>3, PTL DEF Spec
-----------------------------------------------------------------------------
(***************************************************************************)
(* Sequences that are cut and put together again.                          *)
(***************************************************************************)

\* The beginning and the rest of a sequence.
LEMMA CutElements ==
  ASSUME NEW S, NEW s \in Seq(S), NEW n \in 0..Len(s)
  PROVE  /\ First(s, n) \in Seq(S) /\ Len(First(s, n)) = n
         /\ \A x \in 1..n : First(s, n)[x] = s[x]
         /\ Rest(s, n) \in Seq(S) /\ Len(Rest(s, n)) = Len(s) - n
         /\ \A x \in 1..(Len(s) - n) : Rest(s, n)[x] = s[n + x]
<1>1. Len(s) \in Nat /\ n \in Nat /\ n <= Len(s) /\ \A x \in 1..Len(s) : s[x] \in S
  OBVIOUS
<1>2. /\ First(s, n) \in Seq(S) /\ Len(First(s, n)) = n
      /\ \A x \in 1..n : First(s, n)[x] = s[x]
  BY <1>1, SubSeqProperties DEF First
<1>3. /\ Rest(s, n) \in Seq(S) /\ Len(Rest(s, n)) = Len(s) - n
      /\ \A x \in 1..(Len(s) - n) : Rest(s, n)[x] = s[n + x]
  <2>1. n + 1 \in Int /\ Len(s) \in Int /\ \A x \in (n + 1)..Len(s) : s[x] \in S
    BY <1>1
  <2>2. /\ SubSeq(s, n + 1, Len(s)) \in Seq(S)
        /\ Len(SubSeq(s, n + 1, Len(s))) = IF n + 1 <= Len(s) THEN Len(s) - (n + 1) + 1 ELSE 0
        /\ \A x \in 1..(Len(s) - (n + 1) + 1) :
             SubSeq(s, n + 1, Len(s))[x] = s[(n + 1) + x - 1]
    BY <2>1, SubSeqProperties
  <2>3. \A x \in 1..(Len(s) - n) : (n + 1) + x - 1 = n + x
    BY <1>1
  <2>4. Len(s) - (n + 1) + 1 = Len(s) - n /\ (~(n + 1 <= Len(s)) => Len(s) - n = 0)
    BY <1>1
  <2> QED BY <2>2, <2>3, <2>4 DEF Rest
<1> QED BY <1>2, <1>3

\* A sequence is what it begins with, followed by the rest.
LEMMA CutProperties ==
  ASSUME NEW S, NEW s \in Seq(S), NEW n \in 0..Len(s)
  PROVE  First(s, n) \o Rest(s, n) = s
<1>1. Len(s) \in Nat /\ n \in Nat /\ n <= Len(s)
  OBVIOUS
<1>2. /\ First(s, n) \in Seq(S) /\ Len(First(s, n)) = n
      /\ \A x \in 1..n : First(s, n)[x] = s[x]
  BY CutElements
<1>3. /\ Rest(s, n) \in Seq(S) /\ Len(Rest(s, n)) = Len(s) - n
      /\ \A x \in 1..(Len(s) - n) : Rest(s, n)[x] = s[n + x]
  BY CutElements
<1>4. First(s, n) \o Rest(s, n) = s
  <2> DEFINE t == First(s, n) \o Rest(s, n)
  <2>1. /\ t \in Seq(S) /\ Len(t) = n + (Len(s) - n)
        /\ \A x \in 1..(n + (Len(s) - n)) :
             t[x] = IF x <= n THEN First(s, n)[x] ELSE Rest(s, n)[x - n]
    BY <1>2, <1>3, ConcatProperties
  <2>2. n + (Len(s) - n) = Len(s)
    BY <1>1
  <2>3. ASSUME NEW x \in 1..Len(s) PROVE t[x] = s[x]
    <3>1. t[x] = IF x <= n THEN First(s, n)[x] ELSE Rest(s, n)[x - n]
      BY <2>1, <2>2
    <3>2. CASE x <= n
      <4>1. x \in 1..n
        BY <3>2
      <4> QED BY <1>2, <3>1, <3>2, <4>1
    <3>3. CASE ~(x <= n)
      <4>1. x - n \in 1..(Len(s) - n) /\ n + (x - n) = x
        BY <1>1, <3>3
      <4> QED BY <1>3, <3>1, <3>3, <4>1
    <3> QED BY <3>2, <3>3
  <2>4. t = s
    <3> HIDE DEF t
    <3> QED BY <2>1, <2>2, <2>3, SeqEqual
  <2> QED BY <2>4
<1> QED BY <1>4

\* ConcatAssociative, quantified.
LEMMA Associative == \A S : \A t, u, v \in Seq(S) : (t \o u) \o v = t \o (u \o v)
BY ConcatAssociative

\* Concatenation as an operator of its own: the provers do not take \o apart.
Joined(s, t) == s \o t

\* Parentheses do not matter.
LEMMA JoinedProperties == \A S :
  /\ \A s, t \in Seq(S) : Joined(s, t) \in Seq(S)
  /\ \A s, t, u \in Seq(S) : Joined(Joined(s, t), u) = Joined(s, Joined(t, u))
<1> TAKE S
<1>1. ASSUME NEW s \in Seq(S), NEW t \in Seq(S) PROVE Joined(s, t) \in Seq(S)
  BY ConcatProperties DEF Joined
<1>2. ASSUME NEW s \in Seq(S), NEW t \in Seq(S), NEW u \in Seq(S)
      PROVE  Joined(Joined(s, t), u) = Joined(s, Joined(t, u))
  <2>1. (s \o t) \o u = s \o (t \o u)
    BY Associative
  <2> QED BY <2>1, Zenon DEF Joined
<1> QED BY <1>1, <1>2, Zenon

\* Units that are moved from one sequence to the end of another leave the two
\* together what they were.
LEMMA Moved ==
  ASSUME NEW S, NEW b \in Seq(S), NEW s \in Seq(S), NEW n \in 0..Len(s)
  PROVE  /\ Joined(b, First(s, n)) \in Seq(S) /\ Rest(s, n) \in Seq(S)
         /\ Joined(Joined(b, First(s, n)), Rest(s, n)) = Joined(b, s)
<1>1. First(s, n) \in Seq(S) /\ Rest(s, n) \in Seq(S)
      /\ Joined(First(s, n), Rest(s, n)) = s
  BY CutElements, CutProperties DEF Joined
<1> QED BY <1>1, JoinedProperties

\* Two ways to cut the same sequence: what is cut off later begins with what is
\* cut off earlier.
LEMMA Overlap ==
  ASSUME NEW S, NEW b \in Seq(S), NEW s \in Seq(S), NEW a \in Seq(S), NEW c \in Seq(S),
         Joined(b, s) = Joined(a, c), Len(a) <= Len(b)
  PROVE  /\ Len(a) \in 0..Len(b)
         /\ First(b, Len(a)) = a
         /\ Rest(b, Len(a)) \in Seq(S)
         /\ Joined(Rest(b, Len(a)), s) = c
<1> DEFINE n == Len(a)
           r == Rest(b, n)
<1>1. n \in 0..Len(b) /\ n \in Nat /\ Len(b) \in Nat /\ Len(c) \in Nat /\ Len(s) \in Nat
  OBVIOUS
<1>2. /\ First(b, n) \in Seq(S) /\ Len(First(b, n)) = n
      /\ \A x \in 1..n : First(b, n)[x] = b[x]
      /\ r \in Seq(S) /\ Len(r) = Len(b) - n
      /\ \A x \in 1..(Len(b) - n) : r[x] = b[n + x]
  BY <1>1, CutElements
<1>3. /\ \A y \in 1..(Len(b) + Len(s)) :
           (b \o s)[y] = IF y <= Len(b) THEN b[y] ELSE s[y - Len(b)]
      /\ \A y \in 1..(Len(b) + Len(s)) :
           (b \o s)[y] = IF y <= n THEN a[y] ELSE c[y - n]
      /\ Len(b) + Len(s) = n + Len(c)
  <2>1. /\ \A y \in 1..(Len(b) + Len(s)) :
             (b \o s)[y] = IF y <= Len(b) THEN b[y] ELSE s[y - Len(b)]
        /\ Len(b \o s) = Len(b) + Len(s)
    BY ConcatProperties
  <2>2. /\ \A y \in 1..(Len(a) + Len(c)) :
             (a \o c)[y] = IF y <= Len(a) THEN a[y] ELSE c[y - Len(a)]
        /\ Len(a \o c) = Len(a) + Len(c)
    BY ConcatProperties
  <2> QED BY <2>1, <2>2 DEF Joined
<1> HIDE DEF n, r
<1>4. First(b, n) = a
  <2>1. ASSUME NEW x \in 1..n PROVE b[x] = a[x]
    <3>1. x \in 1..(Len(b) + Len(s)) /\ x <= Len(b) /\ x <= n
      BY <1>1
    <3> QED BY <1>3, <3>1
  <2>2. Len(a) = n
    BY DEF n
  <2> QED BY <1>2, <2>1, <2>2, SeqEqual
<1>5. r \o s = c
  <2>1. /\ r \o s \in Seq(S) /\ Len(r \o s) = Len(r) + Len(s)
        /\ \A x \in 1..(Len(r) + Len(s)) :
             (r \o s)[x] = IF x <= Len(r) THEN r[x] ELSE s[x - Len(r)]
    BY <1>2, ConcatProperties
  <2>2. Len(r) + Len(s) = Len(c) /\ Len(r) \in Nat
    BY <1>1, <1>2, <1>3
  <2>3. ASSUME NEW x \in 1..Len(c) PROVE (r \o s)[x] = c[x]
    <3>1. /\ n + x \in 1..(Len(b) + Len(s)) /\ ~(n + x <= n) /\ (n + x) - n = x
          /\ (n + x <= Len(b)) <=> (x <= Len(r))
          /\ x <= Len(r) => x \in 1..(Len(b) - n)
          /\ (n + x) - Len(b) = x - Len(r)
      BY <1>1, <1>2, <1>3
    <3>2. (b \o s)[n + x] = c[x]
      BY <1>3, <3>1
    <3>3. (b \o s)[n + x] = IF x <= Len(r) THEN b[n + x] ELSE s[x - Len(r)]
      BY <1>3, <3>1
    <3>4. (r \o s)[x] = IF x <= Len(r) THEN r[x] ELSE s[x - Len(r)]
      BY <2>1, <2>2
    <3> QED BY <1>2, <3>1, <3>2, <3>3, <3>4
  <2> QED BY <2>1, <2>2, <2>3, SeqEqual
<1> QED BY <1>1, <1>2, <1>4, <1>5 DEF n, r, Joined

-----------------------------------------------------------------------------
(***************************************************************************)
(* Units of a body, and strings that have been resized and filled.         *)
(***************************************************************************)

\* Units.
LEMMA UnitsProperties ==
  ASSUME NEW i \in Nat, NEW k \in Nat
  PROVE  /\ Units(i, k) \in Seq(Unit) /\ Len(Units(i, k)) = k
         /\ \A x \in 1..k : Units(i, k)[x] = Data(i + x)
<1>1. \A x \in 1..k : Data(i + x) \in Unit
  BY DEF Data, Unit
<1> QED BY <1>1 DEF Units

\* A body is its units.
LEMMA BodyIsUnits == \A n \in Nat : Body(n) = Units(0, n)
<1> SUFFICES ASSUME NEW n \in Nat PROVE Body(n) = Units(0, n)
  OBVIOUS
<1>1. \A x \in 1..n : 0 + x = x
  OBVIOUS
<1> QED BY <1>1 DEF Body, Units

\* The first units, and those after them.
LEMMA UnitsCut ==
  ASSUME NEW i \in Nat, NEW k \in Nat, NEW n \in 0..k
  PROVE  First(Units(i, k), n) = Units(i, n) /\ Rest(Units(i, k), n) = Units(i + n, k - n)
<1> DEFINE u == Units(i, k)
           f == First(u, n)
           r == Rest(u, n)
<1>1. n \in Nat /\ i + n \in Nat /\ k - n \in Nat
  OBVIOUS
<1>2. u \in Seq(Unit) /\ Len(u) = k /\ \A x \in 1..k : u[x] = Data(i + x)
  BY UnitsProperties
<1>3. /\ Units(i, n) \in Seq(Unit) /\ Len(Units(i, n)) = n
      /\ \A x \in 1..n : Units(i, n)[x] = Data(i + x)
  BY <1>1, UnitsProperties
<1>4. /\ Units(i + n, k - n) \in Seq(Unit) /\ Len(Units(i + n, k - n)) = k - n
      /\ \A x \in 1..(k - n) : Units(i + n, k - n)[x] = Data((i + n) + x)
  BY <1>1, UnitsProperties
<1> HIDE DEF u
<1>5. /\ f \in Seq(Unit) /\ Len(f) = n /\ \A x \in 1..n : f[x] = u[x]
      /\ r \in Seq(Unit) /\ Len(r) = k - n /\ \A x \in 1..(k - n) : r[x] = u[n + x]
  BY <1>2, CutElements
<1> HIDE DEF f, r
<1>6. f = Units(i, n)
  <2>1. \A x \in 1..n : x \in 1..k
    BY <1>1
  <2>2. \A x \in 1..n : f[x] = Units(i, n)[x]
    BY <1>2, <1>3, <1>5, <2>1
  <2> QED BY <1>3, <1>5, <2>2, SeqEqual
<1>7. r = Units(i + n, k - n)
  <2>1. \A x \in 1..(k - n) : n + x \in 1..k /\ i + (n + x) = (i + n) + x
    BY <1>1
  <2>2. \A x \in 1..(k - n) : r[x] = Units(i + n, k - n)[x]
    BY <1>2, <1>4, <1>5, <2>1
  <2> QED BY <1>4, <1>5, <2>2, SeqEqual
<1> QED BY <1>6, <1>7 DEF f, r, u

\* Padded.
LEMMA PaddedProperties ==
  ASSUME NEW k \in Nat, NEW z \in Nat
  PROVE  /\ Padded(k, z) \in Seq(Unit) /\ Len(Padded(k, z)) = k + z
         /\ \A x \in 1..(k + z) : Padded(k, z)[x] = Data(IF x <= k THEN x ELSE 0)
<1>1. \A x \in 1..(k + z) : Data(IF x <= k THEN x ELSE 0) \in Unit
  BY DEF Data, Unit
<1> QED BY <1>1 DEF Padded

\* The zeros of a string that is resized come after its units.
LEMMA PaddedIsBody ==
  ASSUME NEW k \in Nat, NEW z \in Nat
  PROVE  /\ Body(k) = Padded(k, 0)
         /\ Padded(k, z) = Body(k) \o Zeros(z)
         /\ Padded(k, z) = Padded(k, 0) \o Zeros(z)
<1>1. /\ Padded(k, z) \in Seq(Unit) /\ Len(Padded(k, z)) = k + z
      /\ \A x \in 1..(k + z) : Padded(k, z)[x] = Data(IF x <= k THEN x ELSE 0)
  BY PaddedProperties
<1>2. Body(k) = Padded(k, 0)
  <2>1. k + 0 = k /\ \A x \in 1..k : x <= k
    OBVIOUS
  <2> QED BY <2>1 DEF Body, Padded
<1>3. Body(k) \in Seq(Unit) /\ Len(Body(k)) = k /\ \A x \in 1..k : Body(k)[x] = Data(x)
  BY DEF Body, Data, Unit
<1>4. Zeros(z) \in Seq(Unit) /\ Len(Zeros(z)) = z /\ \A x \in 1..z : Zeros(z)[x] = Data(0)
  BY DEF Zeros, Data, Unit
<1>5. Padded(k, z) = Body(k) \o Zeros(z)
  <2>1. /\ Body(k) \o Zeros(z) \in Seq(Unit) /\ Len(Body(k) \o Zeros(z)) = k + z
        /\ \A x \in 1..(k + z) :
             (Body(k) \o Zeros(z))[x] = IF x <= k THEN Body(k)[x] ELSE Zeros(z)[x - k]
    <3> DEFINE b == Body(k)
               y == Zeros(z)
    <3>1. b \in Seq(Unit) /\ Len(b) = k /\ y \in Seq(Unit) /\ Len(y) = z
      BY <1>3, <1>4
    <3> HIDE DEF b, y
    <3>2. /\ b \o y \in Seq(Unit) /\ Len(b \o y) = k + z
          /\ \A x \in 1..(k + z) : (b \o y)[x] = IF x <= k THEN b[x] ELSE y[x - k]
      BY <3>1, ConcatProperties
    <3> QED BY <3>2 DEF b, y
  <2>2. ASSUME NEW x \in 1..(k + z) PROVE Padded(k, z)[x] = (Body(k) \o Zeros(z))[x]
    <3>1. x <= k => x \in 1..k
      OBVIOUS
    <3>2. ~(x <= k) => x - k \in 1..z
      OBVIOUS
    <3> QED BY <1>1, <1>3, <1>4, <2>1, <3>1, <3>2
  <2> QED BY <1>1, <2>1, <2>2, SeqEqual
<1> QED BY <1>2, <1>5

\* The next units of a body are appended.
LEMMA PaddedAppend ==
  ASSUME NEW k \in Nat, NEW m \in Nat
  PROVE  Padded(k, 0) \o Units(k, m) = Padded(k + m, 0)
<1> DEFINE p == Padded(k, 0)
           u == Units(k, m)
           t == Padded(k + m, 0)
<1>1. p \in Seq(Unit) /\ Len(p) = k /\ \A x \in 1..k : p[x] = Data(x)
  <2>1. /\ p \in Seq(Unit) /\ Len(p) = k + 0
        /\ \A x \in 1..(k + 0) : p[x] = Data(IF x <= k THEN x ELSE 0)
    BY PaddedProperties
  <2>2. k + 0 = k /\ \A x \in 1..k : x <= k
    OBVIOUS
  <2> QED BY <2>1, <2>2
<1>2. u \in Seq(Unit) /\ Len(u) = m /\ \A x \in 1..m : u[x] = Data(k + x)
  BY UnitsProperties
<1>3. t \in Seq(Unit) /\ Len(t) = k + m /\ \A x \in 1..(k + m) : t[x] = Data(x)
  <2>1. k + m \in Nat /\ 0 \in Nat
    OBVIOUS
  <2>2. /\ t \in Seq(Unit) /\ Len(t) = (k + m) + 0
        /\ \A x \in 1..((k + m) + 0) : t[x] = Data(IF x <= k + m THEN x ELSE 0)
    BY <2>1, PaddedProperties
  <2>3. (k + m) + 0 = k + m /\ \A x \in 1..(k + m) : x <= k + m
    OBVIOUS
  <2> QED BY <2>2, <2>3
<1> HIDE DEF p, u, t
<1>4. p \o u = t
  <2>1. /\ p \o u \in Seq(Unit) /\ Len(p \o u) = k + m
        /\ \A x \in 1..(k + m) : (p \o u)[x] = IF x <= k THEN p[x] ELSE u[x - k]
    BY <1>1, <1>2, ConcatProperties
  <2>2. ASSUME NEW x \in 1..(k + m) PROVE (p \o u)[x] = t[x]
    <3>1. x <= k => x \in 1..k
      OBVIOUS
    <3>2. ~(x <= k) => x - k \in 1..m /\ k + (x - k) = x
      OBVIOUS
    <3> QED BY <1>1, <1>2, <1>3, <2>1, <3>1, <3>2
  <2> QED BY <1>3, <2>1, <2>2, SeqEqual
<1> QED BY <1>4 DEF p, u, t

\* The next units of a body are read into the place that is left for them.
LEMMA PaddedFilled ==
  ASSUME NEW k \in Nat, NEW w \in Nat, NEW m \in 0..w,
         NEW u \in Seq(Unit), Len(u) = m, \A x \in 1..m : u[x] = Data(k + x)
  PROVE  Filled(Padded(k, w), Len(Padded(k, w)) - w + 1, u) = Padded(k + m, w - m)
<1> DEFINE p == Padded(k, w)
<1>1. /\ p \in Seq(Unit) /\ Len(p) = k + w
      /\ \A x \in 1..(k + w) : p[x] = Data(IF x <= k THEN x ELSE 0)
  BY PaddedProperties
<1> HIDE DEF p
<1>2. Len(p) - w + 1 = k + 1 /\ (k + m) + (w - m) = k + w
  BY <1>1
<1>3. ASSUME NEW x \in 1..(k + w)
      PROVE  (IF x \in (k + 1)..((k + 1) + Len(u) - 1) THEN u[x - (k + 1) + 1] ELSE p[x])
               = Data(IF x <= k + m THEN x ELSE 0)
  <2>1. CASE x \in (k + 1)..((k + 1) + Len(u) - 1)
    <3>1. x - (k + 1) + 1 \in 1..m /\ k + (x - (k + 1) + 1) = x /\ x <= k + m
      BY <2>1
    <3> QED BY <2>1, <3>1
  <2>2. CASE ~(x \in (k + 1)..((k + 1) + Len(u) - 1))
    <3>1. x <= k <=> x <= k + m
      BY <2>2
    <3> QED BY <1>1, <2>2, <3>1
  <2> QED BY <2>1, <2>2
<1>4. Filled(p, k + 1, u) = Padded(k + m, w - m)
  BY <1>1, <1>2, <1>3 DEF Filled, Padded
<1> QED BY <1>2, <1>4 DEF p

-----------------------------------------------------------------------------
(***************************************************************************)
(* The chunks of a body: ChunksFrom is what its recursion says, whatever   *)
(* the chunks are.                                                         *)
(***************************************************************************)

\* Induction over the natural numbers for a set: what NatInduction says of a
\* predicate, which cannot be instantiated here.
LEMMA SetInduction ==
  ASSUME NEW T, 0 \in T, \A n \in Nat : n \in T => n + 1 \in T
  PROVE  Nat \subseteq T
<1> DEFINE C == Nat \ T
<1>1. SUFFICES ASSUME C # {} PROVE FALSE
  OBVIOUS
<1>2. PICK n \in C : \A m \in C : ~(<<m, n>> \in OpToRel(<, Nat))
  <2>1. C \subseteq Nat /\ C # {}
    BY <1>1
  <2> HIDE DEF C
  <2> QED BY <2>1, WFMin, NatLessThanWellFounded
<1>3. \A m \in Nat : m < n => m \in T
  BY <1>2 DEF OpToRel
<1>4. n \in Nat /\ n # 0
  BY <1>2
<1>5. n - 1 \in Nat /\ n - 1 < n /\ (n - 1) + 1 = n
  BY <1>4
<1> QED BY <1>2, <1>3, <1>5

\* After less than n units comes a chunk with at least one unit.
LEMMA ChunkEndProperties ==
  ASSUME NEW n \in Nat, NEW ends, Partition(n, ends), NEW i \in 0..n, i # n
  PROVE  ChunkEnd(ends, i) \in ends /\ ChunkEnd(ends, i) \in (i + 1)..n
<1> DEFINE C == {j \in ends : j > i}
<1>1. C \subseteq Nat /\ n \in C
  <2>1. ends \subseteq Nat /\ n \in ends /\ n > i
    BY DEF Partition
  <2> QED BY <2>1
<1>2. PICK j \in C : \A m \in C : ~(<<m, j>> \in OpToRel(<, Nat))
  <2> HIDE DEF C
  <2> QED BY <1>1, WFMin, NatLessThanWellFounded
<1>3. \A m \in C : ~(m < j)
  BY <1>1, <1>2 DEF OpToRel
<1>4. j \in ends /\ j > i /\ \A k \in (i + 1)..(j - 1) : k \notin ends
  <2>1. j \in Nat /\ j \in ends /\ j > i
    BY <1>1
  <2>2. ASSUME NEW k \in (i + 1)..(j - 1), k \in ends PROVE FALSE
    <3>1. k > i /\ k < j
      BY <2>1
    <3> QED BY <1>3, <2>2, <3>1
  <2> QED BY <2>1, <2>2
<1>5. /\ ChunkEnd(ends, i) \in ends /\ ChunkEnd(ends, i) > i
  BY <1>4 DEF ChunkEnd
<1>6. ends \subseteq 1..n
  BY DEF Partition
<1>7. \A e \in 1..n : e > i => e \in (i + 1)..n
  OBVIOUS
<1> HIDE DEF C
<1> QED BY <1>5, <1>6, <1>7

\* What comes after i units, given what comes after more.
ChunksAfter(from, n, ends, i) ==
  IF i = n THEN <<Size(0), Crlf, Crlf>>
  ELSE <<Size(ChunkEnd(ends, i) - i), Crlf>> \o Units(i, ChunkEnd(ends, i) - i)
         \o <<Crlf>> \o from[ChunkEnd(ends, i)]

\* The recursion has a solution from every place on.
LEMMA ChunksExist ==
  ASSUME NEW n \in Nat, NEW ends, Partition(n, ends)
  PROVE  \E from : from = [i \in 0..n |-> ChunksAfter(from, n, ends, i)]
<1> DEFINE Solves(from, m) == from = [i \in m..n |-> ChunksAfter(from, n, ends, i)]
           T == {d \in Nat : d <= n => \E from : Solves(from, n - d)}
<1>1. 0 \in T
  <2> DEFINE last == [i \in n..n |-> <<Size(0), Crlf, Crlf>>]
  <2>1. ASSUME NEW i \in n..n PROVE last[i] = ChunksAfter(last, n, ends, i)
    <3>1. i = n
      OBVIOUS
    <3> QED BY <3>1 DEF ChunksAfter
  <2>2. last = [i \in n..n |-> ChunksAfter(last, n, ends, i)]
    <3>1. last = [i \in n..n |-> last[i]]
      OBVIOUS
    <3> HIDE DEF last
    <3>2. [i \in n..n |-> last[i]] = [i \in n..n |-> ChunksAfter(last, n, ends, i)]
      BY <2>1
    <3> QED BY <3>1, <3>2, Zenon
  <2>3. n - 0 = n
    OBVIOUS
  <2> HIDE DEF last
  <2> QED BY <2>2, <2>3
<1>2. ASSUME NEW d \in Nat, d \in T PROVE d + 1 \in T
  <2> SUFFICES ASSUME d + 1 <= n PROVE \E from : Solves(from, n - (d + 1))
    OBVIOUS
  <2>1. PICK from : Solves(from, n - d)
    BY <1>2
  <2> DEFINE m == n - (d + 1)
             more == [i \in m..n |-> IF i = m THEN ChunksAfter(from, n, ends, i)
                                              ELSE from[i]]
  <2>2. m \in Nat /\ m < n /\ n - d = m + 1
    OBVIOUS
  <2>3. \A i \in (m + 1)..n : from[i] = ChunksAfter(from, n, ends, i)
    BY <2>1, <2>2
  <2>4. ASSUME NEW i \in m..n PROVE more[i] = ChunksAfter(more, n, ends, i)
    <3>1. i # n => more[ChunkEnd(ends, i)] = from[ChunkEnd(ends, i)]
      <4> SUFFICES ASSUME i # n PROVE more[ChunkEnd(ends, i)] = from[ChunkEnd(ends, i)]
        OBVIOUS
      <4>1. i \in 0..n
        BY <2>2
      <4>2. ChunkEnd(ends, i) \in (i + 1)..n
        BY <4>1, ChunkEndProperties
      <4> HIDE DEF m
      <4>3. ChunkEnd(ends, i) \in m..n /\ ChunkEnd(ends, i) # m
        BY <2>2, <4>2
      <4> QED BY <4>3
    <3>2. more[i] = ChunksAfter(from, n, ends, i)
      <4>1. i # m => i \in (m + 1)..n
        BY <2>2
      <4> HIDE DEF m
      <4> QED BY <2>3, <4>1
    <3> HIDE DEF more
    <3> QED BY <3>1, <3>2 DEF ChunksAfter
  <2>5. Solves(more, m)
    <3>1. more = [i \in m..n |-> more[i]]
      OBVIOUS
    <3> HIDE DEF more, m
    <3>2. [i \in m..n |-> more[i]] = [i \in m..n |-> ChunksAfter(more, n, ends, i)]
      BY <2>4
    <3> QED BY <3>1, <3>2, Zenon
  <2> HIDE DEF more, Solves
  <2> QED BY <2>5
<1>3. Nat \subseteq T
  <2> HIDE DEF T
  <2> QED BY <1>1, <1>2, SetInduction
<1>4. \E from : Solves(from, n - n)
  BY <1>3
<1>5. n - n = 0
  OBVIOUS
<1> HIDE DEF T
<1> QED BY <1>4, <1>5

\* So ChunksFrom is one.
LEMMA ChunksEquation ==
  ASSUME NEW n \in Nat, NEW ends, Partition(n, ends)
  PROVE  \A i \in 0..n : ChunksFrom(n, ends)[i] = ChunksAfter(ChunksFrom(n, ends), n, ends, i)
<1> DEFINE C == CHOOSE from : from = [i \in 0..n |-> ChunksAfter(from, n, ends, i)]
<1>1. C = [i \in 0..n |-> ChunksAfter(C, n, ends, i)]
  <2>1. \E from : from = [i \in 0..n |-> ChunksAfter(from, n, ends, i)]
    BY ChunksExist
  <2> QED BY <2>1, Zenon
<1>2. ChunksFrom(n, ends) = C
  BY DEF ChunksFrom, ChunksAfter
<1> HIDE DEF C
<1>3. \A i \in 0..n : C[i] = ChunksAfter(C, n, ends, i)
  BY <1>1
<1> QED BY <1>2, <1>3

\* A size line and its units are units.
LEMMA Lines ==
  /\ <<Crlf>> \in Seq(Unit) /\ Len(<<Crlf>>) = 1 /\ <<Crlf>>[1] = Crlf
  /\ \A k \in Nat : /\ <<Size(k), Crlf>> \in Seq(Unit) /\ Len(<<Size(k), Crlf>>) = 2
                    /\ <<Size(k), Crlf>>[1] = Size(k) /\ <<Size(k), Crlf>>[2] = Crlf
  /\ <<Size(0), Crlf, Crlf>> = <<Size(0), Crlf>> \o <<Crlf>>
<1>1. Crlf \in Unit /\ \A k \in Nat : Size(k) \in Unit
  BY DEF Crlf, Size, Unit
<1> QED BY <1>1

\* What follows the size line of a chunk that begins after i units.
AfterLine(n, ends, i) ==
  IF i = n THEN <<Crlf>>
  ELSE Units(i, ChunkEnd(ends, i) - i) \o (<<Crlf>> \o ChunksFrom(n, ends)[ChunkEnd(ends, i)])

\* The size that the line says.
LineSize(n, ends, i) == IF i = n THEN 0 ELSE ChunkEnd(ends, i) - i

\* All of the chunks are sequences of units, and each begins with its size line.
LEMMA ChunksProperties ==
  ASSUME NEW n \in Nat, NEW ends, Partition(n, ends)
  PROVE  \A i \in 0..n : /\ ChunksFrom(n, ends)[i] \in Seq(Unit)
                         /\ AfterLine(n, ends, i) \in Seq(Unit)
                         /\ LineSize(n, ends, i) \in Nat
                         /\ ChunksFrom(n, ends)[i]
                              = <<Size(LineSize(n, ends, i)), Crlf>> \o AfterLine(n, ends, i)
<1> DEFINE C == ChunksFrom(n, ends)
           A(i) == AfterLine(n, ends, i)
           L(i) == LineSize(n, ends, i)
           Good(i) == /\ C[i] \in Seq(Unit) /\ A(i) \in Seq(Unit) /\ L(i) \in Nat
                      /\ C[i] = <<Size(L(i)), Crlf>> \o A(i)
           T == {d \in Nat : \A i \in 0..n : i >= n - d => Good(i)}
<1>1. \A i \in 0..n : C[i] = ChunksAfter(C, n, ends, i)
  BY ChunksEquation
<1>2. Good(n)
  <2>1. C[n] = <<Size(0), Crlf>> \o <<Crlf>> /\ A(n) = <<Crlf>> /\ L(n) = 0
    <3>1. n \in 0..n
      OBVIOUS
    <3>2. ChunksAfter(C, n, ends, n) = <<Size(0), Crlf, Crlf>>
      BY DEF ChunksAfter
    <3>3. C[n] = <<Size(0), Crlf, Crlf>>
      BY <1>1, <3>1, <3>2
    <3>4. <<Size(0), Crlf, Crlf>> = <<Size(0), Crlf>> \o <<Crlf>>
      BY Lines
    <3> QED BY <3>3, <3>4 DEF AfterLine, LineSize
  <2>2. <<Size(0), Crlf>> \o <<Crlf>> \in Seq(Unit)
    BY Lines
  <2> HIDE DEF C
  <2> QED BY <2>1, <2>2, Lines
<1> HIDE DEF Good
<1>3. ASSUME NEW i \in 0..n, i # n, Good(ChunkEnd(ends, i)) PROVE Good(i)
  <2> DEFINE j == ChunkEnd(ends, i)
  <2>1. j \in (i + 1)..n
    BY <1>3, ChunkEndProperties
  <2> HIDE DEF j, C
  <2>2. j - i \in Nat
    BY <2>1
  <2>3. /\ <<Size(j - i), Crlf>> \in Seq(Unit) /\ Units(i, j - i) \in Seq(Unit)
        /\ <<Crlf>> \in Seq(Unit) /\ C[j] \in Seq(Unit)
    BY <1>3, <2>2, Lines, UnitsProperties DEF j, Good
  <2>4. <<Crlf>> \o C[j] \in Seq(Unit) /\ Units(i, j - i) \o (<<Crlf>> \o C[j]) \in Seq(Unit)
    BY <2>3, ConcatProperties
  <2>5. L(i) = j - i /\ A(i) = Units(i, j - i) \o (<<Crlf>> \o C[j])
    BY <1>3 DEF AfterLine, LineSize, j, C
  <2>6. C[i] = <<Size(j - i), Crlf>> \o Units(i, j - i) \o <<Crlf>> \o C[j]
    BY <1>1, <1>3 DEF ChunksAfter, j
  <2>7. C[i] = <<Size(L(i)), Crlf>> \o A(i)
    <3>1. <<Size(j - i), Crlf>> \o Units(i, j - i) \o <<Crlf>> \o C[j]
            = <<Size(j - i), Crlf>> \o (Units(i, j - i) \o (<<Crlf>> \o C[j]))
      <4> DEFINE line == <<Size(j - i), Crlf>>
                 u == Units(i, j - i)
                 e == <<Crlf>>
                 r == C[j]
      <4>1. line \in Seq(Unit) /\ u \in Seq(Unit) /\ e \in Seq(Unit) /\ r \in Seq(Unit)
        BY <2>3
      <4> HIDE DEF line, u, e, r
      <4>2. Joined(Joined(Joined(line, u), e), r) = Joined(line, Joined(u, Joined(e, r)))
        BY <4>1, JoinedProperties
      <4> QED BY <4>2 DEF line, u, e, r, Joined
    <3> QED BY <2>5, <2>6, <3>1
  <2>8. <<Size(L(i)), Crlf>> \o A(i) \in Seq(Unit)
    BY <2>3, <2>4, <2>5, ConcatProperties
  <2> HIDE DEF A, L
  <2> QED BY <2>2, <2>4, <2>5, <2>7, <2>8 DEF Good
<1>4. 0 \in T
  <2>1. \A i \in 0..n : i >= n - 0 => i = n
    OBVIOUS
  <2> QED BY <1>2, <2>1
<1>5. ASSUME NEW d \in Nat, d \in T PROVE d + 1 \in T
  <2> SUFFICES ASSUME NEW i \in 0..n, i >= n - (d + 1) PROVE Good(i)
    OBVIOUS
  <2>1. CASE i = n
    BY <1>2, <2>1
  <2>2. CASE i # n
    <3>1. ChunkEnd(ends, i) \in (i + 1)..n
      BY <2>2, ChunkEndProperties
    <3>2. ChunkEnd(ends, i) \in 0..n /\ ChunkEnd(ends, i) >= n - d
      BY <3>1
    <3>3. Good(ChunkEnd(ends, i))
      BY <1>5, <3>2
    <3> QED BY <1>3, <2>2, <3>3
  <2> QED BY <2>1, <2>2
<1>6. n \in T
  <2> HIDE DEF T
  <2> QED BY <1>4, <1>5, SetInduction
<1>7. \A i \in 0..n : Good(i)
  BY <1>6
<1> QED BY <1>7 DEF Good

-----------------------------------------------------------------------------
(***************************************************************************)
(* What the receiving coroutine makes of its buffer.                       *)
(***************************************************************************)

\* White space is skipped up to the first unit that is something else.
LEMMA SkipSpaceProperties ==
  ASSUME NEW b \in Seq(Unit), NEW k \in 0..Len(b),
         \A x \in 1..k : b[x] = Crlf, k < Len(b) => b[k + 1] # Crlf
  PROVE  SkipSpace(b) = Rest(b, k)
<1> DEFINE Skips(j) == (\A x \in 1..j : b[x] = Crlf) /\ (j < Len(b) => b[j + 1] # Crlf)
<1>1. Skips(k)
  OBVIOUS
<1>2. ASSUME NEW j \in 0..Len(b), Skips(j) PROVE j = k
  <2>1. Len(b) \in Nat /\ j \in Nat /\ k \in Nat
    OBVIOUS
  <2>2. j < k => j + 1 \in 1..k /\ j < Len(b)
    BY <2>1
  <2>3. k < j => k + 1 \in 1..j /\ k < Len(b)
    BY <2>1
  <2>4. ~(j < k) /\ ~(k < j)
    BY <1>1, <1>2, <2>2, <2>3
  <2> QED BY <2>1, <2>4
<1>3. (CHOOSE j \in 0..Len(b) : Skips(j)) = k
  <2> HIDE DEF Skips
  <2> QED BY <1>1, <1>2
<1> QED BY <1>3 DEF SkipSpace

\* A buffer that begins with a size line.
LEMMA LineIsRead ==
  ASSUME NEW m \in Nat, NEW b \in Seq(Unit), NEW s \in Seq(Unit), NEW c \in Seq(Unit),
         Joined(b, s) = Joined(<<Size(m), Crlf>>, c), Len(b) >= 2
  PROVE  /\ b[1] = Size(m) /\ b[2] = Crlf
         /\ Head(b) = Size(m)
         /\ Rest(b, 2) \in Seq(Unit) /\ Joined(Rest(b, 2), s) = c
<1> DEFINE line == <<Size(m), Crlf>>
<1>1. line \in Seq(Unit) /\ Len(line) = 2 /\ line[1] = Size(m) /\ line[2] = Crlf
  BY Lines
<1>2. Joined(b, s) = Joined(line, c)
  OBVIOUS
<1> HIDE DEF line
<1>3. 2 \in 0..Len(b) /\ First(b, 2) = line /\ Rest(b, 2) \in Seq(Unit)
      /\ Joined(Rest(b, 2), s) = c
  <2>1. Len(line) <= Len(b)
    BY <1>1
  <2>2. /\ Len(line) \in 0..Len(b) /\ First(b, Len(line)) = line
        /\ Rest(b, Len(line)) \in Seq(Unit) /\ Joined(Rest(b, Len(line)), s) = c
    <3>1. line \in Seq(Unit)
      BY <1>1
    <3> QED BY <1>2, <2>1, <3>1, Overlap
  <2> QED BY <1>1, <2>2
<1>4. \A x \in 1..2 : First(b, 2)[x] = b[x]
  BY <1>3, CutElements
<1>5. b[1] = Size(m) /\ b[2] = Crlf
  BY <1>1, <1>3, <1>4
<1>6. Head(b) = b[1]
  OBVIOUS
<1> QED BY <1>3, <1>5, <1>6

\* The size line of a chunk is read, with the line end of the chunk before, as soon
\* as it matches: what is left is what comes after it.
LEMMA ChunkInProperties ==
  ASSUME NEW m \in Nat, NEW b \in Seq(Unit), NEW s \in Seq(Unit), NEW c \in Seq(Unit),
         SizeLine(b),
         \/ Joined(b, s) = Joined(<<Size(m), Crlf>>, c)
         \/ Joined(b, s) = Joined(<<Crlf>>, Joined(<<Size(m), Crlf>>, c))
  PROVE  /\ ChunkIn(b).size = m
         /\ ChunkIn(b).buf \in Seq(Unit)
         /\ Joined(ChunkIn(b).buf, s) = c
<1> DEFINE line == <<Size(m), Crlf>>
           r == Rest(b, 1)
<1>1. Len(b) \in Nat /\ Size(m).n = m /\ Size(m) # Crlf /\ Crlf.is # "size"
  BY DEF Size, Crlf
<1>2. PICK x \in 1..(Len(b) - 1) : b[x].is = "size"
  BY DEF SizeLine
<1>3. Len(b) >= 2
  BY <1>1, <1>2
<1>4. CASE Joined(b, s) = Joined(line, c)
  <2>1. /\ b[1] = Size(m) /\ Head(b) = Size(m)
        /\ Rest(b, 2) \in Seq(Unit) /\ Joined(Rest(b, 2), s) = c
    BY <1>3, <1>4, LineIsRead
  <2>2. SkipSpace(b) = Rest(b, 0)
    <3>1. 0 \in 0..Len(b) /\ (\A y \in 1..0 : b[y] = Crlf) /\ b[0 + 1] # Crlf
      BY <1>1, <2>1
    <3> QED BY <3>1, SkipSpaceProperties
  <2>3. Rest(b, 0) = b
    <3>1. SubSeq(b, 1, Len(b)) = b
      BY SubSeqFull
    <3> QED BY <3>1 DEF Rest
  <2> QED BY <1>1, <2>1, <2>2, <2>3 DEF ChunkIn
<1>5. CASE Joined(b, s) = Joined(<<Crlf>>, Joined(line, c))
  <2> DEFINE e == <<Crlf>>
             t == Joined(line, c)
  <2>1. e \in Seq(Unit) /\ Len(e) = 1 /\ e[1] = Crlf /\ t \in Seq(Unit)
    <3>1. line \in Seq(Unit)
      BY Lines
    <3> HIDE DEF line
    <3> QED BY <3>1, Lines, JoinedProperties
  <2>2. Joined(b, s) = Joined(e, t)
    BY <1>5
  <2> HIDE DEF e, t
  <2>3. 1 \in 0..Len(b) /\ First(b, 1) = e /\ r \in Seq(Unit) /\ Joined(r, s) = t
    <3>1. Len(e) <= Len(b)
      BY <1>1, <1>3, <2>1
    <3>2. /\ Len(e) \in 0..Len(b) /\ First(b, Len(e)) = e
          /\ Rest(b, Len(e)) \in Seq(Unit) /\ Joined(Rest(b, Len(e)), s) = t
      <4>1. e \in Seq(Unit) /\ t \in Seq(Unit)
        BY <2>1
      <4> QED BY <2>2, <3>1, <4>1, Overlap
    <3> QED BY <2>1, <3>2
  <2>4. /\ \A y \in 1..1 : First(b, 1)[y] = b[y]
        /\ Len(r) = Len(b) - 1 /\ \A y \in 1..(Len(b) - 1) : r[y] = b[1 + y]
    <3>1. b \in Seq(Unit) /\ 1 \in 0..Len(b)
      BY <2>3
    <3>2. /\ \A y \in 1..1 : First(b, 1)[y] = b[y]
          /\ Len(Rest(b, 1)) = Len(b) - 1
          /\ \A y \in 1..(Len(b) - 1) : Rest(b, 1)[y] = b[1 + y]
      BY <3>1, CutElements
    <3> QED BY <3>2
  <2>5. b[1] = Crlf
    BY <2>1, <2>3, <2>4
  <2>6. Len(r) >= 2
    <3>1. x # 1
      BY <1>1, <1>2, <2>5
    <3> HIDE DEF r
    <3> QED BY <1>1, <1>2, <2>4, <3>1
  <2>7. /\ r[1] = Size(m) /\ Head(r) = Size(m)
        /\ Rest(r, 2) \in Seq(Unit) /\ Joined(Rest(r, 2), s) = c
    <3>1. Joined(r, s) = Joined(line, c)
      BY <2>3 DEF t
    <3> HIDE DEF r
    <3> QED BY <2>3, <2>6, <3>1, LineIsRead
  <2>8. SkipSpace(b) = r
    <3>1. 1 \in 1..(Len(b) - 1)
      BY <1>1, <1>3
    <3>2. b[1 + 1] # Crlf
      BY <1>1, <2>4, <2>7, <3>1
    <3>3. \A y \in 1..1 : b[y] = Crlf
      BY <2>5
    <3> QED BY <2>3, <3>2, <3>3, SkipSpaceProperties
  <2> HIDE DEF r
  <2> QED BY <1>1, <2>7, <2>8 DEF ChunkIn
<1> QED BY <1>4, <1>5

\* Units of a body that come next are in the buffer as far as it goes.
LEMMA UnitsAreRead ==
  ASSUME NEW i \in Nat, NEW m \in Nat, NEW b \in Seq(Unit), NEW s \in Seq(Unit),
         NEW c \in Seq(Unit), Joined(b, s) = Joined(Units(i, m), c)
  PROVE  /\ Len(b) >= m => /\ First(b, m) = Units(i, m)
                           /\ Rest(b, m) \in Seq(Unit) /\ Joined(Rest(b, m), s) = c
         /\ Len(b) <= m => /\ b = Units(i, Len(b))
                           /\ s = Joined(Units(i + Len(b), m - Len(b)), c)
<1> DEFINE u == Units(i, m)
<1>1. u \in Seq(Unit) /\ Len(u) = m /\ Len(b) \in Nat
  BY UnitsProperties
<1>2. ASSUME Len(b) >= m
      PROVE  First(b, m) = u /\ Rest(b, m) \in Seq(Unit) /\ Joined(Rest(b, m), s) = c
  <2> HIDE DEF u
  <2>1. Joined(b, s) = Joined(u, c) /\ Len(u) <= Len(b)
    BY <1>1, <1>2 DEF u
  <2> QED BY <1>1, <2>1, Overlap
<1>3. ASSUME Len(b) <= m
      PROVE  b = Units(i, Len(b)) /\ s = Joined(Units(i + Len(b), m - Len(b)), c)
  <2>1. First(u, Len(b)) = b /\ Joined(Rest(u, Len(b)), c) = s
    <3> HIDE DEF u
    <3>1. Joined(u, c) = Joined(b, s) /\ Len(b) <= Len(u)
      BY <1>1, <1>3 DEF u
    <3> QED BY <1>1, <3>1, Overlap
  <2>2. Len(b) \in 0..m
    BY <1>1, <1>3
  <2>3. First(u, Len(b)) = Units(i, Len(b)) /\ Rest(u, Len(b)) = Units(i + Len(b), m - Len(b))
    BY <2>2, UnitsCut
  <2> QED BY <2>1, <2>3
<1> QED BY <1>2, <1>3

\* When nothing else comes, the buffer has the first of the units and the stream
\* the others.
LEMMA BodyIsRead ==
  ASSUME NEW i \in Nat, NEW m \in Nat, NEW b \in Seq(Unit), NEW s \in Seq(Unit)
  PROVE  Joined(b, s) = Units(i, m) =>
           /\ Len(b) \in 0..m
           /\ b = Units(i, Len(b)) /\ s = Units(i + Len(b), m - Len(b))
<1>0. \A c \in Seq(Unit) :
        Joined(b, s) = Joined(Units(i, m), c) /\ Len(b) <= m
          => b = Units(i, Len(b)) /\ s = Joined(Units(i + Len(b), m - Len(b)), c)
  BY UnitsAreRead
<1> SUFFICES ASSUME Joined(b, s) = Units(i, m)
             PROVE  /\ Len(b) \in 0..m
                    /\ b = Units(i, Len(b)) /\ s = Units(i + Len(b), m - Len(b))
  OBVIOUS
<1> DEFINE l == Len(b)
           c == <<>>
<1>1. c \in Seq(Unit) /\ \A t \in Seq(Unit) : Joined(t, c) = t
  BY ConcatEmptySeq DEF Joined
<1> HIDE DEF c
<1>2. l \in Nat /\ Len(s) \in Nat /\ l + Len(s) = m
  <2>1. Len(Joined(b, s)) = Len(b) + Len(s)
    BY ConcatProperties DEF Joined
  <2>2. Len(Units(i, m)) = m
    BY UnitsProperties
  <2>3. Len(b) \in Nat /\ Len(s) \in Nat
    OBVIOUS
  <2> QED BY <2>1, <2>2, <2>3
<1>3. l \in 0..m /\ l <= m /\ i + l \in Nat /\ m - l \in Nat
  BY <1>2
<1>4. b = Units(i, l) /\ s = Joined(Units(i + l, m - l), c)
  <2>1. Joined(b, s) = Joined(Units(i, m), c)
    <3>1. Units(i, m) \in Seq(Unit)
      BY UnitsProperties
    <3> QED BY <1>1, <3>1
  <2>2. c \in Seq(Unit)
    BY <1>1
  <2>3. Len(b) <= m => b = Units(i, Len(b)) /\ s = Joined(Units(i + Len(b), m - Len(b)), c)
    BY <1>0, <2>1, <2>2
  <2> QED BY <1>3, <2>3
<1>5. Joined(Units(i + l, m - l), c) = Units(i + l, m - l)
  <2>1. Units(i + l, m - l) \in Seq(Unit)
    BY <1>3, UnitsProperties
  <2> QED BY <1>1, <2>1
<1> QED BY <1>3, <1>4, <1>5

-----------------------------------------------------------------------------
(***************************************************************************)
(* Each action leaves the decoder as DecoderInv says.                      *)
(***************************************************************************)

\* What a server sends.
LEMMA MessageProperties ==
  ASSUME NEW m \in Messages
  PROVE  /\ m.size \in Nat /\ m.wire \in Seq(Unit)
         /\ m.framing \in {"length", "illegal", "stream", "chunked"}
         /\ m.framing = "length" => m.wire \in {Units(0, m.size), Units(0, m.size + 1)}
         /\ m.framing = "stream" => m.wire = Units(0, m.size)
         /\ m.framing = "chunked" =>
              \E ends \in SUBSET (1..m.size) :
                Partition(m.size, ends) /\ m.wire = ChunksFrom(m.size, ends)[0]
<1>1. PICK n \in 0..MaxSize :
        \/ m \in {Message("length", n, Body(n)), Message("length", n, Body(n + 1)),
                  Message("illegal", n, Body(n)), Message("stream", n, Body(n))}
        \/ \E ends \in SUBSET (1..n) :
             m = Message("chunked", n, Chunked(n, (ends \cup {n}) \ {0}))
  BY DEF Messages
<1>2. n \in Nat /\ n + 1 \in Nat
  BY SizeAssumption
<1>3. /\ Body(n) = Units(0, n) /\ Body(n + 1) = Units(0, n + 1)
      /\ Units(0, n) \in Seq(Unit) /\ Units(0, n + 1) \in Seq(Unit)
  <2>1. Body(n) = Units(0, n) /\ Body(n + 1) = Units(0, n + 1)
    BY <1>2, BodyIsUnits
  <2>2. Units(0, n) \in Seq(Unit) /\ Units(0, n + 1) \in Seq(Unit)
    BY <1>2, UnitsProperties
  <2> QED BY <2>1, <2>2
<1>4. CASE m \in {Message("length", n, Body(n)), Message("length", n, Body(n + 1)),
                  Message("illegal", n, Body(n)), Message("stream", n, Body(n))}
  BY <1>2, <1>3, <1>4 DEF Message
<1>5. ASSUME NEW ends \in SUBSET (1..n),
             m = Message("chunked", n, Chunked(n, (ends \cup {n}) \ {0}))
      PROVE  /\ m.size = n /\ m.framing = "chunked" /\ m.wire \in Seq(Unit)
             /\ \E e \in SUBSET (1..n) : Partition(n, e) /\ m.wire = ChunksFrom(n, e)[0]
  <2> DEFINE e == (ends \cup {n}) \ {0}
  <2>1. e \in SUBSET (1..n) /\ Partition(n, e)
    BY <1>2 DEF Partition
  <2>2. m.size = n /\ m.framing = "chunked" /\ m.wire = ChunksFrom(n, e)[0]
    BY <1>5 DEF Message, Chunked
  <2> HIDE DEF e
  <2>3. ChunksFrom(n, e)[0] \in Seq(Unit)
    <3>1. \A i \in 0..n : ChunksFrom(n, e)[i] \in Seq(Unit)
      BY <1>2, <2>1, ChunksProperties
    <3> QED BY <1>2, <3>1
  <2> QED BY <2>1, <2>2, <2>3
<1> QED BY <1>1, <1>2, <1>4, <1>5

\* A response that is finished.
LEMMA NothingIsPadded == <<>> = Padded(0, 0)
BY DEF Padded

\* A new message has not been decoded at all.
LEMMA ServeKeeps ==
  ASSUME Serve
  PROVE  SourceType' /\ Undecoded'
<1>1. message' \in Messages /\ message'.wire \in Seq(Unit)
  BY MessageProperties DEF Serve
<1>2. <<>> \o message'.wire = message'.wire
  BY <1>1, ConcatEmptySeq
<1> QED BY <1>1, <1>2 DEF Serve, SourceType, Undecoded

\* An error ends the chain.
LEMMA FailureKeeps ==
  ASSUME SourceType, NotConnected \/ TransferFailed
  PROVE  SourceType' /\ AnswerInv' /\ DecoderInv'
BY DEF NotConnected, TransferFailed, Answered, sourceVars, SourceType, AnswerInv, DecoderInv

\* So does a finished response, or it starts the chain again.
LEMMA RespondKeeps ==
  ASSUME SourceType, AnswerInv, phase \in Transfers,
         NEW r, Delivered(r), Respond(r), UNCHANGED lapses
  PROVE  SourceType' /\ AnswerInv' /\ DecoderInv'
<1>1. CASE Deliver(r)
  <2>1. /\ phase' = "done" /\ result' = "pending" /\ answer' \in {"ok", "error"}
        /\ response' = r /\ UNCHANGED <<message, stream, buf, wanted, lapses>>
    BY <1>1 DEF Deliver, Answered
  <2>2. Delivered(response)'
    BY <2>1 DEF Delivered
  <2>3. SourceType'
    BY <2>1 DEF SourceType
  <2> QED BY <2>1, <2>2, <2>3 DEF AnswerInv, DecoderInv
<1>2. CASE Connection /\ Serve /\ UNCHANGED answer
  <2>1. answer = "none"
    BY DEF AnswerInv, Transfers
  <2>2. phase' = "resolve" /\ result' = "pending" /\ answer' = "none"
    BY <1>2, <2>1 DEF Connection
  <2>3. SourceType' /\ Undecoded'
    BY <1>2, ServeKeeps
  <2> QED BY <2>2, <2>3 DEF AnswerInv, DecoderInv
<1> QED BY <1>1, <1>2 DEF Respond

\* Another operation of the transfer is started with what it finds.
LEMMA ReceiveKeeps ==
  ASSUME SourceType, AnswerInv, phase \in Transfers,
         NEW op \in Transfers \ {"write"}, NEW r, NEW w \in Nat, NEW b \in Seq(Unit),
         Receive(op, r, w, b), UNCHANGED lapses,
         op = "header" => Undecoded', op = "length" => Filling',
         op = "chunk_size" => BetweenChunks', op = "chunk" => FillingChunk',
         op = "stream" => Streaming' /\ b = <<>>
  PROVE  SourceType' /\ AnswerInv' /\ DecoderInv'
<1>1. /\ phase' = op /\ UNCHANGED <<message, stream, answer>>
      /\ response' = r /\ wanted' = w /\ buf' = b
      /\ result' \in {"ok", "pending", "error"}
      /\ result' = "ok" => op = "chunk_size" /\ SizeLine(b)
  BY DEF Receive, Then
<1>2. SourceType'
  BY <1>1 DEF SourceType
<1>3. AnswerInv'
  BY <1>1 DEF AnswerInv, Transfers
<1>4. DecoderInv'
  BY <1>1 DEF DecoderInv, Transfers
<1> QED BY <1>2, <1>3, <1>4

\* The header has been read: nothing of the body has been decoded yet.
LEMMA HeaderKeeps ==
  ASSUME SourceType, AnswerInv, Undecoded, OnHeader, UNCHANGED lapses
  PROVE  SourceType' /\ AnswerInv' /\ DecoderInv'
<1> DEFINE n == message.size
<1>1. /\ n \in Nat /\ phase \in Transfers /\ buf \in Seq(Unit) /\ stream \in Seq(Unit)
      /\ Joined(buf, stream) = message.wire
  BY MessageProperties DEF OnHeader, Transfers, SourceType, Undecoded, Joined
<1>2. CASE message.framing = "length" /\ OnLengthHeader
  <2>1. PICK m \in Nat : m >= n /\ message.wire = Units(0, m)
    <3>1. message.wire \in {Units(0, n), Units(0, n + 1)}
      BY <1>2, MessageProperties DEF SourceType
    <3> QED BY <1>1, <3>1
  <2>2. Joined(buf, stream) = Units(0, m) /\ 0 \in Nat
    BY <1>1, <2>1
  <2>3. Len(buf) \in Nat /\ Len(buf) <= m
        /\ buf = Units(0, Len(buf)) /\ stream = Units(Len(buf), m - Len(buf))
    <3>1. /\ Len(buf) \in 0..m /\ buf = Units(0, Len(buf))
          /\ stream = Units(0 + Len(buf), m - Len(buf))
      BY <1>1, <2>1, <2>2, BodyIsRead
    <3>2. \A l \in 0..m : l \in Nat /\ l <= m /\ 0 + l = l
      OBVIOUS
    <3> QED BY <3>1, <3>2
  <2> DEFINE l == Len(buf)
  <2>4. CASE n - l > 0 /\ Receive("length", Resized(buf, n), n - l, <<>>)
    <3>1. n - l \in Nat /\ n - l <= m - l /\ l \in 0..n /\ n = l + (n - l) /\ m - l \in Nat
      BY <1>1, <2>1, <2>3, <2>4
    <3>2. Resized(buf, n) = Padded(l, n - l)
      <4>1. buf = Body(l) /\ Body(l) \o Zeros(n - l) = Padded(l, n - l)
        <5>1. Body(l) = Units(0, l)
          BY <2>3, BodyIsUnits
        <5>2. Body(l) \o Zeros(n - l) = Padded(l, n - l)
          BY <2>3, <3>1, PaddedIsBody
        <5> QED BY <2>3, <5>1, <5>2
      <4>2. ~(n <= l)
        BY <1>1, <2>3, <2>4
      <4> QED BY <4>1, <4>2 DEF Resized
    <3>3. Len(stream) = m - l /\ \A x \in 1..(m - l) : stream[x] = Data(l + x)
      BY <2>3, <3>1, UnitsProperties
    <3>4. /\ UNCHANGED <<message, stream>>
          /\ response' = Padded(l, n - l) /\ wanted' = n - l
      BY <2>4, <3>2 DEF Receive
    <3>5. Filling'
      <4>1. \A x \in 1..(n - l) : x \in 1..(m - l)
        BY <3>1
      <4>2. /\ l \in 0..n /\ n = l + wanted' /\ wanted' > 0
            /\ response' = Padded(l, wanted')
            /\ Len(stream') >= wanted' /\ \A x \in 1..wanted' : stream'[x] = Data(l + x)
        BY <2>4, <3>1, <3>3, <3>4, <4>1
      <4> QED BY <3>4, <4>2 DEF Filling
    <3>6. "length" \in Transfers \ {"write"} /\ <<>> \in Seq(Unit)
      BY DEF Transfers
    <3> QED BY <1>1, <2>4, <3>1, <3>5, <3>6, ReceiveKeeps
  <2>5. CASE n - l <= 0 /\ Respond(Resized(buf, n))
    <3>1. Resized(buf, n) = Padded(n, 0)
      <4>1. n <= l /\ n \in 0..l
        BY <1>1, <2>3, <2>5
      <4>2. First(Units(0, l), n) = Units(0, n)
        <5>1. 0 \in Nat
          OBVIOUS
        <5> QED BY <2>3, <4>1, <5>1, UnitsCut
      <4>3. Units(0, n) = Padded(n, 0)
        BY <1>1, BodyIsUnits, PaddedIsBody
      <4> QED BY <2>3, <4>1, <4>2, <4>3 DEF Resized
    <3>2. Delivered(Resized(buf, n))
      <4>1. n \in 0..n /\ 0 \in 0..n
        BY <1>1
      <4> QED BY <3>1, <4>1 DEF Delivered
    <3> QED BY <1>1, <2>5, <3>2, RespondKeeps
  <2> QED BY <1>2, <2>4, <2>5 DEF OnLengthHeader
<1>3. CASE TransferFailed
  BY <1>3, FailureKeeps
<1>4. CASE message.framing = "chunked" /\ Receive("chunk_size", <<>>, 0, buf)
  <2>1. PICK ends \in SUBSET (1..n) : Partition(n, ends) /\ message.wire = ChunksFrom(n, ends)[0]
    BY <1>4, MessageProperties DEF SourceType
  <2>2. /\ UNCHANGED <<message, stream>> /\ response' = <<>> /\ buf' = buf
    BY <1>4 DEF Receive
  <2>3. BetweenChunks'
    <3>1. /\ 0 \in 0..n /\ response' = Padded(0, 0)
          /\ buf' \o stream' = ChunksFrom(n, ends)[0]
      BY <1>1, <2>1, <2>2, NothingIsPadded DEF Joined
    <3> QED BY <2>1, <2>2, <3>1 DEF BetweenChunks
  <2>4. "chunk_size" \in Transfers \ {"write"} /\ 0 \in Nat
    BY DEF Transfers
  <2> QED BY <1>1, <1>4, <2>3, <2>4, ReceiveKeeps
<1>5. CASE message.framing = "stream" /\ Receive("stream", buf, 0, <<>>)
  <2>1. Joined(buf, stream) = Units(0, n)
    BY <1>1, <1>5, MessageProperties DEF SourceType
  <2>2. /\ UNCHANGED <<message, stream>> /\ response' = buf /\ buf' = <<>>
    BY <1>5 DEF Receive
  <2>3. \E k \in 0..n : buf = Padded(k, 0) /\ stream = Units(k, n - k)
    <3> DEFINE l == Len(buf)
    <3>1. 0 \in Nat
      OBVIOUS
    <3>2. l \in 0..n /\ buf = Units(0, l) /\ stream = Units(0 + l, n - l)
      BY <1>1, <2>1, <3>1, BodyIsRead
    <3>3. l \in Nat /\ 0 + l = l
      BY <3>2
    <3>4. Units(0, l) = Padded(l, 0)
      BY <3>3, BodyIsUnits, PaddedIsBody
    <3> QED BY <3>2, <3>3, <3>4
  <2>4. Streaming'
    <3>1. <<>> \o stream = stream
      BY <1>1, ConcatEmptySeq
    <3> QED BY <2>2, <2>3, <3>1 DEF Streaming
  <2>5. "stream" \in Transfers \ {"write"} /\ 0 \in Nat /\ <<>> \in Seq(Unit)
    BY DEF Transfers
  <2> QED BY <1>1, <1>5, <2>4, <2>5, ReceiveKeeps
<1> QED BY <1>2, <1>3, <1>4, <1>5 DEF OnHeader

\* A size line ends the body, or its chunk is decoded, or what is there of it.
LEMMA ChunkSizeKeeps ==
  ASSUME SourceType, AnswerInv, BetweenChunks, SizeLine(buf), OnChunkSize, UNCHANGED lapses
  PROVE  SourceType' /\ AnswerInv' /\ DecoderInv'
<1> DEFINE n == message.size
           d == ChunkIn(buf).buf
<1>1. /\ n \in Nat /\ phase \in Transfers /\ buf \in Seq(Unit) /\ stream \in Seq(Unit)
  BY MessageProperties DEF OnChunkSize, Transfers, SourceType
<1>2. PICK ends \in SUBSET (1..n), i \in 0..n :
        /\ Partition(n, ends) /\ response = Padded(i, 0)
        /\ \/ buf \o stream = ChunksFrom(n, ends)[i]
           \/ buf \o stream = <<Crlf>> \o ChunksFrom(n, ends)[i]
  BY DEF BetweenChunks
<1> DEFINE m == LineSize(n, ends, i)
           c == AfterLine(n, ends, i)
<1>3. /\ ChunksFrom(n, ends)[i] = Joined(<<Size(m), Crlf>>, c)
      /\ m \in Nat /\ c \in Seq(Unit)
  <2>1. \A j \in 0..n : /\ ChunksFrom(n, ends)[j]
                             = <<Size(LineSize(n, ends, j)), Crlf>> \o AfterLine(n, ends, j)
                        /\ LineSize(n, ends, j) \in Nat /\ AfterLine(n, ends, j) \in Seq(Unit)
    BY <1>1, <1>2, ChunksProperties
  <2> QED BY <2>1 DEF Joined
<1>4. ChunkIn(buf).size = m /\ d \in Seq(Unit) /\ Joined(d, stream) = c
  <2>1. \/ Joined(buf, stream) = Joined(<<Size(m), Crlf>>, c)
        \/ Joined(buf, stream) = Joined(<<Crlf>>, Joined(<<Size(m), Crlf>>, c))
    BY <1>2, <1>3 DEF Joined
  <2> HIDE DEF m, c
  <2> QED BY <1>1, <1>3, <2>1, ChunkInProperties
<1>5. CASE m = 0 /\ Respond(response)
  <2>1. i = n
    <3>1. i # n => ChunkEnd(ends, i) \in (i + 1)..n
      BY <1>1, <1>2, ChunkEndProperties
    <3>2. i # n => m = ChunkEnd(ends, i) - i
      BY DEF LineSize
    <3> QED BY <1>5, <3>1, <3>2
  <2>2. Delivered(response)
    <3>1. n \in 0..n /\ 0 \in 0..n
      BY <1>1
    <3> QED BY <1>2, <2>1, <3>1 DEF Delivered
  <2> QED BY <1>1, <1>5, <2>2, RespondKeeps
<1>6. ASSUME m > 0
      PROVE  \E j \in 0..n :
               /\ j = i + m
               /\ <<Crlf>> \o ChunksFrom(n, ends)[j] \in Seq(Unit)
               /\ Joined(d, stream) = Joined(Units(i, m), <<Crlf>> \o ChunksFrom(n, ends)[j])
  <2> DEFINE j == ChunkEnd(ends, i)
  <2>1. i # n
    BY <1>6 DEF LineSize
  <2>2. j \in (i + 1)..n
    BY <1>1, <1>2, <2>1, ChunkEndProperties
  <2>3. m = j - i /\ c = Units(i, j - i) \o (<<Crlf>> \o ChunksFrom(n, ends)[j])
    BY <2>1 DEF LineSize, AfterLine
  <2> HIDE DEF m, c, j
  <2>4. j \in 0..n /\ j = i + m
    BY <2>2, <2>3
  <2>5. <<Crlf>> \o ChunksFrom(n, ends)[j] \in Seq(Unit)
    <3>1. \A k \in 0..n : ChunksFrom(n, ends)[k] \in Seq(Unit)
      BY <1>1, <1>2, ChunksProperties
    <3>2. <<Crlf>> \in Seq(Unit)
      BY Lines
    <3> QED BY <2>4, <3>1, <3>2, ConcatProperties
  <2>6. Joined(d, stream) = Joined(Units(i, m), <<Crlf>> \o ChunksFrom(n, ends)[j])
    BY <1>4, <2>3 DEF Joined
  <2> QED BY <2>4, <2>5, <2>6
<1> HIDE DEF m, c
<1>7. CASE /\ m > 0 /\ m - Len(d) <= 0
           /\ Receive("chunk_size", response \o First(d, m), 0, Rest(d, m))
  <2>1. PICK j \in 0..n :
               /\ j = i + m
               /\ <<Crlf>> \o ChunksFrom(n, ends)[j] \in Seq(Unit)
               /\ Joined(d, stream) = Joined(Units(i, m), <<Crlf>> \o ChunksFrom(n, ends)[j])
    BY <1>6, <1>7
  <2> DEFINE t == <<Crlf>> \o ChunksFrom(n, ends)[j]
  <2>2. /\ First(d, m) = Units(i, m) /\ Rest(d, m) \in Seq(Unit)
        /\ Joined(Rest(d, m), stream) = t
    <3>1. Len(d) >= m
      <4>1. Len(d) \in Nat
        BY <1>4
      <4> QED BY <1>3, <1>7, <4>1
    <3>2. t \in Seq(Unit) /\ Joined(d, stream) = Joined(Units(i, m), t)
      BY <2>1
    <3> HIDE DEF t, d
    <3> QED BY <1>1, <1>3, <1>4, <3>1, <3>2, UnitsAreRead
  <2>3. /\ UNCHANGED <<message, stream>> /\ buf' = Rest(d, m)
        /\ response' = response \o Units(i, m)
    BY <1>7, <2>2 DEF Receive
  <2>4. response' = Padded(j, 0)
    <3>1. Padded(i, 0) \o Units(i, m) = Padded(i + m, 0)
      <4>1. i \in Nat /\ m \in Nat
        BY <1>1, <1>3
      <4> QED BY <4>1, PaddedAppend
    <3> QED BY <1>2, <2>1, <2>3, <3>1
  <2>5. BetweenChunks'
    <3>1. buf' \o stream' = <<Crlf>> \o ChunksFrom(n, ends)[j]
      BY <2>2, <2>3 DEF Joined
    <3> QED BY <1>2, <2>3, <2>4, <3>1 DEF BetweenChunks
  <2>6. "chunk_size" \in Transfers \ {"write"} /\ 0 \in Nat
    BY DEF Transfers
  <2> QED BY <1>1, <1>7, <2>2, <2>5, <2>6, ReceiveKeeps
<1>8. CASE /\ m - Len(d) > 0
           /\ Receive("chunk", response \o d \o Zeros(m - Len(d)), m - Len(d), <<>>)
  <2> DEFINE l == Len(d)
             w == m - l
  <2>1. l \in Nat /\ w \in Nat /\ l <= m /\ m > 0 /\ w > 0
    <3>1. Len(d) \in Nat
      BY <1>4
    <3> QED BY <1>3, <1>8, <3>1
  <2>2. PICK j \in 0..n :
               /\ j = i + m
               /\ <<Crlf>> \o ChunksFrom(n, ends)[j] \in Seq(Unit)
               /\ Joined(d, stream) = Joined(Units(i, m), <<Crlf>> \o ChunksFrom(n, ends)[j])
    BY <1>6, <2>1
  <2> DEFINE t == <<Crlf>> \o ChunksFrom(n, ends)[j]
  <2>3. d = Units(i, l) /\ stream = Joined(Units(i + l, w), t)
    <3>1. t \in Seq(Unit) /\ Joined(d, stream) = Joined(Units(i, m), t)
      BY <2>2
    <3> HIDE DEF t, d
    <3> QED BY <1>1, <1>3, <1>4, <2>1, <3>1, UnitsAreRead
  <2>4. /\ UNCHANGED <<message, stream>> /\ buf' = <<>> /\ wanted' = w
        /\ response' = response \o d \o Zeros(w)
    BY <1>8 DEF Receive
  <2>5. response' = Padded(i + l, w) /\ i + l \in 0..n /\ j = (i + l) + w
    <3>1. i + l \in Nat /\ i + l \in 0..n /\ j = (i + l) + w
      <4>1. ASSUME NEW x \in Nat, NEW y \in Nat, x <= y, i + y <= n
            PROVE  i + x \in Nat /\ i + x \in 0..n /\ i + y = (i + x) + (y - x)
        BY <1>1, <4>1
      <4>2. i + m <= n
        BY <1>1, <2>2
      <4> HIDE DEF l
      <4> QED BY <1>3, <2>1, <2>2, <4>1, <4>2
    <3>2. response \o d = Padded(i + l, 0)
      <4>1. Padded(i, 0) \o Units(i, l) = Padded(i + l, 0)
        <5>1. i \in Nat /\ l \in Nat
          BY <1>1, <2>1
        <5> QED BY <5>1, PaddedAppend
      <4> QED BY <1>2, <2>3, <4>1
    <3>3. Padded(i + l, w) = Padded(i + l, 0) \o Zeros(w)
      BY <2>1, <3>1, PaddedIsBody
    <3> QED BY <2>4, <3>1, <3>2, <3>3
  <2>6. FillingChunk'
    <3>1. stream' = Units(i + l, wanted') \o (<<Crlf>> \o ChunksFrom(n, ends)[j])
      BY <2>3, <2>4 DEF Joined
    <3>2. /\ j = (i + l) + wanted' /\ wanted' > 0 /\ response' = Padded(i + l, wanted')
      BY <2>1, <2>4, <2>5
    <3> HIDE DEF l, w, d
    <3> QED BY <1>2, <2>4, <2>5, <3>1, <3>2 DEF FillingChunk
  <2>7. "chunk" \in Transfers \ {"write"} /\ <<>> \in Seq(Unit)
    BY DEF Transfers
  <2> QED BY <1>1, <1>8, <2>1, <2>6, <2>7, ReceiveKeeps
<1> QED BY <1>4, <1>5, <1>7, <1>8 DEF OnChunkSize

\* The rest of a chunk has been read: its line end is next.
LEMMA ChunkKeeps ==
  ASSUME SourceType, AnswerInv, BetweenChunks, OnChunk, UNCHANGED lapses
  PROVE  SourceType' /\ AnswerInv' /\ DecoderInv'
<1>1. /\ phase \in Transfers /\ buf \in Seq(Unit) /\ Receive("chunk_size", response, 0, buf)
      /\ "chunk_size" \in Transfers \ {"write"} /\ 0 \in Nat
  BY DEF OnChunk, Transfers, SourceType
<1>2. BetweenChunks'
  BY <1>1 DEF BetweenChunks, Receive
<1> QED BY <1>1, <1>2, ReceiveKeeps

\* What has come of a body without a length is appended to the response.
LEMMA StreamKeeps ==
  ASSUME SourceType, AnswerInv, Streaming, OnStream, UNCHANGED lapses
  PROVE  SourceType' /\ AnswerInv' /\ DecoderInv'
<1> DEFINE n == message.size
           l == Len(buf)
<1>1. /\ phase \in Transfers /\ buf \in Seq(Unit) /\ stream \in Seq(Unit)
      /\ Receive("stream", response \o buf, 0, <<>>) /\ n \in Nat
      /\ "stream" \in Transfers \ {"write"} /\ 0 \in Nat /\ <<>> \in Seq(Unit)
  BY MessageProperties DEF OnStream, Transfers, SourceType
<1>2. PICK k \in 0..n : response = Padded(k, 0) /\ Joined(buf, stream) = Units(k, n - k)
  BY DEF Streaming, Joined
<1>3. l \in 0..(n - k) /\ buf = Units(k, l) /\ stream = Units(k + l, (n - k) - l)
  <2>1. n - k \in Nat /\ k \in Nat
    BY <1>1
  <2> QED BY <1>1, <1>2, <2>1, BodyIsRead
<1>4. k + l \in 0..n /\ (n - k) - l = n - (k + l) /\ l \in Nat /\ k \in Nat
  BY <1>1, <1>3
<1>5. response \o buf = Padded(k + l, 0)
  BY <1>2, <1>3, <1>4, PaddedAppend
<1>6. /\ UNCHANGED <<message, stream>> /\ response' = response \o buf /\ buf' = <<>>
  BY <1>1 DEF Receive
<1>7. Streaming'
  <2>1. buf' \o stream' = Units(k + l, n - (k + l))
    BY <1>1, <1>3, <1>4, <1>6, ConcatEmptySeq
  <2> QED BY <1>4, <1>5, <1>6, <2>1 DEF Streaming
<1> QED BY <1>1, <1>7, ReceiveKeeps

\* A stream that begins with units of a body.
LEMMA BeginsWithUnits ==
  ASSUME NEW k \in Nat, NEW w \in Nat, NEW t \in Seq(Unit)
  PROVE  LET s == Units(k, w) \o t
         IN  /\ s \in Seq(Unit) /\ Len(s) >= w /\ Rest(s, w) = t
             /\ \A x \in 1..w : s[x] = Data(k + x)
<1> DEFINE u == Units(k, w)
           s == u \o t
<1>1. u \in Seq(Unit) /\ Len(u) = w /\ \A x \in 1..w : u[x] = Data(k + x)
  BY UnitsProperties
<1>2. Len(t) \in Nat
  OBVIOUS
<1> HIDE DEF u
<1>3. /\ s \in Seq(Unit) /\ Len(s) = Len(u) + Len(t)
      /\ \A x \in 1..(Len(u) + Len(t)) : s[x] = IF x <= Len(u) THEN u[x] ELSE t[x - Len(u)]
  BY <1>1, ConcatProperties
<1>4. Len(s) = w + Len(t) /\ Len(s) >= w /\ w \in 0..Len(s) /\ Len(s) - w = Len(t)
  BY <1>1, <1>2, <1>3
<1> HIDE DEF s
<1>5. \A x \in 1..w : s[x] = Data(k + x)
  <2>1. \A x \in 1..w : x \in 1..(w + Len(t)) /\ x <= w
    BY <1>2
  <2> QED BY <1>1, <1>3, <2>1
<1>6. Rest(s, w) = t
  <2>1. /\ Rest(s, w) \in Seq(Unit) /\ Len(Rest(s, w)) = Len(s) - w
        /\ \A x \in 1..(Len(s) - w) : Rest(s, w)[x] = s[w + x]
    BY <1>3, <1>4, CutElements
  <2>2. \A x \in 1..Len(t) : s[w + x] = t[x]
    <3>1. \A x \in 1..Len(t) : w + x \in 1..(w + Len(t)) /\ ~(w + x <= w) /\ (w + x) - w = x
      BY <1>2
    <3> QED BY <1>1, <1>3, <3>1
  <2>3. Len(Rest(s, w)) = Len(t) /\ \A x \in 1..Len(t) : Rest(s, w)[x] = t[x]
    BY <1>4, <2>1, <2>2
  <2> QED BY <2>1, <2>3, SeqEqual
<1> QED BY <1>3, <1>4, <1>5, <1>6 DEF s, u

\* What a body that is filled is read from.
LEMMA FillReads ==
  ASSUME NEW k \in Nat, NEW w \in Nat, NEW n \in 0..w, NEW s \in Seq(Unit),
         Len(s) >= w, \A x \in 1..w : s[x] = Data(k + x),
         response = Padded(k, w), wanted = w, stream = s, ToResponse(n)
  PROVE  /\ response' = Padded(k + n, w - n)
         /\ stream' = Rest(s, n) /\ stream' \in Seq(Unit)
         /\ wanted' = 0 /\ UNCHANGED <<message, buf>>
<1>1. Len(s) \in Nat /\ n \in 0..Len(s) /\ \A x \in 1..n : x \in 1..w
  OBVIOUS
<1>2. /\ First(s, n) \in Seq(Unit) /\ Len(First(s, n)) = n /\ Rest(s, n) \in Seq(Unit)
      /\ \A x \in 1..n : First(s, n)[x] = s[x]
  BY <1>1, CutElements
<1>3. \A x \in 1..n : First(s, n)[x] = Data(k + x)
  BY <1>1, <1>2
<1>4. Filled(Padded(k, w), Len(Padded(k, w)) - w + 1, First(s, n)) = Padded(k + n, w - n)
  BY <1>2, <1>3, PaddedFilled
<1> QED BY <1>2, <1>4 DEF ToResponse

\* While the rest of a body or of a chunk is awaited, so many units are there.
LEMMA MissingUnits ==
  ASSUME SourceType, Filling \/ FillingChunk
  PROVE  \E k \in 0..message.size :
           /\ k + wanted \in 0..message.size /\ wanted > 0
           /\ response = Padded(k, wanted)
           /\ Len(stream) >= wanted /\ \A x \in 1..wanted : stream[x] = Data(k + x)
<1> DEFINE n == message.size
<1>1. n \in Nat /\ wanted \in Nat
  BY MessageProperties DEF SourceType
<1>2. CASE Filling
  BY <1>1, <1>2 DEF Filling
<1>3. CASE FillingChunk
  <2>1. PICK ends \in SUBSET (1..n), k \in 0..n, i \in 0..n :
          /\ Partition(n, ends)
          /\ i = k + wanted /\ wanted > 0
          /\ response = Padded(k, wanted)
          /\ stream = Units(k, wanted) \o (<<Crlf>> \o ChunksFrom(n, ends)[i])
    BY <1>3 DEF FillingChunk
  <2>2. <<Crlf>> \o ChunksFrom(n, ends)[i] \in Seq(Unit)
    <3>1. \A j \in 0..n : ChunksFrom(n, ends)[j] \in Seq(Unit)
      BY <1>1, <2>1, ChunksProperties
    <3>2. <<Crlf>> \in Seq(Unit)
      BY Lines
    <3> QED BY <3>1, <3>2, ConcatProperties
  <2>3. k \in Nat
    BY <1>1
  <2>4. Len(stream) >= wanted /\ \A x \in 1..wanted : stream[x] = Data(k + x)
    <3> DEFINE t == <<Crlf>> \o ChunksFrom(n, ends)[i]
    <3>1. stream = Units(k, wanted) \o t /\ t \in Seq(Unit)
      BY <2>1, <2>2
    <3> HIDE DEF t
    <3> QED BY <1>1, <2>3, <3>1, BeginsWithUnits
  <2> QED BY <1>1, <2>1, <2>4
<1> QED BY <1>2, <1>3

\* An operation succeeds with units that have arrived.
LEMMA ArrivesKeeps ==
  ASSUME SourceType, AnswerInv, DecoderInv,
         phase \notin {"idle", "done"}, result = "pending",
         result' = "ok", Arrives, UNCHANGED <<phase, answer, lapses>>
  PROVE  SourceType' /\ AnswerInv' /\ DecoderInv'
<1> DEFINE n == message.size
<1>1. n \in Nat /\ buf \in Seq(Unit) /\ stream \in Seq(Unit) /\ wanted \in Nat
  BY MessageProperties DEF SourceType
<1>2. AnswerInv'
  BY DEF AnswerInv
<1>3. ASSUME NEW k \in 0..Len(stream), ToBuffer(k)
      PROVE  /\ SourceType' /\ UNCHANGED <<message, response, wanted>>
             /\ buf' \o stream' = buf \o stream
  <2>1. /\ Joined(buf, First(stream, k)) \in Seq(Unit) /\ Rest(stream, k) \in Seq(Unit)
        /\ Joined(Joined(buf, First(stream, k)), Rest(stream, k)) = Joined(buf, stream)
    BY <1>1, Moved
  <2>2. buf' = Joined(buf, First(stream, k)) /\ stream' = Rest(stream, k)
    BY <1>3 DEF ToBuffer, Joined
  <2>3. Joined(buf', stream') = Joined(buf, stream)
    BY <2>1, <2>2
  <2> QED BY <1>3, <2>1, <2>2, <2>3 DEF ToBuffer, SourceType, Joined
<1>4. CASE phase \in {"resolve", "connect", "handshake", "write"} /\ UNCHANGED sourceVars
  <2>1. SourceType'
    BY <1>4 DEF sourceVars, SourceType
  <2>2. DecoderInv'
    BY <1>4 DEF sourceVars, DecoderInv, Undecoded
  <2> QED BY <1>2, <2>1, <2>2
<1>5. CASE phase = "header" /\ \E k \in 0..Len(stream) : ToBuffer(k)
  <2>1. SourceType' /\ UNCHANGED <<message, response, wanted>> /\ buf' \o stream' = buf \o stream
    BY <1>3, <1>5
  <2>2. Undecoded'
    BY <1>5, <2>1 DEF DecoderInv, Undecoded
  <2>3. DecoderInv'
    BY <1>5, <2>2 DEF DecoderInv
  <2> QED BY <1>2, <2>1, <2>3
<1>6. CASE phase = "chunk_size" /\ \E k \in 1..Len(stream) :
             SizeLine(buf \o First(stream, k)) /\ ToBuffer(k)
  <2>1. PICK k \in 1..Len(stream) : SizeLine(buf \o First(stream, k)) /\ ToBuffer(k)
    BY <1>6
  <2>2. SourceType' /\ UNCHANGED <<message, response, wanted>> /\ buf' \o stream' = buf \o stream
    BY <1>3, <2>1
  <2>3. BetweenChunks'
    BY <1>6, <2>2 DEF DecoderInv, BetweenChunks
  <2>4. SizeLine(buf)'
    BY <2>1 DEF ToBuffer, SizeLine
  <2>5. DecoderInv'
    BY <1>6, <2>3, <2>4 DEF DecoderInv
  <2> QED BY <1>2, <2>2, <2>5
<1>7. CASE phase = "length" /\ ToResponse(wanted)
  <2>1. PICK k \in 0..n :
          /\ n = k + wanted /\ wanted > 0 /\ response = Padded(k, wanted)
          /\ Len(stream) >= wanted /\ \A x \in 1..wanted : stream[x] = Data(k + x)
    BY <1>7 DEF DecoderInv, Filling
  <2>2. /\ response' = Padded(k + wanted, wanted - wanted) /\ stream' \in Seq(Unit)
        /\ wanted' = 0 /\ UNCHANGED <<message, buf>>
    <3>1. wanted \in 0..wanted /\ k \in Nat
      BY <1>1
    <3> QED BY <1>1, <1>7, <2>1, <3>1, FillReads
  <2>3. response' = Padded(n, 0)
    <3>1. wanted - wanted = 0
      BY <1>1
    <3> QED BY <2>1, <2>2, <3>1
  <2>4. SourceType'
    BY <2>2 DEF SourceType
  <2>5. DecoderInv'
    BY <1>7, <2>2, <2>3 DEF DecoderInv
  <2> QED BY <1>2, <2>4, <2>5
<1>8. CASE phase = "chunk" /\ ToResponse(wanted)
  <2>1. PICK ends \in SUBSET (1..n), k \in 0..n, i \in 0..n :
          /\ Partition(n, ends)
          /\ i = k + wanted /\ wanted > 0
          /\ response = Padded(k, wanted)
          /\ buf = <<>>
          /\ stream = Units(k, wanted) \o (<<Crlf>> \o ChunksFrom(n, ends)[i])
    BY <1>8 DEF DecoderInv, FillingChunk
  <2> DEFINE t == <<Crlf>> \o ChunksFrom(n, ends)[i]
  <2>2. t \in Seq(Unit)
    <3>1. \A j \in 0..n : ChunksFrom(n, ends)[j] \in Seq(Unit)
      BY <1>1, <2>1, ChunksProperties
    <3>2. <<Crlf>> \in Seq(Unit)
      BY Lines
    <3> QED BY <3>1, <3>2, ConcatProperties
  <2>3. /\ Len(stream) >= wanted /\ \A x \in 1..wanted : stream[x] = Data(k + x)
        /\ Rest(stream, wanted) = t
    <3>1. k \in Nat
      BY <1>1
    <3>2. LET s == Units(k, wanted) \o t
          IN  /\ Len(s) >= wanted /\ Rest(s, wanted) = t
              /\ \A x \in 1..wanted : s[x] = Data(k + x)
      <4> HIDE DEF t
      <4> QED BY <1>1, <2>2, <3>1, BeginsWithUnits
    <3> QED BY <2>1, <3>2
  <2>4. /\ response' = Padded(k + wanted, wanted - wanted)
        /\ stream' = Rest(stream, wanted) /\ stream' \in Seq(Unit)
        /\ wanted' = 0 /\ UNCHANGED <<message, buf>>
    <3>1. wanted \in 0..wanted /\ k \in Nat
      BY <1>1
    <3> QED BY <1>1, <1>8, <2>1, <2>3, <3>1, FillReads
  <2>5. response' = Padded(i, 0)
    <3>1. wanted - wanted = 0
      BY <1>1
    <3> QED BY <2>1, <2>4, <3>1
  <2>6. stream' = t
    BY <2>3, <2>4
  <2>7. BetweenChunks'
    <3>1. buf' \o stream' = <<Crlf>> \o ChunksFrom(n, ends)[i]
      <4>1. <<>> \o t = t
        BY <2>2, ConcatEmptySeq
      <4> QED BY <2>1, <2>4, <2>6, <4>1
    <3> QED BY <2>1, <2>4, <2>5, <3>1 DEF BetweenChunks
  <2>8. SourceType'
    BY <2>4 DEF SourceType
  <2>9. DecoderInv'
    BY <1>8, <2>7 DEF DecoderInv
  <2> QED BY <1>2, <2>8, <2>9
<1>9. CASE phase = "stream" /\ \E k \in 1..Len(stream) : ToBuffer(k)
  <2>1. SourceType' /\ UNCHANGED <<message, response, wanted>> /\ buf' \o stream' = buf \o stream
    BY <1>3, <1>9
  <2>2. Streaming'
    BY <1>9, <2>1 DEF DecoderInv, Streaming
  <2>3. DecoderInv'
    BY <1>9, <2>2 DEF DecoderInv
  <2> QED BY <1>2, <2>1, <2>3
<1> QED BY <1>4, <1>5, <1>6, <1>7, <1>8, <1>9 DEF Arrives

\* The server closes the connection: what has been received is the beginning of
\* the body, and all of it if it was the end of the file that was awaited.
LEMMA ClosesKeeps ==
  ASSUME SourceType, AnswerInv, DecoderInv, phase \notin {"idle", "done"},
         result = "pending", result' = "eof", Closes, UNCHANGED <<phase, answer>>
  PROVE  SourceType' /\ AnswerInv' /\ DecoderInv'
<1> DEFINE n == message.size
<1>1. /\ n \in Nat /\ buf \in Seq(Unit) /\ stream \in Seq(Unit) /\ wanted \in Nat
      /\ phase \in Transfers
  BY MessageProperties DEF SourceType, Closes
<1>2. CASE phase \in {"length", "chunk"}
  <2>1. PICK m \in 0..(wanted - 1) : ToResponse(m)
    BY <1>2 DEF Closes
  <2>2. PICK k \in 0..n :
          /\ k + wanted \in 0..n /\ wanted > 0
          /\ response = Padded(k, wanted)
          /\ Len(stream) >= wanted /\ \A x \in 1..wanted : stream[x] = Data(k + x)
    <3>1. Filling \/ FillingChunk
      BY <1>2 DEF DecoderInv
    <3> QED BY <3>1, MissingUnits
  <2>3. /\ response' = Padded(k + m, wanted - m) /\ stream' \in Seq(Unit)
        /\ wanted' = 0 /\ UNCHANGED <<message, buf>>
    <3>1. m \in 0..wanted /\ k \in Nat
      BY <1>1, <2>1
    <3> QED BY <1>1, <2>1, <2>2, <3>1, FillReads
  <2>4. k + m \in 0..n /\ wanted - m \in 0..n
    BY <1>1, <2>1, <2>2
  <2>5. "early_close" \in lapses'
    BY <1>2 DEF Closes
  <2>6. Delivered(response)'
    BY <2>3, <2>4, <2>5 DEF Delivered
  <2>7. SourceType'
    BY <2>3 DEF SourceType
  <2>8. DecoderInv'
    BY <1>2 DEF DecoderInv
  <2> QED BY <1>1, <2>6, <2>7, <2>8 DEF AnswerInv, Transfers
<1>3. CASE phase \notin {"length", "chunk"}
  <2>1. UNCHANGED sourceVars
    BY <1>3 DEF Closes
  <2>2. SourceType'
    BY <2>1 DEF sourceVars, SourceType
  <2>3. DecoderInv'
    BY <2>1 DEF sourceVars, DecoderInv, Undecoded
  <2>4. CASE phase \in {"write", "header"}
    <3>1. response = Padded(0, 0) /\ 0 \in 0..n
      BY <1>1, <2>4, NothingIsPadded DEF DecoderInv, Undecoded
    <3>2. "early_close" \in lapses'
      BY <2>4 DEF Closes
    <3>3. Delivered(response)'
      BY <2>1, <3>1, <3>2 DEF Delivered, sourceVars
    <3> QED BY <1>1, <2>2, <2>3, <2>4, <3>3 DEF AnswerInv, Transfers
  <2>5. CASE phase = "chunk_size"
    <3>1. \E i \in 0..n : response = Padded(i, 0) /\ 0 \in 0..n
      BY <1>1, <2>5 DEF DecoderInv, BetweenChunks
    <3>2. "early_close" \in lapses'
      BY <2>5 DEF Closes
    <3>3. Delivered(response)'
      BY <2>1, <3>1, <3>2 DEF Delivered, sourceVars
    <3> QED BY <1>1, <2>2, <2>3, <2>5, <3>3 DEF AnswerInv, Transfers
  <2>6. CASE phase = "stream"
    <3>1. PICK k \in 0..n : response = Padded(k, 0) /\ buf \o stream = Units(k, n - k)
      BY <2>6 DEF DecoderInv, Streaming
    <3>2. stream = <<>> => k = n
      <4>1. buf = <<>> /\ n - k \in Nat /\ k \in Nat
        BY <1>1, <2>6 DEF DecoderInv
      <4>2. buf \o stream = stream
        BY <1>1, <4>1, ConcatEmptySeq
      <4>3. Len(Units(k, n - k)) = n - k
        BY <4>1, UnitsProperties
      <4>4. Len(stream) = n - k
        BY <3>1, <4>2, <4>3
      <4>5. stream = <<>> => Len(stream) = 0
        OBVIOUS
      <4> QED BY <1>1, <4>1, <4>4, <4>5
    <3>3. "early_close" \notin lapses' => stream = <<>>
      BY <2>6 DEF Closes
    <3>4. Delivered(response)'
      <4>1. 0 \in 0..n
        BY <1>1
      <4> QED BY <2>1, <3>1, <3>2, <3>3, <4>1 DEF Delivered, sourceVars
    <3> QED BY <1>1, <2>2, <2>3, <2>6, <3>4 DEF AnswerInv, Transfers
  <2> QED BY <1>1, <1>3, <2>4, <2>5, <2>6 DEF Transfers
<1> QED BY <1>2, <1>3

\* Every step of the chain.
LEMMA DecoderStep ==
  ASSUME ChainType, SourceType, AnswerInv, DecoderInv, [Next]_vars
  PROVE  SourceType' /\ AnswerInv' /\ DecoderInv'
<1>1. CASE Request
  BY <1>1 DEF Request, Connection, sourceVars, SourceType, AnswerInv, DecoderInv,
              Undecoded, Delivered
<1>2. CASE Complete
  <2>1. CASE result' = "ok" /\ Arrives /\ UNCHANGED lapses
    <3>1. phase \notin {"idle", "done"} /\ result = "pending" /\ UNCHANGED <<phase, answer>>
      BY <1>2 DEF Complete
    <3> QED BY <2>1, <3>1, ArrivesKeeps
  <2>2. CASE result' = "error" /\ UNCHANGED <<sourceVars, lapses>>
    BY <1>2, <2>2 DEF Complete, sourceVars, SourceType, AnswerInv, DecoderInv,
                      Undecoded, Delivered
  <2>3. CASE result' = "eof" /\ Closes
    <3>1. phase \notin {"idle", "done"} /\ result = "pending" /\ UNCHANGED <<phase, answer>>
      BY <1>2 DEF Complete
    <3> QED BY <2>3, <3>1, ClosesKeeps
  <2> QED BY <1>2, <2>1, <2>2, <2>3 DEF Complete
<1>3. ASSUME UNCHANGED <<phase, sourceVars, answer>>,
             "early_close" \in lapses' <=> "early_close" \in lapses,
             result' = result \/ result' = "error"
      PROVE  SourceType' /\ AnswerInv' /\ DecoderInv'
  <2>1. SourceType' /\ UNCHANGED <<phase, answer, message, stream, buf, response, wanted>>
    BY <1>3 DEF sourceVars, SourceType
  <2>2. AnswerInv'
    BY <1>3, <2>1 DEF AnswerInv, Delivered
  <2>3. DecoderInv'
    BY <1>3, <2>1 DEF DecoderInv, Undecoded, Filling, FillingChunk, BetweenChunks, Streaming
  <2> QED BY <2>1, <2>2, <2>3
<1>4. CASE TimerExpires
  BY <1>3, <1>4 DEF TimerExpires
<1>5. CASE TimerCallback
  BY <1>3, <1>5 DEF TimerCallback
<1>6. CASE Handler
  <2>1. UNCHANGED lapses
    BY <1>6 DEF Handler
  <2>2. ASSUME NEW op \in {"connect", "handshake", "write"},
               phase \in {"resolve", "connect", "handshake"},
               phase' = op, result' \in {"pending", "error"},
               UNCHANGED <<sourceVars, answer>>
        PROVE  SourceType' /\ AnswerInv' /\ DecoderInv'
    BY <2>1, <2>2 DEF sourceVars, SourceType, AnswerInv, DecoderInv, Undecoded
  <2>3. CASE OnResolve \/ OnConnect \/ OnHandshake
    <3>1. CASE NotConnected
      BY <3>1, FailureKeeps
    <3>2. CASE ~NotConnected
      BY <2>2, <2>3, <3>2 DEF OnResolve, OnConnect, OnHandshake, Then
    <3> QED BY <3>1, <3>2
  <2>4. CASE OnWrite
    <3>1. /\ phase \in Transfers /\ buf \in Seq(Unit) /\ wanted \in Nat
          /\ Receive("header", response, wanted, buf)
          /\ "header" \in Transfers \ {"write"}
      BY <2>4 DEF OnWrite, Transfers, SourceType
    <3>2. Undecoded'
      BY <2>4, <3>1 DEF OnWrite, Receive, DecoderInv, Undecoded
    <3> QED BY <2>1, <3>1, <3>2, ReceiveKeeps
  <2>5. CASE OnHeader
    <3>1. Undecoded
      BY <2>5 DEF OnHeader, DecoderInv
    <3> QED BY <2>1, <2>5, <3>1, HeaderKeeps
  <2>6. CASE OnLength
    <3>1. /\ phase \in Transfers /\ Respond(response)
          /\ response = Padded(message.size, 0)
      BY <2>6 DEF OnLength, Transfers, DecoderInv
    <3>2. Delivered(response)
      <4>1. message.size \in Nat
        BY MessageProperties DEF SourceType
      <4>2. message.size \in 0..message.size /\ 0 \in 0..message.size
        BY <4>1
      <4> QED BY <3>1, <4>2 DEF Delivered
    <3> QED BY <2>1, <3>1, <3>2, RespondKeeps
  <2>7. CASE OnChunkSize
    <3>1. BetweenChunks /\ SizeLine(buf)
      BY <2>7 DEF OnChunkSize, DecoderInv
    <3> QED BY <2>1, <2>7, <3>1, ChunkSizeKeeps
  <2>8. CASE OnChunk
    <3>1. BetweenChunks
      BY <2>8 DEF OnChunk, DecoderInv
    <3> QED BY <2>1, <2>8, <3>1, ChunkKeeps
  <2>9. CASE OnStream
    <3>1. Streaming
      BY <2>9 DEF OnStream, DecoderInv
    <3> QED BY <2>1, <2>9, <3>1, StreamKeeps
  <2>10. CASE OnEof
    <3>1. phase \in Transfers /\ Delivered(response) /\ Respond(response)
      BY <2>10 DEF OnEof, AnswerInv
    <3> QED BY <2>1, <3>1, RespondKeeps
  <2>11. CASE OnTransferError
    BY <2>11, FailureKeeps DEF OnTransferError
  <2> QED BY <1>6, <2>3, <2>4, <2>5, <2>6, <2>7, <2>8, <2>9, <2>10, <2>11 DEF Handler
<1>7. CASE UNCHANGED vars
  BY <1>3, <1>7 DEF vars
<1> QED BY <1>1, <1>2, <1>4, <1>5, <1>6, <1>7 DEF Next

\* Before the first request nothing has been decoded.
LEMMA DecoderInit ==
  ASSUME Init
  PROVE  SourceType /\ AnswerInv /\ DecoderInv
<1>1. message \in Messages /\ message.wire \in Seq(Unit)
  BY MessageProperties DEF Init
<1>2. <<>> \o message.wire = message.wire
  BY <1>1, ConcatEmptySeq
<1> QED BY <1>1, <1>2 DEF Init, SourceType, AnswerInv, DecoderInv, Undecoded

-----------------------------------------------------------------------------
\* The inductive invariant: types, the timeout of the chain, what an answer comes
\* with, and what of the message is decoded, in the buffer and still to come.
THEOREM InvariantHolds == Spec => []IInv
<1>1. Init => IInv
  BY ChainTypeInit, DecoderInit DEF IInv, TypeOK
<1>2. IInv /\ [Next]_vars => IInv'
  BY ChainTypeStep, TimerStep, DecoderStep DEF IInv, TypeOK
<1> QED BY <1>1, <1>2, PTL DEF Spec

\* However the reads split a message, and whatever is redirected before: the
\* string that http_con hands to its callback is the body, if no server has closed
\* the connection early.
THEOREM DeliversWholeHolds == Spec => []DeliversWhole
<1>1. IInv => DeliversWhole
  <2> SUFFICES ASSUME IInv, "early_close" \notin lapses, answer = "ok"
               PROVE  response = Body(message.size)
    BY DEF DeliversWhole, SuccessIsWhole
  <2>1. message.size \in Nat
    BY MessageProperties DEF IInv, TypeOK, SourceType
  <2>2. response = Padded(message.size, 0)
    BY DEF IInv, AnswerInv, Delivered
  <2> QED BY <2>1, <2>2, PaddedIsBody
<1> QED BY <1>1, InvariantHolds, PTL

\* And if one has, the string is the beginning of the body, with the zeros that
\* resize has filled it up with.
THEOREM DeliversBeginningHolds == Spec => []DeliversBeginning
<1>1. IInv => DeliversBeginning
  <2> SUFFICES ASSUME IInv, answer = "ok"
               PROVE  \E k, z \in 0..message.size : response = Body(k) \o Zeros(z)
    BY DEF DeliversBeginning
  <2>1. message.size \in Nat
    BY MessageProperties DEF IInv, TypeOK, SourceType
  <2>2. PICK k \in 0..message.size, z \in 0..message.size : response = Padded(k, z)
    BY DEF IInv, AnswerInv, Delivered
  <2>3. k \in Nat /\ z \in Nat
    BY <2>1
  <2>4. response = Body(k) \o Zeros(z)
    BY <2>2, <2>3, PaddedIsBody
  <2> QED BY <2>4
<1> QED BY <1>1, InvariantHolds, PTL

=============================================================================
