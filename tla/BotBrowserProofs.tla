-------------------------- MODULE BotBrowserProofs --------------------------
(***************************************************************************)
(* The proofs of BotBrowser: the list of working proxies has none twice    *)
(* and none that is being checked, and one callback of set_proxy_list      *)
(* waits exactly while checks are active, for any set of proxies.  Then    *)
(* those of WebClient, the part of the browser that has the session.       *)
(***************************************************************************)
EXTENDS BotBrowser, WebClient, SequenceTheorems, FiniteSetTheorems, TLAPS

(***************************************************************************)
(* Induction over the natural numbers for a set: what NatInduction says of *)
(* a predicate, which cannot be instantiated here.                         *)
(***************************************************************************)
LEMMA SetInduction ==
  ASSUME NEW T, 0 \in T, \A n \in Nat : n \in T => n + 1 \in T
  PROVE  Nat \subseteq T
<1> DEFINE C == Nat \ T
<1>1. SUFFICES ASSUME C # {} PROVE FALSE
  OBVIOUS
<1>2. PICK n \in C : \A m \in C : ~(<<m, n>> \in OpToRel(<, Nat))
  <2>1. C \subseteq Nat /\ C # {}
    BY <1>1
  <2> HIDE DEF C
  <2> QED BY <2>1, WFMin, NatLessThanWellFounded
<1>3. \A m \in Nat : m < n => m \in T
  BY <1>2 DEF OpToRel
<1>4. n \in Nat /\ n # 0
  BY <1>2
<1>5. n - 1 \in Nat /\ n - 1 < n /\ (n - 1) + 1 = n
  BY <1>4
<1> QED BY <1>2, <1>3, <1>5

-----------------------------------------------------------------------------
(***************************************************************************)
(* What Listed computes.                                                   *)
(***************************************************************************)

\* What of s has been kept after i elements, kept being what it is after less.
KeptAfter(kept, s, list, i) ==
  IF i = 0 THEN <<>>
  ELSE IF s[i] \in list THEN Append(kept[i - 1], s[i]) ELSE kept[i - 1]

\* The recursion of Listed has a solution up to every length.
LEMMA KeptExists ==
  ASSUME NEW s, NEW list, NEW n \in Nat
  PROVE  \E kept : kept = [i \in 0..n |-> KeptAfter(kept, s, list, i)]
<1> DEFINE Solves(kept, m) == kept = [i \in 0..m |-> KeptAfter(kept, s, list, i)]
           T == {m \in Nat : \E kept : Solves(kept, m)}
<1>1. 0 \in T
  <2>1. Solves([i \in 0..0 |-> <<>>], 0)
    BY DEF KeptAfter
  <2> QED BY <2>1
<1>2. ASSUME NEW m \in Nat, m \in T PROVE m + 1 \in T
  <2>1. PICK kept : Solves(kept, m)
    BY <1>2
  <2> DEFINE more == [i \in 0..(m + 1) |-> IF i = m + 1 THEN KeptAfter(kept, s, list, i)
                                                        ELSE kept[i]]
  <2>2. \A i \in 0..m : kept[i] = KeptAfter(kept, s, list, i)
    BY <2>1
  <2>3. ASSUME NEW i \in 0..(m + 1) PROVE more[i] = KeptAfter(more, s, list, i)
    <3>1. i # 0 => i - 1 \in 0..m /\ i - 1 # m + 1
      OBVIOUS
    <3>2. i # 0 => more[i - 1] = kept[i - 1]
      BY <3>1
    <3>3. more[i] = KeptAfter(kept, s, list, i)
      <4>1. CASE i = m + 1
        BY <4>1
      <4>2. CASE i # m + 1
        <5>1. i \in 0..m
          BY <4>2
        <5> QED BY <2>2, <4>2, <5>1
      <4> QED BY <4>1, <4>2
    <3> HIDE DEF more
    <3> QED BY <3>2, <3>3 DEF KeptAfter
  <2>4. Solves(more, m + 1)
    <3>1. more = [i \in 0..(m + 1) |-> more[i]]
      OBVIOUS
    <3> HIDE DEF more
    <3>2. [i \in 0..(m + 1) |-> more[i]]
            = [i \in 0..(m + 1) |-> KeptAfter(more, s, list, i)]
      BY <2>3
    <3> QED BY <3>1, <3>2, Zenon
  <2> HIDE DEF more, Solves
  <2> QED BY <2>4
<1>3. Nat \subseteq T
  <2> HIDE DEF T
  <2> QED BY <1>1, <1>2, SetInduction
<1> QED BY <1>3

\* So Listed is what has been kept at the end.
LEMMA ListedIsKept ==
  ASSUME NEW s, NEW list, Len(s) \in Nat
  PROVE  \E kept : /\ \A i \in 0..Len(s) : kept[i] = KeptAfter(kept, s, list, i)
                   /\ Listed(s, list) = kept[Len(s)]
<1> DEFINE kept == CHOOSE k : k = [i \in 0..Len(s) |-> KeptAfter(k, s, list, i)]
<1>1. kept = [i \in 0..Len(s) |-> KeptAfter(kept, s, list, i)]
  <2>1. \E k : k = [i \in 0..Len(s) |-> KeptAfter(k, s, list, i)]
    BY KeptExists
  <2> QED BY <2>1, Zenon
<1>2. Listed(s, list) = kept[Len(s)]
  BY DEF Listed, KeptAfter
<1> HIDE DEF kept
<1>3. \A i \in 0..Len(s) : kept[i] = KeptAfter(kept, s, list, i)
  BY <1>1
<1> QED BY <1>2, <1>3

\* One element more at the end of a list.
LEMMA AppendNew ==
  ASSUME NEW S, NEW s \in Seq(S), NEW x \in S
  PROVE  /\ Append(s, x) \in Seq(S)
         /\ Range(Append(s, x)) = Range(s) \cup {x}
         /\ IsInjective(s) /\ x \notin Range(s) => IsInjective(Append(s, x))
<1> DEFINE t == Append(s, x)
<1>1. /\ t \in Seq(S) /\ DOMAIN t = 1..(Len(s) + 1) /\ DOMAIN s = 1..Len(s)
      /\ Len(s) \in Nat
      /\ \A i \in 1..Len(s) : t[i] = s[i]
      /\ t[Len(s) + 1] = x
  OBVIOUS
<1>2. \A i \in 1..(Len(s) + 1) : i = Len(s) + 1 \/ i \in 1..Len(s)
  BY <1>1
<1>3. Len(s) + 1 \in 1..(Len(s) + 1) /\ \A i \in 1..Len(s) : i \in 1..(Len(s) + 1)
  BY <1>1
<1> HIDE DEF t
<1>4. Range(t) = Range(s) \cup {x}
  BY <1>1, <1>2, <1>3 DEF Range
<1>5. IsInjective(s) /\ x \notin Range(s) => IsInjective(t)
  <2> SUFFICES ASSUME IsInjective(s), x \notin Range(s),
                      NEW a \in 1..(Len(s) + 1), NEW b \in 1..(Len(s) + 1), t[a] = t[b]
               PROVE  a = b
    BY <1>1 DEF IsInjective
  <2>1. CASE a \in 1..Len(s) /\ b \in 1..Len(s)
    BY <1>1, <2>1 DEF IsInjective
  <2>2. \A i \in 1..Len(s) : t[i] # x
    BY <1>1 DEF Range
  <2> QED BY <1>1, <1>2, <2>1, <2>2
<1> QED BY <1>1, <1>4, <1>5 DEF t

\* Listed keeps the elements that are in list, all of them and once each.
LEMMA ListedProperties ==
  ASSUME NEW S, NEW s \in Seq(S), NEW list
  PROVE  /\ Listed(s, list) \in Seq(S)
         /\ Range(Listed(s, list)) = Range(s) \cap list
         /\ IsInjective(s) => IsInjective(Listed(s, list))
<1> DEFINE Before(i) == {s[j] : j \in 1..i}
           Good(k, i) == /\ k \in Seq(S)
                         /\ Range(k) = Before(i) \cap list
                         /\ IsInjective(s) => IsInjective(k)
<1>0. Len(s) \in Nat /\ DOMAIN s = 1..Len(s) /\ \A i \in 1..Len(s) : s[i] \in S
  OBVIOUS
<1>1. PICK kept : /\ \A i \in 0..Len(s) : kept[i] = KeptAfter(kept, s, list, i)
                  /\ Listed(s, list) = kept[Len(s)]
  BY <1>0, ListedIsKept
<1> DEFINE T == {i \in Nat : i <= Len(s) => Good(kept[i], i)}
<1>2. 0 \in T
  <2>1. kept[0] = <<>>
    BY <1>0, <1>1 DEF KeptAfter
  <2>2. Good(<<>>, 0)
    <3>1. <<>> \in Seq(S) /\ DOMAIN <<>> = {} /\ 1..0 = {}
      OBVIOUS
    <3> QED BY <3>1 DEF Range, IsInjective
  <2> HIDE DEF Good
  <2> QED BY <2>1, <2>2
<1>3. ASSUME NEW i \in Nat, i \in T PROVE i + 1 \in T
  <2> SUFFICES ASSUME i + 1 <= Len(s) PROVE Good(kept[i + 1], i + 1)
    OBVIOUS
  <2>1. i <= Len(s) /\ i + 1 \in 0..Len(s) /\ i + 1 \in 1..Len(s) /\ (i + 1) - 1 = i
        /\ i + 1 # 0
    BY <1>0
  <2>2. Good(kept[i], i)
    BY <1>3, <2>1
  <2>3. kept[i + 1] = IF s[i + 1] \in list THEN Append(kept[i], s[i + 1]) ELSE kept[i]
    BY <1>1, <2>1 DEF KeptAfter
  <2>4. Before(i + 1) = Before(i) \cup {s[i + 1]}
    <3>1. 1..(i + 1) = 1..i \cup {i + 1}
      OBVIOUS
    <3> QED BY <3>1
  <2>5. CASE s[i + 1] \notin list
    <3>1. Before(i + 1) \cap list = Before(i) \cap list
      BY <2>4, <2>5
    <3> QED BY <2>2, <2>3, <2>5, <3>1
  <2>6. CASE s[i + 1] \in list
    <3>1. s[i + 1] \in S
      BY <1>0, <2>1
    <3>2. Before(i + 1) \cap list = (Before(i) \cap list) \cup {s[i + 1]}
      BY <2>4, <2>6
    <3>3. IsInjective(s) => s[i + 1] \notin Before(i)
      <4> SUFFICES ASSUME IsInjective(s), NEW j \in 1..i, s[j] = s[i + 1] PROVE FALSE
        OBVIOUS
      <4>1. j \in 1..Len(s) /\ j # i + 1
        BY <1>0, <2>1
      <4> QED BY <1>0, <2>1, <4>1 DEF IsInjective
    <3> HIDE DEF Before
    <3> QED BY <2>2, <2>3, <2>6, <3>1, <3>2, <3>3, AppendNew
  <2> QED BY <2>5, <2>6
<1>4. Good(kept[Len(s)], Len(s))
  <2>1. Nat \subseteq T
    <3> HIDE DEF T
    <3> QED BY <1>2, <1>3, SetInduction
  <2> HIDE DEF Good
  <2> QED BY <1>0, <2>1
<1>5. Before(Len(s)) = Range(s)
  BY <1>0 DEF Range
<1> QED BY <1>1, <1>4, <1>5

-----------------------------------------------------------------------------
\* A list without repetition is no longer than there are proxies.
LEMMA ListIsShort ==
  ASSUME NEW list \in Seq(Proxies), IsInjective(list)
  PROVE  Len(list) \in Nat /\ Cardinality(Proxies) \in Nat
         /\ Len(list) <= Cardinality(Proxies)
<1>1. IsFiniteSet(Proxies) /\ Cardinality(Proxies) \in Nat
  BY FiniteAssumption, FS_CardinalityType
<1>2. /\ Len(list) \in Nat
      /\ list \in Injection(1..Len(list), Proxies)
  BY DEF Injection
<1>3. Cardinality(1..Len(list)) = Len(list)
  <2>1. ASSUME NEW a \in Int, NEW b \in Int
        PROVE  Cardinality(a..b) = IF a > b THEN 0 ELSE b - a + 1
    BY FS_Interval
  <2>2. 1 \in Int /\ Len(list) \in Int
    BY <1>2
  <2>3. Cardinality(1..Len(list))
          = IF 1 > Len(list) THEN 0 ELSE Len(list) - 1 + 1
    BY <2>1, <2>2
  <2> QED BY <1>2, <2>3
<1>4. Cardinality(1..Len(list)) <= Cardinality(Proxies)
  BY <1>1, <1>2, FS_Injection
<1> QED BY <1>1, <1>2, <1>3, <1>4

\* change_proxy goes to a proxy of the list, at an index that is one of it.
LEMMA ChangeProxyType ==
  ASSUME NEW list \in Seq(Proxies), IsInjective(list),
         current \in {-1} \cup 0..Cardinality(Proxies),
         in_use \in Proxies \cup {NoProxy},
         ChangeProxy(list)
  PROVE  /\ current' \in {-1} \cup 0..Cardinality(Proxies)
         /\ in_use' \in Proxies \cup {NoProxy}
<1>1. /\ Len(list) \in Nat /\ Cardinality(Proxies) \in Nat
      /\ Len(list) <= Cardinality(Proxies)
      /\ \A i \in 1..Len(list) : list[i] \in Proxies
  BY ListIsShort
<1>2. CASE Len(list) > 1 /\ current' = NextIndex(list) /\ in_use' = list[current' + 1]
  <2>1. current' \in 0..(Len(list) - 1)
    BY <1>1, <1>2 DEF NextIndex
  <2>2. current' + 1 \in 1..Len(list) /\ current' \in 0..Cardinality(Proxies)
    <3>1. ASSUME NEW n \in Nat, NEW m \in Nat, n <= m, NEW i \in 0..(n - 1)
          PROVE  i + 1 \in 1..n /\ i \in 0..m
      BY <3>1
    <3> QED BY <1>1, <2>1, <3>1
  <2> QED BY <1>1, <1>2, <2>2
<1>3. CASE Len(list) = 1 /\ in_use' = list[1] /\ UNCHANGED current
  <2>1. 1 \in 1..Len(list)
    BY <1>1, <1>3
  <2> QED BY <1>1, <1>3, <2>1
<1> QED BY <1>2, <1>3 DEF ChangeProxy

\* Requests and their errors leave the list and its checks alone.
LEMMA RequestPreserves ==
  ASSUME IInv, NEW r \in Requests, Request(r) \/ Attempt(r)
  PROVE  IInv'
<1>1. TypeOK /\ ListedOnce /\ OneCallbackWaits
  BY DEF IInv
<1>2. UNCHANGED <<good, checks, waiting>>
  BY DEF Request, Attempt, Succeed, RetryRequest, Fail, proxyVars
<1>3. tries' \in [Requests -> {Idle} \cup 0..Tries]
  <2>1. tries \in [Requests -> {Idle} \cup 0..Tries] /\ tries[r] \in {Idle} \cup 0..Tries
    BY <1>1 DEF TypeOK
  <2>2. \A n \in {Idle} \cup 0..Tries :
          [tries EXCEPT ![r] = n] \in [Requests -> {Idle} \cup 0..Tries]
    BY <2>1
  <2>3. Idle \in {Idle} \cup 0..Tries /\ Tries \in {Idle} \cup 0..Tries
    BY DEF Tries, Idle
  <2>4. CASE RetryRequest(r)
    <3>1. tries[r] - 1 \in {Idle} \cup 0..Tries
      BY <2>1, <2>4 DEF RetryRequest, Tries, Idle
    <3> QED BY <2>2, <2>4, <3>1 DEF RetryRequest
  <2>5. CASE Request(r) \/ Succeed(r) \/ Fail(r)
    BY <2>2, <2>3, <2>5 DEF Request, Succeed, Fail, CallBack
  <2> QED BY <2>4, <2>5 DEF Attempt
<1>4. /\ errors' \in 0..ErrorBound
      /\ current' \in {-1} \cup 0..Cardinality(Proxies)
      /\ in_use' \in Proxies \cup {NoProxy}
  <2>1. CASE UNCHANGED <<errors, current, in_use>>
    BY <1>1, <2>1 DEF TypeOK
  <2>2. CASE LogError
    <3>1. errors' \in 0..ErrorBound
      BY <1>1, <2>2 DEF LogError, TypeOK, AtMost, ErrorBound, ErrorLimit
    <3>2. CASE ChangeProxy(good)
      BY <1>1, <3>1, <3>2, ChangeProxyType DEF TypeOK, ListedOnce
    <3>3. CASE UNCHANGED <<current, in_use>>
      BY <1>1, <3>1, <3>3 DEF TypeOK
    <3> QED BY <2>2, <3>2, <3>3 DEF LogError
  <2> QED BY <2>1, <2>2 DEF Request, Attempt, Succeed, RetryRequest, Fail, proxyVars
<1> QED BY <1>1, <1>2, <1>3, <1>4 DEF IInv, TypeOK, ListedOnce, OneCallbackWaits

\* A new list: what remains of the old one and what is checked are apart.
LEMMA ListPreserves ==
  ASSUME IInv, NEW list \in SUBSET Proxies, SetProxyList(list)
  PROVE  IInv'
<1>1. TypeOK /\ ListedOnce /\ OneCallbackWaits
  BY DEF IInv
<1>2. /\ good' \in Seq(Proxies)
      /\ IsInjective(good')
  BY <1>1, ListedProperties DEF TypeOK, ListedOnce, SetProxyList
<1>3. /\ checks' \in SUBSET Proxies
      /\ Range(good') \cap checks' = {}
  BY DEF SetProxyList
<1>4. waiting' \in Nat /\ waiting' = IF checks' = {} THEN 0 ELSE 1
  BY <1>1 DEF SetProxyList, OneCallbackWaits
<1> QED BY <1>1, <1>2, <1>3, <1>4
        DEF IInv, TypeOK, ListedOnce, OneCallbackWaits, SetProxyList

\* A check that finishes: a working proxy goes from the checks to the list.
LEMMA CheckPreserves ==
  ASSUME IInv, NEW p \in checks, NEW works \in BOOLEAN, CheckFinish(p, works)
  PROVE  IInv'
<1>1. TypeOK /\ ListedOnce /\ OneCallbackWaits /\ p \in Proxies
  BY DEF IInv, TypeOK
<1>2. p \notin Range(good) /\ good \in Seq(Proxies) /\ IsInjective(good)
  BY <1>1 DEF ListedOnce, TypeOK
<1>3. /\ good' \in Seq(Proxies)
      /\ IsInjective(good')
      /\ Range(good') \subseteq Range(good) \cup {p}
  BY <1>1, <1>2, AppendNew DEF CheckFinish
<1>4. checks' = checks \ {p} /\ Range(good') \cap checks' = {}
  BY <1>1, <1>3 DEF CheckFinish, ListedOnce
<1>5. waiting = 1
  BY <1>1 DEF OneCallbackWaits
<1>6. waiting' \in Nat /\ waiting' = IF checks' = {} THEN 0 ELSE 1
  BY <1>5 DEF CheckFinish
<1>7. /\ current' \in {-1} \cup 0..Cardinality(Proxies)
      /\ in_use' \in Proxies \cup {NoProxy}
  <2>1. CASE ChangeProxy(good')
    BY <1>1, <1>3, <2>1, ChangeProxyType DEF TypeOK
  <2>2. CASE UNCHANGED <<current, in_use>>
    BY <1>1, <2>2 DEF TypeOK
  <2> QED BY <2>1, <2>2 DEF CheckFinish
<1> QED BY <1>1, <1>3, <1>4, <1>6, <1>7
        DEF IInv, TypeOK, ListedOnce, OneCallbackWaits, CheckFinish

\* Every step keeps the invariant.
LEMMA NextInv == IInv /\ [Next]_vars => IInv'
<1> SUFFICES ASSUME IInv, [Next]_vars PROVE IInv'
  OBVIOUS
<1>1. CASE \E list \in SUBSET Proxies : SetProxyList(list)
  BY <1>1, ListPreserves
<1>2. CASE FinishChecks
  BY <1>2, CheckPreserves DEF FinishChecks
<1>3. CASE LoginRetry
  <2>1. /\ current' \in {-1} \cup 0..Cardinality(Proxies)
        /\ in_use' \in Proxies \cup {NoProxy}
    BY <1>3, ChangeProxyType DEF LoginRetry, IInv, TypeOK, ListedOnce
  <2> QED BY <1>3, <2>1 DEF LoginRetry, IInv, TypeOK, ListedOnce, OneCallbackWaits
<1>4. CASE \E r \in Requests : Request(r) \/ Attempt(r)
  BY <1>4, RequestPreserves
<1>5. CASE UNCHANGED vars
  BY <1>5 DEF vars, proxyVars, IInv, TypeOK, ListedOnce, OneCallbackWaits
<1> QED BY <1>1, <1>2, <1>3, <1>4, <1>5 DEF Next

\* The browser of a new bot has the invariant.
LEMMA InitInv == Init => IInv
<1> SUFFICES ASSUME Init PROVE IInv
  OBVIOUS
<1>1. <<>> \in Seq(Proxies) /\ DOMAIN <<>> = {}
  OBVIOUS
<1> QED BY <1>1 DEF Init, IInv, TypeOK, ListedOnce, OneCallbackWaits, Range,
        IsInjective, ErrorBound, ErrorLimit

-----------------------------------------------------------------------------
\* The types, the list and the callbacks over any sequence of lists, check
\* results, requests and logins.
THEOREM InvariantHolds == Spec => []IInv
BY InitInv, NextInv, PTL DEF Spec

\* No proxy is in good_ twice, and none is in good_ and in proxy_checks_.
THEOREM ListedOnceHolds == Spec => []ListedOnce
<1>1. IInv => ListedOnce
  BY DEF IInv
<1> QED BY <1>1, InvariantHolds, PTL

\* set_proxy_list waits with one callback while checks are active, with none else.
THEOREM OneCallbackWaitsHolds == Spec => []OneCallbackWaits
<1>1. IInv => OneCallbackWaits
  BY DEF IInv
<1> QED BY <1>1, InvariantHolds, PTL

-----------------------------------------------------------------------------
(***************************************************************************)
(* The browser is a webclient, whose session WebClient has: its proofs,    *)
(* for any number of requests, redirects and tries, any calls and any      *)
(* lines that servers set cookies with.                                    *)
(***************************************************************************)
\* What a request may be sent with, and a request.
Sent == {Prepared(c).sent : c \in Calls} \cup {<<>>}
AnyRequest == [active : BOOLEAN, hops : 0..MaxRedirects, tries : Nat,
               call : Calls \cup {<<>>}, sent : Sent]

ClientType == requests \in [Slots -> AnyRequest]

\* The client has every cookie that it did not get wrong as the server has it.
SessionInv ==
  /\ header = cookies
  /\ ~cut => \A n \in (DOMAIN site \cup DOMAIN cookies) \ lapses :
                n \in DOMAIN site /\ n \in DOMAIN cookies /\ cookies[n] = site[n]

\* A cookie that is not misread is read as it is meant.
LEMMA ReadAsMeant ==
  ASSUME NEW lines, NEW n, n \notin Misread(lines)
  PROVE  /\ n \in DOMAIN Parsed(lines) <=> n \in Named(lines)
         /\ n \in Named(lines) => Parsed(lines)[n] = Meant(lines)[n]
<1> DEFINE all == 1..Len(lines)
           read == {i \in Kept(lines) : lines[i].value # NoValue}
           name == [i \in all |-> <<lines[i].name>>]
           key == [i \in read |-> Key(lines, i)]
<1>1. /\ Parsed(lines) = Assigned(lines, key) /\ Meant(lines) = Assigned(lines, name)
      /\ DOMAIN key = read /\ DOMAIN name = all
      /\ read \subseteq all
      /\ Named(lines) = {name[i] : i \in all}
  BY DEF Parsed, Meant, Kept, Named
<1>2. ASSUME NEW i \in read
      PROVE  key[i] = n <=> name[i] = n
  <2>1. /\ \/ key[i] = name[i]
           \/ key[i] = <<";", lines[i].name>> /\ i \in Weak(lines)
        /\ name[i] = <<lines[i].name>>
    <3>1. CASE \E j \in Kept(lines) : /\ j < i /\ lines[j].value = NoValue
                                      /\ \A k \in Kept(lines) : k <= j \/ k >= i
      <4>1. PICK j \in Kept(lines) : j < i /\ lines[j].value = NoValue
        BY <3>1
      <4>2. j \in 1..i /\ i \in all
        BY <4>1, <1>1 DEF Kept
      <4>3. i \in Weak(lines)
        BY <4>1, <4>2 DEF Weak
      <4> QED BY <3>1, <4>2, <4>3 DEF Key
    <3>2. CASE ~\E j \in Kept(lines) : /\ j < i /\ lines[j].value = NoValue
                                       /\ \A k \in Kept(lines) : k <= j \/ k >= i
      BY <3>2, <1>1 DEF Key
    <3> QED BY <3>1, <3>2
  <2>2. i \in Weak(lines) => <<lines[i].name>> # n /\ <<";", lines[i].name>> # n
    BY DEF Misread
  <2> QED BY <2>1, <2>2
<1>3. ASSUME NEW i \in all, name[i] = n
      PROVE  i \in read
  <2>1. i \notin Weak(lines)
    BY <1>3 DEF Misread
  <2>2. lines[i].attributes # "none" /\ i \in 1..i
    BY <2>1 DEF Weak
  <2>3. lines[i].value # NoValue
    BY <2>1, <2>2 DEF Weak
  <2> QED BY <2>2, <2>3 DEF Kept
<1> HIDE DEF key, name
<1>4. {i \in read : key[i] = n} = {i \in all : name[i] = n}
  BY <1>1, <1>2, <1>3
<1>5. n \in DOMAIN Assigned(lines, key) <=> n \in Named(lines)
  <2>1. DOMAIN Assigned(lines, key) = {key[i] : i \in read}
    BY <1>1 DEF Assigned, Range
  <2> QED BY <1>1, <1>2, <1>3, <2>1
<1>6. n \in DOMAIN Assigned(lines, name) <=> n \in Named(lines)
  <2>1. DOMAIN Assigned(lines, name) = {name[i] : i \in all}
    BY <1>1 DEF Assigned, Range
  <2> QED BY <1>1, <2>1
<1>7. ASSUME n \in Named(lines)
      PROVE  Assigned(lines, key)[n] = Assigned(lines, name)[n]
  <2>1. Assigned(lines, key)[n] = lines[Max({i \in read : key[i] = n})].value
    BY <1>1, <1>5, <1>7 DEF Assigned
  <2>2. Assigned(lines, name)[n] = lines[Max({i \in all : name[i] = n})].value
    BY <1>1, <1>6, <1>7 DEF Assigned
  <2> QED BY <1>4, <2>1, <2>2
<1> QED BY <1>1, <1>5, <1>7

\* What an answer makes of the cookies of the server.
LEMMA AnsweredMap ==
  ASSUME NEW lines, Answered(lines), NEW n
  PROVE  /\ n \in DOMAIN site' <=> n \in Named(lines) \cup DOMAIN site /\ n \notin Deleted(lines)
         /\ n \in DOMAIN site' /\ n \in Named(lines) => site'[n] = Meant(lines)[n]
         /\ n \in DOMAIN site' /\ n \notin Named(lines) => site'[n] = site[n]
         /\ n \in Deleted(lines) => n \in Named(lines) /\ n \in Misread(lines)
<1>1. DOMAIN Meant(lines) = Named(lines)
  <2> DEFINE name == [i \in 1..Len(lines) |-> <<lines[i].name>>]
  <2>1. /\ Meant(lines) = Assigned(lines, name) /\ DOMAIN name = 1..Len(lines)
        /\ Named(lines) = {name[i] : i \in 1..Len(lines)}
    BY DEF Meant, Named
  <2> HIDE DEF name
  <2> QED BY <2>1 DEF Assigned, Range
<1>2. n \in Deleted(lines) => n \in Named(lines) /\ n \in Misread(lines)
  <2>1. SUFFICES ASSUME NEW i \in 1..Len(lines), <<lines[i].name>> = n,
                        lines[i].attributes = "expired"
                 PROVE  n \in Misread(lines)
    BY DEF Deleted
  <2>2. i \in Weak(lines)
    BY <2>1 DEF Weak
  <2> QED BY <2>1, <2>2 DEF Misread
<1> QED BY <1>1, <1>2 DEF Answered, Restrict, Over

\* A response that is stored by the client keeps its session the server's, and makes
\* it so where it was not.
LEMMA ServedKeepsSession ==
  ASSUME SessionInv, NEW lines, Served(lines), StoreCookies(lines), UNCHANGED cut
  PROVE  SessionInv'
<1>1. header' = cookies'
  BY DEF SessionInv, StoreCookies
<1>2. Answered(lines) /\ lapses' = (lapses \ Named(lines)) \cup Misread(lines)
  BY DEF Served
<1>3. ASSUME NEW n
      PROVE  /\ n \in DOMAIN cookies' <=> n \in DOMAIN Parsed(lines) \cup DOMAIN cookies
             /\ n \in DOMAIN Parsed(lines) => cookies'[n] = Parsed(lines)[n]
             /\ n \in DOMAIN cookies /\ n \notin DOMAIN Parsed(lines)
                  => cookies'[n] = cookies[n]
  <2>1. CASE Parsed(lines) = NoCookies /\ cookies' = cookies
    <3>1. DOMAIN Parsed(lines) = {}
      BY <2>1 DEF NoCookies
    <3> QED BY <2>1, <3>1
  <2>2. CASE cookies' = Over(Parsed(lines), cookies)
    BY <2>2 DEF Over
  <2> QED BY <2>1, <2>2 DEF StoreCookies
<1>4. ASSUME ~cut, NEW n, n \in DOMAIN site' \cup DOMAIN cookies', n \notin lapses'
      PROVE  n \in DOMAIN site' /\ n \in DOMAIN cookies' /\ cookies'[n] = site'[n]
  <2>1. n \notin Misread(lines) /\ n \notin Deleted(lines)
    BY <1>2, <1>4, AnsweredMap
  <2>2. CASE n \in Named(lines)
    BY <1>2, <1>3, <2>1, <2>2, AnsweredMap, ReadAsMeant
  <2>3. CASE n \notin Named(lines)
    <3>1. n \notin lapses /\ n \notin DOMAIN Parsed(lines)
      BY <1>2, <1>4, <2>1, <2>3, ReadAsMeant
    <3>2. n \in DOMAIN site \cup DOMAIN cookies
      BY <1>2, <1>3, <1>4, <2>3, <3>1, AnsweredMap
    <3>3. n \in DOMAIN site /\ n \in DOMAIN cookies /\ cookies[n] = site[n]
      BY <1>4, <3>1, <3>2 DEF SessionInv
    <3> QED BY <1>2, <1>3, <2>1, <2>3, <3>1, <3>3, AnsweredMap
  <2> QED BY <2>2, <2>3
<1> QED BY <1>1, <1>4 DEF SessionInv

\* An answer that the client never looks at costs it the cookies named there.
LEMMA DroppedKeepsSession ==
  ASSUME SessionInv, NEW lines, Dropped(lines), UNCHANGED <<cookies, header, cut>>
  PROVE  SessionInv'
<1>1. Answered(lines) /\ lapses' = lapses \cup Named(lines)
  BY DEF Dropped
<1>2. ASSUME ~cut, NEW n, n \in DOMAIN site' \cup DOMAIN cookies, n \notin lapses'
      PROVE  n \in DOMAIN site' /\ n \in DOMAIN cookies /\ cookies[n] = site'[n]
  <2>1. n \notin lapses /\ n \notin Named(lines)
    BY <1>1, <1>2
  <2>2. (n \in DOMAIN site' <=> n \in DOMAIN site) /\ (n \in DOMAIN site' => site'[n] = site[n])
    BY <1>1, <2>1, AnsweredMap
  <2> QED BY <1>2, <2>1, <2>2 DEF SessionInv
<1> QED BY <1>2 DEF SessionInv

\* What the invariant is about does not change with a request that starts.
LEMMA SessionUnchanged ==
  ASSUME SessionInv, UNCHANGED <<cookies, header, site, lapses, cut>>
  PROVE  SessionInv'
BY DEF SessionInv


\* A new attempt is a request.
LEMMA AttemptType ==
  ASSUME MaxRedirects \in Nat, NEW c \in Calls \cup {<<>>}, NEW n \in Nat
  PROVE  Try(c, n) \in AnyRequest
<1>1. Prepared(c).sent \in Sent
  <2>1. CASE c \in Calls
    BY <2>1 DEF Sent
  <2>2. CASE c = <<>>
    <3>1. Prepared(c).sent = <<>>
      BY <2>2 DEF Prepared, PlainCall, Submission
    <3> QED BY <3>1 DEF Sent
  <2> QED BY <2>1, <2>2
<1> QED BY <1>1 DEF Try, AnyRequest

\* Slots stay requests.
LEMMA ClientTypeStep ==
  ASSUME MaxRedirects \in Nat, Retries \in Nat, ClientType, [ClientNext]_clientVars
  PROVE  ClientType'
<1> USE DEF ClientType
<1>0. NoRequest \in AnyRequest
  BY DEF NoRequest, Sent, AnyRequest
<1>1. ASSUME NEW r \in Slots PROVE requests[r] \in AnyRequest
  BY DEF AnyRequest
<1>2. ASSUME NEW r \in Slots, NEW c \in Calls, Call(r, c)
      PROVE  ClientType'
  BY <1>2, AttemptType DEF Call
<1>3. ASSUME NEW r \in Slots, NEW lines \in Headers, Redirect(r, lines)
      PROVE  ClientType'
  <2>1. [requests[r] EXCEPT !.hops = @ - 1, !.sent = <<>>] \in AnyRequest
    <3>1. requests[r] \in AnyRequest /\ requests[r].hops > 0
      BY <1>3, <1>1 DEF Redirect
    <3>2. requests[r].hops - 1 \in 0..MaxRedirects
      BY <3>1 DEF AnyRequest
    <3>3. <<>> \in Sent
      BY DEF Sent
    <3> HIDE DEF ClientType
    <3> QED BY <3>1, <3>2, <3>3 DEF AnyRequest
  <2>2. requests' = [q \in Slots |->
                       IF q = r THEN [requests[r] EXCEPT !.hops = @ - 1, !.sent = <<>>]
                                ELSE requests[q]]
    BY <1>3, <1>1 DEF Redirect, AnyRequest
  <2> QED BY <2>1, <2>2, <1>1
<1>4. ASSUME NEW r \in Slots, Finished(r) PROVE ClientType'
  BY <1>4, <1>0 DEF Finished
<1>5. ASSUME NEW r \in Slots, Repeated(r), requests[r].tries > 0
      PROVE  ClientType'
  <2>1. requests[r].call \in Calls \cup {<<>>} /\ requests[r].tries - 1 \in Nat
    BY <1>1, <1>5 DEF AnyRequest
  <2> QED BY <1>5, <2>1, AttemptType DEF Repeated
<1>6. CASE Restart
  BY <1>6, <1>0 DEF Restart
<1>7. CASE UNCHANGED clientVars
  BY <1>7 DEF clientVars
<1> QED BY <1>2, <1>3, <1>4, <1>5, <1>6, <1>7
        DEF ClientNext, Respond, Failed

\* A response or an error ends an attempt: its session is saved.
LEMMA SavedStep ==
  ASSUME MaxRedirects \in Nat, ClientType, CookiesSaved,
         [ClientNext]_clientVars
  PROVE  CookiesSaved'
<1> USE DEF CookiesSaved, Redirected, UnderWay
<1>0. ASSUME NEW r \in Slots PROVE requests[r] \in AnyRequest
  BY DEF ClientType, AnyRequest
<1>1. ASSUME NEW r \in Slots, NEW c \in Calls, Call(r, c)
      PROVE  CookiesSaved'
  BY <1>1 DEF Call, ClientType
<1>2. ASSUME NEW r \in Slots, NEW lines \in Headers, Redirect(r, lines)
      PROVE  CookiesSaved'
  <2>1. requests'[r].active /\ requests'[r].hops = requests[r].hops - 1
    BY <1>2, <1>0 DEF Redirect, AnyRequest, ClientType
  <2>2. requests[r].hops - 1 < MaxRedirects
    BY <1>0 DEF AnyRequest
  <2> QED BY <2>1, <2>2
<1>3. ASSUME NEW r \in Slots, NEW lines \in Headers, Respond(r, lines)
      PROVE  CookiesSaved'
  BY <1>3 DEF Respond
<1>4. ASSUME NEW r \in Slots, NEW lines, Failed(r, lines)
      PROVE  CookiesSaved'
  BY <1>4 DEF Failed
<1>5. CASE Restart
  BY <1>5 DEF Restart
<1>6. CASE UNCHANGED clientVars
  BY <1>6 DEF clientVars
<1> QED BY <1>1, <1>2, <1>3, <1>4, <1>5, <1>6 DEF ClientNext

\* The session is kept over every step: a restart takes what has been saved.
LEMMA SessionStep ==
  ASSUME SessionInv, CookiesSaved, [ClientNext]_clientVars
  PROVE  SessionInv'
<1>1. ASSUME NEW r \in Slots, NEW c \in Calls, Call(r, c)
      PROVE  SessionInv'
  BY <1>1, SessionUnchanged DEF Call
<1>2. ASSUME NEW r \in Slots, NEW lines \in Headers,
             Redirect(r, lines) \/ Respond(r, lines)
      PROVE  SessionInv'
  BY <1>2, ServedKeepsSession DEF Redirect, Respond
<1>3. ASSUME NEW r \in Slots, NEW lines, Failed(r, lines)
      PROVE  SessionInv'
  BY <1>3, DroppedKeepsSession DEF Failed
<1>4. ASSUME Restart PROVE SessionInv'
  <2>1. header' = cookies' /\ cookies' = stored /\ site' = site /\ lapses' = lapses
    BY <1>4 DEF Restart
  <2>2. ASSUME ~cut' PROVE ~cut /\ stored = cookies
    <3>1. ~cut /\ ~\E r \in Slots : UnderWay(r)
      BY <1>4, <2>2 DEF Restart
    <3> QED BY <3>1 DEF CookiesSaved, Redirected
  <2> QED BY <2>1, <2>2 DEF SessionInv
<1>5. CASE UNCHANGED clientVars
  BY <1>5, SessionUnchanged DEF clientVars
<1> QED BY <1>1, <1>2, <1>3, <1>4, <1>5 DEF ClientNext

\* The invariant of the client.
ClientInv == ClientType /\ CookiesSaved /\ SessionInv

(***************************************************************************)
(* It holds for every interleaving of requests, responses, errors,         *)
(* redirects and restarts of the bot.                                      *)
(***************************************************************************)
THEOREM ClientInvHolds == ClientSpec => []ClientInv
<1>0. MaxRedirects \in Nat /\ Retries \in Nat
  BY BoundAssumption
<1>1. ClientInit => ClientInv
  <2> SUFFICES ASSUME ClientInit PROVE ClientInv
    OBVIOUS
  <2> USE DEF ClientInit, NoRequest
  <2>1. ClientType
    BY <1>0 DEF ClientType, AnyRequest, Sent
  <2>2. CookiesSaved
    BY DEF CookiesSaved
  <2>3. SessionInv
    BY DEF SessionInv, NoCookies
  <2> QED BY <2>1, <2>2, <2>3 DEF ClientInv
<1>2. ClientInv /\ [ClientNext]_clientVars => ClientInv'
  BY <1>0, ClientTypeStep, SavedStep, SessionStep DEF ClientInv
<1> QED BY <1>1, <1>2, PTL DEF ClientSpec

(***************************************************************************)
(* The header of the next request has every cookie as the server has set   *)
(* it last, except those whose last change the client does not get to see, *)
(* or cannot read, as SessionKept lists them.                              *)
(***************************************************************************)
THEOREM SessionKeptHolds == ClientSpec => []SessionKept
<1>1. ClientSpec => []ClientInv
  BY ClientInvHolds
<1>2. ClientInv => SessionKept
  BY DEF ClientInv, SessionInv, SessionKept
<1> QED BY <1>1, <1>2, PTL

(***************************************************************************)
(* The configuration of the bot has the cookies of its browser whenever no *)
(* redirect is being followed, whatever servers send.                      *)
(***************************************************************************)
THEOREM CookiesSavedHolds == ClientSpec => []CookiesSaved
<1>1. ClientSpec => []ClientInv
  BY ClientInvHolds
<1>2. ClientInv => CookiesSaved
  BY DEF ClientInv
<1> QED BY <1>1, <1>2, PTL

=============================================================================
