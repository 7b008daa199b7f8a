--------------------------- MODULE LuaSessionProofs ---------------------------
(***************************************************************************)
(* Lemmas about LuaSession that the proofs of its hosts share: what an     *)
(* activation of a script leaves in the globals, and which calls of the    *)
(* host h it queues.                                                       *)
(***************************************************************************)
EXTENDS LuaSession, SequenceTheorems, TLAPS

\* What one activation leaves behind is of the right type.
LEMMA ActivationType ==
  ASSUME NEW o \in Outcomes, NEW fin0 \in BOOLEAN, NEW infl0 \in Nat,
         NEW b0 \in Nat, faults \subseteq FaultKinds,
         Activation(o, fin0, infl0, b0)
  PROVE  /\ faults' \subseteq FaultKinds
         /\ finished' \in BOOLEAN
         /\ inflight' \in Nat
         /\ budget' \in Nat
         /\ finished' = (fin0 \/ o.fin)
         /\ o.fin => ~fin0
<1>1. Misdeeds(o, fin0, infl0) \subseteq FaultKinds
  BY DEF Misdeeds
<1>2. faults' \subseteq FaultKinds
  BY <1>1 DEF Activation
<1> QED BY <1>2, MaxRequestsAssumption DEF Outcomes, Activation, Possible

\* An activation that leaves a fault uncommitted: what it did not do.
LEMMA FaultsAvoided ==
  ASSUME NEW o \in Outcomes, NEW fin0 \in BOOLEAN, NEW infl0 \in Nat, NEW b0,
         Activation(o, fin0, infl0, b0)
  PROVE  /\ faults \subseteq faults'
         /\ "late_raise" \notin faults' => (o.err => o.req = 0)
         /\ "parallel" \notin faults' => infl0 + o.req <= 1
         /\ "silent" \notin faults' =>
              (~fin0 /\ ~o.fin /\ ~o.err => o.stored \/ o.req > 0)
         /\ "failed_call" \notin faults' => (o.stored => o.err /\ ~registered)
         /\ infl0 + o.req \in Nat /\ inflight' = infl0 + o.req
<1>1. o.req \in Nat /\ o.stored \in BOOLEAN /\ o.err \in BOOLEAN /\ o.fin \in BOOLEAN
  BY MaxRequestsAssumption DEF Outcomes
<1>2. faults' = faults \cup Misdeeds(o, fin0, infl0) /\ inflight' = infl0 + o.req
  BY DEF Activation
<1>3. /\ ~fin0 /\ ~o.fin /\ ~o.err /\ ~o.stored /\ o.req = 0
           => "silent" \in Misdeeds(o, fin0, infl0)
      /\ o.err /\ o.req > 0 => "late_raise" \in Misdeeds(o, fin0, infl0)
      /\ o.stored /\ (registered \/ ~o.err)
           => "failed_call" \in Misdeeds(o, fin0, infl0)
      /\ infl0 + o.req > 1 => "parallel" \in Misdeeds(o, fin0, infl0)
  BY DEF Misdeeds, FaultKinds
<1>4. "late_raise" \notin faults' => (o.err => o.req = 0)
  BY <1>1, <1>2, <1>3
<1>5. "parallel" \notin faults' => infl0 + o.req <= 1
  BY <1>1, <1>2, <1>3
<1>6. "silent" \notin faults' => (~fin0 /\ ~o.fin /\ ~o.err => o.stored \/ o.req > 0)
  BY <1>1, <1>2, <1>3
<1>7. "failed_call" \notin faults' => (o.stored => o.err /\ ~registered)
  BY <1>1, <1>2, <1>3
<1> QED BY <1>1, <1>2, <1>4, <1>5, <1>6, <1>7

-----------------------------------------------------------------------------
\* The queues the handlers of a session leave: on_finish's call, a final one, or
\* the one after the other.
FinishQueue(h, fin) == IF fin THEN <<HostCall(h, "ok")>> ELSE <<>>
FinalQueue(h, fin, arg) ==
  IF fin THEN <<HostCall(h, "ok"), HostCall(h, arg)>> ELSE <<HostCall(h, arg)>>

Queues(h) == {FinishQueue(h, fin) : fin \in BOOLEAN}
               \cup {FinalQueue(h, fin, arg) : fin \in BOOLEAN, arg \in {"ok", "err"}}

\* The three ways an activation on behalf of h ends when it called on_finish or
\* not (fin): a request or an HTTP call that failed to start is pending, the
\* script has succeeded, it has raised.
Waits(h, fin) ==
  callback' = TRUE /\ host' = h /\ calls' = FinishQueue(h, fin)
Succeeds(h, fin) ==
  callback' = FALSE /\ host' = "none" /\ calls' = FinalQueue(h, fin, "ok")
Raises(h, fin, cb) ==
  callback' = cb /\ host' = h /\ calls' = FinalQueue(h, fin, "err")

\* The appends the handlers make (the provers do not compute them).
LEMMA AppendToShort ==
  ASSUME NEW a, NEW b
  PROVE  Append(<<a>>, b) = <<a, b>> /\ Append(<<>>, b) = <<b>>
<1>1. /\ <<>> \in Seq({a, b}) /\ <<a>> \in Seq({a, b}) /\ <<b>> \in Seq({a, b})
      /\ <<a, b>> \in Seq({a, b})
      /\ Len(<<>>) = 0 /\ Len(<<a>>) = 1 /\ Len(<<b>>) = 1 /\ Len(<<a, b>>) = 2
  OBVIOUS
<1>2. Append(<<a>>, b) = <<a, b>>
  <2> DEFINE s == Append(<<a>>, b)
             t == <<a, b>>
  <2>1. s \in Seq({a, b}) /\ Len(s) = 2 /\ s[1] = a /\ s[2] = b
    BY <1>1, AppendProperties
  <2>2. t \in Seq({a, b}) /\ Len(t) = 2 /\ t[1] = a /\ t[2] = b
    BY <1>1
  <2> HIDE DEF s, t
  <2>3. \A i \in 1..Len(s) : s[i] = t[i]
    BY <2>1, <2>2
  <2>4. s = t
    BY <2>1, <2>2, <2>3, SeqEqual
  <2> QED BY <2>4 DEF s, t
<1>3. Append(<<>>, b) = <<b>>
  <2> DEFINE s == Append(<<>>, b)
  <2>1. s \in Seq({a, b}) /\ Len(s) = 1 /\ s[1] = b
    BY <1>1, AppendProperties
  <2> QED BY <1>1, <2>1, SeqEqual
<1> QED BY <1>2, <1>3

\* What on_finish queues, and a final call behind it.
LEMMA FinishCallQueue ==
  ASSUME NEW o \in Outcomes, NEW h, h # "none"
  PROVE  /\ FinishCall(o, h) = FinishQueue(h, o.fin)
         /\ <<>> \o FinishCall(o, h) = FinishQueue(h, o.fin)
         /\ \A arg : Append(FinishCall(o, h), HostCall(h, arg))
                       = FinalQueue(h, o.fin, arg)
<1>1. FinishCall(o, h) = FinishQueue(h, o.fin)
  BY DEF FinishCall, FinishQueue, Outcomes
<1>2. FinishQueue(h, o.fin) \in Seq({HostCall(h, "ok")})
  <2>1. <<>> \in Seq({HostCall(h, "ok")}) /\ <<HostCall(h, "ok")>> \in Seq({HostCall(h, "ok")})
    OBVIOUS
  <2> QED BY <2>1 DEF FinishQueue
<1>3. <<>> \o FinishQueue(h, o.fin) = FinishQueue(h, o.fin)
  BY <1>2, ConcatEmptySeq
<1>4. ASSUME NEW arg
      PROVE  Append(FinishQueue(h, o.fin), HostCall(h, arg)) = FinalQueue(h, o.fin, arg)
  BY AppendToShort DEF FinishQueue, FinalQueue
<1> QED BY <1>1, <1>3, <1>4

\* How a function that has been started on a state ends.
LEMMA ConcludeCalls ==
  ASSUME NEW o \in Outcomes, NEW h, h # "none", NEW cb \in BOOLEAN,
         Conclude(o, h, cb, <<>> \o FinishCall(o, h))
  PROVE  \/ ~o.err /\ cb /\ Waits(h, o.fin)
         \/ ~o.err /\ ~cb /\ Succeeds(h, o.fin)
         \/ o.err /\ Raises(h, o.fin, cb)
<1>1. /\ <<>> \o FinishCall(o, h) = FinishQueue(h, o.fin)
      /\ \A arg : Append(FinishQueue(h, o.fin), HostCall(h, arg))
                    = FinalQueue(h, o.fin, arg)
  BY FinishCallQueue
<1>2. CASE o.err /\ Raise(cb, h, FinishQueue(h, o.fin))
  BY <1>1, <1>2 DEF Raise, Raises
<1>3. CASE ~o.err /\ Finalize(cb, h, FinishQueue(h, o.fin))
  BY <1>1, <1>3 DEF Finalize, Waits, Succeeds
<1> QED BY <1>1, <1>2, <1>3 DEF Conclude

\* The same for the two ways a function is started.
LEMMA SyncRunCalls ==
  ASSUME NEW h, h # "none", NEW cb0 \in BOOLEAN, SyncRun(h, cb0, <<>>)
  PROVE  /\ luaState' = "open" /\ UNCHANGED <<orphaned, registered>>
         /\ \E o \in Outcomes :
              /\ Activation(o, FALSE, inflight, budget)
              /\ \/ ~o.err /\ Stored(o, cb0) /\ Waits(h, o.fin)
                 \/ ~o.err /\ ~Stored(o, cb0) /\ Succeeds(h, o.fin)
                 \/ o.err /\ Raises(h, o.fin, Stored(o, cb0))
<1>1. PICK o \in Outcomes :
        /\ Activation(o, FALSE, inflight, budget)
        /\ Conclude(o, h, Stored(o, cb0), <<>> \o FinishCall(o, h))
  BY Zenon DEF SyncRun
<1>2. Stored(o, cb0) \in BOOLEAN
  BY DEF Stored
<1>3. \/ ~o.err /\ Stored(o, cb0) /\ Waits(h, o.fin)
      \/ ~o.err /\ ~Stored(o, cb0) /\ Succeeds(h, o.fin)
      \/ o.err /\ Raises(h, o.fin, Stored(o, cb0))
  BY <1>1, <1>2, ConcludeCalls
<1> QED BY <1>1, <1>3 DEF SyncRun

\* Replacing a state gives up the requests of the old one and runs the new script,
\* which waits, succeeds or raises.
LEMMA ReplaceRunCalls ==
  ASSUME NEW h, h # "none", ReplaceRun(h, <<>>)
  PROVE  /\ luaState' = "open" /\ orphaned' = (orphaned \/ inflight > 0)
         /\ UNCHANGED registered
         /\ \E o \in Outcomes :
              /\ Activation(o, FALSE, 0, MaxRequests)
              /\ \/ ~o.err /\ Stored(o, FALSE) /\ Waits(h, o.fin)
                 \/ ~o.err /\ ~Stored(o, FALSE) /\ Succeeds(h, o.fin)
                 \/ o.err /\ Raises(h, o.fin, Stored(o, FALSE))
<1>1. PICK o \in Outcomes :
        /\ Activation(o, FALSE, 0, MaxRequests)
        /\ Conclude(o, h, Stored(o, FALSE), <<>> \o FinishCall(o, h))
  BY Zenon DEF ReplaceRun
<1>2. Stored(o, FALSE) \in BOOLEAN
  BY DEF Stored
<1>3. \/ ~o.err /\ Stored(o, FALSE) /\ Waits(h, o.fin)
      \/ ~o.err /\ ~Stored(o, FALSE) /\ Succeeds(h, o.fin)
      \/ o.err /\ Raises(h, o.fin, Stored(o, FALSE))
  BY <1>1, <1>2, ConcludeCalls
<1> QED BY <1>1, <1>3 DEF ReplaceRun

-----------------------------------------------------------------------------
\* on_error with a host that is registered, or without one.
LEMMA OnErrorCalls ==
  ASSUME NEW infl, OnError(infl, <<>>)
  PROVE  \/ /\ host # "none" /\ callback' = FALSE
            /\ calls' = FinalQueue(host, FALSE, "err")
            /\ UNCHANGED <<luaState, host, orphaned>>
         \/ /\ host = "none" /\ luaState' = "freed"
            /\ orphaned' = (orphaned \/ infl > 0)
            /\ calls' = <<>>
            /\ UNCHANGED <<callback, host>>
BY DEF OnError, FinalQueue

\* The completion of a request that calls BOT_CALLBACK.  Its host is registered:
\* the hosts' invariants say that a callback that is set has one.
LEMMA ResponseCalls ==
  ASSUME Response, host # "none"
  PROVE  /\ luaState = "open" /\ inflight > 0 /\ callback /\ calls = <<>>
         /\ UNCHANGED <<luaState, orphaned, registered>>
         /\ \E o \in Outcomes :
              /\ Activation(o, finished, inflight - 1, budget)
              /\ \/ ~o.err /\ Stored(o, FALSE) /\ Waits(host, o.fin)
                 \/ ~o.err /\ ~Stored(o, FALSE) /\ Succeeds(host, o.fin)
                 \/ o.err /\ Raises(host, o.fin, FALSE)
<1>1. PICK o \in Outcomes :
        /\ Activation(o, finished, inflight - 1, budget)
        /\ \/ o.err /\ OnError(inflight', FinishCall(o, host))
           \/ /\ ~o.err
              /\ Finalize(Stored(o, FALSE), host, FinishCall(o, host))
              /\ UNCHANGED <<luaState, orphaned>>
  BY Zenon DEF Response
<1>2. /\ FinishCall(o, host) = FinishQueue(host, o.fin)
      /\ \A arg : Append(FinishCall(o, host), HostCall(host, arg))
                    = FinalQueue(host, o.fin, arg)
  BY FinishCallQueue
<1>3. \/ ~o.err /\ Stored(o, FALSE) /\ Waits(host, o.fin)
      \/ ~o.err /\ ~Stored(o, FALSE) /\ Succeeds(host, o.fin)
      \/ o.err /\ Raises(host, o.fin, FALSE)
  BY <1>1, <1>2 DEF OnError, Finalize, Waits, Succeeds, Raises
<1>4. UNCHANGED <<luaState, orphaned>>
  BY <1>1 DEF OnError
<1> QED BY <1>1, <1>3, <1>4 DEF Response, Idle

-----------------------------------------------------------------------------
\* A queue that a session has left, taken apart.
LEMMA QueueParts ==
  ASSUME NEW h, NEW q \in Queues(h), q # <<>>
  PROVE  \/ \E arg \in {"ok", "err"} :
              /\ q = <<HostCall(h, arg)>>
              /\ Head(q) = HostCall(h, arg) /\ Tail(q) = <<>> /\ Len(q) = 1
         \/ \E arg \in {"ok", "err"} :
              /\ q = <<HostCall(h, "ok"), HostCall(h, arg)>>
              /\ Head(q) = HostCall(h, "ok") /\ Tail(q) = <<HostCall(h, arg)>>
              /\ Len(q) = 2
<1>1. \/ \E arg \in {"ok", "err"} : q = <<HostCall(h, arg)>>
      \/ \E arg \in {"ok", "err"} : q = <<HostCall(h, "ok"), HostCall(h, arg)>>
  BY DEF Queues, FinishQueue, FinalQueue
<1>2. \A a : Head(<<a>>) = a /\ Tail(<<a>>) = <<>> /\ Len(<<a>>) = 1
  OBVIOUS
<1>3. \A a, b : Head(<<a, b>>) = a /\ Tail(<<a, b>>) = <<b>> /\ Len(<<a, b>>) = 2
  OBVIOUS
<1>4. ASSUME NEW arg \in {"ok", "err"}, q = <<HostCall(h, arg)>>
      PROVE  Head(q) = HostCall(h, arg) /\ Tail(q) = <<>> /\ Len(q) = 1
  <2> DEFINE a == HostCall(h, arg)
  <2>1. q = <<a>>
    BY <1>4
  <2> HIDE DEF a
  <2>2. Head(q) = a /\ Tail(q) = <<>> /\ Len(q) = 1
    BY <2>1, <1>2
  <2> QED BY <2>2 DEF a
<1>5. ASSUME NEW arg \in {"ok", "err"}, q = <<HostCall(h, "ok"), HostCall(h, arg)>>
      PROVE  /\ Head(q) = HostCall(h, "ok") /\ Tail(q) = <<HostCall(h, arg)>>
             /\ Len(q) = 2
  <2> DEFINE a == HostCall(h, "ok")
             b == HostCall(h, arg)
  <2>1. q = <<a, b>>
    BY <1>5
  <2> HIDE DEF a, b
  <2>2. Head(q) = a /\ Tail(q) = <<b>> /\ Len(q) = 2
    BY <2>1, <1>3
  <2> QED BY <2>2 DEF a, b
<1> QED BY <1>1, <1>4, <1>5, Zenon

\* What the three ends of an activation leave is such a queue.
LEMMA InQueues ==
  ASSUME NEW h, NEW fin \in BOOLEAN, NEW arg \in {"ok", "err"}
  PROVE  FinishQueue(h, fin) \in Queues(h) /\ FinalQueue(h, fin, arg) \in Queues(h)
BY DEF Queues

\* A queue that a session has left is of the right type.
LEMMA QueueType ==
  ASSUME NEW hosts, NEW h \in hosts, NEW q \in Queues(h)
  PROVE  q \in Seq([to : hosts \cup {"none"}, arg : {"ok", "err"}])
<1> DEFINE C == [to : hosts \cup {"none"}, arg : {"ok", "err"}]
<1>1. \A arg \in {"ok", "err"} : HostCall(h, arg) \in C
  BY DEF HostCall
<1>2. \/ q = <<>>
      \/ \E arg \in {"ok", "err"} : q = <<HostCall(h, arg)>>
      \/ \E arg \in {"ok", "err"} : q = <<HostCall(h, "ok"), HostCall(h, arg)>>
  BY DEF Queues, FinishQueue, FinalQueue
<1> HIDE DEF C
<1>3. CASE q = <<>>
  BY <1>3
<1>4. ASSUME NEW arg \in {"ok", "err"}, q = <<HostCall(h, arg)>>
      PROVE  q \in Seq(C)
  BY <1>1, <1>4
<1>5. ASSUME NEW arg \in {"ok", "err"}, q = <<HostCall(h, "ok"), HostCall(h, arg)>>
      PROVE  q \in Seq(C)
  BY <1>1, <1>5
<1>6. q \in Seq(C)
  BY <1>2, <1>3, <1>4, <1>5
<1> QED BY <1>6 DEF C

-----------------------------------------------------------------------------
\* The globals keep their types, whatever is queued before: what a function
\* queues on behalf of h,
CallsOf(hosts) == [to : hosts \cup {"none"}, arg : {"ok", "err"}]

\* The calls of an activation are of the type of the queue: the one of on_finish,
LEMMA FinishCallType ==
  ASSUME NEW hosts, NEW h \in hosts \cup {"none"}, NEW o \in Outcomes
  PROVE  /\ FinishCall(o, h) \in Seq(CallsOf(hosts))
         /\ \A arg \in {"ok", "err"} : HostCall(h, arg) \in CallsOf(hosts)
<1>1. \A arg \in {"ok", "err"} : HostCall(h, arg) \in CallsOf(hosts)
  BY DEF HostCall, CallsOf
<1> QED BY <1>1 DEF FinishCall

\* how it ends,
LEMMA ConcludeType ==
  ASSUME NEW hosts, NEW h \in hosts \cup {"none"}, NEW o \in Outcomes,
         NEW cb \in BOOLEAN, NEW made \in Seq(CallsOf(hosts)),
         Conclude(o, h, cb, made)
  PROVE  /\ callback' \in BOOLEAN /\ host' \in hosts \cup {"none"}
         /\ calls' \in Seq(CallsOf(hosts))
<1>1. \A arg \in {"ok", "err"} : Append(made, HostCall(h, arg)) \in Seq(CallsOf(hosts))
  BY FinishCallType, AppendProperties
<1>2. CASE Raise(cb, h, made)
  BY <1>1, <1>2 DEF Raise
<1>3. CASE Finalize(cb, h, made)
  BY <1>1, <1>3 DEF Finalize
<1> QED BY <1>2, <1>3 DEF Conclude

\* the execution of a function on a new state or on a replaced one,
LEMMA RunType ==
  ASSUME NEW hosts, NEW h \in hosts, SessionTypeOK(hosts),
         NEW rest \in Seq(CallsOf(hosts)),
         \/ \E cb0 \in BOOLEAN : SyncRun(h, cb0, rest)
         \/ ReplaceRun(h, rest)
  PROVE  SessionTypeOK(hosts)'
<1> USE DEF SessionTypeOK
<1>1. \A o \in Outcomes : rest \o FinishCall(o, h) \in Seq(CallsOf(hosts))
  BY FinishCallType, ConcatProperties
<1>2. ASSUME NEW cb0 \in BOOLEAN, SyncRun(h, cb0, rest)
      PROVE  SessionTypeOK(hosts)'
  <2>1. PICK o \in Outcomes :
          /\ Activation(o, FALSE, inflight, budget)
          /\ Conclude(o, h, Stored(o, cb0), rest \o FinishCall(o, h))
    BY <1>2, Zenon DEF SyncRun
  <2>2. Stored(o, cb0) \in BOOLEAN
    BY DEF Stored
  <2>3. /\ callback' \in BOOLEAN /\ host' \in hosts \cup {"none"}
        /\ calls' \in Seq(CallsOf(hosts))
    <3> DEFINE made == rest \o FinishCall(o, h)
               cb == Stored(o, cb0)
    <3>1. made \in Seq(CallsOf(hosts))
      BY <1>1
    <3>2. Conclude(o, h, cb, made) /\ cb \in BOOLEAN
      BY <2>1, <2>2
    <3>3. h \in hosts \cup {"none"}
      OBVIOUS
    <3> HIDE DEF made, cb
    <3> QED BY <3>1, <3>2, <3>3, ConcludeType
  <2>4. /\ faults' \subseteq FaultKinds /\ finished' \in BOOLEAN
        /\ inflight' \in Nat /\ budget' \in Nat
    BY <2>1, ActivationType
  <2> QED BY <1>2, <2>3, <2>4 DEF SyncRun, CallsOf
<1>3. ASSUME ReplaceRun(h, rest)
      PROVE  SessionTypeOK(hosts)'
  <2>1. PICK o \in Outcomes :
          /\ Activation(o, FALSE, 0, MaxRequests)
          /\ Conclude(o, h, Stored(o, FALSE), rest \o FinishCall(o, h))
    BY <1>3, Zenon DEF ReplaceRun
  <2>2. Stored(o, FALSE) \in BOOLEAN
    BY DEF Stored
  <2>3. /\ callback' \in BOOLEAN /\ host' \in hosts \cup {"none"}
        /\ calls' \in Seq(CallsOf(hosts))
    <3> DEFINE made == rest \o FinishCall(o, h)
               cb == Stored(o, FALSE)
    <3>1. made \in Seq(CallsOf(hosts))
      BY <1>1
    <3>2. Conclude(o, h, cb, made) /\ cb \in BOOLEAN
      BY <2>1, <2>2
    <3>3. h \in hosts \cup {"none"}
      OBVIOUS
    <3> HIDE DEF made, cb
    <3> QED BY <3>1, <3>2, <3>3, ConcludeType
  <2>4. /\ faults' \subseteq FaultKinds /\ finished' \in BOOLEAN
        /\ inflight' \in Nat /\ budget' \in Nat
    BY <2>1, ActivationType, MaxRequestsAssumption
  <2> QED BY <1>3, <2>3, <2>4 DEF ReplaceRun, CallsOf
<1> QED BY <1>2, <1>3

\* the completion of a request,
LEMMA CompletionType ==
  ASSUME NEW hosts, SessionTypeOK(hosts), Completion
  PROVE  SessionTypeOK(hosts)'
<1> USE DEF SessionTypeOK
<1>1. ASSUME NEW made \in Seq(CallsOf(hosts)), NEW infl, OnError(infl, made)
      PROVE  /\ callback' \in BOOLEAN /\ host' \in hosts \cup {"none"}
             /\ calls' \in Seq(CallsOf(hosts)) /\ orphaned' \in BOOLEAN
             /\ luaState' \in {"none", "open", "freed"}
  <2>1. Append(made, HostCall(host, "err")) \in Seq(CallsOf(hosts))
    <3>1. HostCall(host, "err") \in CallsOf(hosts)
      BY DEF HostCall, CallsOf
    <3> QED BY <3>1, AppendProperties
  <2> QED BY <1>1, <2>1 DEF OnError
<1>2. CASE Response
  <2>1. PICK o \in Outcomes :
          /\ Activation(o, finished, inflight - 1, budget)
          /\ \/ o.err /\ OnError(inflight', FinishCall(o, host))
             \/ /\ ~o.err
                /\ Finalize(Stored(o, FALSE), host, FinishCall(o, host))
                /\ UNCHANGED <<luaState, orphaned>>
    BY <1>2, Zenon DEF Response
  <2>2. inflight - 1 \in Nat /\ registered' = registered
    BY <1>2 DEF Response
  <2>3. /\ faults' \subseteq FaultKinds /\ finished' \in BOOLEAN
        /\ inflight' \in Nat /\ budget' \in Nat
    BY <2>1, <2>2, ActivationType
  <2>4. FinishCall(o, host) \in Seq(CallsOf(hosts))
    BY FinishCallType
  <2>5. CASE OnError(inflight', FinishCall(o, host))
    BY <1>1, <2>2, <2>3, <2>4, <2>5 DEF CallsOf
  <2>6. CASE /\ ~o.err
             /\ Finalize(Stored(o, FALSE), host, FinishCall(o, host))
             /\ UNCHANGED <<luaState, orphaned>>
    <3>1. Stored(o, FALSE) \in BOOLEAN
      BY DEF Stored
    <3>2. Conclude(o, host, Stored(o, FALSE), FinishCall(o, host))
      BY <2>6 DEF Conclude
    <3>3. /\ callback' \in BOOLEAN /\ host' \in hosts \cup {"none"}
          /\ calls' \in Seq(CallsOf(hosts))
      BY <2>4, <3>1, <3>2, ConcludeType
    <3> QED BY <2>2, <2>3, <2>6, <3>3 DEF CallsOf
  <2> QED BY <2>1, <2>5, <2>6
<1>3. CASE UnexpectedResponse \/ FailedRequest
  <2>1. /\ inflight > 0 /\ inflight' = inflight - 1 /\ OnError(inflight - 1, <<>>)
        /\ UNCHANGED <<finished, budget, registered, faults>>
    BY <1>3 DEF UnexpectedResponse, FailedRequest
  <2>2. /\ callback' \in BOOLEAN /\ host' \in hosts \cup {"none"}
        /\ calls' \in Seq(CallsOf(hosts)) /\ orphaned' \in BOOLEAN
        /\ luaState' \in {"none", "open", "freed"}
    <3>1. <<>> \in Seq(CallsOf(hosts))
      OBVIOUS
    <3> QED BY <1>1, <2>1, <3>1
  <2> QED BY <2>1, <2>2 DEF CallsOf
<1> QED BY <1>2, <1>3 DEF Completion

\* and the end of the state with the call being handled.
LEMMA CloseType ==
  ASSUME NEW hosts, SessionTypeOK(hosts), CloseState, calls # <<>>,
         calls' = Tail(calls), UNCHANGED <<registered, faults>>
  PROVE  SessionTypeOK(hosts)'
<1>1. calls' \in Seq([to : hosts \cup {"none"}, arg : {"ok", "err"}])
  BY HeadTailProperties DEF SessionTypeOK
<1> QED BY <1>1, MaxRequestsAssumption DEF CloseState, SessionTypeOK

=============================================================================
