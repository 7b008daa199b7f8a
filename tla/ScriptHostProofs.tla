--------------------------- MODULE ScriptHostProofs ---------------------------
(***************************************************************************)
(* Proofs about ScriptHost, for every MaxRequests and whatever faults the  *)
(* script commits: LuaSession keeps the safety half of the contract of     *)
(* on_finish_cb.                                                           *)
(***************************************************************************)
EXTENDS ScriptHost, LuaSessionProofs

\* The queues a session leaves for its one host.
LEMMA HostQueues ==
  /\ FinishQueue("host", FALSE) = <<>> /\ FinishQueue("host", TRUE) = <<Ok>>
  /\ FinalQueue("host", FALSE, "ok") = <<Ok>>
  /\ FinalQueue("host", FALSE, "err") = <<Err>>
  /\ FinalQueue("host", TRUE, "ok") = <<Ok, Ok>>
  /\ FinalQueue("host", TRUE, "err") = <<Ok, Err>>
BY DEF FinishQueue, FinalQueue, Ok, Err

\* What has been handled is told apart by its first call and its length.
LEMMA SeenDiffer ==
  /\ <<>> # <<"ok">> /\ <<>> \notin Contract!Legal /\ <<"ok">> \notin Contract!Legal
<1>1. /\ Len(<<>>) = 0 /\ Len(<<"ok">>) = 1 /\ Len(<<"err">>) = 1
      /\ Len(<<"ok", "ok">>) = 2 /\ Len(<<"ok", "err">>) = 2
      /\ <<"ok">>[1] = "ok" /\ <<"err">>[1] = "err"
  OBVIOUS
<1> QED BY <1>1 DEF Contract!Legal

\* The same for the calls of the host.
LEMMA CallsDiffer ==
  /\ Ok # Err /\ Ok.arg = "ok" /\ Err.arg = "err"
  /\ <<Ok>> # <<>> /\ <<Err>> # <<>> /\ <<Ok, Ok>> # <<>> /\ <<Ok, Err>> # <<>>
  /\ Head(<<Ok>>) = Ok /\ Head(<<Err>>) = Err
  /\ Head(<<Ok, Ok>>) = Ok /\ Head(<<Ok, Err>>) = Ok
  /\ Tail(<<Ok>>) = <<>> /\ Tail(<<Err>>) = <<>>
  /\ Tail(<<Ok, Ok>>) = <<Ok>> /\ Tail(<<Ok, Err>>) = <<Err>>
<1>1. Ok.arg = "ok" /\ Err.arg = "err"
  BY DEF Ok, Err, HostCall
<1>2. ASSUME NEW a, NEW b
      PROVE  /\ <<a>> # <<>> /\ <<a, b>> # <<>>
             /\ Head(<<a>>) = a /\ Tail(<<a>>) = <<>>
             /\ Head(<<a, b>>) = a /\ Tail(<<a, b>>) = <<b>>
  OBVIOUS
<1> QED BY <1>1, <1>2

-----------------------------------------------------------------------------
\* What an activation on behalf of the host leaves, from a state in which
\* nothing is queued: on_finish has not been called before if it is called now.
LEMMA ActivationFits ==
  ASSUME TypeOK, NEW o \in Outcomes, NEW fin0 \in BOOLEAN, NEW infl0 \in Nat,
         NEW b0 \in Nat, Activation(o, fin0, infl0, b0), NEW cb \in BOOLEAN,
         \/ cb /\ Waits("host", o.fin)
         \/ Succeeds("host", o.fin)
         \/ Raises("host", o.fin, cb),
         luaState' = "open", orphaned' \in BOOLEAN, registered' \in BOOLEAN,
         seen \in {<<>>, <<"ok">>}, seen = <<"ok">> => fin0, seen' = seen
  PROVE  IInv'
<1>0. faults \subseteq FaultKinds
  BY DEF TypeOK, SessionTypeOK
<1>1. /\ faults' \subseteq FaultKinds /\ finished' \in BOOLEAN
      /\ inflight' \in Nat /\ budget' \in Nat
      /\ finished' = (fin0 \/ o.fin) /\ (o.fin => ~fin0)
  BY <1>0, ActivationType
<1>2. o.fin \in BOOLEAN
  BY DEF Outcomes
<1>3. /\ host' \in {"host", "none"} /\ callback' \in BOOLEAN
      /\ callback' => host' = "host"
      /\ calls' \in Queues("host")
  BY <1>2, InQueues DEF Waits, Succeeds, Raises
<1>4. TypeOK'
  <2>1. calls' \in Seq([to : {"host"} \cup {"none"}, arg : {"ok", "err"}])
    BY <1>3, QueueType
  <2> QED BY <1>1, <1>3, <2>1 DEF TypeOK, SessionTypeOK
<1>5. \/ calls' = <<>> /\ ~o.fin
      \/ calls' = <<Ok>> /\ (~o.fin => host' = "none")
      \/ calls' = <<Err>> /\ ~o.fin
      \/ calls' \in {<<Ok, Ok>>, <<Ok, Err>>} /\ o.fin
  BY <1>2, HostQueues DEF Waits, Succeeds, Raises
<1>6. QueueFits'
  BY <1>1, <1>5, SeenDiffer DEF QueueFits
<1>7. SessionFits'
  BY <1>1, <1>3, <1>5, CallsDiffer DEF SessionFits
<1> QED BY <1>4, <1>6, <1>7 DEF IInv

\* The start of the script.
LEMMA StartPreserves ==
  ASSUME IInv, Start
  PROVE  IInv'
<1>0. TypeOK /\ budget \in Nat /\ inflight \in Nat /\ orphaned \in BOOLEAN
      /\ registered \in BOOLEAN
  BY DEF IInv, TypeOK, SessionTypeOK
<1>1. /\ luaState' = "open" /\ UNCHANGED <<orphaned, registered>>
      /\ \E o \in Outcomes :
           /\ Activation(o, FALSE, inflight, budget)
           /\ \/ ~o.err /\ Stored(o, FALSE) /\ Waits("host", o.fin)
              \/ ~o.err /\ ~Stored(o, FALSE) /\ Succeeds("host", o.fin)
              \/ o.err /\ Raises("host", o.fin, Stored(o, FALSE))
  BY SyncRunCalls DEF Start
<1>2. PICK o \in Outcomes :
        /\ Activation(o, FALSE, inflight, budget)
        /\ \/ Stored(o, FALSE) /\ Waits("host", o.fin)
           \/ Succeeds("host", o.fin)
           \/ Raises("host", o.fin, Stored(o, FALSE))
  BY <1>1
<1>3. seen = <<>> /\ seen' = seen
  BY DEF Start
<1>4. Stored(o, FALSE) \in BOOLEAN
  BY DEF Stored
<1> QED BY <1>0, <1>1, <1>2, <1>3, <1>4, SeenDiffer, ActivationFits

\* The completion of a request that calls BOT_CALLBACK.
LEMMA ResponsePreserves ==
  ASSUME IInv, Response, seen' = seen
  PROVE  IInv'
<1>0. /\ TypeOK /\ QueueFits /\ SessionFits
      /\ budget \in Nat /\ inflight \in Nat /\ orphaned \in BOOLEAN
      /\ registered \in BOOLEAN /\ finished \in BOOLEAN
  BY DEF IInv, TypeOK, SessionTypeOK
<1>1. host = "host" /\ luaState = "open" /\ inflight > 0
  BY <1>0 DEF Response, SessionFits
<1>2. /\ UNCHANGED <<luaState, orphaned, registered>>
      /\ \E o \in Outcomes :
           /\ Activation(o, finished, inflight - 1, budget)
           /\ \/ ~o.err /\ Stored(o, FALSE) /\ Waits(host, o.fin)
              \/ ~o.err /\ ~Stored(o, FALSE) /\ Succeeds(host, o.fin)
              \/ o.err /\ Raises(host, o.fin, FALSE)
  BY <1>1, ResponseCalls
<1>3. PICK o \in Outcomes :
        /\ Activation(o, finished, inflight - 1, budget)
        /\ \/ Stored(o, FALSE) /\ Waits("host", o.fin)
           \/ Succeeds("host", o.fin)
           \/ Raises("host", o.fin, FALSE)
  BY <1>1, <1>2
<1>4. seen \in {<<>>, <<"ok">>} /\ (seen = <<"ok">> => finished)
  BY <1>0, <1>1 DEF TypeOK, QueueFits, SessionFits
<1>5. Stored(o, FALSE) \in BOOLEAN
  BY DEF Stored
<1>6. inflight - 1 \in Nat
  BY <1>0, <1>1
<1>7. CASE Stored(o, FALSE) /\ Waits("host", o.fin)
  BY <1>0, <1>1, <1>2, <1>3, <1>4, <1>5, <1>6, <1>7, ActivationFits
<1>8. CASE Succeeds("host", o.fin) \/ Raises("host", o.fin, FALSE)
  BY <1>0, <1>1, <1>2, <1>3, <1>4, <1>6, <1>8, ActivationFits
<1> QED BY <1>3, <1>7, <1>8

\* A request that ends with no callback to call, or with an error.
LEMMA FailurePreserves ==
  ASSUME IInv, UnexpectedResponse \/ FailedRequest, seen' = seen
  PROVE  IInv'
<1>0. TypeOK /\ QueueFits /\ SessionFits
  BY DEF IInv
<1>1. /\ luaState = "open" /\ inflight > 0 /\ inflight' = inflight - 1
      /\ UNCHANGED <<finished, budget, registered, faults>>
      /\ OnError(inflight - 1, <<>>)
  BY DEF UnexpectedResponse, FailedRequest
<1>2. inflight' \in Nat
  BY <1>0, <1>1 DEF TypeOK, SessionTypeOK
<1>3. seen \in {<<>>, <<"ok">>}
  BY <1>0, <1>1 DEF TypeOK, QueueFits
<1>4. CASE /\ host # "none" /\ callback' = FALSE
           /\ calls' = FinalQueue(host, FALSE, "err")
           /\ UNCHANGED <<luaState, host, orphaned>>
  <2>1. host = "host" /\ calls' = <<Err>> /\ calls' \in Queues("host")
    BY <1>0, <1>4, HostQueues, InQueues DEF TypeOK, SessionTypeOK
  <2>2. TypeOK'
    <3>1. calls' \in Seq([to : {"host"} \cup {"none"}, arg : {"ok", "err"}])
      BY <2>1, QueueType
    <3>2. callback' \in BOOLEAN
      BY <1>4
    <3> QED BY <1>0, <1>1, <1>2, <1>4, <3>1 DEF TypeOK, SessionTypeOK
  <2>3. QueueFits'
    BY <1>3, <2>1, SeenDiffer DEF QueueFits
  <2>4. SessionFits'
    BY <1>0, <1>1, <1>4, <2>1, CallsDiffer DEF SessionFits
  <2> QED BY <2>2, <2>3, <2>4 DEF IInv
<1>5. CASE /\ host = "none" /\ luaState' = "freed"
           /\ orphaned' = (orphaned \/ inflight - 1 > 0)
           /\ calls' = <<>>
           /\ UNCHANGED <<callback, host>>
  <2>1. TypeOK'
    BY <1>0, <1>1, <1>2, <1>5 DEF TypeOK, SessionTypeOK
  <2>2. QueueFits'
    BY <1>3, <1>5, SeenDiffer DEF QueueFits
  <2>3. SessionFits'
    BY <1>0, <1>5 DEF SessionFits
  <2> QED BY <2>1, <2>2, <2>3 DEF IInv
<1> QED BY <1>1, <1>4, <1>5, OnErrorCalls

-----------------------------------------------------------------------------
\* The prefixes of sequences of one and two elements.
LEMMA ShortPrefixes ==
  ASSUME NEW a, NEW b
  PROVE  /\ Contract!IsStrictPrefix(<<>>, <<a>>)
         /\ Contract!IsStrictPrefix(<<>>, <<a, b>>)
         /\ Contract!IsStrictPrefix(<<a>>, <<a, b>>)
         /\ Contract!IsPrefix(<<a>>, <<a>>)
         /\ Contract!IsPrefix(<<a>>, <<a, b>>)
         /\ Contract!IsPrefix(<<a, b>>, <<a, b>>)
<1>1. /\ Len(<<>>) = 0 /\ Len(<<a>>) = 1 /\ Len(<<a, b>>) = 2
      /\ <<a>> \in Seq({a, b}) /\ <<a, b>> \in Seq({a, b})
  OBVIOUS
<1>2. /\ <<>> # <<a>> /\ <<>> # <<a, b>> /\ <<a>> # <<a, b>>
  BY <1>1
<1>3. /\ SubSeq(<<>>, 1, 0) = <<>> /\ SubSeq(<<a>>, 1, 0) = <<>>
      /\ SubSeq(<<a, b>>, 1, 0) = <<>>
  BY SubSeqEmpty
<1>4. SubSeq(<<a>>, 1, 1) = <<a>> /\ SubSeq(<<a, b>>, 1, 2) = <<a, b>>
  BY <1>1, SubSeqFull
<1>5. SubSeq(<<a, b>>, 1, 1) = <<a>>
  <2> DEFINE q == <<a, b>>
  <2>1. /\ q \in Seq({a, b}) /\ 1 \in 1..Len(q) /\ 1 \in 1..Len(q)
        /\ q[1] = a
    BY <1>1
  <2>2. SubSeq(q, 1, 0) = <<>>
    BY <1>3
  <2> HIDE DEF q
  <2>3. SubSeq(q, 1, 1) = SubSeq(q, 1, 1 - 1) \o <<q[1]>>
    BY <2>1, SubSeqRecursiveSecond
  <2>4. SubSeq(q, 1, 1) = <<>> \o <<a>>
    <3>1. 1 - 1 = 0
      OBVIOUS
    <3>2. SubSeq(q, 1, 1 - 1) = <<>>
      BY <2>2, <3>1, Zenon
    <3> QED BY <2>1, <2>3, <3>2, Zenon
  <2>5. <<>> \o <<a>> = <<a>>
    BY <1>1, ConcatEmptySeq
  <2> QED BY <2>4, <2>5 DEF q
<1> QED BY <1>1, <1>2, <1>3, <1>4, <1>5
    DEF Contract!IsStrictPrefix, Contract!IsPrefix

\* The host's callback: what is left in the queue fits what has been handled.
LEMMA TakeCallPreserves ==
  ASSUME IInv, TakeCall
  PROVE  IInv' /\ Contract!Next
<1>0. TypeOK /\ QueueFits /\ SessionFits
  BY DEF IInv
<1>1. /\ calls # <<>> /\ seen' = Append(seen, Head(calls).arg)
      /\ calls' = Tail(calls) /\ UNCHANGED <<registered, faults>>
      /\ \/ seen' \in Contract!Legal /\ CloseState
         \/ /\ seen' \notin Contract!Legal
            /\ UNCHANGED <<luaState, callback, finished, host, inflight, budget,
                           orphaned>>
  BY DEF TakeCall, Idle
<1>2. seen \in {<<>>, <<"ok">>}
  BY <1>0, <1>1 DEF TypeOK, QueueFits
<1>3. luaState = "open"
  BY <1>0, <1>1 DEF SessionFits, TypeOK, SessionTypeOK
<1>4. ASSUME NEW arg
      PROVE Append(<<>>, arg) = <<arg>> /\ Append(<<"ok">>, arg) = <<"ok", arg>>
  BY AppendToShort
<1>5. /\ seen' \in Contract!Legal \cup {<<"ok">>}
      /\ seen' = <<"ok">> => /\ calls' \in {<<>>, <<Ok>>, <<Err>>}
                             /\ seen = <<>> /\ Head(calls) = Ok
      /\ seen' \in Contract!Legal => calls' = <<>>
      /\ Contract!Next
  <2>1. CASE seen = <<>> /\ calls \in {<<Ok>>, <<Ok, Ok>>, <<Ok, Err>>}
    <3>1. seen' = <<"ok">> /\ Head(calls) = Ok /\ calls' \in {<<>>, <<Ok>>, <<Err>>}
      BY <1>1, <1>4, <2>1, CallsDiffer
    <3>2. Contract!Call("ok")
      <4>1. seen' = Append(seen, "ok") /\ Append(seen, "ok") = <<"ok">>
        BY <1>1, <1>4, <2>1, <3>1
      <4>2. /\ <<"ok", "ok">> \in Contract!Legal
            /\ Contract!IsStrictPrefix(seen, <<"ok", "ok">>)
            /\ Contract!IsPrefix(Append(seen, "ok"), <<"ok", "ok">>)
        BY <2>1, <4>1, ShortPrefixes DEF Contract!Legal
      <4> QED BY <4>1, <4>2 DEF Contract!Call
    <3>3. seen' \notin Contract!Legal
      BY <3>1, SeenDiffer
    <3> QED BY <2>1, <3>1, <3>2, <3>3 DEF Contract!Next
  <2>2. CASE seen = <<>> /\ calls = <<Err>>
    <3>1. seen' = <<"err">> /\ calls' = <<>>
      BY <1>1, <1>4, <2>2, CallsDiffer
    <3>2. Contract!Call("err")
      <4>1. seen' = Append(seen, "err") /\ Append(seen, "err") = <<"err">>
        BY <1>1, <1>4, <2>2, <3>1, CallsDiffer
      <4>2. /\ <<"err">> \in Contract!Legal
            /\ Contract!IsStrictPrefix(seen, <<"err">>)
            /\ Contract!IsPrefix(Append(seen, "err"), <<"err">>)
        BY <2>2, <4>1, ShortPrefixes DEF Contract!Legal
      <4> QED BY <4>1, <4>2 DEF Contract!Call
    <3>3. seen' \in Contract!Legal /\ seen' # <<"ok">>
      BY <3>1, SeenDiffer DEF Contract!Legal
    <3> QED BY <3>1, <3>2, <3>3 DEF Contract!Next
  <2>3. CASE seen = <<"ok">> /\ calls \in {<<Ok>>, <<Err>>}
    <3>1. PICK arg \in {"ok", "err"} : Head(calls).arg = arg
      BY <2>3, CallsDiffer
    <3>2. seen' = <<"ok", arg>> /\ calls' = <<>>
      BY <1>1, <1>4, <2>3, <3>1, CallsDiffer
    <3>3. seen' \in Contract!Legal /\ seen' # <<"ok">>
      BY <3>2, SeenDiffer DEF Contract!Legal
    <3>4. Contract!Call(arg)
      <4>1. seen' = Append(seen, arg) /\ Append(seen, arg) = <<"ok", arg>>
        BY <1>1, <1>4, <2>3, <3>1
      <4>2. /\ <<"ok", arg>> \in Contract!Legal
            /\ Contract!IsStrictPrefix(seen, <<"ok", arg>>)
            /\ Contract!IsPrefix(Append(seen, arg), <<"ok", arg>>)
        BY <2>3, <4>1, ShortPrefixes DEF Contract!Legal
      <4> QED BY <4>1, <4>2 DEF Contract!Call
    <3> QED BY <3>2, <3>3, <3>4 DEF Contract!Next
  <2> QED BY <1>0, <1>1, <1>2, <2>1, <2>2, <2>3 DEF QueueFits
<1>6. calls' \in Seq([to : {"host"} \cup {"none"}, arg : {"ok", "err"}])
  BY <1>0, <1>1, HeadTailProperties DEF TypeOK, SessionTypeOK
<1>7. CASE seen' \in Contract!Legal /\ CloseState
  <2>1. TypeOK'
    BY <1>0, <1>1, <1>6, <1>7, MaxRequestsAssumption
    DEF CloseState, TypeOK, SessionTypeOK
  <2>2. luaState' = "none" /\ callback' = FALSE /\ inflight' = 0 /\ host' = "none"
    BY <1>7 DEF CloseState
  <2>3. QueueFits' /\ SessionFits'
    BY <1>5, <1>7, <2>2, SeenDiffer DEF QueueFits, SessionFits
  <2> QED BY <1>5, <2>1, <2>3 DEF IInv
<1>8. CASE /\ seen' \notin Contract!Legal
           /\ UNCHANGED <<luaState, callback, finished, host, inflight, budget,
                          orphaned>>
  <2>1. seen' = <<"ok">>
    BY <1>5, <1>8
  <2>2. TypeOK'
    BY <1>0, <1>1, <1>6, <1>8, <2>1 DEF TypeOK, SessionTypeOK
  <2>3. QueueFits'
    BY <1>5, <1>8, <2>1, SeenDiffer DEF QueueFits
  <2>4. SessionFits'
    BY <1>0, <1>1, <1>3, <1>5, <1>8, <2>1 DEF SessionFits
  <2> QED BY <1>5, <2>2, <2>3, <2>4 DEF IInv
<1> QED BY <1>1, <1>5, <1>7, <1>8

-----------------------------------------------------------------------------
\* A host that has not started its script.
LEMMA InitInv == Init => IInv
<1> SUFFICES ASSUME Init PROVE IInv
  OBVIOUS
<1>1. calls \in Seq([to : {"host"} \cup {"none"}, arg : {"ok", "err"}])
  BY DEF Init, SessionInit
<1>2. TypeOK
  BY <1>1, MaxRequestsAssumption DEF Init, SessionInit, TypeOK, SessionTypeOK
<1>3. QueueFits /\ SessionFits
  BY SeenDiffer DEF Init, SessionInit, QueueFits, SessionFits
<1> QED BY <1>2, <1>3 DEF IInv

\* Every step keeps the invariant and the contract.
LEMMA NextInv == IInv /\ [Next]_vars => IInv' /\ [Contract!Next]_seen
<1> SUFFICES ASSUME IInv, [Next]_vars PROVE IInv' /\ [Contract!Next]_seen
  OBVIOUS
<1>1. CASE Start
  BY <1>1, StartPreserves DEF Start
<1>2. CASE TakeCall
  BY <1>2, TakeCallPreserves
<1>3. CASE Shutdown
  <2>1. TypeOK'
    BY <1>3 DEF Shutdown, Deregister, IInv, TypeOK, SessionTypeOK
  <2>2. QueueFits' /\ SessionFits'
    BY <1>3 DEF Shutdown, IInv, QueueFits, SessionFits
  <2> QED BY <1>3, <2>1, <2>2 DEF IInv, Shutdown
<1>4. CASE RequestDone
  BY <1>4, ResponsePreserves, FailurePreserves DEF RequestDone, Completion
<1>5. CASE UNCHANGED vars
  <2>1. TypeOK'
    BY <1>5 DEF vars, sessionVars, IInv, TypeOK, SessionTypeOK
  <2>2. QueueFits' /\ SessionFits'
    BY <1>5 DEF vars, sessionVars, IInv, QueueFits, SessionFits
  <2> QED BY <1>5, <2>1, <2>2 DEF IInv, vars
<1> QED BY <1>1, <1>2, <1>3, <1>4, <1>5 DEF Next

(***************************************************************************)
(* Whatever a script does, the calls queued for its host complete one of   *)
(* the sequences on_finish_cb documents, and a script that is waited for   *)
(* after its first call has called on_finish, so that it cannot again.     *)
(***************************************************************************)
THEOREM InvariantHolds == Spec => []IInv
<1>1. IInv /\ [Next]_vars => IInv'
  BY NextInv
<1> QED BY <1>1, InitInv, PTL DEF Spec

(***************************************************************************)
(* LuaSession implements the safety half of OnFinishContract: every call   *)
(* of on_finish_cb that login, module_run and on_req_finish make is one    *)
(* that a documented sequence allows next, and the callback is not called  *)
(* any more once the sequence is complete.                                 *)
(***************************************************************************)
THEOREM ContractIsKept == Spec => KeepsContract
<1>1. Init => Contract!Init
  BY DEF Init, Contract!Init
<1>2. IInv /\ [Next]_vars => [Contract!Next]_seen
  BY NextInv
<1> QED BY <1>1, <1>2, InvariantHolds, PTL DEF Spec, KeepsContract

\* The assert(false) of finalize_if_last_async never fires: BOT_LOGIN_CB is set
\* whenever it calls the host.
THEOREM AssertNeverFires == Spec => []AssertHolds
<1>1. IInv => AssertHolds
  <2> SUFFICES ASSUME IInv, NEW i \in DOMAIN calls PROVE calls[i].to # "none"
    BY DEF AssertHolds
  <2>1. /\ calls \in {<<>>, <<Ok>>, <<Err>>, <<Ok, Ok>>, <<Ok, Err>>}
    BY DEF IInv, TypeOK, QueueFits
  <2>2. calls[i] \in {Ok, Err}
    BY <2>1
  <2> QED BY <2>2 DEF Ok, Err, HostCall
<1> QED BY <1>1, InvariantHolds, PTL

=============================================================================
