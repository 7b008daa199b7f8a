--------------------------- MODULE BotModuleProofs ---------------------------
(***************************************************************************)
(* Proofs about BotModule, for every MaxRequests and whatever faults the   *)
(* scripts commit.                                                         *)
(***************************************************************************)
EXTENDS BotModule, LuaSessionProofs

Hosts == {"run", "finally"}

HostCalls == [to : Hosts \cup {"none"}, arg : {"ok", "err"}]

\* The host calls of one activation on behalf of h that ends with a final call
\* of argument arg: on_finish's call may precede it.
CallsMade(o, h, arg) == Append(FinishCall(o, h), HostCall(h, arg))

\* The calls that end an activation: one or two, to one host; when there are two the
\* first is the one of on_finish.
LEMMA FinalCall ==
  ASSUME NEW o \in Outcomes, NEW h \in Hosts, NEW arg \in {"ok", "err"}
  PROVE  /\ CallsMade(o, h, arg) \in Seq(HostCalls)
         /\ CallsMade(o, h, arg) # <<>>
         /\ Len(CallsMade(o, h, arg)) <= 2
         /\ \A i \in 1..Len(CallsMade(o, h, arg)) :
               CallsMade(o, h, arg)[i].to = h
         /\ Len(CallsMade(o, h, arg)) = 2 =>
               CallsMade(o, h, arg)[1].arg = "ok" /\ o.fin
         /\ CallsMade(o, h, arg)[1].arg = "ok" => o.fin \/ arg = "ok"
<1> DEFINE q == CallsMade(o, h, arg)
<1> HostCall(h, arg) \in HostCalls /\ HostCall(h, "ok") \in HostCalls
  BY DEF HostCall, HostCalls, Hosts
<1>1. CASE o.fin
  <2>1. FinishCall(o, h) = <<HostCall(h, "ok")>>
    BY <1>1 DEF FinishCall, Hosts
  <2>2. /\ <<HostCall(h, "ok")>> \in Seq(HostCalls)
        /\ Len(<<HostCall(h, "ok")>>) = 1
        /\ <<HostCall(h, "ok")>>[1] = HostCall(h, "ok")
    OBVIOUS
  <2>3. q \in Seq(HostCalls) /\ Len(q) = 2 /\ q[1] = HostCall(h, "ok")
        /\ q[2] = HostCall(h, arg) /\ q # <<>>
    BY <2>1, <2>2, AppendProperties DEF CallsMade
  <2>4. q[1].arg = "ok" /\ q[1].to = h /\ q[2].to = h
    BY <2>3 DEF HostCall
  <2> HIDE DEF q
  <2>5. \A i \in 1..Len(q) : q[i].to = h
    BY <2>3, <2>4
  <2> QED BY <1>1, <2>3, <2>4, <2>5 DEF q
<1>2. CASE ~o.fin
  <2>1. FinishCall(o, h) = <<>>
    BY <1>2 DEF FinishCall
  <2>2. q \in Seq(HostCalls) /\ Len(q) = 1 /\ q[1] = HostCall(h, arg)
        /\ q # <<>>
    BY <2>1, AppendProperties, EmptySeq DEF CallsMade
  <2>3. q[1].to = h /\ q[1].arg = arg
    BY <2>2 DEF HostCall
  <2> HIDE DEF q
  <2> QED BY <1>2, <2>2, <2>3 DEF q
<1> QED BY <1>1, <1>2

\* The host calls of one activation on behalf of h that leaves an asynchronous
\* call pending: on_finish's, if any.
LEMMA NoFinalCall ==
  ASSUME NEW o \in Outcomes, NEW h \in Hosts
  PROVE  /\ FinishCall(o, h) \in Seq(HostCalls)
         /\ Len(FinishCall(o, h)) <= 1
         /\ \A i \in 1..Len(FinishCall(o, h)) : FinishCall(o, h)[i].to = h
         /\ FinishCall(o, h) # <<>> => o.fin
<1> HostCall(h, "ok") \in HostCalls
  BY DEF HostCall, HostCalls, Hosts
<1>1. CASE o.fin
  <2>1. FinishCall(o, h) = <<HostCall(h, "ok")>>
    BY <1>1 DEF FinishCall, Hosts
  <2> QED BY <1>1, <2>1 DEF HostCall
<1>2. CASE ~o.fin
  <2>1. FinishCall(o, h) = <<>>
    BY <1>2 DEF FinishCall
  <2> QED BY <2>1
<1> QED BY <1>1, <1>2

\* The queue an activation on behalf of h leaves: at most on_finish's call and
\* the final one.
QueueOf(h) ==
  /\ calls \in Seq(HostCalls)
  /\ Len(calls) <= 2
  /\ \A i \in 1..Len(calls) : calls[i].to = h
  /\ Len(calls) = 2 => calls[1].arg = "ok"
  /\ calls # <<>> /\ calls[1].arg = "ok" => finished \/ host = "none"

\* Starting a function on the open or new state leaves a consistent session.
LEMMA SyncRunEffect ==
  ASSUME TypeOK, NEW h \in Hosts, NEW cb0 \in BOOLEAN, SyncRun(h, cb0, <<>>)
  PROVE  /\ SessionTypeOK(Hosts)'
         /\ QueueOf(h)'
         /\ luaState' = "open"
         /\ host' \in {h, "none"}
         /\ callback' => host' # "none"
         /\ registered' = registered
<1>0. /\ budget \in Nat /\ inflight \in Nat
      /\ orphaned \in BOOLEAN /\ registered \in BOOLEAN
      /\ faults \subseteq FaultKinds
  BY DEF TypeOK, SessionTypeOK
<1>1. PICK o \in Outcomes :
        /\ Activation(o, FALSE, inflight, budget)
        /\ \/ o.err /\ Raise(Stored(o, cb0), h, <<>> \o FinishCall(o, h))
           \/ ~o.err /\ Finalize(Stored(o, cb0), h, <<>> \o FinishCall(o, h))
  BY Zenon DEF SyncRun, Conclude
<1>2. luaState' = "open" /\ orphaned' = orphaned /\ registered' = registered
  BY DEF SyncRun
<1>3. <<>> \o FinishCall(o, h) = FinishCall(o, h)
  <2>1. FinishCall(o, h) \in Seq(HostCalls)
    BY NoFinalCall
  <2> QED BY <2>1, ConcatEmptySeq
<1>4. Stored(o, cb0) \in BOOLEAN
  BY DEF Stored
<1>5. finished' \in BOOLEAN /\ inflight' \in Nat /\ budget' \in Nat
      /\ finished' = o.fin /\ faults' \subseteq FaultKinds
  BY <1>0, <1>1, ActivationType DEF Outcomes
<1>6. CASE Raise(Stored(o, cb0), h, FinishCall(o, h))
  <2> DEFINE q == CallsMade(o, h, "err")
  <2>1. callback' \in BOOLEAN /\ host' = h /\ calls' = q
    BY <1>6, <1>4 DEF Raise, CallsMade
  <2>2. /\ q \in Seq(HostCalls) /\ Len(q) <= 2
        /\ \A i \in 1..Len(q) : q[i].to = h
        /\ Len(q) = 2 => q[1].arg = "ok"
        /\ q[1].arg = "ok" => o.fin
    BY FinalCall
  <2> HIDE DEF q
  <2>3. QueueOf(h)'
    BY <2>1, <2>2, <1>5 DEF QueueOf
  <2>4. SessionTypeOK(Hosts)'
    BY <1>0, <1>2, <1>5, <2>1, <2>2 DEF SessionTypeOK, HostCalls, Hosts
  <2> QED BY <1>2, <2>1, <2>3, <2>4 DEF Hosts
<1>7. CASE Finalize(Stored(o, cb0), h, FinishCall(o, h))
  <2>1. CASE callback' = TRUE /\ host' = h /\ calls' = FinishCall(o, h)
    <3>1. /\ calls' \in Seq(HostCalls)
          /\ Len(calls') <= 1
          /\ \A i \in 1..Len(calls') : calls'[i].to = h
      BY <2>1, NoFinalCall
    <3>2. calls' # <<>> => finished'
      BY <2>1, <1>5, NoFinalCall
    <3>3. Len(calls') \in Nat
      BY <3>1, LenProperties
    <3>4. QueueOf(h)'
      BY <3>1, <3>2, <3>3 DEF QueueOf
    <3>5. SessionTypeOK(Hosts)'
      BY <1>0, <1>2, <1>5, <2>1, <3>1 DEF SessionTypeOK, HostCalls, Hosts
    <3> QED BY <1>2, <2>1, <3>4, <3>5 DEF Hosts
  <2>2. CASE /\ callback' = FALSE /\ host' = "none"
             /\ calls' = Append(FinishCall(o, h), HostCall(h, "ok"))
    <3> DEFINE q == CallsMade(o, h, "ok")
    <3>1. /\ q \in Seq(HostCalls) /\ Len(q) <= 2
          /\ \A i \in 1..Len(q) : q[i].to = h
          /\ Len(q) = 2 => q[1].arg = "ok"
      BY FinalCall
    <3>2. calls' = q
      BY <2>2 DEF CallsMade
    <3> HIDE DEF q
    <3>3. QueueOf(h)'
      BY <3>1, <3>2, <2>2 DEF QueueOf
    <3>4. SessionTypeOK(Hosts)'
      BY <1>0, <1>2, <1>5, <2>2, <3>1, <3>2
      DEF SessionTypeOK, HostCalls, Hosts
    <3> QED BY <1>2, <2>2, <3>3, <3>4 DEF Hosts
  <2> QED BY <1>7, <2>1, <2>2 DEF Finalize
<1> QED BY <1>1, <1>3, <1>6, <1>7

-----------------------------------------------------------------------------
\* What of the type invariant the lemmas about the session need.
LEMMA TypeFacts ==
  ASSUME TypeOK
  PROVE  /\ SessionTypeOK(Hosts)
         /\ calls \in Seq(HostCalls)
BY DEF TypeOK, SessionTypeOK, Hosts, HostCalls

\* A handled call is the head of the queue; when it is the only one, the
\* handler of the host starts from an empty queue.
LEMMA HeadCall ==
  ASSUME calls \in Seq(HostCalls), calls # <<>>
  PROVE  /\ Len(calls) \in Nat \ {0}
         /\ Head(calls) = calls[1]
         /\ Tail(calls) \in Seq(HostCalls)
         /\ Len(Tail(calls)) = Len(calls) - 1
         /\ \A i \in 1..Len(Tail(calls)) : Tail(calls)[i] = calls[i + 1]
         /\ Len(calls) = 1 => Tail(calls) = <<>>
<1>1. Len(calls) \in Nat \ {0}
  BY EmptySeq
<1>2. Head(calls) = calls[1]
  BY <1>1
<1>3. /\ Tail(calls) \in Seq(HostCalls)
      /\ Len(Tail(calls)) = Len(calls) - 1
      /\ \A i \in 1..Len(Tail(calls)) : Tail(calls)[i] = calls[i + 1]
  BY HeadTailProperties
<1>4. Len(calls) = 1 => Tail(calls) = <<>>
  <2>1. \A s \in Seq(HostCalls) : s # <<>> => Len(s) \in Nat \ {0}
    BY EmptySeq
  <2>2. Tail(calls) # <<>> => Len(Tail(calls)) # 0
    BY <1>3, <2>1
  <2> QED BY <1>1, <1>3, <2>2
<1> QED BY <1>1, <1>2, <1>3, <1>4

\* The commands and the timer do not touch the session, so that only the
\* module's side of the invariant has to be looked at.
LEMMA SessionUnchanged ==
  ASSUME SessionInv, CallsInv, UNCHANGED <<sessionVars, run_stored, fin_stored,
         completion>>
  PROVE  SessionInv' /\ CallsInv'
BY DEF SessionInv, CallsInv, Phase, PhaseStored, sessionVars

\* Start, stop and the timer keep the invariant.
LEMMA CommandsPreserve ==
  ASSUME IInv, StartOff \/ StartStopRun \/ Stop \/ TimerExpires
  PROVE  IInv'
<1> USE DEF IInv
<1>1. CASE StartOff
  <2>1. TypeOK'
    BY <1>1 DEF StartOff, TypeOK, SessionTypeOK, sessionVars
  <2>2. LoopInv'
    BY <1>1 DEF StartOff, LoopInv, OneActivity, Pending, ActiveMatchesState,
                Stopped, TypeOK, sessionVars
  <2> QED BY <1>1, <2>1, <2>2, SessionUnchanged DEF StartOff
<1>2. CASE StartStopRun
  <2>1. TypeOK'
    BY <1>2 DEF StartStopRun, TypeOK, SessionTypeOK, sessionVars
  <2>2. LoopInv'
    BY <1>2 DEF StartStopRun, LoopInv, OneActivity, Pending,
                ActiveMatchesState, Stopped, TypeOK, sessionVars
  <2> QED BY <1>2, <2>1, <2>2, SessionUnchanged DEF StartStopRun
<1>3. CASE Stop
  <2>1. TypeOK'
    BY <1>3 DEF Stop, StopCommand, Cancelled, TypeOK, SessionTypeOK, sessionVars
  <2>2. LoopInv'
    BY <1>3 DEF Stop, StopCommand, Cancelled, LoopInv, OneActivity, Pending,
                ActiveMatchesState, Stopped, TypeOK, sessionVars
  <2> QED BY <1>3, <2>1, <2>2, SessionUnchanged DEF Stop
<1>4. CASE TimerExpires
  <2>1. TypeOK'
    BY <1>4 DEF TimerExpires, TypeOK, SessionTypeOK, sessionVars
  <2>2. LoopInv'
    BY <1>4 DEF TimerExpires, LoopInv, OneActivity, Pending,
                ActiveMatchesState, Stopped, TypeOK, sessionVars
  <2> QED BY <1>4, <2>1, <2>2, SessionUnchanged DEF TimerExpires
<1> QED BY <1>1, <1>2, <1>3, <1>4

\* So does the shutdown of the bot.
LEMMA ShutdownPreserves ==
  ASSUME IInv, Shutdown
  PROVE  IInv'
<1> USE DEF IInv
<1>1. TypeOK'
  <2>1. SessionTypeOK({"run", "finally"})'
    BY DEF Shutdown, Deregister, TypeOK, SessionTypeOK
  <2>2. /\ module_state' \in {"OFF", "RUN", "STOP_RUN", "WAIT"}
        /\ timer' \in {"none", "armed", "ready"}
        /\ active' \in {"1", "0", "unset"}
    BY DEF Shutdown, StopCommand, Cancelled, Stopped, TypeOK
  <2> QED BY <2>1, <2>2 DEF Shutdown, TypeOK
<1>2. LoopInv'
  BY DEF Shutdown, Deregister, StopCommand, Cancelled, LoopInv, OneActivity,
         Pending, ActiveMatchesState, Stopped, TypeOK
<1>3. SessionInv' /\ CallsInv'
  BY DEF Shutdown, SessionInv, CallsInv, Phase, PhaseStored
<1> QED BY <1>1, <1>2, <1>3

-----------------------------------------------------------------------------
\* A function started on behalf of the phase it belongs to establishes the
\* session's side of the invariant, provided the phase has stored nothing.
LEMMA SyncRunInv ==
  ASSUME TypeOK, NEW h \in Hosts, NEW cb0 \in BOOLEAN, SyncRun(h, cb0, <<>>),
         Phase' = h, ~PhaseStored',
         completion' = "none" => ~fin_stored'
  PROVE  /\ SessionTypeOK(Hosts)'
         /\ SessionInv'
         /\ CallsInv'
         /\ luaState' = "open" /\ registered' = registered
<1>1. /\ SessionTypeOK(Hosts)' /\ QueueOf(h)' /\ luaState' = "open"
      /\ host' \in {h, "none"}
      /\ callback' => host' # "none"
      /\ registered' = registered
  BY SyncRunEffect
<1>2. SessionInv'
  BY <1>1 DEF SessionInv
<1>3. CallsInv'
  BY <1>1 DEF CallsInv, QueueOf
<1> QED BY <1>1, <1>2, <1>3

\* module::run, from the handler or from the timer.
LEMMA RunPreserves ==
  ASSUME IInv, RunPosted \/ RunTimer
  PROVE  IInv'
<1> USE DEF IInv
<1> TypeOK /\ LoopInv /\ SessionInv /\ CallsInv
  OBVIOUS
<1>1. /\ Run
      /\ UNCHANGED <<active, attached, run_stored, fin_stored, result,
                     completion>>
      /\ \/ posted > 0 /\ posted' = posted - 1 /\ timer' = timer
         \/ timer = "ready" /\ timer' = "none" /\ posted' = posted
  BY DEF RunPosted, RunTimer
<1>2. posted' \in Nat /\ timer' \in {"none", "armed", "ready"}
  BY <1>1 DEF TypeOK
<1>3. luaState = "none" /\ module_state # "OFF"
  BY <1>1 DEF LoopInv, OneActivity, Pending, TypeOK, SessionTypeOK
<1>4. CASE Stopped /\ module_state' = "OFF" /\ UNCHANGED sessionVars
  <2>1. TypeOK'
    BY <1>1, <1>2, <1>4 DEF TypeOK, SessionTypeOK, sessionVars
  <2>2. LoopInv'
    BY <1>1, <1>3, <1>4 DEF LoopInv, OneActivity, Pending, ActiveMatchesState,
       Stopped, TypeOK, sessionVars
  <2> QED BY <1>1, <1>4, <2>1, <2>2, SessionUnchanged
<1>5. CASE ~Stopped /\ module_state' = "RUN" /\ SyncRun("run", FALSE, <<>>)
  <2>1. Phase' = "run" /\ ~PhaseStored' /\ ~fin_stored'
    BY <1>1, <1>3 DEF SessionInv, Phase, PhaseStored
  <2>2. /\ SessionTypeOK(Hosts)' /\ SessionInv' /\ CallsInv'
        /\ luaState' = "open" /\ registered' = registered
    BY <1>5, <2>1, SyncRunInv DEF Hosts
  <2>3. TypeOK'
    BY <1>1, <1>2, <1>5, <2>2 DEF TypeOK, Hosts
  <2>4. LoopInv'
    BY <1>1, <1>3, <1>5, <2>2 DEF LoopInv, OneActivity, Pending,
       ActiveMatchesState, Stopped, TypeOK
  <2> QED BY <2>2, <2>3, <2>4
<1> QED BY <1>1, <1>4, <1>5 DEF Run

-----------------------------------------------------------------------------
\* An empty queue is as good as any.
LEMMA EmptyQueue ==
  ASSUME calls' = <<>>
  PROVE  /\ CallsInv'
         /\ calls' \in Seq([to : {"run", "finally"} \cup {"none"},
                            arg : {"ok", "err"}])
<1>1. Len(<<>>) = 0 /\ 1..0 = {}
  OBVIOUS
<1>2. CallsInv'
  BY <1>1 DEF CallsInv
<1> QED BY <1>2

\* The end of a run: the state is closed, the module off or waiting.
LEMMA CompletePreserves ==
  ASSUME IInv, Len(calls) = 1, NEW kind \in {"ok", "err"}, Complete(kind),
         calls' = Tail(calls), fin_stored' = FALSE,
         UNCHANGED <<posted, attached, result, registered, faults>>
  PROVE  IInv'
<1>0. TypeOK /\ LoopInv /\ SessionInv
  BY DEF IInv
<1>1. calls \in Seq(HostCalls) /\ calls # <<>>
  <2>1. calls \in Seq(HostCalls)
    BY <1>0, TypeFacts
  <2>2. Len(<<>>) = 0
    OBVIOUS
  <2> QED BY <2>1, <2>2
<1>2. calls' = <<>>
  BY <1>1, HeadCall
<1>3. luaState = "open"
  BY <1>0, <1>1 DEF SessionInv, TypeOK, SessionTypeOK
<1>4. /\ luaState' = "none" /\ host' = "none" /\ completion' = "none"
      /\ callback' \in BOOLEAN /\ ~callback'
      /\ finished' \in BOOLEAN
      /\ inflight' = 0 /\ budget' \in Nat
      /\ orphaned' \in BOOLEAN
      /\ run_stored' \in BOOLEAN /\ ~run_stored'
      /\ fin_stored' \in BOOLEAN /\ ~fin_stored'
      /\ registered' \in BOOLEAN /\ faults' \subseteq FaultKinds
  BY <1>0, MaxRequestsAssumption
  DEF Complete, CloseState, TypeOK, SessionTypeOK
<1>5. timer = "none" /\ posted = 0 /\ module_state # "OFF"
      /\ module_state # "WAIT"
  BY <1>0, <1>3 DEF LoopInv, OneActivity, Pending, TypeOK
<1>6. \/ Stopped /\ module_state' = "OFF" /\ UNCHANGED <<active, timer>>
      \/ ~Stopped /\ module_state' = "OFF" /\ active' = "0" /\ timer' = timer
      \/ /\ ~Stopped /\ module_state' = "WAIT" /\ timer' = "armed"
         /\ active' = active
  BY DEF Complete, Finished
<1>7. CallsInv' /\ SessionTypeOK({"run", "finally"})'
  BY <1>2, <1>4, EmptyQueue DEF SessionTypeOK
<1>8. TypeOK'
  BY <1>0, <1>4, <1>6, <1>7 DEF TypeOK
<1>9. LoopInv'
  BY <1>0, <1>4, <1>5, <1>6 DEF LoopInv, OneActivity, Pending,
     ActiveMatchesState, Stopped, TypeOK
<1>10. SessionInv'
  BY <1>2, <1>4 DEF SessionInv, Phase, PhaseStored
<1> QED BY <1>7, <1>8, <1>9, <1>10 DEF IInv

\* module::finally on the last call of the run phase.
LEMMA FinallyPreserves ==
  ASSUME IInv, Len(calls) = 1, completion = "none", NEW kind \in {"ok", "err"},
         Finally(kind), UNCHANGED <<posted, attached, fin_stored, result>>
  PROVE  IInv'
<1> USE DEF IInv
<1>1. calls \in Seq(HostCalls) /\ calls # <<>>
  <2>1. calls \in Seq(HostCalls)
    BY TypeFacts
  <2>2. Len(<<>>) = 0
    OBVIOUS
  <2>3. Len(calls) # Len(<<>>)
    BY <2>2
  <2> QED BY <2>1, <2>3, Zenon
<1>2. fin_stored = FALSE /\ luaState = "open"
  BY <1>1 DEF SessionInv, TypeOK, SessionTypeOK
<1>3. CASE /\ Complete(kind) /\ calls' = Tail(calls)
           /\ UNCHANGED <<registered, faults>>
  BY <1>2, <1>3, CompletePreserves
<1>4. CASE /\ completion' = kind
           /\ SyncRun("finally", callback, Tail(calls))
           /\ UNCHANGED <<module_state, timer, active, run_stored>>
  <2>1. Tail(calls) = <<>>
    BY <1>1, HeadCall
  <2>2. Phase' = "finally" /\ ~PhaseStored' /\ completion' # "none"
    BY <1>2, <1>4 DEF Phase, PhaseStored
  <2>3. callback \in BOOLEAN
    BY DEF TypeOK, SessionTypeOK
  <2>4. /\ SessionTypeOK(Hosts)' /\ SessionInv' /\ CallsInv'
        /\ luaState' = "open" /\ registered' = registered
    BY <1>4, <2>1, <2>2, <2>3, SyncRunInv DEF Hosts
  <2>5. TypeOK'
    BY <1>4, <2>4 DEF TypeOK, Hosts
  <2>6. LoopInv'
    BY <1>2, <1>4, <2>4 DEF LoopInv, OneActivity, Pending,
       ActiveMatchesState, Stopped
  <2> QED BY <2>4, <2>5, <2>6
<1> QED BY <1>3, <1>4 DEF Finally

\* Storing a result takes on_finish's call, or the only one of a function that
\* returned without on_finish, off the queue.
LEMMA StorePreserves ==
  ASSUME IInv, RunCbStore \/ FinallyCbStore
  PROVE  IInv'
<1>0. TypeOK /\ LoopInv /\ SessionInv /\ CallsInv
  BY DEF IInv
<1>1. /\ calls # <<>> /\ Head(calls).arg = "ok" /\ calls' = Tail(calls)
      /\ UNCHANGED <<module_state, posted, timer, active, attached, completion,
                     luaState, callback, finished, host, inflight, budget,
                     orphaned, registered, faults>>
      /\ run_stored' \in BOOLEAN /\ fin_stored' \in BOOLEAN
      /\ result' \in {"none", "off", "sleep"}
      /\ completion = "none" => fin_stored' = FALSE
  <2>1. CASE RunCbStore
    <3>1. completion = "none" => fin_stored = FALSE
      BY <1>0 DEF SessionInv, TypeOK
    <3> QED BY <1>0, <2>1, <3>1 DEF RunCbStore, Idle, HostCall, TypeOK
  <2>2. CASE FinallyCbStore
    <3>1. Head(calls).to = "finally" /\ calls # <<>>
      BY <2>2 DEF FinallyCbStore, Idle, HostCall
    <3>2. completion # "none"
      <4>1. Head(calls) = calls[1] /\ Len(calls) \in Nat \ {0}
        BY <1>0, <3>1, TypeFacts, HeadCall
      <4> QED BY <1>0, <3>1, <4>1 DEF CallsInv, Phase
    <3> QED BY <1>0, <2>2, <3>2 DEF FinallyCbStore, Idle, HostCall, TypeOK
  <2> QED BY <2>1, <2>2
<1>2. /\ Len(calls) \in {1, 2} /\ Head(calls) = calls[1]
      /\ Tail(calls) \in Seq(HostCalls) /\ Len(Tail(calls)) = Len(calls) - 1
      /\ \A i \in 1..Len(Tail(calls)) : Tail(calls)[i] = calls[i + 1]
  BY <1>0, <1>1, TypeFacts, HeadCall DEF CallsInv
<1>3. luaState = "open"
  BY <1>0, <1>1 DEF SessionInv, TypeOK, SessionTypeOK
<1>4. finished \/ host = "none"
  BY <1>0, <1>1, <1>2 DEF CallsInv
<1>5. TypeOK'
  <2>1. calls' \in Seq([to : {"run", "finally"} \cup {"none"},
                        arg : {"ok", "err"}])
    BY <1>1, <1>2 DEF HostCalls, Hosts
  <2>2. SessionTypeOK({"run", "finally"})'
    BY <1>0, <1>1, <2>1 DEF TypeOK, SessionTypeOK
  <2> QED BY <1>0, <1>1, <2>2 DEF TypeOK
<1>6. LoopInv'
  BY <1>0, <1>1 DEF LoopInv, OneActivity, Pending, ActiveMatchesState, Stopped
<1>7. SessionInv'
  BY <1>0, <1>1, <1>3, <1>4 DEF SessionInv, Phase, PhaseStored
<1>8. CallsInv'
  <2>1. Phase' = Phase
    BY <1>1 DEF Phase
  <2>2. Len(calls') \in {0, 1}
    BY <1>1, <1>2
  <2>3. \A i \in 1..Len(calls') : calls'[i].to = Phase'
    BY <1>0, <1>1, <1>2, <2>1, <2>2 DEF CallsInv
  <2>4. finished' \/ host' = "none"
    BY <1>1, <1>4
  <2> QED BY <2>2, <2>3, <2>4 DEF CallsInv
<1> QED BY <1>5, <1>6, <1>7, <1>8 DEF IInv

\* The last call of a phase ends it.
LEMMA DonePreserves ==
  ASSUME IInv, RunCbDone \/ RunCbError \/ FinallyCbDone
  PROVE  IInv'
<1>0. TypeOK /\ LoopInv /\ SessionInv /\ CallsInv
  BY DEF IInv
<1>1. calls # <<>>
  BY DEF RunCbDone, RunCbError, FinallyCbDone, Idle
<1>2. /\ Len(calls) \in {1, 2} /\ Head(calls) = calls[1]
      /\ calls[1].to = Phase
  BY <1>0, <1>1, TypeFacts, HeadCall DEF CallsInv
<1>3. CASE RunCbDone
  <2>1. Head(calls).to = "run" /\ run_stored
    BY <1>3 DEF RunCbDone, HostCall
  <2>2. completion = "none"
    BY <1>2, <2>1 DEF Phase
  <2>3. Len(calls) = 1
    BY <1>0, <1>2, <2>1, <2>2 DEF CallsInv, PhaseStored
  <2> QED BY <1>3, <2>2, <2>3, FinallyPreserves DEF RunCbDone
<1>4. CASE RunCbError
  <2>1. Head(calls).to = "run" /\ Head(calls).arg = "err"
    BY <1>4 DEF RunCbError, HostCall
  <2>2. completion = "none"
    BY <1>2, <2>1 DEF Phase
  <2>3. Len(calls) = 1
    BY <1>0, <1>2, <2>1 DEF CallsInv
  <2> QED BY <1>4, <2>2, <2>3, FinallyPreserves DEF RunCbError
<1>5. CASE FinallyCbDone
  <2>1. Head(calls).to = "finally" /\ (fin_stored \/ Head(calls).arg = "err")
    BY <1>5 DEF FinallyCbDone
  <2>2. completion \in {"ok", "err"}
    BY <1>0, <1>2, <2>1 DEF Phase, TypeOK
  <2>3. Len(calls) = 1
    BY <1>0, <1>2, <2>1, <2>2 DEF CallsInv, PhaseStored
  <2> QED BY <1>5, <2>2, <2>3, CompletePreserves DEF FinallyCbDone
<1> QED BY <1>3, <1>4, <1>5

-----------------------------------------------------------------------------
\* A request completes: the callback of the script is executed on the open
\* state, or the host of the phase is told an error, or the state is lost.
LEMMA OnErrorInv ==
  ASSUME IInv, luaState = "open", NEW infl \in Nat, NEW made \in Seq(HostCalls),
         OnError(infl, made),
         finished' \in BOOLEAN, finished => finished',
         inflight' \in Nat, budget' \in Nat, faults' \subseteq FaultKinds,
         UNCHANGED <<moduleVars, registered>>,
         host = "none" => made = <<>>,
         host # "none" =>
           LET q == Append(made, HostCall(host, "err"))
           IN  /\ q \in Seq(HostCalls) /\ Len(q) <= 2
               /\ \A i \in 1..Len(q) : q[i].to = host
               /\ Len(q) = 2 => q[1].arg = "ok" /\ ~PhaseStored
               /\ q[1].arg = "ok" => finished'
  PROVE  IInv'
<1>0. TypeOK /\ LoopInv /\ SessionInv
  BY DEF IInv
<1>1. Phase' = Phase /\ PhaseStored' = PhaseStored
  BY DEF Phase, PhaseStored, moduleVars
<1>2. CASE host # "none"
  <2> DEFINE q == Append(made, HostCall(host, "err"))
  <2>1. /\ callback' \in BOOLEAN /\ ~callback' /\ calls' = q
        /\ UNCHANGED <<luaState, host, orphaned>>
    BY <1>2 DEF OnError
  <2>2. /\ q \in Seq(HostCalls) /\ Len(q) <= 2
        /\ \A i \in 1..Len(q) : q[i].to = host
        /\ Len(q) = 2 => q[1].arg = "ok" /\ ~PhaseStored
        /\ q[1].arg = "ok" => finished'
    BY <1>2
  <2> HIDE DEF q
  <2>3. host = Phase
    BY <1>0, <1>2 DEF SessionInv
  <2>4. CallsInv'
    BY <1>1, <2>1, <2>2, <2>3 DEF CallsInv
  <2>5. SessionTypeOK({"run", "finally"})'
    BY <1>0, <2>1, <2>2 DEF TypeOK, SessionTypeOK, HostCalls, Hosts
  <2>6. SessionInv'
    BY <1>0, <1>1, <2>1 DEF SessionInv, moduleVars
  <2>7. TypeOK' /\ LoopInv'
    BY <1>0, <2>1, <2>5 DEF TypeOK, LoopInv, OneActivity, Pending,
       ActiveMatchesState, Stopped, moduleVars
  <2> QED BY <2>4, <2>6, <2>7 DEF IInv
<1>3. CASE host = "none"
  <2>1. /\ luaState' = "freed" /\ orphaned' \in BOOLEAN
        /\ calls' = <<>> /\ UNCHANGED <<callback, host>>
    BY <1>3 DEF OnError
  <2>2. CallsInv'
    BY <2>1, EmptyQueue
  <2>3. SessionTypeOK({"run", "finally"})'
    BY <1>0, <2>1, EmptyQueue DEF TypeOK, SessionTypeOK
  <2>4. SessionInv'
    BY <1>0, <1>1, <1>3, <2>1 DEF SessionInv, moduleVars
  <2>5. TypeOK' /\ LoopInv'
    BY <1>0, <2>1, <2>3 DEF TypeOK, LoopInv, OneActivity, Pending,
       ActiveMatchesState, Stopped, moduleVars
  <2> QED BY <2>2, <2>4, <2>5 DEF IInv
<1> QED BY <1>2, <1>3

\* So does a request that fails or whose response nobody waits for.
LEMMA FailurePreserves ==
  ASSUME IInv, UnexpectedResponse \/ FailedRequest, UNCHANGED moduleVars
  PROVE  IInv'
<1>1. /\ luaState = "open" /\ inflight > 0 /\ OnError(inflight - 1, <<>>)
      /\ inflight' = inflight - 1
      /\ UNCHANGED <<finished, budget, registered, faults>>
  BY DEF UnexpectedResponse, FailedRequest
<1>2. /\ finished \in BOOLEAN /\ inflight \in Nat /\ budget \in Nat
      /\ host \in Hosts \cup {"none"} /\ faults \subseteq FaultKinds
  BY DEF IInv, TypeOK, SessionTypeOK, Hosts
<1>3. inflight - 1 \in Nat /\ <<>> \in Seq(HostCalls)
  BY <1>1, <1>2
<1>4. ASSUME host # "none"
      PROVE  LET q == Append(<<>>, HostCall(host, "err"))
             IN  /\ q \in Seq(HostCalls) /\ Len(q) = 1 /\ q[1].to = host
                 /\ q[1].arg = "err"
  <2>1. HostCall(host, "err") \in HostCalls
    BY <1>2 DEF HostCall, HostCalls
  <2>2. Len(<<>>) = 0
    OBVIOUS
  <2> DEFINE q == Append(<<>>, HostCall(host, "err"))
  <2>3. q \in Seq(HostCalls) /\ Len(q) = 1 /\ q[1] = HostCall(host, "err")
    BY <1>3, <2>1, <2>2, AppendProperties
  <2> QED BY <2>3 DEF HostCall
<1>5. ASSUME host # "none"
      PROVE  LET q == Append(<<>>, HostCall(host, "err"))
             IN  /\ q \in Seq(HostCalls) /\ Len(q) <= 2
                 /\ \A i \in 1..Len(q) : q[i].to = host
                 /\ Len(q) = 2 => q[1].arg = "ok" /\ ~PhaseStored
                 /\ q[1].arg = "ok" => finished'
  <2> DEFINE q == Append(<<>>, HostCall(host, "err"))
  <2>1. /\ q \in Seq(HostCalls) /\ Len(q) = 1 /\ q[1].to = host
        /\ q[1].arg = "err"
    BY <1>4, <1>5
  <2> HIDE DEF q
  <2>2. \A i \in 1..Len(q) : q[i].to = host
    BY <2>1
  <2> QED BY <2>1, <2>2 DEF q
<1> QED BY <1>1, <1>2, <1>3, <1>5, OnErrorInv

\* So does a response, whatever the script makes of it.
LEMMA ResponsePreserves ==
  ASSUME IInv, Response, UNCHANGED moduleVars
  PROVE  IInv'
<1>0. TypeOK /\ LoopInv /\ SessionInv
  BY DEF IInv
<1>1. PICK o \in Outcomes :
        /\ Activation(o, finished, inflight - 1, budget)
        /\ \/ o.err /\ OnError(inflight', FinishCall(o, host))
           \/ /\ ~o.err
              /\ Finalize(Stored(o, FALSE), host, FinishCall(o, host))
              /\ UNCHANGED <<luaState, orphaned>>
  BY Zenon DEF Response
<1>2. luaState = "open" /\ callback /\ inflight > 0 /\ registered' = registered
  BY DEF Response
<1>3. /\ finished \in BOOLEAN /\ inflight - 1 \in Nat /\ budget \in Nat
      /\ orphaned \in BOOLEAN /\ registered \in BOOLEAN
      /\ faults \subseteq FaultKinds
  BY <1>0, <1>2 DEF TypeOK, SessionTypeOK
<1>4. /\ finished' \in BOOLEAN /\ inflight' \in Nat /\ budget' \in Nat
      /\ finished' = (finished \/ o.fin) /\ (o.fin => ~finished)
      /\ faults' \subseteq FaultKinds
  BY <1>1, <1>3, ActivationType
<1>5. host \in Hosts /\ host # "none" /\ host = Phase
  BY <1>0, <1>2 DEF SessionInv, TypeOK, SessionTypeOK, Hosts
<1>6. PhaseStored \in BOOLEAN /\ (o.fin => ~PhaseStored)
  BY <1>0, <1>4, <1>5 DEF SessionInv, PhaseStored, TypeOK
<1>7. Phase' = Phase /\ PhaseStored' = PhaseStored
  BY DEF Phase, PhaseStored, moduleVars
<1>8. CASE OnError(inflight', FinishCall(o, host))
  <2> DEFINE q == Append(FinishCall(o, host), HostCall(host, "err"))
  <2>1. /\ q \in Seq(HostCalls) /\ Len(q) <= 2
        /\ \A i \in 1..Len(q) : q[i].to = host
        /\ Len(q) = 2 => q[1].arg = "ok" /\ ~PhaseStored
        /\ q[1].arg = "ok" => finished'
    <3>1. q = CallsMade(o, host, "err")
      BY DEF CallsMade
    <3> HIDE DEF q
    <3> QED BY <1>4, <1>5, <1>6, <3>1, FinalCall
  <2>2. FinishCall(o, host) \in Seq(HostCalls)
    BY <1>5, NoFinalCall
  <2> QED BY <1>2, <1>4, <1>5, <1>8, <2>1, <2>2, OnErrorInv
<1>9. CASE /\ Finalize(Stored(o, FALSE), host, FinishCall(o, host))
           /\ UNCHANGED <<luaState, orphaned>>
  <2>1. CASE /\ callback' = TRUE /\ host' = host
             /\ calls' = FinishCall(o, host)
    <3>1. /\ calls' \in Seq(HostCalls) /\ Len(calls') <= 1
          /\ \A i \in 1..Len(calls') : calls'[i].to = Phase'
      BY <1>5, <1>7, <2>1, NoFinalCall
    <3>2. calls' # <<>> => finished'
      BY <1>4, <1>5, <2>1, NoFinalCall
    <3>3. Len(calls') \in Nat
      BY <3>1, LenProperties
    <3>4. CallsInv'
      BY <3>1, <3>2, <3>3 DEF CallsInv
    <3>5. SessionTypeOK({"run", "finally"})'
      BY <1>0, <1>2, <1>3, <1>4, <1>9, <2>1, <3>1
      DEF TypeOK, SessionTypeOK, HostCalls, Hosts
    <3>6. SessionInv'
      BY <1>0, <1>2, <1>4, <1>5, <1>7, <1>9, <2>1 DEF SessionInv, moduleVars
    <3>7. TypeOK' /\ LoopInv'
      BY <1>0, <1>2, <1>9, <3>5 DEF TypeOK, LoopInv, OneActivity, Pending,
         ActiveMatchesState, Stopped, moduleVars
    <3> QED BY <3>4, <3>6, <3>7 DEF IInv
  <2>2. CASE /\ callback' = FALSE /\ host' = "none"
             /\ calls' = Append(FinishCall(o, host), HostCall(host, "ok"))
    <3>1. /\ calls' \in Seq(HostCalls) /\ Len(calls') <= 2
          /\ \A i \in 1..Len(calls') : calls'[i].to = Phase'
          /\ Len(calls') = 2 => calls'[1].arg = "ok" /\ ~PhaseStored'
      BY <1>5, <1>6, <1>7, <2>2, FinalCall DEF CallsMade
    <3>2. CallsInv'
      BY <2>2, <3>1 DEF CallsInv
    <3>3. SessionTypeOK({"run", "finally"})'
      BY <1>0, <1>2, <1>3, <1>4, <1>9, <2>2, <3>1
      DEF TypeOK, SessionTypeOK, HostCalls, Hosts
    <3>4. SessionInv'
      BY <1>0, <1>2, <1>7, <1>9, <2>2 DEF SessionInv, moduleVars
    <3>5. TypeOK' /\ LoopInv'
      BY <1>0, <1>2, <1>9, <3>3 DEF TypeOK, LoopInv, OneActivity, Pending,
         ActiveMatchesState, Stopped, moduleVars
    <3> QED BY <3>2, <3>4, <3>5 DEF IInv
  <2> QED BY <1>9, <2>1, <2>2 DEF Finalize
<1> QED BY <1>1, <1>8, <1>9

-----------------------------------------------------------------------------
\* The constructor makes the invariant true, before the module is in modules_ too.
LEMMA ConstructedInv ==
  ASSUME Constructed, registered = TRUE, attached \in BOOLEAN
  PROVE  IInv
<1> USE DEF Constructed, SessionInit
<1>1. TypeOK
  <2>1. calls \in Seq([to : {"run", "finally"} \cup {"none"},
                       arg : {"ok", "err"}])
    OBVIOUS
  <2> QED BY <2>1, MaxRequestsAssumption DEF TypeOK, SessionTypeOK
<1>2. LoopInv
  BY DEF LoopInv, OneActivity, Pending, ActiveMatchesState, Stopped
<1>3. SessionInv
  BY DEF SessionInv, Phase, PhaseStored
<1>4. CallsInv
  <2>1. calls = <<>> /\ Len(<<>>) = 0 /\ 1..0 = {}
    OBVIOUS
  <2> QED BY <2>1 DEF CallsInv
<1> QED BY <1>1, <1>2, <1>3, <1>4 DEF IInv

\* A module of a loaded package starts in the invariant,
LEMMA InitInv == Init => IInv
BY ConstructedInv DEF Init

\* which every step keeps.
LEMMA NextInv == IInv /\ [Next]_vars => IInv'
<1> SUFFICES ASSUME IInv, [Next]_vars PROVE IInv'
  OBVIOUS
<1>1. CASE StartOff \/ StartStopRun \/ Stop \/ TimerExpires
  BY <1>1, CommandsPreserve
<1>2. CASE Shutdown
  BY <1>2, ShutdownPreserves
<1>3. CASE RunPosted \/ RunTimer
  BY <1>3, RunPreserves
<1>4. CASE RunCbStore \/ FinallyCbStore
  BY <1>4, StorePreserves
<1>5. CASE RunCbDone \/ RunCbError \/ FinallyCbDone
  BY <1>5, DonePreserves
<1>6. CASE RequestDone
  BY <1>6, ResponsePreserves, FailurePreserves DEF RequestDone, Completion
<1>7. CASE UNCHANGED vars
  <2>1. TypeOK'
    BY <1>7 DEF IInv, TypeOK, SessionTypeOK, vars, moduleVars, sessionVars
  <2>2. LoopInv'
    BY <1>7 DEF IInv, LoopInv, OneActivity, Pending, ActiveMatchesState,
       Stopped, vars, moduleVars, sessionVars
  <2>3. SessionInv' /\ CallsInv'
    BY <1>7, SessionUnchanged DEF IInv, vars, moduleVars
  <2> QED BY <2>1, <2>2, <2>3 DEF IInv
<1> QED BY <1>1, <1>2, <1>3, <1>4, <1>5, <1>6, <1>7 DEF Next, HostCallback

(***************************************************************************)
(* The invariant of the module's loop and its script session holds for     *)
(* every script: TypeOK, OneActivity, ActiveMatchesState and the order of  *)
(* the on_finish_cb calls.                                                 *)
(***************************************************************************)
THEOREM InvariantHolds == Spec => []IInv
<1>1. Init => IInv
  BY InitInv
<1>2. IInv /\ [Next]_vars => IInv'
  BY NextInv
<1> QED BY <1>1, <1>2, PTL DEF Spec

\* The state of the module is always of its type (module.h, lua globals).
THEOREM TypeCorrect == Spec => []TypeOK
<1>1. IInv => TypeOK
  BY DEF IInv
<1> QED BY <1>1, InvariantHolds, PTL

(***************************************************************************)
(* A module never runs twice at a time and is never left without a         *)
(* successor to its current step (module_state_, timer_, the run handler   *)
(* and the script).                                                        *)
(***************************************************************************)
THEOREM OneActivityHolds == Spec => []OneActivity
<1>1. IInv => OneActivity
  BY DEF IInv, LoopInv
<1> QED BY <1>1, InvariantHolds, PTL

\* <module>_active is "1" exactly while module_state_ is RUN or WAIT.
THEOREM ActiveMatchesStateHolds == Spec => []ActiveMatchesState
<1>1. IInv => ActiveMatchesState
  BY DEF IInv, LoopInv
<1> QED BY <1>1, InvariantHolds, PTL

\* The assert(false) of finalize_if_last_async never fires, for any script.
THEOREM AssertNeverFires == Spec => []AssertHolds
<1>1. IInv => AssertHolds
  <2> SUFFICES ASSUME IInv, NEW i \in DOMAIN calls PROVE calls[i].to # "none"
    BY DEF AssertHolds
  <2>1. i \in 1..Len(calls)
    BY TypeFacts, LenProperties DEF IInv
  <2> QED BY <2>1 DEF IInv, CallsInv, Phase
<1> QED BY <1>1, InvariantHolds, PTL

\* No script is started for a module that is stopped or has left its bot.
THEOREM StartsOnlyActiveHolds == Spec => StartsOnlyActive
<1> DEFINE Starts == luaState = "none" /\ luaState' # "none"
                       => active = "1" /\ attached /\ registered
<1>1. IInv /\ [Next]_vars => [Starts]_vars
  <2> SUFFICES ASSUME IInv, Next, luaState = "none", luaState' # "none"
               PROVE  active = "1" /\ attached /\ registered
    OBVIOUS
  <2>0. LoopInv /\ calls = <<>> /\ attached \in BOOLEAN
        /\ registered \in BOOLEAN
    BY DEF IInv, SessionInv, TypeOK, SessionTypeOK
  <2>1. CASE RunPosted \/ RunTimer
    <3>1. ~Stopped
      BY <2>1 DEF RunPosted, RunTimer, Run, sessionVars
    <3> QED BY <2>0, <3>1 DEF LoopInv, ActiveMatchesState
  <2>2. CASE StartOff \/ StartStopRun \/ Stop \/ Shutdown \/ TimerExpires
    BY <2>2 DEF StartOff, StartStopRun, Stop, Shutdown, TimerExpires,
       sessionVars
  <2>3. CASE HostCallback
    BY <2>0, <2>3 DEF HostCallback, RunCbStore, RunCbDone, RunCbError,
       FinallyCbStore, FinallyCbDone, Idle
  <2>4. CASE RequestDone
    BY <2>4 DEF RequestDone, Completion, Response, UnexpectedResponse,
       FailedRequest
  <2> QED BY <2>1, <2>2, <2>3, <2>4 DEF Next
<1> QED BY <1>1, InvariantHolds, PTL DEF Spec, StartsOnlyActive

(***************************************************************************)
(* Once finally_<module> has been called for a run, the next thing that    *)
(* happens to the run is its end, which closes the Lua state: no handler   *)
(* of the run phase (run_cb) is executed any more.                         *)
(***************************************************************************)
THEOREM FinallyOnceHolds == Spec => FinallyOnce
<1> DEFINE Once == completion # "none" =>
                     /\ completion' \in {completion, "none"}
                     /\ completion' = "none" => luaState' = "none"
<1>1. IInv /\ [Next]_vars => [Once]_vars
  <2> SUFFICES ASSUME IInv, Next, completion # "none"
               PROVE  \/ completion' = completion
                      \/ luaState' = "none" /\ completion' = "none"
    OBVIOUS
  <2>0. TypeOK /\ SessionInv /\ CallsInv
    BY DEF IInv
  <2>1. CASE UNCHANGED completion
    BY <2>1
  <2>2. CASE RunCbDone \/ RunCbError
    <3>1. Head(calls).to = "run" /\ calls # <<>>
      BY <2>2 DEF RunCbDone, RunCbError, HostCall, Idle
    <3>2. Head(calls) = calls[1] /\ 1 \in 1..Len(calls)
      BY <2>0, <3>1, TypeFacts, HeadCall
    <3> QED BY <2>0, <3>1, <3>2 DEF CallsInv, Phase
  <2>3. CASE FinallyCbDone
    BY <2>3 DEF FinallyCbDone, Complete, CloseState
  <2>4. CASE StartOff \/ StartStopRun \/ Stop \/ Shutdown \/ TimerExpires
    BY <2>1, <2>4 DEF StartOff, StartStopRun, Stop, Shutdown, TimerExpires
  <2>5. CASE RunPosted \/ RunTimer \/ RunCbStore \/ FinallyCbStore
    BY <2>1, <2>5 DEF RunPosted, RunTimer, RunCbStore, FinallyCbStore
  <2>6. CASE RequestDone
    BY <2>1, <2>6 DEF RequestDone, moduleVars
  <2> QED BY <2>2, <2>3, <2>4, <2>5, <2>6 DEF Next, HostCallback
<1> QED BY <1>1, InvariantHolds, PTL DEF Spec, FinallyOnce

-----------------------------------------------------------------------------
\* The session side of a step of the script leaves the loop alone: the state is
\* open and stays so, or is at most closed under its wrapper.
LEMMA RequestKeepsState ==
  ASSUME RequestDone
  PROVE  luaState # "none" /\ luaState' # "none"
BY DEF RequestDone, Completion, Response, UnexpectedResponse, FailedRequest,
   OnError

\* The end of a run is the end of the script in the loop.
LEMMA CompleteEndsScript ==
  ASSUME LoopInv, active \in {"1", "0", "unset"},
         luaState # "none", NEW kind, Complete(kind), attached' = attached
  PROVE  Loop!EndScript
<1>1. luaState' = "none"
  BY DEF Complete, CloseState
<1>2. (active' = "1") = (active = "1") \/ (active' = "1") = FALSE
  BY DEF Complete, Finished
<1> QED BY <1>1, <1>2 DEF Loop!EndScript

\* A command changes what the user wants, or takes the module out of the bot.
LEMMA CommandsRefine ==
  ASSUME LoopInv, TypeOK, StartOff \/ StartStopRun \/ Stop \/ Shutdown
  PROVE  Loop!SwitchOn \/ Loop!SwitchOff \/ Loop!Leave
<1>1. CASE StartOff \/ StartStopRun
  <2>1. /\ attached /\ attached' = attached /\ luaState' = luaState
        /\ active # "1" /\ active' = "1"
    BY <1>1 DEF StartOff, StartStopRun, LoopInv, ActiveMatchesState, Stopped,
       sessionVars
  <2> QED BY <2>1 DEF Loop!SwitchOn
<1>2. CASE Stop
  <2>1. /\ attached' = attached /\ luaState' = luaState
        /\ active = "1" /\ active' # "1"
    BY <1>2 DEF Stop, StopCommand, LoopInv, ActiveMatchesState, Stopped,
       sessionVars
  <2> QED BY <2>1 DEF Loop!SwitchOff
<1>3. CASE Shutdown
  <2>1. attached /\ ~attached' /\ luaState' = luaState /\ active' # "1"
    BY <1>3 DEF Shutdown
  <2> QED BY <2>1 DEF Loop!Leave
<1> QED BY <1>1, <1>2, <1>3

\* Every step of the module is a step of the loop or leaves the loop alone.
LEMMA StepRefines == IInv /\ [Next]_vars => [Loop!Next]_(Loop!vars)
<1> SUFFICES ASSUME IInv, [Next]_vars PROVE [Loop!Next]_(Loop!vars)
  OBVIOUS
<1>0. TypeOK /\ LoopInv /\ SessionInv
  BY DEF IInv
<1>1. CASE StartOff \/ StartStopRun \/ Stop \/ Shutdown
  BY <1>0, <1>1, CommandsRefine DEF Loop!Next
<1>2. CASE RunPosted \/ RunTimer
  <2>1. luaState = "none"
    BY <1>0, <1>2 DEF RunPosted, RunTimer, LoopInv, OneActivity, Pending, TypeOK
  <2>2. active' = active /\ attached' = attached
    BY <1>2 DEF RunPosted, RunTimer
  <2>3. CASE Stopped /\ UNCHANGED sessionVars
    BY <2>2, <2>3 DEF sessionVars, Loop!vars
  <2>4. CASE ~Stopped /\ SyncRun("run", FALSE, <<>>)
    <3>1. luaState' = "open" /\ active = "1" /\ attached
      BY <1>0, <2>4 DEF SyncRun, LoopInv, ActiveMatchesState, TypeOK
    <3>2. Loop!StartScript
      BY <2>1, <2>2, <3>1 DEF Loop!StartScript
    <3> QED BY <3>2 DEF Loop!Next
  <2> QED BY <1>2, <2>3, <2>4 DEF RunPosted, RunTimer, Run
<1>3. CASE TimerExpires \/ RunCbStore \/ FinallyCbStore
  BY <1>3 DEF TimerExpires, RunCbStore, FinallyCbStore, sessionVars, Loop!vars
<1>4. CASE RunCbDone \/ RunCbError \/ FinallyCbDone
  <2>1. luaState # "none" /\ attached' = attached
    BY <1>0, <1>4 DEF RunCbDone, RunCbError, FinallyCbDone, SessionInv, Idle
  <2>2. CASE \E kind \in {"ok", "err", completion} : Complete(kind)
    BY <1>0, <2>1, <2>2, CompleteEndsScript DEF Loop!Next, TypeOK
  <2>3. CASE UNCHANGED active /\ luaState' = "open"
    BY <2>1, <2>3 DEF Loop!vars
  <2> QED BY <1>4, <2>2, <2>3
      DEF RunCbDone, RunCbError, FinallyCbDone, Finally, SyncRun
<1>5. CASE RequestDone
  BY <1>5, RequestKeepsState DEF RequestDone, moduleVars, Loop!vars
<1>6. CASE UNCHANGED vars
  BY <1>6 DEF vars, moduleVars, sessionVars, Loop!vars
<1> QED BY <1>1, <1>2, <1>3, <1>4, <1>5, <1>6 DEF Next, HostCallback

(***************************************************************************)
(* The module implements the safety half of ModuleLoop, for every script:  *)
(* each step of execute, run, run_cb, finally_cb and of the Lua state is a *)
(* step of the loop or none, so that no script is started unless the       *)
(* module is on, in its bot and not being executed.                        *)
(***************************************************************************)
THEOREM LoopIsKept == Spec => KeepsLoop
<1>1. Init => Loop!Init
  BY DEF Init, Constructed, SessionInit, Loop!Init
<1>2. IInv /\ [Next]_vars => [Loop!Next]_(Loop!vars)
  BY StepRefines
<1> QED BY <1>1, <1>2, InvariantHolds, PTL DEF Spec, KeepsLoop

-----------------------------------------------------------------------------
(***************************************************************************)
(* What a module and the rest of its bot do to each other.                 *)
(***************************************************************************)

\* A module is taken from its bot, and its bot from bots_, by shutdown alone.
LEMMA HandlersOnBot ==
  ASSUME \/ StartOff \/ StartStopRun \/ Stop \/ RunPosted \/ RunTimer
         \/ TimerExpires \/ HostCallback \/ RequestDone
  PROVE  UNCHANGED <<registered, attached>>
<1>1. ASSUME NEW kind, Finally(kind) PROVE registered' = registered
  BY <1>1 DEF Finally, SyncRun
<1>2. CASE StartOff \/ StartStopRun \/ Stop \/ TimerExpires
  BY <1>2 DEF StartOff, StartStopRun, Stop, TimerExpires, sessionVars
<1>3. CASE RunPosted \/ RunTimer
  BY <1>3 DEF RunPosted, RunTimer, Run, SyncRun, sessionVars
<1>4. CASE HostCallback
  BY <1>1, <1>4 DEF HostCallback, RunCbStore, RunCbDone, RunCbError,
     FinallyCbStore, FinallyCbDone
<1>5. CASE RequestDone
  BY <1>5 DEF RequestDone, moduleVars, Completion, Response, UnexpectedResponse,
     FailedRequest
<1> QED BY <1>2, <1>3, <1>4, <1>5

\* A module that is left alone keeps its invariant when its bot is entered into
\* bots_ or the module is made part of it, and when both end while it is stopped.
LEMMA BotChanges ==
  ASSUME IInv,
         UNCHANGED <<module_state, posted, timer, active, run_stored, fin_stored,
                     result, completion, luaState, callback, finished, host,
                     inflight, budget, calls, orphaned, faults>>,
         registered' \in BOOLEAN, attached' \in BOOLEAN,
         attached' => registered',
         ~attached' => Stopped
  PROVE  IInv'
<1>1. TypeOK'
  BY DEF IInv, TypeOK, SessionTypeOK
<1>2. LoopInv'
  BY DEF IInv, LoopInv, OneActivity, Pending, ActiveMatchesState, Stopped
<1>3. SessionInv' /\ CallsInv'
  BY DEF IInv, SessionInv, CallsInv, Phase, PhaseStored
<1> QED BY <1>1, <1>2, <1>3 DEF IInv

-----------------------------------------------------------------------------
(***************************************************************************)
(* The requests of a run.                                                  *)
(***************************************************************************)

\* Less has been committed before a step than after it.
LEMMA WithoutGrows ==
  ASSUME NEW kinds, faults \subseteq faults', Without(kinds)'
  PROVE  Without(kinds)
BY DEF Without

\* How a final call shows in the queue.
LEMMA FinalCalls ==
  ASSUME NEW h, NEW fin \in BOOLEAN, NEW arg \in {"ok", "err"}
  PROVE  /\ FinalQueue(h, fin, arg) # <<>>
         /\ FinalQueue(h, fin, arg)[Len(FinalQueue(h, fin, arg))].arg = arg
         /\ fin => FinishQueue(h, fin) = <<HostCall(h, "ok")>>
         /\ ~fin => FinishQueue(h, fin) = <<>>
         /\ Len(<<HostCall(h, "ok")>>) = 1 /\ <<HostCall(h, "ok")>>[1].arg = "ok"
<1>1. \A a : HostCall(h, a).arg = a
  BY DEF HostCall
<1>2. ASSUME NEW a, NEW b
      PROVE  /\ <<a>> # <<>> /\ Len(<<a>>) = 1 /\ <<a>>[1] = a
             /\ <<a, b>> # <<>> /\ Len(<<a, b>>) = 2 /\ <<a, b>>[2] = b
  OBVIOUS
<1>3. CASE fin
  <2> DEFINE q == FinalQueue(h, fin, arg)
  <2>1. q = <<HostCall(h, "ok"), HostCall(h, arg)>>
    BY <1>3 DEF FinalQueue
  <2>2. q # <<>> /\ Len(q) = 2 /\ q[2] = HostCall(h, arg)
    BY <1>2, <2>1
  <2>3. FinishQueue(h, fin) = <<HostCall(h, "ok")>>
    BY <1>3 DEF FinishQueue
  <2>4. Len(<<HostCall(h, "ok")>>) = 1 /\ <<HostCall(h, "ok")>>[1] = HostCall(h, "ok")
    BY <1>2
  <2> HIDE DEF q
  <2>5. q[Len(q)].arg = arg
    BY <1>1, <2>2
  <2> QED BY <1>1, <1>3, <2>2, <2>3, <2>4, <2>5 DEF q
<1>4. CASE ~fin
  <2>1. FinalQueue(h, fin, arg) = <<HostCall(h, arg)>>
    BY <1>4 DEF FinalQueue
  <2> QED BY <1>1, <1>2, <1>4, <2>1 DEF FinishQueue
<1> QED BY <1>3, <1>4

\* One activation on behalf of h, with cb0 in BOT_CALLBACK before it, which a
\* request in flight will call unless an HTTP call has failed to start.
LEMMA ActivationRequests ==
  ASSUME NEW o \in Outcomes, NEW fin0 \in BOOLEAN, NEW infl0 \in Nat,
         NEW b0 \in Nat, Activation(o, fin0, infl0, b0), NEW h,
         NEW cb0 \in BOOLEAN, NEW cb \in {FALSE, Stored(o, cb0)},
         registered \in BOOLEAN,
         \/ ~o.err /\ Stored(o, cb0) /\ Waits(h, o.fin)
         \/ ~o.err /\ ~Stored(o, cb0) /\ Succeeds(h, o.fin)
         \/ o.err /\ Raises(h, o.fin, cb),
         luaState' = "open", o.fin => ~PhaseStored',
         Without({"late_raise", "parallel"})' => ~orphaned' /\ infl0 = 0,
         Without({"failed_call"})' /\ cb0 => infl0 > 0,
         registered \/ completion' # "none" \/ cb = FALSE
  PROVE  RequestInv'
<1>1. /\ "late_raise" \notin faults' => (o.err => o.req = 0)
      /\ "parallel" \notin faults' => infl0 + o.req <= 1
      /\ "failed_call" \notin faults' => (o.stored => o.err /\ ~registered)
      /\ inflight' = infl0 + o.req
  BY FaultsAvoided
<1>2. /\ o.req \in Nat /\ o.fin \in BOOLEAN /\ o.err \in BOOLEAN
      /\ Stored(o, cb0) => cb0 \/ o.stored \/ o.req > 0
      /\ o.req > 0 => Stored(o, cb0)
      /\ Stored(o, cb0) \in BOOLEAN
  BY MaxRequestsAssumption DEF Outcomes, Stored
<1>3. InflightInv'
  <2> SUFFICES ASSUME Without({"late_raise", "parallel"})'
      PROVE  /\ inflight' <= 1 /\ ~orphaned'
             /\ inflight' > 0 =>
                  /\ callback'
                  /\ calls' = <<>> \/ (Len(calls') = 1 /\ calls'[1].arg = "ok"
                                                       /\ ~PhaseStored')
    BY DEF InflightInv
  <2>1. "late_raise" \notin faults' /\ "parallel" \notin faults'
    BY DEF Without
  <2>2. inflight' = o.req /\ o.req <= 1 /\ ~orphaned'
    BY <1>1, <1>2, <2>1
  <2>3. ASSUME o.req > 0
        PROVE  /\ callback'
               /\ calls' = <<>> \/ (Len(calls') = 1 /\ calls'[1].arg = "ok"
                                                    /\ ~PhaseStored')
    <3>1. ~o.err
      BY <1>1, <2>1, <2>3
    <3>2. Waits(h, o.fin)
      BY <1>2, <2>3, <3>1
    <3> QED BY <1>2, <3>2, FinalCalls DEF Waits
  <2> QED BY <2>2, <2>3
<1>4. AsyncInv'
  <2> SUFFICES ASSUME Without({"failed_call"})', callback'
      PROVE  inflight' > 0 \/ (completion' # "none" /\ calls' # <<>>
                                 /\ calls'[Len(calls')].arg = "err")
    BY DEF AsyncInv
  <2>1. o.stored => o.err /\ ~registered
    BY <1>1 DEF Without
  <2>2. ~(~o.err /\ ~Stored(o, cb0) /\ Succeeds(h, o.fin))
    BY DEF Succeeds
  <2>3. Stored(o, cb0)
    BY <1>2, <2>2 DEF Raises
  <2>4. CASE cb0 \/ o.req > 0
    BY <1>1, <1>2, <2>4
  <2>5. CASE o.stored
    <3>1. o.err /\ ~registered /\ Raises(h, o.fin, cb)
      BY <2>1, <2>5
    <3>2. cb # FALSE
      BY <3>1 DEF Raises
    <3> QED BY <1>2, <3>1, <3>2, FinalCalls DEF Raises
  <2> QED BY <1>2, <2>3, <2>4, <2>5
<1> QED BY <1>3, <1>4 DEF RequestInv

\* module::run.
LEMMA RunRequests ==
  ASSUME IInv, RequestInv, RunPosted \/ RunTimer
  PROVE  RequestInv'
<1>1. /\ Run
      /\ UNCHANGED <<run_stored, fin_stored, completion>>
  BY DEF RunPosted, RunTimer
<1>2. LoopInv /\ SessionInv /\ TypeOK
  BY DEF IInv
<1>3. luaState = "none"
  BY <1>2 DEF RunPosted, RunTimer, LoopInv, OneActivity, Pending, TypeOK
<1>4. /\ inflight = 0 /\ ~run_stored /\ completion = "none"
      /\ budget \in Nat /\ registered \in BOOLEAN /\ faults \subseteq FaultKinds
  BY <1>2, <1>3 DEF SessionInv, TypeOK, SessionTypeOK
<1>5. CASE Stopped /\ UNCHANGED sessionVars
  BY <1>1, <1>5 DEF RequestInv, InflightInv, AsyncInv, Without, PhaseStored, sessionVars
<1>6. CASE ~Stopped /\ SyncRun("run", FALSE, <<>>)
  <2>1. /\ luaState' = "open" /\ UNCHANGED <<orphaned, registered>>
        /\ \E o \in Outcomes :
             /\ Activation(o, FALSE, inflight, budget)
             /\ \/ ~o.err /\ Stored(o, FALSE) /\ Waits("run", o.fin)
                \/ ~o.err /\ ~Stored(o, FALSE) /\ Succeeds("run", o.fin)
                \/ o.err /\ Raises("run", o.fin, Stored(o, FALSE))
    BY <1>6, SyncRunCalls
  <2>2. PICK o \in Outcomes :
          /\ Activation(o, FALSE, 0, budget)
          /\ \/ ~o.err /\ Stored(o, FALSE) /\ Waits("run", o.fin)
             \/ ~o.err /\ ~Stored(o, FALSE) /\ Succeeds("run", o.fin)
             \/ o.err /\ Raises("run", o.fin, Stored(o, FALSE))
    BY <1>4, <2>1
  <2>3. registered
    BY <1>2, <1>4, <1>6 DEF LoopInv, TypeOK
  <2>4. ~PhaseStored'
    BY <1>1, <1>4 DEF PhaseStored
  <2>5. Without({"late_raise", "parallel"})' => ~orphaned'
    <3>1. faults \subseteq faults'
      BY <2>2, FaultsAvoided
    <3> QED BY <2>1, <3>1, WithoutGrows DEF RequestInv, InflightInv
  <2> QED BY <1>4, <2>1, <2>2, <2>3, <2>4, <2>5, ActivationRequests
<1> QED BY <1>1, <1>5, <1>6 DEF Run

\* The queue with which run_cb and finally_cb are called a last time: no request
\* is in flight then, and a callback that is set has one otherwise.
LEMMA FinalCallRequests ==
  ASSUME IInv, RequestInv, ~Idle,
         Head(calls).arg = "err" \/ PhaseStored
  PROVE  /\ Tail(calls) = <<>> /\ Len(calls) = 1
         /\ Without({"late_raise", "parallel"}) =>
              ~orphaned /\ inflight = 0 /\ luaState = "open"
<1>1. TypeOK /\ SessionInv /\ CallsInv /\ calls \in Seq(HostCalls) /\ calls # <<>>
  BY TypeFacts DEF IInv, Idle
<1>2. /\ Len(calls) \in Nat \ {0} /\ Head(calls) = calls[1]
      /\ Len(calls) = 1 => Tail(calls) = <<>>
  BY <1>1, HeadCall
<1>3. Len(calls) = 1
  <2>1. Len(calls) <= 2 /\ (Len(calls) = 2 => calls[1].arg = "ok" /\ ~PhaseStored)
    BY <1>1 DEF CallsInv
  <2>2. Head(calls).arg = "err" => calls[1].arg # "ok"
    BY <1>2
  <2>3. Len(calls) # 2
    BY <2>1, <2>2
  <2>4. Len(calls) \in Nat /\ Len(calls) # 0
    BY <1>2
  <2>5. Len(calls) <= 2
    BY <2>1
  <2> DEFINE n == Len(calls)
  <2> HIDE DEF n
  <2>6. n \in Nat /\ n # 0 /\ n <= 2 /\ n # 2 => n = 1
    OBVIOUS
  <2> QED BY <2>3, <2>4, <2>5, <2>6 DEF n
<1>4. luaState = "open" /\ inflight \in Nat
  BY <1>1 DEF SessionInv, TypeOK, SessionTypeOK
<1>5. Without({"late_raise", "parallel"}) => ~orphaned /\ inflight = 0
  BY <1>1, <1>2, <1>4 DEF RequestInv, InflightInv
<1> QED BY <1>2, <1>3, <1>4, <1>5

\* The end of a run.
LEMMA CompleteRequests ==
  ASSUME TypeOK, NEW kind, Complete(kind), calls' = <<>>, UNCHANGED faults,
         Without({"late_raise", "parallel"}) => ~orphaned /\ inflight = 0
  PROVE  RequestInv'
<1>1. /\ luaState' = "none" /\ callback' = FALSE /\ inflight' = 0
      /\ orphaned' = (orphaned \/ inflight > 0)
  BY DEF Complete, CloseState
<1>2. orphaned \in BOOLEAN
  BY DEF TypeOK, SessionTypeOK
<1> QED BY <1>1, <1>2 DEF RequestInv, InflightInv, AsyncInv, Without

\* module::finally: the function is started on the state of the run.
LEMMA FinallyRequests ==
  ASSUME IInv, RequestInv, ~Idle, completion = "none", NEW kind \in {"ok", "err"},
         Head(calls).arg = "err" \/ run_stored, Finally(kind),
         fin_stored' = fin_stored
  PROVE  RequestInv'
<1>0. TypeOK /\ SessionInv
  BY DEF IInv
<1>1. PhaseStored = run_stored /\ ~fin_stored
  BY <1>0 DEF PhaseStored, SessionInv
<1>2. /\ Tail(calls) = <<>> /\ Len(calls) = 1
      /\ Without({"late_raise", "parallel"}) =>
           ~orphaned /\ inflight = 0 /\ luaState = "open"
  BY <1>1, FinalCallRequests
<1>3. CASE Complete(kind) /\ calls' = Tail(calls) /\ UNCHANGED <<registered, faults>>
  BY <1>0, <1>2, <1>3, CompleteRequests
<1>4. CASE completion' = kind /\ SyncRun("finally", callback, Tail(calls))
  <2>1. SyncRun("finally", callback, <<>>)
    BY <1>2, <1>4
  <2>2. callback \in BOOLEAN /\ budget \in Nat /\ inflight \in Nat
        /\ registered \in BOOLEAN
    BY <1>0 DEF TypeOK, SessionTypeOK
  <2>3. /\ luaState' = "open" /\ UNCHANGED <<orphaned, registered>>
        /\ \E o \in Outcomes :
             /\ Activation(o, FALSE, inflight, budget)
             /\ \/ ~o.err /\ Stored(o, callback) /\ Waits("finally", o.fin)
                \/ ~o.err /\ ~Stored(o, callback) /\ Succeeds("finally", o.fin)
                \/ o.err /\ Raises("finally", o.fin, Stored(o, callback))
    BY <2>1, <2>2, SyncRunCalls
  <2>4. PICK o \in Outcomes :
          /\ Activation(o, FALSE, inflight, budget)
          /\ \/ ~o.err /\ Stored(o, callback) /\ Waits("finally", o.fin)
             \/ ~o.err /\ ~Stored(o, callback) /\ Succeeds("finally", o.fin)
             \/ o.err /\ Raises("finally", o.fin, Stored(o, callback))
    BY <2>3
  <2>5. completion' # "none" /\ ~PhaseStored'
    BY <1>1, <1>4 DEF PhaseStored
  <2>6. faults \subseteq faults'
    BY <2>2, <2>4, FaultsAvoided
  <2>7. Without({"late_raise", "parallel"})' => ~orphaned' /\ inflight = 0
    BY <1>2, <2>3, <2>6, WithoutGrows
  <2>8. Without({"failed_call"})' /\ callback => inflight > 0
    <3>1. completion = "none"
      OBVIOUS
    <3> QED BY <2>6, <3>1, WithoutGrows DEF RequestInv, AsyncInv
  <2> QED BY <2>2, <2>3, <2>4, <2>5, <2>7, <2>8, ActivationRequests
<1> QED BY <1>3, <1>4 DEF Finally

\* run_cb and finally_cb with the last call of their phase.
LEMMA DoneRequests ==
  ASSUME IInv, RequestInv, RunCbDone \/ RunCbError \/ FinallyCbDone
  PROVE  RequestInv'
<1>0. /\ ~Idle /\ TypeOK /\ CallsInv /\ calls \in Seq(HostCalls) /\ calls # <<>>
      /\ Head(calls) = calls[1] /\ 1 \in 1..Len(calls)
  BY TypeFacts, HeadCall DEF IInv, RunCbDone, RunCbError, FinallyCbDone, Idle
<1>1. CASE RunCbDone \/ RunCbError
  <2>1. /\ Head(calls).to = "run"
        /\ Head(calls).arg = "err" \/ run_stored
        /\ fin_stored' = fin_stored
    BY <1>1 DEF RunCbDone, RunCbError, HostCall
  <2>2. completion = "none"
    BY <1>0, <2>1 DEF CallsInv, Phase
  <2> QED BY <1>0, <1>1, <2>1, <2>2, FinallyRequests DEF RunCbDone, RunCbError
<1>2. CASE FinallyCbDone
  <2>1. /\ Head(calls).to = "finally"
        /\ fin_stored \/ Head(calls).arg = "err"
        /\ Complete(completion) /\ calls' = Tail(calls) /\ UNCHANGED faults
    BY <1>2 DEF FinallyCbDone
  <2>2. completion # "none"
    BY <1>0, <2>1 DEF CallsInv, Phase
  <2>3. PhaseStored = fin_stored
    BY <2>2 DEF PhaseStored
  <2>4. /\ Tail(calls) = <<>>
        /\ Without({"late_raise", "parallel"}) => ~orphaned /\ inflight = 0
    BY <1>0, <2>1, <2>3, FinalCallRequests
  <2> QED BY <1>0, <2>1, <2>4, CompleteRequests
<1> QED BY <1>1, <1>2

\* run_cb and finally_cb with the first success of their phase.
LEMMA StoreRequests ==
  ASSUME IInv, RequestInv, RunCbStore \/ FinallyCbStore
  PROVE  RequestInv'
<1>0. /\ TypeOK /\ CallsInv /\ calls \in Seq(HostCalls) /\ calls # <<>>
  BY TypeFacts DEF IInv, RunCbStore, FinallyCbStore, Idle
<1>1. /\ Head(calls).arg = "ok" /\ calls' = Tail(calls)
      /\ UNCHANGED <<completion, luaState, callback, inflight, orphaned, faults>>
  BY DEF RunCbStore, FinallyCbStore, HostCall
<1>2. /\ Len(calls) \in Nat \ {0} /\ Head(calls) = calls[1]
      /\ Len(calls) = 1 => calls' = <<>>
      /\ Len(calls) # 1 => /\ Len(calls) = 2 /\ Len(calls') = 1 /\ calls' # <<>>
                           /\ calls'[1] = calls[2]
  <2>1. /\ Len(calls) \in Nat \ {0} /\ Head(calls) = calls[1]
        /\ Tail(calls) \in Seq(HostCalls) /\ Len(Tail(calls)) = Len(calls) - 1
        /\ \A i \in 1..Len(Tail(calls)) : Tail(calls)[i] = calls[i + 1]
        /\ Len(calls) = 1 => Tail(calls) = <<>>
    BY <1>0, HeadCall
  <2>2. Len(calls) # 1 => Len(calls) = 2
    BY <1>0, <2>1 DEF CallsInv
  <2>3. Len(<<>>) = 0
    OBVIOUS
  <2> QED BY <1>1, <2>1, <2>2, <2>3
<1>3. InflightInv'
  <2> SUFFICES ASSUME Without({"late_raise", "parallel"})'
      PROVE  /\ ~orphaned' /\ luaState' # "freed" /\ inflight' <= 1
             /\ inflight' > 0 => callback' /\ calls' = <<>>
    BY DEF InflightInv
  <2>1. Without({"late_raise", "parallel"})
    BY <1>1 DEF Without
  <2> QED BY <1>0, <1>1, <1>2, <2>1 DEF RequestInv, InflightInv
<1>4. AsyncInv'
  <2> SUFFICES ASSUME Without({"failed_call"})', callback'
      PROVE  inflight' > 0 \/ (completion' # "none" /\ calls' # <<>>
                                 /\ calls'[Len(calls')].arg = "err")
    BY DEF AsyncInv
  <2>1. Without({"failed_call"}) /\ callback
    BY <1>1 DEF Without
  <2>2. \/ inflight > 0
        \/ completion # "none" /\ calls[Len(calls)].arg = "err"
    BY <2>1 DEF RequestInv, AsyncInv
  <2> QED BY <1>1, <1>2, <2>2
<1> QED BY <1>3, <1>4 DEF RequestInv

\* The completion of a request.
LEMMA CompletionRequests ==
  ASSUME IInv, RequestInv, Completion, UNCHANGED moduleVars
  PROVE  RequestInv'
<1>0. /\ TypeOK /\ SessionInv /\ calls = <<>> /\ luaState = "open" /\ inflight > 0
      /\ PhaseStored' = PhaseStored /\ completion' = completion
  BY DEF IInv, Completion, Response, UnexpectedResponse, FailedRequest, Idle,
         PhaseStored, moduleVars
<1>1. /\ budget \in Nat /\ inflight \in Nat /\ finished \in BOOLEAN
      /\ registered \in BOOLEAN /\ orphaned \in BOOLEAN /\ PhaseStored \in BOOLEAN
  BY <1>0 DEF TypeOK, SessionTypeOK, PhaseStored
<1>2. CASE Response
  <2>1. host # "none" /\ (PhaseStored => finished)
    BY <1>0, <1>2 DEF Response, SessionInv
  <2>2. /\ UNCHANGED <<luaState, orphaned, registered>>
        /\ \E o \in Outcomes :
             /\ Activation(o, finished, inflight - 1, budget)
             /\ \/ ~o.err /\ Stored(o, FALSE) /\ Waits(host, o.fin)
                \/ ~o.err /\ ~Stored(o, FALSE) /\ Succeeds(host, o.fin)
                \/ o.err /\ Raises(host, o.fin, FALSE)
    BY <1>2, <2>1, ResponseCalls
  <2>3. PICK o \in Outcomes :
          /\ Activation(o, finished, inflight - 1, budget)
          /\ \/ ~o.err /\ Stored(o, FALSE) /\ Waits(host, o.fin)
             \/ ~o.err /\ ~Stored(o, FALSE) /\ Succeeds(host, o.fin)
             \/ o.err /\ Raises(host, o.fin, FALSE)
    BY <2>2
  <2>4. inflight - 1 \in Nat
    BY <1>0, <1>1
  <2>5. o.fin => ~PhaseStored'
    BY <1>0, <1>1, <2>1, <2>3 DEF Activation, Possible
  <2>6. Without({"late_raise", "parallel"})' => ~orphaned' /\ inflight - 1 = 0
    <3>1. faults \subseteq faults'
      BY <1>1, <2>3, <2>4, FaultsAvoided
    <3> QED BY <1>0, <1>1, <2>2, <3>1, WithoutGrows DEF RequestInv, InflightInv
  <2> QED BY <1>0, <1>1, <2>2, <2>3, <2>4, <2>5, <2>6, ActivationRequests
<1>3. CASE UnexpectedResponse \/ FailedRequest
  <2>1. inflight' = inflight - 1 /\ OnError(inflight - 1, <<>>) /\ UNCHANGED faults
    BY <1>3 DEF UnexpectedResponse, FailedRequest
  <2>2. CASE /\ host # "none" /\ callback' = FALSE
             /\ calls' = FinalQueue(host, FALSE, "err")
             /\ UNCHANGED <<luaState, host, orphaned>>
    <3>1. AsyncInv'
      BY <2>2 DEF AsyncInv
    <3>2. InflightInv'
      <4>1. Without({"late_raise", "parallel"})' => Without({"late_raise", "parallel"})
        BY <2>1 DEF Without
      <4>2. Without({"late_raise", "parallel"}) => ~orphaned /\ inflight = 1
        BY <1>0, <1>1 DEF RequestInv, InflightInv
      <4>3. /\ luaState' # "freed" /\ orphaned' = orphaned
            /\ inflight = 1 => inflight' = 0
        BY <1>0, <2>1, <2>2
      <4> QED BY <4>1, <4>2, <4>3 DEF InflightInv
    <3> QED BY <3>1, <3>2 DEF RequestInv
  <2>3. CASE /\ host = "none" /\ luaState' = "freed"
             /\ orphaned' = (orphaned \/ inflight - 1 > 0)
             /\ calls' = <<>> /\ UNCHANGED <<callback, host>>
    <3>1. ~callback /\ callback' = callback
      BY <1>0, <2>3 DEF SessionInv
    <3>2. ~Without({"late_raise", "parallel"})
      BY <1>0, <3>1 DEF RequestInv, InflightInv
    <3> QED BY <2>1, <3>1, <3>2 DEF RequestInv, InflightInv, AsyncInv, Without
  <2> QED BY <2>1, <2>2, <2>3, OnErrorCalls
<1> QED BY <1>2, <1>3 DEF Completion

\* Every step keeps the requests' side of the invariant.
LEMMA NextRequests == IInv /\ RequestInv /\ [Next]_vars => RequestInv'
<1> SUFFICES ASSUME IInv, RequestInv, [Next]_vars PROVE RequestInv'
  OBVIOUS
<1>1. CASE RunPosted \/ RunTimer
  BY <1>1, RunRequests
<1>2. CASE RunCbStore \/ FinallyCbStore
  BY <1>2, StoreRequests
<1>3. CASE RunCbDone \/ RunCbError \/ FinallyCbDone
  BY <1>3, DoneRequests
<1>4. CASE RequestDone
  BY <1>4, CompletionRequests DEF RequestDone
<1>5. CASE StartOff \/ StartStopRun \/ Stop \/ Shutdown \/ TimerExpires \/ UNCHANGED vars
  <2>1. UNCHANGED <<run_stored, fin_stored, completion, luaState, callback, inflight,
                    calls, orphaned, faults>>
    BY <1>5 DEF StartOff, StartStopRun, Stop, Shutdown, TimerExpires, sessionVars,
       moduleVars, vars
  <2> QED BY <2>1 DEF RequestInv, InflightInv, AsyncInv, Without, PhaseStored
<1> QED BY <1>1, <1>2, <1>3, <1>4, <1>5 DEF Next, HostCallback

(***************************************************************************)
(* The requests of a run: each belongs to the state that is open and to    *)
(* the callback that is set, for every script that avoids the faults named *)
(* in InflightInv and AsyncInv.                                            *)
(***************************************************************************)
THEOREM RequestsHold == Spec => []RequestInv
<1>1. Init => RequestInv
  BY DEF Init, Constructed, SessionInit, RequestInv, InflightInv, AsyncInv
<1>2. IInv /\ RequestInv /\ [Next]_vars => RequestInv'
  BY NextRequests
<1> QED BY <1>1, <1>2, InvariantHolds, PTL DEF Spec

\* No request outlives the lua_State its completion handler points to, and no
\* state is closed under its wrapper (on_req_finish, on_error, state_wrapper).
THEOREM NoUseAfterCloseHolds == Spec => []NoUseAfterClose
<1>1. RequestInv => NoUseAfterClose
  BY DEF RequestInv, InflightInv, NoUseAfterClose
<1> QED BY <1>1, RequestsHold, PTL

\* BOT_CALLBACK is not left set with nothing to call it (finalize_if_last_async).
THEOREM AsyncWillFinishHolds == Spec => []AsyncWillFinish
<1>1. RequestInv => AsyncWillFinish
  BY DEF RequestInv, AsyncInv, AsyncWillFinish, PendingIsInFlight, Idle
<1> QED BY <1>1, RequestsHold, PTL

=============================================================================
