----------------------------- MODULE ScriptHost -----------------------------
(***************************************************************************)
(* A host that starts one script and follows the documentation of          *)
(* on_finish_cb: it keeps the calls it gets and closes the state with the  *)
(* last one.  It shows that LuaSession implements the contract             *)
(* (OnFinishContract): its safety whatever a script does, and that the     *)
(* sequence is completed as long as no script commits a fault.             *)
(***************************************************************************)
EXTENDS LuaSession

VARIABLE seen

vars == <<sessionVars, seen>>

Contract == INSTANCE OnFinishContract

Init ==
  /\ SessionInit
  /\ registered = TRUE
  /\ seen = <<>>

\* login() / module_run() on a fresh state_wrapper.
Start ==
  /\ Idle /\ luaState = "none" /\ seen = <<>>
  /\ SyncRun("host", FALSE, <<>>)
  /\ UNCHANGED seen

\* The host's callback is called; it drops the wrapper with the last call.
TakeCall ==
  /\ ~Idle
  /\ seen' = Append(seen, Head(calls).arg)
  /\ calls' = Tail(calls)
  /\ \/ /\ seen' \in Contract!Legal
        /\ CloseState
     \/ /\ seen' \notin Contract!Legal
        /\ UNCHANGED <<luaState, callback, finished, host, inflight, budget,
                       orphaned>>
  /\ UNCHANGED <<registered, faults>>

\* The bot is shut down while the script is being executed.
Shutdown ==
  /\ Idle /\ registered
  /\ Deregister
  /\ UNCHANGED <<luaState, callback, finished, host, inflight, budget, calls,
                 orphaned, faults, seen>>

RequestDone == Completion /\ UNCHANGED seen

Next == Start \/ TakeCall \/ Shutdown \/ RequestDone

\* io_service.run() executes what is queued and every request completes, by a
\* response or by the timeout of its last retry.
Fairness ==
  /\ WF_vars(Start)
  /\ WF_vars(TakeCall)
  /\ WF_vars(RequestDone)

Spec == Init /\ [][Next]_vars /\ Fairness

-----------------------------------------------------------------------------
\* The safety half of the contract of on_finish_cb, kept whatever a script does:
\* no call that the documentation does not list, none after the state has been
\* closed.
KeepsContract == Contract!Init /\ [][Contract!Next]_seen

\* Its liveness half ("the function is called 2x", lua_connection.h): the sequence
\* is completed, and the state closed, unless the script commits a fault.
CompletesContract == <>(faults # {}) \/ WF_seen(Contract!Next)

-----------------------------------------------------------------------------
(***************************************************************************)
(* The inductive invariant the proofs use (ScriptHostProofs): the types,   *)
(* which calls may still be queued behind those the host has handled, and  *)
(* what the globals of the Lua state say about them.                       *)
(***************************************************************************)
TypeOK ==
  /\ SessionTypeOK({"host"})
  /\ seen \in Contract!Legal \cup {<<>>, <<"ok">>}

Ok == HostCall("host", "ok")
Err == HostCall("host", "err")

\* What is queued completes what has been handled, or waits for one more event.
QueueFits ==
  /\ seen = <<>> => calls \in {<<>>, <<Ok>>, <<Err>>, <<Ok, Ok>>, <<Ok, Err>>}
  /\ seen = <<"ok">> => calls \in {<<>>, <<Ok>>, <<Err>>}
  /\ seen \in Contract!Legal => calls = <<>> /\ luaState = "none"

\* Only a script that has called on_finish is waited for after its first call.
SessionFits ==
  /\ luaState = "none" => calls = <<>> /\ ~callback /\ inflight = 0
  /\ luaState = "freed" => calls = <<>>
  /\ callback => host = "host"
  /\ host = "host" /\ (seen = <<"ok">> \/ (calls # <<>> /\ Head(calls) = Ok))
       => finished

IInv == TypeOK /\ QueueFits /\ SessionFits

=============================================================================
