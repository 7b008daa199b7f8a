------------------------------ MODULE BotModule ------------------------------
(***************************************************************************)
(* One module of a bot (src/src/module.cc): the state machine OFF, RUN,    *)
(* STOP_RUN, WAIT that is driven by the start and stop commands, by the    *)
(* wait timer and by the script executing in its Lua state (LuaSession).   *)
(* A run is run_<module>() followed by finally_<module>(), if the script   *)
(* defines it, on the same state.                                          *)
(*                                                                         *)
(* The commands arrive through bot::execute, which posts them, so that     *)
(* every action below is a handler of the io_service thread (or the part   *)
(* of one up to the next call of on_finish_cb, see LuaSession).  Commands  *)
(* that find nothing to do only call refresh_status and are left out, and  *)
(* so are the other status variables of the module.                        *)
(***************************************************************************)
EXTENDS LuaSession

VARIABLES
  module_state,  \* module_state_
  posted,        \* module::run handlers posted by execute, not yet executed
  timer,         \* timer_: "none", "armed", "ready" (run handler is queued)
  active,        \* <module>_active in the bot's configuration ("unset": no such key)
  attached,      \* the module is in bot::modules_: commands reach it
  run_stored,    \* run_result_stored_
  fin_stored,    \* finally_result_stored_
  result,        \* wait_min_/wait_max_: "none" (stale), "off" or "sleep"
  completion     \* the callback bound in finally_callback_: "none"/"ok"/"err"

moduleVars == <<module_state, posted, timer, active, attached, run_stored,
                fin_stored, result, completion>>
vars == <<moduleVars, sessionVars>>

Stopped == module_state \in {"OFF", "STOP_RUN"}

\* module::module: loaded in state OFF.
Constructed ==
  /\ SessionInit
  /\ module_state = "OFF"
  /\ posted = 0
  /\ timer = "none"
  /\ active = "0"
  /\ run_stored = FALSE
  /\ fin_stored = FALSE
  /\ result = "none"
  /\ completion = "none"

\* The modules of a bot that is registered and has just loaded them.
Init ==
  /\ Constructed
  /\ registered = TRUE
  /\ attached = TRUE

-----------------------------------------------------------------------------
\* execute("<module>_set_active", "1") in state OFF.
StartOff ==
  /\ Idle /\ attached
  /\ module_state = "OFF"
  /\ module_state' = "RUN"
  /\ posted' = posted + 1
  /\ active' = "1"
  /\ UNCHANGED <<timer, attached, run_stored, fin_stored, result, completion,
                 sessionVars>>

\* execute(..., "1") in state STOP_RUN: the stop is taken back.
StartStopRun ==
  /\ Idle /\ attached
  /\ module_state = "STOP_RUN"
  /\ module_state' = "RUN"
  /\ active' = "1"
  /\ UNCHANGED <<posted, timer, attached, run_stored, fin_stored, result,
                 completion, sessionVars>>

\* Mutant of Cancelled: the cancelled wait does not call its handler.
CancelledSilently == IF timer = "armed" THEN "none" ELSE timer

\* What cancel() leaves of the timer: its handler runs with an error code, or
\* was queued already; module::run ignores the code.
Cancelled == IF timer = "armed" THEN "ready" ELSE timer

\* Mutant of StopCommand: a waiting module goes to OFF at once.
StopCommandToOff ==
  \/ /\ module_state = "WAIT"
     /\ timer' = Cancelled
     /\ module_state' = "OFF"
  \/ /\ module_state = "RUN"
     /\ module_state' = "STOP_RUN"
     /\ UNCHANGED timer

\* The stop case of execute.
StopCommand ==
  \/ /\ module_state = "WAIT"
     /\ timer' = Cancelled
     /\ module_state' = "STOP_RUN"
  \/ /\ module_state = "RUN"
     /\ module_state' = "STOP_RUN"
     /\ UNCHANGED timer

\* execute(..., "0") in state WAIT or RUN.
Stop ==
  /\ Idle /\ attached
  /\ StopCommand
  /\ active' = "0"
  /\ UNCHANGED <<posted, attached, run_stored, fin_stored, result, completion,
                 sessionVars>>

\* Mutant of Shutdown: the modules are dropped without having been stopped.
ShutdownNoStop ==
  /\ Idle /\ attached
  /\ Deregister
  /\ attached' = FALSE
  /\ active' = "unset"
  /\ UNCHANGED <<module_state, timer, posted, run_stored, fin_stored, result,
                 completion, luaState, callback, finished, host, inflight,
                 budget, calls, orphaned, faults>>

\* bot::shutdown: the configuration is replaced by an empty one, the bot is
\* removed from bots_, the modules are stopped and dropped.
Shutdown ==
  /\ Idle /\ attached
  /\ Deregister
  /\ attached' = FALSE
  /\ \/ /\ StopCommand
        /\ active' = "0"
     \/ /\ Stopped
        /\ active' = "unset"
        /\ UNCHANGED <<module_state, timer>>
  /\ UNCHANGED <<posted, run_stored, fin_stored, result, completion,
                 luaState, callback, finished, host, inflight, budget, calls,
                 orphaned, faults>>

-----------------------------------------------------------------------------
\* Mutant of Run: the state is not looked at.
RunAlways ==
  /\ module_state' = "RUN"
  /\ SyncRun("run", FALSE, <<>>)

\* module::run: a stopped module goes to OFF, another one starts its script on
\* a new Lua state.
Run ==
  \/ /\ Stopped
     /\ module_state' = "OFF"
     /\ UNCHANGED sessionVars
  \/ /\ ~Stopped
     /\ module_state' = "RUN"
     /\ SyncRun("run", FALSE, <<>>)

\* The handler posted by execute.
RunPosted ==
  /\ Idle /\ posted > 0
  /\ posted' = posted - 1
  /\ Run
  /\ UNCHANGED <<timer, active, attached, run_stored, fin_stored, result,
                 completion>>

\* The handler of the wait timer, expired or cancelled.
RunTimer ==
  /\ Idle /\ timer = "ready"
  /\ timer' = "none"
  /\ Run
  /\ UNCHANGED <<posted, active, attached, run_stored, fin_stored, result,
                 completion>>

TimerExpires ==
  /\ Idle /\ timer = "armed"
  /\ timer' = "ready"
  /\ UNCHANGED <<module_state, posted, active, attached, run_stored,
                 fin_stored, result, completion, sessionVars>>

-----------------------------------------------------------------------------
\* Mutants of Finished: the status is not reset; the timer is not armed.
FinishedStaysActive(kind) ==
  /\ UNCHANGED active
  /\ \/ /\ kind = "ok" /\ result = "off"
        /\ module_state' = "OFF"
        /\ UNCHANGED timer
     \/ /\ kind = "err" \/ result # "off"
        /\ module_state' = "WAIT"
        /\ timer' = "armed"
FinishedNoTimer(kind) ==
  /\ module_state' = "WAIT"
  /\ UNCHANGED <<timer, active>>

\* What the run ends with when the script has not been stopped meanwhile: a
\* run whose on_finish(-1, -1) asked for it switches the module off, any other
\* one arms the timer for the next run.
Finished(kind) ==
  \/ /\ kind = "ok" /\ result = "off"
     /\ module_state' = "OFF"
     /\ active' = "0"
     /\ UNCHANGED timer
  \/ /\ kind = "err" \/ result # "off"
     /\ module_state' = "WAIT"
     /\ timer' = "armed"
     /\ UNCHANGED active

\* The two lambdas of run_cb.  run_callback_ = nullptr drops the wrapper.
Complete(kind) ==
  /\ run_stored' = FALSE
  /\ completion' = "none"
  /\ CloseState
  /\ \/ /\ Stopped
        /\ module_state' = "OFF"
        /\ UNCHANGED <<active, timer>>
     \/ /\ ~Stopped
        /\ Finished(kind)

\* Mutant of Finally: finally_<module> reports to run_cb.
FinallyReportsToRun(kind) ==
  /\ completion' = kind
  /\ SyncRun("run", callback, Tail(calls))
  /\ UNCHANGED <<module_state, timer, active, run_stored>>

\* module::finally: the function is called if the script defines it.
Finally(kind) ==
  \/ /\ completion' = kind
     /\ SyncRun("finally", callback, Tail(calls))
     /\ UNCHANGED <<module_state, timer, active, run_stored>>
  \/ /\ Complete(kind)
     /\ calls' = Tail(calls)
     /\ UNCHANGED <<registered, faults>>

\* run_cb(""), first call: the wait times are read from the Lua stack.
RunCbStore ==
  /\ ~Idle /\ Head(calls) = HostCall("run", "ok")
  /\ ~run_stored
  /\ run_stored' = TRUE
  /\ result' \in {"off", "sleep"}
  /\ calls' = Tail(calls)
  /\ UNCHANGED <<module_state, posted, timer, active, attached, fin_stored,
                 completion, luaState, callback, finished, host, inflight,
                 budget, orphaned, registered, faults>>

\* run_cb(""), second call.
RunCbDone ==
  /\ ~Idle /\ Head(calls) = HostCall("run", "ok")
  /\ run_stored
  /\ Finally("ok")
  /\ UNCHANGED <<posted, attached, fin_stored, result>>

\* run_cb(error).
RunCbError ==
  /\ ~Idle /\ Head(calls) = HostCall("run", "err")
  /\ Finally("err")
  /\ UNCHANGED <<posted, attached, fin_stored, result>>

\* finally_cb(""), first call.
FinallyCbStore ==
  /\ ~Idle /\ Head(calls) = HostCall("finally", "ok")
  /\ ~fin_stored
  /\ fin_stored' = TRUE
  /\ calls' = Tail(calls)
  /\ UNCHANGED <<module_state, posted, timer, active, attached, run_stored,
                 result, completion, luaState, callback, finished, host,
                 inflight, budget, orphaned, registered, faults>>

\* finally_cb(""), second call, or finally_cb(error): the bound lambda of
\* run_cb is called.
FinallyCbDone ==
  /\ ~Idle /\ Head(calls).to = "finally"
  /\ fin_stored \/ Head(calls).arg = "err"
  /\ fin_stored' = FALSE
  /\ Complete(completion)
  /\ calls' = Tail(calls)
  /\ UNCHANGED <<posted, attached, result, registered, faults>>

RequestDone == Completion /\ UNCHANGED moduleVars

-----------------------------------------------------------------------------
HostCallback == \/ RunCbStore \/ RunCbDone \/ RunCbError
                \/ FinallyCbStore \/ FinallyCbDone

Next == \/ StartOff \/ StartStopRun \/ Stop \/ Shutdown
        \/ RunPosted \/ RunTimer \/ TimerExpires
        \/ HostCallback \/ RequestDone

\* io_service.run() executes queued handlers, the timer expires, a request
\* completes (by a response or the timeout of its last try).  Commands need
\* not come.
Fairness ==
  /\ WF_vars(RunPosted)
  /\ WF_vars(RunTimer)
  /\ WF_vars(TimerExpires)
  /\ WF_vars(HostCallback)
  /\ WF_vars(RequestDone)

Spec == Init /\ [][Next]_vars /\ Fairness

-----------------------------------------------------------------------------
TypeOK ==
  /\ SessionTypeOK({"run", "finally"})
  /\ module_state \in {"OFF", "RUN", "STOP_RUN", "WAIT"}
  /\ posted \in Nat
  /\ timer \in {"none", "armed", "ready"}
  /\ active \in {"1", "0", "unset"}
  /\ attached \in BOOLEAN
  /\ run_stored \in BOOLEAN
  /\ fin_stored \in BOOLEAN
  /\ result \in {"none", "off", "sleep"}
  /\ completion \in {"none", "ok", "err"}

\* What can still take the module to another state by itself: a posted run
\* handler, the timer, a script being executed.
Pending == posted + (IF timer = "none" THEN 0 ELSE 1)
                  + (IF luaState = "none" THEN 0 ELSE 1)

(***************************************************************************)
(* A module never runs twice at a time and is never left without a         *)
(* successor: exactly one of handler, timer and script is outstanding      *)
(* unless it is OFF, and then none is, whatever commands interleave with   *)
(* the run (start after stop after start ...) and whatever scripts do.     *)
(***************************************************************************)
OneActivity ==
  /\ Pending = IF module_state = "OFF" THEN 0 ELSE 1
  /\ module_state = "WAIT" => timer # "none"

(***************************************************************************)
(* The configuration says active = "1" exactly while the module runs or    *)
(* waits, so that init_command_sequence of a stored configuration restarts *)
(* the modules that were active: module_state_ and the status are written  *)
(* by different statements of execute, run_cb and shutdown.                *)
(***************************************************************************)
ActiveMatchesState == active = "1" <=> ~Stopped

(***************************************************************************)
(* A script is started only for a module that is active and still belongs  *)
(* to its bot: no handler that was queued before a stop or a shutdown      *)
(* starts one after it.                                                    *)
(***************************************************************************)
StartsOnlyActive ==
  [][luaState = "none" /\ luaState' # "none"
       => active = "1" /\ attached /\ registered]_vars

(***************************************************************************)
(* The finally function belongs to one run: once it has been called, a     *)
(* late response or error of the run phase does not call run_cb (and with  *)
(* it finally) again.                                                      *)
(***************************************************************************)
FinallyOnce ==
  [][completion # "none" => completion' \in {completion, "none"}
                            /\ (completion' = "none" => luaState' = "none")]_vars

\* A stop takes effect: the module reaches OFF unless it is started again
\* (execute, STOP_RUN), whatever it was doing when the command came.
StopCompletes ==
  active # "1" ~> (module_state = "OFF" \/ active = "1" \/ faults # {})

\* Every run of a script that commits no fault ends: the Lua state is closed.
RunCompletes == luaState # "none" ~> (luaState = "none" \/ faults # {})

(***************************************************************************)
(* The state machine, the timer, the posted handlers and the callbacks     *)
(* together are the loop of ModuleLoop: an active module is run again      *)
(* after every wait until it is stopped, never twice at a time, and not    *)
(* any more once its bot has been shut down.                               *)
(***************************************************************************)
Loop == INSTANCE ModuleLoop WITH
  on <- active = "1",
  script <- IF luaState = "none" THEN "none" ELSE "running",
  member <- IF attached THEN "in" ELSE "gone"

ImplementsLoop == Loop!Spec

\* Its safety half.
KeepsLoop == Loop!Init /\ [][Loop!Next]_(Loop!vars)

\* After bot::shutdown the module comes to rest for good.
ShutdownQuiesces ==
  ~attached ~> ([](module_state = "OFF" /\ Pending = 0) \/ faults # {})

-----------------------------------------------------------------------------
(***************************************************************************)
(* The inductive invariant the proofs use (BotModuleProofs).               *)
(***************************************************************************)
Phase == IF completion = "none" THEN "run" ELSE "finally"

\* The result of the phase that is executing has been stored.
PhaseStored == IF completion = "none" THEN run_stored ELSE fin_stored

\* The module's side: the loop, the status and the registration.
LoopInv ==
  /\ OneActivity
  /\ ActiveMatchesState
  /\ attached => registered
  /\ ~attached => Stopped

\* The Lua state's side: what its globals say about the phase.
SessionInv ==
  /\ luaState = "none" =>
       /\ calls = <<>> /\ ~callback /\ host = "none"
       /\ ~run_stored /\ ~fin_stored /\ completion = "none"
       /\ inflight = 0
  /\ luaState = "freed" => calls = <<>>
  /\ callback => host # "none"
  /\ host # "none" => host = Phase
  /\ completion = "none" => ~fin_stored
  /\ PhaseStored /\ host # "none" => finished

\* The calls between the two: at most on_finish and the final one, all of the
\* current phase, and a stored result makes the next call the last.
CallsInv ==
  /\ Len(calls) <= 2
  /\ \A i \in 1..Len(calls) : calls[i].to = Phase
  /\ Len(calls) = 2 => calls[1].arg = "ok" /\ ~PhaseStored
  /\ calls # <<>> /\ calls[1].arg = "ok" => finished \/ host = "none"

(***************************************************************************)
(* Whatever scripts do, the handlers of one run cannot get out of step:    *)
(* run_cb and finally_cb are called in the order and as often as their     *)
(* stored flags expect, and the state is not closed before the handler     *)
(* that executes it has made its last call.                                *)
(***************************************************************************)
IInv == TypeOK /\ LoopInv /\ SessionInv /\ CallsInv

\* A script that starts one request at a time, and raises before it starts one,
\* has none in flight once the last call of its phase is queued.
InflightInv ==
  Without({"late_raise", "parallel"}) =>
    /\ ~orphaned /\ luaState # "freed"
    /\ inflight <= 1
    /\ inflight > 0 =>
         /\ callback
         /\ calls = <<>> \/ (Len(calls) = 1 /\ calls[1].arg = "ok" /\ ~PhaseStored)

\* A callback that is set has a request that will call it, or the error of the
\* finally function (of a bot that is gone) is about to close the state.
AsyncInv ==
  Without({"failed_call"}) /\ callback =>
    \/ inflight > 0
    \/ completion # "none" /\ calls # <<>> /\ calls[Len(calls)].arg = "err"

(***************************************************************************)
(* What the requests of a run add to the invariant: each belongs to the    *)
(* state that is open and to the callback that is set.                     *)
(***************************************************************************)
RequestInv == InflightInv /\ AsyncInv

=============================================================================
