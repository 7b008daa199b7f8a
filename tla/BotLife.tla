------------------------------ MODULE BotLife -------------------------------
(***************************************************************************)
(* One bot from init to shutdown: its login (BotLogin) and one module of   *)
(* its package (BotModule), which exists from the login's success to the   *)
(* shutdown.  The two meet in bot::load_modules, which makes the module    *)
(* and posts the commands of the stored configuration, in bot::shutdown,   *)
(* in the entry of bots_ (registered) and in the io_service thread: while  *)
(* a handler of one is being executed nothing of the other is.             *)
(*                                                                         *)
(* The variables of the two Lua states have the prefixes l_ and m_, the    *)
(* others the names they have in the two modules.                          *)
(***************************************************************************)
EXTENDS Naturals, Sequences, Functions

CONSTANT MaxRequests   \* bound: HTTP calls one script run makes

ASSUME MaxRequestsAssumption == MaxRequests \in Nat \ {0}

VARIABLES
  registered,    \* the bot is in bots_
  loaded,        \* the module is in modules_
  configured,    \* the stored configuration says the module is active
  replay,        \* the posted handler that executes the stored command
  called, answers, login, stored, logged_in, checking, proxy_active,
  interfered,
  l_luaState, l_callback, l_finished, l_host, l_inflight, l_budget, l_calls,
  l_orphaned, l_faults,
  module_state, posted, timer, active, run_stored, fin_stored, result,
  completion,
  m_luaState, m_callback, m_finished, m_host, m_inflight, m_budget, m_calls,
  m_orphaned, m_faults

L == INSTANCE BotLogin WITH
       luaState <- l_luaState, callback <- l_callback,
       finished <- l_finished, host <- l_host, inflight <- l_inflight,
       budget <- l_budget, calls <- l_calls, orphaned <- l_orphaned,
       faults <- l_faults

M == INSTANCE BotModule WITH
       luaState <- m_luaState, callback <- m_callback,
       finished <- m_finished, host <- m_host, inflight <- m_inflight,
       budget <- m_budget, calls <- m_calls, orphaned <- m_orphaned,
       faults <- m_faults, attached <- loaded

\* What only the login and what only the module changes.
loginVars == <<called, answers, login, stored, logged_in, checking,
               proxy_active, interfered, l_luaState, l_callback, l_finished,
               l_host, l_inflight, l_budget, l_calls, l_orphaned, l_faults>>
moduleVars == <<module_state, posted, timer, active, run_stored, fin_stored,
                result, completion, m_luaState, m_callback, m_finished,
                m_host, m_inflight, m_budget, m_calls, m_orphaned, m_faults>>
vars == <<registered, loaded, configured, replay, loginVars, moduleVars>>

Init ==
  /\ L!Init
  /\ M!Constructed
  /\ configured \in BOOLEAN
  /\ replay = FALSE

-----------------------------------------------------------------------------
\* Mutant of Replayed: the commands are not passed on.
ReplayedNever == replay' = replay

\* bot::load_modules, called by the login that succeeds: the module has been
\* constructed, the commands are posted.
Replayed == replay' = (replay \/ (loaded' /\ ~loaded /\ configured))

\* A handler of the login, step being what BotLogin says of it.
LoginStep(step) ==
  /\ M!Idle
  /\ step
  /\ Replayed
  /\ UNCHANGED <<configured, moduleVars>>

\* A handler of the module or a command for it.
ModuleStep(step) ==
  /\ L!Idle
  /\ step
  /\ UNCHANGED <<configured, replay, loginVars>>

InitCalled == LoginStep(L!InitLogin \/ L!InitCheck)
SetProxy == LoginStep(L!SetProxy)
CheckDone == LoginStep(L!CheckDone)
HandleLogin == LoginStep(L!HandleLogin)
LoginRequestDone == LoginStep(L!RequestDone)

\* The posted command of the stored configuration: it may find the module
\* started by another command, or gone.
Replay ==
  /\ L!Idle /\ M!Idle
  /\ replay
  /\ replay' = FALSE
  /\ \/ M!StartOff \/ M!StartStopRun
     \/ /\ ~loaded \/ module_state \notin {"OFF", "STOP_RUN"}
        /\ UNCHANGED <<registered, loaded, moduleVars>>
  /\ UNCHANGED <<configured, loginVars>>

StartCommand == ModuleStep(M!StartOff \/ M!StartStopRun)
StopCommand == ModuleStep(M!Stop)

\* The handlers posted by a command are queued behind Replay.
RunModule == ~replay /\ ModuleStep(M!RunPosted \/ M!RunTimer)
TimerExpires == ModuleStep(M!TimerExpires)
HostCallback == ModuleStep(M!HostCallback)
ModuleRequestDone == ModuleStep(M!RequestDone)

\* bot::shutdown.
Shutdown ==
  /\ M!Idle
  /\ L!Shutdown
  /\ \/ loaded /\ M!Shutdown
     \/ ~loaded /\ UNCHANGED moduleVars
  /\ UNCHANGED <<configured, replay>>

Next == \/ InitCalled \/ SetProxy \/ CheckDone \/ HandleLogin
        \/ LoginRequestDone
        \/ Replay \/ StartCommand \/ StopCommand \/ RunModule \/ TimerExpires
        \/ HostCallback \/ ModuleRequestDone
        \/ Shutdown

\* io_service.run() executes the handlers in the order they were queued in,
\* requests and checks end; commands need not come.  Fairness is strong where a
\* handler of the other side, which BotLogin and BotModule split, interrupts.
Fairness ==
  /\ SF_vars(CheckDone)
  /\ WF_vars(HandleLogin)
  /\ SF_vars(LoginRequestDone)
  /\ SF_vars(Replay)
  /\ SF_vars(RunModule)
  /\ SF_vars(TimerExpires)
  /\ WF_vars(HostCallback)
  /\ SF_vars(ModuleRequestDone)

\* A client that lets init answer before it shuts the bot down.
Patient == L!InitPending => registered' = registered

\* Scripts that commit no fault; BotLogin and BotModule have the others.
Sound == l_faults' = {} /\ m_faults' = {}

Spec == Init /\ [][Next /\ Patient /\ Sound]_vars /\ Fairness

-----------------------------------------------------------------------------
(***************************************************************************)
(* Login, loading, replay, module and shutdown together are the loop of    *)
(* ModuleLoop: a module joins its bot once, by the login of init, it is    *)
(* run only from then on, and a login that ends after the shutdown (of     *)
(* base_set_proxy) brings nothing back.                                    *)
(***************************************************************************)
Loop == INSTANCE ModuleLoop WITH
  on <- active = "1",
  script <- IF m_luaState = "none" THEN "none" ELSE "running",
  member <- IF loaded THEN "in" ELSE IF registered THEN "loading" ELSE "gone"

ImplementsLoop == Loop!Spec

\* Its safety half.
KeepsLoop == Loop!Init /\ [][Loop!Next]_(Loop!vars)

(***************************************************************************)
(* A module that the stored configuration says is active is switched on    *)
(* again, however many tries the login of init takes and whatever happens  *)
(* to the proxies meanwhile - unless the login fails, a proxy change takes *)
(* its callback away or the bot is shut down.                              *)
(***************************************************************************)
ConfiguredResumes ==
  L!InitPending /\ configured
    ~> \/ active = "1"
       \/ "err" \in Range(answers)
       \/ interfered \/ ~registered

-----------------------------------------------------------------------------
(***************************************************************************)
(* The inductive invariant the proofs use (BotLifeProofs): those of the    *)
(* two sides, and what the one that loads the module must know to hand it  *)
(* over registered.                                                        *)
(***************************************************************************)
IInv ==
  /\ L!IInv
  /\ M!IInv
  /\ answers = <<>> => registered

=============================================================================
