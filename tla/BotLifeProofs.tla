---------------------------- MODULE BotLifeProofs ----------------------------
(***************************************************************************)
(* The proofs of BotLife: what holds of the login and of the module alone  *)
(* holds of the two together, and together they are the loop of            *)
(* ModuleLoop, from the loading of the module on.                          *)
(***************************************************************************)
EXTENDS BotLife, TLAPS

LP == INSTANCE BotLoginProofs WITH
        luaState <- l_luaState, callback <- l_callback,
        finished <- l_finished, host <- l_host, inflight <- l_inflight,
        budget <- l_budget, calls <- l_calls, orphaned <- l_orphaned,
        faults <- l_faults

MP == INSTANCE BotModuleProofs WITH
        luaState <- m_luaState, callback <- m_callback,
        finished <- m_finished, host <- m_host, inflight <- m_inflight,
        budget <- m_budget, calls <- m_calls, orphaned <- m_orphaned,
        faults <- m_faults, attached <- loaded

\* The instance of BotLogin that BotLife takes and the one of its proofs are the
\* same formulas.
LEMMA SameLogin ==
  /\ L!Init = LP!Init
  /\ L!Next = LP!Next
  /\ L!vars = LP!vars
  /\ L!vars' = LP!vars'
  /\ L!InitPending = LP!InitPending
  /\ L!InitLogin = LP!InitLogin
  /\ L!InitCheck = LP!InitCheck
  /\ L!SetProxy = LP!SetProxy
  /\ L!CheckDone = LP!CheckDone
  /\ L!HandleLogin = LP!HandleLogin
  /\ L!RequestDone = LP!RequestDone
  /\ L!IInv = LP!IInv
  /\ L!IInv' = LP!IInv'
BY DEF
   L!FaultKinds, L!sessionVars, L!Idle, L!HostCall, L!Outcomes, L!Possible,
   L!Misdeeds, L!Stored, L!FinishCall, L!Activation, L!Finalize, L!Raise,
   L!OnError, L!Conclude, L!ReplaceRun, L!Response, L!UnexpectedResponse,
   L!FailedRequest, L!Completion, L!CloseState, L!Deregister, L!SessionInit,
   L!SessionTypeOK, L!Without, L!loginVars, L!vars, L!Login, L!NoLogin,
   L!InitPending, L!Init, L!Bind, L!InitLogin, L!InitCheck, L!SetProxy,
   L!CheckFailed, L!CheckPassed, L!Shutdown, L!Retry, L!Answer, L!GiveUp,
   L!LoginError, L!LoginStore, L!LoginDone, L!HandleLogin, L!RequestDone,
   L!CheckDone, L!Next, L!TypeOK, L!ProxyFlagMatches, L!AnswerInv, L!Ok,
   L!Err, L!QueueInv, L!GlobalsInv, L!ResultInv, L!InflightInv, L!SessionInv,
   L!IInv, LP!FaultKinds, LP!sessionVars, LP!Idle, LP!HostCall, LP!Outcomes,
   LP!Possible, LP!Misdeeds, LP!Stored, LP!FinishCall, LP!Activation,
   LP!Finalize, LP!Raise, LP!OnError, LP!Conclude, LP!ReplaceRun, LP!Response,
   LP!UnexpectedResponse, LP!FailedRequest, LP!Completion, LP!CloseState,
   LP!Deregister, LP!SessionInit, LP!SessionTypeOK, LP!Without, LP!loginVars,
   LP!vars, LP!Login, LP!NoLogin, LP!InitPending, LP!Init, LP!Bind,
   LP!InitLogin, LP!InitCheck, LP!SetProxy, LP!CheckFailed, LP!CheckPassed,
   LP!Shutdown, LP!Retry, LP!Answer, LP!GiveUp, LP!LoginError, LP!LoginStore,
   LP!LoginDone, LP!HandleLogin, LP!RequestDone, LP!CheckDone, LP!Next,
   LP!TypeOK, LP!ProxyFlagMatches, LP!AnswerInv, LP!Ok, LP!Err, LP!QueueInv,
   LP!GlobalsInv, LP!ResultInv, LP!InflightInv, LP!SessionInv, LP!IInv

\* So are those of BotModule.
LEMMA SameModule ==
  /\ M!Constructed = MP!Constructed
  /\ M!Next = MP!Next
  /\ M!vars = MP!vars
  /\ M!vars' = MP!vars'
  /\ M!StartOff = MP!StartOff
  /\ M!StartStopRun = MP!StartStopRun
  /\ M!Stop = MP!Stop
  /\ M!RunPosted = MP!RunPosted
  /\ M!RunTimer = MP!RunTimer
  /\ M!TimerExpires = MP!TimerExpires
  /\ M!HostCallback = MP!HostCallback
  /\ M!RequestDone = MP!RequestDone
  /\ M!IInv = MP!IInv
  /\ M!IInv' = MP!IInv'
BY DEF
   M!FaultKinds, M!sessionVars, M!Idle, M!HostCall, M!Outcomes, M!Possible,
   M!Misdeeds, M!Stored, M!FinishCall, M!Activation, M!Finalize, M!Raise,
   M!OnError, M!Conclude, M!SyncRun, M!Response, M!UnexpectedResponse,
   M!FailedRequest, M!Completion, M!CloseState, M!Deregister, M!SessionInit,
   M!SessionTypeOK, M!moduleVars, M!vars, M!Stopped, M!Constructed,
   M!StartOff, M!StartStopRun, M!Cancelled, M!StopCommand, M!Stop, M!Shutdown,
   M!Run, M!RunPosted, M!RunTimer, M!TimerExpires, M!Finished, M!Complete,
   M!Finally, M!RunCbStore, M!RunCbDone, M!RunCbError, M!FinallyCbStore,
   M!FinallyCbDone, M!RequestDone, M!HostCallback, M!Next, M!TypeOK,
   M!Pending, M!OneActivity, M!ActiveMatchesState, M!Phase, M!PhaseStored,
   M!LoopInv, M!SessionInv, M!CallsInv, M!IInv, MP!FaultKinds, MP!sessionVars,
   MP!Idle, MP!HostCall, MP!Outcomes, MP!Possible, MP!Misdeeds, MP!Stored,
   MP!FinishCall, MP!Activation, MP!Finalize, MP!Raise, MP!OnError,
   MP!Conclude, MP!SyncRun, MP!Response, MP!UnexpectedResponse,
   MP!FailedRequest, MP!Completion, MP!CloseState, MP!Deregister,
   MP!SessionInit, MP!SessionTypeOK, MP!moduleVars, MP!vars, MP!Stopped,
   MP!Constructed, MP!StartOff, MP!StartStopRun, MP!Cancelled, MP!StopCommand,
   MP!Stop, MP!Shutdown, MP!Run, MP!RunPosted, MP!RunTimer, MP!TimerExpires,
   MP!Finished, MP!Complete, MP!Finally, MP!RunCbStore, MP!RunCbDone,
   MP!RunCbError, MP!FinallyCbStore, MP!FinallyCbDone, MP!RequestDone,
   MP!HostCallback, MP!Next, MP!TypeOK, MP!Pending, MP!OneActivity,
   MP!ActiveMatchesState, MP!Phase, MP!PhaseStored, MP!LoopInv, MP!SessionInv,
   MP!CallsInv, MP!IInv


\* What BotLoginProofs proves of a step and of a handler.
LEMMA LoginKeeps == L!IInv /\ [L!Next]_(L!vars) => L!IInv'
BY MaxRequestsAssumption, SameLogin, LP!NextInv

LoginHandler == \/ L!InitLogin \/ L!InitCheck \/ L!SetProxy
                \/ L!CheckDone \/ L!HandleLogin \/ L!RequestDone

\* What a handler of the login does to the bot: modules are brought in only while
\* init waits for its answer, and an answer given stays.
LEMMA LoginHandlers ==
  ASSUME L!IInv, LoginHandler
  PROVE  /\ registered' = registered
         /\ loaded' = loaded \/ (L!InitPending /\ loaded' = TRUE)
         /\ answers # <<>> => answers' # <<>>
BY MaxRequestsAssumption, SameLogin, LP!HandlersOnBot DEF LoginHandler

\* What BotModuleProofs proves of a step and of a handler.
LEMMA ModuleKeeps == M!IInv /\ [M!Next]_(M!vars) => M!IInv'
BY MaxRequestsAssumption, SameModule, MP!NextInv

ModuleHandler == \/ M!StartOff \/ M!StartStopRun \/ M!Stop \/ M!RunPosted
                 \/ M!RunTimer \/ M!TimerExpires \/ M!HostCallback \/ M!RequestDone

\* The handlers of the module do not touch the bot.
LEMMA ModuleHandlers ==
  ASSUME ModuleHandler
  PROVE  UNCHANGED <<registered, loaded>>
BY MaxRequestsAssumption, SameModule, MP!HandlersOnBot DEF ModuleHandler

\* What BotModuleProofs proves of the refinement, for the module of this bot.
LEMMA ModuleRefines == M!IInv /\ [M!Next]_(M!vars) => [MP!Loop!Next]_(MP!Loop!vars)
BY MaxRequestsAssumption, SameModule, MP!StepRefines

\* The invariant of the module bears a bot that changes while the module rests, as
\* long as modules are there only in a registered bot and one without a bot stands still.
LEMMA ModuleBotChanges ==
  ASSUME M!IInv, UNCHANGED moduleVars,
         registered' \in BOOLEAN, loaded' \in BOOLEAN,
         loaded' => registered',
         ~loaded' => M!Stopped
  PROVE  M!IInv'
<1>1. M!Stopped <=> MP!Stopped
  BY DEF M!Stopped, MP!Stopped
<1> QED BY <1>1, MaxRequestsAssumption, SameModule, MP!BotChanges DEF moduleVars

-----------------------------------------------------------------------------
(***************************************************************************)
(* The steps of the composition.                                           *)
(***************************************************************************)

\* A step of one side, a command that finds nothing to do, or the shutdown.
LEMMA Steps ==
  ASSUME Next
  PROVE  \/ LoginHandler /\ UNCHANGED moduleVars
         \/ ModuleHandler /\ UNCHANGED loginVars
         \/ UNCHANGED <<registered, loaded, loginVars, moduleVars>>
         \/ Shutdown
BY Zenon DEF Next, InitCalled, SetProxy, CheckDone, HandleLogin, LoginRequestDone,
   Replay, StartCommand, StopCommand, RunModule, TimerExpires, HostCallback,
   ModuleRequestDone, LoginStep, ModuleStep, LoginHandler, ModuleHandler

\* The handlers that are composed are steps of the components.
LEMMA HandlersAreSteps ==
  /\ LoginHandler => L!Next
  /\ ModuleHandler => M!Next
BY DEF LoginHandler, ModuleHandler, L!Next, M!Next

\* What the shutdown does to the bot.
LEMMA ShutdownEffect ==
  ASSUME M!IInv, Shutdown
  PROVE  /\ L!Next
         /\ registered = TRUE /\ registered' = FALSE /\ loaded' = FALSE
         /\ loaded => M!Shutdown
         /\ ~loaded => UNCHANGED moduleVars /\ M!Stopped
         /\ answers' = answers
BY DEF Shutdown, L!Shutdown, L!Next, L!Deregister, M!IInv, M!LoopInv, M!TypeOK,
   M!SessionTypeOK

\* Every step of the bot with a patient client keeps the invariants of both sides.
LEMMA NextInv == IInv /\ [Next /\ Patient]_vars => IInv'
<1> SUFFICES ASSUME IInv, [Next /\ Patient]_vars PROVE IInv'
  OBVIOUS
<1>0. /\ L!IInv /\ M!IInv /\ (answers = <<>> => registered)
      /\ registered \in BOOLEAN /\ loaded \in BOOLEAN
      /\ loaded => registered
      /\ ~loaded => M!Stopped
      /\ L!InitPending => answers = <<>>
  BY DEF IInv, M!IInv, M!LoopInv, M!TypeOK, M!SessionTypeOK, L!InitPending
<1>1. CASE LoginHandler /\ UNCHANGED moduleVars
  <2>1. L!IInv'
    BY <1>0, <1>1, HandlersAreSteps, LoginKeeps
  <2>2. /\ registered' = registered
        /\ loaded' = loaded \/ (L!InitPending /\ loaded' = TRUE)
        /\ answers # <<>> => answers' # <<>>
    BY <1>0, <1>1, LoginHandlers
  <2>3. M!IInv'
    <3>1. CASE loaded' = loaded
      BY <1>0, <1>1, <2>2, <3>1, ModuleBotChanges
    <3>2. CASE L!InitPending /\ loaded' = TRUE
      <4>1. /\ registered' \in BOOLEAN /\ registered' /\ loaded' \in BOOLEAN
            /\ ~loaded' => M!Stopped
        BY <1>0, <2>2, <3>2
      <4> QED BY <1>0, <1>1, <4>1, ModuleBotChanges
    <3> QED BY <2>2, <3>1, <3>2
  <2> QED BY <1>0, <2>1, <2>2, <2>3 DEF IInv
<1>2. CASE ModuleHandler /\ UNCHANGED loginVars
  <2>1. M!IInv'
    BY <1>0, <1>2, HandlersAreSteps, ModuleKeeps
  <2>2. UNCHANGED <<registered, loaded>>
    BY <1>2, ModuleHandlers
  <2>3. UNCHANGED L!vars
    BY <1>2, <2>2 DEF loginVars, L!vars, L!loginVars, L!sessionVars
  <2> QED BY <1>0, <1>2, <2>1, <2>2, <2>3, LoginKeeps DEF IInv, loginVars
<1>3. CASE UNCHANGED <<registered, loaded, loginVars, moduleVars>>
  <2>1. UNCHANGED L!vars
    BY <1>3 DEF loginVars, L!vars, L!loginVars, L!sessionVars
  <2>2. UNCHANGED M!vars
    BY <1>3 DEF moduleVars, M!vars, M!moduleVars, M!sessionVars
  <2> QED BY <1>0, <1>3, <2>1, <2>2, LoginKeeps, ModuleKeeps DEF IInv, loginVars
<1>4. CASE Shutdown /\ Patient
  <2>1. /\ L!Next
        /\ registered = TRUE /\ registered' = FALSE /\ loaded' = FALSE
        /\ loaded => M!Shutdown
        /\ ~loaded => UNCHANGED moduleVars /\ M!Stopped
        /\ answers' = answers
    BY <1>0, <1>4, ShutdownEffect
  <2>2. answers # <<>>
    BY <1>4, <2>1 DEF Patient, L!InitPending, Shutdown, L!Shutdown
  <2>3. L!IInv'
    BY <1>0, <2>1, LoginKeeps
  <2>4. M!IInv'
    <3>1. CASE loaded
      <4>1. M!Next
        BY <2>1, <3>1 DEF M!Next
      <4> QED BY <1>0, <4>1, ModuleKeeps
    <3>2. CASE ~loaded
      <4>1. /\ registered' \in BOOLEAN /\ loaded' \in BOOLEAN /\ ~loaded'
            /\ UNCHANGED moduleVars /\ M!Stopped
        BY <2>1, <3>2
      <4> QED BY <1>0, <4>1, ModuleBotChanges
    <3> QED BY <3>1, <3>2
  <2> QED BY <2>1, <2>2, <2>3, <2>4 DEF IInv
<1>5. CASE UNCHANGED vars
  BY <1>3, <1>5 DEF vars
<1> QED BY <1>1, <1>2, <1>3, <1>4, <1>5, Steps

\* The constructor establishes the invariants of both sides.
LEMMA InitInv == Init => IInv
<1> SUFFICES ASSUME Init PROVE IInv
  OBVIOUS
<1>1. L!IInv
  BY MaxRequestsAssumption, SameLogin, LP!InitInv DEF Init
<1>2. registered = TRUE /\ loaded = FALSE
  BY DEF Init, L!Init
<1>3. M!IInv
  BY <1>2, MaxRequestsAssumption, SameModule, MP!ConstructedInv DEF Init
<1> QED BY <1>1, <1>2, <1>3 DEF IInv

\* Every step is a step of the loop: the login that succeeds lets the module
\* join, the shutdown lets it leave.
LEMMA StepRefines == IInv /\ [Next /\ Patient]_vars => [Loop!Next]_(Loop!vars)
<1> SUFFICES ASSUME IInv, [Next /\ Patient]_vars PROVE [Loop!Next]_(Loop!vars)
  OBVIOUS
<1>0. /\ L!IInv /\ M!IInv /\ (answers = <<>> => registered)
      /\ registered \in BOOLEAN /\ loaded \in BOOLEAN
      /\ L!InitPending => answers = <<>>
      /\ M!Stopped => active # "1"
  BY DEF IInv, M!IInv, M!LoopInv, M!TypeOK, M!SessionTypeOK, L!InitPending,
     M!ActiveMatchesState
<1>1. CASE LoginHandler /\ UNCHANGED moduleVars
  <2>1. /\ registered' = registered
        /\ loaded' = loaded \/ (L!InitPending /\ loaded' = TRUE)
    BY <1>0, <1>1, LoginHandlers
  <2>2. active' = active /\ m_luaState' = m_luaState
    BY <1>1 DEF moduleVars
  <2>3. CASE loaded' = loaded
    BY <2>1, <2>2, <2>3 DEF Loop!vars
  <2>4. CASE loaded' = TRUE /\ loaded = FALSE /\ registered
    BY <2>2, <2>4 DEF Loop!Join, Loop!Next
  <2> QED BY <1>0, <2>1, <2>3, <2>4
<1>2. CASE ModuleHandler /\ UNCHANGED loginVars
  <2>1. [MP!Loop!Next]_(MP!Loop!vars)
    BY <1>0, <1>2, HandlersAreSteps, ModuleRefines
  <2>2. UNCHANGED <<registered, loaded>>
    BY <1>2, ModuleHandlers
  <2> QED
    BY <2>1, <2>2
    DEF MP!Loop!vars, MP!Loop!Next, MP!Loop!Join, MP!Loop!Leave, MP!Loop!SwitchOn,
        MP!Loop!SwitchOff, MP!Loop!StartScript, MP!Loop!EndScript,
        Loop!vars, Loop!Next, Loop!SwitchOn, Loop!SwitchOff, Loop!StartScript,
        Loop!EndScript
<1>3. CASE UNCHANGED <<registered, loaded, loginVars, moduleVars>>
  BY <1>3 DEF moduleVars, Loop!vars
<1>4. CASE Shutdown
  <2>1. /\ registered = TRUE /\ registered' = FALSE /\ loaded' = FALSE
        /\ loaded => M!Shutdown
        /\ ~loaded => UNCHANGED moduleVars /\ M!Stopped
    BY <1>0, <1>4, ShutdownEffect
  <2>2. active' # "1" /\ m_luaState' = m_luaState
    BY <1>0, <2>1 DEF M!Shutdown, moduleVars
  <2> QED BY <2>1, <2>2 DEF Loop!Leave, Loop!Next
<1>5. CASE UNCHANGED vars
  BY <1>3, <1>5 DEF vars
<1> QED BY <1>1, <1>2, <1>3, <1>4, <1>5, Steps

-----------------------------------------------------------------------------
\* The invariants of the login and of the module hold while the two interleave.
THEOREM InvariantHolds == Spec => []IInv
BY InitInv, NextInv, PTL DEF Spec

(***************************************************************************)
(* A bot from init to shutdown implements the safety half of ModuleLoop:   *)
(* the module joins by the login of init and by nothing else, is run only  *)
(* between that and the shutdown, and a login that ends later (of          *)
(* base_set_proxy) does not bring it back.                                 *)
(***************************************************************************)
THEOREM LoopIsKept == Spec => KeepsLoop
<1>1. Init => Loop!Init
  BY DEF Init, L!Init, M!Constructed, M!SessionInit, Loop!Init
<1>2. IInv /\ [Next /\ Patient]_vars => [Loop!Next]_(Loop!vars)
  BY StepRefines
<1> QED BY <1>1, <1>2, InvariantHolds, PTL DEF Spec, KeepsLoop

=============================================================================
