------------------------------ MODULE BotLogin ------------------------------
(***************************************************************************)
(* The login of one bot (src/src/bot.cc: init, handle_login, the           *)
(* base_set_proxy command, shutdown): up to three executions of the login  *)
(* function of the package, each on a Lua state of its own (LuaSession)    *)
(* that is kept alive by the callback bound in the member login_cb_.       *)
(* bot::init and base_set_proxy share that member, the stored result and   *)
(* the proxy checks of the browser, of which only the callback of          *)
(* set_proxy_list is modelled here (BotBrowser has the rest).              *)
(*                                                                         *)
(* Left out: a bot that init rejects as already registered (BotRegistry),  *)
(* and a package that is not found (init throws).                          *)
(***************************************************************************)
EXTENDS LuaSession, Functions

VARIABLES
  called,        \* bot::init has been called
  answers,       \* the calls of init's callback so far, "ok" for ""
  login,         \* what login_cb_ is bound to: a Login, or NoLogin
  stored,        \* login_result_stored_
  logged_in,     \* login_result_
  checking,      \* who waits for the browser's proxy checks
  proxy_active,  \* proxy_check_active_
  loaded,        \* modules_ holds the modules of the package
  interfered     \* history: a proxy change came before init had answered

loginVars == <<called, answers, login, stored, logged_in, checking,
               proxy_active, loaded, interfered>>
vars == <<loginVars, sessionVars>>

\* The arguments bound into login_cb_ that matter: on whose behalf (load_mod is
\* TRUE for init) and the tries that remain.
Login == [purpose : {"init", "proxy"}, tries : 0..2]
NoLogin == [purpose |-> "none", tries |-> 0]

InitPending == called /\ answers = <<>>

\* registered: add() is the first thing init does to the bot.
Init ==
  /\ SessionInit
  /\ registered = TRUE
  /\ called = FALSE
  /\ answers = <<>>
  /\ login = NoLogin
  /\ stored = FALSE
  /\ logged_in = FALSE
  /\ checking = "none"
  /\ proxy_active = FALSE
  /\ loaded = FALSE
  /\ interfered = FALSE

-----------------------------------------------------------------------------
\* login_cb_ = bind(handle_login, ..., new state, ...), the login function
\* executed on the new state; a state bound in login_cb_ before is closed.
Bind(purpose, tries, rest) ==
  /\ login' = [purpose |-> purpose, tries |-> tries]
  /\ ReplaceRun("login", rest)

\* bot::init without a proxy in the configuration.
InitLogin ==
  /\ ~called
  /\ called' = TRUE
  /\ Bind("init", 2, <<>>)
  /\ UNCHANGED <<answers, stored, logged_in, checking, proxy_active, loaded,
                 interfered>>

\* bot::init with a proxy list: the browser checks it, or finds nothing to
\* check in it and calls back at once.
InitCheck ==
  /\ ~called
  /\ called' = TRUE
  /\ \/ checking' = "init" /\ UNCHANGED answers
     \/ answers' = <<"err">> /\ UNCHANGED checking
  /\ UNCHANGED <<login, stored, logged_in, proxy_active, loaded, interfered,
                 sessionVars>>

\* The base_set_proxy command.  The browser refuses a list while it checks
\* another one, and calls back at once when there is nothing to check.
SetProxy ==
  /\ Idle /\ called
  /\ interfered' = (interfered \/ InitPending)
  /\ ~proxy_active
  /\ checking = "none"
  /\ checking' = "proxy"
  /\ proxy_active' = TRUE
  /\ UNCHANGED <<called, answers, login, stored, logged_in, loaded,
                 sessionVars>>

\* Mutants of CheckFailed: the return after the error is missing; the flag is
\* not reset.
CheckFailedContinues ==
  /\ Idle /\ checking = "init"
  /\ checking' = "none"
  /\ answers' = Append(answers, "err")
  /\ Bind(checking, 2, <<>>)
  /\ UNCHANGED <<called, stored, logged_in, proxy_active, loaded, interfered>>
CheckFailedStaysActive ==
  /\ Idle /\ checking # "none"
  /\ checking' = "none"
  /\ answers' = IF checking = "init" THEN Append(answers, "err") ELSE answers
  /\ UNCHANGED <<called, login, stored, logged_in, proxy_active, loaded,
                 interfered, sessionVars>>

\* The last proxy check has ended and no proxy works.
CheckFailed ==
  /\ Idle /\ checking # "none"
  /\ checking' = "none"
  /\ \/ /\ checking = "init"
        /\ answers' = Append(answers, "err")
        /\ UNCHANGED proxy_active
     \/ /\ checking = "proxy"
        /\ proxy_active' = FALSE
        /\ UNCHANGED answers
  /\ UNCHANGED <<called, login, stored, logged_in, loaded, interfered,
                 sessionVars>>

\* The last proxy check has ended and some proxy works.
CheckPassed ==
  /\ Idle /\ checking # "none"
  /\ checking' = "none"
  /\ Bind(checking, 2, <<>>)
  /\ UNCHANGED <<called, answers, stored, logged_in, proxy_active, loaded,
                 interfered>>

\* bot::shutdown.  A login that is being executed is left alone.
Shutdown ==
  /\ Idle /\ called /\ registered
  /\ Deregister
  /\ loaded' = FALSE
  /\ UNCHANGED <<called, answers, login, stored, logged_in, checking,
                 proxy_active, interfered, luaState, callback, finished, host,
                 inflight, budget, calls, orphaned, faults>>

-----------------------------------------------------------------------------
\* Mutant of Retry: the tries are not counted down.
RetryForever ==
  /\ Bind(login.purpose, login.tries, Tail(calls))
  /\ UNCHANGED <<answers, proxy_active, loaded>>

\* A login try has failed and another one is left: it is started with the next
\* proxy.
Retry ==
  /\ login.tries > 0
  /\ Bind(login.purpose, login.tries - 1, Tail(calls))
  /\ UNCHANGED <<answers, proxy_active, loaded>>

\* Mutants of Answer: the modules are loaded in any case; the lambda of
\* base_set_proxy forgets proxy_check_active_.
AnswerLoads(outcome) ==
  /\ login.purpose = "init"
  /\ answers' = Append(answers, outcome)
  /\ loaded' = TRUE
  /\ login' = NoLogin
  /\ CloseState
  /\ calls' = Tail(calls)
  /\ UNCHANGED <<registered, faults, proxy_active>>
AnswerStaysActive(outcome) ==
  /\ answers' = IF login.purpose = "init" THEN Append(answers, outcome)
                                          ELSE answers
  /\ loaded' = (loaded \/ (login.purpose = "init" /\ outcome = "ok"))
  /\ login' = NoLogin
  /\ CloseState
  /\ calls' = Tail(calls)
  /\ UNCHANGED <<registered, faults, proxy_active>>

\* Mutant of Answer: load_mod is not looked at.
AnswerLoadsAlways(outcome) ==
  /\ answers' = IF login.purpose = "init" THEN Append(answers, outcome)
                                          ELSE answers
  /\ proxy_active' = (proxy_active /\ login.purpose = "init")
  /\ loaded' = (loaded \/ outcome = "ok")
  /\ login' = NoLogin
  /\ CloseState
  /\ calls' = Tail(calls)
  /\ UNCHANGED <<registered, faults>>

\* The callback bound in login_cb_ is called and login_cb_ reset, which closes
\* the state.  Only a login of init loads the modules.
Answer(outcome) ==
  /\ \/ /\ login.purpose = "init"
        /\ answers' = Append(answers, outcome)
        /\ loaded' = (loaded \/ outcome = "ok")
        /\ UNCHANGED proxy_active
     \/ /\ login.purpose = "proxy"
        /\ proxy_active' = FALSE
        /\ UNCHANGED <<answers, loaded>>
  /\ login' = NoLogin
  /\ CloseState
  /\ calls' = Tail(calls)
  /\ UNCHANGED <<registered, faults>>

GiveUp ==
  /\ login.tries = 0
  /\ Answer("err")

\* Mutant of LoginError: login_result_stored_ is not reset.
LoginErrorKeepsResult ==
  /\ ~Idle /\ Head(calls).arg = "err"
  /\ Retry \/ GiveUp
  /\ UNCHANGED <<called, stored, logged_in, checking, interfered>>

\* handle_login with an error.
LoginError ==
  /\ ~Idle /\ Head(calls).arg = "err"
  /\ stored' = FALSE
  /\ Retry \/ GiveUp
  /\ UNCHANGED <<called, logged_in, checking, interfered>>

\* Mutant of LoginStore: a positive result is answered at once.
LoginStoreAnswers ==
  /\ ~Idle /\ Head(calls).arg = "ok"
  /\ ~stored
  /\ logged_in' = TRUE
  /\ Answer("ok")
  /\ UNCHANGED <<called, checking, stored, interfered>>

\* handle_login(""), first call: the result is read from the Lua stack.  Only
\* on_finish leaves the boolean there that the code asserts: after a silent script
\* there is nil and the program aborts, so that no step follows.  (So it does when
\* the argument of on_finish is no boolean; what a closed state holds is undefined.)
LoginStore ==
  /\ ~Idle /\ Head(calls).arg = "ok"
  /\ ~stored
  /\ finished \/ luaState # "open"
  /\ stored' = TRUE
  /\ logged_in' \in BOOLEAN
  /\ calls' = Tail(calls)
  /\ UNCHANGED <<called, answers, login, checking, proxy_active, loaded,
                 luaState, callback, finished, host, inflight, budget,
                 orphaned, registered, faults, interfered>>

\* handle_login(""), second call.
LoginDone ==
  /\ ~Idle /\ Head(calls).arg = "ok"
  /\ stored
  /\ stored' = FALSE
  /\ \/ logged_in /\ Answer("ok")
     \/ ~logged_in /\ (Retry \/ GiveUp)
  /\ UNCHANGED <<called, logged_in, checking, interfered>>

HandleLogin == LoginError \/ LoginStore \/ LoginDone

RequestDone == Completion /\ UNCHANGED loginVars

-----------------------------------------------------------------------------
CheckDone == CheckFailed \/ CheckPassed

Next == \/ InitLogin \/ InitCheck \/ SetProxy \/ Shutdown
        \/ CheckDone \/ HandleLogin \/ RequestDone

\* Proxy checks and requests end (at the latest by their timeouts); commands
\* need not come.
Fairness ==
  /\ WF_vars(CheckDone)
  /\ WF_vars(HandleLogin)
  /\ WF_vars(RequestDone)

Spec == Init /\ [][Next]_vars /\ Fairness

-----------------------------------------------------------------------------
TypeOK ==
  /\ SessionTypeOK({"login"})
  /\ called \in BOOLEAN
  /\ answers \in Seq({"ok", "err"})
  /\ login \in Login \cup {NoLogin}
  /\ stored \in BOOLEAN
  /\ logged_in \in BOOLEAN
  /\ checking \in {"none", "init", "proxy"}
  /\ proxy_active \in BOOLEAN
  /\ loaded \in BOOLEAN
  /\ interfered \in BOOLEAN

(***************************************************************************)
(* The callback of bot::init is called once at most, whatever scripts,     *)
(* proxy changes and shutdowns do to the login it started.                 *)
(***************************************************************************)
AnsweredOnce == Len(answers) <= 1

(***************************************************************************)
(* proxy_check_active_ blocks further proxy lists exactly while one is     *)
(* being checked or used for a login: no path through the checks, the      *)
(* retries and the failures leaves it set or clears it early.              *)
(***************************************************************************)
ProxyFlagMatches ==
  proxy_active <=> checking = "proxy" \/ login.purpose = "proxy"

\* A bot whose init succeeded has its modules until it is shut down, and a bot
\* whose init failed has none.
ModulesMatchAnswer ==
  /\ "ok" \in Range(answers) /\ registered => loaded
  /\ "err" \in Range(answers) => ~loaded

(***************************************************************************)
(* The result handle_login has stored was reported by on_finish of the     *)
(* script that is being executed, not left by an earlier login: the next   *)
(* call of handle_login answers with it and closes the state.  (A login of *)
(* base_set_proxy that replaces the one of init leaves its result behind.) *)
(***************************************************************************)
StoredResultIsOwn == stored /\ ~interfered => luaState = "open" /\ finished

\* No request outlives the Lua state of the login it was made for, through all
\* the states that retries and proxy changes open and close.
LoginKeepsState == ~interfered => NoUseAfterClose

\* login_cb_ is bound anew or reset, closing the state, only by the last call
\* that the executing handler makes: no script runs on a closed state.  (With the
\* result of an interrupted login stored, the first of two calls closes it.)
ClosedByLastCall ==
  [][login' # login /\ ~interfered => Len(calls) <= 1]_vars

\* "Calls the specified callback function with an empty string on success or
\* with an error string if an error occured." (bot.h)  The scripts must commit no
\* fault, and no proxy change may take login_cb_ away.
InitAnswered ==
  called ~> answers # <<>> \/ faults # {} \/ interfered

\* The same promise as an invariant: as long as init has not answered and no script
\* has committed a fault, its proxy check or its login is still going to.
InitNotForgotten ==
  InitPending /\ faults = {} => checking = "init" \/ login.purpose = "init"

\* A base_set_proxy command comes to its end, so that the next is accepted.
ProxyChangeEnds ==
  proxy_active ~> ~proxy_active \/ faults # {} \/ interfered

-----------------------------------------------------------------------------
(***************************************************************************)
(* The inductive invariant the proofs use (BotLoginProofs).  Its first     *)
(* part needs nothing of the session: what login_cb_ is bound to, the      *)
(* proxy checks and the answers of init.                                   *)
(***************************************************************************)
AnswerInv ==
  /\ answers \in {<<>>, <<"ok">>, <<"err">>}
  /\ ~called => /\ answers = <<>> /\ login = NoLogin /\ checking = "none"
                /\ ~proxy_active /\ ~loaded /\ ~interfered
  /\ login.purpose = "init" \/ checking = "init" => InitPending
  /\ checking = "init" => login = NoLogin
  /\ checking = "proxy" => login.purpose # "proxy"
  /\ ProxyFlagMatches
  /\ loaded => answers = <<"ok">>
  /\ answers = <<"ok">> /\ registered => loaded

Ok == HostCall("login", "ok")
Err == HostCall("login", "err")

\* The calls that one handler of the session makes, with what handle_login has
\* stored before it: a stored result makes the next call the last.
QueueInv ==
  /\ calls \in {<<>>, <<Ok>>, <<Err>>, <<Ok, Ok>>, <<Ok, Err>>}
  /\ stored => calls \in {<<>>, <<Ok>>, <<Err>>}
  /\ luaState = "freed" => calls = <<>>
  /\ luaState = "none" => calls = <<>> /\ ~stored

\* The globals of the state login_cb_ keeps.
GlobalsInv ==
  /\ checking # "none" => login = NoLogin
  /\ login = NoLogin <=> luaState = "none"
  /\ luaState = "none" => ~callback /\ host = "none" /\ inflight = 0
  /\ callback => host = "login"
  /\ stored /\ host = "login" => finished
  /\ ~stored /\ host = "login" /\ calls # <<>> /\ Head(calls) = Ok => finished
  /\ ~stored /\ finished /\ luaState = "open" => calls # <<>> /\ Head(calls) = Ok

\* A script that has ended without an error has a result stored, or the calls that
\* store and use it are queued, or it was silent and its call is the last.
ResultInv ==
  /\ luaState # "none" /\ host = "none" =>
       \/ calls = <<Ok, Ok>> /\ finished
       \/ calls = <<Ok>> /\ (stored \/ ~finished)
  /\ stored => luaState = "open" /\ finished

\* A script that starts one request at a time, and raises before it starts one,
\* has none in flight once it has made its last call.
InflightInv ==
  Without({"late_raise", "parallel"}) =>
    /\ ~orphaned /\ luaState # "freed"
    /\ inflight <= 1
    /\ inflight > 0 => /\ callback
                       /\ calls = <<>> \/ (calls = <<Ok>> /\ ~stored)

SessionInv == QueueInv /\ GlobalsInv /\ ResultInv /\ InflightInv

IInv == TypeOK /\ AnswerInv /\ (~interfered => SessionInv)

=============================================================================
