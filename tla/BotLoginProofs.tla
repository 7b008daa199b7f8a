---------------------------- MODULE BotLoginProofs ----------------------------
(***************************************************************************)
(* Proofs about BotLogin, for every MaxRequests and whatever faults the    *)
(* scripts commit.                                                         *)
(***************************************************************************)
EXTENDS BotLogin, LuaSessionProofs

\* A login that is bound is one of Login.
LEMMA LoginFacts ==
  /\ NoLogin \notin Login /\ NoLogin.purpose = "none" /\ NoLogin.tries = 0
  /\ \A l \in Login : l.purpose \in {"init", "proxy"} /\ l.tries \in 0..2
BY DEF NoLogin, Login

\* handle_login takes the first of the calls that are queued.
LEMMA TailType ==
  ASSUME SessionTypeOK({"login"}), calls # <<>>
  PROVE  Tail(calls) \in Seq(CallsOf({"login"}))
BY HeadTailProperties DEF SessionTypeOK, CallsOf

\* Binding login_cb_ anew replaces the Lua state by one of the right type.
LEMMA BindType ==
  ASSUME SessionTypeOK({"login"}), NEW purpose \in {"init", "proxy"},
         NEW tries \in 0..2, NEW rest \in Seq(CallsOf({"login"})),
         Bind(purpose, tries, rest)
  PROVE  SessionTypeOK({"login"})' /\ login' \in Login
<1>1. login' \in Login /\ ReplaceRun("login", rest)
  BY DEF Bind, Login
<1>2. "login" \in {"login"}
  OBVIOUS
<1>3. \/ \E cb0 \in BOOLEAN : SyncRun("login", cb0, rest)
      \/ ReplaceRun("login", rest)
  BY <1>1
<1>4. SessionTypeOK({"login"})'
  BY <1>2, <1>3, RunType
<1> QED BY <1>1, <1>4

\* The two ways a login goes on when a try has ended.
LEMMA RetryType ==
  ASSUME TypeOK, ~Idle, Retry
  PROVE  /\ SessionTypeOK({"login"})' /\ login \in Login /\ login' \in Login
         /\ login' = [purpose |-> login.purpose, tries |-> login.tries - 1]
         /\ UNCHANGED <<answers, proxy_active, loaded, registered>>
<1>1. login \in Login /\ login.tries - 1 \in 0..2 /\ login.purpose \in {"init", "proxy"}
  BY LoginFacts DEF TypeOK, Retry
<1>2. SessionTypeOK({"login"}) /\ Tail(calls) \in Seq(CallsOf({"login"}))
  BY TailType DEF TypeOK, Idle
<1>3. Bind(login.purpose, login.tries - 1, Tail(calls))
  BY DEF Retry
<1>4. SessionTypeOK({"login"})' /\ login' \in Login
  BY <1>1, <1>2, <1>3, BindType
<1> QED BY <1>1, <1>3, <1>4 DEF Retry, Bind, ReplaceRun

\* An answer closes the state and leaves everything of its type.
LEMMA AnswerType ==
  ASSUME TypeOK, ~Idle, NEW outcome \in {"ok", "err"}, Answer(outcome)
  PROVE  /\ SessionTypeOK({"login"})' /\ login' = NoLogin /\ registered' = registered
         /\ answers' \in Seq({"ok", "err"}) /\ loaded' \in BOOLEAN
         /\ proxy_active' \in BOOLEAN
<1>1. SessionTypeOK({"login"})'
  BY CloseType DEF TypeOK, Idle, Answer
<1>2. Append(answers, outcome) \in Seq({"ok", "err"})
  BY AppendProperties DEF TypeOK
<1> QED BY <1>1, <1>2 DEF Answer, TypeOK

\* So does handle_login, whether it tries again or answers.
LEMMA HandleLoginType ==
  ASSUME TypeOK, ~Idle, UNCHANGED <<called, checking, interfered>>,
         stored' \in BOOLEAN, logged_in' \in BOOLEAN,
         Retry \/ \E outcome \in {"ok", "err"} : Answer(outcome)
  PROVE  TypeOK'
<1>1. CASE Retry
  BY <1>1, RetryType DEF TypeOK
<1>2. ASSUME NEW outcome \in {"ok", "err"}, Answer(outcome)
      PROVE  TypeOK'
  BY <1>2, AnswerType DEF TypeOK
<1> QED BY <1>1, <1>2

\* Type correctness of the initial state,
LEMMA InitType == Init => TypeOK
<1> SUFFICES ASSUME Init PROVE TypeOK
  OBVIOUS
<1>1. /\ calls \in Seq([to : {"login"} \cup {"none"}, arg : {"ok", "err"}])
      /\ answers \in Seq({"ok", "err"})
  BY DEF Init, SessionInit
<1> QED BY <1>1, MaxRequestsAssumption DEF Init, SessionInit, TypeOK, SessionTypeOK

\* and of every step.
LEMMA NextType == TypeOK /\ [Next]_vars => TypeOK'
<1> SUFFICES ASSUME TypeOK, [Next]_vars PROVE TypeOK'
  OBVIOUS
<1>0. <<>> \in Seq(CallsOf({"login"}))
  OBVIOUS
<1>1. CASE InitLogin
  <2>1. SessionTypeOK({"login"})' /\ login' \in Login
    <3>1. Bind("init", 2, <<>>) /\ SessionTypeOK({"login"})
      BY <1>1 DEF InitLogin, TypeOK
    <3>2. "init" \in {"init", "proxy"} /\ 2 \in 0..2
      OBVIOUS
    <3> QED BY <1>0, <3>1, <3>2, BindType
  <2> QED BY <1>1, <2>1 DEF InitLogin, TypeOK
<1>2. CASE InitCheck
  <2>1. <<"err">> \in Seq({"ok", "err"})
    OBVIOUS
  <2>2. SessionTypeOK({"login"})'
    BY <1>2 DEF InitCheck, TypeOK, SessionTypeOK, sessionVars
  <2> QED BY <1>2, <2>1, <2>2 DEF InitCheck, TypeOK
<1>3. CASE SetProxy
  <2>1. SessionTypeOK({"login"})'
    BY <1>3 DEF SetProxy, TypeOK, SessionTypeOK, sessionVars
  <2>2. interfered' \in BOOLEAN
    BY <1>3 DEF SetProxy, TypeOK, InitPending
  <2> QED BY <1>3, <2>1, <2>2 DEF SetProxy, TypeOK
<1>4. CASE CheckFailed
  <2>1. Append(answers, "err") \in Seq({"ok", "err"})
    BY AppendProperties DEF TypeOK
  <2>2. SessionTypeOK({"login"})'
    BY <1>4 DEF CheckFailed, TypeOK, SessionTypeOK, sessionVars
  <2> QED BY <1>4, <2>1, <2>2 DEF CheckFailed, TypeOK
<1>5. CASE CheckPassed
  <2>1. checking \in {"init", "proxy"}
    BY <1>5 DEF CheckPassed, TypeOK
  <2>2. SessionTypeOK({"login"})' /\ login' \in Login
    <3>1. Bind(checking, 2, <<>>) /\ SessionTypeOK({"login"})
      BY <1>5 DEF CheckPassed, TypeOK
    <3>2. 2 \in 0..2
      OBVIOUS
    <3> QED BY <1>0, <2>1, <3>1, <3>2, BindType
  <2> QED BY <1>5, <2>2 DEF CheckPassed, TypeOK
<1>6. CASE Shutdown
  <2>1. registered' \in BOOLEAN /\ loaded' \in BOOLEAN
    BY <1>6 DEF Shutdown, Deregister
  <2>2. SessionTypeOK({"login"})'
    BY <1>6, <2>1 DEF Shutdown, TypeOK, SessionTypeOK
  <2> QED BY <1>6, <2>1, <2>2 DEF Shutdown, TypeOK
<1>7. CASE LoginError
  BY <1>7, HandleLoginType DEF LoginError, GiveUp, TypeOK
<1>8. CASE LoginStore
  <2>1. calls' \in Seq([to : {"login"} \cup {"none"}, arg : {"ok", "err"}])
    BY <1>8, TailType DEF LoginStore, Idle, TypeOK, CallsOf
  <2> QED BY <1>8, <2>1 DEF LoginStore, TypeOK, SessionTypeOK
<1>9. CASE LoginDone
  BY <1>9, HandleLoginType DEF LoginDone, GiveUp, TypeOK
<1>10. CASE RequestDone
  <2>1. SessionTypeOK({"login"})'
    BY <1>10, CompletionType DEF RequestDone, TypeOK
  <2> QED BY <1>10, <2>1 DEF RequestDone, loginVars, TypeOK
<1>11. CASE UNCHANGED vars
  <2>1. SessionTypeOK({"login"})'
    BY <1>11 DEF vars, sessionVars, TypeOK, SessionTypeOK
  <2> QED BY <1>11, <2>1 DEF vars, loginVars, TypeOK
<1> QED BY <1>1, <1>2, <1>3, <1>4, <1>5, <1>6, <1>7, <1>8, <1>9, <1>10, <1>11
    DEF Next, CheckDone, HandleLogin

-----------------------------------------------------------------------------
\* The answers that can be given.
LEMMA ShortAnswers ==
  /\ <<>> # <<"ok">> /\ <<>> # <<"err">> /\ <<"ok">> # <<"err">>
  /\ \A outcome : Append(<<>>, outcome) = <<outcome>>
<1>1. /\ Len(<<>>) = 0 /\ Len(<<"ok">>) = 1 /\ Len(<<"err">>) = 1
      /\ <<"ok">>[1] = "ok" /\ <<"err">>[1] = "err"
  OBVIOUS
<1>2. ASSUME NEW outcome PROVE Append(<<>>, outcome) = <<outcome>>
  BY AppendToShort
<1> QED BY <1>1, <1>2

\* handle_login answers on behalf of the login that is bound, which is the one
\* init waits for or one that holds the proxy flag.
LEMMA HandleLoginAnswers ==
  ASSUME TypeOK, AnswerInv, ~Idle, UNCHANGED <<called, checking, interfered>>,
         Retry \/ \E outcome \in {"ok", "err"} : Answer(outcome)
  PROVE  AnswerInv'
<1> USE DEF AnswerInv, InitPending, ProxyFlagMatches
<1>1. CASE Retry
  <2>1. /\ login \in Login /\ login' \in Login /\ login'.purpose = login.purpose
        /\ UNCHANGED <<answers, proxy_active, loaded, registered>>
    BY <1>1, RetryType
  <2>2. called /\ checking # "init"
    BY <2>1, LoginFacts
  <2> QED BY <2>1, <2>2
<1>2. ASSUME NEW outcome \in {"ok", "err"}, Answer(outcome)
      PROVE  AnswerInv'
  <2>1. login' = NoLogin /\ login'.purpose = "none" /\ registered' = registered
    BY <1>2, AnswerType, LoginFacts
  <2>2. CASE /\ login.purpose = "init" /\ answers' = Append(answers, outcome)
             /\ loaded' = (loaded \/ outcome = "ok") /\ UNCHANGED proxy_active
    <3>1. /\ called /\ answers = <<>> /\ checking # "init" /\ ~loaded
          /\ answers' = <<outcome>> /\ checking \in {"none", "proxy"}
      BY <2>2, ShortAnswers, LoginFacts DEF TypeOK
    <3>2. /\ answers' \in {<<>>, <<"ok">>, <<"err">>}
          /\ loaded' => answers' = <<"ok">>
          /\ answers' = <<"ok">> => loaded'
      BY <2>2, <3>1, ShortAnswers
    <3>3. proxy_active' <=> checking' = "proxy" \/ login'.purpose = "proxy"
      BY <2>1, <2>2
    <3> QED BY <2>1, <3>1, <3>2, <3>3
  <2>3. CASE /\ login.purpose = "proxy" /\ proxy_active' = FALSE
             /\ UNCHANGED <<answers, loaded>>
    <3>1. called /\ checking = "none"
      BY <2>3, LoginFacts DEF TypeOK
    <3> QED BY <2>1, <2>3, <3>1
  <2> QED BY <1>2, <2>2, <2>3 DEF Answer
<1> QED BY <1>1, <1>2

\* What init has answered agrees with the modules and with the login under way:
\* initially,
LEMMA InitAnswers == Init => AnswerInv
BY LoginFacts, ShortAnswers DEF Init, AnswerInv, ProxyFlagMatches

\* and after every step.
LEMMA NextAnswers == TypeOK /\ AnswerInv /\ [Next]_vars => AnswerInv'
<1> SUFFICES ASSUME TypeOK, AnswerInv, [Next]_vars PROVE AnswerInv'
  OBVIOUS
<1> USE DEF AnswerInv, InitPending, ProxyFlagMatches
<1>1. CASE InitLogin
  <2>1. /\ login'.purpose = "init" /\ registered' = registered
    BY <1>1 DEF InitLogin, Bind, ReplaceRun
  <2> QED BY <1>1, <2>1, LoginFacts, ShortAnswers DEF InitLogin
<1>2. CASE InitCheck
  BY <1>2, LoginFacts, ShortAnswers DEF InitCheck, sessionVars
<1>3. CASE SetProxy
  BY <1>3 DEF SetProxy, sessionVars
<1>4. CASE CheckFailed
  <2>1. CASE checking = "init" /\ answers' = Append(answers, "err") /\ UNCHANGED proxy_active
    <3>1. answers = <<>> /\ answers' = <<"err">> /\ called /\ ~loaded
      BY <2>1, ShortAnswers
    <3> QED BY <1>4, <2>1, <3>1, LoginFacts, ShortAnswers DEF CheckFailed, sessionVars
  <2>2. CASE checking = "proxy" /\ proxy_active' = FALSE /\ UNCHANGED answers
    BY <1>4, <2>2, LoginFacts DEF CheckFailed, sessionVars
  <2> QED BY <1>4, <2>1, <2>2 DEF CheckFailed
<1>5. CASE CheckPassed
  <2>1. /\ login'.purpose = checking /\ checking \in {"init", "proxy"}
        /\ checking' = "none" /\ registered' = registered
        /\ UNCHANGED <<called, answers, proxy_active, loaded, interfered>>
    BY <1>5 DEF CheckPassed, Bind, ReplaceRun, TypeOK
  <2> QED BY <2>1, LoginFacts
<1>6. CASE Shutdown
  BY <1>6 DEF Shutdown, Deregister
<1>7. CASE LoginError
  BY <1>7, HandleLoginAnswers DEF LoginError, GiveUp
<1>8. CASE LoginStore
  BY <1>8 DEF LoginStore
<1>9. CASE LoginDone
  BY <1>9, HandleLoginAnswers DEF LoginDone, GiveUp
<1>10. CASE RequestDone
  <2>1. registered' = registered
    BY <1>10 DEF RequestDone, Completion, Response, UnexpectedResponse, FailedRequest
  <2> QED BY <1>10, <2>1 DEF RequestDone, loginVars
<1>11. CASE UNCHANGED vars
  BY <1>11 DEF vars, loginVars, sessionVars
<1> QED BY <1>1, <1>2, <1>3, <1>4, <1>5, <1>6, <1>7, <1>8, <1>9, <1>10, <1>11
    DEF Next, CheckDone, HandleLogin

-----------------------------------------------------------------------------
\* The calls handle_login can find in the queue, and what a session leaves.
LEMMA LoginQueues ==
  /\ FinishQueue("login", FALSE) = <<>> /\ FinishQueue("login", TRUE) = <<Ok>>
  /\ FinalQueue("login", FALSE, "ok") = <<Ok>>
  /\ FinalQueue("login", FALSE, "err") = <<Err>>
  /\ FinalQueue("login", TRUE, "ok") = <<Ok, Ok>>
  /\ FinalQueue("login", TRUE, "err") = <<Ok, Err>>
BY DEF FinishQueue, FinalQueue, Ok, Err

\* The queues of calls one activation makes are told apart by their elements.
LEMMA CallsDiffer ==
  /\ Ok # Err /\ Ok.arg = "ok" /\ Err.arg = "err"
  /\ <<Ok>> # <<>> /\ <<Err>> # <<>> /\ <<Ok, Ok>> # <<>> /\ <<Ok, Err>> # <<>>
  /\ <<Ok, Ok>> # <<Ok>> /\ <<Ok>> # <<Err>>
  /\ Head(<<Ok>>) = Ok /\ Head(<<Err>>) = Err
  /\ Head(<<Ok, Ok>>) = Ok /\ Head(<<Ok, Err>>) = Ok
  /\ Tail(<<Ok>>) = <<>> /\ Tail(<<Err>>) = <<>>
  /\ Tail(<<Ok, Ok>>) = <<Ok>> /\ Tail(<<Ok, Err>>) = <<Err>>
<1>1. Ok.arg = "ok" /\ Err.arg = "err"
  BY DEF Ok, Err, HostCall
<1>2. ASSUME NEW a, NEW b
      PROVE  /\ <<a>> # <<>> /\ <<a, b>> # <<>>
             /\ Head(<<a>>) = a /\ Tail(<<a>>) = <<>>
             /\ Head(<<a, b>>) = a /\ Tail(<<a, b>>) = <<b>>
  OBVIOUS
<1>3. ASSUME NEW a, NEW b, NEW c
      PROVE  Len(<<a>>) = 1 /\ Len(<<a, b>>) = 2 /\ <<a>>[1] = a
  OBVIOUS
<1>4. <<Ok, Ok>> # <<Ok>> /\ <<Ok>> # <<Err>>
  BY <1>1, <1>3
<1> QED BY <1>1, <1>2, <1>4

\* What the session and login_cb_ are after an activation of the script of the
\* login that is bound.  A result is stored before it exactly if on_finish has
\* been called, so that on_finish is not called again.
LEMMA ActivationSession ==
  ASSUME TypeOK', NEW o \in Outcomes, NEW fin0 \in BOOLEAN, NEW infl0 \in Nat,
         NEW b0 \in Nat, Activation(o, fin0, infl0, b0), faults \subseteq FaultKinds,
         NEW cb \in BOOLEAN,
         \/ ~o.err /\ Waits("login", o.fin)
         \/ ~o.err /\ ~Stored(o, FALSE) /\ Succeeds("login", o.fin)
         \/ o.err /\ Raises("login", o.fin, cb),
         luaState' = "open", login' # NoLogin, checking' = "none",
         stored' = fin0,
         Without({"late_raise", "parallel"})' => ~orphaned' /\ infl0 = 0
  PROVE  SessionInv'
<1>1. /\ finished' = (fin0 \/ o.fin) /\ (o.fin => ~fin0) /\ o.fin \in BOOLEAN
      /\ o.err \in BOOLEAN /\ finished' \in BOOLEAN
  BY ActivationType DEF Outcomes
<1>2. /\ "late_raise" \notin faults' => (o.err => o.req = 0)
      /\ "parallel" \notin faults' => infl0 + o.req <= 1
      /\ inflight' = infl0 + o.req
  BY FaultsAvoided
<1>3. o.req \in Nat /\ (~Stored(o, FALSE) => o.req = 0 /\ ~o.stored)
  BY MaxRequestsAssumption DEF Outcomes, Stored
<1>4. /\ calls' \in {<<>>, <<Ok>>, <<Err>>, <<Ok, Ok>>, <<Ok, Err>>}
      /\ calls' \in {<<Ok, Ok>>, <<Ok, Err>>} => o.fin
      /\ o.fin => calls' \in {<<Ok>>, <<Ok, Ok>>, <<Ok, Err>>}
      /\ calls' = <<Ok>> => o.fin \/ host' = "none"
      /\ host' \in {"login", "none"} /\ callback' \in BOOLEAN
      /\ callback' => host' = "login"
  BY <1>1, LoginQueues, CallsDiffer DEF Waits, Succeeds, Raises
<1>5. QueueInv'
  BY <1>1, <1>4, CallsDiffer DEF QueueInv
<1>6. GlobalsInv'
  BY <1>1, <1>4, CallsDiffer DEF GlobalsInv
<1>7. ResultInv'
  <2> SUFFICES /\ host' = "none" => \/ calls' = <<Ok, Ok>> /\ finished'
                                    \/ calls' = <<Ok>> /\ (stored' \/ ~finished')
               /\ stored' => finished'
    BY DEF ResultInv, Ok
  <2>1. stored' => finished'
    BY <1>1
  <2>2. CASE host' = "none"
    <3>1. Succeeds("login", o.fin)
      BY <2>2 DEF Waits, Raises
    <3>2. calls' = IF o.fin THEN <<Ok, Ok>> ELSE <<Ok>>
      BY <1>1, <3>1, LoginQueues DEF Succeeds
    <3> QED BY <1>1, <3>2
  <2> QED BY <2>1, <2>2
<1>8. InflightInv'
  <2> SUFFICES ASSUME Without({"late_raise", "parallel"})'
      PROVE  /\ ~orphaned' /\ inflight' <= 1
             /\ inflight' > 0 => /\ callback'
                                 /\ calls' = <<>> \/ (calls' = <<Ok>> /\ ~stored')
    BY DEF InflightInv
  <2>1. "late_raise" \notin faults' /\ "parallel" \notin faults'
    BY DEF Without
  <2>2. inflight' = o.req /\ o.req <= 1 /\ ~orphaned'
    BY <1>2, <1>3, <2>1
  <2>3. CASE o.req > 0
    <3>1. ~o.err /\ Waits("login", o.fin)
      <4>1. ~o.err
        BY <1>2, <2>1, <2>3
      <4>2. o.req # 0
        BY <2>3
      <4> QED BY <1>3, <4>1, <4>2, Zenon
    <3>2. callback' /\ (o.fin => calls' = <<Ok>>) /\ (~o.fin => calls' = <<>>)
      BY <1>1, <3>1, LoginQueues DEF Waits
    <3> QED BY <1>1, <2>2, <3>2
  <2> QED BY <1>3, <2>2, <2>3
<1> QED BY <1>5, <1>6, <1>7, <1>8 DEF SessionInv

\* A new login, when the state it replaces has no request in flight.
LEMMA BindSession ==
  ASSUME TypeOK, TypeOK', NEW purpose, NEW tries, Bind(purpose, tries, <<>>),
         login' # NoLogin, checking' = "none", stored' = FALSE,
         Without({"late_raise", "parallel"}) => ~orphaned /\ inflight = 0
  PROVE  SessionInv'
<1>1. /\ luaState' = "open" /\ orphaned' = (orphaned \/ inflight > 0)
      /\ \E o \in Outcomes :
           /\ Activation(o, FALSE, 0, MaxRequests)
           /\ \/ ~o.err /\ Stored(o, FALSE) /\ Waits("login", o.fin)
              \/ ~o.err /\ ~Stored(o, FALSE) /\ Succeeds("login", o.fin)
              \/ o.err /\ Raises("login", o.fin, Stored(o, FALSE))
  BY ReplaceRunCalls DEF Bind
<1>2. PICK o \in Outcomes :
        /\ Activation(o, FALSE, 0, MaxRequests)
        /\ \/ ~o.err /\ Waits("login", o.fin)
           \/ ~o.err /\ ~Stored(o, FALSE) /\ Succeeds("login", o.fin)
           \/ o.err /\ Raises("login", o.fin, Stored(o, FALSE))
  BY <1>1
<1>3. Stored(o, FALSE) \in BOOLEAN
  BY DEF Stored
<1>4. faults \subseteq FaultKinds /\ inflight \in Nat /\ orphaned \in BOOLEAN
  BY DEF TypeOK, SessionTypeOK
<1>5. Without({"late_raise", "parallel"})' => ~orphaned'
  <2>1. faults \subseteq faults'
    BY <1>2, FaultsAvoided
  <2>2. Without({"late_raise", "parallel"})' => Without({"late_raise", "parallel"})
    BY <2>1 DEF Without
  <2> QED BY <1>1, <1>4, <2>2
<1> QED BY <1>1, <1>2, <1>3, <1>4, <1>5, MaxRequestsAssumption, ActivationSession

\* The callback of login_cb_ has been called: the state is closed.
LEMMA AnswerSession ==
  ASSUME TypeOK, CloseState, login' = NoLogin, calls' = <<>>, stored' = FALSE,
         UNCHANGED faults,
         Without({"late_raise", "parallel"}) => ~orphaned /\ inflight = 0
  PROVE  SessionInv'
<1>1. /\ luaState' = "none" /\ callback' = FALSE /\ host' = "none" /\ inflight' = 0
      /\ orphaned' = (orphaned \/ inflight > 0) /\ finished' = FALSE
  BY DEF CloseState
<1>2. inflight \in Nat /\ orphaned \in BOOLEAN
  BY DEF TypeOK, SessionTypeOK
<1>3. QueueInv' /\ GlobalsInv' /\ ResultInv'
  BY <1>1 DEF QueueInv, GlobalsInv, ResultInv
<1>4. InflightInv'
  BY <1>1, <1>2 DEF InflightInv, Without
<1> QED BY <1>3, <1>4 DEF SessionInv

\* The error or the last success that ends a try is the last call queued, and
\* no request is in flight then.
LEMMA LastCall ==
  ASSUME TypeOK, SessionInv, ~Idle,
         Head(calls).arg = "err" \/ stored
  PROVE  /\ Tail(calls) = <<>>
         /\ Without({"late_raise", "parallel"}) => ~orphaned /\ inflight = 0
         /\ calls \in {<<Ok>>, <<Err>>}
<1>1. calls \in {<<Ok>>, <<Err>>} /\ (~stored => calls = <<Err>>)
  BY CallsDiffer DEF SessionInv, QueueInv, Idle
<1>2. inflight \in Nat
  BY DEF TypeOK, SessionTypeOK
<1>3. Without({"late_raise", "parallel"}) => ~orphaned /\ inflight = 0
  BY <1>1, <1>2, CallsDiffer DEF SessionInv, InflightInv
<1> QED BY <1>1, <1>3, CallsDiffer

\* handle_login with the last call of a try, after which a new state is bound
\* or none.
LEMMA HandleLoginSession ==
  ASSUME TypeOK, TypeOK', SessionInv, ~Idle, Head(calls).arg = "err" \/ stored,
         stored' = FALSE, UNCHANGED checking,
         Retry \/ \E outcome \in {"ok", "err"} : Answer(outcome)
  PROVE  SessionInv'
<1>1. /\ Tail(calls) = <<>>
      /\ Without({"late_raise", "parallel"}) => ~orphaned /\ inflight = 0
      /\ calls # <<>>
  BY LastCall DEF Idle
<1>2. login # NoLogin /\ checking' = "none"
  BY <1>1 DEF SessionInv, GlobalsInv, QueueInv, TypeOK, SessionTypeOK
<1>3. CASE Retry
  <2>1. Bind(login.purpose, login.tries - 1, <<>>)
    BY <1>1, <1>3 DEF Retry
  <2>2. login' # NoLogin
    BY <1>3, RetryType, LoginFacts
  <2> QED BY <1>1, <1>2, <2>1, <2>2, BindSession
<1>4. ASSUME NEW outcome \in {"ok", "err"}, Answer(outcome)
      PROVE  SessionInv'
  BY <1>1, <1>4, AnswerSession DEF Answer
<1> QED BY <1>3, <1>4

\* handle_login with the first success of a try: the result is stored.
LEMMA StoreSession ==
  ASSUME TypeOK, SessionInv, LoginStore
  PROVE  SessionInv'
<1> USE DEF SessionInv
<1>1. /\ calls # <<>> /\ Head(calls).arg = "ok" /\ stored = FALSE /\ stored' = TRUE
      /\ calls' = Tail(calls)
      /\ UNCHANGED <<login, checking, luaState, callback, finished, host, inflight,
                     orphaned, faults>>
  BY DEF LoginStore, Idle, TypeOK
<1>2. /\ calls \in {<<Ok>>, <<Ok, Ok>>, <<Ok, Err>>} /\ Head(calls) = Ok
      /\ calls' \in {<<>>, <<Ok>>, <<Err>>}
      /\ calls = <<Ok, Ok>> => calls' = <<Ok>>
      /\ calls = <<Ok>> => calls' = <<>>
  BY <1>1, CallsDiffer DEF QueueInv
<1>3. luaState = "open"
  BY <1>1 DEF QueueInv, TypeOK, SessionTypeOK
<1>4. QueueInv'
  BY <1>1, <1>2, <1>3 DEF QueueInv
<1>5. GlobalsInv'
  BY <1>1, <1>2, <1>3 DEF GlobalsInv
<1>6. ResultInv'
  <2>1. finished = TRUE
    BY <1>3 DEF LoginStore, TypeOK, SessionTypeOK
  <2>2. luaState # "none" /\ host = "none" => calls = <<Ok, Ok>>
    BY <1>1, <2>1 DEF ResultInv
  <2> QED BY <1>1, <1>2, <1>3, <2>1, <2>2 DEF ResultInv, Ok
<1>7. InflightInv'
  BY <1>1, <1>2, CallsDiffer DEF InflightInv, Without
<1> QED BY <1>4, <1>5, <1>6, <1>7

\* The completion of a request that calls BOT_CALLBACK.
LEMMA ResponseSession ==
  ASSUME TypeOK, TypeOK', SessionInv, Response, UNCHANGED loginVars
  PROVE  SessionInv'
<1> USE DEF SessionInv
<1>0. /\ budget \in Nat /\ inflight \in Nat /\ finished \in BOOLEAN
      /\ stored \in BOOLEAN /\ faults \subseteq FaultKinds /\ orphaned \in BOOLEAN
  BY DEF TypeOK, SessionTypeOK
<1>1. host = "login" /\ inflight > 0 /\ luaState = "open" /\ calls = <<>>
  BY DEF Response, GlobalsInv, Idle
<1>2. /\ UNCHANGED <<luaState, orphaned>>
      /\ \E o \in Outcomes :
           /\ Activation(o, finished, inflight - 1, budget)
           /\ \/ ~o.err /\ Stored(o, FALSE) /\ Waits(host, o.fin)
              \/ ~o.err /\ ~Stored(o, FALSE) /\ Succeeds(host, o.fin)
              \/ o.err /\ Raises(host, o.fin, FALSE)
  BY <1>1, ResponseCalls
<1>3. PICK o \in Outcomes :
        /\ Activation(o, finished, inflight - 1, budget)
        /\ \/ ~o.err /\ Waits("login", o.fin)
           \/ ~o.err /\ ~Stored(o, FALSE) /\ Succeeds("login", o.fin)
           \/ o.err /\ Raises("login", o.fin, FALSE)
  BY <1>1, <1>2
<1>4. login # NoLogin /\ checking = "none" /\ UNCHANGED <<login, checking, stored>>
  BY <1>1 DEF GlobalsInv, loginVars, TypeOK
<1>5. stored' = finished
  BY <1>0, <1>1, <1>4 DEF GlobalsInv
<1>6. inflight - 1 \in Nat
  BY <1>0, <1>1
<1>7. Without({"late_raise", "parallel"})' => ~orphaned' /\ inflight - 1 = 0
  <2>1. faults \subseteq faults'
    BY <1>0, <1>3, <1>6, FaultsAvoided
  <2>2. Without({"late_raise", "parallel"})' => Without({"late_raise", "parallel"})
    BY <2>1 DEF Without
  <2> QED BY <1>0, <1>1, <1>2, <2>2 DEF InflightInv
<1> QED BY <1>0, <1>1, <1>2, <1>3, <1>4, <1>5, <1>6, <1>7, ActivationSession

\* A request that ends with no callback to call, or with an error.
LEMMA FailureSession ==
  ASSUME TypeOK, TypeOK', SessionInv, UnexpectedResponse \/ FailedRequest,
         UNCHANGED loginVars
  PROVE  SessionInv'
<1> USE DEF SessionInv
<1>0. inflight \in Nat /\ finished \in BOOLEAN /\ stored \in BOOLEAN
      /\ host \in {"login", "none"} /\ orphaned \in BOOLEAN
  BY DEF TypeOK, SessionTypeOK
<1>1. /\ luaState = "open" /\ inflight > 0 /\ inflight' = inflight - 1 /\ calls = <<>>
      /\ UNCHANGED <<finished, faults, login, checking, stored>>
      /\ OnError(inflight - 1, <<>>)
  BY DEF UnexpectedResponse, FailedRequest, Idle, loginVars
<1>2. (finished => stored) /\ (stored /\ host = "login" => finished)
  BY <1>0, <1>1 DEF GlobalsInv
<1>3. login # NoLogin /\ checking = "none"
  BY <1>1 DEF GlobalsInv, TypeOK
<1>4. CASE /\ host # "none" /\ callback' = FALSE
           /\ calls' = FinalQueue(host, FALSE, "err")
           /\ UNCHANGED <<luaState, host, orphaned>>
  <2>1. host = "login" /\ calls' = <<Err>>
    BY <1>0, <1>4, LoginQueues
  <2>2. QueueInv'
    BY <1>1, <1>4, <2>1 DEF QueueInv
  <2>3. GlobalsInv'
    BY <1>1, <1>2, <1>3, <1>4, <2>1, CallsDiffer DEF GlobalsInv
  <2>4. ResultInv'
    BY <1>1, <1>2, <1>4, <2>1 DEF ResultInv
  <2>5. InflightInv'
    <3>1. Without({"late_raise", "parallel"})' => Without({"late_raise", "parallel"})
      BY <1>1 DEF Without
    <3>2. Without({"late_raise", "parallel"}) => ~orphaned /\ inflight = 1
      BY <1>0, <1>1 DEF InflightInv
    <3>3. luaState' # "freed" /\ orphaned' = orphaned /\ (inflight = 1 => inflight' = 0)
      BY <1>1, <1>4
    <3> QED BY <3>1, <3>2, <3>3 DEF InflightInv
  <2> QED BY <2>2, <2>3, <2>4, <2>5
<1>5. CASE /\ host = "none" /\ luaState' = "freed"
           /\ orphaned' = (orphaned \/ inflight - 1 > 0)
           /\ calls' = <<>>
           /\ UNCHANGED <<callback, host>>
  <2>1. FALSE
    BY <1>1, <1>5, CallsDiffer DEF ResultInv
  <2> QED BY <2>1
<1> QED BY <1>1, <1>4, <1>5, OnErrorCalls

-----------------------------------------------------------------------------
\* The state before init is called.
LEMMA InitSession == Init => SessionInv
BY LoginFacts, CallsDiffer DEF Init, SessionInit, SessionInv, QueueInv, GlobalsInv,
   ResultInv, InflightInv, Without

\* Every step keeps the session's side, unless it is a proxy change that comes
\* before init has answered.
LEMMA NextSession ==
  TypeOK /\ TypeOK' /\ AnswerInv /\ (~interfered => SessionInv) /\ [Next]_vars
    => (~interfered' => SessionInv')
<1> SUFFICES ASSUME TypeOK, TypeOK', AnswerInv, ~interfered => SessionInv,
                    [Next]_vars, ~interfered'
             PROVE  SessionInv'
  OBVIOUS
<1>0. interfered = FALSE /\ interfered \in BOOLEAN
  BY DEF TypeOK, Next, CheckDone, HandleLogin, RequestDone, loginVars, vars,
     InitLogin, InitCheck, SetProxy, Shutdown, CheckFailed, CheckPassed, LoginError,
     LoginStore, LoginDone
<1>1. SessionInv
  BY <1>0
<1>2. ASSUME luaState = "none"
      PROVE  /\ Without({"late_raise", "parallel"}) => ~orphaned /\ inflight = 0
             /\ stored = FALSE
  BY <1>1, <1>2 DEF SessionInv, GlobalsInv, QueueInv, InflightInv, TypeOK
<1>3. CASE InitLogin
  <2>1. luaState = "none"
    BY <1>1, <1>3 DEF InitLogin, AnswerInv, SessionInv, GlobalsInv
  <2>2. Bind("init", 2, <<>>) /\ checking' = "none" /\ stored' = FALSE
    BY <1>2, <1>3, <2>1 DEF InitLogin, AnswerInv
  <2>3. login' # NoLogin
    BY <2>2, LoginFacts DEF Bind, Login, NoLogin
  <2> QED BY <1>2, <2>1, <2>2, <2>3, BindSession
<1>4. CASE CheckPassed
  <2>1. luaState = "none" /\ checking # "none"
    BY <1>1, <1>4 DEF CheckPassed, SessionInv, GlobalsInv
  <2>2. Bind(checking, 2, <<>>) /\ checking' = "none" /\ stored' = FALSE
    BY <1>2, <1>4, <2>1 DEF CheckPassed
  <2>3. login' # NoLogin
    BY <2>1, <2>2 DEF Bind, NoLogin
  <2> QED BY <1>2, <2>1, <2>2, <2>3, BindSession
<1>5. CASE InitCheck \/ SetProxy \/ CheckFailed \/ Shutdown \/ UNCHANGED vars
  <2>1. UNCHANGED <<login, stored, luaState, callback, finished, host, inflight,
                    calls, orphaned, faults>>
    BY <1>5 DEF InitCheck, SetProxy, CheckFailed, Shutdown, vars, loginVars, sessionVars
  <2>2. checking' # "none" => login' = NoLogin
    <3>1. CASE checking' = checking
      BY <1>1, <2>1, <3>1 DEF SessionInv, GlobalsInv
    <3>2. CASE InitCheck
      BY <2>1, <3>2 DEF InitCheck, AnswerInv
    <3>3. CASE SetProxy
      <4>1. ~InitPending /\ called /\ ~proxy_active /\ proxy_active \in BOOLEAN
        BY <1>0, <3>3 DEF SetProxy, InitPending, TypeOK
      <4>2. login.purpose # "init" /\ login.purpose # "proxy"
        BY <4>1 DEF AnswerInv, ProxyFlagMatches
      <4> QED BY <2>1, <4>2, LoginFacts DEF TypeOK
    <3> QED BY <1>5, <3>1, <3>2, <3>3 DEF CheckFailed, Shutdown, vars, loginVars
  <2>3. QueueInv' /\ ResultInv' /\ InflightInv'
    BY <1>1, <2>1 DEF SessionInv, QueueInv, ResultInv, InflightInv, Without
  <2>4. GlobalsInv'
    BY <1>1, <2>1, <2>2 DEF SessionInv, GlobalsInv
  <2> QED BY <2>3, <2>4 DEF SessionInv
<1>6. CASE LoginError
  BY <1>1, <1>6, HandleLoginSession DEF LoginError, GiveUp
<1>7. CASE LoginStore
  BY <1>1, <1>7, StoreSession
<1>8. CASE LoginDone
  BY <1>1, <1>8, HandleLoginSession DEF LoginDone, GiveUp
<1>9. CASE RequestDone
  BY <1>1, <1>9, ResponseSession, FailureSession DEF RequestDone, Completion
<1> QED BY <1>3, <1>4, <1>5, <1>6, <1>7, <1>8, <1>9 DEF Next, CheckDone, HandleLogin

\* The initial states have the invariant.
LEMMA InitInv == Init => IInv
BY InitType, InitAnswers, InitSession DEF IInv

\* Every step keeps it.
LEMMA NextInv == IInv /\ [Next]_vars => IInv'
BY NextType, NextAnswers, NextSession DEF IInv

\* What the handlers of the login do to the entry of bots_, to modules_ and to
\* the answers of init: shutdown alone takes a bot away, and only the login of an
\* init that has not answered loads modules.
LEMMA HandlersOnBot ==
  ASSUME IInv,
         \/ InitLogin \/ InitCheck \/ SetProxy
         \/ CheckDone \/ HandleLogin \/ RequestDone
  PROVE  /\ registered' = registered
         /\ loaded' = loaded \/ (InitPending /\ loaded' = TRUE)
         /\ answers # <<>> => answers' # <<>>
<1>1. TypeOK /\ AnswerInv
  BY DEF IInv
<1>2. ASSUME NEW outcome \in {"ok", "err"} PROVE Append(answers, outcome) # <<>>
  BY <1>1 DEF TypeOK
<1>3. ASSUME NEW outcome \in {"ok", "err"}, Answer(outcome)
      PROVE  /\ registered' = registered
             /\ loaded' = loaded \/ (InitPending /\ loaded' = TRUE)
             /\ answers # <<>> => answers' # <<>>
  BY <1>1, <1>2, <1>3 DEF Answer, AnswerInv, TypeOK
<1>4. ASSUME Retry
      PROVE  UNCHANGED <<registered, loaded, answers>>
  BY <1>4 DEF Retry, Bind, ReplaceRun
<1>5. CASE InitLogin \/ InitCheck \/ SetProxy
  BY <1>1, <1>5 DEF InitLogin, InitCheck, SetProxy, Bind, ReplaceRun, sessionVars,
     AnswerInv
<1>6. CASE CheckDone
  BY <1>1, <1>2, <1>6 DEF CheckDone, CheckFailed, CheckPassed, Bind, ReplaceRun,
     sessionVars
<1>7. CASE HandleLogin
  BY <1>3, <1>4, <1>7 DEF HandleLogin, LoginError, LoginStore, LoginDone, GiveUp
<1>8. CASE RequestDone
  BY <1>8 DEF RequestDone, Completion, Response, UnexpectedResponse, FailedRequest,
     loginVars
<1> QED BY <1>5, <1>6, <1>7, <1>8

(***************************************************************************)
(* The invariant of the login: the answers, the proxy flag and login_cb_   *)
(* go together whatever happens, and as long as no proxy change has come   *)
(* before init's answer, handle_login is called in the order and as often  *)
(* as login_result_stored_ expects.                                        *)
(***************************************************************************)
THEOREM InvariantHolds == Spec => []IInv
BY InitInv, NextInv, PTL DEF Spec

\* The callback of bot::init is called once at most, whatever scripts, proxy
\* changes and shutdowns do (answers).
THEOREM AnsweredOnceHolds == Spec => []AnsweredOnce
<1>1. IInv => AnsweredOnce
  <2> SUFFICES ASSUME IInv PROVE Len(answers) <= 1
    BY DEF AnsweredOnce
  <2>1. Len(<<>>) <= 1 /\ Len(<<"ok">>) <= 1 /\ Len(<<"err">>) <= 1
    OBVIOUS
  <2>2. answers = <<>> \/ answers = <<"ok">> \/ answers = <<"err">>
    BY DEF IInv, AnswerInv
  <2> QED BY <2>1, <2>2, Zenon
<1> QED BY <1>1, InvariantHolds, PTL

\* proxy_check_active_ is set exactly while a list is checked or used for a login.
THEOREM ProxyFlagMatchesHolds == Spec => []ProxyFlagMatches
<1>1. IInv => ProxyFlagMatches
  BY DEF IInv, AnswerInv
<1> QED BY <1>1, InvariantHolds, PTL

\* modules_ is filled when init succeeds, and only then.
THEOREM ModulesMatchAnswerHolds == Spec => []ModulesMatchAnswer
<1>1. IInv => ModulesMatchAnswer
  <2> SUFFICES ASSUME IInv PROVE ModulesMatchAnswer
    OBVIOUS
  <2>1. ASSUME "ok" \in Range(answers) PROVE answers = <<"ok">>
    <3>1. PICK i \in DOMAIN answers : answers[i] = "ok"
      BY <2>1 DEF Range
    <3>2. CASE answers = <<"err">>
      BY <3>1, <3>2
    <3> QED BY <3>1, <3>2 DEF IInv, AnswerInv
  <2>2. ASSUME "err" \in Range(answers) PROVE answers # <<"ok">>
    <3>1. PICK i \in DOMAIN answers : answers[i] = "err"
      BY <2>2 DEF Range
    <3> QED BY <3>1
  <2> QED BY <2>1, <2>2 DEF IInv, AnswerInv, ModulesMatchAnswer
<1> QED BY <1>1, InvariantHolds, PTL

(***************************************************************************)
(* A stored result was reported by on_finish of the script that is being   *)
(* executed (login_result_stored_, BOT_FINISH).                            *)
(***************************************************************************)
THEOREM StoredResultIsOwnHolds == Spec => []StoredResultIsOwn
<1>1. IInv => StoredResultIsOwn
  BY DEF IInv, SessionInv, ResultInv, StoredResultIsOwn, Without
<1> QED BY <1>1, InvariantHolds, PTL

\* No request outlives the state of the login it was made for (login_cb_ and
\* the lua_State* in the completion of a request).
THEOREM LoginKeepsStateHolds == Spec => []LoginKeepsState
<1>1. IInv => LoginKeepsState
  BY DEF IInv, SessionInv, InflightInv, LoginKeepsState, NoUseAfterClose
<1> QED BY <1>1, InvariantHolds, PTL

(***************************************************************************)
(* handle_login binds login_cb_ anew or resets it only with the last of    *)
(* the calls the executing handler makes, so that no script goes on on a   *)
(* state that has been closed.                                             *)
(***************************************************************************)
THEOREM ClosedByLastCallHolds == Spec => ClosedByLastCall
<1> DEFINE Last == login' # login /\ ~interfered => Len(calls) <= 1
<1>1. IInv /\ [Next]_vars => [Last]_vars
  <2> SUFFICES ASSUME IInv, Next, login' # login, ~interfered
               PROVE  Len(calls) <= 1
    OBVIOUS
  <2>0. TypeOK /\ AnswerInv /\ SessionInv
    BY DEF IInv
  <2>1. Len(<<>>) <= 1 /\ Len(<<Ok>>) <= 1 /\ Len(<<Err>>) <= 1
    OBVIOUS
  <2>2. CASE InitLogin
    BY <2>0, <2>1, <2>2 DEF InitLogin, AnswerInv, SessionInv, GlobalsInv, QueueInv
  <2>3. CASE CheckPassed
    BY <2>1, <2>3 DEF CheckPassed, Idle
  <2>4. CASE LoginError \/ LoginDone
    <3>1. calls = <<Ok>> \/ calls = <<Err>>
      BY <2>0, <2>4, LastCall DEF LoginError, LoginDone
    <3> QED BY <2>1, <3>1, Zenon
  <2>5. CASE InitCheck \/ SetProxy \/ Shutdown \/ CheckFailed \/ LoginStore \/ RequestDone
    BY <2>5 DEF InitCheck, SetProxy, Shutdown, CheckFailed, LoginStore, RequestDone,
       loginVars
  <2> QED BY <2>2, <2>3, <2>4, <2>5 DEF Next, CheckDone, HandleLogin
<1> QED BY <1>1, InvariantHolds, PTL DEF Spec, ClosedByLastCall

=============================================================================
