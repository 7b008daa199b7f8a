----------------------------- MODULE LuaSession -----------------------------
(***************************************************************************)
(* One Lua state executing one package script: the globals the C++ side    *)
(* keeps in it (BOT_CALLBACK, BOT_FINISH, BOT_LOGIN_CB) and the HTTP       *)
(* requests bound to it (lua/lua_connection.cc, lua/lua_http.cc,           *)
(* lua/state_wrapper.h).  The module has no specification of its own: its  *)
(* hosts (ScriptHost, BotModule, BotLogin) start the script and receive    *)
(* the calls of on_finish_cb it queues in calls.                           *)
(*                                                                         *)
(* The code runs on one io_service thread, so one handler runs to its end  *)
(* before the next.  A handler that calls the host back several times is   *)
(* split: the calls it makes are queued in calls, and no event is          *)
(* delivered before the host has handled them all (Idle).                  *)
(***************************************************************************)
EXTENDS Naturals, Sequences

CONSTANT
  MaxRequests   \* bound: HTTP calls one script run makes

(***************************************************************************)
(* What a script can do that the interface does not prevent:               *)
(*   silent       returns with no on_finish, no request and no error       *)
(*   late_raise   raises after it has started a request                    *)
(*   failed_call  makes an HTTP call that fails to start                   *)
(*   parallel     starts a request while another one is in flight          *)
(***************************************************************************)
FaultKinds == {"silent", "late_raise", "failed_call", "parallel"}

ASSUME MaxRequestsAssumption == MaxRequests \in Nat \ {0}

VARIABLES
  luaState,    \* "none": no wrapper; "open"; "freed": closed under its wrapper
  callback,    \* BOT_CALLBACK holds a function
  finished,    \* BOT_FINISH is true
  host,        \* whose callback BOT_LOGIN_CB points to, "none" when nil
  inflight,    \* requests whose completion is bound to this lua_State*
  budget,      \* HTTP calls this run may still make
  calls,       \* on_finish_cb calls made by the current handler, not yet taken
  orphaned,    \* a request in flight points to a lua_State that has been closed
  registered,  \* get_bot() finds the bot of this state in bots_
  faults       \* history: the faults scripts have committed so far

sessionVars == <<luaState, callback, finished, host, inflight, budget, calls,
                 orphaned, registered, faults>>

Idle == calls = <<>>

HostCall(h, arg) == [to |-> h, arg |-> arg]

-----------------------------------------------------------------------------
(***************************************************************************)
(* One activation of the script: a call of lua_connection::exec.  req is   *)
(* the number of requests it started, stored says that an HTTP call failed *)
(* after BOT_CALLBACK had been set (no bot for the state, no such form),   *)
(* fin that on_finish was called, err that the activation raised.          *)
(***************************************************************************)
Outcomes == [req : 0..MaxRequests, stored : BOOLEAN, fin : BOOLEAN,
             err : BOOLEAN]

\* What lua_http.get/post/submit_form and on_finish let a script do: no
\* request and no second on_finish once BOT_FINISH is set, no request for a
\* state whose bot is not registered.
Possible(o, fin0, b0) ==
  /\ o.req <= b0
  /\ fin0 => o.req = 0 /\ ~o.stored /\ ~o.fin
  /\ ~registered => o.req = 0

\* The faults an activation commits.  An http call of an unregistered bot fails
\* whatever the script does: then it is no fault to let the exception out.
Misdeeds(o, fin0, infl0) ==
  {k \in FaultKinds :
     \/ /\ k = "silent"
        /\ ~fin0 /\ ~o.fin /\ ~o.err /\ ~o.stored /\ o.req = 0
     \/ k = "late_raise" /\ o.err /\ o.req > 0
     \/ k = "failed_call" /\ o.stored /\ (registered \/ ~o.err)
     \/ k = "parallel" /\ infl0 + o.req > 1}

\* Mutant of Stored: on_req_finish calls BOT_CALLBACK without clearing it.
StoredNotCleared(o, cb0) == cb0 \/ o.stored \/ o.req > 0 \/ callback

\* BOT_CALLBACK after the activation, cb0 being its value before.
Stored(o, cb0) == cb0 \/ o.stored \/ o.req > 0

\* Mutant of FinishCall: on_finish leaves everything to the second call.
FinishCallNever(o, h) == <<>>

\* The call on_finish makes from inside the activation.
FinishCall(o, h) == IF o.fin /\ h # "none" THEN <<HostCall(h, "ok")>> ELSE <<>>

\* The part every activation has in common, from BOT_FINISH = fin0, infl0
\* requests in flight and b0 requests still to be made.
Activation(o, fin0, infl0, b0) ==
  /\ Possible(o, fin0, b0)
  /\ finished' = (fin0 \/ o.fin)
  /\ inflight' = infl0 + o.req
  /\ budget' = b0 - o.req
  /\ faults' = faults \cup Misdeeds(o, fin0, infl0)

-----------------------------------------------------------------------------
\* Mutants of Finalize: BOT_CALLBACK is not looked at; BOT_LOGIN_CB is cleared
\* in both cases.
FinalizeAlways(cb, h, made) ==
  /\ callback' = cb
  /\ host' = "none"
  /\ calls' = Append(made, HostCall(h, "ok"))
FinalizeForgetsHost(cb, h, made) ==
  /\ callback' = cb
  /\ host' = "none"
  /\ calls' = IF cb THEN made ELSE Append(made, HostCall(h, "ok"))

\* finalize_if_last_async: an asynchronous call is pending when BOT_CALLBACK
\* is set; otherwise the host is called a second time and forgotten.  A call
\* to "none" stands for the assert(false) of the function.
Finalize(cb, h, made) ==
  \/ /\ cb
     /\ callback' = TRUE
     /\ host' = h
     /\ calls' = made
  \/ /\ ~cb
     /\ callback' = FALSE
     /\ host' = "none"
     /\ calls' = Append(made, HostCall(h, "ok"))

\* Mutant of Raise: the catch clause falls through to finalize_if_last_async.
RaiseFallsThrough(cb, h, made) ==
  /\ callback' = cb
  /\ host' = "none"
  /\ calls' = made \o <<HostCall(h, "err"), HostCall(h, "ok")>>

\* The host's callback gets the error; BOT_CALLBACK stays as the script left it
\* (the catch clauses of login, module_run and module_finally).
Raise(cb, h, made) ==
  /\ callback' = cb
  /\ host' = h
  /\ calls' = Append(made, HostCall(h, "err"))

\* Mutant of OnError: BOT_CALLBACK is left as it is.
OnErrorKeepsCallback(infl, made) ==
  /\ host # "none"
  /\ calls' = Append(made, HostCall(host, "err"))
  /\ UNCHANGED <<luaState, callback, host, orphaned>>

\* on_error with infl requests in flight: a registered host gets the error and
\* BOT_CALLBACK is cleared; without a host the state is closed on the spot.
OnError(infl, made) ==
  \/ /\ host # "none"
     /\ callback' = FALSE
     /\ calls' = Append(made, HostCall(host, "err"))
     /\ UNCHANGED <<luaState, host, orphaned>>
  \/ /\ host = "none"
     /\ luaState' = "freed"
     /\ orphaned' = (orphaned \/ infl > 0)
     /\ calls' = made
     /\ UNCHANGED <<callback, host>>

\* The end of login, module_run and module_finally.
Conclude(o, h, cb, made) ==
  \/ o.err /\ Raise(cb, h, made)
  \/ ~o.err /\ Finalize(cb, h, made)

\* run() on a new state and module_finally() on the open one: host h is
\* registered, the function executed, the outcome told to h.  rest are the
\* calls still to be taken, cb0 what BOT_CALLBACK holds.
SyncRun(h, cb0, rest) ==
  \E o \in Outcomes :
    /\ Activation(o, FALSE, inflight, budget)
    /\ Conclude(o, h, Stored(o, cb0), rest \o FinishCall(o, h))
    /\ luaState' = "open"
    /\ UNCHANGED <<orphaned, registered>>

\* run() on a new state when the assignment of the host's callback drops the
\* last reference to the state used before: that one is closed.
ReplaceRun(h, rest) ==
  \E o \in Outcomes :
    /\ Activation(o, FALSE, 0, MaxRequests)
    /\ Conclude(o, h, Stored(o, FALSE), rest \o FinishCall(o, h))
    /\ luaState' = "open"
    /\ orphaned' = (orphaned \/ inflight > 0)
    /\ UNCHANGED registered

-----------------------------------------------------------------------------
\* on_req_finish with a response and BOT_CALLBACK set: the callback is cleared
\* and called.
Response ==
  /\ Idle /\ luaState = "open" /\ inflight > 0
  /\ callback
  /\ \E o \in Outcomes :
       /\ Activation(o, finished, inflight - 1, budget)
       /\ LET made == FinishCall(o, host)
              cb == Stored(o, FALSE)
          IN  \/ o.err /\ OnError(inflight', made)
              \/ /\ ~o.err
                 /\ Finalize(cb, host, made)
                 /\ UNCHANGED <<luaState, orphaned>>
  /\ UNCHANGED registered

\* on_req_finish with a response and no callback left to call.
UnexpectedResponse ==
  /\ Idle /\ luaState = "open" /\ inflight > 0
  /\ ~callback
  /\ inflight' = inflight - 1
  /\ OnError(inflight - 1, <<>>)
  /\ UNCHANGED <<finished, budget, registered, faults>>

\* on_req_finish with an error code: all retries of the browser failed.
FailedRequest ==
  /\ Idle /\ luaState = "open" /\ inflight > 0
  /\ inflight' = inflight - 1
  /\ OnError(inflight - 1, <<>>)
  /\ UNCHANGED <<finished, budget, registered, faults>>

Completion == Response \/ UnexpectedResponse \/ FailedRequest

\* The last reference to the state_wrapper goes away: lua_close().  Requests
\* still in flight keep the raw pointer.
CloseState ==
  /\ luaState' = "none"
  /\ callback' = FALSE
  /\ finished' = FALSE
  /\ host' = "none"
  /\ inflight' = 0
  /\ budget' = MaxRequests
  /\ orphaned' = (orphaned \/ inflight > 0)

\* bot::shutdown of the bot this state belongs to: lua_connection::remove.
Deregister ==
  /\ registered' = FALSE

SessionInit ==
  /\ luaState = "none"
  /\ callback = FALSE
  /\ finished = FALSE
  /\ host = "none"
  /\ inflight = 0
  /\ budget = MaxRequests
  /\ calls = <<>>
  /\ orphaned = FALSE
  /\ faults = {}

-----------------------------------------------------------------------------
SessionTypeOK(hosts) ==
  /\ luaState \in {"none", "open", "freed"}
  /\ callback \in BOOLEAN
  /\ finished \in BOOLEAN
  /\ host \in hosts \cup {"none"}
  /\ inflight \in Nat
  /\ budget \in Nat
  /\ calls \in Seq([to : hosts \cup {"none"}, arg : {"ok", "err"}])
  /\ orphaned \in BOOLEAN
  /\ registered \in BOOLEAN
  /\ faults \subseteq FaultKinds

(***************************************************************************)
(* The assert(false) of finalize_if_last_async never fires: whenever an    *)
(* activation ends with BOT_CALLBACK nil, BOT_LOGIN_CB still points to a   *)
(* host.  (BOT_LOGIN_CB is cleared by an earlier finalize, so this needs   *)
(* that nothing runs on the state after that one.)                         *)
(***************************************************************************)
AssertHolds == \A i \in DOMAIN calls : calls[i].to # "none"

\* No script has committed any of these faults so far.
Without(kinds) == faults \cap kinds = {}

(***************************************************************************)
(* No request in flight outlives the lua_State its completion handler      *)
(* points to, and no state is closed under the wrapper that will close it  *)
(* again - as long as no script raises after it has started a request or   *)
(* starts several at a time.                                               *)
(***************************************************************************)
NoUseAfterClose ==
  Without({"late_raise", "parallel"}) => ~orphaned /\ luaState # "freed"

(***************************************************************************)
(* "Otherwise (BOT_CALLBACK is set), the asynchronous function will do     *)
(* this" (lua_connection.cc): between events, a callback that is set is    *)
(* one a request in flight will call.                                      *)
(***************************************************************************)
PendingIsInFlight == Idle /\ callback => inflight > 0

\* The same promise, which only an HTTP call that fails to start breaks.
AsyncWillFinish == Without({"failed_call"}) => PendingIsInFlight

=============================================================================
