----------------------------- MODULE BotBrowser -----------------------------
(***************************************************************************)
(* The browser of a bot (src/src/bot_browser.cc, proxy_check.h): requests  *)
(* that are retried, the list of working proxies, its checks, and the      *)
(* rotation of the proxy in use.  What a single HTTP request does is       *)
(* reduced to its outcome; all of it runs on the io_service thread.        *)
(***************************************************************************)
EXTENDS Integers, Sequences, FiniteSets, Functions

CONSTANTS
  Proxies,     \* host:port strings
  NoProxy,     \* the webclient connects directly
  Requests     \* bound: HTTP calls of scripts that may be under way at once

ASSUME ProxyAssumption == NoProxy \notin Proxies
ASSUME FiniteAssumption == IsFiniteSet(Proxies) /\ IsFiniteSet(Requests)

VARIABLES
  good,       \* good_
  checks,     \* the keys of proxy_checks_
  waiting,    \* callbacks of set_proxy_list that have not been called
  current,    \* current_proxy_, -1 for size_t(-1)
  in_use,     \* the proxy set in the webclient
  errors,     \* entries of error_log_
  tries       \* tries left of each request under way, Idle for the others

proxyVars == <<good, checks, waiting, current, in_use>>
vars == <<proxyVars, errors, tries>>

Idle == -1          \* no such request
Tries == 3          \* the argument lua_http gives request_with_retry
ErrorLimit == 3     \* log_error changes the proxy above it
ErrorBound == ErrorLimit + 1  \* bound: entries above the limit make no difference

AtMost(n, bound) == IF n > bound THEN bound ELSE n

Init ==
  /\ good = <<>>
  /\ checks = {}
  /\ waiting = 0
  /\ current = -1
  /\ in_use = NoProxy
  /\ errors = 0
  /\ tries = [r \in Requests |-> Idle]

-----------------------------------------------------------------------------
\* Mutant of NextIndex: starts anew before the last proxy.
NextIndexEarly(list) ==
  IF current = -1 \/ current >= Len(list) - 2 THEN 0 ELSE current + 1

\* The index change_proxy goes to: the unsigned -1 counts as beyond the end.
NextIndex(list) ==
  IF current = -1 \/ current >= Len(list) - 1 THEN 0 ELSE current + 1

\* change_proxy, on the list as it is now.
ChangeProxy(list) ==
  \/ /\ list = <<>>
     /\ UNCHANGED <<current, in_use>>
  \/ /\ Len(list) = 1
     /\ in_use' = list[1]
     /\ UNCHANGED current
  \/ /\ Len(list) > 1
     /\ current' = NextIndex(list)
     /\ in_use' = list[current' + 1]

\* The proxies of s that are in list, in their order: SelectSeq, written out to
\* be reasoned about.
Listed(s, list) ==
  LET kept[i \in 0..Len(s)] ==
        IF i = 0 THEN <<>>
        ELSE IF s[i] \in list THEN Append(kept[i - 1], s[i]) ELSE kept[i - 1]
  IN  kept[Len(s)]

\* Mutants of SetProxyList: good_ is not looked at; active checks are not.
SetProxyListChecksAll(list) ==
  /\ checks = {} /\ list # {}
  /\ good' = Listed(good, list)
  /\ checks' = list
  /\ waiting' = waiting + 1
  /\ UNCHANGED <<current, in_use, errors, tries>>
SetProxyListAlways(list) ==
  /\ list # {}
  /\ good' = Listed(good, list)
  /\ checks' = checks \cup (list \ Range(good'))
  /\ waiting' = IF checks' = checks THEN waiting ELSE waiting + 1
  /\ UNCHANGED <<current, in_use, errors, tries>>

\* set_proxy_list while no check is active: proxies that are not listed any
\* more are forgotten, new ones are checked.  With nothing to check the
\* callback is called at once; so it is for a list without a valid proxy and
\* for one that comes while checks are active, and nothing else happens then.
SetProxyList(list) ==
  /\ checks = {} /\ list # {}
  /\ good' = Listed(good, list)
  /\ checks' = list \ Range(good')
  /\ waiting' = IF checks' = {} THEN waiting ELSE waiting + 1
  /\ UNCHANGED <<current, in_use, errors, tries>>

\* Mutant of CheckFinish: only a success calls back.
CheckFinishWorking(p, works) ==
  /\ p \in checks
  /\ checks' = checks \ {p}
  /\ good' = IF works THEN Append(good, p) ELSE good
  /\ ChangeProxy(good')
  /\ waiting' = IF checks' = {} /\ good' # <<>> THEN waiting - 1 ELSE waiting
  /\ UNCHANGED <<errors, tries>>

\* proxy_check_callback.  The last check to finish calls back.
CheckFinish(p, works) ==
  /\ p \in checks
  /\ checks' = checks \ {p}
  /\ good' = IF works THEN Append(good, p) ELSE good
  /\ \/ /\ checks' = {}
        /\ ChangeProxy(good')
        /\ waiting' = waiting - 1
     \/ /\ checks' # {}
        /\ UNCHANGED <<current, in_use, waiting>>
  /\ UNCHANGED <<errors, tries>>

\* bot::handle_login changes the proxy before it retries.
LoginRetry ==
  /\ ChangeProxy(good)
  /\ UNCHANGED <<good, checks, waiting, errors, tries>>

-----------------------------------------------------------------------------
\* request_with_retry or submit_with_retry is called by a script.
Request(r) ==
  /\ tries[r] = Idle
  /\ tries' = [tries EXCEPT ![r] = Tries]
  /\ UNCHANGED <<proxyVars, errors>>

\* The script's callback is called, with the response or the last error.
CallBack(r) == tries' = [tries EXCEPT ![r] = Idle]

\* request_cb with a response.
Succeed(r) ==
  /\ tries[r] # Idle
  /\ CallBack(r)
  /\ UNCHANGED <<proxyVars, errors>>

\* request_cb with an error and tries left: another attempt.
RetryRequest(r) ==
  /\ tries[r] > 0
  /\ tries' = [tries EXCEPT ![r] = @ - 1]
  /\ UNCHANGED <<proxyVars, errors>>

\* log_error: the entries of the last hour (any number of those there were) and
\* the new one are kept.
LogError ==
  /\ \E recent \in 0..errors : errors' = AtMost(recent + 1, ErrorBound)
  /\ \/ errors' > ErrorLimit /\ ChangeProxy(good)
     \/ errors' <= ErrorLimit /\ UNCHANGED <<current, in_use>>

\* Mutant of Fail: the last error is logged, but the script does not get it.
FailSilently(r) ==
  /\ tries[r] = 0
  /\ LogError
  /\ UNCHANGED <<good, checks, waiting, tries>>

\* request_cb with an error and no try left.
Fail(r) ==
  /\ tries[r] = 0
  /\ LogError
  /\ CallBack(r)
  /\ UNCHANGED <<good, checks, waiting>>

-----------------------------------------------------------------------------
FinishChecks == \E p \in checks, works \in BOOLEAN : CheckFinish(p, works)
Attempt(r) == Succeed(r) \/ RetryRequest(r) \/ Fail(r)

Next == \/ \E list \in SUBSET Proxies : SetProxyList(list)
        \/ FinishChecks
        \/ LoginRetry
        \/ \E r \in Requests : Request(r) \/ Attempt(r)

\* Checks and attempts have timeouts, so that each of them ends.
Fairness ==
  /\ WF_vars(FinishChecks)
  /\ \A r \in Requests : WF_vars(Attempt(r))

Spec == Init /\ [][Next]_vars /\ Fairness

-----------------------------------------------------------------------------
TypeOK ==
  /\ good \in Seq(Proxies)
  /\ checks \in SUBSET Proxies
  /\ waiting \in Nat
  /\ current \in {-1} \cup 0..Cardinality(Proxies)
  /\ in_use \in Proxies \cup {NoProxy}
  /\ errors \in 0..ErrorBound
  /\ tries \in [Requests -> {Idle} \cup 0..Tries]

(***************************************************************************)
(* Proxies are listed once and never listed and checked at the same time,  *)
(* over any sequence of lists and check results: a proxy that is listed    *)
(* twice is used twice as often and survives its removal.                  *)
(***************************************************************************)
ListedOnce ==
  /\ IsInjective(good)
  /\ Range(good) \cap checks = {}

\* Exactly one callback of set_proxy_list waits while checks are active, and
\* none is forgotten when they are over.
OneCallbackWaits == waiting = IF checks = {} THEN 0 ELSE 1

\* The three are one invariant; without ListedOnce the list has no bound.
IInv == TypeOK /\ ListedOnce /\ OneCallbackWaits

\* The callback of an accepted proxy list is called (bot::init goes on with it).
ListAnswered == waiting > 0 ~> waiting = 0

\* A script that has made an HTTP call gets its response or its error.
RequestAnswered == \A r \in Requests : tries[r] # Idle ~> tries[r] = Idle

(***************************************************************************)
(* The rotation leaves no proxy out: as long as the list stays as it is    *)
(* and the proxy is changed again and again, every listed proxy is used    *)
(* again and again.                                                        *)
(***************************************************************************)
RotationIsFair ==
  \A p \in Proxies :
    <>[][good' = good]_vars /\ <>[](p \in Range(good)) /\ []<><<LoginRetry>>_vars
      => []<>(in_use = p)

(***************************************************************************)
(* "Change proxy if proxy failed >3 times last hour." (bot_browser.cc):    *)
(* when a request fails and the log is full, and there is another proxy,   *)
(* another one is used.                                                    *)
(***************************************************************************)
FailingProxyIsLeft ==
  [][\A r \in Requests :
       Fail(r) /\ errors' > ErrorLimit /\ Cardinality(Range(good)) > 1
         => in_use' # in_use]_vars

=============================================================================
