# botscript in TLA+

botscript runs browser-game bots: a *bot* logs in to a server through a
*package* of Lua scripts and then executes the *modules* of the package again
and again, each in Lua states of its own, with HTTP requests in between that are
asynchronous on the C++ side. This directory models the parts of it whose
behaviour depends on the order of events, checks them with TLC, and proves some
of their properties for every size with TLAPS.

The paths below are those of the repository, its C++ code being in `src/src/`.

## 1. The system

`main.cc` reads configurations, makes one `bot` for each, and runs one
`io_service` on one thread: every callback of the program is a handler of that
thread and runs to its end before the next. What makes the program hard is that
a single operation is spread over many handlers, that what one of them left in a
Lua global, a member or a map is read by a later one, and that commands,
timers, responses and shutdowns come in between.

| Component | State | Operations | Hard behaviour |
|---|---|---|---|
| Lua session: `lua_connection`, `lua_http`, `state_wrapper` | the globals `BOT_CALLBACK`, `BOT_FINISH`, `BOT_LOGIN_CB` of a `lua_State`; requests bound to it by raw pointer | `login`, `module_run`, `module_finally`, `on_finish`, `http.get/post/submit_form`, `on_req_finish`, `on_error`, `finalize_if_last_async` | the host of a script is called from inside and after its activations, in a documented pattern, and closes the state; scripts may do anything |
| `module` | `module_state_`, the timer, the stored flags of a run and of its finally function, the `active` status | `execute` (start/stop), `run`, `run_cb`, `finally`, `finally_cb` | commands between any two of its handlers; a timer that is cancelled or has already expired |
| `bot`: login, shutdown | `login_cb_`, `login_result_stored_`, `login_result_`, `proxy_check_active_`, `modules_` | `init`, `handle_login`, `base_set_proxy`, `shutdown` | three login tries, each on a new state; `init`, `base_set_proxy` and `shutdown` share the members |
| bot registry: `bots_` in `lua_connection` | map from identifiers to bots | `contains`, `add`, `remove`, `get_bot` | duplicate identifiers, check-then-act, scripts that outlive their bot |
| `webclient`: cookies and forms | `cookies_`, the cookie header, the parameters of a submit; a copy of the cookies in the configuration | `store_cookies`, `set_cookies_header`, `submit`, `extract_parameters`, `request_finish`; `bot_browser::request_cb` | redirects, retries and restarts between what the server sets and what is sent and saved |
| `bot_browser`, `proxy_check` | `good_`, `proxy_checks_`, `current_proxy_`, `error_log_` | `set_proxy_list`, `proxy_check_callback`, `change_proxy`, `request_with_retry`, `request_cb`, `log_error` | checks that end in any order, lists that change under the rotation, retries |
| HTTP request: `webclient`, `http_con`, `http_source` | one operation of a chain, a deadline timer, a socket, redirects; `buf_`, `response_` | resolve, connect, handshake, write, read header, read body | a timeout or an end of file in any phase; reads that split a message anywhere |
| configuration: `mem_bot_config`, the commands and shared variables of `bot` | module settings, `wait_time_factor_`, what the client was told | `execute`, `status`, `update_shared`, `init_command_sequence`, reading and writing of JSON | replay after a login, commands before and between, references that redirect commands |
| `package`, the rest of `lua_util`, http helpers, `main`, `generate_package.py` | none that lasts | reading, parsing, formatting | - |

How they interact: `bot::init` registers the bot, has `bot_browser` check its
proxies and starts the login script; its success loads the modules and replays
the configuration's commands, which start them. A module runs its script on a
new state; the script's HTTP calls find the bot through `get_bot` and go to its
browser, which retries them over `webclient`; the response re-enters the script
through `on_req_finish`. `bot::shutdown` may come at any time.

What makes each part correct:

- *session*: the host is called as `on_finish_cb` documents and nothing else,
  the pattern is completed, no assertion fires, no state is used after it was
  closed and none is waited for in vain;
- *module*: one script at a time, always something left that will run an active
  module, the stored status tells the truth, a stop and a shutdown take effect;
- *login*: `init` answers once and does answer, with its own result; a bot whose
  `init` succeeded has its modules until it is shut down, one whose `init` failed
  has none;
- *registry*: a live bot's scripts find it, a dead bot is not kept alive, no
  script gets another bot;
- *browser*: no proxy twice, one callback for each accepted list, every request
  answered, every proxy used, a failing proxy left and a good one kept;
- *configuration*: a bot is restored with the settings that were stored, before
  its modules start, and the client is told what holds;
- *request*: it ends, every wait is guarded by the timeout, what is delivered is
  the body the server sent;
- *web client*: the session the server has set is the one that is sent and the
  one that is saved; a form is sent with what the script asked for and what the
  page has in its other fields;
- *the whole bot*: its login brings a module in once, the stored configuration
  switches it on, nothing brings it back after the shutdown.

`PROJECT.json` lists the hazards behind these, each with the line where it bites
and the properties that would notice.

## 2. The modules

| Module | Models | Used by |
|---|---|---|
| `OnFinishContract` | abstract specification: the call sequences of `on_finish_cb` | `ScriptHost` (refinement) |
| `ModuleLoop` | abstract specification: what a module promises its bot and the user | `BotModule`, `BotLife` (refinement) |
| `LuaSession` | one Lua state: the actions and helpers of the session, no specification of its own | extended by the three hosts |
| `ScriptHost` | the most general host that follows the documentation | `ScriptHostProofs` |
| `BotModule` | `module.cc` as a host | `BotLife`, `BotModuleProofs` |
| `BotLogin` | `bot::init`, `handle_login`, `base_set_proxy`, `shutdown` as a host | `BotLife`, `BotLoginProofs` |
| `BotLife` | a bot from init to shutdown: `BotLogin` and `BotModule` composed | `BotLifeProofs` |
| `BotRegistry` | `bots_` and its clients | `MCBotRegistry`, `BotConfigProofs` |
| `BotConfig` | the settings, the commands that change them, their replay | `MCBotConfig`, `BotConfigProofs` |
| `BotBrowser` | the browser and its proxy checks | `MCBotBrowser`, `BotBrowserProofs` |
| `HttpSource` | messages of a server, the buffer operations of `http_source` | extended by `WebRequest` |
| `WebRequest` | one HTTP request: the chain, its timeout, the decoding of the body | `WebRequestProofs` |
| `FormParameters` | what is sent for a form (a function) | extended by `WebClient` |
| `StdMap` | assignment to entries of a `std::map` | extended by `BotConfig` and `WebClient` |
| `WebClient` | cookies and forms of one browser over all its requests | `MCWebClient`, `BotBrowserProofs` |
| `*Proofs` | the proofs (section 4); `LuaSessionProofs` has the lemmas about a session that `ScriptHostProofs` and `BotLoginProofs` share | `BotLifeProofs` instantiates those of its two sides |

`BotConfigProofs` and `BotBrowserProofs` extend two specifications each, which is
why those of `BotConfig` and `WebClient` are called `ConfigSpec` and `ClientSpec`.

**LuaSession.** The variables are the three globals (`callback`, `finished`,
`host`), the number of requests bound to the state (`inflight`) and whether the
state is open. A script is any program: one activation (a `lua_pcall`) is a
record of `Outcomes` - how many requests it started, whether a failed HTTP call
left `BOT_CALLBACK` set, whether it called `on_finish`, whether it raised.
`Possible` is what the C++ functions let a script do, and scripts do all of it.
`Misdeeds` names the faults among it, which the history variable `faults`
collects:

| Fault | The script | What then happens |
|---|---|---|
| `silent` | returns with no `on_finish`, request or error | its host is called once and waits for a second call, although `lua_connection.h:32-33` promises two |
| `late_raise` | raises after it has started a request | the host closes the state on the error, as `lua_connection.h:51` allows, and the response still points to it |
| `failed_call` | makes an HTTP call that fails to start, and catches the error | `BOT_CALLBACK` stays set with no request in flight: the host waits for ever |
| `parallel` | starts a request while another one is in flight | the first response may finish the run, the second then closes the state under its wrapper |

Nothing of this is forbidden by the interface. A property that needs a script
without one of these faults says so (`Without`), so that one run explores
everything and each property shows exactly what it depends on. `inflight` counts
the completions that will still be delivered: `BotBrowser` and `WebRequest` show
that each of them is.

A handler that calls the host several times (from `on_finish`, then from
`finalize_if_last_async` or the catch clause) queues the calls in `calls`; no
other handler runs before the queue is empty (`Idle`). In the program `on_finish`
calls the host from inside the script; in the model that call is handled after
the activation. The two agree because the host's first call only stores values:
that it never is the one that closes the state is proved, for `BotLogin` as
`ClosedByLastCall` and for `BotModule` as a part of `CallsInv`.

`orphaned` is set when a state is closed while requests are bound to it.
`luaState = "freed"` is a state `on_error` closed under the wrapper that will
close it again.

**BotModule.** `posted` and `timer` are the two ways a run is scheduled;
`timer = "ready"` is a wait handler that is queued, whether the timer expired or
was cancelled: `module::run` ignores the error code, which is what makes a stop
during the wait reach `OFF`. `result` is what `on_finish` was given:
`(-1, -1)` (`"off"`) or wait times.

**ModuleLoop.** A module without its five states, its timer and its Lua state: it
is switched on and off, and while it is on its script is run over and over, one run
at a time; it joins its bot once and, when it has left, is off for good. Under the
mapping `on` is the stored `active` status, `script` whether there is a Lua state,
`member` whether the module is in `modules_` (in `BotLife` also whether it is yet
to be loaded). `ImplementsLoop` is the whole refinement: every handler is one step of the loop or a stutter,
and from weak fairness of the handlers follows that of `StartScript` - a module
that stays on between two runs does run again.

**BotLogin.** `login` is what is bound in `login_cb_`: for whom, and the tries
left. Binding it anew drops the reference to the state bound before
(`ReplaceRun`). The proxy checks are one step here, with both results. The
history variable `interfered` says that a proxy change came before `init` had
answered: `base_set_proxy` then takes `login_cb_` away from the login of `init`
(with it go the answer, the closing of states by their last call and the stored
result). The properties that this breaks except it. A silent login script leaves
`nil` where `handle_login` asserts a boolean (`bot.cc:208`), and the program, which
is built with assertions, aborts: `LoginStore` asks for `finished`, and without it no
step of that login follows. (In `BotLife` the module's handlers go on then, which
allows more behaviours than the program has.) What the next login makes of a state
that has been closed is undefined and may be anything.

**BotLife.** Both modules are instantiated; the variables of their two Lua states
get the prefixes `l_` and `m_`, `registered` and `loaded` are shared (`loaded` is
`attached` of `BotModule`). A handler of one side runs only while the other is
between two handlers (`Idle`). `load_modules` posts the command of the stored
configuration (`replay`), behind which the handlers of later commands are queued.
Two restrictions are part of the specification: `Sound`, scripts without a fault
(the two components have the others), and `Patient`, a client that lets `init`
answer before it calls `shutdown`. Without `Patient` the refinement fails: a shutdown
during the login has nothing to unload, the login goes on, and its success loads
the modules into the bot that is gone (`bot.cc:231`, although `bot.h:57` says that
shutdown removes the shared references), where they run on and nobody can stop them.

**BotRegistry.** `script[b]` is the identifier in the Lua state `b` executes,
`GetBot` what `get_bot` makes of it. Clients may call `init` from several
threads and `shutdown` for any bot, a rejected one and one that is down
included: the interface forbids neither. The history variable `orderly` says
that they have done neither so far.

**BotConfig.** `settings` is `module_settings_` as a function of pairs of module
and variable. A value is its text and, if that is a reference, its first character
as `sigil` (`^x` redirects the commands of its setting to the shared variable `x`,
`$x` only shows its value). Numbers are texts, up to their spelling; `"0"` stands
for every factor that is not above zero. `queue` holds the handlers `execute` has
posted, `view` what `update_callback_` was last called with. `Load` publishes the
defaults and posts the replay in one step, as `load_modules` does in one handler;
`Restart` makes a new bot from the configuration object the client kept or from
the document written of it (`ToJson`, then `FromJson`). The history variables are
`given`, the settings at `init`, `touched`, and the `by` of a command. `touched` has
the keys that have been changed for good since the load: by a command or an end of the
module whose change the replay will not undo (`Lasts`). A command that is executed
before the load is dropped, and one that is executed after it, but before the replayed
command for its key, is overwritten: neither gets a key into `touched`, so that
`Restored` and `StartsConfigured` say of these settings that the stored value wins.
Reading the module shows two things nobody may expect: a stored `^x` whose setting has
no default is replayed into the shared variable `x` itself, whose value becomes `^x`;
and a command that was still queued when the modules were loaded can turn a setting
into a `^` reference just before the replay, which is then redirected. TLC found the
second; settings changed this way are in `touched`, the only ones that are before their
turn.

**BotBrowser.** `current = -1` is the initial `size_t(-1)`; the comparison of
`change_proxy` treats it as the largest index. The lengths of the timeouts are
left out. `Listed` is `SelectSeq` written out as a recursive function: the prover
knows nothing of the recursive operator the standard module defines.

**HttpSource.** A body is a sequence of numbered units, so that a unit that is
missing, repeated or out of place is seen. `Messages` are all messages of at most
`MaxSize` units in each kind of framing: content-length (also with bytes after the
body, and an illegal one), all ways to cut a body into chunks (`ChunksFrom`, a recursive
function for the same reason), and up to the end of the file. `ChunkIn`, `Filled` and `Resized` are the stream and string operations
of `read_chunk` and `read_length`.

**WebRequest.** `phase` is the operation of the chain that has been started,
`result` its result, which waits in the queue until it is handled: the timeout
may be executed in between. `stream` is what the network still holds; a read takes
as much of it as it likes (`async_read_until`) or exactly what it was told
(`async_read`), into `buf` or into the last `wanted` units of `response`. The history
variable `lapses` says whether the resolver has been slower than the timeout and
whether the server has closed the connection within a message.

**FormParameters.** `ExtractParameters` is the recursive walk of
`extract_parameters` as a fold over the tags of a form, with a stack for `found`,
the local variable that goes into the calls for the children and does not come
back. `Submit` adds what `webclient::submit` does: the values of the script
replace those of the page and are erased one by one, and what is left must be empty.

**WebClient.** `site` is auxiliary: the cookies the server means, by the last line
for each name. `cookies`, `header` and `stored` are `cookies_`, what the next request
sends and what the configuration has. `read_header` keeps of a line what precedes
its first `;`, and drops a line without one (`Kept`); `store_cookies` matches values
of at least one character (`Parsed`); nobody reads the attributes, so that a line that
takes a cookie away sets it. An answer may also be lost when the server has set its
cookies (`Dropped`): the attempt ends with an error after the header has been read -
the body does not come, comes too late or cannot be decoded - and
`webclient::request_finish` does not look at the header then (`webclient.cc:91-93`);
`Failed` takes such answers as well as attempts without one. `lapses` has the
cookies the client is wrong about for one of these reasons, until the server sets them
again, and `cut` tells of a restart that cut a request off. `SessionKept` is about all
other cookies. Both maps are what assigning the values one by one leaves: for each key
the value of the last line (`Assigned`).

`SentAsAsked` says what a form is to be sent with without the walk of
`ExtractParameters`: there is a choice of submit elements - the one asked for, or at
least the first one, and one only unless the form nests them - such that the sequence
sent is the page's own fields (`Page`), each with its value or all selected values,
but for the values the script gives, each once and all of them (`Given`).

The operators named like another one with a suffix (`FinalizeAlways` before
`Finalize`) are mutants: a plausible mistake in the code the original models.
Each property is checked to fail when the original is replaced by its mutant.

## 3. What is checked

| Run | Shows | Bounds | States |
|---|---|---|---|
| `ScriptHost` | any script: no undocumented call (`KeepsContract`); without a fault the documented sequence is completed (`CompletesContract`). The two are the safety and the liveness of `OnFinishContract`, with `seen` as the refinement mapping | 5 requests | 923 |
| `BotModule` | any script, any command at any time: one activity, a status that matches, no assertion, no start after a stop, one finally function for each run; the module implements `ModuleLoop`; without faults: runs end, stop and shutdown complete, no state is used after it was closed | 3 requests | 48 926 |
| `BotLogin` | any script, any command: one answer at most, flags and modules that match it; without interference: the stored result is the login's own, states are closed by the last call; without faults either: `init` answers, proxy changes end | 2 requests, 3 tries (the code's value) | 41 573 |
| `BotLife` | login and module together implement `ModuleLoop`; an active module of the stored configuration is switched on again, however many tries and proxy changes that takes | 1 request | 61 584 |
| `BotRegistry` | any client: no dead bot is registered; orderly clients: scripts find their bot | 4 bots, 3 with one identifier | 7 694 |
| `BotConfig` | after the replay the settings are the stored ones whatever was sent before their turn, and the factor is the one in use; a module starts only when they are in place, the client is not left with an outdated value | 2 modules, 3 variables, 1 shared one, 2 configurations, 2 commands, any number of restarts | 1 734 446 |
| `BotBrowser` | proxies listed once, one callback for each list, and it is called; requests are answered; the rotation is fair | 3 proxies, 2 requests | 48 625 |
| `WebRequest` | guarded waits and an end of every request unless the resolver is slow; the body as it was sent unless the server closes early, and its beginning if it does, however the reads split it | 3 units, 3 redirects (the code's value) | 49 741 |
| `WebClient` | every cookie is sent as the server set it last, but for lost answers and lines the client misreads, and saved unless a redirect is being followed; a form is sent as asked for, at every try | 2 requests (symmetric), 1 redirect, 1 retry, 6 headers, 10 calls on 2 forms | 103 873 |

Violations - what the program's documentation or comments say and the code does
not do. Each run gives a shortest behaviour that shows it:

| Run | Property | What happens |
|---|---|---|
| `BotLoginProxy` | `InitNotForgotten` | `base_set_proxy` during the login of `init`: `init` never answers |
| `BotBrowserChange` | `FailingProxyIsLeft` | a proxy that failed too often is "changed" to itself although there is another one: after a list of one, whose index is never set, or after a removal |
| `WebRequestEof` | `SuccessIsWhole` | a cut message is a success |

For the first and the last the passing runs check the condition under which the
property holds (`InitAnswered`, `DeliversWhole`). More places where code and
comments disagree are not runs of their own:

- a failed HTTP call leaves `BOT_CALLBACK` set (`lua_http.cc:79`), which
  `lua_connection.cc:189` takes for a request under way: the module stays in RUN
  (`failed_call`, excepted by `AsyncWillFinish`);
- the shutdown of a rejected duplicate unregisters the accepted bot (`bot.cc:57`),
  which `main.cc:95-97` does (`orderly`, `LiveIsFound`);
- a timeout that is spent during the resolution does not guard the connection
  (`http_con.cc:106`; `http_con.h:91-92` says otherwise; `slow_resolve`, `NoUnguardedWait`);
- a shutdown during the login (`bot.cc:231`, `bot.h:57`; `Patient` in `BotLife`);
- the web client "manages cookies" (`webclient.h:24`), but a cookie that is set without
  attributes is dropped (`http_source.cc:148`), one with an empty value spoils the
  name of the next (`webclient.cc:201`), one that is deleted is kept, and those of an
  answer whose body fails are dropped (`webclient.cc:91`; `lapses`, `SessionKept`);
- a request is attempted four times, the last one with 120 seconds
  (`bot_browser.h:33` ends with a third one of 60), and the proxy is changed after
  more than three failures (`bot_browser.h:30-31` says eight);
- `error_log_` outlives a change of the proxy, so that the first failure of
  the new proxy changes it again (`bot_browser.cc:204`);
- a script that outlives its bot's shutdown gets the bot that is registered under
  the identifier by then (`lua_connection.cc:396`).

**Why the bounds are enough.** A script run can make at most `MaxRequests`
requests; the session tells apart none, one and several requests in flight, and
one activation after another: two suffice for two in parallel or one after
another, three for one more after those. The login has
the code's own bound of three tries. In the registry only bots with one
identifier interact; three of them are a rejected, an accepted and a later one.
With three proxies the rotation has a first, a middle and a last index, and the
list can lose any of them. In the configuration two commands are enough for one
that makes a reference and one that goes through it, and for one before and one
after the load; the two modules differ in having defaults and in what is stored. Failures above the limit of `log_error` make no
difference (`ErrorBound`). A body of three units can be shorter than, as long as
and longer than what is in the buffer, and cut into one, two or three chunks. In
`BotLife` one request is enough to have each script wait; what several do is in
the components' own runs. Two requests of a browser interact only by the cookies;
the headers and forms of `MCWebClient` reach every branch of the parser. Proofs (section 4) take the bounds away
for every safety property but `SubmitsAsAsked`.

**Fairness.** `io_service::run` executes what is queued, so handlers that are
queued have weak fairness; a deadline timer expires; a proxy check and each
attempt of a request has a timeout. Weak fairness of request completion in the
session's hosts rests on `RequestAnswered` of `BotBrowser` and `RequestEnds` of
`WebRequest`, and with them on a resolver that answers some day (the one wait
the timeout does not end, `slow_resolve`). Nothing is assumed of commands,
servers or scripts: the liveness properties name the faults after which they no
longer hold. In `BotLife` fairness is strong where a handler of the other side can
come in between: a model step of one component is a part of a handler there, and
while it is not complete the queued handlers of the other are not enabled, again
and again; in the program they wait in a queue that is executed in order.

**Deadlock.** The runs that say `CHECK_DEADLOCK FALSE` are those whose system
may be at rest: a request that is answered, a bot that is off or shut down.

## 4. What is proved

Everything below holds for every value of the constants: any number of requests,
bots, proxies, body units and redirects, any modules, variables, settings and
commands, any cookies and calls. The only assumptions are those the modules
make of their constants (`MaxRequests` is a positive number, `MaxSize`,
`MaxRedirects` and `Retries` are numbers, the sets of proxies and of requests of a
browser are finite, a null is not among the values, and what is said of the
configuration below), and TLC evaluates them. Hardly a property
is inductive as it stands. Behind the properties of each module is the inductive
invariant its proofs use (`IInv`, `RegistryInv`, `ConfigInv`, `ClientInv`); each was
checked by TLC before it was proved, and is no property of a run any more: the theorems have it for every
size, the runs have what follows from it.

| Module | Theorems | Properties of the runs they state |
|---|---|---|
| `ScriptHostProofs` | `InvariantHolds`, `ContractIsKept`, `AssertNeverFires` | `KeepsContract` (refinement of `OnFinishContract`), `AssertHolds` |
| `BotModuleProofs` | `InvariantHolds`, `TypeCorrect`, `RequestsHold`, `LoopIsKept` and one for each property | `OneActivity`, `ActiveMatchesState`, `AssertHolds`, `NoUseAfterClose`, `AsyncWillFinish`, `StartsOnlyActive`, `FinallyOnce`, the safety of `ImplementsLoop` |
| `BotLoginProofs` | `InvariantHolds` and one for each property | `AnsweredOnce`, `ProxyFlagMatches`, `ModulesMatchAnswer`, `StoredResultIsOwn`, `LoginKeepsState`, `ClosedByLastCall` |
| `BotLifeProofs` | `InvariantHolds`, `LoopIsKept` | the safety of `ImplementsLoop` |
| `BotConfigProofs` | `ConfigInvHolds`, `RegistryInvHolds` and one for each property | `Restored`, `NoStaleView`, `StartsConfigured`; `LiveIsFound`, `OnlyLiveRegistered` |
| `BotBrowserProofs` | `InvariantHolds`, `ClientInvHolds` and one for each property | `ListedOnce`, `OneCallbackWaits`; `SessionKept`, `CookiesSaved` |
| `WebRequestProofs` | `InvariantHolds` and one for each property | `NoUnguardedWait`, `DeliversWhole`, `DeliversBeginning` |

**A session and its hosts.** Whether a call of a host is the first or the last
depends on its stored flag, on `BOT_FINISH`, on what is left of `BOT_LOGIN_CB` and on
the calls still queued, so every host's invariant relates these: which calls may be
queued behind those already handled (`QueueFits`, `QueueInv`, `CallsInv`: at most two,
two only when nothing is stored, and a stored result makes the next call the last),
and what the globals say (`SessionFits`, `GlobalsInv`, `SessionInv`). What one
activation leaves, whatever the script does, is said once for each way into the
session by the lemmas of `LuaSessionProofs` (`ReplaceRunCalls` and its like) and, for
the module, by `SyncRunEffect`.

For `ScriptHost` this is the refinement: `seen` stays a beginning of a documented
sequence because what is queued completes it. `BotModule` adds `LoopInv`, its own
side, with `attached => registered`: a module in `modules_` is one of a registered
bot, from which `StartsOnlyActive` knows that the bot is still there.
`LoopIsKept` has a lemma for the commands, for responses and for a last call. The
second invariant of the module, `RequestInv`, is about requests: each one in flight
belongs to the state that is open (`InflightInv`) and to the callback that is set
(`AsyncInv`). It is kept apart because it holds only without the faults that break it,
which `NoUseAfterClose` and `AsyncWillFinish` except.

**The login.** `AnswerInv` needs nothing of the session: who is bound in `login_cb_`,
what is being checked, what has been answered; it holds whatever commands come.
`SessionInv` holds until a proxy change has come before the answer of `init`
(`interfered`), after which the session is indeed in states the flags do not tell
apart: the condition of the properties is the one under which the proof goes through.

**The whole bot.** `BotLifeProofs` does not prove anything about the two components
again. It instantiates `BotLoginProofs` and `BotModuleProofs` under the renaming of
`BotLife`, and what is left to show is about the seam: a handler of one side keeps the
other's invariant (`ModuleBotChanges`, `HandlersOnBot`), only `init`'s own success
brings modules in, and that finds the bot registered because the client is `Patient`
(`answers = <<>> => registered`, the one conjunct `IInv` adds). `Sound` is not used:
the safety of the composition holds for scripts with faults, too.

**The registry.** What is registered under an identifier is live (`OnlyLiveRegistered`)
whatever clients do; that every live bot is registered (`EntryIsOwn`) holds while
they are `orderly`, and needs `CheckedIsFree` to be inductive: between `contains`
and `add` nobody else takes the identifier. `ScriptIsOwn` adds that the scripts of
a live bot carry its identifier. Without the condition TLC finds `LiveIsFound`
violated, and `main.cc:95-97` does not keep it.

**The browser.** The two properties and the types are inductive together: that a
proxy is appended once rests on its not being in the list while it is checked, and
that the callback is called once on its waiting exactly while something is checked.
What `Listed` keeps is shown by induction over the prefixes of the list
(`SetInduction`: the library's well-founded minimum, taken of the set of
counterexamples, which needs no operator as a parameter).

**The configuration.** At rest nothing is left of the replay; in between, what has
been restored depends on what is still queued. `ConfigInv` says how. Before the load
(`LoginInv`) the stored settings of modules are untouched, because a command for a
module that is not loaded is dropped, and no queued command is a replayed one. After it
(`ReplayInv`) every setting of a loaded module that is not in `touched` is as
it was given, or its command is still in the queue - and then the setting is no `^`
reference, or the command would be redirected when its turn comes; and a replayed
command in the queue carries the given value. A change that does not get into
`touched` leaves a replayed command for its key in the queue, and that is the one with the
stored value (`AwaitedReplay`). `OrderInv` is "activation last": behind the activation of a module there is no
other replayed command for it, so that when it is executed `ReplayInv` leaves only
settings that are in place (`StartsConfigured`). `FactorInv` is `ReplayInv` for the factor, with the old factor
that keeps the new one from being set. The view (`NoStaleView` with `ViewInv`) is
independent of the queue: every assignment of a handler tells either the one setting it
changes or, of a shared variable, all that refer to it. `BotConfig` says what may
be configured: the order of modules has each once and never `base` (`OrderAssumption`);
variables of modules are among `VariableOrder`, a stored `active` is `0`
or `1`, which is what `status` makes of it; a factor is stored and is no
reference (`init_command_sequence` throws without one); the scripts' own defaults are no
references (`ValueAssumption`). Without the last one `Restored` would be false:
a default that is a reference redirects the stored value. `FlattenProperties` is the
lemma the replay rests on: what `FlattenSeq` of the community modules makes of
sequences has the elements of all, in order if they are. Its recursion
is shown to have a solution (`JoiningExists`) by induction on a set, as in the browser.

**The session.** `SessionInv` is `SessionKept` with the browser's own map: every cookie
that is not in `lapses` is in `cookies_` as the server set it last, and the header is
`cookies_`. That the parser reads the others as they are meant is `ReadAsMeant`, for any
sequence of lines; `ServedKeepsSession` and `DroppedKeepsSession` take it through an
answer that arrives and one that is lost. A restart takes the configuration's cookies,
which by `CookiesSaved` are the browser's unless a redirect is being followed, and that
is what `cut` excepts. `CookiesSaved` needs no such condition: whoever changes `cookies_`
saves it or is still redirected.

**The request.** `NoUnguardedWait` has an invariant that does not depend on what is
decoded (`TimerInv`): the timeout runs from the start of a connection to its end, and
once it is over the socket is closed and nothing waits for it. The decoder's
(`DecoderInv`) says for each of its waits how the message is distributed: before the
header is read, buffer and stream are the message (`Undecoded`); within a body of
known length, and within a chunk, the missing units come next (`Filling`,
`FillingChunk`); between two chunks, buffer and stream are the rest of the chunked
body from there, up to the line end of the last chunk (`BetweenChunks`); of a body
without a length they are the rest (`Streaming`). `AnswerInv` is what an end of file
finds: a beginning of the body and zeros. A read moves an unknown amount from the
stream to the buffer, so everything is said of the two joined; the lemmas about
sequences (`Moved`, `Overlap`, `LineIsRead`, `ChunkInProperties`, `UnitsAreRead`) say
what of the joined sequence an operation takes off. `Joined` is `\o` under a name the
SMT solver does not take apart. That the chunks after any place are a sequence of
units and lines (`ChunksExist`, `ChunksProperties`) is again shown from the last
place where it fails.

**Only model-checked.** Every liveness property, that of `ImplementsLoop` and
`CompletesContract` included: fairness and `ENABLED` are out of the prover's reach.
`RotationIsFair` is one of them. Every safety property of a passing run but
`SubmitsAsAsked` is stated by a theorem. What `ExtractParameters` computes for a form is
checked only, for the calls of `MCWebClient` and all their tries: it is a fold with
operators as parameters, whose library definition the prover cannot instantiate. `LiteralAssumption` of `BotConfig` tells the provers that what
stands between quotes is in `STRING`, which they do not know.

## 5. What is not modelled

- `package`, `generate_package.py`, the http helpers but for
  `extract_parameters`, `lua_util` but for `set_status` and `set_shared`: input,
  output, parsing and formatting without a state that lasts.
- `iface`, `server_list`, `get_status`, `set_status`: scripts that are executed
  synchronously on a state that is closed at once, or copies of tables.
- Headers but for cookies, URLs, and of gzip all but its failure, which is that of
  any message that cannot be decoded.
- The log, of which the code keeps one message more than `MAX_LOG_SIZE`
  (`bot.cc:334`), and `random`, which exceeds its upper bound for a wait time factor
  above 1 (`bot.cc:304`): a unit test reaches both.
- A form that is sent again because a redirect after its answer failed
  (`bot_browser.cc:189`): what the server does with it is outside the program.
- Module names that contain `_`, whose keys the
  configuration would split in the wrong place.
- Several threads in `io_service::run`: the program has one (`main.cc:93`).
- What no state of the modules depends on: that `init` puts the proxy it was given
  back when no proxy works (`bot.cc:153`; the setting is not among those of a
  module) and that the browser writes the proxies that work into the configuration
  (`update_bot_proxy_status`, `bot_browser.cc:109` and `226`).
- A login script that gives `on_finish` something else than a boolean: the assertion
  of `bot.cc:208` ends the program.
- What follows undefined behaviour: a response to a closed state ends in
  `orphaned`, which the properties exclude, and is not delivered.

## 6. Plan

Done, in the order of importance: `LuaSession` with `ScriptHost` and
`OnFinishContract`; `BotModule`; `BotLogin`; `BotRegistry`; `BotBrowser`;
`WebRequest`; `BotConfig`; `ModuleLoop` and its refinement by `BotModule`;
`BotLife`; `HttpSource` and the decoding in `WebRequest`; `FormParameters` and
`WebClient`; the proofs of every safety property but `SubmitsAsAsked`, the last being
those of the web client and the configuration.

What is left is out of the provers' reach (section 4) or of little use: a threaded
`BotModule` says something only if the program gets a second thread (`state_mutex_` is
there, `main.cc:93` starts one).
