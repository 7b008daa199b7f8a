------------------------------ MODULE BotConfig ------------------------------
(***************************************************************************)
(* The configuration of one bot (src/src/mem_bot_config.cc) and the        *)
(* commands that change it (src/src/bot.cc: execute, status, update_shared,*)
(* load_modules; src/src/module.cc: execute, the constructor).  The        *)
(* settings stored with a bot come back as a sequence of commands that is  *)
(* computed before the login and replayed after it; meanwhile the modules  *)
(* publish their own defaults, clients and scripts send commands, and a    *)
(* setting whose value is a reference stands for a shared variable.        *)
(*                                                                         *)
(* A key such as farm_speed is the pair of its module and its variable;    *)
(* the code splits keys at the first "_", so that names of modules hold    *)
(* none.  The proxy is left to BotLogin and BotBrowser.                    *)
(***************************************************************************)
EXTENDS Naturals, SequencesExt, StdMap

CONSTANTS
  ModuleOrder,    \* all modules but base, in the order of std::map
  VariableOrder,  \* all variables of modules, in that order
  Defaults,       \* what the status tables of the scripts hold, by key
  Configurations, \* the JSON documents a bot may be created from
  Settable,       \* the keys clients and scripts send commands for
  Arguments,      \* the values they send
  MaxCommands     \* bound: the commands they send in all

VARIABLES
  settings,   \* module_settings_ of configuration_
  held,       \* the configuration object the client kept after a shutdown
  factor,     \* wait_time_factor_, as text
  commands,   \* init_commands: bound into the callback of the login
  queue,      \* the handlers execute() has posted
  loaded,     \* modules_
  view,       \* what update_callback_ has told the client last, by key
  stage,      \* "login", "loaded" or "down"
  budget,     \* commands that clients and scripts may still send
  given,      \* history: the settings the bot was initialised with
  touched     \* history: keys that were changed on purpose since the load, and
              \* for good

configVars == <<settings, held, factor, commands, queue, loaded, view, stage,
                budget, given, touched>>

\* A value is its first character when that makes it a reference, and the rest.
Sigils == {"plain", "^", "$"}
Value == [sigil : Sigils, text : STRING]
Text(t) == [sigil |-> "plain", text |-> t]
NoText == ""
Numerals == {"0", "1", "2"}     \* "0" stands for what is not above zero

Factor == <<"base", "wait_time_factor">>
Active(m) == <<m, "active">>
Modules == ToSet(ModuleOrder) \ {"shared"}
Variables == ToSet(VariableOrder)

Has(s, k) == k \in DOMAIN s
ValueOf(s, k) == IF Has(s, k) THEN s[k] ELSE Text(NoText)
Command(m, v, value, by) ==
  [module |-> m, variable |-> v, value |-> value, by |-> by]

-----------------------------------------------------------------------------
\* mem_bot_config(json): of base only the factor is read (and the proxy), an
\* empty factor is replaced, and a variable "name" is skipped.
FromJson(json) ==
  [k \in {k \in DOMAIN json :
           k[2] # "name" /\ (k[1] = "base" => k = Factor)} |->
     IF k = Factor /\ json[k] = Text(NoText) THEN Text("1") ELSE json[k]]

\* to_json: shared variables are not stored.
ToJson(s) == [k \in {k \in DOMAIN s : k[1] # "shared"} |-> s[k]]

\* The part of init_command_sequence for one variable, at most one command,
\* and for one module: activation comes last.
CommandFor(s, m, v) ==
  IF v # "active" /\ Has(s, <<m, v>>) THEN <<Command(m, v, s[<<m, v>>], "replay")>>
                                      ELSE <<>>
ModuleCommands(s, m) ==
  LET active == IF Has(s, Active(m)) THEN s[Active(m)] ELSE Text("0")
  IN  IF \A v \in Variables : ~Has(s, <<m, v>>) THEN <<>>
      ELSE Append(FlattenSeq([j \in DOMAIN VariableOrder |->
                                CommandFor(s, m, VariableOrder[j])]),
                  Command(m, "active", active, "replay"))

\* Mutants of InitCommandSequence: in the order of the map, with active among
\* the other variables; nothing for a module without the variable active.
InitCommandsInMapOrder(s) ==
  <<Command("base", "wait_time_factor", s[Factor], "replay")>> \o
  FlattenSeq([i \in DOMAIN ModuleOrder |->
    LET m == ModuleOrder[i]
        own == SelectSeq(VariableOrder, LAMBDA v : Has(s, <<m, v>>))
    IN  [j \in DOMAIN own |-> Command(m, own[j], s[<<m, own[j]>>], "replay")]])
InitCommandsOfActivated(s) ==
  <<Command("base", "wait_time_factor", s[Factor], "replay")>> \o
  FlattenSeq([i \in DOMAIN ModuleOrder |->
    IF Has(s, Active(ModuleOrder[i])) THEN ModuleCommands(s, ModuleOrder[i])
    ELSE <<>>])

InitCommandSequence(s) ==
  <<Command("base", "wait_time_factor", s[Factor], "replay")>> \o
  FlattenSeq([i \in DOMAIN ModuleOrder |-> ModuleCommands(s, ModuleOrder[i])])

(***************************************************************************)
(* What may be configured: names and values are strings, of which the      *)
(* orders have all that modules use; a module is on or off, as status()    *)
(* stores it; there is a factor, which is not a reference.  References are *)
(* chosen by users, never by the scripts of a package.                     *)
(***************************************************************************)
Known(k) == k \in STRING \X STRING /\ (k[1] \in Modules => k[2] \in Variables)
Fits(k, value) ==
  /\ Known(k) /\ value \in Value
  /\ k[1] \in Modules /\ k[2] = "active" => value \in {Text("0"), Text("1")}
Storable(s) ==
  /\ \A k \in DOMAIN s : Fits(k, s[k])
  /\ Has(s, Factor) /\ s[Factor].sigil = "plain"

ASSUME OrderAssumption ==
  /\ ModuleOrder \in Seq(STRING) /\ VariableOrder \in Seq(STRING)
  /\ \A i, j \in 1..Len(ModuleOrder) : ModuleOrder[i] = ModuleOrder[j] => i = j
  /\ "base" \notin ToSet(ModuleOrder) /\ "active" \in Variables

\* What is written between quotes is a string, which provers do not know.
ASSUME LiteralAssumption ==
  Numerals \cup {"base", "wait_time_factor", "shared", "active"} \subseteq STRING

ASSUME ValueAssumption ==
  /\ \A json \in Configurations : Storable(FromJson(json))
  /\ \A k \in DOMAIN Defaults : Fits(k, Defaults[k]) /\ Defaults[k].sigil = "plain"
  /\ \A k \in Settable : Known(k)
  /\ Arguments \subseteq Value

\* bot::init has been called with a configuration read from a document.
ConfigInit ==
  /\ settings \in {FromJson(json) : json \in Configurations}
  /\ given = settings
  /\ commands = InitCommandSequence(settings)
  /\ factor = "1"
  /\ loaded = {}
  /\ view = <<>>
  /\ stage = "login"
  /\ touched = {}
  /\ held = <<>>
  /\ queue = <<>>
  /\ budget = MaxCommands

-----------------------------------------------------------------------------
\* bot::status.  A bot that is down has no update_callback_ any more.
Status(k, value) ==
  /\ settings' = Over(Entry(k, value), settings)
  /\ view' = IF stage = "down" THEN view ELSE Over(Entry(k, value), view)

\* get_dependent_variables.
Dependents(s, x) == {k \in DOMAIN s : s[k].sigil \in {"^", "$"} /\ s[k].text = x}

\* A shared variable is set and update_shared tells its dependents' new values.
SetShared(x, value) ==
  /\ settings' = Over(Entry(<<"shared", x>>, value), settings)
  /\ view' = IF stage = "down" THEN view
             ELSE Over([k \in Dependents(settings', x) |-> value], view)

\* The command that is executed instead of c when its setting is a "^" reference.
Redirected(c) ==
  LET old == ValueOf(settings, <<c.module, c.variable>>)
  IN  IF old.sigil = "^"
      THEN [c EXCEPT !.module = "shared", !.variable = old.text] ELSE c

\* base_set_wait_time_factor: it is the old factor that must be above zero.
SetFactor(value) ==
  \/ /\ value.sigil = "plain" /\ value.text \in Numerals
     /\ factor # "0"
     /\ factor' = value.text
     /\ Status(Factor, value)
  \/ /\ value.sigil = "plain" /\ value.text \in Numerals
     /\ factor = "0"
     /\ UNCHANGED <<factor, settings, view>>
  \/ /\ ~(value.sigil = "plain" /\ value.text \in Numerals)
     /\ Status(Factor, Text(factor))
     /\ UNCHANGED factor

\* module::execute.  What a start or a stop does beyond the status of the
\* module, BotModule has; either way the client is told that status.
ModuleExecutes(c) ==
  \/ /\ c.variable = "active"
     /\ Status(Active(c.module), Text(IF c.value = Text("1") THEN "1" ELSE "0"))
  \/ /\ c.variable # "active"
     /\ Status(<<c.module, c.variable>>, c.value)

\* The change a step makes to setting k lasts: no stored value is still to be
\* replayed for it, or it is a "^" reference now, which a replay goes through.
Lasts(k) ==
  \/ settings'[k].sigil = "^"
  \/ \A c \in ToSet(queue') : c.by = "replay" => <<c.module, c.variable>> # k

\* Somebody sets k.  Nothing becomes of it unless its module is loaded.
Touch(k) ==
  \/ k[1] \in loaded /\ Lasts(k) /\ touched' = touched \cup {k}
  \/ ~(k[1] \in loaded /\ Lasts(k)) /\ UNCHANGED touched

\* One handler posted by bot::execute.  A command for a module that is not
\* loaded is dropped.
Execute ==
  /\ queue # <<>>
  /\ queue' = Tail(queue)
  /\ LET c == Redirected(Head(queue)) IN
     /\ \/ <<c.module, c.variable>> = Factor /\ SetFactor(c.value)
        \/ c.module = "shared" /\ SetShared(c.variable, c.value) /\ UNCHANGED factor
        \/ c.module \in loaded /\ ModuleExecutes(c) /\ UNCHANGED factor
        \/ /\ <<c.module, c.variable>> # Factor /\ c.module \notin loaded \cup {"shared"}
           /\ UNCHANGED <<settings, view, factor>>
     /\ \/ c.by = "replay" /\ UNCHANGED touched
        \/ c.by # "replay" /\ Touch(<<c.module, c.variable>>)
  /\ UNCHANGED <<held, commands, loaded, stage, budget, given>>

\* bot::execute, called by a client or by set_status in a script.
Send(m, v, value) ==
  /\ stage # "down"
  /\ budget > 0
  /\ budget' = budget - 1
  /\ queue' = Append(queue, Command(m, v, value, "client"))
  /\ UNCHANGED <<settings, held, factor, commands, loaded, view, stage, given,
                 touched>>

\* Mutant of ScriptSetsShared: the dependents are not told.
ScriptSetsSharedSilently(x, value) ==
  /\ stage # "down"
  /\ budget > 0
  /\ budget' = budget - 1
  /\ settings' = Over(Entry(<<"shared", x>>, value), settings)
  /\ UNCHANGED <<held, factor, commands, queue, loaded, view, stage, given,
                 touched>>

\* set_shared in a script of the bot: not posted, but done at once.
ScriptSetsShared(x, value) ==
  /\ stage # "down"
  /\ budget > 0
  /\ budget' = budget - 1
  /\ SetShared(x, value)
  /\ UNCHANGED <<held, factor, commands, queue, loaded, stage, given, touched>>

\* The login was successful: load_modules.  The constructor of every module
\* publishes that it is off, then its defaults, which take a script that can be
\* executed; modules whose script cannot are dropped.
Load(good) ==
  /\ stage = "login"
  /\ stage' = "loaded"
  /\ loaded' = good
  /\ LET off == [k \in {Active(m) : m \in Modules} |-> Text("0")]
         defaults == [k \in {k \in DOMAIN Defaults : k[1] \in good} |-> Defaults[k]]
     IN  /\ settings' = Over(defaults, Over(off, settings))
         /\ view' = Over(defaults, Over(off, view))
  /\ queue' = queue \o commands
  /\ touched' = {}
  /\ UNCHANGED <<held, factor, commands, budget, given>>

\* A module stops by itself (run_cb).
ModuleEnds(m) ==
  /\ m \in loaded
  /\ settings[Active(m)] = Text("1")
  /\ Status(Active(m), Text("0"))
  /\ UNCHANGED <<held, factor, commands, queue, loaded, stage, budget, given>>
  /\ Touch(Active(m))

\* bot::shutdown: the configuration is replaced by an empty one before the
\* modules are stopped, which publish their status from it.
Shutdown ==
  /\ stage # "down"
  /\ stage' = "down"
  /\ held' = settings
  /\ LET on == {Active(m) : m \in {m \in loaded : settings[Active(m)] = Text("1")}}
     IN  /\ settings' = [k \in on |-> Text("0")]
         /\ view' = Over(settings',
                      Over([k \in {Active(m) : m \in loaded} |-> Text(NoText)], view))
  /\ loaded' = {}
  /\ UNCHANGED <<factor, commands, queue, budget, given, touched>>

\* The client creates the bot anew, with the configuration object it kept or
\* with what had been stored of it.  (The handlers of the old bot are over.)
Restart ==
  /\ stage = "down" /\ queue = <<>>
  /\ settings' \in {held, FromJson(ToJson(held))}
  /\ given' = settings'
  /\ commands' = InitCommandSequence(settings')
  /\ factor' = "1"
  /\ view' = <<>>
  /\ stage' = "login"
  /\ touched' = {}
  /\ held' = <<>>
  /\ UNCHANGED <<loaded, queue, budget>>

ConfigNext ==
  \/ Execute
  \/ \E k \in Settable, value \in Arguments :
       \/ Send(k[1], k[2], value)
       \/ k[1] = "shared" /\ ScriptSetsShared(k[2], value)
  \/ \E good \in SUBSET Modules : Load(good)
  \/ \E m \in Modules : ModuleEnds(m)
  \/ Shutdown
  \/ Restart

ConfigSpec == ConfigInit /\ [][ConfigNext]_configVars

-----------------------------------------------------------------------------
\* All of the replayed commands have been executed.
Replayed ==
  stage = "loaded" /\ \A i \in DOMAIN queue : queue[i].by # "replay"

(***************************************************************************)
(* The stored settings survive a restart: once the commands of             *)
(* init_command_sequence have been executed, every setting of a loaded     *)
(* module is as it was stored, whatever the modules published when they    *)
(* were loaded and whatever was sent or ended before its own turn in the   *)
(* replay.  Only what was set after that turn may differ, and what became  *)
(* a "^" reference before it, which the replay does not get past.  And the *)
(* bot waits by the factor its configuration has, after every sequence of  *)
(* accepted, refused and unreadable ones.                                  *)
(***************************************************************************)
Restored ==
  Replayed => /\ \A k \in DOMAIN given :
                   k[1] \in loaded /\ k \notin touched => settings[k] = given[k]
              /\ settings[Factor] = Text(factor)

(***************************************************************************)
(* "Module activation has to be done after the configuration."             *)
(* (mem_bot_config.cc): when the replay starts a module, all of its stored *)
(* settings are in place, whatever was sent during the login, except those *)
(* that a command still waiting when the modules were loaded has turned    *)
(* into a "^" reference.                                                   *)
(***************************************************************************)
Replays(c) == queue # <<>> /\ queue' = Tail(queue) /\ Head(queue) = c

StartsConfigured ==
  [][\A m \in loaded :
       Replays(Command(m, "active", Text("1"), "replay")) =>
         \A k \in DOMAIN given :
           k[1] = m /\ k \notin {Active(m)} \cup touched =>
             settings[k] = given[k]]_configVars

(***************************************************************************)
(* What a client has been told of a setting is not out of date: it is the  *)
(* value of the setting, or the value of the shared variable the setting   *)
(* refers to now (bot.h, update_shared: "All values that reference this    *)
(* variable will be updated").                                             *)
(***************************************************************************)
NoStaleView ==
  stage # "down" =>
    \A k \in DOMAIN view : k[1] # "shared" =>
      \/ view[k] = settings[k]
      \/ /\ settings[k].sigil # "plain"
         /\ view[k] = ValueOf(settings, <<"shared", settings[k].text>>)

-----------------------------------------------------------------------------
(***************************************************************************)
(* The inductive invariant behind the three (BotConfigProofs).             *)
(***************************************************************************)
CommandType ==
  [module : STRING, variable : STRING, value : Value, by : {"replay", "client"}]
ReplayOf(k) == Command(k[1], k[2], given[k], "replay")

ConfigType ==
  /\ stage \in {"login", "loaded", "down"}
  /\ loaded \subseteq Modules
  /\ stage # "loaded" => loaded = {}
  /\ factor \in Numerals
  /\ queue \in Seq(CommandType)
  /\ \A c \in ToSet(queue) : Known(<<c.module, c.variable>>)
  /\ Storable(given)
  /\ IF stage = "down" THEN Storable(held) ELSE Storable(settings)

ViewInv ==
  stage # "down" => \A k \in DOMAIN view : k[1] # "shared" => Has(settings, k)

\* Before the modules are loaded, nothing of what was given has been changed.
LoginInv ==
  stage = "login" =>
    /\ commands = InitCommandSequence(given)
    /\ \A c \in ToSet(queue) : c.by # "replay"
    /\ \A k \in DOMAIN given :
         k[1] \in Modules => Has(settings, k) /\ settings[k] = given[k]

\* Then what is not as it was given, will be.
ReplayInv ==
  stage = "loaded" =>
    /\ \A c \in ToSet(queue) :
         c.by = "replay" /\ c.module \in Modules /\ Has(given, <<c.module, c.variable>>)
           => c.value = given[<<c.module, c.variable>>]
    /\ \A k \in DOMAIN given : k[1] \in loaded /\ k \notin touched =>
         /\ Has(settings, k)
         /\ \/ settings[k] = given[k]
            \/ settings[k].sigil # "^" /\ ReplayOf(k) \in ToSet(queue)

FactorInv ==
  stage # "down" =>
    \/ settings[Factor] = Text(factor)
    \/ factor # "0" /\ (stage = "login" \/ ReplayOf(Factor) \in ToSet(queue))

\* A module is activated after its other variables have been replayed.
Activates(c, d) ==
  /\ c.by = "replay" /\ d.by = "replay" /\ c.module = d.module
  /\ c.variable = "active" /\ d.variable # "active"
Ordered(q) == \A i, j \in 1..Len(q) : Activates(q[i], q[j]) => j < i
OrderInv == stage = "loaded" => Ordered(queue)

ConfigInv ==
  /\ ConfigType /\ ViewInv /\ NoStaleView
  /\ LoginInv /\ ReplayInv /\ FactorInv /\ OrderInv

=============================================================================
