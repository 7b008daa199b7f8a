----------------------------- MODULE BotRegistry -----------------------------
(***************************************************************************)
(* The process-wide map bots_ from identifiers to bots (contains, add,     *)
(* remove and get_bot of lua/lua_connection.cc) and its use by bot::init,  *)
(* bot::shutdown and the scripts of the bots.  A script finds "its" bot by *)
(* the identifier stored in the Lua state, so everything depends on which  *)
(* bot is registered under that identifier when it looks.                  *)
(***************************************************************************)
EXTENDS Naturals, FiniteSets

CONSTANTS
  Bots,           \* bot objects
  Identifiers,    \* what bot::identifier returns
  Identifier,     \* the identifier of each bot
  NoBot,          \* the null pointer
  NoIdentifier    \* the identifier of the empty configuration, ""

Phases == {"new", "checked", "live", "rejected", "down"}

ASSUME IdentifierAssumption == Identifier \in [Bots -> Identifiers]
ASSUME NullAssumption == NoBot \notin Bots /\ NoIdentifier \notin Identifiers

VARIABLES
  bots,     \* lua_connection::bots_, NoBot where there is no entry
  phase,    \* how far init and shutdown of each bot have come
  script,   \* BOT_IDENTIFIER of the script each bot executes: {} when none
  orderly   \* history: bots were initialised one after the other, and only
            \* accepted ones shut down, once each

vars == <<bots, phase, script, orderly>>

Init ==
  /\ bots = [k \in Identifiers |-> NoBot]
  /\ phase = [b \in Bots |-> "new"]
  /\ script = [b \in Bots |-> {}]
  /\ orderly = TRUE

-----------------------------------------------------------------------------
\* No other thread is between contains() and add().
InitAlone == \A c \in Bots : phase[c] # "checked"

\* Mutant of ContainsId: bot::init does not ask.
ContainsIdUnchecked(b) ==
  /\ phase[b] = "new"
  /\ orderly' = (orderly /\ InitAlone)
  /\ phase' = [phase EXCEPT ![b] = "checked"]
  /\ UNCHANGED <<bots, script>>

\* bot::init up to contains().
ContainsId(b) ==
  /\ phase[b] = "new"
  /\ orderly' = (orderly /\ InitAlone)
  /\ \/ /\ bots[Identifier[b]] = NoBot
        /\ phase' = [phase EXCEPT ![b] = "checked"]
     \/ /\ bots[Identifier[b]] # NoBot
        /\ phase' = [phase EXCEPT ![b] = "rejected"]
  /\ UNCHANGED <<bots, script>>

\* The rest of bot::init: add() leaves an entry that exists alone.
Add(b) ==
  /\ phase[b] = "checked"
  /\ phase' = [phase EXCEPT ![b] = "live"]
  /\ \/ /\ bots[Identifier[b]] = NoBot
        /\ bots' = [bots EXCEPT ![Identifier[b]] = b]
     \/ /\ bots[Identifier[b]] # NoBot
        /\ UNCHANGED bots
  /\ UNCHANGED <<script, orderly>>

\* Mutant of RemoveId: remove() is not called.
RemoveIdKeepsEntry(b) ==
  /\ phase[b] \in {"live", "rejected", "down"}
  /\ orderly' = (orderly /\ phase[b] = "live")
  /\ phase' = [phase EXCEPT ![b] = "down"]
  /\ UNCHANGED <<bots, script>>

\* bot::shutdown, which nothing keeps a client from calling for a bot that init
\* has rejected, or again: remove() erases the entry of the identifier, whoever
\* it is.
RemoveId(b) ==
  /\ phase[b] \in {"live", "rejected", "down"}
  /\ orderly' = (orderly /\ phase[b] = "live")
  /\ phase' = [phase EXCEPT ![b] = "down"]
  /\ bots' = [bots EXCEPT ![Identifier[b]] = NoBot]
  /\ UNCHANGED script

\* lua_connection::run: the identifier is that of the bot's configuration, which
\* shutdown has replaced by an empty one.
StartScript(b) ==
  /\ phase[b] \in {"live", "down"}
  /\ script[b] = {}
  /\ script' = [script EXCEPT ![b] =
                  {IF phase[b] = "live" THEN Identifier[b] ELSE NoIdentifier}]
  /\ UNCHANGED <<bots, phase, orderly>>

\* The Lua state is closed.
EndScript(b) ==
  /\ script[b] # {}
  /\ script' = [script EXCEPT ![b] = {}]
  /\ UNCHANGED <<bots, phase, orderly>>

Next == \E b \in Bots : \/ ContainsId(b) \/ Add(b) \/ RemoveId(b)
                        \/ StartScript(b) \/ EndScript(b)

Spec == Init /\ [][Next]_vars

\* The bots get_bot() returns to the script of b: none, or one.
GetBot(b) == {bots[k] : k \in script[b] \cap Identifiers} \ {NoBot}

-----------------------------------------------------------------------------
TypeOK ==
  /\ bots \in [Identifiers -> Bots \cup {NoBot}]
  /\ phase \in [Bots -> Phases]
  /\ script \in [Bots -> SUBSET (Identifiers \cup {NoIdentifier})]
  /\ orderly \in BOOLEAN

(***************************************************************************)
(* "Returns the corresponding bot registered to the script state"          *)
(* (lua_connection.h): as long as a bot that init has accepted has not     *)
(* been shut down itself, what get_bot returns to its scripts is that bot. *)
(* LiveIsFound is the same for orderly clients.                            *)
(***************************************************************************)
AcceptedIsFound ==
  \A b \in Bots : phase[b] = "live" /\ script[b] # {} => GetBot(b) = {b}

LiveIsFound == orderly => AcceptedIsFound

(***************************************************************************)
(* What is registered has been initialised and not been shut down: bots_   *)
(* does not keep a bot alive after its shutdown, whatever clients do.      *)
(***************************************************************************)
OnlyLiveRegistered ==
  \A k \in Identifiers :
    bots[k] # NoBot => phase[bots[k]] = "live" /\ Identifier[bots[k]] = k

-----------------------------------------------------------------------------
(***************************************************************************)
(* The inductive invariant behind LiveIsFound (BotConfigProofs).           *)
(***************************************************************************)
EntryIsOwn ==
  orderly => \A b \in Bots : phase[b] = "live" => bots[Identifier[b]] = b

\* A bot that is between contains() and add() is alone there and its identifier
\* is free.
CheckedIsFree ==
  orderly =>
    \A b \in Bots : phase[b] = "checked" =>
      /\ bots[Identifier[b]] = NoBot
      /\ \A c \in Bots : phase[c] = "checked" => c = b

\* Scripts of a live bot were started by it while it was live.
ScriptIsOwn ==
  \A b \in Bots :
    /\ phase[b] \notin {"live", "down"} => script[b] = {}
    /\ phase[b] = "live" => script[b] \subseteq {Identifier[b]}

RegistryInv ==
  TypeOK /\ EntryIsOwn /\ OnlyLiveRegistered /\ CheckedIsFree /\ ScriptIsOwn

=============================================================================
