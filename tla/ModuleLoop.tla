----------------------------- MODULE ModuleLoop -----------------------------
(***************************************************************************)
(* What a module promises to its bot and to the user (src/src/module.h,    *)
(* README.md), without its state machine, its timer and its Lua state: it  *)
(* is switched on and off at any time, and while it is on its script is    *)
(* run over and over, one run at a time.  A module that has left its bot   *)
(* is off for good.                                                        *)
(***************************************************************************)
VARIABLES
  on,      \* the user wants the module to run
  script,  \* "none" or "running"
  member   \* of its bot: "loading", "in" or "gone"

vars == <<on, script, member>>

Init ==
  /\ on = FALSE
  /\ script = "none"
  /\ member \in {"loading", "in"}

Join ==
  /\ member = "loading"
  /\ member' = "in"
  /\ UNCHANGED <<on, script>>

Leave ==
  /\ member # "gone"
  /\ member' = "gone"
  /\ on' = FALSE
  /\ UNCHANGED script

SwitchOn ==
  /\ member = "in" /\ ~on
  /\ on' = TRUE
  /\ UNCHANGED <<script, member>>

SwitchOff ==
  /\ on
  /\ on' = FALSE
  /\ UNCHANGED <<script, member>>

StartScript ==
  /\ on /\ member = "in"
  /\ script = "none"
  /\ script' = "running"
  /\ UNCHANGED <<on, member>>

\* A run may end with the module switched off.
EndScript ==
  /\ script = "running"
  /\ script' = "none"
  /\ on' \in {on, FALSE}
  /\ UNCHANGED member

Next == Join \/ Leave \/ SwitchOn \/ SwitchOff \/ StartScript \/ EndScript

\* A module that stays on between two runs is run again; a run may take for
\* ever.
Spec == Init /\ [][Next]_vars /\ WF_vars(StartScript)

=============================================================================
