-------------------------- MODULE OnFinishContract --------------------------
(***************************************************************************)
(* What lua_connection promises to whoever starts a script: the contract   *)
(* of on_finish_cb (src/src/lua/lua_connection.h).  The callback is called *)
(* ("") ("") by a script that succeeds, ("") (error) by one that fails     *)
(* after on_finish, (error) by one that fails before it, and nothing after *)
(* that: the host closes the Lua state with the last of these calls.       *)
(***************************************************************************)
EXTENDS Sequences, SequencesExt

VARIABLE seen   \* the calls the host has handled, oldest first

\* The complete call sequences the documentation of on_finish_cb lists.
Legal == {<<"ok", "ok">>, <<"ok", "err">>, <<"err">>}

Closed == seen \in Legal

Init == seen = <<>>

\* The host handles one more call, as long as a legal sequence allows it.
Call(arg) ==
  /\ \E s \in Legal : IsStrictPrefix(seen, s) /\ IsPrefix(Append(seen, arg), s)
  /\ seen' = Append(seen, arg)

Next == \E arg \in {"ok", "err"} : Call(arg)

\* The promise is that the sequence is completed, not only never broken.
Spec == Init /\ [][Next]_seen /\ WF_seen(Next)

=============================================================================
