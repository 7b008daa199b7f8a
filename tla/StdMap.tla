-------------------------------- MODULE StdMap --------------------------------
(***************************************************************************)
(* The std::map of strings that the cookies of a client and the settings   *)
(* of a bot are kept in, as functions: what assigning to its entries does. *)
(* (It is what @@ of TLC is, in a form that can be reasoned about.)        *)
(***************************************************************************)

Entry(k, value) == [x \in {k} |-> value]

\* map[k] = new[k] for every k of new.
Over(new, map) ==
  [k \in DOMAIN new \cup DOMAIN map |-> IF k \in DOMAIN new THEN new[k] ELSE map[k]]

=============================================================================
