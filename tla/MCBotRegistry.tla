--------------------------- MODULE MCBotRegistry ---------------------------
(***************************************************************************)
(* Four bots, three of which have the same username, package and server.   *)
(***************************************************************************)
EXTENDS BotRegistry

CONSTANTS b1, b2, b3, b4, id1, id2

MCBots == {b1, b2, b3, b4}
MCIdentifiers == {id1, id2}
MCIdentifier == [b \in MCBots |-> IF b = b4 THEN id2 ELSE id1]

=============================================================================
