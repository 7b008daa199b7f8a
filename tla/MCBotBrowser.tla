---------------------------- MODULE MCBotBrowser ----------------------------
(***************************************************************************)
(* Three proxies, two requests at a time.                                  *)
(***************************************************************************)
EXTENDS BotBrowser

CONSTANTS p1, p2, p3, r1, r2

MCProxies == {p1, p2, p3}
MCRequests == {r1, r2}

=============================================================================
