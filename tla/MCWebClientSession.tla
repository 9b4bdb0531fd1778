-------------------------- MODULE MCWebClientSession ---------------------------
(* A page with two calls under way and two pairs of tokens.                *)
EXTENDS WebClientSession

CONSTANTS c1, c2

MCCalls == {c1, c2}

================================================================================
