---------------------------- MODULE MCWebSession ----------------------------
(* Two users in turn at one browser, two calls at a time.                   *)
EXTENDS WebSession
=============================================================================
