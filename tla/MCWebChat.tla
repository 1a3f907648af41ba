----------------------------- MODULE MCWebChat -----------------------------
(* A short conversation, opened twice, with one repeated push and one fault. *)
EXTENDS WebChat
=============================================================================
