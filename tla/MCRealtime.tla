----------------------------- MODULE MCRealtime -----------------------------
(* One browser tab that changes its token while connections come and go.    *)
EXTENDS Realtime
=============================================================================
