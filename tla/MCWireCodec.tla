----------------------------- MODULE MCWireCodec -----------------------------
(* Every message class of im.js, written in up to two parts.                *)
EXTENDS WireCodec

MCClasses == Classes
=============================================================================
