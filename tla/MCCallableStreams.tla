------------------------- MODULE MCCallableStreams -------------------------
(* Model-checking instance of callable streams and the GC-inhibit flag. *)
EXTENDS CallableStreams

(* Three nested calls: an inner return then happens with outer calls      *)
(* still active, the case a clearing restore gets wrong.                  *)
MCMaxDepth == 3
=============================================================================
