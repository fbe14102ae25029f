---------------------------- MODULE MCCopyStream ----------------------------
(* Model-checking instance of the copy-stream loop. *)
EXTENDS CopyStream

(* A three-byte buffer stands for COPY_BUFSIZ: the loop's behaviour only  *)
(* depends on when the buffer is full, and a seven-byte source fills it   *)
(* three times.                                                           *)
MCBufSize == 3
MCSrcLens == 0 .. 7
(* The destinations that are not callables: the accumulator, a file      *)
(* (short fwrite), a buffer or mark (pos_puts failing with EOF).          *)
MCOutcomesAll == {"all", "none", "partial"}
(* A callable destination, which may also return -1 after taking the     *)
(* whole buffer.                                                          *)
MCOutcomesCallable == {"all", "none", "partial", "taken"}
MCOutcomesReliable == {"all"}
=============================================================================
