--------------------------- MODULE CallableStreams ---------------------------
(***************************************************************************)
(* Callable streams and the GC-inhibit flag.  Each of stream_getc,         *)
(* stream_ungetc, stream_putc and stream_puts, on a function stream, saves *)
(* gc_inhibit in its local `oldgci', sets it, calls the function and puts  *)
(* the saved value back.  The function is arbitrary Lisp code: it may call *)
(* the stream primitives again on callable streams (nesting the saves) and *)
(* the code around the primitive may have inhibited GC itself.  `frames'   *)
(* is the C stack of primitive calls inside call_lisp0/call_lisp1, each    *)
(* with its saved `oldgci'.                                                *)
(***************************************************************************)
EXTENDS Naturals, Sequences

CONSTANTS
  MaxDepth   \* bound on the nesting of callable-stream calls

ASSUME CallableAssumption == MaxDepth \in Nat

Ops == {"get", "unget", "putc", "puts"}

VARIABLES
  gci,      \* gc_inhibit
  frames,   \* the active callable invocations, innermost first
  base,     \* ghost: gc_inhibit as the code outside any callable set it
  unsafeGC  \* ghost: a collection ran while a callable invocation was active

vars == <<gci, frames, base, unsafeGC>>

Init ==
  /\ gci \in BOOLEAN
  /\ frames = <<>>
  /\ base = gci
  /\ unsafeGC = FALSE

(* Variant with a plausible bug: gc_inhibit is set only once the call    *)
(* has started (the assignment moved below call_lisp).                    *)
CallFunctionLateInhibit(op) ==
  /\ Len(frames) < MaxDepth
  /\ frames' = <<[op |-> op, oldgci |-> gci]>> \o frames
  /\ UNCHANGED <<gci, base, unsafeGC>>

(* The primitive op reaches its callable branch (streams.c 182-184,      *)
(* 269-272, 382-384, 516-522): oldgci = gc_inhibit; gc_inhibit = TRUE;   *)
(* then the call starts.                                                  *)
CallFunction(op) ==
  /\ Len(frames) < MaxDepth
  /\ frames' = <<[op |-> op, oldgci |-> gci]>> \o frames
  /\ gci' = TRUE
  /\ UNCHANGED <<base, unsafeGC>>

(* Variant with a plausible bug: the flag is cleared, not restored. *)
ReturnClearing ==
  /\ frames # <<>>
  /\ gci' = FALSE
  /\ frames' = Tail(frames)
  /\ UNCHANGED <<base, unsafeGC>>

(* The innermost call returns, normally or with an error (Lisp errors    *)
(* come back as a null result, there is no non-local exit): gc_inhibit   *)
(* = oldgci (streams.c 186, 274, 386, 529).                               *)
Return ==
  /\ frames # <<>>
  /\ gci' = Head(frames).oldgci
  /\ frames' = Tail(frames)
  /\ UNCHANGED <<base, unsafeGC>>

(* Code outside any callable invocation opens or closes its own          *)
(* GC-inhibited region (the collaborators of this file).                  *)
SetInhibit(b) ==
  /\ frames = <<>>
  /\ gci' = b
  /\ base' = b
  /\ UNCHANGED <<frames, unsafeGC>>

(* The collector runs, at a point where evaluation allows it, only when  *)
(* gc_inhibit is clear.                                                   *)
Collect ==
  /\ ~gci
  /\ unsafeGC' = (frames # <<>>)
  /\ UNCHANGED <<gci, frames, base>>

Next ==
  \/ \E op \in Ops : CallFunction(op)
  \/ Return
  \/ \E b \in BOOLEAN : SetInhibit(b)
  \/ Collect

Spec == Init /\ [][Next]_vars

-----------------------------------------------------------------------------
TypeOK ==
  /\ gci \in BOOLEAN
  /\ frames \in Seq([op : Ops, oldgci : BOOLEAN])
  /\ base \in BOOLEAN
  /\ unsafeGC \in BOOLEAN

(* No garbage collection happens while a callable stream's function runs *)
(* under a stream primitive, however deeply the calls nest: the strings  *)
(* built for it and held only in C locals survive.                       *)
NoCollectDuringCall == ~unsafeGC

(* Once every callable invocation has returned, gc_inhibit is what the   *)
(* code around the outermost primitive had set: the save/restore pairs   *)
(* never leave GC inhibited, or enabled, behind them.                    *)
InhibitRestored == frames = <<>> => gci = base
=============================================================================
