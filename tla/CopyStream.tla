----------------------------- MODULE CopyStream -----------------------------
(***************************************************************************)
(* The copy-stream loop of streams.c (cmd_copy_stream): bytes are read     *)
(* one at a time from the source, gathered in a COPY_BUFSIZ buffer and     *)
(* handed to stream_puts when the buffer is full and once more at EOF;     *)
(* after every byte the interrupt flag is polled.  A source byte is        *)
(* abstracted to its position in the source, so that a lost, repeated or  *)
(* reordered byte shows in the destination.  One step is one iteration    *)
(* of the loop.                                                            *)
(***************************************************************************)
EXTENDS Naturals, Sequences

CONSTANTS
  BufSize,       \* COPY_BUFSIZ (512)
  SrcLens,       \* the lengths of the source streams copied
  PutsOutcomes   \* how stream_puts on the destination may end

ASSUME CopyAssumption ==
  /\ BufSize \in Nat \ {0}
  /\ SrcLens \subseteq Nat
  /\ PutsOutcomes \subseteq {"all", "none", "partial", "taken"}
  /\ "all" \in PutsOutcomes

VARIABLES
  src,   \* the bytes stream_getc(source) has still to return
  read,  \* ghost: the bytes stream_getc(source) returned so far
  dst,   \* the bytes the destination stream received
  buf,   \* buff[0 .. ptr - buff - 1]
  len,   \* the byte counter `len'
  pc,    \* "loop" in the while loop, "flush" after it, "done" returned
  res    \* what was returned: "count" (MAKE_INT(len)), "nil" or "null"

vars == <<src, read, dst, buf, len, pc, res>>

Init ==
  /\ \E n \in SrcLens : src = [i \in 1 .. n |-> i]
  /\ read = <<>>
  /\ dst = <<>>
  /\ buf = <<>>
  /\ len = 0
  /\ pc = "loop"
  /\ res = "none"

(* The ways stream_puts(dest, buff, n, FALSE) can end: everything written *)
(* (the accumulator, a callable), nothing written and EOF returned        *)
(* (pos_puts on a read-only buffer), a short fwrite count, or a callable  *)
(* that was handed the whole buffer and returned the integer -1, which    *)
(* replaces the count (rc = VINT(res), 524-525).                          *)
PutsResults(bs) ==
  {[w |-> bs, eof |-> FALSE]}
  \cup {[w |-> <<>>, eof |-> TRUE] : o \in PutsOutcomes \cap {"none"}}
  \cup {[w |-> bs, eof |-> TRUE] : o \in PutsOutcomes \cap {"taken"}}
  \cup {[w |-> SubSeq(bs, 1, k), eof |-> FALSE] :
          k \in IF "partial" \in PutsOutcomes THEN 0 .. Len(bs) - 1 ELSE {}}

(* TEST_INT; if(INT_P) return LISP_NULL; *)
PollInterrupt ==
  \/ /\ pc' = "loop"
     /\ UNCHANGED res
  \/ /\ pc' = "done"
     /\ res' = "null"

(* Variant with a plausible bug: the buffer pointer is not reset after    *)
(* the flush of a full buffer.                                            *)
ReadByteNoReset ==
  /\ pc = "loop"
  /\ src # <<>>
  /\ src' = Tail(src)
  /\ read' = Append(read, Head(src))
  /\ IF Len(buf) >= BufSize - 1
       THEN \E r \in PutsResults(buf) :
              /\ dst' = dst \o r.w
              /\ IF r.eof
                   THEN /\ pc' = "flush"
                        /\ UNCHANGED <<buf, len, res>>
                   ELSE /\ UNCHANGED buf
                        /\ len' = len + 1
                        /\ PollInterrupt
       ELSE /\ buf' = Append(buf, Head(src))
            /\ len' = len + 1
            /\ UNCHANGED dst
            /\ PollInterrupt

(* One iteration of the while loop (streams.c 736-751) on a byte c: a     *)
(* full buffer is flushed, and c is then not stored; a flush that returns *)
(* EOF breaks out of the loop before the count and the poll.              *)
ReadByte ==
  /\ pc = "loop"
  /\ src # <<>>
  /\ src' = Tail(src)
  /\ read' = Append(read, Head(src))
  /\ IF Len(buf) >= BufSize - 1
       THEN \E r \in PutsResults(buf) :
              /\ dst' = dst \o r.w
              /\ IF r.eof
                   THEN /\ pc' = "flush"
                        /\ UNCHANGED <<buf, len, res>>
                   ELSE /\ buf' = <<>>
                        /\ len' = len + 1
                        /\ PollInterrupt
       ELSE /\ buf' = Append(buf, Head(src))
            /\ len' = len + 1
            /\ UNCHANGED dst
            /\ PollInterrupt

(* The end of the loop (streams.c 752-759): the source returned EOF or a  *)
(* flush failed; what the buffer holds is written, its result ignored,    *)
(* and the count returned, nil for zero.                                  *)
Finish ==
  /\ \/ pc = "flush"
     \/ pc = "loop" /\ src = <<>>
  /\ IF buf # <<>>
       THEN \E r \in PutsResults(buf) : dst' = dst \o r.w
       ELSE UNCHANGED dst
  /\ res' = IF len # 0 THEN "count" ELSE "nil"
  /\ pc' = "done"
  /\ UNCHANGED <<src, read, buf, len>>

Next == ReadByte \/ Finish

Spec == Init /\ [][Next]_vars

-----------------------------------------------------------------------------
(* Whatever the destination does and wherever the loop is interrupted,    *)
(* the destination receives source bytes in source order and never one   *)
(* twice (spec section 8, scenario 5: dst gets the identical sequence):  *)
(* what was written, followed by what is still buffered while the call   *)
(* runs, is an ordered selection of what was read.                        *)
StrictlyIncreasing(s) == \A i \in 1 .. Len(s) - 1 : s[i] < s[i + 1]

DstInOrder ==
  LET out == IF pc = "done" THEN dst ELSE dst \o buf IN
  /\ StrictlyIncreasing(out)
  /\ \A i \in 1 .. Len(out) : \E j \in 1 .. Len(read) : out[i] = read[j]

(* Spec section 8, scenario 5: when copy-stream returns a count and every *)
(* write succeeded, the destination holds exactly the bytes read from the *)
(* source and the count is their number.                                  *)
CopyComplete ==
  pc = "done" /\ res = "count" => dst = read /\ len = Len(read)
=============================================================================
