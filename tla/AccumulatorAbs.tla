---------------------------- MODULE AccumulatorAbs ----------------------------
(***************************************************************************)
(* What a string output stream promises: bytes written to it are appended  *)
(* to its content in order, a failed write changes nothing, and            *)
(* get-output-stream-string returns the content and empties the stream.    *)
(***************************************************************************)
EXTENDS Naturals, Sequences

CONSTANTS Bytes, PutLens, MaxLen

VARIABLES out, result, rc

absVars == <<out, result, rc>>

Init ==
  /\ out = <<>>
  /\ result = <<>>
  /\ rc = 0

(* A write of the run bs: it is appended and its length returned, or it   *)
(* fails and 0 is returned.                                                *)
Put(bs) ==
  /\ Len(out) + Len(bs) <= MaxLen
  /\ \/ /\ out' = out \o bs
        /\ rc' = Len(bs)
     \/ /\ rc' = 0
        /\ UNCHANGED out
  /\ UNCHANGED result

Get ==
  /\ result' = out
  /\ out' = <<>>
  /\ UNCHANGED rc

Next ==
  \/ \E bs \in UNION {[1 .. n -> Bytes] : n \in PutLens \cup {1}} : Put(bs)
  \/ Get

Spec == Init /\ [][Next]_absVars
=============================================================================
