-------------------------- MODULE AccumulatorProofs --------------------------
(***************************************************************************)
(* Proofs about the string output stream (Accumulator): for every choice   *)
(* of the thresholds allowed by AccumulatorAssumption, no write of         *)
(* stream_putc or stream_puts leaves the allocation and the car string     *)
(* stays zero-terminated.                                                  *)
(***************************************************************************)
EXTENDS Accumulator, TLAPS

(* The values a byte of the car string's allocation can hold. *)
Cell == Bytes \cup {Nul, Garbage}

(* The cdr is the allocation size less the terminator's byte, and the     *)
(* content is shorter than the cdr once the stream has grown.  This is    *)
(* what makes the capacity stream_putc grows to always large enough.      *)
CapInv ==
  /\ size = cap + 1
  /\ len < cap \/ len = 0

IInv == TypeOK /\ NoOverrun /\ Terminated /\ CapInv

-----------------------------------------------------------------------------
(* A run handed to stream_puts is a sequence of bytes. *)
LEMMA PayloadIsSeq ==
  ASSUME NEW bs \in Payloads
  PROVE  bs \in Seq(Bytes)
BY AccumulatorAssumption DEF Payloads

(* The growth copy keeps the written bytes and has nl + 1 cells. *)
LEMMA GrowCopyOK ==
  ASSUME TypeOK, Terminated, NEW nl \in Nat, len <= nl
  PROVE  /\ GrowCopy(nl) \in [0 .. (nl + 1) - 1 -> Cell]
         /\ \A j \in 0 .. len - 1 : GrowCopy(nl)[j] \in Bytes
BY DEF GrowCopy, TypeOK, Terminated, Cell

(* Storing a run that fits before the last cell keeps the allocation in   *)
(* bounds, writes the terminator and keeps every content byte written.    *)
LEMMA StoreRunOK ==
  ASSUME TypeOK,
         NEW m, NEW sz \in Nat,
         m \in [0 .. sz - 1 -> Cell],
         \A j \in 0 .. len - 1 : m[j] \in Bytes,
         NEW bs \in Seq(Bytes),
         len + Len(bs) < sz,
         StoreRun(m, sz, bs)
  PROVE  /\ mem' \in [0 .. size' - 1 -> Cell]
         /\ size' \in Nat \ {0}
         /\ len' = len + Len(bs)
         /\ len' < size'
         /\ mem'[len'] = Nul
         /\ \A j \in 0 .. len' - 1 : mem'[j] \in Bytes
         /\ oob' = oob
BY DEF StoreRun, TypeOK, Cell

-----------------------------------------------------------------------------
(* The empty accumulator: one allocated byte, holding the terminator. *)
LEMMA EmptyStringOK ==
  /\ EmptyString \in [0 .. 1 - 1 -> Cell]
  /\ EmptyString[0] = Nul
BY DEF EmptyString, Cell

LEMMA InitIInv == Init => IInv
<1> SUFFICES ASSUME Init PROVE IInv
  OBVIOUS
<1>1. TypeOK
  BY EmptyStringOK, AccumulatorAssumption DEF Init, TypeOK, Cell
<1>2. Terminated /\ CapInv /\ NoOverrun
  BY EmptyStringOK DEF Init, Terminated, CapInv, NoOverrun
<1>3. QED
  BY <1>1, <1>2 DEF IInv

LEMMA GetIInv == IInv /\ GetOutputStreamString => IInv'
<1> SUFFICES ASSUME IInv, GetOutputStreamString PROVE IInv'
  OBVIOUS
<1>1. Content \in Seq(Bytes)
  BY DEF IInv, TypeOK, Terminated, Content
<1>2. QED
  BY <1>1, EmptyStringOK, AccumulatorAssumption
  DEF GetOutputStreamString, IInv, TypeOK, NoOverrun, Terminated, CapInv, Cell

(* stream_putc keeps the invariant: the capacity it grows to exceeds the  *)
(* new length, whichever branch of `actuallen < 16 ? 32 : actuallen*2'.   *)
LEMMA PutCharIInv ==
  ASSUME IInv, NEW c \in Bytes, PutChar(c)
  PROVE  IInv'
<1> DEFINE nl == PutcNewLen
<1>0. /\ <<c>> \in Seq(Bytes)
      /\ Len(<<c>>) = 1
      /\ len + 1 <= MaxLen
      /\ UNCHANGED result
  BY DEF PutChar
<1>1. CASE /\ len + 1 >= cap
           /\ StoreRun(GrowCopy(nl), nl + 1, <<c>>)
           /\ cap' = nl
           /\ rc' = 1
  <2>1. nl \in Nat /\ len + 2 <= nl /\ len <= nl
    BY AccumulatorAssumption DEF PutcNewLen, IInv, CapInv, TypeOK
  <2>2. /\ GrowCopy(nl) \in [0 .. (nl + 1) - 1 -> Cell]
        /\ \A j \in 0 .. len - 1 : GrowCopy(nl)[j] \in Bytes
    BY <2>1, GrowCopyOK DEF IInv
  <2>3. /\ mem' \in [0 .. size' - 1 -> Cell]
        /\ size' \in Nat \ {0}
        /\ len' = len + 1
        /\ len' < size'
        /\ mem'[len'] = Nul
        /\ \A j \in 0 .. len' - 1 : mem'[j] \in Bytes
        /\ oob' = oob
    BY <1>0, <1>1, <2>1, <2>2, StoreRunOK DEF IInv
  <2>4. size' = nl + 1
    BY <1>1 DEF StoreRun
  <2>5. QED
    BY <1>0, <1>1, <2>1, <2>3, <2>4
    DEF IInv, TypeOK, NoOverrun, Terminated, CapInv, Cell
<1>2. CASE /\ rc' = 0
           /\ UNCHANGED <<mem, size, len, cap, oob>>
  BY <1>0, <1>2 DEF IInv, TypeOK, NoOverrun, Terminated, CapInv
<1>3. CASE /\ ~(len + 1 >= cap)
           /\ StoreRun(mem, size, <<c>>)
           /\ rc' = 1
           /\ UNCHANGED cap
  <2>1. /\ mem' \in [0 .. size' - 1 -> Cell]
        /\ size' \in Nat \ {0}
        /\ len' = len + 1
        /\ len' < size'
        /\ mem'[len'] = Nul
        /\ \A j \in 0 .. len' - 1 : mem'[j] \in Bytes
        /\ oob' = oob
    <3>1. /\ size \in Nat
          /\ mem \in [0 .. size - 1 -> Cell]
          /\ \A j \in 0 .. len - 1 : mem[j] \in Bytes
          /\ len + 1 < size
      BY <1>0, <1>3 DEF IInv, TypeOK, Terminated, CapInv, Cell
    <3>2. QED
      BY <1>0, <1>3, <3>1, StoreRunOK DEF IInv
  <2>2. size' = size
    BY <1>3 DEF StoreRun
  <2>3. QED
    BY <1>0, <1>3, <2>1, <2>2
    DEF IInv, TypeOK, NoOverrun, Terminated, CapInv, Cell
<1>4. QED
  BY <1>1, <1>2, <1>3 DEF PutChar

(* stream_puts keeps the invariant: the capacity it grows to is at least  *)
(* len + bufLen + 1, and the no-growth branch needs actuallen > that.     *)
LEMMA PutBytesIInv ==
  ASSUME IInv, NEW bs \in Payloads, PutBytes(bs)
  PROVE  IInv'
<1> DEFINE nl == PutsNewLen(Len(bs))
<1>0. /\ bs \in Seq(Bytes)
      /\ len + Len(bs) <= MaxLen
      /\ UNCHANGED result
  BY PayloadIsSeq DEF PutBytes
<1>1. CASE /\ cap <= len + Len(bs) + 1
           /\ StoreRun(GrowCopy(nl), nl + 1, bs)
           /\ cap' = nl
           /\ rc' = Len(bs)
  <2>1. nl \in Nat /\ len + Len(bs) + 1 <= nl /\ len <= nl
    BY <1>0, AccumulatorAssumption DEF PutsNewLen, IInv, CapInv, TypeOK
  <2>2. /\ GrowCopy(nl) \in [0 .. (nl + 1) - 1 -> Cell]
        /\ \A j \in 0 .. len - 1 : GrowCopy(nl)[j] \in Bytes
    BY <1>0, <2>1, GrowCopyOK DEF IInv
  <2>3. /\ mem' \in [0 .. size' - 1 -> Cell]
        /\ size' \in Nat \ {0}
        /\ len' = len + Len(bs)
        /\ len' < size'
        /\ mem'[len'] = Nul
        /\ \A j \in 0 .. len' - 1 : mem'[j] \in Bytes
        /\ oob' = oob
    BY <1>0, <1>1, <2>1, <2>2, StoreRunOK DEF IInv
  <2>4. size' = nl + 1
    BY <1>1 DEF StoreRun
  <2>5. QED
    BY <1>0, <1>1, <2>1, <2>3, <2>4
    DEF IInv, TypeOK, NoOverrun, Terminated, CapInv, Cell
<1>2. CASE /\ rc' = 0
           /\ UNCHANGED <<mem, size, len, cap, oob>>
  BY <1>0, <1>2 DEF IInv, TypeOK, NoOverrun, Terminated, CapInv
<1>3. CASE /\ ~(cap <= len + Len(bs) + 1)
           /\ StoreRun(mem, size, bs)
           /\ rc' = Len(bs)
           /\ UNCHANGED cap
  <2>1. /\ mem' \in [0 .. size' - 1 -> Cell]
        /\ size' \in Nat \ {0}
        /\ len' = len + Len(bs)
        /\ len' < size'
        /\ mem'[len'] = Nul
        /\ \A j \in 0 .. len' - 1 : mem'[j] \in Bytes
        /\ oob' = oob
    <3>1. /\ size \in Nat
          /\ mem \in [0 .. size - 1 -> Cell]
          /\ \A j \in 0 .. len - 1 : mem[j] \in Bytes
          /\ len + Len(bs) < size
      BY <1>0, <1>3 DEF IInv, TypeOK, Terminated, CapInv, Cell
    <3>2. QED
      BY <1>0, <1>3, <3>1, StoreRunOK DEF IInv
  <2>2. size' = size
    BY <1>3 DEF StoreRun
  <2>3. QED
    BY <1>0, <1>3, <2>1, <2>2
    DEF IInv, TypeOK, NoOverrun, Terminated, CapInv, Cell
<1>4. QED
  BY <1>1, <1>2, <1>3 DEF PutBytes

LEMMA NextIInv == IInv /\ [Next]_vars => IInv'
<1> SUFFICES ASSUME IInv, [Next]_vars PROVE IInv'
  OBVIOUS
<1>1. CASE \E c \in Bytes : PutChar(c)
  BY <1>1, PutCharIInv
<1>2. CASE \E bs \in Payloads : PutBytes(bs)
  BY <1>2, PutBytesIInv
<1>3. CASE GetOutputStreamString
  BY <1>3, GetIInv
<1>4. CASE UNCHANGED vars
  BY <1>4 DEF vars, IInv, TypeOK, NoOverrun, Terminated, CapInv
<1>5. QED
  BY <1>1, <1>2, <1>3, <1>4 DEF Next

(* Whatever the thresholds (MinCap >= 2, 1 <= SmallCap <= MinCap, which   *)
(* the code's 32 and 16 satisfy), no write of stream_putc or stream_puts  *)
(* on a string output stream leaves its allocation, the car string stays  *)
(* zero-terminated and the state is well typed.                            *)
THEOREM AccumulatorSafe == Spec => [](TypeOK /\ NoOverrun /\ Terminated)
<1>1. IInv => TypeOK /\ NoOverrun /\ Terminated
  BY DEF IInv
<1>2. QED
  BY <1>1, InitIInv, NextIInv, PTL DEF Spec
=============================================================================
