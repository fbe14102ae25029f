------------------------ MODULE AccumulatorRefinement ------------------------
(***************************************************************************)
(* Proof that the string output stream implements a byte queue: under the  *)
(* mapping out <- Content (the first STRING_LEN bytes of the car string),  *)
(* every step of stream_putc, stream_puts and get-output-stream-string is  *)
(* a step of AccumulatorAbs or leaves its variables unchanged.  The step   *)
(* proofs rest on the safety invariant IInv of AccumulatorProofs: only     *)
(* because no write leaves the allocation are the stored bytes all kept.   *)
(***************************************************************************)
EXTENDS AccumulatorProofs, SequenceTheorems

(* The abstract runs AccumulatorAbs writes. *)
AbsRuns == UNION {[1 .. n -> Bytes] : n \in PutLens \cup {1}}

(* The content is a sequence of STRING_LEN bytes. *)
LEMMA ContentOK ==
  ASSUME TypeOK, Terminated
  PROVE  /\ Content \in Seq(Bytes)
         /\ Len(Content) = len
BY DEF Content, TypeOK, Terminated

(* StoreRun on an allocation whose first len cells are the current ones    *)
(* appends the run to the content, provided it fits before the last cell.  *)
LEMMA StoreRunAppends ==
  ASSUME TypeOK, Terminated,
         NEW m, NEW sz \in Nat, NEW bs \in Seq(Bytes),
         \A j \in 0 .. len - 1 : m[j] = mem[j],
         len + Len(bs) < sz,
         StoreRun(m, sz, bs)
  PROVE  Content' = Content \o bs
<1>1. len' = len + Len(bs)
  BY DEF StoreRun
<1>2. ASSUME NEW i \in 1 .. len PROVE mem'[i - 1] = Content[i]
  BY <1>2, <1>1 DEF StoreRun, Content, TypeOK
<1>3. ASSUME NEW i \in len + 1 .. len + Len(bs) PROVE mem'[i - 1] = bs[i - len]
  BY <1>3, <1>1 DEF StoreRun, TypeOK
<1>4. /\ Content \o bs \in Seq(Bytes)
      /\ Len(Content \o bs) = len + Len(bs)
      /\ \A i \in 1 .. len + Len(bs) :
           (Content \o bs)[i] = IF i <= len THEN Content[i] ELSE bs[i - len]
  <2>1. Content \in Seq(Bytes) /\ Len(Content) = len
    BY ContentOK
  <2>2. /\ Content \o bs \in Seq(Bytes)
        /\ Len(Content \o bs) = Len(Content) + Len(bs)
        /\ \A i \in 1 .. Len(Content) + Len(bs) :
             (Content \o bs)[i] = IF i <= Len(Content) THEN Content[i]
                                  ELSE bs[i - Len(Content)]
    BY <2>1, ConcatProperties
  <2>3. QED
    BY <2>1, <2>2
<1>5. ASSUME NEW i \in 1 .. len' PROVE Content'[i] = (Content \o bs)[i]
  <2>1. Content'[i] = mem'[i - 1]
    BY DEF Content
  <2>2. CASE i <= len
    BY <1>2, <1>4, <2>1, <2>2 DEF TypeOK
  <2>3. CASE ~(i <= len)
    BY <1>1, <1>3, <1>4, <2>1, <2>3 DEF TypeOK
  <2>4. QED
    BY <2>2, <2>3
<1>6. Content' \in Seq(Bytes)
  <2>1. ASSUME NEW i \in 1 .. len' PROVE Content'[i] \in Bytes
    <3>1. (Content \o bs)[i] \in Bytes
      BY <1>1, <1>4, ElementOfSeq
    <3>2. QED
      BY <3>1, <1>5
  <2>2. QED
    BY <1>1, <2>1 DEF Content, TypeOK
<1>7. Len(Content') = len'
  BY <1>1 DEF Content, TypeOK
<1>8. QED
  BY <1>1, <1>4, <1>5, <1>6, <1>7, SeqEqual

(* A stored run that kept the allocation in bounds fitted before its last  *)
(* cell: the ghost oob records exactly the runs that did not.              *)
LEMMA FitsIfNoOverrun ==
  ASSUME NEW m, NEW sz, NEW bs, StoreRun(m, sz, bs), NoOverrun'
  PROVE  ~(len + Len(bs) >= sz)
<1>1. oob' = (oob \/ len + Len(bs) >= sz) /\ ~oob'
  BY DEF StoreRun, NoOverrun
<1>2. QED
  BY <1>1, Zenon

(* The growth copy keeps the first len cells. *)
LEMMA GrowCopyKeeps ==
  ASSUME TypeOK, NEW nl \in Nat, len <= nl
  PROVE  \A j \in 0 .. len - 1 : GrowCopy(nl)[j] = mem[j]
BY DEF GrowCopy, TypeOK

LEMMA RefInit == Init => Abs!Init
<1> SUFFICES ASSUME Init PROVE Abs!Init
  OBVIOUS
<1>1. Content = <<>>
  BY DEF Init, Content
<1>2. QED
  BY <1>1 DEF Init, Abs!Init

(* A write of the run bs that either appends it and returns its length or *)
(* fails with 0 and changes nothing is an abstract Put.                   *)
LEMMA PutIsAbsPut ==
  ASSUME NEW bs \in AbsRuns,
         len + Len(bs) <= MaxLen, Len(Content) = len,
         \/ Content' = Content \o bs /\ rc' = Len(bs)
         \/ rc' = 0 /\ UNCHANGED Content,
         UNCHANGED result
  PROVE  Abs!Next
<1>1. Abs!Put(bs)
  BY DEF Abs!Put
<1>2. QED
  BY <1>1 DEF Abs!Next, AbsRuns

(* stream_putc is an abstract Put of the one-byte run. *)
LEMMA RefPutChar ==
  ASSUME IInv, IInv', NEW c \in Bytes, PutChar(c)
  PROVE  Abs!Next
<1> DEFINE nl == PutcNewLen
<1>0. /\ <<c>> \in Seq(Bytes) /\ Len(<<c>>) = 1
      /\ len + 1 <= MaxLen
      /\ UNCHANGED result
      /\ Len(Content) = len
      /\ len \in Nat /\ size \in Nat
  BY ContentOK DEF PutChar, IInv, TypeOK
<1>01. NoOverrun' /\ TypeOK /\ Terminated
  BY DEF IInv
<1>00. <<c>> \in AbsRuns
  <2>1. <<c>> \in [1 .. 1 -> Bytes]
    OBVIOUS
  <2>2. QED
    BY <2>1 DEF AbsRuns
<1>1. CASE /\ len + 1 >= cap
           /\ StoreRun(GrowCopy(nl), nl + 1, <<c>>)
           /\ rc' = 1
  <2>1. nl \in Nat /\ len <= nl
    BY AccumulatorAssumption DEF PutcNewLen, IInv, CapInv, TypeOK
  <2>2. len + Len(<<c>>) < nl + 1
    <3>1. ~(len + Len(<<c>>) >= nl + 1)
      BY <1>01, <1>1, FitsIfNoOverrun
    <3>2. QED
      BY <1>0, <2>1, <3>1
  <2>3. Content' = Content \o <<c>>
    <3>1. \A j \in 0 .. len - 1 : GrowCopy(nl)[j] = mem[j]
      BY <2>1, GrowCopyKeeps DEF IInv
    <3>2. nl + 1 \in Nat
      BY <2>1
    <3>3. QED
      BY <1>0, <1>01, <1>1, <2>2, <3>1, <3>2, StoreRunAppends, Zenon
  <2>4. QED
    BY <1>0, <1>00, <1>1, <2>3, PutIsAbsPut
<1>2. CASE rc' = 0 /\ UNCHANGED <<mem, size, len, cap, oob>>
  <2>1. UNCHANGED Content
    BY <1>2 DEF Content
  <2>2. QED
    BY <1>0, <1>00, <1>2, <2>1, PutIsAbsPut
<1>3. CASE /\ ~(len + 1 >= cap)
           /\ StoreRun(mem, size, <<c>>)
           /\ rc' = 1
  <2>1. len + Len(<<c>>) < size
    <3>1. ~(len + Len(<<c>>) >= size)
      BY <1>01, <1>3, FitsIfNoOverrun
    <3>2. QED
      BY <1>0, <3>1
  <2>2. Content' = Content \o <<c>>
    BY <1>0, <1>01, <1>3, <2>1, StoreRunAppends
  <2>3. QED
    BY <1>0, <1>00, <1>3, <2>2, PutIsAbsPut
<1>4. QED
  BY <1>1, <1>2, <1>3 DEF PutChar

(* stream_puts is an abstract Put of its run. *)
LEMMA RefPutBytes ==
  ASSUME IInv, IInv', NEW bs \in Payloads, PutBytes(bs)
  PROVE  Abs!Next
<1> DEFINE nl == PutsNewLen(Len(bs))
<1>0. /\ bs \in Seq(Bytes)
      /\ bs \in AbsRuns
      /\ len + Len(bs) <= MaxLen
      /\ UNCHANGED result
      /\ Len(Content) = len
      /\ len \in Nat /\ size \in Nat
  BY PayloadIsSeq, ContentOK DEF PutBytes, IInv, TypeOK, Payloads, AbsRuns
<1>1. NoOverrun' /\ TypeOK /\ Terminated
  BY DEF IInv
<1>2. CASE /\ cap <= len + Len(bs) + 1
           /\ StoreRun(GrowCopy(nl), nl + 1, bs)
           /\ rc' = Len(bs)
  <2>1. nl \in Nat /\ len <= nl
    BY <1>0, AccumulatorAssumption DEF PutsNewLen, IInv, CapInv, TypeOK
  <2>2. len + Len(bs) < nl + 1
    <3>1. ~(len + Len(bs) >= nl + 1)
      BY <1>1, <1>2, FitsIfNoOverrun
    <3>2. QED
      BY <1>0, <2>1, <3>1
  <2>3. Content' = Content \o bs
    <3>1. \A j \in 0 .. len - 1 : GrowCopy(nl)[j] = mem[j]
      BY <2>1, GrowCopyKeeps DEF IInv
    <3>2. nl + 1 \in Nat
      BY <2>1
    <3>3. QED
      BY <1>0, <1>1, <1>2, <2>2, <3>1, <3>2, StoreRunAppends, Zenon
  <2>4. QED
    BY <1>0, <1>2, <2>3, PutIsAbsPut
<1>3. CASE rc' = 0 /\ UNCHANGED <<mem, size, len, cap, oob>>
  <2>1. UNCHANGED Content
    BY <1>3 DEF Content
  <2>2. QED
    BY <1>0, <1>3, <2>1, PutIsAbsPut
<1>4. CASE /\ ~(cap <= len + Len(bs) + 1)
           /\ StoreRun(mem, size, bs)
           /\ rc' = Len(bs)
  <2>1. len + Len(bs) < size
    <3>1. ~(len + Len(bs) >= size)
      BY <1>1, <1>4, FitsIfNoOverrun
    <3>2. QED
      BY <1>0, <3>1
  <2>2. Content' = Content \o bs
    BY <1>0, <1>1, <1>4, <2>1, StoreRunAppends
  <2>3. QED
    BY <1>0, <1>4, <2>2, PutIsAbsPut
<1>5. QED
  BY <1>2, <1>3, <1>4 DEF PutBytes

(* get-output-stream-string is an abstract Get: it returns the content    *)
(* and leaves the stream empty.                                           *)
LEMMA RefGet ==
  ASSUME GetOutputStreamString
  PROVE  Abs!Next
<1>1. Content' = <<>>
  BY DEF GetOutputStreamString, Content
<1>2. Abs!Get
  BY <1>1 DEF GetOutputStreamString, Abs!Get
<1>3. QED
  BY <1>2 DEF Abs!Next

(* Every step of the stream is an abstract step or an abstract stutter. *)
LEMMA RefNext ==
  ASSUME IInv, IInv', [Next]_vars
  PROVE  [Abs!Next]_<<Content, result, rc>>
<1>1. CASE \E c \in Bytes : PutChar(c)
  BY <1>1, RefPutChar
<1>2. CASE \E bs \in Payloads : PutBytes(bs)
  BY <1>2, RefPutBytes
<1>3. CASE GetOutputStreamString
  BY <1>3, RefGet
<1>4. CASE UNCHANGED vars
  BY <1>4 DEF vars, Content
<1>5. QED
  BY <1>1, <1>2, <1>3, <1>4 DEF Next

(* The string output stream implements AccumulatorAbs under the mapping   *)
(* out <- Content: for every choice of the thresholds, bytes written by   *)
(* stream_putc and stream_puts are appended to the content in order, a    *)
(* failed growth changes nothing and returns 0, and                       *)
(* get-output-stream-string returns exactly the content and empties it.   *)
THEOREM AccumulatorRefines == Spec => AbsSpec
<1>1. Spec => []IInv
  BY InitIInv, NextIInv, PTL DEF Spec
<1>2. IInv /\ IInv' /\ [Next]_vars => [Abs!Next]_<<Content, result, rc>>
  BY RefNext
<1>3. QED
  BY <1>1, <1>2, RefInit, PTL DEF Spec, AbsSpec, Abs!Spec, Abs!absVars
====
