-------------------------- MODULE CopyStreamProofs --------------------------
(***************************************************************************)
(* Proof that copy-stream never reorders or repeats source bytes in the    *)
(* destination, for every buffer size, every source length and whatever    *)
(* stream_puts does: the order the loop keeps is that of the byte          *)
(* positions, and what a write hands on is always a prefix of the buffer.  *)
(***************************************************************************)
EXTENDS CopyStream, SequenceTheorems, TLAPS

(* The elements of s increase strictly. *)
Ordered(s) == \A i, j \in 1 .. Len(s) : i < j => s[i] < s[j]

(* Every element of s is one of the positions 1 .. n. *)
Within(s, n) == \A i \in 1 .. Len(s) : s[i] \in 1 .. n

(* The inductive invariant: the bytes read so far are positions 1 .. k    *)
(* and the rest of the source comes after them; the destination and the  *)
(* buffer are each ordered, and while the call runs every byte written    *)
(* precedes every byte still buffered.                                    *)
CInv ==
  /\ src \in Seq(Nat) /\ read \in Seq(Nat)
  /\ dst \in Seq(Nat) /\ buf \in Seq(Nat)
  /\ pc \in {"loop", "flush", "done"}
  /\ \A i \in 1 .. Len(read) : read[i] = i
  /\ \A i \in 1 .. Len(src) : src[i] = Len(read) + i
  /\ Ordered(dst) /\ Ordered(buf)
  /\ Within(dst, Len(read)) /\ Within(buf, Len(read))
  /\ pc # "done" =>
       \A i \in 1 .. Len(dst), j \in 1 .. Len(buf) : dst[i] < buf[j]
(* The destination is not a callable that can return -1 after taking the *)
(* buffer: an EOF from stream_puts then means nothing was written.         *)
(* Run copy_callable_eof shows what a callable returning -1 does.         *)
NoTakenEOF == "taken" \notin PutsOutcomes
-----------------------------------------------------------------------------
(* What stream_puts hands on is a prefix of the buffer, and nothing when  *)
(* it returns EOF.                                                         *)
LEMMA PutsPrefix ==
  ASSUME NoTakenEOF, NEW bs \in Seq(Nat), NEW r \in PutsResults(bs)
  PROVE  /\ \E k \in 0 .. Len(bs) : r.w = SubSeq(bs, 1, k)
         /\ r.eof => r.w = <<>>
<1>1. CASE r = [w |-> bs, eof |-> FALSE]
  <2>1. SubSeq(bs, 1, Len(bs)) = bs
    BY SubSeqFull
  <2>2. r.w = SubSeq(bs, 1, Len(bs)) /\ ~r.eof
    BY <1>1, <2>1
  <2>3. Len(bs) \in 0 .. Len(bs)
    OBVIOUS
  <2>4. QED
    BY <2>2, <2>3
<1>2. CASE r = [w |-> <<>>, eof |-> TRUE]
  <2>1. SubSeq(bs, 1, 0) = <<>>
    BY SubSeqEmpty
  <2>2. r.w = SubSeq(bs, 1, 0) /\ r.w = <<>>
    BY <1>2, <2>1
  <2>3. 0 \in 0 .. Len(bs)
    OBVIOUS
  <2>4. QED
    BY <2>2, <2>3
<1>3. CASE \E k \in 0 .. Len(bs) - 1 : r = [w |-> SubSeq(bs, 1, k), eof |-> FALSE]
  <2>1. PICK k \in 0 .. Len(bs) - 1 : r = [w |-> SubSeq(bs, 1, k), eof |-> FALSE]
    BY <1>3
  <2>2. k \in 0 .. Len(bs)
    OBVIOUS
  <2>3. r.w = SubSeq(bs, 1, k) /\ ~r.eof
    BY <2>1
  <2>4. QED
    BY <2>2, <2>3
<1>4. r \notin {[w |-> bs, eof |-> TRUE] : o \in PutsOutcomes \cap {"taken"}}
  BY DEF NoTakenEOF
<1>5. QED
  BY <1>1, <1>2, <1>3, <1>4 DEF PutsResults

(* A prefix of an ordered sequence of positions read is one. *)
LEMMA PrefixOrdered ==
  ASSUME NEW s \in Seq(Nat), NEW k \in 0 .. Len(s), NEW n,
         Ordered(s), Within(s, n)
  PROVE  /\ SubSeq(s, 1, k) \in Seq(Nat)
         /\ Len(SubSeq(s, 1, k)) = k
         /\ \A i \in 1 .. k : SubSeq(s, 1, k)[i] = s[i]
         /\ Ordered(SubSeq(s, 1, k))
         /\ Within(SubSeq(s, 1, k), n)
BY DEF Ordered, Within

(* Two ordered sequences, the first all below the second, concatenate to *)
(* an ordered sequence of positions read.                                 *)
LEMMA ConcatOrdered ==
  ASSUME NEW s \in Seq(Nat), NEW t \in Seq(Nat), NEW n,
         Ordered(s), Ordered(t), Within(s, n), Within(t, n),
         \A i \in 1 .. Len(s), j \in 1 .. Len(t) : s[i] < t[j]
  PROVE  /\ s \o t \in Seq(Nat)
         /\ Ordered(s \o t)
         /\ Within(s \o t, n)
<1>1. /\ s \o t \in Seq(Nat)
      /\ Len(s \o t) = Len(s) + Len(t)
      /\ \A i \in 1 .. Len(s) + Len(t) :
           (s \o t)[i] = IF i <= Len(s) THEN s[i] ELSE t[i - Len(s)]
  BY ConcatProperties
<1>2. Ordered(s \o t)
  <2> SUFFICES ASSUME NEW i \in 1 .. Len(s \o t), NEW j \in 1 .. Len(s \o t), i < j
               PROVE  (s \o t)[i] < (s \o t)[j]
    BY DEF Ordered
  <2>1. CASE j <= Len(s)
    BY <1>1, <2>1 DEF Ordered
  <2>2. CASE i <= Len(s) /\ ~(j <= Len(s))
    BY <1>1, <2>2
  <2>3. CASE ~(i <= Len(s))
    <3>1. i - Len(s) \in 1 .. Len(t) /\ j - Len(s) \in 1 .. Len(t)
      BY <1>1, <2>3
    <3>2. i - Len(s) < j - Len(s)
      BY <1>1
    <3>3. \A a, b \in 1 .. Len(t) : a < b => t[a] < t[b]
      BY DEF Ordered
    <3>4. t[i - Len(s)] < t[j - Len(s)]
      BY <3>1, <3>2, <3>3, Zenon
    <3>5. QED
      BY <1>1, <2>3, <3>4
  <2>4. QED
    BY <2>1, <2>2, <2>3
<1>3. Within(s \o t, n)
  BY <1>1 DEF Within
<1>4. QED
  BY <1>1, <1>2, <1>3

(* A bound on positions can be raised. *)
LEMMA WithinMono ==
  ASSUME NEW s \in Seq(Nat), NEW n \in Nat, NEW m \in Nat, n <= m, Within(s, n)
  PROVE  Within(s, m)
BY DEF Within

(* The empty sequence is ordered and within any bound. *)
LEMMA EmptyOrdered ==
  ASSUME NEW n
  PROVE  Ordered(<<>>) /\ Within(<<>>, n)
BY DEF Ordered, Within
-----------------------------------------------------------------------------
LEMMA CopyInit == Init => CInv
<1> SUFFICES ASSUME Init PROVE CInv
  OBVIOUS
<1>1. PICK n \in SrcLens : src = [i \in 1 .. n |-> i]
  BY DEF Init
<1>2. n \in Nat
  BY <1>1, CopyAssumption
<1>3. src \in Seq(Nat) /\ Len(src) = n
  BY <1>1, <1>2
<1>4. read = <<>> /\ dst = <<>> /\ buf = <<>> /\ pc = "loop"
  BY DEF Init
<1>5. \A i \in 1 .. Len(src) : src[i] = Len(read) + i
  BY <1>1, <1>2, <1>3, <1>4
<1>6. Ordered(<<>>) /\ Within(<<>>, Len(read))
  BY EmptyOrdered
<1>7. QED
  BY <1>3, <1>4, <1>5, <1>6 DEF CInv

(* Reading the next byte of the source: it is the position after the last *)
(* one read, and the rest of the source still follows the bytes read.     *)
LEMMA ReadNext ==
  ASSUME CInv, src # <<>>, src' = Tail(src), read' = Append(read, Head(src))
  PROVE  /\ Head(src) = Len(read) + 1
         /\ src' \in Seq(Nat) /\ read' \in Seq(Nat)
         /\ Len(read') = Len(read) + 1
         /\ \A i \in 1 .. Len(read') : read'[i] = i
         /\ \A i \in 1 .. Len(src') : src'[i] = Len(read') + i
<1>1. src \in Seq(Nat) /\ read \in Seq(Nat) /\ Len(src) >= 1
  BY DEF CInv
<1>2. Head(src) = Len(read) + 1
  BY <1>1 DEF CInv
<1>3. QED
  BY <1>1, <1>2 DEF CInv

(* The write of a prefix of the buffer keeps the destination ordered, all *)
(* of it read, while the call runs.                                        *)
LEMMA WritePrefix ==
  ASSUME CInv, pc # "done", NEW k \in 0 .. Len(buf)
  PROVE  /\ dst \o SubSeq(buf, 1, k) \in Seq(Nat)
         /\ Ordered(dst \o SubSeq(buf, 1, k))
         /\ Within(dst \o SubSeq(buf, 1, k), Len(read))
<1>1. /\ buf \in Seq(Nat) /\ dst \in Seq(Nat)
      /\ Ordered(buf) /\ Within(buf, Len(read))
      /\ Ordered(dst) /\ Within(dst, Len(read))
      /\ \A i \in 1 .. Len(dst), j \in 1 .. Len(buf) : dst[i] < buf[j]
  BY DEF CInv
<1>2. /\ SubSeq(buf, 1, k) \in Seq(Nat)
      /\ Len(SubSeq(buf, 1, k)) = k
      /\ \A i \in 1 .. k : SubSeq(buf, 1, k)[i] = buf[i]
      /\ Ordered(SubSeq(buf, 1, k))
      /\ Within(SubSeq(buf, 1, k), Len(read))
  BY <1>1, PrefixOrdered
<1>3. \A i \in 1 .. Len(dst), j \in 1 .. Len(SubSeq(buf, 1, k)) :
        dst[i] < SubSeq(buf, 1, k)[j]
  BY <1>1, <1>2
<1>4. QED
  BY <1>1, <1>2, <1>3, ConcatOrdered

(* One iteration of the copy loop keeps the invariant. *)
LEMMA CReadByte ==
  ASSUME NoTakenEOF, CInv, ReadByte
  PROVE  CInv'
<1> DEFINE x == Head(src)
<1>0. /\ pc = "loop" /\ src # <<>>
      /\ src' = Tail(src) /\ read' = Append(read, x)
      /\ pc' \in {"loop", "flush", "done"}
  BY DEF ReadByte, PollInterrupt
<1>1. /\ x = Len(read) + 1
      /\ src' \in Seq(Nat) /\ read' \in Seq(Nat)
      /\ Len(read') = Len(read) + 1
      /\ \A i \in 1 .. Len(read') : read'[i] = i
      /\ \A i \in 1 .. Len(src') : src'[i] = Len(read') + i
  BY <1>0, ReadNext
<1>2. /\ buf \in Seq(Nat) /\ dst \in Seq(Nat)
      /\ Ordered(buf) /\ Within(buf, Len(read))
      /\ Ordered(dst) /\ Within(dst, Len(read))
      /\ \A i \in 1 .. Len(dst), j \in 1 .. Len(buf) : dst[i] < buf[j]
      /\ Len(read) \in Nat
  BY <1>0 DEF CInv
<1>3. CASE Len(buf) >= BufSize - 1
  <2>1. PICK r \in PutsResults(buf) :
          /\ dst' = dst \o r.w
          /\ IF r.eof
               THEN /\ pc' = "flush"
                    /\ UNCHANGED <<buf, len, res>>
               ELSE /\ buf' = <<>>
                    /\ len' = len + 1
                    /\ PollInterrupt
    BY <1>3 DEF ReadByte
  <2>2. PICK k \in 0 .. Len(buf) : r.w = SubSeq(buf, 1, k)
    BY <1>2, PutsPrefix
  <2>3. /\ dst' \in Seq(Nat)
        /\ Ordered(dst')
        /\ Within(dst', Len(read'))
    <3>1. /\ dst \o SubSeq(buf, 1, k) \in Seq(Nat)
          /\ Ordered(dst \o SubSeq(buf, 1, k))
          /\ Within(dst \o SubSeq(buf, 1, k), Len(read))
      BY <1>0, WritePrefix
    <3>2. dst' = dst \o SubSeq(buf, 1, k)
      BY <2>1, <2>2
    <3>3. Len(read') \in Nat /\ Len(read) <= Len(read')
      BY <1>1, <1>2
    <3>4. Within(dst \o SubSeq(buf, 1, k), Len(read'))
      BY <1>2, <3>1, <3>3, WithinMono
    <3>5. QED
      BY <3>1, <3>2, <3>4, Zenon
  <2>4. CASE r.eof
    <3>1. r.w = <<>>
      BY <1>2, <2>4, PutsPrefix
    <3>2. dst' = dst /\ buf' = buf /\ pc' = "flush"
      BY <1>2, <2>1, <2>4, <3>1
    <3>3. Within(buf', Len(read'))
      BY <1>1, <1>2, <3>2, WithinMono
    <3>4. QED
      BY <1>0, <1>1, <1>2, <2>3, <3>2, <3>3 DEF CInv
  <2>5. CASE ~r.eof
    <3>1. buf' = <<>>
      BY <2>1, <2>5
    <3>2. Ordered(buf') /\ Within(buf', Len(read'))
      BY <3>1, EmptyOrdered
    <3>3. QED
      BY <1>0, <1>1, <2>3, <3>1, <3>2 DEF CInv
  <2>6. QED
    BY <2>4, <2>5
<1>4. CASE ~(Len(buf) >= BufSize - 1)
  <2>1. buf' = Append(buf, x) /\ dst' = dst
    BY <1>4 DEF ReadByte
  <2>2. /\ buf' \in Seq(Nat)
        /\ Len(buf') = Len(buf) + 1
        /\ \A i \in 1 .. Len(buf) : buf'[i] = buf[i]
        /\ buf'[Len(buf) + 1] = Len(read) + 1
    BY <1>1, <1>2, <2>1
  <2>3. Ordered(buf')
    <3> SUFFICES ASSUME NEW i \in 1 .. Len(buf'), NEW j \in 1 .. Len(buf'), i < j
                 PROVE  buf'[i] < buf'[j]
      BY DEF Ordered
    <3>1. CASE j <= Len(buf)
      <4>1. i \in 1 .. Len(buf) /\ j \in 1 .. Len(buf)
        BY <1>2, <2>2, <3>1
      <4>2. buf[i] < buf[j]
        BY <1>2, <4>1 DEF Ordered
      <4>3. QED
        BY <2>2, <4>1, <4>2
    <3>2. CASE j = Len(buf) + 1
      <4>1. i \in 1 .. Len(buf)
        BY <1>2, <2>2, <3>2
      <4>2. buf[i] \in 1 .. Len(read)
        BY <1>2, <4>1 DEF Within
      <4>3. QED
        BY <1>2, <2>2, <3>2, <4>1, <4>2
    <3>3. QED
      BY <2>2, <3>1, <3>2
  <2>4. Within(buf', Len(read')) /\ Within(dst', Len(read'))
    BY <1>1, <1>2, <2>1, <2>2 DEF Within
  <2>5. \A i \in 1 .. Len(dst'), j \in 1 .. Len(buf') : dst'[i] < buf'[j]
    <3> SUFFICES ASSUME NEW i \in 1 .. Len(dst'), NEW j \in 1 .. Len(buf')
                 PROVE  dst'[i] < buf'[j]
      OBVIOUS
    <3>1. CASE j <= Len(buf)
      BY <1>2, <2>1, <2>2, <3>1
    <3>2. CASE j = Len(buf) + 1
      <4>1. dst[i] \in 1 .. Len(read)
        BY <1>2, <2>1 DEF Within
      <4>2. QED
        BY <1>2, <2>1, <2>2, <3>2, <4>1
    <3>3. QED
      BY <2>2, <3>1, <3>2
  <2>6. QED
    BY <1>0, <1>1, <1>2, <2>1, <2>2, <2>3, <2>4, <2>5 DEF CInv
<1>5. QED
  BY <1>3, <1>4

(* The final flush and return keep the invariant. *)
LEMMA CFinish ==
  ASSUME NoTakenEOF, CInv, Finish
  PROVE  CInv'
<1>0. /\ pc # "done" /\ pc' = "done"
      /\ UNCHANGED <<src, read, buf>>
  BY DEF Finish
<1>1. buf \in Seq(Nat) /\ dst \in Seq(Nat) /\ Len(read) \in Nat
  BY DEF CInv
<1>2. /\ dst' \in Seq(Nat)
      /\ Ordered(dst')
      /\ Within(dst', Len(read))
  <2>1. CASE buf # <<>>
    <3>1. PICK r \in PutsResults(buf) : dst' = dst \o r.w
      BY <2>1 DEF Finish
    <3>2. PICK k \in 0 .. Len(buf) : r.w = SubSeq(buf, 1, k)
      BY <1>1, PutsPrefix
    <3>3. dst' = dst \o SubSeq(buf, 1, k)
      BY <3>1, <3>2
    <3>4. QED
      BY <1>0, <3>3, WritePrefix
  <2>2. CASE buf = <<>>
    BY <2>2 DEF Finish, CInv
  <2>3. QED
    BY <2>1, <2>2
<1>3. QED
  BY <1>0, <1>2 DEF CInv

LEMMA CNext == NoTakenEOF => (CInv /\ [Next]_vars => CInv')
<1> SUFFICES ASSUME NoTakenEOF, CInv, [Next]_vars PROVE CInv'
  OBVIOUS
<1>1. CASE ReadByte
  BY <1>1, CReadByte
<1>2. CASE Finish
  BY <1>2, CFinish
<1>3. CASE UNCHANGED vars
  BY <1>3 DEF vars, CInv, Ordered, Within
<1>4. QED
  BY <1>1, <1>2, <1>3 DEF Next

(* An ordered sequence of positions read is an ordered selection of the   *)
(* bytes read.                                                             *)
LEMMA OrderedIsSelection ==
  ASSUME CInv, NEW s \in Seq(Nat), Ordered(s), Within(s, Len(read))
  PROVE  /\ StrictlyIncreasing(s)
         /\ \A i \in 1 .. Len(s) : \E j \in 1 .. Len(read) : s[i] = read[j]
<1>1. StrictlyIncreasing(s)
  BY DEF Ordered, StrictlyIncreasing
<1>2. \A i \in 1 .. Len(s) : \E j \in 1 .. Len(read) : s[i] = read[j]
  BY DEF CInv, Within
<1>3. QED
  BY <1>1, <1>2

LEMMA CInvDstInOrder == CInv => DstInOrder
<1> SUFFICES ASSUME CInv PROVE DstInOrder
  OBVIOUS
<1>1. CASE pc = "done"
  <2>1. dst \in Seq(Nat) /\ Ordered(dst) /\ Within(dst, Len(read))
    BY DEF CInv
  <2>2. /\ StrictlyIncreasing(dst)
        /\ \A i \in 1 .. Len(dst) : \E j \in 1 .. Len(read) : dst[i] = read[j]
    BY <2>1, OrderedIsSelection
  <2>3. QED
    BY <1>1, <2>2 DEF DstInOrder
<1>2. CASE pc # "done"
  <2>1. /\ dst \o SubSeq(buf, 1, Len(buf)) \in Seq(Nat)
        /\ Ordered(dst \o SubSeq(buf, 1, Len(buf)))
        /\ Within(dst \o SubSeq(buf, 1, Len(buf)), Len(read))
    <3>1. buf \in Seq(Nat)
      BY DEF CInv
    <3>2. Len(buf) \in 0 .. Len(buf)
      BY <3>1
    <3>3. QED
      BY <1>2, <3>2, WritePrefix
  <2>2. SubSeq(buf, 1, Len(buf)) = buf
    BY SubSeqFull DEF CInv
  <2>3. QED
    BY <1>2, <2>1, <2>2, OrderedIsSelection DEF DstInOrder
<1>3. QED
  BY <1>1, <1>2

(* For a destination that is not a callable returning -1 after taking the *)
(* buffer (the accumulator, t, a file, a buffer or a mark), whatever      *)
(* stream_puts does (write all, nothing with EOF, or a short count) and   *)
(* wherever an interrupt stops the loop, for every buffer size and source *)
(* length, copy-stream hands the destination source bytes in source order *)
(* and never one twice.                                                    *)
THEOREM CopyInOrder == NoTakenEOF => (Spec => []DstInOrder)
<1> SUFFICES ASSUME NoTakenEOF PROVE Spec => []DstInOrder
  OBVIOUS
<1>1. Spec => []CInv
  BY CopyInit, CNext, PTL DEF Spec
<1>2. QED
  BY <1>1, CInvDstInOrder, PTL
====
