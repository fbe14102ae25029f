----------------------------- MODULE PosIOProofs -----------------------------
(***************************************************************************)
(* Proofs about position I/O on a buffer: the stream's position stays a    *)
(* position of the buffer, and POS_UNGETC right after pos_getc puts the    *)
(* stream back at the text offset the read started from, for every buffer, *)
(* every write and every interleaving of reads, unreads and writes.        *)
(* What a read returns (GetFollowsText) and what a write leaves before the *)
(* position (ReadBack) are about the joined text, a recursive function of  *)
(* the lines; those stay with TLC.                                         *)
(***************************************************************************)
EXTENDS PosIO, SequenceTheorems, FiniteSetTheorems, TLAPS

(* The position read from: pos_getc's result on the position before the  *)
(* last read.                                                             *)
LastGet == PosGetc(prev[1], prev[2])

(* The buffer is a non-empty array of lines of characters and the stream  *)
(* is on one of its rows; right after a read the position is the one      *)
(* pos_getc computed from the position before it, and right after an      *)
(* unread the text offset is the one the read started from.               *)
PInv ==
  /\ lines \in Seq(Seq(Chars))
  /\ row \in 0 .. Len(lines) - 1
  /\ col \in Nat
  /\ prev \in Nat \X Nat
  /\ op \in {"none", "get", "unget", "put"}
  /\ op = "get" => /\ row = LastGet.row /\ col = LastGet.col
                   /\ got = LastGet.c
  /\ op = "unget" => Offset(<<row, col>>) = Offset(prev)
-----------------------------------------------------------------------------
(* The newlines of a string are a finite set of its offsets. *)
LEMMA BreaksFinite ==
  ASSUME NEW S, NEW s \in Seq(S)
  PROVE  /\ Breaks(s) \subseteq 1 .. Len(s)
         /\ IsFiniteSet(Breaks(s))
         /\ Cardinality(Breaks(s)) \in Nat
<1>1. Breaks(s) \subseteq 1 .. Len(s) /\ IsFiniteSet(1 .. Len(s))
  BY FS_Interval DEF Breaks
<1>2. IsFiniteSet(Breaks(s))
  BY <1>1, FS_Subset
<1>3. QED
  BY <1>1, <1>2, FS_CardinalityType

(* Every cut lies between the start of the string and just past its end. *)
LEMMA CutRange ==
  ASSUME NEW S, NEW s \in Seq(S), NEW j \in Nat
  PROVE  Cut(s, j) \in 0 .. Len(s) + 1
<1>1. Breaks(s) \subseteq 1 .. Len(s)
  BY BreaksFinite
<1>2. CASE j = 0
  BY <1>2 DEF Cut
<1>3. CASE j # 0 /\ \E i \in Breaks(s) : Rank(s, i) = j
  <2>1. (CHOOSE i \in Breaks(s) : Rank(s, i) = j) \in Breaks(s)
    BY <1>3, Zenon
  <2>2. Cut(s, j) = CHOOSE i \in Breaks(s) : Rank(s, i) = j
    BY <1>3 DEF Cut
  <2>3. QED
    BY <1>1, <2>1, <2>2
<1>4. CASE j # 0 /\ ~\E i \in Breaks(s) : Rank(s, i) = j
  BY <1>4 DEF Cut
<1>5. QED
  BY <1>2, <1>3, <1>4

(* Cutting a string of characters at its newlines gives at least one line *)
(* of characters.                                                          *)
LEMMA SegmentsType ==
  ASSUME NEW S, NEW s \in Seq(S)
  PROVE  /\ Segments(s) \in Seq(Seq(S))
         /\ Len(Segments(s)) = Cardinality(Breaks(s)) + 1
<1> DEFINE n == Cardinality(Breaks(s))
<1>1. n \in Nat
  BY BreaksFinite
<1>2. ASSUME NEW j \in 1 .. n + 1
      PROVE  SubSeq(s, Cut(s, j - 1) + 1, Cut(s, j) - 1) \in Seq(S)
  <2>0. j - 1 \in Nat /\ j \in Nat
    BY <1>1
  <2>1. Cut(s, j - 1) \in 0 .. Len(s) + 1 /\ Cut(s, j) \in 0 .. Len(s) + 1
    BY <2>0, CutRange
  <2>2. \A i \in Cut(s, j - 1) + 1 .. Cut(s, j) - 1 : s[i] \in S
    BY <2>1
  <2>3. QED
    BY <2>1, <2>2, SubSeqProperties
<1>3. Segments(s) = [j \in 1 .. n + 1 |-> SubSeq(s, Cut(s, j - 1) + 1, Cut(s, j) - 1)]
  BY DEF Segments
<1>4. Segments(s) \in [1 .. n + 1 -> Seq(S)]
  BY <1>2, <1>3
<1>5. n + 1 \in Nat
  BY <1>1
<1>6. Segments(s) \in Seq(Seq(S))
  BY <1>4, <1>5
<1>7. QED
  BY <1>3, <1>5, <1>6

(* pad_pos leaves a line of characters at least as long as the column. *)
LEMMA PadLineType ==
  ASSUME lines \in Seq(Seq(Chars)), NEW r \in 0 .. Len(lines) - 1, NEW k \in Nat
  PROVE  /\ PadLine(r, k) \in Seq(Chars)
         /\ Len(PadLine(r, k)) \in Nat
         /\ k <= Len(PadLine(r, k))
<1>0. Line(r) \in Seq(Chars) /\ Space \in Chars
  BY PosAssumption DEF Line
<1>1. CASE k > Len(Line(r))
  <2> DEFINE pad == [i \in 1 .. k - Len(Line(r)) |-> Space]
  <2>1. pad \in Seq(Chars) /\ Len(pad) = k - Len(Line(r))
    BY <1>0, <1>1
  <2>2. PadLine(r, k) = Line(r) \o pad
    BY <1>1 DEF PadLine
  <2>3. Line(r) \o pad \in Seq(Chars) /\ Len(Line(r) \o pad) = Len(Line(r)) + Len(pad)
    BY <1>0, <2>1, ConcatProperties
  <2>4. Len(Line(r)) \in Nat
    BY <1>0
  <2>5. QED
    BY <1>1, <2>1, <2>2, <2>3, <2>4
<1>2. CASE ~(k > Len(Line(r)))
  <2>1. PadLine(r, k) = Line(r)
    BY <1>2 DEF PadLine
  <2>2. QED
    BY <1>0, <1>2, <2>1
<1>3. QED
  BY <1>1, <1>2

(* Concatenating arrays of lines. *)
LEMMA ConcatLines ==
  ASSUME NEW a \in Seq(Seq(Chars)), NEW b \in Seq(Seq(Chars))
  PROVE  a \o b \in Seq(Seq(Chars)) /\ Len(a \o b) = Len(a) + Len(b)
BY ConcatProperties

LEMMA ConcatLines3 ==
  ASSUME NEW a \in Seq(Seq(Chars)), NEW b \in Seq(Seq(Chars)),
         NEW c \in Seq(Seq(Chars))
  PROVE  /\ a \o b \o c \in Seq(Seq(Chars))
         /\ Len(a \o b \o c) = Len(a) + Len(b) + Len(c)
<1>1. a \o b \in Seq(Seq(Chars)) /\ Len(a \o b) = Len(a) + Len(b)
  BY ConcatLines
<1>2. QED
  BY <1>1, ConcatLines

(* insert_string on a padded line leaves an array of lines of characters  *)
(* and a position on one of its rows.                                      *)
LEMMA InsertType ==
  ASSUME lines \in Seq(Seq(Chars)), NEW r \in 0 .. Len(lines) - 1,
         NEW k \in Nat, NEW s \in Seq(Chars)
  PROVE  /\ Insert(r, k, s).lines \in Seq(Seq(Chars))
         /\ Insert(r, k, s).row \in 0 .. Len(Insert(r, k, s).lines) - 1
         /\ Insert(r, k, s).col \in Nat
<1> DEFINE ln == PadLine(r, k)
           head == Segments(SubSeq(ln, 1, k) \o s)
           tl == SubSeq(ln, k + 1, Len(ln))
           new == [head EXCEPT ![Len(head)] = @ \o tl]
           before == SubSeq(lines, 1, r)
           after == SubSeq(lines, r + 2, Len(lines))
<1>0. Insert(r, k, s) = [lines |-> before \o new \o after,
                         row |-> r + Len(head) - 1,
                         col |-> Len(head[Len(head)])]
  BY DEF Insert
<1>1. ln \in Seq(Chars) /\ Len(ln) \in Nat /\ k <= Len(ln)
  BY PadLineType
<1>2. SubSeq(ln, 1, k) \in Seq(Chars) /\ tl \in Seq(Chars)
  BY <1>1, SubSeqProperties
<1>3. SubSeq(ln, 1, k) \o s \in Seq(Chars)
  BY <1>2, ConcatProperties
<1>4. head \in Seq(Seq(Chars)) /\ Len(head) \in Nat /\ Len(head) >= 1
  <2> DEFINE pre == SubSeq(ln, 1, k) \o s
  <2>1. head \in Seq(Seq(Chars)) /\ Len(head) = Cardinality(Breaks(pre)) + 1
    BY <1>3, SegmentsType
  <2>2. Cardinality(Breaks(pre)) \in Nat
    BY <1>3, BreaksFinite
  <2>3. QED
    BY <2>1, <2>2
<1>5. head[Len(head)] \in Seq(Chars)
  BY <1>4
<1>6. new \in Seq(Seq(Chars)) /\ Len(new) = Len(head)
  <2>1. head[Len(head)] \o tl \in Seq(Chars)
    BY <1>2, <1>5, ConcatProperties
  <2>2. QED
    BY <1>4, <2>1
<1>7. /\ before \in Seq(Seq(Chars)) /\ Len(before) = r
      /\ after \in Seq(Seq(Chars)) /\ Len(after) = Len(lines) - r - 1
  BY SubSeqProperties
<1> HIDE DEF ln, head, tl, new, before, after
<1>8. before \o new \o after \in Seq(Seq(Chars))
      /\ Len(before \o new \o after) = Len(lines) + Len(head) - 1
  <2>1. before \o new \o after \in Seq(Seq(Chars))
        /\ Len(before \o new \o after) = Len(before) + Len(new) + Len(after)
    BY <1>6, <1>7, ConcatLines3
  <2>2. Len(before) + Len(new) + Len(after) = Len(lines) + Len(head) - 1
    BY <1>4, <1>6, <1>7
  <2>3. QED
    BY <2>1, <2>2, Zenon
<1>9. /\ Insert(r, k, s).lines = before \o new \o after
      /\ Insert(r, k, s).row = r + Len(head) - 1
      /\ Insert(r, k, s).col = Len(head[Len(head)])
  BY <1>0
<1>10. r + Len(head) - 1 \in 0 .. Len(lines) + Len(head) - 2
  <2>1. Len(lines) \in Nat /\ r \in 0 .. Len(lines) - 1
    OBVIOUS
  <2>2. QED
    BY <1>4, <2>1
<1>11. /\ Insert(r, k, s).lines \in Seq(Seq(Chars))
       /\ Len(Insert(r, k, s).lines) = Len(lines) + Len(head) - 1
  BY <1>8, <1>9, Zenon
<1>12. Insert(r, k, s).row \in 0 .. Len(Insert(r, k, s).lines) - 1
  BY <1>9, <1>10, <1>11
<1>13. Insert(r, k, s).col \in Nat
  <2>1. Len(head[Len(head)]) \in Nat
    BY <1>5
  <2>2. QED
    BY <1>9, <2>1, Zenon
<1>14. QED
  BY <1>11, <1>12, <1>13
-----------------------------------------------------------------------------
(* pos_getc leaves the position on a row of the buffer. *)
LEMMA GetcType ==
  ASSUME lines \in Seq(Seq(Chars)), NEW r \in 0 .. Len(lines) - 1, NEW k \in Nat
  PROVE  PosGetc(r, k).row \in 0 .. Len(lines) - 1 /\ PosGetc(r, k).col \in Nat
<1>1. Len(Line(r)) \in Nat
  BY DEF Line
<1>2. QED
  BY <1>1 DEF PosGetc

(* POS_UNGETC right after a successful pos_getc: back on a row of the      *)
(* buffer, at the text offset the read started from.  At the end of a line *)
(* the read went to column 0 of the next row and the unread comes back to  *)
(* the end of the line, which is where any column past it reads from.      *)
LEMMA UngetAfterGet ==
  ASSUME lines \in Seq(Seq(Chars)), NEW r \in 0 .. Len(lines) - 1, NEW k \in Nat,
         PosGetc(r, k).c # EOF,
         NEW u, u = PosUngetc(PosGetc(r, k).row, PosGetc(r, k).col)
  PROVE  /\ u.row \in 0 .. Len(lines) - 1
         /\ u.col \in Nat
         /\ Offset(<<u.row, u.col>>) = Offset(<<r, k>>)
<1> DEFINE L == Len(Line(r))
<1>1. L \in Nat
  BY DEF Line
<1>2. CASE k >= L
  <2>1. r + 1 # Len(lines)
    BY <1>2 DEF PosGetc, L
  <2>2. PosGetc(r, k) = [c |-> NL, row |-> r + 1, col |-> 0]
    BY <1>2, <2>1 DEF PosGetc, L
  <2>3. u = [row |-> r, col |-> L]
    BY <2>2 DEF PosUngetc, L
  <2>4. Offset(<<r, L>>) = Offset(<<r, k>>)
    <3>1. (IF L > L THEN L ELSE L) = (IF k > L THEN L ELSE k)
      BY <1>1, <1>2
    <3>2. QED
      BY <3>1 DEF Offset, L
  <2>5. QED
    BY <1>1, <2>1, <2>3, <2>4
<1>3. CASE k < L
  <2>1. PosGetc(r, k) = [c |-> Line(r)[k + 1], row |-> r, col |-> k + 1]
    BY <1>1, <1>3 DEF PosGetc, L
  <2>2. u = [row |-> r, col |-> k]
    BY <2>1 DEF PosUngetc
  <2>3. QED
    BY <2>2
<1>4. QED
  BY <1>1, <1>2, <1>3

LEMMA PInit == Init => PInv
<1> SUFFICES ASSUME Init PROVE PInv
  OBVIOUS
<1>1. lines \in Seq(Seq(Chars)) /\ row \in 0 .. Len(lines) - 1
  BY PosAssumption DEF Init
<1>2. Len(Line(row)) \in Nat
  BY <1>1 DEF Line
<1>3. col \in Nat
  BY <1>2, PosAssumption DEF Init
<1>4. QED
  BY <1>1, <1>3 DEF Init, PInv

(* stream_getc on a buffer keeps the invariant: the ghost prev records the *)
(* position read from.                                                     *)
LEMMA PGetC ==
  ASSUME PInv, GetC
  PROVE  PInv'
<1>0. /\ lines \in Seq(Seq(Chars)) /\ row \in 0 .. Len(lines) - 1 /\ col \in Nat
      /\ lines' = lines /\ prev' = <<row, col>>  /\ op' = "get"
      /\ row' = PosGetc(row, col).row /\ col' = PosGetc(row, col).col
      /\ got' = PosGetc(row, col).c
  BY DEF PInv, GetC
<1>1. row' \in 0 .. Len(lines') - 1 /\ col' \in Nat
  BY <1>0, GetcType
<1>2. LastGet' = PosGetc(row, col)
  BY <1>0 DEF LastGet, PosGetc, Line
<1>3. QED
  BY <1>0, <1>1, <1>2 DEF PInv

(* stream_ungetc right after a successful read keeps the invariant and    *)
(* makes the unread one that restores the offset.                         *)
LEMMA PUngetC ==
  ASSUME PInv, UngetC
  PROVE  PInv'
<1>0. /\ lines \in Seq(Seq(Chars)) /\ prev \in Nat \X Nat
      /\ op = "get" /\ got # EOF
      /\ row = LastGet.row /\ col = LastGet.col /\ got = LastGet.c
      /\ lines' = lines /\ prev' = prev /\ op' = "unget"
      /\ row' = PosUngetc(row, col).row /\ col' = PosUngetc(row, col).col
  BY DEF PInv, UngetC
<1>1. prev = <<prev[1], prev[2]>> /\ prev[1] \in Nat /\ prev[2] \in Nat
  BY <1>0
<1>2. prev[1] \in 0 .. Len(lines) - 1
  <2>1. prev[1] < Len(lines)
    BY <1>0, <1>1 DEF LastGet, PosGetc
  <2>2. QED
    BY <1>1, <2>1
<1>3. /\ row' \in 0 .. Len(lines) - 1 /\ col' \in Nat
      /\ Offset(<<row', col'>>) = Offset(<<prev[1], prev[2]>>)
  <2>1. PosGetc(prev[1], prev[2]).c # EOF
    BY <1>0 DEF LastGet
  <2>2. [row |-> row', col |-> col'] = PosUngetc(PosGetc(prev[1], prev[2]).row,
                                                 PosGetc(prev[1], prev[2]).col)
    BY <1>0 DEF LastGet, PosUngetc
  <2>3. \A u : u = PosUngetc(PosGetc(prev[1], prev[2]).row, PosGetc(prev[1], prev[2]).col)
                => /\ u.row \in 0 .. Len(lines) - 1
                   /\ u.col \in Nat
                   /\ Offset(<<u.row, u.col>>) = Offset(<<prev[1], prev[2]>>)
    BY <1>0, <1>1, <1>2, <2>1, UngetAfterGet
  <2>4. /\ [row |-> row', col |-> col'].row \in 0 .. Len(lines) - 1
        /\ [row |-> row', col |-> col'].col \in Nat
        /\ Offset(<<[row |-> row', col |-> col'].row, [row |-> row', col |-> col'].col>>)
             = Offset(<<prev[1], prev[2]>>)
    BY <2>2, <2>3, Zenon
  <2>5. QED
    BY <2>4
<1>4. /\ Offset(<<row, col>>)' = Offset(<<row', col'>>)
      /\ Offset(prev)' = Offset(prev)
  BY <1>0 DEF Offset, TextTo, Line
<1>5. QED
  BY <1>0, <1>1, <1>3, <1>4 DEF PInv

(* pos_putc and pos_puts keep the invariant. *)
LEMMA PWrite ==
  ASSUME PInv, NEW s \in Seq(Chars), PosWrite(s)
  PROVE  PInv'
<1>0. /\ lines \in Seq(Seq(Chars)) /\ row \in 0 .. Len(lines) - 1 /\ col \in Nat
      /\ op' = "put" /\ prev' = <<row, col>>
  BY DEF PInv, PosWrite
<1>1. /\ lines' \in Seq(Seq(Chars))
      /\ row' \in 0 .. Len(lines') - 1
      /\ col' \in Nat
  <2>1. CASE UNCHANGED <<lines, row, col>>
    BY <1>0, <2>1
  <2>2. CASE lines' = [lines EXCEPT ![row + 1] = PadLine(row, col)]
             /\ UNCHANGED <<row, col>>
    <3>1. PadLine(row, col) \in Seq(Chars)
      BY <1>0, PadLineType
    <3>2. QED
      BY <1>0, <2>2, <3>1
  <2>3. CASE /\ lines' = Insert(row, col, s).lines
             /\ row' = Insert(row, col, s).row
             /\ col' = Insert(row, col, s).col
    BY <1>0, <2>3, InsertType
  <2>4. QED
    BY <2>1, <2>2, <2>3 DEF PosWrite
<1>2. QED
  BY <1>0, <1>1 DEF PInv

LEMMA PNext == PInv /\ [Next]_vars => PInv'
<1> SUFFICES ASSUME PInv, [Next]_vars PROVE PInv'
  OBVIOUS
<1>1. CASE GetC
  BY <1>1, PGetC
<1>2. CASE UngetC
  BY <1>2, PUngetC
<1>3. CASE \E x \in WriteChars : PutC(x)
  <2>1. PICK x \in WriteChars : PosWrite(<<x>>)
    BY <1>3 DEF PutC
  <2>2. <<x>> \in Seq(Chars)
    BY PosAssumption
  <2>3. QED
    BY <2>1, <2>2, PWrite
<1>4. CASE \E s \in Writes : PutS(s)
  <2>1. PICK s \in Writes : PosWrite(s)
    BY <1>4 DEF PutS
  <2>2. s \in Seq(Chars)
    BY PosAssumption
  <2>3. QED
    BY <2>1, <2>2, PWrite
<1>5. CASE UNCHANGED vars
  <2>1. Offset(<<row, col>>)' = Offset(<<row, col>>) /\ Offset(prev)' = Offset(prev)
    BY <1>5 DEF vars, Offset, TextTo, Line
  <2>2. LastGet' = LastGet
    BY <1>5 DEF vars, LastGet, PosGetc, Line
  <2>3. QED
    BY <1>5, <2>1, <2>2 DEF vars, PInv
<1>6. QED
  BY <1>1, <1>2, <1>3, <1>4, <1>5 DEF Next

(* For every set of buffers, characters and writes: the position of a      *)
(* buffer or mark stream stays on a row of the buffer, and stream_ungetc   *)
(* right after a successful stream_getc (POS_UNGETC after pos_getc) puts   *)
(* the stream back at the text offset the read started from, so the next   *)
(* read gives the same character, whatever reads, unreads and writes       *)
(* (padding, inserting, failing) came before.                              *)
THEOREM PosIOUngetSafe == Spec => [](TypeOK /\ UngetRestores)
<1>1. PInv => TypeOK /\ UngetRestores
  BY DEF PInv, TypeOK, UngetRestores
<1>2. QED
  BY PInit, PNext, <1>1, PTL DEF Spec
=============================================================================
