------------------------------- MODULE PosIO -------------------------------
(***************************************************************************)
(* Position I/O on a buffer (streams.c 64-124, 206-220): a buffer, mark or *)
(* (Buffer . Pos) stream reads with pos_getc, unreads with POS_UNGETC and  *)
(* writes with pos_putc/pos_puts at a (row, col) position that the call   *)
(* advances.  The buffer is its line array: line r is lines[r + 1], its   *)
(* ln_Strlen - 1 characters, with rows counted from 0 as in the code.     *)
(* The editor's insertion primitives pad_pos and insert_string are not in *)
(* this file; they are modelled from spec section 4.1.                    *)
(***************************************************************************)
EXTENDS Integers, Sequences, FiniteSets

CONSTANTS
  Chars,      \* the characters a buffer holds
  Texts,      \* the buffers a stream may start on (sequences of lines)
  NL,         \* the character '\n'
  Space,      \* the padding character ' '
  WriteChars, \* the characters stream_putc writes
  Writes,     \* the strings stream_puts writes
  Slack,      \* how far past its line's end a starting column may lie
  MaxChars    \* bound on the characters in the buffer, for writes

ASSUME PosAssumption ==
  /\ {NL, Space} \cup WriteChars \subseteq Chars
  /\ Writes \subseteq Seq(Chars)
  /\ Texts \subseteq Seq(Seq(Chars)) \ {<<>>}
  /\ Slack \in Nat
  /\ MaxChars \in Nat

EOF == -1

VARIABLES
  lines,     \* tx_Lines[0 .. tx_LogicalEnd - 1], each a sequence of chars
  row,       \* VROW of the stream's position
  col,       \* VCOL of the stream's position
  readOnly,  \* read_only(tx)
  op,        \* ghost: the last call, "none", "get", "unget" or "put"
  prev,      \* ghost: the position before the last get or put
  arg,       \* ghost: the string the last put wrote
  got        \* ghost: what the last get or put returned

vars == <<lines, row, col, readOnly, op, prev, arg, got>>

Line(r) == lines[r + 1]

Init ==
  /\ lines \in Texts
  /\ row \in 0 .. Len(lines) - 1
  /\ col \in 0 .. Len(Line(row)) + Slack
  /\ readOnly \in BOOLEAN
  /\ op = "none"
  /\ prev = <<row, col>>
  /\ arg = <<>>
  /\ got = EOF

(* Variant with a plausible bug: at the end of the last line the row is   *)
(* advanced without the clamp back.                                       *)
PosGetcNoClamp(r, k) ==
  IF r < Len(lines)
    THEN IF k >= Len(Line(r))
           THEN [c |-> NL, row |-> r + 1, col |-> 0]
           ELSE [c |-> Line(r)[k + 1], row |-> r, col |-> k + 1]
    ELSE [c |-> EOF, row |-> r, col |-> k]

(* pos_getc (64-90): at or past the end of a line, move to the next line  *)
(* and give '\n', or give EOF and stay when it is the last line; inside a *)
(* line give the character and advance; past the last line give EOF.     *)
PosGetc(r, k) ==
  IF r < Len(lines)
    THEN IF k >= Len(Line(r))
           THEN IF r + 1 = Len(lines)
                  THEN [c |-> EOF, row |-> r, col |-> k]
                  ELSE [c |-> NL, row |-> r + 1, col |-> 0]
           ELSE [c |-> Line(r)[k + 1], row |-> r, col |-> k + 1]
    ELSE [c |-> EOF, row |-> r, col |-> k]

(* Variant with a plausible bug: column 0 steps back to the previous      *)
(* row without setting the column to that line's end.                     *)
PosUngetcKeepCol(r, k) ==
  IF k - 1 < 0 THEN [row |-> r - 1, col |-> k]
               ELSE [row |-> r, col |-> k - 1]

(* POS_UNGETC (211-220): one column back, or from column 0 to the end of  *)
(* the previous line (ln_Strlen - 1).                                     *)
PosUngetc(r, k) ==
  IF k - 1 < 0 THEN [row |-> r - 1, col |-> Len(Line(r - 1))]
               ELSE [row |-> r, col |-> k - 1]

(* pad_pos: a position past its line's end gets the line padded with      *)
(* spaces up to it (spec section 4.1).                                    *)
PadLine(r, k) ==
  IF k > Len(Line(r)) THEN Line(r) \o [i \in 1 .. k - Len(Line(r)) |-> Space]
                     ELSE Line(r)

(* The offsets of the newlines of s, and the rank of offset i among them. *)
Breaks(s) == {i \in 1 .. Len(s) : s[i] = NL}
Rank(s, i) == Cardinality({m \in Breaks(s) : m <= i})

(* The offset of the j-th newline of s: 0 for j = 0, and just past the   *)
(* end for the one after the last.                                        *)
Cut(s, j) ==
  IF j = 0 THEN 0
  ELSE IF \E i \in Breaks(s) : Rank(s, i) = j
         THEN CHOOSE i \in Breaks(s) : Rank(s, i) = j
         ELSE Len(s) + 1

(* A string cut at its newlines into the lines it spans: segment j runs  *)
(* from just after the (j-1)-th newline to just before the j-th.         *)
Segments(s) ==
  [j \in 1 .. Cardinality(Breaks(s)) + 1 |->
     SubSeq(s, Cut(s, j - 1) + 1, Cut(s, j) - 1)]

(* insert_string(tx, s, len, pos) on the padded line: the new line array  *)
(* and the position past the insertion (spec section 4.1).                *)
Insert(r, k, s) ==
  LET ln == PadLine(r, k)
      head == Segments(SubSeq(ln, 1, k) \o s)
      new == [head EXCEPT ![Len(head)] = @ \o SubSeq(ln, k + 1, Len(ln))]
  IN [lines |-> SubSeq(lines, 1, r) \o new \o SubSeq(lines, r + 2, Len(lines)),
      row |-> r + Len(head) - 1,
      col |-> Len(head[Len(head)])]

(* The characters of the buffer, each line counted with its terminator. *)
NumChars ==
  LET N[k \in 0 .. Len(lines)] ==
        IF k = 0 THEN 0 ELSE N[k - 1] + Len(lines[k]) + 1
  IN  N[Len(lines)]

(* stream_getc on a buffer or resident mark (147-157): pos_getc on the    *)
(* stream's position, written back.                                       *)
GetC ==
  /\ LET g == PosGetc(row, col) IN
       /\ row' = g.row
       /\ col' = g.col
       /\ got' = g.c
  /\ op' = "get"
  /\ prev' = <<row, col>>
  /\ UNCHANGED <<lines, readOnly, arg>>

(* stream_ungetc on a buffer or mark (234-245), called as the code's      *)
(* comment requires right after a successful read: POS_UNGETC on the      *)
(* position.                                                              *)
UngetC ==
  /\ op = "get"
  /\ got # EOF
  /\ LET u == PosUngetc(row, col) IN
       /\ row' = u.row
       /\ col' = u.col
  /\ op' = "unget"
  /\ UNCHANGED <<lines, readOnly, prev, arg, got>>

(* Variant with a plausible bug: the end of the insertion is not stored   *)
(* back in the stream's position.                                         *)
PosWriteKeepPos(s) ==
  /\ NumChars + col + Len(s) <= MaxChars
  /\ op' = "put"
  /\ prev' = <<row, col>>
  /\ arg' = s
  /\ \/ /\ got' = EOF
        /\ UNCHANGED <<lines, row, col>>
     \/ /\ ~readOnly
        /\ lines' = Insert(row, col, s).lines
        /\ got' = Len(s)
        /\ UNCHANGED <<row, col>>
  /\ UNCHANGED readOnly

(* pos_putc and pos_puts (92-124): nothing on a read-only buffer; else    *)
(* pad_pos (which may fail) and insert_string (which may fail after the   *)
(* padding); on success the position moves past the insertion and the    *)
(* count is returned, else EOF.                                           *)
PosWrite(s) ==
  /\ NumChars + col + Len(s) <= MaxChars
  /\ op' = "put"
  /\ prev' = <<row, col>>
  /\ arg' = s
  /\ \/ /\ got' = EOF
        /\ UNCHANGED <<lines, row, col>>
     \/ /\ ~readOnly
        /\ lines' = [lines EXCEPT ![row + 1] = PadLine(row, col)]
        /\ got' = EOF
        /\ UNCHANGED <<row, col>>
     \/ /\ ~readOnly
        /\ LET ins == Insert(row, col, s) IN
             /\ lines' = ins.lines
             /\ row' = ins.row
             /\ col' = ins.col
        /\ got' = Len(s)
  /\ UNCHANGED readOnly

(* stream_putc on a buffer or mark (301-311): pos_putc. *)
PutC(x) == PosWrite(<<x>>)

(* stream_puts on a buffer or mark (430-440): pos_puts. *)
PutS(s) == PosWrite(s)

Next ==
  \/ GetC
  \/ UngetC
  \/ \E x \in WriteChars : PutC(x)
  \/ \E s \in Writes : PutS(s)

Spec == Init /\ [][Next]_vars
-----------------------------------------------------------------------------
(* The buffer as the characters a reader sees: lines joined by newlines. *)
TextTo(r) ==
  LET T[k \in 1 .. r] == IF k = 1 THEN lines[1] ELSE T[k - 1] \o <<NL>> \o lines[k]
  IN  T[r]
Text == TextTo(Len(lines))

(* The offset in Text of a position; a column past its line's end reads  *)
(* as the line's end (pos_getc's `col >= ln_Strlen - 1').                 *)
Offset(p) ==
  LET k == IF p[2] > Len(Line(p[1])) THEN Len(Line(p[1])) ELSE p[2] IN
  IF p[1] = 0 THEN k ELSE Len(TextTo(p[1])) + 1 + k

TypeOK ==
  /\ row \in 0 .. Len(lines) - 1
  /\ col \in Nat
  /\ op \in {"none", "get", "unget", "put"}

(* Reading a buffer stream reads its text: a read from a position gives   *)
(* the character at that offset and moves one offset on, lines joined by  *)
(* one newline each; EOF comes only at the end of the buffer.             *)
GetFollowsText ==
  op = "get" =>
    IF got = EOF
      THEN Offset(prev) >= Len(Text)
      ELSE /\ Offset(prev) < Len(Text)
           /\ Text[Offset(prev) + 1] = got
           /\ Offset(<<row, col>>) = Offset(prev) + 1

(* Spec section 8, "unget inverts read": an unread right after a          *)
(* successful read puts the stream back at the text offset the read       *)
(* started from, so the next read gives the same character.               *)
UngetRestores == op = "unget" => Offset(<<row, col>>) = Offset(prev)

(* Writes become visible in order: after a successful write of s the     *)
(* characters just before the stream's position are s, so the next read  *)
(* continues after them.                                                  *)
ReadBack ==
  op = "put" /\ got # EOF =>
    LET e == Offset(<<row, col>>) IN
    e >= Len(arg) /\ SubSeq(Text, e - Len(arg) + 1, e) = arg
=============================================================================
