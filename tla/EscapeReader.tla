--------------------------- MODULE EscapeReader ---------------------------
(***************************************************************************)
(* stream_read_esc (streams.c 544-627): decode the escape that follows a   *)
(* backslash.  *c_p holds its first character; each stream_getc is one     *)
(* step, reading the next character of a finite input and EOF after it.   *)
(* The result c is a u_char, so every assignment to it is reduced modulo  *)
(* 256.  Characters are their codes.                                      *)
(***************************************************************************)
EXTENDS Integers, SequencesExt

CONSTANTS
  FirstChars,  \* the characters *c_p may hold on entry
  Alphabet,    \* the characters the stream may deliver
  MaxInput     \* bound on the length of the stream before EOF

ASSUME EscapeAssumption ==
  /\ FirstChars \subseteq 0 .. 255
  /\ Alphabet \subseteq 0 .. 255
  /\ MaxInput \in Nat

EOF == -1

(* The C library on a character or EOF. *)
Upper(x) == IF x \in 97 .. 122 THEN x - 32 ELSE x
IsOctal(x) == x \in 48 .. 55
IsXDigit(x) == x \in (48 .. 57) \cup (65 .. 70) \cup (97 .. 102)
(* x ^ 0x40 on an int in two's complement: bit 6 flipped. *)
Xor40(x) == IF (x \div 64) % 2 = 1 THEN x - 64 ELSE x + 64
(* Assignment to the u_char c. *)
UChar(x) == x % 256

(* The single-letter escapes n r f t v a. *)
Letters == [c \in {110, 114, 102, 116, 118, 97} |->
              CASE c = 110 -> 10 [] c = 114 -> 13 [] c = 102 -> 12
                [] c = 116 -> 9  [] c = 118 -> 11 [] c = 97 -> 7]

VARIABLES
  inp,    \* the characters the stream delivers before EOF
  first,  \* *c_p on entry
  reads,  \* the number of stream_getc calls so far
  c,      \* the local u_char c
  cp,     \* *c_p
  pc      \* "switch", "oct2", "oct3", "hex", "trail" or "done" (returned)

vars == <<inp, first, reads, c, cp, pc>>

(* stream_getc(stream): the next character, EOF once the input is over. *)
Getc == IF reads < Len(inp) THEN inp[reads + 1] ELSE EOF

Init ==
  /\ inp \in BoundedSeq(Alphabet, MaxInput)
  /\ first \in FirstChars
  /\ reads = 0
  /\ c = 0
  /\ cp = first
  /\ pc = "switch"

(* The switch on *c_p (562-623): a letter or any other character gives    *)
(* its value; ^ reads the next character and takes its control code; an   *)
(* octal digit starts the value and reads the next character; x starts a  *)
(* hex value at 0.                                                        *)
Switch ==
  /\ pc = "switch"
  /\ \/ /\ cp \in DOMAIN Letters
        /\ c' = Letters[cp]
        /\ pc' = "trail"
        /\ UNCHANGED <<reads, cp>>
     \/ /\ cp = 94
        /\ c' = UChar(Xor40(Upper(Getc)))
        /\ reads' = reads + 1
        /\ pc' = "trail"
        /\ UNCHANGED cp
     \/ /\ IsOctal(cp)
        /\ c' = UChar(cp - 48)
        /\ cp' = Getc
        /\ reads' = reads + 1
        /\ pc' = "oct2"
     \/ /\ cp = 120
        /\ c' = 0
        /\ pc' = "hex"
        /\ UNCHANGED <<reads, cp>>
     \/ /\ cp \notin DOMAIN Letters \cup {94, 120}
        /\ ~IsOctal(cp)
        /\ c' = UChar(cp)
        /\ pc' = "trail"
        /\ UNCHANGED <<reads, cp>>
  /\ UNCHANGED <<inp, first>>

(* The second octal digit (595-608): taken, and the next character read,  *)
(* or the function returns c with the non-digit as lookahead.             *)
Oct2 ==
  /\ pc = "oct2"
  /\ \/ /\ IsOctal(cp)
        /\ c' = UChar(c * 8 + cp - 48)
        /\ cp' = Getc
        /\ reads' = reads + 1
        /\ pc' = "oct3"
     \/ /\ ~IsOctal(cp)
        /\ pc' = "done"
        /\ UNCHANGED <<reads, c, cp>>
  /\ UNCHANGED <<inp, first>>

(* Variant with a plausible bug: the third digit is taken and the         *)
(* function returns at once, as the early returns do.                     *)
Oct3NoTrail ==
  /\ pc = "oct3"
  /\ c' = IF IsOctal(cp) THEN UChar(c * 8 + cp - 48) ELSE c
  /\ pc' = "done"
  /\ UNCHANGED <<inp, first, reads, cp>>

(* The third octal digit (599-605): taken and the switch left by break,   *)
(* so the trailing read follows; or the function returns.                 *)
Oct3 ==
  /\ pc = "oct3"
  /\ \/ /\ IsOctal(cp)
        /\ c' = UChar(c * 8 + cp - 48)
        /\ pc' = "trail"
     \/ /\ ~IsOctal(cp)
        /\ pc' = "done"
        /\ UNCHANGED c
  /\ UNCHANGED <<inp, first, reads, cp>>

(* One iteration of the hex loop (609-620): read a character; return on   *)
(* a non-hex-digit (EOF included), else shift it into c.                  *)
Hex ==
  /\ pc = "hex"
  /\ cp' = Getc
  /\ reads' = reads + 1
  /\ \/ /\ ~IsXDigit(Getc)
        /\ pc' = "done"
        /\ UNCHANGED c
     \/ /\ Getc \in 48 .. 57
        /\ c' = UChar(c * 16 + Getc - 48)
        /\ UNCHANGED pc
     \/ /\ IsXDigit(Getc) /\ Getc \notin 48 .. 57
        /\ c' = UChar(c * 16 + Upper(Getc) - 65 + 10)
        /\ UNCHANGED pc
  /\ UNCHANGED <<inp, first>>

(* The read after the switch (624-625): the lookahead, then return c. *)
Trail ==
  /\ pc = "trail"
  /\ cp' = Getc
  /\ reads' = reads + 1
  /\ pc' = "done"
  /\ UNCHANGED <<inp, first, c>>

Next == Switch \/ Oct2 \/ Oct3 \/ Hex \/ Trail

Spec == Init /\ [][Next]_vars
-----------------------------------------------------------------------------
(* The decoding the doc comment (544-557) and spec section 4.3 describe,  *)
(* as a function of the first character and the input: the value, and    *)
(* how many characters are read (the last one read is the lookahead).     *)
At(k) == IF k <= Len(inp) THEN inp[k] ELSE EOF

(* The number of leading characters of the input that satisfy P, up to n. *)
RunLen(P(_), n) ==
  CHOOSE k \in 0 .. n :
    /\ \A i \in 1 .. k : i <= Len(inp) /\ P(inp[i])
    /\ k = n \/ ~P(At(k + 1))

DigitValue(x) == IF x \in 48 .. 57 THEN x - 48 ELSE Upper(x) - 55

(* The value of digits in base b, most significant first. *)
Number(b, digits) == FoldLeft(LAMBDA acc, d : acc * b + DigitValue(d), 0, digits)

Ref ==
  CASE first \in DOMAIN Letters -> [val |-> Letters[first], reads |-> 1]
    [] first = 94 -> [val |-> Xor40(Upper(At(1))), reads |-> 2]
    [] IsOctal(first) ->
         LET k == RunLen(IsOctal, 2) IN
         [val |-> Number(8, <<first>> \o SubSeq(inp, 1, k)), reads |-> k + 1]
    [] first = 120 ->
         LET k == RunLen(IsXDigit, Len(inp)) IN
         [val |-> Number(16, SubSeq(inp, 1, k)), reads |-> k + 1]
    [] OTHER -> [val |-> first, reads |-> 1]

TypeOK ==
  /\ reads \in 0 .. MaxInput + 2
  /\ c \in 0 .. 255
  /\ cp \in Alphabet \cup FirstChars \cup {EOF}
  /\ pc \in {"switch", "oct2", "oct3", "hex", "trail", "done"}

(* When stream_read_esc returns, it has read exactly the characters the   *)
(* escape spans plus one, *c_p holds that last one (the lookahead), and   *)
(* the value is the escape's value as a byte.                             *)
DecodesAsSpecified ==
  pc = "done" =>
    /\ reads = Ref.reads
    /\ cp = At(Ref.reads)
    /\ c = Ref.val % 256
=============================================================================
