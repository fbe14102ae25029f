------------------------------- MODULE MCPosIO -------------------------------
(* Position I/O on buffers of one or two lines of up to two characters,   *)
(* including empty lines and an empty buffer; b and newlines are written, *)
(* one at a time and as two-character strings.                            *)
EXTENDS PosIO

CONSTANTS a, b

MCTexts == {<<<<>>>>, <<<<a>>>>, <<<<a, a>>, <<a>>>>, <<<<>>, <<a>>>>}
MCWriteChars == {b, NL}
MCWrites == {<<b, NL>>, <<NL, b>>}
MCMaxChars == 6
MCChars == {a, b, NL, Space}
=============================================================================
