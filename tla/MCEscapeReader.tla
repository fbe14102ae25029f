-------------------------- MODULE MCEscapeReader --------------------------
(* The escape reader on the first characters n ^ 0 7 x z a and streams of *)
(* up to three characters among 0 7 8 a f z: a letter escape, every      *)
(* octal run length (with 7s, so 0777 exceeds a byte), hex runs of digits *)
(* and lower-case letters (fff exceeds a byte), ^ on a letter, a digit    *)
(* and EOF, and the default case.                                         *)
EXTENDS EscapeReader

MCFirstChars == {110, 94, 48, 55, 120, 122, 97}
MCAlphabet == {48, 55, 56, 97, 102, 122}
MCMaxInput == 3
=============================================================================
