---------------------------- MODULE MCAccumulator ----------------------------
(* Model-checking instance of the string output stream. *)
EXTENDS Accumulator

CONSTANTS a, b

(* The code's own thresholds over a one-letter alphabet: growth to 32 and *)
(* doubling to 64 and 128 happen; a 40-byte run exceeds the doubled       *)
(* capacity and takes the `tmp > newlen' branch.                          *)
MCBytesReal == {a}
MCMinCapReal == 32
MCSmallCapReal == 16
MCPutLensReal == {0, 1, 2, 40}
MCMaxLenReal == 70

(* Scaled thresholds over two letters, for the run that starts from a    *)
(* user-built cons.                                                        *)
MCBytesSmall == {a, b}
MCMinCapSmall == 4
MCSmallCapSmall == 2
MCPutLensSmall == {0, 1, 2, 5}
MCMaxLenSmall == 7

(* Accumulators built by user code: (cons (make-string n) k). *)
MCUserInit == \E n \in 0 .. 3, k \in 0 .. 6 : UserInit(n, k)
MCUserSpec == MCUserInit /\ [][Next]_vars
=============================================================================
