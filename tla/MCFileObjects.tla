--------------------------- MODULE MCFileObjects ---------------------------
EXTENDS FileObjects, TLC

CONSTANTS o1, o2, o3

MCObjs == {o1, o2, o3}
MCStdStreams == {0, 1}
MCMaxFopen == 2

MCSymmetry == Permutations(MCObjs)
=============================================================================
