------------------------------ MODULE MCDocuments ------------------------------
EXTENDS Documents, TLC
CONSTANTS d1, d2, j1, j2
MCShapes == {[kind |-> "rotate", quarters |-> 1], [kind |-> "flipHorizontal"]}
MCLimits == {<<6, 6>>, <<3, 3>>}
MCSym == Permutations({j1, j2}) \cup Permutations({d1, d2})
=============================================================================
