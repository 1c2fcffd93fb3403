---------------------------- MODULE MCHashtable ----------------------------
EXTENDS Hashtable, TLC

\* Two keys that share a bucket in a table of one, and do not in a table of two.
HashOf == [k \in Keys |-> IF k = "b" THEN 1 ELSE 0]
\* Neither cells nor values are told apart but by what they are.
Symmetry == Permutations(Cells) \cup Permutations(Values)
=============================================================================
