------------------------------ MODULE MCServer ------------------------------
(* The clients and cursors of the instances of Server that TLC checks.      *)
EXTENDS Server, TLC

OwnCursors == [o \in Observers |-> ToString(o)]
Symmetry == Permutations(Clients)
=============================================================================
