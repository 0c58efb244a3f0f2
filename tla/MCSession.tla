----------------------------- MODULE MCSession -----------------------------
(* Instances of Session for TLC. *)
EXTENDS Session, TLC

\* Calls differ in nothing but their names, and so do receivers of one kind.
Symmetry == Permutations(Calls) \cup Permutations(Recvs)

=============================================================================
