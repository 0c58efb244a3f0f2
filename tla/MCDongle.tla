------------------------------ MODULE MCDongle ------------------------------
(* Instances of Dongle for TLC. *)
EXTENDS Dongle, TLC

\* The backoff of the first outgrows its cap, that of the second begins above it, the
\* third makes no attempt at all, and the fourth is beyond the precision of an f32.
Policy(n, min, max, mul, cap) ==
  [max_attempts |-> n, backoff_ms_min |-> min, backoff_ms_max |-> max, mul |-> mul, backoff_cap_ms |-> cap]
Attempts == {Policy(3, 2, 3, 4, 3), Policy(3, 5, 5, 3, 4), Policy(0, 1, 1, 4, 2),
             Policy(3, F32 + 1, F32 + 1, 2, 2 * F32)}

\* Tasks differ in nothing but their names, and neither do configurations.
Symmetry == Permutations(Tasks) \cup Permutations(Configs)

=============================================================================
