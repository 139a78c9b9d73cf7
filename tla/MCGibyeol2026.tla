---------------------------- MODULE MCGibyeol2026 ----------------------------
(* A small instance: two accounts, two ids before the counter is exhausted. *)
EXTENDS Gibyeol2026, TLC

\* The contract treats accounts, keys, letters and archives alike.
Symmetry == Permutations(Address) \cup Permutations(PublicKey)
                \cup Permutations(LetterId)
=============================================================================
