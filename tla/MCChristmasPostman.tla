------------------------- MODULE MCChristmasPostman -------------------------
(* Small instances of ChristmasPostman. *)
EXTENDS ChristmasPostman, TLC

\* Wallets and cron runs are interchangeable.
Symmetry == Permutations(Wallet) \cup Permutations(Run)
=============================================================================
