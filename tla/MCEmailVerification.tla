------------------------- MODULE MCEmailVerification -------------------------
(* Small instances of EmailVerification. *)
EXTENDS EmailVerification, TLC

\* Wallets, addresses, clients and requests are interchangeable.
Symmetry == Permutations(Wallet) \cup Permutations(Email)
                \cup Permutations(RequestIp)
                \cup Permutations(Request)
=============================================================================
