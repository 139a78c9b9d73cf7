------------------------ MODULE MCMailboxOnboarding ------------------------
(* Small instances of MailboxOnboarding: two wallets on one page. *)
EXTENDS MailboxOnboarding, TLC

\* Wallets and keys are interchangeable.
Symmetry == Permutations(Address) \cup Permutations(PublicKey)
=============================================================================
