--------------------------- MODULE MCPackageStore ---------------------------
(* Two packages, two requests and two collections, with a minimum age just *)
(* long enough for each delay to matter.                                   *)
EXTENDS PackageStore, TLC

Symmetry == Permutations(Archive) \cup Permutations(Upload)
                \cup Permutations(Collector)
=============================================================================
