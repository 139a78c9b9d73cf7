---------------------------- MODULE MCSendLetter ----------------------------
(* Small instances of SendLetter: one tab or two, two letters, two keys. *)
EXTENDS SendLetter
=============================================================================
