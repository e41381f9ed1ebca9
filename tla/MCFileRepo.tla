----------------------------- MODULE MCFileRepo -----------------------------
(* Small instances of FileRepo. *)
EXTENDS FileRepo, TLC

Symmetric == Permutations(Uploader) \cup Permutations(Key) \cup Permutations(Ticket)
=============================================================================
