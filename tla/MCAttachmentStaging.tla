-------------------------- MODULE MCAttachmentStaging --------------------------
(* Uploads of one Organization; the unit of time is half an hour. *)
EXTENDS AttachmentStaging, TLC

Symmetry == Permutations(Upload) \union Permutations(Batch)
            \union Permutations(File) \union Permutations(Content)
================================================================================
