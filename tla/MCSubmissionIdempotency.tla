------------------------ MODULE MCSubmissionIdempotency ------------------------
(* Concurrent submissions of one batch and of none, with and without a key. *)
EXTENDS SubmissionIdempotency, TLC

Symmetry == Permutations(Call) \union Permutations(Content)
================================================================================
