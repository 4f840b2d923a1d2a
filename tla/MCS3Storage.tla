---------------------------- MODULE MCS3Storage ----------------------------
(* S3Storage on small sets, with the symmetry of its model values. *)
EXTENDS S3Storage, TLC

Symmetry == Permutations(Sessions) \union Permutations(Chunks)
              \union Permutations(Requests) \union Permutations(Seals)

=============================================================================
