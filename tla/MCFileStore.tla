---------------------------- MODULE MCFileStore ----------------------------
(* FileStore on small sets, with the symmetry of its model values. *)
EXTENDS FileStore, TLC

Symmetry == Permutations(Files) \union Permutations(Owners)
              \union Permutations(Requests)

=============================================================================
