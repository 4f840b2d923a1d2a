------------------------------ MODULE MCQuota ------------------------------
(* Quota on small sets, with the symmetry of its model values. *)
EXTENDS Quota, TLC

Symmetry == Permutations(Accounts) \union Permutations(Addresses)
              \union Permutations(Uploads) \union Permutations(Requests)

=============================================================================
