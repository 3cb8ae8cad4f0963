-------------------------- MODULE MCMutationQueue --------------------------
(* Instances of MutationQueue for TLC. *)
EXTENDS MutationQueue, TLC

CONSTANTS e1, e2, inbox, archive, c1, c2, h1, h2, r1, r2, t1, t2, acc

OwnAccount == [e \in Emails |-> acc]
Symmetry == Permutations(Tokens) \cup Permutations(Folders) \cup Permutations(Clients)
=============================================================================
