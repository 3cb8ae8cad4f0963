-------------------------- MODULE MCFleetRegistry --------------------------
(* A small fleet: a primary shard and two others. *)
EXTENDS FleetRegistry, TLC

CONSTANTS k1, k2, k3, k4, m1, m2, u1, p, s1, s2, a1, a2

Symmetric == Permutations(Keys) \cup Permutations(Mailboxes)

On(a, d, u) == [account |-> a, database |-> d, url |-> u, open |-> TRUE]
Base == [primary |-> p, max |-> 2,
         shard |-> (p :> On(a1, 0, 0)) @@ (s1 :> On(a1, 1, 1)) @@ (s2 :> On(a2, 2, 2)),
         account |-> (a1 :> [provider |-> 1, limit |-> 2]) @@ (a2 :> [provider |-> 2, limit |-> 2])]

\* s1 moves to another database under a lower mailbox limit; s2 moves to the
\* first account; s2 is dropped.
FleetConfigs == {Base, [Base EXCEPT !.shard[s1].database = 7, !.max = 1], [Base EXCEPT !.shard[s2].account = a1],
                 [Base EXCEPT !.shard = [s \in {p, s1} |-> Base.shard[s]]]}
OneImport == {m :> [user |-> u1, owner |-> s2, epoch |-> 1, deleting |-> d] : m \in Mailboxes, d \in BOOLEAN}
SampleOf(a, s) == [kind |-> "metrics", account |-> a, step |-> "next", load |-> 0, sizes |-> (s :> 0)]
Sampled   == {SampleOf(a1, s1), SampleOf(a2, s2)}
=============================================================================
