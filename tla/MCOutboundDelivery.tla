-------------------------- MODULE MCOutboundDelivery --------------------------
(* Small instances of OutboundDelivery.                                     *)
EXTENDS OutboundDelivery, TLC

CONSTANTS t1, t2, t3

Symmetric == Permutations(Tokens)

\* Subjects none of which contains another.
Distinct == {<<j, j>> : j \in Jobs}

\* The first mail's subject contains the second's ("Re: offer" and "offer"), so
\* the search for the second also finds the first.
Contained == Distinct \cup {<<2, 1>>}
=============================================================================
