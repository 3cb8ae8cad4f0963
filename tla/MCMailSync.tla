------------------------------ MODULE MCMailSync ------------------------------
(* Instances of MailSync for TLC. *)
EXTENDS MailSync

CONSTANTS w1, w2

\* Some mail to store, and fewer that cannot be parsed than a batch holds.
MixedMailboxes ==
    {k \in [Mails -> Kinds] :
        /\ \E m \in Mails : k[m] = "plain"
        /\ Cardinality({m \in Mails : k[m] = "bad"}) <= 1}

\* Nothing but a mail that is too large.
LargeMailboxes == [Mails -> {"plain", "huge"}]
=============================================================================
