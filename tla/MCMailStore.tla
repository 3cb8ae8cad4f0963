------------------------------ MODULE MCMailStore ------------------------------
(* Instances of MailStore for TLC. *)
EXTENDS MailStore

CONSTANTS m1, m2, c1, c2, d1, d2

\* A delivered mail with an attachment, or a fetched one with some.
OneEach ==
    [Mails -> {[via |-> "routing", parts |-> 1],
               [via |-> "aggregator", parts |-> MaxParts]}]
=============================================================================
