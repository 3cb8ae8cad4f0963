----------------------------- MODULE IntentLog -----------------------------
(***************************************************************************)
(* What the mutation queue promises its users, without requests, leases,   *)
(* tokens, retries or clocks: a log of intents, numbered in the order they *)
(* were asked for.  An intent is tried at the provider only when every     *)
(* older one of its message is settled; it is settled by an outcome, or    *)
(* dropped for a newer intent of its kind; a change of location that may   *)
(* have reached the provider is never dropped; an unsettled intent is      *)
(* forgotten only together with its mailbox.                               *)
(***************************************************************************)
EXTENDS Naturals

CONSTANTS Messages,   \* the messages intents are about
          Kinds,      \* kinds of intents; one replaces an older one of its kind
          Location,   \* the kind that changes where a message is
          MaxIntents  \* bound: intents ever asked for

VARIABLES log,    \* log[i]: state, message and kind of the i-th intent
          alive   \* the messages the mailbox still has

Ids       == 1 .. MaxIntents
Unasked   == [state |-> "unasked"]
Forgotten == [state |-> "forgotten"]
Unsettled == {"asked", "tried"}
Settled   == {"closed", "dropped"}

Init == log = [i \in Ids |-> Unasked] /\ alive = Messages

\* Intent i is in the log L and is of message m.
About(L, i, m) == L[i].state \in Unsettled \cup Settled /\ L[i].msg = m

\* Intents S of log L come to state s; the others stay as they are.
Put(S, s) == log' = [i \in Ids |-> IF i \in S THEN [log[i] EXCEPT !.state = s]
                                             ELSE log[i]]

Ask(i, m, k) ==
    /\ \A j \in Ids : (log[j].state = "unasked") <=> j >= i
    /\ log' = [log EXCEPT ![i] = [state |-> "asked", msg |-> m, kind |-> k]]
    /\ UNCHANGED alive

\* The agent gets intents of different messages, each the oldest unsettled one.
Try(S) ==
    /\ \A i \in S : /\ log[i].state = "asked"
                    /\ \A j \in Ids : j < i /\ About(log, j, log[i].msg)
                                        => log[j].state \in Settled
    /\ Put(S, "tried")
    /\ UNCHANGED alive

\* The provider's outcome.
Close(i) ==
    /\ log[i].state = "tried"
    /\ Put({i}, "closed")
    /\ UNCHANGED alive

\* A newer intent of the same kind takes the place of an older one.
Drop(S) ==
    /\ \A i \in S :
          /\ log[i].state \in Unsettled
          /\ log[i].kind = Location => log[i].state = "asked"
          /\ \E j \in Ids \ S : /\ j > i
                                /\ About(log, j, log[i].msg) /\ log[j].kind = log[i].kind
                                /\ log[j].state # "dropped"
    /\ Put(S, "dropped")
    /\ UNCHANGED alive

\* An executed deletion settles everything else asked of its message, none of
\* which the agent has seen.
Delete(i) ==
    /\ log[i].state = "tried" /\ log[i].kind = Location
    /\ \A j \in Ids \ {i} : About(log, j, log[i].msg) => log[j].state # "tried"
    /\ log' = [j \in Ids |->
                 IF j = i THEN [log[j] EXCEPT !.state = "closed"]
                 ELSE IF About(log, j, log[i].msg) /\ log[j].state = "asked"
                      THEN [log[j] EXCEPT !.state = "dropped"]
                      ELSE log[j]]
    /\ alive' = alive \ {log[i].msg}

\* A message goes without an intent: the Worker's own mail.
Vanish(m) == alive' = alive \ {m} /\ UNCHANGED log

\* Settled intents are forgotten; unsettled ones only with their mailbox, and
\* then all of them.
Forget(S, M) ==
    /\ \A i \in S : log[i].state \in Settled \cup Unsettled
    /\ \A i \in Ids : log[i].state \in Unsettled => (i \in S <=> log[i].msg \in M)
    /\ log' = [i \in Ids |-> IF i \in S THEN Forgotten ELSE log[i]]
    /\ alive' = alive \ M

Next ==
    \/ \E i \in Ids, m \in Messages, k \in Kinds : Ask(i, m, k)
    \/ \E S \in SUBSET Ids : Try(S) \/ Drop(S)
    \/ \E i \in Ids : Close(i) \/ Delete(i)
    \/ \E m \in Messages : Vanish(m)
    \/ \E S \in SUBSET Ids, M \in SUBSET Messages : Forget(S, M)

Spec == Init /\ [][Next]_<<log, alive>>
=============================================================================
