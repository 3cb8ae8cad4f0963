--------------------------- MODULE OutboundDelivery ---------------------------
(***************************************************************************)
(* Sending the queued mails of external accounts: the lease endpoints of   *)
(* the Worker (worker/src/unified/outbound_jobs.ts), the aggregator that   *)
(* claims, sends, reconciles and reports (aggregator one_mail_agg:         *)
(* outbound_jobs.py, smtp_sender.py, oauth_sender.py), and the provider.   *)
(*                                                                         *)
(* The aggregator is one process that works its batch off one job at a     *)
(* time; its requests may be slow, lost or repeated, it may crash, and a   *)
(* lease may run out under it.  Times are reduced to what is past: a lease *)
(* is live or not, a job is due or not, and a claim request knows the jobs *)
(* that were due when it read the clock.                                   *)
(***************************************************************************)
EXTENDS Naturals, FiniteSets

CONSTANTS
    MaxJobs,      \* bound: outbound_mail_jobs rows, in the order created
    Tokens,       \* lease tokens (uuid4, one per claim_outbound_jobs)
    Alike,        \* <<j, k>>: the search for j's subject finds k's mail
    Limit,        \* the limit of a claim
    MaxAttempts,  \* MAX_ATTEMPTS
    Faults,       \* what may go wrong
    MaxFaults     \* bound: how often

Jobs == 1 .. MaxJobs

ASSUME ConstantsAssumption ==
    /\ MaxJobs \in Nat /\ Limit \in Nat \ {0}
    /\ MaxAttempts \in Nat \ {0} /\ MaxFaults \in Nat
    /\ Faults \subseteq {"crash", "lapse", "loss", "timeout"}
    /\ Alike \subseteq Jobs \X Jobs
    /\ \A j \in Jobs : <<j, j>> \in Alike

VARIABLES
    job,      \* outbound_mail_jobs
    claim,    \* claim requests on their way or between two statements
    report,   \* result requests on their way or between two statements
    agent,    \* the aggregator's outbound drain
    copies,   \* mails the provider delivered, per job (2 stands for more)
    filed,    \* of these, the ones in the Sent folder and in the time window
    faults,   \* how many faults there were
    doubt     \* history: jobs whose outcome a fault kept from the Worker

vars == <<job, claim, report, agent, copies, filed, faults, doubt>>

NoToken == "none"
NoRow   == [status |-> "absent"]
Verdicts == {"succeeded", "failed", "unsupported"}
Row == [status : {"pending", "processing"} \cup Verdicts,
        attempts : 0 .. MaxAttempts + 1,   \* bound: one above the limit stands for more
        token : Tokens \cup {NoToken}, live : BOOLEAN, due : BOOLEAN]

\* A claim is sent at most twice with its token (call_with_transport_retry).
Requests == Tokens \X {1, 2}
NoClaim  == [phase |-> "idle"]
ClaimCall == [phase : {"sent", "recovered", "selected", "leased", "answered"},
              ripe : SUBSET Jobs, picked : SUBSET Jobs]
ReportCall == [job : Jobs, token : Tokens, status : Verdicts \cup {"retry"},
               attempts : 0 .. MaxAttempts + 1]
Unread == 0
Ready == [phase |-> "ready"]
Agent == [phase : {"claiming"}, token : Tokens, try : {1, 2}]
         \cup [phase : {"sending", "unknown", "reporting"}, token : Tokens,
               batch : SUBSET Jobs]

TypeOK ==
    /\ job \in [Jobs -> Row \cup {NoRow}]
    /\ claim \in [Requests -> ClaimCall \cup {NoClaim}]
    /\ report \subseteq ReportCall
    /\ agent \in Agent \cup {Ready}
    /\ copies \in [Jobs -> 0 .. 2] /\ filed \in [Jobs -> 0 .. 2]
    /\ faults \in 0 .. MaxFaults
    /\ doubt \subseteq Jobs

Init ==
    /\ job = [j \in Jobs |-> NoRow]
    /\ claim = [r \in Requests |-> NoClaim]
    /\ report = {}
    /\ agent = Ready
    /\ copies = [j \in Jobs |-> 0] /\ filed = [j \in Jobs |-> 0]
    /\ faults = 0
    /\ doubt = {}

-----------------------------------------------------------------------------
Is(j, status) == job[j].status = status
Settled(j) == job[j].status \in Verdicts
First(S) == CHOOSE j \in S : \A k \in S : j <= k
Oldest(S, n) == {j \in S : Cardinality({k \in S : k < j}) < n}
Fault(kind) == kind \in Faults /\ faults < MaxFaults /\ faults' = faults + 1

\* The job the aggregator works on, and all it believes to hold.
Batch == IF agent.phase \in {"sending", "unknown", "reporting"} THEN agent.batch ELSE {}
Current == First(agent.batch)

\* The worker queues a mail (module SendIdempotency).
Enqueue(j) ==
    /\ job[j] = NoRow
    /\ \A k \in Jobs : k < j => job[k] # NoRow
    /\ job' = [job EXCEPT ![j] = [status |-> "pending", attempts |-> 0,
                                  token |-> NoToken, live |-> FALSE, due |-> TRUE]]
    /\ UNCHANGED <<claim, report, agent, copies, filed, faults, doubt>>

\* next_attempt_at passes.
Ripen(j) ==
    /\ Is(j, "pending") /\ ~job[j].due
    /\ job' = [job EXCEPT ![j].due = TRUE]
    /\ UNCHANGED <<claim, report, agent, copies, filed, faults, doubt>>

\* lease_until passes; under the aggregator's hands that is a fault.
InHand(j) == agent # Ready /\ job[j].token = agent.token
Lapse(j) ==
    /\ Is(j, "processing") /\ job[j].live
    /\ job' = [job EXCEPT ![j].live = FALSE]
    /\ IF InHand(j) THEN Fault("lapse") /\ doubt' = doubt \cup {j}
                    ELSE UNCHANGED <<faults, doubt>>
    /\ UNCHANGED <<claim, report, agent, copies, filed>>

-----------------------------------------------------------------------------
(* POST /admin/unified/outbound/claim                                       *)

\* Faulty variant, for the mutants.
FreedToNewStatus(row) == [row EXCEPT !.status = "expired", !.token = NoToken, !.live = FALSE]

Freed(row) == [row EXCEPT !.status = "pending", !.token = NoToken, !.live = FALSE]

\* Faulty variants, for the mutants.
LapsedAny(row) == row.status = "processing"
LapsedNone(row) == FALSE

Lapsed(row) == row.status = "processing" /\ ~row.live

\* The request arrives, reads the clock and takes back lapsed leases.
ClaimRecover(r) ==
    /\ claim[r].phase = "sent"
    /\ job' = [j \in Jobs |-> IF Lapsed(job[j]) THEN Freed(job[j]) ELSE job[j]]
    /\ claim' = [claim EXCEPT ![r].phase = "recovered",
                              ![r].ripe = {j \in Jobs : job[j] = NoRow \/ job[j].due}]
    /\ UNCHANGED <<report, agent, copies, filed, faults, doubt>>

\* SELECT ... ORDER BY created_at, rowid LIMIT ?
ClaimSelect(r) ==
    /\ claim[r].phase = "recovered"
    /\ claim' = [claim EXCEPT
          ![r].phase = "selected",
          ![r].picked = Oldest({j \in Jobs : Is(j, "pending") /\ j \in claim[r].ripe}, Limit)]
    /\ UNCHANGED <<job, report, agent, copies, filed, faults, doubt>>

Leased(row, tok) ==
    [row EXCEPT !.status = "processing", !.token = tok, !.live = TRUE,
                !.attempts = IF @ > MaxAttempts THEN @ ELSE @ + 1]

\* The lease batch re-checks what the SELECT saw.
ClaimLease(r) ==
    /\ claim[r].phase = "selected"
    /\ job' = [j \in Jobs |->
          IF j \in claim[r].picked /\ Is(j, "pending") /\ j \in claim[r].ripe
          THEN Leased(job[j], r[1]) ELSE job[j]]
    /\ claim' = [claim EXCEPT ![r].phase = "leased"]
    /\ UNCHANGED <<report, agent, copies, filed, faults, doubt>>

\* The answer holds every job under the token, and leaves for the aggregator.
ClaimAnswer(r) ==
    /\ claim[r].phase = "leased"
    /\ claim' = [claim EXCEPT
          ![r].phase = "answered",
          ![r].picked = {j \in Jobs : Is(j, "processing") /\ job[j].token = r[1]}]
    /\ UNCHANGED <<job, report, agent, copies, filed, faults, doubt>>

Awaited(r) == agent.phase = "claiming" /\ <<agent.token, agent.try>> = r

\* The request, its handler or its answer is lost.
ClaimLost(r) ==
    /\ claim[r] # NoClaim
    /\ claim' = [claim EXCEPT ![r] = NoClaim]
    /\ IF Awaited(r) THEN Fault("loss") ELSE UNCHANGED faults
    /\ UNCHANGED <<job, report, agent, copies, filed, doubt>>

-----------------------------------------------------------------------------
(* The aggregator: process_outbound_jobs                                    *)

Fresh(t) ==
    /\ \A j \in Jobs : job[j] # NoRow => job[j].token # t
    /\ \A n \in {1, 2} : claim[<<t, n>>] = NoClaim
    /\ \A p \in report : p.token # t

Ask(t, n) ==
    /\ agent' = [phase |-> "claiming", token |-> t, try |-> n]
    /\ claim' = [claim EXCEPT ![<<t, n>>] = [phase |-> "sent", ripe |-> {}, picked |-> {}]]

StartClaim(t) ==
    /\ agent = Ready /\ Fresh(t)
    /\ Ask(t, 1)
    /\ UNCHANGED <<job, report, copies, filed, faults, doubt>>

\* No answer within the timeout: once more with the same token, then not again.
ClaimTimeout ==
    /\ agent.phase = "claiming"
    /\ IF claim[<<agent.token, agent.try>>] = NoClaim THEN UNCHANGED faults
       ELSE Fault("timeout")
    /\ IF agent.try = 1 THEN Ask(agent.token, 2)
                        ELSE agent' = Ready /\ UNCHANGED claim
    /\ UNCHANGED <<job, report, copies, filed, doubt>>

Work(phase, batch) ==
    agent' = IF batch = {} THEN Ready
             ELSE [phase |-> phase, token |-> agent.token, batch |-> batch]

TakeAnswer(r) ==
    /\ Awaited(r) /\ claim[r].phase = "answered"
    /\ claim' = [claim EXCEPT ![r] = NoClaim]
    /\ Work("sending", claim[r].picked)
    /\ UNCHANGED <<job, report, copies, filed, faults, doubt>>

More(n) == IF n = 2 THEN 2 ELSE n + 1

\* The provider delivers the mail; its Sent folder may not (yet) show it.
Delivered ==
    LET j == Current
    IN /\ copies' = [copies EXCEPT ![j] = More(@)]
       /\ filed' \in {filed, [filed EXCEPT ![j] = More(@)]}

\* report_outbound_result sends the outcome of the current job.
SendReport(status) ==
    /\ report' = report \cup {[job |-> Current, token |-> agent.token,
                               status |-> status, attempts |-> Unread]}
    /\ Work("reporting", agent.batch)

\* No account row, no permission to send, wrong From, refused credentials or
\* recipients, token refresh failed: an outcome without a mail.
NotSent(status) ==
    /\ agent.phase = "sending"
    /\ SendReport(status)
    /\ UNCHANGED <<job, claim, copies, filed, faults, doubt>>

Sent ==
    /\ agent.phase = "sending"
    /\ Delivered
    /\ SendReport("succeeded")
    /\ UNCHANGED <<job, claim, faults, doubt>>

\* OutboundOutcomeUnknown: the connection broke before or after the provider
\* took the mail.
SendUnknown ==
    /\ agent.phase = "sending"
    /\ Delivered \/ UNCHANGED <<copies, filed>>
    /\ doubt' = doubt \cup {Current}
    /\ Work("unknown", agent.batch)
    /\ UNCHANGED <<job, claim, report, faults>>

\* Faulty variant, for the mutants.
OneMatchOrNone(found) == found <= 1

OneMatch(found) == found = 1

\* reconcile_sent_folder, reconcile_graph_sent: mails with this subject in the
\* Sent folder.
Found(j) == LET like == {k \in Jobs : <<j, k>> \in Alike /\ filed[k] > 0}
            IN IF \E k \in like : filed[k] = 2 THEN 2 ELSE Cardinality(like)

\* With no match or several, or with a search that fails, the outcome stays
\* unknown (retry).  Whatever was or would be found, other exceptions of the
\* reconciliation reach the handlers of process_outbound_jobs: a mailbox without
\* a Sent folder is unsupported; a login or token that is refused, or an entry
\* that cannot be read, is failed.
Reconcile ==
    /\ agent.phase = "unknown"
    /\ \/ OneMatch(Found(Current)) /\ SendReport("succeeded")
       \/ \E status \in {"retry", "failed", "unsupported"} : SendReport(status)
    /\ UNCHANGED <<job, claim, copies, filed, faults, doubt>>

\* The answer, or the timeout after which the report may still arrive; the
\* report is not repeated.
NextJob ==
    /\ agent.phase = "reporting"
    /\ Work("sending", agent.batch \ {Current})
    /\ IF \E p \in report : p.job = Current /\ p.token = agent.token
       THEN Fault("timeout") /\ doubt' = doubt \cup {Current}
       ELSE UNCHANGED <<faults, doubt>>
    /\ UNCHANGED <<job, claim, report, copies, filed>>

\* The process is killed and restarted.
Crash ==
    /\ agent # Ready
    /\ agent' = Ready
    /\ Fault("crash")
    /\ doubt' = IF Batch = {} THEN doubt ELSE doubt \cup {Current}
    /\ UNCHANGED <<job, claim, report, copies, filed>>

\* A mail in the Sent folder gets older than the window, or is moved.
LeaveWindow(j) ==
    /\ filed[j] > 0
    /\ filed' = [filed EXCEPT ![j] = @ - 1]
    /\ UNCHANGED <<job, claim, report, agent, copies, faults, doubt>>

-----------------------------------------------------------------------------
(* POST /admin/unified/outbound/:id/result                                  *)

\* Faulty variant, for the mutants.
FencedNoToken(p) == Is(p.job, "processing") /\ job[p.job].live

Fenced(p) ==
    /\ Is(p.job, "processing")
    /\ job[p.job].token = p.token
    /\ job[p.job].live

\* The job is read under its lease; 409 without it.
ReportRead(p) ==
    /\ p.attempts = Unread
    /\ report' = (report \ {p}) \cup
          (IF Fenced(p) THEN {[p EXCEPT !.attempts = job[p.job].attempts]} ELSE {})
    /\ UNCHANGED <<job, claim, agent, copies, filed, faults, doubt>>

\* Faulty variant, for the mutants.
ExhaustedNever(p) == FALSE

Exhausted(p) == p.status = "retry" /\ p.attempts >= MaxAttempts

\* The write, under the same fence.  A retry is put off behind the clock of
\* every claim request that is running.
ReportWrite(p) ==
    /\ p.attempts # Unread
    /\ report' = report \ {p}
    /\ LET status == IF Exhausted(p) THEN "failed"
                     ELSE IF p.status = "retry" THEN "pending" ELSE p.status
           row == [job[p.job] EXCEPT !.status = status, !.token = NoToken,
                                     !.live = FALSE, !.due = status # "pending"]
       IN IF ~Fenced(p) THEN UNCHANGED <<job, claim>>
          ELSE /\ job' = [job EXCEPT ![p.job] = row]
               /\ claim' = IF status # "pending" THEN claim
                           ELSE [r \in Requests |->
                                   IF claim[r] = NoClaim THEN NoClaim
                                   ELSE [claim[r] EXCEPT !.ripe = @ \ {p.job}]]
    /\ UNCHANGED <<agent, copies, filed, faults, doubt>>

\* The report or its handler is lost; the aggregator goes on.
ReportLost(p) ==
    /\ report' = report \ {p}
    /\ Fault("loss")
    /\ doubt' = doubt \cup {p.job}
    /\ UNCHANGED <<job, claim, agent, copies, filed>>

-----------------------------------------------------------------------------
ServeClaim(r) == ClaimRecover(r) \/ ClaimSelect(r) \/ ClaimLease(r) \/ ClaimAnswer(r)
ServeReport(p) == ReportRead(p) \/ ReportWrite(p)

Drain ==
    \/ \E t \in Tokens : StartClaim(t)
    \/ ClaimTimeout
    \/ \E r \in Requests : TakeAnswer(r)
    \/ \E status \in {"failed", "unsupported", "retry"} : NotSent(status)
    \/ Sent
    \/ SendUnknown
    \/ Reconcile
    \/ NextJob

Next ==
    \/ \E j \in Jobs : Enqueue(j) \/ Ripen(j) \/ Lapse(j) \/ LeaveWindow(j)
    \/ \E r \in Requests : ServeClaim(r) \/ ClaimLost(r)
    \/ Drain
    \/ Crash
    \/ \E p \in report : ServeReport(p) \/ ReportLost(p)

Spec == Init /\ [][Next]_vars

\* The drain is called again on every tick; handlers that are not lost answer;
\* leases nobody works under run out, and retries fall due.
FairSpec ==
    /\ Spec
    /\ WF_vars(Drain)
    /\ \A r \in Requests : WF_vars(ServeClaim(r)) /\ WF_vars(~Awaited(r) /\ ClaimLost(r))
    /\ WF_vars(\E p \in report : ServeReport(p))
    /\ \A j \in Jobs : WF_vars(Ripen(j)) /\ WF_vars(Lapse(j) /\ ~InHand(j))

-----------------------------------------------------------------------------
(* Properties.                                                              *)

\* Terminal outcomes are final (outbound_jobs.ts:96): a settled job keeps its
\* verdict and is not sent again, whatever claims and reports are still on
\* their way from before.
SettledStays ==
    \A j \in Jobs : Settled(j) => Settled(j)' /\ job'[j].status = job[j].status
                                  /\ copies'[j] = copies[j]
SettledNeverResent == [][SettledStays]_vars

\* A job is reported succeeded only if the provider delivered its mail, or if its
\* outcome was in doubt and the mail that was found is that of a job whose subject
\* contains its own (smtp_sender.py:333 takes the only match for the job's mail,
\* whosever it is).
SucceededMeansDelivered ==
    \A j \in Jobs : Is(j, "succeeded") =>
        \/ copies[j] > 0
        \/ j \in doubt /\ \E k \in Jobs : <<j, k>> \in Alike /\ copies[k] > 0

\* Two mails for one job take a crash, a loss, a lease that ran out in use or
\* an outcome left unknown: without any, the lease and the verdict are enough.
ResentOnlyInDoubt ==
    \A j \in Jobs : copies[j] = 2 => j \in doubt

\* Every queued mail gets a verdict (after MAX_ATTEMPTS a stuck provider's
\* job fails), as long as faults end.
EveryMailSettled ==
    \A j \in Jobs : job[j] # NoRow ~> Settled(j)
=============================================================================
