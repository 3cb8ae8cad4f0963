--------------------------- MODULE MutationQueue ---------------------------
(***************************************************************************)
(* The Worker's mail mutation queue (worker/src/unified/mutation_jobs.ts): *)
(* a mailbox user's read, star, move and delete intents on a provider      *)
(* owned message are rows of mail_mutation_jobs that an agent claims under *)
(* a lease, executes at the provider and reports on.                       *)
(*                                                                         *)
(* Every D1 statement, and every D1 batch (one implicit transaction), is   *)
(* one action; the handlers' awaits lie between the actions, so requests,  *)
(* claims and reports interleave at every await.  A Date.now() taken       *)
(* before an await is kept in the handler's record and used after it.      *)
(*                                                                         *)
(* The agent is an open environment: any token may claim at any time, and  *)
(* any verdict may be reported on any job under any token.                 *)
(***************************************************************************)
EXTENDS Naturals, FiniteSets

CONSTANTS
    Emails,       \* rows of the emails table
    Providers,    \* what inferMutationProvider says of the rows
    Account,      \* Account[e]: the account_id of row e
    Purgeable,    \* accounts the owner of the mailboxes may purge
    Folders,      \* canonical folders of an account
    Uids,         \* provider message keys (IMAP UID, Graph immutable id)
    Ops,          \* the operations users ask for
    Verdicts,     \* what agents report
    Endpoints,    \* the claim endpoints agents call
    Clients,      \* concurrent request handlers
    Claims,       \* concurrent claim handlers
    Reports,      \* concurrent result handlers
    Tokens,       \* lease tokens (one uuid per drain of an agent)
    Limits,       \* the `limit` values claims ask for
    Delays,       \* retry delays after clamping, in ticks
    Lease,        \* LEASE_MS, in ticks
    MaxAttempts,  \* MAX_ATTEMPTS
    MaxJobs,      \* bound: jobs ever inserted
    MaxNow        \* bound: the clock

DesiredOps  == {"set_read", "set_starred"}
LocationOps == {"move", "delete"}
Terminal    == {"succeeded", "failed", "unsupported", "superseded"}
Active      == {"pending", "processing"}
JobIds      == 1 .. MaxJobs
Ident       == [folder : Folders, uid : Uids]

ASSUME ConstantsAssumption ==
    /\ Providers \subseteq {"imap", "graph", "native"}
    /\ DOMAIN Account = Emails
    /\ Ops \subseteq DesiredOps \cup LocationOps
    /\ Verdicts \subseteq {"succeeded", "retry", "failed", "unsupported"}
    /\ Endpoints \subseteq {"v2", "legacy"}
    /\ Limits \subseteq Nat \ {0}
    /\ Delays \subseteq Nat \ {0}
    /\ Lease \in Nat \ {0}
    /\ MaxAttempts \in Nat \ {0}
    /\ MaxJobs \in Nat
    /\ MaxNow \in Nat

VARIABLES
    now,       \* Date.now()
    emails,    \* the emails rows: is the row there, its flags, its identity
    jobs,      \* the mail_mutation_jobs rows, in rowid order
    inserted,  \* how many rows were ever inserted (the next job is inserted+1)
    req,       \* user requests between two awaits
    claim,     \* claim requests between two awaits
    report     \* result requests between two awaits

vars == <<now, emails, jobs, inserted, req, claim, report>>

NoToken  == "no token"
NoJob    == [status |-> "absent"]
NoReq    == [phase |-> "idle"]
NoClaim  == [phase |-> "idle"]
NoReport == [phase |-> "idle"]

Job == [status    : Active \cup Terminal,
        email     : Emails,
        op        : DesiredOps \cup LocationOps,
        want      : {0, 1},
        target    : Folders,
        ident     : Ident,
        attempts  : Nat,
        next      : Nat,
        token     : Tokens \cup {NoToken},
        until     : Nat]

Request == [phase  : {"loaded", "inserted", "superseded"},
            email  : Emails,
            op     : DesiredOps \cup LocationOps,
            want   : {0, 1},
            target : Folders,
            ident  : Ident,
            id     : Nat]

ClaimCall == [phase  : {"recovered", "selected"},
              token  : Tokens,
              api    : Endpoints,
              now    : Nat,
              cands  : SUBSET JobIds]

ReportCall == [phase   : {"read", "fenced"},
               id      : JobIds,
               token   : Tokens,
               verdict : Verdicts,
               proj    : Ident,
               job     : Job,
               newer   : BOOLEAN,
               now     : Nat]

Email == [live     : BOOLEAN,
          provider : Providers,
          flag     : [DesiredOps -> {0, 1}],
          ident    : Ident]

TypeOK ==
    /\ now \in 0 .. MaxNow
    /\ emails \in [Emails -> Email]
    /\ jobs \in [JobIds -> Job \cup {NoJob}]
    /\ inserted \in 0 .. MaxJobs
    /\ req \in [Clients -> Request \cup {NoReq}]
    /\ claim \in [Claims -> ClaimCall \cup {NoClaim}]
    /\ report \in [Reports -> ReportCall \cup {NoReport}]

Init ==
    /\ now = 0
    /\ emails \in [Emails -> [live     : {TRUE},
                              provider : Providers,
                              flag     : {[o \in DesiredOps |-> 0]},
                              ident    : Ident]]
    /\ jobs = [j \in JobIds |-> NoJob]
    /\ inserted = 0
    /\ req = [c \in Clients |-> NoReq]
    /\ claim = [h \in Claims |-> NoClaim]
    /\ report = [r \in Reports |-> NoReport]

-----------------------------------------------------------------------------
(* Rows of the queue.  J is a value of `jobs` in the middle of a batch.     *)

Live(J, j) == J[j].status # "absent"

\* A job whose place in the order is still held: not terminal, not deleted.
Open(J, j) == J[j].status \in Active

\* The intents a new one may replace: the same flag, or any location change.
SameKind(a, b) ==
    /\ a.email = b.email
    /\ \/ a.op \in DesiredOps  /\ b.op = a.op
       \/ a.op \in LocationOps /\ b.op \in LocationOps

Superseded(job) == [job EXCEPT !.status = "superseded"]

\* terminalJobStatement, and the two other terminal writes of a report.
Closed(job, status) ==
    [job EXCEPT !.status = status, !.token = NoToken, !.until = 0]

\* Faulty variant, for the mutants.
FencedNoToken(job, tok, t) == job.status = "processing" /\ job.until > t

\* The lease predicate of every statement that a report executes.
Fenced(job, tok, t) ==
    /\ job.status = "processing"
    /\ job.token = tok
    /\ job.until > t

-----------------------------------------------------------------------------
(* User requests: mutateMessageState, moveEmail, deleteEmail.               *)

\* loadMutableEmail and the checks before the first write.  A toggle computes
\* the wanted flag from the row, so both values are possible.  A native row
\* cannot be moved; a move into the row's own folder answers at once.
Load(c, e, o, w, f) ==
    /\ req[c].phase = "idle"
    /\ emails[e].live
    /\ o = "move" => /\ emails[e].provider # "native"
                     /\ f # emails[e].ident.folder
    /\ o # "move" => f = emails[e].ident.folder
    /\ o \in LocationOps => w = 0
    /\ req' = [req EXCEPT ![c] = [phase |-> "loaded", email |-> e, op |-> o,
                                  want |-> w, target |-> f,
                                  ident |-> emails[e].ident, id |-> 0]]
    /\ UNCHANGED <<now, emails, jobs, inserted, claim, report>>

\* updateNativeState, and the native branch of deleteEmail: no job.
NativeWrite(c) ==
    /\ req[c].phase = "loaded"
    /\ emails[req[c].email].provider = "native"
    /\ LET e == req[c].email
       IN emails' = IF req[c].op = "delete"
                    THEN [emails EXCEPT ![e].live = FALSE]
                    ELSE [emails EXCEPT ![e].flag[req[c].op] = req[c].want]
    /\ req' = [req EXCEPT ![c] = NoReq]
    /\ UNCHANGED <<now, jobs, inserted, claim, report>>

\* queueExternalMutation, first await: INSERT with the identity of the row
\* as it was loaded.
InsertJob(c) ==
    /\ req[c].phase = "loaded"
    /\ emails[req[c].email].provider # "native"
    /\ inserted < MaxJobs
    /\ inserted' = inserted + 1
    /\ jobs' = [jobs EXCEPT ![inserted + 1] =
                  [status |-> "pending", email |-> req[c].email, op |-> req[c].op,
                   want |-> req[c].want, target |-> req[c].target,
                   ident |-> req[c].ident, attempts |-> 0, next |-> 0,
                   token |-> NoToken, until |-> 0]]
    /\ req' = [req EXCEPT ![c].phase = "inserted", ![c].id = inserted + 1]
    /\ UNCHANGED <<now, emails, claim, report>>

\* Faulty variant, for the mutants.
ReplaceableAttempted(old, new) == SameKind(old, new) /\ old.status = "pending"
ReplaceableAnyKind(old, new) ==
    /\ old.email = new.email
    /\ old.status = "pending"
    /\ new.op \in LocationOps => old.attempts = 0

\* What a newer intent may supersede: a waiting job of its kind, and a
\* location change only before its first provider attempt.
Replaceable(old, new) ==
    /\ SameKind(old, new)
    /\ old.status = "pending"
    /\ new.op \in LocationOps => old.attempts = 0

\* supersedeOlderPendingIntent.  A location request ends here: its row moves
\* only with the provider's projection.
SupersedeOlder(c) ==
    /\ req[c].phase = "inserted"
    /\ LET id == req[c].id
           old == {j \in JobIds : /\ j < id
                                  /\ Live(jobs, id)
                                  /\ Live(jobs, j)
                                  /\ Replaceable(jobs[j], jobs[id])}
       IN jobs' = [j \in JobIds |-> IF j \in old THEN Superseded(jobs[j])
                                                 ELSE jobs[j]]
    /\ req' = [req EXCEPT ![c] = IF req[c].op \in DesiredOps
                                 THEN [req[c] EXCEPT !.phase = "superseded"]
                                 ELSE NoReq]
    /\ UNCHANGED <<now, emails, inserted, claim, report>>

\* The last await of a flag request: the visible row follows the user at once.
ProjectDesired(c) ==
    /\ req[c].phase = "superseded"
    /\ LET e == req[c].email
       IN emails' = IF emails[e].live
                    THEN [emails EXCEPT ![e].flag[req[c].op] = req[c].want]
                    ELSE emails
    /\ req' = [req EXCEPT ![c] = NoReq]
    /\ UNCHANGED <<now, jobs, inserted, claim, report>>

-----------------------------------------------------------------------------
(* Claims: claimMutationJobs, and claimLegacyMutationJobs for older agents, *)
(* which never sees a location change.                                      *)

\* Faulty variant, for the mutants.
RecoverToNewStatus(J, t) ==
    [j \in JobIds |->
        IF Live(J, j) /\ J[j].status = "processing" /\ J[j].until <= t
        THEN [J[j] EXCEPT !.status = "expired", !.token = NoToken, !.until = 0]
        ELSE J[j]]

\* Leases that ran out go back to waiting; the attempt stays counted.
Recover(J, t) ==
    [j \in JobIds |->
        IF Live(J, j) /\ J[j].status = "processing" /\ J[j].until <= t
        THEN [J[j] EXCEPT !.status = "pending", !.token = NoToken, !.until = 0]
        ELSE J[j]]

\* collapseDuplicatePendingIntents, for the operations in `kinds`.
CollapsePending(J, kinds) ==
    [j \in JobIds |->
        IF /\ Live(J, j)
           /\ J[j].op \in kinds
           /\ \E k \in JobIds : /\ k > j
                                /\ Live(J, k) /\ J[k].status = "pending"
                                /\ Replaceable(J[j], J[k])
        THEN Superseded(J[j])
        ELSE J[j]]

\* First await of a claim: recovery and repair in one batch.
ClaimRecover(h, tok, api) ==
    /\ claim[h].phase = "idle"
    /\ jobs' = CollapsePending(Recover(jobs, now),
                               DesiredOps \cup (IF api = "v2" THEN LocationOps ELSE {}))
    /\ claim' = [claim EXCEPT ![h] = [phase |-> "recovered", token |-> tok,
                                      api |-> api, now |-> now, cands |-> {}]]
    /\ UNCHANGED <<now, emails, inserted, req, report>>

\* Faulty variant, for the mutants.
CandidateNoOrder(J, j, api, t) ==
    /\ Live(J, j)
    /\ J[j].status = "pending"
    /\ J[j].next <= t
    /\ api = "legacy" => J[j].op \in DesiredOps
    /\ \A k \in JobIds : Live(J, k) /\ J[k].email = J[j].email
                           => J[k].status # "processing"

\* The SELECT: due, nothing of the email processing, nothing older waiting.
Candidate(J, j, api, t) ==
    /\ Live(J, j)
    /\ J[j].status = "pending"
    /\ J[j].next <= t
    /\ api = "legacy" => J[j].op \in DesiredOps
    /\ \A k \in JobIds : Live(J, k) /\ J[k].email = J[j].email
                           => /\ J[k].status # "processing"
                              /\ k < j => J[k].status # "pending"

\* LIMIT n keeps the n oldest; which ones matters to no property, so any
\* n of them (all, if there are fewer).  Without a candidate there is no batch.
ClaimSelect(h) ==
    /\ claim[h].phase = "recovered"
    /\ LET all == {j \in JobIds : Candidate(jobs, j, claim[h].api, claim[h].now)}
       IN \E n \in Limits, S \in SUBSET all :
            /\ \/ Cardinality(S) = n
               \/ Cardinality(all) < n /\ S = all
            /\ claim' = [claim EXCEPT ![h] =
                            IF S = {} THEN NoClaim
                            ELSE [claim[h] EXCEPT !.phase = "selected", !.cands = S]]
    /\ UNCHANGED <<now, emails, jobs, inserted, req, report>>

\* The WHERE of the leasing UPDATE, which looks at the row again.
Leasable(J, j, t) ==
    /\ Live(J, j)
    /\ J[j].status = "pending"
    /\ J[j].next <= t
    /\ \A k \in JobIds : Live(J, k) /\ J[k].email = J[j].email
                           => J[k].status # "processing"

\* The leasing batch.  The candidates are of different emails (each is the
\* oldest waiting job of its email), so the statements do not see each other.
\* The closing SELECT reads what this token holds and changes nothing.
ClaimLease(h) ==
    /\ claim[h].phase = "selected"
    /\ LET t == claim[h].now
       IN jobs' = [j \in JobIds |->
                     IF j \in claim[h].cands /\ Leasable(jobs, j, t)
                     THEN [jobs[j] EXCEPT !.status = "processing",
                                          !.attempts = @ + 1,
                                          !.token = claim[h].token,
                                          !.until = t + Lease]
                     ELSE jobs[j]]
    /\ claim' = [claim EXCEPT ![h] = NoClaim]
    /\ UNCHANGED <<now, emails, inserted, req, report>>

-----------------------------------------------------------------------------
(* Results: reportMutationResult.                                           *)

\* First await: the job, if the token still holds it (409 otherwise).
ReportRead(r, j, tok, v, p) ==
    /\ report[r].phase = "idle"
    /\ Live(jobs, j)
    /\ Fenced(jobs[j], tok, now)
    /\ ~(v = "succeeded" /\ jobs[j].op = "move") => p = jobs[j].ident
    /\ report' = [report EXCEPT ![r] = [phase |-> "read", id |-> j, token |-> tok,
                                        verdict |-> v, proj |-> p, job |-> jobs[j],
                                        newer |-> FALSE, now |-> 0]]
    /\ UNCHANGED <<now, emails, jobs, inserted, req, claim>>

\* Faulty variant, for the mutants.
NewerIntentAnyOrder(J, j) ==
    /\ Live(J, j)
    /\ \E k \in JobIds : /\ k # j
                         /\ Live(J, k)
                         /\ SameKind(J[k], J[j])
                         /\ J[k].status # "superseded"

\* newerIntentExists.
NewerIntent(J, j) ==
    /\ Live(J, j)
    /\ \E k \in JobIds : /\ k > j
                         /\ Live(J, k)
                         /\ SameKind(J[k], J[j])
                         /\ J[k].status # "superseded"

\* Second await; then the time all the write guards use is taken.
ReportOrder(r) ==
    /\ report[r].phase = "read"
    /\ report' = [report EXCEPT ![r].phase = "fenced",
                                ![r].newer = NewerIntent(jobs, report[r].id),
                                ![r].now = now]
    /\ UNCHANGED <<now, emails, jobs, inserted, req, claim>>

\* The fence of the writing statement.
Held(R) ==
    /\ R.phase = "fenced"
    /\ Live(jobs, R.id)
    /\ Fenced(jobs[R.id], R.token, R.now)

ReportDone(r) ==
    /\ report' = [report EXCEPT ![r] = NoReport]
    /\ UNCHANGED <<now, inserted, req, claim>>

CloseJob(r, status) ==
    LET R == report[r]
    IN jobs' = [jobs EXCEPT ![R.id] = Closed(jobs[R.id], status)]

\* An older retry gives way to a newer flag intent.
ReportSuperseded(r) ==
    LET R == report[r]
    IN /\ Held(R)
       /\ R.verdict = "retry"
       /\ R.newer /\ R.job.op \in DesiredOps
       /\ CloseJob(r, "superseded")
       /\ UNCHANGED emails
       /\ ReportDone(r)

\* A flag job that used up its attempts fails.
ReportExhausted(r) ==
    LET R == report[r]
    IN /\ Held(R)
       /\ R.verdict = "retry"
       /\ R.job.op \in DesiredOps
       /\ ~R.newer /\ R.job.attempts >= MaxAttempts
       /\ CloseJob(r, "failed")
       /\ UNCHANGED emails
       /\ ReportDone(r)

\* Every other retry waits; a location change never ages out of the queue.
ReportRetry(r) ==
    LET R == report[r]
    IN /\ Held(R)
       /\ R.verdict = "retry"
       /\ R.job.op \in DesiredOps => ~R.newer /\ R.job.attempts < MaxAttempts
       /\ \E d \in Delays :
            jobs' = [jobs EXCEPT ![R.id].status = "pending", ![R.id].next = R.now + d,
                                 ![R.id].token = NoToken, ![R.id].until = 0]
       /\ UNCHANGED emails
       /\ ReportDone(r)

\* A definite refusal by the provider.
ReportRefused(r) ==
    LET R == report[r]
    IN /\ Held(R)
       /\ R.verdict \in {"failed", "unsupported"}
       /\ CloseJob(r, R.verdict)
       /\ UNCHANGED emails
       /\ ReportDone(r)

\* normalizedMoveProjection: the folder asked for; a new IMAP identity, or the
\* same Graph message.
ValidProjection(job, p) ==
    /\ p.folder = job.target
    /\ IF emails[job.email].provider = "imap" THEN p # job.ident ELSE p.uid = job.ident.uid

\* Faulty variant, for the mutants.
MovedOlder(J, j, p) ==
    [k \in JobIds |->
        IF /\ k < j
           /\ Live(J, k) /\ J[k].status = "pending" /\ J[k].email = J[j].email
        THEN [J[k] EXCEPT !.ident = p]
        ELSE J[k]]

\* The later waiting jobs of the moved row follow its new identity.
Moved(J, j, p) ==
    [k \in JobIds |->
        IF /\ k > j
           /\ Live(J, k) /\ J[k].status = "pending" /\ J[k].email = J[j].email
        THEN [J[k] EXCEPT !.ident = p]
        ELSE J[k]]

\* The batch of a successful move: row, later jobs, verdict.
ReportMoved(r) ==
    LET R == report[r]
        e == R.job.email
    IN /\ Held(R)
       /\ R.verdict = "succeeded" /\ R.job.op = "move"
       /\ ValidProjection(R.job, R.proj)
       /\ emails' = IF emails[e].live
                    THEN [emails EXCEPT ![e].ident = R.proj]
                    ELSE emails
       /\ jobs' = [Moved(jobs, R.id, R.proj) EXCEPT
                     ![R.id] = Closed(jobs[R.id], "succeeded")]
       /\ ReportDone(r)

\* The batch of a successful delete: nothing that still waits can be executed.
ReportDeleted(r) ==
    LET R == report[r]
        e == R.job.email
    IN /\ Held(R)
       /\ R.verdict = "succeeded" /\ R.job.op = "delete"
       /\ emails' = [emails EXCEPT ![e].live = FALSE]
       /\ jobs' = [k \in JobIds |->
                     IF k = R.id THEN Closed(jobs[k], "succeeded")
                     ELSE IF /\ k > R.id /\ Live(jobs, k)
                             /\ jobs[k].status = "pending" /\ jobs[k].email = e
                          THEN Superseded(jobs[k])
                          ELSE jobs[k]]
       /\ ReportDone(r)

\* Faulty variant, for the mutants.
ProjectsOlder(R) == R.newer

\* Only the newest intent of its kind writes the visible flag.
Projects(R) == ~R.newer

\* The batch of a successful flag write.
ReportApplied(r) ==
    LET R == report[r]
        e == R.job.email
    IN /\ Held(R)
       /\ R.verdict = "succeeded" /\ R.job.op \in DesiredOps
       /\ emails' = IF Projects(R) /\ emails[e].live
                    THEN [emails EXCEPT ![e].flag[R.job.op] = R.job.want]
                    ELSE emails
       /\ CloseJob(r, "succeeded")
       /\ ReportDone(r)

\* Every guarded statement changes no row (409), or the projection is not one
\* (400): the job stays leased to whoever holds it.
ReportRejected(r) ==
    LET R == report[r]
    IN /\ R.phase = "fenced"
       /\ \/ ~Held(R)
          \/ /\ R.verdict = "succeeded" /\ R.job.op = "move"
             /\ ~ValidProjection(R.job, R.proj)
       /\ UNCHANGED <<emails, jobs>>
       /\ ReportDone(r)

-----------------------------------------------------------------------------
(* Housekeeping.                                                            *)

\* Faulty variant, for the mutants.
PruneAnyStatus ==
    /\ \E S \in SUBSET {j \in JobIds : Live(jobs, j)} :
         /\ S # {}
         /\ jobs' = [j \in JobIds |-> IF j \in S THEN NoJob ELSE jobs[j]]
    /\ UNCHANGED <<now, emails, inserted, req, claim, report>>

\* pruneTerminalJobs: some of the terminal rows.  The 30 day window only makes
\* the step rarer, so rows of any age may go.
Prune ==
    /\ \E S \in SUBSET {j \in JobIds : /\ Live(jobs, j)
                                       /\ jobs[j].status \in Terminal} :
         /\ S # {}
         /\ jobs' = [j \in JobIds |-> IF j \in S THEN NoJob ELSE jobs[j]]
    /\ UNCHANGED <<now, emails, inserted, req, claim, report>>

\* The shard's purge of an account: its jobs and its rows, in one batch
\* (skipped when the account has neither left).
PurgeAccount(a) ==
    /\ \/ \E e \in Emails : Account[e] = a /\ emails[e].live
       \/ \E j \in JobIds : Live(jobs, j) /\ Account[jobs[j].email] = a
    /\ jobs' = [j \in JobIds |-> IF Live(jobs, j) /\ Account[jobs[j].email] = a
                                 THEN NoJob ELSE jobs[j]]
    /\ emails' = [e \in Emails |-> IF Account[e] = a
                                   THEN [emails[e] EXCEPT !.live = FALSE]
                                   ELSE emails[e]]
    /\ UNCHANGED <<now, inserted, req, claim, report>>

Tick ==
    /\ now < MaxNow
    /\ now' = now + 1
    /\ UNCHANGED <<emails, jobs, inserted, req, claim, report>>

RequestStep(c) ==
    \/ \E e \in Emails, o \in Ops, w \in {0, 1}, f \in Folders : Load(c, e, o, w, f)
    \/ NativeWrite(c)
    \/ InsertJob(c)
    \/ SupersedeOlder(c)
    \/ ProjectDesired(c)

ClaimStep(h) ==
    \/ \E tok \in Tokens, api \in Endpoints : ClaimRecover(h, tok, api)
    \/ ClaimSelect(h)
    \/ ClaimLease(h)

ReportStep(r) ==
    \/ \E j \in JobIds, tok \in Tokens, v \in Verdicts, p \in Ident :
          ReportRead(r, j, tok, v, p)
    \/ ReportOrder(r)
    \/ ReportSuperseded(r)
    \/ ReportExhausted(r)
    \/ ReportRetry(r)
    \/ ReportRefused(r)
    \/ ReportMoved(r)
    \/ ReportDeleted(r)
    \/ ReportApplied(r)
    \/ ReportRejected(r)

Next ==
    \/ \E c \in Clients : RequestStep(c)
    \/ \E h \in Claims : ClaimStep(h)
    \/ \E r \in Reports : ReportStep(r)
    \/ Prune
    \/ \E a \in Purgeable : PurgeAccount(a)
    \/ Tick

Spec == Init /\ [][Next]_vars

-----------------------------------------------------------------------------
(* Properties.                                                              *)

Older(J, i, j) == i < j /\ Live(J, i) /\ Live(J, j) /\ J[i].email = J[j].email

\* Once a job has been handed out, everything asked for earlier on the same
\* message is settled: provider writes happen in the order the user made them,
\* and at most one job of a message is in progress.  The claim's SELECT and
\* its lease batch are separate awaits, and recovery, retries and supersession
\* run between them.
OrderingBarrier ==
    \A i, j \in JobIds :
        Older(jobs, i, j) /\ jobs[j].attempts > 0 => jobs[i].status \in Terminal

\* A job that a claim has picked but not yet leased is still its message's
\* oldest unsettled one, whatever ran since the SELECT.
PickedIsOldest ==
    \A h \in Claims : claim[h].phase = "selected" =>
        \A i \in JobIds, j \in claim[h].cands :
            Older(jobs, i, j) => jobs[i].status \in Terminal

\* The inductive part of the two: handlers only know of rows that were
\* inserted, and an id is never used twice.
Barrier ==
    /\ OrderingBarrier
    /\ PickedIsOldest
    /\ \A j \in JobIds : Live(jobs, j) => j <= inserted
    /\ \A h \in Claims : claim[h].phase = "selected" =>
          \A j \in claim[h].cands : j <= inserted

\* A report's snapshot agrees with its row, while the row exists, in the columns
\* that no statement rewrites.
SnapshotsMatch ==
    \A r \in Reports : report[r].phase # "idle" =>
        /\ report[r].id <= inserted
        /\ Live(jobs, report[r].id) =>
              /\ jobs[report[r].id].op = report[r].job.op
              /\ jobs[report[r].id].email = report[r].job.email
              /\ jobs[report[r].id].want = report[r].job.want

\* A job in progress, or settled otherwise than by a newer one, was handed out.
HandedOut ==
    \A j \in JobIds :
        Live(jobs, j) /\ jobs[j].status \notin {"pending", "superseded"}
            => jobs[j].attempts > 0

\* Whatever newer intent of its kind replaced row k, one that still stands
\* outranks every unsettled row older than k.
HeirStands ==
    \A j, k \in JobIds :
        /\ j < k /\ Open(jobs, j)
        /\ Live(jobs, k) /\ SameKind(jobs[k], jobs[j]) /\ jobs[k].status = "superseded"
        => \E i \in JobIds : /\ i > k /\ Live(jobs, i) /\ SameKind(jobs[i], jobs[j])
                              /\ jobs[i].status # "superseded"

\* A request that inserted a row knows it by its id.
RequestsKnow ==
    \A c \in Clients : req[c].phase = "inserted" => req[c].id \in JobIds

\* What a report read of newer intents stays true until it writes.
HeirKnown ==
    \A r \in Reports :
        report[r].phase = "fenced" /\ report[r].newer /\ Open(jobs, report[r].id)
            => NewerIntent(jobs, report[r].id)

QueueInv ==
    /\ TypeOK /\ Barrier /\ SnapshotsMatch
    /\ HandedOut /\ HeirStands /\ RequestsKnow /\ HeirKnown

\* "Once a move/delete has started, its outcome can be unknown after a
\* timeout, so it must remain an ordering barrier until recovery reaches a
\* terminal result": no newer request, claim or deletion drops it.
KeepsAttemptedLocation ==
    \A j \in JobIds :
        /\ Open(jobs, j) /\ jobs[j].op \in LocationOps /\ jobs[j].attempts > 0
        /\ Live(jobs', j)
        => jobs'[j].status # "superseded"

AttemptedLocationKept == [][KeepsAttemptedLocation]_vars

\* An intent is dropped only for a newer one of its kind that is still in the
\* queue (or was executed), or because the message itself was deleted.
DropsForHeirOnly ==
    \A j \in JobIds :
        Open(jobs, j) /\ Live(jobs', j) /\ jobs'[j].status = "superseded" =>
           \/ \E k \in JobIds : /\ k > j /\ Live(jobs', k)
                                /\ SameKind(jobs'[k], jobs'[j])
                                /\ jobs'[k].status # "superseded"
           \/ ~emails'[jobs[j].email].live

NoIntentLost == [][DropsForHeirOnly]_vars

\* An agent that lost its lease decides nothing: a report under another token
\* than the job's current one changes neither queue nor message, however far
\* the handler had come before the job was recovered and leased again.
StaleReportsIdle ==
    \A r \in Reports :
        /\ report[r].phase = "fenced" /\ report'[r].phase = "idle"
        /\ \/ ~Live(jobs, report[r].id)
           \/ jobs[report[r].id].token # report[r].token
        => UNCHANGED <<jobs, emails>>

StaleReportChangesNothing == [][StaleReportsIdle]_vars

\* When a move gives the row its new identity, every unsettled job of the row
\* has it too: none is in progress with the identity the provider has dropped.
ReidentifiesOpenJobs ==
    \A e \in Emails :
        emails'[e].ident # emails[e].ident =>
            \A j \in JobIds : Open(jobs', j) /\ jobs'[j].email = e
                                 => jobs'[j].ident = emails'[e].ident

MoveReidentifiesOpenJobs == [][ReidentifiesOpenJobs]_vars

\* The queue as the log of intents it implements: leases, tokens, retries,
\* due times and the handlers between their awaits are all gone.
IntentState(job) ==
    IF job.status = "superseded" THEN "dropped"
    ELSE IF job.status \in Terminal THEN "closed"
    ELSE IF job.attempts = 0 THEN "asked" ELSE "tried"

KindOf(op) == IF op \in LocationOps THEN "location" ELSE op

IntentOf(J, n, j) ==
    IF j > n THEN [state |-> "unasked"]
    ELSE IF ~Live(J, j) THEN [state |-> "forgotten"]
    ELSE [state |-> IntentState(J[j]), msg |-> J[j].email, kind |-> KindOf(J[j].op)]

intents == [j \in JobIds |-> IntentOf(jobs, inserted, j)]

present == {e \in Emails : emails[e].live}

Log == INSTANCE IntentLog WITH
    Messages <- Emails, Kinds <- DesiredOps \cup {"location"}, Location <- "location",
    MaxIntents <- MaxJobs, log <- intents, alive <- present

\* The queue implements the log: whatever interleaves, intents of a message are
\* tried in order, end by an outcome or by a newer intent of their kind, never
\* after a location change was tried, and vanish unsettled with their mailbox only.
ImplementsLog == Log!Spec

\* Job j is the newest flag intent of its kind: no later row was dropped from the
\* table, none is of its kind, and its message is there.
Newest(j) ==
    /\ Live(jobs, j) /\ jobs[j].op \in DesiredOps /\ emails[jobs[j].email].live
    /\ \A k \in (j + 1) .. inserted : Live(jobs, k) /\ ~SameKind(jobs[k], jobs[j])

\* The mailbox shows what intent j asked for.
Shown(j) == emails[jobs[j].email].flag[jobs[j].op] = jobs[j].want

\* The last await of a request that inserted its intent before j did.
LateRequest(j) == \E c \in Clients : ProjectDesired(c) /\ req[c].id < j

\* The success of an intent older than j, by a report that had looked for newer
\* intents before j was inserted; the provider has yet to be asked for j.
LateResult(j) ==
    /\ jobs[j].attempts = 0
    /\ \E r \in Reports : ReportApplied(r) /\ report[r].id < j /\ ~report[r].newer

\* "The newer intent owns the visible local state": however requests overlap, and
\* whatever results, recoveries and repairs of older intents come late, the newest
\* intent is shown when the provider has carried it out, and once it is shown,
\* executed or not, only the two races above can hide it.  Nothing is said of what
\* the provider has: an intent that failed is still shown, by design.
NewestIsShown ==
    \A j \in JobIds : Newest(j) /\ Newest(j)' =>
        /\ jobs[j].status # "succeeded" /\ jobs'[j].status = "succeeded" => Shown(j)'
        /\ Shown(j) => Shown(j)' \/ LateRequest(j) \/ LateResult(j)

NewestIntentShown == [][NewestIsShown]_vars
=============================================================================
