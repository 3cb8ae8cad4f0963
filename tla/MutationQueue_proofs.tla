----------------------- MODULE MutationQueue_proofs -----------------------
(***************************************************************************)
(* Theorems about the mutation queue for every set of messages, handlers,  *)
(* tokens and every bound.  The argument: no action but ClaimLease raises  *)
(* an attempt count, and ClaimLease leases only jobs that were picked; a   *)
(* picked job's elders are terminal when it is picked, terminal rows stay  *)
(* terminal, and rows inserted later are younger.                          *)
(***************************************************************************)
EXTENDS MutationQueue, TLAPS

-----------------------------------------------------------------------------
(* Type correctness.                                                        *)

\* The ways in which an action rewrites one row keep it a job.
LEMMA RowTypes ==
    ASSUME NEW job \in Job
    PROVE  /\ Superseded(job) \in Job
           /\ \A s \in Terminal : Closed(job, s) \in Job
           /\ [job EXCEPT !.status = "pending", !.token = NoToken, !.until = 0] \in Job
           /\ \A p \in Ident : [job EXCEPT !.ident = p] \in Job
<1>1. Superseded(job) \in Job
  BY DEF Superseded, Job, Terminal
<1>2. ASSUME NEW s \in Terminal PROVE Closed(job, s) \in Job
  BY DEF Closed, Job
<1>3. [job EXCEPT !.status = "pending", !.token = NoToken, !.until = 0] \in Job
  BY DEF Job, Active
<1>4. ASSUME NEW p \in Ident PROVE [job EXCEPT !.ident = p] \in Job
  BY DEF Job
<1>5. QED
  BY <1>1, <1>2, <1>3, <1>4

\* Leasing a row keeps it a job.
LEMMA LeaseType ==
    ASSUME NEW job \in Job, NEW tok \in Tokens, NEW t \in Nat
    PROVE  [job EXCEPT !.status = "processing", !.attempts = @ + 1,
                       !.token = tok, !.until = t + Lease] \in Job
<1>1. job.attempts + 1 \in Nat /\ t + Lease \in Nat
  BY ConstantsAssumption DEF Job
<1>2. QED
  BY <1>1 DEF Job, Active

\* A live job is a job.
LEMMA LiveIsJob ==
    ASSUME NEW J \in [JobIds -> Job \cup {NoJob}], NEW j \in JobIds, Live(J, j)
    PROVE  J[j] \in Job
  BY DEF Live, NoJob

\* The helpers that rewrite the whole queue keep it well typed.
LEMMA RewriteTypes ==
    ASSUME NEW J \in [JobIds -> Job \cup {NoJob}]
    PROVE  /\ \A t : Recover(J, t) \in [JobIds -> Job \cup {NoJob}]
           /\ \A kinds : CollapsePending(J, kinds) \in [JobIds -> Job \cup {NoJob}]
           /\ \A j : \A p \in Ident : Moved(J, j, p) \in [JobIds -> Job \cup {NoJob}]
<1>1. ASSUME NEW t PROVE Recover(J, t) \in [JobIds -> Job \cup {NoJob}]
  BY LiveIsJob, RowTypes DEF Recover
<1>2. ASSUME NEW kinds PROVE CollapsePending(J, kinds) \in [JobIds -> Job \cup {NoJob}]
  BY LiveIsJob, RowTypes DEF CollapsePending
<1>3. ASSUME NEW j, NEW p \in Ident PROVE Moved(J, j, p) \in [JobIds -> Job \cup {NoJob}]
  BY LiveIsJob, RowTypes DEF Moved
<1>4. QED
  BY <1>1, <1>2, <1>3

\* Writing a flag of a row.
LEMMA FlagType ==
    ASSUME NEW row \in Email, NEW o, NEW w \in {0, 1}
    PROVE  [row EXCEPT !.flag[o] = w] \in Email
<1>1. [row.flag EXCEPT ![o] = w] \in [DesiredOps -> {0, 1}]
  BY DEF Email
<1>2. QED
  BY <1>1 DEF Email

\* Removing a row, or moving it.
LEMMA RowWriteType ==
    ASSUME NEW row \in Email
    PROVE  /\ [row EXCEPT !.live = FALSE] \in Email
           /\ \A p \in Ident : [row EXCEPT !.ident = p] \in Email
<1>1. [row EXCEPT !.live = FALSE] \in Email
  BY DEF Email
<1>2. ASSUME NEW p \in Ident PROVE [row EXCEPT !.ident = p] \in Email
  BY DEF Email
<1>3. QED
  BY <1>1, <1>2

LEMMA TypeInit == Init => TypeOK
<1> SUFFICES ASSUME Init PROVE TypeOK
  OBVIOUS
<1>1. now \in 0 .. MaxNow /\ inserted \in 0 .. MaxJobs
  BY ConstantsAssumption DEF Init
<1>2. emails \in [Emails -> Email]
  BY DEF Init, Email
<1>3. QED
  BY <1>1, <1>2 DEF Init, TypeOK

LEMMA TypeRequest ==
    ASSUME TypeOK, NEW c \in Clients, RequestStep(c)
    PROVE  TypeOK'
<1> USE DEF TypeOK
<1>1. ASSUME NEW e \in Emails, NEW o \in Ops, NEW w \in {0, 1}, NEW f \in Folders,
             Load(c, e, o, w, f)
      PROVE  TypeOK'
  <2>1. o \in DesiredOps \cup LocationOps /\ emails[e].ident \in Ident
    BY ConstantsAssumption DEF Email
  <2>2. req'[c] \in Request
    BY <1>1, <2>1 DEF Load, Request
  <2>3. QED
    BY <1>1, <2>2 DEF Load
<1>2. CASE NativeWrite(c)
  <2>1. req[c].email \in Emails /\ req[c].want \in {0, 1}
    BY <1>2 DEF NativeWrite, Request, NoReq
  <2>2. emails' \in [Emails -> Email]
    <3> DEFINE row == emails[req[c].email]
               dead == [row EXCEPT !.live = FALSE]
               flagged == [row EXCEPT !.flag[req[c].op] = req[c].want]
    <3>1. row \in Email /\ dead \in Email /\ flagged \in Email
      BY <2>1, FlagType, RowWriteType
    <3>2. \/ emails' = [emails EXCEPT ![req[c].email] = dead]
          \/ emails' = [emails EXCEPT ![req[c].email] = flagged]
      BY <1>2 DEF NativeWrite
    <3>3. QED
      BY <2>1, <3>1, <3>2
  <2>3. QED
    BY <1>2, <2>2 DEF NativeWrite
<1>3. CASE InsertJob(c)
  <2>1. req[c] \in Request
    BY <1>3 DEF InsertJob, NoReq
  <2>2. inserted + 1 \in 0 .. MaxJobs /\ inserted + 1 \in JobIds /\ inserted + 1 \in Nat
    BY <1>3, ConstantsAssumption DEF InsertJob, JobIds
  <2>3. jobs'[inserted + 1] \in Job
    BY <1>3, <2>1, <2>2 DEF InsertJob, Request, Job, Active
  <2>4. jobs' \in [JobIds -> Job \cup {NoJob}]
    BY <1>3, <2>2, <2>3 DEF InsertJob
  <2>5. req'[c] \in Request
    BY <1>3, <2>1, <2>2 DEF InsertJob, Request
  <2>6. QED
    BY <1>3, <2>2, <2>4, <2>5 DEF InsertJob
<1>4. CASE SupersedeOlder(c)
  <2>1. jobs' \in [JobIds -> Job \cup {NoJob}]
    BY <1>4, LiveIsJob, RowTypes DEF SupersedeOlder
  <2>2. req'[c] \in Request \cup {NoReq}
    <3>1. req[c] \in Request
      BY <1>4 DEF SupersedeOlder, NoReq
    <3>2. QED
      BY <1>4, <3>1 DEF SupersedeOlder, Request
  <2>3. QED
    BY <1>4, <2>1, <2>2 DEF SupersedeOlder
<1>5. CASE ProjectDesired(c)
  <2>1. req[c].email \in Emails /\ req[c].want \in {0, 1}
    BY <1>5 DEF ProjectDesired, Request, NoReq
  <2>2. emails' \in [Emails -> Email]
    BY <1>5, <2>1, FlagType DEF ProjectDesired
  <2>3. QED
    BY <1>5, <2>2 DEF ProjectDesired
<1>6. QED
  BY <1>1, <1>2, <1>3, <1>4, <1>5 DEF RequestStep

LEMMA TypeClaim ==
    ASSUME TypeOK, NEW h \in Claims, ClaimStep(h)
    PROVE  TypeOK'
<1> USE DEF TypeOK
<1>1. ASSUME NEW tok \in Tokens, NEW api \in Endpoints, ClaimRecover(h, tok, api)
      PROVE  TypeOK'
  <2>1. jobs' \in [JobIds -> Job \cup {NoJob}]
    BY <1>1, RewriteTypes DEF ClaimRecover
  <2>2. claim'[h] \in ClaimCall
    BY <1>1, ConstantsAssumption DEF ClaimRecover, ClaimCall
  <2>3. QED
    BY <1>1, <2>1, <2>2 DEF ClaimRecover
<1>2. CASE ClaimSelect(h)
  <2>1. claim[h] \in ClaimCall
    BY <1>2 DEF ClaimSelect, NoClaim
  <2>2. PICK S \in SUBSET JobIds :
          claim' = [claim EXCEPT ![h] =
                      IF S = {} THEN NoClaim
                      ELSE [claim[h] EXCEPT !.phase = "selected", !.cands = S]]
    BY <1>2 DEF ClaimSelect
  <2>3. [claim[h] EXCEPT !.phase = "selected", !.cands = S] \in ClaimCall
    BY <2>1 DEF ClaimCall
  <2>4. claim'[h] \in ClaimCall \cup {NoClaim}
    BY <2>2, <2>3
  <2>5. QED
    BY <1>2, <2>2, <2>4 DEF ClaimSelect
<1>3. CASE ClaimLease(h)
  <2>0. claim[h].phase = "selected"
    BY <1>3 DEF ClaimLease
  <2>1. claim[h] \in ClaimCall
    BY <2>0 DEF NoClaim
  <2>2. jobs' \in [JobIds -> Job \cup {NoJob}]
    <3>1. claim[h].now \in Nat /\ claim[h].token \in Tokens
      BY <2>1 DEF ClaimCall
    <3>2. \A j \in JobIds : Leasable(jobs, j, claim[h].now) => jobs[j] \in Job
      BY LiveIsJob DEF Leasable
    <3>3. QED
      BY <1>3, <3>1, <3>2, LeaseType DEF ClaimLease
  <2>3. QED
    BY <1>3, <2>2 DEF ClaimLease
<1>4. QED
  BY <1>1, <1>2, <1>3 DEF ClaimStep

\* What the fence of a writing report guarantees about its records.
LEMMA HeldTypes ==
    ASSUME TypeOK, NEW r \in Reports, Held(report[r])
    PROVE  /\ report[r] \in ReportCall
           /\ report[r].id \in JobIds
           /\ report[r].job \in Job
           /\ report[r].now \in Nat
           /\ report[r].proj \in Ident
           /\ jobs[report[r].id] \in Job
           /\ jobs[report[r].id].status = "processing"
<1>1. report[r] \in ReportCall
  BY DEF TypeOK, Held, NoReport
<1>2. QED
  BY <1>1, LiveIsJob DEF Held, Fenced, TypeOK, ReportCall

LEMMA ClosedType ==
    ASSUME NEW job \in Job, NEW s \in Terminal
    PROVE  Closed(job, s) \in Job
  BY DEF Closed, Job

LEMMA TypeReport ==
    ASSUME TypeOK, NEW r \in Reports, ReportStep(r)
    PROVE  TypeOK'
<1> DEFINE R == report[r]
<1> USE DEF TypeOK
<1>0. ASSUME jobs' \in [JobIds -> Job \cup {NoJob}], emails' \in [Emails -> Email],
             ReportDone(r)
      PROVE  TypeOK'
  BY <1>0 DEF ReportDone, NoReport
<1>1. ASSUME NEW j \in JobIds, NEW tok \in Tokens, NEW v \in Verdicts, NEW p \in Ident,
             ReportRead(r, j, tok, v, p)
      PROVE  TypeOK'
  <2>1. jobs[j] \in Job
    BY <1>1, LiveIsJob DEF ReportRead
  <2>2. report'[r] \in ReportCall
    BY <1>1, <2>1 DEF ReportRead, ReportCall
  <2>3. QED
    BY <1>1, <2>2 DEF ReportRead
<1>2. CASE ReportOrder(r)
  <2>1. report[r] \in ReportCall
    BY <1>2 DEF ReportOrder, NoReport
  <2>2. NewerIntent(jobs, report[r].id) \in BOOLEAN
    BY DEF NewerIntent
  <2>3. now \in Nat
    BY ConstantsAssumption
  <2>4. [R EXCEPT !.phase = "fenced", !.newer = NewerIntent(jobs, R.id), !.now = now]
          \in ReportCall
    BY <2>1, <2>2, <2>3 DEF ReportCall
  <2>5. report' = [report EXCEPT ![r] =
          [R EXCEPT !.phase = "fenced", !.newer = NewerIntent(jobs, R.id), !.now = now]]
    BY <1>2 DEF ReportOrder
  <2>6. QED
    BY <1>2, <2>4, <2>5 DEF ReportOrder
<1>3. ASSUME NEW s \in Terminal, Held(R), CloseJob(r, s)
      PROVE  jobs' \in [JobIds -> Job \cup {NoJob}]
  BY <1>3, HeldTypes, ClosedType DEF CloseJob
<1>4. CASE ReportSuperseded(r)
  BY <1>0, <1>3, <1>4 DEF ReportSuperseded, Terminal
<1>5. CASE ReportExhausted(r)
  BY <1>0, <1>3, <1>5 DEF ReportExhausted, Terminal
<1>6. CASE ReportRetry(r)
  <2>1. PICK d \in Delays :
          jobs' = [jobs EXCEPT ![R.id].status = "pending", ![R.id].next = R.now + d,
                               ![R.id].token = NoToken, ![R.id].until = 0]
    BY <1>6 DEF ReportRetry
  <2>2. R.now + d \in Nat /\ R.id \in JobIds /\ jobs[R.id] \in Job
    BY <1>6, HeldTypes, ConstantsAssumption DEF ReportRetry
  <2>3. [jobs[R.id] EXCEPT !.status = "pending", !.next = R.now + d,
                           !.token = NoToken, !.until = 0] \in Job
    BY <2>2 DEF Job, Active
  <2>4. jobs' = [jobs EXCEPT ![R.id] =
                   [jobs[R.id] EXCEPT !.status = "pending", !.next = R.now + d,
                                      !.token = NoToken, !.until = 0]]
    BY <2>1, <2>2
  <2>5. jobs' \in [JobIds -> Job \cup {NoJob}]
    BY <2>2, <2>3, <2>4
  <2>6. QED
    BY <1>0, <1>6, <2>5 DEF ReportRetry
<1>7. CASE ReportRefused(r)
  BY <1>0, <1>3, <1>7 DEF ReportRefused, Terminal
<1>8. CASE ReportMoved(r)
  <2>1. Moved(jobs, R.id, R.proj) \in [JobIds -> Job \cup {NoJob}]
    BY <1>8, HeldTypes, RewriteTypes DEF ReportMoved
  <2>2. Closed(jobs[R.id], "succeeded") \in Job
    BY <1>8, HeldTypes, ClosedType DEF ReportMoved, Terminal
  <2>3. jobs' \in [JobIds -> Job \cup {NoJob}]
    BY <1>8, <2>1, <2>2 DEF ReportMoved
  <2>4. emails' \in [Emails -> Email]
    <3> DEFINE moved == [emails[R.job.email] EXCEPT !.ident = R.proj]
    <3>1. R.job.email \in Emails /\ R.proj \in Ident
      BY <1>8, HeldTypes DEF ReportMoved, Job
    <3>2. moved \in Email
      BY <3>1, RowWriteType
    <3>3. emails' = [emails EXCEPT ![R.job.email] = moved] \/ UNCHANGED emails
      BY <1>8 DEF ReportMoved
    <3>4. QED
      BY <3>1, <3>2, <3>3
  <2>5. QED
    BY <1>0, <1>8, <2>3, <2>4 DEF ReportMoved
<1>9. CASE ReportDeleted(r)
  <2>1. Closed(jobs[R.id], "succeeded") \in Job
    BY <1>9, HeldTypes, ClosedType DEF ReportDeleted, Terminal
  <2>2. \A k \in JobIds : Live(jobs, k) => Superseded(jobs[k]) \in Job
    BY LiveIsJob DEF Superseded, Job, Terminal
  <2>3. jobs' \in [JobIds -> Job \cup {NoJob}]
    BY <1>9, <2>1, <2>2 DEF ReportDeleted
  <2>4. emails' \in [Emails -> Email]
    <3>1. R.job.email \in Emails
      BY <1>9, HeldTypes DEF ReportDeleted, Job
    <3>2. [emails[R.job.email] EXCEPT !.live = FALSE] \in Email
      BY <3>1, RowWriteType
    <3>3. emails' = [emails EXCEPT ![R.job.email] =
                       [emails[R.job.email] EXCEPT !.live = FALSE]]
      BY <1>9 DEF ReportDeleted
    <3>4. QED
      BY <3>1, <3>2, <3>3
  <2>5. QED
    BY <1>0, <1>9, <2>3, <2>4 DEF ReportDeleted
<1>10. CASE ReportApplied(r)
  <2>1. jobs' \in [JobIds -> Job \cup {NoJob}]
    BY <1>3, <1>10 DEF ReportApplied, Terminal
  <2>2. R.job.email \in Emails /\ R.job.want \in {0, 1}
    BY <1>10, HeldTypes DEF ReportApplied, Job
  <2>3. emails' \in [Emails -> Email]
    <3>1. R.job.email \in Emails /\ emails \in [Emails -> Email]
      BY <2>2 DEF TypeOK
    <3>2. [emails[R.job.email] EXCEPT !.flag[R.job.op] = R.job.want] \in Email
      BY <2>2, <3>1, FlagType
    <3>3. \/ emails' = [emails EXCEPT ![R.job.email] = [emails[R.job.email] EXCEPT !.flag[R.job.op] = R.job.want]]
          \/ UNCHANGED emails
      BY <1>10, <3>1 DEF ReportApplied
    <3>4. QED
      BY <3>1, <3>2, <3>3
  <2>4. QED
    BY <1>0, <1>10, <2>1, <2>3 DEF ReportApplied
<1>11. CASE ReportRejected(r)
  BY <1>0, <1>11 DEF ReportRejected
<1>12. QED
  BY <1>1, <1>2, <1>4, <1>5, <1>6, <1>7, <1>8, <1>9, <1>10, <1>11 DEF ReportStep

LEMMA TypeNext == TypeOK /\ [Next]_vars => TypeOK'
<1> SUFFICES ASSUME TypeOK, [Next]_vars PROVE TypeOK'
  OBVIOUS
<1>1. CASE Prune
  BY <1>1 DEF Prune, TypeOK
<1>2. ASSUME NEW a \in Purgeable, PurgeAccount(a) PROVE TypeOK'
  <2>1. \A e \in Emails : [emails[e] EXCEPT !.live = FALSE] \in Email
    BY RowWriteType DEF TypeOK
  <2>2. emails' \in [Emails -> Email]
    BY <1>2, <2>1 DEF PurgeAccount, TypeOK
  <2>3. QED
    BY <1>2, <2>2 DEF PurgeAccount, TypeOK
<1>3. CASE Tick
  <2>1. now' \in 0 .. MaxNow
    BY <1>3, ConstantsAssumption DEF Tick, TypeOK
  <2>2. QED
    BY <1>3, <2>1 DEF Tick, TypeOK
<1>4. CASE UNCHANGED vars
  BY <1>4 DEF vars, TypeOK
<1>5. QED
  BY <1>1, <1>2, <1>3, <1>4, TypeRequest, TypeClaim, TypeReport DEF Next

\* Every row, request and handler record keeps its shape, whatever interleaves:
\* in particular a handler's snapshot is always of a job that was in the queue.
THEOREM TypeCorrect == Spec => []TypeOK
  BY TypeInit, TypeNext, PTL DEF Spec

-----------------------------------------------------------------------------
(* The ordering barrier.                                                    *)

\* From queue J to queue K no job is new, raises its attempts, changes its
\* message, operation or wanted flag, or changes a terminal status.
Settles(J, K) ==
    \A j \in JobIds : Live(K, j) =>
        /\ Live(J, j)
        /\ K[j].email = J[j].email
        /\ K[j].op = J[j].op /\ K[j].want = J[j].want
        /\ K[j].attempts = J[j].attempts
        /\ J[j].status \in Terminal => K[j].status = J[j].status

\* Every step but an INSERT and a lease only settles jobs.
SettlingStep ==
    \/ \E c \in Clients : SupersedeOlder(c)
    \/ \E h \in Claims, tok \in Tokens, api \in Endpoints : ClaimRecover(h, tok, api)
    \/ \E r \in Reports : \/ ReportSuperseded(r) \/ ReportExhausted(r)
                          \/ ReportRetry(r) \/ ReportRefused(r)
                          \/ ReportMoved(r) \/ ReportDeleted(r)
                          \/ ReportApplied(r)
    \/ Prune
    \/ \E a \in Purgeable : PurgeAccount(a)

\* A superseded or closed job keeps what Settles looks at.
LEMMA RowSettles ==
    ASSUME NEW job \in Job
    PROVE  /\ Superseded(job).status = "superseded"
           /\ Superseded(job).email = job.email
           /\ Superseded(job).op = job.op /\ Superseded(job).want = job.want
           /\ Superseded(job).attempts = job.attempts
           /\ \A s \in Terminal : /\ Closed(job, s).status = s
                                  /\ Closed(job, s).email = job.email
                                  /\ Closed(job, s).op = job.op
                                  /\ Closed(job, s).want = job.want
                                  /\ Closed(job, s).attempts = job.attempts
  BY DEF Superseded, Closed, Job

\* Closing the job a report holds only settles it.
LEMMA CloseSettles ==
    ASSUME TypeOK, NEW r \in Reports, NEW s \in Terminal, Held(report[r]), CloseJob(r, s)
    PROVE  Settles(jobs, jobs')
<1>1. report[r].id \in JobIds /\ jobs[report[r].id] \in Job
  BY HeldTypes
<1>2. jobs' = [jobs EXCEPT ![report[r].id] = Closed(jobs[report[r].id], s)]
  BY DEF CloseJob
<1>3. Live(jobs, report[r].id) /\ jobs[report[r].id].status \notin Terminal
  BY HeldTypes DEF Held, Terminal
<1>4. QED
  BY <1>1, <1>2, <1>3, RowSettles DEF Settles, Live, TypeOK

LEMMA RecoverSettles ==
    ASSUME NEW J \in [JobIds -> Job \cup {NoJob}], NEW t
    PROVE  Settles(J, Recover(J, t))
  BY LiveIsJob DEF Settles, Recover, Live, Job, NoJob, Terminal

LEMMA CollapseSettles ==
    ASSUME NEW J \in [JobIds -> Job \cup {NoJob}], NEW kinds
    PROVE  Settles(J, CollapsePending(J, kinds))
  BY LiveIsJob, RowSettles DEF Settles, CollapsePending, Replaceable, Live, Terminal

LEMMA StepSettles ==
    ASSUME TypeOK, SettlingStep
    PROVE  Settles(jobs, jobs')
<1>1. ASSUME NEW c \in Clients, SupersedeOlder(c) PROVE Settles(jobs, jobs')
  BY <1>1, LiveIsJob, RowSettles
     DEF SupersedeOlder, Replaceable, Settles, Live, Terminal, TypeOK
<1>2. ASSUME NEW h \in Claims, NEW tok \in Tokens, NEW api \in Endpoints,
             ClaimRecover(h, tok, api)
      PROVE  Settles(jobs, jobs')
  <2>1. Recover(jobs, now) \in [JobIds -> Job \cup {NoJob}]
    BY RewriteTypes DEF TypeOK
  <2>2. PICK kinds : jobs' = CollapsePending(Recover(jobs, now), kinds)
    BY <1>2 DEF ClaimRecover
  <2>3. Settles(jobs, Recover(jobs, now)) /\ Settles(Recover(jobs, now), jobs')
    BY <2>1, <2>2, RecoverSettles, CollapseSettles DEF TypeOK
  <2>4. QED
    BY <2>3 DEF Settles
<1>3. ASSUME NEW r \in Reports,
             \/ ReportSuperseded(r) \/ ReportExhausted(r) \/ ReportRefused(r)
             \/ ReportApplied(r)
      PROVE  Settles(jobs, jobs')
  BY <1>3, CloseSettles
     DEF ReportSuperseded, ReportExhausted, ReportRefused, ReportApplied, Terminal
<1>4. ASSUME NEW r \in Reports, ReportRetry(r) PROVE Settles(jobs, jobs')
  <2>1. report[r].id \in JobIds /\ jobs[report[r].id] \in Job
        /\ jobs[report[r].id].status = "processing"
    BY <1>4, HeldTypes DEF ReportRetry
  <2>2. PICK d \in Delays :
          jobs' = [jobs EXCEPT ![report[r].id].status = "pending",
                               ![report[r].id].next = report[r].now + d,
                               ![report[r].id].token = NoToken,
                               ![report[r].id].until = 0]
    BY <1>4 DEF ReportRetry
  <2>3. /\ \A j \in JobIds \ {report[r].id} : jobs'[j] = jobs[j]
        /\ jobs'[report[r].id].email = jobs[report[r].id].email
        /\ jobs'[report[r].id].op = jobs[report[r].id].op
        /\ jobs'[report[r].id].want = jobs[report[r].id].want
        /\ jobs'[report[r].id].attempts = jobs[report[r].id].attempts
    BY <2>1, <2>2 DEF Job, TypeOK
  <2>4. QED
    BY <2>1, <2>3 DEF Settles, Live, Terminal
<1>5. ASSUME NEW r \in Reports, ReportMoved(r) PROVE Settles(jobs, jobs')
  <2>1. report[r].id \in JobIds /\ jobs[report[r].id] \in Job /\ report[r].proj \in Ident
        /\ Live(jobs, report[r].id) /\ jobs[report[r].id].status \notin Terminal
    BY <1>5, HeldTypes DEF ReportMoved, Held, Terminal
  <2>2. jobs'[report[r].id] = Closed(jobs[report[r].id], "succeeded")
    BY <1>5, <2>1 DEF ReportMoved, Moved
  <2>3. \A k \in JobIds \ {report[r].id} :
           jobs'[k] = jobs[k] \/ /\ Live(jobs, k)
                                 /\ jobs'[k] = [jobs[k] EXCEPT !.ident = report[r].proj]
    BY <1>5, <2>1 DEF ReportMoved, Moved
  <2>4. \A k \in JobIds \ {report[r].id} : Live(jobs', k) =>
           /\ Live(jobs, k)
           /\ jobs'[k].email = jobs[k].email /\ jobs'[k].op = jobs[k].op
           /\ jobs'[k].want = jobs[k].want
           /\ jobs'[k].attempts = jobs[k].attempts /\ jobs'[k].status = jobs[k].status
    BY <2>3, LiveIsJob DEF Job, Live, TypeOK
  <2>5. QED
    BY <2>1, <2>2, <2>4, RowSettles DEF Settles, Terminal
<1>6. ASSUME NEW r \in Reports, ReportDeleted(r) PROVE Settles(jobs, jobs')
  <2>1. report[r].id \in JobIds /\ jobs[report[r].id] \in Job /\ Live(jobs, report[r].id)
        /\ jobs[report[r].id].status \notin Terminal
    BY <1>6, HeldTypes DEF ReportDeleted, Held, Terminal
  <2>2. jobs'[report[r].id] = Closed(jobs[report[r].id], "succeeded")
    BY <1>6, <2>1 DEF ReportDeleted
  <2>3. \A k \in JobIds \ {report[r].id} :
           \/ jobs'[k] = jobs[k]
           \/ /\ Live(jobs, k) /\ jobs[k].status = "pending"
              /\ jobs'[k] = Superseded(jobs[k])
    BY <1>6 DEF ReportDeleted
  <2>4. QED
    BY <2>1, <2>2, <2>3, LiveIsJob, RowSettles DEF Settles, Terminal, Live, TypeOK
<1>7. CASE Prune
  BY <1>7 DEF Prune, Settles, Live, NoJob
<1>8. ASSUME NEW a \in Purgeable, PurgeAccount(a) PROVE Settles(jobs, jobs')
  BY <1>8 DEF PurgeAccount, Settles, Live, NoJob
<1>9. QED
  BY <1>1, <1>2, <1>3, <1>4, <1>5, <1>6, <1>7, <1>8 DEF SettlingStep

\* Settling keeps the barrier, as long as no claim picks at the same time.
LEMMA SettlingKeepsBarrier ==
    ASSUME TypeOK, Barrier, Settles(jobs, jobs'), inserted' = inserted,
           \A h \in Claims : claim'[h].phase = "selected" => claim'[h] = claim[h]
    PROVE  Barrier'
<1>1. \A i, j \in JobIds : Older(jobs', i, j) => Older(jobs, i, j)
  BY DEF Settles, Older
<1>2. OrderingBarrier'
  BY <1>1 DEF Barrier, OrderingBarrier, Settles, Older
<1>3. PickedIsOldest'
  <2> SUFFICES ASSUME NEW h \in Claims, claim'[h].phase = "selected",
                      NEW i \in JobIds, NEW j \in claim'[h].cands, Older(jobs', i, j)
               PROVE  jobs'[i].status \in Terminal
    BY DEF PickedIsOldest
  <2>1. claim'[h] = claim[h] /\ claim[h] \in ClaimCall
    BY DEF TypeOK, NoClaim
  <2>2. j \in JobIds
    BY <2>1 DEF ClaimCall
  <2>3. jobs[i].status \in Terminal
    BY <1>1, <2>1, <2>2 DEF Barrier, PickedIsOldest
  <2>4. QED
    BY <2>3 DEF Settles, Older
<1>4. QED
  BY <1>2, <1>3 DEF Barrier, Settles

\* What a step does to the queue: settle, nothing, insert, pick or lease.
LEMMA StepKinds ==
    [Next]_vars =>
        \/ SettlingStep
        \/ jobs' = jobs /\ inserted' = inserted /\ claim' = claim
        \/ \E c \in Clients : InsertJob(c)
        \/ \E h \in Claims : ClaimSelect(h) \/ ClaimLease(h)
<1> DEFINE Same == jobs' = jobs /\ inserted' = inserted /\ claim' = claim
<1>1. ASSUME NEW c \in Clients, RequestStep(c)
      PROVE  SupersedeOlder(c) \/ InsertJob(c) \/ Same
  BY <1>1 DEF RequestStep, Load, NativeWrite, ProjectDesired
<1>2. ASSUME NEW h \in Claims, ClaimStep(h)
      PROVE  \/ \E tok \in Tokens, api \in Endpoints : ClaimRecover(h, tok, api)
             \/ ClaimSelect(h) \/ ClaimLease(h)
  BY <1>2 DEF ClaimStep
<1>3. ASSUME NEW r \in Reports, ReportStep(r)
      PROVE  \/ ReportSuperseded(r) \/ ReportExhausted(r) \/ ReportRetry(r)
             \/ ReportRefused(r) \/ ReportMoved(r) \/ ReportDeleted(r)
             \/ ReportApplied(r) \/ Same
  BY <1>3 DEF ReportStep, ReportRead, ReportOrder, ReportRejected, ReportDone
<1>4. Tick \/ UNCHANGED vars => Same
  BY DEF Tick, vars
<1>5. QED
  BY <1>1, <1>2, <1>3, <1>4 DEF Next, SettlingStep

LEMMA BarrierNext == TypeOK /\ TypeOK' /\ Barrier /\ [Next]_vars => Barrier'
<1> SUFFICES ASSUME TypeOK, TypeOK', Barrier, [Next]_vars PROVE Barrier'
  OBVIOUS
<1>1. CASE SettlingStep
  <2>1. inserted' = inserted
    BY <1>1 DEF SettlingStep, SupersedeOlder, ClaimRecover, ReportSuperseded,
       ReportExhausted, ReportRetry, ReportRefused, ReportMoved, ReportDeleted,
       ReportApplied, ReportDone, Prune, PurgeAccount
  <2>2. \A h \in Claims : claim'[h].phase = "selected" => claim'[h] = claim[h]
    <3>1. CASE claim' = claim
      BY <3>1
    <3>2. ASSUME NEW g \in Claims, NEW tok \in Tokens, NEW api \in Endpoints,
                 ClaimRecover(g, tok, api)
          PROVE  \A h \in Claims : claim'[h].phase = "selected" => claim'[h] = claim[h]
      <4>1. claim'[g].phase = "recovered" /\ \A h \in Claims \ {g} : claim'[h] = claim[h]
        BY <3>2 DEF ClaimRecover, TypeOK
      <4>2. QED
        BY <4>1
    <3>3. claim' = claim \/ \E g \in Claims, tok \in Tokens, api \in Endpoints :
                              ClaimRecover(g, tok, api)
      BY <1>1 DEF SettlingStep, SupersedeOlder, ReportSuperseded,
         ReportExhausted, ReportRetry, ReportRefused, ReportMoved, ReportDeleted,
         ReportApplied, ReportDone, Prune, PurgeAccount
    <3>4. QED
      BY <3>1, <3>2, <3>3
  <2>3. QED
    BY <1>1, <2>1, <2>2, StepSettles, SettlingKeepsBarrier
<1>2. ASSUME jobs' = jobs, inserted' = inserted, claim' = claim
      PROVE  Barrier'
  BY <1>2, SettlingKeepsBarrier DEF Settles
<1>3. ASSUME NEW c \in Clients, InsertJob(c) PROVE Barrier'
  <2>1. inserted + 1 \in JobIds /\ inserted \in Nat
    BY <1>3, ConstantsAssumption DEF InsertJob, TypeOK, JobIds
  <2>2. /\ jobs'[inserted + 1].attempts = 0
        /\ Live(jobs', inserted + 1)
        /\ \A j \in JobIds \ {inserted + 1} : jobs'[j] = jobs[j]
    BY <1>3, <2>1 DEF InsertJob, TypeOK, Live
  <2>3. \A j \in JobIds : Live(jobs, j) => j < inserted + 1
    BY <2>1 DEF Barrier, JobIds
  <2>4. \A i, j \in JobIds : Older(jobs', i, j) /\ j # inserted + 1 => Older(jobs, i, j)
    BY <2>1, <2>2, <2>3 DEF Older, Live, JobIds
  <2>5. OrderingBarrier'
    BY <2>1, <2>2, <2>4 DEF OrderingBarrier, Barrier, Older, JobIds
  <2>6. PickedIsOldest'
    <3> SUFFICES ASSUME NEW h \in Claims, claim'[h].phase = "selected",
                        NEW i \in JobIds, NEW j \in claim'[h].cands, Older(jobs', i, j)
                 PROVE  jobs'[i].status \in Terminal
      BY DEF PickedIsOldest
    <3>1. claim'[h] = claim[h]
      BY <1>3 DEF InsertJob
    <3>2. claim[h] \in ClaimCall
      BY <3>1 DEF TypeOK, NoClaim
    <3>3. j \in JobIds /\ j <= inserted
      BY <3>1, <3>2 DEF ClaimCall, Barrier
    <3>4. Older(jobs, i, j) /\ i # inserted + 1
      BY <2>1, <2>4, <3>3 DEF Older, JobIds
    <3>5. jobs[i].status \in Terminal
      BY <3>1, <3>3, <3>4 DEF Barrier, PickedIsOldest
    <3>6. QED
      BY <2>2, <3>4, <3>5
  <2>7. inserted' = inserted + 1 /\ claim' = claim
    BY <1>3 DEF InsertJob
  <2>8. \A j \in JobIds : Live(jobs', j) => j <= inserted + 1
    BY <2>1, <2>2, <2>3 DEF Live, JobIds
  <2>9. \A h \in Claims : claim[h].phase = "selected" =>
           \A j \in claim[h].cands : j <= inserted + 1
    <3> SUFFICES ASSUME NEW h \in Claims, claim[h].phase = "selected",
                        NEW j \in claim[h].cands
                 PROVE  j <= inserted + 1
      OBVIOUS
    <3>1. claim[h] \in ClaimCall
      BY DEF TypeOK, NoClaim
    <3>2. j \in JobIds /\ j <= inserted
      BY <3>1 DEF ClaimCall, Barrier
    <3>3. QED
      BY <2>1, <3>2 DEF JobIds
  <2>10. QED
    BY <2>5, <2>6, <2>7, <2>8, <2>9 DEF Barrier
<1>4. ASSUME NEW h \in Claims, ClaimSelect(h) PROVE Barrier'
  <2>1. PICK S \in SUBSET {j \in JobIds : Candidate(jobs, j, claim[h].api, claim[h].now)} :
          claim' = [claim EXCEPT ![h] =
                      IF S = {} THEN NoClaim
                      ELSE [claim[h] EXCEPT !.phase = "selected", !.cands = S]]
    BY <1>4 DEF ClaimSelect
  <2>2. claim[h] \in ClaimCall
    BY <1>4 DEF ClaimSelect, NoClaim, TypeOK
  <2>3. jobs' = jobs /\ inserted' = inserted
    BY <1>4 DEF ClaimSelect
  <2>4. claim'[h].phase = "selected" => claim'[h].cands = S
    BY <2>1, <2>2 DEF NoClaim, ClaimCall, TypeOK
  <2>5. \A g \in Claims \ {h} : claim'[g] = claim[g]
    BY <2>1 DEF TypeOK
  <2>6. \A i \in JobIds, j \in S : Older(jobs, i, j) => jobs[i].status \in Terminal
    <3> SUFFICES ASSUME NEW i \in JobIds, NEW j \in S, Older(jobs, i, j)
                 PROVE  jobs[i].status \in Terminal
      OBVIOUS
    <3>1. jobs[i].status \notin {"pending", "processing"}
      BY DEF Candidate, Older
    <3>2. jobs[i] \in Job
      BY LiveIsJob DEF Older, TypeOK
    <3>3. QED
      BY <3>1, <3>2 DEF Job, Active
  <2>7. PickedIsOldest'
    BY <2>3, <2>4, <2>5, <2>6 DEF PickedIsOldest, Barrier, Older, Live
  <2>8. \A j \in S : j <= inserted
    BY DEF Barrier, Candidate
  <2>9. OrderingBarrier'
    BY <2>3 DEF Barrier, OrderingBarrier, Older, Live
  <2>10. QED
    BY <2>3, <2>4, <2>5, <2>7, <2>8, <2>9 DEF Barrier, Live
<1>5. ASSUME NEW h \in Claims, ClaimLease(h) PROVE Barrier'
  <2>1. claim[h].phase = "selected"
    BY <1>5 DEF ClaimLease
  <2>2. claim[h] \in ClaimCall
    BY <2>1 DEF NoClaim, TypeOK
  <2>3. \A j \in JobIds :
           \/ jobs'[j] = jobs[j]
           \/ /\ j \in claim[h].cands /\ jobs[j].status = "pending"
              /\ Live(jobs, j)
              /\ jobs'[j] = [jobs[j] EXCEPT !.status = "processing",
                                            !.attempts = @ + 1,
                                            !.token = claim[h].token,
                                            !.until = claim[h].now + Lease]
    BY <1>5 DEF ClaimLease, Leasable
  <2>4. \A j \in JobIds : Live(jobs', j) => Live(jobs, j) /\ jobs'[j].email = jobs[j].email
    <3> SUFFICES ASSUME NEW j \in JobIds, Live(jobs', j)
                 PROVE  Live(jobs, j) /\ jobs'[j].email = jobs[j].email
      OBVIOUS
    <3>1. CASE jobs'[j] = jobs[j]
      BY <3>1 DEF Live
    <3>2. CASE /\ Live(jobs, j)
               /\ jobs'[j] = [jobs[j] EXCEPT !.status = "processing",
                                             !.attempts = @ + 1,
                                             !.token = claim[h].token,
                                             !.until = claim[h].now + Lease]
      <4>1. jobs[j] \in Job
        BY <3>2, LiveIsJob DEF TypeOK
      <4>2. QED
        BY <3>2, <4>1 DEF Job
    <3>3. QED
      BY <2>3, <3>1, <3>2
  <2>5. \A j \in JobIds : jobs[j].status \in Terminal => jobs'[j] = jobs[j]
    BY <2>3 DEF Terminal
  <2>6. \A i, j \in JobIds : Older(jobs', i, j) => Older(jobs, i, j)
    BY <2>4 DEF Older
  <2>7. OrderingBarrier'
    <3> SUFFICES ASSUME NEW i \in JobIds, NEW j \in JobIds, Older(jobs', i, j),
                        jobs'[j].attempts > 0
                 PROVE  jobs'[i].status \in Terminal
      BY DEF OrderingBarrier
    <3>1. jobs[i].status \in Terminal
      <4>1. CASE jobs'[j] = jobs[j]
        BY <2>6, <4>1 DEF Barrier, OrderingBarrier
      <4>2. CASE j \in claim[h].cands
        BY <2>1, <2>6, <4>2 DEF Barrier, PickedIsOldest
      <4>3. QED
        BY <2>3, <4>1, <4>2
    <3>2. QED
      BY <2>5, <3>1
  <2>8. \A g \in Claims : claim'[g].phase = "selected" => claim'[g] = claim[g]
    BY <1>5 DEF ClaimLease, NoClaim, TypeOK
  <2>9. PickedIsOldest'
    <3> SUFFICES ASSUME NEW g \in Claims, claim'[g].phase = "selected",
                        NEW i \in JobIds, NEW j \in claim'[g].cands, Older(jobs', i, j)
                 PROVE  jobs'[i].status \in Terminal
      BY DEF PickedIsOldest
    <3>1. claim'[g] = claim[g] /\ claim[g] \in ClaimCall
      BY <2>8 DEF TypeOK, NoClaim
    <3>2. j \in JobIds
      BY <3>1 DEF ClaimCall
    <3>3. jobs[i].status \in Terminal
      BY <2>6, <3>1, <3>2 DEF Barrier, PickedIsOldest
    <3>4. QED
      BY <2>5, <3>3
  <2>10. inserted' = inserted
    BY <1>5 DEF ClaimLease
  <2>11. QED
    BY <2>4, <2>7, <2>8, <2>9, <2>10 DEF Barrier
<1>6. QED
  BY <1>1, <1>2, <1>3, <1>4, <1>5, StepKinds

LEMMA BarrierInit == Init => Barrier
  BY DEF Init, Barrier, OrderingBarrier, PickedIsOldest, Older, Live, NoJob, NoClaim

\* Jobs of one message are handed out in the order they were asked for, and one
\* at a time, however many agents claim, crash, retry and report.
THEOREM OrderedExecution == Spec => []OrderingBarrier
<1>1. Init => TypeOK /\ Barrier
  BY TypeInit, BarrierInit
<1>2. (TypeOK /\ Barrier) /\ [Next]_vars => (TypeOK /\ Barrier)'
  BY TypeNext, BarrierNext
<1>3. Barrier => OrderingBarrier
  BY DEF Barrier
<1>4. QED
  BY <1>1, <1>2, <1>3, PTL DEF Spec

\* Between a claim's SELECT and its lease batch no older unsettled job appears.
THEOREM PicksStayOldest == Spec => []PickedIsOldest
<1>1. Init => TypeOK /\ Barrier
  BY TypeInit, BarrierInit
<1>2. (TypeOK /\ Barrier) /\ [Next]_vars => (TypeOK /\ Barrier)'
  BY TypeNext, BarrierNext
<1>3. Barrier => PickedIsOldest
  BY DEF Barrier
<1>4. QED
  BY <1>1, <1>2, <1>3, PTL DEF Spec

\* A handler that was overtaken by a recovery and a new lease writes nothing.
THEOREM StaleReportsAreRefused == Spec => StaleReportChangesNothing
<1>1. TypeOK /\ Next => StaleReportsIdle
  <2> SUFFICES ASSUME TypeOK, Next, NEW r \in Reports,
                      report[r].phase = "fenced", report'[r].phase = "idle",
                      ~Live(jobs, report[r].id) \/ jobs[report[r].id].token # report[r].token
               PROVE  UNCHANGED <<jobs, emails>>
    BY DEF StaleReportsIdle
  <2>1. ~Held(report[r])
    BY DEF Held, Fenced
  <2>2. report \in [Reports -> ReportCall \cup {NoReport}]
    BY DEF TypeOK
  <2>3. CASE ReportStep(r)
    <3>1. ~ReportOrder(r)
      BY DEF ReportOrder
    <3>2. ASSUME NEW j, NEW tok, NEW v, NEW p, ReportRead(r, j, tok, v, p) PROVE FALSE
      BY <3>2 DEF ReportRead
    <3>3. ReportRejected(r)
      BY <2>1, <2>3, <3>1, <3>2 DEF ReportStep, ReportSuperseded, ReportExhausted,
         ReportRetry, ReportRefused, ReportMoved, ReportDeleted, ReportApplied
    <3>4. QED
      BY <3>3 DEF ReportRejected
  <2>4. ASSUME NEW q \in Reports, q # r, ReportStep(q) PROVE report'[r] = report[r]
    <3>1. ASSUME NEW j, NEW tok, NEW v, NEW p, ReportRead(q, j, tok, v, p)
          PROVE  report'[r] = report[r]
      BY <2>2, <2>4, <3>1 DEF ReportRead
    <3>2. CASE ReportOrder(q)
      BY <2>2, <2>4, <3>2 DEF ReportOrder
    <3>3. CASE ReportDone(q)
      BY <2>2, <2>4, <3>3 DEF ReportDone
    <3>4. QED
      BY <2>4, <3>1, <3>2, <3>3 DEF ReportStep, ReportSuperseded, ReportExhausted,
         ReportRetry, ReportRefused, ReportMoved, ReportDeleted, ReportApplied, ReportRejected
  <2>5. ASSUME NEW c \in Clients, RequestStep(c) PROVE report' = report
    BY <2>5 DEF RequestStep, Load, NativeWrite, InsertJob, SupersedeOlder, ProjectDesired
  <2>6. ASSUME NEW h \in Claims, ClaimStep(h) PROVE report' = report
    BY <2>6 DEF ClaimStep, ClaimRecover, ClaimSelect, ClaimLease
  <2>7. report' # report
    OBVIOUS
  <2>8. PICK q \in Reports : ReportStep(q)
    BY <2>5, <2>6, <2>7 DEF Next, Prune, PurgeAccount, Tick
  <2>9. QED
    BY <2>3, <2>4, <2>8
<1>2. TypeOK /\ [Next]_vars => [StaleReportsIdle]_vars
  BY <1>1
<1>3. QED
  BY <1>2, TypeInit, TypeNext, PTL DEF Spec, StaleReportChangesNothing
=============================================================================
