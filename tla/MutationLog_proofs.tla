------------------------ MODULE MutationLog_proofs ------------------------
(***************************************************************************)
(* The mutation queue implements the log of intents: every step of the     *)
(* queue is a step of the log or leaves it as it is.                       *)
(*                                                                         *)
(* The difficulty is supersession.  Requests supersede in an await of      *)
(* their own, by an id that may itself have been superseded meanwhile, and *)
(* a report acts on a check for newer intents made an await earlier.  Both *)
(* are right because an intent that is replaced always leaves an heir:     *)
(* HeirStands and HeirKnown, which the log's own steps preserve.           *)
(*                                                                         *)
(* The same invariant shows that a recorded move re-identifies the jobs    *)
(* still open, and, for users whose requests on a message do not overlap,  *)
(* that the mailbox shows the last intent the provider carried out.        *)
(***************************************************************************)
EXTENDS MutationQueue_proofs, WellFoundedInduction

-----------------------------------------------------------------------------
(* Rows and the intents they stand for.                                     *)

\* A finite set of numbers has a largest element.
LEMMA LargestExists ==
    ASSUME NEW n \in Nat, NEW S \in SUBSET (1 .. n), S # {}
    PROVE  \E m \in S : \A k \in S : k <= m
<1> DEFINE T == {k \in Nat : n - k \in S}
<1>1. PICK s \in S : TRUE
  OBVIOUS
<1>2. n - s \in T
  BY <1>1, SMT
<1>3. IsWellFoundedOn(OpToRel(<, Nat), Nat)
  BY NatLessThanWellFounded
<1>4. PICK x \in T : \A y \in T : ~(<<y, x>> \in OpToRel(<, Nat))
  BY <1>2, <1>3, WFMin
<1>5. \A y \in T : ~(y < x)
  BY <1>4 DEF OpToRel
<1>6. ASSUME NEW k \in S PROVE k <= n - x
  <2>1. k \in Nat /\ n - k \in Nat /\ n - (n - k) = k
    BY SMT
  <2>2. n - k \in T
    BY <2>1
  <2>3. ~(n - k < x)
    BY <1>5, <2>2
  <2>4. QED
    BY <2>1, <2>3, SMT
<1>7. QED
  BY <1>4, <1>6

\* What an intent's state says of its row.
LEMMA StateOfRow ==
    ASSUME NEW job \in Job
    PROVE  /\ IntentState(job) \in {"asked", "tried", "closed", "dropped"}
           /\ IntentState(job) = "dropped" <=> job.status = "superseded"
           /\ IntentState(job) \in {"asked", "tried"} <=> job.status \in Active
           /\ IntentState(job) = "asked" <=> job.status \in Active /\ job.attempts = 0
           /\ IntentState(job) = "tried" <=> job.status \in Active /\ job.attempts # 0
           /\ IntentState(job) = "closed" <=> job.status \in Terminal \ {"superseded"}
  BY DEF IntentState, Job, Active, Terminal

\* Kinds of intents are the classes of SameKind.
LEMMA KindsAgree ==
    ASSUME NEW a \in Job, NEW b \in Job
    PROVE  /\ SameKind(a, b) <=> a.email = b.email /\ KindOf(a.op) = KindOf(b.op)
           /\ KindOf(a.op) = "location" <=> a.op \in LocationOps
           /\ KindOf(a.op) \in DesiredOps \cup {"location"}
  BY DEF SameKind, KindOf, Job, DesiredOps, LocationOps

\* The intent of a row that is there.
LEMMA LiveIntent ==
    ASSUME NEW J, NEW n, NEW j, Live(J, j), ~(j > n)
    PROVE  IntentOf(J, n, j) = [state |-> IntentState(J[j]), msg |-> J[j].email,
                                kind  |-> KindOf(J[j].op)]
  BY DEF IntentOf

\* What the log says of a row that is there, in the terms of the queue.
LEMMA IntentRow ==
    ASSUME TypeOK, Barrier, NEW j \in JobIds, Live(jobs, j)
    PROVE  /\ jobs[j] \in Job
           /\ ~(j > inserted)
           /\ intents[j].state = IntentState(jobs[j])
           /\ intents[j].msg = jobs[j].email
           /\ intents[j].kind = KindOf(jobs[j].op)
           /\ intents[j].state \in {"asked", "tried", "closed", "dropped"}
<1>1. intents[j] = IntentOf(jobs, inserted, j)
  BY DEF intents
<1>2. jobs[j] \in Job
  BY LiveIsJob DEF TypeOK
<1>3. ~(j > inserted)
  <2>1. j <= inserted
    BY DEF Barrier
  <2>2. inserted \in Nat /\ j \in Nat
    BY ConstantsAssumption DEF TypeOK, JobIds
  <2>3. QED
    BY <2>1, <2>2
<1>4. intents[j] = [state |-> IntentState(jobs[j]), msg |-> jobs[j].email,
                    kind  |-> KindOf(jobs[j].op)]
  BY <1>1, <1>3, LiveIntent
<1>5. IntentState(jobs[j]) \in {"asked", "tried", "closed", "dropped"}
  BY <1>2, StateOfRow
<1>6. QED
  BY <1>2, <1>3, <1>4, <1>5

\* And of a row that is not.
LEMMA IntentGone ==
    ASSUME NEW j \in JobIds, ~Live(jobs, j)
    PROVE  /\ intents[j].state = IF j > inserted THEN "unasked" ELSE "forgotten"
           /\ intents[j].state \notin {"asked", "tried", "closed", "dropped"}
  BY DEF intents, IntentOf

\* The same, about the rows of one message: who is about it, and who replaces.
LEMMA IntentsOfMessage ==
    ASSUME TypeOK, Barrier, NEW i \in JobIds, NEW j \in JobIds, Live(jobs, j)
    PROVE  /\ Log!About(intents, i, intents[j].msg)
                <=> Live(jobs, i) /\ jobs[i].email = jobs[j].email
           /\ Log!About(intents, i, intents[j].msg) /\ intents[i].kind = intents[j].kind
                <=> Live(jobs, i) /\ SameKind(jobs[i], jobs[j])
<1>1. intents[j].msg = jobs[j].email /\ intents[j].kind = KindOf(jobs[j].op)
      /\ jobs[j] \in Job
  BY IntentRow
<1>2. CASE Live(jobs, i)
  <2>1. /\ jobs[i] \in Job /\ intents[i].msg = jobs[i].email
        /\ intents[i].kind = KindOf(jobs[i].op)
        /\ intents[i].state = IntentState(jobs[i])
    BY <1>2, IntentRow
  <2>2. intents[i].state \in {"asked", "tried", "closed", "dropped"}
    BY <2>1, StateOfRow
  <2>3. Log!About(intents, i, intents[j].msg) <=> jobs[i].email = jobs[j].email
    BY <1>1, <2>1, <2>2 DEF Log!About, Log!Unsettled, Log!Settled
  <2>4. QED
    BY <1>1, <1>2, <2>1, <2>3, KindsAgree
<1>3. CASE ~Live(jobs, i)
  <2>1. intents[i].state \notin {"asked", "tried", "closed", "dropped"}
    BY <1>3, IntentGone
  <2>2. QED
    BY <1>3, <2>1 DEF Log!About, Log!Unsettled, Log!Settled
<1>4. QED
  BY <1>2, <1>3

-----------------------------------------------------------------------------
(* The queue's actions as actions of the log.                               *)

\* The rows that a step leaves alone, as far as the log can see.
Alike(J, K, j) ==
    /\ Live(J, j) <=> Live(K, j)
    /\ Live(J, j) => /\ J[j].email = K[j].email /\ J[j].op = K[j].op
                     /\ IntentState(J[j]) = IntentState(K[j])

\* Rows S come to intent state s, the others stay alike.
Brings(S, s) ==
    /\ inserted' = inserted
    /\ \A j \in JobIds \ S : Alike(jobs, jobs', j)
    /\ \A j \in S : /\ Live(jobs, j) /\ Live(jobs', j)
                    /\ jobs'[j].email = jobs[j].email /\ jobs'[j].op = jobs[j].op
                    /\ IntentState(jobs'[j]) = s

LEMMA PutStep ==
    ASSUME TypeOK, Barrier, NEW S \in SUBSET JobIds, NEW s, Brings(S, s)
    PROVE  Log!Put(S, s)
<1>1. ASSUME NEW j \in JobIds \ S
      PROVE  IntentOf(jobs', inserted', j) = IntentOf(jobs, inserted, j)
  BY <1>1 DEF Brings, Alike, IntentOf
<1>2. ASSUME NEW j \in S
      PROVE  IntentOf(jobs', inserted', j)
               = [IntentOf(jobs, inserted, j) EXCEPT !.state = s]
  <2>1. inserted' = inserted /\ ~(j > inserted)
    BY IntentRow DEF Brings
  <2>2. /\ Live(jobs, j) /\ Live(jobs', j)
        /\ jobs'[j].email = jobs[j].email /\ jobs'[j].op = jobs[j].op
        /\ IntentState(jobs'[j]) = s
    BY DEF Brings
  <2>3. IntentOf(jobs, inserted, j)
          = [state |-> IntentState(jobs[j]), msg |-> jobs[j].email,
             kind  |-> KindOf(jobs[j].op)]
    BY <2>1, <2>2, LiveIntent
  <2>4. IntentOf(jobs', inserted', j)
          = [state |-> s, msg |-> jobs[j].email, kind |-> KindOf(jobs[j].op)]
    BY <2>1, <2>2 DEF IntentOf
  <2>5. QED
    BY <2>3, <2>4
<1>3. QED
  BY <1>1, <1>2 DEF Log!Put, Log!Ids, JobIds, intents

\* Nothing moves: a stutter of the log.
LEMMA StutterStep ==
    ASSUME inserted' = inserted, \A j \in JobIds : Alike(jobs, jobs', j)
    PROVE  intents' = intents
<1>1. ASSUME NEW j \in JobIds
      PROVE  IntentOf(jobs', inserted', j) = IntentOf(jobs, inserted, j)
  BY <1>1 DEF Alike, IntentOf
<1>2. QED
  BY <1>1 DEF intents

\* Replacing rows that may be replaced, each with an heir that stands.
LEMMA DropStep ==
    ASSUME TypeOK, Barrier, NEW S \in SUBSET JobIds, Brings(S, "dropped"),
           present' = present,
           \A j \in S : /\ Open(jobs, j)
                        /\ jobs[j].op \in LocationOps => jobs[j].attempts = 0
                        /\ \E i \in JobIds \ S : /\ i > j /\ Live(jobs, i)
                                                 /\ SameKind(jobs[i], jobs[j])
                                                 /\ jobs[i].status # "superseded"
    PROVE  Log!Drop(S)
<1>1. ASSUME NEW j \in S
      PROVE  /\ intents[j].state \in Log!Unsettled
             /\ intents[j].kind = "location" => intents[j].state = "asked"
             /\ \E i \in JobIds \ S : /\ i > j
                                      /\ Log!About(intents, i, intents[j].msg)
                                      /\ intents[i].kind = intents[j].kind
                                      /\ intents[i].state # "dropped"
  <2>1. Live(jobs, j) /\ Open(jobs, j)
    BY DEF Brings
  <2>2. /\ jobs[j] \in Job /\ intents[j].state = IntentState(jobs[j])
        /\ intents[j].kind = KindOf(jobs[j].op)
    BY <2>1, IntentRow
  <2>3. intents[j].state \in Log!Unsettled
    BY <2>1, <2>2, StateOfRow DEF Open, Log!Unsettled
  <2>4. intents[j].kind = "location" => intents[j].state = "asked"
    BY <2>1, <2>2, StateOfRow, KindsAgree DEF Open
  <2>5. PICK i \in JobIds \ S : /\ i > j /\ Live(jobs, i)
                                /\ SameKind(jobs[i], jobs[j])
                                /\ jobs[i].status # "superseded"
    OBVIOUS
  <2>6. Log!About(intents, i, intents[j].msg) /\ intents[i].kind = intents[j].kind
    BY <2>1, <2>5, IntentsOfMessage
  <2>7. intents[i].state # "dropped"
    BY <2>5, IntentRow, StateOfRow
  <2>8. QED
    BY <2>3, <2>4, <2>5, <2>6, <2>7
<1>2. Log!Put(S, "dropped")
  BY PutStep
<1>3. QED
  BY <1>1, <1>2 DEF Log!Drop, Log!Ids, JobIds

\* The intent of a job that a report holds is one that was tried.
LEMMA HeldTried ==
    ASSUME TypeOK, Barrier, HandedOut, NEW r \in Reports, Held(report[r])
    PROVE  /\ report[r].id \in JobIds /\ Live(jobs, report[r].id)
           /\ jobs[report[r].id] \in Job
           /\ jobs[report[r].id].attempts > 0
           /\ intents[report[r].id].state = "tried"
<1>1. /\ report[r].id \in JobIds /\ Live(jobs, report[r].id)
      /\ jobs[report[r].id] \in Job /\ jobs[report[r].id].status = "processing"
  BY HeldTypes DEF Held
<1>2. jobs[report[r].id].attempts > 0
  BY <1>1 DEF HandedOut
<1>3. jobs[report[r].id].attempts # 0
  BY <1>1, <1>2 DEF Job
<1>4. QED
  BY <1>1, <1>2, <1>3, StateOfRow, IntentRow DEF Active

\* Closing that job with an outcome.
LEMMA CloseStep ==
    ASSUME TypeOK, Barrier, HandedOut, NEW r \in Reports, Held(report[r]),
           NEW s \in Terminal \ {"superseded"}, inserted' = inserted, present' = present,
           jobs'[report[r].id] = Closed(jobs[report[r].id], s),
           \A j \in JobIds \ {report[r].id} : Alike(jobs, jobs', j)
    PROVE  Log!Close(report[r].id)
<1> DEFINE j == report[r].id
<1>1. j \in JobIds /\ Live(jobs, j) /\ jobs[j] \in Job /\ intents[j].state = "tried"
  BY HeldTried
<1>2. /\ jobs'[j] \in Job /\ jobs'[j].status = s
      /\ jobs'[j].email = jobs[j].email /\ jobs'[j].op = jobs[j].op
  BY <1>1, RowSettles, ClosedType
<1>3. Live(jobs', j) /\ IntentState(jobs'[j]) = "closed"
  BY <1>2, StateOfRow DEF Live, Terminal
<1>4. Brings({j}, "closed")
  BY <1>1, <1>2, <1>3 DEF Brings
<1>5. Log!Put({j}, "closed")
  BY <1>1, <1>4, PutStep
<1>6. QED
  BY <1>1, <1>5 DEF Log!Close

LogStep == Log!Next \/ UNCHANGED <<intents, present>>

\* Rows and messages as they were: the log stutters.
LEMMA QuietStep ==
    ASSUME jobs' = jobs, inserted' = inserted, present' = present
    PROVE  LogStep
  BY DEF LogStep, intents

\* A write to a row that leaves it in the mailbox.
LEMMA PresentKept ==
    ASSUME TypeOK, NEW e \in Emails, NEW row \in Email, row.live = emails[e].live,
           emails' = [emails EXCEPT ![e] = row]
    PROVE  present' = present
  BY DEF present, TypeOK

LEMMA AskStep ==
    ASSUME QueueInv, NEW c \in Clients, InsertJob(c)
    PROVE  LogStep
<1> DEFINE i == inserted + 1
           R == req[c]
<1>0. TypeOK /\ Barrier
  BY DEF QueueInv
<1>1. R \in Request
  BY <1>0 DEF InsertJob, NoReq, TypeOK
<1>2. inserted \in Nat /\ i \in JobIds /\ \A j \in JobIds : (j > inserted <=> j >= i)
  BY <1>0, ConstantsAssumption DEF InsertJob, TypeOK, JobIds
<1>3. ASSUME NEW j \in JobIds PROVE (intents[j].state = "unasked") <=> j >= i
  <2>1. CASE Live(jobs, j)
    BY <1>0, <1>2, <2>1, IntentRow
  <2>2. CASE ~Live(jobs, j)
    BY <1>2, <2>2, IntentGone
  <2>3. QED
    BY <2>1, <2>2
<1>4. R.op \in DesiredOps \cup LocationOps /\ R.email \in Emails
  BY <1>1 DEF Request
<1>5. KindOf(R.op) \in DesiredOps \cup {"location"}
  BY <1>4 DEF KindOf
<1>6. /\ jobs'[i].status = "pending" /\ jobs'[i].attempts = 0
      /\ jobs'[i].email = R.email /\ jobs'[i].op = R.op
      /\ \A j \in JobIds \ {i} : jobs'[j] = jobs[j]
  BY <1>0, <1>2 DEF InsertJob, TypeOK
<1>7. IntentOf(jobs', inserted', i)
        = [state |-> "asked", msg |-> R.email, kind |-> KindOf(R.op)]
  <2>1. Live(jobs', i) /\ ~(i > inserted') /\ IntentState(jobs'[i]) = "asked"
    BY <1>2, <1>6 DEF InsertJob, Live, IntentState, Terminal
  <2>2. QED
    BY <1>6, <2>1 DEF IntentOf
<1>8. ASSUME NEW j \in JobIds \ {i}
      PROVE  IntentOf(jobs', inserted', j) = IntentOf(jobs, inserted, j)
  <2>1. (j > inserted) <=> (j > inserted')
    BY <1>2 DEF InsertJob, JobIds
  <2>2. QED
    BY <1>6, <2>1 DEF IntentOf, Live
<1>9. intents' = [intents EXCEPT ![i] = [state |-> "asked", msg |-> R.email,
                                         kind  |-> KindOf(R.op)]]
  BY <1>2, <1>7, <1>8 DEF intents
<1>10. present' = present
  BY DEF InsertJob, present
<1>11. Log!Ask(i, R.email, KindOf(R.op))
  BY <1>3, <1>9, <1>10 DEF Log!Ask, Log!Ids, JobIds
<1>12. QED
  BY <1>2, <1>4, <1>5, <1>11 DEF LogStep, Log!Next, Log!Ids, JobIds

LEMMA SupersedeStep ==
    ASSUME QueueInv, NEW c \in Clients, SupersedeOlder(c)
    PROVE  LogStep
<1> DEFINE id == req[c].id
           old == {j \in JobIds : /\ j < id /\ Live(jobs, id) /\ Live(jobs, j)
                                  /\ Replaceable(jobs[j], jobs[id])}
<1>0. TypeOK /\ Barrier /\ HeirStands /\ id \in JobIds
  BY DEF QueueInv, RequestsKnow, SupersedeOlder
<1>1. jobs' = [j \in JobIds |-> IF j \in old THEN Superseded(jobs[j]) ELSE jobs[j]]
  BY DEF SupersedeOlder
<1>2. inserted' = inserted /\ present' = present
  BY DEF SupersedeOlder, present
<1>3. Brings(old, "dropped")
  <2>1. ASSUME NEW j \in old
        PROVE  /\ Live(jobs, j) /\ Live(jobs', j)
               /\ jobs'[j].email = jobs[j].email /\ jobs'[j].op = jobs[j].op
               /\ IntentState(jobs'[j]) = "dropped"
    <3>1. jobs'[j] = Superseded(jobs[j]) /\ jobs[j] \in Job /\ Live(jobs, j)
      BY <1>0, <1>1, LiveIsJob DEF TypeOK
    <3>2. QED
      BY <3>1, RowSettles DEF Live, IntentState
  <2>2. \A j \in JobIds \ old : Alike(jobs, jobs', j)
    BY <1>1 DEF Alike, Live
  <2>3. QED
    BY <1>2, <2>1, <2>2 DEF Brings
<1>4. ASSUME NEW j \in old
      PROVE  /\ Open(jobs, j)
             /\ jobs[j].op \in LocationOps => jobs[j].attempts = 0
             /\ \E i \in JobIds \ old : /\ i > j /\ Live(jobs, i)
                                        /\ SameKind(jobs[i], jobs[j])
                                        /\ jobs[i].status # "superseded"
  <2>1. /\ j \in JobIds /\ j < id /\ Live(jobs, id) /\ Live(jobs, j)
        /\ SameKind(jobs[j], jobs[id]) /\ jobs[j].status = "pending"
        /\ jobs[id].op \in LocationOps => jobs[j].attempts = 0
    BY DEF Replaceable
  <2>2. SameKind(jobs[id], jobs[j])
    BY <2>1 DEF SameKind
  <2>3. jobs[j].op \in LocationOps => jobs[id].op \in LocationOps
    BY <2>1 DEF SameKind, DesiredOps, LocationOps
  <2>4. PICK i \in JobIds : /\ i >= id /\ Live(jobs, i) /\ SameKind(jobs[i], jobs[j])
                            /\ jobs[i].status # "superseded"
    <3>1. CASE jobs[id].status # "superseded"
      <4>1. id >= id
        BY <1>0 DEF JobIds
      <4>2. QED
        BY <1>0, <2>1, <2>2, <3>1, <4>1
    <3>2. CASE jobs[id].status = "superseded"
      <4>1. Open(jobs, j)
        BY <2>1 DEF Open, Active
      <4>2. PICK i \in JobIds : /\ i > id /\ Live(jobs, i) /\ SameKind(jobs[i], jobs[j])
                                /\ jobs[i].status # "superseded"
        BY <1>0, <2>1, <2>2, <3>2, <4>1 DEF HeirStands
      <4>3. i >= id
        BY <1>0, <4>2 DEF JobIds
      <4>4. QED
        BY <4>2, <4>3
    <3>3. QED
      BY <3>1, <3>2
  <2>5. i > j /\ i \notin old
    BY <1>0, <2>1, <2>4 DEF JobIds
  <2>6. QED
    BY <2>1, <2>3, <2>4, <2>5 DEF Open, Active
<1>5. Log!Drop(old)
  BY <1>0, <1>2, <1>3, <1>4, DropStep
<1>6. QED
  BY <1>5 DEF LogStep, Log!Next, Log!Ids, JobIds

LEMMA RequestLogStep ==
    ASSUME QueueInv, NEW c \in Clients, RequestStep(c)
    PROVE  LogStep
<1>0. TypeOK
  BY DEF QueueInv
<1>1. ASSUME NEW e \in Emails, NEW o \in Ops, NEW w \in {0, 1}, NEW f \in Folders,
             Load(c, e, o, w, f)
      PROVE  LogStep
  BY <1>1, QuietStep DEF Load, present
<1>2. CASE NativeWrite(c)
  <2> DEFINE e == req[c].email
             row == emails[e]
  <2>1. /\ e \in Emails /\ req[c].want \in {0, 1} /\ row \in Email
        /\ jobs' = jobs /\ inserted' = inserted
    BY <1>0, <1>2 DEF NativeWrite, Request, NoReq, TypeOK
  <2>2. CASE req[c].op = "delete"
    <3>1. emails' = [emails EXCEPT ![e].live = FALSE]
      BY <1>2, <2>2 DEF NativeWrite
    <3>2. present' = present \ {e}
      BY <1>0, <2>1, <3>1 DEF present, TypeOK, Email
    <3>3. intents' = intents
      BY <2>1 DEF intents
    <3>4. Log!Vanish(e)
      BY <3>2, <3>3 DEF Log!Vanish
    <3>5. QED
      BY <2>1, <3>4 DEF LogStep, Log!Next
  <2>3. CASE req[c].op # "delete"
    <3> DEFINE flagged == [row EXCEPT !.flag[req[c].op] = req[c].want]
    <3>1. flagged \in Email /\ flagged.live = row.live
      BY <2>1, FlagType DEF Email
    <3>2. emails' = [emails EXCEPT ![e] = flagged]
      BY <1>2, <2>3 DEF NativeWrite
    <3>3. present' = present
      BY <1>0, <2>1, <3>1, <3>2, PresentKept
    <3>4. QED
      BY <2>1, <3>3, QuietStep
  <2>4. QED
    BY <2>2, <2>3
<1>3. CASE ProjectDesired(c)
  <2> DEFINE e == req[c].email
             flagged == [emails[e] EXCEPT !.flag[req[c].op] = req[c].want]
  <2>1. /\ e \in Emails /\ req[c].want \in {0, 1} /\ emails[e] \in Email
        /\ jobs' = jobs /\ inserted' = inserted
    BY <1>0, <1>3 DEF ProjectDesired, Request, NoReq, TypeOK
  <2>2. flagged \in Email /\ flagged.live = emails[e].live
    BY <2>1, FlagType DEF Email
  <2>3. emails' = [emails EXCEPT ![e] = flagged] \/ emails' = emails
    BY <1>3 DEF ProjectDesired
  <2>4. present' = present
    BY <1>0, <2>1, <2>2, <2>3, PresentKept DEF present
  <2>5. QED
    BY <2>1, <2>4, QuietStep
<1>4. QED
  BY <1>1, <1>2, <1>3, AskStep, SupersedeStep DEF RequestStep

\* Recovering a lease changes nothing the log can see.
LEMMA RecoverAlike ==
    ASSUME NEW J \in [JobIds -> Job \cup {NoJob}], NEW t, NEW j \in JobIds
    PROVE  /\ Alike(J, Recover(J, t), j)
           /\ Live(J, j) => Recover(J, t)[j].attempts = J[j].attempts
           /\ Open(J, j) <=> Open(Recover(J, t), j)
           /\ J[j].status = "superseded" <=> Recover(J, t)[j].status = "superseded"
<1> DEFINE K == Recover(J, t)
<1>1. CASE K[j] = J[j]
  BY <1>1 DEF Alike, Open, Live
<1>2. CASE /\ Live(J, j) /\ J[j].status = "processing"
           /\ K[j] = [J[j] EXCEPT !.status = "pending", !.token = NoToken, !.until = 0]
  <2>1. J[j] \in Job
    BY <1>2, LiveIsJob
  <2>2. /\ K[j].status = "pending" /\ K[j].attempts = J[j].attempts
        /\ K[j].email = J[j].email /\ K[j].op = J[j].op
    BY <1>2, <2>1 DEF Job
  <2>3. IntentState(K[j]) = IntentState(J[j])
    BY <1>2, <2>2 DEF IntentState, Terminal
  <2>4. QED
    BY <1>2, <2>2, <2>3 DEF Alike, Live, Open, Active
<1>3. QED
  BY <1>1, <1>2 DEF Recover

LEMMA RecoverStep ==
    ASSUME QueueInv, NEW h \in Claims, NEW tok \in Tokens, NEW api \in Endpoints,
           ClaimRecover(h, tok, api)
    PROVE  LogStep
<1>0. TypeOK /\ Barrier
  BY DEF QueueInv
<1> DEFINE J == Recover(jobs, now)
<1>1. PICK kinds : jobs' = CollapsePending(J, kinds)
  BY DEF ClaimRecover
<1>2. inserted' = inserted /\ present' = present
  BY DEF ClaimRecover, present
<1>3. J \in [JobIds -> Job \cup {NoJob}]
  BY <1>0, RewriteTypes DEF TypeOK
<1> DEFINE Waits(k) == Live(J, k) /\ J[k].status = "pending"
           S == {j \in JobIds : /\ Live(J, j) /\ J[j].op \in kinds
                                /\ \E k \in JobIds : /\ k > j
                                                     /\ Live(J, k) /\ J[k].status = "pending"
                                                     /\ Replaceable(J[j], J[k])}
<1>4. \A j \in JobIds : jobs'[j] = IF j \in S THEN Superseded(J[j]) ELSE J[j]
  BY <1>1 DEF CollapsePending
<1>5. \A j \in JobIds : /\ Alike(jobs, J, j)
                        /\ Live(jobs, j) => J[j].attempts = jobs[j].attempts
                        /\ Open(jobs, j) <=> Open(J, j)
                        /\ jobs[j].status = "superseded" <=> J[j].status = "superseded"
  BY <1>0, RecoverAlike DEF TypeOK
<1> HIDE DEF J
<1>6. Brings(S, "dropped")
  <2>1. ASSUME NEW j \in S
        PROVE  /\ Live(jobs, j) /\ Live(jobs', j)
               /\ jobs'[j].email = jobs[j].email /\ jobs'[j].op = jobs[j].op
               /\ IntentState(jobs'[j]) = "dropped"
    <3>1. jobs'[j] = Superseded(J[j]) /\ J[j] \in Job /\ Live(J, j)
      BY <1>3, <1>4, LiveIsJob
    <3>2. Live(jobs, j) /\ J[j].email = jobs[j].email /\ J[j].op = jobs[j].op
      BY <1>5, <3>1 DEF Alike
    <3>3. QED
      BY <3>1, <3>2, RowSettles DEF Live, IntentState
  <2>2. \A j \in JobIds \ S : Alike(jobs, jobs', j)
    BY <1>4, <1>5 DEF Alike, Live
  <2>3. QED
    BY <1>2, <2>1, <2>2 DEF Brings
<1>7. ASSUME NEW j \in S
      PROVE  /\ Open(jobs, j)
             /\ jobs[j].op \in LocationOps => jobs[j].attempts = 0
             /\ \E i \in JobIds \ S : /\ i > j /\ Live(jobs, i)
                                      /\ SameKind(jobs[i], jobs[j])
                                      /\ jobs[i].status # "superseded"
  <2>1. PICK k \in JobIds : /\ k > j /\ Live(J, k) /\ J[k].status = "pending"
                            /\ Replaceable(J[j], J[k])
    OBVIOUS
  <2>2. /\ j \in JobIds /\ Live(J, j) /\ SameKind(J[k], J[j]) /\ J[j].status = "pending"
        /\ J[j].op \in LocationOps => J[j].attempts = 0
    BY <2>1 DEF Replaceable, SameKind, DesiredOps, LocationOps
  <2> DEFINE H == {i \in JobIds : /\ i > j /\ Live(J, i) /\ J[i].status = "pending"
                                  /\ SameKind(J[i], J[j])}
  <2>3. k \in H /\ H \in SUBSET (1 .. MaxJobs)
    BY <2>1, <2>2 DEF JobIds
  <2>4. PICK m \in H : \A i \in H : i <= m
    BY <2>3, LargestExists, ConstantsAssumption
  <2>5. m \notin S
    <3> SUFFICES ASSUME m \in S PROVE FALSE
      OBVIOUS
    <3>1. PICK i \in JobIds : /\ i > m /\ Live(J, i) /\ J[i].status = "pending"
                              /\ Replaceable(J[m], J[i])
      OBVIOUS
    <3>2. SameKind(J[i], J[j])
      BY <3>1 DEF Replaceable, SameKind, DesiredOps, LocationOps
    <3>3. i > j /\ ~(i <= m)
      BY <2>2, <3>1 DEF JobIds
    <3>4. QED
      BY <2>4, <3>1, <3>2, <3>3
  <2>6. Live(jobs, m) /\ jobs[m].email = J[m].email /\ jobs[m].op = J[m].op
        /\ jobs[m].status # "superseded"
    BY <1>5 DEF Alike
  <2>7. /\ Live(jobs, j) /\ jobs[j].email = J[j].email /\ jobs[j].op = J[j].op
        /\ J[j].attempts = jobs[j].attempts /\ Open(jobs, j)
    BY <1>5, <2>2 DEF Alike, Open, Active
  <2>8. SameKind(jobs[m], jobs[j])
    BY <2>6, <2>7 DEF SameKind
  <2>9. QED
    BY <2>2, <2>5, <2>6, <2>7, <2>8
<1>8. Log!Drop(S)
  BY <1>0, <1>2, <1>6, <1>7, DropStep
<1>9. QED
  BY <1>8 DEF LogStep, Log!Next, Log!Ids, JobIds

LEMMA LeaseStep ==
    ASSUME QueueInv, NEW h \in Claims, ClaimLease(h)
    PROVE  LogStep
<1>0. TypeOK /\ Barrier
  BY DEF QueueInv
<1> DEFINE C == claim[h]
           Led == {j \in JobIds : j \in C.cands /\ Leasable(jobs, j, C.now)}
           S == {j \in Led : jobs[j].attempts = 0}
<1>1. C \in ClaimCall /\ C.phase = "selected"
  <2>1. claim[h].phase = "selected"
    BY DEF ClaimLease
  <2>2. claim[h] \in ClaimCall
    BY <1>0, <2>1 DEF NoClaim, TypeOK
  <2>3. QED
    BY <2>1, <2>2
<1>2. inserted' = inserted /\ present' = present
  BY DEF ClaimLease, present
<1>3. ASSUME NEW j \in Led
      PROVE  /\ Live(jobs, j) /\ Live(jobs', j)
             /\ jobs'[j].email = jobs[j].email /\ jobs'[j].op = jobs[j].op
             /\ IntentState(jobs'[j]) = "tried"
             /\ IntentState(jobs[j]) = IF jobs[j].attempts = 0 THEN "asked" ELSE "tried"
  <2>1. Live(jobs, j) /\ jobs[j] \in Job /\ jobs[j].status = "pending"
    BY <1>0, LiveIsJob DEF Leasable, TypeOK
  <2>2. jobs'[j] = [jobs[j] EXCEPT !.status = "processing", !.attempts = @ + 1,
                                   !.token = C.token, !.until = C.now + Lease]
    BY DEF ClaimLease
  <2>3. /\ jobs'[j].status = "processing" /\ jobs'[j].attempts = jobs[j].attempts + 1
        /\ jobs'[j].email = jobs[j].email /\ jobs'[j].op = jobs[j].op
    BY <2>1, <2>2 DEF Job
  <2>4. jobs'[j].attempts # 0
    BY <2>1, <2>3 DEF Job
  <2>5. QED
    BY <2>1, <2>3, <2>4 DEF Live, IntentState, Terminal
<1>4. \A j \in JobIds \ Led : jobs'[j] = jobs[j]
  BY DEF ClaimLease
<1>5. Brings(S, "tried")
  <2>1. ASSUME NEW j \in JobIds \ S PROVE Alike(jobs, jobs', j)
    <3>1. CASE j \notin Led
      BY <1>4, <3>1 DEF Alike, Live
    <3>2. CASE j \in Led
      <4>1. jobs[j].attempts # 0
        BY <3>2
      <4>2. QED
        BY <1>3, <3>2, <4>1 DEF Alike
    <3>3. QED
      BY <3>1, <3>2
  <2>2. QED
    BY <1>2, <1>3, <2>1 DEF Brings
<1>6. ASSUME NEW i \in S
      PROVE  /\ intents[i].state = "asked"
             /\ \A j \in JobIds : j < i /\ Log!About(intents, j, intents[i].msg)
                                    => intents[j].state \in Log!Settled
  <2>1. intents[i].state = "asked" /\ Live(jobs, i)
    BY <1>0, <1>3, IntentRow
  <2>2. ASSUME NEW j \in JobIds, j < i, Log!About(intents, j, intents[i].msg)
        PROVE  intents[j].state \in Log!Settled
    <3>1. Older(jobs, j, i)
      BY <1>0, <2>1, <2>2, IntentsOfMessage DEF Older
    <3>2. jobs[j].status \in Terminal
      BY <1>0, <1>1, <3>1 DEF Barrier, PickedIsOldest
    <3>3. jobs[j] \in Job /\ intents[j].state = IntentState(jobs[j])
      BY <1>0, <3>1, IntentRow DEF Older
    <3>4. QED
      BY <3>2, <3>3, StateOfRow DEF Log!Settled
  <2>3. QED
    BY <2>1, <2>2
<1>7. Log!Put(S, "tried")
  BY <1>0, <1>5, PutStep
<1>8. Log!Try(S)
  BY <1>2, <1>6, <1>7 DEF Log!Try, Log!Ids, JobIds
<1>9. QED
  BY <1>8 DEF LogStep, Log!Next, Log!Ids, JobIds

\* A report that gives way to a newer intent.
LEMMA GiveWayStep ==
    ASSUME QueueInv, NEW r \in Reports, ReportSuperseded(r)
    PROVE  LogStep
<1> DEFINE id == report[r].id
<1>0. TypeOK /\ Barrier /\ HandedOut
  BY DEF QueueInv
<1>1. Held(report[r]) /\ CloseJob(r, "superseded") /\ report[r].newer
      /\ report[r].phase = "fenced" /\ report[r].job.op \in DesiredOps
  BY DEF ReportSuperseded, Held
<1>2. id \in JobIds /\ Live(jobs, id) /\ jobs[id] \in Job /\ Open(jobs, id)
  BY <1>0, <1>1, HeldTypes DEF Held, Open, Active
<1>3. inserted' = inserted /\ present' = present
  BY DEF ReportSuperseded, ReportDone, present
<1>4. jobs' = [jobs EXCEPT ![id] = Closed(jobs[id], "superseded")]
  BY <1>1 DEF CloseJob
<1>5. Brings({id}, "dropped")
  <2>1. \A j \in JobIds \ {id} : Alike(jobs, jobs', j)
    BY <1>4 DEF Alike, Live
  <2>2. /\ jobs'[id].status = "superseded"
        /\ jobs'[id].email = jobs[id].email /\ jobs'[id].op = jobs[id].op
    BY <1>0, <1>2, <1>4, RowSettles DEF TypeOK, Terminal
  <2>3. Live(jobs', id) /\ IntentState(jobs'[id]) = "dropped"
    BY <2>2 DEF Live, IntentState
  <2>4. QED
    BY <1>2, <1>3, <2>1, <2>2, <2>3 DEF Brings
<1>6. jobs[id].op \in DesiredOps
  BY <1>1, <1>2 DEF QueueInv, SnapshotsMatch
<1>7. NewerIntent(jobs, id)
  BY <1>1, <1>2 DEF QueueInv, HeirKnown
<1>8. \E i \in JobIds \ {id} : /\ i > id /\ Live(jobs, i)
                              /\ SameKind(jobs[i], jobs[id])
                              /\ jobs[i].status # "superseded"
  BY <1>2, <1>7 DEF NewerIntent, JobIds
<1>9. {id} \in SUBSET JobIds
  BY <1>2
<1>10. Log!Drop({id})
  BY <1>0, <1>2, <1>3, <1>5, <1>6, <1>8, <1>9, DropStep DEF DesiredOps, LocationOps
<1>11. QED
  BY <1>9, <1>10 DEF LogStep, Log!Next, Log!Ids, JobIds

\* The reports that close their job with an outcome: exhausted, refused, a flag
\* written, a message moved.
LEMMA OutcomeStep ==
    ASSUME QueueInv, NEW r \in Reports,
           \/ ReportExhausted(r) \/ ReportRefused(r)
           \/ ReportApplied(r) \/ ReportMoved(r)
    PROVE  LogStep
<1> DEFINE R == report[r]
           id == report[r].id
           e == R.job.email
<1>0. TypeOK /\ Barrier /\ HandedOut /\ Held(R)
  BY DEF QueueInv, ReportExhausted, ReportRefused, ReportApplied, ReportMoved
<1>1. /\ id \in JobIds /\ jobs[id] \in Job /\ R.job \in Job /\ R.proj \in Ident
      /\ inserted' = inserted
  BY <1>0, HeldTypes
     DEF ReportExhausted, ReportRefused, ReportApplied, ReportMoved, ReportDone
<1>2. e \in Emails /\ emails[e] \in Email /\ R.job.want \in {0, 1}
  BY <1>0, <1>1 DEF Job, TypeOK
<1>3. present' = present
  <2>1. CASE emails' = emails
    BY <2>1 DEF present
  <2>2. CASE emails' = [emails EXCEPT ![e].flag[R.job.op] = R.job.want]
    <3> DEFINE flagged == [emails[e] EXCEPT !.flag[R.job.op] = R.job.want]
    <3>1. flagged \in Email /\ flagged.live = emails[e].live
      BY <1>2, FlagType DEF Email
    <3>2. emails' = [emails EXCEPT ![e] = flagged]
      BY <2>2
    <3>3. QED
      BY <1>0, <1>2, <3>1, <3>2, PresentKept
  <2>3. CASE emails' = [emails EXCEPT ![e].ident = R.proj]
    <3> DEFINE moved == [emails[e] EXCEPT !.ident = R.proj]
    <3>1. moved \in Email /\ moved.live = emails[e].live
      BY <1>1, <1>2, RowWriteType DEF Email
    <3>2. emails' = [emails EXCEPT ![e] = moved]
      BY <2>3
    <3>3. QED
      BY <1>0, <1>2, <3>1, <3>2, PresentKept
  <2>4. QED
    BY <2>1, <2>2, <2>3
       DEF ReportExhausted, ReportRefused, ReportApplied, ReportMoved
<1>4. PICK s \in Terminal \ {"superseded"} :
         /\ jobs'[id] = Closed(jobs[id], s)
         /\ \A j \in JobIds \ {id} : Alike(jobs, jobs', j)
  <2>1. ASSUME NEW s \in Terminal \ {"superseded"}, CloseJob(r, s)
        PROVE  /\ jobs'[id] = Closed(jobs[id], s)
               /\ \A j \in JobIds \ {id} : Alike(jobs, jobs', j)
    BY <1>0, <1>1, <2>1 DEF CloseJob, Alike, Live, TypeOK
  <2>2. CASE ReportExhausted(r) \/ ReportRefused(r) \/ ReportApplied(r)
    <3>1. \E s \in Terminal \ {"superseded"} : CloseJob(r, s)
      BY <2>2 DEF ReportExhausted, ReportRefused, ReportApplied, Terminal
    <3>2. QED
      BY <2>1, <3>1
  <2>3. CASE ReportMoved(r)
    <3> DEFINE M == Moved(jobs, id, R.proj)
    <3>1. M \in [JobIds -> Job \cup {NoJob}]
      BY <1>0, <1>1, RewriteTypes DEF TypeOK
    <3>2. jobs' = [M EXCEPT ![id] = Closed(jobs[id], "succeeded")]
      BY <2>3 DEF ReportMoved
    <3>3. ASSUME NEW j \in JobIds \ {id} PROVE Alike(jobs, jobs', j)
      <4>1. jobs'[j] = M[j]
        BY <3>1, <3>2
      <4>2. CASE M[j] = jobs[j]
        BY <4>1, <4>2 DEF Alike, Live
      <4>3. CASE Live(jobs, j) /\ M[j] = [jobs[j] EXCEPT !.ident = R.proj]
        <5>1. jobs[j] \in Job
          BY <1>0, <4>3, LiveIsJob DEF TypeOK
        <5>2. /\ M[j].status = jobs[j].status /\ M[j].attempts = jobs[j].attempts
              /\ M[j].email = jobs[j].email /\ M[j].op = jobs[j].op
          BY <4>3, <5>1 DEF Job
        <5>3. QED
          BY <4>1, <4>3, <5>2 DEF Alike, Live, IntentState
      <4>4. QED
        BY <4>2, <4>3 DEF Moved
    <3>4. jobs'[id] = Closed(jobs[id], "succeeded")
      BY <1>1, <3>1, <3>2
    <3>5. QED
      BY <3>3, <3>4 DEF Terminal
  <2>4. QED
    BY <2>2, <2>3
<1>5. Log!Close(id)
  BY <1>0, <1>1, <1>3, <1>4, CloseStep
<1>6. QED
  BY <1>1, <1>5 DEF LogStep, Log!Next, Log!Ids, JobIds

LEMMA RetryStep ==
    ASSUME QueueInv, NEW r \in Reports, ReportRetry(r)
    PROVE  LogStep
<1> DEFINE id == report[r].id
<1>0. TypeOK
  BY DEF QueueInv
<1>1. /\ id \in JobIds /\ jobs[id] \in Job /\ jobs[id].status = "processing"
      /\ Live(jobs, id)
  BY <1>0, HeldTypes DEF ReportRetry, Held
<1>2. PICK d \in Delays :
         jobs' = [jobs EXCEPT ![id].status = "pending", ![id].next = report[r].now + d,
                              ![id].token = NoToken, ![id].until = 0]
  BY DEF ReportRetry
<1>3. /\ jobs'[id].status = "pending" /\ jobs'[id].attempts = jobs[id].attempts
      /\ jobs'[id].email = jobs[id].email /\ jobs'[id].op = jobs[id].op
      /\ \A j \in JobIds \ {id} : jobs'[j] = jobs[j]
  BY <1>0, <1>1, <1>2 DEF Job, TypeOK
<1>4. Alike(jobs, jobs', id)
  BY <1>1, <1>3 DEF Alike, Live, IntentState, Terminal
<1>5. \A j \in JobIds \ {id} : Alike(jobs, jobs', j)
  BY <1>3 DEF Alike, Live
<1>6. intents' = intents
  BY <1>4, <1>5, StutterStep DEF ReportRetry, ReportDone
<1>7. QED
  BY <1>6 DEF LogStep, ReportRetry, present

LEMMA DeleteStep ==
    ASSUME QueueInv, NEW r \in Reports, ReportDeleted(r)
    PROVE  LogStep
<1> DEFINE R == report[r]
           id == report[r].id
           e == R.job.email
<1>0. TypeOK /\ Barrier /\ HandedOut /\ Held(R)
  BY DEF QueueInv, ReportDeleted
<1>1. /\ id \in JobIds /\ jobs[id] \in Job /\ Live(jobs, id)
      /\ intents[id].state = "tried" /\ jobs[id].status = "processing"
  BY <1>0, HeldTypes, HeldTried
<1>2. /\ jobs[id].op = "delete" /\ jobs[id].email = e /\ e \in Emails
      /\ inserted' = inserted
  BY <1>0, <1>1, HeldTypes
     DEF QueueInv, SnapshotsMatch, ReportDeleted, ReportDone, Held, Job
<1>3. intents[id].msg = e /\ intents[id].kind = "location"
  BY <1>0, <1>1, <1>2, IntentRow DEF KindOf, LocationOps
<1>4. ASSUME NEW j \in JobIds \ {id}, Log!About(intents, j, e)
      PROVE  /\ Live(jobs, j) /\ jobs[j] \in Job /\ jobs[j].email = e
             /\ intents[j].state = IntentState(jobs[j])
             /\ intents[j].state # "tried"
             /\ intents[j].state = "asked" <=> j > id /\ jobs[j].status = "pending"
  <2>1. Live(jobs, j) /\ jobs[j].email = e
    BY <1>0, <1>1, <1>2, <1>3, <1>4, IntentsOfMessage
  <2>2. jobs[j] \in Job /\ intents[j].state = IntentState(jobs[j])
    BY <1>0, <2>1, IntentRow
  <2>3. CASE j > id
    <3>1. Older(jobs, id, j)
      BY <1>1, <1>2, <2>1, <2>3 DEF Older, JobIds
    <3>2. ~(jobs[j].attempts > 0)
      BY <1>0, <1>1, <3>1 DEF Barrier, OrderingBarrier, Terminal
    <3>3. jobs[j].attempts = 0 /\ jobs[j].status # "processing"
      BY <1>0, <2>1, <2>2, <3>2 DEF HandedOut, Job
    <3>4. QED
      BY <2>1, <2>2, <2>3, <3>3, StateOfRow DEF Active, Job
  <2>4. CASE ~(j > id)
    <3>1. Older(jobs, j, id)
      BY <1>1, <1>2, <2>1, <2>4 DEF Older, JobIds
    <3>2. jobs[id].attempts > 0
      BY <1>0, HeldTried
    <3>3. jobs[j].status \in Terminal
      BY <1>0, <1>1, <3>1, <3>2 DEF Barrier, OrderingBarrier
    <3>4. QED
      BY <2>1, <2>2, <2>4, <3>3, StateOfRow DEF Terminal, Active
  <2>5. QED
    BY <2>3, <2>4
<1>5. ASSUME NEW j \in JobIds, j = id
      PROVE  IntentOf(jobs', inserted', j) = [intents[j] EXCEPT !.state = "closed"]
  <2>1. jobs'[j] = Closed(jobs[j], "succeeded")
    BY <1>5 DEF ReportDeleted
  <2>2. /\ jobs'[j].status = "succeeded" /\ jobs'[j].email = jobs[j].email
        /\ jobs'[j].op = jobs[j].op
    BY <1>1, <1>5, <2>1, RowSettles DEF Terminal
  <2>3. Live(jobs', j) /\ IntentState(jobs'[j]) = "closed"
    BY <2>2 DEF Live, IntentState, Terminal
  <2>4. ~(j > inserted)
    BY <1>0, <1>1, <1>5, IntentRow
  <2>5. intents[j] = [state |-> IntentState(jobs[j]), msg |-> jobs[j].email,
                      kind  |-> KindOf(jobs[j].op)]
    BY <1>1, <1>5, <2>4, LiveIntent DEF intents
  <2>6. IntentOf(jobs', inserted', j)
          = [state |-> "closed", msg |-> jobs[j].email, kind |-> KindOf(jobs[j].op)]
    BY <1>2, <2>2, <2>3, <2>4 DEF IntentOf
  <2>7. QED
    BY <2>5, <2>6
<1>6. ASSUME NEW j \in JobIds \ {id}
      PROVE  IntentOf(jobs', inserted', j)
               = IF Log!About(intents, j, e) /\ intents[j].state = "asked"
                 THEN [intents[j] EXCEPT !.state = "dropped"] ELSE intents[j]
  <2> DEFINE hit == /\ j > id /\ Live(jobs, j)
                    /\ jobs[j].status = "pending" /\ jobs[j].email = e
  <2>1. jobs'[j] = IF hit THEN Superseded(jobs[j]) ELSE jobs[j]
    BY DEF ReportDeleted
  <2>2. Live(jobs, j) /\ jobs[j].email = e => Log!About(intents, j, e)
    BY <1>0, <1>1, <1>2, <1>3, IntentsOfMessage
  <2>3. hit <=> Log!About(intents, j, e) /\ intents[j].state = "asked"
    BY <1>4, <2>2
  <2>4. CASE hit
    <3>1. jobs[j] \in Job /\ ~(j > inserted)
      BY <1>0, <2>4, IntentRow
    <3>2. /\ jobs'[j].status = "superseded"
          /\ jobs'[j].email = jobs[j].email /\ jobs'[j].op = jobs[j].op
      BY <2>1, <2>4, <3>1, RowSettles
    <3>3. Live(jobs', j) /\ IntentState(jobs'[j]) = "dropped"
      BY <3>2 DEF Live, IntentState
    <3>4. intents[j] = [state |-> IntentState(jobs[j]), msg |-> jobs[j].email,
                        kind  |-> KindOf(jobs[j].op)]
      BY <2>4, <3>1, LiveIntent DEF intents
    <3>5. IntentOf(jobs', inserted', j)
            = [state |-> "dropped", msg |-> jobs[j].email, kind |-> KindOf(jobs[j].op)]
      BY <1>2, <3>1, <3>2, <3>3 DEF IntentOf
    <3>6. QED
      BY <2>3, <2>4, <3>4, <3>5
  <2>5. CASE ~hit
    <3>1. jobs'[j] = jobs[j]
      BY <2>1, <2>5
    <3>2. IntentOf(jobs', inserted', j) = intents[j]
      BY <1>2, <3>1 DEF IntentOf, Live, intents
    <3>3. QED
      BY <2>3, <2>5, <3>2
  <2>6. QED
    BY <2>4, <2>5
<1>7. intents' = [j \in JobIds |->
                    IF j = id THEN [intents[j] EXCEPT !.state = "closed"]
                    ELSE IF Log!About(intents, j, intents[id].msg)
                            /\ intents[j].state = "asked"
                         THEN [intents[j] EXCEPT !.state = "dropped"] ELSE intents[j]]
  BY <1>3, <1>5, <1>6 DEF intents
<1>8. present' = present \ {intents[id].msg}
  <2>1. emails' = [emails EXCEPT ![e].live = FALSE]
    BY DEF ReportDeleted
  <2>2. emails[e] \in Email /\ emails \in [Emails -> Email]
    BY <1>0, <1>2 DEF TypeOK
  <2>3. QED
    BY <1>2, <1>3, <2>1, <2>2 DEF present, Email
<1>9. Log!Delete(id)
  BY <1>1, <1>3, <1>4, <1>7, <1>8 DEF Log!Delete, Log!Ids, JobIds
<1>10. QED
  BY <1>1, <1>9 DEF LogStep, Log!Next, Log!Ids, JobIds

\* Rows are deleted: pruned when settled, purged with their account.
Erases(S, M) ==
    /\ inserted' = inserted /\ present' = present \ M
    /\ \A j \in JobIds \ S : jobs'[j] = jobs[j]
    /\ \A j \in S : /\ Live(jobs, j) /\ jobs'[j] = NoJob
                    /\ jobs[j].status \in Terminal \/ jobs[j].email \in M
    /\ \A j \in JobIds : Live(jobs, j) /\ jobs[j].email \in M => j \in S

LEMMA ForgetStep ==
    ASSUME TypeOK, Barrier, NEW S \in SUBSET JobIds, NEW M \in SUBSET Emails, Erases(S, M)
    PROVE  LogStep
<1>1. ASSUME NEW j \in S
      PROVE  /\ intents[j].state \in Log!Settled \cup Log!Unsettled
             /\ intents[j].state \in Log!Unsettled => intents[j].msg \in M
             /\ IntentOf(jobs', inserted', j) = Log!Forgotten
  <2>0. Live(jobs, j) /\ (jobs[j].status \in Terminal \/ jobs[j].email \in M)
    BY DEF Erases
  <2>1. /\ jobs[j] \in Job /\ ~(j > inserted) /\ intents[j].msg = jobs[j].email
        /\ intents[j].state = IntentState(jobs[j])
    BY <2>0, IntentRow
  <2>2. /\ intents[j].state \in Log!Settled \cup Log!Unsettled
        /\ intents[j].state \in Log!Unsettled => intents[j].msg \in M
    BY <2>0, <2>1, StateOfRow DEF Log!Settled, Log!Unsettled, Terminal
  <2>3. ~Live(jobs', j) /\ inserted' = inserted
    BY DEF Erases, Live, NoJob
  <2>4. QED
    BY <2>1, <2>2, <2>3 DEF IntentOf, Log!Forgotten
<1>2. ASSUME NEW j \in JobIds \ S
      PROVE  IntentOf(jobs', inserted', j) = intents[j]
  BY DEF Erases, IntentOf, intents, Live
<1>3. ASSUME NEW j \in JobIds, intents[j].state \in Log!Unsettled, intents[j].msg \in M
      PROVE  j \in S
  <2>1. Live(jobs, j)
    BY <1>3, IntentGone DEF Log!Unsettled
  <2>2. QED
    BY <1>3, <2>1, IntentRow DEF Erases
<1>4. intents' = [j \in JobIds |-> IF j \in S THEN Log!Forgotten ELSE intents[j]]
  BY <1>1, <1>2 DEF intents
<1>5. Log!Forget(S, M)
  BY <1>1, <1>3, <1>4 DEF Erases, Log!Forget, Log!Ids, JobIds
<1>6. QED
  BY <1>5 DEF LogStep, Log!Next, Log!Ids, JobIds

\* Every step of the queue is a step of the log, or one it does not see.
LEMMA QueueLogStep == QueueInv /\ [Next]_vars => LogStep
<1> SUFFICES ASSUME QueueInv, [Next]_vars PROVE LogStep
  OBVIOUS
<1>0. TypeOK /\ Barrier
  BY DEF QueueInv
<1>1. ASSUME NEW h \in Claims, ClaimStep(h) PROVE LogStep
  <2>1. CASE ClaimSelect(h)
    BY <2>1, QuietStep DEF ClaimSelect, present
  <2>2. QED
    BY <1>1, <2>1, RecoverStep, LeaseStep DEF ClaimStep
<1>2. ASSUME NEW r \in Reports, ReportStep(r) PROVE LogStep
  <2>1. ASSUME NEW j \in JobIds, NEW tok \in Tokens, NEW v \in Verdicts, NEW p \in Ident,
               ReportRead(r, j, tok, v, p)
        PROVE  LogStep
    BY <2>1, QuietStep DEF ReportRead, present
  <2>2. CASE ReportOrder(r)
    BY <2>2, QuietStep DEF ReportOrder, present
  <2>3. CASE ReportRejected(r)
    BY <2>3, QuietStep DEF ReportRejected, ReportDone, present
  <2>4. QED
    BY <1>2, <2>1, <2>2, <2>3, GiveWayStep, OutcomeStep, RetryStep, DeleteStep
       DEF ReportStep
<1>3. CASE Prune
  <2>1. PICK S \in SUBSET {j \in JobIds : Live(jobs, j) /\ jobs[j].status \in Terminal} :
           jobs' = [j \in JobIds |-> IF j \in S THEN NoJob ELSE jobs[j]]
    BY <1>3 DEF Prune
  <2>2. inserted' = inserted /\ present' = present \ {}
    BY <1>3 DEF Prune, present
  <2>3. /\ S \in SUBSET JobIds /\ {} \in SUBSET Emails
        /\ \A j \in JobIds \ S : jobs'[j] = jobs[j]
        /\ \A j \in S : Live(jobs, j) /\ jobs'[j] = NoJob /\ jobs[j].status \in Terminal
    BY <2>1
  <2>4. Erases(S, {})
    BY <2>2, <2>3 DEF Erases
  <2>5. QED
    BY <1>0, <2>3, <2>4, ForgetStep
<1>4. ASSUME NEW a \in Purgeable, PurgeAccount(a) PROVE LogStep
  <2> DEFINE S == {j \in JobIds : Live(jobs, j) /\ Account[jobs[j].email] = a}
             M == {e \in Emails : Account[e] = a}
  <2>1. jobs' = [j \in JobIds |-> IF j \in S THEN NoJob ELSE jobs[j]]
    BY <1>4 DEF PurgeAccount
  <2>2. ASSUME NEW j \in S PROVE jobs[j].email \in M
    <3>1. jobs[j] \in Job
      BY <1>0, LiveIsJob DEF TypeOK
    <3>2. QED
      BY <3>1 DEF Job
  <2>3. present' = present \ M
    <3>1. ASSUME NEW e \in Emails
          PROVE  emails'[e].live <=> emails[e].live /\ e \notin M
      <4>1. emails[e] \in Email
        BY <1>0 DEF TypeOK
      <4>2. CASE e \in M
        <5>1. emails'[e] = [emails[e] EXCEPT !.live = FALSE]
          BY <1>4, <4>2 DEF PurgeAccount
        <5>2. QED
          BY <4>1, <4>2, <5>1 DEF Email
      <4>3. CASE e \notin M
        BY <1>4, <4>3 DEF PurgeAccount
      <4>4. QED
        BY <4>2, <4>3
    <3>2. QED
      BY <3>1 DEF present
  <2>4. inserted' = inserted
    BY <1>4 DEF PurgeAccount
  <2>5. /\ S \in SUBSET JobIds /\ M \in SUBSET Emails
        /\ \A j \in JobIds \ S : jobs'[j] = jobs[j]
        /\ \A j \in S : Live(jobs, j) /\ jobs'[j] = NoJob
        /\ \A j \in JobIds : Live(jobs, j) /\ jobs[j].email \in M => j \in S
    BY <2>1
  <2>6. Erases(S, M)
    BY <2>2, <2>3, <2>4, <2>5 DEF Erases
  <2>7. QED
    BY <1>0, <2>5, <2>6, ForgetStep
<1>5. CASE Tick \/ UNCHANGED vars
  BY <1>5, QuietStep DEF Tick, vars, present
<1>6. QED
  BY <1>1, <1>2, <1>3, <1>4, <1>5, RequestLogStep DEF Next

-----------------------------------------------------------------------------
(* Heirs, in the terms of the log.                                          *)

Known == {"asked", "tried", "closed", "dropped"}

\* Intent i can stand in for intent j.
Heir(L, i, j) ==
    /\ Log!About(L, i, L[j].msg) /\ L[i].kind = L[j].kind
    /\ L[i].state # "dropped"

LogType ==
    \A j \in JobIds :
        \/ intents[j] \in [state : Known, msg : Emails, kind : DesiredOps \cup {"location"}]
        \/ intents[j] \in [state : {"unasked", "forgotten"}]

\* What was handed out comes after everything older.
LogOrder ==
    \A i, j \in JobIds :
        /\ i < j /\ intents[j].state \in {"tried", "closed"}
        /\ Log!About(intents, i, intents[j].msg)
        => intents[i].state \in Log!Settled

LogHeirs ==
    \A j, k \in JobIds :
        /\ j < k /\ intents[j].state \in Log!Unsettled
        /\ Log!About(intents, k, intents[j].msg) /\ intents[k].kind = intents[j].kind
        /\ intents[k].state = "dropped"
        => \E i \in JobIds : i > k /\ Heir(intents, i, j)

LogHeirKnown ==
    \A r \in Reports :
        LET j == report[r].id
        IN report[r].phase = "fenced" /\ report[r].newer /\ intents[j].state \in Log!Unsettled
              => \E i \in JobIds : i > j /\ Heir(intents, i, j)

LEMMA LogTyped == TypeOK /\ Barrier => LogType
<1> SUFFICES ASSUME TypeOK, Barrier, NEW j \in JobIds
             PROVE  \/ intents[j] \in [state : Known, msg : Emails,
                                       kind : DesiredOps \cup {"location"}]
                    \/ intents[j] \in [state : {"unasked", "forgotten"}]
  BY DEF LogType
<1>1. CASE Live(jobs, j)
  <2>1. jobs[j] \in Job /\ ~(j > inserted)
    BY <1>1, IntentRow
  <2>2. intents[j] = [state |-> IntentState(jobs[j]), msg |-> jobs[j].email,
                      kind  |-> KindOf(jobs[j].op)]
    BY <1>1, <2>1, LiveIntent DEF intents
  <2>3. IntentState(jobs[j]) \in Known /\ jobs[j].email \in Emails
        /\ KindOf(jobs[j].op) \in DesiredOps \cup {"location"}
    BY <2>1, StateOfRow, KindsAgree DEF Known, Job
  <2>4. QED
    BY <2>2, <2>3
<1>2. CASE ~Live(jobs, j)
  BY <1>2 DEF intents, IntentOf
<1>3. QED
  BY <1>1, <1>2

LEMMA LogOrdered == TypeOK /\ Barrier /\ HandedOut => LogOrder
<1> SUFFICES ASSUME TypeOK, Barrier, HandedOut, NEW i \in JobIds, NEW j \in JobIds,
                    i < j, intents[j].state \in {"tried", "closed"},
                    Log!About(intents, i, intents[j].msg)
             PROVE  intents[i].state \in Log!Settled
  BY DEF LogOrder
<1>1. Live(jobs, j)
  BY IntentGone
<1>2. jobs[j] \in Job /\ intents[j].state = IntentState(jobs[j])
  BY <1>1, IntentRow
<1>3. jobs[j].attempts > 0
  BY <1>1, <1>2, StateOfRow DEF HandedOut, Terminal, Active, Job
<1>4. Older(jobs, i, j)
  BY <1>1, IntentsOfMessage DEF Older
<1>5. jobs[i].status \in Terminal
  BY <1>3, <1>4 DEF Barrier, OrderingBarrier
<1>6. jobs[i] \in Job /\ intents[i].state = IntentState(jobs[i])
  BY <1>4, IntentRow DEF Older
<1>7. QED
  BY <1>5, <1>6, StateOfRow DEF Log!Settled

\* What a step of the log can have done to one intent.
LEMMA LogRow ==
    ASSUME LogType, LogStep, NEW j \in JobIds, intents'[j].state \in Known
    PROVE  \/ /\ intents[j].state \in Known
              /\ intents'[j].msg = intents[j].msg /\ intents'[j].kind = intents[j].kind
              /\ intents'[j].state \in Log!Unsettled => intents[j].state \in Log!Unsettled
           \/ /\ intents'[j].state = "asked" /\ intents[j].state = "unasked"
              /\ \A k \in JobIds : k > j => /\ intents[k].state = "unasked"
                                             /\ intents'[k] = intents[k]
<1> USE DEF Log!Ids, JobIds, Known, Log!Unsettled, Log!Settled
<1>0. \/ intents[j] \in [state : Known, msg : Emails, kind : DesiredOps \cup {"location"}]
      \/ intents[j] \in [state : {"unasked", "forgotten"}]
  BY DEF LogType
<1>1. CASE UNCHANGED <<intents, present>>
  BY <1>1
<1>2. ASSUME NEW i \in JobIds, NEW m, NEW k, Log!Ask(i, m, k)
      PROVE  \/ intents'[j] = intents[j]
             \/ /\ intents'[j].state = "asked" /\ intents[j].state = "unasked"
                /\ \A n \in JobIds : n > j => /\ intents[n].state = "unasked"
                                               /\ intents'[n] = intents[n]
  <2>1. intents' = [intents EXCEPT ![i] = [state |-> "asked", msg |-> m, kind |-> k]]
        /\ \A n \in JobIds : (intents[n].state = "unasked") <=> n >= i
    BY <1>2 DEF Log!Ask
  <2>2. /\ intents'[i] = [state |-> "asked", msg |-> m, kind |-> k]
        /\ \A n \in JobIds \ {i} : intents'[n] = intents[n]
    <3>1. DOMAIN intents = JobIds
      BY DEF intents
    <3> HIDE DEF JobIds
    <3>2. QED
      BY <2>1, <3>1
  <2>3. CASE j = i
    BY <2>1, <2>2, <2>3
  <2>4. CASE j # i
    BY <2>2, <2>4
  <2>5. QED
    BY <2>3, <2>4
<1>3. ASSUME NEW S \in SUBSET JobIds, NEW s \in {"tried", "dropped", "closed"}, Log!Put(S, s),
             \A i \in S : intents[i].state \in Log!Unsettled
      PROVE  /\ intents[j].state \in Known
             /\ intents'[j].msg = intents[j].msg /\ intents'[j].kind = intents[j].kind
             /\ intents'[j].state \in Log!Unsettled => intents[j].state \in Log!Unsettled
  <2>1. intents'[j] = IF j \in S THEN [intents[j] EXCEPT !.state = s] ELSE intents[j]
    BY <1>3 DEF Log!Put
  <2>2. QED
    BY <1>0, <1>3, <2>1
<1>4. ASSUME NEW i \in JobIds, Log!Delete(i)
      PROVE  /\ intents[j].state \in Known
             /\ intents'[j].msg = intents[j].msg /\ intents'[j].kind = intents[j].kind
             /\ intents'[j].state \in Log!Unsettled => intents[j].state \in Log!Unsettled
  <2>1. \/ intents'[j] = intents[j]
        \/ intents[j].state = "tried" /\ intents'[j] = [intents[j] EXCEPT !.state = "closed"]
        \/ intents[j].state = "asked" /\ intents'[j] = [intents[j] EXCEPT !.state = "dropped"]
    BY <1>4 DEF Log!Delete
  <2>2. QED
    BY <1>0, <2>1
<1>5. ASSUME NEW S \in SUBSET JobIds, NEW M, Log!Forget(S, M)
      PROVE  intents'[j] = intents[j]
  BY <1>5 DEF Log!Forget, Log!Forgotten
<1>6. ASSUME NEW S \in SUBSET JobIds, Log!Try(S) \/ Log!Drop(S)
      PROVE  /\ intents[j].state \in Known
             /\ intents'[j].msg = intents[j].msg /\ intents'[j].kind = intents[j].kind
             /\ intents'[j].state \in Log!Unsettled => intents[j].state \in Log!Unsettled
  BY <1>3, <1>6 DEF Log!Try, Log!Drop
<1>7. ASSUME NEW i \in JobIds, Log!Close(i)
      PROVE  /\ intents[j].state \in Known
             /\ intents'[j].msg = intents[j].msg /\ intents'[j].kind = intents[j].kind
             /\ intents'[j].state \in Log!Unsettled => intents[j].state \in Log!Unsettled
  BY <1>3, <1>7 DEF Log!Close
<1>8. ASSUME NEW m, Log!Vanish(m) PROVE intents' = intents
  BY <1>8 DEF Log!Vanish
<1>9. QED
  BY <1>1, <1>2, <1>4, <1>5, <1>6, <1>7, <1>8 DEF LogStep, Log!Next

\* An heir of an unsettled intent stands, or leaves a younger one in its place.
LEMMA HeirMoves ==
    ASSUME LogType, LogOrder, LogStep, NEW j \in JobIds, NEW i \in JobIds, i > j,
           intents[j].state \in Log!Unsettled, intents'[j].state \in Log!Unsettled,
           Heir(intents, i, j)
    PROVE  \E k \in JobIds : k >= i /\ Heir(intents', k, j)
<1> USE DEF Log!Unsettled, Log!Settled, Known
<1>1. /\ intents[i].state \in {"asked", "tried", "closed"}
      /\ intents[i].msg = intents[j].msg /\ intents[i].kind = intents[j].kind
  BY DEF Heir, Log!About
<1>2. intents'[j].msg = intents[j].msg /\ intents'[j].kind = intents[j].kind
  BY <1>1, LogRow
<1>3. CASE intents'[i].state \in {"asked", "tried", "closed"}
  <2>1. intents'[i].msg = intents[i].msg /\ intents'[i].kind = intents[i].kind
    BY <1>1, <1>3, LogRow
  <2>2. Heir(intents', i, j)
    BY <1>1, <1>2, <1>3, <2>1 DEF Heir, Log!About
  <2>3. i >= i
    BY DEF JobIds
  <2>4. QED
    BY <2>2, <2>3
<1>4. CASE intents'[i].state \notin {"asked", "tried", "closed"}
  <2>0. intents'[i] # intents[i]
    BY <1>1, <1>4
  <2>1. ASSUME NEW n \in JobIds, NEW m, NEW k, Log!Ask(n, m, k) PROVE FALSE
    <3>1. i # n
      BY <1>1, <2>1 DEF Log!Ask, Log!Ids, JobIds
    <3>2. intents'[i] = intents[i]
      BY <2>1, <3>1 DEF Log!Ask, intents
    <3>3. QED
      BY <2>0, <3>2
  <2>2. ASSUME NEW S \in SUBSET JobIds, NEW s \in {"tried", "closed"}, Log!Put(S, s)
        PROVE  FALSE
    <3>1. intents'[i] = [intents[i] EXCEPT !.state = s]
      BY <2>0, <2>2 DEF Log!Put, Log!Ids, JobIds
    <3>2. intents[i] \in [state : Known, msg : Emails, kind : DesiredOps \cup {"location"}]
      BY <1>1 DEF LogType
    <3>3. QED
      BY <1>4, <2>2, <3>1, <3>2
  <2>3. ASSUME NEW S \in SUBSET JobIds, Log!Drop(S)
        PROVE  \E k \in JobIds : k >= i /\ Heir(intents', k, j)
    <3>1. Log!Put(S, "dropped") /\ i \in S
      BY <2>0, <2>3 DEF Log!Drop, Log!Put, Log!Ids, JobIds
    <3>2. PICK k \in JobIds \ S : /\ k > i /\ Log!About(intents, k, intents[i].msg)
                                 /\ intents[k].kind = intents[i].kind
                                 /\ intents[k].state # "dropped"
      BY <2>3, <3>1 DEF Log!Drop, Log!Ids, JobIds
    <3>3. intents'[k] = intents[k]
      BY <3>1 DEF Log!Put, Log!Ids, JobIds
    <3>4. Heir(intents', k, j)
      BY <1>1, <1>2, <3>2, <3>3 DEF Heir, Log!About
    <3>5. k >= i
      BY <3>2 DEF JobIds
    <3>6. QED
      BY <3>4, <3>5
  <2>4. ASSUME NEW d \in JobIds, Log!Delete(d) PROVE FALSE
    <3>1. \A n \in JobIds : intents'[n] =
             IF n = d THEN [intents[n] EXCEPT !.state = "closed"]
             ELSE IF Log!About(intents, n, intents[d].msg) /\ intents[n].state = "asked"
                  THEN [intents[n] EXCEPT !.state = "dropped"] ELSE intents[n]
      BY <2>4 DEF Log!Delete, Log!Ids, JobIds
    <3>2. \A n \in {i, j} : intents[n] \in [state : Known, msg : Emails,
                                           kind  : DesiredOps \cup {"location"}]
      BY <1>1 DEF LogType
    <3>3. i # d
      BY <1>4, <3>1, <3>2
    <3>4. Log!About(intents, i, intents[d].msg)
      BY <2>0, <3>1, <3>3
    <3>5. Log!About(intents, j, intents[d].msg)
      BY <1>1, <3>4 DEF Log!About
    <3>6. j # d
      BY <3>1, <3>2
    <3>7. intents[j].state = "asked"
      BY <2>4, <3>5, <3>6 DEF Log!Delete, Log!Ids, JobIds
    <3>8. intents'[j] = [intents[j] EXCEPT !.state = "dropped"]
      BY <3>1, <3>5, <3>6, <3>7
    <3>9. QED
      BY <3>2, <3>8
  <2>5. ASSUME NEW S \in SUBSET JobIds, NEW M, Log!Forget(S, M) PROVE FALSE
    <3>1. i \in S
      BY <2>0, <2>5 DEF Log!Forget, Log!Ids, JobIds
    <3>2. j \notin S
      <4>1. j \in S => intents'[j] = Log!Forgotten
        BY <2>5 DEF Log!Forget, Log!Ids, JobIds
      <4>2. QED
        BY <4>1 DEF Log!Forgotten
    <3>3. CASE intents[i].state = "closed"
      <4>1. j < i /\ Log!About(intents, j, intents[i].msg)
        BY <1>1 DEF Log!About, JobIds
      <4>2. intents[j].state \in Log!Settled
        BY <3>3, <4>1 DEF LogOrder
      <4>3. QED
        BY <4>2
    <3>4. CASE intents[i].state \in {"asked", "tried"}
      <4>1. intents[i].msg \in M
        BY <2>5, <3>1, <3>4 DEF Log!Forget, Log!Ids, JobIds
      <4>2. j \in S
        BY <1>1, <2>5, <4>1 DEF Log!Forget, Log!Ids, JobIds
      <4>3. QED
        BY <3>2, <4>2
    <3>5. QED
      BY <1>1, <3>3, <3>4
  <2>6. ASSUME NEW S \in SUBSET JobIds, Log!Try(S) PROVE FALSE
    BY <2>2, <2>6 DEF Log!Try
  <2>7. ASSUME NEW n \in JobIds, Log!Close(n) PROVE FALSE
    BY <2>2, <2>7 DEF Log!Close
  <2>8. ASSUME NEW m, Log!Vanish(m) PROVE FALSE
    BY <2>0, <2>8 DEF Log!Vanish
  <2>9. QED
    BY <2>0, <2>1, <2>3, <2>4, <2>5, <2>6, <2>7, <2>8
       DEF LogStep, Log!Next, Log!Ids, JobIds
<1>5. QED
  BY <1>3, <1>4

LEMMA HeirRows ==
    ASSUME TypeOK, Barrier, NEW i \in JobIds, NEW j \in JobIds, Live(jobs, j)
    PROVE  Heir(intents, i, j) <=> /\ Live(jobs, i) /\ SameKind(jobs[i], jobs[j])
                                   /\ jobs[i].status # "superseded"
<1>1. Live(jobs, i) => (intents[i].state = "dropped" <=> jobs[i].status = "superseded")
  BY IntentRow, StateOfRow
<1>2. QED
  BY <1>1, IntentsOfMessage DEF Heir

LEMMA OpenRow ==
    ASSUME TypeOK, Barrier, NEW j \in JobIds
    PROVE  Open(jobs, j) <=> intents[j].state \in Log!Unsettled
<1>1. CASE Live(jobs, j)
  BY <1>1, IntentRow, StateOfRow DEF Open, Log!Unsettled
<1>2. CASE ~Live(jobs, j)
  BY <1>2, IntentGone DEF Open, Live, Active, Log!Unsettled
<1>3. QED
  BY <1>1, <1>2

Inductive ==
    /\ TypeOK /\ Barrier /\ SnapshotsMatch /\ HandedOut /\ RequestsKnow
    /\ LogHeirs /\ LogHeirKnown

\* The heirs of the log are the heirs of the queue.
LEMMA InductiveStrong == Inductive => QueueInv
<1> SUFFICES ASSUME Inductive PROVE HeirStands /\ HeirKnown
  BY DEF Inductive, QueueInv
<1>0. TypeOK /\ Barrier
  BY DEF Inductive
<1>1. HeirStands
  <2> SUFFICES ASSUME NEW j \in JobIds, NEW k \in JobIds, j < k, Open(jobs, j),
                      Live(jobs, k), SameKind(jobs[k], jobs[j]),
                      jobs[k].status = "superseded"
               PROVE  \E i \in JobIds : /\ i > k /\ Live(jobs, i)
                                        /\ SameKind(jobs[i], jobs[j])
                                        /\ jobs[i].status # "superseded"
    BY DEF HeirStands
  <2>1. Live(jobs, j)
    BY DEF Open, Live, Active
  <2>2. intents[j].state \in Log!Unsettled
    BY <1>0, OpenRow
  <2>3. Log!About(intents, k, intents[j].msg) /\ intents[k].kind = intents[j].kind
    BY <1>0, <2>1, IntentsOfMessage
  <2>4. intents[k].state = "dropped"
    BY <1>0, IntentRow, StateOfRow
  <2>5. PICK i \in JobIds : i > k /\ Heir(intents, i, j)
    BY <2>2, <2>3, <2>4 DEF Inductive, LogHeirs
  <2>6. QED
    BY <1>0, <2>1, <2>5, HeirRows
<1>2. HeirKnown
  <2> SUFFICES ASSUME NEW r \in Reports, report[r].phase = "fenced", report[r].newer,
                      Open(jobs, report[r].id)
               PROVE  NewerIntent(jobs, report[r].id)
    BY DEF HeirKnown
  <2> DEFINE j == report[r].id
  <2>1. report[r] \in ReportCall
    BY <1>0 DEF TypeOK, NoReport
  <2>2. j \in JobIds /\ Live(jobs, j)
    BY <2>1 DEF ReportCall, Open, Live, Active
  <2>3. intents[j].state \in Log!Unsettled
    BY <1>0, <2>2, OpenRow
  <2>4. PICK i \in JobIds : i > j /\ Heir(intents, i, j)
    BY <2>3 DEF Inductive, LogHeirKnown
  <2>5. QED
    BY <1>0, <2>2, <2>4, HeirRows DEF NewerIntent
<1>3. QED
  BY <1>1, <1>2

LEMMA HeirsNext ==
    ASSUME LogType, LogOrder, LogStep, LogHeirs PROVE LogHeirs'
<1> SUFFICES ASSUME NEW j \in JobIds, NEW k \in JobIds, j < k,
                    intents'[j].state \in Log!Unsettled,
                    Log!About(intents', k, intents'[j].msg),
                    intents'[k].kind = intents'[j].kind,
                    intents'[k].state = "dropped"
             PROVE  \E i \in JobIds : i > k /\ Heir(intents', i, j)
  BY DEF LogHeirs, Heir, Log!About, Log!Unsettled, Log!Settled
<1> USE DEF Log!Unsettled, Log!Settled, Known
<1>1. /\ intents[k].state \in {"asked", "tried", "dropped", "closed"}
      /\ intents'[k].msg = intents[k].msg /\ intents'[k].kind = intents[k].kind
  BY LogRow
<1>2. /\ intents[j].state \in Log!Unsettled
      /\ intents'[j].msg = intents[j].msg /\ intents'[j].kind = intents[j].kind
  <2>1. k > j
    BY DEF JobIds
  <2>2. QED
    BY <1>1, <2>1, LogRow
<1>3. Log!About(intents, k, intents[j].msg) /\ intents[k].kind = intents[j].kind
  BY <1>1, <1>2 DEF Log!About
<1>4. CASE intents[k].state = "dropped"
  <2>1. PICK i \in JobIds : i > k /\ Heir(intents, i, j)
    BY <1>2, <1>3, <1>4 DEF LogHeirs
  <2>2. PICK n \in JobIds : n >= i /\ Heir(intents', n, j)
    <3>1. i > j
      BY <2>1 DEF JobIds
    <3>2. QED
      BY <1>2, <2>1, <3>1, HeirMoves
  <2>3. n > k
    BY <2>1, <2>2 DEF JobIds
  <2>4. QED
    BY <2>2, <2>3
<1>5. CASE intents[k].state # "dropped"
  <2>1. Heir(intents, k, j) /\ k > j
    BY <1>3, <1>5 DEF Heir, JobIds
  <2>2. PICK n \in JobIds : n >= k /\ Heir(intents', n, j)
    BY <1>2, <2>1, HeirMoves
  <2>3. n # k
    BY <2>2 DEF Heir
  <2>4. n > k
    BY <2>2, <2>3 DEF JobIds
  <2>5. QED
    BY <2>2, <2>4
<1>6. QED
  BY <1>4, <1>5

\* A report changes only in its own steps, and learns of newer intents in one.
LEMMA ReportChange ==
    ASSUME TypeOK, [Next]_vars, NEW r \in Reports
    PROVE  \/ report'[r] = report[r]
           \/ report'[r].phase = "idle"
           \/ \E j \in JobIds, tok \in Tokens, v \in Verdicts, p \in Ident :
                ReportRead(r, j, tok, v, p)
           \/ ReportOrder(r)
<1>1. CASE report' = report
  BY <1>1
<1>2. ASSUME NEW q \in Reports, ReportStep(q)
      PROVE  \/ report'[r] = report[r]
             \/ report'[r].phase = "idle"
             \/ \E j \in JobIds, tok \in Tokens, v \in Verdicts, p \in Ident :
                  ReportRead(r, j, tok, v, p)
             \/ ReportOrder(r)
  <2>1. CASE r = q
    <3>1. ReportDone(q) => report'[r].phase = "idle"
      BY <2>1 DEF ReportDone, NoReport, TypeOK
    <3>2. \/ ReportDone(q) \/ ReportOrder(q)
          \/ \E j \in JobIds, tok \in Tokens, v \in Verdicts, p \in Ident :
                ReportRead(q, j, tok, v, p)
      BY <1>2 DEF ReportStep, ReportSuperseded, ReportExhausted, ReportRetry,
         ReportRefused, ReportMoved, ReportDeleted, ReportApplied, ReportRejected
    <3>3. QED
      BY <2>1, <3>1, <3>2
  <2>2. CASE r # q
    <3>1. \E x : report' = [report EXCEPT ![q] = x]
      BY <1>2 DEF ReportStep, ReportRead, ReportOrder, ReportSuperseded, ReportExhausted,
         ReportRetry, ReportRefused, ReportMoved, ReportDeleted, ReportApplied,
         ReportRejected, ReportDone
    <3>2. QED
      BY <2>2, <3>1 DEF TypeOK
  <2>3. QED
    BY <2>1, <2>2
<1>3. ASSUME NEW c \in Clients, RequestStep(c) PROVE report' = report
  BY <1>3 DEF RequestStep, Load, NativeWrite, InsertJob, SupersedeOlder, ProjectDesired
<1>4. ASSUME NEW h \in Claims, ClaimStep(h) PROVE report' = report
  BY <1>4 DEF ClaimStep, ClaimRecover, ClaimSelect, ClaimLease
<1>5. Prune \/ (\E a \in Purgeable : PurgeAccount(a)) \/ Tick \/ UNCHANGED vars
        => report' = report
  BY DEF Prune, PurgeAccount, Tick, vars
<1>6. QED
  BY <1>1, <1>2, <1>3, <1>4, <1>5 DEF Next

\* Leasing keeps a job's message, operation and wanted flag, and counts an attempt.
LEMMA LeaseRow ==
    ASSUME TypeOK, NEW h \in Claims, ClaimLease(h), NEW j \in JobIds, Live(jobs', j)
    PROVE  /\ Live(jobs, j)
           /\ jobs'[j].email = jobs[j].email /\ jobs'[j].op = jobs[j].op
           /\ jobs'[j].want = jobs[j].want
           /\ jobs'[j] = jobs[j] \/ jobs'[j].attempts > 0
<1>1. \/ jobs'[j] = jobs[j]
      \/ /\ Live(jobs, j)
         /\ jobs'[j] = [jobs[j] EXCEPT !.status = "processing", !.attempts = @ + 1,
                                       !.token = claim[h].token,
                                       !.until = claim[h].now + Lease]
  BY DEF ClaimLease, Leasable
<1>2. CASE jobs'[j] = jobs[j]
  BY <1>2 DEF Live
<1>3. CASE jobs'[j] # jobs[j]
  <2>1. jobs[j] \in Job
    BY <1>1, <1>3, LiveIsJob DEF TypeOK
  <2>2. /\ jobs'[j].email = jobs[j].email /\ jobs'[j].op = jobs[j].op
        /\ jobs'[j].want = jobs[j].want
        /\ jobs'[j].attempts = jobs[j].attempts + 1
    BY <1>1, <1>3, <2>1 DEF Job
  <2>3. jobs'[j].attempts > 0
    BY <2>1, <2>2 DEF Job
  <2>4. QED
    BY <1>1, <1>3, <2>2, <2>3
<1>4. QED
  BY <1>2, <1>3

\* A row that was inserted keeps its message, operation and wanted flag while
\* it is there.
LEMMA RowKept ==
    ASSUME TypeOK, [Next]_vars, NEW j \in JobIds, j <= inserted, Live(jobs', j)
    PROVE  /\ Live(jobs, j)
           /\ jobs'[j].email = jobs[j].email /\ jobs'[j].op = jobs[j].op
           /\ jobs'[j].want = jobs[j].want
<1>1. CASE SettlingStep
  BY <1>1, StepSettles DEF Settles
<1>2. CASE jobs' = jobs
  BY <1>2
<1>3. ASSUME NEW c \in Clients, InsertJob(c) PROVE jobs'[j] = jobs[j]
  <2>1. j # inserted + 1
    BY ConstantsAssumption DEF JobIds, TypeOK
  <2>2. QED
    BY <1>3, <2>1 DEF InsertJob, TypeOK
<1>4. ASSUME NEW h \in Claims, ClaimSelect(h) PROVE jobs' = jobs
  BY <1>4 DEF ClaimSelect
<1>5. QED
  BY <1>1, <1>2, <1>3, <1>4, LeaseRow, StepKinds DEF Live

LEMMA InsertedGrows ==
    ASSUME TypeOK, [Next]_vars
    PROVE  inserted' = inserted \/ inserted' = inserted + 1
<1>1. SettlingStep => inserted' = inserted
  BY DEF SettlingStep, SupersedeOlder, ClaimRecover, ReportSuperseded,
     ReportExhausted, ReportRetry, ReportRefused, ReportMoved, ReportDeleted,
     ReportApplied, ReportDone, Prune, PurgeAccount
<1>2. QED
  BY <1>1, StepKinds DEF InsertJob, ClaimSelect, ClaimLease

LEMMA SnapshotsNext ==
    ASSUME TypeOK, Barrier, SnapshotsMatch, [Next]_vars
    PROVE  SnapshotsMatch'
<1> SUFFICES ASSUME NEW r \in Reports, report'[r].phase # "idle"
             PROVE  /\ report'[r].id <= inserted'
                    /\ Live(jobs', report'[r].id) =>
                          /\ jobs'[report'[r].id].op = report'[r].job.op
                          /\ jobs'[report'[r].id].email = report'[r].job.email
                          /\ jobs'[report'[r].id].want = report'[r].job.want
  BY DEF SnapshotsMatch, Live
<1> DEFINE id == report'[r].id
<1>1. /\ id \in JobIds /\ id <= inserted
      /\ Live(jobs, id) => /\ jobs[id].op = report'[r].job.op
                           /\ jobs[id].email = report'[r].job.email
                           /\ jobs[id].want = report'[r].job.want
  <2>1. CASE report'[r] = report[r]
    <3>1. report[r] \in ReportCall
      BY <2>1 DEF TypeOK, NoReport
    <3>2. QED
      BY <2>1, <3>1 DEF ReportCall, SnapshotsMatch
  <2>2. ASSUME NEW j \in JobIds, NEW tok \in Tokens, NEW v \in Verdicts, NEW p \in Ident,
               ReportRead(r, j, tok, v, p)
        PROVE  /\ id \in JobIds /\ id <= inserted
               /\ Live(jobs, id) => /\ jobs[id].op = report'[r].job.op
                                    /\ jobs[id].email = report'[r].job.email
                                    /\ jobs[id].want = report'[r].job.want
                           /\ jobs[id].want = report'[r].job.want
    <3>1. report'[r].id = j /\ report'[r].job = jobs[j] /\ Live(jobs, j)
      BY <2>2 DEF ReportRead, TypeOK
    <3>2. QED
      BY <3>1 DEF Barrier
  <2>3. CASE ReportOrder(r)
    <3>1. report[r] \in ReportCall /\ report[r].phase = "read"
      BY <2>3 DEF ReportOrder, TypeOK, NoReport
    <3>2. report'[r].id = report[r].id /\ report'[r].job = report[r].job
      BY <2>3, <3>1 DEF ReportOrder, ReportCall, TypeOK
    <3>3. QED
      BY <3>1, <3>2 DEF ReportCall, SnapshotsMatch
  <2>4. QED
    BY <2>1, <2>2, <2>3, ReportChange
<1>2. id <= inserted'
  <2>1. inserted \in Nat
    BY ConstantsAssumption DEF TypeOK
  <2>2. QED
    BY <1>1, <2>1, InsertedGrows DEF JobIds
<1>3. QED
  BY <1>1, <1>2, RowKept

LEMMA HeirKnownNext ==
    ASSUME Inductive, LogStep, [Next]_vars
    PROVE  LogHeirKnown'
<1>0. TypeOK /\ Barrier /\ SnapshotsMatch /\ LogType /\ LogOrder
  BY LogTyped, LogOrdered DEF Inductive
<1> SUFFICES ASSUME NEW r \in Reports, report'[r].phase = "fenced", report'[r].newer,
                    intents'[report'[r].id].state \in Log!Unsettled
             PROVE  \E i \in JobIds : i > report'[r].id /\ Heir(intents', i, report'[r].id)
  BY DEF LogHeirKnown, Heir, Log!About, Log!Unsettled, Log!Settled
<1> DEFINE id == report'[r].id
<1>1. CASE report'[r] = report[r]
  <2>1. report[r] \in ReportCall
    BY <1>0, <1>1 DEF TypeOK, NoReport
  <2>2. id \in JobIds /\ id <= inserted
    BY <1>0, <1>1, <2>1 DEF ReportCall, SnapshotsMatch
  <2>3. intents[id].state # "unasked"
    <3>1. ~(id > inserted)
      BY <1>0, <2>2, ConstantsAssumption DEF JobIds, TypeOK
    <3>2. CASE Live(jobs, id)
      BY <1>0, <2>2, <3>2, IntentRow
    <3>3. CASE ~Live(jobs, id)
      BY <2>2, <3>1, <3>3, IntentGone
    <3>4. QED
      BY <3>2, <3>3
  <2>4. intents[id].state \in Log!Unsettled
    BY <1>0, <2>2, <2>3, LogRow DEF Log!Unsettled, Known
  <2>5. PICK i \in JobIds : i > id /\ Heir(intents, i, id)
    BY <1>1, <2>4 DEF Inductive, LogHeirKnown
  <2>6. PICK n \in JobIds : n >= i /\ Heir(intents', n, id)
    BY <1>0, <2>2, <2>4, <2>5, HeirMoves
  <2>7. n > id
    BY <2>2, <2>5, <2>6 DEF JobIds
  <2>8. QED
    BY <2>6, <2>7
<1>2. CASE ReportOrder(r)
  <2>1. report[r] \in ReportCall
    BY <1>0, <1>2 DEF ReportOrder, TypeOK, NoReport
  <2>2. /\ id = report[r].id /\ id \in JobIds
        /\ report'[r].newer = NewerIntent(jobs, id)
    BY <1>0, <1>2, <2>1 DEF ReportOrder, ReportCall, TypeOK
  <2>3. intents' = intents
    BY <1>2 DEF ReportOrder, intents
  <2>4. PICK i \in JobIds : /\ i > id /\ Live(jobs, id) /\ Live(jobs, i)
                            /\ SameKind(jobs[i], jobs[id])
                            /\ jobs[i].status # "superseded"
    BY <2>2 DEF NewerIntent
  <2>5. Heir(intents, i, id)
    BY <1>0, <2>2, <2>4, HeirRows
  <2>6. QED
    BY <2>3, <2>4, <2>5 DEF Heir, Log!About
<1>3. ASSUME NEW j \in JobIds, NEW tok \in Tokens, NEW v \in Verdicts, NEW p \in Ident,
             ReportRead(r, j, tok, v, p)
      PROVE  FALSE
  BY <1>0, <1>3 DEF ReportRead, TypeOK
<1>4. QED
  BY <1>0, <1>1, <1>2, <1>3, ReportChange

\* Settling never hands out: what is in progress or closed afterwards was in
\* progress or closed before.
LEMMA SettlingHandsOutNothing ==
    ASSUME TypeOK, SettlingStep, NEW j \in JobIds, Live(jobs', j),
           jobs'[j].status \notin {"pending", "superseded"}
    PROVE  jobs[j].status \notin {"pending", "superseded"}
<1>1. ASSUME NEW c \in Clients, SupersedeOlder(c)
      PROVE  jobs'[j] = jobs[j]
  <2> DEFINE id == req[c].id
             old == {i \in JobIds : /\ i < id /\ Live(jobs, id) /\ Live(jobs, i)
                                    /\ Replaceable(jobs[i], jobs[id])}
  <2>0. jobs' = [i \in JobIds |-> IF i \in old THEN Superseded(jobs[i]) ELSE jobs[i]]
    BY <1>1 DEF SupersedeOlder
  <2>1. jobs'[j] = jobs[j] \/ (Live(jobs, j) /\ jobs'[j] = Superseded(jobs[j]))
    BY <2>0
  <2>2. QED
    BY <2>1, LiveIsJob, RowSettles DEF TypeOK
<1>2. ASSUME NEW h \in Claims, NEW tok \in Tokens, NEW api \in Endpoints,
             ClaimRecover(h, tok, api)
      PROVE  jobs[j].status \notin {"pending", "superseded"}
  <2> DEFINE J == Recover(jobs, now)
  <2>1. J \in [JobIds -> Job \cup {NoJob}]
    BY RewriteTypes DEF TypeOK
  <2>2. jobs'[j] = J[j] \/ (Live(J, j) /\ jobs'[j] = Superseded(J[j]))
    <3>1. PICK kinds : jobs' = CollapsePending(J, kinds)
      BY <1>2 DEF ClaimRecover
    <3> HIDE DEF J
    <3>2. QED
      BY <3>1 DEF CollapsePending
  <2>3. jobs'[j] = J[j]
    BY <2>1, <2>2, LiveIsJob, RowSettles
  <2>4. J[j] = jobs[j] \/ /\ Live(jobs, j)
                          /\ J[j] = [jobs[j] EXCEPT !.status = "pending",
                                                    !.token = NoToken, !.until = 0]
    BY DEF Recover
  <2>5. CASE J[j] = jobs[j]
    BY <2>3, <2>5
  <2>6. CASE /\ Live(jobs, j)
             /\ J[j] = [jobs[j] EXCEPT !.status = "pending",
                                       !.token = NoToken, !.until = 0]
    <3>1. jobs[j] \in Job
      BY <2>6, LiveIsJob DEF TypeOK
    <3>2. J[j].status = "pending"
      BY <2>6, <3>1 DEF Job
    <3>3. QED
      BY <2>3, <3>2
  <2>7. QED
    BY <2>4, <2>5, <2>6
<1>3. ASSUME NEW r \in Reports, Held(report[r]),
             jobs'[j] = jobs[j] \/ j = report[r].id
      PROVE  jobs[j].status \notin {"pending", "superseded"}
  BY <1>3, HeldTypes
<1>4. ASSUME NEW r \in Reports,
             \/ ReportSuperseded(r) \/ ReportExhausted(r) \/ ReportRetry(r)
             \/ ReportRefused(r) \/ ReportApplied(r)
      PROVE  Held(report[r]) /\ (jobs'[j] = jobs[j] \/ j = report[r].id)
  <2>1. Held(report[r])
    BY <1>4 DEF ReportSuperseded, ReportExhausted, ReportRetry, ReportRefused, ReportApplied
  <2>2. j # report[r].id => jobs'[j] = jobs[j]
    <3>1. ASSUME NEW s, CloseJob(r, s), j # report[r].id PROVE jobs'[j] = jobs[j]
      BY <3>1 DEF CloseJob, TypeOK
    <3>2. ReportRetry(r) /\ j # report[r].id => jobs'[j] = jobs[j]
      BY DEF ReportRetry, TypeOK
    <3>3. QED
      BY <1>4, <3>1, <3>2
         DEF ReportSuperseded, ReportExhausted, ReportRefused, ReportApplied
  <2>3. QED
    BY <2>1, <2>2
<1>5. ASSUME NEW r \in Reports, ReportMoved(r) \/ ReportDeleted(r)
      PROVE  jobs[j].status \notin {"pending", "superseded"}
  <2>1. Held(report[r])
    BY <1>5 DEF ReportMoved, ReportDeleted
  <2>2. CASE j = report[r].id
    BY <1>3, <2>1, <2>2
  <2>3. CASE j # report[r].id
    <3>1. report[r].id \in JobIds /\ report[r].proj \in Ident
      BY <2>1, HeldTypes
    <3>2. \/ jobs'[j] = jobs[j]
          \/ /\ Live(jobs, j)
             /\ jobs'[j] \in {[jobs[j] EXCEPT !.ident = report[r].proj],
                              Superseded(jobs[j])}
      <4>1. CASE ReportMoved(r)
        <5>1. Moved(jobs, report[r].id, report[r].proj) \in [JobIds -> Job \cup {NoJob}]
          BY <3>1, RewriteTypes DEF TypeOK
        <5>2. jobs'[j] = Moved(jobs, report[r].id, report[r].proj)[j]
          BY <2>3, <4>1, <5>1 DEF ReportMoved
        <5>3. QED
          BY <5>2 DEF Moved
      <4>2. CASE ReportDeleted(r)
        BY <2>3, <4>2 DEF ReportDeleted
      <4>3. QED
        BY <1>5, <4>1, <4>2
    <3>3. QED
      BY <3>2, LiveIsJob, RowSettles DEF Job, TypeOK
  <2>4. QED
    BY <2>2, <2>3
<1>6. CASE Prune \/ \E a \in Purgeable : PurgeAccount(a)
  <2>1. jobs'[j] = jobs[j] \/ jobs'[j] = NoJob
    BY <1>6 DEF Prune, PurgeAccount
  <2>2. QED
    BY <2>1 DEF Live, NoJob
<1>7. QED
  BY <1>1, <1>2, <1>3, <1>4, <1>5, <1>6 DEF SettlingStep

LEMMA HandedOutNext ==
    ASSUME TypeOK, HandedOut, [Next]_vars
    PROVE  HandedOut'
<1> SUFFICES ASSUME NEW j \in JobIds, Live(jobs', j),
                    jobs'[j].status \notin {"pending", "superseded"}
             PROVE  jobs'[j].attempts > 0
  BY DEF HandedOut, Live
<1>1. CASE jobs'[j] = jobs[j]
  BY <1>1 DEF HandedOut, Live
<1>2. CASE SettlingStep
  <2>1. Live(jobs, j) /\ jobs'[j].attempts = jobs[j].attempts
    BY <1>2, StepSettles DEF Settles
  <2>2. jobs[j].status \notin {"pending", "superseded"}
    BY <1>2, SettlingHandsOutNothing
  <2>3. QED
    BY <2>1, <2>2 DEF HandedOut
<1>3. ASSUME NEW c \in Clients, InsertJob(c) PROVE jobs'[j] = jobs[j]
  <2>1. j # inserted + 1
    <3>1. j = inserted + 1 => jobs'[j].status = "pending"
      BY <1>3 DEF InsertJob, TypeOK
    <3>2. QED
      BY <3>1
  <2>2. QED
    BY <1>3, <2>1 DEF InsertJob, TypeOK
<1>4. ASSUME NEW h \in Claims, ClaimSelect(h) PROVE jobs'[j] = jobs[j]
  BY <1>4 DEF ClaimSelect
<1>5. QED
  BY <1>1, <1>2, <1>3, <1>4, LeaseRow, StepKinds

LEMMA RequestsNext ==
    ASSUME TypeOK, RequestsKnow, [Next]_vars
    PROVE  RequestsKnow'
<1>1. CASE req' = req
  BY <1>1 DEF RequestsKnow
<1>2. ASSUME NEW c \in Clients, RequestStep(c) PROVE RequestsKnow'
  <2>1. \A d \in Clients \ {c} : req'[d] = req[d]
    <3>1. ASSUME NEW e \in Emails, NEW o \in Ops, NEW w \in {0, 1}, NEW f \in Folders,
                 Load(c, e, o, w, f)
          PROVE  \A d \in Clients \ {c} : req'[d] = req[d]
      BY <3>1 DEF Load, TypeOK
    <3>2. CASE InsertJob(c)
      BY <3>2 DEF InsertJob, TypeOK
    <3>3. CASE NativeWrite(c) \/ ProjectDesired(c)
      BY <3>3 DEF NativeWrite, ProjectDesired, TypeOK
    <3>4. CASE SupersedeOlder(c)
      BY <3>4 DEF SupersedeOlder, TypeOK
    <3>5. QED
      BY <1>2, <3>1, <3>2, <3>3, <3>4 DEF RequestStep
  <2>2. req'[c].phase = "inserted" => req'[c].id \in JobIds
    <3>1. CASE InsertJob(c)
      <4>1. req[c] \in Request
        BY <3>1 DEF InsertJob, NoReq, TypeOK
      <4>2. req'[c].id = inserted + 1
        BY <3>1, <4>1 DEF InsertJob, Request, TypeOK
      <4>3. inserted + 1 \in JobIds
        BY <3>1, ConstantsAssumption DEF InsertJob, TypeOK, JobIds
      <4>4. QED
        BY <4>2, <4>3
    <3>2. CASE SupersedeOlder(c)
      <4>1. req[c] \in Request
        BY <3>2 DEF SupersedeOlder, NoReq, TypeOK
      <4>2. req'[c].phase # "inserted"
        BY <3>2, <4>1 DEF SupersedeOlder, NoReq, Request, TypeOK
      <4>3. QED
        BY <4>2
    <3>3. CASE NativeWrite(c) \/ ProjectDesired(c)
      BY <3>3 DEF NativeWrite, ProjectDesired, NoReq, TypeOK
    <3>4. ASSUME NEW e \in Emails, NEW o \in Ops, NEW w \in {0, 1}, NEW f \in Folders,
                 Load(c, e, o, w, f)
          PROVE  req'[c].phase # "inserted"
      BY <3>4 DEF Load, TypeOK
    <3>5. QED
      BY <1>2, <3>1, <3>2, <3>3, <3>4 DEF RequestStep
  <2>3. QED
    BY <2>1, <2>2 DEF RequestsKnow
<1>3. ASSUME NEW h \in Claims, ClaimStep(h) PROVE req' = req
  BY <1>3 DEF ClaimStep, ClaimRecover, ClaimSelect, ClaimLease
<1>4. ASSUME NEW r \in Reports, ReportStep(r) PROVE req' = req
  BY <1>4 DEF ReportStep, ReportRead, ReportOrder, ReportSuperseded, ReportExhausted,
     ReportRetry, ReportRefused, ReportMoved, ReportDeleted, ReportApplied,
     ReportRejected, ReportDone
<1>5. Prune \/ (\E a \in Purgeable : PurgeAccount(a)) \/ Tick \/ UNCHANGED vars
        => req' = req
  BY DEF Prune, PurgeAccount, Tick, vars
<1>6. QED
  BY <1>1, <1>2, <1>3, <1>4, <1>5 DEF Next

-----------------------------------------------------------------------------
(* The theorems.                                                            *)

LEMMA InductiveInit == Init => Inductive /\ Log!Init
<1> SUFFICES ASSUME Init PROVE Inductive /\ Log!Init
  OBVIOUS
<1>1. TypeOK /\ Barrier
  BY TypeInit, BarrierInit
<1>2. SnapshotsMatch /\ HandedOut /\ RequestsKnow
  BY DEF Init, SnapshotsMatch, HandedOut, RequestsKnow, Live, NoJob, NoReport, NoReq
<1>3. intents = [j \in JobIds |-> [state |-> "unasked"]]
  <2>1. \A j \in JobIds : j > inserted
    BY DEF Init, JobIds
  <2>2. QED
    BY <2>1 DEF intents, IntentOf
<1>4. LogHeirs /\ LogHeirKnown
  <2>1. LogHeirs
    BY <1>3 DEF LogHeirs, Log!Unsettled
  <2>2. LogHeirKnown
    BY DEF Init, LogHeirKnown, NoReport
  <2>3. QED
    BY <2>1, <2>2
<1>5. present = Emails
  BY DEF Init, present
<1>6. Log!Init
  BY <1>3, <1>5 DEF Log!Init, Log!Ids, Log!Unasked, JobIds
<1>7. QED
  BY <1>1, <1>2, <1>4, <1>6 DEF Inductive

LEMMA InductiveNext == Inductive /\ [Next]_vars => Inductive' /\ LogStep
<1> SUFFICES ASSUME Inductive, [Next]_vars PROVE Inductive' /\ LogStep
  OBVIOUS
<1>1. TypeOK' /\ Barrier'
  BY TypeNext, BarrierNext DEF Inductive
<1>2. LogStep
  BY InductiveStrong, QueueLogStep
<1>3. SnapshotsMatch' /\ HandedOut' /\ RequestsKnow'
  BY SnapshotsNext, HandedOutNext, RequestsNext DEF Inductive
<1>4. LogHeirs'
  BY <1>2, LogTyped, LogOrdered, HeirsNext DEF Inductive
<1>5. LogHeirKnown'
  BY <1>2, HeirKnownNext
<1>6. QED
  BY <1>1, <1>2, <1>3, <1>4, <1>5 DEF Inductive

\* The queue implements the log of intents: a refinement for every set of
\* messages, users, agents and tokens.
THEOREM QueueImplementsLog == Spec => ImplementsLog
<1>1. LogStep => [Log!Next]_<<intents, present>>
  BY DEF LogStep
<1>2. QED
  BY <1>1, InductiveInit, InductiveNext, PTL DEF Spec, ImplementsLog, Log!Spec

\* After the step: the row an intent stands for.
LEMMA NextRow ==
    ASSUME TypeOK', Barrier', NEW j \in JobIds,
           Live(jobs', j) \/ intents'[j].state \notin {"unasked", "forgotten"}
    PROVE  /\ Live(jobs', j) /\ jobs'[j] \in Job
           /\ intents'[j].state = IntentState(jobs'[j])
           /\ intents'[j].msg = jobs'[j].email
           /\ intents'[j].kind = KindOf(jobs'[j].op)
<1>1. intents'[j] = IntentOf(jobs', inserted', j)
  BY DEF intents
<1>2. Live(jobs', j)
  BY <1>1 DEF IntentOf
<1>3. ~(j > inserted')
  <2>1. j <= inserted' /\ inserted' \in Nat
    BY <1>2, ConstantsAssumption DEF Barrier, TypeOK
  <2>2. QED
    BY <2>1 DEF JobIds
<1>4. intents'[j] = [state |-> IntentState(jobs'[j]), msg |-> jobs'[j].email,
                     kind  |-> KindOf(jobs'[j].op)]
  BY <1>1, <1>2, <1>3, LiveIntent
<1>5. jobs'[j] \in Job
  BY <1>2, LiveIsJob DEF TypeOK
<1>6. QED
  BY <1>2, <1>4, <1>5

\* How an intent comes to be dropped.
LEMMA WhyDropped ==
    ASSUME Inductive, Inductive', LogStep, NEW j \in JobIds,
           Open(jobs, j), Live(jobs', j), jobs'[j].status = "superseded"
    PROVE  /\ intents[j].state \in {"asked", "tried"}
           /\ \/ \E S \in SUBSET JobIds : j \in S /\ Log!Drop(S)
              \/ \E d \in JobIds : /\ Log!Delete(d) /\ d # j
                                   /\ Log!About(intents, j, intents[d].msg)
                                   /\ intents[j].state = "asked"
<2>1. TypeOK /\ Barrier /\ TypeOK' /\ Barrier'
  BY DEF Inductive
<2>2. Live(jobs, j) /\ jobs[j] \in Job /\ intents[j].kind = KindOf(jobs[j].op)
      /\ intents[j].state = IntentState(jobs[j])
  BY <2>1, IntentRow DEF Open, Live, Active
<2>3. intents[j].state \in {"asked", "tried"}
  BY <2>2, StateOfRow DEF Open
<2>4. intents'[j].state = "dropped"
  BY <2>1, NextRow DEF IntentState
<2>5. intents[j] \in [state : Known, msg : Emails, kind : DesiredOps \cup {"location"}]
  BY <2>1, <2>3, LogTyped DEF LogType
<2>6. ASSUME NEW S \in SUBSET JobIds, NEW s, Log!Put(S, s), s = "dropped" => j \notin S
      PROVE  FALSE
  <3>1. intents'[j] = IF j \in S THEN [intents[j] EXCEPT !.state = s] ELSE intents[j]
    BY <2>6 DEF Log!Put, Log!Ids, JobIds
  <3>2. QED
    BY <2>3, <2>4, <2>5, <2>6, <3>1
<2>7. ASSUME NEW S \in SUBSET JobIds, Log!Drop(S) PROVE j \in S
  BY <2>6, <2>7 DEF Log!Drop
<2>8. ASSUME NEW d \in JobIds, Log!Delete(d)
      PROVE  d # j /\ Log!About(intents, j, intents[d].msg) /\ intents[j].state = "asked"
  <3>1. intents'[j] = IF j = d THEN [intents[j] EXCEPT !.state = "closed"]
                      ELSE IF /\ Log!About(intents, j, intents[d].msg)
                              /\ intents[j].state = "asked"
                           THEN [intents[j] EXCEPT !.state = "dropped"] ELSE intents[j]
    BY <2>8 DEF Log!Delete, Log!Ids, JobIds
  <3>2. QED
    BY <2>3, <2>4, <2>5, <3>1
<2>9. ASSUME NEW i \in JobIds, NEW m, NEW k, Log!Ask(i, m, k) PROVE FALSE
  <3>1. DOMAIN intents = JobIds
    BY DEF intents
  <3>2. intents'[j] = intents[j] \/ intents'[j] = [state |-> "asked", msg |-> m, kind |-> k]
    BY <2>9, <3>1 DEF Log!Ask
  <3>3. QED
    BY <2>3, <2>4, <3>2
<2>10. ASSUME NEW S \in SUBSET JobIds, NEW M, Log!Forget(S, M) PROVE FALSE
  <3>1. intents'[j] = IF j \in S THEN Log!Forgotten ELSE intents[j]
    BY <2>10 DEF Log!Forget, Log!Ids, JobIds
  <3>2. QED
    BY <2>3, <2>4, <3>1 DEF Log!Forgotten
<2>11. ASSUME NEW S \in SUBSET JobIds, Log!Try(S) PROVE FALSE
  BY <2>6, <2>11 DEF Log!Try
<2>12. ASSUME NEW i \in JobIds, Log!Close(i) PROVE FALSE
  BY <2>6, <2>12 DEF Log!Close
<2>13. ASSUME NEW m, Log!Vanish(m) PROVE FALSE
  BY <2>3, <2>4, <2>13 DEF Log!Vanish
<2>14. CASE UNCHANGED <<intents, present>>
  BY <2>3, <2>4, <2>14
<2>15. QED
  BY <2>3, <2>7, <2>8, <2>9, <2>10, <2>11, <2>12, <2>13, <2>14
     DEF LogStep, Log!Next, Log!Ids, JobIds

\* A location change that was handed out is never superseded: not by a newer
\* request, not by a claim's repair, not by the deletion of its message.
THEOREM AttemptedLocationStands == Spec => AttemptedLocationKept
<1>1. Inductive /\ Inductive' /\ LogStep => KeepsAttemptedLocation
  <2> SUFFICES ASSUME Inductive, Inductive', LogStep, NEW j \in JobIds,
                      Open(jobs, j), jobs[j].op \in LocationOps, jobs[j].attempts > 0,
                      Live(jobs', j), jobs'[j].status = "superseded"
               PROVE  FALSE
    BY DEF KeepsAttemptedLocation
  <2>1. /\ Live(jobs, j) /\ jobs[j] \in Job /\ intents[j].kind = KindOf(jobs[j].op)
        /\ intents[j].state = IntentState(jobs[j])
    BY IntentRow DEF Inductive, Open, Live, Active
  <2>2. intents[j].state = "tried" /\ intents[j].kind = "location"
    BY <2>1, StateOfRow, KindsAgree DEF Open, Job
  <2>3. ASSUME NEW S \in SUBSET JobIds, Log!Drop(S) PROVE j \notin S
    BY <2>2, <2>3 DEF Log!Drop
  <2>4. QED
    BY <2>2, <2>3, WhyDropped
<1>2. Inductive /\ [Next]_vars => [KeepsAttemptedLocation]_vars
  BY <1>1, InductiveNext
<1>3. QED
  BY <1>2, InductiveInit, InductiveNext, PTL DEF Spec, AttemptedLocationKept

\* What is superseded was replaced by a newer intent of its kind that still
\* stands, or its message was deleted.
LEMMA HeirLeft == Inductive /\ Inductive' /\ LogStep => DropsForHeirOnly
<1> SUFFICES ASSUME Inductive, Inductive', LogStep, NEW j \in JobIds,
                    Open(jobs, j), Live(jobs', j), jobs'[j].status = "superseded"
             PROVE  \/ \E k \in JobIds : /\ k > j /\ Live(jobs', k)
                                        /\ SameKind(jobs'[k], jobs'[j])
                                        /\ jobs'[k].status # "superseded"
                    \/ ~emails'[jobs[j].email].live
  BY DEF DropsForHeirOnly
<1>0. TypeOK /\ Barrier /\ TypeOK' /\ Barrier'
  BY DEF Inductive
<1>1. Live(jobs, j) /\ jobs[j] \in Job /\ intents[j].msg = jobs[j].email
  BY <1>0, IntentRow DEF Open, Live, Active
<1>2. intents[j].state \in {"asked", "tried"}
  BY WhyDropped
<1>3. intents[j] \in [state : Known, msg : Emails, kind : DesiredOps \cup {"location"}]
  BY <1>0, <1>2, LogTyped DEF LogType
<1>4. ASSUME NEW S \in SUBSET JobIds, j \in S, Log!Drop(S)
      PROVE  \E k \in JobIds : /\ k > j /\ Live(jobs', k)
                               /\ SameKind(jobs'[k], jobs'[j])
                               /\ jobs'[k].status # "superseded"
  <2>1. PICK k \in JobIds \ S : /\ k > j /\ Log!About(intents, k, intents[j].msg)
                                /\ intents[k].kind = intents[j].kind
                                /\ intents[k].state # "dropped"
    BY <1>4 DEF Log!Drop, Log!Ids, JobIds
  <2>2. /\ intents'[k] = intents[k]
        /\ intents'[j] = [intents[j] EXCEPT !.state = "dropped"]
    BY <1>4, <2>1 DEF Log!Drop, Log!Put, Log!Ids, JobIds
  <2>3. /\ intents'[k].msg = intents'[j].msg /\ intents'[k].kind = intents'[j].kind
        /\ intents'[k].state \notin {"unasked", "forgotten", "dropped"}
    BY <1>3, <2>1, <2>2 DEF Log!About, Log!Settled, Log!Unsettled
  <2>4. /\ Live(jobs', k) /\ jobs'[k] \in Job /\ jobs'[k].status # "superseded"
        /\ intents'[k].msg = jobs'[k].email /\ intents'[k].kind = KindOf(jobs'[k].op)
    BY <1>0, <2>3, NextRow, StateOfRow
  <2>5. /\ jobs'[j] \in Job
        /\ intents'[j].msg = jobs'[j].email /\ intents'[j].kind = KindOf(jobs'[j].op)
    BY <1>0, NextRow
  <2>6. SameKind(jobs'[k], jobs'[j])
    <3>1. /\ jobs'[k].email = jobs'[j].email
          /\ KindOf(jobs'[k].op) = KindOf(jobs'[j].op)
      BY <2>3, <2>4, <2>5
    <3>2. \A a, b \in Job : a.email = b.email /\ KindOf(a.op) = KindOf(b.op)
                               => SameKind(a, b)
      BY KindsAgree
    <3>3. QED
      BY <2>4, <2>5, <3>1, <3>2
  <2>7. QED
    BY <2>1, <2>4, <2>6
<1>5. ASSUME NEW d \in JobIds, Log!Delete(d), Log!About(intents, j, intents[d].msg)
      PROVE  ~emails'[jobs[j].email].live
  <2>1. jobs[j].email \notin present'
    BY <1>1, <1>5 DEF Log!Delete, Log!About
  <2>2. jobs[j].email \in Emails
    BY <1>1 DEF Job
  <2>3. QED
    BY <2>1, <2>2 DEF present
<1>6. QED
  BY <1>4, <1>5, WhyDropped

\* No intent is lost: what is superseded was replaced by a newer intent of its
\* kind that still stands, or its message was deleted.
THEOREM IntentsAreKept == Spec => NoIntentLost
<1>1. Inductive /\ [Next]_vars => [DropsForHeirOnly]_vars
  BY HeirLeft, InductiveNext
<1>2. QED
  BY <1>1, InductiveInit, InductiveNext, PTL DEF Spec, NoIntentLost
-----------------------------------------------------------------------------
(* A message that moves.                                                    *)

\* Only the report of a successful move gives a message another identity.
LEMMA WhoMoves ==
    ASSUME TypeOK, [Next]_vars, NEW e \in Emails, emails'[e].ident # emails[e].ident
    PROVE  \E r \in Reports : /\ ReportMoved(r) /\ report[r].job.email = e
                              /\ emails'[e].ident = report[r].proj
<1>1. emails[e] \in Email
  BY DEF TypeOK
<1>2. ASSUME NEW c \in Clients, RequestStep(c) PROVE emails'[e].ident = emails[e].ident
  <2>1. CASE emails' = emails
    BY <2>1
  <2>2. CASE NativeWrite(c)
    BY <1>1, <2>2 DEF NativeWrite, Email, TypeOK
  <2>3. CASE ProjectDesired(c)
    BY <1>1, <2>3 DEF ProjectDesired, Email, TypeOK
  <2>4. QED
    BY <1>2, <2>1, <2>2, <2>3 DEF RequestStep, Load, InsertJob, SupersedeOlder
<1>3. ASSUME NEW r \in Reports, ReportStep(r), ~ReportMoved(r)
      PROVE  emails'[e].ident = emails[e].ident
  <2>1. CASE emails' = emails
    BY <2>1
  <2>2. CASE ReportDeleted(r)
    BY <1>1, <2>2 DEF ReportDeleted, Email, TypeOK
  <2>3. CASE ReportApplied(r)
    BY <1>1, <2>3 DEF ReportApplied, Email, TypeOK
  <2>4. QED
    BY <1>3, <2>1, <2>2, <2>3 DEF ReportStep, ReportRead, ReportOrder, ReportSuperseded,
       ReportExhausted, ReportRetry, ReportRefused, ReportRejected
<1>4. ASSUME NEW h \in Claims, ClaimStep(h) PROVE emails' = emails
  BY <1>4 DEF ClaimStep, ClaimRecover, ClaimSelect, ClaimLease
<1>5. ASSUME NEW a \in Purgeable, PurgeAccount(a) PROVE emails'[e].ident = emails[e].ident
  BY <1>1, <1>5 DEF PurgeAccount, Email
<1>6. Prune \/ Tick \/ UNCHANGED vars => emails' = emails
  BY DEF Prune, Tick, vars
<1>7. PICK r \in Reports : ReportMoved(r)
  BY <1>2, <1>3, <1>4, <1>5, <1>6 DEF Next
<1>8. /\ emails' = IF emails[report[r].job.email].live
                   THEN [emails EXCEPT ![report[r].job.email].ident = report[r].proj]
                   ELSE emails
      /\ report[r].job.email \in Emails
  BY <1>7, HeldTypes DEF ReportMoved, Job
<1>9. report[r].job.email = e /\ emails'[e].ident = report[r].proj
  BY <1>1, <1>8 DEF TypeOK, Email
<1>10. QED
  BY <1>7, <1>9

\* A move that is recorded gives its message's new identity to every unsettled
\* job of the message: older ones are settled, the newer ones all still wait.
THEOREM MovesReidentify == Spec => MoveReidentifiesOpenJobs
<1>1. Inductive /\ [Next]_vars => ReidentifiesOpenJobs
  <2> SUFFICES ASSUME Inductive, [Next]_vars, NEW e \in Emails,
                      emails'[e].ident # emails[e].ident,
                      NEW j \in JobIds, Open(jobs', j), jobs'[j].email = e
               PROVE  jobs'[j].ident = emails'[e].ident
    BY DEF ReidentifiesOpenJobs
  <2>1. TypeOK /\ Barrier /\ SnapshotsMatch /\ HandedOut
    BY DEF Inductive
  <2>2. PICK r \in Reports : /\ ReportMoved(r) /\ report[r].job.email = e
                             /\ emails'[e].ident = report[r].proj
    BY <2>1, WhoMoves
  <2> DEFINE d == report[r].id
             p == report[r].proj
  <2>3. /\ d \in JobIds /\ Live(jobs, d) /\ jobs[d] \in Job /\ p \in Ident
        /\ jobs[d].attempts > 0 /\ jobs[d].status = "processing" /\ jobs[d].email = e
    BY <2>1, <2>2, HeldTypes, HeldTried DEF ReportMoved, Held, Fenced, SnapshotsMatch
  <2>4. j # d
    <3>1. jobs'[d] = Closed(jobs[d], "succeeded")
      BY <2>2, <2>3 DEF ReportMoved, Moved
    <3>2. QED
      BY <2>3, <3>1, RowSettles DEF Open, Active, Terminal
  <2>5. jobs'[j] = IF /\ j > d /\ Live(jobs, j)
                      /\ jobs[j].status = "pending" /\ jobs[j].email = jobs[d].email
                   THEN [jobs[j] EXCEPT !.ident = p] ELSE jobs[j]
    BY <2>2, <2>3, <2>4 DEF ReportMoved, Moved
  <2>6. CASE jobs'[j] = jobs[j]
    <3>1. Live(jobs, j) /\ jobs[j].email = e /\ jobs[j].status \notin Terminal
      BY <2>6 DEF Open, Live, Active, Terminal
    <3>2. j < d => jobs[j].status \in Terminal
      BY <2>1, <2>3, <3>1 DEF Barrier, OrderingBarrier, Older
    <3>3. jobs[j].status = "processing" => jobs[j].attempts > 0
      BY <2>1, <3>1 DEF HandedOut
    <3>4. j > d => jobs[j].status # "processing"
      BY <2>1, <2>3, <3>1, <3>3 DEF Barrier, OrderingBarrier, Older, Terminal
    <3>5. jobs[j].status = "pending" /\ j > d
      BY <2>3, <2>4, <2>6, <3>1, <3>2, <3>4 DEF Open, Active, JobIds
    <3>6. jobs'[j] = [jobs[j] EXCEPT !.ident = p]
      BY <2>3, <2>5, <3>1, <3>5
    <3>7. QED
      BY <2>1, <2>2, <3>1, <3>6, LiveIsJob DEF TypeOK, Job
  <2>7. CASE jobs'[j] # jobs[j]
    BY <2>1, <2>2, <2>5, <2>7, LiveIsJob DEF TypeOK, Job
  <2>8. QED
    BY <2>6, <2>7
<1>2. QED
  BY <1>1, InductiveInit, InductiveNext, PTL DEF Spec, MoveReidentifiesOpenJobs

-----------------------------------------------------------------------------
(* What the mailbox shows.                                                  *)

\* A request under way has the row it inserted, as long as that row is there.
RequestsOwn ==
    \A c \in Clients : req[c].phase \in {"inserted", "superseded"} =>
        /\ req[c].id \in JobIds /\ req[c].id <= inserted
        /\ Live(jobs, req[c].id) =>
              /\ jobs[req[c].id].email = req[c].email
              /\ jobs[req[c].id].op = req[c].op /\ jobs[req[c].id].want = req[c].want

\* Rows of the queue are about messages of a provider.
ProviderJobs ==
    \A j \in JobIds : Live(jobs, j) => emails[jobs[j].email].provider # "native"

\* What a step does to a flag of a message.
FlagKept(e, o) == emails'[e].flag[o] = emails[e].flag[o]

LEMMA WhoFlags ==
    ASSUME TypeOK, [Next]_vars, NEW e \in Emails, NEW o \in DesiredOps
    PROVE  /\ emails'[e].provider = emails[e].provider
           /\ emails'[e].live => emails[e].live
           /\ \/ FlagKept(e, o)
              \/ \E c \in Clients : NativeWrite(c) /\ req[c].email = e
              \/ \E c \in Clients : /\ ProjectDesired(c) /\ req[c].email = e /\ req[c].op = o
                                    /\ emails'[e].flag[o] = req[c].want
              \/ \E r \in Reports : /\ ReportApplied(r) /\ report[r].job.email = e
                                    /\ report[r].job.op = o /\ ~report[r].newer
                                    /\ emails'[e].flag[o] = report[r].job.want
<1> DEFINE Kept == /\ emails'[e].provider = emails[e].provider
                   /\ emails'[e].live => emails[e].live
<1>1. emails[e] \in Email
  BY DEF TypeOK
<1>2. ASSUME emails' = emails PROVE Kept /\ FlagKept(e, o)
  BY <1>2 DEF FlagKept
<1>3. ASSUME NEW c \in Clients, NativeWrite(c)
      PROVE  Kept /\ (FlagKept(e, o) \/ req[c].email = e)
  BY <1>1, <1>3 DEF NativeWrite, FlagKept, Email, TypeOK
<1>4. ASSUME NEW c \in Clients, ProjectDesired(c)
      PROVE  /\ Kept
             /\ FlagKept(e, o) \/ /\ req[c].email = e /\ req[c].op = o
                                  /\ emails'[e].flag[o] = req[c].want
  <2>1. req[c] \in Request
    BY <1>4 DEF ProjectDesired, NoReq, TypeOK
  <2>2. CASE req[c].email = e /\ emails[e].live
    <3>1. emails'[e] = [emails[e] EXCEPT !.flag[req[c].op] = req[c].want]
      BY <1>4, <2>2 DEF ProjectDesired, TypeOK
    <3>2. QED
      BY <1>1, <2>1, <2>2, <3>1 DEF FlagKept, Email
  <2>3. CASE ~(req[c].email = e /\ emails[e].live)
    <3>1. emails'[e] = emails[e]
      BY <1>4, <2>3 DEF ProjectDesired, TypeOK
    <3>2. QED
      BY <3>1 DEF FlagKept
  <2>4. QED
    BY <2>2, <2>3
<1>5. ASSUME NEW r \in Reports, ReportApplied(r)
      PROVE  /\ Kept
             /\ FlagKept(e, o) \/ /\ report[r].job.email = e /\ report[r].job.op = o
                                  /\ ~report[r].newer
                                  /\ emails'[e].flag[o] = report[r].job.want
  <2>1. report[r].job.op \in DesiredOps
    BY <1>5 DEF ReportApplied
  <2>2. CASE report[r].job.email = e /\ emails[e].live /\ ~report[r].newer
    <3>1. emails'[e] = [emails[e] EXCEPT !.flag[report[r].job.op] = report[r].job.want]
      BY <1>5, <2>2 DEF ReportApplied, Projects, TypeOK
    <3>2. QED
      BY <1>1, <2>1, <2>2, <3>1 DEF FlagKept, Email
  <2>3. CASE ~(report[r].job.email = e /\ emails[e].live /\ ~report[r].newer)
    <3>1. emails'[e] = emails[e]
      BY <1>5, <2>3 DEF ReportApplied, Projects, TypeOK
    <3>2. QED
      BY <3>1 DEF FlagKept
  <2>4. QED
    BY <2>2, <2>3
<1>6. ASSUME NEW r \in Reports, ReportDeleted(r) PROVE Kept /\ FlagKept(e, o)
  BY <1>1, <1>6 DEF ReportDeleted, FlagKept, Email, TypeOK
<1>7. ASSUME NEW r \in Reports, ReportMoved(r) PROVE Kept /\ FlagKept(e, o)
  <2>1. emails'[e] = emails[e] \/ emails'[e] = [emails[e] EXCEPT !.ident = report[r].proj]
    BY <1>7 DEF ReportMoved, TypeOK
  <2>2. QED
    BY <1>1, <2>1 DEF FlagKept, Email
<1>8. ASSUME NEW a \in Purgeable, PurgeAccount(a) PROVE Kept /\ FlagKept(e, o)
  BY <1>1, <1>8 DEF PurgeAccount, FlagKept, Email
<1>9. ASSUME NEW c \in Clients, RequestStep(c)
      PROVE  NativeWrite(c) \/ ProjectDesired(c) \/ emails' = emails
  BY <1>9 DEF RequestStep, Load, InsertJob, SupersedeOlder
<1>10. ASSUME NEW r \in Reports, ReportStep(r)
       PROVE  ReportApplied(r) \/ ReportDeleted(r) \/ ReportMoved(r) \/ emails' = emails
  BY <1>10 DEF ReportStep, ReportRead, ReportOrder, ReportSuperseded, ReportExhausted,
     ReportRetry, ReportRefused, ReportRejected
<1>11. ASSUME NEW h \in Claims, ClaimStep(h) PROVE emails' = emails
  BY <1>11 DEF ClaimStep, ClaimRecover, ClaimSelect, ClaimLease
<1>12. Prune \/ Tick \/ UNCHANGED vars => emails' = emails
  BY DEF Prune, Tick, vars
<1>13. QED
  BY <1>2, <1>3, <1>4, <1>5, <1>6, <1>7, <1>8, <1>9, <1>10, <1>11, <1>12 DEF Next

\* Only the report of a success makes a row succeed.
LEMMA WhoSucceeds ==
    ASSUME TypeOK, [Next]_vars, NEW j \in JobIds,
           Live(jobs', j), jobs'[j].status = "succeeded",
           ~(Live(jobs, j) /\ jobs[j].status = "succeeded")
    PROVE  \E r \in Reports : /\ report[r].id = j /\ Held(report[r])
                              /\ ReportMoved(r) \/ ReportDeleted(r) \/ ReportApplied(r)
<1>1. ASSUME NEW c \in Clients, RequestStep(c) PROVE jobs'[j] = jobs[j] \/ jobs'[j].status # "succeeded"
  <2>1. ASSUME InsertJob(c) PROVE jobs'[j] = jobs[j] \/ jobs'[j].status # "succeeded"
    BY <2>1 DEF InsertJob, TypeOK
  <2>2. ASSUME SupersedeOlder(c) PROVE jobs'[j] = jobs[j] \/ jobs'[j].status # "succeeded"
    BY <2>2, LiveIsJob, RowSettles DEF SupersedeOlder, TypeOK
  <2>3. QED
    BY <1>1, <2>1, <2>2 DEF RequestStep, Load, NativeWrite, ProjectDesired
<1>2. ASSUME NEW h \in Claims, ClaimStep(h) PROVE jobs'[j] = jobs[j] \/ jobs'[j].status # "succeeded"
  <2>1. ASSUME NEW tok \in Tokens, NEW api \in Endpoints, ClaimRecover(h, tok, api)
        PROVE  jobs'[j] = jobs[j] \/ jobs'[j].status # "succeeded"
    <3>1. Recover(jobs, now) \in [JobIds -> Job \cup {NoJob}]
      BY RewriteTypes DEF TypeOK
    <3>2. Recover(jobs, now)[j] = jobs[j] \/ Recover(jobs, now)[j].status = "pending"
      BY LiveIsJob DEF Recover, TypeOK, Job
    <3>3. PICK kinds : jobs' = CollapsePending(Recover(jobs, now), kinds)
      BY <2>1 DEF ClaimRecover
    <3>4. jobs'[j] = Recover(jobs, now)[j] \/ jobs'[j].status = "superseded"
      BY <3>1, <3>3, LiveIsJob, RowSettles DEF CollapsePending
    <3>5. QED
      BY <3>2, <3>4
  <2>2. ASSUME ClaimLease(h) PROVE jobs'[j] = jobs[j] \/ jobs'[j].status # "succeeded"
    <3>1. \/ jobs'[j] = jobs[j]
          \/ /\ Live(jobs, j)
             /\ jobs'[j] = [jobs[j] EXCEPT !.status = "processing", !.attempts = @ + 1,
                                           !.token = claim[h].token,
                                           !.until = claim[h].now + Lease]
      BY <2>2 DEF ClaimLease, Leasable
    <3>2. Live(jobs, j) => jobs[j] \in Job
      BY LiveIsJob DEF TypeOK
    <3>3. QED
      BY <3>1, <3>2 DEF Job
  <2>3. QED
    BY <1>2, <2>1, <2>2 DEF ClaimStep, ClaimSelect
<1>3. ASSUME NEW r \in Reports, ReportStep(r)
      PROVE  \/ jobs'[j] = jobs[j] \/ jobs'[j].status # "succeeded"
             \/ /\ report[r].id = j /\ Held(report[r])
                /\ ReportMoved(r) \/ ReportDeleted(r) \/ ReportApplied(r)
  <2>1. ASSUME ReportMoved(r) PROVE jobs'[j].status = jobs[j].status \/ report[r].id = j
    BY <2>1, LiveIsJob DEF ReportMoved, Moved, TypeOK, Job
  <2>2. ASSUME ReportDeleted(r)
        PROVE  jobs'[j] = jobs[j] \/ jobs'[j].status = "superseded" \/ report[r].id = j
    BY <2>2, LiveIsJob, RowSettles DEF ReportDeleted, TypeOK
  <2>3. ASSUME ReportApplied(r) PROVE jobs'[j] = jobs[j] \/ report[r].id = j
    BY <2>3 DEF ReportApplied, CloseJob, TypeOK
  <2>4. ASSUME ReportSuperseded(r) \/ ReportExhausted(r) \/ ReportRefused(r)
        PROVE  jobs'[j] = jobs[j] \/ jobs'[j].status # "succeeded"
    <3>1. PICK s \in Terminal \ {"succeeded"} : Held(report[r]) /\ CloseJob(r, s)
      BY <2>4 DEF ReportSuperseded, ReportExhausted, ReportRefused, Terminal
    <3>2. QED
      BY <3>1, HeldTypes, RowSettles DEF CloseJob, TypeOK
  <2>5. ASSUME ReportRetry(r) PROVE jobs'[j] = jobs[j] \/ jobs'[j].status # "succeeded"
    <3>1. Held(report[r]) /\ jobs[report[r].id] \in Job
      BY <2>5, HeldTypes DEF ReportRetry
    <3>2. QED
      BY <2>5, <3>1 DEF ReportRetry, TypeOK, Job
  <2>6. Live(jobs', j) /\ jobs'[j].status = jobs[j].status
          => Live(jobs, j) /\ jobs[j].status = "succeeded"
    BY DEF Live
  <2>7. ReportMoved(r) \/ ReportDeleted(r) \/ ReportApplied(r) => Held(report[r])
    BY DEF ReportMoved, ReportDeleted, ReportApplied
  <2>8. QED
    BY <1>3, <2>1, <2>2, <2>3, <2>4, <2>5, <2>6, <2>7
       DEF ReportStep, ReportRead, ReportOrder, ReportRejected
<1>4. Prune \/ (\E a \in Purgeable : PurgeAccount(a)) => jobs'[j] = jobs[j] \/ ~Live(jobs', j)
  BY DEF Prune, PurgeAccount, Live, NoJob
<1>5. Tick \/ UNCHANGED vars => jobs' = jobs
  BY DEF Tick, vars
<1>6. QED
  BY <1>1, <1>2, <1>3, <1>4, <1>5 DEF Next, Live

\* Rows past the last inserted one appear by an INSERT only.
LEMMA NewRow ==
    ASSUME TypeOK, Barrier, [Next]_vars, NEW j \in JobIds, ~(j <= inserted), Live(jobs', j)
    PROVE  \E c \in Clients : /\ InsertJob(c) /\ j = inserted + 1
                              /\ jobs'[j].status = "pending"
                              /\ jobs'[j].email = req[c].email
<1>1. ~Live(jobs, j)
  BY DEF Barrier
<1>2. ~SettlingStep
  BY <1>1, StepSettles DEF Settles
<1>3. ASSUME NEW h \in Claims, ClaimSelect(h) \/ ClaimLease(h) PROVE FALSE
  <2>1. ClaimSelect(h) => jobs' = jobs
    BY DEF ClaimSelect
  <2>2. QED
    BY <1>1, <1>3, <2>1, LeaseRow
<1>4. PICK c \in Clients : InsertJob(c)
  BY <1>1, <1>2, <1>3, StepKinds
<1>5. jobs'[j] # jobs[j]
  BY <1>1 DEF Live
<1>6. j = inserted + 1
  BY <1>4, <1>5 DEF InsertJob, TypeOK
<1>7. jobs'[j].status = "pending" /\ jobs'[j].email = req[c].email
  BY <1>4, <1>6 DEF InsertJob, TypeOK
<1>8. QED
  BY <1>4, <1>6, <1>7

\* A request changes in its own steps only.
LEMMA RequestChange ==
    ASSUME TypeOK, [Next]_vars, NEW c \in Clients
    PROVE  \/ req'[c] = req[c]
           \/ req'[c].phase \in {"idle", "loaded"}
           \/ InsertJob(c)
           \/ SupersedeOlder(c)
<1>1. CASE req' = req
  BY <1>1
<1>2. ASSUME NEW d \in Clients, RequestStep(d)
      PROVE  \/ req'[c] = req[c]
             \/ req'[c].phase \in {"idle", "loaded"}
             \/ InsertJob(c)
             \/ SupersedeOlder(c)
  <2>1. CASE c = d
    BY <1>2, <2>1 DEF RequestStep, Load, NativeWrite, ProjectDesired, NoReq, TypeOK
  <2>2. CASE c # d
    <3>1. \E x : req' = [req EXCEPT ![d] = x]
      BY <1>2 DEF RequestStep, Load, NativeWrite, InsertJob, SupersedeOlder, ProjectDesired
    <3>2. QED
      BY <2>2, <3>1 DEF TypeOK
  <2>3. QED
    BY <2>1, <2>2
<1>3. ASSUME NEW h \in Claims, ClaimStep(h) PROVE req' = req
  BY <1>3 DEF ClaimStep, ClaimRecover, ClaimSelect, ClaimLease
<1>4. ASSUME NEW r \in Reports, ReportStep(r) PROVE req' = req
  BY <1>4 DEF ReportStep, ReportRead, ReportOrder, ReportSuperseded, ReportExhausted,
     ReportRetry, ReportRefused, ReportMoved, ReportDeleted, ReportApplied,
     ReportRejected, ReportDone
<1>5. Prune \/ (\E a \in Purgeable : PurgeAccount(a)) \/ Tick \/ UNCHANGED vars
        => req' = req
  BY DEF Prune, PurgeAccount, Tick, vars
<1>6. QED
  BY <1>1, <1>2, <1>3, <1>4, <1>5 DEF Next

LEMMA ProviderJobsNext ==
    ASSUME TypeOK, Barrier, ProviderJobs, [Next]_vars
    PROVE  ProviderJobs'
<1> SUFFICES ASSUME NEW j \in JobIds, Live(jobs', j)
             PROVE  emails'[jobs'[j].email].provider # "native"
  BY DEF ProviderJobs, Live
<1>1. CASE j <= inserted
  <2>1. Live(jobs, j) /\ jobs'[j].email = jobs[j].email /\ jobs[j].email \in Emails
    BY <1>1, RowKept, LiveIsJob DEF TypeOK, Job
  <2>2. QED
    BY <2>1, WhoFlags DEF ProviderJobs, DesiredOps
<1>2. CASE ~(j <= inserted)
  <2>1. PICK c \in Clients : InsertJob(c) /\ jobs'[j].email = req[c].email
    BY <1>2, NewRow
  <2>2. QED
    BY <2>1 DEF InsertJob
<1>3. QED
  BY <1>1, <1>2

LEMMA RequestsOwnNext ==
    ASSUME TypeOK, TypeOK', RequestsOwn, [Next]_vars
    PROVE  RequestsOwn'
<1> SUFFICES ASSUME NEW c \in Clients, req'[c].phase \in {"inserted", "superseded"}
             PROVE  /\ req'[c].id \in JobIds /\ req'[c].id <= inserted'
                    /\ Live(jobs', req'[c].id) =>
                          /\ jobs'[req'[c].id].email = req'[c].email
                          /\ jobs'[req'[c].id].op = req'[c].op
                          /\ jobs'[req'[c].id].want = req'[c].want
  BY DEF RequestsOwn, Live
<1> DEFINE i == req'[c].id
<1>0. /\ inserted \in Nat /\ inserted' \in Nat /\ inserted <= inserted'
      /\ \A k \in JobIds : k \in Nat
  BY InsertedGrows, ConstantsAssumption DEF TypeOK, JobIds
<1>1. CASE InsertJob(c)
  <2>1. req[c] \in Request
    BY <1>1 DEF InsertJob, NoReq, TypeOK
  <2>2. /\ i = inserted + 1 /\ inserted' = inserted + 1 /\ i \in JobIds
        /\ req'[c].email = req[c].email /\ req'[c].op = req[c].op /\ req'[c].want = req[c].want
    BY <1>0, <1>1, <2>1, ConstantsAssumption DEF InsertJob, Request, TypeOK, JobIds
  <2>3. /\ jobs'[i].email = req[c].email /\ jobs'[i].op = req[c].op
        /\ jobs'[i].want = req[c].want
    BY <1>1, <2>2 DEF InsertJob, TypeOK
  <2>4. QED
    BY <1>0, <2>2, <2>3
<1>2. CASE ~InsertJob(c)
  <2>1. /\ req[c].phase \in {"inserted", "superseded"}
        /\ i = req[c].id /\ req'[c].email = req[c].email
        /\ req'[c].op = req[c].op /\ req'[c].want = req[c].want
    <3>1. CASE req'[c] = req[c]
      BY <3>1
    <3>2. CASE SupersedeOlder(c)
      <4>1. req[c] \in Request /\ req[c].phase = "inserted"
        BY <3>2 DEF SupersedeOlder, NoReq, TypeOK
      <4>2. req'[c] = [req[c] EXCEPT !.phase = "superseded"]
        BY <3>2 DEF SupersedeOlder, NoReq, TypeOK
      <4>3. QED
        BY <4>1, <4>2 DEF Request
    <3>3. QED
      BY <1>2, <3>1, <3>2, RequestChange
  <2>2. /\ i \in JobIds /\ i <= inserted /\ i <= inserted'
        /\ Live(jobs, i) => /\ jobs[i].email = req[c].email
                            /\ jobs[i].op = req[c].op /\ jobs[i].want = req[c].want
    BY <1>0, <2>1 DEF RequestsOwn
  <2>3. Live(jobs', i) => /\ jobs'[i].email = req[c].email
                          /\ jobs'[i].op = req[c].op /\ jobs'[i].want = req[c].want
    BY <2>2, RowKept
  <2>4. QED
    BY <2>1, <2>2, <2>3
<1>3. QED
  BY <1>1, <1>2

OwnInv == RequestsOwn /\ ProviderJobs

LEMMA NewestStep ==
    ASSUME Inductive, [Next]_vars, OwnInv
    PROVE  NewestIsShown
<1>0. /\ TypeOK /\ Barrier /\ SnapshotsMatch /\ HandedOut /\ HeirKnown
      /\ inserted \in Nat /\ \A k \in JobIds : k \in Nat
  BY InductiveStrong, ConstantsAssumption DEF Inductive, QueueInv, TypeOK, JobIds
<1> SUFFICES ASSUME NEW j \in JobIds, Newest(j), Newest(j)'
             PROVE  /\ jobs[j].status # "succeeded" /\ jobs'[j].status = "succeeded"
                         => Shown(j)'
                    /\ Shown(j) => Shown(j)' \/ LateRequest(j) \/ LateResult(j)
  BY DEF NewestIsShown
<1> DEFINE e == jobs[j].email
           o == jobs[j].op
<1>1. /\ j <= inserted /\ Live(jobs, j) /\ Live(jobs', j) /\ jobs[j] \in Job
      /\ e \in Emails /\ o \in DesiredOps /\ emails[e].live
      /\ jobs'[j].email = e /\ jobs'[j].op = o /\ jobs'[j].want = jobs[j].want
  <2>1. Live(jobs, j) /\ Live(jobs', j) /\ o \in DesiredOps /\ emails[e].live
    BY DEF Newest, Live
  <2>2. j <= inserted
    BY <1>0, <2>1 DEF Barrier
  <2>3. QED
    BY <1>0, <2>1, <2>2, RowKept, LiveIsJob DEF TypeOK, Job
<1>2. emails'[e].flag[o] = jobs[j].want => Shown(j)'
  BY <1>1 DEF Shown
\* No later row is of j's kind.
<1>3. ASSUME NEW k \in JobIds, j < k, k <= inserted
      PROVE  Live(jobs, k) /\ ~(jobs[k].email = e /\ jobs[k].op = o)
  <2>1. k \in (j + 1) .. inserted
    BY <1>0, <1>3
  <2>2. Live(jobs, k) /\ ~SameKind(jobs[k], jobs[j])
    BY <2>1 DEF Newest
  <2>3. QED
    BY <1>1, <2>2 DEF SameKind
\* A report that projects on j's flag is about j or about an older row.
<1>4. ASSUME NEW r \in Reports, Held(report[r]), report[r].job.email = e,
             report[r].job.op = o
      PROVE  LET d == report[r].id
             IN  /\ d \in JobIds /\ d <= j /\ jobs[d].status = "processing"
                 /\ jobs[d].email = e /\ Live(jobs, d)
                 /\ report[r].job.want = jobs[d].want
  <2> DEFINE d == report[r].id
  <2>1. /\ d \in JobIds /\ Live(jobs, d) /\ jobs[d].status = "processing"
        /\ jobs[d].email = e /\ jobs[d].op = o /\ report[r].job.want = jobs[d].want
    BY <1>0, <1>4, HeldTypes DEF Held, SnapshotsMatch
  <2>2. d <= inserted
    BY <1>0, <2>1 DEF Barrier
  <2>3. ~(j < d)
    BY <1>3, <2>1, <2>2
  <2>4. QED
    BY <1>0, <2>1, <2>3
<1>5. ASSUME jobs[j].status # "succeeded", jobs'[j].status = "succeeded" PROVE Shown(j)'
  <2>1. PICK r \in Reports : /\ report[r].id = j /\ Held(report[r])
                             /\ ReportMoved(r) \/ ReportDeleted(r) \/ ReportApplied(r)
    BY <1>0, <1>1, <1>5, WhoSucceeds
  <2>2. /\ report[r].job.op = o /\ report[r].job.email = e
        /\ report[r].job.want = jobs[j].want
        /\ jobs[j].status = "processing" /\ report[r].phase = "fenced"
    BY <1>0, <1>1, <2>1, HeldTypes DEF Held, SnapshotsMatch
  <2>3. ReportApplied(r)
    BY <1>1, <2>1, <2>2 DEF ReportMoved, ReportDeleted, DesiredOps
  <2>4. ~report[r].newer
    <3>1. SUFFICES ASSUME report[r].newer PROVE FALSE
      OBVIOUS
    <3>2. NewerIntent(jobs, j)
      BY <1>0, <2>1, <2>2, <3>1 DEF HeirKnown, Open, Active
    <3>3. PICK k \in JobIds : k > j /\ Live(jobs, k) /\ SameKind(jobs[k], jobs[j])
      BY <3>2 DEF NewerIntent
    <3>4. k <= inserted /\ j < k
      BY <1>0, <3>3 DEF Barrier
    <3>5. ~(jobs[k].email = e /\ jobs[k].op = o)
      BY <1>3, <3>4
    <3>6. QED
      BY <1>1, <3>3, <3>5 DEF SameKind, DesiredOps, LocationOps
  <2>5. emails' = [emails EXCEPT ![e].flag[o] = jobs[j].want]
    BY <1>1, <2>2, <2>3, <2>4 DEF ReportApplied, Projects
  <2>6. emails[e] \in Email
    BY <1>0, <1>1 DEF TypeOK
  <2>7. emails'[e] = [emails[e] EXCEPT !.flag[o] = jobs[j].want]
    BY <1>0, <1>1, <2>5 DEF TypeOK
  <2>8. emails'[e].flag[o] = jobs[j].want
    BY <1>1, <2>6, <2>7 DEF Email
  <2>9. QED
    BY <1>2, <2>8
<1>6. ASSUME Shown(j) PROVE Shown(j)' \/ LateRequest(j) \/ LateResult(j)
  <2>1. CASE FlagKept(e, o)
    BY <1>2, <1>6, <2>1 DEF FlagKept, Shown
  <2>2. ASSUME NEW c \in Clients, NativeWrite(c), req[c].email = e PROVE FALSE
    BY <1>1, <2>2 DEF NativeWrite, OwnInv, ProviderJobs
  <2>3. ASSUME NEW c \in Clients, ProjectDesired(c), req[c].email = e, req[c].op = o,
               emails'[e].flag[o] = req[c].want
        PROVE  Shown(j)' \/ LateRequest(j)
    <3> DEFINE i == req[c].id
    <3>1. /\ i \in JobIds /\ i <= inserted
          /\ Live(jobs, i) => /\ jobs[i].email = e /\ jobs[i].op = o
                              /\ jobs[i].want = req[c].want
      BY <2>3 DEF ProjectDesired, OwnInv, RequestsOwn
    <3>2. CASE i < j
      BY <2>3, <3>2 DEF LateRequest
    <3>3. CASE i = j
      BY <1>1, <1>2, <2>3, <3>1, <3>3
    <3>4. ~(j < i)
      BY <1>3, <3>1
    <3>5. QED
      BY <1>0, <3>1, <3>2, <3>3, <3>4
  <2>4. ASSUME NEW r \in Reports, ReportApplied(r), report[r].job.email = e,
               report[r].job.op = o, ~report[r].newer,
               emails'[e].flag[o] = report[r].job.want
        PROVE  Shown(j)' \/ LateResult(j)
    <3> DEFINE d == report[r].id
    <3>1. Held(report[r])
      BY <2>4 DEF ReportApplied
    <3>2. /\ d \in JobIds /\ d <= j /\ Live(jobs, d) /\ jobs[d].status = "processing"
          /\ jobs[d].email = e /\ report[r].job.want = jobs[d].want
      BY <1>4, <2>4, <3>1
    <3>3. CASE d = j
      BY <1>2, <2>4, <3>2, <3>3
    <3>4. CASE d < j
      <4>1. ~(jobs[j].attempts > 0)
        BY <1>0, <1>1, <3>2, <3>4 DEF Barrier, OrderingBarrier, Older, Terminal
      <4>2. jobs[j].attempts = 0
        BY <1>1, <4>1 DEF Job
      <4>3. QED
        BY <2>4, <3>4, <4>2 DEF LateResult
    <3>5. QED
      BY <1>0, <3>2, <3>3, <3>4
  <2>5. QED
    BY <1>0, <1>1, <2>1, <2>2, <2>3, <2>4, WhoFlags
<1>7. QED
  BY <1>5, <1>6

\* The newest flag intent of a message is shown when the provider has carried it
\* out, and what is shown of it is hidden only by an older request's or an older
\* result's late write, for any number of requests that overlap.
THEOREM NewestIntentOwnsFlag == Spec => NewestIntentShown
<1>1. Init => OwnInv
  BY DEF Init, OwnInv, RequestsOwn, ProviderJobs, Live, NoJob, NoReq
<1>2. Inductive /\ Inductive' /\ OwnInv /\ [Next]_vars => OwnInv'
  BY RequestsOwnNext, ProviderJobsNext, InductiveStrong DEF OwnInv, Inductive
<1>3. Inductive /\ OwnInv /\ [Next]_vars => [NewestIsShown]_vars
  BY NewestStep
<1>4. QED
  BY <1>1, <1>2, <1>3, InductiveInit, InductiveNext, PTL DEF Spec, NewestIntentShown
=============================================================================
