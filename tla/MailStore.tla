------------------------------ MODULE MailStore ------------------------------
(***************************************************************************)
(* How a mail with attachments gets into the unified store and out of it:  *)
(* saveUnifiedEmail (worker/src/unified/unified_store.ts) for mails that   *)
(* Email Routing delivers, with the mirror queue of mirror_jobs.ts behind  *)
(* it; the attachment endpoint and ingest for mails the aggregator sends;  *)
(* deletion and retention; and the collector of attachment objects in      *)
(* retention.ts.                                                           *)
(*                                                                         *)
(* The D1 database and the object store share no transaction.  Each action *)
(* is one statement or batch of D1, or one request to the object store.    *)
(* There is no clock: updated_at of an attachment_gc row is abstracted to  *)
(* its age, and to the set of drains that read or wrote its present value. *)
(***************************************************************************)
EXTENDS Integers, FiniteSets

CONSTANTS
    Mails,
    MaxParts,    \* bound: attachments of one mail
    Mailboxes,   \* what the mails may be, see Kinds
    Crons,       \* overlapping runs of the mirror queue by the scheduler
    Drains,      \* overlapping runs of the collector
    MaxFaults    \* bound: failures, deaths and withheld mails

Savers == Mails \cup Crons      \* a mail's own saver, and the scheduler's
Key    == Mails \X (1 .. MaxParts)

\* Email Routing delivers a mail or the aggregator uploads it.
Kinds == [via : {"routing", "aggregator"}, parts : 0 .. MaxParts]

ASSUME ConstantsAssumption ==
    /\ Mails \cap Crons = {}
    /\ {MaxParts, MaxFaults} \subseteq Nat
    /\ Mailboxes \subseteq [Mails -> Kinds]

VARIABLES
    kind,      \* the mails: how they come and with how many attachments
    raw,       \* raw_mails: the mail as delivered
    pending,   \* raw_mails.mirror_pending
    job,       \* unified_mirror_jobs: next_attempt_at has come or not
    holder,    \* the cron run whose leaseUntil next_attempt_at still is
    row,       \* emails: mails with a row, which names all their keys
    object,    \* keys in the object store
    gc,        \* attachment_gc
    fence,     \* drains that know the present updated_at of the gc row
    saver,     \* the savers
    drain,     \* the drains
    retiring,  \* mails that retention has selected
    deleted,   \* history: mails whose row was deleted
    faults     \* faults so far

queue   == <<kind, raw, pending, job, holder>>
garbage == <<gc, fence>>
vars    == <<queue, row, object, garbage, saver, drain, retiring, deleted, faults>>

Native(m) == kind[m].via = "routing"
KeysOf(m) == {k \in Key : k[1] = m /\ k[2] <= kind[m].parts}
Idle      == [phase |-> "idle"]

\* at counts the attachments that are registered with the collector.
Save ==
    {r \in [phase : {"paged", "dropping", "saving", "registered", "inserted", "saved", "failed"},
            mail : Mails, at : 0 .. MaxParts] :
        r.phase = "registered" => r.at > 0}

\* left: listed rows to go through; used: those found in use.
Sweep ==
    [phase : {"listed", "looked"}, left : SUBSET Key, used : SUBSET Key]
    \cup
    [phase : {"leased", "removed", "failed"}, left : SUBSET Key, used : SUBSET Key, key : Key]

TypeOK ==
    /\ kind \in Mailboxes
    /\ raw \in [Mails -> {"none", "kept", "gone"}]
    /\ pending \subseteq Mails
    /\ job \in [Mails -> {"none", "due", "waiting"}]
    /\ holder \in [Mails -> SUBSET Crons]
    /\ row \subseteq Mails
    /\ object \subseteq Key
    /\ gc \in [Key -> {"none", "fresh", "old", "leased"}]
    /\ fence \in [Key -> SUBSET Drains]
    /\ saver \in [Savers -> Save \cup {Idle}]
    /\ drain \in [Drains -> Sweep \cup {Idle}]
    /\ retiring \subseteq Mails
    /\ deleted \subseteq Mails
    /\ faults \in 0 .. MaxFaults

Init ==
    /\ kind \in Mailboxes
    /\ raw = [m \in Mails |-> "none"]
    /\ pending = {}
    /\ job = [m \in Mails |-> "none"]
    /\ holder = [m \in Mails |-> {}]
    /\ row = {}
    /\ object = {}
    /\ gc = [k \in Key |-> "none"]
    /\ fence = [k \in Key |-> {}]
    /\ saver = [s \in Savers |-> Idle]
    /\ drain = [d \in Drains |-> Idle]
    /\ retiring = {}
    /\ deleted = {}
    /\ faults = 0

Fault == faults < MaxFaults /\ faults' = faults + 1

-----------------------------------------------------------------------------
(* attachment_gc.                                                          *)

\* The upsert of the upload, of the trigger and of retention: a row that is
\* being collected is left alone.
Queue(K) ==
    LET new == {k \in K : gc[k] # "leased"} IN
    /\ gc' = [k \in Key |-> IF k \in new THEN "fresh" ELSE gc[k]]
    /\ fence' = [k \in Key |-> IF k \in new THEN {} ELSE fence[k]]

Forget(K) ==
    /\ gc' = [k \in Key |-> IF k \in K THEN "none" ELSE gc[k]]
    /\ fence' = [k \in Key |-> IF k \in K THEN {} ELSE fence[k]]

\* Keys that a running save has registered.
Claimed(s) ==
    IF saver[s].phase \in {"saving", "registered"}
      THEN {k \in KeysOf(saver[s].mail) : k[2] <= saver[s].at}
      ELSE {}

\* The grace period passes.  A save is over before: ATTACHMENT_GC_GRACE_MS is
\* there for that.
Age(k) ==
    /\ gc[k] = "fresh"
    /\ \A s \in Savers : k \notin Claimed(s)
    /\ gc' = [gc EXCEPT ![k] = "old"]
    /\ UNCHANGED <<queue, row, object, fence, saver, drain, retiring, deleted, faults>>

\* The lease of a drain that died or stalled passes, which leaves the row
\* queued and no longer protected.  The request to delete is over before.
Lapse(k) ==
    /\ gc[k] = "leased"
    /\ \A d \in Drains : drain[d].phase = "leased" => drain[d].key # k
    /\ gc' = [gc EXCEPT ![k] = "fresh"]
    /\ UNCHANGED <<queue, row, object, fence, saver, drain, retiring, deleted, faults>>

-----------------------------------------------------------------------------
(* Saving a mail: the email event, a retry by the scheduler, the aggregator. *)

\* raw_mails gets the mail, with mirror_pending, and the save begins.
Receive(m) ==
    /\ Native(m) /\ raw[m] = "none"
    /\ raw' = [raw EXCEPT ![m] = "kept"]
    /\ pending' = pending \cup {m}
    /\ saver' = [saver EXCEPT ![m] = [phase |-> "saving", mail |-> m, at |-> 0]]
    /\ UNCHANGED <<kind, job, holder, row, object, garbage, drain, retiring, deleted, faults>>

\* The aggregator uploads the mail, again if it must.
Send(m) ==
    /\ ~Native(m) /\ saver[m] = Idle
    /\ saver' = [saver EXCEPT ![m] = [phase |-> "saving", mail |-> m, at |-> 0]]
    /\ UNCHANGED <<queue, row, object, garbage, drain, retiring, deleted, faults>>

In(s, phase)   == saver[s].phase = phase
Goes(s, phase) == saver' = [saver EXCEPT ![s].phase = phase]
Ends(s)        == saver' = [saver EXCEPT ![s] = Idle]
Mail(s)        == saver[s].mail
NextKey(s)     == <<Mail(s), saver[s].at + 1>>

\* The next attachment is queued for collection before it is written.
Register(s) ==
    /\ In(s, "saving") /\ saver[s].at < kind[Mail(s)].parts
    /\ gc[NextKey(s)] # "leased"
    /\ Queue({NextKey(s)})
    /\ saver' = [saver EXCEPT ![s] =
                   [phase |-> "registered", mail |-> Mail(s), at |-> saver[s].at + 1]]
    /\ UNCHANGED <<queue, row, object, drain, retiring, deleted, faults>>

\* Its object is being deleted.
Refuse(s) ==
    /\ In(s, "saving") /\ saver[s].at < kind[Mail(s)].parts
    /\ gc[NextKey(s)] = "leased"
    /\ Goes(s, "failed")
    /\ UNCHANGED <<queue, row, object, garbage, drain, retiring, deleted, faults>>

\* Faulty variant, for the mutants: the object of the attachment after this one.
PutNext(s) ==
    /\ In(s, "registered")
    /\ object' = object \cup {NextKey(s)}
    /\ Goes(s, "saving")
    /\ UNCHANGED <<queue, row, garbage, drain, retiring, deleted, faults>>

Put(s) ==
    /\ In(s, "registered")
    /\ object' = object \cup {<<Mail(s), saver[s].at>>}
    /\ Goes(s, "saving")
    /\ UNCHANGED <<queue, row, garbage, drain, retiring, deleted, faults>>

\* The answer is an error or does not come; the object may be there.
PutFails(s) ==
    /\ Fault
    /\ In(s, "registered")
    /\ \E written \in {{}, {<<Mail(s), saver[s].at>>}} : object' = object \cup written
    /\ Goes(s, "failed")
    /\ UNCHANGED <<queue, row, garbage, drain, retiring, deleted>>

\* INSERT OR IGNORE.
InsertRow(s) ==
    /\ In(s, "saving") /\ saver[s].at = kind[Mail(s)].parts
    /\ row' = row \cup {Mail(s)}
    /\ Goes(s, "inserted")
    /\ UNCHANGED <<queue, object, garbage, drain, retiring, deleted, faults>>

\* Ingest answers without a row when the account is moving or being deleted.
Withhold(s) ==
    /\ Fault
    /\ s \in Mails /\ ~Native(s)
    /\ In(s, "saving") /\ saver[s].at = kind[Mail(s)].parts
    /\ Ends(s)
    /\ UNCHANGED <<queue, row, object, garbage, drain, retiring, deleted>>

\* Faulty variant, for the mutants: without the look at the row.
ReleasedAlways(m) == KeysOf(m)

\* The keys leave attachment_gc if a row refers to them now.
Released(m) == IF m \in row THEN KeysOf(m) ELSE {}

Release(s) ==
    /\ In(s, "inserted")
    /\ Forget(Released(Mail(s)))
    /\ Goes(s, "saved")
    /\ UNCHANGED <<queue, row, object, drain, retiring, deleted, faults>>

\* A statement of the save fails.
Break(s) ==
    /\ Fault
    /\ saver[s].phase \in {"saving", "inserted", "saved"}
    /\ Goes(s, "failed")
    /\ UNCHANGED <<queue, row, object, garbage, drain, retiring, deleted>>

\* The aggregator has its answer, good or bad.
Answered(s) ==
    /\ s \in Mails /\ ~Native(s)
    /\ saver[s].phase \in {"saved", "failed"}
    /\ Ends(s)
    /\ UNCHANGED <<queue, row, object, garbage, drain, retiring, deleted, faults>>

\* An invocation or a process ends here.
Die(s) ==
    /\ Fault
    /\ saver[s] # Idle
    /\ Ends(s)
    /\ UNCHANGED <<queue, row, object, garbage, drain, retiring, deleted>>

-----------------------------------------------------------------------------
(* The mirror queue.                                                       *)

\* The email event ends: the mail is mirrored ...
MarkComplete(m) ==
    /\ In(m, "saved")
    /\ pending' = pending \ {m}
    /\ Ends(m)
    /\ UNCHANGED <<kind, raw, job, holder, row, object, garbage, drain, retiring, deleted, faults>>

\* Faulty variant, for the mutants: the flag goes first, in a statement of its own.
EnqueueInTwo(m) ==
    /\ In(m, "failed")
    /\ pending' = pending \ {m}
    /\ job' = IF m \in pending THEN job ELSE [job EXCEPT ![m] = "due"]
    /\ holder' = [holder EXCEPT ![m] = {}]
    /\ IF m \in pending THEN UNCHANGED saver ELSE Ends(m)
    /\ UNCHANGED <<kind, raw, row, object, garbage, drain, retiring, deleted, faults>>

\* ... or has a job, in one batch.
Enqueue(m) ==
    /\ In(m, "failed")
    /\ job' = [job EXCEPT ![m] = "due"]
    /\ holder' = [holder EXCEPT ![m] = {}]
    /\ pending' = pending \ {m}
    /\ Ends(m)
    /\ UNCHANGED <<kind, raw, row, object, garbage, drain, retiring, deleted, faults>>

\* The scheduler reads the mails that are pending (one of the page) ...
Page(c, m) ==
    /\ saver[c] = Idle
    /\ m \in pending
    /\ saver' = [saver EXCEPT ![c] = [phase |-> "paged", mail |-> m, at |-> 0]]
    /\ UNCHANGED <<queue, row, object, garbage, drain, retiring, deleted, faults>>

\* ... and in one batch queues what has neither row nor job, and clears the
\* flag.
Missing(m) == raw[m] = "kept" /\ m \notin row /\ job[m] = "none"

Reconcile(c) ==
    /\ In(c, "paged")
    /\ LET m == Mail(c) IN
       /\ job' = IF Missing(m) THEN [job EXCEPT ![m] = "due"] ELSE job
       /\ pending' = pending \ {m}
    /\ Ends(c)
    /\ UNCHANGED <<kind, raw, holder, row, object, garbage, drain, retiring, deleted, faults>>

\* The scheduler leases a job that is due, to save its mail or, when that is
\* gone, to drop the job.  (It reads the due jobs with their mails first, and
\* leases one if it is still due: a mail that goes in between is one that goes
\* right after.)
LeaseJob(c, m) ==
    /\ saver[c] = Idle
    /\ job[m] = "due"
    /\ job' = [job EXCEPT ![m] = "waiting"]
    /\ holder' = [holder EXCEPT ![m] = {c}]
    /\ saver' = [saver EXCEPT ![c] =
                   [phase |-> IF raw[m] = "kept" THEN "saving" ELSE "dropping",
                    mail |-> m, at |-> 0]]
    /\ UNCHANGED <<kind, raw, pending, row, object, garbage, drain, retiring, deleted, faults>>

\* The job goes if next_attempt_at is still what this run wrote.
CloseJob(c) ==
    LET m == Mail(c) IN
    /\ job' = IF c \in holder[m] THEN [job EXCEPT ![m] = "none"] ELSE job
    /\ holder' = [holder EXCEPT ![m] = @ \ {c}]
    /\ Ends(c)

Drop(c) ==
    /\ In(c, "dropping")
    /\ CloseJob(c)
    /\ UNCHANGED <<kind, raw, pending, row, object, garbage, drain, retiring, deleted, faults>>

Succeed(c) ==
    /\ In(c, "saved")
    /\ CloseJob(c)
    /\ pending' = pending \ {Mail(c)}
    /\ UNCHANGED <<kind, raw, row, object, garbage, drain, retiring, deleted, faults>>

\* Backoff, under the same condition.
Retry(c) ==
    /\ In(c, "failed")
    /\ LET m == Mail(c) IN
       /\ job' = IF c \in holder[m] THEN [job EXCEPT ![m] = "waiting"] ELSE job
       /\ holder' = [holder EXCEPT ![m] = @ \ {c}]
    /\ Ends(c)
    /\ UNCHANGED <<kind, raw, pending, row, object, garbage, drain, retiring, deleted, faults>>

\* Faulty variant, for the mutants: a lease has no end.
JobDueUnleased(m) ==
    /\ job[m] = "waiting" /\ holder[m] = {}
    /\ job' = [job EXCEPT ![m] = "due"]
    /\ UNCHANGED <<kind, raw, pending, holder, row, object, garbage, saver, drain, retiring, deleted, faults>>

\* next_attempt_at comes, be it a backoff or the end of a lease.
JobDue(m) ==
    /\ job[m] = "waiting"
    /\ job' = [job EXCEPT ![m] = "due"]
    /\ UNCHANGED <<kind, raw, pending, holder, row, object, garbage, saver, drain, retiring, deleted, faults>>

-----------------------------------------------------------------------------
(* Deletion and retention.                                                 *)

\* A row is deleted, and the trigger queues its keys.
Delete(m) ==
    /\ m \in row
    /\ row' = row \ {m}
    /\ deleted' = deleted \cup {m}
    /\ Queue(KeysOf(m))
    /\ UNCHANGED <<queue, object, saver, drain, retiring, faults>>

\* Retention reads what it may delete ...
Select(m) ==
    /\ m \in row \ retiring
    /\ retiring' = retiring \cup {m}
    /\ UNCHANGED <<queue, row, object, garbage, saver, drain, deleted, faults>>

\* ... then queues the keys and deletes what it may still delete.
Retire(m) ==
    /\ m \in retiring
    /\ retiring' = retiring \ {m}
    /\ Queue(KeysOf(m))
    /\ \/ row' = row \ {m} /\ deleted' = deleted \cup {m}
       \/ m \in row /\ UNCHANGED <<row, deleted>>       \* starred by now
    /\ UNCHANGED <<queue, object, saver, drain, faults>>

\* The delivered mail goes, by its owner or by the limit of an address.
RemoveRaw(m) ==
    /\ raw[m] = "kept"
    /\ raw' = [raw EXCEPT ![m] = "gone"]
    /\ pending' = pending \ {m}
    /\ UNCHANGED <<kind, job, holder, row, object, garbage, saver, drain, retiring, deleted, faults>>

-----------------------------------------------------------------------------
(* The collector of attachment objects.                                    *)

Queued(k) == gc[k] = "old"

\* It reads the rows past their grace, with updated_at ...
ListGarbage(d) ==
    LET keys == {k \in Key : Queued(k)} IN
    /\ drain[d] = Idle
    /\ keys # {}
    /\ drain' = [drain EXCEPT ![d] = [phase |-> "listed", left |-> keys, used |-> {}]]
    /\ fence' = [k \in Key |-> IF k \in keys THEN fence[k] \cup {d} ELSE fence[k] \ {d}]
    /\ UNCHANGED <<queue, row, object, gc, saver, retiring, deleted, faults>>

\* ... then which of these keys a row refers to.
LookUp(d) ==
    /\ drain[d].phase = "listed"
    /\ drain' = [drain EXCEPT ![d].phase = "looked",
                              ![d].used = {k \in drain[d].left : k[1] \in row}]
    /\ UNCHANGED <<queue, row, object, garbage, saver, retiring, deleted, faults>>

\* Faulty variant, for the mutants: without the condition on updated_at.
FencedNever(d, k) == TRUE

\* The statement finds updated_at as d read or wrote it.
Fenced(d, k) == d \in fence[k]
Rest(d, k)   == [phase |-> "looked", left |-> drain[d].left \ {k}, used |-> drain[d].used]

\* A key in use needs no collection.
Keep(d) ==
    /\ drain[d].phase = "looked"
    /\ \E k \in drain[d].left \cap drain[d].used :
       /\ Forget(IF Fenced(d, k) THEN {k} ELSE {})
       /\ drain' = [drain EXCEPT ![d] = Rest(d, k)]
    /\ UNCHANGED <<queue, row, object, saver, retiring, deleted, faults>>

\* Any other is leased for its deletion ...
LeaseKey(d) ==
    /\ drain[d].phase = "looked"
    /\ \E k \in drain[d].left \ drain[d].used :
       /\ Fenced(d, k)
       /\ gc' = [gc EXCEPT ![k] = "leased"]
       /\ fence' = [fence EXCEPT ![k] = {d}]
       /\ drain' = [drain EXCEPT ![d] =
                      [phase |-> "leased", left |-> drain[d].left \ {k},
                       used |-> drain[d].used, key |-> k]]
    /\ UNCHANGED <<queue, row, object, saver, retiring, deleted, faults>>

\* ... unless it was touched since.
PassOver(d) ==
    /\ drain[d].phase = "looked"
    /\ \E k \in drain[d].left \ drain[d].used :
       /\ ~Fenced(d, k)
       /\ drain' = [drain EXCEPT ![d] = Rest(d, k)]
    /\ UNCHANGED <<queue, row, object, garbage, saver, retiring, deleted, faults>>

DeleteObject(d) ==
    /\ drain[d].phase = "leased"
    /\ object' = object \ {drain[d].key}
    /\ drain' = [drain EXCEPT ![d].phase = "removed"]
    /\ UNCHANGED <<queue, row, garbage, saver, retiring, deleted, faults>>

\* The answer is an error or does not come; the object may be gone.
DeleteFails(d) ==
    /\ Fault
    /\ drain[d].phase = "leased"
    /\ \E gone \in {{}, {drain[d].key}} : object' = object \ gone
    /\ drain' = [drain EXCEPT ![d].phase = "failed"]
    /\ UNCHANGED <<queue, row, garbage, saver, retiring, deleted>>

\* The row is closed, or stays for another time.
Close(d) ==
    /\ drain[d].phase = "removed"
    /\ LET k == drain[d].key IN
       /\ Forget(IF Fenced(d, k) THEN {k} ELSE {})
       /\ drain' = [drain EXCEPT ![d] = Rest(d, k)]
    /\ UNCHANGED <<queue, row, object, saver, retiring, deleted, faults>>

\* Faulty variant, for the mutants: the failed row goes too.
RequeueNot(d) ==
    /\ drain[d].phase = "failed"
    /\ LET k == drain[d].key IN
       /\ Forget(IF Fenced(d, k) THEN {k} ELSE {})
       /\ drain' = [drain EXCEPT ![d] = Rest(d, k)]
    /\ UNCHANGED <<queue, row, object, saver, retiring, deleted, faults>>

Requeue(d) ==
    /\ drain[d].phase = "failed"
    /\ LET k == drain[d].key IN
       /\ gc' = IF Fenced(d, k) THEN [gc EXCEPT ![k] = "fresh"] ELSE gc
       /\ fence' = IF Fenced(d, k) THEN [fence EXCEPT ![k] = {}] ELSE fence
       /\ drain' = [drain EXCEPT ![d] = Rest(d, k)]
    /\ UNCHANGED <<queue, row, object, saver, retiring, deleted, faults>>

Finish(d) ==
    /\ drain[d].phase = "looked" /\ drain[d].left = {}
    /\ drain' = [drain EXCEPT ![d] = Idle]
    /\ UNCHANGED <<queue, row, object, garbage, saver, retiring, deleted, faults>>

\* The scheduler's invocation ends here.
Stop(d) ==
    /\ Fault
    /\ drain[d] # Idle
    /\ drain' = [drain EXCEPT ![d] = Idle]
    /\ UNCHANGED <<queue, row, object, garbage, saver, retiring, deleted>>

-----------------------------------------------------------------------------
Saves(s) ==
    \/ Register(s) \/ Refuse(s) \/ Put(s) \/ InsertRow(s) \/ Release(s)

Mirror(c) ==
    Reconcile(c) \/ Drop(c) \/ Succeed(c) \/ Retry(c)

Works(s) ==
    \/ Saves(s)
    \/ Answered(s)
    \/ s \in Mails /\ Native(s) /\ (MarkComplete(s) \/ Enqueue(s))
    \/ s \in Crons /\ Mirror(s)

Collect(d) ==
    \/ LookUp(d) \/ Keep(d) \/ LeaseKey(d) \/ PassOver(d)
    \/ DeleteObject(d) \/ Close(d) \/ Requeue(d) \/ Finish(d)

Next ==
    \/ \E m \in Mails : Receive(m) \/ Send(m) \/ JobDue(m) \/ RemoveRaw(m)
    \/ \E m \in Mails : Delete(m) \/ Select(m) \/ Retire(m)
    \/ \E s \in Savers : Works(s) \/ PutFails(s) \/ Withhold(s) \/ Break(s) \/ Die(s)
    \/ \E c \in Crons, m \in Mails : Page(c, m) \/ LeaseJob(c, m)
    \/ \E k \in Key : Age(k) \/ Lapse(k)
    \/ \E d \in Drains : ListGarbage(d) \/ Collect(d) \/ DeleteFails(d) \/ Stop(d)

Spec == Init /\ [][Next]_vars

\* What runs goes on.  The scheduler comes back to whatever is pending or due,
\* and retention to what is queued, however often others are busy with it.
FairSpec ==
    /\ Spec
    /\ \A s \in Savers : WF_vars(Works(s))
    /\ \A d \in Drains : WF_vars(Collect(d))
    /\ \A m \in Mails :
         /\ WF_vars(JobDue(m))
         /\ SF_vars(\E c \in Crons : Page(c, m))
         /\ SF_vars(\E c \in Crons : LeaseJob(c, m))
    /\ \A k \in Key : SF_vars(Age(k)) /\ WF_vars(Lapse(k))
    /\ WF_vars(\E d \in Drains : ListGarbage(d))

-----------------------------------------------------------------------------
(* Properties.                                                             *)

\* A row in the inbox never names an attachment whose object is not there.
AttachmentsKept == \A m \in row : KeysOf(m) \subseteq object

\* An object that no row refers to is known to the collector.
NoOrphan == \A k \in object : k[1] \in row \/ gc[k] # "none"

\* A delivered mail without a row is pending or has a job, whoever failed or
\* died, unless its row was deleted.
MirrorOwed ==
    \A m \in Mails :
        raw[m] = "kept" /\ m \notin row /\ m \notin deleted =>
            m \in pending \/ job[m] # "none"

\* A delivered mail that stays gets into the inbox, or was there.
Mirrored ==
    \A m \in Mails :
        raw[m] = "kept" ~> m \in row \cup deleted \/ raw[m] = "gone"

\* The object of a mail without a row goes, or the mail gets a row.
Collected ==
    \A k \in Key : k \in object /\ k[1] \notin row ~> k \notin object \/ k[1] \in row
=============================================================================
