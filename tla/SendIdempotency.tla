--------------------------- MODULE SendIdempotency ---------------------------
(***************************************************************************)
(* Queueing a mail that an external account sends                          *)
(* (worker/src/mails_api/send_mail_api.ts, enqueueExternalSend): one row   *)
(* of outbound_mail_jobs per request body, and one row of                  *)
(* gmail_reroute_idempotency per x-idempotency-key, which is taken before  *)
(* the job exists and filled in afterwards.                                *)
(*                                                                         *)
(* Each D1 statement is an action; calls interleave at every await, may    *)
(* die at every await, and statements may fail with or without effect.     *)
(***************************************************************************)
EXTENDS Naturals, FiniteSets

CONSTANTS
    Keys,      \* values of the x-idempotency-key header
    Bodies,    \* requests, told apart by (account_id, request_hash)
    Calls,     \* concurrent calls of enqueueExternalSend
    Failures,  \* the statements that may raise a D1 error
    MaxJobs,   \* bound: job rows ever inserted
    MaxFaults  \* bound: deaths of calls and D1 errors

NoKey == "no key"
NoRow == [job |-> "absent"]
Ids   == 1 .. MaxJobs
Empty == 0                   \* job_id = ''

ASSUME ConstantsAssumption ==
    /\ NoKey \notin Keys
    /\ Failures \subseteq {"reserve", "insert"}
    /\ MaxJobs \in Nat
    /\ MaxFaults \in Nat

VARIABLES
    held,      \* gmail_reroute_idempotency: key -> body and job id
    rows,      \* outbound_mail_jobs: body and whether the job is settled
    inserted,  \* how many job rows were ever inserted
    call,      \* calls between two awaits
    faults,    \* how many deaths and D1 errors there were
    answered   \* history: the bodies and jobs that callers of a key were told

vars == <<held, rows, inserted, call, faults, answered>>

KeyRow == [body : Bodies, job : Ids \cup {Empty}]
JobRow == [body : Bodies, settled : BOOLEAN]
Idle   == [phase |-> "idle"]
Phases == {"taken", "checked", "unqueued", "queued", "refused", "releasing"}
Call   == [phase : Phases, key : Keys \cup {NoKey}, body : Bodies,
           owned : BOOLEAN, job : Ids \cup {Empty}]
NoJob  == [body |-> "absent"]

TypeOK ==
    /\ held \in [Keys -> KeyRow \cup {NoRow}]
    /\ rows \in [Ids -> JobRow \cup {NoJob}]
    /\ inserted \in 0 .. MaxJobs
    /\ call \in [Calls -> Call \cup {Idle}]
    /\ faults \in 0 .. MaxFaults
    /\ answered \in [Keys -> SUBSET [body : Bodies, job : Ids]]

Init ==
    /\ held = [k \in Keys |-> NoRow]
    /\ rows = [j \in Ids |-> NoJob]
    /\ inserted = 0
    /\ call = [c \in Calls |-> Idle]
    /\ faults = 0
    /\ answered = [k \in Keys |-> {}]

-----------------------------------------------------------------------------
Held(k) == held[k] # NoRow
Live(j) == rows[j] # NoJob
JobsOf(b) == {j \in Ids : Live(j) /\ rows[j].body = b}

Entry(p, k, b, own) == [phase |-> p, key |-> k, body |-> b, owned |-> own, job |-> Empty]
At(r, p)     == [phase |-> p, key |-> r.key, body |-> r.body,
                 owned |-> r.owned, job |-> r.job]
Queued(r, j) == [phase |-> "queued", key |-> r.key, body |-> r.body,
                 owned |-> r.owned, job |-> j]

\* The call c goes on as r; or ends, with or without an answer.
GoOn(c, r) == call' = [call EXCEPT ![c] = r]
End(c) == call' = [call EXCEPT ![c] = Idle]
\* The statement raises a D1 error, whether or not it had its effect.
Error(statement) ==
    /\ statement \in Failures
    /\ faults < MaxFaults
    /\ faults' = faults + 1
Tell(k, b, j) ==
    answered' = [answered EXCEPT ![k] = @ \cup {[body |-> b, job |-> j]}]

\* The checks, the account lookup and the Gmail reply route settle what is to
\* be sent; a call starts with the body's hash.  Without the header it goes
\* straight to the job table.
Start(c, b) ==
    /\ call[c] = Idle
    /\ GoOn(c, Entry("taken", NoKey, b, FALSE))
    /\ UNCHANGED <<held, rows, inserted, answered, faults>>

\* reserveSendMailIdempotency, its INSERT: the primary key decides.
Reserve(c, k, b) ==
    /\ call[c] = Idle
    /\ LET mine == Entry("taken", k, b, TRUE)
           other == Entry("refused", k, b, FALSE)
       IN \/ /\ ~Held(k)
             /\ held' = [held EXCEPT ![k] = [body |-> b, job |-> Empty]]
             /\ \/ GoOn(c, mine) /\ UNCHANGED faults
                \/ GoOn(c, other) /\ Error("reserve")
          \/ /\ GoOn(c, other)
             /\ \/ Held(k) /\ UNCHANGED faults
                \/ ~Held(k) /\ Error("reserve")
             /\ UNCHANGED held
    /\ UNCHANGED <<rows, inserted, answered>>

\* Faulty variant, for the mutants.
SameRequestAny(row, b) == TRUE

\* The body a key was taken for.
SameRequest(row, b) == row.body = b

\* Faulty variants, for the mutants.
FinishedAny(row) == TRUE
ResumableNever(row) == FALSE

Finished(row) == row.job # Empty
Resumable(row) == row.job = Empty

\* lookupSendMailIdempotency after the INSERT was refused: gone (500), another
\* body (409), a finished reservation (its job is the answer), or one that an
\* earlier call of the same request has not finished.
Lookup(c) ==
    /\ call[c].phase = "refused"
    /\ LET k == call[c].key
           b == call[c].body
           same == Held(k) /\ SameRequest(held[k], b)
       IN \/ /\ ~same
             /\ End(c)
             /\ UNCHANGED answered
          \/ /\ same /\ Finished(held[k])
             /\ End(c)
             /\ Tell(k, b, held[k].job)
          \/ /\ same /\ ~Finished(held[k])
             /\ IF Resumable(held[k]) THEN GoOn(c, At(call[c], "taken"))
                                      ELSE End(c)
             /\ UNCHANGED answered
    /\ UNCHANGED <<held, rows, inserted, faults>>

\* SELECT ... WHERE account_id = ? AND request_hash = ?
FindExisting(c) ==
    /\ call[c].phase = "taken"
    /\ \/ \E j \in JobsOf(call[c].body) :
             GoOn(c, Queued(call[c], j))
       \/ /\ JobsOf(call[c].body) = {}
          /\ GoOn(c, At(call[c], "checked"))
    /\ UNCHANGED <<held, rows, inserted, answered, faults>>

\* Faulty variant, for the mutants.
IndexNone(b) == TRUE

\* The unique index on (account_id, request_hash).
IndexAllows(b) == JobsOf(b) = {}

\* The INSERT of the job row; a D1 error may hide that it was written.
InsertJob(c) ==
    /\ call[c].phase = "checked"
    /\ LET b == call[c].body
           id == inserted + 1
           caught == GoOn(c, At(call[c], "unqueued"))
       IN \/ /\ IndexAllows(b)
             /\ inserted < MaxJobs
             /\ rows' = [rows EXCEPT ![id] = [body |-> b, settled |-> FALSE]]
             /\ inserted' = id
             /\ \/ /\ GoOn(c, Queued(call[c], id))
                   /\ UNCHANGED faults
                \/ caught /\ Error("insert")
          \/ /\ caught
             /\ \/ ~IndexAllows(b) /\ UNCHANGED faults
                \/ IndexAllows(b) /\ Error("insert")
             /\ UNCHANGED <<rows, inserted>>
    /\ UNCHANGED <<held, answered>>

\* The catch block: the winner of the race is re-read; without one nothing was
\* queued, and the owner of the key hands it back.
FindWinner(c) ==
    /\ call[c].phase = "unqueued"
    /\ \/ \E j \in JobsOf(call[c].body) :
             GoOn(c, Queued(call[c], j))
       \/ /\ JobsOf(call[c].body) = {}
          /\ IF call[c].owned THEN GoOn(c, At(call[c], "releasing"))
                              ELSE End(c)
    /\ UNCHANGED <<held, rows, inserted, answered, faults>>

\* completeSendMailIdempotency fills in a key that has no job yet; then the
\* caller is told the job.
Complete(c) ==
    /\ call[c].phase = "queued"
    /\ LET k == call[c].key
           j == call[c].job
       IN IF k = NoKey
          THEN UNCHANGED <<held, answered>>
          ELSE /\ held' = IF Held(k) /\ held[k].job = Empty
                          THEN [held EXCEPT ![k].job = j]
                          ELSE held
               /\ Tell(k, call[c].body, j)
    /\ End(c)
    /\ UNCHANGED <<rows, inserted, faults>>

\* releaseSendMailIdempotency.
Release(c) ==
    /\ call[c].phase = "releasing"
    /\ LET k == call[c].key
       IN held' = IF Held(k) /\ held[k].job = Empty
                  THEN [held EXCEPT ![k] = NoRow]
                  ELSE held
    /\ End(c)
    /\ UNCHANGED <<rows, inserted, answered, faults>>

\* The isolate is evicted, or a statement outside the try block throws.
Die(c) ==
    /\ call[c] # Idle
    /\ End(c)
    /\ faults < MaxFaults
    /\ faults' = faults + 1
    /\ UNCHANGED <<held, rows, inserted, answered>>

\* The agent settles the job (module OutboundDelivery).
Settle(j) ==
    /\ Live(j) /\ ~rows[j].settled
    /\ rows' = [rows EXCEPT ![j].settled = TRUE]
    /\ UNCHANGED <<held, inserted, call, answered, faults>>

\* pruneTerminalJobs, of a row settled 30 days ago.  The daily prune is taken
\* to fall between the calls (of seconds) that send the same body again.
PruneJob(j) ==
    /\ Live(j) /\ rows[j].settled
    /\ \A c \in Calls : call[c] # Idle => call[c].body # rows[j].body
    /\ rows' = [rows EXCEPT ![j] = NoJob]
    /\ UNCHANGED <<held, inserted, call, answered, faults>>

\* An unfilled reservation of that age belongs to no call in flight.
PruneKey(k) ==
    /\ Held(k) /\ held[k].job = Empty
    /\ \A c \in Calls : call[c] # Idle => call[c].key # k
    /\ held' = [held EXCEPT ![k] = NoRow]
    /\ UNCHANGED <<rows, inserted, call, answered, faults>>

\* The steps a call takes by itself.
CallStep(c) ==
    \/ Lookup(c)
    \/ FindExisting(c)
    \/ InsertJob(c)
    \/ FindWinner(c)
    \/ Complete(c)
    \/ Release(c)

Serve ==
    \/ \E c \in Calls :
          \/ \E b \in Bodies : Start(c, b)
          \/ \E k \in Keys, b \in Bodies : Reserve(c, k, b)
          \/ CallStep(c)
          \/ Die(c)
    \/ \E j \in Ids : Settle(j)

Next ==
    \/ Serve
    \/ \E j \in Ids : PruneJob(j)
    \/ \E k \in Keys : PruneKey(k)

Spec == Init /\ [][Next]_vars

\* A client that goes on sending an unfinished key with its own body.
Retry(k) ==
    /\ Held(k) /\ held[k].job = Empty
    /\ \E c \in Calls : Reserve(c, k, held[k].body)

\* Calls run on unless they die, and the client does not give up before it has
\* an answer, though others may hold the slots of Calls.  The days after which
\* rows are pruned are out of sight.
FairSpec ==
    /\ Init /\ [][Serve]_vars
    /\ \A c \in Calls : WF_vars(CallStep(c))
    /\ \A k \in Keys : SF_vars(Retry(k))

-----------------------------------------------------------------------------
(* Properties.                                                              *)

\* A key stands for one mail: every caller that was told a job under a key was
\* told the same job for the same body, however the calls overlapped, died and
\* were repeated, and though the job row itself may be gone.
KeyAnswersOnce ==
    \A k \in Keys : \A a, b \in answered[k] : a = b

\* Why: a call past its reservation works on the body its key was taken for,
\* every answer is still the key's row, a body has one job row, and a call
\* whose key was finished meanwhile will find that same job.
Working(c) == call[c].phase \in {"taken", "checked", "unqueued", "queued"}

AnswersAreHeld ==
    \A k \in Keys : \A a \in answered[k] : Held(k) /\ held[k].body = a.body
                                                  /\ held[k].job = a.job
OneRowPerBody ==
    /\ \A j \in Ids : Live(j) => j <= inserted
    /\ \A i, j \in Ids : Live(i) /\ Live(j) /\ rows[i].body = rows[j].body => i = j

CallsKeepKeys ==
    \A c \in Calls : Working(c) /\ call[c].key # NoKey =>
        LET k == call[c].key
        IN /\ Held(k)
           /\ held[k].body = call[c].body
           /\ held[k].job # Empty => held[k].job \in JobsOf(call[c].body)

CallsKnowRows ==
    \A c \in Calls :
        /\ call[c].phase # "releasing"
        /\ call[c].phase = "unqueued" => JobsOf(call[c].body) # {}
        /\ call[c].phase = "queued" => call[c].job \in JobsOf(call[c].body)

\* The part of a call's type that depends on its phase.
QueuedHasJob ==
    \A c \in Calls : call[c].phase = "queued" => call[c].job # Empty

SendInv ==
    /\ TypeOK /\ QueuedHasJob
    /\ AnswersAreHeld /\ OneRowPerBody /\ CallsKeepKeys /\ CallsKnowRows

\* "A row whose job id is filled in is what stops the same x-idempotency-key
\* from sending twice" (job_pruning.ts:16): no job is inserted by a call whose
\* key has been answered, even one that passed its checks before the answer.
AnsweredKeySendsNothing ==
    [][\A c \in Calls :
          /\ call[c].phase = "checked"
          /\ call[c].key # NoKey
          /\ answered[call[c].key] # {}
          => ~(rows' # rows /\ call' # call /\ call'[c] # call[c])]_vars

\* "If that owner dies mid-flight the row is left behind, and a retry with the
\* same key and body still completes it" (send_mail_limit_utils.ts:430).
UnfinishedKeyResolves ==
    \A k \in Keys : Held(k) /\ held[k].job = Empty
                       ~> (~Held(k) \/ held[k].job # Empty)
=============================================================================
