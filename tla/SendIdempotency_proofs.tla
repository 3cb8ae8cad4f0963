----------------------- MODULE SendIdempotency_proofs -----------------------
(***************************************************************************)
(* An idempotency key stands for one mail, for every number of keys,       *)
(* bodies, calls and rows, as long as the INSERT of a job row does not     *)
(* raise a D1 error.  The argument: without that error no key is handed    *)
(* back, so the row of a key in use keeps its body; the unique index gives *)
(* a body one job row; hence every call of the key ends with that row.     *)
(***************************************************************************)
EXTENDS SendIdempotency, TLAPS

\* A row of a key, or of a job, that is there is a record of its kind.
LEMMA RowKinds ==
    ASSUME TypeOK
    PROVE  /\ \A k \in Keys : Held(k) <=> held[k] \in KeyRow
           /\ \A j \in Ids : Live(j) <=> rows[j] \in JobRow
           /\ \A c \in Calls : call[c].phase # "idle" <=> call[c] \in Call
<1>1. NoRow \notin KeyRow /\ NoJob \notin JobRow
  BY DEF NoRow, NoJob, KeyRow, JobRow
<1>2. \A r \in Call : r.phase # "idle"
  BY DEF Call, Phases
<1>3. QED
  BY <1>1, <1>2 DEF TypeOK, Held, Live, Idle

\* The records that calls are taken through are calls.
LEMMA CallTypes ==
    /\ \A p \in Phases, k \in Keys \cup {NoKey}, b \in Bodies, own \in BOOLEAN :
          Entry(p, k, b, own) \in Call
    /\ \A r \in Call, p \in Phases : At(r, p) \in Call
    /\ \A r \in Call, j \in Ids : Queued(r, j) \in Call
  BY DEF Entry, At, Queued, Call, Phases

LEMMA TypeInit == Init => TypeOK
  BY ConstantsAssumption DEF Init, TypeOK, Empty

\* What each statement writes has its type.
LEMMA TypeStep == TypeOK /\ QueuedHasJob /\ [Next]_vars => TypeOK'
<1> SUFFICES ASSUME TypeOK, QueuedHasJob, [Next]_vars PROVE TypeOK'
  OBVIOUS
<1> USE RowKinds
<1>1. ASSUME NEW c \in Calls, NEW b \in Bodies, Start(c, b) PROVE TypeOK'
  BY <1>1, CallTypes DEF Start, GoOn, TypeOK, Phases
<1>2. ASSUME NEW c \in Calls, NEW k \in Keys, NEW b \in Bodies, Reserve(c, k, b)
      PROVE  TypeOK'
  <2>1. Entry("taken", k, b, TRUE) \in Call /\ Entry("refused", k, b, FALSE) \in Call
    BY CallTypes DEF Phases
  <2>2. call' \in [Calls -> Call \cup {Idle}]
    <3>1. \/ GoOn(c, Entry("taken", k, b, TRUE))
          \/ GoOn(c, Entry("refused", k, b, FALSE))
      BY <1>2 DEF Reserve
    <3>2. QED
      BY <2>1, <3>1 DEF GoOn, TypeOK
  <2>3. held' \in [Keys -> KeyRow \cup {NoRow}]
    <3>1. [body |-> b, job |-> Empty] \in KeyRow
      BY DEF KeyRow
    <3>2. held' = [held EXCEPT ![k] = [body |-> b, job |-> Empty]] \/ UNCHANGED held
      BY <1>2 DEF Reserve
    <3>3. QED
      BY <3>1, <3>2 DEF TypeOK
  <2>4. faults' \in 0 .. MaxFaults
    <3>1. faults' = faults \/ (faults < MaxFaults /\ faults' = faults + 1)
      BY <1>2 DEF Reserve, Error
    <3>2. QED
      BY <3>1, ConstantsAssumption DEF TypeOK
  <2>5. QED
    BY <1>2, <2>2, <2>3, <2>4 DEF Reserve, TypeOK
<1>3. ASSUME NEW c \in Calls, Lookup(c) PROVE TypeOK'
  <2>1. call[c] \in Call
    BY <1>3 DEF Lookup
  <2>2. call' \in [Calls -> Call \cup {Idle}]
    <3>1. At(call[c], "taken") \in Call
      BY <2>1, CallTypes DEF Phases
    <3>2. QED
      BY <1>3, <3>1 DEF Lookup, GoOn, End, TypeOK
  <2>3. answered' \in [Keys -> SUBSET [body : Bodies, job : Ids]]
    <3>1. CASE UNCHANGED answered
      BY <3>1 DEF TypeOK
    <3>2. CASE ~UNCHANGED answered
      <4> DEFINE k == call[c].key
      <4>1. /\ Held(k) /\ SameRequest(held[k], call[c].body) /\ Finished(held[k])
            /\ Tell(k, call[c].body, held[k].job)
        BY <1>3, <3>2 DEF Lookup
      <4>2. QED
        <5>1. CASE k \in Keys
          BY <2>1, <4>1, <5>1 DEF Tell, Finished, TypeOK, KeyRow, Call
        <5>2. CASE k \notin Keys
          BY <4>1, <5>2 DEF Tell, TypeOK
        <5>3. QED
          BY <5>1, <5>2
    <3>3. QED
      BY <3>1, <3>2
  <2>4. QED
    BY <1>3, <2>2, <2>3 DEF Lookup, TypeOK
<1>4. ASSUME NEW c \in Calls, FindExisting(c) PROVE TypeOK'
  <2>1. call[c] \in Call
    BY <1>4 DEF FindExisting
  <2>2. /\ At(call[c], "checked") \in Call
        /\ \A j \in Ids : Queued(call[c], j) \in Call
    BY <2>1, CallTypes DEF Phases
  <2>3. QED
    BY <1>4, <2>2 DEF FindExisting, JobsOf, GoOn, TypeOK
<1>5. ASSUME NEW c \in Calls, InsertJob(c) PROVE TypeOK'
  <2>1. call[c] \in Call
    BY <1>5 DEF InsertJob
  <2>2. inserted < MaxJobs => inserted + 1 \in Ids
    BY ConstantsAssumption DEF TypeOK, Ids
  <2>3. /\ At(call[c], "unqueued") \in Call
        /\ \A j \in Ids : Queued(call[c], j) \in Call
    BY <2>1, CallTypes DEF Phases
  <2>4. call' \in [Calls -> Call \cup {Idle}]
    BY <1>5, <2>2, <2>3 DEF InsertJob, GoOn, TypeOK
  <2>5. rows' \in [Ids -> JobRow \cup {NoJob}] /\ inserted' \in 0 .. MaxJobs
    <3>1. [body |-> call[c].body, settled |-> FALSE] \in JobRow
      BY <2>1 DEF Call, JobRow
    <3>2. CASE UNCHANGED <<rows, inserted>>
      BY <3>2 DEF TypeOK
    <3>3. CASE ~UNCHANGED <<rows, inserted>>
      <4>1. /\ inserted < MaxJobs
            /\ inserted' = inserted + 1
            /\ rows' = [rows EXCEPT ![inserted + 1] = [body |-> call[c].body, settled |-> FALSE]]
        BY <1>5, <3>3 DEF InsertJob
      <4>2. rows' \in [Ids -> JobRow \cup {NoJob}]
        BY <3>1, <4>1 DEF TypeOK
      <4>3. inserted' \in 0 .. MaxJobs
        BY <2>2, <4>1, ConstantsAssumption DEF TypeOK, Ids
      <4>4. QED
        BY <4>2, <4>3
    <3>4. QED
      BY <3>2, <3>3
  <2>6. faults' \in 0 .. MaxFaults
    BY <1>5, ConstantsAssumption DEF InsertJob, Error, TypeOK
  <2>7. QED
    BY <1>5, <2>4, <2>5, <2>6 DEF InsertJob, TypeOK
<1>6. ASSUME NEW c \in Calls, FindWinner(c) PROVE TypeOK'
  <2>1. call[c] \in Call
    BY <1>6 DEF FindWinner
  <2>2. /\ At(call[c], "releasing") \in Call
        /\ \A j \in Ids : Queued(call[c], j) \in Call
    BY <2>1, CallTypes DEF Phases
  <2>3. QED
    BY <1>6, <2>2 DEF FindWinner, JobsOf, GoOn, End, TypeOK
<1>7. ASSUME NEW c \in Calls, Complete(c) PROVE TypeOK'
  <2>1. call[c] \in Call /\ call[c].job \in Ids
    BY <1>7 DEF Complete, QueuedHasJob, Call
  <2>2. call' \in [Calls -> Call \cup {Idle}]
    BY <1>7 DEF Complete, End, TypeOK
  <2>3. held' \in [Keys -> KeyRow \cup {NoRow}]
    BY <1>7, <2>1 DEF Complete, TypeOK, KeyRow, Call
  <2>4. answered' \in [Keys -> SUBSET [body : Bodies, job : Ids]]
    BY <1>7, <2>1 DEF Complete, Tell, TypeOK, Call
  <2>5. QED
    BY <1>7, <2>2, <2>3, <2>4 DEF Complete, TypeOK
<1>8. ASSUME NEW c \in Calls, Release(c) \/ Die(c) PROVE TypeOK'
  BY <1>8, ConstantsAssumption DEF Release, Die, End, TypeOK
<1>9. ASSUME NEW j \in Ids, Settle(j) \/ PruneJob(j) PROVE TypeOK'
  BY <1>9 DEF Settle, PruneJob, TypeOK, JobRow
<1>10. ASSUME NEW k \in Keys, PruneKey(k) PROVE TypeOK'
  BY <1>10 DEF PruneKey, TypeOK
<1>11. CASE UNCHANGED vars
  BY <1>11 DEF vars, TypeOK
<1>12. QED
  BY <1>1, <1>2, <1>3, <1>4, <1>5, <1>6, <1>7, <1>8, <1>9, <1>10, <1>11
     DEF Next, Serve, CallStep

\* A call is changed by its own steps only.
LEMMA OwnStep ==
    ASSUME TypeOK, [Next]_vars, NEW d \in Calls
    PROVE  \/ call'[d] = call[d]
           \/ \E b \in Bodies : Start(d, b)
           \/ \E k \in Keys, b \in Bodies : Reserve(d, k, b)
           \/ CallStep(d)
           \/ Die(d)
<1> USE DEF GoOn, End, Idle
<1>1. ASSUME NEW c \in Calls, c # d,
             \/ \E b \in Bodies : Start(c, b)
             \/ \E k \in Keys, b \in Bodies : Reserve(c, k, b)
             \/ CallStep(c) \/ Die(c)
      PROVE  call'[d] = call[d]
  BY <1>1 DEF Start, Reserve, CallStep, Lookup, FindExisting, InsertJob,
              FindWinner, Complete, Release, Die, TypeOK
<1>2. ASSUME NEW j \in Ids, Settle(j) \/ PruneJob(j) PROVE call' = call
  BY <1>2 DEF Settle, PruneJob
<1>3. ASSUME NEW k \in Keys, PruneKey(k) PROVE call' = call
  BY <1>3 DEF PruneKey
<1>4. CASE UNCHANGED vars
  BY <1>4 DEF vars
<1>5. QED
  BY <1>1, <1>2, <1>3, <1>4 DEF Next, Serve

\* A call that reached "queued" got there with a row.
LEMMA QueuedStep == TypeOK /\ QueuedHasJob /\ [Next]_vars => QueuedHasJob'
<1> SUFFICES ASSUME TypeOK, QueuedHasJob, [Next]_vars,
                    NEW d \in Calls, call'[d].phase = "queued"
             PROVE  call'[d].job # Empty
  BY DEF QueuedHasJob
<1> USE DEF GoOn, End, Idle, Entry, At, Queued
<1>1. CASE call'[d] = call[d]
  BY <1>1 DEF QueuedHasJob
<1>2. ASSUME NEW b \in Bodies, Start(d, b) PROVE FALSE
  BY <1>2 DEF Start, TypeOK
<1>3. ASSUME NEW k \in Keys, NEW b \in Bodies, Reserve(d, k, b) PROVE FALSE
  BY <1>3 DEF Reserve, TypeOK
<1>4. ASSUME Lookup(d) PROVE FALSE
  BY <1>4 DEF Lookup, TypeOK
<1>5. ASSUME FindExisting(d) \/ FindWinner(d) PROVE call'[d].job # Empty
  BY <1>5 DEF FindExisting, FindWinner, JobsOf, TypeOK, Ids, Empty
<1>6. ASSUME InsertJob(d) PROVE call'[d].job # Empty
  BY <1>6, ConstantsAssumption DEF InsertJob, TypeOK, Empty
<1>7. ASSUME Complete(d) \/ Release(d) \/ Die(d) PROVE FALSE
  BY <1>7 DEF Complete, Release, Die, TypeOK
<1>8. QED
  BY <1>1, <1>2, <1>3, <1>4, <1>5, <1>6, <1>7, OwnStep DEF CallStep

-----------------------------------------------------------------------------
(* The invariant.                                                           *)

LEMMA InvInit == Init => SendInv
<1> SUFFICES ASSUME Init PROVE SendInv
  OBVIOUS
<1>1. TypeOK
  BY TypeInit
<1>2. QED
  BY <1>1 DEF Init, SendInv, QueuedHasJob, AnswersAreHeld, OneRowPerBody, CallsKeepKeys,
              CallsKnowRows, Working, Idle, Live

\* The row that the INSERT writes is new, and the only one of its body.
LEMMA InsertedRow ==
    ASSUME SendInv, NEW c \in Calls, InsertJob(c), rows' # rows
    PROVE  /\ inserted' = inserted + 1 /\ inserted + 1 \in Ids
           /\ ~Live(inserted + 1)
           /\ rows'[inserted + 1] = [body |-> call[c].body, settled |-> FALSE]
           /\ rows'[inserted + 1] # NoJob
           /\ \A j \in Ids : j # inserted + 1 => rows'[j] = rows[j]
           /\ \A j \in Ids : Live(j) => rows[j].body # call[c].body
<1>1. /\ inserted < MaxJobs
      /\ inserted' = inserted + 1
      /\ IndexAllows(call[c].body)
      /\ rows' = [rows EXCEPT ![inserted + 1] = [body |-> call[c].body, settled |-> FALSE]]
  BY DEF InsertJob
<1>2. inserted + 1 \in Ids
  BY <1>1, ConstantsAssumption DEF SendInv, TypeOK, Ids
<1>3. ~Live(inserted + 1)
  BY <1>2, ConstantsAssumption DEF SendInv, OneRowPerBody, TypeOK
<1>4. /\ rows'[inserted + 1] = [body |-> call[c].body, settled |-> FALSE]
      /\ \A j \in Ids : j # inserted + 1 => rows'[j] = rows[j]
  BY <1>1, <1>2 DEF SendInv, TypeOK
<1>5. rows'[inserted + 1] # NoJob
  BY <1>4 DEF NoJob
<1>6. QED
  BY <1>1, <1>2, <1>3, <1>4, <1>5 DEF IndexAllows, JobsOf

LEMMA OneRowStep == SendInv /\ [Next]_vars => OneRowPerBody'
<1> SUFFICES ASSUME SendInv, [Next]_vars PROVE OneRowPerBody'
  OBVIOUS
<1>1. CASE UNCHANGED <<rows, inserted>>
  BY <1>1 DEF SendInv, OneRowPerBody, Live
<1>2. ASSUME NEW c \in Calls, InsertJob(c), rows' # rows PROVE OneRowPerBody'
  <2>1. /\ inserted' = inserted + 1 /\ inserted' \in Ids /\ inserted \in Nat
        /\ rows'[inserted'].body = call[c].body
        /\ \A j \in Ids : j # inserted' => rows'[j] = rows[j]
        /\ \A j \in Ids : Live(j) => rows[j].body # call[c].body
    <3>1. /\ inserted' = inserted + 1 /\ inserted + 1 \in Ids
          /\ rows'[inserted + 1] = [body |-> call[c].body, settled |-> FALSE]
          /\ \A j \in Ids : j # inserted + 1 => rows'[j] = rows[j]
          /\ \A j \in Ids : Live(j) => rows[j].body # call[c].body
      BY <1>2, InsertedRow
    <3>2. inserted \in Nat
      BY ConstantsAssumption DEF SendInv, TypeOK
    <3>3. QED
      BY <3>1, <3>2
  <2>2. ASSUME NEW j \in Ids, rows'[j] # NoJob
        PROVE  j = inserted' \/ (Live(j) /\ rows'[j] = rows[j])
    BY <2>1, <2>2 DEF Live
  <2>3. \A j \in Ids : rows'[j] # NoJob => j <= inserted'
    <3>1. \A j \in Ids : j \in Nat /\ (Live(j) => j <= inserted)
      BY ConstantsAssumption DEF SendInv, OneRowPerBody, Ids
    <3>2. QED
      BY <2>1, <2>2, <3>1
  <2>4. \A i, j \in Ids :
           rows'[i] # NoJob /\ rows'[j] # NoJob /\ rows'[i].body = rows'[j].body => i = j
    BY <2>1, <2>2 DEF SendInv, OneRowPerBody
  <2>5. QED
    BY <2>3, <2>4 DEF OneRowPerBody, Live
<1>3. ASSUME NEW c \in Calls, InsertJob(c), rows' = rows PROVE UNCHANGED <<rows, inserted>>
  <2>1. CASE inserted' = inserted
    BY <1>3, <2>1
  <2>2. CASE inserted' # inserted
    <3>1. /\ rows' = [rows EXCEPT ![inserted + 1] = [body |-> call[c].body, settled |-> FALSE]]
          /\ inserted < MaxJobs
      BY <1>3, <2>2 DEF InsertJob
    <3>2. inserted + 1 \in Ids
      BY <3>1, ConstantsAssumption DEF SendInv, TypeOK, Ids
    <3>3. Live(inserted + 1)
      BY <1>3, <3>1, <3>2 DEF SendInv, TypeOK, Live, NoJob
    <3>4. QED
      BY <3>2, <3>3, ConstantsAssumption DEF SendInv, TypeOK, OneRowPerBody
  <2>3. QED
    BY <2>1, <2>2
<1>4. ASSUME NEW j \in Ids, Settle(j) PROVE OneRowPerBody'
  <2>1. rows[j] \in JobRow
    BY <1>4, RowKinds DEF Settle, SendInv
  <2>2. /\ rows'[j].body = rows[j].body
        /\ \A i \in Ids : Live(i)' <=> Live(i)
        /\ \A i \in Ids \ {j} : rows'[i] = rows[i]
    BY <1>4, <2>1 DEF Settle, SendInv, TypeOK, JobRow, Live, NoJob
  <2>3. QED
    BY <1>4, <2>2 DEF Settle, SendInv, OneRowPerBody
<1>5. ASSUME NEW j \in Ids, PruneJob(j) PROVE OneRowPerBody'
  BY <1>5 DEF PruneJob, SendInv, TypeOK, OneRowPerBody, Live
<1>6. QED
  BY <1>1, <1>2, <1>3, <1>4, <1>5
     DEF Next, Serve, CallStep, vars, Start, Reserve, Lookup, FindExisting, FindWinner,
         Complete, Release, Die, PruneKey

\* The rows with a given body after a step that inserts nothing of it.
LEMMA RowsKept ==
    ASSUME SendInv, [Next]_vars, NEW c \in Calls, call[c] # Idle,
           NEW j \in JobsOf(call[c].body)
    PROVE  rows'[j] # NoJob /\ rows'[j].body = call[c].body
<1>1. j \in Ids /\ Live(j) /\ rows[j].body = call[c].body /\ rows[j] \in JobRow
  BY RowKinds DEF JobsOf, SendInv
<1>2. CASE rows'[j] = rows[j]
  BY <1>1, <1>2 DEF Live
<1> SUFFICES rows'[j] = rows[j] \/ (rows'[j] # NoJob /\ rows'[j].body = rows[j].body)
  BY <1>1, <1>2
<1>3. ASSUME NEW d \in Calls, InsertJob(d), rows' # rows PROVE rows'[j] = rows[j]
  BY <1>1, <1>3, InsertedRow
<1>4. ASSUME NEW i \in Ids, Settle(i) PROVE rows'[j] # NoJob /\ rows'[j].body = rows[j].body
  BY <1>1, <1>4 DEF Settle, SendInv, TypeOK, JobRow, Live, NoJob
<1>5. ASSUME NEW i \in Ids, PruneJob(i) PROVE rows'[j] = rows[j]
  BY <1>1, <1>5 DEF PruneJob, SendInv, TypeOK
<1>6. QED
  BY <1>3, <1>4, <1>5
     DEF Next, Serve, CallStep, vars, Start, Reserve, Lookup, FindExisting, FindWinner,
         Complete, Release, Die, PruneKey

\* No call ever hands a key back, and each call that lost the INSERT, or has
\* its job, knows a row of its body.
LEMMA CallsKnowStep ==
    ASSUME SendInv, [Next]_vars, "insert" \notin Failures
    PROVE  CallsKnowRows'
<1> DEFINE Row(j, b) == j \in Ids /\ rows'[j] # NoJob /\ rows'[j].body = b
<1> SUFFICES ASSUME NEW d \in Calls
             PROVE  /\ call'[d].phase # "releasing"
                    /\ call'[d].phase = "unqueued" => \E j : Row(j, call'[d].body)
                    /\ call'[d].phase = "queued" => Row(call'[d].job, call'[d].body)
  BY DEF CallsKnowRows, JobsOf, Live
<1> USE DEF GoOn, End, Entry, At, Queued
<1>a. TypeOK /\ CallsKnowRows
  BY DEF SendInv
<1>b. ASSUME call[d] # Idle, NEW j \in JobsOf(call[d].body) PROVE Row(j, call[d].body)
  BY <1>b, RowsKept DEF JobsOf
<1>1. CASE call'[d] = call[d]
  BY <1>1, <1>a, <1>b DEF CallsKnowRows, Idle
<1>2. ASSUME NEW b \in Bodies, Start(d, b) PROVE call'[d].phase = "taken"
  BY <1>2, <1>a DEF Start, TypeOK
<1>3. ASSUME NEW k \in Keys, NEW b \in Bodies, Reserve(d, k, b)
      PROVE  call'[d].phase \in {"taken", "refused"}
  BY <1>3, <1>a DEF Reserve, TypeOK
<1>4. ASSUME Lookup(d) \/ Complete(d) \/ Release(d) \/ Die(d)
      PROVE  call'[d].phase \in {"taken", "idle"}
  BY <1>4, <1>a DEF Lookup, Complete, Release, Die, TypeOK, Idle
<1>5. CASE FindExisting(d) \/ FindWinner(d)
  <2>1. call[d] # Idle
    BY <1>5 DEF FindExisting, FindWinner, Idle
  <2>2. \/ call'[d].phase = "checked"
        \/ \E j \in JobsOf(call[d].body) : call'[d] = Queued(call[d], j)
    BY <1>5, <1>a DEF FindExisting, FindWinner, TypeOK, CallsKnowRows
  <2>3. ASSUME NEW j \in JobsOf(call[d].body), call'[d] = Queued(call[d], j)
        PROVE  call'[d].phase = "queued" /\ Row(call'[d].job, call'[d].body)
    <3>1. /\ call'[d].phase = "queued" /\ call'[d].job = j
          /\ call'[d].body = call[d].body
      BY <2>3
    <3>2. Row(j, call[d].body)
      BY <1>b, <2>1
    <3>3. QED
      BY <3>1, <3>2
  <2>4. QED
    BY <2>2, <2>3
<1>6. CASE InsertJob(d)
  <2>1. call[d] # Idle
    BY <1>6 DEF InsertJob, Idle
  <2>2. CASE JobsOf(call[d].body) # {} /\ call' = [call EXCEPT ![d] = At(call[d], "unqueued")]
    <3>1. /\ call'[d].phase = "unqueued"
          /\ call'[d].body = call[d].body
      BY <1>a, <2>2 DEF TypeOK
    <3>2. PICK j \in JobsOf(call[d].body) : TRUE
      BY <2>2
    <3>3. Row(j, call[d].body)
      BY <1>b, <2>1
    <3>4. QED
      BY <3>1, <3>3
  <2>3. CASE rows' # rows /\ call' = [call EXCEPT ![d] = Queued(call[d], inserted + 1)]
    <3>1. /\ inserted + 1 \in Ids
          /\ rows'[inserted + 1] = [body |-> call[d].body, settled |-> FALSE]
          /\ rows'[inserted + 1] # NoJob
      BY <1>6, <2>3, InsertedRow
    <3>2. Row(inserted + 1, call[d].body)
      BY <3>1
    <3>3. call'[d] = Queued(call[d], inserted + 1)
      BY <1>a, <2>3 DEF TypeOK
    <3>4. /\ call'[d].phase = "queued" /\ call'[d].job = inserted + 1
          /\ call'[d].body = call[d].body
      BY <3>3
    <3>5. QED
      BY <3>2, <3>4
  <2>4. rows' # rows \/ JobsOf(call[d].body) # {}
    <3>1. CASE IndexAllows(call[d].body)
      <4>1. /\ rows' = [rows EXCEPT ![inserted + 1] = [body |-> call[d].body, settled |-> FALSE]]
            /\ inserted < MaxJobs
        BY <1>6, <3>1 DEF InsertJob, Error
      <4>2. inserted + 1 \in Ids /\ ~(inserted + 1 <= inserted)
        BY <4>1, <1>a, ConstantsAssumption DEF TypeOK, Ids
      <4>3. ~Live(inserted + 1)
        BY <4>2 DEF SendInv, OneRowPerBody
      <4>4. QED
        BY <4>1, <4>2, <4>3, <1>a DEF TypeOK, Live, NoJob
    <3>2. QED
      BY <3>1 DEF IndexAllows
  <2>5. QED
    <3>1. \/ /\ IndexAllows(call[d].body)
             /\ call' = [call EXCEPT ![d] = Queued(call[d], inserted + 1)]
          \/ /\ ~IndexAllows(call[d].body)
             /\ call' = [call EXCEPT ![d] = At(call[d], "unqueued")]
      BY <1>6 DEF InsertJob, Error
    <3>2. QED
      BY <2>2, <2>3, <2>4, <3>1 DEF IndexAllows
<1>7. QED
  BY <1>a, <1>1, <1>2, <1>3, <1>4, <1>5, <1>6, OwnStep DEF CallStep


\* The row of a key that is filled in stays as it is; the row of a key that a
\* call works with stays, and is filled in with a job of its body only.
LEMMA FilledKept ==
    ASSUME SendInv, [Next]_vars, NEW k \in Keys, Held(k), held[k].job # Empty
    PROVE  held'[k] = held[k]
<1>a. TypeOK
  BY DEF SendInv
<1>1. ASSUME NEW c \in Calls, NEW l \in Keys, NEW b \in Bodies, Reserve(c, l, b)
      PROVE  held'[k] = held[k]
  BY <1>1, <1>a DEF Reserve, TypeOK
<1>2. ASSUME NEW c \in Calls, Complete(c) \/ Release(c)
      PROVE  held'[k] = held[k]
  BY <1>2, <1>a DEF Complete, Release, TypeOK
<1>3. ASSUME NEW l \in Keys, PruneKey(l) PROVE held'[k] = held[k]
  BY <1>3, <1>a DEF PruneKey, TypeOK
<1>4. QED
  BY <1>1, <1>2, <1>3 DEF Next, Serve, CallStep, vars, Start, Lookup, FindExisting,
                          InsertJob, FindWinner, Die, Settle, PruneJob

LEMMA KeyKept ==
    ASSUME SendInv, [Next]_vars, NEW k \in Keys, Held(k),
           NEW d \in Calls, Working(d), call[d].key = k
    PROVE  \/ held'[k] = held[k]
           \/ \E c \in Calls :
                 /\ call[c].phase = "queued" /\ call[c].key = k
                 /\ held'[k] = [body |-> held[k].body, job |-> call[c].job]
<1>a. TypeOK /\ CallsKnowRows
  BY DEF SendInv
<1>b. call[d] # Idle
  BY DEF Working, Idle
<1>c. held[k] \in KeyRow
  BY <1>a, RowKinds
<1>1. ASSUME NEW c \in Calls, NEW l \in Keys, NEW b \in Bodies, Reserve(c, l, b)
      PROVE  held'[k] = held[k]
  BY <1>1, <1>a DEF Reserve, TypeOK
<1>2. ASSUME NEW c \in Calls, Complete(c)
      PROVE  held'[k] = held[k] \/ (/\ call[c].phase = "queued" /\ call[c].key = k
                                    /\ held'[k] = [body |-> held[k].body, job |-> call[c].job])
  BY <1>2, <1>a, <1>c DEF Complete, TypeOK, KeyRow
<1>3. ASSUME NEW c \in Calls, Release(c) PROVE FALSE
  BY <1>3, <1>a DEF Release, CallsKnowRows
<1>4. ASSUME NEW l \in Keys, PruneKey(l) PROVE held'[k] = held[k]
  BY <1>4, <1>a, <1>b DEF PruneKey, TypeOK
<1>5. QED
  BY <1>1, <1>2, <1>3, <1>4 DEF Next, Serve, CallStep, vars, Start, Lookup, FindExisting,
                          InsertJob, FindWinner, Die, Settle, PruneJob

\* What CallsKeepKeys says of a key and a body, after the step.
LEMMA CallsKeepStep ==
    ASSUME SendInv, [Next]_vars
    PROVE  CallsKeepKeys'
<1> DEFINE Row(j, b) == j \in Ids /\ rows'[j] # NoJob /\ rows'[j].body = b
           Keeps(k, b) == /\ held'[k] # NoRow
                          /\ held'[k].body = b
                          /\ held'[k].job # Empty => Row(held'[k].job, b)
<1> SUFFICES ASSUME NEW d \in Calls, Working(d)', call'[d].key # NoKey
             PROVE  Keeps(call'[d].key, call'[d].body)
  BY DEF CallsKeepKeys, JobsOf, Live, Held
<1> USE DEF GoOn, End, Entry, At, Queued
<1>a. TypeOK /\ TypeOK' /\ CallsKnowRows /\ CallsKeepKeys
  BY TypeStep DEF SendInv
<1>1. CASE Working(d) /\ call'[d].key = call[d].key /\ call'[d].body = call[d].body
  <2> DEFINE k == call[d].key
             b == call[d].body
  <2>1. /\ k \in Keys /\ call[d] # Idle
        /\ Held(k) /\ held[k].body = b /\ held[k] \in KeyRow
        /\ held[k].job # Empty => held[k].job \in JobsOf(b)
    <3>1. call[d] \in Call
      BY <1>1, <1>a, RowKinds DEF Working
    <3>2. k \in Keys
      BY <1>1, <3>1 DEF Call
    <3>3. QED
      BY <1>1, <1>a, <3>2, RowKinds DEF CallsKeepKeys, Working, Idle
  <2>2. CASE held'[k] = held[k]
    <3>1. held[k].job # Empty => Row(held[k].job, b)
      BY <2>1, RowsKept DEF JobsOf
    <3>2. QED
      BY <1>1, <2>1, <2>2, <3>1 DEF Held
  <2>3. ASSUME NEW c \in Calls, call[c].phase = "queued", call[c].key = k,
               held'[k] = [body |-> held[k].body, job |-> call[c].job]
        PROVE  Keeps(k, b)
    <3>1. call[c] # Idle /\ call[c].job \in JobsOf(call[c].body)
      BY <1>a, <2>3 DEF CallsKnowRows, Idle
    <3>2. call[c].body = b
      BY <1>a, <1>1, <2>1, <2>3 DEF CallsKeepKeys, Working
    <3>3. Row(call[c].job, b)
      BY <3>1, <3>2, RowsKept DEF JobsOf
    <3>4. held'[k] # NoRow
      BY <2>1, <2>3 DEF NoRow
    <3>5. QED
      BY <2>1, <2>3, <3>3, <3>4
  <2>4. QED
    BY <1>1, <2>1, <2>2, <2>3, KeyKept
<1>2. ASSUME NEW b \in Bodies, Start(d, b) PROVE FALSE
  BY <1>2, <1>a DEF Start, TypeOK
<1>3. ASSUME NEW k \in Keys, NEW b \in Bodies, Reserve(d, k, b)
      PROVE  Keeps(call'[d].key, call'[d].body)
  <2>1. /\ ~Held(k)
        /\ held' = [held EXCEPT ![k] = [body |-> b, job |-> Empty]]
        /\ call' = [call EXCEPT ![d] = Entry("taken", k, b, TRUE)]
    BY <1>3, <1>a DEF Reserve, Working, TypeOK
  <2>2. call'[d].key = k /\ call'[d].body = b
    BY <1>a, <2>1 DEF TypeOK
  <2>3. held'[k] = [body |-> b, job |-> Empty]
    BY <1>a, <2>1 DEF TypeOK
  <2>4. QED
    BY <2>2, <2>3 DEF NoRow
<1>4. ASSUME Lookup(d) PROVE Keeps(call'[d].key, call'[d].body)
  <2>1. /\ Held(call[d].key) /\ held[call[d].key].body = call[d].body
        /\ held[call[d].key].job = Empty /\ held' = held
        /\ call' = [call EXCEPT ![d] = At(call[d], "taken")]
    BY <1>4, <1>a DEF Lookup, Working, TypeOK, Idle, SameRequest, Finished
  <2>2. call'[d].key = call[d].key /\ call'[d].body = call[d].body
    BY <1>a, <2>1 DEF TypeOK
  <2>3. QED
    BY <2>1, <2>2 DEF Held
<1>5. ASSUME FindExisting(d) \/ InsertJob(d) \/ FindWinner(d)
      PROVE  Working(d) /\ call'[d].key = call[d].key /\ call'[d].body = call[d].body
  BY <1>5, <1>a DEF FindExisting, InsertJob, FindWinner, Working, TypeOK, Idle
<1>6. ASSUME Complete(d) \/ Release(d) \/ Die(d) PROVE FALSE
  BY <1>6, <1>a DEF Complete, Release, Die, Working, TypeOK, Idle
<1>7. ASSUME call'[d] = call[d]
      PROVE  Working(d) /\ call'[d].key = call[d].key /\ call'[d].body = call[d].body
  BY <1>7 DEF Working
<1>8. QED
  BY <1>a, <1>1, <1>2, <1>3, <1>4, <1>5, <1>6, <1>7, OwnStep DEF CallStep

\* Whatever a caller is told is the filled row of its key.
LEMMA AnswersStep ==
    ASSUME SendInv, [Next]_vars
    PROVE  AnswersAreHeld'
<1> SUFFICES ASSUME NEW k \in Keys, NEW a \in answered'[k]
             PROVE  held'[k] # NoRow /\ held'[k].body = a.body /\ held'[k].job = a.job
  BY DEF AnswersAreHeld, Held
<1>a. TypeOK /\ AnswersAreHeld
  BY DEF SendInv
<1>1. CASE a \in answered[k]
  <2>1. Held(k) /\ held[k].body = a.body /\ held[k].job = a.job
    BY <1>a, <1>1 DEF AnswersAreHeld
  <2>2. held[k].job # Empty
    BY <1>a, <1>1, <2>1 DEF TypeOK, Ids, Empty
  <2>3. held'[k] = held[k]
    BY <2>1, <2>2, FilledKept
  <2>4. QED
    BY <2>1, <2>3 DEF Held
<1>2. ASSUME NEW c \in Calls, Lookup(c), a \notin answered[k]
      PROVE  held'[k] # NoRow /\ held'[k].body = a.body /\ held'[k].job = a.job
  <2>1. /\ Held(call[c].key) /\ held[call[c].key].body = call[c].body
        /\ answered' = [answered EXCEPT ![call[c].key] =
                            @ \cup {[body |-> call[c].body, job |-> held[call[c].key].job]}]
        /\ held' = held
    BY <1>2 DEF Lookup, Tell, SameRequest
  <2>2. k = call[c].key /\ a = [body |-> call[c].body, job |-> held[k].job]
    BY <1>a, <1>2, <2>1 DEF TypeOK
  <2>3. QED
    BY <2>1, <2>2 DEF Held
<1>3. ASSUME NEW c \in Calls, Complete(c), a \notin answered[k]
      PROVE  held'[k] # NoRow /\ held'[k].body = a.body /\ held'[k].job = a.job
  <2> DEFINE b == call[c].body
             j == call[c].job
  <2>1. /\ call[c].phase = "queued" /\ call[c].key # NoKey
        /\ answered' = [answered EXCEPT ![call[c].key] = @ \cup {[body |-> b, job |-> j]}]
        /\ held' = IF Held(call[c].key) /\ held[call[c].key].job = Empty
                   THEN [held EXCEPT ![call[c].key].job = j]
                   ELSE held
    BY <1>3 DEF Complete, Tell
  <2>2. k = call[c].key /\ a = [body |-> b, job |-> j]
    BY <1>a, <1>3, <2>1 DEF TypeOK
  <2>3. /\ Held(k) /\ held[k].body = b
        /\ held[k].job # Empty => held[k].job \in JobsOf(b)
        /\ j \in JobsOf(b)
    BY <2>1, <2>2 DEF SendInv, CallsKeepKeys, CallsKnowRows, Working
  <2>4. held[k] \in KeyRow
    BY <1>a, <2>3, RowKinds
  <2>5. CASE held[k].job = Empty
    <3>1. held' = [held EXCEPT ![k].job = j]
      BY <2>1, <2>2, <2>3, <2>5
    <3>2. held'[k] = [body |-> b, job |-> j]
      BY <1>a, <2>3, <2>4, <3>1 DEF TypeOK, KeyRow
    <3>3. QED
      BY <2>2, <3>2 DEF NoRow
  <2>6. CASE held[k].job # Empty
    <3>1. held[k].job = j
      BY <2>3, <2>6 DEF SendInv, OneRowPerBody, JobsOf
    <3>2. held' = held
      BY <2>1, <2>2, <2>6
    <3>3. QED
      BY <2>2, <2>3, <3>1, <3>2 DEF Held
  <2>7. QED
    BY <2>5, <2>6
<1>4. ASSUME a \notin answered[k] PROVE \E c \in Calls : Lookup(c) \/ Complete(c)
  BY <1>4 DEF Next, Serve, CallStep, vars, Start, Reserve, FindExisting, InsertJob,
              FindWinner, Release, Die, Settle, PruneJob, PruneKey
<1>5. QED
  BY <1>1, <1>2, <1>3, <1>4

-----------------------------------------------------------------------------
(* The theorems.                                                            *)

\* The type invariant, which bounds what the calls, the two tables and the
\* callers hold whatever the D1 errors (enqueueExternalSend).
THEOREM TypeCorrect == Spec => []TypeOK
<1>1. Init => TypeOK /\ QueuedHasJob
  BY InvInit DEF SendInv
<1>2. TypeOK /\ QueuedHasJob /\ [Next]_vars => TypeOK' /\ QueuedHasJob'
  BY TypeStep, QueuedStep
<1>3. QED
  BY <1>1, <1>2, PTL DEF Spec

LEMMA SendInvHolds ==
    ASSUME "insert" \notin Failures
    PROVE  Spec => []SendInv
<1>1. SendInv /\ [Next]_vars => SendInv'
  <2> SUFFICES ASSUME SendInv, [Next]_vars PROVE SendInv'
    OBVIOUS
  <2>1. TypeOK' /\ QueuedHasJob'
    BY TypeStep, QueuedStep DEF SendInv
  <2>2. AnswersAreHeld' /\ OneRowPerBody' /\ CallsKeepKeys' /\ CallsKnowRows'
    BY AnswersStep, OneRowStep, CallsKeepStep, CallsKnowStep
  <2>3. QED
    BY <2>1, <2>2 DEF SendInv
<1>2. QED
  BY <1>1, InvInit, PTL DEF Spec

\* As long as the INSERT of a job row raises no D1 error, all the callers that
\* were told a job under an x-idempotency-key were told the same one, whatever
\* overlaps, deaths, errors of the reservation and prunes there were
\* (enqueueExternalSend with its idempotency table).
THEOREM KeyStandsForOneMail ==
    ASSUME "insert" \notin Failures
    PROVE  Spec => []KeyAnswersOnce
<1>1. SendInv => KeyAnswersOnce
  <2> SUFFICES ASSUME SendInv, NEW k \in Keys, NEW a \in answered[k], NEW b \in answered[k]
               PROVE  a = b
    BY DEF KeyAnswersOnce
  <2>1. a.body = b.body /\ a.job = b.job
    BY DEF SendInv, AnswersAreHeld
  <2>2. a \in [body : Bodies, job : Ids] /\ b \in [body : Bodies, job : Ids]
    BY DEF SendInv, TypeOK
  <2>3. QED
    BY <2>1, <2>2
<1>2. QED
  BY <1>1, SendInvHolds, PTL

\* No call whose key has been answered inserts a job, however far it had got
\* before the answer (the race at the SELECT and the INSERT of
\* enqueueExternalSend), under the same condition.
THEOREM AnsweredKeysAreSpent ==
    ASSUME "insert" \notin Failures
    PROVE  Spec => AnsweredKeySendsNothing
<1> DEFINE Spent == \A c \in Calls :
                      /\ call[c].phase = "checked"
                      /\ call[c].key # NoKey
                      /\ answered[call[c].key] # {}
                      => ~(rows' # rows /\ call' # call /\ call'[c] # call[c])
<1>1. SendInv /\ [Next]_vars => [Spent]_vars
  <2> SUFFICES ASSUME SendInv, [Next]_vars, NEW c \in Calls,
                      call[c].phase = "checked", call[c].key # NoKey,
                      answered[call[c].key] # {},
                      rows' # rows, call'[c] # call[c]
               PROVE  FALSE
    OBVIOUS
  <2>a. TypeOK
    BY DEF SendInv
  <2>1. PICK a \in answered[call[c].key] : TRUE
    OBVIOUS
  <2>2. call[c].key \in Keys
    BY <2>a, RowKinds DEF Call
  <2>3. JobsOf(call[c].body) # {}
    <3>1. /\ held[call[c].key].job = a.job /\ a.job # Empty
      BY <2>a, <2>1, <2>2 DEF SendInv, AnswersAreHeld, TypeOK, Ids, Empty
    <3>2. QED
      BY <3>1 DEF SendInv, CallsKeepKeys, Working
  <2>4. InsertJob(c)
    <3>1. CASE CallStep(c) \/ Die(c)
      BY <3>1 DEF CallStep, Lookup, FindExisting, FindWinner, Complete, Release, Die
    <3>2. ASSUME NEW b \in Bodies, NEW k \in Keys, Start(c, b) \/ Reserve(c, k, b)
          PROVE  FALSE
      BY <3>2 DEF Start, Reserve, Idle
    <3>3. ASSUME NEW b \in Bodies, Start(c, b) PROVE FALSE
      BY <3>3 DEF Start, Idle
    <3>4. QED
      BY <2>a, <3>1, <3>2, <3>3, OwnStep
  <2>5. QED
    BY <2>3, <2>4 DEF InsertJob, IndexAllows
<1>2. QED
  BY <1>1, SendInvHolds, PTL DEF Spec, AnsweredKeySendsNothing

=============================================================================
