-------------------------- MODULE MailStore_proofs --------------------------
(***************************************************************************)
(* Rows keep their objects, the collector knows every other object, and a  *)
(* delivered mail is owed to the inbox: for any mails, attachments, runs   *)
(* of the scheduler and of the collector, and any number of faults.        *)
(*                                                                         *)
(* The argument is about one key at a time.  While a save claims a key, no *)
(* drain knows the present value of its attachment_gc row, and the row is  *)
(* fresh (SaverOK).  What a drain found out about a key is still so as     *)
(* long as it knows that value (DrainOK).  So the key that a drain leases  *)
(* is no save's and no row's, and stays so until it is closed.             *)
(***************************************************************************)
EXTENDS MailStore, TLAPS

-----------------------------------------------------------------------------
(* Types.                                                                   *)

Busy   == {"paged", "dropping", "saving", "registered", "inserted", "saved", "failed"}
Sweeps == {"listed", "looked", "leased", "removed", "failed"}

LEMMA BusySave ==
    ASSUME TypeOK, NEW s \in Savers, saver[s].phase # "idle"
    PROVE  /\ saver[s] \in Save /\ saver[s].phase \in Busy
           /\ Mail(s) \in Mails /\ saver[s].at \in 0 .. MaxParts
           /\ saver[s].phase = "registered" => saver[s].at > 0
<1>1. saver[s] \in Save \cup {Idle}
  BY DEF TypeOK
<1>2. saver[s] \in Save
  BY <1>1 DEF Idle
<1>3. QED
  BY <1>2 DEF Save, Busy, Mail

LEMMA SaverSet ==
    ASSUME TypeOK, NEW s \in Savers, NEW r \in Save \cup {Idle},
           saver' = [saver EXCEPT ![s] = r]
    PROVE  saver' \in [Savers -> Save \cup {Idle}]
  BY DEF TypeOK

LEMMA GoesType ==
    ASSUME TypeOK, NEW s \in Savers, saver[s].phase # "idle", NEW p \in Busy \ {"registered"}, Goes(s, p)
    PROVE  /\ saver' \in [Savers -> Save \cup {Idle}]
           /\ saver'[s] = [phase |-> p, mail |-> saver[s].mail, at |-> saver[s].at]
           /\ \A t \in Savers \ {s} : saver'[t] = saver[t]
<1>1. saver[s] \in Save
  BY BusySave
<1>2. [saver[s] EXCEPT !.phase = p] = [phase |-> p, mail |-> saver[s].mail, at |-> saver[s].at]
  BY <1>1 DEF Save
<1>3. [phase |-> p, mail |-> saver[s].mail, at |-> saver[s].at] \in Save
  BY <1>1 DEF Save, Busy
<1>4. QED
  BY <1>2, <1>3 DEF Goes, TypeOK

LEMMA EndsType ==
    ASSUME TypeOK, NEW s \in Savers, Ends(s)
    PROVE  /\ saver' \in [Savers -> Save \cup {Idle}]
           /\ saver'[s] = Idle
           /\ \A t \in Savers \ {s} : saver'[t] = saver[t]
  BY DEF TypeOK, Ends

LEMMA QueueType ==
    ASSUME TypeOK, NEW K, Queue(K)
    PROVE  /\ gc' \in [Key -> {"none", "fresh", "old", "leased"}]
           /\ fence' \in [Key -> SUBSET Drains]
  BY DEF TypeOK, Queue

LEMMA ForgetType ==
    ASSUME TypeOK, NEW K, Forget(K)
    PROVE  /\ gc' \in [Key -> {"none", "fresh", "old", "leased"}]
           /\ fence' \in [Key -> SUBSET Drains]
  BY DEF TypeOK, Forget

LEMMA DrainTyped ==
    ASSUME TypeOK, NEW d \in Drains, drain[d].phase # "idle"
    PROVE  /\ drain[d] \in Sweep /\ drain[d].phase \in Sweeps
           /\ drain[d].left \subseteq Key /\ drain[d].used \subseteq Key
           /\ drain[d].phase \notin {"listed", "looked"} => drain[d].key \in Key
<1>1. drain[d] \in Sweep \cup {Idle}
  BY DEF TypeOK
<1>2. drain[d] \in Sweep
  BY <1>1 DEF Idle
<1>3. QED
  BY <1>2 DEF Sweep, Sweeps

LEMMA RestType ==
    ASSUME TypeOK, NEW d \in Drains, drain[d].phase # "idle", NEW k
    PROVE  Rest(d, k) \in Sweep
  BY DrainTyped DEF Rest, Sweep

LEMMA DrainSet ==
    ASSUME TypeOK, NEW d \in Drains, NEW r \in Sweep \cup {Idle},
           drain' = [drain EXCEPT ![d] = r]
    PROVE  drain' \in [Drains -> Sweep \cup {Idle}]
  BY DEF TypeOK

\* A drain with a key moves on to another phase.
LEMMA DrainMoves ==
    ASSUME TypeOK, NEW d \in Drains, drain[d].phase = "leased", NEW p \in {"removed", "failed"},
           drain' = [drain EXCEPT ![d].phase = p]
    PROVE  /\ drain' \in [Drains -> Sweep \cup {Idle}]
           /\ drain'[d] = [phase |-> p, left |-> drain[d].left, used |-> drain[d].used,
                           key |-> drain[d].key]
<1>1. drain[d] \in Sweep \cup {Idle}
  BY DEF TypeOK
<1>2. drain[d] \in [phase : {"leased", "removed", "failed"}, left : SUBSET Key,
                    used : SUBSET Key, key : Key]
  BY <1>1 DEF Idle, Sweep
<1>3. [drain[d] EXCEPT !.phase = p] = [phase |-> p, left |-> drain[d].left,
                                       used |-> drain[d].used, key |-> drain[d].key]
  BY <1>2
<1>4. [phase |-> p, left |-> drain[d].left, used |-> drain[d].used, key |-> drain[d].key] \in Sweep
  BY <1>2 DEF Sweep
<1>5. QED
  BY <1>3, <1>4 DEF TypeOK

LEMMA FaultType ==
    ASSUME TypeOK, Fault
    PROVE  faults' \in 0 .. MaxFaults
  BY ConstantsAssumption DEF TypeOK, Fault

LEMMA PartsTyped ==
    ASSUME TypeOK, NEW m \in Mails
    PROVE  kind[m].parts \in 0 .. MaxParts
  BY ConstantsAssumption DEF TypeOK, Kinds

LEMMA KeyTyped ==
    ASSUME NEW m \in Mails, NEW i \in 1 .. MaxParts
    PROVE  <<m, i>> \in Key /\ <<m, i>>[1] = m /\ <<m, i>>[2] = i
  BY DEF Key

\* The key that a save is about to write.
LEMMA ObjectTyped ==
    ASSUME TypeOK, NEW s \in Savers, saver[s].phase = "registered"
    PROVE  /\ <<Mail(s), saver[s].at>> \in Key
           /\ saver[s].at \in 1 .. MaxParts
<1>1. Mail(s) \in Mails /\ saver[s].at \in 0 .. MaxParts /\ saver[s].at > 0
  BY BusySave
<1>2. saver[s].at \in 1 .. MaxParts
  BY <1>1, ConstantsAssumption
<1>3. QED
  BY <1>1, <1>2, KeyTyped

LEMMA TypeSave ==
    ASSUME TypeOK, NEW s \in Savers,
           Saves(s) \/ Answered(s) \/ PutFails(s) \/ Withhold(s) \/ Break(s) \/ Die(s)
    PROVE  TypeOK'
<1> USE DEF queue, garbage, In
<1>1. CASE Register(s)
  <2>1. saver[s].phase # "idle"
    BY <1>1 DEF Register
  <2>2. saver[s] \in Save /\ Mail(s) \in Mails /\ saver[s].at \in 0 .. MaxParts
    BY <2>1, BusySave
  <2>3. kind[Mail(s)].parts \in 0 .. MaxParts /\ MaxParts \in Nat
    BY <2>2, PartsTyped, ConstantsAssumption
  <2>4. saver[s].at < kind[Mail(s)].parts
    BY <1>1 DEF Register
  <2>5. saver[s].at + 1 \in 0 .. MaxParts
    BY <2>2, <2>3, <2>4
  <2>6. [phase |-> "registered", mail |-> Mail(s), at |-> saver[s].at + 1] \in Save
    BY <2>2, <2>5, saver[s].at + 1 > 0 DEF Save
  <2>7. saver' \in [Savers -> Save \cup {Idle}]
    BY <1>1, <2>6 DEF Register, TypeOK
  <2>8. gc' \in [Key -> {"none", "fresh", "old", "leased"}] /\ fence' \in [Key -> SUBSET Drains]
    BY <1>1, QueueType DEF Register
  <2>9. QED
    BY <1>1, <2>7, <2>8 DEF Register, TypeOK
<1>2. CASE Refuse(s)
  <2>1. saver' \in [Savers -> Save \cup {Idle}]
    BY <1>2, GoesType DEF Refuse, Busy
  <2>2. QED
    BY <1>2, <2>1 DEF Refuse, TypeOK
<1>3. CASE Put(s)
  <2>1. saver' \in [Savers -> Save \cup {Idle}]
    BY <1>3, GoesType DEF Put, Busy
  <2>2. saver[s].phase # "idle"
    BY <1>3 DEF Put
  <2>3. QED
    BY <1>3, <2>1, ObjectTyped DEF Put, TypeOK
<1>4. CASE InsertRow(s)
  <2>1. saver' \in [Savers -> Save \cup {Idle}]
    BY <1>4, GoesType DEF InsertRow, Busy
  <2>2. Mail(s) \in Mails
    BY <1>4, BusySave DEF InsertRow
  <2>3. QED
    BY <1>4, <2>1, <2>2 DEF InsertRow, TypeOK
<1>5. CASE Release(s)
  <2>1. saver' \in [Savers -> Save \cup {Idle}]
    BY <1>5, GoesType DEF Release, Busy
  <2>2. gc' \in [Key -> {"none", "fresh", "old", "leased"}] /\ fence' \in [Key -> SUBSET Drains]
    BY <1>5, ForgetType DEF Release
  <2>3. QED
    BY <1>5, <2>1, <2>2 DEF Release, TypeOK
<1>6. CASE Answered(s)
  <2>1. saver' \in [Savers -> Save \cup {Idle}]
    BY <1>6, EndsType DEF Answered
  <2>2. QED
    BY <1>6, <2>1 DEF Answered, TypeOK
<1>7. CASE PutFails(s)
  <2>1. saver' \in [Savers -> Save \cup {Idle}]
    BY <1>7, GoesType DEF PutFails, Busy
  <2>2. object' \subseteq Key
    BY <1>7, ObjectTyped DEF PutFails, TypeOK
  <2>3. QED
    BY <1>7, <2>1, <2>2, FaultType DEF PutFails, TypeOK
<1>8. CASE Withhold(s)
  <2>1. saver' \in [Savers -> Save \cup {Idle}]
    BY <1>8, EndsType DEF Withhold
  <2>2. QED
    BY <1>8, <2>1, FaultType DEF Withhold, TypeOK
<1>9. CASE Break(s)
  <2>1. saver' \in [Savers -> Save \cup {Idle}]
    BY <1>9, GoesType DEF Break, Busy
  <2>2. QED
    BY <1>9, <2>1, FaultType DEF Break, TypeOK
<1>10. CASE Die(s)
  <2>1. saver' \in [Savers -> Save \cup {Idle}]
    BY <1>10, EndsType DEF Die
  <2>2. QED
    BY <1>10, <2>1, FaultType DEF Die, TypeOK
<1>11. QED
  BY <1>1, <1>2, <1>3, <1>4, <1>5, <1>6, <1>7, <1>8, <1>9, <1>10 DEF Saves

LEMMA TypeMirror ==
    ASSUME TypeOK, NEW s \in Savers,
           \/ s \in Mails /\ (Receive(s) \/ Send(s) \/ MarkComplete(s) \/ Enqueue(s)
                                \/ JobDue(s) \/ RemoveRaw(s))
           \/ s \in Crons /\ (Mirror(s) \/ \E m \in Mails : Page(s, m) \/ LeaseJob(s, m))
    PROVE  TypeOK'
<1> USE DEF queue, garbage, In
<1>1. CASE s \in Mails /\ (Receive(s) \/ Send(s))
  <2>1. [phase |-> "saving", mail |-> s, at |-> 0] \in Save
    BY <1>1, ConstantsAssumption DEF Save
  <2>2. saver' \in [Savers -> Save \cup {Idle}]
    BY <1>1, <2>1, SaverSet DEF Receive, Send
  <2>3. QED
    BY <1>1, <2>2 DEF Receive, Send, TypeOK
<1>2. CASE s \in Mails /\ (MarkComplete(s) \/ Enqueue(s))
  <2>1. saver' \in [Savers -> Save \cup {Idle}]
    BY <1>2, EndsType DEF MarkComplete, Enqueue
  <2>2. QED
    BY <1>2, <2>1 DEF MarkComplete, Enqueue, TypeOK
<1>3. CASE s \in Mails /\ (JobDue(s) \/ RemoveRaw(s))
  BY <1>3 DEF JobDue, RemoveRaw, TypeOK
<1>4. CASE s \in Crons /\ Mirror(s)
  <2>1. saver' \in [Savers -> Save \cup {Idle}]
    BY <1>4, EndsType DEF Mirror, Reconcile, Drop, Succeed, Retry, CloseJob
  <2>2. Mail(s) \in Mails
    BY <1>4, BusySave DEF Mirror, Reconcile, Drop, Succeed, Retry
  <2>3. CASE Reconcile(s)
    BY <2>1, <2>2, <2>3 DEF Reconcile, TypeOK
  <2>4. CASE Drop(s)
    BY <2>1, <2>2, <2>4 DEF Drop, CloseJob, TypeOK
  <2>5. CASE Succeed(s)
    BY <2>1, <2>2, <2>5 DEF Succeed, CloseJob, TypeOK
  <2>6. CASE Retry(s)
    BY <2>1, <2>2, <2>6 DEF Retry, TypeOK
  <2>7. QED
    BY <1>4, <2>3, <2>4, <2>5, <2>6 DEF Mirror
<1>5. ASSUME s \in Crons, NEW m \in Mails, Page(s, m) PROVE TypeOK'
  <2>1. [phase |-> "paged", mail |-> m, at |-> 0] \in Save
    BY ConstantsAssumption DEF Save
  <2>2. saver' \in [Savers -> Save \cup {Idle}]
    BY <1>5, <2>1, SaverSet DEF Page
  <2>3. QED
    BY <1>5, <2>2 DEF Page, TypeOK
<1>6. ASSUME s \in Crons, NEW m \in Mails, LeaseJob(s, m) PROVE TypeOK'
  <2>1. \A p \in {"saving", "dropping"} : [phase |-> p, mail |-> m, at |-> 0] \in Save
    BY ConstantsAssumption DEF Save
  <2>2. saver' \in [Savers -> Save \cup {Idle}]
    BY <1>6, <2>1, SaverSet DEF LeaseJob
  <2>3. QED
    BY <1>6, <2>2 DEF LeaseJob, TypeOK
<1>7. QED
  BY <1>1, <1>2, <1>3, <1>4, <1>5, <1>6

LEMMA TypeGarbage ==
    ASSUME TypeOK,
           \/ \E m \in Mails : Delete(m) \/ Select(m) \/ Retire(m)
           \/ \E k \in Key : Age(k) \/ Lapse(k)
    PROVE  TypeOK'
<1> USE DEF queue, garbage
<1>1. ASSUME NEW m \in Mails, Delete(m) PROVE TypeOK'
  <2>1. gc' \in [Key -> {"none", "fresh", "old", "leased"}] /\ fence' \in [Key -> SUBSET Drains]
    BY <1>1, QueueType DEF Delete
  <2>2. QED
    BY <1>1, <2>1 DEF Delete, TypeOK
<1>2. ASSUME NEW m \in Mails, Retire(m) PROVE TypeOK'
  <2>1. gc' \in [Key -> {"none", "fresh", "old", "leased"}] /\ fence' \in [Key -> SUBSET Drains]
    BY <1>2, QueueType DEF Retire
  <2>2. QED
    BY <1>2, <2>1 DEF Retire, TypeOK
<1>3. ASSUME NEW m \in Mails, Select(m) PROVE TypeOK'
  BY <1>3 DEF Select, TypeOK
<1>4. ASSUME NEW k \in Key, Age(k) \/ Lapse(k) PROVE TypeOK'
  BY <1>4 DEF Age, Lapse, TypeOK
<1>5. QED
  BY <1>1, <1>2, <1>3, <1>4

LEMMA TypeDrain ==
    ASSUME TypeOK, NEW d \in Drains, ListGarbage(d) \/ Collect(d) \/ DeleteFails(d) \/ Stop(d)
    PROVE  TypeOK'
<1> USE DEF queue, garbage
<1>1. CASE ListGarbage(d)
  <2>1. [phase |-> "listed", left |-> {k \in Key : Queued(k)}, used |-> {}] \in Sweep
    BY DEF Sweep
  <2>2. drain' \in [Drains -> Sweep \cup {Idle}]
    BY <1>1, <2>1, DrainSet DEF ListGarbage
  <2>3. QED
    BY <1>1, <2>2 DEF ListGarbage, TypeOK
<1>2. CASE LookUp(d)
  <2>1. drain[d] \in Sweep \cup {Idle}
    BY DEF TypeOK
  <2>2. drain[d] \in [phase : {"listed", "looked"}, left : SUBSET Key, used : SUBSET Key]
    BY <1>2, <2>1 DEF LookUp, Idle, Sweep
  <2>3. [drain[d] EXCEPT !.phase = "looked", !.used = {k \in drain[d].left : k[1] \in row}] \in Sweep
    BY <2>2 DEF Sweep
  <2>4. drain' \in [Drains -> Sweep \cup {Idle}]
    BY <1>2, <2>3 DEF LookUp, TypeOK
  <2>5. QED
    BY <1>2, <2>4 DEF LookUp, TypeOK
<1>3. CASE Keep(d) \/ Close(d)
  <2>1. PICK k, K : Forget(K) /\ drain' = [drain EXCEPT ![d] = Rest(d, k)]
    BY <1>3 DEF Keep, Close
  <2>2. gc' \in [Key -> {"none", "fresh", "old", "leased"}] /\ fence' \in [Key -> SUBSET Drains]
    BY <2>1, ForgetType
  <2>3. drain[d].phase # "idle"
    BY <1>3 DEF Keep, Close
  <2>4. drain' \in [Drains -> Sweep \cup {Idle}]
    BY <2>1, <2>3, RestType, DrainSet
  <2>5. QED
    BY <1>3, <2>2, <2>4 DEF Keep, Close, TypeOK
<1>4. CASE LeaseKey(d)
  <2>1. PICK k \in drain[d].left \ drain[d].used :
          /\ gc' = [gc EXCEPT ![k] = "leased"]
          /\ fence' = [fence EXCEPT ![k] = {d}]
          /\ drain' = [drain EXCEPT ![d] =
                         [phase |-> "leased", left |-> drain[d].left \ {k},
                          used |-> drain[d].used, key |-> k]]
    BY <1>4 DEF LeaseKey
  <2>2. drain[d].phase # "idle"
    BY <1>4 DEF LeaseKey
  <2>3. k \in Key /\ [phase |-> "leased", left |-> drain[d].left \ {k},
                      used |-> drain[d].used, key |-> k] \in Sweep
    BY <2>2, DrainTyped DEF Sweep
  <2>4. drain' \in [Drains -> Sweep \cup {Idle}]
    BY <2>1, <2>3, DrainSet
  <2>5. gc' \in [Key -> {"none", "fresh", "old", "leased"}] /\ fence' \in [Key -> SUBSET Drains]
    BY <2>1, <2>3 DEF TypeOK
  <2>6. QED
    BY <1>4, <2>4, <2>5 DEF LeaseKey, TypeOK
<1>5. CASE PassOver(d)
  <2>1. drain' \in [Drains -> Sweep \cup {Idle}]
    BY <1>5, RestType, DrainSet DEF PassOver
  <2>2. QED
    BY <1>5, <2>1 DEF PassOver, TypeOK
<1>6. CASE DeleteObject(d)
  <2>1. drain' \in [Drains -> Sweep \cup {Idle}]
    BY <1>6, DrainMoves DEF DeleteObject
  <2>2. QED
    BY <1>6, <2>1 DEF DeleteObject, TypeOK
<1>7. CASE DeleteFails(d)
  <2>1. drain' \in [Drains -> Sweep \cup {Idle}]
    BY <1>7, DrainMoves DEF DeleteFails
  <2>2. object' \subseteq Key
    BY <1>7 DEF DeleteFails, TypeOK
  <2>3. QED
    BY <1>7, <2>1, <2>2, FaultType DEF DeleteFails, TypeOK
<1>8. CASE Requeue(d)
  <2>1. drain' \in [Drains -> Sweep \cup {Idle}]
    BY <1>8, RestType, DrainSet DEF Requeue
  <2>2. gc' \in [Key -> {"none", "fresh", "old", "leased"}] /\ fence' \in [Key -> SUBSET Drains]
    BY <1>8 DEF Requeue, TypeOK
  <2>3. QED
    BY <1>8, <2>1, <2>2 DEF Requeue, TypeOK
<1>9. CASE Finish(d) \/ Stop(d)
  <2>1. drain' \in [Drains -> Sweep \cup {Idle}]
    BY <1>9, DrainSet DEF Finish, Stop
  <2>2. faults' \in 0 .. MaxFaults
    BY <1>9, FaultType DEF Finish, Stop, TypeOK
  <2>3. QED
    BY <1>9, <2>1, <2>2 DEF Finish, Stop, TypeOK
<1>10. QED
  BY <1>1, <1>2, <1>3, <1>4, <1>5, <1>6, <1>7, <1>8, <1>9 DEF Collect

LEMMA TypeStep ==
    ASSUME TypeOK, [Next]_vars
    PROVE  TypeOK'
<1>1. CASE UNCHANGED vars
  BY <1>1 DEF vars, queue, garbage, TypeOK
<1>2. CASE \E m \in Mails : Receive(m) \/ Send(m) \/ JobDue(m) \/ RemoveRaw(m)
  BY <1>2, TypeMirror DEF Savers
<1>3. CASE \E m \in Mails : Delete(m) \/ Select(m) \/ Retire(m)
  BY <1>3, TypeGarbage
<1>4. CASE \E s \in Savers : Works(s) \/ PutFails(s) \/ Withhold(s) \/ Break(s) \/ Die(s)
  BY <1>4, TypeSave, TypeMirror DEF Works
<1>5. CASE \E c \in Crons, m \in Mails : Page(c, m) \/ LeaseJob(c, m)
  BY <1>5, TypeMirror DEF Savers
<1>6. CASE \E k \in Key : Age(k) \/ Lapse(k)
  BY <1>6, TypeGarbage
<1>7. CASE \E d \in Drains : ListGarbage(d) \/ Collect(d) \/ DeleteFails(d) \/ Stop(d)
  BY <1>7, TypeDrain
<1>8. QED
  BY <1>1, <1>2, <1>3, <1>4, <1>5, <1>6, <1>7 DEF Next

LEMMA TypeInit == Init => TypeOK
  BY ConstantsAssumption DEF Init, TypeOK

\* Every row, job, object and queue entry keeps its shape, whatever runs.
THEOREM TypeCorrect == Spec => []TypeOK
  BY TypeInit, TypeStep, PTL DEF Spec

-----------------------------------------------------------------------------
(* The inductive invariant.                                                *)

\* The mail of k has such an attachment.
Valid(k) == k \in KeysOf(k[1])

\* A key that a save claims is protected, with its object written unless it is
\* the one being written.
ClaimOK(s, k) ==
    /\ fence[k] = {}
    /\ gc[k] = "fresh" \/ (gc[k] = "none" /\ k[1] \in row)
    /\ k \in object \/ (saver[s].phase = "registered" /\ k[2] = saver[s].at)

SaverOK(s) ==
    /\ saver[s].phase # "idle" =>
         /\ saver[s].at <= kind[Mail(s)].parts
         /\ s \in Mails => Mail(s) = s
         /\ s \in Crons \/ Native(Mail(s)) => raw[Mail(s)] # "none"
    /\ \A k \in Claimed(s) : ClaimOK(s, k)
    /\ saver[s].phase \in {"inserted", "saved"} => Mail(s) \in row \cup deleted
    /\ saver[s].phase = "dropping" => raw[Mail(s)] = "gone"

\* What a drain looked up is so while it knows the row's updated_at.
FoundOK(d, k) == d \in fence[k] /\ Valid(k) => (k \in drain[d].used <=> k[1] \in row)

DrainOK(d) ==
    /\ drain[d].phase \in Sweeps \ {"listed"} => \A k \in drain[d].left : FoundOK(d, k)
    /\ drain[d].phase = "leased" => gc[drain[d].key] = "leased" /\ fence[drain[d].key] = {d}
    /\ drain[d].phase = "removed" /\ d \in fence[drain[d].key] => drain[d].key \notin object

\* The object of a row's key is there and not being collected.
KeyOK(k) ==
    /\ k \in object => Valid(k)
    /\ k \in object => k[1] \in row \/ gc[k] # "none"
    /\ Valid(k) /\ k[1] \in row => k \in object /\ gc[k] # "leased"

\* What the mirror queue owes (MirrorOwed), and that it is about mails that came.
OwedOK(m) ==
    /\ m \in pending \/ job[m] # "none" => raw[m] # "none"
    /\ raw[m] = "kept" /\ m \notin row /\ m \notin deleted => m \in pending \/ job[m] # "none"

StoreInv ==
    /\ TypeOK
    /\ \A s \in Savers : SaverOK(s)
    /\ \A d \in Drains : DrainOK(d)
    /\ \A k \in Key : KeyOK(k)
    /\ \A m \in Mails : OwedOK(m)

LEMMA KeysOfFacts ==
    ASSUME NEW m \in Mails
    PROVE  /\ KeysOf(m) \subseteq Key
           /\ \A k \in KeysOf(m) : k[1] = m /\ Valid(k)
           /\ \A k \in Key : Valid(k) /\ k[1] = m => k \in KeysOf(m)
  BY DEF KeysOf, Valid

LEMMA KeyParts == \A k \in Key : k[1] \in Mails /\ k[2] \in 1 .. MaxParts /\ k = <<k[1], k[2]>>
  BY DEF Key

LEMMA ClaimedFacts ==
    ASSUME TypeOK, NEW s \in Savers
    PROVE  /\ Claimed(s) \subseteq Key
           /\ \A k \in Claimed(s) :
                /\ saver[s].phase \in {"saving", "registered"}
                /\ k[1] = Mail(s) /\ Valid(k) /\ k[2] <= saver[s].at
  BY DEF Claimed, KeysOf, Valid, Mail

LEMMA ValidSame ==
    ASSUME kind' = kind
    PROVE  /\ \A k \in Key : Valid(k)' = Valid(k)
           /\ \A m \in Mails : KeysOf(m)' = KeysOf(m)
  BY DEF Valid, KeysOf

\* A save that did nothing keeps what it relies on if its keys stay protected.
LEMMA SaverFrame ==
    ASSUME TypeOK, NEW s \in Savers, SaverOK(s), saver'[s] = saver[s], kind' = kind,
           \A m \in Mails : /\ raw[m] # "none" => raw'[m] # "none"
                            /\ raw[m] = "gone" => raw'[m] = "gone",
           row \cup deleted \subseteq row' \cup deleted',
           \A k \in Claimed(s) :
              /\ fence'[k] = {}
              /\ gc'[k] = "fresh" \/ (gc'[k] = "none" /\ k[1] \in row')
              /\ k \in object => k \in object'
    PROVE  SaverOK(s)'
<1>1. Claimed(s)' = Claimed(s)
  BY DEF Claimed, KeysOf
<1>2. Mail(s)' = Mail(s)
  BY DEF Mail
<1>3. \A k \in Claimed(s) : ClaimOK(s, k)'
  BY DEF ClaimOK, SaverOK
<1>4. Native(Mail(s))' <=> Native(Mail(s))
  BY <1>2 DEF Native
<1>5. saver[s].phase # "idle" => Mail(s) \in Mails
  BY BusySave
<1>6. QED
  BY <1>1, <1>2, <1>3, <1>4, <1>5 DEF SaverOK

\* A drain that did nothing keeps what it found out.
LEMMA DrainFrame ==
    ASSUME TypeOK, NEW d \in Drains, DrainOK(d), drain'[d] = drain[d], kind' = kind,
           \A k \in Key :
              /\ d \in fence'[k] => /\ d \in fence[k]
                                    /\ Valid(k) => (k[1] \in row' <=> k[1] \in row)
                                    /\ k \in object' => k \in object
              /\ drain[d].phase = "leased" /\ k = drain[d].key /\ gc[k] = "leased" /\ fence[k] = {d} =>
                    gc'[k] = "leased" /\ fence'[k] = {d}
    PROVE  DrainOK(d)'
<1>1. \A k \in Key : Valid(k)' = Valid(k)
  BY ValidSame
<1>2. CASE drain[d].phase = "idle"
  BY <1>2 DEF DrainOK, Sweeps
<1>3. CASE drain[d].phase # "idle"
  <2>1. drain[d].left \subseteq Key /\ (drain[d].phase \notin {"listed", "looked"} => drain[d].key \in Key)
    BY <1>3, DrainTyped
  <2>2. drain[d].phase \in Sweeps \ {"listed"} => \A k \in drain[d].left : FoundOK(d, k)'
    BY <1>1, <2>1 DEF DrainOK, FoundOK
  <2>3. QED
    BY <2>1, <2>2 DEF DrainOK
<1>4. QED
  BY <1>2, <1>3

\* A key keeps its object and its place with the collector.
LEMMA KeyFrame ==
    ASSUME NEW k \in Key, KeyOK(k), kind' = kind, k \in object' <=> k \in object,
           k[1] \in row' <=> k[1] \in row,
           gc[k] # "none" => gc'[k] # "none",
           gc'[k] = "leased" => gc[k] = "leased"
    PROVE  KeyOK(k)'
  BY ValidSame DEF KeyOK

\* What an upsert into attachment_gc does to a key.
LEMMA QueueFacts ==
    ASSUME TypeOK, NEW K \in SUBSET Key, Queue(K), NEW k \in Key
    PROVE  /\ fence'[k] \subseteq fence[k]
           /\ gc[k] = "leased" => gc'[k] = "leased" /\ fence'[k] = fence[k]
           /\ gc'[k] = "leased" => gc[k] = "leased"
           /\ gc[k] # "none" => gc'[k] # "none"
           /\ k \in K => gc'[k] # "none"
           /\ k \in K /\ gc[k] # "leased" => gc'[k] = "fresh" /\ fence'[k] = {}
           /\ k \notin K => gc'[k] = gc[k] /\ fence'[k] = fence[k]
  BY DEF Queue, TypeOK

\* A claimed key is not known to any drain, nor being collected.
LEMMA ClaimedSafe ==
    ASSUME StoreInv, NEW s \in Savers, NEW k \in Claimed(s)
    PROVE  /\ k \in Key /\ Valid(k) /\ k[1] = Mail(s)
           /\ fence[k] = {} /\ gc[k] \in {"fresh", "none"}
           /\ gc[k] = "none" => k[1] \in row
           /\ \A d \in Drains : drain[d].phase = "leased" => drain[d].key # k
  BY ClaimedFacts DEF StoreInv, SaverOK, ClaimOK, DrainOK

Kept ==
    /\ \A s \in Savers : SaverOK(s)
    /\ \A d \in Drains : DrainOK(d)
    /\ \A k \in Key : KeyOK(k)

-----------------------------------------------------------------------------
(* Steps of savers.                                                        *)

\* A step of s that is about s alone.
LEMMA QuietStep ==
    ASSUME StoreInv, NEW s \in Savers, SaverOK(s)',
           \A t \in Savers \ {s} : saver'[t] = saver[t],
           \A m \in Mails : /\ raw[m] # "none" => raw'[m] # "none"
                            /\ raw[m] = "gone" => raw'[m] = "gone",
           UNCHANGED <<kind, row, object, garbage, drain, deleted>>
    PROVE  Kept'
<1> USE DEF garbage
<1>1. ASSUME NEW t \in Savers \ {s} PROVE SaverOK(t)'
  <2>1. \A k \in Claimed(t) : /\ fence'[k] = {}
                              /\ gc'[k] = "fresh" \/ (gc'[k] = "none" /\ k[1] \in row')
    BY DEF StoreInv, SaverOK, ClaimOK
  <2>2. TypeOK /\ SaverOK(t)
    BY DEF StoreInv
  <2>3. QED
    BY <2>1, <2>2, SaverFrame
<1>2. ASSUME NEW d \in Drains PROVE DrainOK(d)'
  BY <1>2, DrainFrame DEF StoreInv
<1>3. ASSUME NEW k \in Key PROVE KeyOK(k)'
  BY <1>3, KeyFrame DEF StoreInv
<1>4. QED
  BY <1>1, <1>2, <1>3 DEF Kept

\* A save that gives up or ends claims nothing.
LEMMA LetGo ==
    ASSUME StoreInv, NEW s \in Savers, saver[s].phase # "idle", kind' = kind,
           \A m \in Mails : raw[m] # "none" => raw'[m] # "none",
           Goes(s, "failed") \/ Ends(s)
    PROVE  SaverOK(s)' /\ \A t \in Savers \ {s} : saver'[t] = saver[t]
<1>1. CASE Goes(s, "failed")
  <2>1. /\ saver'[s] = [phase |-> "failed", mail |-> saver[s].mail, at |-> saver[s].at]
        /\ \A t \in Savers \ {s} : saver'[t] = saver[t]
    BY <1>1, GoesType DEF StoreInv, Busy
  <2>2. Claimed(s)' = {}
    BY <2>1 DEF Claimed
  <2>3. QED
    BY <2>1, <2>2, BusySave DEF SaverOK, StoreInv, Mail, Native
<1>2. CASE Ends(s)
  <2>1. saver'[s] = Idle /\ \A t \in Savers \ {s} : saver'[t] = saver[t]
    BY <1>2, EndsType DEF StoreInv
  <2>2. Claimed(s)' = {}
    BY <2>1 DEF Claimed, Idle
  <2>3. QED
    BY <2>1, <2>2 DEF SaverOK, Idle
<1>3. QED
  BY <1>1, <1>2

LEMMA KeptQuiet ==
    ASSUME StoreInv, NEW s \in Savers,
           \/ Refuse(s) \/ Answered(s) \/ Withhold(s) \/ Break(s) \/ Die(s)
           \/ s \in Mails /\ (MarkComplete(s) \/ Enqueue(s))
           \/ s \in Crons /\ Mirror(s)
    PROVE  Kept'
<1>1. /\ saver[s].phase # "idle"
      /\ UNCHANGED <<kind, raw, row, object, garbage, drain, deleted>>
      /\ Goes(s, "failed") \/ Ends(s)
  <2>1. CASE Refuse(s)
    BY <2>1 DEF Refuse, In, queue
  <2>2. CASE Answered(s)
    BY <2>2 DEF Answered, queue
  <2>3. CASE Withhold(s)
    BY <2>3 DEF Withhold, In, queue
  <2>4. CASE Break(s)
    BY <2>4 DEF Break, queue
  <2>5. CASE Die(s)
    <3>1. saver[s] \in Save \cup {Idle}
      BY DEF StoreInv, TypeOK
    <3>2. saver[s] \in Save
      BY <2>5, <3>1 DEF Die
    <3>3. saver[s].phase # "idle"
      BY <3>2 DEF Save
    <3>4. QED
      BY <2>5, <3>3 DEF Die, queue
  <2>6. CASE s \in Mails /\ (MarkComplete(s) \/ Enqueue(s))
    BY <2>6 DEF MarkComplete, Enqueue, In
  <2>7. CASE s \in Crons /\ Mirror(s)
    BY <2>7 DEF Mirror, Reconcile, Drop, Succeed, Retry, CloseJob, In
  <2>8. QED
    BY <2>1, <2>2, <2>3, <2>4, <2>5, <2>6, <2>7
<1>2. SaverOK(s)' /\ \A t \in Savers \ {s} : saver'[t] = saver[t]
  BY <1>1, LetGo
<1>3. QED
  BY <1>1, <1>2, QuietStep

\* A save that begins has claimed nothing yet.
LEMMA KeptBegin ==
    ASSUME StoreInv, NEW s \in Savers,
           \/ s \in Mails /\ (Receive(s) \/ Send(s))
           \/ s \in Crons /\ \E m \in Mails : Page(s, m) \/ LeaseJob(s, m)
    PROVE  Kept'
<1> USE DEF queue
<1>1. PICK m \in Mails, p \in {"saving", "paged", "dropping"} :
         /\ saver' = [saver EXCEPT ![s] = [phase |-> p, mail |-> m, at |-> 0]]
         /\ s \in Mails => m = s
         /\ s \in Crons \/ Native(m) => raw'[m] # "none"
         /\ p = "dropping" => raw'[m] = "gone"
  <2>1. CASE s \in Mails /\ (Receive(s) \/ Send(s))
    BY <2>1, ConstantsAssumption DEF Receive, Send, StoreInv, TypeOK
  <2>2. ASSUME s \in Crons, NEW m \in Mails, Page(s, m) \/ LeaseJob(s, m)
        PROVE  \E n \in Mails, p \in {"saving", "paged", "dropping"} :
                 /\ saver' = [saver EXCEPT ![s] = [phase |-> p, mail |-> n, at |-> 0]]
                 /\ s \in Mails => n = s
                 /\ raw'[n] # "none"
                 /\ p = "dropping" => raw'[n] = "gone"
    <3>1. s \notin Mails
      BY <2>2, ConstantsAssumption
    <3>2. job[m] = "due" \/ m \in pending => raw[m] \in {"kept", "gone"}
      BY DEF StoreInv, OwedOK, TypeOK
    <3>3. CASE Page(s, m)
      BY <3>1, <3>2, <3>3 DEF Page
    <3>4. CASE LeaseJob(s, m)
      BY <3>1, <3>2, <3>4 DEF LeaseJob
    <3>5. QED
      BY <2>2, <3>3, <3>4
  <2>3. QED
    BY <2>1, <2>2
<1>2. /\ UNCHANGED <<kind, row, object, garbage, drain, deleted>>
      /\ \A n \in Mails : /\ raw[n] # "none" => raw'[n] # "none"
                          /\ raw[n] = "gone" => raw'[n] = "gone"
  BY DEF Receive, Send, Page, LeaseJob, StoreInv, TypeOK
<1>3. saver'[s] = [phase |-> p, mail |-> m, at |-> 0] /\ \A t \in Savers \ {s} : saver'[t] = saver[t]
  BY <1>1 DEF StoreInv, TypeOK
<1>4. Claimed(s)' = {}
  <2>1. \A k \in Key : ~(k[2] <= 0)
    BY KeyParts
  <2>2. QED
    BY <1>3, <2>1 DEF Claimed, KeysOf
<1>5. SaverOK(s)'
  BY <1>1, <1>2, <1>3, <1>4, PartsTyped DEF SaverOK, Mail, Native, StoreInv
<1>6. QED
  BY <1>2, <1>3, <1>5, QuietStep

\* What the store may do without touching what a save relies on.
LEMMA SaversKept ==
    ASSUME StoreInv, kind' = kind,
           \A m \in Mails : /\ raw[m] # "none" => raw'[m] # "none"
                            /\ raw[m] = "gone" => raw'[m] = "gone",
           row \cup deleted \subseteq row' \cup deleted',
           \A t \in Savers : \A k \in Claimed(t) :
              /\ fence'[k] = {}
              /\ gc'[k] = "fresh" \/ (gc'[k] = "none" /\ k[1] \in row')
              /\ k \in object => k \in object'
    PROVE  \A t \in Savers : saver'[t] = saver[t] => SaverOK(t)'
<1>1. SUFFICES ASSUME NEW t \in Savers, saver'[t] = saver[t]
               PROVE  SaverOK(t)'
  OBVIOUS
<1>2. TypeOK /\ SaverOK(t)
  BY DEF StoreInv
<1>3. \A k \in Claimed(t) :
         /\ fence'[k] = {}
         /\ gc'[k] = "fresh" \/ (gc'[k] = "none" /\ k[1] \in row')
         /\ k \in object => k \in object'
  OBVIOUS
<1>4. QED
  BY <1>1, <1>2, <1>3, SaverFrame

\* An upsert into attachment_gc, with or without rows deleted that name its keys.
LEMMA QueueStep ==
    ASSUME StoreInv, NEW K \in SUBSET Key, Queue(K),
           UNCHANGED <<kind, raw, object, drain>>,
           row' \subseteq row, row \cup deleted \subseteq row' \cup deleted',
           \A m \in row \ row' : KeysOf(m) \subseteq K
    PROVE  /\ \A t \in Savers : saver'[t] = saver[t] => SaverOK(t)'
           /\ \A d \in Drains : DrainOK(d)'
           /\ \A k \in Key : KeyOK(k)'
<1>1. TypeOK
  BY DEF StoreInv
<1>2. \A k \in Key : Valid(k) /\ k[1] \in row \ row' => k \in K /\ gc[k] # "leased"
  BY DEF Valid, StoreInv, KeyOK
<1>3. ASSUME NEW t \in Savers, NEW k \in Claimed(t)
      PROVE  /\ fence'[k] = {}
             /\ gc'[k] = "fresh" \/ (gc'[k] = "none" /\ k[1] \in row')
             /\ k \in object => k \in object'
  <2>1. /\ k \in Key /\ Valid(k) /\ fence[k] = {} /\ gc[k] \in {"fresh", "none"}
        /\ gc[k] = "none" => k[1] \in row
    BY ClaimedSafe
  <2>2. /\ fence'[k] \subseteq fence[k]
        /\ k \in K /\ gc[k] # "leased" => gc'[k] = "fresh"
        /\ k \notin K => gc'[k] = gc[k]
    BY <1>1, <2>1, QueueFacts
  <2>3. QED
    BY <1>2, <2>1, <2>2
<1>4. \A t \in Savers : saver'[t] = saver[t] => SaverOK(t)'
  BY <1>3, SaversKept
<1>5. ASSUME NEW d \in Drains PROVE DrainOK(d)'
  <2>1. ASSUME NEW k \in Key
        PROVE  /\ d \in fence'[k] => /\ d \in fence[k]
                                     /\ Valid(k) => (k[1] \in row' <=> k[1] \in row)
               /\ gc[k] = "leased" => gc'[k] = "leased" /\ fence'[k] = fence[k]
    <3>1. /\ fence'[k] \subseteq fence[k]
          /\ k \in K /\ gc[k] # "leased" => fence'[k] = {}
          /\ gc[k] = "leased" => gc'[k] = "leased" /\ fence'[k] = fence[k]
      BY <1>1, QueueFacts
    <3>2. QED
      BY <1>2, <3>1
  <2>2. DrainOK(d)
    BY DEF StoreInv
  <2>3. QED
    BY <1>1, <2>1, <2>2, DrainFrame
<1>6. ASSUME NEW k \in Key PROVE KeyOK(k)'
  <2>1. /\ gc'[k] = "leased" => gc[k] = "leased"
        /\ gc[k] # "none" => gc'[k] # "none"
        /\ k \in K => gc'[k] # "none"
    BY <1>1, QueueFacts
  <2>2. KeyOK(k) /\ Valid(k)' = Valid(k)
    BY ValidSame DEF StoreInv
  <2>3. QED
    BY <1>2, <2>1, <2>2 DEF KeyOK
<1>7. QED
  BY <1>4, <1>5, <1>6

\* Rows of attachment_gc that are closed: the key is in use, or has no object,
\* and no other drain is deleting it.
LEMMA ForgetStep ==
    ASSUME StoreInv, NEW K \in SUBSET Key, Forget(K),
           UNCHANGED <<kind, raw, row, object, deleted>>,
           \A k \in K : k[1] \in row \/ (k \notin object /\ \A t \in Savers : k \notin Claimed(t))
    PROVE  /\ \A t \in Savers : saver'[t] = saver[t] => SaverOK(t)'
           /\ \A d \in Drains :
                 drain'[d] = drain[d] /\ (\A k \in K : gc[k] = "leased" => fence[k] # {d}) =>
                    DrainOK(d)'
           /\ \A k \in Key : KeyOK(k)'
<1>1. \A k \in Key : /\ k \in K => gc'[k] = "none" /\ fence'[k] = {}
                     /\ k \notin K => gc'[k] = gc[k] /\ fence'[k] = fence[k]
  BY DEF Forget
<1>2. ASSUME NEW t \in Savers, NEW k \in Claimed(t)
      PROVE  /\ fence'[k] = {}
             /\ gc'[k] = "fresh" \/ (gc'[k] = "none" /\ k[1] \in row')
             /\ k \in object => k \in object'
  BY <1>1, ClaimedSafe
<1>3. \A t \in Savers : saver'[t] = saver[t] => SaverOK(t)'
  BY <1>2, SaversKept
<1>4. ASSUME NEW d \in Drains, drain'[d] = drain[d], \A k \in K : gc[k] = "leased" => fence[k] # {d}
      PROVE  DrainOK(d)'
  BY <1>1, <1>4, DrainFrame DEF StoreInv
<1>5. ASSUME NEW k \in Key PROVE KeyOK(k)'
  BY <1>1, ValidSame DEF StoreInv, KeyOK
<1>6. QED
  BY <1>3, <1>4, <1>5

LEMMA KeptRegister ==
    ASSUME StoreInv, NEW s \in Savers, Register(s)
    PROVE  Kept'
<1> DEFINE n == NextKey(s)
<1>1. TypeOK /\ SaverOK(s) /\ saver[s].phase = "saving" /\ gc[n] # "leased" /\ Queue({n})
  BY DEF StoreInv, Register, In
<1>2. /\ saver[s] \in Save /\ Mail(s) \in Mails /\ saver[s].at \in 0 .. MaxParts
      /\ kind[Mail(s)].parts \in 0 .. MaxParts /\ MaxParts \in Nat
      /\ saver[s].at < kind[Mail(s)].parts
  BY <1>1, BusySave, PartsTyped, ConstantsAssumption DEF Register
<1>3. saver[s].at + 1 \in 1 .. MaxParts /\ saver[s].at + 1 <= kind[Mail(s)].parts
  BY <1>2
<1>4. n \in Key /\ n \in KeysOf(Mail(s)) /\ n[1] = Mail(s) /\ n[2] = saver[s].at + 1
  <2>1. n \in Key /\ n[1] = Mail(s) /\ n[2] = saver[s].at + 1
    BY <1>2, <1>3, KeyTyped DEF NextKey
  <2>2. QED
    BY <1>3, <2>1 DEF KeysOf
<1>5. UNCHANGED <<kind, raw, row, object, drain, deleted>>
  BY DEF Register, queue
<1>6. /\ \A t \in Savers : saver'[t] = saver[t] => SaverOK(t)'
      /\ \A d \in Drains : DrainOK(d)'
      /\ \A k \in Key : KeyOK(k)'
  <2>1. {n} \in SUBSET Key
    BY <1>4
  <2>2. \A m \in row \ row' : KeysOf(m) \subseteq {n}
    BY <1>5
  <2> HIDE DEF n
  <2>3. QED
    BY <1>1, <1>5, <2>1, <2>2, QueueStep
<1>7. /\ saver'[s] = [phase |-> "registered", mail |-> Mail(s), at |-> saver[s].at + 1]
      /\ \A t \in Savers \ {s} : saver'[t] = saver[t]
  BY <1>1 DEF Register, TypeOK
<1>8. SaverOK(s)'
  <2>1. /\ Mail(s)' = Mail(s) /\ KeysOf(Mail(s))' = KeysOf(Mail(s))
        /\ Claimed(s)' = {k \in KeysOf(Mail(s)) : k[2] <= saver[s].at + 1}
    <3>1. Mail(s)' = Mail(s)
      BY <1>7 DEF Mail
    <3>2. KeysOf(Mail(s))' = KeysOf(Mail(s))
      BY <1>2, <1>5, <3>1, ValidSame DEF KeysOf
    <3>3. QED
      BY <1>7, <3>1, <3>2 DEF Claimed, Mail
  <2>2. ASSUME NEW k \in Claimed(s)' PROVE ClaimOK(s, k)'
    <3>1. k \in Key /\ k[1] = Mail(s) /\ k[2] \in 1 .. MaxParts /\ k = <<k[1], k[2]>>
      BY <1>2, <2>1, <2>2, KeysOfFacts, KeyParts
    <3>2. CASE k = n
      <4>1. gc'[k] = "fresh" /\ fence'[k] = {}
        BY <1>1, <1>4, <3>2, QueueFacts
      <4>2. QED
        BY <1>4, <1>7, <3>2, <4>1 DEF ClaimOK
    <3>3. CASE k # n
      <4>1. k[2] # saver[s].at + 1
        BY <1>4, <3>1, <3>3 DEF NextKey
      <4>2. k[2] <= saver[s].at
        BY <1>2, <2>1, <2>2, <3>1, <4>1
      <4>3. k \in Claimed(s)
        BY <1>1, <2>1, <2>2, <4>2 DEF Claimed, Mail
      <4>4. ClaimOK(s, k)
        BY <1>1, <4>3 DEF SaverOK
      <4>5. gc'[k] = gc[k] /\ fence'[k] = fence[k]
        BY <1>1, <1>4, <3>1, <3>3, QueueFacts
      <4>6. QED
        BY <1>1, <1>5, <4>4, <4>5 DEF ClaimOK
    <3>4. QED
      BY <3>2, <3>3
  <2>3. Native(Mail(s))' = Native(Mail(s))
    BY <1>5, <2>1 DEF Native
  <2>4. QED
    BY <1>1, <1>3, <1>5, <1>7, <2>1, <2>2, <2>3 DEF SaverOK, Mail
<1>9. QED
  BY <1>6, <1>7, <1>8 DEF Kept

\* An object is written, whatever the answer: only what its save claims changes.
LEMMA KeptPut ==
    ASSUME StoreInv, NEW s \in Savers, Put(s) \/ PutFails(s)
    PROVE  Kept'
<1> DEFINE o == <<Mail(s), saver[s].at>>
<1>1. /\ TypeOK /\ SaverOK(s) /\ saver[s].phase = "registered"
      /\ UNCHANGED <<kind, raw, row, gc, fence, drain, deleted>>
  BY DEF StoreInv, Put, PutFails, In, queue, garbage
<1>2. /\ object \subseteq object' /\ object' \subseteq object \cup {o}
      /\ Put(s) => o \in object'
  BY DEF Put, PutFails
<1>3. /\ saver[s] \in Save /\ Mail(s) \in Mails /\ saver[s].at \in 1 .. MaxParts
      /\ saver[s].at <= kind[Mail(s)].parts
  BY <1>1, BusySave, ObjectTyped DEF SaverOK
<1>4. o \in Claimed(s) /\ o \in Key /\ o[1] = Mail(s) /\ o[2] = saver[s].at
  <2>1. o \in Key /\ o[1] = Mail(s) /\ o[2] = saver[s].at
    BY <1>3, KeyTyped
  <2>2. o \in KeysOf(Mail(s))
    BY <1>3, <2>1 DEF KeysOf
  <2>3. QED
    BY <1>1, <1>3, <2>1, <2>2 DEF Claimed, Mail
<1>5. Valid(o) /\ fence[o] = {} /\ (o[1] \in row \/ gc[o] # "none") /\ gc[o] # "leased"
  BY <1>4, ClaimedSafe
<1>6. \A t \in Savers : saver'[t] = saver[t] => SaverOK(t)'
  <2>1. ASSUME NEW t \in Savers, NEW k \in Claimed(t)
        PROVE  /\ fence'[k] = {}
               /\ gc'[k] = "fresh" \/ (gc'[k] = "none" /\ k[1] \in row')
               /\ k \in object => k \in object'
    BY <1>1, <1>2, ClaimedSafe
  <2>2. QED
    BY <1>1, <2>1, SaversKept
<1> HIDE DEF o
<1>7. ASSUME NEW d \in Drains PROVE DrainOK(d)'
  <2>1. DrainOK(d)
    BY DEF StoreInv
  <2>2. \A k \in Key : d \in fence'[k] /\ k \in object' => k \in object
    BY <1>1, <1>2, <1>5
  <2>3. QED
    BY <1>1, <2>1, <2>2, DrainFrame
<1>8. ASSUME NEW k \in Key PROVE KeyOK(k)'
  <2>1. KeyOK(k) /\ Valid(k)' = Valid(k)
    BY <1>1, ValidSame DEF StoreInv
  <2>2. CASE k = o
    BY <1>1, <1>2, <1>5, <2>1, <2>2 DEF KeyOK
  <2>3. CASE k # o
    BY <1>1, <1>2, <2>1, <2>3 DEF KeyOK
  <2>4. QED
    BY <2>2, <2>3
<1>9. SaverOK(s)' /\ \A t \in Savers \ {s} : saver'[t] = saver[t]
  <2>1. CASE Put(s)
    <3>1. /\ saver'[s] = [phase |-> "saving", mail |-> Mail(s), at |-> saver[s].at]
          /\ \A t \in Savers \ {s} : saver'[t] = saver[t]
      BY <1>1, <2>1, GoesType DEF Put, Busy, Mail
    <3>2. Mail(s)' = Mail(s) /\ Claimed(s)' = Claimed(s) /\ Native(Mail(s))' = Native(Mail(s))
      <4>1. Mail(s)' = Mail(s) /\ KeysOf(Mail(s))' = KeysOf(Mail(s)) /\ Native(Mail(s))' = Native(Mail(s))
        BY <1>1, <3>1 DEF Mail, KeysOf, Native
      <4>2. QED
        BY <1>1, <3>1, <4>1 DEF Claimed, Mail
    <3>3. ASSUME NEW k \in Claimed(s) PROVE ClaimOK(s, k)'
      <4>1. ClaimOK(s, k) /\ k \in Key /\ k[1] = Mail(s)
        BY <1>1, <3>3, ClaimedSafe DEF SaverOK
      <4>2. k = <<k[1], k[2]>>
        BY <4>1, KeyParts
      <4>3. k \in object'
        BY <1>2, <2>1, <4>1, <4>2 DEF ClaimOK, o
      <4>4. QED
        BY <1>1, <4>1, <4>3 DEF ClaimOK
    <3>4. QED
      BY <1>1, <3>1, <3>2, <3>3 DEF SaverOK
  <2>2. CASE PutFails(s)
    BY <1>1, <2>2, LetGo DEF PutFails
  <2>3. QED
    BY <2>1, <2>2
<1>10. QED
  BY <1>6, <1>7, <1>8, <1>9 DEF Kept

\* When the row is inserted all its objects are there, and known to no drain.
LEMMA KeptInsertRow ==
    ASSUME StoreInv, NEW s \in Savers, InsertRow(s)
    PROVE  Kept'
<1> DEFINE m == Mail(s)
<1>1. /\ TypeOK /\ SaverOK(s) /\ saver[s].phase = "saving" /\ saver[s].at = kind[m].parts
      /\ UNCHANGED <<kind, raw, object, gc, fence, drain, deleted>>
      /\ row' = row \cup {m}
  BY DEF StoreInv, InsertRow, In, queue, garbage
<1>2. m \in Mails
  BY <1>1, BusySave
<1>3. \A k \in Key : Valid(k) /\ k[1] = m => k \in Claimed(s)
  BY <1>1, <1>2, KeysOfFacts DEF Claimed, KeysOf, Mail
<1>4. \A k \in Claimed(s) : k \in object /\ fence[k] = {} /\ gc[k] # "leased"
  BY <1>1, ClaimedSafe DEF SaverOK, ClaimOK
<1>5. \A t \in Savers : saver'[t] = saver[t] => SaverOK(t)'
  <2>1. ASSUME NEW t \in Savers, NEW k \in Claimed(t)
        PROVE  /\ fence'[k] = {}
               /\ gc'[k] = "fresh" \/ (gc'[k] = "none" /\ k[1] \in row')
               /\ k \in object => k \in object'
    BY <1>1, ClaimedSafe
  <2>2. QED
    BY <1>1, <2>1, SaversKept
<1>6. ASSUME NEW d \in Drains PROVE DrainOK(d)'
  <2>1. DrainOK(d)
    BY DEF StoreInv
  <2>2. \A k \in Key : d \in fence[k] /\ Valid(k) => (k[1] \in row' <=> k[1] \in row)
    BY <1>1, <1>3, <1>4
  <2>3. QED
    BY <1>1, <2>1, <2>2, DrainFrame
<1>7. ASSUME NEW k \in Key PROVE KeyOK(k)'
  <2>1. KeyOK(k) /\ Valid(k)' = Valid(k)
    BY <1>1, ValidSame DEF StoreInv
  <2>2. QED
    BY <1>1, <1>3, <1>4, <2>1 DEF KeyOK
<1>8. SaverOK(s)' /\ \A t \in Savers \ {s} : saver'[t] = saver[t]
  <2>1. /\ saver'[s] = [phase |-> "inserted", mail |-> m, at |-> saver[s].at]
        /\ \A t \in Savers \ {s} : saver'[t] = saver[t]
    BY <1>1, GoesType DEF InsertRow, Busy, Mail
  <2>2. Mail(s)' = m /\ Claimed(s)' = {} /\ Native(Mail(s))' = Native(Mail(s))
    BY <1>1, <2>1 DEF Claimed, Mail, Native
  <2>3. QED
    BY <1>1, <2>1, <2>2 DEF SaverOK
<1>9. QED
  BY <1>5, <1>6, <1>7, <1>8 DEF Kept

\* The keys that a save takes out of attachment_gc are those of a row.
LEMMA KeptRelease ==
    ASSUME StoreInv, NEW s \in Savers, Release(s)
    PROVE  Kept'
<1>1. /\ TypeOK /\ SaverOK(s) /\ saver[s].phase = "inserted" /\ Mail(s) \in Mails
      /\ UNCHANGED <<kind, raw, row, object, drain, deleted>>
      /\ Forget(Released(Mail(s)))
  BY BusySave DEF StoreInv, Release, In, queue
<1>2. /\ Released(Mail(s)) \in SUBSET Key
      /\ \A k \in Released(Mail(s)) : k[1] \in row /\ gc[k] # "leased"
  BY <1>1, KeysOfFacts DEF Released, StoreInv, KeyOK
<1>3. /\ \A t \in Savers : saver'[t] = saver[t] => SaverOK(t)'
      /\ \A d \in Drains : DrainOK(d)'
      /\ \A k \in Key : KeyOK(k)'
  BY <1>1, <1>2, ForgetStep
<1>4. SaverOK(s)' /\ \A t \in Savers \ {s} : saver'[t] = saver[t]
  <2>1. /\ saver'[s] = [phase |-> "saved", mail |-> Mail(s), at |-> saver[s].at]
        /\ \A t \in Savers \ {s} : saver'[t] = saver[t]
    BY <1>1, GoesType DEF Release, Busy, Mail
  <2>2. Mail(s)' = Mail(s) /\ Claimed(s)' = {} /\ Native(Mail(s))' = Native(Mail(s))
    BY <1>1, <2>1 DEF Claimed, Mail, Native
  <2>3. QED
    BY <1>1, <2>1, <2>2 DEF SaverOK
<1>5. QED
  BY <1>3, <1>4 DEF Kept

-----------------------------------------------------------------------------
(* Deletion, retention and time.                                           *)

LEMMA KeptMail ==
    ASSUME StoreInv, NEW m \in Mails,
           JobDue(m) \/ RemoveRaw(m) \/ Delete(m) \/ Select(m) \/ Retire(m)
    PROVE  Kept'
<1>1. saver' = saver /\ drain' = drain /\ kind' = kind /\ object' = object
  BY DEF JobDue, RemoveRaw, Delete, Select, Retire, queue
<1>2. CASE JobDue(m) \/ RemoveRaw(m) \/ Select(m)
  <2>1. /\ UNCHANGED <<kind, row, object, gc, fence, deleted>>
        /\ \A n \in Mails : /\ raw[n] # "none" => raw'[n] # "none"
                            /\ raw[n] = "gone" => raw'[n] = "gone"
    BY <1>2 DEF JobDue, RemoveRaw, Select, queue, garbage, StoreInv, TypeOK
  <2>2. \A t \in Savers : SaverOK(t)'
    <3>1. ASSUME NEW t \in Savers, NEW k \in Claimed(t)
          PROVE  /\ fence'[k] = {}
                 /\ gc'[k] = "fresh" \/ (gc'[k] = "none" /\ k[1] \in row')
                 /\ k \in object => k \in object'
      BY <2>1, ClaimedSafe
    <3>2. QED
      BY <1>1, <2>1, <3>1, SaversKept
  <2>3. \A d \in Drains : DrainOK(d)'
    BY <1>1, <2>1, DrainFrame DEF StoreInv
  <2>4. \A k \in Key : KeyOK(k)'
    BY <2>1, KeyFrame DEF StoreInv
  <2>5. QED
    BY <2>2, <2>3, <2>4 DEF Kept
<1>3. CASE Delete(m) \/ Retire(m)
  <2>1. /\ Queue(KeysOf(m)) /\ UNCHANGED <<kind, raw, object, drain>>
        /\ row' \subseteq row /\ row \cup deleted \subseteq row' \cup deleted'
        /\ row \ row' \subseteq {m}
    BY <1>3 DEF Delete, Retire, queue
  <2>2. KeysOf(m) \in SUBSET Key /\ \A n \in row \ row' : KeysOf(n) \subseteq KeysOf(m)
    BY <2>1, KeysOfFacts
  <2>3. QED
    BY <1>1, <2>1, <2>2, QueueStep DEF Kept
<1>4. QED
  BY <1>2, <1>3

LEMMA KeptTime ==
    ASSUME StoreInv, NEW x \in Key, Age(x) \/ Lapse(x)
    PROVE  Kept'
<1>1. UNCHANGED <<kind, raw, row, object, fence, saver, drain, deleted>>
  BY DEF Age, Lapse, queue
<1>2. /\ \A k \in Key \ {x} : gc'[k] = gc[k]
      /\ gc'[x] \notin {"none", "leased"}
      /\ \A t \in Savers : x \notin Claimed(t)
      /\ \A d \in Drains : drain[d].phase = "leased" => drain[d].key # x
  <2>1. CASE Age(x)
    BY <2>1 DEF Age, StoreInv, TypeOK, DrainOK
  <2>2. CASE Lapse(x)
    BY <2>2, ClaimedSafe DEF Lapse, StoreInv, TypeOK
  <2>3. QED
    BY <2>1, <2>2
<1>3. \A t \in Savers : SaverOK(t)'
  <2>1. ASSUME NEW t \in Savers, NEW k \in Claimed(t)
        PROVE  /\ fence'[k] = {}
               /\ gc'[k] = "fresh" \/ (gc'[k] = "none" /\ k[1] \in row')
               /\ k \in object => k \in object'
    BY <1>1, <1>2, ClaimedSafe
  <2>2. QED
    BY <1>1, <2>1, SaversKept
<1>4. \A d \in Drains : DrainOK(d)'
  BY <1>1, <1>2, DrainFrame DEF StoreInv
<1>5. \A k \in Key : KeyOK(k)'
  BY <1>1, <1>2, KeyFrame DEF StoreInv
<1>6. QED
  BY <1>3, <1>4, <1>5 DEF Kept

-----------------------------------------------------------------------------
(* Steps of drains.                                                        *)

\* A step of d leaves the savers and the other drains what they rely on if only
\* keys that d knows lose their place with the collector.
LEMMA DrainStep ==
    ASSUME StoreInv, NEW d \in Drains,
           UNCHANGED <<kind, raw, row, saver, deleted>>,
           \A e \in Drains \ {d} : drain'[e] = drain[e],
           object' \subseteq object,
           \A k \in Key :
              \/ gc'[k] = gc[k] /\ fence'[k] \ {d} = fence[k] \ {d}
                   /\ (d \in fence'[k] => d \in fence[k] \/ gc[k] = "old")
              \/ d \in fence[k] /\ fence'[k] \subseteq {d},
           \A k \in object \ object' : \A t \in Savers : k \notin Claimed(t)
    PROVE  /\ \A t \in Savers : SaverOK(t)'
           /\ \A e \in Drains \ {d} : DrainOK(e)'
<1>1. ASSUME NEW t \in Savers, NEW k \in Claimed(t)
      PROVE  /\ fence'[k] = {}
             /\ gc'[k] = "fresh" \/ (gc'[k] = "none" /\ k[1] \in row')
             /\ k \in object => k \in object'
  <2>1. /\ k \in Key /\ fence[k] = {} /\ gc[k] \in {"fresh", "none"}
        /\ gc[k] = "none" => k[1] \in row
    BY ClaimedSafe
  <2>2. gc'[k] = gc[k] /\ fence'[k] \subseteq {d} /\ d \notin fence'[k]
    BY <2>1
  <2>3. QED
    BY <2>1, <2>2, <1>1
<1>2. \A t \in Savers : SaverOK(t)'
  BY <1>1, SaversKept
<1>3. ASSUME NEW e \in Drains \ {d} PROVE DrainOK(e)'
  <2>1. DrainOK(e) /\ TypeOK
    BY DEF StoreInv
  <2>2. ASSUME NEW k \in Key
        PROVE  /\ e \in fence'[k] => e \in fence[k]
               /\ drain[e].phase = "leased" /\ k = drain[e].key /\ gc[k] = "leased" /\ fence[k] = {e} =>
                    gc'[k] = "leased" /\ fence'[k] = {e}
    <3>1. CASE gc'[k] = gc[k] /\ fence'[k] \ {d} = fence[k] \ {d}
                 /\ (d \in fence'[k] => d \in fence[k] \/ gc[k] = "old")
      <4>1. e \in fence'[k] <=> e \in fence[k]
        BY <3>1
      <4>2. QED
        BY <3>1, <4>1
    <3>2. CASE d \in fence[k] /\ fence'[k] \subseteq {d}
      BY <3>2
    <3>3. QED
      BY <3>1, <3>2
  <2>3. QED
    BY <2>1, <2>2, DrainFrame
<1>4. QED
  BY <1>2, <1>3

\* What d found out stays so for the keys that are left.
LEMMA RestOK ==
    ASSUME StoreInv, NEW d \in Drains, drain[d].phase \in Sweeps \ {"listed"},
           UNCHANGED <<kind, row>>, NEW L \in SUBSET drain[d].left,
           drain'[d].left = L, drain'[d].used = drain[d].used,
           \A k \in L : d \in fence'[k] => d \in fence[k]
    PROVE  \A k \in drain'[d].left : FoundOK(d, k)'
<1>1. ASSUME NEW k \in L PROVE FoundOK(d, k)'
  <2>1. FoundOK(d, k)
    BY DEF StoreInv, DrainOK
  <2>2. k \in Key
    BY DrainTyped DEF StoreInv, Sweeps
  <2>3. Valid(k)' = Valid(k)
    BY <2>2, ValidSame
  <2>4. QED
    BY <2>1, <2>3 DEF FoundOK
<1>2. QED
  BY <1>1

LEMMA DrainGoesOn ==
    ASSUME TypeOK, NEW d \in Drains, NEW r, drain' = [drain EXCEPT ![d] = r]
    PROVE  drain'[d] = r /\ \A e \in Drains \ {d} : drain'[e] = drain[e]
  BY DEF TypeOK

LEMMA KeptLook ==
    ASSUME StoreInv, NEW d \in Drains,
           ListGarbage(d) \/ LookUp(d) \/ PassOver(d) \/ Finish(d) \/ Stop(d)
    PROVE  Kept'
<1>1. TypeOK /\ DrainOK(d) /\ UNCHANGED <<kind, raw, row, object, gc, saver, deleted>>
  BY DEF StoreInv, ListGarbage, LookUp, PassOver, Finish, Stop, queue, garbage
<1>2. \A k \in Key : KeyOK(k)'
  BY <1>1, KeyFrame DEF StoreInv
<1>3. /\ \A t \in Savers : SaverOK(t)'
      /\ \A e \in Drains \ {d} : DrainOK(e)'
  <2>1. \A e \in Drains \ {d} : drain'[e] = drain[e]
    BY <1>1 DEF ListGarbage, LookUp, PassOver, Finish, Stop, TypeOK
  <2>2. ASSUME NEW k \in Key
        PROVE  \/ gc'[k] = gc[k] /\ fence'[k] \ {d} = fence[k] \ {d}
                    /\ (d \in fence'[k] => d \in fence[k] \/ gc[k] = "old")
               \/ d \in fence[k] /\ fence'[k] \subseteq {d}
    <3>1. CASE ListGarbage(d)
      BY <1>1, <3>1 DEF ListGarbage, Queued
    <3>2. CASE fence' = fence
      BY <1>1, <3>2
    <3>3. QED
      BY <3>1, <3>2 DEF LookUp, PassOver, Finish, Stop, garbage
  <2>3. QED
    BY <1>1, <2>1, <2>2, DrainStep
<1>4. DrainOK(d)'
  <2>1. CASE ListGarbage(d)
    <3>1. drain' = [drain EXCEPT ![d] = [phase |-> "listed", left |-> {k \in Key : Queued(k)},
                                         used |-> {}]]
      BY <2>1 DEF ListGarbage
    <3>2. drain'[d] = [phase |-> "listed", left |-> {k \in Key : Queued(k)}, used |-> {}]
      BY <1>1, <3>1, DrainGoesOn
    <3>3. QED
      BY <3>2 DEF DrainOK
  <2>2. CASE LookUp(d)
    <3>1. /\ drain'[d].phase = "looked" /\ drain'[d].left = drain[d].left
          /\ drain'[d].used = {k \in drain[d].left : k[1] \in row}
      <4>1. drain[d] \in [phase : {"listed", "looked"}, left : SUBSET Key, used : SUBSET Key]
        BY <1>1, <2>2 DEF LookUp, TypeOK, Idle, Sweep
      <4>2. QED
        BY <1>1, <2>2, <4>1 DEF LookUp, TypeOK
    <3>2. \A k \in drain'[d].left : FoundOK(d, k)'
      BY <1>1, <3>1 DEF FoundOK
    <3>3. QED
      BY <3>1, <3>2 DEF DrainOK
  <2>3. CASE PassOver(d)
    <3>1. PICK k \in drain[d].left : drain' = [drain EXCEPT ![d] = Rest(d, k)]
      BY <2>3 DEF PassOver
    <3>2. drain'[d] = Rest(d, k)
      BY <1>1, <3>1, DrainGoesOn
    <3>3. \A j \in drain'[d].left : FoundOK(d, j)'
      <4>1. /\ drain[d].phase \in Sweeps \ {"listed"} /\ fence' = fence
            /\ drain'[d].left = drain[d].left \ {k} /\ drain'[d].used = drain[d].used
        BY <2>3, <3>2 DEF Rest, PassOver, garbage, Sweeps
      <4>2. drain[d].left \ {k} \in SUBSET drain[d].left
        OBVIOUS
      <4>3. QED
        BY <1>1, <4>1, <4>2, RestOK
    <3>4. QED
      BY <3>2, <3>3 DEF DrainOK, Rest
  <2>4. CASE Finish(d) \/ Stop(d)
    BY <1>1, <2>4, DrainGoesOn DEF Finish, Stop, DrainOK, Idle, Sweeps
  <2>5. QED
    BY <2>1, <2>2, <2>3, <2>4
<1>5. QED
  BY <1>2, <1>3, <1>4 DEF Kept

\* A row that is closed: its key is in use, or has no object any more.
LEMMA KeptForget ==
    ASSUME StoreInv, NEW d \in Drains, Keep(d) \/ Close(d)
    PROVE  Kept'
<1>1. TypeOK /\ DrainOK(d) /\ UNCHANGED <<kind, raw, row, object, saver, deleted>>
  BY DEF StoreInv, Keep, Close, queue
<1>2. PICK k \in Key : /\ Forget(IF Fenced(d, k) THEN {k} ELSE {})
                       /\ drain' = [drain EXCEPT ![d] = Rest(d, k)]
                       /\ \/ Keep(d) /\ k \in drain[d].left \cap drain[d].used
                          \/ Close(d) /\ k = drain[d].key
  <2>1. CASE Keep(d)
    <3>1. drain[d].left \subseteq Key
      BY <1>1, <2>1, DrainTyped DEF Keep
    <3>2. QED
      BY <2>1, <3>1 DEF Keep
  <2>2. CASE Close(d)
    <3>1. drain[d].key \in Key
      BY <1>1, <2>2, DrainTyped DEF Close
    <3>2. QED
      BY <2>2, <3>1 DEF Close
  <2>3. QED
    BY <2>1, <2>2
<1> DEFINE K == IF Fenced(d, k) THEN {k} ELSE {}
<1>3. drain'[d] = Rest(d, k) /\ \A e \in Drains \ {d} : drain'[e] = drain[e]
  BY <1>1, <1>2, DrainGoesOn
<1>4. drain[d].phase \in Sweeps \ {"listed"}
  BY <1>2 DEF Keep, Close, Sweeps
<1>5. ASSUME d \in fence[k]
      PROVE  k[1] \in row \/ (k \notin object /\ \A t \in Savers : k \notin Claimed(t))
  <2>1. \A t \in Savers : k \notin Claimed(t)
    BY <1>5, ClaimedSafe
  <2>2. CASE Keep(d)
    <3>1. (k \in drain[d].left /\ k \in drain[d].used) \/ (drain[d].phase = "removed" /\ k = drain[d].key)
      BY <1>2 DEF Close
    <3>2. drain[d].phase = "looked"
      BY <2>2 DEF Keep
    <3>3. FoundOK(d, k)
      BY <1>1, <1>4, <3>1, <3>2 DEF DrainOK
    <3>4. Valid(k) => k[1] \in row
      BY <1>5, <3>1, <3>2, <3>3 DEF FoundOK
    <3>5. KeyOK(k)
      BY DEF StoreInv
    <3>6. QED
      BY <2>1, <3>4, <3>5 DEF KeyOK
  <2>3. CASE Close(d)
    <3>1. drain[d].phase = "removed" /\ k = drain[d].key
      BY <1>2, <2>3 DEF Keep, Close
    <3>2. QED
      BY <1>1, <1>5, <2>1, <3>1 DEF DrainOK
  <2>4. QED
    BY <1>2, <2>2, <2>3
<1>6. /\ K \in SUBSET Key /\ Forget(K)
      /\ \A j \in K : /\ j[1] \in row \/ (j \notin object /\ \A t \in Savers : j \notin Claimed(t))
                      /\ d \in fence[j]
  BY <1>2, <1>5 DEF Fenced
<1> HIDE DEF K
<1>7. /\ \A t \in Savers : SaverOK(t)'
      /\ \A e \in Drains \ {d} : DrainOK(e)'
      /\ \A j \in Key : KeyOK(j)'
  BY <1>1, <1>3, <1>6, ForgetStep
<1>8. DrainOK(d)'
  <2>1. \A j \in Key : d \in fence'[j] => d \in fence[j]
    BY <1>6 DEF Forget
  <2>2. /\ drain'[d].left = drain[d].left \ {k} /\ drain'[d].used = drain[d].used
        /\ drain'[d].phase = "looked"
    BY <1>3 DEF Rest
  <2>3. drain[d].left \ {k} \in SUBSET drain[d].left /\ drain[d].left \subseteq Key
    BY <1>1, <1>4, DrainTyped DEF Sweeps
  <2>4. \A j \in drain'[d].left : FoundOK(d, j)'
    BY <1>1, <1>4, <2>1, <2>2, <2>3, RestOK
  <2>5. QED
    BY <2>2, <2>4 DEF DrainOK
<1>9. QED
  BY <1>7, <1>8 DEF Kept

\* The key that a drain leases is no row's: what it looked up is still so.
LEMMA KeptLease ==
    ASSUME StoreInv, NEW d \in Drains, LeaseKey(d)
    PROVE  Kept'
<1>1. /\ TypeOK /\ DrainOK(d) /\ UNCHANGED <<kind, raw, row, object, saver, deleted>>
      /\ drain[d].phase = "looked"
  BY DEF StoreInv, LeaseKey, queue
<1>2. drain[d].left \subseteq Key
  BY <1>1, DrainTyped
<1>3. PICK k \in drain[d].left \ drain[d].used :
         /\ d \in fence[k]
         /\ gc' = [gc EXCEPT ![k] = "leased"]
         /\ fence' = [fence EXCEPT ![k] = {d}]
         /\ drain' = [drain EXCEPT ![d] =
                        [phase |-> "leased", left |-> drain[d].left \ {k},
                         used |-> drain[d].used, key |-> k]]
  BY DEF LeaseKey, Fenced
<1>4. k \in Key /\ gc'[k] = "leased" /\ fence'[k] = {d}
  BY <1>1, <1>2, <1>3 DEF TypeOK
<1>5. \A j \in Key \ {k} : gc'[j] = gc[j] /\ fence'[j] = fence[j]
  BY <1>1, <1>2, <1>3 DEF TypeOK
<1>6. /\ drain'[d] = [phase |-> "leased", left |-> drain[d].left \ {k},
                      used |-> drain[d].used, key |-> k]
      /\ \A e \in Drains \ {d} : drain'[e] = drain[e]
  BY <1>1, <1>3, DrainGoesOn
<1>7. /\ \A t \in Savers : SaverOK(t)'
      /\ \A e \in Drains \ {d} : DrainOK(e)'
  <2>1. ASSUME NEW j \in Key
        PROVE  \/ gc'[j] = gc[j] /\ fence'[j] \ {d} = fence[j] \ {d}
                    /\ (d \in fence'[j] => d \in fence[j] \/ gc[j] = "old")
               \/ d \in fence[j] /\ fence'[j] \subseteq {d}
    BY <1>3, <1>4, <1>5
  <2>2. QED
    BY <1>1, <1>6, <2>1, DrainStep
<1>8. DrainOK(d)'
  <2>1. \A j \in drain'[d].left : FoundOK(d, j)'
    <3>1. /\ drain'[d].left = drain[d].left \ {k} /\ drain'[d].used = drain[d].used
          /\ drain[d].left \ {k} \in SUBSET drain[d].left
          /\ drain[d].phase \in Sweeps \ {"listed"}
      BY <1>1, <1>6 DEF Sweeps
    <3>2. \A j \in drain[d].left \ {k} : d \in fence'[j] => d \in fence[j]
      BY <1>2, <1>5
    <3>3. QED
      BY <1>1, <3>1, <3>2, RestOK
  <2>2. QED
    BY <1>4, <1>6, <2>1 DEF DrainOK
<1>9. ASSUME NEW j \in Key PROVE KeyOK(j)'
  <2>1. KeyOK(j) /\ Valid(j)' = Valid(j)
    BY <1>1, ValidSame DEF StoreInv
  <2>2. CASE j = k
    <3>1. FoundOK(d, k)
      BY <1>1, <1>3 DEF DrainOK, Sweeps
    <3>2. ~(Valid(k) /\ k[1] \in row)
      BY <1>3, <3>1 DEF FoundOK
    <3>3. QED
      BY <1>1, <1>4, <2>1, <2>2, <3>2 DEF KeyOK
  <2>3. CASE j # k
    BY <1>1, <1>5, <2>1, <2>3 DEF KeyOK
  <2>4. QED
    BY <2>2, <2>3
<1>10. QED
  BY <1>7, <1>8, <1>9 DEF Kept

\* An object that is deleted, or may be, is the leased one: no row's, no save's.
LEMMA KeptRemove ==
    ASSUME StoreInv, NEW d \in Drains, DeleteObject(d) \/ DeleteFails(d)
    PROVE  Kept'
<1> DEFINE k == drain[d].key
<1>1. /\ TypeOK /\ DrainOK(d) /\ drain[d].phase = "leased"
      /\ UNCHANGED <<kind, raw, row, gc, fence, saver, deleted>>
  BY DEF StoreInv, DeleteObject, DeleteFails, queue, garbage
<1>2. /\ object' \subseteq object /\ object \ {k} \subseteq object'
      /\ DeleteObject(d) => k \notin object'
  BY DEF DeleteObject, DeleteFails
<1>3. gc[k] = "leased" /\ fence[k] = {d} /\ k \in Key
  BY <1>1, DrainTyped DEF DrainOK
<1>4. PICK p \in {"removed", "failed"} :
         /\ drain'[d] = [phase |-> p, left |-> drain[d].left, used |-> drain[d].used, key |-> k]
         /\ p = "removed" => k \notin object'
  BY <1>1, <1>2, DrainMoves DEF DeleteObject, DeleteFails
<1>5. \A e \in Drains \ {d} : drain'[e] = drain[e]
  BY <1>1 DEF DeleteObject, DeleteFails, TypeOK
<1> HIDE DEF k
<1>6. /\ \A t \in Savers : SaverOK(t)'
      /\ \A e \in Drains \ {d} : DrainOK(e)'
  <2>1. \A j \in object \ object' : \A t \in Savers : j \notin Claimed(t)
    BY <1>2, <1>3, ClaimedSafe
  <2>2. QED
    BY <1>1, <1>2, <1>5, <2>1, DrainStep
<1>7. DrainOK(d)'
  <2>1. \A j \in drain'[d].left : FoundOK(d, j)'
    <3>1. /\ drain'[d].left = drain[d].left /\ drain'[d].used = drain[d].used
          /\ drain[d].left \in SUBSET drain[d].left
          /\ drain[d].phase \in Sweeps \ {"listed"}
      BY <1>1, <1>4 DEF Sweeps
    <3>2. QED
      BY <1>1, <3>1, RestOK
  <2>2. QED
    BY <1>4, <2>1 DEF DrainOK
<1>8. ASSUME NEW j \in Key PROVE KeyOK(j)'
  <2>1. KeyOK(j) /\ Valid(j)' = Valid(j)
    BY <1>1, ValidSame DEF StoreInv
  <2>2. QED
    BY <1>1, <1>2, <1>3, <2>1 DEF KeyOK
<1>9. QED
  BY <1>6, <1>7, <1>8 DEF Kept

LEMMA KeptRequeue ==
    ASSUME StoreInv, NEW d \in Drains, Requeue(d)
    PROVE  Kept'
<1> DEFINE k == drain[d].key
<1>1. /\ TypeOK /\ DrainOK(d) /\ drain[d].phase = "failed"
      /\ UNCHANGED <<kind, raw, row, object, saver, deleted>>
      /\ drain' = [drain EXCEPT ![d] = Rest(d, k)]
  BY DEF StoreInv, Requeue, queue
<1>2. k \in Key
  BY <1>1, DrainTyped
<1>3. \A j \in Key : \/ gc'[j] = gc[j] /\ fence'[j] = fence[j]
                     \/ d \in fence[j] /\ gc'[j] = "fresh" /\ fence'[j] = {}
  BY <1>1, <1>2 DEF Requeue, Fenced, TypeOK
<1>4. drain'[d] = Rest(d, k) /\ \A e \in Drains \ {d} : drain'[e] = drain[e]
  BY <1>1, DrainGoesOn
<1> HIDE DEF k
<1>5. /\ \A t \in Savers : SaverOK(t)'
      /\ \A e \in Drains \ {d} : DrainOK(e)'
  <2>1. ASSUME NEW j \in Key
        PROVE  \/ gc'[j] = gc[j] /\ fence'[j] \ {d} = fence[j] \ {d}
                    /\ (d \in fence'[j] => d \in fence[j] \/ gc[j] = "old")
               \/ d \in fence[j] /\ fence'[j] \subseteq {d}
    BY <1>3
  <2>2. QED
    BY <1>1, <1>4, <2>1, DrainStep
<1>6. DrainOK(d)'
  <2>1. /\ drain'[d].left = drain[d].left \ {k} /\ drain'[d].used = drain[d].used
        /\ drain'[d].phase = "looked" /\ drain[d].phase \in Sweeps \ {"listed"}
    BY <1>1, <1>4 DEF Rest, Sweeps
  <2>2. drain[d].left \ {k} \in SUBSET drain[d].left /\ drain[d].left \subseteq Key
    BY <1>1, DrainTyped
  <2>3. \A j \in drain[d].left \ {k} : d \in fence'[j] => d \in fence[j]
    BY <1>3, <2>2
  <2>4. \A j \in drain'[d].left : FoundOK(d, j)'
    BY <1>1, <2>1, <2>2, <2>3, RestOK
  <2>5. QED
    BY <2>1, <2>4 DEF DrainOK
<1>7. \A j \in Key : KeyOK(j)'
  BY <1>1, <1>3, KeyFrame DEF StoreInv
<1>8. QED
  BY <1>5, <1>6, <1>7 DEF Kept

-----------------------------------------------------------------------------
(* What the mirror queue owes.                                             *)

LEMMA OwedFrame ==
    ASSUME StoreInv, NEW m \in Mails, UNCHANGED <<raw, pending>>,
           (job'[m] = "none") <=> (job[m] = "none"),
           m \in row \cup deleted => m \in row' \cup deleted'
    PROVE  OwedOK(m)'
  BY DEF StoreInv, OwedOK

LEMMA OwedSave ==
    ASSUME StoreInv, NEW s \in Savers, NEW m \in Mails,
           \/ Saves(s) \/ Answered(s) \/ PutFails(s) \/ Withhold(s) \/ Break(s) \/ Die(s)
           \/ s \in Mails /\ Send(s)
    PROVE  OwedOK(m)'
<1>1. UNCHANGED <<raw, pending, job, deleted>> /\ row \subseteq row'
  BY DEF Saves, Register, Refuse, Put, InsertRow, Release, Answered, PutFails, Withhold,
         Break, Die, Send, queue
<1>2. QED
  BY <1>1, OwedFrame

\* The email event, for its own mail.
LEMMA OwedEvent ==
    ASSUME StoreInv, NEW s \in Mails, NEW m \in Mails,
           Receive(s) \/ JobDue(s) \/ RemoveRaw(s) \/ (Native(s) /\ (MarkComplete(s) \/ Enqueue(s)))
    PROVE  OwedOK(m)'
<1>1. TypeOK /\ OwedOK(m) /\ row' = row /\ deleted' = deleted
  BY DEF StoreInv, Receive, JobDue, RemoveRaw, MarkComplete, Enqueue
<1>2. CASE Receive(s)
  BY <1>1, <1>2 DEF Receive, TypeOK, OwedOK
<1>3. CASE JobDue(s)
  BY <1>1, <1>3, OwedFrame DEF JobDue, TypeOK
<1>4. CASE RemoveRaw(s)
  BY <1>1, <1>4 DEF RemoveRaw, TypeOK, OwedOK
<1>5. CASE Native(s) /\ (MarkComplete(s) \/ Enqueue(s))
  <2>1. s \in Savers /\ SaverOK(s) /\ saver[s].phase \in {"saved", "failed"}
    BY <1>5 DEF StoreInv, Savers, MarkComplete, Enqueue, In
  <2>2. Mail(s) = s /\ raw[s] # "none" /\ (saver[s].phase = "saved" => s \in row \cup deleted)
    BY <1>5, <2>1 DEF SaverOK
  <2>3. CASE MarkComplete(s)
    <3>1. pending' = pending \ {s} /\ raw' = raw /\ job' = job /\ s \in row \cup deleted
      BY <2>2, <2>3 DEF MarkComplete, In
    <3>2. QED
      BY <1>1, <3>1 DEF OwedOK
  <2>4. CASE Enqueue(s)
    BY <1>1, <2>2, <2>4 DEF Enqueue, TypeOK, OwedOK
  <2>5. QED
    BY <1>5, <2>3, <2>4
<1>6. QED
  BY <1>2, <1>3, <1>4, <1>5

\* The scheduler: a job goes when its mail has a row, or had one, or is gone.
LEMMA OwedCron ==
    ASSUME StoreInv, NEW c \in Crons, NEW m \in Mails,
           Mirror(c) \/ \E n \in Mails : Page(c, n) \/ LeaseJob(c, n)
    PROVE  OwedOK(m)'
<1>1. TypeOK /\ OwedOK(m) /\ c \in Savers /\ SaverOK(c)
      /\ row' = row /\ deleted' = deleted /\ raw' = raw
  BY DEF StoreInv, Savers, Mirror, Reconcile, Drop, Succeed, Retry, Page, LeaseJob, queue
<1>2. CASE \E n \in Mails : Page(c, n) \/ LeaseJob(c, n)
  <2>1. pending' = pending /\ ((job'[m] = "none") <=> (job[m] = "none"))
    BY <1>1, <1>2 DEF Page, LeaseJob, TypeOK, queue
  <2>2. QED
    BY <1>1, <2>1, OwedFrame
<1>3. CASE Mirror(c)
  <2> DEFINE n == Mail(c)
  <2>1. saver[c].phase # "idle" /\ n \in Mails /\ raw[n] # "none"
    <3>1. saver[c].phase # "idle"
      BY <1>3 DEF Mirror, Reconcile, Drop, Succeed, Retry, In
    <3>2. QED
      BY <1>1, <3>1, BusySave DEF SaverOK
  <2>2. CASE Reconcile(c)
    <3>1. /\ pending' = pending \ {n}
          /\ job' = IF Missing(n) THEN [job EXCEPT ![n] = "due"] ELSE job
      BY <2>2 DEF Reconcile
    <3> HIDE DEF n
    <3>2. CASE m = n
      BY <1>1, <2>1, <3>1, <3>2 DEF Missing, TypeOK, OwedOK
    <3>3. CASE m # n
      BY <1>1, <2>1, <3>1, <3>3 DEF TypeOK, OwedOK
    <3>4. QED
      BY <3>2, <3>3
  <2>3. CASE Drop(c)
    <3>1. raw[n] = "gone" /\ pending' = pending /\ \A j \in Mails \ {n} : job'[j] = job[j]
      BY <1>1, <2>1, <2>3 DEF Drop, CloseJob, In, SaverOK, TypeOK
    <3> HIDE DEF n
    <3>2. QED
      BY <1>1, <2>1, <3>1 DEF OwedOK
  <2>4. CASE Succeed(c)
    <3>1. n \in row \cup deleted /\ pending' = pending \ {n} /\ \A j \in Mails \ {n} : job'[j] = job[j]
      BY <1>1, <2>1, <2>4 DEF Succeed, CloseJob, In, SaverOK, TypeOK
    <3> HIDE DEF n
    <3>2. QED
      BY <1>1, <2>1, <3>1 DEF OwedOK
  <2>5. CASE Retry(c)
    <3>1. pending' = pending /\ (\A j \in Mails \ {n} : job'[j] = job[j])
          /\ (job'[n] = job[n] \/ job'[n] = "waiting")
      BY <1>1, <2>1, <2>5 DEF Retry, TypeOK
    <3> HIDE DEF n
    <3>2. QED
      BY <1>1, <2>1, <3>1 DEF OwedOK
  <2>6. QED
    BY <1>3, <2>2, <2>3, <2>4, <2>5 DEF Mirror
<1>4. QED
  BY <1>2, <1>3

LEMMA OwedOther ==
    ASSUME StoreInv, NEW m \in Mails,
           \/ \E n \in Mails : Delete(n) \/ Select(n) \/ Retire(n)
           \/ \E k \in Key : Age(k) \/ Lapse(k)
           \/ \E d \in Drains : ListGarbage(d) \/ Collect(d) \/ DeleteFails(d) \/ Stop(d)
    PROVE  OwedOK(m)'
<1>1. UNCHANGED <<raw, pending, job>> /\ row \cup deleted \subseteq row' \cup deleted'
  <2>1. CASE \E n \in Mails : Delete(n) \/ Select(n) \/ Retire(n)
    BY <2>1 DEF Delete, Select, Retire, queue
  <2>2. CASE \E k \in Key : Age(k) \/ Lapse(k)
    BY <2>2 DEF Age, Lapse, queue
  <2>3. CASE \E d \in Drains : ListGarbage(d) \/ Collect(d) \/ DeleteFails(d) \/ Stop(d)
    BY <2>3 DEF ListGarbage, Collect, LookUp, Keep, LeaseKey, PassOver, DeleteObject, Close,
                Requeue, Finish, DeleteFails, Stop, queue
  <2>4. QED
    BY <2>1, <2>2, <2>3
<1>2. QED
  BY <1>1, OwedFrame

-----------------------------------------------------------------------------
(* The theorems.                                                           *)

LEMMA StoreStep ==
    ASSUME StoreInv, [Next]_vars
    PROVE  StoreInv'
<1>1. TypeOK'
  BY TypeStep DEF StoreInv
<1>2. CASE UNCHANGED vars
  <2>1. UNCHANGED <<kind, raw, pending, job, row, object, gc, fence, saver, drain, deleted>>
    BY <1>2 DEF vars, queue, garbage
  <2>2. \A s \in Savers : SaverOK(s)'
    <3>1. \A t \in Savers : \A k \in Claimed(t) :
             fence[k] = {} /\ (gc[k] = "fresh" \/ (gc[k] = "none" /\ k[1] \in row))
      BY ClaimedSafe
    <3>2. QED
      BY <2>1, <3>1, SaversKept
  <2>3. \A d \in Drains : DrainOK(d)'
    BY <2>1, DrainFrame DEF StoreInv
  <2>4. \A k \in Key : KeyOK(k)'
    BY <2>1, KeyFrame DEF StoreInv
  <2>5. \A m \in Mails : OwedOK(m)'
    BY <2>1, OwedFrame
  <2>6. QED
    BY <1>1, <2>2, <2>3, <2>4, <2>5 DEF StoreInv
<1>3. CASE Next
  <2>1. Kept'
    <3>1. CASE \E m \in Mails : Receive(m) \/ Send(m) \/ JobDue(m) \/ RemoveRaw(m)
      BY <3>1, KeptBegin, KeptMail DEF Savers
    <3>2. CASE \E m \in Mails : Delete(m) \/ Select(m) \/ Retire(m)
      BY <3>2, KeptMail
    <3>3. CASE \E s \in Savers : Works(s) \/ PutFails(s) \/ Withhold(s) \/ Break(s) \/ Die(s)
      BY <3>3, KeptRegister, KeptPut, KeptInsertRow, KeptRelease, KeptQuiet DEF Works, Saves
    <3>4. CASE \E c \in Crons, m \in Mails : Page(c, m) \/ LeaseJob(c, m)
      BY <3>4, KeptBegin DEF Savers
    <3>5. CASE \E k \in Key : Age(k) \/ Lapse(k)
      BY <3>5, KeptTime
    <3>6. CASE \E d \in Drains : ListGarbage(d) \/ Collect(d) \/ DeleteFails(d) \/ Stop(d)
      BY <3>6, KeptLook, KeptForget, KeptLease, KeptRemove, KeptRequeue DEF Collect
    <3>7. QED
      BY <1>3, <3>1, <3>2, <3>3, <3>4, <3>5, <3>6 DEF Next
  <2>2. ASSUME NEW m \in Mails PROVE OwedOK(m)'
    <3>1. CASE \E n \in Mails : Receive(n) \/ Send(n) \/ JobDue(n) \/ RemoveRaw(n)
      BY <3>1, OwedEvent, OwedSave DEF Savers
    <3>2. CASE \E s \in Savers : Works(s) \/ PutFails(s) \/ Withhold(s) \/ Break(s) \/ Die(s)
      BY <3>2, OwedSave, OwedEvent, OwedCron DEF Works
    <3>3. CASE \E c \in Crons, n \in Mails : Page(c, n) \/ LeaseJob(c, n)
      BY <3>3, OwedCron
    <3>4. CASE \/ \E n \in Mails : Delete(n) \/ Select(n) \/ Retire(n)
               \/ \E k \in Key : Age(k) \/ Lapse(k)
               \/ \E d \in Drains : ListGarbage(d) \/ Collect(d) \/ DeleteFails(d) \/ Stop(d)
      BY <3>4, OwedOther
    <3>5. QED
      BY <1>3, <3>1, <3>2, <3>3, <3>4 DEF Next
  <2>3. QED
    BY <1>1, <2>1, <2>2 DEF StoreInv, Kept
<1>4. QED
  BY <1>2, <1>3

LEMMA StoreInit == Init => StoreInv
<1>1. SUFFICES ASSUME Init PROVE StoreInv
  OBVIOUS
<1>2. TypeOK
  BY <1>1, TypeInit
<1>3. \A s \in Savers : SaverOK(s)
  BY <1>1 DEF Init, SaverOK, Claimed, Idle
<1>4. \A d \in Drains : DrainOK(d)
  BY <1>1 DEF Init, DrainOK, Idle, Sweeps
<1>5. \A k \in Key : KeyOK(k)
  BY <1>1 DEF Init, KeyOK
<1>6. \A m \in Mails : OwedOK(m)
  BY <1>1 DEF Init, OwedOK
<1>7. QED
  BY <1>2, <1>3, <1>4, <1>5, <1>6 DEF StoreInv

\* The invariant that the theorems below are read off: claimed keys are
\* protected, and what a drain knows is so.
THEOREM StoreInvariant == Spec => []StoreInv
  BY StoreInit, StoreStep, PTL DEF Spec

\* No attachment named by a row of emails is ever without its object, however
\* saves, deletions and collectors overlap, fail and die (retention.ts).
THEOREM ObjectsKept == Spec => []AttachmentsKept
<1>1. StoreInv => AttachmentsKept
  BY KeysOfFacts DEF StoreInv, TypeOK, KeyOK, AttachmentsKept
<1>2. QED
  BY <1>1, StoreInvariant, PTL

\* No object is left behind that the collector does not know (saveUnifiedEmail,
\* the trigger on emails, retention).
THEOREM NothingOrphaned == Spec => []NoOrphan
<1>1. StoreInv => NoOrphan
  BY DEF StoreInv, TypeOK, KeyOK, NoOrphan
<1>2. QED
  BY <1>1, StoreInvariant, PTL

\* No delivered mail is forgotten: until it has a row or had one, it is pending
\* or has a job (mirror_jobs.ts).
THEOREM MirrorsOwed == Spec => []MirrorOwed
<1>1. StoreInv => MirrorOwed
  BY DEF StoreInv, OwedOK, MirrorOwed
<1>2. QED
  BY <1>1, StoreInvariant, PTL
=============================================================================
