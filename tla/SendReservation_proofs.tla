----------------------- MODULE SendReservation_proofs -----------------------
(***************************************************************************)
(* Quotas, keys and payment hold for every number of calls and operators.  *)
(*                                                                         *)
(* The argument is about one reservation at a time (SendOK): while its     *)
(* call is before the dispatch the row is pending, from the dispatch on it *)
(* is unknown or sent, and nothing releases a row that is either.  So a    *)
(* mail at the provider keeps its place in the counters, which stay exact. *)
(***************************************************************************)
EXTENDS SendReservation, FiniteSetTheorems, TLAPS

-----------------------------------------------------------------------------
(* Types.                                                                   *)

LEMMA LiveIsRow ==
    ASSUME rows \in [Sends -> Row \cup {NoRow}], NEW s \in Sends, Live(s)
    PROVE  rows[s] \in Row
  BY DEF Live, NoRow

LEMMA ActiveIsLive ==
    ASSUME NEW s \in Sends, Active(s) PROVE Live(s)
  BY DEF Active, Live

LEMMA BusyIsCall ==
    ASSUME call \in [Sends -> Call \cup {Idle}], NEW c \in Sends, call[c].at # "idle"
    PROVE  call[c] \in Call
  BY DEF Idle

LEMMA CaseOpen ==
    ASSUME op \in [Operators -> Case \cup {Off}], NEW o \in Operators, op[o].phase # "idle"
    PROVE  op[o] \in Case
  BY DEF Off

LEMMA BucketsTyped ==
    ASSUME NEW d \in Days
    PROVE  BucketsOf(d) \subseteq Buckets
  BY DEF BucketsOf, Buckets

LEMMA LimitTyped == \A b \in Buckets : Limit(b) \in Nat \cup {NoLimit}
  BY ConstantsAssumption DEF Limit

\* A call moves on and nothing else of it changes.
LEMMA GoOnType ==
    ASSUME call \in [Sends -> Call \cup {Idle}], NEW c \in Sends, call[c].at # "idle",
           NEW at \in Phases, GoOn(c, at)
    PROVE  call' \in [Sends -> Call \cup {Idle}]
<1>1. call[c] \in Call
  BY BusyIsCall
<1>2. [call[c] EXCEPT !.at = at] \in Call
  BY <1>1 DEF Call
<1>3. QED
  BY <1>2 DEF GoOn

LEMMA FaultsType ==
    ASSUME faults \in 0 .. MaxFaults, NEW o \in Outcomes, Counted(o)
    PROVE  faults' \in 0 .. MaxFaults
  BY ConstantsAssumption DEF Outcomes, Counted

LEMMA FreedFinite ==
    ASSUME NEW S \in SUBSET Sends, NEW b
    PROVE  IsFiniteSet(Freed(S, b)) /\ Cardinality(Freed(S, b)) \in Nat
<1>1. Freed(S, b) \subseteq Sends
  BY DEF Freed
<1>2. QED
  BY <1>1, ConstantsAssumption, FS_Subset, FS_CardinalityType

LEMMA ReleaseType ==
    ASSUME TypeOK, NEW S \in SUBSET Sends, \A s \in S : Live(s), Release(S)
    PROVE  rows' \in [Sends -> Row \cup {NoRow}] /\ count' \in [Buckets -> Nat]
<1>1. ASSUME NEW s \in Sends PROVE rows'[s] \in Row \cup {NoRow}
  <2>1. CASE s \in S
    <3>1. rows[s] \in Row
      BY <2>1, LiveIsRow DEF TypeOK
    <3>2. rows'[s] = [rows[s] EXCEPT !.status = "released", !.dispatch = "pending"]
      BY <2>1 DEF Release
    <3>3. QED
      BY <3>1, <3>2 DEF Row
  <2>2. CASE s \notin S
    BY <2>2 DEF Release, TypeOK
  <2>3. QED
    BY <2>1, <2>2
<1>2. rows' = [s \in Sends |-> rows'[s]]
  BY DEF Release
<1>3. ASSUME NEW b \in Buckets PROVE count'[b] \in Nat
  <2>1. Cardinality(Freed(S, b)) \in Nat /\ count[b] \in Nat
    BY FreedFinite DEF TypeOK
  <2>2. count'[b] = IF count[b] > Cardinality(Freed(S, b))
                    THEN count[b] - Cardinality(Freed(S, b)) ELSE 0
    BY DEF Release
  <2>3. QED
    BY <2>1, <2>2
<1>4. count' = [b \in Buckets |-> count'[b]]
  BY DEF Release
<1>5. QED
  BY <1>1, <1>2, <1>3, <1>4

LEMMA TypeInit == Init => TypeOK
  BY ConstantsAssumption DEF Init, TypeOK, Days, NoRow, Idle, Off

\* Call steps: what a call writes.
LEMMA CallTypes ==
    ASSUME TypeOK, NEW c \in Sends, CallStep(c)
    PROVE  /\ call' \in [Sends -> Call \cup {Idle}]
           /\ faults' \in 0 .. MaxFaults
<1>0. call \in [Sends -> Call \cup {Idle}] /\ faults \in 0 .. MaxFaults
  BY DEF TypeOK
<1>1. ASSUME NEW k \in Keys \cup {NoKey}, NEW b \in Bodies, NEW bill \in BOOLEAN,
             Begin(c, k, b, bill)
      PROVE  call' \in [Sends -> Call \cup {Idle}] /\ faults' = faults
  <2>1. [at |-> "entered", key |-> k, body |-> b, day |-> today, bill |-> bill,
         debited |-> FALSE, found |-> c] \in Call
    BY DEF Call, Phases, TypeOK
  <2>2. QED
    BY <1>0, <1>1, <2>1 DEF Begin
<1>2. CASE Sweep(c)
  BY <1>0, <1>2, GoOnType DEF Sweep, Phases
<1>3. CASE LookUp(c)
  <2>1. ASSUME NEW s \in Sends,
               call' = [call EXCEPT ![c].at = "clearing", ![c].found = s]
        PROVE  call' \in [Sends -> Call \cup {Idle}]
    <3>1. call[c] \in Call
      BY <1>0, <1>3, BusyIsCall DEF LookUp
    <3>2. [call[c] EXCEPT !.at = "clearing", !.found = s] \in Call
      BY <3>1 DEF Call, Phases
    <3>3. QED
      BY <1>0, <2>1, <3>2
  <2>2. GoOn(c, "inserting") \/ GoOn(c, "over") => call' \in [Sends -> Call \cup {Idle}]
    BY <1>0, <1>3, GoOnType DEF LookUp, Phases
  <2>3. QED
    BY <1>0, <1>3, <2>1, <2>2 DEF LookUp, RowsOf
<1>4. CASE Clear(c) \/ Collide(c) \/ NoChannel(c) \/ MarkDispatchSucceeded(c) \/ RefundOwn(c)
  BY <1>0, <1>4, GoOnType
     DEF Clear, Collide, NoChannel, MarkDispatchSucceeded, RefundOwn, Phases
<1>5. CASE Insert(c)
  BY <1>0, <1>5, GoOnType DEF Insert, Phases
<1>6. CASE Debit(c)
  <2>1. ~call[c].bill => GoOn(c, "ready") /\ faults' = faults
    BY <1>6 DEF Debit
  <2>2. GoOn(c, "ready") => call' \in [Sends -> Call \cup {Idle}]
    BY <1>0, <1>6, GoOnType DEF Debit, Phases
  <2>3. ASSUME NEW o \in Outcomes, Counted(o), NEW d \in BOOLEAN,
               NEW at \in {"debited", "releasing"},
               call' = [call EXCEPT ![c].debited = d, ![c].at = at]
        PROVE  call' \in [Sends -> Call \cup {Idle}] /\ faults' \in 0 .. MaxFaults
    <3>1. call[c] \in Call
      BY <1>0, <1>6, BusyIsCall DEF Debit
    <3>2. [call[c] EXCEPT !.debited = d, !.at = at] \in Call
      BY <3>1 DEF Call, Phases
    <3>3. call' \in [Sends -> Call \cup {Idle}]
      BY <1>0, <2>3, <3>2
    <3>4. QED
      BY <1>0, <2>3, <3>3, FaultsType
  <2>4. call[c].bill => \E o \in Outcomes, d \in BOOLEAN, at \in {"debited", "releasing"} :
           Counted(o) /\ call' = [call EXCEPT ![c].debited = d, ![c].at = at]
    <3>1. SUFFICES ASSUME call[c].bill
                   PROVE  \E o \in Outcomes, d \in BOOLEAN, at \in {"debited", "releasing"} :
                            Counted(o) /\ call' = [call EXCEPT ![c].debited = d, ![c].at = at]
      OBVIOUS
    <3>2. PICK o \in Outcomes :
             /\ Counted(o)
             /\ call' = [call EXCEPT
                   ![c].debited = (o = "ok" /\ Affordable),
                   ![c].at = IF o = "ok" /\ Affordable THEN "debited" ELSE "releasing"]
      BY <1>6, <3>1 DEF Debit
    <3>3. (o = "ok" /\ Affordable) \in BOOLEAN
      OBVIOUS
    <3>4. (IF o = "ok" /\ Affordable THEN "debited" ELSE "releasing")
             \in {"debited", "releasing"}
      OBVIOUS
    <3>5. QED
      BY <3>2, <3>3, <3>4
  <2>5. QED
    BY <1>0, <2>1, <2>2, <2>3, <2>4
<1>7. CASE MarkBalanceReserved(c) \/ MarkDispatchStarted(c) \/ Commit(c) \/ ReleaseOwn(c)
  <2>1. PICK o \in Outcomes : Counted(o)
    BY <1>7 DEF MarkBalanceReserved, MarkDispatchStarted, Commit, ReleaseOwn
  <2>2. faults' \in 0 .. MaxFaults
    BY <1>0, <2>1, FaultsType
  <2>3. PICK at \in Phases : GoOn(c, at)
    BY <1>7 DEF MarkBalanceReserved, MarkDispatchStarted, Commit, ReleaseOwn, Phases
  <2>4. call[c].at # "idle"
    BY <1>7 DEF MarkBalanceReserved, MarkDispatchStarted, Commit, ReleaseOwn
  <2>5. QED
    BY <1>0, <2>2, <2>3, <2>4, GoOnType
<1>8. CASE Dispatch(c)
  BY <1>0, <1>8, GoOnType DEF Dispatch, Phases, AfterError
<1>9. CASE Die(c)
  <2>1. call' \in [Sends -> Call \cup {Idle}]
    BY <1>0, <1>9, GoOnType DEF Die, Phases
  <2>2. QED
    BY <1>0, <1>9, <2>1, ConstantsAssumption DEF Die
<1>10. QED
  BY <1>0, <1>1, <1>2, <1>3, <1>4, <1>5, <1>6, <1>7, <1>8, <1>9 DEF CallStep

\* A row whose state and marks change stays a row.
LEMMA RowType ==
    ASSUME rows \in [Sends -> Row \cup {NoRow}], NEW s \in Sends, Live(s),
           \/ rows' = [rows EXCEPT ![s].billed = TRUE]
           \/ rows' = [rows EXCEPT ![s].refunded = TRUE]
           \/ \E d \in {"pending", "unknown", "sent"} : rows' = [rows EXCEPT ![s].dispatch = d]
           \/ rows' = [rows EXCEPT ![s].status = "committed"]
           \/ rows' = [rows EXCEPT ![s].dispatch = "sent", ![s].status = "committed"]
           \/ rows' = rows
    PROVE  rows' \in [Sends -> Row \cup {NoRow}]
<1>1. rows[s] \in Row
  BY LiveIsRow
<1>2. PICK r \in Row : rows' = [rows EXCEPT ![s] = r]
  <2>1. [rows[s] EXCEPT !.billed = TRUE] \in Row /\ [rows[s] EXCEPT !.refunded = TRUE] \in Row
    BY <1>1 DEF Row
  <2>2. \A d \in {"pending", "unknown", "sent"} : [rows[s] EXCEPT !.dispatch = d] \in Row
    BY <1>1 DEF Row
  <2>3. [rows[s] EXCEPT !.status = "committed"] \in Row
    BY <1>1 DEF Row
  <2>4. [rows[s] EXCEPT !.dispatch = "sent", !.status = "committed"] \in Row
    BY <1>1 DEF Row
  <2>5. rows' = rows => rows' = [rows EXCEPT ![s] = rows[s]]
    OBVIOUS
  <2>6. QED
    BY <1>1, <2>1, <2>2, <2>3, <2>4, <2>5
<1>3. QED
  BY <1>2

LEMMA CallRowTypes ==
    ASSUME TypeOK, NEW c \in Sends, CallStep(c)
    PROVE  rows' \in [Sends -> Row \cup {NoRow}] /\ count' \in [Buckets -> Nat]
<1>0. rows \in [Sends -> Row \cup {NoRow}] /\ count \in [Buckets -> Nat]
  BY DEF TypeOK
<1>1. CASE Sweep(c)
  <2>1. PICK S \in SUBSET {s \in Sends : Overdue(s)} : Release(S)
    BY <1>1 DEF Sweep
  <2>2. \A s \in S : Live(s)
    BY ActiveIsLive DEF Overdue, Pending
  <2>3. QED
    BY <2>1, <2>2, ReleaseType
<1>2. CASE ReleaseOwn(c)
  <2>1. PICK o \in Outcomes : Release(IF Pending(c) /\ o # "failed" THEN {c} ELSE {})
    BY <1>2 DEF ReleaseOwn
  <2>2. Pending(c) => Live(c)
    BY ActiveIsLive DEF Pending
  <2>3. QED
    BY <2>1, <2>2, ReleaseType
<1>3. CASE Clear(c)
  <2>1. rows' = rows \/ rows' = [rows EXCEPT ![call[c].found] = NoRow]
    BY <1>3 DEF Clear
  <2>2. QED
    BY <1>0, <1>3, <2>1 DEF Clear
<1>4. CASE Insert(c)
  <2>1. call[c] \in Call
    BY <1>4, BusyIsCall DEF Insert, TypeOK
  <2>2. [status |-> "active", dispatch |-> "pending", key |-> call[c].key,
         body |-> call[c].body, day |-> call[c].day,
         billed |-> FALSE, refunded |-> FALSE] \in Row
    BY <2>1 DEF Call, Row
  <2>3. rows' \in [Sends -> Row \cup {NoRow}]
    BY <1>0, <1>4, <2>2 DEF Insert
  <2>4. CASE count' = count
    BY <1>0, <2>3, <2>4
  <2>5. CASE count' = [b \in Buckets |-> IF b \in BucketsOf(call[c].day)
                                        THEN count[b] + 1 ELSE count[b]]
    BY <1>0, <2>3, <2>5
  <2>6. QED
    BY <1>4, <2>4, <2>5 DEF Insert
<1>5. CASE MarkBalanceReserved(c) \/ MarkDispatchStarted(c) \/ MarkDispatchSucceeded(c)
           \/ Commit(c)
  <2>1. count' = count
    BY <1>5 DEF MarkBalanceReserved, MarkDispatchStarted, MarkDispatchSucceeded, Commit
  <2>2. \/ rows' = rows
        \/ /\ Active(c)
           /\ \/ rows' = [rows EXCEPT ![c].billed = TRUE]
              \/ rows' = [rows EXCEPT ![c].dispatch = "unknown"]
              \/ rows' = [rows EXCEPT ![c].dispatch = "sent"]
              \/ rows' = [rows EXCEPT ![c].status = "committed"]
    BY <1>5 DEF MarkBalanceReserved, MarkDispatchStarted, MarkDispatchSucceeded, Commit,
       Pending, Unknown
  <2>3. CASE rows' = rows
    BY <1>0, <2>1, <2>3
  <2>4. CASE rows' # rows
    <3>1. Live(c)
      BY <2>2, <2>4, ActiveIsLive
    <3>2. rows' \in [Sends -> Row \cup {NoRow}]
      BY <1>0, <2>2, <2>4, <3>1, RowType
    <3>3. QED
      BY <1>0, <2>1, <3>2
  <2>5. QED
    BY <2>3, <2>4
<1>6. ASSUME ~(\/ Sweep(c) \/ ReleaseOwn(c) \/ Clear(c) \/ Insert(c) \/ MarkBalanceReserved(c)
               \/ MarkDispatchStarted(c) \/ MarkDispatchSucceeded(c) \/ Commit(c))
      PROVE  rows' = rows /\ count' = count
  BY <1>6 DEF CallStep, Begin, LookUp, Collide, Debit, NoChannel, Dispatch, RefundOwn, Die
<1>7. QED
  BY <1>0, <1>1, <1>2, <1>3, <1>4, <1>5, <1>6

LEMMA CallSetTypes ==
    ASSUME TypeOK, NEW c \in Sends, CallStep(c)
    PROVE  /\ balance' \in Nat
           /\ {accepted', debited', told'} \subseteq SUBSET Sends
           /\ credits' \in [Sends -> Nat]
           /\ today' = today /\ op' = op /\ spent' = spent /\ unapplied' = unapplied
<1>0. /\ balance \in Nat /\ {accepted, debited, told} \subseteq SUBSET Sends
      /\ credits \in [Sends -> Nat]
  BY DEF TypeOK
<1>1. today' = today /\ op' = op /\ spent' = spent /\ unapplied' = unapplied
  BY DEF CallStep, Unchanged, Begin, Sweep, LookUp, Clear, Insert, Collide, Debit,
     MarkBalanceReserved, NoChannel, MarkDispatchStarted, Dispatch, MarkDispatchSucceeded,
     Commit, ReleaseOwn, RefundOwn, Die
<1>2. CASE Debit(c)
  <2>1. told' = told /\ accepted' = accepted /\ credits' = credits
    BY <1>2 DEF Debit
  <2>2. debited' = debited \/ debited' = debited \cup {c}
    BY <1>2 DEF Debit
  <2>3. balance' = balance \/ (balance > 0 /\ balance' = balance - 1)
    BY <1>2 DEF Debit, Affordable
  <2>4. balance' \in Nat
    BY <1>0, <2>3
  <2>5. QED
    BY <1>0, <1>1, <2>1, <2>2, <2>4
<1>3. CASE RefundOwn(c)
  BY <1>0, <1>1, <1>3 DEF RefundOwn
<1>4. ASSUME ~Debit(c), ~RefundOwn(c)
      PROVE  balance' = balance /\ debited' = debited /\ credits' = credits
  BY <1>4 DEF CallStep, Begin, Sweep, LookUp, Clear, Insert, Collide,
     MarkBalanceReserved, NoChannel, MarkDispatchStarted, Dispatch, MarkDispatchSucceeded,
     Commit, ReleaseOwn, Die
<1>5. ASSUME ~Debit(c), ~RefundOwn(c)
      PROVE  told' \in SUBSET Sends
  <2>1. \A s \in Sends : Answers(c, s) \subseteq Sends
    BY DEF Answers
  <2>2. UNION {Answers(c, s) : s \in RowsOf(call[c].key)} \subseteq Sends
    BY <2>1 DEF RowsOf
  <2>3. CASE LookUp(c)
    BY <1>0, <2>1, <2>3 DEF LookUp, RowsOf
  <2>4. CASE Collide(c)
    BY <1>0, <2>2, <2>4 DEF Collide
  <2>5. CASE Commit(c)
    BY <1>0, <2>5 DEF Commit
  <2>6. ASSUME ~LookUp(c), ~Collide(c), ~Commit(c) PROVE told' = told
    BY <1>5, <2>6 DEF CallStep, Begin, Sweep, Clear, Insert, MarkBalanceReserved, NoChannel,
       MarkDispatchStarted, Dispatch, MarkDispatchSucceeded, ReleaseOwn, Die
  <2>7. QED
    BY <1>0, <2>3, <2>4, <2>5, <2>6
<1>6. ASSUME ~Debit(c), ~RefundOwn(c)
      PROVE  accepted' \in SUBSET Sends
  <2>1. accepted' = accepted \/ accepted' = accepted \cup {c}
    BY <1>6 DEF CallStep, Begin, Sweep, LookUp, Clear, Insert, Collide, MarkBalanceReserved,
       NoChannel, MarkDispatchStarted, Dispatch, MarkDispatchSucceeded, Commit, ReleaseOwn, Die
  <2>2. QED
    BY <1>0, <2>1
<1>7. QED
  BY <1>0, <1>1, <1>2, <1>3, <1>4, <1>5, <1>6

LEMMA SchedulerTypes ==
    ASSUME TypeOK, Promote \/ ReleaseExpired \/ Purge
    PROVE  TypeOK'
<1>0. rows \in [Sends -> Row \cup {NoRow}] /\ count \in [Buckets -> Nat] /\ spent \in SUBSET Sends
  BY DEF TypeOK
<1>1. CASE Promote
  <2>1. ASSUME NEW s \in Sends PROVE rows'[s] \in Row \cup {NoRow}
    <3>1. CASE Active(s) /\ rows[s].dispatch = "sent"
      <4>1. rows[s] \in Row
        BY <1>0, <3>1, ActiveIsLive, LiveIsRow
      <4>2. rows'[s] = [rows[s] EXCEPT !.status = "committed"]
        BY <1>1, <3>1 DEF Promote
      <4>3. QED
        BY <4>1, <4>2 DEF Row
    <3>2. CASE ~(Active(s) /\ rows[s].dispatch = "sent")
      BY <1>0, <1>1, <3>2 DEF Promote
    <3>3. QED
      BY <3>1, <3>2
  <2>2. rows' \in [Sends -> Row \cup {NoRow}]
    BY <1>1, <2>1 DEF Promote
  <2>3. QED
    BY <1>1, <2>2 DEF Promote, Scheduled, TypeOK
<1>2. CASE ReleaseExpired
  <2>1. PICK S \in SUBSET {s \in Sends : Overdue(s)} : Release(S)
    BY <1>2 DEF ReleaseExpired
  <2>2. \A s \in S : Live(s)
    BY ActiveIsLive DEF Overdue, Pending
  <2>3. rows' \in [Sends -> Row \cup {NoRow}] /\ count' \in [Buckets -> Nat]
    BY <2>1, <2>2, ReleaseType
  <2>4. QED
    BY <1>2, <2>3 DEF ReleaseExpired, Scheduled, TypeOK
<1>3. CASE Purge
  <2>1. PICK S \in SUBSET Sends :
           /\ rows' = [s \in Sends |-> IF s \in S THEN NoRow ELSE rows[s]]
           /\ spent' = spent \cup {s \in S : rows[s].status = "committed"}
    BY <1>3 DEF Purge
  <2>2. rows' \in [Sends -> Row \cup {NoRow}] /\ spent' \in SUBSET Sends
    BY <1>0, <2>1
  <2>3. QED
    BY <1>3, <2>2 DEF Purge, Scheduled, TypeOK
<1>4. QED
  BY <1>1, <1>2, <1>3

LEMMA OperatorTypes ==
    ASSUME TypeOK, NEW o \in Operators, OperatorStep(o)
    PROVE  TypeOK'
<1>0. /\ rows \in [Sends -> Row \cup {NoRow}] /\ count \in [Buckets -> Nat]
      /\ op \in [Operators -> Case \cup {Off}] /\ credits \in [Sends -> Nat]
      /\ balance \in Nat /\ unapplied \in SUBSET Sends
  BY DEF TypeOK
<1>1. ASSUME NEW s \in Sends, NEW v \in {"sent", "rejected"}, Resolve(o, s, v)
      PROVE  TypeOK'
  <2>1. Refundable(s) \in BOOLEAN
    BY DEF Refundable
  <2>2. PICK p \in {"write", "refund"}, b \in BOOLEAN :
           op' = [op EXCEPT ![o] = [phase |-> p, id |-> s, verdict |-> v, refund |-> b]]
    BY <1>1, <2>1 DEF Resolve
  <2>3. [phase |-> p, id |-> s, verdict |-> v, refund |-> b] \in Case
    BY DEF Case
  <2>4. op' \in [Operators -> Case \cup {Off}]
    BY <1>0, <2>2, <2>3
  <2>5. QED
    BY <1>1, <2>4 DEF Resolve, Operated, TypeOK
<1>2. CASE ConfirmSent(o)
  <2>1. op[o].id \in Sends
    BY <1>0, <1>2, CaseOpen DEF ConfirmSent, Case
  <2>2. \/ rows' = rows
        \/ /\ Active(op[o].id)
           /\ rows' = [rows EXCEPT ![op[o].id].dispatch = "sent",
                                   ![op[o].id].status = "committed"]
    BY <1>2 DEF ConfirmSent, Unknown
  <2>3. rows' \in [Sends -> Row \cup {NoRow}]
    BY <1>0, <2>1, <2>2, RowType, ActiveIsLive
  <2>4. op' \in [Operators -> Case \cup {Off}]
    BY <1>0, <1>2 DEF ConfirmSent
  <2>5. QED
    BY <1>2, <2>3, <2>4 DEF ConfirmSent, Operated, TypeOK
<1>3. CASE ConfirmRejected(o)
  <2>1. op[o] \in Case
    BY <1>0, <1>3, CaseOpen DEF ConfirmRejected
  <2>2. PICK S \in SUBSET {op[o].id} : Release(S) /\ (S # {} => Active(op[o].id))
    BY <1>3 DEF ConfirmRejected, Unknown, Pending
  <2>3. S \in SUBSET Sends /\ \A s \in S : Live(s)
    BY <2>1, <2>2, ActiveIsLive DEF Case
  <2>4. rows' \in [Sends -> Row \cup {NoRow}] /\ count' \in [Buckets -> Nat]
    BY <2>2, <2>3, ReleaseType
  <2>5. [op[o] EXCEPT !.phase = "refund"] \in Case
    BY <2>1 DEF Case
  <2>6. op' \in [Operators -> Case \cup {Off}]
    BY <1>0, <1>3, <2>5 DEF ConfirmRejected
  <2>7. QED
    BY <1>3, <2>4, <2>6 DEF ConfirmRejected, Operated, TypeOK
<1>4. CASE RefundResolved(o)
  <2>1. op[o].id \in Sends
    BY <1>0, <1>4, CaseOpen DEF RefundResolved, Case
  <2>2. \/ rows' = rows
        \/ /\ rows[op[o].id].status = "released"
           /\ rows' = [rows EXCEPT ![op[o].id].refunded = TRUE]
    BY <1>4 DEF RefundResolved
  <2>3. rows' \in [Sends -> Row \cup {NoRow}]
    BY <1>0, <2>1, <2>2, RowType DEF Live
  <2>4. op' \in [Operators -> Case \cup {Off}]
    BY <1>0, <1>4 DEF RefundResolved
  <2>5. balance' \in Nat /\ credits' \in [Sends -> Nat]
    BY <1>0, <1>4, <2>1 DEF RefundResolved
  <2>6. unapplied' \in SUBSET Sends
    BY <1>0, <1>4, <2>1 DEF RefundResolved
  <2>7. QED
    BY <1>4, <2>3, <2>4, <2>5, <2>6 DEF RefundResolved, Operated, TypeOK
<1>5. QED
  BY <1>1, <1>2, <1>3, <1>4 DEF OperatorStep

LEMMA TypeNext == TypeOK /\ [Next]_vars => TypeOK'
<1> SUFFICES ASSUME TypeOK, [Next]_vars PROVE TypeOK'
  OBVIOUS
<1>1. ASSUME NEW c \in Sends, CallStep(c) PROVE TypeOK'
  <2>1. /\ call' \in [Sends -> Call \cup {Idle}] /\ faults' \in 0 .. MaxFaults
        /\ rows' \in [Sends -> Row \cup {NoRow}] /\ count' \in [Buckets -> Nat]
    BY <1>1, CallTypes, CallRowTypes
  <2>2. /\ balance' \in Nat /\ {accepted', debited', told'} \subseteq SUBSET Sends
        /\ credits' \in [Sends -> Nat]
        /\ today' = today /\ op' = op /\ spent' = spent /\ unapplied' = unapplied
    BY <1>1, CallSetTypes
  <2>3. QED
    BY <2>1, <2>2 DEF TypeOK
<1>2. CASE NextDay
  BY <1>2, ConstantsAssumption DEF NextDay, TypeOK, Days
<1>3. CASE UNCHANGED vars
  BY <1>3 DEF vars, TypeOK
<1>4. QED
  BY <1>1, <1>2, <1>3, SchedulerTypes, OperatorTypes DEF Next

\* Every table, counter and call keeps its shape, and the balance never goes
\* below zero.
THEOREM TypeCorrect == Spec => []TypeOK
  BY TypeInit, TypeNext, PTL DEF Spec

-----------------------------------------------------------------------------
(* One reservation.                                                         *)

Early == {"entered", "looking", "clearing", "inserting", "colliding"}

\* How the row of a reservation, its call and what became of its mail agree.
SendOK(s) ==
    /\ Live(s) => /\ call[s] # Idle /\ call[s].at \notin Early
                  /\ rows[s].key = call[s].key /\ rows[s].body = call[s].body
                  /\ rows[s].day = call[s].day
                  /\ rows[s].status = "released" => rows[s].dispatch = "pending"
                  /\ rows[s].status = "committed" => rows[s].dispatch = "sent"
                  /\ rows[s].dispatch = "sent" => s \in accepted
    /\ call[s].at \in {"reserved", "debited", "ready"} => Pending(s)
    /\ call[s].at \in {"dispatching", "accepted"} => Unknown(s)
    /\ call[s].at \in {"accepted", "sent"} => s \in accepted
    /\ call[s].at # "over" => credits[s] = 0 /\ s \notin spent
    /\ call[s].at \in {"debited", "ready", "dispatching", "accepted", "sent"} /\ call[s].bill
          => s \in debited
    /\ s \in accepted =>
          /\ call[s].at \in {"accepted", "sent", "over"}
          /\ s \in spent \/ (Live(s) /\ rows[s].status # "released"
                                       /\ rows[s].dispatch # "pending")
          /\ call[s].bill => s \in debited
          /\ credits[s] = 0
    /\ s \in spent => s \in accepted /\ ~Live(s)

SendsOK == \A s \in Sends : SendOK(s)

OpsOK == \A o \in Operators : op[o] # Off =>
            /\ Over(op[o].id)
            /\ op[o].verdict = "sent" <=> op[o].id \in accepted
            /\ op[o].phase = "refund" => op[o].verdict = "rejected"

\* What the history says of a send stays as it is.
SameHistory(s) ==
    /\ credits'[s] = credits[s]
    /\ s \in accepted' <=> s \in accepted
    /\ s \in debited' <=> s \in debited

LEMMA UntouchedOK ==
    ASSUME NEW s \in Sends, SendOK(s), rows'[s] = rows[s], call'[s] = call[s],
           SameHistory(s), s \in spent' <=> s \in spent
    PROVE  SendOK(s)'
  BY DEF SendOK, SameHistory, Live, Pending, Unknown, Active

LEMMA ReleasedOK ==
    ASSUME TypeOK, NEW s \in Sends, SendOK(s), Active(s), Over(s), s \notin accepted,
           rows'[s] = [rows[s] EXCEPT !.status = "released", !.dispatch = "pending"],
           call'[s] = call[s], SameHistory(s), s \in spent' <=> s \in spent
    PROVE  SendOK(s)'
<1>1. Live(s) /\ rows[s] \in Row
  BY ActiveIsLive, LiveIsRow DEF TypeOK
<1>2. /\ rows'[s].status = "released" /\ rows'[s].dispatch = "pending"
      /\ rows'[s].key = rows[s].key /\ rows'[s].body = rows[s].body
      /\ rows'[s].day = rows[s].day
  BY <1>1 DEF Row
<1>3. QED
  BY <1>1, <1>2 DEF SendOK, SameHistory, Live, Over

LEMMA ClearedOK ==
    ASSUME NEW s \in Sends, SendOK(s), rows[s].status = "released", rows'[s] = NoRow,
           call'[s] = call[s], SameHistory(s), s \in spent' <=> s \in spent
    PROVE  SendOK(s)'
<1>1. Live(s) /\ ~Pending(s) /\ ~Unknown(s)
  BY DEF Live, Pending, Unknown, Active
<1>2. s \notin accepted /\ s \notin spent
  BY <1>1 DEF SendOK
<1>3. ~Live(s)'
  BY DEF Live, NoRow
<1>4. QED
  BY <1>1, <1>2, <1>3 DEF SendOK, SameHistory

\* A pending row's mail is not at the provider.
LEMMA PendingUnaccepted ==
    ASSUME NEW s \in Sends, SendOK(s), Pending(s) PROVE s \notin accepted
  BY ActiveIsLive DEF SendOK, Pending

\* What a call's step does to the other reservations.
LEMMA CallOthers ==
    ASSUME TypeOK, NEW c \in Sends, CallStep(c), NEW s \in Sends, s # c
    PROVE  /\ call'[s] = call[s] /\ SameHistory(s)
           /\ \/ rows'[s] = rows[s]
              \/ /\ Overdue(s)
                 /\ rows'[s] = [rows[s] EXCEPT !.status = "released", !.dispatch = "pending"]
              \/ rows[s].status = "released" /\ rows'[s] = NoRow
<1>0. /\ call \in [Sends -> Call \cup {Idle}] /\ credits \in [Sends -> Nat]
      /\ rows \in [Sends -> Row \cup {NoRow}]
  BY DEF TypeOK
<1>1. call'[s] = call[s]
  <2>1. \A at : GoOn(c, at) => call'[s] = call[s]
    BY <1>0 DEF GoOn
  <2>2. ASSUME NEW k, NEW b, NEW bill, Begin(c, k, b, bill) PROVE call'[s] = call[s]
    BY <1>0, <2>2 DEF Begin
  <2>3. CASE LookUp(c)
    BY <1>0, <2>1, <2>3 DEF LookUp
  <2>4. CASE Debit(c)
    BY <1>0, <2>1, <2>4 DEF Debit
  <2>5. QED
    BY <2>1, <2>2, <2>3, <2>4 DEF CallStep, Sweep, Clear, Insert, Collide, MarkBalanceReserved,
       NoChannel, MarkDispatchStarted, Dispatch, MarkDispatchSucceeded, Commit, ReleaseOwn,
       RefundOwn, Die
<1>2. SameHistory(s)
  <2>1. credits' = credits \/ credits' = [credits EXCEPT ![c] = @ + 1]
    BY DEF CallStep, Begin, Sweep, LookUp, Clear, Insert, Collide, Debit, MarkBalanceReserved,
       NoChannel, MarkDispatchStarted, Dispatch, MarkDispatchSucceeded, Commit, ReleaseOwn,
       RefundOwn, Die
  <2>2. accepted' = accepted \/ accepted' = accepted \cup {c}
    BY DEF CallStep, Begin, Sweep, LookUp, Clear, Insert, Collide, Debit, MarkBalanceReserved,
       NoChannel, MarkDispatchStarted, Dispatch, MarkDispatchSucceeded, Commit, ReleaseOwn,
       RefundOwn, Die
  <2>3. debited' = debited \/ debited' = debited \cup {c}
    BY DEF CallStep, Begin, Sweep, LookUp, Clear, Insert, Collide, Debit, MarkBalanceReserved,
       NoChannel, MarkDispatchStarted, Dispatch, MarkDispatchSucceeded, Commit, ReleaseOwn,
       RefundOwn, Die
  <2>4. QED
    BY <1>0, <2>1, <2>2, <2>3 DEF SameHistory
<1>3. \/ rows'[s] = rows[s]
      \/ /\ Overdue(s)
         /\ rows'[s] = [rows[s] EXCEPT !.status = "released", !.dispatch = "pending"]
      \/ rows[s].status = "released" /\ rows'[s] = NoRow
  <2>1. CASE Sweep(c)
    BY <2>1 DEF Sweep, Release
  <2>2. CASE Clear(c)
    BY <1>0, <2>2 DEF Clear
  <2>3. CASE ReleaseOwn(c)
    BY <2>3 DEF ReleaseOwn, Release
  <2>4. CASE Insert(c)
    BY <1>0, <2>4 DEF Insert
  <2>5. CASE MarkBalanceReserved(c) \/ MarkDispatchStarted(c)
    BY <1>0, <2>5 DEF MarkBalanceReserved, MarkDispatchStarted
  <2>6. CASE MarkDispatchSucceeded(c) \/ Commit(c)
    BY <1>0, <2>6 DEF MarkDispatchSucceeded, Commit
  <2>7. ASSUME ~(\/ Sweep(c) \/ ReleaseOwn(c) \/ Clear(c) \/ Insert(c) \/ MarkBalanceReserved(c)
                 \/ MarkDispatchStarted(c) \/ MarkDispatchSucceeded(c) \/ Commit(c))
        PROVE  rows' = rows
    BY <2>7 DEF CallStep, Begin, LookUp, Collide, Debit, NoChannel, Dispatch, RefundOwn, Die
  <2>8. QED
    BY <2>1, <2>2, <2>3, <2>4, <2>5, <2>6, <2>7
<1>4. QED
  BY <1>1, <1>2, <1>3

\* What a call asked for does not change.
LEMMA CallIdentity ==
    ASSUME TypeOK, NEW c \in Sends, CallStep(c), call[c].at # "idle"
    PROVE  /\ call'[c].at # "idle"
           /\ call'[c].key = call[c].key /\ call'[c].body = call[c].body
           /\ call'[c].day = call[c].day /\ call'[c].bill = call[c].bill
<1>0. call \in [Sends -> Call \cup {Idle}] /\ call[c] \in Call
  BY BusyIsCall DEF TypeOK
<1>1. \A at : GoOn(c, at) /\ at # "idle" =>
          /\ call'[c].at # "idle"
          /\ call'[c].key = call[c].key /\ call'[c].body = call[c].body
          /\ call'[c].day = call[c].day /\ call'[c].bill = call[c].bill
  BY <1>0 DEF GoOn, Call
<1>2. ASSUME NEW k, NEW b, NEW bill, Begin(c, k, b, bill) PROVE FALSE
  BY <1>2 DEF Begin, Idle
<1>3. CASE LookUp(c)
  <2>1. ASSUME NEW s, call' = [call EXCEPT ![c].at = "clearing", ![c].found = s]
        PROVE  /\ call'[c].at # "idle"
               /\ call'[c].key = call[c].key /\ call'[c].body = call[c].body
               /\ call'[c].day = call[c].day /\ call'[c].bill = call[c].bill
    BY <1>0, <2>1 DEF Call
  <2>2. QED
    BY <1>1, <1>3, <2>1 DEF LookUp
<1>4. CASE Debit(c)
  <2>1. ASSUME NEW d, NEW at, at # "idle",
               call' = [call EXCEPT ![c].debited = d, ![c].at = at]
        PROVE  /\ call'[c].at # "idle"
               /\ call'[c].key = call[c].key /\ call'[c].body = call[c].body
               /\ call'[c].day = call[c].day /\ call'[c].bill = call[c].bill
    BY <1>0, <2>1 DEF Call
  <2>2. \/ GoOn(c, "ready")
        \/ \E d \in BOOLEAN, at \in {"debited", "releasing"} :
              call' = [call EXCEPT ![c].debited = d, ![c].at = at]
    BY <1>4 DEF Debit
  <2>3. QED
    BY <1>1, <2>1, <2>2
<1>5. QED
  BY <1>1, <1>2, <1>3, <1>4 DEF CallStep, Sweep, Clear, Insert, Collide, MarkBalanceReserved,
     NoChannel, MarkDispatchStarted, Dispatch, MarkDispatchSucceeded, Commit, ReleaseOwn,
     RefundOwn, Die, AfterError

\* A call's own step keeps its reservation in order.
LEMMA OwnOK ==
    ASSUME TypeOK, NEW c \in Sends, CallStep(c), SendOK(c)
    PROVE  SendOK(c)'
<1>0. /\ call \in [Sends -> Call \cup {Idle}] /\ credits \in [Sends -> Nat]
      /\ rows \in [Sends -> Row \cup {NoRow}] /\ spent' = spent
  BY CallSetTypes DEF TypeOK
<1>m. \A at : GoOn(c, at) => call'[c].at = at
  <2>1. call[c] # Idle => call[c] \in Call
    BY <1>0
  <2>2. ASSUME NEW at, GoOn(c, at) PROVE call'[c].at = at
    BY <1>0, <2>1, <2>2 DEF GoOn, Call, Idle
  <2>3. QED
    BY <2>2
<1>1. ASSUME NEW k, NEW b, NEW bill, Begin(c, k, b, bill) PROVE SendOK(c)'
  <2>1. call'[c].at = "entered" /\ rows'[c] = rows[c] /\ SameHistory(c) /\ ~Live(c)
    BY <1>0, <1>1 DEF Begin, SameHistory, SendOK
  <2>2. c \notin accepted /\ c \notin spent /\ credits[c] = 0
    BY <1>1 DEF Begin, SendOK, Idle
  <2>3. QED
    BY <1>0, <2>1, <2>2 DEF SendOK, SameHistory, Live
<1>i. call[c].at # "idle" =>
        /\ call'[c] # Idle
        /\ call'[c].key = call[c].key /\ call'[c].body = call[c].body
        /\ call'[c].day = call[c].day /\ call'[c].bill = call[c].bill
  BY CallIdentity DEF Idle
<1>2. ASSUME call[c].at \in Early \ {"inserting"}, ~Die(c),
             ~\E k \in Keys \cup {NoKey}, b \in Bodies, bill \in BOOLEAN : Begin(c, k, b, bill)
      PROVE  SendOK(c)'
  <2>1. Sweep(c) \/ LookUp(c) \/ Clear(c) \/ Collide(c)
    BY <1>2 DEF CallStep, Early, Insert, Debit, MarkBalanceReserved, NoChannel,
       MarkDispatchStarted, Dispatch, MarkDispatchSucceeded, Commit, ReleaseOwn, RefundOwn
  <2>2. /\ ~Live(c) /\ c \notin accepted /\ c \notin spent /\ credits[c] = 0
    BY <1>2 DEF SendOK, Early
  <2>3. rows'[c] = rows[c]
    <3>1. CASE Sweep(c)
      BY <1>0, <2>2, <3>1 DEF Sweep, Release, Overdue, Pending, Active, Live
    <3>2. CASE Clear(c)
      BY <1>0, <2>2, <3>2 DEF Clear, Live
    <3>3. CASE LookUp(c) \/ Collide(c)
      BY <3>3 DEF LookUp, Collide
    <3>4. QED
      BY <2>1, <3>1, <3>2, <3>3
  <2>4. SameHistory(c)
    BY <2>1 DEF SameHistory, Sweep, LookUp, Clear, Collide
  <2>5. call'[c].at \in {"inserting", "looking", "clearing", "over"}
    <3>1. ASSUME NEW s, call' = [call EXCEPT ![c].at = "clearing", ![c].found = s]
          PROVE  call'[c].at = "clearing"
      <4>1. call[c] \in Call
        BY <1>0, <1>2 DEF Early, Idle
      <4>2. QED
        BY <1>0, <3>1, <4>1 DEF Call
    <3>2. CASE LookUp(c)
      BY <1>m, <3>1, <3>2 DEF LookUp
    <3>3. QED
      BY <1>m, <2>1, <3>2 DEF Sweep, Clear, Collide
  <2>6. QED
    BY <1>0, <2>2, <2>3, <2>4, <2>5 DEF SendOK, SameHistory, Live
<1>3. CASE Insert(c)
  <2>1. /\ ~Live(c) /\ c \notin accepted /\ c \notin spent /\ credits[c] = 0
    BY <1>3 DEF SendOK, Early, Insert
  <2>2. SameHistory(c)
    BY <1>3 DEF SameHistory, Insert
  <2>3. CASE KeyTaken(c) \/ Full(call[c].day)
    <3>1. call'[c].at \in {"colliding", "over"} /\ rows'[c] = rows[c]
      BY <1>3, <1>m, <2>3 DEF Insert
    <3>2. QED
      BY <1>0, <2>1, <2>2, <3>1 DEF SendOK, SameHistory, Live
  <2>4. CASE ~(KeyTaken(c) \/ Full(call[c].day))
    <3>1. call'[c].at = "reserved"
      BY <1>3, <1>m, <2>4 DEF Insert
    <3>2. rows'[c] = [status |-> "active", dispatch |-> "pending", key |-> call[c].key,
                      body |-> call[c].body, day |-> call[c].day,
                      billed |-> FALSE, refunded |-> FALSE]
      BY <1>0, <1>3, <2>4 DEF Insert
    <3>3. /\ rows'[c].status = "active" /\ rows'[c].dispatch = "pending"
          /\ rows'[c].key = call[c].key /\ rows'[c].body = call[c].body
          /\ rows'[c].day = call[c].day
      BY <3>2
    <3>4. call[c].at # "idle"
      BY <1>3 DEF Insert
    <3>5. QED
      BY <1>0, <1>i, <2>1, <2>2, <3>1, <3>3, <3>4
         DEF SendOK, SameHistory, Pending, Active, Early
  <2>5. QED
    BY <2>3, <2>4
<1>4. CASE Die(c)
  <2>1. rows'[c] = rows[c] /\ SameHistory(c) /\ call'[c].at = "over" /\ call[c].at # "idle"
    BY <1>4, <1>m DEF Die, SameHistory
  <2>2. QED
    BY <1>0, <1>i, <2>1 DEF SendOK, SameHistory, Live, Early
<1>5. CASE NoChannel(c)
  <2>1. /\ rows'[c] = rows[c] /\ SameHistory(c) /\ call'[c].at = "releasing"
        /\ call[c].at = "ready"
    BY <1>5, <1>m DEF NoChannel, SameHistory
  <2>2. QED
    BY <1>0, <1>i, <2>1 DEF SendOK, SameHistory, Live, Early
<1>6. CASE Debit(c)
  <2>1. /\ rows'[c] = rows[c] /\ credits' = credits /\ accepted' = accepted
        /\ call[c].at = "reserved"
    BY <1>6 DEF Debit
  <2>2. call[c] \in Call
    BY <1>0, <2>1 DEF Idle
  <2>3. \/ ~call[c].bill /\ call'[c].at = "ready"
        \/ call'[c].at = "debited" /\ c \in debited'
        \/ call'[c].at = "releasing"
    <3>1. CASE ~call[c].bill
      BY <1>6, <1>m, <3>1 DEF Debit
    <3>2. CASE call[c].bill
      <4>1. PICK o \in Outcomes :
               /\ IF Affordable /\ o # "failed"
                  THEN balance' = balance - 1 /\ debited' = debited \cup {c}
                  ELSE UNCHANGED <<balance, debited>>
               /\ call' = [call EXCEPT
                     ![c].debited = (o = "ok" /\ Affordable),
                     ![c].at = IF o = "ok" /\ Affordable THEN "debited" ELSE "releasing"]
        BY <1>6, <3>2 DEF Debit
      <4>2. call'[c].at = IF o = "ok" /\ Affordable THEN "debited" ELSE "releasing"
        BY <1>0, <2>2, <4>1 DEF Call
      <4>3. QED
        BY <4>1, <4>2
    <3>3. QED
      BY <3>1, <3>2
  <2>4. c \notin accepted
    BY <2>1 DEF SendOK
  <2>5. QED
    BY <1>0, <1>i, <2>1, <2>3, <2>4 DEF SendOK, Live, Pending, Active, Early
<1>7. CASE MarkBalanceReserved(c)
  <2>1. /\ SameHistory(c) /\ call[c].at = "debited" /\ call'[c].at \in {"ready", "releasing"}
    BY <1>7, <1>m DEF MarkBalanceReserved, SameHistory
  <2>2. Pending(c) /\ Live(c) /\ rows[c] \in Row
    BY <1>0, <2>1, ActiveIsLive, LiveIsRow DEF SendOK, Pending
  <2>3. /\ rows'[c].status = rows[c].status /\ rows'[c].dispatch = rows[c].dispatch
        /\ rows'[c].key = rows[c].key /\ rows'[c].body = rows[c].body
        /\ rows'[c].day = rows[c].day
    <3>1. rows' = rows \/ rows' = [rows EXCEPT ![c].billed = TRUE]
      BY <1>7 DEF MarkBalanceReserved
    <3>2. rows'[c] = rows[c] \/ rows'[c] = [rows[c] EXCEPT !.billed = TRUE]
      BY <1>0, <3>1
    <3>3. QED
      BY <2>2, <3>2 DEF Row
  <2>4. c \notin accepted
    BY <2>1 DEF SendOK
  <2>5. QED
    BY <1>0, <1>i, <2>1, <2>2, <2>3, <2>4 DEF SendOK, SameHistory, Live, Pending, Active, Early
<1>8. CASE MarkDispatchStarted(c)
  <2>1. /\ SameHistory(c) /\ call[c].at = "ready"
    BY <1>8, <1>m DEF MarkDispatchStarted, SameHistory
  <2>2. Pending(c) /\ Live(c) /\ rows[c] \in Row
    BY <1>0, <2>1, ActiveIsLive, LiveIsRow DEF SendOK, Pending
  <2>3. \/ rows'[c] = rows[c] /\ call'[c].at = "releasing"
        \/ /\ rows'[c] = [rows[c] EXCEPT !.dispatch = "unknown"]
           /\ call'[c].at \in {"dispatching", "releasing"}
    BY <1>0, <1>8, <1>m, <2>2 DEF MarkDispatchStarted
  <2>4. /\ rows'[c].status = rows[c].status
        /\ rows'[c].key = rows[c].key /\ rows'[c].body = rows[c].body
        /\ rows'[c].day = rows[c].day
        /\ call'[c].at = "dispatching" => rows'[c].dispatch = "unknown"
        /\ rows'[c].dispatch \in {"pending", "unknown"}
    BY <2>2, <2>3 DEF Row, Pending
  <2>5. c \notin accepted /\ c \notin spent /\ credits[c] = 0 /\ rows[c].status = "active"
    BY <2>1, <2>2 DEF SendOK, Pending, Active
  <2>6. call'[c].at \in {"dispatching", "releasing"}
    BY <2>3
  <2>7. QED
    BY <1>0, <1>i, <2>1, <2>2, <2>4, <2>5, <2>6
       DEF SendOK, SameHistory, Live, Unknown, Active, Early
<1>9. CASE Dispatch(c)
  <2>1. /\ rows'[c] = rows[c] /\ credits' = credits /\ debited' = debited
        /\ call[c].at = "dispatching" /\ Unknown(c) /\ Live(c)
    BY <1>9, ActiveIsLive DEF Dispatch, SendOK, Unknown
  <2>2. \/ c \in accepted' /\ call'[c].at \in {"accepted", "over"}
        \/ accepted' = accepted /\ call'[c].at = "over"
    BY <1>9, <1>m DEF Dispatch, AfterError
  <2>3. c \notin accepted /\ c \notin spent
    BY <2>1 DEF SendOK
  <2>4. /\ rows[c].status = "active" /\ rows[c].dispatch = "unknown" /\ credits[c] = 0
        /\ call[c].bill => c \in debited
        /\ call[c] # Idle
        /\ rows[c].key = call[c].key /\ rows[c].body = call[c].body
        /\ rows[c].day = call[c].day
    BY <2>1 DEF SendOK, Unknown, Active
  <2>5. QED
    BY <1>0, <1>i, <2>1, <2>2, <2>3, <2>4 DEF SendOK, Live, Unknown, Active, Early
<1>10. CASE MarkDispatchSucceeded(c)
  <2>1. /\ SameHistory(c) /\ call[c].at = "accepted" /\ call'[c].at = "sent" /\ Unknown(c)
        /\ Live(c)
    BY <1>10, <1>m, ActiveIsLive DEF MarkDispatchSucceeded, SameHistory, SendOK, Unknown
  <2>2. rows[c] \in Row /\ rows'[c] = [rows[c] EXCEPT !.dispatch = "sent"]
    BY <1>0, <1>10, <2>1, LiveIsRow DEF MarkDispatchSucceeded
  <2>3. /\ rows'[c].status = "active" /\ rows'[c].dispatch = "sent"
        /\ rows'[c].key = rows[c].key /\ rows'[c].body = rows[c].body
        /\ rows'[c].day = rows[c].day
    BY <2>1, <2>2 DEF Row, Unknown, Active
  <2>4. c \in accepted /\ c \notin spent /\ credits[c] = 0 /\ (call[c].bill => c \in debited)
    BY <2>1 DEF SendOK
  <2>5. QED
    BY <1>0, <1>i, <2>1, <2>3, <2>4 DEF SendOK, SameHistory, Live, Early
<1>11. CASE Commit(c)
  <2>1. /\ SameHistory(c) /\ call[c].at = "sent" /\ call'[c].at = "over"
    BY <1>11, <1>m DEF Commit, SameHistory
  <2>2. /\ c \in accepted /\ c \notin spent /\ credits[c] = 0 /\ (call[c].bill => c \in debited)
        /\ Live(c) /\ rows[c].status # "released" /\ rows[c].dispatch # "pending"
    BY <2>1 DEF SendOK
  <2>3. rows[c] \in Row
    BY <1>0, <2>2, LiveIsRow
  <2>4. \/ rows'[c] = rows[c]
        \/ rows[c].dispatch = "sent" /\ rows'[c] = [rows[c] EXCEPT !.status = "committed"]
    BY <1>0, <1>11 DEF Commit
  <2>5. /\ rows'[c].dispatch = rows[c].dispatch
        /\ rows'[c].key = rows[c].key /\ rows'[c].body = rows[c].body
        /\ rows'[c].day = rows[c].day
        /\ \/ rows'[c].status = rows[c].status
           \/ rows'[c].status = "committed" /\ rows[c].dispatch = "sent"
    BY <2>3, <2>4 DEF Row
  <2>6. QED
    BY <1>0, <1>i, <2>1, <2>2, <2>5 DEF SendOK, SameHistory, Live, Early
<1>12. CASE ReleaseOwn(c)
  <2>1. /\ SameHistory(c) /\ call[c].at = "releasing" /\ call'[c].at \in {"refunding", "over"}
    BY <1>12, <1>m DEF ReleaseOwn, SameHistory
  <2>2. /\ c \notin accepted /\ c \notin spent /\ credits[c] = 0
    BY <2>1 DEF SendOK
  <2>3. \/ rows'[c] = rows[c]
        \/ /\ Pending(c)
           /\ rows'[c] = [rows[c] EXCEPT !.status = "released", !.dispatch = "pending"]
    BY <1>12 DEF ReleaseOwn, Release, TypeOK
  <2>4. CASE rows'[c] = rows[c]
    BY <1>0, <1>i, <2>1, <2>2, <2>4 DEF SendOK, SameHistory, Live, Early
  <2>5. CASE Pending(c) /\ rows'[c] = [rows[c] EXCEPT !.status = "released", !.dispatch = "pending"]
    <3>1. rows[c] \in Row /\ Live(c)
      BY <1>0, <2>5, ActiveIsLive, LiveIsRow DEF Pending
    <3>2. /\ rows'[c].status = "released" /\ rows'[c].dispatch = "pending"
          /\ rows'[c].key = rows[c].key /\ rows'[c].body = rows[c].body
          /\ rows'[c].day = rows[c].day
      BY <2>5, <3>1 DEF Row
    <3>3. QED
      BY <1>0, <1>i, <2>1, <2>2, <3>1, <3>2 DEF SendOK, SameHistory, Live, Early
  <2>6. QED
    BY <2>3, <2>4, <2>5
<1>13. CASE RefundOwn(c)
  <2>1. /\ rows'[c] = rows[c] /\ accepted' = accepted /\ debited' = debited
        /\ call[c].at = "refunding" /\ call'[c].at = "over"
    BY <1>13, <1>m DEF RefundOwn
  <2>2. QED
    BY <1>0, <1>i, <2>1 DEF SendOK, Live, Early
<1>14. CASE call[c].at \in Early \ {"inserting"}
  BY <1>1, <1>2, <1>4, <1>14
<1>15. CASE call[c].at \notin Early \ {"inserting"}
  <2>1. ~Sweep(c) /\ ~LookUp(c) /\ ~Clear(c) /\ ~Collide(c)
    BY <1>15 DEF Sweep, LookUp, Clear, Collide, Early
  <2>2. QED
    BY <1>1, <1>3, <1>4, <1>5, <1>6, <1>7, <1>8, <1>9, <1>10, <1>11, <1>12, <1>13, <2>1
       DEF CallStep
<1>16. QED
  BY <1>14, <1>15

LEMMA SendsOKCall ==
    ASSUME TypeOK, SendsOK, NEW c \in Sends, CallStep(c)
    PROVE  SendsOK'
<1>1. SUFFICES ASSUME NEW s \in Sends PROVE SendOK(s)'
  BY DEF SendsOK
<1>2. SendOK(s) /\ spent' = spent
  BY CallSetTypes DEF SendsOK
<1>3. CASE s = c
  BY <1>2, <1>3, OwnOK
<1>4. CASE s # c
  <2>1. /\ call'[s] = call[s] /\ SameHistory(s)
        /\ \/ rows'[s] = rows[s]
           \/ /\ Overdue(s)
              /\ rows'[s] = [rows[s] EXCEPT !.status = "released", !.dispatch = "pending"]
           \/ rows[s].status = "released" /\ rows'[s] = NoRow
    BY <1>4, CallOthers
  <2>2. CASE rows'[s] = rows[s]
    BY <1>2, <2>1, <2>2, UntouchedOK
  <2>3. CASE /\ Overdue(s)
             /\ rows'[s] = [rows[s] EXCEPT !.status = "released", !.dispatch = "pending"]
    <3>1. s \notin accepted /\ Active(s) /\ Over(s)
      BY <1>2, <2>3, PendingUnaccepted DEF Overdue, Pending
    <3>2. QED
      BY <1>2, <2>1, <2>3, <3>1, ReleasedOK
  <2>4. CASE rows[s].status = "released" /\ rows'[s] = NoRow
    BY <1>2, <2>1, <2>4, ClearedOK
  <2>5. QED
    BY <2>1, <2>2, <2>3, <2>4
<1>5. QED
  BY <1>3, <1>4

LEMMA SendsOKScheduler ==
    ASSUME TypeOK, SendsOK, Promote \/ ReleaseExpired \/ Purge
    PROVE  SendsOK'
<1>1. SUFFICES ASSUME NEW s \in Sends PROVE SendOK(s)'
  BY DEF SendsOK
<1>2. SendOK(s) /\ call' = call /\ SameHistory(s) /\ rows \in [Sends -> Row \cup {NoRow}]
  BY DEF SendsOK, SameHistory, Promote, ReleaseExpired, Purge, Scheduled, TypeOK
<1>3. CASE Promote
  <2>1. spent' = spent
    BY <1>3 DEF Promote
  <2>2. CASE Active(s) /\ rows[s].dispatch = "sent"
    <3>1. Live(s) /\ rows[s] \in Row /\ s \in accepted
      BY <1>2, <2>2, ActiveIsLive, LiveIsRow DEF SendOK
    <3>2. rows'[s] = [rows[s] EXCEPT !.status = "committed"]
      BY <1>3, <2>2 DEF Promote
    <3>3. /\ rows'[s].status = "committed" /\ rows'[s].dispatch = "sent"
          /\ rows'[s].key = rows[s].key /\ rows'[s].body = rows[s].body
          /\ rows'[s].day = rows[s].day
      BY <2>2, <3>1, <3>2 DEF Row
    <3>4. call[s].at \in {"accepted", "sent", "over"} /\ call[s].at \notin {"dispatching", "accepted"}
      BY <1>2, <2>2, <3>1 DEF SendOK, Unknown
    <3>5. QED
      BY <1>2, <2>1, <3>1, <3>3, <3>4 DEF SendOK, SameHistory, Live
  <2>3. CASE ~(Active(s) /\ rows[s].dispatch = "sent")
    <3>1. rows'[s] = rows[s]
      BY <1>3, <2>3 DEF Promote
    <3>2. QED
      BY <1>2, <2>1, <3>1, UntouchedOK
  <2>4. QED
    BY <2>2, <2>3
<1>4. CASE ReleaseExpired
  <2>1. PICK S \in SUBSET {z \in Sends : Overdue(z)} : Release(S)
    BY <1>4 DEF ReleaseExpired
  <2>2. spent' = spent
    BY <1>4 DEF ReleaseExpired
  <2>3. CASE s \in S
    <3>1. Active(s) /\ Over(s) /\ s \notin accepted
      BY <1>2, <2>3, PendingUnaccepted DEF Overdue, Pending
    <3>2. rows'[s] = [rows[s] EXCEPT !.status = "released", !.dispatch = "pending"]
      BY <2>1, <2>3 DEF Release
    <3>3. QED
      BY <1>2, <2>2, <3>1, <3>2, ReleasedOK
  <2>4. CASE s \notin S
    <3>1. rows'[s] = rows[s]
      BY <2>1, <2>4 DEF Release
    <3>2. QED
      BY <1>2, <2>2, <3>1, UntouchedOK
  <2>5. QED
    BY <2>3, <2>4
<1>5. CASE Purge
  <2>1. PICK S \in SUBSET {z \in Sends : Live(z) /\ ~Active(z) /\ Over(z)} :
           /\ rows' = [z \in Sends |-> IF z \in S THEN NoRow ELSE rows[z]]
           /\ spent' = spent \cup {z \in S : rows[z].status = "committed"}
    BY <1>5 DEF Purge
  <2>2. CASE s \in S
    <3>1. rows'[s] = NoRow /\ (s \in spent' <=> rows[s].status = "committed" \/ s \in spent)
      BY <2>1, <2>2
    <3>2. rows[s].status = "committed" \/ rows[s].status = "released"
      BY <1>2, <2>1, <2>2, LiveIsRow DEF Row, Active
    <3>3. rows[s].status = "committed" => s \in accepted
      BY <1>2, <2>1, <2>2 DEF SendOK
    <3>4. rows[s].status = "released" => s \notin accepted
      BY <1>2, <2>1, <2>2 DEF SendOK
    <3>5. ~Live(s)' /\ call[s].at = "over"
      BY <2>1, <2>2, <3>1 DEF Live, NoRow, Over
    <3>6. QED
      BY <1>2, <3>1, <3>2, <3>3, <3>4, <3>5 DEF SendOK, SameHistory
  <2>3. CASE s \notin S
    <3>1. rows'[s] = rows[s] /\ (s \in spent' <=> s \in spent)
      BY <2>1, <2>3
    <3>2. QED
      BY <1>2, <3>1, UntouchedOK
  <2>4. QED
    BY <2>2, <2>3
<1>6. QED
  BY <1>3, <1>4, <1>5

\* What an operator does concerns a call that is over, and releases or refunds
\* only what the provider does not have.
LEMMA SendsOKOperator ==
    ASSUME TypeOK, SendsOK, OpsOK, NEW o \in Operators, OperatorStep(o)
    PROVE  SendsOK'
<1>1. SUFFICES ASSUME NEW s \in Sends PROVE SendOK(s)'
  BY DEF SendsOK
<1>2. /\ SendOK(s) /\ call' = call /\ accepted' = accepted /\ debited' = debited /\ spent' = spent
      /\ rows \in [Sends -> Row \cup {NoRow}] /\ credits \in [Sends -> Nat]
      /\ op \in [Operators -> Case \cup {Off}]
  BY DEF SendsOK, OperatorStep, Resolve, ConfirmSent, ConfirmRejected, RefundResolved, Operated,
     TypeOK
<1>3. CASE \E z \in Sends, v \in {"sent", "rejected"} : Resolve(o, z, v)
  <2>1. rows' = rows /\ credits' = credits
    BY <1>3 DEF Resolve
  <2>2. QED
    BY <1>2, <2>1, UntouchedOK DEF SameHistory
<1>4. CASE ConfirmSent(o)
  <2>1. op[o].id \in Sends /\ Over(op[o].id) /\ op[o].id \in accepted /\ SameHistory(s)
    <3>1. op[o] \in Case /\ op[o] # Off /\ op[o].verdict = "sent"
      BY <1>2, <1>4, CaseOpen DEF ConfirmSent, Off
    <3>2. QED
      BY <1>2, <1>4, <3>1 DEF OpsOK, Case, ConfirmSent, SameHistory
  <2>2. CASE s = op[o].id /\ Unknown(s)
    <3>1. rows[s] \in Row /\ Live(s)
      BY <1>2, <2>2, ActiveIsLive, LiveIsRow DEF Unknown
    <3>2. rows'[s] = [rows[s] EXCEPT !.dispatch = "sent", !.status = "committed"]
      BY <1>2, <1>4, <2>2 DEF ConfirmSent
    <3>3. /\ rows'[s].status = "committed" /\ rows'[s].dispatch = "sent"
          /\ rows'[s].key = rows[s].key /\ rows'[s].body = rows[s].body
          /\ rows'[s].day = rows[s].day
      BY <3>1, <3>2 DEF Row
    <3>4. QED
      BY <1>2, <2>1, <2>2, <3>1, <3>3 DEF SendOK, SameHistory, Live, Over
  <2>3. CASE ~(s = op[o].id /\ Unknown(s))
    <3>1. rows'[s] = rows[s]
      BY <1>2, <1>4, <2>1, <2>3 DEF ConfirmSent
    <3>2. QED
      BY <1>2, <2>1, <3>1, UntouchedOK
  <2>4. QED
    BY <2>2, <2>3
<1>5. CASE ConfirmRejected(o)
  <2>1. Over(op[o].id) /\ op[o].id \notin accepted /\ SameHistory(s)
    <3>1. op[o] # Off /\ op[o].verdict = "rejected"
      BY <1>5 DEF ConfirmRejected, Off
    <3>2. QED
      BY <1>2, <1>5, <3>1 DEF OpsOK, ConfirmRejected, SameHistory
  <2>2. PICK S \in SUBSET {op[o].id} : Release(S) /\ (S # {} => Active(op[o].id))
    BY <1>5 DEF ConfirmRejected, Unknown, Pending
  <2>3. CASE s \in S
    <3>1. rows'[s] = [rows[s] EXCEPT !.status = "released", !.dispatch = "pending"]
      BY <2>2, <2>3 DEF Release
    <3>2. Active(s) /\ Over(s) /\ s \notin accepted
      BY <2>1, <2>2, <2>3
    <3>3. QED
      BY <1>2, <2>1, <3>1, <3>2, ReleasedOK
  <2>4. CASE s \notin S
    <3>1. rows'[s] = rows[s]
      BY <2>2, <2>4 DEF Release
    <3>2. QED
      BY <1>2, <2>1, <3>1, UntouchedOK
  <2>5. QED
    BY <2>3, <2>4
<1>6. CASE RefundResolved(o)
  <2>1. op[o].id \in Sends /\ Over(op[o].id)
    <3>1. op[o] \in Case /\ op[o] # Off
      BY <1>2, <1>6, CaseOpen DEF RefundResolved, Off
    <3>2. QED
      BY <3>1 DEF OpsOK, Case
  <2>2. CASE s = op[o].id /\ rows[s].status = "released" /\ Refundable(s)
    <3>1. Live(s) /\ rows[s] \in Row
      BY <1>2, <2>2, LiveIsRow DEF Live
    <3>2. s \notin accepted /\ s \notin spent
      BY <1>2, <2>2, <3>1 DEF SendOK
    <3>3. rows'[s] = rows[s] \/ rows'[s] = [rows[s] EXCEPT !.refunded = TRUE]
      BY <1>2, <1>6, <2>2 DEF RefundResolved
    <3>4. /\ rows'[s].status = rows[s].status /\ rows'[s].dispatch = rows[s].dispatch
          /\ rows'[s].key = rows[s].key /\ rows'[s].body = rows[s].body
          /\ rows'[s].day = rows[s].day
      BY <3>1, <3>3 DEF Row
    <3>5. call[s].at = "over"
      BY <2>1, <2>2 DEF Over
    <3>6. QED
      BY <1>2, <3>1, <3>2, <3>4, <3>5 DEF SendOK, Live
  <2>3. CASE ~(s = op[o].id /\ rows[s].status = "released" /\ Refundable(s))
    <3>1. rows'[s] = rows[s] /\ credits'[s] = credits[s]
      BY <1>2, <1>6, <2>1, <2>3 DEF RefundResolved
    <3>2. QED
      BY <1>2, <3>1, UntouchedOK DEF SameHistory
  <2>4. QED
    BY <2>2, <2>3
<1>7. QED
  BY <1>3, <1>4, <1>5, <1>6 DEF OperatorStep

LEMMA OpsOKStep ==
    ASSUME TypeOK, OpsOK, Next PROVE OpsOK'
<1>0. /\ op \in [Operators -> Case \cup {Off}] /\ call \in [Sends -> Call \cup {Idle}]
  BY DEF TypeOK
<1>1. ASSUME NEW c \in Sends, CallStep(c) PROVE OpsOK'
  <2>1. op' = op
    BY <1>1, CallSetTypes
  <2>2. ASSUME NEW o \in Operators, op[o] # Off
        PROVE  call'[op[o].id] = call[op[o].id] /\ (op[o].id \in accepted' <=> op[o].id \in accepted)
    <3>1. op[o].id \in Sends /\ Over(op[o].id)
      BY <1>0, <2>2 DEF OpsOK, Case
    <3>2. op[o].id # c
      <4>1. ~Over(c)
        BY <1>1 DEF Over, CallStep, Begin, Idle, Sweep, LookUp, Clear, Insert, Collide, Debit,
           MarkBalanceReserved, NoChannel, MarkDispatchStarted, Dispatch, MarkDispatchSucceeded,
           Commit, ReleaseOwn, RefundOwn, Die
      <4>2. QED
        BY <3>1, <4>1
    <3>3. QED
      BY <1>1, <3>1, <3>2, CallOthers DEF SameHistory
  <2>3. QED
    BY <2>1, <2>2 DEF OpsOK, Over
<1>2. CASE Promote \/ ReleaseExpired \/ Purge \/ NextDay
  <2>1. op' = op /\ call' = call /\ accepted' = accepted
    BY <1>2 DEF Promote, ReleaseExpired, Purge, Scheduled, NextDay
  <2>2. QED
    BY <2>1 DEF OpsOK, Over
<1>3. ASSUME NEW o \in Operators, OperatorStep(o) PROVE OpsOK'
  <2>1. call' = call /\ accepted' = accepted
    BY <1>3 DEF OperatorStep, Resolve, ConfirmSent, ConfirmRejected, RefundResolved, Operated
  <2>2. ASSUME NEW s \in Sends, NEW v \in {"sent", "rejected"}, Resolve(o, s, v) PROVE OpsOK'
    <3>1. PICK p, b :
             /\ p \in {"write", "refund"}
             /\ op' = [op EXCEPT ![o] = [phase |-> p, id |-> s, verdict |-> v, refund |-> b]]
             /\ p = "refund" => v = "rejected"
      BY <2>2 DEF Resolve
    <3>2. Over(s) /\ (v = "sent" <=> s \in accepted)
      BY <2>2 DEF Resolve, Knows
    <3>3. QED
      BY <1>0, <2>1, <3>1, <3>2 DEF OpsOK, Over
  <2>3. CASE ConfirmSent(o) \/ RefundResolved(o)
    <3>1. op' = [op EXCEPT ![o] = Off]
      BY <2>3 DEF ConfirmSent, RefundResolved
    <3>2. QED
      BY <1>0, <2>1, <3>1 DEF OpsOK, Over
  <2>4. CASE ConfirmRejected(o)
    <3>1. op[o] \in Case /\ op[o] # Off /\ op[o].verdict = "rejected"
      BY <1>0, <2>4, CaseOpen DEF ConfirmRejected, Off
    <3>2. \/ op' = [op EXCEPT ![o] = Off]
          \/ op' = [op EXCEPT ![o] = [op[o] EXCEPT !.phase = "refund"]]
      BY <2>4 DEF ConfirmRejected
    <3>3. /\ [op[o] EXCEPT !.phase = "refund"].id = op[o].id
          /\ [op[o] EXCEPT !.phase = "refund"].verdict = op[o].verdict
      BY <3>1 DEF Case
    <3>4. QED
      BY <1>0, <2>1, <3>1, <3>2, <3>3 DEF OpsOK, Over
  <2>5. QED
    BY <1>3, <2>2, <2>3, <2>4 DEF OperatorStep
<1>4. QED
  BY <1>1, <1>2, <1>3 DEF Next

LEMMA SendsOKStep ==
    ASSUME TypeOK, SendsOK, OpsOK, Next PROVE SendsOK'
<1>1. CASE NextDay
  BY <1>1 DEF NextDay, SendsOK, SendOK, Live, Pending, Unknown, Active
<1>2. QED
  BY <1>1, SendsOKCall, SendsOKScheduler, SendsOKOperator DEF Next

LEMMA SendsInit == Init => SendsOK /\ OpsOK
<1> SUFFICES ASSUME Init PROVE SendsOK /\ OpsOK
  OBVIOUS
<1>1. ASSUME NEW s \in Sends PROVE SendOK(s)
  <2>1. /\ rows[s].status = "absent" /\ call[s].at = "idle" /\ s \notin accepted /\ s \notin spent
        /\ credits[s] = 0
    BY DEF Init, NoRow, Idle
  <2>2. QED
    BY <2>1 DEF SendOK, Live
<1>2. QED
  BY <1>1 DEF SendsOK, OpsOK, Init

-----------------------------------------------------------------------------
(* One row to a key.                                                        *)

\* The unique index.
UniqueKeys ==
    \A s, d \in Sends : Live(s) /\ Live(d) /\ rows[s].key = rows[d].key /\ rows[s].key # NoKey
                           => s = d

\* Rows appear by INSERTs only, and keep their keys.
LEMMA RowsStay ==
    ASSUME TypeOK, SendsOK, OpsOK, Next, NEW s \in Sends, Live(s)', ~Insert(s)
    PROVE  Live(s) /\ rows'[s].key = rows[s].key
<1>0. /\ rows \in [Sends -> Row \cup {NoRow}] /\ call \in [Sends -> Call \cup {Idle}]
      /\ op \in [Operators -> Case \cup {Off}]
  BY DEF TypeOK
<1>1. Live(s)
  <2>1. ASSUME NEW c \in Sends, CallStep(c) PROVE Live(s)
    <3>1. CASE s # c
      <4>1. \/ rows'[s] = rows[s]
            \/ Overdue(s)
            \/ rows'[s] = NoRow
        BY <2>1, <3>1, CallOthers
      <4>2. QED
        BY <4>1, ActiveIsLive DEF Live, NoRow, Overdue, Pending
    <3>2. CASE s = c
      <4>1. CASE Sweep(c)
        BY <3>2, <4>1, ActiveIsLive DEF Sweep, Release, Overdue, Pending, Live
      <4>2. CASE Clear(c)
        BY <1>0, <3>2, <4>2 DEF Clear, Live, NoRow
      <4>3. CASE ReleaseOwn(c)
        BY <3>2, <4>3, ActiveIsLive DEF ReleaseOwn, Release, Pending, Live
      <4>4. CASE MarkBalanceReserved(c) \/ MarkDispatchStarted(c) \/ MarkDispatchSucceeded(c)
                 \/ Commit(c)
        BY <3>2, <4>4, ActiveIsLive DEF MarkBalanceReserved, MarkDispatchStarted,
           MarkDispatchSucceeded, Commit, Pending, Unknown, Live
      <4>5. ASSUME ~(\/ Sweep(c) \/ ReleaseOwn(c) \/ Clear(c) \/ MarkBalanceReserved(c)
                     \/ MarkDispatchStarted(c) \/ MarkDispatchSucceeded(c) \/ Commit(c))
            PROVE  rows' = rows
        BY <2>1, <3>2, <4>5 DEF CallStep, Begin, LookUp, Collide, Debit, NoChannel, Dispatch,
           RefundOwn, Die
      <4>6. QED
        BY <4>1, <4>2, <4>3, <4>4, <4>5 DEF Live
    <3>3. QED
      BY <3>1, <3>2
  <2>2. CASE Promote
    BY <2>2, ActiveIsLive DEF Promote, Live
  <2>3. CASE ReleaseExpired
    BY <2>3, ActiveIsLive DEF ReleaseExpired, Release, Overdue, Pending, Live
  <2>4. CASE Purge
    BY <2>4 DEF Purge, Live, NoRow
  <2>5. CASE NextDay
    BY <2>5 DEF NextDay, Live
  <2>6. ASSUME NEW o \in Operators, OperatorStep(o) PROVE Live(s)
    <3>1. CASE \E z \in Sends, v \in {"sent", "rejected"} : Resolve(o, z, v)
      BY <3>1 DEF Resolve, Live
    <3>2. CASE ConfirmSent(o)
      <4>1. rows' = rows \/ (Live(op[o].id) /\ op[o].id # s) \/ Live(s)
        BY <3>2, ActiveIsLive DEF ConfirmSent, Unknown, Live, Active
      <4>2. op[o].id # s => rows'[s] = rows[s]
        BY <1>0, <3>2 DEF ConfirmSent
      <4>3. QED
        BY <4>1, <4>2 DEF Live
    <3>3. CASE ConfirmRejected(o)
      BY <3>3 DEF ConfirmRejected, Release, Unknown, Pending, Active, Live
    <3>4. CASE RefundResolved(o)
      <4>1. rows' = rows \/ op[o].id # s \/ Live(s)
        BY <3>4 DEF RefundResolved, Live
      <4>2. op[o].id # s => rows'[s] = rows[s]
        BY <1>0, <3>4 DEF RefundResolved
      <4>3. QED
        BY <4>1, <4>2 DEF Live
    <3>5. QED
      BY <2>6, <3>1, <3>2, <3>3, <3>4 DEF OperatorStep
  <2>7. QED
    BY <2>1, <2>2, <2>3, <2>4, <2>5, <2>6 DEF Next
<1>2. call[s] # Idle /\ rows[s].key = call[s].key
  BY <1>1 DEF SendsOK, SendOK
<1>3. call[s].at # "idle"
  BY <1>0, <1>2, BusyIsCall DEF Call, Phases
<1>4. call'[s].key = call[s].key
  <2>1. ASSUME NEW c \in Sends, CallStep(c) PROVE call'[s].key = call[s].key
    BY <1>3, <2>1, CallOthers, CallIdentity
  <2>2. ASSUME NEW o \in Operators, OperatorStep(o) PROVE call' = call
    BY <2>2 DEF OperatorStep, Resolve, ConfirmSent, ConfirmRejected, RefundResolved, Operated
  <2>3. CASE Promote \/ ReleaseExpired \/ Purge \/ NextDay
    BY <2>3 DEF Promote, ReleaseExpired, Purge, Scheduled, NextDay
  <2>4. QED
    BY <2>1, <2>2, <2>3 DEF Next
<1>5. rows'[s].key = call'[s].key
  BY SendsOKStep DEF SendsOK, SendOK
<1>6. QED
  BY <1>1, <1>2, <1>4, <1>5

LEMMA UniqueKeysStep ==
    ASSUME TypeOK, SendsOK, OpsOK, UniqueKeys, Next PROVE UniqueKeys'
<1>0. /\ rows \in [Sends -> Row \cup {NoRow}] /\ call \in [Sends -> Call \cup {Idle}]
  BY DEF TypeOK
<1>1. CASE \A c \in Sends : ~Insert(c)
  BY <1>1, RowsStay DEF UniqueKeys
<1>2. ASSUME NEW c \in Sends, Insert(c) PROVE UniqueKeys'
  <2>1. ASSUME NEW s \in Sends, s # c PROVE Live(s)' => Live(s) /\ rows'[s].key = rows[s].key
    BY <1>0, <1>2, <2>1 DEF Insert, Live
  <2>2. CASE KeyTaken(c) \/ Full(call[c].day)
    <3>1. rows' = rows
      BY <1>2, <2>2 DEF Insert
    <3>2. QED
      BY <3>1 DEF UniqueKeys, Live
  <2>3. CASE ~(KeyTaken(c) \/ Full(call[c].day))
    <3>1. rows'[c].key = call[c].key
      BY <1>0, <1>2, <2>3 DEF Insert
    <3>2. call[c].key = NoKey \/ \A s \in Sends : ~(Live(s) /\ rows[s].key = call[c].key)
      BY <2>3 DEF KeyTaken, RowsOf
    <3>3. QED
      BY <2>1, <3>1, <3>2 DEF UniqueKeys
  <2>4. QED
    BY <2>2, <2>3
<1>3. QED
  BY <1>1, <1>2

-----------------------------------------------------------------------------
(* The counters.                                                            *)

\* Reservation s takes its places.
Holds(s) == (Live(s) /\ rows[s].status # "released") \/ s \in spent

CountersOK ==
    \A b \in Buckets : /\ count[b] = Cardinality(Holding(b))
                       /\ Limit(b) # NoLimit => count[b] <= Limit(b)

LEMMA HoldingDef ==
    \A b : Holding(b) = {s \in Sends : Holds(s) /\ b \in BucketsOf(call[s].day)}
  BY DEF Holding, Holds

LEMMA HoldersCalled ==
    ASSUME TypeOK, SendsOK, NEW s \in Sends, Holds(s)
    PROVE  call[s] \in Call /\ call[s].at # "idle"
<1>1. call[s] # Idle
  BY DEF SendsOK, SendOK, Holds, Idle
<1>2. QED
  BY <1>1 DEF TypeOK, Call, Phases

\* A step after which the same reservations hold their places.
LEMMA SteadyCounters ==
    ASSUME CountersOK, count' = count,
           \A s \in Sends : /\ Holds(s)' <=> Holds(s)
                            /\ Holds(s) => call'[s].day = call[s].day
    PROVE  CountersOK'
<1>1. ASSUME NEW b \in Buckets PROVE Holding(b)' = Holding(b)
  BY HoldingDef DEF Holding, Holds
<1>2. QED
  BY <1>1 DEF CountersOK, Limit

\* Reservations of S are released: their places, and only theirs, are free.
LEMMA ReleasedCounters ==
    ASSUME TypeOK, SendsOK, CountersOK, NEW S \in SUBSET Sends, Release(S),
           \A s \in S : Active(s) /\ s \notin spent,
           spent' = spent, \A s \in Sends : Holds(s) => call'[s].day = call[s].day
    PROVE  CountersOK'
<1> SUFFICES ASSUME NEW b \in Buckets
             PROVE  /\ count'[b] = Cardinality(Holding(b)')
                    /\ Limit(b) # NoLimit => count'[b] <= Limit(b)
  BY DEF CountersOK, Limit
<1>1. ASSUME NEW s \in S
      PROVE  /\ Holds(s) /\ ~Holds(s)'
             /\ rows[s].day = call[s].day
  <2>1. rows'[s] = [rows[s] EXCEPT !.status = "released", !.dispatch = "pending"]
    BY DEF Release
  <2>2. rows[s] \in Row /\ Live(s)
    BY ActiveIsLive, LiveIsRow DEF TypeOK
  <2>3. rows'[s].status = "released"
    BY <2>1, <2>2 DEF Row
  <2>4. QED
    BY <2>2, <2>3 DEF Holds, Active, SendsOK, SendOK
<1>2. ASSUME NEW s \in Sends \ S PROVE Holds(s)' <=> Holds(s)
  BY DEF Release, Holds, Live
<1>3. Freed(S, b) \subseteq Holding(b)
  BY <1>1, HoldingDef DEF Freed
<1>4. Holding(b)' = Holding(b) \ Freed(S, b)
  <2>1. ASSUME NEW s \in Sends PROVE s \in Holding(b)' <=> s \in Holding(b) \ Freed(S, b)
    <3>1. CASE s \in S
      BY <1>1, <3>1, HoldingDef DEF Freed, Holding, Holds
    <3>2. CASE s \notin S
      BY <1>2, <3>2, HoldingDef DEF Freed, Holding, Holds
    <3>3. QED
      BY <3>1, <3>2
  <2>2. QED
    BY <2>1 DEF Holding
<1>5. IsFiniteSet(Holding(b)) /\ IsFiniteSet(Freed(S, b))
  BY FreedFinite, ConstantsAssumption, FS_Subset DEF Holding
<1>6. Cardinality(Holding(b)) \in Nat /\ Cardinality(Freed(S, b)) \in Nat
  BY <1>5, FS_CardinalityType
<1>7. Cardinality(Freed(S, b)) <= Cardinality(Holding(b))
  BY <1>3, <1>5, FS_Subset
<1>8. Cardinality(Holding(b)') = Cardinality(Holding(b)) - Cardinality(Freed(S, b))
  <2>1. Holding(b) \cap Freed(S, b) = Freed(S, b)
    BY <1>3
  <2>2. QED
    BY <1>4, <1>5, <2>1, FS_Difference
<1>9. count'[b] = count[b] - Cardinality(Freed(S, b))
  <2>1. count[b] = Cardinality(Holding(b))
    BY DEF CountersOK
  <2>2. count'[b] = IF count[b] > Cardinality(Freed(S, b))
                    THEN count[b] - Cardinality(Freed(S, b)) ELSE 0
    BY DEF Release
  <2>3. QED
    BY <1>6, <1>7, <2>1, <2>2
<1>10. count'[b] = Cardinality(Holding(b)')
  BY <1>8, <1>9 DEF CountersOK
<1>11. Limit(b) # NoLimit => count'[b] <= Limit(b)
  <2>1. Limit(b) \in Nat \cup {NoLimit} /\ count[b] \in Nat
    BY LimitTyped DEF TypeOK
  <2>2. QED
    BY <1>6, <1>9, <2>1 DEF CountersOK, NoLimit
<1>12. QED
  BY <1>10, <1>11

\* A new reservation finds a free place in each of its counters.
LEMMA InsertedCounters ==
    ASSUME TypeOK, SendsOK, CountersOK, NEW c \in Sends, Insert(c)
    PROVE  CountersOK'
<1>0. /\ rows \in [Sends -> Row \cup {NoRow}] /\ call \in [Sends -> Call \cup {Idle}]
      /\ call[c] \in Call /\ spent' = spent
  BY BusyIsCall DEF TypeOK, Insert, Unchanged
<1>1. \A s \in Sends : call'[s].day = call[s].day
  BY <1>0 DEF Insert, GoOn, Call
<1>2. CASE KeyTaken(c) \/ Full(call[c].day)
  <2>1. rows' = rows /\ count' = count
    BY <1>2 DEF Insert
  <2>2. QED
    BY <1>0, <1>1, <2>1, SteadyCounters DEF Holds, Live
<1>3. CASE ~(KeyTaken(c) \/ Full(call[c].day))
  <2> SUFFICES ASSUME NEW b \in Buckets
               PROVE  /\ count'[b] = Cardinality(Holding(b)')
                      /\ Limit(b) # NoLimit => count'[b] <= Limit(b)
    BY DEF CountersOK, Limit
  <2>1. ~Holds(c)
    BY DEF SendsOK, SendOK, Insert, Early, Holds
  <2>2. Holds(c)' /\ \A s \in Sends \ {c} : Holds(s)' <=> Holds(s)
    <3>1. rows'[c].status = "active"
      BY <1>0, <1>3 DEF Insert
    <3>2. \A s \in Sends \ {c} : rows'[s] = rows[s]
      BY <1>0, <1>3 DEF Insert
    <3>3. QED
      BY <1>0, <3>1, <3>2 DEF Holds, Live
  <2>3. count'[b] = IF b \in BucketsOf(call[c].day) THEN count[b] + 1 ELSE count[b]
    BY <1>3 DEF Insert
  <2>4. IsFiniteSet(Holding(b))
    BY ConstantsAssumption, FS_Subset DEF Holding
  <2>5. CASE b \in BucketsOf(call[c].day)
    <3>1. Holding(b)' = Holding(b) \cup {c}
      BY <1>1, <2>2, <2>5, HoldingDef DEF Holding, Holds
    <3>2. c \notin Holding(b)
      BY <2>1, HoldingDef
    <3>3. Cardinality(Holding(b)') = Cardinality(Holding(b)) + 1
      BY <2>4, <3>1, <3>2, FS_AddElement
    <3>4. count[b] < Limit(b) /\ Limit(b) \in Nat /\ count[b] \in Nat
      <4>1. Limit(b) \in Nat /\ count[b] \in Nat
        BY <2>5, LimitTyped DEF TypeOK, BucketsOf
      <4>2. ~(count[b] >= Limit(b))
        BY <1>3, <2>5 DEF Full
      <4>3. QED
        BY <4>1, <4>2
    <3>5. QED
      BY <2>3, <2>5, <3>3, <3>4 DEF CountersOK
  <2>6. CASE b \notin BucketsOf(call[c].day)
    <3>1. Holding(b)' = Holding(b)
      BY <1>1, <2>2, <2>6, HoldingDef DEF Holding, Holds
    <3>2. QED
      BY <2>3, <2>6, <3>1 DEF CountersOK
  <2>7. QED
    BY <2>5, <2>6
<1>4. QED
  BY <1>2, <1>3

LEMMA CountersStep ==
    ASSUME TypeOK, SendsOK, OpsOK, CountersOK, Next PROVE CountersOK'
<1>0. /\ rows \in [Sends -> Row \cup {NoRow}] /\ call \in [Sends -> Call \cup {Idle}]
      /\ op \in [Operators -> Case \cup {Off}]
  BY DEF TypeOK
<1>1. ASSUME NEW c \in Sends, CallStep(c) PROVE CountersOK'
  <2>1. spent' = spent
    BY <1>1, CallSetTypes
  <2>2. \A s \in Sends : Holds(s) => call'[s].day = call[s].day
    BY <1>1, HoldersCalled, CallOthers, CallIdentity
  <2>3. CASE Insert(c)
    BY <2>3, InsertedCounters
  <2>4. CASE Sweep(c)
    <3>1. PICK S \in SUBSET {s \in Sends : Overdue(s)} : Release(S)
      BY <2>4 DEF Sweep
    <3>2. \A s \in S : Active(s) /\ s \notin spent
      BY ActiveIsLive DEF SendsOK, SendOK, Overdue, Pending
    <3>3. QED
      BY <2>1, <2>2, <3>1, <3>2, ReleasedCounters
  <2>5. CASE ReleaseOwn(c)
    <3>1. PICK S \in SUBSET {c} : Release(S) /\ (S # {} => Pending(c))
      BY <2>5 DEF ReleaseOwn
    <3>2. \A s \in S : Active(s) /\ s \notin spent
      BY <3>1, ActiveIsLive DEF SendsOK, SendOK, Pending
    <3>3. QED
      BY <2>1, <2>2, <3>1, <3>2, ReleasedCounters
  <2>6. CASE Clear(c)
    <3>1. count' = count
      BY <2>6 DEF Clear
    <3>2. \A s \in Sends : Holds(s)' <=> Holds(s)
      <4>1. ASSUME NEW s \in Sends PROVE Holds(s)' <=> Holds(s)
        <5>1. rows'[s] = rows[s] \/ (rows[s].status = "released" /\ rows'[s] = NoRow)
          BY <1>0, <2>6 DEF Clear
        <5>2. QED
          BY <2>1, <5>1 DEF Holds, Live, NoRow
      <4>2. QED
        BY <4>1
    <3>3. QED
      BY <2>2, <3>1, <3>2, SteadyCounters
  <2>7. CASE MarkBalanceReserved(c) \/ MarkDispatchStarted(c) \/ MarkDispatchSucceeded(c)
             \/ Commit(c)
    <3>1. count' = count
      BY <2>7 DEF MarkBalanceReserved, MarkDispatchStarted, MarkDispatchSucceeded, Commit
    <3>2. \/ rows' = rows
          \/ /\ Active(c)
             /\ \/ rows' = [rows EXCEPT ![c].billed = TRUE]
                \/ rows' = [rows EXCEPT ![c].dispatch = "unknown"]
                \/ rows' = [rows EXCEPT ![c].dispatch = "sent"]
                \/ rows' = [rows EXCEPT ![c].status = "committed"]
      BY <2>7 DEF MarkBalanceReserved, MarkDispatchStarted, MarkDispatchSucceeded, Commit,
         Pending, Unknown
    <3>3. \A s \in Sends : Holds(s)' <=> Holds(s)
      <4>1. CASE rows' = rows
        BY <2>1, <4>1 DEF Holds, Live
      <4>2. CASE rows' # rows
        <5>1. rows[c] \in Row /\ Live(c) /\ rows[c].status = "active"
          BY <1>0, <3>2, <4>2, ActiveIsLive, LiveIsRow DEF Active
        <5>2. rows'[c].status \in {"active", "committed"}
          <6>1. \/ rows'[c] = [rows[c] EXCEPT !.billed = TRUE]
                \/ rows'[c] = [rows[c] EXCEPT !.dispatch = "unknown"]
                \/ rows'[c] = [rows[c] EXCEPT !.dispatch = "sent"]
                \/ rows'[c] = [rows[c] EXCEPT !.status = "committed"]
            BY <1>0, <3>2, <4>2
          <6>2. QED
            BY <5>1, <6>1 DEF Row
        <5>3. \A s \in Sends \ {c} : rows'[s] = rows[s]
          BY <1>0, <3>2, <4>2
        <5>4. Holds(c) /\ Holds(c)'
          BY <5>1, <5>2 DEF Holds, Live
        <5>5. QED
          BY <2>1, <5>3, <5>4 DEF Holds, Live
      <4>3. QED
        BY <4>1, <4>2
    <3>4. QED
      BY <2>2, <3>1, <3>3, SteadyCounters
  <2>8. CASE ~(\/ Sweep(c) \/ ReleaseOwn(c) \/ Clear(c) \/ Insert(c) \/ MarkBalanceReserved(c)
               \/ MarkDispatchStarted(c) \/ MarkDispatchSucceeded(c) \/ Commit(c))
    <3>1. rows' = rows /\ count' = count
      BY <1>1, <2>8 DEF CallStep, Begin, LookUp, Collide, Debit, NoChannel, Dispatch,
         RefundOwn, Die
    <3>2. QED
      BY <2>1, <2>2, <3>1, SteadyCounters DEF Holds, Live
  <2>9. QED
    BY <2>3, <2>4, <2>5, <2>6, <2>7, <2>8
<1>2. ASSUME call' = call PROVE \A s \in Sends : Holds(s) => call'[s].day = call[s].day
  BY <1>2
<1>3. CASE Promote
  <2>1. call' = call /\ spent' = spent /\ count' = count
    BY <1>3 DEF Promote, Scheduled
  <2>2. ASSUME NEW s \in Sends PROVE Holds(s)' <=> Holds(s)
    <3>1. CASE Active(s) /\ rows[s].dispatch = "sent"
      <4>1. rows'[s] = [rows[s] EXCEPT !.status = "committed"] /\ rows[s] \in Row /\ Live(s)
        BY <1>0, <1>3, <3>1, ActiveIsLive, LiveIsRow DEF Promote
      <4>2. rows'[s].status = "committed"
        BY <4>1 DEF Row
      <4>3. QED
        BY <3>1, <4>1, <4>2 DEF Holds, Live, Active
    <3>2. CASE ~(Active(s) /\ rows[s].dispatch = "sent")
      BY <1>3, <2>1, <3>2 DEF Promote, Holds, Live
    <3>3. QED
      BY <3>1, <3>2
  <2>3. QED
    BY <1>2, <2>1, <2>2, SteadyCounters
<1>4. CASE ReleaseExpired
  <2>1. PICK S \in SUBSET {s \in Sends : Overdue(s)} : Release(S)
    BY <1>4 DEF ReleaseExpired
  <2>2. call' = call /\ spent' = spent
    BY <1>4 DEF ReleaseExpired, Scheduled
  <2>3. \A s \in S : Active(s) /\ s \notin spent
    BY ActiveIsLive DEF SendsOK, SendOK, Overdue, Pending
  <2>4. QED
    BY <1>2, <2>1, <2>2, <2>3, ReleasedCounters
<1>5. CASE Purge
  <2>1. PICK S \in SUBSET {s \in Sends : Live(s) /\ ~Active(s) /\ Over(s)} :
           /\ rows' = [s \in Sends |-> IF s \in S THEN NoRow ELSE rows[s]]
           /\ spent' = spent \cup {s \in S : rows[s].status = "committed"}
    BY <1>5 DEF Purge
  <2>2. call' = call /\ count' = count
    BY <1>5 DEF Purge, Scheduled
  <2>3. ASSUME NEW s \in Sends PROVE Holds(s)' <=> Holds(s)
    <3>1. CASE s \in S
      <4>1. rows[s].status \in {"committed", "released"} /\ Live(s)
        BY <1>0, <2>1, <3>1, LiveIsRow DEF Row, Active
      <4>2. ~Live(s)' /\ (s \in spent' <=> rows[s].status = "committed" \/ s \in spent)
        BY <2>1, <3>1 DEF Live, NoRow
      <4>3. QED
        BY <4>1, <4>2 DEF Holds
    <3>2. CASE s \notin S
      BY <2>1, <3>2 DEF Holds, Live
    <3>3. QED
      BY <3>1, <3>2
  <2>4. QED
    BY <1>2, <2>2, <2>3, SteadyCounters
<1>6. CASE NextDay
  BY <1>2, <1>6, SteadyCounters DEF NextDay, Holds, Live
<1>7. ASSUME NEW o \in Operators, OperatorStep(o) PROVE CountersOK'
  <2>1. call' = call /\ spent' = spent
    BY <1>7 DEF OperatorStep, Resolve, ConfirmSent, ConfirmRejected, RefundResolved, Operated
  <2>2. CASE \E s \in Sends, v \in {"sent", "rejected"} : Resolve(o, s, v)
    <3>1. rows' = rows /\ count' = count
      BY <2>2 DEF Resolve
    <3>2. QED
      BY <1>2, <2>1, <3>1, SteadyCounters DEF Holds, Live
  <2>3. CASE ConfirmRejected(o)
    <3>1. op[o].id \in Sends
      BY <1>0, <2>3, CaseOpen DEF ConfirmRejected, Case
    <3>2. PICK S \in SUBSET {op[o].id} : Release(S) /\ (S # {} => Active(op[o].id))
      BY <2>3 DEF ConfirmRejected, Unknown, Pending
    <3>3. \A s \in S : Active(s) /\ s \notin spent
      BY <3>1, <3>2, ActiveIsLive DEF SendsOK, SendOK
    <3>4. S \in SUBSET Sends
      BY <3>1
    <3>5. QED
      BY <1>2, <2>1, <3>2, <3>3, <3>4, ReleasedCounters
  <2>4. CASE ConfirmSent(o)
    <3>1. op[o].id \in Sends /\ count' = count
      BY <1>0, <2>4, CaseOpen DEF ConfirmSent, Case
    <3>2. CASE rows' = rows
      BY <1>2, <2>1, <3>1, <3>2, SteadyCounters DEF Holds, Live
    <3>3. CASE rows' # rows
      <4>1. /\ rows' = [rows EXCEPT ![op[o].id].dispatch = "sent",
                                    ![op[o].id].status = "committed"]
            /\ Active(op[o].id)
        BY <2>4, <3>3 DEF ConfirmSent, Unknown
      <4>2. rows[op[o].id] \in Row /\ Live(op[o].id)
        BY <1>0, <3>1, <4>1, ActiveIsLive, LiveIsRow
      <4>3. rows'[op[o].id].status = "committed"
        BY <1>0, <3>1, <4>1, <4>2 DEF Row
      <4>4. \A s \in Sends \ {op[o].id} : rows'[s] = rows[s]
        BY <1>0, <4>1
      <4>5. Holds(op[o].id) /\ (\A s \in Sends : s = op[o].id => Holds(s)')
        BY <4>1, <4>2, <4>3 DEF Holds, Live, Active
      <4>6. \A s \in Sends : Holds(s)' <=> Holds(s)
        BY <2>1, <4>4, <4>5 DEF Holds, Live
      <4>7. QED
        BY <1>2, <2>1, <3>1, <4>6, SteadyCounters
    <3>4. QED
      BY <3>2, <3>3
  <2>5. CASE RefundResolved(o)
    <3>1. op[o].id \in Sends /\ count' = count
      BY <1>0, <2>5, CaseOpen DEF RefundResolved, Case
    <3>2. CASE rows' = rows
      BY <1>2, <2>1, <3>1, <3>2, SteadyCounters DEF Holds, Live
    <3>3. CASE rows' # rows
      <4>1. /\ rows' = [rows EXCEPT ![op[o].id].refunded = TRUE]
            /\ rows[op[o].id].status = "released"
        BY <2>5, <3>3 DEF RefundResolved
      <4>2. rows[op[o].id] \in Row
        BY <1>0, <3>1, <4>1, LiveIsRow DEF Live
      <4>3. rows'[op[o].id].status = "released"
        BY <1>0, <3>1, <4>1, <4>2 DEF Row
      <4>4. \A s \in Sends : s # op[o].id => rows'[s] = rows[s]
        BY <1>0, <4>1
      <4>5. ASSUME NEW s \in Sends PROVE Holds(s)' <=> Holds(s)
        <5>1. CASE s = op[o].id
          BY <2>1, <4>1, <4>3, <5>1 DEF Holds
        <5>2. CASE s # op[o].id
          BY <2>1, <4>4, <5>2 DEF Holds, Live
        <5>3. QED
          BY <5>1, <5>2
      <4>6. QED
        BY <1>2, <2>1, <3>1, <4>5, SteadyCounters
    <3>4. QED
      BY <3>2, <3>3
  <2>6. QED
    BY <1>7, <2>2, <2>3, <2>4, <2>5 DEF OperatorStep
<1>8. QED
  BY <1>1, <1>3, <1>4, <1>5, <1>6, <1>7 DEF Next

LEMMA CountersInit == Init => CountersOK
<1> SUFFICES ASSUME Init, NEW b \in Buckets
             PROVE  count[b] = Cardinality(Holding(b)) /\ (Limit(b) # NoLimit => count[b] <= Limit(b))
  BY DEF CountersOK
<1>1. Holding(b) = {}
  BY DEF Init, Holding, Live, NoRow
<1>2. count[b] = 0
  BY DEF Init
<1>3. QED
  BY <1>1, <1>2, FS_EmptySet, LimitTyped DEF NoLimit

-----------------------------------------------------------------------------
(* Answers.                                                                 *)

\* Only calls with a key look for other calls' rows, and only calls that are
\* over were told something.
TellersOK ==
    \A c \in Sends : /\ call[c].at \in {"looking", "clearing", "colliding"} => call[c].key # NoKey
                     /\ c \in told => Over(c)

\* A row that answers "ok" is one of a mail at the provider.
LEMMA AnswersAccepted ==
    ASSUME TypeOK, SendsOK, NEW c \in Sends, NEW s \in RowsOf(call[c].key), Answers(c, s) # {}
    PROVE  s \in accepted /\ call[s].key = call[c].key /\ call[s].body = call[c].body
<1>1. s \in Sends /\ Live(s) /\ rows[s].key = call[c].key
  BY DEF RowsOf
<1>2. rows[s].body = call[c].body
  BY DEF Answers, Conflict
<1>3. rows[s].dispatch = "sent"
  BY <1>1 DEF Answers, Replayed, SendsOK, SendOK
<1>4. QED
  BY <1>1, <1>2, <1>3 DEF SendsOK, SendOK

LEMMA ToldStep ==
    ASSUME TypeOK, SendsOK, OpsOK, TellersOK, OkMeansAccepted, Next
    PROVE  TellersOK' /\ OkMeansAccepted'
<1>0. call \in [Sends -> Call \cup {Idle}]
  BY DEF TypeOK
<1>1. ASSUME NEW c \in Sends, CallStep(c) PROVE TellersOK' /\ OkMeansAccepted'
  <2>1. c \notin told
    BY <1>1 DEF TellersOK, Over, CallStep, Begin, Idle, Sweep, LookUp, Clear, Insert, Collide,
       Debit, MarkBalanceReserved, NoChannel, MarkDispatchStarted, Dispatch,
       MarkDispatchSucceeded, Commit, ReleaseOwn, RefundOwn, Die
  <2>2. \A s \in Sends \ {c} : call'[s] = call[s] /\ (s \in accepted' <=> s \in accepted)
    BY <1>1, CallOthers DEF SameHistory
  <2>3. c \in accepted => c \in accepted'
    BY <1>1 DEF CallStep, Begin, Sweep, LookUp, Clear, Insert, Collide, Debit,
       MarkBalanceReserved, NoChannel, MarkDispatchStarted, Dispatch, MarkDispatchSucceeded,
       Commit, ReleaseOwn, RefundOwn, Die
  <2>4. \A d \in accepted : /\ d \in accepted'
                            /\ call'[d].key = call[d].key /\ call'[d].body = call[d].body
    <3>1. SUFFICES ASSUME NEW d \in accepted
                   PROVE  /\ d \in accepted'
                          /\ call'[d].key = call[d].key /\ call'[d].body = call[d].body
      OBVIOUS
    <3>2. d \in Sends
      BY DEF TypeOK
    <3>3. call[d].at # "idle"
      BY <3>2 DEF SendsOK, SendOK
    <3>4. QED
      BY <1>1, <2>2, <2>3, <3>2, <3>3, CallIdentity
  <2>5. \A s \in Sends \ {c} : s \in told' <=> s \in told
    <3>1. \A s \in Sends : Answers(c, s) \subseteq {c}
      BY DEF Answers
    <3>2. UNION {Answers(c, s) : s \in RowsOf(call[c].key)} \subseteq {c}
      BY <3>1 DEF RowsOf
    <3>3. CASE LookUp(c)
      BY <3>1, <3>3 DEF LookUp, RowsOf
    <3>4. CASE Collide(c)
      BY <3>2, <3>4 DEF Collide
    <3>5. CASE Commit(c)
      BY <3>5 DEF Commit
    <3>6. CASE ~(LookUp(c) \/ Collide(c) \/ Commit(c))
      BY <1>1, <3>6 DEF CallStep, Begin, Sweep, Clear, Insert, Debit, MarkBalanceReserved,
         NoChannel, MarkDispatchStarted, Dispatch, MarkDispatchSucceeded, ReleaseOwn, RefundOwn,
         Die
    <3>7. QED
      BY <3>3, <3>4, <3>5, <3>6
  <2>6. c \in told' => /\ call'[c].at = "over"
                       /\ \/ c \in accepted'
                          \/ /\ call'[c].key # NoKey
                             /\ \E d \in accepted' : /\ call'[d].key = call'[c].key
                                                     /\ call'[d].body = call'[c].body
    <3>1. SUFFICES ASSUME c \in told' PROVE
                       /\ call'[c].at = "over"
                       /\ \/ c \in accepted'
                          \/ /\ call'[c].key # NoKey
                             /\ \E d \in accepted' : /\ call'[d].key = call'[c].key
                                                     /\ call'[d].body = call'[c].body
      OBVIOUS
    <3>2. LookUp(c) \/ Collide(c) \/ Commit(c)
      BY <1>1, <2>1, <3>1 DEF CallStep, Begin, Sweep, Clear, Insert, Debit, MarkBalanceReserved,
         NoChannel, MarkDispatchStarted, Dispatch, MarkDispatchSucceeded, ReleaseOwn, RefundOwn,
         Die
    <3>3. call[c].at # "idle" /\ call[c] \in Call
      BY <1>0, <3>2, BusyIsCall DEF LookUp, Collide, Commit
    <3>4. CASE Commit(c)
      <4>1. call'[c].at = "over" /\ call[c].at = "sent" /\ accepted' = accepted
        BY <1>0, <3>3, <3>4 DEF Commit, GoOn, Call
      <4>2. QED
        BY <4>1 DEF SendsOK, SendOK
    <3>5. CASE LookUp(c) \/ Collide(c)
      <4>1. PICK s \in RowsOf(call[c].key) : Answers(c, s) # {}
        BY <2>1, <3>1, <3>5 DEF LookUp, Collide
      <4>2. s \in accepted /\ call[s].key = call[c].key /\ call[s].body = call[c].body
        BY <4>1, AnswersAccepted
      <4>3. call[c].key # NoKey /\ call'[c].key = call[c].key /\ call'[c].body = call[c].body
        BY <1>1, <3>3, <3>5, CallIdentity DEF TellersOK, LookUp, Collide
      <4>4. call'[c].at = "over"
        <5>1. GoOn(c, "over")
          BY <2>1, <3>1, <3>5 DEF LookUp, Collide
        <5>2. QED
          BY <1>0, <3>3, <5>1 DEF GoOn, Call
      <4>5. QED
        BY <2>4, <4>2, <4>3, <4>4
    <3>6. QED
      BY <3>2, <3>4, <3>5
  <2>7. call'[c].at \in {"looking", "clearing", "colliding"} => call'[c].key # NoKey
    <3>1. CASE Sweep(c) \/ LookUp(c) \/ Insert(c)
      <4>1. call[c] \in Call /\ call[c].at # "idle"
        BY <1>0, <3>1, BusyIsCall DEF Sweep, LookUp, Insert
      <4>2. call'[c].key = call[c].key
        BY <1>1, <4>1, CallIdentity
      <4>3. \A at : GoOn(c, at) => call'[c].at = at
        BY <1>0, <4>1 DEF GoOn, Call
      <4>4. CASE Sweep(c)
        BY <4>2, <4>3, <4>4 DEF Sweep
      <4>5. CASE LookUp(c)
        BY <4>2, <4>5 DEF LookUp, TellersOK
      <4>6. CASE Insert(c)
        BY <4>2, <4>3, <4>6 DEF Insert, KeyTaken
      <4>7. QED
        BY <3>1, <4>4, <4>5, <4>6
    <3>2. CASE ~(Sweep(c) \/ LookUp(c) \/ Insert(c))
      <4>1. ASSUME NEW k, NEW b, NEW bill, Begin(c, k, b, bill)
            PROVE  call'[c].at = "entered"
        BY <1>0, <4>1 DEF Begin
      <4>2. CASE Debit(c)
        <5>1. call[c] \in Call
          BY <1>0, <4>2, BusyIsCall DEF Debit
        <5>2. \/ GoOn(c, "ready")
              \/ \E d \in BOOLEAN, at \in {"debited", "releasing"} :
                    call' = [call EXCEPT ![c].debited = d, ![c].at = at]
          BY <4>2 DEF Debit
        <5>3. ASSUME NEW d, NEW at \in {"debited", "releasing"},
                     call' = [call EXCEPT ![c].debited = d, ![c].at = at]
              PROVE  call'[c].at = at
          BY <1>0, <5>1, <5>3 DEF Call
        <5>4. GoOn(c, "ready") => call'[c].at = "ready"
          BY <1>0, <5>1 DEF GoOn, Call
        <5>5. QED
          BY <5>2, <5>3, <5>4
      <4>3. ASSUME ~Debit(c), \A k \in Keys \cup {NoKey}, b \in Bodies, bill \in BOOLEAN :
                                 ~Begin(c, k, b, bill)
            PROVE  call'[c].at \notin {"looking", "clearing", "colliding"}
        <5>1. \E at \in {"inserting", "over", "ready", "releasing", "dispatching", "accepted",
                         "sent", "refunding"} : GoOn(c, at)
          BY <1>1, <3>2, <4>3 DEF CallStep, Clear, Collide, MarkBalanceReserved,
             NoChannel, MarkDispatchStarted, Dispatch, MarkDispatchSucceeded, Commit, ReleaseOwn,
             RefundOwn, Die, AfterError
        <5>2. call[c].at # "idle"
          BY <1>1, <3>2, <4>3 DEF CallStep, Clear, Collide, MarkBalanceReserved,
             NoChannel, MarkDispatchStarted, Dispatch, MarkDispatchSucceeded, Commit, ReleaseOwn,
             RefundOwn, Die
        <5>3. call[c] \in Call
          BY <1>0, <5>2, BusyIsCall
        <5>4. QED
          BY <1>0, <5>1, <5>3 DEF GoOn, Call
      <4>4. QED
        BY <4>1, <4>2, <4>3
    <3>3. QED
      BY <3>1, <3>2
  <2>8. TellersOK'
    <3>1. ASSUME NEW s \in Sends
          PROVE  /\ call'[s].at \in {"looking", "clearing", "colliding"} => call'[s].key # NoKey
                 /\ s \in told' => call'[s].at = "over"
      BY <2>2, <2>5, <2>6, <2>7 DEF TellersOK, Over
    <3>2. QED
      BY <3>1 DEF TellersOK, Over
  <2>9. OkMeansAccepted'
    <3>1. ASSUME NEW s \in told'
          PROVE  \/ s \in accepted'
                 \/ /\ call'[s].key # NoKey
                    /\ \E d \in accepted' : /\ call'[d].key = call'[s].key
                                            /\ call'[d].body = call'[s].body
      <4>1. s \in Sends
        BY <1>1, CallSetTypes
      <4>2. CASE s = c
        BY <2>6, <4>2
      <4>3. CASE s # c
        <5>1. s \in told /\ call'[s] = call[s]
          BY <2>2, <2>5, <4>1, <4>3
        <5>2. QED
          BY <2>4, <5>1 DEF OkMeansAccepted
      <4>4. QED
        BY <4>2, <4>3
    <3>2. QED
      BY <3>1 DEF OkMeansAccepted
  <2>10. QED
    BY <2>8, <2>9
<1>2. ASSUME call' = call, told' = told, accepted' = accepted
      PROVE  TellersOK' /\ OkMeansAccepted'
  BY <1>2 DEF TellersOK, OkMeansAccepted, Over
<1>3. ASSUME NEW o \in Operators, OperatorStep(o) PROVE TellersOK' /\ OkMeansAccepted'
  BY <1>2, <1>3 DEF OperatorStep, Resolve, ConfirmSent, ConfirmRejected, RefundResolved, Operated
<1>4. CASE Promote \/ ReleaseExpired \/ Purge \/ NextDay
  BY <1>2, <1>4 DEF Promote, ReleaseExpired, Purge, Scheduled, NextDay
<1>5. QED
  BY <1>1, <1>3, <1>4 DEF Next

-----------------------------------------------------------------------------
(* The theorems.                                                            *)

IInv == /\ TypeOK /\ SendsOK /\ OpsOK /\ UniqueKeys /\ CountersOK
        /\ TellersOK /\ OkMeansAccepted

THEOREM Inductive == Spec => []IInv
<1>1. Init => IInv
  <2>1. Init => UniqueKeys
    BY DEF Init, UniqueKeys, Live, NoRow
  <2>2. Init => TellersOK /\ OkMeansAccepted
    BY DEF Init, TellersOK, OkMeansAccepted, Idle
  <2>3. QED
    BY <2>1, <2>2, TypeInit, SendsInit, CountersInit DEF IInv
<1>2. IInv /\ [Next]_vars => IInv'
  <2>1. CASE Next
    BY <2>1, TypeNext, SendsOKStep, OpsOKStep, UniqueKeysStep, CountersStep, ToldStep DEF IInv
  <2>2. ASSUME IInv, UNCHANGED vars PROVE IInv'
    <3>1. TypeOK'
      BY <2>2, TypeNext DEF IInv
    <3>2. SendsOK'
      BY <2>2 DEF IInv, vars, SendsOK, SendOK, Live, Pending, Unknown, Active
    <3>3. OpsOK' /\ TellersOK' /\ OkMeansAccepted'
      BY <2>2 DEF IInv, vars, OpsOK, TellersOK, OkMeansAccepted, Over
    <3>4. UniqueKeys'
      BY <2>2 DEF IInv, vars, UniqueKeys, Live
    <3>5. CountersOK'
      BY <2>2, SteadyCounters DEF IInv, vars, Holds, Live
    <3>6. QED
      BY <3>1, <3>2, <3>3, <3>4, <3>5 DEF IInv
  <2>3. QED
    BY <2>1, <2>2
<1>3. QED
  BY <1>1, <1>2, PTL DEF Spec

\* The counters are the reservations that hold a place, whoever released the
\* others, and on whatever day.
THEOREM CountersAreExact == Spec => []CountersExact
<1>1. IInv => CountersExact
  BY DEF IInv, CountersOK, CountersExact
<1>2. QED
  BY <1>1, Inductive, PTL

\* No day and no month sees more mails at the provider than its limit.
THEOREM QuotaIsKept == Spec => []QuotaHolds
<1>1. IInv => QuotaHolds
  <2>1. SUFFICES ASSUME IInv, NEW b \in Buckets, Limit(b) # NoLimit
                 PROVE  Cardinality(Mails(b)) <= Limit(b)
    BY DEF QuotaHolds
  <2>2. Mails(b) \subseteq Holding(b)
    BY <2>1, HoldingDef DEF IInv, TypeOK, SendsOK, SendOK, Mails, Holds
  <2>3. IsFiniteSet(Holding(b))
    BY ConstantsAssumption, FS_Subset DEF Holding
  <2>4. /\ Cardinality(Mails(b)) <= Cardinality(Holding(b))
        /\ Cardinality(Mails(b)) \in Nat /\ Cardinality(Holding(b)) \in Nat
    BY <2>2, <2>3, FS_Subset, FS_CardinalityType
  <2>5. Cardinality(Holding(b)) <= Limit(b) /\ Limit(b) \in Nat
    BY <2>1, LimitTyped DEF IInv, CountersOK
  <2>6. QED
    BY <2>4, <2>5
<1>2. QED
  BY <1>1, Inductive, PTL

\* One key sends one mail.
THEOREM OneMailToAKey == Spec => []KeySendsOnce
<1>1. IInv => KeySendsOnce
  <2>1. SUFFICES ASSUME IInv, NEW c \in accepted, NEW d \in accepted,
                        call[c].key = call[d].key, call[c].key # NoKey, c \notin spent,
                        d \notin spent
                 PROVE  c = d
    BY DEF KeySendsOnce
  <2>2. c \in Sends /\ d \in Sends
    BY <2>1 DEF IInv, TypeOK
  <2>3. /\ Live(c) /\ rows[c].key = call[c].key
        /\ Live(d) /\ rows[d].key = call[d].key
    BY <2>1, <2>2 DEF IInv, SendsOK, SendOK
  <2>4. QED
    BY <2>1, <2>2, <2>3 DEF IInv, UniqueKeys
<1>2. QED
  BY <1>1, Inductive, PTL

\* A billable mail at the provider was paid for and never refunded.
THEOREM MailsArePaid == Spec => []NoFreeMail
<1>1. IInv => NoFreeMail
  BY DEF IInv, TypeOK, SendsOK, SendOK, NoFreeMail
<1>2. QED
  BY <1>1, Inductive, PTL

\* A caller who is told "ok" has a mail at the provider.
THEOREM OkIsTrue == Spec => []OkMeansAccepted
  BY Inductive, PTL DEF IInv
=============================================================================
