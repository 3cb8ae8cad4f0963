-------------------------- MODULE SendReservation --------------------------
(***************************************************************************)
(* Sending a mail from one of the service's own addresses: sendMail        *)
(* (worker/src/mails_api/send_mail_api.ts) and sendMailByBindingAdmin      *)
(* (admin_api/send_mail.ts) over the reservation rows, quota counters and  *)
(* sender balance of send_mail_limit_utils.ts and send_balance.ts, with    *)
(* the scheduler's reconciliation and the operator's verdict on deliveries *)
(* whose outcome is unknown.                                               *)
(*                                                                         *)
(* A call makes one D1 statement or provider request per action.  It may   *)
(* die between two of them, and a statement may raise an error with or     *)
(* without having been applied.  Time is the day; that a reservation's 15  *)
(* minutes are over is a choice, see Overdue.                              *)
(***************************************************************************)
EXTENDS Integers, FiniteSets

CONSTANTS
    Sends,         \* calls of sendMail; a call's reservation has its name
    Keys,          \* values of the x-idempotency-key header
    Bodies,        \* requests, told apart by their hash
    Operators,     \* administrators resolving unknown deliveries
    DailyLimit, MonthlyLimit,  \* configured limits, or NoLimit
    DaysPerMonth,
    StartBalance,  \* what the sender may send at first
    LastDay,       \* bound: days
    MaxFaults,     \* bound: D1 errors and deaths of calls
    MaxCredits     \* bound: refunds of one send

NoKey   == "no key"
NoLimit == -1
Days    == 0 .. LastDay
Daily(d)   == <<"daily", d>>
Monthly(d) == <<"monthly", d \div DaysPerMonth>>
Buckets == {Daily(d) : d \in Days} \cup {Monthly(d) : d \in Days}

ASSUME ConstantsAssumption ==
    /\ IsFiniteSet(Sends)
    /\ NoKey \notin Keys
    /\ DailyLimit \in Nat \cup {NoLimit} /\ MonthlyLimit \in Nat \cup {NoLimit}
    /\ DaysPerMonth \in Nat \ {0}
    /\ {StartBalance, LastDay, MaxFaults, MaxCredits} \subseteq Nat

VARIABLES
    today,
    count,     \* the counters in settings: sends reserved in a day or month
    balance,   \* address_sender.balance
    rows,      \* send_mail_limit_reservations
    call,      \* calls between two awaits
    op,        \* operators between two awaits
    faults,    \* errors and deaths so far
    accepted,  \* history: sends that the provider accepted
    debited,   \* history: sends that took one from the balance
    credits,   \* history: how often a send gave one back to the balance
    spent,     \* history: accepted sends whose rows were purged
    told,      \* history: calls that were answered "ok"
    unapplied  \* history: sends whose refund an operator was told had failed

vars == <<today, count, balance, rows, call, op, faults,
          accepted, debited, credits, spent, told, unapplied>>

NoRow == [status |-> "absent"]
Row   == [status : {"active", "committed", "released"},
          dispatch : {"pending", "unknown", "sent"},
          key : Keys \cup {NoKey}, body : Bodies, day : Days,
          billed : BOOLEAN, refunded : BOOLEAN]
Phases == {"entered", "looking", "clearing", "inserting", "colliding",
           "reserved", "debited", "ready", "dispatching", "accepted", "sent",
           "releasing", "refunding", "over"}
Call  == [at : Phases, key : Keys \cup {NoKey}, body : Bodies, day : Days,
          bill : BOOLEAN, debited : BOOLEAN, found : Sends]
Idle  == [at |-> "idle"]
Off   == [phase |-> "idle"]
Case  == [phase : {"write", "refund"}, id : Sends, verdict : {"sent", "rejected"},
          refund : BOOLEAN]

TypeOK ==
    /\ today \in Days
    /\ count \in [Buckets -> Nat]
    /\ balance \in Nat
    /\ rows \in [Sends -> Row \cup {NoRow}]
    /\ call \in [Sends -> Call \cup {Idle}]
    /\ op \in [Operators -> Case \cup {Off}]
    /\ faults \in 0 .. MaxFaults
    /\ {accepted, debited, spent, told, unapplied} \subseteq SUBSET Sends
    /\ credits \in [Sends -> Nat]

Init ==
    /\ today = 0
    /\ count = [b \in Buckets |-> 0]
    /\ balance = StartBalance
    /\ rows = [s \in Sends |-> NoRow]
    /\ call = [s \in Sends |-> Idle]
    /\ op = [o \in Operators |-> Off]
    /\ faults = 0
    /\ accepted = {} /\ debited = {} /\ spent = {} /\ told = {} /\ unapplied = {}
    /\ credits = [s \in Sends |-> 0]

-----------------------------------------------------------------------------
Live(s)      == rows[s].status # "absent"
Active(s)    == rows[s].status = "active"
Pending(s)   == Active(s) /\ rows[s].dispatch = "pending"
Unknown(s)   == Active(s) /\ rows[s].dispatch = "unknown"
Over(s)      == call[s].at = "over"
RowsOf(k)    == {s \in Sends : Live(s) /\ rows[s].key = k}

\* The counters that a reservation of day d is counted in: one per limit.
Limit(b)     == IF b[1] = "daily" THEN DailyLimit ELSE MonthlyLimit
BucketsOf(d) == {b \in {Daily(d), Monthly(d)} : Limit(b) # NoLimit}

\* Faulty variant, for the mutants.
FreedToday(S, b) == {s \in S : b \in BucketsOf(today)}

\* Which reservations of S give their place back in counter b.
Freed(S, b) == {s \in S : b \in BucketsOf(rows[s].day)}

\* Pending reservations S are released; the trigger corrects the counters.
Release(S) ==
    /\ rows' = [s \in Sends |-> IF s \in S THEN [rows[s] EXCEPT !.status = "released",
                                                              !.dispatch = "pending"]
                                ELSE rows[s]]
    /\ count' = [b \in Buckets |-> LET n == Cardinality(Freed(S, b))
                                   IN IF count[b] > n THEN count[b] - n ELSE 0]

\* What a statement does: its effect and an answer, or an error, in which case
\* the effect may have happened or not.  Where an error ends the call at once it
\* is an instance of Die.
Outcomes == {"ok"} \cup (IF faults < MaxFaults THEN {"lost", "failed"} ELSE {})
Counted(o) == faults' = IF o = "ok" THEN faults ELSE faults + 1

GoOn(c, at) == call' = [call EXCEPT ![c].at = at]

Unchanged == UNCHANGED <<today, op, spent, unapplied>>

-----------------------------------------------------------------------------
(* A call: reserveSendMailLimit, then the dispatch.                         *)

\* The request, and the day its counters are taken from.
Begin(c, k, b, bill) ==
    /\ call[c] = Idle
    /\ call' = [call EXCEPT ![c] = [at |-> "entered", key |-> k, body |-> b, day |-> today,
                                    bill |-> bill, debited |-> FALSE, found |-> c]]
    /\ UNCHANGED <<count, balance, rows, faults, accepted, debited, credits, told>>
    /\ Unchanged

\* Faulty variants, for the mutants.
OverdueAny(s) == Pending(s)

OverdueUnknown(s) == Unknown(s) /\ Over(s)

\* The reservation's time is over.  The 15 minutes outlive the call, so that it
\* ended or died: sendMail never looks whether its own row is still there.
Overdue(s) == Pending(s) /\ Over(s)

\* releaseExpiredReservations, before every reservation.
Sweep(c) ==
    /\ call[c].at = "entered"
    /\ \E S \in SUBSET {s \in Sends : Overdue(s)} : Release(S)
    /\ GoOn(c, IF call[c].key = NoKey THEN "inserting" ELSE "looking")
    /\ UNCHANGED <<balance, faults, accepted, debited, credits, told>>
    /\ Unchanged

\* What a row found under the key means for a call with that key.
Replayed(c, s) == \/ rows[s].status = "committed"
                  \/ rows[s].dispatch = "sent"
Conflict(c, s) == rows[s].body # call[c].body

\* Faulty variant, for the mutants.
AnswersAny(c, s) == IF Conflict(c, s) THEN {} ELSE {c}

\* The callers that row s answers with "ok" when call c finds it.
Answers(c, s) == IF ~Conflict(c, s) /\ Replayed(c, s) THEN {c} ELSE {}

\* The SELECT by key: a conflict, a replay, or a released row to clear away.
LookUp(c) ==
    /\ call[c].at = "looking"
    /\ \/ RowsOf(call[c].key) = {} /\ GoOn(c, "inserting") /\ told' = told
       \/ \E s \in RowsOf(call[c].key) :
             IF ~Conflict(c, s) /\ rows[s].status = "released" /\ rows[s].dispatch = "pending"
             THEN /\ call' = [call EXCEPT ![c].at = "clearing", ![c].found = s]
                  /\ told' = told
             ELSE GoOn(c, "over") /\ told' = told \cup Answers(c, s)
    /\ UNCHANGED <<count, balance, rows, faults, accepted, debited, credits>>
    /\ Unchanged

\* The DELETE of that row, unless it is no longer what was read.
Clear(c) ==
    /\ call[c].at = "clearing"
    /\ rows' = IF rows[call[c].found].status = "released"
               THEN [rows EXCEPT ![call[c].found] = NoRow] ELSE rows
    /\ GoOn(c, "inserting")
    /\ UNCHANGED <<count, balance, faults, accepted, debited, credits, told>>
    /\ Unchanged

\* A counter that is at its limit.
Full(d) == \E b \in BucketsOf(d) : count[b] >= Limit(b)

\* Faulty variant, for the mutants.
KeyFree(c) == FALSE

\* The unique index on the key.
KeyTaken(c) == call[c].key # NoKey /\ RowsOf(call[c].key) # {}

\* The guarded INSERT, whose trigger counts the reservation.
Insert(c) ==
    /\ call[c].at = "inserting"
    /\ IF KeyTaken(c) \/ Full(call[c].day)
       THEN UNCHANGED <<rows, count>>
       ELSE /\ rows' = [rows EXCEPT ![c] =
                   [status |-> "active", dispatch |-> "pending", key |-> call[c].key,
                    body |-> call[c].body, day |-> call[c].day,
                    billed |-> FALSE, refunded |-> FALSE]]
            /\ count' = [b \in Buckets |-> IF b \in BucketsOf(call[c].day)
                                           THEN count[b] + 1 ELSE count[b]]
    /\ GoOn(c, IF KeyTaken(c) THEN "colliding"
               ELSE IF Full(call[c].day) THEN "over" ELSE "reserved")
    /\ UNCHANGED <<balance, faults, accepted, debited, credits, told>>
    /\ Unchanged

\* After a unique violation: the row that won, if it is still there.
Collide(c) ==
    /\ call[c].at = "colliding"
    /\ told' = told \cup UNION {Answers(c, s) : s \in RowsOf(call[c].key)}
    /\ GoOn(c, "over")
    /\ UNCHANGED <<count, balance, rows, faults, accepted, debited, credits>>
    /\ Unchanged

\* Faulty variant, for the mutants.
AffordableAny == TRUE

Affordable == balance > 0

\* reserveSendBalance: one unit for a billable mail, if there is one.
Debit(c) ==
    /\ call[c].at = "reserved"
    /\ IF ~call[c].bill
       THEN GoOn(c, "ready") /\ UNCHANGED <<balance, debited, faults>>
       ELSE \E o \in Outcomes :
              /\ Counted(o)
              /\ IF Affordable /\ o # "failed"
                 THEN balance' = balance - 1 /\ debited' = debited \cup {c}
                 ELSE UNCHANGED <<balance, debited>>
              /\ call' = [call EXCEPT
                    ![c].debited = (o = "ok" /\ Affordable),
                    ![c].at = IF o = "ok" /\ Affordable THEN "debited" ELSE "releasing"]
    /\ UNCHANGED <<count, rows, accepted, credits, told>>
    /\ Unchanged

\* The row learns that a unit was taken for it.
MarkBalanceReserved(c) ==
    /\ call[c].at = "debited"
    /\ \E o \in Outcomes :
         /\ Counted(o)
         /\ rows' = IF Active(c) /\ ~rows[c].billed /\ o # "failed"
                    THEN [rows EXCEPT ![c].billed = TRUE] ELSE rows
         /\ GoOn(c, IF o = "ok" THEN "ready" ELSE "releasing")
    /\ UNCHANGED <<count, balance, accepted, debited, credits, told>>
    /\ Unchanged

\* There is no provider for the domain.
NoChannel(c) ==
    /\ call[c].at = "ready"
    /\ GoOn(c, "releasing")
    /\ UNCHANGED <<count, balance, rows, faults, accepted, debited, credits, told>>
    /\ Unchanged

\* markDispatchStarted: from here on no error releases anything.
MarkDispatchStarted(c) ==
    /\ call[c].at = "ready"
    /\ \E o \in Outcomes :
         /\ Counted(o)
         /\ rows' = IF Pending(c) /\ o # "failed"
                    THEN [rows EXCEPT ![c].dispatch = "unknown"] ELSE rows
         /\ GoOn(c, IF o = "ok" THEN "dispatching" ELSE "releasing")
    /\ UNCHANGED <<count, balance, accepted, debited, credits, told>>
    /\ Unchanged

\* Faulty variant, for the mutants.
AfterRefusal == "releasing"

\* After an error of the provider, whatever it did with the mail.
AfterError == "over"

\* The provider takes the mail and says so, takes it and its answer is lost, or
\* refuses it.
Dispatch(c) ==
    /\ call[c].at = "dispatching"
    /\ \/ accepted' = accepted \cup {c} /\ GoOn(c, "accepted")
       \/ accepted' = accepted \cup {c} /\ GoOn(c, AfterError)
       \/ accepted' = accepted /\ GoOn(c, AfterError)
    /\ UNCHANGED <<count, balance, rows, faults, debited, credits, told>>
    /\ Unchanged

MarkDispatchSucceeded(c) ==
    /\ call[c].at = "accepted"
    /\ rows' = IF Unknown(c) THEN [rows EXCEPT ![c].dispatch = "sent"] ELSE rows
    /\ GoOn(c, "sent")
    /\ UNCHANGED <<count, balance, faults, accepted, debited, credits, told>>
    /\ Unchanged

\* commit; an error is left to the reconciliation.
Commit(c) ==
    /\ call[c].at = "sent"
    /\ \E o \in Outcomes :
         /\ Counted(o)
         /\ rows' = IF Active(c) /\ rows[c].dispatch = "sent" /\ o # "failed"
                    THEN [rows EXCEPT ![c].status = "committed"] ELSE rows
    /\ GoOn(c, "over")
    /\ told' = told \cup {c}
    /\ UNCHANGED <<count, balance, accepted, debited, credits>>
    /\ Unchanged

\* The catch block before the dispatch: release, then the refund, each of which
\* may fail without keeping the other from happening.
ReleaseOwn(c) ==
    /\ call[c].at = "releasing"
    /\ \E o \in Outcomes :
         /\ Counted(o)
         /\ Release(IF Pending(c) /\ o # "failed" THEN {c} ELSE {})
    /\ GoOn(c, IF call[c].debited THEN "refunding" ELSE "over")
    /\ UNCHANGED <<balance, accepted, debited, credits, told>>
    /\ Unchanged

RefundOwn(c) ==
    /\ call[c].at = "refunding"
    /\ balance' = balance + 1 /\ credits' = [credits EXCEPT ![c] = @ + 1]
    /\ GoOn(c, "over")
    /\ UNCHANGED <<count, rows, faults, accepted, debited, told>>
    /\ Unchanged

\* The isolate is evicted; or a statement raised an error, with (the step before
\* this one) or without having been applied, that ends the call.
Die(c) ==
    /\ call[c].at \notin {"idle", "over"}
    /\ faults < MaxFaults /\ faults' = faults + 1
    /\ GoOn(c, "over")
    /\ UNCHANGED <<count, balance, rows, accepted, debited, credits, told>>
    /\ Unchanged

-----------------------------------------------------------------------------
(* The scheduler: reconcileSendMailLimitReservations, by statement.         *)

Scheduled == UNCHANGED <<today, balance, call, op, faults, accepted, debited, credits,
                         told, unapplied>>

Promote ==
    /\ \E s \in Sends : Active(s) /\ rows[s].dispatch = "sent"
    /\ rows' = [s \in Sends |-> IF Active(s) /\ rows[s].dispatch = "sent"
                                THEN [rows[s] EXCEPT !.status = "committed"] ELSE rows[s]]
    /\ UNCHANGED <<count, spent>> /\ Scheduled

ReleaseExpired ==
    /\ \E S \in SUBSET {s \in Sends : Overdue(s)} : S # {} /\ Release(S)
    /\ UNCHANGED spent /\ Scheduled

\* Rows that were settled seven days ago, by then of calls that are over.
Purge ==
    /\ \E S \in SUBSET {s \in Sends : Live(s) /\ ~Active(s) /\ Over(s)} :
         /\ S # {}
         /\ rows' = [s \in Sends |-> IF s \in S THEN NoRow ELSE rows[s]]
         /\ spent' = spent \cup {s \in S : rows[s].status = "committed"}
    /\ UNCHANGED count /\ Scheduled

-----------------------------------------------------------------------------
(* The operator: resolveUnknownSendMail.                                    *)

Operated == UNCHANGED <<today, call, faults, accepted, debited, spent, told>>

\* Operators look before they decide: they know what became of the mail of a
\* call that is over.
Knows(s, v) == Over(s) /\ (v = "sent" <=> s \in accepted)

Refundable(s) == rows[s].billed /\ ~rows[s].refunded

\* The SELECT of resolveUnknownSendMailReservation; other rows are "already
\* resolved".
Resolve(o, s, v) ==
    /\ op[o] = Off /\ Live(s) /\ Knows(s, v)
    /\ \/ /\ rows[s].status = "released" /\ Refundable(s) /\ v = "rejected"
          /\ op' = [op EXCEPT ![o] = [phase |-> "refund", id |-> s, verdict |-> v,
                                      refund |-> TRUE]]
       \/ /\ Unknown(s)
          /\ op' = [op EXCEPT ![o] = [phase |-> "write", id |-> s, verdict |-> v,
                                      refund |-> Refundable(s)]]
    /\ UNCHANGED <<count, balance, rows, credits, unapplied>>
    /\ Operated

ConfirmSent(o) ==
    LET s == op[o].id
    IN /\ op[o].phase = "write" /\ op[o].verdict = "sent"
       /\ rows' = IF Unknown(s) THEN [rows EXCEPT ![s].dispatch = "sent",
                                                  ![s].status = "committed"]
                  ELSE rows
       /\ op' = [op EXCEPT ![o] = Off]
       /\ UNCHANGED <<count, balance, credits, unapplied>>
       /\ Operated

\* The batch: the row goes back to pending, so that its release counts.
ConfirmRejected(o) ==
    LET s == op[o].id
        hit == Unknown(s) \/ Pending(s)
    IN /\ op[o].phase = "write" /\ op[o].verdict = "rejected"
       /\ Release(IF hit THEN {s} ELSE {})
       /\ op' = [op EXCEPT ![o] = IF hit /\ op[o].refund THEN [op[o] EXCEPT !.phase = "refund"]
                                  ELSE Off]
       /\ UNCHANGED <<balance, credits, unapplied>>
       /\ Operated

\* refundResolvedSendMailBalance.  The statement that marks the row asks for an
\* address whose id and whose name are both the sender's address id.
Sender      == [id |-> "address id", name |-> "address"]
MarkMatches == \E a \in {Sender} : a.id = Sender.id /\ a.name = Sender.id

RefundResolved(o) ==
    LET s == op[o].id
        due == rows[s].status = "released" /\ Refundable(s)
    IN /\ op[o].phase = "refund"
       /\ credits[s] < MaxCredits
       /\ IF due
          THEN balance' = balance + 1 /\ credits' = [credits EXCEPT ![s] = @ + 1]
          ELSE UNCHANGED <<balance, credits>>
       /\ rows' = IF due /\ MarkMatches THEN [rows EXCEPT ![s].refunded = TRUE] ELSE rows
       /\ unapplied' = IF due /\ MarkMatches THEN unapplied ELSE unapplied \cup {s}
       /\ op' = [op EXCEPT ![o] = Off]
       /\ UNCHANGED count
       /\ Operated

-----------------------------------------------------------------------------
NextDay ==
    /\ today < LastDay
    /\ today' = today + 1
    /\ UNCHANGED <<count, balance, rows, call, op, faults, accepted, debited, credits,
                   spent, told, unapplied>>

CallStep(c) ==
    \/ \E k \in Keys \cup {NoKey}, b \in Bodies, bill \in BOOLEAN : Begin(c, k, b, bill)
    \/ Sweep(c) \/ LookUp(c) \/ Clear(c) \/ Insert(c) \/ Collide(c)
    \/ Debit(c) \/ MarkBalanceReserved(c) \/ NoChannel(c)
    \/ MarkDispatchStarted(c) \/ Dispatch(c) \/ MarkDispatchSucceeded(c) \/ Commit(c)
    \/ ReleaseOwn(c) \/ RefundOwn(c)
    \/ Die(c)

OperatorStep(o) ==
    \/ \E s \in Sends, v \in {"sent", "rejected"} : Resolve(o, s, v)
    \/ ConfirmSent(o) \/ ConfirmRejected(o) \/ RefundResolved(o)

Next ==
    \/ \E c \in Sends : CallStep(c)
    \/ \E o \in Operators : OperatorStep(o)
    \/ Promote \/ ReleaseExpired \/ Purge \/ NextDay

Spec == Init /\ [][Next]_vars

\* Calls run on or die, and the scheduler comes round.
Fairness ==
    /\ \A c \in Sends : WF_vars(call[c] # Idle /\ CallStep(c))
    /\ WF_vars(Promote) /\ WF_vars(ReleaseExpired)

FairSpec == Spec /\ Fairness

-----------------------------------------------------------------------------
(* Properties.                                                              *)

\* The reservations that take a place in counter b: every row that was not
\* released, and the mails whose rows are purged by now.
Holding(b) == {s \in Sends : /\ \/ Live(s) /\ rows[s].status # "released"
                                \/ s \in spent
                             /\ b \in BucketsOf(call[s].day)}

\* The counters, which only triggers maintain, do not drift: a reservation is
\* counted once in its own day and month and given back once, if at all, by its
\* call, another call's sweep, the scheduler or the operator, on any later day.
CountersExact == \A b \in Buckets : count[b] = Cardinality(Holding(b))

\* The mails that went out on reservations of a day or month.
Mails(b) == {s \in accepted : b \in BucketsOf(call[s].day)}

\* "Concurrent sends cannot all pass": no more mails reach the provider on the
\* reservations of a day or month than its limit, whichever of them were
\* released, expired, retried under their key or rejected by the operator.
QuotaHolds ==
    \A b \in Buckets : Limit(b) # NoLimit => Cardinality(Mails(b)) <= Limit(b)

\* One key sends one mail, however many calls and retries use it, until the
\* row of the mail is purged after its seven days.
KeySendsOnce ==
    \A c, d \in accepted : call[c].key = call[d].key /\ call[c].key # NoKey /\ c # d
                              => {c, d} \cap spent # {}

\* A billable mail that the provider has was paid for: its unit was taken from
\* the balance and never given back.
NoFreeMail ==
    \A c \in accepted : call[c].bill => c \in debited /\ credits[c] = 0

\* A caller who is told "ok" has a mail at the provider: its own or, with a key,
\* the one of an earlier call for the same request.
OkMeansAccepted ==
    \A c \in told : \/ c \in accepted
                    \/ /\ call[c].key # NoKey
                       /\ \E d \in accepted : /\ call[d].key = call[c].key
                                              /\ call[d].body = call[c].body

\* Reservations do not stay open, and accepted mails are committed: what a call
\* left behind is settled by the scheduler, all but unknown outcomes.
ReservationsSettle ==
    \A s \in Sends : (Active(s) /\ ~Unknown(s)) ~> ~(Active(s) /\ ~Unknown(s))

\* "Unknown delivery was released but balance refund was not applied"
\* (admin_api/send_mail.ts:285): an operator who reads this has refunded nothing.
UnappliedMeansUncredited == \A s \in unapplied : credits[s] = 0
=============================================================================
