------------------------ MODULE OutboundDelivery_proofs ------------------------
(***************************************************************************)
(* What the lease, the fence and the Sent-folder search are worth, for     *)
(* every number of jobs, tokens, attempts and faults.                      *)
(*                                                                         *)
(* Three arguments.  HoldInv: what the aggregator has yet to send is under *)
(* a live lease of its token, because results under that token are of jobs *)
(* it has done with; so it never sends what is settled.  DoubtInv: a       *)
(* result that nobody doubts is the one the aggregator awaits and is       *)
(* accepted, so the row tells whether the mail was sent.  MailInv: what    *)
(* the search finds, and what is reported as succeeded, was delivered.     *)
(***************************************************************************)
EXTENDS OutboundDelivery, FiniteSetTheorems, WellFoundedInduction, TLAPS

\* The aggregator has a batch in hand, and then there is a job left in it.
Working == agent.phase \in {"sending", "unknown", "reporting"}
BatchLeft == Working => agent.batch # {}
Typed == TypeOK /\ BatchLeft

-----------------------------------------------------------------------------
(* Types.                                                                   *)

LEMMA ConstantTypes ==
    /\ MaxJobs \in Nat /\ Limit \in Nat /\ MaxAttempts \in Nat /\ MaxAttempts > 0 /\ MaxFaults \in Nat
    /\ Jobs \subseteq Nat
  BY ConstantsAssumption DEF Jobs

\* A non-empty set of jobs has a first one.
LEMMA FirstExists ==
    ASSUME NEW S \in SUBSET Jobs, S # {}
    PROVE  First(S) \in S
<1>1. IsWellFoundedOn(OpToRel(<, Nat), Nat)
  BY NatLessThanWellFounded
<1>2. S \subseteq Nat
  BY ConstantTypes
<1>3. PICK x \in S : \A y \in S : ~(<<y, x>> \in OpToRel(<, Nat))
  BY <1>1, <1>2, WFMin
<1>4. \A y \in S : ~(y < x)
  BY <1>2, <1>3 DEF OpToRel
<1>5. \A y \in S : x <= y
  BY <1>2, <1>4
<1>6. QED
  BY <1>5 DEF First

\* What the aggregator carries in each of its phases.
LEMMA AgentKinds ==
    ASSUME Typed
    PROVE  /\ agent.phase \in {"ready", "claiming", "sending", "unknown", "reporting"}
           /\ agent = Ready <=> agent.phase = "ready"
           /\ agent # Ready => agent.token \in Tokens
           /\ agent.phase = "claiming" => agent.try \in {1, 2} /\ <<agent.token, agent.try>> \in Requests
           /\ Working => /\ agent.batch \subseteq Jobs /\ agent.batch # {} /\ Batch = agent.batch
                         /\ Current \in agent.batch /\ Current \in Jobs
           /\ ~Working => Batch = {}
<1>1. agent \in Agent \cup {Ready}
  BY DEF Typed, TypeOK
<1>2. /\ agent.phase \in {"ready", "claiming", "sending", "unknown", "reporting"}
      /\ agent = Ready <=> agent.phase = "ready"
      /\ agent # Ready => agent.token \in Tokens
      /\ agent.phase = "claiming" => agent.try \in {1, 2}
      /\ Working => agent.batch \subseteq Jobs
  BY <1>1 DEF Agent, Ready, Working
<1>3. Working => Current \in agent.batch
  BY <1>2, FirstExists DEF Typed, BatchLeft, Current
<1>4. QED
  BY <1>2, <1>3 DEF Typed, BatchLeft, Batch, Working, Requests

\* Where Work leaves the aggregator.
LEMMA WorkLeads ==
    ASSUME NEW phase \in {"sending", "unknown", "reporting"}, NEW batch \in SUBSET Jobs,
           agent.token \in Tokens, Work(phase, batch)
    PROVE  /\ agent' \in Agent \cup {Ready}
           /\ Working' => agent'.batch # {}
           /\ batch = {} => agent' = Ready
           /\ batch # {} => /\ agent'.phase = phase /\ agent'.token = agent.token /\ agent'.batch = batch
                            /\ agent' # Ready /\ Working' /\ Batch' = batch /\ Current' = First(batch)
<1>1. CASE batch = {}
  <2>1. agent' = Ready
    BY <1>1 DEF Work
  <2>2. agent'.phase = "ready"
    BY <2>1 DEF Ready
  <2>3. QED
    BY <1>1, <2>1, <2>2 DEF Working
<1>2. CASE batch # {}
  <2> DEFINE a == [phase |-> phase, token |-> agent.token, batch |-> batch]
  <2>1. agent' = a
    BY <1>2 DEF Work
  <2>2. a \in Agent
    BY DEF Agent
  <2>3. a # Ready
    BY DEF Ready
  <2>4. a.phase = phase /\ a.token = agent.token /\ a.batch = batch
    OBVIOUS
  <2>5. QED
    BY <1>2, <2>1, <2>2, <2>3, <2>4 DEF Working, Batch, Current
<1>3. QED
  BY <1>1, <1>2

LEMMA InitTyped == Init => Typed
<1> SUFFICES ASSUME Init PROVE Typed
  OBVIOUS
<1>1. ~Working
  BY DEF Init, Working, Ready
<1>2. QED
  BY <1>1, ConstantTypes DEF Init, Typed, TypeOK, BatchLeft

\* A job with a status of the table is a row; so is a call with a phase.
LEMMA Kinds ==
    ASSUME TypeOK
    PROVE  /\ \A j \in Jobs : job[j] = NoRow \/ job[j] \in Row
           /\ \A j \in Jobs : job[j].status # "absent" => job[j] \in Row
           /\ \A j \in Jobs : job[j] \in Row => job[j] # NoRow /\ job[j].status # "absent"
           /\ \A r \in Requests : claim[r] = NoClaim \/ claim[r] \in ClaimCall
           /\ \A r \in Requests : claim[r].phase # "idle" => claim[r] \in ClaimCall
           /\ \A r \in Requests : claim[r] \in ClaimCall =>
                /\ claim[r] # NoClaim /\ claim[r].phase # "idle"
                /\ claim[r].picked \subseteq Jobs /\ claim[r].ripe \subseteq Jobs
           /\ \A p \in report : p.job \in Jobs /\ p.token \in Tokens /\ p.status \in Verdicts \cup {"retry"}
<1>1. \A x \in Row : x.status # "absent"
  BY DEF Row, Verdicts
<1>2. NoRow.status = "absent"
  BY DEF NoRow
<1>3. \A c \in ClaimCall : c.phase # "idle" /\ c.picked \subseteq Jobs /\ c.ripe \subseteq Jobs
  BY DEF ClaimCall
<1>4. NoClaim.phase = "idle"
  BY DEF NoClaim
<1>5. \A p \in ReportCall : p.job \in Jobs /\ p.token \in Tokens /\ p.status \in Verdicts \cup {"retry"}
  BY DEF ReportCall
<1>6. QED
  BY <1>1, <1>2, <1>3, <1>4, <1>5 DEF TypeOK

\* The rows that the statements of the Worker write are rows.
LEMMA WrittenRows ==
    /\ \A row \in Row : Freed(row) \in Row
    /\ \A row \in Row, t \in Tokens : Leased(row, t) \in Row
    /\ \A row \in Row, s \in {"pending"} \cup Verdicts, d \in BOOLEAN :
          [row EXCEPT !.status = s, !.token = NoToken, !.live = FALSE, !.due = d] \in Row
    /\ \A row \in Row, d \in BOOLEAN : [row EXCEPT !.due = d] \in Row /\ [row EXCEPT !.live = d] \in Row
<1>1. \A row \in Row : Freed(row) \in Row
  BY DEF Freed, Row
<1>2. ASSUME NEW row \in Row, NEW t \in Tokens PROVE Leased(row, t) \in Row
  <2> DEFINE a == IF row.attempts > MaxAttempts THEN row.attempts ELSE row.attempts + 1
  <2>1. row.attempts \in 0 .. MaxAttempts + 1
    BY DEF Row
  <2>2. a \in 0 .. MaxAttempts + 1
    BY <2>1, ConstantTypes
  <2>3. Leased(row, t) = [row EXCEPT !.status = "processing", !.token = t, !.live = TRUE, !.attempts = a]
    BY DEF Leased, Row
  <2>4. QED
    BY <2>2, <2>3 DEF Row
<1>3. ASSUME NEW row \in Row, NEW s \in {"pending"} \cup Verdicts, NEW d \in BOOLEAN
      PROVE  [row EXCEPT !.status = s, !.token = NoToken, !.live = FALSE, !.due = d] \in Row
  BY DEF Row
<1>4. \A row \in Row, d \in BOOLEAN : [row EXCEPT !.due = d] \in Row /\ [row EXCEPT !.live = d] \in Row
  BY DEF Row
<1>5. QED
  BY <1>1, <1>2, <1>3, <1>4

\* A statement that touches rows one by one keeps the table's type.
LEMMA RowStep ==
    ASSUME TypeOK, NEW i \in Jobs, NEW row \in Row, job' = [job EXCEPT ![i] = row]
    PROVE  /\ job' \in [Jobs -> Row \cup {NoRow}]
           /\ job'[i] = row
           /\ \A j \in Jobs : j # i => job'[j] = job[j]
  BY DEF TypeOK

LEMMA ClaimStep ==
    ASSUME TypeOK, NEW r \in Requests, NEW c \in ClaimCall \cup {NoClaim}, claim' = [claim EXCEPT ![r] = c]
    PROVE  /\ claim' \in [Requests -> ClaimCall \cup {NoClaim}]
           /\ claim'[r] = c
           /\ \A q \in Requests : q # r => claim'[q] = claim[q]
  BY DEF TypeOK

LEMMA FaultStep == ASSUME TypeOK, NEW kind, Fault(kind) PROVE kind \in Faults /\ faults' \in 0 .. MaxFaults
  BY ConstantTypes DEF TypeOK, Fault

\* A delivered mail is counted, once more, for the current job and no other.
LEMMA DeliveredStep ==
    ASSUME Typed, Working, Delivered
    PROVE  /\ copies' \in [Jobs -> 0 .. 2] /\ filed' \in [Jobs -> 0 .. 2]
           /\ copies'[Current] = More(copies[Current]) /\ copies'[Current] > 0
           /\ \A j \in Jobs : j # Current => copies'[j] = copies[j] /\ filed'[j] = filed[j]
<1> DEFINE i == Current
<1>1. i \in Jobs
  BY AgentKinds
<1>2. copies \in [Jobs -> 0 .. 2] /\ filed \in [Jobs -> 0 .. 2]
  BY DEF Typed, TypeOK
<1>3. \A n \in 0 .. 2 : More(n) \in 0 .. 2 /\ More(n) > 0
  BY DEF More
<1>4. /\ copies' = [copies EXCEPT ![i] = More(copies[i])]
      /\ filed' = filed \/ filed' = [filed EXCEPT ![i] = More(filed[i])]
  BY DEF Delivered
<1>5. More(copies[i]) \in 0 .. 2 /\ More(copies[i]) > 0 /\ More(filed[i]) \in 0 .. 2
  BY <1>1, <1>2, <1>3
<1>6. QED
  BY <1>1, <1>2, <1>4, <1>5

-----------------------------------------------------------------------------
(* Each action in terms of the rows, calls and reports it touches.          *)

\* The steps of a claim request.
LEMMA RecoverEffect ==
    ASSUME TypeOK, NEW r \in Requests, ClaimRecover(r)
    PROVE  /\ \A j \in Jobs : job'[j] = IF Lapsed(job[j]) THEN Freed(job[j]) ELSE job[j]
           /\ job' \in [Jobs -> Row \cup {NoRow}]
           /\ claim' \in [Requests -> ClaimCall \cup {NoClaim}]
           /\ claim'[r].phase = "recovered"
           /\ \A q \in Requests : q # r => claim'[q] = claim[q]
<1> DEFINE c == [claim[r] EXCEPT !.phase = "recovered", !.ripe = {j \in Jobs : job[j] = NoRow \/ job[j].due}]
<1>1. claim[r] \in ClaimCall
  BY Kinds DEF ClaimRecover
<1>2. c \in ClaimCall /\ c.phase = "recovered"
  BY <1>1 DEF ClaimCall
<1>3. claim' = [claim EXCEPT ![r] = c]
  BY DEF ClaimRecover
<1>4. \A j \in Jobs : job'[j] = IF Lapsed(job[j]) THEN Freed(job[j]) ELSE job[j]
  BY DEF ClaimRecover
<1>5. \A j \in Jobs : Lapsed(job[j]) => job[j] \in Row
  BY Kinds DEF Lapsed
<1>6. \A j \in Jobs : (IF Lapsed(job[j]) THEN Freed(job[j]) ELSE job[j]) \in Row \cup {NoRow}
  BY <1>5, Kinds, WrittenRows
<1>7. job' \in [Jobs -> Row \cup {NoRow}]
  BY <1>6 DEF ClaimRecover
<1>8. QED
  BY <1>2, <1>3, <1>4, <1>7, ClaimStep

LEMMA SelectEffect ==
    ASSUME TypeOK, NEW r \in Requests, ClaimSelect(r)
    PROVE  /\ claim' \in [Requests -> ClaimCall \cup {NoClaim}]
           /\ claim'[r].phase = "selected"
           /\ \A q \in Requests : q # r => claim'[q] = claim[q]
<1> DEFINE S == Oldest({j \in Jobs : Is(j, "pending") /\ j \in claim[r].ripe}, Limit)
           c == [claim[r] EXCEPT !.phase = "selected", !.picked = S]
<1>1. claim[r] \in ClaimCall
  BY Kinds DEF ClaimSelect
<1>2. S \subseteq Jobs
  BY DEF Oldest
<1>3. c \in ClaimCall /\ c.phase = "selected"
  BY <1>1, <1>2 DEF ClaimCall
<1>4. claim' = [claim EXCEPT ![r] = c]
  BY DEF ClaimSelect
<1>5. QED
  BY <1>3, <1>4, ClaimStep

LEMMA LeaseEffect ==
    ASSUME TypeOK, NEW r \in Requests, ClaimLease(r)
    PROVE  /\ \A j \in Jobs : \/ job'[j] = job[j]
                              \/ Is(j, "pending") /\ job'[j] = Leased(job[j], r[1])
           /\ job' \in [Jobs -> Row \cup {NoRow}]
           /\ claim' \in [Requests -> ClaimCall \cup {NoClaim}]
           /\ claim'[r].phase = "leased"
           /\ \A q \in Requests : q # r => claim'[q] = claim[q]
<1> DEFINE c == [claim[r] EXCEPT !.phase = "leased"]
           hit(j) == j \in claim[r].picked /\ Is(j, "pending") /\ j \in claim[r].ripe
           new(j) == IF hit(j) THEN Leased(job[j], r[1]) ELSE job[j]
<1>1. claim[r] \in ClaimCall
  BY Kinds DEF ClaimLease
<1>2. c \in ClaimCall /\ c.phase = "leased"
  BY <1>1 DEF ClaimCall
<1>3. claim' = [claim EXCEPT ![r] = c] /\ job' = [j \in Jobs |-> new(j)]
  BY DEF ClaimLease
<1>4. \A j \in Jobs : hit(j) => job[j] \in Row
  BY Kinds DEF Is
<1>5. r[1] \in Tokens
  BY DEF Requests
<1>6. \A j \in Jobs : new(j) \in Row \cup {NoRow}
  BY <1>4, <1>5, Kinds, WrittenRows
<1>7. job' \in [Jobs -> Row \cup {NoRow}] /\ \A j \in Jobs : job'[j] = new(j)
  BY <1>3, <1>6
<1>8. QED
  BY <1>2, <1>3, <1>7, ClaimStep

LEMMA AnswerEffect ==
    ASSUME TypeOK, NEW r \in Requests, ClaimAnswer(r)
    PROVE  /\ claim' \in [Requests -> ClaimCall \cup {NoClaim}]
           /\ claim'[r].phase = "answered"
           /\ claim'[r].picked = {j \in Jobs : Is(j, "processing") /\ job[j].token = r[1]}
           /\ \A q \in Requests : q # r => claim'[q] = claim[q]
<1> DEFINE S == {j \in Jobs : Is(j, "processing") /\ job[j].token = r[1]}
           c == [claim[r] EXCEPT !.phase = "answered", !.picked = S]
<1>1. claim[r] \in ClaimCall
  BY Kinds DEF ClaimAnswer
<1>2. c \in ClaimCall /\ c.phase = "answered" /\ c.picked = S
  BY <1>1 DEF ClaimCall
<1>3. claim' = [claim EXCEPT ![r] = c]
  BY DEF ClaimAnswer
<1>4. QED
  BY <1>2, <1>3, ClaimStep

\* A lost request is gone.
LEMMA LostEffect ==
    ASSUME TypeOK, NEW r \in Requests, claim' = [claim EXCEPT ![r] = NoClaim]
    PROVE  /\ claim' \in [Requests -> ClaimCall \cup {NoClaim}]
           /\ claim'[r].phase = "idle"
           /\ \A q \in Requests : q # r => claim'[q] = claim[q]
  BY ClaimStep DEF NoClaim

\* A question to the Worker is on its way.
LEMMA AskEffect ==
    ASSUME TypeOK, NEW t \in Tokens, NEW n \in {1, 2}, Ask(t, n)
    PROVE  /\ agent' \in Agent /\ agent'.phase = "claiming" /\ agent'.token = t /\ agent'.try = n
           /\ claim' \in [Requests -> ClaimCall \cup {NoClaim}]
           /\ claim'[<<t, n>>].phase = "sent"
           /\ \A q \in Requests : q # <<t, n>> => claim'[q] = claim[q]
<1> DEFINE c == [phase |-> "sent", ripe |-> {}, picked |-> {}]
<1>1. c \in ClaimCall /\ c.phase = "sent"
  BY DEF ClaimCall
<1>2. <<t, n>> \in Requests
  BY DEF Requests
<1>3. claim' = [claim EXCEPT ![<<t, n>>] = c] /\ agent' = [phase |-> "claiming", token |-> t, try |-> n]
  BY DEF Ask
<1>4. [phase |-> "claiming", token |-> t, try |-> n] \in Agent
  BY DEF Agent
<1>5. QED
  BY <1>1, <1>2, <1>3, <1>4, ClaimStep

\* The report of the current job is on its way.
LEMMA SendReportEffect ==
    ASSUME Typed, Working, NEW status \in Verdicts \cup {"retry"}, SendReport(status)
    PROVE  /\ agent' \in Agent \cup {Ready}
           /\ agent'.phase = "reporting" /\ agent'.token = agent.token /\ agent'.batch = agent.batch
           /\ agent' # Ready /\ Working' /\ Batch' = Batch /\ Current' = Current
           /\ \E p : /\ p.job = Current /\ p.token = agent.token /\ p.status = status /\ p \in ReportCall
                     /\ report' = report \cup {p}
<1> DEFINE p == [job |-> Current, token |-> agent.token, status |-> status, attempts |-> Unread]
<1>1. /\ agent.token \in Tokens /\ agent.batch \in SUBSET Jobs /\ agent.batch # {} /\ Batch = agent.batch
      /\ Current \in Jobs
  BY AgentKinds DEF Working, Ready
<1>2. Unread \in 0 .. MaxAttempts + 1
  BY ConstantTypes DEF Unread
<1>3. p \in ReportCall /\ p.job = Current /\ p.token = agent.token /\ p.status = status
  BY <1>1, <1>2 DEF ReportCall
<1>4. report' = report \cup {p} /\ Work("reporting", agent.batch)
  BY DEF SendReport
<1>5. /\ agent' \in Agent \cup {Ready}
      /\ agent'.phase = "reporting" /\ agent'.token = agent.token /\ agent'.batch = agent.batch
      /\ agent' # Ready /\ Working' /\ Batch' = agent.batch /\ Current' = First(agent.batch)
  BY <1>1, <1>4, WorkLeads
<1>6. QED
  BY <1>1, <1>3, <1>4, <1>5 DEF Current

LEMMA ReadEffect ==
    ASSUME TypeOK, NEW p \in report, ReportRead(p)
    PROVE  \E n \in ReportCall :
              /\ n.job = p.job /\ n.token = p.token /\ n.status = p.status
              /\ report' = (report \ {p}) \cup (IF Fenced(p) THEN {n} ELSE {})
<1>1. p \in ReportCall
  BY DEF TypeOK
<1>2. CASE Fenced(p)
  <2> DEFINE n == [p EXCEPT !.attempts = job[p.job].attempts]
  <2>1. job[p.job] \in Row
    BY <1>2, Kinds DEF Fenced, Is
  <2>2. job[p.job].attempts \in 0 .. MaxAttempts + 1
    BY <2>1 DEF Row
  <2>3. n \in ReportCall /\ n.job = p.job /\ n.token = p.token /\ n.status = p.status
    BY <1>1, <2>2 DEF ReportCall
  <2>4. report' = (report \ {p}) \cup {n}
    BY <1>2 DEF ReportRead
  <2>5. QED
    BY <1>2, <2>3, <2>4
<1>3. CASE ~Fenced(p)
  BY <1>1, <1>3 DEF ReportRead
<1>4. QED
  BY <1>2, <1>3

\* The status under which a report is written.
LEMMA WriteEffect ==
    ASSUME TypeOK, NEW p \in report, ReportWrite(p)
    PROVE  /\ job' \in [Jobs -> Row \cup {NoRow}] /\ claim' \in [Requests -> ClaimCall \cup {NoClaim}]
           /\ ~Fenced(p) => job' = job
           /\ Fenced(p) => /\ job'[p.job].status \in {"pending"} \cup Verdicts
                           /\ p.status \in Verdicts => job'[p.job].status = p.status
                           /\ job'[p.job].status = "succeeded" => p.status = "succeeded"
           /\ \A j \in Jobs : j # p.job => job'[j] = job[j]
           /\ \A r \in Requests : claim'[r].phase = claim[r].phase
                                  /\ (claim[r].phase # "idle" => claim'[r].picked = claim[r].picked)
<1> DEFINE s == IF Exhausted(p) THEN "failed" ELSE IF p.status = "retry" THEN "pending" ELSE p.status
           row == [job[p.job] EXCEPT !.status = s, !.token = NoToken, !.live = FALSE, !.due = s # "pending"]
           old == [r \in Requests |-> IF claim[r] = NoClaim THEN NoClaim
                                      ELSE [claim[r] EXCEPT !.ripe = @ \ {p.job}]]
<1>1. p.job \in Jobs /\ p.status \in Verdicts \cup {"retry"}
  BY Kinds
<1>2. /\ s \in {"pending"} \cup Verdicts
      /\ p.status \in Verdicts => s = p.status
      /\ s = "succeeded" => p.status = "succeeded"
  BY <1>1 DEF Exhausted, Verdicts
<1>3. CASE ~Fenced(p)
  <2>1. job' = job /\ claim' = claim
    BY <1>3 DEF ReportWrite
  <2>2. QED
    BY <1>3, <2>1 DEF TypeOK
<1>4. CASE Fenced(p)
  <2>1. job[p.job] \in Row
    BY <1>1, <1>4, Kinds DEF Fenced, Is
  <2>2. row \in Row
    BY <1>2, <2>1, WrittenRows
  <2>3. row.status = s
    BY <2>1 DEF Row
  <2>4. job' = [job EXCEPT ![p.job] = row] /\ claim' \in {claim, old}
    BY <1>4 DEF ReportWrite
  <2>5. job' \in [Jobs -> Row \cup {NoRow}] /\ job'[p.job] = row /\ \A j \in Jobs : j # p.job => job'[j] = job[j]
    BY <1>1, <2>2, <2>4, RowStep
  <2>6. \A r \in Requests : /\ old[r] \in ClaimCall \cup {NoClaim}
                            /\ old[r].phase = claim[r].phase
                            /\ claim[r].phase # "idle" => old[r].picked = claim[r].picked
    <3> SUFFICES ASSUME NEW r \in Requests
                 PROVE  /\ old[r] \in ClaimCall \cup {NoClaim}
                        /\ old[r].phase = claim[r].phase
                        /\ claim[r].phase # "idle" => old[r].picked = claim[r].picked
      OBVIOUS
    <3>1. CASE claim[r] = NoClaim
      BY <3>1 DEF NoClaim
    <3>2. CASE claim[r] # NoClaim
      <4>1. claim[r] \in ClaimCall /\ old[r] = [claim[r] EXCEPT !.ripe = @ \ {p.job}]
        BY <3>2, Kinds
      <4>2. QED
        BY <4>1 DEF ClaimCall
    <3>3. QED
      BY <3>1, <3>2
  <2>7. old \in [Requests -> ClaimCall \cup {NoClaim}] /\ claim \in [Requests -> ClaimCall \cup {NoClaim}]
    BY <2>6 DEF TypeOK
  <2>8. claim' \in [Requests -> ClaimCall \cup {NoClaim}]
    BY <2>4, <2>7
  <2>9. \A r \in Requests : claim'[r].phase = claim[r].phase
                            /\ (claim[r].phase # "idle" => claim'[r].picked = claim[r].picked)
    BY <2>4, <2>6
  <2>10. QED
    BY <1>2, <1>4, <2>3, <2>5, <2>8, <2>9
<1>5. QED
  BY <1>3, <1>4

-----------------------------------------------------------------------------
(* Type correctness.                                                        *)

\* The aggregator's own steps on its batch.
LEMMA SendTyped ==
    ASSUME Typed, NEW status \in Verdicts \cup {"retry"}, NotSent(status) \/ Sent
    PROVE  Typed'
<1>1. SendReport("succeeded") \/ SendReport(status)
  BY DEF NotSent, Sent
<1>2. Working
  BY DEF NotSent, Sent, Working
<1>3. PICK v \in Verdicts \cup {"retry"} : SendReport(v)
  BY <1>1 DEF Verdicts
<1>4. agent' \in Agent \cup {Ready} /\ agent'.batch # {} /\ report' \subseteq ReportCall
  BY <1>2, <1>3, SendReportEffect, AgentKinds DEF Typed, TypeOK
<1>5. copies' \in [Jobs -> 0 .. 2] /\ filed' \in [Jobs -> 0 .. 2]
  BY <1>2, DeliveredStep DEF NotSent, Sent, Typed, TypeOK
<1>6. UNCHANGED <<job, claim, faults, doubt>>
  BY DEF NotSent, Sent
<1>7. QED
  BY <1>4, <1>5, <1>6 DEF Typed, TypeOK, BatchLeft

LEMMA TypedStep == Typed /\ [Next]_vars => Typed'
<1> SUFFICES ASSUME Typed, [Next]_vars PROVE Typed'
  OBVIOUS
<1>t. TypeOK
  BY DEF Typed
<1>1. ASSUME NEW j \in Jobs, Enqueue(j) \/ Ripen(j) \/ Lapse(j) PROVE Typed'
  <2>1. PICK row \in Row : job' = [job EXCEPT ![j] = row]
    <3>1. CASE Enqueue(j)
      <4> DEFINE row == [status |-> "pending", attempts |-> 0, token |-> NoToken, live |-> FALSE, due |-> TRUE]
      <4>1. row \in Row
        BY ConstantTypes DEF Row
      <4>2. QED
        BY <3>1, <4>1 DEF Enqueue
    <3>2. CASE Ripen(j)
      <4>1. job[j] \in Row
        BY <1>t, <3>2, Kinds DEF Ripen, Is
      <4>2. [job[j] EXCEPT !.due = TRUE] \in Row
        BY <4>1, WrittenRows
      <4>3. QED
        BY <3>2, <4>2 DEF Ripen
    <3>3. CASE Lapse(j)
      <4>1. job[j] \in Row
        BY <1>t, <3>3, Kinds DEF Lapse, Is
      <4>2. [job[j] EXCEPT !.live = FALSE] \in Row
        BY <4>1, WrittenRows
      <4>3. QED
        BY <3>3, <4>2 DEF Lapse
    <3>4. QED
      BY <1>1, <3>1, <3>2, <3>3
  <2>2. job' \in [Jobs -> Row \cup {NoRow}]
    BY <1>t, <2>1, RowStep
  <2>3. faults' \in 0 .. MaxFaults /\ doubt' \subseteq Jobs
    BY <1>1, <1>t, FaultStep DEF Enqueue, Ripen, Lapse, TypeOK
  <2>4. UNCHANGED <<claim, report, agent, copies, filed>>
    BY <1>1 DEF Enqueue, Ripen, Lapse
  <2>5. QED
    BY <2>2, <2>3, <2>4 DEF Typed, TypeOK, BatchLeft, Working
<1>2. ASSUME NEW j \in Jobs, LeaveWindow(j) PROVE Typed'
  <2>1. filed' \in [Jobs -> 0 .. 2]
    <3>1. filed \in [Jobs -> 0 .. 2] /\ filed' = [filed EXCEPT ![j] = filed[j] - 1] /\ filed[j] > 0
      BY <1>2, <1>t DEF LeaveWindow, TypeOK
    <3>2. QED
      BY <3>1
  <2>2. QED
    BY <1>2, <2>1 DEF LeaveWindow, Typed, TypeOK, BatchLeft, Working
<1>3. ASSUME NEW r \in Requests, ServeClaim(r) PROVE Typed'
  <2>1. UNCHANGED <<report, agent, copies, filed, faults, doubt>>
    BY <1>3 DEF ServeClaim, ClaimRecover, ClaimSelect, ClaimLease, ClaimAnswer
  <2>2. job' \in [Jobs -> Row \cup {NoRow}] /\ claim' \in [Requests -> ClaimCall \cup {NoClaim}]
    <3>1. CASE ClaimRecover(r)
      BY <3>1, <1>t, RecoverEffect
    <3>2. CASE ClaimSelect(r)
      BY <3>2, <1>t, SelectEffect DEF ClaimSelect, TypeOK
    <3>3. CASE ClaimLease(r)
      BY <3>3, <1>t, LeaseEffect
    <3>4. CASE ClaimAnswer(r)
      BY <3>4, <1>t, AnswerEffect DEF ClaimAnswer, TypeOK
    <3>5. QED
      BY <1>3, <3>1, <3>2, <3>3, <3>4 DEF ServeClaim
  <2>3. QED
    BY <2>1, <2>2 DEF Typed, TypeOK, BatchLeft, Working
<1>4. ASSUME NEW r \in Requests, ClaimLost(r) PROVE Typed'
  <2>1. claim' \in [Requests -> ClaimCall \cup {NoClaim}]
    BY <1>4, <1>t, LostEffect DEF ClaimLost
  <2>2. faults' \in 0 .. MaxFaults
    BY <1>4, <1>t, FaultStep DEF ClaimLost, TypeOK
  <2>3. UNCHANGED <<job, report, agent, copies, filed, doubt>>
    BY <1>4 DEF ClaimLost
  <2>4. QED
    BY <2>1, <2>2, <2>3 DEF Typed, TypeOK, BatchLeft, Working
<1>5. ASSUME NEW t \in Tokens, StartClaim(t) PROVE Typed'
  <2>1. UNCHANGED <<job, report, copies, filed, faults, doubt>> /\ Ask(t, 1)
    BY <1>5 DEF StartClaim
  <2>2. QED
    BY <2>1, <1>t, AskEffect DEF Typed, TypeOK, BatchLeft, Working
<1>6. ASSUME ClaimTimeout PROVE Typed'
  <2>1. UNCHANGED <<job, report, copies, filed, doubt>> /\ faults' \in 0 .. MaxFaults
    BY <1>6, <1>t, FaultStep DEF ClaimTimeout, TypeOK
  <2>2. CASE agent.try = 1
    <3>1. Ask(agent.token, 2) /\ agent.token \in Tokens
      BY <1>6, <2>2, AgentKinds DEF ClaimTimeout
    <3>2. QED
      BY <2>1, <3>1, <1>t, AskEffect DEF Typed, TypeOK, BatchLeft, Working
  <2>3. CASE agent.try # 1
    <3>1. agent' = Ready /\ claim' = claim
      BY <1>6, <2>3 DEF ClaimTimeout
    <3>2. QED
      BY <2>1, <3>1 DEF Typed, TypeOK, BatchLeft, Working, Ready
  <2>4. QED
    BY <2>2, <2>3
<1>7. ASSUME NEW r \in Requests, TakeAnswer(r) PROVE Typed'
  <2>1. claim[r].picked \in SUBSET Jobs /\ agent.token \in Tokens
    BY <1>7, <1>t, Kinds, AgentKinds DEF TakeAnswer, Awaited
  <2>2. agent' \in Agent \cup {Ready} /\ (Working' => agent'.batch # {})
    BY <1>7, <2>1, WorkLeads DEF TakeAnswer
  <2>3. claim' \in [Requests -> ClaimCall \cup {NoClaim}]
    BY <1>7, <1>t, LostEffect DEF TakeAnswer
  <2>4. QED
    BY <1>7, <2>2, <2>3 DEF TakeAnswer, Typed, TypeOK, BatchLeft
<1>8. ASSUME SendUnknown PROVE Typed'
  <2>1. Working /\ agent.token \in Tokens /\ agent.batch \in SUBSET Jobs /\ Current \in Jobs
    BY <1>8, AgentKinds DEF SendUnknown, Working, Ready
  <2>2. agent' \in Agent \cup {Ready} /\ (Working' => agent'.batch # {})
    BY <1>8, <2>1, WorkLeads DEF SendUnknown
  <2>3. copies' \in [Jobs -> 0 .. 2] /\ filed' \in [Jobs -> 0 .. 2]
    BY <1>8, <1>t, <2>1, DeliveredStep DEF SendUnknown, TypeOK
  <2>4. doubt' \subseteq Jobs
    BY <1>8, <1>t, <2>1 DEF SendUnknown, TypeOK
  <2>5. QED
    BY <1>8, <2>2, <2>3, <2>4 DEF SendUnknown, Typed, TypeOK, BatchLeft
<1>9. ASSUME Reconcile PROVE Typed'
  <2>1. Working
    BY <1>9 DEF Reconcile, Working
  <2>2. PICK v \in Verdicts \cup {"retry"} : SendReport(v)
    BY <1>9 DEF Reconcile, Verdicts
  <2>3. agent' \in Agent \cup {Ready} /\ agent'.batch # {} /\ report' \subseteq ReportCall
    BY <2>1, <2>2, SendReportEffect, AgentKinds DEF Typed, TypeOK
  <2>4. QED
    BY <1>9, <2>3 DEF Reconcile, Typed, TypeOK, BatchLeft
<1>10. ASSUME NextJob PROVE Typed'
  <2>1. Working /\ agent.token \in Tokens /\ agent.batch \ {Current} \in SUBSET Jobs /\ Current \in Jobs
    BY <1>10, AgentKinds DEF NextJob, Working, Ready
  <2>2. agent' \in Agent \cup {Ready} /\ (Working' => agent'.batch # {})
    BY <1>10, <2>1, WorkLeads DEF NextJob
  <2>3. faults' \in 0 .. MaxFaults /\ doubt' \subseteq Jobs
    BY <1>10, <1>t, <2>1, FaultStep DEF NextJob, TypeOK
  <2>4. QED
    BY <1>10, <2>2, <2>3 DEF NextJob, Typed, TypeOK, BatchLeft
<1>11. ASSUME Crash PROVE Typed'
  <2>1. Batch # {} => Current \in Jobs
    BY AgentKinds
  <2>2. doubt' \subseteq Jobs /\ faults' \in 0 .. MaxFaults
    BY <1>11, <1>t, <2>1, FaultStep DEF Crash, TypeOK
  <2>3. QED
    BY <1>11, <2>2 DEF Crash, Typed, TypeOK, BatchLeft, Working, Ready
<1>12. ASSUME NEW p \in report, ServeReport(p) \/ ReportLost(p) PROVE Typed'
  <2>1. CASE ReportRead(p)
    <3>1. report' \subseteq ReportCall
      BY <2>1, <1>t, ReadEffect DEF TypeOK
    <3>2. QED
      BY <2>1, <3>1 DEF ReportRead, Typed, TypeOK, BatchLeft, Working
  <2>2. CASE ReportWrite(p)
    <3>1. job' \in [Jobs -> Row \cup {NoRow}] /\ claim' \in [Requests -> ClaimCall \cup {NoClaim}]
      BY <2>2, <1>t, WriteEffect
    <3>2. report' \subseteq report /\ UNCHANGED <<agent, copies, filed, faults, doubt>>
      BY <2>2 DEF ReportWrite
    <3>3. QED
      BY <3>1, <3>2 DEF Typed, TypeOK, BatchLeft, Working
  <2>3. CASE ReportLost(p)
    <3>1. p.job \in Jobs /\ faults' \in 0 .. MaxFaults
      BY <2>3, <1>t, Kinds, FaultStep DEF ReportLost
    <3>2. QED
      BY <2>3, <3>1 DEF ReportLost, Typed, TypeOK, BatchLeft, Working
  <2>4. QED
    BY <1>12, <2>1, <2>2, <2>3 DEF ServeReport
<1>13. ASSUME NEW status \in {"failed", "unsupported", "retry"}, NotSent(status) PROVE Typed'
  BY <1>13, SendTyped DEF Verdicts
<1>14. ASSUME Sent PROVE Typed'
  BY <1>14, SendTyped DEF Verdicts
<1>15. CASE UNCHANGED vars
  BY <1>15 DEF vars, Typed, TypeOK, BatchLeft, Working
<1>16. QED
  BY <1>1, <1>2, <1>3, <1>4, <1>5, <1>6, <1>7, <1>8, <1>9, <1>10, <1>11, <1>12, <1>13, <1>14, <1>15
     DEF Next, Drain

\* The tables, the calls on their way and the aggregator keep their types, for
\* every number of jobs, tokens, attempts and faults.
THEOREM TypeCorrect == Spec => []TypeOK
<1>1. Typed => TypeOK
  BY DEF Typed
<1>2. QED
  BY InitTyped, TypedStep, <1>1, PTL DEF Spec

-----------------------------------------------------------------------------
(* The lease holds what the aggregator works on.                            *)

\* The job whose outcome is being reported.
Served(j) == agent.phase = "reporting" /\ j = Current
\* The row that a result of the aggregator would be accepted for.
Held(j) == InHand(j) /\ Is(j, "processing") /\ job[j].live
\* Where leases run out in use, the jobs of which nothing can be said.
Exempt == IF "lapse" \in Faults THEN doubt ELSE {}

\* A lease in the aggregator's hands has not run out.
LeaseLive == \A j \in Jobs \ Exempt : InHand(j) /\ Is(j, "processing") => job[j].live
\* Results under the current token are of jobs it has done with.
ReportsDone == \A p \in report : agent # Ready /\ p.token = agent.token =>
    Working /\ (p.job \in Batch => Served(p.job))
BatchHeld == \A j \in Batch \ Exempt : Held(j) \/ Served(j)
AnswerHeld == \A r \in Requests : Awaited(r) /\ claim[r].phase = "answered" =>
    \A j \in claim[r].picked \ Exempt : Held(j)
HoldInv == LeaseLive /\ ReportsDone /\ BatchHeld /\ AnswerHeld

LEMMA ExemptGrows == ASSUME doubt \subseteq doubt' PROVE Exempt \subseteq Exempt'
  BY DEF Exempt

\* A step of anyone but the aggregator: the rows it holds stay held, or are
\* those whose result is being written.
LEMMA HoldKept ==
    ASSUME Typed, HoldInv, agent' = agent, doubt \subseteq doubt',
           \A j \in Jobs \ Exempt' : Held(j) => Held(j)' \/ Served(j) \/ (Working /\ j \notin Batch),
           \A j \in Jobs \ Exempt' : InHand(j)' /\ job'[j].status = "processing" => job'[j].live,
           \A p \in report' : \E q \in report : q.job = p.job /\ q.token = p.token,
           \A r \in Requests : Awaited(r) /\ claim'[r].phase = "answered" =>
              \/ claim[r].phase = "answered" /\ claim'[r].picked = claim[r].picked
              \/ \A j \in claim'[r].picked \ Exempt' : Held(j)',
           claim' \in [Requests -> ClaimCall \cup {NoClaim}]
    PROVE  HoldInv'
<1>1. /\ \A j : Served(j)' <=> Served(j)
      /\ \A r : Awaited(r)' <=> Awaited(r)
      /\ Batch' = Batch /\ (Working' <=> Working)
  BY DEF Served, Awaited, Batch, Working, Current
<1>2. Exempt \subseteq Exempt' /\ Batch \subseteq Jobs
  BY ExemptGrows, AgentKinds
<1>3. LeaseLive'
  BY DEF LeaseLive, Is
<1>4. ReportsDone'
  <2> SUFFICES ASSUME NEW p \in report', agent # Ready, p.token = agent.token
               PROVE  Working /\ (p.job \in Batch => Served(p.job))
    BY <1>1 DEF ReportsDone
  <2>1. PICK q \in report : q.job = p.job /\ q.token = p.token
    OBVIOUS
  <2>2. QED
    BY <2>1 DEF HoldInv, ReportsDone
<1>5. BatchHeld'
  <2> SUFFICES ASSUME NEW j \in Batch \ Exempt' PROVE Held(j)' \/ Served(j)
    BY <1>1 DEF BatchHeld
  <2>1. Held(j) \/ Served(j)
    BY <1>2 DEF HoldInv, BatchHeld
  <2>2. QED
    BY <1>2, <2>1
<1>6. AnswerHeld'
  <2> SUFFICES ASSUME NEW r \in Requests, Awaited(r), claim'[r].phase = "answered",
                      NEW j \in claim'[r].picked \ Exempt'
               PROVE  Held(j)'
    BY <1>1 DEF AnswerHeld
  <2>1. CASE claim[r].phase = "answered" /\ claim'[r].picked = claim[r].picked
    <3>1. j \in Jobs /\ j \notin Exempt
      BY <1>2, <2>1, Kinds DEF Typed
    <3>2. Held(j)
      BY <2>1, <3>1 DEF HoldInv, AnswerHeld
    <3>3. ~Served(j) /\ ~Working
      BY DEF Awaited, Served, Working
    <3>4. QED
      BY <3>1, <3>2, <3>3
  <2>2. CASE \A i \in claim'[r].picked \ Exempt' : Held(i)'
    BY <2>2
  <2>3. QED
    BY <2>1, <2>2
<1>7. QED
  BY <1>3, <1>4, <1>5, <1>6 DEF HoldInv

\* What the Worker's own statements and the clock do to the rows in hand.
LEMMA WorkerHolds ==
    ASSUME Typed, HoldInv,
           \/ \E j \in Jobs : Enqueue(j) \/ Ripen(j) \/ Lapse(j) \/ LeaveWindow(j)
           \/ \E r \in Requests : ServeClaim(r) \/ ClaimLost(r)
           \/ \E p \in report : ServeReport(p) \/ ReportLost(p)
    PROVE  HoldInv'
<1>t. TypeOK /\ job \in [Jobs -> Row \cup {NoRow}] /\ claim \in [Requests -> ClaimCall \cup {NoClaim}]
  BY DEF Typed, TypeOK
<1>1. ASSUME NEW i \in Jobs, Enqueue(i) PROVE HoldInv'
  <2>1. job'[i].status = "pending" /\ job[i].status = "absent" /\ \A j \in Jobs : j # i => job'[j] = job[j]
    BY <1>1, <1>t DEF Enqueue, NoRow
  <2>2. UNCHANGED <<agent, claim, report, doubt>>
    BY <1>1 DEF Enqueue
  <2>3. \A j \in Jobs : Held(j) => Held(j)'
    BY <2>1, <2>2 DEF Held, InHand, Is
  <2>4. \A j \in Jobs \ Exempt : InHand(j)' /\ job'[j].status = "processing" => job'[j].live
    BY <2>1, <2>2 DEF HoldInv, LeaseLive, InHand, Is
  <2>5. Exempt' = Exempt
    BY <2>2 DEF Exempt
  <2>6. QED
    BY <1>t, <2>2, <2>3, <2>4, <2>5, HoldKept
<1>2. ASSUME NEW i \in Jobs, Ripen(i) PROVE HoldInv'
  <2>1. job'[i].status = "pending" /\ job[i].status = "pending" /\ \A j \in Jobs : j # i => job'[j] = job[j]
    <3>1. job[i] \in Row /\ job[i].status = "pending" /\ job' = [job EXCEPT ![i] = [job[i] EXCEPT !.due = TRUE]]
      BY <1>2, <1>t, Kinds DEF Ripen, Is
    <3>2. [job[i] EXCEPT !.due = TRUE].status = "pending"
      BY <3>1 DEF Row
    <3>3. QED
      BY <1>t, <3>1, <3>2
  <2>2. UNCHANGED <<agent, claim, report, doubt>>
    BY <1>2 DEF Ripen
  <2>3. \A j \in Jobs : Held(j) => Held(j)'
    BY <2>1, <2>2 DEF Held, InHand, Is
  <2>4. \A j \in Jobs \ Exempt : InHand(j)' /\ job'[j].status = "processing" => job'[j].live
    BY <2>1, <2>2 DEF HoldInv, LeaseLive, InHand, Is
  <2>5. Exempt' = Exempt
    BY <2>2 DEF Exempt
  <2>6. QED
    BY <1>t, <2>2, <2>3, <2>4, <2>5, HoldKept
<1>3. ASSUME NEW i \in Jobs, Lapse(i) PROVE HoldInv'
  <2>1. /\ job[i] \in Row
        /\ job'[i] = [job[i] EXCEPT !.live = FALSE]
        /\ \A j \in Jobs : j # i => job'[j] = job[j]
    BY <1>3, <1>t, Kinds DEF Lapse, Is
  <2>2. UNCHANGED <<agent, claim, report>> /\ doubt \subseteq doubt'
    BY <1>3 DEF Lapse
  <2>3. InHand(i) => i \in Exempt'
    BY <1>3 DEF Lapse, Fault, Exempt
  <2>4. job'[i].token = job[i].token /\ (InHand(i)' <=> InHand(i))
    BY <2>1, <2>2 DEF Row, InHand
  <2>5. \A j \in Jobs : j # i => (InHand(j)' <=> InHand(j)) /\ (Held(j)' <=> Held(j))
    BY <2>1, <2>2 DEF Held, InHand, Is
  <2>6. \A j \in Jobs \ Exempt' : j # i \/ ~InHand(j)
    BY <2>3
  <2>7. \A j \in Jobs \ Exempt' : Held(j) => Held(j)'
    BY <2>5, <2>6 DEF Held
  <2>8. \A j \in Jobs \ Exempt' : InHand(j)' /\ job'[j].status = "processing" => job'[j].live
    BY <2>1, <2>2, <2>4, <2>5, <2>6, ExemptGrows DEF HoldInv, LeaseLive, Is
  <2>9. QED
    BY <1>t, <2>2, <2>7, <2>8, HoldKept
<1>4. ASSUME NEW i \in Jobs, LeaveWindow(i) PROVE HoldInv'
  <2>1. UNCHANGED <<job, claim, report, agent, doubt>>
    BY <1>4 DEF LeaveWindow
  <2>2. QED
    BY <2>1 DEF HoldInv, LeaseLive, ReportsDone, BatchHeld, AnswerHeld, InHand, Is, Held, Served, Exempt,
                Awaited, Batch, Working, Current
<1>5. ASSUME NEW r \in Requests, ServeClaim(r) PROVE HoldInv'
  <2>1. UNCHANGED <<report, agent, doubt>>
    BY <1>5 DEF ServeClaim, ClaimRecover, ClaimSelect, ClaimLease, ClaimAnswer
  <2>2. Exempt' = Exempt
    BY <2>1 DEF Exempt
  <2>3. /\ claim' \in [Requests -> ClaimCall \cup {NoClaim}]
        /\ \A q \in Requests : q # r => claim'[q] = claim[q]
    BY <1>5, <1>t, RecoverEffect, SelectEffect, LeaseEffect, AnswerEffect DEF ServeClaim
  <2>4. ASSUME \A j \in Jobs : job'[j] = job[j] \/ job[j].status # "processing" \/ Lapsed(job[j]),
               \A j \in Jobs : job'[j].status = "processing" => job'[j] = job[j] \/ job'[j].live,
               claim'[r].phase # "answered"
        PROVE  HoldInv'
    <3>1. \A j \in Jobs : Held(j) => Held(j)'
      BY <2>1, <2>4 DEF Held, InHand, Is, Lapsed
    <3>2. \A j \in Jobs \ Exempt : InHand(j)' /\ job'[j].status = "processing" => job'[j].live
      BY <2>1, <2>4 DEF HoldInv, LeaseLive, InHand, Is
    <3>3. QED
      BY <2>1, <2>2, <2>3, <2>4, <3>1, <3>2, HoldKept
  <2>5. CASE ClaimRecover(r)
    <3>1. \A j \in Jobs : Lapsed(job[j]) => job[j] \in Row
      BY <1>t, Kinds DEF Lapsed
    <3>2. \A row \in Row : Freed(row).status = "pending"
      BY DEF Freed, Row
    <3>3. \A j \in Jobs : job'[j] = (IF Lapsed(job[j]) THEN Freed(job[j]) ELSE job[j]) /\ claim'[r].phase = "recovered"
      BY <1>t, <2>5, RecoverEffect
    <3>4. claim'[r].phase # "answered"
      BY <1>t, <2>5, RecoverEffect
    <3>5. QED
      BY <2>4, <3>1, <3>2, <3>3, <3>4
  <2>6. CASE ClaimSelect(r)
    <3>1. job' = job /\ claim'[r].phase = "selected"
      BY <1>t, <2>6, SelectEffect DEF ClaimSelect
    <3>2. QED
      BY <2>4, <3>1
  <2>7. CASE ClaimLease(r)
    <3>1. /\ \A j \in Jobs : job'[j] = job[j] \/ (job[j].status = "pending" /\ job'[j] = Leased(job[j], r[1]))
          /\ claim'[r].phase = "leased"
      BY <1>t, <2>7, LeaseEffect DEF Is
    <3>2. \A j \in Jobs : job[j].status = "pending" => job[j] \in Row
      BY <1>t, Kinds
    <3>3. \A row \in Row : Leased(row, r[1]).live
      BY DEF Leased, Row
    <3>4. QED
      BY <2>4, <3>1, <3>2, <3>3
  <2>8. CASE ClaimAnswer(r)
    <3>1. /\ job' = job
          /\ claim'[r].picked = {j \in Jobs : Is(j, "processing") /\ job[j].token = r[1]}
      BY <1>t, <2>8, AnswerEffect DEF ClaimAnswer
    <3>2. \A j \in Jobs : Held(j)' <=> Held(j)
      BY <2>1, <3>1 DEF Held, InHand, Is
    <3>3. Awaited(r) => agent # Ready /\ agent.token = r[1]
      BY DEF Awaited, Ready, Requests
    <3>4. Awaited(r) => \A j \in claim'[r].picked \ Exempt : Held(j)'
      BY <3>1, <3>2, <3>3 DEF HoldInv, LeaseLive, Held, InHand
    <3>5. \A j \in Jobs \ Exempt : InHand(j)' /\ job'[j].status = "processing" => job'[j].live
      BY <2>1, <3>1 DEF HoldInv, LeaseLive, InHand, Is
    <3>6. QED
      BY <2>1, <2>2, <2>3, <3>2, <3>4, <3>5, HoldKept
  <2>9. QED
    BY <1>5, <2>5, <2>6, <2>7, <2>8 DEF ServeClaim
<1>6. ASSUME NEW r \in Requests, ClaimLost(r) PROVE HoldInv'
  <2>1. UNCHANGED <<job, report, agent, doubt>>
    BY <1>6 DEF ClaimLost
  <2>2. /\ claim' \in [Requests -> ClaimCall \cup {NoClaim}] /\ claim'[r].phase = "idle"
        /\ \A q \in Requests : q # r => claim'[q] = claim[q]
    BY <1>6, <1>t, LostEffect DEF ClaimLost
  <2>3. /\ Exempt' = Exempt
        /\ \A j \in Jobs : Held(j) => Held(j)'
        /\ \A j \in Jobs \ Exempt : InHand(j)' /\ job'[j].status = "processing" => job'[j].live
    BY <2>1 DEF Exempt, Held, InHand, Is, HoldInv, LeaseLive
  <2>4. QED
    BY <2>1, <2>2, <2>3, HoldKept
<1>7. ASSUME NEW p \in report, ReportRead(p) \/ ReportLost(p) PROVE HoldInv'
  <2>1. UNCHANGED <<job, claim, agent>> /\ doubt \subseteq doubt'
    BY <1>7 DEF ReportRead, ReportLost
  <2>2. \A n \in report' : \E q \in report : q.job = n.job /\ q.token = n.token
    <3>1. CASE ReportRead(p)
      BY <1>t, <3>1, ReadEffect
    <3>2. CASE ReportLost(p)
      BY <3>2 DEF ReportLost
    <3>3. QED
      BY <1>7, <3>1, <3>2
  <2>3. /\ Exempt \subseteq Exempt'
        /\ \A j \in Jobs : Held(j) => Held(j)'
        /\ \A j \in Jobs \ Exempt' : InHand(j)' /\ job'[j].status = "processing" => job'[j].live
    BY <2>1, ExemptGrows DEF Held, InHand, Is, HoldInv, LeaseLive
  <2>4. QED
    BY <1>t, <2>1, <2>2, <2>3, HoldKept
<1>8. ASSUME NEW p \in report, ReportWrite(p) PROVE HoldInv'
  <2>1. UNCHANGED <<agent, doubt>> /\ report' \subseteq report
    BY <1>8 DEF ReportWrite
  <2>2. /\ claim' \in [Requests -> ClaimCall \cup {NoClaim}]
        /\ ~Fenced(p) => job' = job
        /\ Fenced(p) => job'[p.job].status \in {"pending"} \cup Verdicts
        /\ \A j \in Jobs : j # p.job => job'[j] = job[j]
        /\ \A r \in Requests : claim'[r].phase = claim[r].phase
                               /\ (claim[r].phase # "idle" => claim'[r].picked = claim[r].picked)
    BY <1>8, <1>t, WriteEffect
  <2>3. p.job \in Jobs
    BY <1>t, Kinds
  <2>4. \A j \in Jobs \ Exempt : Held(j) => Held(j)' \/ Served(j) \/ (Working /\ j \notin Batch)
    <3> SUFFICES ASSUME NEW j \in Jobs \ Exempt, Held(j), ~Served(j), ~(Working /\ j \notin Batch) PROVE Held(j)'
      OBVIOUS
    <3>1. CASE job'[j] = job[j]
      BY <2>1, <3>1 DEF Held, InHand, Is
    <3>2. CASE job'[j] # job[j]
      <4>1. j = p.job /\ Fenced(p)
        BY <2>2, <3>2
      <4>2. p.token = agent.token /\ agent # Ready
        BY <4>1 DEF Fenced, Held, InHand
      <4>3. Working /\ (p.job \in Batch => Served(p.job))
        BY <4>2 DEF HoldInv, ReportsDone
      <4>4. QED
        BY <4>1, <4>3
    <3>3. QED
      BY <3>1, <3>2
  <2>5. Exempt' = Exempt
    BY <2>1 DEF Exempt
  <2>6. \A j \in Jobs \ Exempt : InHand(j)' /\ job'[j].status = "processing" => job'[j].live
    <3> SUFFICES ASSUME NEW j \in Jobs \ Exempt, InHand(j)', job'[j].status = "processing" PROVE job'[j].live
      OBVIOUS
    <3>1. job'[j] = job[j]
      BY <2>2 DEF Verdicts
    <3>2. QED
      BY <2>1, <3>1 DEF HoldInv, LeaseLive, InHand, Is
  <2>7. \A r \in Requests : Awaited(r) /\ claim'[r].phase = "answered" =>
           claim[r].phase = "answered" /\ claim'[r].picked = claim[r].picked
    BY <2>2
  <2>8. QED
    BY <2>1, <2>2, <2>4, <2>5, <2>6, <2>7, HoldKept
<1>9. QED
  BY <1>1, <1>2, <1>3, <1>4, <1>5, <1>6, <1>7, <1>8 DEF ServeReport

\* The aggregator lets go of everything it held.
LEMMA ReadyHolds == ASSUME agent' = Ready PROVE HoldInv'
<1>1. agent'.phase = "ready"
  BY DEF Ready
<1>2. QED
  BY <1>1 DEF HoldInv, LeaseLive, ReportsDone, BatchHeld, AnswerHeld, InHand, Batch, Awaited

\* It works on (a part of) what it holds.
LEMMA WorkHolds ==
    ASSUME Typed, NEW phase \in {"sending", "unknown", "reporting"}, NEW batch \in SUBSET Jobs,
           agent # Ready, Work(phase, batch), job' = job, Exempt \subseteq Exempt', LeaseLive,
           \A j \in batch \ Exempt' : Held(j),
           \A p \in report' : p.token = agent.token =>
              p.job \notin batch \/ (phase = "reporting" /\ p.job = First(batch))
    PROVE  HoldInv'
<1>1. agent.token \in Tokens
  BY AgentKinds
<1>2. CASE batch = {}
  BY <1>1, <1>2, WorkLeads, ReadyHolds
<1>3. CASE batch # {}
  <2>1. /\ agent'.phase = phase /\ agent'.token = agent.token
        /\ agent' # Ready /\ Working' /\ Batch' = batch /\ Current' = First(batch)
    BY <1>1, <1>3, WorkLeads
  <2>2. \A j : Served(j)' <=> (phase = "reporting" /\ j = First(batch))
    BY <2>1 DEF Served
  <2>3. \A j : /\ InHand(j)' <=> InHand(j)
               /\ Held(j)' <=> Held(j)
               /\ Is(j, "processing")' <=> Is(j, "processing")
    BY <2>1 DEF InHand, Held, Is
  <2>4. LeaseLive'
    BY <2>3 DEF LeaseLive
  <2>5. ReportsDone'
    BY <2>1, <2>2 DEF ReportsDone
  <2>6. BatchHeld'
    BY <2>1, <2>3 DEF BatchHeld
  <2>7. AnswerHeld'
    BY <2>1 DEF AnswerHeld, Awaited
  <2>8. QED
    BY <2>4, <2>5, <2>6, <2>7 DEF HoldInv
<1>4. QED
  BY <1>2, <1>3

\* Before it has its outcome, the current job is held like the rest of the batch.
LEMMA BatchOpen ==
    ASSUME Typed, HoldInv, agent.phase \in {"sending", "unknown"}
    PROVE  /\ Working /\ agent # Ready /\ agent.batch \in SUBSET Jobs /\ Current \in agent.batch
           /\ \A j : ~Served(j)
           /\ \A j \in agent.batch \ Exempt : Held(j)
           /\ \A p \in report : p.token = agent.token => p.job \notin agent.batch
<1>1. Working /\ Batch = agent.batch /\ agent # Ready /\ \A j : ~Served(j)
  BY AgentKinds DEF Working, Served, Ready
<1>2. QED
  BY <1>1, AgentKinds DEF HoldInv, BatchHeld, ReportsDone

LEMMA AgentHolds ==
    ASSUME Typed, HoldInv, Drain \/ Crash
    PROVE  HoldInv'
<1>t. TypeOK /\ LeaseLive
  BY DEF Typed, HoldInv
<1>1. ASSUME NEW t \in Tokens, NEW n \in {1, 2}, Ask(t, n), UNCHANGED <<job, report, doubt>>,
             \A p \in report : p.token # t,
             \A j \in Jobs \ Exempt : Is(j, "processing") /\ job[j].token = t => job[j].live
      PROVE  HoldInv'
  <2>1. /\ agent'.phase = "claiming" /\ agent'.token = t /\ agent'.try = n
        /\ claim'[<<t, n>>].phase = "sent"
    BY <1>1, <1>t, AskEffect
  <2>2. Exempt' = Exempt /\ ~Working' /\ Batch' = {}
    BY <1>1, <2>1 DEF Exempt, Working, Batch
  <2>3. LeaseLive'
    BY <1>1, <2>1, <2>2 DEF LeaseLive, InHand, Is
  <2>4. ReportsDone'
    BY <1>1, <2>1 DEF ReportsDone
  <2>5. AnswerHeld'
    BY <2>1 DEF AnswerHeld, Awaited
  <2>6. QED
    BY <2>2, <2>3, <2>4, <2>5 DEF HoldInv, BatchHeld
<1>2. ASSUME NEW t \in Tokens, StartClaim(t) PROVE HoldInv'
  <2>1. \A j \in Jobs : Is(j, "processing") => job[j] # NoRow
    BY DEF Is, NoRow
  <2>2. QED
    BY <1>1, <1>2, <2>1 DEF StartClaim, Fresh
<1>3. ASSUME ClaimTimeout PROVE HoldInv'
  <2>1. agent # Ready /\ ~Working /\ agent.token \in Tokens
    BY <1>3, AgentKinds DEF ClaimTimeout, Ready, Working
  <2>2. CASE agent.try = 1
    <3>1. Ask(agent.token, 2) /\ UNCHANGED <<job, report, doubt>>
      BY <1>3, <2>2 DEF ClaimTimeout
    <3>2. \A p \in report : p.token # agent.token
      BY <2>1 DEF HoldInv, ReportsDone
    <3>3. \A j \in Jobs \ Exempt : Is(j, "processing") /\ job[j].token = agent.token => job[j].live
      BY <2>1, <1>t DEF LeaseLive, InHand
    <3>4. QED
      BY <1>1, <2>1, <3>1, <3>2, <3>3
  <2>3. CASE agent.try # 1
    BY <1>3, <2>3, ReadyHolds DEF ClaimTimeout
  <2>4. QED
    BY <2>2, <2>3
<1>4. ASSUME NEW r \in Requests, TakeAnswer(r) PROVE HoldInv'
  <2>1. agent # Ready /\ ~Working /\ claim[r].picked \in SUBSET Jobs
    BY <1>4, <1>t, Kinds DEF TakeAnswer, Awaited, Ready, Working
  <2>2. \A j \in claim[r].picked \ Exempt : Held(j)
    BY <1>4 DEF TakeAnswer, HoldInv, AnswerHeld
  <2>3. \A p \in report : p.token # agent.token
    BY <2>1 DEF HoldInv, ReportsDone
  <2>4. job' = job /\ report' = report /\ Exempt' = Exempt /\ Work("sending", claim[r].picked)
    BY <1>4 DEF TakeAnswer, Exempt
  <2>5. QED
    BY <1>t, <2>1, <2>2, <2>3, <2>4, WorkHolds
<1>5. ASSUME NEW status \in Verdicts \cup {"retry"}, agent.phase \in {"sending", "unknown"}, SendReport(status),
             UNCHANGED <<job, doubt>>
      PROVE  HoldInv'
  <2>1. PICK p : p.job = Current /\ report' = report \cup {p}
    BY <1>5, BatchOpen, SendReportEffect
  <2>2. Work("reporting", agent.batch) /\ Exempt' = Exempt
    BY <1>5 DEF SendReport, Exempt
  <2>3. \A q \in report' : q.token = agent.token => q.job \notin agent.batch \/ q.job = First(agent.batch)
    BY <1>5, <2>1, BatchOpen DEF Current
  <2>4. QED
    BY <1>5, <1>t, <2>2, <2>3, BatchOpen, WorkHolds
<1>6. ASSUME NEW status \in {"failed", "unsupported", "retry"}, NotSent(status) PROVE HoldInv'
  BY <1>5, <1>6 DEF NotSent, Verdicts
<1>7. ASSUME Sent PROVE HoldInv'
  BY <1>5, <1>7 DEF Sent, Verdicts
<1>8. ASSUME Reconcile PROVE HoldInv'
  <2>1. PICK v \in Verdicts \cup {"retry"} : SendReport(v)
    BY <1>8 DEF Reconcile, Verdicts
  <2>2. QED
    BY <1>5, <1>8, <2>1 DEF Reconcile
<1>9. ASSUME SendUnknown PROVE HoldInv'
  <2>1. agent.phase \in {"sending", "unknown"}
    BY <1>9 DEF SendUnknown
  <2>2. Work("unknown", agent.batch) /\ UNCHANGED <<job, report>> /\ Exempt \subseteq Exempt'
    BY <1>9, ExemptGrows DEF SendUnknown
  <2>3. QED
    BY <1>t, <2>1, <2>2, BatchOpen, WorkHolds
<1>10. ASSUME NextJob PROVE HoldInv'
  <2> DEFINE rest == agent.batch \ {Current}
  <2>1. agent # Ready /\ Working /\ rest \in SUBSET Jobs /\ Batch = agent.batch
    BY <1>10, AgentKinds DEF NextJob, Ready, Working
  <2>2. Work("sending", rest) /\ UNCHANGED <<job, report>> /\ Exempt \subseteq Exempt'
    BY <1>10, ExemptGrows DEF NextJob
  <2>3. \A j \in rest \ Exempt : Held(j)
    BY <2>1 DEF HoldInv, BatchHeld, Served
  <2>4. \A p \in report : p.token = agent.token => p.job \notin rest
    BY <2>1 DEF HoldInv, ReportsDone, Served
  <2>5. QED
    BY <1>t, <2>1, <2>2, <2>3, <2>4, WorkHolds
<1>11. ASSUME Crash PROVE HoldInv'
  BY <1>11, ReadyHolds DEF Crash
<1>12. QED
  BY <1>2, <1>3, <1>4, <1>6, <1>7, <1>8, <1>9, <1>10, <1>11 DEF Drain

LEMMA HoldStep == Typed /\ HoldInv /\ [Next]_vars => HoldInv'
<1> SUFFICES ASSUME Typed, HoldInv, [Next]_vars PROVE HoldInv'
  OBVIOUS
<1>1. CASE UNCHANGED vars
  BY <1>1 DEF vars, HoldInv, LeaseLive, ReportsDone, BatchHeld, AnswerHeld, InHand, Is, Held, Served, Exempt,
              Awaited, Batch, Working, Current
<1>2. CASE Drain \/ Crash
  BY <1>2, AgentHolds
<1>3. CASE ~(Drain \/ Crash) /\ Next
  BY <1>3, WorkerHolds DEF Next
<1>4. QED
  BY <1>1, <1>2, <1>3

LEMMA InitHold == Init => HoldInv
<1> SUFFICES ASSUME Init PROVE HoldInv
  OBVIOUS
<1>1. agent = Ready /\ agent.phase = "ready" /\ report = {}
  BY DEF Init, Ready
<1>2. QED
  BY <1>1 DEF HoldInv, LeaseLive, ReportsDone, BatchHeld, AnswerHeld, InHand, Batch, Awaited

-----------------------------------------------------------------------------
(* Settled jobs.                                                            *)

\* A settled row is never written again.
LEMMA SettledRow ==
    ASSUME Typed, [Next]_vars, NEW j \in Jobs, Settled(j)
    PROVE  job'[j] = job[j]
<1>t. TypeOK /\ job \in [Jobs -> Row \cup {NoRow}]
  BY DEF Typed, TypeOK
<1>s. job[j].status \notin {"absent", "pending", "processing"} /\ job[j] # NoRow
  BY DEF Settled, Verdicts, NoRow
<1>1. ASSUME NEW i \in Jobs, Enqueue(i) \/ Ripen(i) \/ Lapse(i) PROVE job'[j] = job[j]
  <2>1. i # j
    BY <1>1, <1>s DEF Enqueue, Ripen, Lapse, Is
  <2>2. QED
    BY <1>1, <1>t, <2>1 DEF Enqueue, Ripen, Lapse
<1>2. ASSUME NEW r \in Requests, ServeClaim(r) PROVE job'[j] = job[j]
  <2>1. CASE ClaimRecover(r)
    BY <2>1, <1>s, <1>t, RecoverEffect DEF Lapsed
  <2>2. CASE ClaimLease(r)
    BY <2>2, <1>s, <1>t, LeaseEffect DEF Is
  <2>3. QED
    BY <1>2, <2>1, <2>2 DEF ServeClaim, ClaimSelect, ClaimAnswer
<1>3. ASSUME NEW p \in report, ServeReport(p) \/ ReportLost(p) PROVE job'[j] = job[j]
  <2>1. CASE ReportWrite(p)
    <3>1. p.job = j => ~Fenced(p)
      BY <1>s DEF Fenced, Is
    <3>2. QED
      BY <2>1, <1>t, <3>1, WriteEffect
  <2>2. QED
    BY <1>3, <2>1 DEF ServeReport, ReportRead, ReportLost
<1>4. ASSUME \/ \E i \in Jobs : LeaveWindow(i)
             \/ \E r \in Requests : ClaimLost(r)
             \/ Drain \/ Crash \/ UNCHANGED vars
      PROVE  job'[j] = job[j]
  BY <1>4 DEF LeaveWindow, ClaimLost, Drain, StartClaim, ClaimTimeout, TakeAnswer, NotSent, Sent, SendUnknown,
              Reconcile, NextJob, Crash, vars
<1>5. QED
  BY <1>1, <1>2, <1>3, <1>4 DEF Next

\* Only the aggregator's sends deliver mails, and of the current job.
LEMMA OnlySends ==
    ASSUME Typed, [Next]_vars, NEW j \in Jobs, copies'[j] # copies[j]
    PROVE  (Sent \/ SendUnknown) /\ j = Current
<1>1. CASE Sent \/ SendUnknown
  <2>1. Working /\ Delivered
    BY <1>1 DEF Sent, SendUnknown, Working
  <2>2. QED
    BY <1>1, <2>1, DeliveredStep
<1>2. CASE ~(Sent \/ SendUnknown)
  <2>1. copies' = copies
    BY <1>2 DEF Next, Enqueue, Ripen, Lapse, LeaveWindow, ServeClaim, ClaimRecover, ClaimSelect, ClaimLease,
                ClaimAnswer, ClaimLost, Drain, StartClaim, ClaimTimeout, TakeAnswer, NotSent, Reconcile, NextJob,
                Crash, ServeReport, ReportRead, ReportWrite, ReportLost, vars
  <2>2. QED
    BY <2>1
<1>3. QED
  BY <1>1, <1>2

\* What happens to a settled job.
SettledKept == \A j \in Jobs : Settled(j) => /\ Settled(j)' /\ job'[j].status = job[j].status
                                             /\ copies'[j] = copies[j] \/ j \in Exempt

LEMMA SettledStep == Typed /\ HoldInv /\ [Next]_vars => SettledKept
<1> SUFFICES ASSUME Typed, HoldInv, [Next]_vars, NEW j \in Jobs, Settled(j)
             PROVE  /\ Settled(j)' /\ job'[j].status = job[j].status
                    /\ copies'[j] = copies[j] \/ j \in Exempt
  BY DEF SettledKept
<1>1. job'[j] = job[j]
  BY SettledRow
<1>2. ASSUME copies'[j] # copies[j] PROVE j \in Exempt
  <2>1. j = Current /\ agent.phase \in {"sending", "unknown"}
    BY <1>2, OnlySends DEF Sent, SendUnknown
  <2>2. Current \in agent.batch /\ \A i \in agent.batch \ Exempt : Held(i)
    BY <2>1, BatchOpen
  <2>3. ~Held(j)
    BY DEF Settled, Verdicts, Held, Is
  <2>4. QED
    BY <2>1, <2>2, <2>3
<1>3. QED
  BY <1>1, <1>2 DEF Settled

-----------------------------------------------------------------------------
(* One mail per job, but for the doubtful.                                  *)

\* An unknown outcome is in doubt.
UnknownDoubted == agent.phase = "unknown" => Current \in doubt
\* A result on its way is the one the aggregator awaits, or its job is in doubt.
ReportAwaited  == \A p \in report : p.job \in doubt \/ (Served(p.job) /\ p.token = agent.token)
OneReport      == \A p, q \in report : p.job = q.job /\ p.job \notin doubt => p = q
\* ... and the Worker will accept it.
ReportHeld     == \A p \in report : p.job \in doubt \/ Held(p.job)
\* The mail of a job without doubt made, or is about to make, it succeeded.
Reported(j)    == \E p \in report : p.job = j /\ p.status = "succeeded"
MailAccounted  == \A j \in Jobs \ doubt : copies[j] # 0 => copies[j] = 1 /\ (Is(j, "succeeded") \/ Reported(j))
DoubtInv == UnknownDoubted /\ ReportAwaited /\ OneReport /\ ReportHeld /\ MailAccounted

\* A step that changes no job's mails and takes no result of an undoubted job away.
LEMMA DoubtKept ==
    ASSUME Typed, DoubtInv, agent' = agent, copies' = copies, doubt \subseteq doubt',
           \A j \in Jobs \ doubt' : Held(j) => Held(j)' \/ ~(\E p \in report' : p.job = j),
           \A j \in Jobs \ doubt' : Is(j, "succeeded") => job'[j].status = "succeeded",
           \A j \in Jobs \ doubt' : Reported(j) => Reported(j)' \/ job'[j].status = "succeeded",
           \A p \in report' : p.job \in doubt' \/ \E q \in report : q.job = p.job /\ q.token = p.token,
           \A p, q \in report' : p.job = q.job /\ p.job \notin doubt' => p = q,
           \A p \in report' : p.job \in Jobs
    PROVE  DoubtInv'
<1>1. \A j : Served(j)' <=> Served(j)
  BY DEF Served, Current
<1>2. UnknownDoubted'
  BY DEF DoubtInv, UnknownDoubted, Current
<1>3. ReportAwaited'
  BY <1>1 DEF DoubtInv, ReportAwaited
<1>4. OneReport'
  BY DEF OneReport
<1>5. ReportHeld'
  BY DEF DoubtInv, ReportHeld
<1>6. MailAccounted'
  BY DEF DoubtInv, MailAccounted, Is
<1>7. QED
  BY <1>2, <1>3, <1>4, <1>5, <1>6 DEF DoubtInv

\* The rows and reports that the Worker's own statements and the clock touch.
LEMMA WorkerDoubts ==
    ASSUME Typed, HoldInv, DoubtInv,
           \/ \E j \in Jobs : Enqueue(j) \/ Ripen(j) \/ Lapse(j) \/ LeaveWindow(j)
           \/ \E r \in Requests : ServeClaim(r) \/ ClaimLost(r)
           \/ \E p \in report : ServeReport(p) \/ ReportLost(p)
    PROVE  DoubtInv'
<1>t. TypeOK /\ job \in [Jobs -> Row \cup {NoRow}]
  BY DEF Typed, TypeOK
<1>p. \A p \in report : p.job \in Jobs
  BY <1>t, Kinds
<1>n. [Next]_vars
  BY DEF Next
<1>s. \A j \in Jobs : Is(j, "succeeded") => job'[j].status = "succeeded"
  BY <1>n, SettledRow DEF Is, Settled, Verdicts
<1>1. ASSUME UNCHANGED <<agent, copies, report>>, doubt \subseteq doubt',
             \A j \in Jobs \ doubt' : Held(j) => Held(j)'
      PROVE  DoubtInv'
  <2>1. \A j : Reported(j)' <=> Reported(j)
    BY <1>1 DEF Reported
  <2>2. \A p, q \in report : p.job = q.job /\ p.job \notin doubt' => p = q
    BY <1>1 DEF DoubtInv, OneReport
  <2>3. QED
    BY <1>1, <1>p, <1>s, <2>1, <2>2, DoubtKept
<1>2. ASSUME NEW i \in Jobs, Enqueue(i) \/ Ripen(i) \/ LeaveWindow(i) PROVE DoubtInv'
  <2>1. UNCHANGED <<agent, copies, report, doubt>>
    BY <1>2 DEF Enqueue, Ripen, LeaveWindow
  <2>2. \A j \in Jobs : job[j].status = "processing" => job'[j] = job[j]
    <3>1. \A j \in Jobs : j # i => job'[j] = job[j]
      BY <1>2, <1>t DEF Enqueue, Ripen, LeaveWindow
    <3>2. Enqueue(i) \/ Ripen(i) => job[i].status # "processing"
      BY DEF Enqueue, Ripen, Is, NoRow
    <3>3. QED
      BY <1>2, <3>1, <3>2 DEF LeaveWindow
  <2>3. \A j \in Jobs : Held(j) => Held(j)'
    BY <2>1, <2>2 DEF Held, InHand, Is
  <2>4. QED
    BY <1>1, <2>1, <2>3
<1>3. ASSUME NEW i \in Jobs, Lapse(i) PROVE DoubtInv'
  <2>1. UNCHANGED <<agent, copies, report>> /\ doubt \subseteq doubt' /\ (InHand(i) => i \in doubt')
    BY <1>3 DEF Lapse
  <2>2. \A j \in Jobs : j # i => job'[j] = job[j]
    BY <1>3, <1>t DEF Lapse
  <2>3. \A j \in Jobs \ doubt' : Held(j) => Held(j)'
    BY <2>1, <2>2 DEF Held, InHand, Is
  <2>4. QED
    BY <1>1, <2>1, <2>3
<1>4. ASSUME NEW r \in Requests, ServeClaim(r) \/ ClaimLost(r) PROVE DoubtInv'
  <2>1. UNCHANGED <<agent, copies, report, doubt>>
    BY <1>4 DEF ServeClaim, ClaimRecover, ClaimSelect, ClaimLease, ClaimAnswer, ClaimLost
  <2>2. \A j \in Jobs : Held(j) => job'[j] = job[j]
    <3>1. CASE ClaimRecover(r)
      BY <3>1, <1>t, RecoverEffect DEF Held, Lapsed
    <3>2. CASE ClaimLease(r)
      BY <3>2, <1>t, LeaseEffect DEF Held, Is
    <3>3. QED
      BY <1>4, <3>1, <3>2 DEF ServeClaim, ClaimSelect, ClaimAnswer, ClaimLost
  <2>3. \A j \in Jobs : Held(j) => Held(j)'
    BY <2>1, <2>2 DEF Held, InHand, Is
  <2>4. QED
    BY <1>1, <2>1, <2>3
<1>5. ASSUME NEW p \in report, ReportRead(p) PROVE DoubtInv'
  <2>1. UNCHANGED <<job, agent, copies, doubt>>
    BY <1>5 DEF ReportRead
  <2>2. PICK n \in ReportCall :
           /\ n.job = p.job /\ n.token = p.token /\ n.status = p.status
           /\ report' = (report \ {p}) \cup (IF Fenced(p) THEN {n} ELSE {})
    BY <1>5, <1>t, ReadEffect
  <2>3. p.job \notin doubt => Fenced(p)
    BY DEF DoubtInv, ReportAwaited, ReportHeld, Held, InHand, Fenced
  <2>4. \A j \in Jobs : Held(j) => Held(j)'
    BY <2>1 DEF Held, InHand, Is
  <2>5. \A j \in Jobs \ doubt : Reported(j) => Reported(j)'
    BY <2>2, <2>3 DEF Reported
  <2>6. \A q \in report' : q.job \in Jobs /\ \E o \in report : o.job = q.job /\ o.token = q.token
    BY <2>2, <1>p
  <2>7. \A q, o \in report' : q.job = o.job /\ q.job \notin doubt => q = o
    BY <2>2 DEF DoubtInv, OneReport
  <2>8. QED
    BY <1>s, <2>1, <2>4, <2>5, <2>6, <2>7, DoubtKept
<1>6. ASSUME NEW p \in report, ReportWrite(p) PROVE DoubtInv'
  <2>1. UNCHANGED <<agent, copies, doubt>> /\ report' = report \ {p}
    BY <1>6 DEF ReportWrite
  <2>2. /\ Fenced(p) => /\ p.status \in Verdicts => job'[p.job].status = p.status
        /\ \A j \in Jobs : j # p.job => job'[j] = job[j]
    BY <1>6, <1>t, WriteEffect
  <2>3. p.job \notin doubt => Fenced(p) /\ \A q \in report' : q.job # p.job
    BY <2>1 DEF DoubtInv, ReportAwaited, ReportHeld, OneReport, Held, InHand, Fenced
  <2>4. \A j \in Jobs \ doubt : Held(j) => Held(j)' \/ ~(\E q \in report' : q.job = j)
    BY <2>1, <2>2, <2>3 DEF Held, InHand, Is
  <2>5. \A j \in Jobs \ doubt : Reported(j) => Reported(j)' \/ job'[j].status = "succeeded"
    BY <2>1, <2>2, <2>3 DEF Reported, Verdicts
  <2>6. \A q, o \in report' : q.job = o.job /\ q.job \notin doubt => q = o
    BY <2>1 DEF DoubtInv, OneReport
  <2>7. QED
    BY <1>p, <1>s, <2>1, <2>4, <2>5, <2>6, DoubtKept
<1>7. ASSUME NEW p \in report, ReportLost(p) PROVE DoubtInv'
  <2>1. UNCHANGED <<job, agent, copies>> /\ doubt' = doubt \cup {p.job} /\ report' = report \ {p}
    BY <1>7 DEF ReportLost
  <2>2. \A j \in Jobs : Held(j) => Held(j)'
    BY <2>1 DEF Held, InHand, Is
  <2>3. \A j \in Jobs \ doubt' : Reported(j) => Reported(j)'
    BY <2>1 DEF Reported
  <2>4. \A q, o \in report' : q.job = o.job /\ q.job \notin doubt' => q = o
    BY <2>1 DEF DoubtInv, OneReport
  <2>5. QED
    BY <1>p, <1>s, <2>1, <2>2, <2>3, <2>4, DoubtKept
<1>8. QED
  BY <1>2, <1>3, <1>4, <1>5, <1>6, <1>7 DEF ServeReport

\* The aggregator turns from a job without a result on its way, or in doubt.
LEMMA DoubtTurned ==
    ASSUME Typed, DoubtInv, UNCHANGED <<job, report, copies>>, doubt \subseteq doubt',
           agent'.phase = "unknown" => Current' \in doubt',
           \A j \in Jobs : Served(j) => j \in doubt' \/ ~(\E p \in report : p.job = j /\ p.token = agent.token)
    PROVE  DoubtInv'
<1>1. \A p \in report : p.job \in doubt'
  BY Kinds DEF DoubtInv, ReportAwaited, Typed
<1>2. UnknownDoubted'
  BY DEF UnknownDoubted
<1>3. ReportAwaited' /\ OneReport' /\ ReportHeld'
  BY <1>1 DEF ReportAwaited, OneReport, ReportHeld
<1>4. \A j : Reported(j)' <=> Reported(j)
  BY DEF Reported
<1>5. MailAccounted'
  BY <1>4 DEF DoubtInv, MailAccounted, Is
<1>6. QED
  BY <1>2, <1>3, <1>5 DEF DoubtInv

LEMMA AgentDoubts ==
    ASSUME Typed, HoldInv, DoubtInv, Drain \/ Crash
    PROVE  DoubtInv'
<1>t. TypeOK /\ copies \in [Jobs -> 0 .. 2]
  BY DEF Typed, TypeOK
<1>1. ASSUME NEW t \in Tokens, StartClaim(t) PROVE DoubtInv'
  <2>1. agent'.phase = "claiming"
    BY <1>1, <1>t, AskEffect DEF StartClaim
  <2>2. \A j : ~Served(j)
    BY <1>1 DEF StartClaim, Served, Ready
  <2>3. QED
    BY <1>1, <2>1, <2>2, DoubtTurned DEF StartClaim
<1>2. ASSUME ClaimTimeout PROVE DoubtInv'
  <2>1. agent.token \in Tokens /\ \A j : ~Served(j)
    BY <1>2, AgentKinds DEF ClaimTimeout, Ready, Served
  <2>2. agent'.phase # "unknown"
    <3>1. CASE agent.try = 1
      BY <1>2, <1>t, <2>1, <3>1, AskEffect DEF ClaimTimeout
    <3>2. CASE agent.try # 1
      BY <1>2, <3>2 DEF ClaimTimeout, Ready
    <3>3. QED
      BY <3>1, <3>2
  <2>3. UNCHANGED <<job, report, copies, doubt>>
    BY <1>2 DEF ClaimTimeout
  <2>4. QED
    BY <2>1, <2>2, <2>3, DoubtTurned
<1>3. ASSUME NEW r \in Requests, TakeAnswer(r) PROVE DoubtInv'
  <2>1. claim[r].picked \in SUBSET Jobs /\ agent.token \in Tokens /\ \A j : ~Served(j)
    BY <1>3, <1>t, Kinds, AgentKinds DEF TakeAnswer, Awaited, Ready, Served
  <2>2. agent'.phase # "unknown"
    BY <1>3, <2>1, WorkLeads DEF TakeAnswer, Ready
  <2>3. UNCHANGED <<job, report, copies, doubt>>
    BY <1>3 DEF TakeAnswer
  <2>4. QED
    BY <2>1, <2>2, <2>3, DoubtTurned
<1>4. ASSUME NextJob PROVE DoubtInv'
  <2> DEFINE rest == agent.batch \ {Current}
  <2>1. agent.token \in Tokens /\ rest \in SUBSET Jobs
    BY <1>4, AgentKinds DEF NextJob, Ready, Working
  <2>2. agent'.phase # "unknown"
    BY <1>4, <2>1, WorkLeads DEF NextJob, Ready
  <2>3. UNCHANGED <<job, report, copies>> /\ doubt \subseteq doubt'
    BY <1>4 DEF NextJob
  <2>4. Current \in doubt' \/ ~(\E p \in report : p.job = Current /\ p.token = agent.token)
    BY <1>4 DEF NextJob
  <2>5. QED
    BY <2>2, <2>3, <2>4, DoubtTurned DEF Served
<1>5. ASSUME Crash PROVE DoubtInv'
  <2>1. UNCHANGED <<job, report, copies>> /\ doubt \subseteq doubt' /\ agent' = Ready
    BY <1>5 DEF Crash
  <2>2. agent'.phase # "unknown"
    BY <2>1 DEF Ready
  <2>3. agent.phase = "reporting" => Current \in doubt'
    BY <1>5, AgentKinds DEF Crash, Working
  <2>4. QED
    BY <2>1, <2>2, <2>3, DoubtTurned DEF Served
<1>6. ASSUME SendUnknown PROVE DoubtInv'
  <2>1. /\ Working /\ Current \in agent.batch /\ agent.batch \in SUBSET Jobs
        /\ \A j : ~Served(j)
    BY <1>6, BatchOpen DEF SendUnknown
  <2>2. doubt' = doubt \cup {Current} /\ UNCHANGED <<job, report>> /\ Work("unknown", agent.batch)
    BY <1>6 DEF SendUnknown
  <2>3. agent.token \in Tokens
    BY <1>6, AgentKinds DEF SendUnknown, Ready
  <2>4. Current' = Current
    BY <2>1, <2>2, <2>3, WorkLeads DEF Current
  <2>5. \A p \in report : p.job \in doubt
    BY <2>1 DEF DoubtInv, ReportAwaited
  <2>6. \A j \in Jobs \ doubt' : copies'[j] = copies[j]
    BY <1>6, <2>1, <2>2, DeliveredStep DEF SendUnknown
  <2>7. \A j : Reported(j)' <=> Reported(j)
    BY <2>2 DEF Reported
  <2>8. UnknownDoubted'
    BY <2>2, <2>4 DEF UnknownDoubted
  <2>9. ReportAwaited' /\ OneReport' /\ ReportHeld'
    BY <2>2, <2>5 DEF ReportAwaited, OneReport, ReportHeld
  <2>10. MailAccounted'
    BY <2>2, <2>6, <2>7 DEF DoubtInv, MailAccounted, Is
  <2>11. QED
    BY <2>8, <2>9, <2>10 DEF DoubtInv
<1>7. ASSUME NEW status \in Verdicts \cup {"retry"}, agent.phase \in {"sending", "unknown"}, SendReport(status),
             UNCHANGED <<job, doubt>>,
             \/ UNCHANGED copies
             \/ agent.phase = "sending" /\ status = "succeeded" /\ Delivered
      PROVE  DoubtInv'
  <2>1. /\ Working /\ Current \in agent.batch /\ agent.batch \in SUBSET Jobs
        /\ \A j : ~Served(j)
        /\ \A j \in agent.batch \ Exempt : Held(j)
    BY <1>7, BatchOpen
  <2>2. PICK p : /\ p.job = Current /\ p.token = agent.token /\ p.status = status
                 /\ report' = report \cup {p}
    BY <1>7, <2>1, SendReportEffect
  <2>3. /\ agent'.phase = "reporting" /\ agent'.token = agent.token /\ agent' # Ready /\ Current' = Current
    BY <1>7, <2>1, SendReportEffect
  <2>4. \A q \in report : q.job \in doubt
    BY <2>1 DEF DoubtInv, ReportAwaited
  <2>5. Current \notin doubt => Held(Current) /\ agent.phase = "sending"
    BY <1>7, <2>1 DEF Exempt, DoubtInv, UnknownDoubted
  <2>6. Current \notin doubt => Held(p.job)'
    BY <1>7, <2>2, <2>3, <2>5 DEF Held, InHand, Is
  <2>7. UnknownDoubted'
    BY <2>3 DEF UnknownDoubted
  <2>8. ReportAwaited'
    BY <1>7, <2>2, <2>3, <2>4 DEF ReportAwaited, Served
  <2>9. OneReport' /\ ReportHeld'
    BY <1>7, <2>2, <2>4, <2>6 DEF OneReport, ReportHeld
  <2>10. \A j : Reported(j) => Reported(j)'
    BY <2>2 DEF Reported
  <2>11. MailAccounted'
    <3>1. CASE UNCHANGED copies
      BY <1>7, <2>10, <3>1 DEF DoubtInv, MailAccounted, Is
    <3>2. CASE status = "succeeded" /\ Delivered
      <4>1. \A j \in Jobs : j # Current => copies'[j] = copies[j]
        BY <2>1, <3>2, DeliveredStep
      <4>2. Current \notin doubt => copies[Current] = 0
        <5>1. ASSUME Current \notin doubt PROVE copies[Current] = 0
          <6>1. ~Is(Current, "succeeded") /\ ~Reported(Current)
            BY <2>4, <2>5, <5>1 DEF Held, Is, Reported
          <6>2. QED
            BY <2>1, <5>1, <6>1 DEF DoubtInv, MailAccounted
        <5>2. QED
          BY <5>1
      <4>3. Current \notin doubt => copies'[Current] = 1 /\ Reported(Current)'
        <5>1. copies'[Current] = More(copies[Current])
          BY <2>1, <3>2, DeliveredStep
        <5>2. Reported(Current)'
          BY <2>2, <2>3, <3>2 DEF Reported
        <5>3. QED
          BY <4>2, <5>1, <5>2 DEF More
      <4>4. QED
        BY <1>7, <2>3, <2>10, <4>1, <4>3 DEF DoubtInv, MailAccounted, Is
    <3>3. QED
      BY <1>7, <3>1, <3>2
  <2>12. QED
    BY <2>7, <2>8, <2>9, <2>11 DEF DoubtInv
<1>8. ASSUME NEW status \in {"failed", "unsupported", "retry"}, NotSent(status) PROVE DoubtInv'
  BY <1>7, <1>8 DEF NotSent, Verdicts
<1>9. ASSUME Sent PROVE DoubtInv'
  BY <1>7, <1>9 DEF Sent, Verdicts
<1>10. ASSUME Reconcile PROVE DoubtInv'
  <2>1. PICK v \in Verdicts \cup {"retry"} : SendReport(v)
    BY <1>10 DEF Reconcile, Verdicts
  <2>2. QED
    BY <1>7, <1>10, <2>1 DEF Reconcile
<1>11. QED
  BY <1>1, <1>2, <1>3, <1>4, <1>5, <1>6, <1>8, <1>9, <1>10 DEF Drain

LEMMA DoubtStep == Typed /\ HoldInv /\ DoubtInv /\ [Next]_vars => DoubtInv'
<1> SUFFICES ASSUME Typed, HoldInv, DoubtInv, [Next]_vars PROVE DoubtInv'
  OBVIOUS
<1>1. CASE UNCHANGED vars
  BY <1>1 DEF vars, DoubtInv, UnknownDoubted, ReportAwaited, OneReport, ReportHeld, MailAccounted, Reported,
              InHand, Is, Held, Served, Current
<1>2. CASE Drain \/ Crash
  BY <1>2, AgentDoubts
<1>3. CASE ~(Drain \/ Crash) /\ Next
  BY <1>3, WorkerDoubts DEF Next
<1>4. QED
  BY <1>1, <1>2, <1>3

LEMMA InitDoubt == Init => DoubtInv
  BY DEF Init, Ready, DoubtInv, UnknownDoubted, ReportAwaited, OneReport, ReportHeld, MailAccounted

-----------------------------------------------------------------------------
(* Success means that a mail was delivered.                                 *)

\* The job's mail was delivered, or its outcome was in doubt and a mail was
\* delivered that the search for its subject would find.
Findable(j) == \E k \in Jobs : <<j, k>> \in Alike /\ copies[k] # 0
MailFor(j) == copies[j] # 0 \/ (j \in doubt /\ Findable(j))
FiledDelivered  == \A j \in Jobs : filed[j] # 0 => copies[j] # 0
ReportedMailed  == \A p \in report : p.status = "succeeded" => MailFor(p.job)
SucceededMailed == \A j \in Jobs : Is(j, "succeeded") => MailFor(j)
MailInv == FiledDelivered /\ ReportedMailed /\ SucceededMailed

\* Mails are never unsent.
LEMMA MailsStay ==
    ASSUME Typed, [Next]_vars, NEW j \in Jobs, copies[j] # 0
    PROVE  copies'[j] # 0
<1>1. CASE copies'[j] = copies[j]
  BY <1>1
<1>2. CASE copies'[j] # copies[j]
  <2>1. (Sent \/ SendUnknown) /\ j = Current
    BY <1>2, OnlySends
  <2>2. Working /\ Delivered
    BY <1>2, <2>1 DEF Sent, SendUnknown, Working
  <2>3. copies' \in [Jobs -> 0 .. 2] /\ copies'[Current] > 0
    BY <2>2, DeliveredStep
  <2>4. QED
    BY <2>1, <2>3
<1>3. QED
  BY <1>1, <1>2

\* The search of the Sent folder that finds one mail has found a delivered one.
LEMMA OneFound ==
    ASSUME TypeOK, FiledDelivered, NEW j \in Jobs, OneMatch(Found(j))
    PROVE  Findable(j)
<1> DEFINE like == {k \in Jobs : <<j, k>> \in Alike /\ filed[k] > 0}
<1>1. \A k \in like : k \in Jobs /\ <<j, k>> \in Alike /\ copies[k] # 0
  BY DEF FiledDelivered, TypeOK
<1>2. Found(j) = IF \E k \in like : filed[k] = 2 THEN 2 ELSE Cardinality(like)
  BY DEF Found
<1>3. like # {}
  <2>1. Found(j) = 1
    BY DEF OneMatch
  <2>2. Cardinality(like) = 1
    BY <1>2, <2>1
  <2>3. Cardinality({}) = 0
    BY FS_EmptySet
  <2>4. ASSUME like = {} PROVE FALSE
    <3>1. Cardinality(like) = Cardinality({})
      BY <2>4
    <3>2. QED
      BY <2>2, <2>3, <3>1
  <2>5. QED
    BY <2>4
<1>4. QED
  BY <1>1, <1>3 DEF Findable

LEMMA MailStep == Typed /\ DoubtInv /\ MailInv /\ [Next]_vars => MailInv'
<1> SUFFICES ASSUME Typed, DoubtInv, MailInv, [Next]_vars PROVE MailInv'
  OBVIOUS
<1>t. /\ TypeOK /\ FiledDelivered /\ job \in [Jobs -> Row \cup {NoRow}]
      /\ filed \in [Jobs -> 0 .. 2] /\ copies \in [Jobs -> 0 .. 2]
  BY DEF Typed, TypeOK, MailInv
<1>d. doubt \subseteq doubt'
  BY DEF Next, Enqueue, Ripen, Lapse, LeaveWindow, ServeClaim, ClaimRecover, ClaimSelect, ClaimLease, ClaimAnswer,
         ClaimLost, Drain, StartClaim, ClaimTimeout, TakeAnswer, NotSent, Sent, SendUnknown, Reconcile, NextJob,
         Crash, ServeReport, ReportRead, ReportWrite, ReportLost, vars
<1>m. \A j \in Jobs : MailFor(j) => MailFor(j)'
  BY <1>d, MailsStay DEF MailFor, Findable
<1>1. FiledDelivered'
  <2> SUFFICES ASSUME NEW j \in Jobs, filed'[j] # 0, copies'[j] = 0 PROVE FALSE
    BY DEF FiledDelivered
  <2>1. copies[j] = 0 /\ filed[j] = 0
    BY <1>t, MailsStay DEF FiledDelivered
  <2>2. CASE Delivered /\ Working
    BY <1>t, <2>1, <2>2, DeliveredStep
  <2>3. CASE \E i \in Jobs : LeaveWindow(i)
    <3>1. PICK i \in Jobs : filed[i] > 0 /\ filed' = [filed EXCEPT ![i] = @ - 1]
      BY <2>3 DEF LeaveWindow
    <3>2. QED
      BY <1>t, <2>1, <3>1
  <2>4. CASE ~(Delivered /\ Working) /\ ~(\E i \in Jobs : LeaveWindow(i))
    <3>1. filed' = filed
      BY <2>4 DEF Next, Enqueue, Ripen, Lapse, ServeClaim, ClaimRecover, ClaimSelect, ClaimLease, ClaimAnswer,
                  ClaimLost, Drain, StartClaim, ClaimTimeout, TakeAnswer, NotSent, Sent, SendUnknown, Reconcile,
                  NextJob, Crash, ServeReport, ReportRead, ReportWrite, ReportLost, vars, Working
    <3>2. QED
      BY <2>1, <3>1
  <2>5. QED
    BY <2>2, <2>3, <2>4
<1>2. ReportedMailed'
  <2> SUFFICES ASSUME NEW n \in report', n.status = "succeeded" PROVE MailFor(n.job)'
    BY DEF ReportedMailed
  <2>1. CASE \E p \in report : p.job = n.job /\ p.status = n.status
    <3>1. MailFor(n.job) /\ n.job \in Jobs
      BY <1>t, <2>1, Kinds DEF MailInv, ReportedMailed
    <3>2. QED
      BY <1>m, <3>1
  <2>2. CASE ~(\E p \in report : p.job = n.job /\ p.status = n.status)
    <3>1. \A p \in report : ReportRead(p) => FALSE
      BY <1>t, <2>2, ReadEffect
    <3>2. report' # report /\ n \notin report
      BY <2>2
    <3>3. Sent \/ Reconcile \/ \E status \in {"failed", "unsupported", "retry"} : NotSent(status)
      BY <3>1, <3>2 DEF Next, Enqueue, Ripen, Lapse, LeaveWindow, ServeClaim, ClaimRecover, ClaimSelect, ClaimLease,
                        ClaimAnswer, ClaimLost, Drain, StartClaim, ClaimTimeout, TakeAnswer, SendUnknown, NextJob,
                        Crash, ServeReport, ReportWrite, ReportLost, vars
    <3>4. Working /\ Current \in Jobs
      <4>1. Working
        BY <3>3 DEF Sent, Reconcile, NotSent, Working
      <4>2. QED
        BY <4>1, AgentKinds
    <3>5. ASSUME NEW v \in Verdicts \cup {"retry"}, SendReport(v) PROVE n.job = Current /\ v = "succeeded"
      BY <2>2, <3>4, <3>5, SendReportEffect
    <3>6. CASE Sent
      <4>1. n.job = Current
        BY <3>5, <3>6 DEF Sent, Verdicts
      <4>2. copies' \in [Jobs -> 0 .. 2] /\ copies'[Current] > 0
        BY <3>4, <3>6, DeliveredStep DEF Sent
      <4>3. QED
        BY <3>4, <4>1, <4>2 DEF MailFor
    <3>7. CASE Reconcile
      <4>1. PICK v \in Verdicts \cup {"retry"} : SendReport(v) /\ (v = "succeeded" => OneMatch(Found(Current)))
        BY <3>7 DEF Reconcile, Verdicts
      <4>2. n.job = Current /\ OneMatch(Found(Current))
        BY <3>5, <4>1
      <4>3. MailFor(Current)
        <5>1. Findable(Current)
          BY <1>t, <3>4, <4>2, OneFound
        <5>2. Current \in doubt
          BY <3>7 DEF Reconcile, DoubtInv, UnknownDoubted
        <5>3. QED
          BY <5>1, <5>2 DEF MailFor
      <4>4. QED
        BY <1>m, <3>4, <4>2, <4>3
    <3>8. CASE \E status \in {"failed", "unsupported", "retry"} : NotSent(status)
      BY <3>5, <3>8 DEF NotSent, Verdicts
    <3>9. QED
      BY <3>3, <3>6, <3>7, <3>8
  <2>3. QED
    BY <2>1, <2>2
<1>3. SucceededMailed'
  <2> SUFFICES ASSUME NEW j \in Jobs, job'[j].status = "succeeded" PROVE MailFor(j)'
    BY DEF SucceededMailed, Is
  <2>1. CASE job[j].status = "succeeded"
    BY <1>m, <2>1 DEF MailInv, SucceededMailed, Is
  <2>2. CASE job[j].status # "succeeded"
    <3>1. ASSUME NEW p \in report, ReportWrite(p) PROVE MailFor(j)
      <4>1. j = p.job /\ p.status = "succeeded"
        BY <1>t, <2>2, <3>1, WriteEffect
      <4>2. QED
        BY <4>1 DEF MailInv, ReportedMailed
    <3>2. ASSUME NEW i \in Jobs, Enqueue(i) \/ Ripen(i) \/ Lapse(i) PROVE FALSE
      <4>1. CASE Enqueue(i)
        BY <1>t, <2>2, <4>1 DEF Enqueue
      <4>2. CASE Ripen(i) \/ Lapse(i)
        <5>1. job[i] \in Row
          BY <1>t, <4>2, Kinds DEF Ripen, Lapse, Is
        <5>2. \/ job' = [job EXCEPT ![i] = [job[i] EXCEPT !.due = TRUE]]
              \/ job' = [job EXCEPT ![i] = [job[i] EXCEPT !.live = FALSE]]
          BY <4>2 DEF Ripen, Lapse
        <5>3. job'[i].status = job[i].status
          BY <1>t, <5>1, <5>2 DEF Row
        <5>4. j # i => job'[j] = job[j]
          BY <1>t, <5>2
        <5>5. QED
          BY <2>2, <5>3, <5>4
      <4>3. QED
        BY <3>2, <4>1, <4>2
    <3>3. ASSUME NEW r \in Requests, ServeClaim(r) PROVE FALSE
      <4>1. \A row \in Row : Freed(row).status = "pending" /\ Leased(row, r[1]).status = "processing"
        BY DEF Freed, Leased, Row
      <4>2. CASE ClaimRecover(r)
        <5>1. Lapsed(job[j]) => job[j] \in Row
          BY <1>t, Kinds DEF Lapsed
        <5>2. QED
          BY <1>t, <2>2, <4>1, <4>2, <5>1, RecoverEffect
      <4>3. CASE ClaimLease(r)
        <5>1. Is(j, "pending") => job[j] \in Row
          BY <1>t, Kinds DEF Is
        <5>2. QED
          BY <1>t, <2>2, <4>1, <4>3, <5>1, LeaseEffect
      <4>4. CASE ClaimSelect(r) \/ ClaimAnswer(r)
        BY <2>2, <4>4 DEF ClaimSelect, ClaimAnswer
      <4>5. QED
        BY <3>3, <4>2, <4>3, <4>4 DEF ServeClaim
    <3>4. job' # job
      BY <2>2
    <3>5. \/ \E p \in report : ReportWrite(p)
          \/ \E i \in Jobs : Enqueue(i) \/ Ripen(i) \/ Lapse(i)
          \/ \E r \in Requests : ServeClaim(r)
      BY <3>4 DEF Next, LeaveWindow, ClaimLost, Drain, StartClaim, ClaimTimeout, TakeAnswer, NotSent, Sent,
                  SendUnknown, Reconcile, NextJob, Crash, ServeReport, ReportRead, ReportLost, vars
    <3>6. QED
      BY <1>m, <3>1, <3>2, <3>3, <3>5
  <2>3. QED
    BY <2>1, <2>2
<1>4. QED
  BY <1>1, <1>2, <1>3 DEF MailInv

LEMMA InitMail == Init => MailInv
  BY DEF Init, NoRow, Is, MailInv, FiledDelivered, ReportedMailed, SucceededMailed

-----------------------------------------------------------------------------
(* What every history of the queue satisfies.                               *)

\* A second mail for a job takes an outcome that a crash, a lost or late report
\* or a broken connection kept from the Worker, or a lease that ran out in use.
THEOREM ResentInDoubt == Spec => []ResentOnlyInDoubt
<1>1. DoubtInv => ResentOnlyInDoubt
  BY DEF DoubtInv, MailAccounted, ResentOnlyInDoubt
<1>2. QED
  BY <1>1, InitTyped, TypedStep, InitHold, HoldStep, InitDoubt, DoubtStep, PTL DEF Spec

\* While no lease runs out under the aggregator's hands, a settled job keeps its
\* verdict and is not sent again, whatever crashes, is lost or comes late.
THEOREM SettledOnce == ASSUME "lapse" \notin Faults PROVE Spec => SettledNeverResent
<1>1. Typed /\ HoldInv /\ [Next]_vars => [SettledStays]_vars
  BY SettledStep DEF SettledKept, SettledStays, Exempt
<1>2. QED
  BY <1>1, InitTyped, TypedStep, InitHold, HoldStep, PTL DEF Spec, SettledNeverResent

\* Whatever the leases do, a settled job keeps its verdict, and is sent again only
\* if its outcome was in doubt before.
SettledInDoubt == [][\A j \in Jobs : Settled(j) =>
    /\ Settled(j)' /\ job'[j].status = job[j].status
    /\ copies'[j] = copies[j] \/ j \in doubt]_vars
THEOREM SettledFinal == Spec => SettledInDoubt
<1>1. Typed /\ HoldInv /\ [Next]_vars =>
        [\A j \in Jobs : Settled(j) => /\ Settled(j)' /\ job'[j].status = job[j].status
                                       /\ copies'[j] = copies[j] \/ j \in doubt]_vars
  BY SettledStep DEF SettledKept, Exempt
<1>2. QED
  BY <1>1, InitTyped, TypedStep, InitHold, HoldStep, PTL DEF Spec, SettledInDoubt

\* A job reported succeeded was delivered, or its outcome was in doubt and a mail
\* was delivered that its search would find ...
THEOREM SuccessHasMail == Spec => []SucceededMeansDelivered
<1>1. Typed /\ MailInv => SucceededMeansDelivered
  <2> SUFFICES ASSUME Typed, MailInv, NEW j \in Jobs, Is(j, "succeeded")
               PROVE  \/ copies[j] > 0
                      \/ j \in doubt /\ \E k \in Jobs : <<j, k>> \in Alike /\ copies[k] > 0
    BY DEF SucceededMeansDelivered
  <2>1. MailFor(j)
    BY DEF MailInv, SucceededMailed
  <2>2. \A k \in Jobs : copies[k] # 0 => copies[k] > 0
    BY DEF Typed, TypeOK
  <2>3. QED
    BY <2>1, <2>2 DEF MailFor, Findable
<1>2. QED
  BY <1>1, InitTyped, TypedStep, InitHold, HoldStep, InitDoubt, DoubtStep, InitMail, MailStep, PTL DEF Spec

\* ... which is its own, if no other job's subject contains its subject.
THEOREM SuccessDelivered ==
    ASSUME \A j, k \in Jobs : <<j, k>> \in Alike => j = k
    PROVE  Spec => [](\A j \in Jobs : Is(j, "succeeded") => copies[j] > 0)
<1>1. SucceededMeansDelivered => \A j \in Jobs : Is(j, "succeeded") => copies[j] > 0
  BY DEF SucceededMeansDelivered
<1>2. QED
  BY <1>1, SuccessHasMail, PTL
=============================================================================
