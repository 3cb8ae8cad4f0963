------------------------ MODULE FleetRegistry_proofs ------------------------
(***************************************************************************)
(* The registry can always be read, a mailbox keeps its shard, commands    *)
(* apply once, samples are of the current hardware and placements fit, for *)
(* every fleet, every set of configurations and every bound.  The argument *)
(* for the first: a record that has an owner counts as a use of that       *)
(* shard, uses are never given back, and a configuration keeps the used    *)
(* shards; the published routes are among the mailboxes that mailbox_count *)
(* counts.  For the last: a budget is never less than what was allocated.  *)
(***************************************************************************)
EXTENDS FleetRegistry, FiniteSetTheorems, TLAPS

\* The mailboxes that mailbox_count counts: those not deleted, and those that
\* were imported while being deleted, whose route is still published.
Counted == {m \in Mailboxes : mbox[m].known /\ (mbox[m].deleted => routes[m] # NoShard)}

CountMatches == count = Cardinality(Counted)
CountFits    == config # NoConfig => count <= config.max
OwnersUsed   == \A m \in Mailboxes : mbox[m].known =>
    /\ config # NoConfig
    /\ mbox[m].deleted \/ mbox[m].owner # NoShard
    /\ mbox[m].owner # NoShard => usage[mbox[m].owner] > 0 /\ mbox[m].owner \in DOMAIN config.shard
RoutesOwned  == \A m \in Published : mbox[m].known /\ mbox[m].owner = routes[m]
ToldOwned    == \A x \in told : /\ x[1] \in Mailboxes /\ x[2] \in Shards
                                /\ mbox[x[1]].known /\ mbox[x[1]].owner = x[2]
Inv == TypeOK /\ CountMatches /\ CountFits /\ OwnersUsed /\ RoutesOwned /\ ToldOwned

\* What a body of each kind carries.
LEMMA Arguments ==
    ASSUME NEW body \in Bodies
    PROVE  /\ body.kind = "configure" => body.config \in Configs
           /\ body.kind = "import" => ValidBatch(body.batch)
           /\ body.kind = "allocate" => body.mailbox \in Mailboxes /\ body.user \in Users
           /\ body.kind = "confirm" => body.mailbox \in Mailboxes /\ body.op \in Keys /\ body.owner \in Shards
           /\ body.kind = "tombstone" => body.mailbox \in Mailboxes
           /\ body.kind = "metrics" => ValidReport(body)
<1>1. \A r \in Reports : r.kind = "metrics" /\ ValidReport(r)
  BY ConstantsAssumption DEF ValidReport
<1>2. \A b \in Batches : ValidBatch(b)
  BY ConstantsAssumption
<1>3. QED
  BY <1>1, <1>2 DEF Bodies

\* A configuration in force has shards of the fleet and is not the empty one.
LEMMA Configured ==
    /\ \A c \in Configs : c # NoConfig /\ DOMAIN c.shard \subseteq Shards /\ c.max \in Nat
    /\ \A c \in Configs : \A s \in DOMAIN c.shard : c.shard[s].account \in DOMAIN c.account
    /\ \A c \in Configs : DOMAIN c.account \subseteq Accounts
<1>1. \A c \in Configs : WellFormed(c)
  BY ConstantsAssumption
<1>2. \A c \in Configs : c.max \in Nat /\ c.max # 0
  BY <1>1 DEF WellFormed
<1>3. \A c \in Configs : c # NoConfig
  BY <1>2 DEF NoConfig
<1>4. QED
  BY <1>1, <1>2, <1>3 DEF WellFormed

LEMMA ConstantTypes ==
    /\ MaxEpoch \in Nat /\ MaxEpoch > 0 /\ Qualifying \in Nat /\ Qualifying > 0 /\ MaxNow \in Nat
    /\ IsFiniteSet(Mailboxes) /\ NoShard \notin Shards /\ NoKey \notin Keys
  BY ConstantsAssumption

\* A mailbox has a record of its kind or none.
LEMMA RecordKinds == ASSUME TypeOK PROVE \A m \in Mailboxes : mbox[m].known <=> mbox[m] \in Record
<1>1. \A r \in Record : r.known
  BY DEF Record
<1>2. ~NoRecord.known
  BY DEF NoRecord
<1>3. QED
  BY <1>1, <1>2 DEF TypeOK

LEMMA CountedFinite ==
    /\ IsFiniteSet(Counted) /\ Cardinality(Counted) \in Nat
    /\ IsFiniteSet(Published) /\ Cardinality(Published) \in Nat
  BY ConstantTypes, FS_Subset, FS_CardinalityType DEF Counted, Published

LEMMA InvInit == Init => Inv
<1> SUFFICES ASSUME Init PROVE Inv
  OBVIOUS
<1>1. \A m \in Mailboxes : ~mbox[m].known /\ routes[m] = NoShard
  BY DEF Init, NoRecord
<1>2. Counted = {} /\ Published = {}
  BY <1>1 DEF Counted, Published
<1>3. TypeOK
  BY ConstantTypes DEF Init, TypeOK, NoSeries
<1>4. QED
  BY <1>1, <1>2, <1>3, FS_EmptySet DEF Init, Inv, CountMatches, CountFits, OwnersUsed, RoutesOwned, ToldOwned

\* Configuring keeps the shards in use and room for the counted mailboxes.
LEMMA ConfigureStep ==
    ASSUME Inv, NEW body \in Bodies, Configure(body), rev' \in 0 .. MaxEpoch, now' \in Nat PROVE Inv'
<1> DEFINE c == body.config
<1>1. c \in Configs /\ c # NoConfig
  BY Arguments, Configured DEF Configure
<1>2. TypeOK'
  BY <1>1, ConstantTypes DEF Inv, TypeOK, Configure, NoSeries
<1>3. \A m \in Mailboxes : mbox[m].known /\ mbox[m].owner # NoShard => mbox[m].owner \in DOMAIN c.shard
  BY DEF Inv, OwnersUsed, Configure, KeepsUsed
<1>4. Counted' = Counted /\ Published' = Published
  BY DEF Configure, Counted, Published
<1>5. CountMatches' /\ CountFits' /\ RoutesOwned' /\ ToldOwned'
  BY <1>4 DEF Configure, Inv, CountMatches, CountFits, RoutesOwned, ToldOwned
<1>6. OwnersUsed'
  BY <1>1, <1>3 DEF Configure, Inv, OwnersUsed
<1>7. QED
  BY <1>2, <1>5, <1>6 DEF Inv

\* Counting samples stops at the number that qualifies.
LEMMA SampleCount ==
    ASSUME TypeOK, NEW a \in Accounts, NEW step
    PROVE  Samples(series[a], step) \in 0 .. Qualifying
<1>1. series[a].n \in 0 .. Qualifying
  BY DEF TypeOK
<1>2. OneMore(series[a].n) \in 0 .. Qualifying
  BY <1>1, ConstantTypes DEF OneMore
<1>3. QED
  BY <1>1, <1>2, ConstantTypes DEF Samples

LEMMA MetricsStep ==
    ASSUME Inv, NEW body \in Bodies, Metrics(body), rev' \in 0 .. MaxEpoch, now' \in Nat PROVE Inv'
<1> DEFINE a == body.account
<1>1. a \in Accounts
  BY Arguments DEF Metrics, ValidReport
<1>2. Samples(series[a], body.step) \in 0 .. Qualifying
  BY <1>1, SampleCount DEF Inv
<1>3. \A b \in Accounts : series'[b].n \in 0 .. Qualifying
  BY <1>1, <1>2 DEF Metrics, Inv, TypeOK
<1>4. TypeOK'
  BY <1>3 DEF Metrics, Inv, TypeOK
<1>5. Counted' = Counted /\ Published' = Published
  BY DEF Metrics, Counted, Published
<1>6. QED
  BY <1>4, <1>5 DEF Metrics, Inv, CountMatches, CountFits, OwnersUsed, RoutesOwned, ToldOwned

\* An import counts exactly the mailboxes it brings, none of which was known.
LEMMA ImportStep ==
    ASSUME Inv, NEW body \in Bodies, Import(body), rev' \in 0 .. MaxEpoch, now' \in Nat PROVE Inv'
<1> DEFINE b == body.batch
           M == DOMAIN b
<1>1. /\ M \subseteq Mailboxes
      /\ \A m \in M : /\ b[m].user \in Users /\ b[m].owner \in Shards
                      /\ b[m].epoch \in 0 .. MaxEpoch /\ b[m].deleting \in BOOLEAN
  BY Arguments DEF Import, ValidBatch
<1>2. \A m \in M : /\ ~mbox[m].known
                    /\ mbox'[m] = [known |-> TRUE, user |-> b[m].user, owner |-> b[m].owner, op |-> NoKey,
                                   routed |-> TRUE, deleted |-> b[m].deleting, epoch |-> b[m].epoch]
                    /\ routes'[m] = b[m].owner /\ b[m].owner # NoShard
                    /\ b[m].owner \in DOMAIN config.shard
  BY <1>1, ConstantTypes DEF Import
<1>3. \A m \in Mailboxes \ M : mbox'[m] = mbox[m] /\ routes'[m] = routes[m]
  BY DEF Import
<1>4. IsFiniteSet(M) /\ Cardinality(M) \in Nat
  BY <1>1, ConstantTypes, FS_Subset, FS_CardinalityType
<1>13. \A m \in M : mbox'[m].known /\ mbox'[m].owner = b[m].owner /\ routes'[m] # NoShard
  <2> SUFFICES ASSUME NEW m \in M
               PROVE  mbox'[m].known /\ mbox'[m].owner = b[m].owner /\ routes'[m] # NoShard
    OBVIOUS
  <2> DEFINE r == [known |-> TRUE, user |-> b[m].user, owner |-> b[m].owner, op |-> NoKey,
                   routed |-> TRUE, deleted |-> b[m].deleting, epoch |-> b[m].epoch]
  <2>1. mbox'[m] = r
    BY <1>2
  <2>2. r.known /\ r.owner = b[m].owner
    OBVIOUS
  <2>3. QED
    BY <1>2, <2>1, <2>2
<1>5. Counted' = Counted \cup M /\ Counted \cap M = {} /\ Published' = Published \cup M
  <2>1. \A m \in M : m \in Counted' /\ m \notin Counted /\ m \in Published'
    BY <1>1, <1>2, <1>13 DEF Counted, Published
  <2>2. \A m \in Mailboxes \ M : (m \in Counted' <=> m \in Counted) /\ (m \in Published' <=> m \in Published)
    BY <1>3 DEF Counted, Published
  <2>3. QED
    BY <1>1, <2>1, <2>2 DEF Counted, Published
<1>6. CountMatches'
  <2>1. Cardinality(Counted') = Cardinality(Counted) + Cardinality(M)
    <3>1. Cardinality(Counted \cup M) = Cardinality(Counted) + Cardinality(M) - Cardinality(Counted \cap M)
      BY <1>4, CountedFinite, FS_Union
    <3>2. Cardinality(Counted \cap M) = 0
      BY <1>5, FS_EmptySet
    <3>3. QED
      BY <1>4, <1>5, <3>1, <3>2, CountedFinite
  <2>2. QED
    BY <2>1 DEF Import, Inv, CountMatches
<1>7. \A s \in Shards : /\ usage'[s] \in Nat /\ usage'[s] >= usage[s]
                        /\ (\E m \in M : b[m].owner = s) => usage'[s] > 0
  <2> SUFFICES ASSUME NEW s \in Shards
               PROVE  /\ usage'[s] \in Nat /\ usage'[s] >= usage[s]
                      /\ (\E m \in M : b[m].owner = s) => usage'[s] > 0
    OBVIOUS
  <2> DEFINE O == Brought(b, s)
  <2>1. usage'[s] = usage[s] + Cardinality(O) /\ usage[s] \in Nat
    BY DEF Import, Inv, TypeOK
  <2>2. IsFiniteSet(O) /\ Cardinality(O) \in Nat
    BY <1>4, FS_Subset, FS_CardinalityType DEF Brought
  <2>3. (\E m \in M : b[m].owner = s) => O # {}
    BY DEF Brought
  <2>4. O # {} => Cardinality(O) > 0
    BY <2>2, FS_EmptySet
  <2>5. QED
    BY <2>1, <2>2, <2>3, <2>4
<1>8. TypeOK'
  <2>1. \A m \in M : mbox'[m] \in Record
    <3> SUFFICES ASSUME NEW m \in M PROVE mbox'[m] \in Record
      OBVIOUS
    <3>1. b[m].user \in Users /\ b[m].owner \in Shards /\ b[m].epoch \in 0 .. MaxEpoch /\ b[m].deleting \in BOOLEAN
      BY <1>1
    <3>2. mbox'[m] = [known |-> TRUE, user |-> b[m].user, owner |-> b[m].owner, op |-> NoKey,
                      routed |-> TRUE, deleted |-> b[m].deleting, epoch |-> b[m].epoch]
      BY <1>2
    <3>3. QED
      BY <3>1, <3>2 DEF Record
  <2>2. mbox' \in [Mailboxes -> Record \cup {NoRecord}]
    BY <1>3, <2>1 DEF Import, Inv, TypeOK
  <2>3. routes' \in [Mailboxes -> Shards \cup {NoShard}]
    BY <1>1, <1>2, <1>3 DEF Import, Inv, TypeOK
  <2>4. usage' \in [Shards -> Nat]
    <3>1. usage' = [s \in Shards |-> usage[s] + Cardinality(Brought(b, s))]
      BY DEF Import
    <3>2. \A s \in Shards : usage'[s] = usage[s] + Cardinality(Brought(b, s))
      BY <3>1
    <3>4. \A s \in Shards : usage[s] + Cardinality(Brought(b, s)) \in Nat
      BY <1>7, <3>2
    <3>3. QED
      BY <3>1, <3>4
  <2>5. affinity' \in [Users -> [Shards -> Nat]]
    <3> SUFFICES ASSUME NEW u \in Users, NEW s \in Shards
                 PROVE  affinity[u][s] + Cardinality({m \in Brought(b, s) : b[m].user = u}) \in Nat
      BY DEF Import
    <3>1. Cardinality({m \in Brought(b, s) : b[m].user = u}) \in Nat
      <4>1. {m \in Brought(b, s) : b[m].user = u} \subseteq M
        BY DEF Brought
      <4>2. QED
        BY <1>4, <4>1, FS_Subset, FS_CardinalityType
    <3>2. affinity[u][s] \in Nat
      BY DEF Inv, TypeOK
    <3>3. QED
      BY <3>1, <3>2
  <2>6. count' \in Nat
    BY <1>4 DEF Import, Inv, TypeOK
  <2>7. QED
    BY <2>2, <2>3, <2>4, <2>5, <2>6 DEF Import, load, Inv, TypeOK
<1>9. CountFits'
  BY DEF Import, Inv, CountFits
<1>10. OwnersUsed'
  <2>1. config' = config /\ config # NoConfig
    BY DEF Import
  <2>2. ASSUME NEW m \in M
        PROVE  /\ mbox'[m].owner # NoShard
               /\ usage'[mbox'[m].owner] > 0 /\ mbox'[m].owner \in DOMAIN config.shard
    <3>1. b[m].owner \in Shards /\ b[m].owner # NoShard /\ b[m].owner \in DOMAIN config.shard
      BY <1>1, <1>2
    <3>2. usage'[b[m].owner] > 0
      BY <1>7, <3>1
    <3>3. QED
      BY <1>13, <3>1, <3>2
  <2>3. ASSUME NEW m \in Mailboxes \ M, mbox'[m].known
        PROVE  /\ mbox'[m].deleted \/ mbox'[m].owner # NoShard
               /\ mbox'[m].owner # NoShard =>
                    usage'[mbox'[m].owner] > 0 /\ mbox'[m].owner \in DOMAIN config.shard
    <3>1. mbox[m].known /\ mbox[m] \in Record /\ mbox'[m] = mbox[m]
      BY <1>3, <2>3, RecordKinds DEF Inv
    <3>2. mbox[m].owner # NoShard => mbox[m].owner \in Shards /\ usage[mbox[m].owner] \in Nat
      BY <3>1 DEF Record, Inv, TypeOK
    <3>3. OwnersUsed
      BY DEF Inv
    <3>6. /\ mbox[m].deleted \/ mbox[m].owner # NoShard
          /\ mbox[m].owner # NoShard => usage[mbox[m].owner] > 0 /\ mbox[m].owner \in DOMAIN config.shard
      BY <3>1, <3>3, Zenon DEF OwnersUsed
    <3>4. mbox[m].owner # NoShard => usage'[mbox[m].owner] \in Nat /\ usage'[mbox[m].owner] >= usage[mbox[m].owner]
      BY <1>7, <3>2
    <3>5. QED
      BY <3>1, <3>2, <3>4, <3>6
  <2>4. QED
    BY <2>1, <2>2, <2>3 DEF OwnersUsed
<1>11. RoutesOwned' /\ ToldOwned'
  BY <1>1, <1>2, <1>3, <1>5 DEF Import, Inv, RoutesOwned, ToldOwned, Published
<1>12. QED
  BY <1>6, <1>8, <1>9, <1>10, <1>11 DEF Inv

\* A placement is a configured shard whose account is configured.
LEMMA PlacementConfigured ==
    ASSUME NEW fresh, NEW u, NEW s \in Placements(fresh, u)
    PROVE  s \in DOMAIN config.shard /\ Account(s) \in fresh
  BY DEF Placements, Candidates

LEMMA AllocateStep ==
    ASSUME Inv, NEW body \in Bodies, NEW key \in Keys, Allocate(body, key), rev' \in 0 .. MaxEpoch, now' \in Nat
    PROVE  Inv'
<1> DEFINE m == body.mailbox
<1>1. m \in Mailboxes /\ body.user \in Users
  BY Arguments DEF Allocate
<1>2. CASE Settled(m)
  <2>1. /\ told' = told \cup {<<m, mbox[m].owner>>}
        /\ UNCHANGED <<config, count, mbox, routes, usage, affinity, budget, bytes, series>>
    BY <1>2 DEF Allocate
  <2>2. mbox[m].known /\ ~mbox[m].deleted /\ mbox[m] \in Record
    BY <1>1, <1>2, RecordKinds DEF Allocate, Settled, Inv
  <2>3. mbox[m].owner # NoShard
    BY <1>1, <2>2, Zenon DEF Inv, OwnersUsed
  <2>4. mbox[m].owner \in Shards
    BY <2>2, <2>3 DEF Record
  <2>5. ToldOwned'
    BY <1>1, <2>1, <2>2, <2>4 DEF Inv, ToldOwned
  <2>6. TypeOK'
    BY <2>1 DEF Inv, TypeOK
  <2>7. Counted' = Counted /\ Published' = Published
    BY <2>1 DEF Counted, Published
  <2>8. QED
    BY <2>1, <2>5, <2>6, <2>7 DEF Inv, CountMatches, CountFits, OwnersUsed, RoutesOwned
<1>3. CASE ~Settled(m)
  <2>1. config # NoConfig /\ count < config.max /\ count' = count + 1 /\ UNCHANGED <<config, routes, series>>
    BY <1>3 DEF Allocate
  <2>2. PICK s \in DOMAIN config.shard :
        LET r == [known |-> TRUE, user |-> body.user, owner |-> s, op |-> key,
                  routed |-> FALSE, deleted |-> FALSE, epoch |-> 1] IN
        /\ mbox' = [mbox EXCEPT ![m] = r]
        /\ budget' = [budget EXCEPT ![Account(s)] = @ + 1]
        /\ bytes' = [bytes EXCEPT ![s] = @ + 1]
        /\ usage' = [usage EXCEPT ![s] = @ + 1]
        /\ affinity' = [affinity EXCEPT ![body.user][s] = @ + 1]
        /\ told' = told \cup {<<m, s>>}
    BY <1>3, PlacementConfigured DEF Allocate
  <2> DEFINE r == [known |-> TRUE, user |-> body.user, owner |-> s, op |-> key,
                   routed |-> FALSE, deleted |-> FALSE, epoch |-> 1]
  <2>3. s \in Shards /\ s # NoShard /\ Account(s) \in Accounts
    BY <2>1, Configured, ConstantTypes DEF Inv, TypeOK, Account
  <2>4. r.known /\ ~r.deleted /\ r.owner = s /\ r \in Record
    BY <1>1, <2>3, ConstantTypes DEF Record
  <2>5. /\ mbox'[m] = r
        /\ \A n \in Mailboxes \ {m} : mbox'[n] = mbox[n]
        /\ mbox' \in [Mailboxes -> Record \cup {NoRecord}]
    BY <1>1, <2>2, <2>4 DEF Inv, TypeOK
  <2>6. /\ usage' \in [Shards -> Nat] /\ usage'[s] > 0
        /\ \A t \in Shards : usage[t] > 0 => usage'[t] > 0
    BY <2>2, <2>3 DEF Inv, TypeOK
  <2>7. budget' \in [Accounts -> Nat] /\ bytes' \in [Shards -> Nat]
    BY <2>2, <2>3 DEF Inv, TypeOK
  <2>8. affinity' \in [Users -> [Shards -> Nat]]
    BY <1>1, <2>2, <2>3 DEF Inv, TypeOK
  <2>9. TypeOK'
    BY <2>1, <2>5, <2>6, <2>7, <2>8 DEF Inv, TypeOK
  <2>10. ~mbox[m].known
    BY <1>3 DEF Settled
  <2>11. Counted' = Counted \cup {m} /\ m \notin Counted /\ Published' = Published
    <3>1. m \in Counted' /\ m \notin Counted
      BY <1>1, <2>4, <2>5, <2>10 DEF Counted
    <3>2. \A n \in Mailboxes \ {m} : n \in Counted' <=> n \in Counted
      BY <2>1, <2>5 DEF Counted
    <3>3. QED
      BY <1>1, <2>1, <3>1, <3>2 DEF Counted, Published
  <2>12. CountMatches' /\ CountFits'
    <3>1. Cardinality(Counted') = Cardinality(Counted) + 1
      BY <2>11, CountedFinite, FS_AddElement
    <3>2. config \in Configs /\ config.max \in Nat /\ count \in Nat
      BY <2>1, Configured DEF Inv, TypeOK
    <3>3. QED
      BY <2>1, <3>1, <3>2 DEF Inv, CountMatches, CountFits
  <2>13. OwnersUsed'
    <3>1. ASSUME NEW n \in Mailboxes \ {m}, mbox'[n].known
          PROVE  /\ mbox'[n].deleted \/ mbox'[n].owner # NoShard
                 /\ mbox'[n].owner # NoShard =>
                      usage'[mbox'[n].owner] > 0 /\ mbox'[n].owner \in DOMAIN config.shard
      <4>1. mbox[n].known /\ mbox[n] \in Record /\ mbox'[n] = mbox[n]
        BY <2>5, <3>1, RecordKinds DEF Inv
      <4>2. mbox[n].owner # NoShard => mbox[n].owner \in Shards
        BY <4>1 DEF Record
      <4>3. /\ mbox[n].deleted \/ mbox[n].owner # NoShard
            /\ mbox[n].owner # NoShard => usage[mbox[n].owner] > 0 /\ mbox[n].owner \in DOMAIN config.shard
        BY <4>1, Zenon DEF Inv, OwnersUsed
      <4>4. QED
        BY <2>6, <4>1, <4>2, <4>3
    <3>2. /\ mbox'[m].owner = s /\ usage'[s] > 0 /\ s # NoShard
      BY <2>3, <2>4, <2>5, <2>6
    <3>3. QED
      BY <2>1, <3>1, <3>2 DEF OwnersUsed
  <2>14. \A n \in Mailboxes : mbox[n].known => n # m
    BY <2>10
  <2>15. RoutesOwned'
    BY <2>1, <2>5, <2>11, <2>14 DEF Inv, RoutesOwned, Published
  <2>16. ToldOwned'
    BY <1>1, <2>2, <2>3, <2>4, <2>5, <2>14 DEF Inv, ToldOwned
  <2>17. QED
    BY <2>9, <2>12, <2>13, <2>15, <2>16 DEF Inv
<1>4. QED
  BY <1>2, <1>3

LEMMA ConfirmStep ==
    ASSUME Inv, NEW body \in Bodies, Confirm(body), rev' \in 0 .. MaxEpoch, now' \in Nat PROVE Inv'
<1> DEFINE m == body.mailbox
<1>1. m \in Mailboxes /\ body.owner \in Shards /\ body.owner # NoShard
  BY Arguments, ConstantTypes DEF Confirm
<1>2. mbox[m].known /\ ~mbox[m].deleted /\ mbox[m] \in Record /\ mbox[m].owner = body.owner
  BY <1>1, RecordKinds DEF Confirm, Inv
<1>3. /\ mbox' = [mbox EXCEPT ![m].routed = TRUE]
      /\ routes' = [routes EXCEPT ![m] = body.owner]
      /\ told' = told \cup {<<m, body.owner>>}
      /\ UNCHANGED <<config, count, usage, affinity, series, budget, bytes>>
  BY <1>2 DEF Confirm, load
<1>4. [mbox[m] EXCEPT !.routed = TRUE] \in Record
  BY <1>2 DEF Record
<1>5. mbox' \in [Mailboxes -> Record \cup {NoRecord}]
  BY <1>1, <1>3, <1>4 DEF Inv, TypeOK
<1>6. \A n \in Mailboxes : /\ mbox'[n].known = mbox[n].known /\ mbox'[n].deleted = mbox[n].deleted
                            /\ mbox'[n].owner = mbox[n].owner
  BY <1>1, <1>3 DEF Inv, TypeOK
<1>7. routes'[m] = body.owner /\ \A n \in Mailboxes \ {m} : routes'[n] = routes[n]
  BY <1>1, <1>3 DEF Inv, TypeOK
<1>8. TypeOK'
  BY <1>1, <1>3, <1>5 DEF Inv, TypeOK
<1>9. Counted' = Counted
  BY <1>1, <1>2, <1>6, <1>7 DEF Counted
<1>10. CountMatches' /\ CountFits'
  BY <1>3, <1>9 DEF Inv, CountMatches, CountFits
<1>11. OwnersUsed'
  BY <1>3, <1>6 DEF Inv, OwnersUsed
<1>12. RoutesOwned' /\ ToldOwned'
  BY <1>1, <1>2, <1>3, <1>6, <1>7 DEF Inv, RoutesOwned, ToldOwned, Published
<1>13. QED
  BY <1>8, <1>10, <1>11, <1>12 DEF Inv

LEMMA TombstoneStep ==
    ASSUME Inv, NEW body \in Bodies, Tombstone(body), rev' \in 0 .. MaxEpoch, now' \in Nat PROVE Inv'
<1> DEFINE m == body.mailbox
<1>1. m \in Mailboxes
  BY Arguments DEF Tombstone
<1>2. config # NoConfig /\ UNCHANGED <<config, usage, series, budget, bytes, told>>
  BY DEF Tombstone, load
<1>3. CASE UNCHANGED <<count, mbox, routes, affinity>>
  <2>1. Counted' = Counted /\ Published' = Published
    BY <1>3 DEF Counted, Published
  <2>2. TypeOK'
    BY <1>2, <1>3 DEF Inv, TypeOK
  <2>3. QED
    BY <1>2, <1>3, <2>1, <2>2 DEF Inv, CountMatches, CountFits, OwnersUsed, RoutesOwned, ToldOwned
<1>4. CASE /\ mbox[m].known /\ ~mbox[m].deleted
           /\ mbox[m].epoch < MaxEpoch
           /\ mbox' = [mbox EXCEPT ![m].deleted = TRUE, ![m].epoch = @ + 1]
           /\ routes' = [routes EXCEPT ![m] = NoShard]
           /\ count' = count - 1
           /\ affinity' = [affinity EXCEPT ![mbox[m].user][mbox[m].owner] = IF @ = 0 THEN 0 ELSE @ - 1]
  <2>1. mbox[m] \in Record /\ mbox[m].epoch \in Nat
    <3>1. mbox[m] \in Record
      BY <1>1, <1>4, RecordKinds DEF Inv
    <3>2. \A x \in Record : x.epoch \in 0 .. MaxEpoch
      BY DEF Record
    <3>3. QED
      BY <3>1, <3>2, ConstantTypes
  <2> DEFINE r == [mbox[m] EXCEPT !.deleted = TRUE, !.epoch = @ + 1]
  <2>2. r \in Record /\ r.known /\ r.deleted /\ r.owner = mbox[m].owner
    <3>1. mbox[m].epoch + 1 \in 0 .. MaxEpoch
      BY <1>4, <2>1, ConstantTypes
    <3>2. r \in Record
      BY <2>1, <3>1 DEF Record
    <3>3. r.known
      BY <1>4, <2>1 DEF Record
    <3>4. r.deleted /\ r.owner = mbox[m].owner
      BY <2>1 DEF Record
    <3>5. QED
      BY <3>2, <3>3, <3>4
  <2>3. /\ mbox'[m] = r
        /\ \A n \in Mailboxes \ {m} : mbox'[n] = mbox[n] /\ routes'[n] = routes[n]
        /\ mbox' \in [Mailboxes -> Record \cup {NoRecord}]
        /\ routes'[m] = NoShard /\ routes' \in [Mailboxes -> Shards \cup {NoShard}]
    BY <1>1, <1>4, <2>2 DEF Inv, TypeOK
  <2>4. Counted' = Counted \ {m} /\ m \in Counted /\ Published' = Published \ {m}
    <3>1. m \notin Counted' /\ m \notin Published'
      BY <2>2, <2>3 DEF Counted, Published
    <3>2. \A n \in Mailboxes \ {m} : (n \in Counted' <=> n \in Counted) /\ (n \in Published' <=> n \in Published)
      BY <2>3 DEF Counted, Published
    <3>3. m \in Counted
      BY <1>1, <1>4 DEF Counted
    <3>4. QED
      BY <3>1, <3>2, <3>3 DEF Counted, Published
  <2>5. Cardinality(Counted') = Cardinality(Counted) - 1 /\ Cardinality(Counted') \in Nat
    BY <2>4, CountedFinite, FS_RemoveElement, FS_CardinalityType
  <2>6. CountMatches' /\ count' \in Nat
    BY <1>4, <2>5 DEF Inv, CountMatches
  <2>7. CountFits'
    <3>1. config \in Configs /\ config.max \in Nat /\ count \in Nat /\ count <= config.max
      BY <1>2, Configured DEF Inv, TypeOK, CountFits
    <3>2. QED
      BY <1>2, <1>4, <3>1 DEF CountFits
  <2>8. affinity' \in [Users -> [Shards -> Nat]]
    <3> DEFINE new == [affinity[mbox[m].user] EXCEPT ![mbox[m].owner] = IF @ = 0 THEN 0 ELSE @ - 1]
    <3>1. affinity' = [affinity EXCEPT ![mbox[m].user] = new] /\ affinity \in [Users -> [Shards -> Nat]]
      BY <1>4 DEF Inv, TypeOK
    <3>2. ASSUME mbox[m].user \in Users PROVE new \in [Shards -> Nat]
      <4>1. affinity[mbox[m].user] \in [Shards -> Nat]
        BY <3>1, <3>2
      <4>2. \A k \in Nat : (IF k = 0 THEN 0 ELSE k - 1) \in Nat
        OBVIOUS
      <4>3. QED
        BY <4>1, <4>2
    <3>3. QED
      BY <3>1, <3>2
  <2>9. TypeOK'
    BY <1>2, <2>3, <2>6, <2>8 DEF Inv, TypeOK
  <2>10. \A n \in Mailboxes : /\ mbox'[n].known => mbox[n].known
                              /\ mbox[n].known => mbox'[n].known
                              /\ mbox'[n].known => mbox'[n].owner = mbox[n].owner
                              /\ mbox[n].deleted => mbox'[n].deleted
    BY <1>4, <2>2, <2>3
  <2>11. OwnersUsed'
    BY <1>2, <2>10 DEF Inv, OwnersUsed
  <2>12. RoutesOwned' /\ ToldOwned'
    BY <1>2, <2>3, <2>4, <2>10 DEF Inv, RoutesOwned, ToldOwned, Published
  <2>13. QED
    BY <2>6, <2>7, <2>9, <2>11, <2>12 DEF Inv
<1>5. CASE /\ ~mbox[m].known
           /\ mbox' = [mbox EXCEPT ![m] = [known |-> TRUE, user |-> "deleted", owner |-> NoShard, op |-> NoKey,
                                            routed |-> FALSE, deleted |-> TRUE, epoch |-> 1]]
           /\ UNCHANGED <<count, routes, affinity>>
  <2> DEFINE r == [known |-> TRUE, user |-> "deleted", owner |-> NoShard, op |-> NoKey,
                   routed |-> FALSE, deleted |-> TRUE, epoch |-> 1]
  <2>1. r \in Record /\ r.known /\ r.deleted /\ r.owner = NoShard
    BY ConstantTypes DEF Record
  <2>2. /\ mbox'[m] = r
        /\ \A n \in Mailboxes \ {m} : mbox'[n] = mbox[n]
        /\ mbox' \in [Mailboxes -> Record \cup {NoRecord}]
    BY <1>1, <1>5, <2>1 DEF Inv, TypeOK
  <2>3. routes[m] = NoShard
    BY <1>1, <1>5 DEF Inv, RoutesOwned, Published
  <2>4. Counted' = Counted /\ Published' = Published
    <3>1. m \notin Counted' /\ m \notin Counted
      BY <1>5, <2>1, <2>2, <2>3 DEF Counted
    <3>2. \A n \in Mailboxes \ {m} : n \in Counted' <=> n \in Counted
      BY <1>5, <2>2 DEF Counted
    <3>3. QED
      BY <1>5, <3>1, <3>2 DEF Counted, Published
  <2>5. TypeOK'
    BY <1>2, <1>5, <2>2 DEF Inv, TypeOK
  <2>6. OwnersUsed'
    BY <1>2, <2>1, <2>2 DEF Inv, OwnersUsed
  <2>7. \A n \in Mailboxes : mbox[n].known => n # m
    BY <1>5
  <2>8. RoutesOwned' /\ ToldOwned'
    BY <1>2, <1>5, <2>2, <2>4, <2>7 DEF Inv, RoutesOwned, ToldOwned, Published
  <2>9. CountMatches' /\ CountFits'
    BY <1>2, <1>5, <2>4 DEF Inv, CountMatches, CountFits
  <2>10. QED
    BY <2>5, <2>6, <2>8, <2>9 DEF Inv
<1>6. QED
  BY <1>3, <1>4, <1>5 DEF Tombstone

\* Accepting a command leaves the revision in range.
LEMMA Accepted ==
    ASSUME TypeOK, NEW cmd \in Commands, Accept(cmd)
    PROVE  rev' \in 0 .. MaxEpoch /\ now' \in Nat /\ cmd.body \in Bodies /\ cmd.key \in Keys
  BY ConstantTypes DEF TypeOK, Accept, Commands

LEMMA InvNext == Inv /\ [Next]_vars => Inv'
<1> SUFFICES ASSUME Inv, [Next]_vars PROVE Inv'
  OBVIOUS
<1>1. ASSUME NEW cmd \in Commands, Accept(cmd),
             \/ Configure(cmd.body) \/ Metrics(cmd.body) \/ Import(cmd.body)
             \/ Allocate(cmd.body, cmd.key) \/ Confirm(cmd.body) \/ Tombstone(cmd.body)
      PROVE  Inv'
  <2>1. rev' \in 0 .. MaxEpoch /\ now' \in Nat /\ cmd.body \in Bodies /\ cmd.key \in Keys
    BY <1>1, Accepted DEF Inv
  <2>2. QED
    BY <1>1, <2>1, ConfigureStep, MetricsStep, ImportStep, AllocateStep, ConfirmStep, TombstoneStep
<1>2. ASSUME Tick \/ UNCHANGED vars PROVE Inv'
  <2>1. now' \in Nat /\ UNCHANGED <<rev, config, count, mbox, routes, usage, affinity, series, budget, bytes, told>>
    BY <1>2, ConstantTypes DEF Tick, vars, meta, load, Inv, TypeOK
  <2>2. Counted' = Counted /\ Published' = Published
    BY <2>1 DEF Counted, Published
  <2>3. QED
    BY <2>1, <2>2 DEF Inv, TypeOK, CountMatches, CountFits, OwnersUsed, RoutesOwned, ToldOwned
<1>3. QED
  BY <1>1, <1>2 DEF Next

\* The types hold in every reachable state of every fleet.
THEOREM TypeCorrect == Spec => []TypeOK
<1>1. Inv => TypeOK
  BY DEF Inv
<1>2. QED
  BY InvInit, InvNext, <1>1, PTL DEF Spec

\* Reads can always be served: live owners and published routes are configured
\* and the routes fit the configured maximum.
THEOREM AlwaysServable == Spec => []Servable
<1>1. Inv => Servable
  <2> SUFFICES ASSUME Inv, config # NoConfig
               PROVE  /\ \A m \in Mailboxes : mbox[m].known /\ ~mbox[m].deleted => mbox[m].owner \in DOMAIN config.shard
                      /\ \A m \in Published : routes[m] \in DOMAIN config.shard
                      /\ Cardinality(Published) <= config.max
    BY DEF Servable
  <2>1. \A m \in Mailboxes : mbox[m].known /\ ~mbox[m].deleted => mbox[m].owner \in DOMAIN config.shard
    BY DEF Inv, OwnersUsed
  <2>2. \A m \in Published : m \in Mailboxes /\ mbox[m].known /\ mbox[m].owner = routes[m] /\ routes[m] # NoShard
    BY DEF Inv, RoutesOwned, Published
  <2>3. \A m \in Published : routes[m] \in DOMAIN config.shard
    BY <2>2 DEF Inv, OwnersUsed
  <2>4. Published \subseteq Counted
    BY <2>2 DEF Counted
  <2>5. Cardinality(Published) <= Cardinality(Counted)
    BY <2>4, CountedFinite, FS_Subset
  <2>6. config.max \in Nat
    BY Configured DEF Inv, TypeOK
  <2>7. QED
    BY <2>1, <2>3, <2>5, <2>6, CountedFinite DEF Inv, CountMatches, CountFits
<1>2. QED
  BY InvInit, InvNext, <1>1, PTL DEF Spec

\* No answer and no published route ever names a second shard for a mailbox.
THEOREM OneOwner == Spec => []OneOwnerTold
<1>1. Inv => OneOwnerTold
  BY DEF Inv, OneOwnerTold, ToldOwned, RoutesOwned
<1>2. QED
  BY InvInit, InvNext, <1>1, PTL DEF Spec
-----------------------------------------------------------------------------
\* The revision at which a command applied is the one after the one it names.
DoneNext == \A x \in done : x \in [cmd : Commands, rev : Nat] /\ x.rev = x.cmd.rev + 1

LEMMA DoneNextStep == DoneNext /\ [Next]_vars => DoneNext'
<1> SUFFICES ASSUME DoneNext, [Next]_vars PROVE DoneNext'
  OBVIOUS
<1>1. ASSUME NEW cmd \in Commands, Accept(cmd) PROVE DoneNext'
  <2>1. cmd.rev = rev /\ cmd.rev \in Nat /\ done' = done \cup {[cmd |-> cmd, rev |-> rev + 1]}
    BY <1>1, ConstantTypes DEF Accept, Current, Commands
  <2>2. QED
    BY <2>1 DEF DoneNext
<1>2. ASSUME Tick \/ UNCHANGED vars PROVE DoneNext'
  BY <1>2 DEF DoneNext, Tick, vars
<1>3. QED
  BY <1>1, <1>2 DEF Next

\* A command takes effect at most once, with or without its receipt.
THEOREM OnceApplied == Spec => []AppliedOnce
<1>1. Init => DoneNext
  BY DEF Init, DoneNext
<1>2. DoneNext => AppliedOnce
  BY DEF DoneNext, AppliedOnce
<1>3. QED
  BY <1>1, <1>2, DoneNextStep, PTL DEF Spec
-----------------------------------------------------------------------------
SamplesInv == SamplesMeasureCurrent /\ \A a \in Accounts : series[a].n = 0 => series[a].on = {}

LEMMA SamplesStep == TypeOK /\ SamplesInv /\ [Next]_vars => SamplesInv'
<1> SUFFICES ASSUME TypeOK, SamplesInv, [Next]_vars PROVE SamplesInv'
  OBVIOUS
<1>1. ASSUME NEW body \in Bodies, Configure(body) PROVE SamplesInv'
  <2> DEFINE c == body.config
  <2>1. c # NoConfig /\ config' = c
    BY <1>1, Arguments, Configured DEF Configure
  <2> SUFFICES ASSUME NEW a \in Accounts
               PROVE  /\ series'[a].n > 0 => /\ a \in DOMAIN c.account
                                              /\ series'[a].on = {Physical(c, a)}
                      /\ series'[a].n = 0 => series'[a].on = {}
    BY <2>1 DEF SamplesInv, SamplesMeasureCurrent, Physical, Owned
  <2>2. CASE config # NoConfig /\ a \notin Invalidated(c)
    <3>1. series'[a] = series[a] /\ Same(c, a)
      BY <1>1, <2>2 DEF Configure, Invalidated
    <3>2. QED
      BY <2>2, <3>1 DEF SamplesInv, SamplesMeasureCurrent, Same
  <2>3. CASE ~(config # NoConfig /\ a \notin Invalidated(c))
    BY <1>1, <2>3 DEF Configure, NoSeries
  <2>4. QED
    BY <2>2, <2>3
<1>2. ASSUME NEW body \in Bodies, Metrics(body) PROVE SamplesInv'
  <2> DEFINE a == body.account
             n == Samples(series[a], body.step)
  <2>1. a \in Accounts /\ a \in DOMAIN config.account /\ config # NoConfig /\ config' = config
    BY <1>2, Arguments DEF Metrics, ValidReport
  <2>2. /\ series'[a].n = n
        /\ series'[a].on = IF n = 0 THEN {} ELSE series[a].on \cup {Physical(config, a)}
        /\ \A b \in Accounts \ {a} : series'[b] = series[b]
    BY <1>2, <2>1 DEF Metrics, TypeOK
  <2>3. series[a].on \in {{}, {Physical(config, a)}}
    BY <2>1 DEF SamplesInv, SamplesMeasureCurrent, TypeOK
  <2>4. n \in Nat
    BY <2>1, SampleCount
  <2>5. /\ series'[a].n > 0 => series'[a].on = {Physical(config, a)}
        /\ series'[a].n = 0 => series'[a].on = {}
    BY <2>2, <2>3, <2>4
  <2>6. \A b \in Accounts : Physical(config, b)' = Physical(config, b)
    BY <2>1 DEF Physical, Owned
  <2>7. QED
    BY <2>1, <2>2, <2>5, <2>6 DEF SamplesInv, SamplesMeasureCurrent
<1>3. ASSUME UNCHANGED <<config, series>> PROVE SamplesInv'
  <2>1. \A b \in Accounts : Physical(config, b)' = Physical(config, b)
    BY <1>3 DEF Physical, Owned
  <2>2. QED
    BY <1>3, <2>1 DEF SamplesInv, SamplesMeasureCurrent
<1>4. ASSUME NEW cmd \in Commands, Accept(cmd),
             \/ Configure(cmd.body) \/ Metrics(cmd.body) \/ Import(cmd.body)
             \/ Allocate(cmd.body, cmd.key) \/ Confirm(cmd.body) \/ Tombstone(cmd.body)
      PROVE  SamplesInv'
  <2>1. cmd.body \in Bodies
    BY <1>4, Accepted
  <2>2. QED
    BY <1>1, <1>2, <1>3, <1>4, <2>1 DEF Import, Allocate, Confirm, Tombstone, load
<1>5. QED
  BY <1>3, <1>4 DEF Next, Tick, vars, meta, load

\* Every counted sample was taken of the hardware configured now.
THEOREM CurrentSamples == Spec => []SamplesMeasureCurrent
<1>1. Init => SamplesInv
  BY DEF Init, NoSeries, SamplesInv, SamplesMeasureCurrent
<1>2. SamplesInv => SamplesMeasureCurrent
  BY DEF SamplesInv
<1>3. QED
  BY <1>1, <1>2, SamplesStep, TypeCorrect, PTL DEF Spec
-----------------------------------------------------------------------------
\* The reservations: every mailbox that was ever allocated on the shards of an
\* account has a unit of that account's budget, and nothing gives it back.
AllocatedOwned == \A m \in Mailboxes : mbox[m].known /\ mbox[m].op # NoKey => mbox[m].owner # NoShard
SeriesTyped    == \A a \in Accounts : /\ series[a].load \in Nat
                                      /\ \A s \in DOMAIN series[a].sizes : series[a].sizes[s] \in Nat
BudgetCovers   == \A a \in Accounts : Cardinality(Allocated(a)) <= budget[a]
BudgetInv == AllocatedOwned /\ SeriesTyped /\ BudgetCovers

LEMMA AllocatedFinite ==
    ASSUME NEW a PROVE IsFiniteSet(Allocated(a)) /\ Cardinality(Allocated(a)) \in Nat
  BY ConstantTypes, FS_Subset, FS_CardinalityType DEF Allocated

\* What an allocated mailbox is owned by: a configured shard that is in use.
LEMMA AllocatedUsed ==
    ASSUME Inv, AllocatedOwned, NEW m \in Mailboxes, mbox[m].known, mbox[m].op # NoKey
    PROVE  /\ config \in Configs /\ config # NoConfig
           /\ mbox[m].owner \in Shards /\ mbox[m].owner \in DOMAIN config.shard
           /\ usage[mbox[m].owner] > 0
<1>1. mbox[m] \in Record /\ mbox[m].owner # NoShard
  BY RecordKinds DEF Inv, AllocatedOwned
<1>2. mbox[m].owner \in Shards
  BY <1>1 DEF Record
<1>3. config # NoConfig /\ usage[mbox[m].owner] > 0 /\ mbox[m].owner \in DOMAIN config.shard
  BY <1>1, Zenon DEF Inv, OwnersUsed
<1>4. QED
  BY <1>2, <1>3 DEF Inv, TypeOK

\* A step that allocates no mailbox and moves no used shard to another account
\* leaves every account the mailboxes it had.
LEMMA SameAllocated ==
    ASSUME Inv, AllocatedOwned, budget' = budget, BudgetCovers,
           \A m \in Mailboxes : \/ mbox'[m] = mbox[m]
                                \/ ~mbox[m].known /\ (mbox'[m].known => mbox'[m].op = NoKey)
                                \/ mbox'[m].known = mbox[m].known /\ mbox'[m].op = mbox[m].op
                                     /\ mbox'[m].owner = mbox[m].owner,
           \A s \in Shards : config # NoConfig /\ s \in DOMAIN config.shard /\ usage[s] > 0 => Account(s)' = Account(s)
    PROVE  AllocatedOwned' /\ BudgetCovers'
<1>1. \A m \in Mailboxes : mbox'[m].known /\ mbox'[m].op # NoKey =>
        mbox[m].known /\ mbox[m].op # NoKey /\ mbox'[m].owner = mbox[m].owner
  OBVIOUS
<1>2. AllocatedOwned'
  BY <1>1 DEF AllocatedOwned
<1>3. ASSUME NEW a \in Accounts PROVE Cardinality(Allocated(a)') <= budget'[a]
  <2>1. Allocated(a)' \subseteq Allocated(a)
    <3> SUFFICES ASSUME NEW m \in Mailboxes, mbox'[m].known, mbox'[m].op # NoKey,
                        config'.shard[mbox'[m].owner].account = a
                 PROVE  mbox[m].known /\ mbox[m].op # NoKey /\ Account(mbox[m].owner) = a
      BY DEF Allocated, Account
    <3>1. mbox[m].known /\ mbox[m].op # NoKey /\ mbox'[m].owner = mbox[m].owner
      BY <1>1
    <3>2. config'.shard[mbox[m].owner].account = Account(mbox[m].owner)
      BY <3>1, AllocatedUsed DEF Account
    <3>3. QED
      BY <3>1, <3>2 DEF Account
  <2>2. Cardinality(Allocated(a)') <= Cardinality(Allocated(a)) /\ Cardinality(Allocated(a)') \in Nat
    BY <2>1, AllocatedFinite, FS_Subset, FS_CardinalityType
  <2>3. Cardinality(Allocated(a)) <= budget[a] /\ budget[a] \in Nat
    BY DEF BudgetCovers, Inv, TypeOK
  <2>4. QED
    BY <2>2, <2>3, AllocatedFinite
<1>4. QED
  BY <1>2, <1>3 DEF BudgetCovers

\* A placement has room for one more mailbox on top of the budget of its account.
LEMMA PlacementHasRoom ==
    ASSUME Inv, SeriesTyped, config # NoConfig, NEW fresh, NEW u, NEW s \in Placements(fresh, u)
    PROVE  /\ Account(s) \in Accounts
           /\ 10 * (budget[Account(s)] + 1) < 7 * config.account[Account(s)].limit
<1> DEFINE a == Account(s)
           l == config.account[a].limit
<1>1. s \in DOMAIN config.shard /\ s \in DOMAIN series[a].sizes /\ Used(s) * 10 < Limit(s) * 7
  BY DEF Placements, Candidates
<1>2. config \in Configs /\ WellFormed(config)
  BY ConstantsAssumption DEF Inv, TypeOK
<1>3. a \in DOMAIN config.account /\ a \in Accounts /\ s \in Shards
  BY <1>1, <1>2, Configured DEF Account
<1>4. l \in Nat
  BY <1>2, <1>3 DEF WellFormed
<1>5. series[a].load \in Nat /\ series[a].sizes[s] \in Nat /\ budget[a] \in Nat /\ bytes[s] \in Nat
  BY <1>1, <1>3 DEF SeriesTyped, Inv, TypeOK
<1>6. Used(s) \in Nat /\ Used(s) >= budget[a] + 1
  BY <1>5 DEF Used, Greater
<1>7. 10 * (budget[a] + 1) <= Used(s) * 10
  BY <1>5, <1>6
<1>8. QED
  BY <1>1, <1>3, <1>4, <1>5, <1>6, <1>7 DEF Limit

\* Allocating a new mailbox takes the unit of budget that it uses, and fits.
LEMMA AllocateFits ==
    ASSUME Inv, BudgetInv, NEW body \in Bodies, NEW key \in Keys, Allocate(body, key), ~Settled(body.mailbox)
    PROVE  BudgetInv' /\ PlacedBelow
<1> DEFINE m == body.mailbox
<1>1. m \in Mailboxes /\ config # NoConfig /\ UNCHANGED <<config, series>> /\ ~mbox[m].known
  BY Arguments DEF Allocate, Settled
<1> DEFINE Placed(s) ==
        /\ mbox' = [mbox EXCEPT ![m] = [known |-> TRUE, user |-> body.user, owner |-> s, op |-> key,
                                         routed |-> FALSE, deleted |-> FALSE, epoch |-> 1]]
        /\ budget' = [budget EXCEPT ![Account(s)] = @ + 1]
<1>14. PICK fresh \in SUBSET DOMAIN config.account : \E s \in Placements(fresh, body.user) : Placed(s)
  BY DEF Allocate
<1>2. PICK s \in Placements(fresh, body.user) : Placed(s)
  BY <1>14
<1> DEFINE b == Account(s)
<1>3. b \in Accounts /\ 10 * (budget[b] + 1) < 7 * config.account[b].limit
  BY <1>1, <1>2, PlacementHasRoom DEF BudgetInv
<1>4. s \in Shards /\ s # NoShard
  <2>1. s \in DOMAIN config.shard
    BY <1>2, PlacementConfigured
  <2>2. QED
    BY <1>1, <2>1, Configured, ConstantTypes DEF Inv, TypeOK
<1>5. /\ mbox'[m].known /\ mbox'[m].op = key /\ mbox'[m].owner = s
      /\ \A n \in Mailboxes \ {m} : mbox'[n] = mbox[n]
  BY <1>1, <1>2 DEF Inv, TypeOK
<1>6. AllocatedOwned'
  BY <1>4, <1>5 DEF BudgetInv, AllocatedOwned
<1>7. SeriesTyped'
  BY <1>1 DEF BudgetInv, SeriesTyped
<1>8. \A a \in Accounts : Allocated(a)' \subseteq Allocated(a) \cup {m}
  BY <1>1, <1>5 DEF Allocated, Account
<1>9. \A a \in Accounts : a # b => Allocated(a)' \subseteq Allocated(a)
  BY <1>1, <1>5 DEF Allocated, Account
<1>10. \A a \in Accounts : /\ Cardinality(Allocated(a)) <= budget[a] /\ budget[a] \in Nat
                           /\ budget'[a] = IF a = b THEN budget[a] + 1 ELSE budget[a]
  BY <1>2, <1>3 DEF BudgetInv, BudgetCovers, Inv, TypeOK
<1>11. ASSUME NEW a \in Accounts PROVE Cardinality(Allocated(a)') <= budget'[a] /\ Cardinality(Allocated(a)') \in Nat
  <2>1. CASE a = b
    <3>1. m \notin Allocated(a)
      BY <1>1 DEF Allocated
    <3>2. IsFiniteSet(Allocated(a) \cup {m}) /\ Cardinality(Allocated(a) \cup {m}) = Cardinality(Allocated(a)) + 1
      BY <3>1, AllocatedFinite, FS_AddElement
    <3>3. Cardinality(Allocated(a)') <= Cardinality(Allocated(a)) + 1 /\ Cardinality(Allocated(a)') \in Nat
      BY <1>8, <3>2, FS_Subset, FS_CardinalityType
    <3>4. QED
      BY <1>10, <2>1, <3>3, AllocatedFinite
  <2>2. CASE a # b
    <3>1. Cardinality(Allocated(a)') <= Cardinality(Allocated(a)) /\ Cardinality(Allocated(a)') \in Nat
      BY <1>9, <2>2, AllocatedFinite, FS_Subset, FS_CardinalityType
    <3>2. QED
      BY <1>10, <2>2, <3>1, AllocatedFinite
  <2>3. QED
    BY <2>1, <2>2
<1>12. BudgetCovers'
  BY <1>11 DEF BudgetCovers
<1>13. PlacedBelow
  <2> SUFFICES ASSUME NEW n \in Mailboxes, NEW a \in Accounts, mbox'[n].known, ~mbox[n].known,
                      Account(mbox'[n].owner) = a
               PROVE  10 * Cardinality(Allocated(a)') < 7 * config.account[a].limit
    BY DEF PlacedBelow
  <2>1. n = m /\ a = b
    BY <1>5
  <2>2. Cardinality(Allocated(a)') <= budget[a] + 1 /\ Cardinality(Allocated(a)') \in Nat /\ budget[a] \in Nat
    BY <1>10, <1>11, <2>1
  <2>3. config.account[b].limit \in Nat
    <3>1. WellFormed(config) /\ config \in Configs
      BY <1>1, ConstantsAssumption DEF Inv, TypeOK
    <3>2. s \in DOMAIN config.shard
      BY <1>2, PlacementConfigured
    <3>3. b \in DOMAIN config.account
      BY <3>1, <3>2, Configured DEF Account
    <3>4. QED
      BY <3>1, <3>3 DEF WellFormed
  <2>4. QED
    BY <1>3, <2>1, <2>2, <2>3
<1>15. QED
  BY <1>6, <1>7, <1>12, <1>13 DEF BudgetInv

\* A configuration leaves the shards in use on their accounts.
LEMMA ConfigureKeepsAccounts ==
    ASSUME Inv, NEW body \in Bodies, Configure(body), NEW s \in Shards,
           config # NoConfig, s \in DOMAIN config.shard, usage[s] > 0
    PROVE  Account(s)' = Account(s)
<1> DEFINE c == body.config
<1>1. config' = c /\ s \in DOMAIN c.shard /\ c.shard[s] = [config.shard[s] EXCEPT !.open = c.shard[s].open]
  BY DEF Configure, KeepsUsed
<1>2. config.shard[s] \in [account : DOMAIN config.account, database : Nat, url : Nat, open : BOOLEAN]
  <2>1. config \in Configs /\ WellFormed(config)
    BY ConstantsAssumption DEF Inv, TypeOK
  <2>2. QED
    BY <2>1 DEF WellFormed
<1>3. c.shard[s].account = config.shard[s].account
  BY <1>1, <1>2
<1>4. QED
  BY <1>1, <1>3 DEF Account

LEMMA BudgetStep == Inv /\ BudgetInv /\ [Next]_vars => BudgetInv' /\ (PlacedBelow \/ UNCHANGED vars)
<1> SUFFICES ASSUME Inv, BudgetInv, [Next]_vars PROVE BudgetInv' /\ (PlacedBelow \/ UNCHANGED vars)
  OBVIOUS
<1> USE DEF BudgetInv
<1>1. ASSUME NEW body \in Bodies, Configure(body) PROVE BudgetInv' /\ PlacedBelow
  <2>1. mbox' = mbox /\ budget' = budget
    BY <1>1 DEF Configure
  <2>2. AllocatedOwned' /\ BudgetCovers'
    BY <1>1, <2>1, SameAllocated, ConfigureKeepsAccounts
  <2>3. SeriesTyped'
    BY <1>1 DEF SeriesTyped, Configure, NoSeries
  <2>4. QED
    BY <2>1, <2>2, <2>3 DEF PlacedBelow
<1>2. ASSUME NEW body \in Bodies, Metrics(body) PROVE BudgetInv' /\ PlacedBelow
  <2>1. mbox' = mbox /\ budget' = budget /\ config' = config
    BY <1>2 DEF Metrics
  <2>2. AllocatedOwned' /\ BudgetCovers'
    BY <2>1, SameAllocated DEF Account
  <2>3. body.account \in Accounts /\ body.load \in Nat /\ body.sizes \in [DOMAIN body.sizes -> Nat]
    BY <1>2, Arguments DEF Metrics, ValidReport
  <2>4. SeriesTyped'
    BY <1>2, <2>3 DEF SeriesTyped, Metrics, Inv, TypeOK
  <2>5. QED
    BY <2>1, <2>2, <2>4 DEF PlacedBelow
<1>3. ASSUME NEW body \in Bodies, Import(body) PROVE BudgetInv' /\ PlacedBelow
  <2>1. budget' = budget /\ config' = config /\ series' = series
    BY <1>3 DEF Import, load
  <2>2. DOMAIN body.batch \subseteq Mailboxes
    BY <1>3, Arguments DEF Import, ValidBatch
  <2>3. \A m \in Mailboxes : \/ mbox'[m] = mbox[m]
                             \/ ~mbox[m].known /\ mbox'[m].op = NoKey
    BY <1>3, <2>2 DEF Import
  <2>4. AllocatedOwned' /\ BudgetCovers'
    BY <2>1, <2>3, SameAllocated DEF Account
  <2>5. QED
    BY <2>1, <2>3, <2>4 DEF PlacedBelow, SeriesTyped
<1>4. ASSUME NEW body \in Bodies, NEW key \in Keys, Allocate(body, key) PROVE BudgetInv' /\ PlacedBelow
  <2>1. CASE Settled(body.mailbox)
    <3>1. UNCHANGED <<mbox, budget, config, series>>
      BY <1>4, <2>1 DEF Allocate
    <3>2. AllocatedOwned' /\ BudgetCovers'
      BY <3>1, SameAllocated DEF Account
    <3>3. QED
      BY <3>1, <3>2 DEF PlacedBelow, SeriesTyped
  <2>2. QED
    BY <1>4, <2>1, AllocateFits
<1>5. ASSUME NEW body \in Bodies, Confirm(body) PROVE BudgetInv' /\ PlacedBelow
  <2>1. budget' = budget /\ config' = config /\ series' = series
    BY <1>5 DEF Confirm, load
  <2>2. body.mailbox \in Mailboxes /\ mbox[body.mailbox].known
    BY <1>5, Arguments DEF Confirm
  <2>3. \A m \in Mailboxes : mbox'[m].known = mbox[m].known /\ mbox'[m].op = mbox[m].op
                               /\ mbox'[m].owner = mbox[m].owner
    BY <1>5, <2>2 DEF Confirm, Inv, TypeOK
  <2>4. AllocatedOwned' /\ BudgetCovers'
    BY <2>1, <2>3, SameAllocated DEF Account
  <2>5. QED
    BY <2>1, <2>3, <2>4 DEF PlacedBelow, SeriesTyped
<1>6. ASSUME NEW body \in Bodies, Tombstone(body) PROVE BudgetInv' /\ PlacedBelow
  <2>1. budget' = budget /\ config' = config /\ series' = series
    BY <1>6 DEF Tombstone, load
  <2>2. body.mailbox \in Mailboxes
    BY <1>6, Arguments DEF Tombstone
  <2>3. \A m \in Mailboxes : \/ mbox'[m] = mbox[m]
                             \/ ~mbox[m].known /\ mbox'[m].op = NoKey
                             \/ mbox'[m].known = mbox[m].known /\ mbox'[m].op = mbox[m].op
                                  /\ mbox'[m].owner = mbox[m].owner
    <3> DEFINE m == body.mailbox
    <3>1. \A n \in Mailboxes \ {m} : mbox'[n] = mbox[n]
      BY <1>6, <2>2 DEF Tombstone, Inv, TypeOK
    <3>2. CASE mbox[m].known
      <4>1. mbox[m] \in Record
        BY <2>2, <3>2, RecordKinds DEF Inv
      <4>2. \/ mbox' = mbox
            \/ mbox' = [mbox EXCEPT ![m].deleted = TRUE, ![m].epoch = @ + 1]
        BY <1>6, <3>2 DEF Tombstone
      <4>3. mbox' = mbox \/ mbox'[m] = [mbox[m] EXCEPT !.deleted = TRUE, !.epoch = @ + 1]
        BY <2>2, <4>2 DEF Inv, TypeOK
      <4>4. mbox'[m].known = mbox[m].known /\ mbox'[m].op = mbox[m].op /\ mbox'[m].owner = mbox[m].owner
        BY <4>1, <4>3 DEF Record
      <4>5. QED
        BY <3>1, <4>4
    <3>3. CASE ~mbox[m].known
      <4>1. mbox'[m].op = NoKey
        BY <1>6, <2>2, <3>3 DEF Tombstone, Inv, TypeOK
      <4>2. QED
        BY <3>1, <3>3, <4>1
    <3>4. QED
      BY <3>2, <3>3
  <2>4. AllocatedOwned' /\ BudgetCovers'
    BY <2>1, <2>3, SameAllocated DEF Account
  <2>5. QED
    BY <2>1, <2>3, <2>4 DEF PlacedBelow, SeriesTyped
<1>7. ASSUME Tick \/ UNCHANGED vars PROVE BudgetInv' /\ PlacedBelow
  <2>1. UNCHANGED <<mbox, budget, config, series>>
    BY <1>7 DEF Tick, vars, meta, load
  <2>2. AllocatedOwned' /\ BudgetCovers'
    BY <2>1, SameAllocated DEF Account
  <2>3. QED
    BY <2>1, <2>2 DEF PlacedBelow, SeriesTyped
<1>8. ASSUME NEW cmd \in Commands, Accept(cmd),
             \/ Configure(cmd.body) \/ Metrics(cmd.body) \/ Import(cmd.body)
             \/ Allocate(cmd.body, cmd.key) \/ Confirm(cmd.body) \/ Tombstone(cmd.body)
      PROVE  BudgetInv' /\ PlacedBelow
  <2>1. cmd.body \in Bodies /\ cmd.key \in Keys
    BY <1>8, Accepted DEF Inv
  <2>2. QED
    BY <1>1, <1>2, <1>3, <1>4, <1>5, <1>6, <1>8, <2>1
<1>9. QED
  BY <1>7, <1>8 DEF Next

\* When a mailbox is placed, all that was ever allocated on that account's
\* shards stays below 70% of its limit, in every fleet and after every history.
THEOREM PlacementsFit == Spec => PlacementFits
<1>1. Init => BudgetInv
  <2> SUFFICES ASSUME Init PROVE BudgetInv
    OBVIOUS
  <2>1. \A a \in Accounts : Allocated(a) = {}
    BY DEF Init, NoRecord, Allocated
  <2>2. BudgetCovers
    BY <2>1, FS_EmptySet DEF Init, BudgetCovers
  <2>3. SeriesTyped
    BY DEF Init, NoSeries, SeriesTyped
  <2>4. QED
    BY <2>2, <2>3 DEF Init, NoRecord, BudgetInv, AllocatedOwned
<1>2. Inv /\ BudgetInv /\ [Next]_vars => BudgetInv' /\ [PlacedBelow]_vars
  BY BudgetStep
<1>3. QED
  BY <1>1, <1>2, InvInit, InvNext, PTL DEF Spec, PlacementFits
=============================================================================
