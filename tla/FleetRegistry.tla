--------------------------- MODULE FleetRegistry ---------------------------
(***************************************************************************)
(* The Durable Object that assigns mailboxes to D1 shards                  *)
(* (worker/src/fleet/registry_do.ts, placement.ts, validation.ts).         *)
(*                                                                         *)
(* A command carries an idempotency key and the revision it was decided    *)
(* on, and is handled in one storage transaction, so one action is one     *)
(* arrival that succeeds.  Any command may arrive at any time: that covers *)
(* lost, repeated and delayed requests.  An arrival that fails rolls its   *)
(* transaction back, and one whose key has a receipt is answered from the  *)
(* receipt: neither changes the state.                                     *)
(***************************************************************************)
EXTENDS Naturals, FiniteSets

CONSTANTS
    Keys, Mailboxes, Users, Shards, Accounts,
    Configs,        \* the fleet configurations that operators submit
    Batches,        \* the imports: mailbox -> its user, owner, epoch and whether it is being deleted
    Reports,        \* the metric reports
    Qualifying,     \* samples that make an account eligible (3 in the code)
    Retention,      \* age past which a receipt is dropped (30 days)
    PruneBatch,     \* receipts dropped by one command (100)
    MaxOperations,  \* receipts kept (200 000)
    MaxEpoch,       \* the largest revision and epoch (2^64 - 1)
    MaxNow          \* bound: the clock

NoConfig == [max |-> 0]
NoShard  == "no shard"
NoKey    == "no key"
NoRecord == [known |-> FALSE]
NoSeries == [n |-> 0, base |-> FALSE, load |-> 0, sizes |-> [s \in {} |-> 0], on |-> {}]

Owned(c, a)    == {s \in DOMAIN c.shard : c.shard[s].account = a}
\* What the samples of an account measure: its provider and its databases.
Physical(c, a) == <<c.account[a].provider, {<<s, c.shard[s].database>> : s \in Owned(c, a)}>>

\* fleetConfig
WellFormed(c) ==
    /\ c.max \in Nat \ {0}
    /\ DOMAIN c.account \subseteq Accounts
    /\ c.account \in [DOMAIN c.account -> [provider : Nat, limit : Nat]]
    /\ c.primary \in DOMAIN c.shard /\ DOMAIN c.shard \subseteq Shards
    /\ c.shard \in [DOMAIN c.shard -> [account : DOMAIN c.account, database : Nat, url : Nat, open : BOOLEAN]]
    /\ \A a, b \in DOMAIN c.account : c.account[a].provider = c.account[b].provider => a = b
    /\ \A s, t \in DOMAIN c.shard :
        \/ s = t
        \/ /\ c.shard[s].url # c.shard[t].url
           /\ <<c.shard[s].account, c.shard[s].database>> # <<c.shard[t].account, c.shard[t].database>>

\* importRequest: at least one mailbox, each once.
ValidBatch(b) ==
    /\ DOMAIN b \subseteq Mailboxes /\ DOMAIN b # {}
    /\ b \in [DOMAIN b -> [user : Users, owner : Shards, epoch : 0 .. MaxEpoch, deleting : BOOLEAN]]

\* metricReport
ValidReport(r) ==
    /\ r.kind = "metrics" /\ r.account \in Accounts /\ r.load \in Nat
    /\ r.step \in {"invalid", "regress", "gap", "same", "next"}
    /\ DOMAIN r.sizes \subseteq Shards /\ r.sizes \in [DOMAIN r.sizes -> Nat]

ASSUME ConstantsAssumption ==
    /\ \A c \in Configs : WellFormed(c)
    /\ \A b \in Batches : ValidBatch(b)
    /\ \A r \in Reports : ValidReport(r)
    /\ IsFiniteSet(Mailboxes)
    /\ NoShard \notin Shards /\ NoKey \notin Keys
    /\ {Qualifying, Retention, PruneBatch, MaxOperations, MaxEpoch, MaxNow} \subseteq Nat
    /\ Qualifying > 0 /\ MaxEpoch > 0

Bodies == [kind : {"configure"}, config : Configs]
     \cup [kind : {"import"}, batch : Batches]
     \cup [kind : {"allocate"}, mailbox : Mailboxes, user : Users]
     \cup [kind : {"confirm"}, mailbox : Mailboxes, op : Keys, owner : Shards, epoch : {1}]
     \cup [kind : {"tombstone"}, mailbox : Mailboxes]
     \cup Reports
Commands == [key : Keys, rev : 0 .. MaxEpoch, body : Bodies]

VARIABLES
    rev, config, count,  \* registry:meta
    mbox,      \* registry:mailbox, never removed
    routes,    \* registry:route, the owners that the snapshot publishes
    usage,     \* registry:shard-usage
    affinity,  \* registry:user
    series,    \* registry:metrics; "on" is history: what the counted samples measured
    budget, bytes,       \* registry:allocation-budgets, registry:reserved-bytes
    ops,       \* registry:op with registry:audit: the receipts; operation_count is their number
    now,
    done,      \* history: the commands that took effect and their revisions
    told       \* history: the mailboxes and owners that answers named

meta == <<rev, config, count>>
load == <<series, budget, bytes>>
vars == <<meta, mbox, routes, usage, affinity, load, ops, now, done, told>>

Init ==
    /\ rev = 0 /\ config = NoConfig /\ count = 0
    /\ mbox = [m \in Mailboxes |-> NoRecord]
    /\ routes = [m \in Mailboxes |-> NoShard]
    /\ usage = [s \in Shards |-> 0]
    /\ affinity = [u \in Users |-> [s \in Shards |-> 0]]
    /\ series = [a \in Accounts |-> NoSeries]
    /\ budget = [a \in Accounts |-> 0] /\ bytes = [s \in Shards |-> 0]
    /\ ops = {} /\ now = 0 /\ done = {} /\ told = {}
-----------------------------------------------------------------------------
(* The frame of every command. *)

\* pruneOperations drops the oldest of the receipts past their retention.
Expired  == {r \in ops : r.at + Retention < now}
Prunable == {P \in SUBSET Expired :
    /\ Cardinality(P) <= PruneBatch
    /\ P = Expired \/ Cardinality(P) = PruneBatch
    /\ \A p \in P, r \in Expired \ P : p.at <= r.at}

AnyRevision(cmd) == TRUE
Current(cmd) == cmd.rev = rev

Accept(cmd) ==
    /\ \A r \in ops : r.cmd.key # cmd.key
    /\ Current(cmd)
    /\ rev < MaxEpoch
    /\ \E gone \in Prunable :
        /\ Cardinality(ops \ gone) < MaxOperations
        /\ ops' = (ops \ gone) \cup {[cmd |-> cmd, at |-> now]}
    /\ rev' = rev + 1
    /\ done' = done \cup {[cmd |-> cmd, rev |-> rev + 1]}
    /\ UNCHANGED now
-----------------------------------------------------------------------------
(* Configuration and metrics. *)

Unguarded(c) == TRUE
\* A shard that was ever assigned a mailbox keeps its place.
KeepsUsed(c) == \A s \in DOMAIN config.shard : usage[s] > 0 =>
    LET old == config.shard[s] IN
    /\ s \in DOMAIN c.shard
    /\ c.shard[s] = [old EXCEPT !.open = c.shard[s].open]
    /\ c.account[old.account].provider = config.account[old.account].provider

SameProvider(c, a) == /\ a \in DOMAIN config.account \cap DOMAIN c.account
                      /\ config.account[a].provider = c.account[a].provider
Same(c, a) == /\ a \in DOMAIN config.account \cap DOMAIN c.account
              /\ Physical(config, a) = Physical(c, a)
Invalidated(c) == {a \in Accounts : ~Same(c, a)}

Configure(body) ==
    LET c == body.config IN
    /\ body.kind = "configure"
    /\ count <= c.max
    /\ config # NoConfig => c.primary = config.primary /\ KeepsUsed(c)
    /\ config' = c
    /\ series' = [a \in Accounts |-> IF config # NoConfig /\ a \notin Invalidated(c) THEN series[a] ELSE NoSeries]
    /\ UNCHANGED <<count, mbox, routes, usage, affinity, budget, bytes, told>>

Uncapped(n) == n + 1
OneMore(n) == IF n < Qualifying THEN n + 1 ELSE Qualifying

\* updateMetricSeries; the step relates the report to the last accepted one.
Samples(old, step) ==
    CASE step = "invalid"               -> 0
      [] step # "invalid" /\ ~old.base  -> 1
      [] step = "regress" /\ old.base   -> 0
      [] step = "same" /\ old.base /\ old.n > 0 -> old.n
      [] step = "next" /\ old.base /\ old.n > 0 -> OneMore(old.n)
      [] OTHER -> 1

Metrics(body) ==
    LET a == body.account
        old == series[a]
        n == Samples(old, body.step) IN
    /\ body.kind = "metrics"
    /\ config # NoConfig
    /\ a \in DOMAIN config.account
    /\ DOMAIN body.sizes \subseteq Owned(config, a)
    /\ series' = [series EXCEPT ![a] =
            [n |-> n, base |-> old.base \/ body.step # "invalid", load |-> body.load, sizes |-> body.sizes,
             on |-> IF n = 0 THEN {} ELSE old.on \cup {Physical(config, a)}]]
    /\ UNCHANGED <<config, count, mbox, routes, usage, affinity, budget, bytes, told>>
-----------------------------------------------------------------------------
(* Placement (choosePlacement). *)

Account(s) == config.shard[s].account
Limit(s)   == config.account[Account(s)].limit
Greater(x, y) == IF x > y THEN x ELSE y

UsedNow(s) == 1 + Greater(series[Account(s)].load, series[Account(s)].sizes[s])
\* Siblings share the account's budget; every allocation demands one unit of it.
Used(s) == 1 + Greater(series[Account(s)].load + budget[Account(s)], series[Account(s)].sizes[s] + bytes[s])

\* Accounts whose last sample is recent and of this UTC day are "fresh".
Candidates(fresh) == {s \in DOMAIN config.shard :
    /\ s # config.primary /\ config.shard[s].open
    /\ Account(s) \in fresh
    /\ series[Account(s)].n >= Qualifying
    /\ s \in DOMAIN series[Account(s)].sizes
    /\ Used(s) * 10 < Limit(s) * 7}

NoWorse(s, t) == Used(s) * Limit(t) <= Used(t) * Limit(s)
\* The best, those at most 5% fuller, the user's own first, then the emptiest.
Placements(fresh, user) ==
    LET all    == Candidates(fresh)
        window == {s \in all : \A b \in all :
                    20 * Used(s) * Limit(b) <= 20 * Used(b) * Limit(s) + Limit(s) * Limit(b)}
        own    == {s \in window : affinity[user][s] > 0}
        first  == IF own = {} THEN window ELSE own
    IN {s \in first : \A t \in first : NoWorse(s, t)}
-----------------------------------------------------------------------------
(* Mailboxes. *)

Brought(b, s) == {m \in DOMAIN b : b[m].owner = s}

Import(body) ==
    LET b == body.batch IN
    /\ body.kind = "import"
    /\ config # NoConfig
    /\ count + Cardinality(DOMAIN b) <= config.max
    /\ \A m \in DOMAIN b : b[m].owner \in DOMAIN config.shard /\ ~mbox[m].known
    /\ mbox' = [m \in Mailboxes |-> IF m \notin DOMAIN b THEN mbox[m] ELSE
            [known |-> TRUE, user |-> b[m].user, owner |-> b[m].owner, op |-> NoKey, routed |-> TRUE,
             deleted |-> b[m].deleting, epoch |-> b[m].epoch]]
    /\ routes' = [m \in Mailboxes |-> IF m \in DOMAIN b THEN b[m].owner ELSE routes[m]]
    /\ usage' = [s \in Shards |-> usage[s] + Cardinality(Brought(b, s))]
    /\ affinity' = [u \in Users |-> [s \in Shards |-> affinity[u][s] + Cardinality({m \in Brought(b, s) : b[m].user = u})]]
    /\ count' = count + Cardinality(DOMAIN b)
    /\ UNCHANGED <<config, load, told>>

SettledRouted(m) == mbox[m].known /\ mbox[m].routed
Settled(m) == mbox[m].known

Allocate(body, key) ==
    LET m == body.mailbox IN
    /\ body.kind = "allocate"
    /\ config # NoConfig
    /\ mbox[m].known => ~mbox[m].deleted /\ mbox[m].user = body.user
    /\ \/ /\ Settled(m)
          /\ told' = told \cup {<<m, mbox[m].owner>>}
          /\ UNCHANGED <<count, mbox, usage, affinity, budget, bytes>>
       \/ /\ ~Settled(m)
          /\ count < config.max
          /\ \E fresh \in SUBSET DOMAIN config.account : \E s \in Placements(fresh, body.user) :
                /\ mbox' = [mbox EXCEPT ![m] = [known |-> TRUE, user |-> body.user, owner |-> s, op |-> key,
                                                 routed |-> FALSE, deleted |-> FALSE, epoch |-> 1]]
                /\ budget' = [budget EXCEPT ![Account(s)] = @ + 1]
                /\ bytes' = [bytes EXCEPT ![s] = @ + 1]
                /\ usage' = [usage EXCEPT ![s] = @ + 1]
                /\ affinity' = [affinity EXCEPT ![body.user][s] = @ + 1]
                /\ told' = told \cup {<<m, s>>}
          /\ count' = count + 1
    /\ UNCHANGED <<config, routes, series>>

Confirm(body) ==
    LET m == body.mailbox IN
    /\ body.kind = "confirm"
    /\ config # NoConfig
    /\ mbox[m].known /\ ~mbox[m].deleted
    /\ mbox[m].op = body.op /\ mbox[m].owner = body.owner /\ mbox[m].epoch = body.epoch
    /\ body.owner \in DOMAIN config.shard
    /\ mbox' = [mbox EXCEPT ![m].routed = TRUE]
    /\ routes' = [routes EXCEPT ![m] = mbox[m].owner]
    /\ told' = told \cup {<<m, mbox[m].owner>>}
    /\ UNCHANGED <<config, count, usage, affinity, load>>

Tombstone(body) ==
    LET m == body.mailbox
        r == mbox[m] IN
    /\ body.kind = "tombstone"
    /\ config # NoConfig
    /\ \/ r.known /\ r.deleted /\ UNCHANGED <<count, mbox, routes, affinity>>
       \/ /\ r.known /\ ~r.deleted
          /\ r.epoch < MaxEpoch
          /\ mbox' = [mbox EXCEPT ![m].deleted = TRUE, ![m].epoch = @ + 1]
          /\ routes' = [routes EXCEPT ![m] = NoShard]
          /\ count' = count - 1
          /\ affinity' = [affinity EXCEPT ![r.user][r.owner] = IF @ = 0 THEN 0 ELSE @ - 1]
       \/ /\ ~r.known
          /\ mbox' = [mbox EXCEPT ![m] = [known |-> TRUE, user |-> "deleted", owner |-> NoShard, op |-> NoKey,
                                           routed |-> FALSE, deleted |-> TRUE, epoch |-> 1]]
          /\ UNCHANGED <<count, routes, affinity>>
    /\ UNCHANGED <<config, usage, load, told>>

Tick == now < MaxNow /\ now' = now + 1
        /\ UNCHANGED <<meta, mbox, routes, usage, affinity, load, ops, done, told>>

Next ==
    \/ \E cmd \in Commands : Accept(cmd) /\
        \/ Configure(cmd.body)
        \/ Metrics(cmd.body)
        \/ Import(cmd.body)
        \/ Allocate(cmd.body, cmd.key)
        \/ Confirm(cmd.body)
        \/ Tombstone(cmd.body)
    \/ Tick

Spec == Init /\ [][Next]_vars
-----------------------------------------------------------------------------
(* Properties. *)

Record == [known : {TRUE}, user : Users \cup {"deleted"}, owner : Shards \cup {NoShard}, op : Keys \cup {NoKey},
           routed : BOOLEAN, deleted : BOOLEAN, epoch : 0 .. MaxEpoch]

\* The types; in particular no account counts more samples than it takes to qualify.
TypeOK ==
    /\ rev \in 0 .. MaxEpoch /\ count \in Nat /\ now \in Nat
    /\ config \in Configs \cup {NoConfig}
    /\ mbox \in [Mailboxes -> Record \cup {NoRecord}]
    /\ routes \in [Mailboxes -> Shards \cup {NoShard}]
    /\ usage \in [Shards -> Nat] /\ bytes \in [Shards -> Nat]
    /\ budget \in [Accounts -> Nat]
    /\ affinity \in [Users -> [Shards -> Nat]]
    /\ DOMAIN series = Accounts
    /\ \A a \in Accounts : series[a].n \in 0 .. Qualifying

Published == {m \in Mailboxes : routes[m] # NoShard}

\* Whatever was configured, imported, confirmed and deleted, in any order, reads
\* can be served: the owner of every live mailbox and of every published route
\* is configured, and no more routes are published than the configuration
\* allows (read answers MISSING_OWNER or REGISTRY_LIMIT otherwise, and a snapshot
\* fails for the whole fleet).
Servable == config # NoConfig =>
    /\ \A m \in Mailboxes : mbox[m].known /\ ~mbox[m].deleted => mbox[m].owner \in DOMAIN config.shard
    /\ \A m \in Published : routes[m] \in DOMAIN config.shard
    /\ Cardinality(Published) <= config.max

\* A command takes effect once, however often it is sent: while its receipt is
\* kept the receipt answers, and once the receipt is pruned the revision it was
\* decided on has passed.
AppliedOnce == \A x, y \in done : x.cmd = y.cmd => x = y

\* A mailbox never changes its shard: the owner that any answer ever named, and
\* the one the snapshot publishes, is the owner on record, through repeated
\* allocations under other keys, deletion and late confirmations, so its mail
\* is never written to two databases.
OneOwnerTold ==
    \A x \in told \cup {<<m, routes[m]>> : m \in Published} : mbox[x[1]].known /\ mbox[x[1]].owner = x[2]

\* The samples that qualify an account were all taken of the provider account
\* and the databases it is configured with now: no configuration change lets
\* measurements of other hardware decide a placement.
SamplesMeasureCurrent == \A a \in Accounts : series[a].n > 0 =>
    /\ config # NoConfig /\ a \in DOMAIN config.account
    /\ series[a].on = {Physical(config, a)}

\* The mailboxes ever allocated on the account's shards.
Allocated(a) == {m \in Mailboxes : mbox[m].known /\ mbox[m].op # NoKey /\ Account(mbox[m].owner) = a}

\* When a mailbox is placed, all allocations ever made on that account's shards,
\* deleted mailboxes and siblings included, stay below 70% of its limit: no
\* confirmation, deletion or reconfiguration gives a reservation back.
PlacedBelow == \A m \in Mailboxes, a \in Accounts :
    /\ mbox'[m].known /\ mbox'[m].op # NoKey /\ ~mbox[m].known
    /\ Account(mbox'[m].owner) = a
    => 10 * Cardinality(Allocated(a)') < 7 * config.account[a].limit
PlacementFits == [][PlacedBelow]_vars
=============================================================================
