------------------------------ MODULE MailSync ------------------------------
(***************************************************************************)
(* One account whose INBOX the aggregator copies into the mail store:      *)
(* sync_account (aggregator/src/one_mail_agg/sync.py) over the IMAP window *)
(* of imap_base.py, the POP3 window of pop3_source.py, the state file of   *)
(* state.py and the idempotent INSERT of the Worker's ingest.              *)
(*                                                                         *)
(* The daemon's poll and the account's IDLE workers are syncers.  A worker *)
(* that was told to stop finishes the round it is in, so that syncers      *)
(* overlap.  A round is a few actions: its first SELECT, its window (the   *)
(* second SELECT with what it writes to the state file, and the bodies),   *)
(* the upload, the advance.  Any of them may fail or be the last before a  *)
(* crash.  Each save of the state file is atomic.                          *)
(***************************************************************************)
EXTENDS Integers, Sequences, FiniteSets, SequencesExt

CONSTANTS
    Workers,       \* IDLE worker threads; the daemon's poll is Poller
    MaxMails,      \* bound: mails that arrive
    Mailboxes,     \* what the mails may be, see Kinds
    Protocols,     \* account.protocol at first
    Batch,         \* BATCH_SIZE
    InitialLimit,  \* initial_sync_limit
    SeenMax,       \* POP3_SEEN_MAX
    MaxEpoch,      \* bound: UIDVALIDITY values
    Offsets,       \* bound: where a server starts to count its UIDs
    MaxFaults      \* bound: errors and crashes

Poller  == "poller"
Syncers == Workers \cup {Poller}
Mails   == 1 .. MaxMails
Kinds   == {"plain", "huge", "bad"}

ASSUME ConstantsAssumption ==
    /\ Poller \notin Workers
    /\ Mailboxes \subseteq [Mails -> Kinds]
    /\ Protocols \subseteq {"imap", "pop3", "auto"}
    /\ {Batch, SeenMax, MaxEpoch} \subseteq Nat \ {0}
    /\ Offsets \subseteq Nat
    /\ {MaxMails, InitialLimit, MaxFaults} \subseteq Nat

VARIABLES
    kind,      \* mails: plain, over MAX_SINGLE_BYTES, or impossible to parse
    arrived,   \* how many mails have arrived; they arrive in order
    epoch,     \* the server's UIDVALIDITY
    offset,    \* its UIDs: mail m has offset + m
    protocol,  \* account.protocol
    mark,      \* state file: last_uid
    known,     \* state file: uidvalidity, 0 for none
    seen,      \* state file: pop3_seen, oldest first
    pinned,    \* state file: fallback
    rows,      \* the mail store: source keys, each with its mail
    sync,      \* the syncers
    faults,    \* errors and crashes so far
    skipped    \* history: mails left out on purpose

server   == <<kind, arrived, epoch, offset>>
imapMark == <<mark, known>>
vars     == <<server, protocol, imapMark, seen, pinned, rows, sync, faults, skipped>>

ImapPhases == {"select", "window", "upload", "advance"}
PopPhases  == {"list", "store", "remember", "pin"}
Round   == [at : ImapPhases \cup PopPhases,
            epoch : 0 .. MaxEpoch,              \* of the first SELECT
            picked : SUBSET (Nat \X Mails),     \* bodies, with their numbers
            fallback : BOOLEAN]
Off       == [at |-> "off"]
Connected == [at |-> "connected"]
Key     == [via : {"imap", "pop3"}, epoch : 0 .. MaxEpoch, number : Nat]

TypeOK ==
    /\ kind \in [Mails -> Kinds]
    /\ arrived \in 0 .. MaxMails
    /\ epoch \in 1 .. MaxEpoch
    /\ offset \in Offsets
    /\ protocol \in {"imap", "pop3", "auto"}
    /\ mark \in Nat
    /\ known \in 0 .. MaxEpoch
    /\ seen \in Seq(Mails)
    /\ pinned \in BOOLEAN
    /\ rows \subseteq Key \X Mails
    /\ sync \in [Syncers -> Round \cup {Off, Connected}]
    /\ sync[Poller] # Connected
    /\ \A w \in Workers : sync[w].at \notin PopPhases
    /\ faults \in 0 .. MaxFaults
    /\ skipped \subseteq Mails

Init ==
    /\ kind \in Mailboxes
    /\ arrived = 0
    /\ epoch = 1
    /\ offset \in Offsets
    /\ protocol \in Protocols
    /\ mark = 0 /\ known = 0 /\ seen = <<>> /\ pinned = FALSE
    /\ rows = {}
    /\ sync = [t \in Syncers |-> Off]
    /\ faults = 0
    /\ skipped = {}

-----------------------------------------------------------------------------
(* The mailbox and its owner.  Only the order of UIDs matters to the code,  *)
(* so that they are consecutive here; nothing is deleted.                  *)

Mailbox == 1 .. arrived
uid(m)  == offset + m

Arrive ==
    /\ arrived < MaxMails
    /\ arrived' = arrived + 1
    /\ UNCHANGED <<kind, epoch, offset, protocol, imapMark, seen, pinned, rows, sync, faults,
                   skipped>>

\* The server rebuilds the mailbox: another UIDVALIDITY, other UIDs.  A window
\* is fetched from one epoch, which the first SELECT may not have seen.
Renumber ==
    /\ epoch < MaxEpoch
    /\ epoch' = epoch + 1
    /\ offset' \in Offsets
    /\ UNCHANGED <<kind, arrived, protocol, imapMark, seen, pinned, rows, sync, faults,
                   skipped>>

\* The user makes an "auto" account an IMAP account.
ChooseImap ==
    /\ protocol = "auto"
    /\ protocol' = "imap"
    /\ UNCHANGED <<server, imapMark, seen, pinned, rows, sync, faults, skipped>>

-----------------------------------------------------------------------------
(* Windows.  Both protocols walk the candidates in order of arrival, which *)
(* is the order of UIDs too: over a mail that is too large, past at most   *)
(* Batch others, and no further than the byte budget, which always has     *)
(* room for two.                                                           *)

Below(m, S)   == {n \in S : n < m}
Starts(S)     == {S} \cup {Below(m, S) : m \in S}

StopsAt(n, W, large) ==
    \/ Cardinality(W \ large) = Batch
    \/ n \notin large /\ Cardinality(W \ large) >= 2

Windows(cands, large) ==
    {W \in Starts(cands) :
        /\ \A m \in W : Cardinality(Below(m, W) \ large) < Batch
        /\ \A n \in cands \ W : Below(n, cands) = W => StopsAt(n, W, large)}

\* A first sync leaves out all but the newest InitialLimit mails.
Older(cands, first) ==
    IF first /\ InitialLimit > 0 /\ Cardinality(cands) > InitialLimit
    THEN {m \in cands : Cardinality({n \in cands : n >= m}) > InitialLimit}
    ELSE {}

\* set_last_uid_max: mark becomes the largest of these, and never goes down.
RaiseMark(uids) ==
    \E top \in uids \cup {mark} :
        /\ \A u \in uids \cup {mark} : u <= top
        /\ mark' = top

\* _append_pop3_seen_locked: in order of arrival, the oldest entries dropped
\* beyond SeenMax.
Trimmed(s) == IF Len(s) > SeenMax THEN SubSeq(s, Len(s) - SeenMax + 1, Len(s)) ELSE s

Remembered(ms) ==
    LET new == ms \ ToSet(seen)
    IN  \E q \in [1 .. Cardinality(new) -> new] :
            /\ \A i, j \in DOMAIN q : i < j => q[i] < q[j]
            /\ seen' = Trimmed(seen \o q)

\* INSERT OR IGNORE under the unique index on source_key.
Stored(batch) ==
    rows' = rows \cup {r \in batch : \A q \in rows : q[1] # r[1]}

-----------------------------------------------------------------------------
(* Rounds.                                                                 *)

Resting(t) == IF t = Poller THEN Off ELSE Connected
Enter(t, phase) ==
    sync' = [sync EXCEPT ![t] = [at |-> phase, epoch |-> 0, picked |-> {}, fallback |-> FALSE]]
Finish(t) == sync' = [sync EXCEPT ![t] = Resting(t)]
Fault     == faults < MaxFaults /\ faults' = faults + 1

\* ensure_idle_workers: no worker for an account that is pinned to POP3,
\* unless it may not be pinned.
Connect(w) ==
    /\ sync[w] = Off
    /\ protocol # "pop3"
    /\ pinned => protocol = "imap"
    /\ pinned' = FALSE
    /\ sync' = [sync EXCEPT ![w] = Connected]
    /\ UNCHANGED <<server, protocol, imapMark, seen, rows, faults, skipped>>

Disconnect(w) ==
    /\ sync[w] = Connected
    /\ sync' = [sync EXCEPT ![w] = Off]
    /\ UNCHANGED <<server, protocol, imapMark, seen, pinned, rows, faults, skipped>>

\* do_sync of a connected worker.
BeginWork(w) ==
    /\ sync[w] = Connected
    /\ Enter(w, "select")
    /\ UNCHANGED <<server, protocol, imapMark, seen, pinned, rows, faults, skipped>>

PopFirst == protocol = "pop3" \/ (pinned /\ protocol = "auto")

\* sync_account: a pin is obeyed by an "auto" account and dropped by another.
BeginPoll ==
    /\ sync[Poller] = Off
    /\ \/ /\ PopFirst
          /\ Enter(Poller, "list")
          /\ UNCHANGED pinned
       \/ /\ ~PopFirst
          /\ Enter(Poller, "select")
          /\ pinned' = FALSE
    /\ UNCHANGED <<server, protocol, imapMark, seen, rows, faults, skipped>>

\* sync_imap selects the folder to learn the epoch for the source keys.
Select(t) ==
    /\ sync[t].at = "select"
    /\ sync' = [sync EXCEPT ![t].at = "window", ![t].epoch = epoch]
    /\ UNCHANGED <<server, protocol, imapMark, seen, pinned, rows, faults, skipped>>

\* fetch_new_messages reads the mark and selects again.  A new UIDVALIDITY is
\* noted and the window starts from 0; the stored mark stays where it is.
Base == IF known \notin {0, epoch} THEN 0 ELSE mark

\* Faulty variant, for the mutants.
SizedAny(cands) == {cands \ {m} : m \in cands} \cup {cands}

\* The window ends before the first mail whose size the server withholds.
Sized(cands) == Starts(cands)

\* Mails over the size limit and mails skipped by a first sync raise the mark
\* here, before anything is uploaded.
Window(t) ==
    /\ sync[t].at = "window"
    /\ known' = epoch
    /\ LET found == {m \in Mailbox : uid(m) > Base}
           older == Older(found, Base = 0)
           large == {m \in found : kind[m] = "huge"}
           fresh == found \ older
       IN  \E sized \in Sized(fresh) : \E W \in Windows(sized, large) :
              /\ \/ sized = fresh /\ UNCHANGED faults
                 \/ sized # fresh /\ Fault
              /\ RaiseMark({uid(m) : m \in older \cup (W \cap large)})
              /\ skipped' = skipped \cup older
              /\ IF W \subseteq large
                 THEN Finish(t)
                 ELSE sync' = [sync EXCEPT ![t].at = "upload",
                                           ![t].picked = {<<uid(m), m>> : m \in W \ large}]
    /\ UNCHANGED <<server, protocol, seen, pinned, rows>>

\* An error of the second SELECT, before or after known is written.
WindowFails(t) ==
    /\ sync[t].at = "window"
    /\ Fault
    /\ known' = epoch
    /\ Finish(t)
    /\ UNCHANGED <<server, protocol, mark, seen, pinned, rows, skipped>>

Parsed(t) == {p \in sync[t].picked : kind[p[2]] # "bad"}
ImapBatch(t) ==
    {<<[via |-> "imap", epoch |-> sync[t].epoch, number |-> p[1]], p[2]>> : p \in Parsed(t)}
PopBatch(t) ==
    {<<[via |-> "pop3", epoch |-> 0, number |-> p[1]], p[2]>> : p \in Parsed(t)}

\* upload_emails; a failed one has stored a first part of the batch.
Upload(t) ==
    /\ sync[t].at = "upload"
    /\ Stored(ImapBatch(t))
    /\ sync' = [sync EXCEPT ![t].at = "advance"]
    /\ UNCHANGED <<server, protocol, imapMark, seen, pinned, faults, skipped>>

UploadFails(t, batch) ==
    /\ batch # {}
    /\ Fault
    /\ \E last \in Mails \cup {0} : Stored({r \in batch : r[2] <= last})
    /\ Finish(t)
    /\ UNCHANGED <<server, protocol, imapMark, seen, pinned, skipped>>

Advance(t) ==
    /\ sync[t].at = "advance"
    /\ RaiseMark({p[1] : p \in sync[t].picked})
    /\ Finish(t)
    /\ UNCHANGED <<server, protocol, known, seen, pinned, rows, faults, skipped>>

-----------------------------------------------------------------------------
(* POP3.                                                                   *)

\* fetch_new_pop3_messages: a mail without a size counts as too large, and
\* is remembered as seen like one that is.
List(t) ==
    /\ sync[t].at = "list"
    /\ LET pending == Mailbox \ ToSet(seen)
           older   == Older(pending, seen = <<>>)
       IN  \E unknown \in SUBSET (pending \ older) :
           LET large == {m \in pending : kind[m] = "huge"} \cup unknown
           IN  \E W \in Windows(pending \ older, large) :
                  /\ \/ unknown = {} /\ UNCHANGED faults
                     \/ unknown # {} /\ Fault
                  /\ Remembered(older \cup (W \cap large))
                  /\ skipped' = skipped \cup older \cup (W \cap unknown)
                  /\ IF W \subseteq large
                     THEN IF sync[t].fallback
                          THEN sync' = [sync EXCEPT ![t].at = "pin"]
                          ELSE Finish(t)
                     ELSE sync' = [sync EXCEPT ![t].at = "store",
                                               ![t].picked = {<<m, m>> : m \in W \ large}]
    /\ UNCHANGED <<server, protocol, imapMark, pinned, rows>>

\* Faulty variant, for the mutants.
StorableWhole(t) == Parsed(t) = sync[t].picked

Storable(t) == Parsed(t) # {}

Store(t) ==
    /\ sync[t].at = "store"
    /\ Storable(t)
    /\ Stored(PopBatch(t))
    /\ sync' = [sync EXCEPT ![t].at = "remember"]
    /\ UNCHANGED <<server, protocol, imapMark, seen, pinned, faults, skipped>>

\* Nothing in the batch could be parsed: an error, and nothing is remembered.
StoreNothing(t) ==
    /\ sync[t].at = "store"
    /\ ~Storable(t)
    /\ Finish(t)
    /\ UNCHANGED <<server, protocol, imapMark, seen, pinned, rows, faults, skipped>>

\* Faulty variant, for the mutants.
UploadedAll(t) == {p[2] : p \in sync[t].picked}

Uploaded(t) == {p[2] : p \in Parsed(t)}

Remember(t) ==
    /\ sync[t].at = "remember"
    /\ Remembered(Uploaded(t))
    /\ IF sync[t].fallback
       THEN sync' = [sync EXCEPT ![t].at = "pin"]
       ELSE Finish(t)
    /\ UNCHANGED <<server, protocol, imapMark, pinned, rows, faults, skipped>>

Pin(t) ==
    /\ sync[t].at = "pin"
    /\ pinned' = TRUE
    /\ Finish(t)
    /\ UNCHANGED <<server, protocol, imapMark, seen, rows, faults, skipped>>

-----------------------------------------------------------------------------
(* Errors.                                                                 *)

\* Faulty variant, for the mutants.
FallsBackAny(t) == known = 0 /\ protocol = "auto"

\* _safe_auto_pop3_fallback: only sync_account falls back, never a worker.
FallsBack(t) == t = Poller /\ known = 0 /\ protocol = "auto"

\* The connection, login or a SELECT fails, in a way that allows a fallback.
FallBack(t) ==
    /\ sync[t].at \in {"select", "window"}
    /\ FallsBack(t)
    /\ Fault
    /\ sync' = [sync EXCEPT ![t].at = "list", ![t].fallback = TRUE]
    /\ UNCHANGED <<server, protocol, imapMark, seen, pinned, rows, skipped>>

\* Any other error of the provider ends the round; a worker connects again.
Fail(t) ==
    /\ sync[t].at \in {"select", "window", "upload", "list", "store"}
    /\ Fault
    /\ Finish(t)
    /\ UNCHANGED <<server, protocol, imapMark, seen, pinned, rows, skipped>>

Crash ==
    /\ \E t \in Syncers : sync[t] # Off
    /\ Fault
    /\ sync' = [t \in Syncers |-> Off]
    /\ UNCHANGED <<server, protocol, imapMark, seen, pinned, rows, skipped>>

-----------------------------------------------------------------------------
Begin == BeginPoll \/ \E w \in Workers : BeginWork(w)

Step(t) ==
    \/ Select(t) \/ Window(t) \/ Upload(t) \/ Advance(t)
    \/ List(t) \/ Store(t) \/ StoreNothing(t) \/ Remember(t) \/ Pin(t)

Errors(t) ==
    \/ WindowFails(t) \/ FallBack(t) \/ Fail(t)
    \/ sync[t].at = "upload" /\ UploadFails(t, ImapBatch(t))
    \/ sync[t].at = "store" /\ UploadFails(t, PopBatch(t))

Next ==
    \/ Arrive \/ Renumber \/ ChooseImap
    \/ Begin \/ (\E w \in Workers : Connect(w) \/ Disconnect(w))
    \/ \E t \in Syncers : Step(t) \/ Errors(t)
    \/ Crash

Spec == Init /\ [][Next]_vars

\* The daemon's loop begins rounds for ever, itself or through a worker, and
\* every request of a round ends by its timeout.
FairSpec ==
    /\ Spec
    /\ WF_vars(Begin)
    /\ \A t \in Syncers : WF_vars(Step(t))

-----------------------------------------------------------------------------
(* Properties.                                                             *)

HasRow(m)  == \E r \in rows : r[2] = m
Handled(m) == HasRow(m) \/ kind[m] # "plain" \/ m \in skipped
InHand(m)  == \E t \in Syncers : sync[t].at = "upload" /\ \E p \in sync[t].picked : p[2] = m

\* The mark moves past a mail when the mail was uploaded: at or below it is no
\* mail that is not stored, unless it could not be, was left out by a first
\* sync, or is being uploaded.  (As long as UIDVALIDITY stands.)
NothingLost ==
    epoch = 1 => \A m \in Mailbox : uid(m) <= mark => Handled(m) \/ InHand(m)

\* What the code keeps of it: a mail is passed unstored only below a mail that
\* is too large.  In particular no crash, error or overlap of two syncers
\* moves the mark over a mail, and no window goes past a mail whose size the
\* server withheld.
PassedOnlyBelowLarge ==
    epoch = 1 => \A m \in Mailbox : uid(m) <= mark =>
        Handled(m) \/ \E n \in Mailbox : m < n /\ kind[n] = "huge"

\* POP3 remembers no mail that it did not store, skip or find too large.
SeenIsHandled ==
    \A m \in ToSet(seen) : HasRow(m) \/ kind[m] = "huge" \/ m \in skipped

\* Every mail in the mailbox is stored, left out on purpose or passed before
\* long, once errors end and unless a whole batch cannot be parsed.  (Arrivals
\* are bounded, so that the aggregator catches up with all of them at once.)
Settled(m) == Handled(m) \/ uid(m) <= mark
CatchesUp ==
    Cardinality({m \in Mails : kind[m] = "bad"}) < Batch =>
        []<>(\A m \in Mailbox : Settled(m))
=============================================================================
