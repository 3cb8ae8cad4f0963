--------------------------- MODULE MailSync_proofs ---------------------------
(***************************************************************************)
(* What the mark passes and what POP3 remembers, for every number of       *)
(* mails, workers and errors.                                              *)
(*                                                                         *)
(* The argument for the mark: a syncer that has picked its window knows of *)
(* every mail up to the last one it picked that it is stored, may be       *)
(* passed, or is picked too; after the upload all of them are stored or    *)
(* may be passed (RoundOK).  Both facts only grow, so that other syncers,  *)
(* errors and crashes in between do not disturb them.  For POP3 the same   *)
(* is said of the batch that is about to be remembered (PopRoundOK).       *)
(***************************************************************************)
EXTENDS MailSync, FiniteSetTheorems, SequenceTheorems, TLAPS

-----------------------------------------------------------------------------
(* Operators.                                                               *)

LEMMA MailboxFinite ==
    ASSUME arrived \in 0 .. MaxMails
    PROVE  /\ Mailbox \subseteq Mails
           /\ IsFiniteSet(Mailbox)
           /\ IsFiniteSet(Mails)
<1>1. MaxMails \in Nat /\ arrived \in Nat /\ arrived <= MaxMails
  BY ConstantsAssumption
<1>2. Mailbox \subseteq Mails
  BY <1>1 DEF Mailbox, Mails
<1>3. IsFiniteSet(Mails)
  BY <1>1, FS_Interval DEF Mails
<1>4. IsFiniteSet(Mailbox)
  BY <1>2, <1>3, FS_Subset
<1>5. QED
  BY <1>2, <1>3, <1>4

\* A first sync leaves out a set of oldest mails: all that is older than one
\* of them is left out too.
LEMMA OlderDown ==
    ASSUME NEW S \in SUBSET Mails, IsFiniteSet(S), NEW first,
           NEW m \in S, NEW n \in Older(S, first), m <= n
    PROVE  m \in Older(S, first)
<1>1. n \in S /\ Cardinality({k \in S : k >= n}) > InitialLimit
      /\ first /\ InitialLimit > 0 /\ Cardinality(S) > InitialLimit
  BY DEF Older
<1>2. {k \in S : k >= n} \subseteq {k \in S : k >= m}
  <2>1. S \subseteq Int
    BY ConstantsAssumption DEF Mails
  <2>2. n \in Int /\ m \in Int
    BY <1>1, <2>1
  <2>3. ASSUME NEW k \in S, k >= n PROVE k >= m
    BY <2>1, <2>2, <2>3
  <2>4. QED
    BY <2>3
<1>3. IsFiniteSet({k \in S : k >= m})
  BY FS_Subset
<1>4. Cardinality({k \in S : k >= n}) <= Cardinality({k \in S : k >= m})
  BY <1>2, <1>3, FS_Subset
<1>5. IsFiniteSet({k \in S : k >= n})
  BY FS_Subset
<1>6. Cardinality({k \in S : k >= m}) > InitialLimit
  BY <1>1, <1>3, <1>4, <1>5, FS_CardinalityType, ConstantsAssumption
<1>7. QED
  BY <1>1, <1>6 DEF Older

LEMMA OlderSubset ==
    ASSUME NEW S, NEW first PROVE Older(S, first) \subseteq S
  BY DEF Older

\* A window that starts at the first candidate and stops is an initial part.
LEMMA StartsDown ==
    ASSUME NEW S \in SUBSET Mails, NEW W \in Starts(S),
           NEW n \in W, NEW m \in S, m <= n
    PROVE  m \in W
  BY DEF Starts, Below, Mails

LEMMA StartsSubset ==
    ASSUME NEW S, NEW W \in Starts(S) PROVE W \subseteq S
  BY DEF Starts, Below

LEMMA WindowsAreStarts ==
    ASSUME NEW S, NEW large, NEW W \in Windows(S, large) PROVE W \in Starts(S)
  BY DEF Windows

LEMMA UidTyped ==
    ASSUME TypeOK, NEW m \in Mails
    PROVE  uid(m) \in Nat
  BY ConstantsAssumption DEF TypeOK, uid, Mails

LEMMA RaiseMarkType ==
    ASSUME mark \in Nat, NEW U \in SUBSET Nat, RaiseMark(U)
    PROVE  /\ mark' \in U \cup {mark}
           /\ mark' \in Nat
           /\ \A u \in U \cup {mark} : u <= mark'
  BY DEF RaiseMark

LEMMA TrimmedType ==
    ASSUME NEW s \in Seq(Mails)
    PROVE  Trimmed(s) \in Seq(Mails) /\ ToSet(Trimmed(s)) \subseteq ToSet(s)
<1>1. CASE Len(s) > SeenMax
  <2>1. Trimmed(s) = SubSeq(s, Len(s) - SeenMax + 1, Len(s))
    BY <1>1 DEF Trimmed
  <2>2. /\ Len(s) \in Nat /\ SeenMax \in Nat \ {0}
        /\ Len(s) - SeenMax + 1 \in 1 .. Len(s) + 1
    BY <1>1, ConstantsAssumption
  <2> DEFINE a == Len(s) - SeenMax + 1
             t == SubSeq(s, a, Len(s))
  <2>3. /\ t \in Seq(Mails)
        /\ Len(t) = Len(s) - a + 1
        /\ \A i \in 1 .. Len(t) : t[i] = s[a + i - 1] /\ a + i - 1 \in 1 .. Len(s)
    BY <2>2, SubSeqProperties
  <2>4. ToSet(t) \subseteq ToSet(s)
    BY <2>3 DEF ToSet
  <2>5. QED
    BY <2>1, <2>3, <2>4
<1>2. CASE ~(Len(s) > SeenMax)
  BY <1>2 DEF Trimmed
<1>3. QED
  BY <1>1, <1>2

\* What is remembered was remembered before or is new.
LEMMA RememberedType ==
    ASSUME seen \in Seq(Mails), NEW S \in SUBSET Mails, Remembered(S)
    PROVE  seen' \in Seq(Mails) /\ ToSet(seen') \subseteq ToSet(seen) \cup S
<1> DEFINE new == S \ ToSet(seen)
<1>1. PICK q \in [1 .. Cardinality(new) -> new] : seen' = Trimmed(seen \o q)
  BY DEF Remembered
<1>2. IsFiniteSet(Mails)
  BY ConstantsAssumption, FS_Interval DEF Mails
<1>3. new \in SUBSET Mails
  OBVIOUS
<1>4. Cardinality(new) \in Nat
  BY <1>2, <1>3, FS_Subset, FS_CardinalityType
<1>5. q \in Seq(Mails) /\ \A i \in 1 .. Len(q) : q[i] \in S
  <2>1. q \in [1 .. Cardinality(new) -> Mails]
    BY <1>1, <1>3
  <2> HIDE DEF new
  <2>2. q \in Seq(Mails)
    BY <1>4, <2>1, SeqDef
  <2>3. DOMAIN q = 1 .. Len(q)
    BY <2>2, LenProperties
  <2>4. ASSUME NEW i \in DOMAIN q PROVE q[i] \in S
    BY <1>1 DEF new
  <2>5. QED
    BY <2>2, <2>3, <2>4
<1>6. seen \o q \in Seq(Mails)
  BY <1>5
<1>7. ToSet(seen \o q) \subseteq ToSet(seen) \cup S
  <2>1. ASSUME NEW i \in 1 .. Len(seen \o q)
        PROVE  (seen \o q)[i] \in ToSet(seen) \cup S
    <3>1. CASE i <= Len(seen)
      BY <1>5, <2>1, <3>1 DEF ToSet
    <3>2. CASE i > Len(seen)
      <4>1. i - Len(seen) \in 1 .. Len(q) /\ (seen \o q)[i] = q[i - Len(seen)]
        BY <1>5, <2>1, <3>2
      <4>2. QED
        BY <1>5, <4>1
    <3>3. QED
      BY <1>5, <2>1, <3>1, <3>2
  <2>2. DOMAIN (seen \o q) = 1 .. Len(seen \o q)
    BY <1>6
  <2>3. QED
    BY <2>1, <2>2 DEF ToSet
<1>8. QED
  BY <1>1, <1>6, <1>7, TrimmedType

\* A batch is stored, each key once.
LEMMA StoredType ==
    ASSUME rows \subseteq Key \X Mails, NEW B \in SUBSET (Key \X Mails), Stored(B)
    PROVE  /\ rows' \subseteq Key \X Mails
           /\ rows \subseteq rows'
           /\ \A r \in rows' : r \in rows \/ r \in B
           /\ \A r \in B : \E q \in rows' : q[1] = r[1]
  BY DEF Stored
-----------------------------------------------------------------------------
(* Types.                                                                   *)

SyncTypes ==
    /\ sync \in [Syncers -> Round \cup {Off, Connected}]
    /\ sync[Poller] # Connected
    /\ \A w \in Workers : sync[w].at \notin PopPhases

Phases == ImapPhases \cup PopPhases

LEMMA BusyIsRound ==
    ASSUME TypeOK, NEW t \in Syncers, sync[t].at \in Phases
    PROVE  sync[t] \in Round
  BY DEF TypeOK, Off, Connected, Phases, ImapPhases, PopPhases

LEMMA RoundFields ==
    ASSUME NEW R \in Round
    PROVE  /\ R.at \in Phases /\ R.epoch \in 0 .. MaxEpoch
           /\ R.picked \subseteq Nat \X Mails /\ R.fallback \in BOOLEAN
           /\ R # Off /\ R # Connected
  BY DEF Round, Phases, ImapPhases, PopPhases, Off, Connected

\* One syncer goes on; only the poll is ever in a POP3 phase.
LEMMA TurnType ==
    ASSUME SyncTypes, NEW t \in Syncers, NEW R \in Round \cup {Off, Connected},
           R.at \in PopPhases => t = Poller, R = Connected => t # Poller,
           sync' = [sync EXCEPT ![t] = R]
    PROVE  SyncTypes'
<1>1. Poller \in Syncers /\ Workers \subseteq Syncers /\ Poller \notin Workers
  BY ConstantsAssumption DEF Syncers
<1>2. \A u \in Syncers : sync'[u] = IF u = t THEN R ELSE sync[u]
  BY DEF SyncTypes
<1>3. sync' \in [Syncers -> Round \cup {Off, Connected}]
  BY DEF SyncTypes
<1>4. sync'[Poller] # Connected
  BY <1>1, <1>2 DEF SyncTypes
<1>5. \A w \in Workers : sync'[w].at \notin PopPhases
  BY <1>1, <1>2 DEF SyncTypes
<1>6. QED
  BY <1>3, <1>4, <1>5 DEF SyncTypes

LEMMA FinishType ==
    ASSUME SyncTypes, NEW t \in Syncers, Finish(t)
    PROVE  SyncTypes'
  BY TurnType, ConstantsAssumption
     DEF Finish, Resting, Syncers, Off, Connected, PopPhases

LEMMA EnterType ==
    ASSUME SyncTypes, NEW t \in Syncers, NEW phase \in {"select", "list"},
           phase = "list" => t = Poller, Enter(t, phase)
    PROVE  SyncTypes'
<1> DEFINE R == [at |-> phase, epoch |-> 0, picked |-> {}, fallback |-> FALSE]
<1>1. R \in Round /\ R.at = phase
  BY ConstantsAssumption DEF Round, ImapPhases, PopPhases
<1>2. sync' = [sync EXCEPT ![t] = R]
  BY DEF Enter
<1>3. R.at \in PopPhases => t = Poller
  BY <1>1 DEF PopPhases
<1>4. R # Connected
  BY <1>1 DEF Connected
<1>5. QED
  BY <1>1, <1>2, <1>3, <1>4, TurnType

LEMMA FaultType ==
    ASSUME faults \in 0 .. MaxFaults, Fault PROVE faults' \in 0 .. MaxFaults
  BY ConstantsAssumption DEF Fault

\* A busy syncer moves to a phase, perhaps with a new window.
LEMMA PhaseType ==
    ASSUME TypeOK, NEW t \in Syncers, sync[t].at \in Phases,
           NEW phase \in Phases, phase \in PopPhases => t = Poller,
           NEW e \in 0 .. MaxEpoch, NEW P \in SUBSET (Nat \X Mails), NEW f \in BOOLEAN,
           sync' = [sync EXCEPT ![t] = [sync[t] EXCEPT !.at = phase, !.epoch = e,
                                                       !.picked = P, !.fallback = f]]
    PROVE  SyncTypes'
<1> DEFINE R == [sync[t] EXCEPT !.at = phase, !.epoch = e, !.picked = P, !.fallback = f]
<1>1. sync[t] \in Round
  BY BusyIsRound
<1>2. R \in Round /\ R.at = phase
  BY <1>1 DEF Round, Phases
<1>3. R # Connected /\ (R.at \in PopPhases => t = Poller)
  BY <1>2, RoundFields
<1>4. SyncTypes
  BY DEF TypeOK, SyncTypes
<1> HIDE DEF R
<1>5. QED
  BY <1>2, <1>3, <1>4, TurnType DEF R

LEMMA PopIsPoller ==
    ASSUME TypeOK, NEW t \in Syncers, sync[t].at \in PopPhases
    PROVE  t = Poller
  BY DEF TypeOK, Syncers

LEMMA TypeInit == Init => TypeOK
<1> SUFFICES ASSUME Init PROVE TypeOK
  OBVIOUS
<1>1. kind \in [Mails -> Kinds]
  BY ConstantsAssumption DEF Init
<1>2. /\ arrived \in 0 .. MaxMails /\ epoch \in 1 .. MaxEpoch /\ known \in 0 .. MaxEpoch
      /\ faults \in 0 .. MaxFaults /\ mark \in Nat
  BY ConstantsAssumption DEF Init
<1>3. /\ seen \in Seq(Mails) /\ protocol \in {"imap", "pop3", "auto"}
  BY ConstantsAssumption DEF Init
<1>4. SyncTypes
  BY ConstantsAssumption DEF Init, SyncTypes, Syncers, Off, Connected, PopPhases
<1>5. QED
  BY <1>1, <1>2, <1>3, <1>4 DEF Init, TypeOK, SyncTypes

LEMMA SyncPart == TypeOK => SyncTypes
  BY DEF TypeOK, SyncTypes

\* Windows.
LEMMA PicksTyped ==
    ASSUME TypeOK, NEW W \in SUBSET Mails
    PROVE  /\ {<<uid(m), m>> : m \in W} \in SUBSET (Nat \X Mails)
           /\ {<<m, m>> : m \in W} \in SUBSET (Nat \X Mails)
           /\ {uid(m) : m \in W} \in SUBSET Nat
<1>1. \A m \in W : uid(m) \in Nat
  BY UidTyped
<1>2. Mails \subseteq Nat
  BY ConstantsAssumption DEF Mails
<1>3. QED
  BY <1>1, <1>2

LEMMA WindowTypes ==
    ASSUME TypeOK, NEW t \in Syncers, Window(t)
    PROVE  TypeOK'
<1> DEFINE found == {m \in Mailbox : uid(m) > Base}
           older == Older(found, Base = 0)
           large == {m \in found : kind[m] = "huge"}
           fresh == found \ older
<1> DEFINE Result(sized, W) ==
              /\ \/ sized = fresh /\ UNCHANGED faults
                 \/ sized # fresh /\ Fault
              /\ RaiseMark({uid(m) : m \in older \cup (W \cap large)})
              /\ skipped' = skipped \cup older
              /\ IF W \subseteq large
                 THEN Finish(t)
                 ELSE sync' = [sync EXCEPT ![t].at = "upload",
                                           ![t].picked = {<<uid(m), m>> : m \in W \ large}]
<1>0. PICK sized \in Sized(fresh) : \E W \in Windows(sized, large) : Result(sized, W)
  BY DEF Window
<1>1. PICK W \in Windows(sized, large) : Result(sized, W)
  BY <1>0
<1>2. Mailbox \subseteq Mails
  BY MailboxFinite DEF TypeOK
<1>3. /\ older \subseteq Mails
      /\ W \subseteq Mails
  <2>1. older \subseteq found
    BY OlderSubset
  <2>2. sized \subseteq fresh /\ W \subseteq sized
    BY StartsSubset, WindowsAreStarts DEF Sized
  <2>3. QED
    BY <1>2, <2>1, <2>2
<1> HIDE DEF found, older, large, fresh
<1>4. sync[t].at = "window" /\ sync[t] \in Round
  BY BusyIsRound DEF Window, Phases, ImapPhases
<1>5. mark' \in Nat
  <2>1. older \cup (W \cap large) \in SUBSET Mails
    BY <1>3
  <2>2. QED
    BY <1>1, <2>1, PicksTyped, RaiseMarkType DEF TypeOK
<1>6. SyncTypes'
  <2>1. CASE W \subseteq large
    BY <1>1, <2>1, FinishType, SyncPart
  <2>2. CASE ~(W \subseteq large)
    <3> DEFINE P == {<<uid(m), m>> : m \in W \ large}
    <3>1. P \in SUBSET (Nat \X Mails)
      BY <1>3, PicksTyped
    <3>2. sync' = [sync EXCEPT ![t].at = "upload", ![t].picked = P]
      BY <1>1, <2>2
    <3> HIDE DEF P
    <3>3. sync' = [sync EXCEPT ![t] = [sync[t] EXCEPT !.at = "upload",
                      !.epoch = sync[t].epoch, !.picked = P, !.fallback = sync[t].fallback]]
      BY <3>2, <1>4 DEF TypeOK, Round
    <3>4. QED
      BY <3>1, <3>3, <1>4, PhaseType, RoundFields DEF Phases, ImapPhases, PopPhases
  <2>3. QED
    BY <2>1, <2>2
<1>7. faults' \in 0 .. MaxFaults
  BY <1>1, FaultType DEF TypeOK
<1>8. skipped' \subseteq Mails /\ known' \in 0 .. MaxEpoch
  BY <1>1, <1>3 DEF TypeOK, Window
<1>9. QED
  BY <1>5, <1>6, <1>7, <1>8 DEF TypeOK, SyncTypes, Window, server

LEMMA ListTypes ==
    ASSUME TypeOK, NEW t \in Syncers, List(t)
    PROVE  TypeOK'
<1> DEFINE pending == Mailbox \ ToSet(seen)
           older == Older(pending, seen = <<>>)
<1>1. PICK unknown \in SUBSET (pending \ older) :
        LET large == {m \in pending : kind[m] = "huge"} \cup unknown
        IN  \E W \in Windows(pending \ older, large) :
               /\ \/ unknown = {} /\ UNCHANGED faults
                  \/ unknown # {} /\ Fault
               /\ Remembered(older \cup (W \cap large))
               /\ skipped' = skipped \cup older \cup (W \cap unknown)
               /\ IF W \subseteq large
                  THEN IF sync[t].fallback
                       THEN sync' = [sync EXCEPT ![t].at = "pin"]
                       ELSE Finish(t)
                  ELSE sync' = [sync EXCEPT ![t].at = "store",
                                            ![t].picked = {<<m, m>> : m \in W \ large}]
  BY DEF List
<1> DEFINE large == {m \in pending : kind[m] = "huge"} \cup unknown
<1>2. PICK W \in Windows(pending \ older, large) :
               /\ \/ unknown = {} /\ UNCHANGED faults
                  \/ unknown # {} /\ Fault
               /\ Remembered(older \cup (W \cap large))
               /\ skipped' = skipped \cup older \cup (W \cap unknown)
               /\ IF W \subseteq large
                  THEN IF sync[t].fallback
                       THEN sync' = [sync EXCEPT ![t].at = "pin"]
                       ELSE Finish(t)
                  ELSE sync' = [sync EXCEPT ![t].at = "store",
                                            ![t].picked = {<<m, m>> : m \in W \ large}]
  BY <1>1
<1>3. older \subseteq Mails /\ W \subseteq Mails
  <2>1. older \subseteq pending
    BY OlderSubset
  <2>2. W \subseteq pending \ older
    <3>1. W \in Starts(pending \ older)
      BY <1>2, WindowsAreStarts
    <3>2. QED
      BY <3>1, StartsSubset
  <2>3. pending \subseteq Mails
    BY MailboxFinite DEF TypeOK
  <2>4. QED
    BY <2>1, <2>2, <2>3
<1> HIDE DEF pending, older, large
<1>4. sync[t].at = "list" /\ sync[t] \in Round /\ t = Poller
  BY BusyIsRound, PopIsPoller DEF List, Phases, PopPhases
<1>5. seen' \in Seq(Mails)
  <2>1. older \cup (W \cap large) \in SUBSET Mails
    BY <1>3
  <2>2. QED
    BY <1>2, <2>1, RememberedType DEF TypeOK
<1>6. SyncTypes'
  <2>1. CASE W \subseteq large /\ ~sync[t].fallback
    BY <1>2, <2>1, FinishType, SyncPart
  <2>2. CASE W \subseteq large /\ sync[t].fallback
    <3>1. sync' = [sync EXCEPT ![t] = [sync[t] EXCEPT !.at = "pin", !.epoch = sync[t].epoch,
                      !.picked = sync[t].picked, !.fallback = sync[t].fallback]]
      BY <1>2, <1>4, <2>2 DEF TypeOK, Round
    <3>2. QED
      BY <3>1, <1>4, PhaseType, RoundFields DEF Phases, PopPhases
  <2>3. CASE ~(W \subseteq large)
    <3> DEFINE P == {<<m, m>> : m \in W \ large}
    <3>1. P \in SUBSET (Nat \X Mails)
      BY <1>3, PicksTyped
    <3>2. sync' = [sync EXCEPT ![t].at = "store", ![t].picked = P]
      BY <1>2, <2>3
    <3> HIDE DEF P
    <3>3. sync' = [sync EXCEPT ![t] = [sync[t] EXCEPT !.at = "store",
                      !.epoch = sync[t].epoch, !.picked = P, !.fallback = sync[t].fallback]]
      BY <3>2, <1>4 DEF TypeOK, Round
    <3>4. QED
      BY <3>1, <3>3, <1>4, PhaseType, RoundFields DEF Phases, PopPhases
  <2>4. QED
    BY <2>1, <2>2, <2>3
<1>7. faults' \in 0 .. MaxFaults
  BY <1>2, FaultType DEF TypeOK
<1>8. skipped' \subseteq Mails
  BY <1>2, <1>3 DEF TypeOK
<1>9. QED
  BY <1>5, <1>6, <1>7, <1>8 DEF TypeOK, SyncTypes, List, server, imapMark

LEMMA BatchTyped ==
    ASSUME TypeOK, NEW t \in Syncers, sync[t].at \in Phases
    PROVE  /\ ImapBatch(t) \subseteq Key \X Mails
           /\ PopBatch(t) \subseteq Key \X Mails
           /\ Uploaded(t) \subseteq Mails
           /\ {p[1] : p \in sync[t].picked} \in SUBSET Nat
<1>1. sync[t].picked \subseteq Nat \X Mails /\ sync[t].epoch \in 0 .. MaxEpoch
  BY BusyIsRound, RoundFields
<1>2. \A p \in sync[t].picked : p[1] \in Nat /\ p[2] \in Mails
  BY <1>1
<1>3. 0 \in 0 .. MaxEpoch
  BY ConstantsAssumption
<1>4. \A p \in sync[t].picked :
         /\ [via |-> "imap", epoch |-> sync[t].epoch, number |-> p[1]] \in Key
         /\ [via |-> "pop3", epoch |-> 0, number |-> p[1]] \in Key
  BY <1>1, <1>2, <1>3 DEF Key
<1>5. Parsed(t) \subseteq sync[t].picked
  BY DEF Parsed
<1>6. \A p \in Parsed(t) : p[2] \in Mails
         /\ <<[via |-> "imap", epoch |-> sync[t].epoch, number |-> p[1]], p[2]>> \in Key \X Mails
         /\ <<[via |-> "pop3", epoch |-> 0, number |-> p[1]], p[2]>> \in Key \X Mails
  BY <1>2, <1>4, <1>5
<1>7. /\ \A r \in ImapBatch(t) : r \in Key \X Mails
      /\ \A r \in PopBatch(t) : r \in Key \X Mails
  BY <1>6, Zenon DEF ImapBatch, PopBatch
<1>8. Uploaded(t) \subseteq Mails
  BY <1>6 DEF Uploaded
<1>9. {p[1] : p \in sync[t].picked} \in SUBSET Nat
  BY <1>2
<1>10. QED
  BY <1>7, <1>8, <1>9

\* Steps of a round that only move on.
LEMMA GoOnTypes ==
    ASSUME TypeOK, NEW t \in Syncers, sync[t].at \in Phases,
           NEW phase \in Phases, phase \in PopPhases => t = Poller,
           sync' = [sync EXCEPT ![t].at = phase]
    PROVE  SyncTypes'
<1> DEFINE R == [sync[t] EXCEPT !.at = phase]
<1>1. sync[t] \in Round /\ SyncTypes
  BY BusyIsRound, SyncPart
<1>2. R \in Round /\ R.at = phase
  BY <1>1 DEF Round, Phases
<1>3. sync' = [sync EXCEPT ![t] = R]
  OBVIOUS
<1> HIDE DEF R
<1>4. R # Connected
  BY <1>2, RoundFields
<1>5. QED
  BY <1>1, <1>2, <1>3, <1>4, TurnType

LEMMA StepTypes ==
    ASSUME TypeOK, NEW t \in Syncers, Step(t)
    PROVE  TypeOK'
<1>1. CASE Select(t)
  <2>1. sync[t] \in Round
    BY <1>1, BusyIsRound DEF Select, Phases, ImapPhases
  <2>2. sync' = [sync EXCEPT ![t] = [sync[t] EXCEPT !.at = "window", !.epoch = epoch,
                    !.picked = sync[t].picked, !.fallback = sync[t].fallback]]
    BY <1>1, <2>1 DEF Select, TypeOK, Round
  <2>3. epoch \in 0 .. MaxEpoch
    BY DEF TypeOK
  <2>4. sync[t].at \in Phases /\ "window" \in Phases /\ "window" \notin PopPhases
    BY <1>1 DEF Select, Phases, ImapPhases, PopPhases
  <2>5. sync[t].picked \in SUBSET (Nat \X Mails) /\ sync[t].fallback \in BOOLEAN
    BY <2>1, RoundFields
  <2>6. SyncTypes'
    BY <2>2, <2>3, <2>4, <2>5, PhaseType
  <2>7. QED
    BY <1>1, <2>6 DEF Select, TypeOK, SyncTypes, server, imapMark
<1>2. CASE Window(t)
  BY <1>2, WindowTypes
<1>3. CASE Upload(t)
  <2>1. SyncTypes'
    BY <1>3, GoOnTypes DEF Upload, Phases, ImapPhases, PopPhases
  <2>2. rows' \subseteq Key \X Mails
    BY <1>3, BatchTyped, StoredType DEF Upload, TypeOK, Phases, ImapPhases
  <2>3. QED
    BY <1>3, <2>1, <2>2 DEF Upload, TypeOK, SyncTypes, server, imapMark
<1>4. CASE Advance(t)
  <2>1. SyncTypes'
    BY <1>4, SyncPart, FinishType DEF Advance
  <2>2. mark' \in Nat
    BY <1>4, BatchTyped, RaiseMarkType DEF Advance, TypeOK, Phases, ImapPhases
  <2>3. QED
    BY <1>4, <2>1, <2>2 DEF Advance, TypeOK, SyncTypes, server
<1>5. CASE List(t)
  BY <1>5, ListTypes
<1>6. CASE Store(t)
  <2>1. SyncTypes'
    BY <1>6, GoOnTypes, PopIsPoller DEF Store, Phases, PopPhases
  <2>2. rows' \subseteq Key \X Mails
    BY <1>6, BatchTyped, StoredType DEF Store, TypeOK, Phases, PopPhases
  <2>3. QED
    BY <1>6, <2>1, <2>2 DEF Store, TypeOK, SyncTypes, server, imapMark
<1>7. CASE StoreNothing(t)
  <2>1. SyncTypes'
    BY <1>7, SyncPart, FinishType DEF StoreNothing
  <2>2. QED
    BY <1>7, <2>1 DEF StoreNothing, TypeOK, SyncTypes, server, imapMark
<1>8. CASE Remember(t)
  <2>1. SyncTypes'
    BY <1>8, SyncPart, FinishType, GoOnTypes, PopIsPoller DEF Remember, Phases, PopPhases
  <2>2. seen' \in Seq(Mails)
    BY <1>8, BatchTyped, RememberedType DEF Remember, TypeOK, Phases, PopPhases
  <2>3. QED
    BY <1>8, <2>1, <2>2 DEF Remember, TypeOK, SyncTypes, server, imapMark
<1>9. CASE Pin(t)
  <2>1. SyncTypes'
    BY <1>9, SyncPart, FinishType DEF Pin
  <2>2. QED
    BY <1>9, <2>1 DEF Pin, TypeOK, SyncTypes, server, imapMark
<1>10. QED
  BY <1>1, <1>2, <1>3, <1>4, <1>5, <1>6, <1>7, <1>8, <1>9 DEF Step

LEMMA ErrorTypes ==
    ASSUME TypeOK, NEW t \in Syncers, Errors(t)
    PROVE  TypeOK'
<1>1. CASE WindowFails(t)
  <2>1. SyncTypes' /\ faults' \in 0 .. MaxFaults /\ known' \in 0 .. MaxEpoch
    BY <1>1, SyncPart, FinishType, FaultType DEF WindowFails, TypeOK
  <2>2. QED
    BY <1>1, <2>1 DEF WindowFails, TypeOK, SyncTypes, server
<1>2. CASE FallBack(t)
  <2>1. sync[t] \in Round /\ t = Poller
    BY <1>2, BusyIsRound DEF FallBack, FallsBack, Phases, ImapPhases
  <2>2. sync' = [sync EXCEPT ![t] = [sync[t] EXCEPT !.at = "list", !.epoch = sync[t].epoch,
                    !.picked = sync[t].picked, !.fallback = TRUE]]
    BY <1>2, <2>1 DEF FallBack, TypeOK, Round
  <2>3. SyncTypes'
    BY <2>1, <2>2, PhaseType, RoundFields DEF Phases, PopPhases
  <2>4. faults' \in 0 .. MaxFaults
    BY <1>2, FaultType DEF FallBack, TypeOK
  <2>5. QED
    BY <1>2, <2>3, <2>4 DEF FallBack, TypeOK, SyncTypes, server, imapMark
<1>3. CASE Fail(t)
  <2>1. SyncTypes' /\ faults' \in 0 .. MaxFaults
    BY <1>3, SyncPart, FinishType, FaultType DEF Fail, TypeOK
  <2>2. QED
    BY <1>3, <2>1 DEF Fail, TypeOK, SyncTypes, server, imapMark
<1>4. ASSUME NEW B \in SUBSET (Key \X Mails), UploadFails(t, B)
      PROVE  TypeOK'
  <2>1. SyncTypes' /\ faults' \in 0 .. MaxFaults
    BY <1>4, SyncPart, FinishType, FaultType DEF UploadFails, TypeOK
  <2>2. PICK last \in Mails \cup {0} : Stored({r \in B : r[2] <= last})
    BY <1>4 DEF UploadFails
  <2>3. rows' \subseteq Key \X Mails
    BY <2>2, StoredType DEF TypeOK
  <2>4. QED
    BY <1>4, <2>1, <2>3 DEF UploadFails, TypeOK, SyncTypes, server, imapMark
<1>5. sync[t].at \in {"upload", "store"} =>
        ImapBatch(t) \in SUBSET (Key \X Mails) /\ PopBatch(t) \in SUBSET (Key \X Mails)
  BY BatchTyped DEF Phases, ImapPhases, PopPhases
<1>6. QED
  BY <1>1, <1>2, <1>3, <1>4, <1>5 DEF Errors

LEMMA OutsideTypes ==
    ASSUME TypeOK,
           \/ Arrive \/ Renumber \/ ChooseImap \/ Begin \/ Crash
           \/ \E w \in Workers : Connect(w) \/ Disconnect(w)
    PROVE  TypeOK'
<1>0. SyncTypes /\ Workers \subseteq Syncers /\ Poller \in Syncers
  BY SyncPart DEF Syncers
<1>1. CASE Arrive
  BY <1>1, ConstantsAssumption DEF Arrive, TypeOK, imapMark
<1>2. CASE Renumber
  BY <1>2, ConstantsAssumption DEF Renumber, TypeOK, imapMark
<1>3. CASE ChooseImap
  BY <1>3 DEF ChooseImap, TypeOK, server, imapMark
<1>4. CASE BeginPoll
  <2>1. SyncTypes'
    BY <1>0, <1>4, EnterType DEF BeginPoll
  <2>2. pinned' \in BOOLEAN
    BY <1>4 DEF BeginPoll, TypeOK
  <2>3. QED
    BY <1>4, <2>1, <2>2 DEF BeginPoll, TypeOK, SyncTypes, server, imapMark
<1>5. ASSUME NEW w \in Workers, BeginWork(w) PROVE TypeOK'
  <2>1. SyncTypes'
    BY <1>0, <1>5, EnterType DEF BeginWork
  <2>2. QED
    BY <1>5, <2>1 DEF BeginWork, TypeOK, SyncTypes, server, imapMark
<1>6. CASE Crash
  <2>1. SyncTypes'
    BY <1>6, ConstantsAssumption DEF Crash, SyncTypes, Syncers, Off, Connected, PopPhases
  <2>2. faults' \in 0 .. MaxFaults
    BY <1>6, FaultType DEF Crash, TypeOK
  <2>3. QED
    BY <1>6, <2>1, <2>2 DEF Crash, TypeOK, SyncTypes, server, imapMark
<1>7. ASSUME NEW w \in Workers, Connect(w) \/ Disconnect(w) PROVE TypeOK'
  <2>1. w # Poller /\ w \in Syncers
    BY ConstantsAssumption DEF Syncers
  <2>2. SyncTypes'
    BY <1>0, <1>7, <2>1, TurnType DEF Connect, Disconnect, Off, Connected, PopPhases
  <2>3. QED
    BY <1>7, <2>2 DEF Connect, Disconnect, TypeOK, SyncTypes, server, imapMark
<1>8. QED
  BY <1>1, <1>2, <1>3, <1>4, <1>5, <1>6, <1>7 DEF Begin

LEMMA TypeNext == TypeOK /\ [Next]_vars => TypeOK'
<1> SUFFICES ASSUME TypeOK, [Next]_vars PROVE TypeOK'
  OBVIOUS
<1>1. CASE UNCHANGED vars
  BY <1>1 DEF vars, server, imapMark, TypeOK
<1>2. CASE Next
  BY <1>2, StepTypes, ErrorTypes, OutsideTypes DEF Next
<1>3. QED
  BY <1>1, <1>2

\* The state file, the rows and every round keep their shape through all
\* overlaps, errors and crashes.
THEOREM TypeCorrect == Spec => []TypeOK
<1>1. Init => TypeOK
  BY TypeInit
<1>2. TypeOK /\ [Next]_vars => TypeOK'
  BY TypeNext
<1>3. QED
  BY <1>1, <1>2, PTL DEF Spec

-----------------------------------------------------------------------------
(* The mark.                                                                *)

\* A mail the mark may stand above.
Excused(m) == Handled(m) \/ \E n \in Mailbox : m < n /\ kind[n] = "huge"

\* What a syncer knows of the mails up to those it picked: stored or excused,
\* or picked too; once the upload is done, the latter no more.
RoundOK(t) ==
    sync[t].at \in {"upload", "advance"} =>
        \A p \in sync[t].picked :
            /\ p[2] \in Mailbox
            /\ p[1] = uid(p[2])
            /\ \A m \in Mailbox : m <= p[2] =>
                  \/ Excused(m)
                  \/ sync[t].at = "upload" /\ \E q \in sync[t].picked : q[2] = m

FirstEpoch ==
    /\ mark <= offset + arrived
    /\ \A m \in Mailbox : uid(m) <= mark => Excused(m)
    /\ \A r \in rows : r[1].via = "imap" => r[1].number = uid(r[2])
    /\ \A t \in Syncers : RoundOK(t)

ImapInv == known <= epoch /\ (epoch = 1 => FirstEpoch)

\* Every step but a change of UIDVALIDITY adds to what is known.
Grows ==
    /\ kind' = kind /\ offset' = offset /\ epoch' = epoch
    /\ arrived <= arrived'
    /\ rows \subseteq rows'
    /\ skipped \subseteq skipped'

LEMMA StoredGrows == ASSUME NEW B, Stored(B) PROVE rows \subseteq rows'
  BY DEF Stored

LEMMA StepGrows ==
    ASSUME TypeOK, NEW t \in Syncers, Step(t) \/ Errors(t)
    PROVE  Grows /\ arrived' = arrived
<1>0. arrived <= arrived
  BY DEF TypeOK
<1>1. CASE Select(t)
  BY <1>0, <1>1 DEF Select, Grows, server
<1>2. CASE Window(t)
  <2>1. skipped \subseteq skipped'
    BY <1>2 DEF Window
  <2>2. QED
    BY <1>0, <1>2, <2>1 DEF Window, Grows, server
<1>3. CASE Upload(t)
  BY <1>0, <1>3, StoredGrows DEF Upload, Grows, server
<1>4. CASE Advance(t)
  BY <1>0, <1>4 DEF Advance, Grows, server
<1>5. CASE List(t)
  <2>1. skipped \subseteq skipped'
    BY <1>5 DEF List
  <2>2. QED
    BY <1>0, <1>5, <2>1 DEF List, Grows, server
<1>6. CASE Store(t)
  BY <1>0, <1>6, StoredGrows DEF Store, Grows, server
<1>7. CASE StoreNothing(t) \/ Remember(t) \/ Pin(t)
  BY <1>0, <1>7 DEF StoreNothing, Remember, Pin, Grows, server
<1>8. CASE WindowFails(t) \/ FallBack(t) \/ Fail(t)
  BY <1>0, <1>8 DEF WindowFails, FallBack, Fail, Grows, server
<1>9. ASSUME NEW B, UploadFails(t, B) PROVE Grows /\ arrived' = arrived
  <2>1. rows \subseteq rows'
    BY <1>9, StoredGrows DEF UploadFails
  <2>2. QED
    BY <1>0, <1>9, <2>1 DEF UploadFails, Grows, server
<1>10. QED
  BY <1>1, <1>2, <1>3, <1>4, <1>5, <1>6, <1>7, <1>8, <1>9 DEF Step, Errors

LEMMA DownInterval ==
    ASSUME NEW a \in Nat, NEW b \in Nat, NEW n \in 1 .. a, NEW m \in 1 .. b, m <= n
    PROVE  m \in 1 .. a
  OBVIOUS

LEMMA BoundGrows ==
    ASSUME NEW a \in Nat, NEW b \in Nat, NEW c \in Nat, NEW d \in Nat,
           a <= b + c, c <= d
    PROVE  a <= b + d
  OBVIOUS

\* A mail that has just arrived is above the mark.
LEMMA NewAbove ==
    ASSUME NEW a \in Nat, NEW b \in Nat, NEW c \in Nat, NEW d \in Nat,
           a <= b + c, NEW m \in 1 .. d, b + m <= a
    PROVE  m \in 1 .. c
  OBVIOUS

LEMMA AddCancels ==
    ASSUME NEW a \in Nat, NEW m \in Int, NEW n \in Int
    PROVE  (a + m = a + n => m = n) /\ (a + m <= a + n <=> m <= n)
  OBVIOUS

LEMMA MailboxGrows ==
    ASSUME TypeOK, TypeOK', Grows
    PROVE  Mailbox \subseteq Mailbox'
  BY ConstantsAssumption DEF TypeOK, Grows, Mailbox

LEMMA HandledStays ==
    ASSUME Grows, NEW m, Handled(m)
    PROVE  Handled(m)'
  BY DEF Grows, Handled, HasRow

LEMMA ExcusedStays ==
    ASSUME TypeOK, TypeOK', Grows, NEW m, Excused(m)
    PROVE  Excused(m)'
<1>1. CASE Handled(m)
  BY <1>1, HandledStays DEF Excused
<1>2. CASE \E n \in Mailbox : m < n /\ kind[n] = "huge"
  BY <1>2, MailboxGrows DEF Excused, Grows
<1>3. QED
  BY <1>1, <1>2 DEF Excused

\* A round that stands still, or is not about IMAP mails, stays right.
LEMMA RoundKept ==
    ASSUME TypeOK, TypeOK', Grows, NEW u \in Syncers, RoundOK(u),
           sync'[u] = sync[u] \/ sync'[u].at \notin {"upload", "advance"}
    PROVE  RoundOK(u)'
<1>1. CASE sync'[u].at \notin {"upload", "advance"}
  BY <1>1 DEF RoundOK
<1>2. CASE sync'[u] = sync[u]
  <2> SUFFICES ASSUME sync[u].at \in {"upload", "advance"}, NEW p \in sync[u].picked
               PROVE  /\ p[2] \in Mailbox'
                      /\ p[1] = uid(p[2])'
                      /\ \A m \in Mailbox' : m <= p[2] =>
                            \/ Excused(m)'
                            \/ sync[u].at = "upload" /\ \E q \in sync[u].picked : q[2] = m
    BY <1>2 DEF RoundOK
  <2>1. p[2] \in Mailbox /\ p[1] = uid(p[2])
    BY DEF RoundOK
  <2>2. p[2] \in Mailbox' /\ p[1] = uid(p[2])'
    BY <2>1, MailboxGrows DEF uid, Grows
  <2>3. ASSUME NEW m \in Mailbox', m <= p[2] PROVE m \in Mailbox
    <3>1. arrived \in Nat /\ arrived' \in Nat
      BY ConstantsAssumption DEF TypeOK
    <3>2. QED
      BY <2>1, <2>3, <3>1, DownInterval DEF Mailbox
  <2>4. QED
    BY <2>2, <2>3, ExcusedStays DEF RoundOK
<1>3. QED
  BY <1>1, <1>2

\* So does a mark that stands still.
LEMMA MarkKept ==
    ASSUME TypeOK, TypeOK', Grows, mark' = mark, FirstEpoch
    PROVE  /\ mark' <= offset' + arrived'
           /\ \A m \in Mailbox' : uid(m)' <= mark' => Excused(m)'
<1>0. /\ arrived \in Nat /\ arrived' \in Nat /\ offset \in Nat /\ mark \in Nat
      /\ offset' = offset /\ arrived <= arrived' /\ mark <= offset + arrived
  BY ConstantsAssumption DEF TypeOK, Grows, FirstEpoch
<1>1. mark' <= offset' + arrived'
  BY <1>0, BoundGrows
<1>2. ASSUME NEW m \in Mailbox', uid(m)' <= mark' PROVE Excused(m)'
  <2>1. m \in 1 .. arrived' /\ offset + m <= mark
    BY <1>0, <1>2 DEF Mailbox, uid
  <2>2. m \in Mailbox /\ uid(m) <= mark
    BY <1>0, <2>1 DEF Mailbox, uid
  <2>3. QED
    BY <2>2, ExcusedStays DEF FirstEpoch
<1>3. QED
  BY <1>1, <1>2

LEMMA KeysKept ==
    ASSUME TypeOK, Grows, rows' = rows, FirstEpoch
    PROVE  \A r \in rows' : r[1].via = "imap" => r[1].number = uid(r[2])'
  BY DEF FirstEpoch, Grows, uid

\* Steps that neither move the mark nor store mails nor pick a window.
LEMMA FirstEpochKept ==
    ASSUME TypeOK, TypeOK', Grows, FirstEpoch, mark' = mark, rows' = rows,
           \A u \in Syncers : sync'[u] = sync[u] \/ sync'[u].at \notin {"upload", "advance"}
    PROVE  FirstEpoch'
<1>1. \A u \in Syncers : RoundOK(u)'
  BY RoundKept DEF FirstEpoch
<1>2. QED
  BY <1>1, MarkKept, KeysKept DEF FirstEpoch

\* Mail stored by an upload under the keys of this epoch.
LEMMA KeysStored ==
    ASSUME TypeOK, NEW t \in Syncers, sync[t].at \in {"upload", "store"}, FirstEpoch, Grows,
           NEW B, B \subseteq ImapBatch(t) \/ B \subseteq PopBatch(t),
           sync[t].at = "upload" \/ B \subseteq PopBatch(t), Stored(B)
    PROVE  \A r \in rows' : r[1].via = "imap" => r[1].number = uid(r[2])'
<1> SUFFICES ASSUME NEW r \in rows', r[1].via = "imap"
             PROVE  r[1].number = uid(r[2])'
  OBVIOUS
<1>1. r \in rows \/ r \in B
  BY DEF Stored
<1>2. CASE r \in rows
  BY <1>2 DEF FirstEpoch, Grows, uid
<1>3. CASE r \in PopBatch(t)
  BY <1>3 DEF PopBatch
<1>4. CASE r \in B /\ r \notin PopBatch(t)
  <2>1. r \in ImapBatch(t) /\ sync[t].at = "upload"
    BY <1>4
  <2>2. PICK p \in sync[t].picked :
          r = <<[via |-> "imap", epoch |-> sync[t].epoch, number |-> p[1]], p[2]>>
    BY <2>1 DEF ImapBatch, Parsed
  <2>3. p[1] = uid(p[2])
    BY <2>1 DEF FirstEpoch, RoundOK
  <2>4. QED
    BY <2>2, <2>3 DEF Grows, uid
<1>5. QED
  BY <1>1, <1>2, <1>3, <1>4

\* After the upload every picked mail has a row, unless it cannot be parsed.
LEMMA UploadStores ==
    ASSUME TypeOK, TypeOK', NEW t \in Syncers, sync[t].at = "upload", FirstEpoch, Grows,
           Stored(ImapBatch(t)), NEW p \in sync[t].picked
    PROVE  Handled(p[2])'
<1>1. CASE kind[p[2]] = "bad"
  BY <1>1 DEF Handled, Grows
<1>2. CASE kind[p[2]] # "bad"
  <2> DEFINE k == [via |-> "imap", epoch |-> sync[t].epoch, number |-> p[1]]
  <2>1. <<k, p[2]>> \in ImapBatch(t)
    BY <1>2 DEF ImapBatch, Parsed
  <2>2. PICK q \in rows' : q[1] = k
    BY <2>1 DEF Stored
  <2>3. q[1].number = uid(q[2])' /\ p[1] = uid(p[2]) /\ p[2] \in Mailbox
    BY <2>2, KeysStored DEF FirstEpoch, RoundOK
  <2>4. q[2] \in Mails /\ p[2] \in Mails /\ offset \in Nat
    BY <2>2, <2>3, MailboxFinite, ConstantsAssumption DEF TypeOK
  <2>5. q[2] = p[2]
    <3>0. q[1].number = p[1]
      BY <2>2
    <3>1. offset + q[2] = offset + p[2]
      BY <2>3, <3>0 DEF Grows, uid
    <3>2. q[2] \in Int /\ p[2] \in Int
      BY <2>4, ConstantsAssumption DEF Mails
    <3>3. QED
      BY <2>4, <3>1, <3>2, AddCancels
  <2>6. QED
    BY <2>5 DEF Handled, HasRow
<1>3. QED
  BY <1>1, <1>2

LEMMA UploadKeeps ==
    ASSUME TypeOK, TypeOK', NEW t \in Syncers, Upload(t), FirstEpoch, Grows, arrived' = arrived
    PROVE  FirstEpoch'
<1>1. /\ sync[t].at = "upload" /\ Stored(ImapBatch(t)) /\ mark' = mark
      /\ sync' = [sync EXCEPT ![t].at = "advance"]
  BY DEF Upload, imapMark
<1>2. sync[t] \in Round
  BY <1>1, BusyIsRound DEF Phases, ImapPhases
<1>3. /\ sync'[t].at = "advance" /\ sync'[t].picked = sync[t].picked
      /\ \A u \in Syncers \ {t} : sync'[u] = sync[u]
  BY <1>1, <1>2 DEF TypeOK, Round
<1>4. RoundOK(t)'
  <2> SUFFICES ASSUME NEW p \in sync[t].picked
               PROVE  /\ p[2] \in Mailbox'
                      /\ p[1] = uid(p[2])'
                      /\ \A m \in Mailbox' : m <= p[2] => Excused(m)'
    BY <1>3 DEF RoundOK
  <2>1. Mailbox' = Mailbox
    BY DEF Mailbox
  <2>2. p[2] \in Mailbox' /\ p[1] = uid(p[2])'
    BY <1>1, <2>1 DEF FirstEpoch, RoundOK, uid, Grows
  <2>3. ASSUME NEW m \in Mailbox, m <= p[2] PROVE Excused(m)'
    <3>1. CASE Excused(m)
      BY <3>1, ExcusedStays
    <3>2. CASE \E q \in sync[t].picked : q[2] = m
      BY <1>1, <3>2, UploadStores DEF Excused
    <3>3. QED
      BY <1>1, <2>3, <3>1, <3>2 DEF FirstEpoch, RoundOK
  <2>4. QED
    BY <2>1, <2>2, <2>3
<1>5. ASSUME NEW u \in Syncers, u # t PROVE RoundOK(u)'
  BY <1>3, <1>5, RoundKept DEF FirstEpoch
<1>6. \A r \in rows' : r[1].via = "imap" => r[1].number = uid(r[2])'
  BY <1>1, KeysStored
<1>7. QED
  BY <1>1, <1>4, <1>5, <1>6, MarkKept DEF FirstEpoch

LEMMA UidBelow ==
    ASSUME TypeOK, NEW m \in Mailbox
    PROVE  uid(m) \in Nat /\ uid(m) <= offset + arrived
  BY ConstantsAssumption DEF TypeOK, Mailbox, uid

\* The mark moves to a picked UID when everything below is stored or excused.
LEMMA AdvanceKeeps ==
    ASSUME TypeOK, TypeOK', NEW t \in Syncers, Advance(t), FirstEpoch, Grows, arrived' = arrived
    PROVE  FirstEpoch'
<1>1. /\ sync[t].at = "advance" /\ RaiseMark({p[1] : p \in sync[t].picked}) /\ Finish(t)
      /\ rows' = rows
  BY DEF Advance
<1>2. {p[1] : p \in sync[t].picked} \in SUBSET Nat
  BY <1>1, BatchTyped DEF Phases, ImapPhases
<1>3. mark' \in {p[1] : p \in sync[t].picked} \cup {mark}
  BY <1>1, <1>2, RaiseMarkType DEF TypeOK
<1>4. Mailbox' = Mailbox /\ offset' = offset
  BY DEF Mailbox, Grows
<1>5. \A u \in Syncers : sync'[u] = sync[u] \/ sync'[u].at \notin {"upload", "advance"}
  BY <1>1 DEF Finish, Resting, Off, Connected, TypeOK
<1>6. CASE mark' = mark
  BY <1>1, <1>5, <1>6, FirstEpochKept
<1>7. ASSUME NEW p \in sync[t].picked, mark' = p[1] PROVE FirstEpoch'
  <2>1. /\ p[2] \in Mailbox /\ p[1] = uid(p[2])
        /\ \A m \in Mailbox : m <= p[2] => Excused(m)
    BY <1>1 DEF FirstEpoch, RoundOK
  <2>2. mark' <= offset' + arrived'
    BY <1>4, <1>7, <2>1, UidBelow
  <2>3. ASSUME NEW m \in Mailbox', uid(m)' <= mark' PROVE Excused(m)'
    <3>1. m \in Mailbox /\ offset + m <= offset + p[2]
      BY <1>4, <1>7, <2>1, <2>3 DEF uid
    <3>2. m \in Int /\ p[2] \in Int /\ offset \in Nat
      <4>1. offset \in Nat
        BY ConstantsAssumption DEF TypeOK
      <4>2. Mailbox \subseteq Int
        BY DEF Mailbox
      <4>3. QED
        BY <2>1, <3>1, <4>1, <4>2
    <3>3. m <= p[2]
      BY <3>1, <3>2, AddCancels
    <3>4. QED
      BY <2>1, <3>1, <3>3, ExcusedStays
  <2>4. \A u \in Syncers : RoundOK(u)'
    BY <1>5, RoundKept DEF FirstEpoch
  <2>5. QED
    BY <1>1, <2>2, <2>3, <2>4, KeysKept DEF FirstEpoch
<1>8. QED
  BY <1>3, <1>6, <1>7

\* A window starts above the mark; whatever it passes is too large, left out
\* by a first sync or picked.
LEMMA WindowKeeps ==
    ASSUME TypeOK, TypeOK', NEW t \in Syncers, Window(t), ImapInv, epoch = 1,
           Grows, arrived' = arrived
    PROVE  FirstEpoch'
<1> DEFINE found == {m \in Mailbox : uid(m) > Base}
           older == Older(found, Base = 0)
           large == {m \in found : kind[m] = "huge"}
           fresh == found \ older
           U(W) == {uid(m) : m \in older \cup (W \cap large)}
           P(W) == {<<uid(m), m>> : m \in W \ large}
           Result(sized, W) ==
              /\ \/ sized = fresh /\ UNCHANGED faults
                 \/ sized # fresh /\ Fault
              /\ RaiseMark(U(W))
              /\ skipped' = skipped \cup older
              /\ IF W \subseteq large
                 THEN Finish(t)
                 ELSE sync' = [sync EXCEPT ![t].at = "upload", ![t].picked = P(W)]
<1>0. PICK sized \in Sized(fresh) : \E W \in Windows(sized, large) : Result(sized, W)
  BY DEF Window
<1>1. PICK W \in Windows(sized, large) : Result(sized, W)
  BY <1>0
<1>2. FirstEpoch /\ Base = mark
  BY DEF ImapInv, Base, TypeOK
<1>3. Mailbox \subseteq Mails /\ IsFiniteSet(Mailbox) /\ Mailbox' = Mailbox /\ offset' = offset
  BY MailboxFinite DEF TypeOK, Mailbox, Grows
<1>4. /\ found \in SUBSET Mails /\ IsFiniteSet(found) /\ older \subseteq found
      /\ fresh \in SUBSET Mails
  BY <1>3, FS_Subset, OlderSubset
<1>5. /\ sized \in Starts(fresh) /\ sized \subseteq fresh
      /\ W \in Starts(sized) /\ W \subseteq sized
  BY StartsSubset, WindowsAreStarts DEF Sized
<1>6. \A m \in found : uid(m) > mark /\ m \in Mailbox
  BY <1>2
<1>7. \A m \in Mailbox \ found : Excused(m)'
  <2>1. ASSUME NEW m \in Mailbox \ found PROVE uid(m) <= mark
    <3>1. ~(uid(m) > mark) /\ uid(m) \in Int /\ mark \in Int
      BY <1>2, UidBelow DEF TypeOK
    <3>2. QED
      BY <3>1
  <2>2. QED
    BY <1>2, <2>1, ExcusedStays DEF FirstEpoch
<1>8. \A m \in older \cup large : Excused(m)'
  BY <1>1, <1>4 DEF Excused, Handled, Grows, HasRow
<1>9. \A m \in large : kind'[m] = "huge" /\ m \in Mailbox
  BY DEF Grows
<1>10. \A n \in W, m \in found : m <= n => m \in W \/ m \in older
  <2> SUFFICES ASSUME NEW n \in W, NEW m \in found, m <= n, m \notin older
               PROVE  m \in W
    OBVIOUS
  <2>1. m \in fresh /\ n \in sized
    BY <1>5
  <2>2. m \in sized
    BY <1>4, <1>5, <2>1, StartsDown
  <2>3. sized \in SUBSET Mails
    BY <1>4, <1>5
  <2>4. QED
    BY <1>5, <2>2, <2>3, StartsDown
<1>11. \A n \in older, m \in found : m <= n => m \in older
  BY <1>4, OlderDown
<1>12. \A m \in Mailbox : m \in Int /\ uid(m) \in Nat
  BY <1>3, UidBelow, ConstantsAssumption DEF Mailbox, TypeOK
<1>13. \A m, n \in Mailbox : uid(m) <= uid(n) <=> m <= n
  <2>1. offset \in Nat
    BY ConstantsAssumption DEF TypeOK
  <2>2. QED
    BY <1>12, <2>1, AddCancels DEF uid
<1>14. older \cup (W \cap large) \subseteq Mailbox /\ W \subseteq found
  BY <1>4, <1>5
<1>15. mark' \in U(W) \cup {mark}
  <2>1. U(W) \in SUBSET Nat
    BY <1>12, <1>14
  <2>2. RaiseMark(U(W)) /\ mark \in Nat
    BY <1>1 DEF TypeOK
  <2> HIDE DEF U
  <2>3. QED
    BY <2>1, <2>2, RaiseMarkType
<1>16. mark' <= offset' + arrived'
  <2>1. CASE mark' = mark
    BY <1>2, <1>3, <2>1 DEF FirstEpoch
  <2>2. CASE mark' \in U(W)
    BY <1>3, <1>14, <2>2, UidBelow
  <2>3. QED
    BY <1>15, <2>1, <2>2
<1>17. ASSUME NEW m \in Mailbox, uid(m) <= mark' PROVE Excused(m)'
  <2>1. CASE m \notin found
    BY <1>7, <2>1
  <2>2. CASE m \in found
    <3>1. mark' # mark
      BY <1>6, <1>12, <1>17, <2>2 DEF TypeOK
    <3>2. PICK n \in older \cup (W \cap large) : mark' = uid(n)
      BY <1>15, <3>1
    <3>3. m <= n
      BY <1>13, <1>14, <1>17, <3>2
    <3>4. CASE n \in older
      BY <1>8, <1>11, <2>2, <3>3, <3>4
    <3>5. CASE n \in large
      <4>1. CASE m = n
        BY <1>8, <3>5, <4>1
      <4>2. CASE m < n
        BY <1>3, <1>9, <3>5, <4>2 DEF Excused
      <4>3. QED
        BY <1>9, <1>12, <3>3, <3>5, <4>1, <4>2
    <3>6. QED
      BY <3>2, <3>4, <3>5
  <2>3. QED
    BY <2>1, <2>2
<1>18. sync[t].at = "window" /\ sync[t] \in Round
  BY BusyIsRound DEF Window, Phases, ImapPhases
<1>19. ASSUME NEW u \in Syncers, u # t PROVE RoundOK(u)'
  <2>1. sync'[u] = sync[u]
    BY <1>1, <1>19 DEF Finish, TypeOK
  <2>2. QED
    BY <1>2, <1>19, <2>1, RoundKept DEF FirstEpoch
<1>20. RoundOK(t)'
  <2>1. CASE W \subseteq large
    BY <1>1, <2>1 DEF Finish, Resting, Off, Connected, TypeOK, RoundOK
  <2>2. CASE ~(W \subseteq large)
    <3>1. sync'[t].at = "upload" /\ sync'[t].picked = P(W)
      BY <1>1, <1>18, <2>2 DEF TypeOK, Round
    <3>2. ASSUME NEW n \in W \ large, NEW m \in Mailbox, m <= n
          PROVE  Excused(m)' \/ \E q \in P(W) : q[2] = m
      <4>1. CASE m \notin found \/ m \in older \cup large
        BY <1>7, <1>8, <3>2, <4>1
      <4>2. CASE m \in W \ large
        <5>1. <<uid(m), m>> \in P(W) /\ <<uid(m), m>>[2] = m
          BY <4>2
        <5>2. QED
          BY <5>1
      <4>3. QED
        BY <1>10, <3>2, <4>1, <4>2
    <3>3. ASSUME NEW p \in P(W)
          PROVE  \E n \in W \ large : p[1] = uid(n) /\ p[2] = n
      OBVIOUS
    <3>4. \A n \in W \ large : n \in Mailbox' /\ uid(n) = uid(n)'
      BY <1>3, <1>6, <1>14 DEF uid
    <3> HIDE DEF P
    <3>5. ASSUME NEW p \in P(W)
          PROVE  /\ p[2] \in Mailbox' /\ p[1] = uid(p[2])'
                 /\ \A m \in Mailbox' : m <= p[2] => Excused(m)' \/ \E q \in P(W) : q[2] = m
      BY <1>3, <3>2, <3>3, <3>4
    <3>6. QED
      BY <3>1, <3>5 DEF RoundOK
  <2>3. QED
    BY <2>1, <2>2
<1>21. \A m \in Mailbox' : uid(m)' <= mark' => Excused(m)'
  BY <1>3, <1>17 DEF uid
<1>22. rows' = rows
  BY DEF Window
<1>23. QED
  BY <1>2, <1>16, <1>19, <1>20, <1>21, <1>22, KeysKept DEF FirstEpoch

LEMMA RoundStepKeeps ==
    ASSUME TypeOK, TypeOK', NEW t \in Syncers, Step(t) \/ Errors(t), ImapInv, epoch = 1
    PROVE  FirstEpoch'
<1>1. Grows /\ arrived' = arrived /\ FirstEpoch
  BY StepGrows DEF ImapInv
<1>2. CASE Window(t)
  BY <1>1, <1>2, WindowKeeps
<1>3. CASE Upload(t)
  BY <1>1, <1>3, UploadKeeps
<1>4. CASE Advance(t)
  BY <1>1, <1>4, AdvanceKeeps
<1>5. ASSUME mark' = mark, rows' = rows,
             \A u \in Syncers : sync'[u] = sync[u] \/ sync'[u].at \notin {"upload", "advance"}
      PROVE  FirstEpoch'
  BY <1>1, <1>5, FirstEpochKept
<1>6. Finish(t) =>
        \A u \in Syncers : sync'[u] = sync[u] \/ sync'[u].at \notin {"upload", "advance"}
  BY DEF Finish, Resting, Off, Connected, TypeOK
<1>7. ASSUME sync[t].at \in Phases, NEW phase \in Phases, NEW e,
             \/ sync' = [sync EXCEPT ![t].at = phase]
             \/ sync' = [sync EXCEPT ![t].at = phase, ![t].epoch = e]
             \/ sync' = [sync EXCEPT ![t].at = phase, ![t].picked = e]
             \/ sync' = [sync EXCEPT ![t].at = phase, ![t].fallback = TRUE],
             phase \notin {"upload", "advance"}
      PROVE  \A u \in Syncers : sync'[u] = sync[u] \/ sync'[u].at \notin {"upload", "advance"}
  <2>1. sync[t] \in Round
    BY <1>7, BusyIsRound
  <2>2. sync'[t].at = phase /\ \A u \in Syncers \ {t} : sync'[u] = sync[u]
    BY <1>7, <2>1 DEF TypeOK, Round
  <2>3. QED
    BY <1>7, <2>2
<1>8. CASE Select(t)
  <2>1. sync[t] \in Round
    BY <1>8, BusyIsRound DEF Select, Phases, ImapPhases
  <2>2. \A u \in Syncers : sync'[u] = sync[u] \/ sync'[u].at = "window"
    BY <1>8, <2>1 DEF Select, TypeOK, Round
  <2>3. mark' = mark /\ rows' = rows
    BY <1>8 DEF Select, imapMark
  <2>4. QED
    BY <1>5, <2>2, <2>3
<1>9. CASE List(t)
  <2>1. sync[t].at = "list" /\ mark' = mark /\ rows' = rows
    BY <1>9 DEF List, imapMark
  <2>2. \/ Finish(t)
        \/ sync' = [sync EXCEPT ![t].at = "pin"]
        \/ \E P : sync' = [sync EXCEPT ![t].at = "store", ![t].picked = P]
    BY <1>9 DEF List
  <2>3. QED
    BY <1>5, <1>6, <1>7, <2>1, <2>2 DEF Phases, PopPhases
<1>10. CASE Store(t)
  <2>1. /\ sync[t].at = "store" /\ Stored(PopBatch(t)) /\ mark' = mark
        /\ sync' = [sync EXCEPT ![t].at = "remember"]
    BY <1>10 DEF Store, imapMark
  <2>2. \A u \in Syncers : sync'[u] = sync[u] \/ sync'[u].at \notin {"upload", "advance"}
    BY <1>7, <2>1 DEF Phases, PopPhases
  <2>3. \A r \in rows' : r[1].via = "imap" => r[1].number = uid(r[2])'
    BY <1>1, <2>1, KeysStored
  <2>4. \A u \in Syncers : RoundOK(u)'
    BY <1>1, <2>2, RoundKept DEF FirstEpoch
  <2>5. QED
    BY <1>1, <2>1, <2>3, <2>4, MarkKept DEF FirstEpoch
<1>11. CASE StoreNothing(t) \/ Pin(t)
  BY <1>5, <1>6, <1>11 DEF StoreNothing, Pin, imapMark
<1>12. CASE Remember(t)
  <2>1. sync[t].at = "remember" /\ mark' = mark /\ rows' = rows
    BY <1>12 DEF Remember, imapMark
  <2>2. CASE Finish(t)
    BY <1>5, <1>6, <2>1, <2>2
  <2>3. CASE sync' = [sync EXCEPT ![t].at = "pin"]
    BY <1>5, <1>7, <2>1, <2>3 DEF Phases, PopPhases
  <2>4. QED
    BY <1>12, <2>2, <2>3 DEF Remember
<1>13. CASE WindowFails(t) \/ Fail(t)
  BY <1>5, <1>6, <1>13 DEF WindowFails, Fail, imapMark
<1>14. CASE FallBack(t)
  <2>1. sync[t] \in Round
    BY <1>14, BusyIsRound DEF FallBack, Phases, ImapPhases
  <2>2. \A u \in Syncers : sync'[u] = sync[u] \/ sync'[u].at = "list"
    BY <1>14, <2>1 DEF FallBack, TypeOK, Round
  <2>3. mark' = mark /\ rows' = rows
    BY <1>14 DEF FallBack, imapMark
  <2>4. QED
    BY <1>5, <2>2, <2>3
<1>15. ASSUME NEW B, UploadFails(t, B), B \subseteq ImapBatch(t) \/ B \subseteq PopBatch(t),
              sync[t].at \in {"upload", "store"},
              sync[t].at = "upload" \/ B \subseteq PopBatch(t)
       PROVE  FirstEpoch'
  <2>1. PICK last \in Mails \cup {0} : Stored({r \in B : r[2] <= last})
    BY <1>15 DEF UploadFails
  <2>2. \A r \in rows' : r[1].via = "imap" => r[1].number = uid(r[2])'
    <3> DEFINE C == {r \in B : r[2] <= last}
    <3>1. /\ C \subseteq ImapBatch(t) \/ C \subseteq PopBatch(t)
          /\ sync[t].at = "upload" \/ C \subseteq PopBatch(t)
      BY <1>15
    <3> HIDE DEF C
    <3>2. Stored(C)
      BY <2>1 DEF C
    <3>3. QED
      BY <1>1, <1>15, <3>1, <3>2, KeysStored
  <2>3. Finish(t) /\ mark' = mark
    BY <1>15 DEF UploadFails, imapMark
  <2>4. \A u \in Syncers : RoundOK(u)'
    BY <1>1, <1>6, <2>3, RoundKept DEF FirstEpoch
  <2>5. QED
    BY <1>1, <2>2, <2>3, <2>4, MarkKept DEF FirstEpoch
<1>16. QED
  BY <1>2, <1>3, <1>4, <1>8, <1>9, <1>10, <1>11, <1>12, <1>13, <1>14, <1>15
     DEF Step, Errors

LEMMA ImapInit == Init => ImapInv
<1> SUFFICES ASSUME Init PROVE ImapInv
  OBVIOUS
<1>1. mark = 0 /\ arrived = 0 /\ offset \in Nat /\ known = 0 /\ epoch = 1 /\ rows = {}
  BY ConstantsAssumption DEF Init
<1>2. Mailbox = {}
  BY <1>1 DEF Mailbox
<1>3. \A t \in Syncers : RoundOK(t)
  BY DEF Init, RoundOK, Off
<1>4. QED
  BY <1>1, <1>2, <1>3 DEF ImapInv, FirstEpoch

LEMMA ImapNext == TypeOK /\ ImapInv /\ [Next]_vars => ImapInv'
<1> SUFFICES ASSUME TypeOK, ImapInv, [Next]_vars PROVE ImapInv'
  OBVIOUS
<1>1. TypeOK'
  BY TypeNext
<1>2. CASE UNCHANGED vars
  BY <1>2 DEF vars, server, imapMark, ImapInv, FirstEpoch, RoundOK, Excused, Handled, HasRow,
              Mailbox, uid
<1>3. CASE Renumber
  BY <1>3 DEF Renumber, ImapInv, TypeOK, imapMark
<1>4. ASSUME NEW t \in Syncers, Step(t) \/ Errors(t) PROVE ImapInv'
  <2>1. epoch' = epoch
    BY <1>4, StepGrows DEF Grows
  <2>2. known' \in {known, epoch}
    BY <1>4 DEF Step, Errors, Select, Window, Upload, Advance, List, Store, StoreNothing, Remember,
                Pin, WindowFails, FallBack, Fail, UploadFails, imapMark
  <2>3. known' <= epoch'
    BY <2>1, <2>2 DEF ImapInv, TypeOK
  <2>4. QED
    BY <1>1, <1>4, <2>1, <2>3, RoundStepKeeps DEF ImapInv
<1>5. ASSUME \/ Arrive \/ ChooseImap \/ Begin \/ Crash
             \/ \E w \in Workers : Connect(w) \/ Disconnect(w)
      PROVE  ImapInv'
  <2>1. /\ Grows
        /\ mark' = mark /\ known' = known /\ rows' = rows
    BY <1>5 DEF Arrive, ChooseImap, Begin, BeginPoll, BeginWork, Crash, Connect, Disconnect,
                Grows, server, imapMark, TypeOK
  <2>2. \A u \in Syncers : sync'[u] = sync[u] \/ sync'[u].at \notin {"upload", "advance"}
    BY <1>5 DEF Arrive, ChooseImap, Begin, BeginPoll, BeginWork, Crash, Connect, Disconnect,
                Enter, Off, Connected, TypeOK
  <2>3. QED
    BY <1>1, <2>1, <2>2, FirstEpochKept DEF ImapInv, Grows
<1>6. QED
  BY <1>2, <1>3, <1>4, <1>5 DEF Next

\* No crash, error, overlap of syncers, arrival or withheld size lets the mark
\* pass a mail that is not stored, except below a mail that is too large.
THEOREM MarkPassesHandled == Spec => []PassedOnlyBelowLarge
<1>1. Init => TypeOK /\ ImapInv
  BY TypeInit, ImapInit
<1>2. TypeOK /\ ImapInv /\ [Next]_vars => (TypeOK /\ ImapInv)'
  BY TypeNext, ImapNext
<1>3. ImapInv => PassedOnlyBelowLarge
  BY DEF ImapInv, FirstEpoch, PassedOnlyBelowLarge, Excused
<1>4. QED
  BY <1>1, <1>2, <1>3, PTL DEF Spec

-----------------------------------------------------------------------------
(* What POP3 remembers.                                                     *)

\* The batch of a POP3 round, and that what will be remembered has its row.
PopRoundOK(t) ==
    /\ sync[t].at \in {"store", "remember"} => \A p \in sync[t].picked : p[1] = p[2]
    /\ sync[t].at = "remember" => \A m \in Uploaded(t) : HasRow(m)

PopInv ==
    /\ \A r \in rows : r[1].via = "pop3" => r[1].number = r[2]
    /\ \A t \in Syncers : PopRoundOK(t)
    /\ SeenIsHandled

\* Rows and omissions only grow, also over a change of UIDVALIDITY.
Keeps == kind' = kind /\ rows \subseteq rows' /\ skipped \subseteq skipped'

LEMMA PopRoundKept ==
    ASSUME Keeps, NEW u \in Syncers, PopRoundOK(u),
           sync'[u] = sync[u] \/ sync'[u].at \notin {"store", "remember"}
    PROVE  PopRoundOK(u)'
<1>1. CASE sync'[u] = sync[u]
  <2>1. Uploaded(u)' = Uploaded(u)
    BY <1>1 DEF Uploaded, Parsed, Keeps
  <2>2. QED
    BY <1>1, <2>1 DEF PopRoundOK, Keeps, HasRow
<1>2. CASE sync'[u].at \notin {"store", "remember"}
  BY <1>2 DEF PopRoundOK
<1>3. QED
  BY <1>1, <1>2

LEMMA SeenKept ==
    ASSUME Keeps, SeenIsHandled, NEW S,
           \A m \in S : HasRow(m)' \/ kind[m] = "huge" \/ m \in skipped',
           ToSet(seen') \subseteq ToSet(seen) \cup S
    PROVE  SeenIsHandled'
<1>1. ASSUME NEW m \in ToSet(seen) PROVE HasRow(m)' \/ kind[m] = "huge" \/ m \in skipped'
  BY DEF SeenIsHandled, HasRow, Keeps
<1>2. ASSUME NEW m \in ToSet(seen') PROVE HasRow(m)' \/ kind'[m] = "huge" \/ m \in skipped'
  BY <1>1 DEF Keeps
<1>3. ToSet(seen)' = ToSet(seen')
  BY DEF ToSet
<1>4. QED
  BY <1>2, <1>3 DEF SeenIsHandled

\* Steps that store, remember and pick nothing.
LEMMA PopKept ==
    ASSUME PopInv, Keeps, rows' = rows, seen' = seen,
           \A u \in Syncers : sync'[u] = sync[u] \/ sync'[u].at \notin {"store", "remember"}
    PROVE  PopInv'
<1>1. \A u \in Syncers : PopRoundOK(u)'
  BY PopRoundKept DEF PopInv
<1>2. SeenIsHandled'
  BY DEF PopInv, SeenIsHandled, HasRow, Keeps
<1>3. QED
  BY <1>1, <1>2 DEF PopInv

LEMMA PopKeysStored ==
    ASSUME PopInv, NEW t \in Syncers, sync[t].at \in {"upload", "store"},
           NEW B, B \subseteq ImapBatch(t) \/ B \subseteq PopBatch(t),
           sync[t].at = "store" \/ B \subseteq ImapBatch(t), Stored(B)
    PROVE  \A r \in rows' : r[1].via = "pop3" => r[1].number = r[2]
<1> SUFFICES ASSUME NEW r \in rows', r[1].via = "pop3" PROVE r[1].number = r[2]
  OBVIOUS
<1>1. r \in rows \/ r \in B
  BY DEF Stored
<1>2. CASE r \in rows
  BY <1>2 DEF PopInv
<1>3. CASE r \in ImapBatch(t)
  BY <1>3 DEF ImapBatch
<1>4. CASE r \in B /\ r \notin ImapBatch(t)
  <2>1. r \in PopBatch(t) /\ sync[t].at = "store"
    BY <1>4
  <2>2. PICK p \in sync[t].picked :
          r = <<[via |-> "pop3", epoch |-> 0, number |-> p[1]], p[2]>>
    BY <2>1 DEF PopBatch, Parsed
  <2>3. p[1] = p[2]
    BY <2>1 DEF PopInv, PopRoundOK
  <2>4. QED
    BY <2>2, <2>3
<1>5. QED
  BY <1>1, <1>2, <1>3, <1>4

LEMMA StoreKeeps ==
    ASSUME TypeOK, PopInv, Keeps, NEW t \in Syncers, Store(t)
    PROVE  PopInv'
<1>1. /\ sync[t].at = "store" /\ Stored(PopBatch(t)) /\ seen' = seen
      /\ sync' = [sync EXCEPT ![t].at = "remember"]
  BY DEF Store
<1>2. sync[t] \in Round
  BY <1>1, BusyIsRound DEF Phases, PopPhases
<1>3. /\ sync'[t].at = "remember" /\ sync'[t].picked = sync[t].picked
      /\ \A u \in Syncers \ {t} : sync'[u] = sync[u]
  BY <1>1, <1>2 DEF TypeOK, Round
<1>4. \A r \in rows' : r[1].via = "pop3" => r[1].number = r[2]
  BY <1>1, PopKeysStored
<1>5. ASSUME NEW p \in Parsed(t) PROVE HasRow(p[2])'
  <2> DEFINE k == [via |-> "pop3", epoch |-> 0, number |-> p[1]]
  <2>1. <<k, p[2]>> \in PopBatch(t)
    BY DEF PopBatch
  <2>2. PICK q \in rows' : q[1] = k
    BY <1>1, <2>1 DEF Stored
  <2>3. q[2] = p[1]
    <3>1. q[1].via = "pop3" /\ q[1].number = p[1]
      BY <2>2
    <3>2. QED
      BY <1>4, <2>2, <3>1
  <2>4. p[1] = p[2]
    BY <1>1 DEF PopInv, PopRoundOK, Parsed
  <2>5. QED
    BY <2>2, <2>3, <2>4 DEF HasRow
<1>6. Uploaded(t)' = Uploaded(t)
  BY <1>3 DEF Uploaded, Parsed, Keeps
<1>7. PopRoundOK(t)'
  BY <1>1, <1>3, <1>5, <1>6 DEF PopRoundOK, PopInv, Uploaded
<1>8. \A u \in Syncers : PopRoundOK(u)'
  BY <1>3, <1>7, PopRoundKept DEF PopInv
<1>9. SeenIsHandled'
  BY <1>1 DEF PopInv, SeenIsHandled, HasRow, Keeps
<1>10. QED
  BY <1>4, <1>8, <1>9 DEF PopInv

\* A listing remembers what a first sync leaves out, what is too large and
\* what has no size, and picks the rest of its window.
LEMMA ListKeeps ==
    ASSUME TypeOK, PopInv, Keeps, NEW t \in Syncers, List(t)
    PROVE  PopInv'
<1> DEFINE pending == Mailbox \ ToSet(seen)
           older == Older(pending, seen = <<>>)
           huge(unknown) == {m \in pending : kind[m] = "huge"} \cup unknown
           P(unknown, W) == {<<m, m>> : m \in W \ huge(unknown)}
           Result(unknown, W) ==
               /\ Remembered(older \cup (W \cap huge(unknown)))
               /\ skipped' = skipped \cup older \cup (W \cap unknown)
               /\ \/ Finish(t)
                  \/ sync' = [sync EXCEPT ![t].at = "pin"]
                  \/ sync' = [sync EXCEPT ![t].at = "store", ![t].picked = P(unknown, W)]
<1>1. PICK unknown \in SUBSET (pending \ older) :
          \E W \in Windows(pending \ older, huge(unknown)) : Result(unknown, W)
  BY DEF List
<1>2. PICK W \in Windows(pending \ older, huge(unknown)) : Result(unknown, W)
  BY <1>1
<1>3. W \subseteq pending \ older /\ older \subseteq pending /\ pending \subseteq Mails
  <2>1. W \in Starts(pending \ older)
    BY <1>2, WindowsAreStarts
  <2>2. W \subseteq pending \ older
    BY <2>1, StartsSubset
  <2>3. QED
    BY <2>2, OlderSubset, MailboxFinite DEF TypeOK
<1> DEFINE S == older \cup (W \cap huge(unknown))
<1>4. \A m \in S : HasRow(m)' \/ kind[m] = "huge" \/ m \in skipped'
  BY <1>2
<1>5. S \in SUBSET Mails /\ Remembered(S)
  BY <1>2, <1>3
<1> HIDE DEF S
<1>6. SeenIsHandled'
  BY <1>4, <1>5, RememberedType, SeenKept DEF TypeOK, PopInv
<1>7. sync[t] \in Round /\ sync[t].at = "list" /\ rows' = rows
  BY BusyIsRound DEF List, Phases, PopPhases
<1>8. \A u \in Syncers \ {t} : sync'[u] = sync[u]
  BY <1>2 DEF Finish, TypeOK
<1>9. PopRoundOK(t)'
  <2>1. CASE Finish(t)
    BY <2>1 DEF Finish, Resting, Off, Connected, PopRoundOK, TypeOK
  <2>2. CASE sync' = [sync EXCEPT ![t].at = "pin"]
    BY <1>7, <2>2 DEF PopRoundOK, TypeOK, Round
  <2>3. CASE sync' = [sync EXCEPT ![t].at = "store", ![t].picked = P(unknown, W)]
    <3>1. sync'[t].at = "store" /\ sync'[t].picked = P(unknown, W)
      BY <1>7, <2>3 DEF TypeOK, Round
    <3>2. \A p \in P(unknown, W) : p[1] = p[2]
      OBVIOUS
    <3> HIDE DEF P
    <3>3. QED
      BY <3>1, <3>2 DEF PopRoundOK
  <2>4. QED
    BY <1>2, <2>1, <2>2, <2>3
<1>10. \A u \in Syncers : PopRoundOK(u)'
  BY <1>8, <1>9, PopRoundKept DEF PopInv
<1>11. QED
  BY <1>6, <1>7, <1>10 DEF PopInv

LEMMA PopRoundStepKeeps ==
    ASSUME TypeOK, PopInv, NEW t \in Syncers, Step(t) \/ Errors(t)
    PROVE  PopInv'
<1>1. Keeps
  BY StepGrows DEF Grows, Keeps
<1>2. Finish(t) =>
        \A u \in Syncers : sync'[u] = sync[u] \/ sync'[u].at \notin {"store", "remember"}
  BY DEF Finish, Resting, Off, Connected, TypeOK
<1>3. CASE Store(t)
  BY <1>1, <1>3, StoreKeeps
<1>4. CASE List(t)
  BY <1>1, <1>4, ListKeeps
<1>5. ASSUME NEW B, Stored(B), B \subseteq ImapBatch(t) \/ B \subseteq PopBatch(t),
             sync[t].at \in {"upload", "store"},
             sync[t].at = "store" \/ B \subseteq ImapBatch(t), seen' = seen,
             \A u \in Syncers : sync'[u] = sync[u] \/ sync'[u].at \notin {"store", "remember"}
      PROVE  PopInv'
  <2>1. \A r \in rows' : r[1].via = "pop3" => r[1].number = r[2]
    BY <1>5, PopKeysStored
  <2>2. \A u \in Syncers : PopRoundOK(u)'
    BY <1>1, <1>5, PopRoundKept DEF PopInv
  <2>3. SeenIsHandled'
    BY <1>1, <1>5 DEF PopInv, SeenIsHandled, HasRow, Keeps
  <2>4. QED
    BY <2>1, <2>2, <2>3 DEF PopInv
<1>6. CASE Upload(t)
  <2>1. sync[t] \in Round /\ sync[t].at = "upload" /\ Stored(ImapBatch(t)) /\ seen' = seen
    BY <1>6, BusyIsRound DEF Upload, Phases, ImapPhases
  <2>2. \A u \in Syncers : sync'[u] = sync[u] \/ sync'[u].at = "advance"
    BY <1>6, <2>1 DEF Upload, TypeOK, Round
  <2>3. QED
    BY <1>5, <2>1, <2>2
<1>7. ASSUME NEW B, UploadFails(t, B), B \subseteq ImapBatch(t) \/ B \subseteq PopBatch(t),
             sync[t].at \in {"upload", "store"},
             sync[t].at = "store" \/ B \subseteq ImapBatch(t)
      PROVE  PopInv'
  <2>1. PICK last \in Mails \cup {0} : Stored({r \in B : r[2] <= last})
    BY <1>7 DEF UploadFails
  <2> DEFINE C == {r \in B : r[2] <= last}
  <2>2. /\ C \subseteq ImapBatch(t) \/ C \subseteq PopBatch(t)
        /\ sync[t].at = "store" \/ C \subseteq ImapBatch(t)
        /\ Stored(C)
    BY <1>7, <2>1
  <2>3. Finish(t) /\ seen' = seen
    BY <1>7 DEF UploadFails
  <2> HIDE DEF C
  <2>4. QED
    BY <1>2, <1>5, <1>7, <2>2, <2>3
<1>8. CASE Remember(t)
  <2>1. sync[t].at = "remember" /\ sync[t] \in Round /\ rows' = rows /\ Remembered(Uploaded(t))
    BY <1>8, BusyIsRound DEF Remember, Phases, PopPhases
  <2>2. \A m \in Uploaded(t) : HasRow(m)'
    BY <2>1 DEF PopInv, PopRoundOK, HasRow
  <2>3. Uploaded(t) \in SUBSET Mails
    BY <2>1, BatchTyped DEF Phases, PopPhases
  <2>4. SeenIsHandled'
    BY <1>1, <2>1, <2>2, <2>3, RememberedType, SeenKept DEF TypeOK, PopInv
  <2>5. CASE sync' = [sync EXCEPT ![t].at = "pin"]
    <3>1. \A u \in Syncers : sync'[u] = sync[u] \/ sync'[u].at = "pin"
      BY <2>1, <2>5 DEF TypeOK, Round
    <3>2. \A u \in Syncers : PopRoundOK(u)'
      BY <1>1, <3>1, PopRoundKept DEF PopInv
    <3>3. QED
      BY <2>1, <2>4, <3>2 DEF PopInv
  <2>6. CASE Finish(t)
    <3>1. \A u \in Syncers : PopRoundOK(u)'
      BY <1>1, <1>2, <2>6, PopRoundKept DEF PopInv
    <3>2. QED
      BY <2>1, <2>4, <3>1 DEF PopInv
  <2>7. QED
    BY <1>8, <2>5, <2>6 DEF Remember
<1>9. CASE Select(t)
  <2>1. sync[t] \in Round
    BY <1>9, BusyIsRound DEF Select, Phases, ImapPhases
  <2>2. \A u \in Syncers : sync'[u] = sync[u] \/ sync'[u].at = "window"
    BY <1>9, <2>1 DEF Select, TypeOK, Round
  <2>3. QED
    BY <1>1, <1>9, <2>2, PopKept DEF Select
<1>10. CASE FallBack(t)
  <2>1. sync[t] \in Round
    BY <1>10, BusyIsRound DEF FallBack, Phases, ImapPhases
  <2>2. \A u \in Syncers : sync'[u] = sync[u] \/ sync'[u].at = "list"
    BY <1>10, <2>1 DEF FallBack, TypeOK, Round
  <2>3. QED
    BY <1>1, <1>10, <2>2, PopKept DEF FallBack
<1>11. CASE Window(t)
  <2>1. sync[t] \in Round /\ rows' = rows /\ seen' = seen
    BY <1>11, BusyIsRound DEF Window, Phases, ImapPhases
  <2>2. Finish(t) \/ \E P : sync' = [sync EXCEPT ![t].at = "upload", ![t].picked = P]
    BY <1>11 DEF Window
  <2>3. ASSUME NEW P, sync' = [sync EXCEPT ![t].at = "upload", ![t].picked = P]
        PROVE  \A u \in Syncers : sync'[u] = sync[u] \/ sync'[u].at = "upload"
    BY <2>1, <2>3 DEF TypeOK, Round
  <2>4. \A u \in Syncers : sync'[u] = sync[u] \/ sync'[u].at \notin {"store", "remember"}
    BY <1>2, <2>2, <2>3
  <2>5. QED
    BY <1>1, <2>1, <2>4, PopKept
<1>12. CASE Advance(t) \/ StoreNothing(t) \/ Pin(t) \/ WindowFails(t) \/ Fail(t)
  <2>1. Finish(t) /\ rows' = rows /\ seen' = seen
    BY <1>12 DEF Advance, StoreNothing, Pin, WindowFails, Fail
  <2>2. QED
    BY <1>1, <1>2, <2>1, PopKept
<1>13. QED
  BY <1>3, <1>4, <1>6, <1>7, <1>8, <1>9, <1>10, <1>11, <1>12 DEF Step, Errors

LEMMA PopInit == Init => PopInv
  BY DEF Init, PopInv, PopRoundOK, SeenIsHandled, ToSet, Off

LEMMA PopNext == TypeOK /\ PopInv /\ [Next]_vars => PopInv'
<1> SUFFICES ASSUME TypeOK, PopInv, [Next]_vars PROVE PopInv'
  OBVIOUS
<1>1. ASSUME NEW t \in Syncers, Step(t) \/ Errors(t) PROVE PopInv'
  BY <1>1, PopRoundStepKeeps
<1>2. ASSUME \/ UNCHANGED vars
             \/ Arrive \/ Renumber \/ ChooseImap \/ Begin \/ Crash
             \/ \E w \in Workers : Connect(w) \/ Disconnect(w)
      PROVE  PopInv'
  <2>1. Keeps /\ rows' = rows /\ seen' = seen
    BY <1>2 DEF Arrive, Renumber, ChooseImap, Begin, BeginPoll, BeginWork, Crash, Connect,
                Disconnect, Keeps, server, imapMark, vars
  <2>2. \A u \in Syncers : sync'[u] = sync[u] \/ sync'[u].at \notin {"store", "remember"}
    BY <1>2 DEF Arrive, Renumber, ChooseImap, Begin, BeginPoll, BeginWork, Crash, Connect,
                Disconnect, Enter, Off, Connected, TypeOK, vars
  <2>3. QED
    BY <2>1, <2>2, PopKept
<1>3. QED
  BY <1>1, <1>2 DEF Next

\* POP3 forgets no mail by remembering it too early: what the state file calls
\* seen is stored, too large or was left out on purpose, whatever failed.
THEOREM SeenMeansHandled == Spec => []SeenIsHandled
<1>1. Init => TypeOK /\ PopInv
  BY TypeInit, PopInit
<1>2. TypeOK /\ PopInv /\ [Next]_vars => (TypeOK /\ PopInv)'
  BY TypeNext, PopNext
<1>3. PopInv => SeenIsHandled
  BY DEF PopInv
<1>4. QED
  BY <1>1, <1>2, <1>3, PTL DEF Spec
=============================================================================
