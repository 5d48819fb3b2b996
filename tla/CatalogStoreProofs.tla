------------------------- MODULE CatalogStoreProofs -------------------------
(***************************************************************************)
(* The catalogue's files recover, follow their keys and behave as one      *)
(* atomic register, for any processes, keys, digests and revisions.        *)
(*                                                                         *)
(* The argument: at every step, and for every combination of what a loss   *)
(* of power may bring back, store, anchor and journal agree, that is, they *)
(* are one of the prefixes of the protocol that a recovery completes or    *)
(* undoes.                                                                 *)
(***************************************************************************)
EXTENDS CatalogStore, TLAPS

(* Two things the code does not survive (README, section 6): initialize    *)
(* looks for the files before it takes the locks, so of two initializers   *)
(* the later may replace the other's catalogue; and the recovery advances  *)
(* the anchor over a store that was renamed and never synced, so a loss of *)
(* power may not follow a kill or a failed call.                           *)
OneInitializer == \A p, q \in Initializers : p = q
PowerAlone == \A f \in Regimes : "power" \in f => "io" \notin f /\ "kill" \notin f

(* What a reader may find, now or after a loss of power. *)
Power == "power" \in faults
Stores == {store} \cup (IF Power THEN unsynced.store ELSE {})
Anchors == {anchor} \cup (IF Power THEN unsynced.anchor ELSE {})
Journals == {journal} \cup (IF Power THEN unsynced.journal ELSE {})
Backups == backups \cup (IF Power THEN unsynced.backups ELSE {})

(* A store in the state the transaction of a journal starts from, or ends in. *)
IsOld(s, j) == StateOf(s) = j.old /\ (s = NoDoc \/ s.key = j.oldKey)
IsNew(s, j) == StateOf(s) = j.new /\ s.key = j.newKey

Agree(s, a, j) ==
    IF j = None
    THEN a = StateOf(s)
    ELSE \/ IsOld(s, j) /\ a = j.old
         \/ IsNew(s, j) /\ a \in {j.old, j.new}

DiskInv == \A s \in Stores, a \in Anchors, j \in Journals : Agree(s, a, j)

JournalInv ==
    \A j \in Journals \ {None} :
        /\ j.old.rev < j.new.rev
        /\ IsRotation(j) => j.old # NoState

(* While the power may go, only the name the protocol is about to sync is unsynced. *)
SyncInv ==
    Power =>
        /\ step # "storeSync" => unsynced.store = {}
        /\ step # "anchorSync" => unsynced.anchor = {}
        /\ step \notin {"journalSync", "unlinkSync"} => unsynced.journal = {}
        /\ step # "poisoned"

(* The journal of the write under way. *)
JournalOf ==
    [old |-> StateOf(view), new |-> txn.target, newKey |-> txn.key,
     oldKey |-> IF view = NoDoc THEN txn.key ELSE view.key]

Writes == txn.kind \in {"initialize", "commit"}

(* What the steps of a write have made of the files. *)
WriteInv ==
    Writes =>
        /\ txn.doc \in Document /\ txn.doc.rev = view.rev + 1
        /\ txn.target = StateOf(txn.doc) /\ txn.key = txn.doc.key
        /\ txn.purge <=> (view # NoDoc /\ txn.key # view.key)
        /\ txn.kind = "commit" <=> view # NoDoc
        /\ step \in WriteSteps \cup CommitSteps \cup {"finish"}
        /\ step \in WriteSteps => store = view
        /\ step \in WriteSteps \cup {"storeSync", "anchor"} => anchor = StateOf(view)
        /\ step = "journal" /\ view # NoDoc => journal = None
        /\ step = "backup" => view # NoDoc
        /\ step \in (WriteSteps \ {"journal"}) \cup (CommitSteps \ {"unlinkSync"}) =>
                journal = JournalOf
        /\ step \in CommitSteps \cup {"finish"} => store = txn.doc
        /\ step \in {"anchorSync", "purge", "unlink", "unlinkSync", "finish"} => anchor = txn.target
        /\ step \in {"unlinkSync", "finish"} => journal = None

(* And those of an opening, a recovery, an open object or nobody. *)
RecoverInv ==
    ~Writes =>
        /\ txn.doc = NoDoc
        /\ step \notin WriteSteps \cup {"storeSync"}
        /\ step # "open" => view = NoDoc
        /\ step = "open" => /\ view # NoDoc /\ store = view
                            /\ anchor = StateOf(view) /\ journal = None
        /\ step \in {"anchor", "anchorSync", "purge"} =>
                /\ journal # None /\ IsNew(store, journal)
                /\ txn.target = journal.new
                /\ txn.purge <=> IsRotation(journal)
        /\ step \in {"anchorSync", "purge"} => anchor = journal.new
        /\ step = "unlink" => journal # None /\ anchor = StateOf(store)
        /\ step \in {"unlinkSync", "finish"} => journal = None

(* Whom the backups are readable to. *)
KeyInv ==
    /\ NoDoc \in Stores => Backups = {}
    /\ None \in Journals => \A s \in Stores, b \in Backups : b.key = s.key
    /\ \A j \in Journals \ {None} :
        /\ j.old = NoState => Backups = {}
        /\ ~IsRotation(j) => \A b \in Backups : b.key = j.newKey
        /\ \A s \in Stores, b \in Backups : IsRotation(j) /\ IsOld(s, j) => b.key = j.oldKey
    /\ step = "unlink" => \A b \in Backups : b.key = store.key

(* What may be found is what a caller may be told. *)
LegitInv ==
    IF Writes /\ step \in CommitSteps \cup {"finish"}
    THEN view \in legit /\ Stores \subseteq {view, txn.doc}
    ELSE Stores \subseteq legit

CheckedInv ==
    /\ checked # {} => store = NoDoc /\ anchor = NoState /\ ~Writes
    /\ txn.kind = "initialize" => lock \in Initializers

IInv ==
    /\ TypeOK
    /\ DiskInv /\ JournalInv /\ SyncInv /\ WriteInv /\ RecoverInv
    /\ KeyInv /\ LegitInv /\ CheckedInv
-----------------------------------------------------------------------------
(* Documents, states and journals *)

LEMMA Documents ==
    /\ StateOf(NoDoc) = NoState
    /\ NoDoc.rev = 0 /\ NoState.rev = 0
    /\ NoDoc \notin Document /\ NoState \notin State
    /\ \A d \in Document : /\ StateOf(d) \in State /\ StateOf(d).rev = d.rev
                           /\ d.rev \in Nat /\ d.rev >= 1 /\ d.key \in Keys
    /\ \A s \in State : s.rev \in Nat /\ s.rev >= 1
<1>1. StateOf(NoDoc) = NoState /\ NoDoc.rev = 0 /\ NoState.rev = 0
  BY DEF StateOf, NoDoc, NoState
<1>2. \A d \in Document : d.rev \in 1 .. MaxRevision /\ d.digest \in Digests /\ d.key \in Keys
  BY DEF Document
<1>3. \A d \in Document : StateOf(d) \in State /\ StateOf(d).rev = d.rev
  BY <1>2 DEF StateOf, State
<1>4. \A s \in State : s.rev \in 1 .. MaxRevision
  BY DEF State
<1>5. \A n \in 1 .. MaxRevision : n \in Nat /\ n >= 1 /\ n # 0
  BY RevisionAssumption
<1> QED
  BY <1>1, <1>2, <1>3, <1>4, <1>5

LEMMA StoreIs ==
    ASSUME TypeOK
    PROVE  /\ \A s \in Stores : s \in Document \cup {NoDoc}
           /\ \A j \in Journals : j # None => /\ j \in Journal
                                              /\ j.old \in State \cup {NoState} /\ j.new \in State
           /\ store \in Stores /\ anchor \in Anchors /\ journal \in Journals
           /\ backups \subseteq Backups
<1>1. unsynced.store \subseteq Document \cup {NoDoc} /\ unsynced.journal \subseteq Journal \cup {None}
  BY DEF TypeOK
<1>2. \A j \in Journals : j \in Journal \cup {None}
  BY <1>1 DEF TypeOK, Journals
<1>3. \A j \in Journal : j.old \in State \cup {NoState} /\ j.new \in State
  BY DEF Journal
<1> QED
  BY <1>1, <1>2, <1>3 DEF TypeOK, Stores, Journals, Anchors, Backups

\* A step that leaves the files alone.
LEMMA SameDisk ==
    ASSUME DiskInv, JournalInv, UNCHANGED <<disk, faults>>
    PROVE  /\ DiskInv' /\ JournalInv'
           /\ Power' = Power /\ Stores' = Stores /\ Anchors' = Anchors
           /\ Journals' = Journals /\ Backups' = Backups
           /\ UNCHANGED <<store, anchor, journal, backups, unsynced, faults>>
<1>1. UNCHANGED <<store, anchor, journal, backups, unsynced, faults>>
  BY DEF disk
<1>2. Power' = Power /\ Stores' = Stores /\ Anchors' = Anchors
      /\ Journals' = Journals /\ Backups' = Backups
  BY <1>1 DEF Power, Stores, Anchors, Journals, Backups
<1> QED
  BY <1>1, <1>2 DEF DiskInv, JournalInv

LEMMA SameKeys ==
    ASSUME KeyInv, Stores' = Stores, Journals' = Journals, Backups' = Backups,
           step' = "unlink" => \A b \in Backups : b.key = store'.key
    PROVE  KeyInv'
  BY DEF KeyInv

\* With nothing unsynced there is one outcome of a loss of power.
LEMMA Settled ==
    ASSUME SyncInv
    PROVE  /\ step # "storeSync" => Stores = {store}
           /\ step # "anchorSync" => Anchors = {anchor}
           /\ step \notin {"journalSync", "unlinkSync"} => Journals = {journal}
  BY DEF SyncInv, Stores, Anchors, Journals

-----------------------------------------------------------------------------
(* Entering and leaving: the files are only read *)

LEMMA InitInvariant == Init => IInv
<1> SUFFICES ASSUME Init
             PROVE  IInv
  OBVIOUS
<1> USE DEF Init
<1>1. TypeOK
  BY DEF TypeOK, AllSynced, Steps, Txn, NoTxn, Kinds
<1>2. /\ unsynced.store = {} /\ unsynced.anchor = {} /\ unsynced.journal = {} /\ unsynced.backups = {}
      /\ ~Writes /\ txn.doc = NoDoc
  BY DEF AllSynced, NoTxn, Writes
<1>3. /\ Stores = {NoDoc} /\ Anchors = {NoState} /\ Journals = {None} /\ Backups = {}
  BY <1>2 DEF Stores, Anchors, Journals, Backups
<1>4. DiskInv /\ JournalInv /\ SyncInv /\ KeyInv
  BY <1>2, <1>3, Documents DEF DiskInv, JournalInv, SyncInv, KeyInv, Agree
<1>5. WriteInv /\ RecoverInv /\ LegitInv /\ CheckedInv
  BY <1>2, <1>3 DEF WriteInv, RecoverInv, LegitInv, CheckedInv, Writes, WriteSteps, NoTxn
<1> QED
  BY <1>1, <1>4, <1>5 DEF IInv

LEMMA InitializeCheckKeeps ==
    ASSUME IInv, OneInitializer, NEW p \in Procs, InitializeCheck(p)
    PROVE  IInv'
<1>1. /\ p \in Initializers /\ lock # p /\ store = NoDoc /\ anchor = NoState
      /\ checked' = checked \cup {p}
      /\ UNCHANGED <<faults, disk, lock, step, txn, view, legit>>
  BY DEF InitializeCheck
<1>2. ~Writes
  <2>1. txn.kind # "initialize"
    BY <1>1 DEF IInv, CheckedInv, OneInitializer
  <2>2. txn.kind # "commit"
    BY <1>1, Documents DEF IInv, WriteInv, Writes
  <2> QED
    BY <2>1, <2>2 DEF Writes
<1>3. DiskInv' /\ JournalInv' /\ UNCHANGED <<store, anchor, journal, backups, unsynced, faults>>
      /\ Power' = Power /\ Stores' = Stores /\ Journals' = Journals /\ Backups' = Backups
  BY <1>1, SameDisk DEF IInv
<1>4. TypeOK'
  BY <1>1, <1>3 DEF IInv, TypeOK
<1>5. KeyInv'
  BY <1>1, <1>3, SameKeys DEF IInv, KeyInv
<1>6. SyncInv' /\ WriteInv' /\ RecoverInv' /\ LegitInv'
  BY <1>1, <1>3 DEF IInv, SyncInv, WriteInv, RecoverInv, LegitInv, Writes, JournalOf
<1>7. CheckedInv'
  BY <1>1, <1>2, <1>3 DEF IInv, CheckedInv, Writes
<1> QED
  BY <1>3, <1>4, <1>5, <1>6, <1>7 DEF IInv

LEMMA InitializeLockKeeps ==
    ASSUME IInv, OneInitializer, NEW p \in Procs, InitializeLock(p)
    PROVE  IInv'
<1>1. /\ p \in checked /\ checked' = checked \ {p}
      /\ UNCHANGED <<faults, disk, view, legit>>
  BY DEF InitializeLock
<1>2. p \in Initializers /\ checked' = {} /\ store = NoDoc /\ anchor = NoState /\ ~Writes
  BY <1>1 DEF IInv, TypeOK, CheckedInv, OneInitializer
<1>3. DiskInv' /\ JournalInv' /\ UNCHANGED <<store, anchor, journal, backups, unsynced, faults>>
      /\ Power' = Power /\ Stores' = Stores /\ Journals' = Journals /\ Backups' = Backups
  BY <1>1, SameDisk DEF IInv
<1>4. CASE UNCHANGED <<lock, step, txn>>
  <2>1. TypeOK'
    BY <1>1, <1>2, <1>3, <1>4 DEF IInv, TypeOK
  <2>2. KeyInv'
    BY <1>3, <1>4, SameKeys DEF IInv, KeyInv
  <2>3. SyncInv' /\ WriteInv' /\ RecoverInv' /\ LegitInv' /\ CheckedInv'
    BY <1>1, <1>2, <1>3, <1>4 DEF IInv, SyncInv, WriteInv, RecoverInv, LegitInv, CheckedInv,
       Writes, JournalOf
  <2> QED
    BY <1>3, <2>1, <2>2, <2>3 DEF IInv
<1>5. CASE lock = None /\ lock' = p /\ step' = "journal" /\ \E k \in Keys :
                txn' = Writing("initialize", [rev |-> 1, digest |-> EmptyDigest, key |-> k], FALSE)
  <2>1. PICK k \in Keys :
            txn' = Writing("initialize", [rev |-> 1, digest |-> EmptyDigest, key |-> k], FALSE)
    BY <1>5
  <2> DEFINE doc == [rev |-> 1, digest |-> EmptyDigest, key |-> k]
  <2>2. doc \in Document /\ doc.rev = 1 /\ doc.key = k
    BY RevisionAssumption, DigestAssumption DEF Document
  <2> HIDE DEF doc
  <2>3. /\ txn'.kind = "initialize" /\ txn'.doc = doc /\ txn'.target = StateOf(doc)
        /\ txn'.key = doc.key /\ txn'.purge = FALSE /\ txn' \in Txn /\ Writes'
    <3>1. txn' = [kind |-> "initialize", doc |-> doc, target |-> StateOf(doc), key |-> doc.key,
                  purge |-> FALSE]
      BY <2>1 DEF Writing, doc
    <3> QED
      BY <2>2, <3>1, Documents DEF Txn, Kinds, Writes
  <2>4. step = "down" /\ view = NoDoc
    BY <1>2, <1>5 DEF IInv, TypeOK, RecoverInv
  <2>5. TypeOK'
    BY <1>1, <1>2, <1>3, <1>5, <2>3, NoneAssumption DEF IInv, TypeOK, Steps, WriteSteps
  <2>6. KeyInv'
    BY <1>3, <1>5, SameKeys DEF IInv
  <2>7. SyncInv'
    BY <1>3, <1>5, <2>4 DEF IInv, SyncInv
  <2>8. WriteInv'
    <3>1. view' = NoDoc /\ store' = NoDoc /\ anchor' = StateOf(NoDoc) /\ view'.rev = 0
      BY <1>1, <1>2, <1>3, <2>4, Documents
    <3>2. doc.rev = view'.rev + 1
      BY <2>2, <3>1
    <3> QED
      BY <1>5, <2>2, <2>3, <3>1, <3>2 DEF WriteInv, WriteSteps, CommitSteps
  <2>9. RecoverInv' /\ CheckedInv'
    BY <1>2, <1>5, <2>3 DEF RecoverInv, CheckedInv
  <2>10. LegitInv'
    BY <1>1, <1>2, <1>3, <1>5 DEF IInv, LegitInv, CommitSteps
  <2> QED
    BY <1>3, <2>5, <2>6, <2>7, <2>8, <2>9, <2>10 DEF IInv
<1> QED
  BY <1>4, <1>5 DEF InitializeLock

(* A plan that recovers what the files hold. *)
Sound(plan) ==
    /\ plan.advance => IsNew(store, journal) /\ (plan.purge <=> IsRotation(journal))
    /\ ~plan.advance /\ plan.purge =>
            IsNew(store, journal) /\ anchor = journal.new /\ IsRotation(journal)
    /\ ~plan.advance /\ ~plan.purge =>
            anchor = StateOf(store) /\ \A b \in Backups : b.key = store.key

LEMMA PlanFields ==
    \A advance, purge \in BOOLEAN :
        Plan(advance, purge).advance = advance /\ Plan(advance, purge).purge = purge
  BY DEF Plan

LEMMA PlanRecoverySound ==
    ASSUME IInv, step = "down", journal # None, NEW k \in Keys, NEW plan \in PlanRecovery(k)
    PROVE  Sound(plan) /\ plan.purge \in BOOLEAN /\ plan.advance \in BOOLEAN
<1>1. /\ store \in Document \cup {NoDoc} /\ Stores = {store} /\ Journals = {journal}
      /\ journal.new \in State
  BY StoreIs, Settled DEF IInv, TypeOK
<1>2. CASE ~IsRotation(journal)
  <2>1. plan \in PlanSameKey(journal, k)
    BY <1>2 DEF PlanRecovery
  <2>2. /\ plan.purge = FALSE /\ plan.advance \in BOOLEAN /\ k = journal.newKey
        /\ store = NoDoc \/ store.key = k
        /\ IF plan.advance THEN StateOf(store) = journal.new
                           ELSE anchor = StateOf(store)
    <3>1. /\ plan \in {Plan(FALSE, FALSE), Plan(TRUE, FALSE)} /\ k = journal.newKey
          /\ store = NoDoc \/ store.key = k
          /\ <<StateOf(store), anchor>> \in
                 IF plan.advance THEN {<<journal.new, journal.old>>}
                                 ELSE {<<journal.old, journal.old>>, <<journal.new, journal.new>>}
      BY <2>1 DEF PlanSameKey
    <3>2. IF plan.advance THEN StateOf(store) = journal.new ELSE anchor = StateOf(store)
      BY <3>1
    <3> QED
      BY <3>1, <3>2, PlanFields
  <2>3. \A b \in Backups : b.key = k /\ store # NoDoc
    BY <1>1, <1>2, <2>2 DEF IInv, KeyInv
  <2>4. plan.advance => store # NoDoc
    BY <1>1, <2>2, Documents
  <2> QED
    BY <1>2, <2>2, <2>3, <2>4 DEF Sound, IsNew
<1>3. CASE IsRotation(journal)
  <2>1. plan \in PlanRotation(journal, k)
    BY <1>3 DEF PlanRecovery
  <2>2. /\ plan.advance = FALSE /\ plan.purge \in BOOLEAN /\ store # NoDoc /\ store.key = k
        /\ IF plan.purge THEN k = journal.newKey /\ StateOf(store) = journal.new /\ anchor = journal.new
                         ELSE k = journal.oldKey /\ StateOf(store) = journal.old /\ anchor = journal.old
    <3>1. plan \in {Plan(FALSE, FALSE), Plan(FALSE, TRUE)}
      BY <2>1 DEF PlanRotation
    <3> QED
      BY <2>1, <3>1, PlanFields DEF PlanRotation
  <2>3. ~plan.purge => \A b \in Backups : b.key = store.key
    BY <1>1, <1>3, <2>2 DEF IInv, KeyInv, IsOld
  <2> QED
    BY <1>3, <2>2, <2>3 DEF Sound, IsNew
<1> QED
  BY <1>2, <1>3

LEMMA PlanWithBothKeysSound ==
    ASSUME IInv, step = "down", journal # None, NEW ko \in Keys, NEW kn \in Keys, ko # kn,
           NEW plan \in PlanWithBothKeys(ko, kn)
    PROVE  Sound(plan) /\ plan.purge \in BOOLEAN /\ plan.advance \in BOOLEAN /\ store.key \in Keys
<1>1. store \in Document \cup {NoDoc} /\ Stores = {store} /\ Journals = {journal}
  BY StoreIs, Settled DEF IInv, TypeOK
<1>2. /\ plan.advance \in BOOLEAN /\ plan.purge \in BOOLEAN /\ (plan.advance => plan.purge)
      /\ store # NoDoc /\ journal.oldKey = ko /\ journal.newKey = kn
      /\ IF plan.purge
         THEN /\ store.key = kn /\ StateOf(store) = journal.new
              /\ anchor = IF plan.advance THEN journal.old ELSE journal.new
         ELSE store.key = ko /\ StateOf(store) = journal.old /\ anchor = journal.old
  <2>1. plan \in {Plan(FALSE, FALSE), Plan(TRUE, TRUE), Plan(FALSE, TRUE)}
    BY DEF PlanWithBothKeys
  <2> QED
    BY <2>1, PlanFields DEF PlanWithBothKeys
<1>3. IsRotation(journal)
  BY <1>2 DEF IsRotation
<1>4. ~plan.purge => \A b \in Backups : b.key = store.key
  BY <1>1, <1>2, <1>3 DEF IInv, KeyInv, IsOld
<1> QED
  BY <1>1, <1>2, <1>3, <1>4, Documents DEF Sound, IsNew

\* A recovery starts with the first step of a sound plan, or at the end without journal.
LEMMA StartRecovery ==
    ASSUME IInv, lock = None, NEW p \in Procs, NEW kind \in {"open", "recover"},
           NEW k \in Keys, NEW purge \in BOOLEAN,
           lock' = p, txn' = Recovering(kind, k, purge),
           \/ journal = None /\ step' = "finish"
           \/ /\ journal # None
              /\ \E advance \in BOOLEAN : /\ step' = FirstStep(Plan(advance, purge))
                                          /\ Sound(Plan(advance, purge)),
           UNCHANGED <<faults, disk, view, checked, legit>>
    PROVE  IInv'
<1>1. DiskInv' /\ JournalInv' /\ UNCHANGED <<store, anchor, journal, backups, unsynced, faults>>
      /\ Power' = Power /\ Stores' = Stores /\ Journals' = Journals /\ Backups' = Backups
  BY SameDisk DEF IInv
<1>2. step = "down" /\ ~Writes /\ view = NoDoc
  BY DEF IInv, TypeOK, WriteInv, RecoverInv, WriteSteps, CommitSteps
<1>3. /\ txn'.kind = kind /\ txn'.doc = NoDoc /\ txn'.key = k /\ txn'.purge = purge
      /\ txn'.target = (IF journal = None THEN NoState ELSE journal.new) /\ txn' \in Txn /\ ~Writes'
  <2>1. txn' = [kind |-> kind, doc |-> NoDoc, key |-> k, purge |-> purge,
                target |-> IF journal = None THEN NoState ELSE journal.new]
    BY DEF Recovering
  <2>2. (IF journal = None THEN NoState ELSE journal.new) \in State \cup {NoState}
    BY StoreIs DEF IInv
  <2> QED
    BY <2>1, <2>2 DEF Txn, Kinds, Writes
<1>4. step' \in {"anchor", "purge", "unlink", "finish"}
  BY DEF FirstStep
<1>5. TypeOK'
  BY <1>1, <1>3, <1>4, NoneAssumption DEF IInv, TypeOK, Steps, CommitSteps
<1>6. SyncInv'
  BY <1>1, <1>2, <1>4 DEF IInv, SyncInv
<1>7. WriteInv' /\ CheckedInv'
  BY <1>1, <1>3 DEF IInv, WriteInv, CheckedInv
<1>8. LegitInv'
  BY <1>1, <1>2, <1>3 DEF IInv, LegitInv
<1>9. CASE journal = None /\ step' = "finish"
  <2>1. KeyInv'
    BY <1>1, <1>9, SameKeys DEF IInv
  <2>2. RecoverInv'
    BY <1>1, <1>2, <1>3, <1>9 DEF RecoverInv, WriteSteps
  <2> QED
    BY <1>1, <1>5, <1>6, <1>7, <1>8, <2>1, <2>2 DEF IInv
<1>10. ASSUME journal # None, NEW advance \in BOOLEAN,
              step' = FirstStep(Plan(advance, purge)), Sound(Plan(advance, purge))
       PROVE  IInv'
  <2>1. /\ advance => IsNew(store, journal) /\ (purge <=> IsRotation(journal))
        /\ ~advance /\ purge => IsNew(store, journal) /\ anchor = journal.new /\ IsRotation(journal)
        /\ ~advance /\ ~purge => anchor = StateOf(store) /\ \A b \in Backups : b.key = store.key
        /\ step' = IF advance THEN "anchor" ELSE IF purge THEN "purge" ELSE "unlink"
    BY <1>10 DEF Sound, Plan, FirstStep
  <2>2. KeyInv'
    BY <1>1, <2>1, SameKeys DEF IInv
  <2>3. IsNew(store, journal)' <=> IsNew(store, journal)
    BY <1>1 DEF IsNew, StateOf
  <2>4. RecoverInv'
    BY <1>1, <1>2, <1>3, <1>10, <2>1, <2>3 DEF RecoverInv, WriteSteps, IsRotation
  <2> QED
    BY <1>1, <1>5, <1>6, <1>7, <1>8, <2>2, <2>4 DEF IInv
<1> QED
  BY <1>9, <1>10

LEMMA OpenKeeps ==
    ASSUME IInv, NEW p \in Procs, NEW k \in Keys, Open(p, k)
    PROVE  IInv'
<1>1. lock = None /\ lock' = p /\ step = "down" /\ UNCHANGED <<faults, disk, view, checked, legit>>
  BY DEF Open, IInv, TypeOK
<1>2. CASE journal = None
  BY <1>1, <1>2, StartRecovery DEF Open
<1>3. CASE journal # None
  <2>1. PICK plan \in PlanRecovery(k) :
            step' = FirstStep(plan) /\ txn' = Recovering("open", k, plan.purge)
    BY <1>3 DEF Open
  <2>2. Sound(plan) /\ plan.purge \in BOOLEAN /\ plan.advance \in BOOLEAN
    BY <1>1, <1>3, PlanRecoverySound
  <2>3. plan = Plan(plan.advance, plan.purge)
    BY DEF Plan, PlanRecovery, PlanSameKey, PlanRotation
  <2> QED
    BY <1>1, <1>3, <2>1, <2>2, <2>3, StartRecovery
<1> QED
  BY <1>2, <1>3

LEMMA RecoverRotationKeeps ==
    ASSUME IInv, NEW p \in Procs, NEW ko \in Keys, NEW kn \in Keys, RecoverRotation(p, ko, kn)
    PROVE  IInv'
<1>1. /\ lock = None /\ lock' = p /\ step = "down" /\ ko # kn /\ journal # None
      /\ UNCHANGED <<faults, disk, view, checked, legit>>
  BY DEF RecoverRotation, IInv, TypeOK
<1>2. PICK plan \in PlanWithBothKeys(ko, kn) :
          step' = FirstStep(plan) /\ txn' = Recovering("recover", store.key, plan.purge)
  BY DEF RecoverRotation
<1>3. Sound(plan) /\ plan.purge \in BOOLEAN /\ plan.advance \in BOOLEAN /\ store.key \in Keys
  BY <1>1, PlanWithBothKeysSound
<1>4. plan = Plan(plan.advance, plan.purge)
  BY DEF Plan, PlanWithBothKeys
<1> QED
  BY <1>1, <1>2, <1>3, <1>4, StartRecovery

LEMMA InspectKeeps ==
    ASSUME IInv, NEW ko \in Keys, NEW kn \in Keys, Inspect(ko, kn)
    PROVE  IInv'
<1>1. /\ lock = None /\ legit' = {store}
      /\ UNCHANGED <<faults, disk, lock, step, txn, view, checked>>
  BY DEF Inspect
<1>2. DiskInv' /\ JournalInv' /\ UNCHANGED <<store, anchor, journal, backups, unsynced, faults>>
      /\ Power' = Power /\ Stores' = Stores /\ Journals' = Journals /\ Backups' = Backups
  BY <1>1, SameDisk DEF IInv
<1>3. step = "down" /\ Stores = {store}
  BY <1>1, Settled DEF IInv, TypeOK
<1>4. TypeOK'
  BY <1>1, <1>2 DEF IInv, TypeOK
<1>5. KeyInv'
  BY <1>1, <1>2, <1>3, SameKeys DEF IInv
<1>6. SyncInv' /\ WriteInv' /\ RecoverInv' /\ CheckedInv'
  BY <1>1, <1>2 DEF IInv, SyncInv, WriteInv, RecoverInv, CheckedInv, Writes, JournalOf
<1>7. LegitInv'
  BY <1>1, <1>2, <1>3 DEF LegitInv, CommitSteps
<1> QED
  BY <1>2, <1>4, <1>5, <1>6, <1>7 DEF IInv

LEMMA WritingIs ==
    ASSUME NEW doc \in Document, NEW target \in State, NEW k \in Keys, NEW purge \in BOOLEAN
    PROVE  [kind |-> "commit", doc |-> doc, target |-> target, key |-> k, purge |-> purge] \in Txn
  BY DEF Txn, Kinds

\* create, update, rotate_secret, remove and rotate_master_key start alike.
LEMMA StartWrite ==
    ASSUME IInv, step = "open", view.rev < MaxRevision, NEW d \in Digests, NEW k \in Keys,
           step' = "journal",
           txn' = Writing("commit", [rev |-> view.rev + 1, digest |-> d, key |-> k], k # view.key),
           UNCHANGED <<faults, disk, lock, view, checked, legit>>
    PROVE  IInv'
<1>1. DiskInv' /\ JournalInv' /\ UNCHANGED <<store, anchor, journal, backups, unsynced, faults>>
      /\ Power' = Power /\ Stores' = Stores /\ Journals' = Journals /\ Backups' = Backups
  BY SameDisk DEF IInv
<1>2. /\ ~Writes /\ view # NoDoc /\ view \in Document /\ store = view /\ anchor = StateOf(view)
      /\ journal = None /\ view.rev \in Nat
  BY Documents DEF IInv, TypeOK, WriteInv, RecoverInv, WriteSteps, CommitSteps
<1> DEFINE doc == [rev |-> view.rev + 1, digest |-> d, key |-> k]
<1>3. doc \in Document /\ doc.rev = view.rev + 1 /\ doc.key = k
  <2>1. view.rev + 1 \in 1 .. MaxRevision
    BY <1>2, RevisionAssumption
  <2> QED
    BY <2>1 DEF Document
<1> HIDE DEF doc
<1>4. /\ txn'.kind = "commit" /\ txn'.doc = doc /\ txn'.target = StateOf(doc)
      /\ txn'.key = k /\ txn'.purge = (k # view.key) /\ txn' \in Txn /\ Writes'
  <2> DEFINE purge == k # view.key
  <2>1. txn' = [kind |-> "commit", doc |-> doc, target |-> StateOf(doc), key |-> k, purge |-> purge]
    BY DEF Writing, doc
  <2>2. purge \in BOOLEAN /\ purge = (k # view.key)
    OBVIOUS
  <2> HIDE DEF purge
  <2>3. /\ txn'.kind = "commit" /\ txn'.doc = doc /\ txn'.target = StateOf(doc)
        /\ txn'.key = k /\ txn' \in Txn /\ Writes'
    <3>1. StateOf(doc) \in State
      BY <1>3, Documents
    <3>2. txn' \in Txn
      BY <1>3, <2>1, <2>2, <3>1, WritingIs
    <3>3. txn'.kind = "commit" /\ txn'.doc = doc /\ txn'.target = StateOf(doc) /\ txn'.key = k
      BY <2>1
    <3> QED
      BY <1>3, <3>2, <3>3 DEF Writes
  <2>4. txn'.purge = purge
    BY <2>1
  <2> QED
    BY <2>2, <2>3, <2>4
<1>5. TypeOK'
  BY <1>1, <1>4 DEF IInv, TypeOK, Steps, WriteSteps
<1>6. KeyInv'
  BY <1>1, SameKeys DEF IInv
<1>7. SyncInv' /\ RecoverInv'
  BY <1>1, <1>4 DEF IInv, SyncInv, RecoverInv
<1>8. WriteInv'
  BY <1>1, <1>2, <1>3, <1>4 DEF WriteInv, WriteSteps, CommitSteps
<1>9. LegitInv'
  BY <1>1, <1>2 DEF IInv, LegitInv, CommitSteps
<1>10. CheckedInv'
  BY <1>1, <1>2, <1>4 DEF IInv, CheckedInv
<1> QED
  BY <1>1, <1>5, <1>6, <1>7, <1>8, <1>9, <1>10 DEF IInv

LEMMA OperationKeeps ==
    ASSUME IInv, NEW d \in Digests,
           Mutate(d) \/ \E k \in Keys : RotateMasterKey(d, k)
    PROVE  IInv'
<1>1. CASE Mutate(d)
  <2>1. view.key \in Keys /\ (view.key # view.key) = FALSE
    BY <1>1, Documents DEF Mutate, IInv, TypeOK, WriteInv, RecoverInv, WriteSteps, CommitSteps
  <2> QED
    BY <1>1, <2>1, StartWrite DEF Mutate
<1>2. CASE \E k \in Keys : RotateMasterKey(d, k)
  BY <1>2, StartWrite DEF RotateMasterKey
<1> QED
  BY <1>1, <1>2

-----------------------------------------------------------------------------
(* Going down: the files are left as they are *)

LEMMA DoubtCovers ==
    ASSUME IInv, NEW attempted \in BOOLEAN, step \in CommitSteps \cup {"finish"} => attempted
    PROVE  Stores \subseteq Doubt(attempted) /\ Doubt(attempted) \subseteq Document \cup {NoDoc}
<1>1. legit \subseteq Doubt(attempted)
  BY DEF Doubt
<1>2. Doubt(attempted) \subseteq Document \cup {NoDoc}
  <2>1. txn.doc \in Document \cup {NoDoc}
    BY DEF IInv, TypeOK, Txn
  <2> QED
    BY <2>1 DEF Doubt, IInv, TypeOK
<1>3. CASE Writes /\ step \in CommitSteps \cup {"finish"}
  <2>1. txn.doc # NoDoc /\ view \in legit /\ Stores \subseteq {view, txn.doc}
    BY <1>3, Documents DEF IInv, WriteInv, LegitInv
  <2> QED
    BY <1>2, <1>3, <2>1 DEF Doubt
<1>4. CASE ~(Writes /\ step \in CommitSteps \cup {"finish"})
  BY <1>1, <1>2, <1>4 DEF IInv, LegitInv
<1> QED
  BY <1>3, <1>4

LEMMA NoTxnIs == NoTxn \in Txn /\ NoTxn.kind = "open" /\ NoTxn.doc = NoDoc
  BY DEF NoTxn, Txn, Kinds

LEMMA GoesDown ==
    ASSUME IInv, UNCHANGED <<faults, disk>>, view' = NoDoc, txn' = NoTxn,
           checked' \subseteq checked,
           Stores \subseteq legit', legit' \subseteq Document \cup {NoDoc},
           \/ step' = "down" /\ lock' = None
           \/ step' = "poisoned" /\ lock' = lock /\ lock # None /\ ~Power,
           Power => step \notin {"storeSync", "anchorSync", "journalSync", "unlinkSync"}
    PROVE  IInv'
<1>1. DiskInv' /\ JournalInv' /\ UNCHANGED <<store, anchor, journal, backups, unsynced, faults>>
      /\ Power' = Power /\ Stores' = Stores /\ Journals' = Journals /\ Backups' = Backups
  BY SameDisk DEF IInv
<1>2. txn' \in Txn /\ txn'.doc = NoDoc /\ ~Writes' /\ txn'.kind = "open"
  BY NoTxnIs DEF Writes
<1>3. TypeOK'
  BY <1>1, <1>2 DEF IInv, TypeOK, Steps
<1>4. KeyInv'
  BY <1>1, SameKeys DEF IInv
<1>5. SyncInv'
  BY <1>1 DEF IInv, SyncInv
<1>6. WriteInv' /\ RecoverInv'
  BY <1>1, <1>2 DEF WriteInv, RecoverInv, WriteSteps
<1>7. LegitInv' /\ CheckedInv'
  BY <1>1, <1>2 DEF IInv, LegitInv, CheckedInv
<1> QED
  BY <1>1, <1>3, <1>4, <1>5, <1>6, <1>7 DEF IInv

LEMMA PowerIsAlone ==
    ASSUME TypeOK, PowerAlone, "io" \in faults \/ "kill" \in faults
    PROVE  ~Power
  BY DEF TypeOK, PowerAlone, Power

LEMMA CloseKeeps == ASSUME IInv, Close PROVE IInv'
<1>1. /\ step \in {"open", "poisoned"} /\ lock' = None /\ step' = "down" /\ view' = NoDoc
      /\ txn' = NoTxn /\ UNCHANGED <<faults, disk, checked, legit>>
  BY DEF Close
<1>2. Stores \subseteq legit /\ legit \subseteq Document \cup {NoDoc}
  BY <1>1 DEF IInv, TypeOK, LegitInv, CommitSteps
<1> QED
  BY <1>1, <1>2, GoesDown

LEMMA RefuseOpenKeeps == ASSUME IInv, RefuseOpen PROVE IInv'
<1>1. /\ step = "finish" /\ lock' = None /\ step' = "down" /\ txn' = NoTxn /\ ~Writes
      /\ UNCHANGED <<faults, disk, view, checked, legit>>
  BY DEF RefuseOpen, Advance, Writes
<1>2. Stores \subseteq legit /\ legit \subseteq Document \cup {NoDoc} /\ view = NoDoc
  BY <1>1 DEF IInv, TypeOK, LegitInv, RecoverInv
<1> QED
  BY <1>1, <1>2, GoesDown

LEMMA IOFailureKeeps == ASSUME IInv, PowerAlone, IOFailure PROVE IInv'
<1>1. /\ "io" \in faults /\ step \in WriteSteps \cup CommitSteps
      /\ view' = NoDoc /\ txn' = NoTxn /\ UNCHANGED <<faults, disk, checked>>
      /\ \/ step' = "poisoned" /\ lock' = lock
         \/ step' = "down" /\ lock' = None
  BY DEF IOFailure
<1>2. PICK attempted \in BOOLEAN : /\ step # "store" => attempted = (step \in CommitSteps)
                                  /\ legit' = Doubt(attempted)
  BY DEF IOFailure
<1>3. step # "finish" /\ step # "down" /\ (step = "store" => step \notin CommitSteps)
  BY <1>1 DEF WriteSteps, CommitSteps
<1>4. step \in CommitSteps \cup {"finish"} => attempted
  BY <1>2, <1>3
<1>5. Stores \subseteq legit' /\ legit' \subseteq Document \cup {NoDoc}
  BY <1>2, <1>4, DoubtCovers
<1>6. ~Power /\ lock # None
  BY <1>1, <1>3, PowerIsAlone DEF IInv, TypeOK
<1> QED
  BY <1>1, <1>5, <1>6, GoesDown

LEMMA KillKeeps == ASSUME IInv, PowerAlone, NEW p \in Procs, Kill(p) PROVE IInv'
<1>1. /\ "kill" \in faults /\ checked' = checked \ {p} /\ UNCHANGED <<faults, disk>>
  BY DEF Kill
<1>2. ~Power
  BY <1>1, PowerIsAlone DEF IInv
<1>3. CASE p = lock
  <2>1. /\ lock' = None /\ step' = "down" /\ view' = NoDoc /\ txn' = NoTxn
        /\ legit' = Doubt(step \in CommitSteps \cup {"finish"})
    BY <1>3 DEF Kill
  <2> DEFINE attempted == step \in CommitSteps \cup {"finish"}
  <2>2. attempted \in BOOLEAN /\ (step \in CommitSteps \cup {"finish"} => attempted)
        /\ legit' = Doubt(attempted)
    BY <2>1
  <2> HIDE DEF attempted
  <2>3. Stores \subseteq legit' /\ legit' \subseteq Document \cup {NoDoc}
    BY <2>2, DoubtCovers
  <2> QED
    BY <1>1, <1>2, <2>1, <2>3, GoesDown
<1>4. CASE p # lock
  <2>1. UNCHANGED <<lock, step, view, txn, legit>>
    BY <1>4 DEF Kill
  <2>2. DiskInv' /\ JournalInv' /\ UNCHANGED <<store, anchor, journal, backups, unsynced, faults>>
        /\ Power' = Power /\ Stores' = Stores /\ Journals' = Journals /\ Backups' = Backups
    BY <1>1, SameDisk DEF IInv
  <2>3. TypeOK'
    BY <1>1, <2>1, <2>2 DEF IInv, TypeOK
  <2>4. KeyInv'
    BY <2>1, <2>2, SameKeys DEF IInv, KeyInv
  <2>5. SyncInv' /\ WriteInv' /\ RecoverInv' /\ LegitInv' /\ CheckedInv'
    BY <1>1, <2>1, <2>2 DEF IInv, SyncInv, WriteInv, RecoverInv, LegitInv, CheckedInv,
       Writes, JournalOf
  <2> QED
    BY <2>2, <2>3, <2>4, <2>5 DEF IInv
<1> QED
  BY <1>3, <1>4

-----------------------------------------------------------------------------
(* What the system calls of the protocol do to the files *)

DiskType ==
    /\ store \in Document \cup {NoDoc}
    /\ anchor \in State \cup {NoState}
    /\ journal \in Journal \cup {None}
    /\ backups \subseteq Backup
    /\ unsynced \in [store : SUBSET (Document \cup {NoDoc}),
                     anchor : SUBSET (State \cup {NoState}),
                     journal : SUBSET (Journal \cup {None}),
                     backups : SUBSET Backup]

LEMMA ReplaceStoreIs ==
    ASSUME TypeOK, NEW doc \in Document, ReplaceStore(doc),
           UNCHANGED <<faults, anchor, journal, backups>>
    PROVE  /\ DiskType' /\ store' = doc
           /\ unsynced'.anchor = unsynced.anchor /\ unsynced'.journal = unsynced.journal
           /\ Power' = Power /\ Stores' \subseteq Stores \cup {doc}
           /\ Anchors' = Anchors /\ Journals' = Journals /\ Backups' = Backups
<1>1. unsynced' = [unsynced EXCEPT !.store = @ \cup {store}] /\ store' = doc
  BY DEF ReplaceStore
<1>2. /\ unsynced'.store = unsynced.store \cup {store} /\ unsynced'.anchor = unsynced.anchor
      /\ unsynced'.journal = unsynced.journal /\ unsynced'.backups = unsynced.backups
      /\ DiskType'
  BY <1>1 DEF TypeOK, DiskType
<1>3. Power' = Power
  BY DEF Power
<1> QED
  BY <1>1, <1>2, <1>3 DEF Stores, Anchors, Journals, Backups

LEMMA ReplaceAnchorIs ==
    ASSUME TypeOK, NEW state \in State, ReplaceAnchor(state),
           UNCHANGED <<faults, store, journal, backups>>
    PROVE  /\ DiskType' /\ anchor' = state
           /\ unsynced'.store = unsynced.store /\ unsynced'.journal = unsynced.journal
           /\ Power' = Power /\ Anchors' \subseteq Anchors \cup {state}
           /\ Stores' = Stores /\ Journals' = Journals /\ Backups' = Backups
<1>1. unsynced' = [unsynced EXCEPT !.anchor = @ \cup {anchor}] /\ anchor' = state
  BY DEF ReplaceAnchor
<1>2. /\ unsynced'.anchor = unsynced.anchor \cup {anchor} /\ unsynced'.store = unsynced.store
      /\ unsynced'.journal = unsynced.journal /\ unsynced'.backups = unsynced.backups
      /\ DiskType'
  BY <1>1 DEF TypeOK, DiskType
<1>3. Power' = Power
  BY DEF Power
<1> QED
  BY <1>1, <1>2, <1>3 DEF Stores, Anchors, Journals, Backups

LEMMA ReplaceJournalIs ==
    ASSUME TypeOK, NEW j \in Journal \cup {None}, ReplaceJournal(j),
           UNCHANGED <<faults, store, anchor, backups>>
    PROVE  /\ DiskType' /\ journal' = j
           /\ unsynced'.store = unsynced.store /\ unsynced'.anchor = unsynced.anchor
           /\ Power' = Power /\ Journals' \subseteq Journals \cup {j}
           /\ Stores' = Stores /\ Anchors' = Anchors /\ Backups' = Backups
<1>1. unsynced' = [unsynced EXCEPT !.journal = @ \cup {journal}] /\ journal' = j
  BY DEF ReplaceJournal
<1>2. /\ unsynced'.journal = unsynced.journal \cup {journal} /\ unsynced'.store = unsynced.store
      /\ unsynced'.anchor = unsynced.anchor /\ unsynced'.backups = unsynced.backups
      /\ DiskType'
  BY <1>1 DEF TypeOK, DiskType
<1>3. Power' = Power
  BY DEF Power
<1> QED
  BY <1>1, <1>2, <1>3 DEF Stores, Anchors, Journals, Backups

LEMMA SyncStoreIs ==
    ASSUME TypeOK, SyncStoreDirectory, UNCHANGED <<faults, store, anchor, journal, backups>>
    PROVE  /\ DiskType'
           /\ unsynced'.store = {} /\ unsynced'.anchor = unsynced.anchor
           /\ unsynced'.journal = unsynced.journal
           /\ Power' = Power /\ Stores' \subseteq Stores /\ Backups' = backups
           /\ Backups' \subseteq Backups /\ Anchors' = Anchors /\ Journals' = Journals
<1>1. unsynced' = [unsynced EXCEPT !.store = {}, !.backups = {}]
  BY DEF SyncStoreDirectory
<1>2. /\ unsynced'.store = {} /\ unsynced'.backups = {} /\ unsynced'.anchor = unsynced.anchor
      /\ unsynced'.journal = unsynced.journal /\ DiskType'
  BY <1>1 DEF TypeOK, DiskType
<1>3. Power' = Power
  BY DEF Power
<1> QED
  BY <1>1, <1>2, <1>3 DEF Stores, Anchors, Journals, Backups

LEMMA SyncAnchorIs ==
    ASSUME TypeOK, SyncAnchorDirectory, UNCHANGED <<faults, store, anchor, journal, backups>>
    PROVE  /\ DiskType'
           /\ unsynced'.store = unsynced.store /\ unsynced'.anchor = {} /\ unsynced'.journal = {}
           /\ Power' = Power /\ Stores' = Stores /\ Backups' = Backups
           /\ Anchors' \subseteq Anchors /\ Journals' \subseteq Journals
<1>1. unsynced' = [unsynced EXCEPT !.anchor = {}, !.journal = {}]
  BY DEF SyncAnchorDirectory
<1>2. /\ unsynced'.store = unsynced.store /\ unsynced'.backups = unsynced.backups
      /\ unsynced'.anchor = {} /\ unsynced'.journal = {} /\ DiskType'
  BY <1>1 DEF TypeOK, DiskType
<1>3. Power' = Power
  BY DEF Power
<1> QED
  BY <1>1, <1>2, <1>3 DEF Stores, Anchors, Journals, Backups

LEMMA SetBackupsIs ==
    ASSUME TypeOK, NEW set \in SUBSET Backup, SetBackups(set),
           UNCHANGED <<faults, store, anchor, journal>>
    PROVE  /\ DiskType'
           /\ unsynced'.store = unsynced.store /\ unsynced'.anchor = unsynced.anchor
           /\ unsynced'.journal = unsynced.journal
           /\ Power' = Power /\ Stores' = Stores /\ Anchors' = Anchors /\ Journals' = Journals
           /\ Backups' \subseteq Backups \cup set
<1>1. /\ unsynced' = [unsynced EXCEPT !.backups = @ \cup (set \ backups) \cup (backups \ set)]
      /\ backups' = set
  BY DEF SetBackups
<1>2. /\ unsynced'.backups = unsynced.backups \cup (set \ backups) \cup (backups \ set)
      /\ unsynced'.store = unsynced.store /\ unsynced'.anchor = unsynced.anchor
      /\ unsynced'.journal = unsynced.journal /\ DiskType'
  BY <1>1 DEF TypeOK, DiskType
<1>3. Power' = Power
  BY DEF Power
<1>4. backups \subseteq Backups
  BY DEF Backups
<1>5. Backups' \subseteq Backups \cup set
  BY <1>1, <1>2, <1>3, <1>4 DEF Backups
<1> QED
  BY <1>1, <1>2, <1>3, <1>5 DEF Stores, Anchors, Journals

\* Forgetting outcomes keeps what held of all of them.
LEMMA FewerOutcomes ==
    ASSUME DiskInv, JournalInv, KeyInv,
           Stores' \subseteq Stores, Anchors' \subseteq Anchors,
           Journals' \subseteq Journals, Backups' \subseteq Backups,
           step' = "unlink" => \A b \in Backups' : b.key = store'.key
    PROVE  DiskInv' /\ JournalInv' /\ KeyInv'
<1>1. DiskInv'
  BY DEF DiskInv
<1>2. JournalInv'
  BY DEF JournalInv
<1>3. KeyInv'
  BY DEF KeyInv
<1> QED
  BY <1>1, <1>2, <1>3

\* The holder goes on with its transaction.
LEMMA HolderKept ==
    ASSUME TypeOK, CheckedInv, DiskType', UNCHANGED <<faults, Holder>>,
           step # "down", step' \in Steps \ {"down"},
           checked # {} => UNCHANGED <<store, anchor>>
    PROVE  /\ TypeOK' /\ CheckedInv' /\ Writes' = Writes
           /\ UNCHANGED <<lock, txn, view, checked, legit, faults>>
<1>1. UNCHANGED <<lock, txn, view, checked, legit, faults>>
  BY DEF Holder
<1>2. TypeOK'
  BY <1>1 DEF TypeOK, DiskType
<1> QED
  BY <1>1, <1>2 DEF CheckedInv, Writes

-----------------------------------------------------------------------------
(* The steps of the protocol *)

LEMMA WritingFacts ==
    ASSUME IInv, Writes
    PROVE  /\ txn.doc \in Document /\ txn.target = StateOf(txn.doc) /\ txn.target \in State
           /\ txn.key = txn.doc.key /\ txn.key \in Keys
           /\ view \in Document \cup {NoDoc} /\ view.rev < txn.doc.rev /\ StateOf(view) # txn.target
           /\ StateOf(view) \in State \cup {NoState}
           /\ StateOf(view) = NoState <=> view = NoDoc
           /\ StateOf(view).rev = view.rev /\ txn.target.rev = txn.doc.rev
           /\ JournalOf \in Journal /\ JournalOf # None
           /\ JournalOf.old = StateOf(view) /\ JournalOf.new = txn.target /\ JournalOf.newKey = txn.key
           /\ JournalOf.oldKey = IF view = NoDoc THEN txn.key ELSE view.key
           /\ IsOld(view, JournalOf) /\ IsNew(txn.doc, JournalOf) /\ ~IsOld(txn.doc, JournalOf)
           /\ IsRotation(JournalOf) <=> txn.purge
<1>1. /\ txn.doc \in Document /\ txn.doc.rev = view.rev + 1 /\ txn.target = StateOf(txn.doc)
      /\ txn.key = txn.doc.key /\ view \in Document \cup {NoDoc}
      /\ txn.purge <=> (view # NoDoc /\ txn.key # view.key)
  BY DEF IInv, WriteInv, TypeOK
<1>2. /\ txn.target \in State /\ txn.key \in Keys /\ StateOf(view) \in State \cup {NoState}
      /\ StateOf(view) = NoState <=> view = NoDoc
      /\ StateOf(view).rev = view.rev /\ txn.target.rev = txn.doc.rev
  BY <1>1, Documents
<1>3. view.rev \in Nat
  BY <1>1, Documents
<1>4. view.rev < txn.doc.rev /\ view.rev # txn.doc.rev
  BY <1>1, <1>3
<1>5. StateOf(view) # txn.target
  BY <1>2, <1>4
<1>6. /\ JournalOf.old = StateOf(view) /\ JournalOf.new = txn.target /\ JournalOf.newKey = txn.key
      /\ JournalOf.oldKey = IF view = NoDoc THEN txn.key ELSE view.key
  BY DEF JournalOf
<1>7. JournalOf \in Journal
  <2>1. (IF view = NoDoc THEN txn.key ELSE view.key) \in Keys
    BY <1>1, <1>2, Documents
  <2> QED
    BY <1>2, <2>1 DEF JournalOf, Journal
<1>8. JournalOf # None
  BY <1>7, NoneAssumption
<1>9. /\ IsOld(view, JournalOf) /\ IsNew(txn.doc, JournalOf) /\ ~IsOld(txn.doc, JournalOf)
      /\ IsRotation(JournalOf) <=> txn.purge
  BY <1>1, <1>5, <1>6 DEF IsOld, IsNew, IsRotation
<1> QED
  BY <1>1, <1>2, <1>4, <1>5, <1>6, <1>7, <1>8, <1>9

LEMMA WriteJournalKeeps == ASSUME IInv, WriteJournal PROVE IInv'
<1>1. /\ step = "journal" /\ step' = "journalSync" /\ ReplaceJournal(JournalOf)
      /\ UNCHANGED <<faults, store, anchor, backups, Holder>>
  BY DEF WriteJournal, Advance, JournalOf
<1>2. Writes /\ store = view /\ anchor = StateOf(view) /\ (view # NoDoc => journal = None)
  BY <1>1 DEF IInv, RecoverInv, WriteInv, WriteSteps
<1>3. /\ DiskType' /\ journal' = JournalOf /\ Power' = Power
      /\ unsynced'.store = unsynced.store /\ unsynced'.anchor = unsynced.anchor
      /\ Journals' \subseteq Journals \cup {JournalOf}
      /\ Stores' = Stores /\ Anchors' = Anchors /\ Backups' = Backups
  BY <1>1, <1>2, WritingFacts, ReplaceJournalIs DEF IInv
<1>4. Stores = {view} /\ Anchors = {StateOf(view)} /\ Journals = {journal}
  BY <1>1, <1>2, Settled DEF IInv
<1>5. TypeOK' /\ CheckedInv' /\ Writes' /\ UNCHANGED <<lock, txn, view, checked, legit, faults>>
  BY <1>1, <1>2, <1>3, HolderKept DEF IInv, Steps, WriteSteps
<1>6. DiskInv'
  BY <1>3, <1>4, <1>2, WritingFacts DEF IInv, DiskInv, Agree
<1>7. JournalInv'
  <2>1. JournalOf.old.rev < JournalOf.new.rev
    BY <1>2, WritingFacts
  <2>2. IsRotation(JournalOf) => JournalOf.old # NoState
    BY <1>2, WritingFacts DEF IsRotation
  <2> QED
    BY <1>3, <2>1, <2>2 DEF IInv, JournalInv
<1>8. KeyInv'
  <2>1. view = NoDoc => Backups = {}
    BY <1>4 DEF IInv, KeyInv
  <2>2. view # NoDoc => \A b \in Backups : b.key = view.key
    BY <1>2, <1>4 DEF IInv, KeyInv
  <2>3. /\ JournalOf.old = NoState => Backups = {}
        /\ ~IsRotation(JournalOf) => \A b \in Backups : b.key = JournalOf.newKey
        /\ IsRotation(JournalOf) => \A b \in Backups : b.key = JournalOf.oldKey
    BY <1>2, <2>1, <2>2, WritingFacts DEF IsRotation
  <2> QED
    BY <1>1, <1>3, <2>3, WritingFacts, <1>2 DEF IInv, KeyInv
<1>9. SyncInv'
  BY <1>1, <1>3 DEF IInv, SyncInv
<1>10. WriteInv' /\ RecoverInv'
  <2>1. JournalOf' = JournalOf
    BY <1>5 DEF JournalOf
  <2> QED
    BY <1>1, <1>2, <1>3, <1>5, <2>1 DEF IInv, WriteInv, RecoverInv, WriteSteps, CommitSteps
<1>11. LegitInv'
  BY <1>1, <1>3, <1>5 DEF IInv, LegitInv, CommitSteps
<1> QED
  BY <1>5, <1>6, <1>7, <1>8, <1>9, <1>10, <1>11 DEF IInv

LEMMA SyncJournalKeeps == ASSUME IInv, SyncJournal PROVE IInv'
<1>1. /\ step = "journalSync" /\ step' = (IF txn.kind = "commit" THEN "backup" ELSE "store")
      /\ SyncAnchorDirectory
      /\ UNCHANGED <<faults, store, anchor, journal, backups, Holder>>
  BY DEF SyncJournal, Advance
<1>2. Writes /\ step' \in {"backup", "store"}
  BY <1>1 DEF IInv, RecoverInv, WriteSteps
<1>3. /\ DiskType' /\ Power' = Power
      /\ unsynced'.store = unsynced.store /\ unsynced'.anchor = {} /\ unsynced'.journal = {}
      /\ Journals' \subseteq Journals /\ Stores' = Stores /\ Anchors' \subseteq Anchors
      /\ Backups' = Backups
  BY <1>1, SyncAnchorIs DEF IInv
<1>4. TypeOK' /\ CheckedInv' /\ Writes' /\ UNCHANGED <<lock, txn, view, checked, legit, faults>>
  BY <1>1, <1>2, <1>3, HolderKept DEF IInv, Steps, WriteSteps
<1>5. DiskInv' /\ JournalInv' /\ KeyInv'
  BY <1>2, <1>3, FewerOutcomes DEF IInv
<1>6. SyncInv'
  BY <1>1, <1>2, <1>3 DEF IInv, SyncInv
<1>7. WriteInv' /\ RecoverInv'
  <2>1. JournalOf' = JournalOf
    BY <1>4 DEF JournalOf
  <2>2. step' = "backup" => view # NoDoc
    BY <1>1, <1>2 DEF IInv, WriteInv
  <2> QED
    BY <1>1, <1>2, <1>3, <1>4, <2>1, <2>2 DEF IInv, WriteInv, RecoverInv, WriteSteps, CommitSteps
<1>8. LegitInv'
  BY <1>1, <1>2, <1>3, <1>4 DEF IInv, LegitInv, CommitSteps
<1> QED
  BY <1>4, <1>5, <1>6, <1>7, <1>8 DEF IInv

LEMMA WriteBackupKeeps == ASSUME IInv, WriteBackup PROVE IInv'
<1>1. /\ step = "backup" /\ step' = "store"
      /\ UNCHANGED <<faults, store, anchor, journal, Holder>>
  BY DEF WriteBackup, Advance
<1>2. /\ Writes /\ store = view /\ view \in Document /\ journal = JournalOf
  BY <1>1 DEF IInv, RecoverInv, WriteInv, WriteSteps, TypeOK
<1> DEFINE b == [rev |-> view.rev, key |-> store.key]
<1>3. PICK set \in SUBSET Backup : SetBackups(set) /\ set \subseteq backups \cup {b}
  <2>1. b \in Backup
    BY <1>2 DEF Backup, Document
  <2> QED
    BY <2>1 DEF WriteBackup, IInv, TypeOK
<1>4. b.key = view.key
  BY <1>2
<1> HIDE DEF b
<1>5. /\ DiskType' /\ Power' = Power
      /\ unsynced'.store = unsynced.store /\ unsynced'.anchor = unsynced.anchor
      /\ unsynced'.journal = unsynced.journal
      /\ Stores' = Stores /\ Anchors' = Anchors /\ Journals' = Journals
      /\ Backups' \subseteq Backups \cup set
  BY <1>1, <1>3, SetBackupsIs DEF IInv
<1>6. Backups' \subseteq Backups \cup {b}
  BY <1>3, <1>5 DEF Backups
<1>7. Stores = {view} /\ Journals = {JournalOf}
  BY <1>1, <1>2, Settled DEF IInv
<1>8. TypeOK' /\ CheckedInv' /\ Writes' /\ UNCHANGED <<lock, txn, view, checked, legit, faults>>
  BY <1>1, <1>2, <1>5, HolderKept DEF IInv, Steps, WriteSteps
<1>9. DiskInv' /\ JournalInv'
  BY <1>5 DEF IInv, DiskInv, JournalInv
<1>10. KeyInv'
  <2>1. /\ view # NoDoc /\ JournalOf # None /\ JournalOf.old # NoState
        /\ JournalOf.oldKey = view.key
    BY <1>2, WritingFacts, Documents
  <2>2. /\ ~IsRotation(JournalOf) => \A c \in Backups : c.key = JournalOf.newKey
        /\ IsRotation(JournalOf) => \A c \in Backups : c.key = JournalOf.oldKey
    BY <1>2, <1>7, <2>1, WritingFacts DEF IInv, KeyInv
  <2>3. /\ ~IsRotation(JournalOf) => \A c \in Backups' : c.key = JournalOf.newKey
        /\ IsRotation(JournalOf) => \A c \in Backups' : c.key = JournalOf.oldKey
    BY <1>4, <1>6, <2>1, <2>2 DEF IsRotation
  <2> QED
    BY <1>1, <1>5, <1>7, <2>1, <2>3 DEF KeyInv
<1>11. SyncInv'
  BY <1>1, <1>5 DEF IInv, SyncInv
<1>12. WriteInv' /\ RecoverInv'
  <2>1. JournalOf' = JournalOf
    BY <1>8 DEF JournalOf
  <2> QED
    BY <1>1, <1>2, <1>8, <2>1 DEF IInv, WriteInv, RecoverInv, WriteSteps, CommitSteps
<1>13. LegitInv'
  BY <1>1, <1>5, <1>8 DEF IInv, LegitInv, CommitSteps
<1> QED
  BY <1>8, <1>9, <1>10, <1>11, <1>12, <1>13 DEF IInv

LEMMA WriteStoreKeeps == ASSUME IInv, WriteStore PROVE IInv'
<1>1. /\ step = "store" /\ step' = "storeSync" /\ ReplaceStore(txn.doc)
      /\ UNCHANGED <<faults, anchor, journal, backups, Holder>>
  BY DEF WriteStore, Advance
<1>2. /\ Writes /\ store = view /\ anchor = StateOf(view) /\ journal = JournalOf
      /\ txn.doc \in Document /\ checked = {}
  BY <1>1 DEF IInv, RecoverInv, WriteInv, WriteSteps, CheckedInv
<1>3. /\ DiskType' /\ store' = txn.doc /\ Power' = Power
      /\ unsynced'.anchor = unsynced.anchor /\ unsynced'.journal = unsynced.journal
      /\ Stores' \subseteq Stores \cup {txn.doc}
      /\ Anchors' = Anchors /\ Journals' = Journals /\ Backups' = Backups
  BY <1>1, <1>2, ReplaceStoreIs DEF IInv
<1>4. Stores = {view} /\ Anchors = {StateOf(view)} /\ Journals = {JournalOf}
  BY <1>1, <1>2, Settled DEF IInv
<1>5. TypeOK' /\ CheckedInv' /\ Writes' /\ UNCHANGED <<lock, txn, view, checked, legit, faults>>
  BY <1>1, <1>2, <1>3, HolderKept DEF IInv, Steps, CommitSteps
<1>6. DiskInv' /\ JournalInv'
  <2>1. /\ Agree(view, StateOf(view), JournalOf) /\ Agree(txn.doc, StateOf(view), JournalOf)
    BY <1>2, WritingFacts DEF Agree
  <2>2. DiskInv'
    BY <1>3, <1>4, <2>1 DEF DiskInv
  <2>3. JournalInv'
    BY <1>3 DEF IInv, JournalInv
  <2> QED
    BY <2>2, <2>3
<1>7. KeyInv'
  <2>1. JournalOf # None /\ txn.doc # NoDoc /\ ~IsOld(txn.doc, JournalOf)
    BY <1>2, WritingFacts, Documents
  <2> QED
    BY <1>1, <1>3, <1>4, <2>1 DEF IInv, KeyInv
<1>8. SyncInv'
  BY <1>1, <1>3 DEF IInv, SyncInv
<1>9. WriteInv' /\ RecoverInv'
  <2>1. JournalOf' = JournalOf
    BY <1>5 DEF JournalOf
  <2> QED
    BY <1>1, <1>2, <1>3, <1>5, <2>1 DEF IInv, WriteInv, RecoverInv, WriteSteps, CommitSteps
<1>10. LegitInv'
  <2>1. view \in legit
    BY <1>1, <1>4 DEF IInv, LegitInv, CommitSteps
  <2> QED
    BY <1>1, <1>3, <1>4, <1>5, <2>1 DEF LegitInv, CommitSteps
<1> QED
  BY <1>5, <1>6, <1>7, <1>8, <1>9, <1>10 DEF IInv

LEMMA SyncStoreKeeps == ASSUME IInv, SyncStore PROVE IInv'
<1>1. /\ step = "storeSync" /\ step' = "anchor" /\ SyncStoreDirectory
      /\ UNCHANGED <<faults, store, anchor, journal, backups, Holder>>
  BY DEF SyncStore, Advance
<1>2. Writes
  BY <1>1 DEF IInv, RecoverInv
<1>3. /\ DiskType' /\ Power' = Power
      /\ unsynced'.store = {} /\ unsynced'.anchor = unsynced.anchor
      /\ unsynced'.journal = unsynced.journal
      /\ Stores' \subseteq Stores /\ Backups' \subseteq Backups
      /\ Anchors' = Anchors /\ Journals' = Journals
  BY <1>1, SyncStoreIs DEF IInv
<1>4. TypeOK' /\ CheckedInv' /\ Writes' /\ UNCHANGED <<lock, txn, view, checked, legit, faults>>
  BY <1>1, <1>2, <1>3, HolderKept DEF IInv, Steps, CommitSteps
<1>5. DiskInv' /\ JournalInv' /\ KeyInv'
  BY <1>1, <1>3, FewerOutcomes DEF IInv
<1>6. SyncInv'
  BY <1>1, <1>3 DEF IInv, SyncInv
<1>7. WriteInv' /\ RecoverInv'
  <2>1. JournalOf' = JournalOf
    BY <1>4 DEF JournalOf
  <2> QED
    BY <1>1, <1>2, <1>4, <2>1 DEF IInv, WriteInv, RecoverInv, WriteSteps, CommitSteps
<1>8. LegitInv'
  BY <1>1, <1>2, <1>3, <1>4 DEF IInv, LegitInv, CommitSteps
<1> QED
  BY <1>4, <1>5, <1>6, <1>7, <1>8 DEF IInv

\* The store is the new one while the anchor advances and the backups are purged.
LEMMA Advancing ==
    ASSUME IInv, step \in {"anchor", "anchorSync", "purge"}
    PROVE  /\ journal # None /\ journal \in Journal /\ IsNew(store, journal)
           /\ store \in Document /\ txn.target = journal.new /\ txn.target \in State
           /\ txn.purge <=> IsRotation(journal)
           /\ checked = {}
           /\ step \in {"anchorSync", "purge"} => anchor = journal.new /\ anchor = StateOf(store)
<1>1. /\ journal # None /\ IsNew(store, journal) /\ txn.target = journal.new
      /\ txn.purge <=> IsRotation(journal)
      /\ step \in {"anchorSync", "purge"} => anchor = journal.new
  <2>1. CASE Writes
    <3>1. journal = JournalOf /\ store = txn.doc
          /\ (step \in {"anchorSync", "purge"} => anchor = txn.target)
      BY <2>1 DEF IInv, WriteInv, CommitSteps, WriteSteps
    <3> QED
      BY <2>1, <3>1, WritingFacts
  <2>2. CASE ~Writes
    BY <2>2 DEF IInv, RecoverInv
  <2> QED
    BY <2>1, <2>2
<1>2. journal \in Journal /\ journal.new \in State /\ store \in Document \cup {NoDoc}
  BY <1>1, StoreIs DEF IInv
<1>3. store \in Document
  BY <1>1, <1>2, Documents DEF IsNew
<1>4. checked = {}
  BY <1>3, Documents DEF IInv, CheckedInv
<1> QED
  BY <1>1, <1>2, <1>3, <1>4 DEF IsNew

LEMMA WriteAnchorKeeps == ASSUME IInv, WriteAnchor PROVE IInv'
<1>1. /\ step = "anchor" /\ step' = "anchorSync" /\ ReplaceAnchor(txn.target)
      /\ UNCHANGED <<faults, store, journal, backups, Holder>>
  BY DEF WriteAnchor, Advance
<1>2. /\ journal # None /\ IsNew(store, journal) /\ txn.target = journal.new
      /\ txn.target \in State /\ checked = {} /\ (txn.purge <=> IsRotation(journal))
  BY <1>1, Advancing
<1>3. /\ DiskType' /\ anchor' = txn.target /\ Power' = Power
      /\ unsynced'.store = unsynced.store /\ unsynced'.journal = unsynced.journal
      /\ Anchors' \subseteq Anchors \cup {txn.target}
      /\ Stores' = Stores /\ Journals' = Journals /\ Backups' = Backups
  BY <1>1, <1>2, ReplaceAnchorIs DEF IInv
<1>4. Stores = {store} /\ Anchors = {anchor} /\ Journals = {journal}
  BY <1>1, Settled DEF IInv
<1>5. /\ TypeOK' /\ CheckedInv' /\ Writes' = Writes
      /\ UNCHANGED <<lock, txn, view, checked, legit, faults>>
  BY <1>1, <1>2, <1>3, HolderKept DEF IInv, Steps, CommitSteps
<1>6. DiskInv' /\ JournalInv'
  <2>1. Agree(store, txn.target, journal)
    BY <1>2 DEF Agree
  <2>2. DiskInv'
    BY <1>3, <1>4, <2>1 DEF IInv, DiskInv
  <2>3. JournalInv'
    BY <1>3 DEF IInv, JournalInv
  <2> QED
    BY <2>2, <2>3
<1>7. KeyInv'
  BY <1>1, <1>3, SameKeys DEF IInv
<1>8. SyncInv'
  BY <1>1, <1>3 DEF IInv, SyncInv
<1>9. WriteInv'
  <2>1. JournalOf' = JournalOf
    BY <1>5 DEF JournalOf
  <2> QED
    BY <1>1, <1>3, <1>5, <2>1 DEF IInv, WriteInv, WriteSteps, CommitSteps
<1>10. RecoverInv'
  <2>1. IsNew(store, journal)' /\ (IsRotation(journal)' <=> IsRotation(journal)) /\ journal' = journal
    BY <1>1, <1>2 DEF IsNew, StateOf, IsRotation
  <2> QED
    BY <1>1, <1>2, <1>3, <1>5, <2>1 DEF IInv, RecoverInv, WriteSteps
<1>11. LegitInv'
  BY <1>1, <1>3, <1>5 DEF IInv, LegitInv, CommitSteps
<1> QED
  BY <1>5, <1>6, <1>7, <1>8, <1>9, <1>10, <1>11 DEF IInv

LEMMA SyncAnchorKeeps == ASSUME IInv, SyncAnchor PROVE IInv'
<1>1. /\ step = "anchorSync" /\ step' = (IF txn.purge THEN "purge" ELSE "unlink")
      /\ SyncAnchorDirectory
      /\ UNCHANGED <<faults, store, anchor, journal, backups, Holder>>
  BY DEF SyncAnchor, Advance
<1>2. /\ journal # None /\ IsNew(store, journal) /\ txn.target = journal.new
      /\ checked = {} /\ (txn.purge <=> IsRotation(journal)) /\ anchor = StateOf(store)
  BY <1>1, Advancing
<1>3. /\ DiskType' /\ Power' = Power
      /\ unsynced'.store = unsynced.store /\ unsynced'.anchor = {} /\ unsynced'.journal = {}
      /\ Journals' \subseteq Journals /\ Stores' = Stores /\ Anchors' \subseteq Anchors
      /\ Backups' = Backups
  BY <1>1, SyncAnchorIs DEF IInv
<1>4. step' \in {"purge", "unlink"}
  BY <1>1
<1>5. /\ TypeOK' /\ CheckedInv' /\ Writes' = Writes
      /\ UNCHANGED <<lock, txn, view, checked, legit, faults>>
  BY <1>1, <1>3, <1>4, HolderKept DEF IInv, Steps, CommitSteps
<1>6. DiskInv' /\ JournalInv' /\ KeyInv'
  <2>1. step' = "unlink" => \A b \in Backups : b.key = store.key
    <3>1. journal \in Journals
      BY StoreIs DEF IInv
    <3> QED
      BY <1>1, <1>2, <3>1 DEF IInv, KeyInv, IsNew
  <2> QED
    BY <1>1, <1>3, <2>1, FewerOutcomes DEF IInv
<1>7. SyncInv'
  BY <1>1, <1>3, <1>4 DEF IInv, SyncInv
<1>8. WriteInv'
  <2>1. JournalOf' = JournalOf
    BY <1>5 DEF JournalOf
  <2> QED
    BY <1>1, <1>4, <1>5, <2>1 DEF IInv, WriteInv, WriteSteps, CommitSteps
<1>9. RecoverInv'
  <2>1. /\ IsNew(store, journal)' /\ (IsRotation(journal)' <=> IsRotation(journal))
        /\ anchor' = StateOf(store')
    BY <1>1, <1>2 DEF IsNew, StateOf, IsRotation
  <2> QED
    BY <1>1, <1>2, <1>4, <1>5, <2>1 DEF IInv, RecoverInv, WriteSteps
<1>10. LegitInv'
  BY <1>1, <1>3, <1>4, <1>5 DEF IInv, LegitInv, CommitSteps
<1> QED
  BY <1>5, <1>6, <1>7, <1>8, <1>9, <1>10 DEF IInv

LEMMA PurgeBackupKeeps == ASSUME IInv, PurgeBackup PROVE IInv'
<1>1. /\ step = "purge" /\ step' = "purge"
      /\ UNCHANGED <<faults, store, anchor, journal, Holder>>
  BY DEF PurgeBackup, Advance
<1>2. PICK set \in SUBSET backups : SetBackups(set)
  BY DEF PurgeBackup
<1>3. set \in SUBSET Backup /\ set \subseteq Backups
  BY <1>2, StoreIs DEF IInv, TypeOK
<1>4. /\ DiskType' /\ Power' = Power
      /\ unsynced'.store = unsynced.store /\ unsynced'.anchor = unsynced.anchor
      /\ unsynced'.journal = unsynced.journal
      /\ Stores' = Stores /\ Anchors' = Anchors /\ Journals' = Journals
      /\ Backups' \subseteq Backups \cup set
  BY <1>1, <1>2, <1>3, SetBackupsIs DEF IInv
<1>5. /\ TypeOK' /\ CheckedInv' /\ Writes' = Writes
      /\ UNCHANGED <<lock, txn, view, checked, legit, faults>>
  BY <1>1, <1>4, HolderKept DEF IInv, Steps, CommitSteps
<1>6. DiskInv' /\ JournalInv' /\ KeyInv'
  BY <1>1, <1>3, <1>4, FewerOutcomes DEF IInv
<1>7. SyncInv'
  BY <1>1, <1>4 DEF IInv, SyncInv
<1>8. WriteInv' /\ RecoverInv'
  <2>1. JournalOf' = JournalOf /\ IsNew(store, journal)' = IsNew(store, journal)
        /\ IsRotation(journal)' = IsRotation(journal)
    BY <1>1, <1>5 DEF JournalOf, IsNew, IsRotation, StateOf
  <2> QED
    BY <1>1, <1>5, <2>1 DEF IInv, WriteInv, RecoverInv, WriteSteps, CommitSteps
<1>9. LegitInv'
  BY <1>1, <1>4, <1>5 DEF IInv, LegitInv
<1> QED
  BY <1>5, <1>6, <1>7, <1>8, <1>9 DEF IInv

LEMMA SyncPurgeKeeps == ASSUME IInv, SyncPurge PROVE IInv'
<1>1. /\ step = "purge" /\ step' = "unlink" /\ backups = {} /\ SyncStoreDirectory
      /\ UNCHANGED <<faults, store, anchor, journal, backups, Holder>>
  BY DEF SyncPurge, Advance
<1>2. journal # None /\ checked = {} /\ anchor = StateOf(store)
  BY <1>1, Advancing
<1>3. /\ DiskType' /\ Power' = Power
      /\ unsynced'.store = {} /\ unsynced'.anchor = unsynced.anchor
      /\ unsynced'.journal = unsynced.journal
      /\ Stores' \subseteq Stores /\ Backups' = {} /\ Backups' \subseteq Backups
      /\ Anchors' = Anchors /\ Journals' = Journals
  BY <1>1, SyncStoreIs DEF IInv
<1>4. /\ TypeOK' /\ CheckedInv' /\ Writes' = Writes
      /\ UNCHANGED <<lock, txn, view, checked, legit, faults>>
  BY <1>1, <1>3, HolderKept DEF IInv, Steps, CommitSteps
<1>5. DiskInv' /\ JournalInv' /\ KeyInv'
  BY <1>3, FewerOutcomes DEF IInv
<1>6. SyncInv'
  BY <1>1, <1>3 DEF IInv, SyncInv
<1>7. WriteInv'
  <2>1. JournalOf' = JournalOf
    BY <1>4 DEF JournalOf
  <2> QED
    BY <1>1, <1>4, <2>1 DEF IInv, WriteInv, WriteSteps, CommitSteps
<1>8. RecoverInv'
  <2>1. anchor' = StateOf(store')
    BY <1>1, <1>2
  <2> QED
    BY <1>1, <1>2, <1>4, <2>1 DEF IInv, RecoverInv, WriteSteps
<1>9. LegitInv'
  BY <1>1, <1>3, <1>4 DEF IInv, LegitInv, CommitSteps
<1> QED
  BY <1>4, <1>5, <1>6, <1>7, <1>8, <1>9 DEF IInv

LEMMA RemoveJournalKeeps == ASSUME IInv, RemoveJournal PROVE IInv'
<1>1. /\ step = "unlink" /\ step' = "unlinkSync" /\ ReplaceJournal(None)
      /\ UNCHANGED <<faults, store, anchor, backups, Holder>>
  BY DEF RemoveJournal, Advance
<1>2. anchor = StateOf(store)
  BY <1>1 DEF IInv, WriteInv, RecoverInv, CommitSteps
<1>3. /\ DiskType' /\ journal' = None /\ Power' = Power
      /\ unsynced'.store = unsynced.store /\ unsynced'.anchor = unsynced.anchor
      /\ Journals' \subseteq Journals \cup {None}
      /\ Stores' = Stores /\ Anchors' = Anchors /\ Backups' = Backups
  BY <1>1, ReplaceJournalIs DEF IInv
<1>4. Stores = {store} /\ Anchors = {anchor}
  BY <1>1, Settled DEF IInv
<1>5. /\ TypeOK' /\ CheckedInv' /\ Writes' = Writes
      /\ UNCHANGED <<lock, txn, view, checked, legit, faults>>
  BY <1>1, <1>3, HolderKept DEF IInv, Steps, CommitSteps
<1>6. DiskInv' /\ JournalInv'
  BY <1>2, <1>3, <1>4 DEF IInv, DiskInv, JournalInv, Agree
<1>7. KeyInv'
  BY <1>1, <1>3, <1>4 DEF IInv, KeyInv
<1>8. SyncInv'
  BY <1>1, <1>3 DEF IInv, SyncInv
<1>9. WriteInv' /\ RecoverInv'
  BY <1>1, <1>3, <1>5 DEF IInv, WriteInv, RecoverInv, WriteSteps, CommitSteps
<1>10. LegitInv'
  BY <1>1, <1>3, <1>5 DEF IInv, LegitInv, CommitSteps
<1> QED
  BY <1>5, <1>6, <1>7, <1>8, <1>9, <1>10 DEF IInv

LEMMA SyncRemovalKeeps == ASSUME IInv, SyncRemoval PROVE IInv'
<1>1. /\ step = "unlinkSync" /\ step' = "finish" /\ SyncAnchorDirectory
      /\ UNCHANGED <<faults, store, anchor, journal, backups, Holder>>
  BY DEF SyncRemoval, Advance
<1>2. /\ DiskType' /\ Power' = Power
      /\ unsynced'.store = unsynced.store /\ unsynced'.anchor = {} /\ unsynced'.journal = {}
      /\ Journals' \subseteq Journals /\ Stores' = Stores /\ Anchors' \subseteq Anchors
      /\ Backups' = Backups
  BY <1>1, SyncAnchorIs DEF IInv
<1>3. /\ TypeOK' /\ CheckedInv' /\ Writes' = Writes
      /\ UNCHANGED <<lock, txn, view, checked, legit, faults>>
  BY <1>1, <1>2, HolderKept DEF IInv, Steps, CommitSteps
<1>4. DiskInv' /\ JournalInv' /\ KeyInv'
  BY <1>1, <1>2, FewerOutcomes DEF IInv
<1>5. SyncInv'
  BY <1>1, <1>2 DEF IInv, SyncInv
<1>6. WriteInv' /\ RecoverInv'
  BY <1>1, <1>3 DEF IInv, WriteInv, RecoverInv, WriteSteps, CommitSteps
<1>7. LegitInv'
  BY <1>1, <1>2, <1>3 DEF IInv, LegitInv, CommitSteps
<1> QED
  BY <1>3, <1>4, <1>5, <1>6, <1>7 DEF IInv

\* The end of a write, of an opening and of a recovery.
LEMMA Finishes ==
    ASSUME IInv, step = "finish", NEW set \in SUBSET backups, SetBackups(set),
           txn' = NoTxn, legit' = {store}, anchor = StateOf(store), journal = None,
           store # NoDoc,
           \/ step' = "open" /\ lock' = lock /\ view' = store
           \/ step' = "down" /\ lock' = None /\ view' = NoDoc,
           UNCHANGED <<faults, store, anchor, journal, checked>>
    PROVE  IInv'
<1>1. set \in SUBSET Backup /\ set \subseteq Backups
  BY StoreIs DEF IInv, TypeOK
<1>2. /\ DiskType' /\ Power' = Power
      /\ unsynced'.store = unsynced.store /\ unsynced'.anchor = unsynced.anchor
      /\ unsynced'.journal = unsynced.journal
      /\ Stores' = Stores /\ Anchors' = Anchors /\ Journals' = Journals
      /\ Backups' \subseteq Backups \cup set
  BY <1>1, SetBackupsIs DEF IInv
<1>3. Stores = {store}
  BY Settled DEF IInv
<1>4. txn' \in Txn /\ txn'.doc = NoDoc /\ ~Writes' /\ txn'.kind = "open"
  BY NoTxnIs DEF Writes
<1>5. store' \in Document \cup {NoDoc} /\ view' \in Document \cup {NoDoc}
      /\ legit' \subseteq Document \cup {NoDoc}
  BY DEF IInv, TypeOK
<1>6. TypeOK'
  BY <1>2, <1>4, <1>5 DEF IInv, TypeOK, DiskType, Steps
<1>7. DiskInv' /\ JournalInv' /\ KeyInv'
  BY <1>1, <1>2, FewerOutcomes DEF IInv
<1>8. SyncInv'
  BY <1>2 DEF IInv, SyncInv
<1>9. WriteInv' /\ RecoverInv'
  <2>1. step' = "open" => anchor' = StateOf(view')
    OBVIOUS
  <2> QED
    BY <1>4, <2>1 DEF WriteInv, RecoverInv, WriteSteps
<1>10. LegitInv' /\ CheckedInv'
  BY <1>2, <1>3, <1>4 DEF IInv, LegitInv, CheckedInv
<1> QED
  BY <1>6, <1>7, <1>8, <1>9, <1>10 DEF IInv

LEMMA RetainedFewer == Retained \in SUBSET backups
  BY DEF Retained

LEMMA FinishWriteKeeps == ASSUME IInv, FinishWrite PROVE IInv'
<1>1. /\ step = "finish" /\ step' = "open" /\ Writes /\ view' = txn.doc /\ legit' = {txn.doc}
      /\ txn' = NoTxn /\ UNCHANGED <<faults, store, anchor, journal, lock, checked>>
  BY DEF FinishWrite, Advance, Writes
<1>2. PICK set \in SUBSET backups : SetBackups(set)
  BY RetainedFewer DEF FinishWrite
<1>3. store = txn.doc /\ anchor = StateOf(store) /\ journal = None /\ store # NoDoc
  BY <1>1, Documents DEF IInv, WriteInv
<1> QED
  BY <1>1, <1>2, <1>3, Finishes

LEMMA FinishOpenKeeps == ASSUME IInv, FinishOpen PROVE IInv'
<1>1. /\ step = "finish" /\ step' = "open" /\ ~Writes /\ view' = store /\ legit' = {store}
      /\ txn' = NoTxn /\ UNCHANGED <<faults, store, anchor, journal, lock, checked>>
      /\ store # NoDoc /\ anchor = StateOf(store)
  BY DEF FinishOpen, Advance, Writes, PairReads
<1>2. PICK set \in SUBSET backups : SetBackups(set)
  BY RetainedFewer DEF FinishOpen
<1>3. journal = None
  BY <1>1 DEF IInv, RecoverInv
<1> QED
  BY <1>1, <1>2, <1>3, Finishes

LEMMA FinishRecoveryKeeps == ASSUME IInv, FinishRecovery PROVE IInv'
<1>1. /\ step = "finish" /\ step' = "down" /\ ~Writes /\ view' = view /\ legit' = {store}
      /\ lock' = None
      /\ txn' = NoTxn /\ UNCHANGED <<faults, store, anchor, journal, checked>>
      /\ store # NoDoc /\ anchor = StateOf(store)
  BY DEF FinishRecovery, Advance, Writes, PairReads
<1>2. PICK set \in SUBSET backups : SetBackups(set)
  BY RetainedFewer DEF FinishRecovery
<1>3. journal = None /\ view = NoDoc
  BY <1>1 DEF IInv, RecoverInv
<1> QED
  BY <1>1, <1>2, <1>3, Finishes

LEMMA PowerLossKeeps == ASSUME IInv, PowerLoss PROVE IInv'
<1>1. /\ Power /\ unsynced' = AllSynced /\ lock' = None /\ step' = "down" /\ view' = NoDoc
      /\ txn' = NoTxn /\ checked' = {} /\ faults' = faults
  BY DEF PowerLoss, Power
<1>2. store' \in Stores /\ anchor' \in Anchors /\ journal' \in Journals /\ backups' \subseteq Backups
  BY <1>1 DEF PowerLoss, Stores, Anchors, Journals, Backups
<1>3. /\ unsynced'.store = {} /\ unsynced'.anchor = {} /\ unsynced'.journal = {}
      /\ unsynced'.backups = {}
      /\ unsynced' \in [store : SUBSET (Document \cup {NoDoc}), anchor : SUBSET (State \cup {NoState}),
                        journal : SUBSET (Journal \cup {None}), backups : SUBSET Backup]
  BY <1>1 DEF AllSynced
<1>4. Stores' = {store'} /\ Anchors' = {anchor'} /\ Journals' = {journal'} /\ Backups' = backups'
  BY <1>3 DEF Stores, Anchors, Journals, Backups
<1>5. DiskInv' /\ JournalInv' /\ KeyInv'
  BY <1>1, <1>2, <1>4, FewerOutcomes DEF IInv
<1>6. Stores \subseteq legit' /\ legit' \subseteq Document \cup {NoDoc}
  <2> DEFINE attempted == step \in CommitSteps \cup {"finish"}
  <2>1. attempted \in BOOLEAN /\ (step \in CommitSteps \cup {"finish"} => attempted)
        /\ legit' = Doubt(attempted)
    BY DEF PowerLoss
  <2> HIDE DEF attempted
  <2> QED
    BY <2>1, DoubtCovers
<1>7. txn' \in Txn /\ txn'.doc = NoDoc /\ ~Writes' /\ txn'.kind = "open"
  BY <1>1, NoTxnIs DEF Writes
<1>8. /\ store' \in Document \cup {NoDoc} /\ anchor' \in State \cup {NoState}
      /\ journal' \in Journal \cup {None} /\ backups' \subseteq Backup
  <2>1. /\ unsynced.store \subseteq Document \cup {NoDoc} /\ unsynced.anchor \subseteq State \cup {NoState}
        /\ unsynced.journal \subseteq Journal \cup {None} /\ unsynced.backups \subseteq Backup
    BY DEF IInv, TypeOK
  <2> QED
    BY <1>2, <2>1 DEF IInv, TypeOK, Stores, Anchors, Journals, Backups
<1>9. TypeOK'
  BY <1>1, <1>3, <1>6, <1>7, <1>8 DEF IInv, TypeOK, Steps
<1>10. SyncInv' /\ WriteInv' /\ RecoverInv' /\ CheckedInv'
  BY <1>1, <1>3, <1>7 DEF SyncInv, WriteInv, RecoverInv, CheckedInv, WriteSteps
<1>11. LegitInv'
  BY <1>2, <1>4, <1>6, <1>7 DEF LegitInv
<1> QED
  BY <1>5, <1>9, <1>10, <1>11 DEF IInv

LEMMA StutterKeeps == ASSUME IInv, UNCHANGED vars PROVE IInv'
<1>1. UNCHANGED <<store, anchor, journal, backups, unsynced, lock, step, txn, view, checked, legit, faults>>
  BY DEF vars
<1>2. DiskInv' /\ JournalInv' /\ Power' = Power /\ Stores' = Stores /\ Journals' = Journals
      /\ Backups' = Backups
  BY <1>1, SameDisk DEF IInv, disk
<1>3. TypeOK'
  BY <1>1 DEF IInv, TypeOK
<1>4. KeyInv'
  BY <1>1, <1>2, SameKeys DEF IInv, KeyInv
<1>5. SyncInv' /\ WriteInv' /\ RecoverInv' /\ LegitInv' /\ CheckedInv'
  BY <1>1, <1>2 DEF IInv, SyncInv, WriteInv, RecoverInv, LegitInv, CheckedInv, Writes, JournalOf
<1> QED
  BY <1>2, <1>3, <1>4, <1>5 DEF IInv

LEMMA StepInvariant == ASSUME IInv, OneInitializer, PowerAlone, [Next]_vars PROVE IInv'
<1>1. CASE Initialization
  BY <1>1, InitializeCheckKeeps, InitializeLockKeeps DEF Initialization
<1>2. CASE Opening
  BY <1>2, OpenKeeps, InspectKeeps, RecoverRotationKeeps DEF Opening
<1>3. CASE Operation
  BY <1>3, OperationKeeps, CloseKeeps DEF Operation
<1>4. CASE Protocol
  BY <1>4, WriteJournalKeeps, SyncJournalKeeps, WriteBackupKeeps, WriteStoreKeeps, SyncStoreKeeps,
     WriteAnchorKeeps, SyncAnchorKeeps, PurgeBackupKeeps, SyncPurgeKeeps, RemoveJournalKeeps,
     SyncRemovalKeeps, FinishWriteKeeps, FinishOpenKeeps, FinishRecoveryKeeps, RefuseOpenKeeps
     DEF Protocol
<1>5. CASE Failure
  BY <1>5, IOFailureKeeps, KillKeeps, PowerLossKeeps DEF Failure
<1>6. CASE UNCHANGED vars
  BY <1>6, StutterKeeps
<1> QED
  BY <1>1, <1>2, <1>3, <1>4, <1>5, <1>6 DEF Next

-----------------------------------------------------------------------------
(* What the invariant gives *)

LEMMA IInvRecovers == IInv => Recoverable
<1> SUFFICES ASSUME IInv, lock = None
             PROVE  \/ store = NoDoc /\ anchor = NoState
                    \/ \E k \in Keys : CanOpen(k)
                    \/ journal # None /\ \E ko, kn \in Keys :
                           ko # kn /\ PlanWithBothKeys(ko, kn) # {}
  BY DEF Recoverable
<1>1. /\ store \in Document \cup {NoDoc} /\ Agree(store, anchor, journal)
      /\ journal # None => /\ journal.new \in State /\ journal.oldKey \in Keys /\ journal.newKey \in Keys
                           /\ IsRotation(journal) => journal.old # NoState
  <2>1. journal # None => journal \in Journal /\ journal.new \in State
    BY StoreIs DEF IInv
  <2>2. \A j \in Journal : j.oldKey \in Keys /\ j.newKey \in Keys
    BY DEF Journal
  <2> QED
    BY <2>1, <2>2, StoreIs DEF IInv, TypeOK, DiskInv, JournalInv
<1>2. CASE store = NoDoc
  BY <1>1, <1>2, Documents DEF Agree, IsOld, IsNew
<1>3. CASE store \in Document /\ journal = None
  <2>1. anchor = StateOf(store) /\ anchor # NoState /\ store # NoDoc /\ store.key \in Keys
    BY <1>1, <1>3, Documents DEF Agree
  <2>2. CanOpen(store.key)
    BY <1>3, <2>1 DEF CanOpen, PairReads
  <2> QED
    BY <2>1, <2>2
<1>4. CASE store \in Document /\ journal # None /\ ~IsRotation(journal)
  <2>1. journal.oldKey = journal.newKey /\ store # NoDoc
    BY <1>4, Documents DEF IsRotation
  <2>2. CASE anchor = StateOf(store) /\ store.key = journal.newKey /\ anchor \in {journal.old, journal.new}
    <3>1. Plan(FALSE, FALSE) \in PlanSameKey(journal, journal.newKey)
      BY <2>2, PlanFields DEF PlanSameKey
    <3> QED
      BY <1>1, <1>4, <3>1 DEF CanOpen, PlanRecovery
  <2>3. CASE IsNew(store, journal) /\ anchor = journal.old
    <3>1. Plan(TRUE, FALSE) \in PlanSameKey(journal, journal.newKey)
      BY <2>3, PlanFields DEF PlanSameKey, IsNew
    <3> QED
      BY <1>1, <1>4, <3>1 DEF CanOpen, PlanRecovery
  <2> QED
    BY <1>1, <1>4, <2>1, <2>2, <2>3 DEF Agree, IsOld, IsNew
<1>5. CASE store \in Document /\ journal # None /\ IsRotation(journal)
  <2>1. journal.old # NoState /\ store # NoDoc /\ journal.oldKey # journal.newKey
    BY <1>1, <1>5, Documents DEF IsRotation
  <2>2. CASE IsOld(store, journal) /\ anchor = journal.old
    <3>1. Plan(FALSE, FALSE) \in PlanRotation(journal, journal.oldKey)
      BY <2>1, <2>2, PlanFields DEF PlanRotation, IsOld
    <3> QED
      BY <1>1, <1>5, <3>1 DEF CanOpen, PlanRecovery
  <2>3. CASE IsNew(store, journal) /\ anchor = journal.new
    <3>1. Plan(FALSE, TRUE) \in PlanRotation(journal, journal.newKey)
      BY <2>1, <2>3, PlanFields DEF PlanRotation, IsNew
    <3> QED
      BY <1>1, <1>5, <3>1 DEF CanOpen, PlanRecovery
  <2>4. CASE IsNew(store, journal) /\ anchor = journal.old
    <3>1. Plan(TRUE, TRUE) \in PlanWithBothKeys(journal.oldKey, journal.newKey)
      BY <2>1, <2>4, PlanFields DEF PlanWithBothKeys, IsNew
    <3> QED
      BY <1>1, <1>5, <2>1, <3>1
  <2> QED
    BY <1>1, <1>5, <2>2, <2>3, <2>4 DEF Agree
<1> QED
  BY <1>1, <1>2, <1>3, <1>4, <1>5

LEMMA IInvKeys == IInv => KeysAreCurrent
<1> SUFFICES ASSUME IInv
             PROVE  OpenObjectIsCurrent /\ OldKeyOpensNothing
  BY DEF KeysAreCurrent
<1>1. OpenObjectIsCurrent
  BY DEF IInv, WriteInv, RecoverInv, WriteSteps, CommitSteps, OpenObjectIsCurrent
<1>2. OldKeyOpensNothing
  BY StoreIs DEF IInv, KeyInv, OldKeyOpensNothing
<1> QED
  BY <1>1, <1>2

\* An interrupted write may or may not have happened; anything else is forgotten.
LEMMA DoubtStep ==
    ASSUME IInv, NEW attempted \in BOOLEAN,
           attempted => step \in CommitSteps \cup {"finish", "store"},
           legit' = Doubt(attempted), view' = NoDoc
    PROVE  Abstract!Next
<1>1. CASE attempted /\ txn.doc # NoDoc
  <2>1. Writes /\ legit' = legit \cup {txn.doc}
    BY <1>1 DEF IInv, RecoverInv, Doubt
  <2>2. txn.doc \in Document /\ txn.doc.rev = view.rev + 1
    BY <2>1 DEF IInv, WriteInv
  <2>3. view \in legit
    <3>1. CASE step \in CommitSteps \cup {"finish"}
      BY <2>1, <3>1 DEF IInv, LegitInv
    <3>2. CASE step = "store"
      <4>1. store = view /\ store \in Stores
        BY <2>1, <3>2, StoreIs DEF IInv, WriteInv, WriteSteps
      <4> QED
        BY <3>2, <4>1 DEF IInv, LegitInv, CommitSteps
    <3> QED
      BY <1>1, <3>1, <3>2
  <2> QED
    BY <2>1, <2>2, <2>3 DEF Abstract!Next, Abstract!Interrupted, Abstract!Follows
<1>2. CASE ~(attempted /\ txn.doc # NoDoc)
  BY <1>2 DEF Doubt, Abstract!Next, Abstract!Forget
<1> QED
  BY <1>1, <1>2

\* Whoever reads the store learns which document is in force.
LEMMA LearnStep ==
    ASSUME IInv, step \in {"down", "finish"}, ~Writes, store # NoDoc, legit' = {store},
           view' \in {view, store}
    PROVE  Abstract!Next
<1>1. store \in legit
  BY StoreIs DEF IInv, LegitInv
<1> QED
  BY <1>1 DEF Abstract!Next, Abstract!Learn

LEMMA FailureStep == ASSUME IInv, Failure PROVE [Abstract!Next]_(Abstract!vars)
<1>1. CASE IOFailure
  <2>1. PICK attempted \in BOOLEAN : /\ step # "store" => attempted = (step \in CommitSteps)
                                    /\ legit' = Doubt(attempted)
    BY <1>1 DEF IOFailure
  <2>2. view' = NoDoc
    BY <1>1 DEF IOFailure
  <2>3. attempted => step \in CommitSteps \cup {"finish", "store"}
    BY <2>1
  <2> QED
    BY <2>1, <2>2, <2>3, DoubtStep
<1>2. ASSUME view' = NoDoc, legit' = Doubt(step \in CommitSteps \cup {"finish"})
      PROVE  Abstract!Next
  <2> DEFINE attempted == step \in CommitSteps \cup {"finish"}
  <2>1. attempted \in BOOLEAN /\ (attempted => step \in CommitSteps \cup {"finish", "store"})
        /\ legit' = Doubt(attempted)
    BY <1>2
  <2> HIDE DEF attempted
  <2> QED
    BY <1>2, <2>1, DoubtStep
<1>3. ASSUME NEW p \in Procs, Kill(p)
      PROVE  [Abstract!Next]_(Abstract!vars)
  BY <1>2, <1>3 DEF Kill, Abstract!vars
<1>4. CASE PowerLoss
  BY <1>2, <1>4 DEF PowerLoss
<1> QED
  BY <1>1, <1>3, <1>4 DEF Failure

LEMMA AbstractStep == ASSUME IInv, [Next]_vars PROVE [Abstract!Next]_(Abstract!vars)
<1>1. CASE UNCHANGED <<legit, view>>
  BY <1>1 DEF Abstract!vars
<1>2. ASSUME NEW ko \in Keys, NEW kn \in Keys, Inspect(ko, kn)
      PROVE  Abstract!Next
  <2>1. lock = None /\ legit' = {store} /\ view' = view /\ store # NoDoc
    BY <1>2 DEF Inspect, PairReads, PlanWithBothKeys
  <2>2. step = "down" /\ ~Writes
    BY <2>1 DEF IInv, TypeOK, WriteInv, WriteSteps, CommitSteps
  <2> QED
    BY <2>1, <2>2, LearnStep
<1>3. CASE Close
  BY <1>3 DEF Close, Abstract!Next, Abstract!Forget
<1>4. CASE FinishWrite
  <2>1. Writes /\ step = "finish" /\ legit' = {txn.doc} /\ view' = txn.doc
    BY <1>4 DEF FinishWrite, Advance, Writes
  <2>2. txn.doc \in Document /\ txn.doc.rev = view.rev + 1 /\ view \in legit
    BY <2>1 DEF IInv, WriteInv, LegitInv
  <2> QED
    BY <2>1, <2>2 DEF Abstract!Next, Abstract!Write, Abstract!Follows
<1>5. CASE FinishOpen
  <2>1. step = "finish" /\ ~Writes /\ store # NoDoc /\ legit' = {store} /\ view' = store
    BY <1>5 DEF FinishOpen, Advance, Writes, PairReads
  <2> QED
    BY <2>1, LearnStep
<1>6. CASE FinishRecovery
  <2>1. step = "finish" /\ ~Writes /\ store # NoDoc /\ legit' = {store} /\ view' = view
    BY <1>6 DEF FinishRecovery, Advance, Writes, PairReads
  <2> QED
    BY <2>1, LearnStep
<1>7. CASE Failure
  BY <1>7, FailureStep
<1>8. CASE Initialization
  BY <1>1, <1>8 DEF Initialization, InitializeCheck, InitializeLock
<1>9. CASE Opening
  BY <1>1, <1>2, <1>9 DEF Opening, Open, RecoverRotation
<1>10. CASE Operation
  BY <1>1, <1>3, <1>10 DEF Operation, Mutate, RotateMasterKey
<1>11. CASE Protocol
  BY <1>1, <1>4, <1>5, <1>6, <1>11 DEF Protocol, Holder, WriteJournal, SyncJournal, WriteBackup,
     WriteStore, SyncStore, WriteAnchor, SyncAnchor, PurgeBackup, SyncPurge, RemoveJournal,
     SyncRemoval, RefuseOpen
<1> QED
  BY <1>1, <1>7, <1>8, <1>9, <1>10, <1>11 DEF Next, vars

-----------------------------------------------------------------------------
(***************************************************************************)
(* The catalogue is never locked out: whatever system call failed, whoever *)
(* died and whenever the power went, as soon as nobody holds it the next   *)
(* opening has a plan, with one key or with the two of an interrupted      *)
(* rotation (_plan_recovery, _plan_rotation_with_single_key,               *)
(* _determine_rotation).                                                   *)
(***************************************************************************)
THEOREM CatalogRecovers ==
    ASSUME OneInitializer, PowerAlone
    PROVE  Spec => []Recoverable
<1>1. Init => IInv
  BY InitInvariant
<1>2. IInv /\ [Next]_vars => IInv'
  BY StepInvariant
<1>3. IInv => Recoverable
  BY IInvRecovers
<1> QED
  BY <1>1, <1>2, <1>3, PTL DEF Spec

(***************************************************************************)
(* An open catalogue object agrees with the files, and once a rotation has *)
(* ended the key it replaced opens neither the store nor a backup          *)
(* (_purge_rotated_backups before the removal of the journal).             *)
(***************************************************************************)
THEOREM CatalogKeysCurrent ==
    ASSUME OneInitializer, PowerAlone
    PROVE  Spec => []KeysAreCurrent
<1>1. Init => IInv
  BY InitInvariant
<1>2. IInv /\ [Next]_vars => IInv'
  BY StepInvariant
<1>3. IInv => KeysAreCurrent
  BY IInvKeys
<1> QED
  BY <1>1, <1>2, <1>3, PTL DEF Spec

(***************************************************************************)
(* The protocol over three files implements one atomic register            *)
(* (AtomicCatalog): no acknowledged write is lost, and an interrupted one  *)
(* happened or did not, as the next reader finds (_commit, open,           *)
(* recover_master_key_rotation).                                           *)
(***************************************************************************)
THEOREM CatalogIsAtomic ==
    ASSUME OneInitializer, PowerAlone
    PROVE  Spec => BehavesAtomically
<1>1. Init => IInv
  BY InitInvariant
<1>2. IInv /\ [Next]_vars => IInv'
  BY StepInvariant
<1>3. Init => Abstract!Init
  BY DEF Init, Abstract!Init
<1>4. IInv /\ [Next]_vars => [Abstract!Next]_(Abstract!vars)
  BY AbstractStep
<1> QED
  BY <1>1, <1>2, <1>3, <1>4, PTL DEF Spec, BehavesAtomically, Abstract!Spec
=============================================================================
