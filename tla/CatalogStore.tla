---------------------------- MODULE CatalogStore ----------------------------
(***************************************************************************)
(* The encrypted datasource catalogue on disk: maskgw/datasource/store.py. *)
(*                                                                         *)
(* Three files carry it.  The store holds a document (a revision, the      *)
(* digest of its payload, the master key that authenticates it).  The      *)
(* anchor, in another directory, names the revision and digest the store   *)
(* must have.  The journal, beside the anchor, names the two states of the *)
(* transaction in progress and is authenticated once per role, so that a   *)
(* change of master key has two different tags.  Every write goes          *)
(* journal, backup of the old store, store, anchor, purge of the backups   *)
(* (only when the master key changes), removal of the journal.             *)
(*                                                                         *)
(* What a document contains is abstracted to its digest, so create,        *)
(* update, rotate_secret and remove are one action here.  Temporary files  *)
(* are left out: nothing reads them and every opening removes them.        *)
(*                                                                         *)
(* A rename or an unlink is visible at once and survives a loss of power   *)
(* only after the fsync of its directory: `unsynced' holds, for each name, *)
(* what may come back.  An environment has a regime of failures:           *)
(*   "io"     any system call of the protocol raises OSError;              *)
(*   "kill"   the process dies, the machine stays up;                      *)
(*   "power"  the machine goes down, and unsynced names may roll back.     *)
(***************************************************************************)
EXTENDS Naturals, FiniteSets, TLC

CONSTANTS
    Procs,         \* processes that may hold the catalogue
    Initializers,  \* those among them that run initialize
    Keys,          \* master keys
    Digests,       \* payload digests
    EmptyDigest,   \* the one of the empty catalogue at revision 1
    Regimes,       \* which failures the environment has, together, in a behaviour
    BackupsKept,   \* retention of _cleanup_managed (three in the code)
    MaxRevision,   \* bound on the revisions explored
    None           \* absence

VARIABLES
    store, anchor, journal,  \* the three files, as visible to a reader
    backups,                 \* datasources.store.bak.<rev>, with their key
    unsynced,                \* what a loss of power may bring back
    lock,                    \* holder of the two sidecar locks
    step,                    \* where the holder is
    txn,                     \* the transaction or recovery it executes
    view,                    \* the document its catalogue object holds
    checked,                 \* processes past the existence check of initialize
    legit,                   \* history: what a caller may still find
    faults                   \* the regime of this behaviour

disk == <<store, anchor, journal, backups, unsynced>>
vars == <<store, anchor, journal, backups, unsynced,
          lock, step, txn, view, checked, legit, faults>>

-----------------------------------------------------------------------------
NoDoc == [rev |-> 0, digest |-> None, key |-> None]
Document == [rev : 1 .. MaxRevision, digest : Digests, key : Keys]
NoState == [rev |-> 0, digest |-> None]
State == [rev : 1 .. MaxRevision, digest : Digests]
Journal == [old : State \cup {NoState}, new : State, oldKey : Keys, newKey : Keys]
Backup == [rev : 1 .. MaxRevision, key : Keys]

ASSUME RevisionAssumption == MaxRevision \in Nat \ {0}
ASSUME DigestAssumption == EmptyDigest \in Digests
ASSUME ProcsAssumption == Initializers \subseteq Procs
ASSUME NoneAssumption == None \notin Procs /\ None \notin Journal

StateOf(doc) == [rev |-> doc.rev, digest |-> doc.digest]

AllSynced == [store |-> {}, anchor |-> {}, journal |-> {}, backups |-> {}]

WriteSteps == {"journal", "journalSync", "backup", "store"}
CommitSteps == {"storeSync", "anchor", "anchorSync", "purge", "unlink", "unlinkSync"}
Steps == WriteSteps \cup CommitSteps \cup {"down", "finish", "open", "poisoned"}

Kinds == {"initialize", "commit", "open", "recover"}
(* What the holder executes: the document a write installs (NoDoc in a     *)
(* recovery), the state the anchor is advanced to, the key that must       *)
(* authenticate the result, and whether the backups are purged.            *)
Txn == [kind : Kinds, doc : Document \cup {NoDoc}, target : State \cup {NoState},
        key : Keys \cup {None}, purge : BOOLEAN]
NoTxn == [kind |-> "open", doc |-> NoDoc, target |-> NoState, key |-> None,
          purge |-> FALSE]
Writing(kind, doc, purge) ==
    [kind |-> kind, doc |-> doc, target |-> StateOf(doc), key |-> doc.key,
     purge |-> purge]
Recovering(kind, k, purge) ==
    [kind |-> kind, doc |-> NoDoc, key |-> k, purge |-> purge,
     target |-> IF journal = None THEN NoState ELSE journal.new]

Abstract == INSTANCE AtomicCatalog

TypeOK ==
    /\ store \in Document \cup {NoDoc}
    /\ anchor \in State \cup {NoState}
    /\ journal \in Journal \cup {None}
    /\ backups \subseteq Backup
    /\ unsynced \in [store : SUBSET (Document \cup {NoDoc}),
                     anchor : SUBSET (State \cup {NoState}),
                     journal : SUBSET (Journal \cup {None}),
                     backups : SUBSET Backup]
    /\ lock \in Procs \cup {None}
    /\ step \in Steps
    /\ (lock = None) <=> (step = "down")
    /\ txn \in Txn
    /\ view \in Document \cup {NoDoc}
    /\ checked \subseteq Initializers
    /\ legit \subseteq Document \cup {NoDoc}
    /\ faults \in Regimes

Init ==
    /\ store = NoDoc
    /\ anchor = NoState
    /\ journal = None
    /\ backups = {}
    /\ unsynced = AllSynced
    /\ lock = None
    /\ step = "down"
    /\ txn = NoTxn
    /\ view = NoDoc
    /\ checked = {}
    /\ legit = {NoDoc}
    /\ faults \in Regimes

-----------------------------------------------------------------------------
(* The files.  _atomic_write makes the new content visible with os.replace *)
(* and durable with the fsync of the parent directory.                     *)

ReplaceStore(doc) ==
    /\ store' = doc
    /\ unsynced' = [unsynced EXCEPT !.store = @ \cup {store}]

ReplaceAnchor(state) ==
    /\ anchor' = state
    /\ unsynced' = [unsynced EXCEPT !.anchor = @ \cup {anchor}]

ReplaceJournal(j) ==
    /\ journal' = j
    /\ unsynced' = [unsynced EXCEPT !.journal = @ \cup {journal}]

SyncStoreDirectory == unsynced' = [unsynced EXCEPT !.store = {}, !.backups = {}]
SyncAnchorDirectory == unsynced' = [unsynced EXCEPT !.anchor = {}, !.journal = {}]

(* Creating and unlinking a backup both leave its name unsynced. *)
SetBackups(set) ==
    /\ backups' = set
    /\ unsynced' = [unsynced EXCEPT !.backups =
                        @ \cup (set \ backups) \cup (backups \ set)]

(* _cleanup_managed keeps the most recent backups. *)
Retained ==
    {b \in backups : Cardinality({c \in backups : c.rev > b.rev}) < BackupsKept}

-----------------------------------------------------------------------------
(* Recovery is decided before anything is written.  A plan is the set of   *)
(* steps left to do; no plan means that the opening is refused.            *)

Plan(advance, purge) == [advance |-> advance, purge |-> purge]

\* Faulty variant of FirstStep: recovery does not purge the backups.
FirstStepWithoutPurge(plan) == IF plan.advance THEN "anchor" ELSE "unlink"

FirstStep(plan) ==
    IF plan.advance THEN "anchor" ELSE IF plan.purge THEN "purge" ELSE "unlink"

IsRotation(j) == j.oldKey # j.newKey

\* Faulty variant of PlanSameKey: a new store under an old anchor is refused.
PlanSameKeyStrict(j, k) ==
    {plan \in {Plan(FALSE, FALSE)} :
        /\ k = j.newKey
        /\ store = NoDoc \/ store.key = k
        /\ <<StateOf(store), anchor>> \in {<<j.old, j.old>>, <<j.new, j.new>>}}

(* _plan_recovery for a transaction under one key.  The store is absent or *)
(* authenticated by the key; old is the absence of both files when the     *)
(* journal belongs to an initialisation.                                   *)
PlanSameKey(j, k) ==
    {plan \in {Plan(FALSE, FALSE), Plan(TRUE, FALSE)} :
        /\ k = j.newKey
        /\ store = NoDoc \/ store.key = k
        /\ <<StateOf(store), anchor>> \in
               IF plan.advance THEN {<<j.new, j.old>>}
                               ELSE {<<j.old, j.old>>, <<j.new, j.new>>}}

(* _plan_rotation_with_single_key: one key concludes a rotation only when  *)
(* its result is no longer in doubt.                                       *)
PlanRotation(j, k) ==
    {plan \in {Plan(FALSE, FALSE), Plan(FALSE, TRUE)} :
        /\ store # NoDoc /\ store.key = k
        /\ j.old # NoState
        /\ IF plan.purge THEN k = j.newKey /\ StateOf(store) = j.new /\ anchor = j.new
                         ELSE k = j.oldKey /\ StateOf(store) = j.old /\ anchor = j.old}

PlanRecovery(k) ==
    IF IsRotation(journal) THEN PlanRotation(journal, k) ELSE PlanSameKey(journal, k)

(* _determine_rotation with both keys and a journal: the store decides     *)
(* which role is confirmed, an old store under a new anchor is refused.    *)
PlanWithBothKeys(ko, kn) ==
    {plan \in {Plan(FALSE, FALSE), Plan(TRUE, TRUE), Plan(FALSE, TRUE)} :
        /\ store # NoDoc /\ anchor # NoState
        /\ journal.oldKey = ko /\ journal.newKey = kn
        /\ journal.old # NoState
        /\ IF plan.purge
           THEN /\ store.key = kn /\ StateOf(store) = journal.new
                /\ anchor = IF plan.advance THEN journal.old ELSE journal.new
           ELSE store.key = ko /\ StateOf(store) = journal.old /\ anchor = journal.old}

(* _read_pair: the key authenticates the store and the anchor names it. *)
PairReads(k) ==
    /\ store # NoDoc /\ anchor # NoState
    /\ store.key = k
    /\ StateOf(store) = anchor

-----------------------------------------------------------------------------
(* initialize looks for the two files before it takes the locks. *)
InitializeCheck(p) ==
    /\ p \in Initializers \ checked
    /\ lock # p
    /\ store = NoDoc /\ anchor = NoState
    /\ checked' = checked \cup {p}
    /\ UNCHANGED <<faults, disk, lock, step, txn, view, legit>>

InitializeLock(p) ==
    /\ p \in checked
    /\ checked' = checked \ {p}
    /\ IF lock # None
       THEN UNCHANGED <<lock, step, txn>>
       ELSE /\ lock' = p
            /\ step' = "journal"
            /\ \E k \in Keys :
                   txn' = Writing("initialize",
                              [rev |-> 1, digest |-> EmptyDigest, key |-> k], FALSE)
    /\ UNCHANGED <<faults, disk, view, legit>>

(* open, with the key of the environment: without a journal the pair is    *)
(* read; with one the plan is executed first; without a plan it raises.    *)
Open(p, k) ==
    /\ lock = None /\ p \notin checked
    /\ lock' = p
    /\ \/ /\ journal = None
          /\ step' = "finish"
          /\ txn' = Recovering("open", k, FALSE)
       \/ /\ journal # None
          /\ \E plan \in PlanRecovery(k) :
                 /\ step' = FirstStep(plan)
                 /\ txn' = Recovering("open", k, plan.purge)
    /\ UNCHANGED <<faults, disk, view, checked, legit>>

(* inspect_master_key_rotation writes nothing and tells which key is       *)
(* confirmed; so does recover_master_key_rotation without a journal.       *)
Inspect(ko, kn) ==
    /\ lock = None
    /\ ko # kn
    /\ \/ journal = None /\ (PairReads(ko) \/ PairReads(kn))
       \/ journal # None /\ PlanWithBothKeys(ko, kn) # {}
    /\ legit' = {store}
    /\ UNCHANGED <<faults, disk, lock, step, txn, view, checked>>

RecoverRotation(p, ko, kn) ==
    /\ lock = None /\ p \notin checked
    /\ ko # kn
    /\ journal # None
    /\ \E plan \in PlanWithBothKeys(ko, kn) :
           /\ step' = FirstStep(plan)
           /\ txn' = Recovering("recover", store.key, plan.purge)
    /\ lock' = p
    /\ UNCHANGED <<faults, disk, view, checked, legit>>

(* create, update, rotate_secret and remove: _commit under the same key. *)
Mutate(d) ==
    /\ step = "open"
    /\ view.rev < MaxRevision
    /\ step' = "journal"
    /\ txn' = Writing("commit", [rev |-> view.rev + 1, digest |-> d, key |-> view.key], FALSE)
    /\ UNCHANGED <<faults, disk, lock, view, checked, legit>>

(* rotate_master_key: the backups are purged when the key really changes. *)
RotateMasterKey(d, k) ==
    /\ step = "open"
    /\ view.rev < MaxRevision
    /\ step' = "journal"
    /\ txn' = Writing("commit", [rev |-> view.rev + 1, digest |-> d, key |-> k], k # view.key)
    /\ UNCHANGED <<faults, disk, lock, view, checked, legit>>

Close ==
    /\ step \in {"open", "poisoned"}
    /\ lock' = None
    /\ step' = "down"
    /\ view' = NoDoc
    /\ txn' = NoTxn
    /\ UNCHANGED <<faults, disk, checked, legit>>

-----------------------------------------------------------------------------
(* _persist_transaction and _apply_recovery, one system call at a time. *)

Advance(from, to) == step = from /\ step' = to

Holder == <<lock, txn, view, checked, legit>>

WriteJournal ==
    /\ Advance("journal", "journalSync")
    /\ ReplaceJournal([old |-> StateOf(view), new |-> txn.target, newKey |-> txn.key,
                       oldKey |-> IF view = NoDoc THEN txn.key ELSE view.key])
    /\ UNCHANGED <<faults, store, anchor, backups, Holder>>

SyncJournal ==
    /\ Advance("journalSync", IF txn.kind = "commit" THEN "backup" ELSE "store")
    /\ SyncAnchorDirectory
    /\ UNCHANGED <<faults, store, anchor, journal, backups, Holder>>

(* _write_backup leaves an existing backup of that revision alone. *)
WriteBackup ==
    /\ Advance("backup", "store")
    /\ SetBackups(IF \E b \in backups : b.rev = view.rev
                  THEN backups
                  ELSE backups \cup {[rev |-> view.rev, key |-> store.key]})
    /\ UNCHANGED <<faults, store, anchor, journal, Holder>>

WriteStore ==
    /\ Advance("store", "storeSync")
    /\ ReplaceStore(txn.doc)
    /\ UNCHANGED <<faults, anchor, journal, backups, Holder>>

SyncStore ==
    /\ Advance("storeSync", "anchor")
    /\ SyncStoreDirectory
    /\ UNCHANGED <<faults, store, anchor, journal, backups, Holder>>

WriteAnchor ==
    /\ Advance("anchor", "anchorSync")
    /\ ReplaceAnchor(txn.target)
    /\ UNCHANGED <<faults, store, journal, backups, Holder>>

SyncAnchor ==
    /\ Advance("anchorSync", IF txn.purge THEN "purge" ELSE "unlink")
    /\ SyncAnchorDirectory
    /\ UNCHANGED <<faults, store, anchor, journal, backups, Holder>>

(* _purge_rotated_backups removes one backup after the other and then      *)
(* checks, after the fsync, that none is left.                             *)
PurgeBackup ==
    /\ Advance("purge", "purge")
    /\ \E b \in backups : SetBackups(backups \ {b})
    /\ UNCHANGED <<faults, store, anchor, journal, Holder>>

SyncPurge ==
    /\ Advance("purge", "unlink")
    /\ backups = {}
    /\ SyncStoreDirectory
    /\ UNCHANGED <<faults, store, anchor, journal, backups, Holder>>

RemoveJournal ==
    /\ Advance("unlink", "unlinkSync")
    /\ ReplaceJournal(None)
    /\ UNCHANGED <<faults, store, anchor, backups, Holder>>

SyncRemoval ==
    /\ Advance("unlinkSync", "finish")
    /\ SyncAnchorDirectory
    /\ UNCHANGED <<faults, store, anchor, journal, backups, Holder>>

(* The end of _commit and of initialize: the retention of the backups      *)
(* (only after a commit), the memory of the object, the answer.            *)
FinishWrite ==
    /\ Advance("finish", "open")
    /\ txn.kind \in {"commit", "initialize"}
    /\ SetBackups(IF txn.kind = "commit" THEN Retained ELSE backups)
    /\ view' = txn.doc
    /\ legit' = {txn.doc}
    /\ txn' = NoTxn
    /\ UNCHANGED <<faults, store, anchor, journal, lock, checked>>

(* The end of open: the pair is read and the object exists. *)
FinishOpen ==
    /\ Advance("finish", "open")
    /\ txn.kind = "open"
    /\ PairReads(txn.key)
    /\ SetBackups(Retained)
    /\ view' = store
    /\ legit' = {store}
    /\ txn' = NoTxn
    /\ UNCHANGED <<faults, store, anchor, journal, lock, checked>>

(* The end of recover_master_key_rotation: it returns the confirmed key. *)
FinishRecovery ==
    /\ Advance("finish", "down")
    /\ txn.kind = "recover"
    /\ PairReads(txn.key)
    /\ SetBackups(Retained)
    /\ legit' = {store}
    /\ lock' = None
    /\ txn' = NoTxn
    /\ UNCHANGED <<faults, store, anchor, journal, view, checked>>

(* open raises when the pair does not read, or cannot be read at all. *)
RefuseOpen ==
    /\ Advance("finish", "down")
    /\ txn.kind \in {"open", "recover"}
    /\ PairReads(txn.key) => "io" \in faults
    /\ lock' = None
    /\ txn' = NoTxn
    /\ UNCHANGED <<faults, disk, view, checked, legit>>

-----------------------------------------------------------------------------
(* Failures.  Whether the caller may find the new document afterwards      *)
(* depends on whether the replace of the store was attempted.              *)

Doubt(attempted) == IF attempted /\ txn.doc # NoDoc THEN legit \cup {txn.doc} ELSE legit

\* Faulty variant of IOFailure: the replace counts as attempted only after it.
IOFailureMarkedLate ==
    /\ "io" \in faults
    /\ step \in WriteSteps \cup CommitSteps
    /\ legit' = Doubt(step \in CommitSteps \ {"storeSync"})
    /\ IF txn.kind = "commit"
       THEN step' = "poisoned" /\ UNCHANGED lock
       ELSE step' = "down" /\ lock' = None
    /\ view' = NoDoc
    /\ txn' = NoTxn
    /\ UNCHANGED <<faults, disk, checked>>

(* A system call raises.  A commit poisons its object, which keeps the     *)
(* locks until it is closed; everything else releases them.  The replace   *)
(* of the store counts as attempted just before os.replace, so at "store"  *)
(* the error is definite or uncertain.                                     *)
IOFailure ==
    /\ "io" \in faults
    /\ step \in WriteSteps \cup CommitSteps
    /\ \E attempted \in BOOLEAN :
           /\ step # "store" => attempted = (step \in CommitSteps)
           /\ legit' = Doubt(attempted)
    /\ IF txn.kind = "commit"
       THEN step' = "poisoned" /\ UNCHANGED lock
       ELSE step' = "down" /\ lock' = None
    /\ view' = NoDoc
    /\ txn' = NoTxn
    /\ UNCHANGED <<faults, disk, checked>>

(* The process dies: flock is released by the kernel. *)
Kill(p) ==
    /\ "kill" \in faults
    /\ p = lock \/ p \in checked
    /\ checked' = checked \ {p}
    /\ IF p = lock
       THEN /\ lock' = None
            /\ step' = "down"
            /\ view' = NoDoc
            /\ txn' = NoTxn
            /\ legit' = Doubt(step \in CommitSteps \cup {"finish"})
       ELSE UNCHANGED <<lock, step, view, txn, legit>>
    /\ UNCHANGED <<faults, disk>>

PowerLoss ==
    /\ "power" \in faults
    /\ store' \in {store} \cup unsynced.store
    /\ anchor' \in {anchor} \cup unsynced.anchor
    /\ journal' \in {journal} \cup unsynced.journal
    /\ \E survivors \in SUBSET unsynced.backups :
           backups' = (backups \ unsynced.backups) \cup survivors
    /\ unsynced' = AllSynced
    /\ lock' = None
    /\ step' = "down"
    /\ view' = NoDoc
    /\ txn' = NoTxn
    /\ checked' = {}
    /\ legit' = Doubt(step \in CommitSteps \cup {"finish"})
    /\ UNCHANGED faults

-----------------------------------------------------------------------------
Initialization == \E p \in Procs : InitializeCheck(p) \/ InitializeLock(p)

Opening ==
    \/ \E p \in Procs, k \in Keys : Open(p, k)
    \/ \E ko, kn \in Keys : Inspect(ko, kn)
    \/ \E p \in Procs, ko, kn \in Keys : RecoverRotation(p, ko, kn)

Operation ==
    \/ \E d \in Digests : Mutate(d) \/ \E k \in Keys : RotateMasterKey(d, k)
    \/ Close

Protocol ==
    \/ WriteJournal \/ SyncJournal \/ WriteBackup \/ WriteStore \/ SyncStore
    \/ WriteAnchor \/ SyncAnchor \/ PurgeBackup \/ SyncPurge
    \/ RemoveJournal \/ SyncRemoval
    \/ FinishWrite \/ FinishOpen \/ FinishRecovery \/ RefuseOpen

Failure == IOFailure \/ (\E p \in Procs : Kill(p)) \/ PowerLoss

Next == Initialization \/ Opening \/ Operation \/ Protocol \/ Failure

Spec == Init /\ [][Next]_vars

-----------------------------------------------------------------------------
(* Properties. *)

(***************************************************************************)
(* Every call to the catalogue is explained by one atomic register: an     *)
(* acknowledged write is never lost, an error raised before the replace of *)
(* the store leaves the old document, an uncertain error or a death leaves *)
(* the old or the new one, and whoever opens, inspects or recovers next    *)
(* settles which.  Covers _persist_transaction, _plan_recovery,            *)
(* _determine_rotation and the poisoning of the object in _commit.         *)
(***************************************************************************)
BehavesAtomically == Abstract!Spec

(***************************************************************************)
(* Nothing the environment does locks the operator out: whenever nobody    *)
(* holds the catalogue, either it was never created (and initialize        *)
(* passes its check) or some single key opens it, or two keys recover it.  *)
(***************************************************************************)
CanOpen(k) == IF journal = None THEN PairReads(k) ELSE PlanRecovery(k) # {}

Recoverable ==
    lock = None =>
        \/ store = NoDoc /\ anchor = NoState
        \/ \E k \in Keys : CanOpen(k)
        \/ journal # None /\ \E ko, kn \in Keys :
               ko # kn /\ PlanWithBothKeys(ko, kn) # {}

(***************************************************************************)
(* An idle catalogue object agrees with the disk: its document is the one  *)
(* in the store, the anchor names it and no transaction is pending.  This  *)
(* is what the blocking of an object after a failed persistence is for.    *)
(***************************************************************************)
OpenObjectIsCurrent ==
    step = "open" => store = view /\ anchor = StateOf(view) /\ journal = None

(***************************************************************************)
(* A master key rotation ends only when no managed backup is left that the *)
(* previous key can read: without a journal, every backup is under the key *)
(* of the store (D-083).                                                   *)
(***************************************************************************)
OldKeyOpensNothing ==
    journal = None /\ store # NoDoc => \A b \in backups : b.key = store.key

(***************************************************************************)
(* The anchor advances only after the store is durable (D-081 and section  *)
(* 5 of the stage 2 design): no document that may come back in the store   *)
(* is older than the revision the anchor names.                            *)
(***************************************************************************)
AnchorFollowsDurableStore ==
    \A doc \in unsynced.store \cup {store} : doc.rev >= anchor.rev

(* The old key is dead: an open object follows what is in force, and after *)
(* a rotation nothing on disk opens with the key that was replaced.        *)
KeysAreCurrent ==
    /\ OpenObjectIsCurrent
    /\ OldKeyOpensNothing
-----------------------------------------------------------------------------
(* Master keys are only compared with one another. *)
Symmetry == Permutations(Keys)
=============================================================================
