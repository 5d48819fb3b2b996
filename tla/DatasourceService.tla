------------------------- MODULE DatasourceService -------------------------
(***************************************************************************)
(* The coordinator of runtime/datasource_service.py, which composes the    *)
(* encrypted catalogue and the registry of published generations: one      *)
(* write at a time (_lock), each of them guarded by a revision, built and  *)
(* verified as a candidate, persisted, published or withdrawn, and sealed  *)
(* into the view the readers get; and DatasourceRuntime, its fail-closed   *)
(* start and its shutdown.                                                 *)
(*                                                                         *)
(* The catalogue appears here as what AtomicCatalog says of it: `disk' is  *)
(* the set of documents a restart may find.  The registry appears as its   *)
(* published generations and its candidate slots; sessions, draining and   *)
(* the limits are those of DatasourceRegistry, and a refusal for capacity  *)
(* is possible whenever a slot is asked for.                               *)
(*                                                                         *)
(* A step is one section of a lock, or one call the coordinator makes      *)
(* while it holds _lock: readers, connection tests, block_unknown, the     *)
(* shutdown and a crash come between any two of them.                      *)
(***************************************************************************)
EXTENDS Naturals, FiniteSets, TLC

CONSTANTS
    Client,        \* threads that call the coordinator
    Id,            \* identifiers new_datasource_id() may draw
    Alias,         \* names a datasource may be given
    Config,        \* everything else a record holds: destination, policy, secret
    MaxRevision,   \* bound on the revision of the catalogue
    None           \* nothing: no generation, no view, no document read

ASSUME RevisionAssumption == MaxRevision \in Nat \ {0}

Key == Id \cup Alias   \* candidate keys: the id, or _new_key of the alias

VARIABLES
    disk,        \* documents a restart may find (AtomicCatalog!legit)
    catalog,     \* CatalogStore._records and _revision
    poisoned,    \* CatalogStore.requires_reopen
    published,   \* DatasourceRegistry._published: alias -> generation or None
    registry,    \* "open", "closing" (_closing) or "closed" (_closed)
    candidates,  \* keys with a reservation (_ds_candidates)
    phase,       \* the process: "down", "opening", "up"
    opening,     \* ids open_datasource_runtime has yet to publish
    closed,      \* _closed
    blocked,     \* _blocked and _withdrawn, always set together
    view,        \* _view: the sealed pair, or None
    op,          \* the write inside _lock, or None
    testing,     \* client -> the connection test it runs, or None
    seen,        \* client -> document it last read, or None
    fresh,       \* ids not drawn yet
    acked        \* history: the last document a write was answered with

storeVars == <<disk, catalog, poisoned>>
registryVars == <<published, registry, candidates>>
serviceVars == <<closed, blocked, view, op>>
clientVars == <<testing, seen, fresh, acked>>
vars == <<storeVars, registryVars, phase, opening, serviceVars, clientVars>>

-----------------------------------------------------------------------------
(* Documents, records and generations *)

Record == [alias : Alias, rev : 1..MaxRevision, enabled : BOOLEAN, conf : Config]
Document == [rev : 0..MaxRevision, records : UNION {[S -> Record] : S \in SUBSET Id}]
NoRecords == [i \in {} |-> None]
Empty == [rev |-> 0, records |-> NoRecords]

Generation == [id : Id, rev : 1..MaxRevision, conf : Config]
Generations == [Alias -> Generation \cup {None}]
Nothing == [a \in Alias |-> None]

Enabled(doc) == {i \in DOMAIN doc.records : doc.records[i].enabled}

GenerationOf(i, record) == [id |-> i, rev |-> record.rev, conf |-> record.conf]

(* The generations a runtime that serves the document publishes. *)
Serving(doc) ==
    [a \in Alias |->
        LET ids == {i \in Enabled(doc) : doc.records[i].alias = a}
        IN  IF ids = {} THEN None
            ELSE GenerationOf(CHOOSE i \in ids : TRUE, doc.records[CHOOSE i \in ids : TRUE])]

With(doc, i, record) ==
    [rev |-> doc.rev + 1,
     records |-> [j \in DOMAIN doc.records \cup {i} |->
                     IF j = i THEN record ELSE doc.records[j]]]

Without(doc, i) ==
    [rev |-> doc.rev + 1,
     records |-> [j \in DOMAIN doc.records \ {i} |-> doc.records[j]]]

(* A write inside the critical section.  `next' is the document it will    *)
(* persist, `then' what follows the persistence, `stage' where it is.      *)
Write == [client : Client, id : Id, key : Key, next : Document,
          then : {"publish", "withdraw", "nothing"},
          stage : {"reserving", "checking", "persisted", "failed", "uncertain", "sealing"}]

SealedView == [doc : Document, published : Generations]

\* None in Python is none of the objects it stands for the absence of.
ASSUME NoneAssumption ==
    /\ None \notin Document /\ None \notin Generation /\ None \notin SealedView
    /\ None \notin Write /\ None \notin [key : Key, held : BOOLEAN]

TypeOK ==
    /\ disk \subseteq Document
    /\ catalog \in Document
    /\ poisoned \in BOOLEAN
    /\ published \in Generations
    /\ registry \in {"open", "closing", "closed"}
    /\ candidates \subseteq Key
    /\ phase \in {"down", "opening", "up"}
    /\ opening \subseteq Id
    /\ closed \in BOOLEAN
    /\ blocked \in BOOLEAN
    /\ view = None \/ view \in SealedView
    /\ op = None \/ op \in Write
    /\ testing \in [Client -> [key : Key, held : BOOLEAN] \cup {None}]
    /\ seen \in [Client -> Document \cup {None}]
    /\ fresh \subseteq Id
    /\ acked \in Document

Init ==
    /\ disk = {Empty}
    /\ catalog = Empty
    /\ poisoned = FALSE
    /\ published = Nothing
    /\ registry = "closed"
    /\ candidates = {}
    /\ phase = "down"
    /\ opening = {}
    /\ closed = FALSE
    /\ blocked = FALSE
    /\ view = None
    /\ op = None
    /\ testing = [c \in Client |-> None]
    /\ seen = [c \in Client |-> None]
    /\ fresh = Id
    /\ acked = Empty

-----------------------------------------------------------------------------
(* Start: open_datasource_runtime *)

(* A new process; CatalogStore.open settles what the disk holds. *)
Open ==
    /\ phase = "down"
    /\ \E doc \in disk :
        /\ disk' = {doc}
        /\ catalog' = doc
        /\ opening' = Enabled(doc)
    /\ poisoned' = FALSE
    /\ published' = Nothing
    /\ registry' = "open"
    /\ phase' = "opening"
    /\ closed' = FALSE
    /\ blocked' = FALSE
    /\ testing' = [c \in Client |-> None]
    /\ UNCHANGED <<candidates, view, op, seen, fresh, acked>>

(* Each enabled record becomes a verified candidate and is published. *)
OpenNext ==
    /\ phase = "opening"
    /\ \E i \in opening :
        /\ opening' = opening \ {i}
        /\ published' = [published EXCEPT ![catalog.records[i].alias] =
                            GenerationOf(i, catalog.records[i])]
    /\ UNCHANGED <<storeVars, registry, candidates, phase, serviceVars, clientVars>>

(* One that fails closes everything that exists already: there is no       *)
(* partial start.                                                          *)
OpenFails ==
    /\ phase = "opening"
    /\ opening # {}
    /\ opening' = {}
    /\ published' = Nothing
    /\ registry' = "closed"
    /\ phase' = "down"
    /\ UNCHANGED <<storeVars, candidates, serviceVars, clientVars>>

(* The service is built last, and seals its first view. *)
OpenDone ==
    /\ phase = "opening"
    /\ opening = {}
    /\ view' = [doc |-> catalog, published |-> published]
    /\ phase' = "up"
    /\ UNCHANGED <<storeVars, registryVars, opening, closed, blocked, op, clientVars>>

-----------------------------------------------------------------------------
(* Reads and connection tests: outside the critical section *)

Idle(c) == testing[c] = None /\ (op # None => op.client # c)

(* view() is the only read, and never touches the store. *)
Read(c) ==
    /\ phase = "up"
    /\ view # None
    /\ Idle(c)
    /\ seen' = [seen EXCEPT ![c] = view.doc]
    /\ UNCHANGED <<storeVars, registryVars, phase, opening, serviceVars, testing, fresh, acked>>

Reservable(key) == registry = "open" /\ key \notin candidates

(* test_draft uses the key of the alias; test_datasource that of the id,   *)
(* and refuses a datasource that is disabled.  Both are allowed while the  *)
(* service is blocked.  The record is checked before the slot is reserved, *)
(* outside _lock: it may have changed in between.                          *)
Test(c, key) ==
    /\ phase = "up"
    /\ Idle(c)
    /\ ~closed
    /\ key \in Id => ~poisoned /\ key \in Enabled(catalog)
    /\ testing' = [testing EXCEPT ![c] = [key |-> key, held |-> FALSE]]
    /\ UNCHANGED <<storeVars, registryVars, phase, opening, serviceVars, seen, fresh, acked>>

TestReserves(c) ==
    /\ testing[c] # None
    /\ ~testing[c].held
    /\ Reservable(testing[c].key)
    /\ candidates' = candidates \cup {testing[c].key}
    /\ testing' = [testing EXCEPT ![c].held = TRUE]
    /\ UNCHANGED <<storeVars, published, registry, phase, opening, serviceVars, seen, fresh, acked>>

(* The test is refused its slot, fails or succeeds: nothing else changes. *)
TestEnds(c) ==
    /\ testing[c] # None
    /\ candidates' = IF testing[c].held THEN candidates \ {testing[c].key} ELSE candidates
    /\ testing' = [testing EXCEPT ![c] = None]
    /\ UNCHANGED <<storeVars, published, registry, phase, opening, serviceVars, seen, fresh, acked>>

-----------------------------------------------------------------------------
(* Writes: the guards, under _lock *)

Entering(c) ==
    /\ phase = "up"
    /\ op = None
    /\ Idle(c)
    /\ ~closed
    /\ ~blocked
    /\ seen[c] # None
    /\ catalog.rev < MaxRevision

\* Faulty variant of Guard: the revision the client saw is not compared.
GuardByPresence(c, i) == i \in DOMAIN catalog.records

(* _guard: the revision of the catalogue, or that of the record itself;    *)
(* either way the record is read again under the lock (_get).              *)
Guard(c, i) ==
    /\ i \in DOMAIN catalog.records
    /\ \/ seen[c].rev = catalog.rev
       \/ /\ i \in DOMAIN seen[c].records
          /\ seen[c].records[i].rev = catalog.records[i].rev

Start(c, i, key, next, then) ==
    /\ op' = [client |-> c, id |-> i, key |-> key, next |-> next, then |-> then,
              stage |-> IF then = "publish" THEN "reserving" ELSE "checking"]
    /\ UNCHANGED <<storeVars, registryVars, phase, opening, closed, blocked, view, testing,
                   seen, acked>>

Bumped(record) == [record EXCEPT !.rev = @ + 1]

(* create: the alias must be free.  A disabled datasource is persisted     *)
(* without a candidate, after its policy compiled.                         *)
Create(c, i, a, enabled, conf) ==
    /\ Entering(c)
    /\ seen[c].rev = catalog.rev
    /\ \A j \in DOMAIN catalog.records : catalog.records[j].alias # a
    /\ i \in fresh
    /\ fresh' = fresh \ {i}
    /\ Start(c, i, a,
             With(catalog, i, [alias |-> a, rev |-> 1, enabled |-> enabled, conf |-> conf]),
             IF enabled THEN "publish" ELSE "nothing")

(* update and set_enabled (_update_locked): the alias stays, a disabled    *)
(* draft withdraws, an enabled one replaces the generation.                *)
Update(c, i, enabled, conf) ==
    /\ Entering(c)
    /\ Guard(c, i)
    /\ Start(c, i, i,
             With(catalog, i, [Bumped(catalog.records[i]) EXCEPT !.enabled = enabled, !.conf = conf]),
             IF enabled THEN "publish" ELSE "withdraw")
    /\ UNCHANGED fresh

(* rotate_secret: a disabled datasource needs no candidate. *)
RotateSecret(c, i, conf) ==
    /\ Entering(c)
    /\ Guard(c, i)
    /\ Start(c, i, i,
             With(catalog, i, [Bumped(catalog.records[i]) EXCEPT !.conf = conf]),
             IF catalog.records[i].enabled THEN "publish" ELSE "nothing")
    /\ UNCHANGED fresh

Remove(c, i) ==
    /\ Entering(c)
    /\ Guard(c, i)
    /\ Start(c, i, i, Without(catalog, i), "withdraw")
    /\ UNCHANGED fresh

-----------------------------------------------------------------------------
(* Writes: the candidate and the persistence *)

At(stage) == op # None /\ op.stage = stage

GoTo(stage) == op' = [op EXCEPT !.stage = stage]

(* The reservation is taken before anything is built. *)
Reserve ==
    /\ At("reserving")
    /\ Reservable(op.key)
    /\ candidates' = candidates \cup {op.key}
    /\ GoTo("checking")
    /\ UNCHANGED <<storeVars, published, registry, phase, opening, closed, blocked, view, clientVars>>

(* The reservation is a context manager: however the write ends, the slot  *)
(* comes back with it.                                                     *)
Reserved == IF op.then = "publish" THEN candidates \ {op.key} ELSE candidates

EndWrite ==
    /\ op' = None
    /\ candidates' = Reserved

(* reserve refuses (limits, shutdown), or the candidate does not build,    *)
(* connect or verify, or the policy does not compile, or the store refuses *)
(* the write before its commit: nothing has happened.                      *)
Abandon ==
    /\ At("reserving") \/ At("checking")
    /\ op' = None
    /\ candidates' = IF At("checking") THEN Reserved ELSE candidates
    /\ UNCHANGED <<storeVars, published, registry, phase, opening, closed, blocked, view, clientVars>>

(* The store's commit: acknowledged, *)
Persist ==
    /\ At("checking")
    /\ disk' = {op.next}
    /\ catalog' = op.next
    /\ GoTo("persisted")
    /\ UNCHANGED <<poisoned, registryVars, phase, opening, closed, blocked, view, clientVars>>

(* failed before the store was replaced, *)
PersistFails ==
    /\ At("checking")
    /\ poisoned' = TRUE
    /\ GoTo("failed")
    /\ UNCHANGED <<disk, catalog, registryVars, phase, opening, closed, blocked, view, clientVars>>

(* or failed with an unknown outcome. *)
PersistUncertain ==
    /\ At("checking")
    /\ poisoned' = TRUE
    /\ disk' = disk \cup {op.next}
    /\ GoTo("uncertain")
    /\ UNCHANGED <<catalog, registryVars, phase, opening, closed, blocked, view, clientVars>>

(* _block: writes refused and view withdrawn, together. *)
Block ==
    /\ blocked' = TRUE
    /\ view' = None

(* _persist blocks because the store requires a reopening ... *)
FailedWrite ==
    /\ At("failed")
    /\ Block
    /\ EndWrite
    /\ UNCHANGED <<storeVars, published, registry, phase, opening, closed, clientVars>>

WithdrawnFrom(i) ==
    [a \in Alias |->
        IF published[a] # None /\ published[a].id = i THEN None ELSE published[a]]

\* Faulty variant of UncertainWrite: an uncertain withdrawal leaves the generation published.
UncertainWriteKeeps ==
    /\ At("uncertain")
    /\ Block
    /\ EndWrite
    /\ UNCHANGED <<storeVars, published, registry, phase, opening, closed, clientVars>>

(* ... and a disabling or a removal of unknown outcome withdraws anyway:   *)
(* reducing exposure never waits for a confirmation.                       *)
UncertainWrite ==
    /\ At("uncertain")
    /\ Block
    /\ EndWrite
    /\ published' = IF op.then = "withdraw" THEN WithdrawnFrom(op.id) ELSE published
    /\ UNCHANGED <<storeVars, registry, phase, opening, closed, clientVars>>

-----------------------------------------------------------------------------
(* Writes: the publication and the seal *)

PublishedAlias == op.next.records[op.id].alias

(* DatasourceRegistry._publish refuses only a closed registry, and an      *)
(* alias another datasource is published under.                            *)
PublishAllowed ==
    /\ registry # "closed"
    /\ published[PublishedAlias] # None => published[PublishedAlias].id = op.id

Publish ==
    /\ At("persisted")
    /\ op.then = "publish"
    /\ PublishAllowed
    /\ published' = [published EXCEPT ![PublishedAlias] =
                        GenerationOf(op.id, op.next.records[op.id])]
    /\ GoTo("sealing")
    /\ UNCHANGED <<storeVars, registry, candidates, phase, opening, closed, blocked, view, clientVars>>

Withdraw ==
    /\ At("persisted")
    /\ op.then = "withdraw"
    /\ published' = WithdrawnFrom(op.id)
    /\ GoTo("sealing")
    /\ UNCHANGED <<storeVars, registry, candidates, phase, opening, closed, blocked, view, clientVars>>

NothingToPublish ==
    /\ At("persisted")
    /\ op.then = "nothing"
    /\ GoTo("sealing")
    /\ UNCHANGED <<storeVars, registryVars, phase, opening, closed, blocked, view, clientVars>>

(* The end of _transition: a new view, unless the view was withdrawn       *)
(* meanwhile, in which case the write is not answered with a success.      *)
Seal ==
    /\ At("sealing")
    /\ view' = IF blocked THEN view ELSE [doc |-> catalog, published |-> published]
    /\ acked' = IF blocked THEN acked ELSE catalog
    /\ EndWrite
    /\ UNCHANGED <<storeVars, published, registry, phase, opening, closed, blocked, testing,
                   seen, fresh>>

(* The view cannot be built. *)
SealFails ==
    /\ At("sealing")
    /\ Block
    /\ EndWrite
    /\ UNCHANGED <<storeVars, published, registry, phase, opening, closed, clientVars>>

(* Another worker stopped at a point nobody can account for. *)
BlockUnknown ==
    /\ phase = "up"
    /\ ~blocked
    /\ Block
    /\ UNCHANGED <<storeVars, registryVars, phase, opening, closed, op, clientVars>>

-----------------------------------------------------------------------------
(* Shutdown and crash *)

(* DatasourceRegistry.begin_shutdown: no new reservation. *)
BeginShutdown ==
    /\ phase = "up"
    /\ registry = "open"
    /\ registry' = "closing"
    /\ UNCHANGED <<storeVars, published, candidates, phase, opening, serviceVars, clientVars>>

(* close(): the coordinator refuses new operations, *)
CloseService ==
    /\ phase = "up"
    /\ ~closed
    /\ closed' = TRUE
    /\ UNCHANGED <<storeVars, registryVars, phase, opening, blocked, view, op, clientVars>>

(* the write inside it ends, the registry stops the admission, drains the  *)
(* candidates (and the sessions) and drops the generations, *)
CloseRegistry ==
    /\ phase = "up"
    /\ closed
    /\ op = None
    /\ \/ /\ registry = "open"
          /\ registry' = "closing"
          /\ UNCHANGED published
       \/ /\ registry = "closing"
          /\ candidates = {}
          /\ registry' = "closed"
          /\ published' = Nothing
    /\ UNCHANGED <<storeVars, candidates, phase, opening, serviceVars, clientVars>>

(* and the store, with the locks that keep a second process out, goes last. *)
CloseStore ==
    /\ phase = "up"
    /\ registry = "closed"
    /\ phase' = "down"
    /\ view' = None
    /\ UNCHANGED <<storeVars, registryVars, opening, closed, blocked, op, clientVars>>

(* The process dies.  A commit under way may have reached the disk.        *)
Crash ==
    /\ phase # "down"
    /\ phase' = "down"
    /\ disk' = IF At("checking") THEN disk \cup {op.next} ELSE disk
    /\ opening' = {}
    /\ registry' = "closed"
    /\ published' = Nothing
    /\ candidates' = {}
    /\ view' = None
    /\ op' = None
    /\ testing' = [c \in Client |-> None]
    /\ UNCHANGED <<catalog, poisoned, closed, blocked, seen, fresh, acked>>

-----------------------------------------------------------------------------

Startup == Open \/ OpenNext \/ OpenFails \/ OpenDone

Calls ==
    \E c \in Client :
        \/ Read(c)
        \/ \E k \in Key : Test(c, k)
        \/ \E i \in Id, a \in Alias, e \in BOOLEAN, p \in Config : Create(c, i, a, e, p)
        \/ \E i \in Id, e \in BOOLEAN, p \in Config : Update(c, i, e, p)
        \/ \E i \in Id, p \in Config : RotateSecret(c, i, p)
        \/ \E i \in Id : Remove(c, i)

WriteSteps ==
    \/ Reserve
    \/ Abandon
    \/ Persist
    \/ PersistFails
    \/ PersistUncertain
    \/ FailedWrite
    \/ UncertainWrite
    \/ Publish
    \/ Withdraw
    \/ NothingToPublish
    \/ Seal
    \/ SealFails

CloseSteps == CloseRegistry \/ CloseStore

Next ==
    \/ Startup
    \/ Calls
    \/ WriteSteps
    \/ \E c \in Client : TestReserves(c) \/ TestEnds(c)
    \/ BlockUnknown
    \/ BeginShutdown
    \/ CloseService
    \/ CloseSteps
    \/ Crash

Spec == Init /\ [][Next]_vars

-----------------------------------------------------------------------------
(* Properties *)

(***************************************************************************)
(* A sealed view pairs a catalogue with exactly the generations that       *)
(* catalogue asks for, in the middle of any write too: a reader never sees *)
(* a record of one state beside a generation of another.                   *)
(***************************************************************************)
ViewIsOneState == view # None => view.published = Serving(view.doc)

(***************************************************************************)
(* Once the write has ended, nothing is served that the disk may say is    *)
(* disabled or removed, whether the persistence failed, its outcome is     *)
(* unknown, or the service blocked itself.                                 *)
(***************************************************************************)
NothingDisabledServed ==
    (phase = "up" /\ op = None) =>
        \A a \in Alias : published[a] # None =>
            \A doc \in disk : published[a].id \in Enabled(doc)

(***************************************************************************)
(* A write that was answered with success is found again by every restart, *)
(* and nothing else is found at its revision.                              *)
(***************************************************************************)
AnsweredSurvives ==
    \A doc \in disk : /\ doc.rev >= acked.rev
                      /\ doc.rev = acked.rev => doc = acked

(***************************************************************************)
(* No write overwrites what its caller did not read: the record it changes *)
(* is, field by field, the one in the view the caller took its revision    *)
(* from, although that view may be older than a crash or a restart.        *)
(***************************************************************************)
NoLostUpdate ==
    [][\A i \in DOMAIN catalog.records :
        (At("checking") /\ op.id = i /\ catalog' # catalog /\ phase = "up") =>
            /\ i \in DOMAIN seen[op.client].records
            /\ seen[op.client].records[i] = catalog.records[i]]_vars

(***************************************************************************)
(* The service is sound: a reader sees one state, nothing disabled is      *)
(* served, and what was answered survives.                                 *)
(***************************************************************************)
ServiceSound ==
    /\ ViewIsOneState
    /\ NothingDisabledServed
    /\ AnsweredSurvives
-----------------------------------------------------------------------------
(* Clients are only told apart by what they asked for. *)
ClientSymmetry == Permutations(Client)
=============================================================================
