---------------------------- MODULE AdminConfig ----------------------------
(***************************************************************************)
(* The administrative critical section of the legacy configuration,        *)
(* maskgw/admin/service.py, over the file it protects,                     *)
(* maskgw/config/filesystem.py, and the registry it publishes to           *)
(* (RuntimeRegistry).                                                      *)
(*                                                                         *)
(* A client reads a snapshot of the published document and later applies a *)
(* change with the revision it read.  The operation checks, builds and     *)
(* connects a candidate runtime, replaces the file, and publishes the      *)
(* candidate.  Between its steps queries use and release runtimes, an      *)
(* external editor that ignores the file lock rewrites the file, the       *)
(* process is killed, the machine loses power.                             *)
(*                                                                         *)
(* A document is its revision and its author; the digest of a document is  *)
(* the document itself (SHA-256 taken as injective).  One process is       *)
(* modelled: another one fails to take the exclusive file lock and stops.  *)
(***************************************************************************)
EXTENDS Integers, FiniteSets

CONSTANTS
    Query,        \* query threads
    MaxRetired,   \* MAX_RETIRED_RUNTIMES
    MaxRevision,  \* bound on the revisions explored
    Nobody,       \* no thread
    Admin,        \* administrative clients
    Editor,       \* author of the external edits
    Original,     \* author of the file before its adoption
    MaxEdits,     \* bound on the external edits
    MaxCrashes,   \* bound on the crashes
    Faults        \* which of "io", "kill", "power" may happen

ASSUME RetiredAssumption == MaxRetired \in Nat \ {0}
ASSUME RevisionAssumption == MaxRevision \in Nat
ASSUME NobodyAssumption == Nobody \notin Query \cup Admin
ASSUME QueryAssumption == IsFiniteSet(Query)
ASSUME BoundsAssumption == MaxEdits \in Nat /\ MaxCrashes \in Nat

VARIABLES
    current, retired, closed, refcount, connected, connLock, pc, using, toClose,
    phase,      \* down, up, closing (admin closed), closed (runtimes closed)
    file,       \* the document in masking.yaml
    survivors,  \* documents the file may hold after a power loss
    temp,       \* a temporary of write_atomic exists
    backup,     \* the document in <config>.bak.<epoch>
    document,   \* the document of the published runtime
    reference,  \* _reference_digest
    critical,   \* the client inside _critical_section
    step,       \* the step its operation is at
    op,         \* kind of the operation, document it writes, durable or not
    seen,       \* client -> the last snapshot it read
    answer,     \* client -> outcome of its last operation and its revision
    edits, crashes,
    raced,      \* an external edit followed the last check before the replace
    undone,     \* a power loss brought an earlier document back
    renumbered  \* an external edit kept or lowered the number it found

Registry == INSTANCE RuntimeRegistry

runtimes == <<current, retired, closed, refcount, connected, connLock, pc, using, toClose>>
memory == <<document, reference, critical, step, op>>
disk == <<file, survivors, temp, backup>>
clients == <<seen, answer>>
history == <<edits, crashes, raced, undone, renumbered>>
vars == <<runtimes, phase, memory, disk, clients, history>>

Revision == Registry!Revision
Document == [rev : Revision, by : Admin \cup {Editor, Original}]
NoDocument == [rev |-> -1, by |-> Nobody]
NoAnswer == [outcome |-> "none", rev |-> -1]
Kinds == {"write", "adopt"}
NoOp == [kind |-> "none", next |-> NoDocument, durable |-> FALSE]

(* The steps between the checks of _execute and its answer.  A candidate   *)
(* connection exists from "backup" or "initial" until the publication.     *)
Holding == {"backup", "initial", "temp", "prereplace", "replace", "sync", "publish"}
Steps == {"free", "checked", "closing"} \cup Holding

TypeOK ==
    /\ Registry!TypeOK
    /\ phase \in {"down", "up", "closing", "closed"}
    /\ file \in Document
    /\ survivors \subseteq Document
    /\ temp \in BOOLEAN
    /\ backup \in Document \cup {NoDocument}
    /\ document \in Document \cup {NoDocument}
    /\ reference \in Document \cup {NoDocument}
    /\ critical \in Admin \cup {Nobody}
    /\ step \in Steps
    /\ op \in {NoOp} \cup [kind : Kinds, next : Document, durable : BOOLEAN]
    /\ seen \in [Admin -> Document \cup {NoDocument}]
    /\ answer \in [Admin -> [outcome : {"none", "applied", "undurable", "refused"},
                             rev : Revision \cup {-1}]]
    /\ edits \in 0 .. MaxEdits
    /\ crashes \in 0 .. MaxCrashes
    /\ raced \in BOOLEAN /\ undone \in BOOLEAN /\ renumbered \in BOOLEAN
    /\ critical = Nobody <=> step = "free"

Init ==
    /\ Registry!Init
    /\ phase = "down"
    /\ file = [rev |-> 0, by |-> Original]
    /\ survivors = {file}
    /\ temp = FALSE
    /\ backup = NoDocument
    /\ document = NoDocument
    /\ reference = NoDocument
    /\ critical = Nobody
    /\ step = "free"
    /\ op = NoOp
    /\ seen = [a \in Admin |-> NoDocument]
    /\ answer = [a \in Admin |-> NoAnswer]
    /\ edits = 0
    /\ crashes = 0
    /\ raced = FALSE /\ undone = FALSE /\ renumbered = FALSE

-----------------------------------------------------------------------------
(* ConfigFileStore.open removes the temporaries of interrupted writes. *)
OpenStore == temp' = FALSE

(* _load_configuration and the rest of the startup: the runtime, its       *)
(* document and the reference come from the same bytes.                    *)
Start ==
    /\ phase = "down"
    /\ phase' = "up"
    /\ OpenStore
    /\ Registry!Start(file.rev)
    /\ document' = file
    /\ reference' = file
    /\ UNCHANGED <<file, survivors, backup, critical, step, op, clients, history>>

(* snapshot(): revision and content from one read of the registry. *)
Snapshot(a) ==
    /\ phase \in {"up", "closing"}
    /\ critical # a
    /\ seen' = [seen EXCEPT ![a] = document]
    /\ UNCHANGED <<runtimes, phase, memory, disk, answer, history>>

-----------------------------------------------------------------------------
(* The operation, step by step, inside the critical section.               *)

Leave(outcome, rev) ==
    /\ answer' = [answer EXCEPT ![critical] = [outcome |-> outcome, rev |-> rev]]
    /\ critical' = Nobody
    /\ step' = "free"
    /\ op' = NoOp

\* Faulty variant of RevisionMatches: expected_revision is not compared.
RevisionUnchecked(a) == TRUE

(* _check_revision *)
RevisionMatches(a) == seen[a].rev = current

(* _check_adoption *)
AdoptionMatches(kind) == (kind = "adopt") <=> (current = 0)

(* _check_disk_matches_reference *)
DiskMatchesReference == file = reference

(* _check_reload_capacity *)
HasCapacity == Registry!CanSwap

(* _next_document: the server numbers the document. *)
NextDocument(a) == [rev |-> current + 1, by |-> a]

(* apply: the four checks precede any resource.  They all read under the   *)
(* section; what they read changes only by an edit or by a release.        *)
Apply(a, kind) ==
    /\ phase \in {"up", "closing"}
    /\ critical = Nobody
    /\ seen[a] # NoDocument
    /\ current < MaxRevision
    /\ IF /\ phase = "up"
          /\ AdoptionMatches(kind)
          /\ RevisionMatches(a)
          /\ DiskMatchesReference
          /\ HasCapacity
       THEN /\ critical' = a
            /\ step' = "checked"
            /\ op' = [kind |-> kind, next |-> NextDocument(a), durable |-> FALSE]
            /\ answer' = [answer EXCEPT ![a] = NoAnswer]
       ELSE /\ answer' = [answer EXCEPT ![a] =
                            [outcome |-> "refused", rev |-> NextDocument(a).rev]]
            /\ UNCHANGED <<critical, step, op>>
    /\ UNCHANGED <<runtimes, phase, document, reference, disk, seen, history>>

Advance(from, to) == step = from /\ step' = to

(* _build_candidate and _connect_candidate *)
ConnectCandidate ==
    /\ Advance("checked", IF op.kind = "adopt" THEN "backup" ELSE "initial")
    /\ connected' = connected \cup {op.next.rev}
    /\ UNCHANGED <<current, retired, closed, refcount, connLock, pc, using, toClose,
                   phase, document, reference, critical, op, disk, clients, history>>

(* A failure before the replace: the store removes its temporary and       *)
(* _execute closes the candidate.                                          *)
Refuse ==
    /\ connected' = connected \ {op.next.rev}
    /\ temp' = FALSE
    /\ Leave("refused", op.next.rev)
    /\ UNCHANGED <<current, retired, closed, refcount, connLock, pc, using, toClose,
                   phase, file, survivors, backup, document, reference, seen, history>>

(* The mutation or the validation refuses, the candidate cannot be built   *)
(* or connected.                                                           *)
RefuseCandidate == step = "checked" /\ Refuse

(* The backup, the temporary or the replace fails. *)
WriteFails ==
    /\ "io" \in Faults
    /\ step \in {"backup", "temp", "replace"}
    /\ Refuse

(* _write_adoption_backup: the bytes read by the first check. *)
BackupContent == reference

WriteBackup ==
    /\ Advance("backup", "initial")
    /\ backup' = BackupContent
    /\ UNCHANGED <<runtimes, phase, file, survivors, temp, document, reference,
                   critical, op, clients, history>>

CheckSkipped(from, to) ==
    /\ Advance(from, to)
    /\ raced' = FALSE
    /\ UNCHANGED <<runtimes, phase, disk, document, reference, critical, op,
                   clients, edits, crashes, undone, renumbered>>

(* _verify_digest *)
CheckDigest(from, to) ==
    /\ step = from
    /\ IF file = reference
       THEN CheckSkipped(from, to)
       ELSE Refuse

CheckInitial == CheckDigest("initial", "temp")

CheckPreReplace == CheckDigest("prereplace", "replace")

(* _create_temp and _write_and_sync_temp *)
WriteTemp ==
    /\ Advance("temp", "prereplace")
    /\ temp' = TRUE
    /\ UNCHANGED <<runtimes, phase, file, survivors, backup, document, reference,
                   critical, op, clients, history>>

(* os.replace: the point of no return. *)
Replace ==
    /\ Advance("replace", "sync")
    /\ file' = op.next
    /\ survivors' = survivors \cup {op.next}
    /\ temp' = FALSE
    /\ UNCHANGED <<runtimes, phase, backup, document, reference, critical, op,
                   clients, history>>

(* _sync_parent_directory, on a POSIX host; elsewhere the code has no      *)
(* directory to sync, and says so in its answer.                           *)
SyncDirectory ==
    /\ Advance("sync", "publish")
    /\ survivors' = {file}
    /\ op' = [op EXCEPT !.durable = TRUE]
    /\ UNCHANGED <<runtimes, phase, file, temp, backup, document, reference,
                   critical, clients, history>>

SyncFails ==
    /\ "io" \in Faults
    /\ Advance("sync", "publish")
    /\ UNCHANGED <<runtimes, phase, disk, document, reference, critical, op,
                   clients, history>>

\* Faulty variant of ReferenceAfter: it follows the file only after the fsync.
ReferenceOfDurable == IF op.durable THEN op.next ELSE reference

ReferenceAfter == op.next

(* _publish: swap and reference digest, durable or not.  Without room for  *)
(* the old runtime swap raises: the candidate is closed and the reference  *)
(* stays, though the file was replaced.                                    *)
Publish ==
    /\ step = "publish"
    /\ IF Registry!CanSwap
       THEN /\ Registry!Swap(op.next.rev)
            /\ document' = op.next
            /\ reference' = ReferenceAfter
            /\ step' = "closing"
            /\ UNCHANGED <<critical, op, answer>>
       ELSE /\ connected' = connected \ {op.next.rev}
            /\ Leave("refused", op.next.rev)
            /\ UNCHANGED <<current, retired, closed, refcount, connLock, pc, using,
                           toClose, document, reference>>
    /\ UNCHANGED <<phase, disk, seen, history>>

(* The operation closes the runtime that swap returned, then answers. *)
CloseRetired(r) ==
    /\ step = "closing" \/ phase = "closed"
    /\ Registry!CloseRetired(r)
    /\ UNCHANGED <<phase, memory, disk, clients, history>>

Outcome == IF op.durable THEN "applied" ELSE "undurable"

Answer ==
    /\ step = "closing"
    /\ toClose = {}
    /\ Leave(Outcome, op.next.rev)
    /\ UNCHANGED <<runtimes, phase, document, reference, disk, seen, history>>

-----------------------------------------------------------------------------
(* Application.close: the service refuses, the HTTP thread is joined, the  *)
(* runtimes are closed, the file lock is released.                         *)
Close ==
    /\ phase = "up"
    /\ phase' = "closing"
    /\ UNCHANGED <<runtimes, memory, disk, clients, history>>

CloseAll ==
    /\ phase = "closing"
    /\ critical = Nobody
    /\ phase' = "closed"
    /\ Registry!CloseAll
    /\ UNCHANGED <<memory, disk, clients, history>>

ForgetMemory ==
    /\ phase' = "down"
    /\ current' = Registry!NoRuntime
    /\ retired' = {} /\ closed' = {} /\ connected' = {} /\ toClose' = {}
    /\ refcount' = [r \in Revision |-> 0]
    /\ connLock' = [r \in Revision |-> Nobody]
    /\ pc' = [q \in Query |-> "idle"]
    /\ using' = [q \in Query |-> Registry!NoRuntime]
    /\ document' = NoDocument /\ reference' = NoDocument
    /\ critical' = Nobody /\ step' = "free" /\ op' = NoOp

Stop ==
    /\ phase = "closed"
    /\ toClose = {}
    /\ ForgetMemory
    /\ UNCHANGED <<disk, clients, history>>

(* The process dies: the client of the operation gets no answer. *)
Kill ==
    /\ "kill" \in Faults
    /\ phase # "down"
    /\ crashes < MaxCrashes
    /\ crashes' = crashes + 1
    /\ ForgetMemory
    /\ UNCHANGED <<disk, clients, edits, raced, undone, renumbered>>

PowerLoss ==
    /\ "power" \in Faults
    /\ phase # "down"
    /\ crashes < MaxCrashes
    /\ crashes' = crashes + 1
    /\ ForgetMemory
    /\ file' \in survivors
    /\ survivors' = {file'}
    /\ undone' = (undone \/ file' # file)
    /\ UNCHANGED <<temp, backup, clients, edits, raced, renumbered>>

(* Somebody edits the file by hand, keeping, skipping or repeating numbers. *)
Edit(r) ==
    /\ edits < MaxEdits
    /\ edits' = edits + 1
    /\ file' = [rev |-> r, by |-> Editor]
    /\ survivors' = survivors \cup {file'}
    /\ raced' = (step = "replace")
    /\ renumbered' = (renumbered \/ r <= file.rev)
    /\ UNCHANGED <<runtimes, phase, temp, backup, memory, clients, crashes, undone>>

QueryStep(q) ==
    /\ phase \in {"up", "closing"}
    /\ Registry!QueryStep(q)
    /\ UNCHANGED <<phase, memory, disk, clients, history>>

-----------------------------------------------------------------------------
Operation ==
    \/ ConnectCandidate \/ RefuseCandidate \/ WriteFails \/ WriteBackup
    \/ CheckInitial \/ WriteTemp \/ CheckPreReplace \/ Replace
    \/ SyncDirectory \/ SyncFails \/ Publish \/ Answer
    \/ \E r \in Revision : CloseRetired(r)

Next ==
    \/ Start
    \/ \E a \in Admin : Snapshot(a) \/ \E kind \in Kinds : Apply(a, kind)
    \/ Operation
    \/ \E q \in Query : QueryStep(q)
    \/ Close \/ CloseAll \/ Stop
    \/ Kill \/ PowerLoss
    \/ \E r \in Revision : Edit(r)

Spec == Init /\ [][Next]_vars

-----------------------------------------------------------------------------
(***************************************************************************)
(* Between operations, file and runtime describe the same document: the    *)
(* reference is the published document, and the file too unless somebody   *)
(* edited it.  An operation that replaced the file therefore published,    *)
(* also when the directory could not be synced: the capacity it checked    *)
(* before building anything cannot be gone when it publishes.              *)
(***************************************************************************)
FileAndRuntimeAgree ==
    phase \in {"up", "closing"} =>
        /\ reference = document
        /\ document.rev = current
        /\ (critical = Nobody /\ edits = 0) => file = document

(***************************************************************************)
(* No lost update: the document an operation replaces is the one its       *)
(* client had read, across restarts and external edits too.  There are two *)
(* exceptions, both of a number given to two documents, which              *)
(* _check_revision cannot tell apart: a change that was published without  *)
(* being durable is undone by a power loss, or somebody edits the file by  *)
(* hand without raising the number in it, and the process is restarted.    *)
(***************************************************************************)
NoLostUpdate ==
    [][(~undone /\ ~renumbered /\ step = "publish" /\ document' # document /\ document' # NoDocument)
        => seen[critical] = document]_vars

(***************************************************************************)
(* A change answered as applied survives a kill and a power loss: every    *)
(* document the file may come back with is at least as recent, unless      *)
(* somebody edited the file by hand and did not raise its number.          *)
(***************************************************************************)
AppliedSurvives ==
    \A a \in Admin : (~renumbered /\ answer[a].outcome = "applied") =>
        \A d \in survivors : d.rev >= answer[a].rev

(***************************************************************************)
(* Every open connection belongs to the published runtime, to a retired    *)
(* one, to one about to be closed, or to the candidate of the operation in *)
(* the section: no path out of _execute leaves a candidate connected.      *)
(***************************************************************************)
CandidateNeverLeaked ==
    connected \subseteq
        {current} \cup retired \cup toClose
        \cup {using[q] : q \in {p \in Query : pc[p] = "closing"}}
        \cup (IF step \in Holding THEN {op.next.rev} ELSE {})

(***************************************************************************)
(* No query works on a runtime whose closing was decided (RuntimeRegistry):*)
(* neither a reload, nor the last release, nor the shutdown closes it      *)
(* under a query, whatever the operation in the section does.              *)
(***************************************************************************)
NeverClosedInUse == Registry!NeverClosedInUse

(***************************************************************************)
(* An external edit is replaced only if it came after the check that       *)
(* immediately precedes the replace.                                       *)
(***************************************************************************)
EditsOutsideWindowSurvive ==
    [][(step = "replace" /\ step' = "sync") => (file = reference \/ raced)]_vars

(***************************************************************************)
(* The configuration is sound: file and runtime agree, what was applied    *)
(* survives, no candidate leaks and nothing is closed in use.              *)
(***************************************************************************)
ConfigSound ==
    /\ FileAndRuntimeAgree
    /\ AppliedSurvives
    /\ CandidateNeverLeaked
    /\ NeverClosedInUse

(***************************************************************************)
(* No change is lost: neither one that a client was told of, nor an edit   *)
(* that somebody made outside the window of a write.                       *)
(***************************************************************************)
NoChangeLost == NoLostUpdate /\ EditsOutsideWindowSurvive
=============================================================================
