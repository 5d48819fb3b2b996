---------------------------- MODULE BudgetLedger ----------------------------
(***************************************************************************)
(* The ledger of logical credits of runtime/budget.py: candidates,         *)
(* generations, sessions and auxiliaries hold bytes and places out of      *)
(* fixed totals, identified by tokens of a slot and an epoch, and give     *)
(* them back with a confirmed cleanup only.                                *)
(*                                                                         *)
(* The caller serialises every access, so one action is one method.  A     *)
(* method that refuses changes nothing and is a stuttering step; a token   *)
(* is any pair of a slot and an epoch, stale ones included.  `owed' is     *)
(* what the callers know: the tokens they were given and have not been     *)
(* told are released.                                                      *)
(***************************************************************************)
EXTENDS Naturals, FiniteSets, FiniteSetsExt

CONSTANTS
    Entries,         \* BudgetLimits.entries: the number of slots
    MaxEpoch,        \* _MAX_NUMBER: the last epoch of a slot and of an output
    Datasource,      \* ordinals of the datasources
    Capacity,        \* DatasourceCapacity of each datasource
    Limits,          \* BudgetLimits: bytes and places by kind
    SharedBytes,     \* numbers of bytes asked for a candidate or an auxiliary
    WorkerBytes,     \* numbers of bytes asked for a session's worker
    ParentBytes,     \* numbers of bytes asked for a session's part of the parent
    OutputBytes      \* numbers of bytes asked for a result's frame and overhead

CONSTANT None        \* no entry, no datasource, no generation

Slot == 1..Entries
Epoch == 1..MaxEpoch
Token == Slot \X Epoch
Kind == {"SESSION", "CANDIDATE", "GENERATION", "AUXILIARY"}
State == {"RESERVED", "LIVE", "DRAINING", "HELD"}

ASSUME EntriesAssumption == Entries \in Nat \ {0} /\ MaxEpoch \in Nat \ {0}

ASSUME BytesAssumption ==
    SharedBytes \cup WorkerBytes \cup ParentBytes \cup OutputBytes \subseteq Nat \ {0}

\* BudgetLimits.__post_init__
ASSUME LimitsAssumption ==
    /\ Limits \in [total : Nat, base : Nat, headroom : Nat, sessions : Nat, workers : Nat,
                   candidates : Nat, generations : Nat, auxiliaries : Nat]
    /\ Limits.base + Limits.headroom <= Limits.total
    /\ Capacity \in [Datasource -> [sessions : Nat, candidates : Nat]]
    /\ None \notin Datasource

NoPin == [frame |-> 0, overhead |-> 0]

Entry ==
    [kind : Kind, state : State, ds : Datasource \cup {None}, gen : Token \cup {None},
     worker : WorkerBytes \cup {0}, parent : ParentBytes \cup {0},
     shared : SharedBytes \cup {0}, output : Epoch \cup {0},
     pin : [frame : OutputBytes, overhead : OutputBytes] \cup {NoPin}]

VARIABLES
    epoch,     \* _Image.slots[s].epoch, 0 when the slot was never used
    entry,     \* _Image.slots[s].entry, or None
    closing,   \* _Image.closing
    closed,    \* _Image.closed
    failure,   \* _failure: the two possible images, or None
    owed       \* the tokens the callers hold

image == [epoch |-> epoch, entry |-> entry, closing |-> closing, closed |-> closed]

vars == <<epoch, entry, closing, closed, failure, owed>>

Image == [epoch : [Slot -> Epoch \cup {0}], entry : [Slot -> Entry \cup {None}],
          closing : BOOLEAN, closed : BOOLEAN]

\* None in Python is neither a reservation nor a pair of images.
ASSUME NoneAssumption == None \notin Entry /\ None \notin [old : Image, new : Image]

TypeOK ==
    /\ image \in Image
    /\ failure = None \/ failure \in [old : Image, new : Image]
    /\ owed \subseteq Token

Init ==
    /\ epoch = [s \in Slot |-> 0]
    /\ entry = [s \in Slot |-> None]
    /\ closing = FALSE
    /\ closed = FALSE
    /\ failure = None
    /\ owed = {}

-----------------------------------------------------------------------------
(* Validation: what may be published *)

Of(rows, kind) == {s \in Slot : rows[s] # None /\ rows[s].kind = kind}

Bytes(row) == IF row = None THEN 0 ELSE row.worker + row.parent + row.shared

Used(rows) ==
    Limits.base + Limits.headroom + MapThenSumSet(LAMBDA s : Bytes(rows[s]), Slot)

PinFits(row) ==
    /\ row.pin # NoPin => 2 * row.pin.frame + row.pin.overhead <= row.parent
    /\ row.kind # "SESSION" => row.output = 0 /\ row.pin = NoPin

FitsPlaces(rows) ==
    /\ Cardinality(Of(rows, "SESSION")) <= Limits.sessions
    /\ Cardinality(Of(rows, "SESSION")) <= Limits.workers
    /\ Cardinality(Of(rows, "CANDIDATE")) <= Limits.candidates
    /\ Cardinality(Of(rows, "GENERATION")) <= Limits.generations
    /\ Cardinality(Of(rows, "AUXILIARY")) <= Limits.auxiliaries
    /\ \A d \in Datasource :
        /\ Cardinality({s \in Of(rows, "SESSION") : rows[s].ds = d}) <= Capacity[d].sessions
        /\ Cardinality({s \in Of(rows, "CANDIDATE") : rows[s].ds = d}) <= Capacity[d].candidates

(* _validate: the bytes, the places of each kind and those of each         *)
(* datasource.                                                             *)
Fits(rows) ==
    /\ Used(rows) <= Limits.total
    /\ FitsPlaces(rows)
    /\ \A s \in Slot : rows[s] # None => PinFits(rows[s])

-----------------------------------------------------------------------------
(* Publication: _commit *)

Become(i) ==
    /\ epoch' = i.epoch
    /\ entry' = i.entry
    /\ closing' = i.closing
    /\ closed' = i.closed

(* The new image is written; or the write raises and the old one is        *)
(* restored, which is a refusal; or the restoration raises too, either     *)
(* image may be the current one, and the ledger fails for good.            *)
Commit(new, gains, loses) ==
    /\ Fits(new.entry)
    /\ \/ /\ Become(new)
          /\ owed' = (owed \cup gains) \ loses
          /\ UNCHANGED failure
       \/ /\ Become(image) \/ Become(new)
          /\ failure' = [old |-> image, new |-> new]
          /\ UNCHANGED owed

Usable == failure = None /\ ~closed

Admitting == Usable /\ ~closing

\* Faulty variant of Locate: the epoch of a token is not compared.
LocateBySlot(t) == entry[t[1]] # None

(* _locate: the token's epoch must be the slot's, and the slot occupied. *)
Locate(t) == epoch[t[1]] = t[2] /\ entry[t[1]] # None

Row(t) == entry[t[1]]

With(t, row) == [image EXCEPT !.entry[t[1]] = row]

Replace(t, row) == Commit(With(t, row), {}, {})

Free(s) == entry[s] = None /\ epoch[s] < MaxEpoch

(* _reserve: the first free slot, under its next epoch. *)
Reserve(row) ==
    \E s \in Slot :
        /\ Free(s)
        /\ \A r \in Slot : Free(r) => s <= r
        /\ Commit([image EXCEPT !.epoch[s] = @ + 1, !.entry[s] = row],
                  {<<s, epoch[s] + 1>>}, {})

Reserved(kind, d, gen, worker, parent, shared) ==
    [kind |-> kind, state |-> "RESERVED", ds |-> d, gen |-> gen, worker |-> worker,
     parent |-> parent, shared |-> shared, output |-> 0, pin |-> NoPin]

-----------------------------------------------------------------------------
(* The methods *)

ReserveCandidate(d, shared) ==
    /\ Admitting
    /\ Reserve(Reserved("CANDIDATE", d, None, 0, 0, shared))

ReserveAuxiliary(shared) ==
    /\ Admitting
    /\ Reserve(Reserved("AUXILIARY", None, None, 0, 0, shared))

Publishable(t) ==
    /\ Locate(t)
    /\ Row(t).kind = "CANDIDATE"
    /\ Row(t).state \in {"RESERVED", "LIVE"}

LiveGeneration(rows, d) ==
    {s \in Of(rows, "GENERATION") : rows[s].ds = d /\ rows[s].state = "LIVE"}

(* publish: the candidate's credits become those of the generation; what   *)
(* was reserved before the shutdown may still be published.                *)
Publish(t) ==
    /\ Usable
    /\ Publishable(t)
    /\ LiveGeneration(entry, Row(t).ds) = {}
    /\ Replace(t, [Row(t) EXCEPT !.kind = "GENERATION", !.state = "LIVE"])

(* publish(replacing): the generation it replaces starts to drain in the   *)
(* same publication.                                                       *)
PublishReplacing(t, old) ==
    /\ Usable
    /\ Publishable(t)
    /\ Locate(old)
    /\ Row(old).kind = "GENERATION"
    /\ Row(old).ds = Row(t).ds
    /\ Row(old).state = "LIVE"
    /\ LET drained == [entry EXCEPT ![old[1]].state = "DRAINING"]
       IN  /\ LiveGeneration(drained, Row(t).ds) = {}
           /\ Commit([image EXCEPT !.entry =
                        [drained EXCEPT ![t[1]] =
                            [Row(t) EXCEPT !.kind = "GENERATION", !.state = "LIVE"]]], {}, {})

ReserveSession(g, worker, parent) ==
    /\ Admitting
    /\ Locate(g)
    /\ Row(g).kind = "GENERATION"
    /\ Row(g).state = "LIVE"
    /\ Reserve(Reserved("SESSION", Row(g).ds, g, worker, parent, 0))

(* mark_live, and adopt_session, which is the same for sessions only. *)
MarkLive(t) ==
    /\ Admitting
    /\ Locate(t)
    /\ Row(t).state = "RESERVED"
    /\ Replace(t, [Row(t) EXCEPT !.state = "LIVE"])

BeginDrain(t) ==
    /\ Usable
    /\ Locate(t)
    /\ Row(t).state \notin {"DRAINING", "HELD"}
    /\ Replace(t, [Row(t) EXCEPT !.state = "DRAINING"])

Retain(t) ==
    /\ Usable
    /\ Locate(t)
    /\ Row(t).state # "HELD"
    /\ Replace(t, [Row(t) EXCEPT !.state = "HELD"])

(* begin_output: the result's bytes are pinned inside the session's own. *)
BeginOutput(t, frame, overhead) ==
    /\ Admitting
    /\ Locate(t)
    /\ Row(t).kind = "SESSION"
    /\ Row(t).state = "LIVE"
    /\ Row(t).pin = NoPin
    /\ 2 * frame + overhead <= Row(t).parent
    /\ Row(t).output < MaxEpoch
    /\ Replace(t, [Row(t) EXCEPT !.output = @ + 1,
                                 !.pin = [frame |-> frame, overhead |-> overhead]])

(* end_output, with the pin of that epoch: cleared once the output is      *)
(* discarded; draining goes with it, and never undoes HELD.                *)
EndOutput(t, o, discarded, drain) ==
    /\ Usable
    /\ Locate(t)
    /\ Row(t).kind = "SESSION"
    /\ Row(t).output = o
    /\ Row(t).pin # NoPin
    /\ LET state == IF drain /\ Row(t).state # "HELD" THEN "DRAINING" ELSE Row(t).state
       IN  /\ discarded \/ state # Row(t).state
           /\ Replace(t, [Row(t) EXCEPT !.state = state,
                                        !.pin = IF discarded THEN NoPin ELSE @])

Referenced(t) ==
    /\ Row(t).kind = "GENERATION"
    /\ \E s \in Of(entry, "SESSION") : entry[s].gen = t

Releasable(t) == ~Referenced(t) /\ Row(t).pin = NoPin

(* release: freed with a complete confirmation, when nothing refers to it  *)
(* and nothing is pinned; held otherwise.  Allowed while closing and after. *)
Release(t, complete) ==
    /\ failure = None
    /\ Locate(t)
    /\ Row(t).state \in {"DRAINING", "HELD"}
    /\ IF complete /\ Releasable(t)
       THEN Commit(With(t, None), {}, {t})
       ELSE /\ Row(t).state # "HELD"
            /\ Replace(t, [Row(t) EXCEPT !.state = "HELD"])

BeginShutdown ==
    /\ failure = None
    /\ ~closing
    /\ Commit([image EXCEPT !.closing = TRUE], {}, {})

FinishShutdown ==
    /\ failure = None
    /\ closing
    /\ \A s \in Slot : entry[s] = None
    /\ ~closed
    /\ Commit([image EXCEPT !.closed = TRUE], {}, {})

Next ==
    \/ \E d \in Datasource, b \in SharedBytes : ReserveCandidate(d, b)
    \/ \E b \in SharedBytes : ReserveAuxiliary(b)
    \/ \E t \in Token :
        \/ Publish(t)
        \/ \E old \in Token : PublishReplacing(t, old)
        \/ \E w \in WorkerBytes, p \in ParentBytes : ReserveSession(t, w, p)
        \/ MarkLive(t)
        \/ BeginDrain(t)
        \/ Retain(t)
        \/ \E f, o \in OutputBytes : BeginOutput(t, f, o)
        \/ \E o \in Epoch, discarded \in BOOLEAN, drain \in BOOLEAN :
                EndOutput(t, o, discarded, drain)
        \/ \E complete \in BOOLEAN : Release(t, complete)
    \/ BeginShutdown
    \/ FinishShutdown

Spec == Init /\ [][Next]_vars

-----------------------------------------------------------------------------
(* Properties *)

(***************************************************************************)
(* The credits are exactly those owed to the holders of tokens: no token,  *)
(* stale or released twice, frees or keeps the credits of another.         *)
(***************************************************************************)
CreditsAreOwed ==
    failure = None => owed = {<<s, epoch[s]>> : s \in {r \in Slot : entry[r] # None}}

(***************************************************************************)
(* Whatever image is current, or may be after a failed restoration, stays  *)
(* within the bytes and places of the ledger.                              *)
(***************************************************************************)
WithinLimits ==
    \A rows \in {entry} \cup (IF failure = None THEN {} ELSE {failure.old.entry, failure.new.entry}) :
        /\ Used(rows) <= Limits.total
        /\ FitsPlaces(rows)

(***************************************************************************)
(* A session's generation outlives it: the slot and epoch it refers to     *)
(* still hold that generation, of the session's datasource, through        *)
(* replacement, draining, retention and partial cleanup.                   *)
(***************************************************************************)
GenerationOutlivesSessions ==
    \A s \in Of(entry, "SESSION") :
        LET g == entry[s].gen
        IN  /\ g \in Token
            /\ epoch[g[1]] = g[2]
            /\ entry[g[1]] # None
            /\ entry[g[1]].kind = "GENERATION"
            /\ entry[g[1]].ds = entry[s].ds

(***************************************************************************)
(* A datasource has at most one live generation: the one new sessions are  *)
(* admitted to.                                                            *)
(***************************************************************************)
OneLiveGeneration ==
    \A r, s \in Of(entry, "GENERATION") :
        (entry[r].ds = entry[s].ds /\ entry[r].state = "LIVE" /\ entry[s].state = "LIVE")
            => r = s

(***************************************************************************)
(* The ledger is sound, over any sequence of calls with any tokens: no     *)
(* credit is lost or given twice, none beyond the totals, and what the     *)
(* sessions refer to is kept (_validate, _locate, release).                *)
(***************************************************************************)
CreditsSound ==
    /\ CreditsAreOwed
    /\ WithinLimits
    /\ GenerationOutlivesSessions
    /\ OneLiveGeneration
=============================================================================
