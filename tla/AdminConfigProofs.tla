------------------------- MODULE AdminConfigProofs -------------------------
(***************************************************************************)
(* For any number of queries, clients, revisions, edits and crashes, the   *)
(* configuration is sound and no change is lost; for any number of         *)
(* processes, its directory is kept; and the entry point is sound,         *)
(* whatever is replaced under it.                                          *)
(***************************************************************************)
EXTENDS MCAdminConfig, Sequences, FiniteSetTheorems, TLAPS

Serves == phase \in {"up", "closing"}

(* The queries that hold a reference of runtime r. *)
Users(r) == {q \in Query : using[q] = r /\ pc[q] \in Registry!Holding}

(* The registry counts its users, who use the published runtime or a       *)
(* retired one; what is retired or closed is older than what is published. *)
CountInv ==
    /\ \A r \in Revision : refcount[r] = Cardinality(Users(r))
    /\ \A q \in Query : pc[q] \in Registry!Holding => using[q] \in {current} \cup retired

OrderInv ==
    /\ retired \cap closed = {}
    /\ \A r \in retired : r < current
    /\ \A r \in closed : r <= current
    /\ phase # "closed" => current \notin closed

(* Where the process is. *)
PhaseInv ==
    /\ Serves => current # Registry!NoRuntime
    /\ phase = "down" => /\ current = Registry!NoRuntime
                         /\ retired = {} /\ closed = {} /\ connected = {} /\ toClose = {}
    /\ phase = "closed" => \A q \in Query : pc[q] = "idle"
    /\ critical # Nobody => Serves

(* Steps of the operation before and after its point of no return. *)
Before == {"checked", "backup", "initial", "temp", "prereplace", "replace"}
After == {"sync", "publish"}

(* The operation's document follows the published one, its place among the *)
(* retired runtimes is kept, and its durability is that of the file.       *)
OperationInv ==
    /\ step \in Before \cup After =>
        /\ op # NoOp
        /\ op.next.rev = current + 1
        /\ Registry!CanSwap
    /\ step = "closing" => op # NoOp /\ document = op.next
    /\ step # "closing" /\ phase # "closed" => toClose = {}
    /\ (op # NoOp /\ op.durable) =>
        step \in {"publish", "closing"}

(* What the file holds when nobody edits it. *)
FileInv ==
    /\ file \in survivors
    /\ Serves =>
        /\ reference = document
        /\ document \in Document
        /\ document.rev = current
        /\ edits = 0 => file = IF step \in After THEN op.next ELSE document

(* d is e, or has an earlier number. *)
NotAfter(d, e) == d.rev <= e.rev /\ (d.rev = e.rev => d = e)

(* While nobody edits the file without raising its number: the file holds  *)
(* what was published or replaced, or something newer, and so does all     *)
(* that may come back once it was synced; what was answered as applied is  *)
(* not newer than what is published.                                       *)
NumberInv ==
    ~renumbered =>
        /\ Serves => NotAfter(document, file)
        /\ step \in After => NotAfter(op.next, file)
        /\ (op # NoOp /\ op.durable) => \A d \in survivors : d.rev >= op.next.rev
        /\ Serves => \A a \in Admin :
                answer[a].outcome = "applied" => answer[a].rev <= document.rev

(* What a client saw is not newer than the file and what is published, and *)
(* the same at the same revision; the client of the operation saw what the *)
(* operation replaces.                                                     *)
SeenInv ==
    ~undone /\ ~renumbered =>
        /\ \A a \in Admin : seen[a] # NoDocument =>
            NotAfter(seen[a], file) /\ (Serves => NotAfter(seen[a], document))
        /\ step \in Before \cup After => seen[critical] = document

WindowInv == step = "replace" => file = reference \/ raced

(* What only the runtimes, their queries and the phase are part of. *)
RuntimeInv ==
    /\ Registry!TypeOK
    /\ CountInv /\ OrderInv /\ PhaseInv
    /\ NeverClosedInUse

IInv ==
    /\ TypeOK
    /\ RuntimeInv
    /\ OperationInv /\ FileInv /\ NumberInv /\ SeenInv /\ WindowInv
    /\ AppliedSurvives /\ CandidateNeverLeaked

-----------------------------------------------------------------------------
(* Counting *)

LEMMA UsersFinite ==
    \A r : IsFiniteSet(Users(r)) /\ Cardinality(Users(r)) \in Nat
<1>1. \A r : Users(r) \subseteq Query
  BY DEF Users
<1> QED
  BY <1>1, QueryAssumption, FS_Subset, FS_CardinalityType

\* A runtime nobody counts on has no user.
LEMMA Unused ==
    ASSUME CountInv, NEW r \in Revision, refcount[r] = 0
    PROVE  \A q \in Query : pc[q] \in Registry!Holding => using[q] # r
<1>1. Users(r) = {}
  BY UsersFinite, FS_EmptySet DEF CountInv
<1> QED
  BY <1>1 DEF Users

\* The only user of a runtime counted once.
LEMMA LastUser ==
    ASSUME CountInv, NEW q \in Query, pc[q] \in Registry!Holding,
           using[q] \in Revision, refcount[using[q]] = 1
    PROVE  \A p \in Query : (pc[p] \in Registry!Holding /\ using[p] = using[q]) => p = q
<1>1. Cardinality(Users(using[q])) = 1 /\ q \in Users(using[q])
  BY DEF CountInv, Users
<1>2. PICK x : Users(using[q]) = {x}
  BY <1>1, UsersFinite, FS_Singleton
<1> QED
  BY <1>1, <1>2 DEF Users

\* The registry counts what it retired as FiniteSets does.
LEMMA RegistryCounts ==
    \A S : Registry!Cardinality(S) = Cardinality(S)
  BY DEF Registry!Cardinality, Cardinality

\* What is retired is finite, and less of it leaves room for a swap.
LEMMA RoomStays ==
    ASSUME retired \subseteq Revision, retired' \subseteq retired, Registry!CanSwap
    PROVE  Registry!CanSwap'
<1>1. IsFiniteSet(Revision)
  BY RevisionAssumption, FS_Interval DEF Revision, Registry!Revision
<1>2. IsFiniteSet(retired) /\ Cardinality(retired) \in Nat
  BY <1>1, FS_Subset, FS_CardinalityType
<1>3. Cardinality(retired') <= Cardinality(retired) /\ Cardinality(retired') \in Nat
  BY <1>2, FS_Subset, FS_CardinalityType
<1> QED
  BY <1>2, <1>3, RegistryCounts, RetiredAssumption DEF Registry!CanSwap

-----------------------------------------------------------------------------
(* The steps of a query *)

Elsewhere == UNCHANGED <<phase, memory, disk, clients, history>>

\* What a step of a query leaves to the operation.
QueryEffect ==
    /\ RuntimeInv'
    /\ CandidateNeverLeaked'
    /\ current' = current /\ retired' \subseteq retired /\ toClose' = toClose

\* A query that moves between the steps that hold its runtime.
LEMMA MoveKeeps ==
    ASSUME RuntimeInv, CandidateNeverLeaked, Elsewhere, Serves, NEW q \in Query,
           NEW from \in Registry!Holding, NEW to \in Registry!Holding,
           Registry!Move(q, from, to),
           connected' \subseteq connected \cup {using[q]},
           connLock' \in [Revision -> Query \cup {Nobody}],
           UNCHANGED <<current, retired, closed, refcount, using, toClose>>
    PROVE  QueryEffect
<1>1. pc[q] = from /\ pc' = [pc EXCEPT ![q] = to] /\ from # "idle" /\ to # "idle"
  BY DEF Registry!Move, Registry!Holding, Registry!InLock
<1>2. using[q] \in Revision /\ using[q] \in {current} \cup retired
  BY <1>1 DEF RuntimeInv, CountInv, Registry!TypeOK, Revision
<1>3. Registry!TypeOK'
  BY <1>1, <1>2 DEF RuntimeInv, Registry!TypeOK, Registry!States, Revision
<1>4. \A r : Users(r)' = Users(r)
  BY <1>1 DEF Users, RuntimeInv, Registry!TypeOK
<1>5. CountInv'
  BY <1>1, <1>4 DEF CountInv, RuntimeInv, Registry!TypeOK, Revision
<1>6. OrderInv' /\ PhaseInv'
  BY <1>1 DEF RuntimeInv, OrderInv, PhaseInv, Serves, Elsewhere, memory
<1>7. NeverClosedInUse'
  BY <1>1 DEF RuntimeInv, NeverClosedInUse, Registry!NeverClosedInUse, Registry!TypeOK
<1>8. CandidateNeverLeaked'
  <2>1. {p \in Query : pc'[p] = "closing"} = {p \in Query : pc[p] = "closing"}
    BY <1>1 DEF RuntimeInv, Registry!TypeOK, Registry!Holding, Registry!InLock
  <2> QED
    BY <1>2, <2>1 DEF CandidateNeverLeaked, Elsewhere, memory
<1> QED
  BY <1>3, <1>5, <1>6, <1>7, <1>8 DEF QueryEffect, RuntimeInv

LEMMA AcquireKeeps ==
    ASSUME RuntimeInv, CandidateNeverLeaked, Elsewhere, Serves, NEW q \in Query,
           Registry!Acquire(q)
    PROVE  QueryEffect
<1>1. /\ pc[q] = "idle" /\ current \in Revision
      /\ refcount' = [refcount EXCEPT ![current] = @ + 1]
      /\ using' = [using EXCEPT ![q] = current]
      /\ pc' = [pc EXCEPT ![q] = "acquired"]
      /\ UNCHANGED <<current, retired, closed, connected, connLock, toClose>>
  BY DEF RuntimeInv, Registry!TypeOK, Registry!Acquire, Revision
<1>2. Registry!TypeOK'
  <2>1. current # Registry!NoRuntime
    BY DEF Registry!Acquire
  <2> QED
    BY <1>1, <2>1 DEF RuntimeInv, Registry!TypeOK, Registry!States, Registry!Holding, Revision
<1>3. "acquired" \in Registry!Holding /\ "idle" \notin Registry!Holding
  BY DEF Registry!Holding, Registry!InLock
<1>4. /\ Users(current)' = Users(current) \cup {q} /\ q \notin Users(current)
      /\ \A r \in Revision \ {current} : Users(r)' = Users(r)
  <2>1. \A p \in Query \ {q} : pc'[p] = pc[p] /\ using'[p] = using[p]
    BY <1>1 DEF RuntimeInv, Registry!TypeOK
  <2>2. pc'[q] = "acquired" /\ using'[q] = current
    BY <1>1 DEF RuntimeInv, Registry!TypeOK
  <2> QED
    BY <1>1, <1>3, <2>1, <2>2 DEF Users
<1>5. CountInv'
  <2>1. refcount'[current] = Cardinality(Users(current)')
    <3>1. Cardinality(Users(current)') = Cardinality(Users(current)) + 1
      BY <1>4, UsersFinite, FS_AddElement
    <3> QED
      BY <1>1, <3>1 DEF RuntimeInv, CountInv, Registry!TypeOK, Revision
  <2>2. \A r \in Revision \ {current} : refcount'[r] = Cardinality(Users(r)')
    BY <1>1, <1>4 DEF RuntimeInv, CountInv, Registry!TypeOK, Revision
  <2>3. \A r \in Revision : refcount'[r] = Cardinality(Users(r)')
    <3> TAKE r \in Revision
    <3>1. CASE r = current
      <4>1. Users(r)' = Users(current)'
        BY <1>1, <3>1 DEF Users
      <4> QED
        BY <2>1, <3>1, <4>1
    <3> QED
      BY <2>2, <3>1
  <2>4. \A p \in Query : pc'[p] \in Registry!Holding => using'[p] \in {current'} \cup retired'
    BY <1>1 DEF RuntimeInv, CountInv, Registry!TypeOK
  <2> QED
    BY <2>3, <2>4 DEF CountInv
<1>6. OrderInv' /\ PhaseInv'
  BY <1>1 DEF RuntimeInv, OrderInv, PhaseInv, Serves, Elsewhere, memory
<1>7. NeverClosedInUse'
  BY <1>1 DEF RuntimeInv, NeverClosedInUse, Registry!NeverClosedInUse, Registry!TypeOK,
     Registry!Acquire
<1>8. CandidateNeverLeaked'
  <2>1. /\ {p \in Query : pc'[p] = "closing"} = {p \in Query : pc[p] = "closing"}
        /\ \A p \in Query : pc[p] = "closing" => using'[p] = using[p]
    BY <1>1 DEF RuntimeInv, Registry!TypeOK
  <2> QED
    BY <1>1, <2>1 DEF CandidateNeverLeaked, Elsewhere, memory
<1> QED
  BY <1>1, <1>2, <1>5, <1>6, <1>7, <1>8 DEF QueryEffect, RuntimeInv

LEMMA ReleaseKeeps ==
    ASSUME RuntimeInv, CandidateNeverLeaked, Elsewhere, Serves, NEW q \in Query,
           Registry!Release(q)
    PROVE  QueryEffect
<1>0. PICK r \in Revision : r = using[q]
  BY DEF RuntimeInv, Registry!TypeOK, Registry!Release, Revision
<1> DEFINE last == r \in retired /\ refcount[r] - 1 = 0 /\ r \notin closed
<1>1. /\ pc[q] = "leaving" /\ r \in Revision /\ r # Registry!NoRuntime
      /\ refcount[r] \in Nat /\ refcount[r] > 0
      /\ refcount' = [refcount EXCEPT ![r] = refcount[r] - 1]
      /\ UNCHANGED <<current, connected, connLock, toClose>>
  BY <1>0 DEF RuntimeInv, Registry!TypeOK, Registry!Release, Revision
<1>2. last => /\ closed' = closed \cup {r} /\ retired' = retired \ {r}
              /\ pc' = [pc EXCEPT ![q] = "closing"] /\ using' = using
  BY <1>0 DEF Registry!Release, Registry!Closable
<1>3. ~last => /\ closed' = closed /\ retired' = retired
               /\ pc' = [pc EXCEPT ![q] = "idle"]
               /\ using' = [using EXCEPT ![q] = Registry!NoRuntime]
  BY <1>0 DEF Registry!Release, Registry!Closable
<1>4. /\ "leaving" \in Registry!Holding
      /\ "idle" \notin Registry!Holding /\ "closing" \notin Registry!Holding
  BY DEF Registry!Holding, Registry!InLock
<1>5. /\ \A p \in Query \ {q} : pc'[p] = pc[p] /\ using'[p] = using[p]
      /\ pc'[q] \notin Registry!Holding
      /\ pc'[q] = IF last THEN "closing" ELSE "idle"
      /\ using'[q] = IF last THEN r ELSE Registry!NoRuntime
  BY <1>0, <1>2, <1>3, <1>4 DEF RuntimeInv, Registry!TypeOK
<1>6. r \in {current} \cup retired /\ q \in Users(r)
  BY <1>0, <1>1, <1>4 DEF RuntimeInv, CountInv, Users
<1>7. Registry!TypeOK'
  <2>1. refcount' \in [Revision -> Nat] /\ closed' \subseteq Revision /\ retired' \subseteq Revision
    BY <1>1, <1>2, <1>3 DEF RuntimeInv, Registry!TypeOK, Revision
  <2>2. pc' \in [Query -> Registry!States]
    BY <1>2, <1>3 DEF RuntimeInv, Registry!TypeOK, Registry!States
  <2>3. using' \in [Query -> Revision \cup {Registry!NoRuntime}]
    BY <1>2, <1>3 DEF RuntimeInv, Registry!TypeOK, Revision
  <2>4. \A p \in Query : pc'[p] = "idle" <=> using'[p] = Registry!NoRuntime
    BY <1>1, <1>5 DEF RuntimeInv, Registry!TypeOK
  <2> QED
    BY <1>1, <2>1, <2>2, <2>3, <2>4 DEF RuntimeInv, Registry!TypeOK, Revision
<1>8. /\ Users(r)' = Users(r) \ {q}
      /\ \A v \in Revision \ {r} : Users(v)' = Users(v)
  BY <1>0, <1>4, <1>5, <1>6 DEF Users
<1>9. last => \A p \in Query \ {q} : pc[p] \in Registry!Holding => using[p] # r
  BY <1>0, <1>1, <1>4, LastUser DEF RuntimeInv
<1>10. CountInv'
  <2>1. Cardinality(Users(r) \ {q}) = Cardinality(Users(r)) - 1
    BY <1>6, UsersFinite, FS_RemoveElement
  <2>2. \A v \in Revision : refcount'[v] = Cardinality(Users(v)')
    <3> TAKE v \in Revision
    <3>1. CASE v = r
      <4>1. Users(v)' = Users(r) \ {q} /\ refcount'[v] = refcount[r] - 1
        BY <1>1, <1>8, <3>1 DEF RuntimeInv, Registry!TypeOK, Revision, Users
      <4> QED
        BY <1>1, <2>1, <4>1 DEF RuntimeInv, CountInv
    <3>2. CASE v # r
      BY <1>1, <1>8, <3>2 DEF RuntimeInv, CountInv, Registry!TypeOK, Revision
    <3> QED
      BY <3>1, <3>2
  <2>3. \A p \in Query : pc'[p] \in Registry!Holding => using'[p] \in {current'} \cup retired'
    BY <1>1, <1>2, <1>3, <1>5, <1>9 DEF RuntimeInv, CountInv
  <2> QED
    BY <2>2, <2>3 DEF CountInv
<1>11. OrderInv' /\ PhaseInv'
  <2>1. last => r < current
    BY DEF RuntimeInv, OrderInv
  <2>2. current \in Int /\ r \in Int
    BY <1>1, RevisionAssumption
       DEF RuntimeInv, Registry!TypeOK, Registry!Revision, Registry!NoRuntime, Revision
  <2>3. OrderInv'
    BY <1>1, <1>2, <1>3, <2>1, <2>2 DEF RuntimeInv, OrderInv, Elsewhere
  <2>4. PhaseInv'
    BY <1>1 DEF RuntimeInv, PhaseInv, Serves, Elsewhere, memory
  <2> QED
    BY <2>3, <2>4
<1>12. NeverClosedInUse'
  BY <1>2, <1>3, <1>5, <1>9 DEF RuntimeInv, NeverClosedInUse, Registry!NeverClosedInUse
<1>13. CandidateNeverLeaked'
  <2>1. \A p \in Query : pc[p] = "closing" => pc'[p] = "closing" /\ using'[p] = using[p]
    BY <1>1, <1>5
  <2> QED
    BY <1>1, <1>2, <1>3, <1>5, <2>1 DEF CandidateNeverLeaked, Elsewhere, memory
<1> QED
  BY <1>1, <1>2, <1>3, <1>7, <1>10, <1>11, <1>12, <1>13 DEF QueryEffect, RuntimeInv

LEMMA CloseAdapterKeeps ==
    ASSUME RuntimeInv, CandidateNeverLeaked, Elsewhere, Serves, NEW q \in Query,
           Registry!CloseAdapter(q)
    PROVE  QueryEffect
<1>1. /\ pc[q] = "closing" /\ pc' = [pc EXCEPT ![q] = "idle"]
      /\ connected' = connected \ {using[q]}
      /\ using' = [using EXCEPT ![q] = Registry!NoRuntime]
      /\ UNCHANGED <<current, retired, closed, refcount, connLock, toClose>>
  BY DEF Registry!CloseAdapter, Registry!Move, Registry!registryVars
<1>2. /\ \A p \in Query \ {q} : pc'[p] = pc[p] /\ using'[p] = using[p]
      /\ pc'[q] = "idle" /\ using'[q] = Registry!NoRuntime
      /\ "idle" \notin Registry!Holding /\ "closing" \notin Registry!Holding
  BY <1>1 DEF RuntimeInv, Registry!TypeOK, Registry!Holding, Registry!InLock
<1>3. Registry!TypeOK'
  BY <1>1, <1>2 DEF RuntimeInv, Registry!TypeOK, Registry!States
<1>4. \A r : Users(r)' = Users(r)
  BY <1>1, <1>2 DEF Users
<1>5. CountInv'
  BY <1>1, <1>2, <1>4 DEF RuntimeInv, CountInv
<1>6. OrderInv' /\ PhaseInv'
  BY <1>1 DEF RuntimeInv, OrderInv, PhaseInv, Serves, Elsewhere, memory
<1>7. NeverClosedInUse'
  BY <1>1, <1>2 DEF RuntimeInv, NeverClosedInUse, Registry!NeverClosedInUse
<1>8. CandidateNeverLeaked'
  BY <1>1, <1>2 DEF CandidateNeverLeaked, Elsewhere, memory
<1> QED
  BY <1>1, <1>3, <1>5, <1>6, <1>7, <1>8 DEF QueryEffect, RuntimeInv

LEMMA QueryEffects ==
    ASSUME RuntimeInv, CandidateNeverLeaked, NEW q \in Query, QueryStep(q)
    PROVE  Elsewhere /\ Serves /\ QueryEffect
<1>1. Elsewhere /\ Serves /\ Registry!QueryStep(q)
  BY DEF QueryStep, Elsewhere, Serves
<1>2. using[q] \in Revision \cup {Registry!NoRuntime} /\ connLock \in [Revision -> Query \cup {Nobody}]
  BY DEF RuntimeInv, Registry!TypeOK, Revision
<1>3. \A r : [connLock EXCEPT ![r] = q] \in [Revision -> Query \cup {Nobody}]
             /\ [connLock EXCEPT ![r] = Nobody] \in [Revision -> Query \cup {Nobody}]
  BY <1>2
<1> USE DEF Registry!Holding, Registry!InLock, Registry!registryVars
<1>4. CASE Registry!Acquire(q)
  BY <1>1, <1>4, AcquireKeeps
<1>5. CASE Registry!LockConnection(q)
  BY <1>1, <1>3, <1>5, MoveKeeps DEF Registry!LockConnection
<1>6. CASE Registry!Connect(q)
  BY <1>1, <1>2, <1>6, MoveKeeps DEF Registry!Connect
<1>7. CASE Registry!ConnectFails(q)
  BY <1>1, <1>3, <1>7, MoveKeeps DEF Registry!ConnectFails, Registry!Unlock
<1>8. CASE Registry!Execute(q)
  BY <1>1, <1>2, <1>8, MoveKeeps DEF Registry!Execute
<1>9. CASE Registry!Finish(q)
  BY <1>1, <1>3, <1>9, MoveKeeps DEF Registry!Finish, Registry!Unlock
<1>10. CASE Registry!Release(q)
  BY <1>1, <1>10, ReleaseKeeps
<1>11. CASE Registry!CloseAdapter(q)
  BY <1>1, <1>11, CloseAdapterKeeps
<1> QED
  BY <1>1, <1>4, <1>5, <1>6, <1>7, <1>8, <1>9, <1>10, <1>11 DEF Registry!QueryStep

LEMMA QueryKeeps ==
    ASSUME IInv, NEW q \in Query, QueryStep(q)
    PROVE  IInv'
<1>1. RuntimeInv /\ CandidateNeverLeaked /\ TypeOK /\ retired \subseteq Revision
  BY DEF IInv, RuntimeInv, Registry!TypeOK, Revision
<1>2. Elsewhere /\ QueryEffect
  BY <1>1, QueryEffects
<1>3. /\ UNCHANGED <<phase, file, survivors, temp, backup, document, reference, critical,
                     step, op, seen, answer, edits, crashes, raced, undone, renumbered>>
      /\ current' = current /\ retired' \subseteq retired /\ toClose' = toClose
  BY <1>2 DEF Elsewhere, QueryEffect, memory, disk, clients, history
<1>4. TypeOK'
  BY <1>1, <1>2, <1>3 DEF TypeOK, QueryEffect, RuntimeInv
<1>5. OperationInv'
  <2>1. Registry!CanSwap => Registry!CanSwap'
    BY <1>1, <1>3, RoomStays
  <2> QED
    BY <1>3, <2>1 DEF IInv, OperationInv
<1>6. FileInv' /\ NumberInv' /\ SeenInv' /\ WindowInv' /\ AppliedSurvives'
  BY <1>3 DEF IInv, FileInv, NumberInv, NotAfter, SeenInv, WindowInv, AppliedSurvives, Serves
<1> QED
  BY <1>2, <1>4, <1>5, <1>6 DEF IInv, QueryEffect

-----------------------------------------------------------------------------
(* Documents and operations *)

Operations == [kind : Kinds, next : Document, durable : BOOLEAN]

LEMMA Revisions ==
    /\ Revision \subseteq Nat
    /\ \A d \in Document : d.rev \in Revision /\ d.rev \in Nat /\ d # NoDocument
    /\ \A a \in Admin, r \in Revision : [rev |-> r, by |-> a] \in Document
    /\ \A r \in Revision : [rev |-> r, by |-> Editor] \in Document
    /\ \A o \in Operations : o # NoOp /\ o.next \in Document /\ o.durable \in BOOLEAN
<1>1. Revision \subseteq Nat
  BY RevisionAssumption DEF Revision, Registry!Revision
<1>2. \A d \in Document : d.rev \in Revision
  BY DEF Document
<1>3. \A o \in Operations : o.kind \in Kinds /\ o.next \in Document /\ o.durable \in BOOLEAN
  BY DEF Operations
<1>4. NoDocument.rev = -1 /\ NoOp.kind = "none" /\ "none" \notin Kinds
  BY DEF NoDocument, NoOp, Kinds
<1>5. \A d \in Document : d.rev \in Nat /\ d # NoDocument
  <2> TAKE d \in Document
  <2>1. d.rev \in Nat
    BY <1>1, <1>2
  <2>2. d.rev # -1
    BY <2>1
  <2> QED
    BY <1>4, <2>1, <2>2
<1>6. \A o \in Operations : o # NoOp
  BY <1>3, <1>4
<1>7. /\ \A a \in Admin, r \in Revision : [rev |-> r, by |-> a] \in Document
      /\ \A r \in Revision : [rev |-> r, by |-> Editor] \in Document
  BY DEF Document
<1> QED
  BY <1>1, <1>2, <1>3, <1>5, <1>6, <1>7

\* What is known of the state when the operation is at a step of its own.
LEMMA AtWork ==
    ASSUME IInv, step # "free"
    PROVE  /\ critical \in Admin /\ critical # Nobody /\ Serves
           /\ op \in Operations /\ op # NoOp /\ op.next \in Document
           /\ op.durable \in BOOLEAN
           /\ current \in Revision /\ current \in Nat
           /\ document \in Document /\ document.rev = current /\ reference = document
           /\ step # "closing" => op.next.rev = current + 1 /\ Registry!CanSwap
           /\ step = "closing" => document = op.next
           /\ step # "closing" => toClose = {}
<1>1. critical \in Admin /\ critical # Nobody
  BY NobodyAssumption DEF IInv, TypeOK
<1>2. Serves
  BY <1>1 DEF IInv, RuntimeInv, PhaseInv
<1>3. op # NoOp /\ (step = "closing" \/ step \in Before \cup After)
  BY DEF IInv, TypeOK, OperationInv, Steps, Holding, Before, After
<1>4. op \in Operations
  BY <1>3 DEF IInv, TypeOK, Operations
<1>5. document \in Document /\ document.rev = current /\ reference = document
  BY <1>2 DEF IInv, FileInv
<1>6. phase # "closed"
  BY <1>2 DEF Serves
<1> QED
  BY <1>1, <1>2, <1>3, <1>4, <1>5, <1>6, Revisions DEF IInv, OperationInv

\* A step that touches neither the runtimes nor the queries, connections apart.
LEMMA SameRuntimes ==
    ASSUME RuntimeInv,
           UNCHANGED <<current, retired, closed, refcount, connLock, pc, using, toClose>>,
           connected' = connected \/ (connected' \subseteq Revision /\ phase # "down"),
           phase' = phase \/ (phase = "up" /\ phase' = "closing"),
           critical' # Nobody => Serves'
    PROVE  RuntimeInv'
<1>1. Registry!TypeOK' /\ NeverClosedInUse'
  BY DEF RuntimeInv, Registry!TypeOK, NeverClosedInUse, Registry!NeverClosedInUse, Revision
<1>2. CountInv'
  BY DEF RuntimeInv, CountInv, Users
<1>3. OrderInv'
  BY DEF RuntimeInv, OrderInv
<1>4. PhaseInv'
  BY DEF RuntimeInv, PhaseInv, Serves
<1> QED
  BY <1>1, <1>2, <1>3, <1>4 DEF RuntimeInv

-----------------------------------------------------------------------------
(* Reading and entering *)

LEMMA InitInvariant == Init => IInv
<1> SUFFICES ASSUME Init
             PROVE  IInv
  OBVIOUS
<1> USE DEF Init
<1>1. Registry!TypeOK
  BY DEF Registry!Init, Registry!TypeOK, Registry!States
<1>2. CountInv
  <2>1. \A r : Users(r) = {}
    BY DEF Registry!Init, Users, Registry!Holding, Registry!InLock
  <2> QED
    BY <2>1, FS_EmptySet
       DEF CountInv, Registry!Init, Revision, Registry!Holding, Registry!InLock
<1>3. OrderInv /\ PhaseInv /\ NeverClosedInUse
  BY DEF Registry!Init, OrderInv, PhaseInv, Serves, NeverClosedInUse, Registry!NeverClosedInUse
<1>4. TypeOK
  <2>1. file \in Document
    BY RevisionAssumption DEF Document, Revision, Registry!Revision
  <2>2. edits \in 0 .. MaxEdits /\ crashes \in 0 .. MaxCrashes
    BY BoundsAssumption
  <2>3. NoAnswer \in [outcome : {"none", "applied", "undurable", "refused"},
                      rev : Revision \cup {-1}]
    BY DEF NoAnswer
  <2>4. answer \in [Admin -> [outcome : {"none", "applied", "undurable", "refused"},
                              rev : Revision \cup {-1}]]
    BY <2>3
  <2> QED
    BY <1>1, <2>1, <2>2, <2>4 DEF TypeOK, Steps
<1>5. OperationInv /\ FileInv /\ NumberInv /\ SeenInv /\ WindowInv
  BY DEF Registry!Init, OperationInv, FileInv, NumberInv, NotAfter, SeenInv, WindowInv, Before, After, Serves
<1>6. AppliedSurvives /\ CandidateNeverLeaked
  BY DEF Registry!Init, AppliedSurvives, CandidateNeverLeaked, NoAnswer
<1> QED
  BY <1>1, <1>2, <1>3, <1>4, <1>5, <1>6 DEF IInv, RuntimeInv

LEMMA SnapshotKeeps ==
    ASSUME IInv, NEW a \in Admin, Snapshot(a)
    PROVE  IInv'
<1>1. /\ Serves /\ critical # a /\ seen' = [seen EXCEPT ![a] = document]
      /\ UNCHANGED <<runtimes, phase, file, survivors, temp, backup, document, reference,
                     critical, step, op, answer, edits, crashes, raced, undone, renumbered>>
  BY DEF Snapshot, Serves, memory, disk, history
<1>2. UNCHANGED <<current, retired, closed, refcount, connected, connLock, pc, using, toClose>>
  BY <1>1 DEF runtimes
<1>3. RuntimeInv'
  BY <1>1, <1>2, SameRuntimes DEF IInv, RuntimeInv, PhaseInv, Serves
<1>4. document \in Document /\ document.rev = current
  BY <1>1 DEF IInv, FileInv
<1>5. TypeOK'
  BY <1>1, <1>3, <1>4 DEF IInv, TypeOK, RuntimeInv
<1>6. OperationInv' /\ FileInv' /\ WindowInv' /\ AppliedSurvives' /\ CandidateNeverLeaked'
  BY <1>1, <1>2 DEF IInv, OperationInv, FileInv, WindowInv, AppliedSurvives,
     CandidateNeverLeaked, Serves, Registry!CanSwap
<1>7. SeenInv'
  <2> SUFFICES ASSUME ~undone, ~renumbered
               PROVE  SeenInv'
    BY <1>1 DEF SeenInv
  <2>1. NotAfter(document, file)
    BY <1>1 DEF IInv, NumberInv
  <2>2. NotAfter(document, document)
    BY <1>4, Revisions DEF NotAfter
  <2>3. \A b \in Admin : seen'[b] = IF b = a THEN document ELSE seen[b]
    BY <1>1 DEF IInv, TypeOK
  <2>4. \A b \in Admin : seen'[b] # NoDocument =>
            NotAfter(seen'[b], file) /\ NotAfter(seen'[b], document)
    BY <1>1, <2>1, <2>2, <2>3 DEF IInv, SeenInv
  <2>5. step \in Before \cup After => seen'[critical] = document
    BY <1>1, <2>3, AtWork DEF IInv, SeenInv, Before, After
  <2> QED
    BY <1>1, <2>4, <2>5 DEF SeenInv, NotAfter
<1>8. NumberInv'
  BY <1>1 DEF IInv, NumberInv, NotAfter, Serves
<1> QED
  BY <1>3, <1>5, <1>6, <1>7, <1>8 DEF IInv

LEMMA ApplyKeeps ==
    ASSUME IInv, NEW a \in Admin, NEW kind \in Kinds, Apply(a, kind)
    PROVE  IInv'
<1>1. /\ Serves /\ critical = Nobody /\ seen[a] # NoDocument /\ current < MaxRevision
      /\ UNCHANGED <<runtimes, phase, file, survivors, temp, backup, document, reference,
                     seen, edits, crashes, raced, undone, renumbered>>
  BY DEF Apply, Serves, disk, history
<1>2. UNCHANGED <<current, retired, closed, refcount, connected, connLock, pc, using, toClose>>
  BY <1>1 DEF runtimes
<1>3. RuntimeInv'
  BY <1>1, <1>2, SameRuntimes DEF IInv, RuntimeInv, PhaseInv, Serves
<1>4. /\ document \in Document /\ document.rev = current /\ reference = document
      /\ current \in Revision /\ current + 1 \in Revision /\ step = "free"
      /\ toClose = {}
  <2>1. document \in Document /\ document.rev = current /\ reference = document
    BY <1>1 DEF IInv, FileInv
  <2>2. step = "free"
    BY <1>1 DEF IInv, TypeOK
  <2> QED
    BY <1>1, <2>1, <2>2, Revisions, RevisionAssumption
       DEF Revision, Registry!Revision, IInv, OperationInv, Serves
<1>5. NextDocument(a) \in Document /\ NextDocument(a).rev = current + 1
  BY <1>4 DEF NextDocument, Document
<1>6. CASE UNCHANGED <<critical, step, op>> /\ answer' = [answer EXCEPT ![a] =
                            [outcome |-> "refused", rev |-> NextDocument(a).rev]]
  <2>1. TypeOK'
    BY <1>1, <1>3, <1>4, <1>5, <1>6 DEF IInv, TypeOK, RuntimeInv
  <2>2. OperationInv' /\ FileInv' /\ WindowInv' /\ SeenInv' /\ CandidateNeverLeaked'
    BY <1>1, <1>2, <1>6 DEF IInv, OperationInv, FileInv, WindowInv, NotAfter, SeenInv,
       CandidateNeverLeaked, Serves, Registry!CanSwap
  <2>3. AppliedSurvives' /\ NumberInv'
    BY <1>1, <1>6 DEF IInv, TypeOK, AppliedSurvives, NumberInv, NotAfter, Serves
  <2> QED
    BY <1>3, <2>1, <2>2, <2>3 DEF IInv
<1>7. CASE /\ RevisionMatches(a) /\ DiskMatchesReference /\ HasCapacity
           /\ critical' = a /\ step' = "checked"
           /\ op' = [kind |-> kind, next |-> NextDocument(a), durable |-> FALSE]
           /\ answer' = [answer EXCEPT ![a] = NoAnswer]
  <2>1. op' \in Operations /\ op'.next = NextDocument(a) /\ op'.durable = FALSE
    BY <1>5, <1>7 DEF Operations
  <2>2. TypeOK'
    BY <1>1, <1>3, <1>4, <1>7, <2>1, NobodyAssumption
       DEF IInv, TypeOK, RuntimeInv, Operations, Steps, NoAnswer
  <2>3. OperationInv'
    BY <1>2, <1>4, <1>5, <1>7, <2>1, Revisions
       DEF OperationInv, HasCapacity, Registry!CanSwap, Before, After
  <2>4. FileInv' /\ WindowInv'
    BY <1>1, <1>2, <1>4, <1>7 DEF IInv, FileInv, WindowInv, After, Serves
  <2>5. SeenInv'
    <3> SUFFICES ASSUME ~undone, ~renumbered
                 PROVE  SeenInv'
      BY <1>1 DEF SeenInv
    <3>1. seen[a] = document
      BY <1>1, <1>4, <1>7 DEF IInv, SeenInv, NotAfter, RevisionMatches
    <3> QED
      BY <1>1, <1>7, <3>1 DEF IInv, SeenInv, NotAfter, Serves
  <2>6. AppliedSurvives' /\ CandidateNeverLeaked'
    BY <1>1, <1>2, <1>4, <1>7 DEF IInv, TypeOK, AppliedSurvives, CandidateNeverLeaked,
       NoAnswer, Holding
  <2>7. NumberInv'
    BY <1>1, <1>7, <2>1 DEF IInv, TypeOK, NumberInv, NotAfter, NoAnswer, Serves, After
  <2> QED
    BY <1>3, <2>2, <2>3, <2>4, <2>5, <2>6, <2>7 DEF IInv
<1> QED
  BY <1>6, <1>7 DEF Apply

-----------------------------------------------------------------------------
(* The operation before its point of no return *)

LEMMA RefuseKeeps ==
    ASSUME IInv, step \in Before, Refuse
    PROVE  IInv'
<1>1. /\ connected' = connected \ {op.next.rev} /\ temp' = FALSE
      /\ answer' = [answer EXCEPT ![critical] = [outcome |-> "refused", rev |-> op.next.rev]]
      /\ critical' = Nobody /\ step' = "free" /\ op' = NoOp
      /\ UNCHANGED <<current, retired, closed, refcount, connLock, pc, using, toClose,
                     phase, file, survivors, backup, document, reference, seen,
                     edits, crashes, raced, undone, renumbered>>
  BY DEF Refuse, Leave, history
<1>2. /\ critical \in Admin /\ Serves /\ op.next \in Document /\ toClose = {}
      /\ step \notin After
  BY AtWork DEF Before, After
<1>3. RuntimeInv'
  <2>1. connected' \subseteq Revision
    BY <1>1 DEF IInv, RuntimeInv, Registry!TypeOK, Revision
  <2> QED
    BY <1>1, <1>2, <2>1, SameRuntimes DEF IInv, Serves
<1>4. TypeOK'
  <2>1. [outcome |-> "refused", rev |-> op.next.rev] \in
            [outcome : {"none", "applied", "undurable", "refused"}, rev : Revision \cup {-1}]
    BY <1>2, Revisions
  <2> QED
    BY <1>1, <1>3, <2>1 DEF IInv, TypeOK, RuntimeInv, Steps
<1>5. OperationInv' /\ FileInv' /\ WindowInv' /\ SeenInv'
  BY <1>1, <1>2 DEF IInv, OperationInv, FileInv, WindowInv, NotAfter, SeenInv, Before, After, Serves
<1>6. AppliedSurvives' /\ NumberInv'
  BY <1>1, <1>2 DEF IInv, TypeOK, AppliedSurvives, NumberInv, NotAfter, After, Serves
<1>7. CandidateNeverLeaked'
  BY <1>1 DEF IInv, CandidateNeverLeaked, Holding
<1> QED
  BY <1>3, <1>4, <1>5, <1>6, <1>7 DEF IInv

\* A step of the operation that changes neither the document nor the file.
LEMMA AdvanceKeeps ==
    ASSUME IInv, step \in Before, step' \in Before \ {"checked"},
           connected' \subseteq connected \cup {op.next.rev},
           temp' \in BOOLEAN, backup' \in Document \cup {NoDocument}, raced' \in BOOLEAN,
           WindowInv',
           UNCHANGED <<current, retired, closed, refcount, connLock, pc, using, toClose,
                       phase, file, survivors, document, reference, critical, op,
                       seen, answer, edits, crashes, undone, renumbered>>
    PROVE  IInv'
<1>1. /\ critical # Nobody /\ Serves /\ op # NoOp /\ op.next \in Document
      /\ op.next.rev = current + 1 /\ Registry!CanSwap
      /\ step \notin After /\ step' \notin After /\ step' \in Holding /\ step' # "free"
      /\ step # "free" /\ step # "closing" /\ step' # "closing"
      /\ step \notin {"publish", "closing"}
  BY AtWork DEF Before, After, Holding
<1>2. RuntimeInv'
  <2>1. connected' \subseteq Revision
    BY <1>1, Revisions DEF IInv, RuntimeInv, Registry!TypeOK, Revision
  <2> QED
    BY <1>1, <2>1, SameRuntimes DEF IInv, Serves
<1>3. TypeOK'
  BY <1>1, <1>2 DEF IInv, TypeOK, RuntimeInv, Steps
<1>4. OperationInv'
  BY <1>1 DEF IInv, OperationInv, Registry!CanSwap
<1>5. FileInv' /\ NumberInv' /\ SeenInv'
  BY <1>1 DEF IInv, FileInv, NumberInv, NotAfter, SeenInv, Serves
<1>6. AppliedSurvives'
  BY DEF IInv, AppliedSurvives
<1>7. CandidateNeverLeaked'
  BY <1>1 DEF IInv, CandidateNeverLeaked
<1> QED
  BY <1>2, <1>3, <1>4, <1>5, <1>6, <1>7 DEF IInv

LEMMA ConnectCandidateKeeps ==
    ASSUME IInv, ConnectCandidate
    PROVE  IInv'
<1>1. /\ step = "checked" /\ step' \in {"backup", "initial"}
      /\ connected' = connected \cup {op.next.rev}
      /\ UNCHANGED <<current, retired, closed, refcount, connLock, pc, using, toClose,
                     phase, file, survivors, temp, backup, document, reference, critical,
                     op, seen, answer, edits, crashes, raced, undone, renumbered>>
  BY DEF ConnectCandidate, Advance, disk, clients, history
<1>2. WindowInv' /\ temp \in BOOLEAN /\ raced \in BOOLEAN /\ backup \in Document \cup {NoDocument}
  BY <1>1 DEF IInv, TypeOK, WindowInv
<1> QED
  BY <1>1, <1>2, AdvanceKeeps DEF Before

LEMMA WriteBackupKeeps ==
    ASSUME IInv, WriteBackup
    PROVE  IInv'
<1>1. /\ step = "backup" /\ step' = "initial" /\ backup' = reference
      /\ UNCHANGED <<current, retired, closed, refcount, connected, connLock, pc, using,
                     toClose, phase, file, survivors, temp, document, reference, critical,
                     op, seen, answer, edits, crashes, raced, undone, renumbered>>
  BY DEF WriteBackup, BackupContent, Advance, runtimes, clients, history
<1>2. WindowInv' /\ temp \in BOOLEAN /\ raced \in BOOLEAN /\ reference \in Document \cup {NoDocument}
  BY <1>1 DEF IInv, TypeOK, WindowInv
<1> QED
  BY <1>1, <1>2, AdvanceKeeps DEF Before

LEMMA WriteTempKeeps ==
    ASSUME IInv, WriteTemp
    PROVE  IInv'
<1>1. /\ step = "temp" /\ step' = "prereplace" /\ temp' = TRUE
      /\ UNCHANGED <<current, retired, closed, refcount, connected, connLock, pc, using,
                     toClose, phase, file, survivors, backup, document, reference, critical,
                     op, seen, answer, edits, crashes, raced, undone, renumbered>>
  BY DEF WriteTemp, Advance, runtimes, clients, history
<1>2. WindowInv' /\ raced \in BOOLEAN /\ backup \in Document \cup {NoDocument}
  BY <1>1 DEF IInv, TypeOK, WindowInv
<1> QED
  BY <1>1, <1>2, AdvanceKeeps DEF Before

LEMMA CheckDigestKeeps ==
    ASSUME IInv, NEW from \in Before, NEW to \in Before \ {"checked"}, CheckDigest(from, to)
    PROVE  IInv'
<1>1. CASE file = reference
  <2>1. /\ step = from /\ step' = to /\ raced' = FALSE
        /\ UNCHANGED <<current, retired, closed, refcount, connected, connLock, pc, using,
                       toClose, phase, file, survivors, temp, backup, document, reference,
                       critical, op, seen, answer, edits, crashes, undone, renumbered>>
    BY <1>1 DEF CheckDigest, CheckSkipped, Advance, runtimes, disk, clients
  <2>2. WindowInv' /\ temp \in BOOLEAN /\ backup \in Document \cup {NoDocument}
    BY <1>1, <2>1 DEF IInv, TypeOK, WindowInv
  <2> QED
    BY <2>1, <2>2, AdvanceKeeps
<1>2. CASE file # reference
  BY <1>2, RefuseKeeps DEF CheckDigest
<1> QED
  BY <1>1, <1>2

-----------------------------------------------------------------------------
(* The operation after it *)

LEMMA ReplaceKeeps ==
    ASSUME IInv, Replace
    PROVE  IInv'
<1>1. /\ step = "replace" /\ step' = "sync" /\ file' = op.next
      /\ survivors' = survivors \cup {op.next} /\ temp' = FALSE
      /\ UNCHANGED <<current, retired, closed, refcount, connected, connLock, pc, using,
                     toClose, phase, backup, document, reference, critical, op,
                     seen, answer, edits, crashes, raced, undone, renumbered>>
  BY DEF Replace, Advance, runtimes, clients, history
<1>2. /\ critical # Nobody /\ Serves /\ op # NoOp /\ op.next \in Document
      /\ op.next.rev = current + 1 /\ Registry!CanSwap /\ current \in Nat
      /\ document.rev = current /\ document \in Document
  BY <1>1, AtWork
<1>3. RuntimeInv'
  BY <1>1, <1>2, SameRuntimes DEF IInv, Serves
<1>4. TypeOK'
  BY <1>1, <1>2, <1>3 DEF IInv, TypeOK, RuntimeInv, Steps, Holding
<1>5. OperationInv'
  BY <1>1, <1>2 DEF IInv, OperationInv, Registry!CanSwap
<1>6. FileInv' /\ WindowInv'
  BY <1>1 DEF IInv, FileInv, WindowInv, Serves, After
<1>7. NumberInv'
  BY <1>1, <1>2 DEF IInv, OperationInv, NumberInv, NotAfter, After, Serves
<1>8. SeenInv'
  <2> SUFFICES ASSUME ~undone, ~renumbered
               PROVE  SeenInv'
    BY <1>1 DEF SeenInv
  <2>1. seen[critical] = document
    BY <1>1 DEF IInv, SeenInv, Before
  <2>2. \A a \in Admin : seen[a] # NoDocument =>
            NotAfter(seen[a], document) /\ seen[a].rev \in Nat
    BY <1>2, Revisions DEF IInv, TypeOK, SeenInv
  <2>3. \A a \in Admin : seen[a] # NoDocument => NotAfter(seen[a], op.next)
    BY <1>2, <2>2 DEF NotAfter
  <2> QED
    BY <1>1, <2>1, <2>2, <2>3 DEF SeenInv, NotAfter
<1>9. AppliedSurvives'
  <2> SUFFICES ASSUME ~renumbered, NEW a \in Admin, answer[a].outcome = "applied"
               PROVE  \A d \in survivors' : d.rev >= answer[a].rev
    BY <1>1 DEF AppliedSurvives
  <2>1. \A d \in survivors : d.rev >= answer[a].rev
    BY DEF IInv, AppliedSurvives
  <2>2. current >= answer[a].rev
    BY <1>2 DEF IInv, NumberInv
  <2>3. answer[a].rev \in Int
    <3>1. answer[a].rev \in Revision \cup {-1}
      BY DEF IInv, TypeOK
    <3> QED
      BY <3>1, RevisionAssumption DEF Revision, Registry!Revision
  <2> QED
    BY <1>1, <1>2, <2>1, <2>2, <2>3
<1>10. CandidateNeverLeaked'
  BY <1>1 DEF IInv, CandidateNeverLeaked, Holding
<1> QED
  BY <1>3, <1>4, <1>5, <1>6, <1>7, <1>8, <1>9, <1>10 DEF IInv

LEMMA SyncKeeps ==
    ASSUME IInv, SyncDirectory \/ SyncFails
    PROVE  IInv'
<1>1. /\ step = "sync" /\ step' = "publish"
      /\ UNCHANGED <<current, retired, closed, refcount, connected, connLock, pc, using,
                     toClose, phase, file, temp, backup, document, reference, critical,
                     seen, answer, edits, crashes, raced, undone, renumbered>>
      /\ \/ survivors' = {file} /\ op' = [op EXCEPT !.durable = TRUE]
         \/ survivors' = survivors /\ op' = op
  BY DEF SyncDirectory, SyncFails, Advance, runtimes, disk, clients, history
<1>2. /\ critical # Nobody /\ Serves /\ op \in Operations /\ op # NoOp
      /\ op.next.rev = current + 1 /\ Registry!CanSwap
  BY <1>1, AtWork
<1>3. op' \in Operations /\ op' # NoOp /\ op'.next = op.next
  <2>1. [op EXCEPT !.durable = TRUE] \in Operations /\ [op EXCEPT !.durable = TRUE].next = op.next
    BY <1>2 DEF Operations
  <2> QED
    BY <1>1, <1>2, <2>1, Revisions
<1>4. RuntimeInv'
  BY <1>1, <1>2, SameRuntimes DEF IInv, Serves
<1>5. file \in survivors /\ survivors' \subseteq survivors /\ file \in survivors'
  BY <1>1 DEF IInv, FileInv
<1>6. TypeOK'
  BY <1>1, <1>2, <1>3, <1>4, <1>5 DEF IInv, TypeOK, RuntimeInv, Steps, Holding, Operations
<1>7. edits = 0 => file = op.next
  BY <1>1, <1>2 DEF IInv, FileInv, After
<1>8. OperationInv'
  BY <1>1, <1>2, <1>3 DEF IInv, OperationInv, Registry!CanSwap
<1>9. FileInv' /\ WindowInv' /\ SeenInv'
  BY <1>1, <1>2, <1>3, <1>5, <1>7 DEF IInv, FileInv, WindowInv, NotAfter, SeenInv, After, Before, Serves
<1>12. NumberInv'
  <2>1. ~renumbered => NotAfter(op.next, file)
    BY <1>1 DEF IInv, NumberInv, After
  <2>2. op.next.rev \in Nat /\ file.rev \in Nat
    BY <1>1, AtWork, Revisions DEF IInv, TypeOK
  <2>3. ~renumbered /\ op'.durable => \A d \in survivors' : d.rev >= op.next.rev
    <3>1. CASE survivors' = {file}
      BY <2>1, <2>2, <3>1 DEF NotAfter
    <3>2. CASE survivors' = survivors /\ op' = op
      BY <1>1, <1>2, <3>2 DEF IInv, OperationInv
    <3> QED
      BY <1>1, <3>1, <3>2
  <2> QED
    BY <1>1, <1>3, <2>1, <2>3 DEF IInv, NumberInv, NotAfter, Serves
<1>10. AppliedSurvives'
  BY <1>1, <1>5 DEF IInv, AppliedSurvives
<1>11. CandidateNeverLeaked'
  BY <1>1, <1>3 DEF IInv, CandidateNeverLeaked, Holding
<1> QED
  BY <1>4, <1>6, <1>8, <1>9, <1>10, <1>11, <1>12 DEF IInv

LEMMA PublishKeeps ==
    ASSUME IInv, Publish
    PROVE  IInv'
<1>1. step = "publish"
  BY DEF Publish
<1>2. /\ critical \in Admin /\ critical # Nobody /\ Serves /\ op # NoOp /\ op \in Operations
      /\ op.next \in Document /\ op.next.rev = current + 1 /\ op.next.rev \in Revision
      /\ Registry!CanSwap /\ current \in Nat /\ current \in Revision /\ toClose = {}
  BY <1>1, AtWork, Revisions
<1> DEFINE idle == refcount[current] = 0 /\ current \notin closed
<1>3. /\ current' = op.next.rev
      /\ connected' = connected \cup {op.next.rev}
      /\ retired' = IF idle THEN retired ELSE retired \cup {current}
      /\ closed' = IF idle THEN closed \cup {current} ELSE closed
      /\ toClose' = IF idle THEN toClose \cup {current} ELSE toClose
      /\ document' = op.next /\ reference' = op.next /\ step' = "closing"
      /\ UNCHANGED <<refcount, connLock, pc, using, critical, op, answer, phase, file,
                     survivors, temp, backup, seen, edits, crashes, raced, undone, renumbered>>
  BY <1>2 DEF Publish, Registry!Swap, Registry!queryVars, ReferenceAfter, disk, history
<1>4. current \notin closed /\ (\A r \in retired : r < current) /\ (\A r \in closed : r <= current)
      /\ retired \cap closed = {} /\ retired \subseteq Revision /\ closed \subseteq Revision
  BY <1>2 DEF IInv, RuntimeInv, OrderInv, Serves, Registry!TypeOK, Revision
<1>5. idle => \A q \in Query : pc[q] \in Registry!Holding => using[q] # current
  BY <1>2, Unused DEF IInv, RuntimeInv
<1>6. Registry!TypeOK'
  <2>1. /\ current' \in Revision /\ connected' \subseteq Revision /\ retired' \subseteq Revision
        /\ closed' \subseteq Revision /\ toClose' \subseteq Revision
    BY <1>2, <1>3, <1>4 DEF IInv, RuntimeInv, Registry!TypeOK, Revision
  <2> QED
    BY <1>3, <2>1 DEF IInv, RuntimeInv, Registry!TypeOK, Revision
<1>7. CountInv'
  <2>1. \A r : Users(r)' = Users(r)
    BY <1>3 DEF Users
  <2>2. \A q \in Query : pc[q] \in Registry!Holding => using[q] \in {current'} \cup retired'
    BY <1>3, <1>5 DEF IInv, RuntimeInv, CountInv
  <2> QED
    BY <1>3, <2>1, <2>2 DEF IInv, RuntimeInv, CountInv
<1>8. OrderInv'
  <2>1. \A r \in Revision : r \in Nat
    BY Revisions
  <2>2. /\ retired' \cap closed' = {}
        /\ \A r \in retired' \cup closed' : r < current'
    <3>1. \A r \in retired \cup closed \cup {current} : r < current'
      <4>1. current' = current + 1 /\ current \in Nat
        BY <1>2, <1>3
      <4>2. \A r \in retired \cup closed \cup {current} : r \in Nat /\ r <= current
        BY <1>2, <1>4, <2>1
      <4> QED
        BY <4>1, <4>2
    <3>2. current \notin retired
      BY <1>2, <1>4
    <3> QED
      BY <1>3, <1>4, <3>1, <3>2
  <2> QED
    BY <1>2, <1>3, <1>6, <2>1, <2>2 DEF OrderInv, Registry!TypeOK, Revision
<1>9. PhaseInv'
  BY <1>2, <1>3, RevisionAssumption
     DEF IInv, RuntimeInv, PhaseInv, Serves, Registry!NoRuntime, Revision, Registry!Revision
<1>10. NeverClosedInUse'
  BY <1>3, <1>5 DEF IInv, RuntimeInv, NeverClosedInUse, Registry!NeverClosedInUse
<1>11. TypeOK'
  BY <1>2, <1>3, <1>6 DEF IInv, TypeOK, Steps
<1>12. OperationInv'
  BY <1>1, <1>2, <1>3 DEF IInv, OperationInv, Before, After, Serves
<1>13. FileInv' /\ WindowInv'
  BY <1>1, <1>2, <1>3 DEF IInv, FileInv, WindowInv, After, Serves
<1>16. document.rev = current /\ document \in Document
  BY <1>2 DEF IInv, FileInv
<1>17. NumberInv'
  <2>1. \A a \in Admin : answer[a].rev \in Int
    <3>1. \A a \in Admin : answer[a].rev \in Revision \cup {-1}
      BY DEF IInv, TypeOK
    <3> QED
      BY <3>1, RevisionAssumption DEF Revision, Registry!Revision
  <2> QED
    BY <1>1, <1>2, <1>3, <1>16, <2>1 DEF IInv, NumberInv, NotAfter, After, Serves
<1>18. SeenInv'
  <2> SUFFICES ASSUME ~undone, ~renumbered
               PROVE  SeenInv'
    BY <1>3 DEF SeenInv
  <2>1. \A a \in Admin : seen[a] # NoDocument =>
            NotAfter(seen[a], document) /\ NotAfter(seen[a], file) /\ seen[a].rev \in Nat
    BY <1>2, Revisions DEF IInv, TypeOK, SeenInv
  <2>2. \A a \in Admin : seen[a] # NoDocument => NotAfter(seen[a], op.next)
    BY <1>2, <1>16, <2>1 DEF NotAfter
  <2> QED
    BY <1>3, <2>1, <2>2 DEF SeenInv, NotAfter, Before, After
<1>14. AppliedSurvives'
  BY <1>3 DEF IInv, AppliedSurvives
<1>15. CandidateNeverLeaked'
  BY <1>1, <1>3 DEF IInv, CandidateNeverLeaked, Holding
<1> QED
  BY <1>6, <1>7, <1>8, <1>9, <1>10, <1>11, <1>12, <1>13, <1>14, <1>15, <1>17, <1>18
     DEF IInv, RuntimeInv

LEMMA CloseRetiredKeeps ==
    ASSUME IInv, NEW r \in Revision, CloseRetired(r)
    PROVE  IInv'
<1>1. /\ step = "closing" \/ phase = "closed"
      /\ r \in toClose /\ toClose' = toClose \ {r} /\ connected' = connected \ {r}
      /\ UNCHANGED <<current, retired, closed, refcount, connLock, pc, using, phase,
                     file, survivors, temp, backup, document, reference, critical,
                     step, op, seen, answer, edits, crashes, raced, undone, renumbered>>
  BY DEF CloseRetired, Registry!CloseRetired, Registry!registryVars, Registry!queryVars,
     memory, disk, clients, history
<1>2. Registry!TypeOK' /\ NeverClosedInUse'
  BY <1>1 DEF IInv, RuntimeInv, Registry!TypeOK, NeverClosedInUse, Registry!NeverClosedInUse
<1>3. CountInv' /\ OrderInv'
  BY <1>1 DEF IInv, RuntimeInv, CountInv, OrderInv, Users
<1>4. PhaseInv'
  BY <1>1 DEF IInv, RuntimeInv, PhaseInv, Serves
<1>5. TypeOK'
  BY <1>1, <1>2 DEF IInv, TypeOK
<1>6. OperationInv'
  BY <1>1 DEF IInv, OperationInv, Registry!CanSwap
<1>7. FileInv' /\ NumberInv' /\ SeenInv' /\ WindowInv' /\ AppliedSurvives'
  BY <1>1 DEF IInv, FileInv, NumberInv, NotAfter, SeenInv, WindowInv, AppliedSurvives, Serves
<1>8. CandidateNeverLeaked'
  BY <1>1 DEF IInv, CandidateNeverLeaked
<1> QED
  BY <1>2, <1>3, <1>4, <1>5, <1>6, <1>7, <1>8 DEF IInv, RuntimeInv

LEMMA AnswerKeeps ==
    ASSUME IInv, Answer
    PROVE  IInv'
<1>1. /\ step = "closing" /\ toClose = {}
      /\ answer' = [answer EXCEPT ![critical] = [outcome |-> Outcome, rev |-> op.next.rev]]
      /\ critical' = Nobody /\ step' = "free" /\ op' = NoOp
      /\ UNCHANGED <<current, retired, closed, refcount, connected, connLock, pc, using,
                     toClose, phase, file, survivors, temp, backup, document, reference,
                     seen, edits, crashes, raced, undone, renumbered>>
  BY DEF Answer, Leave, runtimes, disk, history
<1>2. critical \in Admin /\ Serves /\ op # NoOp /\ op.next \in Document /\ op.next.rev \in Nat
  BY <1>1, AtWork, Revisions
<1>3. RuntimeInv'
  BY <1>1, SameRuntimes DEF IInv
<1>4. TypeOK'
  <2>1. [outcome |-> Outcome, rev |-> op.next.rev] \in
            [outcome : {"none", "applied", "undurable", "refused"}, rev : Revision \cup {-1}]
    BY <1>2, Revisions DEF Outcome
  <2> QED
    BY <1>1, <1>3, <2>1 DEF IInv, TypeOK, RuntimeInv, Steps
<1>5. OperationInv' /\ FileInv' /\ SeenInv' /\ WindowInv'
  BY <1>1 DEF IInv, OperationInv, FileInv, NotAfter, SeenInv, WindowInv, Before, After, Serves
<1>6. AppliedSurvives' /\ NumberInv'
  <2>1. ~renumbered /\ Outcome = "applied" => \A d \in survivors : d.rev >= op.next.rev
    BY <1>2 DEF IInv, NumberInv, Outcome
  <2>3. document = op.next
    BY <1>1, AtWork
  <2>2. \A a \in Admin : answer'[a] = IF a = critical
                THEN [outcome |-> Outcome, rev |-> op.next.rev] ELSE answer[a]
    BY <1>1 DEF IInv, TypeOK
  <2> QED
    BY <1>1, <1>2, <2>1, <2>2, <2>3 DEF IInv, AppliedSurvives, NumberInv, NotAfter, After, Serves
<1>7. CandidateNeverLeaked'
  BY <1>1 DEF IInv, CandidateNeverLeaked, Holding
<1> QED
  BY <1>3, <1>4, <1>5, <1>6, <1>7 DEF IInv

-----------------------------------------------------------------------------
(* The process *)

LEMMA StartKeeps ==
    ASSUME IInv, Start
    PROVE  IInv'
<1>1. /\ phase = "down" /\ phase' = "up" /\ temp' = FALSE
      /\ current' = file.rev /\ connected' = connected \cup {file.rev}
      /\ document' = file /\ reference' = file
      /\ UNCHANGED <<retired, closed, refcount, connLock, pc, using, toClose, file,
                     survivors, backup, critical, step, op, seen, answer,
                     edits, crashes, raced, undone, renumbered>>
  BY DEF Start, OpenStore, Registry!Start, Registry!queryVars, clients, history
<1>2. /\ critical = Nobody /\ step = "free" /\ current = Registry!NoRuntime
      /\ retired = {} /\ closed = {} /\ connected = {} /\ toClose = {}
      /\ file \in Document /\ file.rev \in Revision
  <2>1. critical = Nobody
    BY <1>1 DEF IInv, RuntimeInv, PhaseInv, Serves
  <2> QED
    BY <1>1, <2>1, Revisions DEF IInv, RuntimeInv, PhaseInv, TypeOK
<1>3. \A q \in Query : pc[q] \notin Registry!Holding
  BY <1>2 DEF IInv, RuntimeInv, CountInv, Registry!TypeOK, Registry!Holding, Registry!InLock
<1>4. Registry!TypeOK'
  BY <1>1, <1>2 DEF IInv, RuntimeInv, Registry!TypeOK, Revision
<1>5. CountInv' /\ NeverClosedInUse'
  BY <1>1, <1>3 DEF IInv, RuntimeInv, CountInv, Users, NeverClosedInUse, Registry!NeverClosedInUse
<1>6. OrderInv' /\ PhaseInv'
  BY <1>1, <1>2, RevisionAssumption
     DEF OrderInv, PhaseInv, Serves, Registry!NoRuntime, Revision, Registry!Revision
<1>7. TypeOK'
  BY <1>1, <1>4 DEF IInv, TypeOK
<1>8. OperationInv' /\ FileInv' /\ SeenInv' /\ WindowInv'
  BY <1>1, <1>2 DEF IInv, OperationInv, FileInv, NotAfter, SeenInv, WindowInv, Before, After, Serves
<1>9. AppliedSurvives' /\ CandidateNeverLeaked'
  BY <1>1, <1>2 DEF IInv, AppliedSurvives, CandidateNeverLeaked
<1>10. NumberInv'
  <2>1. file.rev \in Nat /\ file \in survivors
    BY <1>2, Revisions DEF IInv, FileInv
  <2>2. \A a \in Admin : answer[a].rev \in Int
    <3>1. \A a \in Admin : answer[a].rev \in Revision \cup {-1}
      BY DEF IInv, TypeOK
    <3> QED
      BY <3>1, RevisionAssumption DEF Revision, Registry!Revision
  <2>3. ~renumbered => \A a \in Admin : answer[a].outcome = "applied" => answer[a].rev <= file.rev
    BY <2>1, <2>2 DEF IInv, AppliedSurvives
  <2> QED
    BY <1>1, <1>2, <2>1, <2>3 DEF IInv, NumberInv, NotAfter, After, Serves
<1> QED
  BY <1>4, <1>5, <1>6, <1>7, <1>8, <1>9, <1>10 DEF IInv, RuntimeInv

LEMMA CloseKeeps ==
    ASSUME IInv, Close
    PROVE  IInv'
<1>1. /\ phase = "up" /\ phase' = "closing"
      /\ UNCHANGED <<current, retired, closed, refcount, connected, connLock, pc, using,
                     toClose, file, survivors, temp, backup, document, reference, critical,
                     step, op, seen, answer, edits, crashes, raced, undone, renumbered>>
  BY DEF Close, runtimes, memory, disk, clients, history
<1>2. RuntimeInv'
  BY <1>1, SameRuntimes DEF IInv, Serves
<1>3. TypeOK'
  BY <1>1, <1>2 DEF IInv, TypeOK, RuntimeInv
<1>4. OperationInv' /\ FileInv' /\ NumberInv' /\ SeenInv' /\ WindowInv'
  BY <1>1 DEF IInv, OperationInv, FileInv, NumberInv, NotAfter, SeenInv, WindowInv, Serves, Registry!CanSwap
<1>5. AppliedSurvives' /\ CandidateNeverLeaked'
  BY <1>1 DEF IInv, AppliedSurvives, CandidateNeverLeaked
<1> QED
  BY <1>2, <1>3, <1>4, <1>5 DEF IInv

LEMMA CloseAllKeeps ==
    ASSUME IInv, CloseAll
    PROVE  IInv'
<1>1. /\ phase = "closing" /\ critical = Nobody /\ phase' = "closed"
      /\ current # Registry!NoRuntime /\ \A q \in Query : pc[q] = "idle"
      /\ toClose' = toClose \cup ((retired \cup {current}) \ closed)
      /\ closed' = closed \cup retired \cup {current} /\ retired' = {}
      /\ UNCHANGED <<current, refcount, connected, connLock, pc, using, file, survivors,
                     temp, backup, document, reference, critical, step, op, seen, answer,
                     edits, crashes, raced, undone, renumbered>>
  BY DEF CloseAll, Registry!CloseAll, Registry!queryVars, memory, disk, clients, history
<1>2. /\ step = "free" /\ current \in Revision /\ current \in Nat /\ retired \cap closed = {}
      /\ \A r \in retired \cup closed : r <= current
  <2>1. current \in Revision /\ retired \subseteq Revision /\ closed \subseteq Revision
    BY <1>1 DEF IInv, RuntimeInv, Registry!TypeOK, Revision
  <2>2. \A r \in Revision : r \in Nat
    BY Revisions
  <2> QED
    BY <1>1, <2>1, <2>2 DEF IInv, RuntimeInv, OrderInv, TypeOK
<1>3. \A q \in Query : pc[q] \notin Registry!Holding /\ pc[q] # "closing"
  BY <1>1 DEF Registry!Holding, Registry!InLock
<1>4. Registry!TypeOK'
  BY <1>1, <1>2 DEF IInv, RuntimeInv, Registry!TypeOK, Revision
<1>5. CountInv' /\ NeverClosedInUse'
  BY <1>1, <1>3 DEF IInv, RuntimeInv, CountInv, Users, NeverClosedInUse, Registry!NeverClosedInUse
<1>6. OrderInv' /\ PhaseInv'
  BY <1>1, <1>2 DEF OrderInv, PhaseInv, Serves
<1>7. TypeOK'
  BY <1>1, <1>4 DEF IInv, TypeOK
<1>8. OperationInv' /\ FileInv' /\ NumberInv' /\ SeenInv' /\ WindowInv'
  BY <1>1, <1>2 DEF IInv, OperationInv, FileInv, NumberInv, NotAfter, SeenInv, WindowInv, Before, After, Serves
<1>9. AppliedSurvives'
  BY <1>1 DEF IInv, AppliedSurvives
<1>10. CandidateNeverLeaked'
  BY <1>1, <1>2, <1>3 DEF IInv, CandidateNeverLeaked, Holding
<1> QED
  BY <1>4, <1>5, <1>6, <1>7, <1>8, <1>9, <1>10 DEF IInv, RuntimeInv

\* The process ends; a power loss may leave the file with another survivor.
LEMMA ForgetKeeps ==
    ASSUME IInv, ForgetMemory,
           file' \in survivors', survivors' \subseteq survivors,
           crashes' \in 0 .. MaxCrashes, undone' \in BOOLEAN,
           ~undone' => ~undone /\ file' = file,
           UNCHANGED <<temp, backup, seen, answer, edits, raced, renumbered>>
    PROVE  IInv'
<1>1. /\ phase' = "down" /\ current' = Registry!NoRuntime
      /\ retired' = {} /\ closed' = {} /\ connected' = {} /\ toClose' = {}
      /\ refcount' = [r \in Revision |-> 0]
      /\ connLock' = [r \in Revision |-> Nobody]
      /\ pc' = [q \in Query |-> "idle"]
      /\ using' = [q \in Query |-> Registry!NoRuntime]
      /\ document' = NoDocument /\ reference' = NoDocument
      /\ critical' = Nobody /\ step' = "free" /\ op' = NoOp
  BY DEF ForgetMemory
<1>2. Registry!TypeOK'
  BY <1>1 DEF Registry!TypeOK, Registry!States, Revision
<1>3. CountInv'
  <2>1. \A q \in Query : pc'[q] \notin Registry!Holding
    BY <1>1 DEF Registry!Holding, Registry!InLock
  <2>2. \A r : Users(r)' = {}
    BY <2>1 DEF Users
  <2> QED
    BY <1>1, <2>1, <2>2, FS_EmptySet DEF CountInv
<1>4. OrderInv' /\ PhaseInv' /\ NeverClosedInUse'
  BY <1>1 DEF OrderInv, PhaseInv, Serves, NeverClosedInUse, Registry!NeverClosedInUse
<1>5. TypeOK'
  BY <1>1, <1>2 DEF IInv, TypeOK, Steps
<1>6. OperationInv' /\ FileInv' /\ NumberInv' /\ SeenInv' /\ WindowInv'
  BY <1>1 DEF IInv, OperationInv, FileInv, NumberInv, NotAfter, SeenInv, WindowInv, Before, After, Serves
<1>7. AppliedSurvives' /\ CandidateNeverLeaked'
  BY <1>1 DEF IInv, AppliedSurvives, CandidateNeverLeaked
<1> QED
  BY <1>2, <1>3, <1>4, <1>5, <1>6, <1>7 DEF IInv, RuntimeInv

LEMMA EndKeeps ==
    ASSUME IInv, Stop \/ Kill \/ PowerLoss
    PROVE  IInv'
<1>1. file \in survivors /\ crashes \in 0 .. MaxCrashes /\ undone \in BOOLEAN
  BY DEF IInv, FileInv, TypeOK
<1>2. CASE Stop
  BY <1>1, <1>2, ForgetKeeps DEF Stop, disk, clients, history
<1>3. crashes < MaxCrashes => crashes + 1 \in 0 .. MaxCrashes
  BY <1>1, BoundsAssumption
<1>4. CASE Kill
  BY <1>1, <1>3, <1>4, ForgetKeeps DEF Kill, disk, clients
<1>5. CASE PowerLoss
  <2>1. /\ ForgetMemory /\ file' \in survivors /\ survivors' = {file'}
        /\ crashes' \in 0 .. MaxCrashes
        /\ UNCHANGED <<temp, backup, seen, answer, edits, raced, renumbered>>
    BY <1>3, <1>5 DEF PowerLoss, clients
  <2>2. undone' \in BOOLEAN /\ (~undone' => ~undone /\ file' = file)
    BY <1>1, <1>5 DEF PowerLoss
  <2> QED
    BY <2>1, <2>2, ForgetKeeps
<1> QED
  BY <1>2, <1>4, <1>5

LEMMA EditKeeps ==
    ASSUME IInv, NEW r \in Revision, Edit(r)
    PROVE  IInv'
<1>1. /\ edits < MaxEdits /\ edits' = edits + 1
      /\ file' = [rev |-> r, by |-> Editor] /\ survivors' = survivors \cup {file'}
      /\ raced' = (step = "replace") /\ renumbered' = (renumbered \/ r <= file.rev)
      /\ UNCHANGED <<current, retired, closed, refcount, connected, connLock, pc, using,
                     toClose, phase, temp, backup, document, reference, critical, step, op,
                     seen, answer, crashes, undone>>
  BY DEF Edit, runtimes, memory, clients
<1>2. file' \in Document /\ edits' \in 0 .. MaxEdits /\ edits' # 0 /\ renumbered' \in BOOLEAN
  BY <1>1, Revisions, BoundsAssumption DEF IInv, TypeOK
<1>3. RuntimeInv'
  BY <1>1, SameRuntimes DEF IInv, RuntimeInv, PhaseInv, Serves
<1>4. TypeOK'
  BY <1>1, <1>2, <1>3 DEF IInv, TypeOK, RuntimeInv
<1>5. OperationInv'
  BY <1>1, <1>2 DEF IInv, OperationInv, Registry!CanSwap
<1>6. FileInv' /\ WindowInv'
  BY <1>1, <1>2 DEF IInv, FileInv, WindowInv, Serves
<1>7. CandidateNeverLeaked'
  BY <1>1, <1>2 DEF IInv, CandidateNeverLeaked
<1>8. r \in Nat /\ file.rev \in Nat /\ file \in survivors /\ file'.rev = r
      /\ (~renumbered' => ~renumbered /\ file.rev < r)
  <2>1. r \in Nat /\ file.rev \in Nat /\ file \in survivors /\ file'.rev = r
    BY <1>1, Revisions DEF IInv, TypeOK, FileInv
  <2>2. ~renumbered' => ~renumbered /\ ~(r <= file.rev)
    BY <1>1
  <2> QED
    BY <2>1, <2>2
<1>9. \A d \in Document \cup {NoDocument} : d.rev \in Int
  BY Revisions DEF NoDocument
<1>10. \A d \in Document \cup {NoDocument} :
          ~renumbered' /\ NotAfter(d, file) => NotAfter(d, file')
  BY <1>8, <1>9 DEF NotAfter
<1>11. op # NoOp => op.next \in Document
  BY DEF IInv, TypeOK
<1>12. step \in After => op # NoOp
  BY DEF IInv, OperationInv
<1>13. SeenInv'
  <2> SUFFICES ASSUME ~undone, ~renumbered'
               PROVE  SeenInv'
    BY <1>1 DEF SeenInv
  <2>1. \A a \in Admin : seen[a] \in Document \cup {NoDocument}
    BY DEF IInv, TypeOK
  <2> QED
    BY <1>1, <1>8, <1>10, <2>1 DEF IInv, SeenInv, Serves
<1>14. NumberInv'
  <2> SUFFICES ASSUME ~renumbered'
               PROVE  NumberInv'
    BY DEF NumberInv
  <2>1. /\ Serves => NotAfter(document, file')
        /\ step \in After => NotAfter(op.next, file')
    BY <1>8, <1>10, <1>11, <1>12 DEF IInv, NumberInv, FileInv
  <2>2. (op # NoOp /\ op.durable) => \A d \in survivors' : d.rev >= op.next.rev
    <3> SUFFICES ASSUME op # NoOp, op.durable
                 PROVE  \A d \in survivors' : d.rev >= op.next.rev
      OBVIOUS
    <3>1. \A d \in survivors : d.rev >= op.next.rev
      BY <1>8 DEF IInv, NumberInv
    <3>2. op.next.rev \in Int
      BY <1>9, <1>11
    <3> QED
      BY <1>1, <1>8, <3>1, <3>2
  <2> QED
    BY <1>1, <1>8, <2>1, <2>2 DEF IInv, NumberInv, Serves
<1>15. AppliedSurvives'
  <2> SUFFICES ASSUME ~renumbered', NEW a \in Admin, answer[a].outcome = "applied"
               PROVE  \A d \in survivors' : d.rev >= answer[a].rev
    BY <1>1 DEF AppliedSurvives
  <2>1. \A d \in survivors : d.rev >= answer[a].rev
    BY <1>8 DEF IInv, AppliedSurvives
  <2>2. answer[a].rev \in Int
    <3>1. answer[a].rev \in Revision \cup {-1}
      BY DEF IInv, TypeOK
    <3> QED
      BY <3>1, RevisionAssumption DEF Revision, Registry!Revision
  <2> QED
    BY <1>1, <1>8, <2>1, <2>2
<1> QED
  BY <1>3, <1>4, <1>5, <1>6, <1>7, <1>13, <1>14, <1>15 DEF IInv

LEMMA StutterKeeps ==
    ASSUME IInv, UNCHANGED vars
    PROVE  IInv'
<1>1. UNCHANGED <<current, retired, closed, refcount, connected, connLock, pc, using,
                  toClose, phase, file, survivors, temp, backup, document, reference,
                  critical, step, op, seen, answer, edits, crashes, raced, undone, renumbered>>
  BY DEF vars, runtimes, memory, disk, clients, history
<1>2. RuntimeInv'
  BY <1>1, SameRuntimes DEF IInv, RuntimeInv, PhaseInv, Serves
<1>3. TypeOK'
  BY <1>1, <1>2 DEF IInv, TypeOK, RuntimeInv
<1>4. OperationInv' /\ FileInv' /\ NumberInv' /\ SeenInv' /\ WindowInv'
  BY <1>1 DEF IInv, OperationInv, FileInv, NumberInv, NotAfter, SeenInv, WindowInv, Serves, Registry!CanSwap
<1>5. AppliedSurvives' /\ CandidateNeverLeaked'
  BY <1>1 DEF IInv, AppliedSurvives, CandidateNeverLeaked
<1> QED
  BY <1>2, <1>3, <1>4, <1>5 DEF IInv

-----------------------------------------------------------------------------
(* The theorems *)

LEMMA StepInvariant == IInv /\ [Next]_vars => IInv'
<1> SUFFICES ASSUME IInv, [Next]_vars
             PROVE  IInv'
  OBVIOUS
<1>1. CASE UNCHANGED vars
  BY <1>1, StutterKeeps
<1>2. CASE Start
  BY <1>2, StartKeeps
<1>3. CASE \E a \in Admin : Snapshot(a) \/ \E kind \in Kinds : Apply(a, kind)
  BY <1>3, SnapshotKeeps, ApplyKeeps
<1>4. CASE Operation
  <2>1. CASE RefuseCandidate \/ WriteFails
    BY <2>1, RefuseKeeps DEF RefuseCandidate, WriteFails, Before
  <2>2. CASE CheckInitial \/ CheckPreReplace
    BY <2>2, CheckDigestKeeps DEF CheckInitial, CheckPreReplace, Before
  <2>3. CASE \E r \in Revision : CloseRetired(r)
    BY <2>3, CloseRetiredKeeps
  <2> QED
    BY <1>4, <2>1, <2>2, <2>3, ConnectCandidateKeeps, WriteBackupKeeps, WriteTempKeeps,
       ReplaceKeeps, SyncKeeps, PublishKeeps, AnswerKeeps DEF Operation
<1>5. CASE \E q \in Query : QueryStep(q)
  BY <1>5, QueryKeeps
<1>6. CASE Close
  BY <1>6, CloseKeeps
<1>7. CASE CloseAll
  BY <1>7, CloseAllKeeps
<1>8. CASE Stop \/ Kill \/ PowerLoss
  BY <1>8, EndKeeps
<1>9. CASE \E r \in Revision : Edit(r)
  BY <1>9, EditKeeps
<1> QED
  BY <1>1, <1>2, <1>3, <1>4, <1>5, <1>6, <1>7, <1>8, <1>9 DEF Next

LEMMA Invariant == Spec => []IInv
<1>1. Init => IInv
  BY InitInvariant
<1>2. IInv /\ [Next]_vars => IInv'
  BY StepInvariant
<1> QED
  BY <1>1, <1>2, PTL DEF Spec

(***************************************************************************)
(* The configuration is sound: between operations the file and the         *)
(* published runtime hold the same document, a change answered as applied  *)
(* survives every crash, no candidate connection leaks, and no runtime is  *)
(* closed under a query.                                                   *)
(***************************************************************************)
THEOREM ConfigCorrect == Spec => []ConfigSound
<1>1. IInv => ConfigSound
  <2> SUFFICES ASSUME IInv
               PROVE  ConfigSound
    OBVIOUS
  <2>1. FileAndRuntimeAgree
    <3>1. critical = Nobody => step \notin After
      BY DEF IInv, TypeOK, After
    <3> QED
      BY <3>1 DEF IInv, FileInv, Serves, FileAndRuntimeAgree
  <2> QED
    BY <2>1 DEF IInv, RuntimeInv, ConfigSound
<1> QED
  BY <1>1, Invariant, PTL

(***************************************************************************)
(* No change is lost: an operation replaces the document its client had    *)
(* read, and an external edit only inside the window of the replace.       *)
(***************************************************************************)
THEOREM ChangesCorrect == Spec => NoChangeLost
<1>1. IInv /\ [Next]_vars =>
        [(~undone /\ ~renumbered /\ step = "publish" /\ document' # document /\ document' # NoDocument)
            => seen[critical] = document]_vars
  BY DEF IInv, SeenInv, After
<1>2. IInv /\ [Next]_vars =>
        [(step = "replace" /\ step' = "sync") => (file = reference \/ raced)]_vars
  BY DEF IInv, WindowInv
<1> QED
  BY <1>1, <1>2, Invariant, PTL DEF Spec, NoChangeLost, NoLostUpdate, EditsOutsideWindowSurvive

-----------------------------------------------------------------------------
(* The directory of the configuration *)

LEMMA FilesOneMoves ==
    ASSUME Files!IInv, NEW p \in Proc, NEW r \in Files!Process, NEW f \in Files!Directory,
           s' = [s EXCEPT ![p] = r], fs' = f, n' \in [doc : Nat, edits : Nat, kills : Nat, acked : Nat],
           \/ Files!Held(p) /\ f.holder \in {p, "nobody"}
           \/ /\ f.temps = fs.temps /\ f.config = fs.config /\ f.backup = fs.backup
              /\ f.holder = fs.holder \/ (fs.holder = "nobody" /\ f.holder = p),
           Files!Local(p, r, f), Files!Common(f, n'.acked)
    PROVE  Files!IInv'
<1>1. Files!Types'
  BY DEF Files!IInv, Files!Types
<1>2. ASSUME NEW q \in Proc
      PROVE  Files!Local(q, s'[q], fs')
  <2>1. CASE q = p
    BY <2>1 DEF Files!IInv, Files!Types
  <2>2. CASE q # p
    <3>1. s'[q] = s[q] /\ Files!Local(q, s[q], fs)
      BY <2>2 DEF Files!IInv, Files!Types
    <3> DEFINE o == s[q]
    <3>2. o \in Files!Process
      BY DEF Files!IInv, Files!Types
    <3> HIDE DEF o
    <3>3. CASE Files!Held(p) /\ f.holder \in {p, "nobody"}
      <4>1. ~Files!Works(o) /\ f.holder # q
        BY <2>2, <3>1, <3>3, FileConstants DEF Files!Local, Files!Held, Files!NamesAssumption, o
      <4>2. o.pc \in {"down"} \cup Files!Opening /\ o.token = "none"
        BY <4>1, <3>1 DEF Files!Local, Files!Works, Files!OwnTemp, Files!Second, Files!Opening, Files!Checking, o
      <4> QED
        BY <3>1, <4>1, <4>2 DEF Files!Local, Files!Works, Files!OwnTemp, Files!NoOrphan, Files!OwnBackup, Files!Second, Files!Opening, Files!Checking, o
    <3>4. CASE /\ f.temps = fs.temps /\ f.config = fs.config /\ f.backup = fs.backup
               /\ f.holder = fs.holder \/ (fs.holder = "nobody" /\ f.holder = p)
      <4>1. f.holder = q <=> fs.holder = q
        BY <2>2, <3>4, FileConstants DEF Files!NamesAssumption
      <4> QED
        BY <3>1, <3>4, <4>1 DEF Files!Local, Files!Works, Files!OwnTemp, Files!NoOrphan, Files!OwnBackup
    <3> QED
      BY <3>3, <3>4
  <2> QED
    BY <2>1, <2>2
<1> QED
  BY <1>1, <1>2 DEF Files!IInv

LEMMA FilesRaises ==
    ASSUME Files!IInv, NEW p \in Proc, Files!OpenRaises(p) \/ (s' = [s EXCEPT ![p] = Files!Down] /\ fs' = Files!Unlocked(p)),
           n' \in [doc : Nat, edits : Nat, kills : Nat, acked : Nat], n'.acked = n.acked
    PROVE  Files!IInv'
<1>1. PICK r \in Files!Process : s' = [s EXCEPT ![p] = r] /\ r.pc = "down" /\ r.token = "none"
  <2>1. CASE Files!OpenRaises(p)
    <3> DEFINE r == [Files!Down EXCEPT !.answer = "refused"]
    <3>1. r \in Files!Process /\ r.pc = "down" /\ r.token = "none"
      BY DEF Files!Down, Files!Process, Files!Place
    <3> QED
      BY <2>1, <3>1 DEF Files!OpenRaises
  <2>2. CASE s' = [s EXCEPT ![p] = Files!Down]
    <3>1. Files!Down \in Files!Process /\ Files!Down.pc = "down" /\ Files!Down.token = "none"
      BY DEF Files!Down, Files!Process, Files!Place
    <3> QED
      BY <2>2, <3>1
  <2> QED
    BY <2>1, <2>2
<1>2. PICK f \in Files!Directory :
        /\ fs' = f /\ f.temps = fs.temps /\ f.config = fs.config /\ f.backup = fs.backup
        /\ f.holder # p
        /\ f.holder = fs.holder \/ (Files!Held(p) /\ f.holder = "nobody")
  BY FileConstants DEF Files!OpenRaises, Files!Unlocked, Files!Held, Files!IInv, Files!Types, Files!Directory, Files!NamesAssumption
<1>3. Files!Local(p, r, f)
  BY <1>1, <1>2 DEF Files!Local, Files!Works, Files!OwnTemp, Files!NoOrphan, Files!OwnBackup, Files!Second, Files!Opening, Files!Checking
<1>4. Files!Common(f, n'.acked)
  BY <1>2 DEF Files!IInv, Files!Common
<1> QED
  BY <1>1, <1>2, <1>3, <1>4, FilesOneMoves

LEMMA FilesAnswers ==
    ASSUME Files!IInv, NEW p \in Proc, NEW f \in Files!Directory, fs' = f,
           NEW a \in {"unsafe", "opened", "outofsync", "failed", "applied", "undurable", "backup"},
           Files!Held(p), f.holder = p, s[p].pc \notin {"scan", "cleanup"},
           \A t \in Token : f.temps[t].kind = "file" => fs.temps[t].kind = "file",
           Files!Answer(p, a),
           n' \in [doc : Nat, edits : Nat, kills : Nat, acked : Nat], Files!Common(f, n'.acked)
    PROVE  Files!IInv'
<1> DEFINE was == s[p]
           left == was.left \/ (was.token # "none" /\ f.temps[was.token].kind = "file")
           r == [Files!Down EXCEPT !.pc = "up", !.answer = a, !.left = left]
<1>1. was \in Files!Process /\ Files!Local(p, was, fs)
  BY DEF Files!IInv, Files!Types
<1>2. s' = [s EXCEPT ![p] = r]
  BY DEF Files!Answer
<1> HIDE DEF was
<1>3. left \in BOOLEAN
  BY <1>1 DEF Files!Process
<1>4. r \in Files!Process /\ r.pc = "up" /\ r.token = "none" /\ r.left = left
  <2> HIDE DEF left
  <2> QED
    BY <1>3 DEF Files!Down, Files!Process, Files!Place
<1>5. ASSUME ~left, NEW t \in Token, f.temps[t].kind = "file"
      PROVE  FALSE
  <2>1. Files!Works(was) /\ was.pc \notin {"scan", "cleanup"}
    BY <1>1 DEF Files!Local, Files!Held, was
  <2>2. t = was.token
    BY <1>1, <1>5, <2>1 DEF Files!Local, Files!NoOrphan
  <2> QED
    BY <1>5, <2>2, FileConstants DEF Files!NamesAssumption
<1> HIDE DEF r, left
<1>6. Files!Local(p, r, f)
  BY <1>4, <1>5 DEF Files!Local, Files!Works, Files!OwnTemp, Files!NoOrphan, Files!OwnBackup,
     Files!Second, Files!Opening, Files!Checking
<1> QED
  BY <1>2, <1>4, <1>6, FilesOneMoves

LEMMA FilesFails ==
    ASSUME Files!IInv, NEW p \in Proc, NEW a \in {"unsafe", "outofsync", "failed"},
           Files!Works(s[p]), s[p].pc \notin {"scan", "cleanup"}, Files!Fails(p, a), UNCHANGED n
    PROVE  Files!IInv'
<1>1. Files!Held(p) /\ s[p] \in Files!Process /\ fs \in Files!Directory
  BY DEF Files!IInv, Files!Types, Files!Local, Files!Held
<1>2. PICK f \in Files!Directory :
        /\ fs' = f /\ f.holder = p /\ f.config = fs.config /\ f.backup = fs.backup
        /\ \A t \in Token : f.temps[t].kind = "file" => fs.temps[t].kind = "file"
  <2>1. CASE fs' = fs
    BY <1>1, <2>1 DEF Files!Held
  <2>2. CASE s[p].token # "none" /\ fs' = [fs EXCEPT !.temps[s[p].token] = Files!NoFile]
    <3> DEFINE f == [fs EXCEPT !.temps[s[p].token] = Files!NoFile]
    <3>1. s[p].token \in Token
      BY <1>1, <2>2 DEF Files!Process
    <3>2. Files!NoFile \in Files!Object /\ Files!NoFile.kind = "none"
      BY DEF Files!NoFile, Files!Object
    <3>3. f \in Files!Directory
      BY <1>1, <3>1, <3>2 DEF Files!Directory
    <3>4. f.holder = p /\ f.config = fs.config /\ f.backup = fs.backup
      BY <1>1 DEF Files!Directory, Files!Held
    <3>5. \A t \in Token : f.temps[t] = IF t = s[p].token THEN Files!NoFile ELSE fs.temps[t]
      BY <1>1, <3>1 DEF Files!Directory
    <3> QED
      BY <2>2, <3>2, <3>3, <3>4, <3>5
  <2> QED
    BY <2>1, <2>2 DEF Files!Fails, Files!UnlinkTemp
<1>3. Files!Common(f, n'.acked)
  BY <1>2 DEF Files!IInv, Files!Common
<1>4. n' \in [doc : Nat, edits : Nat, kills : Nat, acked : Nat]
  BY DEF Files!IInv, Files!Types
<1>5. Files!Answer(p, a)
  BY DEF Files!Fails
<1> QED
  BY <1>1, <1>2, <1>3, <1>4, <1>5, FilesAnswers

(* Before the lock is held *)
LEMMA FilesWaits ==
    ASSUME Files!IInv, NEW p \in Proc, s[p].pc \in {"down"} \cup Files!Opening,
           NEW r \in Files!Process, s' = [s EXCEPT ![p] = r],
           r.pc \in Files!Opening, r.token = "none",
           NEW f \in Files!Directory, fs' = f, f.temps = fs.temps, f.config = fs.config,
           f.backup = fs.backup, f.holder = fs.holder, UNCHANGED n
    PROVE  Files!IInv'
<1>1. Files!Local(p, s[p], fs) /\ Files!Common(fs, n.acked) /\ n \in [doc : Nat, edits : Nat, kills : Nat, acked : Nat]
  BY DEF Files!IInv, Files!Types
<1>2. f.holder # p
  BY <1>1 DEF Files!Local, Files!Works
<1>3. Files!Local(p, r, f)
  BY <1>2 DEF Files!Local, Files!Works, Files!OwnTemp, Files!NoOrphan, Files!OwnBackup,
     Files!Second, Files!Opening, Files!Checking
<1>4. Files!Common(f, n'.acked)
  BY <1>1 DEF Files!Common
<1> QED
  BY <1>1, <1>3, <1>4, FilesOneMoves

LEMMA FilesOpens ==
    ASSUME Files!IInv, NEW p \in Proc,
           Files!Open(p) \/ Files!CreateLock(p) \/ Files!OpenExistingLock(p) \/ Files!EnsureLockByte(p)
    PROVE  Files!IInv'
<1> DEFINE was == s[p]
<1>1. was \in Files!Process /\ Files!Local(p, was, fs) /\ fs \in Files!Directory /\ s \in [Proc -> Files!Process]
  BY DEF Files!IInv, Files!Types
<1>2. n' = n /\ n \in [doc : Nat, edits : Nat, kills : Nat, acked : Nat]
  BY DEF Files!IInv, Files!Types, Files!Open, Files!CreateLock, Files!OpenExistingLock,
     Files!EnsureLockByte
<1>3. was.pc \in {"down"} \cup Files!Opening
  BY DEF Files!At, Files!Opening, Files!Open, Files!CreateLock, Files!OpenExistingLock,
     Files!EnsureLockByte
<1>4. was.token = "none"
  BY <1>1, <1>3 DEF Files!Local, Files!Works, Files!OwnTemp, Files!NoOrphan, Files!OwnBackup,
     Files!Second, Files!Opening, Files!Checking
<1>5. CASE Files!OpenRaises(p)
  BY <1>2, <1>5, FilesRaises
<1>6. CASE s' = [s EXCEPT ![p] = [Files!Down EXCEPT !.pc = "lock"]] /\ UNCHANGED fs
  <2> DEFINE r == [Files!Down EXCEPT !.pc = "lock"]
  <2>1. r \in Files!Process /\ r.pc = "lock" /\ r.token = "none"
    BY DEF Files!Down, Files!Process, Files!Place, Files!Opening
  <2> HIDE DEF r
  <2> QED
    BY <1>1, <1>2, <1>3, <1>6, <2>1, FilesWaits DEF Files!Opening, r
<1>7. ASSUME NEW to \in Files!Opening, Files!Go(p, to), NEW f \in Files!Directory, fs' = f,
             f.temps = fs.temps, f.config = fs.config, f.backup = fs.backup, f.holder = fs.holder
      PROVE  Files!IInv'
  <2> DEFINE r == [was EXCEPT !.pc = to]
  <2>1. s' = [s EXCEPT ![p] = r]
    BY <1>7 DEF Files!Go
  <2> HIDE DEF was
  <2>2. r \in Files!Process /\ r.pc = to /\ r.token = "none"
    BY <1>1, <1>4 DEF Files!Process, Files!Place
  <2> HIDE DEF r
  <2> QED
    BY <1>2, <1>3, <1>7, <2>1, <2>2, FilesWaits DEF was
<1>8. CASE Files!CreateLock(p) /\ fs' = [fs EXCEPT !.lock = "file", !.byte = FALSE] /\ Files!Go(p, "byte")
  <2> DEFINE f == [fs EXCEPT !.lock = "file", !.byte = FALSE]
  <2>1. /\ f \in Files!Directory /\ f.temps = fs.temps /\ f.config = fs.config
        /\ f.backup = fs.backup /\ f.holder = fs.holder
    BY <1>1 DEF Files!Directory
  <2> HIDE DEF f
  <2> QED
    BY <1>7, <1>8, <2>1 DEF Files!Opening, f
<1>9. CASE Files!EnsureLockByte(p) /\ fs' = [fs EXCEPT !.byte = TRUE] /\ Files!Go(p, "acquire")
  <2> DEFINE f == [fs EXCEPT !.byte = TRUE]
  <2>1. /\ f \in Files!Directory /\ f.temps = fs.temps /\ f.config = fs.config
        /\ f.backup = fs.backup /\ f.holder = fs.holder
    BY <1>1 DEF Files!Directory
  <2> HIDE DEF f
  <2> QED
    BY <1>7, <1>9, <2>1 DEF Files!Opening, f
<1>10. CASE UNCHANGED fs /\ (Files!Go(p, "existing") \/ Files!Go(p, "byte"))
  BY <1>1, <1>7, <1>10 DEF Files!Opening
<1> QED
  BY <1>5, <1>6, <1>8, <1>9, <1>10 DEF Files!Open, Files!CreateLock, Files!OpenExistingLock,
     Files!EnsureLockByte

LEMMA FilesAcquires ==
    ASSUME Files!IInv, NEW p \in Proc, Files!AcquireLock(p)
    PROVE  Files!IInv'
<1> DEFINE was == s[p]
           r == [was EXCEPT !.pc = "scan"]
           f == [fs EXCEPT !.holder = p]
<1>1. /\ was \in Files!Process /\ Files!Local(p, was, fs) /\ was.pc = "acquire"
      /\ fs \in Files!Directory /\ Files!Common(fs, n.acked) /\ n' = n /\ n \in [doc : Nat, edits : Nat, kills : Nat, acked : Nat]
  BY DEF Files!IInv, Files!Types, Files!AcquireLock, Files!At
<1>2. CASE Files!OpenRaises(p)
  BY <1>1, <1>2, FilesRaises
<1>3. CASE fs.holder = "nobody" /\ fs' = f /\ Files!Go(p, "scan")
  <2>1. s' = [s EXCEPT ![p] = r]
    BY <1>3 DEF Files!Go
  <2> HIDE DEF was
  <2>2. r \in Files!Process /\ r.pc = "scan" /\ r.token = "none"
    BY <1>1 DEF Files!Local, Files!Works, Files!OwnTemp, Files!NoOrphan, Files!OwnBackup,
       Files!Second, Files!Opening, Files!Checking, Files!Process, Files!Place
  <2>3. /\ f \in Files!Directory /\ f.temps = fs.temps /\ f.config = fs.config
        /\ f.backup = fs.backup /\ f.holder = p
    BY <1>1 DEF Files!Directory
  <2> HIDE DEF r, f
  <2>4. Files!Local(p, r, f)
    BY <2>2, <2>3 DEF Files!Local, Files!Works, Files!OwnTemp, Files!NoOrphan, Files!OwnBackup,
       Files!Second, Files!Opening, Files!Checking
  <2>5. Files!Common(f, n'.acked)
    BY <1>1, <2>3 DEF Files!Common
  <2> QED
    BY <1>1, <1>3, <2>1, <2>2, <2>3, <2>4, <2>5, FilesOneMoves
<1> QED
  BY <1>2, <1>3 DEF Files!AcquireLock

(* With the lock held *)
LEMMA FilesWorks ==
    ASSUME Files!IInv, NEW p \in Proc, Files!Works(s[p]), NEW r \in Files!Process,
           s' = [s EXCEPT ![p] = r], Files!Works(r), NEW f \in Files!Directory, fs' = f,
           f.holder = fs.holder, Files!OwnTemp(r, f), Files!NoOrphan(r, f), Files!OwnBackup(r, f),
           n' \in [doc : Nat, edits : Nat, kills : Nat, acked : Nat], Files!Common(f, n'.acked)
    PROVE  Files!IInv'
<1>1. Files!Held(p) /\ f.holder = p
  BY DEF Files!IInv, Files!Local, Files!Held
<1> QED
  BY <1>1, FilesOneMoves DEF Files!Local

LEMMA FilesScans ==
    ASSUME Files!IInv, NEW p \in Proc, Files!ScanTemps(p)
    PROVE  Files!IInv'
<1> DEFINE was == s[p]
<1>1. /\ was \in Files!Process /\ Files!Local(p, was, fs) /\ was.pc = "scan"
      /\ fs \in Files!Directory /\ Files!Common(fs, n.acked) /\ n \in [doc : Nat, edits : Nat, kills : Nat, acked : Nat]
  BY DEF Files!IInv, Files!Types, Files!ScanTemps, Files!At
<1>2. Files!Works(was) /\ was.pc \notin {"down"} \cup Files!Opening
  BY <1>1 DEF Files!Works, Files!Opening
<1>3. n' = n
  BY DEF Files!ScanTemps
<1>4. CASE Files!OpenRaises(p)
  BY <1>1, <1>3, <1>4, FilesRaises
<1>5. CASE UNCHANGED fs /\ s' = [s EXCEPT ![p].pc = "cleanup",
                                       ![p].names = {t \in Token : fs.temps[t].kind # "none"}]
  <2> DEFINE found == {t \in Token : fs.temps[t].kind # "none"}
             r == [was EXCEPT !.pc = "cleanup", !.names = found]
  <2>1. s' = [s EXCEPT ![p] = r]
    BY <1>5 DEF Files!IInv, Files!Types
  <2>2. \A t \in Token : fs.temps[t].kind = "file" => t \in found
    OBVIOUS
  <2>3. found \in SUBSET Token
    OBVIOUS
  <2> HIDE DEF was, found
  <2>4. r \in Files!Process /\ r.pc = "cleanup" /\ r.names = found /\ r.token = was.token
    BY <1>1, <2>3 DEF Files!Process, Files!Place
  <2>5. was.token = "none"
    BY <1>1 DEF Files!Local, Files!Works, Files!OwnTemp, Files!NoOrphan, Files!OwnBackup,
       Files!Second, Files!Opening, Files!Checking
  <2> HIDE DEF r
  <2>6. Files!Works(r) /\ Files!OwnTemp(r, fs) /\ Files!NoOrphan(r, fs) /\ Files!OwnBackup(r, fs)
    BY <2>2, <2>4, <2>5 DEF Files!Works, Files!OwnTemp, Files!NoOrphan, Files!OwnBackup,
       Files!Second, Files!Opening, Files!Checking
  <2> QED
    BY <1>1, <1>2, <1>3, <1>5, <2>1, <2>4, <2>6, FilesWorks DEF was
<1> QED
  BY <1>4, <1>5 DEF Files!ScanTemps

LEMMA FilesCleansUp ==
    ASSUME Files!IInv, NEW p \in Proc, Files!CleanupOrphan(p)
    PROVE  Files!IInv'
<1> DEFINE was == s[p]
<1>1. /\ was \in Files!Process /\ Files!Local(p, was, fs) /\ was.pc = "cleanup"
      /\ fs \in Files!Directory /\ Files!Common(fs, n.acked) /\ n \in [doc : Nat, edits : Nat, kills : Nat, acked : Nat]
  BY DEF Files!IInv, Files!Types, Files!CleanupOrphan, Files!At
<1>2. Files!Works(was) /\ was.pc \notin {"down"} \cup Files!Opening
  BY <1>1 DEF Files!Works, Files!Opening
<1>3. n' = n
  BY DEF Files!CleanupOrphan
<1>4. was.token = "none" /\ \A t \in Token : fs.temps[t].kind = "file" => t \in was.names
  BY <1>1 DEF Files!Local, Files!Works, Files!OwnTemp, Files!NoOrphan, Files!OwnBackup,
     Files!Second, Files!Opening, Files!Checking
<1>5. CASE Files!OpenRaises(p)
  BY <1>1, <1>3, <1>5, FilesRaises
<1>6. CASE was.names = {} /\ s' = [s EXCEPT ![p].pc = "stat", ![p].ret = "opened"] /\ UNCHANGED fs
  <2> DEFINE r == [was EXCEPT !.pc = "stat", !.ret = "opened"]
  <2>1. s' = [s EXCEPT ![p] = r]
    BY <1>6 DEF Files!IInv, Files!Types
  <2>2. \A t \in Token : fs.temps[t].kind # "file"
    BY <1>4, <1>6
  <2> HIDE DEF was
  <2>3. r \in Files!Process /\ r.pc = "stat" /\ r.ret = "opened" /\ r.token = "none"
    BY <1>1, <1>4 DEF Files!Process, Files!Place, Files!Checking
  <2> HIDE DEF r
  <2>4. Files!Works(r) /\ Files!OwnTemp(r, fs) /\ Files!NoOrphan(r, fs) /\ Files!OwnBackup(r, fs)
    BY <2>2, <2>3 DEF Files!Works, Files!OwnTemp, Files!NoOrphan, Files!OwnBackup, Files!Second,
       Files!Opening, Files!Checking
  <2> QED
    BY <1>1, <1>2, <1>3, <1>6, <2>1, <2>3, <2>4, FilesWorks DEF was
<1>7. ASSUME NEW t \in was.names, s' = [s EXCEPT ![p].names = @ \ {t}],
             fs' = IF fs.temps[t].kind = "file" THEN [fs EXCEPT !.temps[t] = Files!NoFile] ELSE fs
      PROVE  Files!IInv'
  <2> DEFINE r == [was EXCEPT !.names = @ \ {t}]
  <2>1. s' = [s EXCEPT ![p] = r]
    BY <1>7 DEF Files!IInv, Files!Types
  <2> HIDE DEF was
  <2>2. /\ r \in Files!Process /\ r.pc = "cleanup" /\ r.names = was.names \ {t}
        /\ r.token = "none" /\ t \in Token
    BY <1>1, <1>4, <1>7 DEF Files!Process
  <2>3. PICK f \in Files!Directory :
          /\ fs' = f /\ f.holder = fs.holder /\ f.config = fs.config /\ f.backup = fs.backup
          /\ \A u \in Token : f.temps[u].kind = "file" => fs.temps[u].kind = "file" /\ u # t
    <3>1. CASE fs.temps[t].kind # "file"
      BY <1>1, <1>7, <3>1
    <3>2. CASE fs.temps[t].kind = "file"
      <4> DEFINE f == [fs EXCEPT !.temps[t] = Files!NoFile]
      <4>1. Files!NoFile \in Files!Object /\ Files!NoFile.kind = "none"
        BY DEF Files!NoFile, Files!Object
      <4>2. f \in Files!Directory
        BY <1>1, <2>2, <4>1 DEF Files!Directory
      <4>3. f.holder = fs.holder /\ f.config = fs.config /\ f.backup = fs.backup
        BY <1>1 DEF Files!Directory
      <4>4. \A u \in Token : f.temps[u] = IF u = t THEN Files!NoFile ELSE fs.temps[u]
        BY <1>1, <2>2 DEF Files!Directory
      <4> QED
        BY <1>7, <3>2, <4>1, <4>2, <4>3, <4>4
    <3> QED
      BY <3>1, <3>2
  <2> HIDE DEF r
  <2>4. Files!Works(r) /\ Files!OwnTemp(r, f) /\ Files!NoOrphan(r, f) /\ Files!OwnBackup(r, f)
    BY <1>4, <2>2, <2>3 DEF Files!Works, Files!OwnTemp, Files!NoOrphan, Files!OwnBackup,
       Files!Second, Files!Opening, Files!Checking
  <2>5. Files!Common(f, n'.acked)
    BY <1>1, <1>3, <2>3 DEF Files!Common
  <2> QED
    BY <1>1, <1>2, <1>3, <2>1, <2>2, <2>3, <2>4, <2>5, FilesWorks DEF was
<1> QED
  BY <1>5, <1>6, <1>7 DEF Files!CleanupOrphan

(* What was read did not hold: open raises, or the write fails. *)
LEMMA FilesSnapshotFails ==
    ASSUME Files!IInv, NEW p \in Proc, s[p].pc \in Files!Checking, Files!SnapshotFails(p),
           UNCHANGED n
    PROVE  Files!IInv'
<1>1. Files!Works(s[p]) /\ s[p].pc \notin {"scan", "cleanup"}
  BY DEF Files!Works, Files!Opening, Files!Checking
<1>2. n \in [doc : Nat, edits : Nat, kills : Nat, acked : Nat]
  BY DEF Files!IInv, Files!Types
<1> QED
  BY <1>1, <1>2, FilesRaises, FilesFails DEF Files!SnapshotFails

(* A step in the record of p alone, that keeps what the steps depend on. *)
LEMMA FilesGoes ==
    ASSUME Files!IInv, NEW p \in Proc, Files!Works(s[p]), NEW r \in Files!Process,
           s' = [s EXCEPT ![p] = r], Files!Works(r), UNCHANGED fs,
           n' \in [doc : Nat, edits : Nat, kills : Nat, acked : Nat], n'.acked = n.acked,
           Files!OwnTemp(r, fs), Files!NoOrphan(r, fs), Files!OwnBackup(r, fs)
    PROVE  Files!IInv'
  BY FilesWorks DEF Files!IInv, Files!Types

LEMMA FilesStats ==
    ASSUME Files!IInv, NEW p \in Proc, Files!ReadStat(p)
    PROVE  Files!IInv'
<1> DEFINE was == s[p]
<1>1. /\ was \in Files!Process /\ Files!Local(p, was, fs) /\ was.pc = "stat"
      /\ fs \in Files!Directory /\ Files!Common(fs, n.acked) /\ n \in [doc : Nat, edits : Nat, kills : Nat, acked : Nat]
  BY DEF Files!IInv, Files!Types, Files!ReadStat, Files!At
<1>2. Files!Works(was) /\ was.pc \notin {"down"} \cup Files!Opening
  BY <1>1 DEF Files!Works, Files!Opening
<1>3. n' = n
  BY DEF Files!ReadStat
<1>4. CASE Files!SnapshotFails(p)
  BY <1>1, <1>3, <1>4, FilesSnapshotFails DEF Files!Checking
<1>5. CASE s' = [s EXCEPT ![p].pc = "read", ![p].ino = fs.ino] /\ UNCHANGED fs
  <2> DEFINE r == [was EXCEPT !.pc = "read", !.ino = fs.ino]
  <2>1. s' = [s EXCEPT ![p] = r]
    BY <1>5 DEF Files!IInv, Files!Types
  <2> HIDE DEF was
  <2>2. /\ r \in Files!Process /\ r.pc = "read" /\ r.ret = was.ret /\ r.token = was.token
        /\ r.doc = was.doc /\ r.left = was.left
    BY <1>1 DEF Files!Process, Files!Place, Files!Checking, Files!Directory
  <2> HIDE DEF r
  <2>3. Files!Works(r) /\ Files!OwnTemp(r, fs) /\ Files!NoOrphan(r, fs) /\ Files!OwnBackup(r, fs)
    BY <1>1, <2>2 DEF Files!Local, Files!Works, Files!OwnTemp, Files!NoOrphan, Files!OwnBackup,
       Files!Second, Files!Opening, Files!Checking
  <2> QED
    BY <1>1, <1>2, <1>3, <1>5, <2>1, <2>2, <2>3, FilesGoes DEF was
<1> QED
  BY <1>4, <1>5 DEF Files!ReadStat

LEMMA FilesReads ==
    ASSUME Files!IInv, NEW p \in Proc, Files!ReadOpen(p)
    PROVE  Files!IInv'
<1> DEFINE was == s[p]
<1>1. /\ was \in Files!Process /\ Files!Local(p, was, fs) /\ was.pc = "read"
      /\ fs \in Files!Directory /\ Files!Common(fs, n.acked) /\ n \in [doc : Nat, edits : Nat, kills : Nat, acked : Nat]
  BY DEF Files!IInv, Files!Types, Files!ReadOpen, Files!At
<1>2. Files!Works(was) /\ was.pc \notin {"down"} \cup Files!Opening
  BY <1>1 DEF Files!Works, Files!Opening
<1>3. n' = n
  BY DEF Files!ReadOpen
<1>4. CASE Files!SnapshotFails(p)
  BY <1>1, <1>3, <1>4, FilesSnapshotFails DEF Files!Checking
<1>5. CASE fs.config.kind = "file" /\ Files!Verified(p, fs.config.doc)
  <2>1. CASE was.ret = "opened"
    <3>1. Files!Held(p) /\ fs.holder = p
      BY <1>1, <1>2 DEF Files!Local, Files!Held
    <3>2. Files!Answer(p, "opened") /\ fs' = fs
      BY <1>5, <2>1 DEF Files!Verified
    <3> QED
      BY <1>1, <1>3, <3>1, <3>2, FilesAnswers
  <2>2. CASE was.ret # "opened" /\ fs.config.doc # was.expected
    <3>1. Files!Fails(p, "outofsync")
      BY <1>5, <2>2 DEF Files!Verified
    <3> QED
      BY <1>1, <1>2, <1>3, <3>1, FilesFails
  <2>3. ASSUME was.ret # "opened", fs.config.doc = was.expected, UNCHANGED fs,
               NEW to \in {"temp", "replace"}, to = "temp" <=> was.ret = "initial", Files!Go(p, to)
        PROVE  Files!IInv'
    <3> DEFINE r == [was EXCEPT !.pc = to]
    <3>1. s' = [s EXCEPT ![p] = r]
      BY <2>3 DEF Files!Go
    <3> HIDE DEF was
    <3>2. /\ r \in Files!Process /\ r.pc = to /\ r.ret = was.ret /\ r.token = was.token
          /\ r.doc = was.doc /\ r.left = was.left /\ r.expected = was.expected
      BY <1>1, <2>3 DEF Files!Process, Files!Place
    <3>3. fs.config = Files!File(was.expected, TRUE)
      BY <1>1, <1>5, <2>3 DEF Files!Common, Files!Directory, Files!Object, Files!File
    <3>4. was.ret \in {"initial", "prereplace"}
      BY <1>1, <2>3 DEF Files!Process, Files!Local, Files!OwnTemp, Files!Checking
    <3> HIDE DEF r
    <3>5. Files!Works(r) /\ Files!OwnTemp(r, fs) /\ Files!NoOrphan(r, fs) /\ Files!OwnBackup(r, fs)
      BY <1>1, <2>3, <3>2, <3>3, <3>4 DEF Files!Local, Files!Works, Files!OwnTemp,
         Files!NoOrphan, Files!OwnBackup, Files!Second, Files!Opening, Files!Checking
    <3> QED
      BY <1>1, <1>2, <1>3, <2>3, <3>1, <3>2, <3>5, FilesGoes DEF was
  <2> QED
    BY <1>5, <2>1, <2>2, <2>3 DEF Files!Verified
<1> QED
  BY <1>4, <1>5 DEF Files!ReadOpen

LEMMA FilesWhole ==
    ASSUME NEW d \in Nat
    PROVE  /\ [Files!File(d, FALSE) EXCEPT !.whole = TRUE] = Files!File(d, TRUE)
           /\ Files!File(d, TRUE) \in Files!Object
<1>1. Files!File(d, TRUE) \in Files!Object
  BY DEF Files!File, Files!Object
<1> DEFINE x == [Files!File(d, FALSE) EXCEPT !.whole = TRUE]
<1>2. x \in Files!Object /\ x.kind = "file" /\ x.doc = d /\ x.whole
  BY DEF Files!File, Files!Object
<1>3. x = Files!File(d, TRUE)
  <2> HIDE DEF x
  <2> QED
    BY <1>2 DEF Files!File, Files!Object
<1> QED
  BY <1>1, <1>3

LEMMA FilesWrites ==
    ASSUME Files!IInv, NEW p \in Proc, Files!Write(p)
    PROVE  Files!IInv'
<1> DEFINE was == s[p]
<1>1. /\ was \in Files!Process /\ Files!Local(p, was, fs) /\ was.pc = "up"
      /\ fs \in Files!Directory /\ Files!Common(fs, n.acked) /\ n \in [doc : Nat, edits : Nat, kills : Nat, acked : Nat]
  BY DEF Files!IInv, Files!Types, Files!Write, Files!At
<1>2. Files!Works(was) /\ was.pc \notin {"scan", "cleanup"}
  BY <1>1 DEF Files!Works, Files!Opening
<1>3. UNCHANGED fs /\ n' = [n EXCEPT !.doc = @ + 1] /\ fs.config.kind = "file"
  BY DEF Files!Write
<1>4. n' \in [doc : Nat, edits : Nat, kills : Nat, acked : Nat] /\ n'.acked = n.acked
  BY <1>1, <1>3
<1>5. PICK expected \in {fs.config.doc, 1} :
        s' = [s EXCEPT ![p].pc = "stat", ![p].ret = "initial", ![p].expected = expected,
                       ![p].doc = n.doc + 1]
  BY DEF Files!Write
<1> DEFINE r == [was EXCEPT !.pc = "stat", !.ret = "initial", !.expected = expected, !.doc = n.doc + 1]
<1>6. s' = [s EXCEPT ![p] = r]
  BY <1>5 DEF Files!IInv, Files!Types
<1> HIDE DEF was
<1>7. expected \in Nat /\ n.doc + 1 \in Nat
  BY <1>1, <1>5 DEF Files!Directory, Files!Object
<1>8. /\ r \in Files!Process /\ r.pc = "stat" /\ r.ret = "initial" /\ r.token = was.token
      /\ r.left = was.left
  BY <1>1, <1>7 DEF Files!Process, Files!Place, Files!Checking
<1> HIDE DEF r
<1>9. Files!Works(r) /\ Files!OwnTemp(r, fs) /\ Files!NoOrphan(r, fs) /\ Files!OwnBackup(r, fs)
  BY <1>1, <1>8 DEF Files!Local, Files!Works, Files!OwnTemp, Files!NoOrphan, Files!OwnBackup,
     Files!Second, Files!Opening, Files!Checking
<1> QED
  BY <1>1, <1>2, <1>3, <1>4, <1>6, <1>8, <1>9, FilesGoes DEF was

LEMMA FilesCreatesTemp ==
    ASSUME Files!IInv, NEW p \in Proc, Files!CreateTemp(p)
    PROVE  Files!IInv'
<1> DEFINE was == s[p]
<1>1. /\ was \in Files!Process /\ Files!Local(p, was, fs) /\ was.pc = "temp"
      /\ fs \in Files!Directory /\ Files!Common(fs, n.acked) /\ n \in [doc : Nat, edits : Nat, kills : Nat, acked : Nat]
  BY DEF Files!IInv, Files!Types, Files!CreateTemp, Files!At
<1>2. Files!Works(was) /\ was.pc \notin {"scan", "cleanup"}
  BY <1>1 DEF Files!Works, Files!Opening
<1>3. n' = n /\ was.token = "none" /\ fs.holder = p /\ Files!Held(p)
  BY <1>1, <1>2 DEF Files!CreateTemp, Files!Held, Files!Local, Files!Works, Files!OwnTemp,
     Files!NoOrphan, Files!OwnBackup, Files!Second, Files!Opening, Files!Checking
<1>4. CASE UNCHANGED fs /\ Files!Answer(p, "failed")
  BY <1>1, <1>2, <1>3, <1>4, FilesAnswers
<1>5. ASSUME NEW t \in Token, fs.temps[t].kind = "none",
             fs' = [fs EXCEPT !.temps[t] = Files!File(s[p].doc, FALSE)],
             s' = [s EXCEPT ![p].pc = "fill", ![p].token = t]
      PROVE  Files!IInv'
  <2> DEFINE new == Files!File(was.doc, FALSE)
             f == [fs EXCEPT !.temps[t] = new]
             r == [was EXCEPT !.pc = "fill", !.token = t]
  <2>1. s' = [s EXCEPT ![p] = r] /\ fs' = f
    BY <1>5 DEF Files!IInv, Files!Types
  <2> HIDE DEF was
  <2>2. /\ r \in Files!Process /\ r.pc = "fill" /\ r.token = t /\ r.doc = was.doc
        /\ r.left = was.left /\ t # "none"
    BY <1>1, FileConstants DEF Files!Process, Files!Place, Files!NamesAssumption
  <2>3. new \in Files!Object
    BY <1>1 DEF Files!Process, Files!Object, Files!File
  <2> HIDE DEF new
  <2>4. /\ f \in Files!Directory /\ f.holder = fs.holder /\ f.config = fs.config
        /\ f.backup = fs.backup
    BY <1>1, <2>3 DEF Files!Directory
  <2>5. f.temps[t] = new /\ \A u \in Token : u # t => f.temps[u] = fs.temps[u]
    BY <1>1 DEF Files!Directory
  <2> HIDE DEF f, r
  <2>6. Files!Works(r) /\ Files!OwnTemp(r, f) /\ Files!NoOrphan(r, f) /\ Files!OwnBackup(r, f)
    BY <1>1, <1>3, <2>2, <2>5, FileConstants DEF Files!Local, Files!Works, Files!OwnTemp,
       Files!NoOrphan, Files!OwnBackup, Files!Second, Files!Opening, Files!Checking,
       Files!NamesAssumption, new
  <2>7. Files!Common(f, n'.acked)
    BY <1>1, <1>3, <2>4 DEF Files!Common
  <2> QED
    BY <1>1, <1>2, <1>3, <2>1, <2>2, <2>4, <2>6, <2>7, FilesWorks DEF was
<1> QED
  BY <1>4, <1>5 DEF Files!CreateTemp

LEMMA FilesWritesTemp ==
    ASSUME Files!IInv, NEW p \in Proc, Files!WriteTemp(p)
    PROVE  Files!IInv'
<1> DEFINE was == s[p]
<1>1. /\ was \in Files!Process /\ Files!Local(p, was, fs) /\ was.pc = "fill"
      /\ fs \in Files!Directory /\ Files!Common(fs, n.acked) /\ n \in [doc : Nat, edits : Nat, kills : Nat, acked : Nat]
  BY DEF Files!IInv, Files!Types, Files!WriteTemp, Files!At
<1>2. Files!Works(was) /\ was.pc \notin {"scan", "cleanup"}
  BY <1>1 DEF Files!Works, Files!Opening
<1>3. n' = n
  BY DEF Files!WriteTemp
<1>4. CASE Files!Fails(p, "failed")
  BY <1>2, <1>3, <1>4, FilesFails
<1>5. CASE /\ fs' = [fs EXCEPT !.temps[s[p].token].whole = TRUE]
           /\ s' = [s EXCEPT ![p].pc = "stat", ![p].ret = "prereplace"]
  <2> DEFINE t == was.token
             old == fs.temps[t]
             new == [old EXCEPT !.whole = TRUE]
             f == [fs EXCEPT !.temps[t] = new]
             r == [was EXCEPT !.pc = "stat", !.ret = "prereplace"]
  <2>1. s' = [s EXCEPT ![p] = r]
    BY <1>5 DEF Files!IInv, Files!Types
  <2>2. fs' = f
    BY <1>1, <1>5 DEF Files!Directory
  <2> HIDE DEF was
  <2>3. t \in Token /\ t # "none" /\ old = Files!File(was.doc, FALSE) /\ was.doc \in Nat
    BY <1>1 DEF Files!Local, Files!OwnTemp, Files!Process
  <2>4. /\ r \in Files!Process /\ r.pc = "stat" /\ r.ret = "prereplace" /\ r.token = t
        /\ r.doc = was.doc /\ r.left = was.left
    BY <1>1 DEF Files!Process, Files!Place, Files!Checking
  <2> HIDE DEF old
  <2>5. new = Files!File(was.doc, TRUE) /\ new \in Files!Object
    BY <2>3, FilesWhole
  <2> HIDE DEF new, t
  <2>6. /\ f \in Files!Directory /\ f.holder = fs.holder /\ f.config = fs.config
        /\ f.backup = fs.backup
    BY <1>1, <2>3, <2>5 DEF Files!Directory
  <2>7. f.temps[t] = new /\ \A u \in Token : u # t => f.temps[u] = fs.temps[u]
    BY <1>1, <2>3 DEF Files!Directory
  <2> HIDE DEF f, r
  <2>8. Files!Works(r) /\ Files!OwnTemp(r, f) /\ Files!NoOrphan(r, f) /\ Files!OwnBackup(r, f)
    BY <1>1, <2>3, <2>4, <2>5, <2>7 DEF Files!Local, Files!Works, Files!OwnTemp, Files!NoOrphan,
       Files!OwnBackup, Files!Second, Files!Opening, Files!Checking, t
  <2>9. Files!Common(f, n'.acked)
    BY <1>1, <1>3, <2>6 DEF Files!Common
  <2> QED
    BY <1>1, <1>2, <1>3, <2>1, <2>2, <2>4, <2>6, <2>8, <2>9, FilesWorks DEF was
<1> QED
  BY <1>4, <1>5 DEF Files!WriteTemp

LEMMA FilesReplaces ==
    ASSUME Files!IInv, NEW p \in Proc, Files!Replace(p)
    PROVE  Files!IInv'
<1> DEFINE was == s[p]
<1>1. /\ was \in Files!Process /\ Files!Local(p, was, fs) /\ was.pc = "replace"
      /\ fs \in Files!Directory /\ Files!Common(fs, n.acked) /\ n \in [doc : Nat, edits : Nat, kills : Nat, acked : Nat]
  BY DEF Files!IInv, Files!Types, Files!Replace, Files!At
<1>2. Files!Works(was) /\ was.pc \notin {"scan", "cleanup"}
  BY <1>1 DEF Files!Works, Files!Opening
<1>3. n' = n
  BY DEF Files!Replace
<1>4. CASE Files!Fails(p, "failed")
  BY <1>2, <1>3, <1>4, FilesFails
<1>5. CASE /\ fs' = [fs EXCEPT !.config = fs.temps[s[p].token], !.ino = s[p].doc, !.safe = TRUE,
                               !.temps[s[p].token] = Files!NoFile]
           /\ Files!Go(p, "sync")
  <2> DEFINE t == was.token
             new == fs.temps[t]
             f == [fs EXCEPT !.config = new, !.ino = was.doc, !.safe = TRUE,
                             !.temps[t] = Files!NoFile]
             r == [was EXCEPT !.pc = "sync"]
  <2>1. s' = [s EXCEPT ![p] = r] /\ fs' = f
    BY <1>5 DEF Files!Go
  <2> HIDE DEF was
  <2>2. t \in Token /\ t # "none" /\ new = Files!File(was.doc, TRUE) /\ was.doc \in Nat
    BY <1>1 DEF Files!Local, Files!OwnTemp, Files!Second, Files!Process
  <2>3. r \in Files!Process /\ r.pc = "sync" /\ r.token = t /\ r.left = was.left
    BY <1>1 DEF Files!Process, Files!Place
  <2> HIDE DEF new, t
  <2>4. new \in Files!Object /\ new.whole /\ Files!NoFile \in Files!Object /\ Files!NoFile.kind = "none"
    BY <2>2 DEF Files!File, Files!NoFile, Files!Object
  <2>5. f \in Files!Directory /\ f.holder = fs.holder /\ f.config = new /\ f.backup = fs.backup
    BY <1>1, <2>2, <2>4 DEF Files!Directory
  <2>6. f.temps[t] = Files!NoFile /\ \A u \in Token : u # t => f.temps[u] = fs.temps[u]
    BY <1>1, <2>2 DEF Files!Directory
  <2> HIDE DEF f, r
  <2>7. Files!Works(r) /\ Files!OwnTemp(r, f) /\ Files!NoOrphan(r, f) /\ Files!OwnBackup(r, f)
    BY <1>1, <2>2, <2>3, <2>4, <2>6 DEF Files!Local, Files!Works, Files!OwnTemp, Files!NoOrphan,
       Files!OwnBackup, Files!Second, Files!Opening, Files!Checking, t
  <2>8. Files!Common(f, n'.acked)
    BY <1>1, <1>3, <2>4, <2>5 DEF Files!Common
  <2> QED
    BY <1>1, <1>2, <1>3, <2>1, <2>3, <2>5, <2>7, <2>8, FilesWorks DEF was
<1> QED
  BY <1>4, <1>5 DEF Files!Replace

LEMMA FilesSyncs ==
    ASSUME Files!IInv, NEW p \in Proc, Files!SyncParent(p)
    PROVE  Files!IInv'
<1> DEFINE was == s[p]
<1>1. /\ was \in Files!Process /\ Files!Local(p, was, fs) /\ was.pc = "sync"
      /\ fs \in Files!Directory /\ Files!Common(fs, n.acked) /\ n \in [doc : Nat, edits : Nat, kills : Nat, acked : Nat]
  BY DEF Files!IInv, Files!Types, Files!SyncParent, Files!At
<1>2. Files!Works(was) /\ was.pc \notin {"scan", "cleanup"}
  BY <1>1 DEF Files!Works, Files!Opening
<1>3. UNCHANGED <<fs, n>> /\ \E a \in {"applied", "undurable"} : Files!Answer(p, a)
  BY DEF Files!SyncParent
<1>4. fs.holder = p /\ Files!Held(p)
  BY <1>1, <1>2 DEF Files!Local, Files!Held
<1> QED
  BY <1>1, <1>2, <1>3, <1>4, FilesAnswers

LEMMA FilesBeginsBackup ==
    ASSUME Files!IInv, NEW p \in Proc, Files!Backup(p)
    PROVE  Files!IInv'
<1> DEFINE was == s[p]
<1>1. /\ was \in Files!Process /\ Files!Local(p, was, fs) /\ was.pc = "up"
      /\ fs \in Files!Directory /\ Files!Common(fs, n.acked) /\ n \in [doc : Nat, edits : Nat, kills : Nat, acked : Nat]
  BY DEF Files!IInv, Files!Types, Files!Backup, Files!At
<1>2. Files!Works(was) /\ was.pc \notin {"scan", "cleanup"}
  BY <1>1 DEF Files!Works, Files!Opening
<1>3. n' = n /\ fs.config.kind = "file"
  BY DEF Files!Backup
<1>4. CASE UNCHANGED fs /\ Files!Answer(p, "failed")
  <2>1. fs.holder = p /\ Files!Held(p)
    BY <1>1, <1>2 DEF Files!Local, Files!Held
  <2> QED
    BY <1>1, <1>2, <1>3, <1>4, <2>1, FilesAnswers
<1>5. CASE /\ fs.backup.kind = "none" /\ fs' = [fs EXCEPT !.backup = Files!File(fs.config.doc, FALSE)]
           /\ s' = [s EXCEPT ![p].pc = "backup", ![p].doc = fs.config.doc]
  <2> DEFINE d == fs.config.doc
             new == Files!File(d, FALSE)
             f == [fs EXCEPT !.backup = new]
             r == [was EXCEPT !.pc = "backup", !.doc = d]
  <2>1. s' = [s EXCEPT ![p] = r] /\ fs' = f
    BY <1>5 DEF Files!IInv, Files!Types
  <2>2. d \in Nat
    BY <1>1 DEF Files!Directory, Files!Object
  <2>3. new \in Files!Object
    BY <2>2 DEF Files!Object, Files!File
  <2>4. n.acked = 0
    BY <1>1, <1>5 DEF Files!Common, Files!File
  <2> HIDE DEF was, d
  <2>5. /\ r \in Files!Process /\ r.pc = "backup" /\ r.doc = d /\ r.token = was.token
        /\ r.left = was.left
    BY <1>1, <2>2 DEF Files!Process, Files!Place
  <2> HIDE DEF new
  <2>6. /\ f \in Files!Directory /\ f.holder = fs.holder /\ f.config = fs.config
        /\ f.backup = new /\ f.temps = fs.temps
    BY <1>1, <2>3 DEF Files!Directory
  <2> HIDE DEF f, r
  <2>7. Files!Works(r) /\ Files!OwnTemp(r, f) /\ Files!NoOrphan(r, f) /\ Files!OwnBackup(r, f)
    BY <1>1, <2>5, <2>6 DEF Files!Local, Files!Works, Files!OwnTemp, Files!NoOrphan,
       Files!OwnBackup, Files!Second, Files!Opening, Files!Checking, new
  <2>8. Files!Common(f, n'.acked)
    BY <1>1, <1>3, <2>4, <2>6 DEF Files!Common
  <2> QED
    BY <1>1, <1>2, <1>3, <2>1, <2>5, <2>6, <2>7, <2>8, FilesWorks DEF was
<1> QED
  BY <1>4, <1>5 DEF Files!Backup

LEMMA FilesWritesBackup ==
    ASSUME Files!IInv, NEW p \in Proc, Files!WriteBackup(p)
    PROVE  Files!IInv'
<1> DEFINE was == s[p]
<1>1. /\ was \in Files!Process /\ Files!Local(p, was, fs) /\ was.pc = "backup"
      /\ fs \in Files!Directory /\ Files!Common(fs, n.acked) /\ n \in [doc : Nat, edits : Nat, kills : Nat, acked : Nat]
  BY DEF Files!IInv, Files!Types, Files!WriteBackup, Files!At
<1>2. Files!Works(was) /\ was.pc \notin {"scan", "cleanup"}
  BY <1>1 DEF Files!Works, Files!Opening
<1>3. fs.holder = p /\ Files!Held(p) /\ fs.backup = Files!File(was.doc, FALSE) /\ was.doc \in Nat
  BY <1>1, <1>2 DEF Files!Local, Files!Held, Files!OwnBackup, Files!Process
<1>4. n.acked = 0
  BY <1>1, <1>3 DEF Files!Common, Files!File
<1>5. ASSUME NEW b \in Files!Object, fs' = [fs EXCEPT !.backup = b],
             NEW a \in {"backup", "failed"}, Files!Answer(p, a), n' \in [doc : Nat, edits : Nat, kills : Nat, acked : Nat],
             n'.acked # 0 => b = Files!File(n'.acked, TRUE)
      PROVE  Files!IInv'
  <2> DEFINE f == [fs EXCEPT !.backup = b]
  <2>1. /\ f \in Files!Directory /\ f.holder = fs.holder /\ f.config = fs.config
        /\ f.backup = b /\ f.temps = fs.temps
    BY <1>1, <1>5 DEF Files!Directory
  <2> HIDE DEF f
  <2>2. Files!Common(f, n'.acked)
    BY <1>1, <1>5, <2>1 DEF Files!Common
  <2> QED
    BY <1>1, <1>2, <1>3, <1>5, <2>1, <2>2, FilesAnswers DEF f
<1>6. CASE /\ fs' = [fs EXCEPT !.backup.whole = TRUE] /\ n' = [n EXCEPT !.acked = s[p].doc]
           /\ Files!Answer(p, "backup")
  <2> DEFINE b == Files!File(was.doc, TRUE)
  <2>1. fs' = [fs EXCEPT !.backup = [fs.backup EXCEPT !.whole = TRUE]]
    BY <1>1, <1>6 DEF Files!Directory
  <2>3. b = [fs.backup EXCEPT !.whole = TRUE] /\ b \in Files!Object
    BY <1>3, FilesWhole
  <2>2. n' \in [doc : Nat, edits : Nat, kills : Nat, acked : Nat] /\ n'.acked = was.doc
    BY <1>1, <1>3, <1>6
  <2> HIDE DEF was
  <2> QED
    BY <1>5, <1>6, <2>1, <2>2, <2>3
<1>7. CASE UNCHANGED fs /\ UNCHANGED n /\ Files!Answer(p, "failed")
  BY <1>1, <1>2, <1>3, <1>7, FilesAnswers
<1>8. CASE /\ fs' = [fs EXCEPT !.backup = IF @.kind = "file" THEN Files!NoFile ELSE @]
           /\ UNCHANGED n /\ Files!Answer(p, "failed")
  <2> DEFINE b == IF fs.backup.kind = "file" THEN Files!NoFile ELSE fs.backup
  <2>1. fs' = [fs EXCEPT !.backup = b] /\ b \in Files!Object
    BY <1>1, <1>8 DEF Files!NoFile, Files!Object, Files!Directory
  <2> HIDE DEF b
  <2> QED
    BY <1>1, <1>4, <1>5, <1>8, <2>1
<1> QED
  BY <1>6, <1>7, <1>8 DEF Files!WriteBackup

LEMMA FilesCloses ==
    ASSUME Files!IInv, NEW p \in Proc, Files!Close(p) \/ Files!Kill(p)
    PROVE  Files!IInv'
<1>1. n \in [doc : Nat, edits : Nat, kills : Nat, acked : Nat]
  BY DEF Files!IInv, Files!Types
<1>2. n' \in [doc : Nat, edits : Nat, kills : Nat, acked : Nat] /\ n'.acked = n.acked
  BY <1>1 DEF Files!Close, Files!Kill
<1> QED
  BY <1>2, FilesRaises DEF Files!Close, Files!Kill

(* Somebody who ignores the lock *)
LEMMA FilesFewer ==
    ASSUME NEW r, NEW f, NEW g, Files!NoOrphan(r, g),
           \A t \in Token : f.temps[t].kind = "file" => g.temps[t].kind = "file"
    PROVE  Files!NoOrphan(r, f)
  BY DEF Files!NoOrphan

LEMMA FilesRaced ==
    ASSUME NEW r, NEW was, NEW f, NEW g, f.temps = g.temps,
           Files!OwnTemp(was, g), Files!NoOrphan(was, g),
           r.pc = was.pc, r.ret = was.ret, r.token = was.token, r.doc = was.doc,
           r.names = was.names, r.left = was.left, r.pc = "replace" => r.raced
    PROVE  Files!OwnTemp(r, f) /\ Files!NoOrphan(r, f)
<1>1. Files!OwnTemp(r, f)
  BY DEF Files!OwnTemp, Files!Second
<1>2. Files!NoOrphan(r, f)
  BY DEF Files!NoOrphan, Files!Works
<1> QED
  BY <1>1, <1>2

LEMMA FilesEdits ==
    ASSUME Files!IInv, Files!Edit
    PROVE  Files!IInv'
<1>1. /\ fs \in Files!Directory /\ s \in [Proc -> Files!Process]
      /\ n \in [doc : Nat, edits : Nat, kills : Nat, acked : Nat] /\ Files!Common(fs, n.acked)
      /\ \A p \in Proc : Files!Local(p, s[p], fs)
  BY DEF Files!IInv, Files!Types
<1>2. n' \in [doc : Nat, edits : Nat, kills : Nat, acked : Nat] /\ n'.acked = n.acked
  <2>1. \/ n' = [n EXCEPT !.doc = @ + 1, !.edits = @ + 1]
        \/ n' = [n EXCEPT !.edits = @ + 1]
    BY DEF Files!Edit
  <2>2. CASE n' = [n EXCEPT !.edits = @ + 1]
    BY <1>1, <2>2
  <2>3. CASE n' = [n EXCEPT !.doc = @ + 1, !.edits = @ + 1]
    <3> DEFINE d == n.doc + 1
               e == n.edits + 1
    <3>1. d \in Nat /\ e \in Nat /\ n' = [n EXCEPT !.doc = d, !.edits = e]
      BY <1>1, <2>3
    <3> HIDE DEF d, e
    <3> QED
      BY <1>1, <3>1
  <2> QED
    BY <2>1, <2>2, <2>3
<1>3. PICK f \in Files!Directory :
        /\ fs' = f /\ f.holder = fs.holder /\ f.backup = fs.backup
        /\ f.config.kind = "file" => f.config.whole
        /\ \/ f.temps = fs.temps /\ s' = Files!Raced
           \/ /\ f.config = fs.config /\ UNCHANGED s
              /\ \A t \in Token : \/ f.temps[t] = fs.temps[t]
                                  \/ fs.temps[t].kind = "none" /\ f.temps[t].kind = "link"
  <2>1. CASE /\ fs' = [fs EXCEPT !.config = Files!File(n.doc + 1, TRUE), !.ino = n.doc + 1]
             /\ s' = Files!Raced
    <3> DEFINE d == n.doc + 1
               c == Files!File(d, TRUE)
               f == [fs EXCEPT !.config = c, !.ino = d]
    <3>1. d \in Nat
      BY <1>1
    <3>2. c \in Files!Object /\ c.whole
      BY <3>1 DEF Files!File, Files!Object
    <3> HIDE DEF c, d
    <3>3. f \in Files!Directory /\ f.holder = fs.holder /\ f.backup = fs.backup /\ f.config = c
          /\ f.temps = fs.temps
      BY <1>1, <3>1, <3>2 DEF Files!Directory
    <3> QED
      BY <2>1, <3>2, <3>3 DEF c, d
  <2>2. CASE fs' = [fs EXCEPT !.config = Files!Link] /\ s' = Files!Raced
    <3> DEFINE f == [fs EXCEPT !.config = Files!Link]
    <3>1. Files!Link \in Files!Object /\ Files!Link.kind = "link"
      BY DEF Files!Link, Files!Object
    <3>2. f \in Files!Directory /\ f.holder = fs.holder /\ f.backup = fs.backup
          /\ f.config = Files!Link /\ f.temps = fs.temps
      BY <1>1, <3>1 DEF Files!Directory
    <3> QED
      BY <2>2, <3>1, <3>2
  <2>3. CASE fs' = [fs EXCEPT !.safe = ~@] /\ s' = Files!Raced
    <3> DEFINE f == [fs EXCEPT !.safe = ~@]
    <3>1. f \in Files!Directory /\ f.holder = fs.holder /\ f.backup = fs.backup
          /\ f.config = fs.config /\ f.temps = fs.temps
      BY <1>1 DEF Files!Directory
    <3> QED
      BY <1>1, <2>3, <3>1 DEF Files!Common
  <2>4. CASE \E t \in Token : /\ fs.temps[t].kind = "none" /\ UNCHANGED s
                              /\ fs' = [fs EXCEPT !.temps[t] = Files!Link]
    <3> PICK t \in Token : /\ fs.temps[t].kind = "none" /\ UNCHANGED s
                           /\ fs' = [fs EXCEPT !.temps[t] = Files!Link]
      BY <2>4
    <3> DEFINE f == [fs EXCEPT !.temps[t] = Files!Link]
    <3>1. Files!Link \in Files!Object /\ Files!Link.kind = "link"
      BY DEF Files!Link, Files!Object
    <3>2. f \in Files!Directory /\ f.holder = fs.holder /\ f.backup = fs.backup
          /\ f.config = fs.config
          /\ \A u \in Token : f.temps[u] = IF u = t THEN Files!Link ELSE fs.temps[u]
      BY <1>1, <3>1 DEF Files!Directory
    <3>6. fs.temps[t].kind = "none"
      OBVIOUS
    <3>3. \A u \in Token : \/ f.temps[u] = fs.temps[u]
                           \/ fs.temps[u].kind = "none" /\ f.temps[u].kind = "link"
      <4> HIDE DEF f
      <4> SUFFICES ASSUME NEW u \in Token
                   PROVE  \/ f.temps[u] = fs.temps[u]
                          \/ fs.temps[u].kind = "none" /\ f.temps[u].kind = "link"
        OBVIOUS
      <4>1. f.temps[u] = IF u = t THEN Files!Link ELSE fs.temps[u]
        BY <3>2
      <4> QED
        BY <3>1, <3>6, <4>1
    <3>4. f.config.kind = "file" => f.config.whole
      BY <1>1, <3>2 DEF Files!Common
    <3>5. fs' = f
      OBVIOUS
    <3> HIDE DEF f
    <3> QED
      BY <3>2, <3>3, <3>4, <3>5
  <2> QED
    BY <2>1, <2>2, <2>3, <2>4 DEF Files!Edit, Files!Outside
<1>4. Files!Common(f, n'.acked)
  BY <1>1, <1>2, <1>3 DEF Files!Common
<1>5. ASSUME NEW p \in Proc
      PROVE  s'[p] \in Files!Process /\ Files!Local(p, s'[p], f)
  <2> DEFINE was == s[p]
             r == s'[p]
  <2>1. was \in Files!Process /\ Files!Local(p, was, fs)
    BY <1>1
  <2>2. CASE f.temps = fs.temps /\ s' = Files!Raced
    <3>1. r = IF was.pc \in {"replace"} THEN [was EXCEPT !.raced = TRUE] ELSE was
      BY <2>2 DEF Files!Raced
    <3> HIDE DEF r, was
    <3>2. /\ r \in Files!Process
          /\ r.pc = was.pc /\ r.ret = was.ret /\ r.token = was.token /\ r.doc = was.doc
          /\ r.names = was.names /\ r.left = was.left /\ (r.pc = "replace" => r.raced)
      BY <2>1, <3>1 DEF Files!Process
    <3>3. Files!Works(r) <=> Files!Works(was)
      BY <3>2 DEF Files!Works
    <3>4. Files!OwnTemp(r, f) /\ Files!NoOrphan(r, f)
      <4>1. Files!OwnTemp(was, fs) /\ Files!NoOrphan(was, fs)
        BY <2>1 DEF Files!Local
      <4>2. f.temps = fs.temps
        BY <2>2
      <4> QED
        BY ONLY <3>2, <4>1, <4>2, FilesRaced
    <3>6. Files!OwnBackup(r, f) /\ (f.holder = p <=> Files!Works(r))
      BY <1>3, <2>1, <3>2, <3>3 DEF Files!Local, Files!OwnBackup
    <3> QED
      BY <3>2, <3>4, <3>6 DEF Files!Local, r
  <2>3. CASE /\ f.config = fs.config /\ UNCHANGED s
             /\ \A t \in Token : \/ f.temps[t] = fs.temps[t]
                                 \/ fs.temps[t].kind = "none" /\ f.temps[t].kind = "link"
    <3>1. r = was
      BY <2>3
    <3> HIDE DEF r, was
    <3>2. \A t \in Token : /\ f.temps[t].kind = "file" => fs.temps[t].kind = "file"
                           /\ fs.temps[t].kind = "file" => f.temps[t] = fs.temps[t]
      BY <2>3
    <3>3. \A w \in BOOLEAN : Files!File(was.doc, w).kind = "file"
      BY DEF Files!File
    <3>4. was.token # "none" => was.token \in Token
      BY <2>1 DEF Files!Process
    <3>5. Files!OwnTemp(was, f)
      <4>1. Files!OwnTemp(was, fs) /\ f.config = fs.config
        BY <2>1, <2>3 DEF Files!Local
      <4>2. was.token \in Token =>
              /\ f.temps[was.token].kind = "file" => fs.temps[was.token].kind = "file"
              /\ fs.temps[was.token].kind = "file" => f.temps[was.token] = fs.temps[was.token]
        BY <3>2
      <4>3. was.pc = "fill" => f.temps[was.token] = Files!File(was.doc, FALSE)
        BY <3>3, <3>4, <4>1, <4>2 DEF Files!OwnTemp
      <4>4. Files!Second(was) => f.temps[was.token] = Files!File(was.doc, TRUE)
        BY <3>3, <3>4, <4>1, <4>2 DEF Files!OwnTemp
      <4>5. was.pc = "sync" => was.token # "none" /\ f.temps[was.token].kind # "file"
        BY <3>4, <4>1, <4>2 DEF Files!OwnTemp
      <4> QED
        BY <4>1, <4>3, <4>4, <4>5 DEF Files!OwnTemp
    <3>6. Files!NoOrphan(was, f)
      <4>1. Files!NoOrphan(was, fs)
        BY <2>1 DEF Files!Local
      <4>2. \A t \in Token : f.temps[t].kind = "file" => fs.temps[t].kind = "file"
        BY <3>2
      <4> QED
        BY ONLY <4>1, <4>2, FilesFewer
    <3>7. Files!OwnBackup(was, f) /\ (f.holder = p <=> Files!Works(was))
      BY <1>3, <2>1 DEF Files!Local, Files!OwnBackup
    <3> QED
      BY <2>1, <3>1, <3>5, <3>6, <3>7 DEF Files!Local, r
  <2> QED
    BY <1>3, <2>2, <2>3
<1>6. s' \in [Proc -> Files!Process]
  <2>1. s' = s \/ s' = Files!Raced
    BY <1>3
  <2> QED
    BY <1>1, <1>5, <2>1 DEF Files!Raced
<1> QED
  BY <1>2, <1>3, <1>4, <1>5, <1>6 DEF Files!IInv, Files!Types

LEMMA FilesInitial == Files!Init => Files!IInv
<1> SUFFICES ASSUME Files!Init PROVE Files!IInv
  OBVIOUS
<1> DEFINE c == Files!File(1, TRUE)
           empty == [t \in Token |-> Files!NoFile]
           f == [config |-> c, ino |-> 1, safe |-> TRUE, lock |-> "none", byte |-> FALSE,
                 holder |-> "nobody", backup |-> Files!NoFile, temps |-> empty]
           r == Files!Down
<1>1. c \in Files!Object /\ c.whole /\ Files!NoFile \in Files!Object /\ Files!NoFile.kind = "none"
  BY DEF Files!File, Files!NoFile, Files!Object
<1>2. empty \in [Token -> Files!Object] /\ \A t \in Token : empty[t].kind = "none"
  BY <1>1
<1>3. r \in Files!Process /\ r.pc = "down" /\ r.token = "none"
  BY DEF Files!Down, Files!Process, Files!Place
<1>4. fs = f /\ s = [p \in Proc |-> r] /\ n = [doc |-> 1, edits |-> 0, kills |-> 0, acked |-> 0]
  BY DEF Files!Init
<1> HIDE DEF c, empty, r
<1>5. f \in Files!Directory /\ f.config = c /\ f.holder = "nobody" /\ f.temps = empty
  BY <1>1, <1>2 DEF Files!Directory
<1> HIDE DEF f
<1>6. ASSUME NEW p \in Proc
      PROVE  Files!Local(p, r, f)
  <2>1. p # "nobody"
    BY FileConstants DEF Files!NamesAssumption
  <2> QED
    BY <1>2, <1>3, <1>5, <2>1 DEF Files!Local, Files!Works, Files!OwnTemp, Files!NoOrphan,
       Files!OwnBackup, Files!Second, Files!Opening, Files!Checking
<1>7. Files!Types
  BY <1>3, <1>4, <1>5 DEF Files!Types
<1>8. Files!Common(f, n.acked)
  BY <1>1, <1>4, <1>5 DEF Files!Common
<1> QED
  BY <1>4, <1>6, <1>7, <1>8 DEF Files!IInv

LEMMA FilesStep == Files!IInv /\ [Files!Next]_Files!vars => Files!IInv'
<1> SUFFICES ASSUME Files!IInv, [Files!Next]_Files!vars PROVE Files!IInv'
  OBVIOUS
<1>1. CASE UNCHANGED Files!vars
  BY <1>1 DEF Files!vars, Files!IInv, Files!Types
<1>2. CASE Files!Edit
  BY <1>2, FilesEdits
<1>3. ASSUME NEW p \in Proc,
             \/ Files!Open(p) \/ Files!CreateLock(p) \/ Files!OpenExistingLock(p)
             \/ Files!EnsureLockByte(p) \/ Files!AcquireLock(p) \/ Files!ScanTemps(p)
             \/ Files!CleanupOrphan(p) \/ Files!ReadStat(p) \/ Files!ReadOpen(p)
             \/ Files!Write(p) \/ Files!CreateTemp(p) \/ Files!WriteTemp(p)
             \/ Files!Replace(p) \/ Files!SyncParent(p) \/ Files!Backup(p)
             \/ Files!WriteBackup(p) \/ Files!Close(p) \/ Files!Kill(p)
      PROVE  Files!IInv'
  BY <1>3, FilesOpens, FilesAcquires, FilesScans, FilesCleansUp, FilesStats, FilesReads,
     FilesWrites, FilesCreatesTemp, FilesWritesTemp, FilesReplaces, FilesSyncs,
     FilesBeginsBackup, FilesWritesBackup, FilesCloses
<1> QED
  BY <1>1, <1>2, <1>3 DEF Files!Next

LEMMA FilesKept == Files!IInv => DirectoryKept
<1> SUFFICES ASSUME Files!IInv PROVE Files!DirectoryKept
  BY DEF DirectoryKept
<1>1. ASSUME NEW p \in Proc
      PROVE  /\ Files!At(p, "replace") /\ ~s[p].raced =>
                  /\ fs.config = Files!File(s[p].expected, TRUE)
                  /\ fs.temps[s[p].token] = Files!File(s[p].doc, TRUE)
             /\ Files!At(p, "up") /\ ~s[p].left => \A t \in Token : fs.temps[t].kind # "file"
  <2> DEFINE r == s[p]
  <2>1. r \in Files!Process /\ Files!Local(p, r, fs)
    BY DEF Files!IInv, Files!Types
  <2> HIDE DEF r
  <2>2. r.pc = "replace" /\ ~r.raced =>
          fs.config = Files!File(r.expected, TRUE) /\ fs.temps[r.token] = Files!File(r.doc, TRUE)
    BY <2>1 DEF Files!Local, Files!OwnTemp, Files!Second
  <2>3. r.pc = "up" => r.token = "none" /\ Files!Works(r)
    BY <2>1 DEF Files!Local, Files!OwnTemp, Files!Second, Files!Works, Files!Opening, Files!Checking
  <2>4. r.pc = "up" /\ ~r.left => \A t \in Token : fs.temps[t].kind # "file"
    BY <2>1, <2>3, FileConstants DEF Files!Local, Files!NoOrphan, Files!NamesAssumption
  <2> QED
    BY <2>2, <2>4 DEF Files!At, r
<1> QED
  BY <1>1 DEF Files!IInv, Files!Common, Files!DirectoryKept

LEMMA FilesParts == [PartsNext]_<<part, vars, fileVars, entryVars>> => [Files!Next]_Files!vars
  BY DEF PartsNext, fileVars, Files!vars

(***************************************************************************)
(* The directory is kept by any number of processes that open, read, write *)
(* and back up the configuration of config/filesystem.py at once, that die *)
(* and that fail, with any number of people who ignore the lock: a replace *)
(* puts a whole document over the one its caller expected, an open store   *)
(* has no orphan, and an acknowledged backup stays.                        *)
(***************************************************************************)
THEOREM DirectoryCorrect == Parts => []DirectoryKept
<1>1. PartsInit => Files!IInv
  BY FilesInitial DEF PartsInit
<1>2. Files!IInv /\ [PartsNext]_<<part, vars, fileVars, entryVars>> => Files!IInv'
  BY FilesStep, FilesParts
<1> QED
  BY <1>1, <1>2, FilesKept, PTL DEF Parts

-----------------------------------------------------------------------------
(* The entry point *)

LEMMA EntryTells ==
    ASSUME NEW l \in Seq(Entry!Line), NEW x \in Entry!Line
    PROVE  /\ Append(l, x) \in Seq(Entry!Line)
           /\ l # <<>> /\ l[1] = "revision" => Append(l, x) # <<>> /\ Append(l, x)[1] = "revision"
  OBVIOUS

LEMMA EntryFails ==
    ASSUME Entry!IInv, Entry!Stay, Entry!StartFailed, mainPc \notin Entry!Served \cup {"done"}
    PROVE  Entry!IInv'
<1>1. mainPc' = "done" /\ app' = "none" /\ tls' = tls /\ address' = address /\ env' = env
  BY DEF Entry!IInv, Entry!Running, Entry!StartFailed, Entry!Stay
<1>2. exit' \in {"1", "raised"} /\ (env.pgEnabled => exit' # "raised")
  BY DEF Entry!StartFailed
<1>3. told' \in Seq(Entry!Line)
  BY EntryTells DEF Entry!IInv, Entry!Types, Entry!StartFailed, Entry!Line
<1>4. Entry!Types'
  BY <1>1, <1>3 DEF Entry!IInv, Entry!Types, Entry!Stay
<1>5. Entry!Accepted(mainPc', env') /\ Entry!Bound(mainPc', address', env')
  BY <1>1 DEF Entry!Accepted, Entry!Bound, Entry!Local, Entry!Loading, Entry!Served
<1>6. Entry!Loaded(mainPc', tls', env')
  BY <1>1 DEF Entry!IInv, Entry!Loaded, Entry!Loading, Entry!Served
<1>7. Entry!Running(mainPc', app', exit', told') /\ Entry!Ended(mainPc', app', exit', told', env')
  BY <1>1, <1>2 DEF Entry!Running, Entry!Ended, Entry!Served
<1> QED
  BY <1>4, <1>5, <1>6, <1>7 DEF Entry!IInv

(* A step of main() that goes on before the application is composed. *)
LEMMA EntryGoesOn ==
    ASSUME Entry!IInv, Entry!Stay, UNCHANGED <<app, told, exit>>,
           mainPc \notin Entry!Served \cup {"done"},
           mainPc' \in {"document"} \cup Entry!Local, Entry!Types',
           Entry!Accepted(mainPc', env), Entry!Loaded(mainPc', tls', env),
           Entry!Bound(mainPc', address', env)
    PROVE  Entry!IInv'
<1>1. env' = env /\ app' = app /\ told' = told /\ exit' = exit
  BY DEF Entry!Stay
<1>2. Entry!Running(mainPc', app', exit', told') /\ Entry!Ended(mainPc', app', exit', told', env')
  BY <1>1 DEF Entry!IInv, Entry!Running, Entry!Ended, Entry!Served, Entry!Local, Entry!Loading
<1> QED
  BY <1>1, <1>2 DEF Entry!IInv

LEMMA EntryComposes ==
    ASSUME Entry!IInv, Entry!ComposeAdmin \/ Entry!ComposePgwire
    PROVE  Entry!IInv'
<1>1. mainPc = "main" /\ mainPc \notin Entry!Served \cup {"done"} /\ Entry!Stay
  BY DEF Entry!ComposeAdmin, Entry!ComposePgwire, Entry!Served
<1>2. CASE Entry!StartFailed
  BY <1>1, <1>2, EntryFails
<1>3. CASE /\ UNCHANGED <<tls, address, app, told, exit>>
           /\ ~env.pgEnabled /\ mainPc' = "document"
  <2>1. Entry!Types'
    BY <1>1, <1>3 DEF Entry!IInv, Entry!Types, Entry!Stay
  <2>2. Entry!Accepted(mainPc', env) /\ Entry!Bound(mainPc', address', env)
    BY <1>3 DEF Entry!Accepted, Entry!Bound, Entry!Local, Entry!Loading, Entry!Served
  <2>3. Entry!Loaded(mainPc', tls', env)
    BY <1>3 DEF Entry!IInv, Entry!Loaded, Entry!Loading, Entry!Served
  <2> QED
    BY <1>1, <1>3, <2>1, <2>2, <2>3, EntryGoesOn
<1>4. CASE /\ UNCHANGED <<tls, address, app, told, exit>> /\ env.pgEnabled
           /\ ~env.ui /\ ~Entry!AdminEnabled(env) /\ Entry!PgwireResolved(env)
           /\ mainPc' = IF Entry!TlsConfigured(env) THEN "stat" ELSE "bind"
  <2>1. mainPc' \in {"stat", "bind"} /\ (mainPc' = "stat" <=> Entry!TlsConfigured(env))
    BY <1>4
  <2>2. Entry!Types'
    BY <1>1, <1>4, <2>1 DEF Entry!IInv, Entry!Types, Entry!Stay, Entry!Local, Entry!Loading
  <2>3. Entry!Accepted(mainPc', env) /\ Entry!Bound(mainPc', address', env)
    BY <1>4, <2>1 DEF Entry!Accepted, Entry!Bound, Entry!Local, Entry!Loading, Entry!Served
  <2>4. Entry!Loaded(mainPc', tls', env)
    BY <1>1, <1>4, <2>1 DEF Entry!IInv, Entry!Loaded, Entry!Loading, Entry!Served
  <2> QED
    BY <1>1, <1>4, <2>1, <2>2, <2>3, <2>4, EntryGoesOn DEF Entry!Local, Entry!Loading
<1> QED
  BY <1>2, <1>3, <1>4 DEF Entry!ComposeAdmin, Entry!ComposePgwire

LEMMA EntryStats ==
    ASSUME Entry!IInv, Entry!StatFiles
    PROVE  Entry!IInv'
<1>1. mainPc = "stat" /\ mainPc \in Entry!Loading /\ mainPc \notin Entry!Served \cup {"done"} /\ Entry!Stay
  BY DEF Entry!StatFiles, Entry!Served, Entry!Loading
<1>2. CASE Entry!StartFailed
  BY <1>1, <1>2, EntryFails
<1>3. CASE /\ UNCHANGED <<address, app, told, exit>> /\ mainPc' = "read" /\ cert.good /\ key.good
           /\ tls' = [tls EXCEPT !.certWas = cert, !.keyWas = key]
  <2> DEFINE was == tls
             r == tls'
  <2>1. /\ was \in [certWas : MCCertFiles \cup {Entry!NoFile}, keyWas : MCKeyFiles \cup {Entry!NoFile},
                    pem : MCCertFiles \cup {Entry!NoFile}, loaded : Entry!CertLeaf,
                    binding : Entry!CertLeaf, ready : BOOLEAN]
        /\ cert \in MCCertFiles /\ key \in MCKeyFiles
    BY DEF Entry!IInv, Entry!Types
  <2>2. cert.leaf \in Entry!CertLeaf
    BY <2>1 DEF Entry!CertLeaf
  <2>3. /\ r \in [certWas : MCCertFiles \cup {Entry!NoFile}, keyWas : MCKeyFiles \cup {Entry!NoFile},
                  pem : MCCertFiles \cup {Entry!NoFile}, loaded : Entry!CertLeaf,
                  binding : Entry!CertLeaf, ready : BOOLEAN]
        /\ r.certWas = cert /\ r.keyWas = key /\ r.pem = was.pem
        /\ r.loaded = was.loaded /\ r.binding = was.binding /\ r.ready = was.ready
    BY <1>3, <2>1, <2>2
  <2>4. Entry!Types'
    BY <1>1, <1>3, <2>1, <2>3 DEF Entry!IInv, Entry!Types, Entry!Stay, Entry!Local,
       Entry!Loading
  <2>5. Entry!Accepted(mainPc', env) /\ Entry!Bound(mainPc', address', env)
    BY <1>1, <1>3 DEF Entry!IInv, Entry!Accepted, Entry!Bound, Entry!Local, Entry!Loading,
       Entry!Served
  <2>6. Entry!Loaded(mainPc, was, env) /\ env.pgEnabled /\ Entry!TlsConfigured(env)
    BY <1>1 DEF Entry!IInv, Entry!Accepted, Entry!Local, Entry!Loading
  <2> HIDE DEF was, r
  <2>7. Entry!Loaded(mainPc', r, env)
    BY <1>1, <1>3, <2>1, <2>3, <2>6 DEF Entry!Loaded, Entry!Loading, Entry!Served,
       Entry!Trusted, Entry!Valid, Entry!SameLeaf, was
  <2> QED
    BY <1>1, <1>3, <2>4, <2>5, <2>7, EntryGoesOn DEF Entry!Local, Entry!Loading, r
<1> QED
  BY <1>2, <1>3 DEF Entry!StatFiles

LEMMA EntryReads ==
    ASSUME Entry!IInv, Entry!ReadCertificate
    PROVE  Entry!IInv'
<1>1. mainPc = "read" /\ mainPc \in Entry!Loading /\ mainPc \notin Entry!Served \cup {"done"} /\ Entry!Stay
  BY DEF Entry!ReadCertificate, Entry!Served, Entry!Loading
<1>2. CASE Entry!StartFailed
  BY <1>1, <1>2, EntryFails
<1>3. CASE /\ UNCHANGED <<address, app, told, exit>> /\ mainPc' = "load" /\ cert.ino = tls.certWas.ino /\ cert.valid
           /\ tls' = [tls EXCEPT !.pem = cert]
  <2> DEFINE was == tls
             r == tls'
  <2>1. /\ was \in [certWas : MCCertFiles \cup {Entry!NoFile}, keyWas : MCKeyFiles \cup {Entry!NoFile},
                    pem : MCCertFiles \cup {Entry!NoFile}, loaded : Entry!CertLeaf,
                    binding : Entry!CertLeaf, ready : BOOLEAN]
        /\ cert \in MCCertFiles /\ key \in MCKeyFiles
    BY DEF Entry!IInv, Entry!Types
  <2>2. cert.leaf \in Entry!CertLeaf
    BY <2>1 DEF Entry!CertLeaf
  <2>3. /\ r \in [certWas : MCCertFiles \cup {Entry!NoFile}, keyWas : MCKeyFiles \cup {Entry!NoFile},
                  pem : MCCertFiles \cup {Entry!NoFile}, loaded : Entry!CertLeaf,
                  binding : Entry!CertLeaf, ready : BOOLEAN]
        /\ r.certWas = was.certWas /\ r.keyWas = was.keyWas /\ r.pem = cert
        /\ r.loaded = was.loaded /\ r.binding = was.binding /\ r.ready = was.ready
    BY <1>3, <2>1, <2>2
  <2>4. Entry!Types'
    BY <1>1, <1>3, <2>1, <2>3 DEF Entry!IInv, Entry!Types, Entry!Stay, Entry!Local,
       Entry!Loading
  <2>5. Entry!Accepted(mainPc', env) /\ Entry!Bound(mainPc', address', env)
    BY <1>1, <1>3 DEF Entry!IInv, Entry!Accepted, Entry!Bound, Entry!Local, Entry!Loading,
       Entry!Served
  <2>6. Entry!Loaded(mainPc, was, env) /\ env.pgEnabled /\ Entry!TlsConfigured(env)
    BY <1>1 DEF Entry!IInv, Entry!Accepted, Entry!Local, Entry!Loading
  <2> HIDE DEF was, r
  <2>7. Entry!Loaded(mainPc', r, env)
    BY <1>1, <1>3, <2>1, <2>3, <2>6 DEF Entry!Loaded, Entry!Loading, Entry!Served,
       Entry!Trusted, Entry!Valid, Entry!SameLeaf, was
  <2> QED
    BY <1>1, <1>3, <2>4, <2>5, <2>7, EntryGoesOn DEF Entry!Local, Entry!Loading, r
<1> QED
  BY <1>2, <1>3 DEF Entry!ReadCertificate

LEMMA EntryLoads ==
    ASSUME Entry!IInv, Entry!LoadCertificate
    PROVE  Entry!IInv'
<1>1. mainPc = "load" /\ mainPc \in Entry!Loading /\ mainPc \notin Entry!Served \cup {"done"} /\ Entry!Stay
  BY DEF Entry!LoadCertificate, Entry!Served, Entry!Loading
<1>2. CASE Entry!StartFailed
  BY <1>1, <1>2, EntryFails
<1>3. CASE /\ UNCHANGED <<address, app, told, exit>> /\ mainPc' = "load key" /\ cert.leaf # "none"
           /\ tls' = [tls EXCEPT !.loaded = cert.leaf]
  <2> DEFINE was == tls
             r == tls'
  <2>1. /\ was \in [certWas : MCCertFiles \cup {Entry!NoFile}, keyWas : MCKeyFiles \cup {Entry!NoFile},
                    pem : MCCertFiles \cup {Entry!NoFile}, loaded : Entry!CertLeaf,
                    binding : Entry!CertLeaf, ready : BOOLEAN]
        /\ cert \in MCCertFiles /\ key \in MCKeyFiles
    BY DEF Entry!IInv, Entry!Types
  <2>2. cert.leaf \in Entry!CertLeaf
    BY <2>1 DEF Entry!CertLeaf
  <2>3. /\ r \in [certWas : MCCertFiles \cup {Entry!NoFile}, keyWas : MCKeyFiles \cup {Entry!NoFile},
                  pem : MCCertFiles \cup {Entry!NoFile}, loaded : Entry!CertLeaf,
                  binding : Entry!CertLeaf, ready : BOOLEAN]
        /\ r.certWas = was.certWas /\ r.keyWas = was.keyWas /\ r.pem = was.pem
        /\ r.loaded = cert.leaf /\ r.binding = was.binding /\ r.ready = was.ready
    BY <1>3, <2>1, <2>2
  <2>4. Entry!Types'
    BY <1>1, <1>3, <2>1, <2>3 DEF Entry!IInv, Entry!Types, Entry!Stay, Entry!Local,
       Entry!Loading
  <2>5. Entry!Accepted(mainPc', env) /\ Entry!Bound(mainPc', address', env)
    BY <1>1, <1>3 DEF Entry!IInv, Entry!Accepted, Entry!Bound, Entry!Local, Entry!Loading,
       Entry!Served
  <2>6. Entry!Loaded(mainPc, was, env) /\ env.pgEnabled /\ Entry!TlsConfigured(env)
    BY <1>1 DEF Entry!IInv, Entry!Accepted, Entry!Local, Entry!Loading
  <2> HIDE DEF was, r
  <2>7. Entry!Loaded(mainPc', r, env)
    BY <1>1, <1>3, <2>1, <2>3, <2>6 DEF Entry!Loaded, Entry!Loading, Entry!Served,
       Entry!Trusted, Entry!Valid, Entry!SameLeaf, was
  <2> QED
    BY <1>1, <1>3, <2>4, <2>5, <2>7, EntryGoesOn DEF Entry!Local, Entry!Loading, r
<1> QED
  BY <1>2, <1>3 DEF Entry!LoadCertificate

LEMMA EntryLoadsKey ==
    ASSUME Entry!IInv, Entry!LoadKey
    PROVE  Entry!IInv'
<1>1. mainPc = "load key" /\ mainPc \in Entry!Loading /\ mainPc \notin Entry!Served \cup {"done"} /\ Entry!Stay
  BY DEF Entry!LoadKey, Entry!Served, Entry!Loading
<1>2. CASE Entry!StartFailed
  BY <1>1, <1>2, EntryFails
<1>3. CASE /\ UNCHANGED <<address, app, told, exit>> /\ mainPc' = "stat again" /\ key.leaf = tls.loaded
           /\ tls' = tls
  <2> DEFINE was == tls
             r == tls'
  <2>1. /\ was \in [certWas : MCCertFiles \cup {Entry!NoFile}, keyWas : MCKeyFiles \cup {Entry!NoFile},
                    pem : MCCertFiles \cup {Entry!NoFile}, loaded : Entry!CertLeaf,
                    binding : Entry!CertLeaf, ready : BOOLEAN]
        /\ cert \in MCCertFiles /\ key \in MCKeyFiles
    BY DEF Entry!IInv, Entry!Types
  <2>2. cert.leaf \in Entry!CertLeaf
    BY <2>1 DEF Entry!CertLeaf
  <2>3. /\ r \in [certWas : MCCertFiles \cup {Entry!NoFile}, keyWas : MCKeyFiles \cup {Entry!NoFile},
                  pem : MCCertFiles \cup {Entry!NoFile}, loaded : Entry!CertLeaf,
                  binding : Entry!CertLeaf, ready : BOOLEAN]
        /\ r.certWas = was.certWas /\ r.keyWas = was.keyWas /\ r.pem = was.pem
        /\ r.loaded = was.loaded /\ r.binding = was.binding /\ r.ready = was.ready
    BY <1>3, <2>1, <2>2
  <2>4. Entry!Types'
    BY <1>1, <1>3, <2>1, <2>3 DEF Entry!IInv, Entry!Types, Entry!Stay, Entry!Local,
       Entry!Loading
  <2>5. Entry!Accepted(mainPc', env) /\ Entry!Bound(mainPc', address', env)
    BY <1>1, <1>3 DEF Entry!IInv, Entry!Accepted, Entry!Bound, Entry!Local, Entry!Loading,
       Entry!Served
  <2>6. Entry!Loaded(mainPc, was, env) /\ env.pgEnabled /\ Entry!TlsConfigured(env)
    BY <1>1 DEF Entry!IInv, Entry!Accepted, Entry!Local, Entry!Loading
  <2> HIDE DEF was, r
  <2>7. Entry!Loaded(mainPc', r, env)
    BY <1>1, <1>3, <2>1, <2>3, <2>6 DEF Entry!Loaded, Entry!Loading, Entry!Served,
       Entry!Trusted, Entry!Valid, Entry!SameLeaf, was
  <2> QED
    BY <1>1, <1>3, <2>4, <2>5, <2>7, EntryGoesOn DEF Entry!Local, Entry!Loading, r
<1> QED
  BY <1>2, <1>3 DEF Entry!LoadKey

LEMMA EntryStatsAgain ==
    ASSUME Entry!IInv, Entry!StatAgain
    PROVE  Entry!IInv'
<1>1. mainPc = "stat again" /\ mainPc \in Entry!Loading /\ mainPc \notin Entry!Served \cup {"done"} /\ Entry!Stay
  BY DEF Entry!StatAgain, Entry!Served, Entry!Loading
<1>2. CASE Entry!StartFailed
  BY <1>1, <1>2, EntryFails
<1>3. CASE /\ UNCHANGED <<address, app, told, exit>> /\ mainPc' = "handshake" /\ cert.good /\ key.good
           /\ tls' = tls
  <2> DEFINE was == tls
             r == tls'
  <2>1. /\ was \in [certWas : MCCertFiles \cup {Entry!NoFile}, keyWas : MCKeyFiles \cup {Entry!NoFile},
                    pem : MCCertFiles \cup {Entry!NoFile}, loaded : Entry!CertLeaf,
                    binding : Entry!CertLeaf, ready : BOOLEAN]
        /\ cert \in MCCertFiles /\ key \in MCKeyFiles
    BY DEF Entry!IInv, Entry!Types
  <2>2. cert.leaf \in Entry!CertLeaf
    BY <2>1 DEF Entry!CertLeaf
  <2>3. /\ r \in [certWas : MCCertFiles \cup {Entry!NoFile}, keyWas : MCKeyFiles \cup {Entry!NoFile},
                  pem : MCCertFiles \cup {Entry!NoFile}, loaded : Entry!CertLeaf,
                  binding : Entry!CertLeaf, ready : BOOLEAN]
        /\ r.certWas = was.certWas /\ r.keyWas = was.keyWas /\ r.pem = was.pem
        /\ r.loaded = was.loaded /\ r.binding = was.binding /\ r.ready = was.ready
    BY <1>3, <2>1, <2>2
  <2>4. Entry!Types'
    BY <1>1, <1>3, <2>1, <2>3 DEF Entry!IInv, Entry!Types, Entry!Stay, Entry!Local,
       Entry!Loading
  <2>5. Entry!Accepted(mainPc', env) /\ Entry!Bound(mainPc', address', env)
    BY <1>1, <1>3 DEF Entry!IInv, Entry!Accepted, Entry!Bound, Entry!Local, Entry!Loading,
       Entry!Served
  <2>6. Entry!Loaded(mainPc, was, env) /\ env.pgEnabled /\ Entry!TlsConfigured(env)
    BY <1>1 DEF Entry!IInv, Entry!Accepted, Entry!Local, Entry!Loading
  <2> HIDE DEF was, r
  <2>7. Entry!Loaded(mainPc', r, env)
    BY <1>1, <1>3, <2>1, <2>3, <2>6 DEF Entry!Loaded, Entry!Loading, Entry!Served,
       Entry!Trusted, Entry!Valid, Entry!SameLeaf, was
  <2> QED
    BY <1>1, <1>3, <2>4, <2>5, <2>7, EntryGoesOn DEF Entry!Local, Entry!Loading, r
<1> QED
  BY <1>2, <1>3 DEF Entry!StatAgain

LEMMA EntryShakes ==
    ASSUME Entry!IInv, Entry!Handshake
    PROVE  Entry!IInv'
<1>1. mainPc = "handshake" /\ mainPc \in Entry!Loading /\ mainPc \notin Entry!Served \cup {"done"} /\ Entry!Stay
  BY DEF Entry!Handshake, Entry!Served, Entry!Loading
<1>2. CASE Entry!StartFailed
  BY <1>1, <1>2, EntryFails
<1>3. CASE /\ UNCHANGED <<address, app, told, exit>> /\ mainPc' = "bind" /\ Entry!SameLeaf(tls)
           /\ tls' = [tls EXCEPT !.binding = tls.loaded, !.ready = TRUE]
  <2> DEFINE was == tls
             r == tls'
  <2>1. /\ was \in [certWas : MCCertFiles \cup {Entry!NoFile}, keyWas : MCKeyFiles \cup {Entry!NoFile},
                    pem : MCCertFiles \cup {Entry!NoFile}, loaded : Entry!CertLeaf,
                    binding : Entry!CertLeaf, ready : BOOLEAN]
        /\ cert \in MCCertFiles /\ key \in MCKeyFiles
    BY DEF Entry!IInv, Entry!Types
  <2>2. cert.leaf \in Entry!CertLeaf
    BY <2>1 DEF Entry!CertLeaf
  <2>3. /\ r \in [certWas : MCCertFiles \cup {Entry!NoFile}, keyWas : MCKeyFiles \cup {Entry!NoFile},
                  pem : MCCertFiles \cup {Entry!NoFile}, loaded : Entry!CertLeaf,
                  binding : Entry!CertLeaf, ready : BOOLEAN]
        /\ r.certWas = was.certWas /\ r.keyWas = was.keyWas /\ r.pem = was.pem
        /\ r.loaded = was.loaded /\ r.binding = was.loaded /\ r.ready
    BY <1>3, <2>1, <2>2
  <2>4. Entry!Types'
    BY <1>1, <1>3, <2>1, <2>3 DEF Entry!IInv, Entry!Types, Entry!Stay, Entry!Local,
       Entry!Loading
  <2>5. Entry!Accepted(mainPc', env) /\ Entry!Bound(mainPc', address', env)
    BY <1>1, <1>3 DEF Entry!IInv, Entry!Accepted, Entry!Bound, Entry!Local, Entry!Loading,
       Entry!Served
  <2>6. Entry!Loaded(mainPc, was, env) /\ env.pgEnabled /\ Entry!TlsConfigured(env)
    BY <1>1 DEF Entry!IInv, Entry!Accepted, Entry!Local, Entry!Loading
  <2> HIDE DEF was, r
  <2>7. Entry!Loaded(mainPc', r, env)
    BY <1>1, <1>3, <2>1, <2>3, <2>6 DEF Entry!Loaded, Entry!Loading, Entry!Served,
       Entry!Trusted, Entry!Valid, Entry!SameLeaf, was
  <2> QED
    BY <1>1, <1>3, <2>4, <2>5, <2>7, EntryGoesOn DEF Entry!Local, Entry!Loading, r
<1> QED
  BY <1>2, <1>3 DEF Entry!Handshake

LEMMA EntryDecides ==
    ASSUME NEW a \in MCAnswers, Entry!DecideAnswer(a) # "none"
    PROVE  Entry!Acceptable(Entry!DecideAnswer(a))
<1>1. a # <<>> /\ \A i \in DOMAIN a : Entry!Acceptable(a[i])
  BY DEF Entry!DecideAnswer
<1>2. a \in Seq({"loopback4", "loopback6", "public4", "public6", "wildcard", "odd"})
  BY EntryConstants DEF Entry!AnswersAssumption
<1>3. 1 \in DOMAIN a
  BY <1>1, <1>2
<1>4. Entry!Acceptable(a[1]) /\ Entry!DecideAnswer(a) = a[1]
  BY <1>1, <1>3 DEF Entry!DecideAnswer
<1> QED
  BY <1>4

LEMMA EntryResolves ==
    ASSUME Entry!IInv, Entry!ResolveBind
    PROVE  Entry!IInv'
<1>1. mainPc = "bind" /\ mainPc \notin Entry!Served \cup {"done"} /\ Entry!Stay
  BY DEF Entry!ResolveBind, Entry!Served
<1>2. env.pgEnabled /\ Entry!PgwireResolved(env)
  BY <1>1 DEF Entry!IInv, Entry!Accepted, Entry!Local
<1>3. CASE Entry!StartFailed
  BY <1>1, <1>3, EntryFails
<1>4. CASE UNCHANGED <<tls, app, told, exit>> /\ mainPc' = "document" /\ Entry!Bindable(address', env)
  <2>1. Entry!Types'
    BY <1>1, <1>4 DEF Entry!IInv, Entry!Types, Entry!Stay
  <2>2. Entry!Accepted(mainPc', env) /\ Entry!Bound(mainPc', address', env)
    BY <1>1, <1>4 DEF Entry!IInv, Entry!Accepted, Entry!Bound, Entry!Local, Entry!Loading,
       Entry!Served
  <2>3. Entry!Loaded(mainPc', tls', env)
    BY <1>1, <1>4 DEF Entry!IInv, Entry!Loaded, Entry!Loading, Entry!Served
  <2> QED
    BY <1>1, <1>4, <2>1, <2>2, <2>3, EntryGoesOn
<1>5. CASE /\ ~Entry!BindIsHostname(env) /\ UNCHANGED <<tls, app, told, exit>> /\ mainPc' = "document"
           /\ address' = Entry!Literal(env)
  BY <1>4, <1>5 DEF Entry!Bindable
<1>6. CASE Entry!BindAddress /\ Entry!BindIsHostname(env)
  <2>1. PICK a \in MCAnswers :
          IF Entry!DecideAnswer(a) # "none"
          THEN /\ address' = Entry!DecideAnswer(a)
               /\ mainPc' = "document" /\ UNCHANGED <<tls, app, told, exit>>
          ELSE Entry!StartFailed
    BY <1>6 DEF Entry!BindAddress
  <2> QED
    BY <1>3, <1>4, <1>6, <2>1, EntryDecides DEF Entry!Bindable
<1> QED
  BY <1>5, <1>6 DEF Entry!ResolveBind

LEMMA EntryBuilds ==
    ASSUME Entry!IInv, Entry!BuildApplication
    PROVE  Entry!IInv'
<1>1. mainPc = "document" /\ mainPc \notin Entry!Served \cup {"done"} /\ Entry!Stay
  BY DEF Entry!BuildApplication, Entry!Served
<1>2. CASE Entry!StartFailed
  BY <1>1, <1>2, EntryFails
<1>3. CASE /\ Entry!ParseConfigBundle(env) /\ app' = "open" /\ mainPc' = "lines"
           /\ UNCHANGED <<tls, address, told, exit>>
  <2>1. env' = env /\ Entry!Types'
    BY <1>1, <1>3 DEF Entry!IInv, Entry!Types, Entry!Stay, Entry!Served
  <2>2. Entry!Accepted(mainPc', env') /\ Entry!Bound(mainPc', address', env')
    BY <1>1, <1>3, <2>1 DEF Entry!IInv, Entry!Accepted, Entry!Bound, Entry!Local, Entry!Loading,
       Entry!Served
  <2>3. Entry!Loaded(mainPc', tls', env')
    BY <1>1, <1>3, <2>1 DEF Entry!IInv, Entry!Loaded, Entry!Loading, Entry!Served
  <2>4. Entry!Running(mainPc', app', exit', told') /\ Entry!Ended(mainPc', app', exit', told', env')
    BY <1>1, <1>3 DEF Entry!IInv, Entry!Running, Entry!Ended, Entry!Served
  <2> QED
    BY <2>1, <2>2, <2>3, <2>4 DEF Entry!IInv
<1> QED
  BY <1>2, <1>3 DEF Entry!BuildApplication

(* The end of a process that has an application. *)
LEMMA EntryEnds ==
    ASSUME Entry!IInv, Entry!Stay, mainPc \in Entry!Served, mainPc' = "done",
           UNCHANGED <<tls, address>>, told' \in Seq(Entry!Line),
           Entry!Ended("done", app', exit', told', env)
    PROVE  Entry!IInv'
<1>1. env' = env /\ Entry!Types'
  BY DEF Entry!IInv, Entry!Types, Entry!Stay
<1>2. Entry!Accepted(mainPc', env') /\ Entry!Bound(mainPc', address', env')
  BY DEF Entry!Accepted, Entry!Bound, Entry!Local, Entry!Loading, Entry!Served
<1>3. Entry!Loaded(mainPc', tls', env')
  BY <1>1 DEF Entry!IInv, Entry!Loaded, Entry!Loading, Entry!Served
<1>4. Entry!Running(mainPc', app', exit', told') /\ Entry!Ended(mainPc', app', exit', told', env')
  BY <1>1 DEF Entry!Running, Entry!Served
<1> QED
  BY <1>1, <1>2, <1>3, <1>4 DEF Entry!IInv

LEMMA EntryLines ==
    /\ <<>> \in Seq(Entry!Line)
    /\ \A x \in {"revision", "admin", "pgwire"} : <<x>> \in Seq(Entry!Line)
<1>1. \A x \in Entry!Line : <<x>> \in Seq(Entry!Line)
  OBVIOUS
<1>2. {"revision", "admin", "pgwire"} \subseteq Entry!Line
  BY DEF Entry!Line
<1> QED
  BY <1>1, <1>2

LEMMA EntryFirstLine ==
    ASSUME NEW a \in Seq(Entry!Line), NEW b \in Seq(Entry!Line), NEW l, l = <<"revision">> \o a \o b
    PROVE  l \in Seq(Entry!Line) /\ l # <<>> /\ l[1] = "revision"
<1>1. <<"revision">> \in Seq(Entry!Line)
  BY EntryLines
<1> DEFINE c == <<"revision">> \o a
<1>2. c \in Seq(Entry!Line) /\ Len(c) >= 1 /\ c[1] = "revision"
  BY <1>1
<1> HIDE DEF c
<1>3. l = c \o b
  BY DEF c
<1> QED
  BY <1>2, <1>3

LEMMA EntryTellsLines ==
    ASSUME Entry!IInv, Entry!TellLines
    PROVE  Entry!IInv'
<1>1. mainPc = "lines" /\ mainPc \in Entry!Served /\ Entry!Stay /\ told \in Seq(Entry!Line)
  BY DEF Entry!TellLines, Entry!Served, Entry!IInv, Entry!Types
<1>2. CASE /\ env.pgEnabled /\ Entry!Abort
           /\ \E written \in {<<>>, <<"revision">>} : told' \in {written, Append(written, "startup failure")}
  <2>1. told' \in Seq(Entry!Line)
    BY <1>2, EntryLines, EntryTells DEF Entry!Line
  <2>2. Entry!Ended("done", app', exit', told', env)
    BY <1>2 DEF Entry!Abort, Entry!Ended
  <2> QED
    BY <1>1, <1>2, <2>1, <2>2, EntryEnds DEF Entry!Abort
<1>3. CASE /\ ~env.pgEnabled /\ mainPc' = "done" /\ exit' = "raised"
           /\ told' \in {<<>>, <<"revision">>} /\ UNCHANGED <<tls, address, app>>
  <2>1. told' \in Seq(Entry!Line)
    BY <1>3, EntryLines
  <2>2. Entry!Ended("done", app', exit', told', env)
    BY <1>3 DEF Entry!Ended
  <2> QED
    BY <1>1, <1>3, <2>1, <2>2, EntryEnds
<1>4. CASE mainPc' = "run" /\ UNCHANGED <<tls, address, app, exit>> /\ told' = Entry!Lines(env)
  <2> DEFINE a == IF Entry!AdminEnabled(env) THEN <<"admin">> ELSE <<>>
             b == IF env.pgEnabled THEN <<"pgwire">> ELSE <<>>
  <2>1. a \in Seq(Entry!Line) /\ b \in Seq(Entry!Line)
    BY EntryLines
  <2>2. told' = <<"revision">> \o a \o b
    BY <1>4 DEF Entry!Lines
  <2> HIDE DEF a, b
  <2>3. told' \in Seq(Entry!Line) /\ told' # <<>> /\ told'[1] = "revision"
    BY <2>1, <2>2, EntryFirstLine
  <2>4. env' = env /\ Entry!Types'
    BY <1>1, <1>4, <2>3 DEF Entry!IInv, Entry!Types, Entry!Stay, Entry!Served
  <2>5. Entry!Accepted(mainPc', env') /\ Entry!Bound(mainPc', address', env')
    BY <1>1, <1>4, <2>4 DEF Entry!IInv, Entry!Accepted, Entry!Bound, Entry!Local, Entry!Loading,
       Entry!Served
  <2>6. Entry!Loaded(mainPc', tls', env')
    BY <1>1, <1>4, <2>4 DEF Entry!IInv, Entry!Loaded, Entry!Loading, Entry!Served
  <2>7. Entry!Running(mainPc', app', exit', told') /\ Entry!Ended(mainPc', app', exit', told', env')
    BY <1>1, <1>4, <2>3 DEF Entry!IInv, Entry!Running, Entry!Ended, Entry!Served
  <2> QED
    BY <2>4, <2>5, <2>6, <2>7 DEF Entry!IInv
<1> QED
  BY <1>2, <1>3, <1>4 DEF Entry!TellLines

LEMMA EntryRuns ==
    ASSUME Entry!IInv, Entry!RunAndClose
    PROVE  Entry!IInv'
<1>1. /\ mainPc \in Entry!Served /\ Entry!Stay /\ mainPc' = "done" /\ UNCHANGED <<tls, address>>
      /\ told \in Seq(Entry!Line) /\ told # <<>> /\ told[1] = "revision"
  BY DEF Entry!RunAndClose, Entry!Served, Entry!IInv, Entry!Types, Entry!Running
<1>2. /\ told' \in {told, Append(told, "runtime failure")} /\ app' \in {"closed", "retained"}
      /\ exit' \in {"0", "1", "raised"} /\ (env.pgEnabled => exit' # "raised")
      /\ exit' = "0" => app' = "closed"
  BY DEF Entry!RunAndClose, Entry!Failed
<1>3. told' \in Seq(Entry!Line) /\ told' # <<>> /\ told'[1] = "revision"
  <2>1. CASE told' = told
    BY <1>1, <2>1
  <2>2. CASE told' = Append(told, "runtime failure")
    BY <1>1, <2>2, EntryTells DEF Entry!Line
  <2> QED
    BY <1>2, <2>1, <2>2
<1>4. Entry!Ended("done", app', exit', told', env)
  BY <1>1, <1>2, <1>3 DEF Entry!Ended
<1> QED
  BY <1>1, <1>3, <1>4, EntryEnds

LEMMA EntryReplaced ==
    ASSUME Entry!IInv, Entry!ReplaceCertificate \/ Entry!ReplaceKey
    PROVE  Entry!IInv'
<1>1. UNCHANGED <<env, mainPc, tls, address, app, told, exit>>
  BY DEF Entry!ReplaceCertificate, Entry!ReplaceKey
<1>2. cert' \in MCCertFiles /\ key' \in MCKeyFiles
  BY DEF Entry!ReplaceCertificate, Entry!ReplaceKey, Entry!IInv, Entry!Types
<1> QED
  BY <1>1, <1>2 DEF Entry!IInv, Entry!Types

LEMMA EntryInitial == Entry!Init => Entry!IInv
<1> SUFFICES ASSUME Entry!Init PROVE Entry!IInv
  OBVIOUS
<1> DEFINE r == Entry!NoTls
<1>1. "none" \in Entry!CertLeaf
  <2>1. Entry!NoFile.leaf = "none"
    BY DEF Entry!NoFile
  <2> QED
    BY <2>1 DEF Entry!CertLeaf
<1>2. /\ r \in [certWas : MCCertFiles \cup {Entry!NoFile}, keyWas : MCKeyFiles \cup {Entry!NoFile},
                pem : MCCertFiles \cup {Entry!NoFile}, loaded : Entry!CertLeaf,
                binding : Entry!CertLeaf, ready : BOOLEAN]
      /\ ~r.ready
  BY <1>1 DEF Entry!NoTls
<1> HIDE DEF r
<1>3. /\ cert \in MCCertFiles /\ key \in MCKeyFiles /\ mainPc = "main" /\ tls = r
      /\ app = "none" /\ told = <<>> /\ exit = "none"
  BY DEF Entry!Init, r
<1>4. Entry!Types
  BY <1>2, <1>3 DEF Entry!Types
<1>5. Entry!Accepted(mainPc, env) /\ Entry!Bound(mainPc, address, env)
  BY <1>3 DEF Entry!Accepted, Entry!Bound, Entry!Local, Entry!Loading, Entry!Served
<1>6. Entry!Loaded(mainPc, tls, env)
  BY <1>2, <1>3 DEF Entry!Loaded, Entry!Loading, Entry!Served
<1>7. Entry!Running(mainPc, app, exit, told) /\ Entry!Ended(mainPc, app, exit, told, env)
  BY <1>3 DEF Entry!Running, Entry!Ended, Entry!Served
<1> QED
  BY <1>4, <1>5, <1>6, <1>7 DEF Entry!IInv

LEMMA EntryStep == Entry!IInv /\ [Entry!Next]_Entry!vars => Entry!IInv'
<1> SUFFICES ASSUME Entry!IInv, [Entry!Next]_Entry!vars PROVE Entry!IInv'
  OBVIOUS
<1>1. CASE UNCHANGED Entry!vars
  BY <1>1 DEF Entry!vars, Entry!IInv, Entry!Types
<1>2. CASE Entry!Next
  BY <1>2, EntryReplaced, EntryComposes, EntryStats, EntryReads, EntryLoads, EntryLoadsKey,
     EntryStatsAgain, EntryShakes, EntryResolves, EntryBuilds, EntryTellsLines, EntryRuns
     DEF Entry!Next
<1> QED
  BY <1>1, <1>2

LEMMA EntryIsSound == Entry!IInv => Entry!StartupSound
<1> SUFFICES ASSUME Entry!IInv PROVE Entry!ListeningIsSafe /\ Entry!EndsClosed
  BY DEF Entry!StartupSound
<1>1. ASSUME app = "open", env.pgEnabled
      PROVE  mainPc \in Entry!Served
  BY <1>1 DEF Entry!IInv, Entry!Types, Entry!Running, Entry!Ended, Entry!Served, Entry!Local,
     Entry!Loading
<1>2. ASSUME app = "open", env.pgEnabled
      PROVE  /\ ~env.ui /\ ~env.adminEnabled /\ Entry!Bindable(address, env)
             /\ Entry!PgwireResolved(env) /\ Entry!FileConfigValid(env.document)
  BY <1>1, <1>2 DEF Entry!IInv, Entry!Accepted, Entry!Bound, Entry!AdminEnabled,
     Entry!ParseConfigBundle
<1>3. ASSUME app = "open", env.pgEnabled, address # "loopback"
      PROVE  tls.ready
  <2>1. ~Entry!BindIsLoopback(env)
    BY <1>2, <1>3 DEF Entry!BindIsLoopback, Entry!Bindable, Entry!BindIsHostname, Entry!BindKind,
       Entry!Literal
  <2>2. Entry!TlsConfigured(env)
    BY <1>2, <1>3, <2>1 DEF Entry!PgwireResolved, Entry!TlsRequired
  <2> QED
    BY <1>1, <1>3, <2>2 DEF Entry!IInv, Entry!Loaded
<1>4. tls.ready => /\ tls.binding = tls.loaded /\ tls.binding = tls.pem.leaf /\ tls.pem.valid
                   /\ tls.pem.ino = tls.certWas.ino /\ tls.certWas.good /\ tls.keyWas.good
  BY DEF Entry!IInv, Entry!Loaded, Entry!Trusted, Entry!Valid, Entry!SameLeaf
<1>5. ASSUME app = "open", env.pgEnabled, env.document.revision > 0
      PROVE  "none" \notin Entry!Range(env.document.ruleIds)
  BY <1>2, <1>5 DEF Entry!FileConfigValid
<1>6. Entry!ListeningIsSafe
  BY <1>2, <1>3, <1>4, <1>5 DEF Entry!ListeningIsSafe, Entry!Bindable
<1>7. ASSUME exit # "none" PROVE mainPc = "done"
  BY <1>7 DEF Entry!IInv, Entry!Types, Entry!Running, Entry!Served, Entry!Local, Entry!Loading
<1>8. ASSUME told # <<>>, told[1] = "revision" PROVE "revision" \in Entry!Range(told)
  <2>1. told \in Seq(Entry!Line)
    BY DEF Entry!IInv, Entry!Types
  <2>2. 1 \in DOMAIN told
    BY <1>8, <2>1
  <2> QED
    BY <1>8, <2>2 DEF Entry!Range
<1>9. Entry!EndsClosed
  BY <1>7, <1>8 DEF Entry!IInv, Entry!Ended, Entry!EndsClosed
<1> QED
  BY <1>6, <1>9

LEMMA EntryParts ==
    ASSUME [PartsNext]_<<part, vars, fileVars, entryVars>>
    PROVE  part' = part /\ (part = "entry" => [Entry!Next]_Entry!vars)
  BY DEF PartsNext, entryVars, Entry!vars

(***************************************************************************)
(* The entry point of bootstrap/main.py is sound, whatever is replaced     *)
(* under pgwire/tls.py while it loads the certificate: a process that      *)
(* serves PostgreSQL clients beyond this host presents the certificate it  *)
(* read and found valid and binds its channels to it, on the literal it    *)
(* was given (a wildcard too) or on one address resolved from the name,    *)
(* never a wildcard, with no other plane; and one that ends has closed its *)
(* application, or tells by its exit code that close() gave up.            *)
(***************************************************************************)
THEOREM StartupCorrect == Parts => []StartupSound
<1> DEFINE Inv == part = "entry" => Entry!IInv
<1>1. PartsInit => Inv
  BY EntryInitial DEF PartsInit
<1>2. Inv /\ [PartsNext]_<<part, vars, fileVars, entryVars>> => Inv'
  BY EntryStep, EntryParts
<1>3. Inv => StartupSound
  BY EntryIsSound DEF StartupSound
<1> HIDE DEF Inv
<1> QED
  BY <1>1, <1>2, <1>3, PTL DEF Parts
=============================================================================
