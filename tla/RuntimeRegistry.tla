-------------------------- MODULE RuntimeRegistry --------------------------
(***************************************************************************)
(* The registry of the legacy data plane, maskgw/runtime/registry.py, and  *)
(* the queries that use it, Gateway.query in maskgw/gateway/service.py.    *)
(*                                                                         *)
(* One runtime (configuration, compiled policy, adapter) is published at a *)
(* time, named here by its revision.  A query acquires the published       *)
(* runtime, takes that runtime's connection lock, connects the adapter if  *)
(* needed, executes, and releases the runtime.  A reload publishes another *)
(* runtime and retires the old one, which is closed by the reload when     *)
(* nobody uses it and by the last release otherwise; the adapter is closed *)
(* after the registry's lock is left, so the decision and the effect are   *)
(* two steps.                                                              *)
(***************************************************************************)
EXTENDS Integers, FiniteSets

CONSTANTS
    Query,        \* query threads
    MaxRetired,   \* MAX_RETIRED_RUNTIMES, one in the code
    MaxRevision,  \* bound on the revisions explored
    Nobody        \* no thread

VARIABLES
    current,    \* the published revision, NoRuntime before the start
    retired,    \* retired and not yet closed, the list of the registry
    closed,     \* runtimes whose closing was decided
    refcount,   \* runtime -> acquisitions not yet released
    connected,  \* runtimes whose adapter has an open connection
    connLock,   \* runtime -> the query inside its connection lock
    pc,         \* query -> where it is
    using,      \* query -> the runtime it works on
    toClose     \* runtimes a reload or the shutdown still has to close

registryVars == <<current, retired, closed, refcount>>
queryVars == <<pc, using>>
vars == <<current, retired, closed, refcount, connected, connLock, pc, using, toClose>>

Revision == 0 .. MaxRevision
NoRuntime == -1

(* acquired: holds a reference; locked, ready, executing: inside the       *)
(* connection lock; leaving: outside it, reference still held; closing:    *)
(* released as the last user of a retired runtime.                         *)
InLock == {"locked", "ready", "executing"}
Holding == {"acquired", "leaving"} \cup InLock
States == {"idle", "closing"} \cup Holding

TypeOK ==
    /\ current \in Revision \cup {NoRuntime}
    /\ retired \subseteq Revision
    /\ closed \subseteq Revision
    /\ refcount \in [Revision -> Nat]
    /\ connected \subseteq Revision
    /\ connLock \in [Revision -> Query \cup {Nobody}]
    /\ pc \in [Query -> States]
    /\ using \in [Query -> Revision \cup {NoRuntime}]
    /\ toClose \subseteq Revision
    /\ \A q \in Query : pc[q] = "idle" <=> using[q] = NoRuntime

Init ==
    /\ current = NoRuntime
    /\ retired = {}
    /\ closed = {}
    /\ refcount = [r \in Revision |-> 0]
    /\ connected = {}
    /\ connLock = [r \in Revision |-> Nobody]
    /\ pc = [q \in Query |-> "idle"]
    /\ using = [q \in Query |-> NoRuntime]
    /\ toClose = {}

-----------------------------------------------------------------------------
(* The registry is built around a runtime that is already connected. *)
Start(r) ==
    /\ current = NoRuntime
    /\ current' = r
    /\ connected' = connected \cup {r}
    /\ UNCHANGED <<retired, closed, refcount, connLock, queryVars, toClose>>

(* acquire: the reference is read and counted in one critical section. *)
Acquire(q) ==
    /\ pc[q] = "idle"
    /\ current # NoRuntime
    /\ current \notin retired \cup closed
    /\ refcount' = [refcount EXCEPT ![current] = @ + 1]
    /\ using' = [using EXCEPT ![q] = current]
    /\ pc' = [pc EXCEPT ![q] = "acquired"]
    /\ UNCHANGED <<current, retired, closed, connected, connLock, toClose>>

Move(q, from, to) == pc[q] = from /\ pc' = [pc EXCEPT ![q] = to]

LockConnection(q) ==
    /\ Move(q, "acquired", "locked")
    /\ connLock[using[q]] = Nobody
    /\ connLock' = [connLock EXCEPT ![using[q]] = q]
    /\ UNCHANGED <<registryVars, connected, using, toClose>>

(* connect: nothing to do on an open connection, otherwise a new session   *)
(* is opened and verified; a failure leaves none open.                     *)
Connect(q) ==
    /\ Move(q, "locked", "ready")
    /\ connected' = connected \cup {using[q]}
    /\ UNCHANGED <<registryVars, connLock, using, toClose>>

Unlock(q) == connLock' = [connLock EXCEPT ![using[q]] = Nobody]

ConnectFails(q) ==
    /\ using[q] \notin connected
    /\ Move(q, "locked", "leaving")
    /\ Unlock(q)
    /\ UNCHANGED <<registryVars, connected, using, toClose>>

Execute(q) ==
    /\ Move(q, "ready", "executing")
    /\ UNCHANGED <<registryVars, connected, connLock, using, toClose>>

(* The statement ends, well or not; _settle closes a connection it cannot  *)
(* roll back.                                                              *)
Finish(q) ==
    /\ Move(q, "executing", "leaving")
    /\ Unlock(q)
    /\ connected' \in {connected, connected \ {using[q]}}
    /\ UNCHANGED <<registryVars, using, toClose>>

(* _take_closable_locked: the closing is decided and marked at once. *)
Closable(r, refs) == r \in retired /\ refs = 0 /\ r \notin closed

(* release: the last user of a retired runtime closes it, outside the lock. *)
Release(q) ==
    LET r == using[q]
        refs == refcount[r] - 1
        last == Closable(r, refs)
    IN  /\ pc[q] = "leaving"
        /\ refcount[r] > 0
        /\ refcount' = [refcount EXCEPT ![r] = refs]
        /\ IF last
           THEN /\ closed' = closed \cup {r}
                /\ retired' = retired \ {r}
                /\ pc' = [pc EXCEPT ![q] = "closing"]
                /\ UNCHANGED using
           ELSE /\ UNCHANGED <<closed, retired>>
                /\ pc' = [pc EXCEPT ![q] = "idle"]
                /\ using' = [using EXCEPT ![q] = NoRuntime]
        /\ UNCHANGED <<current, connected, connLock, toClose>>

CloseAdapter(q) ==
    /\ Move(q, "closing", "idle")
    /\ connected' = connected \ {using[q]}
    /\ using' = [using EXCEPT ![q] = NoRuntime]
    /\ UNCHANGED <<registryVars, connLock, toClose>>

-----------------------------------------------------------------------------
CanSwap == Cardinality(retired) < MaxRetired

(* swap: the old runtime is retired and the new one published in the same  *)
(* critical section; without users the old one is closed by the caller.    *)
Swap(new) ==
    LET old == current
        idle == refcount[old] = 0 /\ old \notin closed
    IN  /\ current # NoRuntime
        /\ CanSwap
        /\ current' = new
        /\ connected' = connected \cup {new}
        /\ retired' = IF idle THEN retired ELSE retired \cup {old}
        /\ closed' = IF idle THEN closed \cup {old} ELSE closed
        /\ toClose' = IF idle THEN toClose \cup {old} ELSE toClose
        /\ UNCHANGED <<refcount, connLock, queryVars>>

CloseRetired(r) ==
    /\ r \in toClose
    /\ toClose' = toClose \ {r}
    /\ connected' = connected \ {r}
    /\ UNCHANGED <<registryVars, connLock, queryVars>>

(* close_all, reached by Application.close once the data plane has stopped *)
(* running and every administrative thread has ended.                      *)
CloseAll ==
    /\ current # NoRuntime
    /\ \A q \in Query : pc[q] = "idle"
    /\ toClose' = toClose \cup ((retired \cup {current}) \ closed)
    /\ closed' = closed \cup retired \cup {current}
    /\ retired' = {}
    /\ UNCHANGED <<current, refcount, connected, connLock, queryVars>>

-----------------------------------------------------------------------------
QueryStep(q) ==
    \/ Acquire(q) \/ LockConnection(q) \/ Connect(q) \/ ConnectFails(q)
    \/ Execute(q) \/ Finish(q) \/ Release(q) \/ CloseAdapter(q)

-----------------------------------------------------------------------------
(***************************************************************************)
(* A query never works on a runtime whose closing was decided, however its *)
(* release races with a reload: from its acquire to its release the        *)
(* adapter it was given stays its own to connect and use.                  *)
(***************************************************************************)
NeverClosedInUse == \A q \in Query : pc[q] \in Holding => using[q] \notin closed
=============================================================================
