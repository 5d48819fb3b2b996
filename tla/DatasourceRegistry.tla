------------------------- MODULE DatasourceRegistry -------------------------
(***************************************************************************)
(* The multi-datasource registry of runtime/datasources.py: immutable      *)
(* generations published per alias, admitted sessions (leases) that stay   *)
(* on the generation they captured, candidate reservations taken before a  *)
(* new generation is built, and the two-phase shutdown.                    *)
(*                                                                         *)
(* Threads: one per lease (the session's own thread), one per reservation  *)
(* (an administrative operation), the threads that withdraw or dispose,    *)
(* and the single thread inside close() (others wait for _close_lock and   *)
(* find _closed).  A step of the model is one critical section of the      *)
(* registry lock, or one step taken under a lease lock; whatever the code  *)
(* does outside both (connect, query, dispose) is a step of its own.       *)
(***************************************************************************)
EXTENDS Integers, FiniteSets

CONSTANTS
    Datasource,      \* datasource ids
    Alias,           \* published names
    Lease,           \* DatasourceLease objects that may ever be created
    Reservation,     \* CandidateReservation objects alive at one time
    MaxGenerations,  \* bound on the process-wide generation number
    SessionLimits,   \* values of prepared.max_sessions a record may carry
    MaxSessions,     \* RegistryLimits.max_sessions
    MaxRetired,      \* RegistryLimits.max_retired
    MaxCandidates    \* RegistryLimits.max_candidates

CONSTANT None        \* absence of a key, a lease or a datasource

MaxRetiredPerDatasource == 1
MaxCandidatesPerDatasource == 1

\* RegistryLimits.__post_init__: every limit is an integer >= 1.
ASSUME LimitsAssumption ==
    /\ MaxGenerations \in Nat \ {0}
    /\ MaxSessions \in Nat \ {0}
    /\ MaxRetired \in Nat \ {0}
    /\ MaxCandidates \in Nat \ {0}
    /\ SessionLimits \subseteq Nat \ {0}

ASSUME SetsAssumption ==
    /\ IsFiniteSet(Lease)
    /\ IsFiniteSet(Reservation)
    /\ None \notin Datasource \cup Alias \cup Lease \cup Reservation

Gen == 1..MaxGenerations
NoGen == 0

\* The candidate limit counts by datasource id, or by a key derived from the
\* alias while the datasource does not exist yet (_new_key).
Key == Datasource \cup Alias

VARIABLES
    published,       \* _published: alias -> generation, or NoGen
    retired,         \* _retired: retired generations not yet closed
    nextGeneration,  \* _next_generation
    genDs,           \* DatasourceGeneration._datasource_id
    genMax,          \* prepared.max_sessions of the generation
    genSessions,     \* DatasourceGeneration._sessions
    genRetired,      \* generations whose _retired flag is set
    genClosed,       \* generations whose _closed flag is set
    prepared,        \* generations whose _prepared is not None
    sessions,        \* _sessions: admitted leases
    dsSessions,      \* _ds_sessions
    dsRetired,       \* _ds_retired
    dsCandidates,    \* _ds_candidates
    candidates,      \* _candidates
    reservedRetired, \* _reserved_retired
    closing,         \* _closing
    closed           \* _closed

VARIABLES
    leaseGen,        \* DatasourceLease._generation, NoGen before admission
    holder,          \* who holds DatasourceLease._lock
    leaseClosed,     \* leases whose _closed flag is set
    terminating,     \* leases whose _terminating flag is set
    connected,       \* leases whose adapter has an open upstream connection
    cancelled,       \* leases whose running statement was cancelled
    pc               \* control point of the session's thread

VARIABLES
    held,            \* reservations constructed and not released
    resKey,          \* CandidateReservation._key
    resPublish,      \* reservations with _publish set
    resSlot          \* reservations with _retired_slot set

VARIABLES
    spc,             \* control point of the thread inside close()
    todo,            \* leases of the snapshot this phase has not handled yet
    snapshot,        \* the leases copied when close() began
    cur              \* the lease close() is working on, or None

genVars == <<nextGeneration, genDs, genMax>>
lifeVars == <<published, retired, genRetired, genClosed, dsRetired>>
sessionVars == <<sessions, genSessions, dsSessions>>
leaseVars == <<leaseGen, holder, leaseClosed, terminating, connected, cancelled, pc>>
resVars == <<held, resKey, resPublish, resSlot, dsCandidates, candidates, reservedRetired>>
shutdownVars == <<spc, todo, snapshot, cur>>
vars == <<genVars, lifeVars, prepared, sessionVars, leaseVars, resVars,
          shutdownVars, closing, closed>>

-----------------------------------------------------------------------------

Init ==
    /\ published = [a \in Alias |-> NoGen]
    /\ retired = {}
    /\ nextGeneration = 1
    /\ genDs = [g \in Gen |-> None]
    /\ genMax = [g \in Gen |-> 0]
    /\ genSessions = [g \in Gen |-> 0]
    /\ genRetired = {}
    /\ genClosed = {}
    /\ prepared = {}
    /\ sessions = {}
    /\ dsSessions = [d \in Datasource |-> 0]
    /\ dsRetired = [d \in Datasource |-> 0]
    /\ dsCandidates = [k \in Key |-> 0]
    /\ candidates = 0
    /\ reservedRetired = 0
    /\ closing = FALSE
    /\ closed = FALSE
    /\ leaseGen = [l \in Lease |-> NoGen]
    /\ holder = [l \in Lease |-> "free"]
    /\ leaseClosed = {}
    /\ terminating = {}
    /\ connected = {}
    /\ cancelled = {}
    /\ pc = [l \in Lease |-> "new"]
    /\ held = {}
    /\ resKey = [r \in Reservation |-> None]
    /\ resPublish = {}
    /\ resSlot = {}
    /\ spc = "none"
    /\ todo = {}
    /\ snapshot = {}
    /\ cur = None

-----------------------------------------------------------------------------
(* Candidates and publication *)

\* _published_for_locked(datasource_id) is not None
PublishedFor(d) == \E a \in Alias : published[a] # NoGen /\ genDs[published[a]] = d

\* _check_retired_capacity_locked does not raise
RetiredCapacity(d) ==
    /\ dsRetired[d] < MaxRetiredPerDatasource
    /\ Cardinality(retired) + reservedRetired < MaxRetired

\* How many retired slots the reservation gives back.
SlotsOf(r) == IF r \in resSlot THEN 1 ELSE 0

\* reserve(key, datasource_id=d, publish=p).  d = None when the caller has no
\* datasource yet (create, test of a draft) or only tests a connection.
\* Refusals (closing, per-key limit, global limit, no retired slot) change
\* nothing: the reservation object is not created.
Reserve(r, k, d, p) ==
    /\ r \notin held
    /\ ~closing
    /\ dsCandidates[k] < MaxCandidatesPerDatasource
    /\ candidates < MaxCandidates
    /\ LET retires == p /\ d # None /\ PublishedFor(d)
       IN /\ retires => RetiredCapacity(d)
          /\ reservedRetired' = reservedRetired + (IF retires THEN 1 ELSE 0)
          /\ resSlot' = IF retires THEN resSlot \cup {r} ELSE resSlot
    /\ dsCandidates' = [dsCandidates EXCEPT ![k] = @ + 1]
    /\ candidates' = candidates + 1
    /\ held' = held \cup {r}
    /\ resKey' = [resKey EXCEPT ![r] = k]
    /\ resPublish' = IF p THEN resPublish \cup {r} ELSE resPublish
    /\ UNCHANGED <<genVars, lifeVars, prepared, sessionVars, leaseVars,
                   shutdownVars, closing, closed>>

\* _release_reservation: leaving the with block, published or not.  Releasing
\* twice changes nothing; the object is then gone, and r may name another one.
ReleaseReservation(r) ==
    /\ r \in held
    /\ held' = held \ {r}
    /\ dsCandidates' = [dsCandidates EXCEPT ![resKey[r]] = @ - 1]
    /\ candidates' = candidates - 1
    /\ resSlot' = resSlot \ {r}
    /\ reservedRetired' = reservedRetired - SlotsOf(r)
    /\ resKey' = [resKey EXCEPT ![r] = None]
    /\ resPublish' = resPublish \ {r}
    /\ UNCHANGED <<genVars, lifeVars, prepared, sessionVars, leaseVars,
                   shutdownVars, closing, closed>>

\* Faulty variant of Retire: the per-datasource count of retired generations is forgotten.
RetireUncounted(g) ==
    /\ genRetired' = genRetired \cup {g}
    /\ IF genSessions[g] = 0
         THEN genClosed' = genClosed \cup {g} /\ UNCHANGED retired
         ELSE retired' = retired \cup {g} /\ UNCHANGED genClosed
    /\ UNCHANGED dsRetired

\* _retire_locked(g) followed by _take_closable_locked(g): an idle generation
\* is closed on the spot and never enters the list of open retired ones.
Retire(g) ==
    /\ genRetired' = genRetired \cup {g}
    /\ IF genSessions[g] = 0
         THEN /\ genClosed' = genClosed \cup {g}
              /\ UNCHANGED <<retired, dsRetired>>
         ELSE /\ retired' = retired \cup {g}
              /\ dsRetired' = [dsRetired EXCEPT ![genDs[g]] = @ + 1]
              /\ UNCHANGED genClosed

\* The alias is free or d's own, and d is not published under another alias.
MayTake(d, a) ==
    /\ published[a] # NoGen => genDs[published[a]] = d
    /\ \A b \in Alias \ {a} : published[b] # NoGen => genDs[published[b]] # d

\* _publish: the reservation's right to publish was checked by publish(); the
\* registry must not be closed (closing is allowed), the alias must not belong
\* to another datasource nor the datasource to another alias, and a reserved
\* retired slot is consumed, or capacity is checked again without one.
Publish(r, d, a, m) ==
    /\ r \in held /\ r \in resPublish
    /\ ~closed
    /\ nextGeneration <= MaxGenerations
    /\ MayTake(d, a)
    /\ LET old == published[a]
           new == nextGeneration
       IN /\ genDs' = [genDs EXCEPT ![new] = d]
          /\ genMax' = [genMax EXCEPT ![new] = m]
          /\ prepared' = prepared \cup {new}
          /\ nextGeneration' = new + 1
          /\ published' = [published EXCEPT ![a] = new]
          /\ IF old = NoGen
               THEN UNCHANGED <<retired, genRetired, genClosed, dsRetired,
                                resSlot, reservedRetired>>
               ELSE /\ r \notin resSlot => RetiredCapacity(d)
                    /\ resSlot' = resSlot \ {r}
                    /\ reservedRetired' = reservedRetired - SlotsOf(r)
                    /\ Retire(old)
    /\ UNCHANGED <<sessionVars, leaseVars, held, resKey, resPublish,
                   dsCandidates, candidates, shutdownVars, closing, closed>>

\* withdraw(datasource_id): never refused by a limit.
Withdraw(a) ==
    /\ published[a] # NoGen
    /\ published' = [published EXCEPT ![a] = NoGen]
    /\ Retire(published[a])
    /\ UNCHANGED <<genVars, prepared, sessionVars, leaseVars, resVars,
                   shutdownVars, closing, closed>>

\* _dispose(), outside the lock, by the transition that marked it closed.
Dispose(g) ==
    /\ g \in genClosed \cap prepared
    /\ prepared' = prepared \ {g}
    /\ UNCHANGED <<genVars, lifeVars, sessionVars, leaseVars, resVars,
                   shutdownVars, closing, closed>>

-----------------------------------------------------------------------------
(* Sessions *)

\* The global limit, and the datasource's: sessions of every generation of the
\* datasource count against the limit of the published one.
Admits(g) ==
    /\ Cardinality(sessions) < MaxSessions
    /\ dsSessions[genDs[g]] < genMax[g]

\* open_session, the part under the registry lock.  The session is counted
\* before it connects, and its own lock is held across the connect.
OpenSession(l, a) ==
    /\ pc[l] = "new"
    /\ ~closing
    /\ LET g == published[a]
       IN /\ g # NoGen
          /\ g \notin genRetired /\ g \notin genClosed
          /\ Admits(g)
          /\ genSessions' = [genSessions EXCEPT ![g] = @ + 1]
          /\ dsSessions' = [dsSessions EXCEPT ![genDs[g]] = @ + 1]
          /\ leaseGen' = [leaseGen EXCEPT ![l] = g]
    /\ sessions' = sessions \cup {l}
    /\ holder' = [holder EXCEPT ![l] = "session"]
    /\ pc' = [pc EXCEPT ![l] = "connecting"]
    /\ UNCHANGED <<genVars, lifeVars, prepared, leaseClosed, terminating,
                   connected, cancelled, resVars, shutdownVars, closing, closed>>

\* A session-thread step that moves from one control point to another and
\* touches nothing of the registry.
Move(l, from, to) ==
    /\ pc[l] = from
    /\ pc' = [pc EXCEPT ![l] = to]
    /\ UNCHANGED <<genVars, lifeVars, prepared, sessionVars, leaseGen, resVars,
                   shutdownVars, closing, closed>>

\* adapter.connect() succeeds; _terminating is read next.
ConnectOk(l) ==
    /\ Move(l, "connecting", "checking")
    /\ connected' = connected \cup {l}
    /\ UNCHANGED <<holder, leaseClosed, terminating, cancelled>>

\* _close_locked up to adapter.close(), by whoever holds the lease lock; the
\* registry release that follows is a step of its own.
CloseAdapter(l) ==
    /\ leaseClosed' = leaseClosed \cup {l}
    /\ connected' = connected \ {l}
    /\ cancelled' = cancelled \ {l}

\* connect() raises: the except clause closes the lease.
ConnectFail(l) ==
    /\ Move(l, "connecting", "releasing")
    /\ CloseAdapter(l)
    /\ UNCHANGED <<holder, terminating>>

\* open_session after connect, and the finally of use(): close when the
\* shutdown marked the session, else go on to release the lease lock.
CheckTerminating(l) ==
    \/ /\ l \in terminating
       /\ Move(l, "checking", "releasing")
       /\ CloseAdapter(l)
       /\ UNCHANGED <<holder, terminating>>
    \/ /\ l \notin terminating
       /\ Move(l, "checking", "unlocking")
       /\ UNCHANGED <<holder, leaseClosed, terminating, connected, cancelled>>

Unlock(l) ==
    /\ Move(l, "unlocking", "idle")
    /\ holder' = [holder EXCEPT ![l] = "free"]
    /\ UNCHANGED <<leaseClosed, terminating, connected, cancelled>>

\* Entering use(): a usable session starts validating its SQL; one marked by
\* the shutdown is closed; a closed one raises, its thread is finished.
UseBegin(l) ==
    /\ holder[l] = "free"
    /\ \/ /\ l \in leaseClosed
          /\ Move(l, "idle", "done")
          /\ UNCHANGED <<holder, leaseClosed, connected, cancelled>>
       \/ /\ l \notin leaseClosed /\ l \in terminating
          /\ Move(l, "idle", "releasing")
          /\ holder' = [holder EXCEPT ![l] = "session"]
          /\ CloseAdapter(l)
       \/ /\ l \notin leaseClosed /\ l \notin terminating
          /\ Move(l, "idle", "validating")
          /\ holder' = [holder EXCEPT ![l] = "session"]
          /\ UNCHANGED <<leaseClosed, connected, cancelled>>
    /\ UNCHANGED terminating

\* execute_validated rejects the SQL before the server sees a statement.
Reject(l) ==
    /\ Move(l, "validating", "checking")
    /\ UNCHANGED <<holder, leaseClosed, terminating, connected, cancelled>>

\* The statement starts on the server.
Execute(l) ==
    /\ Move(l, "validating", "running")
    /\ UNCHANGED <<holder, leaseClosed, terminating, connected, cancelled>>

\* The statement ends by itself (result, error, statement_timeout).
Complete(l) ==
    /\ l \notin cancelled
    /\ Move(l, "running", "checking")
    /\ UNCHANGED <<holder, leaseClosed, terminating, connected, cancelled>>

\* The statement ends because the server honoured a cancel request.
Abort(l) ==
    /\ l \in cancelled
    /\ Move(l, "running", "checking")
    /\ cancelled' = cancelled \ {l}
    /\ UNCHANGED <<holder, leaseClosed, terminating, connected>>

\* Lease.close() by the session's thread; idempotent.
CloseLease(l) ==
    /\ holder[l] = "free"
    /\ \/ /\ l \in leaseClosed
          /\ Move(l, "idle", "done")
          /\ UNCHANGED <<holder, leaseClosed, connected, cancelled>>
       \/ /\ l \notin leaseClosed
          /\ Move(l, "idle", "releasing")
          /\ holder' = [holder EXCEPT ![l] = "session"]
          /\ CloseAdapter(l)
    /\ UNCHANGED terminating

\* Faulty variant of LastUser: any release of a retired generation closes it.
AnyUser(g) == g \in genRetired /\ g \notin genClosed

\* _take_closable_locked, evaluated with the count already decremented.
LastUser(g) == g \in genRetired /\ genSessions[g] - 1 = 0 /\ g \notin genClosed

\* DatasourceRegistry._release: the lease leaves the set, the counters go
\* down, and a retired generation that became idle is closed by this release.
Release(l) ==
    LET g == leaseGen[l]
        d == genDs[g]
        idle == LastUser(g)
    IN /\ sessions' = sessions \ {l}
       /\ genSessions' = [genSessions EXCEPT ![g] = @ - 1]
       /\ dsSessions' = [dsSessions EXCEPT ![d] = @ - 1]
       /\ genClosed' = IF idle THEN genClosed \cup {g} ELSE genClosed
       /\ retired' = IF idle THEN retired \ {g} ELSE retired
       /\ dsRetired' = IF idle THEN [dsRetired EXCEPT ![d] = @ - 1] ELSE dsRetired
       /\ UNCHANGED <<published, genRetired>>

\* The registry release inside _close_locked, and the lease lock's release.
ReleaseSession(l) ==
    /\ pc[l] = "releasing"
    /\ Release(l)
    /\ pc' = [pc EXCEPT ![l] = "done"]
    /\ holder' = [holder EXCEPT ![l] = "free"]
    /\ UNCHANGED <<genVars, prepared, leaseGen, leaseClosed, terminating,
                   connected, cancelled, resVars, shutdownVars, closing, closed>>

-----------------------------------------------------------------------------
(* Shutdown *)

\* begin_shutdown(): stops admission and reservations, waits for nothing.
BeginShutdown ==
    /\ ~closing
    /\ closing' = TRUE
    /\ UNCHANGED <<genVars, lifeVars, prepared, sessionVars, leaseVars, resVars,
                   shutdownVars, closed>>

\* close(), first critical section.
CloseBegin ==
    /\ spc = "none"
    /\ closing' = TRUE
    /\ snapshot' = sessions
    /\ todo' = sessions
    /\ spc' = "request"
    /\ UNCHANGED <<genVars, lifeVars, prepared, sessionVars, leaseVars, resVars,
                   cur, closed>>

\* adapter.cancel() from the shutdown's thread: it reaches the server only when
\* the session has a connection with a statement in flight.
Cancel(l) ==
    cancelled' = IF pc[l] = "running" THEN cancelled \cup {l} ELSE cancelled

\* Faulty variant of LockFree: the shutdown takes a lease whose lock another thread holds.
LockIgnored(l) == holder[l] # "shutdown"

\* DatasourceLease._lock.acquire succeeds.
LockFree(l) == holder[l] = "free"

\* Phase 1 for one lease, never blocking.  Lock free: mark and close (the
\* registry release is ShutdownRelease).  Lock busy: mark, then cancel.
RequestTermination(l) ==
    /\ spc = "request" /\ cur = None /\ l \in todo
    /\ terminating' = terminating \cup {l}
    /\ \/ /\ LockFree(l) /\ l \notin leaseClosed
          /\ CloseAdapter(l)
          /\ holder' = [holder EXCEPT ![l] = "shutdown"]
          /\ cur' = l
          /\ UNCHANGED todo
       \/ /\ LockFree(l) /\ l \in leaseClosed
          /\ todo' = todo \ {l}
          /\ UNCHANGED <<holder, leaseClosed, connected, cancelled, cur>>
       \/ /\ ~LockFree(l)
          /\ Cancel(l)
          /\ todo' = todo \ {l}
          /\ UNCHANGED <<holder, leaseClosed, connected, cur>>
    /\ UNCHANGED <<genVars, lifeVars, prepared, sessionVars, leaseGen, pc,
                   resVars, spc, snapshot, closing, closed>>

\* _registry._release by the shutdown's thread, and the lease lock's release.
ShutdownRelease ==
    /\ cur # None /\ holder[cur] = "shutdown"
    /\ Release(cur)
    /\ holder' = [holder EXCEPT ![cur] = "free"]
    /\ todo' = todo \ {cur}
    /\ cur' = None
    /\ UNCHANGED <<genVars, prepared, leaseGen, leaseClosed, terminating,
                   connected, cancelled, pc, resVars, spc, snapshot, closing, closed>>

RequestDone ==
    /\ spc = "request" /\ todo = {}
    /\ spc' = "finish"
    /\ todo' = snapshot
    /\ UNCHANGED <<genVars, lifeVars, prepared, sessionVars, leaseVars, resVars,
                   snapshot, cur, closing, closed>>

\* Phase 2 takes the leases one at a time and blocks on each lease lock.
FinishNext(l) ==
    /\ spc = "finish" /\ cur = None /\ l \in todo
    /\ cur' = l
    /\ UNCHANGED <<genVars, lifeVars, prepared, sessionVars, leaseVars, resVars,
                   spc, todo, snapshot, closing, closed>>

\* Faulty variant of FinishRecancel: the wait is repeated without asking for the cancellation again.
FinishRewait ==
    /\ spc = "finish" /\ cur # None /\ holder[cur] = "session"
    /\ terminating' = terminating \cup {cur}
    /\ UNCHANGED <<genVars, lifeVars, prepared, sessionVars, leaseGen, holder,
                   leaseClosed, connected, cancelled, pc, resVars, shutdownVars,
                   closing, closed>>

\* The wait for the lease lock timed out: mark and cancel again.
FinishRecancel ==
    /\ spc = "finish" /\ cur # None /\ holder[cur] = "session"
    /\ terminating' = terminating \cup {cur}
    /\ Cancel(cur)
    /\ UNCHANGED <<genVars, lifeVars, prepared, sessionVars, leaseGen, holder,
                   leaseClosed, connected, pc, resVars, shutdownVars, closing, closed>>

\* The lease lock was acquired: mark and close, or find it closed already.
FinishAcquire ==
    /\ spc = "finish" /\ cur # None /\ LockFree(cur)
    /\ terminating' = terminating \cup {cur}
    /\ \/ /\ cur \notin leaseClosed
          /\ CloseAdapter(cur)
          /\ holder' = [holder EXCEPT ![cur] = "shutdown"]
          /\ UNCHANGED <<todo, cur>>
       \/ /\ cur \in leaseClosed
          /\ todo' = todo \ {cur}
          /\ cur' = None
          /\ UNCHANGED <<holder, leaseClosed, connected, cancelled>>
    /\ UNCHANGED <<genVars, lifeVars, prepared, sessionVars, leaseGen, pc,
                   resVars, spc, snapshot, closing, closed>>

FinishDone ==
    /\ spc = "finish" /\ cur = None /\ todo = {}
    /\ spc' = "drain"
    /\ UNCHANGED <<genVars, lifeVars, prepared, sessionVars, leaseVars, resVars,
                   todo, snapshot, cur, closing, closed>>

\* Faulty variant of Drained: candidates in flight are not waited for.
SessionsDrained == sessions = {}

\* What the condition _drained is waited for.
Drained == sessions = {} /\ candidates = 0

\* close(), last critical section: entered when no session and no candidate is
\* left; every generation still open is closed (and disposed afterwards).
CloseEnd ==
    /\ spc = "drain"
    /\ Drained
    /\ LET pending == {published[a] : a \in {b \in Alias : published[b] # NoGen}}
                        \cup retired
       IN /\ genRetired' = genRetired \cup pending
          /\ genClosed' = genClosed \cup pending
    /\ published' = [a \in Alias |-> NoGen]
    /\ retired' = {}
    /\ dsRetired' = [d \in Datasource |-> 0]
    /\ closed' = TRUE
    /\ spc' = "done"
    /\ UNCHANGED <<genVars, prepared, sessionVars, leaseVars, resVars, todo,
                   snapshot, cur, closing>>

-----------------------------------------------------------------------------

SessionStep(l) ==
    \/ \E a \in Alias : OpenSession(l, a)
    \/ ConnectOk(l) \/ ConnectFail(l)
    \/ CheckTerminating(l) \/ Unlock(l)
    \/ UseBegin(l) \/ Reject(l) \/ Execute(l) \/ Complete(l) \/ Abort(l)
    \/ CloseLease(l) \/ ReleaseSession(l)

\* The reservations the service makes: an existing datasource is reserved under
\* its own id, to publish (update, enable, rotation) or only to test; a draft is
\* reserved under a key of its alias, to create or only to test.  What it
\* publishes is the datasource, or the alias, it reserved.
ReservationStep(r) ==
    \/ \E d \in Datasource : Reserve(r, d, d, TRUE) \/ Reserve(r, d, None, FALSE)
    \/ \E a \in Alias, p \in BOOLEAN : Reserve(r, a, None, p)
    \/ \E d \in Datasource, a \in Alias, m \in SessionLimits :
         /\ resKey[r] \in {d, a}
         /\ Publish(r, d, a, m)
    \/ ReleaseReservation(r)

ShutdownStep ==
    \/ \E l \in Lease : RequestTermination(l)
    \/ ShutdownRelease \/ RequestDone
    \/ \E l \in Lease : FinishNext(l)
    \/ FinishRecancel \/ FinishAcquire \/ FinishDone \/ CloseEnd

Next ==
    \/ \E l \in Lease : SessionStep(l)
    \/ \E r \in Reservation : ReservationStep(r)
    \/ \E a \in Alias : Withdraw(a)
    \/ \E g \in Gen : Dispose(g)
    \/ BeginShutdown \/ CloseBegin \/ ShutdownStep

Spec == Init /\ [][Next]_vars

\* What the code's scheduling guarantees once close() was called: threads that
\* hold the processor's attention go on (connect is bounded by connect_timeout,
\* validation is local, a with block ends), and a cancelled statement ends.
\* Nothing forces a statement nobody cancelled to end, nor an idle client to act.
Fairness ==
    /\ \A l \in Lease :
         WF_vars(\/ ConnectOk(l) \/ ConnectFail(l)
                 \/ CheckTerminating(l) \/ Unlock(l) \/ ReleaseSession(l)
                 \/ Reject(l) \/ Execute(l) \/ Abort(l))
    /\ \A r \in Reservation : WF_vars(ReleaseReservation(r))
    /\ WF_vars(ShutdownStep)

FairSpec == Spec /\ Fairness

-----------------------------------------------------------------------------
(* Properties *)

\* A session's thread between taking its lease lock and giving it back.
Busy(l) == pc[l] \in {"connecting", "checking", "unlocking", "validating",
                      "running", "releasing"}

TypeGen ==
    /\ published \in [Alias -> Gen \cup {NoGen}]
    /\ retired \in SUBSET Gen
    /\ nextGeneration \in 1..(MaxGenerations + 1)
    /\ genDs \in [Gen -> Datasource \cup {None}]
    /\ genMax \in [Gen -> Nat]
    /\ genRetired \in SUBSET Gen
    /\ genClosed \in SUBSET Gen
    /\ prepared \in SUBSET Gen
    /\ dsRetired \in [Datasource -> Nat]

TypeSession ==
    /\ sessions \in SUBSET Lease
    /\ genSessions \in [Gen -> Nat]
    /\ dsSessions \in [Datasource -> Nat]
    /\ leaseGen \in [Lease -> Gen \cup {NoGen}]

TypeReservation ==
    /\ held \in SUBSET Reservation
    /\ resKey \in [Reservation -> Key \cup {None}]
    /\ resPublish \in SUBSET Reservation
    /\ resSlot \in SUBSET Reservation
    /\ dsCandidates \in [Key -> Nat]
    /\ candidates \in Nat
    /\ reservedRetired \in Nat

TypeLease ==
    /\ holder \in [Lease -> {"free", "session", "shutdown"}]
    /\ leaseClosed \in SUBSET Lease
    /\ terminating \in SUBSET Lease
    /\ connected \in SUBSET Lease
    /\ cancelled \in SUBSET Lease
    /\ pc \in [Lease -> {"new", "connecting", "checking", "unlocking", "idle",
                         "validating", "running", "releasing", "done"}]

TypeShutdown ==
    /\ closing \in BOOLEAN
    /\ closed \in BOOLEAN
    /\ spc \in {"none", "request", "finish", "drain", "done"}
    /\ todo \in SUBSET Lease
    /\ snapshot \in SUBSET Lease
    /\ cur \in Lease \cup {None}

TypeOK == TypeGen /\ TypeSession /\ TypeReservation /\ TypeLease /\ TypeShutdown

OnGen(g) == {l \in sessions : leaseGen[l] = g}
OnDatasource(d) == {l \in sessions : genDs[leaseGen[l]] = d}

SessionsCounted ==
    /\ \A g \in Gen : genSessions[g] = Cardinality(OnGen(g))
    /\ \A d \in Datasource : dsSessions[d] = Cardinality(OnDatasource(d))

RetiredOf(d) == {g \in retired : genDs[g] = d}
RetiredCounted == \A d \in Datasource : dsRetired[d] = Cardinality(RetiredOf(d))

HeldUnder(k) == {r \in held : resKey[r] = k}
CandidatesCounted ==
    /\ \A k \in Key : dsCandidates[k] = Cardinality(HeldUnder(k))
    /\ candidates = Cardinality(held)
    /\ reservedRetired = Cardinality(resSlot)

\* Every counter the registry keeps equals the size of the set it stands for,
\* whichever thread (session, shutdown, administrative operation) did the
\* last step: a counter that drifts lets a limit be exceeded or blocks a
\* datasource for ever (reserve, _publish, _release, _release_reservation).
CountersAgree == SessionsCounted /\ RetiredCounted /\ CandidatesCounted

\* The session set tells the truth about upstream connections: an open
\* connection always belongs to an admitted session, and no session sits on a
\* generation that was closed or whose content was disposed.  Hence the
\* limits on sessions bound connections, and the secret of a generation is
\* dropped only after its last connection (_close_locked, _release, _dispose).
SessionsOwnConnections ==
    /\ connected \subseteq sessions
    /\ \A l \in sessions : leaseGen[l] \in prepared \ genClosed

\* A retired generation stays open only for the sessions that captured it: one
\* with no session would never be closed, since no release would come
\* (_retire_locked and _take_closable_locked).
RetiredIsDraining == \A g \in retired : OnGen(g) # {}

\* What admission can reach is alive and unambiguous: a published generation is
\* neither retired nor closed, and a datasource has one published generation.
PublishedIsCurrent ==
    /\ \A a \in Alias : published[a] # NoGen =>
         published[a] \notin genRetired \cup genClosed
    /\ \A a, b \in Alias :
         published[a] # NoGen /\ published[b] # NoGen
           /\ genDs[published[a]] = genDs[published[b]] => a = b

\* The shutdown never closes a connection under its session's thread: while
\* that thread connects or queries, the lease is open, counted, and its lock
\* is the thread's own (_request_termination, _finish_termination, use).
NoCloseUnderUse ==
    \A l \in Lease :
        pc[l] \in {"connecting", "checking", "validating", "running"} =>
            l \in sessions \ leaseClosed /\ holder[l] = "session"

\* The limits hold: the process, and each generation, never serve more
\* sessions than admitted by configuration, connecting and closing included.
SessionLimitsHold ==
    /\ Cardinality(sessions) <= MaxSessions
    /\ \A g \in Gen : Cardinality(OnGen(g)) <= genMax[g]

\* After close() nothing is left: no session, connection, candidate or
\* generation open, so the catalog and its locks may be released.
ClosedIsEmpty ==
    closed => /\ sessions = {} /\ connected = {} /\ held = {}
              /\ \A a \in Alias : published[a] = NoGen
              /\ 1..(nextGeneration - 1) \subseteq genClosed

\* The registry as the abstract hand-over of generations.
Lifecycle == INSTANCE GenerationLifecycle WITH
    Slot <- Alias, User <- Lease, current <- published, draining <- retired,
    born <- 1..(nextGeneration - 1), users <- [g \in Gen |-> OnGen(g)]

\* Counters, flags, locks and the shutdown implement that hand-over: admission
\* only reaches a published generation, a session never changes generation, a
\* generation drains exactly while it has sessions, a number is never reused.
ImplementsLifecycle == Lifecycle!Spec

\* close() ends: sessions caught connecting, validating or running are closed
\* by cancellation alone, whatever the phase the cancel found them in.
ShutdownEnds == (spc = "request") ~> (spc = "done")

-----------------------------------------------------------------------------
(* The inductive strengthening the proofs rest on *)

Born == 1..(nextGeneration - 1)

\* Flags and collections tell one story about each generation.
GenInv ==
    /\ genClosed \subseteq genRetired
    /\ genRetired \subseteq Born
    /\ retired = genRetired \ genClosed
    /\ Born \ genClosed \subseteq prepared
    /\ \A g \in Born : genDs[g] \in Datasource
    /\ \A a \in Alias : published[a] # NoGen => published[a] \in Born \ genRetired
    /\ \A a, b \in Alias :
         published[a] # NoGen /\ published[b] # NoGen
           /\ genDs[published[a]] = genDs[published[b]] => a = b
    /\ \A g \in Born \ genRetired : \E a \in Alias : published[a] = g

\* Sessions sit on open generations, and a retired one has at least one.
SessionInv ==
    /\ \A l \in sessions : leaseGen[l] \in Born \ genClosed
    /\ \A g \in retired : \E l \in sessions : leaseGen[l] = g

ReservationInv ==
    /\ resSlot \subseteq held
    /\ \A r \in held : resKey[r] \in Key

\* Who may hold a lease lock, and what the lease looks like then.
LeaseInv(l) ==
    /\ pc[l] = "new" => l \notin sessions \cup leaseClosed /\ holder[l] = "free"
    /\ pc[l] \in {"connecting", "checking", "unlocking", "validating", "running"} =>
         l \in sessions \ leaseClosed /\ holder[l] = "session"
    /\ pc[l] = "releasing" => l \in sessions \cap leaseClosed /\ holder[l] = "session"
    /\ pc[l] = "idle" =>
         \/ holder[l] = "free" /\ (l \in sessions <=> l \notin leaseClosed)
         \/ holder[l] = "shutdown" /\ l \in sessions \cap leaseClosed
    /\ pc[l] = "done" => l \in leaseClosed \ sessions /\ holder[l] = "free"
    /\ holder[l] = "shutdown" => cur = l
    /\ l \in connected => l \in sessions \ leaseClosed

ShutdownInv ==
    /\ spc # "none" => closing
    /\ closed <=> spc = "done"
    /\ todo \subseteq snapshot
    /\ \A l \in snapshot : pc[l] # "new"
    /\ cur # None => cur \in snapshot /\ spc \in {"request", "finish"}
    /\ cur # None /\ spc = "request" => holder[cur] = "shutdown"
    /\ closed => sessions = {} /\ held = {} /\ Born \subseteq genClosed

IInv ==
    /\ TypeOK
    /\ CountersAgree
    /\ GenInv
    /\ SessionInv
    /\ ReservationInv
    /\ \A l \in Lease : LeaseInv(l)
    /\ ShutdownInv
    /\ SessionLimitsHold
=============================================================================
