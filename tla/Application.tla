---------------------------- MODULE Application ----------------------------
(***************************************************************************)
(* The composition root, bootstrap/application.py: the start that builds   *)
(* every plane or none (build_application and its unwinding), run() and    *)
(* close(), which several threads may call and which may fail and be       *)
(* repeated.                                                               *)
(*                                                                         *)
(* The parts appear as what the composition sees of them.  A set of        *)
(* threads (the workers of AdminWorkQueue, the HTTP thread, the threads of *)
(* PgwireListener) is "none", "alive", "unsure" (a start failed and the    *)
(* thread may exist) or "ended"; a resource is "none", "open" or "closed". *)
(* The HTTP thread uses all three resources, the workers and the listener  *)
(* use the catalogue, the MCP server uses the runtime.                     *)
(***************************************************************************)
EXTENDS Naturals, FiniteSets

CONSTANTS
    Caller,      \* threads that may call run() and close()
    WorkThread,  \* the caller that is a worker of the administrative queue
    HttpThread,  \* the caller that is the HTTP thread
    PgThread,    \* the caller that is a thread of the listener
    Nobody       \* no caller

ASSUME CallersAssumption ==
    /\ {WorkThread, HttpThread, PgThread} \subseteq Caller
    /\ Nobody \notin Caller

VARIABLES
    parts,       \* what was asked of build_application
    phase,       \* "building", "built", "unwinding", "failed"
    next,        \* the next step of the start or of the unwinding
    work,        \* threads of the administrative work queue
    http,        \* the thread of the HTTP server
    listener,    \* threads of the PGWire listener
    admitting,   \* the parts that still admit work: "work", "listener"
    busy,        \* the queue runs or holds accepted work
    runtime,     \* the legacy runtime: "none", "adapter", "open", "closed"
    catalog,     \* DatasourceRuntime
    config,      \* ConfigFileStore: the lock on masking.yaml
    ledger,      \* what the ledger of the process retains
    settled      \* the unwinding's proof: dependencies_settled

VARIABLES
    running,     \* _running
    closing,     \* _closing
    closed,      \* _closed
    lock,        \* who holds _close_lock
    pc,          \* control point of each caller
    proof,       \* caller -> threads its close() proved ended
    failed       \* callers whose close() has an exception to raise

threadVars == <<work, http, listener, admitting, busy>>
resourceVars == <<runtime, catalog, config>>
startVars == <<parts, phase, next, settled>>
callVars == <<running, closing, closed, lock, pc, proof, failed>>
vars == <<threadVars, resourceVars, ledger, startVars, callVars>>

Threads == {"none", "alive", "unsure", "ended"}
Resource == {"none", "open", "closed"}
Part == {"admin", "http", "catalog", "pgwire"}
Owned == {"work", "listener", "http", "runtime", "catalog", "config", "application"}
StartSteps == {"catalog", "config", "adapter", "registry", "work", "http", "pgwire", "mcp"}
UnwindSteps == {"retain", "barriers", "drain", "listener", "http", "runtime", "catalog",
                "config", "release"}
CloseSteps == {"locking", "barriers", "drain", "listener", "http", "runtime", "catalog",
               "config", "finish"}

TypeOK ==
    /\ parts \subseteq Part
    /\ phase \in {"building", "built", "unwinding", "failed"}
    /\ next \in StartSteps \cup UnwindSteps
    /\ {work, http, listener} \subseteq Threads
    /\ admitting \subseteq {"work", "listener"}
    /\ busy \in BOOLEAN
    /\ runtime \in Resource \cup {"adapter"}
    /\ {catalog, config} \subseteq Resource
    /\ ledger \subseteq Owned
    /\ settled \in BOOLEAN
    /\ running \in BOOLEAN /\ closing \in BOOLEAN /\ closed \in BOOLEAN
    /\ lock \in Caller \cup {Nobody}
    /\ pc \in [Caller -> {"idle", "serving", "served"} \cup CloseSteps]
    /\ proof \in [Caller -> SUBSET {"work", "listener"}]
    /\ failed \subseteq Caller

(* The HTTP boundary implies the administrative section, and PGWire the    *)
(* catalogue (_prepare_pgwire).                                            *)
Consistent(set) ==
    /\ "http" \in set => "admin" \in set
    /\ "pgwire" \in set => "catalog" \in set

HasWork == {"http", "catalog"} \subseteq parts
HasListener == "pgwire" \in parts

Init ==
    /\ parts \in {set \in SUBSET Part : Consistent(set)}
    /\ phase = "building"
    /\ next = "catalog"
    /\ work = "none" /\ http = "none" /\ listener = "none"
    /\ admitting = {}
    /\ busy = FALSE
    /\ runtime = "none" /\ catalog = "none" /\ config = "none"
    /\ ledger = {}
    /\ settled = FALSE
    /\ running = FALSE /\ closing = FALSE /\ closed = FALSE
    /\ lock = Nobody
    /\ pc = [c \in Caller |-> "idle"]
    /\ proof = [c \in Caller |-> {}]
    /\ failed = {}

Live(threads) == threads \in {"alive", "unsure"}

-----------------------------------------------------------------------------
(* The start: build_application *)

Building(step, follow) ==
    /\ phase = "building"
    /\ next = step
    /\ phase' = "building"
    /\ next' = follow
    /\ UNCHANGED <<parts, settled, busy, callVars, ledger>>

OpenCatalog ==
    /\ Building("catalog", "config")
    /\ catalog' = IF "catalog" \in parts THEN "open" ELSE "none"
    /\ UNCHANGED <<work, http, listener, admitting, runtime, config>>

(* With an administrative plane the file is locked before it is read. *)
LoadConfiguration ==
    /\ Building("config", "adapter")
    /\ config' = IF "admin" \in parts THEN "open" ELSE "none"
    /\ UNCHANGED <<work, http, listener, admitting, runtime, catalog>>

ConnectAdapter ==
    /\ Building("adapter", "registry")
    /\ runtime' = "adapter"
    /\ UNCHANGED <<threadVars, catalog, config>>

BuildRegistry ==
    /\ Building("registry", "work")
    /\ runtime' = "open"
    /\ UNCHANGED <<threadVars, catalog, config>>

StartWork ==
    /\ Building("work", "http")
    /\ work' = IF HasWork THEN "alive" ELSE "none"
    /\ admitting' = IF HasWork THEN {"work"} ELSE {}
    /\ UNCHANGED <<http, listener, resourceVars>>

StartHttp ==
    /\ Building("http", "pgwire")
    /\ http' = IF "http" \in parts THEN "alive" ELSE "none"
    /\ UNCHANGED <<work, listener, admitting, resourceVars>>

StartListener ==
    /\ Building("pgwire", "mcp")
    /\ listener' = IF HasListener THEN "alive" ELSE "none"
    /\ admitting' = admitting \cup IF HasListener THEN {"listener"} ELSE {}
    /\ UNCHANGED <<work, http, resourceVars>>

BuildMcp ==
    /\ phase = "building"
    /\ next = "mcp"
    /\ phase' = "built"
    /\ UNCHANGED <<parts, next, settled, threadVars, resourceVars, ledger, callVars>>

(* Any step may fail.  A queue or a listener that could not be started may *)
(* have threads all the same (each was adopted before its start); the HTTP *)
(* server tears itself down.                                               *)
BuildFails ==
    /\ phase = "building"
    /\ phase' = "unwinding"
    /\ next' = "retain"
    /\ work' \in IF next = "work" /\ HasWork THEN {"alive", "unsure"} ELSE {work}
    /\ http' = IF next = "http" /\ "http" \in parts THEN "ended" ELSE http
    /\ listener' \in IF next = "pgwire" /\ HasListener THEN {"alive", "unsure"} ELSE {listener}
    /\ UNCHANGED <<parts, settled, admitting, busy, resourceVars, ledger, callVars>>

-----------------------------------------------------------------------------
(* The unwinding: _unwind_partial, _quiesce_partial, _close_partial *)

Unwinding(step, follow) ==
    /\ phase = "unwinding"
    /\ next = step
    /\ phase' = "unwinding"
    /\ next' = follow
    /\ UNCHANGED <<parts, callVars>>

Give(step) ==
    /\ phase = "unwinding"
    /\ next = step
    /\ phase' = "failed"
    /\ UNCHANGED <<parts, next, settled, threadVars, callVars>>

(* Only a queue or a listener makes the owners worth retaining: without    *)
(* them the unwinding is the plain one.                                    *)
Dependent == work # "none" \/ listener # "none"

Owners ==
    {o \in {"work", "listener", "catalog"} :
        \/ o = "work" /\ work # "none"
        \/ o = "listener" /\ listener # "none"
        \/ o = "catalog" /\ catalog # "none"}

UnwindRetain ==
    /\ Unwinding("retain", "barriers")
    /\ ledger' = IF Dependent THEN Owners ELSE {}
    /\ UNCHANGED <<settled, threadVars, resourceVars>>

(* Every admission closes before anything is drained. *)
UnwindBarriers ==
    /\ Unwinding("barriers", "drain")
    /\ admitting' = {}
    /\ UNCHANGED <<settled, work, http, listener, busy, resourceVars, ledger>>

(* What is joined has ended; what may not exist cannot be joined. *)
AfterDrain(threads) == IF threads = "alive" THEN "ended" ELSE threads

(* drain waits for the accepted work and joins what certainly runs. *)
UnwindDrain ==
    /\ Unwinding("drain", "listener")
    /\ ~busy
    /\ work' = AfterDrain(work)
    /\ settled' = ~Live(work')
    /\ UNCHANGED <<http, listener, admitting, busy, resourceVars, ledger>>

(* stop ends what it can prove; with a thread of unknown fate, or a socket *)
(* that does not close, it raises.                                         *)
UnwindListener ==
    /\ Unwinding("listener", "http")
    /\ listener' \in {AfterDrain(listener), listener}
    /\ settled' = (settled /\ ~Live(listener'))
    /\ UNCHANGED <<work, http, admitting, busy, resourceVars, ledger>>

UnwindHttp ==
    /\ Unwinding("http", "runtime")
    /\ http' = AfterDrain(http)
    /\ UNCHANGED <<settled, work, listener, admitting, busy, resourceVars, ledger>>

(* A stop that raised proves nothing of the thread: with a queue or a      *)
(* listener everything it may use is retained and stays open.              *)
UnwindHttpFails ==
    /\ Give("http")
    /\ http = "alive"
    /\ ledger' = ledger \cup IF Dependent THEN {"http", "runtime", "catalog", "config"} ELSE {}
    /\ UNCHANGED resourceVars

UnwindRuntime ==
    /\ Unwinding("runtime", "catalog")
    /\ runtime' = IF runtime = "none" THEN "none" ELSE "closed"
    /\ UNCHANGED <<settled, threadVars, catalog, config, ledger>>

(* The catalogue closes with the proof of both its users only. *)
UnwindCatalog ==
    /\ Unwinding("catalog", "config")
    /\ catalog' = IF catalog = "open" /\ settled THEN "closed" ELSE catalog
    /\ UNCHANGED <<settled, threadVars, runtime, config, ledger>>

UnwindConfig ==
    /\ Unwinding("config", "release")
    /\ config' = IF config = "open" THEN "closed" ELSE config
    /\ UNCHANGED <<settled, threadVars, runtime, catalog, ledger>>

(* One of the three closings raised: whatever it left is retained. *)
UnwindCloseFails ==
    /\ Give("release")
    /\ Dependent
    /\ ledger' = ledger \cup {"runtime", "config"}
    /\ UNCHANGED resourceVars

UnwindRelease ==
    /\ Give("release")
    /\ ledger' = IF settled THEN ledger \ {"work", "listener", "catalog"} ELSE ledger
    /\ UNCHANGED resourceVars

-----------------------------------------------------------------------------
(* The work of the parts while they live *)

AcceptWork ==
    /\ "work" \in admitting
    /\ work = "alive"
    /\ ~busy
    /\ busy' = TRUE
    /\ UNCHANGED <<work, http, listener, admitting, resourceVars, ledger, startVars, callVars>>

(* A job ends, unless it is itself inside a call of close(). *)
FinishWork ==
    /\ busy
    /\ pc[WorkThread] = "idle"
    /\ busy' = FALSE
    /\ UNCHANGED <<work, http, listener, admitting, resourceVars, ledger, startVars, callVars>>

(* A worker contains an unknown failure and dies without the proof drain   *)
(* asks for; a thread of the listener cannot close its socket.             *)
LoseWorker ==
    /\ work = "alive"
    /\ ~busy
    /\ phase = "built"
    /\ work' = "unsure"
    /\ UNCHANGED <<http, listener, admitting, busy, resourceVars, ledger, startVars, callVars>>

(* What was unsure turns out to have ended. *)
Resolve ==
    /\ \/ work = "unsure" /\ work' = "ended" /\ UNCHANGED listener
       \/ listener = "unsure" /\ listener' = "ended" /\ UNCHANGED work
    /\ UNCHANGED <<http, admitting, busy, resourceVars, ledger, startVars, callVars>>

-----------------------------------------------------------------------------
(* run() *)

Step(c, from, to) ==
    /\ pc[c] = from
    /\ pc' = [pc EXCEPT ![c] = to]

Outside(c) == c \notin {WorkThread, HttpThread, PgThread}

Run(c) ==
    /\ phase = "built"
    /\ Outside(c)
    /\ ~running
    /\ ~closed
    /\ ~closing
    /\ running' = TRUE
    /\ Step(c, "idle", "serving")
    /\ UNCHANGED <<threadVars, resourceVars, ledger, startVars, closing, closed, lock, proof, failed>>

(* The MCP server returned; the finally of run() calls close() next. *)
RunEnds(c) ==
    /\ Step(c, "serving", "served")
    /\ running' = FALSE
    /\ UNCHANGED <<threadVars, resourceVars, ledger, startVars, closing, closed, lock, proof, failed>>

-----------------------------------------------------------------------------
(* close() *)

\* Faulty variant of MayClose: close() may be called from the threads it joins.
CloseFromAnywhere(c) == TRUE

(* Refused from inside the threads it would wait for. *)
MayClose(c) ==
    /\ c = WorkThread => ~(work = "alive" /\ busy)
    /\ c = HttpThread => http # "alive"
    /\ c = PgThread => listener # "alive"

(* Such a thread can only call while it lives. *)
CanCall(c) ==
    /\ c = WorkThread => work = "alive" /\ busy
    /\ c = HttpThread => http = "alive"
    /\ c = PgThread => listener = "alive"

Close(c) ==
    /\ phase = "built"
    /\ pc[c] \in {"idle", "served"}
    /\ CanCall(c)
    /\ MayClose(c)
    /\ IF closed \/ running
       THEN /\ pc[c] = "served"
            /\ pc' = [pc EXCEPT ![c] = "idle"]
            /\ UNCHANGED closing
       ELSE /\ closing' = TRUE
            /\ pc' = [pc EXCEPT ![c] = "locking"]
    /\ UNCHANGED <<threadVars, resourceVars, ledger, startVars, running, closed, lock, proof, failed>>

(* _close_lock: whoever waited for a close() that succeeded is done; else  *)
(* the application itself goes into the ledger before anything can fail.   *)
Lock(c) ==
    /\ lock = Nobody
    /\ pc[c] = "locking"
    /\ IF closed
       THEN /\ pc' = [pc EXCEPT ![c] = "idle"]
            /\ UNCHANGED <<lock, ledger, proof, failed>>
       ELSE /\ pc' = [pc EXCEPT ![c] = "barriers"]
            /\ lock' = c
            /\ ledger' = IF HasListener THEN ledger \cup {"application"} ELSE ledger
            /\ proof' = [proof EXCEPT ![c] = {}]
            /\ failed' = failed \ {c}
    /\ UNCHANGED <<threadVars, resourceVars, startVars, running, closing, closed>>

CloseBarriers(c) ==
    /\ Step(c, "barriers", "drain")
    /\ admitting' = {}
    /\ UNCHANGED <<work, http, listener, busy, resourceVars, ledger, startVars, running, closing,
                   closed, lock, proof, failed>>

CloseDrain(c) ==
    /\ Step(c, "drain", "listener")
    /\ ~busy
    /\ work' = AfterDrain(work)
    /\ proof' = [proof EXCEPT ![c] = IF Live(work') THEN @ ELSE @ \cup {"work"}]
    /\ UNCHANGED <<http, listener, admitting, busy, resourceVars, ledger, startVars, running,
                   closing, closed, lock, failed>>

(* stop joins the threads, so none of them is inside close(); without its  *)
(* proof the listener is left incomplete, and that is not an exception yet. *)
CloseListener(c) ==
    /\ Step(c, "listener", "http")
    /\ pc[PgThread] = "idle"
    /\ listener' \in IF listener = "alive" THEN {"ended", "unsure"} ELSE {listener}
    /\ proof' = [proof EXCEPT ![c] = IF Live(listener') THEN @ ELSE @ \cup {"listener"}]
    /\ UNCHANGED <<work, http, admitting, busy, resourceVars, ledger, startVars, running,
                   closing, closed, lock, failed>>

(* The HTTP thread is joined, without a timeout. *)
CloseHttp(c) ==
    /\ Step(c, "http", "runtime")
    /\ pc[HttpThread] = "idle"
    /\ http' = AfterDrain(http)
    /\ UNCHANGED <<work, listener, admitting, busy, resourceVars, ledger, startVars, running,
                   closing, closed, lock, proof, failed>>

(* The stop of the HTTP server raised, before or after its thread ended:   *)
(* the exception leaves close() at once, nothing is closed and a later     *)
(* close() stops it again.                                                 *)
CloseHttpFails(c) ==
    /\ Step(c, "http", "idle")
    /\ http # "none"
    /\ http' \in {http, "ended"}
    /\ lock' = Nobody
    /\ UNCHANGED <<work, listener, admitting, busy, resourceVars, ledger, startVars, running,
                   closing, closed, proof, failed>>

Mark(c, raises) == failed' = IF raises THEN failed \cup {c} ELSE failed

(* The three closings run one after the other whatever the one before      *)
(* raised; each of them leaves its resource closed.                        *)
CloseRuntime(c) ==
    /\ Step(c, "runtime", "catalog")
    /\ runtime' = "closed"
    /\ \E raises \in BOOLEAN : Mark(c, raises)
    /\ UNCHANGED <<threadVars, catalog, config, ledger, startVars, running, closing, closed,
                   lock, proof>>

\* Faulty variant of CatalogCloses: the catalogue is closed without the proof of the listener.
CatalogClosesUnderListener(c) == catalog = "open" /\ "work" \in proof[c]

(* The catalogue is closed with the proof of both its users only. *)
CatalogCloses(c) == catalog = "open" /\ {"work", "listener"} \subseteq proof[c]

CloseCatalog(c) ==
    /\ Step(c, "catalog", "config")
    /\ catalog' = IF CatalogCloses(c) THEN "closed" ELSE catalog
    /\ \E raises \in BOOLEAN : /\ raises => CatalogCloses(c)
                               /\ Mark(c, raises)
    /\ UNCHANGED <<threadVars, runtime, config, ledger, startVars, running, closing, closed,
                   lock, proof>>

(* The store calls itself closed before it lets go of its lock. *)
CloseConfig(c) ==
    /\ Step(c, "config", "finish")
    /\ config' = IF config = "open" THEN "closed" ELSE config
    /\ \E raises \in BOOLEAN : /\ raises => config = "open"
                               /\ Mark(c, raises)
    /\ UNCHANGED <<threadVars, runtime, catalog, ledger, startVars, running, closing, closed,
                   lock, proof>>

Complete(c) == c \notin failed /\ {"work", "listener"} \subseteq proof[c]

(* closed only with every proof; otherwise close() raises, the application *)
(* stays closing and retained, and a later close() does it all again.      *)
CloseFinish(c) ==
    /\ Step(c, "finish", "idle")
    /\ lock' = Nobody
    /\ closed' = Complete(c)
    /\ ledger' = IF Complete(c) THEN ledger \ {"application"} ELSE ledger
    /\ UNCHANGED <<threadVars, resourceVars, startVars, running, closing, proof, failed>>

-----------------------------------------------------------------------------

Start ==
    \/ OpenCatalog
    \/ LoadConfiguration
    \/ ConnectAdapter
    \/ BuildRegistry
    \/ StartWork
    \/ StartHttp
    \/ StartListener
    \/ BuildMcp
    \/ BuildFails

Unwind ==
    \/ UnwindRetain
    \/ UnwindBarriers
    \/ UnwindDrain
    \/ UnwindListener
    \/ UnwindHttp
    \/ UnwindHttpFails
    \/ UnwindRuntime
    \/ UnwindCatalog
    \/ UnwindConfig
    \/ UnwindCloseFails
    \/ UnwindRelease

Closing(c) ==
    \/ Lock(c)
    \/ CloseBarriers(c)
    \/ CloseDrain(c)
    \/ CloseListener(c)
    \/ CloseHttp(c)
    \/ CloseHttpFails(c)
    \/ CloseRuntime(c)
    \/ CloseCatalog(c)
    \/ CloseConfig(c)
    \/ CloseFinish(c)

Next ==
    \/ Start
    \/ Unwind
    \/ AcceptWork
    \/ FinishWork
    \/ LoseWorker
    \/ Resolve
    \/ \E c \in Caller : Run(c) \/ RunEnds(c) \/ Close(c) \/ Closing(c)

Spec == Init /\ [][Next]_vars

(* The start, the unwinding and the steps of a close() proceed; accepted   *)
(* work ends (each verification has its deadline); run() calls close().    *)
(* A thread that waits for _close_lock is not kept out for ever by others  *)
(* that call close() again and again.  Nothing obliges the MCP client to   *)
(* hang up or a caller to close.                                           *)
FairSpec ==
    /\ Spec
    /\ WF_vars(Start)
    /\ WF_vars(Unwind)
    /\ WF_vars(FinishWork)
    /\ \A c \in Caller :
        /\ WF_vars(Closing(c))
        /\ SF_vars(Lock(c))
        /\ WF_vars(pc[c] = "served" /\ Close(c))

-----------------------------------------------------------------------------
(* Properties *)

(***************************************************************************)
(* Nothing is closed under a thread that may use it, in a close(), in the  *)
(* repetition of a failed one, and in the unwinding of a start: the        *)
(* catalogue not under a worker, a listener or the HTTP thread that lives  *)
(* or may live, the runtime and the lock of masking.yaml not under the     *)
(* HTTP thread, the runtime not under the MCP server.                      *)
(***************************************************************************)
NothingClosedUnderUser ==
    /\ catalog = "closed" => ~Live(work) /\ ~Live(listener) /\ ~Live(http)
    /\ runtime = "closed" => ~Live(http) /\ ~running
    /\ config = "closed" => ~Live(http) /\ runtime # "open"

(***************************************************************************)
(* An application that calls itself closed has nothing left: no thread, no *)
(* open resource, nothing retained for it.                                 *)
(***************************************************************************)
ClosedIsComplete ==
    closed =>
        /\ ~Live(work) /\ ~Live(listener) /\ ~Live(http)
        /\ runtime = "closed" /\ catalog # "open" /\ config # "open"
        /\ "application" \notin ledger

(***************************************************************************)
(* Every call of close() returns: the threads it waits for never wait for  *)
(* it, because a call from inside one of them is refused.                  *)
(***************************************************************************)
CloseReturns == \A c \in Caller : (pc[c] \in CloseSteps) ~> (pc[c] = "idle")

(***************************************************************************)
(* Whoever may still run has an owner: when the start failed and the       *)
(* Application never came to exist, a queue or listener that may live is   *)
(* retained with the open catalogue it uses, and so is an HTTP thread      *)
(* beside them; when a close() gave up, the application is.                *)
(***************************************************************************)
SurvivorsAreRetained ==
    /\ (phase = "failed" /\ Live(work)) => {"work", "catalog"} \subseteq ledger
    /\ (phase = "failed" /\ Live(listener)) => {"listener", "catalog"} \subseteq ledger
    /\ (phase = "failed" /\ Live(http) /\ Dependent) => {"http", "runtime", "config"} \subseteq ledger
    /\ (phase = "built" /\ lock = Nobody /\ runtime = "closed" /\ Live(listener)) =>
            "application" \in ledger

(***************************************************************************)
(* Nothing is forgotten: what ended is gone and what may still run has an  *)
(* owner, after a close(), a failed close() and a failed start.            *)
(***************************************************************************)
NothingForgotten ==
    /\ ClosedIsComplete
    /\ SurvivorsAreRetained

(***************************************************************************)
(* The application is sound: nothing is closed under a user of it and      *)
(* nothing is forgotten, on every path of the start and of close().        *)
(***************************************************************************)
ApplicationSound ==
    /\ NothingClosedUnderUser
    /\ NothingForgotten
=============================================================================
