--------------------------- MODULE AdminWorkQueue ---------------------------
(***************************************************************************)
(* The dedicated queue of the administrative API v2,                       *)
(* maskgw/runtime/admin_work.py: a fixed set of worker threads, adopted    *)
(* before they are started, serves tickets accepted under one condition    *)
(* variable.  A job that raises leaves an unknown state: the queue breaks  *)
(* and the coordinator is blocked (on_unknown) before anything else is     *)
(* dispatched; if that fails the queue freezes and what was accepted ends  *)
(* without being executed.  drain() completes what was accepted and says   *)
(* whether every worker has physically ended.                              *)
(*                                                                         *)
(* The condition variable is explicit: a worker that waits is woken only   *)
(* by a notification, and evaluates its condition again afterwards.        *)
(***************************************************************************)
EXTENDS Naturals, FiniteSets, Sequences

CONSTANTS
    Worker,   \* the worker threads, DEFAULT_WORKERS in the code
    Waiting,  \* waiting positions, DEFAULT_WAITING in the code
    Ticket,   \* the operations submitted, each once
    NoTicket,
    Faults    \* which of "start", "job", "contain" may happen

VARIABLES
    pending,    \* tickets in the queue
    tickets,    \* accepted and not completed
    outcome,    \* ticket -> new, accepted, result, failed, abandoned
    closing, stopping, broken, containing, frozen,
    blocked,    \* the coordinator confirmed that it is blocked
    startup,    \* going, failed or done: the loop of start()
    known,      \* worker -> idle, starting, started: what its owner recorded
    thread,     \* worker -> none, born, serving, ended: the thread itself
    cancelled,  \* workers told to leave without serving
    at,         \* serving worker -> where it is
    held,       \* worker -> the ticket it serves
    drain,      \* none, joining, or the answer of the last drain()
    toJoin      \* workers drain() still has to settle and join

queueVars == <<pending, tickets, outcome>>
marks == <<closing, stopping, broken, containing, frozen, blocked>>
startVars == <<startup, known>>
drainVars == <<drain, toJoin>>
workerVars == <<thread, cancelled, at, held>>
vars == <<queueVars, marks, startVars, workerVars, drainVars>>

Capacity == Cardinality(Worker) + Waiting

TypeOK ==
    /\ pending \in Seq(Ticket)
    /\ tickets \subseteq Ticket
    /\ outcome \in [Ticket -> {"new", "accepted", "result", "failed", "abandoned"}]
    /\ {closing, stopping, broken, containing, frozen, blocked} \subseteq BOOLEAN
    /\ startup \in {"going", "failed", "done"}
    /\ known \in [Worker -> {"idle", "starting", "started"}]
    /\ thread \in [Worker -> {"none", "born", "serving", "ended"}]
    /\ cancelled \subseteq Worker
    /\ at \in [Worker -> {"top", "asleep", "running", "skipping", "raised", "containing",
                          "finishing"}]
    /\ held \in [Worker -> Ticket \cup {NoTicket}]
    /\ drain \in {"none", "joining", "incomplete", "complete"}
    /\ toJoin \subseteq Worker
    /\ \A w \in Worker : held[w] # NoTicket => held[w] \in tickets

Init ==
    /\ pending = << >>
    /\ tickets = {}
    /\ outcome = [t \in Ticket |-> "new"]
    /\ closing = FALSE /\ stopping = FALSE /\ broken = FALSE
    /\ containing = FALSE /\ frozen = FALSE /\ blocked = FALSE
    /\ startup = "going"
    /\ known = [w \in Worker |-> "idle"]
    /\ thread = [w \in Worker |-> "none"]
    /\ cancelled = {}
    /\ at = [w \in Worker |-> "top"]
    /\ held = [w \in Worker |-> NoTicket]
    /\ drain = "none"
    /\ toJoin = {}

-----------------------------------------------------------------------------
(* The condition variable. *)
WakeAll(position) == [w \in Worker |-> IF position[w] = "asleep" THEN "top" ELSE position[w]]

(* notify: one waiting worker, if there is any. *)
WakeOne ==
    \/ /\ \A w \in Worker : at[w] # "asleep"
       /\ UNCHANGED at
    \/ \E w \in Worker : at[w] = "asleep" /\ at' = [at EXCEPT ![w] = "top"]

-----------------------------------------------------------------------------
(* start(): the attempt is recorded before the call.  The call returns, or *)
(* raises without a thread, or is interrupted with the thread alive; the   *)
(* loop ends at the first failure.                                         *)
StartWorker(w) ==
    /\ startup = "going"
    /\ known[w] = "idle"
    /\ \/ /\ known' = [known EXCEPT ![w] = "started"]
          /\ thread' = [thread EXCEPT ![w] = "born"]
          /\ startup' = IF \A v \in Worker \ {w} : known[v] = "started"
                        THEN "done" ELSE "going"
       \/ /\ "start" \in Faults
          /\ known' = [known EXCEPT ![w] = "starting"]
          /\ thread' \in {thread, [thread EXCEPT ![w] = "born"]}
          /\ startup' = "failed"
    /\ UNCHANGED <<queueVars, marks, cancelled, at, held, drainVars>>

(* _worker_main: a cancelled worker leaves without touching the queue. *)
Enter(w) ==
    /\ thread[w] = "born"
    /\ thread' = [thread EXCEPT ![w] = IF w \in cancelled THEN "ended" ELSE "serving"]
    /\ UNCHANGED <<queueVars, marks, startVars, cancelled, at, held, drainVars>>

-----------------------------------------------------------------------------
HasRoom == Cardinality(tickets) < Capacity

(* submit: accepted, queued and notified in one section, or refused.  The  *)
(* HTTP boundary that submits is started once the queue has started.       *)
Submit(t) ==
    /\ startup = "done"
    /\ outcome[t] = "new"
    /\ ~closing /\ ~broken /\ HasRoom
    /\ tickets' = tickets \cup {t}
    /\ pending' = Append(pending, t)
    /\ outcome' = [outcome EXCEPT ![t] = "accepted"]
    /\ WakeOne
    /\ UNCHANGED <<marks, startVars, thread, cancelled, held, drainVars>>

-----------------------------------------------------------------------------
(* _serve, one section of the lock at a time. *)
Serving(w, place) == thread[w] = "serving" /\ at[w] = place

\* Faulty variant of MustWait: a worker dispatches during a containment.
MustWaitIgnoringContainment == pending = << >> /\ ~stopping

MustWait == containing \/ (pending = << >> /\ ~stopping)

Wait(w) ==
    /\ Serving(w, "top")
    /\ MustWait
    /\ at' = [at EXCEPT ![w] = "asleep"]
    /\ UNCHANGED <<queueVars, marks, startVars, thread, cancelled, held, drainVars>>

Exit(w) ==
    /\ Serving(w, "top")
    /\ ~MustWait
    /\ pending = << >>
    /\ thread' = [thread EXCEPT ![w] = "ended"]
    /\ UNCHANGED <<queueVars, marks, startVars, cancelled, at, held, drainVars>>

Dispatch(w) ==
    /\ Serving(w, "top")
    /\ ~MustWait
    /\ pending # << >>
    /\ held' = [held EXCEPT ![w] = Head(pending)]
    /\ pending' = Tail(pending)
    /\ at' = [at EXCEPT ![w] = IF frozen THEN "skipping" ELSE "running"]
    /\ UNCHANGED <<tickets, outcome, marks, startVars, thread, cancelled, drainVars>>

JobReturns(w) ==
    /\ Serving(w, "running")
    /\ at' = [at EXCEPT ![w] = "finishing"]
    /\ UNCHANGED <<queueVars, marks, startVars, thread, cancelled, held, drainVars>>

JobRaises(w) ==
    /\ "job" \in Faults
    /\ Serving(w, "running")
    /\ at' = [at EXCEPT ![w] = "raised"]
    /\ UNCHANGED <<queueVars, marks, startVars, thread, cancelled, held, drainVars>>

Break(w) ==
    /\ Serving(w, "raised")
    /\ broken' = TRUE
    /\ containing' = TRUE
    /\ at' = [at EXCEPT ![w] = "containing"]
    /\ UNCHANGED <<queueVars, closing, stopping, frozen, blocked, startVars, thread,
                   cancelled, held, drainVars>>

(* _contain: on_unknown blocks the coordinator, or the queue freezes.  The *)
(* worker keeps in a local that its job failed.                            *)
Contain(w) ==
    /\ Serving(w, "containing")
    /\ \/ blocked' = TRUE /\ UNCHANGED frozen
       \/ "contain" \in Faults /\ frozen' = TRUE /\ UNCHANGED blocked
    /\ containing' = FALSE
    /\ outcome' = [outcome EXCEPT ![held[w]] = "failed"]
    /\ at' = WakeAll([at EXCEPT ![w] = "finishing"])
    /\ UNCHANGED <<pending, tickets, closing, stopping, broken, startVars, thread,
                   cancelled, held, drainVars>>

(* The ticket is done and no longer accepted; its request is notified. *)
Complete(w) ==
    LET t == held[w]
    IN  /\ Serving(w, "finishing") \/ Serving(w, "skipping")
        /\ tickets' = tickets \ {t}
        /\ outcome' = [outcome EXCEPT ![t] =
                         CASE at[w] = "skipping" -> "abandoned"
                           [] @ = "failed" -> "failed"
                           [] OTHER -> "result"]
        /\ held' = [held EXCEPT ![w] = NoTicket]
        /\ at' = WakeAll([at EXCEPT ![w] = "top"])
        /\ UNCHANGED <<pending, marks, startVars, thread, cancelled, drainVars>>

-----------------------------------------------------------------------------
CloseAdmission ==
    /\ startup # "going"
    /\ ~closing
    /\ closing' = TRUE
    /\ UNCHANGED <<queueVars, stopping, broken, containing, frozen, blocked, startVars,
                   workerVars, drainVars>>

(* drain(), by the shutdown or by the unwinding of a failed startup, after *)
(* close_admission; an incomplete one may be tried again.                  *)
Drain ==
    /\ closing /\ drain \in {"none", "incomplete"}
    /\ stopping' = TRUE
    /\ drain' = "joining"
    /\ toJoin' = Worker
    /\ at' = WakeAll(at)
    /\ UNCHANGED <<queueVars, closing, broken, containing, frozen, blocked, startVars,
                   thread, cancelled, held>>

\* Faulty variant of Cancels: every worker not yet entered is cancelled.
CancelsUnentered(w) == thread[w] \in {"none", "born"}

(* settled: cancels only a worker whose start is not proved. *)
Cancels(w) == thread[w] \in {"none", "born"} /\ known[w] # "started"

Settled(w) == known[w] = "idle" \/ thread[w] = "ended"

(* joinable: a worker that started, entered or ended is joined; its join   *)
(* returns when the thread ends.                                           *)
Joinable(w) == known[w] = "started" \/ thread[w] \in {"serving", "ended"}

Cancel(w) ==
    /\ drain = "joining"
    /\ w \in toJoin \ cancelled
    /\ Cancels(w)
    /\ cancelled' = cancelled \cup {w}
    /\ UNCHANGED <<queueVars, marks, startVars, thread, at, held, drainVars>>

Join(w) ==
    /\ drain = "joining"
    /\ w \in toJoin
    /\ Cancels(w) => w \in cancelled
    /\ Joinable(w) => thread[w] = "ended"
    /\ toJoin' = toJoin \ {w}
    /\ UNCHANGED <<queueVars, marks, startVars, workerVars, drain>>

DrainEnds ==
    /\ drain = "joining"
    /\ toJoin = {}
    /\ drain' = IF (\A w \in Worker : Settled(w)) /\ tickets = {}
                THEN "complete" ELSE "incomplete"
    /\ UNCHANGED <<queueVars, marks, startVars, workerVars, toJoin>>

-----------------------------------------------------------------------------
ServeStep(w) ==
    \/ Enter(w) \/ Wait(w) \/ Exit(w) \/ Dispatch(w) \/ JobReturns(w) \/ JobRaises(w)
    \/ Break(w) \/ Contain(w) \/ Complete(w)

DrainStep == DrainEnds \/ \E w \in Worker : Cancel(w) \/ Join(w)

Next ==
    \/ \E w \in Worker : StartWorker(w) \/ ServeStep(w)
    \/ \E t \in Ticket : Submit(t)
    \/ CloseAdmission \/ Drain \/ DrainStep

Spec == Init /\ [][Next]_vars

(* Threads are scheduled and jobs end (every verification has a deadline). *)
FairSpec ==
    /\ Spec
    /\ \A w \in Worker : WF_vars(ServeStep(w))
    /\ WF_vars(DrainStep)

-----------------------------------------------------------------------------
(***************************************************************************)
(* When drain() says True everything accepted has ended and no worker can  *)
(* touch the queue or the catalogue any more: what they use may be closed. *)
(***************************************************************************)
DrainedIsQuiet ==
    drain = "complete" =>
        /\ tickets = {}
        /\ \A t \in Ticket : outcome[t] # "accepted"
        /\ \A w \in Worker : thread[w] \in {"none", "ended"}

(***************************************************************************)
(* Once a failure was recorded, no further job is executed unless the      *)
(* coordinator is known to be blocked, also when two jobs fail together    *)
(* and one of the two containments fails.                                  *)
(***************************************************************************)
NothingRunsUncontained ==
    [][\A w \in Worker :
        (at[w] = "top" /\ at'[w] = "running" /\ broken) => blocked]_vars

(***************************************************************************)
(* Every accepted operation is completed, by its job or as abandoned, and  *)
(* no notification is lost: neither a failure of another job, nor the      *)
(* closing of the admission, nor the drain leaves it in the queue.         *)
(***************************************************************************)
AcceptedCompletes == \A t \in Ticket : (t \in tickets) ~> (t \notin tickets)

(***************************************************************************)
(* The queue is sound: a drained one is quiet, and once a job has failed   *)
(* nothing runs uncontained.                                               *)
(***************************************************************************)
QueueSound == []DrainedIsQuiet /\ NothingRunsUncontained
-----------------------------------------------------------------------------
(* Why it is sound: a drain that is over meets no start and no admission   *)
(* any more, and a failure is contained, or was, or froze the queue.       *)

Types ==
    /\ outcome \in [Ticket -> {"new", "accepted", "result", "failed", "abandoned"}]
    /\ known \in [Worker -> {"idle", "starting", "started"}]
    /\ thread \in [Worker -> {"none", "born", "serving", "ended"}]
    /\ at \in [Worker -> {"top", "asleep", "running", "skipping", "raised", "containing",
                          "finishing"}]

AcceptedIsTicket == \A t \in Ticket : outcome[t] = "accepted" => t \in tickets
IdleHasNoThread == \A w \in Worker : known[w] = "idle" => thread[w] = "none"
DrainComesLast == (closing => startup # "going") /\ (drain # "none" => closing)
FailureIsContained == broken => containing \/ blocked \/ frozen

IInv ==
    /\ Types
    /\ AcceptedIsTicket
    /\ IdleHasNoThread
    /\ DrainComesLast
    /\ FailureIsContained
    /\ DrainedIsQuiet
=============================================================================
