---------------------------- MODULE MCLifecycle ----------------------------
(***************************************************************************)
(* What serves for a while and must come to an end, for TLC: the listener, *)
(* the session of a client, the worker behind it with the receiver of its  *)
(* results, the work queue of the administration, and the run of the       *)
(* reader laboratory with its watchdogs.                                   *)
(*                                                                         *)
(* They meet in single facts (a result handed over, a queue drained) that  *)
(* each part takes as an outcome that may happen or not, so their product  *)
(* says nothing that each does not say alone: a behaviour picks a part at  *)
(* its start and moves only that one.                                      *)
(***************************************************************************)
EXTENDS PgwireListener, Sequences

CONSTANTS MaxJobs, Rounds, Threads, None,                   \* WorkerSession, PgwireSession, ResultReceiver
          Worker, WaitingRoom, Ticket, NoTicket, QueueFaults,   \* AdminWorkQueue
          MountKinds, MaxInterrupts                         \* ReaderLab

VARIABLES
    part,                  \* what moves in this behaviour
    (* of WorkerSession *)
    workerState, pc, adopted, process, spawnUnknown, uncertain, stop, job, output, terminated,
    graceful, fds, session, child, pipe, toChild, toParent,
    (* of ResultReceiver *)
    receiverState, owner, operation, done, unsure, discarded, drain, ledger, call, at, holds,
    kept, interrupted, frame, served,
    (* of PgwireSession *)
    config, sessionPc, polled, timers, stopSignal, channel, round, client, proven, reserved,
    admitted, sent, category, failure,
    (* of AdminWorkQueue *)
    pending, tickets, outcome, closing, stopping, broken, containing, frozen, blocked, startup,
    known, thread, cancelled, place, held, drained, toJoin,
    (* of ReaderLab *)
    main, rec, own, mon, lock, docker, run

workerVars == <<workerState, pc, adopted, process, spawnUnknown, uncertain, stop, job, output,
                terminated, graceful, fds, session, child, pipe, toChild, toParent>>
receiverVars == <<receiverState, owner, operation, done, unsure, discarded, drain, ledger, call,
                  at, holds, kept, interrupted, frame, served>>
sessionVars == <<config, sessionPc, polled, timers, stopSignal, channel, round, client, proven,
                 reserved, admitted, sent, category, failure>>
queueVars == <<pending, tickets, outcome, closing, stopping, broken, containing, frozen, blocked,
               startup, known, thread, cancelled, place, held, drained, toJoin>>
readerVars == <<main, rec, own, mon, lock, docker, run>>
partVars == <<part, vars, workerVars, receiverVars, sessionVars, queueVars, readerVars>>

Behind == INSTANCE WorkerSession WITH state <- workerState
Receiver == INSTANCE ResultReceiver WITH
    state <- receiverState, uncertain <- unsure, output <- served
Session == INSTANCE PgwireSession WITH
    pc <- sessionPc, stop <- stopSignal, accepted <- proven, authenticated <- admitted
Queue == INSTANCE AdminWorkQueue WITH
    Waiting <- WaitingRoom, Faults <- QueueFaults, at <- place, drain <- drained
Reader == INSTANCE ReaderLab WITH Cases <- <<"one", "binary">>

ASSUME WorkerConstants == Behind!MaxJobsAssumption
ASSUME ReceiverConstants == Receiver!NoneAssumption
ASSUME SessionConstants == Session!NoneAssumption

OnlyListener ==
    part = "listener" /\ UNCHANGED <<part, workerVars, receiverVars, sessionVars, queueVars, readerVars>>
OnlyWorker ==
    part = "worker" /\ UNCHANGED <<part, vars, receiverVars, sessionVars, queueVars, readerVars>>
OnlyReceiver ==
    part = "receiver" /\ UNCHANGED <<part, vars, workerVars, sessionVars, queueVars, readerVars>>
OnlySession ==
    part = "session" /\ UNCHANGED <<part, vars, workerVars, receiverVars, queueVars, readerVars>>
OnlyQueue ==
    part = "queue" /\ UNCHANGED <<part, vars, workerVars, receiverVars, sessionVars, readerVars>>
OnlyReader ==
    part = "reader" /\ UNCHANGED <<part, vars, workerVars, receiverVars, sessionVars, queueVars>>

(* The two settings of TLS, whatever part moves; one of them suffices      *)
(* where it is not looked at.                                              *)
PartsInit ==
    /\ part \in {"listener", "worker", "receiver", "session", "queue", "reader"}
    /\ Init /\ Behind!Init /\ Receiver!Init /\ Session!Init /\ Queue!Init /\ Reader!Init
    /\ part # "session" => config = [tls |-> FALSE, required |-> FALSE]
    /\ part # "receiver" => frame = "valid"

PartsNext ==
    \/ OnlyListener /\ Next
    \/ OnlyWorker /\ Behind!Next
    \/ OnlyReceiver /\ Receiver!Next
    \/ OnlySession /\ Session!Next
    \/ OnlyQueue /\ Queue!Next
    \/ OnlyReader /\ Reader!Next

(* The child runs, and what it waits for outside its idle wait has a       *)
(* deadline (_read_init, the sends, the statement timeout).  The thread of *)
(* a session runs and deadlines come.  The workers of the queue are        *)
(* scheduled and jobs end (every verification has a deadline).  The loop   *)
(* of the laboratory and its watchdogs run.  Nothing is assumed of         *)
(* clients, owners, operators or the daemon.                               *)
FairParts ==
    /\ PartsInit
    /\ [][PartsNext]_partVars
    /\ WF_workerVars(part = "worker" /\ Behind!ChildWorks)
    /\ WF_workerVars(part = "worker" /\ Behind!ChildFails /\ child.at # "wait")
    /\ WF_sessionVars(part = "session" /\ Session!SessionStep)
    /\ \A t \in Session!Timer :
        WF_sessionVars(part = "session" /\ Session!TimePasses /\ timers'[t] # timers[t])
    /\ \A w \in Worker : WF_queueVars(part = "queue" /\ Queue!ServeStep(w))
    /\ WF_queueVars(part = "queue" /\ Queue!DrainStep)
    /\ WF_readerVars(part = "reader" /\ Reader!MainStep)
    /\ \A c \in Reader!CaseSet : WF_readerVars(part = "reader" /\ Reader!WatchStep(c))

-----------------------------------------------------------------------------
(***************************************************************************)
(* WorkerSound and ReceiverSound: credits go back only when everything is  *)
(* gone, no answer is taken for another job's, memory stays pinned while   *)
(* anything holds a payload, and nothing invalid is sent.                  *)
(***************************************************************************)
ResultsSound == Behind!WorkerSound /\ Receiver!ReceiverSound

(***************************************************************************)
(* ChildGoes of WorkerSession: a child does not outlive its session for    *)
(* ever, whoever lost track of it.                                         *)
(***************************************************************************)
ChildGoes == Behind!ChildGoes

(***************************************************************************)
(* SessionSound of PgwireSession: readiness is earned, refusals tell       *)
(* nothing apart and the encryption is kept.                               *)
(***************************************************************************)
SessionSound == Session!SessionSound

(***************************************************************************)
(* SessionEnds of PgwireSession: every session ends, whatever the client   *)
(* does, for no deadline is renewed by what it sends.                      *)
(***************************************************************************)
SessionEnds == part = "session" => Session!SessionEnds

(***************************************************************************)
(* QueueSound of AdminWorkQueue: a drained queue is quiet, and once a job  *)
(* has failed nothing runs uncontained.                                    *)
(***************************************************************************)
QueueSound == Queue!QueueSound

(***************************************************************************)
(* AcceptedCompletes of AdminWorkQueue: every accepted operation is        *)
(* completed, by its job or as abandoned.                                  *)
(***************************************************************************)
AcceptedCompletes == Queue!AcceptedCompletes

(***************************************************************************)
(* ReaderClean of ReaderLab: a released run left nothing of its own, and   *)
(* no run takes away what was there before it.                             *)
(***************************************************************************)
ReaderClean == Reader!ReaderClean

(***************************************************************************)
(* ReaderEnds of ReaderLab: every run comes to its end, released or HELD   *)
(* with what it could not prove.                                           *)
(***************************************************************************)
ReaderEnds == part = "reader" => Reader!ReaderEnds
=============================================================================
