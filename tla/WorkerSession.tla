----------------------------- MODULE WorkerSession -----------------------------
(***************************************************************************)
(* A worker process and the session that owns it: the parent's handle      *)
(* (runtime/worker_session.py), the child's loop and job                   *)
(* (runtime/worker_process.py, runtime/worker_job.py) and the messages     *)
(* between them (runtime/worker_protocol.py).                              *)
(*                                                                         *)
(* The parent's calls exclude each other and belong to one thread; any     *)
(* thread may ask for the stop.  The two processes interleave, the child   *)
(* may die anywhere, and every step of the parent may fail.  Messages go   *)
(* through a stream in order; one that is sent in part is never completed  *)
(* and counts as not sent.  The result's receiver is seen through what     *)
(* ResultReceiver establishes: it gives the pin back unless it is unsure.  *)
(***************************************************************************)
EXTENDS Naturals, Sequences

CONSTANT MaxJobs    \* bound on the jobs of a session

MaxJobsAssumption == MaxJobs \in Nat

VARIABLES
    state,         \* _state
    pc,            \* where the parent's call is
    adopted,       \* _adopted
    process,       \* _process is set
    spawnUnknown,  \* _spawn_unknown
    uncertain,     \* _uncertain
    stop,          \* _stop
    job,           \* _job
    output,        \* the receiver and its pin
    terminated,    \* what _reap returned
    graceful,      \* how _cleanup was called
    fds,           \* the parent's descriptors
    session,       \* the session's entry of the budget ledger
    child,         \* the process: its existence, its place, what it did
    pipe,          \* the child's standard input
    toChild, toParent

handleVars == <<adopted, process, spawnUnknown>>
callVars == <<job, output, terminated, graceful>>
wireVars == <<pipe, toChild, toParent>>
vars == <<state, pc, handleVars, uncertain, stop, callVars, fds, session, child, wireVars>>

Fd == {"sock", "childSock", "stdin"}
Waiting == {"sockets", "spawned", "guard", "init", "opened",
            "ask", "reply", "frame", "done", "deliver", "closeOutput"}
Cleaning == {"cleanup", "reap", "fds", "output", "release"}
Place == {"start", "hello", "init", "connect", "wait", "check", "compute",
          "error", "continue", "result", "frame", "done", "after"}
Said == {"ERROR", "RESULT", "FRAME", "DONE"}
Message == [kind : Said \cup {"GUARD", "OPENED", "QUERY", "CLOSE"},
            job : 0..MaxJobs, continue : BOOLEAN]

TypeOK ==
    /\ state \in {"NEW", "OPENING", "READY", "RESULT", "CLOSING", "HELD", "CLOSED"}
    /\ pc \in {"idle", "adopt", "spawn"} \cup Waiting \cup Cleaning
    /\ adopted \in BOOLEAN /\ process \in BOOLEAN /\ spawnUnknown \in BOOLEAN
    /\ uncertain \in BOOLEAN /\ stop \in BOOLEAN
    /\ terminated \in BOOLEAN /\ graceful \in BOOLEAN
    /\ job \in 0..MaxJobs
    /\ output \in {"none", "reading", "ready", "sent", "unsure"}
    /\ fds \in [Fd -> {"none", "open", "closed"}]
    /\ session \in {"RESERVED", "LIVE", "HELD", "RELEASED"}
    /\ child \in [proc : {"none", "running", "exited", "reaped"}, at : Place,
                  previous : 0..MaxJobs, guarded : BOOLEAN, dirty : BOOLEAN,
                  said : Seq(Said)]
    /\ pipe \in {"empty", "init"}
    /\ toChild \in Seq(Message) /\ toParent \in Seq(Message)

(* The caller has reserved the session. *)
Init ==
    /\ state = "NEW"
    /\ pc = "idle"
    /\ adopted = FALSE
    /\ process = FALSE
    /\ spawnUnknown = FALSE
    /\ uncertain = FALSE
    /\ stop = FALSE
    /\ job = 0
    /\ output = "none"
    /\ terminated = FALSE
    /\ graceful = FALSE
    /\ fds = [f \in Fd |-> "none"]
    /\ session = "RESERVED"
    /\ child = [proc |-> "none", at |-> "start", previous |-> 0, guarded |-> FALSE,
                dirty |-> FALSE, said |-> << >>]
    /\ pipe = "empty"
    /\ toChild = << >>
    /\ toParent = << >>

Alive == child.proc = "running"

Msg(kind, number, continue) == [kind |-> kind, job |-> number, continue |-> continue]

(* recv_exact: the next message, also of a child that has ended. *)
Receives(kind, number) ==
    /\ toParent # << >>
    /\ Head(toParent).kind = kind
    /\ Head(toParent).job = number
    /\ toParent' = Tail(toParent)

Clean(gracefully) == pc' = "cleanup" /\ graceful' = gracefully

-----------------------------------------------------------------------------
(* open *)

Open ==
    /\ pc = "idle" /\ state = "NEW" /\ ~stop
    /\ pc' = "adopt"
    /\ UNCHANGED <<state, handleVars, uncertain, stop, callVars, fds, session, child, wireVars>>

Adopt ==
    /\ pc = "adopt"
    /\ session = "RESERVED"
    /\ session' = "LIVE"
    /\ adopted' = TRUE
    /\ state' = "OPENING"
    /\ pc' = "sockets"
    /\ UNCHANGED <<process, spawnUnknown, uncertain, stop, callVars, fds, child, wireVars>>

(* _cleanup leaves a session alone that was not adopted. *)
AdoptFails ==
    /\ pc = "adopt"
    /\ pc' = "idle"
    /\ uncertain' \in {uncertain, TRUE}
    /\ UNCHANGED <<state, handleVars, stop, callVars, fds, session, child, wireVars>>

MakeSockets ==
    /\ pc = "sockets" /\ ~stop
    /\ fds' = [fds EXCEPT !["sock"] = "open", !["childSock"] = "open"]
    /\ pc' = "spawn"
    /\ UNCHANGED <<state, handleVars, uncertain, stop, callVars, session, child, wireVars>>

Spawn ==
    /\ pc = "spawn"
    /\ child' = [child EXCEPT !.proc = "running"]
    /\ process' = TRUE
    /\ fds' = [fds EXCEPT !["stdin"] = "open"]
    /\ pc' = "spawned"
    /\ UNCHANGED <<state, adopted, spawnUnknown, uncertain, stop, callVars, session, wireVars>>

(* Popen raises, and the child may exist all the same. *)
SpawnRaises ==
    /\ pc = "spawn"
    /\ child' \in {child, [child EXCEPT !.proc = "running"]}
    /\ spawnUnknown' = TRUE
    /\ uncertain' \in {uncertain, TRUE}
    /\ Clean(FALSE)
    /\ UNCHANGED <<state, adopted, process, stop, job, output, terminated, fds, session, wireVars>>

CloseChildSock ==
    /\ pc = "spawned" /\ ~stop
    /\ fds' = [fds EXCEPT !["childSock"] = "closed"]
    /\ pc' = "guard"
    /\ UNCHANGED <<state, handleVars, uncertain, stop, callVars, session, child, wireVars>>

ReadGuard ==
    /\ pc = "guard"
    /\ Receives("GUARD", 0)
    /\ pc' = "init"
    /\ UNCHANGED <<state, handleVars, uncertain, stop, callVars, fds, session, child, pipe, toChild>>

(* _exchange_init: the secret goes into the pipe, which is then closed. *)
SendInit ==
    /\ pc = "init" /\ ~stop /\ Alive
    /\ pipe' = "init"
    /\ fds' = [fds EXCEPT !["stdin"] = "closed"]
    /\ pc' = "opened"
    /\ UNCHANGED <<state, handleVars, uncertain, stop, callVars, session, child, toChild, toParent>>

ReadOpened ==
    /\ pc = "opened" /\ ~stop
    /\ Receives("OPENED", 0)
    /\ state' = "READY"
    /\ pc' = "idle"
    /\ UNCHANGED <<handleVars, uncertain, stop, callVars, fds, session, child, pipe, toChild>>

\* Faulty variant of CallFails: a query that failed leaves the session ready.
CallFailsReady ==
    /\ pc \in Waiting
    /\ IF pc = "reply" THEN pc' = "idle" /\ UNCHANGED graceful ELSE Clean(FALSE)
    /\ uncertain' \in {uncertain, TRUE}
    /\ UNCHANGED output
    /\ UNCHANGED <<state, handleVars, stop, job, terminated, fds, session, child, wireVars>>

(* A deadline, the stop, the end of the stream, another message than the   *)
(* one expected, or an interruption: open, query and send_result_to clean  *)
(* up, whether or not the error's frames could be cleared.                 *)
CallFails ==
    /\ pc \in Waiting
    /\ Clean(FALSE)
    /\ uncertain' \in {uncertain, TRUE}
    /\ output' \in IF output = "none" THEN {"none"} ELSE {output, "unsure"}
    /\ UNCHANGED <<state, handleVars, stop, job, terminated, fds, session, child, wireVars>>

-----------------------------------------------------------------------------
(* query and send_result_to *)

Query ==
    /\ pc = "idle" /\ state = "READY" /\ job < MaxJobs
    /\ IF stop
       THEN Clean(FALSE) /\ UNCHANGED job
       ELSE pc' = "ask" /\ job' = job + 1 /\ UNCHANGED graceful
    /\ UNCHANGED <<state, handleVars, uncertain, stop, output, terminated, fds, session, child, wireVars>>

SendQuery ==
    /\ pc = "ask" /\ Alive
    /\ toChild' = Append(toChild, Msg("QUERY", job, FALSE))
    /\ pc' = "reply"
    /\ UNCHANGED <<state, handleVars, uncertain, stop, callVars, fds, session, child, pipe, toParent>>

ReadError ==
    /\ pc = "reply"
    /\ Receives("ERROR", job)
    /\ IF Head(toParent).continue
       THEN pc' = "idle" /\ UNCHANGED graceful
       ELSE Clean(FALSE)
    /\ UNCHANGED <<state, handleVars, uncertain, stop, job, output, terminated, fds, session,
                   child, pipe, toChild>>

(* The pin is taken before the frame's header is read. *)
ReadResult ==
    /\ pc = "reply"
    /\ Receives("RESULT", 0)
    /\ session = "LIVE" /\ output = "none"
    /\ output' = "reading"
    /\ pc' = "frame"
    /\ UNCHANGED <<state, handleVars, uncertain, stop, job, terminated, graceful, fds, session,
                   child, pipe, toChild>>

ReadFrame ==
    /\ pc = "frame"
    /\ Receives("FRAME", job)
    /\ output' = "ready"
    /\ pc' = "done"
    /\ UNCHANGED <<state, handleVars, uncertain, stop, job, terminated, graceful, fds, session,
                   child, pipe, toChild>>

ReadDone ==
    /\ pc = "done"
    /\ Receives("DONE", job)
    /\ state' = "RESULT"
    /\ pc' = "idle"
    /\ UNCHANGED <<handleVars, uncertain, stop, callVars, fds, session, child, pipe, toChild>>

SendResultTo ==
    /\ pc = "idle" /\ state = "RESULT"
    /\ IF stop THEN Clean(FALSE) ELSE pc' = "deliver" /\ UNCHANGED graceful
    /\ UNCHANGED <<state, handleVars, uncertain, stop, job, output, terminated, fds, session,
                   child, wireVars>>

Deliver ==
    /\ pc = "deliver"
    /\ output' = "sent"
    /\ pc' = "closeOutput"
    /\ UNCHANGED <<state, handleVars, uncertain, stop, job, terminated, graceful, fds, session,
                   child, wireVars>>

CloseOutput ==
    /\ pc = "closeOutput"
    /\ output' = "none"
    /\ state' = "READY"
    /\ pc' = "idle"
    /\ UNCHANGED <<handleVars, uncertain, stop, job, terminated, graceful, fds, session,
                   child, wireVars>>

-----------------------------------------------------------------------------
(* close and _cleanup *)

Close ==
    /\ pc = "idle" /\ adopted /\ state # "CLOSED"
    /\ Clean(state \in {"READY", "RESULT"})
    /\ UNCHANGED <<state, handleVars, uncertain, stop, job, output, terminated, fds, session,
                   child, wireVars>>

(* The child is asked to end, if it may be, and the stop is set. *)
BeginCleanup ==
    /\ pc = "cleanup"
    /\ state' = "CLOSING"
    /\ \/ graceful /\ ~stop /\ Alive /\ toChild' = Append(toChild, Msg("CLOSE", 0, FALSE))
       \/ UNCHANGED toChild
    /\ stop' = TRUE
    /\ pc' = "reap"
    /\ UNCHANGED <<handleVars, uncertain, callVars, fds, session, child, pipe, toParent>>

Kill ==
    /\ pc = "reap" /\ process /\ Alive
    /\ child' = [child EXCEPT !.proc = "exited"]
    /\ UNCHANGED <<state, pc, handleVars, uncertain, stop, callVars, fds, session, wireVars>>

Reaped ==
    /\ pc = "reap"
    /\ IF process
       THEN child.proc # "running" /\ child' = [child EXCEPT !.proc = "reaped"]
       ELSE ~spawnUnknown /\ UNCHANGED child
    /\ terminated' = TRUE
    /\ pc' = "fds"
    /\ UNCHANGED <<state, handleVars, uncertain, stop, job, output, graceful, fds, session, wireVars>>

(* The attempts are over, or poll fails; or _reap itself is interrupted.   *)
NotReaped ==
    /\ pc = "reap"
    /\ process \/ spawnUnknown
    /\ terminated' = FALSE
    /\ uncertain' \in {uncertain, TRUE}
    /\ pc' = "fds"
    /\ UNCHANGED <<state, handleVars, stop, job, output, graceful, fds, session, child, wireVars>>

(* The pipe is not touched while the child may be alive. *)
Closing == {f \in Fd : fds[f] = "open" /\ (f = "stdin" => terminated)}

CloseFds ==
    /\ pc = "fds"
    /\ \E failed \in SUBSET Closing, left \in SUBSET Closing :
         /\ left \subseteq failed
         /\ fds' = [f \in Fd |-> IF f \in Closing \ left THEN "closed" ELSE fds[f]]
         /\ uncertain' = (uncertain \/ failed # {})
    /\ pc' = "output"
    /\ UNCHANGED <<state, handleVars, stop, callVars, session, child, wireVars>>

(* _close_output gives the pin back, or does not get the lock in time. *)
CleanOutput ==
    /\ pc = "output"
    /\ output' \in IF output = "unsure" THEN {output} ELSE {output, "none"}
    /\ pc' = "release"
    /\ UNCHANGED <<state, handleVars, uncertain, stop, job, terminated, graceful, fds, session,
                   child, wireVars>>

(* CleanupConfirmation and release. *)
Confirmed == terminated /\ ~spawnUnknown /\ ~uncertain /\ output = "none"

Release ==
    /\ pc = "release"
    /\ session' = IF Confirmed THEN "RELEASED" ELSE "HELD"
    /\ state' = IF Confirmed THEN "CLOSED" ELSE "HELD"
    /\ pc' = "idle"
    /\ UNCHANGED <<handleVars, uncertain, stop, callVars, fds, child, wireVars>>

(* The lock is not to be had in time, or the ledger refuses. *)
ReleaseFails ==
    /\ pc = "release"
    /\ state' = "HELD"
    /\ pc' = "idle"
    /\ UNCHANGED <<handleVars, uncertain, stop, callVars, fds, session, child, wireVars>>

RequestStop ==
    /\ ~stop
    /\ stop' = TRUE
    /\ UNCHANGED <<state, pc, handleVars, uncertain, callVars, fds, session, child, wireVars>>

-----------------------------------------------------------------------------
(* The child *)

ParentGone == fds["sock"] = "closed"

Moves(from, to) == Alive /\ child.at = from /\ child' = [child EXCEPT !.at = to]

ParentUnchanged ==
    UNCHANGED <<state, pc, handleVars, uncertain, stop, callVars, fds, session>>

(* main: protect_process comes before anything is read or said. *)
ChildGuards ==
    /\ Alive /\ child.at = "start"
    /\ child' = [child EXCEPT !.at = "hello", !.guarded = TRUE]
    /\ ParentUnchanged /\ UNCHANGED wireVars

ChildSends(from, to, message) ==
    /\ Moves(from, to)
    /\ ~ParentGone
    /\ toParent' = Append(toParent, message)
    /\ ParentUnchanged /\ UNCHANGED <<pipe, toChild>>

ChildHello == ChildSends("hello", "init", Msg("GUARD", 0, FALSE))

ChildReadsInit ==
    /\ Moves("init", "connect")
    /\ pipe = "init"
    /\ ParentUnchanged /\ UNCHANGED wireVars

ChildOpened == ChildSends("connect", "wait", Msg("OPENED", 0, FALSE))

(* _serve: the snapshot is refused or the connection fails. *)
ChildNotOpened ==
    /\ Alive /\ child.at = "connect" /\ ~ParentGone
    /\ child' = [child EXCEPT !.proc = "exited"]
    /\ toParent' = Append(toParent, Msg("ERROR", 0, FALSE))
    /\ ParentUnchanged /\ UNCHANGED <<pipe, toChild>>

(* _loop: the next query, of this session and with the next number. *)
ChildTakesQuery ==
    /\ Alive /\ child.at = "wait"
    /\ toChild # << >>
    /\ Head(toChild).kind = "QUERY" /\ Head(toChild).job = child.previous + 1
    /\ toChild' = Tail(toChild)
    /\ child' = [child EXCEPT !.at = "check", !.previous = @ + 1, !.said = << >>]
    /\ ParentUnchanged /\ UNCHANGED <<pipe, toParent>>

\* Faulty variant of ChildIdles: only the end of the stream ends the wait.
ChildIdlesOn ==
    /\ Alive /\ child.at = "wait"
    /\ toChild = << >> /\ ParentGone
    /\ child' = [child EXCEPT !.proc = "exited"]
    /\ ParentUnchanged /\ UNCHANGED wireVars

(* _next: CLOSE, or no byte within the idle time, or the end of the stream. *)
ChildIdles ==
    /\ Alive /\ child.at = "wait"
    /\ toChild # << >> => Head(toChild).kind = "CLOSE"
    /\ child' = [child EXCEPT !.proc = "exited"]
    /\ ParentUnchanged /\ UNCHANGED wireVars

(* baseline.require_same *)
SameState(dirty) == ~dirty

ChildChecks ==
    /\ Moves("check", IF SameState(child.dirty) THEN "compute" ELSE "error")
    /\ ParentUnchanged /\ UNCHANGED wireVars

(* run_job: the statement may change the session's state, whatever its     *)
(* outcome, and is checked before anything but a final error is said.      *)
ChildComputes ==
    /\ Alive /\ child.at = "compute"
    /\ \E outcome \in {"error", "continue", "result"}, dirty \in {child.dirty, TRUE} :
         child' = [child EXCEPT
                     !.at = IF SameState(dirty) THEN outcome ELSE "error",
                     !.dirty = dirty]
    /\ ParentUnchanged /\ UNCHANGED wireVars

ChildSays(from, to, message) ==
    /\ Alive /\ child.at = from /\ ~ParentGone
    /\ child' = [child EXCEPT !.at = to, !.said = Append(@, message.kind)]
    /\ toParent' = Append(toParent, message)
    /\ ParentUnchanged /\ UNCHANGED <<pipe, toChild>>

(* A failure that may not be continued ends the process. *)
ChildSaysFatal ==
    /\ Alive /\ child.at = "error" /\ ~ParentGone
    /\ child' = [child EXCEPT !.proc = "exited", !.said = Append(@, "ERROR")]
    /\ toParent' = Append(toParent, Msg("ERROR", child.previous, FALSE))
    /\ ParentUnchanged /\ UNCHANGED <<pipe, toChild>>

ChildSaysError == ChildSays("continue", "after", Msg("ERROR", child.previous, TRUE))
ChildSaysResult == ChildSays("result", "frame", Msg("RESULT", 0, FALSE))
ChildSaysFrame == ChildSays("frame", "done", Msg("FRAME", child.previous, FALSE))
ChildSaysDone == ChildSays("done", "after", Msg("DONE", child.previous, FALSE))

ChildGoesOn ==
    /\ Moves("after", "wait")
    /\ ParentUnchanged /\ UNCHANGED wireVars

(* A deadline is over, a message cannot be sent, or the process is killed: *)
(* it ends, and says nothing more.                                         *)
ChildFails ==
    /\ Alive
    /\ child' = [child EXCEPT !.proc = "exited"]
    /\ ParentUnchanged /\ UNCHANGED wireVars

-----------------------------------------------------------------------------
ParentStep ==
    \/ Open \/ Adopt \/ AdoptFails \/ MakeSockets \/ Spawn \/ SpawnRaises \/ CloseChildSock
    \/ ReadGuard \/ SendInit \/ ReadOpened \/ CallFails
    \/ Query \/ SendQuery \/ ReadError \/ ReadResult \/ ReadFrame \/ ReadDone
    \/ SendResultTo \/ Deliver \/ CloseOutput
    \/ Close \/ BeginCleanup \/ Kill \/ Reaped \/ NotReaped \/ CloseFds \/ CleanOutput
    \/ Release \/ ReleaseFails

ChildWorks ==
    \/ ChildGuards \/ ChildHello \/ ChildReadsInit \/ ChildOpened \/ ChildNotOpened
    \/ ChildTakesQuery \/ ChildIdles \/ ChildChecks \/ ChildComputes
    \/ ChildSaysFatal \/ ChildSaysError \/ ChildSaysResult \/ ChildSaysFrame \/ ChildSaysDone
    \/ ChildGoesOn

(* Nothing is left to do for a closed session, or one stopped before open. *)
Resting ==
    /\ pc = "idle" /\ (state = "CLOSED" \/ (state = "NEW" /\ stop))
    /\ UNCHANGED vars

Next == ParentStep \/ RequestStop \/ ChildWorks \/ ChildFails \/ Resting

Spec == Init /\ [][Next]_vars

-----------------------------------------------------------------------------
(* Credits go back only when the child is reaped, every descriptor is      *)
(* closed, the output's pin is gone and nothing about any of them was ever *)
(* uncertain, over any number of calls of close (_cleanup).                *)
ReleasedIsGone ==
    session = "RELEASED" =>
        /\ child.proc \in {"none", "reaped"}
        /\ \A f \in Fd : fds[f] # "open"
        /\ output = "none"
        /\ ~uncertain

(* Between two calls of a ready session nothing is on its way, and the     *)
(* child, if it lives, has the same number of jobs behind it: no answer    *)
(* can be taken for the next job's (query).                                *)
QuietWhenReady ==
    pc = "idle" /\ state \in {"READY", "RESULT"} =>
        /\ toChild = << >> /\ toParent = << >>
        /\ Alive => child.at \in {"wait", "after"} /\ child.previous = job

(* A child does not outlive its session for ever, not even one that could  *)
(* not be killed, or that the parent does not know of (_next, _cleanup).   *)
ChildGoes == state \in {"HELD", "CLOSED"} ~> ~Alive

(* A result is offered only when the child has said everything about it    *)
(* and counted the job as done (_query).                                   *)
OfferedIsDone == state = "RESULT" => child.said = <<"RESULT", "FRAME", "DONE">>

(* A job gets one answer: an error, or a result, and never an error after  *)
(* a part of a result (_one_job).                                          *)
OneAnswer ==
    child.said \in {<< >>, <<"ERROR">>, <<"RESULT">>, <<"RESULT", "FRAME">>,
                    <<"RESULT", "FRAME", "DONE">>}

(* Parent and child talk about the same job: every answer is whole, one of *)
(* its kind, and taken for the job it belongs to (query, _one_job).        *)
AnswersMatchJobs ==
    /\ QuietWhenReady
    /\ OfferedIsDone
    /\ OneAnswer

(* The session with its worker is sound: credits go back only when all is  *)
(* gone, and no answer is taken for another job's.                         *)
WorkerSound ==
    /\ ReleasedIsGone
    /\ AnswersMatchJobs
-----------------------------------------------------------------------------
(* Why it is sound: until a call fails, what is on its way and where the   *)
(* child is follow from where the parent is; afterwards the session is     *)
(* never ready again.                                                      *)

Error == <<"ERROR">>
Whole == <<"RESULT", "FRAME", "DONE">>
Answers == {<< >>, Error, <<"RESULT">>, <<"RESULT", "FRAME">>, Whole}

Types ==
    /\ uncertain \in BOOLEAN /\ terminated \in BOOLEAN /\ job \in Nat
    /\ fds \in [Fd -> {"none", "open", "closed"}]
    /\ child \in [proc : {"none", "running", "exited", "reaped"}, at : Place, previous : Nat,
                  guarded : BOOLEAN, dirty : BOOLEAN, said : Answers]

Asking == {"ask", "reply", "frame", "done"}
Offering == {"deliver", "closeOutput"}

(* The state of the handle follows from where its call is. *)
StatesAgree ==
    /\ pc = "adopt" => state = "NEW"
    /\ state = "NEW" => pc \in {"idle", "adopt"} /\ ~adopted
    /\ pc \in {"sockets", "spawn", "spawned", "guard", "init", "opened"} => state = "OPENING"
    /\ pc \in Asking => state = "READY"
    /\ pc \in Offering => state = "RESULT"
    /\ state = "READY" => pc \in {"idle", "cleanup"} \cup Asking
    /\ state = "RESULT" => pc \in {"idle", "cleanup"} \cup Offering
    /\ state = "CLOSED" => pc = "idle"
    /\ session = "RELEASED" => state = "CLOSED"

(* The child has said what its place requires. *)
SaidSoFar ==
    CASE child.at \in {"start", "hello", "init", "connect", "check", "compute",
                       "continue", "result"} -> child.said = << >>
      [] child.at = "error" -> child.said = << >> \/ (child.said = Error /\ ~Alive)
      [] child.at = "frame" -> child.said = <<"RESULT">>
      [] child.at = "done" -> child.said = <<"RESULT", "FRAME">>
      [] child.at = "after" -> child.said \in {Error, Whole}
      [] OTHER -> child.said \in {<< >>, Error, Whole}

(* The messages that said stands for. *)
Answer(number, continue) ==
    CASE child.said = Error -> <<Msg("ERROR", number, continue)>>
      [] child.said = <<"RESULT">> -> <<Msg("RESULT", 0, FALSE)>>
      [] child.said = <<"RESULT", "FRAME">> -> <<Msg("RESULT", 0, FALSE), Msg("FRAME", number, FALSE)>>
      [] child.said = Whole ->
           <<Msg("RESULT", 0, FALSE), Msg("FRAME", number, FALSE), Msg("DONE", number, FALSE)>>
      [] OTHER -> << >>

Quiet ==
    /\ toChild = << >> /\ toParent = << >>
    /\ child.at \in {"wait", "after"} /\ child.previous = job

NothingYet ==
    /\ child.proc = "none" /\ child.at = "start" /\ child.previous = 0
    /\ toChild = << >> /\ toParent = << >> /\ pipe = "empty" /\ job = 0

Opening ==
    /\ state = "NEW" \/ pc \in {"sockets", "spawn"} => NothingYet
    /\ pc \in {"spawned", "guard", "init", "opened"} =>
         toChild = << >> /\ child.previous = 0 /\ job = 0 /\ child.said = << >>
    /\ pc \in {"spawned", "guard"} =>
         /\ pipe = "empty"
         /\ \/ child.at \in {"start", "hello"} /\ toParent = << >>
            \/ child.at = "init" /\ toParent = <<Msg("GUARD", 0, FALSE)>>
    /\ pc = "init" => pipe = "empty" /\ child.at = "init" /\ toParent = << >>
    /\ pc = "opened" =>
         \/ child.at \in {"init", "connect"} /\ toParent = << >>
         \/ child.at = "connect" /\ ~Alive /\ toParent = <<Msg("ERROR", 0, FALSE)>>
         \/ child.at = "wait" /\ toParent = <<Msg("OPENED", 0, FALSE)>>

Serving ==
    /\ pc = "idle" /\ state = "READY" => Quiet
    /\ state = "RESULT" => Quiet /\ child.said = Whole
    /\ pc = "ask" =>
         /\ toChild = << >> /\ toParent = << >>
         /\ child.at \in {"wait", "after"} /\ child.previous + 1 = job
    /\ pc = "reply" =>
         \/ /\ toChild = <<Msg("QUERY", job, FALSE)>> /\ toParent = << >>
            /\ child.at \in {"wait", "after"} /\ child.previous + 1 = job
         \/ /\ toChild = << >> /\ child.previous = job
            /\ child.at \notin {"start", "hello", "init", "connect"}
            /\ child.at = "wait" => child.said # << >>
            /\ toParent = Answer(job, child.at # "error")
    /\ pc = "frame" =>
         /\ toChild = << >> /\ child.previous = job
         /\ \/ child.at = "frame" /\ toParent = << >>
            \/ child.at = "done" /\ toParent = <<Msg("FRAME", job, FALSE)>>
            \/ /\ child.at \in {"after", "wait"} /\ child.said = Whole
               /\ toParent = <<Msg("FRAME", job, FALSE), Msg("DONE", job, FALSE)>>
    /\ pc = "done" =>
         /\ toChild = << >> /\ child.previous = job
         /\ \/ child.at = "done" /\ toParent = << >>
            \/ /\ child.at \in {"after", "wait"} /\ child.said = Whole
               /\ toParent = <<Msg("DONE", job, FALSE)>>

(* What _cleanup has shown by the time it confirms. *)
Cleaned ==
    /\ child.proc # "none" => process \/ spawnUnknown
    /\ pc \in {"fds", "output", "release"} /\ terminated /\ ~spawnUnknown =>
         child.proc \in {"none", "reaped"}
    /\ pc \in {"output", "release"} /\ terminated /\ ~uncertain => \A f \in Fd : fds[f] # "open"

IInv ==
    /\ Types
    /\ StatesAgree
    /\ SaidSoFar
    /\ Opening
    /\ Serving
    /\ Cleaned
    /\ ReleasedIsGone
=============================================================================
