---------------------------- MODULE ChildRecord ----------------------------
(***************************************************************************)
(* One supervised child of datasource/verify.py (_ChildRecord): the        *)
(* process, its two pipes and the two threads that pump them, from the     *)
(* spawn to the reaping.                                                   *)
(*                                                                         *)
(* Four actors: the handler (the thread that runs the record and then      *)
(* reaps it, and after it the collectors that retry, one at a time), the   *)
(* two pumps, and the child.  Deadlines are events: `late' when that of    *)
(* the work has passed, `spent' when that of the reaping pass has.  Bind   *)
(* tells the two fixed jobs apart: the verification of a connection        *)
(* (FALSE) and the resolution of the PGWire bind host (TRUE).              *)
(***************************************************************************)
EXTENDS Naturals, FiniteSets

CONSTANTS
    Bind,        \* a Boolean: run_bind_dns rather than run
    None         \* no exit code, nothing read, no outcome yet

Pump == {"stdin", "stdout"}

\* what the child wrote: success, a known refusal, anything else, too much
Answer == {"ok", "capability", "garbage", "flood"}

VARIABLES
    spawn,      \* _ChildRecord.spawn
    child,      \* the process: "none", "alive" or "ended"
    code,       \* its exit status: 0, 1 (any other), or None
    said,       \* what it wrote to stdout, or None
    pid,        \* the Popen object exposes a process id
    pipe,       \* each pipe of the Popen object: "absent", "open" or "closed"
    pump,       \* _Pump: state, ran, cancelled, done, and its native thread
    sink,       \* _ChildRecord.sink
    pc,         \* the handler
    next,       \* the pump the handler starts next
    completed,  \* what run returned
    late,       \* the deadline of the work has passed
    spent,      \* the deadline of this reaping pass has passed
    reaped,     \* what the last finished pass returned
    outcome     \* what the caller of the job was told, or None

handler == <<pc, next, completed, reaped, outcome>>
process == <<spawn, child, code, said, pid>>
vars == <<handler, process, pipe, pump, sink, late, spent>>

IdlePump == [state |-> "idle", thread |-> "none", ran |-> FALSE, cancelled |-> FALSE,
             done |-> FALSE]

PumpRecord ==
    [state : {"idle", "starting", "started"},
     thread : {"none", "new", "target", "read", "exiting", "dead"},
     ran : BOOLEAN, cancelled : BOOLEAN, done : BOOLEAN]

Sink == [data : Answer \cup {"empty", None}, too_big : BOOLEAN, io_error : BOOLEAN]

TypeOK ==
    /\ spawn \in {"idle", "attempted", "created"}
    /\ child \in {"none", "alive", "ended"}
    /\ code \in {None, 0, 1}
    /\ said \in Answer \cup {None}
    /\ pid \in BOOLEAN
    /\ pipe \in [Pump -> {"absent", "open", "closed"}]
    /\ pump \in [Pump -> PumpRecord]
    /\ sink \in Sink
    /\ pc \in {"spawn", "start", "starting", "wait", "answer", "reap", "kill", "close",
               "check", "retry", "settle", "idle"}
    /\ next \in Pump
    /\ completed \in BOOLEAN /\ late \in BOOLEAN /\ spent \in BOOLEAN
    /\ reaped \in BOOLEAN
    /\ outcome \in {None, "approved", "capability", "refused", "failed", "incomplete"}

Init ==
    /\ spawn = "idle" /\ child = "none" /\ code = None /\ said = None /\ pid = FALSE
    /\ pipe = [p \in Pump |-> "absent"]
    /\ pump = [p \in Pump |-> IdlePump]
    /\ sink = [data |-> None, too_big |-> FALSE, io_error |-> FALSE]
    /\ pc = "spawn" /\ next = "stdin" /\ completed = FALSE
    /\ late = FALSE /\ spent = FALSE /\ reaped = FALSE /\ outcome = None

-----------------------------------------------------------------------------
(* run, run_bind_dns *)

GoReap(result) ==
    /\ pc' = "reap"
    /\ completed' = result
    /\ UNCHANGED <<next, reaped, outcome>>

(* The constructor is not entered: no executable, or (bind) it is too late. *)
SpawnNothing ==
    /\ pc = "spawn"
    /\ GoReap(FALSE)
    /\ UNCHANGED <<process, pipe, pump, sink, late, spent>>

(* The constructor adopts the object and does not return normally: the     *)
(* child may exist, and the object may show its process id and pipes.      *)
SpawnRaises ==
    /\ pc = "spawn"
    /\ Bind => ~late
    /\ spawn' = "attempted"
    /\ \/ child' = "none" /\ pid' = FALSE /\ UNCHANGED pipe
       \/ child' = "alive" /\ pid' \in BOOLEAN
          /\ pipe' \in [Pump -> {"absent", "open"}]
    /\ GoReap(FALSE)
    /\ UNCHANGED <<code, said, pump, sink, late, spent>>

Spawn ==
    /\ pc = "spawn"
    /\ Bind => ~late
    /\ spawn' = "created" /\ child' = "alive" /\ pid' = TRUE
    /\ pipe' = [p \in Pump |-> "open"]
    /\ pc' = "start"
    /\ UNCHANGED <<code, said, pump, sink, late, spent, next, completed, reaped,
                   outcome>>

(* The attempt is recorded before start(), which may create the thread or  *)
(* not before it raises.                                                   *)
StartPump ==
    /\ pc = "start"
    /\ IF Bind /\ late
       THEN GoReap(FALSE) /\ UNCHANGED pump
       ELSE /\ \E thread \in {"none", "new"} :
                pump' = [pump EXCEPT ![next].state = "starting", ![next].thread = thread]
            /\ pc' = "starting"
            /\ UNCHANGED <<next, completed, reaped, outcome>>
    /\ UNCHANGED <<process, pipe, sink, late, spent>>

StartReturns ==
    /\ pc = "starting"
    /\ pump[next].thread # "none"
    /\ pump' = [pump EXCEPT ![next].state = "started"]
    /\ next' = "stdout"
    /\ pc' = IF next = "stdin" THEN "start" ELSE "wait"
    /\ UNCHANGED <<process, pipe, sink, late, spent, completed, reaped, outcome>>

StartRaises ==
    /\ pc = "starting"
    /\ GoReap(FALSE)
    /\ UNCHANGED <<process, pipe, pump, sink, late, spent>>

(* The loop on process.wait: the deadline and the output's limit first. *)
WaitGivesUp ==
    /\ pc = "wait"
    /\ late \/ sink.too_big
    /\ GoReap(FALSE)
    /\ UNCHANGED <<process, pipe, pump, sink, late, spent>>

WaitReturns ==
    /\ pc = "wait"
    /\ child = "ended"
    /\ IF Bind
       THEN pc' = "answer" /\ UNCHANGED <<next, completed, reaped, outcome>>
       ELSE GoReap(TRUE)
    /\ UNCHANGED <<process, pipe, pump, sink, late, spent>>

(* _bind_dns_read_in_time: the reader must reach its end in time too. *)
ReadInTime ==
    /\ pc = "answer"
    /\ late \/ pump["stdout"].done
    /\ GoReap(pump["stdout"].done /\ ~late)
    /\ UNCHANGED <<process, pipe, pump, sink, late, spent>>

-----------------------------------------------------------------------------
(* The pumps *)

Exits(p) == [pump EXCEPT ![p].thread = "exiting", ![p].done = TRUE]

(* _guarded: the target is entered only if the reaper has not cancelled it. *)
Guarded(p) ==
    /\ pump[p].thread = "new"
    /\ pump' = IF pump[p].cancelled
               THEN Exits(p)
               ELSE [pump EXCEPT ![p].ran = TRUE, ![p].thread = "target"]
    /\ UNCHANGED <<handler, process, pipe, sink, late, spent>>

ThreadDies(p) ==
    /\ pump[p].thread = "exiting"
    /\ pump' = [pump EXCEPT ![p].thread = "dead"]
    /\ UNCHANGED <<handler, process, pipe, sink, late, spent>>

(* The pump's own close, whose failure is suppressed. *)
Closes(p) == pipe' = [pipe EXCEPT ![p] = "closed"] \/ UNCHANGED pipe

Sends ==
    /\ pump["stdin"].thread = "target"
    /\ pipe["stdin"] = "open"
    /\ \/ /\ child = "alive"
          /\ UNCHANGED sink
       \/ sink' = [sink EXCEPT !.io_error = TRUE]
    /\ Closes("stdin")
    /\ pump' = Exits("stdin")
    /\ UNCHANGED <<handler, process, late, spent>>

(* read returns what the child wrote once it ended. *)
Reads ==
    /\ pump["stdout"].thread = "target"
    /\ pipe["stdout"] = "open"
    /\ child = "ended"
    /\ said # "flood"
    /\ pump' = [pump EXCEPT !["stdout"].thread = "read"]
    /\ UNCHANGED <<handler, process, pipe, sink, late, spent>>

(* The second read finds the end of the stream. *)
ReadsEnd ==
    /\ pump["stdout"].thread = "read"
    /\ pipe["stdout"] = "open"
    /\ sink' = [sink EXCEPT !.data = IF said = None THEN "empty" ELSE said]
    /\ Closes("stdout")
    /\ pump' = Exits("stdout")
    /\ UNCHANGED <<handler, process, late, spent>>

ReadsTooMuch ==
    /\ pump["stdout"].thread = "target"
    /\ pipe["stdout"] = "open"
    /\ said = "flood"
    /\ sink' = [sink EXCEPT !.too_big = TRUE, !.data = "empty"]
    /\ Closes("stdout")
    /\ pump' = Exits("stdout")
    /\ UNCHANGED <<handler, process, late, spent>>

(* An error of the operating system: whatever was read is the data. *)
ReadFails ==
    /\ pump["stdout"].thread \in {"target", "read"}
    /\ pipe["stdout"] = "open"
    /\ sink' = [sink EXCEPT !.io_error = TRUE,
                            !.data = IF pump["stdout"].thread = "read" /\ said # None
                                     THEN said ELSE "empty"]
    /\ Closes("stdout")
    /\ pump' = Exits("stdout")
    /\ UNCHANGED <<handler, process, late, spent>>

(* The reaper closed the stream: the operation raises ValueError, which no *)
(* pump catches; nothing is recorded in the sink.                          *)
FindsClosed(p) ==
    /\ pump[p].thread \in {"target", "read"}
    /\ pipe[p] = "closed"
    /\ pump' = Exits(p)
    /\ UNCHANGED <<handler, process, pipe, sink, late, spent>>

-----------------------------------------------------------------------------
(* The child and the clock *)

(* The child reads its stdin to the end before it answers and exits 0; a   *)
(* bad input, a crash or an unexpected failure exits otherwise.            *)
ChildAnswers(answer) ==
    /\ child = "alive"
    /\ said = None
    /\ answer = "flood" \/ pipe["stdin"] = "closed"
    /\ said' = answer
    /\ UNCHANGED <<spawn, child, code, pid, handler, pipe, pump, sink, late, spent>>

ChildExits(status) ==
    /\ child = "alive"
    /\ status = 0 => said # None
    /\ child' = "ended"
    /\ code' = status
    /\ UNCHANGED <<spawn, said, pid, handler, pipe, pump, sink, late, spent>>

DeadlinePasses ==
    /\ ~late
    /\ pc \in {"spawn", "start", "starting", "wait", "answer"}
    /\ late' = TRUE
    /\ UNCHANGED <<handler, process, pipe, pump, sink, spent>>

BudgetSpent ==
    /\ ~spent
    /\ pc \in {"kill", "close", "check", "retry"}
    /\ spent' = TRUE
    /\ UNCHANGED <<handler, process, pipe, pump, sink, late>>

-----------------------------------------------------------------------------
(* reap: one pass *)

Goto(label) == pc' = label /\ UNCHANGED <<next, completed, reaped, outcome>>

PassReturns(result) ==
    /\ pc' = "settle"
    /\ reaped' = result
    /\ UNCHANGED <<next, completed, outcome>>

Reachable == spawn = "created" \/ pid

ReapStarts ==
    /\ pc = "reap"
    /\ \/ spawn = "idle" /\ PassReturns(TRUE)
       \/ spawn # "idle" /\ ~Reachable /\ PassReturns(FALSE)
       \/ spawn # "idle" /\ Reachable /\ Goto("kill")
    /\ UNCHANGED <<process, pipe, pump, sink, late, spent>>

(* kill(), delivered or not, then a wait that ends with the child or with  *)
(* the budget; nothing is closed while the child may be alive.             *)
Kill ==
    /\ pc = "kill"
    /\ \/ /\ child = "ended"
          /\ UNCHANGED <<child, code>>
          /\ Goto("close")
       \/ /\ child = "alive"
          /\ child' = "ended" /\ code' = 1
          /\ Goto("close")
       \/ /\ child = "alive"
          /\ UNCHANGED <<child, code>>
          /\ Goto("retry")
    /\ UNCHANGED <<spawn, said, pid, pipe, pump, sink, late, spent>>

(* A close blocks while the pump writes to, or reads from, a live child. *)
Busy(p) == pump[p].thread = "target" /\ child = "alive"

(* Each known pipe is closed, unless its close raises; the joins that      *)
(* follow end with the thread or time out, so they hold nothing back.      *)
ClosePipes ==
    /\ pc = "close"
    /\ \A p \in Pump : pipe[p] = "open" => ~Busy(p)
    /\ \E failed \in SUBSET Pump :
        pipe' = [p \in Pump |-> IF pipe[p] = "open" /\ p \notin failed THEN "closed" ELSE pipe[p]]
    /\ Goto("check")
    /\ UNCHANGED <<process, pump, sink, late, spent>>

(* settled: an is_alive() that is false proves nothing by itself. *)
Settled(p) == pump[p].state = "idle" \/ (pump[p].done /\ pump[p].thread = "dead")

AllClosed == \A p \in Pump : pipe[p] = "closed"

OnlyUnknownPipeLeft ==
    /\ \E p \in Pump : pipe[p] = "absent"
    /\ child = "ended"
    /\ \A p \in Pump : pipe[p] # "open"

Cancelled == [p \in Pump |-> IF pump[p].ran THEN pump[p] ELSE [pump[p] EXCEPT !.cancelled = TRUE]]

(* reaped: cancels every pump that did not enter its target, and asks for  *)
(* the end of the child, of the threads and of both pipes.                 *)
Check ==
    /\ pc = "check"
    /\ pump' = IF spawn = "created" THEN Cancelled ELSE pump
    /\ IF child = "ended" /\ (\A p \in Pump : Settled(p)) /\ AllClosed
       THEN PassReturns(TRUE)
       ELSE Goto("retry")
    /\ UNCHANGED <<process, pipe, sink, late, spent>>

Retry ==
    /\ pc = "retry"
    /\ IF OnlyUnknownPipeLeft \/ spent THEN PassReturns(FALSE) ELSE Goto("kill")
    /\ UNCHANGED <<process, pipe, pump, sink, late, spent>>

-----------------------------------------------------------------------------
(* _run, _bind_dns_run: what the caller is told after the first pass *)

(* _parse: a closed vocabulary, anything else is a failure. *)
Parsed ==
    CASE sink.data = "ok" -> "approved"
      [] sink.data = "capability" -> "capability"
      [] OTHER -> "failed"

Trusted == completed /\ ~sink.too_big /\ ~sink.io_error /\ code = 0

Told ==
    CASE ~reaped -> "incomplete"
      [] reaped /\ spawn = "idle" -> "refused"
      [] reaped /\ spawn # "idle" /\ Trusted -> Parsed
      [] OTHER -> "failed"

Settle ==
    /\ pc = "settle"
    /\ outcome' = IF outcome = None THEN Told ELSE outcome
    /\ pc' = "idle"
    /\ UNCHANGED <<next, completed, reaped, process, pipe, pump, sink, late, spent>>

(* A later pass of a collector over a record that was not reaped. *)
Collect ==
    /\ pc = "idle"
    /\ ~reaped
    /\ pc' = "reap"
    /\ spent' = FALSE
    /\ UNCHANGED <<next, completed, reaped, outcome, process, pipe, pump, sink, late>>

Handler ==
    \/ SpawnNothing \/ SpawnRaises \/ Spawn
    \/ StartPump \/ StartReturns \/ StartRaises
    \/ WaitGivesUp \/ WaitReturns \/ ReadInTime
    \/ ReapStarts \/ Kill \/ ClosePipes \/ Check \/ Retry \/ Settle

Pumps ==
    \/ \E p \in Pump : Guarded(p) \/ ThreadDies(p) \/ FindsClosed(p)
    \/ Sends \/ Reads \/ ReadsEnd \/ ReadsTooMuch \/ ReadFails

Next ==
    \/ Handler
    \/ Pumps
    \/ \E answer \in Answer : ChildAnswers(answer)
    \/ \E status \in {0, 1} : ChildExits(status)
    \/ DeadlinePasses
    \/ BudgetSpent
    \/ Collect

Spec == Init /\ [][Next]_vars

-----------------------------------------------------------------------------
(* Properties *)

Gone ==
    /\ child # "alive"
    /\ \A p \in Pump : pump[p].thread \in {"none", "dead"} /\ pipe[p] # "open"

(***************************************************************************)
(* A record is reported reaped, and its slot given back, only when nothing *)
(* of it is left: no process, no native thread, not even one whose start   *)
(* was interrupted and that has not run yet, and no open pipe; and none    *)
(* appears afterwards.                                                     *)
(***************************************************************************)
ReapedIsGone ==
    (reaped \/ outcome \in {"approved", "capability", "refused", "failed"}) => Gone

-----------------------------------------------------------------------------
(* Why it is sound *)

(* Until the constructor is entered the record holds nothing, and the work *)
(* on a child begins only after it returned.                               *)
NothingBeforeSpawn ==
    /\ pc = "spawn" => spawn = "idle"
    /\ pc \in {"start", "starting", "wait", "answer"} => spawn = "created"
    /\ spawn = "idle" =>
        child = "none" /\ \A p \in Pump : pipe[p] = "absent" /\ pump[p].state = "idle"

(* The attempt to start a pump is recorded before its thread can exist. *)
AttemptRecorded == \A p \in Pump : pump[p].state = "idle" => pump[p].thread = "none"

(* After a pass that reported the record reaped, no handler works on it,   *)
(* and only such a pass lets the caller be told anything else than that    *)
(* the reaping is incomplete.                                              *)
ReapedIsFinal ==
    /\ reaped => pc \in {"settle", "idle"} /\ Gone
    /\ outcome \in {"approved", "capability", "refused", "failed"} => reaped

IInv == TypeOK /\ NothingBeforeSpawn /\ AttemptRecorded /\ ReapedIsFinal
=============================================================================
