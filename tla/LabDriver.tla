----------------------------- MODULE LabDriver -----------------------------
(***************************************************************************)
(* The driver of the W1 laboratory (deploy/oracle9_w1_driver.py) over the  *)
(* control machine it loads (deploy/oracle9_w1_controller.py).  One run    *)
(* walks through the cases: Jobs queries on one session, three sessions    *)
(* that must die, T4 (a stop asked by the host while a query runs), T5     *)
(* (pending), the summary and T6 (the host kills the process).  Every port *)
(* may fail; whatever is uncertain afterwards must be retained, not lost.  *)
(***************************************************************************)
EXTENDS Naturals, Sequences, FiniteSets

CONSTANTS
    Jobs,        \* cases on the persistent session (19 in the code)
    ErrorJobs,   \* the jobs of them whose expected answer is an error
    Packets,     \* the INIT packets a host may send
    SinkCap,     \* the most bytes the sink takes
    SinkChunk    \* the most bytes of one read

VARIABLES
    pc,        \* where the driver's thread is
    stop,      \* the _Abort raised: its case and whether it retains
    case,      \* _Driver.case
    machine,   \* the ControlMachine
    verdicts,  \* _Driver.verdicts
    owner,     \* Owner: thread handles, endpoints and things of unknown fate
    credit,    \* the session's credits in the budget ledger
    sess,      \* the state of the worker session
    sink,      \* the thread that drains one result
    watch,     \* T4's watcher thread and the CallState it shares
    told,      \* what the host has been told
    result     \* the outcome of the run

vars == <<pc, stop, case, machine, verdicts, owner, credit, sess, sink, watch, told, result>>

T(k) == Jobs + k
Cases == Jobs + 6
MaxHostFrames == 2 * Cases
GO == 1
STOP == 2
NOSTOP == 3
ACK == 4

-----------------------------------------------------------------------------
(* The INIT packet.                                                        *)

TargetSound(t) == t.privateIpv4 /\ t.port \in 1..65535 /\ t.names

RecordSound(i, r) ==
    /\ r.job = i
    /\ IF i \in ErrorJobs THEN r.kind = "ERROR" /\ ~r.measured
                          ELSE r.kind = "RESULT" /\ r.measured

DecodeInit(p) ==
    /\ p.framed /\ p.canonical /\ p.named
    /\ TargetSound(p.target) /\ p.secrets
    /\ Len(p.canaries) \in 1..16
    /\ \A i \in DOMAIN p.canaries : p.canaries[i] \in 1..128
    /\ Len(p.expected) = Jobs
    /\ \A i \in 1..Jobs : RecordSound(i, p.expected[i])

-----------------------------------------------------------------------------
(* The control machine: what the host may say, and when.  A refusal leaves *)
(* the machine aborted, and an aborted machine refuses everything.         *)

ControlSound(f) ==
    f.kind \in GO..ACK /\ f.case \in 1..Cases /\ f.seq \in 1..MaxHostFrames

NextSeq(m) == m.accepted + 1
Refused(m) == [m EXCEPT !.aborted = TRUE]

Emit(m, event, c) ==
    LET armed == c \in {T(4), T(6)}
        to(phase) == [m EXCEPT !.phase = phase]
    IN  CASE m.aborted \/ c # m.case -> Refused(m)
          [] event = "READY" /\ m.phase = "READY_DUE" -> to("GO_DUE")
          [] event = "RESULT" /\ m.phase = "RUNNING" /\ ~armed -> to("ACK_DUE")
          [] event = "RESULT" /\ m.phase = "JOINED" -> to("ACK_DUE")
          [] event = "ARMED" /\ m.phase = "RUNNING" /\ armed ->
                 to(IF c = T(4) THEN "ARMED" ELSE "TERMINAL")
          [] OTHER -> Refused(m)

Accept(m, f) ==
    LET due == IF m.phase = "GO_DUE" THEN GO ELSE IF m.phase = "ACK_DUE" THEN ACK ELSE 0
        counted == [m EXCEPT !.accepted = @ + 1]
    IN  CASE m.aborted \/ m.reader # "MAIN" \/ ~ControlSound(f) -> Refused(m)
          [] due = 0 \/ f # [kind |-> due, case |-> m.case, seq |-> NextSeq(m)] -> Refused(m)
          [] m.phase = "GO_DUE" -> [counted EXCEPT !.phase = "RUNNING"]
          [] m.phase # "GO_DUE" /\ m.case = T(5) -> [counted EXCEPT !.phase = "SUMMARY_DUE"]
          [] OTHER -> [counted EXCEPT !.case = @ + 1, !.phase = "READY_DUE"]

Handoff(m) ==
    IF m.aborted \/ m.phase # "ARMED" \/ m.reader # "MAIN"
    THEN Refused(m)
    ELSE [m EXCEPT !.reader = "WATCHER", !.phase = "WATCH"]

Join(m, f) ==
    IF \/ m.aborted \/ m.phase # "WATCH" \/ ~ControlSound(f)
       \/ f.kind \notin {STOP, NOSTOP} \/ f.case # T(4) \/ f.seq # NextSeq(m)
    THEN Refused(m)
    ELSE [m EXCEPT !.accepted = @ + 1, !.reader = "MAIN", !.phase = "JOINED",
                   !.failed = IF f.kind = NOSTOP THEN {T(4)} ELSE @]

Summarise(m) ==
    IF m.aborted \/ m.phase # "SUMMARY_DUE"
    THEN Refused(m)
    ELSE [m EXCEPT !.case = T(6), !.phase = "READY_DUE"]

\* What may be read where a frame is due: the right one, a stale or foreign one, garbage.
Offered(m, k) ==
    {[kind |-> i, case |-> m.case, seq |-> NextSeq(m)] : i \in {k, 3}}
    \cup {[kind |-> k, case |-> m.case, seq |-> m.accepted],
          [kind |-> k, case |-> m.case + 1, seq |-> NextSeq(m)],
          [kind |-> 0, case |-> 0, seq |-> 0]}
NoFrame == [kind |-> 0, case |-> 0, seq |-> 0]

-----------------------------------------------------------------------------
(* The start: guard, prefix, INIT, snapshots, ledger.                      *)

Idle == [at |-> "off", count |-> 0, same |-> TRUE, status |-> "none"]
NoWatch == [at |-> "off", frame |-> NoFrame, active |-> FALSE, applied |-> FALSE, stray |-> FALSE]

Init ==
    /\ pc = "protect" /\ case = 0 /\ result = "none"
    /\ stop = [case |-> 0, retain |-> FALSE]
    /\ machine = [case |-> 1, phase |-> "READY_DUE", reader |-> "MAIN", accepted |-> 0,
                  aborted |-> FALSE, failed |-> {}]
    /\ verdicts = [c \in 1..Cases |-> "NOT_RUN"]
    /\ owner = [threads |-> {}, ends |-> {}, unknown |-> {}]
    /\ credit = "none" /\ sess = "none" /\ sink = Idle /\ watch = NoWatch
    /\ told = [results |-> [c \in 1..Cases |-> "none"], failed |-> {}, abort |-> "none",
               outcome |-> "none"]

Abort(retain) == pc' = "abort" /\ stop' = [case |-> case, retain |-> retain]
Go(p) == pc' = p /\ UNCHANGED stop

\* run(): a foreign guard profile ends it before anything is loaded.
Protect ==
    /\ pc = "protect"
    /\ \/ Go("load") /\ UNCHANGED result
       \/ Go("ended") /\ result' = "GUARD_FAILED"
    /\ UNCHANGED <<case, machine, verdicts, owner, credit, sess, sink, watch, told>>

\* load_pure and the GUARD line.
Load ==
    /\ pc = "load"
    /\ \/ Go("init")
       \/ \E retain \in BOOLEAN : Abort(retain)   \* LOAD refused; or the line not written
    /\ UNCHANGED <<case, machine, verdicts, owner, credit, sess, sink, watch, told, result>>

ReadInit ==
    /\ pc = "init"
    /\ \/ \E p \in Packets : IF DecodeInit(p) THEN Go("ledger") ELSE Abort(FALSE)
       \/ Abort(FALSE)   \* EOF, or after the deadline
    /\ UNCHANGED <<case, machine, verdicts, owner, credit, sess, sink, watch, told, result>>

\* capture, open_ledger (which publishes generation 1), INIT_OK.
OpenLedger ==
    /\ pc = "ledger"
    /\ \/ Go("open") /\ case' = 1
       \/ \E retain \in BOOLEAN : Abort(retain) /\ UNCHANGED case
    /\ UNCHANGED <<machine, verdicts, owner, credit, sess, sink, watch, told, result>>

-----------------------------------------------------------------------------
(* Sessions.                                                               *)

\* t4 publishes generation 2 over generation 1 before it opens its session.
Publish ==
    /\ pc = "publish"
    /\ \/ Go("open")
       \/ \E retain \in BOOLEAN : Abort(retain)
    /\ UNCHANGED <<case, machine, verdicts, owner, credit, sess, sink, watch, told, result>>

\* A session identifier that is not fresh, or a reservation refused: nothing is owned yet.
OpenSession ==
    /\ pc = "open"
    /\ \/ Go("create") /\ credit' = "held"
       \/ \E retain \in BOOLEAN : Abort(retain) /\ UNCHANGED credit
    /\ UNCHANGED <<case, machine, verdicts, owner, sess, sink, watch, told, result>>

\* The factory; without a session its token is retained in the ledger.
CreateSession ==
    /\ pc = "create"
    /\ \/ sess' = "NEW" /\ Go("opening") /\ UNCHANGED credit
       \/ UNCHANGED sess /\ credit' = "retained" /\ Abort(TRUE)
    /\ UNCHANGED <<case, machine, verdicts, owner, sink, watch, told, result>>

\* session.open(): what it leaves when it fails.
SessionOpens ==
    /\ pc = "opening"
    /\ \/ sess' = "READY" /\ Go("ready") /\ UNCHANGED credit
       \/ sess' \in {"NEW", "HELD", "STARTING"} /\ Go("open_failed") /\ UNCHANGED credit
       \/ sess' = "CLOSED" /\ credit' = "none" /\ Go("open_failed")
    /\ UNCHANGED <<case, machine, verdicts, owner, sink, watch, told, result>>

\* close(): released, or held with its credits.
Released == sess' = "none" /\ credit' = "none"
KeptOpen == sess' = "HELD" /\ UNCHANGED credit

OpenFailed ==
    /\ pc = "open_failed"
    /\ \/ sess = "NEW" /\ credit' = "retained" /\ Abort(TRUE) /\ UNCHANGED sess
       \/ sess = "HELD" /\ ((Released /\ Abort(FALSE)) \/ (KeptOpen /\ Abort(TRUE)))
       \/ sess = "CLOSED" /\ sess' = "none" /\ Abort(FALSE) /\ UNCHANGED credit
       \/ sess = "STARTING" /\ Abort(TRUE) /\ UNCHANGED <<sess, credit>>
    /\ UNCHANGED <<case, machine, verdicts, owner, sink, watch, told, result>>

CloseSession ==
    /\ pc = "close"
    /\ \/ Released /\ Go(CASE case \in 1..Jobs -> "next" [] case = T(6) -> "unkilled" [] OTHER -> "result")
       \/ KeptOpen /\ Abort(TRUE)
    /\ UNCHANGED <<case, machine, verdicts, owner, sink, watch, told, result>>

-----------------------------------------------------------------------------
(* One case: READY, GO, the query, its answer, RESULT, ACK.                *)

Say(event, then) ==
    /\ machine' = Emit(machine, event, case)
    /\ IF machine'.aborted THEN Abort(FALSE) ELSE Go(then) \/ Abort(TRUE)

Ready ==
    /\ pc = "ready" /\ Say("READY", "go")
    /\ UNCHANGED <<case, verdicts, owner, credit, sess, sink, watch, told, result>>

\* accept(): a frame in time, or none (EOF, the cap, or the idle window of the session).
AcceptGo ==
    /\ pc = "go"
    /\ \/ \E f \in Offered(machine, GO) :
             /\ machine' = Accept(machine, f)
             /\ IF machine'.aborted THEN Abort(FALSE)
                ELSE Go(IF case = T(5) THEN "result" ELSE IF case \in {T(4), T(6)} THEN "arm" ELSE "query")
       \/ Abort(FALSE) /\ UNCHANGED machine
    /\ UNCHANGED <<case, verdicts, owner, credit, sess, sink, watch, told, result>>

\* The answer is what the case expects, or something else.
ExpectedError == case \in ErrorJobs
PersistentQuery ==
    /\ pc = "query" /\ case \in 1..Jobs
    /\ \/ Go(IF ExpectedError THEN "result" ELSE "pair")
       \/ Abort(FALSE)
    /\ UNCHANGED <<case, machine, verdicts, owner, credit, sess, sink, watch, told, result>>

\* T1 to T3: the session must die of the query (fatal_reason), and is closed either way.
FatalQuery ==
    /\ pc = "query" /\ case \in T(1)..T(3)
    /\ sess' \in {"READY", "HELD"}
    /\ Go("close") \/ Abort(FALSE)
    /\ UNCHANGED <<case, machine, verdicts, owner, credit, sink, watch, told, result>>

ResultVerdict == CASE case = T(4) -> IF watch.applied THEN "PASS" ELSE "FAIL"
                   [] case = T(5) -> "FAIL"
                   [] OTHER -> "PASS"

\* result(): the machine first, then the line; the verdict is kept once it is written.
SendResult ==
    /\ pc = "result"
    /\ machine' = Emit(machine, "RESULT", case)
    /\ IF machine'.aborted THEN Abort(FALSE) /\ UNCHANGED <<verdicts, told>>
       ELSE \/ /\ Go("ack")
               /\ verdicts' = [verdicts EXCEPT ![case] = ResultVerdict]
               /\ told' = [told EXCEPT !.results[case] = ResultVerdict]
            \/ Abort(TRUE) /\ UNCHANGED <<verdicts, told>>
    /\ UNCHANGED <<case, owner, credit, sess, sink, watch, result>>

AcceptAck ==
    /\ pc = "ack"
    /\ \/ \E f \in Offered(machine, ACK) :
             /\ machine' = Accept(machine, f)
             /\ IF machine'.aborted THEN Abort(FALSE)
                ELSE Go(IF case = Jobs THEN "close" ELSE IF case = T(5) THEN "summary" ELSE "next")
       \/ Abort(FALSE) /\ UNCHANGED machine
    /\ UNCHANGED <<case, verdicts, owner, credit, sess, sink, watch, told, result>>

\* persistent() keeps its session; every other case opens its own; T5 has none.
NextCase ==
    /\ pc = "next"
    /\ case' = case + 1
    /\ watch' = NoWatch
    /\ Go(CASE case + 1 \in 2..Jobs \cup {T(5)} -> "ready" [] case + 1 = T(4) -> "publish" [] OTHER -> "open")
    /\ UNCHANGED <<machine, verdicts, owner, credit, sess, sink, told, result>>

-----------------------------------------------------------------------------
(* deliver(): a pair of endpoints, a sink thread, the send, the join.      *)

CreatePair ==
    /\ pc = "pair"
    /\ \/ owner' = [owner EXCEPT !.ends = {"writer", "reader"}] /\ Go("sink_thread")
       \/ owner' = [owner EXCEPT !.unknown = @ \cup {"pair"}] /\ Abort(TRUE)
    /\ UNCHANGED <<case, machine, verdicts, credit, sess, sink, watch, told, result>>

\* owned_thread(): registered before it is started.
StartSink ==
    /\ pc = "sink_thread"
    /\ \/ /\ owner' = [owner EXCEPT !.unknown = @ \cup {"sink"}]
          /\ Abort(TRUE) /\ UNCHANGED sink
       \/ /\ owner' = [owner EXCEPT !.threads = @ \cup {"sink"}]
          /\ sink' \in {[Idle EXCEPT !.at = "run"], Idle} /\ Abort(TRUE)
       \/ /\ owner' = [owner EXCEPT !.threads = @ \cup {"sink"}]
          /\ sink' = [Idle EXCEPT !.at = "run"] /\ Go("send")
    /\ UNCHANGED <<case, machine, verdicts, credit, sess, watch, told, result>>

\* sink_drain(), one read at a time: data, the end, or a failure.
SinkRead ==
    /\ sink.at = "run"
    /\ LET limit == IF SinkChunk < SinkCap + 1 - sink.count THEN SinkChunk ELSE SinkCap + 1 - sink.count
           ends(status, n) == sink' = [sink EXCEPT !.at = "done", !.status = status, !.count = n]
       IN  \/ ends("TIMEOUT", sink.count) \/ ends("NO_EOF", sink.count) \/ ends("IO", sink.count)
           \/ /\ pc \notin {"send"}   \* the end comes after shutdown_write or a lost writer
              /\ ends(IF sink.count = SinkCap /\ sink.same THEN "OK" ELSE "MISMATCH", sink.count)
           \/ \E n \in 1..limit, same \in BOOLEAN :
                 IF sink.count + n > SinkCap THEN ends("OVERRUN", SinkCap + 1)
                 ELSE sink' = [sink EXCEPT !.count = @ + n, !.same = @ /\ same]
    /\ UNCHANGED <<pc, stop, case, machine, verdicts, owner, credit, sess, watch, told, result>>

\* send_result_to, then shutdown_write whatever the send did.
SendAndShut ==
    /\ pc = "send"
    /\ \/ pc' \in {"join_sent", "join_unsent"} /\ UNCHANGED stop
       \/ Abort(TRUE)
    /\ UNCHANGED <<case, machine, verdicts, owner, credit, sess, sink, watch, told, result>>

\* joined(): a handle leaves the owner only when its thread has ended.
JoinSink ==
    /\ pc \in {"join_sent", "join_unsent"}
    /\ \/ Abort(TRUE) /\ UNCHANGED owner
       \/ /\ sink.at = "done"
          /\ owner' = [owner EXCEPT !.threads = @ \ {"sink"}]
          /\ Go(IF pc = "join_sent" THEN "ends_sent" ELSE "ends_failed")
       \/ /\ sink.at = "done"   \* after the deadline
          /\ owner' = [owner EXCEPT !.threads = @ \ {"sink"}]
          /\ Go("ends_failed")
    /\ UNCHANGED <<case, machine, verdicts, credit, sess, sink, watch, told, result>>

CloseEndpoints ==
    /\ pc \in {"ends_sent", "ends_failed"}
    /\ \/ /\ owner.ends # {}
          /\ LET e == IF "writer" \in owner.ends THEN "writer" ELSE "reader"
             IN  \/ owner' = [owner EXCEPT !.ends = @ \ {e}] /\ Go(pc)
                 \/ Abort(TRUE) /\ UNCHANGED owner
       \/ /\ owner.ends = {} /\ UNCHANGED owner
          /\ IF pc = "ends_failed" THEN Abort(FALSE) ELSE Go("expect")
    /\ UNCHANGED <<case, machine, verdicts, credit, sess, sink, watch, told, result>>

\* expect_result(): the sink matched, and so did rows and truncation.
ExpectResult ==
    /\ pc = "expect"
    /\ IF sink.status = "OK" THEN Go("result") \/ Abort(FALSE) ELSE Abort(FALSE)
    /\ sink' = Idle
    /\ UNCHANGED <<case, machine, verdicts, owner, credit, sess, watch, told, result>>

-----------------------------------------------------------------------------
(* T4: the watcher takes the host's frame while the query runs.            *)

\* machine.emit and handoff come before the watcher exists and before ARMED is told.
Arm ==
    /\ pc = "arm" /\ case = T(4)
    /\ machine' = Handoff(Emit(machine, "ARMED", case))
    /\ IF machine'.aborted THEN Abort(FALSE) /\ UNCHANGED <<owner, watch>>
       ELSE \/ owner' = [owner EXCEPT !.unknown = @ \cup {"watcher"}] /\ Abort(TRUE) /\ UNCHANGED watch
            \/ /\ owner' = [owner EXCEPT !.threads = @ \cup {"watcher"}]
               /\ \/ watch' \in {NoWatch, [NoWatch EXCEPT !.at = "read"]} /\ Abort(TRUE)
                  \/ watch' = [NoWatch EXCEPT !.at = "read"] /\ Go("armed")
    /\ UNCHANGED <<case, verdicts, credit, sess, sink, told, result>>

TellArmed ==
    /\ pc = "armed"
    /\ Go("activate") \/ Abort(TRUE)
    /\ UNCHANGED <<case, machine, verdicts, owner, credit, sess, sink, watch, told, result>>

Activate ==
    /\ pc = "activate" /\ Go("heavy")
    /\ watch' = [watch EXCEPT !.active = TRUE]
    /\ UNCHANGED <<case, machine, verdicts, owner, credit, sess, sink, told, result>>

\* The heavy query ends: stopped, timed out, or answered.
HeavyQuery ==
    /\ pc = "heavy" /\ sess' \in {"READY", "HELD"} /\ Go("deactivate")
    /\ UNCHANGED <<case, machine, verdicts, owner, credit, sink, watch, told, result>>

Deactivate ==
    /\ pc = "deactivate" /\ Go("join_watch")
    /\ watch' = [watch EXCEPT !.active = FALSE]
    /\ UNCHANGED <<case, machine, verdicts, owner, credit, sess, sink, told, result>>

\* watch_once(): one frame or none; a stop is applied only to the call that is running.
WatcherReads ==
    /\ watch.at = "read"
    /\ \/ \E f \in Offered(machine, STOP) : watch' = [watch EXCEPT !.at = "apply", !.frame = f]
       \/ watch' = [watch EXCEPT !.at = "done"]
    /\ UNCHANGED <<pc, stop, case, machine, verdicts, owner, credit, sess, sink, told, result>>

\* Faulty variant of ApplyStop: the stop is applied whether the call is active or not.
ApplyStopAnyway(w) == [w EXCEPT !.applied = TRUE, !.stray = pc \notin {"heavy", "deactivate"}]

\* CallState.apply: under its lock, only while active.  stray: a stop outside that window.
ApplyStop(w) ==
    IF w.active THEN [w EXCEPT !.applied = TRUE, !.stray = pc \notin {"heavy", "deactivate"}] ELSE w

\* request_stop may raise, and the thread then ends with nothing in its box.
WatcherApplies ==
    /\ watch.at = "apply"
    /\ LET mine == watch.frame = [kind |-> STOP, case |-> T(4), seq |-> NextSeq(machine)]
       IN  \/ watch' = [(IF mine THEN ApplyStop(watch) ELSE watch) EXCEPT !.at = "done"]
           \/ /\ mine /\ watch.active
              /\ watch' = [watch EXCEPT !.at = "done", !.frame = NoFrame]
    /\ UNCHANGED <<pc, stop, case, machine, verdicts, owner, credit, sess, sink, told, result>>

JoinWatcher ==
    /\ pc = "join_watch"
    /\ \/ Abort(TRUE) /\ UNCHANGED <<owner, machine>>
       \/ /\ watch.at = "done"
          /\ owner' = [owner EXCEPT !.threads = @ \ {"watcher"}]
          /\ \/ Abort(FALSE) /\ UNCHANGED machine   \* joined late: nothing is committed
             \/ /\ machine' = Join(machine, watch.frame)
                /\ IF machine'.aborted THEN Abort(FALSE) ELSE Go("close") \/ Abort(FALSE)
    /\ UNCHANGED <<case, verdicts, credit, sess, sink, watch, told, result>>

-----------------------------------------------------------------------------
(* The summary, T6 and the ends of a run.                                  *)

Summary ==
    /\ pc = "summary"
    /\ machine' = Summarise(machine)
    /\ IF machine'.aborted THEN Abort(FALSE) /\ UNCHANGED <<case, told>>
       ELSE \/ /\ Go("open") /\ case' = T(6)
               /\ told' = [told EXCEPT !.failed = machine.failed
                              \cup {c \in 1..T(5) : verdicts[c] = "FAIL"}]
            \/ Abort(TRUE) /\ UNCHANGED <<case, told>>
    /\ UNCHANGED <<verdicts, owner, credit, sess, sink, watch, result>>

\* ARMED for T6, unless what is left of the live window is too short.
ArmT6 ==
    /\ pc = "arm" /\ case = T(6)
    /\ machine' = Emit(machine, "ARMED", case)
    /\ IF machine'.aborted THEN Abort(FALSE) ELSE Go("live") \/ Abort(FALSE) \/ Abort(TRUE)
    /\ UNCHANGED <<case, verdicts, owner, credit, sess, sink, watch, told, result>>

\* The host kills the process in the live window; a frame or an early end is refused.
LiveWindow ==
    /\ pc = "live"
    /\ \/ Go("killed") /\ UNCHANGED verdicts
       \/ Abort(FALSE) /\ UNCHANGED verdicts
       \/ Go("close") /\ verdicts' = [verdicts EXCEPT ![case] = "FAIL"]
    /\ UNCHANGED <<case, machine, owner, credit, sess, sink, watch, told, result>>

Unkilled ==
    /\ pc = "unkilled" /\ Go("ended") /\ result' = "T6_UNKILLED"
    /\ \/ told' = [told EXCEPT !.outcome = "T6_UNKILLED"]
       \/ UNCHANGED told
    /\ UNCHANGED <<case, machine, verdicts, owner, credit, sess, sink, watch>>

Uncertain == owner.threads # {} \/ owner.ends # {} \/ owner.unknown # {}

\* abort(): retain what is uncertain; otherwise close the session that is left.
\* A line whose write raises is uncertain as well; what write() answers is not
\* looked at, so the line may not have arrived although the run counts as aborted.
AbortRun ==
    /\ pc = "abort" /\ Go("ended")
    /\ verdicts' = [c \in 1..Cases |-> IF c = stop.case THEN "FAIL" ELSE verdicts[c]]
    /\ \E closed, raised, arrived, last \in BOOLEAN :
         LET keep == stop.retain \/ Uncertain \/ sess = "NEW"
             close == ~keep /\ sess # "none"
             retained == keep \/ (close /\ ~closed)
             outcome == IF retained \/ raised THEN "RETAINED" ELSE "ABORTED"
         IN  /\ IF close THEN (IF closed THEN Released ELSE KeptOpen) ELSE UNCHANGED <<sess, credit>>
             /\ told' = [told EXCEPT
                           !.abort = IF ~arrived THEN @ ELSE IF retained THEN "retained" ELSE "clean",
                           !.outcome = IF last THEN outcome ELSE @]
             /\ result' = outcome
    /\ UNCHANGED <<case, machine, owner, sink, watch>>

Next ==
    \/ Protect \/ Load \/ ReadInit \/ OpenLedger \/ Publish \/ OpenSession \/ CreateSession
    \/ SessionOpens \/ OpenFailed \/ CloseSession \/ Ready \/ AcceptGo \/ PersistentQuery
    \/ FatalQuery \/ SendResult \/ AcceptAck \/ NextCase \/ CreatePair \/ StartSink \/ SinkRead
    \/ SendAndShut \/ JoinSink \/ CloseEndpoints \/ ExpectResult \/ Arm \/ TellArmed \/ Activate
    \/ HeavyQuery \/ Deactivate \/ WatcherReads \/ WatcherApplies \/ JoinWatcher \/ Summary
    \/ ArmT6 \/ LiveWindow \/ Unkilled \/ AbortRun

Spec == Init /\ [][Next]_vars

-----------------------------------------------------------------------------
(* Properties.                                                             *)

\* A run that ends without RETAINED leaves nothing behind: no thread of the driver
\* lives, no endpoint is open, no session holds credits (abort, joined,
\* close_endpoints, close_session, open_failed); and the host is never told
\* that a run was clean when it was not.
NothingDropped ==
    /\ result \in {"ABORTED", "T6_UNKILLED"} =>
          /\ sess = "none" /\ credit = "none" /\ owner.ends = {}
          /\ sink.at # "run" /\ watch.at \notin {"read", "apply"}
    /\ told.abort = "clean" => sess = "none" /\ credit = "none" /\ ~Uncertain
    /\ told.outcome \in {"none", result}

\* A PASS of T4 means that the host's STOP reached the session between the
\* start of its query and the moment its end is noted,
\* and that the machine committed that very frame; no stop is applied outside the
\* query (CallState, watch_once, ControlMachine.join); verdicts come in the order of
\* the cases, and the summary names every case that failed.
StopIsReal ==
    /\ ~watch.stray
    /\ case = T(4) /\ verdicts[T(4)] = "PASS" =>
          watch.applied /\ watch.frame.kind = STOP /\ machine.failed = {}
    /\ \A c \in 1..Cases : verdicts[c] # "NOT_RUN" =>
          \A b \in 1..c - 1 : verdicts[b] # "NOT_RUN"
    /\ case = T(6) => told.failed = {c \in 1..T(5) : verdicts[c] = "FAIL"}
    /\ \A c \in 1..Cases : told.results[c] \notin {"none", verdicts[c]} => c = stop.case /\ result # "none"

\* The driver is sound: nothing is dropped at the end of a run, and a stop that
\* counts as passed was a real one.
DriverSound == NothingDropped /\ StopIsReal
=============================================================================
