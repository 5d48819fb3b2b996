----------------------------- MODULE NativeControl -----------------------------
(***************************************************************************)
(* The owner of one Windows job and its child process:                     *)
(* docs/poc/pg16_shell_admission_win32.py (Owner) and, for the kind        *)
(* "nested", the second job of pg16_shell_native_control_win32.py          *)
(* (NestedJobOwner).  Every native call succeeds, fails or raises; an      *)
(* operation is a sequence of calls and may be interrupted between them.   *)
(* The kernel keeps what really exists: handles, processes, output.        *)
(*                                                                         *)
(* The programs that run a child under such an owner: the admission caller *)
(* docs/poc/pg16_shell_admission_host.py (one case) and the control runner *)
(* pg16_shell_native_control.py (NORMAL, TERMINATE, LAST_CLOSE) behind its *)
(* entry pg16_shell_native_control_entry.py.  Owners that were not proven  *)
(* closed stay in the registry _LIVE, and the entry then parks for ever.   *)
(* An interruption may arrive at any moment; clock readings may be late or *)
(* broken; every file operation may fail.                                  *)
(***************************************************************************)
EXTENDS Naturals, Sequences, FiniteSets, TLC

CONSTANTS
  MaxSpawns,      \* how many further processes the child's tree starts
  Programs,       \* subset of {"admission", "control"}
  MaxInterrupts   \* console interruptions during one run

VARIABLES
  o,      \* the fields of the owner, and the operation it is in
  k       \* the kernel: processes of the job, open handles, the child's output

Child == 1
ActiveProcessLimit == 2
Stdio == {"stdin", "stderr", "stdout_write"}

NewOwner(kind) ==
  [kind |-> kind, state |-> "NEW", ledger |-> {}, created |-> FALSE, attempted |-> FALSE,
   attributes |-> FALSE, signaled |-> FALSE, eof |-> FALSE, quarantine |-> FALSE,
   innerClosed |-> FALSE, op |-> "none", at |-> 0, ret |-> "none"]
NewKernel ==
  [alive |-> {}, total |-> 0, suspended |-> FALSE, holders |-> {}, handles |-> {},
   out |-> "none", code |-> 0, endedBy |-> "none", terminations |-> 0]

Quarantined(x) == [x EXCEPT !.quarantine = TRUE]
Fail(x, s) == [x EXCEPT !.state = s, !.op = "none", !.ret = "error"]
Hold(x) == Fail(x, "HELD")
Refuse(x) == [x EXCEPT !.op = "none", !.ret = "error"]
Return(x, s) == [x EXCEPT !.state = s, !.op = "none", !.ret = "ok"]
\* An operation begins: its state is set before the first call.
Begin(x, op, s) == [x EXCEPT !.op = op, !.at = 1, !.state = s, !.ret = "none"]
Further(x) == [x EXCEPT !.at = @ + 1]

\* What a successful TerminateJobObject, or the close of a job, does.
Killed(y, how) ==
  [y EXCEPT !.alive = {}, !.holders = {}, !.suspended = FALSE,
            !.code = IF Child \in y.alive THEN 1 ELSE @,
            !.endedBy = IF y.alive # {} THEN how ELSE @]
Terminated(y) == [Killed(y, "terminate") EXCEPT !.terminations = @ + 1]
\* A terminate whose result nobody looks at.
Contained(y) == IF "job" \in o.ledger THEN {Terminated(y), y} ELSE {y}

---------------------------------------------------------------------------
(* setup: one call after the other, each handle in the ledger at once *)

SetupCalls(kind) ==
  <<"load", "job", "limits", "stdin", "stderr", "pipe", "inherit">> \o
  (IF kind = "nested" THEN <<"inner", "inner-limits">> ELSE <<>>)
InSetup(calls) == /\ o.op = "setup" /\ o.at <= Len(SetupCalls(o.kind))
                  /\ SetupCalls(o.kind)[o.at] \in calls

Setup == /\ o.state = "NEW" /\ o' = Begin(o, "setup", "SETUP") /\ UNCHANGED k
\* A call that creates the handles hs: made, refused, or raised / an alias of
\* an owned handle, and then nothing is known of what it did.
Creating(hs) ==
  \/ /\ o' = Further([o EXCEPT !.ledger = @ \cup hs])
     /\ k' = [k EXCEPT !.handles = @ \cup hs]
  \/ o' = Fail(o, "SETUP_FAILED") /\ UNCHANGED k
  \/ o' = Hold(Quarantined(o)) /\ k' \in {k, [k EXCEPT !.handles = @ \cup hs]}
Checking == o' \in {Further(o), Fail(o, "SETUP_FAILED")} /\ UNCHANGED k
LoadApi == InSetup({"load"}) /\ Checking
CreateJob == InSetup({"job"}) /\ Creating({"job"})
SetLimits == InSetup({"limits"}) /\ Checking
OpenNul == \E n \in {"stdin", "stderr"} : InSetup({n}) /\ Creating({n})
CreatePipe == InSetup({"pipe"}) /\ Creating({"stdout_read", "stdout_write"})
CheckInheritance == InSetup({"inherit"}) /\ Checking
CreateInner == InSetup({"inner"}) /\ Creating({"inner"})
InnerLimits == InSetup({"inner-limits"}) /\ Checking
SetupStep ==
  \/ LoadApi \/ CreateJob \/ SetLimits \/ OpenNul \/ CreatePipe \/ CheckInheritance
  \/ CreateInner \/ InnerLimits
SetupEnds ==
  /\ o.op = "setup" /\ o.at > Len(SetupCalls(o.kind)) /\ o' = Return(o, "READY") /\ UNCHANGED k

---------------------------------------------------------------------------
(* start: the child is created suspended in the job, checked and resumed *)

StartCalls == <<"attributes", "update", "create", "stdin", "stderr", "stdout_write",
                "member", "config", "tree", "resume">>
Start == /\ o.state = "READY" /\ o' = Begin(o, "start", "STARTING") /\ UNCHANGED k

Dropped(x) == {[x EXCEPT !.attributes = FALSE], x}      \* _delete_attributes
Born(y) == [y EXCEPT !.alive = {Child}, !.total = 1, !.suspended = TRUE, !.holders = {Child},
                     !.handles = @ \cup {"process", "thread"}]
\* CreateProcessW, by what it answers and what it really did.
CreateGood ==
  /\ k' = Born(k)
  /\ \E x \in Dropped([o EXCEPT !.attempted = TRUE, !.created = TRUE,
                                !.ledger = @ \cup {"process", "thread"}]) :
       o' = IF x.attributes THEN [x EXCEPT !.op = "abort-process-held"] ELSE Further(x)
\* Raised, or said yes with outputs that cannot be: nothing of it is adopted.
CreateUncertain ==
  \E y \in {k, Born(k)}, x \in Dropped([o EXCEPT !.attempted = TRUE]) :
    /\ k' \in Contained(y) /\ o' = Hold(Quarantined(x))
CreateRefused ==
  \E x \in Dropped([o EXCEPT !.attempted = TRUE]) :
    \/ /\ k' \in Contained(k) /\ o' = Hold(x)        \* the job's counts do not say zero
    \/ /\ UNCHANGED k /\ o' = IF x.attributes THEN Hold(x) ELSE Fail(x, "LAUNCH_FAILED")
InStart(call) == o.op = "start" /\ StartCalls[o.at] = call
OpenAttributes ==
  /\ InStart("attributes") /\ UNCHANGED k
  /\ o' \in {Further([o EXCEPT !.attributes = TRUE]), Fail(o, "LAUNCH_FAILED")}
\* The job list (both jobs, for the nested kind) and the three handles.
UpdateAttributes ==
  /\ InStart("update") /\ UNCHANGED k
  /\ \/ o' = Further(o)
     \/ \E x \in Dropped(o) : o' = IF x.attributes THEN Hold(x) ELSE Fail(x, "LAUNCH_FAILED")
CreateProcess == InStart("create") /\ (CreateGood \/ CreateUncertain \/ CreateRefused)
CloseStdio ==
  \E h \in Stdio :
    /\ InStart(h)
    /\ \/ o' = Further([o EXCEPT !.ledger = @ \ {h}]) /\ k' = [k EXCEPT !.handles = @ \ {h}]
       \/ o' = [o EXCEPT !.op = "abort-process-held"] /\ UNCHANGED k
CheckMember ==
  InStart("member") /\ UNCHANGED k /\ o' \in {Further(o), [o EXCEPT !.op = "abort-process"]}
CheckConfig ==
  InStart("config") /\ UNCHANGED k /\ o' \in {Further(o), [o EXCEPT !.op = "abort-job"]}
CheckTree ==
  InStart("tree") /\ UNCHANGED k /\ o' \in {Further(o), [o EXCEPT !.op = "abort-job"]}
\* The nested kind first verifies the inner job; nothing runs if it cannot.
Resume ==
  /\ InStart("resume")
  /\ \/ o' = Return(o, "RUNNING") /\ k' = [k EXCEPT !.suspended = FALSE]
     \/ o' = [o EXCEPT !.op = "abort-job"] /\ UNCHANGED k
StartStep ==
  \/ OpenAttributes \/ UpdateAttributes \/ CreateProcess \/ CloseStdio \/ CheckMember
  \/ CheckConfig \/ CheckTree \/ Resume
\* _abort: ended by the proven handle, waited for and, in the job, counted.
Abort ==
  /\ o.op \in {"abort-process", "abort-process-held", "abort-job"}
  /\ \/ o' = Hold(o) /\ UNCHANGED k                             \* the terminate failed
     \/ /\ k' = Terminated(k)
        /\ \/ o' = Hold(o)                                      \* the wait or the counts did
           \/ LET x == [o EXCEPT !.signaled = TRUE] IN
              o' = IF o.op = "abort-process-held" THEN Hold(x) ELSE Fail(x, "LAUNCH_FAILED")

---------------------------------------------------------------------------
(* The primitives of supervision: each a single call *)

Running == o.state = "RUNNING" /\ o.op = "none"
Breaks(x) == [x EXCEPT !.state = "HELD"]
AtEof == k.holders = {} /\ "stdout_write" \notin k.handles /\ k.out = "none"
TooMany == k.total > ActiveProcessLimit

---------------------------------------------------------------------------
(* close: proof of an empty tree first, then handle after handle *)

CloseOrder(kind) ==
  (IF kind = "nested" THEN <<"inner">> ELSE <<>>) \o
  <<"thread", "process", "stdout_read", "stdin", "stderr", "stdout_write", "job">>
Closable == o.state \in {"SETUP_FAILED", "READY", "LAUNCH_FAILED", "RUNNING"}
Quiescent == k.alive = {}
AtEnd == k.out = "none" /\ k.holders = {}
CloseBegins ==
  /\ Closable /\ o.op = "none"
  /\ \/ /\ ~o.created /\ UNCHANGED k
        /\ o' \in {Begin(o, "close", o.state)} \cup
                  (IF o.kind = "nested" /\ o.attempted THEN {Hold(o)} ELSE {})
     \/ o.created /\ o' = Hold(o) /\ UNCHANGED k               \* the wait or the counts failed
     \/ /\ o.created
        /\ k' = IF Quiescent THEN [k EXCEPT !.handles = @ \ Stdio] ELSE k
        /\ LET x == IF Quiescent THEN [o EXCEPT !.ledger = @ \ Stdio] ELSE o IN
             o' = IF Quiescent /\ AtEnd THEN Begin([x EXCEPT !.eof = TRUE], "close", o.state) ELSE Refuse(x)
CloseStep ==
  /\ o.op = "close"
  /\ IF o.at > Len(CloseOrder(o.kind)) THEN o' = Return(o, "CLOSED") /\ UNCHANGED k
     ELSE LET h == CloseOrder(o.kind)[o.at] IN
       \/ /\ o' = Further([o EXCEPT !.ledger = @ \ {h}])
          /\ k' = LET y == [k EXCEPT !.handles = @ \ {h}] IN
                  IF h \in {"job", "inner"} /\ h \in k.handles /\ k.alive # {}
                  THEN Killed(y, "close") ELSE y
       \/ h \in o.ledger /\ o' = Hold(o) /\ UNCHANGED k
\* close_inner: the second job's only handle, on purpose, over a running tree.
CloseInner ==
  /\ Running /\ "inner" \in o.ledger
  /\ \/ /\ o' = [o EXCEPT !.ledger = @ \ {"inner"}, !.innerClosed = TRUE, !.ret = "ok"]
        /\ k' = Killed([k EXCEPT !.handles = @ \ {"inner"}], "close")
     \/ /\ o' = Hold(o) /\ k' \in Contained(k)

---------------------------------------------------------------------------
(* What breaks off an operation *)

Guarded == o.op \in {"setup", "start", "abort-process", "abort-process-held", "abort-job"}
           \/ (o.op = "close" /\ o.kind = "nested" /\ o.at = 1)
\* _guarded: an unexpected failure holds the owner; what was created is ended.
Internal ==
  /\ Guarded
  /\ o' = Hold([Quarantined(o) EXCEPT !.attributes = FALSE])
  /\ IF o.attempted THEN k' \in Contained(k) ELSE UNCHANGED k
\* _interrupt; a close outside the guard keeps its state and what it closed.
Interrupted ==
  IF Guarded
  THEN /\ o' = Hold(Quarantined(o))
       /\ IF o.attempted THEN k' \in Contained(k) ELSE UNCHANGED k
  ELSE /\ o' = [o EXCEPT !.op = "none", !.ret = "error"] /\ UNCHANGED k

---------------------------------------------------------------------------
(* The child's tree *)

TreeRuns == k.alive # {} /\ ~k.suspended
TreeStep ==
  /\ TreeRuns /\ UNCHANGED o
  /\ \/ /\ k.total <= MaxSpawns /\ Cardinality(k.alive) < ActiveProcessLimit
        /\ k' = [k EXCEPT !.alive = @ \cup {k.total + 1}, !.total = @ + 1,
                          !.holders = @ \cup {k.total + 1}]
     \/ /\ k.out = "none" /\ k.holders # {}
        /\ \E chunk \in {"line", "junk", "flood"} : k' = [k EXCEPT !.out = chunk]
     \/ \E p \in k.holders \ {Child} : k' = [k EXCEPT !.holders = @ \ {p}]
     \/ \E p \in k.alive : \E c \in {0, 1} :
          k' = [k EXCEPT !.alive = @ \ {p}, !.holders = @ \ {p},
                         !.code = IF p = Child THEN c ELSE @,
                         !.endedBy = IF k.alive = {p} THEN "exit" ELSE @]

---------------------------------------------------------------------------
(* The programs *)

VARIABLES
  c,      \* the program: its registry, the case and its facts
  disk,   \* the private directory and the published one
  e       \* the entry's progress

vars == <<o, k, c, disk, e>>

CaseNames(prog) == IF prog = "control" THEN <<"NORMAL", "TERMINATE", "LAST_CLOSE">> ELSE <<"PROBE">>
Name == CaseNames(c.prog)[c.n]
OwnerKind(name) == IF name = "LAST_CLOSE" THEN "nested" ELSE "plain"
NoFacts ==
  [reason |-> "none", held |-> "none", terminated |-> FALSE, overflow |-> FALSE, signaled |-> FALSE,
   eof |-> FALSE, exit |-> "none", total |-> 0, retained |-> "none"]

Init ==
  /\ o = NewOwner("plain") /\ k = NewKernel
  /\ c \in [prog : Programs, pc : {"idle"}, n : {1}, facts : {NoFacts}, ready : {FALSE},
            contained : {FALSE}, clock : {"ok"}, live : {{}}, records : {<<>>},
            result : {"none"}, after : {"none"}, hits : {0}]
  /\ disk = [private |-> FALSE, public |-> "none", outcome |-> "none"]
  /\ e = [pc |-> IF c.prog = "control" THEN "drive" ELSE "none", entered |-> FALSE,
          uncertain |-> FALSE, loaded |-> FALSE, registry |-> "none", armed |-> FALSE,
          attempted |-> FALSE, refusal |-> FALSE, fault |-> FALSE, outcome |-> "none",
          decision |-> <<"none">>, parked |-> FALSE, announced |-> FALSE, code |-> 9]

At(pc) == c.pc = pc /\ o.op = "none"
Goes(pc) == c' = [c EXCEPT !.pc = pc]
Done(x, result) == [x EXCEPT !.pc = "over", !.result = result, !.facts = NoFacts, !.ready = FALSE,
                             !.clock = "ok", !.after = "none"]
Ends(result) == c' = Done(c, result)
\* _Clock.now: what is late stays late, what is broken stays broken.
Reading ==
  CASE c.clock = "ok" -> {"ok", "late", "broken"} [] c.clock = "late" -> {"late", "broken"}
    [] OTHER -> {"broken"}
ClockReason(r) == IF r = "broken" THEN "CALLER_CLOCK" ELSE "DEADLINE"
First(f, reason) == [f EXCEPT !.reason = IF @ = "none" THEN reason ELSE @]

---------------------------------------------------------------------------
(* run: what is checked, consumed and made durable before a launch *)

\* A run begins only with an empty registry and an unused nonce.
Run ==
  /\ At("idle") /\ (c.prog = "control" => e.pc = "running")
  /\ IF c.live # {} THEN Ends("RETAINED") /\ UNCHANGED disk
     ELSE \/ Ends("OTHER") /\ UNCHANGED disk
          \/ ~disk.private /\ disk' = [disk EXCEPT !.private = TRUE] /\ Goes("case")
  /\ UNCHANGED <<o, k, e>>
SkipCase ==
  /\ At("case") /\ c.n > 1 /\ c.records[c.n - 1].outcome # "APPROVED"
  /\ c' = [c EXCEPT !.records = Append(@, [outcome |-> "NOT_RUN"]),
                    !.n = @ + 1, !.pc = IF c.n = Len(CaseNames(c.prog)) THEN "publish" ELSE "case"]
  /\ UNCHANGED <<o, k, disk, e>>
\* The owner is registered before its first call.
CaseBegins ==
  /\ At("case") /\ (c.n > 1 => c.records[c.n - 1].outcome = "APPROVED")
  /\ \/ Ends("OTHER") /\ UNCHANGED <<o, k>>
     \/ /\ o' = NewOwner(OwnerKind(Name)) /\ k' = NewKernel
        /\ c' = [c EXCEPT !.pc = "setup", !.facts = NoFacts, !.ready = FALSE, !.contained = FALSE,
                          !.clock = "ok", !.live = @ \cup {c.n}]
  /\ UNCHANGED <<disk, e>>

---------------------------------------------------------------------------
(* _lifecycle *)

CallSetup == /\ At("setup") /\ Setup /\ Goes("after-setup") /\ UNCHANGED <<disk, e>>
Unstarted(reason) == c' = [c EXCEPT !.pc = "unstarted", !.facts.reason = reason]
Held(label) == c' = [c EXCEPT !.pc = "contain", !.facts.held = label, !.after = "HELD"]
AfterSetup ==
  /\ At("after-setup")
  /\ IF o.state # "READY"
     THEN /\ IF o.state = "SETUP_FAILED" THEN Unstarted("LAUNCH_FAILED") ELSE Held("LAUNCH")
          /\ UNCHANGED <<o, k>>
     ELSE \E r \in Reading :
            IF r = "ok" THEN Start /\ Goes("after-start")
            ELSE Unstarted(ClockReason(r)) /\ UNCHANGED <<o, k>>
  /\ UNCHANGED <<disk, e>>
AfterStart ==
  /\ At("after-start")
  /\ CASE o.state = "RUNNING" -> Goes(IF Name \in {"NORMAL", "PROBE"} THEN "top" ELSE "ready")
       [] o.state = "LAUNCH_FAILED" -> Unstarted("LAUNCH_FAILED")
       [] OTHER -> Held("LAUNCH")
  /\ UNCHANGED <<o, k, disk, e>>
\* Faulty variant of Release: an owner that refused to close is dropped too.
ReleaseAny == [c EXCEPT !.live = @ \ {c.n}]
\* _release: only an owner proven CLOSED leaves the registry.
Release == IF o.state = "CLOSED" THEN [c EXCEPT !.live = @ \ {c.n}] ELSE c
Close(from) ==
  /\ At(from) /\ Closable /\ CloseBegins
  /\ Goes("after-close") /\ UNCHANGED <<disk, e>>
AfterClose ==
  /\ At("after-close")
  /\ IF o.state = "CLOSED" THEN c' = [Release EXCEPT !.pc = "finish"] ELSE Held("CLOSE")
  /\ UNCHANGED <<o, k, disk, e>>

---------------------------------------------------------------------------
(* _ready and _last_close *)

\* A read: what is in the pipe; after the end, nothing.
Took == [k EXCEPT !.out = "none"]
ReadFails == o' = Breaks(o) /\ UNCHANGED k
Ready ==
  /\ At("ready") /\ Running
  /\ \/ \E r \in Reading \ {"ok"} :           \* its own turns and seconds are over, or the clock broke
          /\ c' = [c EXCEPT !.facts.reason = IF r = "broken" THEN "CALLER_CLOCK" ELSE "READY_MISSING",
                            !.clock = IF r = "broken" THEN r ELSE @, !.pc = "top"]
          /\ UNCHANGED <<o, k>>
     \/ ReadFails /\ Held("READY")
     \/ /\ k' = Took /\ UNCHANGED o
        /\ c' = CASE k.out = "none" -> [c EXCEPT !.pc = "ready-wait"]
                  [] k.out = "line" -> [c EXCEPT !.facts.retained = "line", !.ready = TRUE,
                                          !.pc = IF Name = "LAST_CLOSE" THEN "snapshot" ELSE "top"]
                  [] k.out = "junk" -> [c EXCEPT !.facts.retained = "junk", !.pc = "top",
                                                 !.facts.reason = "READY_MISMATCH"]
                  [] OTHER -> [c EXCEPT !.facts.retained = "over", !.facts.overflow = TRUE,
                                        !.facts.reason = "OUTPUT_OVERFLOW", !.pc = "top"]
  /\ UNCHANGED <<disk, e>>
ReadyWait ==
  /\ At("ready-wait") /\ Running
  /\ \/ o' = Breaks(o) /\ Held("READY")
     \/ Child \in k.alive /\ Goes("ready") /\ UNCHANGED o
     \/ /\ Child \notin k.alive /\ o' = [o EXCEPT !.signaled = TRUE]
        /\ c' = [c EXCEPT !.facts.signaled = TRUE, !.facts.reason = "READY_EARLY_EXIT", !.pc = "top"]
  /\ UNCHANGED <<k, disk, e>>
\* The tree is counted, then the inner job's only handle is closed.
SnapshotValid == k.total \in {1, 2} /\ Cardinality(k.alive) = k.total
Snapshot ==
  /\ At("snapshot") /\ Running
  /\ \/ c' = [c EXCEPT !.facts.reason = "SNAPSHOT_INVALID", !.pc = "top"] /\ UNCHANGED <<o, k>>
     \/ o' = Breaks(o) /\ Goes("top") /\ UNCHANGED k          \* a query failed: supervision will see
     \/ SnapshotValid /\ CloseInner /\ Goes("after-inner")
  /\ UNCHANGED <<disk, e>>
AfterInner ==
  /\ At("after-inner")
  /\ IF ~o.innerClosed THEN Held("CLOSE_INNER")
     ELSE \E r \in {"ok", "broken"} :
            c' = [c EXCEPT !.clock = r, !.pc = "top",
                           !.facts.reason = IF r = "broken" THEN "CALLER_CLOCK" ELSE @]
  /\ UNCHANGED <<o, k, disk, e>>

---------------------------------------------------------------------------
(* _supervise *)

\* The top of a turn: the first reason decides, and it terminates once.
SuperviseTop ==
  /\ At("top")
  /\ \E r \in Reading :
       LET f == IF r = "ok" THEN c.facts ELSE First(c.facts, ClockReason(r)) IN
       IF f.reason = "none" \/ f.terminated
       THEN /\ \/ c' = [c EXCEPT !.facts = f, !.clock = r, !.pc = "read"]
               \/ f.terminated /\ c' = [c EXCEPT !.facts = [f EXCEPT !.held = "CLEANUP"], !.pc = "contain",
                                                 !.after = "HELD"]
            /\ UNCHANGED <<o, k>>
       ELSE \/ /\ Running /\ k' = Terminated(k) /\ UNCHANGED o
               /\ c' = [c EXCEPT !.facts = [f EXCEPT !.terminated = TRUE], !.clock = r, !.pc = "read"]
            \/ o' = Breaks(o) /\ UNCHANGED k /\ Held("TERMINATE")
  /\ UNCHANGED <<disk, e>>
SuperviseRead ==
  /\ At("read")
  /\ \/ ReadFails /\ Held("READ")
     \/ /\ Running /\ k' = Took /\ o' = [o EXCEPT !.eof = AtEof]
        /\ c' = CASE k.out = "none" -> [c EXCEPT !.pc = "wait"]
                  [] k.out = "flood" -> [c EXCEPT !.pc = "wait", !.facts =
                                [First(@, "OUTPUT_OVERFLOW") EXCEPT !.overflow = TRUE, !.retained = "over"]]
                  [] OTHER -> [c EXCEPT !.pc = "wait", !.facts.retained =
                                IF @ = "none" THEN k.out ELSE "junk"]
  /\ UNCHANGED <<disk, e>>
SuperviseWait ==
  /\ At("wait")
  /\ \/ o' = Breaks(o) /\ Held("WAIT")
     \/ LET done == c.facts.signaled \/ Child \notin k.alive IN
        /\ Running /\ o' = [o EXCEPT !.signaled = done]
        /\ c' = [c EXCEPT !.facts.signaled = done, !.facts.eof = o.eof,
                          !.pc = IF done /\ o.eof THEN "prove" ELSE "top"]
  /\ UNCHANGED <<k, disk, e>>
\* The counts, the members and the exit code; then whether it was in time.
SuperviseProve ==
  /\ At("prove")
  /\ \/ o' = Breaks(o) /\ Held("ACCOUNTING")
     \/ /\ Running /\ UNCHANGED o
        /\ IF TooMany
           THEN c' = [c EXCEPT !.facts = First(@, "TREE_UNPROVEN"), !.pc = "top"]
           ELSE IF k.alive # {} THEN Goes("top")
           ELSE \E r \in Reading :
                  c' = [c EXCEPT !.clock = r, !.pc = "supervised",
                          !.facts = LET f == [@ EXCEPT !.exit = ToString(k.code), !.total = k.total] IN
                                    IF r = "ok" THEN f ELSE First(f, ClockReason(r))]
  /\ UNCHANGED <<k, disk, e>>

---------------------------------------------------------------------------
(* What is held, and what an interruption leaves *)

\* _retain: one terminate of a running tree, one record, and nothing else.
Contain ==
  /\ At("contain")
  /\ LET again == c.prog = "control" /\ c.contained
         done == IF c.prog = "control" THEN Release ELSE c IN
     \/ /\ o.state = "RUNNING" /\ ~again /\ c.after # "HELD"
        /\ \/ /\ "job" \in o.ledger /\ k' = Terminated(k) /\ UNCHANGED o
           \/ o' = Breaks(o) /\ UNCHANGED k
        /\ c' = Done(done, c.after)
     \/ /\ o.state = "RUNNING" /\ ~again /\ c.after = "HELD"
        /\ IF c.prog = "control"
           THEN (k' = Terminated(k) /\ UNCHANGED o) \/ (o' = Breaks(o) /\ UNCHANGED k)
           ELSE UNCHANGED <<o, k>>
        /\ c' = Done(done, "HELD")
     \/ /\ o.state # "RUNNING" \/ again
        /\ c' = Done(done, c.after)
        /\ UNCHANGED <<o, k>>
  /\ UNCHANGED <<disk, e>>
InLifecycle == c.pc \in {"setup", "after-setup", "after-start", "unstarted", "after-close", "ready",
                         "ready-wait", "snapshot", "after-inner", "top", "read", "wait", "prove",
                         "supervised"}
\* A console interruption, or (ordinary) a failure nobody expected.
Hit ==
  /\ c.hits < MaxInterrupts /\ c.pc \notin {"idle", "over", "contain"}
  /\ \E how \in {"INTERRUPTED", "OTHER"} :
       IF InLifecycle
       THEN /\ c' = [c EXCEPT !.hits = @ + 1, !.pc = "contain", !.after = how] /\ Interrupted
       ELSE /\ c' = [Done(c, how) EXCEPT !.hits = @ + 1] /\ UNCHANGED <<o, k>>
  /\ UNCHANGED <<disk, e>>
\* One more while the first is recorded: the first one is what is raised.
HitAgain ==
  /\ c.hits < MaxInterrupts /\ At("contain")
  /\ c' = [c EXCEPT !.hits = @ + 1, !.contained = TRUE,
                    !.after = IF c.prog = "control" THEN "INTERRUPTED" ELSE @]
  /\ UNCHANGED <<o, k, disk, e>>

---------------------------------------------------------------------------
(* The verdict, the files and the publication *)

Proven ==
  /\ ~c.facts.overflow /\ c.facts.signaled /\ c.facts.eof
  /\ c.facts.total \in {1, 2} /\ c.facts.exit # "none" /\ c.facts.retained = "line"
Approved(f) ==
  CASE Name \in {"NORMAL", "PROBE"} -> Proven /\ f.reason = "none" /\ ~f.terminated /\ f.exit = "0"
    [] Name = "TERMINATE" -> Proven /\ c.ready /\ f.reason = "DEADLINE" /\ f.terminated /\ f.exit = "1"
    [] OTHER -> /\ Proven /\ c.ready /\ f.reason = "none" /\ ~f.terminated /\ o.innerClosed
                /\ k.terminations = 0
\* _project: a probe that ended by itself with 1 is accepted as evidence of what
\* it reports (over its limit, a failed stage, an invalid clock).
Accepted(f) == Name = "PROBE" /\ Proven /\ f.reason = "none" /\ ~f.terminated /\ f.exit = "1"
\* A last reading forbids a late success; then the private files, then the record.
Finish ==
  /\ At("finish")
  /\ \/ Ends("OTHER")
     \/ \E r \in Reading, sound \in BOOLEAN :
          LET f == CASE r = "broken" /\ (c.facts.reason = "none" \/ Name = "TERMINATE") ->
                          [c.facts EXCEPT !.reason = "CALLER_CLOCK"]
                     [] r = "late" -> First(c.facts, "DEADLINE")
                     [] OTHER -> c.facts
              verdict == CASE sound /\ Approved(f) -> "APPROVED"
                           [] sound /\ Accepted(f) -> "ACCEPTED" [] OTHER -> "REJECTED" IN
          c' = [c EXCEPT !.facts = NoFacts, !.ready = FALSE, !.clock = "ok", !.n = @ + 1,
                  !.pc = IF c.n = Len(CaseNames(c.prog)) THEN "publish" ELSE "case",
                  !.records = Append(@, [outcome |-> verdict,
                                         alive |-> k.alive, open |-> k.handles, by |-> k.endedBy,
                                         code |-> k.code, terminations |-> k.terminations])]
  /\ UNCHANGED <<o, k, disk, e>>
Outcome ==
  LET found == {c.records[i].outcome : i \in DOMAIN c.records} IN
  IF found = {"APPROVED"} THEN "APPROVED" ELSE IF found = {"ACCEPTED"} THEN "ACCEPTED" ELSE "REJECTED"
PublishSteps == [none |-> "dir", dir |-> "summary", summary |-> "pending", pending |-> "final"]
Publish ==
  /\ At("publish") /\ disk.public \in DOMAIN PublishSteps
  /\ IF disk.public = "none" /\ c.prog = "control" /\ c.live # {} THEN Ends("HELD") /\ UNCHANGED disk
     ELSE \/ /\ disk.public # "pending" /\ Ends("OTHER") /\ UNCHANGED disk
          \/ /\ disk.public = "pending" /\ Ends(IF c.prog = "control" THEN "COMMIT" ELSE "OTHER")
             /\ disk' \in {disk, [disk EXCEPT !.public = "final", !.outcome = Outcome]}
          \/ /\ disk' = [disk EXCEPT !.public = PublishSteps[@],
                                     !.outcome = IF disk.public = "pending" THEN Outcome ELSE @]
             /\ IF disk.public = "pending" THEN Ends(Outcome) ELSE UNCHANGED c
  /\ UNCHANGED <<o, k, e>>

---------------------------------------------------------------------------
(* The entry *)

Forward == ~e.fault /\ ~e.uncertain
\* The original registry, still the runner's and empty.
Trusted == e.registry = "ok" /\ c.live = {}
EntryAt(pc) == e.pc = pc /\ c.pc \in {"idle", "over"}
Drive ==
  /\ EntryAt("drive") /\ e' = [e EXCEPT !.pc = IF e.parked THEN "hold" ELSE "advance"]
  /\ UNCHANGED <<o, k, c, disk>>
Advance ==
  /\ EntryAt("advance")
  /\ e' = IF e.decision # <<"none">> THEN [e EXCEPT !.pc = "settle"]
          ELSE [e EXCEPT !.uncertain = @ \/ e.entered, !.entered = TRUE, !.pc = "load"]
  /\ UNCHANGED <<o, k, c, disk>>
Load ==
  /\ EntryAt("load")
  /\ e' \in IF e.loaded \/ ~Forward THEN {[e EXCEPT !.pc = "arm"]}
            ELSE {[e EXCEPT !.loaded = TRUE, !.registry = r, !.refusal = (r # "ok" \/ bad), !.pc = "arm"] :
                    r \in {"ok", "missing"}, bad \in BOOLEAN}
  /\ UNCHANGED <<o, k, c, disk>>
Arm ==
  /\ EntryAt("arm")
  /\ e' \in IF e.armed \/ ~Forward \/ e.refusal THEN {[e EXCEPT !.pc = "invoke"]}
            ELSE {[e EXCEPT !.armed = TRUE, !.refusal = bad, !.pc = "invoke"] : bad \in BOOLEAN}
  /\ UNCHANGED <<o, k, c, disk>>
\* Reserved before the call, so that it is never made twice.
Invoke ==
  /\ EntryAt("invoke")
  /\ e' = IF Forward /\ ~e.refusal /\ ~e.attempted
          THEN [e EXCEPT !.attempted = TRUE, !.outcome = "NOT_CALLED", !.pc = "running"]
          ELSE [e EXCEPT !.pc = "decide"]
  /\ UNCHANGED <<o, k, c, disk>>
RunReturns ==
  /\ e.pc = "running" /\ c.pc = "over"
  /\ e' = [e EXCEPT !.outcome = c.result, !.pc = "decide"] /\ UNCHANGED <<o, k, c, disk>>
Decision ==
  CASE e.outcome \in {"HELD", "RETAINED"} \/ ~Trusted -> <<"PARK">>
    [] ~e.attempted -> <<"EXIT", 2>>
    [] e.fault \/ e.uncertain \/ e.outcome \in {"INTERRUPTED", "NOT_CALLED"} -> <<"EXIT", 5>>
    [] e.outcome = "APPROVED" -> <<"EXIT", 0>>
    [] e.outcome = "REJECTED" -> <<"EXIT", 1>>
    [] e.outcome = "COMMIT" -> <<"EXIT", 4>>
    [] OTHER -> <<"EXIT", 2>>
Decide ==
  /\ EntryAt("decide") /\ e' = [e EXCEPT !.decision = IF e.parked THEN <<"PARK">> ELSE Decision,
                                         !.pc = "settle"]
  /\ UNCHANGED <<o, k, c, disk>>
Parks == [e EXCEPT !.parked = TRUE, !.announced = TRUE, !.pc = "hold"]
Settle ==
  /\ EntryAt("settle")
  /\ e' = IF ~e.parked /\ e.decision[1] = "EXIT" /\ Trusted THEN [e EXCEPT !.pc = "final"] ELSE Parks
  /\ UNCHANGED <<o, k, c, disk>>
Final ==
  /\ EntryAt("final") /\ e' = [e EXCEPT !.announced = TRUE, !.pc = "return"]
  /\ UNCHANGED <<o, k, c, disk>>
EntryReturns ==
  /\ EntryAt("return")
  /\ e' = IF ~e.parked /\ Trusted THEN [e EXCEPT !.pc = "exited", !.code = e.decision[2]] ELSE Parks
  /\ UNCHANGED <<o, k, c, disk>>
\* Anything raised inside the driver: latched, and the loop goes round once more.
EntryFault ==
  /\ EntryAt(e.pc) /\ e.pc \in {"drive", "advance", "load", "arm", "invoke", "decide", "settle", "final", "return"}
  /\ ~e.fault
  /\ \E r \in IF e.pc = "load" /\ ~e.loaded /\ Forward THEN {"ok", "missing"} ELSE {e.registry} :
       e' = [e EXCEPT !.fault = TRUE, !.pc = "drive", !.registry = r,
                      !.loaded = @ \/ e.pc = "load", !.armed = @ \/ e.pc = "arm"]
  /\ UNCHANGED <<o, k, c, disk>>

Calls == (SetupStep \/ SetupEnds \/ StartStep \/ Abort \/ CloseStep \/ Internal \/ TreeStep)
         /\ UNCHANGED <<c, disk, e>>
Next ==
  \/ Run \/ SkipCase \/ CaseBegins \/ CallSetup \/ AfterSetup \/ AfterStart \/ Close("unstarted")
  \/ Close("supervised") \/ AfterClose \/ Ready \/ ReadyWait \/ Snapshot \/ AfterInner
  \/ SuperviseTop \/ SuperviseRead \/ SuperviseWait \/ SuperviseProve \/ Contain \/ Hit \/ HitAgain
  \/ Finish \/ Publish \/ Calls
  \/ Drive \/ Advance \/ Load \/ Arm \/ Invoke \/ RunReturns \/ Decide \/ Settle \/ Final
  \/ EntryReturns \/ EntryFault
Spec == Init /\ [][Next]_vars

---------------------------------------------------------------------------
\* Nothing is left behind.  An owner counts as closed only over an empty tree
\* with every handle given back, and no job was closed to get there unless on
\* purpose; while a process lives its owner is in the registry, whatever failed
\* or interrupted; the entry's process ends only with an empty registry, no
\* process and no handle, with code 0 only after the publication, and a
\* refusal before the call has used nothing up.
NothingLeftBehind ==
  /\ o.state = "CLOSED" => k.alive = {} /\ k.handles = {} /\ (k.endedBy = "close" => o.innerClosed)
  /\ k.alive # {} => c.live # {}
  /\ e.pc = "exited" =>
       /\ c.live = {} /\ k.alive = {} /\ k.handles = {}
       /\ e.code = 0 => disk.public = "final" /\ disk.outcome = "APPROVED"
       /\ ~e.attempted => e.code = 2 /\ ~disk.private

\* A published approval rests on three cases that really ran as they should:
\* the first ended by itself, the second by one terminate, the third without
\* any, and none of them left a process or a handle; a probe is accepted, with
\* or without success, only when it ended by itself with the code that says so.
ApprovalIsEarned ==
  (disk.public = "final" /\ disk.outcome \in {"APPROVED", "ACCEPTED"}) =>
     \A i \in DOMAIN c.records :
       LET r == c.records[i] IN
       /\ r.alive = {} /\ r.open = {}
       /\ CaseNames(c.prog)[i] \in {"NORMAL", "PROBE"} =>
            /\ r.by = "exit" /\ r.terminations = 0
            /\ r.code = IF disk.outcome = "APPROVED" THEN 0 ELSE 1
       /\ CaseNames(c.prog)[i] = "TERMINATE" => r.terminations = 1
       /\ CaseNames(c.prog)[i] = "LAST_CLOSE" => r.terminations = 0

\* The control is sound: nothing is left behind, and an approval is earned.
NativeSound == NothingLeftBehind /\ ApprovalIsEarned
=============================================================================
