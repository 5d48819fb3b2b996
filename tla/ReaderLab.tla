------------------------------- MODULE ReaderLab -------------------------------
(***************************************************************************)
(* The reader laboratory of docs/poc: pg16_shell_run.py drives             *)
(* pg16_shell_host.py through one container per case, while one watchdog   *)
(* thread per case (pg16_shell_watchdog.py) may abort the case and remove  *)
(* its container with commands of its own (pg16_public_emergency.py).      *)
(* Both sides take the same cleanup lock with a bound of one second, the   *)
(* Docker daemon answers a command, refuses it or leaves its outcome       *)
(* unknown, and the run may end in exactly two ways: released, or HELD for *)
(* ever with everything it could not prove gone.                           *)
(***************************************************************************)
EXTENDS Naturals, Sequences, FiniteSets

CONSTANTS
  Cases,          \* the sequence of case names, each one container
  MountKinds,     \* what the daemon may mount into a created container
  MaxInterrupts   \* bound on the interrupts of the operator

VARIABLES
  main,     \* the loop: pc, case index, mode, cancel requested, record in turn
  rec,      \* the ownership records of ownership.json
  own,      \* the attach owner of each case and its CLI process
  mon,      \* the watchdog of each case
  lock,     \* the cleanup lock
  docker,   \* the daemon: containers, their mounts, volumes, late creates
  run       \* the context and the result of the run

vars == <<main, rec, own, mon, lock, docker, run>>

CaseSet == {Cases[i] : i \in 1..Len(Cases)}
At == Cases[main.at]
Baseline == {"base"}

---------------------------------------------------------------------------
(* pg16_public_volumes: what is mounted decides how a container is removed *)

\* The named volumes a container links; an odd mount cannot be read at all.
Linked(c) == CASE docker.mounts[c] = "anonymous" -> {c}
               [] docker.mounts[c] = "existing" -> {"base"}
               [] OTHER -> {}
\* Faulty variant of RemovalMode: volumes of the baseline are not told apart.
RemovalModeBlind(c) ==
  IF docker.mounts[c] = "odd" THEN "PRESERVE_UNCERTAIN" ELSE "WITH_V"
RemovalMode(c) ==
  IF docker.mounts[c] = "odd" THEN "PRESERVE_UNCERTAIN"
  ELSE IF Linked(c) \cap Baseline # {} THEN "PRESERVE_EXISTING" ELSE "WITH_V"
Restored == docker.volumes = Baseline

(* The effects of the commands on the daemon. *)
DoCreate(c, m) ==
  [docker EXCEPT !.box[c] = "created", !.mounts[c] = m, !.late = @ \ {c},
                 !.volumes = @ \cup (IF m \in {"anonymous", "odd"} THEN {c} ELSE {})]
DoKill(c) == [docker EXCEPT !.box[c] = IF @ = "running" THEN "exited" ELSE @]
DoRemove(c) ==
  IF docker.box[c] = "none" THEN docker
  ELSE [docker EXCEPT !.box[c] = "none",
          !.volumes = IF RemovalMode(c) = "WITH_V" THEN @ \ Linked(c) ELSE @]

---------------------------------------------------------------------------
(* Host records and supervision *)

NoRecord == [held |-> FALSE, invoked |-> FALSE, cid |-> FALSE, uncertain |-> FALSE,
             removed |-> FALSE, restored |-> FALSE, unsure |-> FALSE]
NewMonitor == [pc |-> "off", fired |-> FALSE, held |-> FALSE, joined |-> FALSE, stop |-> FALSE,
               ack |-> FALSE, abort |-> FALSE, snap |-> "none", seen |-> "none"]

Init ==
  /\ main = [pc |-> "admit", at |-> 1, mode |-> "case", cancel |-> FALSE, turn |-> 0,
             clean |-> FALSE]
  /\ rec = [c \in CaseSet |-> NoRecord]
  /\ own = [c \in CaseSet |-> "none"]
  /\ mon = [c \in CaseSet |-> NewMonitor]
  /\ lock = "free"
  /\ docker = [box |-> [c \in CaseSet |-> "none"], mounts |-> [c \in CaseSet |-> "tmpfs"],
               volumes |-> Baseline, late |-> {}]
  /\ run = [entered |-> FALSE, armed |-> FALSE, lost |-> FALSE, history |-> FALSE,
            interrupts |-> 0, attempts |-> 0, errors |-> FALSE, done |-> 0, owned |-> FALSE,
            desktop |-> FALSE, verified |-> FALSE, phase |-> "FRESH", released |-> FALSE]

Attempted(c) == mon[c].pc # "off"
AllJoined == \A c \in CaseSet : Attempted(c) => mon[c].joined
\* _barrier: nothing of an earlier case is left, and its watchdog stayed quiet.
Barrier(i) ==
  \A j \in 1..(i - 1) : LET c == Cases[j] IN
    /\ rec[c].removed /\ rec[c].restored /\ own[c] = "closed"
    /\ mon[c].joined /\ ~mon[c].fired /\ ~mon[c].held /\ ~run.errors
Gate == \A c \in CaseSet : ~mon[c].fired
Releases == lock' = IF lock = "main" THEN "free" ELSE lock

Goto(p) == main' = [main EXCEPT !.pc = p]
\* A step raised: in a case the foreground ends and the run goes to finish(),
\* in finish() the record stays unproven and the next one is taken.
Raised ==
  /\ Releases
  /\ main' = IF main.mode = "case"
             THEN [main EXCEPT !.pc = "finish", !.mode = "finish", !.cancel = FALSE]
             ELSE [main EXCEPT !.pc = "records", !.turn = @ + 1, !.clean = FALSE]
Noted(r) == [r EXCEPT !.history = @ \/ main.mode = "case"]
Fails == Raised /\ run' = Noted(run)

\* A row of the command log without an exit: nobody knows what the daemon did.
Lost == Raised /\ run' = [Noted(run) EXCEPT !.lost = TRUE]
\* One command of the CLI. It is answered, it is refused or its reply cannot
\* be filed, or its row has no exit; a cancelled await is the last.
Command(D, Then) ==
  \/ ~main.cancel /\ docker' = D /\ Then
  \/ ~main.cancel /\ docker' \in {docker, D} /\ Fails
  \/ docker' \in {docker, D} /\ Lost
\* The scope check of a create, and of a command on a container of ours.
CreateAllowed ==
  /\ run.armed /\ Attempted(At) /\ ~mon[At].joined /\ ~rec[At].invoked /\ Barrier(main.at)
OwnAllowed(c) == rec[c].cid /\ ~rec[c].uncertain /\ ~rec[c].removed

---------------------------------------------------------------------------
(* Admission, then run(): supervision, cycle A with the preflight, B armed *)

\* A fresh root with the pinned state is used once; anything else is refused
\* before a container, a thread or the desktop is touched.
Admit ==
  /\ main.pc = "admit"
  /\ \/ Goto("supervise") /\ run' = [run EXCEPT !.phase = "INVOKED"]
     \/ Goto("ended") /\ run' = [run EXCEPT !.phase = "REFUSED"]
  /\ UNCHANGED <<rec, own, mon, lock, docker>>

StartSupervision ==
  /\ main.pc = "supervise"
  /\ \/ mon' = [mon EXCEPT ![At].pc = "watch"] /\ Goto("cycle")
        /\ run' = [run EXCEPT !.entered = TRUE] /\ UNCHANGED lock
     \/ mon' = [mon EXCEPT ![At].pc = "unstarted", ![At].fired = TRUE, ![At].held = TRUE] /\ Fails
     \/ UNCHANGED mon /\ Fails                                        \* watch-01 not made
  /\ UNCHANGED <<rec, own, docker>>

StartCycle ==
  /\ main.pc = "cycle"
  /\ Command(docker, Goto("arm") /\ UNCHANGED <<run, lock>>)
  /\ UNCHANGED <<rec, own, mon>>
CheckpointB ==
  /\ main.pc = "arm"
  /\ \/ ~main.cancel /\ Gate /\ Goto("volumes") /\ run' = [run EXCEPT !.armed = TRUE]
        /\ UNCHANGED lock
     \/ Fails
  /\ UNCHANGED <<rec, own, mon, docker>>

Activate ==
  /\ main.pc = "activate"
  /\ \/ Barrier(main.at) /\ Gate /\ mon' = [mon EXCEPT ![At].pc = "watch"] /\ Goto("volumes")
        /\ UNCHANGED <<run, lock>>
     \/ ~(Barrier(main.at) /\ Gate) /\ Fails /\ UNCHANGED mon
     \/ mon' = [mon EXCEPT ![At].pc = "unstarted", ![At].fired = TRUE, ![At].held = TRUE] /\ Fails
  /\ UNCHANGED <<rec, own, docker>>

---------------------------------------------------------------------------
(* One case: create_own, owner, report, inspected result *)

VolumesBefore ==
  /\ main.pc = "volumes" /\ Gate /\ Barrier(main.at)
  /\ Command(docker, IF Restored THEN Goto("create") /\ UNCHANGED <<run, lock>> ELSE Fails)
  /\ UNCHANGED <<rec, own, mon>>
\* The intent is on disk and the snapshot published before the CLI is called.
RecordIntent ==
  /\ main.pc = "create"
  /\ \/ /\ ~main.cancel /\ Gate /\ CreateAllowed /\ Goto("creating") /\ UNCHANGED <<run, lock>>
        /\ rec' = [rec EXCEPT ![At] = [NoRecord EXCEPT !.held = TRUE, !.invoked = TRUE,
                                                       !.uncertain = TRUE]]
        /\ mon' = [mon EXCEPT ![At].snap = "intent"]
     \/ /\ ~main.cancel /\ ~(Gate /\ CreateAllowed) /\ Fails /\ mon' = [mon EXCEPT ![At].snap = "intent"]
        /\ rec' = [rec EXCEPT ![At] = [NoRecord EXCEPT !.held = TRUE, !.uncertain = TRUE]]
     \/ main.cancel /\ Fails /\ UNCHANGED <<rec, mon>>
  /\ UNCHANGED <<own, docker>>
Create ==
  /\ main.pc = "creating"
  /\ \E m \in MountKinds :
       \/ /\ ~main.cancel /\ docker' = DoCreate(At, m) /\ Goto("inspect")
          /\ rec' = [rec EXCEPT ![At].cid = TRUE, ![At].uncertain = FALSE]
          /\ mon' = [mon EXCEPT ![At].snap = "cid"] /\ UNCHANGED <<run, lock>>
       \/ /\ ~main.cancel /\ docker' \in {docker, DoCreate(At, m)} /\ Fails
          /\ UNCHANGED <<rec, mon>>
       \/ /\ docker' \in {docker, DoCreate(At, m), [docker EXCEPT !.late = @ \cup {At}]}
          /\ Lost /\ UNCHANGED <<rec, mon>>
  /\ UNCHANGED own
\* validate_container admits tmpfs mounts only.
InspectCreated ==
  /\ main.pc = "inspect" /\ Gate
  /\ Command(docker, IF docker.box[At] = "created" /\ docker.mounts[At] = "tmpfs"
                     THEN Goto("attach") /\ UNCHANGED <<run, lock>> ELSE Fails)
  /\ UNCHANGED <<rec, own, mon>>
\* The owner is registered before its process is spawned; the birth is
\* published whether or not start() raises.
OwnerStart ==
  /\ main.pc = "attach"
  /\ \/ /\ ~main.cancel /\ Gate /\ Goto("deliver")
        /\ own' = [own EXCEPT ![At] = "attached"]
        /\ docker' = [docker EXCEPT !.box[At] = IF @ = "created" THEN "running" ELSE @]
        /\ mon' = [mon EXCEPT ![At].snap = "birth"] /\ UNCHANGED <<run, lock>>
     \/ /\ \/ own' = [own EXCEPT ![At] = "new"] /\ UNCHANGED <<docker, mon>>
           \/ /\ Gate /\ own' = [own EXCEPT ![At] = "attached"]
              /\ docker' \in {docker,
                    [docker EXCEPT !.box[At] = IF @ = "created" THEN "running" ELSE @]}
              /\ mon' \in {mon, [mon EXCEPT ![At].snap = "birth"]}
        /\ Fails
  /\ UNCHANGED rec
\* send_vector and drain, with either end: AttachOwner says when they refuse.
Deliver ==
  /\ main.pc = "deliver"
  /\ \/ /\ ~main.cancel /\ own[At] = "attached" /\ docker.box[At] # "none"
        /\ own' = [own EXCEPT ![At] = "ended"] /\ Goto("result")
        /\ docker' = [docker EXCEPT !.box[At] = IF @ = "running" THEN "exited" ELSE @]
        /\ UNCHANGED <<run, lock>>
     \/ UNCHANGED <<own, docker>> /\ Fails
  /\ UNCHANGED <<rec, mon>>
InspectResult ==
  /\ main.pc = "result"
  /\ \/ Gate /\ Command(docker, IF docker.box[At] = "exited"
                                THEN Goto("quiesce") /\ UNCHANGED <<run, lock>> ELSE Fails)
     \/ ~Gate /\ Fails /\ UNCHANGED docker
  /\ UNCHANGED <<rec, own, mon>>
\* A step whose scope check met a fired watchdog.
GateRefuses ==
  /\ main.pc \in {"volumes", "inspect"} /\ ~Gate /\ Fails
  /\ UNCHANGED <<rec, own, mon, docker>>

---------------------------------------------------------------------------
(* _collect(record), by the case itself or by finish() *)

It == IF main.mode = "case" THEN At ELSE Cases[main.turn]

Quiesce ==
  /\ main.pc = "quiesce"
  /\ \/ /\ ~main.cancel /\ Goto("lock") /\ UNCHANGED <<run, lock>>
        /\ own' = IF own[It] \in {"none", "closed"} THEN own ELSE [own EXCEPT ![It] = "quiesced"]
     \/ own[It] \notin {"none", "quiesced", "closed"} /\ UNCHANGED own /\ Fails
     \/ main.cancel /\ UNCHANGED own /\ Fails
  /\ UNCHANGED <<rec, mon, docker>>
TakeLock ==
  /\ main.pc = "lock"
  /\ \/ lock = "free" /\ lock' = "main" /\ UNCHANGED run
        /\ Goto(IF rec[It].removed THEN "absent" ELSE "look")
     \/ lock # "free" /\ Fails                                       \* after one second
  /\ UNCHANGED <<rec, own, mon, docker>>
LookForCleanup ==
  /\ main.pc = "look" /\ OwnAllowed(It)
  /\ \/ /\ ~main.cancel /\ UNCHANGED <<run, lock>>
        /\ \/ Goto(CASE docker.box[It] = "none" -> "absent"
                     [] docker.box[It] = "running" -> "kill" [] OTHER -> "remove")
           \/ Goto("absent")                                         \* no answer but an exit
     \/ ~main.cancel /\ Fails                                        \* not the container expected
     \/ Lost
  /\ UNCHANGED <<rec, own, mon, docker>>
KillOwn ==
  /\ main.pc = "kill" /\ OwnAllowed(It)
  /\ Command(DoKill(It), Goto("remove") /\ UNCHANGED <<run, lock>>)
  /\ UNCHANGED <<rec, own, mon>>
\* _removal records the decision before the removal is approved.
RemoveOwn ==
  /\ main.pc = "remove" /\ OwnAllowed(It)
  /\ rec' = [rec EXCEPT ![It].unsure = RemovalMode(It) = "PRESERVE_UNCERTAIN"]
  /\ Command(DoRemove(It), IF docker.box[It] = "exited" \/ docker.box[It] = "created"
                           THEN Goto("absent") /\ UNCHANGED <<run, lock>> ELSE Fails)
  /\ UNCHANGED <<own, mon>>
AbsentAfter ==
  /\ main.pc = "absent"
  /\ \/ /\ ~main.cancel /\ docker.box[It] = "none" /\ Goto("final") /\ UNCHANGED <<run, lock>>
        /\ rec' = [rec EXCEPT ![It].removed = TRUE]
     \/ ~main.cancel /\ Fails /\ UNCHANGED rec
     \/ Lost /\ UNCHANGED rec
  /\ UNCHANGED <<own, mon, docker>>
AnyUnsure == \E c \in CaseSet : rec[c].unsure
\* The volumes are compared, the owner is closed with the absence as proof.
VolumesFinal ==
  /\ main.pc = "final"
  /\ \/ /\ ~main.cancel /\ Restored /\ ~AnyUnsure /\ Releases /\ UNCHANGED run
        /\ own' = [own EXCEPT ![It] = IF @ = "none" THEN @ ELSE "closed"]
        /\ rec' = [rec EXCEPT ![It].restored = TRUE]
        /\ main' = IF main.mode = "case" THEN [main EXCEPT !.pc = "join"]
                   ELSE [main EXCEPT !.pc = "records", !.turn = @ + 1]
     \/ ~main.cancel /\ Fails /\ UNCHANGED <<own, rec>>
     \/ Lost /\ UNCHANGED <<own, rec>>
  /\ UNCHANGED <<mon, docker>>

---------------------------------------------------------------------------
(* _finish_monitor: the stop is set and the loop blocks in the join *)

\* stop_supervision, called by finish() and after an emergency.
AfterStop(e) ==
  /\ run' = [run EXCEPT !.errors = e, !.history = @ \/ e]
  /\ main' = [main EXCEPT !.pc = IF main.mode = "waited" THEN "again" ELSE "ready"]
AfterJoin(m, e) ==
  CASE main.mode = "case" /\ ~e /\ ~m.fired /\ ~m.held ->
         /\ run' = [run EXCEPT !.done = @ + 1, !.errors = FALSE,
                               !.verified = main.at = Len(Cases)]
         /\ main' = IF main.at = Len(Cases)
                    THEN [main EXCEPT !.pc = "finish", !.mode = "finish", !.cancel = FALSE]
                    ELSE [main EXCEPT !.pc = "activate", !.at = @ + 1]
    [] main.mode = "case" /\ (e \/ m.fired \/ m.held) ->
         /\ run' = [run EXCEPT !.errors = e, !.history = TRUE]
         /\ main' = [main EXCEPT !.pc = "finish", !.mode = "finish", !.cancel = FALSE]
    [] OTHER -> AfterStop(e)
StopMonitor ==
  /\ main.pc = "join" /\ Attempted(At) /\ ~mon[At].stop
  /\ mon' = [mon EXCEPT ![At].stop = TRUE]
  /\ UNCHANGED <<main, rec, own, lock, docker, run>>
\* The heartbeat task of a cancelled case is not collected: an error as well.
Join ==
  /\ main.pc = "join"
  /\ \/ /\ Attempted(At) /\ mon[At].stop /\ mon[At].pc = "ended"
        /\ mon' = [mon EXCEPT ![At].joined = TRUE] /\ AfterJoin(mon[At], main.cancel)
     \/ /\ Attempted(At) /\ mon[At].stop /\ mon[At].pc # "ended"      \* 55 seconds
        /\ mon' = [mon EXCEPT ![At].held = TRUE] /\ AfterJoin(mon'[At], TRUE)
     \/ ~Attempted(At) /\ UNCHANGED mon /\ AfterJoin(mon[At], FALSE)
  /\ UNCHANGED <<rec, own, lock, docker>>

---------------------------------------------------------------------------
(* finish(): collection, emergency, supervision, desktop, release *)

InForeground ==
  main.mode = "case" /\ main.pc \notin {"admit", "supervise", "finish", "activate", "ended"}
Retain == [run EXCEPT !.phase = "HELD", !.released = FALSE]
Finish ==
  /\ main.pc = "finish"
  /\ main' = IF run.entered THEN [main EXCEPT !.pc = "records", !.turn = 1, !.clean = TRUE]
             ELSE [main EXCEPT !.pc = "join", !.mode = "before"]
  /\ run' = [run EXCEPT !.attempts = @ + (IF run.entered THEN 1 ELSE 0), !.owned = FALSE]
  /\ UNCHANGED <<rec, own, mon, lock, docker>>

NeverInvoked(c) == ~rec[c].invoked /\ ~rec[c].cid /\ own[c] = "none"
Settled(c) ==
  rec[c].removed /\ rec[c].restored /\ own[c] \in {"none", "closed"} /\ ~rec[c].unsure
Records == Cardinality({c \in CaseSet : rec[c].held})

CleanupRecord ==
  /\ main.pc = "records" /\ main.turn <= Records
  /\ LET c == Cases[main.turn] IN
       main' = CASE NeverInvoked(c) \/ Settled(c) -> [main EXCEPT !.turn = @ + 1]
                 [] ~(NeverInvoked(c) \/ Settled(c)) /\ (rec[c].uncertain \/ ~rec[c].cid) ->
                      [main EXCEPT !.turn = @ + 1, !.clean = FALSE]
                 [] OTHER -> [main EXCEPT !.pc = "quiesce"]
  /\ UNCHANGED <<rec, own, mon, lock, docker, run>>
\* empty_inventory and _volume_final of cleanup_owned; either may raise.
CleanupEnds ==
  /\ main.pc = "records" /\ main.turn > Records
  /\ \/ /\ main.clean /\ ~run.lost /\ (\A c \in CaseSet : docker.box[c] = "none")
        /\ Restored /\ ~AnyUnsure
        /\ run' = [run EXCEPT !.owned = TRUE]
        /\ main' = [main EXCEPT !.pc = "join", !.mode = "stop"]
     \/ /\ run' \in {[run EXCEPT !.history = TRUE], [run EXCEPT !.history = TRUE, !.lost = TRUE]}
        /\ main' = [main EXCEPT !.pc = IF run.attempts = 1 THEN "emergency" ELSE "held"]
  /\ UNCHANGED <<rec, own, mon, lock, docker>>

\* Faulty variant of AwaitEmergency: without an armed B there is no deadline,
\* and the run waits for a watchdog that has no reason to fire.
AwaitEmergencyForever ==
  /\ main.pc = "emergency"
  /\ \/ mon[At].fired /\ main' = [main EXCEPT !.pc = "join", !.mode = "waited"]
     \/ run.armed /\ Goto("held")
  /\ UNCHANGED <<rec, own, mon, lock, docker, run>>
AwaitEmergency ==
  /\ main.pc = "emergency"
  /\ \/ mon[At].fired /\ main' = [main EXCEPT !.pc = "join", !.mode = "waited"]
     \/ ~mon[At].fired /\ ~run.armed /\ Goto("held")
     \/ run.armed /\ Goto("held")                                    \* 600 or 655 seconds
  /\ UNCHANGED <<rec, own, mon, lock, docker, run>>
CollectAgain ==
  /\ main.pc = "again"
  /\ IF AllJoined
     THEN /\ main' = [main EXCEPT !.pc = "records", !.mode = "finish", !.turn = 1, !.clean = TRUE]
          /\ run' = [run EXCEPT !.attempts = @ + 1, !.owned = FALSE]
     ELSE Goto("held") /\ UNCHANGED run
  /\ UNCHANGED <<rec, own, mon, lock, docker>>
PhysicalReady ==
  /\ AllJoined /\ ~run.lost /\ lock = "free"
  /\ \A c \in CaseSet : own[c] \in {"none", "closed"}
Ready ==
  /\ main.pc = "ready"
  /\ LET good == PhysicalReady /\ (run.entered \/ Records = 0) IN
       main' = [main EXCEPT !.pc = IF ~good THEN "held" ELSE IF run.entered THEN "desktop"
                                   ELSE "pins"]
  /\ run' = [run EXCEPT !.desktop = ~run.entered]
  /\ UNCHANGED <<rec, own, mon, lock, docker>>
\* restore_desktop compares the volumes once more and asks for no proof it
\* does not have; restore_budget may note an overrun.
RestoreDesktop ==
  /\ main.pc = "desktop"
  /\ \/ /\ AllJoined /\ run.owned /\ Restored /\ ~AnyUnsure /\ Goto("pins")
        /\ run' \in {[run EXCEPT !.desktop = TRUE],
                     [run EXCEPT !.desktop = TRUE, !.history = TRUE]}
     \/ Goto("held") /\ run' = [run EXCEPT !.history = TRUE]
  /\ UNCHANGED <<rec, own, mon, lock, docker>>
Success ==
  /\ ~run.history /\ run.interrupts = 0 /\ ~run.errors /\ run.verified /\ run.owned /\ run.desktop
  /\ run.done = Len(Cases)
  /\ \A c \in CaseSet : mon[c].joined /\ ~mon[c].fired /\ ~mon[c].held
\* The inputs are hashed once more; a changed one costs the verdict.
FinalPins ==
  /\ main.pc = "pins" /\ Goto("terminal")
  /\ run' \in {run, [run EXCEPT !.history = TRUE]}
  /\ UNCHANGED <<rec, own, mon, lock, docker>>
TerminalReady == PhysicalReady /\ ~InForeground
\* The last state is persisted before the run counts as released.
Terminal ==
  /\ main.pc = "terminal"
  /\ \/ TerminalReady /\ Goto("ended")
        /\ run' = [run EXCEPT !.phase = IF Success THEN "FINISHED" ELSE "ABORTED",
                              !.released = TRUE]
     \/ Goto("ended") /\ run' = Retain
  /\ UNCHANGED <<rec, own, mon, lock, docker>>
Held ==
  /\ main.pc = "held" /\ Goto("ended") /\ run' = Retain
  /\ UNCHANGED <<rec, own, mon, lock, docker>>

---------------------------------------------------------------------------
(* The operator, the budget of B, the daemon *)

Interrupt ==
  /\ run.interrupts < MaxInterrupts /\ main.pc \notin {"admit", "ended", "join"}
  /\ run' = [run EXCEPT !.interrupts = @ + 1]
  /\ main' = [main EXCEPT !.cancel = @ \/ InForeground]
  /\ UNCHANGED <<rec, own, mon, lock, docker>>
BudgetExpires ==
  /\ run.armed /\ InForeground /\ main.pc # "join" /\ ~main.cancel
  /\ main' = [main EXCEPT !.cancel = TRUE]
  /\ UNCHANGED <<rec, own, mon, lock, docker, run>>
LateCreate(c) ==
  /\ c \in docker.late
  /\ \E m \in MountKinds : docker' = DoCreate(c, m)
  /\ UNCHANGED <<main, rec, own, mon, lock, run>>
BoxExits(c) ==
  /\ docker.box[c] = "running" /\ docker' = DoKill(c)
  /\ UNCHANGED <<main, rec, own, mon, lock, run>>

---------------------------------------------------------------------------
(* The watchdog thread *)

Step(c, p) == mon' = [mon EXCEPT ![c].pc = p]
\* The thread ends; whatever it did, the main side still owes its collection.
EndsHeld(c) == mon' = [mon EXCEPT ![c].pc = "ended", ![c].held = TRUE]

Quiet(c) ==
  /\ mon[c].pc = "watch" /\ mon[c].stop /\ Step(c, "ended")
  /\ UNCHANGED <<main, rec, own, lock, docker, run>>
\* No pulse for 15 seconds while the loop was busy, or 600 seconds of B; the
\* monotonic clock never runs backwards, which is the third reason.
Reasons == {"HEARTBEAT"} \cup (IF run.armed THEN {"DEADLINE"} ELSE {})
Fire(c) ==
  /\ mon[c].pc = "watch" /\ ~mon[c].stop /\ \E why \in Reasons : why # "CLOCK"
  /\ \/ mon' = [mon EXCEPT ![c].pc = "ack", ![c].fired = TRUE, ![c].abort = TRUE,
                            ![c].seen = mon[c].snap]
     \/ mon' = [mon EXCEPT ![c].pc = "ended", ![c].fired = TRUE, ![c].held = TRUE]
  /\ UNCHANGED <<main, rec, own, lock, docker, run>>
\* _abort_case runs in the loop, which a blocking join keeps busy.
AbortCase(c) ==
  /\ mon[c].abort /\ main.pc \notin {"join", "ended"}
  /\ mon' = [mon EXCEPT ![c].abort = FALSE, ![c].ack = TRUE]
  /\ main' = [main EXCEPT !.cancel = @ \/ (InForeground /\ c = At)]
  /\ UNCHANGED <<rec, own, lock, docker, run>>
\* Acknowledged, or two seconds went by: the emergency acts on the snapshot
\* that fired, whatever was published since; without a CID it does nothing.
Emergency(c) ==
  /\ mon[c].pc = "ack"
  /\ IF mon[c].seen \in {"cid", "birth"}
     THEN mon' = [mon EXCEPT ![c].held = TRUE,
                             ![c].pc = IF mon[c].seen = "birth" THEN "cli" ELSE "lock"]
     ELSE EndsHeld(c)
  /\ UNCHANGED <<main, rec, own, lock, docker, run>>
KillCli(c) ==
  /\ mon[c].pc = "cli"
  /\ \/ /\ own' = [own EXCEPT ![c] = IF @ = "attached" THEN "killed" ELSE @] /\ Step(c, "lock")
     \/ UNCHANGED own /\ EndsHeld(c)
  /\ UNCHANGED <<main, rec, lock, docker, run>>
WatchLock(c) ==
  /\ mon[c].pc = "lock"
  /\ \/ lock = "free" /\ lock' = "watch" /\ Step(c, "look")
     \/ lock # "free" /\ UNCHANGED lock /\ EndsHeld(c)
  /\ UNCHANGED <<main, rec, own, docker, run>>
\* A command of the emergency: one failure ends it and gives the lock back.
Act(c, D, p) ==
  \/ docker' = D /\ Step(c, p) /\ UNCHANGED lock
  \/ docker' \in {docker, D} /\ lock' = "free" /\ EndsHeld(c)
WatchLooks(c) ==
  /\ mon[c].pc = "look"
  /\ Act(c, docker, CASE docker.box[c] = "none" -> "volumes" [] docker.box[c] = "running" -> "kill"
                      [] OTHER -> "rm")
  /\ UNCHANGED <<main, rec, own, run>>
WatchKills(c) ==
  /\ mon[c].pc = "kill" /\ Act(c, DoKill(c), "rm")
  /\ UNCHANGED <<main, rec, own, run>>
WatchRemoves(c) ==
  /\ mon[c].pc = "rm" /\ Act(c, DoRemove(c), "volumes")
  /\ UNCHANGED <<main, rec, own, run>>
WatchEnds(c) ==
  /\ mon[c].pc = "volumes" /\ lock' = "free" /\ EndsHeld(c)
  /\ UNCHANGED <<main, rec, own, docker, run>>

---------------------------------------------------------------------------
Over == main.pc = "ended" /\ UNCHANGED vars

MainStep ==
  \/ Admit \/ StartSupervision \/ StartCycle \/ CheckpointB \/ Activate \/ VolumesBefore \/ RecordIntent
  \/ Create \/ InspectCreated \/ OwnerStart \/ Deliver \/ InspectResult \/ GateRefuses \/ Quiesce
  \/ TakeLock \/ LookForCleanup \/ KillOwn \/ RemoveOwn \/ AbsentAfter \/ VolumesFinal
  \/ StopMonitor \/ Join \/ Finish \/ CleanupRecord \/ CleanupEnds \/ AwaitEmergency
  \/ CollectAgain \/ Ready \/ RestoreDesktop \/ FinalPins \/ Terminal \/ Held
WatchStep(c) ==
  \/ Quiet(c) \/ Emergency(c) \/ KillCli(c) \/ WatchLock(c) \/ WatchLooks(c) \/ WatchKills(c)
  \/ WatchRemoves(c) \/ WatchEnds(c)
Next ==
  \/ MainStep \/ Interrupt \/ BudgetExpires \/ Over
  \/ \E c \in CaseSet : LateCreate(c) \/ BoxExits(c) \/ Fire(c) \/ AbortCase(c) \/ WatchStep(c)

\* The loop runs and the threads are scheduled; nothing else is promised.
Fairness == WF_vars(MainStep) /\ \A c \in CaseSet : WF_vars(WatchStep(c))
Spec == Init /\ [][Next]_vars /\ Fairness

---------------------------------------------------------------------------
\* A released run left nothing behind: no container, no create still under
\* way, no volume of ours, no thread, no attached CLI and a free lock.
ReleasedIsClean ==
  run.released =>
    /\ \A c \in CaseSet : docker.box[c] = "none" /\ own[c] \in {"none", "closed"}
                          /\ mon[c].pc \in {"off", "ended"}
    /\ docker.late = {} /\ docker.volumes = Baseline /\ lock = "free"
\* Whichever side removes a container, the volumes that were there before
\* the run are never removed with it.
BaselineKept == Baseline \subseteq docker.volumes
\* Every run comes to its end: released, or HELD with what it could not prove.
ReaderEnds == <>(main.pc = "ended" /\ (run.released \/ run.phase \in {"HELD", "REFUSED"}))

\* The laboratory cleans up: a released run left nothing of its own, and no run
\* takes away what was there before it.
ReaderClean == ReleasedIsClean /\ BaselineKept
=============================================================================
