----------------------------- MODULE DesktopCycle -----------------------------
(***************************************************************************)
(* The candidate run, docs/poc/oracle9_w1_run.py with the journal of       *)
(* oracle9_w1_run_v2.py over oracle9_cycle_freshness.py.  A fresh root is  *)
(* consumed once; Docker Desktop is started if it was off; a cycle of      *)
(* timed observations ends in B, the one permission for effects; two       *)
(* containers are created, run under a watchdog thread and removed, an     *)
(* image is committed, and the desktop is put back.  A command to the      *)
(* daemon may fail, lose its answer, or take effect only later; the        *)
(* process may die anywhere, and another may be started on the same root.  *)
(***************************************************************************)
EXTENDS Naturals, Integers, Sequences, FiniteSets

CONSTANTS
  Observations,   \* observations of a cycle
  GapTicks,       \* most ticks between two samples; one tick is the least between observations
  TotalTicks,     \* most ticks of a cycle
  MaxHosts        \* processes started on the root

VARIABLES
  h,      \* the process that consumed the root
  d,      \* the desktop, its containers and images, and effects still under way
  disk,   \* the root directory
  hosts   \* processes: how many started, how many hold a check of a fresh root

vars == <<h, d, disk, hosts>>

Roles == <<"install", "probe">>
OldCycle == [phase |-> "none", obs |-> 0, age |-> 0, failure |-> "none"]
NewHost ==
  [pc |-> "none", cyc |-> OldCycle, recs |-> <<>>, n |-> 1, active |-> "none", stop |-> TRUE,
   wd |-> "none", wdFailed |-> FALSE, fired |-> FALSE, initial |-> "unknown", started |-> FALSE,
   commitIntended |-> FALSE, commitId |-> FALSE, records |-> <<>>, flags |-> {}, failed |-> FALSE,
   clean |-> TRUE, state |-> "none"]
Init ==
  /\ h = NewHost
  /\ d \in [app : {"off", "on"}, con : {[r \in {"install", "probe"} |-> "none"]}, tag : {FALSE},
            late : {{}}, first : {"none"}]
  /\ disk = [invoked |-> FALSE, attempt |-> "FRESH", cycle |-> OldCycle, journal |-> <<>>, own |-> {},
             commit |-> FALSE, result |-> "none", stuck |-> {}]
  /\ hosts = [started |-> 0, admitted |-> 0]

At(pc) == h.pc = pc
To(pc) == h' = [h EXCEPT !.pc = pc]
Set(x, flags) == [x EXCEPT !.flags = @ \cup flags]

---------------------------------------------------------------------------
(* The cycle: oracle9_cycle_freshness *)

\* A sample: same boot or not, ticks since the anchor, clocks that agree or not.
Samples(c) == [boot : BOOLEAN, age : (c.age - 1)..(c.age + GapTicks + 1), agrees : BOOLEAN]
StartCycle == [phase |-> "A", obs |-> 0, age |-> 0, failure |-> "none"]
CheckAge(c, s) ==
  CASE ~s.boot -> "BOOT" [] s.age < c.age -> "ROLLBACK" [] ~s.agrees -> "DISAGREEMENT"
    [] s.age > TotalTicks -> "TOTAL_AGE" [] s.age - c.age > GapTicks -> "GAP" [] OTHER -> "none"
\* What action makes of a cycle that is fresh enough: its order, then its pace.
Advanced(c, s, action, aged) ==
  LET fits == CASE action = "OBSERVE" -> c.phase \in {"A", "OBSERVING"} /\ c.obs < Observations
                [] action = "READY" -> c.phase = "OBSERVING" /\ c.obs = Observations
                [] OTHER -> c.phase = "READY"
      r == CASE aged # "none" -> aged [] ~fits -> "ORDER"
             [] action = "OBSERVE" /\ s.age - c.age < 1 -> "TOO_EARLY" [] OTHER -> "none"
  IN CASE c.phase \in {"FAILED", "ABORTED", "B_CONSUMED"} -> c
       [] r # "none" -> [c EXCEPT !.phase = "FAILED", !.failure = r]
       [] OTHER -> [c EXCEPT !.age = s.age, !.obs = IF action = "OBSERVE" THEN @ + 1 ELSE @,
                             !.phase = CASE action = "OBSERVE" -> "OBSERVING"
                                         [] action = "READY" -> "READY" [] OTHER -> "B_CONSUMED"]
\* Faulty variant of Advance: the age of the whole cycle is checked for observations only.
AdvanceStale(c, s, action) ==
  LET aged == CheckAge(c, s)
  IN Advanced(c, s, action, IF aged = "TOTAL_AGE" /\ action # "OBSERVE" THEN "none" ELSE aged)
Advance(c, s, action) == Advanced(c, s, action, CheckAge(c, s))
AbortCycle(c) ==
  IF c.phase \in {"FAILED", "ABORTED", "B_CONSUMED"} THEN c ELSE [c EXCEPT !.phase = "ABORTED"]
\* Cycle.__post_init__: what every cycle, built or read back, must satisfy.
Extra(phase) == CASE phase \in {"A", "OBSERVING"} -> 0 [] phase = "READY" -> 1 [] OTHER -> 2
CycleValid(c) ==
  /\ c.obs \in 0..Observations /\ c.obs <= c.age /\ c.age <= TotalTicks
  /\ c.age <= (c.obs + Extra(c.phase)) * GapTicks
  /\ (c.phase = "FAILED") <=> (c.failure # "none")
  /\ c.phase = "A" => c.obs = 0 /\ c.age = 0
  /\ c.phase = "OBSERVING" => c.obs >= 1
  /\ c.phase \in {"READY", "B_CONSUMED"} => c.obs = Observations

---------------------------------------------------------------------------
(* Files: a save may fail, and what it leaves behind makes every later one fail *)

CanSave(f) == f \notin disk.stuck
NotSaved(f) == disk' \in {disk, [disk EXCEPT !.stuck = @ \cup {f}]}
\* action_for and replay: the record that may follow the journal so far.
ActionFor(journal, c) ==
  IF journal = <<>> THEN c.phase = "A"
  ELSE LET p == journal[Len(journal)] IN
    \/ c.phase = "OBSERVING" /\ p.phase \in {"A", "OBSERVING"} /\ c.obs = p.obs + 1
    \/ c.phase = "READY" /\ p.phase = "OBSERVING" /\ c.obs = Observations /\ p.obs = Observations
    \/ c.phase = "B_CONSUMED" /\ p.phase = "READY"
Replays(journal) ==
  \A i \in DOMAIN journal : ActionFor(SubSeq(journal, 1, i - 1), journal[i]) /\ CycleValid(journal[i])
\* v2 save of cycle.json: the file, then the next checkpoint, unless nothing new.
Journaled(c) ==
  c.phase \notin {"FAILED", "ABORTED"} /\ (h.records = <<>> \/ h.records[Len(h.records)] # c)
SaveCycle(c, next) ==
  \/ /\ CanSave("cycle")
     /\ IF Journaled(c)
        THEN \/ /\ ActionFor(h.records, c)
                /\ disk' = [disk EXCEPT !.cycle = c, !.journal = Append(@, c)]
                /\ h' = [next EXCEPT !.records = Append(@, c)]
             \/ /\ disk' \in {[disk EXCEPT !.cycle = c], [disk EXCEPT !.cycle = c, !.journal = Append(@, c)]}
                /\ h' = [next EXCEPT !.pc = "failed"]           \* the checkpoint's write failed
        ELSE disk' = [disk EXCEPT !.cycle = c] /\ h' = next
  \/ NotSaved("cycle") /\ h' = [next EXCEPT !.pc = "failed"]

---------------------------------------------------------------------------
(* main: the root is consumed *)

Admit ==
  /\ hosts.started < MaxHosts /\ ~disk.invoked /\ disk.attempt = "FRESH"
  /\ hosts' = [hosts EXCEPT !.started = @ + 1, !.admitted = @ + 1] /\ UNCHANGED <<h, d, disk>>
\* invoked.json is created exclusively: of several that saw a fresh root, one.
Invoke ==
  /\ hosts.admitted > 0 /\ hosts' = [hosts EXCEPT !.admitted = @ - 1]
  /\ \/ disk.invoked /\ UNCHANGED <<h, d, disk>>
     \/ /\ ~disk.invoked /\ disk' = [disk EXCEPT !.invoked = TRUE, !.attempt = "INVOKED"]
        /\ d' = [d EXCEPT !.first = d.app]
        /\ h' = [NewHost EXCEPT !.pc = "start"]
\* A step of start_cycle or perform_b that raises.
Raises == /\ h.pc \in {"start", "rows", "app", "observe", "preflight", "ready", "B", "journal", "intent",
                       "create", "inspect", "copy", "run", "report", "attest", "commit-intent",
                       "commit", "candidate", "verify"}
          /\ To("failed") /\ UNCHANGED <<d, disk, hosts>>

---------------------------------------------------------------------------
(* start_cycle *)

BeginCycle ==
  /\ At("start") /\ SaveCycle(StartCycle, [h EXCEPT !.cyc = StartCycle, !.pc = "rows"])
  /\ UNCHANGED <<d, hosts>>
\* Whether the desktop runs already is read once and kept.
InitialRows ==
  /\ At("rows")
  /\ h' = [h EXCEPT !.initial = IF d.app = "off" THEN "off" ELSE "on",
                    !.pc = IF d.app = "off" THEN "app" ELSE "observe"]
  /\ UNCHANGED <<d, disk, hosts>>
\* START_COMMAND: the answer carries the identity; it may be lost.
StartApp ==
  /\ At("app") /\ d.app = "off" /\ d' = [d EXCEPT !.app = "own"]
  /\ h' \in {[h EXCEPT !.started = TRUE, !.pc = "observe"], [h EXCEPT !.pc = "failed"]}
  /\ UNCHANGED <<disk, hosts>>
\* check_app: rows, and among them the one this run started.
AppSeen == d.app # "off" /\ (h.started => d.app = "own")
Checkpoint(action, next) ==
  /\ AppSeen
  /\ \E s \in Samples(h.cyc) :
       LET c == Advance(h.cyc, s, action) IN
       /\ s.age >= 0
       /\ SaveCycle(c, [h EXCEPT !.cyc = c, !.pc = IF c.phase = "FAILED" THEN "failed" ELSE next])
  /\ UNCHANGED <<d, hosts>>
Observe ==
  /\ At("observe") /\ h.cyc.obs < Observations - 1 /\ Checkpoint("OBSERVE", "observe")
\* The daemon, an empty inventory and the base image are checked before the last.
Preflight ==
  /\ At("observe") /\ h.cyc.obs = Observations - 1
  /\ d.app # "off" /\ d.con = [r \in {"install", "probe"} |-> "none"] /\ ~d.tag
  /\ To("preflight") /\ UNCHANGED <<d, disk, hosts>>
ObserveLast == At("preflight") /\ Checkpoint("OBSERVE", "ready")
ReadyStep == At("ready") /\ d.app # "off" /\ Checkpoint("READY", "B")
BStep == At("B") /\ Checkpoint("B", "journal")
JournalFromDisk ==
  /\ At("journal")
  /\ IF Len(disk.journal) = Observations + 3 /\ Replays(disk.journal)
        /\ disk.journal[Len(disk.journal)] = h.cyc
     THEN h' = [Set(h, {"journal_verified"}) EXCEPT !.pc = "intent"]
     ELSE To("failed")
  /\ UNCHANGED <<d, disk, hosts>>

---------------------------------------------------------------------------
(* perform_b: effects *)

\* A command and its effect: done and answered, refused, done with the answer
\* lost, or still to be done by the daemon when the answer is given up.
Command(done, answered, late) ==
  \/ d' = done /\ h' = answered
  \/ d' \in {d, done, [d EXCEPT !.late = @ \cup late]} /\ h' = [h EXCEPT !.pc = "failed"]
Role == Roles[h.n]
\* The intent is durable before the create, an ambiguous answer included.
Intent ==
  /\ At("intent") /\ h.cyc.phase = "B_CONSUMED"
  /\ LET x == [h EXCEPT !.recs = Append(@, [cid |-> FALSE, removed |-> FALSE])] IN
     \/ CanSave("ownership") /\ disk' = [disk EXCEPT !.own = @ \cup {Role}] /\ h' = [x EXCEPT !.pc = "create"]
     \/ NotSaved("ownership") /\ h' = [x EXCEPT !.pc = "failed"]
  /\ UNCHANGED <<d, hosts>>
Create ==
  /\ At("create") /\ d.app # "off"
  /\ Command([d EXCEPT !.con[Role] = "idle"], [h EXCEPT !.recs[h.n].cid = TRUE, !.pc = "inspect"], {Role})
  /\ UNCHANGED <<disk, hosts>>
InspectOwn ==
  /\ At("inspect") /\ d.con[Role] = "idle"
  /\ IF CanSave("ownership") THEN To(IF h.n = 1 THEN "copy" ELSE "run") ELSE To("failed")
  /\ UNCHANGED <<d, disk, hosts>>
CopyInputs == At("copy") /\ d.con[Role] = "idle" /\ To("run") /\ UNCHANGED <<d, disk, hosts>>
\* run_own: a watchdog for the active record, then start --attach.
RunOwn ==
  /\ At("run") /\ d.con[Role] = "idle"
  /\ h' = [h EXCEPT !.active = Role, !.stop = FALSE, !.wd = "wait", !.pc = "attach"]
  /\ UNCHANGED <<d, disk, hosts>>
Attach ==
  /\ At("attach")
  /\ \/ /\ d.con[Role] = "idle" /\ d' \in {[d EXCEPT !.con[Role] = s] : s \in {"exit0", "bad"}}
        /\ h' = [h EXCEPT !.stop = TRUE, !.pc = "joined"]
     \/ /\ d' \in {d} \cup {[d EXCEPT !.con[Role] = s] : s \in {"running", "exit0"}}
        /\ h' = [h EXCEPT !.stop = TRUE, !.pc = "joined-failed"]
  /\ UNCHANGED <<disk, hosts>>
\* The join has a time limit: what the thread does after it is its own.
Join(pc, next) ==
  /\ At(pc) /\ UNCHANGED <<d, disk, hosts>>
  /\ To(IF h.wd \in {"none", "done"} /\ ~h.wdFailed THEN next ELSE "failed")
AfterAttach == Join("joined", "report")
AttachFailed == Join("joined-failed", "failed")
Report ==
  /\ At("report")
  /\ IF d.con[Role] = "exit0" /\ ~h.fired
     THEN h' = [h EXCEPT !.active = "none", !.pc = IF h.n = 1 THEN "attest" ELSE "verify"]
     ELSE To("failed")
  /\ UNCHANGED <<d, disk, hosts>>
CheckAttestation ==
  At("attest") /\ ~d.tag /\ To("commit-intent") /\ UNCHANGED <<d, disk, hosts>>
CommitIntent ==
  /\ At("commit-intent") /\ d.con["install"] = "exit0"
  /\ \/ disk' = [disk EXCEPT !.commit = TRUE] /\ h' = [h EXCEPT !.commitIntended = TRUE, !.pc = "commit"]
     \/ UNCHANGED disk /\ h' = [h EXCEPT !.commitIntended = TRUE, !.pc = "failed"]
  /\ UNCHANGED <<d, hosts>>
Commit ==
  /\ At("commit") /\ d.con["install"] = "exit0"
  /\ Command([d EXCEPT !.tag = TRUE], [h EXCEPT !.commitId = TRUE, !.pc = "candidate"], {"tag"})
  /\ UNCHANGED <<disk, hosts>>
Candidate ==
  At("candidate") /\ d.tag /\ h' = [h EXCEPT !.n = 2, !.pc = "intent"] /\ UNCHANGED <<d, disk, hosts>>
Verify ==
  /\ At("verify")
  /\ h' = IF h.fired THEN [h EXCEPT !.pc = "failed"] ELSE [Set(h, {"update_verified"}) EXCEPT !.pc = "cleanup"]
  /\ UNCHANGED <<d, disk, hosts>>

---------------------------------------------------------------------------
(* The watchdog thread *)

WatchdogWakes ==
  /\ h.wd = "wait"
  /\ h' \in {[h EXCEPT !.wd = "fired", !.fired = TRUE]} \cup
            (IF h.stop THEN {[h EXCEPT !.wd = "done"]} ELSE {})
  /\ UNCHANGED <<d, disk, hosts>>
WatchdogActs ==
  /\ h.wd = "fired"
  /\ \/ h.active = "none" /\ h' = [h EXCEPT !.wd = "done"] /\ UNCHANGED d
     \/ h.active # "none" /\ h' = [h EXCEPT !.wd = "done", !.wdFailed = TRUE] /\ UNCHANGED d
     \/ /\ h.active # "none" /\ d.con[h.active] # "none" /\ h' = [h EXCEPT !.wd = "done"]
        /\ d' = IF d.con[h.active] = "running" THEN [d EXCEPT !.con[h.active] = "bad"] ELSE d
  /\ UNCHANGED <<disk, hosts>>

---------------------------------------------------------------------------
(* The except and finally of main *)

\* The aborted cycle is saved; if that raises too, finally still runs.
Failed ==
  /\ At("failed")
  /\ LET c == AbortCycle(h.cyc)
         x == [h EXCEPT !.failed = TRUE, !.pc = "cleanup", !.cyc = c]
     IN IF h.cyc.phase = "none" THEN h' = x /\ UNCHANGED disk
        ELSE \/ CanSave("cycle") /\ ~Journaled(c) /\ disk' = [disk EXCEPT !.cycle = c] /\ h' = x
             \/ /\ CanSave("cycle") /\ Journaled(c) /\ h' = x
                /\ disk' = [disk EXCEPT !.cycle = c,
                              !.journal = IF Len(@) = Len(h.records) /\ ActionFor(@, c) THEN Append(@, c) ELSE @]
             \/ NotSaved("cycle") /\ h' = x
  /\ UNCHANGED <<d, hosts>>
\* cleanup_owned: the thread is joined, then the records backwards.
CleanupBegins ==
  /\ At("cleanup")
  /\ h' = [h EXCEPT !.stop = TRUE, !.clean = h.wd \in {"none", "done"} /\ ~h.wdFailed,
                    !.n = Len(h.recs), !.pc = IF h.recs = <<>> THEN "cleaned" ELSE "record"]
  /\ UNCHANGED <<d, disk, hosts>>
NextRecord(x) == [x EXCEPT !.n = @ - 1, !.pc = IF h.n = 1 THEN "cleaned" ELSE "record"]
Removed(x) == [x EXCEPT !.recs[h.n].removed = TRUE]
CleanupRaises == h' = [h EXCEPT !.clean = FALSE, !.pc = "restore", !.flags = @ \ {"owned_cleanup"}]
\* An intent without an id: the name is looked up; nothing there is taken as removed.
ResolveIntent ==
  /\ At("record") /\ ~h.recs[h.n].cid /\ d.con[Role] = "none" /\ d.app # "off"
  /\ h' = NextRecord(Removed(h)) /\ UNCHANGED <<d, disk, hosts>>
CleanupRecord ==
  /\ At("record") /\ d.con[Role] # "none" /\ d.app # "off"
  /\ \/ CanSave("ownership") /\ d' = [d EXCEPT !.con[Role] = "none"] /\ h' = NextRecord(Removed(h))
     \/ /\ CanSave("ownership") /\ h' = NextRecord([h EXCEPT !.clean = FALSE])
        /\ d' \in {d, [d EXCEPT !.con[Role] = "none"], [d EXCEPT !.con[Role] = "bad"]}
     \/ ~CanSave("ownership") /\ CleanupRaises /\ UNCHANGED d
  /\ UNCHANGED <<disk, hosts>>
CleanupUnanswered ==
  /\ At("record")
  /\ \/ CanSave("ownership") /\ h' = NextRecord([h EXCEPT !.clean = FALSE])
     \/ ~CanSave("ownership") /\ CleanupRaises
  /\ UNCHANGED <<d, disk, hosts>>
\* The tag goes unless the update was verified, and only over a clean removal.
CleanupTag ==
  /\ At("cleaned")
  /\ LET x == [h EXCEPT !.active = "none", !.pc = "inventory",
                        !.flags = IF h.clean THEN @ \cup {"owned_cleanup"} ELSE @] IN
     IF ~h.commitIntended \/ "update_verified" \in h.flags THEN h' = x /\ UNCHANGED d
     ELSE \/ /\ h.clean /\ d.app # "off" /\ d' = [d EXCEPT !.tag = FALSE]
             /\ h' = Set(x, {"candidate_cleanup"})
          \/ /\ d' \in {d, IF h.clean THEN [d EXCEPT !.tag = FALSE] ELSE d}
             /\ h' = [x EXCEPT !.flags = @ \ {"owned_cleanup"}]
  /\ UNCHANGED <<disk, hosts>>
EmptyInventory == d.app # "off" /\ \A r \in DOMAIN d.con : d.con[r] = "none"
InventoryFinal ==
  /\ At("inventory")
  /\ \/ EmptyInventory /\ h' = [Set(h, {"inventory_restored"}) EXCEPT !.pc = "restore"]
     \/ To("restore")
  /\ UNCHANGED <<d, disk, hosts>>

---------------------------------------------------------------------------
(* restore_desktop, and the result *)

Pending == To("pins")
Restored(x) == [Set(x, {"desktop_restored"}) EXCEPT !.pc = "pins"]
RestorePreserved ==
  /\ At("restore") /\ h.initial = "on"
  /\ \/ AppSeen /\ CanSave("processes") /\ h' = Restored(h)
     \/ Pending
  /\ UNCHANGED <<d, disk, hosts>>
RestoreUnstarted ==
  /\ At("restore") /\ h.initial # "on" /\ ~h.started
  /\ \/ h.initial = "off" /\ d.app = "off" /\ h' = Restored(h)
     \/ Pending
  /\ UNCHANGED <<d, disk, hosts>>
\* Only what this run started is stopped, and only over an empty inventory.
RestoreOwn ==
  /\ At("restore") /\ h.started
  /\ \/ Pending
     \/ "owned_cleanup" \in h.flags /\ AppSeen /\ EmptyInventory /\ To("stop")
  /\ UNCHANGED <<d, disk, hosts>>
StopDesktop ==
  /\ At("stop")
  /\ \/ Pending /\ UNCHANGED d
     \/ /\ d' = [d EXCEPT !.app = "off", !.late = {}]
        /\ h' \in {Restored(h), [h EXCEPT !.pc = "pins"]}
  /\ UNCHANGED <<disk, hosts>>
PinsAgain ==
  /\ At("pins") /\ h' \in {[Set(h, {"inputs_unchanged"}) EXCEPT !.pc = "attempt"], [h EXCEPT !.pc = "attempt"]}
  /\ UNCHANGED <<d, disk, hosts>>
Success ==
  /\ {"update_verified", "owned_cleanup", "inventory_restored", "desktop_restored",
      "inputs_unchanged", "journal_verified"} \subseteq h.flags
  /\ ~h.fired /\ ~h.wdFailed /\ ~h.failed
SaveAttempt ==
  /\ At("attempt") /\ h' = [h EXCEPT !.state = IF Success THEN "FINISHED" ELSE "ABORTED", !.pc = "result"]
  /\ disk' = [disk EXCEPT !.attempt = IF Success THEN "FINISHED" ELSE "ABORTED"] /\ UNCHANGED <<d, hosts>>
SaveResult ==
  /\ At("result") /\ To("ended")
  /\ disk' = [disk EXCEPT !.result = IF h.state = "FINISHED" THEN "VERIFIED" ELSE "NOT_PASSED"]
  /\ UNCHANGED <<d, hosts>>

---------------------------------------------------------------------------
(* What else happens *)

\* The daemon gets to what it had accepted; a desktop that stops ends all of it.
LateEffect ==
  /\ d.app # "off"
  /\ \E x \in d.late :
       d' = IF x = "tag" THEN [d EXCEPT !.late = @ \ {x}, !.tag = d.con["install"] # "none"]
            ELSE [d EXCEPT !.late = @ \ {x}, !.con[x] = "idle"]
  /\ UNCHANGED <<h, disk, hosts>>
AppVanishes ==
  /\ d.app # "off" /\ h.pc \in {"observe", "create", "record", "restore"}
  /\ d' = [d EXCEPT !.app = "off", !.late = {},
                    !.con = [r \in DOMAIN d.con |-> IF @[r] = "running" THEN "bad" ELSE @[r]]]
  /\ UNCHANGED <<h, disk, hosts>>
Crash ==
  /\ h.pc \notin {"none", "ended", "dead"}
  /\ h' = [NewHost EXCEPT !.pc = "dead"] /\ UNCHANGED <<d, disk, hosts>>

Next ==
  \/ Admit \/ Invoke \/ Raises \/ BeginCycle \/ InitialRows \/ StartApp \/ Observe \/ Preflight
  \/ ObserveLast \/ ReadyStep \/ BStep \/ JournalFromDisk \/ Intent \/ Create \/ InspectOwn
  \/ CopyInputs \/ RunOwn \/ Attach \/ AfterAttach \/ AttachFailed \/ Report \/ CheckAttestation
  \/ CommitIntent \/ Commit \/ Candidate \/ Verify \/ WatchdogWakes \/ WatchdogActs \/ Failed
  \/ CleanupBegins \/ ResolveIntent \/ CleanupRecord \/ CleanupUnanswered \/ CleanupTag
  \/ InventoryFinal \/ RestorePreserved \/ RestoreUnstarted \/ RestoreOwn \/ StopDesktop
  \/ PinsAgain \/ SaveAttempt \/ SaveResult \/ LateEffect \/ AppVanishes \/ Crash
Spec == Init /\ [][Next]_vars

---------------------------------------------------------------------------
\* Whatever fails, is lost or comes late, and wherever the process dies: what
\* exists or may still come to exist in the daemon was announced on disk before,
\* in a root that was consumed and whose journal replays to B within the limits
\* of the cycle; and B is never journalled twice.
EffectsAreAnnounced ==
  /\ \A r \in DOMAIN d.con : (d.con[r] # "none" \/ r \in d.late) =>
       /\ r \in disk.own /\ disk.invoked
       /\ Replays(disk.journal) /\ disk.journal[Len(disk.journal)].phase = "B_CONSUMED"
  /\ (d.tag \/ "tag" \in d.late) => disk.commit
  /\ Cardinality({i \in DOMAIN disk.journal : disk.journal[i].phase = "B_CONSUMED"}) <= 1
  /\ \A i \in DOMAIN disk.journal : CycleValid(disk.journal[i])
\* A run that publishes VERIFIED left the image and nothing else: no container,
\* nothing under way, no watchdog still to act, the desktop as it was found; and
\* a desktop that was on is never stopped, nor one with something still running.
VerifiedLeavesTheImage ==
  /\ disk.result = "VERIFIED" =>
       /\ d.tag /\ d.late = {} /\ \A r \in DOMAIN d.con : d.con[r] = "none"
       /\ h.wd = "done" /\ ~h.fired /\ (d.first = "off" <=> d.app = "off")
  /\ h.pc = "stop" => d.first = "off" /\ \A r \in DOMAIN d.con : d.con[r] \in {"none", "idle"}

\* The cycle is sound: effects are announced before they may exist, and a verified
\* run leaves the image and nothing else.
CycleSound == EffectsAreAnnounced /\ VerifiedLeavesTheImage
=============================================================================
