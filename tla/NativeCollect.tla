---------------------------- MODULE NativeCollect ----------------------------
(***************************************************************************)
(* The collector of a native control's evidence, docs/poc:                 *)
(* pg16_shell_native_control_collect_entry.py drives, once,                *)
(* ..._collect_pinned.py, which runs the policy of ..._collect.py over the *)
(* backend of ..._collect_win32.py.  Directories and files are opened one  *)
(* under the other; every handle belongs to a slot that exists before the  *)
(* call; at the end the handles are closed backwards and the entry decides *)
(* between an exit code and parking for ever.  An interruption may come    *)
(* between any two statements, and a native call may answer anything.      *)
(***************************************************************************)
EXTENDS Naturals, Sequences, FiniteSets

CONSTANTS
  Plans,           \* what the evidence may ask to open, in order: "dir" or "file"
  MaxSlots,        \* slots of the ledger
  MaxInterrupts    \* console interruptions

VARIABLES
  c,    \* the policy: ledger of slots, custody, poison, reason
  b,    \* the backend: handles in _open, records in _retained
  k,    \* the kernel: handles really open; what the evidence holds, whether it changed
  e     \* the entry's progress and its decision

vars == <<c, b, k, e>>

Idle == [pc |-> "idle", n |-> 0, ledger |-> <<>>, custody |-> FALSE, uncertain |-> FALSE,
         poison |-> FALSE, listed |-> FALSE, control |-> FALSE, reason |-> "none", result |-> "none"]
Init ==
  /\ c = Idle /\ b = [open |-> {}, retained |-> {}] /\ k \in [handles : {{}}, changed : {FALSE}, hits : {0}, plan : Plans]
  /\ e = [pc |-> "load", registered |-> FALSE, armed |-> FALSE, attempts |-> 0, active |-> FALSE,
          attempted |-> FALSE, factory |-> FALSE, record |-> FALSE, native |-> FALSE, op |-> FALSE,
          backend |-> FALSE, unknown |-> FALSE, entered |-> FALSE, loaded |-> FALSE,
          uncertain |-> FALSE, fault |-> FALSE, control |-> FALSE, refusal |-> "none",
          outcome |-> "none", decision |-> "none", code |-> "none"]

At(pc) == c.pc = pc /\ e.pc = "active"
To(pc) == c' = [c EXCEPT !.pc = pc]
Stop(reason) == c' = [c EXCEPT !.reason = reason, !.pc = "cleanup", !.n = Len(c.ledger)]
Poisoned(x) == [x EXCEPT !.poison = TRUE]
Last == Len(c.ledger)

---------------------------------------------------------------------------
(* The policy: a slot, then the call, then what the slot says is adopted *)

\* The slot is in the ledger before the seam is called.
Slot ==
  /\ At("next") /\ c.n < Len(k.plan)
  /\ IF Len(c.ledger) >= MaxSlots THEN Stop("COLLECT_CAP")
     ELSE c' = [c EXCEPT !.ledger = Append(@, [status |-> "NEW", value |-> "none"]), !.pc = "open"]
  /\ UNCHANGED <<b, k, e>>
Adopted(x) ==
  CASE x.ledger[Last].value = "none" -> [x EXCEPT !.ledger[Last].status = "EMPTY"]
    [] x.ledger[Last].value = "unknown" ->
         Poisoned([x EXCEPT !.ledger[Last].status = "QUARANTINED", !.custody = TRUE])
    [] OTHER -> [x EXCEPT !.ledger[Last].status = "OWNED"]
Adopt ==
  /\ At("adopt")
  /\ LET x == Adopted(c) IN
     c' = IF x.ledger[Last].status = "OWNED" /\ c.reason = "none" THEN [x EXCEPT !.n = @ + 1, !.pc = "query"]
          ELSE [x EXCEPT !.reason = IF x.custody THEN "COLLECT_CUSTODY" ELSE "COLLECT_OPEN",
                         !.pc = "cleanup", !.n = Len(c.ledger)]
  /\ UNCHANGED <<b, k, e>>
\* An opener that raised: what it left in the slot is adopted all the same.
Refused == [c EXCEPT !.pc = "adopt", !.reason = "COLLECT_OPEN"]

---------------------------------------------------------------------------
(* The backend: _create *)

Blocked == b.retained # {}
\* _ready; a retained record would refuse here, but whatever leaves one ends the
\* gathering first.  The slot is unknown before the call.
CreateReady ==
  /\ At("open") /\ ~Blocked /\ UNCHANGED <<k, e>>
  /\ c' = [c EXCEPT !.ledger[Last].value = "unknown", !.pc = "create"]
  /\ b' = [b EXCEPT !.retained = @ \cup {<<"create", Last>>}]
\* The observer latches and captures the backend before it delegates.
Observed == [e EXCEPT !.op = TRUE, !.backend = TRUE]
\* Faulty variant of CreateCall: an answer that proves nothing is taken for a failure.
CreateCallHasty ==
  /\ At("create") /\ e' = Observed
  /\ \/ To("created") /\ k' = [k EXCEPT !.handles = @ \cup {Last}] /\ UNCHANGED b
     \/ /\ c' = [Refused EXCEPT !.ledger[Last].value = "none"]
        /\ b' = [b EXCEPT !.retained = @ \ {<<"create", Last>>}]
        /\ k' \in {k, [k EXCEPT !.handles = @ \cup {Last}]}
\* The call, through the entry's observer, which captures the backend first.
CreateCall ==
  /\ At("create") /\ e' = Observed
  /\ \/ To("created") /\ k' = [k EXCEPT !.handles = @ \cup {Last}] /\ UNCHANGED b
     \/ /\ c' = [Refused EXCEPT !.ledger[Last].value = "none"]       \* a known failure, no handle
        /\ b' = [b EXCEPT !.retained = @ \ {<<"create", Last>>}] /\ UNCHANGED k
     \/ /\ c' = Refused /\ UNCHANGED b                              \* an answer that proves nothing
        /\ k' \in {k, [k EXCEPT !.handles = @ \cup {Last}]}
CreateOpened ==
  At("created") /\ b' = [b EXCEPT !.open = @ \cup {Last}] /\ To("opened") /\ UNCHANGED <<k, e>>
CreatePublishes ==
  /\ At("opened") /\ c' = [c EXCEPT !.ledger[Last].value = "handle", !.pc = "published"] /\ UNCHANGED <<b, k, e>>
CreateSettles ==
  /\ At("published") /\ b' = [b EXCEPT !.retained = @ \ {<<"create", Last>>}] /\ UNCHANGED <<k, e>>
  /\ To(IF Last = 1 THEN "profile" ELSE "adopt")
\* _profile, of the anchor only: two queries of the volume, each of which may stay
\* retained; what is no local NTFS disk is refused over a handle that can be closed.
Profile ==
  /\ At("profile") /\ UNCHANGED <<k, e>>
  /\ \/ UNCHANGED b /\ c' \in {[c EXCEPT !.pc = "adopt"], Refused}
     \/ b' = [b EXCEPT !.retained = @ \cup {<<"io", Last>>}] /\ c' = Refused

---------------------------------------------------------------------------
(* Queries, reads and listings *)

\* _io: retained until the call is known to have completed.
Io(next, reason) ==
  \/ UNCHANGED b /\ next
  \/ UNCHANGED b /\ Stop(reason)
  \/ b' = [b EXCEPT !.retained = @ \cup {<<"io", c.n>>}] /\ Stop(reason)
\* _common, and the size of a file: what a query can find wrong.
Unfit == {"COLLECT_REPARSE", "COLLECT_TYPE", "COLLECT_LINKS", "COLLECT_CAP", "COLLECT_STREAMS"}
Query ==
  /\ At("query") /\ UNCHANGED <<k, e>>
  /\ \/ Io(To(IF k.plan[c.n] = "file" THEN "read" ELSE "list"), "COLLECT_BACKEND")
     \/ UNCHANGED b /\ \E r \in Unfit : Stop(r)
\* _expect and _cases: names too many, too few, or out of order.
Unlisted == {"COLLECT_TYPE", "COLLECT_EXTRA", "COLLECT_MISSING", "COLLECT_LISTING"}
\* Page after page, each a call of its own.
List ==
  /\ At("list") /\ UNCHANGED <<k, e>>
  /\ \/ Io(To("next"), "COLLECT_LISTING")
     \/ UNCHANGED b /\ \E r \in Unlisted : Stop(r)
Read == At("read") /\ Io(To("requery"), "COLLECT_READ") /\ UNCHANGED <<k, e>>
\* The same query once more, compared with what it said before the reading.
Requery ==
  /\ At("requery") /\ UNCHANGED <<k, e>>
  /\ Io(IF k.changed THEN Stop("COLLECT_CHANGED") ELSE To("next"), "COLLECT_BACKEND")
\* Every directory is listed a second time after the last file.
Relist ==
  /\ At("next") /\ c.n = Len(k.plan) /\ UNCHANGED <<k, e>>
  /\ Io(c' = [c EXCEPT !.reason = IF k.changed THEN "COLLECT_CHANGED" ELSE @, !.pc = "cleanup", !.n = Len(c.ledger)],
        "COLLECT_LISTING")
SomeoneWrites ==
  /\ ~k.changed /\ c.pc \in {"read", "requery", "next"} /\ k' = [k EXCEPT !.changed = TRUE] /\ UNCHANGED <<c, b, e>>

---------------------------------------------------------------------------
(* _cleanup, _release and the result *)

\* Backwards: one handle after the other is CLOSING before its close.
Cleanup ==
  /\ At("cleanup") /\ UNCHANGED <<k, e>>
  /\ IF c.n = 0 THEN To("release") /\ UNCHANGED b
     ELSE IF c.ledger[c.n].status # "OWNED" THEN c' = [c EXCEPT !.n = @ - 1] /\ UNCHANGED b
     ELSE IF Blocked
     THEN /\ c' = Poisoned([c EXCEPT !.ledger[c.n].status = "UNCERTAIN", !.uncertain = TRUE, !.n = @ - 1])
          /\ UNCHANGED b
     ELSE /\ c' = [c EXCEPT !.ledger[c.n].status = "CLOSING", !.pc = "closing"]
          /\ b' = [open |-> b.open \ {c.n}, retained |-> b.retained \cup {<<"close", c.n>>}]
CloseCall ==
  /\ At("closing") /\ UNCHANGED e
  /\ \/ /\ k' = [k EXCEPT !.handles = @ \ {c.n}]
        /\ b' = [b EXCEPT !.retained = @ \ {<<"close", c.n>>}]
        /\ c' = [c EXCEPT !.ledger[c.n].status = "CLOSED", !.n = @ - 1, !.pc = "cleanup"]
     \/ /\ k' \in {k, [k EXCEPT !.handles = @ \ {c.n}]} /\ UNCHANGED b
        /\ c' = Poisoned([c EXCEPT !.ledger[c.n].status = "UNCERTAIN", !.uncertain = TRUE,
                                   !.n = @ - 1, !.pc = "cleanup"])
Terminal ==
  /\ ~c.custody /\ ~c.uncertain
  /\ \A i \in DOMAIN c.ledger :
       c.ledger[i].status = "CLOSED" \/ (c.ledger[i].status = "EMPTY" /\ c.ledger[i].value = "none")
\* _release: the policy lets go of the state only over a terminal ledger.
Release ==
  /\ At("release") /\ UNCHANGED <<b, k, e>>
  /\ c' = [c EXCEPT !.pc = "result", !.listed = @ /\ ~Terminal, !.poison = @ \/ ~Terminal]
\* _verify: whatever the pinned verifier answers, or that it cannot be run.
Verified == {"INVALID", "VERIFIED_APPROVED", "VERIFIED_REJECTED"}
\* The verifier runs on what was captured, and only over closed handles.
Result ==
  /\ At("result") /\ UNCHANGED <<b, k>>
  /\ c' = [c EXCEPT !.pc = "idle",
                    !.result = IF c.custody \/ c.uncertain \/ c.poison \/ c.reason # "none" THEN "INVALID" ELSE @]
  /\ \E r \in IF c.control THEN {"RAISED"}
              ELSE IF c.custody \/ c.uncertain \/ c.poison \/ c.reason # "none" THEN {"INVALID"}
              ELSE Verified :
       e' = [e EXCEPT !.pc = "returned", !.outcome = r, !.control = @ \/ r = "RAISED"]

---------------------------------------------------------------------------
(* Interruptions of the policy *)

\* Where _gather is: outside _acquire, an interruption just ends it.
Gathering == {"next", "query", "list", "read", "requery"}
\* Inside the try of _acquire what the slot holds is adopted; before it and after
\* it nothing does so: the record stays NEW, or was adopted just before.
InTry == {"open", "create", "created", "opened", "published", "profile"}
OutsideTry == {"open", "adopt"}
Controlled(x) == [x EXCEPT !.control = TRUE, !.pc = "cleanup", !.n = Len(c.ledger)]
\* The last except of collect: the owner stays registered and is pinned, nothing is
\* closed again, and a handle on its way may have been left CLOSING.
Finalized(x) ==
  /\ c' = Poisoned([x EXCEPT !.pc = "idle"])
  /\ e' = [e EXCEPT !.pc = "returned", !.outcome = "RAISED", !.control = TRUE]
LeftClosing == [c EXCEPT !.ledger[c.n].status = "CLOSING"]
Interrupt ==
  /\ e.pc = "active" /\ e.active /\ k.hits < MaxInterrupts
  /\ LET hit == [k EXCEPT !.hits = @ + 1] IN
     \/ c.pc \in Gathering /\ c' = Controlled(c) /\ k' = hit /\ UNCHANGED <<b, e>>
     \/ c.pc \in InTry \cup OutsideTry /\ c' = Controlled(Adopted(c)) /\ k' = hit /\ UNCHANGED <<b, e>>
     \/ c.pc \in OutsideTry /\ c' = Controlled(c) /\ k' = hit /\ UNCHANGED <<b, e>>
     \/ /\ c.pc = "closing"                                 \* caught around the one close
        /\ c' = Poisoned([c EXCEPT !.ledger[c.n].status = "UNCERTAIN", !.uncertain = TRUE,
                                   !.control = TRUE, !.n = @ - 1, !.pc = "cleanup"])
        /\ k' = hit /\ UNCHANGED <<b, e>>
     \/ /\ c.pc = "closing" /\ Finalized(c)                 \* after it, before its answer is noted
        /\ k' = [hit EXCEPT !.handles = @ \ {c.n}] /\ b' = [b EXCEPT !.retained = @ \ {<<"close", c.n>>}]
     \/ c.pc \in {"cleanup", "release"} /\ Finalized(c) /\ k' = hit /\ UNCHANGED b
     \/ /\ c.pc = "cleanup" /\ c.n > 0 /\ c.ledger[c.n].status = "OWNED"
        /\ Finalized(LeftClosing) /\ k' = hit /\ UNCHANGED b
     \/ /\ c.pc = "result" /\ c' = [c EXCEPT !.pc = "idle"] /\ k' = hit /\ UNCHANGED b
        /\ e' = [e EXCEPT !.pc = "returned", !.outcome = "RAISED", !.control = TRUE]
\* The same signal while nothing is active, after the handlers are installed.
InterruptIgnored ==
  /\ e.armed /\ ~e.active /\ e.pc \notin {"exit", "hold"} /\ k.hits < MaxInterrupts
  /\ k' = [k EXCEPT !.hits = @ + 1] /\ UNCHANGED <<c, b, e>>

---------------------------------------------------------------------------
(* The entry: _advance *)

EntryAt(pc) == e.pc = pc /\ c.pc = "idle"
Forward == ~e.fault /\ ~e.control /\ ~e.uncertain
\* A pass that finds itself entered before was interrupted.
Load ==
  /\ EntryAt("load") /\ UNCHANGED <<c, b, k>>
  /\ LET x == [e EXCEPT !.uncertain = @ \/ e.entered, !.entered = TRUE] IN
     IF ~e.loaded /\ ~x.uncertain /\ ~e.fault /\ ~e.control
     THEN e' \in {[x EXCEPT !.loaded = TRUE, !.registered = TRUE, !.pc = "arm"],
                  [x EXCEPT !.loaded = TRUE, !.fault = TRUE, !.refusal = "COLLECT_ENTRY_LOAD", !.pc = "arm"],
                  [x EXCEPT !.loaded = TRUE, !.refusal = "COLLECT_ENTRY_LOAD", !.pc = "arm"]}
     ELSE e' = [x EXCEPT !.pc = "arm"]
Arm ==
  /\ EntryAt("arm") /\ UNCHANGED <<c, b, k>>
  /\ IF e.loaded /\ e.refusal = "none" /\ ~e.armed
     THEN e' \in {[e EXCEPT !.armed = TRUE, !.pc = "invoke"],
                  [e EXCEPT !.armed = TRUE, !.refusal = "COLLECT_ENTRY_ARM", !.pc = "invoke"]}
     ELSE e' = [e EXCEPT !.pc = "invoke"]
\* Until the handlers are there, an interruption breaks off the pass.
InterruptEarly ==
  /\ e.pc \in {"load", "arm"} /\ ~e.armed /\ k.hits < MaxInterrupts /\ k' = [k EXCEPT !.hits = @ + 1]
  /\ e' \in {[e EXCEPT !.control = TRUE, !.entered = TRUE, !.pc = "load"],
             [e EXCEPT !.control = TRUE, !.entered = TRUE, !.loaded = TRUE, !.pc = "load"]}
  /\ UNCHANGED <<c, b>>
\* The one attempt is reserved before the call.
Invoke ==
  /\ EntryAt("invoke") /\ UNCHANGED <<b, k>>
  /\ IF Forward /\ e.refusal = "none" /\ ~e.attempted
     THEN /\ e' = [e EXCEPT !.attempted = TRUE, !.active = TRUE, !.outcome = "NOT_CALLED", !.pc = "factory"]
          /\ UNCHANGED c
     ELSE e' = [e EXCEPT !.pc = "decide"] /\ UNCHANGED c
\* _collect_pinned before the factory is called: pins that do not match leave no
\* attempt, sources that do not execute leave one.
Unpinned ==
  /\ EntryAt("factory") /\ UNCHANGED <<c, b, k>>
  /\ \E n \in 0..1 : e' = [e EXCEPT !.attempts = n, !.pc = "returned", !.outcome = "INVALID"]
\* The factory: the record is captured before the native loader, which may have no
\* api or raise; the backend is made over what it gave.
Factory ==
  /\ EntryAt("factory") /\ UNCHANGED <<b, k>>
  /\ LET x == [e EXCEPT !.attempts = 1, !.factory = TRUE]
         y == [x EXCEPT !.record = TRUE, !.native = TRUE] IN
     \/ /\ c' = [Idle EXCEPT !.pc = "next", !.listed = TRUE] /\ e' = [y EXCEPT !.pc = "active"]
     \/ /\ UNCHANGED c
        /\ \E z \in {[x EXCEPT !.fault = TRUE], y, [y EXCEPT !.fault = TRUE]} :
             e' = [z EXCEPT !.pc = "returned", !.outcome = "INVALID"]
InterruptFactory ==
  /\ EntryAt("factory") /\ k.hits < MaxInterrupts /\ k' = [k EXCEPT !.hits = @ + 1]
  /\ \E n \in 0..1, called, record, native \in BOOLEAN :
       /\ (native => record) /\ (record => called) /\ (called => n = 1)
       /\ e' = [e EXCEPT !.pc = "returned", !.outcome = "RAISED", !.control = TRUE, !.attempts = n,
                         !.factory = called, !.record = record, !.native = native]
  /\ UNCHANGED <<c, b>>
\* The finally of _invoke; an interruption before it changes what was returned.
Returned ==
  /\ EntryAt("returned") /\ e' = [e EXCEPT !.active = FALSE, !.pc = "decide"] /\ UNCHANGED <<c, b, k>>
InterruptReturn ==
  /\ EntryAt("returned") /\ e.active /\ k.hits < MaxInterrupts /\ k' = [k EXCEPT !.hits = @ + 1]
  /\ e' \in {[e EXCEPT !.outcome = "RAISED", !.control = TRUE],
             [e EXCEPT !.active = FALSE, !.control = TRUE, !.pc = "load"]}
  /\ UNCHANGED <<c, b>>

---------------------------------------------------------------------------
(* decide, settle and the end *)

Inspect ==
  CASE e.unknown -> "UNKNOWN"
    [] ~e.loaded -> "UNKNOWN"
    [] ~e.registered -> IF e.attempted \/ e.factory \/ e.fault THEN "UNKNOWN" ELSE "QUIESCENT"
    [] ~e.factory -> IF e.attempts <= (IF e.attempted THEN 1 ELSE 0) THEN "QUIESCENT" ELSE "UNKNOWN"
    [] ~e.record -> "UNKNOWN"
    [] (e.native \/ e.op) /\ ~e.backend -> "UNKNOWN"
    [] OTHER -> IF c.listed \/ c.poison \/ b.open # {} \/ b.retained # {} THEN "RETAINED" ELSE "QUIESCENT"
Verdict(outcome) ==
  CASE outcome = "VERIFIED_APPROVED" -> "0" [] outcome = "VERIFIED_REJECTED" -> "1" [] OTHER -> "2"
Decision ==
  CASE Inspect # "QUIESCENT" -> "PARK"
    [] ~e.attempted -> "2"
    [] e.outcome \in {"NOT_CALLED", "RAISED"} \/ e.uncertain -> "5"
    [] OTHER -> Verdict(e.outcome)
Decide ==
  /\ EntryAt("decide") /\ UNCHANGED <<c, b, k>>
  /\ e' = [e EXCEPT !.decision = Decision, !.unknown = @ \/ Inspect = "UNKNOWN", !.pc = "settle"]
\* settle and _final: decided again before and after the line is printed.
Settle ==
  /\ EntryAt("settle") /\ UNCHANGED <<c, b, k>>
  /\ e' = IF e.decision # "PARK" /\ Decision = e.decision THEN [e EXCEPT !.pc = "exit", !.code = e.decision]
          ELSE [e EXCEPT !.pc = "hold"]

Next ==
  \/ Slot \/ Adopt \/ CreateReady \/ CreateCall \/ CreateOpened \/ CreatePublishes \/ CreateSettles \/ Profile
  \/ Query \/ List \/ Read \/ Requery \/ Relist \/ SomeoneWrites \/ Cleanup \/ CloseCall \/ Release \/ Result
  \/ Interrupt \/ InterruptIgnored \/ Load \/ Arm \/ InterruptEarly \/ Invoke \/ Unpinned \/ Factory
  \/ InterruptFactory \/ Returned \/ InterruptReturn \/ Decide \/ Settle
Spec == Init /\ [][Next]_vars

---------------------------------------------------------------------------
\* Wherever it is interrupted and whatever a native call answers, the entry exits
\* with a code only when no handle it opened is still open; it says that evidence
\* was verified only if the whole plan was read, nothing changed while it was, and
\* no interruption came before the answer; and a handle that may be open always
\* has a slot, a record or an entry of the backend that names it.
ExitOwnsNothing ==
  /\ e.code # "none" => k.handles = {}
  /\ e.code \in {"0", "1"} => c.n = 0 /\ Len(c.ledger) = Len(k.plan) /\ ~c.control /\ ~k.changed
  /\ \A x \in k.handles : x \in DOMAIN c.ledger /\
       (c.ledger[x].status # "CLOSED" /\ (x \in b.open \/ <<"create", x>> \in b.retained \/ <<"close", x>> \in b.retained))
=============================================================================
