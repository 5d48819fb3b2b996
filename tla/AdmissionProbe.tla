---------------------------- MODULE AdmissionProbe ----------------------------
(***************************************************************************)
(* The admission probe, docs/poc/pg16_shell_admission_probe.py, as a child *)
(* of the caller pg16_shell_admission_host.py: it claims its nonce, times  *)
(* four stages once, marks the root, publishes a result and prints one     *)
(* line.  The caller may end it at any moment, and afterwards projects     *)
(* what it finds into an outcome.  A second caller finds the root used.    *)
(***************************************************************************)
EXTENDS Naturals, Integers, Sequences, FiniteSets

CONSTANTS
  Elapsed,      \* what the two clock readings may be apart, in seconds
  MaxCallers    \* callers that take the same root, one after the other

VARIABLES
  pr,      \* the probe: where it is, what it measured, its line and status
  files,   \* claim, marker, result and its ".next": "none", "whole" or "short"
  host     \* the caller: its reason to stop, its outcome

vars == <<pr, files, host>>

Stages == <<"admit", "Host", "Context", "final_pins">>
LimitSeconds == 3
FileNames == {"claim", "marker", "next", "result"}
NoProbe == [pc |-> "none", done |-> 0, ticks |-> TRUE, elapsed |-> 0, failed |-> "none",
            result |-> [outcome |-> "none"], line |-> "none", status |-> 9]
Init ==
  /\ pr = NoProbe /\ files = [f \in FileNames |-> "none"]
  /\ host = [callers |-> 0, pc |-> "idle", reason |-> "none", outcome |-> "none"]

---------------------------------------------------------------------------
(* The probe *)

InProbe(pc) == pr.pc = pc /\ host.pc = "supervise"
Refuses == pr' = [pr EXCEPT !.line = "REFUSED", !.status = 1, !.pc = "print"]
To(pc) == pr' = [pr EXCEPT !.pc = pc]
ProbeChecks ==
  /\ InProbe("start")
  /\ \/ Refuses
     \/ files["claim"] = "none" /\ files["next"] = "none" /\ files["result"] = "none" /\ To("claim")
  /\ UNCHANGED <<files, host>>
\* persist: a new file, written, synced and read back; or something short of it.
Persist(f, next) ==
  \/ files[f] = "none" /\ files' = [files EXCEPT ![f] = "whole"] /\ To(next)
  \/ files[f] = "none" /\ files' = [files EXCEPT ![f] = "short"] /\ Refuses
  \/ UNCHANGED files /\ Refuses
Claim == InProbe("claim") /\ Persist("claim", "measure") /\ UNCHANGED host
\* One stage: it completes or raises, and a tick is taken either way.
Measure ==
  /\ InProbe("measure") /\ pr.done < Len(Stages) /\ pr.failed = "none"
  /\ \E ok, later \in BOOLEAN :
       pr' = [pr EXCEPT !.done = @ + 1, !.ticks = @ /\ later,
                        !.failed = IF ok THEN "none" ELSE Stages[pr.done + 1]]
  /\ UNCHANGED <<files, host>>
Valid(p) == p.ticks /\ p.elapsed >= 0
Classify(p) ==
  [outcome |-> CASE p.failed # "none" -> "STAGE_FAILED" [] ~Valid(p) -> "CLOCK_INVALID"
                 [] p.elapsed <= LimitSeconds -> "WITHIN_3S" [] OTHER -> "OVER_3S",
   stage |-> p.failed,
   category |-> CASE p.failed # "none" -> "STAGE_EXCEPTION" [] ~Valid(p) -> "CLOCK_INVALID"
                  [] OTHER -> "none",
   valid |-> Valid(p),
   elapsed |-> IF Valid(p) THEN p.elapsed ELSE -1,
   filled |-> IF Valid(p) THEN p.done ELSE 0]
Measured ==
  /\ InProbe("measure") /\ (pr.done = Len(Stages) \/ pr.failed # "none")
  /\ \E s \in Elapsed :
       pr' = [pr EXCEPT !.elapsed = s, !.result = Classify([pr EXCEPT !.elapsed = s]), !.pc = "mark"]
  /\ UNCHANGED <<files, host>>
Marker == InProbe("mark") /\ Persist("marker", "pending") /\ UNCHANGED host
Pending == InProbe("pending") /\ Persist("next", "publish") /\ UNCHANGED host
\* The rename is the last thing done to a file.
Publish ==
  /\ InProbe("publish")
  /\ \/ Refuses /\ UNCHANGED files
     \/ /\ files["result"] = "none" /\ files' = [files EXCEPT !["result"] = files["next"], !["next"] = "none"]
        /\ pr' = [pr EXCEPT !.line = pr.result.outcome, !.pc = "print",
                            !.status = IF pr.result.outcome = "WITHIN_3S" THEN 0 ELSE 1]
  /\ UNCHANGED host
\* main: an interruption of the probe never becomes a result.
ProbeInterrupted ==
  /\ pr.pc \in {"start", "claim", "measure", "mark", "pending", "publish"} /\ host.pc = "supervise"
  /\ pr' = [pr EXCEPT !.line = "INTERRUPTED", !.status = 2, !.pc = "print"]
  /\ UNCHANGED <<files, host>>
\* The line is printed, or standard output is broken.
PrintLine ==
  /\ InProbe("print")
  /\ \/ To("exited")
     \/ pr' = [pr EXCEPT !.pc = "exited", !.line = "none", !.status = IF @ = 0 THEN 1 ELSE @]
  /\ UNCHANGED <<files, host>>

---------------------------------------------------------------------------
(* The caller *)

\* A fresh root: no claim, no marker, no result, and no private directory of
\* an earlier call.
Call ==
  /\ host.pc = "idle" /\ host.callers < MaxCallers
  /\ IF (\A f \in FileNames : files[f] = "none") /\ host.callers = 0
     THEN pr' = [NoProbe EXCEPT !.pc = "start"] /\
          host' = [host EXCEPT !.callers = @ + 1, !.pc = "supervise", !.reason = "none"]
     ELSE UNCHANGED pr /\ host' = [host EXCEPT !.callers = @ + 1, !.outcome = "CONSUMED"]
  /\ UNCHANGED files
\* The deadline, an overflow or a broken clock: the child is ended where it is.
Stop ==
  /\ host.pc = "supervise" /\ host.reason = "none"
  /\ \E r \in {"DEADLINE", "OUTPUT_OVERFLOW", "CALLER_CLOCK", "TREE_UNPROVEN"} :
       host' = [host EXCEPT !.reason = r]
  /\ pr' = IF pr.pc = "exited" THEN pr ELSE [pr EXCEPT !.pc = "killed", !.line = "none", !.status = 1]
  /\ UNCHANGED files
Supervised ==
  /\ host.pc = "supervise" /\ pr.pc \in {"exited", "killed"}
  /\ host' = [host EXCEPT !.pc = "project"] /\ UNCHANGED <<pr, files>>

Outcomes == {"WITHIN_3S", "OVER_3S", "STAGE_FAILED", "CLOCK_INVALID"}
StageIndex(s) == CHOOSE i \in DOMAIN Stages : Stages[i] = s
\* _classification: the relations of the probe's classify, not its label alone.
Classification(r) ==
  CASE r.outcome = "STAGE_FAILED" -> r.category = "STAGE_EXCEPTION" /\
                                     (r.valid => r.filled = StageIndex(r.stage))
    [] r.outcome = "CLOCK_INVALID" -> r.stage = "none" /\ r.category = "CLOCK_INVALID" /\ ~r.valid
    [] OTHER -> /\ r.stage = "none" /\ r.category = "none" /\ r.valid /\ r.filled = Len(Stages)
                /\ (r.outcome = "WITHIN_3S") <=> (0 <= r.elapsed /\ r.elapsed <= LimitSeconds)
Coherent ==
  /\ files["result"] = "whole" /\ files["claim"] = "whole" /\ files["marker"] = "whole"
  /\ files["next"] = "none" /\ Classification(pr.result) /\ pr.result.outcome = pr.line
\* _project: in the order of the code's tests.
Projection ==
  CASE host.reason # "none" -> host.reason
    [] pr.line = "none" -> "OUTPUT_MISMATCH"
    [] pr.line = "INTERRUPTED" -> "INTERRUPTED"
    [] pr.line \notin Outcomes -> "RESULT_MISSING"
    [] pr.status # (IF pr.line = "WITHIN_3S" THEN 0 ELSE 1) -> "OUTPUT_MISMATCH"
    [] files["result"] = "none" \/ files["claim"] = "none" -> "RESULT_MISSING"
    [] ~Coherent -> "RESULT_MISMATCH"
    [] OTHER -> "ACCEPTED"
Project ==
  /\ host.pc = "project"
  /\ \E late \in BOOLEAN :       \* the last reading, after the owner was closed
       LET h == IF late /\ host.reason = "none" THEN [host EXCEPT !.reason = "DEADLINE"] ELSE host IN
       host' = [h EXCEPT !.pc = "idle", !.outcome = IF late /\ host.reason = "none" THEN "DEADLINE" ELSE Projection]
  /\ UNCHANGED <<pr, files>>

Next ==
  \/ ProbeChecks \/ Claim \/ Measure \/ Measured \/ Marker \/ Pending \/ Publish \/ ProbeInterrupted
  \/ PrintLine \/ Call \/ Stop \/ Supervised \/ Project
Spec == Init /\ [][Next]_vars

---------------------------------------------------------------------------
\* The caller accepts exactly the probes that went all the way: every file is
\* there, the line was printed and nothing stopped or delayed the caller; what
\* it accepts as within the limit was measured so; the caller's relations never
\* refuse what the probe's own classify wrote; and nothing is measured before
\* the claim is durable.
AcceptsWhatCompleted ==
  /\ host.outcome = "ACCEPTED" =>
       /\ files = [f \in FileNames |-> IF f = "next" THEN "none" ELSE "whole"]
       /\ pr.line = "WITHIN_3S" <=> (pr.failed = "none" /\ pr.ticks /\ pr.elapsed \in 0..LimitSeconds)
  /\ host.outcome # "RESULT_MISMATCH"
  /\ pr.done > 0 => files["claim"] = "whole"
=============================================================================
