--------------------------- MODULE MCLaboratories ---------------------------
(***************************************************************************)
(* The programs beside the gateway, for TLC: the driver of the worker      *)
(* laboratory, the owner of an attached CLI, the control of native         *)
(* processes, the probe of admission, the cycle of a candidate on the      *)
(* desktop, the collector of evidence, and the programs that make and      *)
(* check the image.                                                        *)
(*                                                                         *)
(* They are processes of their own that share no state: a behaviour picks  *)
(* one at its start.  The variables x1 to x12 are those of the part that   *)
(* moves, in the order of its INSTANCE; the ones it has no use for rest.   *)
(***************************************************************************)
EXTENDS Integers, Sequences

CONSTANTS
    Jobs, ErrorJobs, SinkCap, SinkChunk,               \* LabDriver
    RunCases, Kinds, MaxBody,                          \* AttachOwner
    MaxSpawns, Programs, MaxInterrupts,                \* NativeControl, NativeCollect
    MaxCallers,                                        \* AdmissionProbe
    Observations, GapTicks, TotalTicks, MaxHosts,      \* DesktopCycle
    MaxSlots,                                          \* NativeCollect
    MaxRuns, MaxTouches                                \* DeploymentImage

VARIABLES part, x1, x2, x3, x4, x5, x6, x7, x8, x9, x10, x11, x12

-----------------------------------------------------------------------------
(* Packets of the host, scripts of the callers, clocks and evidence.       *)

Answer(i) == [job |-> i, kind |-> IF i \in ErrorJobs THEN "ERROR" ELSE "RESULT",
              measured |-> i \notin ErrorJobs]
GoodPacket ==
    [framed |-> TRUE, canonical |-> TRUE, named |-> TRUE, secrets |-> TRUE,
     target |-> [privateIpv4 |-> TRUE, port |-> 5432, names |-> TRUE], canaries |-> <<1>>,
     expected |-> <<Answer(1), Answer(2)>>]
MCPackets ==
    {GoodPacket, [GoodPacket EXCEPT !.expected = <<Answer(2), Answer(1)>>],
     [GoodPacket EXCEPT !.canaries = <<>>]}

MCScripts ==
    {<<"start", "send", "drain">>, <<"start", "await_ready", "send", "drain">>,
     <<"start", "await_ready", "send", "retain", "drain">>}
MCElapsed == {-1, 3, 4}
MCPlans == {<<"dir", "file">>, <<"dir", "file", "file">>}

-----------------------------------------------------------------------------
Driver == INSTANCE LabDriver WITH
    Packets <- MCPackets, pc <- x1, stop <- x2, case <- x3, machine <- x4, verdicts <- x5,
    owner <- x6, credit <- x7, sess <- x8, sink <- x9, watch <- x10, told <- x11, result <- x12
Attach == INSTANCE AttachOwner WITH
    Scripts <- MCScripts, job <- x1, ch <- x2, tasks <- x3, proc <- x4, pipe <- x5, rd <- x6
Native == INSTANCE NativeControl WITH o <- x1, k <- x2, c <- x3, disk <- x4, e <- x5
Admission == INSTANCE AdmissionProbe WITH Elapsed <- MCElapsed, pr <- x1, files <- x2, host <- x3
Cycle == INSTANCE DesktopCycle WITH h <- x1, d <- x2, disk <- x3, hosts <- x4
Collect == INSTANCE NativeCollect WITH Plans <- MCPlans, c <- x1, b <- x2, k <- x3, e <- x4
Image == INSTANCE DeploymentImage WITH image <- x1, prefix <- x2, inputs <- x3, att <- x4, run <- x5

Rest4 == x4 = 0
Rest5 == x5 = 0
Rest6 == x6 = 0
Rest7 == x7 = 0 /\ x8 = 0 /\ x9 = 0 /\ x10 = 0 /\ x11 = 0 /\ x12 = 0

PartsInit ==
    \/ part = "driver" /\ Driver!Init
    \/ part = "attach" /\ Attach!Init /\ Rest7
    \/ part = "native" /\ Native!Init /\ Rest6 /\ Rest7
    \/ part = "admission" /\ Admission!Init /\ Rest4 /\ Rest5 /\ Rest6 /\ Rest7
    \/ part = "cycle" /\ Cycle!Init /\ Rest5 /\ Rest6 /\ Rest7
    \/ part = "collect" /\ Collect!Init /\ Rest5 /\ Rest6 /\ Rest7
    \/ part = "image" /\ Image!Init /\ Rest6 /\ Rest7

Still7 == UNCHANGED <<part, x7, x8, x9, x10, x11, x12>>

PartsNext ==
    \/ part = "driver" /\ Driver!Next /\ UNCHANGED part
    \/ part = "attach" /\ Attach!Next /\ Still7
    \/ part = "native" /\ Native!Next /\ UNCHANGED x6 /\ Still7
    \/ part = "admission" /\ Admission!Next /\ UNCHANGED <<x4, x5, x6>> /\ Still7
    \/ part = "cycle" /\ Cycle!Next /\ UNCHANGED <<x5, x6>> /\ Still7
    \/ part = "collect" /\ Collect!Next /\ UNCHANGED <<x5, x6>> /\ Still7
    \/ part = "image" /\ Image!Next /\ UNCHANGED x6 /\ Still7

partVars == <<part, x1, x2, x3, x4, x5, x6, x7, x8, x9, x10, x11, x12>>
Parts == PartsInit /\ [][PartsNext]_partVars

-----------------------------------------------------------------------------
\* DriverSound of LabDriver: a run that is not RETAINED leaves no thread, endpoint or
\* credit, and a stop that counts as passed reached the session in its query.
DriverSound == part = "driver" => Driver!DriverSound

\* TicketIsFinal and AcceptedIsWhole of AttachOwner: after a ticket nothing starts and
\* nothing is written, and what counts as verified was delivered and read whole.
AttachSound ==
    /\ [](part = "attach" => Attach!AcceptedIsWhole)
    /\ [][part = "attach" => Attach!FinalStep]_partVars

\* NativeSound of NativeControl and AcceptsWhatCompleted of AdmissionProbe: nothing is
\* left behind, an approval is earned, and the caller accepts only probes that completed.
NativeSound ==
    /\ part = "native" => Native!NativeSound
    /\ part = "admission" => Admission!AcceptsWhatCompleted

\* CycleSound of DesktopCycle: effects are announced before they may exist, and a
\* verified run leaves the image and nothing else.
CycleSound == part = "cycle" => Cycle!CycleSound

\* ExitOwnsNothing of NativeCollect: the collector exits only without open handles, and
\* says that evidence was verified only if it read the whole of it unchanged.
ExitOwnsNothing == part = "collect" => Collect!ExitOwnsNothing

\* ReportedIsTrue of DeploymentImage: a program that reports tells the truth about the
\* image, whatever pip, an import, a death or a hand in between did.
ReportedIsTrue == part = "image" => Image!ReportedIsTrue
=============================================================================
