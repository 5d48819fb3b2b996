------------------------------ MODULE AttachOwner ------------------------------
(***************************************************************************)
(* The attach channel of docs/poc/w1_bootstrap_channel.py with the reader  *)
(* owner of pg16_shell_owner.py: one docker CLI process started attached   *)
(* to a container, its pump, wait, feed and close tasks, and the           *)
(* operations start, await_ready, send, drain, quiesce and close.  At the  *)
(* other end the shell script of pg16_shell_reader.py, or read_seed_fd,    *)
(* takes one frame off its standard input and reports.  The wire is a      *)
(* sequence of symbols; deadlines pass at any moment.                      *)
(***************************************************************************)
EXTENDS Naturals, Sequences, FiniteSets

CONSTANTS
  RunCases,   \* the cases of the reader to run
  Kinds,      \* "reader": the vector owner; "seed": the base channel
  Scripts,    \* the orders of operations the callers use
  MaxBody     \* MAX_BODY, in symbols

VARIABLES
  job,     \* the case, the owner's kind and what is left of the caller's script
  ch,      \* the fields of ManagedBootstrap
  tasks,   \* the asyncio tasks by name: "none", "running" or "done"
  proc,    \* the CLI process, known to the owner or not
  pipe,    \* standard input and output
  rd       \* the reader in the container

vars == <<job, ch, tasks, proc, pipe, rd>>

---------------------------------------------------------------------------
(* The frame, the 23 vectors and what is delivered of each *)

DigitVal == [d \in {"0", "1", "2", "3"} |->
               CASE d = "0" -> 0 [] d = "1" -> 1 [] d = "2" -> 2 [] OTHER -> 3]
Digits == DOMAIN DigitVal
Trailer == <<"S", "E">>
HeaderLen == 5
Header(n) == <<"M", "R", "0", CASE n = 0 -> "0" [] n = 1 -> "1" [] n = 2 -> "2" [] OTHER -> "3",
               "N">>
Frame(body) == Header(Len(body)) \o body \o Trailer

BodyOf(c) == IF c = "one" THEN <<"nul">> ELSE <<"b", "S">>
HeaderCases == {"bad-magic", "bad-role", "bad-digit", "header-nul", "header-inner-nul",
                "header-cr", "zero", "oversize", "short-header"}
Put(w, i, x) == [w EXCEPT ![i] = x]
\* vector(case): the wire of each case.
Wire(c) ==
  LET w == Frame(BodyOf(c)) n == Len(w) IN
  CASE c = "bad-magic" -> Put(w, 1, "x")
    [] c = "bad-role" -> Put(w, 2, "C")
    [] c = "bad-digit" -> Put(w, 4, "x")
    [] c = "header-nul" -> Put(w, 5, "nul")
    [] c = "header-inner-nul" -> Put(w, 3, "nul")
    [] c = "header-cr" -> Put(w, 5, "cr")
    [] c = "zero" -> Put(w, 4, "0")
    [] c = "oversize" -> Put(w, 4, "3")
    [] c = "short-header" -> SubSeq(w, 1, HeaderLen - 1)
    [] c = "short-body" -> SubSeq(w, 1, HeaderLen + 1)
    [] c = "short-trailer" -> SubSeq(w, 1, n - 1)
    [] c = "bad-trailer" -> Put(w, n - 1, "x")
    [] c = "trailer-nul" -> Put(w, n, "nul")
    [] c \in {"extra-ascii", "extra-nul", "extra-lf"} -> Append(w, "x")
    [] c = "wait-header" -> SubSeq(w, 1, 1)
    [] c = "wait-body" -> SubSeq(w, 1, HeaderLen + 1)
    [] c = "wait-trailer" -> SubSeq(w, 1, n - 1)
    [] OTHER -> w
Expected(c) ==
  CASE c \in HeaderCases -> "HEADER" [] c = "short-body" -> "BODY"
    [] c \in {"short-trailer", "bad-trailer", "trailer-nul"} -> "TRAILER"
    [] c \in {"extra-ascii", "extra-nul", "extra-lf"} -> "SURPLUS"
    [] c \in {"wait-header", "wait-body", "wait-trailer"} -> "DEADLINE"
    [] c = "retain" -> "QUIET" [] OTHER -> "EOF"
HoldOpen(c) == Expected(c) \in {"DEADLINE", "QUIET"}
\* delivery_for: of a wire with a bad header only the header is sent.
Delivered(c) ==
  IF Expected(c) = "HEADER"
  THEN SubSeq(Wire(c), 1, IF Len(Wire(c)) < HeaderLen THEN Len(Wire(c)) ELSE HeaderLen)
  ELSE Wire(c)
Chunks(c) ==
  IF c = "fragmented" THEN [i \in 1..Len(Delivered(c)) |-> <<Delivered(c)[i]>>]
  ELSE <<Delivered(c)>>

\* body_size and decode_seed: the frame the Python side accepts, as reference.
BodySize(h) ==
  IF /\ Len(h) = HeaderLen /\ h[1] = "M" /\ h[2] = "R" /\ h[5] = "N"
     /\ h[3] \in Digits /\ h[4] \in Digits
     /\ 10 * DigitVal[h[3]] + DigitVal[h[4]] \in 1..MaxBody
  THEN 10 * DigitVal[h[3]] + DigitVal[h[4]] ELSE 0
DecodeSeed(w) ==
  /\ Len(w) > HeaderLen
  /\ LET n == BodySize(SubSeq(w, 1, HeaderLen)) IN
       /\ n > 0 /\ Len(w) = HeaderLen + n + Len(Trailer)
       /\ SubSeq(w, HeaderLen + n + 1, Len(w)) = Trailer

---------------------------------------------------------------------------
TaskNames == {"spawn", "stdout", "wait", "feed", "input-close"}
Init ==
  /\ job \in [case : RunCases, kind : Kinds, left : Scripts, sent : {0}, written : {<<>>},
              verdict : {"none"}, late : {{}}]
  /\ job.kind = "seed" => job.case = "binary"
  /\ job.kind = "seed" <=> \E i \in DOMAIN job.left : job.left[i] = "retain"
  /\ ch = [phase |-> "NEW", fault |-> "none", ready |-> FALSE, delivery |-> "NOT_SENT",
           inClosed |-> FALSE, eof |-> FALSE, outClosed |-> FALSE, waited |-> FALSE,
           adopted |-> FALSE, quiescing |-> FALSE, ticket |-> FALSE, absent |-> FALSE,
           op |-> "none", retained |-> FALSE]
  /\ tasks = [t \in TaskNames |-> "none"]
  /\ proc = [state |-> "none", code |-> 0]
  /\ pipe = [in |-> <<>>, inEof |-> FALSE, out |-> <<>>, gone |-> {}]
  /\ rd = [pc |-> "precheck", taken |-> <<>>, size |-> 0, result |-> "none"]

Mark(c, f) == [c EXCEPT !.fault = IF @ = "none" THEN f ELSE @]
AllDone == \A t \in TaskNames : tasks[t] # "running"
Exited == proc.state = "exited"
\* The positive proof of a closed handle: the process ended and was waited for,
\* and the handle itself is gone. Standard input is 0 and standard output is 1.
PipeClosed(fd) == ch.adopted /\ Exited /\ ch.waited /\ fd \in pipe.gone
Proved(c) == [c EXCEPT !.inClosed = @ \/ PipeClosed(0), !.outClosed = @ \/ PipeClosed(1)]
Is(d) == d \in job.late
Next1(ops) == ch.op = "none" /\ job.left # <<>> /\ Head(job.left) \in ops
Begins == job' = [job EXCEPT !.left = Tail(@)]

\* An operation of the caller fails: the script is over, the cleanup is left.
Ends(c) == ch' = [c EXCEPT !.op = "none"]
Raises(c) ==
  /\ ch' = [c EXCEPT !.op = "none"]
  /\ job' = [job EXCEPT !.left = <<>>]

---------------------------------------------------------------------------
(* start and the adoption of the spawned process *)

Adopts(c) ==
  IF c.adopted \/ tasks["spawn"] # "done" THEN c
  ELSE IF proc.state = "none" THEN Mark(c, "SPAWN") ELSE [c EXCEPT !.adopted = TRUE]
\* _ensure_pumps: the readers of a process that is ours run until they are done.
Pumps(c, ts) ==
  [t \in TaskNames |->
     IF c.adopted /\ t = "stdout" /\ ~(c.eof \/ c.outClosed) THEN "running"
     ELSE IF c.adopted /\ t = "wait" /\ ~c.waited THEN "running" ELSE ts[t]]

Start ==
  /\ Next1({"start"}) /\ ch.phase = "NEW" /\ ~ch.quiescing
  /\ \/ /\ ch' = [ch EXCEPT !.phase = "STARTING", !.op = "start"] /\ Begins
        /\ tasks' = [tasks EXCEPT !["spawn"] = "running"]
     \/ /\ Raises(Mark([ch EXCEPT !.phase = "STARTING"], "RUNTIME")) /\ UNCHANGED tasks
  /\ UNCHANGED <<proc, pipe, rd>>
StartReturns ==
  /\ ch.op = "start" /\ (tasks["spawn"] = "done" \/ Is("open"))
  /\ LET a == Adopts(ch) b == IF Is("open") THEN Mark(a, "DEADLINE") ELSE a IN
       /\ tasks' = Pumps(a, tasks)
       /\ IF b.fault = "none"
          THEN Ends([b EXCEPT !.phase = "WAIT_READY"]) /\ UNCHANGED job
          ELSE Raises([b EXCEPT !.phase = "HELD"])
  /\ UNCHANGED <<proc, pipe, rd>>
AwaitReady ==
  /\ Next1({"await_ready"}) /\ ch.phase = "WAIT_READY" /\ ~ch.quiescing
  /\ ch' = [ch EXCEPT !.op = "await_ready"] /\ Begins
  /\ UNCHANGED <<tasks, proc, pipe, rd>>
ReadyReturns ==
  /\ ch.op = "await_ready" /\ (ch.ready \/ ch.fault # "none" \/ ch.eof \/ Is("open"))
  /\ LET a == IF ~ch.ready \/ Is("open") THEN Mark(ch, IF ch.eof THEN "READY" ELSE "DEADLINE")
              ELSE ch
         b == IF Exited \/ ch.eof THEN Mark(a, "EXIT") ELSE a IN
       IF b.fault = "none" THEN Ends([b EXCEPT !.phase = "READY"]) /\ UNCHANGED job ELSE Raises(b)
  /\ UNCHANGED <<tasks, proc, pipe, rd>>

---------------------------------------------------------------------------
(* send_vector, send_seed and their tasks *)

Refused(o, p) ==
  /\ Next1({o}) /\ (ch.phase # p \/ ch.quiescing)
  /\ Raises(ch) /\ UNCHANGED <<tasks, proc, pipe, rd>>
Send ==
  /\ Next1({"send"}) /\ ch.phase = "READY" /\ ~ch.quiescing /\ ch.delivery = "NOT_SENT"
  /\ IF ch.fault # "none" \/ ch.eof \/ Exited THEN Raises(ch) /\ UNCHANGED tasks
     ELSE /\ ch' = [ch EXCEPT !.phase = "SENDING", !.op = "send"] /\ Begins
          /\ tasks' = [tasks EXCEPT !["feed"] = "running"]
  /\ UNCHANGED <<proc, pipe, rd>>
\* _feed_vector and _feed: a chunk at a time, and never after quiescing.
Feed ==
  /\ tasks["feed"] = "running" /\ job.sent < Len(Chunks(job.case))
  /\ \/ /\ ch.quiescing \/ ch.fault # "none" \/ Is("open")
        /\ ch' = Mark(ch, "DEADLINE") /\ tasks' = [tasks EXCEPT !["feed"] = "done"]
        /\ UNCHANGED <<job, pipe>>
     \/ /\ ~(ch.quiescing \/ ch.fault # "none" \/ Is("open")) /\ Exited
        /\ ch' = Mark(ch, "EXIT") /\ tasks' = [tasks EXCEPT !["feed"] = "done"]
        /\ UNCHANGED <<job, pipe>>
     \/ /\ ~(ch.quiescing \/ ch.fault # "none" \/ Is("open")) /\ ~Exited
        /\ LET chunk == Chunks(job.case)[job.sent + 1] IN
             /\ pipe' = [pipe EXCEPT !.in = @ \o chunk]
             /\ job' = [job EXCEPT !.sent = @ + 1, !.written = @ \o chunk]
        /\ ch' = [ch EXCEPT !.delivery = "UNKNOWN"] /\ UNCHANGED tasks
  /\ UNCHANGED <<proc, rd>>
FeedEnds ==
  /\ tasks["feed"] = "running" /\ job.sent = Len(Chunks(job.case))
  /\ tasks' = [tasks EXCEPT !["feed"] = "done"]
  /\ ch' = IF ch.quiescing \/ ch.fault # "none" \/ Is("open") THEN Mark(ch, "DEADLINE")
           ELSE [ch EXCEPT !.delivery = "SENT"]
  /\ UNCHANGED <<job, proc, pipe, rd>>
\* _close_input: closed, or failed because the other end is gone.
CloseInput ==
  /\ tasks["input-close"] = "running"
  /\ \/ /\ pipe' = [pipe EXCEPT !.inEof = TRUE, !.gone = @ \cup {0}]
        /\ ch' = [ch EXCEPT !.inClosed = TRUE]
     \/ /\ Exited /\ pipe' = [pipe EXCEPT !.inEof = TRUE]
        /\ ch' = [Mark(ch, "IO") EXCEPT !.inClosed = PipeClosed(0)]
  /\ tasks' = [tasks EXCEPT !["input-close"] = "done"]
  /\ UNCHANGED <<job, proc, rd>>
Holds == job.kind = "reader" /\ HoldOpen(job.case)
SendCloses ==
  /\ ch.op = "send" /\ tasks["feed"] = "done" /\ ch.delivery = "SENT" /\ ch.fault = "none"
  /\ ~Is("open") /\ ~Holds /\ tasks["input-close"] = "none"
  /\ tasks' = [tasks EXCEPT !["input-close"] = "running"]
  /\ UNCHANGED <<job, ch, proc, pipe, rd>>
SendReturns ==
  /\ ch.op = "send"
  /\ \/ tasks["feed"] = "done" /\ (ch.delivery # "SENT" \/ ch.fault # "none" \/ Holds)
     \/ tasks["input-close"] # "none" /\ (tasks["input-close"] = "done" \/ Is("close"))
     \/ Is("open") /\ tasks["input-close"] = "none"
  /\ LET a == IF tasks["feed"] # "done" \/ ch.delivery # "SENT" THEN Mark(ch, "DEADLINE") ELSE ch
         b == IF a.fault = "none" /\ ~Holds /\ ~ch.inClosed THEN Mark(a, "IO") ELSE a IN
       IF b.fault = "none" THEN Ends([b EXCEPT !.phase = "ACTIVE"]) /\ UNCHANGED job
       ELSE Raises([b EXCEPT !.phase = "HELD",
                             !.delivery = IF @ = "SENT" THEN "UNKNOWN" ELSE @])
  /\ UNCHANGED <<tasks, proc, pipe, rd>>

---------------------------------------------------------------------------
(* The pump and the wait task, drain and the verdict on the report *)

\* One block of output; after a fault it is drained and thrown away.
Pump ==
  /\ tasks["stdout"] = "running" /\ pipe.out # <<>>
  /\ pipe' = [pipe EXCEPT !.out = Tail(@)]
  /\ ch' = IF ch.fault = "none" /\ ~ch.ready
           THEN IF Head(pipe.out) = "ready" THEN [ch EXCEPT !.ready = TRUE] ELSE Mark(ch, "READY")
           ELSE ch
  /\ job' = IF ch.fault = "none" /\ ch.ready THEN [job EXCEPT !.verdict = "read"] ELSE job
  /\ UNCHANGED <<tasks, proc, rd>>
PumpEnds ==
  /\ tasks["stdout"] = "running" /\ pipe.out = <<>> /\ Exited
  /\ \/ ch' = IF ch.ready THEN [ch EXCEPT !.eof = TRUE] ELSE Mark([ch EXCEPT !.eof = TRUE], "READY")
     \/ ch' = [Mark(ch, "IO") EXCEPT !.outClosed = PipeClosed(1)]    \* the read failed
  /\ tasks' = [tasks EXCEPT !["stdout"] = "done"]
  /\ UNCHANGED <<job, proc, pipe, rd>>
Wait ==
  /\ tasks["wait"] = "running" /\ Exited
  /\ ch' \in {[ch EXCEPT !.waited = TRUE], Mark(ch, "IO")}
  /\ tasks' = [tasks EXCEPT !["wait"] = "done"]
  /\ UNCHANGED <<job, proc, pipe, rd>>

Retains ==
  /\ Next1({"retain"}) /\ ch.phase = "ACTIVE" /\ ~ch.quiescing
  /\ IF Is("open") THEN Raises(Mark(ch, "DEADLINE"))
     ELSE ch' = [ch EXCEPT !.retained = TRUE] /\ Begins
  /\ UNCHANGED <<tasks, proc, pipe, rd>>
Drain ==
  /\ Next1({"drain"}) /\ ch.phase = "ACTIVE" /\ ~ch.quiescing
  /\ job.kind = "seed" => ch.retained
  /\ ch' = [ch EXCEPT !.op = "drain"] /\ Begins
  /\ UNCHANGED <<tasks, proc, pipe, rd>>
\* An owner that kept its input open closes it once the process has ended.
DrainCloses ==
  /\ ch.op = "drain" /\ Exited /\ ch.fault = "none" /\ tasks["stdout"] = "done"
  /\ tasks["wait"] = "done" /\ ~ch.inClosed /\ tasks["input-close"] = "none"
  /\ tasks' = [tasks EXCEPT !["input-close"] = "running"]
  /\ UNCHANGED <<job, ch, proc, pipe, rd>>
GoodCodes == IF job.kind = "reader" THEN {0, 42} ELSE {0}
\* parse_report: the exit code and the report are those of the vector.
Parsed ==
  /\ rd.result = Expected(job.case)
  /\ proc.code = IF Expected(job.case) \in {"EOF", "QUIET"} THEN 0 ELSE 42
DrainReturns ==
  /\ ch.op = "drain"
  /\ \/ Is("result") \/ ch.fault # "none" \/ (Exited /\ proc.code \notin GoodCodes)
     \/ tasks["stdout"] = "done" /\ tasks["wait"] = "done" /\ tasks["input-close"] = "done"
  /\ LET a == IF ~Exited \/ Is("result") THEN Mark(ch, "DEADLINE") ELSE ch
         b == IF Exited /\ proc.code \notin GoodCodes THEN Mark(a, "EXIT") ELSE a IN
       IF b.fault = "none" /\ ch.eof /\ ch.waited /\ ch.inClosed /\ job.verdict = "read"
       THEN /\ Ends(b)
            /\ job' = [job EXCEPT !.verdict =
                         IF job.kind = "seed" \/ Parsed THEN "verified" ELSE "refused"]
       ELSE Raises(b)
  /\ UNCHANGED <<tasks, proc, pipe, rd>>

---------------------------------------------------------------------------
(* quiesce, the ticket, close *)

Quiesce ==
  /\ ch.op = "none" /\ job.left = <<>> /\ ~ch.ticket
  /\ ch' = [ch EXCEPT !.quiescing = TRUE, !.phase = "QUIESCING", !.op = "quiesce"]
  /\ UNCHANGED <<job, tasks, proc, pipe, rd>>
QuiesceAdopts ==
  /\ ch.op = "quiesce" /\ ~ch.adopted /\ tasks["spawn"] = "done" /\ proc.state # "none"
  /\ ch' = Adopts(ch) /\ tasks' = Pumps(Adopts(ch), tasks)
  /\ UNCHANGED <<job, proc, pipe, rd>>
QuiesceKills ==
  /\ ch.op = "quiesce" /\ ch.adopted /\ proc.state = "alive"
  /\ proc' = [state |-> "exited", code |-> 1]
  /\ UNCHANGED <<job, ch, tasks, pipe, rd>>
QuiesceCloses ==
  /\ ch.op = "quiesce" /\ ch.adopted /\ Exited
  /\ \/ ~ch.inClosed /\ tasks["input-close"] # "running"
        /\ tasks' = Pumps(ch, [tasks EXCEPT !["input-close"] = "running"]) /\ UNCHANGED ch
     \/ tasks["feed"] = "running" /\ ch.inClosed /\ tasks' = [tasks EXCEPT !["feed"] = "done"]
        /\ UNCHANGED ch
     \/ ch' = Proved(ch) /\ tasks' = Pumps(Proved(ch), tasks) /\ tasks' # tasks
  /\ UNCHANGED <<job, proc, pipe, rd>>
\* Faulty variant of Quiet: a spawn that is still under way counts as none.
QuietHasty ==
  \/ ~ch.adopted /\ proc.state = "none"
  \/ /\ ch.adopted /\ Exited /\ ch.waited /\ PipeClosed(0) /\ PipeClosed(1) /\ AllDone
Quiet ==
  \/ ~ch.adopted /\ proc.state = "none" /\ tasks["spawn"] # "running" /\ AllDone
  \/ /\ ch.adopted /\ Exited /\ ch.waited /\ PipeClosed(0) /\ PipeClosed(1) /\ AllDone
IssueTicket ==
  /\ ch.op = "quiesce" /\ Quiet
  /\ Ends([Proved(ch) EXCEPT !.ticket = TRUE, !.phase = "QUIESCED"])
  /\ UNCHANGED <<job, tasks, proc, pipe, rd>>
\* Its time is over: no ticket, and the caller tries again or stays held.
QuiesceHeld ==
  /\ ch.op = "quiesce" /\ ~Quiet
  /\ Ends([Proved(ch) EXCEPT !.phase = "HELD"])
  /\ UNCHANGED <<job, tasks, proc, pipe, rd>>
\* Closed only with the absence observed after the ticket was issued.
Close ==
  /\ ch.op = "none" /\ ch.ticket /\ ~ch.absent /\ AllDone
  /\ ch' = [ch EXCEPT !.absent = TRUE, !.phase = "CLOSED"]
  /\ UNCHANGED <<job, tasks, proc, pipe, rd>>
\* operation(): a cancelled operation leaves the owner quiescing and held.
Cancel ==
  /\ ch.op \in {"start", "await_ready", "send", "drain"}
  /\ Raises([Mark(ch, "IO") EXCEPT !.quiescing = TRUE, !.phase = "HELD",
               !.delivery = IF ch.op = "send" /\ @ # "NOT_SENT" THEN "UNKNOWN" ELSE @])
  /\ UNCHANGED <<tasks, proc, pipe, rd>>

---------------------------------------------------------------------------
(* The world: the process, the reader in the container, the clock *)

SpawnDone ==
  /\ tasks["spawn"] = "running"
  /\ proc' \in {[proc EXCEPT !.state = "alive"], proc}
  /\ tasks' = [tasks EXCEPT !["spawn"] = "done"]
  /\ UNCHANGED <<job, ch, pipe, rd>>
Deadline(d) ==
  /\ ~Is(d) /\ ch.op # "none" /\ job' = [job EXCEPT !.late = @ \cup {d}]
  /\ UNCHANGED <<ch, tasks, proc, pipe, rd>>

\* connection_lost closes a handle on a later callback of the loop; it shows only
\* once the process was waited for.
HandleGone(fd) ==
  /\ ch.waited /\ ~ch.ticket /\ fd \notin pipe.gone /\ pipe' = [pipe EXCEPT !.gone = @ \cup {fd}]
  /\ UNCHANGED <<job, ch, tasks, proc, rd>>

Available == Len(pipe.in) - Len(rd.taken)
\* A read of n symbols that the input can satisfy, or that the end cut short.
Got(n) == IF Available >= n THEN n ELSE Available
Readable(n) == proc.state = "alive" /\ (Available >= n \/ pipe.inEof)
Piece(n) == SubSeq(pipe.in, Len(rd.taken) + 1, Len(rd.taken) + Got(n))
Reports(r) == rd' = [rd EXCEPT !.pc = "end", !.result = r, !.taken = @]
Precheck ==
  /\ rd.pc = "precheck" /\ proc.state = "alive"
  /\ \/ rd' = [rd EXCEPT !.pc = "header"] /\ pipe' = [pipe EXCEPT !.out = Append(@, "ready")]
     \/ Reports("PRECHECK") /\ UNCHANGED pipe
  /\ UNCHANGED <<job, ch, tasks, proc>>
\* What the shell sees of the header: without the newline at its end and
\* without the zero bytes, which a command substitution drops.
Shown(h) ==
  LET cut == IF h[Len(h)] = "N" THEN SubSeq(h, 1, Len(h) - 1) ELSE h IN
  SelectSeq(cut, LAMBDA x : x # "nul")
HeaderOk(h) ==
  /\ Len(h) = HeaderLen
  /\ LET s == Shown(h) IN
       /\ Len(s) = 4 /\ s[1] = "M" /\ s[2] = "R" /\ s[3] \in Digits /\ s[4] \in Digits
       /\ h = s \o <<"N">>
       /\ 10 * DigitVal[s[3]] + DigitVal[s[4]] \in 1..MaxBody
ReadHeader ==
  /\ rd.pc = "header" /\ Readable(HeaderLen)
  /\ LET h == Piece(HeaderLen) IN
       rd' = IF (job.kind = "reader" /\ HeaderOk(h)) \/ (job.kind = "seed" /\ BodySize(h) > 0)
             THEN [rd EXCEPT !.pc = "body", !.taken = @ \o h,
                             !.size = 10 * DigitVal[h[3]] + DigitVal[h[4]]]
             ELSE [rd EXCEPT !.pc = "end", !.taken = @ \o h, !.result = "HEADER"]
  /\ UNCHANGED <<job, ch, tasks, proc, pipe>>
ReadBody ==
  /\ rd.pc = "body" /\ Readable(rd.size)
  /\ rd' = [rd EXCEPT !.taken = @ \o Piece(rd.size),
                      !.pc = IF Got(rd.size) = rd.size THEN "trailer" ELSE "end",
                      !.result = IF Got(rd.size) = rd.size THEN @ ELSE "BODY"]
  /\ UNCHANGED <<job, ch, tasks, proc, pipe>>
ReadTrailer ==
  /\ rd.pc = "trailer" /\ Readable(2)
  /\ rd' = [rd EXCEPT !.taken = @ \o Piece(2), !.pc = IF Piece(2) = Trailer THEN "extra" ELSE "end",
                      !.result = IF Piece(2) = Trailer THEN @ ELSE "TRAILER"]
  /\ UNCHANGED <<job, ch, tasks, proc, pipe>>
\* One second for a surplus byte; read_seed_fd does not wait at all.
ReadExtra ==
  /\ rd.pc = "extra" /\ proc.state = "alive"
  /\ \/ Available > 0 /\ Reports("SURPLUS")
     \/ Available = 0 /\ pipe.inEof /\ Reports("EOF")
     \/ Available = 0 /\ ~pipe.inEof /\ Reports(IF job.kind = "seed" THEN "EOF" ELSE "QUIET")
  /\ UNCHANGED <<job, ch, tasks, proc, pipe>>
\* The eight seconds are over, or a tool of the script failed.
ReaderFails ==
  /\ rd.pc \in {"header", "body", "trailer", "extra"} /\ proc.state = "alive"
  /\ (\E f \in {"DEADLINE", "IO"} : Reports(f)) /\ UNCHANGED <<job, ch, tasks, proc, pipe>>
\* The report is printed and the script's status becomes the CLI's exit code.
ReaderExits ==
  /\ rd.pc = "end" /\ proc.state = "alive"
  /\ proc' = [state |-> "exited", code |-> IF rd.result \in {"EOF", "QUIET"} THEN 0
                                           ELSE IF job.kind = "reader" THEN 42 ELSE 1]
  /\ pipe' = [pipe EXCEPT !.out = Append(@, "report")]
  /\ UNCHANGED <<job, ch, tasks, rd>>

Next ==
  \/ Start \/ StartReturns \/ AwaitReady \/ ReadyReturns \/ Send \/ Feed \/ FeedEnds \/ CloseInput
  \/ SendCloses \/ SendReturns \/ Pump \/ PumpEnds \/ Wait \/ Retains \/ Drain \/ DrainCloses
  \/ DrainReturns \/ Quiesce \/ QuiesceAdopts \/ QuiesceKills \/ QuiesceCloses \/ IssueTicket
  \/ QuiesceHeld \/ Close \/ Cancel \/ SpawnDone \/ Precheck \/ ReadHeader \/ ReadBody
  \/ ReadTrailer \/ ReadExtra \/ ReaderFails \/ ReaderExits
  \/ (\E fd \in {0, 1} : HandleGone(fd))
  \/ Refused("send", "READY") \/ (\E d \in {"open", "close", "result"} : Deadline(d))
Spec == Init /\ [][Next]_vars

---------------------------------------------------------------------------
\* A ticket is final: after it was issued no task starts, no process appears
\* and not one more symbol is written, however late a spawn answers.
FinalStep == ch.ticket => UNCHANGED <<tasks, proc>> /\ job'.sent = job.sent
TicketIsFinal == [][FinalStep]_vars

\* What a reader accepts, header and frame, the Python decoder accepts too, and
\* a case counts as verified only if its whole wire was handed over and the
\* reader itself came to the result the vector names.
AcceptedIsWhole ==
  /\ rd.pc \in {"body", "trailer", "extra"} => BodySize(SubSeq(rd.taken, 1, HeaderLen)) > 0
  /\ rd.result \in {"EOF", "QUIET"} => DecodeSeed(rd.taken)
  /\ job.verdict = "verified" =>
       /\ ch.delivery = "SENT" /\ job.written = Delivered(job.case)
       /\ rd.result = Expected(job.case)
=============================================================================
