--------------------------- MODULE LifecycleProofs ---------------------------
(***************************************************************************)
(* What serves for a while comes to its end in order: the listener, the    *)
(* worker behind a session, the receiver of its results, the session of a  *)
(* client and the work queue of the administration, each for any number of *)
(* connections, jobs, threads, rounds, workers and tickets, with every     *)
(* failure of the models.                                                  *)
(*                                                                         *)
(* The listener: the acceptor and the stop exclude one another.  A stop    *)
(* passes its join only when the acceptor has ended or was cancelled       *)
(* before it entered, and a cancelled thread never enters; so reaping and  *)
(* closing, by either, never meet a connection that is being admitted.     *)
(* The other four: the invariants stand in their modules ("Why it is       *)
(* sound"), and here is that every step keeps them.                        *)
(***************************************************************************)
EXTENDS MCLifecycle, FiniteSetTheorems, SequenceTheorems, TLAPS


(* What the owner and the thread recorded tell one story. *)
OwnedOk(o) ==
    /\ o.state = "idle" => o.thread = "none"
    /\ o.thread = "in" => o.ran
    /\ o.ran => o.thread \in {"in", "ended"}
    /\ o.cancelled => ~o.ran

(* It runs, or may still come to run. *)
MayRun(o) == o.thread \in {"born", "in"} /\ ~o.cancelled

AfterJoin == {"cancelAll", "joinAll", "reap", "close", "prove", "end"}

AcceptorInv ==
    /\ OwnedOk(acceptor)
    /\ startPc \in {"new", "bind", "decide", "launch"} => acceptor.state = "idle"
    /\ startPc = "new" => socket = "none"
    /\ MayRun(acceptor) => socket = "open"
    /\ startPc \in {"decide", "launch"} /\ ~acceptor.cancelled => socket = "open"
    /\ acceptPc # "reap" => acceptor.thread = "in"
    /\ stopPc = "joinAcceptor" => Joinable(acceptor) \/ acceptor.cancelled
    /\ stopPc \in AfterJoin => acceptor.thread = "ended" \/ acceptor.cancelled

(* A connection: being admitted or launched, in a record, or done with. *)
AdmittedInv ==
    /\ acceptPc \in {"admit", "launch", "launched", "failed"} => accepted \in Conn
    /\ acceptPc = "admit" => accepted \notin records
    /\ acceptPc \in {"admit", "launch"} => owned[accepted].state = "idle" /\ sock[accepted] = "open"
    /\ acceptPc \in {"launch", "launched", "failed"} => accepted \in records

ConnInv ==
    /\ \A c \in Conn :
        /\ OwnedOk(owned[c])
        /\ MayRun(owned[c]) => sock[c] = "open"
        /\ sock[c] = "none" => owned[c].state = "idle" /\ c \notin records
        /\ c \notin records =>
            /\ owned[c].thread \in {"none", "ended"}
            /\ \/ sock[c] \in {"none", "closed"}
               \/ c \in retained
               \/ acceptPc = "admit" /\ c = accepted
    /\ ~acceptor.ran => records = {} /\ retained = {} /\ \A c \in Conn : sock[c] = "none"

StopInv ==
    /\ state = "new" => startPc = "new" /\ stopPc = "no"
    /\ proved => stopPc = "end"
    /\ ~EarlyStop =>
        /\ stopPc # "no" \/ state = "stopped" => startPc \in {"new", "done"}
        /\ proved => Settled(acceptor) /\ socket \in {"none", "closed"} /\ retained = {}
        /\ StoppedHasProof

IInv == TypeOK /\ SlotsAgree /\ AcceptorInv /\ AdmittedInv /\ ConnInv /\ StopInv
-----------------------------------------------------------------------------
(* One thread *)

LEMMA OwnedFields ==
    \A o \in Owned : /\ o.state \in {"idle", "starting", "started"}
                     /\ o.ran \in BOOLEAN /\ o.cancelled \in BOOLEAN
                     /\ o.thread \in {"none", "born", "in", "ended"}
  BY DEF Owned

LEMMA CancelledIs ==
    ASSUME NEW o \in Owned, OwnedOk(o)
    PROVE  /\ Cancelled(o) \in Owned /\ OwnedOk(Cancelled(o))
           /\ Cancelled(o).state = o.state /\ Cancelled(o).thread = o.thread
           /\ Cancelled(o).ran = o.ran
           /\ o.cancelled => Cancelled(o).cancelled
           /\ Cancelled(o).cancelled \/ o.ran \/ o.state = "started"
<1>1. CASE ~o.ran /\ o.state # "started"
  <2>1. Cancelled(o) = [o EXCEPT !.cancelled = TRUE]
    BY <1>1 DEF Cancelled
  <2> QED
    BY <1>1, <2>1 DEF Owned, OwnedOk
<1>2. CASE ~(~o.ran /\ o.state # "started")
  <2>1. Cancelled(o) = o
    BY <1>2 DEF Cancelled
  <2> QED
    BY <1>2, <2>1, OwnedFields
<1> QED
  BY <1>1, <1>2

LEMMA AttemptIs ==
    ASSUME NEW o \in Owned, OwnedOk(o), o.state = "idle", NEW n \in FailedAttempts(o)
    PROVE  /\ n \in Owned /\ OwnedOk(n) /\ n.ran = o.ran /\ n.cancelled = o.cancelled
           /\ n.state = "starting" /\ n.thread \in {"none", "born"}
<1>1. o.thread = "none" /\ ~o.ran
  BY OwnedFields DEF OwnedOk
<1>2. n = [o EXCEPT !.state = "starting", !.thread = "born"] \/ n = [o EXCEPT !.state = "starting"]
  BY DEF FailedAttempts, Attempt
<1> QED
  BY <1>1, <1>2 DEF Owned, OwnedOk

LEMMA ConfirmedIs ==
    ASSUME NEW o \in Owned, OwnedOk(o)
    PROVE  /\ Confirmed(o) \in Owned /\ OwnedOk(Confirmed(o)) /\ Confirmed(o).ran = o.ran
           /\ Confirmed(o).cancelled = o.cancelled /\ Confirmed(o).thread = o.thread
           /\ Confirmed(o).state = "started"
  BY DEF Confirmed, Owned, OwnedOk

LEMMA FailedStartIs ==
    ASSUME NEW o \in Owned, OwnedOk(o)
    PROVE  /\ FailedStart(o) \in Owned /\ OwnedOk(FailedStart(o)) /\ FailedStart(o).ran = o.ran
           /\ FailedStart(o).state = o.state /\ FailedStart(o).thread = o.thread
           /\ o.cancelled => FailedStart(o).cancelled
<1>1. CASE o.ran
  BY <1>1 DEF FailedStart
<1>2. CASE ~o.ran
  <2>1. FailedStart(o) = [o EXCEPT !.cancelled = TRUE]
    BY <1>2 DEF FailedStart
  <2> QED
    BY <1>2, <2>1 DEF Owned, OwnedOk
<1> QED
  BY <1>1, <1>2, OwnedFields

LEMMA EnteredIs ==
    ASSUME NEW o \in Owned, OwnedOk(o), o.thread = "born"
    PROVE  /\ Entered(o) \in Owned /\ OwnedOk(Entered(o)) /\ Entered(o).state = o.state
           /\ Entered(o).cancelled = o.cancelled
           /\ Entered(o).thread \in {"in", "ended"}
           /\ o.cancelled => Entered(o).thread = "ended" /\ Entered(o).ran = o.ran
           /\ o.state # "idle" /\ ~o.ran
<1>1. o.state # "idle" /\ ~o.ran
  BY DEF OwnedOk
<1>2. CASE o.cancelled
  <2>1. Entered(o) = [o EXCEPT !.thread = "ended"]
    BY <1>2 DEF Entered
  <2> QED
    BY <1>1, <1>2, <2>1 DEF Owned, OwnedOk
<1>3. CASE ~o.cancelled
  <2>1. Entered(o) = [o EXCEPT !.ran = TRUE, !.thread = "in"]
    BY <1>3 DEF Entered
  <2> QED
    BY <1>1, <1>3, <2>1 DEF Owned, OwnedOk
<1> QED
  BY <1>2, <1>3

LEMMA EndedIs ==
    ASSUME NEW o \in Owned, OwnedOk(o), o.thread = "in"
    PROVE  /\ Ended(o) \in Owned /\ OwnedOk(Ended(o)) /\ Ended(o).thread = "ended"
           /\ Ended(o).cancelled = o.cancelled /\ Ended(o).ran = o.ran /\ Ended(o).state = o.state
  BY DEF Ended, Owned, OwnedOk

LEMMA BrokenIs ==
    ASSUME NEW st \in States
    PROVE  /\ Broken(st) \in States /\ (Broken(st) = "stopped" <=> st = "stopped")
           /\ (Broken(st) = "new" <=> st = "new")
  BY DEF Broken, States

LEMMA CloseOutcomesAre == \A r \in CloseOutcomes : r \in {"closed", "failed"}
  BY DEF CloseOutcomes

-----------------------------------------------------------------------------
(* Steps that leave a part of the state alone *)

LEMMA ConnFrame ==
    ASSUME SlotsAgree, AdmittedInv, ConnInv, UNCHANGED connVars,
           \/ UNCHANGED <<acceptPc, accepted>>
           \/ acceptPc # "admit" /\ acceptPc' \notin {"admit", "launch", "launched", "failed"},
           acceptor.ran => acceptor'.ran
    PROVE  SlotsAgree' /\ AdmittedInv' /\ ConnInv'
<1>1. UNCHANGED <<owned, sock, records, retained, authenticated, preAuth, auth>>
  BY DEF connVars
<1>2. SlotsAgree'
  BY <1>1 DEF SlotsAgree
<1>3. AdmittedInv'
  BY <1>1 DEF AdmittedInv
<1>4. ConnInv'
  BY <1>1 DEF ConnInv
<1> QED
  BY <1>2, <1>3, <1>4

LEMMA AcceptorFrame ==
    ASSUME AcceptorInv, UNCHANGED <<acceptor, socket, startPc, stopPc>>,
           acceptPc' # "reap" => acceptor.thread = "in"
    PROVE  AcceptorInv'
  BY DEF AcceptorInv

\* A stop that is not under way, or has nothing proved.
LEMMA NotStopped ==
    ASSUME StopInv, ~proved', state' # "new",
           ~EarlyStop => (stopPc' # "no" => startPc' \in {"new", "done"}) /\ state' # "stopped"
    PROVE  StopInv'
  BY DEF StopInv, StoppedHasProof

-----------------------------------------------------------------------------
(* start() *)

\* A start in flight, which without early stops meets no stop.
LEMMA InFlight ==
    ASSUME IInv, startPc \notin {"new", "done"}
    PROVE  state # "new" /\ (~EarlyStop => stopPc = "no" /\ state # "stopped") /\ (~EarlyStop => ~proved)
  BY DEF IInv, StopInv

\* What every step of start() leaves alone.
LEMMA StartKeeps ==
    ASSUME IInv, startPc # "done", startPc # "new" \/ Begin,
           UNCHANGED <<acceptPc, accepted, connVars, tokens, stopPc, proved>>,
           acceptor' \in Owned, OwnedOk(acceptor'),
           acceptor'.thread = acceptor.thread \/ acceptPc = "reap",
           acceptor.ran => acceptor'.ran,
           socket' \in Sockets, stopEvent' \in BOOLEAN,
           state' \in {state, "starting", "running", "broken", "incomplete"},
           startPc' \in {"bind", "decide", "launch", "launched", "failed", "done"},
           AcceptorInv'
    PROVE  IInv'
<1>1. SlotsAgree' /\ AdmittedInv' /\ ConnInv'
  BY ConnFrame DEF IInv
<1>2. TypeOK'
  BY DEF IInv, TypeOK, connVars, States
<1>3. CASE startPc # "new"
  <2>1. StopInv'
    <3>1. state' # "new" /\ (proved' => stopPc' = "end")
      BY <1>3, InFlight DEF IInv, StopInv
    <3>2. ~EarlyStop => stopPc' = "no" /\ state' # "stopped" /\ ~proved'
      BY <1>3, InFlight
    <3> QED
      BY <3>1, <3>2 DEF StopInv, StoppedHasProof
  <2> QED
    BY <1>1, <1>2, <2>1 DEF IInv
<1>4. CASE Begin
  <2>1. StopInv'
    <3>1. state = "new" /\ state' = "starting"
      BY <1>4 DEF Begin
    <3>2. stopPc' = "no" /\ ~proved'
      BY <3>1 DEF IInv, StopInv
    <3> QED
      BY <3>1, <3>2, NotStopped DEF IInv
  <2> QED
    BY <1>1, <1>2, <2>1 DEF IInv
<1> QED
  BY <1>3, <1>4

LEMMA StartStepKeeps == ASSUME IInv, StartStep PROVE IInv'
<1> USE DEF threadVars
<1>1. acceptor \in Owned /\ OwnedOk(acceptor) /\ socket \in Sockets /\ stopEvent \in BOOLEAN /\ AcceptorInv
  BY DEF IInv, TypeOK, AcceptorInv
<1>2. CASE Begin
  <2>1. AcceptorInv'
    BY <1>1, <1>2 DEF Begin, AcceptorInv
  <2> QED
    BY <1>1, <1>2, <2>1, StartKeeps DEF Begin
<1>3. CASE Bind
  <2>1. AcceptorInv'
    BY <1>1, <1>3 DEF Bind, AcceptorInv
  <2> QED
    BY <1>1, <1>3, <2>1, StartKeeps DEF Bind, Sockets
<1>4. CASE BindFails
  <2>1. socket' \in Sockets
    BY <1>4, CloseOutcomesAre DEF BindFails, Sockets
  <2>2. AcceptorInv'
    BY <1>1, <1>4, OwnedFields DEF BindFails, AcceptorInv, MayRun, OwnedOk
  <2> QED
    BY <1>1, <1>4, <2>1, <2>2, StartKeeps DEF BindFails
<1>5. CASE Decide
  <2>1. socket' \in Sockets
    BY <1>1, <1>5, CloseOutcomesAre DEF Decide, Sockets
  <2>2. AcceptorInv'
    <3>1. acceptor.state = "idle" /\ acceptor.thread = "none"
      BY <1>1, <1>5 DEF Decide, AcceptorInv, OwnedOk
    <3>2. startPc' \in {"decide", "launch"} /\ ~acceptor.cancelled => socket' = "open"
      BY <1>1, <1>5 DEF Decide, AcceptorInv
    <3> QED
      BY <1>1, <1>5, <3>1, <3>2 DEF Decide, AcceptorInv, MayRun
  <2> QED
    BY <1>1, <1>5, <2>1, <2>2, StartKeeps DEF Decide
<1>6. CASE LaunchAcceptor
  <2>1. acceptor' \in FailedAttempts(acceptor) /\ acceptor.state = "idle" /\ acceptor.thread = "none"
    BY <1>1, <1>6 DEF LaunchAcceptor, FailedAttempts, AcceptorInv, OwnedOk
  <2>2. /\ acceptor' \in Owned /\ OwnedOk(acceptor') /\ acceptor'.ran = acceptor.ran
        /\ acceptor'.cancelled = acceptor.cancelled /\ acceptor'.state = "starting"
    BY <1>1, <2>1, AttemptIs
  <2>3. acceptPc = "reap"
    BY <1>1, <2>1 DEF AcceptorInv
  <2>4. AcceptorInv'
    <3>1. MayRun(acceptor') => socket' = "open"
      BY <1>1, <1>6, <2>2 DEF LaunchAcceptor, AcceptorInv, MayRun
    <3>2. startPc' \in {"launched", "failed"} /\ acceptPc' = "reap"
      BY <1>6, <2>3 DEF LaunchAcceptor
    <3>3. stopPc' \in AfterJoin \cup {"joinAcceptor"} => acceptor'.cancelled
      BY <1>1, <1>6, <2>1, <2>2 DEF LaunchAcceptor, AcceptorInv, Joinable, OwnedOk
    <3> QED
      BY <1>1, <2>2, <3>1, <3>2, <3>3 DEF AcceptorInv
  <2> QED
    BY <1>1, <1>6, <2>2, <2>3, <2>4, StartKeeps DEF LaunchAcceptor
<1>7. CASE AcceptorLaunched
  <2>1. /\ acceptor' \in Owned /\ OwnedOk(acceptor') /\ acceptor'.ran = acceptor.ran
        /\ acceptor'.cancelled = acceptor.cancelled /\ acceptor'.thread = acceptor.thread
        /\ acceptor'.state = "started"
    BY <1>1, <1>7, ConfirmedIs DEF AcceptorLaunched
  <2>2. AcceptorInv'
    BY <1>1, <1>7, <2>1 DEF AcceptorLaunched, AcceptorInv, MayRun, Joinable
  <2> QED
    BY <1>1, <1>7, <2>1, <2>2, StartKeeps DEF AcceptorLaunched
<1>8. CASE AcceptorFailed
  <2>1. /\ acceptor' \in Owned /\ OwnedOk(acceptor') /\ acceptor'.ran = acceptor.ran
        /\ acceptor.cancelled => acceptor'.cancelled
        /\ acceptor'.thread = acceptor.thread /\ acceptor'.state = acceptor.state
    BY <1>1, <1>8, FailedStartIs DEF AcceptorFailed
  <2>2. AcceptorInv'
    BY <1>1, <1>8, <2>1 DEF AcceptorFailed, AcceptorInv, MayRun, Joinable
  <2>3. state' \in {state, "broken"}
    BY <1>8 DEF AcceptorFailed, Broken
  <2> QED
    BY <1>1, <1>8, <2>1, <2>2, <2>3, StartKeeps DEF AcceptorFailed
<1> QED
  BY <1>2, <1>3, <1>4, <1>5, <1>6, <1>7, <1>8 DEF StartStep

-----------------------------------------------------------------------------
(* _reap, by the acceptor or by stop() *)

\* The counters follow the records that are freed.
LEMMA FreeingCounts ==
    ASSUME SlotsAgree, records \subseteq Conn, NEW freed \in SUBSET records,
           records' = records \ freed, authenticated' = authenticated \ freed,
           auth' = auth - Cardinality(freed \cap authenticated),
           preAuth' = preAuth - Cardinality(freed \ authenticated)
    PROVE  SlotsAgree' /\ preAuth' \in 0 .. PreAuthSlots /\ auth' \in 0 .. SessionSlots
<1>1. IsFiniteSet(records) /\ IsFiniteSet(authenticated) /\ IsFiniteSet(records \ authenticated)
  BY FS_Subset, ListenerAssumption DEF SlotsAgree
<1>2. /\ Cardinality(authenticated \ freed) = Cardinality(authenticated) - Cardinality(authenticated \cap freed)
      /\ IsFiniteSet(authenticated \ freed)
  BY <1>1, FS_Difference
<1>3. /\ Cardinality((records \ authenticated) \ freed)
           = Cardinality(records \ authenticated) - Cardinality((records \ authenticated) \cap freed)
      /\ IsFiniteSet((records \ authenticated) \ freed)
  BY <1>1, FS_Difference
<1>4. /\ authenticated \cap freed = freed \cap authenticated
      /\ (records \ authenticated) \cap freed = freed \ authenticated
      /\ records' \ authenticated' = (records \ authenticated) \ freed
      /\ authenticated' \subseteq records'
  BY DEF SlotsAgree
<1>5. auth' = Cardinality(authenticated') /\ preAuth' = Cardinality(records' \ authenticated')
  BY <1>2, <1>3, <1>4 DEF SlotsAgree
<1>6. auth' \in Nat /\ preAuth' \in Nat
  BY <1>2, <1>3, <1>4, <1>5, FS_CardinalityType
<1>7. /\ Cardinality(authenticated \cap freed) \in Nat
      /\ Cardinality((records \ authenticated) \cap freed) \in Nat
      /\ Cardinality(authenticated) \in Nat /\ Cardinality(records \ authenticated) \in Nat
  BY <1>1, FS_Intersection, FS_CardinalityType
<1>8. auth' <= auth /\ preAuth' <= preAuth
  <2>1. \A a, n \in Nat : a - n <= a
    OBVIOUS
  <2>2. auth \in Nat /\ preAuth \in Nat
    BY <1>7 DEF SlotsAgree
  <2>3. Cardinality(freed \cap authenticated) \in Nat /\ Cardinality(freed \ authenticated) \in Nat
    BY <1>4, <1>7
  <2> QED
    BY <2>1, <2>2, <2>3
<1>9. auth' <= SessionSlots /\ preAuth' <= PreAuthSlots
  BY <1>6, <1>7, <1>8, ListenerAssumption DEF SlotsAgree
<1> QED
  BY <1>4, <1>5, <1>6, <1>9, ListenerAssumption DEF SlotsAgree

LEMMA ReapKeeps ==
    ASSUME IInv, Reap, acceptPc = "reap",
           acceptPc' \notin {"admit", "launch", "launched", "failed"},
           acceptor.ran => acceptor'.ran
    PROVE  /\ SlotsAgree' /\ AdmittedInv' /\ ConnInv'
           /\ owned' \in [Conn -> Owned] /\ sock' \in [Conn -> Sockets]
           /\ records' \subseteq Conn /\ authenticated' \subseteq Conn /\ retained' = retained
           /\ preAuth' \in 0 .. PreAuthSlots /\ auth' \in 0 .. SessionSlots
           /\ state' \in States /\ (state' = "stopped" <=> state = "stopped")
           /\ (state' = "new" <=> state = "new")
<1> DEFINE settledOwned == [c \in Conn |-> IF c \in records THEN Cancelled(owned[c]) ELSE owned[c]]
           toClose == {c \in records : Closes(settledOwned[c]) /\ sock[c] = "open"}
<1>1. PICK after \in [toClose -> CloseOutcomes] :
        LET sockAfter == [c \in Conn |-> IF c \in toClose THEN after[c] ELSE sock[c]]
            freed == {c \in records : Frees(settledOwned[c], sockAfter[c] = "closed")}
        IN  /\ owned' = settledOwned
            /\ sock' = sockAfter
            /\ records' = records \ freed
            /\ authenticated' = authenticated \ freed
            /\ auth' = auth - Cardinality(freed \cap authenticated)
            /\ preAuth' = preAuth - Cardinality(freed \ authenticated)
            /\ state' = IF \E c \in toClose : after[c] = "failed"
                        THEN Broken(state) ELSE state
            /\ UNCHANGED retained
  BY DEF Reap
<1> DEFINE freed == {c \in records : Frees(settledOwned[c], sock'[c] = "closed")}
<1>2. /\ owned \in [Conn -> Owned] /\ sock \in [Conn -> Sockets] /\ records \subseteq Conn
      /\ authenticated \subseteq Conn /\ state \in States
      /\ \A c \in Conn : owned[c] \in Owned /\ OwnedOk(owned[c])
  BY DEF IInv, TypeOK, ConnInv
<1>3. /\ owned' = settledOwned
      /\ sock' = [c \in Conn |-> IF c \in toClose THEN after[c] ELSE sock[c]]
      /\ records' = records \ freed /\ authenticated' = authenticated \ freed
      /\ auth' = auth - Cardinality(freed \cap authenticated)
      /\ preAuth' = preAuth - Cardinality(freed \ authenticated)
      /\ retained' = retained /\ state' \in {state, Broken(state)}
  BY <1>1
<1>4. \A c \in Conn :
        /\ owned'[c] \in Owned /\ OwnedOk(owned'[c])
        /\ owned'[c].state = owned[c].state /\ owned'[c].thread = owned[c].thread
        /\ owned[c].cancelled => owned'[c].cancelled
        /\ c \in records => owned'[c].cancelled \/ owned[c].ran \/ owned[c].state = "started"
        /\ c \notin records => owned'[c] = owned[c]
  BY <1>2, <1>3, CancelledIs
<1>5. \A c \in Conn :
        /\ sock'[c] = sock[c] \/ sock'[c] \in {"closed", "failed"}
        /\ sock'[c] # sock[c] => c \in toClose
  <2> SUFFICES ASSUME NEW c \in Conn
               PROVE  /\ sock'[c] = sock[c] \/ sock'[c] \in {"closed", "failed"}
                      /\ sock'[c] # sock[c] => c \in toClose
    OBVIOUS
  <2>1. c \in toClose => after[c] \in {"closed", "failed"}
    BY CloseOutcomesAre
  <2>2. sock'[c] = IF c \in toClose THEN after[c] ELSE sock[c]
    BY <1>3
  <2> QED
    BY <2>1, <2>2
<1>6. \A c \in toClose : /\ c \in records /\ sock[c] = "open"
                         /\ owned'[c].state = "idle" \/ owned'[c].thread = "ended" \/ owned'[c].cancelled
  BY <1>3 DEF Closes, Settled, NeverEnters
<1>7. \A c \in freed : /\ c \in records /\ sock'[c] = "closed"
                       /\ owned'[c].state = "idle" \/ owned'[c].thread = "ended"
  BY <1>3 DEF Frees, Settled
<1> HIDE DEF settledOwned, toClose
<1>8. SlotsAgree' /\ preAuth' \in 0 .. PreAuthSlots /\ auth' \in 0 .. SessionSlots
  <2>1. freed \in SUBSET records
    BY <1>7
  <2> HIDE DEF freed
  <2> QED
    BY <1>2, <1>3, <2>1, FreeingCounts DEF IInv
<1> HIDE DEF freed
<1>9. owned' \in [Conn -> Owned] /\ sock' \in [Conn -> Sockets]
  <2>1. owned' \in [Conn -> Owned]
    <3>1. owned' = [c \in Conn |-> owned'[c]]
      BY <1>3 DEF settledOwned
    <3> QED
      BY <1>4, <3>1
  <2>2. \A c \in Conn : sock'[c] \in Sockets
    BY <1>2, <1>5 DEF Sockets
  <2>3. sock' = [c \in Conn |-> sock'[c]]
    BY <1>3
  <2> QED
    BY <2>1, <2>2, <2>3
<1>10. AdmittedInv'
  BY DEF AdmittedInv
<1>11. ASSUME NEW c \in Conn
       PROVE  /\ OwnedOk(owned'[c])
              /\ MayRun(owned'[c]) => sock'[c] = "open"
              /\ sock'[c] = "none" => owned'[c].state = "idle" /\ c \notin records'
              /\ c \notin records' =>
                  /\ owned'[c].thread \in {"none", "ended"}
                  /\ sock'[c] \in {"none", "closed"} \/ c \in retained'
  <2>1. /\ MayRun(owned[c]) => sock[c] = "open"
        /\ sock[c] = "none" => owned[c].state = "idle" /\ c \notin records
        /\ c \notin records => /\ owned[c].thread \in {"none", "ended"}
                               /\ sock[c] \in {"none", "closed"} \/ c \in retained
    BY DEF IInv, ConnInv
  <2>2. MayRun(owned'[c]) => sock'[c] = "open"
    <3>1. ASSUME MayRun(owned'[c])
          PROVE  MayRun(owned[c]) /\ c \notin toClose
      BY <1>4, <1>6, <3>1 DEF MayRun, OwnedOk
    <3> QED
      BY <1>5, <2>1, <3>1
  <2>3. sock'[c] = "none" => owned'[c].state = "idle" /\ c \notin records'
    BY <1>3, <1>4, <1>5, <2>1
  <2>4. CASE c \in freed
    BY <1>4, <1>7, <2>2, <2>3, <2>4 DEF OwnedOk
  <2>5. CASE c \notin freed
    <3>1. c \notin records' => c \notin records /\ c \notin toClose
      BY <1>3, <1>6, <2>5
    <3> QED
      BY <1>3, <1>4, <1>5, <2>1, <2>2, <2>3, <3>1
  <2> QED
    BY <2>4, <2>5
<1>12. ~acceptor'.ran => records' = {} /\ retained' = {} /\ \A c \in Conn : sock'[c] = "none"
  <2> SUFFICES ASSUME ~acceptor'.ran
               PROVE  records' = {} /\ retained' = {} /\ \A c \in Conn : sock'[c] = "none"
    OBVIOUS
  <2>1. records = {} /\ retained = {} /\ \A c \in Conn : sock[c] = "none"
    BY DEF IInv, ConnInv
  <2> QED
    BY <1>3, <1>5, <1>6, <2>1
<1>13. ConnInv'
  BY <1>11, <1>12 DEF ConnInv
<1>14. /\ state' \in States /\ (state' = "stopped" <=> state = "stopped")
       /\ (state' = "new" <=> state = "new")
  BY <1>2, <1>3, BrokenIs
<1> QED
  BY <1>2, <1>3, <1>8, <1>9, <1>10, <1>13, <1>14

-----------------------------------------------------------------------------
(* The acceptor *)

LEMMA EnterAcceptorKeeps == ASSUME IInv, EnterAcceptor PROVE IInv'
<1>1. /\ acceptor.thread = "born" /\ acceptor' = Entered(acceptor)
      /\ UNCHANGED <<state, stopEvent, socket, startPc, acceptPc, accepted, connVars, tokens, stopPc, proved>>
  BY DEF EnterAcceptor
<1>2. acceptor \in Owned /\ OwnedOk(acceptor) /\ AcceptorInv
  BY DEF IInv, TypeOK, AcceptorInv
<1>3. /\ acceptor' \in Owned /\ OwnedOk(acceptor') /\ acceptor'.state = acceptor.state
      /\ acceptor'.cancelled = acceptor.cancelled /\ acceptor'.thread \in {"in", "ended"}
      /\ acceptor.cancelled => acceptor'.thread = "ended"
      /\ acceptor.state # "idle" /\ ~acceptor.ran
  BY <1>1, <1>2, EnteredIs
<1>4. SlotsAgree' /\ AdmittedInv' /\ ConnInv'
  BY <1>1, <1>3, ConnFrame DEF IInv
<1>5. TypeOK'
  BY <1>1, <1>3 DEF IInv, TypeOK, connVars
<1>6. AcceptorInv'
  <2>1. acceptPc = "reap"
    BY <1>1, <1>2 DEF AcceptorInv
  <2>2. MayRun(acceptor') => MayRun(acceptor)
    BY <1>1, <1>3 DEF MayRun
  <2>3. stopPc = "joinAcceptor" => Joinable(acceptor') \/ acceptor'.cancelled
    BY <1>1, <1>2, <1>3 DEF AcceptorInv, Joinable
  <2> QED
    BY <1>1, <1>2, <1>3, <2>1, <2>2, <2>3 DEF AcceptorInv
<1>7. StopInv'
  <2>1. ~EarlyStop => ~proved /\ ~(state = "stopped" /\ stopPc = "no")
    BY <1>1, <1>3 DEF IInv, StopInv, StoppedHasProof, Settled
  <2> QED
    BY <1>1, <2>1 DEF IInv, StopInv, StoppedHasProof
<1> QED
  BY <1>4, <1>5, <1>6, <1>7 DEF IInv

\* While the acceptor runs no stop has passed its join.
LEMMA Acting ==
    ASSUME IInv, acceptor.thread = "in"
    PROVE  /\ acceptor \in Owned /\ OwnedOk(acceptor) /\ acceptor.ran /\ ~acceptor.cancelled
           /\ stopPc \notin AfterJoin
           /\ ~EarlyStop => ~proved /\ ~(state = "stopped" /\ stopPc = "no")
<1>1. acceptor \in Owned /\ OwnedOk(acceptor) /\ acceptor.ran /\ ~acceptor.cancelled
  BY DEF IInv, TypeOK, AcceptorInv, OwnedOk
<1>2. stopPc \notin AfterJoin
  BY <1>1 DEF IInv, AcceptorInv
<1>3. ~Settled(acceptor)
  BY <1>1 DEF OwnedOk, Settled
<1> QED
  BY <1>1, <1>2, <1>3 DEF IInv, StopInv, StoppedHasProof

LEMMA ActingStop ==
    ASSUME IInv, acceptor.thread = "in", UNCHANGED <<startPc, stopPc, proved>>,
           state' \in {state, Broken(state)}
    PROVE  StopInv' /\ state' \in States
<1>1. (state' = "stopped" <=> state = "stopped") /\ (state' = "new" <=> state = "new") /\ state' \in States
  BY BrokenIs DEF IInv, TypeOK
<1>2. StopInv'
  BY <1>1, Acting DEF IInv, StopInv, StoppedHasProof
<1> QED
  BY <1>1, <1>2

LEMMA AcceptorReapsKeeps == ASSUME IInv, AcceptorReaps PROVE IInv'
<1>1. /\ acceptor.thread = "in" /\ acceptPc = "reap" /\ Reap
      /\ \/ acceptor' = Ended(acceptor) /\ acceptPc' = acceptPc
         \/ acceptPc' = "check" /\ acceptor' = acceptor
      /\ UNCHANGED <<stopEvent, socket, startPc, accepted, tokens, stopPc, proved>>
  BY DEF AcceptorReaps, At
<1>2. /\ acceptor' \in Owned /\ OwnedOk(acceptor') /\ acceptor'.ran = acceptor.ran
      /\ acceptor'.cancelled = acceptor.cancelled /\ acceptor'.state = acceptor.state
      /\ acceptor' = acceptor \/ acceptor'.thread = "ended"
  BY <1>1, Acting, EndedIs
<1>3. /\ SlotsAgree' /\ AdmittedInv' /\ ConnInv'
      /\ owned' \in [Conn -> Owned] /\ sock' \in [Conn -> Sockets]
      /\ records' \subseteq Conn /\ authenticated' \subseteq Conn /\ retained' = retained
      /\ preAuth' \in 0 .. PreAuthSlots /\ auth' \in 0 .. SessionSlots
      /\ state' \in States /\ (state' = "stopped" <=> state = "stopped")
      /\ (state' = "new" <=> state = "new")
  BY <1>1, <1>2, ReapKeeps
<1>4. TypeOK'
  BY <1>1, <1>2, <1>3 DEF IInv, TypeOK
<1>5. AcceptorInv'
  <2>1. MayRun(acceptor') => MayRun(acceptor)
    BY <1>1, <1>2 DEF MayRun
  <2>2. Joinable(acceptor')
    BY <1>1, <1>2, Acting DEF Joinable
  <2> QED
    BY <1>1, <1>2, <2>1, <2>2, Acting DEF IInv, AcceptorInv
<1>6. StopInv'
  BY <1>1, <1>3, Acting DEF IInv, StopInv, StoppedHasProof
<1> QED
  BY <1>3, <1>4, <1>5, <1>6 DEF IInv

LEMMA AcceptKeeps == ASSUME IInv, Check \/ AcceptNothing \/ \E c \in Conn : Accept(c) PROVE IInv'
<1>1. CASE Check \/ AcceptNothing
  <2>1. /\ acceptor.thread = "in" /\ acceptPc \in {"check", "accept"} /\ acceptPc' \in {"accept", "reap"}
        /\ UNCHANGED <<stopEvent, socket, startPc, acceptor, accepted, connVars, tokens, stopPc, proved>>
        /\ state' \in {state, Broken(state)}
    BY <1>1 DEF Check, AcceptNothing, At
  <2>2. SlotsAgree' /\ AdmittedInv' /\ ConnInv'
    BY <2>1, ConnFrame DEF IInv
  <2>3. AcceptorInv'
    BY <2>1, AcceptorFrame DEF IInv
  <2>4. StopInv' /\ state' \in States
    BY <2>1, ActingStop
  <2>5. TypeOK'
    BY <2>1, <2>4 DEF IInv, TypeOK, connVars
  <2> QED
    BY <2>2, <2>3, <2>4, <2>5 DEF IInv
<1>2. ASSUME NEW c \in Conn, Accept(c)
      PROVE  IInv'
  <2>1. /\ acceptor.thread = "in" /\ acceptPc = "accept" /\ acceptPc' = "admit" /\ accepted' = c
        /\ sock[c] = "none" /\ sock' = [sock EXCEPT ![c] = "open"]
        /\ UNCHANGED <<state, stopEvent, socket, startPc, acceptor, owned, records, retained,
                       authenticated, preAuth, auth, tokens, stopPc, proved>>
    BY <1>2 DEF Accept, At
  <2>2. sock \in [Conn -> Sockets]
    BY DEF IInv, TypeOK
  <2>3. /\ sock'[c] = "open" /\ sock' \in [Conn -> Sockets]
        /\ \A d \in Conn : d # c => sock'[d] = sock[d]
    BY <2>1, <2>2 DEF Sockets
  <2>4. AcceptorInv'
    BY <2>1, AcceptorFrame DEF IInv
  <2>5. StopInv'
    BY <2>1, ActingStop
  <2>6. TypeOK'
    BY <2>1, <2>3 DEF IInv, TypeOK
  <2>7. SlotsAgree'
    BY <2>1 DEF IInv, SlotsAgree
  <2>8. AdmittedInv'
    BY <2>1, <2>3 DEF IInv, AdmittedInv, ConnInv
  <2>9. ConnInv'
    BY <2>1, <2>3, Acting DEF IInv, ConnInv
  <2> QED
    BY <2>4, <2>5, <2>6, <2>7, <2>8, <2>9 DEF IInv
<1> QED
  BY <1>1, <1>2

\* The connection under admission has no thread yet.
LEMMA Admitting ==
    ASSUME IInv, acceptPc \in {"admit", "launch"}
    PROVE  /\ accepted \in Conn /\ owned[accepted] \in Owned /\ OwnedOk(owned[accepted])
           /\ owned[accepted].state = "idle" /\ owned[accepted].thread = "none"
           /\ sock[accepted] = "open" /\ (acceptPc = "launch" => accepted \in records)
           /\ acceptPc = "admit" => accepted \notin records
<1>1. /\ accepted \in Conn /\ owned[accepted].state = "idle" /\ sock[accepted] = "open"
      /\ acceptPc = "launch" => accepted \in records
      /\ acceptPc = "admit" => accepted \notin records
  BY DEF IInv, AdmittedInv
<1>2. owned[accepted] \in Owned /\ OwnedOk(owned[accepted])
  BY <1>1 DEF IInv, TypeOK, ConnInv
<1> QED
  BY <1>1, <1>2 DEF OwnedOk

\* A connection without a record is let go.
LEMMA ReleaseKeeps ==
    ASSUME IInv, acceptor.thread = "in", acceptPc = "admit", Release(accepted),
           accepted' = NoConn, acceptPc' = "reap",
           state' \in {state, Broken(state)}, tokens' \in 0 .. Burst,
           UNCHANGED <<stopEvent, socket, startPc, acceptor, stopPc, proved>>
    PROVE  IInv'
<1>1. PICK result \in CloseOutcomes :
          /\ sock' = [sock EXCEPT ![accepted] = result]
          /\ retained' = IF result = "failed" THEN retained \cup {accepted} ELSE retained
  BY DEF Release
<1>2. UNCHANGED <<owned, records, authenticated, preAuth, auth>> /\ result \in {"closed", "failed"}
  BY CloseOutcomesAre DEF Release
<1>3. /\ accepted \in Conn /\ owned[accepted].thread = "none" /\ accepted \notin records
      /\ sock \in [Conn -> Sockets]
  BY Admitting DEF IInv, TypeOK
<1>4. /\ sock' \in [Conn -> Sockets] /\ sock'[accepted] = result
      /\ \A d \in Conn : d # accepted => sock'[d] = sock[d]
  BY <1>1, <1>2, <1>3 DEF Sockets
<1>5. StopInv' /\ state' \in States
  BY ActingStop
<1>6. AcceptorInv'
  BY AcceptorFrame DEF IInv
<1>7. TypeOK'
  BY <1>1, <1>2, <1>3, <1>4, <1>5 DEF IInv, TypeOK
<1>8. SlotsAgree' /\ AdmittedInv'
  BY <1>2 DEF IInv, SlotsAgree, AdmittedInv
<1>9. ConnInv'
  <2>1. ~(MayRun(owned[accepted]))
    BY <1>3 DEF MayRun
  <2> QED
    BY <1>1, <1>2, <1>3, <1>4, <2>1, Acting DEF IInv, ConnInv
<1> QED
  BY <1>5, <1>6, <1>7, <1>8, <1>9 DEF IInv

LEMMA FactoryFailsKeeps == ASSUME IInv, FactoryFails PROVE IInv'
<1>1. acceptor.thread = "in" /\ acceptPc = "admit" /\ tokens > 0 /\ tokens' = tokens - 1
  BY DEF FactoryFails, At
<1>2. tokens' \in 0 .. Burst
  BY <1>1, ListenerAssumption DEF IInv, TypeOK
<1>3. /\ Release(accepted) /\ state' \in {state, Broken(state)} /\ accepted' = NoConn
      /\ acceptPc' = "reap" /\ UNCHANGED <<stopEvent, socket, startPc, acceptor, stopPc, proved>>
  BY DEF FactoryFails
<1> QED
  BY <1>1, <1>2, <1>3, ReleaseKeeps

\* The loop ends by itself: the connections stay as they are, for stop().
LEMMA AcceptLoopBreaksKeeps == ASSUME IInv, AcceptLoopBreaks PROVE IInv'
<1>1. /\ acceptor.thread = "in" /\ acceptPc \in {"reap", "check"} /\ acceptPc' = "reap"
      /\ acceptor' = Ended(acceptor) /\ state' \in {state, Broken(state)}
      /\ UNCHANGED <<stopEvent, socket, startPc, accepted, connVars, tokens, stopPc, proved>>
  BY DEF AcceptLoopBreaks, At
<1>2. /\ acceptor' \in Owned /\ OwnedOk(acceptor') /\ acceptor'.ran = acceptor.ran
      /\ acceptor'.cancelled = acceptor.cancelled /\ acceptor'.state = acceptor.state
      /\ acceptor'.thread = "ended"
  BY <1>1, Acting, EndedIs
<1>3. SlotsAgree' /\ AdmittedInv' /\ ConnInv'
  BY <1>1, <1>2, ConnFrame DEF IInv
<1>4. StopInv' /\ state' \in States
  BY <1>1, <1>2, ActingStop
<1>5. TypeOK'
  BY <1>1, <1>2, <1>4 DEF IInv, TypeOK, connVars
<1>6. AcceptorInv'
  <2>1. MayRun(acceptor') => MayRun(acceptor)
    BY <1>1, <1>2 DEF MayRun
  <2>2. Joinable(acceptor')
    BY <1>2 DEF Joinable
  <2> QED
    BY <1>1, <1>2, <2>1, <2>2, Acting DEF IInv, AcceptorInv
<1> QED
  BY <1>3, <1>4, <1>5, <1>6 DEF IInv

LEMMA AdmitKeeps == ASSUME IInv, Admit \/ AdmitFails PROVE IInv'
<1>1. acceptor.thread = "in" /\ acceptPc = "admit"
  BY DEF Admit, AdmitFails, At
<1>2. CASE AdmitFails
  <2>1. tokens' \in 0 .. Burst
    BY <1>2 DEF AdmitFails, IInv, TypeOK
  <2> QED
    BY <1>1, <1>2, <2>1, ReleaseKeeps DEF AdmitFails
<1>3. ASSUME Admit
      PROVE  tokens' \in 0 .. Burst
  BY <1>3, ListenerAssumption DEF Admit, IInv, TypeOK
<1>4. CASE Admit /\ ~(state = "running" /\ tokens > 0 /\ HasPreAuthSlot)
  <2>1. /\ Release(accepted) /\ state' \in {state, Broken(state)} /\ accepted' = NoConn
        /\ acceptPc' = "reap" /\ UNCHANGED <<stopEvent, socket, startPc, acceptor, stopPc, proved>>
    BY <1>4 DEF Admit
  <2> QED
    BY <1>1, <1>3, <1>4, <2>1, ReleaseKeeps
<1>5. CASE Admit /\ state = "running" /\ tokens > 0 /\ HasPreAuthSlot
  <2>1. /\ records' = records \cup {accepted} /\ preAuth' = preAuth + 1 /\ acceptPc' = "launch"
        /\ preAuth < PreAuthSlots
        /\ UNCHANGED <<state, accepted, owned, sock, retained, authenticated, auth, stopEvent,
                       socket, startPc, acceptor, stopPc, proved>>
    BY <1>5 DEF Admit, HasPreAuthSlot
  <2>2. /\ accepted \in Conn /\ accepted \notin records /\ owned[accepted].thread = "none"
        /\ owned[accepted].state = "idle" /\ sock[accepted] = "open"
    BY <1>1, Admitting
  <2>3. SlotsAgree' /\ preAuth' \in 0 .. PreAuthSlots
    <3>1. /\ IsFiniteSet(records \ authenticated) /\ accepted \notin records \ authenticated
          /\ records' \ authenticated' = (records \ authenticated) \cup {accepted}
      BY <2>1, <2>2, FS_Subset, ListenerAssumption DEF IInv, TypeOK, SlotsAgree
    <3>2. Cardinality(records' \ authenticated') = Cardinality(records \ authenticated) + 1
      BY <3>1, FS_AddElement
    <3>3. preAuth \in Nat
      BY ListenerAssumption DEF IInv, TypeOK
    <3>4. preAuth + 1 <= PreAuthSlots /\ preAuth' \in 0 .. PreAuthSlots
      BY <2>1, <3>3, ListenerAssumption
    <3> QED
      BY <2>1, <3>2, <3>4 DEF IInv, SlotsAgree
  <2>4. TypeOK'
    BY <1>3, <1>5, <2>1, <2>2, <2>3 DEF IInv, TypeOK
  <2>5. AcceptorInv'
    BY <1>1, <2>1, AcceptorFrame DEF IInv
  <2>6. StopInv'
    BY <1>1, <2>1, ActingStop
  <2>7. AdmittedInv'
    BY <2>1, <2>2 DEF AdmittedInv
  <2>8. ConnInv'
    BY <1>1, <2>1, <2>2, Acting DEF IInv, ConnInv
  <2> QED
    BY <2>3, <2>4, <2>5, <2>6, <2>7, <2>8 DEF IInv
<1> QED
  BY <1>2, <1>4, <1>5

-----------------------------------------------------------------------------
(* The worker of a connection *)

\* One worker's thread moves and nothing else of the connections does.
LEMMA OneWorker ==
    ASSUME IInv, NEW c \in Conn, NEW o \in Owned, OwnedOk(o),
           owned' = [owned EXCEPT ![c] = o], c \in records, sock[c] # "none",
           MayRun(o) => sock[c] = "open",
           UNCHANGED <<sock, records, retained, authenticated, preAuth, auth, acceptor>>,
           \/ UNCHANGED <<acceptPc, accepted>> /\ (accepted = c => o.state = owned[c].state)
           \/ /\ acceptPc # "admit" /\ acceptPc' \notin {"admit", "launch"}
              /\ acceptPc' \in {"launched", "failed"} => accepted' \in records
    PROVE  SlotsAgree' /\ AdmittedInv' /\ ConnInv' /\ owned' \in [Conn -> Owned]
<1>1. owned \in [Conn -> Owned]
  BY DEF IInv, TypeOK
<1>2. owned'[c] = o /\ (\A d \in Conn : d # c => owned'[d] = owned[d]) /\ owned' \in [Conn -> Owned]
  BY <1>1
<1>3. SlotsAgree'
  BY DEF IInv, SlotsAgree
<1>4. AdmittedInv'
  BY <1>2 DEF IInv, AdmittedInv, TypeOK
<1>5. ConnInv'
  BY <1>2 DEF IInv, ConnInv
<1> QED
  BY <1>2, <1>3, <1>4, <1>5

LEMMA LaunchWorkerKeeps == ASSUME IInv, LaunchWorker PROVE IInv'
<1>1. /\ acceptor.thread = "in" /\ acceptPc = "launch" /\ acceptPc' \in {"launched", "failed"}
      /\ UNCHANGED <<state, stopEvent, socket, startPc, acceptor, accepted, sock, records,
                     retained, authenticated, preAuth, auth, tokens, stopPc, proved>>
  BY DEF LaunchWorker, At
<1>2. PICK o \in FailedAttempts(owned[accepted]) : owned' = [owned EXCEPT ![accepted] = o]
  BY DEF LaunchWorker, FailedAttempts
<1>3. /\ accepted \in Conn /\ owned[accepted] \in Owned /\ OwnedOk(owned[accepted])
      /\ owned[accepted].state = "idle" /\ sock[accepted] = "open" /\ accepted \in records
  BY <1>1, Admitting
<1>4. o \in Owned /\ OwnedOk(o)
  BY <1>2, <1>3, AttemptIs
<1>5. SlotsAgree' /\ AdmittedInv' /\ ConnInv' /\ owned' \in [Conn -> Owned]
  BY <1>1, <1>2, <1>3, <1>4, OneWorker
<1>6. AcceptorInv' /\ StopInv'
  BY <1>1, AcceptorFrame, ActingStop DEF IInv
<1>7. TypeOK'
  BY <1>1, <1>5 DEF IInv, TypeOK
<1> QED
  BY <1>5, <1>6, <1>7 DEF IInv

LEMMA WorkerLaunchedKeeps == ASSUME IInv, WorkerLaunched PROVE IInv'
<1>1. /\ acceptor.thread = "in" /\ acceptPc \in {"launched", "failed"} /\ acceptPc' = "reap"
      /\ accepted' = NoConn /\ state' \in {state, Broken(state)}
      /\ owned' = [owned EXCEPT ![accepted] =
                      IF acceptPc = "launched" THEN Confirmed(@) ELSE FailedStart(@)]
      /\ UNCHANGED <<stopEvent, socket, startPc, acceptor, sock, records, retained,
                     authenticated, preAuth, auth, tokens, stopPc, proved>>
  BY DEF WorkerLaunched, At
<1>2. accepted \in Conn /\ accepted \in records
  BY <1>1 DEF IInv, AdmittedInv
<1>3. owned[accepted] \in Owned /\ OwnedOk(owned[accepted])
  BY <1>2 DEF IInv, TypeOK, ConnInv
<1> DEFINE o == IF acceptPc = "launched" THEN Confirmed(owned[accepted]) ELSE FailedStart(owned[accepted])
<1>4. /\ o \in Owned /\ OwnedOk(o) /\ o.thread = owned[accepted].thread
      /\ owned[accepted].cancelled => o.cancelled
  BY <1>3, ConfirmedIs, FailedStartIs
<1>5. owned' = [owned EXCEPT ![accepted] = o]
  BY <1>1
<1> HIDE DEF o
<1>6. sock[accepted] # "none" /\ (MayRun(o) => sock[accepted] = "open")
  BY <1>2, <1>4 DEF IInv, ConnInv, MayRun
<1>7. SlotsAgree' /\ AdmittedInv' /\ ConnInv' /\ owned' \in [Conn -> Owned]
  BY <1>1, <1>2, <1>4, <1>5, <1>6, OneWorker
<1>8. AcceptorInv' /\ StopInv' /\ state' \in States
  BY <1>1, AcceptorFrame, ActingStop DEF IInv
<1>9. TypeOK'
  BY <1>1, <1>7, <1>8 DEF IInv, TypeOK
<1> QED
  BY <1>7, <1>8, <1>9 DEF IInv

\* A worker that may run has a record with an open socket, and no stop is complete.
LEMMA Working ==
    ASSUME IInv, NEW c \in Conn, owned[c].thread \in {"born", "in"}
    PROVE  /\ owned[c] \in Owned /\ OwnedOk(owned[c]) /\ c \in records /\ sock[c] # "none"
           /\ MayRun(owned[c]) => sock[c] = "open"
           /\ ~EarlyStop => ~(state = "stopped" /\ stopPc = "no")
  BY DEF IInv, TypeOK, ConnInv, StopInv, StoppedHasProof

LEMMA WorkerMoves ==
    ASSUME IInv, NEW c \in Conn, EnterWorker(c) \/ EndWorker(c)
    PROVE  IInv'
<1>1. /\ owned[c].thread \in {"born", "in"}
      /\ UNCHANGED <<state, stopEvent, socket, startPc, acceptor, acceptPc, accepted, sock, records,
                     retained, authenticated, preAuth, auth, tokens, stopPc, proved>>
  BY DEF EnterWorker, EndWorker, threadVars
<1>2. PICK o : /\ owned' = [owned EXCEPT ![c] = o]
               /\ \/ o = Entered(owned[c]) /\ owned[c].thread = "born"
                  \/ o = Ended(owned[c]) /\ owned[c].thread = "in"
  BY DEF EnterWorker, EndWorker
<1>3. /\ owned[c] \in Owned /\ OwnedOk(owned[c]) /\ c \in records /\ sock[c] # "none"
      /\ MayRun(owned[c]) => sock[c] = "open"
      /\ ~EarlyStop => ~(state = "stopped" /\ stopPc = "no")
  BY <1>1, Working
<1>4. /\ o \in Owned /\ OwnedOk(o) /\ o.state = owned[c].state
      /\ o.cancelled = owned[c].cancelled
  BY <1>2, <1>3, EnteredIs, EndedIs
<1>5. MayRun(o) => MayRun(owned[c])
  BY <1>1, <1>4 DEF MayRun
<1>6. SlotsAgree' /\ AdmittedInv' /\ ConnInv' /\ owned' \in [Conn -> Owned]
  BY <1>1, <1>2, <1>3, <1>4, <1>5, OneWorker
<1>7. AcceptorInv'
  BY <1>1, AcceptorFrame DEF IInv, AcceptorInv
<1>8. StopInv'
  BY <1>1, <1>3 DEF IInv, StopInv, StoppedHasProof
<1>9. TypeOK'
  BY <1>1, <1>6 DEF IInv, TypeOK
<1> QED
  BY <1>6, <1>7, <1>8, <1>9 DEF IInv

LEMMA PromoteKeeps ==
    ASSUME IInv, NEW c \in Conn, Promote(c)
    PROVE  IInv'
<1>1. /\ owned[c].thread = "in" /\ c \notin authenticated /\ auth < SessionSlots
      /\ auth' = auth + 1 /\ preAuth' = preAuth - 1 /\ authenticated' = authenticated \cup {c}
      /\ UNCHANGED <<state, stopEvent, socket, startPc, acceptor, acceptPc, accepted, owned, sock, records,
                     retained, tokens, stopPc, proved>>
  BY DEF Promote, HasSessionSlot, threadVars
<1>2. c \in records /\ (~EarlyStop => ~(state = "stopped" /\ stopPc = "no"))
  BY <1>1, Working
<1>3. SlotsAgree' /\ preAuth' \in 0 .. PreAuthSlots /\ auth' \in 0 .. SessionSlots
  <2>1. IsFiniteSet(records \ authenticated) /\ IsFiniteSet(authenticated)
    BY FS_Subset, ListenerAssumption DEF IInv, TypeOK, SlotsAgree
  <2>2. Cardinality(authenticated \cup {c}) = Cardinality(authenticated) + 1
    BY <1>1, <2>1, FS_AddElement
  <2>3. /\ Cardinality((records \ authenticated) \ {c}) = Cardinality(records \ authenticated) - 1
        /\ IsFiniteSet((records \ authenticated) \ {c})
    BY <1>1, <1>2, <2>1, FS_RemoveElement
  <2>4. records' \ authenticated' = (records \ authenticated) \ {c}
    BY <1>1
  <2>5. auth' = Cardinality(authenticated') /\ preAuth' = Cardinality(records' \ authenticated')
    BY <1>1, <2>2, <2>3, <2>4 DEF IInv, SlotsAgree
  <2>6. preAuth' \in Nat
    BY <2>3, <2>4, <2>5, FS_CardinalityType
  <2>7. auth \in Nat /\ preAuth \in 0 .. PreAuthSlots
    BY ListenerAssumption DEF IInv, TypeOK
  <2>8. preAuth' <= PreAuthSlots /\ auth' <= SessionSlots /\ auth' \in Nat
    BY <1>1, <2>6, <2>7, ListenerAssumption
  <2> QED
    BY <1>1, <1>2, <2>5, <2>6, <2>8, ListenerAssumption DEF IInv, SlotsAgree
<1>4. TypeOK'
  BY <1>1, <1>3 DEF IInv, TypeOK
<1>5. AcceptorInv' /\ AdmittedInv' /\ ConnInv'
  BY <1>1 DEF IInv, AcceptorInv, AdmittedInv, ConnInv
<1>6. StopInv'
  BY <1>1, <1>2 DEF IInv, StopInv, StoppedHasProof
<1> QED
  BY <1>3, <1>4, <1>5, <1>6 DEF IInv

LEMMA RefillKeeps == ASSUME IInv, Refill PROVE IInv'
<1>1. /\ tokens < Burst /\ tokens' = tokens + 1
      /\ UNCHANGED <<state, stopEvent, socket, startPc, acceptor, acceptPc, accepted, owned, sock, records,
                     retained, authenticated, preAuth, auth, stopPc, proved>>
  BY DEF Refill, threadVars, connVars
<1>2. tokens' \in 0 .. Burst
  BY <1>1, ListenerAssumption DEF IInv, TypeOK
<1>3. TypeOK'
  BY <1>1, <1>2 DEF IInv, TypeOK
<1>4. AcceptorInv' /\ AdmittedInv' /\ ConnInv' /\ SlotsAgree'
  BY <1>1 DEF IInv, AcceptorInv, AdmittedInv, ConnInv, SlotsAgree
<1>5. StopInv'
  BY <1>1 DEF IInv, StopInv, StoppedHasProof
<1> QED
  BY <1>3, <1>4, <1>5 DEF IInv

-----------------------------------------------------------------------------
(* request_stop() and stop() *)

\* A listener that was never started has nothing to prove.
LEMMA NeverStarted ==
    ASSUME IInv, state = "new"
    PROVE  /\ startPc = "new" /\ acceptor.thread = "none" /\ socket = "none"
           /\ \A c \in Conn : owned[c].thread \in {"none", "ended"} /\ sock[c] = "none"
<1>1. startPc = "new" /\ acceptor.state = "idle" /\ socket = "none" /\ OwnedOk(acceptor)
      /\ acceptor \in Owned
  BY DEF IInv, TypeOK, StopInv, AcceptorInv
<1>2. acceptor.thread = "none" /\ ~acceptor.ran
  BY <1>1, OwnedFields DEF OwnedOk
<1>3. records = {} /\ \A c \in Conn : sock[c] = "none"
  BY <1>2 DEF IInv, ConnInv
<1> QED
  BY <1>1, <1>2, <1>3 DEF IInv, ConnInv

LEMMA RequestKeeps == ASSUME IInv, RequestStop \/ Stop PROVE IInv'
<1>1. /\ MayStop /\ stopPc = "no" /\ stopEvent' = TRUE
      /\ UNCHANGED <<socket, startPc, acceptor, acceptPc, accepted, owned, sock, records,
                     retained, authenticated, preAuth, auth, tokens, proved>>
  BY DEF RequestStop, Stop, threadVars, connVars
<1>2. /\ stopPc' \in {"no", "cancel"}
      /\ state' \in States /\ state' # "new"
      /\ state' = "stopped" => state \in {"new", "stopped"}
      /\ state = "new" => stopPc' = "no"
  BY <1>1 DEF RequestStop, Stop, IInv, TypeOK, States
<1>3. SlotsAgree' /\ AdmittedInv' /\ ConnInv'
  BY <1>1, ConnFrame DEF IInv, connVars
<1>4. AcceptorInv'
  BY <1>1, <1>2 DEF IInv, AcceptorInv, AfterJoin
<1>5. TypeOK'
  BY <1>1, <1>2 DEF IInv, TypeOK
<1>6. StopInv'
  <2>1. ~proved'
    BY <1>1 DEF IInv, StopInv
  <2>2. ~EarlyStop => startPc \in {"new", "done"}
    BY <1>1 DEF MayStop
  <2>3. ASSUME ~EarlyStop
        PROVE  StoppedHasProof'
    <3>1. CASE state = "new"
      <4>1. /\ acceptor.thread = "none" /\ socket = "none"
            /\ \A c \in Conn : owned[c].thread \in {"none", "ended"} /\ sock[c] = "none"
        BY <3>1, NeverStarted
      <4> QED
        BY <1>1, <4>1 DEF StoppedHasProof
    <3>2. CASE state # "new"
      BY <1>1, <1>2, <2>3, <3>2 DEF IInv, StopInv, StoppedHasProof
    <3> QED
      BY <3>1, <3>2
  <2> QED
    BY <1>1, <1>2, <2>1, <2>2, <2>3 DEF StopInv
<1> QED
  BY <1>3, <1>4, <1>5, <1>6 DEF IInv

\* A step of stop() before its proof.
LEMMA StopGoesOn ==
    ASSUME IInv, stopPc \notin {"no", "end"}, stopPc' \notin {"no", "end"},
           UNCHANGED <<startPc, proved>>, state' # "new"
    PROVE  StopInv'
<1>1. ~proved' /\ (~EarlyStop => startPc' \in {"new", "done"})
  BY DEF IInv, StopInv
<1> QED
  BY <1>1 DEF StopInv, StoppedHasProof

LEMMA CancelAcceptorKeeps == ASSUME IInv, CancelAcceptor PROVE IInv'
<1>1. /\ stopPc = "cancel" /\ stopPc' = "joinAcceptor" /\ acceptor' = Cancelled(acceptor)
      /\ UNCHANGED <<state, stopEvent, socket, startPc, acceptPc, accepted, connVars, tokens, proved>>
  BY DEF CancelAcceptor, StopMoves
<1>2. acceptor \in Owned /\ OwnedOk(acceptor) /\ AcceptorInv
  BY DEF IInv, TypeOK, AcceptorInv
<1>3. /\ acceptor' \in Owned /\ OwnedOk(acceptor') /\ acceptor'.state = acceptor.state
      /\ acceptor'.thread = acceptor.thread /\ acceptor'.ran = acceptor.ran
      /\ acceptor.cancelled => acceptor'.cancelled
      /\ acceptor'.cancelled \/ acceptor.ran \/ acceptor.state = "started"
  BY <1>1, <1>2, CancelledIs
<1>4. SlotsAgree' /\ AdmittedInv' /\ ConnInv'
  BY <1>1, <1>3, ConnFrame DEF IInv
<1>5. AcceptorInv'
  <2>1. Joinable(acceptor') \/ acceptor'.cancelled
    BY <1>3 DEF Joinable
  <2>2. MayRun(acceptor') => MayRun(acceptor)
    BY <1>3 DEF MayRun
  <2> QED
    BY <1>1, <1>2, <1>3, <2>1, <2>2 DEF AcceptorInv, AfterJoin
<1>6. StopInv'
  <2>1. state' # "new"
    BY <1>1 DEF IInv, StopInv
  <2> QED
    BY <1>1, <2>1, StopGoesOn
<1>7. TypeOK'
  BY <1>1, <1>3 DEF IInv, TypeOK, connVars
<1> QED
  BY <1>4, <1>5, <1>6, <1>7 DEF IInv

LEMMA JoinKeeps == ASSUME IInv, JoinAcceptor \/ JoinWorkers PROVE IInv'
<1>1. /\ \/ stopPc = "joinAcceptor" /\ stopPc' = "cancelAll" /\ JoinReturns(acceptor)
         \/ stopPc = "joinAll" /\ stopPc' = "reap"
      /\ UNCHANGED <<state, stopEvent, socket, startPc, acceptor, acceptPc, accepted, connVars, tokens, proved>>
  BY DEF JoinAcceptor, JoinWorkers, StopMoves, threadVars
<1>2. SlotsAgree' /\ AdmittedInv' /\ ConnInv'
  BY <1>1, ConnFrame DEF IInv
<1>3. AcceptorInv'
  BY <1>1 DEF IInv, AcceptorInv, AfterJoin, JoinReturns
<1>4. StopInv'
  <2>1. state' # "new"
    BY <1>1 DEF IInv, StopInv
  <2> QED
    BY <1>1, <2>1, StopGoesOn
<1>5. TypeOK'
  BY <1>1 DEF IInv, TypeOK, connVars
<1> QED
  BY <1>2, <1>3, <1>4, <1>5 DEF IInv

\* Past its join, stop() is alone with the connections.
LEMMA Alone ==
    ASSUME IInv, stopPc \in AfterJoin
    PROVE  acceptPc = "reap" /\ acceptor.thread # "in" /\ ~MayRun(acceptor) /\ state # "new"
<1>1. acceptor.thread = "ended" \/ acceptor.cancelled
  BY DEF IInv, AcceptorInv
<1>2. acceptor.thread # "in"
  BY <1>1 DEF IInv, AcceptorInv, OwnedOk
<1> QED
  BY <1>1, <1>2 DEF IInv, AcceptorInv, MayRun, StopInv, AfterJoin

LEMMA CancelWorkersKeeps == ASSUME IInv, CancelWorkers PROVE IInv'
<1>1. /\ stopPc = "cancelAll" /\ stopPc' = "joinAll"
      /\ owned' = [c \in Conn |-> IF c \in records THEN Cancelled(owned[c]) ELSE owned[c]]
      /\ UNCHANGED <<state, stopEvent, socket, startPc, acceptor, acceptPc, accepted, sock, records,
                     retained, authenticated, preAuth, auth, tokens, proved>>
  BY DEF CancelWorkers, StopMoves, threadVars
<1>2. \A c \in Conn : owned[c] \in Owned /\ OwnedOk(owned[c])
  BY DEF IInv, TypeOK, ConnInv
<1>3. \A c \in Conn :
        /\ owned'[c] \in Owned /\ OwnedOk(owned'[c])
        /\ owned'[c].state = owned[c].state /\ owned'[c].thread = owned[c].thread
        /\ owned[c].cancelled => owned'[c].cancelled
  BY <1>1, <1>2, CancelledIs
<1>4. owned' \in [Conn -> Owned]
  <2>1. owned' = [c \in Conn |-> owned'[c]]
    BY <1>1
  <2> QED
    BY <1>3, <2>1
<1>5. acceptPc = "reap" /\ state # "new"
  BY <1>1, Alone DEF AfterJoin
<1>6. TypeOK'
  BY <1>1, <1>4 DEF IInv, TypeOK
<1>7. AcceptorInv' /\ SlotsAgree' /\ AdmittedInv'
  BY <1>1, <1>5 DEF IInv, AcceptorInv, SlotsAgree, AdmittedInv, AfterJoin
<1>8. ConnInv'
  <2>1. \A c \in Conn : MayRun(owned'[c]) => MayRun(owned[c])
    BY <1>3 DEF MayRun
  <2> QED
    BY <1>1, <1>3, <2>1 DEF IInv, ConnInv
<1>9. StopInv'
  BY <1>1, <1>5, StopGoesOn
<1> QED
  BY <1>6, <1>7, <1>8, <1>9 DEF IInv

LEMMA StopReapsKeeps == ASSUME IInv, StopReaps PROVE IInv'
<1>1. /\ stopPc = "reap" /\ stopPc' = "close" /\ Reap
      /\ UNCHANGED <<stopEvent, socket, startPc, acceptor, acceptPc, accepted, tokens, proved>>
  BY DEF StopReaps, StopMoves, threadVars
<1>2. acceptPc = "reap" /\ state # "new"
  BY <1>1, Alone DEF AfterJoin
<1>3. /\ SlotsAgree' /\ AdmittedInv' /\ ConnInv'
      /\ owned' \in [Conn -> Owned] /\ sock' \in [Conn -> Sockets]
      /\ records' \subseteq Conn /\ authenticated' \subseteq Conn /\ retained' = retained
      /\ preAuth' \in 0 .. PreAuthSlots /\ auth' \in 0 .. SessionSlots
      /\ state' \in States /\ (state' = "new" <=> state = "new")
  BY <1>1, <1>2, ReapKeeps
<1>4. TypeOK'
  BY <1>1, <1>3 DEF IInv, TypeOK
<1>5. AcceptorInv'
  BY <1>1, <1>2 DEF IInv, AcceptorInv, AfterJoin
<1>6. StopInv'
  BY <1>1, <1>2, <1>3, StopGoesOn
<1> QED
  BY <1>3, <1>4, <1>5, <1>6 DEF IInv

LEMMA CloseListenerKeeps == ASSUME IInv, CloseListener PROVE IInv'
<1>1. /\ stopPc = "close" /\ stopPc' = "prove"
      /\ socket' \in IF socket = "open" /\ Closes(acceptor) THEN CloseOutcomes ELSE {socket}
      /\ UNCHANGED <<state, stopEvent, startPc, acceptor, acceptPc, accepted, connVars, tokens, proved>>
  BY DEF CloseListener, StopMoves, threadVars
<1>2. acceptPc = "reap" /\ ~MayRun(acceptor) /\ state # "new"
  BY <1>1, Alone DEF AfterJoin
<1>3. socket' \in Sockets /\ (socket = "none" => socket' = "none")
  BY <1>1, CloseOutcomesAre DEF IInv, TypeOK, Sockets
<1>4. SlotsAgree' /\ AdmittedInv' /\ ConnInv'
  BY <1>1, ConnFrame DEF IInv
<1>5. AcceptorInv'
  <2>1. startPc \in {"decide", "launch"} => acceptor.cancelled
    BY <1>1 DEF IInv, AcceptorInv, OwnedOk, AfterJoin
  <2> QED
    BY <1>1, <1>2, <1>3, <2>1 DEF IInv, AcceptorInv, AfterJoin
<1>6. StopInv'
  BY <1>1, <1>2, StopGoesOn
<1>7. TypeOK'
  BY <1>1, <1>3 DEF IInv, TypeOK, connVars
<1> QED
  BY <1>4, <1>5, <1>6, <1>7 DEF IInv

LEMMA ProveKeeps == ASSUME IInv, Prove PROVE IInv'
<1>1. /\ stopPc = "prove" /\ stopPc' = "end"
      /\ proved' = (Settled(acceptor) /\ socket \in {"none", "closed"} /\ retained = {})
      /\ UNCHANGED <<state, stopEvent, socket, startPc, acceptor, acceptPc, accepted, connVars, tokens>>
  BY DEF Prove, StopMoves, threadVars
<1>2. proved' \in BOOLEAN /\ retained' = retained
  BY <1>1 DEF connVars
<1>3. SlotsAgree' /\ AdmittedInv' /\ ConnInv'
  BY <1>1, ConnFrame DEF IInv
<1>4. AcceptorInv'
  BY <1>1 DEF IInv, AcceptorInv, AfterJoin
<1>5. StopInv'
  BY <1>1, <1>2 DEF IInv, StopInv, StoppedHasProof
<1>6. TypeOK'
  BY <1>1, <1>2 DEF IInv, TypeOK, connVars
<1> QED
  BY <1>3, <1>4, <1>5, <1>6 DEF IInv

LEMMA EndStopKeeps == ASSUME IInv, EndStop PROVE IInv'
<1>1. /\ stopPc = "end" /\ stopPc' = "no" /\ proved' = FALSE
      /\ state' = IF Complete THEN "stopped" ELSE "incomplete"
      /\ UNCHANGED <<stopEvent, socket, startPc, acceptor, acceptPc, accepted, connVars, tokens>>
  BY DEF EndStop, StopMoves, threadVars
<1>2. UNCHANGED <<owned, sock, records, retained>>
  BY <1>1 DEF connVars
<1>3. SlotsAgree' /\ AdmittedInv' /\ ConnInv'
  BY <1>1, ConnFrame DEF IInv
<1>4. AcceptorInv'
  BY <1>1 DEF IInv, AcceptorInv, AfterJoin
<1>5. TypeOK'
  BY <1>1 DEF IInv, TypeOK, connVars, States
<1>6. StopInv'
  <2>1. ASSUME ~EarlyStop, Complete
        PROVE  /\ acceptor.thread \in {"none", "ended"} /\ socket \in {"none", "closed"}
               /\ \A c \in Conn : owned[c].thread \in {"none", "ended"} /\ sock[c] \in {"none", "closed"}
    <3>1. Settled(acceptor) /\ socket \in {"none", "closed"} /\ retained = {} /\ records = {}
      BY <2>1 DEF IInv, StopInv, Complete
    <3>2. acceptor.thread \in {"none", "ended"}
      BY <3>1 DEF IInv, AcceptorInv, OwnedOk, Settled
    <3>3. acceptPc = "reap"
      BY <1>1, Alone DEF AfterJoin
    <3> QED
      BY <3>1, <3>2, <3>3 DEF IInv, ConnInv
  <2>2. ~EarlyStop => startPc \in {"new", "done"}
    BY <1>1 DEF IInv, StopInv
  <2> QED
    BY <1>1, <1>2, <2>1, <2>2 DEF StopInv, StoppedHasProof
<1> QED
  BY <1>3, <1>4, <1>5, <1>6 DEF IInv

-----------------------------------------------------------------------------
(* The invariant and what it gives *)

LEMMA InitInvariant == ASSUME Init PROVE IInv
<1> USE DEF Init
<1>1. Adopted \in Owned /\ OwnedOk(Adopted) /\ Adopted.state = "idle" /\ Adopted.thread = "none"
      /\ ~Adopted.ran
  BY DEF Adopted, Owned, OwnedOk
<1>2. TypeOK
  <2>1. owned \in [Conn -> Owned] /\ sock \in [Conn -> Sockets]
    BY <1>1 DEF Sockets
  <2>2. preAuth \in 0 .. PreAuthSlots /\ auth \in 0 .. SessionSlots /\ tokens \in 0 .. Burst
    BY ListenerAssumption
  <2>3. state \in States /\ socket \in Sockets
    BY DEF States, Sockets
  <2>4. acceptor \in Owned /\ accepted \in Conn \cup {NoConn}
    BY <1>1
  <2>5. records \subseteq Conn /\ retained \subseteq Conn /\ authenticated \subseteq Conn
    OBVIOUS
  <2> QED
    BY <2>1, <2>2, <2>3, <2>4, <2>5, Zenon DEF TypeOK
<1>3. SlotsAgree
  <2>1. records \ authenticated = {} /\ Cardinality({}) = 0
    BY FS_EmptySet
  <2> QED
    BY <2>1, ListenerAssumption DEF SlotsAgree
<1>4. ~MayRun(Adopted)
  BY <1>1 DEF MayRun
<1>5. AcceptorInv
  BY <1>1, <1>4 DEF AcceptorInv, AfterJoin
<1>6. AdmittedInv /\ ConnInv
  BY <1>1, <1>4 DEF AdmittedInv, ConnInv
<1>7. StopInv
  BY DEF StopInv, StoppedHasProof
<1> QED
  BY <1>2, <1>3, <1>5, <1>6, <1>7 DEF IInv

LEMMA StutterKeeps == ASSUME IInv, UNCHANGED vars PROVE IInv'
<1>1. UNCHANGED <<state, stopEvent, socket, startPc, acceptor, acceptPc, accepted, owned, sock, records,
                 retained, authenticated, preAuth, auth, tokens, stopPc, proved>>
  BY DEF vars, threadVars, connVars
<1>2. TypeOK'
  BY <1>1 DEF IInv, TypeOK
<1>3. AcceptorInv' /\ AdmittedInv' /\ ConnInv' /\ SlotsAgree'
  BY <1>1 DEF IInv, AcceptorInv, AdmittedInv, ConnInv, SlotsAgree
<1>4. StopInv'
  BY <1>1 DEF IInv, StopInv, StoppedHasProof
<1> QED
  BY <1>2, <1>3, <1>4 DEF IInv

LEMMA StepInvariant == ASSUME IInv, [Next]_vars PROVE IInv'
<1>1. CASE StartStep
  BY <1>1, StartStepKeeps
<1>2. CASE AcceptorStep
  BY <1>2, EnterAcceptorKeeps, AcceptorReapsKeeps, AcceptKeeps, AdmitKeeps, FactoryFailsKeeps,
     LaunchWorkerKeeps, WorkerLaunchedKeeps, AcceptLoopBreaksKeeps DEF AcceptorStep
<1>3. CASE Refill
  BY <1>3, RefillKeeps
<1>4. CASE \E c \in Conn : EnterWorker(c) \/ Promote(c) \/ EndWorker(c)
  BY <1>4, WorkerMoves, PromoteKeeps
<1>5. CASE RequestStop \/ Stop
  BY <1>5, RequestKeeps
<1>6. CASE StopStep
  BY <1>6, CancelAcceptorKeeps, JoinKeeps, CancelWorkersKeeps, StopReapsKeeps, CloseListenerKeeps,
     ProveKeeps, EndStopKeeps DEF StopStep
<1>7. CASE UNCHANGED vars
  BY <1>7, StutterKeeps
<1> QED
  BY <1>1, <1>2, <1>3, <1>4, <1>5, <1>6, <1>7 DEF Next

LEMMA IInvSafe == IInv => SlotsAgree /\ NeverClosedUnderThread
<1> SUFFICES ASSUME IInv
             PROVE  SlotsAgree /\ NeverClosedUnderThread
  OBVIOUS
<1>1. ASSUME NEW c \in Conn, owned[c].thread = "in"
      PROVE  sock[c] = "open"
  BY <1>1 DEF IInv, ConnInv, OwnedOk, MayRun
<1>2. acceptor.thread = "in" => socket = "open"
  BY DEF IInv, AcceptorInv, OwnedOk, MayRun
<1> QED
  BY <1>1, <1>2 DEF IInv, NeverClosedUnderThread

(***************************************************************************)
(* Whatever fails and whenever a stop comes, even during start(), the two  *)
(* counters of slots agree with the records and no socket is closed under  *)
(* its thread (_reap, _admit, _promote, stop).                             *)
(***************************************************************************)
THEOREM SlotsCorrect ==
    Spec => [](SlotsAgree /\ NeverClosedUnderThread)
<1>1. Init => IInv
  BY InitInvariant
<1>2. IInv /\ [Next]_vars => IInv'
  BY StepInvariant
<1>3. IInv => SlotsAgree /\ NeverClosedUnderThread
  BY IInvSafe
<1> QED
  BY <1>1, <1>2, <1>3, PTL DEF Spec

(***************************************************************************)
(* When stop() does not overlap start(), a listener that calls itself      *)
(* stopped has no thread alive and no socket open, whatever starts and     *)
(* closes failed before (stop, _Owned.settled, _Owned.start).              *)
(***************************************************************************)
THEOREM ListenerCorrect ==
    ASSUME ~EarlyStop
    PROVE  Spec => []ListenerSound
<1>1. Init => IInv
  BY InitInvariant
<1>2. IInv /\ [Next]_vars => IInv'
  BY StepInvariant
<1>3. IInv => ListenerSound
  BY IInvSafe DEF IInv, StopInv, ListenerSound
<1> QED
  BY <1>1, <1>2, <1>3, PTL DEF Spec

-----------------------------------------------------------------------------
(* Sequences of at most three elements *)

LEMMA ShortAppends ==
    ASSUME NEW a, NEW b, NEW c
    PROVE  /\ Append(<< >>, a) = <<a>>
           /\ Append(<<a>>, b) = <<a, b>>
           /\ Append(<<a, b>>, c) = <<a, b, c>>
<1> DEFINE S == {a, b, c}
<1>0. <<a>> \in Seq(S) /\ <<a, b>> \in Seq(S) /\ <<a, b, c>> \in Seq(S) /\ b \in S /\ c \in S
  OBVIOUS
<1> HIDE DEF S
<1>2. Append(<<a>>, b) = <<a, b>>
  <2> DEFINE s == Append(<<a>>, b)
  <2>1. s \in Seq(S) /\ Len(s) = 2 /\ s[1] = a /\ s[2] = b
    BY <1>0, AppendProperties
  <2>2. \A i \in 1..Len(s) : s[i] = <<a, b>>[i]
    BY <2>1
  <2> QED
    BY <1>0, <2>1, <2>2, SeqEqual
<1>3. Append(<<a, b>>, c) = <<a, b, c>>
  <2> DEFINE s == Append(<<a, b>>, c)
  <2>1. s \in Seq(S) /\ Len(s) = 3 /\ s[1] = a /\ s[2] = b /\ s[3] = c
    BY <1>0, AppendProperties
  <2>2. \A i \in 1..Len(s) : s[i] = <<a, b, c>>[i]
    BY <2>1
  <2> QED
    BY <1>0, <2>1, <2>2, SeqEqual
<1> QED BY <1>2, <1>3

LEMMA ShortSequences ==
    ASSUME NEW a, NEW b, NEW c
    PROVE  /\ <<a>> # << >> /\ Head(<<a>>) = a /\ Tail(<<a>>) = << >>
           /\ <<a, b>> # << >> /\ Head(<<a, b>>) = a /\ Tail(<<a, b>>) = <<b>>
           /\ <<a, b, c>> # << >> /\ Head(<<a, b, c>>) = a /\ Tail(<<a, b, c>>) = <<b, c>>
  OBVIOUS

-----------------------------------------------------------------------------
(* A worker and its session *)

LEMMA SaidAppends ==
    /\ Append(<< >>, "ERROR") = Behind!Error
    /\ Append(<< >>, "RESULT") = <<"RESULT">>
    /\ Append(<<"RESULT">>, "FRAME") = <<"RESULT", "FRAME">>
    /\ Append(<<"RESULT", "FRAME">>, "DONE") = Behind!Whole
    /\ Behind!Error # << >> /\ Behind!Whole # << >> /\ Behind!Error # Behind!Whole
    /\ <<"RESULT">> \notin {<< >>, Behind!Error, <<"RESULT", "FRAME">>, Behind!Whole}
    /\ <<"RESULT", "FRAME">> \notin {<< >>, Behind!Error, <<"RESULT">>, Behind!Whole}
  BY ShortAppends DEF Behind!Error, Behind!Whole

(* open, up to the process *)
LEMMA WorkerOpensKeeps ==
    ASSUME Behind!IInv,
           Behind!Open \/ Behind!Adopt \/ Behind!AdoptFails \/ Behind!MakeSockets
           \/ Behind!CloseChildSock
    PROVE  Behind!IInv'
<1> USE DEF Behind!IInv, Behind!handleVars, Behind!callVars, Behind!wireVars, Behind!Alive,
    Behind!Msg, Behind!Clean, Behind!ParentUnchanged, Behind!Place, Behind!Error, Behind!Whole,
    Behind!Answers, Behind!Answer, Behind!Asking, Behind!Offering, Behind!Quiet,
    Behind!NothingYet, Behind!Fd
<1>1. Behind!Types'
  BY DEF Behind!Open, Behind!Adopt, Behind!AdoptFails, Behind!MakeSockets,
     Behind!CloseChildSock, Behind!Types
<1>2. Behind!StatesAgree'
  <2>1. CASE Behind!Open
    BY <2>1 DEF Behind!Open, Behind!StatesAgree
  <2>2. CASE Behind!Adopt
    BY <2>2 DEF Behind!Adopt, Behind!StatesAgree
  <2>3. CASE Behind!AdoptFails
    BY <2>3 DEF Behind!AdoptFails, Behind!StatesAgree
  <2>4. CASE Behind!MakeSockets
    BY <2>4 DEF Behind!MakeSockets, Behind!StatesAgree
  <2>5. CASE Behind!CloseChildSock
    BY <2>5 DEF Behind!CloseChildSock, Behind!StatesAgree
  <2> QED
    BY <2>1, <2>2, <2>3, <2>4, <2>5
<1>3. Behind!SaidSoFar'
  BY DEF Behind!Open, Behind!Adopt, Behind!AdoptFails, Behind!MakeSockets,
     Behind!CloseChildSock, Behind!Types, Behind!SaidSoFar
<1>4. Behind!Opening'
  BY DEF Behind!Open, Behind!Adopt, Behind!AdoptFails, Behind!MakeSockets,
     Behind!CloseChildSock, Behind!Types, Behind!StatesAgree, Behind!SaidSoFar, Behind!Opening
<1>5. Behind!Serving'
  BY DEF Behind!Open, Behind!Adopt, Behind!AdoptFails, Behind!MakeSockets,
     Behind!CloseChildSock, Behind!Types, Behind!StatesAgree, Behind!SaidSoFar, Behind!Opening,
     Behind!Serving
<1>6. Behind!Cleaned'
  BY DEF Behind!Open, Behind!Adopt, Behind!AdoptFails, Behind!MakeSockets,
     Behind!CloseChildSock, Behind!Types, Behind!StatesAgree, Behind!Opening, Behind!Cleaned
<1>7. Behind!ReleasedIsGone'
  BY DEF Behind!Open, Behind!Adopt, Behind!AdoptFails, Behind!MakeSockets,
     Behind!CloseChildSock, Behind!Types, Behind!StatesAgree, Behind!Cleaned,
     Behind!ReleasedIsGone
<1> QED
  BY <1>1, <1>2, <1>3, <1>4, <1>5, <1>6, <1>7

LEMMA WorkerSpawnsKeeps ==
    ASSUME Behind!IInv,
           Behind!Spawn \/ Behind!SpawnRaises \/ Behind!SendInit
    PROVE  Behind!IInv'
<1> USE DEF Behind!IInv, Behind!handleVars, Behind!callVars, Behind!wireVars, Behind!Alive,
    Behind!Msg, Behind!Clean, Behind!ParentUnchanged, Behind!Place, Behind!Error, Behind!Whole,
    Behind!Answers, Behind!Answer, Behind!Asking, Behind!Offering, Behind!Quiet,
    Behind!NothingYet, Behind!Fd
<1>1. Behind!Types'
  <2>1. CASE Behind!Spawn
    BY <2>1 DEF Behind!Spawn, Behind!Types
  <2>2. CASE Behind!SpawnRaises
    BY <2>2 DEF Behind!SpawnRaises, Behind!Types
  <2>3. CASE Behind!SendInit
    BY <2>3 DEF Behind!SendInit, Behind!Types
  <2> QED
    BY <2>1, <2>2, <2>3
<1>2. Behind!StatesAgree'
  BY DEF Behind!Spawn, Behind!SpawnRaises, Behind!SendInit, Behind!StatesAgree
<1>3. Behind!SaidSoFar'
  <2>1. CASE Behind!SendInit
    BY <2>1 DEF Behind!SendInit, Behind!Types, Behind!SaidSoFar
  <2>2. CASE Behind!Spawn \/ Behind!SpawnRaises
    <3>1. child.at = "start" /\ child.said = << >>
      BY <2>2 DEF Behind!Spawn, Behind!SpawnRaises, Behind!Opening, Behind!SaidSoFar
    <3>2. child'.at = "start" /\ child'.said = << >>
      BY <2>2, <3>1 DEF Behind!Spawn, Behind!SpawnRaises, Behind!Types
    <3> QED
      BY <3>2 DEF Behind!SaidSoFar
  <2> QED
    BY <2>1, <2>2
<1>4. Behind!Opening'
  BY DEF Behind!Spawn, Behind!SpawnRaises, Behind!SendInit, Behind!Types, Behind!StatesAgree,
     Behind!SaidSoFar, Behind!Opening
<1>5. Behind!Serving'
  BY DEF Behind!Spawn, Behind!SpawnRaises, Behind!SendInit, Behind!Types, Behind!StatesAgree,
     Behind!SaidSoFar, Behind!Opening, Behind!Serving
<1>6. Behind!Cleaned'
  BY DEF Behind!Spawn, Behind!SpawnRaises, Behind!SendInit, Behind!Types, Behind!StatesAgree,
     Behind!Opening, Behind!Cleaned
<1>7. Behind!ReleasedIsGone'
  BY DEF Behind!Spawn, Behind!SpawnRaises, Behind!SendInit, Behind!Types, Behind!StatesAgree,
     Behind!Cleaned, Behind!ReleasedIsGone
<1> QED
  BY <1>1, <1>2, <1>3, <1>4, <1>5, <1>6, <1>7

(* What says nothing to the child *)
LEMMA WorkerAsksKeeps ==
    ASSUME Behind!IInv,
           Behind!Query \/ Behind!SendResultTo \/ Behind!Deliver \/ Behind!CloseOutput
           \/ Behind!RequestStop
    PROVE  Behind!IInv'
<1> USE DEF Behind!IInv, Behind!handleVars, Behind!callVars, Behind!wireVars, Behind!Alive,
    Behind!Msg, Behind!Clean, Behind!ParentUnchanged, Behind!Place, Behind!Error, Behind!Whole,
    Behind!Answers, Behind!Answer, Behind!Asking, Behind!Offering, Behind!Quiet,
    Behind!NothingYet
<1>1. Behind!Types'
  BY DEF Behind!Query, Behind!SendResultTo, Behind!Deliver, Behind!CloseOutput,
     Behind!RequestStop, Behind!Types
<1>2. Behind!StatesAgree'
  BY DEF Behind!Query, Behind!SendResultTo, Behind!Deliver, Behind!CloseOutput,
     Behind!RequestStop, Behind!StatesAgree
<1>3. Behind!SaidSoFar'
  BY DEF Behind!Query, Behind!SendResultTo, Behind!Deliver, Behind!CloseOutput,
     Behind!RequestStop, Behind!Types, Behind!SaidSoFar
<1>4. Behind!Opening'
  BY DEF Behind!Query, Behind!SendResultTo, Behind!Deliver, Behind!CloseOutput,
     Behind!RequestStop, Behind!Types, Behind!StatesAgree, Behind!SaidSoFar, Behind!Opening
<1>5. Behind!Serving'
  BY DEF Behind!Query, Behind!SendResultTo, Behind!Deliver, Behind!CloseOutput,
     Behind!RequestStop, Behind!Types, Behind!StatesAgree, Behind!SaidSoFar, Behind!Opening,
     Behind!Serving
<1>6. Behind!Cleaned'
  BY DEF Behind!Query, Behind!SendResultTo, Behind!Deliver, Behind!CloseOutput,
     Behind!RequestStop, Behind!Types, Behind!StatesAgree, Behind!Opening, Behind!Cleaned
<1>7. Behind!ReleasedIsGone'
  BY DEF Behind!Query, Behind!SendResultTo, Behind!Deliver, Behind!CloseOutput,
     Behind!RequestStop, Behind!Types, Behind!StatesAgree, Behind!Cleaned, Behind!ReleasedIsGone
<1> QED
  BY <1>1, <1>2, <1>3, <1>4, <1>5, <1>6, <1>7

(* _cleanup *)
LEMMA WorkerCleansKeeps ==
    ASSUME Behind!IInv,
           Behind!Close \/ Behind!BeginCleanup \/ Behind!CleanOutput
    PROVE  Behind!IInv'
<1> USE DEF Behind!IInv, Behind!handleVars, Behind!callVars, Behind!wireVars, Behind!Alive,
    Behind!Msg, Behind!Clean, Behind!ParentUnchanged, Behind!Place, Behind!Error, Behind!Whole,
    Behind!Answers, Behind!Answer, Behind!Asking, Behind!Offering, Behind!Quiet,
    Behind!NothingYet
<1>1. Behind!Types'
  BY DEF Behind!Close, Behind!BeginCleanup, Behind!CleanOutput, Behind!Types
<1>2. Behind!StatesAgree'
  <2>1. CASE Behind!Close
    BY <2>1 DEF Behind!Close, Behind!StatesAgree
  <2>2. CASE Behind!BeginCleanup
    BY <2>2 DEF Behind!BeginCleanup, Behind!StatesAgree
  <2>3. CASE Behind!CleanOutput
    BY <2>3 DEF Behind!CleanOutput, Behind!StatesAgree
  <2> QED
    BY <2>1, <2>2, <2>3
<1>3. Behind!SaidSoFar'
  BY DEF Behind!Close, Behind!BeginCleanup, Behind!CleanOutput, Behind!Types, Behind!SaidSoFar
<1>4. Behind!Opening'
  BY DEF Behind!Close, Behind!BeginCleanup, Behind!CleanOutput, Behind!Types,
     Behind!StatesAgree, Behind!SaidSoFar, Behind!Opening
<1>5. Behind!Serving'
  BY DEF Behind!Close, Behind!BeginCleanup, Behind!CleanOutput, Behind!Types,
     Behind!StatesAgree, Behind!SaidSoFar, Behind!Opening, Behind!Serving
<1>6. Behind!Cleaned'
  BY DEF Behind!Close, Behind!BeginCleanup, Behind!CleanOutput, Behind!Types,
     Behind!StatesAgree, Behind!Opening, Behind!Cleaned
<1>7. Behind!ReleasedIsGone'
  BY DEF Behind!Close, Behind!BeginCleanup, Behind!CleanOutput, Behind!Types,
     Behind!StatesAgree, Behind!Cleaned, Behind!ReleasedIsGone
<1> QED
  BY <1>1, <1>2, <1>3, <1>4, <1>5, <1>6, <1>7

LEMMA WorkerReapsKeeps ==
    ASSUME Behind!IInv,
           Behind!Kill \/ Behind!Reaped \/ Behind!NotReaped
    PROVE  Behind!IInv'
<1> USE DEF Behind!IInv, Behind!handleVars, Behind!callVars, Behind!wireVars, Behind!Alive,
    Behind!Msg, Behind!Clean, Behind!ParentUnchanged, Behind!Place, Behind!Error, Behind!Whole,
    Behind!Answers, Behind!Answer, Behind!Asking, Behind!Offering, Behind!Quiet,
    Behind!NothingYet
<1>1. Behind!Types'
  BY DEF Behind!Kill, Behind!Reaped, Behind!NotReaped, Behind!Types
<1>2. Behind!StatesAgree'
  BY DEF Behind!Kill, Behind!Reaped, Behind!NotReaped, Behind!StatesAgree
<1>3. Behind!SaidSoFar'
  BY DEF Behind!Kill, Behind!Reaped, Behind!NotReaped, Behind!Types, Behind!SaidSoFar
<1>4. Behind!Opening'
  BY DEF Behind!Kill, Behind!Reaped, Behind!NotReaped, Behind!Types, Behind!StatesAgree,
     Behind!SaidSoFar, Behind!Opening
<1>5. Behind!Serving'
  BY DEF Behind!Kill, Behind!Reaped, Behind!NotReaped, Behind!Types, Behind!StatesAgree,
     Behind!SaidSoFar, Behind!Opening, Behind!Serving
<1>6. Behind!Cleaned'
  BY DEF Behind!Kill, Behind!Reaped, Behind!NotReaped, Behind!Types, Behind!StatesAgree,
     Behind!Opening, Behind!Cleaned
<1>7. Behind!ReleasedIsGone'
  BY DEF Behind!Kill, Behind!Reaped, Behind!NotReaped, Behind!Types, Behind!StatesAgree,
     Behind!Cleaned, Behind!ReleasedIsGone
<1> QED
  BY <1>1, <1>2, <1>3, <1>4, <1>5, <1>6, <1>7

LEMMA WorkerClosesFdsKeeps ==
    ASSUME Behind!IInv,
           Behind!CloseFds
    PROVE  Behind!IInv'
<1> USE DEF Behind!IInv, Behind!handleVars, Behind!callVars, Behind!wireVars, Behind!Alive,
    Behind!Msg, Behind!Clean, Behind!ParentUnchanged, Behind!Place, Behind!Error, Behind!Whole,
    Behind!Answers, Behind!Answer, Behind!Asking, Behind!Offering, Behind!Quiet,
    Behind!NothingYet, Behind!Fd, Behind!Closing
<1>1. Behind!Types'
  BY DEF Behind!CloseFds, Behind!Types
<1>2. Behind!StatesAgree'
  BY DEF Behind!CloseFds, Behind!StatesAgree
<1>3. Behind!SaidSoFar'
  BY DEF Behind!CloseFds, Behind!Types, Behind!SaidSoFar
<1>4. Behind!Opening'
  BY DEF Behind!CloseFds, Behind!Types, Behind!StatesAgree, Behind!SaidSoFar, Behind!Opening
<1>5. Behind!Serving'
  BY DEF Behind!CloseFds, Behind!Types, Behind!StatesAgree, Behind!SaidSoFar, Behind!Opening,
     Behind!Serving
<1>6. Behind!Cleaned'
  BY DEF Behind!CloseFds, Behind!Types, Behind!StatesAgree, Behind!Opening, Behind!Cleaned
<1>7. Behind!ReleasedIsGone'
  BY DEF Behind!CloseFds, Behind!Types, Behind!StatesAgree, Behind!Cleaned,
     Behind!ReleasedIsGone
<1> QED
  BY <1>1, <1>2, <1>3, <1>4, <1>5, <1>6, <1>7

LEMMA WorkerReleasesKeeps ==
    ASSUME Behind!IInv,
           Behind!Release \/ Behind!ReleaseFails
    PROVE  Behind!IInv'
<1> USE DEF Behind!IInv, Behind!handleVars, Behind!callVars, Behind!wireVars, Behind!Alive,
    Behind!Msg, Behind!Clean, Behind!ParentUnchanged, Behind!Place, Behind!Error, Behind!Whole,
    Behind!Answers, Behind!Answer, Behind!Asking, Behind!Offering, Behind!Quiet,
    Behind!NothingYet, Behind!Confirmed
<1>1. Behind!Types'
  BY DEF Behind!Release, Behind!ReleaseFails, Behind!Types
<1>2. Behind!StatesAgree'
  BY DEF Behind!Release, Behind!ReleaseFails, Behind!StatesAgree
<1>3. Behind!SaidSoFar'
  BY DEF Behind!Release, Behind!ReleaseFails, Behind!Types, Behind!SaidSoFar
<1>4. Behind!Opening'
  BY DEF Behind!Release, Behind!ReleaseFails, Behind!Types, Behind!StatesAgree,
     Behind!SaidSoFar, Behind!Opening
<1>5. Behind!Serving'
  BY DEF Behind!Release, Behind!ReleaseFails, Behind!Types, Behind!StatesAgree,
     Behind!SaidSoFar, Behind!Opening, Behind!Serving
<1>6. Behind!Cleaned'
  BY DEF Behind!Release, Behind!ReleaseFails, Behind!Types, Behind!StatesAgree, Behind!Opening,
     Behind!Cleaned
<1>7. Behind!ReleasedIsGone'
  BY DEF Behind!Release, Behind!ReleaseFails, Behind!Types, Behind!StatesAgree, Behind!Cleaned,
     Behind!ReleasedIsGone
<1> QED
  BY <1>1, <1>2, <1>3, <1>4, <1>5, <1>6, <1>7

LEMMA WorkerFailsKeeps ==
    ASSUME Behind!IInv,
           Behind!CallFails
    PROVE  Behind!IInv'
<1> USE DEF Behind!IInv, Behind!handleVars, Behind!callVars, Behind!wireVars, Behind!Alive,
    Behind!Msg, Behind!Clean, Behind!ParentUnchanged, Behind!Place, Behind!Error, Behind!Whole,
    Behind!Answers, Behind!Answer, Behind!Asking, Behind!Offering, Behind!Quiet,
    Behind!NothingYet, Behind!Waiting
<1>1. Behind!Types'
  <2>1. uncertain' \in BOOLEAN
    BY DEF Behind!CallFails, Behind!Types
  <2>2. UNCHANGED <<terminated, job, fds, child>>
    BY DEF Behind!CallFails
  <2> QED
    BY <2>1, <2>2 DEF Behind!Types
<1>2. Behind!StatesAgree'
  BY DEF Behind!CallFails, Behind!StatesAgree
<1>3. Behind!SaidSoFar'
  BY DEF Behind!CallFails, Behind!Types, Behind!SaidSoFar
<1>4. Behind!Opening'
  BY DEF Behind!CallFails, Behind!Types, Behind!StatesAgree, Behind!SaidSoFar, Behind!Opening
<1>5. Behind!Serving'
  BY DEF Behind!CallFails, Behind!Types, Behind!StatesAgree, Behind!SaidSoFar, Behind!Opening,
     Behind!Serving
<1>6. Behind!Cleaned'
  BY DEF Behind!CallFails, Behind!Types, Behind!StatesAgree, Behind!Opening, Behind!Cleaned
<1>7. Behind!ReleasedIsGone'
  BY DEF Behind!CallFails, Behind!Types, Behind!StatesAgree, Behind!Cleaned,
     Behind!ReleasedIsGone
<1> QED
  BY <1>1, <1>2, <1>3, <1>4, <1>5, <1>6, <1>7

(* The parent's messages *)
LEMMA WorkerReadsGuard ==
    ASSUME Behind!IInv, Behind!ReadGuard
    PROVE  Behind!Opening'
<1>1. /\ pc = "guard" /\ pc' = "init" /\ toParent # << >> /\ toParent' = Tail(toParent)
      /\ UNCHANGED <<workerState, job, child, pipe, toChild>>
  BY DEF Behind!ReadGuard, Behind!Receives, Behind!callVars
<1>2. child.at = "init" /\ toParent' = << >>
  BY <1>1, ShortSequences DEF Behind!IInv, Behind!Opening
<1> QED
  BY <1>1, <1>2 DEF Behind!IInv, Behind!Opening, Behind!StatesAgree, Behind!NothingYet

LEMMA WorkerSendsQuery ==
    ASSUME Behind!IInv, Behind!SendQuery
    PROVE  Behind!Serving'
<1>1. /\ pc = "ask" /\ pc' = "reply" /\ toChild' = Append(toChild, Behind!Msg("QUERY", job, FALSE))
      /\ UNCHANGED <<workerState, job, child, pipe, toParent>>
  BY DEF Behind!SendQuery, Behind!callVars
<1>2. toChild' = <<Behind!Msg("QUERY", job, FALSE)>>
  BY <1>1, ShortAppends DEF Behind!IInv, Behind!Serving
<1> QED
  BY <1>1, <1>2 DEF Behind!IInv, Behind!Serving, Behind!StatesAgree, Behind!Asking,
     Behind!Offering

LEMMA WorkerReadsError ==
    ASSUME Behind!IInv, Behind!ReadError
    PROVE  Behind!Serving'
<1>1. /\ pc = "reply" /\ toParent # << >> /\ Head(toParent).kind = "ERROR" /\ toParent' = Tail(toParent)
      /\ (pc' = "idle" /\ Head(toParent).continue) \/ pc' = "cleanup"
      /\ UNCHANGED <<workerState, job, child, toChild>>
  BY DEF Behind!ReadError, Behind!Receives, Behind!Clean
<1>2. toChild = << >> /\ child.previous = job /\ toParent = Behind!Answer(job, child.at # "error")
  BY <1>1 DEF Behind!IInv, Behind!Serving
<1>3. child.said = Behind!Error /\ toParent = <<Behind!Msg("ERROR", job, child.at # "error")>>
  BY <1>1, <1>2, ShortSequences DEF Behind!IInv, Behind!Types, Behind!Answers, Behind!Answer,
     Behind!Msg
<1>4. toParent' = << >> /\ (Head(toParent).continue <=> child.at # "error")
  <2>1. Head(toParent) = Behind!Msg("ERROR", job, child.at # "error") /\ toParent' = << >>
    BY <1>1, <1>3, ShortSequences
  <2>2. Head(toParent).continue = (child.at # "error")
    BY <2>1 DEF Behind!Msg
  <2> QED
    BY <2>1, <2>2
<1>5. child.at \in {"error", "after", "wait"}
  BY <1>3, SaidAppends DEF Behind!IInv, Behind!Types, Behind!Place, Behind!SaidSoFar
<1> QED
  BY <1>1, <1>2, <1>4, <1>5 DEF Behind!IInv, Behind!Serving, Behind!StatesAgree, Behind!Asking,
     Behind!Offering, Behind!Quiet

LEMMA WorkerReadsResult ==
    ASSUME Behind!IInv, Behind!ReadResult
    PROVE  Behind!Serving'
<1>1. /\ pc = "reply" /\ toParent # << >> /\ Head(toParent).kind = "RESULT" /\ toParent' = Tail(toParent)
      /\ pc' = "frame"
      /\ UNCHANGED <<workerState, job, child, toChild>>
  BY DEF Behind!ReadResult, Behind!Receives
<1>2. toChild = << >> /\ child.previous = job /\ toParent = Behind!Answer(job, child.at # "error")
  BY <1>1 DEF Behind!IInv, Behind!Serving
<1>3. child.said \in {<<"RESULT">>, <<"RESULT", "FRAME">>, Behind!Whole}
  BY <1>1, <1>2, ShortSequences DEF Behind!IInv, Behind!Types, Behind!Answers, Behind!Answer,
     Behind!Msg
<1>4. CASE child.said = <<"RESULT">>
  <2>1. child.at = "frame"
    BY <1>4, SaidAppends DEF Behind!IInv, Behind!Types, Behind!Place, Behind!SaidSoFar,
       Behind!Alive
  <2>2. toParent' = << >>
    BY <1>1, <1>2, <1>4, SaidAppends, ShortSequences DEF Behind!Answer
  <2> QED
    BY <1>1, <1>2, <2>1, <2>2 DEF Behind!IInv, Behind!Serving, Behind!StatesAgree,
       Behind!Asking, Behind!Offering
<1>5. CASE child.said = <<"RESULT", "FRAME">>
  <2>1. child.at = "done"
    BY <1>5, SaidAppends DEF Behind!IInv, Behind!Types, Behind!Place, Behind!SaidSoFar,
       Behind!Alive
  <2>a. toParent = <<Behind!Msg("RESULT", 0, FALSE), Behind!Msg("FRAME", job, FALSE)>>
    BY <1>2, <1>5, SaidAppends DEF Behind!Answer
  <2>2. toParent' = <<Behind!Msg("FRAME", job, FALSE)>>
    BY <1>1, <2>a, ShortSequences
  <2> QED
    BY <1>1, <1>2, <2>1, <2>2 DEF Behind!IInv, Behind!Serving, Behind!StatesAgree,
       Behind!Asking, Behind!Offering
<1>6. CASE child.said = Behind!Whole
  <2>1. child.at \in {"after", "wait"}
    BY <1>6, SaidAppends DEF Behind!IInv, Behind!Types, Behind!Place, Behind!SaidSoFar,
       Behind!Alive
  <2>a. toParent = <<Behind!Msg("RESULT", 0, FALSE), Behind!Msg("FRAME", job, FALSE), Behind!Msg("DONE", job, FALSE)>>
    BY <1>2, <1>6, SaidAppends DEF Behind!Answer
  <2>2. toParent' = <<Behind!Msg("FRAME", job, FALSE), Behind!Msg("DONE", job, FALSE)>>
    <3> DEFINE r == Behind!Msg("RESULT", 0, FALSE)
               f == Behind!Msg("FRAME", job, FALSE)
               g == Behind!Msg("DONE", job, FALSE)
    <3> HIDE DEF r, f, g
    <3>1. Tail(<<r, f, g>>) = <<f, g>>
      BY ShortSequences
    <3> QED
      BY <1>1, <2>a, <3>1 DEF r, f, g
  <2> QED
    BY <1>1, <1>2, <1>6, <2>1, <2>2 DEF Behind!IInv, Behind!Serving, Behind!StatesAgree,
       Behind!Asking, Behind!Offering
<1> QED
  BY <1>3, <1>4, <1>5, <1>6

LEMMA WorkerReadsFrame ==
    ASSUME Behind!IInv, Behind!ReadFrame \/ Behind!ReadDone
    PROVE  Behind!Serving'
<1>1. CASE Behind!ReadFrame
  <2>1. /\ pc = "frame" /\ toParent # << >> /\ toParent' = Tail(toParent) /\ pc' = "done"
        /\ UNCHANGED <<workerState, job, child, toChild>>
    BY <1>1 DEF Behind!ReadFrame, Behind!Receives
  <2>2. \/ child.at = "done" /\ toParent' = << >>
        \/ child.at \in {"after", "wait"} /\ child.said = Behind!Whole /\ toParent' = <<Behind!Msg("DONE", job, FALSE)>>
    <3>1. \/ toParent = << >>
          \/ child.at = "done" /\ toParent = <<Behind!Msg("FRAME", job, FALSE)>>
          \/ /\ child.at \in {"after", "wait"} /\ child.said = Behind!Whole
             /\ toParent = <<Behind!Msg("FRAME", job, FALSE), Behind!Msg("DONE", job, FALSE)>>
      BY <2>1 DEF Behind!IInv, Behind!Serving
    <3> DEFINE f == Behind!Msg("FRAME", job, FALSE)
               g == Behind!Msg("DONE", job, FALSE)
    <3> HIDE DEF f, g
    <3>2. Tail(<<f>>) = << >> /\ Tail(<<f, g>>) = <<g>>
      BY ShortSequences
    <3> QED
      BY <2>1, <3>1, <3>2 DEF f, g
  <2> QED
    BY <2>1, <2>2 DEF Behind!IInv, Behind!Serving, Behind!StatesAgree, Behind!Asking,
       Behind!Offering
<1>2. CASE Behind!ReadDone
  <2>1. /\ pc = "done" /\ toParent # << >> /\ toParent' = Tail(toParent) /\ pc' = "idle" /\ workerState' = "RESULT"
        /\ UNCHANGED <<job, child, toChild>>
    BY <1>2 DEF Behind!ReadDone, Behind!Receives, Behind!callVars
  <2>2. child.at \in {"after", "wait"} /\ child.said = Behind!Whole /\ toParent' = << >>
    BY <2>1, ShortSequences DEF Behind!IInv, Behind!Serving
  <2> QED
    BY <2>1, <2>2 DEF Behind!IInv, Behind!Serving, Behind!StatesAgree, Behind!Quiet
<1> QED
  BY <1>1, <1>2

LEMMA WorkerExchangesKeeps ==
    ASSUME Behind!IInv,
           Behind!ReadGuard \/ Behind!ReadOpened \/ Behind!SendQuery \/ Behind!ReadError
           \/ Behind!ReadResult \/ Behind!ReadFrame \/ Behind!ReadDone
    PROVE  Behind!IInv'
<1> USE DEF Behind!IInv, Behind!handleVars, Behind!callVars, Behind!wireVars, Behind!Alive,
    Behind!Msg, Behind!Clean, Behind!ParentUnchanged, Behind!Place, Behind!Error, Behind!Whole,
    Behind!Answers, Behind!Answer, Behind!Asking, Behind!Offering, Behind!Quiet,
    Behind!NothingYet, Behind!Receives
<1>1. Behind!Types'
  <2>1. CASE Behind!ReadGuard
    BY <2>1 DEF Behind!ReadGuard, Behind!Types
  <2>2. CASE Behind!ReadOpened
    BY <2>2 DEF Behind!ReadOpened, Behind!Types
  <2>3. CASE Behind!SendQuery
    BY <2>3 DEF Behind!SendQuery, Behind!Types
  <2>4. CASE Behind!ReadError
    BY <2>4 DEF Behind!ReadError, Behind!Types
  <2>5. CASE Behind!ReadResult
    BY <2>5 DEF Behind!ReadResult, Behind!Types
  <2>6. CASE Behind!ReadFrame
    BY <2>6 DEF Behind!ReadFrame, Behind!Types
  <2>7. CASE Behind!ReadDone
    BY <2>7 DEF Behind!ReadDone, Behind!Types
  <2> QED
    BY <2>1, <2>2, <2>3, <2>4, <2>5, <2>6, <2>7
<1>2. Behind!StatesAgree'
  <2>1. CASE Behind!ReadGuard
    BY <2>1 DEF Behind!ReadGuard, Behind!StatesAgree
  <2>2. CASE Behind!ReadOpened
    BY <2>2 DEF Behind!ReadOpened, Behind!StatesAgree
  <2>3. CASE Behind!SendQuery
    BY <2>3 DEF Behind!SendQuery, Behind!StatesAgree
  <2>4. CASE Behind!ReadError
    BY <2>4 DEF Behind!ReadError, Behind!StatesAgree
  <2>5. CASE Behind!ReadResult
    BY <2>5 DEF Behind!ReadResult, Behind!StatesAgree
  <2>6. CASE Behind!ReadFrame
    BY <2>6 DEF Behind!ReadFrame, Behind!StatesAgree
  <2>7. CASE Behind!ReadDone
    BY <2>7 DEF Behind!ReadDone, Behind!StatesAgree
  <2> QED
    BY <2>1, <2>2, <2>3, <2>4, <2>5, <2>6, <2>7
<1>3. Behind!SaidSoFar'
  <2>1. CASE Behind!ReadGuard
    BY <2>1 DEF Behind!ReadGuard, Behind!Types, Behind!SaidSoFar
  <2>2. CASE Behind!ReadOpened
    BY <2>2 DEF Behind!ReadOpened, Behind!Types, Behind!SaidSoFar
  <2>3. CASE Behind!SendQuery
    BY <2>3 DEF Behind!SendQuery, Behind!Types, Behind!SaidSoFar
  <2>4. CASE Behind!ReadError
    BY <2>4 DEF Behind!ReadError, Behind!Types, Behind!SaidSoFar
  <2>5. CASE Behind!ReadResult
    BY <2>5 DEF Behind!ReadResult, Behind!Types, Behind!SaidSoFar
  <2>6. CASE Behind!ReadFrame
    BY <2>6 DEF Behind!ReadFrame, Behind!Types, Behind!SaidSoFar
  <2>7. CASE Behind!ReadDone
    BY <2>7 DEF Behind!ReadDone, Behind!Types, Behind!SaidSoFar
  <2> QED
    BY <2>1, <2>2, <2>3, <2>4, <2>5, <2>6, <2>7
<1>4. Behind!Opening'
  <2>1. CASE Behind!ReadGuard
    BY <2>1, WorkerReadsGuard
  <2>2. CASE Behind!ReadOpened
    BY <2>2 DEF Behind!ReadOpened, Behind!Types, Behind!StatesAgree, Behind!SaidSoFar,
       Behind!Opening
  <2>3. CASE Behind!SendQuery
    BY <2>3 DEF Behind!SendQuery, Behind!Types, Behind!StatesAgree, Behind!SaidSoFar,
       Behind!Opening
  <2>4. CASE Behind!ReadError
    BY <2>4 DEF Behind!ReadError, Behind!Types, Behind!StatesAgree, Behind!SaidSoFar,
       Behind!Opening
  <2>5. CASE Behind!ReadResult
    BY <2>5 DEF Behind!ReadResult, Behind!Types, Behind!StatesAgree, Behind!SaidSoFar,
       Behind!Opening
  <2>6. CASE Behind!ReadFrame
    BY <2>6 DEF Behind!ReadFrame, Behind!Types, Behind!StatesAgree, Behind!SaidSoFar,
       Behind!Opening
  <2>7. CASE Behind!ReadDone
    BY <2>7 DEF Behind!ReadDone, Behind!Types, Behind!StatesAgree, Behind!SaidSoFar,
       Behind!Opening
  <2> QED
    BY <2>1, <2>2, <2>3, <2>4, <2>5, <2>6, <2>7
<1>5. Behind!Serving'
  <2>1. CASE Behind!ReadGuard
    BY <2>1 DEF Behind!ReadGuard, Behind!Types, Behind!StatesAgree, Behind!SaidSoFar,
       Behind!Opening, Behind!Serving
  <2>2. CASE Behind!ReadOpened
    BY <2>2, ShortSequences DEF Behind!ReadOpened, Behind!Types, Behind!StatesAgree,
       Behind!SaidSoFar, Behind!Opening, Behind!Serving
  <2>3. CASE Behind!SendQuery
    BY <2>3, WorkerSendsQuery
  <2>4. CASE Behind!ReadError
    BY <2>4, WorkerReadsError
  <2>5. CASE Behind!ReadResult
    BY <2>5, WorkerReadsResult
  <2>6. CASE Behind!ReadFrame
    BY <2>6, WorkerReadsFrame
  <2>7. CASE Behind!ReadDone
    BY <2>7, WorkerReadsFrame
  <2> QED
    BY <2>1, <2>2, <2>3, <2>4, <2>5, <2>6, <2>7
<1>6. Behind!Cleaned'
  BY DEF Behind!ReadGuard, Behind!ReadOpened, Behind!SendQuery, Behind!ReadError,
     Behind!ReadResult, Behind!ReadFrame, Behind!ReadDone, Behind!Types, Behind!StatesAgree,
     Behind!Opening, Behind!Cleaned
<1>7. Behind!ReleasedIsGone'
  BY DEF Behind!ReadGuard, Behind!ReadOpened, Behind!SendQuery, Behind!ReadError,
     Behind!ReadResult, Behind!ReadFrame, Behind!ReadDone, Behind!Types, Behind!StatesAgree,
     Behind!Cleaned, Behind!ReleasedIsGone
<1> QED
  BY <1>1, <1>2, <1>3, <1>4, <1>5, <1>6, <1>7

(* The child *)
LEMMA WorkerChildStartsKeeps ==
    ASSUME Behind!IInv,
           Behind!ChildGuards \/ Behind!ChildReadsInit
    PROVE  Behind!IInv'
<1> USE DEF Behind!IInv, Behind!handleVars, Behind!callVars, Behind!wireVars, Behind!Alive,
    Behind!Msg, Behind!Clean, Behind!ParentUnchanged, Behind!Place, Behind!Error, Behind!Whole,
    Behind!Answers, Behind!Answer, Behind!Asking, Behind!Offering, Behind!Quiet,
    Behind!NothingYet, Behind!Moves
<1>1. Behind!Types'
  BY DEF Behind!ChildGuards, Behind!ChildReadsInit, Behind!Types
<1>2. Behind!StatesAgree'
  BY DEF Behind!ChildGuards, Behind!ChildReadsInit, Behind!StatesAgree
<1>3. Behind!SaidSoFar'
  BY DEF Behind!ChildGuards, Behind!ChildReadsInit, Behind!Types, Behind!SaidSoFar
<1>4. Behind!Opening'
  <2>1. CASE Behind!ChildGuards
    BY <2>1 DEF Behind!ChildGuards, Behind!Types, Behind!StatesAgree, Behind!SaidSoFar,
       Behind!Opening
  <2>2. CASE Behind!ChildReadsInit
    BY <2>2 DEF Behind!ChildReadsInit, Behind!Types, Behind!StatesAgree, Behind!SaidSoFar,
       Behind!Opening
  <2> QED
    BY <2>1, <2>2
<1>5. Behind!Serving'
  BY DEF Behind!ChildGuards, Behind!ChildReadsInit, Behind!Types, Behind!StatesAgree,
     Behind!SaidSoFar, Behind!Opening, Behind!Serving
<1>6. Behind!Cleaned'
  BY DEF Behind!ChildGuards, Behind!ChildReadsInit, Behind!Types, Behind!StatesAgree,
     Behind!Opening, Behind!Cleaned
<1>7. Behind!ReleasedIsGone'
  BY DEF Behind!ChildGuards, Behind!ChildReadsInit, Behind!Types, Behind!StatesAgree,
     Behind!Cleaned, Behind!ReleasedIsGone
<1> QED
  BY <1>1, <1>2, <1>3, <1>4, <1>5, <1>6, <1>7

LEMMA WorkerHearsOpening ==
    ASSUME Behind!IInv, Behind!ChildHello \/ Behind!ChildOpened \/ Behind!ChildNotOpened
    PROVE  Behind!Opening'
<1>1. CASE Behind!ChildHello
  <2>1. /\ child.at = "hello" /\ child' = [child EXCEPT !.at = "init"] /\ Behind!Alive
        /\ toParent' = Append(toParent, Behind!Msg("GUARD", 0, FALSE))
        /\ UNCHANGED <<workerState, pc, job, pipe, toChild>>
    BY <1>1 DEF Behind!ChildHello, Behind!ChildSends, Behind!Moves, Behind!ParentUnchanged,
       Behind!callVars
  <2>2. child'.at = "init" /\ child'.previous = child.previous /\ child'.said = child.said
    BY <2>1 DEF Behind!IInv, Behind!Types
  <2> QED
    BY <2>1, <2>2, ShortAppends DEF Behind!IInv, Behind!Opening, Behind!NothingYet, Behind!Alive
<1>2. CASE Behind!ChildOpened
  <2>1. /\ child.at = "connect" /\ child' = [child EXCEPT !.at = "wait"] /\ Behind!Alive
        /\ toParent' = Append(toParent, Behind!Msg("OPENED", 0, FALSE))
        /\ UNCHANGED <<workerState, pc, job, pipe, toChild>>
    BY <1>2 DEF Behind!ChildOpened, Behind!ChildSends, Behind!Moves, Behind!ParentUnchanged,
       Behind!callVars
  <2>2. child'.at = "wait" /\ child'.previous = child.previous /\ child'.said = child.said
    BY <2>1 DEF Behind!IInv, Behind!Types
  <2> QED
    BY <2>1, <2>2, ShortAppends DEF Behind!IInv, Behind!Opening, Behind!NothingYet, Behind!Alive
<1>3. CASE Behind!ChildNotOpened
  <2>1. /\ child.at = "connect" /\ child' = [child EXCEPT !.proc = "exited"] /\ Behind!Alive
        /\ toParent' = Append(toParent, Behind!Msg("ERROR", 0, FALSE))
        /\ UNCHANGED <<workerState, pc, job, pipe, toChild>>
    BY <1>3 DEF Behind!ChildNotOpened, Behind!ParentUnchanged, Behind!callVars
  <2>2. child'.at = "connect" /\ child'.proc = "exited" /\ child'.previous = child.previous /\ child'.said = child.said
    BY <2>1 DEF Behind!IInv, Behind!Types
  <2> QED
    BY <2>1, <2>2, ShortAppends DEF Behind!IInv, Behind!Opening, Behind!NothingYet, Behind!Alive
<1> QED
  BY <1>1, <1>2, <1>3

LEMMA WorkerChildOpensKeeps ==
    ASSUME Behind!IInv,
           Behind!ChildHello \/ Behind!ChildOpened \/ Behind!ChildNotOpened
    PROVE  Behind!IInv'
<1> USE DEF Behind!IInv, Behind!handleVars, Behind!callVars, Behind!wireVars, Behind!Alive,
    Behind!Msg, Behind!Clean, Behind!ParentUnchanged, Behind!Place, Behind!Error, Behind!Whole,
    Behind!Answers, Behind!Answer, Behind!Asking, Behind!Offering, Behind!Quiet,
    Behind!NothingYet, Behind!Moves, Behind!ChildSends, Behind!ParentGone
<1>1. Behind!Types'
  <2>1. CASE Behind!ChildHello
    BY <2>1 DEF Behind!ChildHello, Behind!Types
  <2>2. CASE Behind!ChildOpened
    BY <2>2 DEF Behind!ChildOpened, Behind!Types
  <2>3. CASE Behind!ChildNotOpened
    BY <2>3 DEF Behind!ChildNotOpened, Behind!Types
  <2> QED
    BY <2>1, <2>2, <2>3
<1>2. Behind!StatesAgree'
  BY DEF Behind!ChildHello, Behind!ChildOpened, Behind!ChildNotOpened, Behind!StatesAgree
<1>3. Behind!SaidSoFar'
  <2>1. CASE Behind!ChildHello
    BY <2>1 DEF Behind!ChildHello, Behind!Types, Behind!SaidSoFar
  <2>2. CASE Behind!ChildOpened
    BY <2>2 DEF Behind!ChildOpened, Behind!Types, Behind!SaidSoFar
  <2>3. CASE Behind!ChildNotOpened
    BY <2>3 DEF Behind!ChildNotOpened, Behind!Types, Behind!SaidSoFar
  <2> QED
    BY <2>1, <2>2, <2>3
<1>4. Behind!Opening'
  BY WorkerHearsOpening
<1>5. Behind!Serving'
  <2>1. CASE Behind!ChildHello
    BY <2>1 DEF Behind!ChildHello, Behind!Types, Behind!StatesAgree, Behind!SaidSoFar,
       Behind!Opening, Behind!Serving
  <2>2. CASE Behind!ChildOpened
    BY <2>2 DEF Behind!ChildOpened, Behind!Types, Behind!StatesAgree, Behind!SaidSoFar,
       Behind!Opening, Behind!Serving
  <2>3. CASE Behind!ChildNotOpened
    BY <2>3 DEF Behind!ChildNotOpened, Behind!Types, Behind!StatesAgree, Behind!SaidSoFar,
       Behind!Opening, Behind!Serving
  <2> QED
    BY <2>1, <2>2, <2>3
<1>6. Behind!Cleaned'
  <2>1. CASE Behind!ChildHello
    BY <2>1 DEF Behind!ChildHello, Behind!Types, Behind!StatesAgree, Behind!Opening,
       Behind!Cleaned
  <2>2. CASE Behind!ChildOpened
    BY <2>2 DEF Behind!ChildOpened, Behind!Types, Behind!StatesAgree, Behind!Opening,
       Behind!Cleaned
  <2>3. CASE Behind!ChildNotOpened
    BY <2>3 DEF Behind!ChildNotOpened, Behind!Types, Behind!StatesAgree, Behind!Opening,
       Behind!Cleaned
  <2> QED
    BY <2>1, <2>2, <2>3
<1>7. Behind!ReleasedIsGone'
  <2>1. CASE Behind!ChildHello
    BY <2>1 DEF Behind!ChildHello, Behind!Types, Behind!StatesAgree, Behind!Cleaned,
       Behind!ReleasedIsGone
  <2>2. CASE Behind!ChildOpened
    BY <2>2 DEF Behind!ChildOpened, Behind!Types, Behind!StatesAgree, Behind!Cleaned,
       Behind!ReleasedIsGone
  <2>3. CASE Behind!ChildNotOpened
    BY <2>3 DEF Behind!ChildNotOpened, Behind!Types, Behind!StatesAgree, Behind!Cleaned,
       Behind!ReleasedIsGone
  <2> QED
    BY <2>1, <2>2, <2>3
<1> QED
  BY <1>1, <1>2, <1>3, <1>4, <1>5, <1>6, <1>7

LEMMA WorkerChildWorksOnKeeps ==
    ASSUME Behind!IInv,
           Behind!ChildIdles \/ Behind!ChildChecks \/ Behind!ChildComputes \/ Behind!ChildGoesOn
           \/ Behind!ChildFails
    PROVE  Behind!IInv'
<1> USE DEF Behind!IInv, Behind!handleVars, Behind!callVars, Behind!wireVars, Behind!Alive,
    Behind!Msg, Behind!Clean, Behind!ParentUnchanged, Behind!Place, Behind!Error, Behind!Whole,
    Behind!Answers, Behind!Answer, Behind!Asking, Behind!Offering, Behind!Quiet,
    Behind!NothingYet, Behind!Moves, Behind!SameState, Behind!ParentGone
<1>1. Behind!Types'
  <2>1. CASE Behind!ChildIdles
    BY <2>1 DEF Behind!ChildIdles, Behind!Types
  <2>2. CASE Behind!ChildChecks
    BY <2>2 DEF Behind!ChildChecks, Behind!Types
  <2>3. CASE Behind!ChildComputes
    BY <2>3 DEF Behind!ChildComputes, Behind!Types
  <2>4. CASE Behind!ChildGoesOn
    BY <2>4 DEF Behind!ChildGoesOn, Behind!Types
  <2>5. CASE Behind!ChildFails
    BY <2>5 DEF Behind!ChildFails, Behind!Types
  <2> QED
    BY <2>1, <2>2, <2>3, <2>4, <2>5
<1>2. Behind!StatesAgree'
  BY DEF Behind!ChildIdles, Behind!ChildChecks, Behind!ChildComputes, Behind!ChildGoesOn,
     Behind!ChildFails, Behind!StatesAgree
<1>3. Behind!SaidSoFar'
  BY DEF Behind!ChildIdles, Behind!ChildChecks, Behind!ChildComputes, Behind!ChildGoesOn,
     Behind!ChildFails, Behind!Types, Behind!SaidSoFar
<1>4. Behind!Opening'
  BY DEF Behind!ChildIdles, Behind!ChildChecks, Behind!ChildComputes, Behind!ChildGoesOn,
     Behind!ChildFails, Behind!Types, Behind!StatesAgree, Behind!SaidSoFar, Behind!Opening
<1>5. Behind!Serving'
  <2>1. CASE Behind!ChildIdles
    BY <2>1 DEF Behind!ChildIdles, Behind!Types, Behind!StatesAgree, Behind!SaidSoFar,
       Behind!Opening, Behind!Serving
  <2>2. CASE Behind!ChildChecks
    BY <2>2 DEF Behind!ChildChecks, Behind!Types, Behind!StatesAgree, Behind!SaidSoFar,
       Behind!Opening, Behind!Serving
  <2>3. CASE Behind!ChildComputes
    BY <2>3 DEF Behind!ChildComputes, Behind!Types, Behind!StatesAgree, Behind!SaidSoFar,
       Behind!Opening, Behind!Serving
  <2>4. CASE Behind!ChildGoesOn
    BY <2>4 DEF Behind!ChildGoesOn, Behind!Types, Behind!StatesAgree, Behind!SaidSoFar,
       Behind!Opening, Behind!Serving
  <2>5. CASE Behind!ChildFails
    BY <2>5 DEF Behind!ChildFails, Behind!Types, Behind!StatesAgree, Behind!SaidSoFar,
       Behind!Opening, Behind!Serving
  <2> QED
    BY <2>1, <2>2, <2>3, <2>4, <2>5
<1>6. Behind!Cleaned'
  BY DEF Behind!ChildIdles, Behind!ChildChecks, Behind!ChildComputes, Behind!ChildGoesOn,
     Behind!ChildFails, Behind!Types, Behind!StatesAgree, Behind!Opening, Behind!Cleaned
<1>7. Behind!ReleasedIsGone'
  BY DEF Behind!ChildIdles, Behind!ChildChecks, Behind!ChildComputes, Behind!ChildGoesOn,
     Behind!ChildFails, Behind!Types, Behind!StatesAgree, Behind!Cleaned, Behind!ReleasedIsGone
<1> QED
  BY <1>1, <1>2, <1>3, <1>4, <1>5, <1>6, <1>7

LEMMA WorkerTakesQuery ==
    ASSUME Behind!IInv, Behind!ChildTakesQuery
    PROVE  Behind!Types' /\ Behind!Serving' /\ Behind!SaidSoFar'
<1>1. /\ child.at = "wait" /\ child' = [child EXCEPT !.at = "check", !.previous = child.previous + 1, !.said = << >>]
      /\ toChild # << >> /\ toChild' = Tail(toChild)
      /\ UNCHANGED <<workerState, pc, job, toParent, uncertain, terminated, fds>>
  BY DEF Behind!ChildTakesQuery, Behind!ParentUnchanged, Behind!callVars
<1>a. child.previous + 1 \in Nat /\ << >> \in Behind!Answers /\ "check" \in Behind!Place
  BY DEF Behind!IInv, Behind!Types, Behind!Place, Behind!Answers
<1>2. Behind!Types'
  BY <1>1, <1>a DEF Behind!IInv, Behind!Types
<1>3. child'.at = "check" /\ child'.previous = child.previous + 1 /\ child'.said = << >>
  BY <1>1 DEF Behind!IInv, Behind!Types
<1>4. Behind!SaidSoFar'
  BY <1>3 DEF Behind!SaidSoFar
<1>5. pc = "reply" => toChild' = << >> /\ toParent' = << >> /\ child'.previous = job
  BY <1>1, <1>3, ShortSequences DEF Behind!IInv, Behind!Serving
<1>6. Behind!Serving'
  BY <1>1, <1>3, <1>5, SaidAppends DEF Behind!IInv, Behind!Serving, Behind!StatesAgree,
     Behind!Asking, Behind!Offering, Behind!Quiet, Behind!Answer
<1> QED
  BY <1>2, <1>4, <1>6

LEMMA WorkerChildTakesKeeps ==
    ASSUME Behind!IInv,
           Behind!ChildTakesQuery
    PROVE  Behind!IInv'
<1> USE DEF Behind!IInv, Behind!handleVars, Behind!callVars, Behind!wireVars, Behind!Alive,
    Behind!Msg, Behind!Clean, Behind!ParentUnchanged, Behind!Place, Behind!Error, Behind!Whole,
    Behind!Answers, Behind!Answer, Behind!Asking, Behind!Offering, Behind!Quiet,
    Behind!NothingYet
<1>1. Behind!Types'
  BY WorkerTakesQuery
<1>2. Behind!StatesAgree'
  BY DEF Behind!ChildTakesQuery, Behind!StatesAgree
<1>3. Behind!SaidSoFar'
  BY WorkerTakesQuery
<1>4. Behind!Opening'
  BY DEF Behind!ChildTakesQuery, Behind!Types, Behind!StatesAgree, Behind!SaidSoFar,
     Behind!Opening
<1>5. Behind!Serving'
  BY WorkerTakesQuery
<1>6. Behind!Cleaned'
  BY DEF Behind!ChildTakesQuery, Behind!Types, Behind!StatesAgree, Behind!Opening,
     Behind!Cleaned
<1>7. Behind!ReleasedIsGone'
  BY DEF Behind!ChildTakesQuery, Behind!Types, Behind!StatesAgree, Behind!Cleaned,
     Behind!ReleasedIsGone
<1> QED
  BY <1>1, <1>2, <1>3, <1>4, <1>5, <1>6, <1>7

LEMMA WorkerHearsFrame ==
    ASSUME Behind!IInv, Behind!ChildSaysFrame, pc = "reply", child.said = <<"RESULT">>, child.at = "frame"
    PROVE  toParent' = <<Behind!Msg("RESULT", 0, FALSE), Behind!Msg("FRAME", child.previous, FALSE)>>
<1>1. toParent = <<Behind!Msg("RESULT", 0, FALSE)>>
  BY SaidAppends DEF Behind!IInv, Behind!Serving, Behind!Answer
<1>2. toParent' = Append(toParent, Behind!Msg("FRAME", child.previous, FALSE))
  BY DEF Behind!ChildSaysFrame, Behind!ChildSays
<1> QED
  BY <1>1, <1>2, ShortAppends

LEMMA WorkerHearsDone ==
    ASSUME Behind!IInv, Behind!ChildSaysDone, child.said = <<"RESULT", "FRAME">>, child.at = "done"
    PROVE  /\ pc = "reply" => toParent' = <<Behind!Msg("RESULT", 0, FALSE), Behind!Msg("FRAME", child.previous, FALSE), Behind!Msg("DONE", child.previous, FALSE)>>
           /\ pc = "frame" => toParent' = <<Behind!Msg("FRAME", child.previous, FALSE), Behind!Msg("DONE", child.previous, FALSE)>>
<1>1. pc = "reply" => toParent = <<Behind!Msg("RESULT", 0, FALSE), Behind!Msg("FRAME", child.previous, FALSE)>>
  BY SaidAppends DEF Behind!IInv, Behind!Serving, Behind!Answer
<1>2. pc = "frame" => toParent = <<Behind!Msg("FRAME", child.previous, FALSE)>>
  BY SaidAppends DEF Behind!IInv, Behind!Serving, Behind!Answer
<1>3. toParent' = Append(toParent, Behind!Msg("DONE", child.previous, FALSE))
  BY DEF Behind!ChildSaysDone, Behind!ChildSays
<1>4. CASE pc = "reply"
  BY <1>1, <1>3, <1>4, ShortAppends
<1>5. CASE pc = "frame"
  BY <1>2, <1>3, <1>5, ShortAppends
<1> QED
  BY <1>4, <1>5

LEMMA WorkerChildSaysError ==
    ASSUME Behind!IInv, Behind!ChildSaysError
    PROVE  Behind!IInv'
<1>1. /\ Behind!Alive /\ child.at = "continue" /\ child.said = << >>
      /\ child' = [child EXCEPT !.at = "after", !.said = Behind!Error]
      /\ UNCHANGED <<workerState, pc, adopted, process, spawnUnknown, uncertain, stop, job,
                     output, terminated, graceful, fds, session, pipe, toChild>>
  BY SaidAppends DEF Behind!IInv, Behind!ChildSaysError, Behind!ChildSays, Behind!handleVars,
     Behind!callVars, Behind!wireVars, Behind!Alive, Behind!Msg, Behind!ParentUnchanged,
     Behind!Types, Behind!SaidSoFar
<1>2. /\ child'.at = "after" /\ child'.said = Behind!Error
      /\ child'.previous = child.previous
  BY <1>1 DEF Behind!IInv, Behind!Types
<1>3. Behind!Types'
  BY <1>1 DEF Behind!IInv, Behind!Types, Behind!Answers, Behind!Place
<1>4. Behind!StatesAgree'
  BY <1>1 DEF Behind!IInv, Behind!StatesAgree, Behind!Asking, Behind!Offering
<1>5. Behind!SaidSoFar'
  BY <1>2 DEF Behind!SaidSoFar, Behind!Alive
<1>6. Behind!Opening'
  BY <1>1, <1>2, SaidAppends DEF Behind!IInv, Behind!StatesAgree, Behind!Opening,
     Behind!NothingYet, Behind!Alive
<1>7. Behind!Serving'
  <2>1. pc = "reply" =>
          /\ toParent = Behind!Answer(job, child.at # "error")
          /\ toChild = << >> /\ child.previous = job
    BY <1>1 DEF Behind!IInv, Behind!Serving
  <2>2. CASE pc = "reply"
    BY <1>1, <1>2, <2>1, <2>2, SaidAppends, ShortAppends DEF Behind!IInv, Behind!StatesAgree,
       Behind!Asking, Behind!Offering, Behind!Serving, Behind!Answer, Behind!Quiet,
       Behind!ChildSaysError, Behind!ChildSays, Behind!Msg
  <2>3. CASE pc = "frame"
    BY <1>1, <1>2, <2>3, SaidAppends, ShortAppends DEF Behind!IInv, Behind!StatesAgree,
       Behind!Asking, Behind!Offering, Behind!Serving, Behind!Quiet, Behind!ChildSaysError,
       Behind!ChildSays, Behind!Msg
  <2>4. CASE pc = "done"
    BY <1>1, <1>2, <2>4, SaidAppends, ShortAppends DEF Behind!IInv, Behind!StatesAgree,
       Behind!Asking, Behind!Offering, Behind!Serving, Behind!Quiet, Behind!ChildSaysError,
       Behind!ChildSays, Behind!Msg
  <2>5. CASE pc \notin {"reply", "frame", "done"}
    BY <1>1, <1>2, <2>5, SaidAppends DEF Behind!IInv, Behind!StatesAgree, Behind!Asking,
       Behind!Offering, Behind!Serving, Behind!Quiet
  <2> QED
    BY <2>2, <2>3, <2>4, <2>5
<1>8. Behind!Cleaned' /\ Behind!ReleasedIsGone'
  BY <1>1 DEF Behind!IInv, Behind!Types, Behind!Cleaned, Behind!ReleasedIsGone, Behind!Alive,
     Behind!Fd
<1> QED
  BY <1>3, <1>4, <1>5, <1>6, <1>7, <1>8 DEF Behind!IInv

LEMMA WorkerChildSaysResult ==
    ASSUME Behind!IInv, Behind!ChildSaysResult
    PROVE  Behind!IInv'
<1>1. /\ Behind!Alive /\ child.at = "result" /\ child.said = << >>
      /\ child' = [child EXCEPT !.at = "frame", !.said = <<"RESULT">>]
      /\ UNCHANGED <<workerState, pc, adopted, process, spawnUnknown, uncertain, stop, job,
                     output, terminated, graceful, fds, session, pipe, toChild>>
  BY SaidAppends DEF Behind!IInv, Behind!ChildSaysResult, Behind!ChildSays, Behind!handleVars,
     Behind!callVars, Behind!wireVars, Behind!Alive, Behind!Msg, Behind!ParentUnchanged,
     Behind!Types, Behind!SaidSoFar
<1>2. /\ child'.at = "frame" /\ child'.said = <<"RESULT">>
      /\ child'.previous = child.previous
  BY <1>1 DEF Behind!IInv, Behind!Types
<1>3. Behind!Types'
  BY <1>1 DEF Behind!IInv, Behind!Types, Behind!Answers, Behind!Place
<1>4. Behind!StatesAgree'
  BY <1>1 DEF Behind!IInv, Behind!StatesAgree, Behind!Asking, Behind!Offering
<1>5. Behind!SaidSoFar'
  BY <1>2 DEF Behind!SaidSoFar, Behind!Alive
<1>6. Behind!Opening'
  BY <1>1, <1>2, SaidAppends DEF Behind!IInv, Behind!StatesAgree, Behind!Opening,
     Behind!NothingYet, Behind!Alive
<1>7. Behind!Serving'
  <2>1. pc = "reply" =>
          /\ toParent = Behind!Answer(job, child.at # "error")
          /\ toChild = << >> /\ child.previous = job
    BY <1>1 DEF Behind!IInv, Behind!Serving
  <2>2. CASE pc = "reply"
    BY <1>1, <1>2, <2>1, <2>2, SaidAppends, ShortAppends DEF Behind!IInv, Behind!StatesAgree,
       Behind!Asking, Behind!Offering, Behind!Serving, Behind!Answer, Behind!Quiet,
       Behind!ChildSaysResult, Behind!ChildSays, Behind!Msg
  <2>3. CASE pc = "frame"
    BY <1>1, <1>2, <2>3, SaidAppends, ShortAppends DEF Behind!IInv, Behind!StatesAgree,
       Behind!Asking, Behind!Offering, Behind!Serving, Behind!Quiet, Behind!ChildSaysResult,
       Behind!ChildSays, Behind!Msg
  <2>4. CASE pc = "done"
    BY <1>1, <1>2, <2>4, SaidAppends, ShortAppends DEF Behind!IInv, Behind!StatesAgree,
       Behind!Asking, Behind!Offering, Behind!Serving, Behind!Quiet, Behind!ChildSaysResult,
       Behind!ChildSays, Behind!Msg
  <2>5. CASE pc \notin {"reply", "frame", "done"}
    BY <1>1, <1>2, <2>5, SaidAppends DEF Behind!IInv, Behind!StatesAgree, Behind!Asking,
       Behind!Offering, Behind!Serving, Behind!Quiet
  <2> QED
    BY <2>2, <2>3, <2>4, <2>5
<1>8. Behind!Cleaned' /\ Behind!ReleasedIsGone'
  BY <1>1 DEF Behind!IInv, Behind!Types, Behind!Cleaned, Behind!ReleasedIsGone, Behind!Alive,
     Behind!Fd
<1> QED
  BY <1>3, <1>4, <1>5, <1>6, <1>7, <1>8 DEF Behind!IInv

LEMMA WorkerChildSaysFrame ==
    ASSUME Behind!IInv, Behind!ChildSaysFrame
    PROVE  Behind!IInv'
<1>1. /\ Behind!Alive /\ child.at = "frame" /\ child.said = <<"RESULT">>
      /\ child' = [child EXCEPT !.at = "done", !.said = <<"RESULT", "FRAME">>]
      /\ UNCHANGED <<workerState, pc, adopted, process, spawnUnknown, uncertain, stop, job,
                     output, terminated, graceful, fds, session, pipe, toChild>>
  BY SaidAppends DEF Behind!IInv, Behind!ChildSaysFrame, Behind!ChildSays, Behind!handleVars,
     Behind!callVars, Behind!wireVars, Behind!Alive, Behind!Msg, Behind!ParentUnchanged,
     Behind!Types, Behind!SaidSoFar
<1>2. /\ child'.at = "done" /\ child'.said = <<"RESULT", "FRAME">>
      /\ child'.previous = child.previous
  BY <1>1 DEF Behind!IInv, Behind!Types
<1>3. Behind!Types'
  BY <1>1 DEF Behind!IInv, Behind!Types, Behind!Answers, Behind!Place
<1>4. Behind!StatesAgree'
  BY <1>1 DEF Behind!IInv, Behind!StatesAgree, Behind!Asking, Behind!Offering
<1>5. Behind!SaidSoFar'
  BY <1>2 DEF Behind!SaidSoFar, Behind!Alive
<1>6. Behind!Opening'
  BY <1>1, <1>2, SaidAppends DEF Behind!IInv, Behind!StatesAgree, Behind!Opening,
     Behind!NothingYet, Behind!Alive
<1>7. Behind!Serving'
  <2>1. pc = "reply" =>
          /\ toParent = Behind!Answer(job, child.at # "error")
          /\ toChild = << >> /\ child.previous = job
    BY <1>1 DEF Behind!IInv, Behind!Serving
  <2>2. CASE pc = "reply"
    BY <1>1, <1>2, <2>1, <2>2, SaidAppends, WorkerHearsFrame DEF Behind!IInv,
       Behind!StatesAgree, Behind!Asking, Behind!Offering, Behind!Serving, Behind!Answer,
       Behind!Quiet
  <2>3. CASE pc = "frame"
    BY <1>1, <1>2, <2>3, SaidAppends, ShortAppends DEF Behind!IInv, Behind!StatesAgree,
       Behind!Asking, Behind!Offering, Behind!Serving, Behind!Quiet, Behind!ChildSaysFrame,
       Behind!ChildSays, Behind!Msg
  <2>4. CASE pc = "done"
    BY <1>1, <1>2, <2>4, SaidAppends, ShortAppends DEF Behind!IInv, Behind!StatesAgree,
       Behind!Asking, Behind!Offering, Behind!Serving, Behind!Quiet, Behind!ChildSaysFrame,
       Behind!ChildSays, Behind!Msg
  <2>5. CASE pc \notin {"reply", "frame", "done"}
    BY <1>1, <1>2, <2>5, SaidAppends DEF Behind!IInv, Behind!StatesAgree, Behind!Asking,
       Behind!Offering, Behind!Serving, Behind!Quiet
  <2> QED
    BY <2>2, <2>3, <2>4, <2>5
<1>8. Behind!Cleaned' /\ Behind!ReleasedIsGone'
  BY <1>1 DEF Behind!IInv, Behind!Types, Behind!Cleaned, Behind!ReleasedIsGone, Behind!Alive,
     Behind!Fd
<1> QED
  BY <1>3, <1>4, <1>5, <1>6, <1>7, <1>8 DEF Behind!IInv

LEMMA WorkerChildSaysDone ==
    ASSUME Behind!IInv, Behind!ChildSaysDone
    PROVE  Behind!IInv'
<1>1. /\ Behind!Alive /\ child.at = "done" /\ child.said = <<"RESULT", "FRAME">>
      /\ child' = [child EXCEPT !.at = "after", !.said = Behind!Whole]
      /\ UNCHANGED <<workerState, pc, adopted, process, spawnUnknown, uncertain, stop, job,
                     output, terminated, graceful, fds, session, pipe, toChild>>
  BY SaidAppends DEF Behind!IInv, Behind!ChildSaysDone, Behind!ChildSays, Behind!handleVars,
     Behind!callVars, Behind!wireVars, Behind!Alive, Behind!Msg, Behind!ParentUnchanged,
     Behind!Types, Behind!SaidSoFar
<1>2. /\ child'.at = "after" /\ child'.said = Behind!Whole
      /\ child'.previous = child.previous
  BY <1>1 DEF Behind!IInv, Behind!Types
<1>3. Behind!Types'
  BY <1>1 DEF Behind!IInv, Behind!Types, Behind!Answers, Behind!Place
<1>4. Behind!StatesAgree'
  BY <1>1 DEF Behind!IInv, Behind!StatesAgree, Behind!Asking, Behind!Offering
<1>5. Behind!SaidSoFar'
  BY <1>2 DEF Behind!SaidSoFar, Behind!Alive
<1>6. Behind!Opening'
  BY <1>1, <1>2, SaidAppends DEF Behind!IInv, Behind!StatesAgree, Behind!Opening,
     Behind!NothingYet, Behind!Alive
<1>7. Behind!Serving'
  <2>1. pc = "reply" =>
          /\ toParent = Behind!Answer(job, child.at # "error")
          /\ toChild = << >> /\ child.previous = job
    BY <1>1 DEF Behind!IInv, Behind!Serving
  <2>2. CASE pc = "reply"
    BY <1>1, <1>2, <2>1, <2>2, SaidAppends, WorkerHearsDone DEF Behind!IInv, Behind!StatesAgree,
       Behind!Asking, Behind!Offering, Behind!Serving, Behind!Answer, Behind!Quiet
  <2>3. CASE pc = "frame"
    BY <1>1, <1>2, <2>3, SaidAppends, WorkerHearsDone DEF Behind!IInv, Behind!StatesAgree,
       Behind!Asking, Behind!Offering, Behind!Serving, Behind!Quiet
  <2>4. CASE pc = "done"
    BY <1>1, <1>2, <2>4, SaidAppends, ShortAppends DEF Behind!IInv, Behind!StatesAgree,
       Behind!Asking, Behind!Offering, Behind!Serving, Behind!Quiet, Behind!ChildSaysDone,
       Behind!ChildSays, Behind!Msg
  <2>5. CASE pc \notin {"reply", "frame", "done"}
    BY <1>1, <1>2, <2>5, SaidAppends DEF Behind!IInv, Behind!StatesAgree, Behind!Asking,
       Behind!Offering, Behind!Serving, Behind!Quiet
  <2> QED
    BY <2>2, <2>3, <2>4, <2>5
<1>8. Behind!Cleaned' /\ Behind!ReleasedIsGone'
  BY <1>1 DEF Behind!IInv, Behind!Types, Behind!Cleaned, Behind!ReleasedIsGone, Behind!Alive,
     Behind!Fd
<1> QED
  BY <1>3, <1>4, <1>5, <1>6, <1>7, <1>8 DEF Behind!IInv

LEMMA WorkerChildSaysFatal ==
    ASSUME Behind!IInv, Behind!ChildSaysFatal
    PROVE  Behind!IInv'
<1>1. /\ Behind!Alive /\ child.at = "error" /\ child.said = << >>
      /\ child' = [child EXCEPT !.proc = "exited", !.said = Behind!Error]
      /\ UNCHANGED <<workerState, pc, adopted, process, spawnUnknown, uncertain, stop, job,
                     output, terminated, graceful, fds, session, pipe, toChild>>
  BY SaidAppends DEF Behind!IInv, Behind!ChildSaysFatal, Behind!handleVars, Behind!callVars,
     Behind!wireVars, Behind!Alive, Behind!Msg, Behind!ParentUnchanged, Behind!Types,
     Behind!SaidSoFar
<1>2. /\ child'.at = "error" /\ child'.said = Behind!Error
      /\ child'.previous = child.previous /\ child'.proc = "exited"
  BY <1>1 DEF Behind!IInv, Behind!Types
<1>3. Behind!Types'
  BY <1>1 DEF Behind!IInv, Behind!Types, Behind!Answers, Behind!Place
<1>4. Behind!StatesAgree'
  BY <1>1 DEF Behind!IInv, Behind!StatesAgree, Behind!Asking, Behind!Offering
<1>5. Behind!SaidSoFar'
  BY <1>2 DEF Behind!SaidSoFar, Behind!Alive
<1>6. Behind!Opening'
  BY <1>1, <1>2, SaidAppends DEF Behind!IInv, Behind!StatesAgree, Behind!Opening,
     Behind!NothingYet, Behind!Alive
<1>7. Behind!Serving'
  <2>1. pc = "reply" =>
          /\ toParent = Behind!Answer(job, child.at # "error")
          /\ toChild = << >> /\ child.previous = job
    BY <1>1 DEF Behind!IInv, Behind!Serving
  <2>2. CASE pc = "reply"
    BY <1>1, <1>2, <2>1, <2>2, SaidAppends, ShortAppends DEF Behind!IInv, Behind!StatesAgree,
       Behind!Asking, Behind!Offering, Behind!Serving, Behind!Answer, Behind!Quiet,
       Behind!ChildSaysFatal, Behind!Msg
  <2>3. CASE pc = "frame"
    BY <1>1, <1>2, <2>3, SaidAppends, ShortAppends DEF Behind!IInv, Behind!StatesAgree,
       Behind!Asking, Behind!Offering, Behind!Serving, Behind!Quiet, Behind!ChildSaysFatal,
       Behind!Msg
  <2>4. CASE pc = "done"
    BY <1>1, <1>2, <2>4, SaidAppends, ShortAppends DEF Behind!IInv, Behind!StatesAgree,
       Behind!Asking, Behind!Offering, Behind!Serving, Behind!Quiet, Behind!ChildSaysFatal,
       Behind!Msg
  <2>5. CASE pc \notin {"reply", "frame", "done"}
    BY <1>1, <1>2, <2>5, SaidAppends DEF Behind!IInv, Behind!StatesAgree, Behind!Asking,
       Behind!Offering, Behind!Serving, Behind!Quiet
  <2> QED
    BY <2>2, <2>3, <2>4, <2>5
<1>8. Behind!Cleaned' /\ Behind!ReleasedIsGone'
  BY <1>1 DEF Behind!IInv, Behind!Types, Behind!Cleaned, Behind!ReleasedIsGone, Behind!Alive,
     Behind!Fd
<1> QED
  BY <1>3, <1>4, <1>5, <1>6, <1>7, <1>8 DEF Behind!IInv

LEMMA WorkerInitial == Behind!Init => Behind!IInv
<1> SUFFICES ASSUME Behind!Init
             PROVE  Behind!IInv
  OBVIOUS
<1> USE DEF Behind!Init, Behind!Fd, Behind!Place, Behind!Answers, Behind!NothingYet
<1>1. Behind!Types
  BY DEF Behind!Types
<1>2. Behind!StatesAgree /\ Behind!SaidSoFar
  BY DEF Behind!StatesAgree, Behind!SaidSoFar, Behind!Asking, Behind!Offering
<1>3. Behind!Opening /\ Behind!Serving
  BY DEF Behind!Opening, Behind!Serving, Behind!Asking, Behind!Offering
<1>4. Behind!Cleaned /\ Behind!ReleasedIsGone
  BY DEF Behind!Cleaned, Behind!ReleasedIsGone
<1> QED
  BY <1>1, <1>2, <1>3, <1>4 DEF Behind!IInv

LEMMA WorkerRestKeeps ==
    ASSUME Behind!IInv, UNCHANGED Behind!vars
    PROVE  Behind!IInv'
<1> USE DEF Behind!IInv, Behind!vars, Behind!handleVars, Behind!callVars, Behind!wireVars
<1>1. Behind!Types' /\ Behind!StatesAgree' /\ Behind!SaidSoFar'
  BY DEF Behind!Types, Behind!StatesAgree, Behind!SaidSoFar, Behind!Alive
<1>2. Behind!Opening'
  BY DEF Behind!Opening, Behind!NothingYet, Behind!Alive
<1>3. Behind!Serving'
  BY DEF Behind!Serving, Behind!Quiet, Behind!Answer
<1>4. Behind!Cleaned' /\ Behind!ReleasedIsGone'
  BY DEF Behind!Cleaned, Behind!ReleasedIsGone
<1> QED
  BY <1>1, <1>2, <1>3, <1>4

LEMMA WorkerStep ==
    ASSUME Behind!IInv, [Behind!Next]_Behind!vars
    PROVE  Behind!IInv'
<1>1. CASE Behind!ParentStep \/ Behind!RequestStop
  BY <1>1, WorkerOpensKeeps, WorkerSpawnsKeeps, WorkerAsksKeeps, WorkerCleansKeeps,
     WorkerReapsKeeps, WorkerClosesFdsKeeps, WorkerReleasesKeeps, WorkerFailsKeeps,
     WorkerExchangesKeeps DEF Behind!ParentStep
<1>2. CASE Behind!ChildWorks \/ Behind!ChildFails
  BY <1>2, WorkerChildStartsKeeps, WorkerChildOpensKeeps, WorkerChildWorksOnKeeps,
     WorkerChildTakesKeeps, WorkerChildSaysError, WorkerChildSaysResult, WorkerChildSaysFrame,
     WorkerChildSaysDone, WorkerChildSaysFatal DEF Behind!ChildWorks
<1>3. CASE Behind!Resting \/ UNCHANGED Behind!vars
  BY <1>3, WorkerRestKeeps DEF Behind!Resting
<1> QED
  BY <1>1, <1>2, <1>3 DEF Behind!Next

LEMMA WorkerIsSound == Behind!IInv => Behind!WorkerSound
<1> SUFFICES ASSUME Behind!IInv
             PROVE  Behind!WorkerSound
  OBVIOUS
<1>1. Behind!ReleasedIsGone
  BY DEF Behind!IInv
<1>2. Behind!QuietWhenReady
  BY DEF Behind!IInv, Behind!Serving, Behind!Quiet, Behind!QuietWhenReady
<1>3. Behind!OfferedIsDone
  BY DEF Behind!IInv, Behind!Serving, Behind!Whole, Behind!OfferedIsDone
<1>4. Behind!OneAnswer
  BY DEF Behind!IInv, Behind!Types, Behind!Answers, Behind!Error, Behind!Whole, Behind!OneAnswer
<1> QED
  BY <1>1, <1>2, <1>3, <1>4 DEF Behind!WorkerSound, Behind!AnswersMatchJobs

-----------------------------------------------------------------------------
(* The receiver of a result *)

LEMMA ReceiverTyped ==
    ASSUME Receiver!IInv, NEW t \in Threads,
           Receiver!ReadHeader(t) \/ Receiver!ReadBody(t) \/ Receiver!Validate(t)
           \/ Receiver!WorkFails(t) \/ Receiver!SendChunk(t) \/ Receiver!SendLast(t)
           \/ Receiver!PublishReady(t) \/ Receiver!PublishSent(t) \/ Receiver!PublishFailed(t)
           \/ Receiver!PublishRefused(t) \/ Receiver!Complete(t) \/ Receiver!BeginReceive(t)
           \/ Receiver!BeginSend(t) \/ Receiver!CloseTakes(t) \/ Receiver!Drop(t)
           \/ Receiver!CloseRefused(t) \/ Receiver!CloseAgain(t) \/ Receiver!Settle(t)
           \/ Receiver!CloseEnds(t) \/ Receiver!Interrupt(t) \/ Receiver!InterruptOutside(t)
    PROVE  Receiver!TypeOK'
<1> USE DEF Receiver!IInv, Receiver!TypeOK, Receiver!receiverVars, Receiver!threadVars,
    Receiver!worldVars, Receiver!Calls, Receiver!Goto, Receiver!Holds, Receiver!Returns,
    Receiver!Settled, Receiver!MustDrain, Receiver!EndOutput, Receiver!State,
    Receiver!Operations, Receiver!Working, Receiver!Publishing, Receiver!Over, Receiver!StateOf,
    Receiver!InProgress
<1>1. CASE Receiver!ReadHeader(t)
  BY <1>1 DEF Receiver!ReadHeader
<1>2. CASE Receiver!ReadBody(t)
  BY <1>2 DEF Receiver!ReadBody
<1>3. CASE Receiver!Validate(t)
  BY <1>3 DEF Receiver!Validate
<1>4. CASE Receiver!WorkFails(t)
  BY <1>4 DEF Receiver!WorkFails
<1>5. CASE Receiver!SendChunk(t)
  BY <1>5 DEF Receiver!SendChunk
<1>6. CASE Receiver!SendLast(t)
  BY <1>6 DEF Receiver!SendLast
<1>7. CASE Receiver!PublishReady(t)
  BY <1>7 DEF Receiver!PublishReady
<1>8. CASE Receiver!PublishSent(t)
  BY <1>8 DEF Receiver!PublishSent
<1>9. CASE Receiver!PublishFailed(t)
  BY <1>9 DEF Receiver!PublishFailed
<1>10. CASE Receiver!PublishRefused(t)
  BY <1>10 DEF Receiver!PublishRefused
<1>11. CASE Receiver!Complete(t)
  <2>1. call[t] \in Receiver!Operations
    BY <1>11 DEF Receiver!Complete, Receiver!WorkIsInProgress
  <2>2. done' \subseteq Receiver!Operations
    BY <1>11, <2>1 DEF Receiver!Complete
  <2> QED
    BY <1>11, <2>2 DEF Receiver!Complete
<1>12. CASE Receiver!BeginReceive(t)
  BY <1>12 DEF Receiver!BeginReceive
<1>13. CASE Receiver!BeginSend(t)
  BY <1>13 DEF Receiver!BeginSend
<1>14. CASE Receiver!CloseTakes(t)
  BY <1>14 DEF Receiver!CloseTakes
<1>15. CASE Receiver!Drop(t)
  BY <1>15 DEF Receiver!Drop
<1>16. CASE Receiver!CloseRefused(t)
  BY <1>16 DEF Receiver!CloseRefused
<1>17. CASE Receiver!CloseAgain(t)
  BY <1>17 DEF Receiver!CloseAgain
<1>18. CASE Receiver!Settle(t)
  BY <1>18 DEF Receiver!Settle
<1>19. CASE Receiver!CloseEnds(t)
  <2>1. ledger' \in [pinned : BOOLEAN, session : {"LIVE", "DRAINING"}, usable : BOOLEAN]
    BY <1>19 DEF Receiver!CloseEnds
  <2>2. receiverState' \in Receiver!State
    BY <1>19 DEF Receiver!CloseEnds
  <2> QED
    BY <1>19, <2>1, <2>2 DEF Receiver!CloseEnds
<1>20. CASE Receiver!Interrupt(t)
  BY <1>20 DEF Receiver!Interrupt
<1>21. CASE Receiver!InterruptOutside(t)
  BY <1>21 DEF Receiver!InterruptOutside
<1> QED
  BY <1>1, <1>2, <1>3, <1>4, <1>5, <1>6, <1>7, <1>8, <1>9, <1>10, <1>11, <1>12, <1>13, <1>14,
     <1>15, <1>16, <1>17, <1>18, <1>19, <1>20, <1>21

(* Reading and validating, and every failure of either: the call stays the  *)
(* operation in progress.                                                  *)
LEMMA ReceiverWorkKeeps ==
    ASSUME Receiver!IInv, NEW t \in Threads,
           Receiver!ReadHeader(t) \/ Receiver!ReadBody(t) \/ Receiver!Validate(t)
           \/ Receiver!WorkFails(t)
    PROVE  Receiver!IInv'
<1>1. Receiver!TypeOK'
  BY ReceiverTyped
<1> USE ReceiverConstants DEF Receiver!IInv, Receiver!NoneAssumption, Receiver!ReadHeader,
    Receiver!ReadBody, Receiver!Validate, Receiver!WorkFails, Receiver!receiverVars,
    Receiver!threadVars, Receiver!worldVars, Receiver!Calls, Receiver!Goto, Receiver!Holds,
    Receiver!Returns, Receiver!Settled, Receiver!MustDrain, Receiver!EndOutput, Receiver!State,
    Receiver!Operations, Receiver!Working, Receiver!Publishing, Receiver!Over, Receiver!StateOf,
    Receiver!InProgress
<1>2. Receiver!PlacesAgree'
  BY DEF Receiver!TypeOK, Receiver!PlacesAgree
<1>3. Receiver!WorkIsInProgress'
  BY DEF Receiver!TypeOK, Receiver!PlacesAgree, Receiver!WorkIsInProgress, Receiver!CalledOnce,
     Receiver!DroppedOnce, Receiver!WhatIsSent
<1>4. Receiver!CalledOnce'
  BY DEF Receiver!TypeOK, Receiver!PlacesAgree, Receiver!WorkIsInProgress, Receiver!CalledOnce,
     Receiver!DroppedOnce, Receiver!WhatIsSent
<1>5. Receiver!DroppedOnce'
  BY DEF Receiver!TypeOK, Receiver!PlacesAgree, Receiver!WorkIsInProgress, Receiver!CalledOnce,
     Receiver!DroppedOnce, Receiver!WhatIsSent
<1>6. Receiver!WhatIsSent'
  BY DEF Receiver!TypeOK, Receiver!PlacesAgree, Receiver!WorkIsInProgress, Receiver!CalledOnce,
     Receiver!DroppedOnce, Receiver!WhatIsSent
<1>7. Receiver!ReceiverSound'
  BY DEF Receiver!TypeOK, Receiver!PlacesAgree, Receiver!WorkIsInProgress, Receiver!CalledOnce,
     Receiver!DroppedOnce, Receiver!WhatIsSent, Receiver!ReceiverSound,
     Receiver!PinnedWhileReferenced, Receiver!LiveMeansServed, Receiver!OnlyValidIsSent,
     Receiver!NoDiscardUnderWork, Receiver!Referenced
<1> QED
  BY <1>1, <1>2, <1>3, <1>4, <1>5, <1>6, <1>7

LEMMA ReceiverSendKeeps ==
    ASSUME Receiver!IInv, NEW t \in Threads,
           Receiver!SendChunk(t) \/ Receiver!SendLast(t)
    PROVE  Receiver!IInv'
<1>1. Receiver!TypeOK'
  BY ReceiverTyped
<1> USE ReceiverConstants DEF Receiver!IInv, Receiver!NoneAssumption, Receiver!SendChunk,
    Receiver!SendLast, Receiver!receiverVars, Receiver!threadVars, Receiver!worldVars,
    Receiver!Calls, Receiver!Goto, Receiver!Holds, Receiver!Returns, Receiver!Settled,
    Receiver!MustDrain, Receiver!EndOutput, Receiver!State, Receiver!Operations,
    Receiver!Working, Receiver!Publishing, Receiver!Over, Receiver!StateOf, Receiver!InProgress
<1>2. Receiver!PlacesAgree'
  BY DEF Receiver!TypeOK, Receiver!PlacesAgree
<1>3. Receiver!WorkIsInProgress'
  BY DEF Receiver!TypeOK, Receiver!PlacesAgree, Receiver!WorkIsInProgress, Receiver!CalledOnce,
     Receiver!DroppedOnce, Receiver!WhatIsSent
<1>4. Receiver!CalledOnce'
  BY DEF Receiver!TypeOK, Receiver!PlacesAgree, Receiver!WorkIsInProgress, Receiver!CalledOnce,
     Receiver!DroppedOnce, Receiver!WhatIsSent
<1>5. Receiver!DroppedOnce'
  BY DEF Receiver!TypeOK, Receiver!PlacesAgree, Receiver!WorkIsInProgress, Receiver!CalledOnce,
     Receiver!DroppedOnce, Receiver!WhatIsSent
<1>6. Receiver!WhatIsSent'
  BY DEF Receiver!TypeOK, Receiver!PlacesAgree, Receiver!WorkIsInProgress, Receiver!CalledOnce,
     Receiver!DroppedOnce, Receiver!WhatIsSent
<1>7. Receiver!ReceiverSound'
  BY DEF Receiver!TypeOK, Receiver!PlacesAgree, Receiver!WorkIsInProgress, Receiver!CalledOnce,
     Receiver!DroppedOnce, Receiver!WhatIsSent, Receiver!ReceiverSound,
     Receiver!PinnedWhileReferenced, Receiver!LiveMeansServed, Receiver!OnlyValidIsSent,
     Receiver!NoDiscardUnderWork, Receiver!Referenced
<1> QED
  BY <1>1, <1>2, <1>3, <1>4, <1>5, <1>6, <1>7

(* The second critical sections: the state leaves the operation, and the    *)
(* call holds nothing or has not published.                                *)
LEMMA ReceiverPublishKeeps ==
    ASSUME Receiver!IInv, NEW t \in Threads,
           Receiver!PublishReady(t) \/ Receiver!PublishSent(t) \/ Receiver!PublishFailed(t)
           \/ Receiver!PublishRefused(t)
    PROVE  Receiver!IInv'
<1>1. Receiver!TypeOK'
  BY ReceiverTyped
<1> USE ReceiverConstants DEF Receiver!IInv, Receiver!NoneAssumption, Receiver!PublishReady,
    Receiver!PublishSent, Receiver!PublishFailed, Receiver!PublishRefused,
    Receiver!receiverVars, Receiver!threadVars, Receiver!worldVars, Receiver!Calls,
    Receiver!Goto, Receiver!Holds, Receiver!Returns, Receiver!Settled, Receiver!MustDrain,
    Receiver!EndOutput, Receiver!State, Receiver!Operations, Receiver!Working,
    Receiver!Publishing, Receiver!Over, Receiver!StateOf, Receiver!InProgress
<1>2. Receiver!PlacesAgree'
  BY DEF Receiver!TypeOK, Receiver!PlacesAgree
<1>3. Receiver!WorkIsInProgress'
  BY DEF Receiver!TypeOK, Receiver!PlacesAgree, Receiver!WorkIsInProgress, Receiver!CalledOnce,
     Receiver!DroppedOnce, Receiver!WhatIsSent
<1>4. Receiver!CalledOnce'
  BY DEF Receiver!TypeOK, Receiver!PlacesAgree, Receiver!WorkIsInProgress, Receiver!CalledOnce,
     Receiver!DroppedOnce, Receiver!WhatIsSent
<1>5. Receiver!DroppedOnce'
  BY DEF Receiver!TypeOK, Receiver!PlacesAgree, Receiver!WorkIsInProgress, Receiver!CalledOnce,
     Receiver!DroppedOnce, Receiver!WhatIsSent
<1>6. Receiver!WhatIsSent'
  BY DEF Receiver!TypeOK, Receiver!PlacesAgree, Receiver!WorkIsInProgress, Receiver!CalledOnce,
     Receiver!DroppedOnce, Receiver!WhatIsSent
<1>7. Receiver!ReceiverSound'
  BY DEF Receiver!TypeOK, Receiver!PlacesAgree, Receiver!WorkIsInProgress, Receiver!CalledOnce,
     Receiver!DroppedOnce, Receiver!WhatIsSent, Receiver!ReceiverSound,
     Receiver!PinnedWhileReferenced, Receiver!LiveMeansServed, Receiver!OnlyValidIsSent,
     Receiver!NoDiscardUnderWork, Receiver!Referenced
<1> QED
  BY <1>1, <1>2, <1>3, <1>4, <1>5, <1>6, <1>7

LEMMA ReceiverCompleteKeeps ==
    ASSUME Receiver!IInv, NEW t \in Threads,
           Receiver!Complete(t)
    PROVE  Receiver!IInv'
<1>1. Receiver!TypeOK'
  BY ReceiverTyped
<1> USE ReceiverConstants DEF Receiver!IInv, Receiver!NoneAssumption, Receiver!Complete,
    Receiver!receiverVars, Receiver!threadVars, Receiver!worldVars, Receiver!Calls,
    Receiver!Goto, Receiver!Holds, Receiver!Returns, Receiver!Settled, Receiver!MustDrain,
    Receiver!EndOutput, Receiver!State, Receiver!Operations, Receiver!Working,
    Receiver!Publishing, Receiver!Over, Receiver!StateOf, Receiver!InProgress
<1>2. Receiver!PlacesAgree'
  BY DEF Receiver!TypeOK, Receiver!PlacesAgree
<1>3. Receiver!WorkIsInProgress'
  BY DEF Receiver!TypeOK, Receiver!PlacesAgree, Receiver!WorkIsInProgress, Receiver!CalledOnce,
     Receiver!DroppedOnce, Receiver!WhatIsSent
<1>4. Receiver!CalledOnce'
  BY DEF Receiver!TypeOK, Receiver!PlacesAgree, Receiver!WorkIsInProgress, Receiver!CalledOnce,
     Receiver!DroppedOnce, Receiver!WhatIsSent
<1>5. Receiver!DroppedOnce'
  BY DEF Receiver!TypeOK, Receiver!PlacesAgree, Receiver!WorkIsInProgress, Receiver!CalledOnce,
     Receiver!DroppedOnce, Receiver!WhatIsSent
<1>6. Receiver!WhatIsSent'
  BY DEF Receiver!TypeOK, Receiver!PlacesAgree, Receiver!WorkIsInProgress, Receiver!CalledOnce,
     Receiver!DroppedOnce, Receiver!WhatIsSent
<1>7. Receiver!ReceiverSound'
  BY DEF Receiver!TypeOK, Receiver!PlacesAgree, Receiver!WorkIsInProgress, Receiver!CalledOnce,
     Receiver!DroppedOnce, Receiver!WhatIsSent, Receiver!ReceiverSound,
     Receiver!PinnedWhileReferenced, Receiver!LiveMeansServed, Receiver!OnlyValidIsSent,
     Receiver!NoDiscardUnderWork, Receiver!Referenced
<1> QED
  BY <1>1, <1>2, <1>3, <1>4, <1>5, <1>6, <1>7

(* NEW and READY are left once, so each operation has one call. *)
LEMMA ReceiverBeginKeeps ==
    ASSUME Receiver!IInv, NEW t \in Threads,
           Receiver!BeginReceive(t) \/ Receiver!BeginSend(t)
    PROVE  Receiver!IInv'
<1>1. Receiver!TypeOK'
  BY ReceiverTyped
<1> USE ReceiverConstants DEF Receiver!IInv, Receiver!NoneAssumption, Receiver!BeginReceive,
    Receiver!BeginSend, Receiver!receiverVars, Receiver!threadVars, Receiver!worldVars,
    Receiver!Calls, Receiver!Goto, Receiver!Holds, Receiver!Returns, Receiver!Settled,
    Receiver!MustDrain, Receiver!EndOutput, Receiver!State, Receiver!Operations,
    Receiver!Working, Receiver!Publishing, Receiver!Over, Receiver!StateOf, Receiver!InProgress
<1>2. Receiver!PlacesAgree'
  BY DEF Receiver!TypeOK, Receiver!PlacesAgree
<1>3. Receiver!WorkIsInProgress'
  BY DEF Receiver!TypeOK, Receiver!PlacesAgree, Receiver!WorkIsInProgress, Receiver!CalledOnce,
     Receiver!DroppedOnce, Receiver!WhatIsSent
<1>4. Receiver!CalledOnce'
  BY DEF Receiver!TypeOK, Receiver!PlacesAgree, Receiver!WorkIsInProgress, Receiver!CalledOnce,
     Receiver!DroppedOnce, Receiver!WhatIsSent
<1>5. Receiver!DroppedOnce'
  BY DEF Receiver!TypeOK, Receiver!PlacesAgree, Receiver!WorkIsInProgress, Receiver!CalledOnce,
     Receiver!DroppedOnce, Receiver!WhatIsSent
<1>6. Receiver!WhatIsSent'
  BY DEF Receiver!TypeOK, Receiver!PlacesAgree, Receiver!WorkIsInProgress, Receiver!CalledOnce,
     Receiver!DroppedOnce, Receiver!WhatIsSent
<1>7. Receiver!ReceiverSound'
  BY DEF Receiver!TypeOK, Receiver!PlacesAgree, Receiver!WorkIsInProgress, Receiver!CalledOnce,
     Receiver!DroppedOnce, Receiver!WhatIsSent, Receiver!ReceiverSound,
     Receiver!PinnedWhileReferenced, Receiver!LiveMeansServed, Receiver!OnlyValidIsSent,
     Receiver!NoDiscardUnderWork, Receiver!Referenced
<1> QED
  BY <1>1, <1>2, <1>3, <1>4, <1>5, <1>6, <1>7

(* An operation that has not completed is not settled: nothing is taken     *)
(* under a call that works.                                                *)
LEMMA ReceiverCloseTakesKeeps ==
    ASSUME Receiver!IInv, NEW t \in Threads,
           Receiver!CloseTakes(t)
    PROVE  Receiver!IInv'
<1>1. Receiver!TypeOK'
  BY ReceiverTyped
<1> USE ReceiverConstants DEF Receiver!IInv, Receiver!NoneAssumption, Receiver!CloseTakes,
    Receiver!receiverVars, Receiver!threadVars, Receiver!worldVars, Receiver!Calls,
    Receiver!Goto, Receiver!Holds, Receiver!Returns, Receiver!Settled, Receiver!MustDrain,
    Receiver!EndOutput, Receiver!State, Receiver!Operations, Receiver!Working,
    Receiver!Publishing, Receiver!Over, Receiver!StateOf, Receiver!InProgress
<1>2. Receiver!PlacesAgree'
  BY DEF Receiver!TypeOK, Receiver!PlacesAgree
<1>3. Receiver!WorkIsInProgress'
  BY DEF Receiver!TypeOK, Receiver!PlacesAgree, Receiver!WorkIsInProgress, Receiver!CalledOnce,
     Receiver!DroppedOnce, Receiver!WhatIsSent
<1>4. Receiver!CalledOnce'
  BY DEF Receiver!TypeOK, Receiver!PlacesAgree, Receiver!WorkIsInProgress, Receiver!CalledOnce,
     Receiver!DroppedOnce, Receiver!WhatIsSent
<1>5. Receiver!DroppedOnce'
  BY DEF Receiver!TypeOK, Receiver!PlacesAgree, Receiver!WorkIsInProgress, Receiver!CalledOnce,
     Receiver!DroppedOnce, Receiver!WhatIsSent
<1>6. Receiver!WhatIsSent'
  BY DEF Receiver!TypeOK, Receiver!PlacesAgree, Receiver!WorkIsInProgress, Receiver!CalledOnce,
     Receiver!DroppedOnce, Receiver!WhatIsSent
<1>7. Receiver!ReceiverSound'
  BY DEF Receiver!TypeOK, Receiver!PlacesAgree, Receiver!WorkIsInProgress, Receiver!CalledOnce,
     Receiver!DroppedOnce, Receiver!WhatIsSent, Receiver!ReceiverSound,
     Receiver!PinnedWhileReferenced, Receiver!LiveMeansServed, Receiver!OnlyValidIsSent,
     Receiver!NoDiscardUnderWork, Receiver!Referenced
<1> QED
  BY <1>1, <1>2, <1>3, <1>4, <1>5, <1>6, <1>7

LEMMA ReceiverCloseKeeps ==
    ASSUME Receiver!IInv, NEW t \in Threads,
           Receiver!Drop(t) \/ Receiver!CloseRefused(t) \/ Receiver!CloseAgain(t)
           \/ Receiver!Settle(t)
    PROVE  Receiver!IInv'
<1>1. Receiver!TypeOK'
  BY ReceiverTyped
<1> USE ReceiverConstants DEF Receiver!IInv, Receiver!NoneAssumption, Receiver!Drop,
    Receiver!CloseRefused, Receiver!CloseAgain, Receiver!Settle, Receiver!receiverVars,
    Receiver!threadVars, Receiver!worldVars, Receiver!Calls, Receiver!Goto, Receiver!Holds,
    Receiver!Returns, Receiver!Settled, Receiver!MustDrain, Receiver!EndOutput, Receiver!State,
    Receiver!Operations, Receiver!Working, Receiver!Publishing, Receiver!Over, Receiver!StateOf,
    Receiver!InProgress
<1>2. Receiver!PlacesAgree'
  BY DEF Receiver!TypeOK, Receiver!PlacesAgree
<1>3. Receiver!WorkIsInProgress'
  BY DEF Receiver!TypeOK, Receiver!PlacesAgree, Receiver!WorkIsInProgress, Receiver!CalledOnce,
     Receiver!DroppedOnce, Receiver!WhatIsSent
<1>4. Receiver!CalledOnce'
  BY DEF Receiver!TypeOK, Receiver!PlacesAgree, Receiver!WorkIsInProgress, Receiver!CalledOnce,
     Receiver!DroppedOnce, Receiver!WhatIsSent
<1>5. Receiver!DroppedOnce'
  BY DEF Receiver!TypeOK, Receiver!PlacesAgree, Receiver!WorkIsInProgress, Receiver!CalledOnce,
     Receiver!DroppedOnce, Receiver!WhatIsSent
<1>6. Receiver!WhatIsSent'
  BY DEF Receiver!TypeOK, Receiver!PlacesAgree, Receiver!WorkIsInProgress, Receiver!CalledOnce,
     Receiver!DroppedOnce, Receiver!WhatIsSent
<1>7. Receiver!ReceiverSound'
  BY DEF Receiver!TypeOK, Receiver!PlacesAgree, Receiver!WorkIsInProgress, Receiver!CalledOnce,
     Receiver!DroppedOnce, Receiver!WhatIsSent, Receiver!ReceiverSound,
     Receiver!PinnedWhileReferenced, Receiver!LiveMeansServed, Receiver!OnlyValidIsSent,
     Receiver!NoDiscardUnderWork, Receiver!Referenced
<1> QED
  BY <1>1, <1>2, <1>3, <1>4, <1>5, <1>6, <1>7

LEMMA ReceiverCloseEndsKeeps ==
    ASSUME Receiver!IInv, NEW t \in Threads,
           Receiver!CloseEnds(t)
    PROVE  Receiver!IInv'
<1>1. Receiver!TypeOK'
  BY ReceiverTyped
<1> USE ReceiverConstants DEF Receiver!IInv, Receiver!NoneAssumption, Receiver!CloseEnds,
    Receiver!receiverVars, Receiver!threadVars, Receiver!worldVars, Receiver!Calls,
    Receiver!Goto, Receiver!Holds, Receiver!Returns, Receiver!Settled, Receiver!MustDrain,
    Receiver!EndOutput, Receiver!State, Receiver!Operations, Receiver!Working,
    Receiver!Publishing, Receiver!Over, Receiver!StateOf, Receiver!InProgress
<1>2. Receiver!PlacesAgree'
  BY DEF Receiver!TypeOK, Receiver!PlacesAgree
<1>3. Receiver!WorkIsInProgress'
  BY DEF Receiver!TypeOK, Receiver!PlacesAgree, Receiver!WorkIsInProgress, Receiver!CalledOnce,
     Receiver!DroppedOnce, Receiver!WhatIsSent
<1>4. Receiver!CalledOnce'
  BY DEF Receiver!TypeOK, Receiver!PlacesAgree, Receiver!WorkIsInProgress, Receiver!CalledOnce,
     Receiver!DroppedOnce, Receiver!WhatIsSent
<1>5. Receiver!DroppedOnce'
  BY DEF Receiver!TypeOK, Receiver!PlacesAgree, Receiver!WorkIsInProgress, Receiver!CalledOnce,
     Receiver!DroppedOnce, Receiver!WhatIsSent
<1>6. Receiver!WhatIsSent'
  BY DEF Receiver!TypeOK, Receiver!PlacesAgree, Receiver!WorkIsInProgress, Receiver!CalledOnce,
     Receiver!DroppedOnce, Receiver!WhatIsSent
<1>7. Receiver!ReceiverSound'
  BY DEF Receiver!TypeOK, Receiver!PlacesAgree, Receiver!WorkIsInProgress, Receiver!CalledOnce,
     Receiver!DroppedOnce, Receiver!WhatIsSent, Receiver!ReceiverSound,
     Receiver!PinnedWhileReferenced, Receiver!LiveMeansServed, Receiver!OnlyValidIsSent,
     Receiver!NoDiscardUnderWork, Receiver!Referenced
<1> QED
  BY <1>1, <1>2, <1>3, <1>4, <1>5, <1>6, <1>7

(* An interruption inside the try makes the receiver unsure; one outside    *)
(* either holds nothing or keeps the payload undiscarded.                  *)
LEMMA ReceiverInterruptKeeps ==
    ASSUME Receiver!IInv, NEW t \in Threads,
           Receiver!Interrupt(t) \/ Receiver!InterruptOutside(t)
    PROVE  Receiver!IInv'
<1>1. Receiver!TypeOK'
  BY ReceiverTyped
<1> USE ReceiverConstants DEF Receiver!IInv, Receiver!NoneAssumption, Receiver!Interrupt,
    Receiver!InterruptOutside, Receiver!receiverVars, Receiver!threadVars, Receiver!worldVars,
    Receiver!Calls, Receiver!Goto, Receiver!Holds, Receiver!Returns, Receiver!Settled,
    Receiver!MustDrain, Receiver!EndOutput, Receiver!State, Receiver!Operations,
    Receiver!Working, Receiver!Publishing, Receiver!Over, Receiver!StateOf, Receiver!InProgress
<1>2. Receiver!PlacesAgree'
  BY DEF Receiver!TypeOK, Receiver!PlacesAgree
<1>3. Receiver!WorkIsInProgress'
  BY DEF Receiver!TypeOK, Receiver!PlacesAgree, Receiver!WorkIsInProgress, Receiver!CalledOnce,
     Receiver!DroppedOnce, Receiver!WhatIsSent
<1>4. Receiver!CalledOnce'
  BY DEF Receiver!TypeOK, Receiver!PlacesAgree, Receiver!WorkIsInProgress, Receiver!CalledOnce,
     Receiver!DroppedOnce, Receiver!WhatIsSent
<1>5. Receiver!DroppedOnce'
  BY DEF Receiver!TypeOK, Receiver!PlacesAgree, Receiver!WorkIsInProgress, Receiver!CalledOnce,
     Receiver!DroppedOnce, Receiver!WhatIsSent
<1>6. Receiver!WhatIsSent'
  BY DEF Receiver!TypeOK, Receiver!PlacesAgree, Receiver!WorkIsInProgress, Receiver!CalledOnce,
     Receiver!DroppedOnce, Receiver!WhatIsSent
<1>7. Receiver!ReceiverSound'
  BY DEF Receiver!TypeOK, Receiver!PlacesAgree, Receiver!WorkIsInProgress, Receiver!CalledOnce,
     Receiver!DroppedOnce, Receiver!WhatIsSent, Receiver!ReceiverSound,
     Receiver!PinnedWhileReferenced, Receiver!LiveMeansServed, Receiver!OnlyValidIsSent,
     Receiver!NoDiscardUnderWork, Receiver!Referenced
<1> QED
  BY <1>1, <1>2, <1>3, <1>4, <1>5, <1>6, <1>7

LEMMA ReceiverInitial == Receiver!Init => Receiver!IInv
<1> SUFFICES ASSUME Receiver!Init
             PROVE  Receiver!IInv
  OBVIOUS
<1> USE ReceiverConstants DEF Receiver!Init, Receiver!NoneAssumption
<1>1. Receiver!TypeOK
  BY DEF Receiver!TypeOK, Receiver!State, Receiver!Operations, Receiver!Working,
     Receiver!Publishing
<1>2. Receiver!PlacesAgree /\ Receiver!WorkIsInProgress /\ Receiver!CalledOnce
  BY DEF Receiver!PlacesAgree, Receiver!WorkIsInProgress, Receiver!CalledOnce,
     Receiver!Operations, Receiver!Working, Receiver!Publishing
<1>3. Receiver!DroppedOnce /\ Receiver!WhatIsSent
  BY DEF Receiver!DroppedOnce, Receiver!WhatIsSent, Receiver!Operations, Receiver!Working,
     Receiver!Publishing, Receiver!Over
<1>4. Receiver!ReceiverSound
  <2>1. ledger.pinned /\ served = "none" /\ receiverState = "NEW"
    OBVIOUS
  <2> QED
    BY <2>1 DEF Receiver!ReceiverSound, Receiver!PinnedWhileReferenced,
       Receiver!LiveMeansServed, Receiver!OnlyValidIsSent, Receiver!NoDiscardUnderWork,
       Receiver!Referenced
<1> QED
  BY <1>1, <1>2, <1>3, <1>4 DEF Receiver!IInv

LEMMA ReceiverElseKeeps ==
    ASSUME Receiver!IInv, Receiver!LedgerBreaks \/ UNCHANGED Receiver!vars
    PROVE  Receiver!IInv'
<1> USE DEF Receiver!IInv, Receiver!LedgerBreaks, Receiver!vars, Receiver!receiverVars,
    Receiver!threadVars, Receiver!worldVars
<1>1. Receiver!TypeOK'
  BY DEF Receiver!TypeOK
<1>2. Receiver!PlacesAgree' /\ Receiver!WorkIsInProgress' /\ Receiver!CalledOnce'
  BY DEF Receiver!PlacesAgree, Receiver!WorkIsInProgress, Receiver!CalledOnce, Receiver!InProgress
<1>3. Receiver!DroppedOnce' /\ Receiver!WhatIsSent'
  BY DEF Receiver!TypeOK, Receiver!DroppedOnce, Receiver!WhatIsSent
<1>4. Receiver!ReceiverSound'
  BY DEF Receiver!TypeOK, Receiver!ReceiverSound, Receiver!PinnedWhileReferenced,
     Receiver!LiveMeansServed, Receiver!OnlyValidIsSent, Receiver!NoDiscardUnderWork,
     Receiver!Referenced
<1> QED
  BY <1>1, <1>2, <1>3, <1>4

LEMMA ReceiverStep ==
    ASSUME Receiver!IInv, [Receiver!Next]_Receiver!vars
    PROVE  Receiver!IInv'
<1>1. CASE \E t \in Threads :
             \/ Receiver!Advance(t)
             \/ Receiver!BeginReceive(t) \/ Receiver!BeginSend(t) \/ Receiver!CloseTakes(t)
             \/ Receiver!CloseAgain(t) \/ Receiver!Settle(t)
             \/ Receiver!Interrupt(t) \/ Receiver!InterruptOutside(t)
  BY <1>1, ReceiverWorkKeeps, ReceiverSendKeeps, ReceiverPublishKeeps, ReceiverCompleteKeeps,
     ReceiverBeginKeeps, ReceiverCloseTakesKeeps, ReceiverCloseKeeps, ReceiverCloseEndsKeeps,
     ReceiverInterruptKeeps DEF Receiver!Advance
<1>2. CASE Receiver!LedgerBreaks \/ Receiver!Idle \/ UNCHANGED Receiver!vars
  BY <1>2, ReceiverElseKeeps DEF Receiver!Idle
<1> QED
  BY <1>1, <1>2 DEF Receiver!Next

-----------------------------------------------------------------------------
(* The session of a client *)

LEMMA SessionSends ==
    ASSUME Session!IInv, NEW p, NEW message, NEW about,
           Session!Send(p, message, about), p \notin {"handshake", "end"},
           [message |-> message, over |-> channel, about |-> about] \in Session!Sent
    PROVE  /\ sent' \in Seq(Session!Sent) /\ channel' = channel
           /\ Session!NothingInClearAfterS'
<1> DEFINE m == [message |-> message, over |-> channel, about |-> about]
<1>1. m \in Session!Sent /\ m.over = channel
  OBVIOUS
<1>2. sent' = Append(sent, m) /\ channel' = channel /\ sessionPc = p
  BY DEF Session!Send
<1> HIDE DEF m
<1>3. /\ sent' \in Seq(Session!Sent) /\ Len(sent') = Len(sent) + 1
      /\ sent'[Len(sent) + 1] = m /\ Len(sent) \in Nat
      /\ \A i \in 1..Len(sent) : sent'[i] = sent[i]
  BY <1>1, <1>2, AppendProperties DEF Session!IInv, Session!Types
<1>4. ASSUME NEW i \in 1..Len(sent'), NEW j \in 1..Len(sent'), i < j, sent'[i].message = "S"
      PROVE  sent'[j].over = "tls"
  <2>1. i \in 1..Len(sent) /\ sent[i].message = "S"
    BY <1>3, <1>4
  <2>2. CASE j \in 1..Len(sent)
    BY <1>3, <1>4, <2>1, <2>2 DEF Session!IInv, Session!NothingInClearAfterS
  <2>3. CASE j = Len(sent) + 1
    BY <1>1, <1>2, <1>3, <2>1, <2>3 DEF Session!IInv, Session!SentInOrder
  <2> QED
    BY <1>3, <1>4, <2>2, <2>3
<1> QED
  BY <1>2, <1>3, <1>4 DEF Session!NothingInClearAfterS

LEMMA SessionSendsKeep ==
    ASSUME Session!IInv, Session!AnswerSsl \/ Session!SendMechanisms \/ Session!SendContinue
                         \/ Session!SendReady \/ Session!Report
    PROVE  Session!Types' /\ Session!NothingInClearAfterS'
<1>1. sent' \in Seq(Session!Sent) /\ channel' = channel /\ Session!NothingInClearAfterS'
  <2>1. CASE Session!AnswerSsl
    BY <2>1, SessionSends DEF Session!AnswerSsl, Session!IInv, Session!Types, Session!Sent
  <2>2. CASE Session!SendMechanisms
    BY <2>2, SessionSends DEF Session!SendMechanisms, Session!IInv, Session!Types, Session!Sent
  <2>3. CASE Session!SendContinue
    BY <2>3, SessionSends DEF Session!SendContinue, Session!Salt, Session!IInv, Session!Types, Session!Sent
  <2>4. CASE Session!SendReady
    BY <2>4, SessionSends DEF Session!SendReady, Session!IInv, Session!Types, Session!Sent
  <2>5. CASE Session!Report
    BY <2>5, SessionSends DEF Session!Report, Session!IInv, Session!Types, Session!Sent
  <2> QED
    BY <2>1, <2>2, <2>3, <2>4, <2>5
<1>2. UNCHANGED <<config, stopSignal, proven, reserved, client, category>>
  BY DEF Session!AnswerSsl, Session!SendMechanisms, Session!SendContinue, Session!SendReady,
         Session!Report, Session!identityVars, Session!outcomeVars
<1>3. admitted' \in BOOLEAN
  BY DEF Session!IInv, Session!Types, Session!AnswerSsl, Session!SendMechanisms, Session!SendContinue,
         Session!SendReady, Session!Report, Session!identityVars
<1> QED
  BY <1>1, <1>2, <1>3 DEF Session!IInv, Session!Types

(* The slices of a wait *)
LEMMA SessionSliceKeeps ==
    ASSUME Session!IInv,
           Session!CheckPasses \/ Session!CheckFails \/ Session!Slice \/ Session!Broken
    PROVE  Session!IInv'
<1> USE SessionConstants DEF Session!IInv, Session!NoneAssumption, Session!wireVars,
    Session!identityVars, Session!outcomeVars, Session!Refusal, Session!User, Session!Alias,
    Session!Mechanism, Session!Flag, Session!Final, Session!Reading, Session!Sending,
    Session!CheckOnly, Session!MayGoOn, Session!Goto, Session!Fail, Session!Start,
    Session!Raise, Session!Receives, Session!Send, Session!Clear, Session!Proving, Session!Done,
    Session!Out
<1>1. Session!Types'
  <2>1. CASE Session!CheckPasses
    BY <2>1 DEF Session!CheckPasses, Session!Types
  <2>2. CASE Session!CheckFails
    BY <2>2 DEF Session!CheckFails, Session!Types
  <2>3. CASE Session!Slice
    BY <2>3 DEF Session!Slice, Session!Types
  <2>4. CASE Session!Broken
    BY <2>4 DEF Session!Broken, Session!Types
  <2> QED
    BY <2>1, <2>2, <2>3, <2>4
<1>2. Session!OneWay'
  <2>1. CASE Session!CheckPasses
    BY <2>1 DEF Session!CheckPasses, Session!Types, Session!OneWay
  <2>2. CASE Session!CheckFails
    BY <2>2 DEF Session!CheckFails, Session!Types, Session!OneWay
  <2>3. CASE Session!Slice
    BY <2>3 DEF Session!Slice, Session!Types, Session!OneWay
  <2>4. CASE Session!Broken
    BY <2>4 DEF Session!Broken, Session!Types, Session!OneWay
  <2> QED
    BY <2>1, <2>2, <2>3, <2>4
<1>3. Session!ProofIsKept'
  BY DEF Session!CheckPasses, Session!CheckFails, Session!Slice, Session!Broken, Session!Types,
     Session!OneWay, Session!ProofIsKept
<1>4. Session!BindingIsKept'
  BY DEF Session!CheckPasses, Session!CheckFails, Session!Slice, Session!Broken, Session!Types,
     Session!OneWay, Session!BindingIsKept
<1>5. Session!SentInOrder'
  BY DEF Session!CheckPasses, Session!CheckFails, Session!Slice, Session!Broken, Session!Types,
     Session!OneWay, Session!SentInOrder
<1>6. Session!NothingInClearAfterS'
  BY DEF Session!CheckPasses, Session!CheckFails, Session!Slice, Session!Broken, Session!Types,
     Session!OneWay, Session!SentInOrder, Session!NothingInClearAfterS
<1> QED
  BY <1>1, <1>2, <1>3, <1>4, <1>5, <1>6

LEMMA SessionSurroundingsKeep ==
    ASSUME Session!IInv,
           Session!TimePasses \/ Session!RequestStop
    PROVE  Session!IInv'
<1> USE SessionConstants DEF Session!IInv, Session!NoneAssumption, Session!wireVars,
    Session!identityVars, Session!outcomeVars, Session!Refusal, Session!User, Session!Alias,
    Session!Mechanism, Session!Flag, Session!Final, Session!Reading, Session!Sending,
    Session!CheckOnly, Session!MayGoOn, Session!Goto, Session!Fail, Session!Start,
    Session!Raise, Session!Receives, Session!Send, Session!Clear, Session!Proving, Session!Done,
    Session!Out
<1>1. Session!Types'
  <2>1. CASE Session!TimePasses
    BY <2>1 DEF Session!TimePasses, Session!Types
  <2>2. CASE Session!RequestStop
    BY <2>2 DEF Session!RequestStop, Session!Types
  <2> QED
    BY <2>1, <2>2
<1>2. Session!OneWay'
  <2>1. CASE Session!TimePasses
    BY <2>1 DEF Session!TimePasses, Session!Types, Session!OneWay
  <2>2. CASE Session!RequestStop
    BY <2>2 DEF Session!RequestStop, Session!Types, Session!OneWay
  <2> QED
    BY <2>1, <2>2
<1>3. Session!ProofIsKept'
  BY DEF Session!TimePasses, Session!RequestStop, Session!Types, Session!OneWay,
     Session!ProofIsKept
<1>4. Session!BindingIsKept'
  BY DEF Session!TimePasses, Session!RequestStop, Session!Types, Session!OneWay,
     Session!BindingIsKept
<1>5. Session!SentInOrder'
  BY DEF Session!TimePasses, Session!RequestStop, Session!Types, Session!OneWay,
     Session!SentInOrder
<1>6. Session!NothingInClearAfterS'
  BY DEF Session!TimePasses, Session!RequestStop, Session!Types, Session!OneWay,
     Session!SentInOrder, Session!NothingInClearAfterS
<1> QED
  BY <1>1, <1>2, <1>3, <1>4, <1>5, <1>6

LEMMA SessionHandshakeKeeps ==
    ASSUME Session!IInv,
           Session!HandshakeRound \/ Session!HandshakeDone \/ Session!HandshakeFails
           \/ Session!HandshakeLimit
    PROVE  Session!IInv'
<1> USE SessionConstants DEF Session!IInv, Session!NoneAssumption, Session!wireVars,
    Session!identityVars, Session!outcomeVars, Session!Refusal, Session!User, Session!Alias,
    Session!Mechanism, Session!Flag, Session!Final, Session!Reading, Session!Sending,
    Session!CheckOnly, Session!MayGoOn, Session!Goto, Session!Fail, Session!Start,
    Session!Raise, Session!Receives, Session!Send, Session!Clear, Session!Proving, Session!Done,
    Session!Out
<1>1. Session!Types'
  <2>1. CASE Session!HandshakeRound
    BY <2>1 DEF Session!HandshakeRound, Session!Types
  <2>2. CASE Session!HandshakeDone
    BY <2>2 DEF Session!HandshakeDone, Session!Types
  <2>3. CASE Session!HandshakeFails
    BY <2>3 DEF Session!HandshakeFails, Session!Types
  <2>4. CASE Session!HandshakeLimit
    BY <2>4 DEF Session!HandshakeLimit, Session!Types
  <2> QED
    BY <2>1, <2>2, <2>3, <2>4
<1>2. Session!OneWay'
  <2>1. CASE Session!HandshakeRound
    BY <2>1 DEF Session!HandshakeRound, Session!Types, Session!OneWay
  <2>2. CASE Session!HandshakeDone
    BY <2>2 DEF Session!HandshakeDone, Session!Types, Session!OneWay
  <2>3. CASE Session!HandshakeFails
    BY <2>3 DEF Session!HandshakeFails, Session!Types, Session!OneWay
  <2>4. CASE Session!HandshakeLimit
    BY <2>4 DEF Session!HandshakeLimit, Session!Types, Session!OneWay
  <2> QED
    BY <2>1, <2>2, <2>3, <2>4
<1>3. Session!ProofIsKept'
  BY DEF Session!HandshakeRound, Session!HandshakeDone, Session!HandshakeFails,
     Session!HandshakeLimit, Session!Types, Session!OneWay, Session!ProofIsKept
<1>4. Session!BindingIsKept'
  BY DEF Session!HandshakeRound, Session!HandshakeDone, Session!HandshakeFails,
     Session!HandshakeLimit, Session!Types, Session!OneWay, Session!BindingIsKept
<1>5. Session!SentInOrder'
  BY DEF Session!HandshakeRound, Session!HandshakeDone, Session!HandshakeFails,
     Session!HandshakeLimit, Session!Types, Session!OneWay, Session!SentInOrder
<1>6. Session!NothingInClearAfterS'
  BY DEF Session!HandshakeRound, Session!HandshakeDone, Session!HandshakeFails,
     Session!HandshakeLimit, Session!Types, Session!OneWay, Session!SentInOrder,
     Session!NothingInClearAfterS
<1> QED
  BY <1>1, <1>2, <1>3, <1>4, <1>5, <1>6

(* What is sent *)
LEMMA SessionSendKeeps ==
    ASSUME Session!IInv,
           Session!AnswerSsl \/ Session!SendMechanisms \/ Session!SendContinue
           \/ Session!SendReady \/ Session!Report
    PROVE  Session!IInv'
<1> USE SessionConstants DEF Session!IInv, Session!NoneAssumption, Session!wireVars,
    Session!identityVars, Session!outcomeVars, Session!Refusal, Session!User, Session!Alias,
    Session!Mechanism, Session!Flag, Session!Final, Session!Reading, Session!Sending,
    Session!CheckOnly, Session!MayGoOn, Session!Goto, Session!Fail, Session!Start,
    Session!Raise, Session!Receives, Session!Send, Session!Clear, Session!Proving, Session!Done,
    Session!Out, Session!BindingOffered, Session!Salt
<1>1. Session!Types'
  BY SessionSendsKeep
<1>2. Session!OneWay'
  <2>1. CASE Session!AnswerSsl
    BY <2>1 DEF Session!AnswerSsl, Session!Types, Session!OneWay
  <2>2. CASE Session!SendMechanisms
    BY <2>2 DEF Session!SendMechanisms, Session!Types, Session!OneWay
  <2>3. CASE Session!SendContinue
    BY <2>3 DEF Session!SendContinue, Session!Types, Session!OneWay
  <2>4. CASE Session!SendReady
    BY <2>4 DEF Session!SendReady, Session!Types, Session!OneWay
  <2>5. CASE Session!Report
    BY <2>5 DEF Session!Report, Session!Types, Session!OneWay
  <2> QED
    BY <2>1, <2>2, <2>3, <2>4, <2>5
<1>3. Session!ProofIsKept'
  <2>1. CASE Session!AnswerSsl
    BY <2>1 DEF Session!AnswerSsl, Session!Types, Session!OneWay, Session!ProofIsKept
  <2>2. CASE Session!SendMechanisms
    BY <2>2 DEF Session!SendMechanisms, Session!Types, Session!OneWay, Session!ProofIsKept
  <2>3. CASE Session!SendContinue
    BY <2>3 DEF Session!SendContinue, Session!Types, Session!OneWay, Session!ProofIsKept
  <2>4. CASE Session!SendReady
    BY <2>4 DEF Session!SendReady, Session!Types, Session!OneWay, Session!ProofIsKept
  <2>5. CASE Session!Report
    BY <2>5 DEF Session!Report, Session!Types, Session!OneWay, Session!ProofIsKept
  <2> QED
    BY <2>1, <2>2, <2>3, <2>4, <2>5
<1>4. Session!BindingIsKept'
  <2>1. CASE Session!AnswerSsl
    BY <2>1 DEF Session!AnswerSsl, Session!Types, Session!OneWay, Session!BindingIsKept
  <2>2. CASE Session!SendMechanisms
    BY <2>2 DEF Session!SendMechanisms, Session!Types, Session!OneWay, Session!BindingIsKept
  <2>3. CASE Session!SendContinue
    BY <2>3 DEF Session!SendContinue, Session!Types, Session!OneWay, Session!BindingIsKept
  <2>4. CASE Session!SendReady
    BY <2>4 DEF Session!SendReady, Session!Types, Session!OneWay, Session!BindingIsKept
  <2>5. CASE Session!Report
    BY <2>5 DEF Session!Report, Session!Types, Session!OneWay, Session!BindingIsKept
  <2> QED
    BY <2>1, <2>2, <2>3, <2>4, <2>5
<1>5. Session!SentInOrder'
  <2>1. CASE Session!AnswerSsl
    BY <2>1 DEF Session!AnswerSsl, Session!Types, Session!OneWay, Session!SentInOrder
  <2>2. CASE Session!SendMechanisms
    BY <2>2 DEF Session!SendMechanisms, Session!Types, Session!OneWay, Session!SentInOrder
  <2>3. CASE Session!SendContinue
    BY <2>3 DEF Session!SendContinue, Session!Types, Session!OneWay, Session!SentInOrder
  <2>4. CASE Session!SendReady
    BY <2>4 DEF Session!SendReady, Session!Types, Session!OneWay, Session!SentInOrder
  <2>5. CASE Session!Report
    BY <2>5 DEF Session!Report, Session!Types, Session!OneWay, Session!SentInOrder
  <2> QED
    BY <2>1, <2>2, <2>3, <2>4, <2>5
<1>6. Session!NothingInClearAfterS'
  BY SessionSendsKeep
<1> QED
  BY <1>1, <1>2, <1>3, <1>4, <1>5, <1>6

(* What is read, and what follows from it *)
LEMMA SessionReadInitialKeeps ==
    ASSUME Session!IInv,
           Session!ReadInitial
    PROVE  Session!IInv'
<1> USE SessionConstants DEF Session!IInv, Session!NoneAssumption, Session!wireVars,
    Session!identityVars, Session!outcomeVars, Session!Refusal, Session!User, Session!Alias,
    Session!Mechanism, Session!Flag, Session!Final, Session!Reading, Session!Sending,
    Session!CheckOnly, Session!MayGoOn, Session!Goto, Session!Fail, Session!Start,
    Session!Raise, Session!Receives, Session!Send, Session!Clear, Session!Proving, Session!Done,
    Session!Out, Session!Initial, Session!Presents, Session!ParseStartup, Session!ClearAllowed
<1>1. Session!Types'
  <2>1. UNCHANGED <<config, stopSignal, channel, sent, admitted>>
    BY DEF Session!ReadInitial
  <2>2. client' \in [user : Session!User \cup {None}, alias : Session!Alias \cup {None},
                     mechanism : Session!Mechanism \cup {None}, flag : Session!Flag \cup {None},
                     final : Session!Final \cup {None}]
    BY DEF Session!ReadInitial, Session!Types
  <2>3. proven' \in BOOLEAN /\ reserved' \in BOOLEAN
    BY DEF Session!ReadInitial, Session!Types
  <2>4. category' \in Session!Refusal \cup {None}
    BY DEF Session!ReadInitial, Session!Types
  <2> QED
    BY <2>1, <2>2, <2>3, <2>4 DEF Session!Types
<1>2. Session!OneWay'
  BY DEF Session!ReadInitial, Session!Types, Session!OneWay
<1>3. Session!ProofIsKept'
  BY DEF Session!ReadInitial, Session!Types, Session!OneWay, Session!ProofIsKept
<1>4. Session!BindingIsKept'
  BY DEF Session!ReadInitial, Session!Types, Session!OneWay, Session!BindingIsKept
<1>5. Session!SentInOrder'
  BY DEF Session!ReadInitial, Session!Types, Session!OneWay, Session!SentInOrder
<1>6. Session!NothingInClearAfterS'
  BY DEF Session!ReadInitial, Session!Types, Session!OneWay, Session!SentInOrder,
     Session!NothingInClearAfterS
<1> QED
  BY <1>1, <1>2, <1>3, <1>4, <1>5, <1>6

LEMMA SessionReadSecondKeeps ==
    ASSUME Session!IInv,
           Session!ReadSecond
    PROVE  Session!IInv'
<1> USE SessionConstants DEF Session!IInv, Session!NoneAssumption, Session!wireVars,
    Session!identityVars, Session!outcomeVars, Session!Refusal, Session!User, Session!Alias,
    Session!Mechanism, Session!Flag, Session!Final, Session!Reading, Session!Sending,
    Session!CheckOnly, Session!MayGoOn, Session!Goto, Session!Fail, Session!Start,
    Session!Raise, Session!Receives, Session!Send, Session!Clear, Session!Proving, Session!Done,
    Session!Out, Session!Initial, Session!Presents, Session!ParseStartup, Session!ClearAllowed
<1>1. Session!Types'
  <2>1. UNCHANGED <<config, stopSignal, channel, sent, admitted>>
    BY DEF Session!ReadSecond
  <2>2. client' \in [user : Session!User \cup {None}, alias : Session!Alias \cup {None},
                     mechanism : Session!Mechanism \cup {None}, flag : Session!Flag \cup {None},
                     final : Session!Final \cup {None}]
    BY DEF Session!ReadSecond, Session!Types
  <2>3. proven' \in BOOLEAN /\ reserved' \in BOOLEAN
    BY DEF Session!ReadSecond, Session!Types
  <2>4. category' \in Session!Refusal \cup {None}
    BY DEF Session!ReadSecond, Session!Types
  <2> QED
    BY <2>1, <2>2, <2>3, <2>4 DEF Session!Types
<1>2. Session!OneWay'
  BY DEF Session!ReadSecond, Session!Types, Session!OneWay
<1>3. Session!ProofIsKept'
  BY DEF Session!ReadSecond, Session!Types, Session!OneWay, Session!ProofIsKept
<1>4. Session!BindingIsKept'
  BY DEF Session!ReadSecond, Session!Types, Session!OneWay, Session!BindingIsKept
<1>5. Session!SentInOrder'
  BY DEF Session!ReadSecond, Session!Types, Session!OneWay, Session!SentInOrder
<1>6. Session!NothingInClearAfterS'
  BY DEF Session!ReadSecond, Session!Types, Session!OneWay, Session!SentInOrder,
     Session!NothingInClearAfterS
<1> QED
  BY <1>1, <1>2, <1>3, <1>4, <1>5, <1>6

LEMMA SessionReadFirstKeeps ==
    ASSUME Session!IInv,
           Session!ReadFirst
    PROVE  Session!IInv'
<1> USE SessionConstants DEF Session!IInv, Session!NoneAssumption, Session!wireVars,
    Session!identityVars, Session!outcomeVars, Session!Refusal, Session!User, Session!Alias,
    Session!Mechanism, Session!Flag, Session!Final, Session!Reading, Session!Sending,
    Session!CheckOnly, Session!MayGoOn, Session!Goto, Session!Fail, Session!Start,
    Session!Raise, Session!Receives, Session!Send, Session!Clear, Session!Proving, Session!Done,
    Session!Out, Session!Mechanisms, Session!FlagAllowed, Session!BindingOffered
<1>1. Session!Types'
  <2>1. UNCHANGED <<config, stopSignal, channel, sent, admitted>>
    BY DEF Session!ReadFirst
  <2>2. client' \in [user : Session!User \cup {None}, alias : Session!Alias \cup {None},
                     mechanism : Session!Mechanism \cup {None}, flag : Session!Flag \cup {None},
                     final : Session!Final \cup {None}]
    BY DEF Session!ReadFirst, Session!Types
  <2>3. proven' \in BOOLEAN /\ reserved' \in BOOLEAN
    BY DEF Session!ReadFirst, Session!Types
  <2>4. category' \in Session!Refusal \cup {None}
    BY DEF Session!ReadFirst, Session!Types
  <2> QED
    BY <2>1, <2>2, <2>3, <2>4 DEF Session!Types
<1>2. Session!OneWay'
  BY DEF Session!ReadFirst, Session!Types, Session!OneWay
<1>3. Session!ProofIsKept'
  BY DEF Session!ReadFirst, Session!Types, Session!OneWay, Session!ProofIsKept
<1>4. Session!BindingIsKept'
  BY DEF Session!ReadFirst, Session!Types, Session!OneWay, Session!BindingIsKept
<1>5. Session!SentInOrder'
  BY DEF Session!ReadFirst, Session!Types, Session!OneWay, Session!SentInOrder
<1>6. Session!NothingInClearAfterS'
  BY DEF Session!ReadFirst, Session!Types, Session!OneWay, Session!SentInOrder,
     Session!NothingInClearAfterS
<1> QED
  BY <1>1, <1>2, <1>3, <1>4, <1>5, <1>6

LEMMA SessionReadFinalKeeps ==
    ASSUME Session!IInv,
           Session!ReadFinal
    PROVE  Session!IInv'
<1> USE SessionConstants DEF Session!IInv, Session!NoneAssumption, Session!wireVars,
    Session!identityVars, Session!outcomeVars, Session!Refusal, Session!User, Session!Alias,
    Session!Mechanism, Session!Flag, Session!Final, Session!Reading, Session!Sending,
    Session!CheckOnly, Session!MayGoOn, Session!Goto, Session!Fail, Session!Start,
    Session!Raise, Session!Receives, Session!Send, Session!Clear, Session!Proving, Session!Done,
    Session!Out, Session!Presents, Session!Accepts
<1>1. Session!Types'
  <2>1. UNCHANGED <<config, stopSignal, channel, sent, admitted>>
    BY DEF Session!ReadFinal
  <2>2. client' \in [user : Session!User \cup {None}, alias : Session!Alias \cup {None},
                     mechanism : Session!Mechanism \cup {None}, flag : Session!Flag \cup {None},
                     final : Session!Final \cup {None}]
    BY DEF Session!ReadFinal, Session!Types
  <2>3. proven' \in BOOLEAN /\ reserved' \in BOOLEAN
    BY DEF Session!ReadFinal, Session!Types
  <2>4. category' \in Session!Refusal \cup {None}
    BY DEF Session!ReadFinal, Session!Types
  <2> QED
    BY <2>1, <2>2, <2>3, <2>4 DEF Session!Types
<1>2. Session!OneWay'
  BY DEF Session!ReadFinal, Session!Types, Session!OneWay
<1>3. Session!ProofIsKept'
  BY DEF Session!ReadFinal, Session!Types, Session!OneWay, Session!ProofIsKept
<1>4. Session!BindingIsKept'
  BY DEF Session!ReadFinal, Session!Types, Session!OneWay, Session!BindingIsKept
<1>5. Session!SentInOrder'
  BY DEF Session!ReadFinal, Session!Types, Session!OneWay, Session!SentInOrder
<1>6. Session!NothingInClearAfterS'
  BY DEF Session!ReadFinal, Session!Types, Session!OneWay, Session!SentInOrder,
     Session!NothingInClearAfterS
<1> QED
  BY <1>1, <1>2, <1>3, <1>4, <1>5, <1>6

LEMMA SessionReserveKeeps ==
    ASSUME Session!IInv,
           Session!ReserveSession
    PROVE  Session!IInv'
<1> USE SessionConstants DEF Session!IInv, Session!NoneAssumption, Session!wireVars,
    Session!identityVars, Session!outcomeVars, Session!Refusal, Session!User, Session!Alias,
    Session!Mechanism, Session!Flag, Session!Final, Session!Reading, Session!Sending,
    Session!CheckOnly, Session!MayGoOn, Session!Goto, Session!Fail, Session!Start,
    Session!Raise, Session!Receives, Session!Send, Session!Clear, Session!Proving, Session!Done,
    Session!Out
<1>1. Session!Types'
  <2>1. UNCHANGED <<config, stopSignal, channel, sent, admitted>>
    BY DEF Session!ReserveSession
  <2>2. client' \in [user : Session!User \cup {None}, alias : Session!Alias \cup {None},
                     mechanism : Session!Mechanism \cup {None}, flag : Session!Flag \cup {None},
                     final : Session!Final \cup {None}]
    BY DEF Session!ReserveSession, Session!Types
  <2>3. proven' \in BOOLEAN /\ reserved' \in BOOLEAN
    BY DEF Session!ReserveSession, Session!Types
  <2>4. category' \in Session!Refusal \cup {None}
    BY DEF Session!ReserveSession, Session!Types
  <2> QED
    BY <2>1, <2>2, <2>3, <2>4 DEF Session!Types
<1>2. Session!OneWay'
  BY DEF Session!ReserveSession, Session!Types, Session!OneWay
<1>3. Session!ProofIsKept'
  BY DEF Session!ReserveSession, Session!Types, Session!OneWay, Session!ProofIsKept
<1>4. Session!BindingIsKept'
  BY DEF Session!ReserveSession, Session!Types, Session!OneWay, Session!BindingIsKept
<1>5. Session!SentInOrder'
  BY DEF Session!ReserveSession, Session!Types, Session!OneWay, Session!SentInOrder
<1>6. Session!NothingInClearAfterS'
  BY DEF Session!ReserveSession, Session!Types, Session!OneWay, Session!SentInOrder,
     Session!NothingInClearAfterS
<1> QED
  BY <1>1, <1>2, <1>3, <1>4, <1>5, <1>6

LEMMA SessionEndKeeps ==
    ASSUME Session!IInv,
           Session!ReadKind \/ Session!ReadTerminate \/ Session!LingerEnds
    PROVE  Session!IInv'
<1> USE SessionConstants DEF Session!IInv, Session!NoneAssumption, Session!wireVars,
    Session!identityVars, Session!outcomeVars, Session!Refusal, Session!User, Session!Alias,
    Session!Mechanism, Session!Flag, Session!Final, Session!Reading, Session!Sending,
    Session!CheckOnly, Session!MayGoOn, Session!Goto, Session!Fail, Session!Start,
    Session!Raise, Session!Receives, Session!Send, Session!Clear, Session!Proving, Session!Done,
    Session!Out
<1>1. Session!Types'
  <2>1. CASE Session!ReadKind
    BY <2>1 DEF Session!ReadKind, Session!Types
  <2>2. CASE Session!ReadTerminate
    BY <2>2 DEF Session!ReadTerminate, Session!Types
  <2>3. CASE Session!LingerEnds
    BY <2>3 DEF Session!LingerEnds, Session!Types
  <2> QED
    BY <2>1, <2>2, <2>3
<1>2. Session!OneWay'
  <2>1. CASE Session!ReadKind
    BY <2>1 DEF Session!ReadKind, Session!Types, Session!OneWay
  <2>2. CASE Session!ReadTerminate
    BY <2>2 DEF Session!ReadTerminate, Session!Types, Session!OneWay
  <2>3. CASE Session!LingerEnds
    BY <2>3 DEF Session!LingerEnds, Session!Types, Session!OneWay
  <2> QED
    BY <2>1, <2>2, <2>3
<1>3. Session!ProofIsKept'
  BY DEF Session!ReadKind, Session!ReadTerminate, Session!LingerEnds, Session!Types,
     Session!OneWay, Session!ProofIsKept
<1>4. Session!BindingIsKept'
  BY DEF Session!ReadKind, Session!ReadTerminate, Session!LingerEnds, Session!Types,
     Session!OneWay, Session!BindingIsKept
<1>5. Session!SentInOrder'
  BY DEF Session!ReadKind, Session!ReadTerminate, Session!LingerEnds, Session!Types,
     Session!OneWay, Session!SentInOrder
<1>6. Session!NothingInClearAfterS'
  BY DEF Session!ReadKind, Session!ReadTerminate, Session!LingerEnds, Session!Types,
     Session!OneWay, Session!SentInOrder, Session!NothingInClearAfterS
<1> QED
  BY <1>1, <1>2, <1>3, <1>4, <1>5, <1>6

LEMMA SessionInitial == Session!Init => Session!IInv
<1> SUFFICES ASSUME Session!Init
             PROVE  Session!IInv
  OBVIOUS
<1> USE SessionConstants DEF Session!NoneAssumption, Session!Init, Session!Nobody
<1>1. Session!Types
  <2>1. config \in [tls : BOOLEAN, required : BOOLEAN]
    OBVIOUS
  <2>2. client \in [user : Session!User \cup {None}, alias : Session!Alias \cup {None},
                    mechanism : Session!Mechanism \cup {None}, flag : Session!Flag \cup {None},
                    final : Session!Final \cup {None}]
    OBVIOUS
  <2>3. sent \in Seq(Session!Sent)
    OBVIOUS
  <2> QED
    BY <2>1, <2>2, <2>3 DEF Session!Types
<1>2. Session!OneWay
  BY DEF Session!OneWay, Session!Clear, Session!Proving, Session!Done, Session!Out,
     Session!Nobody
<1>3. Session!ProofIsKept /\ Session!BindingIsKept
  BY DEF Session!ProofIsKept, Session!BindingIsKept
<1>4. Session!SentInOrder /\ Session!NothingInClearAfterS
  BY DEF Session!SentInOrder, Session!NothingInClearAfterS
<1> QED
  BY <1>1, <1>2, <1>3, <1>4 DEF Session!IInv

LEMMA SessionRestKeeps ==
    ASSUME Session!IInv, UNCHANGED Session!vars
    PROVE  Session!IInv'
<1> USE DEF Session!IInv, Session!vars, Session!wireVars, Session!identityVars,
    Session!outcomeVars
<1>1. Session!Types' /\ Session!OneWay'
  BY DEF Session!Types, Session!OneWay
<1>2. Session!ProofIsKept' /\ Session!BindingIsKept'
  BY DEF Session!ProofIsKept, Session!BindingIsKept
<1>3. Session!SentInOrder' /\ Session!NothingInClearAfterS'
  BY DEF Session!SentInOrder, Session!NothingInClearAfterS
<1> QED
  BY <1>1, <1>2, <1>3

LEMMA SessionStepKeeps ==
    ASSUME Session!IInv, [Session!Next]_Session!vars
    PROVE  Session!IInv'
<1>1. CASE Session!SessionStep
  BY <1>1, SessionSliceKeeps, SessionHandshakeKeeps, SessionSendKeeps, SessionReadInitialKeeps,
     SessionReadSecondKeeps, SessionReadFirstKeeps, SessionReadFinalKeeps, SessionReserveKeeps,
     SessionEndKeeps DEF Session!SessionStep
<1>2. CASE Session!TimePasses \/ Session!RequestStop
  BY <1>2, SessionSurroundingsKeep
<1>3. CASE Session!Ended \/ UNCHANGED Session!vars
  BY <1>3, SessionRestKeeps DEF Session!Ended
<1> QED
  BY <1>1, <1>2, <1>3 DEF Session!Next

LEMMA SessionIsSound == Session!IInv => Session!SessionSound
<1> SUFFICES ASSUME Session!IInv
             PROVE  Session!SessionSound
  OBVIOUS
<1>1. Session!ReadyIsEarned
  <2> SUFFICES ASSUME NEW i \in 1..Len(sent), sent[i].message = "ReadyForQuery"
               PROVE  /\ client.user = "principal" /\ client.alias = "accepted"
                      /\ client.final # None
                      /\ client.final.binding /\ client.final.nonce /\ client.final.proof
                      /\ reserved
                      /\ config.required => channel = "tls"
    BY DEF Session!ReadyIsEarned, Session!Messages
  <2>1. admitted /\ reserved /\ proven
    BY DEF Session!IInv, Session!SentInOrder, Session!OneWay
  <2> QED
    BY <2>1 DEF Session!IInv, Session!OneWay, Session!ProofIsKept
<1>2. Session!RefusalsLookTheSame
  BY DEF Session!IInv, Session!OneWay, Session!SentInOrder, Session!RefusalsLookTheSame
<1>3. Session!EncryptionKept
  BY DEF Session!IInv, Session!OneWay, Session!BindingIsKept, Session!EncryptionKept,
     Session!NoDowngrade
<1> QED
  BY <1>1, <1>2, <1>3 DEF Session!SessionSound

-----------------------------------------------------------------------------
(* The work queue of the administration *)

(* Workers start, serve and end *)
LEMMA QueueStartKeeps ==
    ASSUME Queue!IInv, NEW w \in Worker,
           Queue!StartWorker(w) \/ Queue!Enter(w)
    PROVE  /\ Queue!IInv'
           /\ \A v \in Worker : place[v] = "top" /\ place'[v] = "running" /\ broken => blocked
<1> USE DEF Queue!IInv, Queue!queueVars, Queue!marks, Queue!startVars, Queue!drainVars,
    Queue!workerVars, Queue!WakeAll, Queue!WakeOne, Queue!Serving
<1>1. Queue!Types'
  <2>1. CASE Queue!StartWorker(w)
    BY <2>1 DEF Queue!StartWorker, Queue!Types, Queue!Types
  <2>2. CASE Queue!Enter(w)
    BY <2>2 DEF Queue!Enter, Queue!Types, Queue!Types
  <2> QED
    BY <2>1, <2>2
<1>2. Queue!AcceptedIsTicket'
  BY DEF Queue!StartWorker, Queue!Enter, Queue!Types, Queue!AcceptedIsTicket
<1>3. Queue!IdleHasNoThread'
  BY DEF Queue!StartWorker, Queue!Enter, Queue!Types, Queue!IdleHasNoThread
<1>4. Queue!DrainComesLast'
  BY DEF Queue!StartWorker, Queue!Enter, Queue!Types, Queue!DrainComesLast
<1>5. Queue!FailureIsContained'
  BY DEF Queue!StartWorker, Queue!Enter, Queue!Types, Queue!FailureIsContained
<1>6. Queue!DrainedIsQuiet'
  BY DEF Queue!StartWorker, Queue!Enter, Queue!Types, Queue!AcceptedIsTicket,
     Queue!IdleHasNoThread, Queue!DrainComesLast, Queue!DrainedIsQuiet
<1>7. \A v \in Worker : place[v] = "top" /\ place'[v] = "running" /\ broken => blocked
  BY DEF Queue!StartWorker, Queue!Enter, Queue!Types, Queue!FailureIsContained, Queue!MustWait
<1> QED
  BY <1>1, <1>2, <1>3, <1>4, <1>5, <1>6, <1>7

LEMMA QueueServeKeeps ==
    ASSUME Queue!IInv, NEW w \in Worker,
           Queue!Wait(w) \/ Queue!Exit(w) \/ Queue!Dispatch(w) \/ Queue!JobReturns(w)
           \/ Queue!JobRaises(w) \/ Queue!Break(w)
    PROVE  /\ Queue!IInv'
           /\ \A v \in Worker : place[v] = "top" /\ place'[v] = "running" /\ broken => blocked
<1> USE DEF Queue!IInv, Queue!queueVars, Queue!marks, Queue!startVars, Queue!drainVars,
    Queue!workerVars, Queue!WakeAll, Queue!WakeOne, Queue!Serving
<1>1. Queue!Types'
  <2>1. CASE Queue!Wait(w)
    BY <2>1 DEF Queue!Wait, Queue!Types, Queue!Types
  <2>2. CASE Queue!Exit(w)
    BY <2>2 DEF Queue!Exit, Queue!Types, Queue!Types
  <2>3. CASE Queue!Dispatch(w)
    BY <2>3 DEF Queue!Dispatch, Queue!Types, Queue!Types
  <2>4. CASE Queue!JobReturns(w)
    BY <2>4 DEF Queue!JobReturns, Queue!Types, Queue!Types
  <2>5. CASE Queue!JobRaises(w)
    BY <2>5 DEF Queue!JobRaises, Queue!Types, Queue!Types
  <2>6. CASE Queue!Break(w)
    BY <2>6 DEF Queue!Break, Queue!Types, Queue!Types
  <2> QED
    BY <2>1, <2>2, <2>3, <2>4, <2>5, <2>6
<1>2. Queue!AcceptedIsTicket'
  BY DEF Queue!Wait, Queue!Exit, Queue!Dispatch, Queue!JobReturns, Queue!JobRaises, Queue!Break,
     Queue!Types, Queue!AcceptedIsTicket
<1>3. Queue!IdleHasNoThread'
  BY DEF Queue!Wait, Queue!Exit, Queue!Dispatch, Queue!JobReturns, Queue!JobRaises, Queue!Break,
     Queue!Types, Queue!IdleHasNoThread
<1>4. Queue!DrainComesLast'
  BY DEF Queue!Wait, Queue!Exit, Queue!Dispatch, Queue!JobReturns, Queue!JobRaises, Queue!Break,
     Queue!Types, Queue!DrainComesLast
<1>5. Queue!FailureIsContained'
  BY DEF Queue!Wait, Queue!Exit, Queue!Dispatch, Queue!JobReturns, Queue!JobRaises, Queue!Break,
     Queue!Types, Queue!FailureIsContained
<1>6. Queue!DrainedIsQuiet'
  BY DEF Queue!Wait, Queue!Exit, Queue!Dispatch, Queue!JobReturns, Queue!JobRaises, Queue!Break,
     Queue!Types, Queue!AcceptedIsTicket, Queue!IdleHasNoThread, Queue!DrainComesLast,
     Queue!DrainedIsQuiet
<1>7. \A v \in Worker : place[v] = "top" /\ place'[v] = "running" /\ broken => blocked
  BY DEF Queue!Wait, Queue!Exit, Queue!Dispatch, Queue!JobReturns, Queue!JobRaises, Queue!Break,
     Queue!Types, Queue!FailureIsContained, Queue!MustWait
<1> QED
  BY <1>1, <1>2, <1>3, <1>4, <1>5, <1>6, <1>7

LEMMA QueueContainKeeps ==
    ASSUME Queue!IInv, NEW w \in Worker,
           Queue!Contain(w) \/ Queue!Complete(w)
    PROVE  /\ Queue!IInv'
           /\ \A v \in Worker : place[v] = "top" /\ place'[v] = "running" /\ broken => blocked
<1> USE DEF Queue!IInv, Queue!queueVars, Queue!marks, Queue!startVars, Queue!drainVars,
    Queue!workerVars, Queue!WakeAll, Queue!WakeOne, Queue!Serving
<1>1. Queue!Types'
  <2>1. CASE Queue!Contain(w)
    BY <2>1 DEF Queue!Contain, Queue!Types, Queue!Types
  <2>2. CASE Queue!Complete(w)
    BY <2>2 DEF Queue!Complete, Queue!Types, Queue!Types
  <2> QED
    BY <2>1, <2>2
<1>2. Queue!AcceptedIsTicket'
  BY DEF Queue!Contain, Queue!Complete, Queue!Types, Queue!AcceptedIsTicket
<1>3. Queue!IdleHasNoThread'
  BY DEF Queue!Contain, Queue!Complete, Queue!Types, Queue!IdleHasNoThread
<1>4. Queue!DrainComesLast'
  BY DEF Queue!Contain, Queue!Complete, Queue!Types, Queue!DrainComesLast
<1>5. Queue!FailureIsContained'
  BY DEF Queue!Contain, Queue!Complete, Queue!Types, Queue!FailureIsContained
<1>6. Queue!DrainedIsQuiet'
  BY DEF Queue!Contain, Queue!Complete, Queue!Types, Queue!AcceptedIsTicket,
     Queue!IdleHasNoThread, Queue!DrainComesLast, Queue!DrainedIsQuiet
<1>7. \A v \in Worker : place[v] = "top" /\ place'[v] = "running" /\ broken => blocked
  BY DEF Queue!Contain, Queue!Complete, Queue!Types, Queue!FailureIsContained, Queue!MustWait
<1> QED
  BY <1>1, <1>2, <1>3, <1>4, <1>5, <1>6, <1>7

LEMMA QueueJoinKeeps ==
    ASSUME Queue!IInv, NEW w \in Worker,
           Queue!Cancel(w) \/ Queue!Join(w)
    PROVE  /\ Queue!IInv'
           /\ \A v \in Worker : place[v] = "top" /\ place'[v] = "running" /\ broken => blocked
<1> USE DEF Queue!IInv, Queue!queueVars, Queue!marks, Queue!startVars, Queue!drainVars,
    Queue!workerVars, Queue!WakeAll, Queue!WakeOne, Queue!Serving, Queue!Settled, Queue!Joinable
<1>1. Queue!Types'
  BY DEF Queue!Cancel, Queue!Join, Queue!Types, Queue!Types
<1>2. Queue!AcceptedIsTicket'
  BY DEF Queue!Cancel, Queue!Join, Queue!Types, Queue!AcceptedIsTicket
<1>3. Queue!IdleHasNoThread'
  BY DEF Queue!Cancel, Queue!Join, Queue!Types, Queue!IdleHasNoThread
<1>4. Queue!DrainComesLast'
  BY DEF Queue!Cancel, Queue!Join, Queue!Types, Queue!DrainComesLast
<1>5. Queue!FailureIsContained'
  BY DEF Queue!Cancel, Queue!Join, Queue!Types, Queue!FailureIsContained
<1>6. Queue!DrainedIsQuiet'
  BY DEF Queue!Cancel, Queue!Join, Queue!Types, Queue!AcceptedIsTicket, Queue!IdleHasNoThread,
     Queue!DrainComesLast, Queue!DrainedIsQuiet
<1>7. \A v \in Worker : place[v] = "top" /\ place'[v] = "running" /\ broken => blocked
  BY DEF Queue!Cancel, Queue!Join, Queue!Types, Queue!FailureIsContained, Queue!MustWait
<1> QED
  BY <1>1, <1>2, <1>3, <1>4, <1>5, <1>6, <1>7

LEMMA QueueSubmitKeeps ==
    ASSUME Queue!IInv, NEW t \in Ticket,
           Queue!Submit(t)
    PROVE  /\ Queue!IInv'
           /\ \A v \in Worker : place[v] = "top" /\ place'[v] = "running" /\ broken => blocked
<1> USE DEF Queue!IInv, Queue!queueVars, Queue!marks, Queue!startVars, Queue!drainVars,
    Queue!workerVars, Queue!WakeAll, Queue!WakeOne, Queue!Serving
<1>1. Queue!Types'
  BY DEF Queue!Submit, Queue!Types, Queue!Types
<1>2. Queue!AcceptedIsTicket'
  BY DEF Queue!Submit, Queue!Types, Queue!AcceptedIsTicket
<1>3. Queue!IdleHasNoThread'
  BY DEF Queue!Submit, Queue!Types, Queue!IdleHasNoThread
<1>4. Queue!DrainComesLast'
  BY DEF Queue!Submit, Queue!Types, Queue!DrainComesLast
<1>5. Queue!FailureIsContained'
  BY DEF Queue!Submit, Queue!Types, Queue!FailureIsContained
<1>6. Queue!DrainedIsQuiet'
  BY DEF Queue!Submit, Queue!Types, Queue!AcceptedIsTicket, Queue!IdleHasNoThread,
     Queue!DrainComesLast, Queue!DrainedIsQuiet
<1>7. \A v \in Worker : place[v] = "top" /\ place'[v] = "running" /\ broken => blocked
  BY DEF Queue!Submit, Queue!Types, Queue!FailureIsContained, Queue!MustWait
<1> QED
  BY <1>1, <1>2, <1>3, <1>4, <1>5, <1>6, <1>7

(* The admission and the drain *)
LEMMA QueueDrainKeeps ==
    ASSUME Queue!IInv,
           Queue!CloseAdmission \/ Queue!Drain \/ Queue!DrainEnds
    PROVE  /\ Queue!IInv'
           /\ \A v \in Worker : place[v] = "top" /\ place'[v] = "running" /\ broken => blocked
<1> USE DEF Queue!IInv, Queue!queueVars, Queue!marks, Queue!startVars, Queue!drainVars,
    Queue!workerVars, Queue!WakeAll, Queue!WakeOne, Queue!Serving, Queue!Settled
<1>1. Queue!Types'
  <2>1. CASE Queue!CloseAdmission
    BY <2>1 DEF Queue!CloseAdmission, Queue!Types, Queue!Types
  <2>2. CASE Queue!Drain
    BY <2>2 DEF Queue!Drain, Queue!Types, Queue!Types
  <2>3. CASE Queue!DrainEnds
    BY <2>3 DEF Queue!DrainEnds, Queue!Types, Queue!Types
  <2> QED
    BY <2>1, <2>2, <2>3
<1>2. Queue!AcceptedIsTicket'
  BY DEF Queue!CloseAdmission, Queue!Drain, Queue!DrainEnds, Queue!Types, Queue!AcceptedIsTicket
<1>3. Queue!IdleHasNoThread'
  BY DEF Queue!CloseAdmission, Queue!Drain, Queue!DrainEnds, Queue!Types, Queue!IdleHasNoThread
<1>4. Queue!DrainComesLast'
  BY DEF Queue!CloseAdmission, Queue!Drain, Queue!DrainEnds, Queue!Types, Queue!DrainComesLast
<1>5. Queue!FailureIsContained'
  BY DEF Queue!CloseAdmission, Queue!Drain, Queue!DrainEnds, Queue!Types,
     Queue!FailureIsContained
<1>6. Queue!DrainedIsQuiet'
  BY DEF Queue!CloseAdmission, Queue!Drain, Queue!DrainEnds, Queue!Types,
     Queue!AcceptedIsTicket, Queue!IdleHasNoThread, Queue!DrainComesLast, Queue!DrainedIsQuiet
<1>7. \A v \in Worker : place[v] = "top" /\ place'[v] = "running" /\ broken => blocked
  BY DEF Queue!CloseAdmission, Queue!Drain, Queue!DrainEnds, Queue!Types,
     Queue!FailureIsContained, Queue!MustWait
<1> QED
  BY <1>1, <1>2, <1>3, <1>4, <1>5, <1>6, <1>7

LEMMA QueueInitial == Queue!Init => Queue!IInv
  BY DEF Queue!Init, Queue!IInv, Queue!Types, Queue!AcceptedIsTicket, Queue!IdleHasNoThread,
     Queue!DrainComesLast, Queue!FailureIsContained, Queue!DrainedIsQuiet

LEMMA QueueStep ==
    ASSUME Queue!IInv, [Queue!Next]_Queue!vars
    PROVE  /\ Queue!IInv'
           /\ \A v \in Worker : place[v] = "top" /\ place'[v] = "running" /\ broken => blocked
<1>1. CASE \E w \in Worker : Queue!StartWorker(w) \/ Queue!ServeStep(w)
  BY <1>1, QueueStartKeeps, QueueServeKeeps, QueueContainKeeps DEF Queue!ServeStep
<1>2. CASE \E t \in Ticket : Queue!Submit(t)
  BY <1>2, QueueSubmitKeeps
<1>3. CASE Queue!CloseAdmission \/ Queue!Drain \/ Queue!DrainStep
  BY <1>3, QueueDrainKeeps, QueueJoinKeeps DEF Queue!DrainStep
<1>4. CASE UNCHANGED Queue!vars
  BY <1>4 DEF Queue!vars, Queue!IInv, Queue!queueVars, Queue!marks, Queue!startVars,
     Queue!drainVars, Queue!workerVars, Queue!Types, Queue!AcceptedIsTicket,
     Queue!IdleHasNoThread, Queue!DrainComesLast, Queue!FailureIsContained, Queue!DrainedIsQuiet
<1> QED
  BY <1>1, <1>2, <1>3, <1>4 DEF Queue!Next

-----------------------------------------------------------------------------
(* All of them *)

(* A step of the whole is a step of each part, or leaves it alone. *)
LEMMA PartsMove ==
    ASSUME [PartsNext]_partVars
    PROVE  /\ [Behind!Next]_Behind!vars
           /\ [Receiver!Next]_Receiver!vars
           /\ [Session!Next]_Session!vars
           /\ [Queue!Next]_Queue!vars
<1> USE DEF PartsNext, partVars, OnlyListener, OnlyWorker, OnlyReceiver, OnlySession, OnlyQueue,
    OnlyReader
<1>1. [Behind!Next]_Behind!vars
  BY DEF workerVars, Behind!vars, Behind!handleVars, Behind!callVars, Behind!wireVars
<1>2. [Receiver!Next]_Receiver!vars
  BY DEF receiverVars, Receiver!vars, Receiver!receiverVars, Receiver!threadVars,
     Receiver!worldVars
<1>3. [Session!Next]_Session!vars
  BY DEF sessionVars, Session!vars, Session!wireVars, Session!identityVars, Session!outcomeVars
<1>4. [Queue!Next]_Queue!vars
  BY DEF queueVars, Queue!vars, Queue!queueVars, Queue!marks, Queue!startVars,
     Queue!workerVars, Queue!drainVars
<1> QED
  BY <1>1, <1>2, <1>3, <1>4

(***************************************************************************)
(* For any number of jobs, threads and calls: a session's credits go back  *)
(* only when its child is reaped and everything it held is gone, no answer *)
(* of a worker is taken for another job's, the memory of a result stays    *)
(* pinned while anything refers to it, and nothing invalid is sent         *)
(* (worker_session.py: query, _cleanup; worker_process.py: _loop;          *)
(* result_receiver.py: receive, send_to, close).                           *)
(***************************************************************************)
THEOREM ResultsCorrect == FairParts => []ResultsSound
<1> DEFINE Inv == Behind!IInv /\ Receiver!IInv
<1>1. PartsInit => Inv
  BY WorkerInitial, ReceiverInitial DEF PartsInit
<1>2. Inv /\ [PartsNext]_partVars => Inv'
  BY PartsMove, WorkerStep, ReceiverStep
<1>3. Inv => ResultsSound
  BY WorkerIsSound DEF ResultsSound, Receiver!IInv
<1> QED
  BY <1>1, <1>2, <1>3, PTL DEF FairParts

(***************************************************************************)
(* For any number of rounds of the handshake and whatever the client       *)
(* sends: ReadyForQuery is earned by the principal, its proof, an accepted *)
(* alias and a session slot, refusals tell nothing apart, and neither      *)
(* encryption nor channel binding is taken away (driver.py: _drive,        *)
(* _negotiate, _authenticate, _report; scram.py: client_first,             *)
(* client_final).                                                          *)
(***************************************************************************)
THEOREM SessionCorrect == FairParts => []SessionSound
<1>1. PartsInit => Session!IInv
  BY SessionInitial DEF PartsInit
<1>2. Session!IInv /\ [PartsNext]_partVars => Session!IInv'
  BY PartsMove, SessionStepKeeps
<1>3. Session!IInv => SessionSound
  BY SessionIsSound DEF SessionSound
<1> QED
  BY <1>1, <1>2, <1>3, PTL DEF FairParts

(***************************************************************************)
(* For any workers and tickets, with failing starts, jobs and              *)
(* containments: when drain() says True nothing accepted is open and no    *)
(* worker runs, and once a job has failed no other is executed unless the  *)
(* coordinator is blocked (admin_work.py: start, submit, _serve, _contain, *)
(* drain).                                                                 *)
(***************************************************************************)
THEOREM QueueCorrect == FairParts => QueueSound
<1>1. PartsInit => Queue!IInv
  BY QueueInitial DEF PartsInit
<1>2. Queue!IInv /\ [PartsNext]_partVars => Queue!IInv'
  BY PartsMove, QueueStep
<1>3. Queue!IInv /\ [PartsNext]_partVars =>
        [\A w \in Worker :
          (place[w] = "top" /\ place'[w] = "running" /\ broken) => blocked]_Queue!vars
  BY PartsMove, QueueStep
<1>4. Queue!IInv => Queue!DrainedIsQuiet
  BY DEF Queue!IInv
<1>5. FairParts => []Queue!IInv
  BY <1>1, <1>2, PTL DEF FairParts
<1>6. FairParts => Queue!NothingRunsUncontained
  BY <1>3, <1>5, PTL DEF FairParts, Queue!NothingRunsUncontained
<1> QED
  BY <1>4, <1>5, <1>6, PTL DEF QueueSound, Queue!QueueSound
=============================================================================
