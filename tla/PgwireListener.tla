--------------------------- MODULE PgwireListener ---------------------------
(***************************************************************************)
(* The PGWire listener, maskgw/pgwire/listener.py: admission, ownership of *)
(* threads and sockets, and the stop with physical proof.                  *)
(*                                                                         *)
(* One acceptor thread and one worker thread per connection.  A thread is  *)
(* adopted before it is started; its owner records what it attempted       *)
(* (state), the thread records that it entered (ran), and either may come  *)
(* first.  A start may fail without a thread, or be interrupted with the   *)
(* thread alive.  Only the reaper closes the sockets of connections and    *)
(* frees their slots, and only with proof that the worker is gone.         *)
(***************************************************************************)
EXTENDS Naturals, FiniteSets

CONSTANTS
    Conn,          \* connections the system accepts, each once
    NoConn,
    PreAuthSlots,  \* limits.pre_auth_slots
    SessionSlots,  \* settings.max_sessions
    Burst,         \* limits.admission_burst
    Faults,        \* of "start", "close", "bind", "accept", "admit"
    EarlyStop      \* may stop be called while start() is in flight?

(* Finitely many connections; slots and tokens are counted in naturals. *)
ASSUME ListenerAssumption ==
    /\ IsFiniteSet(Conn) /\ NoConn \notin Conn
    /\ PreAuthSlots \in Nat /\ SessionSlots \in Nat /\ Burst \in Nat
    /\ EarlyStop \in BOOLEAN

VARIABLES
    state,      \* ListenerState
    stopEvent,  \* the _stop event
    socket,     \* listening socket: none, open, closed, failed (to close)
    startPc,    \* where start() is; in flight unless "new" or "done"
    acceptor,   \* the acceptor's _Owned
    acceptPc,   \* where the acceptor is
    accepted,   \* the connection it is admitting
    owned,      \* connection -> its worker's _Owned
    sock,       \* connection -> none, open, closed, failed
    records,    \* _connections
    retained,   \* _retained
    authenticated,  \* records promoted to authenticated
    preAuth, auth,  \* the two counters
    tokens,     \* tokens of the admission bucket
    stopPc,     \* where stop() is
    proved      \* what stop() has proved before its last section

threadVars == <<acceptor, acceptPc, accepted>>
connVars == <<owned, sock, records, retained, authenticated, preAuth, auth>>
vars == <<state, stopEvent, socket, startPc, threadVars, connVars, tokens, stopPc, proved>>

States == {"new", "starting", "running", "broken", "stopping", "stopped", "incomplete"}
Sockets == {"none", "open", "closed", "failed"}

(* thread: none, born (exists, has not entered), in (runs its body), ended *)
Owned == [state : {"idle", "starting", "started"}, ran : BOOLEAN, cancelled : BOOLEAN,
          thread : {"none", "born", "in", "ended"}]

TypeOK ==
    /\ state \in States
    /\ stopEvent \in BOOLEAN
    /\ socket \in Sockets
    /\ startPc \in {"new", "bind", "decide", "launch", "launched", "failed", "done"}
    /\ acceptor \in Owned
    /\ acceptPc \in {"reap", "check", "accept", "admit", "launch", "launched", "failed"}
    /\ accepted \in Conn \cup {NoConn}
    /\ owned \in [Conn -> Owned]
    /\ sock \in [Conn -> Sockets]
    /\ records \subseteq Conn
    /\ retained \subseteq Conn
    /\ authenticated \subseteq Conn
    /\ preAuth \in 0 .. PreAuthSlots
    /\ auth \in 0 .. SessionSlots
    /\ tokens \in 0 .. Burst
    /\ stopPc \in {"no", "cancel", "joinAcceptor", "cancelAll", "joinAll", "reap", "close",
                   "prove", "end"}
    /\ proved \in BOOLEAN

(* _Owned.__init__ *)
Adopted == [state |-> "idle", ran |-> FALSE, cancelled |-> FALSE, thread |-> "none"]

Init ==
    /\ state = "new"
    /\ stopEvent = FALSE
    /\ socket = "none"
    /\ startPc = "new"
    /\ acceptor = Adopted
    /\ acceptPc = "reap"
    /\ accepted = NoConn
    /\ owned = [c \in Conn |-> Adopted]
    /\ sock = [c \in Conn |-> "none"]
    /\ records = {}
    /\ retained = {}
    /\ authenticated = {}
    /\ preAuth = 0
    /\ auth = 0
    /\ tokens = Burst
    /\ stopPc = "no"
    /\ proved = FALSE

-----------------------------------------------------------------------------
(* Ownership of one thread. *)

(* settled() cancels a thread that neither entered nor is known started. *)
Cancelled(o) ==
    IF ~o.ran /\ o.state # "started" THEN [o EXCEPT !.cancelled = TRUE] ELSE o

Settled(o) == o.state = "idle" \/ o.thread = "ended"

(* cancelled_before_entering *)
NeverEnters(o) == o.cancelled /\ ~o.ran

Joinable(o) == o.state = "started" \/ o.ran \/ o.thread = "ended"

JoinReturns(o) == Joinable(o) => o.thread = "ended"

(* _Owned.start, the attempt: the thread is born, or the call fails with   *)
(* or without it.                                                          *)
Attempt(o) == [o EXCEPT !.state = "starting", !.thread = "born"]

FailedAttempts(o) == {Attempt(o), [o EXCEPT !.state = "starting"]}

(* _Owned.start, after the call. *)
Confirmed(o) == [o EXCEPT !.state = "started"]

FailedStart(o) == IF o.ran THEN o ELSE [o EXCEPT !.cancelled = TRUE]

(* _wrapper: a cancelled thread leaves without entering. *)
Entered(o) ==
    IF o.cancelled THEN [o EXCEPT !.thread = "ended"]
                   ELSE [o EXCEPT !.ran = TRUE, !.thread = "in"]

Ended(o) == [o EXCEPT !.thread = "ended"]

Broken(s) == IF s \in {"running", "starting"} THEN "broken" ELSE s

(* close() of a socket: it succeeds, or fails and is never tried again. *)
CloseOutcomes == {"closed"} \cup (IF "close" \in Faults THEN {"failed"} ELSE {})

-----------------------------------------------------------------------------
(* start() *)
Begin ==
    /\ startPc = "new"
    /\ state = "new"
    /\ state' = "starting"
    /\ startPc' = "bind"
    /\ UNCHANGED <<stopEvent, socket, threadVars, connVars, tokens, stopPc, proved>>

Bind ==
    /\ startPc = "bind"
    /\ socket' = "open"
    /\ startPc' = "decide"
    /\ UNCHANGED <<state, stopEvent, threadVars, connVars, tokens, stopPc, proved>>

(* The socket was not created, or was adopted and is closed here. *)
BindFails ==
    /\ "bind" \in Faults
    /\ startPc = "bind"
    /\ state' = IF state = "starting" THEN "incomplete" ELSE state
    /\ stopEvent' = TRUE
    /\ socket' \in {"none"} \cup CloseOutcomes
    /\ startPc' = "done"
    /\ UNCHANGED <<threadVars, connVars, tokens, stopPc, proved>>

(* A stop requested during the bind: the socket is closed here, unless     *)
(* stop() has closed it, and no acceptor is started.                       *)
Decide ==
    /\ startPc = "decide"
    /\ IF state = "starting" /\ ~stopEvent
       THEN /\ state' = "running"
            /\ startPc' = "launch"
            /\ UNCHANGED socket
       ELSE /\ socket' \in IF socket = "open" THEN CloseOutcomes ELSE {socket}
            /\ startPc' = "done"
            /\ UNCHANGED state
    /\ UNCHANGED <<stopEvent, threadVars, connVars, tokens, stopPc, proved>>

LaunchAcceptor ==
    /\ startPc = "launch"
    /\ \/ acceptor' = Attempt(acceptor) /\ startPc' = "launched"
       \/ "start" \in Faults /\ acceptor' \in FailedAttempts(acceptor) /\ startPc' = "failed"
    /\ UNCHANGED <<state, stopEvent, socket, acceptPc, accepted, connVars, tokens, stopPc,
                   proved>>

AcceptorLaunched ==
    /\ startPc = "launched"
    /\ acceptor' = Confirmed(acceptor)
    /\ startPc' = "done"
    /\ UNCHANGED <<state, stopEvent, socket, acceptPc, accepted, connVars, tokens, stopPc,
                   proved>>

AcceptorFailed ==
    /\ startPc = "failed"
    /\ acceptor' = FailedStart(acceptor)
    /\ state' = Broken(state)
    /\ stopEvent' = TRUE
    /\ startPc' = "done"
    /\ UNCHANGED <<socket, acceptPc, accepted, connVars, tokens, stopPc, proved>>

-----------------------------------------------------------------------------
(* _reap: closes the sockets of the workers that ended or never enter, and *)
(* frees the records with both proofs.  The outcomes of the closes are in  *)
(* after.                                                                  *)
Frees(o, closed) == Settled(o) /\ closed

Closes(o) == Settled(o) \/ NeverEnters(o)

Reap ==
    LET settledOwned == [c \in Conn |-> IF c \in records THEN Cancelled(owned[c]) ELSE owned[c]]
        closing == {c \in records : Closes(settledOwned[c]) /\ sock[c] = "open"}
    IN  \E after \in [closing -> CloseOutcomes] :
            LET sockAfter == [c \in Conn |-> IF c \in closing THEN after[c] ELSE sock[c]]
                freed == {c \in records : Frees(settledOwned[c], sockAfter[c] = "closed")}
            IN  /\ owned' = settledOwned
                /\ sock' = sockAfter
                /\ records' = records \ freed
                /\ authenticated' = authenticated \ freed
                /\ auth' = auth - Cardinality(freed \cap authenticated)
                /\ preAuth' = preAuth - Cardinality(freed \ authenticated)
                /\ state' = IF \E c \in closing : after[c] = "failed"
                            THEN Broken(state) ELSE state
                /\ UNCHANGED retained

-----------------------------------------------------------------------------
(* The acceptor. *)
At(place) == acceptor.thread = "in" /\ acceptPc = place

EnterAcceptor ==
    /\ acceptor.thread = "born"
    /\ acceptor' = Entered(acceptor)
    /\ UNCHANGED <<state, stopEvent, socket, startPc, acceptPc, accepted, connVars, tokens,
                   stopPc, proved>>

(* A turn of the loop reaps first; the last one, after the stop, too. *)
AcceptorReaps ==
    /\ At("reap")
    /\ Reap
    /\ IF stopEvent THEN acceptor' = Ended(acceptor) /\ UNCHANGED acceptPc
                    ELSE acceptPc' = "check" /\ UNCHANGED acceptor
    /\ UNCHANGED <<stopEvent, socket, startPc, accepted, tokens, stopPc, proved>>

Check ==
    /\ At("check")
    /\ acceptPc' = IF state = "running" THEN "accept" ELSE "reap"
    /\ UNCHANGED <<state, stopEvent, socket, startPc, acceptor, accepted, connVars, tokens,
                   stopPc, proved>>

Accept(c) ==
    /\ At("accept")
    /\ socket = "open"
    /\ sock[c] = "none"
    /\ sock' = [sock EXCEPT ![c] = "open"]
    /\ accepted' = c
    /\ acceptPc' = "admit"
    /\ UNCHANGED <<state, stopEvent, socket, startPc, acceptor, owned, records, retained,
                   authenticated, preAuth, auth, tokens, stopPc, proved>>

(* accept() times out, or fails: the listener is then broken. *)
AcceptNothing ==
    /\ At("accept")
    /\ acceptPc' = "reap"
    /\ state' \in {state} \cup (IF "accept" \in Faults THEN {Broken(state)} ELSE {})
    /\ UNCHANGED <<stopEvent, socket, startPc, acceptor, accepted, connVars, tokens, stopPc,
                   proved>>

(* The socket of a connection without a record is closed, or retained. *)
Release(c) ==
    /\ \E result \in CloseOutcomes :
        /\ sock' = [sock EXCEPT ![c] = result]
        /\ retained' = IF result = "failed" THEN retained \cup {c} ELSE retained
    /\ UNCHANGED <<owned, records, authenticated, preAuth, auth>>

HasPreAuthSlot == preAuth < PreAuthSlots

(* _admit: the token is taken before the slot is looked at; _refuse breaks *)
(* the listener when it cannot close the socket.                           *)
Admit ==
    /\ At("admit")
    /\ tokens' = IF state = "running" /\ tokens > 0 THEN tokens - 1 ELSE tokens
    /\ IF state = "running" /\ tokens > 0 /\ HasPreAuthSlot
       THEN /\ records' = records \cup {accepted}
            /\ preAuth' = preAuth + 1
            /\ acceptPc' = "launch"
            /\ UNCHANGED <<state, accepted, owned, sock, retained, authenticated, auth>>
       ELSE /\ Release(accepted)
            /\ state' = IF sock'[accepted] = "failed" THEN Broken(state) ELSE state
            /\ accepted' = NoConn
            /\ acceptPc' = "reap"
    /\ UNCHANGED <<stopEvent, socket, startPc, acceptor, stopPc, proved>>

(* The thread factory fails: the token is spent, and the connection is     *)
(* refused without a record.                                               *)
FactoryFails ==
    /\ "start" \in Faults
    /\ At("admit")
    /\ state = "running" /\ tokens > 0 /\ HasPreAuthSlot
    /\ tokens' = tokens - 1
    /\ Release(accepted)
    /\ state' = IF sock'[accepted] = "failed" THEN Broken(state) ELSE state
    /\ accepted' = NoConn
    /\ acceptPc' = "reap"
    /\ UNCHANGED <<stopEvent, socket, startPc, acceptor, stopPc, proved>>

(* An unexpected failure of the admission. *)
AdmitFails ==
    /\ "admit" \in Faults
    /\ At("admit")
    /\ Release(accepted)
    /\ state' = Broken(state)
    /\ accepted' = NoConn
    /\ acceptPc' = "reap"
    /\ UNCHANGED <<stopEvent, socket, startPc, acceptor, tokens, stopPc, proved>>

LaunchWorker ==
    /\ At("launch")
    /\ \/ /\ owned' = [owned EXCEPT ![accepted] = Attempt(@)]
          /\ acceptPc' = "launched"
       \/ /\ "start" \in Faults
          /\ \E o \in FailedAttempts(owned[accepted]) :
                owned' = [owned EXCEPT ![accepted] = o]
          /\ acceptPc' = "failed"
    /\ UNCHANGED <<state, stopEvent, socket, startPc, acceptor, accepted, sock, records,
                   retained, authenticated, preAuth, auth, tokens, stopPc, proved>>

WorkerLaunched ==
    /\ At("launched") \/ At("failed")
    /\ owned' = [owned EXCEPT ![accepted] =
                    IF acceptPc = "launched" THEN Confirmed(@) ELSE FailedStart(@)]
    /\ state' = IF acceptPc = "failed" THEN Broken(state) ELSE state
    /\ accepted' = NoConn
    /\ acceptPc' = "reap"
    /\ UNCHANGED <<stopEvent, socket, startPc, acceptor, sock, records, retained,
                   authenticated, preAuth, auth, tokens, stopPc, proved>>

(* An unexpected exception of the loop itself: the acceptor leaves without *)
(* its last reap, and what it left is for stop() to reap.                  *)
AcceptLoopBreaks ==
    /\ "accept" \in Faults
    /\ At("reap") \/ At("check")
    /\ acceptor' = Ended(acceptor)
    /\ acceptPc' = "reap"
    /\ state' = Broken(state)
    /\ UNCHANGED <<stopEvent, socket, startPc, accepted, connVars, tokens, stopPc, proved>>

(* The bucket refills with time. *)
Refill ==
    /\ tokens < Burst
    /\ tokens' = tokens + 1
    /\ UNCHANGED <<state, stopEvent, socket, startPc, threadVars, connVars, stopPc, proved>>

-----------------------------------------------------------------------------
(* The worker of a connection. *)
EnterWorker(c) ==
    /\ owned[c].thread = "born"
    /\ owned' = [owned EXCEPT ![c] = Entered(@)]
    /\ UNCHANGED <<state, stopEvent, socket, startPc, threadVars, sock, records, retained,
                   authenticated, preAuth, auth, tokens, stopPc, proved>>

HasSessionSlot == auth < SessionSlots

(* _promote, called by the driver after the proof of the client. *)
Promote(c) ==
    /\ owned[c].thread = "in"
    /\ c \notin authenticated
    /\ state = "running" /\ ~stopEvent
    /\ HasSessionSlot
    /\ auth' = auth + 1
    /\ preAuth' = preAuth - 1
    /\ authenticated' = authenticated \cup {c}
    /\ UNCHANGED <<state, stopEvent, socket, startPc, threadVars, owned, sock, records,
                   retained, tokens, stopPc, proved>>

(* The session ends: served, refused, timed out, stopped. *)
EndWorker(c) ==
    /\ owned[c].thread = "in"
    /\ owned' = [owned EXCEPT ![c] = Ended(@)]
    /\ UNCHANGED <<state, stopEvent, socket, startPc, threadVars, sock, records, retained,
                   authenticated, preAuth, auth, tokens, stopPc, proved>>

-----------------------------------------------------------------------------
(* request_stop() and stop(), one caller at a time. *)
MayStop == EarlyStop \/ startPc \in {"new", "done"}

RequestStop ==
    /\ MayStop
    /\ stopPc = "no"
    /\ state' = CASE state = "new" -> "stopped"
                  [] state \in {"starting", "running", "broken"} -> "stopping"
                  [] OTHER -> state
    /\ stopEvent' = TRUE
    /\ UNCHANGED <<socket, startPc, threadVars, connVars, tokens, stopPc, proved>>

Stop ==
    /\ MayStop
    /\ stopPc = "no"
    /\ stopEvent' = TRUE
    /\ state' = IF state \in {"new", "stopped"} THEN "stopped" ELSE "stopping"
    /\ stopPc' = IF state = "new" THEN "no" ELSE "cancel"
    /\ UNCHANGED <<socket, startPc, threadVars, connVars, tokens, proved>>

StopMoves(from, to) == stopPc = from /\ stopPc' = to

CancelAcceptor ==
    /\ StopMoves("cancel", "joinAcceptor")
    /\ acceptor' = Cancelled(acceptor)
    /\ UNCHANGED <<state, stopEvent, socket, startPc, acceptPc, accepted, connVars, tokens,
                   proved>>

JoinAcceptor ==
    /\ StopMoves("joinAcceptor", "cancelAll")
    /\ JoinReturns(acceptor)
    /\ UNCHANGED <<state, stopEvent, socket, startPc, threadVars, connVars, tokens, proved>>

CancelWorkers ==
    /\ StopMoves("cancelAll", "joinAll")
    /\ owned' = [c \in Conn |-> IF c \in records THEN Cancelled(owned[c]) ELSE owned[c]]
    /\ UNCHANGED <<state, stopEvent, socket, startPc, threadVars, sock, records, retained,
                   authenticated, preAuth, auth, tokens, proved>>

JoinWorkers ==
    /\ StopMoves("joinAll", "reap")
    /\ \A c \in records : JoinReturns(owned[c])
    /\ UNCHANGED <<state, stopEvent, socket, startPc, threadVars, connVars, tokens, proved>>

StopReaps ==
    /\ StopMoves("reap", "close")
    /\ Reap
    /\ UNCHANGED <<stopEvent, socket, startPc, threadVars, tokens, proved>>

CloseListener ==
    /\ StopMoves("close", "prove")
    /\ socket' \in IF socket = "open" /\ Closes(acceptor) THEN CloseOutcomes ELSE {socket}
    /\ UNCHANGED <<state, stopEvent, startPc, threadVars, connVars, tokens, proved>>

Prove ==
    /\ StopMoves("prove", "end")
    /\ proved' = (Settled(acceptor) /\ socket \in {"none", "closed"} /\ retained = {})
    /\ UNCHANGED <<state, stopEvent, socket, startPc, threadVars, connVars, tokens>>

\* Faulty variant of Complete: records and a start in flight are not looked at.
CompleteIgnoringRecords == proved

Complete == proved /\ records = {} /\ startPc \in {"new", "done"}

EndStop ==
    /\ StopMoves("end", "no")
    /\ state' = IF Complete THEN "stopped" ELSE "incomplete"
    /\ proved' = FALSE
    /\ UNCHANGED <<stopEvent, socket, startPc, threadVars, connVars, tokens>>

-----------------------------------------------------------------------------
StartStep ==
    \/ Begin \/ Bind \/ BindFails \/ Decide
    \/ LaunchAcceptor \/ AcceptorLaunched \/ AcceptorFailed

AcceptorStep ==
    \/ EnterAcceptor \/ AcceptorReaps \/ Check \/ AcceptNothing
    \/ (\E c \in Conn : Accept(c))
    \/ Admit \/ FactoryFails \/ AdmitFails \/ LaunchWorker \/ WorkerLaunched
    \/ AcceptLoopBreaks

StopStep ==
    \/ CancelAcceptor \/ JoinAcceptor \/ CancelWorkers \/ JoinWorkers
    \/ StopReaps \/ CloseListener \/ Prove \/ EndStop

Next ==
    \/ StartStep \/ AcceptorStep \/ Refill
    \/ \E c \in Conn : EnterWorker(c) \/ Promote(c) \/ EndWorker(c)
    \/ RequestStop \/ Stop \/ StopStep

Spec == Init /\ [][Next]_vars

-----------------------------------------------------------------------------
(***************************************************************************)
(* The two counters are the records on each side of the authentication,    *)
(* and stay within their slots, through failed starts, failed closes and   *)
(* reaps by either thread: no slot is lost and none is freed twice.        *)
(***************************************************************************)
SlotsAgree ==
    /\ preAuth = Cardinality(records \ authenticated)
    /\ auth = Cardinality(authenticated)
    /\ authenticated \subseteq records
    /\ preAuth <= PreAuthSlots
    /\ auth <= SessionSlots

(***************************************************************************)
(* No socket is closed under the thread that uses it: neither that of a    *)
(* connection under its worker, nor the listening one under the acceptor,  *)
(* although a worker whose start failed may still be about to run.         *)
(***************************************************************************)
NeverClosedUnderThread ==
    /\ \A c \in Conn : owned[c].thread = "in" => sock[c] = "open"
    /\ acceptor.thread = "in" => socket = "open"

(***************************************************************************)
(* The listener calls itself stopped with physical proof only: no thread   *)
(* of it is alive and every socket it had is closed.                       *)
(***************************************************************************)
StoppedHasProof ==
    (state = "stopped" /\ stopPc = "no") =>
        /\ acceptor.thread \in {"none", "ended"}
        /\ socket \in {"none", "closed"}
        /\ \A c \in Conn : /\ owned[c].thread \in {"none", "ended"}
                           /\ sock[c] \in {"none", "closed"}

(***************************************************************************)
(* The listener is sound: its slots agree with their holders, nothing is   *)
(* closed under a thread, and a stopped listener has proof of it.          *)
(***************************************************************************)
ListenerSound ==
    /\ SlotsAgree
    /\ NeverClosedUnderThread
    /\ StoppedHasProof
=============================================================================
