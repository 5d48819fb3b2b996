---------------------------- MODULE ResultReceiver ----------------------------
(***************************************************************************)
(* The receiver of one result (pgwire/result_receiver.py): it reads a      *)
(* frame from the worker, validates it, sends it to the client and gives   *)
(* back the pin that keeps the session's memory reserved meanwhile.        *)
(*                                                                         *)
(* Any thread may call receive, send_to, status and close.  Their critical *)
(* sections exclude each other; each may also be refused, because the lock *)
(* is busy or the deadline is over.  Reading, sending and dropping happen  *)
(* outside the lock.  The model keeps who holds a reference to the         *)
(* payload: the receiver itself, a call in progress, or the traceback of   *)
(* an error or of an interruption.                                         *)
(***************************************************************************)
EXTENDS Naturals

CONSTANTS
    Threads,
    None        \* no call

VARIABLES
    state,        \* _state
    owner,        \* _owner holds the validated payload
    operation,    \* the call whose completion event is _operation_done
    done,         \* the calls whose completion event is set
    uncertain,    \* _uncertain
    discarded,    \* _discarded
    drain,        \* _drain
    ledger,       \* the budget ledger's view: the pin, the session, its health
    call,         \* what each thread is calling
    at,           \* where in it the thread is
    holds,        \* the thread's frames hold the payload
    kept,         \* a traceback nobody controls holds the payload
    interrupted,  \* some call was interrupted
    frame,        \* the frame on the worker's channel
    output        \* how much of it the client was sent

receiverVars == <<state, owner, operation, done, uncertain, discarded, drain>>
threadVars == <<call, at, holds>>
worldVars == <<kept, interrupted, frame, output>>
vars == <<receiverVars, ledger, threadVars, worldVars>>

State == {"NEW", "READING", "READY", "SENDING", "SENT", "FAILED", "DISCARDING", "HELD", "CLOSED"}
Operations == {"receive", "send"}
Working == {"header", "body", "validate", "sending"}
Publishing == {"ready", "sent", "failed"}

NoneAssumption ==
    None \notin Operations \cup Working \cup Publishing \cup {"close", "complete", "drop", "end"}

TypeOK ==
    /\ state \in State
    /\ owner \in BOOLEAN
    /\ operation \in Operations \cup {None}
    /\ done \subseteq Operations
    /\ uncertain \in BOOLEAN /\ discarded \in BOOLEAN /\ drain \in BOOLEAN
    /\ ledger \in [pinned : BOOLEAN, session : {"LIVE", "DRAINING"}, usable : BOOLEAN]
    /\ call \in [Threads -> Operations \cup {"close", None}]
    /\ at \in [Threads -> Working \cup Publishing \cup {"complete", "drop", "end", None}]
    /\ holds \in [Threads -> BOOLEAN]
    /\ kept \in BOOLEAN /\ interrupted \in BOOLEAN
    /\ frame \in {"valid", "invalid"}
    /\ output \in {"none", "part", "whole"}

(* The constructor has taken the pin (begin_output). *)
Init ==
    /\ state = "NEW"
    /\ owner = FALSE
    /\ operation = None
    /\ done = {}
    /\ uncertain = FALSE
    /\ discarded = FALSE
    /\ drain = TRUE
    /\ ledger = [pinned |-> TRUE, session |-> "LIVE", usable |-> TRUE]
    /\ call = [t \in Threads |-> None]
    /\ at = [t \in Threads |-> None]
    /\ holds = [t \in Threads |-> FALSE]
    /\ kept = FALSE
    /\ interrupted = FALSE
    /\ frame \in {"valid", "invalid"}
    /\ output = "none"

-----------------------------------------------------------------------------
Calls(t, name, place) ==
    /\ call' = [call EXCEPT ![t] = name]
    /\ at' = [at EXCEPT ![t] = place]

Goto(t, place) == at' = [at EXCEPT ![t] = place] /\ UNCHANGED call

Holds(t, value) == holds' = [holds EXCEPT ![t] = value]

Returns(t) == Calls(t, None, None)

(* _settle_locked: an operation that ended without publishing has failed.  *)
Settled == IF state \in {"READING", "SENDING"} /\ operation \in done THEN "FAILED" ELSE state

-----------------------------------------------------------------------------
(* receive *)

BeginReceive(t) ==
    /\ call[t] = None
    /\ state = "NEW"
    /\ state' = "READING"
    /\ operation' = "receive"
    /\ Calls(t, "receive", "header")
    /\ UNCHANGED <<owner, done, uncertain, discarded, drain, ledger, holds, worldVars>>

(* _read_payload: the buffer for the body is allocated. *)
ReadHeader(t) ==
    /\ at[t] = "header"
    /\ Goto(t, "body")
    /\ Holds(t, TRUE)
    /\ UNCHANGED <<receiverVars, ledger, worldVars>>

ReadBody(t) ==
    /\ at[t] = "body"
    /\ Goto(t, "validate")
    /\ UNCHANGED <<receiverVars, ledger, holds, worldVars>>

Validate(t) ==
    /\ at[t] = "validate"
    /\ frame = "valid"
    /\ Goto(t, "ready")
    /\ UNCHANGED <<receiverVars, ledger, holds, worldVars>>

(* _receive_captured and _send_captured: the error's frames are cleared,   *)
(* or it cannot be shown that they were (_clear_error).                    *)
WorkFails(t) ==
    /\ at[t] \in Working
    /\ Goto(t, "failed")
    /\ Holds(t, FALSE)
    /\ \E cleared \in BOOLEAN :
         /\ uncertain' = (uncertain \/ ~cleared)
         /\ kept' = (kept \/ (~cleared /\ holds[t]))
    /\ UNCHANGED <<state, owner, operation, done, discarded, drain, ledger, interrupted, frame, output>>

(* The second critical section of receive: the local reference becomes the *)
(* receiver's.                                                             *)
PublishReady(t) ==
    /\ at[t] = "ready"
    /\ state' = "READY"
    /\ owner' = TRUE
    /\ Holds(t, FALSE)
    /\ Goto(t, "complete")
    /\ UNCHANGED <<operation, done, uncertain, discarded, drain, ledger, worldVars>>

PublishFailed(t) ==
    /\ at[t] = "failed"
    /\ state' = "FAILED"
    /\ Goto(t, "complete")
    /\ UNCHANGED <<owner, operation, done, uncertain, discarded, drain, ledger, holds, worldVars>>

(* The lock is busy or the deadline is over: nothing is published. *)
PublishRefused(t) ==
    /\ at[t] \in Publishing
    /\ Goto(t, "complete")
    /\ UNCHANGED <<receiverVars, ledger, holds, worldVars>>

(* The finally clauses: the local reference is dropped, then the call's    *)
(* own completion event is set.                                            *)
Complete(t) ==
    /\ at[t] = "complete"
    /\ done' = done \cup {call[t]}
    /\ Holds(t, FALSE)
    /\ Returns(t)
    /\ UNCHANGED <<state, owner, operation, uncertain, discarded, drain, ledger, worldVars>>

-----------------------------------------------------------------------------
(* send_to *)

BeginSend(t) ==
    /\ call[t] = None
    /\ state = "READY"
    /\ state' = "SENDING"
    /\ operation' = "send"
    /\ Calls(t, "send", "sending")
    /\ UNCHANGED <<owner, done, uncertain, discarded, drain, ledger, holds, worldVars>>

(* _send_payload: a chunk is sent, wholly or in part. *)
SendChunk(t) ==
    /\ at[t] = "sending"
    /\ Holds(t, TRUE)
    /\ output' = "part"
    /\ UNCHANGED <<receiverVars, ledger, call, at, kept, interrupted, frame>>

SendLast(t) ==
    /\ at[t] = "sending"
    /\ holds[t]
    /\ Holds(t, FALSE)
    /\ output' = "whole"
    /\ Goto(t, "sent")
    /\ UNCHANGED <<receiverVars, ledger, kept, interrupted, frame>>

PublishSent(t) ==
    /\ at[t] = "sent"
    /\ state' = "SENT"
    /\ Goto(t, "complete")
    /\ UNCHANGED <<owner, operation, done, uncertain, discarded, drain, ledger, holds, worldVars>>

-----------------------------------------------------------------------------
(* close and status *)

MustDrain(settled) == settled # "SENT"

(* The first critical section: the payload changes hands, to be dropped    *)
(* outside the lock.                                                       *)
CloseTakes(t) ==
    /\ call[t] = None
    /\ Settled \in {"NEW", "READY", "SENT", "FAILED"}
    /\ drain' = MustDrain(Settled)
    /\ state' = "DISCARDING"
    /\ Holds(t, owner)
    /\ owner' = FALSE
    /\ Calls(t, "close", "drop")
    /\ UNCHANGED <<operation, done, uncertain, discarded, ledger, worldVars>>

(* A close after one that dropped the payload and did not end. *)
CloseAgain(t) ==
    /\ call[t] = None
    /\ state \in {"DISCARDING", "HELD"}
    /\ discarded
    /\ Calls(t, "close", "end")
    /\ UNCHANGED <<receiverVars, ledger, holds, worldVars>>

(* status, and a close refused because an operation is in progress. *)
Settle(t) ==
    /\ call[t] = None
    /\ Settled # state
    /\ state' = Settled
    /\ UNCHANGED <<owner, operation, done, uncertain, discarded, drain, ledger, threadVars, worldVars>>

Drop(t) ==
    /\ at[t] = "drop"
    /\ Holds(t, FALSE)
    /\ discarded' = TRUE
    /\ Goto(t, "end")
    /\ UNCHANGED <<state, owner, operation, done, uncertain, drain, ledger, worldVars>>

(* end_output: the session's draining and the pin change together; what    *)
(* was not discarded keeps the pin.                                        *)
EndOutput ==
    ledger' = [ledger EXCEPT
                 !.session = IF drain THEN "DRAINING" ELSE @,
                 !.pinned = uncertain]

(* The second critical section. *)
CloseEnds(t) ==
    /\ at[t] = "end"
    /\ \/ /\ state = "CLOSED" \/ ~ledger.pinned
          /\ state' = "CLOSED"
          /\ UNCHANGED ledger
       \/ /\ state # "CLOSED" /\ ledger.pinned /\ ledger.usable
          /\ EndOutput
          /\ state' = IF ledger'.pinned THEN "HELD" ELSE "CLOSED"
       \/ /\ state # "CLOSED" /\ ~ledger.usable
          /\ state' = "HELD"
          /\ UNCHANGED ledger
    /\ Returns(t)
    /\ UNCHANGED <<owner, operation, done, uncertain, discarded, drain, holds, worldVars>>

CloseRefused(t) ==
    /\ at[t] = "end"
    /\ Returns(t)
    /\ UNCHANGED <<receiverVars, ledger, holds, worldVars>>

-----------------------------------------------------------------------------
(* Interruptions *)

(* Inside the try of receive or send_to: the handler records that the      *)
(* traceback may hold the payload, and finally is still run.               *)
Interrupt(t) ==
    /\ at[t] \in Working \cup Publishing
    /\ uncertain' = TRUE
    /\ kept' = (kept \/ holds[t])
    /\ interrupted' = TRUE
    /\ Goto(t, "complete")
    /\ UNCHANGED <<state, owner, operation, done, discarded, drain, ledger, holds, frame, output>>

(* Before the try, or anywhere in close: the call is simply gone. *)
InterruptOutside(t) ==
    /\ \/ at[t] \in {"header", "sending"} /\ ~holds[t]
       \/ at[t] \in {"drop", "end"}
    /\ kept' = (kept \/ holds[t])
    /\ interrupted' = TRUE
    /\ Holds(t, FALSE)
    /\ Returns(t)
    /\ UNCHANGED <<receiverVars, ledger, frame, output>>

(* The ledger is fenced by an inconsistency found in another call. *)
LedgerBreaks ==
    /\ ledger.usable
    /\ ledger' = [ledger EXCEPT !.usable = FALSE]
    /\ UNCHANGED <<receiverVars, threadVars, worldVars>>

Idle ==
    /\ \A t \in Threads : call[t] = None
    /\ UNCHANGED vars

-----------------------------------------------------------------------------
Advance(t) ==
    \/ ReadHeader(t) \/ ReadBody(t) \/ Validate(t) \/ WorkFails(t)
    \/ PublishReady(t) \/ PublishSent(t) \/ PublishFailed(t) \/ PublishRefused(t)
    \/ Complete(t)
    \/ SendChunk(t) \/ SendLast(t)
    \/ Drop(t) \/ CloseEnds(t) \/ CloseRefused(t)

Next ==
    \/ \E t \in Threads :
         \/ Advance(t)
         \/ BeginReceive(t) \/ BeginSend(t) \/ CloseTakes(t) \/ CloseAgain(t) \/ Settle(t)
         \/ Interrupt(t) \/ InterruptOutside(t)
    \/ LedgerBreaks
    \/ Idle

Spec == Init /\ [][Next]_vars

-----------------------------------------------------------------------------
Referenced == owner \/ kept \/ \E t \in Threads : holds[t]

(* The session's memory stays pinned as long as anything holds the         *)
(* payload: the receiver, a call of any thread, or a traceback that        *)
(* nobody controls (close, end_output).                                    *)
PinnedWhileReferenced == Referenced => ledger.pinned

(* A session that may go on after the pin is gone had its result sent to   *)
(* the last byte; otherwise it is draining (close).                        *)
LiveMeansServed == ~ledger.pinned /\ ledger.session = "LIVE" => output = "whole"

(* Nothing of a frame that does not validate reaches the client, however   *)
(* the calls interleave (receive, send_to).                                *)
OnlyValidIsSent == output # "none" => frame = "valid"

(* Nothing is discarded while a call is still reading or sending: its      *)
(* completion is its own, and no earlier call's can stand for it.          *)
NoDiscardUnderWork ==
    state \in {"DISCARDING", "HELD", "CLOSED"} => \A t \in Threads : at[t] \notin Working

(* The receiver is sound, however its calls interleave, fail and are       *)
(* interrupted.                                                            *)
ReceiverSound ==
    /\ PinnedWhileReferenced
    /\ LiveMeansServed
    /\ OnlyValidIsSent
    /\ NoDiscardUnderWork
-----------------------------------------------------------------------------
(* Why it is sound: at most one call works, the receiver's state names it, *)
(* and only its own completion ends it.                                    *)

Over == {"DISCARDING", "HELD", "CLOSED"}
StateOf(name) == IF name = "receive" THEN "READING" ELSE "SENDING"

(* The call of t is the operation in progress. *)
InProgress(t) ==
    /\ call[t] \in Operations /\ call[t] = operation /\ call[t] \notin done
    /\ state = StateOf(call[t])

PlacesAgree ==
    \A t \in Threads :
        /\ at[t] = None <=> call[t] = None
        /\ at[t] \in {"header", "body", "validate", "ready"} => call[t] = "receive"
        /\ at[t] \in {"sending", "sent"} => call[t] = "send"
        /\ at[t] \in {"drop", "end"} <=> call[t] = "close"

WorkIsInProgress ==
    \A t \in Threads :
        /\ at[t] \in Working \cup Publishing => InProgress(t)
        /\ at[t] = "complete" => call[t] \in Operations /\ call[t] \notin done
        /\ at[t] = "complete" /\ holds[t] => InProgress(t)
        /\ holds[t] => at[t] \in {"body", "validate", "ready", "sending", "complete", "drop"}

(* Each operation is called once, in its turn. *)
CalledOnce ==
    /\ \A t, u \in Threads : call[t] \in Operations /\ call[u] = call[t] => u = t
    /\ state = "NEW" => done = {} /\ \A t \in Threads : call[t] = None
    /\ state \in {"READING", "READY"} =>
         "send" \notin done /\ operation = "receive" /\ \A t \in Threads : call[t] # "send"

(* The payload is dropped once, by the close that took it; what was lost   *)
(* on the way keeps the pin.                                               *)
DroppedOnce ==
    /\ \A t \in Threads : at[t] = "drop" => state = "DISCARDING" /\ ~discarded
    /\ \A t, u \in Threads : at[t] = "drop" /\ at[u] = "drop" => u = t
    /\ \A t \in Threads : at[t] = "end" => discarded
    /\ state \in {"HELD", "CLOSED"} => discarded
    /\ discarded => state \in Over /\ (kept => uncertain)
    /\ state \in Over => ~owner
    /\ kept /\ ~uncertain => state \in Over /\ \A t \in Threads : at[t] # "drop"
    /\ ~ledger.pinned <=> state = "CLOSED"
    /\ ~ledger.pinned => ~uncertain

WhatIsSent ==
    /\ state \in {"READY", "SENDING", "SENT"} => frame = "valid"
    /\ \A t \in Threads : at[t] = "ready" => frame = "valid"
    /\ \A t \in Threads : at[t] = "sent" => output = "whole"
    /\ state = "SENT" => output = "whole"
    /\ ~drain => state \in Over /\ output = "whole"

IInv ==
    /\ TypeOK
    /\ PlacesAgree
    /\ WorkIsInProgress
    /\ CalledOnce
    /\ DroppedOnce
    /\ WhatIsSent
    /\ ReceiverSound
=============================================================================
