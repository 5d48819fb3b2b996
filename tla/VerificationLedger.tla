------------------------- MODULE VerificationLedger -------------------------
(***************************************************************************)
(* The ledger of supervised children of datasource/verify.py (_Ledger) and *)
(* the lifecycle of the supervisors over it: slots, records, claims by     *)
(* token, and collection by whoever admits or closes.                      *)
(*                                                                         *)
(* A thread is inside one call at a time.  Each action of a thread is one  *)
(* critical section of the ledger's lock, or the part of the call between  *)
(* two of them.  What a record holds is one bit here, `live'; module       *)
(* ChildRecord says how reap() sees to it.  A record is named by its       *)
(* address: the address of a dead record can be that of a new one, which   *)
(* is what the `visited' sets of id()s see.                                *)
(***************************************************************************)
EXTENDS Naturals, Sequences, SequencesExt, FiniteSets

CONSTANTS
    Supervisor,   \* VerificationSupervisor objects on this ledger
    Thread,       \* threads that call them
    Address,      \* addresses of records
    Slots,        \* MAX_CONCURRENT_VERIFICATIONS, _BIND_DNS_MAX_CONCURRENT
    Bounded,      \* TRUE for the bind ledger: collect_until and no shutdown
    None

\* the token object of a verification, or of a collection, of a thread
Token == Thread \X {"own", "collect"}

ASSUME LedgerAssumption ==
    /\ Slots \in Nat \ {0}
    /\ Bounded \in BOOLEAN
    /\ Slots < Cardinality(Address)
    /\ None \notin Supervisor \cup Thread \cup Address \cup Token
    /\ None \notin {"adopt", "confirm", "idle"}

VARIABLES
    records,   \* _Ledger.records
    slots,     \* _Ledger.slots
    record,    \* the record at each address
    live,      \* the records that may hold a process, a thread or a pipe
    closing,   \* VerificationSupervisor._closing
    closed,    \* VerificationSupervisor._closed
    call       \* what each thread is doing

vars == <<records, slots, record, live, closing, closed, call>>

Idle == [pc |-> "idle", after |-> None, sup |-> None, rec |-> None, token |-> None,
         visited |-> {}, initial |-> {}, reaped |-> FALSE, raised |-> FALSE]

Record ==
    [owner : Supervisor \cup {None}, in_flight : BOOLEAN, claimer : Token \cup {None}]

NoRecord == [owner |-> None, in_flight |-> FALSE, claimer |-> None]

Call ==
    [pc : {"idle", "claim", "adopt", "run", "reap", "settle", "confirm"},
     after : {None, "adopt", "confirm", "idle"}, sup : Supervisor \cup {None},
     rec : Address \cup {None}, token : Token \cup {None},
     visited : SUBSET Address, initial : SUBSET Address,
     reaped : BOOLEAN, raised : BOOLEAN]

TypeOK ==
    /\ records \in Seq(Address) /\ Len(records) <= Slots
    /\ slots \in 0..Slots
    /\ record \in [Address -> Record]
    /\ live \subseteq Address
    /\ closing \in [Supervisor -> BOOLEAN]
    /\ closed \in [Supervisor -> BOOLEAN]
    /\ call \in [Thread -> Call]

Init ==
    /\ records = <<>>
    /\ slots = Slots
    /\ record = [a \in Address |-> NoRecord]
    /\ live = {}
    /\ closing = [s \in Supervisor |-> FALSE]
    /\ closed = [s \in Supervisor |-> FALSE]
    /\ call = [t \in Thread |-> Idle]

-----------------------------------------------------------------------------
(* Calls *)

(* collect: the pass that precedes an admission or a close; collect_until  *)
(* remembers which records were there when it began.                       *)
Collecting(s, after) ==
    [Idle EXCEPT !.pc = "claim", !.after = after, !.sup = s,
                 !.initial = IF Bounded THEN Range(records) ELSE {}]

(* _admit's first check; refused, the call ends at once. *)
Verify(t, s) ==
    /\ call[t] = Idle
    /\ ~closing[s]
    /\ call' = [call EXCEPT ![t] = Collecting(s, "adopt")]
    /\ UNCHANGED <<records, slots, record, live, closing, closed>>

Collect(t, s) ==
    /\ call[t] = Idle
    /\ ~Bounded
    /\ call' = [call EXCEPT ![t] = Collecting(s, "idle")]
    /\ UNCHANGED <<records, slots, record, live, closing, closed>>

BeginShutdown(s) ==
    /\ ~Bounded
    /\ ~closing[s]
    /\ closing' = [closing EXCEPT ![s] = TRUE]
    /\ UNCHANGED <<records, slots, record, live, closed, call>>

Close(t, s) ==
    /\ call[t] = Idle
    /\ ~Bounded
    /\ ~closed[s]
    /\ closing' = [closing EXCEPT ![s] = TRUE]
    /\ call' = [call EXCEPT ![t] = Collecting(s, "confirm")]
    /\ UNCHANGED <<records, slots, record, live, closed>>

-----------------------------------------------------------------------------
(* One collection *)

(* A pending record nobody collects and this pass has not visited. *)
Claimable(t, a) ==
    /\ ~record[a].in_flight
    /\ record[a].claimer = None
    /\ a \notin call[t].visited
    /\ Bounded => a \in call[t].initial

Free(t) == {i \in DOMAIN records : Claimable(t, records[i])}

Takes(t, a) ==
    /\ record' = [record EXCEPT ![a].claimer = <<t, "collect">>]
    /\ call' = [call EXCEPT ![t].pc = "reap", ![t].rec = a, ![t].token = <<t, "collect">>,
                            ![t].visited = @ \cup {a}]

(* The first free record of the ledger. *)
Claim(t) ==
    /\ call[t].pc = "claim"
    /\ \E i \in Free(t) : (\A j \in Free(t) : i <= j) /\ Takes(t, records[i])
    /\ UNCHANGED <<records, slots, live, closing, closed>>

(* No record is left to claim; or, for collect_until, no time. *)
EndCollect(t) ==
    /\ call[t].pc = "claim"
    /\ Free(t) = {} \/ Bounded
    /\ call' = [call EXCEPT ![t] =
                    IF @.after = "idle" THEN Idle
                    ELSE [Idle EXCEPT !.pc = call[t].after, !.sup = call[t].sup]]
    /\ UNCHANGED <<records, slots, record, live, closing, closed>>

(* reap, outside the lock: everything is gone, or it is not confirmed. *)
Reap(t, reaped) ==
    /\ call[t].pc = "reap"
    /\ live' = IF reaped THEN live \ {call[t].rec} ELSE live
    /\ call' = [call EXCEPT ![t].pc = "settle", ![t].reaped = reaped]
    /\ UNCHANGED <<records, slots, record, closing, closed>>

\* Faulty variant of ReapInterrupted: an interrupted reap does not return its claim.
ReapAbandoned(t) ==
    /\ call[t].pc = "reap"
    /\ call' = [call EXCEPT ![t] = Idle]
    /\ UNCHANGED <<records, slots, record, live, closing, closed>>

(* A BaseException leaves reap: the record is settled as not reaped, and   *)
(* the call ends with the exception.                                       *)
ReapInterrupted(t) ==
    /\ call[t].pc = "reap"
    /\ call' = [call EXCEPT ![t].pc = "settle", ![t].reaped = FALSE, ![t].raised = TRUE]
    /\ UNCHANGED <<records, slots, record, live, closing, closed>>

Removes(t) == call[t].reaped /\ call[t].rec \in Range(records)

Settling(t) ==
    [call EXCEPT ![t] =
        IF @.raised \/ @.token = <<t, "own">> THEN Idle
        ELSE [@ EXCEPT !.pc = "claim", !.rec = None, !.token = None, !.reaped = FALSE]]

(* _settle: only what carries the caller's token, and the slot only with   *)
(* the removal of a reaped record.                                         *)
Settle(t) ==
    /\ call[t].pc = "settle"
    /\ LET r == call[t].rec
       IN  IF record[r].claimer # call[t].token
           THEN UNCHANGED <<records, slots, record>>
           ELSE IF Removes(t)
           THEN /\ record' = [record EXCEPT ![r] = NoRecord]
                /\ \E i \in DOMAIN records :
                    records[i] = r /\ records' = RemoveAt(records, i)
                /\ slots' = slots + 1
           ELSE /\ record' = [record EXCEPT ![r].in_flight = FALSE, ![r].claimer = None]
                /\ UNCHANGED <<records, slots>>
    /\ call' = Settling(t)
    /\ UNCHANGED <<live, closing, closed>>

-----------------------------------------------------------------------------
(* A verification *)

Unreferenced(a) == a \notin Range(records) /\ \A t \in Thread : call[t].rec # a

Refused(t) == closing[call[t].sup] \/ slots = 0

(* _admit's second section: the slot and the record are taken together,    *)
(* and the record is born in flight, claimed by its owner.                 *)
Adopt(t) ==
    /\ call[t].pc = "adopt"
    /\ ~Refused(t)
    /\ \E a \in Address :
        /\ Unreferenced(a)
        /\ slots' = slots - 1
        /\ records' = Append(records, a)
        /\ record' = [record EXCEPT ![a] = [owner |-> call[t].sup, in_flight |-> TRUE,
                                            claimer |-> <<t, "own">>]]
        /\ call' = [call EXCEPT ![t].pc = "run", ![t].rec = a, ![t].token = <<t, "own">>]
    /\ UNCHANGED <<live, closing, closed>>

AdmissionRefused(t) ==
    /\ call[t].pc = "adopt"
    /\ Refused(t)
    /\ call' = [call EXCEPT ![t] = Idle]
    /\ UNCHANGED <<records, slots, record, live, closing, closed>>

(* run: the child is created or not; the owner reaps it either way. *)
Run(t, created) ==
    /\ call[t].pc = "run"
    /\ live' = IF created THEN live \cup {call[t].rec} ELSE live
    /\ call' = [call EXCEPT ![t].pc = "reap"]
    /\ UNCHANGED <<records, slots, record, closing, closed>>

-----------------------------------------------------------------------------
(* close *)

Confirm(t) ==
    /\ call[t].pc = "confirm"
    /\ closed' = [closed EXCEPT ![call[t].sup] =
                    \A a \in Range(records) : record[a].owner # call[t].sup]
    /\ call' = [call EXCEPT ![t] = Idle]
    /\ UNCHANGED <<records, slots, record, live, closing>>

-----------------------------------------------------------------------------
Step(t) ==
    \/ Claim(t) \/ EndCollect(t)
    \/ \E reaped \in BOOLEAN : Reap(t, reaped)
    \/ ReapInterrupted(t)
    \/ Settle(t)
    \/ Adopt(t) \/ AdmissionRefused(t)
    \/ \E created \in BOOLEAN : Run(t, created)
    \/ Confirm(t)

Next ==
    \/ \E t \in Thread, s \in Supervisor : Verify(t, s) \/ Collect(t, s) \/ Close(t, s)
    \/ \E s \in Supervisor : BeginShutdown(s)
    \/ \E t \in Thread : Step(t)

Spec == Init /\ [][Next]_vars

-----------------------------------------------------------------------------
(* Properties *)

(***************************************************************************)
(* A slot is held by exactly one record: every slot that is not free is    *)
(* explained by a record in the ledger, and is given back once.            *)
(***************************************************************************)
SlotsConserved == slots + Len(records) = Slots /\ IsInjective(records)

(***************************************************************************)
(* A claim has its collector: a record that is claimed or in flight is     *)
(* held by a thread inside the call that will settle it, so an             *)
(* interruption never puts a record out of everybody's reach.              *)
(***************************************************************************)
ClaimHasCollector ==
    \A a \in Range(records) :
        /\ record[a].in_flight => record[a].claimer # None
        /\ record[a].claimer # None =>
            LET t == record[a].claimer[1]
            IN  call[t].rec = a /\ call[t].token = record[a].claimer

(***************************************************************************)
(* Whatever may still hold a process, a thread or a pipe is in the ledger, *)
(* where the next admission or close finds it: no path drops a record that *)
(* was not reaped.                                                         *)
(***************************************************************************)
LiveIsOwned == live \subseteq Range(records)

(***************************************************************************)
(* No record is reaped by two threads at once.                             *)
(***************************************************************************)
OneReaper ==
    \A t, u \in Thread :
        (t # u /\ call[t].pc \in {"run", "reap"} /\ call[u].pc \in {"run", "reap"})
            => call[t].rec # call[u].rec

(***************************************************************************)
(* The ledger is sound, however verifications, collections and closes      *)
(* interleave: slots are conserved, whatever lives is in the ledger, and   *)
(* each record is in the hands of at most one thread, which settles it.    *)
(***************************************************************************)
LedgerSound ==
    /\ SlotsConserved
    /\ LiveIsOwned
    /\ OneReaper
    /\ ClaimHasCollector

-----------------------------------------------------------------------------
(* Why it is sound *)

Holding == {"run", "reap", "settle"}

(* From its claim to its settlement a thread holds one record of the       *)
(* ledger, under its own token; otherwise it holds none.                   *)
HoldsItsRecord ==
    \A t \in Thread :
        IF call[t].pc \in Holding
        THEN /\ call[t].rec \in Range(records)
             /\ call[t].token \in {<<t, "own">>, <<t, "collect">>}
             /\ record[call[t].rec].claimer = call[t].token
        ELSE call[t].rec = None /\ call[t].token = None

(* What a reap reported gone is still gone when it is settled. *)
SettledIsGone ==
    \A t \in Thread : call[t].pc = "settle" /\ call[t].reaped => call[t].rec \notin live

(* A collection knows what it was begun for. *)
CollectsFor ==
    \A t \in Thread :
        call[t].pc = "claim" \/ call[t].token = <<t, "collect">> => call[t].after # None

IInv ==
    /\ TypeOK
    /\ SlotsConserved
    /\ LiveIsOwned
    /\ ClaimHasCollector
    /\ HoldsItsRecord
    /\ SettledIsGone
    /\ CollectsFor
=============================================================================
