----------------------- MODULE MCVerificationLedger -----------------------
(***************************************************************************)
(* The supervision of children for TLC: the ledger of verify.py and, side  *)
(* by side, one child record, each in its two forms, the verification of a *)
(* connection and the resolution of the bind host.                         *)
(*                                                                         *)
(* They meet in one bit, `live' there and `Gone' here, so their product    *)
(* says nothing that each does not say alone: a behaviour picks a part at  *)
(* its start and moves only that one.                                      *)
(***************************************************************************)
EXTENDS VerificationLedger, TLC

VARIABLES
    part,                             \* what moves in this behaviour
    spawn, child, code, said, pid, pipe, pump, sink, pc, next, completed, late, spent,
    reaped, outcome                   \* those of ChildRecord

VerifyChild == INSTANCE ChildRecord WITH Bind <- FALSE
BindChild == INSTANCE ChildRecord WITH Bind <- TRUE
BindLedger == INSTANCE VerificationLedger WITH Bounded <- TRUE

ledgerVars == <<records, slots, record, live, closing, closed, call>>
childVars == <<spawn, child, code, said, pid, pipe, pump, sink, pc, next, completed, late,
             spent, reaped, outcome>>

ASSUME ChildConstants ==
    None \notin {"approved", "capability", "refused", "failed", "incomplete"}

PartsInit ==
    /\ part \in {"ledger", "bind ledger", "child", "bind child"}
    /\ Init
    /\ VerifyChild!Init

PartsNext ==
    \/ part = "ledger" /\ Next /\ UNCHANGED <<part, childVars>>
    \/ part = "bind ledger" /\ BindLedger!Next /\ UNCHANGED <<part, childVars>>
    \/ part = "child" /\ VerifyChild!Next /\ UNCHANGED <<part, ledgerVars>>
    \/ part = "bind child" /\ BindChild!Next /\ UNCHANGED <<part, ledgerVars>>

Parts == PartsInit /\ [][PartsNext]_<<part, ledgerVars, childVars>>

(* Threads, supervisors and addresses are only compared with one another. *)
LedgerSymmetry ==
    Permutations(Thread) \cup Permutations(Supervisor) \cup Permutations(Address)

(***************************************************************************)
(* ReapedIsGone of ChildRecord, for both jobs: a record reported reaped    *)
(* leaves no process, thread or open pipe, and none appears afterwards.    *)
(***************************************************************************)
ReapedIsGone == VerifyChild!ReapedIsGone

(***************************************************************************)
(* LedgerSound and ReapedIsGone: no supervised child is lost, reaped twice *)
(* or kept a slot for, and one reported reaped is gone.                    *)
(***************************************************************************)
ChildrenSound == LedgerSound /\ ReapedIsGone
=============================================================================
