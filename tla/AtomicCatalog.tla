--------------------------- MODULE AtomicCatalog ---------------------------
(***************************************************************************)
(* What the encrypted datasource catalogue promises its callers            *)
(* (docs/PHASE-9-STAGE-2-DESIGN.md, sections 5 and 6): it behaves like one *)
(* register that is written atomically, whatever crashes in between.       *)
(*                                                                         *)
(* `legit' is the set of documents a caller may still find when it looks:  *)
(* a singleton once somebody has been told the value, and larger only      *)
(* while the outcome of an interrupted write is unknown.  `view' is the    *)
(* document held by the one open catalogue object, NoDoc when there is     *)
(* none.                                                                   *)
(***************************************************************************)
EXTENDS Naturals

CONSTANTS Document,  \* the documents, records with at least a field rev
          NoDoc      \* the absent document, whose rev is 0

VARIABLES legit, view

vars == <<legit, view>>

Init ==
    /\ legit = {NoDoc}
    /\ view = NoDoc

(***************************************************************************)
(* A caller learns the value: open, recover_master_key_rotation and        *)
(* inspect_master_key_rotation settle every earlier uncertain outcome.     *)
(***************************************************************************)
Learn ==
    \E d \in legit \ {NoDoc} :
        /\ legit' = {d}
        /\ view' \in {view, d}

(***************************************************************************)
(* A write that is acknowledged replaces the value its writer held, and    *)
(* nothing else: no acknowledged write is ever overwritten unseen.         *)
(***************************************************************************)
Follows(d) == view \in legit /\ d.rev = view.rev + 1

Write ==
    \E d \in Document :
        /\ Follows(d)
        /\ legit' = {d}
        /\ view' = d

(***************************************************************************)
(* A write whose outcome is uncertain may or may not have happened; the    *)
(* object that attempted it is of no further use.                          *)
(***************************************************************************)
Interrupted ==
    \E d \in Document :
        /\ Follows(d)
        /\ legit' = legit \cup {d}
        /\ view' = NoDoc

(***************************************************************************)
(* Closing, dying, and failing before the store was touched lose nothing.  *)
(***************************************************************************)
Forget ==
    /\ view' = NoDoc
    /\ UNCHANGED legit

Next == Learn \/ Write \/ Interrupted \/ Forget

Spec == Init /\ [][Next]_vars
=============================================================================
