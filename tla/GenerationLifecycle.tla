------------------------ MODULE GenerationLifecycle ------------------------
(***************************************************************************)
(* What the datasource registry of maskgw/runtime promises, without        *)
(* counters, flags or locks: each slot publishes at most one generation; a *)
(* user is admitted to the current generation of a slot and stays on it; a *)
(* generation replaced or withdrawn drains while it has users and is gone  *)
(* with the last one, or at once when it has none; a number is never used  *)
(* again.  DatasourceRegistry implements it.                               *)
(***************************************************************************)
EXTENDS Integers

CONSTANTS Slot, Gen, User, NoGen

VARIABLES
    current,   \* slot -> generation that admits, or NoGen
    draining,  \* generations that no longer admit and still have users
    born,      \* generations ever published
    users      \* generation -> its users

vars == <<current, draining, born, users>>

Init ==
    /\ current = [s \in Slot |-> NoGen]
    /\ draining = {}
    /\ born = {}
    /\ users = [g \in Gen |-> {}]

\* The generation a slot stops publishing: it drains if somebody uses it.
StopAdmitting(g) ==
    draining' = IF g # NoGen /\ users[g] # {} THEN draining \cup {g} ELSE draining

\* A new generation takes the slot, in one step with the end of the old one.
Publish(s, g) ==
    /\ g \in Gen \ born
    /\ born' = born \cup {g}
    /\ current' = [current EXCEPT ![s] = g]
    /\ StopAdmitting(current[s])
    /\ UNCHANGED users

Withdraw(s) ==
    /\ current[s] # NoGen
    /\ current' = [current EXCEPT ![s] = NoGen]
    /\ StopAdmitting(current[s])
    /\ UNCHANGED <<born, users>>

Admit(u, s) ==
    /\ current[s] # NoGen
    /\ \A g \in Gen : u \notin users[g]
    /\ users' = [users EXCEPT ![current[s]] = @ \cup {u}]
    /\ UNCHANGED <<current, draining, born>>

Leave(u, g) ==
    /\ u \in users[g]
    /\ users' = [users EXCEPT ![g] = @ \ {u}]
    /\ draining' = IF users[g] = {u} THEN draining \ {g} ELSE draining
    /\ UNCHANGED <<current, born>>

\* Everything is closed, and only when nobody uses anything.
Shutdown ==
    /\ \A g \in Gen : users[g] = {}
    /\ current' = [s \in Slot |-> NoGen]
    /\ draining' = {}
    /\ UNCHANGED <<born, users>>

Next ==
    \/ \E s \in Slot, g \in Gen : Publish(s, g)
    \/ \E s \in Slot : Withdraw(s)
    \/ \E u \in User, s \in Slot : Admit(u, s)
    \/ \E u \in User, g \in Gen : Leave(u, g)
    \/ Shutdown

Spec == Init /\ [][Next]_vars

-----------------------------------------------------------------------------

\* A slot's current generation was published, is not draining, and is current
\* nowhere else: what stopped admitting never admits again.
CurrentIsFresh ==
    /\ \A s \in Slot : current[s] # NoGen => current[s] \in born \ draining
    /\ \A s, t \in Slot : current[s] # NoGen /\ current[s] = current[t] => s = t

\* Users are only on generations still open: the current ones and the draining
\* ones; and a generation drains only while it has users.
UsersAreServed ==
    /\ draining \subseteq born
    /\ \A g \in Gen : users[g] # {} =>
         g \in draining \/ \E s \in Slot : current[s] = g
    /\ \A g \in draining : users[g] # {}
=============================================================================
