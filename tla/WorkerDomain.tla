--------------------------- MODULE WorkerDomain ---------------------------
(***************************************************************************)
(* The resource domain the workers run in: whether a plan of costs fits    *)
(* the limits of the budget and the profile of the domain                  *)
(* (runtime/domain.py), and what a worker does to itself before it works   *)
(* (runtime/linux_guard.py).                                               *)
(*                                                                         *)
(* The supervisor reconciles a plan and, when the verdict is ready, admits *)
(* sessions, workers, auxiliaries, candidates and generations up to the    *)
(* budget's limits, each using the most it can use.  A worker protects     *)
(* itself step by step, and the supervisor may die between any two steps.  *)
(* Byte counts are in units of the smallest reservation; a limit that is   *)
(* absent is Absent.                                                       *)
(***************************************************************************)
EXTENDS Integers, Sequences, FiniteSets, FiniteSetsExt, Functions

CONSTANTS Profiles,     \* the profiles a verification stands behind (_PROFILES)
          Candidates,   \* the (profile, plan, limits) that are offered
          MaxNumber,    \* the largest number of bytes (_MAX_NUMBER)
          MaxSlots,     \* the largest number of slots (_MAX_SLOTS)
          Pids          \* the processes that may become workers

Absent == -1

VARIABLES offer,        \* what is reconciled
          phase,        \* "offered", "refused", "open", "lost" (the supervisor died)
          live,         \* [owner -> slots in use]
          guard         \* [pid -> the step of protect_process, or the end of it]

vars == <<offer, phase, live, guard>>

Owners == {"BASE", "HEADROOM", "WORKER", "PARENT", "CANDIDATE", "GENERATION", "AUXILIARY"}

-----------------------------------------------------------------------------
(* Profiles and plans, each by what it must be before it is judged.         *)

Within(n, most) == n \in 1..most
Optional(n, most) == n = Absent \/ Within(n, most)

ProfileValid(p) ==
  /\ (p.memberKind = "NONE") <=> (p.memberBytes = Absent)
  /\ (p.aggregateKind = "NONE") <=> (p.aggregateBytes = Absent)
  /\ \A n \in {p.memberBytes, p.aggregateBytes, p.peak} : Optional(n, MaxNumber)
  /\ Optional(p.maxProcesses, MaxSlots) /\ Optional(p.maxTasks, MaxSlots)

CostsOf(plan, owner) == {i \in DOMAIN plan.costs : plan.costs[i].owner = owner}
Charge(cost) == cost.bytes * cost.slots
Charged(plan, S) == MapThenSumSet(LAMBDA i : Charge(plan.costs[i]), S)
Placed(plan, where) == {i \in DOMAIN plan.costs : plan.costs[i].location = where}

PlanValid(plan) ==
  /\ plan.costs # <<>>
  /\ \A n \in {plan.supervisorThreads, plan.workerThreads, plan.auxiliaryThreads, plan.fixedThreads} : Within(n, MaxSlots)
  /\ plan.fixed \in 0..MaxSlots
  /\ Within(plan.frame, MaxNumber) /\ Within(plan.overhead, MaxNumber) /\ Within(2 * plan.frame + plan.overhead, MaxNumber)
  /\ \A i \in DOMAIN plan.costs :
       LET c == plan.costs[i]
       IN  /\ Within(c.bytes, MaxNumber) /\ Within(c.slots, MaxSlots) /\ Within(Charge(c), MaxNumber)
           /\ c.location = "IN" => c.bound = "none"

LimitsValid(limits) ==
  LET slots == {limits.sessions, limits.workers, limits.candidates, limits.generations, limits.auxiliaries}
  IN  /\ \A n \in {limits.total, limits.base, limits.headroom} : Within(n, MaxNumber)
      /\ \A n \in slots \cup {limits.entries} : Within(n, MaxSlots)
      /\ limits.base + limits.headroom <= limits.total /\ \A n \in slots : n <= limits.entries

\* What keeps a profile from being relied on.  A profile is known by the object it is,
\* its field `object`: a copy with the same contents is not a verified one.
ProfileReasons(p) ==
  {r \in {"UNVERIFIED_PROFILE", "AGGREGATE_UNPROVEN", "MEMBER_LIMIT_UNPROVEN", "UNIT_MISMATCH",
          "COVERAGE_GAP", "CREATION_UNPROVEN", "CLEANUP_UNPROVEN"} :
     CASE r = "UNVERIFIED_PROFILE" -> p \notin Range(Profiles)
       [] r = "AGGREGATE_UNPROVEN" -> \/ p.aggregateKind # "STRICT_PROVEN" \/ p.peak = Absent \/ p.aggregateBytes = Absent
                                      \/ p.peak > p.aggregateBytes
       [] r = "MEMBER_LIMIT_UNPROVEN" -> p.memberKind = "NONE"
       [] r = "UNIT_MISMATCH" -> \/ p.memberKind = "AS_VIRTUAL" /\ p.memberQuantity # "VIRTUAL"
                                 \/ p.memberKind = "JOB_PRIVATE" /\ p.memberQuantity # "PRIVATE"
       [] r = "COVERAGE_GAP" -> ~(p.vectors \subseteq {"DOMAIN_PROVEN", "EXCLUDED_PROVEN"})
       [] r = "CREATION_UNPROVEN" -> ~(p.membersAtCreation /\ p.supervisorAtCreation /\ p.limitsBeforeWork)
       [] r = "CLEANUP_UNPROVEN" -> ~p.ownerLossCleanup}

ExpectedSlots(owner, limits) ==
  CASE owner = "HEADROOM" -> 1 [] owner = "WORKER" -> limits.workers [] owner = "PARENT" -> limits.sessions
    [] owner = "CANDIDATE" -> limits.candidates [] owner = "GENERATION" -> limits.generations
    [] owner = "AUXILIARY" -> limits.auxiliaries

\* Faulty variant of CostReasons: the costs of an owner are not compared with its slots.
CostReasonsLoose(plan, limits) ==
  LET owned(o) == CostsOf(plan, o)
  IN  {r \in {"MISSING_COST"} : \E o \in Owners : owned(o) = {}}

CostReasons(plan, limits) ==
  LET costs == plan.costs
      owned(o) == CostsOf(plan, o)
      supervisor == {i \in DOMAIN costs : costs[i].identity = plan.supervisorCost}
  IN
  {r \in {"DOUBLE_CHARGE", "UNIT_MISMATCH", "MISSING_COST", "CAPACITY", "SUPERVISOR_COST", "TOPOLOGY", "OUTPUT_UNDER_RESERVED"} :
     CASE r = "DOUBLE_CHARGE" -> ~IsInjective([i \in DOMAIN costs |-> costs[i].identity])
       [] r = "UNIT_MISMATCH" -> \E i \in DOMAIN costs : costs[i].quantity # plan.quantity
       [] r = "MISSING_COST" -> \E o \in Owners : owned(o) = {}
       [] r = "CAPACITY" -> \/ \E o \in Owners \ {"BASE"} : \/ Cardinality(owned(o)) # 1
                                                            \/ \E i \in owned(o) : costs[i].slots # ExpectedSlots(o, limits)
                            \/ Charged(plan, owned("BASE")) # limits.base
                            \/ Charged(plan, owned("HEADROOM")) # limits.headroom
       [] r = "SUPERVISOR_COST" -> \/ Cardinality(supervisor) # 1
                                   \/ \E i \in supervisor : costs[i].owner # "BASE" \/ costs[i].location # "IN" \/ costs[i].slots # 1
       [] r = "TOPOLOGY" -> \E i \in owned("WORKER") \cup owned("PARENT") : costs[i].location # "IN"
       [] r = "OUTPUT_UNDER_RESERVED" -> \E i \in owned("PARENT") : costs[i].bytes < 2 * plan.frame + plan.overhead}

Topology(plan, limits, p) ==
  LET processes == 1 + limits.workers + limits.auxiliaries + plan.fixed
      tasks == plan.supervisorThreads + limits.workers * plan.workerThreads
               + limits.auxiliaries * plan.auxiliaryThreads + plan.fixed * plan.fixedThreads
      fixed == {i \in DOMAIN plan.costs : plan.costs[i].identity = plan.fixedCost}
  IN
  {r \in {"TOPOLOGY", "MISSING_COST", "CAPACITY"} :
     CASE r = "TOPOLOGY" -> \/ limits.workers < limits.sessions \/ p.maxProcesses = Absent \/ p.maxTasks = Absent
                            \/ processes > p.maxProcesses \/ tasks > p.maxTasks
       [] r = "MISSING_COST" -> /\ plan.fixed > 0
                                /\ \/ Cardinality(fixed) # 1 \/ plan.fixedCost = plan.supervisorCost
                                   \/ \E i \in fixed : \/ plan.costs[i].owner # "BASE" \/ plan.costs[i].location # "IN"
                                                       \/ plan.costs[i].slots # plan.fixed
       [] r = "CAPACITY" -> plan.fixed = 0 /\ plan.fixedCost # Absent}

\* Costs outside the domain are bounded by another profile, together with its others.
OutsideReasons(plan) ==
  LET out == Placed(plan, "OUT")
      bound(i) == Profiles[plan.costs[i].bound]
      group(name) == {i \in out : plan.costs[i].bound = name}
  IN
  {r \in {"OUTSIDE_UNPROVEN", "UNIT_MISMATCH", "DOMAIN_LIMIT"} :
     CASE r = "OUTSIDE_UNPROVEN" -> \E i \in out : plan.costs[i].bound \notin DOMAIN Profiles \/ ProfileReasons(bound(i)) # {}
       [] r = "UNIT_MISMATCH" -> \E i \in out : plan.costs[i].bound \in DOMAIN Profiles /\ bound(i).aggregateQuantity # plan.quantity
       [] r = "DOMAIN_LIMIT" -> \E name \in DOMAIN Profiles :
                                  /\ group(name) # {} /\ Profiles[name].aggregateQuantity = plan.quantity
                                  /\ Profiles[name].aggregateBytes # Absent
                                  /\ Charged(plan, group(name)) > Profiles[name].aggregateBytes}

Reconcile(o) ==
  LET plan == o.plan
      p == o.profile
      inside == Charged(plan, Placed(plan, "IN"))
      total == Charged(plan, DOMAIN plan.costs)
      joined == {r \in {"UNIT_MISMATCH", "WORKER_UNDER_RESERVED", "BUDGET_EXCEEDED", "DOMAIN_LIMIT"} :
                   CASE r = "UNIT_MISMATCH" -> plan.quantity # p.aggregateQuantity \/ plan.quantity # p.memberQuantity
                     [] r = "WORKER_UNDER_RESERVED" -> /\ p.memberQuantity = plan.quantity /\ p.memberBytes # Absent
                                                       /\ \E i \in CostsOf(plan, "WORKER") : plan.costs[i].bytes < p.memberBytes
                     [] r = "BUDGET_EXCEEDED" -> total > o.limits.total
                     [] r = "DOMAIN_LIMIT" -> p.aggregateQuantity = plan.quantity /\ p.aggregateBytes # Absent /\ inside > p.aggregateBytes}
  IN  IF ~ProfileValid(p) \/ ~PlanValid(plan) \/ ~LimitsValid(o.limits) THEN {"INVALID"}
      ELSE IF \E i \in DOMAIN plan.costs : plan.costs[i].quantity # plan.quantity THEN {"UNIT_MISMATCH"}
      ELSE IF inside > MaxNumber \/ total > MaxNumber THEN {"INVALID"}
      ELSE ProfileReasons(p) \cup CostReasons(plan, o.limits) \cup Topology(plan, o.limits, p) \cup OutsideReasons(plan) \cup joined

-----------------------------------------------------------------------------
(* The steps of protect_process in a worker, in their order.                *)

Steps == <<"look", "profile", "address", "core", "limit", "dumpable", "death signal", "look again", "read back",
           "profile again", "last look", "guarded">>

Init == /\ offer \in Candidates /\ phase = "offered"
        /\ live = [o \in Owners |-> 0]
        /\ guard = [p \in Pids |-> 0]

Judge == /\ phase = "offered"
         /\ phase' = IF Reconcile(offer) = {} THEN "open" ELSE "refused"
         /\ UNCHANGED <<offer, live, guard>>

\* The ledger of the budget admits within its limits; a worker is a process.
Admit(o) ==
  /\ phase = "open" /\ o \notin {"WORKER", "BASE", "HEADROOM"} /\ live[o] < ExpectedSlots(o, offer.limits)
  /\ live' = [live EXCEPT ![o] = @ + 1] /\ UNCHANGED <<offer, phase, guard>>

Spawn(pid) ==
  /\ phase = "open" /\ guard[pid] = 0 /\ live["WORKER"] < offer.limits.workers
  /\ live' = [live EXCEPT !["WORKER"] = @ + 1]
  /\ guard' = [guard EXCEPT ![pid] = 1] /\ UNCHANGED <<offer, phase>>

\* The steps that ask who the parent is; the kernel gives an orphan another one.
ParentIsAsked(step) == step \in {"look", "look again", "last look"}

Failed == -2

\* One step; a check that fails, or a system call that does, ends the process.
Protect(pid) ==
  /\ guard[pid] \in 1..(Len(Steps) - 1)
  /\ \/ /\ ParentIsAsked(Steps[guard[pid]]) => phase = "open"
        /\ guard' = [guard EXCEPT ![pid] = @ + 1]
     \/ guard' = [guard EXCEPT ![pid] = Failed]
  /\ UNCHANGED <<offer, phase, live>>

\* The supervisor dies: the kernel kills every child that has set its death signal.
SupervisorDies ==
  /\ phase = "open" /\ phase' = "lost"
  /\ guard' = [pid \in Pids |-> IF guard[pid] > 7 THEN Failed ELSE guard[pid]]
  /\ UNCHANGED <<offer, live>>

Next == Judge \/ SupervisorDies \/ (\E o \in Owners : Admit(o)) \/ (\E pid \in Pids : Spawn(pid) \/ Protect(pid))

Spec == Init /\ [][Next]_vars

-----------------------------------------------------------------------------

Most(o) == CASE o = "WORKER" -> offer.profile.memberBytes
             [] o = "PARENT" -> 2 * offer.plan.frame + offer.plan.overhead
             [] OTHER -> CHOOSE b \in {offer.plan.costs[i].bytes : i \in CostsOf(offer.plan, o)} : TRUE

Kept == {"BASE", "HEADROOM"}   \* in use whether or not anything is admitted

\* What everything placed there can use together.
Using(where) ==
  MapThenSumSet(LAMBDA i : LET c == offer.plan.costs[i] IN IF c.owner \in Kept THEN Charge(c) ELSE live[c.owner] * Most(c.owner),
                Placed(offer.plan, where))

\* Once a plan was accepted, nothing the budget can admit goes past a limit: what all
\* live owners can use together, each at its own most, stays within the budget, and
\* what is inside stays within what the domain enforces; so do the processes and
\* their threads, and every session that was admitted can have a worker.
AcceptedDomainHolds ==
  phase = "open" =>
    /\ Using("IN") + Using("OUT") <= offer.limits.total
    /\ Using("IN") <= offer.profile.aggregateBytes
    /\ 1 + live["WORKER"] + live["AUXILIARY"] + offer.plan.fixed <= offer.profile.maxProcesses
    /\ offer.plan.supervisorThreads + live["WORKER"] * offer.plan.workerThreads + live["AUXILIARY"] * offer.plan.auxiliaryThreads
       + offer.plan.fixed * offer.plan.fixedThreads <= offer.profile.maxTasks
    /\ live["PARENT"] <= offer.limits.workers

\* A worker that finished protecting itself does not outlive its supervisor, whenever
\* that dies: not even when it dies between two of the worker's own steps.
GuardedDiesWithSupervisor == phase = "lost" => \A pid \in Pids : guard[pid] < Len(Steps)

\* The domain is sound: an accepted plan holds, and no guarded worker outlives its
\* supervisor.
DomainSound == AcceptedDomainHolds /\ GuardedDiesWithSupervisor
=============================================================================
