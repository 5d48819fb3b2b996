-------------------------- MODULE MCBudgetLedger --------------------------
(***************************************************************************)
(* The ledger of credits for TLC: three slots of two epochs each, two      *)
(* interchangeable datasources with room for two sessions and one          *)
(* candidate, and a total that refuses a second expensive session.  Side   *)
(* by side, the reconciliation of a domain with the limits of the ledger,  *)
(* what it then admits, and the workers that guard themselves.             *)
(***************************************************************************)
EXTENDS BudgetLedger, TLC

MCLimits ==
    [total |-> 10, base |-> 1, headroom |-> 1, sessions |-> 2, workers |-> 2,
     candidates |-> 2, generations |-> 2, auxiliaries |-> 1]

MCCapacity == [d \in Datasource |-> [sessions |-> 2, candidates |-> 1]]

DatasourceSymmetry == Permutations(Datasource)
-----------------------------------------------------------------------------
\* The two profiles of the code, which no verification has completed, and two that one has.
DomainProfiles ==
  LET proven == [object |-> "proven", memberKind |-> "AS_VIRTUAL", memberQuantity |-> "VIRTUAL", memberBytes |-> 3, aggregateKind |-> "STRICT_PROVEN",
                 aggregateQuantity |-> "VIRTUAL", aggregateBytes |-> 20, peak |-> 18, vectors |-> {"DOMAIN_PROVEN", "EXCLUDED_PROVEN"},
                 maxProcesses |-> 5, maxTasks |-> 9, membersAtCreation |-> TRUE, supervisorAtCreation |-> TRUE,
                 limitsBeforeWork |-> TRUE, ownerLossCleanup |-> TRUE]
  IN  [proven |-> proven,
       outer |-> [proven EXCEPT !.object = "outer", !.aggregateBytes = 3, !.peak = 2],
       linux |-> [proven EXCEPT !.object = "linux", !.aggregateKind = "TRANSIENT_DOCUMENTED", !.aggregateQuantity = "RESIDENT",
                                !.vectors = {"MEMBER_ONLY", "UNKNOWN"}, !.ownerLossCleanup = FALSE],
       windows |-> [proven EXCEPT !.object = "windows", !.memberKind = "JOB_PRIVATE", !.memberQuantity = "PRIVATE", !.aggregateKind = "NONE",
                                  !.aggregateQuantity = "PRIVATE", !.aggregateBytes = -1, !.peak = -1,
                                  !.vectors = {"MEMBER_ONLY", "GAP_OBSERVED", "UNKNOWN"}, !.maxTasks = -1,
                                  !.supervisorAtCreation = FALSE, !.ownerLossCleanup = FALSE]]

DomainCost(id, owner, bytes, slots) ==
  [identity |-> id, owner |-> owner, location |-> "IN", quantity |-> "VIRTUAL", bytes |-> bytes, slots |-> slots, bound |-> "none"]

DomainPlan == [quantity |-> "VIRTUAL", supervisorCost |-> 1, supervisorThreads |-> 2, workerThreads |-> 2, auxiliaryThreads |-> 1,
           fixed |-> 1, fixedThreads |-> 1, fixedCost |-> 2, frame |-> 1, overhead |-> 1,
           costs |-> <<DomainCost(1, "BASE", 1, 1), DomainCost(2, "BASE", 1, 1), DomainCost(3, "HEADROOM", 1, 1), DomainCost(4, "WORKER", 3, 2),
                       DomainCost(5, "PARENT", 3, 2), DomainCost(6, "CANDIDATE", 1, 1), DomainCost(7, "GENERATION", 1, 2),
                       [DomainCost(8, "AUXILIARY", 2, 1) EXCEPT !.location = "OUT", !.bound = "outer"]>>]
DomainLimits == [total |-> 21, base |-> 2, headroom |-> 1, entries |-> 2, workers |-> 2, sessions |-> 2, candidates |-> 1, generations |-> 2, auxiliaries |-> 1]

\* Plans that differ from an exact one in one place, against limits one off and against
\* each profile.
DomainPlans ==
  {DomainPlan, [DomainPlan EXCEPT !.costs = <<>>], [DomainPlan EXCEPT !.frame = 2], [DomainPlan EXCEPT !.fixed = 0], [DomainPlan EXCEPT !.fixed = 2],
   [DomainPlan EXCEPT !.fixedCost = 1], [DomainPlan EXCEPT !.supervisorCost = 9], [DomainPlan EXCEPT !.workerThreads = 3], [DomainPlan EXCEPT !.quantity = "PRIVATE"]}
  \cup {[DomainPlan EXCEPT !.costs[i] = c] : i \in {3}, c \in {DomainCost(3, "HEADROOM", 1, 2), DomainCost(1, "HEADROOM", 1, 1), DomainCost(3, "BASE", 1, 1)}}
  \cup {[DomainPlan EXCEPT !.costs[i].bytes = n] : i \in 1..8, n \in {1, 2, 4}}
  \cup {[DomainPlan EXCEPT !.costs[i].slots = n] : i \in 1..8, n \in {1, 2, 3}}
  \cup {[DomainPlan EXCEPT !.costs[i].location = "OUT", !.costs[i].bound = b] : i \in 1..8, b \in {"none", "outer", "linux", "windows"}}
  \cup {[DomainPlan EXCEPT !.costs[i].quantity = "PRIVATE"] : i \in {4}}

DomainLimitsSet == {DomainLimits} \cup {[DomainLimits EXCEPT ![f] = @ + d] : f \in DOMAIN DomainLimits, d \in {-1, 1}}

DomainCandidates ==
  {[plan |-> plan, profile |-> DomainProfiles.proven, limits |-> limits] : plan \in DomainPlans, limits \in DomainLimitsSet}
  \cup {[plan |-> plan, profile |-> DomainProfiles[n], limits |-> DomainLimits] : plan \in DomainPlans, n \in DOMAIN DomainProfiles}
  \cup {[plan |-> DomainPlan, profile |-> [DomainProfiles.proven EXCEPT !.object = "a copy"], limits |-> DomainLimits]}

-----------------------------------------------------------------------------
CONSTANTS MaxNumber, MaxSlots, Pids    \* of WorkerDomain

VARIABLES part, offer, phase, live, guard

domainVars == <<offer, phase, live, guard>>

Domain == INSTANCE WorkerDomain WITH Profiles <- DomainProfiles, Candidates <- DomainCandidates

PartsInit ==
    /\ Init
    /\ \/ part = "ledger" /\ offer = 0 /\ phase = 0 /\ live = 0 /\ guard = 0
       \/ part = "domain" /\ Domain!Init

PartsNext ==
    \/ part = "ledger" /\ Next /\ UNCHANGED <<part, domainVars>>
    \/ part = "domain" /\ Domain!Next /\ UNCHANGED <<part, vars>>

Parts == PartsInit /\ [][PartsNext]_<<part, vars, domainVars>>

(***************************************************************************)
(* DomainSound of WorkerDomain: nothing an accepted plan admits goes past  *)
(* a limit, and no guarded worker outlives its supervisor.                 *)
(***************************************************************************)
DomainSound == part = "domain" => Domain!DomainSound
=============================================================================
