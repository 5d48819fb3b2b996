------------------------- MODULE ApplicationProofs -------------------------
(***************************************************************************)
(* The application closes nothing under a thread that may use it and       *)
(* forgets nothing, for any number of threads that call run() and close(), *)
(* on every path of the start, of its unwinding and of close().            *)
(*                                                                         *)
(* The argument: a proof that threads have ended stays true, because only  *)
(* the start creates threads and it is over when somebody asks for proofs; *)
(* and one caller at a time is inside close(), so what its steps have      *)
(* established is still true at the next one.                              *)
(***************************************************************************)
EXTENDS Application, TLAPS

(* The steps of close() after its lock. *)
InClose == CloseSteps \ {"locking"}
AfterHttp == {"runtime", "catalog", "config", "finish"}

Both == {"work", "listener"}

(* The catalogue is there before its users; only the queue and the         *)
(* listener may be of unknown state.                                       *)
UsersInv ==
    /\ Consistent(parts)
    /\ http # "unsure"
    /\ Dependent => catalog # "none"
    /\ listener # "none" => HasListener

(* Nothing is closed or called while the start runs. *)
BuildInv ==
    /\ phase = "building" =>
        /\ next \in StartSteps
        /\ next = "catalog" => ~Dependent
        /\ next # "catalog" => ("catalog" \in parts => catalog = "open")
        /\ "closed" \notin {runtime, catalog, config}
        /\ ledger = {}
    /\ phase # "built" =>
        /\ ~running /\ ~closing /\ ~closed
        /\ \A c \in Caller : pc[c] = "idle" /\ proof[c] = {}
    /\ phase \in {"unwinding", "failed"} => next \in UnwindSteps

(* What each step of the unwinding has established. *)
UnwindInv ==
    /\ phase = "unwinding" =>
        /\ next \notin {"catalog", "config", "release"} => config # "closed"
        /\ next \in {"catalog", "config", "release"} => runtime # "open"
        /\ next \in {"retain", "barriers", "drain", "listener", "http"} =>
                "closed" \notin {runtime, catalog}
        /\ next \in {"runtime", "catalog", "config", "release"} => ~Live(http)
        /\ next \in {"listener", "http", "runtime", "catalog", "config", "release"} =>
                (settled => ~Live(work))
        /\ next \in {"http", "runtime", "catalog", "config", "release"} =>
                (settled => ~Live(listener))
        /\ next # "retain" /\ Dependent => Owners \subseteq ledger

(* What each step of close() has established, for the caller inside. *)
CloseInv ==
    /\ \A c \in Caller :
        /\ pc[c] \in InClose => lock = c
        /\ pc[c] \in CloseSteps => closing
        /\ pc[c] \in AfterHttp => ~Live(http)
        /\ pc[c] \in {"catalog", "config", "finish"} => runtime = "closed"
        /\ pc[c] \in {"config", "finish"} /\ Both \subseteq proof[c] => catalog # "open"
        /\ pc[c] = "finish" => config # "open"
        /\ pc[c] \in InClose /\ Live(listener) => "application" \in ledger
        /\ "work" \in proof[c] => ~Live(work)
        /\ "listener" \in proof[c] => ~Live(listener)
    /\ closing => ~running
    /\ closed => \A c \in Caller : pc[c] \notin InClose
    /\ phase = "built" /\ runtime = "closed" => closing /\ (Live(listener) => "application" \in ledger)

IInv ==
    /\ TypeOK
    /\ UsersInv
    /\ BuildInv
    /\ UnwindInv
    /\ CloseInv
    /\ NothingClosedUnderUser
    /\ NothingForgotten

-----------------------------------------------------------------------------
(* While the start or its unwinding runs, nobody calls *)

LEMMA QuietCalls ==
    ASSUME BuildInv', phase' # "built"
    PROVE  CloseInv' /\ ClosedIsComplete'
<1>1. /\ ~running' /\ ~closing' /\ ~closed'
      /\ \A c \in Caller : pc'[c] = "idle" /\ proof'[c] = {}
  BY DEF BuildInv
<1>2. CloseInv'
  BY <1>1 DEF CloseInv, CloseSteps, InClose, AfterHttp
<1> QED
  BY <1>1, <1>2 DEF ClosedIsComplete

-----------------------------------------------------------------------------
(* The start *)

LEMMA StartKeeps ==
    ASSUME IInv,
           \/ OpenCatalog \/ LoadConfiguration \/ ConnectAdapter \/ BuildRegistry
           \/ StartWork \/ StartHttp \/ StartListener
    PROVE  IInv'
<1> USE DEF OpenCatalog, LoadConfiguration, ConnectAdapter, BuildRegistry, StartWork, StartHttp,
            StartListener, Building, threadVars
<1>1. phase = "building" /\ phase' = "building" /\ UNCHANGED <<parts, settled, busy, callVars, ledger>>
  OBVIOUS
<1>2. UNCHANGED <<running, closing, closed, lock, pc, proof, failed>>
  BY <1>1 DEF callVars
<1>3. TypeOK'
  <2>1. next' \in StartSteps
    BY DEF StartSteps
  <2>2. work' \in Threads /\ http' \in Threads /\ listener' \in Threads
    BY DEF IInv, TypeOK, Threads
  <2>3. runtime' \in Resource \cup {"adapter"} /\ catalog' \in Resource /\ config' \in Resource
    BY DEF IInv, TypeOK, Resource, resourceVars
  <2>4. admitting' \subseteq {"work", "listener"}
    BY DEF IInv, TypeOK
  <2> QED
    BY <1>1, <1>2, <2>1, <2>2, <2>3, <2>4 DEF IInv, TypeOK
<1>4. UsersInv' /\ BuildInv'
  <2>1. CASE OpenCatalog
    BY <1>1, <1>2, <2>1 DEF IInv, UsersInv, BuildInv, Dependent, StartSteps, HasListener, Consistent
  <2>2. CASE LoadConfiguration \/ ConnectAdapter \/ BuildRegistry \/ StartHttp
    BY <1>1, <1>2, <2>2 DEF IInv, UsersInv, BuildInv, Dependent, StartSteps, HasListener, Consistent,
       resourceVars
  <2>3. CASE StartWork \/ StartListener
    <3>1. HasWork \/ HasListener => catalog = "open"
      BY <1>1, <2>3 DEF IInv, UsersInv, BuildInv, HasWork, HasListener, Consistent
    <3> QED
      BY <1>1, <1>2, <2>3, <3>1 DEF IInv, UsersInv, BuildInv, Dependent, StartSteps, HasListener, HasWork,
         Consistent, resourceVars
  <2> QED
    BY <2>1, <2>2, <2>3
<1>5. UnwindInv' /\ NothingClosedUnderUser' /\ SurvivorsAreRetained'
  BY <1>1, <1>4 DEF BuildInv, UnwindInv, NothingClosedUnderUser, SurvivorsAreRetained
<1> QED
  BY <1>1, <1>3, <1>4, <1>5, QuietCalls DEF IInv, NothingForgotten

LEMMA BuildMcpKeeps == ASSUME IInv, BuildMcp PROVE IInv'
<1> USE DEF BuildMcp, threadVars, resourceVars, callVars
<1>1. TypeOK' /\ UsersInv'
  BY DEF IInv, TypeOK, UsersInv, Dependent, HasListener, Consistent
<1>2. BuildInv' /\ UnwindInv' /\ NothingClosedUnderUser' /\ SurvivorsAreRetained'
  BY DEF IInv, BuildInv, UnwindInv, NothingClosedUnderUser, SurvivorsAreRetained
<1>3. CloseInv' /\ ClosedIsComplete'
  BY DEF IInv, BuildInv, CloseInv, ClosedIsComplete, CloseSteps, InClose, AfterHttp
<1> QED
  BY <1>1, <1>2, <1>3 DEF IInv, NothingForgotten

LEMMA BuildFailsKeeps == ASSUME IInv, BuildFails PROVE IInv'
<1> USE DEF BuildFails
<1>1. phase = "building" /\ phase' = "unwinding" /\ next' = "retain"
      /\ UNCHANGED <<parts, settled, admitting, busy, runtime, catalog, config, ledger, running, closing,
                     closed, lock, pc, proof, failed>>
  BY DEF resourceVars, callVars
<1>2. /\ work' \in {work, "alive", "unsure"} /\ (work' # work => HasWork /\ next = "work")
      /\ listener' \in {listener, "alive", "unsure"}
      /\ listener' # listener => HasListener /\ next = "pgwire"
      /\ http' \in {http, "ended"}
  OBVIOUS
<1>3. TypeOK'
  BY <1>1, <1>2 DEF IInv, TypeOK, StartSteps, UnwindSteps, Threads
<1>4. UsersInv'
  BY <1>1, <1>2 DEF IInv, UsersInv, BuildInv, Dependent, HasListener, HasWork, Consistent
<1>5. BuildInv'
  BY <1>1 DEF IInv, BuildInv, UnwindSteps
<1>6. UnwindInv' /\ NothingClosedUnderUser' /\ SurvivorsAreRetained'
  BY <1>1 DEF IInv, BuildInv, UnwindInv, NothingClosedUnderUser, SurvivorsAreRetained
<1> QED
  BY <1>1, <1>3, <1>4, <1>5, <1>6, QuietCalls DEF IInv, NothingForgotten

-----------------------------------------------------------------------------
(* The unwinding *)

LEMMA UnwindsKeeps ==
    ASSUME IInv,
           \/ UnwindRetain \/ UnwindBarriers \/ UnwindDrain \/ UnwindListener \/ UnwindHttp
           \/ UnwindRuntime \/ UnwindCatalog \/ UnwindConfig
    PROVE  IInv'
<1> USE DEF UnwindRetain, UnwindBarriers, UnwindDrain, UnwindListener, UnwindHttp, UnwindRuntime,
            UnwindCatalog, UnwindConfig, Unwinding, threadVars, resourceVars, AfterDrain
<1>1. phase = "unwinding" /\ phase' = "unwinding" /\ UNCHANGED <<parts, busy, callVars>>
  OBVIOUS
<1>2. UNCHANGED <<running, closing, closed, lock, pc, proof, failed>>
  BY <1>1 DEF callVars
<1>3. TypeOK'
  <2>1. next' \in UnwindSteps /\ settled' \in BOOLEAN
    BY DEF IInv, TypeOK, UnwindSteps, Live
  <2>2. work' \in Threads /\ http' \in Threads /\ listener' \in Threads
    BY DEF IInv, TypeOK, Threads
  <2>3. runtime' \in Resource \cup {"adapter"} /\ catalog' \in Resource /\ config' \in Resource
    BY DEF IInv, TypeOK, Resource
  <2>4. admitting' \subseteq {"work", "listener"}
    BY DEF IInv, TypeOK
  <2>5. ledger' \subseteq Owned
    BY DEF IInv, TypeOK, Owners, Owned
  <2> QED
    BY <1>1, <1>2, <2>1, <2>2, <2>3, <2>4, <2>5 DEF IInv, TypeOK
<1>4. UsersInv'
  BY <1>1 DEF IInv, UsersInv, Dependent, HasListener, Consistent
<1>5. BuildInv'
  BY <1>1, <1>2 DEF IInv, BuildInv, UnwindSteps
<1>6. UnwindInv'
  BY <1>1 DEF IInv, UsersInv, UnwindInv, Live, Dependent, Owners
<1>7. NothingClosedUnderUser' /\ SurvivorsAreRetained'
  BY <1>1, <1>2 DEF IInv, BuildInv, UnwindInv, NothingClosedUnderUser, SurvivorsAreRetained, Live
<1> QED
  BY <1>1, <1>3, <1>4, <1>5, <1>6, <1>7, QuietCalls DEF IInv, NothingForgotten

LEMMA GiveKeeps ==
    ASSUME IInv, UnwindHttpFails \/ UnwindCloseFails \/ UnwindRelease
    PROVE  IInv'
<1> USE DEF UnwindHttpFails, UnwindCloseFails, UnwindRelease, Give, threadVars, resourceVars
<1>1. phase = "unwinding" /\ phase' = "failed" /\ UNCHANGED <<parts, next, settled, work, http, listener,
        admitting, busy, runtime, catalog, config, running, closing, closed, lock, pc, proof, failed>>
  BY DEF callVars
<1>2. TypeOK'
  BY <1>1 DEF IInv, TypeOK, Owned
<1>3. UsersInv'
  BY <1>1 DEF IInv, UsersInv, Dependent, HasListener, Consistent
<1>4. BuildInv' /\ UnwindInv' /\ NothingClosedUnderUser'
  BY <1>1 DEF IInv, BuildInv, UnwindInv, NothingClosedUnderUser
<1>5. SurvivorsAreRetained'
  BY <1>1 DEF IInv, UsersInv, UnwindInv, SurvivorsAreRetained, Live, Dependent, Owners
<1> QED
  BY <1>1, <1>2, <1>3, <1>4, <1>5, QuietCalls DEF IInv, NothingForgotten

-----------------------------------------------------------------------------
(* The threads of the parts *)

LEMMA ThreadsKeep ==
    ASSUME IInv, AcceptWork \/ FinishWork \/ LoseWorker \/ Resolve
    PROVE  IInv'
<1> USE DEF AcceptWork, FinishWork, LoseWorker, Resolve, resourceVars, startVars, callVars
<1>1. UNCHANGED <<http, admitting, runtime, catalog, config, ledger, parts, phase, next, settled,
                 running, closing, closed, lock, pc, proof, failed>>
  OBVIOUS
<1>2. /\ Live(work') => Live(work)
      /\ Live(listener') => Live(listener)
      /\ work' = "none" <=> work = "none"
      /\ listener' = "none" <=> listener = "none"
  BY DEF Live
<1>3. TypeOK'
  <2>1. work' \in Threads /\ listener' \in Threads /\ busy' \in BOOLEAN
    BY DEF IInv, TypeOK, Threads
  <2> QED
    BY <1>1, <2>1 DEF IInv, TypeOK
<1>4. UsersInv' /\ BuildInv'
  BY <1>1, <1>2 DEF IInv, UsersInv, BuildInv, Dependent, HasListener, Consistent
<1>5. UnwindInv'
  BY <1>1, <1>2 DEF IInv, UnwindInv, Live, Dependent, Owners
<1>6. CloseInv'
  BY <1>1, <1>2 DEF IInv, CloseInv, Live
<1>7. NothingClosedUnderUser' /\ ClosedIsComplete' /\ SurvivorsAreRetained'
  BY <1>1, <1>2 DEF IInv, NothingClosedUnderUser, NothingForgotten, ClosedIsComplete,
     SurvivorsAreRetained, Live, Dependent
<1> QED
  BY <1>3, <1>4, <1>5, <1>6, <1>7 DEF IInv, NothingForgotten

-----------------------------------------------------------------------------
(* run() and close(): somebody calls only a built application *)

LEMMA CallersAreBuilt ==
    ASSUME IInv, NEW c \in Caller, pc[c] # "idle"
    PROVE  phase = "built"
  BY DEF IInv, BuildInv

(* The part of the invariant that a step of a caller cannot disturb. *)
LEMMA BuiltKeeps ==
    ASSUME IInv, phase = "built", UNCHANGED startVars,
           http' # "unsure", catalog' # "none" \/ catalog' = catalog,
           work' = "none" <=> work = "none", listener' = "none" <=> listener = "none"
    PROVE  UsersInv' /\ BuildInv' /\ UnwindInv'
<1>1. phase' = "built" /\ parts' = parts
  BY DEF startVars
<1>2. UsersInv'
  BY <1>1 DEF IInv, UsersInv, Dependent, HasListener, Consistent
<1> QED
  BY <1>1, <1>2 DEF BuildInv, UnwindInv

LEMMA CallKeeps ==
    ASSUME IInv, NEW c \in Caller, Run(c) \/ RunEnds(c) \/ Close(c)
    PROVE  IInv'
<1> USE DEF Run, RunEnds, Close, Step
<1>1. /\ phase = "built" /\ phase' = "built"
      /\ UNCHANGED <<work, http, listener, admitting, busy, runtime, catalog, config, ledger, parts, next,
                     settled, closed, lock, proof, failed>>
  BY CallersAreBuilt DEF startVars, threadVars, resourceVars
<1>2. \E step \in {"idle", "serving", "served", "locking"} :
        pc[c] \notin CloseSteps /\ pc' = [pc EXCEPT ![c] = step] /\ (step = "locking" => closing')
  BY DEF CloseSteps
<1>3. /\ running' \in BOOLEAN /\ closing' \in BOOLEAN /\ (closing => closing')
      /\ running' => ~closing' /\ (running \/ runtime # "closed")
  <2>1. running \in BOOLEAN /\ closing \in BOOLEAN /\ (closing => ~running)
    BY DEF IInv, TypeOK, CloseInv
  <2>2. CASE Run(c)
    BY <1>1, <2>1, <2>2 DEF IInv, CloseInv
  <2>3. CASE RunEnds(c)
    BY <2>1, <2>3
  <2>4. CASE Close(c)
    BY <2>1, <2>4
  <2> QED
    BY <2>2, <2>3, <2>4
<1>4. TypeOK'
  <2>1. pc' \in [Caller -> {"idle", "serving", "served"} \cup CloseSteps]
    BY <1>2 DEF IInv, TypeOK, CloseSteps
  <2> QED
    BY <1>1, <1>3, <2>1 DEF IInv, TypeOK
<1>5. UsersInv' /\ BuildInv' /\ UnwindInv'
  BY <1>1, BuiltKeeps DEF startVars, IInv, UsersInv
<1>6. \A d \in Caller : /\ pc'[d] \in InClose => pc[d] = pc'[d]
                        /\ pc'[d] \in CloseSteps => pc[d] = pc'[d] \/ closing'
  BY <1>2 DEF IInv, TypeOK, CloseSteps, InClose
<1>7. CloseInv'
  <2>1. ASSUME NEW d \in Caller
        PROVE  /\ pc'[d] \in InClose => lock' = d
               /\ pc'[d] \in CloseSteps => closing'
               /\ pc'[d] \in AfterHttp => ~Live(http')
               /\ pc'[d] \in {"catalog", "config", "finish"} => runtime' = "closed"
               /\ pc'[d] \in {"config", "finish"} /\ Both \subseteq proof'[d] => catalog' # "open"
               /\ pc'[d] = "finish" => config' # "open"
               /\ pc'[d] \in InClose /\ Live(listener') => "application" \in ledger'
               /\ "work" \in proof'[d] => ~Live(work')
               /\ "listener" \in proof'[d] => ~Live(listener')
    BY <1>1, <1>3, <1>6 DEF IInv, CloseInv, CloseSteps, InClose, AfterHttp, Live
  <2>2. closed' => \A d \in Caller : pc'[d] \notin InClose
    BY <1>1, <1>6 DEF IInv, CloseInv
  <2>3. phase' = "built" /\ runtime' = "closed" => closing' /\ (Live(listener') => "application" \in ledger')
    BY <1>1, <1>3 DEF IInv, CloseInv, Live
  <2> QED
    BY <1>3, <2>1, <2>2, <2>3 DEF CloseInv, Live
<1>8. NothingClosedUnderUser' /\ NothingForgotten'
  BY <1>1, <1>3 DEF IInv, NothingClosedUnderUser, NothingForgotten, ClosedIsComplete, SurvivorsAreRetained,
     Live, Dependent
<1> QED
  BY <1>4, <1>5, <1>7, <1>8 DEF IInv

-----------------------------------------------------------------------------
(* The steps of close() *)

(***************************************************************************)
(* What a step of the caller c inside close() leaves of the invariant: the *)
(* others are outside, so what it establishes it establishes for itself.   *)
(***************************************************************************)
LEMMA InsideKeeps ==
    ASSUME IInv, NEW c \in Caller, NEW step \in {"idle"} \cup InClose,
           lock = c \/ lock = Nobody,
           UNCHANGED startVars, UNCHANGED <<running, closing>>, phase = "built", closing,
           pc' = [pc EXCEPT ![c] = step],
           TypeOK',
           lock' = IF step = "idle" THEN Nobody ELSE c,
           ~closed, closed' => step = "idle",
           http' \in {http, "ended"}, catalog' \in {catalog, "closed"},
           config' \in {config, "closed"}, runtime' \in {runtime, "closed"},
           work' = "none" <=> work = "none", listener' = "none" <=> listener = "none",
           Live(work') => Live(work), Live(listener') => Live(listener),
           \A d \in Caller : d # c => proof'[d] = proof[d],
           "work" \in proof'[c] => ~Live(work'), "listener" \in proof'[c] => ~Live(listener'),
           Live(listener') => "application" \in ledger',
           step \in AfterHttp => ~Live(http'),
           step \in {"catalog", "config", "finish"} => runtime' = "closed",
           step \in {"config", "finish"} /\ Both \subseteq proof'[c] => catalog' # "open",
           step = "finish" => config' # "open",
           NothingClosedUnderUser', ClosedIsComplete'
    PROVE  IInv'
<1>1. UsersInv' /\ BuildInv' /\ UnwindInv'
  BY BuiltKeeps DEF IInv, UsersInv
<1>2. phase' = "built"
  BY DEF startVars
<1>3. \A d \in Caller : d # c => pc'[d] = pc[d] /\ pc[d] \notin InClose
  BY CallersAssumption DEF IInv, TypeOK, CloseInv
<1>4. pc'[c] = step
  BY DEF IInv, TypeOK
<1>5. CloseInv'
  <2>1. ASSUME NEW d \in Caller
        PROVE  /\ pc'[d] \in InClose => lock' = d
               /\ pc'[d] \in CloseSteps => closing'
               /\ pc'[d] \in AfterHttp => ~Live(http')
               /\ pc'[d] \in {"catalog", "config", "finish"} => runtime' = "closed"
               /\ pc'[d] \in {"config", "finish"} /\ Both \subseteq proof'[d] => catalog' # "open"
               /\ pc'[d] = "finish" => config' # "open"
               /\ pc'[d] \in InClose /\ Live(listener') => "application" \in ledger'
               /\ "work" \in proof'[d] => ~Live(work')
               /\ "listener" \in proof'[d] => ~Live(listener')
    <3>1. CASE d = c
      BY <1>4, <3>1 DEF InClose, CloseSteps
    <3>2. CASE d # c
      BY <1>3, <3>2 DEF IInv, CloseInv, InClose, CloseSteps, AfterHttp
    <3> QED
      BY <3>1, <3>2
  <2>2. closed' => \A d \in Caller : pc'[d] \notin InClose
    BY <1>3, <1>4 DEF InClose, CloseSteps
  <2>3. closing' => ~running'
    BY DEF IInv, CloseInv
  <2>4. phase' = "built" /\ runtime' = "closed" => closing' /\ (Live(listener') => "application" \in ledger')
    OBVIOUS
  <2> QED
    BY <2>1, <2>2, <2>3, <2>4 DEF CloseInv, Live
<1>6. SurvivorsAreRetained'
  BY <1>2 DEF SurvivorsAreRetained
<1> QED
  BY <1>1, <1>5, <1>6 DEF IInv, NothingForgotten

(* What holds for the caller before each step. *)
LEMMA InsideIs ==
    ASSUME IInv, NEW c \in Caller, pc[c] \in InClose
    PROVE  /\ phase = "built" /\ lock = c /\ closing /\ ~running /\ ~closed
           /\ Live(listener) => "application" \in ledger
<1>1. pc[c] # "idle" /\ pc[c] \in CloseSteps
  BY DEF InClose, CloseSteps
<1>2. phase = "built"
  BY <1>1, CallersAreBuilt
<1> QED
  BY <1>1, <1>2 DEF IInv, CloseInv

LEMMA LockKeeps == ASSUME IInv, NEW c \in Caller, Lock(c) PROVE IInv'
<1>1. phase = "built" /\ closing
  BY CallersAreBuilt DEF Lock, IInv, CloseInv, CloseSteps
<1>2. UNCHANGED <<startVars, running, closing, closed, work, http, listener, admitting, busy, runtime, catalog,
                 config>>
  BY DEF Lock, threadVars, resourceVars
<1>3. CASE closed
  <2>1. /\ pc' = [pc EXCEPT ![c] = "idle"]
        /\ UNCHANGED <<lock, ledger, proof, failed>>
    BY <1>3 DEF Lock
  <2>2. TypeOK'
    BY <1>2, <2>1 DEF IInv, TypeOK, startVars
  <2>3. UsersInv' /\ BuildInv' /\ UnwindInv'
    BY <1>1, <1>2, BuiltKeeps DEF IInv, UsersInv
  <2>4. \A d \in Caller : pc'[d] = pc[d] \/ pc'[d] = "idle"
    BY <2>1 DEF IInv, TypeOK
  <2>5. CloseInv'
    BY <1>2, <2>1, <2>4 DEF IInv, CloseInv, InClose, CloseSteps, AfterHttp, Live, startVars
  <2>6. NothingClosedUnderUser' /\ NothingForgotten'
    BY <1>2, <2>1 DEF IInv, NothingClosedUnderUser, NothingForgotten, ClosedIsComplete, SurvivorsAreRetained,
       Live, Dependent, startVars
  <2> QED
    BY <2>2, <2>3, <2>5, <2>6 DEF IInv
<1>4. CASE ~closed
  <2>1. /\ pc' = [pc EXCEPT ![c] = "barriers"]
        /\ lock = Nobody /\ lock' = c
        /\ ledger' = IF HasListener THEN ledger \cup {"application"} ELSE ledger
        /\ proof' = [proof EXCEPT ![c] = {}]
        /\ failed' = failed \ {c}
    BY <1>4 DEF Lock
  <2>2. TypeOK'
    <3>1. pc' \in [Caller -> {"idle", "serving", "served"} \cup CloseSteps]
      BY <2>1 DEF IInv, TypeOK, CloseSteps
    <3>2. proof' \in [Caller -> SUBSET {"work", "listener"}]
      BY <2>1 DEF IInv, TypeOK
    <3>3. ledger' \subseteq Owned
      BY <2>1 DEF IInv, TypeOK, Owned
    <3> QED
      BY <1>2, <2>1, <3>1, <3>2, <3>3 DEF IInv, TypeOK, startVars
  <2>3. proof'[c] = {} /\ \A d \in Caller : d # c => proof'[d] = proof[d]
    BY <2>1 DEF IInv, TypeOK
  <2>4. Live(listener) => "application" \in ledger'
    BY <2>1 DEF IInv, UsersInv, Live
  <2>5. NothingClosedUnderUser' /\ ClosedIsComplete'
    BY <1>2, <1>4 DEF IInv, NothingClosedUnderUser, ClosedIsComplete, Live
  <2> DEFINE step == "barriers"
  <2>6. step \in InClose /\ step \notin AfterHttp /\ step \notin {"idle", "catalog", "config", "finish"}
    BY DEF InClose, CloseSteps, AfterHttp
  <2> HIDE DEF step
  <2>7. pc' = [pc EXCEPT ![c] = step]
    BY <2>1 DEF step
  <2> QED
    BY <1>1, <1>2, <1>4, <2>1, <2>2, <2>3, <2>4, <2>5, <2>6, <2>7, InsideKeeps DEF Live
<1> QED
  BY <1>3, <1>4

LEMMA CloseBarriersKeeps == ASSUME IInv, NEW c \in Caller, CloseBarriers(c) PROVE IInv'
<1> DEFINE step == "drain"
<1>1. pc[c] = "barriers" /\ pc' = [pc EXCEPT ![c] = step]
  BY DEF CloseBarriers, Step
<1>2. pc[c] \in InClose /\ step \in {"idle"} \cup InClose
  BY <1>1 DEF InClose, CloseSteps
<1>3. /\ phase = "built" /\ lock = c /\ closing /\ ~running /\ ~closed
      /\ Live(listener) => "application" \in ledger
  BY <1>2, InsideIs
<1>4. UNCHANGED <<startVars, running, closing, work, http, listener, busy, runtime, catalog,
                 config, ledger, closed, lock, proof, failed>>
  BY DEF CloseBarriers, threadVars, resourceVars
<1>5. pc' \in [Caller -> {"idle", "serving", "served"} \cup CloseSteps]
  BY <1>1, <1>2 DEF IInv, TypeOK, InClose
<1>6. TypeOK'
  <2>1. admitting' = {}
    BY DEF CloseBarriers
  <2> QED
    BY <1>4, <1>5, <2>1 DEF IInv, TypeOK, startVars
<1>7. NothingClosedUnderUser' /\ ClosedIsComplete'
  BY <1>3, <1>4 DEF IInv, NothingClosedUnderUser, ClosedIsComplete, Live
<1>8. step \notin AfterHttp /\ step \notin {"idle", "catalog", "config", "finish"}
  BY DEF AfterHttp
<1>9. \A d \in Caller : /\ "work" \in proof[d] => ~Live(work)
                        /\ "listener" \in proof[d] => ~Live(listener)
  BY DEF IInv, CloseInv
<1> HIDE DEF step
<1> QED
  BY <1>1, <1>2, <1>3, <1>4, <1>6, <1>7, <1>8, <1>9, InsideKeeps DEF Live

LEMMA CloseDrainKeeps == ASSUME IInv, NEW c \in Caller, CloseDrain(c) PROVE IInv'
<1> DEFINE step == "listener"
<1>1. pc[c] = "drain" /\ pc' = [pc EXCEPT ![c] = step]
  BY DEF CloseDrain, Step
<1>2. pc[c] \in InClose /\ step \in {"idle"} \cup InClose
  BY <1>1 DEF InClose, CloseSteps
<1>3. /\ phase = "built" /\ lock = c /\ closing /\ ~running /\ ~closed
      /\ Live(listener) => "application" \in ledger
  BY <1>2, InsideIs
<1>4. UNCHANGED <<startVars, running, closing, http, listener, admitting, busy, runtime, catalog,
                 config, ledger, closed, lock, failed>>
  BY DEF CloseDrain, threadVars, resourceVars
<1>5. pc' \in [Caller -> {"idle", "serving", "served"} \cup CloseSteps]
  BY <1>1, <1>2 DEF IInv, TypeOK, InClose
<1>6. /\ work' = AfterDrain(work)
      /\ proof' = [proof EXCEPT ![c] = IF Live(work') THEN @ ELSE @ \cup {"work"}]
  BY DEF CloseDrain
<1>7. /\ work' \in Threads /\ (work' = "none" <=> work = "none")
      /\ Live(work') => Live(work)
  BY <1>6 DEF IInv, TypeOK, Threads, AfterDrain, Live
<1>8. /\ proof' \in [Caller -> SUBSET {"work", "listener"}]
      /\ "work" \in proof'[c] => "work" \in proof[c] \/ ~Live(work')
      /\ "listener" \in proof'[c] => "listener" \in proof[c]
      /\ \A d \in Caller : d # c => proof'[d] = proof[d]
  BY <1>6 DEF IInv, TypeOK
<1>9. TypeOK'
  BY <1>4, <1>5, <1>7, <1>8 DEF IInv, TypeOK, startVars
<1>10. NothingClosedUnderUser' /\ ClosedIsComplete'
  BY <1>3, <1>4, <1>7 DEF IInv, NothingClosedUnderUser, ClosedIsComplete, Live
<1>11. step \notin AfterHttp /\ step \notin {"idle", "catalog", "config", "finish"}
  BY DEF AfterHttp
<1>12. \A d \in Caller : /\ "work" \in proof[d] => ~Live(work)
                         /\ "listener" \in proof[d] => ~Live(listener)
  BY DEF IInv, CloseInv
<1> HIDE DEF step
<1> QED
  BY <1>1, <1>2, <1>3, <1>4, <1>9, <1>10, <1>11, <1>12, <1>7, <1>8, InsideKeeps DEF Live

LEMMA CloseListenerKeeps == ASSUME IInv, NEW c \in Caller, CloseListener(c) PROVE IInv'
<1> DEFINE step == "http"
<1>1. pc[c] = "listener" /\ pc' = [pc EXCEPT ![c] = step]
  BY DEF CloseListener, Step
<1>2. pc[c] \in InClose /\ step \in {"idle"} \cup InClose
  BY <1>1 DEF InClose, CloseSteps
<1>3. /\ phase = "built" /\ lock = c /\ closing /\ ~running /\ ~closed
      /\ Live(listener) => "application" \in ledger
  BY <1>2, InsideIs
<1>4. UNCHANGED <<startVars, running, closing, work, http, admitting, busy, runtime, catalog, config,
                 ledger, closed, lock, failed>>
  BY DEF CloseListener, threadVars, resourceVars
<1>5. pc' \in [Caller -> {"idle", "serving", "served"} \cup CloseSteps]
  BY <1>1, <1>2 DEF IInv, TypeOK, InClose
<1>6. /\ listener' \in IF listener = "alive" THEN {"ended", "unsure"} ELSE {listener}
      /\ proof' = [proof EXCEPT ![c] = IF Live(listener') THEN @ ELSE @ \cup {"listener"}]
  BY DEF CloseListener
<1>7. /\ listener' \in Threads /\ (listener' = "none" <=> listener = "none")
      /\ Live(listener') => Live(listener)
  BY <1>6 DEF IInv, TypeOK, Threads, Live
<1>8. /\ proof' \in [Caller -> SUBSET {"work", "listener"}]
      /\ "listener" \in proof'[c] => "listener" \in proof[c] \/ ~Live(listener')
      /\ "work" \in proof'[c] => "work" \in proof[c]
      /\ \A d \in Caller : d # c => proof'[d] = proof[d]
  BY <1>6 DEF IInv, TypeOK
<1>9. TypeOK'
  BY <1>4, <1>5, <1>7, <1>8 DEF IInv, TypeOK, startVars
<1>10. NothingClosedUnderUser' /\ ClosedIsComplete'
  BY <1>3, <1>4, <1>7 DEF IInv, NothingClosedUnderUser, ClosedIsComplete, Live
<1>11. step \notin AfterHttp /\ step \notin {"idle", "catalog", "config", "finish"}
  BY DEF AfterHttp
<1>12. \A d \in Caller : /\ "work" \in proof[d] => ~Live(work)
                         /\ "listener" \in proof[d] => ~Live(listener)
  BY DEF IInv, CloseInv
<1> HIDE DEF step
<1> QED
  BY <1>1, <1>2, <1>3, <1>4, <1>9, <1>10, <1>11, <1>12, <1>7, <1>8, InsideKeeps DEF Live

LEMMA CloseHttpKeeps == ASSUME IInv, NEW c \in Caller, CloseHttp(c) PROVE IInv'
<1> DEFINE step == "runtime"
<1>1. pc[c] = "http" /\ pc' = [pc EXCEPT ![c] = step]
  BY DEF CloseHttp, Step
<1>2. pc[c] \in InClose /\ step \in {"idle"} \cup InClose
  BY <1>1 DEF InClose, CloseSteps
<1>3. /\ phase = "built" /\ lock = c /\ closing /\ ~running /\ ~closed
      /\ Live(listener) => "application" \in ledger
  BY <1>2, InsideIs
<1>4. UNCHANGED <<startVars, running, closing, work, listener, admitting, busy, runtime, catalog,
                 config, ledger, closed, lock, proof, failed>>
  BY DEF CloseHttp, threadVars, resourceVars
<1>5. pc' \in [Caller -> {"idle", "serving", "served"} \cup CloseSteps]
  BY <1>1, <1>2 DEF IInv, TypeOK, InClose
<1>6. http' = AfterDrain(http)
  BY DEF CloseHttp
<1>7. http' \in Threads /\ http' \in {http, "ended"} /\ ~Live(http')
  BY <1>6 DEF IInv, TypeOK, UsersInv, Threads, AfterDrain, Live
<1>8. TypeOK'
  BY <1>4, <1>5, <1>7 DEF IInv, TypeOK, startVars
<1>9. NothingClosedUnderUser' /\ ClosedIsComplete'
  BY <1>3, <1>4, <1>7 DEF IInv, NothingClosedUnderUser, ClosedIsComplete, Live
<1>10. step \notin {"idle", "catalog", "config", "finish"}
  OBVIOUS
<1>11. \A d \in Caller : /\ "work" \in proof[d] => ~Live(work)
                         /\ "listener" \in proof[d] => ~Live(listener)
  BY DEF IInv, CloseInv
<1> HIDE DEF step
<1> QED
  BY <1>1, <1>2, <1>3, <1>4, <1>8, <1>9, <1>10, <1>11, <1>7, InsideKeeps DEF Live

LEMMA CloseHttpFailsKeeps == ASSUME IInv, NEW c \in Caller, CloseHttpFails(c) PROVE IInv'
<1> DEFINE step == "idle"
<1>1. pc[c] = "http" /\ pc' = [pc EXCEPT ![c] = step]
  BY DEF CloseHttpFails, Step
<1>2. pc[c] \in InClose /\ step \in {"idle"} \cup InClose
  BY <1>1 DEF InClose, CloseSteps
<1>3. /\ phase = "built" /\ lock = c /\ closing /\ ~running /\ ~closed
      /\ Live(listener) => "application" \in ledger
  BY <1>2, InsideIs
<1>4. UNCHANGED <<startVars, running, closing, work, listener, admitting, busy, runtime, catalog,
                 config, ledger, closed, proof, failed>>
  BY DEF CloseHttpFails, threadVars, resourceVars
<1>5. pc' \in [Caller -> {"idle", "serving", "served"} \cup CloseSteps]
  BY <1>1, <1>2 DEF IInv, TypeOK, InClose
<1>6. http' \in {http, "ended"} /\ lock' = Nobody
  BY DEF CloseHttpFails
<1>7. http' \in Threads /\ (Live(http') => Live(http))
  BY <1>6 DEF IInv, TypeOK, Threads, Live
<1>8. TypeOK'
  BY <1>4, <1>5, <1>6, <1>7 DEF IInv, TypeOK, startVars
<1>9. NothingClosedUnderUser' /\ ClosedIsComplete'
  BY <1>3, <1>4, <1>7 DEF IInv, NothingClosedUnderUser, ClosedIsComplete, Live
<1>10. step = "idle" /\ step \notin AfterHttp
  BY DEF AfterHttp
<1>11. \A d \in Caller : /\ "work" \in proof[d] => ~Live(work)
                         /\ "listener" \in proof[d] => ~Live(listener)
  BY DEF IInv, CloseInv
<1> HIDE DEF step
<1> QED
  BY <1>1, <1>2, <1>3, <1>4, <1>8, <1>9, <1>10, <1>11, <1>6, <1>7, InsideKeeps DEF Live

LEMMA CloseRuntimeKeeps == ASSUME IInv, NEW c \in Caller, CloseRuntime(c) PROVE IInv'
<1> DEFINE step == "catalog"
<1>1. pc[c] = "runtime" /\ pc' = [pc EXCEPT ![c] = step]
  BY DEF CloseRuntime, Step
<1>2. pc[c] \in InClose /\ step \in {"idle"} \cup InClose
  BY <1>1 DEF InClose, CloseSteps
<1>3. /\ phase = "built" /\ lock = c /\ closing /\ ~running /\ ~closed
      /\ Live(listener) => "application" \in ledger
  BY <1>2, InsideIs
<1>4. UNCHANGED <<startVars, running, closing, work, http, listener, admitting, busy, catalog, config,
                 ledger, closed, lock, proof>>
  BY DEF CloseRuntime, threadVars, resourceVars
<1>5. pc' \in [Caller -> {"idle", "serving", "served"} \cup CloseSteps]
  BY <1>1, <1>2 DEF IInv, TypeOK, InClose
<1>6. runtime' = "closed" /\ failed' \subseteq Caller
  BY DEF CloseRuntime, Mark, IInv, TypeOK
<1>7. ~Live(http)
  BY <1>1 DEF IInv, CloseInv, AfterHttp
<1>8. TypeOK'
  BY <1>4, <1>5, <1>6 DEF IInv, TypeOK, startVars, Resource
<1>9. NothingClosedUnderUser' /\ ClosedIsComplete'
  BY <1>3, <1>4, <1>6, <1>7 DEF IInv, NothingClosedUnderUser, ClosedIsComplete, Live
<1>10. step \notin {"idle", "config", "finish"}
  OBVIOUS
<1>11. \A d \in Caller : /\ "work" \in proof[d] => ~Live(work)
                         /\ "listener" \in proof[d] => ~Live(listener)
  BY DEF IInv, CloseInv
<1> HIDE DEF step
<1> QED
  BY <1>1, <1>2, <1>3, <1>4, <1>8, <1>9, <1>10, <1>11, <1>6, <1>7, InsideKeeps DEF Live

LEMMA CloseCatalogKeeps == ASSUME IInv, NEW c \in Caller, CloseCatalog(c) PROVE IInv'
<1> DEFINE step == "config"
<1>1. pc[c] = "catalog" /\ pc' = [pc EXCEPT ![c] = step]
  BY DEF CloseCatalog, Step
<1>2. pc[c] \in InClose /\ step \in {"idle"} \cup InClose
  BY <1>1 DEF InClose, CloseSteps
<1>3. /\ phase = "built" /\ lock = c /\ closing /\ ~running /\ ~closed
      /\ Live(listener) => "application" \in ledger
  BY <1>2, InsideIs
<1>4. UNCHANGED <<startVars, running, closing, work, http, listener, admitting, busy, runtime, config,
                 ledger, closed, lock, proof>>
  BY DEF CloseCatalog, threadVars, resourceVars
<1>5. pc' \in [Caller -> {"idle", "serving", "served"} \cup CloseSteps]
  BY <1>1, <1>2 DEF IInv, TypeOK, InClose
<1>6. /\ catalog' = IF catalog = "open" /\ Both \subseteq proof[c] THEN "closed" ELSE catalog
      /\ failed' \subseteq Caller
  BY DEF CloseCatalog, CatalogCloses, Both, Mark, IInv, TypeOK
<1>7. runtime = "closed" /\ ~Live(http)
  BY <1>1 DEF IInv, CloseInv, AfterHttp
<1>8. catalog' # catalog => ~Live(work) /\ ~Live(listener)
  BY <1>6 DEF IInv, CloseInv, Both
<1>9. TypeOK'
  BY <1>4, <1>5, <1>6 DEF IInv, TypeOK, startVars, Resource
<1>10. NothingClosedUnderUser' /\ ClosedIsComplete'
  BY <1>3, <1>4, <1>6, <1>7, <1>8 DEF IInv, NothingClosedUnderUser, ClosedIsComplete, Live
<1>11. step \notin {"idle", "finish"}
  OBVIOUS
<1>12. \A d \in Caller : /\ "work" \in proof[d] => ~Live(work)
                         /\ "listener" \in proof[d] => ~Live(listener)
  BY DEF IInv, CloseInv
<1> HIDE DEF step
<1> QED
  BY <1>1, <1>2, <1>3, <1>4, <1>9, <1>10, <1>11, <1>12, <1>6, <1>7, InsideKeeps DEF Live

LEMMA CloseConfigKeeps == ASSUME IInv, NEW c \in Caller, CloseConfig(c) PROVE IInv'
<1> DEFINE step == "finish"
<1>1. pc[c] = "config" /\ pc' = [pc EXCEPT ![c] = step]
  BY DEF CloseConfig, Step
<1>2. pc[c] \in InClose /\ step \in {"idle"} \cup InClose
  BY <1>1 DEF InClose, CloseSteps
<1>3. /\ phase = "built" /\ lock = c /\ closing /\ ~running /\ ~closed
      /\ Live(listener) => "application" \in ledger
  BY <1>2, InsideIs
<1>4. UNCHANGED <<startVars, running, closing, work, http, listener, admitting, busy, runtime, catalog,
                 ledger, closed, lock, proof>>
  BY DEF CloseConfig, threadVars, resourceVars
<1>5. pc' \in [Caller -> {"idle", "serving", "served"} \cup CloseSteps]
  BY <1>1, <1>2 DEF IInv, TypeOK, InClose
<1>6. config' = IF config = "open" THEN "closed" ELSE config
  BY DEF CloseConfig
<1>12. failed' \subseteq Caller
  BY DEF CloseConfig, Mark, IInv, TypeOK
<1>7. /\ runtime = "closed" /\ ~Live(http)
      /\ Both \subseteq proof[c] => catalog # "open"
  BY <1>1 DEF IInv, CloseInv, AfterHttp
<1>8. TypeOK'
  BY <1>4, <1>5, <1>6, <1>12 DEF IInv, TypeOK, startVars, Resource
<1>9. NothingClosedUnderUser' /\ ClosedIsComplete'
  BY <1>3, <1>4, <1>6, <1>7 DEF IInv, NothingClosedUnderUser, ClosedIsComplete, Live
<1>10. step # "idle"
  OBVIOUS
<1>11. \A d \in Caller : /\ "work" \in proof[d] => ~Live(work)
                         /\ "listener" \in proof[d] => ~Live(listener)
  BY DEF IInv, CloseInv
<1> HIDE DEF step
<1> QED
  BY <1>1, <1>2, <1>3, <1>4, <1>8, <1>9, <1>10, <1>11, <1>6, <1>7, InsideKeeps DEF Live

LEMMA CloseFinishKeeps == ASSUME IInv, NEW c \in Caller, CloseFinish(c) PROVE IInv'
<1> DEFINE step == "idle"
<1>1. pc[c] = "finish" /\ pc' = [pc EXCEPT ![c] = step]
  BY DEF CloseFinish, Step
<1>2. pc[c] \in InClose /\ step \in {"idle"} \cup InClose
  BY <1>1 DEF InClose, CloseSteps
<1>3. /\ phase = "built" /\ lock = c /\ closing /\ ~running /\ ~closed
      /\ Live(listener) => "application" \in ledger
  BY <1>2, InsideIs
<1>4. UNCHANGED <<startVars, running, closing, work, http, listener, admitting, busy, runtime, catalog,
                 config, proof, failed>>
  BY DEF CloseFinish, threadVars, resourceVars
<1>5. pc' \in [Caller -> {"idle", "serving", "served"} \cup CloseSteps]
  BY <1>1, <1>2 DEF IInv, TypeOK, InClose
<1>6. /\ lock' = Nobody /\ closed' = Complete(c)
      /\ ledger' = IF Complete(c) THEN ledger \ {"application"} ELSE ledger
  BY DEF CloseFinish
<1>7. /\ runtime = "closed" /\ ~Live(http) /\ config # "open"
      /\ Complete(c) => catalog # "open" /\ ~Live(work) /\ ~Live(listener)
  BY <1>1 DEF IInv, CloseInv, AfterHttp, Complete, Both
<1>8. TypeOK'
  <2>1. Complete(c) \in BOOLEAN
    BY DEF Complete
  <2> QED
    BY <1>4, <1>5, <1>6, <2>1 DEF IInv, TypeOK, startVars
<1>9. NothingClosedUnderUser' /\ ClosedIsComplete'
  BY <1>3, <1>4, <1>6, <1>7 DEF IInv, NothingClosedUnderUser, ClosedIsComplete, Live
<1>10. step = "idle" /\ step \notin AfterHttp
  BY DEF AfterHttp
<1>11. \A d \in Caller : /\ "work" \in proof[d] => ~Live(work)
                         /\ "listener" \in proof[d] => ~Live(listener)
  BY DEF IInv, CloseInv
<1> HIDE DEF step
<1> QED
  BY <1>1, <1>2, <1>3, <1>4, <1>8, <1>9, <1>10, <1>11, <1>6, <1>7, InsideKeeps DEF Live

-----------------------------------------------------------------------------
(* The invariant and what it gives *)

LEMMA InitInvariant == ASSUME Init PROVE IInv
<1> USE DEF Init
<1>1. TypeOK
  BY DEF TypeOK, Part, StartSteps, Threads, Resource
<1>2. UsersInv /\ BuildInv /\ UnwindInv
  BY DEF UsersInv, BuildInv, UnwindInv, Dependent, StartSteps
<1>3. CloseInv /\ NothingClosedUnderUser /\ NothingForgotten
  BY DEF CloseInv, CloseSteps, InClose, AfterHttp, NothingClosedUnderUser, NothingForgotten, ClosedIsComplete,
     SurvivorsAreRetained
<1> QED
  BY <1>1, <1>2, <1>3 DEF IInv

LEMMA StutterKeeps == ASSUME IInv, UNCHANGED vars PROVE IInv'
<1>1. UNCHANGED <<work, http, listener, admitting, busy, runtime, catalog, config, ledger, parts, phase, next,
                 settled, running, closing, closed, lock, pc, proof, failed>>
  BY DEF vars, threadVars, resourceVars, startVars, callVars
<1>2. TypeOK' /\ UsersInv' /\ BuildInv'
  BY <1>1 DEF IInv, TypeOK, UsersInv, BuildInv, Dependent, HasListener, Consistent
<1>3. UnwindInv' /\ CloseInv'
  BY <1>1 DEF IInv, UnwindInv, CloseInv, Dependent, Owners, Live
<1>4. NothingClosedUnderUser' /\ NothingForgotten'
  BY <1>1 DEF IInv, NothingClosedUnderUser, NothingForgotten, ClosedIsComplete, SurvivorsAreRetained, Live,
     Dependent
<1> QED
  BY <1>2, <1>3, <1>4 DEF IInv

LEMMA StepInvariant == ASSUME IInv, [Next]_vars PROVE IInv'
<1>1. CASE Start
  BY <1>1, StartKeeps, BuildMcpKeeps, BuildFailsKeeps DEF Start
<1>2. CASE Unwind
  BY <1>2, UnwindsKeeps, GiveKeeps DEF Unwind
<1>3. CASE AcceptWork \/ FinishWork \/ LoseWorker \/ Resolve
  BY <1>3, ThreadsKeep
<1>4. CASE \E c \in Caller : Run(c) \/ RunEnds(c) \/ Close(c)
  BY <1>4, CallKeeps
<1>5. CASE \E c \in Caller : Closing(c)
  BY <1>5, LockKeeps, CloseBarriersKeeps, CloseDrainKeeps, CloseListenerKeeps, CloseHttpKeeps, CloseHttpFailsKeeps,
     CloseRuntimeKeeps, CloseCatalogKeeps, CloseConfigKeeps, CloseFinishKeeps DEF Closing
<1>6. CASE UNCHANGED vars
  BY <1>6, StutterKeeps
<1> QED
  BY <1>1, <1>2, <1>3, <1>4, <1>5, <1>6 DEF Next

(***************************************************************************)
(* However many threads call run() and close(), whatever parts were asked  *)
(* for and wherever the start, its unwinding or a close() fails, nothing   *)
(* is closed under a thread that may use it, an application that calls     *)
(* itself closed has nothing left, and whatever may still run has an owner *)
(* (build_application, _unwind_partial, Application.close).                *)
(***************************************************************************)
THEOREM ApplicationCorrect == Spec => []ApplicationSound
<1>1. Init => IInv
  BY InitInvariant
<1>2. IInv /\ [Next]_vars => IInv'
  BY StepInvariant
<1>3. IInv => ApplicationSound
  BY DEF IInv, ApplicationSound
<1> QED
  BY <1>1, <1>2, <1>3, PTL DEF Spec
=============================================================================
