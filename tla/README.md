# A TLA+ model of maskgw

maskgw is a gateway that runs SQL on PostgreSQL databases and returns the rows
with their sensitive columns masked. An MCP client or, later, a PostgreSQL
client is on one side; one or many databases are on the other; an
administrator changes configuration and datasources while queries run. The
repository also holds the programs that build its image and measure it in
laboratories, which must leave nothing behind and claim nothing they did not
see. This directory models the parts that keep state, run concurrently, must
survive failures or decide what a client gets to see; it checks them with TLC
and proves the main ones with TLAPS.

Paths of the gateway are relative to `src/src/maskgw/`, those of the
laboratories to `src/`. PROJECT.json maps every definition to the lines it
stands for.

## 1. The system

### The gateway: components, state, operations

| Component | State it keeps | Operations | Module |
|---|---|---|---|
| Datasource registry, `runtime/datasources.py` | published and retired generations, candidates, reservations, leases with their locks, counters, closing flags | reserve, publish, withdraw, open session, use, release, close in two phases | `DatasourceRegistry` |
| Catalogue store, `datasource/store.py` | encrypted store, anchor, journal, backups, sidecar locks; the open object's view | initialize, open with recovery, commit, rotate key, close | `CatalogStore` |
| Datasource service, `runtime/datasource_service.py` | sealed view, candidates under way, write lock, blocked flag | create, update, enable, disable, rotate, remove, test, close | `DatasourceService` |
| Targets, `datasource/models.py`, `crypto.py`, `destination.py`, `resolver.py`, `runtime/candidate.py`, `snapshot.py` | drafts, stored records, resolver slots and children, verified candidates, snapshots | validate, resolve, prepare, verify, persist, compile in a worker | `DatasourceTargets` |
| Runtime registry and query service, `runtime/registry.py`, `gateway/service.py` | current and retired runtimes, reference counts, lazy connections | query, swap, close retired, close all | `RuntimeRegistry` |
| Admin configuration, `admin/service.py`, `admin/document.py` | YAML file, revision, runtime published from it | update, adopt an external edit, start | `AdminConfig` |
| Configuration directory, `config/filesystem.py` | file, lock file, temporaries, backup; several processes | open, lock, clean up orphans, snapshot, write, back up | `ConfigFiles` |
| Writes of the administration API, `admin/http/mutations.py`, `schemas.py`, `config/models.py` | none: functions of the document | the v1 mutations and their checks | `AdminHttp` |
| Administration API, `admin/http/*`, `admin/http/v2/*`, `audit/*` | requests in their layers, operations on the workers, audit records | every route of v1 and v2 | `AdminHttp` |
| Administration pages, `admin/ui/*` | the presentation document and the built package | validate, build, serve | `Presentation` |
| Admin work queue, `runtime/admin_work.py` | pending and running tickets, workers, containment marks | submit, serve, close admission, drain | `AdminWorkQueue` |
| PostgreSQL listener, `pgwire/listener.py` | listening socket, acceptor, connection records, slots, retained sockets | start, accept, promote, reap, stop | `PgwireListener` |
| PostgreSQL session, `pgwire/driver.py`, `transport.py`, `framing.py`, `scram.py`, `credential.py` | channel, deadlines, SCRAM stage | one connection from its first byte to its end | `PgwireSession` |
| SQL policy and masking, `sql/*`, `masking/*` | none: functions of a query and of the rules | accept, find the protected output positions, decide per column | `QueryJob` |
| Gateway and tool, `gateway/models.py`, `gateway/datasources.py`, `mcp/server.py` | none of its own | query of the tool, query of a session by alias, open, close; categories, audit record | `QueryJob` |
| Adapter and job, `db/*`, `runtime/worker_job.py`, `worker_process.py` | connection, transaction, cache of origins, session settings | connect, prove, run, describe, read, mask, settle, answer | `QueryJob` |
| Result frames, `pgwire/result_encoder.py`, `result_frame.py` | none: functions of a result or a frame | preflight, write, validate | `QueryJob` |
| Result receiver, `pgwire/result_receiver.py` | state, payload, completion events, pin | receive, send, status, close | `ResultReceiver` |
| Worker session, `runtime/worker_session.py`, `worker_protocol.py` | handles of a child, job number, receiver, ledger token; the child's loop | open, query, send result, close, request stop | `WorkerSession` |
| Budget ledger, `runtime/budget.py` | slots with epochs, reservations of memory, output pins | reserve, commit, publish, adopt, pin, drain, release, shut down | `BudgetLedger` |
| Worker domain and guard, `runtime/domain.py`, `linux_guard.py` | a cost plan, what is admitted under it, the guard of each worker | reconcile, admit, protect | `WorkerDomain` |
| Verification children, `datasource/verify.py` | child, pipes, two pumps; the ledger of records and slots | verify, resolve a bind address, reap, collect, close | `ChildRecord`, `VerificationLedger` |
| Application, `bootstrap/application.py` | the planes that exist, what is closed, what is retained | start, unwind, run, close | `Application` |
| Entry point, `bootstrap/main.py`, `bootstrap/settings.py`, `config/loader.py`, `pgwire/settings.py`, `pgwire/tls.py`, `pgwire/composition.py` | environment, TLS files, application, exit code | compose, load the certificate, resolve the bind address, run, close | `Startup` |

### The laboratories

| Component | State it keeps | Module |
|---|---|---|
| Image programs, `deploy/oracle9_python_payload.py`, `oracle9_dependencies.py`, `oracle9_offline_install.py`, `oracle9_w1_update.py` | the image, the prefix, inputs, attestations | `DeploymentImage` |
| Driver in the guest, `deploy/oracle9_w1_driver.py`, `oracle9_w1_controller.py` | control machine, verdicts, threads and endpoints, credits, watcher | `LabDriver` |
| Candidate run, `docs/poc/oracle9_w1_run.py`, `oracle9_w1_run_v2.py`, `oracle9_cycle_freshness.py` | root directory with its journal, desktop, containers, watchdog | `DesktopCycle` |
| Reader laboratory, `docs/poc/pg16_shell_run.py`, `pg16_shell_host.py`, `pg16_shell_watchdog.py`, `pg16_public_emergency.py` | ownership records, attach owners, watchdogs, cleanup lock, the daemon | `ReaderLab` |
| Attach channel, `docs/poc/w1_bootstrap_channel.py`, `pg16_shell_owner.py`, `pg16_shell_reader.py` | tasks, process, pipes, ticket; the reader's script | `AttachOwner` |
| Native owner and control, `docs/poc/pg16_shell_admission_win32.py`, `pg16_shell_native_control*.py`, `pg16_shell_admission_host.py` | job, handles, child; registry of live owners; entry | `NativeControl` |
| Admission probe, `docs/poc/pg16_shell_admission_probe.py` | claim, marker, result, line | `AdmissionProbe` |
| Evidence collector, `docs/poc/pg16_shell_native_control_collect*.py` | slots, handles, custody, decision | `NativeCollect` |

PROJECT.json lists every component, the ones left out too, with the reason.

### How they interact

* `Application` builds the planes in order, and in `close` stops the threads
  that use a resource before it closes the resource. `main` composes it from
  the environment and closes it on every way out; when a close fails, the exit
  code says so.
* HTTP handlers run v1 writes on the event loop through the configuration
  service, and submit v2 operations to the queue; its workers call the
  datasource service. Answer and audit record are made from what came back.
* The datasource service verifies a candidate in a child process, commits to
  the store, publishes in the registry and seals a view, in that order, under
  one write lock. Readers look only at the sealed view.
* Sessions take leases from the registry; each lease owns one upstream
  connection. The listener owns the client's side of a session and gives it a
  slot once the driver has authenticated it.
* A worker session takes a reservation of the budget ledger, runs a child and
  reads results through a result receiver, which pins the session's memory.
  The child compiles the snapshot of its datasource, guards itself, and runs
  jobs: the analysis of the SQL decides before, and the origin of each column
  after the query, what leaves masked.
* A laboratory's host runs containers through an attach channel, under a
  watchdog that may act by itself, and on Windows its children under a job.

### What is hard

* Threads that take a short lock, leave it to do I/O, and come back with what
  they read before (`use` and `close` of the registry; `receive` and `close`
  of the receiver; `stop` of the listener).
* Shutdown that has to wait for users it can only ask to leave.
* Calls whose failure leaves the outcome unknown: commits, `Popen`,
  `Thread.start`, `close` of a socket, a command to a daemon, a native call
  interrupted with its handle already written. The code's answer is always
  the same, to keep what cannot be proved released, and most properties here
  are about that.
* Kills and losses of power between two system calls.
* Optimistic revisions of clients that read long before they write.
* Facts that are stale when used: the origin of a column, a key that was
  rotated, a certificate that is checked and then loaded by name, a stop that
  arrives for a query which has ended.

PROJECT.json lists each such place under `hazards`, at its line, with the
properties that would catch it going wrong.

## 2. The modules

Every module is written for one component, with the source's names where TLA+
allows them. A lock section in which nothing blocks is one action; wherever
the code leaves a lock, blocks or makes a system call, the action ends.
Payloads, SQL and names are model values; a message is the class of messages
it belongs to.

**Faulty variants.** A definition introduced by `Faulty variant of X` is `X`
as a plausible mistake would have written it. No specification uses it.
PROJECT.json's `mutants` say which property fails when it replaces `X`, which
shows that the property does depend on that line of the code.

| Module | Its relation to the others |
|---|---|
| `GenerationLifecycle` | abstract: a hand-over from one generation to the next, under users |
| `DatasourceRegistry` | implements `GenerationLifecycle` (`ImplementsLifecycle`) |
| `RuntimeRegistry` | operations of the registry the YAML plane publishes to; `AdminConfig` composes them with its own |
| `AtomicCatalog` | abstract: a versioned register that commits and rotates atomically |
| `CatalogStore` | implements `AtomicCatalog` (`BehavesAtomically`), files and system calls mapped to the register |
| `AdminConfig` | the file, the service and, through `INSTANCE`, `RuntimeRegistry`'s runtimes, as one specification |
| `ConfigFiles` | what `AdminConfig` takes for granted of the directory, with several processes |
| `AdminHttp` | sees `AdminConfig`'s `apply` and `DatasourceService`'s calls as what they promise: once or not at all, with each failure a choice; sees the queue as open, broken or frozen |
| `DatasourceService` | sees the store as `AtomicCatalog` does, and the registry through what it publishes |
| `DatasourceTargets` | what a candidate of `DatasourceService` is, and what the worker makes of it |
| `Application` | sees each plane as threads and resources that may be alive, ended or of unknown state |
| `Startup` | sees `Application` as one step that may fail, and one thing to close |
| `PgwireListener`, `PgwireSession` | the owner and the inside of one connection: `ReserveSession` of the session is `Promote` of the listener |
| `QueryJob` | what the child or the gateway answers and, in a section of its own, the frame the child's answer travels in |
| `VerificationLedger`, `ChildRecord` | the ledger's reap is `ChildRecord`'s `Handler`; the ledger's bit `live` is what `ReapedIsGone` of the record is about |
| `WorkerSession`, `ResultReceiver`, `BudgetLedger`, `WorkerDomain` | the session uses what the receiver establishes (the pin is kept while unsure), and both use the ledger's entries; the domain says which limits the ledger may have |
| `NativeControl` | the owner's calls, and the programs that make them, as one specification |
| `MC...` | constants and symmetry for TLC, and parts side by side (section 3) |
| `...Proofs` | inductive invariants and theorems (section 4) |

### State and actions against the code

* **DatasourceRegistry.** `published`, `retired`, `candidates` and the
  counters are the attributes of the same names; `genDs`, `genSessions`,
  `genRetired` and the like are the fields of a generation. A lease has the
  thread that uses it, with a `pc`: admitted and connecting, checking the
  termination mark, idle, validating or running a statement, releasing.
  Critical sections of the registry's lock are single actions; the lease's
  lock, which is held during I/O, is the variable `holder`. `close` has two
  phases: in `request` it marks and cancels every lease and closes those whose
  lock is free, in `finish` it cancels once more and waits for the others.
* **CatalogStore.** One action per system call that another process or a
  failure can see: temporary, fsync, rename, fsync of the directory, for
  journal, store, anchor and backups. Each file has the contents now visible
  and those that would survive a loss of power. A behaviour picks one of the
  `Regimes`, the set of faults that may happen in it: failing calls, kills,
  losses of power.
* **AdminConfig.** The four reads of the file's digest, the temporary, backup,
  replace, sync and publication are separate actions; an external editor, a
  kill or a loss of power may come between any two, and queries acquire,
  connect, use and release the runtimes meanwhile.
* **ConfigFiles.** One action per system call of opening, locking, reading,
  writing and backing up; objects at a name have an identity, so that a name
  that was given to another object between two calls shows.
* **AdminHttp.** A request goes through the layers of the
  middleware in their order; each may answer and end it. A v1 write is the
  mutation of the document, the schema before and the model after, with a
  failure of `apply` at each of its steps. A v2 operation is queued, runs on a
  worker while its client may go, and ends in a category, a view and one audit
  record. `effect` is a history variable: whether the request changed anything.
* **Presentation.** The document is a graph of model shapes with conditions,
  bindings and calls; a package remembers the document each of its parts was
  built from. `Meets` is the reference definition: every value a path may come
  to, tried at once.
* **DatasourceService.** A write is a sequence under the write lock, with
  the verifier in between; a commit may fail, succeed or end unknown;
  another worker may block the service; the process may die and start again.
* **DatasourceTargets.** A builder goes from a draft or a stored record over
  the resolver, whose slots builders share, to a verified candidate and its
  publication; a worker then compiles the snapshot. Name service, key in the
  environment and stored record may change between any two steps.
* **AdminWorkQueue.** The condition variable is modelled with its waiting set,
  so that a missing notification shows. A worker whose `start` raised may
  exist.
* **PgwireListener.** Acceptor, worker threads, `start` and `stop` are
  processes; a socket whose close failed is retained.
* **PgwireSession.** Every wait is a slice that begins with `check`; deadlines
  are not created, running or over, and may be over at any moment. A client
  may send any class of message.
* **QueryJob.** A query is its syntax tree with what the server
  would answer: the number and origin of each output column. Columns are
  renamed, the peer goes and the deadline passes between any two steps of a
  job; the cache of origins lives as long as the connection. The adapter has
  one of three owners, fixed by `door`: a worker (baseline, deadline, frame), the
  tool of the MCP server (`connect` before each query that finds no connection)
  or a session by alias (connected once). The two last end in `run_audited`:
  one record, then the result or the category.
* **Result frames** (in `QueryJob`). Encoder and validator are operators. `MCQuery` writes the
  frame of every small result and changes it in every single place.
* **Application.** Five threads may call `close`: the main one, another one,
  and one of each plane, which `close` itself must not wait for.
* **Startup.** One action per step of `main`; the two TLS files may be
  replaced between any two of the steps that stat, read and load them.
* **BudgetLedger.** Every call of the class, with any token ever issued.
* **WorkerDomain.** `reconcile` is an operator with the code's reasons; what an
  accepted plan then admits is state, and so is the step of each guard.
* **ChildRecord.** A child, its two pumps and the handler thread, for the
  verification (`Bind = FALSE`) and the bind resolver (`Bind = TRUE`).
* **VerificationLedger.** Records are addresses that are used again once they
  were freed, as `id()` is; threads verify, collect and close.
* **ResultReceiver.** Who holds a reference to the payload is state: the
  receiver, each call's frames, and tracebacks nobody controls.
* **WorkerSession.** Parent and child with two streams and a pipe. A stream
  delivers in order; a message sent in part counts as not sent.
* **Laboratories.** A command to the daemon may succeed, fail, lose its answer
  or take effect later; a native call may answer anything; an interruption may
  come between any two statements where the code expects one. What really
  exists (containers, processes, handles, files) is kept apart from what the
  program believes.

## 3. What the runs check

Twelve runs, one for each question; all pass but the one marked *violation*.
A property that is a conjunction has its parts named in its module.

| Run | Properties | Shows |
|---|---|---|
| registry_sessions | `CountersAgree` `NoCloseUnderUse` `ClosedIsEmpty` `ImplementsLifecycle` `ShutdownEnds` | counters, connections and generations agree under every interleaving of two sessions with publication, withdrawal and shutdown; no lease is closed under its thread; after `close` nothing is left; the abstract hand-over is implemented; `close` ends by cancellation alone |
| catalog_crash | `Recoverable` `KeysAreCurrent` `BehavesAtomically` | a kill, a failing call or a loss of power anywhere leaves the old or the new catalogue, which some key opens; an open object shows what the disk has and the old key opens nothing after a rotation; the files behave as one register |
| catalog_unsynced_store | `AnchorFollowsDurableStore` | *violation*, see section 6 |
| admin_config | `ConfigSound` `DirectoryKept` `StartupSound` `NoChangeLost` | file and runtime stay one document, what was answered as applied survives, no candidate stays connected, no runtime is closed under a query; a write replaces what its caller expected with a whole file, and orphans and backups are not mistaken for anything; a process that listens is safe to talk to, and one that ends has closed its application or says by its exit code that it could not; no update is lost unless one number was given to two documents (section 6), and an external edit only in the last window |
| service | `ServiceSound` `NoLostUpdate` | the sealed view is one state of disk and runtime; nothing disabled is served, even after an unknown commit; what was answered is there after a restart; no update is lost |
| application | `ApplicationSound` `CloseReturns` | nothing is closed under a user; a failed step is repeated and what survives is retained; every `close` returns |
| lifecycle | `ListenerSound` `ResultsSound` `SessionSound` `QueueSound` `ReaderClean` `ChildGoes` `SessionEnds` `AcceptedCompletes` `ReaderEnds` | slots are freed with proof only and STOPPED is never said of what may exist; credits go back with the proof of every part of the cleanup, no answer is taken for another job's, memory stays pinned while anything refers to the payload; readiness is earned, refusals look the same, encryption is kept; a drained queue is quiet and after a failure nothing runs uncontained; a released laboratory left nothing; children go, sessions end, accepted work completes, laboratory runs end |
| verifications | `ChildrenSound` | slots are conserved, one thread reaps a record and an interrupted reap is taken up again; reaped means gone |
| budget | `CreditsSound` `DomainSound` | whatever tokens are presented in whatever order, credits stay within the limits and are owed by exactly one holder, and a session's generation outlives it; what an accepted plan admits stays within every limit of the domain, and no guarded worker outlives its supervisor |
| query | `NothingProtectedInClear` `ResultsAreTrue` `TargetsSound` | no column the connection knows under a protected name leaves in the clear, and none through an expression or a form of query, with the exceptions of section 6; an answer is whole, from an unaltered session, and encoder and validator agree; a worker queries exactly what was verified, on allowed addresses, with one key |
| admin_http | `AnswersAndAuditAgree` `ServedIsRenderable` `IdentityKept` | whatever fails, the answer and the one audit record of a request tell what happened; what is served comes from one build and can be drawn; identifiers are never given to another item |
| laboratories | `DriverSound` `NativeSound` `CycleSound` `ExitOwnsNothing` `ReportedIsTrue` `AttachSound` | a run that is not retained leaves no thread, endpoint, process, handle or container; a stop that counts reached its query; effects are announced before they may exist; an exit, an approval, a report or a ticket is true of what exists |

### Side by side

Several runs ask one question of parts that do not disturb one another. A
variable that `Init` chooses and nothing changes says which of them moves:

* `MCLifecycle`: the listener, the worker session, the receiver of one result,
  a client's session, the work queue, a laboratory run. Each sees the others
  through outcomes that may or may not happen.
* `MCVerificationLedger`: the ledger or one child record, each for the
  verification and for the bind resolver. They meet in one bit.
* `MCAdminConfig`: queries without crashes and edits; crashes and edits without
  queries; the directory with two processes; the entry point.
* `MCBudgetLedger`: the ledger; the domain and the guards.
* `MCQuery`: jobs; frames; targets.
* `MCAdminHttp`: v1 writes on one connection; v2 operations on two; the pages.
* `MCLaboratories`: the driver, the attach channel, native control, the
  admission probe, the desktop's cycle, the collector, the image. These have
  their variables in the same twelve places `x1` to `x12`, in the order of
  each `INSTANCE`.

Each side's own behaviours are complete; only their product, in which no
action of one reads what the other writes, is left out. For `MCAdminConfig`
what is left out is a query during a crash, which ends it, and during an edit
of the file, which it does not read.

### Bounds and why they are enough

Each bound is a CONSTANT. They are chosen so that the smallest configuration
with the interference in question is included:

* Registry: two sessions and two generations give a session on a retired
  generation beside one on the current one; two reservations compete for one
  retired slot.
* Catalogue: two processes, two keys and three revisions give a commit after
  a recovery after a commit, with a rotation in between; one kept backup makes
  the pruning happen.
* Admin: two administrators, two queries, two revisions after the original
  one and one retired slot, so that current, retired and closed runtimes exist
  at once and the capacity is refused; one crash and one edit. Directory: two
  processes, two temporary names, three documents, one kill. Entry point:
  three replacements, enough for a certificate, its key and the old one again.
* Administration API: two connections, a queue of two, two revisions after the
  first; every route with a good body and one body for each refusal.
* Work queue: the code's two workers, one waiting place, and one ticket more
  than fit.
* Listener: two connections for one slot on each side of authentication; the
  theorem of section 4 covers more.
* Service: two clients, two identifiers that compete for one alias, two
  configurations, three revisions.
* Query: two columns of which one is protected, two connections, one rename,
  results of up to two rows read in batches that end before, at and after the
  limit; one query for each form the analysis tells apart. Targets: two
  builders for one resolver slot, one worker, one change.
* Application: five callers, one of each kind `close` tells apart.
* Budget: three slots, of which two may be sessions of one generation, two
  epochs, so that a slot is used up, and a total that refuses a second
  expensive session and admits a cheap one. Domain: the code's two profiles
  and two complete ones, and plans that differ from a good one in one place.
* Verification ledger: two slots, three addresses, two supervisors and two
  threads.
* Receiver: three threads, one each to receive, send and close. Worker: two
  jobs, so that there is an earlier answer to confuse. Session: two rounds of
  the handshake.
* Laboratories: two jobs and two cases, so that a late effect of the first
  meets the second; two processes over one root; two interruptions, so that
  the handling of the first is interrupted; four containers in a row.

Symmetry is declared for threads, clients and values that the specifications
only compare, and never in a run with a liveness property.
`CHECK_DEADLOCK FALSE` is used where a bounded instance may come to rest
because its names, tickets or epochs are used up, or because the object it
models has ended.

### Fairness

Liveness is checked in three runs (registry_sessions, application, lifecycle).
Each fairness condition of `MCLifecycle` is on the variables of its own part.

* Threads that can go on do (`WF` of each thread's own steps). Calls to the
  program are never assumed to happen.
* What has a deadline in the code ends: connecting (`connect_timeout`), every
  slice of the transport and its timers, a child's reads, sends and statement.
  A statement nobody cancelled need not end, nor need an idle client act.
* The loop of a laboratory and its watchdog threads are scheduled; the daemon
  need not answer.
* `SF` is assumed only of a thread that has to win `Application`'s close lock,
  which others keep taking for a bounded time.
* Nothing is assumed of clients, administrators, external editors or failures.

## 4. What is proved

`DatasourceRegistryProofs` proves, for any sets of datasources, aliases,
leases and reservations and any limits satisfying the module's assumptions
(`LimitsAssumption`: the limits are positive naturals; `SetsAssumption`: leases
and reservations are finite sets, and `None` is in none of the sets), eight
theorems of the form `Spec => []P`:

| Theorem | P | Checked in registry_sessions too |
|---|---|---|
| TypeCorrect | `TypeOK`: in particular no counter goes negative | proved only |
| CountersCorrect | `CountersAgree` | yes |
| UseCorrect | `NoCloseUnderUse` | yes |
| ShutdownCorrect | `ClosedIsEmpty` | yes |
| ConnectionsCorrect | `SessionsOwnConnections` | proved only |
| DrainingCorrect | `RetiredIsDraining` | proved only |
| PublicationCorrect | `PublishedIsCurrent` | proved only |
| LimitsCorrect | `SessionLimitsHold` | proved only |

None of them is inductive alone. The inductive invariant `IInv` (in
`DatasourceRegistry`, with the properties) adds to `TypeOK`, `CountersAgree`
and `SessionLimitsHold` five parts:

* `GenInv`: the flags of a generation and the collections it is in tell one
  story; what is published is born and not retired, one per datasource, and
  what is born and not retired is published.
* `SessionInv`: sessions sit on generations that are not closed, and every
  retired generation has one. This is what makes the last release the one that
  closes.
* `ReservationInv`: a promised slot belongs to a reservation that is held.
* `LeaseInv`: for each `pc` of a session's thread, who holds the lease's lock
  and whether the lease is admitted, closed or connected. `NoCloseUnderUse` is
  a consequence: the shutdown closes only what it has locked.
* `ShutdownInv`: what each phase of `close` has established, up to the last
  one, when sessions, reservations and open generations are gone.

The counters are cardinalities of sets, so each action that moves a member
uses `CardAdd` or `CardRemove`. There is one lemma for each action on the
registry's part of `IInv` (`OpenSessionRegistry`, `ReleaseRegistry`,
`WithdrawRegistry`, `PublishRegistry` and so on, with `RetireFacts` shared by
the last two) and one for each group of actions on the locks' part
(`SessionThreadLocks`, `ShutdownThreadLocks` and so on); `NextIInv` puts them
together, and each theorem follows by PTL.

`HandOverSafe` states what the abstract hand-over promises of the registry
itself, in its mapped state: a current generation is born, not draining and
current for one datasource only; users are only on current or draining
generations, and a generation drains only while it is used. It follows from
`GenInv` and `SessionInv`.

**The refinement** `LifecycleImplemented` (`Spec => ImplementsLifecycle`) is proved from `IInv`: `InitIInv` maps the initial states,
and one lemma per action that the abstract specification can see
(`OpenSessionRefines`, `ReleaseRefines`, `WithdrawRefines`, `PublishRefines`,
`CloseEndRefines`) maps its step to a step; `StutterRefines` covers the others.

**The budget ledger** (`BudgetLedgerProofs`, `CreditsCorrect`): `CreditsSound`
for any number of slots, epochs, datasources and any sizes. Every method ends
in `_commit`, which validates the totals before it publishes an image, so
`CommitKeeps` gives `WithinLimits` once and for all; the induction is about
references. `IInv` adds that a generation is born live (so `mark_live` never
makes a second one) and that, while the ledger is not broken, the tokens handed
out are exactly those of the occupied slots. The ledger's sum over its slots is
a fold; `NoBytesHeld` shows by `MinimalSet` (a smallest counterexample among
the subsets of a finite set) that it is zero for a new ledger.

**The datasource service** (`DatasourceServiceProofs`): `ServiceCorrect` proves
`ServiceSound` and `UpdatesCorrect` the action property `NoLostUpdate`, for any
clients, identifiers, aliases and revisions. `IInv` says, for each stage of a
write, how what the disk may hold, the catalogue in memory and the generations
published differ (`DiskInv`, `ServingInv`, `OutcomeInv`), and relates every
document somebody was shown to every document a restart may find (`KnownInv`
with `Precedes`: neither a document's nor a record's revision comes back with
another content). `WriterInv` is what `NoLostUpdate` needs: from the guard to
the persistence the record is the one the client saw.

**The configuration file** (`AdminConfigProofs`): `ConfigCorrect` proves
`ConfigSound` and `ChangesCorrect` proves `NoChangeLost`, for any queries,
clients, revisions, edits and crashes, all in one behaviour; the run
admin_config has to keep queries apart from edits and crashes. `IInv` counts
the users of each runtime (`CountInv`), orders what is retired, closed and
published (`OrderInv`), and keeps the operation's capacity: what is retired
only shrinks while the operation is in the section, so the `swap` that was
possible at the check is possible at the publication, and the file is never
replaced without being published (`OperationInv`). `SeenInv` says that what a
client read is never newer than the file and the same at the same revision,
which makes the comparison of numbers in `_check_revision` a comparison of
documents, across restarts and external edits. It fails only when one number
was given to two documents, and there are two ways to that (section 6): a power
loss that brought an earlier document back (`undone`), and an edit by hand that
kept or lowered the number it found (`renumbered`). `NoLostUpdate` excepts these
behaviours and no other; the part of `ConfigSound` that says that an applied
change survives excepts the second, because such an edit is itself the loss.

**The encrypted catalogue** (`CatalogStoreProofs`): `CatalogRecovers` proves
`Recoverable`, `CatalogKeysCurrent` proves `KeysAreCurrent` and
`CatalogIsAtomic` the refinement `BehavesAtomically`, for any processes, keys,
digests and revisions and with any number of failures, kills and losses of
power. The three have two hypotheses, and both name something the code does not
survive (section 6): `OneInitializer`, at most one process initializes, and
`PowerAlone`, a behaviour with losses of power has neither kills nor failing
calls. The run catalog_crash satisfies both. The heart of `IInv` is `DiskInv`:
for every combination of what a loss of power may bring back, store, anchor and
journal `Agree`, that is, they are a prefix of the protocol that a plan of the
recovery completes or undoes; `SyncInv` says that at most the name about to be
synced can come back, `WriteInv` and `RecoverInv` what each step has made of the
files, `KeyInv` whom the backups are readable to, `LegitInv` that whatever may be
found is something a caller may be told. Steps that sync only remove outcomes,
so `FewerOutcomes` covers them; `PlanRecoverySound` and `PlanWithBothKeysSound`
show that what a recovery decides to do fits what it found.

**The listener** (`LifecycleProofs`): `SlotsCorrect` proves `SlotsAgree` and
`NeverClosedUnderThread`, and `ListenerCorrect` all of `ListenerSound`, for any
number of connections, slots and tokens and with any of the failures, that of
the thread factory and of the accept loop itself included. `Conn` is
finite because slots are counted; `ListenerCorrect` has the hypothesis
`~EarlyStop`, for the reason in section 6 (`pgwire/listener.py:635`), which
`SlotsCorrect` does without. The argument is that acceptor and stop exclude one
another: `stop` passes its join only when the acceptor has ended or was
cancelled before it entered, and a cancelled thread never enters
(`AcceptorInv`, lemma `Alone`). Reaping and closing by either therefore never
meet a connection that is being admitted, which `AdmittedInv` places, step by
step, outside or inside the records. `ConnInv` says that a connection outside
the records has no thread that may run, and that its socket is closed, retained
or the one being admitted; `StopInv` says that the evidence `stop` collected is
still true when it publishes it.

**Sessions, results and the work queue** (`LifecycleProofs`, each over
`FairParts`, the parts of `MCLifecycle` side by side; fairness is not used).

* `SessionCorrect` proves `SessionSound` for any users, aliases, mechanisms and
  rounds of the handshake. A session goes one way (`OneWay`: what it may still
  do follows from the step it is in), and what an earlier step established is
  still there when a later one relies on it (`ProofIsKept`, `BindingIsKept`).
  `SentInOrder` says what a message already sent implies of the session.
* `ResultsCorrect` proves `ResultsSound`, which is about two components. For
  the worker's session, until a call fails, what is on its way in the two
  streams and where the child is follow from where the parent is (`SaidSoFar`,
  `Opening`, `Serving`), so nothing is left over from one job when the next is
  sent; afterwards the session is never ready again, and `Cleaned` says what
  `_cleanup` has shown by the time it confirms. For the receiver, at most one
  call works, the receiver's state names it and only its own completion ends it
  (`WorkIsInProgress`, `CalledOnce`); the payload is dropped once, by the close
  that took it, and what was lost on the way keeps the pin (`DroppedOnce`).
* `QueueCorrect` proves `QueueSound`, an invariant and an action property, for
  any workers and tickets. A drain meets no start and no admission any more
  (`DrainComesLast`, `AcceptedIsTicket`, `IdleHasNoThread`); once a failure is
  recorded somebody contains it, or it is contained, or the queue is frozen
  (`FailureIsContained`), which is what the action property needs.

**The configuration's directory** (`AdminConfigProofs`, `DirectoryCorrect`):
`DirectoryKept` for any number of processes, tokens and people who ignore the
lock. `Local` says of each process that it holds the lock exactly while it
works on the directory, and then what its own temporary (`OwnTemp`) and its own
backup (`OwnBackup`) contain and that every other temporary was found or removed
(`NoOrphan`); `Common` is the rest of the property. Whoever has the lock cannot
disturb the `Local` of the others, which do not work; a person can, through the
configuration file, and `raced` marks the window in which nobody looks again.

**The entry point** (`AdminConfigProofs`, `StartupCorrect`): `StartupSound`
for any answers of the resolver. `Accepted`, `Loaded` and `Bound` carry what a
check accepted to the step that relies on it. For the certificate this is the
argument of `pgwire/tls.py`: files may be replaced at any moment, but leaf and
binding are taken from what was loaded, and what was loaded is compared with
what was read. The address is the literal of the environment, which may be a
wildcard when TLS is on, or one acceptable answer of the resolver, never a
wildcard. `Running` and `Ended` follow the application from its start to the
exit code; a `close` that raises leaves it retained, and then the code is not
that of success.

**The verification children** (`VerificationLedgerProofs`, `ChildrenCorrect`):
`ChildrenSound`, for any threads, tokens, records and slots, with every failure
and interruption the model has. In the ledger a record's claim is a token:
`ClaimHasCollector` and `HoldsItsRecord` say that a claimed record has exactly
one thread behind it, the only one that may settle it, although addresses are
used again; what a reap reported gone is still gone then (`SettledIsGone`), and
free slots and records add up (`SlotsConserved`). In the child's record every
mark is written before what it marks can exist (`NothingBeforeSpawn`,
`AttemptRecorded`), so an interruption leaves marks without processes, threads
or pipes but never the reverse, and `ReapedIsFinal` follows. The
verification and the bind resolver have a ledger and a child each, as instances
of the two modules; one set of lemmas covers each pair.

**The application** (`ApplicationProofs`, `ApplicationCorrect`):
`ApplicationSound` for any number of threads that call `run` and `close`. Two
facts carry the induction. Proofs do not age: only the start creates threads,
and `BuildInv` says that nobody calls before it is over, so a thread proved
ended stays ended, through a failed `close` and its repetition too. And one
caller at a time is between the lock and the end of `close`, so `CloseInv` can
say what each step has established for it (`InsideKeeps` is the frame its nine
steps share). `UnwindInv` is the same for the unwinding of a failed start,
where `settled` is the proof and the ledger must hold the owners from its first
step on; `UsersInv` says that the catalogue is there before its users, so that
whoever is retained is retained with it. Each step of `close` may raise, the
stop of the HTTP server too, and leaves what it had not finished.

Assumptions on the constants, each in the module that declares them and
evaluated by TLC on its run: limits, bounds and sizes are naturals, positive
where the code's are; the sets that are counted are finite; the values that
stand for absence are not members of the sets they are absent from. Where a
part is an `INSTANCE`, the module that composes the parts states them
(`WorkerConstants`, `ReceiverConstants`, `SessionConstants` in `MCLifecycle`,
`FileConstants`, `EntryConstants` in `MCAdminConfig`, `ChildConstants` in
`MCVerificationLedger`). No proof
uses the size of a set of the runs. Each `IInv` was first checked by TLC on the
constants of its run.

### Only model-checked

* Liveness under fairness, and everything that needs ENABLED: not supported by
  the prover.
* `QueryJob` with `MCQuery`, and `Presentation`: they walk trees of any depth,
  and the proof system does not handle RECURSIVE operators. So are
  `NothingProtectedInClear`, `ResultsAreTrue` and `TargetsSound`.
* `DomainSound`: what an accepted plan admits is a sum over processes and over
  sizes, and its proof an induction over data. (`NoBytesHeld` of the ledger
  shows how far an explicit smallest counterexample goes: to a sum that is
  zero.)
* `ListenerSound` when `stop` overlaps `start`, and the catalogue with two
  initializers or with a loss of power after another failure: false, see
  section 6; the theorems name the hypothesis.
* `AdminHttp`, `ReaderClean` and the laboratories: no proof has been written.
  Their actions are long sequences of calls with little state in common, which
  TLC covers exhaustively; the sets they run over are small in the code too.

## 5. What is not modelled

* Bytes: framing, encodings, cryptography, certificates, archives, native
  structures. `PgwireSession` keeps the comparisons of SCRAM as truth values,
  the frames of `QueryJob` keep lengths and form.
* The transformers' arithmetic on characters; `masking/transformers` is modelled
  in the checks of its parameters only.
* Wording of messages and lines, layout of pages, sanitising of audit fields.
* The MCP library, its transport and the texts of the tool.
* `datasource/migration.py`, a single pass over an in-memory document.
* The browser pages and the generators under `src/frontend/`.
* Laboratory programs that only measure, export or verify offline, and the
  earlier and later versions of those modelled (`pg16_public_*`,
  `w1_bootstrap_t4_*`, `*_v2.py` of the native control): they repeat the
  control of their modelled counterparts or have none.
* Asynchronous exceptions between two arbitrary statements. They are modelled
  where the code has a handler for them (receiver, worker session,
  verification ledger, native control, collector, laboratory runs).
* The kernel's side of the worker guard, and the event loop of the HTTP server.
* Systems other than POSIX, where the gateway is not deployed:
  `config/filesystem.py:786-791` then answers without a sync of the directory,
  so "applied" promises less there than `AppliedSurvives` says.
* An `on_unknown` of the work queue that raises something other than an
  `Exception` (`runtime/admin_work.py:405-412`). The `finally` freezes the queue
  all the same; only the ticket would stay open. A KeyboardInterrupt goes to the
  main thread, which is not one of the queue's.
* A failed assertion inside a publication (`runtime/datasources.py:603-616`) after
  the catalogue was written. `admin/http/v2/operations.py:185` would answer
  CATALOG_WRITE_ERROR, which says that nothing was applied. The proofs about the
  registry show the asserted facts, so `AdminHttp` has no such step.

## 6. Where the code and its documents disagree

Shown by a run:

* **catalog_unsynced_store** (`datasource/store.py:1529`): the recovery of
  `open` advances the anchor over a store whose rename was never synced.
  PROJECT.json quotes the lines.

Met while modelling, and kept out of the passing runs by the bound named:

* `admin/service.py:508`: after a directory sync failed, a loss of power can
  bring back the earlier file, and the next write gives its number to another
  document, which `docs/PHASE-7-SPEC.md:446` ("nunca é reutilizada") excludes.
  The variable `undone` of `AdminConfig` marks these behaviours and
  `NoLostUpdate` excepts them.
* `admin/service.py:535`: `_check_revision` compares numbers. Somebody who edits
  the file by hand and keeps its number (or lowers it, so that a later write
  reaches it again) and restarts the process makes a client's earlier reading
  look current, and its write replaces the edit unseen. `docs/PHASE-7-SPEC.md:194-199`
  names this ambiguity as the reason why a running process does not adopt edits;
  a restart does. The variable `renumbered` marks these behaviours.
* `datasource/store.py:857`: `initialize` looks for the files before it takes
  the locks, and not again; of two processes the later one may replace the
  other's catalogue by an empty one. `Initializers` has one member.
* `pgwire/listener.py:635`: `stop` collects its evidence before it looks at a
  `start` in flight, which may leave a socket it could not close after the
  evidence was read. `EarlyStop = TRUE` lets the two overlap.
* `datasource/verify.py:573`: `run` returns with the child's end, and `reap`
  closes stdout before it joins the reader; a slow reader then loses the
  answer, and a child that reported CAPABILITY or success is reported as
  CONNECTION, which the documentation of `verify` (line 939) excludes. No
  property of `ChildRecord` says that an answer is returned.
* `docs/poc/pg16_shell_host.py:763`: `_case` calls `send_vector` right after
  `start`, without `await_ready`; `send_vector` demands the phase READY
  (`docs/poc/pg16_shell_owner.py:182`), which only `await_ready` sets, so every
  case of the host is refused. Its tests give the host an owner of their own
  (`tests/test_pg16_shell_host.py:87`). `ReaderLab` lets a delivery end either
  way; `AttachOwner` drives the owner in the order its own tests do and, too,
  in the host's (the refusal of `send`).
* `sql/sensitivity.py:242-248`: the names a whole-row form is compared with are
  those of the relations in the query. `row_to_json(s)` over a subquery `s` of
  the FROM is accepted and its only column has no origin, while
  `docs/MASKING-SPEC.md:195` says of the whole row that it is rejected. The query
  `inner_row` of `MCQuery` is this one, and `exact` is false of it, which excepts
  it from the second part of `NothingProtectedInClear`.

Decided by the project, and modelled as decided:

* `db/provenance.py:105` and `:148-151`: within a connection the name a column
  was first met under is kept, and so is the answer that the catalogue has none
  (D-021, `docs/DECISIONS.md:281`; the risk is accepted in
  `docs/FUTURE-HARDENING.md:141`). A column renamed to a protected name after
  that is judged by the earlier name, and one whose origin was not found only by
  the name it has in the result. The first part of `NothingProtectedInClear` is
  therefore about the names the connection met (`met`), which a new connection
  forgets.
* `pgwire/settings.py:169-183`: the literals `0.0.0.0` and `::` are accepted as
  any other address beyond the host, with TLS; only a hostname may not resolve
  to them.
* `deploy/oracle9_offline_install.py:415`: whatever was in the prefix before the
  installation is allowed after it, and lines 509-516 look only at versions, the
  `lib64` link and the names of scripts. A stray file put there before is kept
  and attested with the rest; `ReportedIsTrue` says of the installation that it
  added the pinned files and nothing else. The update starts only from the one
  pinned attestation, so there a stray file is refused.

The catalogue's passing run has failing calls and kills in one regime and
losses of power in the other, because a loss of power after a kill meets the
disagreement of the first item.

## 7. Plan

Done: every component of section 1, checked; proved: the datasource registry and
the encrypted catalogue with their refinements, the budget ledger, the
verification children, the datasource service, the configuration file with the
runtime registry and its directory, the entry point, the listener with its
sessions, receivers and work queue, and the application.

Next, in this order:

1. `AnswersAndAuditAgree` of `AdminHttp`: the inductive invariant has to say,
   for each step of a request, which of answer, audit record and change exist.
2. `DomainSound`, with the sums of `reconcile` bounded through lemmas on
   `MapThenSumSet` by smallest counterexamples.
3. `NothingProtectedInClear`, once the walk over a result's tree is written as a
   recursive function.

Further liveness (the listener's `stop`, writes of the service, the child
record) stays with TLC.
