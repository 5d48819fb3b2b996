------------------------------ MODULE Startup ------------------------------
(***************************************************************************)
(* The start of the process, from its environment to its exit code:        *)
(* bootstrap/main.py, bootstrap/settings.py, admin/http/settings.py,       *)
(* pgwire/settings.py, pgwire/composition.py, pgwire/bind_resolution.py,   *)
(* pgwire/tls.py, config/loader.py and config/gateway.py with the builders *)
(* of masking/transformers.  How the parts of the application are opened   *)
(* and unwound is module Application; here composing it is one step that   *)
(* may fail.                                                               *)
(*                                                                         *)
(* Whoever renews the certificate replaces the two files under the         *)
(* process, one at a time and at any point.  A file is a record of what    *)
(* the program can tell of it: its identity (device, inode, size, time),   *)
(* the leaf it holds or belongs to, and whether it may be trusted.  Raw    *)
(* settings are what their parsers tell apart: an integer is whether it is *)
(* set, whether its text is plain digits, and its value.                   *)
(***************************************************************************)
EXTENDS Integers, Sequences, FiniteSets, Functions

CONSTANTS Environments,   \* the environments a process is started in
          CertFiles,      \* the files found under the path of the certificate
          KeyFiles,       \* the files found under the path of the key
          Answers,        \* what the resolver child says of the host of the bind
          MaxSwaps        \* bound: how often somebody replaces a TLS file

VARIABLES env,            \* the environment, read once
          cert, key,      \* the TLS files now
          swaps,          \* how often they were replaced
          pc,             \* where main() is
          tls,            \* what prepare_server_tls holds so far
          address,        \* the address of the bind: "none" or a kind of address
          app,            \* "none", "open", "closed", "retained": its close() gave up
          told,           \* the lines written on stderr
          exit            \* "none", "0", "1" or "raised"

vars == <<env, cert, key, swaps, pc, tls, address, app, told, exit>>

\* An answer of the resolver is a sequence of kinds of addresses.
AnswersAssumption == Answers \subseteq Seq({"loopback4", "loopback6", "public4", "public6", "wildcard", "odd"})

NoFile == [ino |-> 0, time |-> 0, leaf |-> "none", good |-> FALSE, valid |-> FALSE]
NoTls == [certWas |-> NoFile, keyWas |-> NoFile, pem |-> NoFile, loaded |-> "none", binding |-> "none", ready |-> FALSE]

-----------------------------------------------------------------------------
(* The settings of the PostgreSQL plane.                                    *)

DefaultPort == 6432
MaxPort == 65535
MaxInteger == 999999999

IntegerSound(raw, max) == raw.set => raw.plain /\ raw.n >= 1 /\ raw.n <= max
ValueOf(raw, default) == IF raw.set THEN raw.n ELSE default

\* Any address is a literal, "wildcard" (0.0.0.0 and ::) too.  Nothing but the two
\* literals is loopback: a name, localhost too, is not.
BindKind(bind) == CASE bind \in {"none", "loopback", "public", "wildcard"} -> "literal"
                    [] bind \in {"localhost", "host"} -> "name" [] OTHER -> "bad"
Literal(e) == IF e.bind = "none" THEN "loopback" ELSE e.bind
BindIsHostname(e) == BindKind(e.bind) = "name"
BindIsLoopback(e) == e.bind \in {"none", "loopback"}
TlsConfigured(e) == e.cert # "none"
TlsRequired(e) == ~BindIsLoopback(e)

PgwireResolved(e) ==
  /\ e.user = "good" /\ e.password
  /\ BindKind(e.bind) # "bad"
  /\ IntegerSound(e.port, MaxPort)
  /\ e.cert # "bad" /\ e.key # "bad" /\ (e.cert = "none" <=> e.key = "none")
  /\ IntegerSound(e.sessions, MaxInteger) /\ IntegerSound(e.idle, MaxInteger)
  /\ TlsRequired(e) => TlsConfigured(e)

\* validate: the same again over the settings the composition received.
PgwireValid(e) ==
  /\ e.user = "good" /\ e.password /\ BindKind(e.bind) # "bad"
  /\ ValueOf(e.port, DefaultPort) \in 1..MaxPort
  /\ ValueOf(e.sessions, 32) \in 1..MaxInteger /\ ValueOf(e.idle, 300000) \in 1..MaxInteger
  /\ (e.cert = "none") <=> (e.key = "none")
  /\ TlsRequired(e) => TlsConfigured(e)

\* The request of main() holds no address and no test port; the settings are checked again.
Composition(e) == PgwireValid(e)

(* The settings of the administration plane.                                *)

AdminEnabled(e) == e.adminEnabled

AdminBuild(e) == e.token = "long" /\ e.adminBind \in {"none", "loopback", "localhost"}
                 /\ ValueOf(e.adminPort, 8765) \in 1..MaxPort

AdminResolved(e) == AdminEnabled(e) => e.token # "none" /\ (e.adminPort.set => e.adminPort.plain) /\ AdminBuild(e)

UiResolved(e) == e.ui => AdminEnabled(e)

\* The two paths of the catalogue: a relative store is beside masking.yaml, a relative anchor is refused.
CatalogPaths(e) == e.store # "bad" /\ e.anchor \in {"none", "absolute"}

-----------------------------------------------------------------------------
(* masking.yaml.                                                            *)

\* The parameters a transformer requires and allows.
Required(name) == CASE name = "regex" -> {"pattern", "replacement"} [] name = "random" -> {"strategy"}
                    [] name = "fixed" -> {"value"} [] name = "truncate" -> {"length"} [] OTHER -> {}
Optional(name) == IF name = "random" THEN {"preserve_length", "length"} ELSE {}
Known == {"md5", "sha256", "sha512", "hmac_sha256", "regex", "random", "fixed", "truncate"}

RequireParams(rule) == Required(rule.name) \subseteq rule.params /\ rule.params \subseteq Required(rule.name) \cup Optional(rule.name)

\* typed: every value has its type, its range and, for a pattern, compiles.
BuildRandom(rule) == rule.typed /\ (rule.preserve <=> "length" \notin rule.params)

BuildHmac(rule, e) == rule.params = {} /\ e.hmac = "long"

BuildTransformer(rule, e) ==
  /\ rule.name \in Known
  /\ RequireParams(rule)
  /\ CASE rule.name = "random" -> BuildRandom(rule)
       [] rule.name = "hmac_sha256" -> BuildHmac(rule, e)
       [] OTHER -> rule.typed

MaxTimeout == 600000
MaxRows == 1000000

\* An adopted document (revision above 0) has an identity in every item, and no two the same.
FileConfigValid(d) ==
  /\ d.timeout \in 100..MaxTimeout /\ d.rows \in 1..MaxRows /\ d.revision >= 0
  /\ d.revision > 0 => /\ "none" \notin Range(d.ruleIds) \cup Range(d.exceptionIds)
                       /\ IsInjective(d.ruleIds) /\ IsInjective(d.exceptionIds)

CompilePolicy(d, e) == \A i \in DOMAIN d.rules : BuildTransformer(d.rules[i], e)

ParseConfigBundle(e) == e.document.readable /\ FileConfigValid(e.document) /\ CompilePolicy(e.document, e)

-----------------------------------------------------------------------------
(* The address of a bind by name.  An answer is the sequence of kinds of    *)
(* addresses the child wrote, "odd" for an entry of another shape; an empty *)
(* one stands for a child that failed, timed out or wrote anything else.    *)

Acceptable(a) == a \in {"loopback4", "loopback6", "public4", "public6"}

DecideAnswer(answer) ==
  IF answer # <<>> /\ (\A i \in DOMAIN answer : Acceptable(answer[i])) /\ Cardinality(Range(answer)) = 1
  THEN answer[1] ELSE "none"

-----------------------------------------------------------------------------

Init == /\ env \in Environments /\ cert \in CertFiles /\ key \in KeyFiles
        /\ swaps = 0 /\ pc = "main" /\ tls = NoTls /\ address = "none" /\ app = "none" /\ told = <<>> /\ exit = "none"

Stay == UNCHANGED <<env, cert, key, swaps>>

ReplaceCertificate == /\ swaps < MaxSwaps /\ cert' \in CertFiles /\ cert' # cert /\ swaps' = swaps + 1
                      /\ UNCHANGED <<env, key, pc, tls, address, app, told, exit>>
ReplaceKey == /\ swaps < MaxSwaps /\ key' \in KeyFiles /\ key' # key /\ swaps' = swaps + 1
              /\ UNCHANGED <<env, cert, pc, tls, address, app, told, exit>>

\* A failure of the composition: one fixed line; in the activation of the listener
\* an stderr that is broken is not noticed, otherwise its error leaves main().
StartFailed ==
  /\ pc' = "done" /\ UNCHANGED <<tls, address, app>>
  /\ \/ told' = Append(told, "startup failure") /\ exit' = "1"
     \/ told' = told /\ exit' = (IF env.pgEnabled THEN "1" ELSE "raised")

\* _compose: without the listener, the console and the administration.
ComposeAdmin ==
  /\ pc = "main" /\ ~env.pgEnabled /\ Stay
  /\ IF UiResolved(env) /\ AdminResolved(env)
     THEN pc' = "document" /\ UNCHANGED <<tls, address, app, told, exit>>
     ELSE StartFailed

\* _build_pgwire_application, up to the two files of the catalogue.
ComposePgwire ==
  /\ pc = "main" /\ env.pgEnabled /\ Stay
  /\ IF /\ ~env.ui /\ AdminResolved(env) /\ ~AdminEnabled(env)
        /\ PgwireResolved(env) /\ CatalogPaths(env) /\ env.catalog
        /\ Composition(env)
     THEN pc' = (IF TlsConfigured(env) THEN "stat" ELSE "bind") /\ UNCHANGED <<tls, address, app, told, exit>>
     ELSE StartFailed

\* prepare_server_tls: both files are looked at before anything is read.
StatFiles ==
  /\ pc = "stat" /\ Stay
  /\ IF cert.good /\ key.good
     THEN /\ tls' = [tls EXCEPT !.certWas = cert, !.keyWas = key]
          /\ pc' = "read" /\ UNCHANGED <<address, app, told, exit>>
     ELSE StartFailed

\* The certificate is read through a descriptor of the same inode, and must be valid now.
ReadCertificate ==
  /\ pc = "read" /\ Stay
  /\ IF cert.ino = tls.certWas.ino /\ cert.valid
     THEN tls' = [tls EXCEPT !.pem = cert] /\ pc' = "load" /\ UNCHANGED <<address, app, told, exit>>
     ELSE StartFailed

\* load_cert_chain opens the paths once more: the certificate, then the key.
LoadCertificate ==
  /\ pc = "load" /\ Stay
  /\ IF cert.leaf # "none"
     THEN tls' = [tls EXCEPT !.loaded = cert.leaf] /\ pc' = "load key" /\ UNCHANGED <<address, app, told, exit>>
     ELSE StartFailed
LoadKey ==
  /\ pc = "load key" /\ Stay
  /\ IF key.leaf = tls.loaded THEN pc' = "stat again" /\ UNCHANGED <<tls, address, app, told, exit>> ELSE StartFailed

Identity(f) == <<f.ino, f.time>>

StatAgain ==
  /\ pc = "stat again" /\ Stay
  /\ IF /\ cert.good /\ key.good
        /\ Identity(cert) = Identity(tls.certWas) /\ Identity(key) = Identity(tls.keyWas)
     THEN pc' = "handshake" /\ UNCHANGED <<tls, address, app, told, exit>>
     ELSE StartFailed

\* Faulty variant of SameLeaf: the second look at the files is thought to be enough.
SameLeafByFiles(t) == t.loaded # "none"

\* What the context presents in a handshake in memory decides.
SameLeaf(t) == t.loaded = t.pem.leaf

Handshake ==
  /\ pc = "handshake" /\ Stay
  /\ \/ /\ SameLeaf(tls)
        /\ tls' = [tls EXCEPT !.binding = tls.loaded, !.ready = TRUE] /\ pc' = "bind" /\ UNCHANGED <<address, app, told, exit>>
     \/ StartFailed

\* The child answers, or fails; the answer is decided once and bound as it is.
BindAddress ==
  \E answer \in Answers :
    IF DecideAnswer(answer) # "none"
    THEN address' = DecideAnswer(answer) /\ pc' = "document" /\ UNCHANGED <<tls, app, told, exit>>
    ELSE StartFailed

\* _finalize: a bind by name is resolved only after everything local was accepted.
ResolveBind ==
  /\ pc = "bind" /\ Stay
  /\ IF ~BindIsHostname(env)
     THEN address' = Literal(env) /\ pc' = "document" /\ UNCHANGED <<tls, app, told, exit>>
     ELSE BindAddress

\* The rest of build_application: masking.yaml, the connection string, the parts.
BuildApplication ==
  /\ pc = "document" /\ Stay
  /\ \/ /\ ParseConfigBundle(env) /\ env.dsn
        /\ app' = "open" /\ pc' = "lines" /\ UNCHANGED <<tls, address, told, exit>>
     \/ StartFailed

\* close() is called and may give up; neither that nor a broken stderr shows.
Abort == /\ app' \in {"closed", "retained"} /\ pc' = "done" /\ exit' = "1" /\ UNCHANGED <<tls, address>>

Lines(e) == <<"revision">> \o (IF AdminEnabled(e) THEN <<"admin">> ELSE <<>>) \o (IF e.pgEnabled THEN <<"pgwire">> ELSE <<>>)

\* The lines of the revision and of the listeners; a failure of stderr, before or
\* after the first of them, ends the start.
TellLines ==
  /\ pc = "lines" /\ Stay
  /\ \/ told' = Lines(env) /\ pc' = "run" /\ UNCHANGED <<tls, address, app, exit>>
     \/ /\ env.pgEnabled /\ Abort
        /\ \E written \in {<<>>, <<"revision">>} : told' \in {written, Append(written, "startup failure")}
     \/ /\ ~env.pgEnabled /\ pc' = "done" /\ exit' = "raised" /\ told' \in {<<>>, <<"revision">>}
        /\ UNCHANGED <<tls, address, app>>

\* A failure of run() or of the close() that follows it.
Failed(raised, a) == raised \/ a = "retained"

\* run() returns or raises, and close() is called in any case and may give up.
RunAndClose ==
  /\ pc = "run" /\ Stay /\ pc' = "done" /\ UNCHANGED <<tls, address>>
  /\ app' \in {"closed", "retained"}
  /\ \E raised \in BOOLEAN :
       \/ ~Failed(raised, app') /\ exit' = "0" /\ told' = told
       \/ Failed(raised, app') /\ exit' = "1" /\ told' = Append(told, "runtime failure")
       \/ Failed(raised, app') /\ exit' = (IF env.pgEnabled THEN "1" ELSE "raised") /\ told' = told

Next == \/ ReplaceCertificate \/ ReplaceKey
        \/ ComposeAdmin \/ ComposePgwire
        \/ StatFiles \/ ReadCertificate \/ LoadCertificate \/ LoadKey \/ StatAgain \/ Handshake
        \/ ResolveBind \/ BuildApplication \/ TellLines \/ RunAndClose

Spec == Init /\ [][Next]_vars

-----------------------------------------------------------------------------

\* A process that serves PostgreSQL clients is out of everybody's reach or has TLS;
\* the certificate its handshakes present is the one whose digest binds the channel,
\* and it is the one that was read and found valid, from the file that nobody else
\* may write, whatever was replaced while it was loaded.  It listens on the literal
\* it was given, a wildcard too, or on one address that the resolver gave for the
\* name, never a wildcard; and no other plane is open beside it.
ListeningIsSafe ==
  (app = "open" /\ env.pgEnabled) =>
    /\ address # "loopback" => tls.ready
    /\ tls.ready => /\ tls.binding = tls.loaded /\ tls.binding = tls.pem.leaf /\ tls.pem.valid
                    /\ tls.pem.ino = tls.certWas.ino /\ tls.certWas.good /\ tls.keyWas.good
    /\ IF BindIsHostname(env) THEN Acceptable(address) ELSE address = Literal(env)
    /\ ~env.adminEnabled /\ ~env.ui
    /\ env.document.revision > 0 => "none" \notin Range(env.document.ruleIds)

\* Success is told only by a process that ran and whose close() was complete.  One
\* that may have served PostgreSQL clients never ends without having called close(),
\* nor with an error of its own text; only a legacy process may, when stderr broke.
EndsClosed ==
  exit # "none" => /\ exit = "0" => app = "closed" /\ "revision" \in Range(told)
                   /\ app = "retained" => exit # "0" /\ (env.pgEnabled => exit = "1")
                   /\ env.pgEnabled => app # "open" /\ exit # "raised"
                   /\ app = "open" => exit = "raised" /\ ~env.pgEnabled

\* The entry point is sound: a process that listens is safe to talk to, and one that
\* ends has closed its application, or says by its exit code that it could not.
StartupSound == ListeningIsSafe /\ EndsClosed

-----------------------------------------------------------------------------
(* Why it is sound: what one step accepted is still so when a later one    *)
(* relies on it.  The environment is read once; the TLS files are not, so  *)
(* what counts is what the process holds of them.                          *)

Loading == {"stat", "read", "load", "load key", "stat again", "handshake"}
Local == Loading \cup {"bind"}
Served == {"lines", "run"}
Line == {"revision", "admin", "pgwire", "startup failure", "runtime failure"}
CertLeaf == {f.leaf : f \in CertFiles \cup {NoFile}}

Types ==
  /\ pc \in {"main", "document", "done"} \cup Local \cup Served
  /\ tls \in [certWas : CertFiles \cup {NoFile}, keyWas : KeyFiles \cup {NoFile},
              pem : CertFiles \cup {NoFile}, loaded : CertLeaf, binding : CertLeaf, ready : BOOLEAN]
  /\ cert \in CertFiles /\ key \in KeyFiles
  /\ told \in Seq(Line)

(* Of the environment, once it was accepted. *)
Accepted(at, e) ==
  /\ at \in Local => e.pgEnabled
  /\ at \in Local \cup {"document"} \cup Served /\ e.pgEnabled =>
       ~e.ui /\ ~AdminEnabled(e) /\ PgwireResolved(e)
  /\ at \in Loading => TlsConfigured(e)
  /\ at \in Served => ParseConfigBundle(e)

(* Of the files, as far as they were looked at, read and loaded. *)
Trusted(t) == t.certWas.good /\ t.keyWas.good
Valid(t) == t.pem.valid /\ t.pem.ino = t.certWas.ino
Loaded(at, t, e) ==
  /\ at \in Loading \cup {"main"} => ~t.ready
  /\ at \in Loading \ {"stat"} => Trusted(t)
  /\ at \in Loading \ {"stat", "read"} => Valid(t)
  /\ at \in {"bind", "document"} \cup Served /\ e.pgEnabled /\ TlsConfigured(e) => t.ready
  /\ t.ready => Trusted(t) /\ Valid(t) /\ SameLeaf(t) /\ t.binding = t.loaded

Bindable(a, e) == IF BindIsHostname(e) THEN Acceptable(a) ELSE a = Literal(e)
Bound(at, a, e) == at \in {"document"} \cup Served /\ e.pgEnabled => Bindable(a, e)

(* Of the application and the exit code. *)
Running(at, a, x, lines) ==
  /\ at \notin Served \cup {"done"} => a = "none" /\ x = "none"
  /\ at \in Served => a = "open" /\ x = "none"
  /\ at = "run" => lines # <<>> /\ lines[1] = "revision"
Ended(at, a, x, lines, e) ==
  at = "done" => /\ x = "0" => a = "closed" /\ lines # <<>> /\ lines[1] = "revision"
                 /\ x \in {"0", "1", "raised"}
                 /\ e.pgEnabled => a # "open" /\ x # "raised"
                 /\ a = "open" => x = "raised" /\ ~e.pgEnabled

IInv == /\ Types /\ Accepted(pc, env) /\ Loaded(pc, tls, env) /\ Bound(pc, address, env)
        /\ Running(pc, app, exit, told) /\ Ended(pc, app, exit, told, env)
=============================================================================
