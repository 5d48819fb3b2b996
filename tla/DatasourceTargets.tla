------------------------- MODULE DatasourceTargets -------------------------
(***************************************************************************)
(* From a draft to the process that queries: the models and their          *)
(* validation (datasource/models.py), the sealed secret (crypto.py), the   *)
(* record as it is stored and read again (store.py), the destination       *)
(* policy and the bounded resolver (destination.py, resolver.py), the      *)
(* candidate that is built and verified (runtime/candidate.py) and the     *)
(* snapshot a worker compiles again (runtime/snapshot.py).                 *)
(*                                                                         *)
(* Builders run side by side and share the slots of the resolver.  Name    *)
(* service and environment may change between any two of their steps.      *)
(* There is one datasource; its record has any number of revisions.  Texts *)
(* are members of small sets; an address is its kind and a number, and may *)
(* be written mapped into IPv6.                                            *)
(***************************************************************************)
EXTENDS Integers, Sequences, FiniteSets, SequencesExt

CONSTANTS Drafts,        \* what clients ask for, valid or not
          Answers,       \* what the name service may say: sets of raw addresses
          Keys,          \* the values the key of the environment may have
          Secrets,       \* upstream passwords
          Builders,      \* the calls that build a candidate
          Workers,
          None,          \* no value
          Raised,       \* an exception
          MaxSlots,      \* MAX_CONCURRENT_RESOLUTIONS
          MaxAddresses,  \* MAX_ADDRESSES
          MaxPayload,    \* MAX_SNAPSHOT_BYTES less the allowance for the identity
          MaxChanges     \* bound: changes of name service and environment

VARIABLES dns,       \* what the name service says now
          key,       \* MASKGW_HMAC_KEY now
          file,      \* the stored record, as JSON
          building,  \* [builder -> where it is and what it has]
          slots,     \* resolver slots in use
          children,  \* builders whose resolver child is alive
          published, \* the generations, in the order they were published
          worker,    \* [worker -> what it was sent and what it compiled]
          changes

vars == <<dns, key, file, building, slots, children, published, worker, changes>>

Id == "dso_1"
MasterKey == "m"

-----------------------------------------------------------------------------
(* Models.                                                                  *)

\* A host has a dot or is an address, and is no URL; lower() is what it is compared by.
HostValid(host) == host.form = "name"
Lower(host) == [host EXCEPT !.upper = FALSE]

AddressValid(raw) == raw.kind # "garbage"

TlsValid(tls) == tls.mode \in {"disable", "require", "verify-full"} /\ (tls.server # None => HostValid(tls.server))

LimitsValid(limits) == limits.timeout \in 1..6 /\ limits.rows \in 1..9 /\ limits.sessions \in 1..4

DestinationValid(policy) ==
  /\ \A i \in DOMAIN policy.hosts : ~policy.hosts[i].upper /\ HostValid(policy.hosts[i])
  /\ IsInjective(policy.hosts)

\* MaskingFileConfig: an adopted policy names every one of its items.
PolicyValid(policy) == policy.rows \in 1..9 /\ policy.timeout \in 1..6 /\ (policy.adopted => policy.named)

DraftValid(d) ==
  /\ HostValid(d.host) /\ d.port \in 1..9
  /\ TlsValid(d.tls) /\ LimitsValid(d.limits) /\ DestinationValid(d.destination) /\ PolicyValid(d.policy)
  /\ IsInjective(d.addresses) /\ \A i \in DOMAIN d.addresses : AddressValid(d.addresses[i])

EnvelopeValid(e) == e.algorithm = "AES-256-GCM" /\ e.version = 1

RecordValid(r) == r.id = Id /\ EnvelopeValid(r.secret) /\ DraftValid(r.draft) /\ r.revision >= 1

(* Secrets: what is opened is what was sealed for this id and this revision. *)

SealSecret(plain, revision) ==
  [algorithm |-> "AES-256-GCM", version |-> 1, ciphertext |-> [plain |-> plain, key |-> MasterKey, id |-> Id, revision |-> revision]]

OpenSecret(envelope, id, revision) ==
  LET c == envelope.ciphertext
  IN  IF c.key = MasterKey /\ c.id = id /\ c.revision = revision THEN c.plain ELSE Raised

(* The record as JSON: tuples are lists, bytes are base64, the envelope is a mapping. *)

EncodeB64(bytes) == <<"b64", bytes>>
DecodeB64(text) == IF Len(text) = 2 /\ text[1] = "b64" THEN text[2] ELSE Raised

RecordToJson(r) ==
  [id |-> r.id, revision |-> r.revision, lastTest |-> r.lastTest, draft |-> r.draft,
   secret |-> [algorithm |-> r.secret.algorithm, version |-> r.secret.version, ciphertext |-> EncodeB64(r.secret.ciphertext)]]

ParseEnvelope(j) == [algorithm |-> j.algorithm, version |-> j.version, ciphertext |-> DecodeB64(j.ciphertext)]

ParseRecord(j) ==
  IF DOMAIN j # {"id", "revision", "lastTest", "draft", "secret"} THEN Raised
  ELSE LET r == [id |-> j.id, revision |-> j.revision, lastTest |-> j.lastTest, draft |-> j.draft, secret |-> ParseEnvelope(j.secret)]
       IN  IF RecordValid(r) THEN r ELSE Raised

Stored == ParseRecord(file)

-----------------------------------------------------------------------------
(* Destinations.                                                            *)

\* The canonical form of an address: its mapping into IPv6 is undone; sorted, once each.
CanonicalAddresses(raws) ==
  IF raws = {} \/ \E a \in raws : ~AddressValid(a) THEN Raised ELSE {[kind |-> a.kind, n |-> a.n] : a \in raws}

ValidateAddress(a, host, policy) ==
  CASE a.kind = "metadata" -> FALSE
    [] a.kind = "loopback" -> policy.loopback
    [] a.kind \in {"unspecified", "link-local", "multicast"} -> FALSE
    [] a.kind = "private" -> TRUE
    [] a.kind = "reserved" -> FALSE
    [] a.kind = "public" -> policy.public /\ Lower(host) \in ToSet(policy.hosts)

\* resolve_destination on an answer: the addresses, or Raised.
ResolveDestination(draft, answer, expected) ==
  LET resolved == CanonicalAddresses(answer)
  IN  IF \/ ~HostValid(draft.host)
         \/ draft.port \notin 1..9
         \/ resolved = Raised
         \/ \E a \in resolved : ~ValidateAddress(a, draft.host, draft.destination)
         \/ expected # <<>> /\ CanonicalAddresses(ToSet(expected)) # resolved
      THEN Raised ELSE resolved

-----------------------------------------------------------------------------
(* Compilation, once in the parent and once more in the worker.             *)

\* The engine a policy compiles to: each rule with the key it was built with.
Engine(policy, keys) == [rules |-> policy.rules, keys |-> keys]

Lower2(a, b) == IF a < b THEN a ELSE b
EffectiveDatabase(policy, limits) == [rows |-> Lower2(policy.rows, limits.rows), timeout |-> Lower2(policy.timeout, limits.timeout)]

\* The name that TLS verifies goes with every address.
Conninfo(spec, addresses) ==
  [name |-> IF spec.draft.tls.server = None THEN spec.draft.host ELSE spec.draft.tls.server,
   addresses |-> addresses, port |-> spec.draft.port, secret |-> spec.secret, mode |-> spec.draft.tls.mode]

\* What a snapshot may say of a runtime: it never widens what its policy says.
RuntimeValid(payload) ==
  /\ PolicyValid(payload.policy)
  /\ payload.database.rows <= payload.policy.rows /\ payload.database.timeout <= payload.policy.timeout
  /\ payload.conninfo.addresses # {}

\* capture_template: what was compiled, with the key that was read, if one was.
CaptureTemplate(policy, database, conninfo, captured) ==
  LET payload == [policy |-> policy, database |-> database, conninfo |-> conninfo, secrets |-> captured]
  IN  IF policy.size > MaxPayload \/ ~RuntimeValid(payload) THEN Raised ELSE payload

Bind(template, identity) == [version |-> 1, identity |-> identity, runtime |-> template]

\* Only the key in the snapshot can be read, and it must have been.
ClosedSecretsComplete(payload) == (payload.policy.rules > 0) <=> (payload.secrets # None)

RecompileSnapshot(data, expected) ==
  LET payload == data.runtime
  IN  IF data.version # 1 \/ data.identity # expected \/ ~RuntimeValid(payload) \/ ~ClosedSecretsComplete(payload) THEN Raised
      ELSE [engine |-> Engine(payload.policy, [i \in 1..payload.policy.rules |-> payload.secrets]),
            database |-> payload.database, conninfo |-> payload.conninfo]

-----------------------------------------------------------------------------

Idle == [at |-> "idle"]

Init ==
  /\ dns \in Answers /\ key \in Keys
  /\ file = None
  /\ building = [b \in Builders |-> Idle]
  /\ slots = 0 /\ children = {} /\ published = <<>>
  /\ worker = [w \in Workers |-> Idle]
  /\ changes = 0

SetDns == /\ changes < MaxChanges /\ changes' = changes + 1
          /\ dns' \in Answers \ {dns}
          /\ UNCHANGED <<key, file, building, slots, children, published, worker>>

SetKey == /\ changes < MaxChanges /\ changes' = changes + 1
          /\ key' \in Keys \ {key}
          /\ UNCHANGED <<dns, file, building, slots, children, published, worker>>

Step(b, next) == building' = [building EXCEPT ![b] = next]
Fails(b, why) == Step(b, [at |-> "failed", why |-> why])
Rest == UNCHANGED <<dns, key, changes, worker>>

\* from_draft: a draft, which will be stored; from_record: what is stored, with the
\* secret that opens under its id and its revision or with the one that replaces it.
BeginDraft(b) ==
  /\ building[b].at = "idle"
  /\ \E d \in Drafts, s \in Secrets :
       /\ DraftValid(d)
       /\ LET secret == IF file = None THEN s ELSE OpenSecret(Stored.secret, Id, Stored.revision)
              spec == [draft |-> d, expected |-> d.addresses, secret |-> secret, origin |-> "draft",
                       revision |-> IF file = None THEN 0 ELSE Stored.revision]
          IN  IF secret = Raised THEN Fails(b, "SECRET") ELSE Step(b, [at |-> "resolve", spec |-> spec])
  /\ UNCHANGED <<file, slots, children, published>> /\ Rest

BeginRecord(b) ==
  /\ building[b].at = "idle" /\ file # None
  /\ LET r == Stored
         opened == OpenSecret(r.secret, r.id, r.revision)
         spec(secret, origin) == [draft |-> r.draft, expected |-> r.draft.addresses, secret |-> secret, origin |-> origin, revision |-> r.revision]
     IN  \/ IF opened = Raised THEN Fails(b, "SECRET") ELSE Step(b, [at |-> "resolve", spec |-> spec(opened, "record")])
         \/ \E s \in Secrets \ {opened} : Step(b, [at |-> "resolve", spec |-> spec(s, "rotate")])
  /\ UNCHANGED <<file, slots, children, published>> /\ Rest

\* resolve_with_timeout: no slot, no resolution; the child is a process of its own.
AcquireSlot(b) ==
  /\ building[b].at = "resolve"
  /\ IF slots = MaxSlots THEN Fails(b, "DESTINATION") /\ UNCHANGED slots
     ELSE Step(b, [building[b] EXCEPT !.at = "spawn"]) /\ slots' = slots + 1
  /\ UNCHANGED <<file, children, published>> /\ Rest

SpawnChild(b) ==
  /\ building[b].at = "spawn"
  /\ \/ Step(b, [building[b] EXCEPT !.at = "child"]) /\ children' = children \cup {b} /\ UNCHANGED slots
     \/ Fails(b, "DESTINATION") /\ slots' = slots - 1 /\ UNCHANGED children
  /\ UNCHANGED <<file, published>> /\ Rest

\* However communicate() ends, the child is dead and reaped before the slot goes back.
EndChild(b, answered) == children' = children \ {b}

\* The child answers with what the name service says now; or it says nothing usable,
\* runs out of time, or the wait for it is interrupted.
ChildAnswers(b) ==
  /\ building[b].at = "child" /\ slots' = slots - 1
  /\ LET spec == building[b].spec
         decided == ResolveDestination(spec.draft, dns, spec.expected)
     IN  \/ /\ EndChild(b, TRUE)
            /\ IF dns = {} \/ Cardinality(dns) > MaxAddresses \/ decided = Raised THEN Fails(b, "DESTINATION")
               ELSE Step(b, [at |-> "compile", spec |-> spec, addresses |-> decided, keys |-> <<>>, recorded |-> None])
         \/ EndChild(b, FALSE) /\ Fails(b, "DESTINATION")
  /\ UNCHANGED <<file, published>> /\ Rest

\* Faulty variant of RecordedKey: the provider is asked each time.
RecordedKeyAgain(recorded) == key

\* RecordingSecrets.get: the first value read is the value of this compilation.
RecordedKey(recorded) == IF recorded = None THEN key ELSE recorded

\* One rule of the policy is compiled; the key must be there and be long enough.
CompileRule(b) ==
  LET at == building[b]
      k == RecordedKey(at.recorded)
  IN
  /\ at.at = "compile" /\ Len(at.keys) < at.spec.draft.policy.rules
  /\ IF k \in {"absent", "short"} THEN Fails(b, "POLICY")
     ELSE Step(b, [at EXCEPT !.keys = Append(@, k), !.recorded = k])
  /\ UNCHANGED <<file, slots, children, published>> /\ Rest

\* The rest of build_candidate: the runtime, and the template of its snapshots.
Prepare(b) ==
  LET at == building[b]
      policy == at.spec.draft.policy
      conninfo == Conninfo(at.spec, at.addresses)
      database == EffectiveDatabase(policy, at.spec.draft.limits)
      template == CaptureTemplate(policy, database, conninfo, at.recorded)
  IN
  /\ at.at = "compile" /\ Len(at.keys) = policy.rules
  /\ IF template = Raised THEN Fails(b, "POLICY")
     ELSE Step(b, [at |-> "verify", spec |-> at.spec,
                   prepared |-> [engine |-> Engine(policy, at.keys), database |-> database, conninfo |-> conninfo, template |-> template]])
  /\ UNCHANGED <<file, slots, children, published>> /\ Rest

\* The adapter connects to the target and is closed whatever happens.
Verify(b) ==
  /\ building[b].at = "verify"
  /\ \/ Step(b, [building[b] EXCEPT !.at = "verified"])
     \/ \E why \in {"CAPABILITY", "CONNECTION"} : Fails(b, why)
  /\ UNCHANGED <<file, slots, children, published>> /\ Rest

Publish(revision, prepared) ==
  published' = Append(published, [identity |-> [id |-> Id, generation |-> Len(published) + 1, revision |-> revision], prepared |-> prepared])

\* create and update pin the addresses that were verified and resolve once more;
\* rotate_secret keeps the record's.  The secret is sealed for the revision that is
\* written, and nothing is written over a revision the caller did not see.  A record
\* that was opened is only published.
Persist(b) ==
  LET at == building[b]
      spec == at.spec
      pinned == [spec.draft EXCEPT !.addresses = SetToSeq(at.prepared.conninfo.addresses)]
      revision == IF file = None THEN 0 ELSE Stored.revision
      record == [id |-> Id, revision |-> revision + 1, lastTest |-> "never", draft |-> pinned, secret |-> SealSecret(spec.secret, revision + 1)]
      changed == spec.origin = "draft" /\ ResolveDestination(pinned, dns, pinned.addresses) = Raised
  IN
  /\ at.at = "verified"
  /\ \/ spec.origin = "record" /\ Publish(spec.revision, at.prepared) /\ Step(b, [at |-> "done"]) /\ UNCHANGED file
     \/ /\ spec.origin # "record" /\ spec.revision = revision /\ ~changed
        /\ file' = RecordToJson(record) /\ Publish(revision + 1, at.prepared) /\ Step(b, [at |-> "done"])
     \/ /\ spec.origin # "record" /\ (spec.revision # revision \/ changed)
        /\ Fails(b, "CHANGED") /\ UNCHANGED <<file, published>>
  /\ UNCHANGED <<slots, children>> /\ Rest

\* A session sends its worker the snapshot of a generation and the key of the one it
\* was admitted to; the worker compiles the snapshot, reading nothing else.
Open(w, g, admitted) ==
  LET expected == published[admitted].identity
      made == RecompileSnapshot(Bind(published[g].prepared.template, published[g].identity), expected)
  IN
  /\ worker[w].at = "idle" /\ {g, admitted} \subseteq DOMAIN published
  /\ worker' = [worker EXCEPT ![w] = IF made = Raised THEN [at |-> "refused"]
                                     ELSE [at |-> "running", identity |-> expected, compiled |-> made]]
  /\ UNCHANGED <<dns, key, file, building, slots, children, published, changes>>

Next ==
  \/ SetDns \/ SetKey
  \/ \E b \in Builders : \/ BeginDraft(b) \/ BeginRecord(b) \/ AcquireSlot(b) \/ SpawnChild(b) \/ ChildAnswers(b)
                         \/ CompileRule(b) \/ Prepare(b) \/ Verify(b) \/ Persist(b)
  \/ \E w \in Workers, g, admitted \in 1..Cardinality(Builders) : Open(w, g, admitted)

Spec == Init /\ [][Next]_vars

-----------------------------------------------------------------------------

Verified(p) == [engine |-> p.engine, database |-> p.database, conninfo |-> p.conninfo]

\* A worker queries exactly the target and with exactly the engine that were verified
\* for the generation it serves, whatever the environment, the name service and the
\* catalogue say by then, and every rule of that engine has one and the same key; a
\* snapshot of another generation is never run.
WorkerRunsWhatWasVerified ==
  \A w \in Workers : worker[w].at = "running" =>
    \E i \in DOMAIN published : /\ published[i].identity = worker[w].identity
                                /\ worker[w].compiled = Verified(published[i].prepared)
                                /\ \A j, k \in DOMAIN worker[w].compiled.engine.keys :
                                     worker[w].compiled.engine.keys[j] = worker[w].compiled.engine.keys[k]

\* Every address that is ever connected to is allowed by the destination policy it was
\* built under: no address that was not resolved, no metadata service, no loopback or
\* public address that the policy does not name; and a stored record can be read again,
\* holds the addresses that were verified, and opens its secret.
TargetsAreAllowed ==
  /\ \A b \in Builders : building[b].at \in {"verify", "verified"} =>
       LET d == building[b].spec.draft
       IN  \A a \in building[b].prepared.conninfo.addresses :
             \/ a.kind = "private"
             \/ a.kind = "loopback" /\ d.destination.loopback
             \/ a.kind = "public" /\ d.destination.public /\ \E i \in DOMAIN d.destination.hosts : d.destination.hosts[i].name = d.host.name
  /\ file # None =>
       /\ Stored # Raised /\ OpenSecret(Stored.secret, Stored.id, Stored.revision) # Raised
       /\ \E i \in DOMAIN published : /\ published[i].identity.revision = Stored.revision
                                      /\ published[i].prepared.conninfo.addresses = ToSet(Stored.draft.addresses)

\* The resolver leaves nothing behind: no process of a resolution that ended, and no
\* slot that nobody holds, however it ended.
ResolverLeavesNothing ==
  /\ \A b \in children : building[b].at = "child"
  /\ slots = Cardinality({b \in Builders : building[b].at \in {"spawn", "child"}})

\* Targets are sound from the draft to the worker: allowed, verified, the same, and
\* resolved without leaving anything behind.
TargetsSound == WorkerRunsWhatWasVerified /\ TargetsAreAllowed /\ ResolverLeavesNothing
=============================================================================
