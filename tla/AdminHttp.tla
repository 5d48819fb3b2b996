------------------------------ MODULE AdminHttp ------------------------------
(***************************************************************************)
(* The administration API from the first header to the audit record: the  *)
(* layers of admin/http/middleware.py and browser.py that may refuse a     *)
(* request, the v1 routes on masking.yaml, which run whole on the event    *)
(* loop, and the v2 routes on the datasources, whose operations run on the *)
(* worker threads of the administrative queue.                             *)
(*                                                                         *)
(* AdminConfigService.apply and the calls of DatasourceService appear as   *)
(* what AdminConfig and DatasourceService say of them: they take effect    *)
(* once or not at all, and each failure they may meet is a choice.  What   *)
(* is modelled here is what the caller is told, and what the audit log     *)
(* keeps.                                                                  *)
(*                                                                         *)
(* The writes on masking.yaml are functions of the document                *)
(* (admin/http/mutations.py), between the checks its body passes before    *)
(* (admin/http/schemas.py) and the document passes after                   *)
(* (config/models.py).  A rule or an exception is [id, content]; id 0 is   *)
(* an item without id, as every item is before the adoption.               *)
(* new_rule_id() and new_exception_id() draw from one supply of            *)
(* identifiers, never the same twice: `supply' is the next one.  A         *)
(* function name is [key, spelling]: canonical_function_name() gives the   *)
(* key, 0 for a blank name.                                                *)
(***************************************************************************)
EXTENDS Integers, Sequences, FiniteSets, SequencesExt

CONSTANTS
    Client,        \* connections to the administration port
    Requests,      \* client -> requests it may send: [front, call]
    FirstDocument, \* masking.yaml before its adoption
    Rejections,    \* exceptions before the write: candidate, capacity, resolver, draft, store
    MaxBody,       \* BodyLimitMiddleware._limit
    QueueCapacity, \* workers and waiting places of the administrative queue
    MaxRevision,   \* bound on both revisions
    MaxSupply      \* bound on the identifiers drawn

ASSUME BoundsAssumption ==
    /\ {MaxBody, MaxRevision, MaxSupply} \subseteq Nat
    /\ Rejections \subseteq {"DatasourceCandidateError", "DatasourceBusyError",
                             "DestinationValidationError", "DatasourceValidationError",
                             "DatasourceRenameError", "CatalogRevisionConflictError"}
    /\ QueueCapacity \in Nat \ {0}

NoRevision == -1
MaxDatasourceLimit == 2    \* MAX_DS_TIMEOUT_MS, MAX_DS_ROWS and MAX_DS_SESSIONS

-----------------------------------------------------------------------------
(* The documents of masking.yaml *)

NoPosition == -1    \* position absent from the body
NoId == 0           \* id absent

MinLimit == 1       \* MIN_STATEMENT_TIMEOUT_MS and MIN_MAX_ROWS
MaxLimit == 2       \* MAX_STATEMENT_TIMEOUT_MS and MAX_MAX_ROWS

Ids(items) == {items[i].id : i \in DOMAIN items}

-----------------------------------------------------------------------------
(* The schemas: what a body must be before any handler sees it *)

LimitSound(limit) == limit \in MinLimit..MaxLimit

ContentSound(content) == content # ""

\* the bodies of the write routes up to PUT /database
WriteBodySound(call) ==
    /\ call.expected >= 0
    /\ call.op = "adopt" => call.confirm
    /\ call.op = "rule_create" => call.position = NoPosition \/ call.position >= 0
    /\ call.op \in {"rule_create", "rule_update", "exception_create", "exception_update"}
            => ContentSound(call.content)
    /\ call.op = "rules_reorder" => NoId \notin ToSet(call.ids)
    /\ call.op = "database_put" => LimitSound(call.limit)

\* PUT /config: every part is required, ids are optional
ReplaceBodySound(call) ==
    /\ call.expected >= 0
    /\ LimitSound(call.limit)
    /\ \A i \in DOMAIN call.rules : ContentSound(call.rules[i].content)
    /\ \A i \in DOMAIN call.exceptions : ContentSound(call.exceptions[i].content)

\* POST /config:validate: an adopted document has an id on every item
ValidateBodySound(call) ==
    /\ call.revision >= 0 /\ LimitSound(call.limit)
    /\ \A i \in DOMAIN call.rules : ContentSound(call.rules[i].content)
    /\ call.revision > 0 => NoId \notin Ids(call.rules) \cup Ids(call.exceptions)

BodySound(call) ==
    CASE call.op = "config_put" -> ReplaceBodySound(call)
      [] call.op = "validate" -> ValidateBodySound(call)
      [] OTHER -> WriteBodySound(call)

-----------------------------------------------------------------------------
(* The mutations.  Each gives the proposed document, or the category of the
   refusal and the document it was given *)

Proposed(doc, supply) == [doc |-> doc, supply |-> supply, error |-> "none"]
Refused(doc, supply, category) == [doc |-> doc, supply |-> supply, error |-> category]

\* _index_of_id: the first item with the id, or 0
IndexOfId(items, id) == SelectInSeq(items, LAMBDA item : item.id = id)

\* items with identifiers drawn from the supply, in order
Numbered(items, supply) == [i \in DOMAIN items |-> [items[i] EXCEPT !.id = supply + i - 1]]

Adopt(doc, supply) ==
    LET after == supply + Len(doc.rules)
    IN  Proposed([doc EXCEPT !.rules = Numbered(@, supply),
                             !.exceptions = Numbered(@, after)],
                 after + Len(doc.exceptions))

CreateRule(doc, supply, call) ==
    LET at == IF call.position = NoPosition THEN Len(doc.rules) ELSE call.position
    IN  IF at \in 0..Len(doc.rules)
        THEN Proposed([doc EXCEPT !.rules =
                           InsertAt(@, at + 1, [id |-> supply, content |-> call.content])],
                      supply + 1)
        ELSE Refused(doc, supply + 1, "CONFIG_INVALID")

ReplaceRule(doc, supply, call) ==
    LET at == IndexOfId(doc.rules, call.id)
    IN  IF at = 0 THEN Refused(doc, supply, "NOT_FOUND")
        ELSE Proposed([doc EXCEPT !.rules[at].content = call.content], supply)

DeleteRule(doc, supply, call) ==
    LET at == IndexOfId(doc.rules, call.id)
    IN  IF at = 0 THEN Refused(doc, supply, "NOT_FOUND")
        ELSE Proposed([doc EXCEPT !.rules = RemoveAt(@, at)], supply)

\* the body must be a permutation of the ids the document has
ReorderRules(doc, supply, call) ==
    IF Len(call.ids) = Len(doc.rules) /\ ToSet(call.ids) = Ids(doc.rules)
    THEN Proposed([doc EXCEPT !.rules =
                       [i \in DOMAIN call.ids |-> doc.rules[IndexOfId(doc.rules, call.ids[i])]]],
                  supply)
    ELSE Refused(doc, supply, "CONFIG_INVALID")

CreateException(doc, supply, call) ==
    Proposed([doc EXCEPT !.exceptions = Append(@, [id |-> supply, content |-> call.content])],
             supply + 1)

ReplaceException(doc, supply, call) ==
    LET at == IndexOfId(doc.exceptions, call.id)
    IN  IF at = 0 THEN Refused(doc, supply, "NOT_FOUND")
        ELSE Proposed([doc EXCEPT !.exceptions[at].content = call.content], supply)

DeleteException(doc, supply, call) ==
    LET at == IndexOfId(doc.exceptions, call.id)
    IN  IF at = 0 THEN Refused(doc, supply, "NOT_FOUND")
        ELSE Proposed([doc EXCEPT !.exceptions = RemoveAt(@, at)], supply)

ReplaceDatabase(doc, supply, call) == Proposed([doc EXCEPT !.limit = call.limit], supply)

\* _merge_denied: what was denied stays denied, names once each by their key
MergeDenied(existing, added) ==
    FoldLeft(LAMBDA merged, name :
                 IF name.key = 0 \/ \E i \in DOMAIN merged : merged[i].key = name.key
                 THEN merged ELSE Append(merged, name),
             <<>>, existing \o added)

ReplaceSql(doc, supply, call) ==
    IF call.allowedPresent THEN Refused(doc, supply, "IMMUTABLE_FIELD")
    ELSE Proposed([doc EXCEPT !.denied = MergeDenied(@, call.denied)], supply)

\* _resolve_id over a list: ids given must exist, ids missing are drawn
Resolvable(items, current) == Ids(items) \subseteq Ids(current) \cup {NoId}
Resolved(items, supply) ==
    [i \in DOMAIN items |->
        IF items[i].id # NoId THEN items[i]
        ELSE [items[i] EXCEPT !.id =
                 supply + Cardinality({j \in 1..(i - 1) : items[j].id = NoId})]]
Drawn(items) == Cardinality({i \in DOMAIN items : items[i].id = NoId})

\* the whole document; only allowed_pg_functions is carried over
ReplaceConfig(doc, supply, call) ==
    LET after == supply + Drawn(call.rules)
    IN  IF \/ call.allowedPresent
           \/ ~Resolvable(call.rules, doc.rules)
           \/ ~Resolvable(call.exceptions, doc.exceptions)
        THEN Refused(doc, after, "IMMUTABLE_FIELD")
        ELSE Proposed([rules |-> Resolved(call.rules, supply),
                       exceptions |-> Resolved(call.exceptions, after),
                       limit |-> call.limit, allowed |-> doc.allowed, denied |-> call.denied],
                      after + Drawn(call.exceptions))

Mutation(doc, supply, call) ==
    CASE call.op = "adopt" -> Adopt(doc, supply)
      [] call.op = "rule_create" -> CreateRule(doc, supply, call)
      [] call.op = "rule_update" -> ReplaceRule(doc, supply, call)
      [] call.op = "rule_delete" -> DeleteRule(doc, supply, call)
      [] call.op = "rules_reorder" -> ReorderRules(doc, supply, call)
      [] call.op = "exception_create" -> CreateException(doc, supply, call)
      [] call.op = "exception_update" -> ReplaceException(doc, supply, call)
      [] call.op = "exception_delete" -> DeleteException(doc, supply, call)
      [] call.op = "database_put" -> ReplaceDatabase(doc, supply, call)
      [] call.op = "sql_put" -> ReplaceSql(doc, supply, call)
      [] call.op = "config_put" -> ReplaceConfig(doc, supply, call)

-----------------------------------------------------------------------------
(* The document after the mutation: MaskingFileConfig, then the compilation
   of the policy, which needs every transformer to exist *)

\* Faulty variant of DocumentValid: an adopted document may repeat an id.
DocumentValidRepeating(rev, doc) ==
    /\ LimitSound(doc.limit)
    /\ rev > 0 => NoId \notin Ids(doc.rules) \cup Ids(doc.exceptions)

DocumentValid(rev, doc) ==
    /\ LimitSound(doc.limit)
    /\ rev > 0 => /\ NoId \notin Ids(doc.rules) \cup Ids(doc.exceptions)
                  /\ Cardinality(Ids(doc.rules)) = Len(doc.rules)
                  /\ Cardinality(Ids(doc.exceptions)) = Len(doc.exceptions)

PolicyCompiles(doc) == \A i \in DOMAIN doc.rules : doc.rules[i].content # "unknown"

\* config:validate, which touches nothing
ValidateCandidate(call) ==
    IF /\ DocumentValid(call.revision, [rules |-> call.rules, exceptions |-> call.exceptions,
                                        limit |-> call.limit])
       /\ PolicyCompiles(call)
    THEN "ok" ELSE "CONFIG_INVALID"

-----------------------------------------------------------------------------
(* The read views: everything but the identity of a secret, with positions *)

RuleViews(doc) ==
    {[id |-> doc.rules[i].id, content |-> doc.rules[i].content, position |-> i - 1]
        : i \in DOMAIN doc.rules}

ExceptionViews(doc) ==
    {[id |-> doc.exceptions[i].id, content |-> doc.exceptions[i].content, position |-> i - 1]
        : i \in DOMAIN doc.exceptions}

FindById(views, id) == {v \in views : v.id # NoId /\ v.id = id}

-----------------------------------------------------------------------------
VARIABLES
    stage,     \* client -> where its request is
    request,   \* client -> the request
    received,  \* client -> bytes of the body counted
    starts,    \* client -> responses started
    answer,    \* client -> category answered, "ok", or "none"
    shown,     \* client -> what a read answered
    records,   \* client -> audit records emitted for the request
    effect,    \* client -> history: whether the request took effect
    probe,     \* client -> revisions the operation observed
    blockedBefore, \* client -> what _run read before the operation
    failure,   \* client -> exception of the operation
    ui,        \* whether the browser console is served: fixed at the start
    conf,      \* published masking.yaml: [rev, doc]
    supply,    \* next identifier
    catalog,   \* datasources: [rev, recs]
    blocked,   \* DatasourceService._blocked
    queue,     \* AdminWorkQueue: "open", "broken" (_broken) or "frozen" (_frozen too)
    closed,    \* the services and the queue are closed
    told       \* revision -> success records that name it, per API

pathVars == <<stage, request, received, starts, answer, shown>>
auditVars == <<records, effect, probe, told>>
jobVars == <<blockedBefore, failure>>
stateVars == <<ui, conf, supply, catalog, blocked, queue, closed>>
vars == <<pathVars, auditVars, jobVars, stateVars>>

-----------------------------------------------------------------------------
(* The layers in front of the router *)

\* BrowserAdmission: one host, ours; origin and referer absent or one, ours
BrowserAdmits(front) ==
    /\ front.hosts = <<"ours">>
    /\ front.origins \in {<<>>, <<"same">>}
    /\ front.sites = <<>> \/ (Len(front.sites) = 1 /\ front.sites[1] \in {"same-origin", "none"})

\* HostAllowlistMiddleware
HostAllowed(front) == front.hosts # <<>> /\ front.hosts[1] = "ours"

\* AuthenticationMiddleware: the bearer token
Authorized(front) == front.token = "right"

\* UiAuthentication: the page, its script and its style need no token
PublicRequest(front) == ui /\ front.reads /\ front.public

\* ContentTypeMiddleware: methods with a body need application/json
MediaAccepted(front) == front.reads \/ front.json

\* what the stack of wrap_boundary answers by itself, outermost layer first
FrontRefusal(front) ==
    CASE ui /\ front.hosts # <<"ours">> -> "HOST_NOT_ALLOWED"
      [] ui /\ ~BrowserAdmits(front) -> "CROSS_ORIGIN_REJECTED"
      [] ~ui /\ ~HostAllowed(front) -> "HOST_NOT_ALLOWED"
      [] ~ui /\ front.origins # <<>> -> "CROSS_ORIGIN_REJECTED"
      [] front.declared > MaxBody -> "PAYLOAD_TOO_LARGE"
      [] ~Authorized(front) /\ ~PublicRequest(front) -> "UNAUTHORIZED"
      [] ~MediaAccepted(front) -> "UNSUPPORTED_MEDIA_TYPE"
      [] front.route # "known" -> front.route
      [] front.public /\ ~ui -> "NOT_FOUND"
      [] OTHER -> "none"

-----------------------------------------------------------------------------
(* Categories and the audit record *)

ServerErrors == {"CONFIG_WRITE_ERROR", "CONFIG_DURABILITY_ERROR", "INTERNAL_ERROR",
                 "CATALOG_WRITE_ERROR", "CATALOG_OUTCOME_UNCERTAIN", "CATALOG_BLOCKED",
                 "DATASOURCE_SERVICE_UNAVAILABLE"}

Outcome(category) ==
    IF category = "none" THEN "success"
    ELSE IF category \in ServerErrors THEN "error" ELSE "rejected"

\* the status an error is answered with: the table of v1, and what v2 adds to it
StatusByCategory(category) ==
    CASE category = "HOST_NOT_ALLOWED" -> 400
      [] category = "UNAUTHORIZED" -> 401
      [] category = "CROSS_ORIGIN_REJECTED" -> 403
      [] category = "NOT_FOUND" -> 404
      [] category = "METHOD_NOT_ALLOWED" -> 405
      [] category \in {"REVISION_CONFLICT", "CONFIG_NOT_ADOPTED", "CONFIG_ALREADY_ADOPTED",
                       "CONFIG_OUT_OF_SYNC", "RELOAD_BUSY"} -> 409
      [] category = "PAYLOAD_TOO_LARGE" -> 413
      [] category = "UNSUPPORTED_MEDIA_TYPE" -> 415
      [] category \in {"SCHEMA_INVALID", "CONFIG_INVALID", "CONFIG_RELOAD_ERROR",
                       "IMMUTABLE_FIELD"} -> 422
      [] category \in {"CONFIG_WRITE_ERROR", "CONFIG_DURABILITY_ERROR", "INTERNAL_ERROR"} -> 500

StatusFor(category) ==
    CASE category \in {"ALIAS_CONFLICT", "DATASOURCE_BUSY", "DATASOURCE_DISABLED"} -> 409
      [] category \in {"CONFIRMATION_MISMATCH", "DATASOURCE_DESTINATION_REJECTED",
                       "DATASOURCE_POLICY_INVALID", "DATASOURCE_CONNECTION_FAILED",
                       "DATASOURCE_CAPABILITY_MISSING"} -> 422
      [] category \in {"CATALOG_WRITE_ERROR", "CATALOG_OUTCOME_UNCERTAIN"} -> 500
      [] category \in {"CATALOG_BLOCKED", "DATASOURCE_SERVICE_UNAVAILABLE"} -> 503
      [] OTHER -> StatusByCategory(category)

\* error_payload says applied: true of this category alone
Applied(category) == category = "CONFIG_DURABILITY_ERROR"

TargetOperations == {"rule_update", "rule_delete", "exception_update", "exception_delete"}

\* AdminAudit.__post_init__ : a v1 record that does not hold together is refused
AdminRecordSound(op, target, category, before, after) ==
    /\ target # NoId => op \in TargetOperations
    /\ CASE op = "validate" -> before = NoRevision /\ after = NoRevision
         [] op # "validate" /\ category \in {"none", "CONFIG_DURABILITY_ERROR"} ->
                before # NoRevision /\ after = before + 1
         [] OTHER -> after = NoRevision

\* DatasourceAdminAudit.__post_init__
DatasourceRecordSound(op, target, category, before, after) ==
    /\ target # NoId => op \notin {"create", "test_draft"}
    /\ CASE op \in {"test", "test_draft"} -> before = NoRevision /\ after = NoRevision
         [] op \notin {"test", "test_draft"} /\ category = "none" ->
                /\ before # NoRevision
                /\ \/ after = before + 1
                   \/ op \in {"enable", "disable"} /\ after = before
         [] OTHER -> after = NoRevision

Tell(api, after) ==
    IF after \in 1..MaxRevision THEN [told EXCEPT ![api][after] = @ + 1] ELSE told

-----------------------------------------------------------------------------
(* A request arrives *)

Silent == [before |-> NoRevision, after |-> NoRevision]

Init ==
    /\ stage = [c \in Client |-> "idle"]
    /\ request = [c \in Client |-> CHOOSE r \in Requests[c] : TRUE]
    /\ received = [c \in Client |-> 0]
    /\ starts = [c \in Client |-> 0]
    /\ answer = [c \in Client |-> "none"]
    /\ shown = [c \in Client |-> {}]
    /\ records = [c \in Client |-> 0]
    /\ effect = [c \in Client |-> FALSE]
    /\ probe = [c \in Client |-> Silent]
    /\ blockedBefore = [c \in Client |-> FALSE]
    /\ failure = [c \in Client |-> "none"]
    /\ conf = [rev |-> 0, doc |-> FirstDocument]
    /\ supply = 1
    /\ catalog = [rev |-> 0, recs |-> [i \in {} |-> ""]]
    /\ blocked = FALSE
    /\ queue = "open"
    /\ ui \in BOOLEAN
    /\ closed = FALSE
    /\ told = [api \in {"v1", "v2"} |-> [r \in 1..MaxRevision |-> 0]]

\* the response of client c starts; the layers above only decorate it
Respond(c, category) ==
    /\ answer' = [answer EXCEPT ![c] = category]
    /\ starts' = [starts EXCEPT ![c] = @ + 1]

\* the layers decide on the headers alone, without giving up the event loop
Arrive(c, r) ==
    /\ stage[c] = "idle"
    /\ request' = [request EXCEPT ![c] = r]
    /\ LET refusal == FrontRefusal(r.front)
       IN  IF refusal # "none"
           THEN Respond(c, refusal) /\ stage' = [stage EXCEPT ![c] = "answered"]
           ELSE /\ stage' = [stage EXCEPT ![c] = IF r.front.reads THEN "handler" ELSE "body"]
                /\ UNCHANGED <<answer, starts>>
    /\ UNCHANGED <<received, shown, auditVars, jobVars, stateVars>>

\* nothing of a request outlives its exchange
Forget(c) ==
    /\ stage' = [stage EXCEPT ![c] = "idle"]
    /\ request' = [request EXCEPT ![c] = CHOOSE r \in Requests[c] : TRUE]
    /\ received' = [received EXCEPT ![c] = 0]
    /\ starts' = [starts EXCEPT ![c] = 0]
    /\ answer' = [answer EXCEPT ![c] = "none"]
    /\ shown' = [shown EXCEPT ![c] = {}]
    /\ records' = [records EXCEPT ![c] = 0]
    /\ effect' = [effect EXCEPT ![c] = FALSE]
    /\ probe' = [probe EXCEPT ![c] = Silent]
    /\ blockedBefore' = [blockedBefore EXCEPT ![c] = FALSE]
    /\ failure' = [failure EXCEPT ![c] = "none"]
    /\ UNCHANGED <<told, stateVars>>

\* The bodies of v2.  "" is what a pattern, a length or validate_host refuses;
\* an allowed host is [name, lower], lower meaning that it is in lower case.
ConnectionSound(call) == call.host # ""

CredentialSound(call) == call.secret # ""

AllowedHostsSound(hosts) ==
    /\ \A i \in DOMAIN hosts : hosts[i].lower /\ hosts[i].name # ""
    /\ IsInjective(hosts)

LimitsSound(call) == call.limits \in 1..MaxDatasourceLimit

PolicySound(call) ==
    LimitSound(call.limit) /\ \A i \in DOMAIN call.rules : ContentSound(call.rules[i])

DraftSound(call) ==
    /\ call.op = "create" => call.expected >= 0
    /\ call.alias # "" /\ ConnectionSound(call) /\ CredentialSound(call)
    /\ LimitsSound(call) /\ AllowedHostsSound(call.hosts) /\ PolicySound(call)

UpdateSound(call) ==
    /\ call.expected >= 1
    /\ ConnectionSound(call) /\ LimitsSound(call) /\ AllowedHostsSound(call.hosts)

\* the bodies of the other writes; that of a test is empty
ChangeSound(call) ==
    /\ call.op # "test" => call.expected >= 1
    /\ call.op = "rotate" => CredentialSound(call)
    /\ call.op = "delete" => call.confirm # ""
    /\ call.op = "policy_put" => PolicySound(call)

\* every schema forbids a field it does not name
DatasourceBodySound(call) ==
    /\ ~call.extra
    /\ CASE call.op \in {"create", "test_draft"} -> DraftSound(call)
         [] call.op = "update" -> UpdateSound(call)
         [] OTHER -> ChangeSound(call)

\* the schemas: a body that does not pass reaches no handler and no auditor
Sound(call) == IF call.api = "v1" THEN BodySound(call) ELSE DatasourceBodySound(call)

\* counting_receive: beyond the limit it answers 413 itself, once, and the
\* router sees a disconnection; guarded_send drops what the router answers,
\* and the boundary adds nothing to a response that has started
ReceiveChunk(c, more) ==
    /\ stage[c] = "body"
    /\ received' = [received EXCEPT ![c] = @ + 1]
    /\ CASE received[c] + 1 > MaxBody ->
              Respond(c, "PAYLOAD_TOO_LARGE") /\ stage' = [stage EXCEPT ![c] = "answered"]
         [] received[c] + 1 <= MaxBody /\ ~more /\ ~Sound(request[c].call) ->
              Respond(c, "SCHEMA_INVALID") /\ stage' = [stage EXCEPT ![c] = "answered"]
         [] OTHER ->
              /\ stage' = [stage EXCEPT ![c] = IF more THEN "body" ELSE "handler"]
              /\ UNCHANGED <<answer, starts>>
    /\ UNCHANGED <<request, shown, auditVars, jobVars, stateVars>>

\* the client goes away before its body is whole: nobody reads the answer
ClientGoes(c) == stage[c] = "body" /\ Forget(c)

\* the response is complete and the connection free for another request
ExchangeEnds(c) == stage[c] = "answered" /\ Forget(c)

InHandler(c, api) == stage[c] = "handler" /\ request[c].call.api = api

\* a fixed resource of the console
ServeResource(c) ==
    /\ InHandler(c, "ui")
    /\ Respond(c, "ok")
    /\ stage' = [stage EXCEPT ![c] = "answered"]
    /\ UNCHANGED <<request, received, shown, auditVars, jobVars, stateVars>>

-----------------------------------------------------------------------------
(* v1: reads, validation and writes, each whole on the event loop *)

ReadOps == {"status", "config", "rules", "rule", "exceptions", "exception"}

\* adopted is derived from the revision of the same snapshot
StatusView == [revision |-> conf.rev, adopted |-> conf.rev > 0]

ReadConfig(c) ==
    /\ InHandler(c, "v1") /\ request[c].call.op \in ReadOps
    /\ LET call == request[c].call
           all == CASE call.op = "status" -> {StatusView}
                    [] call.op = "config" -> {conf}
                    [] call.op \in {"exceptions", "exception"} -> ExceptionViews(conf.doc)
                    [] OTHER -> RuleViews(conf.doc)
           found == IF call.op \in {"rule", "exception"} THEN FindById(all, call.id) ELSE all
       IN  /\ Respond(c, IF call.op \in {"rule", "exception"} /\ found = {}
                         THEN "NOT_FOUND" ELSE "ok")
           /\ shown' = [shown EXCEPT ![c] = found]
    /\ stage' = [stage EXCEPT ![c] = "answered"]
    /\ UNCHANGED <<request, received, auditVars, jobVars, stateVars>>

ValidateConfig(c) ==
    /\ InHandler(c, "v1") /\ request[c].call.op = "validate"
    /\ LET verdict == ValidateCandidate(request[c].call)
       IN  /\ Respond(c, verdict)
           /\ records' = [records EXCEPT ![c] = @ + 1]
    /\ stage' = [stage EXCEPT ![c] = "answered"]
    /\ UNCHANGED <<request, received, shown, effect, probe, told, jobVars, stateVars>>

\* what may go wrong inside apply, in the order of its steps
Faults == {"none", "unreadable", "edited", "busy", "unbuildable", "unwritable",
           "unpublishable", "unsynced"}

\* AdminConfigService.apply: the first step that objects decides
Objection(call, fault) ==
    LET proposal == Mutation(conf.doc, supply, call)
    IN  CASE closed -> "INTERNAL_ERROR"
          [] call.op = "adopt" /\ conf.rev # 0 -> "CONFIG_ALREADY_ADOPTED"
          [] call.op # "adopt" /\ conf.rev = 0 -> "CONFIG_NOT_ADOPTED"
          [] call.expected # conf.rev -> "REVISION_CONFLICT"
          [] fault = "unreadable" -> "CONFIG_WRITE_ERROR"
          [] fault = "edited" -> "CONFIG_OUT_OF_SYNC"
          [] fault = "busy" -> "RELOAD_BUSY"
          [] proposal.error # "none" -> proposal.error
          [] ~DocumentValid(conf.rev + 1, proposal.doc) -> "CONFIG_INVALID"
          [] ~PolicyCompiles(proposal.doc) \/ fault = "unbuildable" -> "CONFIG_RELOAD_ERROR"
          [] fault = "unwritable" -> "CONFIG_WRITE_ERROR"
          [] fault = "unpublishable" -> "INTERNAL_ERROR"
          [] OTHER -> "none"

\* Faulty variant of Observed: revision_after is set before the publication.
ObservedEarly(call, fault, objection) ==
    [before |-> IF closed THEN NoRevision ELSE conf.rev,
     after |-> IF objection = "none" \/ fault = "unpublishable" THEN conf.rev + 1
               ELSE NoRevision]

\* AdminAuditProbe: before once the service is open, after once published
Observed(call, fault, objection) ==
    [before |-> IF closed THEN NoRevision ELSE conf.rev,
     after |-> IF objection = "none" THEN conf.rev + 1 ELSE NoRevision]

\* AdminAuditor.write: the record is built before the answer, and a record
\* refused by its own checks turns whatever happened into an internal error
WriteConfig(c, fault) ==
    /\ InHandler(c, "v1") /\ request[c].call.op \notin ReadOps \cup {"validate"}
    /\ conf.rev < MaxRevision /\ supply <= MaxSupply
    /\ LET call == request[c].call
           proposal == Mutation(conf.doc, supply, call)
           objection == Objection(call, fault)
           saw == Observed(call, fault, objection)
           category == IF objection = "none" /\ fault = "unsynced"
                       THEN "CONFIG_DURABILITY_ERROR" ELSE objection
           target == IF call.op \in TargetOperations THEN call.id ELSE NoId
           sound == AdminRecordSound(call.op, target, category, saw.before, saw.after)
       IN  /\ effect' = [effect EXCEPT ![c] = objection = "none"]
           /\ IF objection = "none"
              THEN conf' = [rev |-> conf.rev + 1, doc |-> proposal.doc]
              ELSE UNCHANGED conf
           /\ supply' = IF objection \in {"none", "CONFIG_INVALID", "IMMUTABLE_FIELD"}
                        THEN proposal.supply ELSE supply
           /\ records' = [records EXCEPT ![c] = IF sound THEN @ + 1 ELSE @]
           /\ told' = IF sound THEN Tell("v1", saw.after) ELSE told
           /\ Respond(c, IF ~sound THEN "INTERNAL_ERROR"
                         ELSE IF category = "none" THEN "ok" ELSE category)
    /\ stage' = [stage EXCEPT ![c] = "answered"]
    /\ UNCHANGED <<request, received, shown, probe, jobVars, ui, catalog, blocked, queue, closed>>

-----------------------------------------------------------------------------
(* v2: the records of the datasources and the drafts the routes make of them.
   `pinned' is the host the resolved addresses belong to. *)

CreatedRecord(call) ==
    [alias |-> call.alias, rev |-> 1, on |-> call.on, host |-> call.host, pinned |-> call.host,
     allowed |-> 0, denied |-> call.denied, secret |-> call.secret,
     limits |-> call.limits, limit |-> call.limit]

\* DatasourceAdmin.update: alias, policy, secret and enabled are the current
\* ones; the addresses only with the same destination, otherwise resolved
UpdatedRecord(record, call) ==
    [record EXCEPT !.rev = @ + 1, !.host = call.host, !.limits = call.limits,
                   !.pinned = IF call.host = record.host THEN @ ELSE call.host]

\* put_policy carries allowed_pg_functions over
PolicyRecord(record, call) == [record EXCEPT !.rev = @ + 1, !.denied = call.denied, !.limit = call.limit]

RotatedRecord(record, call) == [record EXCEPT !.rev = @ + 1, !.secret = call.secret]

EnabledRecord(record, on) ==
    IF record.on = on THEN record ELSE [record EXCEPT !.rev = @ + 1, !.on = on]

Known(id) == id \in DOMAIN catalog.recs

\* refusals DatasourceAdmin raises itself, before it calls the service
RouteRefusal(call) ==
    CASE call.op \notin {"create", "test_draft"} /\ ~call.canonical -> "NOT_FOUND"
      [] call.op = "update" /\ call.aliasPresent -> "IMMUTABLE_FIELD"
      [] call.op \in {"create", "test_draft", "policy_put"} /\ call.allowedPresent ->
            "IMMUTABLE_FIELD"
      [] OTHER -> "none"

\* the exception a call of the service is certain to raise, in its order
ServiceRefusal(call) ==
    CASE closed -> "DatasourceServiceClosedError"
      [] blocked /\ call.op \notin {"test", "test_draft"} -> "DatasourceServiceBlockedError"
      [] call.op = "create" /\ call.expected # catalog.rev -> "DatasourceRevisionConflictError"
      [] call.op = "create" /\ \E i \in DOMAIN catalog.recs : catalog.recs[i].alias = call.alias ->
            "DatasourceAliasConflictError"
      [] call.op \notin {"create", "test_draft"} /\ ~Known(call.id) -> "DatasourceNotFoundError"
      [] call.op \notin {"create", "test", "test_draft"} /\ Known(call.id)
            /\ call.expected # catalog.recs[call.id].rev -> "DatasourceRevisionConflictError"
      [] call.op = "test" /\ Known(call.id) /\ ~catalog.recs[call.id].on -> "DatasourceDisabledError"
      [] OTHER -> "none"

NextRecords(call) ==
    LET recs == catalog.recs
        changed(record) == [i \in DOMAIN recs |-> IF i = call.id THEN record ELSE recs[i]]
    IN  CASE call.op = "create" -> (catalog.rev + 1) :> CreatedRecord(call) @@ recs
          [] call.op = "update" -> changed(UpdatedRecord(recs[call.id], call))
          [] call.op = "policy_put" -> changed(PolicyRecord(recs[call.id], call))
          [] call.op = "rotate" -> changed(RotatedRecord(recs[call.id], call))
          [] call.op = "enable" -> changed(EnabledRecord(recs[call.id], TRUE))
          [] call.op = "disable" -> changed(EnabledRecord(recs[call.id], FALSE))
          [] call.op = "delete" -> [i \in DOMAIN recs \ {call.id} |-> recs[i]]
          [] OTHER -> recs

-----------------------------------------------------------------------------
(* v2: the routes *)

V2ReadOps == {"list", "get", "policy"}

Summary(i) ==
    LET record == catalog.recs[i]
    IN  [id |-> i, alias |-> record.alias, enabled |-> record.on, revision |-> record.rev]

\* the view of one datasource: the secret is only said to be configured, and of
\* the two limits, the record's and its policy's, the smaller one is effective
View(i) ==
    LET record == catalog.recs[i]
    IN  Summary(i) @@ [host |-> record.host, credential |-> "configured", limits |-> record.limits,
                       effective |-> IF record.limit < record.limits THEN record.limit ELSE record.limits]

PolicyView(i) ==
    LET record == catalog.recs[i]
    IN  [id |-> i, revision |-> record.rev, limit |-> record.limit,
         allowed |-> record.allowed, denied |-> record.denied]

\* a read is answered from the sealed view, which a block has withdrawn
ReadDatasources(c) ==
    /\ InHandler(c, "v2") /\ request[c].call.op \in V2ReadOps
    /\ LET call == request[c].call
           ids == IF call.op = "list" THEN DOMAIN catalog.recs
                  ELSE DOMAIN catalog.recs \cap {call.id}
           category == CASE call.op # "list" /\ ~call.canonical -> "NOT_FOUND"
                         [] blocked -> "CATALOG_BLOCKED"
                         [] call.op # "list" /\ ~blocked /\ ids = {} -> "NOT_FOUND"
                         [] OTHER -> "ok"
       IN  /\ Respond(c, category)
           /\ shown' = [shown EXCEPT ![c] =
                  IF category # "ok" THEN {}
                  ELSE {CASE call.op = "list" -> Summary(i)
                          [] call.op = "get" -> View(i)
                          [] OTHER -> PolicyView(i) : i \in ids}]
    /\ stage' = [stage EXCEPT ![c] = "answered"]
    /\ UNCHANGED <<request, received, auditVars, jobVars, stateVars>>

Accepted == {c \in Client : stage[c] \in {"queued", "running", "called"}}

\* _enqueue: accepted, or refused, audited and answered
Enqueue(c) ==
    /\ InHandler(c, "v2") /\ request[c].call.op \notin V2ReadOps
    /\ IF closed \/ queue # "open" \/ Cardinality(Accepted) >= QueueCapacity
       THEN /\ records' = [records EXCEPT ![c] = @ + 1]
            /\ Respond(c, "DATASOURCE_SERVICE_UNAVAILABLE")
            /\ stage' = [stage EXCEPT ![c] = "answered"]
       ELSE /\ stage' = [stage EXCEPT ![c] = "queued"]
            /\ UNCHANGED <<records, answer, starts>>
    /\ UNCHANGED <<request, received, shown, effect, probe, told, jobVars, stateVars>>

\* a worker takes the operation; _run looks at the block before it
JobStarts(c) ==
    /\ stage[c] = "queued" /\ queue # "frozen"
    /\ stage' = [stage EXCEPT ![c] = "running"]
    /\ blockedBefore' = [blockedBefore EXCEPT ![c] = blocked]
    /\ UNCHANGED <<request, received, starts, answer, shown, auditVars, failure, stateVars>>

Called(c, exception, observed) ==
    /\ stage' = [stage EXCEPT ![c] = "called"]
    /\ failure' = [failure EXCEPT ![c] = exception]
    /\ probe' = [probe EXCEPT ![c] = observed]

\* the write takes effect: persisted, published or withdrawn, sealed
Changes(c) ==
    LET call == request[c].call
        next == NextRecords(call)
    IN  IF next = catalog.recs THEN UNCHANGED <<catalog, effect>>
        ELSE /\ catalog' = [rev |-> catalog.rev + 1, recs |-> next]
             /\ effect' = [effect EXCEPT ![c] = TRUE]

ServiceUnchanged == UNCHANGED <<request, received, starts, answer, shown, records, told,
                                blockedBefore, ui, conf, supply, queue, closed>>

Unobserved(call) == [before |-> IF call.op \in {"test", "test_draft"} THEN NoRevision
                                ELSE catalog.rev,
                     after |-> NoRevision]

\* the operation succeeds
JobSucceeds(c) ==
    /\ stage[c] = "running" /\ catalog.rev < MaxRevision
    /\ LET call == request[c].call
       IN  /\ RouteRefusal(call) = "none" /\ ServiceRefusal(call) = "none"
           /\ call.op = "delete" => call.confirm = catalog.recs[call.id].alias
           /\ Changes(c)
           /\ Called(c, "none", IF call.op \in {"test", "test_draft"} THEN Silent
                                ELSE [before |-> catalog.rev, after |-> catalog'.rev])
    /\ UNCHANGED blocked
    /\ ServiceUnchanged

\* the operation is refused: by the route, by the service, or by the
\* confirmation, which the service asks for under its lock
JobRefused(c) ==
    /\ stage[c] = "running"
    /\ LET call == request[c].call
           late == ServiceRefusal(call) = "none"
           mismatch == call.op = "delete" /\ late /\ call.confirm # catalog.recs[call.id].alias
       IN  CASE RouteRefusal(call) # "none" -> Called(c, RouteRefusal(call), Silent)
             [] RouteRefusal(call) = "none" /\ ~late ->
                    Called(c, ServiceRefusal(call),
                           IF ServiceRefusal(call) = "DatasourceAliasConflictError"
                           THEN Unobserved(call) ELSE Silent)
             [] RouteRefusal(call) = "none" /\ mismatch ->
                    Called(c, "CONFIRMATION_MISMATCH", Unobserved(call))
             [] OTHER -> FALSE
    /\ UNCHANGED <<effect, catalog, blocked>>
    /\ ServiceUnchanged

\* the operation fails without effect: candidate, capacity, resolver, or a
\* write that did not replace the file, which poisons the store.  After an
\* effect only JobUncertain and JobBreaks fail: what else _publish could
\* raise then are its own assertions
JobFails(c, exception) ==
    /\ stage[c] = "running"
    /\ LET call == request[c].call
       IN  /\ RouteRefusal(call) = "none" /\ ServiceRefusal(call) = "none"
           /\ exception = "CatalogWriteError" => call.op \notin {"test", "test_draft"}
           /\ Called(c, exception, Unobserved(call))
           /\ IF exception = "CatalogWriteError" THEN blocked' = TRUE
              ELSE IF exception = "other" /\ call.op \notin {"test", "test_draft"}
              THEN blocked' \in {blocked, TRUE}
              ELSE UNCHANGED blocked
    /\ UNCHANGED <<effect, catalog>>
    /\ ServiceUnchanged

\* the outcome is uncertain, or the view cannot be sealed, or the registry
\* closes between the write and the publication: the effect may be there
JobUncertain(c, exception) ==
    /\ stage[c] = "running" /\ catalog.rev < MaxRevision
    /\ exception \in {"CatalogOutcomeUncertainError", "DatasourceRegistryClosedError"}
    /\ LET call == request[c].call
       IN  /\ RouteRefusal(call) = "none" /\ ServiceRefusal(call) = "none"
           /\ call.op \notin {"test", "test_draft"}
           /\ call.op = "delete" => call.confirm = catalog.recs[call.id].alias
           /\ NextRecords(call) # catalog.recs
           /\ Changes(c) \/ UNCHANGED <<catalog, effect>>
           /\ Called(c, exception, [before |-> catalog.rev, after |-> catalog'.rev])
    /\ blocked' = TRUE
    /\ ServiceUnchanged

\* categorize: the type of the exception, else the condition of the service
Categorize(exception, becameBlocked) ==
    CASE exception \in {"none", "NOT_FOUND", "IMMUTABLE_FIELD", "CONFIRMATION_MISMATCH"} -> exception
      [] exception \in {"DatasourceRevisionConflictError", "CatalogRevisionConflictError"} -> "REVISION_CONFLICT"
      [] exception = "DatasourceRenameError" -> "IMMUTABLE_FIELD"
      [] exception = "DatasourceValidationError" -> "SCHEMA_INVALID"
      [] exception = "DatasourceCandidateError" -> "DATASOURCE_CONNECTION_FAILED"
      [] exception = "DatasourceNotFoundError" -> "NOT_FOUND"
      [] exception = "DatasourceAliasConflictError" -> "ALIAS_CONFLICT"
      [] exception = "DatasourceDisabledError" -> "DATASOURCE_DISABLED"
      [] exception = "DestinationValidationError" -> "DATASOURCE_DESTINATION_REJECTED"
      [] exception = "DatasourceBusyError" -> "DATASOURCE_BUSY"
      [] exception = "DatasourceServiceBlockedError" -> "CATALOG_BLOCKED"
      [] exception \in {"DatasourceServiceClosedError", "DatasourceRegistryClosedError"} ->
            "DATASOURCE_SERVICE_UNAVAILABLE"
      [] exception = "CatalogOutcomeUncertainError" -> "CATALOG_OUTCOME_UNCERTAIN"
      [] exception = "CatalogWriteError" -> "CATALOG_WRITE_ERROR"
      [] OTHER -> IF becameBlocked THEN "CATALOG_WRITE_ERROR" ELSE "INTERNAL_ERROR"

\* _run: with the catalogue blocked before, its failures are the block itself
Translate(c) ==
    LET category == Categorize(failure[c], blocked /\ ~blockedBefore[c])
    IN  IF blockedBefore[c] /\ category \in {"CATALOG_WRITE_ERROR", "INTERNAL_ERROR"}
        THEN "CATALOG_BLOCKED" ELSE category

\* what the job kept for itself goes with it
JobGone(c) ==
    /\ probe' = [probe EXCEPT ![c] = Silent]
    /\ blockedBefore' = [blockedBefore EXCEPT ![c] = FALSE]
    /\ failure' = [failure EXCEPT ![c] = "none"]

\* DatasourceAuditor.run and the answer: the record of a failure has no
\* revision after, and a record that its checks refuse is lost
JobEnds(c) ==
    /\ stage[c] = "called"
    /\ LET call == request[c].call
           category == Translate(c)
           tests == call.op \in {"test", "test_draft"}
           before == IF tests THEN NoRevision ELSE probe[c].before
           after == IF tests \/ category # "none" THEN NoRevision ELSE probe[c].after
           target == IF call.op \notin {"create", "test_draft"} /\ call.canonical
                     THEN call.id ELSE NoId
           sound == DatasourceRecordSound(call.op, target, category, before, after)
       IN  /\ records' = [records EXCEPT ![c] = IF sound THEN @ + 1 ELSE @]
           /\ told' = IF sound /\ after # before THEN Tell("v2", after) ELSE told
           /\ Respond(c, IF category = "none" THEN "ok" ELSE category)
    /\ stage' = [stage EXCEPT ![c] = "answered"]
    /\ JobGone(c)
    /\ UNCHANGED <<request, received, shown, effect, stateVars>>

\* an exception nobody foresaw leaves the job: one record of an unknown
\* outcome, the ticket has failed, the queue takes no more, and the service is
\* blocked by the containment or, when that fails too, the queue frozen
JobBreaks(c, contained) ==
    /\ stage[c] \in {"running", "called"}
    /\ records' = [records EXCEPT ![c] = @ + 1]
    /\ blocked' = (blocked \/ contained)
    /\ queue' = IF contained /\ queue # "frozen" THEN "broken" ELSE "frozen"
    /\ Respond(c, "INTERNAL_ERROR")
    /\ stage' = [stage EXCEPT ![c] = "answered"]
    /\ JobGone(c)
    /\ UNCHANGED <<request, received, shown, effect, told, ui, conf, supply, catalog, closed>>

\* an operation accepted and never started: the frozen queue abandons it
JobAbandoned(c) ==
    /\ stage[c] = "queued" /\ queue = "frozen"
    /\ records' = [records EXCEPT ![c] = @ + 1]
    /\ Respond(c, "INTERNAL_ERROR")
    /\ stage' = [stage EXCEPT ![c] = "answered"]
    /\ UNCHANGED <<request, received, shown, effect, probe, told, jobVars, stateVars>>

\* the application closes: services and queue refuse what comes after
Close ==
    /\ ~closed
    /\ closed' = TRUE
    /\ UNCHANGED <<pathVars, auditVars, jobVars, ui, conf, supply, catalog, blocked, queue>>

-----------------------------------------------------------------------------
Next ==
    \/ \E c \in Client :
          \/ \E r \in Requests[c] : Arrive(c, r)
          \/ \E more \in BOOLEAN : ReceiveChunk(c, more)
          \/ ClientGoes(c)
          \/ ExchangeEnds(c)
          \/ ServeResource(c)
          \/ ReadConfig(c)
          \/ ValidateConfig(c)
          \/ \E fault \in Faults : WriteConfig(c, fault)
          \/ ReadDatasources(c)
          \/ Enqueue(c)
          \/ JobStarts(c)
          \/ JobSucceeds(c)
          \/ JobRefused(c)
          \/ \E e \in Rejections \cup {"CatalogWriteError", "other"} : JobFails(c, e)
          \/ \E e \in {"CatalogOutcomeUncertainError", "DatasourceRegistryClosedError"} :
                JobUncertain(c, e)
          \/ JobEnds(c)
          \/ \E contained \in BOOLEAN : JobBreaks(c, contained)
          \/ JobAbandoned(c)
    \/ Close

Spec == Init /\ [][Next]_vars

-----------------------------------------------------------------------------
Answered(c) == stage[c] = "answered"

Attempted(c) ==
    /\ Answered(c)
    /\ FrontRefusal(request[c].front) = "none"
    /\ request[c].call.op \notin ReadOps \cup V2ReadOps \cup {"resource"}
    /\ answer[c] # "PAYLOAD_TOO_LARGE" /\ Sound(request[c].call)

(* Every request gets one response, and the response tells what became of  *)
(* it (middleware.py:91-305, errors.py:123, v2/operations.py:170-187):     *)
(* what took effect is never answered with the status of a refusal, or     *)
(* with a write error whose text says that the previous state is           *)
(* unchanged; in v1 it is answered as done or as applied, and only then;   *)
(* what is answered as done took effect, except the idempotent and the     *)
(* tests.                                                                  *)
AnswersTellTheTruth ==
    \A c \in Client : Answered(c) =>
        /\ starts[c] = 1
        /\ effect[c] =>
              /\ Attempted(c)
              /\ answer[c] # "ok" => StatusFor(answer[c]) >= 500
              /\ IF request[c].call.api = "v1"
                 THEN answer[c] = "ok" \/ Applied(answer[c])
                 ELSE answer[c] \notin {"CATALOG_WRITE_ERROR", "CATALOG_BLOCKED"}
        /\ Applied(answer[c]) => effect[c]
        /\ Attempted(c) /\ answer[c] = "ok" =>
              \/ effect[c]
              \/ request[c].call.op \in {"validate", "test", "test_draft", "enable", "disable"}

(* The audit (admin/http/audit.py, v2/audit.py, audit/log.py:346-441): an  *)
(* operation that reached its handler leaves exactly one record, whatever  *)
(* became of it and in whatever order the workers end, and none that did   *)
(* not; no record is refused by its own checks; and the published          *)
(* revisions of masking.yaml are told once each, with no gap.              *)
EveryAttemptIsAudited ==
    /\ \A c \in Client : Answered(c) => records[c] = IF Attempted(c) THEN 1 ELSE 0
    /\ \A r \in 1..MaxRevision :
          /\ told["v1"][r] = IF r <= conf.rev THEN 1 ELSE 0
          /\ told["v2"][r] <= IF r <= catalog.rev THEN 1 ELSE 0

(* What the writes may never do (mutations.py:175-399, models.py:129-174,  *)
(* v2/operations.py:569-627): an identifier names one item and is never    *)
(* drawn again, allowed_pg_functions is never changed, what is denied      *)
(* stays denied except by PUT /config, a datasource keeps its alias and    *)
(* its allowed functions, and the addresses pinned are of its own host;    *)
(* once adopted, every item of masking.yaml has an identifier; and what    *)
(* the schemas refuse (v2/schemas.py:67-303) is in no record, whatever     *)
(* operation put it there.                                                 *)
IdentityKept ==
    [][ /\ conf'.doc.allowed = conf.doc.allowed
        /\ \A i \in Ids(conf'.doc.rules) \ Ids(conf.doc.rules) : i = NoId \/ i >= supply
        /\ conf'.rev > 0 =>
              /\ Cardinality(Ids(conf'.doc.rules)) = Len(conf'.doc.rules)
              /\ NoId \notin Ids(conf'.doc.rules) \cup Ids(conf'.doc.exceptions)
        /\ \/ \A i \in DOMAIN conf.doc.denied :
                  \E j \in DOMAIN conf'.doc.denied : conf'.doc.denied[j] = conf.doc.denied[i]
           \/ \E c \in Client : request[c].call.op = "config_put"
        /\ \A i \in DOMAIN catalog'.recs :
              /\ catalog'.recs[i].pinned = catalog'.recs[i].host
              /\ "" \notin {catalog'.recs[i].alias, catalog'.recs[i].host, catalog'.recs[i].secret}
              /\ catalog'.recs[i].limits \in 1..MaxDatasourceLimit /\ LimitSound(catalog'.recs[i].limit)
              /\ i \in DOMAIN catalog.recs =>
                    /\ catalog'.recs[i].alias = catalog.recs[i].alias
                    /\ catalog'.recs[i].allowed = catalog.recs[i].allowed ]_vars

=============================================================================
