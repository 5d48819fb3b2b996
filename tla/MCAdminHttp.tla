---------------------------- MODULE MCAdminHttp ----------------------------
(***************************************************************************)
(* Small instances of AdminHttp.  Part "documents": one connection, every  *)
(* write on masking.yaml, the reads, requests the layers refuse and bodies *)
(* of v2 with one flaw each.  Part "datasources": two connections and the  *)
(* workers of the queue.  Part                                             *)
(* "pages", side by side: the package of the user interface, from a        *)
(* document that is sound and from every document one edit away from it.   *)
(***************************************************************************)
EXTENDS AdminHttp

CONSTANTS MaxDepth, MaxEdits    \* of Presentation

VARIABLES
    part,                       \* which of the three this behaviour is
    doc, pack, edits, served    \* of Presentation

Plain == [hosts |-> <<"ours">>, origins |-> <<>>, sites |-> <<>>, declared |-> 1,
          token |-> "right", json |-> TRUE, reads |-> FALSE, route |-> "known",
          public |-> FALSE]
Get == [Plain EXCEPT !.reads = TRUE, !.json = FALSE]

Fronts ==
    {[Plain EXCEPT !.hosts = h] : h \in {<<>>, <<"other">>, <<"ours", "other">>}}
    \cup {[Plain EXCEPT !.origins = o] : o \in {<<"same">>, <<"foreign">>, <<"same", "foreign">>}}
    \cup {[Plain EXCEPT !.sites = f] : f \in {<<"same-origin">>, <<"cross-site">>}}
    \cup {[Plain EXCEPT !.declared = MaxBody + 1], [Plain EXCEPT !.token = "wrong"],
          [Plain EXCEPT !.json = FALSE], [Plain EXCEPT !.route = "NOT_FOUND"],
          [Plain EXCEPT !.route = "METHOD_NOT_ALLOWED"],
          [Plain EXCEPT !.token = "none", !.json = FALSE, !.route = "NOT_FOUND"]}

Content == {"a", "unknown"}
Denied == [key |-> 1, spelling |-> "f"]
Item(id, content) == [id |-> id, content |-> content]

DocumentCalls ==
    LET v1(op) == [api |-> "v1", op |-> op]
    IN  {v1("adopt") @@ [expected |-> 0, confirm |-> ok] : ok \in BOOLEAN}
        \cup {v1("rule_create") @@ [expected |-> e, content |-> k, position |-> p]
                 : e \in 0..2, k \in Content, p \in {NoPosition, 0, 3}}
        \cup {v1("rule_update") @@ [expected |-> e, content |-> "a", id |-> i] : e \in 1..2, i \in {1, 7}}
        \cup {v1("rule_delete") @@ [expected |-> e, id |-> i] : e \in 1..2, i \in {1, 7}}
        \cup {v1("rules_reorder") @@ [expected |-> e, ids |-> s]
                 : e \in 1..2, s \in {<<2, 1>>, <<1, 1>>, <<1>>, <<3, 1, 2>>}}
        \cup {v1("exception_create") @@ [expected |-> 1, content |-> k] : k \in {"a", ""}}
        \cup {v1("exception_update") @@ [expected |-> 1, content |-> "a", id |-> i] : i \in {3, 7}}
        \cup {v1("exception_delete") @@ [expected |-> 1, id |-> i] : i \in {3, 7}}
        \cup {v1("database_put") @@ [expected |-> 1, limit |-> l] : l \in {1, 3}}
        \cup {v1("sql_put") @@ [expected |-> e, allowedPresent |-> a,
                                denied |-> <<[key |-> k, spelling |-> "F"]>>]
                 : e \in 1..2, a \in BOOLEAN, k \in 0..2}
        \cup {v1("config_put") @@ [expected |-> e, allowedPresent |-> FALSE, limit |-> 1,
                                   denied |-> <<>>, rules |-> s, exceptions |-> <<>>]
                 : e \in 1..2,
                   s \in {<<Item(1, "a"), Item(0, "a")>>, <<Item(1, "a"), Item(1, "a")>>, <<Item(7, "a")>>}}
        \cup {v1("validate") @@ [revision |-> r, limit |-> 1, exceptions |-> <<>>, rules |-> s]
                 : r \in 0..1, s \in {<<Item(0, "a")>>, <<Item(1, "a"), Item(1, "a")>>,
                                      <<Item(1, "unknown")>>}}

V2(op) == [api |-> "v2", op |-> op, extra |-> FALSE, canonical |-> TRUE, id |-> 1, expected |-> 1]

NamedHost(name, lower) == [name |-> name, lower |-> lower]
Draft == [alias |-> "x", on |-> TRUE, host |-> "h", hosts |-> <<NamedHost("h", TRUE)>>, limits |-> 2, secret |-> "s",
          limit |-> 1, rules |-> <<"a">>, denied |-> 0, allowedPresent |-> FALSE]

\* one flaw each, for each check of the schemas
FlawedDrafts ==
    {[Draft EXCEPT !.alias = ""], [Draft EXCEPT !.host = ""], [Draft EXCEPT !.secret = ""],
     [Draft EXCEPT !.limits = MaxDatasourceLimit + 1], [Draft EXCEPT !.limit = MaxLimit + 1],
     [Draft EXCEPT !.rules = <<"">>]}
    \cup {[Draft EXCEPT !.hosts = s] : s \in {<<NamedHost("h", FALSE)>>, <<NamedHost("", TRUE)>>,
                                            <<NamedHost("h", TRUE), NamedHost("h", TRUE)>>}}

FlawedCalls ==
    {[V2("create") EXCEPT !.expected = 0] @@ d : d \in FlawedDrafts}
    \cup {[V2("create") EXCEPT !.expected = -1] @@ Draft, [V2("create") EXCEPT !.extra = TRUE] @@ Draft,
          V2("update") @@ [host |-> "", hosts |-> <<>>, limits |-> 1, aliasPresent |-> FALSE],
          V2("policy_put") @@ [denied |-> 1, limit |-> 0, rules |-> <<>>, allowedPresent |-> FALSE],
          V2("rotate") @@ [secret |-> ""], [V2("disable") EXCEPT !.expected = 0], V2("delete") @@ [confirm |-> ""]}

DocumentRequests ==
    {[front |-> Plain, call |-> k] : k \in DocumentCalls \cup FlawedCalls}
    \cup {[front |-> f, call |-> [api |-> "v1", op |-> "rule_delete", expected |-> 1, id |-> 1]]
             : f \in Fronts}
    \cup {[front |-> Get, call |-> [api |-> "v1", op |-> o, id |-> 1]]
             : o \in ReadOps}
    \cup {[front |-> [Get EXCEPT !.public = TRUE, !.token = "none"],
           call |-> [api |-> "ui", op |-> "resource"]]}

DatasourceCalls ==
    {[V2("create") EXCEPT !.expected = 0] @@ Draft}
    \cup {V2("update") @@ [host |-> h, hosts |-> <<>>, limits |-> 1, aliasPresent |-> h = "g"] : h \in {"i", "g"}}
    \cup {V2("policy_put") @@ [denied |-> 1, limit |-> 2, rules |-> <<>>, allowedPresent |-> a] : a \in BOOLEAN}
    \cup {V2("rotate") @@ [secret |-> "t"], V2("enable"), [V2("enable") EXCEPT !.canonical = FALSE], V2("disable"),
          V2("test"), V2("test_draft") @@ Draft}
    \cup {V2("delete") @@ [confirm |-> a] : a \in {"x", "y"}}

DatasourceRequests ==
    {[front |-> Plain, call |-> k] : k \in DatasourceCalls}
    \cup {[front |-> Get, call |-> V2(o)] : o \in V2ReadOps}

First == [rules |-> <<Item(0, "a"), Item(0, "a")>>, exceptions |-> <<Item(0, "a")>>,
          limit |-> 1, allowed |-> 1, denied |-> <<Denied>>]

Connections == {"c1", "c2", "c3"}
RequestsOf ==
    [c \in Connections |->
        CASE c = "c1" -> DocumentRequests
          [] c = "c2" -> DatasourceRequests
          [] c = "c3" -> {r \in DatasourceRequests : r.call.op = "update" /\ r.call.host = "i"}]
ActiveIn(p) == IF p = "documents" THEN {"c1"} ELSE {"c2", "c3"}

-----------------------------------------------------------------------------
(* A presentation document that is sound, and those one edit away from it. *)

NoDefault == [kind |-> "none", n |-> 0]
Shape(type) == [type |-> type, min |-> 0, max |-> 0, fields |-> <<>>, item |-> "", tag |-> "",
                variants |-> <<>>, choices |-> <<>>]
Text(max) == [Shape("string") EXCEPT !.max = max]
Integer == [Shape("integer") EXCEPT !.max = 9]
Choice(cs) == [Shape("enum") EXCEPT !.choices = cs]
Object(fs) == [Shape("object") EXCEPT !.fields = fs]
ListOf(m) == [Shape("list") EXCEPT !.item = m]
Nullable(m) == [Shape("nullable") EXCEPT !.item = m]
Union(t, vs) == [Shape("union") EXCEPT !.tag = t, !.variants = vs]
FieldLink(n, r) == [name |-> n, ref |-> r, required |-> TRUE, default |-> NoDefault]

CallOf(m, p, r, i, o, op, id) == [method |-> m, prefix |-> p, route |-> r, plain |-> TRUE, slot |-> id, input |-> i,
                                  output |-> o, error |-> "t", operation |-> op, identity |-> id]
FormField(id, kind, path, source) == [id |-> id, kind |-> kind, path |-> path, source |-> source, when |-> <<>>, items |-> {},
                                     choices |-> {}]
FormOf(call, place, fs) == [call |-> call, place |-> place, fields |-> fs, stamp |-> <<>>, origin |-> <<>>, after |-> "reread",
                              lands |-> <<>>, typed |-> {}, visible |-> <<>>, probe |-> "", drop |-> {}]
FirstPages ==
 [models |-> [t |-> Text(3), n |-> Integer, k |-> Choice(<<1>>), tn |-> Nullable("t"),
              line |-> Object(<<FieldLink("name", "t")>>), lines |-> ListOf("line"),
              item |-> Object(<<FieldLink("name", "tn"), FieldLink("id", "t"), FieldLink("rev", "n"), FieldLink("rows", "lines")>>),
              items |-> ListOf("item"), listing |-> Object(<<FieldLink("all", "items"), FieldLink("rev", "n")>>),
              maybe |-> Nullable("inner"), inner |-> Object(<<FieldLink("id", "t"), FieldLink("rev", "n")>>),
              status |-> Object(<<FieldLink("one", "maybe"), FieldLink("rev", "n")>>),
              case |-> Object(<<FieldLink("kind", "k"), FieldLink("name", "t")>>), some |-> Union("kind", <<[value |-> 1, ref |-> "case"]>>),
              body |-> Object(<<FieldLink("name", "t"), FieldLink("rev", "n"), FieldLink("rows", "lines"), FieldLink("some", "some")>>)],
  calls |-> [st |-> CallOf("GET", "v1", "status", "", "status", "read", ""), al |-> CallOf("GET", "v2", "all", "", "listing", "read", ""),
             on |-> CallOf("GET", "v2", "one", "", "item", "read", "ds"), po |-> CallOf("GET", "v2", "policy", "", "item", "read", "ds"),
             ad |-> CallOf("POST", "v2", "all", "body", "item", "register", ""), ch |-> CallOf("PUT", "v2", "one", "body", "item", "revise", "ds"),
             pr |-> CallOf("POST", "v2", "all:test", "body", "item", "probe", ""), su |-> CallOf("GET", "v2", "sum", "", "status", "read", "")],
  ids |-> [model |-> "m1", call |-> "c1", action |-> "a1", field |-> "f1"],
  views |-> [v1 |-> [call |-> "st", actions |-> {"st"},
                     controls |-> {[type |-> "read", model |-> "status", path |-> <<"one">>, default |-> NoDefault, condition |-> <<>>, projections |-> {}]}]],
  bindings |-> {[model |-> "status", path |-> <<"rev">>]},
  console |->
   [summary |-> [call |-> "su", figures |-> {<<"rev">>}],
    collection |-> [call |-> "al", items |-> <<"all">>, key |-> <<"id">>, title |-> <<"name">>, columns |-> {<<"rows">>}, searchable |-> {<<"id">>}],
    detail |-> [call |-> "on", extra |-> "po", title |-> <<"id">>,
                tabs |-> <<[source |-> "main", entries |-> [e1 |-> <<"name">>, e2 |-> <<"rows">>], groups |-> <<<<"e1">>, <<"e2">>>>],
                           [source |-> "extra", entries |-> [e3 |-> <<"rev">>], groups |-> <<>>]>>],
    guide |-> [action |-> "add", steps |-> <<<<"f1">>, <<"f2">>>>],
    pages |-> <<[view |-> "v1", shown |-> {<<"one", "id">>, <<"one", "rev">>}]>>,
    actions |-> [add |-> [FormOf("ad", "collection", {FormField("f1", "secret", <<"name">>, <<>>), FormField("f2", "integer", <<"rev">>, <<>>)})
                          EXCEPT !.after = "open", !.lands = <<"id">>, !.probe = "pr", !.drop = {<<"name">>}],
                 edit |-> [FormOf("ch", "detail",
                             {[FormField("f3", "records", <<"rows">>, <<"rows">>) EXCEPT !.items = {FormField("f4", "text", <<"name">>, <<"name">>)}]})
                           EXCEPT !.stamp = <<"rev">>, !.origin = <<"rev">>, !.visible = <<"rev">>,
                                  !.typed = {FormField("f5", "text", <<"name">>, <<"name">>)}]]]]

SomePaths == {<<>>, <<"id">>, <<"rev">>, <<"one">>, <<"one", "id">>, <<"rows">>, <<"rows", "#">>, <<"rows", "#", "name">>, <<"id", "#">>, <<"some">>, <<"some", "name">>}
PageEdits(d) ==
  {[d EXCEPT !.console.summary.figures = {p}] : p \in SomePaths}
  \cup {[d EXCEPT !.console.collection.columns = {p}] : p \in SomePaths}
  \cup {[d EXCEPT !.console.collection.key = p] : p \in SomePaths}
  \cup {[d EXCEPT !.console.detail.tabs[1].entries["e1"] = p] : p \in SomePaths}
  \cup {[d EXCEPT !.console.detail.tabs[1].groups = g] : g \in {<<>>, <<<<"e1">>>>, <<<<"e1", "e2">>, <<"e1">>>>}}
  \cup {[d EXCEPT !.console.pages[1].shown = s] : s \in {{<<"one">>}, {<<"one", "id">>}, {<<"rev">>}, {<<"one", "id">>, <<"rev">>}}}
  \cup {[d EXCEPT !.console.actions["edit"].call = c] : c \in {"ad", "st", "pr"}}
  \cup {[d EXCEPT !.console.actions["edit"].place = c] : c \in {"collection", "aside"}}
  \cup {[d EXCEPT !.console.actions["edit"].origin = p] : p \in SomePaths}
  \cup {[d EXCEPT !.console.actions["edit"].visible = p] : p \in SomePaths}
  \cup {[d EXCEPT !.console.actions["edit"].fields = {[FormField("f3", k, <<"rows">>, s) EXCEPT !.items = i]}] :
          k \in {"records", "text", "secret"}, s \in {<<>>, <<"rows">>, <<"id">>, <<"rows", "#">>},
          i \in {{}, {FormField("f4", "text", <<"name">>, <<"name">>)}, {[FormField("f4", "text", <<"name">>, <<>>) EXCEPT !.when = <<"rev">>]}}}
  \cup {[d EXCEPT !.console.actions["edit"].fields = {[FormField("f3", k, <<"rev">>, <<>>) EXCEPT !.choices = v]}] :
          k \in {"choice", "text"}, v \in {{}, {1}}}
  \cup {[d EXCEPT !.console.guide.steps = s] : s \in {<<>>, <<<<"f1">>>>, <<<<"f1", "f2">>, <<"f2">>>>}}
  \cup {[d EXCEPT !.console.guide.action = a] : a \in {"", "edit"}}
  \cup {[d EXCEPT !.console.actions["add"].probe = a] : a \in {"", "ad"}}
  \cup {[d EXCEPT !.console.actions["add"].lands = p] : p \in {<<>>, <<"rev">>}}
  \cup {[d EXCEPT !.ids["field"] = "a1"]}
  \cup {[d EXCEPT !.views["v1"].actions = a] : a \in {{"ad"}, {}}}
  \cup {[d EXCEPT !.calls[c].identity = i] : c \in {"on", "ch"}, i \in {"", "other"}}
  \cup {[d EXCEPT !.calls["ch"].operation = o] : o \in {"probe", "read"}}
  \cup {[d EXCEPT !.calls["ch"].input = o] : o \in {"", "lost"}}
  \cup {[d EXCEPT !.calls["on"].plain = FALSE], [d EXCEPT !.calls["su"].prefix = "other"]}
  \cup {[d EXCEPT !.models["items"] = s] : s \in {ListOf("listing"), ListOf("lost"), Nullable("item"), ListOf("t")}}
  \cup {[d EXCEPT !.models["tn"] = s] : s \in {Nullable("k"), Choice(<<1, 1>>), Text(0)}}
  \cup {[d EXCEPT !.models["inner"].fields[2].default = v] : v \in {[kind |-> "str", n |-> 1], [kind |-> "int", n |-> 5]}}
  \cup {[d EXCEPT !.models["case"].fields[1].name = "name"], [d EXCEPT !.models["k"] = Choice(<<2>>)], [d EXCEPT !.bindings = {[model |-> "t", path |-> <<"id">>]}]}

Pages == INSTANCE Presentation WITH BaseDocument <- FirstPages, Edits <- PageEdits

-----------------------------------------------------------------------------
pageVars == <<doc, pack, edits, served>>

MCInit ==
    /\ Init
    /\ \/ part \in {"documents", "datasources"} /\ doc = 0 /\ pack = 0 /\ edits = 0 /\ served = 0
       \/ part = "pages" /\ Pages!Init
    /\ part # "documents" => ~ui

MCNext ==
    \/ /\ part # "pages" /\ Next
       /\ \A c \in Connections \ ActiveIn(part) : stage'[c] = "idle"
       /\ UNCHANGED <<part, pageVars>>
    \/ part = "pages" /\ Pages!Next /\ UNCHANGED <<part, vars>>

MCSpec == MCInit /\ [][MCNext]_<<vars, part, pageVars>>

\* AnswersTellTheTruth and EveryAttemptIsAudited: whatever fails in between, the answer
\* and the one audit record of a request both tell what happened.
AnswersAndAuditAgree == AnswersTellTheTruth /\ EveryAttemptIsAudited

\* ServedIsRenderable of Presentation: what the server serves comes whole from one build,
\* and a console drawn from it never follows a path into nothing.
ServedIsRenderable == part = "pages" => Pages!ServedIsRenderable
=============================================================================
