---------------------------- MODULE Presentation ----------------------------
(***************************************************************************)
(* The document that describes the administration console, and the two     *)
(* gates it passes before the server hands it to a browser:                *)
(* validate_presentation (admin/ui/protocol.py) closes the document over   *)
(* its own models and calls, and load_resources (admin/ui/resources.py)    *)
(* compares what the package holds with the manifest, with the catalogue   *)
(* of calls and with the digest pinned in the script.                      *)
(*                                                                         *)
(* An author edits the document, builds the package from it, and the       *)
(* package may be altered afterwards; the server loads it.  Texts, labels  *)
(* and identifiers' spelling are left out; an index of a list in a path is *)
(* the segment Index, and a scalar is its kind with its size.              *)
(***************************************************************************)
EXTENDS Naturals, Sequences, FiniteSets, SequencesExt, Functions

CONSTANTS MaxDepth,      \* MAX_DEPTH, the height of the graph of models
          MaxEdits,      \* bound: how many edits the author makes
          BaseDocument,  \* the document the author starts from
          Edits(_)       \* the documents one edit away from a document

VARIABLES doc,           \* the document under edit
          pack,          \* the package: the document each of its parts was made from
          edits,         \* edits made so far
          served         \* what load_resources returned: "none", "refused", "served"

vars == <<doc, pack, edits, served>>

Index == "#"
Writes == {"register", "probe", "revise", "retire"}

\* (method, path, operation) of the inventory of writes, the routes of a collection
\* without identity and those of an item with it.
V2_WRITES == {<<"POST", "all", "register">>, <<"POST", "all:test", "probe">>, <<"POST", "one:test", "probe">>,
              <<"PUT", "one", "revise">>, <<"DELETE", "one", "retire">>}

None == [kind |-> "none", n |-> 0]
Str(n) == [kind |-> "str", n |-> n]

Text(max) == [type |-> "string", min |-> 0, max |-> max, fields |-> <<>>, item |-> "", tag |-> "", variants |-> <<>>, choices |-> <<>>]
Integer == [Text(9) EXCEPT !.type = "integer"]
Choice(cs) == [Text(0) EXCEPT !.type = "enum", !.choices = cs]
Object(fs) == [Text(0) EXCEPT !.type = "object", !.fields = fs]
ListOf(m) == [Text(0) EXCEPT !.type = "list", !.item = m]
Nullable(m) == [Text(0) EXCEPT !.type = "nullable", !.item = m]
Union(t, vs) == [Text(0) EXCEPT !.type = "union", !.tag = t, !.variants = vs]
FieldLink(n, r) == [name |-> n, ref |-> r, required |-> TRUE, default |-> None]

-----------------------------------------------------------------------------
(* The models: closed, acyclic, not too high, with tags and defaults that   *)
(* fit.                                                                     *)

Refs(shape) ==
  CASE shape.type = "object" -> {shape.fields[i].ref : i \in DOMAIN shape.fields}
    [] shape.type \in {"list", "nullable"} -> {shape.item}
    [] shape.type = "union" -> {shape.variants[i].ref : i \in DOMAIN shape.variants}
    [] OTHER -> {}

ShapeSound(shape) ==
  /\ shape.type = "object" => IsInjective([i \in DOMAIN shape.fields |-> shape.fields[i].name])
  /\ shape.type = "union" => IsInjective([i \in DOMAIN shape.variants |-> shape.variants[i].value])
  /\ shape.type \in {"string", "integer"} => shape.min <= shape.max
  /\ shape.type = "enum" => IsInjective(shape.choices)

\* The models of height at most k: the cycles and the dangling ones are in none.
Heights(models) ==
  LET up[k \in 0..MaxDepth] == IF k = 0 THEN {}
                                ELSE LET low == up[k - 1] IN {m \in DOMAIN models : Refs(models[m]) \subseteq low}
  IN up

\* The shape under any number of nullables.
Bare(models, shape) ==
  LET under[k \in 0..MaxDepth] == IF k = 0 THEN shape
                                  ELSE LET s == under[k - 1] IN IF s.type = "nullable" THEN models[s.item] ELSE s
  IN under[MaxDepth]

DefaultFits(value, shape0, models) ==
  LET shape == Bare(models, shape0) IN
  \/ value.kind = "none"
  \/ shape.type = "boolean" /\ value.kind = "bool"
  \/ shape.type = "integer" /\ value.kind = "int" /\ shape.min <= value.n /\ value.n <= shape.max
  \/ shape.type = "string" /\ value.kind = "str" /\ shape.min <= value.n /\ value.n <= shape.max
  \/ shape.type = "enum" /\ \E i \in DOMAIN shape.choices : value = Str(shape.choices[i])

Graph(models) ==
  /\ \A m \in DOMAIN models : ShapeSound(models[m])
  /\ Heights(models)[MaxDepth] = DOMAIN models
  /\ \A m \in DOMAIN models : \A i \in DOMAIN models[m].fields :
       DefaultFits(models[m].fields[i].default, models[models[m].fields[i].ref], models)
  /\ \A m \in DOMAIN models : \A i \in DOMAIN models[m].variants :
       LET target == models[models[m].variants[i].ref]
           tags == {j \in DOMAIN target.fields : target.fields[j].name = models[m].tag /\ target.fields[j].required}
       IN  /\ target.type = "object" /\ Cardinality(tags) = 1
           /\ \A j \in tags : models[target.fields[j].ref] = Choice(<<models[m].variants[i].value>>)

-----------------------------------------------------------------------------
(* Paths.  Where a path leads is a model, or Nowhere.                       *)

Nowhere == "nowhere"

\* Faulty variant of Follow: an index is accepted over anything.
FollowLoose(models, m, seg) ==
  LET shape == Bare(models, models[m])
      hits == {i \in DOMAIN shape.fields : shape.fields[i].name = seg}
  IN  IF shape.type = "object" /\ seg # Index /\ Cardinality(hits) = 1 THEN shape.fields[CHOOSE i \in hits : TRUE].ref
      ELSE IF seg = Index THEN (IF shape.type = "list" THEN shape.item ELSE m)
      ELSE Nowhere

Follow(models, m, seg) ==
  LET shape == Bare(models, models[m])
      hits == {i \in DOMAIN shape.fields : shape.fields[i].name = seg}
  IN  IF shape.type = "object" /\ seg # Index /\ Cardinality(hits) = 1 THEN shape.fields[CHOOSE i \in hits : TRUE].ref
      ELSE IF shape.type = "list" /\ seg = Index THEN shape.item
      ELSE Nowhere

Path(models, m, path) ==
  LET walk[k \in 0..Len(path)] == IF k = 0 THEN m
                                  ELSE LET at == walk[k - 1] IN
                                       IF at \notin DOMAIN models THEN Nowhere ELSE Follow(models, at, path[k])
  IN IF Len(path) > MaxDepth \/ walk[Len(path)] \notin DOMAIN models THEN Nowhere ELSE walk[Len(path)]

Reaches(models, m, path) == Path(models, m, path) # Nowhere
LeadsTo(models, m, path, type) == Reaches(models, m, path) /\ models[Path(models, m, path)].type = type
ItemModel(models, m, path) == IF LeadsTo(models, m, path, "list") THEN models[Path(models, m, path)].item ELSE Nowhere

\* Every terminal path under a model that is reached through objects only.
Leaves(models, m, root) ==
  LET more[k \in 0..MaxDepth] ==
        IF k = 0 THEN {<<m, root>>}
        ELSE UNION {LET shape == Bare(models, models[p[1]])
                    IN IF shape.type # "object" THEN {p}
                       ELSE {<<shape.fields[i].ref, Append(p[2], shape.fields[i].name)>> : i \in DOMAIN shape.fields}
                    : p \in more[k - 1]}
  IN {p[2] : p \in more[MaxDepth]}

-----------------------------------------------------------------------------
(* Calls.  A path is its prefix, its route in the inventory, whether it has *)
(* nothing but plain segments, and the name in its one slot ("" for none).  *)

Destination(call) ==
  /\ call.prefix \in {"v1", "v2"}
  /\ call.prefix = "v2" => IF call.method = "GET" THEN call.operation = "read"
                           ELSE <<call.method, call.route, call.operation>> \in V2_WRITES /\ call.input # ""
  /\ call.prefix = "v1" => call.operation \notin Writes
  /\ call.plain
  /\ call.identity = call.slot

CallSound(call, models) ==
  /\ Destination(call)
  /\ {call.output, call.error} \subseteq DOMAIN models
  /\ call.input # "" => call.input \in DOMAIN models
  /\ (call.method = "GET") <=> (call.input = "")

\* A read of the second API, with or without an identity.
ReadCall(d, key, identity) ==
  /\ key \in DOMAIN d.calls
  /\ d.calls[key].prefix = "v2" /\ d.calls[key].method = "GET" /\ d.calls[key].operation = "read"
  /\ (d.calls[key].identity # "") <=> identity

ViewSound(d, view) ==
  /\ view.call \in DOMAIN d.calls /\ d.calls[view.call].method = "GET"
  /\ \A a \in view.actions : a \in DOMAIN d.calls /\ d.calls[a].operation \notin Writes

ControlSound(d, c) ==
  /\ Reaches(d.models, c.model, c.path)
  /\ DefaultFits(c.default, d.models[Path(d.models, c.model, c.path)], d.models)
  /\ c.condition # <<>> => Reaches(d.models, c.model, c.condition)
  /\ \A p \in c.projections : Reaches(d.models, c.model, p)

-----------------------------------------------------------------------------
(* The console: screens, pages, actions and the wizard.                     *)

ConsoleSound(d) ==
  LET con == d.console
      listing == d.calls[con.collection.call]
      row == ItemModel(d.models, listing.output, con.collection.items)
      main == d.calls[con.detail.call]
      extra == d.calls[con.detail.extra]
  IN  /\ ReadCall(d, con.summary.call, FALSE)
      /\ \A p \in con.summary.figures : Reaches(d.models, d.calls[con.summary.call].output, p)
      /\ ReadCall(d, con.collection.call, FALSE) /\ row # Nowhere
      /\ LeadsTo(d.models, row, con.collection.key, "string")
      /\ Reaches(d.models, row, con.collection.title)
      /\ \A p \in con.collection.columns : Reaches(d.models, row, p)
      /\ \A p \in con.collection.searchable : LeadsTo(d.models, row, p, "string")
      /\ ReadCall(d, con.detail.call, TRUE) /\ ReadCall(d, con.detail.extra, TRUE) /\ main.identity = extra.identity
      /\ con.detail.title # <<>> => LeadsTo(d.models, main.output, con.detail.title, "string")
      /\ \A i \in DOMAIN con.detail.tabs :
           LET tab == con.detail.tabs[i] IN
           /\ \A e \in DOMAIN tab.entries : Reaches(d.models, (IF tab.source = "main" THEN main ELSE extra).output, tab.entries[e])
           /\ tab.groups # <<>> => LET members == FlattenSeq(tab.groups)
                                   IN IsInjective(members) /\ Range(members) = DOMAIN tab.entries

\* Every v1 view at most once, nothing that is read left out, nothing else shown.
Pages(d) ==
  /\ IsInjective([i \in DOMAIN d.console.pages |-> d.console.pages[i].view])
  /\ \A i \in DOMAIN d.console.pages :
       LET page == d.console.pages[i]
           view == d.views[page.view]
           output == d.calls[view.call].output
           reads == {c \in view.controls : c.type = "read"}
       IN  /\ page.view \in DOMAIN d.views
           /\ reads # {} /\ \A c \in reads : c.model = output
           /\ \A p \in page.shown : /\ Reaches(d.models, output, p) /\ Index \notin Range(p)
                                    /\ \E c \in reads : IsPrefix(c.path, p)
           /\ \A c \in reads : \A leaf \in Leaves(d.models, Path(d.models, output, c.path), c.path) :
                \E p \in page.shown : IsPrefix(p, leaf)

\* One field of a form, for the model of the body and the model it is filled from.
FieldSound(models, f, target, base) ==
  /\ Reaches(models, target, f.path)
  /\ f.source # <<>> => base # Nowhere /\ Reaches(models, base, f.source)
  /\ (f.kind = "records") <=> (f.items # {})
  /\ (f.kind = "choice") <=> (f.choices # {})
  /\ f.kind = "secret" => f.source = <<>>

\* A field and, for records, those of its items, which may depend on a sibling.
Fields(models, fs, target, base) ==
  \A f \in fs :
    /\ FieldSound(models, f, target, base)
    /\ f.kind = "records" =>
         LET itemTarget == ItemModel(models, target, f.path)
             itemBase == IF f.source # <<>> THEN ItemModel(models, base, f.source) ELSE Nowhere
         IN  /\ itemTarget # Nowhere
             /\ f.source # <<>> => itemBase # Nowhere
             /\ \A g \in f.items : FieldSound(models, g, itemTarget, itemBase)
             /\ \A g \in f.items : g.when # <<>> => \E h \in f.items : h.path = g.when

BaseOf(d, action) == d.calls[CASE action.place = "collection" -> d.console.collection.call
                               [] action.place = "detail" -> d.console.detail.call
                               [] OTHER -> d.console.detail.extra]

ActionSound(d, action) ==
  LET call == d.calls[action.call]
      base == BaseOf(d, action)
  IN  /\ \A f \in action.fields : f.when = <<>>
      /\ action.call \in DOMAIN d.calls /\ call.operation \in Writes /\ call.input # ""
      /\ call.identity = (IF action.place = "collection" THEN "" ELSE base.identity)
      /\ Fields(d.models, action.fields, call.input, base.output)
      /\ (action.stamp = <<>>) <=> (action.origin = <<>>)
      /\ (action.after = "open") <=> (action.lands # <<>>)
      /\ action.lands # <<>> => LeadsTo(d.models, call.output, action.lands, "string")
      /\ action.stamp # <<>> => /\ LeadsTo(d.models, call.input, action.stamp, "integer")
                                /\ LeadsTo(d.models, base.output, action.origin, "integer")
      /\ \A f \in action.typed : f.kind = "text" /\ f.source # <<>> /\ Fields(d.models, {f}, call.input, base.output)
      /\ action.visible # <<>> => Reaches(d.models, base.output, action.visible)
      /\ IF action.probe = "" THEN action.drop = {}
         ELSE /\ action.probe \in DOMAIN d.calls /\ d.calls[action.probe].operation = "probe"
              /\ (d.calls[action.probe].identity = "") <=> (call.identity = "")
      /\ \A p \in action.drop : Reaches(d.models, call.input, p)

\* The wizard asks for every field of the registration in exactly one step.
Wizard(d) ==
  LET guide == d.console.guide
      asked == FlattenSeq(guide.steps)
  IN  IF guide.action = "" THEN asked = <<>>
      ELSE /\ guide.action \in DOMAIN d.console.actions
           /\ LET wizard == d.console.actions[guide.action]
              IN /\ wizard.place = "collection" /\ d.calls[wizard.call].operation = "register"
                 /\ IsInjective(asked) /\ Range(asked) = {f.id : f \in wizard.fields}

Actions(d) == (\A a \in DOMAIN d.console.actions : ActionSound(d, d.console.actions[a])) /\ Wizard(d)

-----------------------------------------------------------------------------
(* The closed classes: the kinds they allow and how many of each they hold. *)

Within(s, lo, hi) == lo <= Cardinality(s) /\ Cardinality(s) <= hi

CallClosed(c) == /\ c.method \in {"GET", "POST", "PUT", "DELETE"}
                 /\ c.operation \in Writes \cup {"read", "create", "replace", "delete", "move", "check", "confirm", "append"}
ControlClosed(c) == c.type \in {"text", "integer", "checkbox", "select", "table", "list", "read", "confirm"}
CollectionClosed(c) == Within(c.columns, 1, 12) /\ Within(c.searchable, 1, 4)
TabClosed(t) == t.source \in {"main", "extra"} /\ Within(DOMAIN t.entries, 1, 16) /\ Len(t.groups) <= 6
DetailClosed(d) == Len(d.tabs) \in 1..6 /\ \A i \in DOMAIN d.tabs : TabClosed(d.tabs[i])
GuideClosed(g) == Len(g.steps) \in 2..10 /\ \A i \in DOMAIN g.steps : Len(g.steps[i]) <= 16
FormFieldClosed(f) == f.kind \in {"text", "secret", "integer", "flag", "choice", "lines", "records"}
                      /\ Within(f.items, 0, 24) /\ Within(f.choices, 0, 32)
ActionClosed(a) == /\ a.place \in {"collection", "detail", "aside"} /\ a.after \in {"reread", "list", "open"}
                   /\ Within(a.fields, 0, 32) /\ Within(a.drop, 0, 4)
                   /\ \A f \in a.fields \cup a.typed : FormFieldClosed(f)
ConsoleClosed(c) == /\ Within(c.summary.figures, 1, 16) /\ CollectionClosed(c.collection)
                    /\ DetailClosed(c.detail) /\ GuideClosed(c.guide)
                    /\ Len(c.pages) <= 6 /\ Within(DOMAIN c.actions, 0, 12)
                    /\ \A a \in DOMAIN c.actions : ActionClosed(c.actions[a])
PresentationClosed(d) == /\ \A c \in DOMAIN d.calls : CallClosed(d.calls[c])
                         /\ \A v \in DOMAIN d.views : \A c \in d.views[v].controls : ControlClosed(c)
                         /\ ConsoleClosed(d.console)

ValidatePresentation(d) ==
  /\ PresentationClosed(d)
  /\ IsInjective(d.ids)
  /\ Graph(d.models)
  /\ \A c \in DOMAIN d.calls : CallSound(d.calls[c], d.models)
  /\ \A v \in DOMAIN d.views : ViewSound(d, d.views[v])
  /\ \A v \in DOMAIN d.views : \A c \in d.views[v].controls : ControlSound(d, c)
  /\ \A b \in d.bindings : Reaches(d.models, b.model, b.path)
  /\ ConsoleSound(d)
  /\ Pages(d)
  /\ Actions(d)

-----------------------------------------------------------------------------
(* The package.  A digest is the document it is the digest of.  anchor and  *)
(* catalog are compiled into the program, manifest, file and script are     *)
(* assets.                                                                  *)

Build(d) == [anchor |-> d, catalog |-> d, manifest |-> d, file |-> d, script |-> d]

\* The calls and the models are those of the catalogue, compared whole.
ValidateCatalog(d, catalog) == d.calls = catalog.calls /\ d.models = catalog.models

LoadResources(p) ==
  /\ p.manifest = p.anchor /\ p.file = p.manifest
  /\ ValidatePresentation(p.file)
  /\ ValidateCatalog(p.file, p.catalog)
  /\ p.script = p.file

Init == doc = BaseDocument /\ pack = Build(BaseDocument) /\ edits = 0 /\ served = "none"

Edit == /\ served = "none" /\ edits < MaxEdits
        /\ \E d \in Edits(doc) : doc' = d
        /\ edits' = edits + 1 /\ UNCHANGED <<pack, served>>

\* The tools write every part anew, or only the assets.
BuildAll == served = "none" /\ pack # Build(doc) /\ pack' = Build(doc) /\ UNCHANGED <<doc, edits, served>>
BuildAssets == /\ served = "none"
               /\ pack' = [pack EXCEPT !.file = doc, !.script = doc]
               /\ pack' # pack /\ UNCHANGED <<doc, edits, served>>

Serve == /\ served = "none"
         /\ served' = IF LoadResources(pack) THEN "served" ELSE "refused"
         /\ UNCHANGED <<doc, pack, edits>>

Next == Edit \/ BuildAll \/ BuildAssets \/ Serve

Spec == Init /\ [][Next]_vars

-----------------------------------------------------------------------------
(* What a browser meets when it follows a path through an answer of the     *)
(* API: every value the model allows, tried at once.                        *)

Meets(models, m0, path0) ==
  LET RECURSIVE meets(_, _)
      meets(m, path) ==
        LET shape == models[m] IN
        CASE shape.type = "nullable" -> {"blank"} \cup meets(shape.item, path)
          [] path = <<>> -> {"value"}
          [] shape.type = "object" ->
               LET hits == {i \in DOMAIN shape.fields : shape.fields[i].name = path[1]} IN
               IF hits = {} THEN {"stuck"}
               ELSE UNION {meets(shape.fields[i].ref, Tail(path)) : i \in hits}
          [] shape.type = "list" -> IF path[1] = Index THEN {"blank"} \cup meets(shape.item, Tail(path)) ELSE {"stuck"}
          [] shape.type = "union" -> UNION {meets(shape.variants[i].ref, path) : i \in DOMAIN shape.variants}
          [] OTHER -> {"stuck"}
  IN meets(m0, path0)

Names(models) == UNION {{models[m].fields[i].name : i \in DOMAIN models[m].fields} : m \in DOMAIN models}

\* A value that is shown as it is: nothing of it is reached by a further name.
IsLeaf(models, m, path) == /\ "value" \in Meets(models, m, path)
                           /\ \A n \in Names(models) : "value" \notin Meets(models, m, Append(path, n))

ReadPlaces(d) ==
  LET con == d.console
      out(c) == d.calls[c].output
      row == ItemModel(d.models, out(con.collection.call), con.collection.items)
  IN  {<<out(con.summary.call), p>> : p \in con.summary.figures}
      \cup {<<row, p>> : p \in con.collection.columns \cup con.collection.searchable \cup {con.collection.key, con.collection.title}}
      \cup UNION {{<<out(IF con.detail.tabs[i].source = "main" THEN con.detail.call ELSE con.detail.extra), con.detail.tabs[i].entries[e]>>
                   : e \in DOMAIN con.detail.tabs[i].entries} : i \in DOMAIN con.detail.tabs}
      \cup UNION {{<<BaseOf(d, con.actions[a]).output, f.source>> : f \in con.actions[a].fields} : a \in DOMAIN con.actions}
      \cup UNION {UNION {{<<ItemModel(d.models, BaseOf(d, con.actions[a]).output, f.source), g.source>> : g \in {h \in f.items : h.source # <<>>}}
                         : f \in con.actions[a].fields} : a \in DOMAIN con.actions}

\* What the server serves comes whole from one build, and a console drawn from it
\* never follows a path into nothing, whatever the API answers; it shows every value
\* its v1 pages are approved to read, and it writes only through the inventory, to the
\* item whose reading the form was filled from.
ServedIsRenderable ==
  served = "served" =>
    LET d == pack.file IN
    /\ pack.script = d /\ pack.manifest = d
    /\ \A place \in ReadPlaces(d) : "stuck" \notin Meets(d.models, place[1], place[2])
    /\ \A i \in DOMAIN d.console.pages :
         LET page == d.console.pages[i]
             output == d.calls[d.views[page.view].call].output
         IN \A c \in {c \in d.views[page.view].controls : c.type = "read"} :
              \A q \in UNION {[1..n -> Names(d.models)] : n \in 0..2} :
                (IsPrefix(c.path, q) /\ IsLeaf(d.models, output, q)) => \E p \in page.shown : IsPrefix(p, q)
    /\ \A a \in DOMAIN d.console.actions :
         LET call == d.calls[d.console.actions[a].call] IN
         /\ <<call.method, call.route, call.operation>> \in V2_WRITES
         /\ call.identity # "" => call.identity = BaseOf(d, d.console.actions[a]).identity
=============================================================================
