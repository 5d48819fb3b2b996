------------------------------ MODULE QueryJob ------------------------------
(***************************************************************************)
(* One worker's database session and the jobs it runs: the adapter         *)
(* (db/postgres.py) connects, proves the session it got, and runs queries; *)
(* the resolver (db/provenance.py) finds out which column each result      *)
(* column comes from, and remembers it for the life of the connection; the *)
(* job (runtime/worker_job.py) turns every way this can end into one       *)
(* outcome; and the loop of the child (runtime/worker_process.py) compares *)
(* the session with its baseline before and after each job.                *)
(*                                                                         *)
(* The same adapter serves the gateway: the tool of the MCP server, whose  *)
(* queries connect first if they must, and the sessions by alias, which    *)
(* connect once.  There the result is translated, audited and returned     *)
(* (gateway/), with no deadline, no baseline and no frame.                 *)
(*                                                                         *)
(* Around it, somebody renames columns, the server goes away, and the      *)
(* deadline passes at any point.                                           *)
(*                                                                         *)
(* What is decided about a query comes first: the validation of its text   *)
(* (sql/parser.py, validator.py, policy.py), which output positions carry  *)
(* a protected column (sql/sensitivity.py) and what happens to each result *)
(* column (masking/matcher.py, rules.py, engine.py).                       *)
(*                                                                         *)
(* A query is its syntax tree, as the parser library returns it:           *)
(*   [parsed : whether it is SQL at all, statements : its statements]      *)
(* a statement is [root, nodes, select]: the kind of its root, the nodes a *)
(* visitor meets in order, and the tree of SELECTs; a SELECT is either     *)
(*   [op : "none", targets, relations, inner]  or                          *)
(*   [op : "set", larg, rarg, relations, inner]                            *)
(* where "relations" are the tables and CTEs it names and their aliases   *)
(* (the alias of a FROM subquery is none of them), "inner" the SELECTs of  *)
(* its CTEs and of its FROM subqueries, and a target is [name, refs]: its  *)
(* alias and its column references, each a sequence of fields.             *)
(*                                                                         *)
(* A query carries, beside its tree, what the server will make of it:      *)
(* "binds" (the columns it names, as pairs of a key and the name it must   *)
(* have) and "result" (for each result column its output name, or NoName   *)
(* for the column's own name; the key the protocol reports, or NoKey; the  *)
(* keys whose data it carries; its type), whether it alters the session it *)
(* runs in, and whether it is "exact": it names the columns it reads, with *)
(* no "*" and no whole row of a FROM subquery.                             *)
(*                                                                         *)
(* The result travels from the child to the parent in a frame              *)
(* (pgwire/result_encoder.py, pgwire/result_frame.py).  A cell is [kind,   *)
(* chars, bytes, bad, bits, canonical]: NULL, text, integer, boolean or    *)
(* something else; its length in characters and in bytes; whether a text   *)
(* has a NUL or cannot be encoded; the bits an integer needs; and, in a    *)
(* frame, whether its digits are canonical.  A result is [columns, rows,   *)
(* truncated, torn]; a column is [name, oid], its name being a cell.  A    *)
(* frame is its header and its messages.                                   *)
(***************************************************************************)
EXTENDS Integers, Sequences, FiniteSets, SequencesExt, FiniteSetsExt

CONSTANTS
    Fold,           \* casefold: each name to its folded form
    Within,         \* pairs <<needle, name>>: needle is a substring of name
    StartsWith,     \* each function name to the prefixes it starts with
    DeniedFunctions, DeniedPrefixes, AllowedPgFunctions, DeniedRelations,
    Rules,          \* the masking rules, in order
    Exceptions,     \* the masking exceptions, in order
    MaxDepth,       \* how deep the analysis follows nested SELECTs
    Star            \* the field "*"

CONSTANTS
    Queries, Keys, NoKey,
    Names,          \* for each key, the names its column may be given
    FirstNames,     \* the names the columns start with
    MaxRows,        \* settings.max_rows
    BatchSizes,     \* the batch sizes of an adapter
    Available,      \* the numbers of rows a query may find
    Cells,          \* the values a result may hold, for each type
    Limits,         \* the result limits; max_rows is the adapter's
    MaxRenames, MaxConnections

ASSUME SqlAssumption == MaxDepth \in Nat

NoName == "no name"
NoRule == 0

-----------------------------------------------------------------------------
(* The frame of a result: the encoder sizes everything before it writes,   *)
(* and has what it wrote validated; the validator trusts nothing it reads. *)

HeaderBytes == 76
TextOids == {19, 25, 1042, 1043}
NameOid == 19
BoolOid == 16
NameValueBytes == 63
IntegerBits == [oid \in {21, 23, 20} |-> IF oid = 21 THEN 16 ELSE IF oid = 23 THEN 32 ELSE 64]
WireTypes == TextOids \cup {BoolOid} \cup DOMAIN IntegerBits
TextOid == 25
IntegerTextBytes == 20

Digits(n) == IF n < 10 THEN 1 ELSE IF n < 100 THEN 2 ELSE 3
CommandBytes(rows) == 8 + Digits(rows)
Null == [kind |-> "null", chars |-> 0, bytes |-> 0, bad |-> FALSE, bits |-> 0, canonical |-> TRUE]

-----------------------------------------------------------------------------
(* The encoder.                                                            *)

\* What is wrong with a text that may take at most "maximum" bytes, if anything.
TextFault(cell, maximum, over) ==
    IF cell.chars > maximum THEN over
    ELSE IF cell.bad THEN "TYPE"
    ELSE IF cell.bytes > maximum THEN over ELSE "none"

CellFault(cell, oid, limits) ==
    IF cell.kind = "null" THEN "none"
    ELSE IF oid \in TextOids
    THEN IF cell.kind # "text" THEN "TYPE"
         ELSE IF oid # NameOid THEN TextFault(cell, limits.max_cell_bytes, "LIMIT")
         ELSE IF TextFault(cell, NameValueBytes, "TYPE") # "none" THEN "TYPE"
         ELSE IF cell.bytes > limits.max_cell_bytes THEN "LIMIT" ELSE "none"
    ELSE IF \/ oid \in DOMAIN IntegerBits /\ cell.kind = "int" /\ cell.bits <= IntegerBits[oid]
            \/ oid = BoolOid /\ cell.kind = "bool"
    THEN IF cell.bytes > limits.max_cell_bytes THEN "LIMIT" ELSE "none"
    ELSE "TYPE"

Sum(seq) == FoldLeft(LAMBDA a, b : a + b, 0, seq)

DescriptionBytes(columns) == 7 + Sum([i \in DOMAIN columns |-> 19 + columns[i].name.bytes])
RowBytes(row) == 7 + Sum([i \in DOMAIN row |-> 4 + row[i].bytes])

FrameBytes(columns, rows) ==
    HeaderBytes + DescriptionBytes(columns) + Sum([r \in DOMAIN rows |-> RowBytes(rows[r])])
        + 5 + CommandBytes(Len(rows))

\* The first thing the encoder objects to, in the order in which it looks:
\* the dimensions, the integrity of the typed result, the names of the columns,
\* the truncation mark, the description, then the rows cell by cell with their
\* running total.
Preflight(result, limits) ==
    LET columns == result.columns
        rows == result.rows
        names == {i \in DOMAIN columns :
                    TextFault(columns[i].name, limits.max_name_bytes, "LIMIT") # "none"}
        before(r, c) ==
            HeaderBytes + DescriptionBytes(columns) + 5 + CommandBytes(Len(rows))
                + Sum([i \in 1 .. (r - 1) |-> RowBytes(rows[i])]) + RowBytes(SubSeq(rows[r], 1, c))
        cellFault(r, c) ==
            IF CellFault(rows[r][c], columns[c].oid, limits) # "none"
            THEN CellFault(rows[r][c], columns[c].oid, limits)
            ELSE IF before(r, c) > limits.max_frame_bytes THEN "LIMIT" ELSE "none"
        bad == {<<r, c>> \in (DOMAIN rows) \X (DOMAIN columns) : cellFault(r, c) # "none"}
    IN  IF Len(rows) > limits.max_rows \/ Len(columns) > limits.max_columns THEN "LIMIT"
        ELSE IF result.torn \/ columns = <<>> THEN "PROTOCOL"
        ELSE IF names # {} THEN TextFault(columns[Min(names)].name, limits.max_name_bytes, "LIMIT")
        ELSE IF result.truncated /\ Len(rows) # limits.max_rows THEN "PROTOCOL"
        ELSE IF HeaderBytes + DescriptionBytes(columns) + 5 + CommandBytes(Len(rows)) > limits.max_frame_bytes
        THEN "LIMIT"
        ELSE IF bad = {} THEN "none"
        ELSE LET first == CHOOSE a \in bad :
                             \A b \in bad : a[1] < b[1] \/ (a[1] = b[1] /\ a[2] <= b[2])
             IN  cellFault(first[1], first[2])

\* The frame the writer fills: it has exactly the size the preflight computed.
Written(result, identity) ==
    [version |-> 1, flag |-> result.truncated, identity |-> identity,
     columns |-> Len(result.columns), rows |-> Len(result.rows),
     body |-> FrameBytes(result.columns, result.rows) - HeaderBytes,
     length |-> FrameBytes(result.columns, result.rows),
     description |-> result.columns, data |-> result.rows, command |-> Len(result.rows)]

-----------------------------------------------------------------------------
(* The validator.                                                          *)

HeaderFault(frame, identity, limits) ==
    IF frame.version # 1 THEN "PROTOCOL"
    ELSE IF frame.identity # identity THEN "IDENTITY"
    ELSE IF frame.columns \notin 1 .. limits.max_columns \/ frame.rows > limits.max_rows THEN "LIMIT"
    ELSE IF frame.flag /\ frame.rows # limits.max_rows THEN "PROTOCOL"
    ELSE IF HeaderBytes + frame.body > limits.max_frame_bytes THEN "LIMIT"
    ELSE IF frame.body < 7 + 19 * frame.columns + frame.rows * (7 + 4 * frame.columns)
                             + 5 + CommandBytes(frame.rows)
    THEN "PROTOCOL"
    ELSE "none"

\* The message T: as many columns as the header says, each with a name that
\* ends within the limit and one of the known types.
DescriptionSound(frame, limits) ==
    /\ Len(frame.description) = frame.columns
    /\ \A i \in DOMAIN frame.description :
           /\ frame.description[i].name.bytes <= limits.max_name_bytes
           /\ ~frame.description[i].name.bad
           /\ frame.description[i].oid \in WireTypes

ValueSound(cell, oid) ==
    IF oid \in TextOids THEN ~cell.bad /\ (oid = NameOid => cell.bytes <= NameValueBytes)
    ELSE IF oid \in DOMAIN IntegerBits
    THEN cell.kind = "int" /\ cell.canonical /\ cell.bytes <= IntegerTextBytes /\ cell.bits <= IntegerBits[oid]
    ELSE cell.kind = "bool" /\ cell.bytes = 1

\* The messages D: exactly as many as the header says, each of the declared
\* width, no cell over its limit and every cell of its column's type.
RowsSound(frame, limits) ==
    /\ Len(frame.data) = frame.rows
    /\ \A r \in DOMAIN frame.data :
           /\ Len(frame.data[r]) = frame.columns
           /\ \A c \in DOMAIN frame.data[r] :
                  LET cell == frame.data[r][c] IN
                  cell.kind # "null" =>
                      /\ cell.bytes <= limits.max_cell_bytes
                      /\ ValueSound(cell, frame.description[c].oid)

Accepts(frame, identity, limits) ==
    /\ frame.length \in HeaderBytes .. limits.max_frame_bytes
    /\ HeaderFault(frame, identity, limits) = "none"
    /\ HeaderBytes + frame.body = frame.length
    /\ DescriptionSound(frame, limits)
    /\ RowsSound(frame, limits)
    /\ frame.command = frame.rows
    /\ frame.length = FrameBytes(frame.description, frame.data)

\* encode_result: the preflight, the writing, and the validation of the whole.
EncodeResult(result, identity, limits) ==
    LET fault == Preflight(result, limits)
        frame == Written(result, identity)
    IN  IF fault # "none" THEN [fault |-> fault, frame |-> <<>>]
        ELSE IF ~Accepts(frame, identity, limits) THEN [fault |-> "PROTOCOL", frame |-> <<>>]
        ELSE [fault |-> "none", frame |-> frame]

-----------------------------------------------------------------------------
(* Validation.                                                             *)

\* A name the policy lets through: the closed list first, then the families,
\* and a pg_ function only when it is listed.
Allows(name) ==
    /\ Fold[name] \notin DeniedFunctions
    /\ StartsWith[Fold[name]] \cap DeniedPrefixes = {}
    /\ "pg_" \in StartsWith[Fold[name]] => Fold[name] \in AllowedPgFunctions

AllowsRelation(name) == Fold[name] \notin DeniedRelations

\* What the inspector objects to in one node.
Objectionable(node) ==
    \/ node.kind \in {"NestedStmt", "IntoClause", "LockingClause"}
    \/ node.kind = "FuncCall" /\ node.name # NoName /\ ~Allows(node.name)
    \/ node.kind = "RangeVar" /\ node.name # NoName /\ ~AllowsRelation(node.name)

ParsesToOne(query) == query.parsed /\ Len(query.statements) = 1

ValidSelect(query) ==
    /\ ParsesToOne(query)
    /\ query.statements[1].root = "SelectStmt"
    /\ \A i \in DOMAIN query.statements[1].nodes : ~Objectionable(query.statements[1].nodes[i])

-----------------------------------------------------------------------------
(* Rules and exceptions are matched by name.                               *)

Matches(spec, name) ==
    LET needle == IF spec.case_sensitive THEN spec.pattern ELSE Fold[spec.pattern]
        haystack == IF spec.case_sensitive THEN name ELSE Fold[name]
    IN  /\ name # NoName
        /\ IF spec.mode = "exact" THEN haystack = needle ELSE <<needle, haystack>> \in Within

\* The first entry that matches one of the names, or NoRule.
FirstMatch(specs, names) ==
    LET hits == {i \in DOMAIN specs : \E n \in names : Matches(specs[i], n)}
    IN  IF hits = {} THEN NoRule ELSE CHOOSE i \in hits : \A j \in hits : i <= j

-----------------------------------------------------------------------------
(* The analysis of the tree: a rule for each output position.              *)

RECURSIVE Branches(_)
Branches(select) ==
    IF select.op = "none" THEN <<select>> ELSE Branches(select.larg) \o Branches(select.rarg)

RECURSIVE InnerSelects(_)
InnerSelects(select) ==
    select.inner \o
    (IF select.op = "none" THEN <<>> ELSE InnerSelects(select.larg) \o InnerSelects(select.rarg))

\* Names and aliases of every RangeVar of the tree, at any depth.
RECURSIVE RelationNames(_)
RelationNames(select) ==
    {Fold[r] : r \in select.relations}
        \cup UNION {RelationNames(select.inner[i]) : i \in DOMAIN select.inner}
        \cup (IF select.op = "none" THEN {} ELSE RelationNames(select.larg) \cup RelationNames(select.rarg))

\* The names a SELECT exports: an alias, or the column a bare reference names.
OutputNames(select) ==
    [i \in DOMAIN Branches(select)[1].targets |->
        LET target == Branches(select)[1].targets[i] IN
        IF target.name # NoName THEN target.name
        ELSE IF target.bare /\ Last(target.refs[1]) # Star THEN Last(target.refs[1])
        ELSE NoName]

WholeRow(target, relations) ==
    \E i \in DOMAIN target.refs :
        /\ Len(target.refs[i]) = 1
        /\ target.refs[i][1] # Star
        /\ Fold[target.refs[i][1]] \in relations

ReferencedNames(target) ==
    {Last(target.refs[i]) : i \in {j \in DOMAIN target.refs : Last(target.refs[j]) # Star}}

RuleFor(name, exported) ==
    IF FirstMatch(Exceptions, {name}) # NoRule THEN NoRule
    ELSE IF FirstMatch(Rules, {name}) # NoRule THEN FirstMatch(Rules, {name})
    ELSE IF Fold[name] \in DOMAIN exported THEN exported[Fold[name]] ELSE NoRule

PositionRules(branches, index, exported) ==
    {RuleFor(name, exported) :
        name \in UNION {ReferencedNames(branches[b].targets[index]) : b \in DOMAIN branches}} \ {NoRule}

NoAnalysis == [rejected |-> FALSE, rules |-> <<>>]
Rejected == [rejected |-> TRUE, rules |-> <<>>]

\* The rules the inner SELECTs export, the first one to export a name winning.
ExportedRules(inners, analyses) ==
    LET entry(i, p) == <<Fold[OutputNames(inners[i])[p]], analyses[i].rules[p]>>
        entries == {<<i, p>> \in (DOMAIN inners) \X (1 .. 8) :
                        /\ p \in DOMAIN analyses[i].rules
                        /\ OutputNames(inners[i])[p] # NoName
                        /\ analyses[i].rules[p] # NoRule}
        Before(a, b) == a[1] < b[1] \/ (a[1] = b[1] /\ a[2] <= b[2])
    IN  [n \in {entry(e[1], e[2])[1] : e \in entries} |->
            LET own == {e \in entries : entry(e[1], e[2])[1] = n}
                first == CHOOSE e \in own : \A f \in own : Before(e, f)
            IN  entry(first[1], first[2])[2]]

RECURSIVE AnalyzeSelect(_, _)
AnalyzeSelect(select, depth) ==
    LET branches == Branches(select)
        widths == {Len(branches[b].targets) : b \in DOMAIN branches}
        width == CHOOSE w \in widths : TRUE
        inners == InnerSelects(select)
        analyses == [i \in DOMAIN inners |-> AnalyzeSelect(inners[i], depth + 1)]
        exported == ExportedRules(inners, analyses)
        rules(i) == PositionRules(branches, i, exported)
    IN  IF depth > MaxDepth \/ Cardinality(widths) # 1 \/ width = 0 THEN NoAnalysis
        ELSE IF \/ \E i \in DOMAIN analyses : analyses[i].rejected
                \/ \E b \in DOMAIN branches, i \in 1 .. width :
                       WholeRow(branches[b].targets[i], RelationNames(select))
                \/ \E i \in 1 .. width : Cardinality(rules(i)) > 1
        THEN Rejected
        ELSE [rejected |-> FALSE,
              rules |-> [i \in 1 .. width |->
                            IF rules(i) = {} THEN NoRule ELSE CHOOSE r \in rules(i) : TRUE]]

AnalyzeSensitivity(query) == AnalyzeSelect(query.statements[1].select, 0)

-----------------------------------------------------------------------------
(* The engine: what happens to one result column.                          *)

\* A rule derived from the tree wins; then an exception for the authoritative
\* name (the origin when it is known); then the first rule for either name.
Resolve(column) ==
    LET names == {column.output_name, column.origin_name} \ {NoName}
        authoritative == IF column.origin_name = NoName THEN column.output_name ELSE column.origin_name
    IN  IF column.derived_rule \in DOMAIN Rules THEN [action |-> "mask", rule |-> column.derived_rule]
        ELSE IF FirstMatch(Exceptions, {authoritative}) # NoRule THEN [action |-> "exception", rule |-> NoRule]
        ELSE IF FirstMatch(Rules, names) # NoRule THEN [action |-> "mask", rule |-> FirstMatch(Rules, names)]
        ELSE [action |-> "allow", rule |-> NoRule]

-----------------------------------------------------------------------------
(* The session and the job.                                                *)

VARIABLES
    door,       \* whose adapter it is: "worker", "mcp" or "session"
    link,       \* the connection: "none", "idle", "dirty", "severed" (the peer
                \* is gone and nobody noticed), "broken", or "closed" by the adapter
    session,    \* the session's settings: "base" or "altered"
    cache,      \* the resolver's cache: key to the name found, or NoName
    names,      \* the catalogue: the name of each column now
    met,        \* the name each column had when this connection first described
                \* it: Unmet before, NoName if the catalogue had no such column
    late,       \* the deadline of the job has passed
    pc,
    job,        \* the job under way
    answer,     \* what the last job sent, with its audit record at the gateway
    batch, renames, connections

vars == <<door, link, session, cache, names, met, late, pc, job, answer, batch, renames, connections>>

NoJob == [query |-> NoName]
Unmet == "unmet"
NoAnswer == [kind |-> "none"]

QueryJobAssumption ==
    /\ MaxRows \in Nat \ {0}
    /\ Limits.max_rows = MaxRows
    /\ DOMAIN FirstNames = Keys

ASSUME QueryJobAssumed == QueryJobAssumption

Init ==
    /\ door \in {"worker", "mcp", "session"}
    /\ link = "none" /\ session = "base"
    /\ cache = <<>>
    /\ names = FirstNames
    /\ met = [k \in Keys |-> Unmet]
    /\ late = FALSE /\ pc = "idle" /\ job = NoJob /\ answer = NoAnswer
    /\ batch \in BatchSizes
    /\ renames = 0 /\ connections = 0

-----------------------------------------------------------------------------
(* The environment.                                                        *)

RenameColumn(k, n) ==
    /\ renames < MaxRenames
    /\ n \notin {names[j] : j \in Keys}
    /\ renames' = renames + 1
    /\ names' = [names EXCEPT ![k] = n]
    /\ UNCHANGED <<door, link, session, cache, met, late, pc, job, answer, batch, connections>>

DeadlinePasses ==
    /\ door = "worker" /\ ~late /\ pc \notin {"idle", "gone"}
    /\ late' = TRUE
    /\ UNCHANGED <<door, link, session, cache, names, met, pc, job, answer, batch, renames, connections>>

PeerGoes ==
    /\ link \in {"idle", "dirty"}
    /\ link' = "severed"
    /\ UNCHANGED <<door, session, cache, names, met, late, pc, job, answer, batch, renames, connections>>

-----------------------------------------------------------------------------
(* The gateway: one way out for every query, with one audit record.        *)

Text(t) == CHOOSE q \in Queries : q.text = t

Categorize(failure) ==
    CASE failure = "INVALID" -> "INVALID_QUERY"
      [] failure = "REJECTED" -> "QUERY_REJECTED"
      [] failure = "TIMEOUT" -> "QUERY_TIMEOUT"
      [] failure = "CAPABILITY" -> "CONFIGURATION_ERROR"
      [] OTHER -> "DATABASE_ERROR"

\* What the gateway keeps of an error of the server: whether it was the timeout.
SanitizeError(category) == IF category = "TIMEOUT" THEN "TIMEOUT" ELSE "DATABASE"

\* The record of a query says how it ended, and nothing of what it was.
QueryAudit(outcome, rows, truncated, category) ==
    [outcome |-> outcome, row_count |-> rows, truncated |-> truncated, error_category |-> category]

\* The tool passes the one error of the gateway on as its own, by its category.
QueryDatabase == IF door = "mcp" THEN "ToolError" ELSE "GatewayError"

\* run_audited: the failure has its category, the record is written, and only
\* then is the fixed error raised.
AuditedFailure(text, category) ==
    /\ answer' = [kind |-> "error", query |-> text, raised |-> QueryDatabase, category |-> category,
                  audit |-> QueryAudit("failure", NoName, NoName, category)]
    /\ pc' = "idle" /\ job' = NoJob

ByteaOid == 17

\* A value as the output can carry it: bytes become their base64 text.
Jsonable(kind) == IF kind = "bytes" THEN "text" ELSE kind

\* What the adapter holds in a column: a masked value is text, another is what
\* its type decodes to.
Decoded(oid, decision) ==
    IF decision.action = "mask" THEN "text" ELSE IF oid = ByteaOid THEN "bytes" ELSE "other"

\* to_query_result: the names, what was masked and the rows are all that leaves.
ToQueryResult(done) ==
    [columns |-> [i \in DOMAIN done.outputs |->
                     [name |-> done.outputs[i], masked |-> done.decisions[i].action = "mask"]],
     kinds |-> [i \in DOMAIN done.outputs |->
                   Jsonable(Decoded(Text(done.query).result[i].oid, done.decisions[i]))],
     row_count |-> done.read, truncated |-> done.truncated]

AuditedResult(done) ==
    LET returned == ToQueryResult(done) IN
    /\ answer' = [kind |-> "result", query |-> done.query, returned |-> returned,
                  decisions |-> done.decisions, available |-> done.available,
                  audit |-> QueryAudit("success", returned.row_count, returned.truncated, NoName)]
    /\ pc' = "idle" /\ job' = NoJob

\* The text is parsed, validated and analysed before the database sees it.
Refusal(q) ==
    CASE ~q.parsed -> "INVALID"
      [] q.parsed /\ (~ValidSelect(q) \/ AnalyzeSensitivity(q).rejected) -> "REJECTED"
      [] OTHER -> "none"

\* The query is taken, and its text looked at.
Take(text) == pc' = "validate" /\ job' = [query |-> text] /\ answer' = NoAnswer

\* execute_validated up to the execution, for whoever asks.  A worker looks at the
\* deadline and at the connection again before it tells of the refusal.
Validate ==
    LET q == Text(job.query)
        refusal == Refusal(q)
    IN  /\ pc = "validate"
        /\ IF refusal = "none"
           THEN /\ pc' = "execute"
                /\ job' = [query |-> q.text, sensitivity |-> AnalyzeSensitivity(q).rules]
                /\ UNCHANGED answer
           ELSE IF door = "worker"
           THEN pc' = "settle" /\ job' = [query |-> q.text, failure |-> "QUERY"] /\ UNCHANGED answer
           ELSE AuditedFailure(q.text, Categorize(refusal))
        /\ UNCHANGED <<door, link, session, cache, names, met, late, batch, renames, connections>>

\* Gateway.query of the tool finds no connection: it connects before all else.
QueryUnconnected(q) ==
    /\ door = "mcp" /\ pc = "idle" /\ link \in {"none", "closed"} /\ connections < MaxConnections
    /\ pc' = "connect" /\ job' = [query |-> q.text] /\ answer' = NoAnswer
    /\ UNCHANGED <<door, link, session, cache, names, met, late, batch, renames, connections>>

\* Gateway.query on a connection that looks open, and the query of a session,
\* which never connects again.
QueryConnected(q) ==
    /\ pc = "idle"
    /\ \/ door = "mcp" /\ link \notin {"none", "closed"}
       \/ door = "session" /\ link # "none"
    /\ Take(q.text)
    /\ UNCHANGED <<door, link, session, cache, names, met, late, batch, renames, connections>>

-----------------------------------------------------------------------------
(* Connecting.                                                             *)

\* What the server may turn out to be: it refuses, it did not apply one of the
\* two limits, or the role cannot read the catalogue (or reads something else).
Servers == [connects : BOOLEAN, read_only : {"on", "off"}, timeout : {"ours", "another"},
            probe : {"unreadable", "unknown", "unexpected", "found"}]

VerifySession(server) == server.read_only = "on" /\ server.timeout = "ours"

\* The probe goes through a resolver of its own, so that nothing of it is
\* remembered, and must name exactly the probe column.
CheckProvenanceCapability(server) == server.probe = "found"

\* A child and a session connect when they are opened, a query of the tool when
\* it finds no connection.
MayConnect ==
    /\ connections < MaxConnections
    /\ IF door = "mcp" THEN pc = "connect" ELSE pc = "idle" /\ link = "none"

Connected ==
    /\ link' = "idle"
    /\ session' = "base"
    /\ late' = FALSE
    /\ connections' = connections + 1
    /\ met' = [k \in Keys |-> Unmet]
    /\ IF door = "mcp" THEN Take(job.query)
       ELSE answer' = NoAnswer /\ UNCHANGED <<pc, job>>

\* Faulty variant of Connect: the resolver of the previous connection is kept.
ConnectKeepingCache ==
    /\ MayConnect
    /\ Connected
    /\ UNCHANGED <<door, cache, names, batch, renames>>

\* connect(): the library connects with both limits asked for, the session must
\* have them, and the probe must be found.
Connect ==
    /\ MayConnect
    /\ \E server \in Servers :
           server.connects /\ VerifySession(server) /\ CheckProvenanceCapability(server)
    /\ Connected
    /\ cache' = <<>>
    /\ UNCHANGED <<door, names, batch, renames>>

\* A session that cannot be opened is refused with the category alone, and is not
\* audited as a query.
OpenSessionFails(category) ==
    /\ answer' = [kind |-> "unopened", category |-> category]
    /\ UNCHANGED <<pc, job>>

\* Otherwise there is no connection, or it is closed again; a lack of the server
\* is a fault of the configuration.
ConnectFails ==
    /\ MayConnect
    /\ \E server \in Servers :
           /\ ~(server.connects /\ VerifySession(server) /\ CheckProvenanceCapability(server))
           /\ LET category == Categorize(IF server.connects THEN "CAPABILITY" ELSE "DATABASE") IN
              CASE door = "mcp" -> AuditedFailure(job.query, category)
                [] door = "session" -> OpenSessionFails(category)
                [] door = "worker" -> answer' = NoAnswer /\ UNCHANGED <<pc, job>>
    /\ link' = "none" /\ cache' = <<>> /\ late' = FALSE
    /\ connections' = connections + 1
    /\ UNCHANGED <<door, session, names, met, batch, renames>>

-----------------------------------------------------------------------------
(* The job.                                                                *)

\* What the client knows of the connection: a peer that went away unnoticed
\* looks healthy.
Healthy == link \in {"idle", "severed"}

Candidates == {"QUERY", "TIMEOUT", "TYPE", "LIMIT"}

\* The category of a job's failure: what the mapping does not name is internal.
Classify(failure) == IF failure \in {"CAPABILITY", "MASKING"} THEN "INTERNAL" ELSE failure

\* The settings are read over a connection that is healthy before and after,
\* which one without its peer is not.
WorkerSessionState == IF link = "idle" THEN session ELSE "unreadable"

\* The baseline is compared before and after every job that may go on.
SameSession == WorkerSessionState = "base"

\* The job ended with a failure.  One that may go on must leave a healthy
\* connection, and the child goes on only when the session is the baseline.
Failed(category, linkNow, lateNow) ==
    LET recoverable == /\ Classify(category) \in Candidates
                       /\ ~lateNow /\ linkNow = "idle" /\ session = "base"
    IN  /\ answer' = [kind |-> "error", query |-> job.query]
        /\ pc' = IF recoverable THEN "idle" ELSE "gone"
        /\ job' = NoJob

\* run_job up to the execution: the baseline, the deadline, the health of the
\* connection; the validation and the analysis of the text come next.
StartJob(q) ==
    /\ door = "worker" /\ pc = "idle" /\ link # "none"
    /\ late' = FALSE
    /\ IF SameSession THEN Take(q.text)
       ELSE /\ pc' = "gone" /\ job' = NoJob
            /\ answer' = [kind |-> "error", query |-> q.text]
    /\ UNCHANGED <<door, link, session, cache, names, met, batch, renames, connections>>

\* The server refuses, is stopped by its own timeout, lacks resources or is
\* gone; the transaction may be left open.  Without a connection nothing is asked.
ExecuteFails ==
    /\ pc = "execute"
    /\ \E category \in {"QUERY", "TIMEOUT", "RESOURCE", "CONNECTION", "INTERNAL"} :
           /\ link \in {"severed", "closed"} => category = "CONNECTION"
           /\ link' \in IF link = "closed" THEN {"closed"}
                        ELSE IF category = "CONNECTION" THEN {"broken"} ELSE {"idle", "dirty"}
           /\ job' = [query |-> job.query,
                      failure |-> IF door = "worker" THEN category ELSE SanitizeError(category)]
    /\ pc' = "settle"
    /\ UNCHANGED <<door, session, cache, names, met, late, answer, batch, renames, connections>>

\* It runs when the columns it names are there under those names, and the
\* result has the columns as they are named now.
ExecuteRuns ==
    LET q == Text(job.query) IN
    /\ pc = "execute" /\ link = "idle"
    /\ \A b \in q.binds : names[b[1]] = b[2]
    /\ \E n \in Available :
           job' = [query |-> job.query, sensitivity |-> job.sensitivity,
                   available |-> n, failure |-> "none",
                   outputs |-> [i \in DOMAIN q.result |->
                                   IF q.result[i].output = NoName THEN names[q.result[i].key]
                                   ELSE q.result[i].output]]
    /\ session' = IF q.alters THEN "altered" ELSE session
    /\ pc' = "describe"
    /\ UNCHANGED <<door, link, cache, names, met, late, answer, batch, renames, connections>>

\* resolve(): the keys nobody asked for yet go to the catalogue in one query, and
\* one it says nothing of is remembered too, as unknown; a failure refuses the
\* query and leaves nothing in the cache.
Resolved(keys, silent) ==
    [k \in DOMAIN cache \cup (keys \ {NoKey}) |->
        IF k \in DOMAIN cache THEN cache[k] ELSE IF k \in silent THEN NoName ELSE names[k]]

\* describe_columns: the analysis of the tree counts only when it has as many
\* positions as the result has columns.
Descriptors(q, sensitivity, outputs, origins) ==
    [i \in DOMAIN q.result |->
        [output_name |-> outputs[i],
         origin_name |-> IF q.result[i].key = NoKey THEN NoName ELSE origins[q.result[i].key],
         derived_rule |-> IF Len(sensitivity) = Len(q.result) THEN sensitivity[i] ELSE NoRule]]

\* A masked column is text; another keeps its type if the wire knows it.
TypedOids(q, decisions) ==
    [i \in DOMAIN decisions |->
        IF decisions[i].action = "mask" THEN TextOid ELSE q.result[i].oid]

Describe ==
    LET q == Text(job.query)
        keys == {q.result[i].key : i \in DOMAIN q.result} \ {NoKey}
    IN  /\ pc = "describe"
        /\ keys \ DOMAIN cache # {} => link = "idle"
        /\ \E silent \in SUBSET (keys \ DOMAIN cache) :
               LET origins == Resolved(keys, silent)
                   columns == Descriptors(q, job.sensitivity, job.outputs, origins)
                   decisions == [i \in DOMAIN columns |-> Resolve(columns[i])]
                   oids == TypedOids(q, decisions)
               IN  /\ cache' = origins
                   /\ met' = [k \in Keys |-> IF k \notin keys \/ met[k] # Unmet THEN met[k]
                                             ELSE IF k \in silent THEN NoName ELSE names[k]]
                   /\ IF door = "worker" /\ \E i \in DOMAIN oids : oids[i] \notin WireTypes
                      THEN job' = [query |-> job.query, failure |-> "TYPE"] /\ pc' = "settle"
                      ELSE /\ job' = [query |-> job.query, available |-> job.available, failure |-> "none",
                                      outputs |-> job.outputs, decisions |-> decisions, oids |-> oids,
                                      read |-> 0, truncated |-> FALSE]
                           /\ pc' = "read"
        /\ UNCHANGED <<door, link, session, names, late, answer, batch, renames, connections>>

\* The catalogue cannot be read: the query is refused, nothing is remembered.
DescribeFails ==
    LET keys == {Text(job.query).result[i].key : i \in DOMAIN Text(job.query).result} IN
    /\ pc = "describe"
    /\ (keys \ {NoKey}) \ DOMAIN cache # {}
    /\ link' \in IF link = "severed" THEN {"broken"} ELSE {"idle", "dirty"}
    /\ job' = [query |-> job.query, failure |-> "CAPABILITY"]
    /\ pc' = "settle"
    /\ UNCHANGED <<door, session, cache, names, met, late, answer, batch, renames, connections>>

\* Faulty variant of ReadBatch: it asks for no row more than it may keep.
ReadBatchExactly ==
    LET wanted == Min({batch, MaxRows - job.read})
        got == Min({wanted, job.available - job.read})
    IN  /\ pc = "read"
        /\ IF got = 0
           THEN pc' = "settle" /\ UNCHANGED job
           ELSE job' = [job EXCEPT !.read = @ + got] /\ UNCHANGED pc
        /\ UNCHANGED <<door, link, session, cache, names, met, late, answer, batch, renames, connections>>

\* _read_masked: each batch asks for one row more than may still be kept, and
\* the row too many is dropped before it is masked.
ReadBatch ==
    LET wanted == Min({batch, MaxRows - job.read + 1})
        got == Min({wanted, job.available - job.read})
    IN  /\ pc = "read"
        /\ IF got = 0
           THEN pc' = "settle" /\ UNCHANGED job
           ELSE IF job.read + got > MaxRows
           THEN /\ job' = [job EXCEPT !.read = MaxRows, !.truncated = TRUE]
                /\ pc' = "settle"
           ELSE job' = [job EXCEPT !.read = @ + got] /\ UNCHANGED pc
        /\ UNCHANGED <<door, link, session, cache, names, met, late, answer, batch, renames, connections>>

\* A value that the transformer cannot canonicalise stops the job.
MaskFails ==
    /\ pc = "read" /\ job.available > 0
    /\ \E i \in DOMAIN job.decisions : job.decisions[i].action = "mask"
    /\ job' = [query |-> job.query, failure |-> "MASKING"]
    /\ pc' = "settle"
    /\ UNCHANGED <<door, link, session, cache, names, met, late, answer, batch, renames, connections>>

\* _settle: a transaction left open is rolled back, and a connection that
\* cannot be is closed, and its resolver dropped (one that the library closed
\* itself keeps it until somebody connects again); then the failure, if there was
\* one, goes on its way.  At the gateway the query ends here.
Settle ==
    /\ pc = "settle"
    /\ \E settled \in IF link = "dirty" THEN {"idle", "closed"}
                      ELSE IF link = "broken" THEN {"closed"} ELSE {link} :
           /\ link' = settled /\ cache' = IF link = "dirty" /\ settled = "closed" THEN <<>> ELSE cache
           /\ IF door # "worker"
              THEN IF job.failure = "none" THEN AuditedResult(job)
                   ELSE AuditedFailure(job.query, Categorize(job.failure))
              ELSE IF job.failure = "none"
              THEN pc' = "encode" /\ UNCHANGED <<job, answer>>
              ELSE Failed(job.failure, settled, late)
    /\ UNCHANGED <<door, session, names, met, late, batch, renames, connections>>

\* The result as the encoder is given it: one value for each column, a masked
\* one being text, in every row.
Typed(values) ==
    [columns |-> [i \in DOMAIN job.outputs |->
                     [name |-> [kind |-> "text", chars |-> 3, bytes |-> 3, bad |-> FALSE, bits |-> 0,
                                canonical |-> TRUE],
                      oid |-> job.oids[i]]],
     rows |-> [r \in 1 .. job.read |-> values],
     truncated |-> job.truncated, torn |-> FALSE]

Values == {v \in [DOMAIN job.outputs -> UNION {Cells[o] : o \in DOMAIN Cells}] :
             \A i \in DOMAIN v : v[i] \in Cells[job.oids[i]]}

\* The connection is looked at again, the result encoded, the connection looked
\* at once more, the baseline compared; only then does the frame go out.
Encode ==
    /\ pc = "encode"
    /\ \E values \in Values :
           LET encoded == EncodeResult(Typed(values), job.query, Limits) IN
           IF late \/ ~Healthy THEN Failed("CONNECTION", link, late)
           ELSE IF encoded.fault # "none" THEN Failed(encoded.fault, link, late)
           ELSE /\ pc' = "deliver"
                /\ job' = [query |-> job.query, available |-> job.available,
                           decisions |-> job.decisions, frame |-> encoded.frame]
                /\ UNCHANGED answer
    /\ UNCHANGED <<door, link, session, cache, names, met, late, batch, renames, connections>>

Deliver ==
    /\ pc = "deliver"
    /\ IF late \/ ~Healthy \/ ~SameSession
       THEN /\ answer' = [kind |-> "error", query |-> job.query]
            /\ pc' = "gone" /\ job' = NoJob
       ELSE /\ answer' = [kind |-> "frame", query |-> job.query, decisions |-> job.decisions,
                          available |-> job.available, frame |-> job.frame]
            /\ pc' = "idle" /\ job' = NoJob
    /\ UNCHANGED <<door, link, session, cache, names, met, late, batch, renames, connections>>

\* The child leaves its loop, the session is closed, the runtime is retired: the
\* adapter is closed with it, and nothing of its connection is left to another.
ChildEnds ==
    /\ pc = "gone" \/ (pc = "idle" /\ link # "none")
    /\ pc' = "idle" /\ link' = "none" /\ answer' = NoAnswer
    /\ session' = "base" /\ cache' = <<>> /\ met' = [k \in Keys |-> Unmet] /\ late' = FALSE
    /\ UNCHANGED <<door, names, job, batch, renames, connections>>

Next ==
    \/ \E k \in Keys : \E n \in Names[k] : RenameColumn(k, n)
    \/ DeadlinePasses \/ PeerGoes \/ Connect \/ ConnectFails
    \/ pc = "idle" /\ \E q \in Queries : StartJob(q) \/ QueryUnconnected(q) \/ QueryConnected(q)
    \/ Validate \/ ExecuteFails \/ ExecuteRuns \/ Describe \/ DescribeFails
    \/ ReadBatch \/ MaskFails \/ Settle \/ Encode \/ Deliver \/ ChildEnds

Spec == Init /\ [][Next]_vars
-----------------------------------------------------------------------------
Protected(name) == FirstMatch(Exceptions, {name}) = NoRule /\ FirstMatch(Rules, {name}) # NoRule

\* A column leaves in the clear only when nothing protected can be seen in it: the
\* column the server reports was not protected by the name it had when this very
\* connection first met it (the resolver asks once per connection, and where the
\* catalogue knew no such column it has no name to go by); and, whatever was
\* remembered and whatever has been renamed since, a query that names the columns
\* it reads shows none that it names by a protected name.
NothingProtectedInClear ==
    answer.kind \in {"frame", "result"} =>
        LET q == Text(answer.query) IN
        \A i \in DOMAIN q.result :
            answer.decisions[i].action # "mask" =>
                /\ q.result[i].key # NoKey /\ met[q.result[i].key] # NoName =>
                       ~Protected(met[q.result[i].key])
                /\ q.exact => \A b \in q.binds : b[1] \in q.result[i].carries => ~Protected(b[2])

\* A result that is sent is all there is, up to the limit, and says when there
\* is more; a worker computed it in a session nothing had altered, and goes on
\* to another job only in its baseline session with no transaction open.  At the
\* gateway the result can be serialised, says of each column whether it was
\* masked, and agrees with its audit record; an error agrees with its record too,
\* and puts the blame on the query exactly when the query is to blame (the tool
\* may fail to connect before it looks at it).
AnswersAreWhole ==
    /\ answer.kind = "frame" =>
           /\ answer.frame.rows = Min({answer.available, MaxRows})
           /\ answer.frame.flag = (answer.available > MaxRows)
           /\ Accepts(answer.frame, answer.query, Limits)
    /\ answer.kind = "result" =>
           /\ answer.returned.row_count = Min({answer.available, MaxRows})
           /\ answer.returned.truncated = (answer.available > MaxRows)
           /\ \A i \in DOMAIN answer.decisions :
                  /\ answer.returned.columns[i].masked = (answer.decisions[i].action = "mask")
                  /\ answer.returned.kinds[i] # "bytes"
           /\ answer.audit = QueryAudit("success", Min({answer.available, MaxRows}),
                                        answer.available > MaxRows, NoName)
    /\ answer.kind = "error" /\ door # "worker" =>
           /\ answer.audit = QueryAudit("failure", NoName, NoName, answer.category)
           /\ LET blamed == answer.category \in {"INVALID_QUERY", "QUERY_REJECTED"}
                  toBlame == Refusal(Text(answer.query)) # "none"
              IN  blamed = toBlame \/ (~blamed /\ door = "mcp" /\ link = "none")
    /\ door = "worker" =>
           /\ pc = "execute" => session = "base" /\ link \in {"idle", "severed"}
           /\ pc = "idle" /\ answer.kind # "none" => session = "base" /\ link \notin {"dirty", "broken"}
=============================================================================
