------------------------------ MODULE MCQuery ------------------------------
(***************************************************************************)
(* The query path for TLC.  Two columns, "cpf" (protected by name) and     *)
(* "nome", in one table; a policy of two rules and one exception; and one  *)
(* query for every form the analysis tells apart.  Side by side, the       *)
(* encoder and the validator of results over every small result and every  *)
(* single change of what was written; and the way of a target from its     *)
(* draft to the worker that queries it.                                    *)
(***************************************************************************)
EXTENDS QueryJob

CONSTANTS None, Raised, Builders, Workers, EnvKeys, Secrets, MaxSlots, MaxAddresses, MaxPayload,
          MaxChanges          \* of DatasourceTargets

VARIABLES
    part,       \* "job", "frames" or "targets"
    result, limits, frame,
    (* of DatasourceTargets *)
    dns, envKey, file, building, slots, children, published, worker, changes

targetVars == <<dns, envKey, file, building, slots, children, published, worker, changes>>
mcvars == <<part, result, limits, frame, vars, targetVars>>

MCFold == [n \in {"cpf", "CPF", "nome", "mail", "x", "y", "d", "t", "c", "s", "tipo_cpf",
                  "upper", "PG_READ_FILE", "pg_read_file", "dblink_exec", "pg_stats", "doc", Star}
             |-> IF n = "CPF" THEN "cpf" ELSE IF n = "PG_READ_FILE" THEN "pg_read_file" ELSE n]
MCWithin == {<<"cpf", "cpf">>, <<"cpf", "tipo_cpf">>, <<"mail", "mail">>}
MCStartsWith == [n \in {"upper", "pg_read_file", "dblink_exec"} |->
    IF n = "pg_read_file" THEN {"pg_"} ELSE IF n = "dblink_exec" THEN {"dblink"} ELSE {}]
MCRules == <<[pattern |-> "CPF", mode |-> "contains", case_sensitive |-> FALSE],
             [pattern |-> "mail", mode |-> "contains", case_sensitive |-> TRUE]>>
MCExceptions == <<[pattern |-> "tipo_cpf", mode |-> "exact", case_sensitive |-> FALSE]>>
MCFirstNames == [k \in Keys |-> IF k = 1 THEN "cpf" ELSE "nome"]
MCNames == [k \in Keys |-> IF k = 1 THEN {"doc"} ELSE {"mail"}]
MCLimits == [max_rows |-> 2, max_columns |-> 2, max_name_bytes |-> 4, max_cell_bytes |-> 3,
             max_frame_bytes |-> 160]

TextCell(n) == [kind |-> "text", chars |-> n, bytes |-> n, bad |-> FALSE, bits |-> 0, canonical |-> TRUE]
IntCell(b) == [kind |-> "int", chars |-> 2, bytes |-> 2, bad |-> FALSE, bits |-> b, canonical |-> TRUE]
MCCells == [o \in {23, 25} |-> IF o = 25 THEN {TextCell(2), TextCell(4)} ELSE {IntCell(30)}]

Col(name) == [name |-> NoName, refs |-> <<<<name>>>>, bare |-> TRUE]
As(name, refs) == [name |-> name, refs |-> refs, bare |-> Len(refs) = 1]
Plain(targets, relations, inner) ==
    [op |-> "none", targets |-> targets, relations |-> relations, inner |-> inner]
Node(kind, name) == [kind |-> kind, name |-> name]
Statement(root, nodes, select) == [root |-> root, nodes |-> nodes, select |-> select]
FromT == Node("RangeVar", "t")
Out(output, key, carries, oid) == [output |-> output, key |-> key, carries |-> carries, oid |-> oid]
Query(text, statements, binds, result_, exact) ==
    [text |-> text, parsed |-> TRUE, statements |-> statements, binds |-> binds, result |-> result_,
     alters |-> FALSE, exact |-> exact]
Select(text, nodes, select, binds, result_, exact) ==
    Query(text, <<Statement("SelectStmt", nodes, select)>>, binds, result_, exact)
Refused(text, root, nodes) ==
    Query(text, <<Statement(root, nodes, Plain(<<Col("nome")>>, {"t"}, <<>>))>>, {}, <<>>, TRUE)

StarOfT == Plain(<<Col(Star)>>, {"t"}, <<>>)
Inner == Plain(<<As("d", <<<<"t", "CPF">>>>)>>, {"t"}, <<>>)

MCQueries == {
    \* SELECT * FROM t
    Select("star", <<FromT>>, StarOfT, {},
           <<Out(NoName, 1, {1}, 25), Out(NoName, 2, {2}, 23)>>, FALSE),
    \* SELECT cpf AS x FROM t
    Select("alias", <<FromT>>, Plain(<<As("x", <<<<"cpf">>>>)>>, {"t"}, <<>>),
           {<<1, "cpf">>}, <<Out("x", 1, {1}, 25)>>, TRUE),
    \* SELECT upper(nome) AS x, upper(cpf) AS y FROM t, of a type the wire lacks
    Select("expression", <<Node("FuncCall", "upper"), FromT>>,
           Plain(<<As("x", <<<<"nome">>>>), As("y", <<<<"cpf">>>>)>>, {"t"}, <<>>),
           {<<1, "cpf">>, <<2, "nome">>}, <<Out("x", NoKey, {2}, 25), Out("y", NoKey, {1}, 114)>>, TRUE),
    \* WITH c AS (SELECT t.CPF AS d FROM t) SELECT upper(d) AS y FROM c
    Select("cte", <<Node("FuncCall", "upper"), FromT>>,
           Plain(<<As("y", <<<<"d">>>>)>>, {"c"}, <<Inner>>),
           {<<1, "cpf">>}, <<Out("y", NoKey, {1}, 25)>>, TRUE),
    \* SELECT nome FROM t UNION SELECT cpf FROM t
    Select("union", <<FromT>>,
           [op |-> "set", larg |-> Plain(<<Col("nome")>>, {"t"}, <<>>),
            rarg |-> Plain(<<Col("cpf")>>, {"t"}, <<>>), relations |-> {}, inner |-> <<>>],
           {<<1, "cpf">>, <<2, "nome">>}, <<Out("nome", NoKey, {1, 2}, 25)>>, TRUE),
    \* SELECT tipo_cpf FROM (SELECT * FROM t) AS s (tipo_cpf, y)
    Select("column_alias", <<FromT>>, Plain(<<Col("tipo_cpf")>>, {}, <<StarOfT>>),
           {}, <<Out("tipo_cpf", 1, {1}, 25)>>, FALSE),
    \* SELECT x FROM (SELECT * FROM t) AS s (y, x)
    Select("other_alias", <<FromT>>, Plain(<<Col("x")>>, {}, <<StarOfT>>),
           {}, <<Out("x", 2, {2}, 25)>>, FALSE),
    \* SELECT nome AS x FROM t, of type bytea
    Select("bytes", <<FromT>>, Plain(<<As("x", <<<<"nome">>>>)>>, {"t"}, <<>>),
           {<<2, "nome">>}, <<Out("x", 2, {2}, 17)>>, TRUE),
    \* SELECT t FROM t: a whole row
    Select("row", <<FromT>>, Plain(<<Col("t")>>, {"t"}, <<>>), {}, <<Out("t", NoKey, {1, 2}, 25)>>, TRUE),
    \* SELECT s FROM (SELECT t.CPF AS d FROM t) AS s: a whole row of a subquery
    Select("inner_row", <<FromT>>, Plain(<<Col("s")>>, {}, <<Inner>>),
           {<<1, "cpf">>}, <<Out("s", NoKey, {1}, 25)>>, FALSE),
    \* SELECT cpf || mail FROM t: two rules
    Select("two_rules", <<FromT>>, Plain(<<As("x", <<<<"cpf">>, <<"mail">>>>)>>, {"t"}, <<>>),
           {<<1, "cpf">>, <<2, "mail">>}, <<Out("x", NoKey, {1, 2}, 25)>>, TRUE),
    \* a function of the database's own that changes the session
    [Select("altering", <<Node("FuncCall", "upper"), FromT>>, Plain(<<Col("nome")>>, {"t"}, <<>>),
            {<<2, "nome">>}, <<Out("nome", 2, {2}, 25)>>, TRUE) EXCEPT !.alters = TRUE],
    [Query("broken", <<>>, {}, <<>>, TRUE) EXCEPT !.parsed = FALSE],
    Query("empty", <<>>, {}, <<>>, TRUE),
    Refused("insert", "InsertStmt", <<>>),
    Refused("locking", "SelectStmt", <<Node("LockingClause", NoName)>>),
    Refused("function", "SelectStmt", <<Node("FuncCall", "PG_READ_FILE")>>),
    Refused("family", "SelectStmt", <<Node("FuncCall", "dblink_exec")>>),
    Refused("statistics", "SelectStmt", <<Node("RangeVar", "pg_stats")>>) }

-----------------------------------------------------------------------------
(* Drafts of datasources, good and bad ones, and what a name resolves to.  *)

Host == [name |-> "db", form |-> "name", upper |-> FALSE]
OtherHost == [Host EXCEPT !.name = "other"]
Draft ==
    [host |-> Host, port |-> 5, tls |-> [mode |-> "verify-full", server |-> None], addresses |-> <<>>,
     limits |-> [timeout |-> 3, rows |-> 4, sessions |-> 2],
     destination |-> [public |-> TRUE, loopback |-> FALSE, hosts |-> <<OtherHost>>],
     policy |-> [rows |-> 6, timeout |-> 2, adopted |-> TRUE, named |-> TRUE, rules |-> 2, size |-> 1]]
RawAddress(kind, n, mapped) == [kind |-> kind, n |-> n, mapped |-> mapped]

MCDrafts ==
    {Draft,
     [Draft EXCEPT !.host.upper = TRUE, !.policy.rules = 0,
                   !.destination = [public |-> TRUE, loopback |-> TRUE, hosts |-> <<Host>>]],
     [Draft EXCEPT !.destination.public = FALSE, !.addresses = <<RawAddress("private", 1, FALSE)>>,
                   !.tls = [mode |-> "require", server |-> OtherHost], !.policy.rules = 1],
     [Draft EXCEPT !.host.form = "url"], [Draft EXCEPT !.policy.named = FALSE],
     [Draft EXCEPT !.destination.public = FALSE, !.policy.size = 9]}
MCResolutions ==
    {{RawAddress("private", 1, FALSE)},
     {RawAddress("private", 1, TRUE), RawAddress("private", 2, FALSE)},
     {RawAddress("private", 1, FALSE), RawAddress("metadata", 1, TRUE)},
     {RawAddress("public", 1, FALSE)}, {RawAddress("loopback", 1, FALSE)}, {},
     {RawAddress("garbage", 1, FALSE)}}

Targets == INSTANCE DatasourceTargets WITH
    Keys <- EnvKeys, key <- envKey, Drafts <- MCDrafts, Answers <- MCResolutions

-----------------------------------------------------------------------------
(* The encoder and the validator over every small result.                  *)

FrameCells == {Null, TextCell(0), TextCell(4), [TextCell(1) EXCEPT !.bad = TRUE],
               [TextCell(2) EXCEPT !.bytes = 4], TextCell(64),
               IntCell(16), IntCell(33), [IntCell(8) EXCEPT !.canonical = FALSE],
               [IntCell(64) EXCEPT !.bytes = 21, !.chars = 21],
               [kind |-> "bool", chars |-> 1, bytes |-> 1, bad |-> FALSE, bits |-> 0, canonical |-> TRUE]}
Columns == {[name |-> n, oid |-> o] : n \in {TextCell(1), TextCell(5)}, o \in {25, 19, 23, 16}}
Results ==
    UNION {{[columns |-> <<c>>, rows |-> r, truncated |-> t, torn |-> FALSE] :
                r \in {<<>>} \cup {<<<<v>>>> : v \in FrameCells} \cup {<<<<v>>, <<Null>>>> : v \in FrameCells},
                t \in BOOLEAN} : c \in Columns}
        \cup {[columns |-> <<>>, rows |-> <<>>, truncated |-> FALSE, torn |-> torn] : torn \in BOOLEAN}
FrameLimits == {[max_rows |-> r, max_columns |-> 1, max_name_bytes |-> 4, max_cell_bytes |-> m,
                 max_frame_bytes |-> f] : r \in {1, 2}, m \in {3, 70}, f \in {118, 128, 400}}

\* The value a reader takes a cell of the frame for, by its column's type.
Held(cell, oid) ==
    IF cell.kind = "null" \/ oid \notin TextOids THEN cell
    ELSE [cell EXCEPT !.kind = "text", !.bits = 0, !.canonical = TRUE]
HeldRows(f) ==
    [r \in DOMAIN f.data |-> [c \in DOMAIN f.data[r] |->
        IF c \in DOMAIN f.description THEN Held(f.data[r][c], f.description[c].oid) ELSE f.data[r][c]]]

Canonical(rows) == \A i \in DOMAIN rows : \A c \in DOMAIN rows[i] : rows[i][c].canonical

Idle == [result |-> <<>>]

MCInit ==
    /\ Init
    /\ \/ /\ part \in {"job", "frames"}
          /\ dns = 0 /\ envKey = 0 /\ file = 0 /\ building = 0 /\ slots = 0 /\ children = 0
          /\ published = 0 /\ worker = 0 /\ changes = 0
       \/ part = "targets" /\ Targets!Init
    /\ part # "job" => door = "worker"
    /\ (part # "job" \/ door # "worker") => batch = Min(BatchSizes)
    /\ result \in IF part = "frames" THEN Results ELSE {Idle}
    /\ limits \in IF part = "frames" THEN FrameLimits ELSE {Idle}
    /\ frame = Idle

WriteFrame ==
    /\ part = "frames" /\ frame = Idle
    /\ frame' = Written(result, "id")
    /\ UNCHANGED <<part, result, limits, vars, targetVars>>

\* One field of what was written changes on the way.
Changed(f) ==
    {[f EXCEPT !.identity = "other"], [f EXCEPT !.rows = @ + 1], [f EXCEPT !.body = @ + 1],
     [f EXCEPT !.length = @ + 1], [f EXCEPT !.length = @ + 1, !.body = @ + 1],
     [f EXCEPT !.flag = ~@], [f EXCEPT !.command = @ + 1], [f EXCEPT !.columns = @ + 1],
     [f EXCEPT !.version = 2], [f EXCEPT !.data = Append(@, <<Null>>)]}

ChangeFrame ==
    /\ part = "frames" /\ frame # Idle /\ frame = Written(result, "id")
    /\ frame' \in Changed(frame)
    /\ UNCHANGED <<part, result, limits, vars, targetVars>>

MCNext ==
    \/ WriteFrame \/ ChangeFrame
    \/ part = "job" /\ Next /\ UNCHANGED <<part, result, limits, frame, targetVars>>
    \/ part = "targets" /\ Targets!Next /\ UNCHANGED <<part, result, limits, frame, vars>>

MCSpec == MCInit /\ [][MCNext]_mcvars

\* The validator accepts a frame exactly when it is what the encoder writes for
\* the result it holds, that result passes the encoder's own preflight, and its
\* digits are canonical: what the encoder sends is never refused by its own last
\* check, and no frame that could not have been written is let through.
EncoderAndValidatorAgree ==
    (part = "frames" /\ frame # Idle) =>
        LET held == [columns |-> frame.description, rows |-> HeldRows(frame),
                     truncated |-> frame.flag, torn |-> FALSE]
        IN  Accepts(frame, "id", limits)
                <=> /\ [frame EXCEPT !.data = held.rows] = Written(held, "id")
                    /\ Preflight(held, limits) = "none"
                    /\ Canonical(held.rows)

\* Results are whole and true: what a job answers is the whole of what it read, from
\* an unaltered session, and the validator accepts exactly what the encoder writes.
ResultsAreTrue == AnswersAreWhole /\ EncoderAndValidatorAgree

\* TargetsSound of DatasourceTargets: a worker connects exactly to what was verified,
\* only to allowed addresses, and the resolver leaves nothing behind.
TargetsSound == part = "targets" => Targets!TargetsSound
=============================================================================
