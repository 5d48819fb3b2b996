--------------------------- MODULE MCAdminConfig ---------------------------
(***************************************************************************)
(* AdminConfig for TLC.  A calm behaviour has queries, which may share a   *)
(* runtime, and no crash and no external edit.  The others have both and   *)
(* no query: an edit concerns none, and a crash ends every one.  Side by   *)
(* side, the directory of masking.yaml with two processes over it, and the *)
(* entry point that reads the settings, the document and the TLS files.    *)
(***************************************************************************)
EXTENDS AdminConfig, TLC

CONSTANTS Proc, Token, MaxDocs, MaxKills,   \* of ConfigFiles
          MaxSwaps                          \* of Startup

-----------------------------------------------------------------------------
(* The environments a process is started in: a good one for each plane,    *)
(* and others that differ from one of them in one or two settings.         *)

NoInt == [set |-> FALSE, plain |-> TRUE, n |-> 0]
Number(n) == [set |-> TRUE, plain |-> TRUE, n |-> n]
OddNumber == [set |-> TRUE, plain |-> FALSE, n |-> 1]

Rule(name, params, typed, preserve) ==
    [name |-> name, params |-> params, typed |-> typed, preserve |-> preserve]
GoodDocument ==
    [readable |-> TRUE, revision |-> 1, ruleIds |-> <<"r1", "r2">>, exceptionIds |-> <<"e1">>,
     timeout |-> 100, rows |-> 1000000,
     rules |-> <<Rule("hmac_sha256", {}, TRUE, TRUE),
                 Rule("random", {"strategy", "length"}, TRUE, FALSE)>>]
Documents ==
    {GoodDocument, [GoodDocument EXCEPT !.readable = FALSE],
     [GoodDocument EXCEPT !.ruleIds = <<"r1", "none">>],
     [GoodDocument EXCEPT !.revision = 0, !.ruleIds = <<"r1", "none">>],
     [GoodDocument EXCEPT !.ruleIds = <<"r1", "r1">>],
     [GoodDocument EXCEPT !.timeout = 99], [GoodDocument EXCEPT !.rows = 0]}
    \cup {[GoodDocument EXCEPT !.rules = rules] : rules \in
            {<<Rule("random", {"strategy", "length"}, TRUE, TRUE)>>,
             <<Rule("rot13", {}, TRUE, TRUE)>>,
             <<Rule("fixed", {"value", "length"}, TRUE, TRUE)>>,
             <<Rule("truncate", {"length"}, FALSE, TRUE)>>,
             <<Rule("regex", {"pattern", "replacement"}, TRUE, TRUE), Rule("md5", {}, TRUE, TRUE)>>}}

PgwireEnv ==
    [pgEnabled |-> TRUE, user |-> "good", password |-> TRUE, bind |-> "host", port |-> NoInt,
     cert |-> "path", key |-> "path", sessions |-> NoInt, idle |-> NoInt,
     adminEnabled |-> FALSE, token |-> "none", adminBind |-> "none", adminPort |-> NoInt,
     ui |-> FALSE, store |-> "none", anchor |-> "none", catalog |-> TRUE, dsn |-> TRUE,
     hmac |-> "long", document |-> GoodDocument]
AdminEnv ==
    [PgwireEnv EXCEPT !.pgEnabled = FALSE, !.adminEnabled = TRUE, !.token = "long", !.ui = TRUE]

Varied(e) ==
    {[e EXCEPT !.document = d] : d \in Documents}
    \cup {[e EXCEPT !.hmac = h] : h \in {"none", "short"}} \cup {[e EXCEPT !.dsn = FALSE]}
MCEnvironments ==
    Varied(PgwireEnv) \cup Varied(AdminEnv)
    \cup {[PgwireEnv EXCEPT !.bind = b, !.cert = c, !.key = c] :
            b \in {"none", "loopback", "public", "wildcard", "localhost", "host", "odd"}, c \in {"none", "path"}}
    \cup {[PgwireEnv EXCEPT !.cert = c] : c \in {"none", "bad"}}
    \cup {[PgwireEnv EXCEPT !.port = p] : p \in {Number(65535), Number(65536), OddNumber}}
    \cup {[PgwireEnv EXCEPT !.pgEnabled = FALSE], [PgwireEnv EXCEPT !.user = "bad"],
          [PgwireEnv EXCEPT !.password = FALSE], [PgwireEnv EXCEPT !.catalog = FALSE],
          [PgwireEnv EXCEPT !.sessions = Number(1000000000)], [PgwireEnv EXCEPT !.idle = Number(1)],
          [PgwireEnv EXCEPT !.anchor = "relative"], [PgwireEnv EXCEPT !.ui = TRUE],
          [PgwireEnv EXCEPT !.adminEnabled = TRUE, !.token = "long"]}
    \cup {[AdminEnv EXCEPT !.token = t] : t \in {"none", "short"}}
    \cup {[AdminEnv EXCEPT !.adminBind = b] : b \in {"localhost", "public"}}
    \cup {[AdminEnv EXCEPT !.adminPort = p] : p \in {Number(0), Number(65535), OddNumber}}
    \cup {[AdminEnv EXCEPT !.adminEnabled = FALSE]}

TlsFile(ino, time, leaf, good, valid) ==
    [ino |-> ino, time |-> time, leaf |-> leaf, good |-> good, valid |-> valid]
FirstCert == TlsFile(1, 1, "A", TRUE, TRUE)
MCCertFiles ==
    {FirstCert, TlsFile(1, 2, "B", TRUE, TRUE), TlsFile(3, 1, "B", FALSE, TRUE),
     TlsFile(4, 1, "B", TRUE, FALSE), TlsFile(5, 1, "none", TRUE, FALSE)}
FirstKey == TlsFile(11, 1, "A", TRUE, TRUE)
MCKeyFiles == {FirstKey, TlsFile(12, 1, "B", TRUE, TRUE)}
MCAnswers ==
    {<<>>, <<"public4">>, <<"public4", "public4">>, <<"public4", "public6">>, <<"loopback4">>,
     <<"public4", "odd">>, <<"wildcard">>}

-----------------------------------------------------------------------------
VARIABLES
    part,        \* "calm", "rough", "files" or "entry"
    fs, s, n,    \* of ConfigFiles
    env, cert, key, swaps, mainPc, tls, address, app, told, exit   \* of Startup

fileVars == <<fs, s, n>>
entryVars == <<env, cert, key, swaps, mainPc, tls, address, app, told, exit>>

Files == INSTANCE ConfigFiles
Entry == INSTANCE Startup WITH
    pc <- mainPc, Environments <- MCEnvironments, CertFiles <- MCCertFiles,
    KeyFiles <- MCKeyFiles, Answers <- MCAnswers

ASSUME FileConstants == Files!NamesAssumption
ASSUME EntryConstants == Entry!AnswersAssumption

PartsInit ==
    /\ Init /\ Files!Init
    /\ \/ /\ part \in {"calm", "rough", "files"}
          /\ env = 0 /\ cert = 0 /\ key = 0 /\ swaps = 0 /\ mainPc = 0 /\ tls = 0
          /\ address = 0 /\ app = 0 /\ told = 0 /\ exit = 0
       \/ part = "entry" /\ Entry!Init

PartsNext ==
    \/ part = "calm" /\ Next /\ UNCHANGED <<part, edits, crashes, fileVars, entryVars>>
    \/ part = "rough" /\ Next /\ UNCHANGED <<part, pc, fileVars, entryVars>>
    \/ part = "files" /\ Files!Next /\ UNCHANGED <<part, vars, entryVars>>
    \/ part = "entry" /\ Entry!Next /\ UNCHANGED <<part, vars, fileVars>>
    \/ part = "entry" /\ mainPc = "done" /\ UNCHANGED <<part, vars, fileVars, entryVars>>

Parts == PartsInit /\ [][PartsNext]_<<part, vars, fileVars, entryVars>>

(* Clients are only compared with one another. *)
Symmetry == Permutations(Admin)

(***************************************************************************)
(* DirectoryKept of ConfigFiles: whatever dies or fails, a write replaces  *)
(* the document its caller expected with a whole one, and neither orphans  *)
(* nor the backup are mistaken for anything else.                          *)
(***************************************************************************)
DirectoryKept == Files!DirectoryKept

(***************************************************************************)
(* StartupSound of Startup: a process that listens is safe to talk to, and *)
(* one that ends has closed its application, or says that it could not.    *)
(***************************************************************************)
StartupSound == part = "entry" => Entry!StartupSound
=============================================================================
