--------------------------- MODULE DeploymentImage ---------------------------
(***************************************************************************)
(* The programs of deploy/ that run inside the image being made, each once *)
(* in a container of its own: oracle9_python_payload.py (finish, probe),   *)
(* oracle9_dependencies.py (resolve), oracle9_offline_install.py (install, *)
(* probe) and oracle9_w1_update.py (install, here "update", and probe).    *)
(* Each looks at what is there, acts once, looks again, and reports; a     *)
(* container may die anywhere, pip may do anything to the prefix, an       *)
(* import may write, and the image may be touched between two programs.  A *)
(* file is its content: 0 is absent, 1 and 2 are the versions the          *)
(* manifests name, 3 is anything else.                                     *)
(***************************************************************************)
EXTENDS Naturals, FiniteSets, Sequences, Functions

CONSTANTS MaxRuns, MaxTouches    \* containers, and interventions between them

VARIABLES
  image,    \* the operating system below: packages, accounts, files of the bundle
  prefix,   \* /opt/maskgw/venv
  inputs,   \* the directory of inputs of install or update
  att,      \* the attestations oracle9-installed and oracle9-w1-installed
  run       \* the program in the container

vars == <<image, prefix, inputs, att, run>>

Base == {"pip", "pth"}
Generated == {"script", "record"}
Path == Base \cup Generated \cup {"dep", "app", "added", "stray"}
\* The two manifests: the files whose bytes they pin.
Origin == [p \in {"dep", "app"} |-> 1]
Target == [p \in {"dep", "app", "added"} |-> IF p = "app" THEN 2 ELSE 1]
Prefix(m) == [p \in Path |-> IF p \in Base \cup Generated THEN 1 ELSE IF p \in DOMAIN m THEN m[p] ELSE 0]
BasePrefix == [p \in Path |-> IF p \in Base THEN 1 ELSE 0]
\* An attestation is absent, cut short by a death, or whole.
NoAtt == [snapshot |-> BasePrefix, base |-> BasePrefix, state |-> "absent"]
Idle == [prog |-> "none", pc |-> "idle", before |-> BasePrefix, after |-> BasePrefix, asked |-> 0, rows |-> <<>>]
GoodImage == [packages |-> "expected", aux |-> "absent", verify |-> "same", cache |-> TRUE, etc |-> TRUE,
              lib64 |-> TRUE, priv |-> FALSE, unowned |-> FALSE, passwd |-> 0, group |-> 0,
              rpms |-> "all", log |-> "there", report |-> "none", runs |-> 0, touches |-> 0]
Images ==
  {GoodImage} \cup {[GoodImage EXCEPT !.aux = x] : x \in {"owned", "unowned", "odd"}}
  \cup {[GoodImage EXCEPT !.verify = x] : x \in {"restored", "odd", "other"}}
  \cup {[GoodImage EXCEPT !.packages = x] : x \in {"twice", "other"}}
  \cup {[GoodImage EXCEPT !.rpms = "odd"], [GoodImage EXCEPT !.log = "none"], [GoodImage EXCEPT !.log = "odd"],
        [GoodImage EXCEPT !.cache = FALSE], [GoodImage EXCEPT !.etc = FALSE],
        [GoodImage EXCEPT !.lib64 = FALSE], [GoodImage EXCEPT !.priv = TRUE], [GoodImage EXCEPT !.unowned = TRUE],
        [GoodImage EXCEPT !.report = "written", !.rpms = "gone", !.log = "none", !.passwd = 1, !.group = 1]}
Init ==
  /\ image \in Images /\ prefix = BasePrefix /\ inputs = "origin"
  /\ att = [w |-> NoAtt, o |-> NoAtt] /\ run = Idle

In(prog, pc) == run.prog = prog /\ run.pc = pc
Need(ok, next) == run' = [run EXCEPT !.pc = IF ok THEN next ELSE "refused"]
Report == run' = [run EXCEPT !.pc = "reported"]
ImagePrograms == {"finish", "probe0", "resolve", "install", "probe1", "update", "probe2"}
Prepare(prog) ==
  run.pc = "idle" /\ image.runs < MaxRuns /\ image' = [image EXCEPT !.runs = @ + 1]
  /\ run' = [Idle EXCEPT !.prog = prog, !.pc = "start"]
\* A container is made from the image before it, with its inputs in place.
Begin(prog) ==
  /\ prog \notin {"finish", "probe0"} => image.report = "written"
  /\ Prepare(prog) /\ UNCHANGED <<prefix, att>>
  /\ inputs' = IF prog = "update" /\ inputs = "none" THEN "target" ELSE inputs

-----------------------------------------------------------------------------
(* oracle9_python_payload.finish *)

\* inventory: no package and no key is there twice.
Inventory == image.packages # "twice"
\* Packages, keys and the release file: everything that was there still is.
FinishPackages ==
  In("finish", "start") /\ Need(Inventory /\ image.packages = "expected", "aux") /\ UNCHANGED <<image, prefix, inputs, att>>
\* handle_aux_cache: a cache nobody owns is removed, one of glibc is kept.
HandleAuxCache ==
  /\ In("finish", "aux") /\ UNCHANGED <<prefix, inputs, att>> /\ Need(image.aux # "odd", "verify")
  /\ image' = IF image.aux = "unowned" THEN [image EXCEPT !.aux = "absent"] ELSE image
\* validate_directory_facts: a directory that came back is a real one, of root, and closed.
ValidateDirectoryFacts == image.verify # "odd"
\* compare_verification: nothing changed, or exactly the three directories came back.
CompareVerification ==
  /\ In("finish", "verify") /\ UNCHANGED <<image, prefix, inputs, att>>
  /\ Need(image.verify = "same" \/ (image.verify # "other" /\ ValidateDirectoryFacts), "cache")
AttestLinkerCache ==
  In("finish", "cache") /\ Need(image.cache, "passwd") /\ UNCHANGED <<image, prefix, inputs, att>>
\* The two literal lines: each file is still the original.
AppendAccount(file, next) ==
  /\ In("finish", file) /\ Need(image[file] = 0, next) /\ UNCHANGED <<prefix, inputs, att>>
  /\ image' = IF image[file] = 0 THEN [image EXCEPT ![file] = 1] ELSE image
CheckEtc == In("finish", "etc") /\ Need(image.etc, "bundle") /\ UNCHANGED <<image, prefix, inputs, att>>
\* The files of the bundle go one by one, each only as a regular file with its hash.
RemoveBundle ==
  /\ In("finish", "bundle") /\ UNCHANGED <<prefix, inputs, att>>
  /\ \/ image.rpms = "all" /\ image' = [image EXCEPT !.rpms = "some"] /\ UNCHANGED run
     \/ image.rpms = "some" /\ image' = [image EXCEPT !.rpms = "gone"] /\ Need(TRUE, "logs")
     \/ image.rpms \in {"odd", "gone"} /\ Need(FALSE, "logs") /\ UNCHANGED image
\* A log that the installation made goes too, unless it is no file of a small size.
RemoveLogs ==
  /\ In("finish", "logs") /\ UNCHANGED <<prefix, inputs, att>> /\ Need(image.log # "odd", "lib64")
  /\ image' = IF image.log = "there" THEN [image EXCEPT !.log = "none"] ELSE image
\* attest_lib64: the alias is what it was and both names are one file.
AttestLib64 == In("finish", "lib64") /\ Need(image.lib64, "priv") /\ UNCHANGED <<image, prefix, inputs, att>>
CheckPrivileges == In("finish", "priv") /\ Need(~image.priv, "unowned") /\ UNCHANGED <<image, prefix, inputs, att>>
RequireOwned == In("finish", "unowned") /\ Need(~image.unowned, "write") /\ UNCHANGED <<image, prefix, inputs, att>>
\* The report is written first and validated then.
WriteReport ==
  In("finish", "write") /\ image' = [image EXCEPT !.report = "written"] /\ Need(TRUE, "validate") /\ UNCHANGED <<prefix, inputs, att>>
\* validate_runtime_report, with validate_verification_report and the facts.
ReportHolds == image.report = "written"
ValidateReport == In("finish", "validate") /\ Need(ReportHolds, "reported") /\ UNCHANGED <<image, prefix, inputs, att>>
ProbePython ==
  In("probe0", "start") /\ Need(ReportHolds /\ image.passwd = 1 /\ image.group = 1, "reported") /\ UNCHANGED <<image, prefix, inputs, att>>

-----------------------------------------------------------------------------
(* oracle9_dependencies.native: pip resolves, without installing *)

Glibc == 34
\* The constraints pin a version each, the requirements are the roots; "b" is a dependency.
Pin(name, version) == [name |-> name, version |-> version]
Asked == [constraints |-> <<Pin("a", 1), Pin("c", 1)>>, roots |-> <<"a">>]
AskedFor == {Asked, [Asked EXCEPT !.constraints = <<Pin("a", 1), Pin("a", 2)>>],
             [Asked EXCEPT !.roots = <<"b">>], [Asked EXCEPT !.roots = <<"a", "a">>]}
Pinned(asked) == {asked.constraints[i].name : i \in DOMAIN asked.constraints}
Roots(asked) == {asked.roots[i] : i \in DOMAIN asked.roots}
\* validate_inputs: one pin for each name, and the roots are pinned names, once each.
ValidateInputs(asked) ==
  /\ Cardinality(Pinned(asked)) = Len(asked.constraints)
  /\ IsInjective(asked.roots) /\ Roots(asked) \subseteq Pinned(asked)
\* wheel_filename: a pure wheel, or one for this interpreter and no newer C library;
\* the name says which package it is of.
Wheel(name, version, tag) == [name |-> name, version |-> version, tag |-> tag]
Pure == [python |-> 3, abi |-> "none", glibc |-> 0]
Native(python, abi, glibc) == [python |-> python, abi |-> abi, glibc |-> glibc]
Fits(wheel, name, version) ==
  /\ wheel.name = name /\ wheel.version = version
  /\ \/ wheel.tag = Pure
     \/ /\ wheel.tag.glibc <= Glibc
        /\ (wheel.tag.abi = "cp311" /\ wheel.tag.python = 311) \/ (wheel.tag.abi = "abi3" /\ wheel.tag.python <= 311)
\* project_report: one row for each package and file, as pinned, asked for and runnable.
ProjectReport(asked, rows) ==
  /\ ValidateInputs(asked) /\ rows # <<>>
  /\ \A i, j \in DOMAIN rows : i # j => rows[i].name # rows[j].name /\ rows[i].wheel # rows[j].wheel
  /\ \A i \in DOMAIN rows :
       /\ \A k \in DOMAIN asked.constraints :
            asked.constraints[k].name = rows[i].name => asked.constraints[k].version = rows[i].version
       /\ rows[i].requested = (rows[i].name \in Roots(asked))
       /\ Fits(rows[i].wheel, rows[i].name, rows[i].version)
  /\ Pinned(asked) \subseteq {rows[i].name : i \in DOMAIN rows}
Row(name, version, requested, tag) ==
  [name |-> name, version |-> version, requested |-> requested, wheel |-> Wheel(name, version, tag)]
Resolved == <<Row("a", 1, TRUE, Native(311, "cp311", 34)), Row("b", 2, FALSE, Pure), Row("c", 1, FALSE, Native(38, "abi3", 17))>>
PipReports ==
  {Resolved, <<>>, SubSeq(Resolved, 1, 2), Resolved \o <<Row("b", 1, FALSE, Native(311, "cp311", 17))>>}
  \cup {[Resolved EXCEPT ![i].version = 3 - @] : i \in 1..3} \cup {[Resolved EXCEPT ![i].requested = ~@] : i \in 1..3}
  \cup {[Resolved EXCEPT ![1] = Row("a", 2, TRUE, Pure)], [Resolved EXCEPT ![2].wheel = Resolved[1].wheel]}
  \cup {[Resolved EXCEPT ![3].wheel.tag = t] : t \in {Native(311, "cp311", 35), Native(312, "abi3", 17), Native(312, "cp311", 17)}}
\* The user, the interpreter, no configuration of pip and the certificates, after the inputs.
ResolveAdmits ==
  /\ In("resolve", "start") /\ UNCHANGED <<image, prefix, inputs, att>>
  /\ \E asked \in AskedFor :
       \/ run' = [run EXCEPT !.asked = asked, !.pc = IF ValidateInputs(asked) THEN "dry_run" ELSE "refused"]
       \/ run' = [run EXCEPT !.asked = asked, !.pc = "refused"]
\* pip fails, is late, says too much, or leaves a report of whatever it found.
ResolveRuns ==
  /\ In("resolve", "dry_run") /\ UNCHANGED <<image, prefix, inputs, att>>
  /\ Need(FALSE, "project") \/ \E rows \in PipReports : run' = [run EXCEPT !.pc = "project", !.rows = rows]
\* The packet holds the projection and the raw report, and is validated as its reader will.
ValidatePacket(asked, rows) == ProjectReport(asked, rows)
ResolveReports ==
  /\ In("resolve", "project") /\ UNCHANGED <<image, prefix, inputs, att>>
  /\ \/ Need(ProjectReport(run.asked, run.rows) /\ ValidatePacket(run.asked, run.rows), "reported")
     \/ Need(FALSE, "reported")

-----------------------------------------------------------------------------
(* What install, update and their probes share *)

\* runtime_profile: user, limits, capabilities, cgroup, network, mounts.
Profile(prog, next, ok) ==
  In(prog, "start") /\ (Need(ok, next) \/ Need(FALSE, next)) /\ UNCHANGED <<image, prefix, inputs, att>>
\* verify_record: the rows of RECORD are the files and their hashes.
VerifyRecord(after) == after["record"] # 0 /\ after["script"] = after["record"]
\* verify_install: pinned bytes, base untouched, nothing more and nothing less.
VerifyInstall(m, before, after) ==
  /\ \A p \in DOMAIN m \cup Generated : before[p] = 0
  /\ \A p \in DOMAIN m : after[p] = m[p]
  /\ \A p \in Path : before[p] # 0 => after[p] = before[p]
  /\ {p \in Path : after[p] # 0} = {p \in Path : before[p] # 0} \cup DOMAIN m \cup Generated
  /\ VerifyRecord(after)
\* run_pip: the child ends well, ends badly, or is killed for its time or its output.
\* Whatever the log says, the prefix may hold something else.
Over(m, found) == [p \in Path |-> IF p \in DOMAIN m THEN m[p] ELSE IF p \in Generated THEN 1 ELSE found[p]]
PipLeaves(m, found) == {Over(m, found)} \cup {[Over(m, found) EXCEPT ![p] = x] : p \in Path, x \in {0, 3}}
Pip(prog, m, next) ==
  /\ In(prog, "pip") /\ prefix' \in PipLeaves(m, prefix) \cup {prefix} /\ UNCHANGED <<image, inputs, att>>
  /\ Need(TRUE, next) \/ Need(FALSE, next)
PipCheck(prog, next) ==
  /\ In(prog, "check") /\ (Need(TRUE, next) \/ Need(FALSE, next)) /\ UNCHANGED <<image, prefix, inputs, att>>
\* imports_and_native: code of the prefix runs, and may write into it.
Imports(prog, readonly) ==
  /\ In(prog, "imports") /\ UNCHANGED <<image, inputs, att>> /\ (Need(TRUE, "rescan") \/ Need(FALSE, "rescan"))
  /\ prefix' \in IF readonly THEN {prefix} ELSE {prefix, [prefix EXCEPT !["stray"] = 3]}
\* The inputs: names, hashes, owners; anything more or less is refused.
LoadInputs(kind) == inputs = kind
\* They are validated again, then removed one after the other.
Cleanup(prog, kind) ==
  /\ In(prog, "cleanup") /\ UNCHANGED <<image, prefix, att>> /\ Need(LoadInputs(kind), "removing")
  /\ inputs' = IF LoadInputs(kind) THEN "partial" ELSE inputs
Removed(prog) == In(prog, "removing") /\ inputs' = "none" /\ Report /\ UNCHANGED <<image, prefix, att>>

-----------------------------------------------------------------------------
(* oracle9_offline_install: install and probe *)

\* write_new: a new file is opened, written with both snapshots and synchronised; a
\* death in between leaves it cut short.
Opened(a) == [a EXCEPT !.state = "cut"]
Attested == [snapshot |-> run.after, base |-> IF run.prog = "install" THEN run.before ELSE att.o.base, state |-> "whole"]
WriteAttestation(prog, a) ==
  In(prog, "attest") /\ att' = [att EXCEPT ![a] = Attested] /\ Need(TRUE, "cleanup") /\ UNCHANGED <<image, prefix, inputs>>
InstallAdmits == Profile("install", "base", att.o.state = "absent" /\ LoadInputs("origin"))
\* The distributions are the tools of the base, and no script of the manifest is there;
\* any other file that is found there counts as the base.  The version of a tool, or
\* the link lib64, may be wrong.
BaseTools == prefix["pip"] # 0 /\ prefix["pth"] # 0 /\ prefix["record"] = 0 /\ prefix["script"] = 0
InstallBase ==
  /\ In("install", "base") /\ UNCHANGED <<image, prefix, inputs, att>>
  /\ \/ BaseTools /\ run' = [run EXCEPT !.pc = "pip", !.before = prefix]
     \/ Need(FALSE, "pip")
InstallVerifies ==
  /\ In("install", "verify") /\ UNCHANGED <<image, prefix, inputs, att>>
  /\ run' = IF VerifyInstall(Origin, run.before, prefix) THEN [run EXCEPT !.pc = "imports", !.after = prefix]
            ELSE [run EXCEPT !.pc = "refused"]
\* Faulty variant of InstallAttests: the prefix is not scanned again after the imports.
InstallAttestsEarly ==
  /\ In("install", "rescan") /\ UNCHANGED <<image, prefix, inputs>>
  /\ Need(TRUE, "attest") /\ att' = [att EXCEPT !.o = Opened(@)]
InstallAttests ==
  /\ In("install", "rescan") /\ UNCHANGED <<image, prefix, inputs>>
  /\ Need(prefix = run.after, "attest")
  /\ att' = IF prefix = run.after THEN [att EXCEPT !.o = Opened(@)] ELSE att
ProbeInstalled ==
  /\ In("probe1", "start") /\ UNCHANGED <<image, prefix, inputs, att>>
  /\ \/ /\ att.o.state = "whole" /\ prefix = att.o.snapshot /\ VerifyInstall(Origin, att.o.base, prefix)
        /\ run' = [run EXCEPT !.pc = "check", !.after = prefix]
     \/ Need(FALSE, "check")
ProbeReports(prog) ==
  In(prog, "rescan") /\ Need(prefix = run.after, "reported") /\ UNCHANGED <<image, prefix, inputs, att>>

-----------------------------------------------------------------------------
(* oracle9_w1_update: install and probe *)

\* read_old: the attestation of the origin is the pinned one.
ReadOld == att.o = [snapshot |-> Prefix(Origin), base |-> BasePrefix, state |-> "whole"]
\* validate_manifest: the target is the origin with the delta of the application.
ValidateManifest == Target = [p \in DOMAIN Origin \cup {"added"} |->
                                IF p \in {"app", "added"} THEN Target[p] ELSE Origin[p]]
LoadContext == LoadInputs("target") /\ ReadOld /\ ValidateManifest
\* check_delta: only files of the application changed, and exactly those announced.
CheckDelta(before, after) ==
  /\ {p \in Path : before[p] = 0 /\ after[p] # 0} = {"added"} /\ \A p \in Path : before[p] # 0 => after[p] # 0
  /\ {p \in Path : before[p] # 0 /\ before[p] # after[p]} = {"app"}
UpdateAdmits == Profile("update", "base", att.w.state = "absent" /\ LoadContext)
UpdateBase ==
  /\ In("update", "base") /\ UNCHANGED <<image, prefix, inputs, att>>
  /\ run' = IF prefix = att.o.snapshot /\ VerifyInstall(Origin, BasePrefix, prefix)
            THEN [run EXCEPT !.pc = "pip", !.before = prefix] ELSE [run EXCEPT !.pc = "refused"]
UpdateVerifies ==
  /\ In("update", "verify") /\ UNCHANGED <<image, prefix, inputs, att>>
  /\ run' = IF VerifyInstall(Target, BasePrefix, prefix) /\ CheckDelta(run.before, prefix)
            THEN [run EXCEPT !.pc = "imports", !.after = prefix] ELSE [run EXCEPT !.pc = "refused"]
\* w1_imports: the modules loaded are the files of the projection.
W1Imports(after) == after["app"] = Target["app"] /\ after["added"] = Target["added"]
UpdateAttests ==
  /\ In("update", "rescan") /\ UNCHANGED <<image, prefix, inputs>>
  /\ LET ok == W1Imports(prefix) /\ prefix = run.after /\ ReadOld IN
     /\ Need(ok, "attest")
     /\ att' = IF ok THEN [att EXCEPT !.w = Opened(@)] ELSE att
ProbeUpdated ==
  /\ In("probe2", "start") /\ UNCHANGED <<image, prefix, inputs, att>>
  /\ \/ /\ att.w.state = "whole" /\ prefix = att.w.snapshot /\ VerifyInstall(Target, BasePrefix, prefix)
        /\ CheckDelta(Prefix(Origin), prefix) /\ run' = [run EXCEPT !.pc = "check", !.after = prefix]
     \/ Need(FALSE, "check")

-----------------------------------------------------------------------------
(* The end of a container, and what happens between two *)

\* A refusal prints its phase and the logs; a report prints the outcome.
Ends == run.pc \in {"refused", "reported"} /\ run' = Idle /\ UNCHANGED <<image, prefix, inputs, att>>
Dies == run.pc \notin {"idle", "refused", "reported"} /\ run' = Idle /\ UNCHANGED <<image, prefix, inputs, att>>
Touch ==
  /\ run.pc = "idle" /\ image.touches < MaxTouches /\ UNCHANGED <<att, run>>
  /\ image' = [image EXCEPT !.touches = @ + 1]
  /\ \/ \E p \in Path, x \in {0, 2, 3} : prefix[p] # x /\ prefix' = [prefix EXCEPT ![p] = x] /\ UNCHANGED inputs
     \/ inputs' = "partial" /\ UNCHANGED prefix

Next ==
  \/ \E prog \in ImagePrograms : Begin(prog)
  \/ FinishPackages \/ HandleAuxCache \/ CompareVerification \/ AttestLinkerCache
  \/ AppendAccount("passwd", "group") \/ AppendAccount("group", "etc") \/ CheckEtc \/ RemoveBundle \/ RemoveLogs
  \/ AttestLib64 \/ CheckPrivileges \/ RequireOwned \/ WriteReport \/ ValidateReport \/ ProbePython
  \/ ResolveAdmits \/ ResolveRuns \/ ResolveReports
  \/ InstallAdmits \/ InstallBase \/ Pip("install", Origin, "check") \/ PipCheck("install", "verify")
  \/ InstallVerifies \/ Imports("install", FALSE) \/ InstallAttests \/ WriteAttestation("install", "o")
  \/ Cleanup("install", "origin") \/ Removed("install")
  \/ ProbeInstalled \/ PipCheck("probe1", "imports") \/ Imports("probe1", TRUE) \/ ProbeReports("probe1")
  \/ UpdateAdmits \/ UpdateBase \/ Pip("update", Target, "check") \/ PipCheck("update", "verify")
  \/ UpdateVerifies \/ Imports("update", FALSE) \/ UpdateAttests \/ WriteAttestation("update", "w")
  \/ Cleanup("update", "target") \/ Removed("update")
  \/ ProbeUpdated \/ PipCheck("probe2", "imports") \/ Imports("probe2", TRUE) \/ ProbeReports("probe2")
  \/ Ends \/ Dies \/ Touch
Spec == Init /\ [][Next]_vars

-----------------------------------------------------------------------------
Holds(m, base) ==
  /\ \A p \in Path : prefix[p] = CASE p \in DOMAIN m -> m[p] [] p \in Generated -> prefix["record"] [] OTHER -> base[p]
  /\ \A p \in DOMAIN m \cup Generated : base[p] = 0

\* What was resolved installs: each package once, the pinned ones at their version, and
\* every wheel of it runs on this interpreter and its C library.
Installable(asked, rows) ==
  /\ \A k \in DOMAIN asked.constraints :
       Cardinality({i \in DOMAIN rows : rows[i].wheel.name = asked.constraints[k].name
                                        /\ rows[i].wheel.version = asked.constraints[k].version}) = 1
  /\ \A i \in DOMAIN rows : rows[i].wheel.tag.glibc <= Glibc /\ rows[i].wheel.tag.python <= 311
  /\ Cardinality({rows[i].wheel.name : i \in DOMAIN rows}) = Len(rows)

\* Whatever pip, an import, a death or a hand in between did, a program that
\* reports tells the truth about the image: finish has appended each account
\* once and left no file of the bundle, no unowned cache and no unowned or
\* privileged path; resolve has a set that can be installed; install leaves
\* exactly the pinned files, none of which was there before, over what it found there
\* (whatever that was), untouched, attests the two as they are and leaves none of its
\* inputs; update does so only over the one pinned attestation, so that no other file
\* is there; a probe has seen the prefix that was attested.
ReportedIsTrue ==
  run.pc = "reported" =>
    CASE run.prog = "finish" ->
           /\ image.passwd = 1 /\ image.group = 1 /\ image.rpms = "gone" /\ image.log = "none" /\ image.aux \in {"absent", "owned"}
           /\ ~image.unowned /\ ~image.priv /\ image.etc
      [] run.prog = "probe0" -> image.passwd = 1 /\ image.group = 1
      [] run.prog = "resolve" -> Installable(run.asked, run.rows)
      [] run.prog = "install" -> Holds(Origin, run.before) /\ att.o = [snapshot |-> prefix, base |-> run.before, state |-> "whole"] /\ inputs = "none"
      [] run.prog = "probe1" -> Holds(Origin, att.o.base) /\ prefix = att.o.snapshot
      [] run.prog = "update" ->
           prefix = Prefix(Target) /\ att.w.snapshot = prefix /\ inputs = "none" /\ att.o.snapshot = Prefix(Origin)
      [] OTHER -> prefix = Prefix(Target)
=============================================================================
