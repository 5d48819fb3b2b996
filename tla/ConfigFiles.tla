----------------------------- MODULE ConfigFiles -----------------------------
(***************************************************************************)
(* The configuration directory as several processes see it,                *)
(* maskgw/config/filesystem.py.  AdminConfig takes the store of one        *)
(* process for granted; here is how a store is opened, who holds the lock  *)
(* file, how a snapshot is read, and what the temporaries and backups of   *)
(* one process look like to the next one.  Processes die anywhere, calls   *)
(* of the operating system fail, and people who ignore the lock put other  *)
(* objects at the names.  A document is a number, and so is its digest.    *)
(***************************************************************************)
EXTENDS Naturals, FiniteSets

CONSTANTS
  Proc,      \* processes of the gateway over one configuration
  Token,     \* tokens in the names of temporaries
  MaxDocs,   \* documents ever written
  MaxEdits,  \* interventions from outside
  MaxKills   \* processes that die

VARIABLES
  fs,    \* objects of the directory: config, lock, backup, temporaries
  s,     \* the processes
  n      \* documents, edits and kills so far; the backup acknowledged

vars == <<fs, s, n>>

\* No process and no token is what stands for nobody and for nothing.
NamesAssumption == "nobody" \notin Proc /\ "none" \notin Token

NoFile == [kind |-> "none", doc |-> 0, whole |-> FALSE]
File(doc, whole) == [kind |-> "file", doc |-> doc, whole |-> whole]
Link == [kind |-> "link", doc |-> 0, whole |-> FALSE]
Down == [pc |-> "down", ino |-> 0, ret |-> "none", expected |-> 0, doc |-> 0, token |-> "none",
         names |-> {}, raced |-> FALSE, left |-> FALSE, answer |-> "none"]
Init ==
  /\ fs = [config |-> File(1, TRUE), ino |-> 1, safe |-> TRUE, lock |-> "none", byte |-> FALSE, holder |-> "nobody",
           backup |-> NoFile, temps |-> [t \in Token |-> NoFile]]
  /\ s = [p \in Proc |-> Down]
  /\ n = [doc |-> 1, edits |-> 0, kills |-> 0, acked |-> 0]

At(p, pc) == s[p].pc = pc
Go(p, pc) == s' = [s EXCEPT ![p].pc = pc]
Held(p) == fs.holder = p
Unlocked(p) == IF Held(p) THEN [fs EXCEPT !.holder = "nobody"] ELSE fs

-----------------------------------------------------------------------------
(* ConfigFileStore.open *)

\* Whatever open raises, the descriptor of the lock is closed first.
OpenRaises(p) == s' = [s EXCEPT ![p] = [Down EXCEPT !.answer = "refused"]] /\ fs' = Unlocked(p)
\* _validate_parent and the first look at the configuration.
Open(p) ==
  /\ At(p, "down") /\ UNCHANGED n
  /\ IF fs.config.kind # "file" \/ ~fs.safe THEN OpenRaises(p)
     ELSE s' = [s EXCEPT ![p] = [Down EXCEPT !.pc = "lock"]] /\ UNCHANGED fs
\* _create_lock_file: only one process creates it.
CreateLock(p) ==
  /\ At(p, "lock") /\ UNCHANGED n
  /\ \/ /\ fs.lock = "none"
        /\ fs' = [fs EXCEPT !.lock = "file", !.byte = FALSE] /\ Go(p, "byte")
     \/ fs.lock # "none" /\ Go(p, "existing") /\ UNCHANGED fs
     \/ OpenRaises(p)
\* _open_existing_lock: a private regular file, the same before and after the open.
OpenExistingLock(p) ==
  /\ At(p, "existing") /\ UNCHANGED n
  /\ \/ fs.lock = "file" /\ Go(p, "byte") /\ UNCHANGED fs
     \/ OpenRaises(p)
\* The byte that Windows locks; one that a killed creator left out is put in here.
EnsureLockByte(p) ==
  /\ At(p, "byte") /\ UNCHANGED n
  /\ \/ fs' = [fs EXCEPT !.byte = TRUE] /\ Go(p, "acquire")
     \/ OpenRaises(p)
\* Faulty variant of AcquireLock: an unavailable lock is only reported.
AcquireLockAnyway(p) ==
  /\ At(p, "acquire") /\ UNCHANGED n
  /\ fs' = [fs EXCEPT !.holder = p] /\ Go(p, "scan")
AcquireLock(p) ==
  /\ At(p, "acquire") /\ UNCHANGED n
  /\ \/ fs.holder = "nobody" /\ fs' = [fs EXCEPT !.holder = p] /\ Go(p, "scan")
     \/ OpenRaises(p)
\* cleanup_orphaned_temps: the names are listed once, then looked at one by one.
ScanTemps(p) ==
  /\ At(p, "scan") /\ UNCHANGED n
  /\ \/ /\ s' = [s EXCEPT ![p].pc = "cleanup", ![p].names = {t \in Token : fs.temps[t].kind # "none"}]
        /\ UNCHANGED fs
     \/ OpenRaises(p)
\* Links and directories at a managed name are left; a file that stays is an error.
CleanupOrphan(p) ==
  /\ At(p, "cleanup") /\ UNCHANGED n
  /\ IF s[p].names = {} THEN s' = [s EXCEPT ![p].pc = "stat", ![p].ret = "opened"] /\ UNCHANGED fs
     ELSE \E t \in s[p].names :
       \/ /\ s' = [s EXCEPT ![p].names = @ \ {t}]
          /\ fs' = IF fs.temps[t].kind = "file" THEN [fs EXCEPT !.temps[t] = NoFile] ELSE fs
       \/ fs.temps[t].kind = "file" /\ OpenRaises(p)

-----------------------------------------------------------------------------
(* read_snapshot, from open and from both checks of write_atomic *)

\* _unlink_regular_temp, which may fail; only a regular file is removed.
UnlinkTemp(p, t) ==
  IF fs.temps[t].kind # "file" THEN {fs}
  ELSE {[fs EXCEPT !.temps[t] = NoFile], fs}
\* The operation of p is over; a temporary that could not be removed is remembered.
Answer(p, a) ==
  s' = [s EXCEPT ![p] = [Down EXCEPT !.pc = "up", !.answer = a,
        !.left = s[p].left \/ (s[p].token # "none" /\ fs'.temps[s[p].token].kind = "file")]]
Fails(p, a) ==
  /\ fs' \in IF s[p].token = "none" THEN {fs} ELSE UnlinkTemp(p, s[p].token)
  /\ Answer(p, a)
SnapshotFails(p) == IF s[p].ret = "opened" THEN OpenRaises(p) ELSE Fails(p, "unsafe")
\* The parent and the file, by lstat.
ReadStat(p) ==
  /\ At(p, "stat") /\ UNCHANGED n
  /\ IF fs.config.kind # "file" \/ ~fs.safe THEN SnapshotFails(p)
     ELSE s' = [s EXCEPT ![p].pc = "read", ![p].ino = fs.ino] /\ UNCHANGED fs
\* _verify_digest: the document read is the one expected.
Verified(p, doc) ==
  \/ s[p].ret = "opened" /\ Answer(p, "opened") /\ UNCHANGED fs
  \/ s[p].ret # "opened" /\ doc # s[p].expected /\ Fails(p, "outofsync")
  \/ /\ s[p].ret # "opened" /\ doc = s[p].expected /\ UNCHANGED fs
     /\ Go(p, IF s[p].ret = "initial" THEN "temp" ELSE "replace")
\* _open_validated_regular and _read_all: the object opened is the one looked at.
ReadOpen(p) ==
  /\ At(p, "read") /\ UNCHANGED n
  /\ \/ fs.config.kind = "file" /\ fs.ino = s[p].ino /\ fs.safe /\ Verified(p, fs.config.doc)
     \/ SnapshotFails(p)

-----------------------------------------------------------------------------
(* write_atomic *)

\* A writer that read a snapshot asks for it to be replaced.
Write(p) ==
  /\ At(p, "up") /\ fs.config.kind = "file" /\ n.doc < MaxDocs
  /\ \E expected \in {fs.config.doc, 1} :
       s' = [s EXCEPT ![p].pc = "stat", ![p].ret = "initial", ![p].expected = expected, ![p].doc = n.doc + 1]
  /\ n' = [n EXCEPT !.doc = @ + 1] /\ UNCHANGED fs
\* _create_temp: exclusive; what fails after the creation is removed again.
CreateTemp(p) ==
  /\ At(p, "temp") /\ UNCHANGED n
  /\ \E t \in Token :
       \/ /\ fs.temps[t].kind = "none"
          /\ fs' = [fs EXCEPT !.temps[t] = File(s[p].doc, FALSE)]
          /\ s' = [s EXCEPT ![p].pc = "fill", ![p].token = t]
       \/ fs.temps[t].kind # "none" /\ UNCHANGED fs /\ Answer(p, "failed")
WriteTemp(p) ==
  /\ At(p, "fill") /\ UNCHANGED n
  /\ \/ fs' = [fs EXCEPT !.temps[s[p].token].whole = TRUE] /\ s' = [s EXCEPT ![p].pc = "stat", ![p].ret = "prereplace"]
     \/ Fails(p, "failed")
\* Rename: the name of the temporary is gone, the configuration is another object.
Replace(p) ==
  /\ At(p, "replace") /\ UNCHANGED n
  /\ \/ /\ fs.temps[s[p].token].kind = "file"
        /\ fs' = [fs EXCEPT !.config = fs.temps[s[p].token], !.ino = s[p].doc, !.safe = TRUE,
                            !.temps[s[p].token] = NoFile]
        /\ Go(p, "sync")
     \/ Fails(p, "failed")
SyncParent(p) ==
  /\ At(p, "sync") /\ UNCHANGED <<fs, n>>
  /\ \E a \in {"applied", "undurable"} : Answer(p, a)

-----------------------------------------------------------------------------
(* write_backup and close *)

Backup(p) ==
  /\ At(p, "up") /\ fs.config.kind = "file" /\ UNCHANGED n
  /\ \/ /\ fs.backup.kind = "none" /\ fs' = [fs EXCEPT !.backup = File(fs.config.doc, FALSE)]
        /\ s' = [s EXCEPT ![p].pc = "backup", ![p].doc = fs.config.doc]
     \/ fs.backup.kind # "none" /\ UNCHANGED fs /\ Answer(p, "failed")
\* _write_backup_stream; a failure removes the incomplete file, if it still is one.
WriteBackup(p) ==
  /\ At(p, "backup")
  /\ \/ /\ fs' = [fs EXCEPT !.backup.whole = TRUE] /\ n' = [n EXCEPT !.acked = s[p].doc] /\ Answer(p, "backup")
     \/ /\ fs' \in {fs, [fs EXCEPT !.backup = IF @.kind = "file" THEN NoFile ELSE @]}
        /\ UNCHANGED n /\ Answer(p, "failed")
\* The lifecycle closes the store when no operation is under way.
Close(p) ==
  /\ At(p, "up") /\ s' = [s EXCEPT ![p] = Down] /\ fs' = Unlocked(p) /\ UNCHANGED n

-----------------------------------------------------------------------------
(* Deaths, and people who ignore the lock *)

Kill(p) ==
  /\ ~At(p, "down") /\ n.kills < MaxKills /\ n' = [n EXCEPT !.kills = @ + 1]
  /\ s' = [s EXCEPT ![p] = Down] /\ fs' = Unlocked(p)
Outside(x) == fs' = x /\ n.edits < MaxEdits
Raced == [p \in Proc |-> IF s[p].pc \in {"replace"} THEN [s[p] EXCEPT !.raced = TRUE] ELSE s[p]]
Edit ==
  \/ /\ n.doc < MaxDocs /\ Outside([fs EXCEPT !.config = File(n.doc + 1, TRUE), !.ino = n.doc + 1])
     /\ n' = [n EXCEPT !.doc = @ + 1, !.edits = @ + 1] /\ s' = Raced
  \/ Outside([fs EXCEPT !.config = Link]) /\ fs.config.kind = "file" /\ n' = [n EXCEPT !.edits = @ + 1] /\ s' = Raced
  \/ Outside([fs EXCEPT !.safe = ~@]) /\ n' = [n EXCEPT !.edits = @ + 1] /\ s' = Raced
  \/ \E t \in Token : /\ fs.temps[t].kind = "none" /\ Outside([fs EXCEPT !.temps[t] = Link])
                      /\ n' = [n EXCEPT !.edits = @ + 1] /\ UNCHANGED s

Next ==
  \/ Edit
  \/ \E p \in Proc :
       \/ Open(p) \/ CreateLock(p) \/ OpenExistingLock(p) \/ EnsureLockByte(p) \/ AcquireLock(p) \/ ScanTemps(p)
       \/ CleanupOrphan(p) \/ ReadStat(p) \/ ReadOpen(p) \/ Write(p) \/ CreateTemp(p) \/ WriteTemp(p) \/ Replace(p)
       \/ SyncParent(p) \/ Backup(p) \/ WriteBackup(p) \/ Close(p) \/ Kill(p)
Spec == Init /\ [][Next]_vars

-----------------------------------------------------------------------------
\* Whatever dies or fails: what write_atomic is about to replace is the document
\* its caller expected, unless somebody who ignores the lock came after the last
\* check; the file it puts there is complete; an open store finds no temporary of
\* an interrupted writer, except its own that it failed to remove; and a backup
\* that was acknowledged stays as it was.
DirectoryKept ==
  /\ \A p \in Proc :
       /\ At(p, "replace") /\ ~s[p].raced =>
            fs.config = File(s[p].expected, TRUE) /\ fs.temps[s[p].token] = File(s[p].doc, TRUE)
       /\ At(p, "up") /\ ~s[p].left => \A t \in Token : fs.temps[t].kind # "file"
  /\ fs.config.kind = "file" => fs.config.whole
  /\ n.acked # 0 => fs.backup = File(n.acked, TRUE)
-----------------------------------------------------------------------------
(* Why it is kept: who works on the directory holds the lock, and whoever  *)
(* holds it has found or made every temporary that is a file.              *)

Object == [kind : {"none", "file", "link"}, doc : Nat, whole : BOOLEAN]
Opening == {"lock", "existing", "byte", "acquire"}
Checking == {"stat", "read"}
Place == {"down", "up", "scan", "cleanup", "temp", "fill", "replace", "sync", "backup"}
           \cup Opening \cup Checking
Directory == [config : Object, ino : Nat, safe : BOOLEAN, lock : {"none", "file"}, byte : BOOLEAN,
              holder : Proc \cup {"nobody"}, backup : Object, temps : [Token -> Object]]
Process == [pc : Place, ino : Nat, ret : {"none", "opened", "initial", "prereplace"},
            expected : Nat, doc : Nat, token : Token \cup {"none"}, names : SUBSET Token,
            raced : BOOLEAN, left : BOOLEAN,
            answer : {"none", "refused", "unsafe", "opened", "outofsync", "failed",
                      "applied", "undurable", "backup"}]

Types ==
  /\ fs \in Directory
  /\ s \in [Proc -> Process]
  /\ n \in [doc : Nat, edits : Nat, kills : Nat, acked : Nat]

(* Of a process r and the directory f.  The lock is held from its          *)
(* acquisition to the end. *)
Works(r) == r.pc \notin {"down"} \cup Opening

(* The writer's temporary: made empty, filled, checked again, put in place. *)
Second(r) == r.pc = "replace" \/ (r.pc \in Checking /\ r.ret = "prereplace")
OwnTemp(r, f) ==
  /\ r.pc = "fill" \/ Second(r) => r.token # "none"
  /\ r.token # "none" => r.pc \in {"fill", "sync"} \/ Second(r)
  /\ r.pc = "fill" => f.temps[r.token] = File(r.doc, FALSE)
  /\ Second(r) => f.temps[r.token] = File(r.doc, TRUE)
  /\ r.pc = "sync" => r.token # "none" /\ f.temps[r.token].kind # "file"
  /\ r.pc \in Checking => r.ret # "none"
  /\ r.pc = "replace" /\ ~r.raced => f.config = File(r.expected, TRUE)

(* Temporaries that are files: listed while the orphans are removed, and   *)
(* afterwards the writer's own, or one that it left.                       *)
NoOrphan(r, f) ==
  /\ r.pc = "cleanup" => \A t \in Token : f.temps[t].kind = "file" => t \in r.names
  /\ Works(r) /\ r.pc \notin {"scan", "cleanup"} /\ ~r.left =>
       \A t \in Token : f.temps[t].kind = "file" => t = r.token

OwnBackup(r, f) == r.pc = "backup" => f.backup = File(r.doc, FALSE)

Local(p, r, f) ==
  /\ f.holder = p <=> Works(r)
  /\ OwnTemp(r, f)
  /\ NoOrphan(r, f)
  /\ OwnBackup(r, f)

Common(f, acked) ==
  /\ f.config.kind = "file" => f.config.whole
  /\ acked # 0 => f.backup = File(acked, TRUE)

IInv ==
  /\ Types
  /\ \A p \in Proc : Local(p, s[p], fs)
  /\ Common(fs, n.acked)
=============================================================================
