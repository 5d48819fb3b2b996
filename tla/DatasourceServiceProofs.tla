---------------------- MODULE DatasourceServiceProofs ----------------------
(***************************************************************************)
(* The coordinator of datasources is sound and loses no update, for any    *)
(* clients, identifiers, aliases and revisions.  The invariant says of     *)
(* each stage of a write how the disk, the catalogue and the generations   *)
(* published differ, and relates every document somebody was shown to      *)
(* every document a restart may find.                                      *)
(***************************************************************************)
EXTENDS DatasourceService, TLAPS

(* Documents: an alias names one datasource, and no record is newer than   *)
(* its document.                                                           *)
WellFormed(doc) ==
    /\ \A i, j \in DOMAIN doc.records : doc.records[i].alias = doc.records[j].alias => i = j
    /\ \A i \in DOMAIN doc.records : doc.records[i].rev <= doc.rev

(* What was shown precedes what may be found: a revision, of a document or *)
(* of a record, never comes back with another content.                     *)
Precedes(d, doc) ==
    /\ d.rev <= doc.rev
    /\ d.rev = doc.rev => d = doc
    /\ \A i \in DOMAIN d.records \cap DOMAIN doc.records :
        /\ d.records[i].rev <= doc.records[i].rev
        /\ d.records[i].rev = doc.records[i].rev => d.records[i] = doc.records[i]

(* The documents somebody was shown or answered with, or may be shown. *)
Known ==
    {acked} \cup {seen[c] : c \in {b \in Client : seen[b] # None}}
            \cup (IF view = None THEN {} ELSE {view.doc})

(* The generations once the write has done what follows its persistence. *)
Outcome ==
    CASE op.then = "publish" -> [published EXCEPT ![PublishedAlias] =
                                    GenerationOf(op.id, op.next.records[op.id])]
      [] op.then = "withdraw" -> WithdrawnFrom(op.id)
      [] op.then = "nothing" -> published

Before == op # None /\ op.stage \in {"reserving", "checking", "failed", "uncertain"}

DocumentsInv ==
    /\ \A doc \in disk : WellFormed(doc)
    /\ op # None => WellFormed(op.next)

(* What the disk may hold, by how the last commit went. *)
DiskInv ==
    /\ phase # "down" => catalog \in disk
    /\ phase # "down" /\ (~poisoned \/ At("failed")) => disk = {catalog}
    /\ At("uncertain") => disk = {catalog, op.next} /\ poisoned
    /\ phase # "down" /\ poisoned => blocked \/ At("failed") \/ At("uncertain")
    /\ op # None /\ op.stage \in {"reserving", "checking", "persisted", "sealing"} => ~poisoned
    /\ At("persisted") \/ At("sealing") => catalog = op.next

PhaseInv ==
    /\ op # None => phase = "up" /\ registry # "closed"
    /\ phase = "opening" => registry = "open" /\ ~poisoned /\ opening \subseteq Enabled(catalog)
    /\ phase = "up" /\ registry = "closed" => closed /\ published = Nothing

(* What is published, while the runtime opens, *)
OpeningInv ==
    phase = "opening" =>
        published = [a \in Alias |->
                        IF Serving(catalog)[a] # None /\ Serving(catalog)[a].id \notin opening
                        THEN Serving(catalog)[a] ELSE None]

(* once it is open, *)
ServingInv ==
    (/\ phase = "up" /\ registry # "closed"
     /\ op = None => ~poisoned
     /\ ~At("persisted")) => published = Serving(catalog)

(* and what the write under way is about to make of it. *)
OutcomeInv ==
    Before \/ At("persisted") =>
        /\ Outcome = Serving(op.next)
        /\ op.then = "publish" => op.id \in Enabled(op.next) /\ PublishAllowed

(* What was shown, against what may be found. *)
KnownInv ==
    \A d \in Known :
        /\ \A doc \in disk : Precedes(d, doc)
        /\ op # None => Precedes(d, op.next)

FreshInv ==
    /\ \A doc \in Known \cup disk : fresh \cap DOMAIN doc.records = {}
    /\ op # None => fresh \cap DOMAIN op.next.records = {}

(* The writer read the record it is about to change. *)
WriterInv ==
    op # None /\ op.stage \in {"reserving", "checking"} /\ op.id \in DOMAIN catalog.records =>
        /\ seen[op.client] # None
        /\ op.id \in DOMAIN seen[op.client].records
        /\ seen[op.client].records[op.id] = catalog.records[op.id]

IInv ==
    /\ TypeOK
    /\ DocumentsInv /\ DiskInv /\ PhaseInv
    /\ OpeningInv /\ ServingInv /\ OutcomeInv
    /\ KnownInv /\ FreshInv /\ WriterInv
    /\ ViewIsOneState /\ NothingDisabledServed
-----------------------------------------------------------------------------
(* Documents *)

LEMMA DocumentIs ==
    ASSUME NEW doc \in Document
    PROVE  /\ doc.rev \in Nat /\ doc.rev <= MaxRevision
           /\ DOMAIN doc.records \subseteq Id
           /\ doc.records \in [DOMAIN doc.records -> Record]
           /\ \A i \in DOMAIN doc.records : doc.records[i] \in Record
           /\ doc = [rev |-> doc.rev, records |-> doc.records]
<1>1. PICK S \in SUBSET Id : doc.records \in [S -> Record]
  BY DEF Document
<1>2. doc.rev \in 0..MaxRevision /\ doc = [rev |-> doc.rev, records |-> doc.records]
  BY DEF Document
<1> QED
  BY <1>1, <1>2, RevisionAssumption

LEMMA WithIs ==
    ASSUME NEW doc \in Document, doc.rev < MaxRevision, NEW i \in Id, NEW record \in Record
    PROVE  /\ With(doc, i, record) \in Document
           /\ With(doc, i, record).rev = doc.rev + 1
           /\ DOMAIN With(doc, i, record).records = DOMAIN doc.records \cup {i}
           /\ With(doc, i, record).records[i] = record
           /\ \A j \in DOMAIN doc.records \ {i} :
                With(doc, i, record).records[j] = doc.records[j]
<1> DEFINE S == DOMAIN doc.records \cup {i}
           f == [j \in S |-> IF j = i THEN record ELSE doc.records[j]]
<1>1. f \in [S -> Record] /\ S \in SUBSET Id
  BY DocumentIs
<1>2. doc.rev + 1 \in 0..MaxRevision
  BY DocumentIs, RevisionAssumption
<1>3. With(doc, i, record) = [rev |-> doc.rev + 1, records |-> f]
  BY DEF With
<1>4. With(doc, i, record) \in Document
  <2> HIDE DEF f, S
  <2> QED
    BY <1>1, <1>2, <1>3 DEF Document
<1> QED
  BY <1>3, <1>4

LEMMA WithoutIs ==
    ASSUME NEW doc \in Document, doc.rev < MaxRevision, NEW i \in Id
    PROVE  /\ Without(doc, i) \in Document
           /\ Without(doc, i).rev = doc.rev + 1
           /\ DOMAIN Without(doc, i).records = DOMAIN doc.records \ {i}
           /\ \A j \in DOMAIN doc.records \ {i} : Without(doc, i).records[j] = doc.records[j]
<1> DEFINE S == DOMAIN doc.records \ {i}
           f == [j \in S |-> doc.records[j]]
<1>1. f \in [S -> Record] /\ S \in SUBSET Id
  BY DocumentIs
<1>2. doc.rev + 1 \in 0..MaxRevision
  BY DocumentIs, RevisionAssumption
<1>3. Without(doc, i) = [rev |-> doc.rev + 1, records |-> f]
  BY DEF Without
<1>4. Without(doc, i) \in Document
  <2> HIDE DEF f, S
  <2> QED
    BY <1>1, <1>2, <1>3 DEF Document
<1> QED
  BY <1>3, <1>4

\* A generation built from a record of a document is a generation, not None.
LEMMA GenerationIs ==
    ASSUME NEW i \in Id, NEW record \in Record
    PROVE  /\ GenerationOf(i, record) \in Generation
           /\ GenerationOf(i, record) # None
           /\ GenerationOf(i, record).id = i
<1>1. GenerationOf(i, record) \in Generation
  BY DEF GenerationOf, Generation, Record
<1> QED
  BY <1>1, NoneAssumption DEF GenerationOf

\* In a well-formed document the generation of an alias is that of the enabled
\* datasource with this alias, and None when there is none.
LEMMA ServingIs ==
    ASSUME NEW doc \in Document, WellFormed(doc), NEW a \in Alias
    PROVE  /\ \A i \in Enabled(doc) : doc.records[i].alias = a =>
                Serving(doc)[a] = GenerationOf(i, doc.records[i])
           /\ (\A i \in Enabled(doc) : doc.records[i].alias # a) => Serving(doc)[a] = None
           /\ Serving(doc)[a] # None =>
                \E i \in Enabled(doc) : /\ doc.records[i].alias = a
                                        /\ Serving(doc)[a] = GenerationOf(i, doc.records[i])
<1> DEFINE ids == {i \in Enabled(doc) : doc.records[i].alias = a}
           one == CHOOSE i \in ids : TRUE
<1>1. Serving(doc)[a] = IF ids = {} THEN None ELSE GenerationOf(one, doc.records[one])
  BY DEF Serving
<1>2. ids # {} => one \in ids
  OBVIOUS
<1>3. \A i, j \in ids : i = j
  BY DEF WellFormed, Enabled
<1> HIDE DEF one
<1> QED
  BY <1>1, <1>2, <1>3

LEMMA ServedIsEnabled ==
    ASSUME NEW doc \in Document, WellFormed(doc), NEW a \in Alias, Serving(doc)[a] # None
    PROVE  Serving(doc)[a].id \in Enabled(doc)
<1>1. PICK i \in Enabled(doc) : Serving(doc)[a] = GenerationOf(i, doc.records[i])
  BY ServingIs
<1> QED
  BY <1>1 DEF GenerationOf

LEMMA ServingType ==
    ASSUME NEW doc \in Document, WellFormed(doc)
    PROVE  Serving(doc) \in Generations
<1>1. \A a \in Alias : Serving(doc)[a] \in Generation \cup {None}
  <2> TAKE a \in Alias
  <2>1. CASE Serving(doc)[a] # None
    <3>1. PICK i \in Enabled(doc) : Serving(doc)[a] = GenerationOf(i, doc.records[i])
      BY <2>1, ServingIs
    <3>2. i \in Id /\ doc.records[i] \in Record
      BY DocumentIs DEF Enabled
    <3> QED
      BY <3>1, <3>2, GenerationIs
  <2> QED
    BY <2>1
<1>2. DOMAIN Serving(doc) = Alias /\ Serving(doc) = [a \in Alias |-> Serving(doc)[a]]
  BY DEF Serving
<1> QED
  BY <1>1, <1>2 DEF Generations

\* A write that keeps the alias of a record, or gives a new one a free alias, and a
\* revision no newer than the document's.
LEMMA WithWellFormed ==
    ASSUME NEW doc \in Document, WellFormed(doc), doc.rev < MaxRevision,
           NEW i \in Id, NEW record \in Record,
           record.rev <= doc.rev + 1,
           \A j \in DOMAIN doc.records \ {i} : doc.records[j].alias # record.alias
    PROVE  WellFormed(With(doc, i, record))
<1> DEFINE new == With(doc, i, record)
<1>1. /\ new.rev = doc.rev + 1
      /\ DOMAIN new.records = DOMAIN doc.records \cup {i}
      /\ new.records[i] = record
      /\ \A j \in DOMAIN doc.records \ {i} : new.records[j] = doc.records[j]
  BY WithIs
<1>2. doc.rev \in Nat /\ \A j \in DOMAIN doc.records : doc.records[j].rev \in Nat
  BY DocumentIs, RevisionAssumption DEF Record
<1> HIDE DEF new
<1>3. \A j \in DOMAIN new.records : new.records[j].rev <= new.rev
  BY <1>1, <1>2 DEF WellFormed
<1>4. \A j, k \in DOMAIN new.records : new.records[j].alias = new.records[k].alias => j = k
  BY <1>1 DEF WellFormed
<1>5. WellFormed(new)
  BY <1>3, <1>4 DEF WellFormed
<1> QED
  BY <1>5 DEF new

LEMMA WithoutWellFormed ==
    ASSUME NEW doc \in Document, WellFormed(doc), doc.rev < MaxRevision, NEW i \in Id
    PROVE  WellFormed(Without(doc, i))
<1> DEFINE new == Without(doc, i)
<1>1. /\ new.rev = doc.rev + 1
      /\ DOMAIN new.records = DOMAIN doc.records \ {i}
      /\ \A j \in DOMAIN doc.records \ {i} : new.records[j] = doc.records[j]
  BY WithoutIs
<1>2. doc.rev \in Nat /\ \A j \in DOMAIN doc.records : doc.records[j].rev \in Nat
  BY DocumentIs, RevisionAssumption DEF Record
<1> HIDE DEF new
<1>3. WellFormed(new)
  BY <1>1, <1>2 DEF WellFormed
<1> QED
  BY <1>3 DEF new

\* What precedes a document precedes the one a write makes of it: the record
\* written has a newer revision, or an identifier never drawn before.
LEMMA WithPrecedes ==
    ASSUME NEW doc \in Document, NEW d \in Document, Precedes(d, doc), doc.rev < MaxRevision,
           NEW i \in Id, NEW record \in Record,
           IF i \in DOMAIN doc.records THEN record.rev = doc.records[i].rev + 1
                                       ELSE i \notin DOMAIN d.records
    PROVE  Precedes(d, With(doc, i, record))
<1> DEFINE new == With(doc, i, record)
<1>1. /\ new.rev = doc.rev + 1
      /\ DOMAIN new.records = DOMAIN doc.records \cup {i}
      /\ new.records[i] = record
      /\ \A j \in DOMAIN doc.records \ {i} : new.records[j] = doc.records[j]
  BY WithIs
<1>2. /\ doc.rev \in Nat /\ d.rev \in Nat
      /\ \A j \in DOMAIN doc.records : doc.records[j].rev \in Nat
      /\ \A j \in DOMAIN d.records : d.records[j].rev \in Nat
  BY DocumentIs, RevisionAssumption DEF Record
<1> HIDE DEF new
<1>3. d.rev < new.rev
  BY <1>1, <1>2 DEF Precedes
<1>4. ASSUME NEW j \in DOMAIN d.records \cap DOMAIN new.records
      PROVE  /\ d.records[j].rev <= new.records[j].rev
             /\ d.records[j].rev = new.records[j].rev => d.records[j] = new.records[j]
  <2>1. CASE j = i
    BY <1>1, <1>2, <2>1 DEF Precedes
  <2>2. CASE j # i
    BY <1>1, <1>2, <2>2 DEF Precedes
  <2> QED
    BY <2>1, <2>2
<1>5. Precedes(d, new)
  BY <1>1, <1>2, <1>3, <1>4 DEF Precedes
<1> QED
  BY <1>5 DEF new

LEMMA WithoutPrecedes ==
    ASSUME NEW doc \in Document, NEW d \in Document, Precedes(d, doc), doc.rev < MaxRevision,
           NEW i \in Id
    PROVE  Precedes(d, Without(doc, i))
<1> DEFINE new == Without(doc, i)
<1>1. /\ new.rev = doc.rev + 1
      /\ DOMAIN new.records = DOMAIN doc.records \ {i}
      /\ \A j \in DOMAIN doc.records \ {i} : new.records[j] = doc.records[j]
  BY WithoutIs
<1>2. doc.rev \in Nat /\ d.rev \in Nat
  BY DocumentIs
<1> HIDE DEF new
<1>3. d.rev < new.rev
  BY <1>1, <1>2 DEF Precedes
<1>4. Precedes(d, new)
  BY <1>1, <1>2, <1>3 DEF Precedes
<1> QED
  BY <1>4 DEF new

-----------------------------------------------------------------------------
(* What follows a write, as the generations of the document it wrote *)

\* Two well-formed documents with the same enabled record under an alias, or with
\* none, serve the same generation under it.
LEMMA SameServing ==
    ASSUME NEW doc \in Document, WellFormed(doc), NEW new \in Document, WellFormed(new),
           NEW a \in Alias,
           \A i \in Id : (i \in Enabled(doc) /\ doc.records[i].alias = a)
                            => i \in Enabled(new) /\ new.records[i] = doc.records[i],
           \A i \in Id : (i \in Enabled(new) /\ new.records[i].alias = a)
                            => i \in Enabled(doc) /\ new.records[i] = doc.records[i]
    PROVE  Serving(new)[a] = Serving(doc)[a]
<1>1. Enabled(doc) \subseteq Id /\ Enabled(new) \subseteq Id
  BY DocumentIs DEF Enabled
<1>2. CASE \E i \in Enabled(doc) : doc.records[i].alias = a
  <2>1. PICK i \in Enabled(doc) : doc.records[i].alias = a
    BY <1>2
  <2>2. i \in Enabled(new) /\ new.records[i] = doc.records[i]
    BY <1>1, <2>1
  <2> QED
    BY <2>1, <2>2, ServingIs
<1>3. CASE \A i \in Enabled(doc) : doc.records[i].alias # a
  <2>1. \A i \in Enabled(new) : new.records[i].alias # a
    BY <1>1, <1>3
  <2> QED
    BY <1>3, <2>1, ServingIs
<1> QED
  BY <1>2, <1>3

\* Publishing the enabled record that was written: create, update, rotate_secret.
LEMMA PublishServes ==
    ASSUME NEW doc \in Document, WellFormed(doc), doc.rev < MaxRevision,
           NEW i \in Id, NEW record \in Record, record.enabled,
           WellFormed(With(doc, i, record)),
           i \in DOMAIN doc.records => doc.records[i].alias = record.alias
    PROVE  /\ [Serving(doc) EXCEPT ![record.alias] = GenerationOf(i, record)]
                = Serving(With(doc, i, record))
           /\ i \in Enabled(With(doc, i, record))
           /\ Serving(doc)[record.alias] # None => Serving(doc)[record.alias].id = i
<1> DEFINE new == With(doc, i, record)
<1>1. /\ new \in Document
      /\ DOMAIN new.records = DOMAIN doc.records \cup {i}
      /\ new.records[i] = record
      /\ \A j \in DOMAIN doc.records \ {i} : new.records[j] = doc.records[j]
  BY WithIs
<1>2. WellFormed(new)
  OBVIOUS
<1> HIDE DEF new
<1>3. i \in Enabled(new) /\ record.alias \in Alias
  BY <1>1 DEF Enabled, Record
<1>4. Serving(new)[record.alias] = GenerationOf(i, record)
  BY <1>1, <1>2, <1>3, ServingIs
<1>5. \A a \in Alias \ {record.alias} : Serving(new)[a] = Serving(doc)[a]
  <2> TAKE a \in Alias \ {record.alias}
  <2>1. \A j \in Id : (j \in Enabled(doc) /\ doc.records[j].alias = a)
                         => j \in Enabled(new) /\ new.records[j] = doc.records[j]
    BY <1>1 DEF Enabled
  <2>2. \A j \in Id : (j \in Enabled(new) /\ new.records[j].alias = a)
                         => j \in Enabled(doc) /\ new.records[j] = doc.records[j]
    BY <1>1 DEF Enabled
  <2> QED
    BY <1>1, <1>2, <2>1, <2>2, SameServing
<1>6. DOMAIN Serving(new) = Alias /\ DOMAIN Serving(doc) = Alias
      /\ Serving(new) = [a \in Alias |-> Serving(new)[a]]
      /\ Serving(doc) = [a \in Alias |-> Serving(doc)[a]]
  BY DEF Serving
<1>7. [Serving(doc) EXCEPT ![record.alias] = GenerationOf(i, record)] = Serving(new)
  BY <1>3, <1>4, <1>5, <1>6
<1>8. ASSUME Serving(doc)[record.alias] # None
      PROVE  Serving(doc)[record.alias].id = i
  <2>1. PICK j \in Enabled(doc) :
          /\ doc.records[j].alias = record.alias
          /\ Serving(doc)[record.alias] = GenerationOf(j, doc.records[j])
    BY <1>3, <1>8, ServingIs
  <2>2. j \in DOMAIN doc.records /\ j \in Id /\ doc.records[j] \in Record
    BY DocumentIs DEF Enabled
  <2>3. j = i
    BY <1>1, <1>2, <2>1, <2>2 DEF WellFormed
  <2> QED
    BY <2>1, <2>2, <2>3, GenerationIs
<1> QED
  BY <1>3, <1>7, <1>8 DEF new

\* Withdrawing a datasource: the new document is the old one but for the
\* datasource, which is disabled in it or gone.
LEMMA WithdrawServes ==
    ASSUME NEW doc \in Document, WellFormed(doc), NEW new \in Document, WellFormed(new),
           NEW i \in Id, i \notin Enabled(new),
           \A j \in Id \ {i} : /\ j \in DOMAIN doc.records <=> j \in DOMAIN new.records
                               /\ j \in DOMAIN doc.records => new.records[j] = doc.records[j]
    PROVE  [a \in Alias |-> IF Serving(doc)[a] # None /\ Serving(doc)[a].id = i
                            THEN None ELSE Serving(doc)[a]] = Serving(new)
<1>1. ASSUME NEW a \in Alias
      PROVE  Serving(new)[a] = IF Serving(doc)[a] # None /\ Serving(doc)[a].id = i
                               THEN None ELSE Serving(doc)[a]
  <2>1. \A j \in Id : (j \in Enabled(new) /\ new.records[j].alias = a)
                         => j \in Enabled(doc) /\ new.records[j] = doc.records[j]
    BY DEF Enabled
  <2>2. Enabled(doc) \subseteq Id /\ Enabled(new) \subseteq Id
    BY DocumentIs DEF Enabled
  <2>3. CASE Serving(doc)[a] # None
    <3>1. PICK j \in Enabled(doc) : /\ doc.records[j].alias = a
                                    /\ Serving(doc)[a] = GenerationOf(j, doc.records[j])
      BY <2>3, ServingIs
    <3>2. Serving(doc)[a].id = j
      BY <2>2, <3>1, DocumentIs, GenerationIs DEF Enabled
    <3>3. CASE j = i
      <4>1. \A k \in Enabled(new) : new.records[k].alias # a
        BY <2>1, <2>2, <3>1, <3>3 DEF WellFormed, Enabled
      <4> QED
        BY <2>3, <3>2, <3>3, <4>1, ServingIs
    <3>4. CASE j # i
      <4>1. j \in Enabled(new) /\ new.records[j] = doc.records[j]
        BY <2>2, <3>1, <3>4 DEF Enabled
      <4>2. Serving(new)[a] = GenerationOf(j, doc.records[j])
        BY <3>1, <4>1, ServingIs
      <4> QED
        BY <3>1, <3>2, <3>4, <4>2
    <3> QED
      BY <3>3, <3>4
  <2>4. CASE Serving(doc)[a] = None
    <3>1. \A j \in Enabled(doc) : doc.records[j].alias # a
      BY <2>2, <2>4, ServingIs, GenerationIs, DocumentIs DEF Enabled
    <3>2. \A j \in Enabled(new) : new.records[j].alias # a
      BY <2>1, <2>2, <3>1
    <3> QED
      BY <2>4, <3>2, ServingIs
  <2> QED
    BY <2>3, <2>4
<1>2. Serving(new) = [a \in Alias |-> Serving(new)[a]]
  BY DEF Serving
<1> QED
  BY <1>1, <1>2

\* Nothing to publish: the datasource is disabled before and after.
LEMMA NothingServes ==
    ASSUME NEW doc \in Document, WellFormed(doc), NEW new \in Document, WellFormed(new),
           NEW i \in Id, i \notin Enabled(new), i \notin Enabled(doc),
           \A j \in Id \ {i} : /\ j \in DOMAIN doc.records <=> j \in DOMAIN new.records
                               /\ j \in DOMAIN doc.records => new.records[j] = doc.records[j]
    PROVE  Serving(doc) = Serving(new)
<1>1. ASSUME NEW a \in Alias PROVE Serving(new)[a] = Serving(doc)[a]
  <2>1. \A j \in Id : (j \in Enabled(doc) /\ doc.records[j].alias = a)
                         => j \in Enabled(new) /\ new.records[j] = doc.records[j]
    BY DEF Enabled
  <2>2. \A j \in Id : (j \in Enabled(new) /\ new.records[j].alias = a)
                         => j \in Enabled(doc) /\ new.records[j] = doc.records[j]
    BY DEF Enabled
  <2> QED
    BY <2>1, <2>2, SameServing
<1>2. /\ Serving(new) = [a \in Alias |-> Serving(new)[a]]
      /\ Serving(doc) = [a \in Alias |-> Serving(doc)[a]]
  BY DEF Serving
<1> QED
  BY <1>1, <1>2

-----------------------------------------------------------------------------
(* Steps *)

\* What the invariant says of the write under way and of the documents shown.
LEMMA Types ==
    ASSUME IInv
    PROVE  /\ Known \subseteq Document
           /\ op # None => /\ op \in Write /\ op.next \in Document
                           /\ op.id \in Id /\ op.client \in Client
           /\ disk \subseteq Document /\ catalog \in Document
           /\ view # None => view \in SealedView /\ view.doc \in Document
  BY DEF IInv, TypeOK, Known, Write, SealedView

LEMMA InitInvariant ==
    ASSUME Init
    PROVE  IInv
<1>1. Empty \in Document /\ DOMAIN Empty.records = {} /\ Empty.rev = 0
  <2>1. NoRecords \in [{} -> Record] /\ DOMAIN NoRecords = {}
    BY DEF NoRecords
  <2>2. NoRecords \in UNION {[S -> Record] : S \in SUBSET Id}
    BY <2>1
  <2>3. 0 \in 0..MaxRevision
    BY RevisionAssumption
  <2> QED
    BY <2>1, <2>2, <2>3 DEF Empty, Document
<1>2. TypeOK
  BY <1>1 DEF Init, TypeOK, Nothing, Generations
<1>3. Known = {Empty}
  BY DEF Init, Known
<1>4. WellFormed(Empty) /\ Precedes(Empty, Empty)
  BY <1>1 DEF WellFormed, Precedes
<1>5. DocumentsInv /\ DiskInv /\ PhaseInv /\ OpeningInv /\ ServingInv /\ OutcomeInv
  BY <1>4 DEF Init, DocumentsInv, DiskInv, PhaseInv, OpeningInv, ServingInv, OutcomeInv,
              Before, At
<1>6. KnownInv /\ FreshInv /\ WriterInv
  BY <1>1, <1>3, <1>4 DEF Init, KnownInv, FreshInv, WriterInv
<1>7. ViewIsOneState /\ NothingDisabledServed
  BY DEF Init, ViewIsOneState, NothingDisabledServed
<1> QED
  BY <1>2, <1>5, <1>6, <1>7 DEF IInv

\* A step that touches neither the documents nor what is published nor the write
\* under way: it may show a client the view, withdraw the view, block the service
\* or close it.
LEMMA QuietKeeps ==
    ASSUME IInv, TypeOK',
           UNCHANGED <<disk, catalog, poisoned, published, phase, opening, op, fresh, acked>>,
           (registry' = "closed") <=> (registry = "closed"),
           phase = "up" \/ registry' = registry,
           closed => closed', blocked => blocked',
           view' \in {view, None}, Known' \subseteq Known,
           op # None => seen'[op.client] = seen[op.client]
    PROVE  IInv'
<1> USE DEF IInv
<1>1. DocumentsInv'
  BY DEF DocumentsInv
<1>2. DiskInv'
  BY DEF DiskInv, At
<1>3. PhaseInv'
  BY DEF PhaseInv
<1>4. OpeningInv' /\ ServingInv'
  BY DEF OpeningInv, ServingInv, At
<1>5. OutcomeInv'
  BY DEF OutcomeInv, Before, At, Outcome, PublishAllowed, PublishedAlias, WithdrawnFrom
<1>6. KnownInv'
  BY DEF KnownInv
<1>7. FreshInv'
  BY DEF FreshInv
<1>8. WriterInv'
  BY DEF WriterInv
<1>9. ViewIsOneState' /\ NothingDisabledServed'
  BY DEF ViewIsOneState, NothingDisabledServed
<1> QED
  BY <1>1, <1>2, <1>3, <1>4, <1>5, <1>6, <1>7, <1>8, <1>9

\* view(), a connection test, block_unknown, begin_shutdown and the first step of
\* close() are such steps.
LEMMA ReadKeeps ==
    ASSUME IInv, NEW c \in Client, Read(c)
    PROVE  IInv'
<1>1. TypeOK'
  BY Types DEF IInv, TypeOK, Read, storeVars, registryVars, serviceVars
<1>2. Known' \subseteq Known
  <2>1. seen' = [seen EXCEPT ![c] = view.doc] /\ UNCHANGED <<view, acked>> /\ view # None
    BY DEF Read, serviceVars
  <2>2. \A b \in Client : seen'[b] # None => seen'[b] \in Known
    BY <2>1 DEF Known, IInv, TypeOK
  <2> QED
    BY <2>1, <2>2 DEF Known
<1>3. op # None => seen'[op.client] = seen[op.client]
  BY DEF Read, Idle, IInv, TypeOK
<1> QED
  BY <1>1, <1>2, <1>3, QuietKeeps DEF Read, storeVars, registryVars, serviceVars

LEMMA TestKeeps ==
    ASSUME IInv, NEW c \in Client,
           (\E k \in Key : Test(c, k)) \/ TestReserves(c) \/ TestEnds(c)
    PROVE  IInv'
<1>1. TypeOK'
  <2>1. CASE \E k \in Key : Test(c, k)
    BY <2>1 DEF IInv, TypeOK, Test, storeVars, registryVars, serviceVars
  <2>2. CASE TestReserves(c)
    <3>1. testing[c] \in [key : Key, held : BOOLEAN]
      BY <2>2 DEF IInv, TypeOK, TestReserves
    <3> QED
      BY <2>2, <3>1 DEF IInv, TypeOK, TestReserves, storeVars, serviceVars
  <2>3. CASE TestEnds(c)
    BY <2>3 DEF IInv, TypeOK, TestEnds, storeVars, serviceVars
  <2> QED
    BY <2>1, <2>2, <2>3
<1>2. UNCHANGED <<disk, catalog, poisoned, published, phase, opening, op, fresh, acked,
                  registry, closed, blocked, view, seen>>
  BY DEF Test, TestReserves, TestEnds, storeVars, registryVars, serviceVars
<1>3. Known' = Known
  BY <1>2 DEF Known
<1> QED
  BY <1>1, <1>2, <1>3, QuietKeeps

LEMMA ShutdownStepKeeps ==
    ASSUME IInv, BlockUnknown \/ BeginShutdown \/ CloseService
    PROVE  IInv'
<1>1. UNCHANGED <<disk, catalog, poisoned, published, candidates, phase, opening, op, testing,
                  seen, fresh, acked>>
  BY DEF BlockUnknown, BeginShutdown, CloseService, Block, storeVars, registryVars,
         serviceVars, clientVars
<1>2. /\ registry' \in {"open", "closing", "closed"}
      /\ (registry' = "closed") <=> (registry = "closed")
      /\ phase = "up"
  BY DEF BlockUnknown, BeginShutdown, CloseService, registryVars, IInv, TypeOK
<1>3. /\ closed' \in BOOLEAN /\ blocked' \in BOOLEAN
      /\ closed => closed'
      /\ blocked => blocked'
  BY DEF BlockUnknown, BeginShutdown, CloseService, Block, serviceVars, IInv, TypeOK
<1>4. view' \in {view, None}
  BY DEF BlockUnknown, BeginShutdown, CloseService, Block, serviceVars
<1>5. TypeOK'
  BY <1>1, <1>2, <1>3, <1>4 DEF IInv, TypeOK
<1>6. Known' \subseteq Known
  BY <1>1, <1>4 DEF Known
<1> QED
  BY <1>1, <1>2, <1>3, <1>4, <1>5, <1>6, QuietKeeps

-----------------------------------------------------------------------------
(* Start, shutdown and crash *)

\* A new process settles on one of the documents the disk may hold.
LEMMA OpenKeeps ==
    ASSUME IInv, Open
    PROVE  IInv'
<1> USE DEF IInv
<1>1. PICK doc \in disk : disk' = {doc} /\ catalog' = doc /\ opening' = Enabled(doc)
  BY DEF Open
<1>2. doc \in Document /\ WellFormed(doc)
  BY Types DEF DocumentsInv
<1>3. op = None /\ op' = None /\ phase' = "opening" /\ poisoned' = FALSE
  BY DEF Open, PhaseInv
<1>4. TypeOK'
  <2>1. Enabled(doc) \subseteq Id
    BY <1>2, DocumentIs DEF Enabled
  <2> QED
    BY <1>1, <1>2, <2>1 DEF Open, TypeOK, Nothing, Generations
<1>5. DocumentsInv' /\ DiskInv'
  BY <1>1, <1>2, <1>3 DEF DocumentsInv, DiskInv, At
<1>6. PhaseInv'
  BY <1>1, <1>3 DEF Open, PhaseInv, Nothing
<1>7. OpeningInv'
  <2>1. \A a \in Alias : Serving(doc)[a] # None => Serving(doc)[a].id \in Enabled(doc)
    BY <1>2, ServedIsEnabled
  <2>2. published' = [a \in Alias |-> None]
    BY DEF Open, Nothing
  <2> QED
    BY <1>1, <2>1, <2>2 DEF OpeningInv
<1>8. ServingInv' /\ OutcomeInv' /\ WriterInv' /\ NothingDisabledServed'
  BY <1>3 DEF ServingInv, OutcomeInv, Before, At, WriterInv, NothingDisabledServed
<1>9. Known' = Known
  BY DEF Open, Known
<1>10. KnownInv' /\ FreshInv'
  <2>1. UNCHANGED fresh
    BY DEF Open
  <2> QED
    BY <1>1, <1>3, <1>9, <2>1 DEF KnownInv, FreshInv
<1>11. ViewIsOneState'
  BY DEF Open, ViewIsOneState
<1> QED
  BY <1>4, <1>5, <1>6, <1>7, <1>8, <1>10, <1>11

LEMMA OpenNextKeeps ==
    ASSUME IInv, OpenNext
    PROVE  IInv'
<1> USE DEF IInv
<1>1. PICK i \in opening :
        /\ opening' = opening \ {i}
        /\ published' = [published EXCEPT ![catalog.records[i].alias] =
                            GenerationOf(i, catalog.records[i])]
  BY DEF OpenNext
<1>2. /\ phase = "opening" /\ op = None
      /\ UNCHANGED <<storeVars, registry, candidates, phase, serviceVars, clientVars>>
  BY DEF OpenNext, PhaseInv
<1> DEFINE a == catalog.records[i].alias
<1>3. /\ catalog \in Document /\ WellFormed(catalog)
      /\ i \in Enabled(catalog) /\ i \in Id /\ catalog.records[i] \in Record /\ a \in Alias
  <2>1. catalog \in Document /\ WellFormed(catalog) /\ i \in Enabled(catalog)
    BY <1>2, Types DEF DocumentsInv, DiskInv, PhaseInv
  <2>2. i \in Id /\ catalog.records[i] \in Record
    BY <2>1, DocumentIs DEF Enabled
  <2> QED
    BY <2>1, <2>2 DEF Record
<1>4. TypeOK'
  BY <1>1, <1>2, <1>3, GenerationIs
     DEF TypeOK, storeVars, serviceVars, clientVars, Generations
<1>5. DocumentsInv' /\ DiskInv'
  BY <1>2 DEF DocumentsInv, DiskInv, At, storeVars, serviceVars
<1>6. PhaseInv'
  BY <1>1, <1>2 DEF PhaseInv, storeVars, serviceVars
<1>7. OpeningInv'
  <2>1. Serving(catalog)[a] = GenerationOf(i, catalog.records[i])
    BY <1>3, ServingIs
  <2>2. Serving(catalog)[a] # None /\ Serving(catalog)[a].id = i
    BY <1>3, <2>1, GenerationIs
  <2>3. \A b \in Alias \ {a} : Serving(catalog)[b] # None => Serving(catalog)[b].id # i
    <3> TAKE b \in Alias \ {a}
    <3> HAVE Serving(catalog)[b] # None
    <3>1. PICK j \in Enabled(catalog) : /\ catalog.records[j].alias = b
                                        /\ Serving(catalog)[b] = GenerationOf(j, catalog.records[j])
      BY <1>3, ServingIs
    <3> QED
      BY <3>1 DEF GenerationOf
  <2>4. published = [b \in Alias |->
                       IF Serving(catalog)[b] # None /\ Serving(catalog)[b].id \notin opening
                       THEN Serving(catalog)[b] ELSE None]
    BY <1>2 DEF OpeningInv
  <2>5. published' = [b \in Alias |->
                       IF Serving(catalog)[b] # None /\ Serving(catalog)[b].id \notin opening'
                       THEN Serving(catalog)[b] ELSE None]
    BY <1>1, <1>3, <2>1, <2>2, <2>3, <2>4
  <2>6. catalog' = catalog
    BY <1>2 DEF storeVars
  <2> QED
    BY <2>5, <2>6 DEF OpeningInv
<1>8. ServingInv' /\ OutcomeInv' /\ WriterInv' /\ NothingDisabledServed'
  BY <1>2 DEF ServingInv, OutcomeInv, Before, At, WriterInv, NothingDisabledServed, serviceVars
<1>9. Known' = Known
  BY <1>2 DEF Known, serviceVars, clientVars
<1>10. KnownInv' /\ FreshInv'
  BY <1>2, <1>9 DEF KnownInv, FreshInv, storeVars, serviceVars, clientVars
<1>11. ViewIsOneState'
  BY <1>2 DEF ViewIsOneState, serviceVars
<1> QED
  BY <1>4, <1>5, <1>6, <1>7, <1>8, <1>10, <1>11

\* The first view pairs the catalogue with all it serves.
LEMMA OpenDoneKeeps ==
    ASSUME IInv, OpenDone
    PROVE  IInv'
<1> USE DEF IInv
<1>1. /\ phase = "opening" /\ opening = {} /\ op = None /\ phase' = "up"
      /\ view' = [doc |-> catalog, published |-> published]
      /\ UNCHANGED <<storeVars, registryVars, opening, closed, blocked, op, clientVars>>
  BY DEF OpenDone, PhaseInv
<1>2. catalog \in Document /\ WellFormed(catalog) /\ disk = {catalog}
  BY <1>1, Types DEF DocumentsInv, DiskInv, PhaseInv
<1>3. published = Serving(catalog)
  <2>1. \A a \in Alias : published[a] = Serving(catalog)[a]
    BY <1>1 DEF OpeningInv
  <2>2. Serving(catalog) = [a \in Alias |-> Serving(catalog)[a]]
    BY DEF Serving
  <2>3. published = [a \in Alias |-> published[a]]
    BY <1>1 DEF TypeOK, Generations
  <2> QED
    BY <2>1, <2>2, <2>3
<1>4. TypeOK'
  BY <1>1 DEF TypeOK, storeVars, registryVars, clientVars, SealedView
<1>5. DocumentsInv' /\ DiskInv'
  BY <1>1, <1>2 DEF DocumentsInv, DiskInv, At, storeVars, PhaseInv
<1>6. PhaseInv'
  BY <1>1 DEF PhaseInv, storeVars, registryVars
<1>7. OpeningInv' /\ ServingInv'
  BY <1>1, <1>3 DEF OpeningInv, ServingInv, storeVars, registryVars
<1>8. OutcomeInv' /\ WriterInv'
  BY <1>1 DEF OutcomeInv, Before, At, WriterInv
<1>9. Known' \subseteq Known \cup {catalog}
  BY <1>1 DEF Known, clientVars
<1>10. Precedes(catalog, catalog)
  BY <1>2, DocumentIs DEF Precedes, Record
<1>11. KnownInv' /\ FreshInv'
  BY <1>1, <1>2, <1>9, <1>10 DEF KnownInv, FreshInv, storeVars, clientVars
<1>12. ViewIsOneState'
  BY <1>1, <1>3 DEF ViewIsOneState
<1>13. NothingDisabledServed'
  <2>1. \A a \in Alias : Serving(catalog)[a] # None => Serving(catalog)[a].id \in Enabled(catalog)
    BY <1>2, ServedIsEnabled
  <2> QED
    BY <1>1, <1>2, <1>3, <2>1 DEF NothingDisabledServed, storeVars, registryVars
<1> QED
  BY <1>4, <1>5, <1>6, <1>7, <1>8, <1>11, <1>12, <1>13

\* When the process goes, with or without close(), nothing is left but the disk,
\* which a commit under way may have reached.
LEMMA DownKeeps ==
    ASSUME IInv, TypeOK', phase' = "down", op' = None,
           disk' = disk \/ (op # None /\ disk' = disk \cup {op.next}),
           view' \in {view, None}, UNCHANGED <<seen, fresh, acked>>
    PROVE  IInv'
<1> USE DEF IInv
<1>1. DocumentsInv'
  BY DEF DocumentsInv
<1>2. DiskInv' /\ PhaseInv' /\ OpeningInv' /\ ServingInv' /\ OutcomeInv' /\ WriterInv'
  BY DEF DiskInv, PhaseInv, OpeningInv, ServingInv, OutcomeInv, Before, At, WriterInv
<1>3. Known' \subseteq Known
  BY DEF Known
<1>4. KnownInv' /\ FreshInv'
  BY <1>3 DEF KnownInv, FreshInv
<1>5. ViewIsOneState' /\ NothingDisabledServed'
  BY DEF ViewIsOneState, NothingDisabledServed
<1> QED
  BY <1>1, <1>2, <1>4, <1>5

LEMMA GoesDownKeeps ==
    ASSUME IInv, OpenFails \/ CloseStore \/ Crash
    PROVE  IInv'
<1>1. CASE OpenFails
  <2>1. TypeOK'
    BY <1>1 DEF IInv, TypeOK, OpenFails, Nothing, Generations, storeVars, serviceVars, clientVars
  <2>2. op = None
    BY <1>1 DEF IInv, PhaseInv, OpenFails
  <2> QED
    BY <1>1, <2>1, <2>2, DownKeeps DEF OpenFails, storeVars, serviceVars, clientVars
<1>2. CASE CloseStore
  <2>1. TypeOK'
    BY <1>2 DEF IInv, TypeOK, CloseStore, storeVars, registryVars, clientVars
  <2>2. op = None
    BY <1>2 DEF IInv, PhaseInv, CloseStore
  <2> QED
    BY <1>2, <2>1, <2>2, DownKeeps DEF CloseStore, storeVars, clientVars
<1>3. CASE Crash
  <2>1. TypeOK'
    <3>1. disk' \subseteq Document
      BY <1>3, Types DEF Crash, At
    <3> QED
      BY <1>3, <3>1 DEF IInv, TypeOK, Crash, Nothing, Generations
  <2> QED
    BY <1>3, <2>1, DownKeeps DEF Crash, At
<1> QED
  BY <1>1, <1>2, <1>3

\* The registry drops its generations once no write is under way.
LEMMA CloseRegistryKeeps ==
    ASSUME IInv, CloseRegistry
    PROVE  IInv'
<1> USE DEF IInv
<1>1. /\ phase = "up" /\ closed /\ op = None
      /\ UNCHANGED <<storeVars, candidates, phase, opening, serviceVars, clientVars>>
  BY DEF CloseRegistry
<1>2. \/ registry' = "closing" /\ registry # "closed" /\ published' = published
      \/ registry' = "closed" /\ published' = Nothing
  BY DEF CloseRegistry
<1>3. TypeOK'
  BY <1>1, <1>2 DEF TypeOK, storeVars, serviceVars, clientVars, Nothing, Generations
<1>4. DocumentsInv' /\ DiskInv' /\ PhaseInv'
  BY <1>1, <1>2 DEF DocumentsInv, DiskInv, PhaseInv, At, storeVars, serviceVars
<1>5. OpeningInv' /\ ServingInv' /\ OutcomeInv' /\ WriterInv'
  BY <1>1, <1>2 DEF OpeningInv, ServingInv, OutcomeInv, WriterInv, Before, At, storeVars, serviceVars
<1>6. Known' = Known
  BY <1>1 DEF Known, serviceVars, clientVars
<1>7. KnownInv' /\ FreshInv'
  BY <1>1, <1>6 DEF KnownInv, FreshInv, storeVars, serviceVars, clientVars
<1>8. ViewIsOneState' /\ NothingDisabledServed'
  BY <1>1, <1>2 DEF ViewIsOneState, NothingDisabledServed, storeVars, serviceVars, Nothing
<1> QED
  BY <1>3, <1>4, <1>5, <1>7, <1>8

-----------------------------------------------------------------------------
(* The guards of a write *)

\* When a write may enter, the disk holds the catalogue and the registry serves it.
LEMMA Enterable ==
    ASSUME IInv, NEW c \in Client, Entering(c)
    PROVE  /\ disk = {catalog} /\ catalog \in Document /\ WellFormed(catalog)
           /\ published = Serving(catalog) /\ ~poisoned
           /\ registry # "closed" /\ phase = "up" /\ op = None
           /\ seen[c] \in Known /\ seen[c] \in Document /\ seen[c] # None
           /\ catalog.rev < MaxRevision
<1>1. /\ phase = "up" /\ op = None /\ ~closed /\ ~blocked /\ seen[c] # None
      /\ catalog.rev < MaxRevision
  BY DEF Entering
<1>2. ~poisoned /\ registry # "closed"
  BY <1>1 DEF IInv, DiskInv, PhaseInv, At
<1>3. disk = {catalog} /\ catalog \in Document /\ WellFormed(catalog)
  BY <1>1, <1>2, Types DEF IInv, DiskInv, DocumentsInv
<1>4. published = Serving(catalog)
  BY <1>1, <1>2 DEF IInv, ServingInv, At
<1>5. seen[c] \in Known
  BY <1>1 DEF Known
<1>6. seen[c] \in Document
  BY <1>5, Types
<1> QED
  BY <1>1, <1>2, <1>3, <1>4, <1>5, <1>6

\* A write that starts keeps the invariant when the document it will persist is
\* well formed, follows all that was shown, and is served by what comes after the
\* persistence.
LEMMA StartKeeps ==
    ASSUME IInv, NEW c \in Client, NEW i \in Id, NEW key \in Key, NEW next \in Document,
           NEW then \in {"publish", "withdraw", "nothing"},
           Entering(c), Start(c, i, key, next, then),
           WellFormed(next),
           fresh' \subseteq fresh, fresh' \cap DOMAIN next.records = {},
           \A d \in Known : Precedes(d, next),
           then = "publish" =>
               /\ i \in Enabled(next)
               /\ next.records[i].alias \in Alias
               /\ [published EXCEPT ![next.records[i].alias] = GenerationOf(i, next.records[i])]
                    = Serving(next)
               /\ published[next.records[i].alias] # None =>
                    published[next.records[i].alias].id = i,
           then = "withdraw" => WithdrawnFrom(i) = Serving(next),
           then = "nothing" => published = Serving(next),
           i \in DOMAIN catalog.records =>
               /\ i \in DOMAIN seen[c].records
               /\ seen[c].records[i] = catalog.records[i]
    PROVE  IInv'
<1> USE DEF IInv
<1>1. /\ disk = {catalog} /\ published = Serving(catalog) /\ ~poisoned
      /\ registry # "closed" /\ phase = "up" /\ op = None /\ seen[c] # None
  BY Enterable
<1>2. UNCHANGED <<disk, catalog, poisoned, published, registry, candidates, phase, opening,
                  closed, blocked, view, testing, seen, acked>>
  BY DEF Start, storeVars, registryVars
<1>3. /\ op' \in Write /\ op' # None
      /\ op'.client = c /\ op'.id = i /\ op'.next = next /\ op'.then = then
      /\ op'.stage \in {"reserving", "checking"}
  <2>1. /\ op' \in Write
        /\ op'.client = c /\ op'.id = i /\ op'.next = next /\ op'.then = then
        /\ op'.stage \in {"reserving", "checking"}
    BY DEF Start, Write
  <2> QED
    BY <2>1, NoneAssumption
<1>4. TypeOK'
  BY <1>2, <1>3 DEF TypeOK
<1>5. DocumentsInv' /\ DiskInv' /\ PhaseInv'
  BY <1>1, <1>2, <1>3 DEF DocumentsInv, DiskInv, PhaseInv, At
<1>6. OpeningInv' /\ ServingInv' /\ NothingDisabledServed' /\ ViewIsOneState'
  BY <1>1, <1>2, <1>3 DEF OpeningInv, ServingInv, NothingDisabledServed, ViewIsOneState
<1>7. OutcomeInv'
  <2>1. Outcome' = Serving(next)
    BY <1>2, <1>3 DEF Outcome, PublishedAlias, WithdrawnFrom
  <2> QED
    BY <1>1, <1>2, <1>3, <2>1 DEF OutcomeInv, PublishAllowed, PublishedAlias
<1>8. Known' = Known
  BY <1>2 DEF Known
<1>9. KnownInv' /\ FreshInv'
  BY <1>2, <1>3, <1>8 DEF KnownInv, FreshInv
<1>10. WriterInv'
  BY <1>1, <1>2, <1>3 DEF WriterInv
<1> QED
  BY <1>4, <1>5, <1>6, <1>7, <1>9, <1>10

\* _guard: who saw the catalogue's revision, or the record's, saw the record.
LEMMA GuardSees ==
    ASSUME IInv, NEW c \in Client, NEW i \in Id, Entering(c), Guard(c, i)
    PROVE  /\ i \in DOMAIN catalog.records /\ catalog.records[i] \in Record
           /\ catalog.records[i].rev < MaxRevision
           /\ catalog.records[i].rev + 1 <= catalog.rev + 1
           /\ i \in DOMAIN seen[c].records
           /\ seen[c].records[i] = catalog.records[i]
<1>1. /\ disk = {catalog} /\ catalog \in Document /\ WellFormed(catalog)
      /\ seen[c] \in Known /\ catalog.rev < MaxRevision
  BY Enterable
<1>2. i \in DOMAIN catalog.records
  BY DEF Guard
<1>3. /\ catalog.records[i] \in Record /\ catalog.rev \in Nat
      /\ catalog.records[i].rev \in Nat
  BY <1>1, <1>2, DocumentIs, RevisionAssumption DEF Record
<1>4. catalog.records[i].rev <= catalog.rev
  BY <1>1, <1>2 DEF WellFormed
<1>5. catalog.records[i].rev < MaxRevision
  BY <1>1, <1>3, <1>4, RevisionAssumption
<1>6. Precedes(seen[c], catalog)
  BY <1>1 DEF IInv, KnownInv
<1> QED
  BY <1>2, <1>3, <1>4, <1>5, <1>6 DEF Guard, Precedes

LEMMA CreateKeeps ==
    ASSUME IInv, NEW c \in Client, NEW i \in Id, NEW a \in Alias, NEW e \in BOOLEAN,
           NEW conf \in Config, Create(c, i, a, e, conf)
    PROVE  IInv'
<1> DEFINE record == [alias |-> a, rev |-> 1, enabled |-> e, conf |-> conf]
           next == With(catalog, i, record)
           then == IF e THEN "publish" ELSE "nothing"
<1>1. /\ Entering(c) /\ i \in fresh /\ fresh' = fresh \ {i}
      /\ \A j \in DOMAIN catalog.records : catalog.records[j].alias # a
      /\ Start(c, i, a, next, then)
  BY DEF Create
<1>2. /\ disk = {catalog} /\ catalog \in Document /\ WellFormed(catalog)
      /\ published = Serving(catalog) /\ catalog.rev < MaxRevision /\ catalog.rev \in Nat
  BY <1>1, Enterable, DocumentIs
<1>3. record \in Record /\ record.rev = 1 /\ record.alias = a /\ record.enabled = e
  BY RevisionAssumption DEF Record
<1>4. i \notin DOMAIN catalog.records /\ \A d \in Known : i \notin DOMAIN d.records
  BY <1>1, <1>2 DEF IInv, FreshInv
<1> HIDE DEF record
<1>5. /\ next \in Document
      /\ DOMAIN next.records = DOMAIN catalog.records \cup {i}
      /\ next.records[i] = record
      /\ \A j \in DOMAIN catalog.records \ {i} : next.records[j] = catalog.records[j]
  BY <1>2, <1>3, WithIs
<1>6. WellFormed(next)
  BY <1>1, <1>2, <1>3, WithWellFormed
<1>7. \A d \in Known : Precedes(d, next)
  BY <1>2, <1>3, <1>4, Types, WithPrecedes DEF IInv, KnownInv
<1>8. e => /\ [published EXCEPT ![a] = GenerationOf(i, record)] = Serving(next)
           /\ i \in Enabled(next)
           /\ published[a] # None => published[a].id = i
  BY <1>2, <1>3, <1>4, <1>6, PublishServes
<1> HIDE DEF next
<1>9. ~e => published = Serving(next)
  <2> SUFFICES ASSUME ~e PROVE published = Serving(next)
    OBVIOUS
  <2>1. i \notin Enabled(next) /\ i \notin Enabled(catalog)
    BY <1>3, <1>4, <1>5 DEF Enabled
  <2> QED
    BY <1>2, <1>5, <1>6, <2>1, NothingServes
<1>10. fresh' \subseteq fresh /\ fresh' \cap DOMAIN next.records = {}
  BY <1>1, <1>2, <1>5 DEF IInv, FreshInv
<1>11. /\ then \in {"publish", "withdraw", "nothing"} /\ a \in Key
       /\ then = "publish" <=> e
       /\ then = "nothing" <=> ~e
       /\ then # "withdraw"
  BY DEF Key
<1> HIDE DEF then
<1> QED
  BY <1>1, <1>3, <1>4, <1>5, <1>6, <1>7, <1>8, <1>9, <1>10, <1>11, StartKeeps

\* update, set_enabled and rotate_secret write a newer record under the same alias.
LEMMA RewriteKeeps ==
    ASSUME IInv, NEW c \in Client, NEW i \in Id, Entering(c), Guard(c, i),
           NEW record \in Record,
           record.rev = catalog.records[i].rev + 1,
           record.alias = catalog.records[i].alias,
           NEW then \in {"publish", "withdraw", "nothing"},
           Start(c, i, i, With(catalog, i, record), then), fresh' = fresh,
           then = "publish" <=> record.enabled,
           then = "nothing" => ~catalog.records[i].enabled
    PROVE  IInv'
<1> DEFINE next == With(catalog, i, record)
<1>1. /\ disk = {catalog} /\ catalog \in Document /\ WellFormed(catalog)
      /\ published = Serving(catalog) /\ catalog.rev < MaxRevision
  BY Enterable
<1>2. /\ i \in DOMAIN catalog.records
      /\ catalog.records[i].rev + 1 <= catalog.rev + 1
      /\ i \in DOMAIN seen[c].records /\ seen[c].records[i] = catalog.records[i]
  BY GuardSees
<1>3. /\ next \in Document
      /\ DOMAIN next.records = DOMAIN catalog.records \cup {i}
      /\ next.records[i] = record
      /\ \A j \in DOMAIN catalog.records \ {i} : next.records[j] = catalog.records[j]
  BY <1>1, WithIs
<1>4. WellFormed(next)
  <2>1. \A j \in DOMAIN catalog.records \ {i} : catalog.records[j].alias # record.alias
    BY <1>1, <1>2 DEF WellFormed
  <2> QED
    BY <1>1, <1>2, <2>1, WithWellFormed
<1>5. \A d \in Known : Precedes(d, next)
  BY <1>1, <1>2, Types, WithPrecedes DEF IInv, KnownInv
<1>6. then = "publish" =>
        /\ [published EXCEPT ![record.alias] = GenerationOf(i, record)] = Serving(next)
        /\ i \in Enabled(next)
        /\ published[record.alias] # None => published[record.alias].id = i
  BY <1>1, <1>2, <1>4, PublishServes
<1> HIDE DEF next
<1>7. then # "publish" => i \notin Enabled(next)
  BY <1>3 DEF Enabled
<1>8. \A j \in Id \ {i} : /\ j \in DOMAIN catalog.records <=> j \in DOMAIN next.records
                          /\ j \in DOMAIN catalog.records => next.records[j] = catalog.records[j]
  BY <1>3
<1>9. then = "withdraw" => WithdrawnFrom(i) = Serving(next)
  BY <1>1, <1>3, <1>4, <1>7, <1>8, WithdrawServes DEF WithdrawnFrom
<1>10. then = "nothing" => published = Serving(next)
  <2>1. then = "nothing" => i \notin Enabled(catalog)
    BY DEF Enabled
  <2> QED
    BY <1>1, <1>3, <1>4, <1>7, <1>8, <2>1, NothingServes
<1>11. fresh' \cap DOMAIN next.records = {}
  BY <1>1, <1>2, <1>3 DEF IInv, FreshInv
<1>12. record.alias \in Alias /\ i \in Key
  BY DEF Record, Key
<1>13. Start(c, i, i, next, then)
  BY DEF next
<1> QED
  BY <1>2, <1>3, <1>4, <1>5, <1>6, <1>9, <1>10, <1>11, <1>12, <1>13, StartKeeps

LEMMA BumpedIs ==
    ASSUME NEW record \in Record, record.rev < MaxRevision
    PROVE  /\ Bumped(record) \in Record
           /\ Bumped(record).rev = record.rev + 1
           /\ Bumped(record).alias = record.alias
           /\ Bumped(record).enabled = record.enabled
<1>1. record.rev + 1 \in 1..MaxRevision
  BY RevisionAssumption DEF Record
<1> QED
  BY <1>1 DEF Bumped, Record

LEMMA UpdateKeeps ==
    ASSUME IInv, NEW c \in Client, NEW i \in Id, NEW e \in BOOLEAN, NEW conf \in Config,
           Update(c, i, e, conf)
    PROVE  IInv'
<1> DEFINE record == [Bumped(catalog.records[i]) EXCEPT !.enabled = e, !.conf = conf]
           then == IF e THEN "publish" ELSE "withdraw"
<1>1. /\ Entering(c) /\ Guard(c, i) /\ fresh' = fresh
      /\ Start(c, i, i, With(catalog, i, record), then)
  BY DEF Update
<1>2. catalog.records[i] \in Record /\ catalog.records[i].rev < MaxRevision
  BY <1>1, GuardSees
<1>3. /\ record \in Record /\ record.enabled = e
      /\ record.rev = catalog.records[i].rev + 1 /\ record.alias = catalog.records[i].alias
  BY <1>2, BumpedIs DEF Record
<1>4. then \in {"publish", "withdraw"} /\ (then = "publish" <=> e)
  OBVIOUS
<1> HIDE DEF record, then
<1> QED
  BY <1>1, <1>3, <1>4, RewriteKeeps

LEMMA RotateSecretKeeps ==
    ASSUME IInv, NEW c \in Client, NEW i \in Id, NEW conf \in Config, RotateSecret(c, i, conf)
    PROVE  IInv'
<1> DEFINE record == [Bumped(catalog.records[i]) EXCEPT !.conf = conf]
           then == IF catalog.records[i].enabled THEN "publish" ELSE "nothing"
<1>1. /\ Entering(c) /\ Guard(c, i) /\ fresh' = fresh
      /\ Start(c, i, i, With(catalog, i, record), then)
  BY DEF RotateSecret
<1>2. catalog.records[i] \in Record /\ catalog.records[i].rev < MaxRevision
  BY <1>1, GuardSees
<1>3. /\ record \in Record /\ record.enabled = catalog.records[i].enabled
      /\ catalog.records[i].enabled \in BOOLEAN
      /\ record.rev = catalog.records[i].rev + 1 /\ record.alias = catalog.records[i].alias
  BY <1>2, BumpedIs DEF Record
<1>4. /\ then \in {"publish", "nothing"}
      /\ then = "publish" <=> catalog.records[i].enabled
  BY <1>3
<1> HIDE DEF record, then
<1> QED
  BY <1>1, <1>3, <1>4, RewriteKeeps

LEMMA RemoveKeeps ==
    ASSUME IInv, NEW c \in Client, NEW i \in Id, Remove(c, i)
    PROVE  IInv'
<1> DEFINE next == Without(catalog, i)
<1>1. /\ Entering(c) /\ Guard(c, i) /\ fresh' = fresh
      /\ Start(c, i, i, next, "withdraw")
  BY DEF Remove
<1>2. /\ disk = {catalog} /\ catalog \in Document /\ WellFormed(catalog)
      /\ published = Serving(catalog) /\ catalog.rev < MaxRevision
  BY <1>1, Enterable
<1>3. /\ i \in DOMAIN catalog.records
      /\ i \in DOMAIN seen[c].records /\ seen[c].records[i] = catalog.records[i]
  BY <1>1, GuardSees
<1>4. /\ next \in Document
      /\ DOMAIN next.records = DOMAIN catalog.records \ {i}
      /\ \A j \in DOMAIN catalog.records \ {i} : next.records[j] = catalog.records[j]
  BY <1>2, WithoutIs
<1>5. WellFormed(next)
  BY <1>2, WithoutWellFormed
<1>6. \A d \in Known : Precedes(d, next)
  BY <1>2, Types, WithoutPrecedes DEF IInv, KnownInv
<1> HIDE DEF next
<1>7. WithdrawnFrom(i) = Serving(next)
  <2>1. i \notin Enabled(next)
    BY <1>4 DEF Enabled
  <2> QED
    BY <1>2, <1>4, <1>5, <2>1, WithdrawServes DEF WithdrawnFrom
<1>8. fresh' \cap DOMAIN next.records = {} /\ i \in Key
  BY <1>1, <1>2, <1>4 DEF IInv, FreshInv, Key
<1> QED
  BY <1>1, <1>3, <1>4, <1>5, <1>6, <1>7, <1>8, StartKeeps

-----------------------------------------------------------------------------
(* The stages of a write *)

LEMMA GoToIs ==
    ASSUME IInv, op # None,
           NEW st \in {"reserving", "checking", "persisted", "failed", "uncertain", "sealing"},
           GoTo(st)
    PROVE  /\ op' \in Write /\ op' # None /\ op'.stage = st
           /\ op'.client = op.client /\ op'.id = op.id /\ op'.key = op.key
           /\ op'.next = op.next /\ op'.then = op.then
<1>1. op \in Write
  BY Types
<1>2. /\ op' \in Write /\ op'.stage = st
      /\ op'.client = op.client /\ op'.id = op.id /\ op'.key = op.key
      /\ op'.next = op.next /\ op'.then = op.then
  BY <1>1 DEF GoTo, Write
<1> QED
  BY <1>2, NoneAssumption

\* The candidate slot of a write is a key, taken or given back.
LEMMA SlotType ==
    ASSUME IInv, op # None
    PROVE  candidates \cup {op.key} \subseteq Key /\ Reserved \subseteq Key
  BY Types DEF IInv, TypeOK, Write, Reserved

LEMMA ReserveKeeps ==
    ASSUME IInv, Reserve
    PROVE  IInv'
<1> USE DEF IInv
<1>1. /\ op # None /\ op.stage = "reserving" /\ GoTo("checking")
      /\ UNCHANGED <<disk, catalog, poisoned, published, registry, phase, opening, closed,
                     blocked, view, testing, seen, fresh, acked>>
  BY DEF Reserve, At, storeVars, clientVars
<1>2. /\ op' \in Write /\ op' # None /\ op'.stage = "checking"
      /\ op'.client = op.client /\ op'.id = op.id
      /\ op'.next = op.next /\ op'.then = op.then
  BY <1>1, GoToIs
<1>3. TypeOK'
  BY <1>1, <1>2, SlotType DEF TypeOK, Reserve
<1>4. DocumentsInv' /\ DiskInv' /\ PhaseInv'
  BY <1>1, <1>2 DEF DocumentsInv, DiskInv, PhaseInv, At
<1>5. OpeningInv' /\ ServingInv' /\ NothingDisabledServed' /\ ViewIsOneState'
  BY <1>1, <1>2 DEF OpeningInv, ServingInv, NothingDisabledServed, ViewIsOneState, At
<1>6. OutcomeInv'
  <2>1. Outcome' = Outcome /\ PublishAllowed' = PublishAllowed
    BY <1>1, <1>2 DEF Outcome, PublishAllowed, PublishedAlias, WithdrawnFrom
  <2> QED
    BY <1>1, <1>2, <2>1 DEF OutcomeInv, Before
<1>7. Known' = Known
  BY <1>1 DEF Known
<1>8. KnownInv' /\ FreshInv' /\ WriterInv'
  BY <1>1, <1>2, <1>7 DEF KnownInv, FreshInv, WriterInv
<1> QED
  BY <1>3, <1>4, <1>5, <1>6, <1>8

\* The store acknowledges the commit: the registry still serves the document before.
LEMMA PersistKeeps ==
    ASSUME IInv, Persist
    PROVE  IInv'
<1> USE DEF IInv
<1>1. /\ op # None /\ op.stage = "checking" /\ GoTo("persisted")
      /\ disk' = {op.next} /\ catalog' = op.next
      /\ UNCHANGED <<poisoned, published, registry, candidates, phase, opening, closed,
                     blocked, view, testing, seen, fresh, acked>>
  BY DEF Persist, At, registryVars, clientVars
<1>2. /\ op' \in Write /\ op' # None /\ op'.stage = "persisted"
      /\ op'.client = op.client /\ op'.id = op.id
      /\ op'.next = op.next /\ op'.then = op.then
  BY <1>1, GoToIs
<1>3. TypeOK'
  BY <1>1, <1>2, Types DEF TypeOK
<1>4. DocumentsInv' /\ DiskInv'
  BY <1>1, <1>2 DEF DocumentsInv, DiskInv, PhaseInv, At
<1>5. PhaseInv' /\ OpeningInv' /\ ServingInv' /\ NothingDisabledServed' /\ ViewIsOneState'
  BY <1>1, <1>2 DEF PhaseInv, OpeningInv, ServingInv, NothingDisabledServed, ViewIsOneState, At
<1>6. OutcomeInv'
  <2>1. Outcome' = Outcome /\ PublishAllowed' = PublishAllowed
    BY <1>1, <1>2 DEF Outcome, PublishAllowed, PublishedAlias, WithdrawnFrom
  <2> QED
    BY <1>1, <1>2, <2>1 DEF OutcomeInv, Before
<1>7. Known' = Known
  BY <1>1 DEF Known
<1>8. KnownInv' /\ FreshInv' /\ WriterInv'
  BY <1>1, <1>2, <1>7 DEF KnownInv, FreshInv, WriterInv
<1> QED
  BY <1>3, <1>4, <1>5, <1>6, <1>8

\* The commit fails, or nobody knows whether it did: the store must be reopened.
LEMMA PersistFailsKeeps ==
    ASSUME IInv, PersistFails \/ PersistUncertain
    PROVE  IInv'
<1> USE DEF IInv
<1>1. /\ op # None /\ op.stage = "checking" /\ poisoned' = TRUE
      /\ UNCHANGED <<catalog, published, registry, candidates, phase, opening, closed,
                     blocked, view, testing, seen, fresh, acked>>
  BY DEF PersistFails, PersistUncertain, At, registryVars, clientVars
<1>2. PICK st \in {"failed", "uncertain"} :
        /\ GoTo(st)
        /\ st = "failed" => disk' = disk
        /\ st = "uncertain" => disk' = disk \cup {op.next}
  BY DEF PersistFails, PersistUncertain
<1>3. /\ op' \in Write /\ op' # None /\ op'.stage = st
      /\ op'.client = op.client /\ op'.id = op.id
      /\ op'.next = op.next /\ op'.then = op.then
  BY <1>1, <1>2, GoToIs
<1>4. disk = {catalog} /\ phase = "up" /\ ~poisoned
  BY <1>1 DEF DiskInv, PhaseInv
<1>5. TypeOK'
  BY <1>1, <1>2, <1>3, Types DEF TypeOK
<1>6. DocumentsInv' /\ DiskInv'
  BY <1>1, <1>2, <1>3, <1>4 DEF DocumentsInv, DiskInv, At
<1>7. PhaseInv' /\ OpeningInv' /\ ServingInv' /\ NothingDisabledServed' /\ ViewIsOneState'
  BY <1>1, <1>3, <1>4
     DEF PhaseInv, OpeningInv, ServingInv, NothingDisabledServed, ViewIsOneState, At
<1>8. OutcomeInv'
  <2>1. Outcome' = Outcome /\ PublishAllowed' = PublishAllowed
    BY <1>1, <1>3 DEF Outcome, PublishAllowed, PublishedAlias, WithdrawnFrom
  <2> QED
    BY <1>1, <1>3, <2>1 DEF OutcomeInv, Before
<1>9. Known' = Known
  BY <1>1 DEF Known
<1>10. KnownInv' /\ FreshInv' /\ WriterInv'
  BY <1>1, <1>2, <1>3, <1>9 DEF KnownInv, FreshInv, WriterInv
<1> QED
  BY <1>5, <1>6, <1>7, <1>8, <1>10

\* publish, withdraw, or nothing: the registry now serves the document written.
LEMMA PublicationKeeps ==
    ASSUME IInv, Publish \/ Withdraw \/ NothingToPublish
    PROVE  IInv'
<1> USE DEF IInv
<1>1. /\ op # None /\ op.stage = "persisted" /\ GoTo("sealing")
      /\ UNCHANGED <<disk, catalog, poisoned, registry, candidates, phase, opening, closed,
                     blocked, view, testing, seen, fresh, acked>>
  BY DEF Publish, Withdraw, NothingToPublish, At, storeVars, registryVars, clientVars
<1>2. /\ op' \in Write /\ op' # None /\ op'.stage = "sealing"
      /\ op'.client = op.client /\ op'.id = op.id
      /\ op'.next = op.next /\ op'.then = op.then
  BY <1>1, GoToIs
<1>3. /\ disk = {catalog} /\ catalog = op.next /\ phase = "up" /\ ~poisoned
      /\ registry # "closed"
      /\ op.next \in Document /\ WellFormed(op.next)
  BY <1>1, Types DEF DiskInv, PhaseInv, DocumentsInv, At
<1>4. published' = Serving(op.next)
  <2>1. Outcome = Serving(op.next)
    BY <1>1 DEF OutcomeInv, At
  <2>2. published' = Outcome
    BY DEF Publish, Withdraw, NothingToPublish, Outcome, registryVars
  <2> QED
    BY <2>1, <2>2
<1>5. TypeOK'
  BY <1>1, <1>2, <1>3, <1>4, ServingType DEF TypeOK
<1>6. DocumentsInv' /\ DiskInv'
  BY <1>1, <1>2, <1>3 DEF DocumentsInv, DiskInv, At
<1>7. PhaseInv' /\ OpeningInv' /\ ServingInv' /\ NothingDisabledServed' /\ ViewIsOneState'
  BY <1>1, <1>2, <1>3, <1>4
     DEF PhaseInv, OpeningInv, ServingInv, NothingDisabledServed, ViewIsOneState
<1>8. OutcomeInv'
  BY <1>2 DEF OutcomeInv, Before, At
<1>9. Known' = Known
  BY <1>1 DEF Known
<1>10. KnownInv' /\ FreshInv' /\ WriterInv'
  BY <1>1, <1>2, <1>9 DEF KnownInv, FreshInv, WriterInv
<1> QED
  BY <1>5, <1>6, <1>7, <1>8, <1>10

\* However a write ends, it keeps the invariant if the documents stay, a poisoned
\* store blocks the service, what is then published is enabled on every document
\* the disk may hold, and nothing is shown but what was, or the one document of
\* the disk.
LEMMA EndKeeps ==
    ASSUME IInv, TypeOK', op # None, op' = None,
           UNCHANGED <<disk, catalog, poisoned, registry, phase, opening, closed, fresh, seen>>,
           blocked => blocked', poisoned => blocked',
           ~poisoned => published' = Serving(catalog) /\ disk = {catalog},
           Known' \subseteq Known \/ (disk = {catalog} /\ Known' \subseteq Known \cup {catalog}),
           ViewIsOneState',
           \A a \in Alias : published'[a] # None => \A doc \in disk : published'[a].id \in Enabled(doc)
    PROVE  IInv'
<1> USE DEF IInv
<1>1. phase = "up" /\ registry # "closed"
  BY DEF PhaseInv
<1>2. DocumentsInv' /\ DiskInv'
  BY <1>1 DEF DocumentsInv, DiskInv, At
<1>3. PhaseInv' /\ OpeningInv' /\ ServingInv' /\ OutcomeInv' /\ WriterInv'
  BY <1>1 DEF PhaseInv, OpeningInv, ServingInv, OutcomeInv, WriterInv, Before, At
<1>4. Precedes(catalog, catalog)
  BY Types, DocumentIs DEF Precedes, Record
<1>5. KnownInv' /\ FreshInv'
  BY <1>4 DEF KnownInv, FreshInv
<1>6. NothingDisabledServed'
  BY DEF NothingDisabledServed
<1> QED
  BY <1>2, <1>3, <1>5, <1>6

\* The write is abandoned before its commit, or ends after it: the registry serves
\* the one document of the disk.
LEMMA SettledKeeps ==
    ASSUME IInv, Abandon \/ FailedWrite \/ SealFails \/ Seal
    PROVE  IInv'
<1>1. /\ op # None /\ op.stage \in {"reserving", "checking", "failed", "sealing"} /\ op' = None
      /\ UNCHANGED <<disk, catalog, poisoned, published, registry, phase, opening, closed,
                     testing, seen, fresh>>
      /\ candidates' \in {candidates, Reserved}
  BY DEF Abandon, FailedWrite, SealFails, Seal, At, EndWrite, storeVars, clientVars
<1>2. /\ disk = {catalog} /\ catalog \in Document /\ WellFormed(catalog)
      /\ published = Serving(catalog)
      /\ phase = "up" /\ registry # "closed"
      /\ poisoned => op.stage = "failed"
  <2>1. phase = "up" /\ registry # "closed"
    BY <1>1 DEF IInv, PhaseInv
  <2>2. disk = {catalog} /\ (poisoned => op.stage = "failed")
    BY <1>1, <2>1 DEF IInv, DiskInv, At
  <2>3. catalog \in Document /\ WellFormed(catalog)
    BY <2>2, Types DEF IInv, DocumentsInv
  <2>4. published = Serving(catalog)
    BY <1>1, <2>1 DEF IInv, ServingInv, At
  <2> QED
    BY <2>1, <2>2, <2>3, <2>4
<1>3. /\ blocked' \in BOOLEAN
      /\ blocked => blocked'
      /\ poisoned => blocked'
  BY <1>1, <1>2 DEF Abandon, FailedWrite, SealFails, Seal, At, Block, IInv, TypeOK
<1>4. \/ view' \in {view, None} /\ acked' = acked
      \/ view' = [doc |-> catalog, published |-> published] /\ acked' = catalog
  BY DEF Abandon, FailedWrite, SealFails, Seal, Block, clientVars
<1>5. TypeOK'
  BY <1>1, <1>2, <1>3, <1>4, SlotType DEF IInv, TypeOK, SealedView
<1>6. Known' \subseteq Known \cup {catalog}
  BY <1>1, <1>4 DEF Known
<1>7. ViewIsOneState'
  BY <1>2, <1>4 DEF IInv, ViewIsOneState
<1>8. \A a \in Alias : published[a] # None => published[a].id \in Enabled(catalog)
  BY <1>2, ServedIsEnabled
<1> QED
  BY <1>1, <1>2, <1>3, <1>5, <1>6, <1>7, <1>8, EndKeeps

\* After a commit of unknown outcome the disk holds either document: what stays
\* published is enabled in both.
LEMMA UncertainEndKeeps ==
    ASSUME IInv, UncertainWrite
    PROVE  IInv'
<1>1. /\ op # None /\ op.stage = "uncertain" /\ op' = None /\ blocked' = TRUE /\ view' = None
      /\ published' = IF op.then = "withdraw" THEN WithdrawnFrom(op.id) ELSE published
      /\ candidates' = Reserved
      /\ UNCHANGED <<disk, catalog, poisoned, registry, phase, opening, closed,
                     testing, seen, fresh, acked>>
  BY DEF UncertainWrite, At, Block, EndWrite, storeVars, clientVars
<1>2. /\ disk = {catalog, op.next} /\ catalog \in Document /\ WellFormed(catalog)
      /\ op.next \in Document /\ WellFormed(op.next) /\ op \in Write
      /\ published = Serving(catalog) /\ poisoned
  <2>1. phase = "up" /\ registry # "closed"
    BY <1>1 DEF IInv, PhaseInv
  <2>2. disk = {catalog, op.next} /\ poisoned
    BY <1>1 DEF IInv, DiskInv, At
  <2>3. /\ catalog \in Document /\ WellFormed(catalog)
        /\ op.next \in Document /\ WellFormed(op.next) /\ op \in Write
    BY <1>1, <2>2, Types DEF IInv, DocumentsInv
  <2>4. published = Serving(catalog)
    BY <1>1, <2>1 DEF IInv, ServingInv, At
  <2> QED
    BY <2>1, <2>2, <2>3, <2>4
<1>3. TypeOK'
  <2>1. WithdrawnFrom(op.id) \in Generations
    BY DEF WithdrawnFrom, IInv, TypeOK, Generations
  <2> QED
    BY <1>1, <2>1, SlotType DEF IInv, TypeOK
<1>4. Known' \subseteq Known
  BY <1>1 DEF Known
<1>5. ViewIsOneState'
  BY <1>1 DEF ViewIsOneState
<1>6. ASSUME NEW a \in Alias, published'[a] # None
      PROVE  published'[a].id \in Enabled(catalog) /\ published'[a].id \in Enabled(op.next)
  <2>1. published'[a] = published[a]
    BY <1>1, <1>6 DEF WithdrawnFrom
  <2>2. published[a].id \in Enabled(catalog)
    BY <1>2, <1>6, <2>1, ServedIsEnabled
  <2>3. published[a].id \in Enabled(op.next)
    <3>1. /\ Outcome = Serving(op.next)
          /\ op.then = "publish" => op.id \in Enabled(op.next) /\ PublishAllowed
      BY <1>1 DEF IInv, OutcomeInv, Before
    <3>2. CASE Outcome[a] = published[a]
      BY <1>2, <1>6, <2>1, <3>1, <3>2, ServedIsEnabled
    <3>3. CASE op.then = "publish" /\ a = PublishedAlias
      BY <1>6, <2>1, <3>1, <3>3 DEF PublishAllowed
    <3>4. CASE op.then = "publish" /\ a # PublishedAlias
      <4>1. Outcome[a] = published[a]
        BY <3>4 DEF Outcome, IInv, TypeOK, Generations
      <4> QED
        BY <3>2, <4>1
    <3>5. CASE op.then = "withdraw"
      <4>1. Outcome[a] = published[a]
        BY <1>1, <2>1, <3>5 DEF Outcome
      <4> QED
        BY <3>2, <4>1
    <3>6. CASE op.then = "nothing"
      <4>1. Outcome[a] = published[a]
        BY <3>6 DEF Outcome
      <4> QED
        BY <3>2, <4>1
    <3> QED
      BY <1>2, <3>3, <3>4, <3>5, <3>6 DEF Write
  <2> QED
    BY <2>1, <2>2, <2>3
<1> QED
  BY <1>1, <1>2, <1>3, <1>4, <1>5, <1>6, EndKeeps

-----------------------------------------------------------------------------
(* The theorems *)

\* Every step of the service keeps the invariant.
LEMMA StepInvariant ==
    ASSUME IInv, [Next]_vars
    PROVE  IInv'
<1>1. CASE UNCHANGED vars
  <2>1. UNCHANGED <<disk, catalog, poisoned, published, registry, candidates, phase, opening,
                    closed, blocked, view, op, testing, seen, fresh, acked>>
    BY <1>1 DEF vars, storeVars, registryVars, serviceVars, clientVars
  <2>2. TypeOK' /\ Known' = Known
    BY <2>1 DEF IInv, TypeOK, Known
  <2> QED
    BY <2>1, <2>2, QuietKeeps
<1>2. CASE Startup
  BY <1>2, OpenKeeps, OpenNextKeeps, OpenDoneKeeps, GoesDownKeeps DEF Startup
<1>3. CASE Calls
  <2>1. PICK c \in Client :
          \/ Read(c)
          \/ \E k \in Key : Test(c, k)
          \/ \E i \in Id, a \in Alias, e \in BOOLEAN, p \in Config : Create(c, i, a, e, p)
          \/ \E i \in Id, e \in BOOLEAN, p \in Config : Update(c, i, e, p)
          \/ \E i \in Id, p \in Config : RotateSecret(c, i, p)
          \/ \E i \in Id : Remove(c, i)
    BY <1>3 DEF Calls
  <2> QED
    BY <2>1, ReadKeeps, TestKeeps, CreateKeeps, UpdateKeeps, RotateSecretKeeps, RemoveKeeps
<1>4. CASE WriteSteps
  BY <1>4, ReserveKeeps, PersistKeeps, PersistFailsKeeps, PublicationKeeps, SettledKeeps,
     UncertainEndKeeps DEF WriteSteps
<1>5. CASE \E c \in Client : TestReserves(c) \/ TestEnds(c)
  BY <1>5, TestKeeps
<1>6. CASE BlockUnknown \/ BeginShutdown \/ CloseService
  BY <1>6, ShutdownStepKeeps
<1>7. CASE CloseSteps \/ Crash
  BY <1>7, CloseRegistryKeeps, GoesDownKeeps DEF CloseSteps
<1> QED
  BY <1>1, <1>2, <1>3, <1>4, <1>5, <1>6, <1>7 DEF Next

\* The inductive invariant holds in every reachable state of the service.
LEMMA Invariant == Spec => []IInv
<1>1. Init => IInv
  BY InitInvariant
<1>2. IInv /\ [Next]_vars => IInv'
  BY StepInvariant
<1> QED
  BY <1>1, <1>2, PTL DEF Spec

\* The service is sound for any clients, datasources and revisions, through failed
\* and uncertain commits, blocks, shutdowns and crashes: a sealed view pairs a
\* catalogue with what it asks for, nothing the disk may call disabled is served
\* between writes, and what was answered survives every restart.
THEOREM ServiceCorrect == Spec => []ServiceSound
<1>1. IInv => ServiceSound
  <2> SUFFICES ASSUME IInv PROVE ServiceSound
    OBVIOUS
  <2>1. AnsweredSurvives
    <3>1. acked \in Known
      BY DEF Known
    <3>2. \A doc \in disk : Precedes(acked, doc)
      BY <3>1 DEF IInv, KnownInv
    <3>3. acked.rev \in Nat /\ \A doc \in disk : doc.rev \in Nat
      BY <3>1, Types, DocumentIs
    <3> QED
      BY <3>2, <3>3 DEF AnsweredSurvives, Precedes
  <2> QED
    BY <2>1 DEF IInv, ServiceSound
<1> QED
  BY <1>1, Invariant, PTL

\* No write overwrites a record its caller did not read, whatever happened between
\* the reading and the write.
THEOREM UpdatesCorrect == Spec => NoLostUpdate
<1> DEFINE Kept == \A i \in DOMAIN catalog.records :
        (At("checking") /\ op.id = i /\ catalog' # catalog /\ phase = "up") =>
            /\ i \in DOMAIN seen[op.client].records
            /\ seen[op.client].records[i] = catalog.records[i]
<1>1. IInv /\ [Next]_vars => [Kept]_vars
  <2> SUFFICES ASSUME IInv PROVE Kept
    OBVIOUS
  <2> QED
    BY DEF IInv, WriterInv, At
<1> QED
  BY <1>1, Invariant, PTL DEF Spec, NoLostUpdate
=============================================================================
