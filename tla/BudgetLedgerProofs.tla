------------------------- MODULE BudgetLedgerProofs -------------------------
(***************************************************************************)
(* The ledger's credits are sound, for any number of slots, epochs,        *)
(* datasources and bytes.  Every method publishes through _commit, which   *)
(* validates the totals, so the induction is about the references: what a  *)
(* session names still exists, one generation of a datasource is live, and *)
(* the tokens handed out are those of the occupied slots.                  *)
(***************************************************************************)
EXTENDS BudgetLedger, FiniteSetTheorems, TLAPS

(* Of an image: what its sessions refer to is there. *)
RefersToLive(i) ==
    \A s \in Of(i.entry, "SESSION") :
        LET g == i.entry[s].gen
        IN  /\ g \in Token
            /\ i.epoch[g[1]] = g[2]
            /\ i.entry[g[1]] # None
            /\ i.entry[g[1]].kind = "GENERATION"
            /\ i.entry[g[1]].ds = i.entry[s].ds

(* Of an image: one generation of a datasource is live. *)
OneLive(i) ==
    \A r, s \in Of(i.entry, "GENERATION") :
        (i.entry[r].ds = i.entry[s].ds /\ i.entry[r].state = "LIVE" /\ i.entry[s].state = "LIVE")
            => r = s

(* Of an image: a generation is born live; it is never one that mark_live   *)
(* could make the second live one.                                         *)
BornLive(i) == \A s \in Of(i.entry, "GENERATION") : i.entry[s].state # "RESERVED"

Held(i) == {<<s, i.epoch[s]>> : s \in {r \in Slot : i.entry[r] # None}}

IInv ==
    /\ TypeOK
    /\ WithinLimits
    /\ RefersToLive(image)
    /\ OneLive(image)
    /\ BornLive(image)
    /\ failure = None => owed = Held(image)
-----------------------------------------------------------------------------
(* Initially nothing is held *)

\* Among subsets of a finite set some are minimal: how the proofs below do
\* induction over a finite set.
LEMMA MinimalSet ==
    ASSUME NEW S, IsFiniteSet(S), NEW T \in SUBSET SUBSET S, T # {}
    PROVE  \E x \in T : \A y \in T : ~(y \subseteq x /\ y # x)
<1>1. T \subseteq FiniteSubsetsOf(S)
  BY FS_Subset DEF FiniteSubsetsOf
<1>2. \E x \in T : \A y \in T : <<y, x>> \notin StrictSubsetOrdering(S)
  BY <1>1, FS_StrictSubsetOrderingWellFounded, WFMin
<1> QED
  BY <1>2 DEF StrictSubsetOrdering

\* The slots of a new ledger hold no bytes: the fold that sums them up is the
\* fixed point of a step that the constant zero satisfies, and by induction over
\* the sets of slots it is zero.
LEMMA NoBytesHeld ==
    MapThenSumSet(LAMBDA s : Bytes([r \in Slot |-> None][s]), Slot) = 0
<1> DEFINE Pick(s) == CHOOSE x \in s : TRUE
           rows == [r \in Slot |-> None]
           Step(f) == [s \in SUBSET Slot |->
                         IF s = {} THEN 0 ELSE Bytes(rows[Pick(s)]) + f[s \ {Pick(s)}]]
           sum == CHOOSE f : f = Step(f)
           zero == [s \in SUBSET Slot |-> 0]
           T == {s \in SUBSET Slot : sum[s] # 0}
<1>1. MapThenSumSet(LAMBDA s : Bytes(rows[s]), Slot) = sum[Slot]
  BY DEF MapThenSumSet, MapThenFoldSet
<1>2. \A s \in SUBSET Slot : s # {} => Pick(s) \in s /\ Bytes(rows[Pick(s)]) = 0
  BY DEF Bytes
<1>3. zero = Step(zero)
  BY <1>2
<1>4. sum = Step(sum)
  BY <1>3
<1> HIDE DEF sum
<1>5. IsFiniteSet(Slot)
  BY FS_Interval, EntriesAssumption DEF Slot
<1>6. T \in SUBSET SUBSET Slot
  OBVIOUS
<1>7. ASSUME T # {} PROVE FALSE
  <2>1. PICK x \in T : \A y \in T : ~(y \subseteq x /\ y # x)
    <3> HIDE DEF T
    <3> QED
      BY <1>5, <1>6, <1>7, MinimalSet
  <2>2. CASE x = {}
    BY <1>4, <2>1, <2>2
  <2>3. CASE x # {}
    <3>1. sum[x \ {Pick(x)}] = 0
      BY <1>2, <2>1, <2>3
    <3>2. sum[x] = Bytes(rows[Pick(x)]) + sum[x \ {Pick(x)}]
      BY <1>4, <2>3
    <3> QED
      BY <3>1, <3>2, <1>2, <2>1, <2>3
  <2> QED
    BY <2>2, <2>3
<1> QED
  BY <1>1, <1>7

\* A new ledger satisfies the invariant.
LEMMA InitInvariant ==
    ASSUME Init
    PROVE  IInv
<1>1. \A k \in Kind : Of(entry, k) = {}
  BY DEF Init, Of
<1>2. TypeOK
  BY EntriesAssumption DEF Init, TypeOK, image, Image
<1>3. Used(entry) <= Limits.total
  <2>1. MapThenSumSet(LAMBDA s : Bytes(entry[s]), Slot) = 0
    BY NoBytesHeld DEF Init
  <2> QED
    BY <2>1, LimitsAssumption DEF Used
<1>4. FitsPlaces(entry)
  BY <1>1, FS_EmptySet, LimitsAssumption DEF FitsPlaces, Kind
<1>5. WithinLimits
  BY <1>3, <1>4 DEF Init, WithinLimits
<1>6. RefersToLive(image) /\ OneLive(image) /\ BornLive(image)
  BY <1>1 DEF RefersToLive, OneLive, BornLive, image, Kind
<1>7. owed = Held(image)
  BY DEF Init, Held, image
<1> QED
  BY <1>2, <1>5, <1>6, <1>7 DEF IInv

-----------------------------------------------------------------------------
(* Publication *)

\* _commit keeps the invariant when the new image is sound and the tokens the
\* caller gains and loses are those of the slots it takes and frees: if the
\* write fails too, whichever image is left is a sound one.
LEMMA CommitKeeps ==
    ASSUME IInv, failure = None, NEW new \in Image, NEW gains \in SUBSET Token, NEW loses,
           Commit(new, gains, loses),
           RefersToLive(new), OneLive(new), BornLive(new),
           (owed \cup gains) \ loses = Held(new)
    PROVE  IInv'
<1>1. image \in Image /\ owed \subseteq Token
  BY DEF IInv, TypeOK
<1>2. \A i \in Image : Become(i) => image' = i
  BY DEF Become, image, Image
<1>3. Used(entry) <= Limits.total /\ FitsPlaces(entry)
  BY DEF IInv, WithinLimits
<1>4. image.entry = entry
  BY DEF image
<1>5. CASE Become(new) /\ owed' = (owed \cup gains) \ loses /\ UNCHANGED failure
  <2>1. image' = new
    BY <1>2, <1>5
  <2>2. entry' = new.entry
    BY <1>5 DEF Become
  <2>3. TypeOK'
    BY <1>1, <1>5, <2>1 DEF TypeOK
  <2>4. WithinLimits'
    BY <1>5, <2>2 DEF WithinLimits, Commit, Fits
  <2> QED
    BY <1>5, <2>1, <2>3, <2>4 DEF IInv
<1>6. CASE /\ Become(image) \/ Become(new)
           /\ failure' = [old |-> image, new |-> new]
           /\ UNCHANGED owed
  <2>1. image' \in {image, new}
    BY <1>1, <1>2, <1>6
  <2>2. entry' \in {entry, new.entry}
    BY <1>4, <1>6 DEF Become
  <2>3. failure' \in [old : Image, new : Image] /\ failure' # None
    BY <1>1, <1>6, NoneAssumption
  <2>4. TypeOK'
    BY <1>1, <1>6, <2>1, <2>3 DEF TypeOK
  <2>5. Used(new.entry) <= Limits.total /\ FitsPlaces(new.entry)
    BY DEF Commit, Fits
  <2>6. failure'.old.entry = entry /\ failure'.new.entry = new.entry
    BY <1>4, <1>6
  <2>7. WithinLimits'
    BY <1>3, <2>2, <2>5, <2>6 DEF WithinLimits
  <2>8. RefersToLive(image') /\ OneLive(image') /\ BornLive(image')
    BY <2>1 DEF IInv
  <2> QED
    BY <2>3, <2>4, <2>7, <2>8 DEF IInv
<1> QED
  BY <1>5, <1>6 DEF Commit

\* The state as a record of functions.
LEMMA ImageIs ==
    ASSUME IInv
    PROVE  /\ image.epoch = epoch /\ image.entry = entry
           /\ epoch \in [Slot -> Epoch \cup {0}]
           /\ entry \in [Slot -> Entry \cup {None}]
           /\ closing \in BOOLEAN /\ closed \in BOOLEAN
  BY DEF IInv, TypeOK, image, Image

\* The parts of the invariant that speak of references, on the variables.
LEMMA References ==
    ASSUME IInv
    PROVE  GenerationOutlivesSessions /\ OneLiveGeneration
  BY DEF IInv, RefersToLive, OneLive, GenerationOutlivesSessions, OneLiveGeneration, image

\* A reservation takes a free slot, which no session refers to, under an epoch
\* that no token names.
LEMMA ReserveKeeps ==
    ASSUME IInv, failure = None, NEW row \in Entry, Reserve(row),
           row.kind # "GENERATION",
           row.kind = "SESSION" =>
               /\ row.gen \in Token
               /\ Locate(row.gen)
               /\ Row(row.gen).kind = "GENERATION"
               /\ Row(row.gen).ds = row.ds
    PROVE  IInv'
<1>1. PICK s \in Slot :
        /\ Free(s)
        /\ Commit([image EXCEPT !.epoch[s] = @ + 1, !.entry[s] = row],
                  {<<s, epoch[s] + 1>>}, {})
  BY DEF Reserve
<1> DEFINE new == [image EXCEPT !.epoch[s] = @ + 1, !.entry[s] = row]
<1>2. /\ new.epoch = [epoch EXCEPT ![s] = @ + 1]
      /\ new.entry = [entry EXCEPT ![s] = row]
      /\ new.closing = closing /\ new.closed = closed
  BY DEF image
<1>3. epoch[s] + 1 \in Epoch
  BY <1>1, ImageIs, EntriesAssumption DEF Free, Epoch
<1>4. new \in Image
  BY <1>2, <1>3, ImageIs DEF image, Image
<1>5. entry[s] = None /\ row # None
  BY <1>1, NoneAssumption DEF Free
<1> HIDE DEF new
<1>6. \A r \in Slot : /\ r # s => new.entry[r] = entry[r] /\ new.epoch[r] = epoch[r]
                      /\ new.entry[s] = row
                      /\ new.epoch[s] = epoch[s] + 1
  BY <1>2, ImageIs
<1>7. RefersToLive(new)
  <2>1. SUFFICES ASSUME NEW r \in Of(new.entry, "SESSION")
                 PROVE  LET g == new.entry[r].gen
                        IN  /\ g \in Token
                            /\ new.epoch[g[1]] = g[2]
                            /\ new.entry[g[1]] # None
                            /\ new.entry[g[1]].kind = "GENERATION"
                            /\ new.entry[g[1]].ds = new.entry[r].ds
    BY DEF RefersToLive
  <2>2. CASE r = s
    <3>1. new.entry[r] = row /\ row.kind = "SESSION"
      BY <1>6, <2>2 DEF Of
    <3>2. row.gen[1] \in Slot /\ row.gen[1] # s
      BY <1>5, <3>1 DEF Locate, Token
    <3> QED
      BY <1>6, <3>1, <3>2 DEF Locate, Row
  <2>3. CASE r # s
    <3>1. r \in Of(entry, "SESSION") /\ new.entry[r] = entry[r]
      BY <1>6, <2>3 DEF Of
    <3>2. /\ entry[r].gen \in Token
          /\ epoch[entry[r].gen[1]] = entry[r].gen[2]
          /\ entry[entry[r].gen[1]] # None
          /\ entry[entry[r].gen[1]].kind = "GENERATION"
          /\ entry[entry[r].gen[1]].ds = entry[r].ds
      BY <3>1, References DEF GenerationOutlivesSessions
    <3>3. entry[r].gen[1] \in Slot /\ entry[r].gen[1] # s
      BY <1>5, <3>2 DEF Token
    <3> QED
      BY <1>6, <3>1, <3>2, <3>3
  <2> QED
    BY <2>2, <2>3
<1>8. Of(new.entry, "GENERATION") = Of(entry, "GENERATION")
  BY <1>5, <1>6 DEF Of
<1>9. \A r \in Of(entry, "GENERATION") : new.entry[r] = entry[r]
  BY <1>5, <1>6 DEF Of
<1>10. OneLive(new) /\ BornLive(new)
  BY <1>8, <1>9, ImageIs DEF IInv, OneLive, BornLive
<1>11. {<<s, epoch[s] + 1>>} \in SUBSET Token
  BY <1>3 DEF Token
<1>12. (owed \cup {<<s, epoch[s] + 1>>}) \ {} = Held(new)
  <2>1. owed = Held(image)
    BY DEF IInv
  <2> QED
    BY <2>1, <1>5, <1>6, ImageIs DEF Held
<1>13. Commit(new, {<<s, epoch[s] + 1>>}, {})
  BY <1>1 DEF new
<1> QED
  BY <1>4, <1>7, <1>10, <1>11, <1>12, <1>13, CommitKeeps

\* A change of a reservation in place keeps what refers to it, when it stays what
\* it was or turns from a candidate into a generation, and makes no second one
\* live.
LEMMA ReplaceKeeps ==
    ASSUME IInv, failure = None, NEW t \in Token, Locate(t), NEW row \in Entry,
           Replace(t, row),
           row.ds = Row(t).ds,
           row.gen = Row(t).gen,
           \/ row.kind = Row(t).kind
           \/ row.kind = "GENERATION" /\ Row(t).kind = "CANDIDATE",
           row.kind = "GENERATION" =>
               /\ row.state # "RESERVED"
               /\ row.state = "LIVE" => LiveGeneration(entry, row.ds) \subseteq {t[1]}
    PROVE  IInv'
<1> DEFINE s == t[1]
           new == With(t, row)
<1>1. /\ new.epoch = epoch
      /\ new.entry = [entry EXCEPT ![s] = row]
      /\ new.closing = closing /\ new.closed = closed
  BY DEF With, image
<1>2. s \in Slot
  BY DEF Token
<1>3. new \in Image
  BY <1>1, <1>2, ImageIs DEF With, image, Image
<1>4. entry[s] # None /\ row # None
  BY NoneAssumption DEF Locate
<1> HIDE DEF new
<1>5. new.entry[s] = row /\ \A r \in Slot : r # s => new.entry[r] = entry[r]
  BY <1>1, <1>2, ImageIs
<1>6. \A r \in Slot : /\ new.entry[r] = None <=> entry[r] = None
                      /\ new.entry[r].ds = entry[r].ds
                      /\ new.entry[r].gen = entry[r].gen
                      /\ entry[r].kind \in {"SESSION", "GENERATION"} =>
                             new.entry[r].kind = entry[r].kind
                      /\ new.entry[r].kind = "SESSION" => entry[r].kind = "SESSION"
  BY <1>4, <1>5 DEF Row
<1>7. RefersToLive(new)
  <2>1. SUFFICES ASSUME NEW r \in Of(new.entry, "SESSION")
                 PROVE  LET g == new.entry[r].gen
                        IN  /\ g \in Token
                            /\ new.epoch[g[1]] = g[2]
                            /\ new.entry[g[1]] # None
                            /\ new.entry[g[1]].kind = "GENERATION"
                            /\ new.entry[g[1]].ds = new.entry[r].ds
    BY DEF RefersToLive
  <2>2. r \in Of(entry, "SESSION")
    BY <1>6 DEF Of
  <2>3. /\ entry[r].gen \in Token
        /\ epoch[entry[r].gen[1]] = entry[r].gen[2]
        /\ entry[entry[r].gen[1]] # None
        /\ entry[entry[r].gen[1]].kind = "GENERATION"
        /\ entry[entry[r].gen[1]].ds = entry[r].ds
    BY <2>2, References DEF GenerationOutlivesSessions
  <2>4. entry[r].gen[1] \in Slot /\ r \in Slot
    BY <2>2, <2>3 DEF Token, Of
  <2> QED
    BY <1>1, <1>6, <2>3, <2>4
<1>8. OneLive(new)
  <2>1. SUFFICES ASSUME NEW r1 \in Of(new.entry, "GENERATION"),
                        NEW r2 \in Of(new.entry, "GENERATION"),
                        new.entry[r1].ds = new.entry[r2].ds,
                        new.entry[r1].state = "LIVE", new.entry[r2].state = "LIVE"
                 PROVE  r1 = r2
    BY DEF OneLive
  <2>2. r1 \in Slot /\ r2 \in Slot
    BY DEF Of
  <2>3. \A r \in {r1, r2} : r # s => r \in LiveGeneration(entry, new.entry[r].ds)
    BY <1>5, <2>1, <2>2 DEF LiveGeneration, Of
  <2>4. CASE s \in {r1, r2}
    <3>1. row.kind = "GENERATION" /\ row.state = "LIVE"
      BY <1>5, <2>1, <2>4 DEF Of
    <3>2. LiveGeneration(entry, row.ds) \subseteq {s}
      BY <3>1
    <3> QED
      BY <1>5, <2>1, <2>3, <2>4, <3>2
  <2>5. CASE s \notin {r1, r2}
    <3>1. /\ r1 \in Of(entry, "GENERATION") /\ r2 \in Of(entry, "GENERATION")
          /\ new.entry[r1] = entry[r1] /\ new.entry[r2] = entry[r2]
      BY <1>5, <2>2, <2>5 DEF Of
    <3> QED
      BY <2>1, <3>1, References DEF OneLiveGeneration
  <2> QED
    BY <2>4, <2>5
<1>9. BornLive(new)
  <2>1. SUFFICES ASSUME NEW r \in Of(new.entry, "GENERATION")
                 PROVE  new.entry[r].state # "RESERVED"
    BY DEF BornLive
  <2>2. CASE r = s
    BY <1>5, <2>2 DEF Of
  <2>3. CASE r # s
    BY <1>5, <2>3, ImageIs DEF Of, IInv, BornLive
  <2> QED
    BY <2>2, <2>3
<1>10. (owed \cup {}) \ {} = Held(new)
  <2>1. owed = Held(image)
    BY DEF IInv
  <2> QED
    BY <2>1, <1>1, <1>6, ImageIs DEF Held
<1>11. Commit(new, {}, {})
  BY DEF Replace, new
<1> QED
  BY <1>3, <1>7, <1>8, <1>9, <1>10, <1>11, CommitKeeps

-----------------------------------------------------------------------------
(* The methods *)

\* _locate finds a reservation in the token's slot.
LEMMA Located ==
    ASSUME IInv, NEW t \in Token, Locate(t)
    PROVE  t[1] \in Slot /\ t[2] \in Epoch /\ t = <<t[1], t[2]>> /\ Row(t) \in Entry
  BY ImageIs DEF Locate, Row, Token

\* reserve_candidate, reserve_auxiliary and reserve_session.
LEMMA ReserveCandidateKeeps ==
    ASSUME IInv, NEW d \in Datasource, NEW b \in SharedBytes, ReserveCandidate(d, b)
    PROVE  IInv'
<1> DEFINE row == Reserved("CANDIDATE", d, None, 0, 0, b)
<1>1. row \in Entry /\ row.kind = "CANDIDATE"
  BY DEF Reserved, Entry, Kind, State, NoPin
<1>2. failure = None /\ Reserve(row)
  BY DEF ReserveCandidate, Admitting, Usable
<1> QED
  BY <1>1, <1>2, ReserveKeeps

LEMMA ReserveAuxiliaryKeeps ==
    ASSUME IInv, NEW b \in SharedBytes, ReserveAuxiliary(b)
    PROVE  IInv'
<1> DEFINE row == Reserved("AUXILIARY", None, None, 0, 0, b)
<1>1. row \in Entry /\ row.kind = "AUXILIARY"
  BY DEF Reserved, Entry, Kind, State, NoPin
<1>2. failure = None /\ Reserve(row)
  BY DEF ReserveAuxiliary, Admitting, Usable
<1> QED
  BY <1>1, <1>2, ReserveKeeps

LEMMA ReserveSessionKeeps ==
    ASSUME IInv, NEW g \in Token, NEW w \in WorkerBytes, NEW b \in ParentBytes,
           ReserveSession(g, w, b)
    PROVE  IInv'
<1> DEFINE row == Reserved("SESSION", Row(g).ds, g, w, b, 0)
<1>1. Locate(g) /\ Row(g).kind = "GENERATION" /\ failure = None /\ Reserve(row)
  BY DEF ReserveSession, Admitting, Usable
<1>2. Row(g).ds \in Datasource \cup {None}
  BY <1>1, Located DEF Entry
<1>3. /\ row \in Entry
      /\ row.kind = "SESSION" /\ row.gen = g /\ row.ds = Row(g).ds
  BY <1>2 DEF Reserved, Entry, Kind, State, NoPin
<1> QED
  BY <1>1, <1>3, ReserveKeeps

\* publish: no other generation of the datasource is live.
LEMMA PublishKeeps ==
    ASSUME IInv, NEW t \in Token, Publish(t)
    PROVE  IInv'
<1> DEFINE row == [Row(t) EXCEPT !.kind = "GENERATION", !.state = "LIVE"]
<1>1. /\ Locate(t) /\ failure = None /\ Replace(t, row)
      /\ Row(t).kind = "CANDIDATE"
      /\ LiveGeneration(entry, Row(t).ds) = {}
  BY DEF Publish, Publishable, Usable
<1>2. /\ row \in Entry /\ row.kind = "GENERATION" /\ row.state = "LIVE"
      /\ row.ds = Row(t).ds /\ row.gen = Row(t).gen
  BY <1>1, Located DEF Entry, Kind, State
<1> QED
  BY <1>1, <1>2, ReplaceKeeps

\* mark_live: what is reserved is no generation.
LEMMA MarkLiveKeeps ==
    ASSUME IInv, NEW t \in Token, MarkLive(t)
    PROVE  IInv'
<1> DEFINE row == [Row(t) EXCEPT !.state = "LIVE"]
<1>1. Locate(t) /\ failure = None /\ Replace(t, row) /\ Row(t).state = "RESERVED"
  BY DEF MarkLive, Admitting, Usable
<1>2. Row(t).kind # "GENERATION"
  BY <1>1, Located, ImageIs DEF IInv, BornLive, Of, Row, Locate
<1>3. /\ row \in Entry /\ row.kind = Row(t).kind
      /\ row.ds = Row(t).ds /\ row.gen = Row(t).gen
  BY <1>1, Located DEF Entry, State
<1> QED
  BY <1>1, <1>2, <1>3, ReplaceKeeps

\* begin_drain, retain, and a release that cannot be confirmed.
LEMMA WithdrawKeeps ==
    ASSUME IInv, failure = None, NEW t \in Token, Locate(t), NEW st \in {"DRAINING", "HELD"},
           Replace(t, [Row(t) EXCEPT !.state = st])
    PROVE  IInv'
<1> DEFINE row == [Row(t) EXCEPT !.state = st]
<1>1. /\ row \in Entry /\ row.kind = Row(t).kind /\ row.state \in {"DRAINING", "HELD"}
      /\ row.ds = Row(t).ds /\ row.gen = Row(t).gen
  BY Located DEF Entry, State
<1> QED
  BY <1>1, ReplaceKeeps

\* begin_output
LEMMA BeginOutputKeeps ==
    ASSUME IInv, NEW t \in Token, NEW f \in OutputBytes, NEW o \in OutputBytes,
           BeginOutput(t, f, o)
    PROVE  IInv'
<1> DEFINE row == [Row(t) EXCEPT !.output = @ + 1, !.pin = [frame |-> f, overhead |-> o]]
<1>1. /\ Locate(t) /\ failure = None /\ Replace(t, row)
      /\ Row(t).kind = "SESSION" /\ Row(t).output < MaxEpoch
  BY DEF BeginOutput, Admitting, Usable
<1>2. Row(t).output + 1 \in Epoch
  BY <1>1, Located, EntriesAssumption DEF Entry, Epoch
<1>3. /\ row \in Entry /\ row.kind = "SESSION"
      /\ row.ds = Row(t).ds /\ row.gen = Row(t).gen
  BY <1>1, <1>2, Located DEF Entry
<1> QED
  BY <1>1, <1>3, ReplaceKeeps

\* end_output
LEMMA EndOutputKeeps ==
    ASSUME IInv, NEW t \in Token, NEW o \in Epoch,
           NEW discarded \in BOOLEAN, NEW drain \in BOOLEAN,
           EndOutput(t, o, discarded, drain)
    PROVE  IInv'
<1> DEFINE st == IF drain /\ Row(t).state # "HELD" THEN "DRAINING" ELSE Row(t).state
           row == [Row(t) EXCEPT !.state = st, !.pin = IF discarded THEN NoPin ELSE @]
<1>1. Locate(t) /\ failure = None /\ Replace(t, row) /\ Row(t).kind = "SESSION"
  BY DEF EndOutput, Usable
<1>2. st \in State
  BY <1>1, Located DEF Entry, State
<1>3. /\ row \in Entry /\ row.kind = "SESSION"
      /\ row.ds = Row(t).ds /\ row.gen = Row(t).gen
  <2> HIDE DEF st
  <2> QED
    BY <1>1, <1>2, Located DEF Entry
<1> QED
  BY <1>1, <1>3, ReplaceKeeps

\* publish(replacing): the generation that starts to drain was the live one, and
\* the sessions on it keep it.
LEMMA PublishReplacingKeeps ==
    ASSUME IInv, NEW t \in Token, NEW old \in Token, PublishReplacing(t, old)
    PROVE  IInv'
<1> DEFINE drained == [entry EXCEPT ![old[1]].state = "DRAINING"]
           row == [Row(t) EXCEPT !.kind = "GENERATION", !.state = "LIVE"]
           new == [image EXCEPT !.entry = [drained EXCEPT ![t[1]] = row]]
<1>1. /\ failure = None
      /\ Locate(t) /\ Row(t).kind = "CANDIDATE"
      /\ Locate(old) /\ Row(old).kind = "GENERATION" /\ Row(old).ds = Row(t).ds
      /\ LiveGeneration(drained, Row(t).ds) = {}
      /\ Commit(new, {}, {})
  BY DEF PublishReplacing, Publishable, Usable
<1>2. /\ t[1] \in Slot /\ old[1] \in Slot /\ t[1] # old[1]
      /\ entry[t[1]] \in Entry /\ entry[old[1]] \in Entry
  BY <1>1, Located DEF Row
<1>3. row \in Entry /\ row # None /\ row.ds = entry[t[1]].ds
  <2>1. row \in Entry /\ row.ds = entry[t[1]].ds
    BY <1>2 DEF Entry, Kind, State, Row
  <2> HIDE DEF row
  <2> QED
    BY <2>1, NoneAssumption
<1>4. drained \in [Slot -> Entry \cup {None}]
  <2>1. [entry[old[1]] EXCEPT !.state = "DRAINING"] \in Entry
    BY <1>2 DEF Entry, State
  <2> QED
    BY <2>1, <1>2, ImageIs
<1>5. /\ new.epoch = epoch
      /\ new.entry = [drained EXCEPT ![t[1]] = row]
      /\ new.closing = closing /\ new.closed = closed
  BY DEF image
<1>6. new \in Image
  BY <1>2, <1>3, <1>4, <1>5, ImageIs DEF image, Image
<1>7. /\ new.entry[t[1]] = row /\ row.kind = "GENERATION" /\ row.state = "LIVE"
      /\ \A r \in Slot : r # t[1] => new.entry[r] = drained[r]
  <2>1. row.kind = "GENERATION" /\ row.state = "LIVE"
    BY <1>2 DEF Entry, Row
  <2> HIDE DEF row, drained, new
  <2> QED
    BY <1>2, <1>4, <1>5, <2>1
<1>8. \A r \in Slot : r # old[1] => drained[r] = entry[r]
  BY <1>2, ImageIs
<1>9. /\ drained[old[1]] # None
      /\ drained[old[1]].kind = "GENERATION"
      /\ drained[old[1]].state = "DRAINING"
      /\ drained[old[1]].ds = entry[old[1]].ds
  <2>1. [entry[old[1]] EXCEPT !.state = "DRAINING"] \in Entry
    BY <1>2 DEF Entry, State
  <2>2. drained[old[1]] = [entry[old[1]] EXCEPT !.state = "DRAINING"]
    BY <1>2, ImageIs
  <2> QED
    BY <1>1, <1>2, <2>1, <2>2, NoneAssumption DEF Entry, Row
<1> HIDE DEF drained, row, new
<1>10. \A r \in Slot :
         /\ new.entry[r] = None <=> entry[r] = None
         /\ entry[r] # None => new.entry[r].ds = entry[r].ds
         /\ entry[r] # None /\ entry[r].kind = "GENERATION" =>
                new.entry[r].kind = "GENERATION"
         /\ new.entry[r] # None /\ new.entry[r].kind = "SESSION" =>
                new.entry[r] = entry[r]
  BY <1>1, <1>2, <1>3, <1>7, <1>8, <1>9, NoneAssumption DEF Row
<1>11. RefersToLive(new)
  <2>1. SUFFICES ASSUME NEW r \in Of(new.entry, "SESSION")
                 PROVE  LET g == new.entry[r].gen
                        IN  /\ g \in Token
                            /\ new.epoch[g[1]] = g[2]
                            /\ new.entry[g[1]] # None
                            /\ new.entry[g[1]].kind = "GENERATION"
                            /\ new.entry[g[1]].ds = new.entry[r].ds
    BY DEF RefersToLive
  <2>2. r \in Of(entry, "SESSION") /\ new.entry[r] = entry[r]
    BY <1>10 DEF Of
  <2>3. /\ entry[r].gen \in Token
        /\ epoch[entry[r].gen[1]] = entry[r].gen[2]
        /\ entry[entry[r].gen[1]] # None
        /\ entry[entry[r].gen[1]].kind = "GENERATION"
        /\ entry[entry[r].gen[1]].ds = entry[r].ds
    BY <2>2, References DEF GenerationOutlivesSessions
  <2>4. entry[r].gen[1] \in Slot
    BY <2>3 DEF Token
  <2> QED
    BY <1>5, <1>10, <2>2, <2>3, <2>4
<1>12. OneLive(new)
  <2>1. SUFFICES ASSUME NEW r1 \in Of(new.entry, "GENERATION"),
                        NEW r2 \in Of(new.entry, "GENERATION"),
                        new.entry[r1].ds = new.entry[r2].ds,
                        new.entry[r1].state = "LIVE", new.entry[r2].state = "LIVE"
                 PROVE  r1 = r2
    BY DEF OneLive
  <2>2. r1 \in Slot /\ r2 \in Slot
    BY DEF Of
  <2>3. \A r \in {r1, r2} : r # t[1] => r \in LiveGeneration(drained, new.entry[r].ds)
    BY <1>7, <2>1, <2>2 DEF LiveGeneration, Of
  <2>4. CASE t[1] \in {r1, r2}
    BY <1>1, <1>3, <1>7, <2>1, <2>3, <2>4 DEF Row
  <2>5. CASE t[1] \notin {r1, r2}
    <3>1. old[1] \notin {r1, r2}
      BY <1>2, <1>7, <1>9, <2>1, <2>2, <2>5
    <3>2. /\ r1 \in Of(entry, "GENERATION") /\ r2 \in Of(entry, "GENERATION")
          /\ new.entry[r1] = entry[r1] /\ new.entry[r2] = entry[r2]
      BY <1>7, <1>8, <2>2, <2>5, <3>1 DEF Of
    <3> QED
      BY <2>1, <3>2, References DEF OneLiveGeneration
  <2> QED
    BY <2>4, <2>5
<1>13. BornLive(new)
  <2>1. SUFFICES ASSUME NEW r \in Of(new.entry, "GENERATION")
                 PROVE  new.entry[r].state # "RESERVED"
    BY DEF BornLive
  <2>2. CASE r \in {t[1], old[1]}
    BY <1>2, <1>7, <1>9, <2>2
  <2>3. CASE r \notin {t[1], old[1]}
    BY <1>7, <1>8, <2>3, ImageIs DEF Of, IInv, BornLive
  <2> QED
    BY <2>2, <2>3
<1>14. (owed \cup {}) \ {} = Held(new)
  <2>1. owed = Held(image)
    BY <1>1 DEF IInv
  <2> QED
    BY <2>1, <1>5, <1>10, ImageIs DEF Held
<1> QED
  BY <1>1, <1>6, <1>11, <1>12, <1>13, <1>14, CommitKeeps

\* release frees a slot that no session refers to; the token it takes back is the
\* only one that names the slot's present reservation.
LEMMA FreeKeeps ==
    ASSUME IInv, failure = None, NEW t \in Token, Locate(t), ~Referenced(t),
           Commit(With(t, None), {}, {t})
    PROVE  IInv'
<1> DEFINE s == t[1]
           new == With(t, None)
<1>1. s \in Slot /\ t = <<s, epoch[s]>> /\ entry[s] # None
  BY Located DEF Locate
<1>2. /\ new.epoch = epoch
      /\ new.entry = [entry EXCEPT ![s] = None]
      /\ new.closing = closing /\ new.closed = closed
  BY DEF With, image
<1>3. new \in Image
  BY <1>1, <1>2, ImageIs DEF With, image, Image
<1> HIDE DEF new
<1>4. new.entry[s] = None /\ \A r \in Slot : r # s => new.entry[r] = entry[r]
  BY <1>1, <1>2, ImageIs
<1>5. RefersToLive(new)
  <2>1. SUFFICES ASSUME NEW r \in Of(new.entry, "SESSION")
                 PROVE  LET g == new.entry[r].gen
                        IN  /\ g \in Token
                            /\ new.epoch[g[1]] = g[2]
                            /\ new.entry[g[1]] # None
                            /\ new.entry[g[1]].kind = "GENERATION"
                            /\ new.entry[g[1]].ds = new.entry[r].ds
    BY DEF RefersToLive
  <2>2. r \in Of(entry, "SESSION") /\ new.entry[r] = entry[r]
    BY <1>4 DEF Of
  <2>3. /\ entry[r].gen \in Token
        /\ epoch[entry[r].gen[1]] = entry[r].gen[2]
        /\ entry[entry[r].gen[1]] # None
        /\ entry[entry[r].gen[1]].kind = "GENERATION"
        /\ entry[entry[r].gen[1]].ds = entry[r].ds
    BY <2>2, References DEF GenerationOutlivesSessions
  <2>4. entry[r].gen[1] \in Slot /\ entry[r].gen = <<entry[r].gen[1], epoch[entry[r].gen[1]]>>
    BY <2>3 DEF Token
  <2>5. entry[r].gen[1] # s
    BY <1>1, <2>2, <2>3, <2>4 DEF Referenced, Row
  <2> QED
    BY <1>2, <1>4, <2>2, <2>3, <2>4, <2>5
<1>6. \A r \in Of(new.entry, "GENERATION") :
        r \in Of(entry, "GENERATION") /\ new.entry[r] = entry[r]
  BY <1>4 DEF Of
<1>7. OneLive(new) /\ BornLive(new)
  BY <1>6, ImageIs DEF IInv, OneLive, BornLive
<1>8. (owed \cup {}) \ {t} = Held(new)
  <2>1. owed = {<<r, epoch[r]>> : r \in {q \in Slot : entry[q] # None}}
    BY ImageIs DEF IInv, Held
  <2>2. Held(new) = {<<r, epoch[r]>> : r \in {q \in Slot : entry[q] # None} \ {s}}
    BY <1>2, <1>4 DEF Held
  <2> QED
    BY <1>1, <2>1, <2>2
<1>9. Commit(new, {}, {t})
  BY DEF new
<1> QED
  BY <1>3, <1>5, <1>7, <1>8, <1>9, CommitKeeps

LEMMA ReleaseKeeps ==
    ASSUME IInv, NEW t \in Token, NEW complete \in BOOLEAN, Release(t, complete)
    PROVE  IInv'
<1>1. failure = None /\ Locate(t)
  BY DEF Release
<1>2. CASE complete /\ Releasable(t)
  BY <1>1, <1>2, FreeKeeps DEF Release, Releasable
<1>3. CASE ~(complete /\ Releasable(t))
  BY <1>1, <1>3, WithdrawKeeps DEF Release
<1> QED
  BY <1>2, <1>3

\* begin_shutdown and finish_shutdown change no reservation.
LEMMA ShutdownKeeps ==
    ASSUME IInv, BeginShutdown \/ FinishShutdown
    PROVE  IInv'
<1>1. failure = None
  BY DEF BeginShutdown, FinishShutdown
<1>2. PICK new \in {[image EXCEPT !.closing = TRUE], [image EXCEPT !.closed = TRUE]} :
        Commit(new, {}, {})
  BY DEF BeginShutdown, FinishShutdown
<1>3. new \in Image
  BY <1>2 DEF IInv, TypeOK, image, Image
<1>4. new.epoch = epoch /\ new.entry = entry
  BY <1>2 DEF image
<1>5. RefersToLive(new) /\ OneLive(new) /\ BornLive(new)
  BY <1>4, ImageIs DEF IInv, RefersToLive, OneLive, BornLive
<1>6. (owed \cup {}) \ {} = Held(new)
  BY <1>1, <1>4, ImageIs DEF IInv, Held
<1> QED
  BY <1>1, <1>2, <1>3, <1>5, <1>6, CommitKeeps

-----------------------------------------------------------------------------
(* The theorems *)

\* Every method keeps the invariant, and so does a refusal.
LEMMA StepInvariant ==
    ASSUME IInv, [Next]_vars
    PROVE  IInv'
<1>1. CASE UNCHANGED vars
  BY <1>1 DEF vars, IInv, TypeOK, WithinLimits, image
<1>2. ASSUME NEW d \in Datasource, NEW b \in SharedBytes, ReserveCandidate(d, b)
      PROVE  IInv'
  BY <1>2, ReserveCandidateKeeps
<1>3. ASSUME NEW b \in SharedBytes, ReserveAuxiliary(b)
      PROVE  IInv'
  BY <1>3, ReserveAuxiliaryKeeps
<1>4. ASSUME NEW t \in Token, Publish(t) \/ MarkLive(t)
      PROVE  IInv'
  BY <1>4, PublishKeeps, MarkLiveKeeps
<1>5. ASSUME NEW t \in Token, NEW old \in Token, PublishReplacing(t, old)
      PROVE  IInv'
  BY <1>5, PublishReplacingKeeps
<1>6. ASSUME NEW t \in Token, NEW w \in WorkerBytes, NEW b \in ParentBytes,
             ReserveSession(t, w, b)
      PROVE  IInv'
  BY <1>6, ReserveSessionKeeps
<1>7. ASSUME NEW t \in Token, BeginDrain(t)
      PROVE  IInv'
  BY <1>7, WithdrawKeeps DEF BeginDrain, Usable
<1>8. ASSUME NEW t \in Token, Retain(t)
      PROVE  IInv'
  BY <1>8, WithdrawKeeps DEF Retain, Usable
<1>9. ASSUME NEW t \in Token, NEW f \in OutputBytes, NEW o \in OutputBytes,
             BeginOutput(t, f, o)
      PROVE  IInv'
  BY <1>9, BeginOutputKeeps
<1>10. ASSUME NEW t \in Token, NEW o \in Epoch,
              NEW discarded \in BOOLEAN, NEW drain \in BOOLEAN,
              EndOutput(t, o, discarded, drain)
       PROVE  IInv'
  BY <1>10, EndOutputKeeps
<1>11. ASSUME NEW t \in Token, NEW complete \in BOOLEAN, Release(t, complete)
       PROVE  IInv'
  BY <1>11, ReleaseKeeps
<1>12. CASE BeginShutdown \/ FinishShutdown
  BY <1>12, ShutdownKeeps
<1> QED
  BY <1>1, <1>2, <1>3, <1>4, <1>5, <1>6, <1>7, <1>8, <1>9, <1>10, <1>11, <1>12 DEF Next

\* The inductive invariant holds in every reachable state of the ledger.
LEMMA Invariant == Spec => []IInv
<1>1. Init => IInv
  BY InitInvariant
<1>2. IInv /\ [Next]_vars => IInv'
  BY StepInvariant
<1> QED
  BY <1>1, <1>2, PTL DEF Spec

\* The ledger is sound, whatever the limits, the number of slots and the tokens
\* its callers present: the credits are exactly those owed to the holders of
\* tokens, no image that may be current exceeds the totals, a session's generation
\* outlives it and a datasource has one live generation.
THEOREM CreditsCorrect == Spec => []CreditsSound
<1>1. IInv => CreditsSound
  <2> SUFFICES ASSUME IInv PROVE CreditsSound
    OBVIOUS
  <2>1. CreditsAreOwed
    BY ImageIs DEF IInv, CreditsAreOwed, Held
  <2>2. WithinLimits
    BY DEF IInv
  <2> QED
    BY <2>1, <2>2, References DEF CreditsSound
<1> QED
  BY <1>1, Invariant, PTL
=============================================================================
