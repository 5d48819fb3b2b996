---------------------- MODULE VerificationLedgerProofs ----------------------
(***************************************************************************)
(* Proofs about the supervision of children of datasource/verify.py, for   *)
(* any number of supervisors, threads, addresses and slots: the ledger of  *)
(* verifications and the bounded one of the bind resolution, and one child *)
(* record in its two jobs.                                                 *)
(*                                                                         *)
(* The ledger's argument is the token: from its claim to its settlement a  *)
(* thread holds one record under its own token, so what settles a record   *)
(* is what claimed it, two threads never hold the same one, and what a     *)
(* reap saw gone is still gone when the record and its slot are given up.  *)
(* The record's argument is the order of its marks: the spawn and the      *)
(* start of each pump are recorded before what they create can exist, so a *)
(* record whose marks are idle or whose threads are dead holds nothing.    *)
(***************************************************************************)
EXTENDS MCVerificationLedger, SequenceTheorems, TLAPS

-----------------------------------------------------------------------------
(* Sequences without repetition *)

\* Taking one position out of a sequence without repetition takes exactly its
\* element out of the range.
LEMMA RemoveOne ==
    ASSUME NEW A, NEW s \in Seq(A), IsInjective(s), NEW i \in DOMAIN s
    PROVE  /\ RemoveAt(s, i) \in Seq(A)
           /\ Len(RemoveAt(s, i)) = Len(s) - 1
           /\ IsInjective(RemoveAt(s, i))
           /\ Range(RemoveAt(s, i)) = Range(s) \ {s[i]}
<1> DEFINE r == RemoveAt(s, i)
<1>1. /\ Len(s) \in Nat /\ DOMAIN s = 1..Len(s) /\ i \in 1..Len(s)
      /\ \A j \in 1..Len(s) : s[j] \in A
  OBVIOUS
<1>2. /\ SubSeq(s, 1, i - 1) \in Seq(A) /\ Len(SubSeq(s, 1, i - 1)) = i - 1
      /\ \A j \in 1..(i - 1) : SubSeq(s, 1, i - 1)[j] = s[j]
  BY <1>1
<1>3. /\ SubSeq(s, i + 1, Len(s)) \in Seq(A) /\ Len(SubSeq(s, i + 1, Len(s))) = Len(s) - i
      /\ \A j \in 1..(Len(s) - i) : SubSeq(s, i + 1, Len(s))[j] = s[j + i]
  <2>1. \A j \in (i + 1)..Len(s) : s[j] \in A
    BY <1>1
  <2>2. /\ SubSeq(s, i + 1, Len(s)) \in Seq(A)
        /\ Len(SubSeq(s, i + 1, Len(s))) =
            IF i + 1 <= Len(s) THEN Len(s) - (i + 1) + 1 ELSE 0
        /\ \A j \in 1..(Len(s) - (i + 1) + 1) : SubSeq(s, i + 1, Len(s))[j] = s[(i + 1) + j - 1]
    BY <1>1, <2>1, SubSeqProperties
  <2>3. \A j \in 1..(Len(s) - i) : (i + 1) + j - 1 = j + i
    BY <1>1
  <2>4. QED
    BY <1>1, <2>2, <2>3
<1>4. /\ r \in Seq(A) /\ Len(r) = Len(s) - 1 /\ DOMAIN r = 1..(Len(s) - 1)
      /\ \A j \in 1..(Len(s) - 1) : r[j] = IF j < i THEN s[j] ELSE s[j + 1]
  <2> DEFINE x == SubSeq(s, 1, i - 1)
             y == SubSeq(s, i + 1, Len(s))
  <2>1. r = x \o y
    BY DEF RemoveAt
  <2>2. x \in Seq(A) /\ Len(x) = i - 1 /\ \A j \in 1..(i - 1) : x[j] = s[j]
    BY <1>2
  <2>3. y \in Seq(A) /\ Len(y) = Len(s) - i /\ \A j \in 1..(Len(s) - i) : y[j] = s[j + i]
    BY <1>3
  <2> HIDE DEF x, y, r
  <2>4. /\ r \in Seq(A) /\ Len(r) = Len(x) + Len(y)
        /\ \A j \in 1..(Len(x) + Len(y)) :
              r[j] = IF j <= Len(x) THEN x[j] ELSE y[j - Len(x)]
    BY <2>1, <2>2, <2>3, ConcatProperties
  <2>5. ASSUME NEW j \in 1..(Len(s) - 1) PROVE r[j] = IF j < i THEN s[j] ELSE s[j + 1]
    <3>1. CASE j < i
      BY <1>1, <2>2, <2>3, <2>4, <3>1
    <3>2. CASE ~(j < i)
      <4>1. j - (i - 1) \in 1..(Len(s) - i) /\ ~(j <= i - 1) /\ (j - (i - 1)) + i = j + 1
        BY <1>1, <3>2
      <4>2. r[j] = y[j - (i - 1)]
        <5>1. j \in 1..(Len(x) + Len(y)) /\ ~(j <= Len(x))
          BY <1>1, <2>2, <2>3, <4>1
        <5>2. r[j] = y[j - Len(x)]
          BY <2>4, <5>1
        <5>3. QED
          BY <2>2, <5>2
      <4>3. y[j - (i - 1)] = s[(j - (i - 1)) + i]
        BY <2>3, <4>1
      <4>4. QED
        BY <3>2, <4>1, <4>2, <4>3
    <3>3. QED
      BY <3>1, <3>2
  <2>6. QED
    BY <1>1, <2>2, <2>3, <2>4, <2>5
<1> HIDE DEF r
<1>5. IsInjective(r)
  BY <1>1, <1>4 DEF IsInjective
<1>6. Range(r) \subseteq Range(s) \ {s[i]}
  BY <1>1, <1>4 DEF IsInjective, Range
<1>7. ASSUME NEW a \in Range(s) \ {s[i]} PROVE a \in Range(r)
  <2>1. PICK j \in 1..Len(s) : s[j] = a
    BY <1>1 DEF Range
  <2>2. j # i
    BY <2>1
  <2>3. CASE j < i
    BY <1>1, <1>4, <2>1, <2>3 DEF Range
  <2>4. CASE j > i
    <3>1. j - 1 \in 1..(Len(s) - 1) /\ ~(j - 1 < i) /\ (j - 1) + 1 = j
      BY <1>1, <2>4
    <3>2. r[j - 1] = a
      BY <1>4, <2>1, <3>1
    <3>3. QED
      BY <1>4, <3>1, <3>2 DEF Range
  <2>5. QED
    BY <1>1, <2>2, <2>3, <2>4
<1>8. QED
  BY <1>4, <1>5, <1>6, <1>7 DEF r

\* Appending an element that is not there keeps the sequence without repetition.
LEMMA AppendOne ==
    ASSUME NEW A, NEW s \in Seq(A), IsInjective(s), NEW a \in A, a \notin Range(s)
    PROVE  /\ Append(s, a) \in Seq(A)
           /\ Len(Append(s, a)) = Len(s) + 1
           /\ IsInjective(Append(s, a))
           /\ Range(Append(s, a)) = Range(s) \cup {a}
<1> DEFINE r == Append(s, a)
<1>1. /\ Len(s) \in Nat /\ DOMAIN s = 1..Len(s)
      /\ r \in Seq(A) /\ Len(r) = Len(s) + 1 /\ DOMAIN r = 1..(Len(s) + 1)
      /\ \A j \in 1..Len(s) : r[j] = s[j]
      /\ r[Len(s) + 1] = a
  OBVIOUS
<1> HIDE DEF r
<1>2. \A j \in 1..Len(s) : r[j] # a
  BY <1>1 DEF Range
<1>3. IsInjective(r)
  BY <1>1, <1>2 DEF IsInjective
<1>4. Range(r) = Range(s) \cup {a}
  <2>1. Range(r) \subseteq Range(s) \cup {a}
    BY <1>1 DEF Range
  <2>2. Range(s) \subseteq Range(r)
    BY <1>1 DEF Range
  <2>3. a \in Range(r)
    BY <1>1 DEF Range
  <2>4. QED
    BY <2>1, <2>2, <2>3
<1>5. QED
  BY <1>1, <1>3, <1>4 DEF r

-----------------------------------------------------------------------------
(* The ledger: the steps of a thread *)

\* Two threads never carry the same token.
LEMMA TokensDiffer ==
    ASSUME NEW t, NEW u, NEW k,
           k \in {<<t, "own">>, <<t, "collect">>}, k \in {<<u, "own">>, <<u, "collect">>}
    PROVE  t = u
  OBVIOUS

\* What the ledger's invariant says of one thread that holds a record.
LEMMA Holder ==
    ASSUME IInv, NEW t \in Thread, call[t].pc \in Holding
    PROVE  /\ call[t].rec \in Range(records) /\ call[t].rec \in Address
           /\ call[t].token \in {<<t, "own">>, <<t, "collect">>}
           /\ call[t].token \in Token
           /\ record[call[t].rec].claimer = call[t].token
<1>1. /\ call[t].rec \in Range(records)
      /\ call[t].token \in {<<t, "own">>, <<t, "collect">>}
      /\ record[call[t].rec].claimer = call[t].token
  BY DEF IInv, HoldsItsRecord
<1>2. Range(records) \subseteq Address
  BY DEF IInv, TypeOK, Range
<1>3. call[t].token \in Token
  BY <1>1 DEF Token
<1>4. QED
  BY <1>1, <1>2, <1>3

\* A claimed record is in the hands of a thread that holds it.
LEMMA ClaimHeld ==
    ASSUME IInv, NEW a \in Range(records), record[a].claimer # None
    PROVE  \E t \in Thread : /\ call[t].pc \in Holding /\ call[t].rec = a
                             /\ call[t].token = record[a].claimer
                             /\ t = record[a].claimer[1]
<1>1. a \in Address
  BY DEF IInv, TypeOK, Range
<1>2. record[a].claimer \in Token
  BY <1>1 DEF IInv, TypeOK, Record
<1>3. record[a].claimer[1] \in Thread
  BY <1>2 DEF Token
<1>4. call[record[a].claimer[1]].rec = a /\ call[record[a].claimer[1]].token = record[a].claimer
  BY DEF IInv, ClaimHasCollector
<1>5. call[record[a].claimer[1]].pc \in Holding
  BY <1>1, <1>3, <1>4, LedgerAssumption DEF IInv, HoldsItsRecord
<1>6. QED
  BY <1>3, <1>4, <1>5

\* A thread that holds no record moves between the places of its call where it
\* holds none.
LEMMA FreeMoves ==
    ASSUME IInv, NEW t \in Thread, NEW c \in Call, call' = [call EXCEPT ![t] = c],
           call[t].pc \notin Holding, c.pc \notin Holding, c.rec = None, c.token = None,
           c.pc = "claim" => c.after # None,
           closing' \in [Supervisor -> BOOLEAN], closed' \in [Supervisor -> BOOLEAN],
           UNCHANGED <<records, slots, record, live>>
    PROVE  IInv'
<1>1. /\ \A u \in Thread : call'[u] = IF u = t THEN c ELSE call[u]
      /\ call' \in [Thread -> Call] /\ call \in [Thread -> Call]
  BY DEF IInv, TypeOK
<1>2. TypeOK' /\ SlotsConserved' /\ LiveIsOwned'
  BY <1>1 DEF IInv, TypeOK, SlotsConserved, LiveIsOwned
<1>3. HoldsItsRecord' /\ SettledIsGone'
  BY <1>1 DEF IInv, HoldsItsRecord, SettledIsGone, Holding
<1>4. CollectsFor'
  <2>1. c.token # <<t, "collect">>
    BY LedgerAssumption DEF Token
  <2>2. QED
    BY <1>1, <2>1 DEF IInv, CollectsFor
<1>5. ClaimHasCollector'
  <2>1. ASSUME NEW a \in Range(records), record[a].claimer # None
        PROVE  LET u == record[a].claimer[1]
               IN  call'[u].rec = a /\ call'[u].token = record[a].claimer
    BY <1>1, <2>1, ClaimHeld
  <2>2. \A a \in Range(records) : record[a].in_flight => record[a].claimer # None
    BY DEF IInv, ClaimHasCollector
  <2>3. QED
    BY <2>1, <2>2 DEF ClaimHasCollector
<1>6. QED
  BY <1>2, <1>3, <1>4, <1>5 DEF IInv

\* A thread works on the record it holds: it creates what lives, or sees it gone.
LEMMA HeldMoves ==
    ASSUME IInv, NEW t \in Thread, NEW c \in Call, call' = [call EXCEPT ![t] = c],
           call[t].pc \in Holding, c.pc \in Holding,
           c.rec = call[t].rec, c.token = call[t].token, c.after = call[t].after,
           live' \subseteq live \cup {call[t].rec},
           c.pc = "settle" /\ c.reaped => c.rec \notin live',
           UNCHANGED <<records, slots, record, closing, closed>>
    PROVE  IInv'
<1>1. /\ \A u \in Thread : call'[u] = IF u = t THEN c ELSE call[u]
      /\ call' \in [Thread -> Call] /\ call \in [Thread -> Call]
  BY DEF IInv, TypeOK
<1>2. /\ call[t].rec \in Range(records) /\ call[t].rec \in Address
      /\ call[t].token \in {<<t, "own">>, <<t, "collect">>}
      /\ record[call[t].rec].claimer = call[t].token
  BY Holder
<1>3. TypeOK' /\ SlotsConserved' /\ LiveIsOwned'
  BY <1>1, <1>2 DEF IInv, TypeOK, SlotsConserved, LiveIsOwned
<1>4. HoldsItsRecord'
  BY <1>1 DEF IInv, HoldsItsRecord
<1>5. SettledIsGone'
  <2>1. ASSUME NEW u \in Thread, u # t, call[u].pc = "settle", call[u].reaped
        PROVE  call[u].rec \notin live'
    <3>1. call[u].pc \in Holding
      BY <2>1 DEF Holding
    <3>2. /\ call[u].token \in {<<u, "own">>, <<u, "collect">>}
          /\ record[call[u].rec].claimer = call[u].token
      BY <3>1, Holder
    <3>3. call[u].rec # call[t].rec
      BY <1>2, <2>1, <3>2, TokensDiffer
    <3>4. call[u].rec \notin live
      BY <2>1 DEF IInv, SettledIsGone
    <3>5. QED
      BY <3>3, <3>4
  <2>2. QED
    BY <1>1, <2>1 DEF SettledIsGone
<1>6. CollectsFor'
  BY <1>1 DEF IInv, CollectsFor, Holding
<1>7. ClaimHasCollector'
  <2>1. ASSUME NEW u \in Thread PROVE call'[u].rec = call[u].rec /\ call'[u].token = call[u].token
    BY <1>1
  <2>2. ASSUME NEW a \in Range(records), record[a].claimer # None
        PROVE  LET u == record[a].claimer[1]
               IN  call'[u].rec = a /\ call'[u].token = record[a].claimer
    BY <2>1, <2>2, ClaimHeld
  <2>3. \A a \in Range(records) : record[a].in_flight => record[a].claimer # None
    BY DEF IInv, ClaimHasCollector
  <2>4. QED
    BY <2>2, <2>3 DEF ClaimHasCollector
<1>8. QED
  BY <1>3, <1>4, <1>5, <1>6, <1>7 DEF IInv

\* A collector claims a record nobody holds.
LEMMA ClaimMoves ==
    ASSUME IInv, NEW t \in Thread, call[t].pc = "claim", NEW a \in Range(records),
           ~record[a].in_flight, record[a].claimer = None,
           NEW c \in Call, c.pc = "reap", c.rec = a, c.token = <<t, "collect">>,
           c.after = call[t].after, call' = [call EXCEPT ![t] = c],
           NEW b \in Record, b.claimer = <<t, "collect">>, b.in_flight = FALSE,
           record' = [record EXCEPT ![a] = b],
           UNCHANGED <<records, slots, live, closing, closed>>
    PROVE  IInv'
<1> DEFINE k == <<t, "collect">>
<1>1. a \in Address /\ k \in Token /\ k # None
  BY LedgerAssumption DEF IInv, TypeOK, Range, Token
<1>2. call \in [Thread -> Call] /\ call[t] \in Call /\ record \in [Address -> Record]
      /\ record[a] \in Record
  BY <1>1 DEF IInv, TypeOK
<1>3. c.pc = "reap" /\ c.rec = a /\ c.token = k /\ c.after = call[t].after
  OBVIOUS
<1>4. b.claimer = k /\ b.in_flight = FALSE
  OBVIOUS
<1>5. /\ \A u \in Thread : call'[u] = IF u = t THEN c ELSE call[u]
      /\ call' \in [Thread -> Call]
  BY <1>2
<1>6. /\ \A d \in Address : record'[d] = IF d = a THEN b ELSE record[d]
      /\ record' \in [Address -> Record]
  BY <1>1, <1>2
<1>7. TypeOK' /\ SlotsConserved' /\ LiveIsOwned'
  BY <1>5, <1>6 DEF IInv, TypeOK, SlotsConserved, LiveIsOwned
<1>8. ASSUME NEW u \in Thread, u # t, call[u].pc \in Holding
      PROVE  call[u].rec # a /\ call[u].rec \in Address
  <2>1. call[u].token # None /\ record[call[u].rec].claimer = call[u].token
        /\ call[u].rec \in Address
    BY <1>8, Holder, LedgerAssumption
  <2>2. QED
    BY <2>1
<1>9. HoldsItsRecord'
  <2>1. ASSUME NEW u \in Thread
        PROVE  IF call'[u].pc \in Holding
               THEN /\ call'[u].rec \in Range(records)
                    /\ call'[u].token \in {<<u, "own">>, <<u, "collect">>}
                    /\ record'[call'[u].rec].claimer = call'[u].token
               ELSE call'[u].rec = None /\ call'[u].token = None
    <3>1. CASE u = t
      BY <1>1, <1>3, <1>4, <1>5, <1>6, <3>1 DEF Holding
    <3>2. CASE u # t
      BY <1>5, <1>6, <1>8, <3>2 DEF IInv, HoldsItsRecord
    <3>3. QED
      BY <3>1, <3>2
  <2>2. QED
    BY <2>1 DEF HoldsItsRecord
<1>10. SettledIsGone'
  BY <1>3, <1>5 DEF IInv, SettledIsGone
<1>11. CollectsFor'
  BY <1>3, <1>5 DEF IInv, CollectsFor
<1>12. ClaimHasCollector'
  <2>1. ASSUME NEW d \in Range(records), record'[d].claimer # None
        PROVE  LET u == record'[d].claimer[1]
               IN  call'[u].rec = d /\ call'[u].token = record'[d].claimer
    <3>1. d \in Address
      BY DEF IInv, TypeOK, Range
    <3>2. CASE d = a
      <4>1. record'[d].claimer = k /\ k[1] = t
        BY <1>4, <1>6, <3>1, <3>2
      <4>2. QED
        BY <1>3, <1>5, <3>2, <4>1
    <3>3. CASE d # a
      <4>1. record'[d] = record[d]
        BY <1>6, <3>1, <3>3
      <4>2. PICK u \in Thread : /\ call[u].pc \in Holding /\ call[u].rec = d
                                /\ call[u].token = record[d].claimer
                                /\ u = record[d].claimer[1]
        BY <2>1, <4>1, ClaimHeld
      <4>3. u # t
        BY <4>2 DEF Holding
      <4>4. QED
        BY <1>5, <4>1, <4>2, <4>3
    <3>4. QED
      BY <3>2, <3>3
  <2>2. ASSUME NEW d \in Range(records), record'[d].in_flight PROVE record'[d].claimer # None
    <3>1. d \in Address
      BY DEF IInv, TypeOK, Range
    <3>2. QED
      BY <1>1, <1>4, <1>6, <2>2, <3>1 DEF IInv, ClaimHasCollector
  <2>3. QED
    BY <2>1, <2>2 DEF ClaimHasCollector
<1>13. QED
  BY <1>7, <1>9, <1>10, <1>11, <1>12 DEF IInv

\* The claim of a collection, bounded or not, is such a step.
LEMMA ClaimKeeps ==
    ASSUME IInv, NEW t \in Thread, call[t].pc = "claim", NEW a \in Range(records),
           ~record[a].in_flight, record[a].claimer = None, Takes(t, a),
           UNCHANGED <<records, slots, live, closing, closed>>
    PROVE  IInv'
<1> DEFINE k == <<t, "collect">>
           c == [call[t] EXCEPT !.pc = "reap", !.rec = a, !.token = k, !.visited = @ \cup {a}]
           b == [record[a] EXCEPT !.claimer = k]
<1>1. a \in Address
  BY DEF IInv, TypeOK, Range
<1>2. k \in Token
  BY DEF Token
<1>3. call \in [Thread -> Call] /\ call[t] \in Call /\ record \in [Address -> Record]
      /\ record[a] \in Record
  BY <1>1 DEF IInv, TypeOK
<1>4. /\ c \in Call /\ c.pc = "reap" /\ c.rec = a /\ c.token = k /\ c.after = call[t].after
      /\ call' = [call EXCEPT ![t] = c]
  BY <1>1, <1>2, <1>3 DEF Call, Takes
<1>5. /\ b \in Record /\ b.claimer = k /\ b.in_flight = record[a].in_flight
      /\ record' = [record EXCEPT ![a] = b]
  BY <1>1, <1>2, <1>3 DEF Record, Takes
<1> HIDE DEF c, b
<1>6. b.in_flight = FALSE
  BY <1>1, <1>3, <1>5 DEF Record
<1>7. QED
  BY <1>4, <1>5, <1>6, ClaimMoves

\* A verification takes a slot and adopts its record in one step.
LEMMA AdoptMoves ==
    ASSUME IInv, NEW t \in Thread, Adopt(t)
    PROVE  IInv'
<1>0. PICK a \in Address :
        /\ Unreferenced(a)
        /\ slots' = slots - 1
        /\ records' = Append(records, a)
        /\ record' = [record EXCEPT ![a] = [owner |-> call[t].sup, in_flight |-> TRUE,
                                            claimer |-> <<t, "own">>]]
        /\ call' = [call EXCEPT ![t].pc = "run", ![t].rec = a, ![t].token = <<t, "own">>]
  BY DEF Adopt
<1> DEFINE k == <<t, "own">>
           c == [call[t] EXCEPT !.pc = "run", !.rec = a, !.token = k]
           b == [owner |-> call[t].sup, in_flight |-> TRUE, claimer |-> k]
<1>1. k \in Token /\ k # None
  BY LedgerAssumption DEF Token
<1>2. call \in [Thread -> Call] /\ call[t] \in Call /\ record \in [Address -> Record]
      /\ call[t].pc = "adopt" /\ UNCHANGED <<live, closing, closed>>
  BY DEF IInv, TypeOK, Adopt
<1>3. /\ c \in Call /\ c.pc = "run" /\ c.rec = a /\ c.token = k /\ c.after = call[t].after
      /\ call' = [call EXCEPT ![t] = c]
  BY <1>0, <1>1, <1>2 DEF Call
<1>4. /\ b \in Record /\ b.claimer = k /\ record' = [record EXCEPT ![a] = b]
  BY <1>0, <1>1, <1>2 DEF Record, Call
<1> HIDE DEF c, b
<1>5. /\ \A u \in Thread : call'[u] = IF u = t THEN c ELSE call[u]
      /\ call' \in [Thread -> Call]
  BY <1>2, <1>3
<1>6. /\ \A d \in Address : record'[d] = IF d = a THEN b ELSE record[d]
      /\ record' \in [Address -> Record]
  BY <1>2, <1>4
<1>7. /\ a \notin Range(records) /\ records \in Seq(Address) /\ IsInjective(records)
      /\ Range(records) \subseteq Address
  BY <1>0 DEF Unreferenced, IInv, TypeOK, SlotsConserved, Range
<1>8. /\ records' \in Seq(Address) /\ Len(records') = Len(records) + 1
      /\ IsInjective(records') /\ Range(records') = Range(records) \cup {a}
  BY <1>0, <1>7, AppendOne
<1>9. slots \in Nat \ {0} /\ slots' = slots - 1 /\ slots + Len(records) = Slots
      /\ Len(records) \in Nat /\ Slots \in Nat
  BY <1>0, <1>7, LedgerAssumption DEF IInv, TypeOK, SlotsConserved, Adopt, Refused
<1>10. TypeOK' /\ SlotsConserved' /\ LiveIsOwned'
  BY <1>2, <1>5, <1>6, <1>8, <1>9 DEF IInv, TypeOK, SlotsConserved, LiveIsOwned
<1>11. ASSUME NEW u \in Thread, u # t, call[u].pc \in Holding
       PROVE  call[u].rec # a /\ call[u].rec \in Address
  BY <1>0, <1>11, Holder DEF Unreferenced
<1>12. HoldsItsRecord'
  <2>1. ASSUME NEW u \in Thread
        PROVE  IF call'[u].pc \in Holding
               THEN /\ call'[u].rec \in Range(records')
                    /\ call'[u].token \in {<<u, "own">>, <<u, "collect">>}
                    /\ record'[call'[u].rec].claimer = call'[u].token
               ELSE call'[u].rec = None /\ call'[u].token = None
    <3>1. CASE u = t
      BY <1>3, <1>4, <1>5, <1>6, <1>8, <3>1 DEF Holding
    <3>2. CASE u # t
      BY <1>5, <1>6, <1>8, <1>11, <3>2 DEF IInv, HoldsItsRecord
    <3>3. QED
      BY <3>1, <3>2
  <2>2. QED
    BY <2>1 DEF HoldsItsRecord
<1>13. SettledIsGone'
  BY <1>2, <1>3, <1>5 DEF IInv, SettledIsGone
<1>14. CollectsFor'
  <2>1. k # <<t, "collect">>
    OBVIOUS
  <2>2. QED
    BY <1>3, <1>5, <2>1 DEF IInv, CollectsFor
<1>15. ClaimHasCollector'
  <2>1. ASSUME NEW d \in Range(records'), record'[d].claimer # None
        PROVE  LET u == record'[d].claimer[1]
               IN  call'[u].rec = d /\ call'[u].token = record'[d].claimer
    <3>2. CASE d = a
      <4>1. record'[d].claimer = k /\ k[1] = t
        BY <1>4, <1>6, <3>2
      <4>2. QED
        BY <1>3, <1>5, <3>2, <4>1
    <3>3. CASE d # a
      <4>1. record'[d] = record[d] /\ d \in Range(records)
        BY <1>6, <1>7, <1>8, <3>3
      <4>2. PICK u \in Thread : /\ call[u].pc \in Holding /\ call[u].rec = d
                                /\ call[u].token = record[d].claimer
                                /\ u = record[d].claimer[1]
        BY <2>1, <4>1, ClaimHeld
      <4>3. u # t
        BY <1>2, <4>2 DEF Holding
      <4>4. QED
        BY <1>5, <4>1, <4>2, <4>3
    <3>4. QED
      BY <3>2, <3>3
  <2>2. ASSUME NEW d \in Range(records'), record'[d].in_flight PROVE record'[d].claimer # None
    <3>1. CASE d = a
      BY <1>1, <1>4, <1>6, <3>1
    <3>2. CASE d # a
      BY <1>6, <1>7, <1>8, <2>2, <3>2 DEF IInv, ClaimHasCollector
    <3>3. QED
      BY <3>1, <3>2
  <2>3. QED
    BY <2>1, <2>2 DEF ClaimHasCollector
<1>16. QED
  BY <1>10, <1>12, <1>13, <1>14, <1>15 DEF IInv

\* A thread settles the record it holds: reaped, the record leaves the ledger
\* with its slot; otherwise it is nobody's again.
LEMMA SettleMoves ==
    ASSUME IInv, NEW t \in Thread, Settle(t)
    PROVE  IInv'
<1> DEFINE r == call[t].rec
           c == Settling(t)[t]
<1>0. call[t].pc = "settle" /\ call[t].pc \in Holding /\ call' = Settling(t)
      /\ UNCHANGED <<live, closing, closed>>
  BY DEF Settle, Holding
<1>1. /\ r \in Range(records) /\ r \in Address
      /\ call[t].token \in {<<t, "own">>, <<t, "collect">>}
      /\ call[t].token \in Token
      /\ record[r].claimer = call[t].token
  BY <1>0, Holder
<1>2. call \in [Thread -> Call] /\ call[t] \in Call /\ record \in [Address -> Record]
      /\ records \in Seq(Address) /\ IsInjective(records) /\ Range(records) \subseteq Address
  BY DEF IInv, TypeOK, SlotsConserved, Range
<1>3. /\ c \in Call /\ c.pc \in {"idle", "claim"} /\ c.rec = None /\ c.token = None
      /\ c.pc = "claim" => c.after # None
  <2>1. c = IF call[t].raised \/ call[t].token = <<t, "own">> THEN Idle
            ELSE [call[t] EXCEPT !.pc = "claim", !.rec = None, !.token = None, !.reaped = FALSE]
    BY <1>2 DEF Settling
  <2>2. CASE call[t].raised \/ call[t].token = <<t, "own">>
    BY <2>1, <2>2 DEF Idle, Call
  <2>3. CASE ~(call[t].raised \/ call[t].token = <<t, "own">>)
    <3>1. call[t].after # None
      BY <1>1, <2>3 DEF IInv, CollectsFor
    <3>2. QED
      BY <1>2, <2>1, <2>3, <3>1 DEF Call
  <2>4. QED
    BY <2>2, <2>3
<1>4. call' = [call EXCEPT ![t] = c]
  BY <1>0, <1>2 DEF Settling
<1> HIDE DEF c
<1>5. /\ \A u \in Thread : call'[u] = IF u = t THEN c ELSE call[u]
      /\ call' \in [Thread -> Call]
  BY <1>2, <1>3, <1>4
<1>6. PICK b \in Record :
        /\ record' = [record EXCEPT ![r] = b] /\ ~b.in_flight /\ b.claimer = None
        /\ \/ /\ call[t].reaped /\ slots' = slots + 1
              /\ \E i \in DOMAIN records : records[i] = r /\ records' = RemoveAt(records, i)
           \/ UNCHANGED <<records, slots>>
  <2>1. CASE Removes(t)
    <3>1. NoRecord \in Record /\ ~NoRecord.in_flight /\ NoRecord.claimer = None
      BY DEF NoRecord, Record
    <3>2. /\ record' = [record EXCEPT ![r] = NoRecord] /\ slots' = slots + 1
          /\ \E i \in DOMAIN records : records[i] = r /\ records' = RemoveAt(records, i)
      BY <1>1, <2>1 DEF Settle
    <3>3. QED
      BY <2>1, <3>1, <3>2 DEF Removes
  <2>2. CASE ~Removes(t)
    <3> DEFINE b == [record[r] EXCEPT !.in_flight = FALSE, !.claimer = None]
    <3>1. b \in Record /\ ~b.in_flight /\ b.claimer = None
      BY <1>1, <1>2 DEF Record
    <3>2. /\ record' = [record EXCEPT ![r].in_flight = FALSE, ![r].claimer = None]
          /\ UNCHANGED <<records, slots>>
      BY <1>1, <2>2 DEF Settle
    <3>3. record' = [record EXCEPT ![r] = b]
      BY <1>1, <1>2, <3>2 DEF Record
    <3>4. QED
      BY <3>1, <3>2, <3>3
  <2>3. QED
    BY <2>1, <2>2
<1>7. /\ \A d \in Address : record'[d] = IF d = r THEN b ELSE record[d]
      /\ record' \in [Address -> Record]
  BY <1>1, <1>2, <1>6
<1>8. /\ records' \in Seq(Address) /\ IsInjective(records') /\ Len(records') \in Nat
      /\ slots' + Len(records') = Slots /\ slots' \in Nat
      /\ Range(records') \subseteq Range(records)
      /\ \A d \in Range(records) \ Range(records') : d = r /\ call[t].reaped
  <2>0. Len(records) \in Nat /\ slots \in Nat /\ Slots \in Nat /\ slots + Len(records) = Slots
    BY <1>2, LedgerAssumption DEF IInv, TypeOK, SlotsConserved
  <2>1. CASE /\ call[t].reaped /\ slots' = slots + 1
             /\ \E i \in DOMAIN records : records[i] = r /\ records' = RemoveAt(records, i)
    <3>1. PICK i \in DOMAIN records : records[i] = r /\ records' = RemoveAt(records, i)
      BY <2>1
    <3>2. /\ records' \in Seq(Address) /\ Len(records') = Len(records) - 1
          /\ IsInjective(records') /\ Range(records') = Range(records) \ {r}
      BY <1>2, <3>1, RemoveOne
    <3>3. Len(records') \in Nat
      BY <3>2
    <3>4. QED
      BY <2>0, <2>1, <3>2, <3>3
  <2>2. CASE UNCHANGED <<records, slots>>
    BY <1>2, <2>0, <2>2
  <2>3. QED
    BY <1>6, <2>1, <2>2
<1>9. TypeOK' /\ SlotsConserved'
  <2>1. slots' \in 0..Slots /\ Len(records') <= Slots
    BY <1>8, LedgerAssumption
  <2>2. QED
    BY <1>0, <1>5, <1>7, <1>8, <2>1 DEF IInv, TypeOK, SlotsConserved
<1>10. LiveIsOwned'
  <2>1. call[t].reaped => r \notin live
    BY <1>0 DEF IInv, SettledIsGone
  <2>2. QED
    BY <1>0, <1>8, <2>1 DEF IInv, LiveIsOwned
<1>11. ASSUME NEW u \in Thread, u # t, call[u].pc \in Holding
       PROVE  call[u].rec # r /\ call[u].rec \in Address /\ call[u].rec \in Range(records')
  <2>1. /\ call[u].rec \in Range(records) /\ call[u].rec \in Address
        /\ call[u].token \in {<<u, "own">>, <<u, "collect">>}
        /\ record[call[u].rec].claimer = call[u].token
    BY <1>11, Holder
  <2>2. call[u].rec # r
    BY <1>1, <1>11, <2>1, TokensDiffer
  <2>3. QED
    BY <1>8, <2>1, <2>2
<1>12. HoldsItsRecord'
  <2>1. ASSUME NEW u \in Thread
        PROVE  IF call'[u].pc \in Holding
               THEN /\ call'[u].rec \in Range(records')
                    /\ call'[u].token \in {<<u, "own">>, <<u, "collect">>}
                    /\ record'[call'[u].rec].claimer = call'[u].token
               ELSE call'[u].rec = None /\ call'[u].token = None
    <3>1. CASE u = t
      BY <1>3, <1>5, <3>1 DEF Holding
    <3>2. CASE u # t
      BY <1>5, <1>7, <1>11, <3>2 DEF IInv, HoldsItsRecord
    <3>3. QED
      BY <3>1, <3>2
  <2>2. QED
    BY <2>1 DEF HoldsItsRecord
<1>13. SettledIsGone'
  BY <1>0, <1>3, <1>5 DEF IInv, SettledIsGone
<1>14. CollectsFor'
  <2>1. c.token # <<t, "collect">>
    BY <1>3, LedgerAssumption DEF Token
  <2>2. QED
    BY <1>3, <1>5, <2>1 DEF IInv, CollectsFor
<1>15. ClaimHasCollector'
  <2>1. ASSUME NEW d \in Range(records'), record'[d].claimer # None
        PROVE  LET u == record'[d].claimer[1]
               IN  call'[u].rec = d /\ call'[u].token = record'[d].claimer
    <3>1. d \in Range(records) /\ d \in Address
      BY <1>2, <1>8
    <3>2. d # r /\ record'[d] = record[d]
      BY <1>6, <1>7, <2>1, <3>1
    <3>3. PICK u \in Thread : /\ call[u].pc \in Holding /\ call[u].rec = d
                              /\ call[u].token = record[d].claimer
                              /\ u = record[d].claimer[1]
      BY <2>1, <3>1, <3>2, ClaimHeld
    <3>4. u # t
      BY <3>2, <3>3
    <3>5. QED
      BY <1>5, <3>2, <3>3, <3>4
  <2>2. ASSUME NEW d \in Range(records'), record'[d].in_flight PROVE record'[d].claimer # None
    <3>1. d \in Range(records) /\ d \in Address
      BY <1>2, <1>8
    <3>2. d # r /\ record'[d] = record[d]
      BY <1>6, <1>7, <2>2, <3>1
    <3>3. QED
      BY <2>2, <3>1, <3>2 DEF IInv, ClaimHasCollector
  <2>3. QED
    BY <2>1, <2>2 DEF ClaimHasCollector
<1>16. QED
  BY <1>9, <1>10, <1>12, <1>13, <1>14, <1>15 DEF IInv

-----------------------------------------------------------------------------
(* The ledger: every action *)

\* The call of a collection is a call that holds nothing.
LEMMA CollectingFacts ==
    ASSUME IInv, NEW s \in Supervisor, NEW after \in {"adopt", "confirm", "idle"},
           NEW c \in {Collecting(s, after), BindLedger!Collecting(s, after)}
    PROVE  /\ c \in Call /\ c.pc = "claim" /\ c.rec = None /\ c.token = None
           /\ c.after = after /\ after # None
<1>1. Range(records) \subseteq Address
  BY DEF IInv, TypeOK, Range
<1>2. after # None
  BY LedgerAssumption
<1>3. CASE c = Collecting(s, after)
  BY <1>1, <1>2, <1>3 DEF Collecting, Idle, Call
<1>4. CASE c = BindLedger!Collecting(s, after)
  BY <1>1, <1>2, <1>4 DEF BindLedger!Collecting, BindLedger!Idle, BindLedger!Range, Range, Call
<1>5. QED
  BY <1>2, <1>3, <1>4

\* The call of a thread that does nothing.
LEMMA IdleFacts ==
    Idle \in Call /\ Idle.pc = "idle" /\ Idle.rec = None /\ Idle.token = None
    /\ Idle = BindLedger!Idle
  BY DEF Idle, BindLedger!Idle, Call

\* A call begins a collection: an admission, a collection or a close.
LEMMA CallKeeps ==
    ASSUME IInv, NEW t \in Thread, NEW s \in Supervisor,
           \/ Verify(t, s) \/ Collect(t, s) \/ Close(t, s)
           \/ BindLedger!Verify(t, s) \/ BindLedger!Collect(t, s) \/ BindLedger!Close(t, s)
    PROVE  IInv'
<1>1. call[t] = Idle
  BY IdleFacts DEF Verify, Collect, Close, BindLedger!Verify, BindLedger!Collect,
     BindLedger!Close
<1>2. PICK after \in {"adopt", "confirm", "idle"} :
        \E c \in {Collecting(s, after), BindLedger!Collecting(s, after)} :
            call' = [call EXCEPT ![t] = c]
  BY DEF Verify, Collect, Close, BindLedger!Verify, BindLedger!Collect, BindLedger!Close
<1>3. PICK c \in {Collecting(s, after), BindLedger!Collecting(s, after)} :
        call' = [call EXCEPT ![t] = c]
  BY <1>2
<1>4. closing' \in [Supervisor -> BOOLEAN] /\ closed' \in [Supervisor -> BOOLEAN]
  BY DEF IInv, TypeOK, Verify, Collect, Close, BindLedger!Verify, BindLedger!Collect,
     BindLedger!Close
<1>5. UNCHANGED <<records, slots, record, live>>
  BY DEF Verify, Collect, Close, BindLedger!Verify, BindLedger!Collect, BindLedger!Close
<1>6. /\ c \in Call /\ c.pc = "claim" /\ c.rec = None /\ c.token = None
      /\ c.after = after /\ after # None
  BY CollectingFacts
<1>7. call[t].pc \notin Holding /\ c.pc \notin Holding
  BY <1>1, <1>6, IdleFacts DEF Holding
<1>8. QED
  BY <1>4, <1>5, <1>6, <1>7, <1>3, FreeMoves

\* A collection ends, and the call goes on to what it was begun for.
LEMMA EndCollectKeeps ==
    ASSUME IInv, NEW t \in Thread, EndCollect(t) \/ BindLedger!EndCollect(t)
    PROVE  IInv'
<1> DEFINE c == IF call[t].after = "idle" THEN Idle
                ELSE [Idle EXCEPT !.pc = call[t].after, !.sup = call[t].sup]
<1>1. call \in [Thread -> Call] /\ call[t] \in Call
      /\ closing \in [Supervisor -> BOOLEAN] /\ closed \in [Supervisor -> BOOLEAN]
  BY DEF IInv, TypeOK
<1>2. call[t].pc = "claim" /\ call' = [call EXCEPT ![t] = c]
      /\ UNCHANGED <<records, slots, record, live, closing, closed>>
  BY <1>1 DEF EndCollect, BindLedger!EndCollect, BindLedger!Idle, Idle
<1>3. call[t].after # None
  BY <1>2 DEF IInv, CollectsFor
<1>4. c \in Call /\ c.pc \in {"idle", "adopt", "confirm"} /\ c.rec = None /\ c.token = None
  <2>1. CASE call[t].after = "idle"
    BY <2>1, IdleFacts
  <2>2. CASE call[t].after # "idle"
    <3>1. call[t].after \in {"adopt", "confirm"} /\ call[t].sup \in Supervisor \cup {None}
      BY <1>1, <1>3, <2>2 DEF Call
    <3>2. QED
      BY <2>2, <3>1 DEF Idle, Call
  <2>3. QED
    BY <2>1, <2>2
<1> HIDE DEF c
<1>5. call[t].pc \notin Holding /\ c.pc \notin Holding /\ c.pc # "claim"
  BY <1>2, <1>4 DEF Holding
<1>6. QED
  BY <1>1, <1>2, <1>4, <1>5, FreeMoves

\* A refused admission and a confirmation end the call.
LEMMA CallEnds ==
    ASSUME IInv, NEW t \in Thread, AdmissionRefused(t) \/ Confirm(t)
    PROVE  IInv'
<1>1. call[t].pc \notin Holding /\ Idle.pc \notin Holding /\ Idle.pc # "claim"
  BY IdleFacts DEF AdmissionRefused, Confirm, Holding
<1>2. call' = [call EXCEPT ![t] = Idle] /\ UNCHANGED <<records, slots, record, live>>
  BY DEF AdmissionRefused, Confirm
<1>3. closing' \in [Supervisor -> BOOLEAN] /\ closed' \in [Supervisor -> BOOLEAN]
  BY DEF IInv, TypeOK, AdmissionRefused, Confirm
<1>4. QED
  BY <1>1, <1>2, <1>3, IdleFacts, FreeMoves

\* A record is run and reaped, or its reaping is interrupted.
LEMMA WorkKeeps ==
    ASSUME IInv, NEW t \in Thread,
           \/ \E created \in BOOLEAN : Run(t, created)
           \/ \E reaped_ \in BOOLEAN : Reap(t, reaped_)
           \/ ReapInterrupted(t)
    PROVE  IInv'
<1>0. call \in [Thread -> Call] /\ call[t] \in Call
  BY DEF IInv, TypeOK
<1>1. CASE \E created \in BOOLEAN : Run(t, created)
  <2> DEFINE c == [call[t] EXCEPT !.pc = "reap"]
  <2>1. /\ c \in Call /\ c.pc = "reap" /\ c.rec = call[t].rec /\ c.token = call[t].token
        /\ c.after = call[t].after /\ call' = [call EXCEPT ![t] = c]
    BY <1>0, <1>1 DEF Run, Call
  <2>2. /\ call[t].pc \in Holding /\ live' \subseteq live \cup {call[t].rec}
        /\ UNCHANGED <<records, slots, record, closing, closed>>
    BY <1>1 DEF Run, Holding
  <2> HIDE DEF c
  <2>3. c.pc \in Holding /\ c.pc # "settle"
    BY <2>1 DEF Holding
  <2>4. QED
    BY <2>1, <2>2, <2>3, HeldMoves
<1>2. ASSUME NEW gone \in BOOLEAN, Reap(t, gone) PROVE IInv'
  <2> DEFINE c == [call[t] EXCEPT !.pc = "settle", !.reaped = gone]
  <2>1. /\ c \in Call /\ c.pc = "settle" /\ c.rec = call[t].rec /\ c.token = call[t].token
        /\ c.after = call[t].after /\ c.reaped = gone /\ call' = [call EXCEPT ![t] = c]
    BY <1>0, <1>2 DEF Reap, Call
  <2>2. /\ call[t].pc \in Holding /\ live' \subseteq live
        /\ gone => call[t].rec \notin live'
        /\ UNCHANGED <<records, slots, record, closing, closed>>
    BY <1>2 DEF Reap, Holding
  <2> HIDE DEF c
  <2>3. c.pc \in Holding /\ live' \subseteq live \cup {call[t].rec}
        /\ (c.pc = "settle" /\ c.reaped => c.rec \notin live')
    BY <2>1, <2>2 DEF Holding
  <2>4. QED
    BY <2>1, <2>2, <2>3, HeldMoves
<1>3. CASE ReapInterrupted(t)
  <2> DEFINE c == [call[t] EXCEPT !.pc = "settle", !.reaped = FALSE, !.raised = TRUE]
  <2>1. /\ c \in Call /\ c.pc = "settle" /\ c.rec = call[t].rec /\ c.token = call[t].token
        /\ c.after = call[t].after /\ c.reaped = FALSE /\ call' = [call EXCEPT ![t] = c]
    BY <1>0, <1>3 DEF ReapInterrupted, Call
  <2>2. /\ call[t].pc \in Holding /\ live' = live
        /\ UNCHANGED <<records, slots, record, closing, closed>>
    BY <1>3 DEF ReapInterrupted, Holding
  <2> HIDE DEF c
  <2>3. c.pc \in Holding /\ live' \subseteq live \cup {call[t].rec} /\ ~c.reaped
    BY <2>1, <2>2 DEF Holding
  <2>4. QED
    BY <2>1, <2>2, <2>3, HeldMoves
<1>4. QED
  BY <1>1, <1>2, <1>3

\* The shutdown of a supervisor begins: only its own flag changes.
LEMMA BeginShutdownKeeps ==
    ASSUME IInv, NEW s \in Supervisor, BeginShutdown(s) \/ BindLedger!BeginShutdown(s)
    PROVE  IInv'
<1>1. closing' \in [Supervisor -> BOOLEAN]
      /\ UNCHANGED <<records, slots, record, live, closed, call>>
  BY DEF IInv, TypeOK, BeginShutdown, BindLedger!BeginShutdown
<1>2. QED
  BY <1>1 DEF IInv, TypeOK, SlotsConserved, LiveIsOwned, ClaimHasCollector, HoldsItsRecord,
     SettledIsGone, CollectsFor

\* Every step on the ledger of verifications keeps the invariant.
LEMMA LedgerKeeps ==
    ASSUME IInv, Next
    PROVE  IInv'
<1>1. ASSUME NEW t \in Thread, Claim(t) PROVE IInv'
  <2>1. PICK i \in Free(t) : Takes(t, records[i])
    BY <1>1 DEF Claim
  <2>2. PICK a \in Range(records) : a = records[i]
    BY DEF Free, Range
  <2>3. ~record[a].in_flight /\ record[a].claimer = None
    BY <2>2 DEF Free, Claimable
  <2>4. Takes(t, a)
    BY <2>1, <2>2
  <2>5. call[t].pc = "claim" /\ UNCHANGED <<records, slots, live, closing, closed>>
    BY <1>1 DEF Claim
  <2>6. QED
    BY <2>3, <2>4, <2>5, ClaimKeeps
<1>2. ASSUME NEW t \in Thread, Step(t) PROVE IInv'
  BY <1>1, <1>2, EndCollectKeeps, WorkKeeps, SettleMoves, AdoptMoves, CallEnds DEF Step
<1>3. QED
  BY <1>2, CallKeeps, BeginShutdownKeeps DEF Next

\* Every step on the ledger of the bind resolution keeps the invariant.
LEMMA BindLedgerKeeps ==
    ASSUME IInv, BindLedger!Next
    PROVE  IInv'
<1>1. ASSUME NEW t \in Thread, BindLedger!Claim(t) PROVE IInv'
  <2>1. PICK i \in BindLedger!Free(t) : BindLedger!Takes(t, records[i])
    BY <1>1 DEF BindLedger!Claim
  <2>2. PICK a \in Range(records) : a = records[i]
    BY DEF BindLedger!Free, Range
  <2>3. ~record[a].in_flight /\ record[a].claimer = None
    BY <2>2 DEF BindLedger!Free, BindLedger!Claimable
  <2>4. Takes(t, a)
    BY <2>1, <2>2 DEF Takes, BindLedger!Takes
  <2>5. call[t].pc = "claim" /\ UNCHANGED <<records, slots, live, closing, closed>>
    BY <1>1 DEF BindLedger!Claim
  <2>6. QED
    BY <2>3, <2>4, <2>5, ClaimKeeps
<1>2. ASSUME NEW t \in Thread PROVE BindLedger!Settle(t) => Settle(t)
  BY DEF Settle, BindLedger!Settle, Removes, BindLedger!Removes, Settling,
     BindLedger!Settling, NoRecord, BindLedger!NoRecord, Idle, BindLedger!Idle,
     Range, BindLedger!Range, RemoveAt, BindLedger!RemoveAt
<1>3. ASSUME NEW t \in Thread PROVE BindLedger!Adopt(t) => Adopt(t)
  BY DEF Adopt, BindLedger!Adopt, Refused, BindLedger!Refused, Unreferenced,
     BindLedger!Unreferenced, Range, BindLedger!Range
<1>4. ASSUME NEW t \in Thread
      PROVE  /\ BindLedger!AdmissionRefused(t) => AdmissionRefused(t)
             /\ BindLedger!Confirm(t) => Confirm(t)
  BY IdleFacts DEF AdmissionRefused, BindLedger!AdmissionRefused, Refused, BindLedger!Refused,
     Confirm, BindLedger!Confirm, Range, BindLedger!Range
<1>5. ASSUME NEW t \in Thread
      PROVE  /\ \A gone \in BOOLEAN : BindLedger!Reap(t, gone) => Reap(t, gone)
             /\ \A created \in BOOLEAN : BindLedger!Run(t, created) => Run(t, created)
             /\ BindLedger!ReapInterrupted(t) => ReapInterrupted(t)
  BY DEF Reap, BindLedger!Reap, Run, BindLedger!Run, ReapInterrupted,
     BindLedger!ReapInterrupted
<1>6. ASSUME NEW t \in Thread, BindLedger!Step(t) PROVE IInv'
  <2>1. CASE BindLedger!Claim(t) \/ BindLedger!EndCollect(t)
    BY <1>1, <2>1, EndCollectKeeps
  <2>2. CASE BindLedger!Settle(t) \/ BindLedger!Adopt(t) \/ BindLedger!AdmissionRefused(t)
             \/ BindLedger!Confirm(t)
    BY <1>2, <1>3, <1>4, <2>2, SettleMoves, AdoptMoves, CallEnds
  <2>3. CASE \/ \E gone \in BOOLEAN : BindLedger!Reap(t, gone)
             \/ \E created \in BOOLEAN : BindLedger!Run(t, created)
             \/ BindLedger!ReapInterrupted(t)
    BY <1>5, <2>3, WorkKeeps
  <2>4. QED
    BY <1>6, <2>1, <2>2, <2>3 DEF BindLedger!Step
<1>7. QED
  BY <1>6, CallKeeps, BeginShutdownKeeps DEF BindLedger!Next

\* The empty ledger satisfies the invariant.
LEMMA LedgerStarts ==
    ASSUME Init
    PROVE  IInv
<1>1. records = <<>> /\ Len(records) = 0 /\ Range(records) = {} /\ IsInjective(records)
      /\ records \in Seq(Address)
  BY DEF Init, Range, IsInjective
<1>2. TypeOK
  <2>1. NoRecord \in Record
    BY DEF NoRecord, Record
  <2>2. QED
    BY <1>1, <2>1, IdleFacts, LedgerAssumption DEF Init, TypeOK
<1>3. \A t \in Thread : call[t] = Idle
  BY DEF Init
<1>4. HoldsItsRecord /\ SettledIsGone
  BY <1>3, IdleFacts DEF HoldsItsRecord, SettledIsGone, Holding
<1>5. CollectsFor
  <2>1. \A t \in Thread : None # <<t, "collect">>
    BY LedgerAssumption DEF Token
  <2>2. QED
    BY <1>3, <2>1, IdleFacts DEF CollectsFor
<1>6. QED
  BY <1>1, <1>2, <1>4, <1>5, LedgerAssumption DEF IInv, SlotsConserved, LiveIsOwned,
     ClaimHasCollector, Init

\* The invariant implies what is promised of the ledger: in particular no record
\* is in the hands of two threads, for its claim carries one token.
LEMMA LedgerPromise ==
    ASSUME IInv
    PROVE  LedgerSound
<1>1. ASSUME NEW t \in Thread, NEW u \in Thread, t # u, call[t].pc \in {"run", "reap"},
             call[u].pc \in {"run", "reap"}, call[t].rec = call[u].rec
      PROVE  FALSE
  <2>1. call[t].pc \in Holding /\ call[u].pc \in Holding
    BY <1>1 DEF Holding
  <2>2. /\ call[t].token \in {<<t, "own">>, <<t, "collect">>}
        /\ record[call[t].rec].claimer = call[t].token
        /\ call[u].token \in {<<u, "own">>, <<u, "collect">>}
        /\ record[call[u].rec].claimer = call[u].token
    BY <2>1, Holder
  <2>3. QED
    BY <1>1, <2>2, TokensDiffer
<1>2. QED
  BY <1>1 DEF LedgerSound, OneReaper, IInv

-----------------------------------------------------------------------------
(* The child record *)

ChildInv == VerifyChild!IInv

\* A step that changes none of the record's variables keeps the invariant.
LEMMA ChildUntouched ==
    ASSUME ChildInv, UNCHANGED childVars
    PROVE  ChildInv'
  BY DEF ChildInv, childVars, VerifyChild!IInv, VerifyChild!TypeOK, VerifyChild!NothingBeforeSpawn,
     VerifyChild!AttemptRecorded, VerifyChild!ReapedIsFinal, VerifyChild!Gone

\* A handler that has not finished may move to another place of run or reap
\* while it leaves the process, the pipes, the pumps and the reports alone.
LEMMA HandlerMoves ==
    ASSUME ChildInv, pc \notin {"settle", "idle"},
           pc' \in {"start", "wait", "answer", "reap", "kill", "close", "check", "retry"},
           pc' \in {"start", "wait", "answer"} => spawn = "created",
           next' \in VerifyChild!Pump, completed' \in BOOLEAN,
           UNCHANGED <<spawn, child, code, said, pid, pipe, pump, sink, late, spent, reaped,
                       outcome>>
    PROVE  ChildInv'
<1>1. VerifyChild!TypeOK'
  BY DEF ChildInv, VerifyChild!IInv, VerifyChild!TypeOK
<1>2. VerifyChild!NothingBeforeSpawn' /\ VerifyChild!AttemptRecorded'
  BY DEF ChildInv, VerifyChild!IInv, VerifyChild!NothingBeforeSpawn, VerifyChild!AttemptRecorded
<1>3. ~reaped
  BY DEF ChildInv, VerifyChild!IInv, VerifyChild!ReapedIsFinal
<1>4. VerifyChild!ReapedIsFinal'
  BY <1>3 DEF ChildInv, VerifyChild!IInv, VerifyChild!ReapedIsFinal
<1>5. QED
  BY <1>1, <1>2, <1>4 DEF ChildInv, VerifyChild!IInv

\* A pump whose thread lives may change its own record, the sink and its own
\* pipe, as long as what was recorded of its start stays.
LEMMA PumpMoves ==
    ASSUME ChildInv, NEW p \in VerifyChild!Pump, NEW r \in VerifyChild!PumpRecord,
           pump[p].thread \notin {"none", "dead"}, r.state = pump[p].state,
           pump' = [pump EXCEPT ![p] = r], sink' \in VerifyChild!Sink,
           pipe' = pipe \/ pipe' = [pipe EXCEPT ![p] = "closed"],
           UNCHANGED <<pc, next, completed, reaped, outcome, spawn, child, code, said, pid,
                       late, spent>>
    PROVE  ChildInv'
<1>1. VerifyChild!TypeOK'
  BY DEF ChildInv, VerifyChild!IInv, VerifyChild!TypeOK
<1>2. pump[p].state # "idle" /\ spawn # "idle" /\ ~reaped
  BY DEF ChildInv, VerifyChild!IInv, VerifyChild!AttemptRecorded, VerifyChild!NothingBeforeSpawn,
     VerifyChild!ReapedIsFinal, VerifyChild!Gone
<1>3. VerifyChild!NothingBeforeSpawn'
  BY <1>2 DEF ChildInv, VerifyChild!IInv, VerifyChild!NothingBeforeSpawn
<1>4. VerifyChild!AttemptRecorded'
  BY <1>2 DEF ChildInv, VerifyChild!IInv, VerifyChild!TypeOK, VerifyChild!AttemptRecorded
<1>5. VerifyChild!ReapedIsFinal'
  BY <1>2 DEF ChildInv, VerifyChild!IInv, VerifyChild!ReapedIsFinal
<1>6. QED
  BY <1>1, <1>3, <1>4, <1>5 DEF ChildInv, VerifyChild!IInv

\* The constructor is not entered, raises, or returns.
LEMMA SpawnKeeps ==
    ASSUME ChildInv, VerifyChild!SpawnNothing \/ VerifyChild!SpawnRaises \/ VerifyChild!Spawn
    PROVE  ChildInv'
<1>1. CASE VerifyChild!SpawnNothing
  <2>1. next \in VerifyChild!Pump
    BY DEF ChildInv, VerifyChild!IInv, VerifyChild!TypeOK
  <2>2. QED
    BY <1>1, <2>1, HandlerMoves DEF ChildInv, VerifyChild!SpawnNothing, VerifyChild!GoReap,
       VerifyChild!process
<1>2. CASE VerifyChild!SpawnRaises
  <2>1. pc = "spawn" /\ spawn = "idle" /\ ~reaped
    BY <1>2 DEF ChildInv, VerifyChild!IInv, VerifyChild!SpawnRaises, VerifyChild!NothingBeforeSpawn,
       VerifyChild!ReapedIsFinal
  <2>2. VerifyChild!TypeOK'
    <3>1. child' \in {"none", "alive"} /\ pid' \in BOOLEAN
      BY <1>2 DEF ChildInv, VerifyChild!SpawnRaises
    <3>2. pipe' \in [VerifyChild!Pump -> {"absent", "open", "closed"}]
      BY <1>2 DEF ChildInv, VerifyChild!IInv, VerifyChild!TypeOK, VerifyChild!SpawnRaises
    <3>3. completed' \in BOOLEAN
      BY <1>2 DEF ChildInv, VerifyChild!SpawnRaises, VerifyChild!GoReap
    <3>4. QED
      BY <1>2, <3>1, <3>2, <3>3 DEF ChildInv, VerifyChild!IInv, VerifyChild!TypeOK,
         VerifyChild!SpawnRaises, VerifyChild!GoReap
  <2>3. VerifyChild!NothingBeforeSpawn' /\ VerifyChild!AttemptRecorded' /\ ~reaped' /\ outcome' = outcome
    BY <1>2, <2>1 DEF ChildInv, VerifyChild!IInv, VerifyChild!NothingBeforeSpawn,
       VerifyChild!AttemptRecorded, VerifyChild!SpawnRaises, VerifyChild!GoReap
  <2>4. VerifyChild!ReapedIsFinal'
    BY <2>1, <2>3 DEF ChildInv, VerifyChild!IInv, VerifyChild!ReapedIsFinal
  <2>5. QED
    BY <2>2, <2>3, <2>4 DEF ChildInv, VerifyChild!IInv
<1>3. CASE VerifyChild!Spawn
  BY <1>3 DEF ChildInv, VerifyChild!IInv, VerifyChild!TypeOK, VerifyChild!NothingBeforeSpawn,
     VerifyChild!AttemptRecorded, VerifyChild!ReapedIsFinal, VerifyChild!Gone,
     VerifyChild!Spawn, VerifyChild!Pump
<1>4. QED
  BY <1>1, <1>2, <1>3

\* A pump is started, and its start returns or raises.
LEMMA StartKeeps ==
    ASSUME ChildInv, VerifyChild!StartPump \/ VerifyChild!StartReturns \/ VerifyChild!StartRaises
    PROVE  ChildInv'
<1>0. next \in VerifyChild!Pump
  BY DEF ChildInv, VerifyChild!IInv, VerifyChild!TypeOK
<1>1. CASE VerifyChild!StartPump
  BY <1>1 DEF ChildInv, VerifyChild!IInv, VerifyChild!TypeOK, VerifyChild!NothingBeforeSpawn,
     VerifyChild!AttemptRecorded, VerifyChild!ReapedIsFinal, VerifyChild!Gone,
     VerifyChild!StartPump, VerifyChild!Pump, VerifyChild!PumpRecord, VerifyChild!process
<1>2. CASE VerifyChild!StartReturns
  BY <1>2 DEF ChildInv, VerifyChild!IInv, VerifyChild!TypeOK, VerifyChild!NothingBeforeSpawn,
     VerifyChild!AttemptRecorded, VerifyChild!ReapedIsFinal, VerifyChild!Gone,
     VerifyChild!StartReturns, VerifyChild!Pump, VerifyChild!PumpRecord, VerifyChild!process
<1>3. CASE VerifyChild!StartRaises
  BY <1>0, <1>3, HandlerMoves DEF ChildInv, VerifyChild!StartRaises, VerifyChild!GoReap,
     VerifyChild!process
<1>4. QED
  BY <1>1, <1>2, <1>3

\* The wait gives up, returns, or goes on to the answer.
LEMMA WaitKeeps ==
    ASSUME ChildInv, VerifyChild!WaitGivesUp \/ VerifyChild!WaitReturns \/ VerifyChild!ReadInTime
    PROVE  ChildInv'
<1>0. next \in VerifyChild!Pump /\ pc \in {"wait", "answer"} /\ late \in BOOLEAN
      /\ pump["stdout"].done \in BOOLEAN
  BY DEF ChildInv, VerifyChild!IInv, VerifyChild!TypeOK, VerifyChild!Pump, VerifyChild!PumpRecord,
     VerifyChild!WaitGivesUp, VerifyChild!WaitReturns, VerifyChild!ReadInTime
<1>1. CASE VerifyChild!WaitGivesUp
  BY <1>0, <1>1, HandlerMoves DEF ChildInv, VerifyChild!WaitGivesUp, VerifyChild!GoReap,
     VerifyChild!process
<1>2. CASE VerifyChild!WaitReturns
  BY <1>0, <1>2, HandlerMoves DEF ChildInv, VerifyChild!WaitReturns, VerifyChild!GoReap,
     VerifyChild!process
<1>3. CASE VerifyChild!ReadInTime
  <2>1. completed' \in BOOLEAN
    BY <1>0, <1>3 DEF ChildInv, VerifyChild!ReadInTime, VerifyChild!GoReap
  <2>2. QED
    BY <1>0, <1>3, <2>1, HandlerMoves DEF ChildInv, VerifyChild!ReadInTime, VerifyChild!GoReap,
       VerifyChild!process
<1>4. QED
  BY <1>1, <1>2, <1>3

\* A pass over a record nothing was spawned for reports it reaped.
LEMMA ReapStartsKeeps ==
    ASSUME ChildInv, VerifyChild!ReapStarts
    PROVE  ChildInv'
<1>0. next \in VerifyChild!Pump /\ pc = "reap" /\ ~reaped
  BY DEF ChildInv, VerifyChild!IInv, VerifyChild!TypeOK, VerifyChild!ReapStarts,
     VerifyChild!ReapedIsFinal
<1>1. CASE spawn = "idle" /\ VerifyChild!PassReturns(TRUE)
  <2>1. VerifyChild!Gone
    BY <1>1 DEF ChildInv, VerifyChild!IInv, VerifyChild!NothingBeforeSpawn,
       VerifyChild!AttemptRecorded, VerifyChild!Gone
  <2>2. VerifyChild!Gone' /\ reaped' /\ pc' = "settle"
    BY <1>1, <2>1 DEF ChildInv, VerifyChild!Gone, VerifyChild!ReapStarts, VerifyChild!PassReturns,
       VerifyChild!process
  <2>3. QED
    BY <1>0, <1>1, <2>2 DEF ChildInv, VerifyChild!IInv, VerifyChild!TypeOK,
       VerifyChild!NothingBeforeSpawn, VerifyChild!AttemptRecorded, VerifyChild!ReapedIsFinal,
       VerifyChild!ReapStarts, VerifyChild!PassReturns, VerifyChild!process
<1>2. CASE spawn # "idle" /\ VerifyChild!PassReturns(FALSE)
  <2>1. ~reaped' /\ outcome' = outcome /\ VerifyChild!TypeOK'
    BY <1>2 DEF ChildInv, VerifyChild!IInv, VerifyChild!TypeOK, VerifyChild!ReapStarts,
       VerifyChild!PassReturns, VerifyChild!process
  <2>2. VerifyChild!NothingBeforeSpawn' /\ VerifyChild!AttemptRecorded'
    BY <1>2 DEF ChildInv, VerifyChild!IInv, VerifyChild!NothingBeforeSpawn,
       VerifyChild!AttemptRecorded, VerifyChild!ReapStarts, VerifyChild!PassReturns,
       VerifyChild!process
  <2>3. QED
    BY <1>0, <2>1, <2>2 DEF ChildInv, VerifyChild!IInv, VerifyChild!ReapedIsFinal
<1>3. CASE VerifyChild!Goto("kill")
  <2>1. completed \in BOOLEAN
    BY DEF ChildInv, VerifyChild!IInv, VerifyChild!TypeOK
  <2>2. QED
    BY <1>0, <1>3, <2>1, HandlerMoves DEF ChildInv, VerifyChild!ReapStarts, VerifyChild!Goto,
       VerifyChild!process
<1>4. QED
  BY <1>1, <1>2, <1>3 DEF ChildInv, VerifyChild!ReapStarts

\* The child is killed, or the pass goes on without its end; then the pipes are closed.
LEMMA KillKeeps ==
    ASSUME ChildInv, VerifyChild!Kill \/ VerifyChild!ClosePipes
    PROVE  ChildInv'
<1>1. CASE VerifyChild!Kill
  BY <1>1 DEF ChildInv, VerifyChild!IInv, VerifyChild!TypeOK, VerifyChild!NothingBeforeSpawn,
     VerifyChild!AttemptRecorded, VerifyChild!ReapedIsFinal, VerifyChild!Gone, VerifyChild!Kill,
     VerifyChild!Goto
<1>2. CASE VerifyChild!ClosePipes
  BY <1>2 DEF ChildInv, VerifyChild!IInv, VerifyChild!TypeOK, VerifyChild!NothingBeforeSpawn,
     VerifyChild!AttemptRecorded, VerifyChild!ReapedIsFinal, VerifyChild!Gone,
     VerifyChild!ClosePipes, VerifyChild!Goto, VerifyChild!process
<1>3. QED
  BY <1>1, <1>2

\* The pass reports the record reaped only when nothing of it is left.
LEMMA CheckKeeps ==
    ASSUME ChildInv, VerifyChild!Check
    PROVE  ChildInv'
<1>1. pc = "check" /\ ~reaped /\ spawn' = spawn /\ child' = child /\ pipe' = pipe
  BY DEF ChildInv, VerifyChild!IInv, VerifyChild!Check, VerifyChild!ReapedIsFinal,
     VerifyChild!process
<1>2. /\ pump' \in [VerifyChild!Pump -> VerifyChild!PumpRecord]
      /\ \A p \in VerifyChild!Pump :
            pump'[p].state = pump[p].state /\ pump'[p].thread = pump[p].thread
  <2>1. pump \in [VerifyChild!Pump -> VerifyChild!PumpRecord]
    BY DEF ChildInv, VerifyChild!IInv, VerifyChild!TypeOK
  <2>2. ASSUME NEW p \in VerifyChild!Pump
        PROVE  LET r == IF pump[p].ran THEN pump[p] ELSE [pump[p] EXCEPT !.cancelled = TRUE]
               IN  r \in VerifyChild!PumpRecord /\ r.state = pump[p].state
                   /\ r.thread = pump[p].thread
    BY <2>1 DEF VerifyChild!PumpRecord
  <2>3. CASE pump' = pump
    BY <2>1, <2>3
  <2>4. CASE pump' = VerifyChild!Cancelled
    BY <2>2, <2>4 DEF VerifyChild!Cancelled
  <2>5. QED
    BY <2>3, <2>4 DEF VerifyChild!Check
<1>3. VerifyChild!NothingBeforeSpawn' /\ VerifyChild!AttemptRecorded'
  BY <1>1, <1>2 DEF ChildInv, VerifyChild!IInv, VerifyChild!NothingBeforeSpawn,
     VerifyChild!AttemptRecorded, VerifyChild!Check, VerifyChild!PassReturns, VerifyChild!Goto
<1>4. CASE /\ child = "ended" /\ (\A p \in VerifyChild!Pump : VerifyChild!Settled(p))
           /\ VerifyChild!AllClosed /\ VerifyChild!PassReturns(TRUE)
  <2>1. VerifyChild!Gone
    BY <1>4 DEF ChildInv, VerifyChild!IInv, VerifyChild!AttemptRecorded, VerifyChild!Settled,
       VerifyChild!AllClosed, VerifyChild!Gone
  <2>2. VerifyChild!Gone' /\ reaped' /\ pc' = "settle"
    BY <1>1, <1>2, <1>4, <2>1 DEF VerifyChild!Gone, VerifyChild!PassReturns
  <2>3. VerifyChild!TypeOK'
    BY <1>2, <1>4, <2>2 DEF ChildInv, VerifyChild!IInv, VerifyChild!TypeOK, VerifyChild!Check,
       VerifyChild!PassReturns, VerifyChild!process
  <2>4. QED
    BY <1>3, <2>2, <2>3 DEF ChildInv, VerifyChild!IInv, VerifyChild!ReapedIsFinal
<1>5. CASE VerifyChild!Goto("retry")
  <2>1. VerifyChild!TypeOK'
    BY <1>2, <1>5 DEF ChildInv, VerifyChild!IInv, VerifyChild!TypeOK, VerifyChild!Check,
       VerifyChild!Goto, VerifyChild!process
  <2>2. ~reaped' /\ outcome' = outcome
    BY <1>1, <1>5 DEF VerifyChild!Goto
  <2>3. QED
    BY <1>1, <1>3, <2>1, <2>2 DEF ChildInv, VerifyChild!IInv, VerifyChild!ReapedIsFinal
<1>6. QED
  BY <1>4, <1>5 DEF VerifyChild!Check

\* The pass goes round again or ends without the proof, and the caller is told.
LEMMA RetryKeeps ==
    ASSUME ChildInv, VerifyChild!Retry \/ VerifyChild!Settle
    PROVE  ChildInv'
<1>1. CASE VerifyChild!Retry
  <2>0. next \in VerifyChild!Pump /\ completed \in BOOLEAN /\ pc = "retry" /\ ~reaped
    BY <1>1 DEF ChildInv, VerifyChild!IInv, VerifyChild!TypeOK, VerifyChild!Retry,
       VerifyChild!ReapedIsFinal
  <2>1. CASE VerifyChild!PassReturns(FALSE)
    <3>1. /\ reaped' = FALSE /\ pc' = "settle" /\ UNCHANGED <<next, completed, outcome>>
          /\ UNCHANGED <<spawn, child, code, said, pid, pipe, pump, sink, late, spent>>
      BY <1>1, <2>1 DEF VerifyChild!Retry, VerifyChild!PassReturns, VerifyChild!process
    <3>2. reaped' \in BOOLEAN
      BY <3>1
    <3>3. VerifyChild!TypeOK'
      BY <3>1, <3>2 DEF ChildInv, VerifyChild!IInv, VerifyChild!TypeOK
    <3>4. VerifyChild!NothingBeforeSpawn' /\ VerifyChild!AttemptRecorded'
      BY <1>1, <2>1 DEF ChildInv, VerifyChild!IInv, VerifyChild!NothingBeforeSpawn,
         VerifyChild!AttemptRecorded, VerifyChild!Retry, VerifyChild!PassReturns,
         VerifyChild!process
    <3>5. QED
      BY <2>0, <3>1, <3>3, <3>4 DEF ChildInv, VerifyChild!IInv, VerifyChild!ReapedIsFinal
  <2>2. CASE VerifyChild!Goto("kill")
    BY <1>1, <2>0, <2>2, HandlerMoves DEF ChildInv, VerifyChild!Retry, VerifyChild!Goto,
       VerifyChild!process
  <2>3. QED
    BY <1>1, <2>1, <2>2 DEF VerifyChild!Retry
<1>2. CASE VerifyChild!Settle
  BY <1>2 DEF ChildInv, VerifyChild!IInv, VerifyChild!TypeOK, VerifyChild!NothingBeforeSpawn,
     VerifyChild!AttemptRecorded, VerifyChild!ReapedIsFinal, VerifyChild!Gone,
     VerifyChild!Settle, VerifyChild!Told, VerifyChild!Parsed, VerifyChild!process
<1>3. QED
  BY <1>1, <1>2

\* A pump's thread enters its target, or finds it cancelled or its stream closed, or dies.
LEMMA ThreadKeeps ==
    ASSUME ChildInv, NEW p \in VerifyChild!Pump, VerifyChild!Guarded(p) \/ VerifyChild!ThreadDies(p) \/ VerifyChild!FindsClosed(p)
    PROVE  ChildInv'
<1>0. pump[p] \in VerifyChild!PumpRecord /\ pump \in [VerifyChild!Pump -> VerifyChild!PumpRecord]
      /\ sink \in VerifyChild!Sink
  BY DEF ChildInv, VerifyChild!IInv, VerifyChild!TypeOK
<1>1. PICK r \in VerifyChild!PumpRecord : r.state = pump[p].state /\ pump' = [pump EXCEPT ![p] = r]
  <2>1. CASE VerifyChild!Guarded(p) /\ pump[p].cancelled
    BY <1>0, <2>1 DEF VerifyChild!Guarded, VerifyChild!Exits, VerifyChild!PumpRecord
  <2>2. CASE VerifyChild!Guarded(p) /\ ~pump[p].cancelled
    BY <1>0, <2>2 DEF VerifyChild!Guarded, VerifyChild!PumpRecord
  <2>3. CASE VerifyChild!ThreadDies(p)
    BY <1>0, <2>3 DEF VerifyChild!ThreadDies, VerifyChild!PumpRecord
  <2>4. CASE VerifyChild!FindsClosed(p)
    BY <1>0, <2>4 DEF VerifyChild!FindsClosed, VerifyChild!Exits, VerifyChild!PumpRecord
  <2>5. QED
    BY <2>1, <2>2, <2>3, <2>4
<1>2. /\ pump[p].thread \notin {"none", "dead"} /\ pipe' = pipe /\ sink' = sink
      /\ UNCHANGED <<pc, next, completed, reaped, outcome, spawn, child, code, said, pid,
                     late, spent>>
  BY DEF VerifyChild!Guarded, VerifyChild!ThreadDies, VerifyChild!FindsClosed,
     VerifyChild!handler, VerifyChild!process
<1>3. QED
  BY <1>0, <1>1, <1>2, PumpMoves

\* The pump of stdin sends, or fails to, and closes its pipe.
LEMMA InputKeeps ==
    ASSUME ChildInv, VerifyChild!Sends
    PROVE  ChildInv'
<1>0. /\ pump \in [VerifyChild!Pump -> VerifyChild!PumpRecord] /\ sink \in VerifyChild!Sink
      /\ "stdin" \in VerifyChild!Pump
  BY DEF ChildInv, VerifyChild!IInv, VerifyChild!TypeOK, VerifyChild!Pump
<1>1. PICK r \in VerifyChild!PumpRecord :
          r.state = pump["stdin"].state /\ pump' = [pump EXCEPT !["stdin"] = r]
  <2>1. pump' = VerifyChild!Exits("stdin")
    BY DEF VerifyChild!Sends
  <2>2. QED
    BY <1>0, <2>1 DEF VerifyChild!Exits, VerifyChild!PumpRecord
<1>2. sink' \in VerifyChild!Sink
  BY <1>0 DEF VerifyChild!Sends, VerifyChild!Sink
<1>3. /\ pump["stdin"].thread \notin {"none", "dead"}
      /\ pipe' = pipe \/ pipe' = [pipe EXCEPT !["stdin"] = "closed"]
      /\ UNCHANGED <<pc, next, completed, reaped, outcome, spawn, child, code, said, pid,
                     late, spent>>
  BY DEF VerifyChild!Sends, VerifyChild!Closes, VerifyChild!handler, VerifyChild!process
<1>4. QED
  BY <1>0, <1>1, <1>2, <1>3, PumpMoves

\* The pump of stdout reads, reaches the end, reads too much or fails.
LEMMA OutputKeeps ==
    ASSUME ChildInv, VerifyChild!Reads \/ VerifyChild!ReadsEnd \/ VerifyChild!ReadsTooMuch
               \/ VerifyChild!ReadFails
    PROVE  ChildInv'
<1>0. /\ pump \in [VerifyChild!Pump -> VerifyChild!PumpRecord] /\ sink \in VerifyChild!Sink
      /\ "stdout" \in VerifyChild!Pump /\ said \in VerifyChild!Answer \cup {None}
  BY DEF ChildInv, VerifyChild!IInv, VerifyChild!TypeOK, VerifyChild!Pump
<1>1. PICK r \in VerifyChild!PumpRecord :
          r.state = pump["stdout"].state /\ pump' = [pump EXCEPT !["stdout"] = r]
  BY <1>0 DEF VerifyChild!Reads, VerifyChild!ReadsEnd, VerifyChild!ReadsTooMuch,
     VerifyChild!ReadFails, VerifyChild!Exits, VerifyChild!PumpRecord
<1>2. sink' \in VerifyChild!Sink
  BY <1>0 DEF VerifyChild!Reads, VerifyChild!ReadsEnd, VerifyChild!ReadsTooMuch,
     VerifyChild!ReadFails, VerifyChild!Sink
<1>3. /\ pump["stdout"].thread \notin {"none", "dead"}
      /\ pipe' = pipe \/ pipe' = [pipe EXCEPT !["stdout"] = "closed"]
      /\ UNCHANGED <<pc, next, completed, reaped, outcome, spawn, child, code, said, pid,
                     late, spent>>
  BY DEF VerifyChild!Reads, VerifyChild!ReadsEnd, VerifyChild!ReadsTooMuch,
     VerifyChild!ReadFails, VerifyChild!Closes, VerifyChild!handler, VerifyChild!process
<1>4. QED
  BY <1>0, <1>1, <1>2, <1>3, PumpMoves

\* The child answers and ends, and deadlines pass.
LEMMA WorldKeeps ==
    ASSUME ChildInv, \/ \E answer \in VerifyChild!Answer : VerifyChild!ChildAnswers(answer)
           \/ \E status \in {0, 1} : VerifyChild!ChildExits(status)
           \/ VerifyChild!DeadlinePasses \/ VerifyChild!BudgetSpent
    PROVE  ChildInv'
<1>1. ASSUME NEW a \in VerifyChild!Answer, VerifyChild!ChildAnswers(a) PROVE ChildInv'
  BY <1>1 DEF ChildInv, VerifyChild!IInv, VerifyChild!TypeOK, VerifyChild!NothingBeforeSpawn,
     VerifyChild!AttemptRecorded, VerifyChild!ReapedIsFinal, VerifyChild!Gone,
     VerifyChild!ChildAnswers, VerifyChild!Answer, VerifyChild!handler
<1>2. ASSUME NEW s \in {0, 1}, VerifyChild!ChildExits(s) PROVE ChildInv'
  BY <1>2 DEF ChildInv, VerifyChild!IInv, VerifyChild!TypeOK, VerifyChild!NothingBeforeSpawn,
     VerifyChild!AttemptRecorded, VerifyChild!ReapedIsFinal, VerifyChild!Gone,
     VerifyChild!ChildExits, VerifyChild!handler
<1>3. CASE VerifyChild!DeadlinePasses
  BY <1>3 DEF ChildInv, VerifyChild!IInv, VerifyChild!TypeOK, VerifyChild!NothingBeforeSpawn,
     VerifyChild!AttemptRecorded, VerifyChild!ReapedIsFinal, VerifyChild!Gone,
     VerifyChild!DeadlinePasses, VerifyChild!handler, VerifyChild!process
<1>4. CASE VerifyChild!BudgetSpent
  BY <1>4 DEF ChildInv, VerifyChild!IInv, VerifyChild!TypeOK, VerifyChild!NothingBeforeSpawn,
     VerifyChild!AttemptRecorded, VerifyChild!ReapedIsFinal, VerifyChild!Gone,
     VerifyChild!BudgetSpent, VerifyChild!handler, VerifyChild!process
<1>5. QED
  BY <1>1, <1>2, <1>3, <1>4

\* A later pass takes up only a record that was not reaped.
LEMMA CollectKeeps ==
    ASSUME ChildInv, VerifyChild!Collect
    PROVE  ChildInv'
<1>1. VerifyChild!TypeOK' /\ ~reaped /\ ~reaped' /\ outcome' = outcome
  BY DEF ChildInv, VerifyChild!IInv, VerifyChild!TypeOK, VerifyChild!Collect, VerifyChild!process
<1>2. VerifyChild!NothingBeforeSpawn' /\ VerifyChild!AttemptRecorded'
  BY DEF ChildInv, VerifyChild!IInv, VerifyChild!NothingBeforeSpawn, VerifyChild!AttemptRecorded,
     VerifyChild!Collect, VerifyChild!process
<1>3. QED
  BY <1>1, <1>2 DEF ChildInv, VerifyChild!IInv, VerifyChild!ReapedIsFinal

\* Every step of a verification keeps the invariant.
LEMMA VerifyChildKeeps ==
    ASSUME ChildInv, VerifyChild!Next
    PROVE  ChildInv'
<1>1. CASE VerifyChild!Handler
  BY <1>1, SpawnKeeps, StartKeeps, WaitKeeps, ReapStartsKeeps, KillKeeps, CheckKeeps,
     RetryKeeps DEF VerifyChild!Handler
<1>2. CASE VerifyChild!Pumps
  BY <1>2, ThreadKeeps, InputKeeps, OutputKeeps DEF VerifyChild!Pumps
<1>3. QED
  BY <1>1, <1>2, WorldKeeps, CollectKeeps DEF VerifyChild!Next

\* The resolution of the bind host gives up where a verification goes on, or
\* waits for its reader as well; every other step of it is one of those.
LEMMA BindChildStep ==
    ASSUME BindChild!Next
    PROVE  \/ VerifyChild!Next
           \/ /\ \/ pc = "start" /\ pc' = "reap" /\ completed' = FALSE
                 \/ pc = "wait" /\ pc' = "answer" /\ completed' = completed
              /\ UNCHANGED <<next, reaped, outcome, spawn, child, code, said, pid, pipe, pump,
                             sink, late, spent>>
<1>1. ASSUME BindChild!SpawnNothing PROVE VerifyChild!SpawnNothing
  BY <1>1 DEF VerifyChild!SpawnNothing, BindChild!SpawnNothing, VerifyChild!GoReap,
     BindChild!GoReap, VerifyChild!Pump, BindChild!Pump, VerifyChild!handler, BindChild!handler,
     VerifyChild!process, BindChild!process
<1>2. ASSUME BindChild!StartReturns PROVE VerifyChild!StartReturns
  BY <1>2 DEF VerifyChild!StartReturns, BindChild!StartReturns, VerifyChild!Pump,
     BindChild!Pump, VerifyChild!handler, BindChild!handler, VerifyChild!process,
     BindChild!process
<1>3. ASSUME BindChild!StartRaises PROVE VerifyChild!StartRaises
  BY <1>3 DEF VerifyChild!StartRaises, BindChild!StartRaises, VerifyChild!GoReap,
     BindChild!GoReap, VerifyChild!Pump, BindChild!Pump, VerifyChild!handler, BindChild!handler,
     VerifyChild!process, BindChild!process
<1>4. ASSUME BindChild!WaitGivesUp PROVE VerifyChild!WaitGivesUp
  BY <1>4 DEF VerifyChild!WaitGivesUp, BindChild!WaitGivesUp, VerifyChild!GoReap,
     BindChild!GoReap, VerifyChild!Pump, BindChild!Pump, VerifyChild!handler, BindChild!handler,
     VerifyChild!process, BindChild!process
<1>5. ASSUME BindChild!ReadInTime PROVE VerifyChild!ReadInTime
  BY <1>5 DEF VerifyChild!ReadInTime, BindChild!ReadInTime, VerifyChild!GoReap,
     BindChild!GoReap, VerifyChild!Pump, BindChild!Pump, VerifyChild!handler, BindChild!handler,
     VerifyChild!process, BindChild!process
<1>6. ASSUME BindChild!ReapStarts PROVE VerifyChild!ReapStarts
  BY <1>6 DEF VerifyChild!ReapStarts, BindChild!ReapStarts, VerifyChild!PassReturns,
     BindChild!PassReturns, VerifyChild!Goto, BindChild!Goto, VerifyChild!Reachable,
     BindChild!Reachable, VerifyChild!Pump, BindChild!Pump, VerifyChild!handler,
     BindChild!handler, VerifyChild!process, BindChild!process
<1>7. ASSUME BindChild!Kill PROVE VerifyChild!Kill
  BY <1>7 DEF VerifyChild!Kill, BindChild!Kill, VerifyChild!Goto, BindChild!Goto,
     VerifyChild!Pump, BindChild!Pump, VerifyChild!handler, BindChild!handler,
     VerifyChild!process, BindChild!process
<1>8. ASSUME BindChild!ClosePipes PROVE VerifyChild!ClosePipes
  BY <1>8 DEF VerifyChild!ClosePipes, BindChild!ClosePipes, VerifyChild!Goto, BindChild!Goto,
     VerifyChild!Busy, BindChild!Busy, VerifyChild!Pump, BindChild!Pump, VerifyChild!handler,
     BindChild!handler, VerifyChild!process, BindChild!process
<1>9. ASSUME BindChild!Check PROVE VerifyChild!Check
  BY <1>9 DEF VerifyChild!Check, BindChild!Check, VerifyChild!PassReturns,
     BindChild!PassReturns, VerifyChild!Goto, BindChild!Goto, VerifyChild!Cancelled,
     BindChild!Cancelled, VerifyChild!Settled, BindChild!Settled, VerifyChild!AllClosed,
     BindChild!AllClosed, VerifyChild!Pump, BindChild!Pump, VerifyChild!handler,
     BindChild!handler, VerifyChild!process, BindChild!process
<1>10. ASSUME BindChild!Retry PROVE VerifyChild!Retry
  BY <1>10 DEF VerifyChild!Retry, BindChild!Retry, VerifyChild!PassReturns,
     BindChild!PassReturns, VerifyChild!Goto, BindChild!Goto, VerifyChild!OnlyUnknownPipeLeft,
     BindChild!OnlyUnknownPipeLeft, VerifyChild!Pump, BindChild!Pump, VerifyChild!handler,
     BindChild!handler, VerifyChild!process, BindChild!process
<1>11. ASSUME BindChild!Settle PROVE VerifyChild!Settle
  BY <1>11 DEF VerifyChild!Settle, BindChild!Settle, VerifyChild!Told, BindChild!Told,
     VerifyChild!Parsed, BindChild!Parsed, VerifyChild!Trusted, BindChild!Trusted,
     VerifyChild!Pump, BindChild!Pump, VerifyChild!handler, BindChild!handler,
     VerifyChild!process, BindChild!process
<1>12. ASSUME BindChild!SpawnRaises PROVE VerifyChild!SpawnRaises
  BY <1>12 DEF VerifyChild!SpawnRaises, BindChild!SpawnRaises, VerifyChild!GoReap,
     BindChild!GoReap, VerifyChild!Pump, BindChild!Pump, VerifyChild!handler, BindChild!handler,
     VerifyChild!process, BindChild!process
<1>13. ASSUME BindChild!Spawn PROVE VerifyChild!Spawn
  BY <1>13 DEF VerifyChild!Spawn, BindChild!Spawn, VerifyChild!GoReap, BindChild!GoReap,
     VerifyChild!Pump, BindChild!Pump, VerifyChild!handler, BindChild!handler,
     VerifyChild!process, BindChild!process
<1>14. ASSUME BindChild!StartPump
      PROVE  \/ VerifyChild!StartPump
             \/ /\ pc = "start" /\ pc' = "reap" /\ completed' = FALSE
                /\ UNCHANGED <<next, reaped, outcome, spawn, child, code, said, pid, pipe, pump,
                               sink, late, spent>>
  BY <1>14 DEF VerifyChild!StartPump, BindChild!StartPump, VerifyChild!GoReap, BindChild!GoReap,
     VerifyChild!process, BindChild!process
<1>15. ASSUME BindChild!WaitReturns
      PROVE  /\ pc = "wait" /\ pc' = "answer" /\ completed' = completed
             /\ UNCHANGED <<next, reaped, outcome, spawn, child, code, said, pid, pipe, pump,
                            sink, late, spent>>
  BY <1>15 DEF BindChild!WaitReturns, BindChild!process
<1>16. ASSUME NEW p, BindChild!Guarded(p) PROVE VerifyChild!Guarded(p)
  BY <1>16 DEF VerifyChild!Guarded, BindChild!Guarded, VerifyChild!Exits, BindChild!Exits,
     VerifyChild!Pump, BindChild!Pump, VerifyChild!handler, BindChild!handler,
     VerifyChild!process, BindChild!process
<1>17. ASSUME NEW p, BindChild!ThreadDies(p) PROVE VerifyChild!ThreadDies(p)
  BY <1>17 DEF VerifyChild!ThreadDies, BindChild!ThreadDies, VerifyChild!Pump, BindChild!Pump,
     VerifyChild!handler, BindChild!handler, VerifyChild!process, BindChild!process
<1>18. ASSUME NEW p, BindChild!FindsClosed(p) PROVE VerifyChild!FindsClosed(p)
  BY <1>18 DEF VerifyChild!FindsClosed, BindChild!FindsClosed, VerifyChild!Exits,
     BindChild!Exits, VerifyChild!Pump, BindChild!Pump, VerifyChild!handler, BindChild!handler,
     VerifyChild!process, BindChild!process
<1>19. ASSUME BindChild!Sends PROVE VerifyChild!Sends
  BY <1>19 DEF VerifyChild!Sends, BindChild!Sends, VerifyChild!Exits, BindChild!Exits,
     VerifyChild!Closes, BindChild!Closes, VerifyChild!Pump, BindChild!Pump,
     VerifyChild!handler, BindChild!handler, VerifyChild!process, BindChild!process
<1>20. ASSUME BindChild!Reads PROVE VerifyChild!Reads
  BY <1>20 DEF VerifyChild!Reads, BindChild!Reads, VerifyChild!Pump, BindChild!Pump,
     VerifyChild!handler, BindChild!handler, VerifyChild!process, BindChild!process
<1>21. ASSUME BindChild!ReadsEnd PROVE VerifyChild!ReadsEnd
  BY <1>21 DEF VerifyChild!ReadsEnd, BindChild!ReadsEnd, VerifyChild!Exits, BindChild!Exits,
     VerifyChild!Closes, BindChild!Closes, VerifyChild!Pump, BindChild!Pump,
     VerifyChild!handler, BindChild!handler, VerifyChild!process, BindChild!process
<1>22. ASSUME BindChild!ReadsTooMuch PROVE VerifyChild!ReadsTooMuch
  BY <1>22 DEF VerifyChild!ReadsTooMuch, BindChild!ReadsTooMuch, VerifyChild!Exits,
     BindChild!Exits, VerifyChild!Closes, BindChild!Closes, VerifyChild!Pump, BindChild!Pump,
     VerifyChild!handler, BindChild!handler, VerifyChild!process, BindChild!process
<1>23. ASSUME BindChild!ReadFails PROVE VerifyChild!ReadFails
  BY <1>23 DEF VerifyChild!ReadFails, BindChild!ReadFails, VerifyChild!Exits, BindChild!Exits,
     VerifyChild!Closes, BindChild!Closes, VerifyChild!Pump, BindChild!Pump,
     VerifyChild!handler, BindChild!handler, VerifyChild!process, BindChild!process
<1>24. ASSUME NEW answer, BindChild!ChildAnswers(answer) PROVE VerifyChild!ChildAnswers(answer)
  BY <1>24 DEF VerifyChild!ChildAnswers, BindChild!ChildAnswers, VerifyChild!Pump,
     BindChild!Pump, VerifyChild!handler, BindChild!handler, VerifyChild!process,
     BindChild!process
<1>25. ASSUME NEW status, BindChild!ChildExits(status) PROVE VerifyChild!ChildExits(status)
  BY <1>25 DEF VerifyChild!ChildExits, BindChild!ChildExits, VerifyChild!Pump, BindChild!Pump,
     VerifyChild!handler, BindChild!handler, VerifyChild!process, BindChild!process
<1>26. ASSUME BindChild!DeadlinePasses PROVE VerifyChild!DeadlinePasses
  BY <1>26 DEF VerifyChild!DeadlinePasses, BindChild!DeadlinePasses, VerifyChild!Pump,
     BindChild!Pump, VerifyChild!handler, BindChild!handler, VerifyChild!process,
     BindChild!process
<1>27. ASSUME BindChild!BudgetSpent PROVE VerifyChild!BudgetSpent
  BY <1>27 DEF VerifyChild!BudgetSpent, BindChild!BudgetSpent, VerifyChild!Pump, BindChild!Pump,
     VerifyChild!handler, BindChild!handler, VerifyChild!process, BindChild!process
<1>28. ASSUME BindChild!Collect PROVE VerifyChild!Collect
  BY <1>28 DEF VerifyChild!Collect, BindChild!Collect, VerifyChild!Pump, BindChild!Pump,
     VerifyChild!handler, BindChild!handler, VerifyChild!process, BindChild!process
<1>29. CASE BindChild!Handler
  BY <1>29, <1>1, <1>2, <1>3, <1>4, <1>5, <1>6, <1>7, <1>8, <1>9, <1>10, <1>11, <1>12, <1>13,
     <1>14, <1>15 DEF BindChild!Handler, VerifyChild!Handler, VerifyChild!Next
<1>30. CASE BindChild!Pumps
  BY <1>30, <1>16, <1>17, <1>18, <1>19, <1>20, <1>21, <1>22, <1>23 DEF BindChild!Pumps,
     VerifyChild!Pumps, VerifyChild!Next, BindChild!Pump, VerifyChild!Pump
<1>31. QED
  BY <1>29, <1>30, <1>24, <1>25, <1>26, <1>27, <1>28 DEF BindChild!Next, VerifyChild!Next,
     BindChild!Answer, VerifyChild!Answer

\* Every step of the resolution keeps the invariant.
LEMMA BindChildKeeps ==
    ASSUME ChildInv, BindChild!Next
    PROVE  ChildInv'
<1>1. next \in VerifyChild!Pump /\ completed \in BOOLEAN
  BY DEF ChildInv, VerifyChild!IInv, VerifyChild!TypeOK
<1>2. pc = "wait" => spawn = "created"
  BY DEF ChildInv, VerifyChild!IInv, VerifyChild!NothingBeforeSpawn
<1>3. CASE VerifyChild!Next
  BY <1>3, VerifyChildKeeps
<1>4. CASE /\ pc = "start" /\ pc' = "reap" /\ completed' = FALSE
           /\ UNCHANGED <<next, reaped, outcome, spawn, child, code, said, pid, pipe, pump,
                          sink, late, spent>>
  BY <1>1, <1>4, HandlerMoves
<1>5. CASE /\ pc = "wait" /\ pc' = "answer" /\ completed' = completed
           /\ UNCHANGED <<next, reaped, outcome, spawn, child, code, said, pid, pipe, pump,
                          sink, late, spent>>
  BY <1>1, <1>2, <1>5, HandlerMoves
<1>6. QED
  BY <1>3, <1>4, <1>5, BindChildStep

\* A record that was not run yet satisfies the invariant.
LEMMA ChildStarts ==
    ASSUME VerifyChild!Init
    PROVE  ChildInv
  BY ChildConstants DEF ChildInv, VerifyChild!Init, VerifyChild!IdlePump, VerifyChild!IInv,
     VerifyChild!TypeOK, VerifyChild!PumpRecord, VerifyChild!Sink, VerifyChild!Pump,
     VerifyChild!NothingBeforeSpawn, VerifyChild!AttemptRecorded, VerifyChild!ReapedIsFinal

-----------------------------------------------------------------------------
(* Both, side by side *)

ChildrenInv == IInv /\ ChildInv

\* A step that changes none of the ledger's variables keeps its invariant.
LEMMA LedgerUntouched ==
    ASSUME IInv, UNCHANGED ledgerVars
    PROVE  IInv'
  BY DEF ledgerVars, IInv, TypeOK, SlotsConserved, LiveIsOwned, ClaimHasCollector,
     HoldsItsRecord, SettledIsGone, CollectsFor

\* However many threads verify, collect and close at once, and wherever a spawn,
\* a thread's start, a reap or a close fails or is interrupted, no supervised
\* child is lost, reaped twice or kept a slot for, and one reported reaped has
\* left no process, thread or open pipe (_Ledger.collect, collect_until, _settle;
\* _ChildRecord.reap, reaped).
THEOREM ChildrenCorrect == Parts => []ChildrenSound
<1>1. ASSUME PartsInit PROVE ChildrenInv
  BY <1>1, LedgerStarts, ChildStarts DEF PartsInit, ChildrenInv
<1>2. ASSUME ChildrenInv, [PartsNext]_<<part, ledgerVars, childVars>>
      PROVE  ChildrenInv'
  <2> USE <1>2 DEF ChildrenInv
  <2>1. CASE (Next \/ BindLedger!Next) /\ UNCHANGED childVars
    BY <2>1, LedgerKeeps, BindLedgerKeeps, ChildUntouched
  <2>2. CASE (VerifyChild!Next \/ BindChild!Next) /\ UNCHANGED ledgerVars
    BY <2>2, VerifyChildKeeps, BindChildKeeps, LedgerUntouched
  <2>3. CASE UNCHANGED <<part, ledgerVars, childVars>>
    BY <2>3, LedgerUntouched, ChildUntouched
  <2>4. QED
    BY <2>1, <2>2, <2>3 DEF PartsNext
<1>3. ASSUME ChildrenInv PROVE ChildrenSound
  <2>1. LedgerSound
    BY <1>3, LedgerPromise DEF ChildrenInv
  <2>2. ReapedIsGone
    BY <1>3 DEF ChildrenInv, ChildInv, ReapedIsGone, VerifyChild!ReapedIsGone,
       VerifyChild!IInv, VerifyChild!ReapedIsFinal
  <2>3. QED
    BY <2>1, <2>2 DEF ChildrenSound
<1>4. QED
  BY <1>1, <1>2, <1>3, PTL DEF Parts
=============================================================================
