---------------------- MODULE DatasourceRegistryProofs ----------------------
(***************************************************************************)
(* Proofs about DatasourceRegistry for every number of datasources,        *)
(* aliases, leases, reservations and every value of the limits.            *)
(*                                                                         *)
(* IInv is inductive.  The argument: what a thread does under its own      *)
(* lease lock leaves the registry alone (RegistryUntouched); the four      *)
(* kinds of registry steps (reservation, publication, admission, release)  *)
(* keep each counter equal to the size of its set; and LeaseInv says who   *)
(* can hold a lease lock, so two threads never close one lease.            *)
(***************************************************************************)
EXTENDS DatasourceRegistry, FiniteSetTheorems, TLAPS

USE DEF Gen, NoGen

-----------------------------------------------------------------------------
(* Counting *)

\* Adding a new element adds one to the size of a finite set.
LEMMA CardAdd ==
    ASSUME NEW S, IsFiniteSet(S), NEW x, x \notin S
    PROVE  /\ IsFiniteSet(S \cup {x})
           /\ Cardinality(S) \in Nat
           /\ Cardinality(S \cup {x}) = Cardinality(S) + 1
  BY FS_AddElement, FS_CardinalityType

\* Removing an element takes one from the size of a finite set.
LEMMA CardRemove ==
    ASSUME NEW S, IsFiniteSet(S), NEW x \in S
    PROVE  /\ IsFiniteSet(S \ {x})
           /\ Cardinality(S) \in Nat \ {0}
           /\ Cardinality(S \ {x}) = Cardinality(S) - 1
<1>1. /\ IsFiniteSet(S \ {x})
      /\ Cardinality(S \ {x}) = Cardinality(S) - 1
  BY FS_RemoveElement
<1>2. Cardinality(S) \in Nat /\ Cardinality(S \ {x}) \in Nat
  BY <1>1, FS_CardinalityType
<1>3. QED
  BY <1>1, <1>2

\* The sets the registry counts are finite: leases and reservations by
\* assumption, generations because their numbers are bounded.
LEMMA CountedSetsFinite ==
    ASSUME TypeOK
    PROVE  /\ IsFiniteSet(sessions)
           /\ \A g : IsFiniteSet(OnGen(g))
           /\ \A d : IsFiniteSet(OnDatasource(d))
           /\ IsFiniteSet(retired)
           /\ \A d : IsFiniteSet(RetiredOf(d))
           /\ IsFiniteSet(held)
           /\ IsFiniteSet(resSlot)
           /\ \A k : IsFiniteSet(HeldUnder(k))
<1>1. IsFiniteSet(Gen)
  BY FS_Interval, LimitsAssumption
<1>2. sessions \subseteq Lease /\ retired \subseteq Gen
      /\ held \subseteq Reservation /\ resSlot \subseteq Reservation
  BY DEF TypeOK, TypeSession, TypeGen, TypeReservation
<1>3. /\ \A g : OnGen(g) \subseteq sessions
      /\ \A d : OnDatasource(d) \subseteq sessions
      /\ \A d : RetiredOf(d) \subseteq retired
      /\ \A k : HeldUnder(k) \subseteq held
  BY DEF OnGen, OnDatasource, RetiredOf, HeldUnder
<1>4. IsFiniteSet(sessions) /\ IsFiniteSet(retired) /\ IsFiniteSet(held)
      /\ IsFiniteSet(resSlot)
  BY <1>1, <1>2, FS_Subset, SetsAssumption
<1>5. QED
  BY <1>3, <1>4, FS_Subset

-----------------------------------------------------------------------------
(* Parts of the invariant that only read registry state *)

RegistryInv ==
    /\ TypeGen /\ TypeSession /\ TypeReservation
    /\ CountersAgree
    /\ GenInv
    /\ SessionInv
    /\ ReservationInv
    /\ SessionLimitsHold

\* A step that changes only lease locks, lease flags, control points and the
\* shutdown's own variables keeps every fact about the registry.
LEMMA RegistryUntouched ==
    ASSUME RegistryInv,
           UNCHANGED <<genVars, lifeVars, prepared, sessionVars, leaseGen, resVars>>
    PROVE  RegistryInv'
  BY DEF RegistryInv, genVars, lifeVars, sessionVars, resVars, TypeGen,
         TypeSession, TypeReservation, CountersAgree, SessionsCounted,
         RetiredCounted, CandidatesCounted, OnGen, OnDatasource, RetiredOf,
         HeldUnder, GenInv, SessionInv, ReservationInv, SessionLimitsHold, Born

-----------------------------------------------------------------------------
(* Reservations *)

\* Taking a reservation counts it once under its key, and its slot once.
LEMMA ReserveRegistry ==
    ASSUME TypeOK, RegistryInv, NEW r \in Reservation, NEW k \in Key,
           NEW d \in Datasource \cup {None}, NEW p \in BOOLEAN,
           Reserve(r, k, d, p)
    PROVE  RegistryInv'
<1> USE DEF RegistryInv
<1>1. r \notin held /\ r \notin resSlot
  BY DEF Reserve, ReservationInv
<1>2. /\ Cardinality(held \cup {r}) = candidates + 1
      /\ Cardinality(resSlot \cup {r}) = reservedRetired + 1
      /\ Cardinality(HeldUnder(k) \cup {r}) = dsCandidates[k] + 1
  <2>1. r \notin HeldUnder(k)
    BY <1>1 DEF HeldUnder
  <2>2. QED
    BY <1>1, <2>1, CountedSetsFinite, CardAdd DEF CountersAgree, CandidatesCounted
<1>3. /\ HeldUnder(k)' = HeldUnder(k) \cup {r}
      /\ \A j \in Key \ {k} : HeldUnder(j)' = HeldUnder(j)
  BY <1>1 DEF Reserve, HeldUnder, TypeReservation
<1>4. CandidatesCounted'
  <2>1. \A j \in Key : dsCandidates'[j] = Cardinality(HeldUnder(j))'
    BY <1>2, <1>3 DEF Reserve, CountersAgree, CandidatesCounted, TypeReservation
  <2>2. candidates' = Cardinality(held)'
    BY <1>2 DEF Reserve
  <2>3. reservedRetired' = Cardinality(resSlot)'
    BY <1>2 DEF Reserve, CountersAgree, CandidatesCounted, TypeReservation
  <2>4. QED
    BY <2>1, <2>2, <2>3 DEF CandidatesCounted
<1>5. TypeReservation' /\ ReservationInv'
  BY DEF Reserve, TypeReservation, ReservationInv
<1>6. UNCHANGED <<genVars, lifeVars, prepared, sessionVars, leaseGen>>
  BY DEF Reserve, leaseVars
<1>7. TypeGen' /\ TypeSession' /\ SessionsCounted' /\ RetiredCounted' /\ GenInv'
      /\ SessionInv' /\ SessionLimitsHold'
  BY <1>6 DEF genVars, lifeVars, sessionVars, TypeGen, TypeSession, CountersAgree,
         SessionsCounted, RetiredCounted, OnGen, OnDatasource, RetiredOf, GenInv,
         SessionInv, SessionLimitsHold, Born
<1>8. QED
  BY <1>4, <1>5, <1>7 DEF CountersAgree

\* Releasing a reservation uncounts what taking it, or publishing, left counted.
LEMMA ReleaseReservationRegistry ==
    ASSUME TypeOK, RegistryInv, NEW r \in Reservation, ReleaseReservation(r)
    PROVE  RegistryInv'
<1> USE DEF RegistryInv
<1>0. PICK k \in Key : k = resKey[r]
  BY DEF ReleaseReservation, ReservationInv
<1>1. r \in held /\ k \in Key /\ r \in HeldUnder(k)
  BY <1>0 DEF ReleaseReservation, HeldUnder
<1>2. /\ Cardinality(held \ {r}) = candidates - 1 /\ candidates - 1 \in Nat
      /\ Cardinality(HeldUnder(k) \ {r}) = dsCandidates[k] - 1
      /\ dsCandidates[k] - 1 \in Nat
  <2>1. Cardinality(held) \in Nat \ {0} /\ Cardinality(held \ {r}) = Cardinality(held) - 1
    BY <1>1, CountedSetsFinite, CardRemove
  <2>2. /\ Cardinality(HeldUnder(k)) \in Nat \ {0}
        /\ Cardinality(HeldUnder(k) \ {r}) = Cardinality(HeldUnder(k)) - 1
    BY <1>1, CountedSetsFinite, CardRemove
  <2>3. QED
    BY <1>1, <2>1, <2>2 DEF CountersAgree, CandidatesCounted
<1>3. reservedRetired' = Cardinality(resSlot)' /\ reservedRetired' \in Nat
  <2>1. CASE r \in resSlot
    BY <2>1, CountedSetsFinite, CardRemove
       DEF ReleaseReservation, SlotsOf, CountersAgree, CandidatesCounted
  <2>2. CASE r \notin resSlot
    <3>1. resSlot \ {r} = resSlot
      BY <2>2
    <3>2. resSlot' = resSlot /\ reservedRetired' = reservedRetired
      BY <2>2, <3>1 DEF ReleaseReservation, SlotsOf, TypeReservation
    <3>3. QED
      BY <3>2 DEF CountersAgree, CandidatesCounted, TypeReservation
  <2>3. QED
    BY <2>1, <2>2
<1>4. /\ HeldUnder(k)' = HeldUnder(k) \ {r}
      /\ \A j \in Key \ {k} : HeldUnder(j)' = HeldUnder(j)
  <2>2. \A q \in held : q # r => q \in held' /\ resKey'[q] = resKey[q]
    BY DEF ReleaseReservation, TypeReservation
  <2>3. QED
    BY <1>0, <1>1, <2>2 DEF ReleaseReservation, HeldUnder
<1>5. CandidatesCounted' /\ TypeReservation' /\ ReservationInv'
  <2>1. \A j \in Key : dsCandidates'[j] = Cardinality(HeldUnder(j))'
    BY <1>0, <1>2, <1>4 DEF ReleaseReservation, CountersAgree, CandidatesCounted,
       TypeReservation
  <2>2. candidates' = Cardinality(held)'
    BY <1>2 DEF ReleaseReservation
  <2>3. TypeReservation'
    BY <1>0, <1>2, <1>3 DEF ReleaseReservation, TypeReservation
  <2>4. ReservationInv'
    BY DEF ReleaseReservation, ReservationInv, TypeReservation
  <2>5. QED
    BY <1>3, <2>1, <2>2, <2>3, <2>4 DEF CandidatesCounted
<1>6. UNCHANGED <<genVars, lifeVars, prepared, sessionVars, leaseGen>>
  BY DEF ReleaseReservation, leaseVars
<1>7. TypeGen' /\ TypeSession' /\ SessionsCounted' /\ RetiredCounted' /\ GenInv'
      /\ SessionInv' /\ SessionLimitsHold'
  BY <1>6 DEF genVars, lifeVars, sessionVars, TypeGen, TypeSession, CountersAgree,
         SessionsCounted, RetiredCounted, OnGen, OnDatasource, RetiredOf, GenInv,
         SessionInv, SessionLimitsHold, Born
<1>8. QED
  BY <1>5, <1>7 DEF CountersAgree

-----------------------------------------------------------------------------
(* Sessions *)

\* A generation's sessions are among its datasource's: the datasource's counter
\* bounds the generation's.
LEMMA GenBelowDatasource ==
    ASSUME TypeOK, RegistryInv, NEW g \in Born
    PROVE  genSessions[g] <= dsSessions[genDs[g]]
<1>1. OnGen(g) \subseteq OnDatasource(genDs[g])
  BY DEF OnGen, OnDatasource
<1>2. Cardinality(OnGen(g)) <= Cardinality(OnDatasource(genDs[g]))
  BY <1>1, CountedSetsFinite, FS_Subset
<1>3. g \in Gen /\ genDs[g] \in Datasource
  BY LimitsAssumption DEF RegistryInv, GenInv, Born, TypeGen
<1>4. QED
  BY <1>2, <1>3 DEF RegistryInv, CountersAgree, SessionsCounted

\* Admission counts the session once on its generation and once on its
\* datasource, and the limits it checked still hold afterwards.
LEMMA OpenSessionRegistry ==
    ASSUME TypeOK, RegistryInv, NEW l \in Lease, NEW a \in Alias,
           l \notin sessions, OpenSession(l, a)
    PROVE  RegistryInv'
<1> USE DEF RegistryInv
<1>0. PICK g \in Gen : g = published[a]
  BY DEF OpenSession, TypeGen
<1>1. PICK d \in Datasource : d = genDs[g]
  BY <1>0 DEF OpenSession, GenInv
<1>2. g \in Born \ genRetired /\ g \notin genClosed
  BY <1>0 DEF OpenSession, GenInv
<1>3. /\ OnGen(g)' = OnGen(g) \cup {l}
      /\ \A h \in Gen \ {g} : OnGen(h)' = OnGen(h)
      /\ OnDatasource(d)' = OnDatasource(d) \cup {l}
      /\ \A e \in Datasource \ {d} : OnDatasource(e)' = OnDatasource(e)
  <2>1. /\ sessions' = sessions \cup {l} /\ leaseGen'[l] = g /\ genDs' = genDs
        /\ \A m \in sessions : leaseGen'[m] = leaseGen[m]
    BY <1>0 DEF OpenSession, genVars, TypeSession
  <2>2. QED
    BY <1>1, <2>1 DEF OnGen, OnDatasource
<1>4. /\ Cardinality(sessions \cup {l}) = Cardinality(sessions) + 1
      /\ Cardinality(sessions) \in Nat
      /\ Cardinality(OnGen(g) \cup {l}) = genSessions[g] + 1
      /\ Cardinality(OnDatasource(d) \cup {l}) = dsSessions[d] + 1
  <2>1. l \notin OnGen(g) /\ l \notin OnDatasource(d)
    BY DEF OnGen, OnDatasource
  <2>2. QED
    BY <2>1, CountedSetsFinite, CardAdd DEF CountersAgree, SessionsCounted
<1>5. SessionsCounted'
  <2>1. \A h \in Gen : genSessions'[h] = Cardinality(OnGen(h))'
    BY <1>0, <1>3, <1>4 DEF OpenSession, CountersAgree, SessionsCounted, TypeSession
  <2>2. \A e \in Datasource : dsSessions'[e] = Cardinality(OnDatasource(e))'
    BY <1>0, <1>1, <1>3, <1>4 DEF OpenSession, CountersAgree, SessionsCounted, TypeSession
  <2>3. QED
    BY <2>1, <2>2 DEF SessionsCounted
<1>6. TypeSession'
  BY <1>0, <1>1 DEF OpenSession, TypeSession
<1>7. SessionLimitsHold'
  <2>1. genSessions[g] + 1 <= genMax[g]
    BY <1>0, <1>1, <1>2, GenBelowDatasource DEF OpenSession, Admits, TypeSession, TypeGen
  <2>2. \A h \in Gen : Cardinality(OnGen(h))' <= genMax[h]
    BY <1>3, <1>4, <2>1 DEF SessionLimitsHold
  <2>3. Cardinality(sessions)' <= MaxSessions
    BY <1>4, LimitsAssumption DEF OpenSession, Admits
  <2>4. genMax' = genMax
    BY DEF OpenSession, genVars
  <2>5. QED
    BY <2>2, <2>3, <2>4 DEF SessionLimitsHold
<1>8. SessionInv'
  <2>1. /\ sessions' = sessions \cup {l} /\ leaseGen'[l] = g
        /\ \A m \in sessions : leaseGen'[m] = leaseGen[m]
        /\ UNCHANGED <<nextGeneration, genClosed, retired>>
    BY <1>0 DEF OpenSession, genVars, lifeVars, TypeSession
  <2>2. QED
    BY <1>2, <2>1 DEF SessionInv, Born
<1>9. UNCHANGED <<genVars, lifeVars, prepared, resVars>>
  BY DEF OpenSession
<1>10. TypeGen' /\ TypeReservation' /\ RetiredCounted' /\ CandidatesCounted'
       /\ GenInv' /\ ReservationInv'
  BY <1>9 DEF genVars, lifeVars, resVars, TypeGen, TypeReservation, CountersAgree,
         RetiredCounted, CandidatesCounted, RetiredOf, HeldUnder, GenInv,
         ReservationInv, Born
<1>11. QED
  BY <1>5, <1>6, <1>7, <1>8, <1>10 DEF CountersAgree

\* A release, by the session's thread or by the shutdown's, uncounts the
\* session and closes a retired generation exactly when it was the last.
LEMMA ReleaseRegistry ==
    ASSUME TypeOK, RegistryInv, NEW l \in sessions, Release(l),
           UNCHANGED <<genVars, prepared, leaseGen, resVars>>
    PROVE  RegistryInv'
<1> USE DEF RegistryInv
<1>0. PICK g \in Gen : g = leaseGen[l]
  BY LimitsAssumption DEF SessionInv, Born, TypeGen
<1>1. g \in Born \ genClosed
  BY <1>0 DEF SessionInv
<1>2. PICK d \in Datasource : d = genDs[g]
  BY <1>1 DEF GenInv
<1>3. /\ OnGen(g)' = OnGen(g) \ {l}
      /\ \A h \in Gen \ {g} : OnGen(h)' = OnGen(h)
      /\ OnDatasource(d)' = OnDatasource(d) \ {l}
      /\ \A e \in Datasource \ {d} : OnDatasource(e)' = OnDatasource(e)
  <2>1. sessions' = sessions \ {l} /\ leaseGen' = leaseGen /\ genDs' = genDs
    BY DEF Release, genVars
  <2>2. QED
    BY <1>0, <1>2, <2>1 DEF OnGen, OnDatasource
<1>4. /\ Cardinality(OnGen(g) \ {l}) = genSessions[g] - 1
      /\ genSessions[g] - 1 \in Nat
      /\ Cardinality(OnDatasource(d) \ {l}) = dsSessions[d] - 1
      /\ dsSessions[d] - 1 \in Nat
      /\ Cardinality(sessions \ {l}) <= MaxSessions
  <2>1. l \in OnGen(g) /\ l \in OnDatasource(d)
    BY <1>0, <1>2 DEF OnGen, OnDatasource
  <2>2. /\ Cardinality(OnGen(g)) \in Nat \ {0}
        /\ Cardinality(OnGen(g) \ {l}) = Cardinality(OnGen(g)) - 1
    BY <2>1, CountedSetsFinite, CardRemove
  <2>3. /\ Cardinality(OnDatasource(d)) \in Nat \ {0}
        /\ Cardinality(OnDatasource(d) \ {l}) = Cardinality(OnDatasource(d)) - 1
    BY <2>1, CountedSetsFinite, CardRemove
  <2>4. /\ Cardinality(sessions) \in Nat \ {0}
        /\ Cardinality(sessions \ {l}) = Cardinality(sessions) - 1
    BY CountedSetsFinite, CardRemove
  <2>5. Cardinality(sessions) <= MaxSessions /\ MaxSessions \in Nat
    BY LimitsAssumption DEF SessionLimitsHold
  <2>6. QED
    BY <2>2, <2>3, <2>4, <2>5 DEF CountersAgree, SessionsCounted
<1>5. SessionsCounted' /\ TypeSession'
  <2>1. \A h \in Gen : genSessions'[h] = Cardinality(OnGen(h))'
    BY <1>0, <1>3, <1>4 DEF Release, CountersAgree, SessionsCounted, TypeSession
  <2>2. \A e \in Datasource : dsSessions'[e] = Cardinality(OnDatasource(e))'
    BY <1>0, <1>2, <1>3, <1>4 DEF Release, CountersAgree, SessionsCounted, TypeSession
  <2>3. TypeSession'
    BY <1>0, <1>2, <1>4 DEF Release, TypeSession
  <2>4. QED
    BY <2>1, <2>2, <2>3 DEF SessionsCounted
<1>6. SessionLimitsHold'
  <2>1. \A h \in Gen : Cardinality(OnGen(h))' <= genMax[h]
    <3>1. Cardinality(OnGen(g))' <= genMax[g]
      <4>1. genSessions[g] <= genMax[g] /\ genSessions[g] \in Nat /\ genMax[g] \in Nat
        BY DEF SessionLimitsHold, CountersAgree, SessionsCounted, TypeGen, TypeSession
      <4>2. QED
        BY <1>3, <1>4, <4>1
    <3>2. QED
      BY <1>3, <3>1 DEF SessionLimitsHold
  <2>2. sessions' = sessions \ {l} /\ genMax' = genMax
    BY DEF Release, genVars
  <2>3. QED
    BY <1>4, <2>1, <2>2 DEF SessionLimitsHold
<1>7. /\ \A m \in sessions' : leaseGen'[m] \in Born' \ genClosed
      /\ genSessions[g] - 1 = 0 => \A m \in sessions' : leaseGen'[m] # g
      /\ genSessions[g] - 1 # 0 => \E m \in sessions' : leaseGen'[m] = g
  <2>1. sessions' = sessions \ {l} /\ leaseGen' = leaseGen /\ Born' = Born
    BY DEF Release, genVars, Born
  <2>2. genSessions[g] - 1 = 0 => OnGen(g)' = {}
    <3>1. IsFiniteSet(OnGen(g) \ {l})
      BY CountedSetsFinite, FS_Subset
    <3>2. QED
      BY <1>3, <1>4, <3>1, FS_EmptySet
  <2>3. genSessions[g] - 1 # 0 => OnGen(g)' # {}
    BY <1>3, <1>4, FS_EmptySet
  <2>4. QED
    BY <2>1, <2>2, <2>3 DEF SessionInv, OnGen
<1>8. CASE LastUser(g)
  <2>1. g \in retired /\ g \in RetiredOf(d)
    BY <1>2, <1>8 DEF LastUser, GenInv, RetiredOf
  <2>2. /\ RetiredOf(d)' = RetiredOf(d) \ {g}
        /\ \A e \in Datasource \ {d} : RetiredOf(e)' = RetiredOf(e)
    BY <1>0, <1>2, <1>8 DEF Release, genVars, RetiredOf
  <2>3. /\ Cardinality(RetiredOf(d)) \in Nat \ {0}
        /\ Cardinality(RetiredOf(d) \ {g}) = Cardinality(RetiredOf(d)) - 1
    BY <2>1, CountedSetsFinite, CardRemove
  <2>4. RetiredCounted'
    BY <1>0, <1>2, <1>8, <2>2, <2>3
       DEF Release, RetiredCounted, CountersAgree, TypeGen
  <2>5. TypeGen'
    <3>1. dsRetired[d] - 1 \in Nat
      BY <2>3 DEF CountersAgree, RetiredCounted
    <3>2. QED
      BY <1>0, <1>2, <1>8, <3>1 DEF Release, genVars, TypeGen
  <2>6. GenInv'
    BY <1>0, <1>1, <1>8, <2>1 DEF Release, genVars, GenInv, Born
  <2>7. SessionInv'
    <3>1. genSessions[g] - 1 = 0
      BY <1>8 DEF LastUser
    <3>2. genClosed' = genClosed \cup {g} /\ retired' = retired \ {g}
      BY <1>0, <1>8 DEF Release
    <3>3. \A m \in sessions' : leaseGen'[m] \in Born' \ genClosed'
      BY <1>7, <3>1, <3>2
    <3>4. \A h \in retired' : \E m \in sessions' : leaseGen'[m] = h
      BY <1>0, <3>2 DEF SessionInv, Release
    <3>5. QED
      BY <3>3, <3>4 DEF SessionInv
  <2>8. QED
    BY <1>5, <1>6, <2>4, <2>5, <2>6, <2>7
       DEF CountersAgree, CandidatesCounted, HeldUnder, resVars, TypeReservation,
           ReservationInv
<1>9. CASE ~LastUser(g)
  <2>1. UNCHANGED <<genVars, lifeVars, prepared, resVars>>
    BY <1>0, <1>9 DEF Release, lifeVars
  <2>2. TypeGen' /\ TypeReservation' /\ RetiredCounted' /\ CandidatesCounted'
        /\ GenInv' /\ ReservationInv'
    BY <2>1 DEF genVars, lifeVars, resVars, TypeGen, TypeReservation, CountersAgree,
           RetiredCounted, CandidatesCounted, RetiredOf, HeldUnder, GenInv,
           ReservationInv, Born
  <2>3. SessionInv'
    <3>1. g \in retired => genSessions[g] - 1 # 0
      BY <1>9 DEF LastUser, GenInv
    <3>2. retired' = retired /\ genClosed' = genClosed
      BY <2>1 DEF lifeVars
    <3>3. \A h \in retired' : \E m \in sessions' : leaseGen'[m] = h
      BY <1>0, <1>7, <3>1, <3>2 DEF SessionInv, Release
    <3>4. QED
      BY <1>7, <3>2, <3>3 DEF SessionInv
  <2>4. QED
    BY <1>5, <1>6, <2>2, <2>3 DEF CountersAgree
<1>10. QED
  BY <1>8, <1>9

-----------------------------------------------------------------------------
(* Generations *)

\* Retiring a generation closes it at once when idle, else puts it among the
\* open retired ones, counted once for its datasource.
LEMMA RetireFacts ==
    ASSUME TypeOK, RegistryInv, NEW g \in Born \ genRetired, Retire(g),
           \A h \in Born : genDs'[h] = genDs[h]
    PROVE  /\ RetiredCounted'
           /\ dsRetired' \in [Datasource -> Nat]
           /\ genRetired' = genRetired \cup {g}
           /\ genClosed \subseteq genClosed' /\ genClosed' \subseteq genClosed \cup {g}
           /\ retired' = genRetired' \ genClosed'
           /\ g \in genClosed' <=> \A l \in sessions : leaseGen[l] # g
<1> USE DEF RegistryInv
<1>1. g \in Gen /\ g \notin genClosed /\ g \notin retired /\ retired \subseteq Born
  BY LimitsAssumption DEF GenInv, TypeGen, Born
<1>2. PICK d \in Datasource : d = genDs[g]
  BY DEF GenInv
<1>3. genSessions[g] = 0 <=> \A l \in sessions : leaseGen[l] # g
  <2>1. genSessions[g] = Cardinality(OnGen(g))
    BY <1>1 DEF CountersAgree, SessionsCounted
  <2>2. Cardinality(OnGen(g)) = 0 <=> OnGen(g) = {}
    BY CountedSetsFinite, FS_EmptySet
  <2>3. QED
    BY <2>1, <2>2 DEF OnGen
<1>4. CASE genSessions[g] = 0
  <2>1. /\ genClosed' = genClosed \cup {g} /\ genRetired' = genRetired \cup {g}
        /\ retired' = retired /\ dsRetired' = dsRetired
    BY <1>4 DEF Retire
  <2>2. \A e \in Datasource : RetiredOf(e)' = RetiredOf(e)
    BY <1>1, <2>1 DEF RetiredOf
  <2>3. RetiredCounted'
    BY <2>1, <2>2 DEF RetiredCounted, CountersAgree
  <2>4. QED
    BY <1>1, <1>3, <1>4, <2>1, <2>3 DEF GenInv, TypeGen
<1>5. CASE genSessions[g] # 0
  <2>1. /\ genClosed' = genClosed /\ genRetired' = genRetired \cup {g}
        /\ retired' = retired \cup {g}
        /\ dsRetired' = [dsRetired EXCEPT ![d] = @ + 1]
    BY <1>2, <1>5 DEF Retire
  <2>2. /\ RetiredOf(d)' = RetiredOf(d) \cup {g}
        /\ \A e \in Datasource \ {d} : RetiredOf(e)' = RetiredOf(e)
    BY <1>1, <1>2, <2>1 DEF RetiredOf
  <2>3. Cardinality(RetiredOf(d) \cup {g}) = Cardinality(RetiredOf(d)) + 1
    <3>1. g \notin RetiredOf(d)
      BY <1>1 DEF RetiredOf
    <3>2. QED
      BY <3>1, CountedSetsFinite, CardAdd
  <2>4. RetiredCounted'
    BY <2>1, <2>2, <2>3 DEF RetiredCounted, CountersAgree, TypeGen
  <2>5. QED
    BY <1>1, <1>3, <1>5, <2>1, <2>4 DEF GenInv, TypeGen
<1>6. QED
  BY <1>4, <1>5

\* Withdrawing keeps the registry's facts; it needs no capacity.
LEMMA WithdrawRegistry ==
    ASSUME TypeOK, RegistryInv, NEW a \in Alias, Withdraw(a)
    PROVE  RegistryInv'
<1> USE DEF RegistryInv
<1>0. PICK g \in Born \ genRetired : g = published[a]
  BY DEF Withdraw, GenInv
<1>1. /\ UNCHANGED <<genVars, prepared, sessionVars, leaseGen, resVars>>
      /\ Born' = Born
      /\ published' = [published EXCEPT ![a] = NoGen]
      /\ Retire(g)
  BY <1>0 DEF Withdraw, leaseVars, genVars, Born
<1>2. /\ RetiredCounted'
      /\ dsRetired' \in [Datasource -> Nat]
      /\ genRetired' = genRetired \cup {g}
      /\ genClosed \subseteq genClosed' /\ genClosed' \subseteq genClosed \cup {g}
      /\ retired' = genRetired' \ genClosed'
      /\ g \in genClosed' <=> \A l \in sessions : leaseGen[l] # g
  BY <1>1, RetireFacts DEF genVars
<1>3. g \in Gen
  BY LimitsAssumption DEF Born, TypeGen
<1>4. TypeGen'
  BY <1>1, <1>2, <1>3 DEF TypeGen, genVars
<1>5. GenInv'
  <2>1. \A b \in Alias : published'[b] # NoGen => b # a /\ published'[b] = published[b]
    BY <1>1 DEF TypeGen
  <2>2. \A b \in Alias \ {a} : published[b] # g
    <3>1. g # NoGen
      BY <1>3
    <3>2. QED
      BY <1>0, <3>1 DEF GenInv
  <2>3. \A b \in Alias : published'[b] # NoGen => published'[b] \in Born' \ genRetired'
    BY <1>1, <1>2, <2>1, <2>2 DEF GenInv
  <2>4. \A h \in Born' \ genRetired' : \E b \in Alias : published'[b] = h
    BY <1>0, <1>1, <1>2 DEF GenInv, TypeGen
  <2>5. genDs' = genDs /\ prepared' = prepared
    BY <1>1 DEF genVars
  <2>6. QED
    BY <1>1, <1>2, <2>1, <2>3, <2>4, <2>5 DEF GenInv
<1>6. SessionInv'
  BY <1>0, <1>1, <1>2 DEF SessionInv, GenInv, sessionVars
<1>7. TypeSession' /\ SessionsCounted' /\ SessionLimitsHold' /\ TypeReservation'
      /\ CandidatesCounted' /\ ReservationInv'
  BY <1>1 DEF sessionVars, resVars, genVars, TypeSession, SessionsCounted, OnGen,
     OnDatasource, SessionLimitsHold, TypeReservation, CandidatesCounted, HeldUnder,
     ReservationInv, CountersAgree
<1>8. QED
  BY <1>2, <1>4, <1>5, <1>6, <1>7 DEF CountersAgree

\* Publishing gives out a fresh number, keeps datasource and alias paired, and
\* consumes the reserved slot it turns into a retired generation.
LEMMA PublishRegistry ==
    ASSUME TypeOK, RegistryInv, NEW r \in Reservation, NEW d \in Datasource,
           NEW a \in Alias, NEW m \in SessionLimits, Publish(r, d, a, m)
    PROVE  RegistryInv'
<1> USE DEF RegistryInv
<1>0. PICK new \in Gen : new = nextGeneration
  BY DEF Publish, TypeGen
<1>1. /\ genDs' = [genDs EXCEPT ![new] = d]
      /\ genMax' = [genMax EXCEPT ![new] = m]
      /\ prepared' = prepared \cup {new}
      /\ nextGeneration' = new + 1
      /\ published' = [published EXCEPT ![a] = new]
      /\ UNCHANGED <<sessionVars, leaseGen, held, resKey, resPublish,
                     dsCandidates, candidates>>
  BY <1>0 DEF Publish, leaseVars
<1>2. new \notin Born /\ Born' = Born \cup {new} /\ Born \subseteq Gen
  BY <1>0, <1>1, LimitsAssumption DEF Born, TypeGen
<1>3. \A h \in Born : genDs'[h] = genDs[h]
  BY <1>1, <1>2 DEF TypeGen
<1>4. /\ TypeReservation' /\ CandidatesCounted' /\ ReservationInv'
  <2>1. UNCHANGED <<resSlot, reservedRetired>>
        \/ (resSlot' = resSlot \ {r} /\ reservedRetired' = reservedRetired - SlotsOf(r))
    BY DEF Publish
  <2>2. reservedRetired' = Cardinality(resSlot)' /\ reservedRetired' \in Nat
        /\ resSlot' \subseteq resSlot
    <3>1. CASE UNCHANGED <<resSlot, reservedRetired>>
      BY <3>1 DEF CountersAgree, CandidatesCounted, TypeReservation
    <3>2. CASE r \in resSlot /\ resSlot' = resSlot \ {r}
               /\ reservedRetired' = reservedRetired - SlotsOf(r)
      <4>1. /\ Cardinality(resSlot) \in Nat \ {0}
            /\ Cardinality(resSlot \ {r}) = Cardinality(resSlot) - 1
        BY <3>2, CountedSetsFinite, CardRemove
      <4>2. QED
        BY <3>2, <4>1 DEF SlotsOf, CountersAgree, CandidatesCounted
    <3>3. CASE r \notin resSlot /\ resSlot' = resSlot \ {r}
               /\ reservedRetired' = reservedRetired - SlotsOf(r)
      <4>1. resSlot' = resSlot
        BY <3>3
      <4>2. reservedRetired' = reservedRetired
        BY <3>3 DEF SlotsOf, TypeReservation
      <4>3. QED
        BY <4>1, <4>2 DEF CountersAgree, CandidatesCounted, TypeReservation
    <3>4. QED
      BY <2>1, <3>1, <3>2, <3>3
  <2>3. QED
    BY <1>1, <2>2 DEF CountersAgree, CandidatesCounted, HeldUnder, TypeReservation,
       ReservationInv
<1>5. TypeSession' /\ SessionsCounted'
  <2>1. UNCHANGED <<sessions, genSessions, dsSessions, leaseGen>>
    BY <1>1 DEF sessionVars
  <2>2. \A l \in sessions : genDs'[leaseGen[l]] = genDs[leaseGen[l]]
    BY <1>3 DEF SessionInv
  <2>3. /\ \A h \in Gen : OnGen(h)' = OnGen(h)
        /\ \A e \in Datasource : OnDatasource(e)' = OnDatasource(e)
    BY <2>1, <2>2 DEF OnGen, OnDatasource
  <2>4. QED
    BY <2>1, <2>3 DEF TypeSession, SessionsCounted, CountersAgree
<1>6. SessionLimitsHold'
  <2>1. sessions' = sessions /\ \A h \in Gen : OnGen(h)' = OnGen(h)
    BY <1>1 DEF sessionVars, OnGen
  <2>2. OnGen(new) = {}
    BY <1>2 DEF OnGen, SessionInv
  <2>3. Cardinality(OnGen(new)) = 0 /\ m \in Nat
    BY <2>2, FS_EmptySet, LimitsAssumption
  <2>4. \A h \in Gen : Cardinality(OnGen(h)) <= genMax'[h]
    BY <1>1, <2>3 DEF SessionLimitsHold, TypeGen
  <2>5. QED
    BY <2>1, <2>4 DEF SessionLimitsHold
<1>7. CASE published[a] = NoGen
  <2>1. UNCHANGED <<retired, genRetired, genClosed, dsRetired>>
    BY <1>7 DEF Publish
  <2>2. RetiredCounted'
    <3>1. \A e \in Datasource : RetiredOf(e)' = RetiredOf(e)
      BY <1>3, <2>1 DEF RetiredOf, GenInv
    <3>2. QED
      BY <2>1, <3>1 DEF RetiredCounted, CountersAgree
  <2>3. TypeGen'
    BY <1>0, <1>1, <2>1, LimitsAssumption DEF TypeGen
  <2>4. GenInv'
    <3>1. genClosed' \subseteq genRetired' /\ genRetired' \subseteq Born'
          /\ retired' = genRetired' \ genClosed' /\ Born' \ genClosed' \subseteq prepared'
      BY <1>1, <1>2, <2>1 DEF GenInv
    <3>2. \A h \in Born' : genDs'[h] \in Datasource
      BY <1>1, <1>2, <1>3 DEF GenInv, TypeGen
    <3>3. \A b \in Alias : published'[b] # NoGen => published'[b] \in Born' \ genRetired'
      BY <1>1, <1>2, <2>1 DEF GenInv, TypeGen
    <3>4. \A b, c \in Alias :
            published'[b] # NoGen /\ published'[c] # NoGen
              /\ genDs'[published'[b]] = genDs'[published'[c]] => b = c
      <4>1. \A b \in Alias \ {a} : published'[b] = published[b]
              /\ (published[b] # NoGen => genDs'[published[b]] = genDs[published[b]]
                                          /\ genDs[published[b]] # d)
        BY <1>1, <1>3 DEF Publish, MayTake, GenInv, TypeGen
      <4>2. published'[a] = new /\ genDs'[new] = d
        BY <1>1 DEF TypeGen
      <4>3. QED
        BY <4>1, <4>2 DEF GenInv
    <3>5. \A h \in Born' \ genRetired' : \E b \in Alias : published'[b] = h
      <4>1. published'[a] = new /\ \A b \in Alias \ {a} : published'[b] = published[b]
        BY <1>1 DEF TypeGen
      <4>2. \A h \in Born \ genRetired : \E b \in Alias \ {a} : published[b] = h
        <5>1. \A h \in Born : h # NoGen
          BY <1>2
        <5>2. QED
          BY <1>7, <5>1 DEF GenInv
      <4>3. QED
        BY <1>2, <2>1, <4>1, <4>2
    <3>6. QED
      BY <3>1, <3>2, <3>3, <3>4, <3>5 DEF GenInv
  <2>5. SessionInv'
    BY <1>1, <1>2, <2>1 DEF SessionInv, sessionVars
  <2>6. QED
    BY <1>4, <1>5, <1>6, <2>2, <2>3, <2>4, <2>5 DEF CountersAgree
<1>8. CASE published[a] # NoGen
  <2>0. PICK old \in Born \ genRetired : old = published[a]
    BY <1>8 DEF GenInv
  <2>1. Retire(old)
    BY <1>8, <2>0 DEF Publish
  <2>2. /\ RetiredCounted'
        /\ dsRetired' \in [Datasource -> Nat]
        /\ genRetired' = genRetired \cup {old}
        /\ genClosed \subseteq genClosed' /\ genClosed' \subseteq genClosed \cup {old}
        /\ retired' = genRetired' \ genClosed'
        /\ old \in genClosed' <=> \A l \in sessions : leaseGen[l] # old
    BY <1>3, <2>1, RetireFacts
  <2>3. TypeGen'
    BY <1>0, <1>1, <1>2, <2>2, LimitsAssumption DEF TypeGen
  <2>4. GenInv'
    <3>1. genClosed' \subseteq genRetired' /\ genRetired' \subseteq Born'
          /\ retired' = genRetired' \ genClosed' /\ Born' \ genClosed' \subseteq prepared'
      BY <1>1, <1>2, <2>2 DEF GenInv
    <3>2. \A h \in Born' : genDs'[h] \in Datasource
      BY <1>1, <1>2, <1>3 DEF GenInv, TypeGen
    <3>3. /\ published'[a] = new /\ genDs'[new] = d
          /\ \A b \in Alias \ {a} : published'[b] = published[b]
      BY <1>1 DEF TypeGen
    <3>4. \A b \in Alias \ {a} : published[b] # NoGen =>
            published[b] # old /\ genDs'[published[b]] = genDs[published[b]]
              /\ genDs[published[b]] # d
      BY <1>3, <2>0, <1>8 DEF Publish, MayTake, GenInv
    <3>5. \A b \in Alias : published'[b] # NoGen => published'[b] \in Born' \ genRetired'
      <4>1. new \in Born' \ genRetired'
        BY <1>2, <2>0, <2>2 DEF GenInv
      <4>2. QED
        BY <1>2, <2>2, <3>3, <3>4, <4>1 DEF GenInv
    <3>6. \A b, c \in Alias :
            published'[b] # NoGen /\ published'[c] # NoGen
              /\ genDs'[published'[b]] = genDs'[published'[c]] => b = c
      BY <3>3, <3>4 DEF GenInv
    <3>7. \A h \in Born' \ genRetired' : \E b \in Alias : published'[b] = h
      <4>1. \A h \in Born \ genRetired : h # old => \E b \in Alias \ {a} : published[b] = h
        BY <2>0 DEF GenInv
      <4>2. QED
        BY <1>2, <2>2, <3>3, <4>1
    <3>8. QED
      BY <3>1, <3>2, <3>5, <3>6, <3>7 DEF GenInv
  <2>5. SessionInv'
    BY <1>1, <1>2, <2>0, <2>2 DEF SessionInv, GenInv, sessionVars
  <2>6. QED
    BY <1>4, <1>5, <1>6, <2>2, <2>3, <2>4, <2>5 DEF CountersAgree
<1>9. QED
  BY <1>7, <1>8

\* Disposing touches only generations that are closed.
LEMMA DisposeRegistry ==
    ASSUME RegistryInv, NEW g \in Gen, Dispose(g)
    PROVE  RegistryInv'
<1> USE DEF RegistryInv
<1>1. UNCHANGED <<genVars, lifeVars, sessionVars, leaseGen, resVars>>
      /\ g \in genClosed /\ prepared' = prepared \ {g}
  BY DEF Dispose, leaseVars
<1>2. TypeGen' /\ GenInv'
  BY <1>1 DEF genVars, lifeVars, TypeGen, GenInv, Born
<1>3. QED
  BY <1>1, <1>2 DEF genVars, lifeVars, sessionVars, resVars, TypeSession,
     TypeReservation, CountersAgree, SessionsCounted, RetiredCounted,
     CandidatesCounted, OnGen, OnDatasource, RetiredOf, HeldUnder, SessionInv,
     ReservationInv, SessionLimitsHold, Born

\* The end of close(): with no session left, every generation is closed.
LEMMA CloseEndRegistry ==
    ASSUME TypeOK, RegistryInv, CloseEnd
    PROVE  RegistryInv' /\ Born' \subseteq genClosed'
<1> USE DEF RegistryInv
<1> DEFINE pending == {published[a] : a \in {b \in Alias : published[b] # NoGen}} \cup retired
<1>1. /\ UNCHANGED <<genVars, prepared, sessionVars, leaseGen, resVars>>
      /\ sessions = {} /\ retired' = {} /\ Born' = Born
      /\ published' = [a \in Alias |-> NoGen]
      /\ dsRetired' = [d \in Datasource |-> 0]
      /\ genRetired' = genRetired \cup pending
      /\ genClosed' = genClosed \cup pending
  BY DEF CloseEnd, Drained, leaseVars, genVars, Born
<1>2. pending \subseteq Born /\ Born \subseteq genClosed \cup pending
  <2>1. pending \subseteq Born
    BY DEF GenInv
  <2>2. Born \subseteq genClosed \cup pending
    <3> SUFFICES ASSUME NEW g \in Born, g \notin genClosed PROVE g \in pending
      OBVIOUS
    <3>1. CASE g \in genRetired
      BY <3>1 DEF GenInv
    <3>2. CASE g \notin genRetired
      <4>1. g # NoGen
        BY DEF Born, TypeGen
      <4>2. QED
        BY <3>2, <4>1 DEF GenInv
    <3>3. QED
      BY <3>1, <3>2
  <2>3. QED
    BY <2>1, <2>2
<1>3. Born \subseteq Gen
  BY LimitsAssumption DEF Born, TypeGen
<1> HIDE DEF pending
<1>4. TypeGen'
  BY <1>1, <1>2, <1>3 DEF TypeGen, genVars
<1>5. genRetired' = Born /\ genClosed' = Born
  BY <1>1, <1>2 DEF GenInv
<1>6. GenInv'
  BY <1>1, <1>5 DEF GenInv, genVars
<1>7. RetiredCounted'
  <2>1. \A d \in Datasource : RetiredOf(d)' = {}
    BY <1>1 DEF RetiredOf
  <2>2. QED
    BY <1>1, <2>1, FS_EmptySet DEF RetiredCounted
<1>8. SessionInv'
  BY <1>1 DEF SessionInv, sessionVars
<1>9. TypeSession' /\ SessionsCounted' /\ SessionLimitsHold' /\ TypeReservation'
      /\ CandidatesCounted' /\ ReservationInv'
  BY <1>1 DEF sessionVars, resVars, genVars, TypeSession, SessionsCounted, OnGen,
     OnDatasource, SessionLimitsHold, TypeReservation, CandidatesCounted, HeldUnder,
     ReservationInv, CountersAgree
<1>10. QED
  BY <1>1, <1>4, <1>5, <1>6, <1>7, <1>8, <1>9 DEF CountersAgree

-----------------------------------------------------------------------------
(* Leases and the shutdown *)

LockInv == TypeLease /\ TypeShutdown /\ (\A l \in Lease : LeaseInv(l)) /\ ShutdownInv

\* Every step a session's thread takes under its lease lock, without the
\* registry, leaves the lock discipline intact.
LEMMA SessionThreadLocks ==
    ASSUME IInv, NEW l \in Lease,
           \/ ConnectOk(l) \/ ConnectFail(l) \/ CheckTerminating(l) \/ Unlock(l)
           \/ UseBegin(l) \/ Reject(l) \/ Execute(l) \/ Complete(l) \/ Abort(l)
           \/ CloseLease(l)
    PROVE  /\ LockInv'
           /\ UNCHANGED <<genVars, lifeVars, prepared, sessionVars, leaseGen, resVars>>
<1> DEFINE Kept == /\ UNCHANGED <<genVars, lifeVars, prepared, sessionVars, leaseGen, resVars>>
                   /\ UNCHANGED <<shutdownVars, closing, closed>>
                   /\ \A m \in Lease \ {l} :
                        /\ pc'[m] = pc[m] /\ holder'[m] = holder[m]
                        /\ m \in leaseClosed' <=> m \in leaseClosed
                        /\ m \in connected' => m \in connected
                   /\ pc[l] # "new" /\ pc'[l] # "new"
                   /\ TypeLease' /\ LeaseInv(l)'
                   /\ holder[l] # "shutdown" /\ holder'[l] # "shutdown"
<1> USE DEF IInv, TypeOK
<1>1. Kept
  <2>1. CASE ConnectOk(l)
    BY <2>1 DEF ConnectOk, Move, CloseAdapter, LeaseInv, TypeLease, sessionVars,
       shutdownVars
  <2>2. CASE ConnectFail(l)
    BY <2>2 DEF ConnectFail, Move, CloseAdapter, LeaseInv, TypeLease, sessionVars,
       shutdownVars
  <2>3. CASE CheckTerminating(l)
    BY <2>3 DEF CheckTerminating, Move, CloseAdapter, LeaseInv, TypeLease, sessionVars,
       shutdownVars
  <2>4. CASE Unlock(l)
    BY <2>4 DEF Unlock, Move, CloseAdapter, LeaseInv, TypeLease, sessionVars,
       shutdownVars
  <2>5. CASE UseBegin(l)
    BY <2>5 DEF UseBegin, Move, CloseAdapter, LeaseInv, TypeLease, sessionVars,
       shutdownVars
  <2>6. CASE Reject(l)
    BY <2>6 DEF Reject, Move, CloseAdapter, LeaseInv, TypeLease, sessionVars,
       shutdownVars
  <2>7. CASE Execute(l)
    BY <2>7 DEF Execute, Move, CloseAdapter, LeaseInv, TypeLease, sessionVars,
       shutdownVars
  <2>8. CASE Complete(l)
    BY <2>8 DEF Complete, Move, CloseAdapter, LeaseInv, TypeLease, sessionVars,
       shutdownVars
  <2>9. CASE Abort(l)
    BY <2>9 DEF Abort, Move, CloseAdapter, LeaseInv, TypeLease, sessionVars,
       shutdownVars
  <2>10. CASE CloseLease(l)
    BY <2>10 DEF CloseLease, Move, CloseAdapter, LeaseInv, TypeLease, sessionVars,
       shutdownVars
  <2>11. QED
    BY <2>1, <2>2, <2>3, <2>4, <2>5, <2>6, <2>7, <2>8, <2>9, <2>10
<1>2. \A m \in Lease : LeaseInv(m)'
  BY <1>1 DEF LeaseInv, sessionVars, shutdownVars
<1>3. TypeShutdown' /\ ShutdownInv'
  <2>1. UNCHANGED <<spc, todo, snapshot, cur, closing, closed, sessions, held,
                    nextGeneration, genClosed>>
    BY <1>1 DEF shutdownVars, sessionVars, resVars, genVars, lifeVars
  <2>2. \A m \in Lease : pc[m] # "new" => pc'[m] # "new"
    BY <1>1
  <2>3. cur # None /\ spc = "request" => holder'[cur] = holder[cur]
    BY <1>1 DEF ShutdownInv, TypeShutdown
  <2>4. QED
    BY <2>1, <2>2, <2>3 DEF ShutdownInv, TypeShutdown, Born
<1>4. QED
  BY <1>1, <1>2, <1>3 DEF LockInv

\* Admission: a new lease starts with its lock held by its own thread.
LEMMA OpenSessionLocks ==
    ASSUME IInv, NEW l \in Lease, NEW a \in Alias, OpenSession(l, a)
    PROVE  LockInv' /\ l \notin sessions
<1> USE DEF IInv, TypeOK
<1>1. l \notin sessions
  BY DEF OpenSession, LeaseInv
<1>2. TypeLease' /\ TypeShutdown'
  BY DEF OpenSession, TypeLease, TypeShutdown, shutdownVars
<1>3. \A m \in Lease : LeaseInv(m)'
  BY DEF OpenSession, LeaseInv, TypeLease, shutdownVars
<1>4. ShutdownInv'
  BY DEF OpenSession, ShutdownInv, LeaseInv, TypeLease, TypeShutdown, shutdownVars
<1>5. QED
  BY <1>1, <1>2, <1>3, <1>4 DEF LockInv

\* The registry release by the session's thread.
LEMMA ReleaseSessionLocks ==
    ASSUME IInv, NEW l \in Lease, ReleaseSession(l)
    PROVE  LockInv' /\ l \in sessions
<1> USE DEF IInv, TypeOK
<1>1. l \in sessions
  BY DEF ReleaseSession, LeaseInv
<1>2. TypeLease' /\ TypeShutdown'
  BY DEF ReleaseSession, TypeLease, TypeShutdown, shutdownVars
<1>3. \A m \in Lease : LeaseInv(m)'
  BY DEF ReleaseSession, Release, LeaseInv, TypeLease, shutdownVars
<1>4. ShutdownInv'
  BY <1>1 DEF ReleaseSession, ShutdownInv, LeaseInv, TypeLease, TypeShutdown, shutdownVars
<1>5. QED
  BY <1>1, <1>2, <1>3, <1>4 DEF LockInv

\* The registry release by the shutdown's thread.
LEMMA ShutdownReleaseLocks ==
    ASSUME IInv, ShutdownRelease
    PROVE  LockInv' /\ cur \in sessions
<1> USE DEF IInv, TypeOK
<1>0. PICK c \in Lease : c = cur
  BY DEF ShutdownRelease, TypeShutdown
<1>1. c \in sessions /\ pc[c] = "idle" /\ c \in leaseClosed
  BY <1>0 DEF ShutdownRelease, LeaseInv, TypeLease
<1>2. TypeLease' /\ TypeShutdown'
  BY <1>0 DEF ShutdownRelease, TypeLease, TypeShutdown
<1>3. \A m \in Lease : LeaseInv(m)'
  BY <1>0, <1>1, SetsAssumption DEF ShutdownRelease, Release, LeaseInv, TypeLease
<1>4. ShutdownInv'
  BY <1>0, <1>1 DEF ShutdownRelease, ShutdownInv, TypeShutdown
<1>5. QED
  BY <1>0, <1>1, <1>2, <1>3, <1>4 DEF LockInv

\* The steps of close() that touch leases but not the registry.
LEMMA ShutdownThreadLocks ==
    ASSUME IInv,
           \/ \E l \in Lease : RequestTermination(l)
           \/ RequestDone
           \/ \E l \in Lease : FinishNext(l)
           \/ FinishRecancel \/ FinishAcquire \/ FinishDone
           \/ BeginShutdown \/ CloseBegin
    PROVE  /\ LockInv'
           /\ UNCHANGED <<genVars, lifeVars, prepared, sessionVars, leaseGen, resVars>>
<1> USE DEF IInv, TypeOK
<1>1. ASSUME NEW l \in Lease, RequestTermination(l)
      PROVE  LockInv' /\ UNCHANGED <<genVars, lifeVars, prepared, sessionVars, leaseGen, resVars>>
  <2>1. pc[l] # "new" /\ (LockFree(l) => pc[l] \in {"idle", "done"})
    BY <1>1 DEF RequestTermination, LockFree, ShutdownInv, LeaseInv, TypeLease
  <2>2. TypeLease' /\ TypeShutdown'
    BY <1>1 DEF RequestTermination, CloseAdapter, Cancel, TypeLease, TypeShutdown
  <2>3. \A m \in Lease : LeaseInv(m)'
    <3>1. \A m \in Lease : holder[m] # "shutdown"
      BY <1>1, SetsAssumption DEF RequestTermination, LeaseInv
    <3>2. QED
      BY <1>1, <2>1, <3>1 DEF RequestTermination, CloseAdapter, LockFree, LeaseInv,
         TypeLease, sessionVars
  <2>4. ShutdownInv'
    BY <1>1 DEF RequestTermination, ShutdownInv, TypeShutdown, TypeLease, sessionVars,
       resVars, genVars, lifeVars, Born
  <2>5. QED
    BY <1>1, <2>2, <2>3, <2>4 DEF RequestTermination, LockInv
<1>2. CASE RequestDone
  BY <1>2 DEF RequestDone, LockInv, TypeLease, TypeShutdown, LeaseInv, ShutdownInv,
     leaseVars, sessionVars, resVars, genVars, lifeVars, Born
<1>3. ASSUME NEW l \in Lease, FinishNext(l)
      PROVE  LockInv' /\ UNCHANGED <<genVars, lifeVars, prepared, sessionVars, leaseGen, resVars>>
  BY <1>3, SetsAssumption DEF FinishNext, LockInv, TypeLease, TypeShutdown, LeaseInv,
     ShutdownInv, leaseVars, sessionVars, resVars, genVars, lifeVars, Born
<1>4. CASE FinishRecancel
  BY <1>4 DEF FinishRecancel, Cancel, LockInv, TypeLease, TypeShutdown, LeaseInv,
     ShutdownInv, shutdownVars, sessionVars, resVars, genVars, lifeVars, Born
<1>5. CASE FinishAcquire
  <2>0. PICK c \in Lease : c = cur
    BY <1>5 DEF FinishAcquire, TypeShutdown
  <2>1. pc[c] \in {"idle", "done"} /\ holder[c] = "free"
    BY <1>5, <2>0 DEF FinishAcquire, LockFree, ShutdownInv, LeaseInv, TypeLease
  <2>2. TypeLease' /\ TypeShutdown'
    BY <1>5, <2>0 DEF FinishAcquire, CloseAdapter, TypeLease, TypeShutdown
  <2>3. \A m \in Lease : LeaseInv(m)'
    BY <1>5, <2>0, <2>1 DEF FinishAcquire, CloseAdapter, LeaseInv, TypeLease, sessionVars
  <2>4. ShutdownInv'
    BY <1>5, <2>0 DEF FinishAcquire, ShutdownInv, TypeShutdown, TypeLease, sessionVars,
       resVars, genVars, lifeVars, Born
  <2>5. QED
    BY <1>5, <2>2, <2>3, <2>4 DEF FinishAcquire, LockInv
<1>6. CASE FinishDone
  BY <1>6 DEF FinishDone, LockInv, TypeLease, TypeShutdown, LeaseInv, ShutdownInv,
     leaseVars, sessionVars, resVars, genVars, lifeVars, Born
<1>7. CASE BeginShutdown
  BY <1>7 DEF BeginShutdown, LockInv, TypeLease, TypeShutdown, LeaseInv, ShutdownInv,
     leaseVars, shutdownVars, sessionVars, resVars, genVars, lifeVars, Born
<1>8. CASE CloseBegin
  BY <1>8 DEF CloseBegin, LockInv, TypeLease, TypeShutdown, TypeSession, LeaseInv, ShutdownInv,
     leaseVars, sessionVars, resVars, genVars, lifeVars, Born
<1>9. QED
  BY <1>1, <1>2, <1>3, <1>4, <1>5, <1>6, <1>7, <1>8

-----------------------------------------------------------------------------
(* The invariant and what follows from it *)

\* The empty registry satisfies the invariant.
LEMMA InitIInv == Init => IInv
<1> SUFFICES ASSUME Init PROVE IInv
  OBVIOUS
<1>1. Born = {}
  BY DEF Init, Born
<1>2. TypeOK
  <2>1. TypeGen
    BY LimitsAssumption DEF Init, TypeGen
  <2>2. TypeSession /\ TypeReservation
    BY DEF Init, TypeSession, TypeReservation
  <2>3. TypeLease /\ TypeShutdown
    BY DEF Init, TypeLease, TypeShutdown
  <2>4. QED
    BY <2>1, <2>2, <2>3 DEF TypeOK
<1>3. /\ \A g : OnGen(g) = {}
      /\ \A d : OnDatasource(d) = {} /\ RetiredOf(d) = {}
      /\ \A k : HeldUnder(k) = {}
  BY DEF Init, OnGen, OnDatasource, RetiredOf, HeldUnder
<1>4. Cardinality({}) = 0
  BY FS_EmptySet
<1>5. CountersAgree
  BY <1>3, <1>4 DEF Init, CountersAgree, SessionsCounted, RetiredCounted, CandidatesCounted
<1>6. SessionLimitsHold
  <2>1. \A g \in Gen : Cardinality(OnGen(g)) = 0 /\ genMax[g] = 0
    BY <1>3, <1>4 DEF Init
  <2>2. Cardinality(sessions) = 0
    BY <1>4 DEF Init
  <2>3. QED
    BY <2>1, <2>2, LimitsAssumption DEF SessionLimitsHold
<1>7. GenInv /\ SessionInv /\ ReservationInv /\ ShutdownInv
  BY <1>1 DEF Init, GenInv, SessionInv, ReservationInv, ShutdownInv
<1>8. \A l \in Lease : LeaseInv(l)
  BY DEF Init, LeaseInv
<1>9. QED
  BY <1>2, <1>5, <1>6, <1>7, <1>8 DEF IInv

\* The invariant is the registry's part and the leases' part together.
LEMMA IInvParts == IInv <=> RegistryInv /\ LockInv
  BY DEF IInv, TypeOK, RegistryInv, LockInv

\* A step that leaves every lease and the shutdown alone, and does not undo
\* what close() established, keeps the leases' part.
LEMMA LocksUntouched ==
    ASSUME IInv,
           UNCHANGED <<leaseVars, shutdownVars, closing, closed, sessions>>,
           closed => held' = {} /\ Born' \subseteq genClosed'
    PROVE  LockInv'
  BY DEF IInv, TypeOK, LockInv, leaseVars, shutdownVars, TypeLease, TypeShutdown,
     LeaseInv, ShutdownInv

\* Every step of every thread keeps the invariant.
LEMMA NextIInv == IInv /\ [Next]_vars => IInv'
<1> SUFFICES ASSUME IInv, [Next]_vars PROVE RegistryInv' /\ LockInv'
  BY IInvParts DEF IInv, TypeOK, RegistryInv, LockInv
<1>0. TypeOK /\ RegistryInv /\ LockInv
  BY IInvParts DEF IInv
<1>1. CASE UNCHANGED vars
  <2>1. UNCHANGED <<genVars, lifeVars, prepared, sessionVars, leaseVars, resVars,
                    shutdownVars, closing, closed>>
    BY <1>1 DEF vars
  <2>2. RegistryInv'
    BY <1>0, <2>1, RegistryUntouched DEF leaseVars
  <2>3. LockInv'
    BY <2>1, LocksUntouched DEF IInv, ShutdownInv, Born, genVars, lifeVars, resVars, sessionVars
  <2>4. QED
    BY <2>2, <2>3
<1>2. ASSUME NEW l \in Lease, SessionStep(l) PROVE RegistryInv' /\ LockInv'
  <2>1. ASSUME NEW a \in Alias, OpenSession(l, a) PROVE RegistryInv' /\ LockInv'
    BY <1>0, <2>1, OpenSessionLocks, OpenSessionRegistry
  <2>2. CASE ReleaseSession(l)
    <3>1. Release(l) /\ UNCHANGED <<genVars, prepared, leaseGen, resVars>>
      BY <2>2 DEF ReleaseSession
    <3>2. QED
      BY <1>0, <2>2, <3>1, ReleaseSessionLocks, ReleaseRegistry
  <2>3. CASE \/ ConnectOk(l) \/ ConnectFail(l) \/ CheckTerminating(l) \/ Unlock(l)
             \/ UseBegin(l) \/ Reject(l) \/ Execute(l) \/ Complete(l) \/ Abort(l)
             \/ CloseLease(l)
    BY <1>0, <2>3, SessionThreadLocks, RegistryUntouched
  <2>4. QED
    BY <1>2, <2>1, <2>2, <2>3 DEF SessionStep
<1>3. ASSUME NEW r \in Reservation, ReservationStep(r) PROVE RegistryInv' /\ LockInv'
  <2>1. ASSUME NEW k \in Key, NEW d \in Datasource \cup {None}, NEW p \in BOOLEAN,
               Reserve(r, k, d, p)
        PROVE  RegistryInv' /\ LockInv'
    <3>1. ~closed
      BY <2>1 DEF Reserve, IInv, ShutdownInv
    <3>2. LockInv'
      BY <2>1, <3>1, LocksUntouched DEF Reserve, sessionVars
    <3>3. QED
      BY <1>0, <2>1, <3>2, ReserveRegistry
  <2>2. ASSUME NEW d \in Datasource, NEW a \in Alias, NEW m \in SessionLimits,
               Publish(r, d, a, m)
        PROVE  RegistryInv' /\ LockInv'
    <3>1. ~closed
      BY <2>2 DEF Publish
    <3>2. LockInv'
      BY <2>2, <3>1, LocksUntouched DEF Publish, sessionVars
    <3>3. QED
      BY <1>0, <2>2, <3>2, PublishRegistry
  <2>3. CASE ReleaseReservation(r)
    <3>1. ~closed
      BY <2>3 DEF ReleaseReservation, IInv, ShutdownInv
    <3>2. LockInv'
      BY <2>3, <3>1, LocksUntouched DEF ReleaseReservation, sessionVars
    <3>3. QED
      BY <1>0, <2>3, <3>2, ReleaseReservationRegistry
  <2>4. QED
    BY <1>3, <2>1, <2>2, <2>3 DEF ReservationStep, Key
<1>4. ASSUME NEW a \in Alias, Withdraw(a) PROVE RegistryInv' /\ LockInv'
  <2>1. ~closed
    <3>1. PICK g \in Born \ genRetired : g = published[a]
      BY <1>4 DEF Withdraw, IInv, GenInv
    <3>2. QED
      BY <3>1 DEF IInv, GenInv, ShutdownInv
  <2>2. LockInv'
    BY <1>4, <2>1, LocksUntouched DEF Withdraw, sessionVars
  <2>3. QED
    BY <1>0, <1>4, <2>2, WithdrawRegistry
<1>5. ASSUME NEW g \in Gen, Dispose(g) PROVE RegistryInv' /\ LockInv'
  <2>1. LockInv'
    BY <1>5, LocksUntouched DEF Dispose, sessionVars, IInv, ShutdownInv, Born, genVars,
       lifeVars, resVars
  <2>2. QED
    BY <1>0, <1>5, <2>1, DisposeRegistry
<1>6. CASE BeginShutdown \/ CloseBegin
  BY <1>0, <1>6, ShutdownThreadLocks, RegistryUntouched
<1>7. CASE ShutdownStep
  <2>1. CASE ShutdownRelease
    <3>1. Release(cur) /\ UNCHANGED <<genVars, prepared, leaseGen, resVars>>
      BY <2>1 DEF ShutdownRelease
    <3>2. QED
      BY <1>0, <2>1, <3>1, ShutdownReleaseLocks, ReleaseRegistry
  <2>2. CASE CloseEnd
    <3>1. held = {}
      <4>1. Cardinality(held) = 0
        BY <2>2 DEF CloseEnd, Drained, IInv, CountersAgree, CandidatesCounted
      <4>2. QED
        BY <1>0, <4>1, CountedSetsFinite, FS_EmptySet
    <3>2. RegistryInv' /\ Born' \subseteq genClosed'
      BY <1>0, <2>2, CloseEndRegistry
    <3>3. LockInv'
      BY <2>2, <3>1, <3>2 DEF CloseEnd, Drained, IInv, TypeOK, LockInv, TypeLease, TypeShutdown,
         LeaseInv, ShutdownInv, leaseVars, resVars, sessionVars
    <3>4. QED
      BY <3>2, <3>3
  <2>3. CASE \/ \E l \in Lease : RequestTermination(l)
             \/ RequestDone
             \/ \E l \in Lease : FinishNext(l)
             \/ FinishRecancel \/ FinishAcquire \/ FinishDone
    BY <1>0, <2>3, ShutdownThreadLocks, RegistryUntouched
  <2>4. QED
    BY <1>7, <2>1, <2>2, <2>3 DEF ShutdownStep
<1>8. QED
  BY <1>1, <1>2, <1>3, <1>4, <1>5, <1>6, <1>7 DEF Next

\* Type correctness, for every number of datasources, sessions and operations.
THEOREM TypeCorrect == Spec => []TypeOK
<1>1. IInv => TypeOK
  BY DEF IInv
<1>2. QED
  BY <1>1, InitIInv, NextIInv, PTL DEF Spec

\* Every counter of the registry always equals the size of its set.
THEOREM CountersCorrect == Spec => []CountersAgree
<1>1. IInv => CountersAgree
  BY DEF IInv
<1>2. QED
  BY <1>1, InitIInv, NextIInv, PTL DEF Spec

\* Upstream connections belong to admitted sessions, on open generations.
THEOREM ConnectionsCorrect == Spec => []SessionsOwnConnections
<1>1. IInv => SessionsOwnConnections
  BY DEF IInv, TypeOK, TypeLease, LeaseInv, SessionInv, GenInv, SessionsOwnConnections
<1>2. QED
  BY <1>1, InitIInv, NextIInv, PTL DEF Spec

\* A retired generation that is still open always has a session.
THEOREM DrainingCorrect == Spec => []RetiredIsDraining
<1>1. IInv => RetiredIsDraining
  BY DEF IInv, SessionInv, RetiredIsDraining, OnGen
<1>2. QED
  BY <1>1, InitIInv, NextIInv, PTL DEF Spec

\* Admission finds only live generations, one per datasource.
THEOREM PublicationCorrect == Spec => []PublishedIsCurrent
<1>1. IInv => PublishedIsCurrent
  BY DEF IInv, GenInv, PublishedIsCurrent
<1>2. QED
  BY <1>1, InitIInv, NextIInv, PTL DEF Spec

\* Nothing is closed under a session's thread.
THEOREM UseCorrect == Spec => []NoCloseUnderUse
<1>1. IInv => NoCloseUnderUse
  BY DEF IInv, LeaseInv, NoCloseUnderUse
<1>2. QED
  BY <1>1, InitIInv, NextIInv, PTL DEF Spec

\* The session limits hold at all times.
THEOREM LimitsCorrect == Spec => []SessionLimitsHold
<1>1. IInv => SessionLimitsHold
  BY DEF IInv
<1>2. QED
  BY <1>1, InitIInv, NextIInv, PTL DEF Spec

\* When close() has ended nothing of the registry is left open.
THEOREM ShutdownCorrect == Spec => []ClosedIsEmpty
<1>1. IInv => ClosedIsEmpty
  <2> SUFFICES ASSUME IInv, closed PROVE
        /\ sessions = {} /\ connected = {} /\ held = {}
        /\ \A a \in Alias : published[a] = NoGen
        /\ 1..(nextGeneration - 1) \subseteq genClosed
    BY DEF ClosedIsEmpty
  <2>1. sessions = {} /\ held = {} /\ Born \subseteq genClosed
    BY DEF IInv, ShutdownInv
  <2>2. connected = {}
    BY <2>1 DEF IInv, TypeOK, TypeLease, LeaseInv
  <2>3. \A a \in Alias : published[a] = NoGen
    BY <2>1 DEF IInv, GenInv
  <2>4. QED
    BY <2>1, <2>2, <2>3 DEF Born
<1>2. QED
  BY <1>1, InitIInv, NextIInv, PTL DEF Spec

-----------------------------------------------------------------------------
(* Refinement: the registry implements the abstract hand-over *)

\* A step that changes neither the published and retired generations, nor the
\* numbers given out, nor who is admitted where, is a stuttering step.
LEMMA StutterRefines ==
    ASSUME UNCHANGED <<published, retired, nextGeneration, sessions, leaseGen>>
    PROVE  UNCHANGED Lifecycle!vars
  BY DEF Lifecycle!vars, OnGen

\* open_session is an admission to the alias's current generation.
LEMMA OpenSessionRefines ==
    ASSUME IInv, NEW l \in Lease, NEW a \in Alias, OpenSession(l, a)
    PROVE  Lifecycle!Admit(l, a)
<1> USE DEF IInv, TypeOK
<1>1. l \notin sessions
  BY OpenSessionLocks
<1>2. PICK g \in Gen : g = published[a]
  BY DEF OpenSession, TypeGen
<1>3. /\ leaseGen' = [leaseGen EXCEPT ![l] = g]
      /\ sessions' = sessions \cup {l}
      /\ UNCHANGED <<published, retired, nextGeneration>>
      /\ g # NoGen
  BY <1>2 DEF OpenSession, lifeVars, genVars
<1>4. OnGen(g)' = OnGen(g) \cup {l}
  BY <1>1, <1>3 DEF OnGen, TypeSession
<1>5. \A h \in Gen \ {g} : OnGen(h)' = OnGen(h)
  BY <1>1, <1>3 DEF OnGen, TypeSession
<1>6. [h \in Gen |-> OnGen(h)]' =
        [[h \in Gen |-> OnGen(h)] EXCEPT ![g] = @ \cup {l}]
  BY <1>4, <1>5
<1>7. \A h \in Gen : l \notin OnGen(h)
  BY <1>1 DEF OnGen
<1>8. QED
  BY <1>2, <1>3, <1>6, <1>7 DEF Lifecycle!Admit

\* _release, by the session's thread or the shutdown's, is the user's leaving:
\* the generation stops draining exactly with its last session.
LEMMA ReleaseRefines ==
    ASSUME IInv, NEW l \in sessions, Release(l),
           UNCHANGED <<genVars, leaseGen>>
    PROVE  \E g \in Gen : Lifecycle!Leave(l, g)
<1> USE DEF IInv, TypeOK
<1>1. PICK g \in Gen : g = leaseGen[l]
  BY LimitsAssumption DEF SessionInv, Born, TypeGen
<1>2. g \notin genClosed
  BY <1>1 DEF SessionInv
<1>3. /\ sessions' = sessions \ {l}
      /\ retired' = IF LastUser(g) THEN retired \ {g} ELSE retired
      /\ UNCHANGED <<published, nextGeneration, leaseGen>>
  BY <1>1 DEF Release, genVars
<1>4. OnGen(g)' = OnGen(g) \ {l} /\ l \in OnGen(g)
  BY <1>1, <1>3 DEF OnGen
<1>5. \A h \in Gen \ {g} : OnGen(h)' = OnGen(h)
  BY <1>1, <1>3 DEF OnGen
<1>6. [h \in Gen |-> OnGen(h)]' =
        [[h \in Gen |-> OnGen(h)] EXCEPT ![g] = @ \ {l}]
  BY <1>4, <1>5
<1>7. genSessions[g] - 1 = 0 <=> OnGen(g) = {l}
  <2>1. IsFiniteSet(OnGen(g)) /\ genSessions[g] = Cardinality(OnGen(g))
    BY CountedSetsFinite DEF CountersAgree, SessionsCounted
  <2>2. /\ IsFiniteSet(OnGen(g) \ {l})
        /\ Cardinality(OnGen(g) \ {l}) = genSessions[g] - 1
    BY <1>4, <2>1, CardRemove
  <2>3. Cardinality(OnGen(g) \ {l}) = 0 <=> OnGen(g) \ {l} = {}
    BY <2>2, FS_EmptySet
  <2>4. QED
    BY <1>4, <2>2, <2>3
<1>8. retired' = IF OnGen(g) = {l} THEN retired \ {g} ELSE retired
  BY <1>2, <1>3, <1>7 DEF LastUser, GenInv
<1>9. QED
  BY <1>3, <1>4, <1>6, <1>8 DEF Lifecycle!Leave

\* _retire_locked with _take_closable_locked: a generation that stops admitting
\* drains exactly when it has sessions.
LEMMA RetireRefines ==
    ASSUME IInv, NEW g \in Born \ genRetired, Retire(g)
    PROVE  /\ g \in Gen /\ g # NoGen
           /\ retired' = IF OnGen(g) # {} THEN retired \cup {g} ELSE retired
<1> USE DEF IInv, TypeOK
<1>1. g \in Gen
  BY LimitsAssumption DEF Born, TypeGen
<1>2. IsFiniteSet(OnGen(g)) /\ genSessions[g] = Cardinality(OnGen(g))
  BY <1>1, CountedSetsFinite DEF CountersAgree, SessionsCounted
<1>3. genSessions[g] = 0 <=> OnGen(g) = {}
  BY <1>2, FS_EmptySet
<1>4. QED
  BY <1>1, <1>3 DEF Retire

\* withdraw() is the end of a generation without a successor.
LEMMA WithdrawRefines ==
    ASSUME IInv, NEW a \in Alias, Withdraw(a)
    PROVE  Lifecycle!Withdraw(a)
<1>1. PICK g \in Born \ genRetired : g = published[a]
  BY DEF Withdraw, IInv, GenInv
<1>2. Retire(g)
  BY <1>1 DEF Withdraw
<1>3. /\ g \in Gen /\ g # NoGen
      /\ retired' = IF OnGen(g) # {} THEN retired \cup {g} ELSE retired
  BY <1>2, RetireRefines
<1>4. /\ published' = [published EXCEPT ![a] = NoGen]
      /\ UNCHANGED <<nextGeneration, sessions, leaseGen>>
  BY DEF Withdraw, genVars, sessionVars, leaseVars
<1>5. [h \in Gen |-> OnGen(h)]' = [h \in Gen |-> OnGen(h)]
  BY <1>4 DEF OnGen
<1>6. QED
  BY <1>1, <1>3, <1>4, <1>5 DEF Lifecycle!Withdraw, Lifecycle!StopAdmitting

\* _publish gives the alias a number nobody had, in one step with the end of
\* the generation it replaces.
LEMMA PublishRefines ==
    ASSUME IInv, NEW r \in Reservation, NEW d \in Datasource, NEW a \in Alias,
           NEW m \in SessionLimits, Publish(r, d, a, m)
    PROVE  \E g \in Gen : Lifecycle!Publish(a, g)
<1> USE DEF IInv, TypeOK
<1>1. PICK new \in Gen : new = nextGeneration
  BY DEF Publish, TypeGen
<1>2. /\ published' = [published EXCEPT ![a] = new]
      /\ nextGeneration' = new + 1
      /\ UNCHANGED <<sessions, leaseGen>>
  BY <1>1 DEF Publish, sessionVars, leaseVars
<1>3. /\ new \notin 1..(nextGeneration - 1)
      /\ (1..(nextGeneration - 1))' = 1..(nextGeneration - 1) \cup {new}
  BY <1>1, <1>2
<1>4. [h \in Gen |-> OnGen(h)]' = [h \in Gen |-> OnGen(h)]
  BY <1>2 DEF OnGen
<1>5. retired' = IF published[a] # NoGen /\ [h \in Gen |-> OnGen(h)][published[a]] # {}
                 THEN retired \cup {published[a]} ELSE retired
  <2>1. CASE published[a] = NoGen
    BY <2>1 DEF Publish
  <2>2. CASE published[a] # NoGen
    <3>1. PICK g \in Born \ genRetired : g = published[a]
      BY <2>2 DEF GenInv
    <3>2. Retire(g)
      BY <2>2, <3>1 DEF Publish
    <3>3. /\ g \in Gen /\ g # NoGen
          /\ retired' = IF OnGen(g) # {} THEN retired \cup {g} ELSE retired
      BY <3>2, RetireRefines
    <3>4. QED
      BY <3>1, <3>3
  <2>3. QED
    BY <2>1, <2>2
<1>6. QED
  BY <1>1, <1>2, <1>3, <1>4, <1>5 DEF Lifecycle!Publish, Lifecycle!StopAdmitting

\* The last critical section of close() is the abstract shutdown.
LEMMA CloseEndRefines ==
    ASSUME IInv, CloseEnd
    PROVE  Lifecycle!Shutdown
<1>1. /\ sessions = {}
      /\ published' = [a \in Alias |-> NoGen]
      /\ retired' = {}
      /\ UNCHANGED <<nextGeneration, sessions, leaseGen>>
  BY DEF CloseEnd, Drained, genVars, sessionVars, leaseVars
<1>2. \A g \in Gen : OnGen(g) = {}
  BY <1>1 DEF OnGen
<1>3. [h \in Gen |-> OnGen(h)]' = [h \in Gen |-> OnGen(h)]
  BY <1>1 DEF OnGen
<1>4. QED
  BY <1>1, <1>2, <1>3 DEF Lifecycle!Shutdown

\* Every step of every thread is a step of the hand-over, or none.
LEMMA NextRefines == IInv /\ [Next]_vars => [Lifecycle!Next]_Lifecycle!vars
<1> SUFFICES ASSUME IInv, [Next]_vars PROVE Lifecycle!Next \/ UNCHANGED Lifecycle!vars
  OBVIOUS
<1> DEFINE Still == UNCHANGED <<published, retired, nextGeneration, sessions, leaseGen>>
<1>1. CASE UNCHANGED vars
  <2>1. Still
    BY <1>1 DEF vars, genVars, lifeVars, sessionVars, leaseVars
  <2>2. QED
    BY <2>1, StutterRefines
<1>2. ASSUME NEW l \in Lease, SessionStep(l)
      PROVE  Lifecycle!Next \/ UNCHANGED Lifecycle!vars
  <2>1. ASSUME NEW a \in Alias, OpenSession(l, a) PROVE Lifecycle!Next
    <3>1. Lifecycle!Admit(l, a)
      BY <2>1, OpenSessionRefines
    <3>2. QED
      BY <3>1 DEF Lifecycle!Next
  <2>2. CASE ReleaseSession(l)
    <3>1. Release(l) /\ UNCHANGED <<genVars, leaseGen>> /\ l \in sessions
      BY <2>2, ReleaseSessionLocks DEF ReleaseSession
    <3>2. \E g \in Gen : Lifecycle!Leave(l, g)
      BY <3>1, ReleaseRefines
    <3>3. QED
      BY <3>2 DEF Lifecycle!Next
  <2>3. CASE \/ ConnectOk(l) \/ ConnectFail(l) \/ CheckTerminating(l) \/ Unlock(l)
             \/ UseBegin(l) \/ Reject(l) \/ Execute(l) \/ Complete(l) \/ Abort(l)
             \/ CloseLease(l)
    <3>1. Still
      BY <2>3, SessionThreadLocks DEF genVars, lifeVars, sessionVars
    <3>2. QED
      BY <3>1, StutterRefines
  <2>4. QED
    BY <1>2, <2>1, <2>2, <2>3 DEF SessionStep
<1>3. ASSUME NEW r \in Reservation, ReservationStep(r)
      PROVE  Lifecycle!Next \/ UNCHANGED Lifecycle!vars
  <2>1. ASSUME NEW k, NEW d, NEW p, Reserve(r, k, d, p) PROVE UNCHANGED Lifecycle!vars
    <3>1. Still
      BY <2>1 DEF Reserve, genVars, lifeVars, sessionVars, leaseVars
    <3>2. QED
      BY <3>1, StutterRefines
  <2>2. ASSUME NEW d \in Datasource, NEW a \in Alias, NEW m \in SessionLimits,
               Publish(r, d, a, m)
        PROVE  Lifecycle!Next
    <3>1. \E g \in Gen : Lifecycle!Publish(a, g)
      BY <2>2, PublishRefines
    <3>2. QED
      BY <3>1 DEF Lifecycle!Next
  <2>3. CASE ReleaseReservation(r)
    <3>1. Still
      BY <2>3 DEF ReleaseReservation, genVars, lifeVars, sessionVars, leaseVars
    <3>2. QED
      BY <3>1, StutterRefines
  <2>4. QED
    BY <1>3, <2>1, <2>2, <2>3 DEF ReservationStep
<1>4. ASSUME NEW a \in Alias, Withdraw(a) PROVE Lifecycle!Next
  <2>1. Lifecycle!Withdraw(a)
    BY <1>4, WithdrawRefines
  <2>2. QED
    BY <2>1 DEF Lifecycle!Next
<1>5. ASSUME NEW g \in Gen, Dispose(g) PROVE UNCHANGED Lifecycle!vars
  <2>1. Still
    BY <1>5 DEF Dispose, genVars, lifeVars, sessionVars, leaseVars
  <2>2. QED
    BY <2>1, StutterRefines
<1>6. CASE \/ \E l \in Lease : RequestTermination(l)
           \/ RequestDone
           \/ \E l \in Lease : FinishNext(l)
           \/ FinishRecancel \/ FinishAcquire \/ FinishDone
           \/ BeginShutdown \/ CloseBegin
  <2>1. Still
    BY <1>6, ShutdownThreadLocks DEF genVars, lifeVars, sessionVars
  <2>2. QED
    BY <2>1, StutterRefines
<1>7. CASE ShutdownRelease
  <2>1. Release(cur) /\ UNCHANGED <<genVars, leaseGen>> /\ cur \in sessions
    BY <1>7, ShutdownReleaseLocks DEF ShutdownRelease
  <2>2. \E g \in Gen : Lifecycle!Leave(cur, g)
    BY <2>1, ReleaseRefines
  <2>3. cur \in Lease
    BY <2>1 DEF IInv, TypeOK, TypeSession
  <2>4. QED
    BY <2>2, <2>3 DEF Lifecycle!Next
<1>8. CASE CloseEnd
  <2>1. Lifecycle!Shutdown
    BY <1>8, CloseEndRefines
  <2>2. QED
    BY <2>1 DEF Lifecycle!Next
<1>9. QED
  BY <1>1, <1>2, <1>3, <1>4, <1>5, <1>6, <1>7, <1>8 DEF Next, ShutdownStep

\* With all its counters, flags, locks and threads, the registry implements the
\* abstract hand-over of generations.
THEOREM LifecycleImplemented == Spec => ImplementsLifecycle
<1>1. Init => Lifecycle!Init
  <2>1. ASSUME Init PROVE [g \in Gen |-> OnGen(g)] = [g \in Gen |-> {}]
    BY <2>1 DEF Init, OnGen
  <2>2. ASSUME Init PROVE 1..(nextGeneration - 1) = {}
    BY <2>2 DEF Init
  <2>3. QED
    BY <2>1, <2>2 DEF Init, Lifecycle!Init
<1>2. QED
  BY <1>1, InitIInv, NextIInv, NextRefines, PTL
     DEF Spec, ImplementsLifecycle, Lifecycle!Spec

\* And the hand-over is safe in it: a generation that admits was published once
\* and is not draining, sessions are only on generations that are current or
\* draining, and none drains without a session (publish, withdraw, _release).
THEOREM HandOverSafe == Spec => [](Lifecycle!CurrentIsFresh /\ Lifecycle!UsersAreServed)
<1>1. ASSUME IInv PROVE Lifecycle!CurrentIsFresh
  BY <1>1 DEF IInv, GenInv, Born, Lifecycle!CurrentIsFresh
<1>2. ASSUME IInv PROVE Lifecycle!UsersAreServed
  <2>1. retired \subseteq Born /\ retired \subseteq Gen
    BY <1>2 DEF IInv, GenInv, TypeOK, TypeGen
  <2>2. ASSUME NEW g \in Gen, OnGen(g) # {}
        PROVE  g \in retired \/ \E a \in Alias : published[a] = g
    <3>1. g \in Born \ genClosed
      BY <1>2, <2>2 DEF IInv, SessionInv, OnGen
    <3>2. QED
      BY <1>2, <3>1 DEF IInv, GenInv
  <2>3. \A g \in retired : OnGen(g) # {}
    BY <1>2 DEF IInv, SessionInv, OnGen
  <2>4. QED
    BY <2>1, <2>2, <2>3 DEF Lifecycle!UsersAreServed, Born
<1>3. QED
  BY <1>1, <1>2, InitIInv, NextIInv, PTL DEF Spec
=============================================================================
