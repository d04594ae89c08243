-------------------------- MODULE SnapshotsProofs --------------------------
(***************************************************************************)
(* Proofs about Snapshots, for any number of generations and loads and any *)
(* Keep: Standing is inductive, what readers may come for is kept and      *)
(* nothing more, and what is served is never taken back.  That a published *)
(* generation comes to be served is left to TLC.                           *)
(***************************************************************************)
EXTENDS Snapshots, FiniteSetTheorems, TLAPS

(***************************************************************************)
(* What a loader that stands between two steps may rely on: its number is  *)
(* the next until its directory has it, and that one is whole and marked.  *)
(***************************************************************************)
LoaderHasItsNumber ==
  /\ loader.pc \in {"stamped", "copied"} => loader.gen = Newest + 1
  /\ loader.pc = "copied" => tmp.state = "whole"
  /\ loader.pc \in {"named", "reaping"} =>
       /\ loader.gen = Newest /\ Newest # 0
       /\ dirs[Newest].state = "whole" /\ dirs[Newest].store.mark = Newest
  /\ loader.pc = "reaping" => current = Newest

(***************************************************************************)
(* The loads of what is published are in everything that may replace it:   *)
(* the live store, the store the loader opened, its copy and its snapshot. *)
(***************************************************************************)
LoadsAreCarried ==
  LET published == IF current = 0 THEN 0 ELSE dirs[current].store.loads IN
  /\ published <= live.loads
  /\ loader.pc \in {"loaded", "stamped", "copied", "named"} =>
       published <= opened.loads /\ opened.loads <= live.loads
  /\ loader.pc = "copied" =>
       opened.loads <= tmp.store.loads /\ tmp.store.loads <= live.loads
  /\ loader.pc = "named" =>
       opened.loads <= dirs[Newest].store.loads /\ dirs[Newest].store.loads <= live.loads

SiteFollows ==
  /\ site.has <= current /\ site.want <= current
  /\ site.pc \in {"starting", "opening", "warming"} => site.has <= site.want

\* Each publish that was counted late made a directory newer than all before it.
Publishing == IF loader.pc \in {"named", "reaping"} THEN 1 ELSE 0
LateOnesAreNumbered == late + Publishing <= Newest

Standing ==
  /\ GenerationsAreKept
  /\ LoaderHasItsNumber /\ LoadsAreCarried /\ SiteFollows /\ LateOnesAreNumbered

----------------------------------------------------------------------------
(***************************************************************************)
(* Finite sets of numbers.  The members above one of its members get fewer *)
(* the larger it is, so each number of them belongs to one member at most. *)
(***************************************************************************)
Above(S, g) == {h \in S : h > g}

LEMMA AboveShrinks ==
  ASSUME NEW S \in SUBSET Nat, IsFiniteSet(S), NEW g \in S, NEW h \in S, g < h
  PROVE  Cardinality(Above(S, h)) < Cardinality(Above(S, g))
  <1>1. Above(S, g) \subseteq S /\ h \in Above(S, g) /\ h \notin Above(S, h)
    BY DEF Above
  <1>4. \A i \in S : i > h => i > g
    OBVIOUS
  <1>5. Above(S, h) \subseteq Above(S, g)
    BY <1>4 DEF Above
  <1>2. IsFiniteSet(Above(S, g))
    BY <1>1, FS_Subset
  <1>3. /\ IsFiniteSet(Above(S, h))
        /\ Cardinality(Above(S, h)) <= Cardinality(Above(S, g))
        /\ Cardinality(Above(S, h)) # Cardinality(Above(S, g))
    BY <1>1, <1>2, <1>5, FS_Subset
  <1> QED
    BY <1>2, <1>3, FS_CardinalityType

LEMMA AboveCounts ==
  ASSUME NEW S \in SUBSET Nat, IsFiniteSet(S), NEW g \in S
  PROVE  Cardinality(Above(S, g)) \in 0..(Cardinality(S) - 1)
  <1>1. Above(S, g) \subseteq S \ {g}
    BY DEF Above
  <1>2. IsFiniteSet(S \ {g}) /\ Cardinality(S \ {g}) = Cardinality(S) - 1
    BY FS_RemoveElement
  <1>3. IsFiniteSet(Above(S, g)) /\ Cardinality(Above(S, g)) <= Cardinality(S \ {g})
    BY <1>1, <1>2, FS_Subset
  <1> QED
    BY <1>2, <1>3, FS_CardinalityType

LEMMA AboveIsInjective ==
  ASSUME NEW S \in SUBSET Nat, IsFiniteSet(S), NEW T \in SUBSET S
  PROVE  IsInjective([g \in T |-> Cardinality(Above(S, g))])
  <1>1. ASSUME NEW g \in T, NEW h \in T, Cardinality(Above(S, g)) = Cardinality(Above(S, h))
        PROVE  g = h
    <2>1. ~(g < h) /\ ~(h < g)
      BY <1>1, AboveShrinks, AboveCounts
    <2> QED
      BY <2>1
  <1> QED
    BY <1>1 DEF IsInjective

LEMMA FewAreNewest ==
  ASSUME NEW S \in SUBSET Nat, IsFiniteSet(S), NEW k \in Nat
  PROVE  LET newest == {g \in S : Cardinality(Above(S, g)) < k}
         IN IsFiniteSet(newest) /\ Cardinality(newest) <= k
  <1> DEFINE newest == {g \in S : Cardinality(Above(S, g)) < k}
             count == [g \in newest |-> Cardinality(Above(S, g))]
  <1>1. IsInjective(count)
    BY AboveIsInjective
  <1>2. \A g \in newest : Cardinality(Above(S, g)) \in 0..(k - 1)
    BY AboveCounts
  <1>3. count \in Injection(newest, 0..(k - 1))
    BY <1>1, <1>2 DEF Injection
  <1>4. IsFiniteSet(0..(k - 1)) /\ Cardinality(0..(k - 1)) = k
    BY FS_Interval
  <1> QED
    BY <1>3, <1>4, FS_Injection

LEMMA HasLargest ==
  ASSUME NEW S \in SUBSET Nat, IsFiniteSet(S), S # {}
  PROVE  \E g \in S : \A h \in S : g >= h
  <1> DEFINE n == Cardinality(S)
             count == [g \in S |-> Cardinality(Above(S, g))]
  <1>1. n \in Nat \ {0}
    BY FS_CardinalityType, FS_EmptySet
  <1>2. count \in Injection(S, 0..(n - 1))
    BY AboveIsInjective, AboveCounts DEF Injection
  <1>3. IsFiniteSet(0..(n - 1)) /\ Cardinality(0..(n - 1)) = n
    BY <1>1, FS_Interval
  <1>4. count \in Surjection(S, 0..(n - 1))
    BY <1>2, <1>3, FS_Injection
  <1>7. 0 \in 0..(n - 1)
    BY <1>1
  <1>5. PICK g \in S : Cardinality(Above(S, g)) = 0
    BY <1>4, <1>7, Zenon DEF Surjection
  <1>6. Above(S, g) = {}
    <2>1. IsFiniteSet(Above(S, g))
      BY FS_Subset DEF Above
    <2> QED
      BY <1>5, <2>1, FS_EmptySet
  <1> QED
    BY <1>6 DEF Above

LEMMA HasSmallest ==
  ASSUME NEW n \in Nat, NEW S \in SUBSET (0..n), S # {}
  PROVE  \E g \in S : \A h \in S : g <= h
  <1> DEFINE T == {t \in 0..n : n - t \in S}
  <1>1. T \in SUBSET Nat /\ IsFiniteSet(T)
    <2>1. IsFiniteSet(0..n) /\ T \in SUBSET (0..n)
      BY FS_Interval
    <2> QED
      BY <2>1, FS_Subset
  <1>2. \A g \in S : n - g \in T
    OBVIOUS
  <1>3. PICK t \in T : \A u \in T : t >= u
    BY <1>1, <1>2, HasLargest
  <1>4. \A h \in S : n - t <= h
    BY <1>2, <1>3
  <1> QED
    BY <1>3, <1>4

LEMMA MaxIsLargest ==
  ASSUME NEW S, NEW g \in S, \A h \in S : g >= h, S \subseteq Nat
  PROVE  Max(S) = g
  <1>1. Max(S) \in S /\ \A h \in S : Max(S) >= h
    BY DEF Max
  <1>2. Max(S) \in Nat /\ g \in Nat /\ g >= Max(S) /\ Max(S) >= g
    BY <1>1
  <1> QED
    BY <1>2

LEMMA GensAreFinite ==
  ASSUME NEW S \in SUBSET Gens
  PROVE  S \in SUBSET Nat /\ IsFiniteSet(S) /\ Cardinality(S) \in Nat
  <1>1. IsFiniteSet(Gens) /\ Gens \subseteq Nat
    BY BoundsAssumption, FS_Interval DEF Gens
  <1> QED
    BY <1>1, FS_Subset, FS_CardinalityType

LEMMA NewestIsLargest ==
  /\ Newest \in 0..MaxGen
  /\ Newest = 0 \/ Newest \in Generations
  /\ \A g \in Generations : g <= Newest
  <1>1. Generations \subseteq Gens
    BY DEF Generations
  <1>2. CASE Generations = {}
    BY <1>2, BoundsAssumption DEF Newest
  <1>3. CASE Generations # {}
    <2>1. PICK g \in Generations : \A h \in Generations : g >= h
      BY <1>1, <1>3, GensAreFinite, HasLargest
    <2>2. Newest = g
      BY <1>1, <1>3, <2>1, GensAreFinite, MaxIsLargest DEF Newest
    <2> QED
      BY <1>1, <2>1, <2>2, BoundsAssumption DEF Gens
  <1> QED
    BY <1>2, <1>3

\* Of the newest Keep, and of those younger than Keep, none is doomed.
LEMMA DoomedAreOld ==
  ASSUME NEW g \in Doomed
  PROVE  /\ g \in Gens /\ g \in Generations /\ g # current /\ Newest - g >= Keep
  <1>1. g \in Generations /\ g # current /\ ~(Cardinality(Above(Generations, g)) < Keep)
    BY DEF Doomed, Kept, Above
  <1>2. g \in Gens /\ Generations \subseteq Gens
    BY <1>1 DEF Generations
  <1>3. Above(Generations, g) \subseteq (g + 1)..Newest
    <2>1. Generations \subseteq Nat /\ g \in Nat /\ Newest \in Nat
      BY <1>2, NewestIsLargest, BoundsAssumption DEF Gens
    <2>2. \A h \in Generations : h > g => h \in (g + 1)..Newest
      BY <2>1, NewestIsLargest
    <2> QED
      BY <2>2 DEF Above
  <1>4. IsFiniteSet((g + 1)..Newest) /\ Cardinality((g + 1)..Newest) <= Newest - g
    <2>1. g \in Nat /\ Newest \in Nat /\ g <= Newest
      BY <1>1, <1>2, NewestIsLargest, BoundsAssumption DEF Gens
    <2>2. g + 1 \in Int /\ Newest \in Int
      BY <2>1
    <2>3. /\ IsFiniteSet((g + 1)..Newest)
          /\ Cardinality((g + 1)..Newest) =
               IF g + 1 > Newest THEN 0 ELSE Newest - (g + 1) + 1
      BY <2>2, FS_Interval
    <2> QED
      BY <2>1, <2>3
  <1>5. Cardinality(Above(Generations, g)) \in Nat
        /\ Cardinality(Above(Generations, g)) <= Cardinality((g + 1)..Newest)
        /\ Cardinality((g + 1)..Newest) \in Nat
    BY <1>3, <1>4, FS_Subset, FS_CardinalityType
  <1> QED
    BY <1>1, <1>2, <1>4, <1>5, NewestIsLargest, BoundsAssumption DEF Gens

----------------------------------------------------------------------------
(***************************************************************************)
(* The steps of the loader.                                                *)
(***************************************************************************)
LEMMA StandingInit == Init => Standing
  <1> SUFFICES ASSUME Init PROVE Standing
    OBVIOUS
  <1>1. Generations = {} /\ Newest = 0
    BY DEF Init, Generations, Newest, None
  <1>2. TypeOK
    BY BoundsAssumption DEF Init, TypeOK, Directory, Store, None, Empty
  <1>3. CurrentIsWhole /\ ReadersHaveTime
    BY DEF Init, CurrentIsWhole, ReadersHaveTime
  <1>4. GenerationsAreReaped
    BY <1>1, FS_EmptySet, BoundsAssumption DEF GenerationsAreReaped, Init
  <1>5. LoaderHasItsNumber /\ SiteFollows
    BY DEF Init, LoaderHasItsNumber, SiteFollows
  <1>6. LoadsAreCarried /\ LateOnesAreNumbered
    BY <1>1 DEF Init, LoadsAreCarried, LateOnesAreNumbered, Publishing, Empty
  <1> QED
    BY <1>2, <1>3, <1>4, <1>5, <1>6 DEF Standing, GenerationsAreKept

\* A step that leaves the directories alone leaves the newest and their number.
LEMMA SameDirectories ==
  ASSUME dirs' = dirs
  PROVE  Generations' = Generations /\ Newest' = Newest
  BY DEF Generations, Newest

LEMMA LoaderKeeps ==
  ASSUME Standing, Load \/ Stamp \/ Backup \/ Refuse
  PROVE  Standing'
  <1>1. dirs' = dirs /\ UNCHANGED <<current, late, site>>
    BY DEF Load, Stamp, Backup, Refuse
  <1>2. Generations' = Generations /\ Newest' = Newest
    BY <1>1, SameDirectories
  <1> USE DEF Standing, GenerationsAreKept
  <1>3. CurrentIsWhole' /\ ReadersHaveTime' /\ SiteFollows'
    BY <1>1, <1>2 DEF CurrentIsWhole, ReadersHaveTime, SiteFollows
  <1>4. loader.pc \notin {"named", "reaping"} /\ loader'.pc \notin {"named", "reaping"}
    BY DEF Load, Stamp, Backup, Refuse, LoaderAt, LoaderGoes, TypeOK
  <1>5. GenerationsAreReaped' /\ LateOnesAreNumbered'
    BY <1>1, <1>2, <1>4 DEF GenerationsAreReaped, LateOnesAreNumbered, Publishing
  <1>6. CASE Load
    <2>1. PICK loads \in live.loads..MaxLoads : live' = [live EXCEPT !.loads = loads]
      BY <1>6 DEF Load
    <2>2. /\ live \in Store /\ loads \in 0..MaxLoads /\ live.loads <= loads
          /\ opened' = live /\ live'.loads = loads /\ live' \in Store
      BY <1>6, <2>1, BoundsAssumption DEF Load, TypeOK, Store
    <2>3. /\ loader.pc = "away" /\ loader'.pc = "loaded" /\ loader'.gen = loader.gen
          /\ loader' \in [pc : {"loaded"}, gen : 0..MaxGen]
      BY <1>6 DEF Load, LoaderAt, LoaderGoes, TypeOK
    <2>4. TypeOK'
      BY <1>1, <1>6, <2>2, <2>3 DEF TypeOK, Load
    <2>5. LoaderHasItsNumber'
      BY <2>3 DEF LoaderHasItsNumber
    <2>6. LoadsAreCarried'
      <3> DEFINE published == IF current = 0 THEN 0 ELSE dirs[current].store.loads
      <3>1. published' = published /\ published \in Nat /\ published <= live.loads
        BY <1>1 DEF LoadsAreCarried, TypeOK, CurrentIsWhole, Directory, Store, Gens
      <3>2. live.loads \in Nat /\ loads \in Nat
        BY <2>2 DEF Store
      <3> HIDE DEF published
      <3>3. published' <= live'.loads /\ published' <= opened'.loads /\ opened'.loads <= live'.loads
        BY <2>2, <3>1, <3>2
      <3> QED
        BY <2>3, <3>3 DEF LoadsAreCarried, published
    <2> QED
      BY <1>3, <1>5, <2>4, <2>5, <2>6
  <1>7. CASE Stamp
    BY <1>1, <1>2, <1>3, <1>5, <1>7, NewestIsLargest, BoundsAssumption
      DEF Stamp, LoaderAt, LoaderGoes, TypeOK, Store, LoaderHasItsNumber, LoadsAreCarried
  <1>8. CASE Backup
    <2>1. PICK s \in {live, opened} : tmp' = Holding(s)
      BY <1>8 DEF Backup
    <2>2. s \in Store /\ tmp' \in Directory /\ tmp'.store = s /\ tmp'.state = "whole"
      BY <2>1 DEF TypeOK, Holding, Directory
    <2>3. opened.loads <= s.loads /\ s.loads <= live.loads
      BY <1>8, <2>1 DEF Backup, LoaderAt, LoadsAreCarried, TypeOK, Store
    <2> QED
      BY <1>1, <1>2, <1>3, <1>5, <1>8, <2>2, <2>3
        DEF Backup, LoaderAt, LoaderGoes, TypeOK, LoaderHasItsNumber, LoadsAreCarried
  <1>9. CASE Refuse
    <2>1. /\ UNCHANGED <<live, opened>> /\ tmp' = None
          /\ loader'.pc = "away" /\ loader' \in [pc : {"away"}, gen : 0..MaxGen]
      BY <1>9 DEF Refuse, LoaderGoes, TypeOK
    <2>2. None \in Directory
      BY BoundsAssumption DEF None, Empty, Directory, Store
    <2>3. TypeOK'
      BY <1>1, <2>1, <2>2 DEF TypeOK
    <2>4. LoaderHasItsNumber' /\ LoadsAreCarried'
      BY <1>1, <2>1 DEF LoaderHasItsNumber, LoadsAreCarried
    <2> QED
      BY <1>3, <1>5, <2>3, <2>4
  <1> QED
    BY <1>6, <1>7, <1>8, <1>9

\* What is published is a directory, and none is newer than the newest.
LEMMA PublishedIsThere ==
  ASSUME Standing
  PROVE  /\ current # 0 => current \in Generations
         /\ current \in Nat /\ current <= Newest /\ Newest \in Nat
         /\ site.want \in 0..current /\ site.has \in 0..current
  <1> USE DEF Standing, GenerationsAreKept, TypeOK
  <1>1. current # 0 => current \in Generations
    BY DEF CurrentIsWhole, Generations, Gens
  <1>2. current \in Nat /\ current <= Newest /\ Newest \in Nat
    BY <1>1, NewestIsLargest, BoundsAssumption
  <1> QED
    BY <1>1, <1>2, BoundsAssumption DEF SiteFollows

LEMMA NameKeeps ==
  ASSUME Standing, Name
  PROVE  Standing'
  <1> USE DEF Standing, GenerationsAreKept
  <1>1. PICK n \in Gens :
          /\ n = loader.gen /\ n = Newest + 1 /\ n \notin Generations
          /\ \A g \in Generations : g < n
    BY NewestIsLargest, BoundsAssumption
      DEF Name, LoaderAt, LoaderHasItsNumber, TypeOK, Gens, Generations
  <1>2. /\ loader.pc = "copied" /\ loader'.pc = "named" /\ loader'.gen = n
        /\ tmp \in Directory /\ tmp.state = "whole" /\ tmp.store.mark = n
        /\ dirs' = [dirs EXCEPT ![n] = tmp]
        /\ UNCHANGED <<current, live, opened, late, site>>
    BY <1>1 DEF Name, LoaderAt, LoaderGoes, LoaderHasItsNumber, TypeOK
  <1>3. dirs'[n] = tmp /\ \A g \in Gens : g # n => dirs'[g] = dirs[g]
    BY <1>2 DEF TypeOK
  <1>4. Generations' = Generations \cup {n}
    BY <1>1, <1>2, <1>3 DEF Generations
  <1>5. Newest' = n
    <2>1. Generations' \subseteq Nat /\ n \in Generations' /\ \A g \in Generations' : n >= g
      BY <1>1, <1>4, BoundsAssumption DEF Generations, Gens
    <2>2. Max(Generations') = n
      BY <2>1, MaxIsLargest
    <2> QED
      BY <2>1, <2>2 DEF Newest
  <1>6. TypeOK'
    <2>1. tmp' \in Directory
      BY BoundsAssumption DEF Name, None, Empty, Directory, Store
    <2>2. loader' \in [pc : {"named"}, gen : 0..MaxGen]
      BY DEF Name, LoaderGoes, TypeOK
    <2> QED
      BY <1>2, <2>1, <2>2 DEF TypeOK
  <1>7. CurrentIsWhole'
    BY <1>1, <1>2, <1>3, PublishedIsThere DEF CurrentIsWhole, Generations
  <1>8. ReadersHaveTime'
    <2> SUFFICES ASSUME NEW g \in {site.want, site.has} \ {0}, n - g < Keep
                 PROVE  dirs'[g].state = "whole"
      BY <1>2, <1>5 DEF ReadersHaveTime
    <2>1. g \in Gens /\ g # n /\ Newest - g < Keep
      BY <1>1, PublishedIsThere, NewestIsLargest, BoundsAssumption DEF Gens
    <2> QED
      BY <1>3, <2>1 DEF ReadersHaveTime
  <1>9. GenerationsAreReaped'
    <2>1. Cardinality(Generations') = Cardinality(Generations) + 1
      BY <1>1, <1>4, GensAreFinite, FS_AddElement DEF Generations
    <2>2. Cardinality(Generations) \in Nat /\ Keep \in Nat /\ late \in Nat
      BY GensAreFinite, BoundsAssumption DEF Generations, TypeOK
    <2>3. Cardinality(Generations) <= Keep + late
      BY <1>2, <2>2 DEF GenerationsAreReaped
    <2> QED
      BY <1>2, <2>1, <2>2, <2>3 DEF GenerationsAreReaped
  <1>10. LoaderHasItsNumber'
    BY <1>1, <1>2, <1>3, <1>5, BoundsAssumption DEF LoaderHasItsNumber, Gens
  <1>11. LoadsAreCarried'
    <2>1. current # 0 => dirs'[current] = dirs[current]
      BY <1>1, <1>3, PublishedIsThere DEF Generations
    <2> QED
      BY <1>2, <1>3, <1>5, <2>1 DEF LoadsAreCarried
  <1>12. SiteFollows' /\ LateOnesAreNumbered'
    BY <1>1, <1>2, <1>5, NewestIsLargest, BoundsAssumption
      DEF SiteFollows, LateOnesAreNumbered, Publishing, TypeOK
  <1> QED
    BY <1>6, <1>7, <1>8, <1>9, <1>10, <1>11, <1>12

LEMMA PointKeeps ==
  ASSUME Standing, Point
  PROVE  Standing'
  <1> USE DEF Standing, GenerationsAreKept
  <1>1. /\ loader.pc = "named" /\ loader'.pc = "reaping" /\ loader' = [loader EXCEPT !.pc = "reaping"]
        /\ current' = loader.gen /\ loader.gen = Newest /\ loader'.gen = Newest
        /\ UNCHANGED <<dirs, tmp, live, opened, late, site>>
    BY DEF Point, LoaderAt, LoaderGoes, LoaderHasItsNumber, TypeOK
  <1>2. Generations' = Generations /\ Newest' = Newest
    BY <1>1, SameDirectories
  <1>3. TypeOK'
    BY <1>1, NewestIsLargest DEF TypeOK
  <1>4. CurrentIsWhole' /\ ReadersHaveTime'
    BY <1>1, <1>2 DEF CurrentIsWhole, ReadersHaveTime, LoaderHasItsNumber
  <1>5. GenerationsAreReaped' /\ LateOnesAreNumbered'
    BY <1>1, <1>2 DEF GenerationsAreReaped, LateOnesAreNumbered, Publishing
  <1>6. LoaderHasItsNumber'
    BY <1>1, <1>2 DEF LoaderHasItsNumber
  <1>7. LoadsAreCarried'
    <2>1. live.loads \in Nat /\ opened.loads \in Nat /\ dirs[Newest].store.loads <= live.loads
          /\ Newest # 0
      BY <1>1 DEF LoadsAreCarried, LoaderHasItsNumber, TypeOK, Store
    <2> QED
      BY <1>1, <1>2, <2>1 DEF LoadsAreCarried
  <1>8. SiteFollows'
    BY <1>1, PublishedIsThere DEF SiteFollows
  <1> QED
    BY <1>3, <1>4, <1>5, <1>6, <1>7, <1>8

\* The reaper takes an old one, whole or torn, and never the newest.
LEMMA ReapKeeps ==
  ASSUME Standing, Reap
  PROVE  Standing'
  <1> USE DEF Standing, GenerationsAreKept
  <1>1. PICK g \in Doomed : g = Min(Doomed)
    <2>1. Doomed \subseteq 0..MaxGen /\ Doomed # {} /\ MaxGen \in Nat
      BY BoundsAssumption DEF Reap, Doomed, Generations, Gens
    <2>2. PICK d \in Doomed : \A h \in Doomed : d <= h
      BY <2>1, HasSmallest
    <2> QED
      BY <2>2 DEF Min
  <1>2. /\ g \in Gens /\ g \in Generations /\ g # current /\ Newest - g >= Keep
        /\ g # Newest /\ Newest \in Generations /\ Newest \in Gens
    <2>1. g \in Gens /\ g \in Generations /\ g # current /\ Newest - g >= Keep
      BY DoomedAreOld
    <2>2. Newest \in Nat /\ g \in Nat \ {0} /\ Keep \in Nat \ {0}
      BY <2>1, NewestIsLargest, BoundsAssumption DEF Gens
    <2>3. g # Newest /\ Newest # 0
      BY <2>1, <2>2
    <2> QED
      BY <2>1, <2>3, NewestIsLargest DEF Generations
  <1>3. PICK d : /\ dirs' = [dirs EXCEPT ![g] = d] /\ d \in Directory
                 /\ d.state # "whole"
    <2> DEFINE e == IF dirs[g].state = "whole" THEN [dirs[g] EXCEPT !.state = "torn"] ELSE None
    <2>1. dirs' = [dirs EXCEPT ![g] = e]
      BY <1>1 DEF Reap
    <2>2. None \in Directory /\ None.state = "none"
      BY BoundsAssumption DEF None, Empty, Directory, Store
    <2>3. e \in Directory /\ e.state # "whole"
      BY <1>2, <2>2 DEF TypeOK, Directory
    <2> HIDE DEF e
    <2> QED
      BY <2>1, <2>3
  <1>4. dirs'[g] = d /\ \A h \in Gens : h # g => dirs'[h] = dirs[h]
    BY <1>2, <1>3 DEF TypeOK
  <1>5. /\ loader.pc = "reaping" /\ UNCHANGED <<tmp, current, live, opened, loader, late, site>>
        /\ current = Newest
    BY DEF Reap, LoaderAt, LoaderHasItsNumber
  <1>6. Generations' \subseteq Generations /\ Newest \in Generations'
    BY <1>2, <1>4 DEF Generations
  <1>7. Newest' = Newest
    <2>1. Generations' \subseteq Nat /\ \A h \in Generations' : Newest >= h
      BY <1>6, NewestIsLargest, BoundsAssumption DEF Generations, Gens
    <2>2. Max(Generations') = Newest
      BY <1>6, <2>1, MaxIsLargest
    <2> QED
      BY <1>6, <2>2 DEF Newest
  <1>8. TypeOK'
    <2>1. dirs' \in [Gens -> Directory]
      BY <1>2, <1>3 DEF TypeOK
    <2> QED
      BY <1>5, <2>1 DEF TypeOK
  <1>9. CurrentIsWhole' /\ LoaderHasItsNumber' /\ LoadsAreCarried'
    <2>1. dirs'[Newest] = dirs[Newest]
      BY <1>2, <1>4
    <2> QED
      BY <1>5, <1>7, <2>1 DEF CurrentIsWhole, LoaderHasItsNumber, LoadsAreCarried
  <1>10. ReadersHaveTime'
    <2> SUFFICES ASSUME NEW h \in {site.want, site.has} \ {0}, Newest - h < Keep
                 PROVE  dirs'[h].state = "whole"
      BY <1>5, <1>7 DEF ReadersHaveTime
    <2>1. h \in Gens /\ h # g
      BY <1>2, PublishedIsThere, NewestIsLargest, BoundsAssumption DEF Gens
    <2> QED
      BY <1>4, <2>1 DEF ReadersHaveTime
  <1>11. GenerationsAreReaped'
    <2>1. Generations \in SUBSET Gens /\ Generations' \in SUBSET Gens
      BY DEF Generations
    <2>2. Cardinality(Generations') <= Cardinality(Generations)
      BY <1>6, <2>1, GensAreFinite, FS_Subset
    <2>3. Cardinality(Generations') \in Nat /\ Cardinality(Generations) \in Nat
          /\ Keep \in Nat /\ late \in Nat
      BY <2>1, GensAreFinite, BoundsAssumption DEF TypeOK
    <2> QED
      BY <1>5, <2>2, <2>3 DEF GenerationsAreReaped
  <1>12. SiteFollows' /\ LateOnesAreNumbered'
    BY <1>5, <1>7 DEF SiteFollows, LateOnesAreNumbered, Publishing
  <1> QED
    BY <1>8, <1>9, <1>10, <1>11, <1>12

\* With nothing doomed the generations are the newest Keep.
LEMMA FinishKeeps ==
  ASSUME Standing, Finish
  PROVE  Standing'
  <1> USE DEF Standing, GenerationsAreKept
  <1>1. /\ loader.pc = "reaping" /\ loader'.pc = "away" /\ loader'.gen = loader.gen
        /\ loader' \in [pc : {"away"}, gen : 0..MaxGen]
        /\ Doomed = {} /\ late' = 0 /\ current = Newest /\ Newest # 0
        /\ UNCHANGED <<dirs, tmp, current, live, opened, site>>
    BY DEF Finish, LoaderAt, LoaderGoes, LoaderHasItsNumber, TypeOK
  <1>2. Generations' = Generations /\ Newest' = Newest
    BY <1>1, SameDirectories
  <1>3. Cardinality(Generations) <= Keep /\ Cardinality(Generations) \in Nat
    <2>1. /\ Generations \in SUBSET Nat /\ IsFiniteSet(Generations)
          /\ Cardinality(Generations) \in Nat /\ Keep \in Nat \ {0}
      BY GensAreFinite, BoundsAssumption DEF Generations
    <2>2. Newest \in Generations
      BY <1>1, NewestIsLargest
    <2>3. Above(Generations, Newest) = {}
      <3>1. \A h \in Generations : h \in Nat /\ Newest \in Nat /\ h <= Newest
        BY <2>1, <2>2, NewestIsLargest
      <3>2. \A h \in Generations : ~(h > Newest)
        BY <3>1
      <3> QED
        BY <3>2 DEF Above
    <2>4. Cardinality(Above(Generations, Newest)) < Keep
      BY <2>1, <2>3, FS_EmptySet
    <2>5. Generations \subseteq {g \in Generations : Cardinality(Above(Generations, g)) < Keep}
      BY <1>1, <2>4 DEF Doomed, Kept, Above
    <2>6. Generations = {g \in Generations : Cardinality(Above(Generations, g)) < Keep}
      BY <2>5
    <2> QED
      BY <2>1, <2>6, FewAreNewest
  <1>4. TypeOK'
    BY <1>1, BoundsAssumption DEF TypeOK
  <1>5. CurrentIsWhole' /\ ReadersHaveTime' /\ SiteFollows'
    BY <1>1, <1>2 DEF CurrentIsWhole, ReadersHaveTime, SiteFollows
  <1>6. GenerationsAreReaped' /\ LateOnesAreNumbered'
    <2>1. Keep \in Nat /\ Newest \in Nat
      BY BoundsAssumption, NewestIsLargest
    <2> QED
      BY <1>1, <1>2, <1>3, <2>1 DEF GenerationsAreReaped, LateOnesAreNumbered, Publishing
  <1>7. LoaderHasItsNumber' /\ LoadsAreCarried'
    BY <1>1, <1>2 DEF LoaderHasItsNumber, LoadsAreCarried
  <1> QED
    BY <1>4, <1>5, <1>6, <1>7

LEMMA AbandonKeeps ==
  ASSUME Standing, Abandon
  PROVE  Standing'
  <1> USE DEF Standing, GenerationsAreKept
  <1>1. /\ loader'.pc = "away" /\ loader' \in [pc : {"away"}, gen : 0..MaxGen]
        /\ late' = late + Publishing /\ late \in Nat /\ Publishing \in {0, 1}
        /\ UNCHANGED <<dirs, tmp, current, live, opened, site>>
    BY BoundsAssumption DEF Abandon, LoaderGoes, TypeOK, Publishing
  <1>2. Generations' = Generations /\ Newest' = Newest
    BY <1>1, SameDirectories
  <1>3. late' <= Newest /\ late' \in 0..MaxGen
    BY <1>1, NewestIsLargest, BoundsAssumption DEF LateOnesAreNumbered
  <1>4. TypeOK'
    BY <1>1, <1>3 DEF TypeOK
  <1>5. CurrentIsWhole' /\ ReadersHaveTime' /\ SiteFollows'
    BY <1>1, <1>2 DEF CurrentIsWhole, ReadersHaveTime, SiteFollows
  <1>6. GenerationsAreReaped' /\ LateOnesAreNumbered'
    <2>1. /\ Keep \in Nat /\ Newest \in Nat /\ Cardinality(Generations) \in Nat
          /\ Cardinality(Generations) <= Keep + late + Publishing /\ Publishing' = 0
      BY <1>1, BoundsAssumption, NewestIsLargest, GensAreFinite
        DEF GenerationsAreReaped, Publishing, Generations
    <2> QED
      BY <1>1, <1>2, <1>3, <2>1 DEF GenerationsAreReaped, LateOnesAreNumbered
  <1>7. LoaderHasItsNumber' /\ LoadsAreCarried'
    BY <1>1, <1>2 DEF LoaderHasItsNumber, LoadsAreCarried
  <1> QED
    BY <1>4, <1>5, <1>6, <1>7

----------------------------------------------------------------------------
(***************************************************************************)
(* The steps of the site, which touch nothing of the loader's.             *)
(***************************************************************************)
SiteStep == Start \/ Follow \/ WarmFails \/ Swap \/ SiteStops

LEMMA SiteKeeps ==
  ASSUME Standing, SiteStep
  PROVE  Standing' /\ site'.has >= site.has
  <1> USE DEF Standing, GenerationsAreKept
  <1>1. UNCHANGED <<dirs, tmp, current, live, opened, loader, late>>
    BY DEF SiteStep, Start, Follow, StartOpened, StartFails, Refresh, Open, OpenFails,
           WarmFails, Swap, SiteStops
  <1>2. Generations' = Generations /\ Newest' = Newest
    BY <1>1, SameDirectories
  <1> DEFINE Want == site'.want \in {0, site.want, current}
             Has == site'.has = site.has
                    \/ (site'.has = site.want /\ site.has <= site.want)
             Opening == site'.pc \in {"starting", "opening", "warming"} =>
                          /\ site'.has = site.has
                          /\ site'.want = current
                             \/ (site'.want = site.want /\ site.has <= site.want)
             Typed == site' \in [pc : {"down", "starting", "serving", "opening", "warming"},
                                want : {0, site.want, current}, has : {site.has, site.want}]
  <1>3. Want /\ Has /\ Opening /\ Typed
    <2>0. site \in [pc : {"down", "starting", "serving", "opening", "warming"},
                   want : 0..MaxGen, has : 0..MaxGen]
      BY DEF TypeOK
    <2>1. CASE Start \/ Refresh
      BY <2>0, <2>1 DEF Start, Refresh
    <2>2. CASE StartOpened \/ Swap
      BY <2>0, <2>2 DEF StartOpened, Swap, SiteFollows
    <2>3. CASE StartFails \/ OpenFails \/ WarmFails \/ SiteStops
      BY <2>0, <2>3 DEF StartFails, OpenFails, WarmFails, SiteStops
    <2>4. CASE Open
      BY <2>0, <2>4 DEF Open, SiteFollows
    <2> QED
      BY <2>1, <2>2, <2>3, <2>4 DEF SiteStep, Follow
  <1>4. current \in Nat /\ site.want \in 0..current /\ site.has \in 0..current /\ current \in 0..MaxGen
    BY PublishedIsThere DEF TypeOK
  <1>5. TypeOK'
    BY <1>1, <1>3, <1>4, BoundsAssumption DEF TypeOK
  <1>6. SiteFollows' /\ site'.has >= site.has
    BY <1>1, <1>3, <1>4 DEF SiteFollows
  <1>7. CurrentIsWhole' /\ GenerationsAreReaped' /\ LateOnesAreNumbered'
        /\ LoaderHasItsNumber' /\ LoadsAreCarried'
    BY <1>1, <1>2 DEF CurrentIsWhole, GenerationsAreReaped, LateOnesAreNumbered,
                      Publishing, LoaderHasItsNumber, LoadsAreCarried
  <1>8. ReadersHaveTime'
    <2> SUFFICES ASSUME NEW g \in {site'.want, site'.has} \ {0}, Newest - g < Keep
                 PROVE  dirs[g].state = "whole"
      BY <1>1, <1>2 DEF ReadersHaveTime
    <2>1. g \in {site.want, site.has} \ {0} \/ (g = current /\ current # 0)
      BY <1>3
    <2> QED
      BY <2>1 DEF ReadersHaveTime, CurrentIsWhole
  <1> QED
    BY <1>5, <1>6, <1>7, <1>8

----------------------------------------------------------------------------
LEMMA StandingStep ==
  ASSUME Standing, [Next]_vars
  PROVE  Standing'
  <1>1. CASE Load \/ Stamp \/ Backup \/ Refuse
    BY <1>1, LoaderKeeps
  <1>2. CASE Name
    BY <1>2, NameKeeps
  <1>3. CASE Point
    BY <1>3, PointKeeps
  <1>4. CASE Reap
    BY <1>4, ReapKeeps
  <1>5. CASE Finish
    BY <1>5, FinishKeeps
  <1>6. CASE Abandon
    BY <1>6, AbandonKeeps
  <1>7. CASE SiteStep
    BY <1>7, SiteKeeps
  <1>8. CASE UNCHANGED vars
    <2>1. UNCHANGED <<dirs, tmp, current, live, opened, loader, late, site>>
      BY <1>8 DEF vars
    <2>2. Generations' = Generations /\ Newest' = Newest
      BY <2>1, SameDirectories
    <2> QED
      BY <2>1, <2>2
        DEF Standing, GenerationsAreKept, TypeOK, CurrentIsWhole, ReadersHaveTime,
            GenerationsAreReaped, LoaderHasItsNumber, LoadsAreCarried, SiteFollows,
            LateOnesAreNumbered, Publishing
  <1> QED
    BY <1>1, <1>2, <1>3, <1>4, <1>5, <1>6, <1>7, <1>8 DEF Next, Publish, SiteStep

LEMMA AlwaysStanding == Spec => []Standing
  <1>1. Init => Standing
    BY StandingInit
  <1>2. Standing /\ [Next]_vars => Standing'
    BY StandingStep
  <1> QED
    BY <1>1, <1>2, PTL DEF Spec

(***************************************************************************)
(* What a reader may come for is there and whole however the loader's and  *)
(* the site's steps fall, and the generations do not pile up.              *)
(***************************************************************************)
THEOREM ReadersFindTheirGeneration == Spec => []GenerationsAreKept
  <1>1. Standing => GenerationsAreKept
    BY DEF Standing
  <1> QED
    BY <1>1, AlwaysStanding, PTL

\* What is published now is older than the next, and no load of it is missing there.
LEMMA PublishingForgetsNothing ==
  ASSUME Standing, [Next]_vars
  PROVE  /\ current' >= current
         /\ current # 0 => dirs'[current'].store.loads >= dirs[current].store.loads
  <1> USE DEF Standing, GenerationsAreKept
  <1>0. /\ current \in Nat /\ current <= Newest /\ Newest \in Nat
        /\ current # 0 => dirs[current].store.loads \in Nat
    BY PublishedIsThere DEF TypeOK, Directory, Store, CurrentIsWhole, Generations, Gens
  <1>1. CASE Point
    <2>1. /\ loader.pc = "named" /\ current' = Newest /\ dirs' = dirs
          /\ opened.loads \in Nat /\ dirs[Newest].store.loads \in Nat
      BY <1>1, NewestIsLargest
        DEF Point, LoaderAt, LoaderHasItsNumber, TypeOK, Directory, Store, Gens
    <2>2. current # 0 => dirs[current].store.loads <= opened.loads
      BY <2>1 DEF LoadsAreCarried
    <2>3. opened.loads <= dirs[Newest].store.loads
      BY <2>1 DEF LoadsAreCarried
    <2> QED
      BY <1>0, <2>1, <2>2, <2>3
  <1>2. CASE Name
    <2>1. current # 0 => current # loader.gen
      BY <1>0, <1>2 DEF Name, LoaderAt, LoaderHasItsNumber
    <2>2. current' = current /\ current # 0 => dirs'[current] = dirs[current]
      BY <1>2, <2>1 DEF Name, TypeOK, Gens
    <2> QED
      BY <1>0, <1>2, <2>1, <2>2 DEF Name, TypeOK, Gens
  <1>3. CASE Reap
    <2>1. Doomed \subseteq 0..MaxGen /\ Doomed # {} /\ MaxGen \in Nat
      BY <1>3, BoundsAssumption DEF Reap, Doomed, Generations, Gens
    <2>2. PICK d \in Doomed : \A h \in Doomed : d <= h
      BY <2>1, HasSmallest
    <2>3. Min(Doomed) \in Doomed
      BY <2>2 DEF Min
    <2>4. Min(Doomed) # current
      BY <2>3 DEF Doomed, Kept
    <2> QED
      BY <1>0, <1>3, <2>4 DEF Reap, TypeOK, Gens
  <1>4. CASE Load \/ Stamp \/ Backup \/ Refuse \/ Finish \/ Abandon \/ SiteStep \/ UNCHANGED vars
    <2>1. UNCHANGED <<dirs, current>>
      BY <1>4 DEF Load, Stamp, Backup, Refuse, Finish, Abandon, SiteStep, Start, Follow,
                  StartOpened, StartFails, Refresh, Open, OpenFails, WarmFails, Swap,
                  SiteStops, vars
    <2> QED
      BY <1>0, <2>1
  <1> QED
    BY <1>1, <1>2, <1>3, <1>4 DEF Next, Publish, SiteStep

LEMMA SiteNeverGoesBack ==
  ASSUME Standing, [Next]_vars
  PROVE  site'.has >= site.has
  <1>1. CASE SiteStep
    BY <1>1, SiteKeeps
  <1>2. CASE ~SiteStep
    <2>1. site' = site
      BY <1>2 DEF Next, Publish, SiteStep, Load, Stamp, Backup, Name, Refuse, Point, Reap,
                  Finish, Abandon, vars
    <2> QED
      BY <2>1, PublishedIsThere
  <1> QED
    BY <1>1, <1>2

(***************************************************************************)
(* CURRENT only moves on, to a store that holds every load the last held,  *)
(* and the site follows it in that direction only, restarts included.      *)
(***************************************************************************)
THEOREM ServedIsKept == Spec => NothingServedIsTakenBack
  <1>1. Standing /\ [Next]_vars =>
          [/\ current' >= current
           /\ current # 0 => dirs'[current'].store.loads >= dirs[current].store.loads
           /\ site'.has >= site.has]_vars
    BY PublishingForgetsNothing, SiteNeverGoesBack
  <1> QED
    BY <1>1, AlwaysStanding, PTL DEF Spec, NothingServedIsTakenBack
=============================================================================
