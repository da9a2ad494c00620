--------------------- MODULE WorkspaceCollectionProofs ---------------------
(***************************************************************************)
(* What a snapshot says of itself is true, for every request and whatever  *)
(* the account holds: any number of regions, pages and items, any limit,   *)
(* and any read that fails.                                                *)
(*                                                                         *)
(* The argument: a drain that is not truncated maps every item that was    *)
(* listed (NothingIsLeft), so by induction over the regions a loop that    *)
(* neither raised nor left anything holds all that the regions read hold,  *)
(* and only its limit can have stopped it before the last one              *)
(* (LoopIsSound).  The induction is a least counterexample: a set of       *)
(* naturals that is not empty has a least element (LeastNatural).          *)
(***************************************************************************)
EXTENDS WorkspaceCollection, WellFoundedInduction, FiniteSetTheorems, TLAPS

-----------------------------------------------------------------------------
(* Least elements. *)

LEMMA LeastNatural ==
    ASSUME NEW S \in SUBSET Nat, S # {}
    PROVE  \E n \in S : \A m \in S : n <= m
<1> DEFINE R == {ss \in Nat \X Nat : ss[1] < ss[2]}
<1>1. IsWellFoundedOn(R, Nat)
  BY NatLessThanWellFounded DEF OpToRel
<1>2. \A T : T \subseteq Nat /\ T # {} => \E n \in T : \A m \in T : ~(<<m, n>> \in R)
  BY <1>1, WFMin
<1>3. PICK n \in S : \A m \in S : ~(<<m, n>> \in R)
  BY <1>2
<1>4. ASSUME NEW m \in S PROVE n <= m
  <2>1. m \in Nat /\ n \in Nat
    OBVIOUS
  <2>2. ~(<<m, n>> \in R)
    BY <1>3
  <2>3. ~(m < n)
    BY <2>1, <2>2
  <2> QED
    BY <2>1, <2>3
<1> QED
  BY <1>4

LEMMA MinIsLeast ==
    ASSUME NEW S \in SUBSET Nat, S # {}
    PROVE  Min(S) \in S /\ \A m \in S : Min(S) <= m
BY LeastNatural DEF Min

-----------------------------------------------------------------------------
(* One drain. *)

(* The loop over the items stops at the limit, and only there. *)
LEMMA MappingStopsAtTheLimit ==
    ASSUME NEW items, NEW listed \in Nat, NEW remaining
    PROVE  LET k == ItemsMapped(items, listed, remaining)
           IN  /\ k \in 0 .. listed
               /\ k = listed \/ (k \in 1 .. listed /\ Cardinality(Parsed(items, k)) >= remaining)
               /\ \A j \in 1 .. listed : Cardinality(Parsed(items, j)) >= remaining => k <= j
<1> DEFINE S == {k \in 1 .. listed : Cardinality(Parsed(items, k)) >= remaining} \cup {listed}
<1>1. S \in SUBSET Nat /\ S # {}
  OBVIOUS
<1>2. Min(S) \in S /\ \A m \in S : Min(S) <= m
  <2> HIDE DEF S
  <2> QED
    BY <1>1, MinIsLeast
<1>3. ItemsMapped(items, listed, remaining) = Min(S)
  BY DEF ItemsMapped
<1> DEFINE k == ItemsMapped(items, listed, remaining)
<1>4. k \in S /\ \A j \in S : k <= j
  BY <1>2, <1>3
<1> HIDE DEF k
<1>5. k = listed \/ (k \in 1 .. listed /\ Cardinality(Parsed(items, k)) >= remaining)
  BY <1>4
<1>6. k \in 0 .. listed
  BY <1>5
<1>7. \A j \in 1 .. listed : Cardinality(Parsed(items, j)) >= remaining => k <= j
  BY <1>4
<1> QED
  BY <1>5, <1>6, <1>7 DEF k

(* Pages are pulled up to the limit, and only so far. *)
LEMMA PullingStopsAtTheLimit ==
    ASSUME NEW type, NEW region, IsRegion(region, type), NEW remaining
    PROVE  LET n == PagesPulled(region, remaining)
           IN  /\ n \in DOMAIN region.ends
               /\ \/ n = Len(region.ends)
                  \/ Cardinality(Parsed(region.items, region.ends[n])) >= remaining
<1> DEFINE S == {n \in DOMAIN region.ends :
                    Cardinality(Parsed(region.items, region.ends[n])) >= remaining}
                    \cup {Len(region.ends)}
<1>1. /\ DOMAIN region.ends = 1 .. Len(region.ends)
      /\ Len(region.ends) \in Nat \ {0}
  BY DEF IsRegion
<1>2. S \in SUBSET Nat /\ S # {}
  BY <1>1
<1>3. Min(S) \in S
  <2> HIDE DEF S
  <2> QED
    BY <1>2, MinIsLeast
<1>4. PagesPulled(region, remaining) = Min(S)
  BY DEF PagesPulled
<1> QED
  BY <1>1, <1>3, <1>4

(* A drain that is not truncated mapped every item of its region. *)
LEMMA NothingIsLeft ==
    ASSUME NEW type, NEW region, IsRegion(region, type), NEW remaining,
           ~CollectItems(region, remaining).truncated
    PROVE  CollectItems(region, remaining).records = Parsed(region.items, Len(region.items))
<1> DEFINE n == PagesPulled(region, remaining)
           k == ItemsMapped(region.items, region.ends[n], remaining)
           atLimit == Cardinality(Parsed(region.items, k)) >= remaining
<1>1. /\ n \in DOMAIN region.ends
      /\ n = Len(region.ends) \/ Cardinality(Parsed(region.items, region.ends[n])) >= remaining
  BY PullingStopsAtTheLimit
<1>2. /\ DOMAIN region.ends = 1 .. Len(region.ends)
      /\ Len(region.ends) \in Nat
      /\ region.ends[n] \in Nat
      /\ region.ends[Len(region.ends)] = Len(region.items)
  BY <1>1 DEF IsRegion
<1>3. k \in 0 .. region.ends[n] /\ (k = region.ends[n] \/ atLimit)
  BY <1>2, MappingStopsAtTheLimit
<1>4. CollectItems(region, remaining).records = Parsed(region.items, k)
  BY DEF CollectItems
<1>5. ~(atLimit /\ (k < region.ends[n] \/ n < Len(region.ends)))
  BY DEF CollectItems, LeftBehind
<1> HIDE DEF n, k, atLimit
<1>6. k = region.ends[n]
  BY <1>2, <1>3, <1>5
<1>7. n = Len(region.ends)
  BY <1>1, <1>2, <1>5, <1>6 DEF atLimit
<1> QED
  BY <1>2, <1>4, <1>6, <1>7

(* The records of a drain are among the items, and can be read. *)
LEMMA RecordsAreOfTheRegion ==
    ASSUME NEW type, NEW region, IsRegion(region, type), NEW remaining
    PROVE  CollectItems(region, remaining).records \subseteq Parsed(region.items, Len(region.items))
<1> DEFINE n == PagesPulled(region, remaining)
           k == ItemsMapped(region.items, region.ends[n], remaining)
<1>1. n \in DOMAIN region.ends
  BY PullingStopsAtTheLimit
<1>2. region.ends[n] \in 0 .. Len(region.items) /\ Len(region.items) \in Nat
  BY <1>1 DEF IsRegion
<1>3. k \in 0 .. region.ends[n]
  BY <1>2, MappingStopsAtTheLimit
<1>4. CollectItems(region, remaining).records = Parsed(region.items, k)
  BY DEF CollectItems
<1> HIDE DEF k, n
<1> QED
  BY <1>2, <1>3, <1>4 DEF Parsed

-----------------------------------------------------------------------------
(* The loop over regions. *)

(* f is the loop, turn by turn, over the first n regions. *)
IsLoop(f, n, regions, limit, type) ==
    f = [r \in 0 .. n |->
            IF r = 0 THEN Unread ELSE CollectRegion(f[r - 1], regions, r, limit, type)]

LEMMA LoopExists ==
    ASSUME NEW regions, NEW limit, NEW type
    PROVE  \A n \in Nat : \E f : IsLoop(f, n, regions, limit, type)
<1> DEFINE Bad == {n \in Nat : ~\E f : IsLoop(f, n, regions, limit, type)}
<1> SUFFICES ASSUME Bad # {} PROVE FALSE
  OBVIOUS
<1>1. PICK n \in Bad : \A m \in Bad : n <= m
  <2> HIDE DEF Bad
  <2>1. Bad \subseteq Nat
    BY DEF Bad
  <2> QED
    BY <2>1, LeastNatural
<1>2. n \in Nat /\ ~\E f : IsLoop(f, n, regions, limit, type)
  OBVIOUS
<1>3. n # 0
  <2>1. IsLoop([r \in 0 .. 0 |-> Unread], 0, regions, limit, type)
    BY DEF IsLoop
  <2> QED
    BY <1>2, <2>1
<1>4. n - 1 \in Nat /\ ~(n - 1 \in Bad)
  <2> HIDE DEF Bad
  <2> QED
    BY <1>1, <1>2, <1>3
<1>5. PICK f : IsLoop(f, n - 1, regions, limit, type)
  BY <1>4
<1> DEFINE g == [r \in 0 .. n |->
                    IF r = n THEN CollectRegion(f[n - 1], regions, n, limit, type) ELSE f[r]]
<1>6. ASSUME NEW r \in 0 .. n
      PROVE  g[r] = IF r = 0 THEN Unread ELSE CollectRegion(g[r - 1], regions, r, limit, type)
  <2>1. CASE r = n
    <3>1. g[r - 1] = f[n - 1]
      BY <1>2, <1>3, <2>1
    <3> QED
      BY <1>3, <2>1, <3>1
  <2>2. CASE r # n
    <3>1. r \in 0 .. n - 1 /\ g[r] = f[r]
      BY <1>2, <2>2
    <3>2. f[r] = IF r = 0 THEN Unread ELSE CollectRegion(f[r - 1], regions, r, limit, type)
      BY <1>5, <3>1 DEF IsLoop
    <3>3. r # 0 => g[r - 1] = f[r - 1]
      BY <1>2, <3>1
    <3> QED
      BY <3>1, <3>2, <3>3
  <2> QED
    BY <2>1, <2>2
<1>7. IsLoop(g, n, regions, limit, type)
  BY <1>6, Zenon DEF IsLoop
<1> QED
  BY <1>2, <1>7

(* What CollectRegions returns is the last turn of the loop. *)
LEMMA CollectRegionsIsTheLoop ==
    ASSUME NEW regions, Len(regions) \in Nat, NEW limit, NEW type
    PROVE  \E f : /\ IsLoop(f, Len(regions), regions, limit, type)
                  /\ CollectRegions(regions, limit, type) = f[Len(regions)]
<1>1. \E f : IsLoop(f, Len(regions), regions, limit, type)
  BY LoopExists
<1> DEFINE after[r \in 0 .. Len(regions)] ==
              IF r = 0 THEN Unread ELSE CollectRegion(after[r - 1], regions, r, limit, type)
<1>2. IsLoop(after, Len(regions), regions, limit, type)
  BY <1>1 DEF IsLoop
<1>3. CollectRegions(regions, limit, type) = after[Len(regions)]
  BY DEF CollectRegions
<1> QED
  BY <1>2, <1>3

(* After r turns: if nothing raised and nothing is known to be left, what  *)
(* is held is all that the regions read hold; only a failing read or the   *)
(* limit ends the loop before its last region; and what is held was listed *)
(* and could be read.                                                      *)
SoundSoFar(so_far, r, regions, limit, type) ==
    /\ so_far.regions \in 0 .. r
    /\ \/ so_far.raised
       \/ so_far.regions = r
       \/ Cardinality(so_far.records) >= limit
    /\ ~so_far.raised /\ ~so_far.truncated => so_far.records = Held(regions, so_far.regions)
    /\ \A record \in so_far.records : record.item \in Items(type) /\ Parses(record.item)

LEMMA OneRegionMore ==
    ASSUME NEW regions, NEW r \in Nat \ {0}
    PROVE  Held(regions, r) = Held(regions, r - 1) \cup Everything(regions[r].items, r)
BY 1 .. r = (1 .. r - 1) \cup {r} DEF Held

LEMMA RegionItems ==
    ASSUME NEW type, NEW regions, AreRegions(regions, type), NEW r \in 1 .. Len(regions)
    PROVE  IsRegion(regions[r], type)
BY DEF AreRegions

(* The records of one turn were listed and can be read. *)
LEMMA RecordsOfATurn ==
    ASSUME NEW type, NEW region, IsRegion(region, type), NEW r, NEW remaining,
           NEW record \in RecordsOf(region.items, r, CollectItems(region, remaining).records)
    PROVE  record.item \in Items(type) /\ Parses(record.item)
<1>1. PICK i \in CollectItems(region, remaining).records : record.item = region.items[i]
  BY DEF RecordsOf
<1>2. i \in Parsed(region.items, Len(region.items))
  BY <1>1, RecordsAreOfTheRegion
<1>3. i \in 1 .. Len(region.items) /\ Parses(region.items[i])
  BY <1>2 DEF Parsed
<1>4. region.items[i] \in Items(type)
  BY <1>3 DEF IsRegion
<1> QED
  BY <1>1, <1>3, <1>4

LEMMA TurnIsSound ==
    ASSUME NEW type, NEW regions, AreRegions(regions, type), NEW limit,
           NEW r \in 1 .. Len(regions), NEW so_far,
           SoundSoFar(so_far, r - 1, regions, limit, type)
    PROVE  SoundSoFar(CollectRegion(so_far, regions, r, limit, type), r, regions, limit, type)
<1> DEFINE next == CollectRegion(so_far, regions, r, limit, type)
           remaining == limit - Cardinality(so_far.records)
           read == CollectItems(regions[r], remaining)
           full == Cardinality(so_far.records) >= limit
<1>1. IsRegion(regions[r], type) /\ r \in Nat \ {0}
  BY RegionItems DEF AreRegions
<1>2. CASE so_far.raised \/ full
  <2>1. next = so_far
    BY <1>2 DEF CollectRegion
  <2> QED
    BY <1>1, <1>2, <2>1 DEF SoundSoFar
<1>3. CASE ~(so_far.raised \/ full) /\ ReadRaises(regions[r], remaining, type)
  <2>1. next = [Unread EXCEPT !.raised = TRUE]
    BY <1>3 DEF CollectRegion
  <2> QED
    BY <1>1, <2>1 DEF SoundSoFar, Unread
<1>4. CASE ~(so_far.raised \/ full) /\ ~ReadRaises(regions[r], remaining, type)
  <2>1. next = [records |-> so_far.records \cup RecordsOf(regions[r].items, r, read.records),
                truncated |-> so_far.truncated \/ read.truncated,
                failures |-> so_far.failures \/ read.failures,
                raised |-> FALSE,
                regions |-> r]
    BY <1>4, Zenon DEF CollectRegion
  <2>2. so_far.regions = r - 1
    BY <1>4 DEF SoundSoFar
  <2> HIDE DEF remaining, full
  <2>3. ASSUME ~next.truncated PROVE next.records = Held(regions, r)
    <3>0. next.truncated = (so_far.truncated \/ read.truncated)
      BY <2>1
    <3>1. ~so_far.truncated /\ ~read.truncated
      BY <2>3, <3>0, Zenon
    <3>2. read.records = Parsed(regions[r].items, Len(regions[r].items))
      BY <1>1, <3>1, NothingIsLeft
    <3>3. so_far.records = Held(regions, r - 1)
      BY <1>4, <2>2, <3>1 DEF SoundSoFar
    <3> HIDE DEF read, next
    <3> QED
      BY <1>1, <2>1, <3>2, <3>3, OneRegionMore DEF Everything
  <2>4. ASSUME NEW record \in next.records
        PROVE  record.item \in Items(type) /\ Parses(record.item)
    <3>1. CASE record \in so_far.records
      BY <3>1 DEF SoundSoFar
    <3>2. CASE record \in RecordsOf(regions[r].items, r, read.records)
      BY <1>1, <3>2, RecordsOfATurn
    <3> QED
      BY <2>1, <2>4, <3>1, <3>2
  <2> HIDE DEF next, read
  <2> QED
    BY <1>1, <2>1, <2>3, <2>4 DEF SoundSoFar, next
<1> QED
  BY <1>2, <1>3, <1>4

LEMMA LoopIsSound ==
    ASSUME NEW type, NEW regions, AreRegions(regions, type), NEW limit
    PROVE  SoundSoFar(CollectRegions(regions, limit, type), Len(regions), regions, limit, type)
<1>1. Len(regions) \in Nat
  BY DEF AreRegions
<1>2. PICK f : /\ IsLoop(f, Len(regions), regions, limit, type)
               /\ CollectRegions(regions, limit, type) = f[Len(regions)]
  BY <1>1, CollectRegionsIsTheLoop
<1>3. ASSUME NEW r \in 0 .. Len(regions)
      PROVE  f[r] = IF r = 0 THEN Unread ELSE CollectRegion(f[r - 1], regions, r, limit, type)
  BY <1>2 DEF IsLoop
<1> DEFINE Bad == {r \in 0 .. Len(regions) : ~SoundSoFar(f[r], r, regions, limit, type)}
<1>4. ASSUME Bad # {} PROVE FALSE
  <2>1. PICK r \in Bad : \A m \in Bad : r <= m
    <3>1. Bad \subseteq Nat
      OBVIOUS
    <3> HIDE DEF Bad
    <3> QED
      BY <1>4, <3>1, LeastNatural
  <2>2. r \in 0 .. Len(regions) /\ ~SoundSoFar(f[r], r, regions, limit, type)
    OBVIOUS
  <2>3. CASE r = 0
    <3>1. f[r] = Unread
      BY <1>3, <2>2, <2>3
    <3>2. Held(regions, 0) = {}
      BY DEF Held
    <3> QED
      BY <2>2, <2>3, <3>1, <3>2 DEF SoundSoFar, Unread
  <2>4. CASE r # 0
    <3>1. r \in 1 .. Len(regions) /\ r - 1 \in 0 .. Len(regions)
      BY <1>1, <2>2, <2>4
    <3>2. SoundSoFar(f[r - 1], r - 1, regions, limit, type)
      BY <1>1, <2>1, <3>1
    <3>3. f[r] = CollectRegion(f[r - 1], regions, r, limit, type)
      BY <1>3, <2>2, <2>4
    <3> QED
      BY <2>2, <3>1, <3>2, <3>3, TurnIsSound
  <2> QED
    BY <2>3, <2>4
<1> QED
  BY <1>1, <1>2, <1>4

-----------------------------------------------------------------------------
(* The list of buckets. *)

LEMMA ParsedIsFinite ==
    ASSUME NEW items, NEW k \in Nat
    PROVE  /\ IsFiniteSet(Parsed(items, k))
           /\ Cardinality(Parsed(items, k)) \in Nat
           /\ Cardinality(Parsed(items, k)) <= k
<1>1. IsFiniteSet(1 .. k) /\ Cardinality(1 .. k) = k
  BY FS_Interval
<1>2. Parsed(items, k) \subseteq 1 .. k
  BY DEF Parsed
<1> QED
  BY <1>1, <1>2, FS_Subset, FS_CardinalityType

(* One more item is at most one more record. *)
LEMMA OneItemMore ==
    ASSUME NEW items, NEW k \in Nat \ {0}
    PROVE  Cardinality(Parsed(items, k)) <= Cardinality(Parsed(items, k - 1)) + 1
<1>1. /\ IsFiniteSet(Parsed(items, k - 1))
      /\ Cardinality(Parsed(items, k - 1)) \in Nat
  BY ParsedIsFinite
<1>2. /\ IsFiniteSet(Parsed(items, k - 1) \cup {k})
      /\ Cardinality(Parsed(items, k - 1) \cup {k}) <= Cardinality(Parsed(items, k - 1)) + 1
  BY <1>1, FS_AddElement
<1>3. Parsed(items, k) \subseteq Parsed(items, k - 1) \cup {k}
  BY DEF Parsed
<1>4. Cardinality(Parsed(items, k)) <= Cardinality(Parsed(items, k - 1) \cup {k})
  BY <1>2, <1>3, FS_Subset
<1>5. /\ Cardinality(Parsed(items, k)) \in Nat
      /\ Cardinality(Parsed(items, k - 1) \cup {k}) \in Nat
  BY <1>2, ParsedIsFinite, FS_CardinalityType
<1> QED
  BY <1>1, <1>2, <1>4, <1>5

(* The limit cuts the list where as many buckets have a name. *)
LEMMA TheLimitIsMetExactly ==
    ASSUME NEW items, NEW listed \in Nat, NEW limit \in Nat \ {0},
           ItemsMapped(items, listed, limit) # listed
    PROVE  Cardinality(Parsed(items, ItemsMapped(items, listed, limit))) = limit
<1> DEFINE k == ItemsMapped(items, listed, limit)
<1>1. /\ k \in 1 .. listed /\ Cardinality(Parsed(items, k)) >= limit
      /\ \A j \in 1 .. listed : Cardinality(Parsed(items, j)) >= limit => k <= j
  BY MappingStopsAtTheLimit
<1> HIDE DEF k
<1>2. Cardinality(Parsed(items, k - 1)) < limit
  <2>1. CASE k = 1
    <3>1. Parsed(items, 0) = {}
      BY DEF Parsed
    <3> QED
      BY <2>1, <3>1, FS_EmptySet
  <2>2. CASE k # 1
    <3>1. k - 1 \in 1 .. listed /\ ~(k <= k - 1)
      BY <1>1, <2>2
    <3>2. Cardinality(Parsed(items, k - 1)) \in Nat
      BY <3>1, ParsedIsFinite
    <3> QED
      BY <1>1, <3>1, <3>2
  <2> QED
    BY <2>1, <2>2
<1>3. /\ Cardinality(Parsed(items, k)) \in Nat
      /\ Cardinality(Parsed(items, k - 1)) \in Nat
      /\ Cardinality(Parsed(items, k)) <= Cardinality(Parsed(items, k - 1)) + 1
  BY <1>1, ParsedIsFinite, OneItemMore
<1> QED
  BY <1>1, <1>2, <1>3 DEF k

LEMMA BucketsAreSound ==
    ASSUME NEW buckets \in Seq(Items("s3_bucket")), NEW limit \in Nat \ {0},
           NEW read, read = CollectBuckets(buckets, limit)
    PROVE  /\ ~read.truncated => read.records = Everything(buckets, 1)
           /\ \A record \in read.records : record.item \in Items("s3_bucket") /\ Parses(record.item)
<1> DEFINE k == ItemsMapped(buckets, Len(buckets), limit)
           records == Parsed(buckets, k)
<1>1. /\ k \in 0 .. Len(buckets)
      /\ k # Len(buckets) => Cardinality(records) = limit
  BY MappingStopsAtTheLimit, TheLimitIsMetExactly
<1>2. /\ read.records = RecordsOf(buckets, 1, records)
      /\ read.truncated = (Cardinality(records) = limit /\ Len(buckets) > limit)
  BY DEF CollectBuckets, Unread
<1> HIDE DEF k
<1>3. ASSUME ~read.truncated PROVE read.records = Everything(buckets, 1)
  <2>1. CASE k = Len(buckets)
    BY <1>2, <2>1 DEF Everything
  <2>2. CASE k # Len(buckets)
    <3>1. Cardinality(records) = limit /\ ~(Len(buckets) > limit)
      BY <1>1, <1>2, <1>3, <2>2
    <3>2. Cardinality(records) <= k
      BY <1>1, ParsedIsFinite
    <3> QED
      BY <1>1, <2>2, <3>1, <3>2
  <2> QED
    BY <2>1, <2>2
<1>4. ASSUME NEW record \in read.records
      PROVE  record.item \in Items("s3_bucket") /\ Parses(record.item)
  <2>1. PICK i \in records : record.item = buckets[i]
    BY <1>2 DEF RecordsOf
  <2>2. i \in 1 .. Len(buckets) /\ Parses(buckets[i])
    BY <1>1, <2>1 DEF Parsed
  <2> QED
    BY <2>1, <2>2
<1> QED
  BY <1>3, <1>4

-----------------------------------------------------------------------------
(* The snapshot. *)

(* A request for one region reads that region: as far as its client goes. *)
LEMMA AddressableRegions ==
    ASSUME NEW type, NEW regions, AreRegions(regions, type), NEW all \in BOOLEAN
    PROVE  /\ AreRegions(Addressable(regions, all), type)
           /\ all \/ ~(Len(regions) > 1) => Addressable(regions, all) = regions
<1>1. CASE all
  BY <1>1 DEF Addressable
<1>2. CASE ~all
  <2> DEFINE first == SubSeq(regions, 1, 1)
  <2>1. Addressable(regions, all) = first
    BY <1>2 DEF Addressable
  <2>2. /\ regions \in Seq({regions[r] : r \in DOMAIN regions}) \ {<<>>}
        /\ \A r \in DOMAIN regions : IsRegion(regions[r], type)
    BY DEF AreRegions
  <2>3. DOMAIN regions = 1 .. Len(regions) /\ Len(regions) \in Nat \ {0}
    BY <2>2
  <2>4. first = [i \in 1 .. 1 |-> regions[i]]
    BY <2>2, <2>3
  <2>5. first \in Seq({first[r] : r \in DOMAIN first}) /\ Len(first) = 1
    BY <2>4
  <2>6. ASSUME NEW r \in DOMAIN first PROVE IsRegion(first[r], type)
    BY <2>2, <2>3, <2>4
  <2>7. AreRegions(first, type)
    BY <2>5, <2>6 DEF AreRegions
  <2>8. ~(Len(regions) > 1) => first = regions
    BY <2>2, <2>3, <2>4
  <2> QED
    BY <1>2, <2>1, <2>7, <2>8
<1> QED
  BY <1>1, <1>2

(* The records of a collection were listed and can be read. *)
LEMMA RecordsAreReadable ==
    ASSUME NEW request, IsRequest(request), NEW account, IsAccount(account),
           NEW type \in ResourceTypes,
           NEW record \in Snapshot(request, account).resources[type].records
    PROVE  record.item \in Items(type) /\ Parses(record.item)
<1> DEFINE read == Collections(request, account)
<1>1. Snapshot(request, account).resources = read
  BY DEF Snapshot
<1>2. CASE type = "s3_bucket"
  <2>1. record \in CollectBuckets(account.buckets, request.limit).records
    BY <1>1, <1>2 DEF Collections, Unread
  <2> QED
    BY <1>2, <2>1, BucketsAreSound DEF IsRequest, IsAccount
<1>3. CASE type = "lambda_function"
  <2> DEFINE regions == Addressable(account.functions, request.addresses_regions)
  <2>1. record \in CollectRegions(regions, request.limit, type).records
    BY <1>1, <1>3 DEF Collections
  <2>2. AreRegions(regions, type)
    BY <1>3, AddressableRegions DEF IsRequest, IsAccount
  <2> QED
    BY <2>1, <2>2, LoopIsSound DEF SoundSoFar
<1>4. CASE type = "ec2_instance"
  <2>1. record \in CollectRegions(account.instances, request.limit, type).records
    BY <1>1, <1>4 DEF Collections, Unread
  <2>2. AreRegions(account.instances, type)
    BY <1>4 DEF IsAccount
  <2> QED
    BY <2>1, <2>2, LoopIsSound DEF SoundSoFar
<1> QED
  BY <1>2, <1>3, <1>4 DEF ResourceTypes

(* A loop over all regions that neither raised nor left anything. *)
LEMMA LoopHoldsEverything ==
    ASSUME NEW type, NEW regions, AreRegions(regions, type), NEW limit,
           NEW read, read = CollectRegions(regions, limit, type),
           ~read.raised, ~read.truncated
    PROVE  HoldsEverything(read, regions, limit)
BY LoopIsSound DEF SoundSoFar, HoldsEverything

(* `partial` and `truncated` false: every collector read all it promises.  *)
LEMMA CompleteSnapshotsMissNothing ==
    ASSUME NEW request, IsRequest(request), NEW account, IsAccount(account),
           Complete(Snapshot(request, account))
    PROVE  NothingMissed(request, account, Snapshot(request, account))
<1> DEFINE read == Collections(request, account)
<1>1. Snapshot(request, account).resources = read
  BY DEF Snapshot
<1>2. /\ \A type \in ResourceTypes : ~read[type].raised /\ ~read[type].truncated
      /\ request.addresses_regions \/ ~(Len(account.functions) > 1)
  BY DEF Complete, Snapshot, AnyFailure, ResourceTypes
<1>3. read.s3_bucket.records = Everything(account.buckets, 1)
  <2>1. account.lists_buckets
    BY <1>2, IsAccount(account) DEF Collections, Unread, ResourceTypes, IsAccount
  <2>2. read.s3_bucket = CollectBuckets(account.buckets, request.limit)
    BY <2>1 DEF Collections
  <2> QED
    BY <1>2, <2>2, BucketsAreSound DEF IsRequest, IsAccount, ResourceTypes
<1>4. HoldsEverything(read.lambda_function, account.functions, request.limit)
  <2>1. /\ AreRegions(account.functions, "lambda_function")
        /\ Addressable(account.functions, request.addresses_regions) = account.functions
    BY <1>2, AddressableRegions DEF IsRequest, IsAccount
  <2>2. read.lambda_function = CollectRegions(account.functions, request.limit, "lambda_function")
    BY <2>1 DEF Collections
  <2> QED
    BY <1>2, <2>1, <2>2, LoopHoldsEverything DEF ResourceTypes
<1>5. ASSUME request.ec2
      PROVE  HoldsEverything(read.ec2_instance, account.instances, request.limit)
  <2>1. read.ec2_instance = CollectRegions(account.instances, request.limit, "ec2_instance")
    BY <1>5 DEF Collections
  <2>2. AreRegions(account.instances, "ec2_instance")
    BY DEF IsAccount
  <2> QED
    BY <1>2, <2>1, <2>2, LoopHoldsEverything DEF ResourceTypes
<1> QED
  BY <1>1, <1>3, <1>4, <1>5 DEF NothingMissed

LEMMA MissingTagsWereLookedUp ==
    ASSUME NEW request, IsRequest(request), NEW account, IsAccount(account)
    PROVE  MissingTagsAreFacts(Snapshot(request, account))
<1> DEFINE snapshot == Snapshot(request, account)
<1> SUFFICES ASSUME NEW type \in ResourceTypes,
                    NEW record \in snapshot.resources[type].records,
                    DecisionFor(snapshot, record.item).rule = "missing_owner_tag"
             PROVE  record.item.tag = "untagged"
  BY DEF MissingTagsAreFacts
<1> DEFINE item == record.item
<1>1. item \in Items(type) /\ item.tag # "malformed"
  BY RecordsAreReadable DEF Parses
<1>2. item.type = type
  BY <1>1 DEF Items
<1>3. type # "ec2_instance"
  BY <1>2 DEF DecisionFor, AsRecorded, Evaluate, EvaluateEc2, Decision
<1>4. item.tag # "owned" /\ ~snapshot.partial
  BY <1>2, <1>3
     DEF DecisionFor, AsRecorded, Evaluate, Decision, OwnerRule, ResourceTypes, OwnerTagCollected
<1>5. item.tag # "unread"
  <2>1. snapshot.resources = Collections(request, account)
    BY DEF Snapshot
  <2>2. snapshot.partial = AnyFailure(request, account, Collections(request, account))
    BY DEF Snapshot
  <2> HIDE DEF snapshot
  <2> QED
    BY <1>4, <2>1, <2>2 DEF AnyFailure
<1>6. item.tag \in {"malformed", "owned", "untagged", "unread"}
  BY <1>1, <1>3 DEF Items, Tags, ResourceTypes, OwnerTagCollected
<1> QED
  BY <1>1, <1>4, <1>5, <1>6
=============================================================================
