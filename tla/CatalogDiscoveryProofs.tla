------------------------ MODULE CatalogDiscoveryProofs ------------------------
(***************************************************************************)
(* CatalogDiscovery for every set of repositories, every range of stars    *)
(* and dates, every shard, page and batch size: the shards tile the search *)
(* space, no split leaves a gap or an overlap; a run beside which no star  *)
(* moved finds every repository; and the files a snapshot counts are on    *)
(* disk, less one for each kill.                                           *)
(***************************************************************************)
EXTENDS CatalogDiscovery, FiniteSetTheorems, TLAPS

LeafShards == {leaf.shard : leaf \in leaves}

Contains(s, n, d) ==
  s.min <= n /\ n <= s.max /\ s.after <= d /\ d <= s.before

Inhabited(s) == s.min <= s.max /\ s.after <= s.before

\* No point of the search space lies in both.
Apart(s, t) ==
  s.max < t.min \/ t.max < s.min \/ s.before < t.after \/ t.before < s.after

Inside(h, s) ==
  s.min <= h.min /\ h.max <= s.max /\ s.after <= h.after /\ h.before <= s.before

\* The types the tiling needs.
ShardTypes ==
  /\ stars \in [Repos -> Nat]
  /\ pending \subseteq Shards
  /\ LeafShards \subseteq Shards

\* Two different shards are apart, none is counted and read, and the
\* repositories of the root that kept their stars are in one of them.
TileInv ==
  /\ \A s \in pending : Inhabited(s)
  /\ \A s, t \in pending \cup LeafShards : s # t => Apart(s, t)
  /\ pending \cap LeafShards = {}
  /\ phase \in {"idle", "top"} => pending = {} /\ leaves = {}
  /\ phase \in {"collect", "search", "fetch", "write"} =>
       \A r \in Matching(root) \ moved : \E s \in pending \cup LeafShards : Matches(s, r)

IInv == ShardTypes /\ TileInv

-----------------------------------------------------------------------------
(* Splitting *)

\* The midpoint of a range of at least two values leaves both halves inhabited.
LEMMA Midpoint ==
  \A a, b \in Nat : a < b =>
         /\ (a + b) \div 2 \in Nat /\ a <= (a + b) \div 2 /\ (a + b) \div 2 < b
         /\ a + (b - a) \div 2 \in Nat /\ a <= a + (b - a) \div 2 /\ a + (b - a) \div 2 < b
OBVIOUS

\* _split_star_shard and _split_date_shard: the halves of a shard are inhabited,
\* lie inside it, are apart, and cover it.
LEMMA SplitTiles ==
  ASSUME NEW s \in Shards, Inhabited(s)
  PROVE  /\ \A h \in Split(s) : h \in Shards /\ Inhabited(h) /\ Inside(h, s)
         /\ \A h, k \in Split(s) : h # k => Apart(h, k)
         /\ Split(s) # {} =>
              \A n, d \in Nat : Contains(s, n, d) => \E h \in Split(s) : Contains(h, n, d)
<1>1. s.min \in Nat /\ s.max \in Nat /\ s.after \in Nat /\ s.before \in Nat
  BY DEF Shards
<1>2. CASE s.min < s.max
  <2> DEFINE m == (s.min + s.max) \div 2
  <2>1. m \in Nat /\ s.min <= m /\ m < s.max
    BY <1>1, <1>2, Midpoint
  <2>2. Split(s) = {LeftStars(s), RightStars(s)}
    BY <1>1, <1>2 DEF Split
  <2>3. LeftStars(s) = [s EXCEPT !.max = m] /\ RightStars(s) = [s EXCEPT !.min = m + 1]
    BY DEF LeftStars, RightStars
  <2> HIDE DEF m
  <2>4. /\ LeftStars(s) = [min |-> s.min, max |-> m, after |-> s.after, before |-> s.before]
        /\ RightStars(s) = [min |-> m + 1, max |-> s.max, after |-> s.after, before |-> s.before]
    BY <2>3 DEF Shards
  <2>5. QED
    BY <1>1, <2>1, <2>2, <2>4 DEF Shards, Inhabited, Inside, Apart, Contains
<1>3. CASE s.min >= s.max /\ s.after < s.before
  <2> DEFINE m == s.after + (s.before - s.after) \div 2
  <2>1. m \in Nat /\ s.after <= m /\ m < s.before
    BY <1>1, <1>3, Midpoint
  <2>2. Split(s) = {LeftDates(s), RightDates(s)}
    BY <1>1, <1>3 DEF Split
  <2>3. LeftDates(s) = [s EXCEPT !.before = m] /\ RightDates(s) = [s EXCEPT !.after = m + 1]
    BY DEF LeftDates, RightDates, DateMidpoint
  <2> HIDE DEF m
  <2>4. /\ LeftDates(s) = [min |-> s.min, max |-> s.max, after |-> s.after, before |-> m]
        /\ RightDates(s) = [min |-> s.min, max |-> s.max, after |-> m + 1, before |-> s.before]
    BY <2>3 DEF Shards
  <2>5. QED
    BY <1>1, <2>1, <2>2, <2>4 DEF Shards, Inhabited, Inside, Apart, Contains
<1>4. CASE s.min >= s.max /\ ~(s.after < s.before)
  <2>1. Split(s) = {}
    BY <1>1, <1>4 DEF Split
  <2>2. QED
    BY <2>1
<1>5. QED
  BY <1>1, <1>2, <1>3, <1>4

-----------------------------------------------------------------------------
(* Every step keeps the tiling *)

\* A shard's repositories are finitely many, so a count of 0 means none.
LEMMA CountZero ==
  ASSUME NEW s, Cardinality(Matching(s)) = 0
  PROVE  Matching(s) = {}
<1>1. IsFiniteSet(Matching(s))
  BY DiscoveryAssumption, FS_Subset DEF Matching
<1>2. QED
  BY <1>1, FS_EmptySet

\* A steady repository matches a shard exactly when the shard contains it.
LEMMA MatchesIsContains ==
  ASSUME ShardTypes, NEW s, NEW r \in Repos
  PROVE  /\ Matches(s, r) <=> Contains(s, stars[r], CreatedOn[r])
         /\ stars[r] \in Nat /\ CreatedOn[r] \in Nat
BY DiscoveryAssumption DEF ShardTypes, Matches, Contains

\* A state in which execute is not running and holds no shards satisfies the
\* invariant.
LEMMA Returned ==
  ASSUME stars \in [Repos -> Nat], phase = "idle", pending = {}, leaves = {}
  PROVE  IInv
BY DEF IInv, ShardTypes, TileInv, LeafShards

\* The initial state satisfies the invariant.
LEMMA InitInv == Init => IInv
<1> SUFFICES ASSUME Init PROVE IInv
  OBVIOUS
<1>1. stars \in [Repos -> Nat]
  BY DiscoveryAssumption DEF Init
<1>2. QED
  BY <1>1, Returned DEF Init

\* Whenever execute returns, raises or dies, the invariant holds again.
LEMMA ReturnStep ==
  ASSUME IInv, Return, UNCHANGED stars
  PROVE  IInv'
<1>1. phase' = "idle" /\ pending' = {} /\ leaves' = {} /\ stars' \in [Repos -> Nat]
  BY DEF Return, Enter, IInv, ShardTypes
<1>2. QED
  BY <1>1 DEF IInv, ShardTypes, TileInv, LeafShards

\* The root shard is inhabited and covers itself.
LEMMA ReadTopStep ==
  ASSUME IInv, ReadTop
  PROVE  IInv'
<1>1. PICK top \in {0} \cup {stars[r] : r \in Repos} :
        \/ top < MinStars /\ Return
        \/ /\ top >= MinStars
           /\ Enter("collect")
           /\ root' = [min |-> MinStars, max |-> top, after |-> StartDate, before |-> Today]
           /\ pending' = {root'}
           /\ UNCHANGED <<leaves, searched, page, found, output, moved>>
  BY DEF ReadTop, SearchMaxStars
<1>2. phase = "top" /\ UNCHANGED stars
  BY DEF ReadTop
<1>3. top \in Nat
  BY DEF IInv, ShardTypes
<1>4. CASE Return
  BY <1>2, <1>4, ReturnStep
<1>5. CASE /\ top >= MinStars
           /\ Enter("collect")
           /\ root' = [min |-> MinStars, max |-> top, after |-> StartDate, before |-> Today]
           /\ pending' = {root'}
           /\ UNCHANGED <<leaves, searched, page, found, output, moved>>
  <2>1. leaves' = {} /\ LeafShards' = {}
    BY <1>2, <1>5 DEF IInv, TileInv, LeafShards
  <2>2. root' \in Shards /\ Inhabited(root')
    BY <1>3, <1>5, DiscoveryAssumption DEF Shards, Inhabited
  <2>3. ShardTypes'
    BY <1>2, <1>5, <2>1, <2>2 DEF IInv, ShardTypes
  <2>4. \A r \in (Matching(root) \ moved)' : Matches(root, r)'
    BY DEF Matching
  <2>5. TileInv'
    BY <1>5, <2>1, <2>2, <2>4 DEF TileInv, Enter
  <2>6. QED
    BY <2>3, <2>5 DEF IInv
<1>6. QED
  BY <1>1, <1>4, <1>5

\* The phases between the collection and the end change no shard.
LEMMA LaterStep ==
  ASSUME IInv, ShardsCollected \/ ReadPage \/ PagesRead \/ FetchBatch \/ BatchesFetched
               \/ WriteFile \/ WriteSnapshot \/ SearchFails \/ Kill \/ Begin
  PROVE  IInv'
<1>1. CASE WriteSnapshot \/ SearchFails \/ Kill
  BY <1>1, ReturnStep DEF WriteSnapshot, SearchFails, Kill
<1>2. CASE Begin
  <2>1. phase = "idle" /\ phase' = "top" /\ UNCHANGED <<stars, root, pending, leaves, moved>>
    BY <1>2 DEF Begin, Enter, search, env
  <2>2. QED
    BY <2>1 DEF IInv, ShardTypes, TileInv, LeafShards, Matching, Matches
<1>3. CASE ShardsCollected \/ ReadPage \/ PagesRead \/ FetchBatch \/ BatchesFetched \/ WriteFile
  <2>1. /\ phase \in {"collect", "search", "fetch", "write"}
        /\ phase' \in {"collect", "search", "fetch", "write"}
        /\ UNCHANGED <<stars, root, pending, leaves, moved>>
    BY <1>3 DEF ShardsCollected, ReadPage, PagesRead, FetchBatch, BatchesFetched, WriteFile,
                Enter, search, env
  <2>2. QED
    BY <2>1 DEF IInv, ShardTypes, TileInv, LeafShards, Matching, Matches
<1>4. QED
  BY <1>1, <1>2, <1>3

\* A repository whose stars move leaves the set the tiling speaks about.
LEMMA StarsMoveStep ==
  ASSUME IInv, StarsMove
  PROVE  IInv'
<1>1. /\ UNCHANGED <<phase, root, pending, leaves>>
      /\ moved \subseteq moved'
      /\ \A r \in Repos \ moved' : stars'[r] = stars[r]
      /\ stars' \in [Repos -> Nat]
  BY DiscoveryAssumption DEF StarsMove, search, IInv, ShardTypes
<1>2. LeafShards' = LeafShards
  BY <1>1 DEF LeafShards
<1>3. \A r \in Repos \ moved' : \A s : Matches(s, r)' <=> Matches(s, r)
  BY <1>1 DEF Matches
<1>4. (Matching(root) \ moved)' \subseteq Matching(root) \ moved
  BY <1>1, <1>3 DEF Matching, Matches
<1>5. QED
  BY <1>1, <1>2, <1>3, <1>4 DEF IInv, ShardTypes, TileInv, Matching

\* A shard that matches nothing can be dropped.
LEMMA DropShard ==
  ASSUME IInv, phase = "collect", NEW s \in pending, Matching(s) = {},
         pending' = pending \ {s}, UNCHANGED <<leaves, stars, phase, root, moved>>
  PROVE  IInv'
<1>1. LeafShards' = LeafShards
  BY DEF LeafShards
<1>2. \A r \in Repos : ~Matches(s, r)
  BY DEF Matching
<1>3. \A r \in Repos : \A t : Matches(t, r)' <=> Matches(t, r)
  BY DEF Matches
<1>4. (Matching(root) \ moved)' = Matching(root) \ moved
  BY <1>3 DEF Matching, Matches
<1>5. \A r \in Matching(root) \ moved : \E t \in (pending \ {s}) \cup LeafShards : Matches(t, r)
  BY <1>2 DEF IInv, TileInv, Matching
<1>6. QED
  BY <1>1, <1>3, <1>4, <1>5 DEF IInv, ShardTypes, TileInv, Matching

\* A shard that becomes a leaf stays in the tiling.
LEMMA KeepShard ==
  ASSUME IInv, phase = "collect", NEW s \in pending, NEW n,
         pending' = pending \ {s}, leaves' = leaves \cup {[shard |-> s, matched |-> n]},
         UNCHANGED <<stars, phase, root, moved>>
  PROVE  IInv'
<1>1. LeafShards' = LeafShards \cup {s}
  <2> DEFINE leaf == [shard |-> s, matched |-> n]
  <2>1. leaf.shard = s /\ leaves' = leaves \cup {leaf}
    OBVIOUS
  <2> HIDE DEF leaf
  <2>2. QED
    BY <2>1 DEF LeafShards
<1>2. (pending \cup LeafShards)' = pending \cup LeafShards
  BY <1>1
<1>3. \A r \in Repos : \A t : Matches(t, r)' <=> Matches(t, r)
  BY DEF Matches
<1>4. (Matching(root) \ moved)' = Matching(root) \ moved
  BY <1>3 DEF Matching, Matches
<1>5. ShardTypes'
  BY <1>1 DEF IInv, ShardTypes
<1>6. TileInv'
  <2>1. /\ \A t \in pending' : Inhabited(t)
        /\ \A t, u \in (pending \cup LeafShards)' : t # u => Apart(t, u)
        /\ pending' \cap LeafShards' = {}
    BY <1>1, <1>2 DEF IInv, TileInv
  <2>2. \A r \in (Matching(root) \ moved)' : \E t \in (pending \cup LeafShards)' : Matches(t, r)'
    BY <1>2, <1>3, <1>4 DEF IInv, TileInv, Matching
  <2>3. QED
    BY <2>1, <2>2 DEF TileInv
<1>7. QED
  BY <1>5, <1>6 DEF IInv

\* A shard can be replaced by its halves.
LEMMA SplitShard ==
  ASSUME IInv, phase = "collect", NEW s \in pending, Split(s) # {},
         pending' = (pending \ {s}) \cup Split(s),
         UNCHANGED <<leaves, stars, phase, root, moved>>
  PROVE  IInv'
<1> DEFINE Rest == (pending \cup LeafShards) \ {s}
<1>1. /\ ShardTypes /\ s \in Shards /\ Inhabited(s)
      /\ pending \cup LeafShards \subseteq Shards
  BY DEF IInv, ShardTypes, TileInv
<1>2. LeafShards' = LeafShards /\ s \notin LeafShards
  BY DEF LeafShards, IInv, TileInv
<1>3. (pending \cup LeafShards)' = Rest \cup Split(s)
  BY <1>2
<1>4. \A h \in Split(s) : h \in Shards /\ Inhabited(h) /\ Inside(h, s)
  BY <1>1, SplitTiles
<1>5. \A h \in Split(s), t \in Rest : Apart(h, t) /\ Apart(t, h) /\ h # t
  <2> SUFFICES ASSUME NEW h \in Split(s), NEW t \in Rest
               PROVE  Apart(h, t) /\ Apart(t, h) /\ h # t
    OBVIOUS
  <2>1. Apart(s, t) /\ t \in Shards
    BY <1>1 DEF IInv, TileInv
  <2>2. h \in Shards /\ Inhabited(h) /\ Inside(h, s)
    BY <1>4
  <2>3. Apart(h, t) /\ Apart(t, h)
    BY <1>1, <2>1, <2>2 DEF Shards, Apart, Inside
  <2>4. ~Apart(h, h)
    BY <2>2 DEF Shards, Apart, Inhabited
  <2>5. QED
    BY <2>3, <2>4
<1>6. \A r \in Repos : \A t : Matches(t, r)' <=> Matches(t, r)
  BY DEF Matches
<1>7. (Matching(root) \ moved)' = Matching(root) \ moved
  BY <1>6 DEF Matching, Matches
<1>8. ShardTypes'
  BY <1>1, <1>2, <1>3, <1>4 DEF ShardTypes
<1>9. TileInv'
  <2>1. \A t \in pending' : Inhabited(t)
    BY <1>4 DEF IInv, TileInv
  <2>2. \A t, u \in (pending \cup LeafShards)' : t # u => Apart(t, u)
    <3>1. \A t, u \in Rest : t # u => Apart(t, u)
      BY DEF IInv, TileInv
    <3>2. \A t, u \in Split(s) : t # u => Apart(t, u)
      BY <1>1, SplitTiles
    <3>3. QED
      BY <1>3, <1>5, <3>1, <3>2
  <2>3. pending' \cap LeafShards' = {}
    <3>1. LeafShards \subseteq Rest
      BY <1>2
    <3>2. QED
      BY <1>2, <1>5, <3>1 DEF IInv, TileInv
  <2>4. \A r \in (Matching(root) \ moved)' : \E t \in (pending \cup LeafShards)' : Matches(t, r)'
    <3> SUFFICES ASSUME NEW r \in Matching(root) \ moved
                 PROVE  \E t \in Rest \cup Split(s) : Matches(t, r)
      BY <1>3, <1>6, <1>7 DEF Matching
    <3>1. r \in Repos /\ \E t \in pending \cup LeafShards : Matches(t, r)
      BY DEF IInv, TileInv, Matching
    <3>2. CASE Matches(s, r)
      <4>1. Contains(s, stars[r], CreatedOn[r]) /\ stars[r] \in Nat /\ CreatedOn[r] \in Nat
        BY <1>1, <3>1, <3>2, MatchesIsContains
      <4>2. PICK h \in Split(s) : Contains(h, stars[r], CreatedOn[r])
        BY <1>1, <4>1, SplitTiles
      <4>3. QED
        BY <1>1, <3>1, <4>2, MatchesIsContains
    <3>3. CASE ~Matches(s, r)
      BY <3>1, <3>3
    <3>4. QED
      BY <3>2, <3>3
  <2>5. QED
    BY <2>1, <2>2, <2>3, <2>4 DEF TileInv
<1>10. QED
  BY <1>8, <1>9 DEF IInv

\* Counting a shard preserves the invariant, whatever the count.
LEMMA CountShardStep ==
  ASSUME IInv, CountShard
  PROVE  IInv'
<1>1. PICK s \in pending :
        \/ /\ Cardinality(Matching(s)) = 0
           /\ pending' = pending \ {s}
           /\ Counted /\ UNCHANGED leaves
        \/ /\ Cardinality(Matching(s)) \in 1 .. MaxShardSize
           /\ pending' = pending \ {s}
           /\ leaves' = leaves \cup {[shard |-> s, matched |-> Cardinality(Matching(s))]}
           /\ Counted
        \/ /\ Split(s) # {}
           /\ pending' = (pending \ {s}) \cup Split(s)
           /\ Counted /\ UNCHANGED leaves
        \/ Return
  BY DEF CountShard
<1>2. phase = "collect" /\ UNCHANGED stars
  BY DEF CountShard
<1>3. Counted => UNCHANGED <<phase, root, moved>>
  BY DEF Counted
<1>4. CASE Return
  BY <1>2, <1>4, ReturnStep
<1>5. QED
  BY <1>1, <1>2, <1>3, <1>4, CountZero, DropShard, KeepShard, SplitShard

-----------------------------------------------------------------------------
(* Theorems *)

\* The invariant holds in every reachable state.
THEOREM Invariance == Spec => []IInv
<1>1. Init => IInv
  BY InitInv
<1>2. IInv /\ [Next]_vars => IInv'
  <2> SUFFICES ASSUME IInv, [Next]_vars PROVE IInv'
    OBVIOUS
  <2>1. CASE Next
    BY <2>1, ReadTopStep, CountShardStep, LaterStep, StarsMoveStep DEF Next, Execute
  <2>2. CASE UNCHANGED vars
    <3>1. UNCHANGED <<phase, root, pending, leaves, stars, moved>>
      BY <2>2 DEF vars, search, env
    <3>2. QED
      BY <3>1 DEF IInv, ShardTypes, TileInv, LeafShards, Matching, Matches
  <2>3. QED
    BY <2>1, <2>2
<1>3. QED
  BY <1>1, <1>2, PTL DEF Spec

\* From the first count to the last write, every repository that the root shard
\* described and that kept its stars is in exactly one shard, to be counted or
\* to be read.
THEOREM ShardsAlwaysTile == Spec => []ShardsTile
<1>1. IInv => ShardsTile
  <2> SUFFICES ASSUME IInv, phase \in {"collect", "search", "fetch", "write"},
                      NEW r \in Matching(root) \ moved
               PROVE  InOneShard(r)
    BY DEF ShardsTile
  <2>1. r \in Repos /\ \E s \in pending \cup LeafShards : Matches(s, r)
    BY DEF IInv, TileInv, Matching
  <2>2. ASSUME NEW s \in pending \cup LeafShards, NEW t \in pending \cup LeafShards,
               Matches(s, r), Matches(t, r), s # t
        PROVE  FALSE
    <3>1. Apart(s, t) /\ s \in Shards /\ t \in Shards
      BY <2>2 DEF IInv, TileInv, ShardTypes
    <3>2. /\ Contains(s, stars[r], CreatedOn[r]) /\ Contains(t, stars[r], CreatedOn[r])
          /\ stars[r] \in Nat /\ CreatedOn[r] \in Nat
      BY <2>1, <2>2, MatchesIsContains DEF IInv
    <3>3. QED
      BY <3>1, <3>2 DEF Apart, Contains, Shards
  <2>3. QED
    BY <2>1, <2>2 DEF InOneShard, LeafShards
<1>2. QED
  BY <1>1, Invariance, PTL
-----------------------------------------------------------------------------
(* Types *)

\* The parts of TypeOK that change together.
SearchTypes ==
  /\ stars \in [Repos -> Nat]
  /\ phase \in {"idle", "top", "collect", "search", "fetch", "write"}
  /\ root \in Shards
  /\ pending \subseteq Shards
  /\ leaves \subseteq Leaves
  /\ searched \subseteq leaves
  /\ page \in Nat \ {0}
  /\ DOMAIN found \subseteq Repos /\ found \in [DOMAIN found -> Nat]
OutputTypes ==
  /\ start \in Nat
  /\ written \subseteq fetched /\ fetched \subseteq DOMAIN found
  /\ moved \subseteq Repos
DiskTypes ==
  /\ files \in [Repos -> 0 .. run]
  /\ latest \in [run : 0 .. run, repos : SUBSET Repos, count : Nat]
  /\ run \in 0 .. MaxRuns
  /\ kills \in 0 .. MaxKills

\* The parts are the whole.
LEMMA TypeParts == TypeOK <=> SearchTypes /\ OutputTypes /\ DiskTypes
BY DEF TypeOK, SearchTypes, OutputTypes, DiskTypes

\* And so they are of the next state.
LEMMA NextTypeParts == SearchTypes' /\ OutputTypes' /\ DiskTypes' => TypeOK'
BY DEF TypeOK, SearchTypes, OutputTypes, DiskTypes

\* A set of repositories has a size.
LEMMA RepoSet ==
  ASSUME NEW S \in SUBSET Repos
  PROVE  IsFiniteSet(S) /\ Cardinality(S) \in Nat
BY DiscoveryAssumption, FS_Subset, FS_CardinalityType

\* The initial states have their types.
LEMMA TypeInit == Init => TypeOK
<1> SUFFICES ASSUME Init PROVE TypeOK
  OBVIOUS
<1>1. SearchTypes
  BY DiscoveryAssumption DEF Init, SearchTypes, NoShard, Shards
<1>2. OutputTypes /\ DiskTypes
  BY DiscoveryAssumption DEF Init, OutputTypes, DiskTypes, NoSnapshot
<1>3. QED
  BY <1>1, <1>2, TypeParts

\* A run that has ended holds nothing, so only the disk is left to look at.
LEMMA ReturnTypes ==
  ASSUME TypeOK, Return, UNCHANGED stars, DiskTypes'
  PROVE  TypeOK'
<1>1. SearchTypes'
  BY DEF Return, Enter, TypeOK, SearchTypes, NoShard, Shards
<1>2. OutputTypes'
  BY DEF Return, OutputTypes
<1>3. QED
  BY <1>1, <1>2, NextTypeParts

\* Steps up to the last shard counted.
LEMMA CollectTypes ==
  ASSUME TypeOK, IInv, Begin \/ ReadTop \/ CountShard \/ ShardsCollected
  PROVE  TypeOK'
<1>1. SearchTypes /\ OutputTypes /\ DiskTypes
  BY TypeParts
<1>2. CASE Begin
  <2>1. DiskTypes'
    BY <1>1, <1>2, DiscoveryAssumption DEF Begin, DiskTypes, disk, env
  <2>2. SearchTypes' /\ OutputTypes'
    BY <1>1, <1>2 DEF Begin, Enter, SearchTypes, OutputTypes, search, output, env
  <2>3. QED
    BY <2>1, <2>2, NextTypeParts
<1>3. CASE ReadTop
  <2>1. DiskTypes' /\ UNCHANGED stars
    BY <1>1, <1>3 DEF ReadTop, SearchMaxStars, DiskTypes, disk
  <2>2. PICK top \in {0} \cup {stars[r] : r \in Repos} :
          \/ Return
          \/ /\ top >= MinStars
             /\ Enter("collect")
             /\ root' = [min |-> MinStars, max |-> top, after |-> StartDate, before |-> Today]
             /\ pending' = {root'}
             /\ UNCHANGED <<leaves, searched, page, found, output, moved>>
    BY <1>3 DEF ReadTop, SearchMaxStars
  <2>3. top \in Nat
    BY <1>1 DEF SearchTypes
  <2>4. CASE /\ Enter("collect")
             /\ root' = [min |-> MinStars, max |-> top, after |-> StartDate, before |-> Today]
             /\ pending' = {root'}
             /\ UNCHANGED <<leaves, searched, page, found, output, moved>>
    <3>1. root' \in Shards
      BY <2>3, <2>4, DiscoveryAssumption DEF Shards
    <3>2. SearchTypes' /\ OutputTypes'
      BY <1>1, <2>1, <2>4, <3>1 DEF Enter, SearchTypes, OutputTypes, output
    <3>3. QED
      BY <2>1, <3>2, NextTypeParts
  <2>5. QED
    BY <2>1, <2>2, <2>4, ReturnTypes
<1>4. CASE CountShard
  <2>1. DiskTypes' /\ UNCHANGED stars /\ phase = "collect"
    BY <1>1, <1>4 DEF CountShard, DiskTypes, disk
  <2>2. PICK s \in pending :
          LET count == Cardinality(Matching(s))
          IN  \/ /\ pending' = pending \ {s}
                 /\ Counted /\ UNCHANGED leaves
              \/ /\ count \in 1 .. MaxShardSize
                 /\ pending' = pending \ {s}
                 /\ leaves' = leaves \cup {[shard |-> s, matched |-> count]}
                 /\ Counted
              \/ /\ pending' = (pending \ {s}) \cup Split(s)
                 /\ Counted /\ UNCHANGED leaves
              \/ Return
    BY <1>4 DEF CountShard
  <2>3. s \in Shards /\ Inhabited(s)
    BY <1>1 DEF SearchTypes, IInv, TileInv
  <2>4. Split(s) \subseteq Shards
    BY <2>3, SplitTiles
  <2>5. CASE Return
    BY <2>1, <2>5, ReturnTypes
  <2>6. CASE Counted
    <3>1. pending' \subseteq Shards /\ leaves' \subseteq Leaves /\ leaves \subseteq leaves'
      <4>1. CASE UNCHANGED leaves /\ pending' \subseteq pending \cup Split(s)
        BY <1>1, <2>4, <4>1 DEF SearchTypes
      <4>2. CASE /\ Cardinality(Matching(s)) \in 1 .. MaxShardSize
                 /\ pending' = pending \ {s}
                 /\ leaves' = leaves \cup {[shard |-> s, matched |-> Cardinality(Matching(s))]}
        BY <1>1, <2>3, <4>2 DEF SearchTypes, Leaves
      <4>3. CASE Return
        BY <4>3, <2>1, <2>6 DEF Return, Enter, Counted
      <4>4. QED
        BY <2>2, <4>1, <4>2, <4>3
    <3>2. SearchTypes' /\ OutputTypes'
      BY <1>1, <2>1, <2>6, <3>1 DEF Counted, SearchTypes, OutputTypes, output
    <3>3. QED
      BY <2>1, <3>2, NextTypeParts
  <2>7. QED
    BY <2>2, <2>5, <2>6
<1>5. CASE ShardsCollected
  <2>1. SearchTypes' /\ OutputTypes' /\ DiskTypes'
    BY <1>1, <1>5 DEF ShardsCollected, Enter, SearchTypes, OutputTypes, DiskTypes, search,
                      output, disk, env
  <2>2. QED
    BY <2>1, NextTypeParts
<1>6. QED
  BY <1>2, <1>3, <1>4, <1>5

\* What reading a page adds to the candidates.
LEMMA FoundType ==
  ASSUME TypeOK, NEW items \in SUBSET Repos
  PROVE  /\ DOMAIN Found(items) = DOMAIN found \cup items
         /\ Found(items) \in [DOMAIN Found(items) -> Nat]
BY DEF Found, TypeOK

\* Steps from the first page to the last lookup.
LEMMA SearchTypesKept ==
  ASSUME TypeOK, ReadPage \/ PagesRead \/ FetchBatch \/ BatchesFetched
  PROVE  TypeOK'
<1>1. SearchTypes /\ OutputTypes /\ DiskTypes
  BY TypeParts
<1>2. CASE ReadPage
  <2>1. PICK leaf \in leaves \ searched :
          /\ found' = Found(SearchPage(leaf.shard, page))
          /\ IF page < PageCount(leaf)
               THEN page' = page + 1 /\ UNCHANGED searched
               ELSE page' = 1 /\ searched' = searched \cup {leaf}
    BY <1>2 DEF ReadPage
  <2>2. SearchPage(leaf.shard, page) \in SUBSET Repos
    BY DEF SearchPage, Matching
  <2>3. /\ DOMAIN found' = DOMAIN found \cup SearchPage(leaf.shard, page)
        /\ found' \in [DOMAIN found' -> Nat]
    BY <2>1, <2>2, FoundType
  <2>4. page' \in Nat \ {0} /\ searched' \subseteq leaves
    BY <1>1, <2>1 DEF SearchTypes
  <2>5. SearchTypes' /\ OutputTypes' /\ DiskTypes'
    BY <1>1, <1>2, <2>2, <2>3, <2>4
       DEF ReadPage, SearchTypes, OutputTypes, DiskTypes, output, disk, env
  <2>6. QED
    BY <2>5, NextTypeParts
<1>3. CASE FetchBatch
  <2>1. fetched' \subseteq fetched \cup Chosen /\ fetched \subseteq fetched' /\ start' = start + BatchSize
    BY <1>3 DEF FetchBatch, FetchRepositoryMetadata
  <2>2. SearchTypes' /\ DiskTypes'
    BY <1>1, <1>3 DEF FetchBatch, FetchRepositoryMetadata, SearchTypes, DiskTypes, search, disk, env
  <2>3. OutputTypes'
    BY <1>1, <1>3, <2>1, DiscoveryAssumption DEF FetchBatch, FetchRepositoryMetadata, OutputTypes,
         Chosen, search, env
  <2>4. QED
    BY <2>2, <2>3, NextTypeParts
<1>4. CASE PagesRead \/ BatchesFetched
  <2>1. SearchTypes' /\ OutputTypes' /\ DiskTypes'
    BY <1>1, <1>4 DEF PagesRead, BatchesFetched, Enter, SearchTypes, OutputTypes, DiskTypes,
                      search, output, disk, env
  <2>2. QED
    BY <2>1, NextTypeParts
<1>5. QED
  BY <1>2, <1>3, <1>4

\* The writes, the failures and what happens outside.
LEMMA WriteTypes ==
  ASSUME TypeOK, WriteFile \/ WriteSnapshot \/ SearchFails \/ Kill \/ StarsMove
  PROVE  TypeOK'
<1>1. SearchTypes /\ OutputTypes /\ DiskTypes
  BY TypeParts
<1>2. CASE WriteFile
  <2>1. PICK r \in Repos :
          NextFile(r) /\ files' = [files EXCEPT ![r] = run] /\ written' = written \cup {r}
    BY <1>2 DEF WriteFile
  <2>2. r \in fetched
    BY <2>1 DEF NextFile
  <2>3. files' \in [Repos -> 0 .. run]
    BY <1>1, <2>1 DEF DiskTypes
  <2>4. SearchTypes' /\ OutputTypes' /\ DiskTypes'
    BY <1>1, <1>2, <2>1, <2>2, <2>3
       DEF WriteFile, SearchTypes, OutputTypes, DiskTypes, search, env
  <2>5. QED
    BY <2>4, NextTypeParts
<1>3. CASE WriteSnapshot
  <2>1. Cardinality(fetched) \in Nat
    BY <1>1, RepoSet DEF SearchTypes, OutputTypes
  <2>2. DiskTypes'
    BY <1>1, <1>3, <2>1 DEF WriteSnapshot, Snapshot, Chosen, SearchTypes, DiskTypes
  <2>3. QED
    BY <1>3, <2>2, ReturnTypes DEF WriteSnapshot
<1>4. CASE SearchFails
  <2>1. DiskTypes'
    BY <1>1, <1>4 DEF SearchFails, DiskTypes, disk
  <2>2. QED
    BY <1>4, <2>1, ReturnTypes DEF SearchFails
<1>5. CASE Kill
  <2>1. /\ kills' = kills + 1 /\ kills < MaxKills /\ run' = run
        /\ latest' \in {latest, NoSnapshot}
        /\ files' = files \/ \E r \in Repos : files' = [files EXCEPT ![r] = 0]
    BY <1>5 DEF Kill, disk
  <2>2. files' \in [Repos -> 0 .. run]
    BY <1>1, <2>1 DEF DiskTypes
  <2>3. DiskTypes'
    BY <1>1, <2>1, <2>2, DiscoveryAssumption DEF DiskTypes, NoSnapshot
  <2>4. QED
    BY <1>5, <2>3, ReturnTypes DEF Kill
<1>6. CASE StarsMove
  <2>1. stars' \in [Repos -> Nat] /\ moved' \subseteq Repos
    BY <1>1, <1>6, DiscoveryAssumption DEF StarsMove, SearchTypes, OutputTypes
  <2>2. SearchTypes' /\ OutputTypes' /\ DiskTypes'
    BY <1>1, <1>6, <2>1 DEF StarsMove, SearchTypes, OutputTypes, DiskTypes, search, output, disk
  <2>3. QED
    BY <2>2, NextTypeParts
<1>7. QED
  BY <1>2, <1>3, <1>4, <1>5, <1>6

\* Every variable has its type, for every set of repositories and every bound.
THEOREM TypeCorrect == Spec => []TypeOK
<1>1. TypeOK /\ IInv /\ [Next]_vars => TypeOK'
  <2> SUFFICES ASSUME TypeOK, IInv, [Next]_vars PROVE TypeOK'
    OBVIOUS
  <2>1. CASE Next
    BY <2>1, CollectTypes, SearchTypesKept, WriteTypes DEF Next, Execute
  <2>2. CASE UNCHANGED vars
    BY <2>2 DEF vars, search, output, disk, env, TypeOK
  <2>3. QED
    BY <2>1, <2>2
<1>2. QED
  BY <1>1, TypeInit, Invariance, PTL DEF Spec

-----------------------------------------------------------------------------
(* What the snapshot counts *)

\* The repositories of the snapshot whose file is whole and at least as new.
Whole == {r \in latest.repos : files[r] >= latest.run}

\* Only candidates that were chosen are fetched, and what is written has the file
\* of this run: when latest.json is written, it counts these.
FilesInv ==
  /\ phase \in {"idle", "top", "collect", "search"} => fetched = {}
  /\ fetched \subseteq Chosen
  /\ \A r \in written : files[r] = run
  /\ CountedFilesExist

\* As long as the snapshot stays, the files it counts and the kills may only grow.
LEMMA CountedKept ==
  ASSUME TypeOK, CountedFilesExist, UNCHANGED latest, kills' \in Nat, kills' >= kills,
         Whole \subseteq Whole'
  PROVE  CountedFilesExist'
<1>1. latest.count \in Nat /\ kills \in Nat
  BY DiscoveryAssumption DEF TypeOK
<1>2. latest.repos \subseteq Repos /\ latest'.repos \subseteq Repos
  BY DEF TypeOK
<1>3. Whole \in SUBSET Repos /\ Whole' \in SUBSET Repos
  BY <1>2 DEF Whole
<1>4. Cardinality(Whole) \in Nat /\ Cardinality(Whole') \in Nat
      /\ Cardinality(Whole) <= Cardinality(Whole')
  BY <1>3, RepoSet, FS_Subset
<1>5. latest.count <= Cardinality(Whole) + kills
  BY DEF CountedFilesExist, Whole
<1>6. latest'.count <= Cardinality(Whole') + kills'
  BY <1>1, <1>4, <1>5
<1>7. QED
  BY <1>6 DEF CountedFilesExist, Whole

\* Where the disk and the kills stay, so does what is counted.
LEMMA CountedSame ==
  ASSUME TypeOK, CountedFilesExist, UNCHANGED <<files, latest, kills>>
  PROVE  CountedFilesExist'
BY DEF CountedFilesExist

\* A file that is torn costs the snapshot one repository, and is paid for by a kill.
LEMMA TornFile ==
  ASSUME TypeOK, CountedFilesExist, NEW r \in Repos,
         files' = [files EXCEPT ![r] = 0], UNCHANGED latest, kills' = kills + 1
  PROVE  CountedFilesExist'
<1>1. latest.count \in Nat /\ kills \in Nat /\ latest.repos \subseteq Repos
  BY DiscoveryAssumption DEF TypeOK
<1>2. Whole \in SUBSET Repos /\ Whole' \in SUBSET Repos
  BY <1>1 DEF Whole
<1>3. IsFiniteSet(Whole) /\ Cardinality(Whole) \in Nat /\ Cardinality(Whole') \in Nat
      /\ IsFiniteSet(Whole')
  BY <1>2, RepoSet
<1>4. Whole \ {r} \subseteq Whole'
  BY <1>2 DEF Whole, TypeOK
<1>5. Cardinality(Whole \ {r}) <= Cardinality(Whole')
  BY <1>3, <1>4, FS_Subset
<1>6. Cardinality(Whole \ {r}) \in {Cardinality(Whole), Cardinality(Whole) - 1}
  BY <1>3, FS_RemoveElement
<1>7. latest.count <= Cardinality(Whole) + kills
  BY DEF CountedFilesExist, Whole
<1>8. latest'.count <= Cardinality(Whole') + kills'
  BY <1>1, <1>3, <1>5, <1>6, <1>7
<1>9. QED
  BY <1>8 DEF CountedFilesExist, Whole

\* A run that ends has no file left to answer for.
LEMMA ReturnFiles ==
  ASSUME Return, CountedFilesExist'
  PROVE  FilesInv'
BY DEF Return, Enter, FilesInv

\* Writing the file of a repository adds to what the snapshot counts.
LEMMA WriteFileStep ==
  ASSUME TypeOK, FilesInv, WriteFile
  PROVE  FilesInv'
<1>1. PICK r \in Repos : files' = [files EXCEPT ![r] = run] /\ written' = written \cup {r}
  BY DEF WriteFile
<1>2. UNCHANGED <<phase, run, found, fetched, latest, kills>> /\ phase = "write"
  BY DEF WriteFile, search, env
<1>3. latest.run \in Nat /\ latest.run <= run /\ run \in Nat /\ latest.repos \subseteq Repos
      /\ kills \in Nat
  BY DiscoveryAssumption DEF TypeOK
<1>4. \A q \in Repos : files'[q] = (IF q = r THEN run ELSE files[q]) /\ files[q] \in Nat
  BY <1>1, <1>3 DEF TypeOK
<1>5. Whole \subseteq Whole'
  BY <1>2, <1>3, <1>4 DEF Whole
<1>6. CountedFilesExist'
  BY <1>2, <1>3, <1>5, CountedKept DEF FilesInv
<1>7. \A q \in written' : files'[q] = run'
  BY <1>1, <1>2, <1>4 DEF FilesInv, TypeOK
<1>8. fetched' \subseteq Chosen' /\ phase' = "write"
  BY <1>2 DEF FilesInv, Chosen, Rank
<1>9. QED
  BY <1>6, <1>7, <1>8 DEF FilesInv

\* The snapshot of a run counts what the run has written.
LEMMA WriteSnapshotStep ==
  ASSUME TypeOK, FilesInv, WriteSnapshot
  PROVE  FilesInv'
<1>1. written = fetched /\ latest' = Snapshot /\ Return /\ UNCHANGED <<run, files, kills>>
  BY DEF WriteSnapshot
<1>2. fetched \subseteq Chosen /\ Chosen \subseteq Repos /\ run \in Nat /\ kills \in Nat
  BY DiscoveryAssumption DEF FilesInv, Chosen, TypeOK
<1>3. latest'.count = Cardinality(fetched) /\ latest'.repos = Chosen /\ latest'.run = run
  BY <1>1 DEF Snapshot
<1>4. fetched \subseteq Whole' /\ Whole' \in SUBSET Repos
  BY <1>1, <1>2, <1>3 DEF Whole, FilesInv
<1>5. Cardinality(fetched) \in Nat /\ Cardinality(Whole') \in Nat
      /\ Cardinality(fetched) <= Cardinality(Whole')
  BY <1>2, <1>4, RepoSet, FS_Subset
<1>6. latest'.count <= Cardinality(Whole') + kills'
  BY <1>1, <1>2, <1>3, <1>5
<1>7. CountedFilesExist'
  BY <1>6 DEF CountedFilesExist, Whole
<1>8. QED
  BY <1>1, <1>7, ReturnFiles

\* A kill tears a file, the snapshot or nothing.
LEMMA KillStep ==
  ASSUME TypeOK, TypeOK', FilesInv, Kill
  PROVE  FilesInv'
<1>1. Return /\ kills' = kills + 1 /\ kills \in Nat /\ kills' \in Nat
  BY DiscoveryAssumption DEF Kill, TypeOK
<1>2. CASE UNCHANGED disk
  <2>1. UNCHANGED <<latest, files>> /\ Whole \subseteq Whole'
    BY <1>2 DEF disk, Whole
  <2>2. CountedFilesExist'
    BY <1>1, <2>1, CountedKept DEF FilesInv
  <2>3. QED
    BY <1>1, <2>2, ReturnFiles
<1>3. CASE UNCHANGED latest /\ \E r \in Repos : files' = [files EXCEPT ![r] = 0]
  <2>1. CountedFilesExist'
    BY <1>1, <1>3, TornFile DEF FilesInv
  <2>2. QED
    BY <1>1, <2>1, ReturnFiles
<1>4. CASE latest' = NoSnapshot
  <2>1. latest'.count = 0 /\ Whole' \in SUBSET Repos
    BY <1>4 DEF NoSnapshot, Whole
  <2>2. Cardinality(Whole') \in Nat
    BY <2>1, RepoSet
  <2>3. latest'.count <= Cardinality(Whole') + kills'
    BY <1>1, <2>1, <2>2
  <2>4. CountedFilesExist'
    BY <2>3 DEF CountedFilesExist, Whole
  <2>5. QED
    BY <1>1, <2>4, ReturnFiles
<1>5. QED
  BY <1>2, <1>3, <1>4 DEF Kill

\* No other step touches the disk.
LEMMA ElsewhereFiles ==
  ASSUME TypeOK, FilesInv,
         \/ Begin \/ ReadTop \/ CountShard \/ ShardsCollected \/ ReadPage \/ PagesRead
         \/ FetchBatch \/ BatchesFetched \/ SearchFails \/ StarsMove
  PROVE  FilesInv'
<1>1. CountedFilesExist'
  <2>1. UNCHANGED <<files, latest, kills>>
    BY DEF Begin, ReadTop, CountShard, ShardsCollected, ReadPage, PagesRead, FetchBatch,
           BatchesFetched, SearchFails, StarsMove, disk, env
  <2>2. QED
    BY <2>1, CountedSame DEF FilesInv
<1>2. CASE Return
  BY <1>1, <1>2, ReturnFiles
<1>3. CASE Begin \/ ReadPage
  <2>1. /\ phase \in {"idle", "search"} /\ phase' \in {"top", "search"}
        /\ fetched' = fetched /\ written' = written
    BY <1>3 DEF Begin, Enter, ReadPage, output
  <2>2. fetched = {} /\ written = {}
    BY <2>1 DEF FilesInv, TypeOK
  <2>3. QED
    BY <1>1, <2>1, <2>2 DEF FilesInv
<1>4. CASE FetchBatch
  <2>1. phase = "fetch" /\ UNCHANGED <<phase, found, written, files, run>>
    BY <1>4 DEF FetchBatch, FetchRepositoryMetadata, search, disk
  <2>2. fetched' \subseteq fetched \cup Chosen
    BY <1>4 DEF FetchBatch, FetchRepositoryMetadata
  <2>3. Chosen' = Chosen
    BY <2>1 DEF Chosen, Rank
  <2>4. QED
    BY <1>1, <2>1, <2>2, <2>3 DEF FilesInv
<1>5. CASE ShardsCollected \/ PagesRead \/ BatchesFetched \/ StarsMove
  <2>1. /\ UNCHANGED <<found, fetched, written, files, run>>
        /\ phase' \in {"idle", "top", "collect", "search"}
             => phase \in {"idle", "top", "collect", "search"}
    BY <1>5 DEF ShardsCollected, PagesRead, BatchesFetched, StarsMove, Enter, search, output, disk
  <2>2. Chosen' = Chosen
    BY <2>1 DEF Chosen, Rank
  <2>3. QED
    BY <1>1, <2>1, <2>2 DEF FilesInv
<1>6. CASE (ReadTop \/ CountShard) /\ ~Return
  <2>1. /\ phase \in {"top", "collect"} /\ phase' = "collect"
        /\ fetched' = fetched /\ written' = written
    BY <1>6 DEF ReadTop, CountShard, Enter, Counted, output
  <2>2. fetched = {} /\ written = {}
    BY <2>1 DEF FilesInv, TypeOK
  <2>3. QED
    BY <1>1, <2>1, <2>2 DEF FilesInv
<1>7. QED
  BY <1>2, <1>3, <1>4, <1>5, <1>6 DEF SearchFails

\* latest.json never counts repositories whose files are not there, but for one
\* file per kill, however many runs failed or were killed.
THEOREM CountedFiles == Spec => []CountedFilesExist
<1>1. Init => FilesInv
  <2> SUFFICES ASSUME Init PROVE FilesInv
    OBVIOUS
  <2>1. latest.count = 0 /\ kills = 0 /\ Whole = {}
    BY DEF Init, NoSnapshot, Whole
  <2>2. CountedFilesExist
    BY <2>1, FS_EmptySet DEF CountedFilesExist, Whole
  <2>3. QED
    BY <2>2 DEF Init, FilesInv
<1>2. TypeOK /\ TypeOK' /\ FilesInv /\ [Next]_vars => FilesInv'
  <2> SUFFICES ASSUME TypeOK, TypeOK', FilesInv, [Next]_vars PROVE FilesInv'
    OBVIOUS
  <2>1. CASE Next
    BY <2>1, WriteFileStep, WriteSnapshotStep, KillStep, ElsewhereFiles DEF Next, Execute
  <2>2. CASE UNCHANGED vars
    BY <2>2 DEF vars, search, output, disk, env, FilesInv, Chosen, Rank, CountedFilesExist
  <2>3. QED
    BY <2>1, <2>2
<1>3. FilesInv => CountedFilesExist
  BY DEF FilesInv
<1>4. QED
  BY <1>1, <1>2, <1>3, TypeCorrect, PTL DEF Spec

-----------------------------------------------------------------------------
(* No page is missed *)

\* What division by the size of a page does.
LEMMA Division ==
  ASSUME NEW k \in Nat, NEW P \in Nat \ {0}
  PROVE  k \div P \in Nat /\ P * (k \div P) <= k /\ k < P * (k \div P) + P
OBVIOUS

\* A result before the last lies on a page that is counted.
LEMMA PageOfResult ==
  ASSUME NEW k \in Nat, NEW m \in Nat, k < m, NEW P \in Nat \ {0}
  PROVE  k \div P \in Nat /\ k \div P < (m + P - 1) \div P
<1> DEFINE q == k \div P
           c == (m + P - 1) \div P
<1>1. m + P - 1 \in Nat
  OBVIOUS
<1>2. q \in Nat /\ P * q <= k
  BY Division
<1>3. c \in Nat /\ m + P - 1 < P * c + P
  BY <1>1, Division
<1> HIDE DEF q, c
<1>4. P * q \in Nat /\ P * c \in Nat /\ P * q < P * c
  BY <1>2, <1>3
<1>5. q < c
  <2> SUFFICES ASSUME c <= q PROVE FALSE
    BY <1>2, <1>3
  <2>1. q - c \in Nat /\ q = c + (q - c)
    BY <1>2, <1>3
  <2>2. P * (q - c) \in Nat
    BY <2>1
  <2>3. P * q = P * c + P * (q - c)
    BY <1>3, <2>1
  <2>4. QED
    BY <1>4, <2>2, <2>3
<1>6. QED
  BY <1>2, <1>5 DEF q, c

\* The position of a repository among those that match is below their number.
LEMMA PositionBound ==
  ASSUME SearchTypes, NEW S \in SUBSET Repos, NEW r \in S
  PROVE  Position(stars, S, r) \in Nat /\ Position(stars, S, r) < Cardinality(S)
<1> DEFINE ahead == {x \in S : Ahead(stars, x, r)}
<1>1. r \notin ahead
  BY DiscoveryAssumption DEF Ahead, SearchTypes
<1>2. ahead \in SUBSET S /\ ahead # S
  BY <1>1
<1>3. IsFiniteSet(S) /\ Cardinality(S) \in Nat /\ Cardinality(ahead) \in Nat
  BY <1>2, RepoSet
<1>4. Cardinality(ahead) <= Cardinality(S) /\ Cardinality(ahead) # Cardinality(S)
  BY <1>2, <1>3, FS_Subset
<1>5. QED
  BY <1>3, <1>4 DEF Position

\* The leaf that is read next.
NextLeaf(leaf) ==
  leaf \in leaves \ searched /\ \A other \in leaves \ searched : NotAfter(leaf.shard, other.shard)

\* What pages 1 to p - 1 of a shard hold.
ReadBefore(s, p) == {r \in Matching(s) : Position(stars, Matching(s), r) \div PageSize < p - 1}

\* While nothing moves, a leaf matches what it was counted with, the candidates are
\* among the repositories of the root, and they are those of the leaves and of the
\* pages that have been read.
SteadyInv ==
  /\ \A leaf \in leaves : leaf.matched = Cardinality(Matching(leaf.shard))
  /\ DOMAIN found \subseteq Matching(root)
  /\ \A leaf \in searched : Matching(leaf.shard) \subseteq DOMAIN found
  /\ \A leaf \in leaves : NextLeaf(leaf) => ReadBefore(leaf.shard, page) \subseteq DOMAIN found

CompleteInv ==
  /\ phase \in {"idle", "top", "collect"} => searched = {} /\ page = 1 /\ DOMAIN found = {}
  /\ phase \in {"search", "fetch", "write"} => pending = {}
  /\ phase \in {"fetch", "write"} => searched = leaves
  /\ phase \in {"collect", "search", "fetch", "write"} =>
       \A s \in pending \cup LeafShards : Inside(s, root)
  /\ phase \in {"collect", "search", "fetch", "write"} /\ moved = {} => SteadyInv

\* On the first page nothing has been read.
LEMMA FirstPage ==
  ASSUME SearchTypes, NEW s
  PROVE  ReadBefore(s, 1) = {}
<1> SUFFICES ASSUME NEW r \in Matching(s), Position(stars, Matching(s), r) \div PageSize < 0
             PROVE  FALSE
  BY DEF ReadBefore
<1>1. Position(stars, Matching(s), r) \in Nat
  BY PositionBound DEF Matching
<1>2. QED
  BY <1>1, Division, DiscoveryAssumption

\* A page adds what it holds to what was read before it.
LEMMA PageRead ==
  ASSUME SearchTypes, NEW leaf \in leaves, leaf.matched = Cardinality(Matching(leaf.shard))
  PROVE  /\ ReadBefore(leaf.shard, page + 1)
              \subseteq ReadBefore(leaf.shard, page) \cup SearchPage(leaf.shard, page)
         /\ page >= PageCount(leaf) =>
              Matching(leaf.shard) \subseteq ReadBefore(leaf.shard, page + 1)
<1> DEFINE S == Matching(leaf.shard)
           pos(r) == Position(stars, S, r)
<1>1. leaf.matched \in 1 .. MaxShardSize /\ page \in Nat \ {0} /\ PageSize \in Nat \ {0}
      /\ MaxShardSize \in Nat /\ SearchCap \in Nat /\ MaxShardSize <= SearchCap
  BY DiscoveryAssumption DEF SearchTypes, Leaves
<1>2. \A r \in S : pos(r) \in Nat /\ pos(r) < leaf.matched
  BY PositionBound DEF Matching
<1>3. \A r \in S : pos(r) \div PageSize \in Nat /\ pos(r) < SearchCap
  BY <1>1, <1>2, Division
<1>4. \A r \in S : pos(r) \div PageSize < PageCount(leaf)
  BY <1>1, <1>2, PageOfResult DEF PageCount
<1>5. PageCount(leaf) \in Nat
  <2>1. leaf.matched + PageSize - 1 \in Nat
    BY <1>1
  <2>2. QED
    BY <1>1, <2>1, Division DEF PageCount
<1> HIDE DEF pos, S
<1>6. /\ ReadBefore(leaf.shard, page + 1) = {r \in S : pos(r) \div PageSize < (page + 1) - 1}
      /\ ReadBefore(leaf.shard, page) = {r \in S : pos(r) \div PageSize < page - 1}
      /\ SearchPage(leaf.shard, page) =
           {r \in S : pos(r) \div PageSize = page - 1 /\ pos(r) < SearchCap}
  <2>1. ReadBefore(leaf.shard, page + 1) = {r \in S : pos(r) \div PageSize < (page + 1) - 1}
    BY Zenon DEF ReadBefore, pos, S
  <2>2. ReadBefore(leaf.shard, page) = {r \in S : pos(r) \div PageSize < page - 1}
    BY Zenon DEF ReadBefore, pos, S
  <2>3. SearchPage(leaf.shard, page) =
          {r \in S : pos(r) \div PageSize = page - 1 /\ pos(r) < SearchCap}
    BY Zenon DEF SearchPage, pos, S
  <2>4. QED
    BY <2>1, <2>2, <2>3
<1>7. \A r \in S : pos(r) \div PageSize < (page + 1) - 1 =>
        pos(r) \div PageSize < page - 1 \/ pos(r) \div PageSize = page - 1
  <2> SUFFICES ASSUME NEW n \in Nat, n < (page + 1) - 1 PROVE n < page - 1 \/ n = page - 1
    BY <1>3
  <2>1. QED
    BY <1>1
<1>8. ASSUME page >= PageCount(leaf), NEW r \in S PROVE pos(r) \div PageSize < (page + 1) - 1
  <2> DEFINE n == pos(r) \div PageSize
  <2>1. n \in Nat /\ n < PageCount(leaf)
    BY <1>3, <1>4
  <2> HIDE DEF n
  <2>2. n < (page + 1) - 1
    BY <1>1, <1>5, <1>8, <2>1
  <2>3. QED
    BY <2>2 DEF n
<1>9. QED
  BY <1>3, <1>6, <1>7, <1>8 DEF S

\* Only one leaf is next.
LEMMA OneNextLeaf ==
  ASSUME SearchTypes, IInv, SteadyInv, NEW k \in leaves, NEW l \in leaves, NextLeaf(k), NextLeaf(l)
  PROVE  k = l
<1>1. k.shard \in Shards /\ l.shard \in Shards /\ k.shard \in LeafShards /\ l.shard \in LeafShards
  BY DEF SearchTypes, Leaves, LeafShards
<1>2. k.shard.min = l.shard.min /\ k.shard.after = l.shard.after
  <2>1. NotAfter(k.shard, l.shard) /\ NotAfter(l.shard, k.shard)
    BY DEF NextLeaf
  <2>2. QED
    BY <1>1, <2>1 DEF NotAfter, Shards
<1>3. ASSUME NEW x \in {k, l} PROVE Inhabited(x.shard)
  <2>1. x \in Leaves /\ x.matched = Cardinality(Matching(x.shard))
    BY DEF SearchTypes, SteadyInv
  <2>2. Matching(x.shard) # {}
    BY <2>1, FS_EmptySet DEF Leaves
  <2>3. PICK r \in Repos : Matches(x.shard, r)
    BY <2>2 DEF Matching
  <2>4. stars[r] \in Nat /\ CreatedOn[r] \in Nat /\ x.shard \in Shards
    BY <2>1, DiscoveryAssumption DEF SearchTypes, Leaves
  <2>5. QED
    BY <2>3, <2>4 DEF Matches, Inhabited, Shards
<1>4. ~Apart(k.shard, l.shard)
  BY <1>1, <1>2, <1>3 DEF Apart, Inhabited, Shards
<1>5. k.shard = l.shard
  BY <1>1, <1>4 DEF IInv, TileInv
<1>6. k.matched = l.matched
  BY <1>5 DEF SteadyInv
<1>7. QED
  BY <1>5, <1>6 DEF SearchTypes, Leaves

\* What a step that touches none of the search keeps.
LEMMA SearchKept ==
  ASSUME CompleteInv, UNCHANGED <<stars, moved, root, pending, leaves, searched, page, found>>,
         phase' \in {"idle", "top", "collect"} => phase \in {"idle", "top", "collect"},
         phase' = "collect" => phase = "collect",
         phase' = "search" => phase \in {"collect", "search"} /\ pending = {},
         phase' \in {"fetch", "write"} => phase \in {"search", "fetch", "write"} /\ searched = leaves
  PROVE  CompleteInv'
<1>1. SteadyInv' <=> SteadyInv
  BY DEF SteadyInv, Matching, Matches, NextLeaf, ReadBefore
<1>2. LeafShards' = LeafShards
  BY DEF LeafShards
<1>3. phase' \in {"collect", "search", "fetch", "write"} =>
        phase \in {"collect", "search", "fetch", "write"}
  OBVIOUS
<1>4. QED
  BY <1>1, <1>2, <1>3 DEF CompleteInv

\* A run that ends or begins has searched nothing.
LEMMA ReturnComplete ==
  ASSUME Return
  PROVE  CompleteInv'
<1>1. phase' = "idle" /\ searched' = {} /\ page' = 1 /\ DOMAIN found' = {}
  BY DEF Return, Enter
<1>2. QED
  BY <1>1 DEF CompleteInv

\* The root shard lies inside itself.
LEMMA ReadTopComplete ==
  ASSUME TypeOK, TypeOK', IInv, CompleteInv, ReadTop
  PROVE  CompleteInv'
<1>1. CASE Return
  BY <1>1, ReturnComplete
<1>2. CASE ~Return
  <2>1. /\ phase = "top" /\ phase' = "collect" /\ pending' = {root'}
        /\ UNCHANGED <<leaves, searched, page, found>>
    BY <1>2 DEF ReadTop, SearchMaxStars, Enter
  <2>2. leaves = {} /\ searched = {} /\ page = 1 /\ DOMAIN found = {}
    BY <2>1 DEF IInv, TileInv, CompleteInv
  <2>3. root' \in Shards /\ Inside(root', root')
    BY DEF TypeOK, Inside, Shards
  <2>4. LeafShards' = {}
    BY <2>1, <2>2 DEF LeafShards
  <2>5. SteadyInv'
    BY <2>1, <2>2 DEF SteadyInv
  <2>6. QED
    BY <2>1, <2>2, <2>3, <2>4, <2>5 DEF CompleteInv
<1>3. QED
  BY <1>1, <1>2

\* What is counted lies inside the root, and a leaf matches what it was counted with.
LEMMA CountShardComplete ==
  ASSUME TypeOK, IInv, CompleteInv, CountShard
  PROVE  CompleteInv'
<1>1. phase = "collect" /\ UNCHANGED stars /\ SearchTypes
  BY TypeParts DEF CountShard
<1>2. PICK s \in pending :
        \/ pending' \subseteq pending \cup Split(s) /\ Counted /\ UNCHANGED leaves
        \/ /\ pending' = pending \ {s} /\ Counted
           /\ leaves' = leaves \cup {[shard |-> s, matched |-> Cardinality(Matching(s))]}
        \/ Return
  BY DEF CountShard
<1>3. CASE Return
  BY <1>3, ReturnComplete
<1>4. CASE /\ Counted
           /\ pending' \subseteq pending \cup Split(s)
           /\ leaves' \subseteq leaves \cup {[shard |-> s, matched |-> Cardinality(Matching(s))]}
  <2>1. UNCHANGED <<phase, root, searched, page, found, moved>>
    BY <1>4 DEF Counted
  <2>2. searched = {} /\ page = 1 /\ DOMAIN found = {}
    BY <1>1 DEF CompleteInv
  <2>3. \A t : Matching(t)' = Matching(t)
    BY <1>1 DEF Matching, Matches
  <2>4. \A t \in pending' : Inside(t, root')
    <3>1. s \in Shards /\ Inhabited(s) /\ Inside(s, root) /\ root \in Shards
      BY <1>1 DEF SearchTypes, IInv, TileInv, CompleteInv
    <3>2. \A h \in Split(s) : h \in Shards /\ Inside(h, s)
      BY <3>1, SplitTiles
    <3>3. \A h \in Split(s) : Inside(h, root)
      BY <3>1, <3>2 DEF Inside, Shards
    <3>4. \A t \in pending : Inside(t, root)
      BY <1>1 DEF CompleteInv
    <3>5. QED
      BY <1>4, <2>1, <3>3, <3>4
  <2>5. \A t \in LeafShards' : Inside(t, root')
    <3>1. LeafShards' \subseteq LeafShards \cup {s}
      <4> DEFINE new == [shard |-> s, matched |-> Cardinality(Matching(s))]
      <4>1. new.shard = s /\ leaves' \subseteq leaves \cup {new}
        BY <1>4
      <4> HIDE DEF new
      <4>2. QED
        BY <4>1 DEF LeafShards
    <3>2. \A t \in LeafShards \cup {s} : Inside(t, root)
      BY <1>1 DEF CompleteInv
    <3>3. QED
      BY <2>1, <3>1, <3>2
  <2>6. moved' = {} => SteadyInv'
    <3> SUFFICES ASSUME moved = {} PROVE SteadyInv'
      BY <2>1
    <3>1. \A leaf \in leaves : leaf.matched = Cardinality(Matching(leaf.shard))
      BY <1>1 DEF CompleteInv, SteadyInv
    <3>2. \A leaf \in leaves' : leaf.matched = Cardinality(Matching(leaf.shard)')
      <4> DEFINE new == [shard |-> s, matched |-> Cardinality(Matching(s))]
      <4>1. /\ new.shard = s /\ new.matched = Cardinality(Matching(s))
            /\ leaves' \subseteq leaves \cup {new}
        BY <1>4
      <4> HIDE DEF new
      <4>2. \A leaf \in leaves' : leaf.matched = Cardinality(Matching(leaf.shard))
        BY <3>1, <4>1
      <4>3. \A leaf \in leaves' : Matching(leaf.shard)' = Matching(leaf.shard')
        BY <2>3
      <4>4. QED
        BY <4>2, <2>3
    <3>3. \A t : ReadBefore(t, 1)' = {}
      <4>1. \A t : ReadBefore(t, 1)' = ReadBefore(t, 1)
        BY <1>1, <2>3 DEF ReadBefore
      <4>2. \A t : ReadBefore(t, 1) = {}
        BY <1>1, FirstPage
      <4>3. QED
        BY <4>1, <4>2
    <3>4. QED
      BY <2>1, <2>2, <3>2, <3>3 DEF SteadyInv
  <2>7. QED
    BY <1>1, <2>1, <2>2, <2>4, <2>5, <2>6 DEF CompleteInv
<1>5. QED
  BY <1>2, <1>3, <1>4

\* A page that is read belongs to the one leaf that is next.
LEMMA ReadPageComplete ==
  ASSUME TypeOK, IInv, CompleteInv, ReadPage
  PROVE  CompleteInv'
<1>1. /\ phase = "search" /\ SearchTypes
      /\ UNCHANGED <<phase, root, pending, leaves, stars, moved>>
  BY TypeParts DEF ReadPage, env
<1>2. PICK leaf \in leaves \ searched :
        /\ \A other \in leaves \ searched : NotAfter(leaf.shard, other.shard)
        /\ found' = Found(SearchPage(leaf.shard, page))
        /\ IF page < PageCount(leaf)
             THEN page' = page + 1 /\ UNCHANGED searched
             ELSE page' = 1 /\ searched' = searched \cup {leaf}
  BY DEF ReadPage
<1>3. /\ DOMAIN found' = DOMAIN found \cup SearchPage(leaf.shard, page)
      /\ SearchPage(leaf.shard, page) \subseteq Matching(leaf.shard)
      /\ Matching(leaf.shard) \subseteq Repos
  BY <1>2 DEF Found, SearchPage, Matching
<1>4. LeafShards' = LeafShards /\ \A t : Matching(t)' = Matching(t)
  BY <1>1 DEF LeafShards, Matching, Matches
<1>5. ASSUME moved = {} PROVE SteadyInv'
  <2>1. SteadyInv /\ NextLeaf(leaf)
    BY <1>1, <1>2, <1>5 DEF CompleteInv, NextLeaf
  <2>2. leaf.matched = Cardinality(Matching(leaf.shard))
    BY <2>1 DEF SteadyInv
  <2>3. ReadBefore(leaf.shard, page + 1) \subseteq DOMAIN found'
    <3>1. ReadBefore(leaf.shard, page) \subseteq DOMAIN found
      BY <2>1 DEF SteadyInv
    <3>2. QED
      BY <1>1, <1>3, <2>2, <3>1, PageRead
  <2>4. \A l \in leaves' : l.matched = Cardinality(Matching(l.shard)')
    BY <1>1, <1>4, <2>1 DEF SteadyInv
  <2>5. DOMAIN found' \subseteq Matching(root)'
    <3>1. Matching(leaf.shard) \subseteq Matching(root)
      <4>1. leaf.shard \in LeafShards /\ leaf.shard \in Shards /\ root \in Shards
        BY <1>1 DEF LeafShards, SearchTypes, Leaves
      <4>2. Inside(leaf.shard, root)
        BY <1>1, <4>1 DEF CompleteInv
      <4>3. \A r \in Repos : stars[r] \in Nat /\ CreatedOn[r] \in Nat
        BY <1>1, DiscoveryAssumption DEF SearchTypes
      <4>4. QED
        BY <4>1, <4>2, <4>3 DEF Matching, Matches, Inside, Shards
    <3>2. Matching(root)' = Matching(root)
      BY <1>1 DEF Matching, Matches
    <3>3. QED
      BY <1>3, <2>1, <3>1, <3>2 DEF SteadyInv
  <2>6. \A l \in searched' : Matching(l.shard)' \subseteq DOMAIN found'
    <3>1. \A l \in searched : Matching(l.shard) \subseteq DOMAIN found'
      BY <1>3, <2>1 DEF SteadyInv
    <3>2. CASE page < PageCount(leaf)
      BY <1>2, <1>4, <3>1, <3>2
    <3>3. CASE ~(page < PageCount(leaf))
      <4>1. page >= PageCount(leaf)
        <5>1. leaf.matched \in Nat /\ PageSize \in Nat \ {0} /\ page \in Nat
          BY <1>1, DiscoveryAssumption DEF SearchTypes, Leaves
        <5>2. leaf.matched + PageSize - 1 \in Nat
          BY <5>1
        <5>3. PageCount(leaf) \in Nat
          BY <5>1, <5>2, Division DEF PageCount
        <5>4. QED
          BY <3>3, <5>1, <5>3
      <4>2. Matching(leaf.shard) \subseteq DOMAIN found'
        BY <1>1, <2>2, <2>3, <4>1, PageRead
      <4>3. \A l \in searched' : Matching(l.shard) \subseteq DOMAIN found'
        BY <1>2, <3>1, <3>3, <4>2
      <4>4. QED
        BY <1>4, <4>3
    <3>4. QED
      BY <3>2, <3>3
  <2>7. ASSUME NEW l \in leaves, NextLeaf(l)'
        PROVE  ReadBefore(l.shard, page') \subseteq DOMAIN found'
    <3>1. CASE page < PageCount(leaf)
      <4>1. NextLeaf(l) /\ page' = page + 1
        BY <1>1, <1>2, <2>7, <3>1 DEF NextLeaf
      <4>2. l = leaf
        BY <1>1, <2>1, <4>1, OneNextLeaf
      <4>3. QED
        BY <2>3, <4>1, <4>2
    <3>2. CASE ~(page < PageCount(leaf))
      BY <1>1, <1>2, <3>2, FirstPage
    <3>3. QED
      BY <3>1, <3>2
  <2>8. \A l \in leaves' : NextLeaf(l)' => ReadBefore(l.shard, page)' \subseteq DOMAIN found'
    <3>1. \A l \in leaves : ReadBefore(l.shard, page)' = ReadBefore(l.shard, page')
      BY <1>1, <1>4 DEF ReadBefore
    <3>2. QED
      BY <1>1, <2>7, <3>1
  <2>9. QED
    BY <2>4, <2>5, <2>6, <2>8 DEF SteadyInv
<1>6. QED
  BY <1>1, <1>4, <1>5 DEF CompleteInv

\* The other steps.
LEMMA ElsewhereComplete ==
  ASSUME TypeOK, CompleteInv,
         \/ Begin \/ ShardsCollected \/ PagesRead \/ FetchBatch \/ BatchesFetched
         \/ WriteFile \/ WriteSnapshot \/ SearchFails \/ Kill \/ StarsMove
  PROVE  CompleteInv'
<1>1. CASE WriteSnapshot \/ SearchFails \/ Kill
  BY <1>1, ReturnComplete DEF WriteSnapshot, SearchFails, Kill
<1>2. CASE Begin
  <2>1. phase = "idle" /\ phase' = "top" /\ UNCHANGED search
    BY <1>2 DEF Begin, Enter
  <2>2. QED
    BY <2>1 DEF CompleteInv, search
<1>3. CASE StarsMove
  <2>1. moved' # {} /\ UNCHANGED <<phase, root, pending, leaves, searched, page, found>>
    BY <1>3 DEF StarsMove, search
  <2>2. LeafShards' = LeafShards
    BY <2>1 DEF LeafShards
  <2>3. QED
    BY <2>1, <2>2 DEF CompleteInv
<1>4. CASE ShardsCollected \/ PagesRead \/ FetchBatch \/ BatchesFetched \/ WriteFile
  <2>1. UNCHANGED <<stars, moved, root, pending, leaves, searched, page, found>>
    BY <1>4 DEF ShardsCollected, PagesRead, FetchBatch, BatchesFetched, WriteFile, search, env
  <2>2. \/ phase = "collect" /\ phase' = "search" /\ pending = {}
        \/ phase = "search" /\ phase' = "fetch" /\ searched = leaves
        \/ phase = "fetch" /\ phase' \in {"fetch", "write"}
        \/ phase = "write" /\ phase' = "write"
    BY <1>4 DEF ShardsCollected, PagesRead, FetchBatch, BatchesFetched, WriteFile, Enter
  <2>3. searched = leaves \/ phase \notin {"search", "fetch", "write"} \/ phase' = "search"
    BY <2>2 DEF CompleteInv
  <2>4. QED
    BY <2>1, <2>2, <2>3, SearchKept DEF CompleteInv
<1>5. QED
  BY <1>1, <1>2, <1>3, <1>4

\* If no star count changed since the run began, the candidates are exactly the
\* repositories that the root shard describes: neither a shard boundary nor a
\* page boundary, a tie or the cap of GitHub Search loses one.
THEOREM CatalogAlwaysComplete == Spec => []CatalogComplete
<1>1. Init => CompleteInv
  BY DEF Init, CompleteInv
<1>2. TypeOK /\ TypeOK' /\ IInv /\ CompleteInv /\ [Next]_vars => CompleteInv'
  <2> SUFFICES ASSUME TypeOK, TypeOK', IInv, CompleteInv, [Next]_vars PROVE CompleteInv'
    OBVIOUS
  <2>1. CASE Next
    BY <2>1, ReadTopComplete, CountShardComplete, ReadPageComplete, ElsewhereComplete
       DEF Next, Execute
  <2>2. CASE UNCHANGED vars
    <3>1. UNCHANGED <<phase, stars, moved, root, pending, leaves, searched, page, found>>
      BY <2>2 DEF vars, search, env
    <3>2. \A s : Matching(s)' = Matching(s)
      BY <3>1 DEF Matching, Matches
    <3>3. SteadyInv' <=> SteadyInv
      BY <3>1 DEF SteadyInv, Matching, Matches, NextLeaf, ReadBefore
    <3>4. LeafShards' = LeafShards
      BY <3>1 DEF LeafShards
    <3>5. QED
      BY <3>1, <3>3, <3>4 DEF CompleteInv
  <2>3. QED
    BY <2>1, <2>2
<1>3. TypeOK /\ IInv /\ CompleteInv => CatalogComplete
  <2> SUFFICES ASSUME TypeOK, IInv, CompleteInv, phase \in {"fetch", "write"}, moved = {}
               PROVE  DOMAIN found = Matching(root)
    BY DEF CatalogComplete
  <2>1. SteadyInv /\ pending = {} /\ searched = leaves
    BY DEF CompleteInv
  <2>2. ASSUME NEW r \in Matching(root) PROVE r \in DOMAIN found
    <3>1. PICK s \in LeafShards : Matches(s, r)
      BY <2>1 DEF IInv, TileInv
    <3>2. PICK leaf \in leaves : leaf.shard = s
      BY DEF LeafShards
    <3>3. r \in Matching(leaf.shard)
      BY <3>1, <3>2 DEF Matching
    <3>4. QED
      BY <2>1, <3>3 DEF SteadyInv
  <2>3. QED
    BY <2>1, <2>2 DEF SteadyInv
<1>4. QED
  BY <1>1, <1>2, <1>3, TypeCorrect, Invariance, PTL DEF Spec
=============================================================================
