--------------------------- MODULE RealSelection ---------------------------
(***************************************************************************)
(* How the importer chooses boxes from published rows: the halves of CMAB, *)
(* the quotas of GeoLife, the proposals of COCO, the integer boxes round   *)
(* GeoLife points and the count of boxes that only touch.  The rows may    *)
(* arrive in any order: a step exchanges two neighbours.                   *)
(*                                                                         *)
(* Texts (a file, a split) are numbers in their order.  A float is an      *)
(* integer; only its order and its tile matter.                            *)
(***************************************************************************)
EXTENDS Integers, FiniteSets, Sequences, FiniteSetsExt

CONSTANTS
  Inputs,         \* published relations: [dataset, rows, target, salt]
  Hash(_, _),     \* stable_hash of a tag and a tuple of numbers; may collide
  Canonical(_),   \* canonical JSON of a tuple, as a number in the order of its bytes
  Tile,           \* tile_size_m, tile_size_cm
  Images,         \* the image index of COCO: records [split, id, z]
  Shards,         \* its build manifest: records [start, end]
  GroupSize,      \* rows of a row group of a shard
  Unsummarised,   \* row groups that carry no statistics
  Limit,          \* 2^63: an int64 lies in -Limit .. Limit - 1
  Radius          \* spatial_radius_cm, time_radius_ms

\* What the columns of a published row hold, by the relation it belongs to.
IsRow(relation, row) ==
  CASE relation = "CMAB" -> row \in [file : Nat, fid : Int, func : Int, cx : Int, cy : Int]
    [] relation = "GeoLife" ->
         row \in [user : Int, traj : Int, point : Int, time : Int, x : Int, y : Int]
    [] relation = "COCO" ->
         row \in [shard : Int, z : Int, zEnd : Int, image : Int, type : Int, rank : Int,
                 rect : Int, proper : BOOLEAN]
    [] relation = "boxes" ->
         /\ row \in [lower : [1 .. 2 -> Int], upper : [1 .. 2 -> Int]]
         /\ \A axis \in 1 .. 2 : row.lower[axis] < row.upper[axis]
    [] OTHER -> row \in [lo : -Limit .. Limit - 1, hi : -Limit .. Limit - 1]

ASSUME InputsAssumption ==
  \A input \in Inputs :
    /\ input.rows \in Seq({input.rows[i] : i \in DOMAIN input.rows})
    /\ \A i \in DOMAIN input.rows : IsRow(input.dataset, input.rows[i])
    /\ input.target \in Nat /\ input.salt \in Nat
ASSUME ImagesAssumption == Images \subseteq [split : Int, id : Int, z : Int]
ASSUME NumbersAssumption == Tile \in Nat \ {0} /\ Limit \in Nat /\ Radius \in 0 .. Limit - 1

VARIABLES dataset, rows, target, salt,
  chosen          \* the last choice: rows, sides and ids
selectVars == <<dataset, rows, target, salt, chosen>>

Rows == DOMAIN rows
Sides == {"R", "S"}

\* Tuples of numbers in lexicographic order, as sort keys are compared.
Before(a, b) == \E i \in DOMAIN a : a[i] < b[i] /\ \A j \in 1 .. i - 1 : a[j] = b[j]
Rank(x, S, key) == Cardinality({y \in S : Before(key[y], key[x])})
\* The first n of S when S is sorted by key.
Smallest(n, S, key) == {x \in S : Rank(x, S, key) < n}
Sum(f, S) == MapThenSumSet(LAMBDA x : f[x], S)

(***************************************************************************)
(* CMAB: a building is named by its source file and its number there; half *)
(* of the buildings of every class and tile go to R.                       *)
(***************************************************************************)
EmptyText == 0
SourceKey == [i \in Rows |-> <<rows[i].file, rows[i].fid>>]
CmabIdentityFails ==
  \/ rows = <<>>
  \/ \E i \in Rows : rows[i].file = EmptyText \/ rows[i].fid < 0
  \/ \E i, j \in Rows : i # j /\ SourceKey[i] = SourceKey[j]
PublishedOrder == [i \in Rows |-> i]
CmabId == [i \in Rows |-> Rank(i, Rows, SourceKey)]

CmabStratum(i) == <<rows[i].func, rows[i].cx \div Tile, rows[i].cy \div Tile>>
CmabStrata == {CmabStratum(i) : i \in Rows}
CmabMembers(k) == {i \in Rows : CmabStratum(i) = k}
Odd == {k \in CmabStrata : Cardinality(CmabMembers(k)) % 2 = 1}
Missing == target - Sum([k \in CmabStrata |-> Cardinality(CmabMembers(k)) \div 2],
                        CmabStrata)
\* The odd strata that come first by hash give their odd building to R.
Rounded == Smallest(Missing, Odd, [k \in Odd |-> <<Hash(salt, k), Canonical(k)>>])
CmabQuota(k) == Cardinality(CmabMembers(k)) \div 2 + IF k \in Rounded THEN 1 ELSE 0
CmabKey == [i \in Rows |-> <<Hash(salt, <<CmabId[i]>>), CmabId[i]>>]
CmabR == UNION {Smallest(CmabQuota(k), CmabMembers(k), CmabKey) : k \in CmabStrata}
CmabFails == CmabIdentityFails \/ Missing < 0 \/ Missing > Cardinality(Odd)

(***************************************************************************)
(* GeoLife: users alternate between the sides; each side shares its places *)
(* among strata by largest remainder and takes slices of the sorted pool.  *)
(***************************************************************************)
Users == {rows[i].user : i \in Rows}
UserSide(u) ==
  LET key == [v \in Users |-> <<Hash(salt, <<v>>), v>>]
  IN IF Rank(u, Users, key) % 2 = 0 THEN "R" ELSE "S"
Pool(side) == {i \in Rows : UserSide(rows[i].user) = side}

\* A time is counted in months: equal months of two years are one stratum.
GeoStratum(i) == <<(rows[i].time % 12) + 1, rows[i].x \div Tile, rows[i].y \div Tile>>
PointKey(i) == <<rows[i].traj, rows[i].point>>
Priority(i) == Hash(salt, PointKey(i))

Groups(pool) == {GeoStratum(i) : i \in pool}
PoolSizes(pool) == [k \in Groups(pool) |-> Cardinality({i \in pool : GeoStratum(i) = k})]
QuotasRoundedUp(pool) ==
  [k \in Groups(pool) |->
     (PoolSizes(pool)[k] * target + Cardinality(pool) - 1) \div Cardinality(pool)]
\* Shares rounded down; what is missing goes to the largest remainders.
Quotas(pool) ==
  LET groups == Groups(pool)
      share  == [k \in groups |-> (PoolSizes(pool)[k] * target) \div Cardinality(pool)]
      key    == [k \in groups |->
                   <<-((PoolSizes(pool)[k] * target) % Cardinality(pool)), Hash(salt, k)>> \o k]
      more   == Smallest(target - Sum(share, groups), groups, key)
  IN [k \in groups |-> share[k] + IF k \in more THEN 1 ELSE 0]

\* The order of the sort is stable: rows that agree in all keep their order.
GeoKey == [i \in Rows |-> GeoStratum(i) \o <<Priority(i)>> \o PointKey(i) \o <<i>>]
Slice(pool, k, quota) ==
  LET start == Min({Rank(i, pool, GeoKey) : i \in {j \in pool : GeoStratum(j) = k}})
  IN {i \in pool : Rank(i, pool, GeoKey) \in start .. start + quota - 1}
Slices(side) ==
  LET pool == Pool(side)
      quotas == Quotas(pool)
  IN [k \in Groups(pool) |-> Slice(pool, k, quotas[k])]
GeoChosen(side) == UNION {Slices(side)[k] : k \in DOMAIN Slices(side)}

GeoSelected == GeoChosen("R") \union GeoChosen("S")
GeoFails ==
  \/ \E side \in Sides : Cardinality(Pool(side)) < target
  \/ \E i, j \in GeoSelected : i # j /\ PointKey(i) = PointKey(j)
GeoId == [i \in GeoSelected |->
            Rank(i, GeoSelected, [j \in GeoSelected |-> PointKey(j)])]

(***************************************************************************)
(* Published bounds to a centre, and a centre to a box, in int64.          *)
(***************************************************************************)
Wrap(n) == ((n + Limit) % (2 * Limit)) - Limit
Delta(lo, hi) == Wrap(hi - lo)
HasCentre(lo, hi) == Delta(lo, hi) >= 0 /\ Delta(lo, hi) % 2 = 0
Centre(lo, hi) == Wrap(lo + Delta(lo, hi) \div 2)
BoxFitsButItsEnd(c) ==
  c >= Wrap(-Limit + Radius) /\ c <= Wrap(Limit - 1 - Radius)
BoxFits(c) == c >= Wrap(-Limit + Radius) /\ c <= Wrap(Wrap(Limit - 1 - Radius) - 1)
BoxOf(c) == [lower |-> Wrap(c - Radius), upper |-> Wrap(Wrap(c + Radius) + 1)]

(***************************************************************************)
(* COCO: the images that come first by hash; their proposals are read from *)
(* the row groups whose statistics admit them, and halved by hash.         *)
(***************************************************************************)
Selected ==
  Smallest(target, Images,
           [m \in Images |-> <<Hash(salt, <<m.split, m.id>>), m.split, m.id>>])
ShardsOf(z) == {s \in DOMAIN Shards : Shards[s].start <= z /\ z < Shards[s].end}
ImagesIn(s) == {m.z : m \in {n \in Selected : s \in ShardsOf(n.z)}}

InShard(s) == {i \in Rows : rows[i].shard = s}
Group(i) == Cardinality({j \in InShard(rows[i].shard) : j < i}) \div GroupSize
RowGroup(s, g) == {i \in InShard(s) : Group(i) = g}
RowGroupsStrictly(s, wanted) ==
  {g \in {Group(i) : i \in InShard(s)} :
     \E z \in wanted : \E i, j \in RowGroup(s, g) : rows[i].z <= z /\ z < rows[j].z}
\* Row groups of a shard that may hold one of the wanted slices.
RowGroupsForZ(s, wanted) ==
  {g \in {Group(i) : i \in InShard(s)} :
     \/ <<s, g>> \in Unsummarised
     \/ LET zs == {rows[i].z : i \in RowGroup(s, g)}
        IN \E z \in wanted : Min(zs) <= z /\ z <= Max(zs)}
Proposal == 1
Proposals(m) ==
  {i \in Rows : /\ rows[i].shard \in ShardsOf(m.z)
                /\ Group(i) \in RowGroupsForZ(rows[i].shard, ImagesIn(rows[i].shard))
                /\ rows[i].type = Proposal /\ rows[i].z = m.z}

PerImage == 2
CocoKey(m) ==
  [i \in Rows |-> <<Hash(salt, <<m.split, m.id, rows[i].rank, rows[i].rect>>),
                    rows[i].rank, rows[i].rect>>]
CocoR(m) == Smallest(PerImage \div 2, Proposals(m), CocoKey(m))
\* A proposal is proper if its coordinates are finite float32 values and each
\* lower one is below the upper one.
CocoFails ==
  \/ Cardinality(Images) < target
  \/ \E m \in Selected :
       \/ Cardinality(ShardsOf(m.z)) # 1
       \/ Cardinality(Proposals(m)) # PerImage
       \/ \E i \in Proposals(m) :
            rows[i].image # m.id \/ rows[i].zEnd # m.z + 1 \/ ~rows[i].proper
       \/ {rows[i].rank : i \in Proposals(m)} # 1 .. PerImage
  \/ LET all == UNION {Proposals(m) : m \in Selected}
     IN \E i, j \in all : i # j /\ rows[i].rect = rows[j].rect

(***************************************************************************)
(* Boxes of two axes: the first half of the rows is R, the others are S.   *)
(* Endpoints are sorted, and pairs that fail are counted and taken away.   *)
(***************************************************************************)
TouchR == {i \in Rows : i <= Len(rows) \div 2}
TouchS == Rows \ TouchR
InnerOverlapCount(A, B, axis) ==
  Cardinality({p \in A \X B : /\ rows[p[2]].upper[axis] > rows[p[1]].lower[axis]
                              /\ rows[p[2]].lower[axis] < rows[p[1]].upper[axis]})
ClosedOverlapCount(A, B, axis) ==
  Cardinality(A) * Cardinality(B)
    - Cardinality({p \in A \X B : rows[p[2]].upper[axis] < rows[p[1]].lower[axis]})
    - Cardinality({p \in A \X B : rows[p[2]].lower[axis] > rows[p[1]].upper[axis]})

End(i, axis, end) == IF end = "upper" THEN rows[i].upper[axis] ELSE rows[i].lower[axis]
Opposite(end) == IF end = "upper" THEN "lower" ELSE "upper"
\* Pairs whose given end meets the opposite one on an axis: group by group.
TouchCount(axis, end) ==
  LET at(v) == ClosedOverlapCount({i \in TouchR : End(i, axis, end) = v},
                                  {j \in TouchS : End(j, axis, Opposite(end)) = v},
                                  3 - axis)
     places == {End(i, axis, end) : i \in TouchR}
  IN Sum([v \in places |-> at(v)], places)
CornerCount(endX, endY) ==
  Cardinality({p \in TouchR \X TouchS :
                 /\ End(p[1], 1, endX) = End(p[2], 1, Opposite(endX))
                 /\ End(p[1], 2, endY) = End(p[2], 2, Opposite(endY))})
TouchingPairs ==
  LET ends == {"upper", "lower"}
  IN Sum([e \in ends |-> TouchCount(1, e) + TouchCount(2, e)], ends)
       - Sum([e \in ends \X ends |-> CornerCount(e[1], e[2])], ends \X ends)

-----------------------------------------------------------------------------
\* Which rows are chosen, for which side and under which id.
Choice ==
  CASE dataset = "CMAB" /\ ~CmabFails ->
         {<<CmabId[i], rows[i], i \in CmabR>> : i \in Rows}
    [] dataset = "GeoLife" /\ ~GeoFails ->
         {<<GeoId[i], rows[i], i \in GeoChosen("R")>> : i \in GeoSelected}
    [] dataset = "COCO" /\ ~CocoFails ->
         {<<p[1].id, rows[p[2]], p[2] \in CocoR(p[1])>> : p \in
            {q \in Selected \X Rows : q[2] \in Proposals(q[1])}}
    [] OTHER -> {}

Nothing == {"nothing chosen yet"}

SelectInit == \E input \in Inputs :
  /\ dataset = input.dataset /\ rows = input.rows
  /\ target = input.target /\ salt = input.salt
  /\ chosen = Nothing

Import == chosen' = Choice /\ UNCHANGED <<dataset, rows, target, salt>>

\* The same relation published in another order, after a first import.
Exchange(i) ==
  /\ chosen # Nothing
  /\ rows' = [rows EXCEPT ![i] = rows[i + 1], ![i + 1] = rows[i]]
  /\ UNCHANGED <<dataset, target, salt, chosen>>

SelectNext == Import \/ \E i \in 1 .. Len(rows) - 1 : Exchange(i)
SelectSpec == SelectInit /\ [][SelectNext]_selectVars

-----------------------------------------------------------------------------
\* A relation is halved or thinned fairly and to size: every stratum of CMAB
\* gives R half of its buildings, give or take one; every stratum of GeoLife
\* gives its share, give or take one, out of its own rows and only once; no
\* user is on both sides.  These are the assertions at the end of
\* cmab_split_indices and select_geolife_indices, and what they leave open:
\* a quota above the size of its stratum would reach into the next one.
SharesAreFair ==
  /\ dataset = "CMAB" /\ ~CmabFails =>
       /\ Cardinality(CmabR) = target
       /\ \A k \in CmabStrata :
            2 * Cardinality(CmabMembers(k) \intersect CmabR)
              - Cardinality(CmabMembers(k)) \in -1 .. 1
  /\ dataset = "GeoLife" /\ ~GeoFails =>
       /\ \A side \in Sides : \A k \in DOMAIN Slices(side) :
            LET n == Cardinality(Pool(side))
                slice == Slices(side)[k]
                given == Cardinality(slice) * n - PoolSizes(Pool(side))[k] * target
            IN given > -n /\ given < n /\ \A i \in slice : GeoStratum(i) = k
       /\ \A side \in Sides : Cardinality(GeoChosen(side)) = target
       /\ {rows[i].user : i \in GeoChosen("R")}
            \intersect {rows[i].user : i \in GeoChosen("S")} = {}

PointsAreUnique ==
  dataset = "GeoLife" =>
    \A i, j \in Rows : PointKey(i) = PointKey(j) => i = j

\* The choice, the sides and the ids do not depend on the order in which the
\* rows are published, nor does a refusal: the levels of CMAB are separate
\* files whose ids must agree, and hashes may collide.
ChoiceIgnoresOrder ==
  [][PointsAreUnique /\ chosen # Nothing => chosen' = chosen]_selectVars

\* Reading only the row groups whose statistics admit a wanted slice loses no
\* proposal of a selected image (_row_groups_for_z), and both sides get half.
ReadsEveryProposal ==
  dataset = "COCO" =>
    \A m \in Selected :
      /\ Proposals(m) = {i \in Rows : /\ rows[i].shard \in ShardsOf(m.z)
                                      /\ rows[i].type = Proposal /\ rows[i].z = m.z}
      /\ ~CocoFails => 2 * Cardinality(CocoR(m)) = Cardinality(Proposals(m))

Touches(r, s) ==
  /\ \A axis \in 1 .. 2 : r.lower[axis] <= s.upper[axis] /\ s.lower[axis] <= r.upper[axis]
  /\ \E axis \in 1 .. 2 : r.lower[axis] = s.upper[axis] \/ s.lower[axis] = r.upper[axis]

\* The sum over axes and ends less the corners (boundary_touching_diagnostic)
\* counts every pair of boxes once that has a common border point and no
\* common inner one.
TouchingIsExact ==
  dataset = "boxes" =>
    TouchingPairs = Cardinality({p \in TouchR \X TouchS : Touches(rows[p[1]], rows[p[2]])})

\* Which published bounds pass, and what becomes of them, although every
\* int64 of _load_geolife_candidates and geolife_boxes wraps: bounds pass that
\* are an even number apart and in order, no further apart than int64 holds,
\* or that are reversed by more than that, since their difference wraps to a
\* positive one.  The former give their true centre, the latter a centre half
\* the range away from it.  Where the box of a centre is taken it does not wrap.
BoxesAreExact ==
  dataset = "bounds" =>
    \A i \in Rows : LET lo == rows[i].lo
                        hi == rows[i].hi
                        c  == Centre(lo, hi)
      IN /\ HasCentre(lo, hi) <=>
              /\ (hi - lo) % 2 = 0
              /\ lo - hi > Limit \/ (lo <= hi /\ hi - lo < Limit)
         /\ HasCentre(lo, hi) =>
              /\ 2 * c - (lo + hi) \in IF lo <= hi THEN {0} ELSE {-2 * Limit, 2 * Limit}
              /\ BoxFits(c) => BoxOf(c) = [lower |-> c - Radius, upper |-> c + Radius + 1]

\* What one would like to say, but for reversed bounds: the refusal is worded
\* "bounds have no integer center" (hf_real.py 1415-1417), so that bounds that
\* are not refused have theirs.
BoundsHaveTheirCentre ==
  dataset = "bounds" =>
    \A i \in Rows : HasCentre(rows[i].lo, rows[i].hi) =>
      2 * Centre(rows[i].lo, rows[i].hi) = rows[i].lo + rows[i].hi
=============================================================================
