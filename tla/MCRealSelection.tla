-------------------------- MODULE MCRealSelection --------------------------
EXTENDS RealSelection

\* Under salt 0 all hashes collide; under the others only some do.
SmallHash(s, key) ==
  ((s + 2) * key[1] + 2 * key[Len(key)] + Len(key)) % (2 * s + 1)

\* A minus sign comes before the digits; numbers have one digit here.
Byte(n) == IF n < 0 THEN -n ELSE 10 + n
SmallCanonical(key) == 400 * Byte(key[1]) + 20 * Byte(key[2]) + Byte(key[3])

Salts == 0 .. 1
Of(name, relations, targets) ==
  [dataset : {name}, rows : relations, target : targets, salt : Salts]

Building(file, fid, func, cx) ==
  [file |-> file, fid |-> fid, func |-> func, cx |-> cx, cy |-> 0]
\* Strata of even and odd sizes, on both sides of a tile's border.
Buildings ==
  {<<Building(1, 0, 1, 0), Building(1, 1, 1, 1), Building(2, 0, 1, f),
     Building(2, 1, g, -1), Building(1, 2, g, 1)>> : f \in {0, 2}, g \in 1 .. 2}
  \union {<<Building(1, 0, 1, 0), Building(1, 0, 1, 1)>>,
          <<Building(1, -1, 1, 0), Building(2, 0, 1, 1)>>,
          <<Building(0, 1, 1, 0), Building(2, 0, 1, 1)>>}

Point(user, point, time, x) ==
  [user |-> user, traj |-> user, point |-> point, time |-> time, x |-> x, y |-> 0]
Points ==
  {<<Point(1, 0, 0, 0), Point(1, 1, 12, 1), Point(1, 2, t, x),
     Point(2, 0, 3, 0), Point(u, 3 - u, 3, 2)>> :
     t \in {1, 24}, x \in {0, 2}, u \in 2 .. 3}
  \union {<<Point(1, 0, 0, 0), Point(1, 0, 1, 0), Point(2, 0, 0, 0), Point(2, 1, 0, 0)>>}

Row(s, z, type, rank, rect) ==
  [shard |-> s, z |-> z, zEnd |-> z + 1, image |-> 10 + z, type |-> type, rank |-> rank,
   rect |-> rect, proper |-> TRUE]
TwoImages == {[split |-> 1, id |-> 10, z |-> 0], [split |-> 0, id |-> 12, z |-> 2],
              [split |-> 1, id |-> 13, z |-> 3]}
TwoShards == <<[start |-> 0, end |-> 3], [start |-> 3, end |-> 4]>>
Proposed ==
  {<<Row(1, 0, 1, 1, 1), Row(1, 0, 1, 2, 2), Row(1, z, 1, 1, 3),
     Row(1, 2, 1, 2, 4), Row(1, 2, t, 1, 5)>> : z \in 1 .. 2, t \in 0 .. 1}
  \union {<<Row(2, 3, 1, 1, 1), Row(2, 3, 1, 2, r), Row(1, 2, 1, 1, 3),
            Row(1, 2, 1, 2, 4), Row(1, 1, 1, 1, 5)>> : r \in 1 .. 2}
  \union {<<[Row(1, 0, 1, 1, 1) EXCEPT !.zEnd = e], Row(1, 0, 1, 2, 2),
            [Row(1, 2, 1, 1, 3) EXCEPT !.proper = p], Row(1, 2, 1, 2, 4)>> :
              e \in {1, 2}, p \in BOOLEAN}
SomeUnsummarised == {<<1, 1>>}

Box(l1, u1, l2, u2) == [lower |-> <<l1, l2>>, upper |-> <<u1, u2>>]
SmallBoxes == {Box(l[1], u[1], l[2], u[2]) :
                 <<l, u>> \in {<<<<0, 0>>, <<1, 1>>>>, <<<<0, 1>>, <<1, 2>>>>,
                               <<<<1, 0>>, <<2, 1>>>>, <<<<1, 1>>, <<2, 2>>>>,
                               <<<<0, 1>>, <<2, 2>>>>}}
Boxes == [1 .. 4 -> SmallBoxes]

Int64 == -Limit .. Limit - 1
Bounds == {<<[lo |-> 0, hi |-> 2], [lo |-> lo, hi |-> hi]>> : lo \in Int64, hi \in Int64}

AllInputs ==
  Of("CMAB", Buildings, 1 .. 4) \union Of("GeoLife", Points, 1 .. 2)
    \union Of("COCO", Proposed, 1 .. 2)
    \union [dataset : {"boxes"}, rows : Boxes, target : {0}, salt : {0}]
    \union [dataset : {"bounds"}, rows : Bounds, target : {0}, salt : {0}]
=============================================================================
