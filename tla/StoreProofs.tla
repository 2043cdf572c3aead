---------------------------- MODULE StoreProofs -----------------------------
(***************************************************************************)
(* What the FAT32 driver promises from outside, for every size of table,   *)
(* cluster and directory: it implements FileStore, its replies are true,   *)
(* reads return what was written, and a first power loss harms nothing     *)
(* but what the interrupted request named.                                 *)
(*                                                                         *)
(* Shelf is the content of a volume without the entries that the request   *)
(* in work is about to add or remove; StoreInv says, label by label, how   *)
(* it relates to items, the content when the driver was last idle.  The    *)
(* data of a file is a recursive function of its first cluster, so what a  *)
(* request leaves alone is shown by induction along the chains, which      *)
(* ascend.                                                                 *)
(***************************************************************************)
EXTENDS FAT32Store, VolumeProofs, WellFoundedInduction

-----------------------------------------------------------------------------
(* The data of files.                                                       *)

\* A set of numbers has a least one: the induction the lemmas below use.
LEMMA Least ==
    ASSUME NEW S, S \subseteq Nat, S # {}
    PROVE  \E n \in S : \A m \in S : n <= m
<1> DEFINE R == OpToRel(<, Nat)
<1>1. IsWellFoundedOn(R, Nat)
  BY NatLessThanWellFounded
<1>2. \A x \in Nat, y \in Nat : <<y, x>> \in R <=> y < x
  BY DEF OpToRel
<1> HIDE DEF R
<1>3. PICK x \in S : \A y \in S : ~(<<y, x>> \in R)
  BY <1>1, WFMin
<1>4. ASSUME NEW y \in S PROVE x <= y
  <2>1. x \in Nat /\ y \in Nat
    OBVIOUS
  <2>2. ~(y < x)
    BY <1>2, <1>3, <2>1
  <2> QED
    BY <2>1, <2>2
<1> QED
  BY <1>4

\* One round of the recursion of Data.
Round(vol, map, f, c) == <<vol[c].chunk>> \o (IF HasNext(map, c) THEN f[map[c]] ELSE <<>>)

\* The recursion of Data is sound, since links ascend: it has a solution from the last
\* cluster down to each.
LEMMA DataUnfolds ==
    ASSUME NEW vol, NEW map
    PROVE  Data(vol, map) = [c \in Clusters |-> Round(vol, map, Data(vol, map), c)]
<1> DEFINE N == CLUSTER_MAP_SIZE
           P(k, g) == g = [c \in k..N |-> Round(vol, map, g, c)]
           bad == {n \in 0..(N - 1) : ~ \E g : P(N + 1 - n, g)}
<1>0. N \in Nat /\ N > 3
  BY FAT32Assumption
<1>1. \E g : P(N + 1, g)
  <2>1. (N + 1)..N = {}
    BY <1>0
  <2> WITNESS [c \in (N + 1)..N |-> 0]
  <2> QED
    BY <2>1, Zenon
<1>2. ASSUME NEW k \in 2..N, NEW g, P(k + 1, g)
      PROVE  \E h : P(k, h)
  <2> DEFINE h == [c \in k..N |-> IF c = k THEN Round(vol, map, g, k) ELSE g[c]]
  <2>1. \A c \in k..N : Round(vol, map, h, c) = Round(vol, map, g, c)
    BY <1>0 DEF Round, HasNext
  <2>2. \A c \in (k + 1)..N : g[c] = Round(vol, map, g, c)
    BY <1>2
  <2>3. ASSUME NEW c \in k..N PROVE h[c] = Round(vol, map, h, c)
    <3> HIDE DEF P
    <3>1. CASE c = k
      BY <2>1, <3>1
    <3>2. CASE c # k
      <4>1. c \in (k + 1)..N
        BY <1>0, <3>2
      <4> QED
        BY <2>1, <2>2, <3>2, <4>1
    <3> QED
      BY <3>1, <3>2
  <2>4. h = [c \in k..N |-> Round(vol, map, h, c)]
    BY <2>3
  <2> QED
    BY <2>4
<1> HIDE DEF P
<1>3. bad = {}
  <2> SUFFICES ASSUME bad # {} PROVE FALSE
    OBVIOUS
  <2>0. bad \subseteq Nat
    OBVIOUS
  <2> HIDE DEF bad
  <2>1. PICK n \in bad : \A m \in bad : n <= m
    BY <2>0, Least
  <2> USE DEF bad
  <2>2. n # 0
    BY <1>0, <1>1, <2>1
  <2>3. n - 1 \in 0..(N - 1) /\ n - 1 \notin bad
    BY <1>0, <2>1, <2>2
  <2>4. N + 1 - n \in 2..N /\ N + 1 - (n - 1) = (N + 1 - n) + 1
    BY <1>0, <2>1, <2>2
  <2>5. \E g : P((N + 1 - n) + 1, g)
    BY <2>3, <2>4
  <2>6. \E g : P(N + 1 - n, g)
    BY <2>4, <2>5, <1>2
  <2> QED
    BY <2>1, <2>6
<1>4. \E g : P(2, g)
  <2>1. N - 1 \in 0..(N - 1) /\ N + 1 - (N - 1) = 2
    BY <1>0
  <2>2. N - 1 \notin bad
    BY <1>3
  <2> QED
    BY <2>1, <2>2
<1>5. \E g : g = [c \in Clusters |-> Round(vol, map, g, c)]
  BY <1>4 DEF P, Clusters
<1>6. Data(vol, map) = CHOOSE g : g = [c \in Clusters |-> Round(vol, map, g, c)]
  BY DEF Data, Round
<1> QED
  BY <1>5, <1>6, Zenon

\* The data that starts at cluster c.
LEMMA DataAt ==
    ASSUME NEW vol, NEW map, NEW c \in Clusters
    PROVE  /\ HasNext(map, c) => Data(vol, map)[c] = <<vol[c].chunk>> \o Data(vol, map)[map[c]]
           /\ ~HasNext(map, c) => Data(vol, map)[c] = <<vol[c].chunk>>
<1> DEFINE D == Data(vol, map)
<1>1. D = [x \in Clusters |-> Round(vol, map, D, x)]
  BY DataUnfolds
<1> HIDE DEF D
<1>2. D[c] = Round(vol, map, D, c)
  BY <1>1
<1>3. ~HasNext(map, c) => D[c] = <<vol[c].chunk>>
  <2>1. <<vol[c].chunk>> \o <<>> = <<vol[c].chunk>>
    OBVIOUS
  <2> QED
    BY <1>2, <2>1, Zenon DEF Round
<1>4. HasNext(map, c) => D[c] = <<vol[c].chunk>> \o D[map[c]]
  BY <1>2, Zenon DEF Round
<1> QED
  BY <1>3, <1>4 DEF D

\* A link leads to a later cluster.
LEMMA NextIsLater ==
    ASSUME NEW map, NEW c \in Clusters, HasNext(map, c)
    PROVE  map[c] \in Clusters /\ map[c] > c /\ c < CLUSTER_MAP_SIZE
  BY FAT32Assumption DEF HasNext, Clusters

\* The cluster with a property that lies furthest up.
LEMMA Furthest ==
    ASSUME NEW S, S \subseteq Clusters, S # {}
    PROVE  \E c \in S : \A b \in Clusters : b > c => b \notin S
<1> DEFINE T == {n \in 0..CLUSTER_MAP_SIZE : CLUSTER_MAP_SIZE - n \in S}
<1>0. CLUSTER_MAP_SIZE \in Nat /\ \A c \in Clusters : c \in 2..CLUSTER_MAP_SIZE
  BY FAT32Assumption DEF Clusters
<1>1. \A c \in S : CLUSTER_MAP_SIZE - c \in T
  BY <1>0
<1>2. T \subseteq Nat /\ T # {}
  BY <1>1
<1> HIDE DEF T
<1>3. PICK n \in T : \A m \in T : n <= m
  BY <1>2, Least
<1>4. n \in 0..CLUSTER_MAP_SIZE /\ CLUSTER_MAP_SIZE - n \in S
  BY DEF T
<1>5. ASSUME NEW b \in Clusters, b > CLUSTER_MAP_SIZE - n, b \in S PROVE FALSE
  BY <1>0, <1>1, <1>3, <1>4, <1>5
<1> QED
  BY <1>4, <1>5

\* Data is a sequence of chunks.
LEMMA DataTyped ==
    ASSUME NEW vol \in Volumes, NEW map
    PROVE  \A c \in Clusters : Data(vol, map)[c] \in Seq(Chunks)
<1> DEFINE bad == {c \in Clusters : Data(vol, map)[c] \notin Seq(Chunks)}
<1> SUFFICES ASSUME bad # {} PROVE FALSE
  OBVIOUS
<1>1. bad \subseteq Clusters
  OBVIOUS
<1> HIDE DEF bad
<1>2. PICK c \in bad : \A b \in Clusters : b > c => b \notin bad
  BY <1>1, Furthest
<1>3. c \in Clusters /\ Data(vol, map)[c] \notin Seq(Chunks)
  BY DEF bad
<1>4. HasNext(map, c) => Data(vol, map)[map[c]] \in Seq(Chunks)
  BY <1>2, <1>3, NextIsLater DEF bad
<1>5. <<vol[c].chunk>> \in Seq(Chunks)
  BY <1>3 DEF Volumes
<1>6. CASE HasNext(map, c)
  <2>1. Data(vol, map)[c] = <<vol[c].chunk>> \o Data(vol, map)[map[c]]
    BY <1>3, <1>6, DataAt
  <2>2. \A s, t \in Seq(Chunks) : s \o t \in Seq(Chunks)
    OBVIOUS
  <2> QED
    BY <1>3, <1>4, <1>5, <1>6, <2>1, <2>2, Zenon
<1>7. CASE ~HasNext(map, c)
  <2>1. Data(vol, map)[c] = <<vol[c].chunk>>
    BY <1>3, <1>7, DataAt
  <2> QED
    BY <1>3, <1>5, <2>1, Zenon
<1> QED
  BY <1>6, <1>7

\* No chain leaves S; the chunks and links in S are the same in both volumes.
Closed(map, S) == \A b \in S : HasNext(map, b) => map[b] \in S
Agree(vol, map, new, map2, S) ==
    \A b \in S : new[b].chunk = vol[b].chunk /\ (b < CLUSTER_MAP_SIZE => map2[b] = map[b])

\* Data depends only on the clusters and cells along the chains.
LEMMA DataKept ==
    ASSUME NEW vol, NEW new, NEW map, NEW map2, NEW S \in SUBSET Clusters,
           Closed(map, S), Agree(vol, map, new, map2, S)
    PROVE  \A b \in S : Data(new, map2)[b] = Data(vol, map)[b]
<1> DEFINE D == Data(vol, map)
           E == Data(new, map2)
           bad == {b \in S : E[b] # D[b]}
<1>1. \A c \in Clusters :
         /\ HasNext(map, c) => D[c] = <<vol[c].chunk>> \o D[map[c]]
         /\ ~HasNext(map, c) => D[c] = <<vol[c].chunk>>
  BY DataAt
<1>2. \A c \in Clusters :
         /\ HasNext(map2, c) => E[c] = <<new[c].chunk>> \o E[map2[c]]
         /\ ~HasNext(map2, c) => E[c] = <<new[c].chunk>>
  BY DataAt
<1> HIDE DEF D, E
<1>3. bad = {}
  <2> SUFFICES ASSUME bad # {} PROVE FALSE
    OBVIOUS
  <2>1. bad \subseteq Clusters
    OBVIOUS
  <2> HIDE DEF bad
  <2>2. PICK c \in bad : \A b \in Clusters : b > c => b \notin bad
    BY <2>1, Furthest
  <2>3. c \in S /\ c \in Clusters /\ E[c] # D[c]
    BY DEF bad
  <2>4. (HasNext(map2, c) <=> HasNext(map, c)) /\ new[c].chunk = vol[c].chunk
    BY <2>3 DEF HasNext, Agree
  <2>5. CASE HasNext(map, c)
    <3>1. map2[c] = map[c] /\ map[c] \in S /\ map[c] > c /\ map[c] \in Clusters
      BY <2>3, <2>5, NextIsLater DEF Closed, Agree
    <3>2. E[map[c]] = D[map[c]]
      BY <2>2, <3>1 DEF bad
    <3>3. D[c] = <<vol[c].chunk>> \o D[map[c]]
      BY <1>1, <2>3, <2>5, Zenon
    <3>4. E[c] = <<new[c].chunk>> \o E[map2[c]]
      BY <1>2, <2>3, <2>4, <2>5, Zenon
    <3> QED
      BY <2>3, <2>4, <3>1, <3>2, <3>3, <3>4, Zenon
  <2>6. CASE ~HasNext(map, c)
    BY <1>1, <1>2, <2>3, <2>4, <2>6
  <2> QED
    BY <2>5, <2>6
<1> QED
  BY <1>3 DEF D, E

\* A chunk put before a sequence.
LEMMA Prepended ==
    ASSUME NEW S, NEW x \in S, NEW n \in Nat, NEW s \in [1..n -> S]
    PROVE  <<x>> \o s = [k \in 1..(n + 1) |-> IF k = 1 THEN x ELSE s[k - 1]]
<1>1. s \in Seq(S) /\ Len(s) = n
  OBVIOUS
<1> QED
  BY <1>1

\* The data of a chain is the chunks of its clusters, in order.
LEMMA DataAlong ==
    ASSUME NEW vol \in Volumes, NEW map, NEW n \in Nat, NEW way \in [0..n -> Clusters],
           \A k \in 0..(n - 1) : HasNext(map, way[k]) /\ map[way[k]] = way[k + 1],
           ~HasNext(map, way[n])
    PROVE  Data(vol, map)[way[0]] = [k \in 1..(n + 1) |-> vol[way[k - 1]].chunk]
<1> DEFINE D == Data(vol, map)
           Rest(m) == [k \in 1..(m + 1) |-> vol[way[n - m + k - 1]].chunk]
           bad == {m \in 0..n : D[way[n - m]] # Rest(m)}
<1>1. \A m \in 0..n : way[n - m] \in Clusters /\ vol[way[n - m]].chunk \in Chunks
  BY DEF Volumes
<1>2. \A c \in Clusters :
         /\ HasNext(map, c) => D[c] = <<vol[c].chunk>> \o D[map[c]]
         /\ ~HasNext(map, c) => D[c] = <<vol[c].chunk>>
  BY DataAt
<1> HIDE DEF D
<1>3. D[way[n - 0]] = Rest(0)
  <2>1. way[n] \in Clusters /\ n - 0 = n
    OBVIOUS
  <2>2. D[way[n]] = <<vol[way[n]].chunk>>
    BY <1>2, <2>1
  <2>3. Rest(0) = <<vol[way[n]].chunk>>
    OBVIOUS
  <2> QED
    BY <2>1, <2>2, <2>3
<1>4. ASSUME NEW m \in 1..n, D[way[n - (m - 1)]] = Rest(m - 1) PROVE D[way[n - m]] = Rest(m)
  <2> DEFINE c == way[n - m]
             x == vol[c].chunk
             s == Rest(m - 1)
  <2>1. n - m \in 0..(n - 1) /\ n - m + 1 = n - (m - 1) /\ m \in Nat /\ m - 1 + 1 = m
    OBVIOUS
  <2>2. HasNext(map, c) /\ map[c] = way[n - (m - 1)] /\ c \in Clusters /\ x \in Chunks
    BY <1>1, <2>1
  <2>3. D[c] = <<x>> \o s
    <3>1. D[map[c]] = s
      BY <1>4, <2>2, Zenon
    <3> QED
      BY <1>2, <2>2, <3>1, Zenon
  <2>4. s \in [1..m -> Chunks]
    <3>1. \A k \in 1..m : n - (m - 1) + k - 1 \in 0..n
      BY <2>1
    <3>2. \A k \in 1..m : vol[way[n - (m - 1) + k - 1]].chunk \in Chunks
      BY <3>1 DEF Volumes
    <3> QED
      BY <2>1, <3>2
  <2>5. \A k \in 1..m : s[k] = vol[way[n - m + k]].chunk
    BY <2>1
  <2> HIDE DEF s, x, c
  <2>6. <<x>> \o s = [k \in 1..(m + 1) |-> IF k = 1 THEN x ELSE s[k - 1]]
    BY <2>1, <2>2, <2>4, Prepended
  <2>7. \A k \in 1..(m + 1) :
           (IF k = 1 THEN x ELSE s[k - 1]) = vol[way[n - m + k - 1]].chunk
    <3> SUFFICES ASSUME NEW k \in 1..(m + 1)
                 PROVE  (IF k = 1 THEN x ELSE s[k - 1]) = vol[way[n - m + k - 1]].chunk
      OBVIOUS
    <3>1. CASE k = 1
      BY <2>1, <3>1 DEF x, c
    <3>2. CASE k # 1
      <4>1. k - 1 \in 1..m /\ n - m + (k - 1) = n - m + k - 1
        BY <2>1, <3>2
      <4> QED
        BY <2>5, <3>2, <4>1
    <3> QED
      BY <3>1, <3>2
  <2> QED
    BY <2>3, <2>6, <2>7 DEF c
<1> HIDE DEF Rest
<1>5. bad = {}
  <2> SUFFICES ASSUME bad # {} PROVE FALSE
    OBVIOUS
  <2>1. bad \subseteq Nat
    OBVIOUS
  <2> HIDE DEF bad
  <2>2. PICK m \in bad : \A l \in bad : m <= l
    BY <2>1, Least
  <2>3. m \in 0..n /\ D[way[n - m]] # Rest(m)
    BY DEF bad
  <2>4. m \in 1..n
    BY <1>3, <2>3
  <2>5. m - 1 \in 0..n /\ m - 1 \notin bad
    BY <2>2, <2>4
  <2> QED
    BY <1>4, <2>3, <2>4, <2>5 DEF bad
<1>6. D[way[n - n]] = Rest(n)
  BY <1>5
<1>7. n - n = 0 /\ \A k \in 1..(n + 1) : n - n + k - 1 = k - 1
  OBVIOUS
<1> QED
  BY <1>6, <1>7 DEF Rest, D

-----------------------------------------------------------------------------
(* What a volume holds, but for doomed entries.                             *)

Shelf(vol, map, doomed) ==
    {ItemOf(vol, map, x[1], x[2]) : x \in {y \in Dirs \X Slots : Listed(vol, doomed, y[1], y[2])}}

\* The files among the entries that count start in S.
Inside(vol, doomed, S) ==
    \A d \in Dirs, i \in Slots :
        Listed(vol, doomed, d, i) /\ vol[d].table[i].attribute # ATTR_SUBDIRECTORY
            => vol[d].table[i].cluster \in S

LEMMA ShelfMembers ==
    ASSUME NEW vol, NEW map, NEW doomed
    PROVE  \A f : f \in Shelf(vol, map, doomed) <=>
               \E d \in Dirs, i \in Slots : Listed(vol, doomed, d, i) /\ f = ItemOf(vol, map, d, i)
<1> DEFINE T == {y \in Dirs \X Slots : Listed(vol, doomed, y[1], y[2])}
           F(d, i) == ItemOf(vol, map, d, i)
           L(d, i) == Listed(vol, doomed, d, i)
<1>1. Shelf(vol, map, doomed) = {F(x[1], x[2]) : x \in T}
  BY DEF Shelf
<1>2. T = {y \in Dirs \X Slots : L(y[1], y[2])}
  OBVIOUS
<1> HIDE DEF F, L, T
<1>3. ASSUME NEW f, f \in Shelf(vol, map, doomed)
      PROVE  \E d \in Dirs, i \in Slots : L(d, i) /\ f = F(d, i)
  <2>1. PICK x \in T : f = F(x[1], x[2])
    BY <1>1, <1>3
  <2> QED
    BY <1>2, <2>1
<1>4. ASSUME NEW d \in Dirs, NEW i \in Slots, L(d, i)
      PROVE  F(d, i) \in Shelf(vol, map, doomed)
  <2>1. <<d, i>> \in T /\ <<d, i>>[1] = d /\ <<d, i>>[2] = i
    BY <1>2, <1>4
  <2> QED
    BY <1>1, <2>1
<1> QED
  BY <1>3, <1>4 DEF F, L

\* What an item says of its entry.
LEMMA ItemFields ==
    ASSUME NEW vol, NEW map, NEW d, NEW i
    PROVE  /\ ItemOf(vol, map, d, i).folder = d
           /\ ItemOf(vol, map, d, i).name = vol[d].table[i].name
           /\ ItemOf(vol, map, d, i).ext = vol[d].table[i].ext
           /\ ItemOf(vol, map, d, i).id = vol[d].table[i].cluster
           /\ ItemOf(vol, map, d, i).kind = IF vol[d].table[i].attribute = ATTR_SUBDIRECTORY
                                            THEN "folder" ELSE "file"
           /\ ItemOf(vol, map, d, i).data = IF vol[d].table[i].attribute = ATTR_SUBDIRECTORY
                                            THEN <<>> ELSE Data(vol, map)[vol[d].table[i].cluster]
  BY DEF ItemOf

\* FAT32Store's Content is the shelf with nothing left out.
LEMMA ContentShelf ==
    /\ \A map : Content(map) = Shelf(disk, map, {})
    /\ Content(cluster_map)' = Shelf(disk', cluster_map', {})
    /\ Content(disk_map)' = Shelf(disk', disk_map', {})
<1>1. LiveEntries = {y \in Dirs \X Slots : Listed(disk, {}, y[1], y[2])}
  BY DEF LiveEntries, Folders, Listed, Dirs, Slots
<1>2. LiveEntries' = {y \in Dirs \X Slots : Listed(disk', {}, y[1], y[2])}
  BY DEF LiveEntries, Folders, Listed, Dirs, Slots
<1> QED
  BY <1>1, <1>2, Zenon DEF Content, Shelf

\* The cell past the table has no part in it.
LEMMA ShelfSaved ==
    ASSUME NEW vol, NEW map, NEW doomed
    PROVE  Shelf(vol, SavedMap(map), doomed) = Shelf(vol, map, doomed)
<1>1. \A c \in Clusters : c < CLUSTER_MAP_SIZE => SavedMap(map)[c] = map[c]
  BY FAT32Assumption DEF SavedMap, Clusters
<1>2. Agree(vol, map, vol, SavedMap(map), Clusters) /\ Closed(map, Clusters)
  BY <1>1, NextIsLater DEF Agree, Closed
<1>3. \A c \in Clusters : Data(vol, SavedMap(map))[c] = Data(vol, map)[c]
  BY <1>2, DataKept
<1>4. Data(vol, SavedMap(map)) = Data(vol, map)
  <2> DEFINE D == Data(vol, map)
             E == Data(vol, SavedMap(map))
  <2>1. D = [x \in Clusters |-> Round(vol, map, D, x)]
    BY DataUnfolds
  <2>2. E = [x \in Clusters |-> Round(vol, SavedMap(map), E, x)]
    BY DataUnfolds
  <2>3. \A c \in Clusters : D[c] = E[c]
    BY <1>3
  <2> HIDE DEF D, E
  <2> QED
    BY <2>1, <2>2, <2>3 DEF D, E
<1> QED
  BY <1>4, Zenon DEF Shelf, ItemOf

\* What does not change an entry or its chain does not change the item.
LEMMA ItemKept ==
    ASSUME NEW vol, NEW new, NEW map, NEW map2, NEW S \in SUBSET Clusters, NEW d, NEW i,
           Closed(map, S), Agree(vol, map, new, map2, S),
           new[d].table[i] = vol[d].table[i],
           vol[d].table[i].attribute # ATTR_SUBDIRECTORY => vol[d].table[i].cluster \in S
    PROVE  ItemOf(new, map2, d, i) = ItemOf(vol, map, d, i)
<1>1. vol[d].table[i].attribute # ATTR_SUBDIRECTORY =>
          Data(new, map2)[vol[d].table[i].cluster] = Data(vol, map)[vol[d].table[i].cluster]
  BY DataKept
<1> QED
  BY <1>1, Zenon DEF ItemOf

LEMMA ShelfKept ==
    ASSUME NEW vol, NEW new, NEW map, NEW map2, NEW S \in SUBSET Clusters,
           NEW doomed, NEW doomed2,
           Closed(map, S), Agree(vol, map, new, map2, S), Inside(vol, doomed, S),
           \A d \in Dirs, i \in Slots :
               /\ Listed(new, doomed2, d, i) <=> Listed(vol, doomed, d, i)
               /\ Listed(vol, doomed, d, i) => new[d].table[i] = vol[d].table[i]
    PROVE  Shelf(new, map2, doomed2) = Shelf(vol, map, doomed)
<1>1. ASSUME NEW d \in Dirs, NEW i \in Slots, Listed(vol, doomed, d, i)
      PROVE  ItemOf(new, map2, d, i) = ItemOf(vol, map, d, i)
  <2>1. vol[d].table[i].attribute # ATTR_SUBDIRECTORY => vol[d].table[i].cluster \in S
    BY <1>1 DEF Inside
  <2>2. new[d].table[i] = vol[d].table[i]
    BY <1>1
  <2> QED
    BY <2>1, <2>2, ItemKept
<1>2. \A f : f \in Shelf(new, map2, doomed2) <=> f \in Shelf(vol, map, doomed)
  <2>1. \A f : f \in Shelf(vol, map, doomed) <=>
           \E d \in Dirs, i \in Slots : Listed(vol, doomed, d, i) /\ f = ItemOf(vol, map, d, i)
    BY ShelfMembers
  <2>2. \A f : f \in Shelf(new, map2, doomed2) <=>
           \E d \in Dirs, i \in Slots : Listed(new, doomed2, d, i) /\ f = ItemOf(new, map2, d, i)
    BY ShelfMembers
  <2> QED
    BY <1>1, <2>1, <2>2, ZenonT(40)
<1> QED
  BY <1>2, Zenon

\* In a volume that is placed, links between its clusters stay there.
LEMMA NextInner ==
    ASSUME NEW map, NEW vol, NEW doomed, NEW b \in Inner, Placed(map, vol, doomed), HasNext(map, b)
    PROVE  map[b] \in Inner
<1>1. map[b] \in {FAT32_FAT_EMPTY_ENTRY, FAT32_FAT_END_OF_FILE} \union Inner
  BY DEF Placed
<1>2. map[b] \in (b + 1)..CLUSTER_MAP_SIZE
  BY DEF HasNext
<1>3. map[b] # FAT32_FAT_EMPTY_ENTRY
  BY <1>2, FAT32Assumption DEF FAT32_FAT_EMPTY_ENTRY, Inner
<1>4. map[b] \in Cells
  BY <1>2, FAT32Assumption DEF Inner, Cells
<1> QED
  BY <1>1, <1>3, <1>4, Ranges

\* Chains keep clear of a cluster nobody owns, ...
LEMMA ApartFromUnowned ==
    ASSUME NEW map, NEW vol, NEW doomed, NEW c \in Inner, Placed(map, vol, doomed),
           ~HasOwner(map, vol, doomed, c)
    PROVE  Inner \ {c} \subseteq Clusters /\ Closed(map, Inner \ {c})
           /\ Inside(vol, doomed, Inner \ {c})
<1>1. Inner \ {c} \subseteq Clusters
  BY Places
<1>2. Closed(map, Inner \ {c})
  BY NextInner DEF Closed, HasOwner
<1>3. Inside(vol, doomed, Inner \ {c})
  BY DEF Inside, HasOwner, Placed
<1> QED
  BY <1>1, <1>2, <1>3

\* ... and of folders.
Plain(vol) == {b \in Inner : ~IsFolder(vol[b].table)}
LEMMA ApartFromFolders ==
    ASSUME NEW map, NEW vol, NEW doomed, Placed(map, vol, doomed), Kinds(map, vol, doomed)
    PROVE  Plain(vol) \subseteq Clusters /\ Closed(map, Plain(vol)) /\ Inside(vol, doomed, Plain(vol))
<1>1. Plain(vol) \subseteq Clusters
  BY Places DEF Plain
<1>2. Closed(map, Plain(vol))
  BY NextInner DEF Closed, Plain, Kinds
<1>3. Inside(vol, doomed, Plain(vol))
  BY DEF Inside, Plain, Placed, Kinds
<1> QED
  BY <1>1, <1>2, <1>3

\* Chains lead through clusters with an owner.
Owned(map, vol, doomed) == {c \in Inner : HasOwner(map, vol, doomed, c)}
LEMMA ChainsOwned ==
    ASSUME NEW map, NEW vol, NEW doomed, Placed(map, vol, doomed)
    PROVE  /\ Owned(map, vol, doomed) \subseteq Clusters
           /\ Closed(map, Owned(map, vol, doomed))
           /\ Inside(vol, doomed, Owned(map, vol, doomed))
<1>1. Owned(map, vol, doomed) \subseteq Clusters
  BY Places DEF Owned
<1>2. Closed(map, Owned(map, vol, doomed))
  BY NextInner DEF Closed, Owned, HasOwner
<1>3. Inside(vol, doomed, Owned(map, vol, doomed))
  BY DEF Inside, Owned, HasOwner, Placed
<1> QED
  BY <1>1, <1>2, <1>3

\* Dooming an entry takes its item off the shelf, and no other.
LEMMA ShelfWithout ==
    ASSUME NEW map, NEW vol, NEW p \in Dirs, NEW i \in Slots,
           OwnedOnce(map, vol, {}), Listed(vol, {}, p, i)
    PROVE  /\ ItemOf(vol, map, p, i) \in Shelf(vol, map, {})
           /\ Shelf(vol, map, {<<p, i>>}) = Shelf(vol, map, {}) \ {ItemOf(vol, map, p, i)}
<1> DEFINE X == {<<p, i>>}
           O == {}
           F(d, j) == ItemOf(vol, map, d, j)
           f == F(p, i)
<1>1. \A d \in Dirs, j \in Slots :
         Listed(vol, X, d, j) <=> Listed(vol, O, d, j) /\ ~(d = p /\ j = i)
  BY DEF Listed
<1>2. Listed(vol, O, p, i) /\ OwnedOnce(map, vol, O)
  OBVIOUS
<1>3. \A d, j : F(d, j).id = vol[d].table[j].cluster
  BY ItemFields
<1> HIDE DEF X, O
<1>4. \A g : g \in Shelf(vol, map, O) <=>
         \E d \in Dirs, j \in Slots : Listed(vol, O, d, j) /\ g = F(d, j)
  BY ShelfMembers
<1>5. \A g : g \in Shelf(vol, map, X) <=>
         \E d \in Dirs, j \in Slots : Listed(vol, X, d, j) /\ g = F(d, j)
  BY ShelfMembers
<1> HIDE DEF F
<1>6. ASSUME NEW d \in Dirs, NEW j \in Slots, Listed(vol, O, d, j), F(d, j) = f
      PROVE  d = p /\ j = i
  <2>1. vol[d].table[j].cluster = vol[p].table[i].cluster
    BY <1>3, <1>6
  <2> QED
    BY <1>2, <1>6, <2>1 DEF OwnedOnce
<1>7. f \in Shelf(vol, map, O)
  BY <1>2, <1>4, Zenon
<1>8. \A g : g \in Shelf(vol, map, X) <=> g \in Shelf(vol, map, O) /\ g # f
  <2>1. ASSUME NEW g, g \in Shelf(vol, map, X) PROVE g \in Shelf(vol, map, O) /\ g # f
    <3>1. PICK d \in Dirs, j \in Slots : Listed(vol, X, d, j) /\ g = F(d, j)
      BY <1>5, <2>1
    <3>2. Listed(vol, O, d, j) /\ ~(d = p /\ j = i)
      BY <1>1, <3>1
    <3> QED
      BY <1>4, <1>6, <3>1, <3>2
  <2>2. ASSUME NEW g, g \in Shelf(vol, map, O), g # f PROVE g \in Shelf(vol, map, X)
    <3>1. PICK d \in Dirs, j \in Slots : Listed(vol, O, d, j) /\ g = F(d, j)
      BY <1>4, <2>2
    <3>2. Listed(vol, X, d, j)
      BY <1>1, <2>2, <3>1
    <3> QED
      BY <1>5, <3>1, <3>2
  <2> QED
    BY <2>1, <2>2
<1> QED
  BY <1>7, <1>8 DEF X, O, F

\* Rewriting an entry that does not count, before and after, leaves the shelf alone.
LEMMA ShelfRewritten ==
    ASSUME NEW map, NEW vol \in Volumes, NEW p \in Dirs, NEW i \in Slots, NEW e \in Entries,
           NEW doomed, NEW doomed2,
           Placed(map, vol, doomed), Kinds(map, vol, doomed), IsFolder(vol[p].table),
           ~Listed(vol, doomed, p, i), ~Listed(Rewrite(vol, p, i, e), doomed2, p, i),
           \A d \in Dirs, j \in Slots : d # p \/ j # i => <<d, j>> \notin doomed \union doomed2
    PROVE  Shelf(Rewrite(vol, p, i, e), map, doomed2) = Shelf(vol, map, doomed)
<1> DEFINE new == Rewrite(vol, p, i, e)
<1>1. /\ \A c \in Clusters : IsFolder(new[c].table) <=> IsFolder(vol[c].table)
      /\ \A d \in Dirs, j \in Slots :
            new[d].table[j] = IF d = p /\ j = i THEN e ELSE vol[d].table[j]
  BY Rewritten
<1>2. \A c \in Clusters : c # p => new[c] = vol[c]
  BY DEF Rewrite, Volumes
<1>3. ~Listed(new, doomed2, p, i)
  OBVIOUS
<1> HIDE DEF new
<1>4. ASSUME NEW d \in Dirs, NEW j \in Slots
      PROVE  /\ Listed(new, doomed2, d, j) <=> Listed(vol, doomed, d, j)
             /\ Listed(vol, doomed, d, j) => new[d].table[j] = vol[d].table[j]
  <2>1. CASE d = p /\ j = i
    BY <1>3, <2>1
  <2>2. CASE d # p \/ j # i
    <3>1. new[d].table[j] = vol[d].table[j] /\ (IsFolder(new[d].table) <=> IsFolder(vol[d].table))
      BY <1>1, <2>2, Places
    <3> QED
      BY <2>2, <3>1 DEF Listed
  <2> QED
    BY <2>1, <2>2
<1>5. Plain(vol) \subseteq Clusters /\ Closed(map, Plain(vol)) /\ Inside(vol, doomed, Plain(vol))
  BY ApartFromFolders
<1>6. Agree(vol, map, new, map, Plain(vol))
  BY <1>2, <1>5 DEF Agree, Plain
<1>7. Shelf(new, map, doomed2) = Shelf(vol, map, doomed)
  BY <1>4, <1>5, <1>6, ShelfKept
<1> QED
  BY <1>7 DEF new

\* Whatever happens to a cluster nobody owns, as long as it lists nothing.
LEMMA ShelfUnowned ==
    ASSUME NEW map, NEW map2, NEW vol, NEW new, NEW c \in Inner, NEW doomed,
           Placed(map, vol, doomed), ~HasOwner(map, vol, doomed, c),
           \A b \in Clusters : b # c => new[b] = vol[b],
           \A b \in Inner : b # c => map2[b] = map[b],
           \/ new = vol
           \/ \A i \in Slots : ~Listed(vol, doomed, c, i) /\ ~Listed(new, doomed, c, i)
    PROVE  Shelf(new, map2, doomed) = Shelf(vol, map, doomed)
<1> DEFINE S == Inner \ {c}
<1>1. S \subseteq Clusters /\ Closed(map, S) /\ Inside(vol, doomed, S)
  BY ApartFromUnowned
<1>2. Agree(vol, map, new, map2, S)
  BY <1>1 DEF Agree
<1>3. ASSUME NEW d \in Dirs, NEW i \in Slots
      PROVE  /\ Listed(new, doomed, d, i) <=> Listed(vol, doomed, d, i)
             /\ Listed(vol, doomed, d, i) => new[d].table[i] = vol[d].table[i]
  <2>1. CASE d = c
    BY <2>1
  <2>2. CASE d # c
    BY <2>2, Places DEF Listed
  <2> QED
    BY <2>1, <2>2
<1> HIDE DEF S
<1> QED
  BY <1>1, <1>2, <1>3, ShelfKept

\* The chain of an entry is nobody else's.
Steps(way, n) == {way[k] : k \in 0..n}
LEMMA ApartFromChain ==
    ASSUME NEW map, NEW vol, NEW p \in Dirs, NEW i \in Slots, NEW n \in Nat,
           NEW way \in [0..n -> Inner],
           Placed(map, vol, {}), OwnedOnce(map, vol, {}), Listed(vol, {}, p, i),
           vol[p].table[i].cluster = way[0],
           \A k \in 0..(n - 1) : map[way[k]] = way[k + 1]
    PROVE  /\ Inner \ Steps(way, n) \subseteq Clusters
           /\ Closed(map, Inner \ Steps(way, n))
           /\ Inside(vol, {<<p, i>>}, Inner \ Steps(way, n))
<1> DEFINE S == Inner \ Steps(way, n)
<1>1. S \subseteq Clusters
  BY Places
<1>2. ASSUME NEW k \in 0..n, k # 0
      PROVE  k - 1 \in 0..(n - 1) /\ k - 1 \in 0..n /\ (k - 1) + 1 = k
  BY <1>2
<1>3. ASSUME NEW b \in S, HasNext(map, b), map[b] \notin S PROVE FALSE
  <2>1. b \in Inner /\ map[b] \in Inner
    BY <1>3, NextInner
  <2>2. PICK k \in 0..n : map[b] = way[k]
    BY <1>3, <2>1 DEF Steps
  <2>3. k # 0
    BY <2>1, <2>2 DEF OwnedOnce
  <2>4. k - 1 \in 0..(n - 1) /\ k - 1 \in 0..n /\ (k - 1) + 1 = k
    BY <1>2, <2>3
  <2>5. map[way[k - 1]] = map[b] /\ way[k - 1] \in Inner
    BY <2>2, <2>4
  <2>6. way[k - 1] = b
    BY <2>1, <2>5 DEF OwnedOnce
  <2> QED
    BY <2>4, <2>6 DEF Steps
<1>4. ASSUME NEW d \in Dirs, NEW j \in Slots, Listed(vol, {<<p, i>>}, d, j),
             vol[d].table[j].cluster \notin S
      PROVE  FALSE
  <2>1. Listed(vol, {}, d, j) /\ ~(d = p /\ j = i)
    BY <1>4 DEF Listed
  <2>2. vol[d].table[j].cluster \in Inner
    BY <2>1 DEF Placed
  <2>3. PICK k \in 0..n : vol[d].table[j].cluster = way[k]
    BY <1>4, <2>2 DEF Steps
  <2>4. k # 0
    BY <2>1, <2>3 DEF OwnedOnce
  <2>5. k - 1 \in 0..(n - 1) /\ k - 1 \in 0..n /\ (k - 1) + 1 = k
    BY <1>2, <2>4
  <2>6. map[way[k - 1]] = vol[d].table[j].cluster /\ way[k - 1] \in Inner
    BY <2>3, <2>5
  <2> QED
    BY <2>1, <2>6 DEF OwnedOnce
<1> HIDE DEF S
<1>5. Closed(map, S) /\ Inside(vol, {<<p, i>>}, S)
  BY <1>3, <1>4 DEF Closed, Inside
<1> QED
  BY <1>1, <1>5 DEF S

-----------------------------------------------------------------------------
(* What the driver still owes its caller, label by label.                   *)

Target(f) == f.folder = request.parent /\ f.name = request.name /\ f.ext = request.ext

\* The folder exists, and a new item of that kind and cluster clashes with none.
Fresh(kind, id) ==
    /\ request.parent \in FS!FolderIds
    /\ \A g \in items : ~(Target(g) /\ g.kind = kind) /\ g.id # id

\* read: what it has read and what is ahead of it make up the file.
Reading ==
    \E f \in items :
        /\ Target(f) /\ f.kind = "file"
        /\ f.data = local.out \o (IF local.cluster \in Inner
                                  THEN Data(disk, Table)[local.cluster] ELSE <<>>)

\* write, a file: its entry is there, and a chain whose clusters but the one in work
\* hold the buffer so far.  The table on disk does not know of the chain.
Chain(way) ==
    /\ way[local.count] = local.cluster
    /\ \A k \in 0..(local.count - 1) :
          Table[way[k]] = way[k + 1] /\ disk[way[k]].chunk = <<request.content, k>>
    /\ pc = "file_map" => /\ Table[local.cluster] = FAT32_FAT_END_OF_FILE
                          /\ disk[local.cluster].chunk = <<request.content, local.count>>
                          /\ local.count = Part
Filing ==
    \E i \in Slots, way \in [0..local.count -> Inner] :
        /\ Listed(disk, {}, request.parent, i)
        /\ Parent[i] = init_directory_entry(request.name, request.ext, 0, way[0], request.size)
        /\ Fresh("file", way[0])
        /\ items = Shelf(disk, Table, {<<request.parent, i>>})
        /\ Chain(way)
        /\ \A b \in Inner \ Steps(way, local.count) : disk_map[b] = Table[b]

\* Delete: all items but the one it was asked to remove are on the shelf.  The table
\* on disk still has what the one in memory has freed.
Deleting ==
    /\ \E f \in items :
          /\ Target(f)
          /\ Shelf(disk, Table, Doomed) = items \ {f}
          /\ f.kind = "folder" => \A g \in items : g.folder # f.id
    /\ \A b \in Inner : Table[b] # FAT32_FAT_EMPTY_ENTRY => disk_map[b] = Table[b]

FileLabels   == {"file_parts", "file_map"}
FolderLabels == {"folder_table", "folder_parent"}
DeleteLabels == {"delete_chain", "delete_last", "delete_parent", "delete_map"}

StoreInv ==
    /\ pc \notin FileLabels \union DeleteLabels => items = Shelf(disk, Table, {})
    /\ pc \in {"format_map", "format_root"} => request = NoRequest
    /\ pc = "read_chain" => request.op = "read" /\ Reading
    /\ pc \in FolderLabels => request.size = 0 /\ Fresh("folder", local.cluster)
    /\ pc \in FileLabels => Filing
    /\ pc \in DeleteLabels => request.op = "Delete" /\ Deleting

\* When the driver is idle again, items is what the volume holds.
LEMMA IdleStored ==
    ASSUME StoreNext, pc' = "idle"
    PROVE  items' = Shelf(disk', Table', {}) /\ StoreInv'
<1>1. items' = Shelf(disk', cluster_map', {})
  BY ContentShelf, Zenon DEF StoreNext
<1>2. Table' = SavedMap(cluster_map')
  BY DEF Table
<1>3. Shelf(disk', SavedMap(cluster_map'), {}) = Shelf(disk', cluster_map', {})
  BY ShelfSaved
<1>4. items' = Shelf(disk', Table', {})
  BY <1>1, <1>2, <1>3
<1> QED
  BY <1>4 DEF StoreInv, FileLabels, FolderLabels, DeleteLabels

\* A volume of empty tables holds nothing.
LEMMA ShelfBlank ==
    ASSUME NEW vol, NEW map, NEW doomed, \A c \in Clusters : Unused(vol[c].table)
    PROVE  Shelf(vol, map, doomed) = {}
<1>1. \A d \in Dirs, i \in Slots : ~Listed(vol, doomed, d, i)
  BY Places DEF Listed, Unused
<1>2. \A f : f \in Shelf(vol, map, doomed) <=>
         \E d \in Dirs, i \in Slots : Listed(vol, doomed, d, i) /\ f = ItemOf(vol, map, d, i)
  BY ShelfMembers
<1> QED
  BY <1>1, <1>2, Zenon

\* Switching on and off, formatting and calls change nothing.
LEMMA SwitchStored ==
    ASSUME DriverInv, VolumeInv, StoreInv, StoreNext,
           Initialize \/ FormatMap \/ FormatRoot \/ Call \/ SwitchOff
    PROVE  items' = items /\ StoreInv'
<1>1. pc \notin FileLabels \union DeleteLabels /\ items = Shelf(disk, Table, {})
  BY VolumeTame DEF StoreInv, FileLabels, DeleteLabels, Initialize, FormatMap, FormatRoot, Call,
                    SwitchOff
<1>2. ASSUME NEW map, NEW doomed, \A c \in Clusters : disk[c] = ZeroCluster
      PROVE  Shelf(disk, map, doomed) = {}
  BY <1>2, EmptyMade, EmptyUnused, ShelfBlank
<1>3. CASE Initialize /\ boot_sector
  <2>1. /\ pc = "off" /\ pc' = "idle" /\ disk' = disk
        /\ cluster_map' = [c \in Cells |-> IF c \in DOMAIN disk_map THEN disk_map[c] ELSE 0]
    BY <1>3 DEF Initialize
  <2>2. disk_map \in [0..(CLUSTER_MAP_SIZE - 1) -> Links]
    BY DEF DriverInv, Stored
  <2>3. Table' = Table
    BY <2>1, <2>2, Ranges DEF Table, SavedMap
  <2> QED
    BY <1>1, <2>1, <2>3, IdleStored
<1>4. CASE Initialize /\ ~boot_sector
  <2>1. pc' = "format_map" /\ disk' = disk /\ items' = items /\ request' = NoRequest
    BY <1>4 DEF Initialize, StoreNext
  <2>2. \A c \in Clusters : disk[c] = ZeroCluster
    BY <1>4 DEF VolumeInv, Formatted
  <2>3. items' = Shelf(disk', Table', {})
    BY <1>1, <1>2, <2>1, <2>2
  <2> QED
    BY <2>1, <2>3 DEF StoreInv, FileLabels, FolderLabels, DeleteLabels
<1>5. CASE FormatMap
  <2>1. /\ pc = "format_map" /\ pc' = "format_root"
        /\ disk' = disk /\ items' = items /\ request' = request /\ cluster_map' = cluster_map
    BY <1>5 DEF FormatMap, StoreNext, volatile
  <2>2. Table' = Table
    BY <2>1 DEF Table
  <2> QED
    BY <1>1, <2>1, <2>2 DEF StoreInv, FileLabels, FolderLabels, DeleteLabels
<1>6. CASE FormatRoot
  <2> DEFINE t == DirectoryTable(RootName, ROOT_CLUSTER_NUMBER, root_literal, ROOT_CLUSTER_NUMBER)
  <2>1. /\ pc = "format_root" /\ pc' = "idle"
        /\ disk' = [disk EXCEPT ![ROOT_CLUSTER_NUMBER] = TableCluster(t)]
    BY <1>6 DEF FormatRoot
  <2>2. Unused(t)
    BY DirectoryTableUnused
  <2> HIDE DEF t
  <2>3. \A c \in Clusters : disk[c] = ZeroCluster
    BY <2>1 DEF VolumeInv, Formatted
  <2>4. TableCluster(t).table = t /\ ZeroCluster.table = EmptyTable
    BY EmptyMade DEF TableCluster
  <2>5. disk \in Volumes
    BY DEF DriverInv, Stored, Volumes
  <2>6. \A c \in Clusters : disk'[c] = IF c = ROOT_CLUSTER_NUMBER THEN TableCluster(t) ELSE disk[c]
    BY <2>1, <2>5 DEF Volumes
  <2>7. \A c \in Clusters : Unused(disk'[c].table)
    BY <2>2, <2>3, <2>4, <2>6, EmptyUnused
  <2>8. Shelf(disk', Table', {}) = {}
    BY <2>7, ShelfBlank
  <2> QED
    BY <1>1, <1>2, <2>1, <2>3, <2>8, IdleStored
<1>7. CASE Call
  <2>1. pc = "idle" /\ pc' \in Operations /\ disk' = disk /\ cluster_map' = cluster_map
    BY <1>7 DEF Call, Requests, media, volatile
  <2>2. items' = items /\ Table' = Table
    BY <2>1 DEF StoreNext, Operations, Table
  <2> QED
    BY <1>1, <2>1, <2>2 DEF StoreInv, FileLabels, FolderLabels, DeleteLabels, Operations
<1>8. CASE SwitchOff
  <2>1. /\ pc = "idle" /\ pc' = "off" /\ disk' = disk /\ disk_map' = disk_map
    BY <1>8, VolumeTame DEF SwitchOff, PowerOff, media
  <2>2. items' = items /\ Table' = Table
    BY <2>1 DEF StoreNext, Table, DriverInv, Mirrored
  <2> QED
    BY <1>1, <2>1, <2>2 DEF StoreInv, FileLabels, FolderLabels, DeleteLabels
<1> QED
  BY <1>3, <1>4, <1>5, <1>6, <1>7, <1>8

\* A request that returns without a change.
LEMMA RefusedStored ==
    ASSUME StoreInv, StoreNext, UNCHANGED <<disk, cluster_map>>, pc' = "idle",
           pc \notin FileLabels \union DeleteLabels \union {"off"}
    PROVE  items' = items
<1>1. Table' = Table
  BY DEF Table
<1> QED
  BY <1>1, IdleStored DEF StoreInv

-----------------------------------------------------------------------------
(* Reading.                                                                 *)

\* A cell of the table is a link exactly when it holds a cluster's number.
LEMMA LinkOrEnd ==
    ASSUME DriverInv, NEW c \in Inner
    PROVE  /\ Table[c] \in Inner => HasNext(Table, c)
           /\ Table[c] = FAT32_FAT_END_OF_FILE => ~HasNext(Table, c)
<1>1. Upward(Table) /\ Table \in Maps
  BY UpwardSaved, TableSeen DEF DriverInv, Stored, Table
<1>2. c \in DOMAIN Table /\ c \in 3..(CLUSTER_MAP_SIZE - 1)
  BY <1>1, Places DEF Maps, Inner
<1>3. Leads(c, Table[c])
  BY <1>1, <1>2 DEF Upward
<1>4. Table[c] \in Inner => Table[c] \in (c + 1)..CLUSTER_MAP_SIZE
  BY <1>3, Places DEF Leads
<1>5. FAT32_FAT_END_OF_FILE \notin (c + 1)..CLUSTER_MAP_SIZE
  BY <1>2, FAT32Assumption, Ranges DEF Cells
<1> QED
  BY <1>2, <1>4, <1>5, FAT32Assumption DEF HasNext

\* The entry a careful read or Delete finds stands for an item of the requested name.
LEMMA FoundItem ==
    ASSUME Hazards = {}, DriverInv, VolumeInv, StoreInv, pc \in Operations, IsFolder(Parent),
           NEW i \in Indices, Found(i)
    PROVE  /\ i \in Slots /\ Listed(disk, {}, request.parent, i) /\ request.parent \in Dirs
           /\ items = Shelf(disk, Table, {})
           /\ ItemOf(disk, Table, request.parent, i) \in items
           /\ Target(ItemOf(disk, Table, request.parent, i))
           /\ Volume(Table, disk, {}, {}, {})
<1> DEFINE f == ItemOf(disk, Table, request.parent, i)
<1>1. /\ i \in Slots /\ Listed(disk, {}, request.parent, i)
      /\ Volume(Table, disk, {}, {}, {})
  BY FoundListed
<1>2. request.parent \in Dirs
  BY TableSeen DEF Operations, Resting
<1>3. items = Shelf(disk, Table, {})
  BY DEF StoreInv, Operations, FileLabels, DeleteLabels
<1>4. \A g : g \in Shelf(disk, Table, {}) <=>
         \E d \in Dirs, j \in Slots : Listed(disk, {}, d, j) /\ g = ItemOf(disk, Table, d, j)
  BY ShelfMembers
<1>5. f \in items
  BY <1>1, <1>2, <1>3, <1>4, Zenon
<1>6. SameName(Parent[i], request)
  BY DEF Found, FirstIndex
<1>7. Target(f)
  BY <1>6, ItemFields DEF Target, SameName, Parent
<1> QED
  BY <1>1, <1>2, <1>3, <1>5, <1>7

\* Sequences are joined in either order.
LEMMA Joined ==
    ASSUME NEW S, NEW s \in Seq(S), NEW t \in Seq(S), NEW x \in S
    PROVE  /\ <<>> \o s = s /\ s \o <<>> = s /\ Append(s, x) \in Seq(S)
           /\ s \o (<<x>> \o t) = Append(s, x) \o t
           /\ s \o <<x>> = Append(s, x)
<1>1. <<>> \o s = s /\ s \o <<>> = s /\ Append(s, x) \in Seq(S)
  OBVIOUS
<1>2. s \o <<x>> = Append(s, x)
  OBVIOUS
<1>3. s \o (<<x>> \o t) = Append(s, x) \o t
  BY SMTT(30)
<1> QED
  BY <1>1, <1>2, <1>3

\* read starts with the whole file ahead of it.
LEMMA ReadStored ==
    ASSUME Hazards = {}, DriverInv, VolumeInv, StoreInv, StoreNext, read, pc' # "idle"
    PROVE  StoreInv'
<1>1. PICK i \in Indices : /\ IsFolder(Parent) /\ Found(i) /\ Goto("read_chain")
                           /\ Parent[i].attribute # ATTR_SUBDIRECTORY
                           /\ local' = [local EXCEPT !.cluster = Parent[i].cluster]
  BY DEF read, Return
<1>2. /\ pc = "read" /\ pc' = "read_chain" /\ UNCHANGED <<disk, cluster_map, request>>
      /\ items' = items
  BY <1>1 DEF read, Goto, media, volatile, StoreNext
<1>3. local = NoLocal /\ request.op = "read"
  BY <1>2 DEF DriverInv, Serving, Operations
<1>4. local'.cluster = Parent[i].cluster /\ local'.out = <<>>
  BY <1>1, <1>3 DEF NoLocal
<1>5. PICK f \in items : Target(f) /\ f = ItemOf(disk, Table, request.parent, i)
  BY <1>1, <1>2, FoundItem DEF Operations
<1>6. Parent[i].cluster \in Inner /\ items = Shelf(disk, Table, {})
  BY <1>1, <1>2, FoundListed, FoundItem DEF Operations
<1>7. f.kind = "file" /\ f.data = Data(disk, Table)[Parent[i].cluster]
  BY <1>1, <1>5, ItemFields DEF Parent
<1>8. Data(disk, Table)[Parent[i].cluster] \in Seq(Chunks)
  BY <1>6, Places, DataTyped, TableSeen
<1>9. Table' = Table
  BY <1>2 DEF Table
<1>10. Reading'
  <2>1. f.data = local'.out \o Data(disk, Table)[local'.cluster]
    BY <1>4, <1>7, <1>8
  <2>2. Target(f)'
    BY <1>2, <1>5 DEF Target
  <2>3. f \in items' /\ local'.cluster \in Inner
        /\ Data(disk', Table')[local'.cluster] = Data(disk, Table)[local'.cluster]
    BY <1>2, <1>4, <1>5, <1>6, <1>9
  <2> QED
    BY <1>7, <2>1, <2>2, <2>3, Zenon DEF Reading
<1> QED
  BY <1>2, <1>3, <1>6, <1>9, <1>10 DEF StoreInv, FileLabels, FolderLabels, DeleteLabels

\* Every round moves one chunk from what is ahead to what has been read.
LEMMA ReadChainStored ==
    ASSUME DriverInv, VolumeInv, StoreInv, StoreNext, ReadChain, pc' # "idle"
    PROVE  StoreInv'
<1> DEFINE c == local.cluster
           D == Data(disk, Table)
<1>1. c \in Inner /\ Table[c] # FAT32_FAT_EMPTY_ENTRY /\ pc = "read_chain"
      /\ c # FAT32_FAT_END_OF_FILE
  BY Ranges DEF ReadChain, Return, VolumeInv, Pending
<1>2. c \in Clusters /\ c \in 0..(CLUSTER_MAP_SIZE - 1)
  BY <1>1, Places
<1>3. /\ Goto("read_chain") /\ UNCHANGED <<disk, cluster_map>>
      /\ local' = [local EXCEPT !.out = Append(@, disk[c].chunk), !.cluster = cluster_map[c]]
  BY <1>1, <1>2 DEF ReadChain, media, volatile
<1>4. pc' = "read_chain" /\ request' = request /\ items' = items /\ Table' = Table
  BY <1>1, <1>3 DEF Goto, StoreNext, Table
<1>5. local'.cluster = Table[c] /\ local'.out = Append(local.out, disk[c].chunk)
  BY <1>1, <1>2, <1>3, TableSeen DEF DriverInv, Serving, Locals
<1>6. PICK f \in items : /\ Target(f) /\ f.kind = "file"
                         /\ f.data = local.out \o (IF c \in Inner THEN D[c] ELSE <<>>)
  BY <1>1, Zenon DEF StoreInv, Reading
<1>7. f.data = local.out \o D[c]
  BY <1>1, <1>6, Zenon
<1>8. /\ local.out \in Seq(Chunks) /\ disk[c].chunk \in Chunks
      /\ \A b \in Clusters : D[b] \in Seq(Chunks)
  <2>1. local.out \in Seq(Chunks) /\ disk \in Volumes
    BY TableSeen DEF DriverInv, Serving, Locals
  <2> QED
    BY <1>2, <2>1, DataTyped DEF Volumes
<1>9. /\ HasNext(Table, c) => D[c] = <<disk[c].chunk>> \o D[Table[c]]
      /\ ~HasNext(Table, c) => D[c] = <<disk[c].chunk>>
  BY <1>2, DataAt
<1>10. Volume(Table, disk, {}, {}, {})
  BY <1>1 DEF VolumeInv, Doomed, Owed, Loose
<1>11. Table[c] = FAT32_FAT_END_OF_FILE \/ Table[c] \in Inner
  BY <1>1, <1>10 DEF Volume, Placed
<1> HIDE DEF D
<1>12. f.data = local'.out \o (IF local'.cluster \in Inner THEN D[local'.cluster] ELSE <<>>)
  <2>1. CASE Table[c] = FAT32_FAT_END_OF_FILE
    <3>1. D[c] = <<disk[c].chunk>> /\ local'.cluster \notin Inner
      BY <1>1, <1>5, <1>9, <2>1, LinkOrEnd, Places
    <3>2. local.out \o <<disk[c].chunk>> = local'.out /\ local'.out \o <<>> = local'.out
      BY <1>5, <1>8, Joined
    <3> QED
      BY <1>7, <3>1, <3>2, Zenon
  <2>2. CASE Table[c] \in Inner
    <3>1. D[c] = <<disk[c].chunk>> \o D[Table[c]] /\ local'.cluster = Table[c]
      BY <1>1, <1>5, <1>9, <2>2, LinkOrEnd
    <3>2. D[Table[c]] \in Seq(Chunks)
      BY <1>8, <2>2, Places
    <3>3. local.out \o (<<disk[c].chunk>> \o D[Table[c]]) = local'.out \o D[Table[c]]
      <4> DEFINE o == local.out
                 x == disk[c].chunk
                 t == D[Table[c]]
      <4>1. o \in Seq(Chunks) /\ x \in Chunks /\ t \in Seq(Chunks) /\ local'.out = Append(o, x)
        BY <1>5, <1>8, <3>2
      <4> HIDE DEF o, x, t
      <4>2. o \o (<<x>> \o t) = Append(o, x) \o t
        BY <4>1, Joined
      <4> QED
        BY <4>1, <4>2 DEF o, x, t
    <3> QED
      BY <1>7, <2>2, <3>1, <3>3, Zenon
  <2> QED
    BY <1>11, <2>1, <2>2
<1>13. D = Data(disk', Table')
  BY <1>3, <1>4 DEF D
<1>14. Target(f)'
  BY <1>4, <1>6 DEF Target
<1>15. Reading'
  BY <1>4, <1>6, <1>12, <1>13, <1>14, Zenon DEF Reading
<1>16. request.op = "read" /\ items = Shelf(disk, Table, {})
  BY <1>1 DEF StoreInv, FileLabels, DeleteLabels
<1> QED
  BY <1>3, <1>4, <1>15, <1>16 DEF StoreInv, FileLabels, FolderLabels, DeleteLabels

-----------------------------------------------------------------------------
(* Delete.                                                                  *)

\* Delete settles on an item; a folder has nothing in it.
LEMMA DeleteStored ==
    ASSUME Hazards = {}, DriverInv, VolumeInv, StoreInv, StoreNext, Delete, pc' # "idle"
    PROVE  StoreInv'
<1>1. PICK i \in Indices :
         /\ IsFolder(Parent) /\ Found(i)
         /\ Parent[i].attribute = ATTR_SUBDIRECTORY => ~NotEmpty(disk[Parent[i].cluster].table)
         /\ Goto(IF Parent[i].attribute = ATTR_SUBDIRECTORY
                 THEN "delete_last" ELSE "delete_chain")
         /\ local' = [local EXCEPT !.slot = i, !.cluster = Parent[i].cluster, !.table = Parent]
  BY DEF Delete, Return
<1>2. /\ pc = "Delete" /\ pc' \in {"delete_last", "delete_chain"}
      /\ UNCHANGED <<disk, cluster_map, disk_map, request>> /\ items' = items
  BY <1>1 DEF Delete, Goto, media, volatile, StoreNext
<1>3. local'.slot = i /\ request.op = "Delete" /\ disk_map = SavedMap(cluster_map)
  BY <1>1, <1>2 DEF DriverInv, Serving, Locals, Mirrored, Operations
<1>4. PICK f \in items : Target(f) /\ f = ItemOf(disk, Table, request.parent, i)
  BY <1>1, <1>2, FoundItem DEF Operations
<1>5. /\ i \in Slots /\ request.parent \in Dirs /\ Listed(disk, {}, request.parent, i)
      /\ items = Shelf(disk, Table, {}) /\ Volume(Table, disk, {}, {}, {})
  BY <1>1, <1>2, FoundItem DEF Operations
<1>6. Table' = Table /\ Table = disk_map /\ Doomed' = {<<request.parent, i>>}
  BY <1>2, <1>3 DEF Table, Doomed
<1>7. Shelf(disk, Table, {<<request.parent, i>>}) = items \ {f}
  BY <1>4, <1>5, ShelfWithout DEF Volume
<1>8. ASSUME f.kind = "folder", NEW g \in items PROVE g.folder # f.id
  <2>1. PICK d \in Dirs, j \in Slots : Listed(disk, {}, d, j) /\ g = ItemOf(disk, Table, d, j)
    BY <1>5, ShelfMembers
  <2>2. Parent[i].attribute = ATTR_SUBDIRECTORY
    BY <1>4, <1>8, ItemFields DEF Parent
  <2>3. f.id = Parent[i].cluster
    BY <1>4, ItemFields DEF Parent
  <2>4. g.folder = d
    BY <2>1, ItemFields
  <2> QED
    BY <1>1, <2>1, <2>2, <2>3, <2>4 DEF Listed, NotEmpty, Slots
<1>9. Target(f)'
  BY <1>2, <1>4 DEF Target
<1>10. Shelf(disk', Table', Doomed') = items' \ {f}
  BY <1>2, <1>6, <1>7
<1>11. Deleting'
  <2>1. \A b \in Inner : disk_map'[b] = Table'[b]
    BY <1>2, <1>6
  <2> QED
    BY <1>2, <1>4, <1>8, <1>9, <1>10, <2>1 DEF Deleting
<1> QED
  BY SMTT(30), <1>2, <1>3, <1>11 DEF StoreInv, FileLabels, FolderLabels, DeleteLabels

\* Every step of Delete leaves the rest of the shelf alone and frees cells only.
LEMMA DeletingKept ==
    ASSUME StoreInv, pc \in DeleteLabels, pc' \in DeleteLabels,
           UNCHANGED <<request, items, disk_map>>,
           Shelf(disk', Table', Doomed') = Shelf(disk, Table, Doomed),
           \A b \in Inner : Table'[b] # FAT32_FAT_EMPTY_ENTRY => Table'[b] = Table[b]
    PROVE  StoreInv'
<1>1. PICK f \in items : /\ Target(f) /\ Shelf(disk, Table, Doomed) = items \ {f}
                         /\ f.kind = "folder" => \A g \in items : g.folder # f.id
  BY DEF StoreInv, Deleting
<1>2. Target(f)' /\ Shelf(disk', Table', Doomed') = items' \ {f} /\ f \in items'
      /\ (f.kind = "folder" => \A g \in items' : g.folder # f.id)
  BY <1>1 DEF Target
<1>3. \A b \in Inner : Table'[b] # FAT32_FAT_EMPTY_ENTRY => disk_map'[b] = Table'[b]
  BY DEF StoreInv, Deleting
<1>4. Deleting'
  BY <1>2, <1>3 DEF Deleting
<1>5. request'.op = "Delete"
  BY DEF StoreInv
<1> QED
  BY <1>4, <1>5 DEF StoreInv, FileLabels, FolderLabels, DeleteLabels

LEMMA DeleteChainStored ==
    ASSUME DriverInv, VolumeInv, StoreInv, StoreNext, DeleteChain
    PROVE  StoreInv'
<1> DEFINE c == local.cluster
           X == {<<request.parent, local.slot>>}
<1>1. pc = "delete_chain"
  BY DEF DeleteChain
<1>2. /\ c \in Inner /\ ~IsFolder(disk[c].table) /\ Table[c] # FAT32_FAT_EMPTY_ENTRY
      /\ Volume(Table, disk, X, {}, {c})
  BY <1>1 DEF VolumeInv, Pending, Doomed, Owed, Loose
<1>3. /\ Table \in Maps /\ disk \in Volumes /\ Table[c] = cluster_map[c]
  BY <1>1, <1>2, TableSeen, Places
<1>4. Table[c] = FAT32_FAT_END_OF_FILE \/ Table[c] \in Inner
  BY <1>2 DEF Volume, Placed
<1>5. Doomed = X
  BY <1>1 DEF Doomed
<1>6. CASE Table[c] = FAT32_FAT_END_OF_FILE
  <2>1. /\ pc' = "delete_last"
        /\ UNCHANGED <<disk, disk_map, cluster_map, request, local, items>>
    BY <1>3, <1>6, Ranges DEF DeleteChain, Goto, media, volatile, StoreNext
  <2>2. Table' = Table /\ Doomed' = Doomed
    BY <1>1, <2>1 DEF Table, Doomed
  <2> QED
    BY <1>1, <2>1, <2>2, DeletingKept DEF DeleteLabels
<1>7. CASE Table[c] \in Inner
  <2>1. Table[c] # FAT32_FAT_END_OF_FILE /\ Table[c] \in Clusters
    BY <1>7, Places
  <2>2. /\ cluster_map' = [cluster_map EXCEPT ![c] = FAT32_FAT_EMPTY_ENTRY]
        /\ disk' = Put(disk, c, ZeroCluster)
        /\ local' = [local EXCEPT !.cluster = Table[c]]
        /\ pc' = "delete_chain" /\ UNCHANGED <<request, disk_map, items>>
    BY <1>3, <2>1 DEF DeleteChain, Goto, Put, StoreNext
  <2>3. local'.slot = local.slot
    BY <2>2 DEF DriverInv, Serving, Locals
  <2>4. Table' = Put(Table, c, FAT32_FAT_EMPTY_ENTRY)
    BY <1>1, <1>2, <2>2, TablePut
  <2>5. Table'[c] = FAT32_FAT_EMPTY_ENTRY /\ \A b \in Inner : b # c => Table'[b] = Table[b]
    BY <1>2, <1>3, <2>4, Places DEF Put, Maps
  <2>6. disk'[c] = ZeroCluster /\ \A b \in Clusters : b # c => disk'[b] = disk[b]
    BY <1>2, <1>3, <2>2, Places DEF Put, Volumes
  <2>7. ~IsFolder(disk'[c].table)
    BY <2>6, EmptyMade, EmptyUnused
  <2>8. \A i \in Slots : ~Listed(disk, X, c, i) /\ ~Listed(disk', X, c, i)
    BY <1>2, <2>7 DEF Listed
  <2>9. ~HasOwner(Table, disk, X, c) /\ Placed(Table, disk, X)
    BY <1>2 DEF Volume, Allocated
  <2>10. Doomed' = X
    BY <2>2, <2>3 DEF Doomed
  <2> HIDE DEF c, X
  <2>11. Shelf(disk', Table', X) = Shelf(disk, Table, X)
    BY <1>2, <2>5, <2>6, <2>8, <2>9, ShelfUnowned
  <2> QED
    BY <1>1, <1>5, <2>2, <2>5, <2>10, <2>11, DeletingKept DEF DeleteLabels
<1> QED
  BY <1>4, <1>6, <1>7

LEMMA DeleteLastStored ==
    ASSUME DriverInv, VolumeInv, StoreInv, StoreNext, DeleteLast
    PROVE  StoreInv'
<1> DEFINE c == local.cluster
           X == {<<request.parent, local.slot>>}
<1>1. /\ pc = "delete_last" /\ pc' = "delete_parent" /\ UNCHANGED <<disk_map, request, items>>
      /\ disk' = Put(disk, c, ZeroCluster)
      /\ cluster_map' = [cluster_map EXCEPT ![c] = FAT32_FAT_EMPTY_ENTRY]
      /\ local' = [local EXCEPT !.table[local.slot] = EmptyEntry]
  BY DEF DeleteLast, Goto, Put, Freed, StoreNext
<1>2. /\ c \in Inner /\ Table[c] = FAT32_FAT_END_OF_FILE
      /\ IsFolder(disk[c].table) => ~NotEmpty(disk[c].table)
      /\ Volume(Table, disk, X, {}, {c})
  BY <1>1 DEF VolumeInv, Pending, Doomed, Owed, Loose
<1>3. Table \in Maps /\ disk \in Volumes
  BY TableSeen
<1>4. Table' = Put(Table, c, FAT32_FAT_EMPTY_ENTRY)
  BY <1>1, <1>2, TablePut
<1>5. Table'[c] = FAT32_FAT_EMPTY_ENTRY /\ \A b \in Inner : b # c => Table'[b] = Table[b]
  BY <1>2, <1>3, <1>4, Places DEF Put, Maps
<1>6. disk'[c] = ZeroCluster /\ \A b \in Clusters : b # c => disk'[b] = disk[b]
  BY <1>1, <1>2, <1>3, Places DEF Put, Volumes
<1>7. ~IsFolder(disk'[c].table)
  BY <1>6, EmptyMade, EmptyUnused
<1>8. \A i \in Slots : ~Listed(disk, X, c, i) /\ ~Listed(disk', X, c, i)
  BY <1>2, <1>7 DEF Listed, NotEmpty, Slots
<1>9. ~HasOwner(Table, disk, X, c) /\ Placed(Table, disk, X)
  BY <1>2 DEF Volume, Allocated
<1>10. local'.slot = local.slot
  BY <1>1 DEF DriverInv, Serving, Locals
<1>11. Doomed' = X /\ Doomed = X
  BY <1>1, <1>10 DEF Doomed
<1> HIDE DEF c, X
<1>12. Shelf(disk', Table', X) = Shelf(disk, Table, X)
  BY <1>2, <1>5, <1>6, <1>8, <1>9, ShelfUnowned
<1> QED
  BY <1>1, <1>5, <1>11, <1>12, DeletingKept DEF DeleteLabels

LEMMA DeleteParentStored ==
    ASSUME DriverInv, VolumeInv, StoreInv, StoreNext, DeleteParent
    PROVE  StoreInv'
<1> DEFINE p == request.parent
           i == local.slot
           X == {<<p, i>>}
           O == {}
<1>1. /\ pc = "delete_parent" /\ pc' = "delete_map"
      /\ UNCHANGED <<cluster_map, disk_map, request, items>>
      /\ disk' = [disk EXCEPT ![p] = TableCluster(local.table)]
  BY DEF DeleteParent, Goto, volatile, StoreNext
<1>2. /\ IsFolder(Parent) /\ i \in Slots /\ local.table = [Parent EXCEPT ![i] = EmptyEntry]
      /\ Volume(Table, disk, X, {}, {})
  BY <1>1 DEF VolumeInv, Pending, Doomed, Owed, Loose
<1>3. disk \in Volumes /\ p \in Dirs
  BY <1>1, TableSeen DEF Resting
<1>4. disk' = Rewrite(disk, p, i, EmptyEntry) /\ IsFolder(disk[p].table)
  BY <1>1, <1>2 DEF Rewrite, Parent
<1>5. Table' = Table /\ Doomed = X /\ Doomed' = O
  BY <1>1 DEF Table, Doomed
<1>6. ~Listed(disk, X, p, i)
  BY DEF Listed
<1>7. ~Listed(Rewrite(disk, p, i, EmptyEntry), O, p, i)
  <2>1. Rewrite(disk, p, i, EmptyEntry)[p].table[i] = EmptyEntry
    BY <1>2, <1>3, EmptyMade, Rewritten
  <2> QED
    BY <2>1 DEF Listed, EmptyEntry
<1>8. \A d \in Dirs, j \in Slots : d # p \/ j # i => <<d, j>> \notin X \union O
  OBVIOUS
<1> HIDE DEF p, i, X, O
<1>9. Shelf(Rewrite(disk, p, i, EmptyEntry), Table, O) = Shelf(disk, Table, X)
  BY <1>2, <1>3, <1>4, <1>6, <1>7, <1>8, EmptyMade, ShelfRewritten DEF Volume
<1> QED
  BY <1>1, <1>4, <1>5, <1>9, DeletingKept DEF DeleteLabels

-----------------------------------------------------------------------------
(* write.                                                                   *)

\* A folder of the volume is the root or an item.
LEMMA FolderKnown ==
    ASSUME NEW p \in Dirs, IsFolder(disk[p].table), Linked(disk, {}, {}),
           items = Shelf(disk, Table, {})
    PROVE  p \in FS!FolderIds
<1>1. CASE p = ROOT_CLUSTER_NUMBER
  BY <1>1 DEF FS!FolderIds
<1>2. CASE p # ROOT_CLUSTER_NUMBER
  <2>1. p \in Inner
    BY <1>2, FAT32Assumption DEF Dirs, Inner, ROOT_CLUSTER_NUMBER
  <2>2. LinkedUp(disk, {}, p)
    BY SMTT(30), <2>1 DEF Linked
  <2>3. PICK d \in Dirs, i \in Slots :
           /\ Listed(disk, {}, d, i) /\ disk[d].table[i].cluster = p
           /\ disk[d].table[i].attribute = ATTR_SUBDIRECTORY
    BY <2>2 DEF LinkedUp
  <2> DEFINE f == ItemOf(disk, Table, d, i)
  <2>4. \A g : g \in Shelf(disk, Table, {}) <=>
           \E e \in Dirs, j \in Slots : Listed(disk, {}, e, j) /\ g = ItemOf(disk, Table, e, j)
    BY ShelfMembers
  <2>5. f \in items
    BY <2>3, <2>4, Zenon
  <2>6. f.kind = "folder" /\ f.id = p
    BY <2>3, ItemFields
  <2> HIDE DEF f
  <2> QED
    BY <2>5, <2>6 DEF FS!FolderIds
<1> QED
  BY <1>1, <1>2

\* A write that goes on adds a name that is free and a cluster that is free.
LEMMA WriteFresh ==
    ASSUME DriverInv, VolumeInv, StoreInv, pc = "write", NEW i \in Indices, CanWrite(i),
           NEW c, FirstEmptyCluster(c)
    PROVE  /\ Fresh(IF request.size = 0 THEN "folder" ELSE "file", c)
           /\ items = Shelf(disk, Table, {})
           /\ ~HasOwner(Table, disk, {}, c)
<1>1. /\ c \in Inner /\ Table[c] = FAT32_FAT_EMPTY_ENTRY /\ IsFolder(Parent)
      /\ request.parent \in Dirs /\ Volume(Table, disk, {}, {}, {})
  BY WriteFinds
<1>2. items = Shelf(disk, Table, {})
  BY DEF StoreInv, FileLabels, DeleteLabels
<1>3. request.parent \in FS!FolderIds
  BY <1>1, <1>2, FolderKnown DEF Volume, Parent
<1>4. ~HasOwner(Table, disk, {}, c)
  BY <1>1 DEF Volume, Allocated
<1>5. \A j \in Slots : ~(SameName(Parent[j], request) /\ Parent[j].attribute = Attribute)
  BY DEF CanWrite, Duplicate, Slots
<1> DEFINE kind == IF request.size = 0 THEN "folder" ELSE "file"
<1>6. ASSUME NEW g \in items PROVE g.id # c /\ ~(Target(g) /\ g.kind = kind)
  <2>1. PICK d \in Dirs, j \in Slots : Listed(disk, {}, d, j) /\ g = ItemOf(disk, Table, d, j)
    BY <1>2, ShelfMembers
  <2> DEFINE e == disk[d].table[j]
  <2>2. /\ g.folder = d /\ g.name = e.name /\ g.ext = e.ext /\ g.id = e.cluster
        /\ g.kind = IF e.attribute = ATTR_SUBDIRECTORY THEN "folder" ELSE "file"
    BY <2>1, ItemFields
  <2>3. e.attribute \in {0, ATTR_SUBDIRECTORY}
    BY <2>1, Places, TableSeen DEF Volumes, Tables, Entries
  <2> HIDE DEF e
  <2>4. g.id # c
    BY <1>4, <2>1, <2>2 DEF HasOwner, e
  <2>5. ASSUME Target(g), g.kind = kind PROVE FALSE
    <3>1. d = request.parent /\ e = Parent[j]
      BY <2>2, <2>5 DEF Target, Parent, e
    <3>2. SameName(Parent[j], request)
      BY <2>2, <2>5, <3>1 DEF Target, SameName
    <3>3. e.attribute = Attribute
      BY <2>2, <2>3, <2>5 DEF Attribute
    <3> QED
      BY <1>5, <3>1, <3>2, <3>3
  <2> QED
    BY <2>4, <2>5
<1>7. Fresh(kind, c)
  BY <1>3, <1>6 DEF Fresh
<1> QED
  BY <1>2, <1>4, <1>7

LEMMA WriteFolderStored ==
    ASSUME DriverInv, VolumeInv, StoreInv, StoreNext, WriteFolder
    PROVE  StoreInv'
<1>1. PICK i \in Indices, c \in Cells :
         /\ CanWrite(i) /\ FirstEmptyCluster(c)
         /\ local' = [local EXCEPT !.cluster = c, !.table =
               [Parent EXCEPT ![i] = init_directory_entry(request.name, request.ext,
                                                          ATTR_SUBDIRECTORY, c, 0)]]
         /\ cluster_map' = WithName([cluster_map EXCEPT ![c] = FAT32_FAT_END_OF_FILE])
  BY DEF WriteFolder
<1>2. /\ pc = "write" /\ pc' = "folder_table" /\ UNCHANGED <<disk, request, items>>
      /\ request.size = 0
  BY DEF WriteFolder, Goto, StoreNext
<1>3. /\ c \in Inner /\ Volume(Table, disk, {}, {}, {})
  BY <1>1, <1>2, WriteFinds
<1>4. Table' = Put(Table, c, FAT32_FAT_END_OF_FILE) /\ Table \in Maps
  BY <1>1, <1>2, <1>3, TablePut, TableSeen
<1>5. Fresh("folder", c) /\ items = Shelf(disk, Table, {}) /\ ~HasOwner(Table, disk, {}, c)
  BY <1>1, <1>2, WriteFresh
<1>6. \A b \in Inner : b # c => Table'[b] = Table[b]
  BY <1>3, <1>4, Places DEF Put, Maps
<1>7. Shelf(disk, Table', {}) = Shelf(disk, Table, {})
  BY <1>3, <1>5, <1>6, ShelfUnowned DEF Volume
<1>8. local'.cluster = c
  BY <1>1 DEF DriverInv, Serving, Locals
<1>9. Fresh("folder", local.cluster)'
  BY <1>2, <1>5, <1>8 DEF Fresh, FS!FolderIds, Target
<1> QED
  BY <1>2, <1>5, <1>7, <1>9 DEF StoreInv, FileLabels, FolderLabels, DeleteLabels

LEMMA WriteFolderTableStored ==
    ASSUME DriverInv, VolumeInv, StoreInv, StoreNext, WriteFolderTable
    PROVE  StoreInv'
<1> DEFINE t == DirectoryTable(request.name, local.cluster, ParentName, request.parent)
           c == local.cluster
           O == {}
<1>1. /\ pc = "folder_table" /\ pc' = "folder_parent"
      /\ disk' = [disk EXCEPT ![c] = TableCluster(t)]
      /\ UNCHANGED <<cluster_map, request, local, items>>
  BY DEF WriteFolderTable, Goto, volatile, StoreNext
<1>2. /\ c \in Inner /\ ~IsFolder(disk[c].table) /\ Volume(Table, disk, O, {}, {c})
  BY <1>1 DEF VolumeInv, Pending, Doomed, Owed, Loose
<1>3. disk \in Volumes
  BY TableSeen
<1>4. Unused(t) /\ TableCluster(t).table = t
  BY DirectoryTableUnused DEF TableCluster
<1> HIDE DEF t
<1>5. disk'[c] = TableCluster(t) /\ \A b \in Clusters : b # c => disk'[b] = disk[b]
  BY <1>1, <1>2, <1>3, Places DEF Volumes
<1>6. \A i \in Slots : ~Listed(disk, O, c, i) /\ ~Listed(disk', O, c, i)
  BY <1>2, <1>4, <1>5 DEF Listed, Unused
<1>7. ~HasOwner(Table, disk, O, c) /\ Placed(Table, disk, O)
  BY <1>2 DEF Volume, Allocated
<1> HIDE DEF O, c
<1>8. Shelf(disk', Table, O) = Shelf(disk, Table, O)
  <2> DEFINE M == Table
  <2>1. \A b \in Inner : b # c => M[b] = Table[b]
    OBVIOUS
  <2> HIDE DEF M
  <2>2. Shelf(disk', M, O) = Shelf(disk, Table, O)
    BY <1>2, <1>5, <1>6, <1>7, <2>1, ShelfUnowned
  <2> QED
    BY <2>2 DEF M
<1>9. Table' = Table
  BY <1>1 DEF Table
<1>10. /\ request.size = 0 /\ Fresh("folder", c) /\ items = Shelf(disk, Table, O)
  BY <1>1 DEF StoreInv, FileLabels, FolderLabels, DeleteLabels, O, c
<1>11. Fresh("folder", local.cluster)'
  BY <1>1, <1>10 DEF Fresh, FS!FolderIds, Target, c
<1> QED
  BY <1>1, <1>8, <1>9, <1>10, <1>11 DEF StoreInv, FileLabels, FolderLabels, DeleteLabels, O

\* An item that has just been entered joins the others.
LEMMA ShelfWith ==
    ASSUME NEW map, NEW vol, NEW p \in Dirs, NEW i \in Slots,
           OwnedOnce(map, vol, {}), Listed(vol, {}, p, i)
    PROVE  Shelf(vol, map, {}) = Shelf(vol, map, {<<p, i>>}) \union {ItemOf(vol, map, p, i)}
  BY ShelfWithout

\* The last step of making a folder adds it.
LEMMA FolderAdded ==
    ASSUME DriverInv, VolumeInv, StoreInv, StoreNext, WriteFolderParent
    PROVE  \E f : /\ items' = items \union {f}
                  /\ Target(f) /\ Fresh(f.kind, f.id) /\ f.id \in Inner /\ f.data = <<>>
<1> DEFINE p == request.parent
           c == local.cluster
<1>1. /\ pc = "folder_parent" /\ pc' = "idle"
      /\ disk' = [disk EXCEPT ![p] = TableCluster(local.table)]
      /\ UNCHANGED cluster_map
  BY DEF WriteFolderParent, Return, volatile
<1>2. PICK i \in Slots : ~Parent[i].used /\ local.table = [Parent EXCEPT ![i] = NewEntry]
  BY <1>1 DEF VolumeInv, Pending
<1>3. /\ c \in Inner /\ IsFolder(Parent) /\ Volume(Table, disk, {}, {}, {c})
  BY <1>1 DEF VolumeInv, Pending, Doomed, Owed, Loose
<1>4. Table \in Maps /\ disk \in Volumes /\ request \in Requests /\ p \in Dirs
  BY <1>1, TableSeen DEF Resting
<1>5. NewEntry \in Entries
  <2>1. /\ request.name \in Names \union {NoText, RootName}
        /\ request.ext \in Exts \union {NoText} /\ 0 \in Sizes \union {0}
        /\ ATTR_SUBDIRECTORY \in {0, ATTR_SUBDIRECTORY} /\ local.cluster \in Cells
    BY <1>3, <1>4, RequestFields, Places, Ranges
  <2> QED
    BY <2>1, EntryMade DEF NewEntry
<1>6. /\ NewEntry.used /\ NewEntry.cluster = c /\ NewEntry.name = request.name
      /\ NewEntry.ext = request.ext /\ NewEntry.attribute = ATTR_SUBDIRECTORY
  BY DEF NewEntry, init_directory_entry
<1> DEFINE new == Rewrite(disk, p, i, NewEntry)
           X == {<<p, i>>}
           O == {}
<1>7. disk' = new /\ IsFolder(disk[p].table)
  BY <1>1, <1>2, <1>3 DEF Rewrite, Parent
<1>8. new[p].table[i] = NewEntry /\ IsFolder(new[p].table)
  <2>1. /\ \A x \in Clusters : IsFolder(new[x].table) <=> IsFolder(disk[x].table)
        /\ \A d \in Dirs, j \in Slots :
              new[d].table[j] = IF d = p /\ j = i THEN NewEntry ELSE disk[d].table[j]
    BY <1>4, <1>5, Rewritten
  <2> HIDE DEF new
  <2> QED
    BY <1>4, <1>7, <2>1, Places
<1>9. ~Listed(disk, O, p, i)
  BY <1>2 DEF Listed, Parent
<1>10. ~Listed(new, X, p, i) /\ Listed(new, O, p, i)
  BY <1>4, <1>6, <1>8 DEF Listed
<1>11. \A d \in Dirs, j \in Slots : d # p \/ j # i => <<d, j>> \notin O \union X
  OBVIOUS
<1>12. Placed(Table, disk, O) /\ Kinds(Table, disk, O)
  BY <1>3 DEF Volume
<1>13. VolumeInv' /\ Table' = Table
  BY <1>1, WriteFolderParentInv DEF Table
<1>14. OwnedOnce(Table, new, O)
  BY <1>1, <1>7, <1>13 DEF VolumeInv, Volume, Doomed
<1> HIDE DEF new, X, O
<1>15. Shelf(new, Table, X) = Shelf(disk, Table, O)
  BY <1>4, <1>5, <1>7, <1>9, <1>10, <1>11, <1>12, ShelfRewritten DEF new
<1>16. Shelf(new, Table, O) = Shelf(new, Table, X) \union {ItemOf(new, Table, p, i)}
  BY <1>4, <1>10, <1>14, ShelfWith DEF X, O
<1>17. items' = Shelf(new, Table, O)
  BY <1>1, <1>7, <1>13, IdleStored DEF O
<1>18. items = Shelf(disk, Table, O) /\ Fresh("folder", c)
  BY <1>1 DEF StoreInv, FileLabels, FolderLabels, DeleteLabels, O
<1> DEFINE f == ItemOf(new, Table, p, i)
<1>19. /\ f.folder = p /\ f.name = request.name /\ f.ext = request.ext /\ f.id = c
       /\ f.kind = "folder" /\ f.data = <<>>
  BY <1>6, <1>8, ItemFields
<1> HIDE DEF f
<1>20. items' = items \union {f}
  BY <1>15, <1>16, <1>17, <1>18 DEF f
<1> QED
  BY <1>3, <1>18, <1>19, <1>20 DEF Target

LEMMA WriteFileStored ==
    ASSUME DriverInv, VolumeInv, StoreInv, StoreNext, WriteFile
    PROVE  StoreInv'
<1>1. PICK i \in Indices, c \in Cells :
         /\ CanWrite(i) /\ FirstEmptyCluster(c)
         /\ local' = [local EXCEPT !.cluster = c]
         /\ disk' = [disk EXCEPT ![request.parent] = TableCluster(
               [Parent EXCEPT ![i] = init_directory_entry(request.name, request.ext,
                                                          0, c, request.size)])]
  BY DEF WriteFile
<1> DEFINE e == init_directory_entry(request.name, request.ext, 0, c, request.size)
           p == request.parent
           new == Rewrite(disk, p, i, e)
           X == {<<p, i>>}
           O == {}
<1>2. /\ pc = "write" /\ pc' = "file_parts"
      /\ UNCHANGED <<cluster_map, disk_map, request, items>> /\ request.size > 0
  BY DEF WriteFile, Goto, volatile, StoreNext
<1>3. /\ c \in Inner /\ i \in Slots /\ IsFolder(Parent) /\ ~Parent[i].used
      /\ request \in Requests /\ p \in Dirs /\ Volume(Table, disk, O, {}, {})
  BY <1>1, <1>2, WriteFinds
<1>4. request.size \in Nat /\ request.size # 0
  BY <1>2, <1>3, RequestFields
<1>5. Fresh("file", c) /\ items = Shelf(disk, Table, O)
  BY <1>1, <1>2, <1>4, WriteFresh
<1>6. Table' = Table /\ Table = disk_map /\ disk \in Volumes
  BY <1>2, TableSeen DEF Table, DriverInv, Mirrored, Operations
<1>7. e \in Entries
  <2>1. /\ request.name \in Names \union {NoText, RootName}
        /\ request.ext \in Exts \union {NoText} /\ request.size \in Sizes \union {0}
        /\ 0 \in {0, ATTR_SUBDIRECTORY}
    BY <1>3, RequestFields
  <2> QED
    BY <2>1, EntryMade
<1>8. e.used
  BY DEF init_directory_entry
<1>9. disk' = new /\ IsFolder(disk[p].table)
  BY <1>1, <1>3 DEF Rewrite, Parent
<1> HIDE DEF e
<1>10. new[p].table[i] = e /\ IsFolder(new[p].table)
  <2>1. /\ \A x \in Clusters : IsFolder(new[x].table) <=> IsFolder(disk[x].table)
        /\ \A d \in Dirs, j \in Slots :
              new[d].table[j] = IF d = p /\ j = i THEN e ELSE disk[d].table[j]
    BY <1>3, <1>6, <1>7, Rewritten
  <2> HIDE DEF new
  <2> QED
    BY <1>3, <1>9, <2>1, Places
<1>11. ~Listed(disk, O, p, i)
  BY <1>3 DEF Listed, Parent
<1>12. ~Listed(new, X, p, i) /\ Listed(new, O, p, i)
  BY <1>3, <1>8, <1>10 DEF Listed
<1>13. \A d \in Dirs, j \in Slots : d # p \/ j # i => <<d, j>> \notin O \union X
  OBVIOUS
<1>14. Placed(Table, disk, O) /\ Kinds(Table, disk, O)
  BY <1>3 DEF Volume
<1> HIDE DEF new, X, O
<1>15. Shelf(new, Table, X) = Shelf(disk, Table, O)
  BY <1>3, <1>6, <1>7, <1>9, <1>11, <1>12, <1>13, <1>14, ShelfRewritten DEF new
<1>16. local'.cluster = c /\ local'.count = 0
  BY <1>1, <1>2 DEF DriverInv, Serving, Locals, NoLocal, Operations
<1> DEFINE way == [k \in 0..0 |-> c]
<1>17. way[0] = c /\ way \in [0..local'.count -> Inner] /\ 0..(0 - 1) = {}
  BY <1>3, <1>16
<1> HIDE DEF way
<1>18. Chain(way)'
  <2>1. way[local'.count] = local'.cluster /\ 0..(local'.count - 1) = {} /\ pc' # "file_map"
    BY <1>2, <1>16, <1>17
  <2> QED
    BY <2>1 DEF Chain, way
<1>19. Fresh("file", way[0])'
  BY <1>2, <1>5, <1>17 DEF Fresh, FS!FolderIds, Target, way
<1>20. items' = Shelf(disk', Table', {<<request'.parent, i>>})
  BY <1>2, <1>5, <1>6, <1>9, <1>15 DEF X
<1>21. Listed(disk', {}, request'.parent, i)
  BY <1>2, <1>9, <1>12 DEF O
<1>22. Parent'[i] = init_directory_entry(request'.name, request'.ext, 0, way[0], request'.size)
  BY <1>2, <1>9, <1>10, <1>17 DEF Parent, e
<1>23. \A b \in Inner : disk_map'[b] = Table'[b]
  BY <1>2, <1>6
<1>24. Filing'
  BY <1>3, <1>17, <1>18, <1>19, <1>20, <1>21, <1>22, <1>23 DEF Filing, way
<1> QED
  BY <1>2, <1>24 DEF StoreInv, FileLabels, FolderLabels, DeleteLabels

\* A part of the buffer goes to the end of the new file's chain, which is nobody else's.
LEMMA WriteFilePartStored ==
    ASSUME DriverInv, VolumeInv, StoreInv, StoreNext, WriteFilePart
    PROVE  StoreInv'
<1> DEFINE c == local.cluster
           n == local.count
           p == request.parent
           v == DataCluster(request.content, n)
<1>1. /\ pc = "file_parts" /\ pc' \in FileLabels
      /\ disk' = [disk EXCEPT ![c] = v] /\ UNCHANGED <<disk_map, request, items>>
  BY DEF WriteFilePart, Goto, StoreNext, FileLabels
<1>2. PICK i \in Slots, way \in [0..n -> Inner] :
         /\ Listed(disk, {}, p, i)
         /\ Parent[i] = init_directory_entry(request.name, request.ext, 0, way[0], request.size)
         /\ Fresh("file", way[0])
         /\ items = Shelf(disk, Table, {<<p, i>>})
         /\ Chain(way)
         /\ \A b \in Inner \ Steps(way, n) : disk_map[b] = Table[b]
  BY <1>1 DEF StoreInv, Filing, FileLabels
<1>3. /\ c \in Inner /\ ~IsFolder(disk[c].table) /\ Table[c] = FAT32_FAT_EMPTY_ENTRY
      /\ Volume(Table, disk, {}, {c}, {}) /\ c \in Clusters
  BY <1>1, Places DEF VolumeInv, Pending, Doomed, Owed, Loose
<1>4. n \in Nat /\ n <= Part /\ disk \in Volumes /\ Table \in Maps /\ p \in Dirs
  BY <1>1, TableSeen DEF DriverInv, Serving, Locals, Resting
<1>5. /\ way[n] = c
      /\ \A k \in 0..(n - 1) : Table[way[k]] = way[k + 1] /\ disk[way[k]].chunk = <<request.content, k>>
  BY <1>2 DEF Chain
<1>6. \A k \in 0..(n - 1) : way[k] \in Inner /\ way[k + 1] \in Inner /\ way[k] # c
  <2>1. \A k \in 0..(n - 1) : k \in 0..n /\ k + 1 \in 0..n
    BY <1>4
  <2>2. \A k \in 0..(n - 1) : way[k] \in Inner /\ way[k + 1] \in Inner
    BY <2>1
  <2> QED
    BY <1>3, <1>5, <2>2, Places
<1>7. v.chunk = <<request.content, n>> /\ ~IsFolder(v.table)
  BY EmptyUnused DEF DataCluster
<1> HIDE DEF v
<1>8. disk'[c] = v /\ \A b \in Clusters : b # c => disk'[b] = disk[b]
  BY <1>1, <1>3, <1>4 DEF Volumes
<1>9. \A b \in Inner : b # c => Table'[b] = Table[b]
  <2>1. \A b \in Inner : b # c => cluster_map'[b] = cluster_map[b]
    <3>1. PICK w : cluster_map' = [cluster_map EXCEPT ![c] = w]
      BY DEF WriteFilePart
    <3>2. cluster_map \in [Cells -> Links] /\ Inner \subseteq Cells
      BY Places, Ranges DEF DriverInv, Stored
    <3> QED
      BY <3>1, <3>2
  <2> QED
    BY <1>1, <2>1, Places DEF Table, SavedMap, FileLabels
<1>10. \A doomed : \A d \in Dirs, j \in Slots :
          /\ Listed(disk', doomed, d, j) <=> Listed(disk, doomed, d, j)
          /\ Listed(disk, doomed, d, j) => disk'[d].table[j] = disk[d].table[j]
  BY <1>3, <1>7, <1>8, Places DEF Listed
<1> DEFINE X == {<<p, i>>}
           S == Inner \ Steps(way, n)
<1>11. c \notin S
  BY <1>4, <1>5 DEF Steps
<1>12. S \subseteq Clusters /\ Closed(Table, S) /\ Inside(disk, X, S)
  <2>1. disk[p].table[i].cluster = way[0]
    BY <1>2 DEF Parent, init_directory_entry
  <2>2. Placed(Table, disk, {}) /\ OwnedOnce(Table, disk, {})
    BY <1>3 DEF Volume
  <2> QED
    BY <1>2, <1>4, <1>5, <2>1, <2>2, ApartFromChain
<1> HIDE DEF X
<1>13. Agree(disk, Table, disk', Table', S)
  BY <1>8, <1>9, <1>11, <1>12 DEF Agree
<1>14. Shelf(disk', Table', X) = Shelf(disk, Table, X)
  <2> HIDE DEF S
  <2> QED
    BY <1>10, <1>12, <1>13, ShelfKept
<1>15. items' = Shelf(disk', Table', {<<request'.parent, i>>})
  BY <1>1, <1>2, <1>14 DEF X
<1>16. Listed(disk', {}, request'.parent, i) /\ Parent'[i] = Parent[i]
  <2>1. Listed(disk', {}, p, i) /\ disk'[p].table[i] = disk[p].table[i]
    BY <1>2, <1>4, <1>10, Zenon
  <2> QED
    BY <1>1, <2>1 DEF Parent
<1>17. Parent'[i] = init_directory_entry(request'.name, request'.ext, 0, way[0], request'.size)
  BY <1>1, <1>2, <1>16
<1>18. Fresh("file", way[0])'
  BY <1>1, <1>2 DEF Fresh, FS!FolderIds, Target
<1>19. \A k \in 0..(n - 1) :
          Table'[way[k]] = way[k + 1] /\ disk'[way[k]].chunk = <<request.content, k>>
  BY <1>5, <1>6, <1>8, <1>9, Places
<1>20. \A b \in S : disk_map'[b] = Table'[b]
  BY <1>1, <1>2, <1>9, <1>11
<1>21. cluster_map \in [Cells -> Links] /\ c \in Cells /\ c \in 0..(CLUSTER_MAP_SIZE - 1)
  BY <1>3, Places, Ranges DEF DriverInv, Stored
<1>22. Part' = Part /\ Part \in Int
  <2>1. NumberOfPartitions(request.size) \in Nat
    BY <1>1, TableSeen, RequestFields, PartsCounted DEF Resting
  <2> QED
    BY <1>1, <2>1 DEF Part
<1>23. CASE ~(n < Part)
  <2>1. /\ cluster_map' = [cluster_map EXCEPT ![c] = FAT32_FAT_END_OF_FILE]
        /\ pc' = "file_map" /\ local' = local
    BY <1>23 DEF WriteFilePart, Goto
  <2>2. Table'[c] = FAT32_FAT_END_OF_FILE
    BY <1>21, <2>1 DEF Table, SavedMap
  <2>3. Part' = Part /\ n = Part
    BY <1>4, <1>23, <1>22
  <2>4. Chain(way)'
    BY <1>1, <1>5, <1>7, <1>8, <1>19, <2>1, <2>2, <2>3 DEF Chain
  <2>5. way \in [0..local'.count -> Inner] /\ \A b \in Inner \ Steps(way, local'.count) : disk_map'[b] = Table'[b]
    BY <1>20, <2>1
  <2>6. Filing'
    BY <1>15, <1>16, <1>17, <1>18, <2>4, <2>5 DEF Filing
  <2> QED
    BY <2>1, <2>6 DEF StoreInv, FileLabels, FolderLabels, DeleteLabels
<1>24. CASE n < Part
  <2>1. PICK next \in Cells :
           /\ cluster_map' = [cluster_map EXCEPT ![c] = next]
           /\ local' = [local EXCEPT !.cluster = next, !.count = @ + 1]
           /\ pc' = "file_parts"
    <3>1. ~(n >= Part)
      BY <1>4, <1>22, <1>24
    <3> QED
      BY <3>1 DEF WriteFilePart, Goto
  <2>2. local'.cluster = next /\ local'.count = n + 1
    BY <2>1 DEF DriverInv, Serving, Locals
  <2>3. next \in Inner
    <3>1. VolumeInv'
      BY WriteFilePartInv
    <3> QED
      BY <2>1, <2>2, <3>1 DEF VolumeInv, Pending
  <2>4. Table'[c] = next
    BY <1>21, <2>1 DEF Table, SavedMap
  <2>5. PICK way2 \in [0..(n + 1) -> Inner] :
           way2 = [k \in 0..(n + 1) |-> IF k = n + 1 THEN next ELSE way[k]]
    <3>1. [k \in 0..(n + 1) |-> IF k = n + 1 THEN next ELSE way[k]] \in [0..(n + 1) -> Inner]
      BY <1>4, <2>3
    <3> QED
      BY <3>1, Zenon
  <2>6. way2[n + 1] = next /\ way2[0] = way[0] /\ \A k \in 0..n : way2[k] = way[k]
    BY <1>4, <2>5
  <2>7. ASSUME NEW k \in 0..n
        PROVE  Table'[way2[k]] = way2[k + 1] /\ disk'[way2[k]].chunk = <<request.content, k>>
    <3>1. CASE k = n
      BY <1>4, <1>5, <1>7, <1>8, <2>4, <2>6, <3>1
    <3>2. CASE k # n
      <4>1. k \in 0..(n - 1) /\ k + 1 \in 0..n
        BY <1>4, <3>2
      <4> QED
        BY <1>19, <2>6, <4>1
    <3> QED
      BY <3>1, <3>2
  <2>8. Chain(way2)'
    <3>1. local'.count - 1 = n /\ request' = request /\ pc' # "file_map"
      BY <1>1, <1>4, <2>1, <2>2
    <3>2. way2[local'.count] = local'.cluster
      BY <2>2, <2>6
    <3>3. \A k \in 0..(local'.count - 1) :
             Table'[way2[k]] = way2[k + 1] /\ disk'[way2[k]].chunk = <<request'.content, k>>
      BY <2>7, <3>1
    <3> QED
      BY <3>1, <3>2, <3>3, Zenon DEF Chain
  <2>9. Inner \ Steps(way2, n + 1) \subseteq S
    <3>1. \A k \in 0..n : k \in 0..(n + 1)
      BY <1>4
    <3> QED
      BY <2>6, <3>1 DEF Steps
  <2>10. way2 \in [0..local'.count -> Inner]
         /\ \A b \in Inner \ Steps(way2, local'.count) : disk_map'[b] = Table'[b]
    BY <1>20, <2>2, <2>5, <2>9
  <2>11. Fresh("file", way2[0])'
    BY <1>18, <2>6 DEF Fresh
  <2>12. Parent'[i] = init_directory_entry(request'.name, request'.ext, 0, way2[0], request'.size)
    BY <1>17, <2>6
  <2>13. Filing'
    BY <1>15, <1>16, <2>8, <2>10, <2>11, <2>12 DEF Filing
  <2> QED
    BY <2>1, <2>13 DEF StoreInv, FileLabels, FolderLabels, DeleteLabels
<1> QED
  BY <1>23, <1>24

\* The last step of writing a file adds it, with the whole buffer.
LEMMA FileAdded ==
    ASSUME DriverInv, VolumeInv, StoreInv, StoreNext, WriteFileMap
    PROVE  \E f : /\ items' = items \union {f}
                  /\ Target(f) /\ Fresh(f.kind, f.id) /\ f.id \in Inner
                  /\ f.data = Buffer(request.content, request.size)
                  /\ request.size > 0
<1> DEFINE n == local.count
           p == request.parent
<1>1. pc = "file_map" /\ pc' = "idle" /\ UNCHANGED <<disk, cluster_map>>
  BY DEF WriteFileMap, Return, volatile
<1>2. PICK i \in Slots, way \in [0..n -> Inner] :
         /\ Listed(disk, {}, p, i)
         /\ Parent[i] = init_directory_entry(request.name, request.ext, 0, way[0], request.size)
         /\ Fresh("file", way[0])
         /\ items = Shelf(disk, Table, {<<p, i>>})
         /\ Chain(way)
  BY <1>1 DEF StoreInv, Filing, FileLabels
<1>3. /\ n \in Nat /\ disk \in Volumes /\ p \in Dirs /\ request.size \in Nat
      /\ request.size > 0
  BY <1>1, TableSeen, RequestFields DEF DriverInv, Serving, Locals, Resting
<1>4. Table' = Table /\ OwnedOnce(Table, disk, {})
  BY <1>1 DEF Table, VolumeInv, Volume, Doomed
<1>5. /\ way[n] = local.cluster /\ n = Part
      /\ \A k \in 0..(n - 1) : Table[way[k]] = way[k + 1] /\ disk[way[k]].chunk = <<request.content, k>>
      /\ Table[way[n]] = FAT32_FAT_END_OF_FILE /\ disk[way[n]].chunk = <<request.content, n>>
  BY <1>1, <1>2 DEF Chain
<1>6. \A k \in 0..n : way[k] \in Inner /\ way[k] \in Clusters
  BY Places
<1>7. \A k \in 0..(n - 1) : HasNext(Table, way[k]) /\ Table[way[k]] = way[k + 1]
  <2>1. \A k \in 0..(n - 1) : k \in 0..n /\ k + 1 \in 0..n
    BY <1>3
  <2> QED
    BY <1>5, <1>6, <2>1, LinkOrEnd
<1>8. ~HasNext(Table, way[n])
  BY <1>3, <1>5, <1>6, LinkOrEnd
<1>9. way \in [0..n -> Clusters]
  BY <1>6
<1>10. Data(disk, Table)[way[0]] = [k \in 1..(n + 1) |-> disk[way[k - 1]].chunk]
  <2> DEFINE map == Table
             vol == disk
  <2>1. /\ vol \in Volumes /\ n \in Nat /\ way \in [0..n -> Clusters]
        /\ \A k \in 0..(n - 1) : HasNext(map, way[k]) /\ map[way[k]] = way[k + 1]
        /\ ~HasNext(map, way[n])
    BY <1>3, <1>7, <1>8, <1>9
  <2> HIDE DEF n, map, vol
  <2>2. Data(vol, map)[way[0]] = [k \in 1..(n + 1) |-> vol[way[k - 1]].chunk]
    BY SMTT(30), <2>1, DataAlong
  <2> QED
    BY <2>2 DEF map, vol
<1>11. \A k \in 1..(n + 1) : disk[way[k - 1]].chunk = <<request.content, k - 1>>
  <2> SUFFICES ASSUME NEW k \in 1..(n + 1)
               PROVE  disk[way[k - 1]].chunk = <<request.content, k - 1>>
    OBVIOUS
  <2>1. k - 1 = n \/ k - 1 \in 0..(n - 1)
    BY <1>3
  <2> QED
    BY <1>5, <2>1
<1>12. NumberOfPartitions(request.size) = n + 1
  <2>1. NumberOfPartitions(request.size) \in Nat
    BY <1>3, PartsCounted
  <2> QED
    BY <1>5, <2>1 DEF Part
<1>13. Data(disk, Table)[way[0]] = Buffer(request.content, request.size)
  BY <1>10, <1>11, <1>12 DEF Buffer
<1>14. PICK f : f = ItemOf(disk, Table, p, i)
  OBVIOUS
<1>15. /\ Parent[i].name = request.name /\ Parent[i].ext = request.ext
       /\ Parent[i].cluster = way[0] /\ Parent[i].attribute # ATTR_SUBDIRECTORY
  BY <1>2 DEF init_directory_entry, ATTR_SUBDIRECTORY
<1>16. /\ f.folder = p /\ f.name = request.name /\ f.ext = request.ext /\ f.id = way[0]
       /\ f.kind = "file" /\ f.data = Data(disk, Table)[way[0]]
  BY <1>14, <1>15, ItemFields DEF Parent
<1>17. items' = Shelf(disk, Table, {})
  BY <1>1, <1>4, IdleStored
<1>18. Shelf(disk, Table, {}) = Shelf(disk, Table, {<<p, i>>}) \union {f}
  BY <1>2, <1>3, <1>4, <1>14, ShelfWith
<1>19. way[0] \in Inner
  BY <1>3, <1>6
<1> QED
  BY <1>2, <1>3, <1>13, <1>16, <1>17, <1>18, <1>19 DEF Target

\* The last step of Delete takes away what it was asked to.
LEMMA ItemRemoved ==
    ASSUME DriverInv, VolumeInv, StoreInv, StoreNext, DeleteMap
    PROVE  \E f \in items : /\ items' = items \ {f} /\ Target(f)
                            /\ f.kind = "folder" => \A g \in items : g.folder # f.id
<1>1. pc = "delete_map" /\ pc' = "idle" /\ UNCHANGED <<disk, cluster_map>>
  BY DEF DeleteMap, Return, volatile
<1>2. Table' = Table /\ Doomed = {}
  BY <1>1 DEF Table, Doomed
<1>3. items' = Shelf(disk, Table, {})
  BY <1>1, <1>2, IdleStored
<1> QED
  BY <1>1, <1>2, <1>3 DEF StoreInv, Deleting, DeleteLabels

-----------------------------------------------------------------------------
(* The theorems.                                                            *)

\* A blank disk holds nothing.
LEMMA StoreStart == StoreInit => StoreInv
<1> SUFFICES ASSUME StoreInit PROVE StoreInv
  OBVIOUS
<1>1. pc = "off" /\ items = {} /\ \A c \in Clusters : disk[c] = ZeroCluster
  BY DEF StoreInit, Init
<1>2. Shelf(disk, Table, {}) = {}
  BY <1>1, EmptyMade, EmptyUnused, ShelfBlank
<1> QED
  BY <1>1, <1>2 DEF StoreInv, FileLabels, FolderLabels, DeleteLabels

\* Every step keeps items and the volume in step, as long as no request is cut off.
LEMMA StoreStep ==
    ASSUME Hazards = {}, DriverInv, VolumeInv, StoreInv, StoreNext, power_losses' = 0
    PROVE  StoreInv'
<1>1. CASE pc' = "idle"
  BY <1>1, IdleStored
<1>2. CASE pc' # "idle"
  <2>1. ~PowerLoss
    <3>1. power_losses \in Nat
      BY DEF DriverInv, Serving
    <3> QED
      BY <3>1 DEF PowerLoss
  <2>2. ~(read_directory \/ WriteRefused \/ WriteFolderParent \/ WriteFileMap \/ DeleteMap)
    BY <1>2 DEF read_directory, WriteRefused, WriteFolderParent, WriteFileMap, DeleteMap, Return
  <2>3. \/ Initialize \/ FormatMap \/ FormatRoot \/ Call \/ SwitchOff
        \/ read \/ ReadChain \/ WriteFolder \/ WriteFolderTable \/ WriteFile \/ WriteFilePart
        \/ Delete \/ DeleteChain \/ DeleteLast \/ DeleteParent
    BY <2>1, <2>2, NotAstray DEF StoreNext, Next, DriverStep
  <2>4. Initialize \/ FormatMap \/ FormatRoot \/ Call \/ SwitchOff => StoreInv'
    BY SwitchStored
  <2>5. read \/ ReadChain => StoreInv'
    BY <1>2, ReadStored, ReadChainStored
  <2>6. WriteFolder \/ WriteFolderTable \/ WriteFile \/ WriteFilePart => StoreInv'
    BY WriteFolderStored, WriteFolderTableStored, WriteFileStored, WriteFilePartStored
  <2>7. Delete \/ DeleteChain \/ DeleteLast \/ DeleteParent => StoreInv'
    BY <1>2, DeleteStored, DeleteChainStored, DeleteLastStored, DeleteParentStored
  <2> QED
    BY <2>3, <2>4, <2>5, <2>6, <2>7
<1> QED
  BY <1>1, <1>2

LEMMA StoreStutters ==
    ASSUME StoreInv, UNCHANGED storeVars
    PROVE  StoreInv'
<1>1. UNCHANGED <<disk_map, disk, cluster_map, pc, request, local, items>>
  BY DEF storeVars, vars, media, volatile, call
<1>2. /\ Table' = Table /\ Doomed' = Doomed /\ Parent' = Parent /\ Part' = Part
      /\ FS!FolderIds' = FS!FolderIds
  BY <1>1 DEF Table, Doomed, Parent, Part, FS!FolderIds
<1>3. \A f : Target(f)' <=> Target(f)
  BY <1>1 DEF Target
<1>4. \A kind, id : Fresh(kind, id)' <=> Fresh(kind, id)
  BY <1>1, <1>2, <1>3 DEF Fresh
<1>5. \A way : Chain(way)' <=> Chain(way)
  BY <1>1, <1>2, Zenon DEF Chain
<1>6. Reading' <=> Reading
  BY <1>1, <1>2, <1>3, Zenon DEF Reading
<1>7. Filing' <=> Filing
  BY <1>1, <1>2, <1>4, <1>5, Zenon DEF Filing
<1>8. Deleting' <=> Deleting
  BY <1>1, <1>2, <1>3, Zenon DEF Deleting
<1> QED
  BY <1>1, <1>2, <1>4, <1>6, <1>7, <1>8, Zenon DEF StoreInv

\* With items or without, it is the same driver.
LEMMA StoreIsDriver == StoreSpec => Spec
<1>1. StoreInit => Init
  BY DEF StoreInit
<1>2. [StoreNext]_storeVars => [Next]_vars
  BY DEF StoreNext, storeVars
<1> QED
  BY <1>1, <1>2, PTL DEF StoreSpec, Spec

\* As long as no request has been cut off and requests are careful, the volume holds the
\* items, but for the one that the write or Delete in work is adding or removing.
THEOREM StoreCorrect ==
    Hazards = {} => (StoreSpec => [](power_losses = 0 => StoreInv))
<1> SUFFICES ASSUME Hazards = {} PROVE StoreSpec => [](power_losses = 0 => StoreInv)
  OBVIOUS
<1> DEFINE V == power_losses = 0 => VolumeInv
           I == power_losses = 0 => StoreInv
<1>1. StoreInit => I
  BY StoreStart
<1>2. DriverInv /\ V /\ I /\ [StoreNext]_storeVars => I'
  <2> SUFFICES ASSUME DriverInv, V, I, [StoreNext]_storeVars, power_losses' = 0 PROVE StoreInv'
    OBVIOUS
  <2>1. [Next]_vars
    BY DEF StoreNext, storeVars
  <2>2. power_losses = 0
    BY <2>1, LossesCounted
  <2> QED
    BY <2>2, StoreStep, StoreStutters
<1>3. Spec => []V
  BY VolumeCorrect
<1> HIDE DEF V, I
<1>4. StoreSpec => []I
  BY <1>1, <1>2, <1>3, StoreIsDriver, DriverCorrect, PTL DEF StoreSpec
<1> QED
  BY <1>4, PTL DEF I

\* The same when the power never fails.
LEMMA StoreStays ==
    MaxPowerLoss = 0 /\ Hazards = {} => (StoreSpec => [](DriverInv /\ VolumeInv /\ StoreInv))
<1> SUFFICES ASSUME MaxPowerLoss = 0, Hazards = {}
             PROVE  StoreSpec => [](DriverInv /\ VolumeInv /\ StoreInv)
  OBVIOUS
<1>1. DriverInv => power_losses = 0
  BY DEF DriverInv, Serving
<1>2. StoreSpec => [](power_losses = 0 => StoreInv)
  BY SMTT(30), StoreCorrect
<1>3. Spec => [](power_losses = 0 => VolumeInv)
  BY SMTT(30), VolumeCorrect
<1> QED
  BY <1>1, <1>2, <1>3, StoreIsDriver, DriverCorrect, PTL

\* The steps that change what the disk holds.
Commits == WriteFolderParent \/ WriteFileMap \/ DeleteMap

\* The others leave it as it is.
LEMMA ItemsKept ==
    ASSUME DriverInv, VolumeInv, StoreInv, StoreNext, ~Commits
    PROVE  items' = items
<1>1. CASE pc' # "idle"
  BY <1>1 DEF StoreNext
<1>2. CASE pc' = "idle"
  <2>1. ~(WriteFolder \/ WriteFolderTable \/ WriteFile \/ WriteFilePart \/ DeleteChain
          \/ DeleteLast \/ DeleteParent \/ PowerLoss)
    BY <1>2 DEF WriteFolder, WriteFolderTable, WriteFile, WriteFilePart, DeleteChain, DeleteLast,
                DeleteParent, PowerLoss, PowerOff, Goto
  <2>2. \/ Initialize \/ FormatMap \/ FormatRoot \/ Call \/ SwitchOff
        \/ read_directory \/ read \/ ReadChain \/ WriteRefused \/ Delete
    BY SMTT(30), <2>1, NotAstray DEF StoreNext, Next, DriverStep, Commits
  <2>3. ASSUME read_directory \/ read \/ ReadChain \/ WriteRefused \/ Delete
        PROVE  /\ UNCHANGED <<disk, cluster_map>>
               /\ pc \in {"read_directory", "read", "read_chain", "write", "Delete"}
    BY <2>3 DEF read_directory, read, ReadChain, WriteRefused, Delete, media, volatile
  <2>4. ASSUME read_directory \/ read \/ ReadChain \/ WriteRefused \/ Delete
        PROVE  items' = items
    BY <1>2, <2>3, <2>4, RefusedStored DEF FileLabels, DeleteLabels
  <2> QED
    BY <2>2, <2>4, SwitchStored
<1> QED
  BY <1>1, <1>2

\* A write that commits adds one item, of the requested name and with the whole buffer.
LEMMA WriteCommits ==
    ASSUME DriverInv, VolumeInv, StoreInv, StoreNext, WriteFolderParent \/ WriteFileMap
    PROVE  \E f \in items' \ items :
               /\ items' = items \union {f} /\ Target(f) /\ Fresh(f.kind, f.id) /\ f.id \in Inner
               /\ f.data = IF request.size = 0 THEN <<>> ELSE Buffer(request.content, request.size)
<1>1. \E f : /\ items' = items \union {f} /\ Target(f) /\ Fresh(f.kind, f.id) /\ f.id \in Inner
             /\ f.data = IF request.size = 0 THEN <<>> ELSE Buffer(request.content, request.size)
  <2>1. CASE WriteFolderParent
    <3>1. request.size = 0
      BY <2>1 DEF WriteFolderParent, StoreInv, FolderLabels
    <3> QED
      BY <2>1, <3>1, FolderAdded
  <2>2. CASE WriteFileMap
    <3>1. PICK f : /\ items' = items \union {f}
                   /\ Target(f) /\ Fresh(f.kind, f.id) /\ f.id \in Inner
                   /\ f.data = Buffer(request.content, request.size)
                   /\ request.size > 0
      BY <2>2, FileAdded
    <3>2. request.size # 0
      BY <3>1
    <3> QED
      BY <3>1, <3>2
  <2> QED
    BY <2>1, <2>2
<1>2. PICK f : /\ items' = items \union {f} /\ Target(f) /\ Fresh(f.kind, f.id) /\ f.id \in Inner
               /\ f.data = IF request.size = 0 THEN <<>> ELSE Buffer(request.content, request.size)
  BY <1>1
<1>3. f \in items' \ items
  BY <1>2 DEF Fresh
<1> QED
  BY <1>2, <1>3

\* When the power never fails and requests are careful, the driver implements FileStore:
\* a write adds one file or one empty folder under a name and a cluster that are free,
\* in a folder that exists; Delete removes one file or one empty folder; no other step,
\* in particular none of the writes in between, restarting or formatting, shows.
THEOREM FileStoreImplemented ==
    MaxPowerLoss = 0 /\ Hazards = {} => (StoreSpec => ImplementsFileStore)
<1> SUFFICES ASSUME MaxPowerLoss = 0, Hazards = {} PROVE StoreSpec => ImplementsFileStore
  OBVIOUS
<1>1. StoreInit => FS!Init
  BY DEF StoreInit, FS!Init
<1>2. DriverInv /\ VolumeInv /\ StoreInv /\ [StoreNext]_storeVars => [FS!Next]_items
  <2> SUFFICES ASSUME DriverInv, VolumeInv, StoreInv, StoreNext PROVE FS!Next \/ items' = items
    BY DEF storeVars
  <2>1. CASE ~Commits
    BY <2>1, ItemsKept
  <2>2. CASE WriteFolderParent \/ WriteFileMap
    <3>1. PICK f \in items' \ items :
             items' = items \union {f} /\ Target(f) /\ Fresh(f.kind, f.id) /\ f.id \in Inner
      BY <2>2, WriteCommits
    <3>2. f.id # ROOT_CLUSTER_NUMBER
      BY <3>1 DEF Inner, ROOT_CLUSTER_NUMBER
    <3>3. f.folder \in FS!FolderIds
      BY <3>1 DEF Target, Fresh
    <3>4. \A g \in items : ~FS!SameKey(f, g) /\ f.id # g.id
      BY <3>1 DEF Target, Fresh, FS!SameKey
    <3> QED
      BY <3>1, <3>2, <3>3, <3>4 DEF FS!Next, FS!Write
  <2>3. CASE DeleteMap
    BY <2>3, ItemRemoved DEF FS!Next, FS!Delete
  <2> QED
    BY <2>1, <2>2, <2>3 DEF Commits
<1>3. StoreSpec => [](DriverInv /\ VolumeInv /\ StoreInv)
  BY SMTT(30), StoreStays
<1> QED
  BY <1>1, <1>2, <1>3, PTL DEF StoreSpec, ImplementsFileStore, FS!Spec

\* Which requests can end in success, and where.
LEMMA Successes ==
    ASSUME DriverInv, StoreInv, Next, pc \notin {"idle", "off"}, pc' = "idle"
    PROVE  /\ WriteFolderParent \/ WriteFileMap => request.op = "write" /\ reply' = 0
           /\ DeleteMap => request.op = "Delete" /\ reply' = 0
           /\ request.op = "write" /\ reply' = 0 => WriteFolderParent \/ WriteFileMap
           /\ request.op = "Delete" /\ reply' = 0 => DeleteMap
<1>1. WriteFolderParent \/ WriteFileMap => request.op = "write" /\ reply' = 0
  BY DEF WriteFolderParent, WriteFileMap, Return, DriverInv, Serving, WriteLabels
<1>2. DeleteMap => request.op = "Delete" /\ reply' = 0
  BY DEF DeleteMap, Return, StoreInv, DeleteLabels
<1>3. ~(WriteFolder \/ WriteFolderTable \/ WriteFile \/ WriteFilePart \/ DeleteChain
        \/ DeleteLast \/ DeleteParent \/ PowerLoss \/ SwitchOff \/ FormatMap \/ Initialize \/ Call
        \/ ReadBootSector \/ DeleteBootSector \/ FollowForeignWord \/ RunWild \/ Wild)
  BY DEF WriteFolder, WriteFolderTable, WriteFile, WriteFilePart, DeleteChain, DeleteLast,
         DeleteParent, PowerLoss, SwitchOff, PowerOff, Goto, FormatMap, Initialize, Call,
         ReadBootSector, DeleteBootSector, FollowForeignWord, RunWild, Wild, vars, call
<1>4. FormatRoot => request.op = "none"
  BY DEF FormatRoot, StoreInv, NoRequest
<1>5. read_directory => request.op = "read_directory"
  BY DEF read_directory, DriverInv, Serving, Operations
<1>6. ReadChain => request.op = "read"
  BY DEF ReadChain, StoreInv
<1>7. read \/ WriteRefused \/ Delete => reply' # 0
  BY DEF read, WriteRefused, Delete, Return, Goto
<1> QED
  BY <1>1, <1>2, <1>3, <1>4, <1>5, <1>6, <1>7 DEF Next, DriverStep

\* When the power never fails and requests are careful, a reply is true: 0 from write means
\* that an item of that name with the whole buffer is new on the disk, 0 from Delete that
\* one of that name is gone, any other code that nothing changed.
THEOREM RepliesAreTrue ==
    MaxPowerLoss = 0 /\ Hazards = {} => (StoreSpec => RepliesTellTheTruth)
<1> SUFFICES ASSUME MaxPowerLoss = 0, Hazards = {} PROVE StoreSpec => RepliesTellTheTruth
  OBVIOUS
<1> DEFINE there(f) == f.folder = request.parent /\ f.name = request.name /\ f.ext = request.ext
           told == CASE reply' # 0 -> items' = items
                     [] reply' = 0 /\ request.op = "write" ->
                           \E f \in items' \ items : there(f) /\
                               f.data = IF request.size = 0 THEN <<>>
                                        ELSE Buffer(request.content, request.size)
                     [] reply' = 0 /\ request.op = "Delete" -> \E f \in items \ items' : there(f)
                     [] OTHER -> items' = items
<1>1. ASSUME DriverInv, VolumeInv, StoreInv, StoreNext, pc \notin {"idle", "off"}, pc' = "idle"
      PROVE  told
  <2>1. /\ WriteFolderParent \/ WriteFileMap => request.op = "write" /\ reply' = 0
        /\ DeleteMap => request.op = "Delete" /\ reply' = 0
        /\ request.op = "write" /\ reply' = 0 => WriteFolderParent \/ WriteFileMap
        /\ request.op = "Delete" /\ reply' = 0 => DeleteMap
    BY <1>1, Successes DEF StoreNext
  <2>2. CASE reply' # 0
    <3>1. items' = items
      BY <1>1, <2>1, <2>2, ItemsKept DEF Commits
    <3> QED
      BY <2>2, <3>1
  <2>3. CASE reply' = 0 /\ request.op = "write"
    <3>1. \E f \in items' \ items : there(f) /\
             f.data = IF request.size = 0 THEN <<>> ELSE Buffer(request.content, request.size)
      BY <1>1, <2>1, <2>3, WriteCommits DEF Target
    <3> QED
      BY <2>3, <3>1
  <2>4. CASE reply' = 0 /\ request.op = "Delete"
    <3>1. PICK f \in items : items' = items \ {f} /\ Target(f)
      BY <1>1, <2>1, <2>4, ItemRemoved
    <3>2. \E g \in items \ items' : there(g)
      BY <3>1 DEF Target
    <3> QED
      BY <2>4, <3>2
  <2>5. CASE reply' = 0 /\ request.op \notin {"write", "Delete"}
    <3>1. items' = items
      BY <1>1, <2>1, <2>5, ItemsKept DEF Commits
    <3> QED
      BY <2>5, <3>1
  <2> QED
    BY <2>2, <2>3, <2>4, <2>5
<1> HIDE DEF told
<1>2. DriverInv /\ VolumeInv /\ StoreInv /\ [StoreNext]_storeVars
         => [pc \notin {"idle", "off"} /\ pc' = "idle" /\ request.op # "none" => told]_storeVars
  BY <1>1
<1>3. StoreSpec => [](DriverInv /\ VolumeInv /\ StoreInv)
  BY SMTT(30), StoreStays
<1>4. StoreSpec =>
        [][pc \notin {"idle", "off"} /\ pc' = "idle" /\ request.op # "none" => told]_storeVars
  BY <1>2, <1>3, PTL DEF StoreSpec
<1> QED
  BY <1>4 DEF RepliesTellTheTruth, told

\* When the power never fails and requests are careful, a read that ends has delivered the
\* data of the file it was asked for, all of it and nothing else.
THEOREM ReadsAreWhole ==
    MaxPowerLoss = 0 /\ Hazards = {} => (StoreSpec => ReadsWhatWasWritten)
<1> SUFFICES ASSUME MaxPowerLoss = 0, Hazards = {} PROVE StoreSpec => ReadsWhatWasWritten
  OBVIOUS
<1>1. ASSUME DriverInv, VolumeInv, StoreInv, StoreNext, pc = "read_chain", pc' = "idle"
      PROVE  \E f \in items :
                 /\ f.folder = request.parent /\ f.name = request.name /\ f.ext = request.ext
                 /\ f.kind = "file" /\ f.data = local.out
  <2>1. ReadChain
    BY <1>1, NotAstray DEF StoreNext, Next, DriverStep, FormatMap, FormatRoot, read_directory, read,
                WriteRefused, WriteFolder, WriteFolderTable, WriteFolderParent, WriteFile,
                WriteFilePart, WriteFileMap, Delete, DeleteChain, DeleteLast, DeleteParent,
                DeleteMap, Initialize, Call, SwitchOff, PowerLoss, PowerOff
  <2>2. local.cluster \notin Inner
    BY <1>1, <2>1, Places DEF ReadChain, Goto
  <2>3. PICK f \in items : /\ Target(f) /\ f.kind = "file"
                           /\ f.data = local.out \o (IF local.cluster \in Inner
                                         THEN Data(disk, Table)[local.cluster] ELSE <<>>)
    BY <1>1, Zenon DEF StoreInv, Reading
  <2>4. local.out \o <<>> = local.out
    BY <1>1, Joined DEF DriverInv, Serving, Locals
  <2>5. f.data = local.out
    BY <2>2, <2>3, <2>4, Zenon
  <2> QED
    BY <2>3, <2>5 DEF Target
<1>2. DriverInv /\ VolumeInv /\ StoreInv /\ [StoreNext]_storeVars
         => [pc = "read_chain" /\ pc' = "idle" =>
                \E f \in items :
                    /\ f.folder = request.parent /\ f.name = request.name /\ f.ext = request.ext
                    /\ f.kind = "file" /\ f.data = local.out]_storeVars
  BY <1>1
<1>3. StoreSpec => [](DriverInv /\ VolumeInv /\ StoreInv)
  BY SMTT(30), StoreStays
<1> QED
  BY <1>2, <1>3, PTL DEF StoreSpec, ReadsWhatWasWritten

\* A table that differs only where no chain leads reads the same volume.
LEMMA ShelfReread ==
    ASSUME NEW vol, NEW map, NEW map2, NEW S \in SUBSET Clusters, NEW doomed,
           Closed(map, S), Inside(vol, doomed, S), \A b \in S : map2[b] = map[b]
    PROVE  Shelf(vol, map, doomed) \subseteq Shelf(vol, map2, {})
<1> DEFINE O == {}
<1>1. \A d \in Dirs, i \in Slots : Listed(vol, doomed, d, i) => Listed(vol, O, d, i)
  BY DEF Listed
<1>2. Agree(vol, map, vol, map2, S)
  BY DEF Agree
<1> HIDE DEF O
<1>3. \A f : f \in Shelf(vol, map, doomed) <=>
         \E d \in Dirs, i \in Slots : Listed(vol, doomed, d, i) /\ f = ItemOf(vol, map, d, i)
  BY ShelfMembers
<1>4. \A f : f \in Shelf(vol, map2, O) <=>
         \E d \in Dirs, i \in Slots : Listed(vol, O, d, i) /\ f = ItemOf(vol, map2, d, i)
  BY ShelfMembers
<1>5. ASSUME NEW d \in Dirs, NEW i \in Slots, Listed(vol, doomed, d, i)
      PROVE  ItemOf(vol, map2, d, i) = ItemOf(vol, map, d, i)
  <2>1. vol[d].table[i].attribute # ATTR_SUBDIRECTORY => vol[d].table[i].cluster \in S
    BY <1>5 DEF Inside
  <2> DEFINE new == vol
  <2>2. new[d].table[i] = vol[d].table[i] /\ Agree(vol, map, new, map2, S)
    BY <1>2
  <2> HIDE DEF new
  <2>3. ItemOf(new, map2, d, i) = ItemOf(vol, map, d, i)
    BY <2>1, <2>2, ItemKept
  <2> QED
    BY <2>3 DEF new
<1>6. Shelf(vol, map, doomed) \subseteq Shelf(vol, map2, O)
  BY <1>1, <1>3, <1>4, <1>5, Zenon
<1> QED
  BY <1>6 DEF O

\* What the disk alone, clusters and table, holds at any moment of a request.
LEMMA DiskHolds ==
    ASSUME DriverInv, VolumeInv, StoreInv, pc # "off"
    PROVE  \A f \in items : f \in Shelf(disk, disk_map, {}) \/ Target(f)
<1>1. pc \in Labels \ {"off", "wild"}
  BY DEF DriverInv, Serving, VolumeInv, Tame
<1>2. CASE pc = "format_map"
  <2>1. \A c \in Clusters : disk[c] = ZeroCluster
    BY <1>2 DEF VolumeInv, Formatted
  <2>2. Shelf(disk, Table, {}) = {}
    BY <2>1, EmptyMade, EmptyUnused, ShelfBlank
  <2> QED
    BY <1>2, <2>2 DEF StoreInv, FileLabels, DeleteLabels
<1>3. CASE pc \notin FileLabels \union DeleteLabels \union {"format_map"}
  <2>1. Table = disk_map
    BY <1>1, <1>3 DEF DriverInv, Mirrored, Table, Labels, FileLabels, DeleteLabels
  <2> QED
    BY <1>3, <2>1 DEF StoreInv
<1>4. CASE pc \in FileLabels
  <2>1. PICK i \in Slots, way \in [0..local.count -> Inner] :
           /\ Listed(disk, {}, request.parent, i)
           /\ Parent[i] = init_directory_entry(request.name, request.ext, 0, way[0], request.size)
           /\ items = Shelf(disk, Table, {<<request.parent, i>>})
           /\ Chain(way)
           /\ \A b \in Inner \ Steps(way, local.count) : disk_map[b] = Table[b]
    BY <1>4 DEF StoreInv, Filing
  <2> DEFINE S == Inner \ Steps(way, local.count)
             X == {<<request.parent, i>>}
  <2>2. /\ Placed(Table, disk, {}) /\ OwnedOnce(Table, disk, {})
        /\ request.parent \in Dirs /\ local.count \in Nat
    BY <1>4, TableSeen DEF VolumeInv, Volume, Doomed, FileLabels, DriverInv, Serving, Locals, Resting
  <2>3. disk[request.parent].table[i].cluster = way[0]
    BY <2>1 DEF Parent, init_directory_entry
  <2>4. \A k \in 0..(local.count - 1) : Table[way[k]] = way[k + 1]
    BY <2>1 DEF Chain
  <2>5. S \subseteq Clusters /\ Closed(Table, S) /\ Inside(disk, X, S)
    BY <2>1, <2>2, <2>3, <2>4, ApartFromChain
  <2> HIDE DEF X
  <2>6. \A b \in S : disk_map[b] = Table[b]
    BY <2>1
  <2> HIDE DEF S
  <2>7. Shelf(disk, Table, X) \subseteq Shelf(disk, disk_map, {})
    BY <2>5, <2>6, ShelfReread
  <2> QED
    BY <2>1, <2>7 DEF X
<1>5. CASE pc \in DeleteLabels
  <2>1. PICK f \in items : Target(f) /\ Shelf(disk, Table, Doomed) = items \ {f}
    BY <1>5 DEF StoreInv, Deleting
  <2> DEFINE S == Owned(Table, disk, Doomed)
  <2>2. Placed(Table, disk, Doomed) /\ Allocated(Table, disk, Doomed, {}, Loose)
    BY <1>5 DEF VolumeInv, Volume, Owed, DeleteLabels
  <2>3. S \subseteq Clusters /\ Closed(Table, S) /\ Inside(disk, Doomed, S)
    BY <2>2, ChainsOwned
  <2>4. \A b \in S : Table[b] # FAT32_FAT_EMPTY_ENTRY /\ b \in Inner
    BY <2>2 DEF Owned, Allocated
  <2>5. \A b \in S : disk_map[b] = Table[b]
    BY <1>5, <2>4 DEF StoreInv, Deleting
  <2> HIDE DEF S
  <2>6. Shelf(disk, Table, Doomed) \subseteq Shelf(disk, disk_map, {})
    BY <2>3, <2>5, ShelfReread
  <2> QED
    BY <2>1, <2>6
<1> QED
  BY <1>2, <1>3, <1>4, <1>5

\* However often the power fails, the first time it does every file and folder that the
\* interrupted request did not name is on the disk, whole, by the table on the disk:
\* write and Delete order their writes so that nothing else is in danger at any point.
THEOREM PowerLossContained ==
    Hazards = {} => (StoreSpec => PowerLossHarmsOnlyTheTarget)
<1> SUFFICES ASSUME Hazards = {} PROVE StoreSpec => PowerLossHarmsOnlyTheTarget
  OBVIOUS
<1> DEFINE V == power_losses = 0 => VolumeInv
           I == power_losses = 0 => StoreInv
<1>1. ASSUME DriverInv, V, I, StoreNext, power_losses = 0, pc' = "off"
      PROVE  \A f \in items :
                 \/ f \in Content(disk_map)'
                 \/ f.folder = request.parent /\ f.name = request.name /\ f.ext = request.ext
  <2>1. PowerOff /\ pc # "off"
    BY <1>1, NotAstray DEF StoreNext, Next, DriverStep, FormatMap, FormatRoot, read_directory, read, ReadChain,
                WriteRefused, WriteFolder, WriteFolderTable, WriteFolderParent, WriteFile,
                WriteFilePart, WriteFileMap, Delete, DeleteChain, DeleteLast, DeleteParent,
                DeleteMap, Initialize, Call, Requests, Operations, SwitchOff, PowerLoss, Goto, Return,
                Astray
  <2>2. disk' = disk /\ disk_map' = disk_map
    BY <2>1 DEF PowerOff, media
  <2>3. Content(disk_map)' = Shelf(disk, disk_map, {})
    BY <2>2, ContentShelf
  <2> QED
    BY <1>1, <2>1, <2>3, DiskHolds DEF Target
<1>2. Spec => []V
  BY VolumeCorrect
<1>3. StoreSpec => []I
  BY StoreCorrect
<1> HIDE DEF V, I
<1>4. DriverInv /\ V /\ I /\ [StoreNext]_storeVars
        => [power_losses = 0 /\ pc' = "off" =>
               \A f \in items :
                   \/ f \in Content(disk_map)'
                   \/ f.folder = request.parent /\ f.name = request.name
                      /\ f.ext = request.ext]_storeVars
  BY <1>1
<1> QED
  BY <1>2, <1>3, <1>4, StoreIsDriver, DriverCorrect, PTL
     DEF StoreSpec, PowerLossHarmsOnlyTheTarget

=============================================================================
