---------------------------- MODULE VolumeProofs ----------------------------
(***************************************************************************)
(* The FAT32 driver as long as the power stays on and the requests keep    *)
(* clear of the driver's two traps: no cluster is leaked, shared or        *)
(* dangling, for every size of table and directory.                        *)
(*                                                                         *)
(* What a request does to the volume is a handful of changes to a table    *)
(* map and a disk vol.  Volume says what is whole about them, up to what   *)
(* the request in work has not finished: entries that are going to be      *)
(* removed (doomed), clusters that have an owner and no mark in the table  *)
(* yet (owed), and clusters that have a mark and no owner (loose).         *)
(***************************************************************************)
EXTENDS FAT32Proofs, FiniteSetTheorems

Dirs  == 2..(CLUSTER_MAP_SIZE - 1)
Inner == 3..(CLUSTER_MAP_SIZE - 1)
Slots == 2..(DIRECTORY_ENTRIES - 1)

Listed(vol, doomed, d, i) ==
    /\ d \in Dirs /\ i \in Slots
    /\ IsFolder(vol[d].table) /\ vol[d].table[i].used
    /\ <<d, i>> \notin doomed

\* Entries and links refer to clusters of the table.
Placed(map, vol, doomed) ==
    /\ \A d \in Dirs, i \in Slots : Listed(vol, doomed, d, i) => vol[d].table[i].cluster \in Inner
    /\ \A b \in Inner : map[b] \in {FAT32_FAT_EMPTY_ENTRY, FAT32_FAT_END_OF_FILE} \union Inner

\* No two of them refer to the same one.
OwnedOnce(map, vol, doomed) ==
    /\ \A d, e \in Dirs, i, j \in Slots :
          /\ Listed(vol, doomed, d, i) /\ Listed(vol, doomed, e, j)
          /\ vol[d].table[i].cluster = vol[e].table[j].cluster
          => d = e /\ i = j
    /\ \A a, b \in Inner : map[a] \in Inner /\ map[a] = map[b] => a = b
    /\ \A d \in Dirs, i \in Slots, b \in Inner :
          Listed(vol, doomed, d, i) => map[b] # vol[d].table[i].cluster

\* A cluster is allocated when it has an owner.
HasOwner(map, vol, doomed, c) ==
    \/ \E d \in Dirs, i \in Slots : Listed(vol, doomed, d, i) /\ vol[d].table[i].cluster = c
    \/ \E b \in Inner : map[b] = c
Allocated(map, vol, doomed, owed, loose) ==
    \A c \in Inner :
        HasOwner(map, vol, doomed, c)
            <=> (map[c] # FAT32_FAT_EMPTY_ENTRY \/ c \in owed) /\ c \notin loose

\* An entry tells a folder from a file; files are chains, folders one cluster each.
Kinds(map, vol, doomed) ==
    /\ \A d \in Dirs, i \in Slots : Listed(vol, doomed, d, i) =>
          (vol[d].table[i].attribute = ATTR_SUBDIRECTORY
               <=> IsFolder(vol[vol[d].table[i].cluster].table))
    /\ \A b \in Inner : map[b] \in Inner =>
          ~IsFolder(vol[b].table) /\ ~IsFolder(vol[map[b]].table)
    /\ \A c \in Inner : IsFolder(vol[c].table) => map[c] # FAT32_FAT_EMPTY_ENTRY

\* A folder knows the folder that lists it.
LinkedUp(vol, doomed, c) ==
    /\ vol[c].table[0].cluster = c
    /\ vol[c].table[1].cluster \in Dirs
    /\ \E i \in Slots :
          /\ Listed(vol, doomed, vol[c].table[1].cluster, i)
          /\ vol[vol[c].table[1].cluster].table[i].cluster = c
          /\ vol[vol[c].table[1].cluster].table[i].attribute = ATTR_SUBDIRECTORY
          /\ vol[vol[c].table[1].cluster].table[i].name = vol[c].table[0].name
Linked(vol, doomed, loose) ==
    \A c \in Inner \ loose : IsFolder(vol[c].table) => LinkedUp(vol, doomed, c)

\* What has a name is in use.
NamesUsed(vol) == \A d \in Dirs, i \in Slots :
                      vol[d].table[i].name # NoText => vol[d].table[i].used

Volume(map, vol, doomed, owed, loose) ==
    /\ Placed(map, vol, doomed)
    /\ OwnedOnce(map, vol, doomed)
    /\ Allocated(map, vol, doomed, owed, loose)
    /\ Kinds(map, vol, doomed)
    /\ Linked(vol, doomed, loose)
    /\ NamesUsed(vol)

\* The table that counts, and what the request in work has left open.
Table  == IF pc = "off" THEN disk_map ELSE SavedMap(cluster_map)
Doomed == IF pc \in {"delete_chain", "delete_last", "delete_parent"}
          THEN {<<request.parent, local.slot>>} ELSE {}
Owed   == IF pc = "file_parts" THEN {local.cluster} ELSE {}
Loose  == IF pc \in {"folder_table", "folder_parent", "delete_chain", "delete_last"}
          THEN {local.cluster} ELSE {}

\* Clusters of a file that are still to be found lie above the one in work.
FreeAbove(map, c) == {b \in (c + 1)..(CLUSTER_MAP_SIZE - 1) : map[b] = FAT32_FAT_EMPTY_ENTRY}

\* What the labels add.
NewEntry == init_directory_entry(request.name, request.ext, ATTR_SUBDIRECTORY, local.cluster, 0)
Pending ==
    /\ pc \in Operations => Careful(request)
    /\ pc \in {"folder_table", "folder_parent", "delete_chain", "delete_last", "delete_parent"} =>
          IsFolder(Parent)
    /\ pc \in {"folder_table", "folder_parent", "file_parts", "delete_chain", "delete_last"} =>
          local.cluster \in Inner
    /\ pc = "read_chain" =>
          \/ local.cluster = FAT32_FAT_END_OF_FILE
          \/ local.cluster \in Inner /\ Table[local.cluster] # FAT32_FAT_EMPTY_ENTRY
    /\ pc \in {"folder_table", "folder_parent"} =>
          /\ Table[local.cluster] = FAT32_FAT_END_OF_FILE
          /\ \E i \in Slots : ~Parent[i].used /\ local.table = [Parent EXCEPT ![i] = NewEntry]
    /\ pc \in {"folder_table", "file_parts", "delete_chain"} => ~IsFolder(disk[local.cluster].table)
    /\ pc = "folder_parent" =>
          /\ IsFolder(disk[local.cluster].table)
          /\ disk[local.cluster].table[0].cluster = local.cluster
          /\ disk[local.cluster].table[0].name = request.name
          /\ disk[local.cluster].table[1].cluster = request.parent
    /\ pc = "file_parts" =>
          /\ Table[local.cluster] = FAT32_FAT_EMPTY_ENTRY
          /\ Cardinality(FreeAbove(Table, local.cluster)) >= Part - local.count
    /\ pc \in {"delete_chain", "delete_last", "delete_parent"} => local.slot \in Slots
    /\ pc \in {"delete_chain", "delete_last"} =>
          /\ local.table = Parent
          /\ Table[local.cluster] # FAT32_FAT_EMPTY_ENTRY
    /\ pc = "delete_last" =>
          /\ Table[local.cluster] = FAT32_FAT_END_OF_FILE
          /\ local.cluster # request.parent
          /\ IsFolder(disk[local.cluster].table) => ~NotEmpty(disk[local.cluster].table)
    /\ pc = "delete_parent" => local.table = [Parent EXCEPT ![local.slot] = EmptyEntry]

\* The machine has been formatted, or is as it was made.
Formatted ==
    /\ pc # "off" => boot_sector
    /\ pc # "off" \/ boot_sector => Table[ROOT_CLUSTER_NUMBER] # FAT32_FAT_EMPTY_ENTRY
    /\ pc \in {"format_map", "format_root"} \/ ~boot_sector =>
          \A c \in Clusters : disk[c] = ZeroCluster
    /\ pc = "off" /\ ~boot_sector => \A c \in DOMAIN disk_map : disk_map[c] = 0
    /\ pc \in {"format_map", "format_root"} => cluster_map = FormattedMap

Tame == pc # "wild"

VolumeInv ==
    /\ Volume(Table, disk, Doomed, Owed, Loose)
    /\ Pending
    /\ Formatted
    /\ Tame

-----------------------------------------------------------------------------
(* One entry of one folder is rewritten.                                    *)

Maps    == [0..(CLUSTER_MAP_SIZE - 1) -> Links]
Volumes == [Clusters -> [table : Tables, chunk : Chunks]]
Rewrite(vol, p, i, e) == [vol EXCEPT ![p] = TableCluster([vol[p].table EXCEPT ![i] = e])]

\* The ranges of clusters and entries.
LEMMA Places ==
    /\ Inner \subseteq Dirs /\ Dirs \subseteq Clusters /\ Inner \subseteq 0..(CLUSTER_MAP_SIZE - 1)
    /\ Slots \subseteq Indices /\ 0 \notin Slots /\ 1 \notin Slots
    /\ FAT32_FAT_EMPTY_ENTRY \notin Inner /\ FAT32_FAT_END_OF_FILE \notin Inner
    /\ FAT32_FAT_END_OF_FILE # FAT32_FAT_EMPTY_ENTRY
    /\ CLUSTER_0_VALUE \notin Inner
<1>1. /\ Inner \subseteq Dirs /\ Dirs \subseteq Clusters
      /\ Inner \subseteq 0..(CLUSTER_MAP_SIZE - 1)
      /\ Slots \subseteq Indices /\ 0 \notin Slots /\ 1 \notin Slots
  BY FAT32Assumption DEF Inner, Dirs, Clusters, Slots, Indices
<1>2. FAT32_FAT_EMPTY_ENTRY \notin Inner
  BY DEF FAT32_FAT_EMPTY_ENTRY, Inner
<1>3. FAT32_FAT_END_OF_FILE # FAT32_FAT_EMPTY_ENTRY
  BY SMT DEF FAT32_FAT_END_OF_FILE, FAT32_FAT_EMPTY_ENTRY
<1> QED
  BY <1>1, <1>2, <1>3, Ranges

\* The rest of the volume stays as it was.
LEMMA Rewritten ==
    ASSUME NEW vol \in Volumes, NEW p \in Dirs, NEW i \in Slots, NEW e \in Entries
    PROVE  /\ Rewrite(vol, p, i, e) \in Volumes
           /\ \A c \in Clusters :
                 /\ IsFolder(Rewrite(vol, p, i, e)[c].table) <=> IsFolder(vol[c].table)
                 /\ Rewrite(vol, p, i, e)[c].table[0] = vol[c].table[0]
                 /\ Rewrite(vol, p, i, e)[c].table[1] = vol[c].table[1]
           /\ \A d \in Dirs, j \in Slots :
                 Rewrite(vol, p, i, e)[d].table[j] =
                     IF d = p /\ j = i THEN e ELSE vol[d].table[j]
<1> DEFINE t == [vol[p].table EXCEPT ![i] = e]
<1>1. p \in Clusters /\ i \in Indices /\ i # 0 /\ i # 1 /\ 0 \in Indices /\ 1 \in Indices
  BY Places, Ranges
<1>2. vol[p].table \in Tables
  BY <1>1 DEF Volumes
<1>3. /\ t \in Tables /\ t[0] = vol[p].table[0] /\ t[1] = vol[p].table[1]
      /\ \A j \in Indices : t[j] = IF j = i THEN e ELSE vol[p].table[j]
  BY <1>1, <1>2 DEF Tables
<1> HIDE DEF t
<1>4. Rewrite(vol, p, i, e) = [vol EXCEPT ![p] = TableCluster(t)]
  BY DEF Rewrite, t
<1>5. TableCluster(t) \in [table : Tables, chunk : Chunks] /\ TableCluster(t).table = t
  BY <1>3, TableMade
<1>6. /\ Rewrite(vol, p, i, e) \in Volumes
      /\ \A c \in Clusters :
            Rewrite(vol, p, i, e)[c].table = IF c = p THEN t ELSE vol[c].table
  BY <1>1, <1>4, <1>5 DEF Volumes
<1> QED
  BY <1>3, <1>6, Places DEF IsFolder

\* A new entry for a cluster nobody owned.
LEMMA EntryAdded ==
    ASSUME NEW map \in Maps, NEW vol \in Volumes, NEW p \in Dirs, NEW i \in Slots,
           NEW e \in Entries, NEW c \in Inner,
           Placed(map, vol, {}), OwnedOnce(map, vol, {}), Kinds(map, vol, {}), NamesUsed(vol),
           ~HasOwner(map, vol, {}, c),
           IsFolder(vol[p].table), ~vol[p].table[i].used, e.used, e.cluster = c,
           e.attribute = ATTR_SUBDIRECTORY <=> IsFolder(vol[c].table)
    PROVE  /\ Placed(map, Rewrite(vol, p, i, e), {})
           /\ OwnedOnce(map, Rewrite(vol, p, i, e), {})
           /\ Kinds(map, Rewrite(vol, p, i, e), {})
           /\ NamesUsed(Rewrite(vol, p, i, e))
           /\ \A x \in Inner : HasOwner(map, Rewrite(vol, p, i, e), {}, x)
                                   <=> HasOwner(map, vol, {}, x) \/ x = c
           /\ \A x \in Inner : LinkedUp(vol, {}, x) => LinkedUp(Rewrite(vol, p, i, e), {}, x)
<1> DEFINE new == Rewrite(vol, p, i, e)
<1>1. /\ \A x \in Clusters : /\ IsFolder(new[x].table) <=> IsFolder(vol[x].table)
                             /\ new[x].table[0] = vol[x].table[0]
                             /\ new[x].table[1] = vol[x].table[1]
      /\ \A d \in Dirs, j \in Slots :
            new[d].table[j] = IF d = p /\ j = i THEN e ELSE vol[d].table[j]
  BY Rewritten
<1> HIDE DEF new
<1>2. /\ ~Listed(vol, {}, p, i) /\ Listed(new, {}, p, i)
      /\ new[p].table[i] = e
      /\ \A d \in Dirs, j \in Slots : ~(d = p /\ j = i) =>
            /\ Listed(new, {}, d, j) <=> Listed(vol, {}, d, j)
            /\ new[d].table[j] = vol[d].table[j]
  BY <1>1, Places DEF Listed
<1>3. Placed(map, new, {})
  BY <1>2 DEF Placed
<1>4. OwnedOnce(map, new, {})
  <2>1. ASSUME NEW d \in Dirs, NEW j \in Slots, Listed(vol, {}, d, j)
        PROVE  vol[d].table[j].cluster # c
    BY <2>1 DEF HasOwner
  <2>2. \A b \in Inner : map[b] # c
    BY DEF HasOwner
  <2>3. ASSUME NEW d \in Dirs, NEW f \in Dirs, NEW j \in Slots, NEW k \in Slots,
               Listed(new, {}, d, j), Listed(new, {}, f, k),
               new[d].table[j].cluster = new[f].table[k].cluster
        PROVE  d = f /\ j = k
    <3>1. CASE (d = p /\ j = i) /\ ~(f = p /\ k = i)
      BY <1>2, <2>1, <2>3, <3>1
    <3>2. CASE ~(d = p /\ j = i) /\ (f = p /\ k = i)
      BY <1>2, <2>1, <2>3, <3>2
    <3>3. CASE ~(d = p /\ j = i) /\ ~(f = p /\ k = i)
      <4>1. /\ Listed(vol, {}, d, j) /\ Listed(vol, {}, f, k)
            /\ vol[d].table[j].cluster = vol[f].table[k].cluster
        BY <1>2, <2>3, <3>3
      <4> QED
        BY <4>1 DEF OwnedOnce
    <3> QED
      BY <3>1, <3>2, <3>3
  <2>4. ASSUME NEW d \in Dirs, NEW j \in Slots, NEW b \in Inner, Listed(new, {}, d, j)
        PROVE  map[b] # new[d].table[j].cluster
    <3>1. CASE d = p /\ j = i
      BY <1>2, <2>2, <3>1
    <3>2. CASE ~(d = p /\ j = i)
      BY <1>2, <2>4, <3>2 DEF OwnedOnce
    <3> QED
      BY <3>1, <3>2
  <2>5. \A a, b \in Inner : map[a] \in Inner /\ map[a] = map[b] => a = b
    BY DEF OwnedOnce
  <2> QED
    BY <2>3, <2>4, <2>5 DEF OwnedOnce
<1>5. Kinds(map, new, {})
  <2>1. ASSUME NEW d \in Dirs, NEW j \in Slots, Listed(new, {}, d, j)
        PROVE  new[d].table[j].attribute = ATTR_SUBDIRECTORY
                   <=> IsFolder(new[new[d].table[j].cluster].table)
    <3>1. CASE d = p /\ j = i
      BY <1>1, <1>2, <3>1, Places
    <3>2. CASE ~(d = p /\ j = i)
      <4>1. Listed(vol, {}, d, j) /\ new[d].table[j] = vol[d].table[j]
        BY <1>2, <2>1, <3>2
      <4>2. vol[d].table[j].cluster \in Clusters
        BY <4>1, Places DEF Placed
      <4> QED
        BY <1>1, <4>1, <4>2 DEF Kinds
    <3> QED
      BY <3>1, <3>2
  <2>2. \A b \in Inner : map[b] \in Inner =>
           ~IsFolder(new[b].table) /\ ~IsFolder(new[map[b]].table)
    BY <1>1, Places DEF Kinds
  <2>3. \A x \in Inner : IsFolder(new[x].table) => map[x] # FAT32_FAT_EMPTY_ENTRY
    BY <1>1, Places DEF Kinds
  <2> QED
    BY <2>1, <2>2, <2>3 DEF Kinds
<1>6. NamesUsed(new)
  BY <1>2 DEF NamesUsed
<1>7. \A x \in Inner : HasOwner(map, new, {}, x) <=> HasOwner(map, vol, {}, x) \/ x = c
  BY <1>2 DEF HasOwner
<1>8. ASSUME NEW x \in Inner, LinkedUp(vol, {}, x)
      PROVE  LinkedUp(new, {}, x)
  <2> DEFINE d == vol[x].table[1].cluster
  <2>1. new[x].table[0] = vol[x].table[0] /\ new[x].table[1] = vol[x].table[1]
    BY SMTT(30), <1>1, Places
  <2>2. PICK j \in Slots :
           /\ Listed(vol, {}, d, j) /\ vol[d].table[j].cluster = x
           /\ vol[d].table[j].attribute = ATTR_SUBDIRECTORY
           /\ vol[d].table[j].name = vol[x].table[0].name
    BY ZenonT(40), <1>8 DEF LinkedUp
  <2>3. d \in Dirs /\ ~(d = p /\ j = i)
    BY SMTT(30), <1>2, <1>8, <2>2 DEF LinkedUp
  <2>4. Listed(new, {}, d, j) /\ new[d].table[j] = vol[d].table[j]
    BY <1>2, <2>2, <2>3
  <2> HIDE DEF d
  <2>5. new[x].table[1].cluster = d
    BY <2>1 DEF d
  <2> QED
    BY <1>8, <2>1, <2>2, <2>3, <2>4, <2>5 DEF LinkedUp
<1> QED
  BY <1>3, <1>4, <1>5, <1>6, <1>7, <1>8 DEF new

\* A file enters its folder before its clusters are marked.
LEMMA FileEntered ==
    ASSUME NEW map \in Maps, NEW vol \in Volumes, NEW p \in Dirs, NEW i \in Slots,
           NEW e \in Entries, NEW c \in Inner,
           Volume(map, vol, {}, {}, {}), map[c] = FAT32_FAT_EMPTY_ENTRY,
           IsFolder(vol[p].table), ~vol[p].table[i].used, e.used, e.cluster = c,
           e.attribute # ATTR_SUBDIRECTORY
    PROVE  Volume(map, Rewrite(vol, p, i, e), {}, {c}, {})
<1> DEFINE new == Rewrite(vol, p, i, e)
<1>1. ~HasOwner(map, vol, {}, c) /\ ~IsFolder(vol[c].table)
  BY DEF Volume, Allocated, Kinds
<1>2. /\ Placed(map, new, {}) /\ OwnedOnce(map, new, {}) /\ Kinds(map, new, {})
      /\ NamesUsed(new)
      /\ \A x \in Inner : HasOwner(map, new, {}, x) <=> HasOwner(map, vol, {}, x) \/ x = c
      /\ \A x \in Inner : LinkedUp(vol, {}, x) => LinkedUp(new, {}, x)
  BY <1>1, EntryAdded DEF Volume
<1>3. \A x \in Inner : IsFolder(new[x].table) <=> IsFolder(vol[x].table)
  BY Rewritten, Places
<1> HIDE DEF new
<1>4. Allocated(map, new, {}, {c}, {})
  BY <1>1, <1>2 DEF Volume, Allocated
<1>5. Linked(new, {}, {})
  BY <1>2, <1>3 DEF Volume, Linked
<1> QED
  BY <1>2, <1>4, <1>5 DEF Volume, new

\* A folder enters its parent once its own table is on the disk.
LEMMA FolderEntered ==
    ASSUME NEW map \in Maps, NEW vol \in Volumes, NEW p \in Dirs, NEW i \in Slots,
           NEW e \in Entries, NEW c \in Inner,
           Volume(map, vol, {}, {}, {c}), map[c] # FAT32_FAT_EMPTY_ENTRY,
           IsFolder(vol[p].table), ~vol[p].table[i].used, e.used, e.cluster = c,
           e.attribute = ATTR_SUBDIRECTORY, IsFolder(vol[c].table),
           vol[c].table[0].cluster = c, vol[c].table[0].name = e.name,
           vol[c].table[1].cluster = p
    PROVE  Volume(map, Rewrite(vol, p, i, e), {}, {}, {})
<1> DEFINE new == Rewrite(vol, p, i, e)
<1>1. ~HasOwner(map, vol, {}, c)
  BY DEF Volume, Allocated
<1>2. /\ Placed(map, new, {}) /\ OwnedOnce(map, new, {}) /\ Kinds(map, new, {})
      /\ NamesUsed(new)
      /\ \A x \in Inner : HasOwner(map, new, {}, x) <=> HasOwner(map, vol, {}, x) \/ x = c
      /\ \A x \in Inner : LinkedUp(vol, {}, x) => LinkedUp(new, {}, x)
  BY <1>1, EntryAdded DEF Volume
<1>3. /\ \A x \in Inner : IsFolder(new[x].table) <=> IsFolder(vol[x].table)
      /\ new[c].table[0] = vol[c].table[0] /\ new[c].table[1] = vol[c].table[1]
      /\ IsFolder(new[p].table) /\ new[p].table[i] = e
  BY Rewritten, Places
<1> HIDE DEF new
<1>4. Allocated(map, new, {}, {}, {})
  BY SMTT(30), <1>1, <1>2 DEF Volume, Allocated
<1>5. LinkedUp(new, {}, c)
  BY ZenonT(40), <1>3 DEF LinkedUp, Listed
<1>6. Linked(new, {}, {})
  BY <1>2, <1>3, <1>5 DEF Volume, Linked
<1> QED
  BY <1>2, <1>4, <1>6 DEF Volume, new

\* A folder loses an entry that was doomed.
LEMMA EntryRemoved ==
    ASSUME NEW map \in Maps, NEW vol \in Volumes, NEW p \in Dirs, NEW i \in Slots,
           Volume(map, vol, {<<p, i>>}, {}, {})
    PROVE  Volume(map, Rewrite(vol, p, i, EmptyEntry), {}, {}, {})
<1> DEFINE new == Rewrite(vol, p, i, EmptyEntry)
           X   == {<<p, i>>}
<1>1. /\ \A x \in Clusters : /\ IsFolder(new[x].table) <=> IsFolder(vol[x].table)
                             /\ new[x].table[0] = vol[x].table[0]
                             /\ new[x].table[1] = vol[x].table[1]
      /\ \A d \in Dirs, j \in Slots :
            new[d].table[j] = IF d = p /\ j = i THEN EmptyEntry ELSE vol[d].table[j]
  BY Rewritten, EmptyMade
<1>2. EmptyEntry.name = NoText /\ ~EmptyEntry.used
  BY DEF EmptyEntry
<1>3. \A d, j : <<d, j>> \in X <=> d = p /\ j = i
  OBVIOUS
<1> HIDE DEF new, X
<1>4. \A d \in Dirs, j \in Slots :
         /\ Listed(new, {}, d, j) <=> Listed(vol, X, d, j)
         /\ Listed(vol, X, d, j) => new[d].table[j] = vol[d].table[j]
  BY ZenonT(40), <1>1, <1>2, <1>3, Places DEF Listed
<1>5. Placed(map, new, {}) /\ OwnedOnce(map, new, {})
  <2>1. Placed(map, vol, X) /\ OwnedOnce(map, vol, X)
    BY DEF Volume, X
  <2>2. Placed(map, new, {})
    BY <1>4, <2>1 DEF Placed
  <2>3. OwnedOnce(map, new, {})
    <3>1. ASSUME NEW d \in Dirs, NEW e \in Dirs, NEW k \in Slots, NEW j \in Slots,
                 Listed(new, {}, d, k), Listed(new, {}, e, j),
                 new[d].table[k].cluster = new[e].table[j].cluster
          PROVE  d = e /\ k = j
      <4>1. Listed(vol, X, d, k) /\ new[d].table[k] = vol[d].table[k]
        BY <1>4, <3>1
      <4>2. Listed(vol, X, e, j) /\ new[e].table[j] = vol[e].table[j]
        BY <1>4, <3>1
      <4> QED
        BY <2>1, <3>1, <4>1, <4>2 DEF OwnedOnce
    <3>2. ASSUME NEW d \in Dirs, NEW k \in Slots, NEW b \in Inner, Listed(new, {}, d, k)
          PROVE  map[b] # new[d].table[k].cluster
      <4>1. Listed(vol, X, d, k) /\ new[d].table[k] = vol[d].table[k]
        BY <1>4, <3>2
      <4> QED
        BY <2>1, <4>1 DEF OwnedOnce
    <3> QED
      BY <2>1, <3>1, <3>2 DEF OwnedOnce
  <2> QED
    BY <2>2, <2>3
<1>6. Allocated(map, new, {}, {}, {})
  <2>1. Allocated(map, vol, X, {}, {})
    BY DEF Volume, X
  <2>2. \A x \in Inner : HasOwner(map, new, {}, x) <=> HasOwner(map, vol, X, x)
    BY <1>4 DEF HasOwner
  <2> QED
    BY <2>1, <2>2 DEF Allocated
<1>7. Kinds(map, new, {})
  <2>1. Kinds(map, vol, X) /\ Placed(map, vol, X)
    BY DEF Volume, X
  <2>2. ASSUME NEW d \in Dirs, NEW j \in Slots, Listed(new, {}, d, j)
        PROVE  new[d].table[j].attribute = ATTR_SUBDIRECTORY
                   <=> IsFolder(new[new[d].table[j].cluster].table)
    <3>1. Listed(vol, X, d, j) /\ new[d].table[j] = vol[d].table[j]
      BY <1>4, <2>2
    <3>2. vol[d].table[j].cluster \in Clusters
      BY <2>1, <3>1, Places DEF Placed
    <3> QED
      BY <1>1, <2>1, <3>1, <3>2 DEF Kinds
  <2>3. \A b \in Inner : map[b] \in Inner =>
           ~IsFolder(new[b].table) /\ ~IsFolder(new[map[b]].table)
    BY <1>1, <2>1, Places DEF Kinds
  <2>4. \A x \in Inner : IsFolder(new[x].table) => map[x] # FAT32_FAT_EMPTY_ENTRY
    BY <1>1, <2>1, Places DEF Kinds
  <2> QED
    BY <2>2, <2>3, <2>4 DEF Kinds
<1>8. Linked(new, {}, {})
  <2>1. Linked(vol, X, {})
    BY DEF Volume, X
  <2>2. ASSUME NEW x \in Inner, IsFolder(new[x].table)
        PROVE  LinkedUp(new, {}, x)
    <3> DEFINE d == vol[x].table[1].cluster
    <3>1. LinkedUp(vol, X, x) /\ new[x].table[0] = vol[x].table[0]
          /\ new[x].table[1] = vol[x].table[1]
      BY SMTT(30), <1>1, <2>1, <2>2, Places DEF Linked
    <3>2. PICK j \in Slots :
             /\ Listed(vol, X, d, j) /\ vol[d].table[j].cluster = x
             /\ vol[d].table[j].attribute = ATTR_SUBDIRECTORY
             /\ vol[d].table[j].name = vol[x].table[0].name
      BY <3>1 DEF LinkedUp
    <3>3. d \in Dirs
      BY SMTT(30), <3>1 DEF LinkedUp
    <3>4. Listed(new, {}, d, j) /\ new[d].table[j] = vol[d].table[j]
      BY <1>4, <3>2, <3>3
    <3> HIDE DEF d
    <3>5. new[x].table[1].cluster = d
      BY <3>1 DEF d
    <3> QED
      BY <3>1, <3>2, <3>3, <3>4, <3>5 DEF LinkedUp
  <2> QED
    BY <2>2 DEF Linked
<1>9. NamesUsed(new)
  BY <1>1, <1>2 DEF NamesUsed, Volume
<1> QED
  BY <1>5, <1>6, <1>7, <1>8, <1>9 DEF Volume, new

-----------------------------------------------------------------------------
(* One cluster is rewritten.                                                *)

Put(f, c, v)  == [f EXCEPT ![c] = v]
Unused(table) == \A i \in Slots : ~table[i].used /\ table[i].name = NoText

\* A cluster that lists nothing, before and after, has no part in who owns what.
LEMMA ClusterReplaced ==
    ASSUME NEW map \in Maps, NEW vol \in Volumes, NEW c \in Inner, NEW doomed,
           NEW v \in [table : Tables, chunk : Chunks], Unused(v.table),
           \A i \in Slots : ~Listed(vol, doomed, c, i),
           Placed(map, vol, doomed), OwnedOnce(map, vol, doomed), NamesUsed(vol)
    PROVE  /\ Placed(map, Put(vol, c, v), doomed)
           /\ OwnedOnce(map, Put(vol, c, v), doomed)
           /\ NamesUsed(Put(vol, c, v))
           /\ \A d \in Dirs, j \in Slots :
                 /\ Listed(Put(vol, c, v), doomed, d, j) <=> Listed(vol, doomed, d, j)
                 /\ Listed(vol, doomed, d, j) =>
                       Put(vol, c, v)[d].table[j] = vol[d].table[j]
           /\ \A x \in Inner : HasOwner(map, Put(vol, c, v), doomed, x)
                                   <=> HasOwner(map, vol, doomed, x)
           /\ \A x \in Inner \ {c} : LinkedUp(vol, doomed, x)
                                         => LinkedUp(Put(vol, c, v), doomed, x)
<1> DEFINE new == Put(vol, c, v)
<1>1. new[c] = v /\ \A x \in Clusters \ {c} : new[x] = vol[x]
  BY Places DEF Volumes, Put
<1> HIDE DEF new
<1>2. \A d \in Dirs, j \in Slots :
         /\ Listed(new, doomed, d, j) <=> Listed(vol, doomed, d, j)
         /\ Listed(vol, doomed, d, j) => d # c /\ new[d].table[j] = vol[d].table[j]
  BY <1>1, Places DEF Listed, Unused
<1>3. Placed(map, new, doomed)
  BY <1>2 DEF Placed
<1>4. OwnedOnce(map, new, doomed)
  <2>1. ASSUME NEW d \in Dirs, NEW e \in Dirs, NEW i \in Slots, NEW j \in Slots,
               Listed(new, doomed, d, i), Listed(new, doomed, e, j),
               new[d].table[i].cluster = new[e].table[j].cluster
        PROVE  d = e /\ i = j
    <3>1. /\ Listed(vol, doomed, d, i) /\ Listed(vol, doomed, e, j)
          /\ vol[d].table[i].cluster = vol[e].table[j].cluster
      BY <1>2, <2>1
    <3> QED
      BY <3>1 DEF OwnedOnce
  <2>2. \A d \in Dirs, i \in Slots, b \in Inner :
           Listed(new, doomed, d, i) => map[b] # new[d].table[i].cluster
    BY <1>2 DEF OwnedOnce
  <2>3. \A a, b \in Inner : map[a] \in Inner /\ map[a] = map[b] => a = b
    BY DEF OwnedOnce
  <2> QED
    BY <2>1, <2>2, <2>3 DEF OwnedOnce
<1>5. NamesUsed(new)
  BY <1>1, Places DEF NamesUsed, Unused
<1>6. \A x \in Inner : HasOwner(map, new, doomed, x) <=> HasOwner(map, vol, doomed, x)
  BY <1>2 DEF HasOwner
<1>7. ASSUME NEW x \in Inner \ {c}, LinkedUp(vol, doomed, x)
      PROVE  LinkedUp(new, doomed, x)
  <2> DEFINE d == vol[x].table[1].cluster
  <2>1. new[x] = vol[x]
    BY SMTT(30), <1>1, Places
  <2>2. PICK j \in Slots :
           /\ Listed(vol, doomed, d, j) /\ vol[d].table[j].cluster = x
           /\ vol[d].table[j].attribute = ATTR_SUBDIRECTORY
           /\ vol[d].table[j].name = vol[x].table[0].name
    BY <1>7 DEF LinkedUp
  <2>3. d \in Dirs
    BY SMTT(30), <1>7 DEF LinkedUp
  <2>4. Listed(new, doomed, d, j) /\ new[d].table[j] = vol[d].table[j]
    BY <1>2, <2>2, <2>3
  <2> HIDE DEF d
  <2>5. new[x].table[1].cluster = d
    BY <2>1 DEF d
  <2> QED
    BY <1>7, <2>1, <2>2, <2>3, <2>4, <2>5 DEF LinkedUp
<1> QED
  BY <1>2, <1>3, <1>4, <1>5, <1>6, <1>7 DEF new

\* A cluster of data is rewritten, or cleared.
LEMMA DataWritten ==
    ASSUME NEW map \in Maps, NEW vol \in Volumes, NEW c \in Inner,
           NEW doomed, NEW owed, NEW loose,
           NEW v \in [table : Tables, chunk : Chunks], Unused(v.table),
           ~IsFolder(vol[c].table), ~IsFolder(v.table), Volume(map, vol, doomed, owed, loose)
    PROVE  Volume(map, Put(vol, c, v), doomed, owed, loose)
<1> DEFINE new == Put(vol, c, v)
<1>1. \A i \in Slots : ~Listed(vol, doomed, c, i)
  BY DEF Listed
<1>2. /\ Placed(map, new, doomed) /\ OwnedOnce(map, new, doomed) /\ NamesUsed(new)
      /\ \A d \in Dirs, j \in Slots :
            /\ Listed(new, doomed, d, j) <=> Listed(vol, doomed, d, j)
            /\ Listed(vol, doomed, d, j) => new[d].table[j] = vol[d].table[j]
      /\ \A x \in Inner : HasOwner(map, new, doomed, x) <=> HasOwner(map, vol, doomed, x)
      /\ \A x \in Inner \ {c} : LinkedUp(vol, doomed, x) => LinkedUp(new, doomed, x)
  BY <1>1, ClusterReplaced DEF Volume
<1>3. \A x \in Clusters : IsFolder(new[x].table) <=> IsFolder(vol[x].table)
  BY Places DEF Volumes, Put
<1> HIDE DEF new
<1>4. Allocated(map, new, doomed, owed, loose)
  BY <1>2 DEF Volume, Allocated
<1>5. Kinds(map, new, doomed)
  <2>1. ASSUME NEW d \in Dirs, NEW j \in Slots, Listed(new, doomed, d, j)
        PROVE  new[d].table[j].attribute = ATTR_SUBDIRECTORY
                   <=> IsFolder(new[new[d].table[j].cluster].table)
    <3>1. Listed(vol, doomed, d, j) /\ new[d].table[j] = vol[d].table[j]
      BY <1>2, <2>1
    <3>2. vol[d].table[j].cluster \in Clusters
      BY <3>1, Places DEF Placed, Volume
    <3> QED
      BY <1>3, <3>1, <3>2 DEF Kinds, Volume
  <2>2. \A b \in Inner : map[b] \in Inner =>
           ~IsFolder(new[b].table) /\ ~IsFolder(new[map[b]].table)
    BY <1>3, Places DEF Kinds, Volume
  <2>3. \A x \in Inner : IsFolder(new[x].table) => map[x] # FAT32_FAT_EMPTY_ENTRY
    BY <1>3, Places DEF Kinds, Volume
  <2> QED
    BY <2>1, <2>2, <2>3 DEF Kinds
<1>6. Linked(new, doomed, loose)
  BY <1>2, <1>3, Places DEF Linked, Volume
<1> QED
  BY <1>2, <1>4, <1>5, <1>6 DEF Volume, new

\* A cluster nobody owns yet becomes the table of a folder.
LEMMA FolderMade ==
    ASSUME NEW map \in Maps, NEW vol \in Volumes, NEW c \in Inner, NEW doomed,
           NEW v \in [table : Tables, chunk : Chunks], Unused(v.table),
           ~IsFolder(vol[c].table), map[c] = FAT32_FAT_END_OF_FILE,
           Volume(map, vol, doomed, {}, {c})
    PROVE  Volume(map, Put(vol, c, v), doomed, {}, {c})
<1> DEFINE new == Put(vol, c, v)
<1>1. \A i \in Slots : ~Listed(vol, doomed, c, i)
  BY DEF Listed
<1>2. /\ Placed(map, new, doomed) /\ OwnedOnce(map, new, doomed) /\ NamesUsed(new)
      /\ \A d \in Dirs, j \in Slots :
            /\ Listed(new, doomed, d, j) <=> Listed(vol, doomed, d, j)
            /\ Listed(vol, doomed, d, j) => new[d].table[j] = vol[d].table[j]
      /\ \A x \in Inner : HasOwner(map, new, doomed, x) <=> HasOwner(map, vol, doomed, x)
      /\ \A x \in Inner \ {c} : LinkedUp(vol, doomed, x) => LinkedUp(new, doomed, x)
  BY <1>1, ClusterReplaced DEF Volume
<1>3. \A x \in Clusters \ {c} : new[x] = vol[x]
  BY Places DEF Volumes, Put
<1> HIDE DEF new
<1>4. ~HasOwner(map, vol, doomed, c)
  BY DEF Volume, Allocated
<1>5. Allocated(map, new, doomed, {}, {c})
  BY <1>2 DEF Volume, Allocated
<1>6. Kinds(map, new, doomed)
  <2>1. ASSUME NEW d \in Dirs, NEW j \in Slots, Listed(new, doomed, d, j)
        PROVE  new[d].table[j].attribute = ATTR_SUBDIRECTORY
                   <=> IsFolder(new[new[d].table[j].cluster].table)
    <3>1. Listed(vol, doomed, d, j) /\ new[d].table[j] = vol[d].table[j]
      BY <1>2, <2>1
    <3>2. vol[d].table[j].cluster \in Clusters \ {c}
      BY <1>4, <3>1, Places DEF Placed, Volume, HasOwner
    <3> QED
      BY <1>3, <3>1, <3>2 DEF Kinds, Volume
  <2>2. ASSUME NEW b \in Inner, map[b] \in Inner
        PROVE  ~IsFolder(new[b].table) /\ ~IsFolder(new[map[b]].table)
    <3>1. b # c /\ map[b] # c
      BY <1>4, <2>2, Places DEF HasOwner
    <3> QED
      BY <1>3, <2>2, <3>1, Places DEF Kinds, Volume
  <2>3. \A x \in Inner : IsFolder(new[x].table) => map[x] # FAT32_FAT_EMPTY_ENTRY
    BY <1>3, Places DEF Kinds, Volume
  <2> QED
    BY <2>1, <2>2, <2>3 DEF Kinds
<1>7. Linked(new, doomed, {c})
  BY <1>2, <1>3, Places DEF Linked, Volume
<1> QED
  BY <1>2, <1>5, <1>6, <1>7 DEF Volume, new

\* The last cluster of what is removed, folder or file, is cleared and freed.
LEMMA LastFreed ==
    ASSUME NEW map \in Maps, NEW vol \in Volumes, NEW c \in Inner, NEW doomed,
           NEW v \in [table : Tables, chunk : Chunks], Unused(v.table), ~IsFolder(v.table),
           IsFolder(vol[c].table) => \A i \in Slots : ~vol[c].table[i].used,
           map[c] = FAT32_FAT_END_OF_FILE,
           Volume(map, vol, doomed, {}, {c})
    PROVE  Volume(Put(map, c, FAT32_FAT_EMPTY_ENTRY), Put(vol, c, v),
                  doomed, {}, {})
<1> DEFINE new == Put(vol, c, v)
           cut == Put(map, c, FAT32_FAT_EMPTY_ENTRY)
<1>1. \A i \in Slots : ~Listed(vol, doomed, c, i)
  BY DEF Listed
<1>2. /\ Placed(map, new, doomed) /\ OwnedOnce(map, new, doomed) /\ NamesUsed(new)
      /\ \A d \in Dirs, j \in Slots :
            /\ Listed(new, doomed, d, j) <=> Listed(vol, doomed, d, j)
            /\ Listed(vol, doomed, d, j) => new[d].table[j] = vol[d].table[j]
      /\ \A x \in Inner : HasOwner(map, new, doomed, x) <=> HasOwner(map, vol, doomed, x)
      /\ \A x \in Inner \ {c} : LinkedUp(vol, doomed, x) => LinkedUp(new, doomed, x)
  BY <1>1, ClusterReplaced DEF Volume
<1>3. new[c] = v /\ \A x \in Clusters \ {c} : new[x] = vol[x]
  BY Places DEF Volumes, Put
<1>4. cut[c] = FAT32_FAT_EMPTY_ENTRY /\ \A b \in Inner \ {c} : cut[b] = map[b]
  BY Places DEF Maps, Put
<1> HIDE DEF new, cut
<1>5. ~HasOwner(map, vol, doomed, c)
  BY DEF Volume, Allocated
<1>6. Placed(cut, new, doomed)
  BY <1>2, <1>4 DEF Placed
<1>7. OwnedOnce(cut, new, doomed)
  <2>1. \A b \in Inner : cut[b] \in Inner => cut[b] = map[b]
    BY <1>4, Places
  <2>2. \A a, b \in Inner : cut[a] \in Inner /\ cut[a] = cut[b] => a = b
    BY <1>2, <2>1 DEF OwnedOnce
  <2>3. \A d \in Dirs, i \in Slots, b \in Inner :
           Listed(new, doomed, d, i) => cut[b] # new[d].table[i].cluster
    BY <1>2, <1>4, Places DEF OwnedOnce, Placed
  <2> QED
    BY <1>2, <2>2, <2>3 DEF OwnedOnce
<1>8. Allocated(cut, new, doomed, {}, {})
  <2>1. \A x \in Inner : HasOwner(cut, new, doomed, x) <=> HasOwner(map, vol, doomed, x)
    <3>1. \A x \in Inner : (\E b \in Inner : cut[b] = x) <=> (\E b \in Inner : map[b] = x)
      BY <1>4, Places
    <3>2. \A x \in Inner : HasOwner(cut, new, doomed, x) <=> HasOwner(map, new, doomed, x)
      BY <3>1 DEF HasOwner
    <3> QED
      BY <1>2, <3>2
  <2> QED
    BY <1>4, <1>5, <2>1 DEF Volume, Allocated
<1>9. Kinds(cut, new, doomed)
  <2>1. ASSUME NEW d \in Dirs, NEW j \in Slots, Listed(new, doomed, d, j)
        PROVE  new[d].table[j].attribute = ATTR_SUBDIRECTORY
                   <=> IsFolder(new[new[d].table[j].cluster].table)
    <3>1. Listed(vol, doomed, d, j) /\ new[d].table[j] = vol[d].table[j]
      BY <1>2, <2>1
    <3>2. vol[d].table[j].cluster \in Clusters \ {c}
      BY <1>5, <3>1, Places DEF Placed, Volume, HasOwner
    <3> QED
      BY <1>3, <3>1, <3>2 DEF Kinds, Volume
  <2>2. ASSUME NEW b \in Inner, cut[b] \in Inner
        PROVE  ~IsFolder(new[b].table) /\ ~IsFolder(new[cut[b]].table)
    <3>1. b # c /\ cut[b] = map[b] /\ map[b] # c
      BY <1>4, <1>5, <2>2, Places DEF HasOwner
    <3>2. new[b] = vol[b] /\ new[map[b]] = vol[map[b]]
      BY <1>3, <2>2, <3>1, Places
    <3>3. ~IsFolder(vol[b].table) /\ ~IsFolder(vol[map[b]].table)
      BY <2>2, <3>1 DEF Kinds, Volume
    <3> QED
      BY <3>1, <3>2, <3>3
  <2>3. \A x \in Inner : IsFolder(new[x].table) => cut[x] # FAT32_FAT_EMPTY_ENTRY
    BY <1>3, <1>4, Places DEF Kinds, Volume
  <2> QED
    BY <2>1, <2>2, <2>3 DEF Kinds
<1>10. Linked(new, doomed, {})
  BY <1>2, <1>3, Places DEF Linked, Volume
<1> QED
  BY <1>2, <1>6, <1>7, <1>8, <1>9, <1>10 DEF Volume, new, cut

-----------------------------------------------------------------------------
(* One cell of the table is rewritten.                                      *)

\* A free cell is marked as the end of a chain: nobody's owner changes.
LEMMA CellMarked ==
    ASSUME NEW map \in Maps, NEW vol \in Volumes, NEW c \in Inner, NEW doomed,
           map[c] = FAT32_FAT_EMPTY_ENTRY,
           Placed(map, vol, doomed), OwnedOnce(map, vol, doomed), Kinds(map, vol, doomed)
    PROVE  /\ Placed(Put(map, c, FAT32_FAT_END_OF_FILE), vol, doomed)
           /\ OwnedOnce(Put(map, c, FAT32_FAT_END_OF_FILE), vol, doomed)
           /\ Kinds(Put(map, c, FAT32_FAT_END_OF_FILE), vol, doomed)
           /\ \A x \in Inner : HasOwner(Put(map, c, FAT32_FAT_END_OF_FILE), vol, doomed, x)
                                   <=> HasOwner(map, vol, doomed, x)
           /\ Put(map, c, FAT32_FAT_END_OF_FILE)[c] = FAT32_FAT_END_OF_FILE
           /\ \A b \in Inner \ {c} : Put(map, c, FAT32_FAT_END_OF_FILE)[b] = map[b]
<1> DEFINE new == Put(map, c, FAT32_FAT_END_OF_FILE)
<1>1. new[c] = FAT32_FAT_END_OF_FILE /\ \A b \in Inner \ {c} : new[b] = map[b]
  BY Places DEF Maps, Put
<1> HIDE DEF new
<1>2. Placed(new, vol, doomed)
  BY <1>1 DEF Placed
<1>3. OwnedOnce(new, vol, doomed)
  <2>1. \A a, b \in Inner : new[a] \in Inner /\ new[a] = new[b] => a = b
    BY <1>1, Places DEF OwnedOnce
  <2>2. \A d \in Dirs, i \in Slots, b \in Inner :
           Listed(vol, doomed, d, i) => new[b] # vol[d].table[i].cluster
    BY <1>1, Places DEF OwnedOnce, Placed
  <2> QED
    BY <2>1, <2>2 DEF OwnedOnce
<1>4. Kinds(new, vol, doomed)
  BY <1>1, Places DEF Kinds
<1>5. \A x \in Inner : HasOwner(new, vol, doomed, x) <=> HasOwner(map, vol, doomed, x)
  <2>1. \A x \in Inner : (\E b \in Inner : new[b] = x) <=> (\E b \in Inner : map[b] = x)
    BY <1>1, Places
  <2> QED
    BY <2>1 DEF HasOwner
<1> QED
  BY <1>1, <1>2, <1>3, <1>4, <1>5 DEF new

\* The last cluster of a new file is marked.
LEMMA ChainClosed ==
    ASSUME NEW map \in Maps, NEW vol \in Volumes, NEW c \in Inner,
           map[c] = FAT32_FAT_EMPTY_ENTRY, Volume(map, vol, {}, {c}, {})
    PROVE  Volume(Put(map, c, FAT32_FAT_END_OF_FILE), vol, {}, {}, {})
<1> DEFINE new == Put(map, c, FAT32_FAT_END_OF_FILE)
           X   == {}
<1> HIDE DEF X
<1>1. Volume(map, vol, X, {c}, {})
  BY DEF X
<1>2. /\ Placed(new, vol, X) /\ OwnedOnce(new, vol, X) /\ Kinds(new, vol, X)
      /\ \A x \in Inner : HasOwner(new, vol, X, x) <=> HasOwner(map, vol, X, x)
      /\ new[c] = FAT32_FAT_END_OF_FILE /\ \A b \in Inner \ {c} : new[b] = map[b]
  BY <1>1, CellMarked DEF Volume
<1> HIDE DEF new
<1>3. Allocated(new, vol, X, {}, {})
  BY <1>1, <1>2, Places DEF Volume, Allocated
<1>4. Volume(new, vol, X, {}, {})
  BY <1>1, <1>2, <1>3 DEF Volume
<1> QED
  BY <1>4 DEF X, new

\* The cluster of a new folder is marked before anyone refers to it.
LEMMA CellReserved ==
    ASSUME NEW map \in Maps, NEW vol \in Volumes, NEW c \in Inner,
           map[c] = FAT32_FAT_EMPTY_ENTRY, Volume(map, vol, {}, {}, {})
    PROVE  Volume(Put(map, c, FAT32_FAT_END_OF_FILE), vol, {}, {}, {c})
<1> DEFINE new == Put(map, c, FAT32_FAT_END_OF_FILE)
           X   == {}
<1> HIDE DEF X
<1>1. Volume(map, vol, X, {}, {})
  BY DEF X
<1>2. /\ Placed(new, vol, X) /\ OwnedOnce(new, vol, X) /\ Kinds(new, vol, X)
      /\ \A x \in Inner : HasOwner(new, vol, X, x) <=> HasOwner(map, vol, X, x)
      /\ new[c] = FAT32_FAT_END_OF_FILE /\ \A b \in Inner \ {c} : new[b] = map[b]
  BY <1>1, CellMarked DEF Volume
<1> HIDE DEF new
<1>3. Allocated(new, vol, X, {}, {c})
  BY <1>1, <1>2, Places DEF Volume, Allocated
<1>4. Linked(vol, X, {c}) /\ NamesUsed(vol)
  BY <1>1 DEF Volume, Linked
<1>5. Volume(new, vol, X, {}, {c})
  BY <1>2, <1>3, <1>4 DEF Volume
<1> QED
  BY <1>5 DEF X, new

\* The next free cluster is linked to the chain of a new file.
LEMMA ChainExtended ==
    ASSUME NEW map \in Maps, NEW vol \in Volumes, NEW c \in Inner, NEW next \in Inner \ {c},
           NEW doomed,
           map[c] = FAT32_FAT_EMPTY_ENTRY, map[next] = FAT32_FAT_EMPTY_ENTRY,
           ~IsFolder(vol[c].table), Volume(map, vol, doomed, {c}, {})
    PROVE  Volume(Put(map, c, next), vol, doomed, {next}, {})
<1> DEFINE new == Put(map, c, next)
<1>1. new[c] = next /\ \A b \in Inner \ {c} : new[b] = map[b]
  BY Places DEF Maps, Put
<1> HIDE DEF new
<1>2. ~HasOwner(map, vol, doomed, next)
  BY DEF Volume, Allocated
<1>3. \A b \in Inner : map[b] # next
  BY <1>2 DEF HasOwner
<1>4. \A d \in Dirs, i \in Slots : Listed(vol, doomed, d, i) => vol[d].table[i].cluster # next
  BY <1>2 DEF HasOwner
<1>5. Placed(new, vol, doomed)
  BY <1>1 DEF Placed, Volume
<1>6. OwnedOnce(new, vol, doomed)
  <2>1. \A a, b \in Inner : new[a] \in Inner /\ new[a] = new[b] => a = b
    BY <1>1, <1>3 DEF OwnedOnce, Volume
  <2>2. \A d \in Dirs, i \in Slots, b \in Inner :
           Listed(vol, doomed, d, i) => new[b] # vol[d].table[i].cluster
    BY <1>1, <1>4 DEF OwnedOnce, Volume
  <2> QED
    BY <2>1, <2>2 DEF OwnedOnce, Volume
<1>7. \A x \in Inner : HasOwner(new, vol, doomed, x) <=> HasOwner(map, vol, doomed, x) \/ x = next
  <2>1. \A x \in Inner : (\E b \in Inner : new[b] = x)
                             <=> (\E b \in Inner : map[b] = x) \/ x = next
    BY <1>1, Places
  <2> QED
    BY <2>1 DEF HasOwner
<1>8. Allocated(new, vol, doomed, {next}, {})
  BY <1>1, <1>7, Places DEF Allocated, Volume
<1>9. Kinds(new, vol, doomed)
  <2>1. ~IsFolder(vol[next].table)
    BY DEF Kinds, Volume
  <2> QED
    BY <1>1, <2>1, Places DEF Kinds, Volume
<1> QED
  BY <1>5, <1>6, <1>8, <1>9 DEF Volume, new

\* A cluster of a file that is being removed is freed; the next one is left loose.
LEMMA LinkFreed ==
    ASSUME NEW map \in Maps, NEW vol \in Volumes, NEW c \in Inner, NEW next \in Inner,
           NEW doomed, map[c] = next, ~IsFolder(vol[c].table),
           Volume(map, vol, doomed, {}, {c})
    PROVE  Volume(Put(map, c, FAT32_FAT_EMPTY_ENTRY), vol, doomed, {}, {next})
<1> DEFINE new == Put(map, c, FAT32_FAT_EMPTY_ENTRY)
<1>1. new[c] = FAT32_FAT_EMPTY_ENTRY /\ \A b \in Inner \ {c} : new[b] = map[b]
  BY Places DEF Maps, Put
<1> HIDE DEF new
<1>2. ~HasOwner(map, vol, doomed, c)
  BY DEF Volume, Allocated
<1>3. /\ \A b \in Inner \ {c} : map[b] # next
      /\ \A d \in Dirs, i \in Slots : Listed(vol, doomed, d, i) => vol[d].table[i].cluster # next
  BY DEF OwnedOnce, Volume
<1>4. next # c /\ map[next] # FAT32_FAT_EMPTY_ENTRY
  <2>1. next # c
    BY <1>2 DEF HasOwner
  <2>2. HasOwner(map, vol, doomed, next)
    BY DEF HasOwner
  <2> QED
    BY <2>1, <2>2 DEF Volume, Allocated
<1>5. Placed(new, vol, doomed)
  BY <1>1 DEF Placed, Volume
<1>6. OwnedOnce(new, vol, doomed)
  <2>1. \A a, b \in Inner : new[a] \in Inner /\ new[a] = new[b] => a = b
    BY <1>1, Places DEF OwnedOnce, Volume
  <2>2. \A d \in Dirs, i \in Slots, b \in Inner :
           Listed(vol, doomed, d, i) => new[b] # vol[d].table[i].cluster
    BY <1>1, Places DEF OwnedOnce, Placed, Volume
  <2> QED
    BY <2>1, <2>2 DEF OwnedOnce, Volume
<1>7. \A x \in Inner : HasOwner(new, vol, doomed, x) <=> HasOwner(map, vol, doomed, x) /\ x # next
  <2>1. \A x \in Inner : (\E b \in Inner : new[b] = x)
                             <=> (\E b \in Inner : map[b] = x) /\ x # next
    BY <1>1, <1>3, Places
  <2> QED
    BY <1>3, <2>1 DEF HasOwner
<1>8. Allocated(new, vol, doomed, {}, {next})
  BY <1>1, <1>2, <1>4, <1>7 DEF Allocated, Volume
<1>9. Kinds(new, vol, doomed)
  BY <1>1, Places DEF Kinds, Volume
<1>10. Linked(vol, doomed, {next})
  BY DEF Linked, Volume
<1> QED
  BY <1>5, <1>6, <1>8, <1>9, <1>10 DEF Volume, new

\* An entry is going to be removed: its cluster is left loose.
LEMMA EntryDoomed ==
    ASSUME NEW map \in Maps, NEW vol \in Volumes, NEW p \in Dirs, NEW i \in Slots,
           NEW c \in Inner, Listed(vol, {}, p, i), vol[p].table[i].cluster = c,
           Volume(map, vol, {}, {}, {})
    PROVE  Volume(map, vol, {<<p, i>>}, {}, {c})
<1> DEFINE X == {<<p, i>>}
           O == {}
<1>1. \A d, j : <<d, j>> \in X <=> d = p /\ j = i
  OBVIOUS
<1>2. Volume(map, vol, O, {}, {}) /\ Listed(vol, O, p, i) /\ \A d, j : <<d, j>> \notin O
  OBVIOUS
<1> HIDE DEF X, O
<1>3. \A d \in Dirs, j \in Slots :
         Listed(vol, X, d, j) <=> Listed(vol, O, d, j) /\ ~(d = p /\ j = i)
  BY <1>1, <1>2 DEF Listed
<1>4. Placed(map, vol, X)
  BY <1>2, <1>3 DEF Placed, Volume
<1>5. OwnedOnce(map, vol, X)
  BY <1>2, <1>3 DEF OwnedOnce, Volume
<1>6. Allocated(map, vol, X, {}, {c})
  <2>1. \A x \in Inner : HasOwner(map, vol, X, x) <=> HasOwner(map, vol, O, x) /\ x # c
    <3>1. \A b \in Inner : map[b] # c
      BY <1>2 DEF OwnedOnce, Volume
    <3>2. \A d \in Dirs, j \in Slots : Listed(vol, X, d, j) => vol[d].table[j].cluster # c
      BY <1>2, <1>3 DEF OwnedOnce, Volume
    <3> QED
      BY <1>3, <3>1, <3>2 DEF HasOwner
  <2> QED
    BY <1>2, <2>1 DEF Allocated, Volume
<1>7. Kinds(map, vol, X)
  BY <1>2, <1>3 DEF Kinds, Volume
<1>8. Linked(vol, X, {c})
  <2>1. ASSUME NEW x \in Inner \ {c}, IsFolder(vol[x].table)
        PROVE  LinkedUp(vol, X, x)
    <3>1. LinkedUp(vol, O, x)
      BY <1>2, <2>1 DEF Linked, Volume
    <3> QED
      BY <1>3, <3>1 DEF LinkedUp
  <2> QED
    BY SMTT(30), <2>1 DEF Linked
<1> QED
  BY <1>2, <1>4, <1>5, <1>6, <1>7, <1>8 DEF Volume, X

-----------------------------------------------------------------------------
(* Room for a file.                                                         *)

\* A set of free cells has a number of members.
LEMMA FreeFinite ==
    ASSUME NEW map, NEW c \in Inner
    PROVE  IsFiniteSet(FreeAbove(map, c)) /\ Cardinality(FreeAbove(map, c)) \in Nat
<1>1. IsFiniteSet((c + 1)..(CLUSTER_MAP_SIZE - 1))
  BY FS_Interval, FAT32Assumption DEF Inner
<1>2. IsFiniteSet(FreeAbove(map, c))
  BY <1>1, FS_Subset DEF FreeAbove
<1> QED
  BY <1>2, FS_CardinalityType

\* Linking the next free cluster leaves one free cluster less above it.
LEMMA RoomAfter ==
    ASSUME NEW map \in Maps, NEW c \in Inner, NEW next \in Inner, next > c,
           map[next] = FAT32_FAT_EMPTY_ENTRY,
           \A b \in (c + 1)..(next - 1) : map[b] # FAT32_FAT_EMPTY_ENTRY
    PROVE  Cardinality(FreeAbove(Put(map, c, next), next)) = Cardinality(FreeAbove(map, c)) - 1
<1> DEFINE new == Put(map, c, next)
<1>1. \A b \in Inner \ {c} : new[b] = map[b]
  BY Places DEF Maps, Put
<1> HIDE DEF new
<1>2. c \in Int /\ next \in Int /\ c > 2 /\ next < CLUSTER_MAP_SIZE /\ CLUSTER_MAP_SIZE \in Int
  BY FAT32Assumption DEF Inner
<1>3. FreeAbove(new, next) = FreeAbove(map, c) \ {next}
  BY <1>1, <1>2 DEF FreeAbove, Inner
<1>4. next \in FreeAbove(map, c)
  BY <1>2 DEF FreeAbove
<1> QED
  BY <1>3, <1>4, FreeFinite, FS_RemoveElement DEF new

\* As long as clusters are left above, the search does not run past the table.
LEMMA RoomFound ==
    ASSUME NEW map \in Maps, NEW c \in Inner, Cardinality(FreeAbove(map, c)) >= 1
    PROVE  \E b \in (c + 1)..(CLUSTER_MAP_SIZE - 1) : map[b] = FAT32_FAT_EMPTY_ENTRY
<1>1. FreeAbove(map, c) # {}
  BY FS_EmptySet
<1> QED
  BY <1>1 DEF FreeAbove

\* A careful request finds room for all its parts behind the first free cluster.
LEMMA RoomFirst ==
    ASSUME Stored, NEW n \in Nat, NEW c \in Inner, FirstEmptyCluster(c),
           enough_empty_cluster(n),
           \/ cluster_map[CLUSTER_MAP_SIZE] # FAT32_FAT_EMPTY_ENTRY
           \/ enough_empty_cluster(n + 1)
    PROVE  Cardinality(FreeAbove(SavedMap(cluster_map), c)) >= n - 1
<1> DEFINE E == {b \in 3..CLUSTER_MAP_SIZE : cluster_map[b] = FAT32_FAT_EMPTY_ENTRY}
           F == FreeAbove(SavedMap(cluster_map), c)
<1>1. c \in Int /\ c > 2 /\ c < CLUSTER_MAP_SIZE /\ CLUSTER_MAP_SIZE \in Int
  BY FAT32Assumption DEF Inner
<1>2. IsFiniteSet(F) /\ Cardinality(F) \in Nat
  BY FreeFinite
<1>3. F = {b \in (c + 1)..(CLUSTER_MAP_SIZE - 1) : cluster_map[b] = FAT32_FAT_EMPTY_ENTRY}
  BY <1>1 DEF FreeAbove, SavedMap
<1>4. \A b \in 3..(c - 1) : cluster_map[b] # FAT32_FAT_EMPTY_ENTRY
  BY <1>1 DEF FirstEmptyCluster
<1>5. cluster_map[c] = FAT32_FAT_EMPTY_ENTRY
  BY DEF FirstEmptyCluster
<1>6. c \notin F /\ CLUSTER_MAP_SIZE \notin F \union {c}
  BY <1>1, <1>3
<1>7. /\ IsFiniteSet(F \union {c}) /\ Cardinality(F \union {c}) = Cardinality(F) + 1
      /\ Cardinality((F \union {c}) \union {CLUSTER_MAP_SIZE}) = Cardinality(F) + 2
  <2> HIDE DEF F
  <2>1. IsFiniteSet(F \union {c}) /\ Cardinality(F \union {c}) = Cardinality(F) + 1
    BY <1>2, <1>6, FS_AddElement
  <2> DEFINE G == F \union {c}
  <2> HIDE DEF G
  <2>2. Cardinality(G \union {CLUSTER_MAP_SIZE}) = Cardinality(G) + 1
    BY <1>6, <2>1, FS_AddElement DEF G
  <2> QED
    BY <1>2, <2>1, <2>2 DEF G
<1>8. CASE cluster_map[CLUSTER_MAP_SIZE] # FAT32_FAT_EMPTY_ENTRY
  <2>1. E = F \union {c}
    BY <1>1, <1>3, <1>4, <1>5, <1>8
  <2>2. Cardinality(E) >= n
    BY DEF enough_empty_cluster
  <2> HIDE DEF E, F
  <2>3. Cardinality(F) >= n - 1
    BY <1>2, <1>7, <2>1, <2>2
  <2> QED
    BY <2>3 DEF F
<1>9. CASE cluster_map[CLUSTER_MAP_SIZE] = FAT32_FAT_EMPTY_ENTRY
  <2>1. E = (F \union {c}) \union {CLUSTER_MAP_SIZE}
    BY <1>1, <1>3, <1>4, <1>5, <1>9
  <2>2. Cardinality(E) >= n + 1
    BY <1>9 DEF enough_empty_cluster
  <2> HIDE DEF E, F
  <2>3. Cardinality(F) >= n - 1
    BY <1>2, <1>7, <2>1, <2>2
  <2> QED
    BY <2>3 DEF F
<1> QED
  BY <1>8, <1>9

-----------------------------------------------------------------------------
(* The driver's steps.                                                      *)

Quiet == Operations \union {"idle", "read_chain", "file_map", "delete_map"}

\* The table in memory, seen as the one that counts.
LEMMA TableSeen ==
    ASSUME DriverInv
    PROVE  /\ Table \in Maps /\ disk \in Volumes
           /\ pc # "off" => \A c \in 0..(CLUSTER_MAP_SIZE - 1) : Table[c] = cluster_map[c]
           /\ pc \notin Resting \union {"wild"} => request \in Requests /\ request.parent \in Dirs
<1>1. Table \in Maps /\ disk \in Volumes
  BY UpwardSaved DEF DriverInv, Stored, Table, Maps, Volumes
<1>2. pc # "off" => \A c \in 0..(CLUSTER_MAP_SIZE - 1) : Table[c] = cluster_map[c]
  BY DEF Table, SavedMap
<1>3. \A r \in Requests : r.parent \in Dirs
  BY DEF Requests, Dirs
<1> QED
  BY <1>1, <1>2, <1>3 DEF DriverInv, Serving

\* Writing a cell of the table in memory.
LEMMA TablePut ==
    ASSUME DriverInv, NEW c \in Inner, NEW v, pc # "off", pc' # "off",
           \/ cluster_map' = [cluster_map EXCEPT ![c] = v]
           \/ cluster_map' = WithName([cluster_map EXCEPT ![c] = v])
    PROVE  Table' = Put(Table, c, v)
<1>1. c # CLUSTER_MAP_SIZE /\ c \in 0..(CLUSTER_MAP_SIZE - 1)
      /\ CLUSTER_MAP_SIZE \notin 0..(CLUSTER_MAP_SIZE - 1)
      /\ 0..(CLUSTER_MAP_SIZE - 1) \subseteq Cells
  BY FAT32Assumption, Ranges DEF Inner
<1>2. cluster_map \in [Cells -> Links]
  BY DEF DriverInv, Stored
<1>3. \A b \in 0..(CLUSTER_MAP_SIZE - 1) : cluster_map'[b] = IF b = c THEN v ELSE cluster_map[b]
  BY <1>1, <1>2 DEF WithName
<1>4. Table' = SavedMap(cluster_map') /\ Table = SavedMap(cluster_map)
  BY DEF Table
<1> QED
  BY <1>1, <1>3, <1>4 DEF SavedMap, Put

\* A disk without folders, under a table without allocated clusters, is whole.
LEMMA BlankVolume ==
    ASSUME NEW map \in Maps, NEW vol \in Volumes,
           \A c \in Clusters : Unused(vol[c].table),
           \A c \in Inner : map[c] = FAT32_FAT_EMPTY_ENTRY /\ ~IsFolder(vol[c].table)
    PROVE  Volume(map, vol, {}, {}, {})
<1>1. \A d \in Dirs, i \in Slots : ~Listed(vol, {}, d, i)
  BY Places DEF Listed, Unused
<1>2. Placed(map, vol, {}) /\ OwnedOnce(map, vol, {})
  BY <1>1, Places DEF Placed, OwnedOnce
<1>3. Allocated(map, vol, {}, {}, {})
  BY <1>1, Places DEF Allocated, HasOwner
<1>4. Kinds(map, vol, {}) /\ Linked(vol, {}, {})
  BY <1>1, Places DEF Kinds, Linked
<1>5. NamesUsed(vol)
  BY Places DEF NamesUsed, Unused
<1> QED
  BY <1>2, <1>3, <1>4, <1>5 DEF Volume

\* Cleared clusters list nothing.
LEMMA EmptyUnused == Unused(EmptyTable) /\ ~IsFolder(EmptyTable)
<1>1. \A i \in Indices : EmptyTable[i] = EmptyEntry
  BY DEF EmptyTable
<1>2. ~EmptyEntry.used /\ EmptyEntry.name = NoText /\ EmptyEntry.attribute # ATTR_SUBDIRECTORY
  BY EmptyMade DEF EmptyEntry
<1> QED
  BY <1>1, <1>2, Places, Ranges DEF Unused, IsFolder

\* The table of a new folder lists nothing.
LEMMA DirectoryTableUnused ==
    ASSUME NEW name, NEW cluster, NEW parent_name, NEW parent
    PROVE  /\ Unused(DirectoryTable(name, cluster, parent_name, parent))
           /\ IsFolder(DirectoryTable(name, cluster, parent_name, parent))
           /\ DirectoryTable(name, cluster, parent_name, parent)[0].cluster = cluster
           /\ DirectoryTable(name, cluster, parent_name, parent)[0].name = name
           /\ DirectoryTable(name, cluster, parent_name, parent)[1].cluster = parent
<1> DEFINE e == init_directory_entry(name, NoText, ATTR_SUBDIRECTORY, cluster, 0)
           f == init_directory_entry(parent_name, NoText, ATTR_SUBDIRECTORY, parent, 0)
           t == [EmptyTable EXCEPT ![0] = e, ![1] = f]
<1>1. e.cluster = cluster /\ e.name = name /\ e.attribute = ATTR_SUBDIRECTORY
      /\ f.cluster = parent
  BY DEF init_directory_entry
<1> HIDE DEF e, f
<1>2. t[0] = e /\ t[1] = f /\ \A i \in Slots : t[i] = EmptyTable[i]
  BY EmptyMade, Ranges, Places DEF Tables
<1> HIDE DEF t
<1>3. Unused(t)
  BY <1>2, EmptyUnused DEF Unused
<1>4. DirectoryTable(name, cluster, parent_name, parent) = t
  BY DEF DirectoryTable, t, e, f
<1> QED
  BY <1>1, <1>2, <1>3, <1>4 DEF IsFolder

\* A step that leaves disk and table alone, between labels where nothing is open.
LEMMA QuietVolume ==
    ASSUME VolumeInv, UNCHANGED <<disk, cluster_map, boot_sector>>, pc \in Quiet, pc' \in Quiet
    PROVE  /\ Volume(Table, disk, Doomed, Owed, Loose)'
           /\ Formatted' /\ Tame'
           /\ Table' = Table
           /\ Volume(Table, disk, {}, {}, {})
<1>1. /\ pc \notin {"off", "wild", "format_map", "format_root"}
      /\ pc' \notin {"off", "wild", "format_map", "format_root"}
  BY DEF Quiet, Operations
<1>2. Table' = Table
  BY <1>1 DEF Table
<1>3. Doomed = {} /\ Owed = {} /\ Loose = {} /\ Doomed' = {} /\ Owed' = {} /\ Loose' = {}
  BY DEF Quiet, Operations, Doomed, Owed, Loose
<1>4. Volume(Table, disk, {}, {}, {}) /\ Volume(Table, disk, Doomed, Owed, Loose)'
  BY <1>2, <1>3 DEF VolumeInv
<1>5. Formatted'
  BY <1>1, <1>2 DEF VolumeInv, Formatted
<1> QED
  BY <1>1, <1>2, <1>4, <1>5 DEF Tame

\* The volume between requests is all there is to say then.
LEMMA IdleInv ==
    ASSUME pc' = "idle", boot_sector', Table'[ROOT_CLUSTER_NUMBER] # FAT32_FAT_EMPTY_ENTRY,
           Volume(Table', disk', {}, {}, {})
    PROVE  VolumeInv'
<1>1. Doomed' = {} /\ Owed' = {} /\ Loose' = {}
  BY DEF Doomed, Owed, Loose
<1>2. Pending'
  BY DEF Pending, Operations
<1> QED
  BY <1>1, <1>2 DEF VolumeInv, Formatted, Tame

\* On a whole volume no loop over a chain leaves the clusters of the disk.
LEMMA VolumeTame == VolumeInv => ~Astray
  BY Places DEF VolumeInv, Pending, Tame, Astray

\* So the steps that only a loop gone astray takes are not taken.
LEMMA NotAstray ==
    ASSUME VolumeInv
    PROVE  ~(ReadBootSector \/ DeleteBootSector \/ FollowForeignWord \/ RunWild \/ Wild)
  BY VolumeTame, Ranges DEF Astray, ReadBootSector, DeleteBootSector, FollowForeignWord, RunWild, Wild

\* Switching on and off, formatting, and calls.
LEMMA SwitchInv ==
    ASSUME DriverInv, VolumeInv, power_losses' = 0,
           Initialize \/ FormatMap \/ FormatRoot \/ SwitchOff \/ PowerLoss \/ Call
    PROVE  VolumeInv'
<1>1. Table \in Maps /\ disk \in Volumes
  BY TableSeen
<1> DEFINE first == SavedMap(FormattedMap)
<1>2. /\ first \in Maps /\ first[ROOT_CLUSTER_NUMBER] # FAT32_FAT_EMPTY_ENTRY
      /\ \A c \in Inner : first[c] = FAT32_FAT_EMPTY_ENTRY
  <2>1. /\ ROOT_CLUSTER_NUMBER \in Cells /\ ROOT_CLUSTER_NUMBER # CLUSTER_MAP_SIZE
        /\ ROOT_CLUSTER_NUMBER # 0 /\ ROOT_CLUSTER_NUMBER # 1
        /\ ROOT_CLUSTER_NUMBER \in 0..(CLUSTER_MAP_SIZE - 1)
    BY FAT32Assumption DEF Cells, ROOT_CLUSTER_NUMBER
  <2>2. \A c \in Inner : /\ c \in Cells /\ c # CLUSTER_MAP_SIZE /\ c # 0 /\ c # 1
                         /\ c # ROOT_CLUSTER_NUMBER
    BY FAT32Assumption DEF Cells, ROOT_CLUSTER_NUMBER, Inner
  <2>3. FormattedMap[ROOT_CLUSTER_NUMBER] = FAT32_FAT_END_OF_FILE
        /\ \A c \in Inner : FormattedMap[c] = FAT32_FAT_EMPTY_ENTRY
    BY <2>1, <2>2 DEF FormattedMap, WithName
  <2>4. SavedMap(FormattedMap) \in Maps
    BY MapsMade, UpwardSaved DEF Maps
  <2> QED
    BY <2>1, <2>3, <2>4, Places DEF SavedMap
<1> HIDE DEF first
<1>3. \A c \in Clusters : disk[c] = ZeroCluster =>
         Unused(disk[c].table) /\ ~IsFolder(disk[c].table)
  BY EmptyUnused, EmptyMade
<1>4. CASE Initialize
  <2>1. CASE boot_sector
    <3>1. /\ cluster_map' = [c \in Cells |-> IF c \in DOMAIN disk_map THEN disk_map[c] ELSE 0]
          /\ pc = "off" /\ pc' = "idle" /\ boot_sector' /\ UNCHANGED <<disk, disk_map>>
      BY <1>4, <2>1 DEF Initialize
    <3>2. Table' = Table /\ Table = disk_map
      BY <3>1, Ranges DEF Table, SavedMap, DriverInv, Stored
    <3>3. Volume(Table, disk, {}, {}, {}) /\ Table[ROOT_CLUSTER_NUMBER] # FAT32_FAT_EMPTY_ENTRY
      BY <2>1, <3>1 DEF VolumeInv, Doomed, Owed, Loose, Formatted
    <3> QED
      BY <3>1, <3>2, <3>3, IdleInv
  <2>2. CASE ~boot_sector
    <3>1. /\ cluster_map' = FormattedMap /\ pc' = "format_map" /\ boot_sector'
          /\ UNCHANGED <<disk, disk_map>> /\ pc = "off"
      BY <1>4, <2>2 DEF Initialize
    <3>2. \A c \in Clusters : disk[c] = ZeroCluster
      BY <2>2 DEF VolumeInv, Formatted
    <3>3. Table' = first
      BY <3>1 DEF Table, first
    <3>4. Volume(first, disk, {}, {}, {})
      BY <1>1, <1>2, <1>3, <3>2, Places, BlankVolume
    <3>5. Doomed' = {} /\ Owed' = {} /\ Loose' = {}
      BY <3>1 DEF Doomed, Owed, Loose
    <3>6. Pending'
      BY <3>1 DEF Pending, Operations
    <3>7. Formatted'
      BY <1>2, <3>1, <3>2, <3>3 DEF Formatted
    <3> QED
      BY <3>1, <3>3, <3>4, <3>5, <3>6, <3>7 DEF VolumeInv, Tame
  <2> QED
    BY <2>1, <2>2
<1>5. CASE FormatMap
  <2>1. /\ pc = "format_map" /\ pc' = "format_root"
        /\ UNCHANGED <<boot_sector, disk, cluster_map>>
    BY <1>5 DEF FormatMap, volatile
  <2>2. Table' = Table
    BY <2>1 DEF Table
  <2>3. Doomed' = Doomed /\ Owed' = Owed /\ Loose' = Loose
    BY <2>1 DEF Doomed, Owed, Loose
  <2>4. Pending'
    BY <2>1 DEF Pending, Operations
  <2>5. Formatted'
    BY <2>1, <2>2 DEF VolumeInv, Formatted
  <2> QED
    BY <2>1, <2>2, <2>3, <2>4, <2>5 DEF VolumeInv, Tame
<1>6. CASE FormatRoot
  <2> DEFINE t == DirectoryTable(RootName, ROOT_CLUSTER_NUMBER, root_literal,
                                 ROOT_CLUSTER_NUMBER)
  <2>1. /\ pc = "format_root" /\ pc' = "idle" /\ UNCHANGED <<boot_sector, cluster_map>>
        /\ disk' = [disk EXCEPT ![ROOT_CLUSTER_NUMBER] = TableCluster(t)]
    BY <1>6 DEF FormatRoot, volatile
  <2>2. t \in Tables /\ Unused(t)
    BY Ranges, DirectoryTableMade, DirectoryTableUnused DEF DriverInv, Stored
  <2> HIDE DEF t
  <2>3. TableCluster(t) \in [table : Tables, chunk : Chunks] /\ TableCluster(t).table = t
    BY <2>2, TableMade
  <2>4. /\ Table' = first /\ boot_sector
        /\ \A c \in Clusters : disk[c] = ZeroCluster
    BY <2>1 DEF Table, VolumeInv, Formatted, first
  <2>5. disk' \in Volumes /\ \A c \in Clusters : Unused(disk'[c].table)
    BY <1>1, <1>3, <2>1, <2>2, <2>3, <2>4 DEF Volumes
  <2>6. \A c \in Inner : c # ROOT_CLUSTER_NUMBER
    BY DEF Inner, ROOT_CLUSTER_NUMBER
  <2>7. \A c \in Inner : ~IsFolder(disk'[c].table)
    BY <1>1, <1>3, <2>1, <2>4, <2>6, Places DEF Volumes
  <2>8. Volume(first, disk', {}, {}, {})
    BY <1>2, <2>5, <2>7, BlankVolume
  <2> QED
    BY <1>2, <2>1, <2>4, <2>8, IdleInv
<1>7. CASE SwitchOff
  <2>1. pc = "idle" /\ pc' = "off" /\ UNCHANGED <<boot_sector, disk_map, disk>>
    BY <1>7, VolumeTame DEF SwitchOff, PowerOff, media
  <2>2. Table' = Table
    BY <2>1 DEF Table, DriverInv, Mirrored
  <2>3. Doomed' = Doomed /\ Owed' = Owed /\ Loose' = Loose
    BY <2>1 DEF Doomed, Owed, Loose
  <2>4. Pending'
    BY <2>1 DEF Pending, Operations
  <2>5. Formatted'
    BY <2>1, <2>2 DEF VolumeInv, Formatted
  <2> QED
    BY <2>1, <2>2, <2>3, <2>4, <2>5 DEF VolumeInv, Tame
<1>8. CASE PowerLoss
  BY <1>8 DEF PowerLoss, DriverInv, Serving
<1>9. CASE Call
  <2>1. PICK r \in Requests : Careful(r) /\ request' = r /\ pc' = r.op
    BY <1>9 DEF Call
  <2>2. pc = "idle" /\ pc' \in Operations /\ UNCHANGED <<boot_sector, disk, cluster_map>>
    BY <1>9, <2>1, RequestFields DEF Call, media, volatile
  <2>3. /\ Volume(Table, disk, Doomed, Owed, Loose)' /\ Formatted' /\ Tame'
    BY <2>2, QuietVolume DEF Quiet
  <2>4. Careful(request)'
    BY <2>1, <2>2 DEF Careful, enough_empty_cluster
  <2>5. Pending'
    BY <2>2, <2>4 DEF Pending, Operations
  <2> QED
    BY <2>3, <2>5 DEF VolumeInv
<1> QED
  BY <1>4, <1>5, <1>6, <1>7, <1>8, <1>9

\* What a careful read or Delete finds is an entry in use, of an allocated cluster.
LEMMA FoundListed ==
    ASSUME Hazards = {}, DriverInv, VolumeInv, pc \in Operations, IsFolder(Parent),
           NEW i \in Indices, Found(i)
    PROVE  /\ i \in Slots /\ Listed(disk, {}, request.parent, i)
           /\ Parent[i].cluster \in Inner
           /\ Table[Parent[i].cluster] # FAT32_FAT_EMPTY_ENTRY
           /\ Volume(Table, disk, {}, {}, {})
<1>1. request \in Requests /\ request.parent \in Dirs
  BY TableSeen DEF Operations, Resting
<1>2. SameName(Parent[i], request)
  BY DEF Found, FirstIndex
<1>3. i # 0 /\ i # 1
  BY <1>2 DEF VolumeInv, Pending, Careful, Parent
<1>4. i \in Slots
  BY <1>3, FAT32Assumption DEF Indices, Slots
<1>5. Volume(Table, disk, {}, {}, {})
  BY DEF VolumeInv, Doomed, Owed, Loose, Operations
<1>6. Parent[i].name # NoText
  BY <1>1, <1>2, RequestFields, FAT32Assumption DEF SameName
<1>7. Listed(disk, {}, request.parent, i)
  BY <1>1, <1>4, <1>5, <1>6 DEF Listed, Volume, NamesUsed, Parent
<1>8. Parent[i].cluster \in Inner
  BY <1>1, <1>4, <1>5, <1>7 DEF Volume, Placed, Parent
<1>9. HasOwner(Table, disk, {}, Parent[i].cluster)
  BY <1>1, <1>4, <1>7 DEF HasOwner, Parent
<1> QED
  BY <1>4, <1>5, <1>7, <1>8, <1>9 DEF Volume, Allocated

\* A request that returns without a change.
LEMMA RefusedInv ==
    ASSUME VolumeInv, pc \in Quiet, UNCHANGED <<disk, cluster_map, boot_sector>>,
           pc' = "idle"
    PROVE  VolumeInv'
<1>1. /\ Volume(Table, disk, Doomed, Owed, Loose)' /\ Formatted' /\ Tame'
  BY QuietVolume DEF Quiet
<1>2. Pending'
  BY DEF Pending, Operations
<1> QED
  BY <1>1, <1>2 DEF VolumeInv

\* Reading: the chain of an allocated cluster never leaves the table.
LEMMA ReadInv ==
    ASSUME Hazards = {}, DriverInv, VolumeInv,
           read_directory \/ read \/ ReadChain \/ WriteRefused \/ WriteFileMap \/ DeleteMap
    PROVE  VolumeInv'
<1>1. CASE read_directory \/ WriteRefused \/ WriteFileMap \/ DeleteMap
  <2>1. pc \in Quiet /\ pc' = "idle" /\ UNCHANGED <<disk, cluster_map, boot_sector>>
    BY <1>1 DEF read_directory, WriteRefused, WriteFileMap, DeleteMap, Return, media, volatile,
                Quiet, Operations
  <2> QED
    BY <2>1, RefusedInv
<1>2. CASE read
  <2>1. pc = "read" /\ pc \in Quiet /\ UNCHANGED <<disk, cluster_map, boot_sector>>
    BY <1>2 DEF read, media, volatile, Quiet, Operations
  <2>2. CASE pc' = "idle"
    BY <2>1, <2>2, RefusedInv
  <2>3. CASE pc' # "idle"
    <3>1. PICK i \in Indices : /\ IsFolder(Parent) /\ Found(i) /\ Goto("read_chain")
                               /\ local' = [local EXCEPT !.cluster = Parent[i].cluster]
      BY <1>2, <2>3 DEF read, Return
    <3>2. local'.cluster = Parent[i].cluster /\ pc' = "read_chain"
      BY <3>1 DEF Goto, DriverInv, Serving, Locals
    <3>3. Parent[i].cluster \in Inner /\ Table[Parent[i].cluster] # FAT32_FAT_EMPTY_ENTRY
      BY <2>1, <3>1, FoundListed DEF Operations
    <3>4. /\ Volume(Table, disk, Doomed, Owed, Loose)' /\ Formatted' /\ Tame'
          /\ Table' = Table
      BY <2>1, <3>2, QuietVolume DEF Quiet
    <3>5. Pending'
      BY <3>2, <3>3, <3>4 DEF Pending, Operations
    <3> QED
      BY <3>4, <3>5 DEF VolumeInv
  <2> QED
    BY <2>2, <2>3
<1>3. CASE ReadChain
  <2>1. pc = "read_chain" /\ pc \in Quiet /\ UNCHANGED <<disk, cluster_map, boot_sector>>
    BY <1>3 DEF ReadChain, media, volatile, Quiet
  <2>2. CASE pc' = "idle"
    BY <2>1, <2>2, RefusedInv
  <2>3. CASE pc' # "idle"
    <3>1. /\ local.cluster \in Inner /\ Table[local.cluster] # FAT32_FAT_EMPTY_ENTRY
          /\ local.cluster # FAT32_FAT_END_OF_FILE
      <4>1. local.cluster # FAT32_FAT_END_OF_FILE
        BY <1>3, <2>3, Ranges DEF ReadChain, Return
      <4> QED
        BY <2>1, <4>1 DEF VolumeInv, Pending
    <3>2. local.cluster \in Clusters /\ local.cluster \in 0..(CLUSTER_MAP_SIZE - 1)
      BY <3>1, Places
    <3>3. /\ Goto("read_chain")
          /\ local' = [local EXCEPT !.out = Append(@, disk[local.cluster].chunk),
                                   !.cluster = cluster_map[local.cluster]]
      BY <1>3, <3>1, <3>2 DEF ReadChain
    <3>4. local'.cluster = Table[local.cluster] /\ pc' = "read_chain"
      BY <2>1, <3>2, <3>3, TableSeen DEF Goto, DriverInv, Serving, Locals
    <3>5. /\ Volume(Table, disk, Doomed, Owed, Loose)' /\ Formatted' /\ Tame'
          /\ Table' = Table /\ Volume(Table, disk, {}, {}, {})
      BY <2>1, <3>4, QuietVolume DEF Quiet
    <3>6. local'.cluster \in Inner => Table[local'.cluster] # FAT32_FAT_EMPTY_ENTRY
      <4>1. local'.cluster \in Inner => HasOwner(Table, disk, {}, local'.cluster)
        BY <3>1, <3>4 DEF HasOwner
      <4> QED
        BY <3>5, <4>1 DEF Volume, Allocated
    <3>7. local'.cluster = FAT32_FAT_END_OF_FILE \/ local'.cluster \in Inner
      BY <3>1, <3>4, <3>5 DEF Volume, Placed
    <3>8. Pending'
      BY <3>4, <3>5, <3>6, <3>7 DEF Pending, Operations
    <3> QED
      BY <3>5, <3>8 DEF VolumeInv
  <2> QED
    BY <2>2, <2>3
<1> QED
  BY <1>1, <1>2, <1>3

\* A write that goes on has a free entry and a free cluster inside the table.
LEMMA WriteFinds ==
    ASSUME DriverInv, VolumeInv, pc = "write", NEW i \in Indices, CanWrite(i),
           NEW c, FirstEmptyCluster(c)
    PROVE  /\ c \in Inner /\ Table[c] = FAT32_FAT_EMPTY_ENTRY /\ ~IsFolder(disk[c].table)
           /\ i \in Slots /\ IsFolder(Parent) /\ ~Parent[i].used
           /\ request \in Requests /\ request.parent \in Dirs
           /\ Volume(Table, disk, {}, {}, {})
<1>1. Volume(Table, disk, {}, {}, {})
  BY DEF VolumeInv, Doomed, Owed, Loose, Operations
<1>2. request \in Requests /\ request.parent \in Dirs
  BY TableSeen DEF Operations, Resting
<1>3. IsFolder(Parent)
  BY DEF CanWrite
<1>4. i \in Slots /\ ~Parent[i].used
  BY FAT32Assumption DEF CanWrite, FirstIndex, Indices, Slots
<1>5. Marked(cluster_map)
  BY <1>3, WriteFindsMarks DEF DriverInv, Operations
<1>6. c \in Clusters /\ c < CLUSTER_MAP_SIZE
  BY <1>5, FreeIsCluster
<1>7. c \in 0..(CLUSTER_MAP_SIZE - 1) /\ Table[c] = FAT32_FAT_EMPTY_ENTRY
  BY TableSeen DEF FirstEmptyCluster
<1>8. c # ROOT_CLUSTER_NUMBER
  BY <1>7 DEF VolumeInv, Formatted
<1>9. c \in Inner
  BY <1>6, <1>7, <1>8, FAT32Assumption DEF Clusters, Inner, ROOT_CLUSTER_NUMBER
<1>10. ~IsFolder(disk[c].table)
  BY <1>1, <1>7, <1>9 DEF Volume, Kinds
<1> QED
  BY <1>1, <1>2, <1>3, <1>4, <1>7, <1>9, <1>10

\* Cells of clusters are not the root's.
LEMMA FormattedKept ==
    ASSUME DriverInv, VolumeInv, pc # "off", pc' \notin {"off", "format_map", "format_root"},
           UNCHANGED boot_sector,
           Table' = Table \/ \E c \in Inner : \E v : Table' = Put(Table, c, v)
    PROVE  Formatted' /\ Table'[ROOT_CLUSTER_NUMBER] # FAT32_FAT_EMPTY_ENTRY /\ boot_sector
<1>1. ROOT_CLUSTER_NUMBER \notin Inner /\ ROOT_CLUSTER_NUMBER \in 0..(CLUSTER_MAP_SIZE - 1)
  BY FAT32Assumption DEF Inner, ROOT_CLUSTER_NUMBER
<1>2. Table'[ROOT_CLUSTER_NUMBER] = Table[ROOT_CLUSTER_NUMBER]
  BY <1>1, TableSeen DEF Put, Maps
<1> QED
  BY <1>2 DEF VolumeInv, Formatted

\* Making a folder: its cluster is reserved, ...
LEMMA WriteFolderInv ==
    ASSUME DriverInv, VolumeInv, WriteFolder
    PROVE  VolumeInv'
<1>1. PICK i \in Indices, c \in Cells :
         /\ CanWrite(i) /\ FirstEmptyCluster(c)
         /\ local' = [local EXCEPT !.cluster = c, !.table =
               [Parent EXCEPT ![i] = init_directory_entry(request.name, request.ext,
                                                          ATTR_SUBDIRECTORY, c, 0)]]
         /\ cluster_map' = WithName([cluster_map EXCEPT ![c] = FAT32_FAT_END_OF_FILE])
  BY DEF WriteFolder
<1>2. pc = "write" /\ pc' = "folder_table" /\ UNCHANGED <<boot_sector, disk, request>>
  BY DEF WriteFolder, Goto
<1>3. /\ c \in Inner /\ Table[c] = FAT32_FAT_EMPTY_ENTRY /\ ~IsFolder(disk[c].table)
      /\ i \in Slots /\ IsFolder(Parent) /\ ~Parent[i].used
      /\ request \in Requests /\ request.parent \in Dirs /\ Volume(Table, disk, {}, {}, {})
  BY <1>1, <1>2, WriteFinds
<1>4. Table' = Put(Table, c, FAT32_FAT_END_OF_FILE) /\ Table \in Maps /\ disk \in Volumes
  BY <1>1, <1>2, <1>3, TablePut, TableSeen
<1>5. Volume(Put(Table, c, FAT32_FAT_END_OF_FILE), disk, {}, {}, {c})
  BY <1>3, <1>4, CellReserved
<1>6. local'.cluster = c /\ local'.table = [Parent EXCEPT ![i] = NewEntry']
  BY <1>1, <1>2 DEF NewEntry, DriverInv, Serving, Locals
<1>7. Doomed' = {} /\ Owed' = {} /\ Loose' = {c}
  BY <1>2, <1>6 DEF Doomed, Owed, Loose
<1>8. Parent' = Parent /\ disk' = disk
  BY <1>2 DEF Parent
<1>9. Table'[c] = FAT32_FAT_END_OF_FILE
  BY <1>3, <1>4, Places DEF Put, Maps
<1>10. Pending'
  BY <1>2, <1>3, <1>6, <1>8, <1>9 DEF Pending, Operations
<1>11. Formatted'
  BY <1>2, <1>3, <1>4, FormattedKept
<1> QED
  BY <1>2, <1>4, <1>5, <1>7, <1>10, <1>11 DEF VolumeInv, Tame

\* ... its table is written there, ...
LEMMA WriteFolderTableInv ==
    ASSUME DriverInv, VolumeInv, WriteFolderTable
    PROVE  VolumeInv'
<1> DEFINE t == DirectoryTable(request.name, local.cluster, ParentName, request.parent)
<1>1. /\ pc = "folder_table" /\ pc' = "folder_parent"
      /\ disk' = [disk EXCEPT ![local.cluster] = TableCluster(t)]
      /\ UNCHANGED <<boot_sector, cluster_map, request, local>>
  BY DEF WriteFolderTable, Goto, volatile
<1>2. /\ local.cluster \in Inner /\ ~IsFolder(disk[local.cluster].table)
      /\ Table[local.cluster] = FAT32_FAT_END_OF_FILE /\ IsFolder(Parent)
      /\ Volume(Table, disk, {}, {}, {local.cluster})
      /\ \E i \in Slots : ~Parent[i].used /\ local.table = [Parent EXCEPT ![i] = NewEntry]
  BY <1>1 DEF VolumeInv, Pending, Doomed, Owed, Loose
<1>3. Table \in Maps /\ disk \in Volumes /\ request \in Requests /\ request.parent \in Dirs
  BY <1>1, TableSeen DEF Resting
<1>4. t \in Tables
  <2>1. root_literal \in Names \union {RootName} /\ Parent[0].name \in Names \union {NoText, RootName}
    BY <1>3, Places, Ranges DEF DriverInv, Stored, Volumes, Parent, Tables, Entries
  <2>2. ParentName \in Names \union {NoText, RootName}
    BY <2>1 DEF ParentName
  <2> QED
    BY <1>2, <1>3, <2>2, Places, RequestFields, DirectoryTableMade
<1>5. /\ Unused(t) /\ IsFolder(t) /\ t[0].cluster = local.cluster /\ t[0].name = request.name
      /\ t[1].cluster = request.parent
  BY DirectoryTableUnused
<1> HIDE DEF t
<1>6. TableCluster(t) \in [table : Tables, chunk : Chunks] /\ TableCluster(t).table = t
  BY <1>4, TableMade
<1>7. disk' = Put(disk, local.cluster, TableCluster(t))
  BY <1>1 DEF Put
<1>8. Volume(Table, disk', {}, {}, {local.cluster})
  BY <1>2, <1>3, <1>5, <1>6, <1>7, FolderMade
<1>9. Table' = Table
  BY <1>1 DEF Table
<1>10. Doomed' = {} /\ Owed' = {} /\ Loose' = {local.cluster}
  BY <1>1 DEF Doomed, Owed, Loose
<1>11. disk'[local.cluster].table = t
  BY <1>1, <1>2, <1>3, <1>6, Places DEF Volumes
<1>12. Parent' = Parent
  <2>1. request.parent # local.cluster
    BY <1>2 DEF Parent
  <2> QED
    BY <1>1, <1>3, <2>1, Places DEF Volumes, Parent
<1>13. NewEntry' = NewEntry
  BY <1>1 DEF NewEntry
<1>14. Pending'
  BY <1>1, <1>2, <1>5, <1>9, <1>11, <1>12, <1>13 DEF Pending, Operations
<1>15. Formatted'
  BY <1>1, <1>9, FormattedKept
<1> QED
  BY <1>1, <1>8, <1>9, <1>10, <1>14, <1>15 DEF VolumeInv, Tame

\* ... and its parent refers to it.
LEMMA WriteFolderParentInv ==
    ASSUME DriverInv, VolumeInv, WriteFolderParent
    PROVE  VolumeInv'
<1>1. /\ pc = "folder_parent" /\ pc' = "idle"
      /\ disk' = [disk EXCEPT ![request.parent] = TableCluster(local.table)]
      /\ UNCHANGED <<boot_sector, cluster_map>>
  BY DEF WriteFolderParent, Return, volatile
<1>2. PICK i \in Slots : ~Parent[i].used /\ local.table = [Parent EXCEPT ![i] = NewEntry]
  BY <1>1 DEF VolumeInv, Pending
<1>3. /\ local.cluster \in Inner /\ Table[local.cluster] = FAT32_FAT_END_OF_FILE
      /\ IsFolder(Parent) /\ Volume(Table, disk, {}, {}, {local.cluster})
      /\ IsFolder(disk[local.cluster].table)
      /\ disk[local.cluster].table[0].cluster = local.cluster
      /\ disk[local.cluster].table[0].name = request.name
      /\ disk[local.cluster].table[1].cluster = request.parent
  BY <1>1 DEF VolumeInv, Pending, Doomed, Owed, Loose
<1>4. Table \in Maps /\ disk \in Volumes /\ request \in Requests /\ request.parent \in Dirs
  BY <1>1, TableSeen DEF Resting
<1>5. /\ NewEntry.used /\ NewEntry.cluster = local.cluster /\ NewEntry.name = request.name
      /\ NewEntry.attribute = ATTR_SUBDIRECTORY
  BY DEF NewEntry, init_directory_entry
<1>6. NewEntry \in Entries
  <2>1. /\ request.name \in Names \union {NoText, RootName}
        /\ request.ext \in Exts \union {NoText} /\ 0 \in Sizes \union {0}
        /\ ATTR_SUBDIRECTORY \in {0, ATTR_SUBDIRECTORY} /\ local.cluster \in Cells
    BY <1>3, <1>4, RequestFields, Places, Ranges
  <2> QED
    BY <2>1, EntryMade DEF NewEntry
<1>7. disk' = Rewrite(disk, request.parent, i, NewEntry)
  BY <1>1, <1>2 DEF Rewrite, Parent
<1>8. Table' = Table
  BY <1>1 DEF Table
<1>9. Volume(Table, Rewrite(disk, request.parent, i, NewEntry), {}, {}, {})
  BY <1>2, <1>3, <1>4, <1>5, <1>6, Places, FolderEntered DEF Parent
<1>10. Table'[ROOT_CLUSTER_NUMBER] # FAT32_FAT_EMPTY_ENTRY /\ boot_sector
  BY <1>1, <1>8, FormattedKept
<1> QED
  BY <1>1, <1>7, <1>8, <1>9, <1>10, IdleInv

\* Writing a file: its folder refers to the first cluster, ...
LEMMA WriteFileInv ==
    ASSUME Hazards = {}, DriverInv, VolumeInv, WriteFile
    PROVE  VolumeInv'
<1>1. PICK i \in Indices, c \in Cells :
         /\ CanWrite(i) /\ FirstEmptyCluster(c)
         /\ local' = [local EXCEPT !.cluster = c]
         /\ disk' = [disk EXCEPT ![request.parent] = TableCluster(
               [Parent EXCEPT ![i] = init_directory_entry(request.name, request.ext,
                                                          0, c, request.size)])]
  BY DEF WriteFile
<1> DEFINE e == init_directory_entry(request.name, request.ext, 0, c, request.size)
           n == NumberOfPartitions(request.size)
<1>2. /\ pc = "write" /\ pc' = "file_parts" /\ UNCHANGED <<boot_sector, cluster_map, request>>
      /\ request.size > 0 /\ enough_empty_cluster(n)
  BY DEF WriteFile, Goto, volatile
<1>3. /\ c \in Inner /\ Table[c] = FAT32_FAT_EMPTY_ENTRY /\ ~IsFolder(disk[c].table)
      /\ i \in Slots /\ IsFolder(Parent) /\ ~Parent[i].used
      /\ request \in Requests /\ request.parent \in Dirs /\ Volume(Table, disk, {}, {}, {})
  BY <1>1, <1>2, WriteFinds
<1>4. Table' = Table /\ Table \in Maps /\ disk \in Volumes
  BY <1>2, TableSeen DEF Table
<1>5. e.used /\ e.cluster = c /\ e.attribute = 0
  BY DEF init_directory_entry
<1>6. e.attribute # ATTR_SUBDIRECTORY
  BY <1>5 DEF ATTR_SUBDIRECTORY
<1>7. e \in Entries
  <2>1. /\ request.name \in Names \union {NoText, RootName}
        /\ request.ext \in Exts \union {NoText} /\ request.size \in Sizes \union {0}
        /\ 0 \in {0, ATTR_SUBDIRECTORY}
    BY <1>3, RequestFields
  <2> QED
    BY <2>1, EntryMade
<1>8. disk' = Rewrite(disk, request.parent, i, e)
  BY <1>1 DEF Rewrite, Parent
<1> HIDE DEF e
<1>9. Volume(Table, Rewrite(disk, request.parent, i, e), {}, {c}, {})
  BY <1>3, <1>4, <1>5, <1>6, <1>7, FileEntered DEF Parent
<1>10. ~IsFolder(disk'[c].table)
  BY <1>3, <1>4, <1>7, <1>8, Places, Rewritten
<1>11. local'.cluster = c /\ local'.count = 0
  BY <1>1, <1>2 DEF DriverInv, Serving, Locals, NoLocal, Operations
<1>12. n \in Nat
  BY <1>3, RequestFields, PartsCounted
<1>13. \/ cluster_map[CLUSTER_MAP_SIZE] # FAT32_FAT_EMPTY_ENTRY
       \/ enough_empty_cluster(n + 1)
  <2>1. Careful(request) /\ request.op = "write"
    BY <1>2 DEF VolumeInv, Pending, DriverInv, Serving, Operations
  <2>2. "overrun" \notin Hazards
    OBVIOUS
  <2>3. request.size \in Nat
    BY <1>3, RequestFields
  <2> QED
    BY <1>2, <2>1, <2>2, <2>3 DEF Careful
<1>14. Cardinality(FreeAbove(SavedMap(cluster_map), c)) >= n - 1
  BY <1>1, <1>2, <1>3, <1>12, <1>13, RoomFirst DEF DriverInv
<1>15. Cardinality(FreeAbove(Table', local'.cluster)) >= Part' - local'.count
  <2>1. Table' = SavedMap(cluster_map) /\ Part' = n - 1
    BY <1>2 DEF Table, Part
  <2>2. Cardinality(FreeAbove(SavedMap(cluster_map), c)) \in Nat
    BY <1>3, FreeFinite
  <2> HIDE DEF n
  <2> QED
    BY <1>11, <1>12, <1>14, <2>1, <2>2
<1>16. Doomed' = {} /\ Owed' = {c} /\ Loose' = {}
  BY <1>2, <1>11 DEF Doomed, Owed, Loose
<1>17. Pending'
  BY <1>2, <1>3, <1>4, <1>10, <1>11, <1>15 DEF Pending, Operations
<1>18. Formatted'
  BY <1>2, <1>4, FormattedKept
<1> QED
  BY <1>2, <1>4, <1>8, <1>9, <1>16, <1>17, <1>18 DEF VolumeInv, Tame

\* ... then each cluster is written and linked to the next free one.
LEMMA WriteFilePartInv ==
    ASSUME DriverInv, VolumeInv, WriteFilePart
    PROVE  VolumeInv'
<1> DEFINE c == local.cluster
           v == DataCluster(request.content, local.count)
<1>1. pc = "file_parts" /\ disk' = Put(disk, c, v) /\ UNCHANGED <<boot_sector, request>>
  BY DEF WriteFilePart, Goto, Put
<1>2. /\ c \in Inner /\ ~IsFolder(disk[c].table) /\ Table[c] = FAT32_FAT_EMPTY_ENTRY
      /\ Volume(Table, disk, {}, {c}, {})
      /\ Cardinality(FreeAbove(Table, c)) >= Part - local.count
  BY <1>1 DEF VolumeInv, Pending, Doomed, Owed, Loose
<1>3. /\ Table \in Maps /\ disk \in Volumes
      /\ \A b \in 0..(CLUSTER_MAP_SIZE - 1) : Table[b] = cluster_map[b]
      /\ request \in Requests
  BY <1>1, TableSeen DEF Resting
<1>4. v \in [table : Tables, chunk : Chunks] /\ Unused(v.table) /\ ~IsFolder(v.table)
  <2>1. request.content \in Contents /\ local.count \in Nat
    BY <1>1, RequestFields DEF DriverInv, Serving, Locals, Resting, WriteLabels
  <2>2. v \in [table : Tables, chunk : Chunks] /\ v.table = EmptyTable
    BY <2>1, EmptyMade DEF DataCluster, Chunks
  <2> QED
    BY <2>2, EmptyUnused
<1> HIDE DEF c, v
<1>5. Volume(Table, disk', {}, {c}, {})
  BY <1>1, <1>2, <1>3, <1>4, DataWritten
<1>6. disk' \in Volumes /\ \A x \in Clusters : IsFolder(disk'[x].table) <=> IsFolder(disk[x].table)
  BY <1>1, <1>2, <1>3, <1>4, Places DEF Put, Volumes
<1>7. local.count \in Nat /\ NumberOfPartitions(request.size) \in Nat
  BY <1>3, RequestFields, PartsCounted DEF DriverInv, Serving, Locals
<1>8. Part' = Part /\ Part \in Int
  BY <1>1, <1>7 DEF Part
<1>9. CASE pc' = "file_map" /\ cluster_map' = [cluster_map EXCEPT ![c] = FAT32_FAT_END_OF_FILE]
  <2>1. Table' = Put(Table, c, FAT32_FAT_END_OF_FILE)
    BY <1>1, <1>2, <1>9, TablePut
  <2>2. Volume(Put(Table, c, FAT32_FAT_END_OF_FILE), disk', {}, {}, {})
    BY <1>2, <1>3, <1>5, <1>6, ChainClosed
  <2>3. Doomed' = {} /\ Owed' = {} /\ Loose' = {}
    BY <1>9 DEF Doomed, Owed, Loose
  <2>4. Pending'
    BY <1>9 DEF Pending, Operations
  <2>5. Formatted'
    BY <1>1, <1>2, <1>9, <2>1, FormattedKept
  <2> QED
    BY <1>9, <2>1, <2>2, <2>3, <2>4, <2>5 DEF VolumeInv, Tame
<1>10. ASSUME NEW next \in Cells, local.count < Part, NextEmptyCluster(c, next),
              pc' = "file_parts", cluster_map' = [cluster_map EXCEPT ![c] = next],
              local' = [local EXCEPT !.cluster = next, !.count = @ + 1]
       PROVE  VolumeInv'
  <2>1. local'.cluster = next /\ local'.count = local.count + 1
    BY <1>10 DEF DriverInv, Serving, Locals
  <2>2. Cardinality(FreeAbove(Table, c)) \in Nat
    BY <1>2, FreeFinite
  <2>3. PICK b \in (c + 1)..(CLUSTER_MAP_SIZE - 1) : Table[b] = FAT32_FAT_EMPTY_ENTRY
    BY <1>2, <1>3, <1>7, <1>8, <1>10, <2>2, RoomFound
  <2>4. /\ next > c /\ cluster_map[next] = FAT32_FAT_EMPTY_ENTRY
        /\ \A x \in (c + 1)..(next - 1) : cluster_map[x] # FAT32_FAT_EMPTY_ENTRY
    BY <1>10 DEF NextEmptyCluster
  <2>5. c \in Int /\ c > 2 /\ next \in Int /\ CLUSTER_MAP_SIZE \in Int
    BY <1>2, FAT32Assumption DEF Inner, Cells
  <2>6. next \in Inner \ {c}
    <3>1. cluster_map[b] = FAT32_FAT_EMPTY_ENTRY
      BY <1>3, <2>3, <2>5
    <3>2. next <= b
      BY <2>3, <2>4, <2>5, <3>1
    <3> QED
      BY <2>3, <2>4, <2>5, <3>2 DEF Inner
  <2>7. Table[next] = FAT32_FAT_EMPTY_ENTRY
        /\ \A x \in (c + 1)..(next - 1) : Table[x] # FAT32_FAT_EMPTY_ENTRY
    <3>1. next \in 0..(CLUSTER_MAP_SIZE - 1) /\ (c + 1)..(next - 1) \subseteq 0..(CLUSTER_MAP_SIZE - 1)
      BY <2>5, <2>6 DEF Inner
    <3> QED
      BY <1>3, <2>4, <3>1
  <2>8. Table' = Put(Table, c, next)
    BY <1>1, <1>2, <1>10, TablePut
  <2>9. Volume(Put(Table, c, next), disk', {}, {next}, {})
    BY <1>2, <1>3, <1>5, <1>6, <2>6, <2>7, Places, ChainExtended
  <2>10. Cardinality(FreeAbove(Table', next)) = Cardinality(FreeAbove(Table, c)) - 1
    BY <1>2, <1>3, <2>4, <2>6, <2>7, <2>8, RoomAfter
  <2>11. Cardinality(FreeAbove(Table', local'.cluster)) >= Part' - local'.count
    BY <1>2, <1>7, <1>8, <2>1, <2>2, <2>10
  <2>12. Table'[next] = FAT32_FAT_EMPTY_ENTRY
    BY <1>3, <2>6, <2>7, <2>8, Places DEF Put, Maps
  <2>13. ~IsFolder(disk'[next].table)
    BY <1>6, <1>2, <2>6, <2>7, Places DEF Volume, Kinds
  <2>14. Doomed' = {} /\ Owed' = {next} /\ Loose' = {}
    BY <1>10, <2>1 DEF Doomed, Owed, Loose
  <2>15. Pending'
    BY <1>10, <2>1, <2>6, <2>11, <2>12, <2>13 DEF Pending, Operations
  <2>16. Formatted'
    BY <1>1, <1>2, <1>10, <2>8, FormattedKept
  <2> QED
    BY <1>10, <2>8, <2>9, <2>14, <2>15, <2>16 DEF VolumeInv, Tame
<1> QED
  BY <1>9, <1>10 DEF WriteFilePart, Goto, c

\* Delete: the entry it found is doomed, its cluster loose.
LEMMA DeleteInv ==
    ASSUME Hazards = {}, DriverInv, VolumeInv, Delete
    PROVE  VolumeInv'
<1>1. pc = "Delete" /\ pc \in Quiet /\ UNCHANGED <<disk, cluster_map, boot_sector>>
  BY DEF Delete, media, volatile, Quiet, Operations
<1>2. CASE pc' = "idle"
  BY <1>1, <1>2, RefusedInv
<1>3. CASE pc' # "idle"
  <2>1. PICK i \in Indices :
           /\ IsFolder(Parent) /\ Found(i)
           /\ Parent[i].attribute = ATTR_SUBDIRECTORY => ~NotEmpty(disk[Parent[i].cluster].table)
           /\ Goto(IF Parent[i].attribute = ATTR_SUBDIRECTORY
                   THEN "delete_last" ELSE "delete_chain")
           /\ local' = [local EXCEPT !.slot = i, !.cluster = Parent[i].cluster, !.table = Parent]
    BY <1>3 DEF Delete, Return
  <2> DEFINE c == Parent[i].cluster
             p == request.parent
  <2>2. /\ pc' = IF Parent[i].attribute = ATTR_SUBDIRECTORY THEN "delete_last" ELSE "delete_chain"
        /\ UNCHANGED request
    BY <2>1 DEF Goto
  <2>3. local'.slot = i /\ local'.cluster = c /\ local'.table = Parent
    BY <2>1 DEF DriverInv, Serving, Locals
  <2>4. /\ i \in Slots /\ Listed(disk, {}, p, i) /\ c \in Inner
        /\ Table[c] # FAT32_FAT_EMPTY_ENTRY /\ Volume(Table, disk, {}, {}, {})
    BY <1>1, <2>1, FoundListed DEF Operations
  <2>5. Table \in Maps /\ disk \in Volumes /\ p \in Dirs
    BY <1>1, TableSeen DEF Resting
  <2>6. disk[p].table = Parent /\ Parent' = Parent
    BY <1>1, <2>2 DEF Parent
  <2> HIDE DEF c, p
  <2>7. Volume(Table, disk, {<<p, i>>}, {}, {c})
    BY <2>4, <2>5, <2>6, EntryDoomed DEF c
  <2>8. Table' = Table
    BY <1>1, <2>2 DEF Table
  <2>9. Doomed' = {<<p, i>>} /\ Owed' = {} /\ Loose' = {c}
    BY <2>2, <2>3 DEF Doomed, Owed, Loose, p
  <2>10. Parent[i].attribute = ATTR_SUBDIRECTORY <=> IsFolder(disk[c].table)
    BY <2>4, <2>5, <2>6 DEF Volume, Kinds, c
  <2>11. CASE Parent[i].attribute = ATTR_SUBDIRECTORY
    <3>1. Table[c] = FAT32_FAT_END_OF_FILE
      BY <2>4, <2>10, <2>11 DEF Volume, Placed, Kinds
    <3>2. c # p
      BY <2>1, <2>4, <2>6, <2>11 DEF Listed, NotEmpty, Slots, c
    <3>3. Pending'
      BY <1>1, <2>1, <2>2, <2>3, <2>4, <2>6, <2>8, <2>11, <3>1, <3>2
         DEF Pending, Operations, c, p
    <3> QED
      BY <1>1, <2>2, <2>7, <2>8, <2>9, <2>11, <3>3, FormattedKept DEF VolumeInv, Tame
  <2>12. CASE Parent[i].attribute # ATTR_SUBDIRECTORY
    <3>1. Pending'
      BY <1>1, <2>1, <2>2, <2>3, <2>4, <2>6, <2>8, <2>10, <2>12 DEF Pending, Operations, c
    <3> QED
      BY <1>1, <2>2, <2>7, <2>8, <2>9, <2>12, <3>1, FormattedKept DEF VolumeInv, Tame
  <2> QED
    BY SMTT(30), <2>11, <2>12
<1> QED
  BY SMTT(30), <1>2, <1>3

\* The clusters of a file are freed one by one.
LEMMA DeleteChainInv ==
    ASSUME DriverInv, VolumeInv, DeleteChain
    PROVE  VolumeInv'
<1> DEFINE c    == local.cluster
           next == Table[c]
           X    == {<<request.parent, local.slot>>}
<1>1. pc = "delete_chain"
  BY DEF DeleteChain
<1>2. /\ c \in Inner /\ ~IsFolder(disk[c].table) /\ next # FAT32_FAT_EMPTY_ENTRY
      /\ IsFolder(Parent) /\ local.slot \in Slots /\ local.table = Parent
      /\ Volume(Table, disk, X, {}, {c})
  BY <1>1 DEF VolumeInv, Pending, Doomed, Owed, Loose
<1>3. /\ Table \in Maps /\ disk \in Volumes /\ request.parent \in Dirs
      /\ next = cluster_map[c]
  BY <1>1, <1>2, TableSeen, Places DEF Resting
<1>4. next = FAT32_FAT_END_OF_FILE \/ next \in Inner
  BY <1>2 DEF Volume, Placed
<1>5. request.parent # c
  BY <1>2 DEF Parent
<1> HIDE DEF next
<1>6. CASE next = FAT32_FAT_END_OF_FILE
  <2>1. Goto("delete_last") /\ UNCHANGED <<media, volatile, local>>
    BY <1>3, <1>6, Ranges DEF DeleteChain, media, volatile
  <2>2. pc' = "delete_last" /\ UNCHANGED <<disk, cluster_map, boot_sector, request, local>>
    BY <2>1 DEF Goto, media, volatile
  <2>3. Table' = Table /\ Parent' = Parent
    BY <1>1, <2>2 DEF Table, Parent
  <2>4. Doomed' = X /\ Owed' = {} /\ Loose' = {c}
    BY <2>2 DEF Doomed, Owed, Loose
  <2>5. Pending'
    BY <1>2, <1>5, <1>6, <2>2, <2>3 DEF Pending, Operations, next
  <2> QED
    BY <1>1, <1>2, <2>2, <2>3, <2>4, <2>5, FormattedKept DEF VolumeInv, Tame
<1>7. CASE next \in Inner
  <2>1. next # FAT32_FAT_END_OF_FILE /\ next \in Clusters
    BY <1>7, Places
  <2>2. /\ cluster_map' = [cluster_map EXCEPT ![c] = FAT32_FAT_EMPTY_ENTRY]
        /\ disk' = Put(disk, c, ZeroCluster)
        /\ local' = [local EXCEPT !.cluster = next]
        /\ pc' = "delete_chain" /\ UNCHANGED <<boot_sector, request>>
    BY <1>3, <2>1 DEF DeleteChain, Goto, Put
  <2>3. local'.cluster = next /\ local'.slot = local.slot /\ local'.table = local.table
    BY <2>2 DEF DriverInv, Serving, Locals
  <2>4. Table' = Put(Table, c, FAT32_FAT_EMPTY_ENTRY)
    BY <1>1, <1>2, <2>2, TablePut
  <2>5. /\ ZeroCluster \in [table : Tables, chunk : Chunks] /\ Unused(ZeroCluster.table)
        /\ ~IsFolder(ZeroCluster.table)
    BY EmptyMade, EmptyUnused
  <2>6. Volume(Table, Put(disk, c, ZeroCluster), X, {}, {c})
    BY <1>2, <1>3, <2>5, DataWritten
  <2>7. disk' \in Volumes /\ \A x \in Clusters : x # c => disk'[x] = disk[x]
    BY <1>2, <1>3, <2>2, <2>5, Places DEF Put, Volumes
  <2>8. ~IsFolder(disk'[c].table)
    BY <1>2, <1>3, <2>2, <2>5, Places DEF Put, Volumes
  <2>9. Volume(Put(Table, c, FAT32_FAT_EMPTY_ENTRY), disk', X, {}, {next})
    BY <1>2, <1>3, <1>7, <2>2, <2>6, <2>7, <2>8, LinkFreed DEF next
  <2>10. next # c /\ Table[next] # FAT32_FAT_EMPTY_ENTRY /\ ~IsFolder(disk[next].table)
    <3>1. HasOwner(Table, disk, X, next)
      BY <1>2 DEF HasOwner, next
    <3>2. ~HasOwner(Table, disk, X, c)
      BY <1>2 DEF Volume, Allocated
    <3>3. ~IsFolder(disk[next].table)
      BY <1>2, <1>7 DEF Volume, Kinds, next
    <3> HIDE DEF X
    <3> QED
      BY <1>2, <1>7, <3>1, <3>2, <3>3 DEF Volume, Allocated
  <2>11. Table'[next] # FAT32_FAT_EMPTY_ENTRY /\ ~IsFolder(disk'[next].table)
    BY <1>3, <1>7, <2>4, <2>7, <2>10, Places DEF Put, Maps
  <2>12. Parent' = Parent
    BY <1>3, <1>5, <2>2, <2>7, Places DEF Parent
  <2>13. Doomed' = X /\ Owed' = {} /\ Loose' = {next}
    BY <2>2, <2>3 DEF Doomed, Owed, Loose
  <2>14. Pending'
    BY <1>2, <1>7, <2>2, <2>3, <2>11, <2>12 DEF Pending, Operations
  <2>15. Formatted'
    BY <1>1, <1>2, <2>2, <2>4, FormattedKept
  <2> QED
    BY <2>2, <2>4, <2>9, <2>13, <2>14, <2>15 DEF VolumeInv, Tame
<1> QED
  BY <1>4, <1>6, <1>7

\* The last cluster is freed; then the folder forgets its entry.
LEMMA DeleteLastInv ==
    ASSUME DriverInv, VolumeInv, DeleteLast
    PROVE  VolumeInv'
<1> DEFINE c == local.cluster
           X == {<<request.parent, local.slot>>}
<1>1. /\ pc = "delete_last" /\ pc' = "delete_parent" /\ UNCHANGED <<boot_sector, request>>
      /\ disk' = Put(disk, c, ZeroCluster)
      /\ cluster_map' = [cluster_map EXCEPT ![c] = FAT32_FAT_EMPTY_ENTRY]
      /\ local' = [local EXCEPT !.table[local.slot] = EmptyEntry]
  BY DEF DeleteLast, Goto, Put, Freed
<1>2. /\ c \in Inner /\ Table[c] = FAT32_FAT_END_OF_FILE /\ c # request.parent
      /\ IsFolder(disk[c].table) => ~NotEmpty(disk[c].table)
      /\ IsFolder(Parent) /\ local.slot \in Slots /\ local.table = Parent
      /\ Volume(Table, disk, X, {}, {c})
  BY <1>1 DEF VolumeInv, Pending, Doomed, Owed, Loose
<1>3. Table \in Maps /\ disk \in Volumes /\ request.parent \in Dirs
  BY <1>1, TableSeen DEF Resting
<1>4. Table' = Put(Table, c, FAT32_FAT_EMPTY_ENTRY)
  BY <1>1, <1>2, TablePut
<1>5. /\ ZeroCluster \in [table : Tables, chunk : Chunks] /\ Unused(ZeroCluster.table)
      /\ ~IsFolder(ZeroCluster.table)
  BY EmptyMade, EmptyUnused
<1>6. Volume(Put(Table, c, FAT32_FAT_EMPTY_ENTRY), Put(disk, c, ZeroCluster), X, {}, {})
  BY <1>2, <1>3, <1>5, LastFreed DEF NotEmpty, Slots
<1>7. local'.slot = local.slot /\ local'.table = [Parent EXCEPT ![local.slot] = EmptyEntry]
  BY <1>1, <1>2 DEF DriverInv, Serving, Locals
<1>8. Parent' = Parent
  BY <1>1, <1>2, <1>3, <1>5, Places DEF Parent, Put, Volumes
<1>9. Doomed' = X /\ Owed' = {} /\ Loose' = {}
  BY <1>1, <1>7 DEF Doomed, Owed, Loose
<1>10. Pending'
  BY <1>1, <1>2, <1>7, <1>8 DEF Pending, Operations
<1>11. Formatted'
  BY <1>1, <1>2, <1>4, FormattedKept
<1> QED
  BY <1>1, <1>4, <1>6, <1>9, <1>10, <1>11 DEF VolumeInv, Tame

\* The parent's table on disk no longer lists what is gone.
LEMMA DeleteParentInv ==
    ASSUME DriverInv, VolumeInv, DeleteParent
    PROVE  VolumeInv'
<1>1. /\ pc = "delete_parent" /\ pc' = "delete_map" /\ UNCHANGED <<boot_sector, cluster_map>>
      /\ disk' = [disk EXCEPT ![request.parent] = TableCluster(local.table)]
  BY DEF DeleteParent, Goto, volatile
<1>2. /\ IsFolder(Parent) /\ local.slot \in Slots
      /\ local.table = [Parent EXCEPT ![local.slot] = EmptyEntry]
      /\ Volume(Table, disk, {<<request.parent, local.slot>>}, {}, {})
  BY <1>1 DEF VolumeInv, Pending, Doomed, Owed, Loose
<1>3. Table \in Maps /\ disk \in Volumes /\ request.parent \in Dirs
  BY <1>1, TableSeen DEF Resting
<1>4. disk' = Rewrite(disk, request.parent, local.slot, EmptyEntry)
  BY <1>1, <1>2 DEF Rewrite, Parent
<1>5. Volume(Table, Rewrite(disk, request.parent, local.slot, EmptyEntry), {}, {}, {})
  BY <1>2, <1>3, EntryRemoved
<1>6. Table' = Table
  BY <1>1 DEF Table
<1>7. Doomed' = {} /\ Owed' = {} /\ Loose' = {}
  BY <1>1 DEF Doomed, Owed, Loose
<1>8. Pending'
  BY <1>1 DEF Pending, Operations
<1>9. Formatted'
  BY <1>1, <1>6, FormattedKept
<1> QED
  BY <1>1, <1>4, <1>5, <1>6, <1>7, <1>8, <1>9 DEF VolumeInv, Tame

-----------------------------------------------------------------------------
(* The theorems.                                                            *)

\* A blank disk in a machine that is off.
LEMMA VolumeInit == Init => VolumeInv
<1> SUFFICES ASSUME Init PROVE VolumeInv
  OBVIOUS
<1>1. DriverInv
  BY DriverInit
<1>2. Table \in Maps /\ disk \in Volumes
  BY <1>1, TableSeen
<1>3. /\ pc = "off" /\ boot_sector = FALSE /\ \A c \in Clusters : disk[c] = ZeroCluster
      /\ \A c \in 0..(CLUSTER_MAP_SIZE - 1) : disk_map[c] = 0
      /\ DOMAIN disk_map = 0..(CLUSTER_MAP_SIZE - 1)
  BY DEF Init
<1>4. ZeroCluster.table = EmptyTable
  BY EmptyMade
<1>5. \A c \in Inner : Table[c] = FAT32_FAT_EMPTY_ENTRY
  BY <1>3, Places DEF Table, FAT32_FAT_EMPTY_ENTRY
<1>6. Volume(Table, disk, {}, {}, {})
  BY <1>2, <1>3, <1>4, <1>5, Places, EmptyUnused, BlankVolume
<1>7. Doomed = {} /\ Owed = {} /\ Loose = {}
  BY <1>3 DEF Doomed, Owed, Loose
<1>8. Pending
  BY <1>3 DEF Pending, Operations
<1>9. Formatted
  BY <1>3 DEF Formatted
<1> QED
  BY <1>3, <1>6, <1>7, <1>8, <1>9 DEF VolumeInv, Tame

\* A power loss is never forgotten.
LEMMA LossesCounted ==
    ASSUME DriverInv, [Next]_vars, power_losses' = 0
    PROVE  power_losses = 0
<1>1. power_losses \in Nat
  BY SMTT(30) DEF DriverInv, Serving
<1>2. power_losses' = power_losses \/ power_losses' = power_losses + 1
  BY ZenonT(40) DEF Next, DriverStep, FormatMap, FormatRoot, read_directory, read, ReadChain, WriteRefused,
         WriteFolder, WriteFolderTable, WriteFolderParent, WriteFile, WriteFilePart, WriteFileMap,
         Delete, DeleteChain, DeleteLast, DeleteParent, DeleteMap, Initialize, Call, SwitchOff,
         PowerLoss, Return, Goto, ReadBootSector, DeleteBootSector, FollowForeignWord, RunWild,
         Wild, vars
<1> QED
  BY <1>1, <1>2

\* Every step keeps the volume whole up to what the request in work has left open.
LEMMA VolumeNext ==
    ASSUME Hazards = {}
    PROVE  DriverInv /\ VolumeInv /\ [Next]_vars /\ power_losses' = 0 => VolumeInv'
<1>1. ASSUME DriverInv, VolumeInv, Next, power_losses' = 0 PROVE VolumeInv'
  BY <1>1, SwitchInv, ReadInv, WriteFolderInv, WriteFolderTableInv, WriteFolderParentInv,
     WriteFileInv, WriteFilePartInv, DeleteInv, DeleteChainInv, DeleteLastInv, DeleteParentInv,
     NotAstray DEF Next, DriverStep
<1>2. ASSUME VolumeInv, UNCHANGED vars PROVE VolumeInv'
  <2>1. /\ UNCHANGED <<boot_sector, disk_map, disk, cluster_map, pc, request, local>>
    BY <1>2 DEF vars, media, volatile, call
  <2>2. Table' = Table /\ Doomed' = Doomed /\ Owed' = Owed /\ Loose' = Loose /\ Part' = Part
        /\ Parent' = Parent /\ NewEntry' = NewEntry
    BY <2>1 DEF Table, Doomed, Owed, Loose, Part, Parent, NewEntry
  <2>3. Pending'
    BY <1>2, <2>1, <2>2 DEF VolumeInv, Pending, Careful, enough_empty_cluster
  <2>4. Formatted'
    BY <1>2, <2>1, <2>2 DEF VolumeInv, Formatted
  <2> QED
    BY <1>2, <2>1, <2>2, <2>3, <2>4 DEF VolumeInv, Tame
<1> QED
  BY <1>1, <1>2

\* As long as no request has been cut off and requests are careful, the volume is whole
\* at every step, up to what the request in work has left open.
THEOREM VolumeCorrect ==
    Hazards = {} => (Spec => [](power_losses = 0 => VolumeInv))
<1> SUFFICES ASSUME Hazards = {} PROVE Spec => [](power_losses = 0 => VolumeInv)
  OBVIOUS
<1>1. Init => (power_losses = 0 => VolumeInv)
  BY VolumeInit
<1>2. DriverInv /\ (power_losses = 0 => VolumeInv) /\ [Next]_vars => (power_losses = 0 => VolumeInv)'
  BY VolumeNext, LossesCounted
<1> QED
  BY <1>1, <1>2, DriverCorrect, PTL DEF Spec

\* The same when the power never fails.
LEMMA VolumeStays ==
    MaxPowerLoss = 0 /\ Hazards = {} => (Spec => []VolumeInv)
<1> SUFFICES ASSUME MaxPowerLoss = 0, Hazards = {} PROVE Spec => []VolumeInv
  OBVIOUS
<1>1. DriverInv => power_losses = 0
  BY DEF DriverInv, Serving
<1>2. Spec => [](power_losses = 0 => VolumeInv)
  BY VolumeCorrect
<1> QED
  BY <1>1, <1>2, DriverCorrect, PTL

\* Then no loop over a chain meets a free cell or leaves the table.
THEOREM NeverWildHolds ==
    MaxPowerLoss = 0 /\ Hazards = {} => (Spec => []NeverWild)
<1> SUFFICES ASSUME MaxPowerLoss = 0, Hazards = {} PROVE Spec => []NeverWild
  OBVIOUS
<1>1. VolumeInv => NeverWild
  BY VolumeTame DEF NeverWild
<1>2. Spec => []VolumeInv
  BY SMTT(30), VolumeStays
<1> QED
  BY <1>1, <1>2, PTL

\* Then, between requests, every folder is listed under its own name by the folder its
\* table names as parent.
THEOREM FoldersLinkedHolds ==
    MaxPowerLoss = 0 /\ Hazards = {} => (Spec => []FoldersLinkedBothWays)
<1> SUFFICES ASSUME MaxPowerLoss = 0, Hazards = {} PROVE Spec => []FoldersLinkedBothWays
  OBVIOUS
<1>1. VolumeInv => FoldersLinkedBothWays
  <2> SUFFICES ASSUME VolumeInv, pc = "idle", NEW c \in Folders \ {ROOT_CLUSTER_NUMBER}
               PROVE  /\ disk[c].table[0].cluster = c
                      /\ \E x \in LiveEntries :
                            /\ x[1] = disk[c].table[1].cluster
                            /\ EntryOf(x).cluster = c
                            /\ EntryOf(x).attribute = ATTR_SUBDIRECTORY
                            /\ EntryOf(x).name = disk[c].table[0].name
    BY DEF FoldersLinkedBothWays
  <2>1. c \in Inner /\ IsFolder(disk[c].table)
    BY FAT32Assumption DEF Folders, Inner, ROOT_CLUSTER_NUMBER
  <2>2. Linked(disk, {}, {})
    BY DEF VolumeInv, Volume, Doomed, Owed, Loose
  <2>3. LinkedUp(disk, {}, c)
    BY SMTT(30), <2>1, <2>2 DEF Linked
  <2> DEFINE d == disk[c].table[1].cluster
  <2>4. PICK i \in Slots :
           /\ Listed(disk, {}, d, i) /\ disk[d].table[i].cluster = c
           /\ disk[d].table[i].attribute = ATTR_SUBDIRECTORY
           /\ disk[d].table[i].name = disk[c].table[0].name
    BY <2>3 DEF LinkedUp
  <2> HIDE DEF d
  <2>5. <<d, i>> \in LiveEntries /\ EntryOf(<<d, i>>) = disk[d].table[i]
    BY <2>4 DEF LiveEntries, Folders, EntryOf, Listed, Dirs, Slots
  <2>6. <<d, i>>[1] = d
    OBVIOUS
  <2>7. \E x \in LiveEntries : /\ x[1] = d /\ EntryOf(x).cluster = c
                               /\ EntryOf(x).attribute = ATTR_SUBDIRECTORY
                               /\ EntryOf(x).name = disk[c].table[0].name
    BY <2>4, <2>5, <2>6
  <2> QED
    BY <2>3, <2>7 DEF LinkedUp, d
<1>2. Spec => []VolumeInv
  BY SMTT(30), VolumeStays
<1> QED
  BY <1>1, <1>2, PTL

\* Then, between requests, every allocated cluster has one owner and every free one none.
THEOREM ClustersOwnedOnceHolds ==
    MaxPowerLoss = 0 /\ Hazards = {} => (Spec => []ClustersOwnedOnce)
<1> SUFFICES ASSUME MaxPowerLoss = 0, Hazards = {} PROVE Spec => []ClustersOwnedOnce
  OBVIOUS
<1>1. DriverInv /\ VolumeInv => ClustersOwnedOnce
  <2> SUFFICES ASSUME DriverInv, VolumeInv, pc = "idle", NEW c \in Inner
               PROVE  Cardinality(Owners(c)) =
                          IF cluster_map[c] = FAT32_FAT_EMPTY_ENTRY THEN 0 ELSE 1
    BY DEF ClustersOwnedOnce, Inner
  <2>1. Volume(Table, disk, {}, {}, {})
    BY DEF VolumeInv, Doomed, Owed, Loose
  <2>2. \A b \in Inner : Table[b] = cluster_map[b]
    BY TableSeen, Places
  <2>3. \A x : x \in Owners(c) <=>
           \/ \E d \in Dirs, i \in Slots :
                 Listed(disk, {}, d, i) /\ disk[d].table[i].cluster = c /\ x = <<d, i>>
           \/ \E b \in Inner : Table[b] = c /\ x = <<b, 0>>
    <3>1. \A x : x \in LiveEntries <=>
             \E d \in Dirs, i \in Slots : Listed(disk, {}, d, i) /\ x = <<d, i>>
      BY DEF LiveEntries, Folders, Listed, Dirs, Slots
    <3>2. \A d, i : EntryOf(<<d, i>>) = disk[d].table[i]
      BY DEF EntryOf
    <3> QED
      BY <2>2, <3>1, <3>2 DEF Owners, Inner
  <2>4. \A x, y \in Owners(c) : x = y
    BY <2>1, <2>3 DEF Volume, OwnedOnce
  <2>5. Owners(c) # {} <=> HasOwner(Table, disk, {}, c)
    BY <2>3 DEF HasOwner
  <2>6. HasOwner(Table, disk, {}, c) <=> cluster_map[c] # FAT32_FAT_EMPTY_ENTRY
    BY <2>1, <2>2 DEF Volume, Allocated
  <2>7. CASE cluster_map[c] = FAT32_FAT_EMPTY_ENTRY
    BY <2>5, <2>6, <2>7, FS_EmptySet
  <2>8. CASE cluster_map[c] # FAT32_FAT_EMPTY_ENTRY
    <3>1. PICK x : Owners(c) = {x}
      BY <2>4, <2>5, <2>6, <2>8
    <3> QED
      BY <2>8, <3>1, FS_Singleton
  <2> QED
    BY <2>7, <2>8
<1>2. Spec => []VolumeInv
  BY SMTT(30), VolumeStays
<1> QED
  BY <1>1, <1>2, DriverCorrect, PTL

=============================================================================
