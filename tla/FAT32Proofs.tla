---------------------------- MODULE FAT32Proofs -----------------------------
(***************************************************************************)
(* The FAT32 driver for every size of table, cluster and directory, and    *)
(* any number of power losses.                                             *)
(***************************************************************************)
EXTENDS FAT32, TLAPS

\* A cell leads upwards or nowhere; the first mark of the table and the name behind
\* it are no links.
Leads(c, v) ==
    \/ v = FAT32_FAT_EMPTY_ENTRY
    \/ c # 0 /\ v \in {FAT32_FAT_END_OF_FILE} \union ((c + 1)..CLUSTER_MAP_SIZE)
    \/ c = 0 /\ v = CLUSTER_0_VALUE
    \/ c = CLUSTER_MAP_SIZE /\ v = NameWord
Upward(map) == \A c \in DOMAIN map : Leads(c, map[c])

\* A folder's table carries the folder's name, and what has a name has a cluster.
Legible(table) ==
    /\ IsFolder(table) => table[0].name # NoText
    /\ \A i \in Indices : table[i].name # NoText => table[i].cluster \in Clusters

\* The disk, the driver's copy of its table and the string literal.
Stored ==
    /\ boot_sector \in BOOLEAN
    /\ disk_map \in [0..(CLUSTER_MAP_SIZE - 1) -> Links]
    /\ disk \in [Clusters -> [table : Tables, chunk : Chunks]]
    /\ cluster_map \in [Cells -> Links]
    /\ root_literal \in Names \union {RootName}
    /\ Upward(cluster_map) /\ Upward(disk_map)
    /\ \A c \in Clusters : Legible(disk[c].table)

\* What the driver knows of its request at each label.
WriteLabels == {"folder_table", "folder_parent", "file_parts", "file_map"}
Resting     == {"off", "idle", "format_map", "format_root"}
Locals      == [table : Tables, slot : Indices, cluster : Links, count : Nat,
                out : Seq(Chunks)]
Serving ==
    /\ pc \in Labels
    /\ request \in Requests \union {NoRequest}
    /\ local \in Locals
    /\ reply \in -1..2
    /\ power_losses \in 0..MaxPowerLoss
    /\ Legible(local.table)
    /\ pc \notin Resting \union {"wild"} => request \in Requests
    /\ pc \in Operations => request.op = pc
    /\ pc \in WriteLabels => request.op = "write"
    /\ pc \in {"file_parts", "file_map"} => request.size > 0
    /\ pc \in Operations \union Resting => local = NoLocal
    /\ pc \in {"folder_table", "file_parts", "delete_last"} => local.cluster \in Clusters
    /\ pc = "file_parts" => local.count <= Part

\* Labels at which the table on disk is the one in memory.
Mirrored ==
    pc \in Operations \union {"idle", "format_root", "read_chain", "folder_table",
                              "folder_parent"} =>
        SavedMap(cluster_map) = disk_map

\* The first two cells of a table never look free, once there is a folder that the
\* driver could add to; a table is all zeroes only while the disk is blank.  Only a
\* Delete that went astray clears the first mark, in memory.
Marked(map) == map[0] # FAT32_FAT_EMPTY_ENTRY /\ map[1] # FAT32_FAT_EMPTY_ENTRY
Blank       == \A c \in Clusters : ~IsFolder(disk[c].table)
Marks ==
    /\ Marked(disk_map) \/ Blank
    /\ pc = "format_map" => Marked(cluster_map)
    /\ pc \in Operations \union {"idle"} => Marked(cluster_map) \/ Blank
    /\ pc \notin Operations \union {"off", "idle", "format_map", "wild"} =>
          /\ Marked(disk_map)
          /\ Marked(cluster_map) \/ (pc = "delete_chain" /\ Astray)

DriverInv == Stored /\ Serving /\ Mirrored /\ Marks

-----------------------------------------------------------------------------
(* What the operators compute.                                              *)

\* The sets of cells, clusters and entries overlap as the code assumes.
LEMMA Ranges ==
    /\ Clusters \subseteq Cells /\ Cells \subseteq Links
    /\ FAT32_FAT_END_OF_FILE \in Links /\ FAT32_FAT_EMPTY_ENTRY \in Links
    /\ CLUSTER_0_VALUE \in Links /\ NameWord \in Links
    /\ FAT32_FAT_END_OF_FILE \notin Cells /\ CLUSTER_0_VALUE \notin Cells
    /\ NameWord \notin Cells /\ FAT32_FAT_EMPTY_ENTRY \notin Clusters
    /\ FAT32_FAT_END_OF_FILE \notin {FAT32_FAT_EMPTY_ENTRY, CLUSTER_0_VALUE, NameWord}
    /\ 0 = FAT32_FAT_EMPTY_ENTRY
    /\ ROOT_CLUSTER_NUMBER \in Clusters /\ CLUSTER_MAP_SIZE \in Cells
    /\ 0 \in Indices /\ 1 \in Indices /\ 0..(CLUSTER_MAP_SIZE - 1) \subseteq Cells
<1>1. CLUSTER_MAP_SIZE \in Nat /\ CLUSTER_MAP_SIZE > 3 /\ DIRECTORY_ENTRIES \in Nat
      /\ DIRECTORY_ENTRIES > 2 /\ CLUSTER_MAP_SIZE < CLUSTER_0_VALUE
  BY FAT32Assumption
<1>2. Clusters \subseteq Cells /\ 0..(CLUSTER_MAP_SIZE - 1) \subseteq Cells
      /\ ROOT_CLUSTER_NUMBER \in Clusters /\ CLUSTER_MAP_SIZE \in Cells
      /\ 0 \in Indices /\ 1 \in Indices
  BY <1>1 DEF Clusters, Cells, Indices, ROOT_CLUSTER_NUMBER
<1>3. /\ Cells \subseteq Links /\ FAT32_FAT_END_OF_FILE \in Links /\ CLUSTER_0_VALUE \in Links
      /\ NameWord \in Links
  BY DEF Cells, Links
<1>4. FAT32_FAT_EMPTY_ENTRY \in Links
  BY <1>1, <1>3 DEF Cells, FAT32_FAT_EMPTY_ENTRY
<1>5. FAT32_FAT_END_OF_FILE \notin Cells /\ CLUSTER_0_VALUE \notin Cells /\ NameWord \notin Cells
  BY <1>1, SMT DEF Cells, FAT32_FAT_END_OF_FILE, CLUSTER_0_VALUE, NameWord
<1>6. /\ FAT32_FAT_EMPTY_ENTRY \notin Clusters
      /\ FAT32_FAT_END_OF_FILE \notin {FAT32_FAT_EMPTY_ENTRY, CLUSTER_0_VALUE, NameWord}
      /\ 0 = FAT32_FAT_EMPTY_ENTRY
  BY <1>1, SMT DEF Clusters, FAT32_FAT_END_OF_FILE, CLUSTER_0_VALUE, NameWord, FAT32_FAT_EMPTY_ENTRY
<1> QED
  BY <1>2, <1>3, <1>4, <1>5, <1>6

\* A directory entry is made of what it is given.
LEMMA EntryMade ==
    ASSUME NEW name \in Names \union {NoText, RootName}, NEW ext \in Exts \union {NoText},
           NEW attribute \in {0, ATTR_SUBDIRECTORY}, NEW cluster \in Cells,
           NEW filesize \in Sizes \union {0}
    PROVE  /\ init_directory_entry(name, ext, attribute, cluster, filesize) \in Entries
           /\ init_directory_entry(name, ext, attribute, cluster, filesize).name = name
  BY DEF init_directory_entry, Entries, Cells

\* Cleared tables and clusters.
LEMMA EmptyMade ==
    /\ EmptyEntry \in Entries /\ EmptyTable \in Tables
    /\ EmptyEntry.attribute # ATTR_SUBDIRECTORY /\ EmptyEntry.name = NoText
    /\ Legible(EmptyTable)
    /\ NoChunk \in Chunks
    /\ ZeroCluster \in [table : Tables, chunk : Chunks] /\ ZeroCluster.table = EmptyTable
<1>1. /\ EmptyEntry \in Entries /\ EmptyEntry.attribute # ATTR_SUBDIRECTORY
      /\ EmptyEntry.name = NoText
  <2>1. 0 \in 0..CLUSTER_MAP_SIZE
    BY FAT32Assumption
  <2> QED
    BY <2>1, SMT DEF EmptyEntry, Entries, ATTR_SUBDIRECTORY
<1>2. EmptyTable \in Tables /\ Legible(EmptyTable)
  BY <1>1, Ranges DEF EmptyTable, Tables, Legible, IsFolder
<1>3. NoChunk \in Chunks
  BY DEF Chunks
<1> QED
  BY <1>1, <1>2, <1>3 DEF ZeroCluster

\* A cluster that holds a table.
LEMMA TableMade ==
    ASSUME NEW t \in Tables
    PROVE  /\ TableCluster(t) \in [table : Tables, chunk : Chunks]
           /\ TableCluster(t).table = t
  BY EmptyMade DEF TableCluster

\* init_directory_table makes a table that carries the folder's name.
LEMMA DirectoryTableMade ==
    ASSUME NEW name \in Names \union {RootName}, NEW cluster \in Clusters,
           NEW parent_name \in Names \union {NoText, RootName}, NEW parent \in Clusters
    PROVE  /\ DirectoryTable(name, cluster, parent_name, parent) \in Tables
           /\ Legible(DirectoryTable(name, cluster, parent_name, parent))
<1> DEFINE e == init_directory_entry(name, NoText, ATTR_SUBDIRECTORY, cluster, 0)
           f == init_directory_entry(parent_name, NoText, ATTR_SUBDIRECTORY, parent, 0)
<1>1. /\ e \in Entries /\ e.name = name /\ e.cluster \in Clusters
      /\ f \in Entries /\ f.cluster \in Clusters
  <2>1. /\ NoText \in Exts \union {NoText} /\ 0 \in Sizes \union {0}
        /\ ATTR_SUBDIRECTORY \in {0, ATTR_SUBDIRECTORY}
        /\ name \in Names \union {NoText, RootName}
    OBVIOUS
  <2>2. e.cluster = cluster /\ f.cluster = parent
    BY DEF init_directory_entry
  <2>3. cluster \in Cells /\ parent \in Cells
    BY Ranges
  <2>4. e \in Entries /\ e.name = name /\ f \in Entries
    BY <2>1, <2>3, EntryMade
  <2> QED
    BY <2>2, <2>4
<1>2. name # NoText
  <2>1. RootName # NoText
    BY Zenon DEF RootName, NoText
  <2> QED
    BY <2>1, FAT32Assumption
<1>3. DirectoryTable(name, cluster, parent_name, parent) = [EmptyTable EXCEPT ![0] = e, ![1] = f]
  BY DEF DirectoryTable
<1> HIDE DEF e, f
<1> DEFINE t == [EmptyTable EXCEPT ![0] = e, ![1] = f]
<1>4. /\ t \in Tables /\ t[0] = e /\ t[1] = f
      /\ \A i \in Indices \ {0, 1} : t[i] = EmptyTable[i]
  BY <1>1, EmptyMade, Ranges DEF Tables
<1>5. \A i \in Indices : EmptyTable[i] = EmptyEntry
  BY DEF EmptyTable
<1> HIDE DEF t
<1>6. Legible(t)
  BY <1>1, <1>2, <1>4, <1>5, EmptyMade DEF Legible
<1> QED
  BY <1>3, <1>4, <1>6 DEF t

\* A file of at least one byte has at least one part.
LEMMA PartsCounted ==
    ASSUME NEW size \in Nat
    PROVE  NumberOfPartitions(size) \in Nat /\ (size > 0 => NumberOfPartitions(size) >= 1)
<1> DEFINE q == size \div CLUSTER_SIZE
           m == size % CLUSTER_SIZE
<1>1. q \in Int /\ m \in 0..(CLUSTER_SIZE - 1) /\ size = CLUSTER_SIZE * q + m
      /\ CLUSTER_SIZE \in Nat \ {0}
  BY FAT32Assumption, Z3
<1>2. NumberOfPartitions(size) = q + (IF m > 0 THEN 1 ELSE 0)
  BY DEF NumberOfPartitions
<1> HIDE DEF q, m
<1>3. q >= 0
  BY <1>1, Z3
<1>4. size > 0 => q > 0 \/ m > 0
  BY <1>1, Z3
<1> QED
  BY <1>1, <1>2, <1>3, <1>4

\* Rewriting one cell of a table upwards, or with a mark, keeps its links upward.
LEMMA UpwardCell ==
    ASSUME NEW map \in [Cells -> Links], Upward(map), NEW c, NEW v \in Links, Leads(c, v)
    PROVE  [map EXCEPT ![c] = v] \in [Cells -> Links] /\ Upward([map EXCEPT ![c] = v])
  BY DEF Upward

\* What is saved of a table is as upward as the table.
LEMMA UpwardSaved ==
    ASSUME NEW map \in [Cells -> Links], Upward(map)
    PROVE  /\ SavedMap(map) \in [0..(CLUSTER_MAP_SIZE - 1) -> Links]
           /\ Upward(SavedMap(map))
  BY Ranges DEF Upward, SavedMap

\* The table create_fat32 builds, and a table of zeroes.
LEMMA MapsMade ==
    /\ FormattedMap \in [Cells -> Links] /\ Upward(FormattedMap)
    /\ ZeroMap \in [Cells -> Links] /\ Upward(ZeroMap)
<1> DEFINE built == [c \in Cells |->
        CASE c = 0 -> CLUSTER_0_VALUE
          [] c = 1 -> CLUSTER_1_VALUE
          [] c = ROOT_CLUSTER_NUMBER -> FAT32_FAT_END_OF_FILE
          [] OTHER -> FAT32_FAT_EMPTY_ENTRY]
<1>1. CLUSTER_1_VALUE = FAT32_FAT_END_OF_FILE
  BY SMT DEF CLUSTER_1_VALUE, FAT32_FAT_END_OF_FILE
<1>2. built \in [Cells -> Links] /\ Upward(built)
  BY <1>1, Ranges DEF Upward, Leads, ROOT_CLUSTER_NUMBER
<1>4. FormattedMap = [built EXCEPT ![CLUSTER_MAP_SIZE] = NameWord]
  BY DEF FormattedMap, WithName
<1> HIDE DEF built
<1>5. FormattedMap \in [Cells -> Links] /\ Upward(FormattedMap)
  BY <1>2, <1>4, Ranges, UpwardCell DEF Leads
<1>6. ZeroMap \in [Cells -> Links] /\ Upward(ZeroMap)
  BY Ranges DEF ZeroMap, Upward, Leads, FAT32_FAT_EMPTY_ENTRY
<1> QED
  BY <1>5, <1>6

\* The fields of a request.
LEMMA RequestFields ==
    ASSUME NEW r \in Requests
    PROVE  /\ r.op \in Operations /\ r.parent \in Clusters /\ r.parent < CLUSTER_MAP_SIZE
           /\ r.name \in Names /\ r.ext \in Exts /\ r.size \in Sizes /\ r.size \in Nat
           /\ r.op = "write" /\ r.size > 0 => r.content \in Contents
<1>1. /\ r \in [op : Operations, parent : 2..(CLUSTER_MAP_SIZE - 1), name : Names,
                ext : Exts, size : Sizes, content : Contents \union {0}]
      /\ r.op = "write" /\ r.size > 0 <=> r.content # 0
  BY DEF Requests
<1>2. r.parent \in 2..(CLUSTER_MAP_SIZE - 1)
  BY <1>1
<1>3. r.parent \in Clusters /\ r.parent < CLUSTER_MAP_SIZE
  BY <1>2, FAT32Assumption DEF Clusters
<1> QED
  BY <1>1, <1>3, FAT32Assumption

\* Writing a cluster with a table that carries its name keeps the disk well-formed.
LEMMA DiskPut ==
    ASSUME Stored, NEW c, NEW v \in [table : Tables, chunk : Chunks], Legible(v.table),
           disk' = [disk EXCEPT ![c] = v]
    PROVE  /\ disk' \in [Clusters -> [table : Tables, chunk : Chunks]]
           /\ \A b \in Clusters : Legible(disk'[b].table)
  BY DEF Stored

\* The parent's table with an entry rewritten that is not the folder's own.
LEMMA EntryPut ==
    ASSUME NEW t \in Tables, Legible(t), NEW i \in Indices, NEW e \in Entries,
           i # 0 \/ e.attribute # ATTR_SUBDIRECTORY,
           e.name # NoText => e.cluster \in Clusters
    PROVE  [t EXCEPT ![i] = e] \in Tables /\ Legible([t EXCEPT ![i] = e])
  BY Ranges DEF Tables, Legible, IsFolder

\* The entry CanWrite finds lies behind the folder's own two.
LEMMA CanWriteIndex ==
    ASSUME NEW i \in Indices, CanWrite(i)
    PROVE  i # 0 /\ IsFolder(Parent)
  BY FAT32Assumption DEF CanWrite, FirstIndex

\* What the search for a free cluster finds in a table with its marks is a cluster.
LEMMA FreeIsCluster ==
    ASSUME Marked(cluster_map), NEW c, FirstEmptyCluster(c)
    PROVE  c \in Clusters /\ c < CLUSTER_MAP_SIZE
<1>1. c \in 0..(CLUSTER_MAP_SIZE - 1) /\ c # 0 /\ c # 1
  BY DEF Marked, FirstEmptyCluster
<1> QED
  BY <1>1, FAT32Assumption DEF Clusters

\* A write that goes on has found a folder, so the table has its marks.
LEMMA WriteFindsMarks ==
    ASSUME Serving, Marks, pc \in Operations, IsFolder(Parent)
    PROVE  Marked(cluster_map) /\ Marked(disk_map)
<1>1. request.parent \in Clusters
  BY RequestFields DEF Serving, Operations, Resting
<1> QED
  BY <1>1 DEF Marks, Blank, Parent

-----------------------------------------------------------------------------
(* The disk and the driver's copy of its table.                             *)

\* Every step leaves disk and table well-formed, whenever the power fails.
LEMMA StoredStep ==
    ASSUME Stored, Serving, Marks, Next
    PROVE  Stored'
<1> DEFINE Clean == /\ boot_sector' \in BOOLEAN
                    /\ root_literal' \in Names \union {RootName}
           Tabled == /\ disk_map' \in [0..(CLUSTER_MAP_SIZE - 1) -> Links]
                     /\ Upward(disk_map')
                     /\ cluster_map' \in [Cells -> Links]
                     /\ Upward(cluster_map')
           Filled == /\ disk' \in [Clusters -> [table : Tables, chunk : Chunks]]
                     /\ \A c \in Clusters : Legible(disk'[c].table)
<1>1. SUFFICES Clean /\ Tabled /\ Filled
  BY DEF Stored
<1>2. UNCHANGED <<boot_sector, root_literal>> => Clean
  BY DEF Stored
<1>3. UNCHANGED <<disk_map, cluster_map>> => Tabled
  BY DEF Stored
<1>4. UNCHANGED disk => Filled
  BY DEF Stored
<1>5. /\ cluster_map \in [Cells -> Links] /\ Upward(cluster_map)
      /\ disk_map \in [0..(CLUSTER_MAP_SIZE - 1) -> Links] /\ Upward(disk_map)
      /\ root_literal \in Names \union {RootName}
  BY DEF Stored
<1>6. pc \notin Resting \union {"wild"} =>
         /\ request \in Requests /\ Parent \in Tables /\ Legible(Parent)
         /\ Parent[0].name \in Names \union {NoText, RootName}
  BY RequestFields, Ranges DEF Serving, Stored, Parent, Tables, Entries
<1> HIDE DEF Clean, Tabled, Filled
<1>10. CASE Initialize
  <2>1. CASE boot_sector
    <3>1. /\ cluster_map' = [c \in Cells |-> IF c \in DOMAIN disk_map THEN disk_map[c] ELSE 0]
          /\ UNCHANGED <<boot_sector, disk_map, disk, root_literal>>
      BY <1>10, <2>1 DEF Initialize
    <3>2. cluster_map' \in [Cells -> Links] /\ Upward(cluster_map')
      BY <1>5, <3>1, Ranges DEF Upward, Leads, FAT32_FAT_EMPTY_ENTRY
    <3> QED
      BY <1>2, <1>4, <1>5, <3>1, <3>2 DEF Tabled
  <2>2. CASE ~boot_sector
    <3>1. /\ cluster_map' = FormattedMap /\ boot_sector' = TRUE
          /\ UNCHANGED <<disk_map, disk, root_literal>>
      BY <1>10, <2>2 DEF Initialize
    <3> QED
      BY <1>4, <1>5, <3>1, MapsMade DEF Clean, Tabled
  <2> QED
    BY <2>1, <2>2
<1>11. CASE FormatMap \/ WriteFileMap \/ DeleteMap
  <2>1. /\ disk_map' = SavedMap(cluster_map)
        /\ UNCHANGED <<boot_sector, disk, cluster_map, root_literal>>
    BY <1>11 DEF FormatMap, WriteFileMap, DeleteMap, volatile
  <2> QED
    BY <1>2, <1>4, <1>5, <2>1, UpwardSaved DEF Tabled
<1>12. CASE FormatRoot
  <2> DEFINE t == DirectoryTable(RootName, ROOT_CLUSTER_NUMBER, root_literal,
                                 ROOT_CLUSTER_NUMBER)
  <2>1. t \in Tables /\ Legible(t)
    BY <1>5, Ranges, DirectoryTableMade
  <2>2. /\ disk' = [disk EXCEPT ![ROOT_CLUSTER_NUMBER] = TableCluster(t)]
        /\ UNCHANGED <<boot_sector, disk_map, cluster_map, root_literal>>
    BY <1>12 DEF FormatRoot, volatile
  <2> HIDE DEF t
  <2> QED
    BY <1>2, <1>3, <2>1, <2>2, DiskPut, TableMade DEF Filled
<1>13. CASE SwitchOff \/ PowerLoss
  <2>1. /\ cluster_map' = ZeroMap /\ root_literal' = RootName
        /\ UNCHANGED <<boot_sector, disk_map, disk>>
    BY <1>13 DEF SwitchOff, PowerLoss, PowerOff, media
  <2> QED
    BY <1>4, <1>5, <2>1, MapsMade DEF Clean, Tabled, Stored
<1>14. CASE WriteFolder
  <2>1. PICK i \in Indices, c \in Cells :
           /\ CanWrite(i) /\ FirstEmptyCluster(c)
           /\ cluster_map' = WithName([cluster_map EXCEPT ![c] = FAT32_FAT_END_OF_FILE])
    BY <1>14 DEF WriteFolder
  <2>2. disk_map' = SavedMap(cluster_map') /\ Scribble /\ UNCHANGED <<boot_sector, disk>>
        /\ pc = "write"
    BY <1>14 DEF WriteFolder
  <2> DEFINE linked == [cluster_map EXCEPT ![c] = FAT32_FAT_END_OF_FILE]
  <2>c. c # 0
    <3>1. c \in Clusters
      BY <2>1, <2>2, CanWriteIndex, WriteFindsMarks, FreeIsCluster DEF Operations
    <3> QED
      BY <3>1, Ranges
  <2>3. linked \in [Cells -> Links] /\ Upward(linked)
    BY <1>5, <2>c, Ranges, UpwardCell DEF Leads
  <2>4. cluster_map' = [linked EXCEPT ![CLUSTER_MAP_SIZE] = NameWord]
    BY <2>1 DEF WithName
  <2> HIDE DEF linked
  <2>5. cluster_map' \in [Cells -> Links] /\ Upward(cluster_map')
    BY <2>3, <2>4, Ranges, UpwardCell DEF Leads
  <2>6. Parent[0].name \in Names \union {RootName}
    BY <1>6, <2>1, <2>2, CanWriteIndex DEF Legible, Resting
  <2>7. root_literal' \in {root_literal, Parent[0].name}
    BY <2>2 DEF Scribble
  <2>8. Clean
    BY <1>5, <2>2, <2>6, <2>7 DEF Clean, Stored
  <2>9. Tabled
    BY <2>2, <2>5, UpwardSaved DEF Tabled
  <2> QED
    BY <1>4, <2>2, <2>8, <2>9
<1>15. CASE WriteFolderTable
  <2> DEFINE t == DirectoryTable(request.name, local.cluster, ParentName, request.parent)
  <2>1. pc = "folder_table" /\ request \in Requests /\ local.cluster \in Clusters
    BY <1>15 DEF WriteFolderTable, Serving, Resting
  <2>2. ParentName \in Names \union {NoText, RootName}
    BY <1>5, <1>6, <2>1 DEF ParentName, Resting
  <2>3. t \in Tables /\ Legible(t)
    BY <2>1, <2>2, Ranges, RequestFields, DirectoryTableMade
  <2>4. /\ disk' = [disk EXCEPT ![local.cluster] = TableCluster(t)]
        /\ UNCHANGED <<boot_sector, disk_map, cluster_map, root_literal>>
    BY <1>15 DEF WriteFolderTable, volatile
  <2> HIDE DEF t
  <2> QED
    BY <1>2, <1>3, <2>3, <2>4, DiskPut, TableMade DEF Filled
<1>16. CASE WriteFolderParent \/ DeleteParent
  <2>1. /\ disk' = [disk EXCEPT ![request.parent] = TableCluster(local.table)]
        /\ UNCHANGED <<boot_sector, disk_map, cluster_map, root_literal>>
    BY <1>16 DEF WriteFolderParent, DeleteParent, volatile
  <2>2. local.table \in Tables /\ Legible(local.table)
    BY DEF Serving, Locals
  <2> QED
    BY <1>2, <1>3, <2>1, <2>2, DiskPut, TableMade DEF Filled
<1>17. CASE WriteFile
  <2>1. PICK i \in Indices, c \in Cells :
           /\ CanWrite(i) /\ FirstEmptyCluster(c)
           /\ disk' = [disk EXCEPT ![request.parent] = TableCluster(
                 [Parent EXCEPT ![i] = init_directory_entry(request.name, request.ext,
                                                            0, c, request.size)])]
    BY <1>17 DEF WriteFile
  <2> DEFINE e == init_directory_entry(request.name, request.ext, 0, c, request.size)
             t == [Parent EXCEPT ![i] = e]
  <2>2. pc = "write" /\ UNCHANGED <<boot_sector, disk_map, cluster_map, root_literal>>
    BY <1>17 DEF WriteFile, volatile
  <2>3. request \in Requests /\ Parent \in Tables /\ Legible(Parent)
    BY <1>6, <2>2 DEF Resting
  <2>4. e \in Entries /\ e.cluster \in Clusters
    <3>1. /\ request.name \in Names \union {NoText, RootName}
          /\ request.ext \in Exts \union {NoText} /\ request.size \in Sizes \union {0}
          /\ 0 \in {0, ATTR_SUBDIRECTORY}
      BY <2>3, RequestFields
    <3>2. c \in Clusters
      BY <2>1, <2>2, CanWriteIndex, WriteFindsMarks, FreeIsCluster DEF Operations
    <3>3. e.cluster = c
      BY DEF init_directory_entry
    <3>4. e \in Entries
      BY <3>1, EntryMade
    <3> QED
      BY <3>2, <3>3, <3>4
  <2> HIDE DEF e
  <2>5. t \in Tables /\ Legible(t)
    BY <2>1, <2>3, <2>4, CanWriteIndex, EntryPut
  <2>6. disk' = [disk EXCEPT ![request.parent] = TableCluster(t)]
    BY <2>1 DEF e
  <2> HIDE DEF t
  <2> QED
    BY <1>2, <1>3, <2>2, <2>5, <2>6, DiskPut, TableMade DEF Filled
<1>18. CASE WriteFilePart
  <2> DEFINE v == DataCluster(request.content, local.count)
  <2>1. /\ pc = "file_parts" /\ disk' = [disk EXCEPT ![local.cluster] = v]
        /\ UNCHANGED <<boot_sector, disk_map, root_literal>>
    BY <1>18 DEF WriteFilePart
  <2>2. request.content \in Contents /\ local.count \in Nat
    BY <2>1, RequestFields DEF Serving, Locals, Resting, WriteLabels
  <2>3. v \in [table : Tables, chunk : Chunks] /\ v.table = EmptyTable
    BY <2>2, EmptyMade DEF DataCluster, Chunks
  <2>4. Filled
    BY <2>1, <2>3, EmptyMade, DiskPut DEF Filled
  <2>5. cluster_map' \in [Cells -> Links] /\ Upward(cluster_map')
    <3>0. local.cluster # 0
      BY <2>1, Ranges DEF Serving
    <3>1. CASE cluster_map' = [cluster_map EXCEPT ![local.cluster] = FAT32_FAT_END_OF_FILE]
      BY <1>5, <3>0, <3>1, Ranges, UpwardCell DEF Leads
    <3>2. ASSUME NEW next \in Cells, NextEmptyCluster(local.cluster, next),
                 cluster_map' = [cluster_map EXCEPT ![local.cluster] = next]
          PROVE  cluster_map' \in [Cells -> Links] /\ Upward(cluster_map')
      <4>1. next \in Links /\ next > local.cluster
        BY <3>2, Ranges DEF NextEmptyCluster
      <4>2. local.cluster \in Int
        BY FAT32Assumption, SMT
           DEF Serving, Locals, Links, CLUSTER_0_VALUE, NameWord, FAT32_FAT_END_OF_FILE
      <4>3. next \in (local.cluster + 1)..CLUSTER_MAP_SIZE
        BY <4>1, <4>2, FAT32Assumption DEF Cells
      <4> QED
        BY <1>5, <3>0, <3>2, <4>1, <4>3, UpwardCell DEF Leads
    <3> QED
      BY <1>18, <3>1, <3>2 DEF WriteFilePart
  <2> QED
    BY <1>2, <1>5, <2>1, <2>4, <2>5 DEF Tabled, Clean, Stored
<1>19. CASE DeleteChain
  <2>1. CASE UNCHANGED <<media, volatile>>
    BY <1>2, <1>3, <1>4, <2>1 DEF media, volatile
  <2>2. CASE ~UNCHANGED <<media, volatile>>
    <3>1. /\ cluster_map' = [cluster_map EXCEPT ![local.cluster] = FAT32_FAT_EMPTY_ENTRY]
          /\ disk' = [disk EXCEPT ![local.cluster] = ZeroCluster]
          /\ UNCHANGED <<boot_sector, disk_map, root_literal>>
      BY <1>19, <2>2 DEF DeleteChain, media, volatile
    <3>2. Filled
      BY <3>1, EmptyMade, DiskPut DEF Filled
    <3>3. Tabled
      BY <1>5, <3>1, Ranges, UpwardCell DEF Tabled, Leads
    <3> QED
      BY <1>2, <3>1, <3>2, <3>3
  <2> QED
    BY <2>1, <2>2
<1>20. CASE DeleteLast
  <2>1. /\ cluster_map' = [cluster_map EXCEPT ![local.cluster] = FAT32_FAT_EMPTY_ENTRY]
        /\ disk' = [disk EXCEPT ![local.cluster] = ZeroCluster]
        /\ UNCHANGED <<boot_sector, disk_map, root_literal>>
    BY <1>20 DEF DeleteLast, Freed
  <2>2. Filled
    BY <2>1, EmptyMade, DiskPut DEF Filled
  <2>3. Tabled
    BY <1>5, <2>1, Ranges, UpwardCell DEF Tabled, Leads
  <2> QED
    BY <1>2, <2>1, <2>2, <2>3
<1>22. CASE DeleteBootSector
  <2>1. /\ cluster_map' = [cluster_map EXCEPT ![0] = FAT32_FAT_EMPTY_ENTRY]
        /\ boot_sector' = FALSE /\ UNCHANGED <<disk_map, disk, root_literal>>
    BY <1>22 DEF DeleteBootSector
  <2>2. Tabled
    BY <1>5, <2>1, Ranges, UpwardCell DEF Tabled, Leads
  <2> QED
    BY <1>4, <1>5, <2>1, <2>2 DEF Clean
<1>21. CASE \/ Call \/ read_directory \/ read \/ ReadChain \/ WriteRefused \/ Delete
            \/ ReadBootSector \/ FollowForeignWord \/ RunWild \/ Wild
  <2>1. UNCHANGED <<media, volatile>>
    BY <1>21 DEF Call, read_directory, read, ReadChain, WriteRefused, Delete,
                 ReadBootSector, FollowForeignWord, RunWild, Wild, vars
  <2> QED
    BY SMTT(30), <1>2, <1>3, <1>4, <2>1 DEF media, volatile
<1> QED
  BY <1>10, <1>11, <1>12, <1>13, <1>14, <1>15, <1>16, <1>17, <1>18, <1>19, <1>20, <1>21,
     <1>22 DEF Next, DriverStep

-----------------------------------------------------------------------------
(* The request in work.                                                     *)

\* The driver's local variables before a request.
LEMMA NoLocalTyped == NoLocal \in Locals /\ Legible(NoLocal.table)
<1>1. 0 \in Links /\ <<>> \in Seq(Chunks) /\ 0 \in Indices /\ 0 \in Nat
  BY Ranges DEF FAT32_FAT_EMPTY_ENTRY
<1> QED
  BY <1>1, EmptyMade DEF NoLocal, Locals

\* Returning an error code ends the request.
LEMMA ReturnServes ==
    ASSUME Serving, NEW code \in -1..2, Return(code)
    PROVE  Serving'
  BY NoLocalTyped DEF Serving, Return, Labels, Operations, Resting, WriteLabels

\* Going on with the next step of a request.
LEMMA GotoServes ==
    ASSUME Serving, pc \notin Resting \union {"wild"},
           NEW label \in Labels \ (Operations \union Resting), Goto(label),
           local' \in Locals, Legible(local'.table),
           label \in WriteLabels => request.op = "write",
           label \in {"file_parts", "file_map"} => request.size > 0,
           label \in {"folder_table", "file_parts", "delete_last"} => local'.cluster \in Clusters,
           label = "file_parts" => local'.count <= Part
    PROVE  Serving'
<1>1. pc' = label /\ UNCHANGED <<request, reply, power_losses>>
  BY DEF Goto
<1>2. Part' = Part
  BY <1>1 DEF Part
<1> QED
  BY <1>1, <1>2 DEF Serving

\* At every step the driver's local variables are what the next one needs.
LEMMA ServingStep ==
    ASSUME Stored, Serving, Marks, Next
    PROVE  Serving'
<1>1. /\ local \in Locals /\ Legible(local.table) /\ request \in Requests \union {NoRequest}
      /\ reply \in -1..2 /\ power_losses \in 0..MaxPowerLoss /\ MaxPowerLoss \in Nat
  BY FAT32Assumption DEF Serving
<1>2. pc \notin Resting \union {"wild"} =>
         /\ request \in Requests /\ Parent \in Tables /\ Legible(Parent)
         /\ \A i \in Indices : Parent[i].cluster \in Cells
  <2>1. \A e \in Entries : e.cluster \in Cells
    BY DEF Entries, Cells
  <2> QED
    BY <2>1, RequestFields, Ranges DEF Serving, Stored, Parent, Tables
<1>3. \A c \in Links : /\ [local EXCEPT !.cluster = c] \in Locals
                       /\ [local EXCEPT !.cluster = c].table = local.table
  BY <1>1 DEF Locals
<1>4. \A code \in -1..2 : Return(code) => Serving'
  BY ReturnServes
<1>5. -1 \in -1..2 /\ 0 \in -1..2 /\ 1 \in -1..2 /\ 2 \in -1..2
  OBVIOUS
<1>10. CASE Initialize
  BY <1>1, <1>10, NoLocalTyped
     DEF Initialize, Serving, Labels, Operations, Resting, WriteLabels
<1>11. CASE FormatMap \/ FormatRoot
  BY <1>1, <1>11 DEF FormatMap, FormatRoot, Serving, Labels, Operations, Resting, WriteLabels
<1>12. CASE SwitchOff \/ PowerLoss
  BY <1>1, <1>12, NoLocalTyped
     DEF SwitchOff, PowerLoss, PowerOff, Serving, Labels, Operations, Resting, WriteLabels
<1>13. CASE Call
  <2>1. PICK r \in Requests : request' = r /\ pc' = r.op
    BY <1>13 DEF Call
  <2>2. r.op \in Operations
    BY RequestFields
  <2>3. local = NoLocal /\ UNCHANGED <<local, power_losses>> /\ reply' = 0
    BY <1>13 DEF Call, Serving, Resting
  <2> QED
    BY <1>1, <2>1, <2>2, <2>3 DEF Serving, Labels, Operations, Resting, WriteLabels
<1>14. CASE read_directory
  <2>1. ASSUME NEW i, Return(IF i = DIRECTORY_ENTRIES THEN 2
                             ELSE IF Parent[i].attribute # ATTR_SUBDIRECTORY THEN 1 ELSE 0)
        PROVE  Serving'
    <3> DEFINE code == IF i = DIRECTORY_ENTRIES THEN 2
                       ELSE IF Parent[i].attribute # ATTR_SUBDIRECTORY THEN 1 ELSE 0
    <3>1. code \in -1..2 /\ Return(code)
      BY <2>1
    <3> HIDE DEF code
    <3> QED
      BY <1>4, <3>1
  <2> QED
    BY <1>4, <1>5, <1>14, <2>1 DEF read_directory
<1>15. CASE read
  <2>1. CASE \E code \in {-1, 1, 2} : Return(code)
    BY <1>4, <1>5, <2>1
  <2>2. CASE \E i \in Indices : /\ Goto("read_chain")
                                /\ local' = [local EXCEPT !.cluster = Parent[i].cluster]
    <3>1. PICK i \in Indices : /\ Goto("read_chain")
                               /\ local' = [local EXCEPT !.cluster = Parent[i].cluster]
      BY <2>2
    <3>2. pc = "read" /\ Parent[i].cluster \in Links
      BY <1>2, <1>15, Ranges DEF read, Resting
    <3>3. local' \in Locals /\ Legible(local'.table)
      BY <1>1, <1>3, <3>1, <3>2
    <3> QED
      BY <3>1, <3>2, <3>3, GotoServes DEF Labels, Operations, Resting, WriteLabels
  <2> QED
    BY <1>15, <2>1, <2>2 DEF read
<1>16. CASE ReadChain
  <2>1. CASE Return(0)
    BY <1>4, <1>5, <2>1
  <2>3. CASE /\ local.cluster \in Clusters /\ Goto("read_chain")
             /\ local' = [local EXCEPT !.out = Append(@, disk[local.cluster].chunk),
                                      !.cluster = cluster_map[local.cluster]]
    <3>1. disk[local.cluster].chunk \in Chunks /\ cluster_map[local.cluster] \in Links
      BY <2>3, Ranges DEF Stored
    <3>2. Append(local.out, disk[local.cluster].chunk) \in Seq(Chunks)
      BY <1>1, <3>1 DEF Locals
    <3>3. local' \in Locals /\ local'.table = local.table
      BY <1>1, <2>3, <3>1, <3>2 DEF Locals
    <3> QED
      BY <1>1, <1>16, <2>3, <3>3, GotoServes
         DEF ReadChain, Labels, Operations, Resting, WriteLabels
  <2> QED
    BY <1>16, <2>1, <2>3 DEF ReadChain
<1>17. CASE WriteRefused
  <2>1. \E code \in {-1, 1, 2} : Return(code)
    BY <1>17 DEF WriteRefused
  <2> QED
    BY <1>4, <1>5, <2>1
<1>18. CASE WriteFolder
  <2>1. PICK i \in Indices, c \in Cells :
           /\ CanWrite(i) /\ FirstEmptyCluster(c)
           /\ local' = [local EXCEPT !.cluster = c, !.table =
                 [Parent EXCEPT ![i] = init_directory_entry(request.name, request.ext,
                                                            ATTR_SUBDIRECTORY, c, 0)]]
    BY <1>18 DEF WriteFolder
  <2> DEFINE e == init_directory_entry(request.name, request.ext, ATTR_SUBDIRECTORY, c, 0)
             t == [Parent EXCEPT ![i] = e]
  <2>2. pc = "write" /\ Goto("folder_table")
    BY <1>18 DEF WriteFolder
  <2>3. request \in Requests /\ Parent \in Tables /\ Legible(Parent) /\ request.op = "write"
    BY <1>2, <2>2 DEF Serving, Resting, Operations
  <2>4. c \in Clusters /\ e \in Entries /\ e.cluster \in Clusters
    <3>1. /\ request.name \in Names \union {NoText, RootName}
          /\ request.ext \in Exts \union {NoText} /\ 0 \in Sizes \union {0}
          /\ ATTR_SUBDIRECTORY \in {0, ATTR_SUBDIRECTORY}
      BY <2>3, RequestFields
    <3>2. c \in Clusters
      BY <2>1, <2>2, CanWriteIndex, WriteFindsMarks, FreeIsCluster DEF Operations
    <3>3. e.cluster = c
      BY DEF init_directory_entry
    <3>4. e \in Entries
      BY <3>1, EntryMade
    <3> QED
      BY <3>2, <3>3, <3>4
  <2> HIDE DEF e
  <2>5. t \in Tables /\ Legible(t)
    BY <2>1, <2>3, <2>4, CanWriteIndex, EntryPut
  <2>6. local' = [local EXCEPT !.cluster = c, !.table = t]
    BY <2>1 DEF e
  <2> HIDE DEF t
  <2>7. local' \in Locals /\ local'.table = t /\ local'.cluster = c
    BY <1>1, <2>5, <2>6, Ranges DEF Locals
  <2> QED
    BY <2>2, <2>3, <2>4, <2>5, <2>7, GotoServes DEF Labels, Operations, Resting, WriteLabels
<1>19. CASE WriteFolderTable
  <2>1. pc = "folder_table" /\ Goto("folder_parent") /\ UNCHANGED local
    BY <1>19 DEF WriteFolderTable
  <2>2. request.op = "write"
    BY <2>1 DEF Serving, WriteLabels
  <2> QED
    BY <1>1, <2>1, <2>2, GotoServes DEF Labels, Operations, Resting, WriteLabels
<1>20. CASE WriteFolderParent \/ WriteFileMap \/ DeleteMap
  BY <1>4, <1>5, <1>20 DEF WriteFolderParent, WriteFileMap, DeleteMap
<1>21. CASE WriteFile
  <2>1. PICK i \in Indices, c \in Cells :
           /\ CanWrite(i) /\ FirstEmptyCluster(c)
           /\ local' = [local EXCEPT !.cluster = c]
    BY <1>21 DEF WriteFile
  <2>2. pc = "write" /\ request.size > 0 /\ Goto("file_parts")
    BY <1>21 DEF WriteFile
  <2>3. request \in Requests /\ request.op = "write" /\ local = NoLocal
    BY <1>2, <2>2 DEF Serving, Resting, Operations
  <2>4. /\ local' \in Locals /\ local'.table = local.table /\ local'.count = 0
        /\ local'.cluster = c
    BY <1>1, <1>3, <2>1, <2>3, Ranges DEF NoLocal
  <2>6. c \in Clusters
    BY <2>1, <2>2, CanWriteIndex, WriteFindsMarks, FreeIsCluster DEF Operations
  <2>5. 0 <= Part
    BY <2>2, <2>3, RequestFields, PartsCounted DEF Part
  <2> QED
    BY <1>1, <2>2, <2>3, <2>4, <2>5, <2>6, GotoServes DEF Labels, Operations, Resting, WriteLabels
<1>22. CASE WriteFilePart
  <2>1. pc = "file_parts" /\ request.op = "write" /\ request.size > 0 /\ request \in Requests
    BY <1>22 DEF WriteFilePart, Serving, WriteLabels, Resting
  <2>2. CASE UNCHANGED local /\ Goto("file_map")
    BY <1>1, <2>1, <2>2, GotoServes DEF Labels, Operations, Resting, WriteLabels
  <2>3. ASSUME NEW next \in Cells, local.count < Part, Goto("file_parts"),
               NextEmptyCluster(local.cluster, next),
               local' = [local EXCEPT !.cluster = next, !.count = @ + 1]
        PROVE  Serving'
    <3>1. NumberOfPartitions(request.size) \in Nat
      BY <2>1, RequestFields, PartsCounted
    <3>2. Part \in Int
      BY <3>1 DEF Part
    <3>3. local.count \in Nat /\ next \in Links
      BY <1>1, Ranges DEF Locals
    <3> DEFINE count == local.count + 1
    <3>4. count \in Nat /\ count <= Part
      BY <2>3, <3>2, <3>3
    <3>5. local' = [local EXCEPT !.cluster = next, !.count = count]
      BY <2>3
    <3> HIDE DEF count
    <3>6. /\ local' \in Locals /\ local'.table = local.table /\ local'.count = count
          /\ local'.cluster = next
      BY <1>1, <3>3, <3>4, <3>5 DEF Locals
    <3>7. next \in Clusters
      BY <2>1, <2>3, FAT32Assumption DEF NextEmptyCluster, Serving, Clusters, Cells
    <3> QED
      BY <1>1, <2>1, <2>3, <3>4, <3>6, <3>7, GotoServes DEF Labels, Operations, Resting, WriteLabels
  <2> QED
    BY <1>22, <2>2, <2>3 DEF WriteFilePart
<1>23. CASE Delete
  <2>1. CASE \E code \in {-1, 1, 2} : Return(code)
    BY <1>4, <1>5, <2>1
  <2>2. ASSUME NEW i \in Indices, Found(i),
               Goto("delete_last") \/ Goto("delete_chain"),
               local' = [local EXCEPT !.slot = i, !.cluster = Parent[i].cluster,
                                      !.table = Parent]
        PROVE  Serving'
    <3>1. /\ pc = "Delete" /\ Parent[i].cluster \in Links /\ Parent \in Tables
          /\ Legible(Parent)
      BY <1>2, <1>23, Ranges DEF Delete, Resting
    <3>2. local' \in Locals /\ Legible(local'.table) /\ local'.cluster = Parent[i].cluster
      BY <1>1, <2>2, <3>1 DEF Locals
    <3>3. Parent[i].name = request.name
      BY <2>2 DEF Found, FirstIndex, SameName
    <3>4. Parent[i].cluster \in Clusters
      BY <1>2, <3>1, <3>3, RequestFields, FAT32Assumption DEF Legible, Resting
    <3> QED
      BY SMTT(30), <2>2, <3>1, <3>2, <3>4, GotoServes DEF Labels, Operations, Resting, WriteLabels
  <2> QED
    BY <1>23, <2>1, <2>2 DEF Delete
<1>24. CASE DeleteChain
  <2>1. pc = "delete_chain" /\ local.cluster \in Clusters /\ cluster_map[local.cluster] \in Links
    BY <1>24, Ranges DEF DeleteChain, Stored
  <2>2. CASE UNCHANGED local /\ Goto("delete_last")
    BY <1>1, <2>1, <2>2, GotoServes DEF Serving, Labels, Operations, Resting, WriteLabels
  <2>3. CASE Goto("delete_chain") /\ local' = [local EXCEPT !.cluster = cluster_map[local.cluster]]
    <3>1. local' \in Locals /\ local'.table = local.table
      BY <1>3, <2>1, <2>3
    <3> QED
      BY <1>1, <2>1, <2>3, <3>1, GotoServes DEF Labels, Operations, Resting, WriteLabels
  <2> QED
    BY <1>24, <2>2, <2>3 DEF DeleteChain
<1>27. CASE ReadBootSector \/ DeleteBootSector \/ FollowForeignWord
  <2>1. PICK v \in Links : local' = [local EXCEPT !.cluster = v]
    <3>1. 0 \in Links /\ cluster_map[0] \in Links
      BY Ranges, FAT32Assumption DEF Stored, Cells
    <3> QED
      BY <1>27, <3>1 DEF ReadBootSector, DeleteBootSector, FollowForeignWord
  <2>2. pc \in {"read_chain", "delete_chain"} /\ Goto(pc)
    BY <1>27 DEF ReadBootSector, DeleteBootSector, FollowForeignWord
  <2>3. local' \in Locals /\ local'.table = local.table
    BY <1>3, <2>1
  <2>4. PICK label \in {"read_chain", "delete_chain"} : label = pc /\ Goto(label)
    BY <2>2
  <2> QED
    BY <1>1, <2>3, <2>4, GotoServes DEF Labels, Operations, Resting, WriteLabels
<1>28. CASE RunWild
  BY <1>1, <1>28, GotoServes DEF RunWild, Labels, Operations, Resting, WriteLabels
<1>29. CASE Wild
  BY <1>29 DEF Wild, vars, call, Serving, Part
<1>25. CASE DeleteLast
  <2>1. /\ pc = "delete_last" /\ Goto("delete_parent")
        /\ local' = [local EXCEPT !.table[local.slot] = EmptyEntry]
    BY <1>25 DEF DeleteLast
  <2> DEFINE t == [local.table EXCEPT ![local.slot] = EmptyEntry]
  <2>2. t \in Tables /\ Legible(t)
    BY <1>1, EmptyMade, EntryPut DEF Locals
  <2>3. local' = [local EXCEPT !.table = t]
    BY <2>1
  <2> HIDE DEF t
  <2>4. local' \in Locals /\ local'.table = t
    BY <1>1, <2>2, <2>3 DEF Locals
  <2> QED
    BY <2>1, <2>2, <2>4, GotoServes DEF Labels, Operations, Resting, WriteLabels
<1>26. CASE DeleteParent
  BY <1>1, <1>26, GotoServes DEF DeleteParent, Labels, Operations, Resting, WriteLabels
<1> QED
  BY <1>10, <1>11, <1>12, <1>13, <1>14, <1>15, <1>16, <1>17, <1>18, <1>19, <1>20, <1>21,
     <1>22, <1>23, <1>24, <1>25, <1>26, <1>27, <1>28, <1>29 DEF Next, DriverStep

-----------------------------------------------------------------------------
(* The table in memory and the table on disk.                               *)

\* Whoever changes the driver's table writes it before the request returns.
LEMMA MirroredStep ==
    ASSUME Stored, Serving, Mirrored, Next
    PROVE  Mirrored'
<1>1. CASE Initialize
  <2>1. CASE boot_sector
    <3>1. /\ cluster_map' = [c \in Cells |-> IF c \in DOMAIN disk_map THEN disk_map[c] ELSE 0]
          /\ UNCHANGED disk_map
      BY <1>1, <2>1 DEF Initialize
    <3> QED
      BY <3>1, Ranges DEF Mirrored, SavedMap, Stored
  <2>2. CASE ~boot_sector
    BY <1>1, <2>2 DEF Initialize, Mirrored, Operations
  <2> QED
    BY <2>1, <2>2
<1>2. CASE FormatMap \/ WriteFileMap \/ DeleteMap
  BY <1>2 DEF FormatMap, WriteFileMap, DeleteMap, volatile, Mirrored
<1>3. CASE FormatRoot
  BY <1>3 DEF FormatRoot, volatile, Mirrored
<1>4. CASE SwitchOff \/ PowerLoss
  BY <1>4 DEF SwitchOff, PowerLoss, PowerOff, Mirrored, Operations
<1>5. CASE Call
  BY <1>5, RequestFields DEF Call, media, volatile, Mirrored
<1>6. CASE read_directory \/ read \/ WriteRefused
  BY <1>6 DEF read_directory, read, WriteRefused, Return, Goto, media, volatile, Mirrored,
              Operations
<1>7. CASE ReadChain \/ ReadBootSector
  BY <1>7 DEF ReadChain, ReadBootSector, Return, Goto, media, volatile, Mirrored, Operations
<1>8. CASE WriteFolder
  BY <1>8 DEF WriteFolder, Mirrored
<1>9. CASE WriteFolderTable \/ WriteFolderParent
  BY <1>9 DEF WriteFolderTable, WriteFolderParent, Return, Goto, volatile, Mirrored
<1>10. CASE WriteFile \/ WriteFilePart
  BY <1>10 DEF WriteFile, WriteFilePart, Goto, Mirrored, Operations
<1>11. CASE Delete
  BY <1>11 DEF Delete, Return, Goto, media, volatile, Mirrored, Operations
<1>12. CASE DeleteChain \/ DeleteLast \/ DeleteParent
  BY <1>12 DEF DeleteChain, DeleteLast, DeleteParent, Goto, Mirrored, Operations
<1>13. CASE DeleteBootSector \/ RunWild
  BY <1>13 DEF DeleteBootSector, RunWild, Goto, Mirrored, Operations
<1>14. CASE FollowForeignWord \/ Wild
  BY <1>14 DEF FollowForeignWord, Wild, vars, call, Goto, media, volatile, Mirrored, Operations
<1> QED
  BY <1>1, <1>2, <1>3, <1>4, <1>5, <1>6, <1>7, <1>8, <1>9, <1>10, <1>11, <1>12, <1>13, <1>14
     DEF Next, DriverStep

\* A loop that has left the disk does not come back to it.
LEMMA StaysAstray ==
    ASSUME Stored, Serving, ReadBootSector \/ DeleteBootSector \/ FollowForeignWord
    PROVE  Astray'
<1>1. PICK v \in {FAT32_FAT_EMPTY_ENTRY, CLUSTER_0_VALUE} : local' = [local EXCEPT !.cluster = v]
  <2>1. 0 \in Cells
    BY FAT32Assumption DEF Cells
  <2>2. Leads(0, cluster_map[0])
    BY <2>1 DEF Stored, Upward
  <2>3. cluster_map[0] \in {FAT32_FAT_EMPTY_ENTRY, CLUSTER_0_VALUE}
    BY <2>2, FAT32Assumption DEF Leads
  <2> QED
    BY <2>3, Ranges DEF ReadBootSector, DeleteBootSector, FollowForeignWord
<1>2. pc' \in {"read_chain", "delete_chain"}
  BY DEF ReadBootSector, DeleteBootSector, FollowForeignWord, Goto
<1>3. local'.cluster = v
  BY <1>1 DEF Serving, Locals
<1> QED
  BY <1>2, <1>3, Ranges DEF Astray

\* The first two cells keep their marks.
LEMMA MarksStep ==
    ASSUME Stored, Serving, Mirrored, Marks, Next
    PROVE  Marks'
<1>1. \A c \in Clusters : \A v : Marked(cluster_map) => Marked([cluster_map EXCEPT ![c] = v])
  BY FAT32Assumption DEF Marked, Stored, Clusters, Cells
<1>2. Marked(cluster_map) <=> Marked(SavedMap(cluster_map))
  BY FAT32Assumption DEF Marked, SavedMap
<1>3. Marked(disk_map) /\ Marked(cluster_map) /\ UNCHANGED <<disk_map, cluster_map>> => Marks'
  BY DEF Marks, Marked
<1>4. CASE Initialize
  <2>1. CASE boot_sector
    <3>1. /\ cluster_map' = [c \in Cells |-> IF c \in DOMAIN disk_map THEN disk_map[c] ELSE 0]
          /\ UNCHANGED <<disk_map, disk>> /\ pc' = "idle"
      BY <1>4, <2>1 DEF Initialize
    <3>2. Marked(disk_map) => Marked(cluster_map')
      BY <3>1, FAT32Assumption DEF Marked, Stored, Cells
    <3> QED
      BY <3>1, <3>2 DEF Marks, Marked, Blank, Operations
  <2>2. CASE ~boot_sector
    <3>1. cluster_map' = FormattedMap /\ UNCHANGED <<disk_map, disk>> /\ pc' = "format_map"
      BY <1>4, <2>2 DEF Initialize
    <3>2. FormattedMap[0] = CLUSTER_0_VALUE /\ FormattedMap[1] = CLUSTER_1_VALUE
      <4>1. 0 \in Cells /\ 1 \in Cells /\ 0 # CLUSTER_MAP_SIZE /\ 1 # CLUSTER_MAP_SIZE
            /\ 0 # ROOT_CLUSTER_NUMBER /\ 1 # ROOT_CLUSTER_NUMBER
        BY FAT32Assumption DEF Cells, ROOT_CLUSTER_NUMBER
      <4> QED
        BY <4>1 DEF FormattedMap, WithName
    <3>3. CLUSTER_0_VALUE # FAT32_FAT_EMPTY_ENTRY /\ CLUSTER_1_VALUE # FAT32_FAT_EMPTY_ENTRY
      BY SMT DEF CLUSTER_0_VALUE, CLUSTER_1_VALUE, FAT32_FAT_EMPTY_ENTRY
    <3> QED
      BY <3>1, <3>2, <3>3 DEF Marks, Marked, Blank, Operations
  <2> QED
    BY <2>1, <2>2
<1>5. CASE FormatMap
  BY <1>2, <1>5 DEF FormatMap, volatile, Marks, Marked, Operations
<1>6. CASE FormatRoot
  BY <1>3, <1>6 DEF FormatRoot, volatile, Marks, Operations
<1>7. CASE SwitchOff \/ PowerLoss
  BY <1>7 DEF SwitchOff, PowerLoss, PowerOff, media, Marks, Marked, Blank, Operations
<1>8. CASE Call
  <2>1. pc = "idle" /\ pc' \in Operations /\ UNCHANGED <<disk_map, disk, cluster_map>>
    BY <1>8, RequestFields DEF Call, media, volatile
  <2> QED
    BY <2>1 DEF Marks, Marked, Blank, Operations
<1>9. CASE read_directory \/ read \/ WriteRefused \/ Delete
  <2>1. pc \in Operations /\ UNCHANGED <<disk_map, disk, cluster_map>>
    BY ZenonT(40), <1>9 DEF read_directory, read, WriteRefused, Delete, media, volatile, Operations
  <2>2. pc' = "idle" \/ IsFolder(Parent)
    BY <1>9 DEF read_directory, read, WriteRefused, Delete, Return
  <2>3. CASE pc' = "idle"
    BY <2>1, <2>3 DEF Marks, Marked, Blank, Operations
  <2>4. CASE IsFolder(Parent)
    BY <1>3, <2>1, <2>4, WriteFindsMarks
  <2> QED
    BY SMTT(30), <2>2, <2>3, <2>4
<1>10. CASE ReadChain \/ ReadBootSector
  BY <1>3, <1>10 DEF ReadChain, ReadBootSector, media, volatile, Marks, Operations
<1>11. CASE WriteFolder
  <2>1. PICK i \in Indices, c \in Cells :
           /\ CanWrite(i) /\ FirstEmptyCluster(c)
           /\ cluster_map' = WithName([cluster_map EXCEPT ![c] = FAT32_FAT_END_OF_FILE])
    BY <1>11 DEF WriteFolder
  <2>2. pc = "write" /\ pc' = "folder_table" /\ disk_map' = SavedMap(cluster_map')
    BY <1>11 DEF WriteFolder, Goto
  <2>3. c \in Clusters /\ Marked(cluster_map)
    BY <2>1, <2>2, CanWriteIndex, WriteFindsMarks, FreeIsCluster DEF Operations
  <2>4. Marked(cluster_map')
    BY <2>1, <2>3, FAT32Assumption DEF WithName, Marked, Stored, Clusters, Cells
  <2>5. Marked(disk_map')
    BY <2>2, <2>4, FAT32Assumption DEF Marked, SavedMap
  <2> QED
    BY <2>2, <2>4, <2>5 DEF Marks, Marked, Operations
<1>12. CASE WriteFolderTable \/ WriteFolderParent \/ DeleteParent
  BY <1>3, <1>12 DEF WriteFolderTable, WriteFolderParent, DeleteParent, volatile, Marks,
                     Operations
<1>13. CASE WriteFile
  <2>1. pc = "write" /\ UNCHANGED <<disk_map, cluster_map>> /\ \E i \in Indices : CanWrite(i)
    BY <1>13 DEF WriteFile, volatile
  <2> QED
    BY <1>3, <2>1, CanWriteIndex, WriteFindsMarks DEF Operations
<1>14. CASE WriteFilePart
  <2>1. pc = "file_parts" /\ pc' \in {"file_parts", "file_map"} /\ UNCHANGED disk_map
    BY <1>14 DEF WriteFilePart, Goto
  <2>2. PICK v : cluster_map' = [cluster_map EXCEPT ![local.cluster] = v]
    BY <1>14 DEF WriteFilePart
  <2>3. local.cluster \in Clusters /\ Marked(cluster_map) /\ Marked(disk_map)
    BY <2>1 DEF Serving, Marks, Operations
  <2>4. Marked(cluster_map')
    BY <1>1, <2>2, <2>3
  <2> QED
    BY <2>1, <2>3, <2>4 DEF Marks, Marked, Operations
<1>15. CASE DeleteChain
  <2>0. Marked(cluster_map) /\ Marked(disk_map)
    BY <1>15 DEF DeleteChain, Marks, Operations, Astray
  <2>1. CASE UNCHANGED <<disk_map, cluster_map>>
    BY <1>3, <2>0, <2>1
  <2>2. CASE cluster_map' = [cluster_map EXCEPT ![local.cluster] = FAT32_FAT_EMPTY_ENTRY]
             /\ pc' = "delete_chain" /\ UNCHANGED disk_map
    <3>1. Marked(cluster_map') /\ Marked(disk_map)
      BY <1>1, <1>15, <2>0, <2>2 DEF DeleteChain
    <3> QED
      BY <2>2, <3>1 DEF Marks, Marked, Operations
  <2> QED
    BY <1>15, <2>1, <2>2 DEF DeleteChain, Goto
<1>16. CASE DeleteLast
  <2>1. /\ pc = "delete_last" /\ pc' = "delete_parent" /\ UNCHANGED disk_map
        /\ cluster_map' = [cluster_map EXCEPT ![local.cluster] = FAT32_FAT_EMPTY_ENTRY]
    BY <1>16 DEF DeleteLast, Freed, Goto
  <2>2. Marked(cluster_map') /\ Marked(disk_map)
    BY <1>1, <2>1 DEF Serving, Marks, Operations
  <2> QED
    BY <2>1, <2>2 DEF Marks, Marked, Operations
<1>17. CASE WriteFileMap \/ DeleteMap
  BY <1>2, <1>17 DEF WriteFileMap, DeleteMap, Return, volatile, Marks, Marked, Operations
<1>18. CASE DeleteBootSector
  <2>1. pc = "delete_chain" /\ pc' = "delete_chain" /\ UNCHANGED disk_map
    BY <1>18 DEF DeleteBootSector, Goto
  <2> QED
    BY <1>18, <2>1, StaysAstray DEF Marks, Marked, Operations
<1>19. CASE FollowForeignWord
  <2>1. pc \in {"read_chain", "delete_chain"} /\ pc' = pc /\ UNCHANGED <<disk_map, cluster_map>>
    BY <1>19 DEF FollowForeignWord, Goto, media, volatile
  <2> QED
    BY <1>19, <2>1, StaysAstray DEF Marks, Marked, Operations
<1>20. CASE RunWild \/ Wild
  <2>1. pc' = "wild" /\ UNCHANGED <<disk_map, disk>>
    BY <1>20 DEF RunWild, Wild, Goto, vars, call, media
  <2> QED
    BY <2>1 DEF Marks, Marked, Blank, Operations
<1> QED
  BY <1>4, <1>5, <1>6, <1>7, <1>8, <1>9, <1>10, <1>11, <1>12, <1>13, <1>14, <1>15, <1>16, <1>17,
     <1>18, <1>19, <1>20 DEF Next, DriverStep

-----------------------------------------------------------------------------
(* The theorems.                                                            *)

\* The machine before it is first switched on.
LEMMA DriverInit == Init => DriverInv
<1> SUFFICES ASSUME Init PROVE DriverInv
  OBVIOUS
<1>1. Stored
  <2>1. disk_map \in [0..(CLUSTER_MAP_SIZE - 1) -> Links] /\ Upward(disk_map)
    BY Ranges DEF Init, Upward, Leads, FAT32_FAT_EMPTY_ENTRY
  <2> QED
    BY <2>1, EmptyMade, MapsMade DEF Init, Stored
<1>2. Serving
  BY NoLocalTyped, FAT32Assumption
     DEF Init, Serving, Labels, Operations, Resting, WriteLabels
<1>3. Mirrored
  BY DEF Init, Mirrored, Operations
<1>4. Marks
  <2>1. ~IsFolder(EmptyTable)
    BY EmptyMade, Ranges DEF IsFolder, EmptyTable
  <2> QED
    BY <2>1, EmptyMade DEF Init, Marks, Blank, Operations
<1> QED
  BY <1>1, <1>2, <1>3, <1>4 DEF DriverInv

\* Steps of the driver keep its invariant.
LEMMA DriverNext == DriverInv /\ [Next]_vars => DriverInv'
<1>1. CASE DriverInv /\ Next
  BY <1>1, StoredStep, ServingStep, MirroredStep, MarksStep DEF DriverInv
<1>2. CASE DriverInv /\ UNCHANGED vars
  BY <1>2 DEF DriverInv, vars, media, volatile, call, Stored, Serving, Mirrored, Marks,
              Marked, Blank, Part, Astray
<1> QED
  BY <1>1, <1>2

\* The driver's invariant holds, whichever requests come and whenever the power fails.
THEOREM DriverCorrect == Spec => []DriverInv
  BY DriverInit, DriverNext, PTL DEF Spec

\* The variables keep their shape, power losses included, also while a loop goes round
\* through cluster 0 (fat32.c:197, 328).  Nothing is said of what follows RunWild.
THEOREM DriverTypeCorrect == Spec => []TypeOK
<1>1. DriverInv => TypeOK
  BY DEF DriverInv, Stored, Serving, Locals, TypeOK
<1> QED
  BY <1>1, DriverCorrect, PTL

\* Between requests the table in memory is the table on disk: switching off then
\* loses nothing.
THEOREM MapMirroredHolds == Spec => []MapMirrored
<1>1. DriverInv => MapMirrored
  BY DEF DriverInv, Mirrored, MapMirrored
<1> QED
  BY <1>1, DriverCorrect, PTL

\* No chain of clusters loops back, in memory or on disk, however many requests were
\* cut off by a power loss.
THEOREM ChainsAscendHolds == Spec => []ChainsAscend
<1>1. DriverInv => ChainsAscend
  <2> SUFFICES ASSUME DriverInv PROVE ChainsAscend
    OBVIOUS
  <2>1. Upward(cluster_map) /\ Upward(disk_map) /\ cluster_map \in [Cells -> Links]
        /\ disk_map \in [0..(CLUSTER_MAP_SIZE - 1) -> Links]
    BY DEF DriverInv, Stored
  <2>2. \A c \in 3..(CLUSTER_MAP_SIZE - 1) :
           c \in Cells /\ c \in 0..(CLUSTER_MAP_SIZE - 1) /\ c # 0 /\ c # CLUSTER_MAP_SIZE
    BY FAT32Assumption DEF Cells
  <2> QED
    BY <2>1, <2>2 DEF Upward, Leads, ChainsAscend, Ascends
<1> QED
  BY <1>1, DriverCorrect, PTL

\* A cell of the table leads on to a later cluster, to the end of a file, or astray
\* if the chain was cut off.
LEMMA NextCell ==
    ASSUME Stored, NEW c \in Clusters
    PROVE  /\ cluster_map[c] \in Clusters => cluster_map[c] > c
           /\ cluster_map[c] \notin Clusters \union {FAT32_FAT_END_OF_FILE} => CutOff(c)
<1>1. Leads(c, cluster_map[c])
  BY Ranges DEF Stored, Upward
<1>2. c \in Int /\ c > 1 /\ CLUSTER_MAP_SIZE \in Int
  BY FAT32Assumption DEF Clusters
<1>3. NameWord \notin Clusters /\ CLUSTER_0_VALUE \notin Clusters /\ FAT32_FAT_EMPTY_ENTRY \notin Clusters
      /\ FAT32_FAT_END_OF_FILE \notin Clusters
  BY Ranges
<1>4. (c + 1)..CLUSTER_MAP_SIZE \subseteq Clusters /\ \A v \in (c + 1)..CLUSTER_MAP_SIZE : v > c
  BY <1>2 DEF Clusters
<1> QED
  BY <1>1, <1>2, <1>3, <1>4 DEF Leads, CutOff

\* One round of a loop over a chain: one cluster further, or astray.
LEMMA ChainRound ==
    ASSUME Stored, Serving, Busy', local.cluster \in Clusters,
           pc \in {"read_chain", "delete_chain"}, pc' = pc,
           local'.cluster = cluster_map[local.cluster]
    PROVE  IF Astray' THEN CutOff(local.cluster) ELSE 0 <= Rounds' /\ Rounds' < Rounds
<1>1. /\ local.cluster \in Int /\ local.cluster > 1 /\ local.cluster <= CLUSTER_MAP_SIZE
      /\ CLUSTER_MAP_SIZE \in Int
  BY FAT32Assumption DEF Clusters
<1>2. Astray' => CutOff(local.cluster)
  BY NextCell DEF Astray
<1>3. local'.cluster \in Clusters => local'.cluster > local.cluster
  BY NextCell
<1>4. Rounds = CLUSTER_MAP_SIZE + 1 - local.cluster
  BY DEF Rounds
<1>5. Rounds' = IF local'.cluster \in Clusters THEN CLUSTER_MAP_SIZE + 1 - local'.cluster ELSE 0
  BY DEF Rounds
<1> QED
  BY <1>1, <1>2, <1>3, <1>4, <1>5 DEF Clusters

\* Every step of a request leaves fewer phases, or fewer rounds of the same loop,
\* unless it follows a chain that was cut off.
LEMMA ProgressStep ==
    ASSUME Stored, Serving, Next, Busy, Busy'
    PROVE  IF Astray' THEN Astray \/ CutOff(local.cluster)
           ELSE Phases' < Phases \/ (pc' = pc /\ 0 <= Rounds' /\ Rounds' < Rounds)
<1>1. /\ pc \in Operations => Phases = 5
      /\ pc = "delete_chain" => Phases = 4
      /\ pc = "delete_last" => Phases = 3
      /\ pc \in {"format_map", "folder_table", "file_parts", "delete_parent"} => Phases = 2
  BY DEF Phases, Operations
<1>2. /\ pc' = "delete_chain" => Phases' = 4
      /\ pc' = "delete_last" => Phases' = 3
      /\ pc' \in {"folder_table", "file_parts", "delete_parent"} => Phases' = 2
      /\ pc' \in {"format_root", "read_chain", "folder_parent", "file_map", "delete_map"} =>
            Phases' = 1
  BY DEF Phases, Operations
<1>3. pc' \notin {"idle", "off"}
  BY DEF Busy
<1>4. pc' \notin {"wild", "read_chain", "delete_chain"} => ~Astray'
  BY DEF Astray
<1>5. CASE FormatMap \/ FormatRoot
  BY <1>1, <1>2, <1>3, <1>4, <1>5 DEF FormatMap, FormatRoot
<1>6. CASE read_directory \/ WriteRefused \/ WriteFolderParent \/ WriteFileMap \/ DeleteMap
  BY <1>3, <1>6 DEF read_directory, WriteRefused, WriteFolderParent, WriteFileMap, DeleteMap,
                    Return
<1>7. CASE read \/ Delete
  <2>1. /\ pc \in Operations /\ pc' \in {"read_chain", "delete_chain", "delete_last"}
        /\ \E i \in Indices : Found(i) /\ local'.cluster = Parent[i].cluster
    BY <1>3, <1>7 DEF read, Delete, Return, Goto, Operations, Serving, Locals
  <2>2. PICK i \in Indices : Found(i) /\ local'.cluster = Parent[i].cluster
    BY <2>1
  <2>3. request \in Requests /\ Legible(Parent)
    BY <2>1, RequestFields DEF Serving, Stored, Parent, Operations, Resting
  <2>4. Parent[i].name = request.name /\ request.name # NoText
    BY <2>2, <2>3, RequestFields, FAT32Assumption DEF Found, FirstIndex, SameName
  <2>5. local'.cluster \in Clusters
    BY <2>2, <2>3, <2>4 DEF Legible
  <2>6. ~Astray' /\ Phases' < Phases
    BY SMTT(30), <1>1, <1>2, <2>1, <2>5 DEF Astray
  <2> QED
    BY <2>6
<1>8. CASE ReadChain
  <2>1. /\ pc = "read_chain" /\ pc' = pc /\ local.cluster \in Clusters
        /\ local' = [local EXCEPT !.out = Append(@, disk[local.cluster].chunk),
                                 !.cluster = cluster_map[local.cluster]]
    BY <1>3, <1>8 DEF ReadChain, Return, Goto
  <2>2. local'.cluster = cluster_map[local.cluster]
    BY <2>1 DEF Serving, Locals
  <2> QED
    BY <2>1, <2>2, ChainRound
<1>9. CASE WriteFolder \/ WriteFolderTable \/ WriteFile
  <2>1. \/ pc = "write" /\ pc' \in {"folder_table", "file_parts"}
        \/ pc = "folder_table" /\ pc' = "folder_parent"
    BY <1>9 DEF WriteFolder, WriteFolderTable, WriteFile, Goto
  <2> QED
    BY <1>1, <1>2, <1>4, <2>1 DEF Operations
<1>10. CASE WriteFilePart
  <2>1. pc = "file_parts" /\ request \in Requests /\ UNCHANGED request
    BY <1>10 DEF WriteFilePart, Goto, Serving, Resting, Operations
  <2>2. CASE pc' = "file_map"
    BY <1>1, <1>2, <1>4, <2>1, <2>2
  <2>3. CASE /\ pc' = "file_parts" /\ local.count < Part
             /\ \E next : local' = [local EXCEPT !.cluster = next, !.count = @ + 1]
    <3>1. NumberOfPartitions(request.size) \in Nat
      BY <2>1, RequestFields, PartsCounted
    <3>2. Part \in Int /\ Part' = Part
      BY <2>1, <3>1 DEF Part
    <3>3. local.count \in Nat /\ local'.count = local.count + 1
      BY <2>3 DEF Serving, Locals
    <3>4. Rounds = Part - local.count /\ Rounds' = Part' - local'.count
      BY <2>1, <2>3 DEF Rounds
    <3> QED
      BY <1>4, <2>1, <2>3, <3>2, <3>3, <3>4
  <2> QED
    BY <1>10, <2>2, <2>3 DEF WriteFilePart, Goto
<1>11. CASE DeleteChain
  <2>0. pc = "delete_chain" /\ local.cluster \in Clusters
    BY <1>11 DEF DeleteChain
  <2>1. CASE pc' = "delete_last"
    BY <1>1, <1>2, <1>4, <2>0, <2>1
  <2>2. CASE pc' = pc /\ local' = [local EXCEPT !.cluster = cluster_map[local.cluster]]
    <3>1. local'.cluster = cluster_map[local.cluster]
      BY <2>2 DEF Serving, Locals
    <3> QED
      BY <2>0, <2>2, <3>1, ChainRound
  <2> QED
    BY <1>11, <2>1, <2>2 DEF DeleteChain, Goto
<1>12. CASE DeleteLast \/ DeleteParent
  BY <1>1, <1>2, <1>4, <1>12 DEF DeleteLast, DeleteParent, Goto
<1>13. CASE Initialize \/ Call \/ SwitchOff \/ PowerLoss
  BY <1>3, <1>13 DEF Initialize, Call, SwitchOff, PowerLoss, PowerOff, Busy
<1>14. CASE ReadBootSector \/ DeleteBootSector \/ FollowForeignWord \/ RunWild \/ Wild
  <2>1. Astray
    BY <1>14, Ranges DEF Astray, ReadBootSector, DeleteBootSector, FollowForeignWord, RunWild, Wild
  <2>2. Astray'
    BY <1>14, StaysAstray DEF Astray, RunWild, Wild, vars, call, Goto
  <2> QED
    BY <2>1, <2>2
<1> QED
  BY <1>5, <1>6, <1>7, <1>8, <1>9, <1>10, <1>11, <1>12, <1>13, <1>14 DEF Next, DriverStep

\* Each step of a request or of a format brings its end closer, on whatever disk a
\* power loss has left, unless a loop over a chain meets a free cell and goes astray.
THEOREM RequestsProgressHolds == Spec => RequestsProgress
<1>1. DriverInv /\ [Next]_vars =>
         [Busy /\ Busy' =>
             IF Astray' THEN Astray \/ CutOff(local.cluster)
             ELSE \/ Phases' < Phases
                  \/ pc' = pc /\ 0 <= Rounds' /\ Rounds' < Rounds]_vars
  BY ProgressStep DEF DriverInv
<1> QED
  BY <1>1, DriverCorrect, PTL DEF Spec, RequestsProgress

=============================================================================
