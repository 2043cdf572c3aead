-------------------------------- MODULE FAT32 --------------------------------
(***************************************************************************)
(* The FAT32 driver (src/src/fat32.c) and the disk under it.               *)
(*                                                                         *)
(* Every cluster the driver writes is a step of its own, because that is   *)
(* where a power loss can separate what it does.  Between two requests the *)
(* machine may be switched off and on again: the driver then re-reads the  *)
(* allocation table, or formats a disk without a signature.                *)
(*                                                                         *)
(* A cluster holds a directory table and a chunk of file data; a cluster   *)
(* of one kind is empty as the other.  A chunk is <<content, position>>.   *)
(* A name is an opaque value.                                              *)
(***************************************************************************)
EXTENDS Integers, Sequences, FiniteSets

CONSTANTS CLUSTER_MAP_SIZE,  \* cells of the allocation table
          CLUSTER_SIZE,      \* bytes in a cluster
          DIRECTORY_ENTRIES, \* CLUSTER_SIZE / sizeof(struct FAT32DirectoryEntry)
          Names, Exts,       \* names and extensions in requests
          Sizes,             \* values of buffer_size
          Contents,          \* what a buffer may hold
          MaxPowerLoss,      \* bound on power losses in the middle of a request
          Hazards            \* subset of {"own_name", "overrun"}: see Careful

CLUSTER_0_VALUE       == 268435440     \* 0x0FFFFFF0
CLUSTER_1_VALUE       == 268435455     \* 0x0FFFFFFF
FAT32_FAT_END_OF_FILE == 268435455
FAT32_FAT_EMPTY_ENTRY == 0
ROOT_CLUSTER_NUMBER   == 2
ATTR_SUBDIRECTORY     == 16
NoText                == ""            \* a name or an extension of zero bytes

ASSUME FAT32Assumption ==
    /\ CLUSTER_MAP_SIZE \in Nat /\ CLUSTER_MAP_SIZE > 3
    /\ CLUSTER_MAP_SIZE < CLUSTER_0_VALUE
    /\ CLUSTER_SIZE \in Nat \ {0}
    /\ DIRECTORY_ENTRIES \in Nat /\ DIRECTORY_ENTRIES > 2
    /\ NoText \notin Names
    /\ Sizes \subseteq Nat
    /\ MaxPowerLoss \in Nat

Clusters == 2..CLUSTER_MAP_SIZE        \* the last one is past the table
Indices  == 0..(DIRECTORY_ENTRIES - 1)
Cells    == 0..CLUSTER_MAP_SIZE        \* see cluster_map
RootName == "root"

VARIABLES boot_sector,  \* does the disk carry fs_signature?
          disk_map,     \* the allocation table on disk (cluster 1)
          disk,         \* the other clusters
          cluster_map,  \* fat32_driver_state.fat_table, and one cell more: the
                        \* first word of dir_table_buf, which follows it
          root_literal, \* the string literal "root" of init_directory_table
          pc,           \* what the driver is doing
          request,      \* the request it serves
          local,        \* its local variables
          reply,        \* the error code of the last request
          power_losses  \* how often the power failed during a request

media    == <<boot_sector, disk_map, disk>>
volatile == <<cluster_map, root_literal>>
call     == <<pc, request, local, reply>>
vars     == <<media, volatile, call, power_losses>>

-----------------------------------------------------------------------------
(* Directory entries and tables.                                            *)

SlipEntry(name, ext, attribute, cluster, filesize) ==
    [name |-> name, ext |-> ext, attribute |-> attribute, used |-> TRUE,
     cluster |-> filesize, filesize |-> cluster]

init_directory_entry(name, ext, attribute, cluster, filesize) ==
    [name |-> name, ext |-> ext, attribute |-> attribute, used |-> TRUE,
     cluster |-> cluster, filesize |-> filesize]

EmptyEntry == [name |-> NoText, ext |-> NoText, attribute |-> 0, used |-> FALSE,
               cluster |-> 0, filesize |-> 0]
EmptyTable == [i \in Indices |-> EmptyEntry]
NoChunk    == <<>>

ZeroCluster       == [table |-> EmptyTable, chunk |-> NoChunk]
TableCluster(t)   == [table |-> t, chunk |-> NoChunk]
DataCluster(d, k) == [table |-> EmptyTable, chunk |-> <<d, k>>]

SlipDirectoryTable(name, cluster, parent_name, parent) ==
    [EmptyTable EXCEPT
        ![0] = init_directory_entry(name, NoText, ATTR_SUBDIRECTORY, cluster, 0),
        ![1] = init_directory_entry(parent_name, NoText, ATTR_SUBDIRECTORY, cluster, 0)]

\* init_directory_table: the folder's entry for itself and for its parent.
DirectoryTable(name, cluster, parent_name, parent) ==
    [EmptyTable EXCEPT
        ![0] = init_directory_entry(name, NoText, ATTR_SUBDIRECTORY, cluster, 0),
        ![1] = init_directory_entry(parent_name, NoText, ATTR_SUBDIRECTORY, parent, 0)]

IsFolder(t)       == t[0].attribute = ATTR_SUBDIRECTORY
SameName(e, r)    == e.name = r.name /\ e.ext = r.ext

\* The searches through a table: i is the first index from start on that hits, or
\* DIRECTORY_ENTRIES.
FirstIndex(start, hits, i) ==
    /\ i \in start..DIRECTORY_ENTRIES
    /\ i \in Indices => i \in hits
    /\ \A j \in start..(i - 1) : j \notin hits

-----------------------------------------------------------------------------
(* The allocation table.                                                    *)

\* find_empty_cluster; it returns -1 when no c is.
FirstEmptyCluster(c) ==
    /\ c \in 0..(CLUSTER_MAP_SIZE - 1)
    /\ cluster_map[c] = FAT32_FAT_EMPTY_ENTRY
    /\ \A b \in 0..(c - 1) : cluster_map[b] # FAT32_FAT_EMPTY_ENTRY

NoEmptyCluster == ~ \E c \in Cells : FirstEmptyCluster(c)

SlipNextEmptyCluster(c, next) == FirstEmptyCluster(next)

\* The scan of line 272 for the next cluster of a file.
NextEmptyCluster(c, next) ==
    /\ next > c
    /\ cluster_map[next] = FAT32_FAT_EMPTY_ENTRY
    /\ \A b \in (c + 1)..(next - 1) : cluster_map[b] # FAT32_FAT_EMPTY_ENTRY

\* The loop increments its index before it looks: it sees cells 3 to
\* CLUSTER_MAP_SIZE, of which the last is not the table's.
enough_empty_cluster(n) ==
    Cardinality({c \in 3..CLUSTER_MAP_SIZE : cluster_map[c] = FAT32_FAT_EMPTY_ENTRY}) >= n

NumberOfPartitions(size) ==
    (size \div CLUSTER_SIZE) + (IF size % CLUSTER_SIZE > 0 THEN 1 ELSE 0)

\* What reaches cluster 1 when the driver writes its table.
SavedMap(map) == [c \in 0..(CLUSTER_MAP_SIZE - 1) |-> map[c]]

\* dir_table_buf starts with the name of the last folder made: not zero, and no
\* cluster number.  The letters "root" stand for all of them.
NameWord == 1953460082
WithName(map) == [map EXCEPT ![CLUSTER_MAP_SIZE] = NameWord]

-----------------------------------------------------------------------------
(* Starting and stopping.                                                   *)

NoRequest == [op |-> "none", parent |-> 0, name |-> NoText, ext |-> NoText, size |-> 0,
              content |-> 0]
NoLocal   == [table |-> EmptyTable, slot |-> 0, cluster |-> 0, count |-> 0,
              out |-> <<>>]
ZeroMap   == [c \in Cells |-> 0]

\* A blank disk; the machine is off.
Init ==
    /\ boot_sector = FALSE
    /\ disk_map = [c \in 0..(CLUSTER_MAP_SIZE - 1) |-> 0]
    /\ disk = [c \in Clusters |-> ZeroCluster]
    /\ cluster_map = ZeroMap
    /\ root_literal = RootName
    /\ pc = "off"
    /\ request = NoRequest
    /\ local = NoLocal
    /\ reply = 0
    /\ power_losses = 0

\* The table create_fat32 builds; dir_table_buf holds the root table.
FormattedMap ==
    WithName([c \in Cells |->
        CASE c = 0 -> CLUSTER_0_VALUE
          [] c = 1 -> CLUSTER_1_VALUE
          [] c = ROOT_CLUSTER_NUMBER -> FAT32_FAT_END_OF_FILE
          [] OTHER -> FAT32_FAT_EMPTY_ENTRY])

\* initialize_filesystem_fat32: read the table, or start create_fat32, which
\* writes the signature first.
Initialize ==
    /\ pc = "off"
    /\ \/ /\ boot_sector
          /\ cluster_map' = [c \in Cells |->
                IF c \in DOMAIN disk_map THEN disk_map[c] ELSE 0]
          /\ pc' = "idle"
          /\ UNCHANGED boot_sector
       \/ /\ ~boot_sector
          /\ cluster_map' = FormattedMap
          /\ boot_sector' = TRUE
          /\ pc' = "format_map"
    /\ request' = NoRequest
    /\ UNCHANGED <<disk_map, disk, root_literal, local, reply, power_losses>>

\* The other two writes of create_fat32.
FormatMap ==
    /\ pc = "format_map"
    /\ disk_map' = SavedMap(cluster_map)
    /\ pc' = "format_root"
    /\ UNCHANGED <<boot_sector, disk, volatile, request, local, reply, power_losses>>

FormatRoot ==
    /\ pc = "format_root"
    /\ disk' = [disk EXCEPT ![ROOT_CLUSTER_NUMBER] = TableCluster(
          DirectoryTable(RootName, ROOT_CLUSTER_NUMBER, root_literal, ROOT_CLUSTER_NUMBER))]
    /\ pc' = "idle"
    /\ UNCHANGED <<boot_sector, disk_map, volatile, request, local, reply, power_losses>>

\* A loop over a chain has left the clusters of the disk: it met a free cell and goes
\* on with cluster 0 (see ReadBootSector and DeleteBootSector), or it is where the
\* model does not follow.
Astray ==
    \/ pc = "wild"
    \/ /\ pc \in {"read_chain", "delete_chain"}
       /\ local.cluster \notin Clusters \union {FAT32_FAT_END_OF_FILE}

PowerOff ==
    /\ cluster_map' = ZeroMap
    /\ root_literal' = RootName
    /\ pc' = "off"
    /\ local' = NoLocal
    /\ reply' = 0
    /\ UNCHANGED media

\* The machine is switched off between requests, or because it hangs.
SwitchOff ==
    /\ pc = "idle" \/ (Astray /\ pc # "wild")
    /\ PowerOff
    /\ UNCHANGED <<request, power_losses>>

\* The power fails in the middle of formatting or of a request.
PowerLoss ==
    /\ pc \notin {"off", "idle"} /\ ~Astray
    /\ power_losses < MaxPowerLoss
    /\ power_losses' = power_losses + 1
    /\ PowerOff
    /\ UNCHANGED request

-----------------------------------------------------------------------------
(* Requests.                                                                *)

\* Requests that stay clear of two traps of the driver, each lifted by a member
\* of Hazards: a name equal to the folder's own or its parent's (read and Delete
\* search from entry 0), and a file that would need the cell past the table.
Careful(r) ==
    /\ "own_name" \in Hazards
          \/ \A i \in {0, 1} : ~SameName(disk[r.parent].table[i], r)
    /\ "overrun" \in Hazards
          \/ r.op # "write" \/ r.size = 0
          \/ cluster_map[CLUSTER_MAP_SIZE] # FAT32_FAT_EMPTY_ENTRY
          \/ ~enough_empty_cluster(NumberOfPartitions(r.size))
          \/ enough_empty_cluster(NumberOfPartitions(r.size) + 1)

Operations == {"read_directory", "read", "write", "Delete"}

\* Any program asks for anything in any folder, or in what was a folder when it
\* last looked.  buffer_size and content matter only where they are used.
Requests ==
    {r \in [op : Operations, parent : 2..(CLUSTER_MAP_SIZE - 1), name : Names,
            ext : Exts, size : Sizes, content : Contents \union {0}] :
        /\ r.op = "Delete" => r.size = 0
        /\ r.op = "write" /\ r.size > 0 <=> r.content # 0
        /\ r.op = "write" /\ r.size = 0 => r.ext = NoText
        /\ r.op = "read_directory" => r.ext = NoText}

\* System calls 0 to 3.
Call ==
    /\ pc = "idle"
    /\ \E r \in Requests :
          /\ Careful(r)
          /\ request' = r
          /\ pc' = r.op
    /\ reply' = 0
    /\ UNCHANGED <<media, volatile, local, power_losses>>

Return(code) ==
    /\ pc' = "idle"
    /\ request' = NoRequest
    /\ local' = NoLocal
    /\ reply' = code
    /\ UNCHANGED power_losses

\* The next step of the same request.
Goto(label) ==
    /\ pc' = label
    /\ UNCHANGED <<request, reply, power_losses>>

Parent == disk[request.parent].table

read_directory ==
    /\ pc = "read_directory"
    /\ \/ request.size < CLUSTER_SIZE /\ Return(-1)
       \/ request.size >= CLUSTER_SIZE /\ ~IsFolder(Parent) /\ Return(-1)
       \/ /\ request.size >= CLUSTER_SIZE /\ IsFolder(Parent)
          /\ \E i \in 0..DIRECTORY_ENTRIES :
                /\ FirstIndex(2, {j \in Indices : Parent[j].name = request.name}, i)
                /\ Return(IF i = DIRECTORY_ENTRIES THEN 2
                          ELSE IF Parent[i].attribute # ATTR_SUBDIRECTORY THEN 1 ELSE 0)
    /\ UNCHANGED <<media, volatile>>

Found(i) == FirstIndex(0, {j \in Indices : SameName(Parent[j], request)}, i)

\* read: the tests, then one cluster per step.
read ==
    /\ pc = "read"
    /\ \/ ~IsFolder(Parent) /\ Return(-1)
       \/ IsFolder(Parent) /\ Found(DIRECTORY_ENTRIES) /\ Return(2)
       \/ /\ IsFolder(Parent)
          /\ \E i \in Indices :
                /\ Found(i)
                /\ \/ Parent[i].attribute = ATTR_SUBDIRECTORY /\ Return(1)
                   \/ /\ Parent[i].attribute # ATTR_SUBDIRECTORY
                      /\ request.size < Parent[i].filesize
                      /\ Return(-1)
                   \/ /\ Parent[i].attribute # ATTR_SUBDIRECTORY
                      /\ request.size >= Parent[i].filesize
                      /\ Goto("read_chain")
                      /\ local' = [local EXCEPT !.cluster = Parent[i].cluster]
    /\ UNCHANGED <<media, volatile>>

SlipReadChain ==
    /\ pc = "read_chain" /\ local.cluster \in Clusters
    /\ \/ /\ cluster_map[local.cluster] = FAT32_FAT_END_OF_FILE
          /\ Return(0)
       \/ /\ cluster_map[local.cluster] # FAT32_FAT_END_OF_FILE
          /\ Goto("read_chain")
          /\ local' = [local EXCEPT !.out = Append(@, disk[local.cluster].chunk),
                                   !.cluster = cluster_map[local.cluster]]
    /\ UNCHANGED <<media, volatile>>

ReadChain ==
    /\ pc = "read_chain"
    /\ \/ /\ local.cluster = FAT32_FAT_END_OF_FILE
          /\ Return(0)
       \/ /\ local.cluster \in Clusters
          /\ Goto("read_chain")
          /\ local' = [local EXCEPT !.out = Append(@, disk[local.cluster].chunk),
                                   !.cluster = cluster_map[local.cluster]]
    /\ UNCHANGED <<media, volatile>>

-----------------------------------------------------------------------------
(* write.                                                                   *)

Attribute == IF request.size = 0 THEN ATTR_SUBDIRECTORY ELSE 0

SlipDuplicate(i) == SameName(Parent[i], request) /\ Parent[i].filesize = request.size

\* An entry of the same name, extension and kind.
Duplicate(i) == SameName(Parent[i], request) /\ Parent[i].attribute = Attribute

\* write goes on with entry i free for the new file or folder ...
CanWrite(i) ==
    /\ IsFolder(Parent)
    /\ \A j \in 2..(DIRECTORY_ENTRIES - 1) : ~Duplicate(j)
    /\ i \in Indices /\ FirstIndex(2, {j \in Indices : ~Parent[j].used}, i)

\* ... or returns without a change.
WriteRefused ==
    /\ pc = "write"
    /\ \/ ~IsFolder(Parent) /\ Return(2)
       \/ /\ IsFolder(Parent)
          /\ \E j \in 2..(DIRECTORY_ENTRIES - 1) : Duplicate(j)
          /\ Return(1)
       \/ /\ IsFolder(Parent)
          /\ \A j \in 2..(DIRECTORY_ENTRIES - 1) : ~Duplicate(j) /\ Parent[j].used
          /\ Return(-1)
       \/ /\ \E i \in Indices : CanWrite(i)
          /\ \/ NoEmptyCluster
             \/ request.size > 0 /\ ~enough_empty_cluster(NumberOfPartitions(request.size))
          /\ Return(-1)
    /\ UNCHANGED <<media, volatile>>

\* The name init_directory_table gives entry 1.  Outside the root it is copied
\* into the one-byte string literal "", over whatever the linker put behind it:
\* the literal "root" may be hit.
ParentName == IF request.parent = ROOT_CLUSTER_NUMBER THEN root_literal ELSE Parent[0].name
Scribble ==
    IF request.parent = ROOT_CLUSTER_NUMBER THEN UNCHANGED root_literal
    ELSE root_literal' \in {root_literal, Parent[0].name}

\* A folder: the allocation table, then the new table, then the parent's.
WriteFolder ==
    /\ pc = "write" /\ request.size = 0
    /\ \E i \in Indices, c \in Cells :
          /\ CanWrite(i)
          /\ FirstEmptyCluster(c)
          /\ local' = [local EXCEPT !.cluster = c, !.table =
                [Parent EXCEPT ![i] = init_directory_entry(request.name, request.ext,
                                                           ATTR_SUBDIRECTORY, c, 0)]]
          /\ cluster_map' = WithName([cluster_map EXCEPT ![c] = FAT32_FAT_END_OF_FILE])
    /\ disk_map' = SavedMap(cluster_map')
    /\ Scribble
    /\ Goto("folder_table")
    /\ UNCHANGED <<boot_sector, disk>>

WriteFolderTable ==
    /\ pc = "folder_table"
    /\ disk' = [disk EXCEPT ![local.cluster] = TableCluster(
          DirectoryTable(request.name, local.cluster, ParentName, request.parent))]
    /\ Goto("folder_parent")
    /\ UNCHANGED <<boot_sector, disk_map, volatile, local>>

WriteFolderParent ==
    /\ pc = "folder_parent"
    /\ disk' = [disk EXCEPT ![request.parent] = TableCluster(local.table)]
    /\ Return(0)
    /\ UNCHANGED <<boot_sector, disk_map, volatile>>

\* A file: the parent's table first, then the clusters, then the allocation table.
WriteFile ==
    /\ pc = "write" /\ request.size > 0
    /\ enough_empty_cluster(NumberOfPartitions(request.size))
    /\ \E i \in Indices, c \in Cells :
          /\ CanWrite(i)
          /\ FirstEmptyCluster(c)
          /\ local' = [local EXCEPT !.cluster = c]
          /\ disk' = [disk EXCEPT ![request.parent] = TableCluster(
                [Parent EXCEPT ![i] = init_directory_entry(request.name, request.ext,
                                                           0, c, request.size)])]
    /\ Goto("file_parts")
    /\ UNCHANGED <<boot_sector, disk_map, volatile>>

SlipPart == NumberOfPartitions(request.size)
Part     == NumberOfPartitions(request.size) - 1

WriteFilePart ==
    /\ pc = "file_parts"
    /\ disk' = [disk EXCEPT ![local.cluster] = DataCluster(request.content, local.count)]
    /\ \/ /\ local.count < Part
          /\ \E next \in Cells :
                /\ NextEmptyCluster(local.cluster, next)
                /\ cluster_map' = [cluster_map EXCEPT ![local.cluster] = next]
                /\ local' = [local EXCEPT !.cluster = next, !.count = @ + 1]
          /\ Goto("file_parts")
       \/ /\ local.count >= Part
          /\ cluster_map' = [cluster_map EXCEPT ![local.cluster] = FAT32_FAT_END_OF_FILE]
          /\ Goto("file_map")
          /\ UNCHANGED local
    /\ UNCHANGED <<boot_sector, disk_map, root_literal>>

SlipWriteFileMap ==
    /\ pc = "file_map"
    /\ Return(0)
    /\ UNCHANGED <<media, volatile>>

WriteFileMap ==
    /\ pc = "file_map"
    /\ disk_map' = SavedMap(cluster_map)
    /\ Return(0)
    /\ UNCHANGED <<boot_sector, disk, volatile>>

-----------------------------------------------------------------------------
(* Delete.                                                                  *)

SlipNotEmpty(t) == FALSE
NotEmpty(t) == \E i \in 2..(DIRECTORY_ENTRIES - 1) : t[i].used

\* The tests.
Delete ==
    /\ pc = "Delete"
    /\ \/ ~IsFolder(Parent) /\ Return(-1)
       \/ IsFolder(Parent) /\ Found(DIRECTORY_ENTRIES) /\ Return(1)
       \/ /\ IsFolder(Parent)
          /\ \E i \in Indices :
                /\ Found(i)
                /\ \/ /\ Parent[i].attribute = ATTR_SUBDIRECTORY
                      /\ NotEmpty(disk[Parent[i].cluster].table)
                      /\ Return(2)
                   \/ /\ Parent[i].attribute = ATTR_SUBDIRECTORY
                         => ~NotEmpty(disk[Parent[i].cluster].table)
                      /\ Goto(IF Parent[i].attribute = ATTR_SUBDIRECTORY
                              THEN "delete_last" ELSE "delete_chain")
                      /\ local' = [local EXCEPT !.slot = i, !.cluster = Parent[i].cluster,
                                               !.table = Parent]
    /\ UNCHANGED <<media, volatile>>

SlipDeleteChain ==
    /\ pc = "delete_chain"
    /\ disk' = [disk EXCEPT ![local.cluster] = ZeroCluster]
    /\ IF cluster_map[local.cluster] = FAT32_FAT_END_OF_FILE
       THEN Goto("delete_last") ELSE Goto("delete_chain")
    /\ UNCHANGED <<boot_sector, disk_map, volatile, local>>

\* One round of the loop over a file's clusters but the last.
DeleteChain ==
    /\ pc = "delete_chain" /\ local.cluster \in Clusters
    /\ \/ /\ cluster_map[local.cluster] = FAT32_FAT_END_OF_FILE
          /\ Goto("delete_last")
          /\ UNCHANGED <<disk, cluster_map, local>>
       \/ /\ cluster_map[local.cluster] # FAT32_FAT_END_OF_FILE
          /\ cluster_map' = [cluster_map EXCEPT ![local.cluster] = FAT32_FAT_EMPTY_ENTRY]
          /\ disk' = [disk EXCEPT ![local.cluster] = ZeroCluster]
          /\ local' = [local EXCEPT !.cluster = cluster_map[local.cluster]]
          /\ Goto("delete_chain")
    /\ UNCHANGED <<boot_sector, disk_map, root_literal>>

SlipFreed(map, c) == map
Freed(map, c) == [map EXCEPT ![c] = FAT32_FAT_EMPTY_ENTRY]

\* The last cluster of a file, or the table of a folder.
DeleteLast ==
    /\ pc = "delete_last"
    /\ disk' = [disk EXCEPT ![local.cluster] = ZeroCluster]
    /\ cluster_map' = Freed(cluster_map, local.cluster)
    /\ local' = [local EXCEPT !.table[local.slot] = EmptyEntry]
    /\ Goto("delete_parent")
    /\ UNCHANGED <<boot_sector, disk_map, root_literal>>

DeleteParent ==
    /\ pc = "delete_parent"
    /\ disk' = [disk EXCEPT ![request.parent] = TableCluster(local.table)]
    /\ Goto("delete_map")
    /\ UNCHANGED <<boot_sector, disk_map, volatile, local>>

SlipDeleteMap ==
    /\ pc = "delete_map"
    /\ Return(0)
    /\ UNCHANGED <<media, volatile>>

DeleteMap ==
    /\ pc = "delete_map"
    /\ disk_map' = SavedMap(cluster_map)
    /\ Return(0)
    /\ UNCHANGED <<boot_sector, disk, volatile>>

-----------------------------------------------------------------------------
(* A chain that was cut off by a power loss ends in a free cell.  Neither loop     *)
(* stops there: 0 is a cluster number to them.                                     *)

\* What is read is no longer followed: it runs over the buffer's end.
ReadBootSector ==
    /\ pc = "read_chain" /\ local.cluster = 0
    /\ local' = [local EXCEPT !.cluster = cluster_map[0]]
    /\ Goto("read_chain")
    /\ UNCHANGED <<media, volatile>>

\* Zeros are written over the boot sector, and cell 0 is freed.
DeleteBootSector ==
    /\ pc = "delete_chain" /\ local.cluster = 0
    /\ boot_sector' = FALSE
    /\ cluster_map' = [cluster_map EXCEPT ![0] = FAT32_FAT_EMPTY_ENTRY]
    /\ local' = [local EXCEPT !.cluster = cluster_map[0]]
    /\ Goto("delete_chain")
    /\ UNCHANGED <<disk_map, disk, root_literal>>

\* The value of cell 0 as an index wraps around to a word of the calling program's
\* memory, zero if the program does not use it; as a cluster it is not on the disk.
FollowForeignWord ==
    /\ pc \in {"read_chain", "delete_chain"} /\ local.cluster = CLUSTER_0_VALUE
    /\ local' = [local EXCEPT !.cluster = 0]
    /\ Goto(pc)
    /\ UNCHANGED <<media, volatile>>

\* The word is not zero, or the chain ran over the cell past the table, or the
\* buffer over the program's memory: nothing is said of what happens then.
RunWild ==
    /\ pc \in {"read_chain", "delete_chain"}
    /\ local.cluster \notin Clusters \union {0, FAT32_FAT_END_OF_FILE}
    /\ Goto("wild")
    /\ UNCHANGED <<media, volatile, local>>

Wild == pc = "wild" /\ UNCHANGED vars

-----------------------------------------------------------------------------
\* The steps the driver takes by itself once it was called or switched on.
DriverStep ==
    \/ FormatMap \/ FormatRoot \/ read_directory \/ read \/ ReadChain
    \/ WriteRefused \/ WriteFolder \/ WriteFolderTable \/ WriteFolderParent
    \/ WriteFile \/ WriteFilePart \/ WriteFileMap
    \/ Delete \/ DeleteChain \/ DeleteLast \/ DeleteParent \/ DeleteMap
    \/ ReadBootSector \/ DeleteBootSector \/ FollowForeignWord \/ RunWild

Next == DriverStep \/ Initialize \/ Call \/ SwitchOff \/ PowerLoss \/ Wild

Spec == Init /\ [][Next]_vars

-----------------------------------------------------------------------------
\* The shape of the state.
Entries == [name : Names \union {NoText, RootName}, ext : Exts \union {NoText},
            attribute : {0, ATTR_SUBDIRECTORY}, used : BOOLEAN,
            cluster : 0..CLUSTER_MAP_SIZE, filesize : Sizes \union {0}]
Tables  == [Indices -> Entries]
Links   == 0..CLUSTER_MAP_SIZE \union {CLUSTER_0_VALUE, NameWord, FAT32_FAT_END_OF_FILE}
Labels  == Operations \union
           {"off", "idle", "wild", "format_map", "format_root", "read_chain",
            "folder_table", "folder_parent", "file_parts", "file_map",
            "delete_chain", "delete_last", "delete_parent", "delete_map"}
Chunks  == {NoChunk} \union (Contents \X Nat)

TypeOK ==
    /\ boot_sector \in BOOLEAN
    /\ disk_map \in [0..(CLUSTER_MAP_SIZE - 1) -> Links]
    /\ disk \in [Clusters -> [table : Tables, chunk : Chunks]]
    /\ cluster_map \in [Cells -> Links]
    /\ root_literal \in Names \union {RootName}
    /\ pc \in Labels
    /\ request \in Requests \union {NoRequest}
    /\ local \in [table : Tables, slot : Indices, cluster : Links, count : Nat,
                  out : Seq(Chunks)]
    /\ reply \in -1..2
    /\ power_losses \in 0..MaxPowerLoss

\* The links of a chain ascend and stay inside the table, in memory and on disk,
\* whatever was interrupted: no file loops back on itself.
Ascends(map) ==
    \A c \in 3..(CLUSTER_MAP_SIZE - 1) :
        map[c] \in {FAT32_FAT_EMPTY_ENTRY, FAT32_FAT_END_OF_FILE} \union ((c + 1)..CLUSTER_MAP_SIZE)
ChainsAscend == Ascends(cluster_map) /\ Ascends(disk_map)

\* Between requests the cached table and the one on disk agree: what is switched
\* off then is found again.
MapMirrored == pc = "idle" => SavedMap(cluster_map) = disk_map

Folders == {c \in 2..(CLUSTER_MAP_SIZE - 1) : IsFolder(disk[c].table)}

\* The entries of folders, other than their own and their parent's, in use.
LiveEntries == {x \in Folders \X (2..(DIRECTORY_ENTRIES - 1)) : disk[x[1]].table[x[2]].used}
EntryOf(x)  == disk[x[1]].table[x[2]]

\* Who points at cluster c: entries, and clusters it follows in a chain.
Owners(c) == {x \in LiveEntries : EntryOf(x).cluster = c}
             \union {<<b, 0>> : b \in {b \in 3..(CLUSTER_MAP_SIZE - 1) : cluster_map[b] = c}}

\* Between requests a cluster has one owner if it is allocated and none if it is
\* free: nothing is cross-linked, dangling or leaked.
ClustersOwnedOnce ==
    pc = "idle" =>
        \A c \in 3..(CLUSTER_MAP_SIZE - 1) :
            Cardinality(Owners(c)) =
                IF cluster_map[c] = FAT32_FAT_EMPTY_ENTRY THEN 0 ELSE 1

\* Between requests every folder knows its place: entry 0 is itself, entry 1 the
\* folder that lists it under the same name, which is what cd and pwd rely on.
FoldersLinkedBothWays ==
    pc = "idle" =>
        \A c \in Folders \ {ROOT_CLUSTER_NUMBER} :
            /\ disk[c].table[0].cluster = c
            /\ \E x \in LiveEntries :
                  /\ x[1] = disk[c].table[1].cluster
                  /\ EntryOf(x).cluster = c /\ EntryOf(x).attribute = ATTR_SUBDIRECTORY
                  /\ EntryOf(x).name = disk[c].table[0].name

\* No loop over a chain ever meets a free cell or leaves the table.
NeverWild == ~Astray

\* How many phases, and how many rounds of the loop it is in, the driver has left.
Busy == pc \notin {"idle", "off"}
Phases ==
    CASE pc \in Operations -> 5
      [] pc = "delete_chain" -> 4
      [] pc = "delete_last" -> 3
      [] pc \in {"format_map", "folder_table", "file_parts", "delete_parent"} -> 2
      [] OTHER -> 1
Rounds ==
    IF pc = "file_parts" THEN Part - local.count
    ELSE IF local.cluster \in Clusters THEN CLUSTER_MAP_SIZE + 1 - local.cluster
    ELSE 0

\* The chain through cluster c was cut off, or runs past the table.
CutOff(c) == cluster_map[c] = FAT32_FAT_EMPTY_ENTRY \/ c = CLUSTER_MAP_SIZE

\* Every step of a request brings it closer to its end, over a chain read back from a
\* damaged disk too, up to the one case in which it may not end: a chain whose next cell
\* is free leads the loops of read and Delete through the boot sector, and astray.
RequestsProgress ==
    [][Busy /\ Busy' =>
        IF Astray' THEN Astray \/ CutOff(local.cluster)
        ELSE \/ Phases' < Phases
             \/ pc' = pc /\ 0 <= Rounds' /\ Rounds' < Rounds]_vars

\* fat32.h:242 "delete a file or empty directory (only 1 DirectoryEntry)": once
\* Delete has returned, no entry refers to a cluster it freed.
NoDanglingEntry ==
    pc = "idle" =>
        \A x \in LiveEntries : cluster_map[EntryOf(x).cluster] # FAT32_FAT_EMPTY_ENTRY
=============================================================================
