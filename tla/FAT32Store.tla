----------------------------- MODULE FAT32Store -----------------------------
(***************************************************************************)
(* The FAT32 driver seen from outside: which files and folders a disk      *)
(* holds.  items is a history variable, the content of the disk when the   *)
(* driver was last idle; with it the driver implements FileStore.          *)
(***************************************************************************)
EXTENDS FAT32

VARIABLE items

\* Table map links cluster c to a later one.
HasNext(map, c) == c < CLUSTER_MAP_SIZE /\ map[c] \in (c + 1)..CLUSTER_MAP_SIZE

\* The chunks of the files that start at each cluster of vol, as map links them.
Data(vol, map) ==
    LET data[c \in Clusters] ==
            <<vol[c].chunk>> \o (IF HasNext(map, c) THEN data[map[c]] ELSE <<>>)
    IN  data

\* The item entry i of folder d stands for.
ItemOf(vol, map, d, i) ==
    LET e == vol[d].table[i] IN
    [folder |-> d, name |-> e.name, ext |-> e.ext, id |-> e.cluster,
     kind |-> IF e.attribute = ATTR_SUBDIRECTORY THEN "folder" ELSE "file",
     data |-> IF e.attribute = ATTR_SUBDIRECTORY THEN <<>> ELSE Data(vol, map)[e.cluster]]

\* What the disk holds, read with the table map.
Content(map) == {ItemOf(disk, map, x[1], x[2]) : x \in LiveEntries}

StoreInit == Init /\ items = {}
StoreNext == Next /\ items' = IF pc' = "idle" THEN Content(cluster_map)' ELSE items

storeVars == <<vars, items>>
StoreSpec == StoreInit /\ [][StoreNext]_storeVars

FS == INSTANCE FileStore WITH Root <- ROOT_CLUSTER_NUMBER

-----------------------------------------------------------------------------
\* The driver implements FileStore: seen between requests, the disk changes by
\* one file or one empty folder at a time, and switching off and on changes
\* nothing.
ImplementsFileStore == FS!Spec

\* The chunks of a buffer of that size and content.
Buffer(content, size) ==
    [k \in 1..NumberOfPartitions(size) |-> <<content, k - 1>>]

\* A write that reports success stored the whole buffer under the requested
\* name; a Delete that reports success took an item of that name away; a request
\* that reports an error changed nothing.
RepliesTellTheTruth ==
    [][pc \notin {"idle", "off"} /\ pc' = "idle" /\ request.op # "none" =>
        LET there(f) == f.folder = request.parent /\ f.name = request.name
                        /\ f.ext = request.ext IN
        CASE reply' # 0 -> items' = items
          [] reply' = 0 /\ request.op = "write" ->
                \E f \in items' \ items : there(f) /\
                    f.data = IF request.size = 0 THEN <<>>
                             ELSE Buffer(request.content, request.size)
          [] reply' = 0 /\ request.op = "Delete" -> \E f \in items \ items' : there(f)
          [] OTHER -> items' = items]_storeVars

\* A read that reports success delivered exactly the data of that file.
ReadsWhatWasWritten ==
    [][pc = "read_chain" /\ pc' = "idle" =>
        \E f \in items :
            /\ f.folder = request.parent /\ f.name = request.name /\ f.ext = request.ext
            /\ f.kind = "file" /\ f.data = local.out]_storeVars

\* When the power fails for the first time, the clusters on the disk, with the table
\* that is on the disk and that restarting will read, hold every file and folder that
\* the interrupted request did not name, with its data: write and Delete touch
\* clusters and tables of others at no point in between.
PowerLossHarmsOnlyTheTarget ==
    [][power_losses = 0 /\ pc' = "off" =>
        \A f \in items :
            \/ f \in Content(disk_map)'
            \/ f.folder = request.parent /\ f.name = request.name /\ f.ext = request.ext
      ]_storeVars
=============================================================================
