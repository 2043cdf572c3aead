---------------------------- MODULE ShellProofs ----------------------------
(***************************************************************************)
(* Proofs about the shells and the folders they stand in, for any number   *)
(* of shells, names, clusters and commands.                                *)
(*                                                                         *)
(* Tree says what the folders on the disk are to one another; the two      *)
(* requests that change them, write and DeleteEntry, keep it as long as no *)
(* command has removed an entry of a folder for itself or its parent.      *)
(* A folder that is removed has no folder in it, so a path that lost an    *)
(* edge ended there, and its shell is in lost: every other path still      *)
(* leads (Follows) where the shell believes.  Grounded holds of a damaged  *)
(* tree as well: no request reaches the boot sector or leaves the disk.    *)
(***************************************************************************)
EXTENDS Shell, TLAPS

EntryNames == Names \cup {NoName, Signature, "root", ShellFile}
Entries    == [name : EntryNames, folder : BOOLEAN, cluster : Numbers]
Slots      == 2..(DIRECTORY_ENTRIES - 1)

Folder(name, cluster) == Entry(name, TRUE, cluster)

Labels  == {"prompt", "mkdir", "rm", "cat", "exec"}
Refuges == {"prompt", "cancel"}

States ==
    [pc : {"off", "prompt", "walk", "mkdir", "rm", "cat", "exec", "cancel"},
     kind : Commands \cup {"none"}, absolute : BOOLEAN, last : Components \cup {NoName},
     todo : Seq(Components), ok : {"prompt", "mkdir", "rm", "cat", "exec"},
     bad : {"prompt", "cancel"}, ret : {-1, 0, 1, 2},
     tdir : Numbers, ttable : Tables, wpath : Seq(EntryNames),
     odir : Numbers, opath : Seq(EntryNames), then : {"prompt"},
     dir : Numbers, table : Tables, path : Seq(EntryNames),
     from : {<<>>} \cup (Numbers \X Seq(EntryNames)), job : {<<>>}]

-----------------------------------------------------------------------------
(* The folders on the disk.                                                 *)

\* Entry i of folder c is in use.
Used(d, c, i) == d[c][i] # EmptyEntry

\* One entry: the folder and the cluster it names are in use, a folder names itself
\* and its parent, a file is no folder.
EntrySound(d, use, c, i) ==
    LET e == d[c][i] IN
    /\ c \in use
    /\ e.cluster \in use \ {ROOT_CLUSTER_NUMBER}
    /\ e.folder => /\ d[e.cluster][0] = e
                   /\ d[e.cluster][1].folder /\ d[e.cluster][1].cluster = c
    /\ ~e.folder => d[e.cluster] = EmptyTable

RootSound(d, use) ==
    /\ ROOT_CLUSTER_NUMBER \in use
    /\ \A c \in Numbers : IsFolder(d[c]) => c \in use
    /\ d[ROOT_CLUSTER_NUMBER][0] = Folder("root", ROOT_CLUSTER_NUMBER)
    /\ d[ROOT_CLUSTER_NUMBER][1] = Folder("root", ROOT_CLUSTER_NUMBER)

EntriesSound(d, use) ==
    \A c \in Clusters, i \in Slots : Used(d, c, i) => EntrySound(d, use, c, i)

\* No cluster is named twice.
NamedOnce(d) ==
    \A b \in Clusters, c \in Clusters, i \in Slots, j \in Slots :
        Used(d, b, i) /\ Used(d, c, j) /\ d[b][i].cluster = d[c][j].cluster => b = c /\ i = j

\* A folder has at most one folder, and one file, of a name.
NamesDiffer(d) ==
    \A c \in Clusters, i \in Slots, j \in Slots :
        /\ Used(d, c, i) /\ Used(d, c, j)
        /\ d[c][i].name = d[c][j].name /\ d[c][i].folder = d[c][j].folder
        => i = j

\* No cluster in use is forgotten.
Reached(d, use) ==
    \A c \in use \ {ROOT_CLUSTER_NUMBER} : \E b \in Clusters, i \in Slots : Used(d, b, i) /\ d[b][i].cluster = c

\* Neither the boot sector nor what is read past the disk's end has changed, and
\* what has a name is in a cluster of the disk.
Grounded(d) ==
    /\ d[0] = BootSector /\ d[OffDisk] = EmptyTable
    /\ \A c \in Clusters, i \in Indices : d[c][i].name # NoName => d[c][i].cluster \in Clusters

Tree(d, use) ==
    RootSound(d, use) /\ EntriesSound(d, use) /\ NamedOnce(d) /\ NamesDiffer(d) /\ Reached(d, use)

-----------------------------------------------------------------------------
(* The ways through them.                                                   *)

\* Folder c has a folder of this name, and it is in cluster b.
Edge(d, c, name, b) == \E i \in Slots : d[c][i] = Folder(name, b)

Follows(d, path, c) ==
    \E way \in [0..Len(path) -> Clusters] :
        /\ way[0] = ROOT_CLUSTER_NUMBER
        /\ way[Len(path)] = c
        /\ \A i \in 1..Len(path) : Edge(d, way[i - 1], path[i], way[i])

\* The folder above, as a cached table and as the disk have it.
SameParent(d, t, c) == t[1].cluster = d[c][1].cluster

-----------------------------------------------------------------------------
(* A shell.                                                                 *)

\* The command will go back to where it began.
Returning(sh) ==
    \/ sh.pc \in {"mkdir", "rm", "cat", "cancel"}
    \/ sh.pc = "walk" /\ sh.bad = "cancel"

\* Where it goes back to: rm to where it began, the others to the root when the path
\* was absolute.
Home(sh) ==
    <<sh.odir, sh.opath>> = IF sh.absolute /\ sh.kind # "rm"
                            THEN <<ROOT_CLUSTER_NUMBER, <<>>>> ELSE sh.from

\* What holds of the locals of every command.
Proper(sh) ==
    /\ sh.pc = "walk" => sh.todo # <<>> /\ sh.ok \in {"prompt", "exec", sh.kind}
    /\ sh.pc = "walk" /\ sh.ok \in {"mkdir", "rm", "cat"} => sh.bad = "cancel"
    /\ sh.pc = "mkdir" \/ (sh.pc = "walk" /\ sh.kind = "mkdir") => sh.last \in Names
    /\ sh.pc = "rm" \/ (sh.pc = "walk" /\ sh.kind = "rm") => sh.last \in Names \cup {".."}
    /\ Returning(sh) =>
        Home(sh)

\* Where a shell believes to be is where it is.
Oriented(d, sh) ==
    /\ sh.pc \in {"prompt", "mkdir", "rm", "cat", "exec"} =>
            Follows(d, sh.path, sh.dir) /\ SameParent(d, sh.table, sh.dir)
    /\ sh.pc = "walk" =>
            /\ Follows(d, sh.wpath, sh.dir) /\ SameParent(d, sh.table, sh.dir)
            /\ Follows(d, sh.path, sh.tdir) /\ SameParent(d, sh.ttable, sh.tdir)
    /\ Returning(sh) => Follows(d, sh.opath, sh.odir)

\* The tables a shell has copied are those on the disk.
Fresh(d, sh) ==
    /\ sh.pc \in {"prompt", "walk", "exec"} => sh.table = d[sh.dir]
    /\ sh.pc = "walk" => sh.ttable = d[sh.tdir]

Alone(s) == \A t \in Shells \ {s} : shell[t].pc = "off"

ShellTypes ==
    /\ disk \in [Numbers -> Tables] /\ Grounded(disk) /\ in_use \subseteq Clusters
    /\ lost \subseteq Shells
    /\ shell \in [Shells -> States]
    /\ \A s \in Shells : Proper(shell[s])

ShellInv ==
    /\ ShellTypes
    /\ harm = {} => Tree(disk, in_use)
    /\ harm = {} => \A s \in Shells \ lost : Oriented(disk, shell[s])
    /\ \A s \in Shells \ lost : Alone(s) => harm = {} /\ Fresh(disk, shell[s])

-----------------------------------------------------------------------------
(* Tables.                                                                  *)

\* Numbers the proofs need of the constants.
LEMMA Sizes ==
    /\ Slots \subseteq Indices /\ 0 \in Indices /\ 1 \in Indices /\ 2 \in Slots
    /\ 0 \notin Slots /\ 1 \notin Slots /\ Indices \ Slots = {0, 1}
    /\ 2..3 \subseteq Clusters /\ ROOT_CLUSTER_NUMBER \in Clusters
    /\ Clusters \subseteq Numbers /\ 0 \in Numbers /\ OffDisk \in Numbers
    /\ 0 \notin Clusters /\ OffDisk \notin Clusters /\ OffDisk # 0
    /\ Indices \subseteq Nat /\ Clusters \subseteq Nat
  BY ShellAssumption DEF Slots, Indices, Clusters, Numbers, OffDisk, ROOT_CLUSTER_NUMBER

\* The clusters of files and folders are clusters a shell may hold.
LEMMA Within == Clusters \subseteq Numbers
  BY Sizes

\* A table is a table of entries.
LEMMA TablesAre == Tables = [Indices -> Entries] /\ EmptyEntry \in Entries /\ EmptyTable \in Tables
  <1>1. Tables = [Indices -> Entries]
    BY DEF Tables, Entries, EntryNames
  <1>2. EmptyEntry \in Entries
    BY Sizes DEF EmptyEntry, Entry, Entries, EntryNames
  <1> QED
    BY <1>1, <1>2 DEF EmptyTable

\* What an entry of a folder says.
LEMMA FolderIs ==
    ASSUME NEW name, NEW cluster
    PROVE  /\ Folder(name, cluster).name = name
           /\ Folder(name, cluster).folder
           /\ Folder(name, cluster).cluster = cluster
           /\ Folder(name, cluster) # EmptyEntry
           /\ name \in EntryNames /\ cluster \in Numbers => Folder(name, cluster) \in Entries
  BY DEF Entry, Folder, EmptyEntry, Entries

\* An entry with a name, or of a folder, is not empty.
LEMMA EmptyIs ==
    /\ EmptyEntry.name = NoName /\ EmptyEntry.folder = FALSE
    /\ \A i \in Indices : EmptyTable[i] = EmptyEntry
    /\ ~IsFolder(EmptyTable)
  BY Sizes DEF EmptyEntry, Entry, EmptyTable, IsFolder

\* The boot sector as a table.
LEMMA BootIs ==
    /\ BootSector \in Tables /\ ~IsFolder(BootSector)
  <1>1. /\ Entry(Signature, FALSE, OffDisk) \in Entries /\ Entry(Signature, FALSE, 0) \in Entries
        /\ ~Entry(Signature, FALSE, OffDisk).folder
    BY Sizes DEF Entry, Entries, EntryNames
  <1>2. EmptyTable \in [Indices -> Entries] /\ 0 \in Indices /\ 1 \in Indices /\ 2 \in Indices
    BY TablesAre, Sizes
  <1>3. BootSector \in [Indices -> Entries] /\ BootSector[0] = Entry(Signature, FALSE, OffDisk)
    <2> DEFINE far == Entry(Signature, FALSE, OffDisk)
               here == Entry(Signature, FALSE, 0)
    <2>1. BootSector = [[[EmptyTable EXCEPT ![0] = far] EXCEPT ![1] = far] EXCEPT ![2] = here]
      BY DEF BootSector
    <2> HIDE DEF far, here
    <2>2. far \in Entries /\ here \in Entries
      BY <1>1 DEF far, here
    <2>3. BootSector \in [Indices -> Entries] /\ BootSector[0] = far
      BY <1>2, <2>1, <2>2
    <2> QED
      BY <2>3 DEF far
  <1> QED
    BY <1>1, <1>3, TablesAre DEF IsFolder

\* Only a cluster of the disk holds a folder.
LEMMA FolderOnDisk ==
    ASSUME NEW d, Grounded(d), NEW c \in Numbers, IsFolder(d[c])
    PROVE  c \in Clusters
  BY BootIs, EmptyIs DEF Grounded, Numbers

\* A new folder's table (init_directory_table).
LEMMA NewTable ==
    ASSUME NEW name \in EntryNames, NEW c \in Numbers, NEW pname \in EntryNames, NEW p \in Numbers,
           NEW t, t = DirectoryTable(name, c, pname, p)
    PROVE  /\ t \in [Indices -> Entries]
           /\ t[0] = Folder(name, c) /\ t[1] = Folder(pname, p)
           /\ \A i \in Slots : t[i] = EmptyEntry
  <1>1. Folder(name, c) \in Entries /\ Folder(pname, p) \in Entries
    BY FolderIs
  <1>2. EmptyTable \in [Indices -> Entries]
    BY TablesAre
  <1>3. t = [[EmptyTable EXCEPT ![0] = Folder(name, c)] EXCEPT ![1] = Folder(pname, p)]
    BY DEF DirectoryTable, Folder
  <1>4. t \in [Indices -> Entries] /\ t[0] = Folder(name, c) /\ t[1] = Folder(pname, p)
    <2>1. 0 \in Indices /\ 1 \in Indices
      BY Sizes
    <2> QED
      BY <1>1, <1>2, <1>3, <2>1
  <1>5. \A i \in Slots : t[i] = EmptyTable[i]
    <2>1. \A i \in Slots : i \in Indices /\ i # 0 /\ i # 1
      BY Sizes
    <2> QED
      BY <1>2, <1>3, <2>1
  <1> QED
    BY <1>4, <1>5, EmptyIs, Sizes

-----------------------------------------------------------------------------
(* The request write.                                                       *)

\* The disk after the writes of a new folder.
Written(d, parent, i, name, c) ==
    [d EXCEPT ![parent][i] = Folder(name, c),
              ![c] = DirectoryTable(name, c, d[parent][0].name, parent)]

\* When write comes to them.
CanWrite(d, use, parent, i, name, c) ==
    /\ d \in [Numbers -> Tables] /\ use \in SUBSET Clusters /\ Tree(d, use)
    /\ parent \in Clusters /\ IsFolder(d[parent]) /\ name \in Names
    /\ i \in Slots /\ d[parent][i] = EmptyEntry /\ c \in Clusters /\ c \notin use
    /\ \A j \in Slots : ~(d[parent][j].name = name /\ d[parent][j].folder)

\* A request leaves a tree, and of the edges and the folders all but gone.
Kept(d, d2, use2, gone) ==
    /\ d2 \in [Numbers -> Tables] /\ use2 \in SUBSET Clusters /\ Tree(d2, use2)
    /\ \A a \in Clusters, b \in Clusters \ gone : \A n : Edge(d, a, n, b) => Edge(d2, a, n, b)
    /\ \A a \in Clusters \ gone : IsFolder(d[a]) => d2[a][1] = d[a][1]

\* A new entry and its cluster, taken from outside the tree, leave a tree; nothing
\* that was there has moved.
LEMMA TreeWrite ==
    ASSUME NEW d, NEW use, NEW parent, NEW i, NEW name, NEW c, CanWrite(d, use, parent, i, name, c)
    PROVE  Kept(d, Written(d, parent, i, name, c), use \cup {c}, {})
  <1> USE DEF CanWrite
  <1> DEFINE d2 == Written(d, parent, i, name, c)
             e == Folder(name, c)
             tab == DirectoryTable(name, c, d[parent][0].name, parent)
  <1>0. /\ parent \in use /\ parent # c /\ c # ROOT_CLUSTER_NUMBER /\ i \in Indices
        /\ \A a \in Numbers : d[a] \in [Indices -> Entries]
    BY TablesAre, Sizes DEF Tree, RootSound
  <1>n. name \in EntryNames /\ d[parent][0].name \in EntryNames
    BY <1>0, Sizes DEF Entries, EntryNames
  <1>1. e \in Entries /\ e # EmptyEntry /\ e.cluster = c /\ e.name = name /\ e.folder
    BY <1>n, FolderIs, Within
  <1>2. /\ tab \in [Indices -> Entries]
        /\ \A j \in Slots : tab[j] = EmptyEntry
        /\ tab[0] = e /\ tab[1].folder /\ tab[1].cluster = parent
    <2>1. tab[1] = Folder(d[parent][0].name, parent) /\ tab[0] = e
            /\ tab \in [Indices -> Entries] /\ \A j \in Slots : tab[j] = EmptyEntry
      BY <1>n, NewTable, Within
    <2> HIDE DEF tab, e
    <2> QED
      BY <2>1, FolderIs
  <1> HIDE DEF e, tab, d2
  <1>3. /\ d2[c] = tab
        /\ d2[parent] = [d[parent] EXCEPT ![i] = e]
        /\ \A a \in Numbers \ {c, parent} : d2[a] = d[a]
        /\ d2 = [a \in Numbers |-> d2[a]]
    BY <1>0, Within DEF d2, Written, e, tab
  <1>4. /\ d2[parent] \in [Indices -> Entries]
        /\ d2[parent][i] = e /\ \A j \in Indices \ {i} : d2[parent][j] = d[parent][j]
    BY <1>0, <1>1, <1>3, Within
  <1>5. d2 \in [Numbers -> Tables]
    <2>1. \A a \in Numbers : d2[a] \in [Indices -> Entries]
      BY <1>0, <1>2, <1>3, <1>4
    <2> QED
      BY <1>3, <2>1, TablesAre
  <1>6. \A j \in Slots : d[c][j] = EmptyEntry
    BY DEF Tree, EntriesSound, Used, EntrySound
  <1>7. \A a \in Clusters, b \in Clusters : \A n : Edge(d, a, n, b) => Edge(d2, a, n, b)
    <2> SUFFICES ASSUME NEW a \in Clusters, NEW b \in Clusters, NEW n, NEW j \in Slots,
                        d[a][j] = Folder(n, b)
                 PROVE  Edge(d2, a, n, b)
      BY DEF Edge
    <2>2. a # c /\ ~(a = parent /\ j = i)
      BY <1>6, FolderIs
    <2>3. d2[a][j] = d[a][j]
      BY <1>3, <1>4, <2>2, Sizes
    <2> QED
      BY <2>3 DEF Edge
  <1>8. \A a \in Numbers \ {c} : d2[a][0] = d[a][0] /\ d2[a][1] = d[a][1]
    <2>1. d2[parent][0] = d[parent][0] /\ d2[parent][1] = d[parent][1]
      BY <1>4, Sizes
    <2> QED
      BY <1>3, <2>1
  \* The entries after the write: those from before, and e.
  <1>9. \A a \in Clusters, j \in Slots :
            Used(d2, a, j) <=> Used(d, a, j) \/ (a = parent /\ j = i)
    <2> SUFFICES ASSUME NEW a \in Clusters, NEW j \in Slots
                 PROVE  Used(d2, a, j) <=> Used(d, a, j) \/ (a = parent /\ j = i)
      OBVIOUS
    <2>0. j \in Indices
      BY Sizes
    <2>1. CASE a = c
      BY <1>0, <1>2, <1>3, <1>6, <2>1 DEF Used
    <2>2. CASE a = parent /\ j = i
      BY <1>1, <1>4, <2>2 DEF Used
    <2>3. CASE a = parent /\ j # i
      BY <1>4, <2>0, <2>3 DEF Used
    <2>4. CASE a \notin {c, parent}
      BY <1>3, <2>4, Within DEF Used
    <2> QED
      BY <2>1, <2>2, <2>3, <2>4
  <1>10. \A a \in Clusters, j \in Slots :
            Used(d, a, j) => /\ d2[a][j] = d[a][j] /\ a # c /\ d[a][j].cluster # c
                             /\ d[a][j].cluster \in use \ {ROOT_CLUSTER_NUMBER} /\ ~(a = parent /\ j = i)
    <2> SUFFICES ASSUME NEW a \in Clusters, NEW j \in Slots, Used(d, a, j)
                 PROVE  /\ d2[a][j] = d[a][j] /\ a # c /\ d[a][j].cluster # c
                        /\ d[a][j].cluster \in use \ {ROOT_CLUSTER_NUMBER} /\ ~(a = parent /\ j = i)
      OBVIOUS
    <2>1. a # c /\ ~(a = parent /\ j = i)
      BY <1>6 DEF Used
    <2>2. d[a][j].cluster \in use \ {ROOT_CLUSTER_NUMBER}
      BY DEF Tree, EntriesSound, EntrySound
    <2>3. d2[a][j] = d[a][j]
      BY <1>3, <1>4, <2>1, Sizes
    <2> QED
      BY <2>1, <2>2, <2>3
  <1>11. Tree(d2, use \cup {c})
    <2>1. RootSound(d2, use \cup {c})
      <3>1. ROOT_CLUSTER_NUMBER \in use \cup {c}
        BY DEF Tree, RootSound
      <3>2. \A a \in Numbers : IsFolder(d2[a]) => a \in use \cup {c}
        BY <1>8 DEF Tree, RootSound, IsFolder
      <3>3. /\ d2[ROOT_CLUSTER_NUMBER][0] = Folder("root", ROOT_CLUSTER_NUMBER)
            /\ d2[ROOT_CLUSTER_NUMBER][1] = Folder("root", ROOT_CLUSTER_NUMBER)
        BY <1>0, <1>8, Sizes DEF Tree, RootSound
      <3> QED
        BY <3>1, <3>2, <3>3 DEF RootSound
    <2>2. ASSUME NEW a \in Clusters, NEW j \in Slots, Used(d2, a, j)
          PROVE  EntrySound(d2, use \cup {c}, a, j)
      <3>1. CASE a = parent /\ j = i
        <4>1. d2[a][j] = e /\ e.cluster = c /\ e.folder
          BY <1>1, <1>4, <3>1
        <4> QED
          BY <1>0, <1>2, <1>3, <3>1, <4>1 DEF EntrySound
      <3>2. CASE ~(a = parent /\ j = i)
        <4>1. Used(d, a, j) /\ d2[a][j] = d[a][j]
          BY <1>9, <1>10, <2>2, <3>2
        <4>2. EntrySound(d, use, a, j)
          BY <4>1 DEF Tree, EntriesSound
        <4> DEFINE b == d[a][j].cluster
        <4>3. b \in Clusters /\ b # c /\ b \in use \ {ROOT_CLUSTER_NUMBER}
          BY <1>10, <4>1
        <4>4. d2[b][0] = d[b][0] /\ d2[b][1] = d[b][1]
          BY <1>8, <4>3, Within
        <4>5. ~d[a][j].folder => d2[b] = EmptyTable
          <5> SUFFICES ASSUME ~d[a][j].folder PROVE d2[b] = EmptyTable
            OBVIOUS
          <5>1. d[b] = EmptyTable
            BY <4>2 DEF EntrySound
          <5>2. b # parent
            BY <5>1, EmptyIs
          <5> QED
            BY <1>3, <4>3, <5>1, <5>2, Within
        <4> QED
          BY <4>1, <4>2, <4>3, <4>4, <4>5 DEF EntrySound
      <3> QED
        BY <3>1, <3>2
    <2>3. NamedOnce(d2)
      <3> SUFFICES ASSUME NEW a \in Clusters, NEW b \in Clusters, NEW j \in Slots, NEW k \in Slots,
                          Used(d2, a, j), Used(d2, b, k), d2[a][j].cluster = d2[b][k].cluster
                   PROVE  a = b /\ j = k
        BY DEF NamedOnce
      <3>1. CASE Used(d, a, j) /\ Used(d, b, k)
        <4>1. d2[a][j] = d[a][j] /\ d2[b][k] = d[b][k]
          BY <1>10, <3>1
        <4> QED
          BY <3>1, <4>1 DEF Tree, NamedOnce
      <3>2. CASE a = parent /\ j = i /\ Used(d, b, k)
        <4>1. d2[a][j].cluster = c
          BY <1>1, <1>4, <3>2
        <4>2. d2[b][k] = d[b][k]
          BY <1>10, <3>2
        <4>3. d[b][k].cluster # c
          BY <1>10, <3>2
        <4> QED
          BY <4>1, <4>2, <4>3
      <3>3. CASE b = parent /\ k = i /\ Used(d, a, j)
        <4>1. d2[b][k].cluster = c
          BY <1>1, <1>4, <3>3
        <4>2. d2[a][j] = d[a][j]
          BY <1>10, <3>3
        <4>3. d[a][j].cluster # c
          BY <1>10, <3>3
        <4> QED
          BY <4>1, <4>2, <4>3
      <3> QED
        BY <1>9, <3>1, <3>2, <3>3
    <2>4. NamesDiffer(d2)
      <3> SUFFICES ASSUME NEW a \in Clusters, NEW j \in Slots, NEW k \in Slots,
                          Used(d2, a, j), Used(d2, a, k),
                          d2[a][j].name = d2[a][k].name, d2[a][j].folder = d2[a][k].folder
                   PROVE  j = k
        BY DEF NamesDiffer
      <3>0. \A m \in Slots : Used(d, parent, m) => ~(d2[parent][m].name = name /\ d2[parent][m].folder)
        BY <1>10
      <3>e. d2[parent][i].name = name /\ d2[parent][i].folder
        BY <1>1, <1>4
      <3>1. CASE Used(d, a, j) /\ Used(d, a, k)
        <4>1. d2[a][j] = d[a][j] /\ d2[a][k] = d[a][k]
          BY <1>10, <3>1
        <4> QED
          BY <3>1, <4>1 DEF Tree, NamesDiffer
      <3>2. CASE a = parent /\ j = i /\ Used(d, a, k)
        BY <3>0, <3>2, <3>e
      <3>3. CASE a = parent /\ k = i /\ Used(d, a, j)
        BY <3>0, <3>3, <3>e
      <3> QED
        BY <1>9, <3>1, <3>2, <3>3
    <2>5. Reached(d2, use \cup {c})
      <3> SUFFICES ASSUME NEW a \in (use \cup {c}) \ {ROOT_CLUSTER_NUMBER}
                   PROVE  \E b \in Clusters, j \in Slots : Used(d2, b, j) /\ d2[b][j].cluster = a
        BY DEF Reached
      <3>1. CASE a = c
        BY <1>1, <1>4, <1>9, <3>1
      <3>2. CASE a \in use \ {ROOT_CLUSTER_NUMBER}
        <4>1. PICK b \in Clusters, j \in Slots : Used(d, b, j) /\ d[b][j].cluster = a
          BY <3>2 DEF Tree, Reached
        <4>2. Used(d2, b, j) /\ d2[b][j] = d[b][j]
          BY <1>9, <1>10, <4>1
        <4> QED
          BY <4>1, <4>2
      <3> QED
        BY <3>1, <3>2
    <2> QED
      BY <2>1, <2>2, <2>3, <2>4, <2>5 DEF Tree, EntriesSound
  <1>12. \A a \in Clusters : IsFolder(d[a]) => d2[a][1] = d[a][1]
    BY <1>8, Within DEF Tree, RootSound
  <1>13. Kept(d, d2, use \cup {c}, {})
    BY <1>5, <1>7, <1>11, <1>12 DEF Kept
  <1> QED
    BY <1>13 DEF d2

-----------------------------------------------------------------------------
(* The request Delete.                                                      *)

\* The disk after the writes of a deletion.
Deleted(d, parent, i, x) ==
    [d EXCEPT ![x] = EmptyTable, ![parent] = [d[parent] EXCEPT ![i] = EmptyEntry]]

\* When Delete comes to them.
CanDelete(d, use, parent, i, x) ==
    /\ d \in [Numbers -> Tables] /\ use \in SUBSET Clusters /\ Tree(d, use)
    /\ parent \in Clusters /\ i \in Slots /\ Used(d, parent, i)
    /\ x = d[parent][i].cluster /\ (d[parent][i].folder => ~NotEmpty(d[x]))

\* Removing a file or an empty folder leaves a tree; no edge is gone but the one
\* to it, and none led on from there.
LEMMA TreeDelete ==
    ASSUME NEW d, NEW use, NEW parent, NEW i, NEW x, CanDelete(d, use, parent, i, x)
    PROVE  /\ Kept(d, Deleted(d, parent, i, x), use \ {x}, {x})
           /\ \A j \in Slots : d[x][j] = EmptyEntry
  <1> USE DEF CanDelete
  <1> DEFINE d2 == Deleted(d, parent, i, x)
  <1>0. /\ i \in Indices
        /\ \A a \in Numbers : d[a] \in [Indices -> Entries]
    BY TablesAre, Sizes
  <1>1. EntrySound(d, use, parent, i)
    BY DEF Tree, EntriesSound
  <1>2. x \in Clusters /\ x \in use /\ x # ROOT_CLUSTER_NUMBER /\ parent \in use
    BY <1>1 DEF EntrySound
  <1>3. \A j \in Slots : d[x][j] = EmptyEntry
    <2>1. CASE d[parent][i].folder
      BY <2>1 DEF NotEmpty, Slots
    <2>2. CASE ~d[parent][i].folder
      <3>1. d[x] = EmptyTable
        BY <1>1, <2>2 DEF EntrySound
      <3> QED
        BY <3>1, EmptyIs, Sizes
    <2> QED
      BY <2>1, <2>2
  <1>4. parent # x
    BY <1>3 DEF Used
  <1>5. /\ d2[x] = EmptyTable
        /\ d2[parent] = [d[parent] EXCEPT ![i] = EmptyEntry]
        /\ \A a \in Numbers \ {x, parent} : d2[a] = d[a]
        /\ d2 = [a \in Numbers |-> d2[a]]
    BY <1>2, <1>4, Within DEF Deleted
  <1> HIDE DEF d2
  <1>6. /\ d2[parent] \in [Indices -> Entries]
        /\ d2[parent][i] = EmptyEntry /\ \A j \in Indices \ {i} : d2[parent][j] = d[parent][j]
    BY <1>0, <1>5, TablesAre, Within
  <1>7. d2 \in [Numbers -> Tables]
    <2>1. \A a \in Numbers : d2[a] \in [Indices -> Entries]
      BY <1>0, <1>5, <1>6, TablesAre
    <2> QED
      BY <1>5, <2>1, TablesAre
  <1>8. \A a \in Numbers \ {x} : d2[a][0] = d[a][0] /\ d2[a][1] = d[a][1]
    BY <1>5, <1>6, Sizes
  \* The entries after the deletion: those from before, without the one of x.
  <1>9. \A a \in Clusters, j \in Slots :
            /\ Used(d2, a, j) <=> Used(d, a, j) /\ ~(a = parent /\ j = i)
            /\ Used(d2, a, j) => d2[a][j] = d[a][j] /\ a # x
    <2> SUFFICES ASSUME NEW a \in Clusters, NEW j \in Slots
                 PROVE  /\ Used(d2, a, j) <=> Used(d, a, j) /\ ~(a = parent /\ j = i)
                        /\ Used(d2, a, j) => d2[a][j] = d[a][j] /\ a # x
      OBVIOUS
    <2>0. j \in Indices
      BY Sizes
    <2>1. CASE a = x
      <3>1. d2[a][j] = EmptyEntry /\ d[a][j] = EmptyEntry
        BY <1>3, <1>5, <2>0, <2>1, EmptyIs
      <3> QED
        BY <3>1 DEF Used
    <2>2. CASE a = parent /\ j = i
      BY <1>6, <2>2 DEF Used
    <2>3. CASE a = parent /\ j # i
      BY <1>4, <1>6, <2>0, <2>3 DEF Used
    <2>4. CASE a \notin {x, parent}
      BY <1>5, <2>4, Within DEF Used
    <2> QED
      BY <2>1, <2>2, <2>3, <2>4
  \* No other entry names x.
  <1>10. \A a \in Clusters, j \in Slots : Used(d2, a, j) => d[a][j].cluster # x
    <2> SUFFICES ASSUME NEW a \in Clusters, NEW j \in Slots, Used(d2, a, j), d[a][j].cluster = x
                 PROVE  FALSE
      OBVIOUS
    <2>1. Used(d, a, j) /\ ~(a = parent /\ j = i)
      BY <1>9
    <2> QED
      BY <2>1 DEF Tree, NamedOnce
  <1>11. \A a \in Clusters, b \in Clusters \ {x} : \A n : Edge(d, a, n, b) => Edge(d2, a, n, b)
    <2> SUFFICES ASSUME NEW a \in Clusters, NEW b \in Clusters \ {x}, NEW n, NEW j \in Slots,
                        d[a][j] = Folder(n, b)
                 PROVE  Edge(d2, a, n, b)
      BY DEF Edge
    <2>1. Used(d, a, j) /\ d[a][j].cluster = b
      BY FolderIs DEF Used
    <2>2. ~(a = parent /\ j = i)
      BY <2>1
    <2>3. d2[a][j] = d[a][j]
      BY <1>9, <2>1, <2>2
    <2> QED
      BY <2>3 DEF Edge
  <1>12. Tree(d2, use \ {x})
    <2>1. RootSound(d2, use \ {x})
      <3>1. ROOT_CLUSTER_NUMBER \in use \ {x}
        BY <1>2 DEF Tree, RootSound
      <3>2. \A a \in Numbers : IsFolder(d2[a]) => a \in use \ {x}
        <4> SUFFICES ASSUME NEW a \in Numbers, IsFolder(d2[a]) PROVE a \in use \ {x}
          OBVIOUS
        <4>1. a # x
          BY <1>5, EmptyIs
        <4>2. IsFolder(d[a])
          BY <1>8, <4>1 DEF IsFolder
        <4> QED
          BY <4>1, <4>2 DEF Tree, RootSound
      <3>3. ROOT_CLUSTER_NUMBER \in Clusters \ {x}
        BY <1>2, Sizes
      <3>4. /\ d2[ROOT_CLUSTER_NUMBER][0] = Folder("root", ROOT_CLUSTER_NUMBER)
            /\ d2[ROOT_CLUSTER_NUMBER][1] = Folder("root", ROOT_CLUSTER_NUMBER)
        BY <1>8, <3>3, Within DEF Tree, RootSound
      <3> QED
        BY <3>1, <3>2, <3>4 DEF RootSound
    <2>2. ASSUME NEW a \in Clusters, NEW j \in Slots, Used(d2, a, j)
          PROVE  EntrySound(d2, use \ {x}, a, j)
      <3>1. Used(d, a, j) /\ d2[a][j] = d[a][j] /\ a # x
        BY <1>9, <2>2
      <3>2. EntrySound(d, use, a, j)
        BY <3>1 DEF Tree, EntriesSound
      <3> DEFINE b == d[a][j].cluster
      <3>3. b # x
        BY <1>10, <2>2
      <3>4. b \in Clusters /\ b \in (use \ {x}) \ {ROOT_CLUSTER_NUMBER}
        BY <3>2, <3>3 DEF EntrySound
      <3>5. d2[b][0] = d[b][0] /\ d2[b][1] = d[b][1]
        BY <1>8, <3>4, Within
      <3>6. ~d[a][j].folder => d2[b] = EmptyTable
        <4> SUFFICES ASSUME ~d[a][j].folder PROVE d2[b] = EmptyTable
          OBVIOUS
        <4>1. d[b] = EmptyTable
          BY <3>2 DEF EntrySound
        <4>2. b # parent
          <5>1. d[b][i] = EmptyEntry
            BY <1>0, <4>1, EmptyIs
          <5> QED
            BY <5>1 DEF Used
        <4> QED
          BY <1>5, <3>4, <4>1, <4>2, Within
      <3> QED
        BY <3>1, <3>2, <3>4, <3>5, <3>6 DEF EntrySound
    <2>3. NamedOnce(d2)
      <3> SUFFICES ASSUME NEW a \in Clusters, NEW b \in Clusters, NEW j \in Slots, NEW k \in Slots,
                          Used(d2, a, j), Used(d2, b, k), d2[a][j].cluster = d2[b][k].cluster
                   PROVE  a = b /\ j = k
        BY DEF NamedOnce
      <3>1. Used(d, a, j) /\ d2[a][j] = d[a][j] /\ Used(d, b, k) /\ d2[b][k] = d[b][k]
        BY <1>9
      <3> QED
        BY <3>1 DEF Tree, NamedOnce
    <2>4. NamesDiffer(d2)
      <3> SUFFICES ASSUME NEW a \in Clusters, NEW j \in Slots, NEW k \in Slots,
                          Used(d2, a, j), Used(d2, a, k),
                          d2[a][j].name = d2[a][k].name, d2[a][j].folder = d2[a][k].folder
                   PROVE  j = k
        BY DEF NamesDiffer
      <3>1. Used(d, a, j) /\ d2[a][j] = d[a][j] /\ Used(d, a, k) /\ d2[a][k] = d[a][k]
        BY <1>9
      <3> QED
        BY <3>1 DEF Tree, NamesDiffer
    <2>5. Reached(d2, use \ {x})
      <3> SUFFICES ASSUME NEW a \in (use \ {x}) \ {ROOT_CLUSTER_NUMBER}
                   PROVE  \E b \in Clusters, j \in Slots : Used(d2, b, j) /\ d2[b][j].cluster = a
        BY DEF Reached
      <3>1. PICK b \in Clusters, j \in Slots : Used(d, b, j) /\ d[b][j].cluster = a
        BY DEF Tree, Reached
      <3>2. ~(b = parent /\ j = i)
        BY <3>1
      <3>3. Used(d2, b, j) /\ d2[b][j] = d[b][j]
        BY <1>9, <3>1, <3>2
      <3> QED
        BY <3>1, <3>3
    <2> QED
      BY <2>1, <2>2, <2>3, <2>4, <2>5 DEF Tree, EntriesSound
  <1>13. Kept(d, d2, use \ {x}, {x})
    BY <1>7, <1>8, <1>11, <1>12, Within DEF Kept
  <1> QED
    BY <1>3, <1>13 DEF d2

-----------------------------------------------------------------------------
(* Ways through the folders.                                                *)

\* What an edge says of the folder it leads to.
LEMMA EdgeEnd ==
    ASSUME NEW d \in [Numbers -> Tables], NEW use \in SUBSET Clusters, Tree(d, use),
           NEW a \in Clusters, NEW n, NEW b \in Clusters, Edge(d, a, n, b)
    PROVE  /\ b \in use /\ d[b][0] = Folder(n, b)
           /\ d[b][1].folder /\ d[b][1].cluster = a
           /\ NotEmpty(d[a])
  <1>1. PICK i \in Slots : d[a][i] = Folder(n, b)
    BY DEF Edge
  <1>2. Used(d, a, i) /\ d[a][i].folder /\ d[a][i].cluster = b
    BY <1>1, FolderIs DEF Used
  <1>3. EntrySound(d, use, a, i)
    BY <1>2 DEF Tree, EntriesSound
  <1>4. NotEmpty(d[a])
    BY <1>2 DEF NotEmpty, Used, Slots
  <1> QED
    BY <1>1, <1>2, <1>3, <1>4 DEF EntrySound

\* The empty path leads to the root.
LEMMA FollowsRoot == ASSUME NEW d PROVE Follows(d, <<>>, ROOT_CLUSTER_NUMBER)
  <1> DEFINE way == [i \in 0..0 |-> ROOT_CLUSTER_NUMBER]
  <1>1. Len(<<>>) = 0
    OBVIOUS
  <1>2. way \in [0..0 -> Clusters] /\ way[0] = ROOT_CLUSTER_NUMBER
    BY Sizes
  <1>3. \A i \in 1..0 : FALSE
    OBVIOUS
  <1> HIDE DEF way
  <1> QED
    BY <1>1, <1>2, <1>3 DEF Follows

\* And to no other folder.
LEMMA FollowsEmpty == ASSUME NEW d, NEW c, Follows(d, <<>>, c) PROVE c = ROOT_CLUSTER_NUMBER
  BY DEF Follows

\* A path leads to a folder in use that knows its own number.
LEMMA FollowsEnd ==
    ASSUME NEW d \in [Numbers -> Tables], NEW use \in SUBSET Clusters, Tree(d, use),
           NEW path \in Seq(EntryNames), NEW c, Follows(d, path, c)
    PROVE  c \in Clusters /\ c \in use /\ d[c][0].cluster = c /\ IsFolder(d[c])
  <1>1. PICK way \in [0..Len(path) -> Clusters] :
            /\ way[0] = ROOT_CLUSTER_NUMBER /\ way[Len(path)] = c
            /\ \A i \in 1..Len(path) : Edge(d, way[i - 1], path[i], way[i])
    BY DEF Follows
  <1>2. Len(path) \in Nat
    OBVIOUS
  <1>3. CASE Len(path) = 0
    <2>1. c = ROOT_CLUSTER_NUMBER
      BY <1>1, <1>3
    <2>2. d[c][0] = Folder("root", c) /\ c \in use
      BY <2>1, Sizes DEF Tree, RootSound
    <2> QED
      BY <2>1, <2>2, FolderIs, Sizes DEF IsFolder
  <1>4. CASE Len(path) # 0
    <2>1. PICK k \in Nat : Len(path) = k + 1
      BY <1>2, <1>4
    <2>2. way[k] \in Clusters /\ way[k + 1] \in Clusters /\ c = way[k + 1]
      BY <1>1, <2>1
    <2>3. Edge(d, way[k], path[k + 1], c)
      BY <1>1, <2>1, <2>2
    <2>4. c \in use /\ d[c][0] = Folder(path[k + 1], c)
      BY <2>2, <2>3, EdgeEnd
    <2> QED
      BY <2>2, <2>4, FolderIs DEF IsFolder
  <1> QED
    BY <1>3, <1>4

\* A path that lost no edge still leads to the same folder.
LEMMA FollowsKept ==
    ASSUME NEW d, NEW d2, NEW path \in Seq(EntryNames), NEW c, Follows(d, path, c),
           \A a \in Clusters, b \in Clusters : \A n :
                /\ Edge(d, a, n, b)
                /\ b = c \/ \E m : \E e \in Clusters : Edge(d, b, m, e)
                => Edge(d2, a, n, b)
    PROVE  Follows(d2, path, c)
  <1>1. PICK way \in [0..Len(path) -> Clusters] :
            /\ way[0] = ROOT_CLUSTER_NUMBER /\ way[Len(path)] = c
            /\ \A i \in 1..Len(path) : Edge(d, way[i - 1], path[i], way[i])
    BY DEF Follows
  <1>2. Len(path) \in Nat
    OBVIOUS
  <1>3. ASSUME NEW i \in 1..Len(path) PROVE Edge(d2, way[i - 1], path[i], way[i])
    <2>1. Edge(d, way[i - 1], path[i], way[i]) /\ way[i - 1] \in Clusters /\ way[i] \in Clusters
      BY <1>1, <1>2
    <2>2. CASE i = Len(path)
      BY <1>1, <2>1, <2>2
    <2>3. CASE i # Len(path)
      <3>1. i + 1 \in 1..Len(path) /\ (i + 1) - 1 = i
        BY <1>2, <2>3
      <3>2. Edge(d, way[i], path[i + 1], way[i + 1]) /\ way[i + 1] \in Clusters
        BY <1>1, <1>2, <3>1
      <3> QED
        BY <2>1, <3>2
    <2> QED
      BY <2>2, <2>3
  <1> QED
    BY <1>1, <1>3 DEF Follows

\* One folder further down.
LEMMA FollowsDown ==
    ASSUME NEW d, NEW path \in Seq(EntryNames), NEW c, Follows(d, path, c),
           NEW n \in EntryNames, NEW b \in Clusters, Edge(d, c, n, b)
    PROVE  Follows(d, Append(path, n), b)
  <1>1. PICK way \in [0..Len(path) -> Clusters] :
            /\ way[0] = ROOT_CLUSTER_NUMBER /\ way[Len(path)] = c
            /\ \A i \in 1..Len(path) : Edge(d, way[i - 1], path[i], way[i])
    BY DEF Follows
  <1>2. PICK k \in Nat : k = Len(path)
    OBVIOUS
  <1> DEFINE p == Append(path, n)
             w == [i \in 0..(k + 1) |-> IF i = k + 1 THEN b ELSE way[i]]
  <1>3. Len(p) = k + 1 /\ p[k + 1] = n /\ \A i \in 1..k : p[i] = path[i]
    BY <1>2
  <1>4. w \in [0..(k + 1) -> Clusters] /\ w[k + 1] = b /\ \A i \in 0..k : w[i] = way[i]
    BY <1>1, <1>2
  <1> HIDE DEF p, w
  <1>5. ASSUME NEW i \in 1..(k + 1) PROVE Edge(d, w[i - 1], p[i], w[i])
    <2>1. CASE i = k + 1
      <3>1. w[i - 1] = c /\ p[i] = n /\ w[i] = b
        BY <1>1, <1>2, <1>3, <1>4, <2>1
      <3> QED
        BY <3>1
    <2>2. CASE i # k + 1
      <3>1. i \in 1..k /\ i \in 0..k /\ i - 1 \in 0..k
        BY <2>2
      <3>2. w[i - 1] = way[i - 1] /\ p[i] = path[i] /\ w[i] = way[i]
        BY <1>3, <1>4, <3>1
      <3>3. Edge(d, way[i - 1], path[i], way[i])
        BY <1>1, <1>2, <3>1
      <3> QED
        BY <3>2, <3>3
    <2> QED
      BY <2>1, <2>2
  <1>6. w[0] = ROOT_CLUSTER_NUMBER
    BY <1>1, <1>4
  <1>7. Follows(d, p, b)
    BY <1>3, <1>4, <1>5, <1>6 DEF Follows
  <1> QED
    BY <1>7 DEF p

\* One folder back: the second entry of a folder names the one before it.
LEMMA FollowsUp ==
    ASSUME NEW d \in [Numbers -> Tables], NEW use \in SUBSET Clusters, Tree(d, use),
           NEW path \in Seq(EntryNames), path # <<>>, NEW c, Follows(d, path, c)
    PROVE  /\ Front(path) \in Seq(EntryNames)
           /\ Follows(d, Front(path), d[c][1].cluster)
           /\ d[c][1].folder /\ NotEmpty(d[d[c][1].cluster])
  <1>1. PICK way \in [0..Len(path) -> Clusters] :
            /\ way[0] = ROOT_CLUSTER_NUMBER /\ way[Len(path)] = c
            /\ \A i \in 1..Len(path) : Edge(d, way[i - 1], path[i], way[i])
    BY DEF Follows
  <1>2. PICK k \in Nat : Len(path) = k + 1
    <2>1. Len(path) \in Nat /\ Len(path) # 0
      OBVIOUS
    <2> QED
      BY <2>1
  <1> DEFINE p == Front(path)
             w == [i \in 0..k |-> way[i]]
  <1>3. p = [i \in 1..k |-> path[i]]
    BY <1>2 DEF Front
  <1>4. p \in Seq(EntryNames) /\ Len(p) = k /\ \A i \in 1..k : p[i] = path[i]
    BY <1>2, <1>3
  <1>5. w \in [0..k -> Clusters] /\ \A i \in 0..k : w[i] = way[i]
    BY <1>1, <1>2
  <1> HIDE DEF p, w
  <1>6. way[k] \in Clusters /\ c \in Clusters /\ Edge(d, way[k], path[k + 1], c)
    BY <1>1, <1>2
  <1>7. d[c][1].cluster = way[k] /\ d[c][1].folder /\ NotEmpty(d[way[k]])
    BY <1>6, EdgeEnd
  <1>8. \A i \in 1..k : Edge(d, w[i - 1], p[i], w[i])
    BY <1>1, <1>2, <1>4, <1>5
  <1>9. Follows(d, p, way[k])
    <2>1. w[0] = ROOT_CLUSTER_NUMBER /\ w[k] = way[k]
      BY <1>1, <1>5
    <2>2. w \in [0..Len(p) -> Clusters] /\ \A i \in 1..Len(p) : Edge(d, w[i - 1], p[i], w[i])
      BY <1>4, <1>5, <1>8
    <2>3. w[Len(p)] = way[k]
      BY <1>4, <2>1
    <2> QED
      BY <2>1, <2>2, <2>3 DEF Follows
  <1> QED
    BY <1>4, <1>7, <1>9 DEF p

\* The folder a search finds is the one the edge leads to.
LEMMA EdgeChild ==
    ASSUME disk \in [Numbers -> Tables], NamesDiffer(disk),
           NEW a \in Clusters, NEW n, NEW b \in Clusters, Edge(disk, a, n, b)
    PROVE  b = Child(a, n)
  <1> DEFINE hits == {i \in Slots : disk[a][i].name = n /\ disk[a][i].folder}
             h == CHOOSE i \in hits : TRUE
  <1>1. PICK i \in Slots : disk[a][i] = Folder(n, b)
    BY DEF Edge
  <1>2. disk[a][i].name = n /\ disk[a][i].folder = TRUE /\ disk[a][i].cluster = b
    BY <1>1, FolderIs DEF Folder, Entry
  <1>3. i \in hits
    BY <1>2
  <1>4. h \in hits
    BY <1>3
  <1>5. disk[a][h].folder = TRUE
    <2>1. disk[a][h] \in Entries
      BY <1>4, TablesAre, Sizes
    <2> QED
      BY <1>4, <2>1 DEF Entries
  <1>6. Used(disk, a, i) /\ Used(disk, a, h)
    BY <1>2, <1>5, EmptyIs DEF Used
  <1>7. h = i
    BY <1>2, <1>4, <1>5, <1>6 DEF NamesDiffer
  <1>8. Child(a, n) = disk[a][h].cluster
    BY <1>3 DEF Child, Slots
  <1> QED
    BY <1>2, <1>7, <1>8

\* A way that can be followed on the disk is a way the path leads.
LEMMA FollowsLeads ==
    ASSUME disk \in [Numbers -> Tables], NamesDiffer(disk),
           NEW path \in Seq(EntryNames), NEW c, Follows(disk, path, c)
    PROVE  Leads(path, c)
  <1>1. PICK w \in [0..Len(path) -> Clusters] :
            /\ w[0] = ROOT_CLUSTER_NUMBER /\ w[Len(path)] = c
            /\ \A i \in 1..Len(path) : Edge(disk, w[i - 1], path[i], w[i])
    BY DEF Follows
  <1>2. PICK k \in Nat : k = Len(path)
    OBVIOUS
  <1> DEFINE way == [i \in 1..k |-> w[i]]
             at(i) == IF i = 0 THEN ROOT_CLUSTER_NUMBER ELSE way[i]
  <1>3. way \in [1..k -> Clusters]
    BY <1>1, <1>2
  <1>4. \A i \in 0..k : at(i) = w[i]
    BY <1>1, <1>2
  <1>5. \A i \in 1..k : at(i) = Child(at(i - 1), path[i])
    <2> SUFFICES ASSUME NEW i \in 1..k PROVE at(i) = Child(at(i - 1), path[i])
      OBVIOUS
    <2>1. at(i) = w[i] /\ at(i - 1) = w[i - 1] /\ w[i] \in Clusters /\ w[i - 1] \in Clusters
      BY <1>1, <1>2, <1>4
    <2>2. Edge(disk, w[i - 1], path[i], w[i])
      BY <1>1, <1>2
    <2>3. w[i] = Child(w[i - 1], path[i])
      BY <2>1, <2>2, EdgeChild
    <2> QED
      BY <2>1, <2>3
  <1>6. at(k) = c
    BY <1>1, <1>2, <1>4
  <1> SUFFICES \E v \in [1..k -> Clusters] :
                /\ \A i \in 1..k : (IF i = 0 THEN ROOT_CLUSTER_NUMBER ELSE v[i])
                                        = Child(IF i - 1 = 0 THEN ROOT_CLUSTER_NUMBER ELSE v[i - 1], path[i])
                /\ (IF k = 0 THEN ROOT_CLUSTER_NUMBER ELSE v[k]) = c
    BY <1>2 DEF Leads
  <1> HIDE DEF way
  <1> QED
    BY <1>3, <1>5, <1>6

-----------------------------------------------------------------------------
(* The operators that make up a command, on one shell.                      *)

\* What a step must leave of the shell that made it: d is the disk, known says
\* that the shell is not lost in an undamaged tree, alone that no other runs.
Good(d, sh, known, alone) ==
    /\ sh \in States /\ Proper(sh) /\ sh.pc # "off"
    /\ known => Oriented(d, sh)
    /\ alone => Fresh(d, sh)

\* The same in the middle of change_path's loop, where nothing may be left to do.
Midway(d, sh, known, alone) ==
    /\ sh \in States
    /\ sh.pc = "walk"
    /\ sh.ok \in {"prompt", "exec", sh.kind}
    /\ sh.ok \in {"mkdir", "rm", "cat"} => sh.bad = "cancel"
    /\ sh.kind = "mkdir" => sh.last \in Names
    /\ sh.kind = "rm" => sh.last \in Names \cup {".."}
    /\ sh.bad = "cancel" =>
        Home(sh)
    /\ known => Oriented(d, sh)
    /\ alone => Fresh(d, sh)

\* A shell at its prompt.
LEMMA AtGood ==
    ASSUME NEW d, NEW known \in BOOLEAN, NEW alone \in BOOLEAN,
           NEW dir \in Numbers, NEW table \in Tables, NEW path \in Seq(EntryNames),
           known => Follows(d, path, dir) /\ SameParent(d, table, dir),
           alone => table = d[dir]
    PROVE  Good(d, At(dir, table, path), known, alone)
  <1> DEFINE sh == At(dir, table, path)
  <1>1. sh \in States
    <2>1. EmptyTable \in Tables
      BY TablesAre
    <2>2. <<>> \in Seq(EntryNames) /\ <<>> \in Seq(Components)
      OBVIOUS
    <2> QED
      BY <2>1, <2>2 DEF At, States
  <1>2. sh.pc = "prompt" /\ sh.dir = dir /\ sh.table = table /\ sh.path = path
    BY DEF At
  <1> HIDE DEF sh
  <1>3. ~Returning(sh) /\ Proper(sh)
    BY <1>2 DEF Returning, Proper
  <1>4. known => Oriented(d, sh)
    BY <1>2, <1>3 DEF Oriented
  <1>5. alone => Fresh(d, sh)
    BY <1>2 DEF Fresh
  <1>6. Good(d, sh, known, alone)
    BY <1>1, <1>2, <1>3, <1>4, <1>5 DEF Good
  <1> QED
    BY <1>6 DEF sh

\* A walk with something left to do goes on.
LEMMA WalkGood ==
    ASSUME NEW d, NEW known \in BOOLEAN, NEW alone \in BOOLEAN, NEW sh,
           sh.pc = "walk" /\ sh.todo # <<>>
    PROVE  Midway(d, sh, known, alone) <=> Good(d, sh, known, alone)
  <1>1. Returning(sh) <=> sh.bad = "cancel"
    BY DEF Returning
  <1> QED
    BY <1>1 DEF Midway, Good, Proper

\* The end of an iteration of change_path.
LEMMA ArrivedGood ==
    ASSUME NEW d, NEW known \in BOOLEAN, NEW alone \in BOOLEAN, NEW sh,
           Midway(d, sh, known, alone)
    PROVE  Good(d, Arrived(sh), known, alone)
  <1>0. sh \in States /\ sh.pc = "walk"
    BY DEF Midway
  <1>1. CASE sh.todo # <<>>
    BY <1>0, <1>1, WalkGood DEF Arrived
  <1>2. CASE sh.todo = <<>>
    <2> DEFINE c == [Committed(sh) EXCEPT !.ret = 0]
    <2>1. /\ c \in States
          /\ c.dir = sh.tdir /\ c.table = sh.ttable /\ c.path = sh.path
      BY <1>0 DEF Committed, States
    <2>2. Arrived(sh) = Goto(c, sh.ok)
      BY <1>2 DEF Arrived
    <2>3. /\ known => Follows(d, sh.path, sh.tdir) /\ SameParent(d, sh.ttable, sh.tdir)
          /\ alone => sh.ttable = d[sh.tdir]
      BY <1>0 DEF Midway, Oriented, Fresh
    <2>4. sh.tdir \in Numbers /\ sh.ttable \in Tables /\ sh.path \in Seq(EntryNames)
      BY <1>0 DEF States
    <2>5. CASE sh.ok = "prompt"
      <3>1. Arrived(sh) = At(sh.tdir, sh.ttable, sh.path)
        BY <2>1, <2>2, <2>5 DEF Goto, Prompt
      <3> QED
        BY <2>3, <2>4, <3>1, AtGood
    <2>6. CASE sh.ok # "prompt"
      <3> DEFINE r == [c EXCEPT !.pc = sh.ok]
      <3>1. Arrived(sh) = r
        BY <2>2, <2>6 DEF Goto
      <3>2. sh.ok \in {"mkdir", "rm", "cat", "exec"}
        BY <1>0, <2>6 DEF States
      <3>3. /\ r \in States
            /\ r.pc = sh.ok /\ r.dir = sh.tdir /\ r.table = sh.ttable /\ r.path = sh.path
            /\ r.kind = sh.kind /\ r.last = sh.last /\ r.absolute = sh.absolute
            /\ r.odir = sh.odir /\ r.opath = sh.opath /\ r.from = sh.from
        BY ZenonT(40), <1>0, <3>2 DEF Committed, States
      <3> HIDE DEF r
      <3>4. Returning(r) => sh.bad = "cancel"
        BY <3>2, <3>3 DEF Midway, Returning
      <3>5. Proper(r)
        <4>1. sh.ok \in {"exec", sh.kind}
          BY <2>6 DEF Midway
        <4>2. r.pc = "mkdir" => r.last \in Names
          BY <3>3, <4>1 DEF Midway
        <4>3. r.pc = "rm" => r.last \in Names \cup {".."}
          BY <3>3, <4>1 DEF Midway
        <4>4. Returning(r) => Home(r)
          BY <3>3, <3>4 DEF Midway, Home
        <4> QED
          BY <3>2, <3>3, <4>2, <4>3, <4>4 DEF Proper
      <3>6. known => Oriented(d, r)
        <4> SUFFICES ASSUME known PROVE Oriented(d, r)
          OBVIOUS
        <4>1. Returning(r) => Returning(sh)
          BY <1>0, <3>4 DEF Returning
        <4>2. Returning(r) => Follows(d, r.opath, r.odir)
          BY <3>3, <4>1 DEF Midway, Oriented
        <4> QED
          BY <2>3, <3>2, <3>3, <4>2 DEF Oriented
      <3>7. alone => Fresh(d, r)
        BY <2>3, <3>2, <3>3 DEF Fresh
      <3>8. Good(d, r, known, alone)
        BY <3>2, <3>3, <3>5, <3>6, <3>7 DEF Good
      <3> QED
        BY <3>1, <3>8
    <2> QED
      BY <2>5, <2>6
  <1> QED
    BY <1>1, <1>2

\* A walk that failed.
LEMMA FailedGood ==
    ASSUME NEW d, NEW known \in BOOLEAN, NEW alone \in BOOLEAN, NEW sh,
           Good(d, sh, known, alone), sh.pc = "walk", NEW err \in {-1, 1, 2}
    PROVE  Good(d, Failed(sh, err), known, alone)
  <1>0. sh \in States
    BY DEF Good
  <1> DEFINE c == [sh EXCEPT !.path = sh.wpath, !.ret = err]
  <1>1. /\ c \in States
        /\ c.dir = sh.dir /\ c.table = sh.table /\ c.path = sh.wpath
    BY <1>0 DEF States
  <1>2. Failed(sh, err) = Goto(c, sh.bad)
    BY DEF Failed
  <1>3. CASE sh.bad = "prompt"
    <2>1. Failed(sh, err) = At(sh.dir, sh.table, sh.wpath)
      BY <1>1, <1>2, <1>3 DEF Goto, Prompt
    <2>2. sh.dir \in Numbers /\ sh.table \in Tables /\ sh.wpath \in Seq(EntryNames)
      BY <1>0 DEF States
    <2>3. /\ known => Follows(d, sh.wpath, sh.dir) /\ SameParent(d, sh.table, sh.dir)
          /\ alone => sh.table = d[sh.dir]
      BY DEF Good, Oriented, Fresh
    <2> QED
      BY <2>1, <2>2, <2>3, AtGood
  <1>4. CASE sh.bad = "cancel"
    <2> DEFINE r == [c EXCEPT !.pc = "cancel"]
    <2>1. Failed(sh, err) = r
      BY <1>2, <1>4 DEF Goto
    <2>2. /\ r \in States
          /\ r.pc = "cancel" /\ r.kind = sh.kind /\ r.absolute = sh.absolute
          /\ r.odir = sh.odir /\ r.opath = sh.opath /\ r.from = sh.from
      BY <1>0 DEF States
    <2> HIDE DEF r
    <2>3. Returning(sh)
      BY <1>4 DEF Returning
    <2>4. Proper(r)
      BY <2>2, <2>3 DEF Good, Proper, Home
    <2>5. known => Oriented(d, r)
      BY <2>2, <2>3 DEF Good, Oriented
    <2>6. alone => Fresh(d, r)
      BY <2>2 DEF Fresh
    <2>7. Good(d, r, known, alone)
      BY <2>2, <2>4, <2>5, <2>6 DEF Good
    <2> QED
      BY <2>1, <2>7
  <1> QED
    BY <1>0, <1>3, <1>4 DEF States

\* The locals of change_path when it begins.
Walking(sh, parts, ok, bad) ==
    [sh EXCEPT !.pc = "walk", !.todo = parts, !.ok = ok, !.bad = bad,
               !.tdir = sh.dir, !.ttable = sh.table, !.wpath = sh.path]

\* What they are.
LEMMA WalkRecord ==
    ASSUME NEW sh \in States, NEW parts \in Seq(Components),
           NEW ok \in Labels, NEW bad \in Refuges
    PROVE  LET r == Walking(sh, parts, ok, bad) IN
           /\ r \in States
           /\ r.pc = "walk" /\ r.ok = ok /\ r.bad = bad /\ r.todo = parts
           /\ r.tdir = sh.dir /\ r.ttable = sh.table /\ r.wpath = sh.path
           /\ r.dir = sh.dir /\ r.table = sh.table /\ r.path = sh.path
           /\ r.kind = sh.kind /\ r.last = sh.last /\ r.absolute = sh.absolute
           /\ r.odir = sh.odir /\ r.opath = sh.opath /\ r.from = sh.from
  <1>1. Walking(sh, parts, ok, bad) \in States
    BY ZenonT(40) DEF States, Walking, Labels, Refuges
  <1> QED
    BY <1>1 DEF States, Walking, Labels, Refuges

\* change_path begins, from a place the shell knows.
LEMMA ChangeGood ==
    ASSUME NEW d, NEW known \in BOOLEAN, NEW alone \in BOOLEAN, NEW sh \in States,
           known => Follows(d, sh.path, sh.dir) /\ SameParent(d, sh.table, sh.dir),
           alone => sh.table = d[sh.dir],
           NEW parts \in Seq(Components),
           NEW ok \in Labels, NEW bad \in Refuges,
           ok \in {"prompt", "exec", sh.kind},
           ok \in {"mkdir", "rm", "cat"} => bad = "cancel",
           sh.kind = "mkdir" => sh.last \in Names,
           sh.kind = "rm" => sh.last \in Names \cup {".."},
           bad = "cancel" =>
                /\ Home(sh)
                /\ known => Follows(d, sh.opath, sh.odir)
    PROVE  Good(d, change_path(sh, parts, ok, bad), known, alone)
  <1> DEFINE r == Walking(sh, parts, ok, bad)
  <1>1. /\ r \in States
        /\ r.pc = "walk" /\ r.ok = ok /\ r.bad = bad /\ r.todo = parts
        /\ r.tdir = sh.dir /\ r.ttable = sh.table /\ r.wpath = sh.path
        /\ r.dir = sh.dir /\ r.table = sh.table /\ r.path = sh.path
        /\ r.kind = sh.kind /\ r.last = sh.last /\ r.absolute = sh.absolute
        /\ r.odir = sh.odir /\ r.opath = sh.opath /\ r.from = sh.from
    BY WalkRecord
  <1>2. change_path(sh, parts, ok, bad) = Arrived(r)
    BY DEF change_path, Walking
  <1> HIDE DEF r
  <1>3. Returning(r) <=> bad = "cancel"
    BY <1>1 DEF Returning
  <1>4. known => Oriented(d, r)
    BY <1>1, <1>3 DEF Oriented
  <1>5. alone => Fresh(d, r)
    BY <1>1 DEF Fresh
  <1>6. bad = "cancel" => Home(r)
    BY <1>1 DEF Home
  <1>7. Midway(d, r, known, alone)
    BY <1>1, <1>4, <1>5, <1>6 DEF Midway
  <1> QED
    BY <1>2, <1>7, ArrivedGood

\* A shell waiting at its prompt knows where it is.
LEMMA PromptKnows ==
    ASSUME NEW d, NEW known \in BOOLEAN, NEW alone \in BOOLEAN, NEW sh,
           Good(d, sh, known, alone), sh.pc = "prompt"
    PROVE  /\ sh \in States
           /\ known => Follows(d, sh.path, sh.dir) /\ SameParent(d, sh.table, sh.dir)
           /\ alone => sh.table = d[sh.dir]
  BY DEF Good, Oriented, Fresh

\* A sequence without its last element.
LEMMA FrontIs ==
    ASSUME NEW S, NEW q \in Seq(S), q # <<>>
    PROVE  Front(q) \in Seq(S) /\ Last(q) \in S
  <1>1. PICK k \in Nat : Len(q) = k + 1
    <2>1. Len(q) \in Nat /\ Len(q) # 0
      OBVIOUS
    <2> QED
      BY <2>1
  <1>2. Front(q) = [i \in 1..k |-> q[i]]
    BY <1>1 DEF Front
  <1>3. Front(q) \in Seq(S)
    BY <1>1, <1>2
  <1>4. Last(q) \in S
    BY <1>1 DEF Last
  <1> QED
    BY <1>3, <1>4

\* The components of a path.
LEMMA PartsAre ==
    ASSUME NEW p \in Paths
    PROVE  /\ p.absolute \in BOOLEAN
           /\ p.parts \in Seq(Components) /\ Front(p.parts) \in Seq(Components)
           /\ Last(p.parts) \in Components
  <1>1. p.absolute \in BOOLEAN /\ p.parts \in Seq(Components) /\ p.parts # <<>>
    BY ShellAssumption
  <1>2. Front(p.parts) \in Seq(Components) /\ Last(p.parts) \in Components
    BY <1>1, FrontIs
  <1> QED
    BY <1>1, <1>2

\* An absolute path moves the shell to the root, where it knows where it is.
LEMMA ParseGood ==
    ASSUME disk \in [Numbers -> Tables], NEW known \in BOOLEAN, NEW alone \in BOOLEAN,
           NEW sh, Good(disk, sh, known, alone), sh.pc = "prompt", NEW p \in Paths
    PROVE  LET q == parse_path(sh, p) IN
           /\ Good(disk, q, known, alone) /\ q.pc = "prompt"
           /\ <<q.dir, q.path>> = IF p.absolute THEN <<ROOT_CLUSTER_NUMBER, <<>>>>
                                  ELSE <<sh.dir, sh.path>>
  <1>1. CASE ~p.absolute
    BY <1>1 DEF parse_path
  <1>2. CASE p.absolute
    <2> DEFINE q == [sh EXCEPT !.dir = ROOT_CLUSTER_NUMBER,
                               !.table = disk[ROOT_CLUSTER_NUMBER], !.path = <<>>]
    <2>0. sh \in States
      BY DEF Good
    <2>1. /\ q \in States /\ q.pc = "prompt" /\ q.dir = ROOT_CLUSTER_NUMBER
          /\ q.path = <<>> /\ q.table = disk[ROOT_CLUSTER_NUMBER]
      <3>1. ROOT_CLUSTER_NUMBER \in Clusters /\ disk[ROOT_CLUSTER_NUMBER] \in Tables
        BY Sizes
      <3>2. <<>> \in Seq(EntryNames)
        OBVIOUS
      <3> QED
        BY ZenonT(40), <2>0, <3>1, <3>2, Within DEF States
    <2> HIDE DEF q
    <2>2. ~Returning(q) /\ Proper(q)
      BY <2>1 DEF Returning, Proper
    <2>3. Oriented(disk, q)
      BY <2>1, <2>2, FollowsRoot DEF Oriented, SameParent
    <2>4. Fresh(disk, q)
      BY <2>1 DEF Fresh
    <2>5. Good(disk, q, known, alone)
      BY <2>1, <2>2, <2>3, <2>4 DEF Good
    <2>6. parse_path(sh, p) = q
      BY <1>2 DEF parse_path, q
    <2> QED
      BY <1>2, <2>1, <2>5, <2>6
  <1> QED
    BY <1>1, <1>2

\* A command begins.
LEMMA BeginGood ==
    ASSUME disk \in [Numbers -> Tables], NEW known \in BOOLEAN, NEW alone \in BOOLEAN,
           NEW s \in Shells, Good(disk, shell[s], known, alone), shell[s].pc = "prompt",
           NEW kind \in Commands, NEW p \in Paths, Nameable(kind, p),
           kind = "mkdir" => Last(p.parts) \in Names
    PROVE  Good(disk, Begin(s, kind, p), known, alone)
  <1> DEFINE q     == parse_path(shell[s], p)
             back  == Remembered(kind, shell[s], q)
             r     == [q EXCEPT !.kind = kind, !.absolute = p.absolute, !.last = Last(p.parts),
                                !.odir = back.dir, !.opath = back.path,
                                !.from = <<shell[s].dir, shell[s].path>>]
             parts == IF kind = "cd" THEN p.parts ELSE Front(p.parts)
             ok    == IF kind = "cd" THEN "prompt" ELSE kind
             bad   == IF kind \in {"cd", "exec"} THEN "prompt" ELSE "cancel"
  <1>1. Begin(s, kind, p) = change_path(r, parts, ok, bad)
    BY DEF Begin
  <1>2. /\ Good(disk, q, known, alone) /\ q.pc = "prompt"
        /\ <<q.dir, q.path>> = IF p.absolute THEN <<ROOT_CLUSTER_NUMBER, <<>>>>
                               ELSE <<shell[s].dir, shell[s].path>>
    BY ParseGood
  <1> HIDE DEF q
  <1>3. /\ q \in States
        /\ known => Follows(disk, q.path, q.dir) /\ SameParent(disk, q.table, q.dir)
        /\ alone => q.table = disk[q.dir]
    BY <1>2, PromptKnows
  <1>4. /\ shell[s] \in States
        /\ known => Follows(disk, shell[s].path, shell[s].dir)
    BY PromptKnows
  <1>5. /\ back.dir \in Numbers /\ back.path \in Seq(EntryNames)
        /\ known => Follows(disk, back.path, back.dir)
        /\ <<back.dir, back.path>> = IF p.absolute /\ kind # "rm" THEN <<ROOT_CLUSTER_NUMBER, <<>>>>
                                     ELSE <<shell[s].dir, shell[s].path>>
    <2>1. CASE kind = "rm"
      BY <1>4, <2>1 DEF Remembered, States
    <2>2. CASE kind # "rm"
      BY <1>2, <1>3, <2>2 DEF Remembered, States
    <2> QED
      BY <2>1, <2>2
  <1> HIDE DEF back
  <1>6. <<shell[s].dir, shell[s].path>> \in Numbers \X Seq(EntryNames)
    BY <1>4 DEF States
  <1>7. p.absolute \in BOOLEAN /\ parts \in Seq(Components) /\ Last(p.parts) \in Components
    BY PartsAre
  <1>8. /\ r \in States
        /\ r.dir = q.dir /\ r.path = q.path /\ r.table = q.table
        /\ r.kind = kind /\ r.absolute = p.absolute /\ r.last = Last(p.parts)
        /\ r.odir = back.dir /\ r.opath = back.path
        /\ r.from = <<shell[s].dir, shell[s].path>>
    <2>1. kind \in Commands \cup {"none"} /\ Last(p.parts) \in Components \cup {NoName}
      BY <1>7
    <2> QED
      BY ZenonT(40), <1>3, <1>5, <1>6, <1>7, <2>1 DEF States
  <1>9. kind = "rm" => Last(p.parts) \in Names \cup {".."}
    BY <1>7 DEF Nameable, Components
  <1>10. /\ ok \in Labels /\ bad \in Refuges
         /\ ok \in {"prompt", "exec", kind} /\ (ok \in {"mkdir", "rm", "cat"} => bad = "cancel")
    BY DEF Commands, Labels, Refuges
  <1> HIDE DEF r, parts, ok, bad
  <1>11. /\ Home(r)
         /\ known => Follows(disk, r.opath, r.odir)
    BY <1>5, <1>8 DEF Home
  <1>12. /\ known => Follows(disk, r.path, r.dir) /\ SameParent(disk, r.table, r.dir)
         /\ alone => r.table = disk[r.dir]
    BY <1>3, <1>8
  <1>13. /\ r.kind = "mkdir" => r.last \in Names
         /\ r.kind = "rm" => r.last \in Names \cup {".."}
         /\ ok \in {"prompt", "exec", r.kind}
    BY <1>8, <1>9, <1>10
  <1>14. Good(disk, change_path(r, parts, ok, bad), known, alone)
    <2>1. bad = "cancel" =>
                /\ Home(r)
                /\ known => Follows(disk, r.opath, r.odir)
      BY <1>11
    <2>2. r \in States /\ parts \in Seq(Components)
      BY <1>7, <1>8
    <2> QED
      BY <2>1, <2>2, <1>10, <1>12, <1>13, ChangeGood
  <1> QED
    BY <1>1, <1>14

\* What the next component leaves to do.
LEMMA TailIs ==
    ASSUME NEW todo \in Seq(Components), todo # <<>>
    PROVE  Tail(todo) \in Seq(Components) /\ Head(todo) \in Components
  OBVIOUS

\* One step of change_path's loop changes the place it has come to.
Moved(sh, tdir, ttable, path) ==
    [sh EXCEPT !.tdir = tdir, !.ttable = ttable, !.path = path, !.todo = Tail(@)]

\* What that leaves as it was.
LEMMA MovedRecord ==
    ASSUME NEW sh \in States, sh.todo # <<>>,
           NEW tdir \in Numbers, NEW ttable \in Tables, NEW path \in Seq(EntryNames)
    PROVE  LET r == Moved(sh, tdir, ttable, path) IN
           /\ r \in States
           /\ r.pc = sh.pc /\ r.ok = sh.ok /\ r.bad = sh.bad /\ r.wpath = sh.wpath
           /\ r.tdir = tdir /\ r.ttable = ttable /\ r.path = path
           /\ r.dir = sh.dir /\ r.table = sh.table
           /\ r.kind = sh.kind /\ r.last = sh.last /\ r.absolute = sh.absolute
           /\ r.odir = sh.odir /\ r.opath = sh.opath /\ r.from = sh.from
  <1>1. Tail(sh.todo) \in Seq(Components)
    BY TailIs DEF States
  <1>2. Moved(sh, tdir, ttable, path) \in States
    BY <1>1 DEF States, Moved
  <1> QED
    BY <1>2 DEF States, Moved

\* A walk that knows its new place can go on.
LEMMA MovedMidway ==
    ASSUME NEW d, NEW known \in BOOLEAN, NEW alone \in BOOLEAN,
           NEW sh, Good(d, sh, known, alone), sh.pc = "walk",
           NEW tdir \in Numbers, NEW ttable \in Tables, NEW path \in Seq(EntryNames),
           known => Follows(d, path, tdir) /\ SameParent(d, ttable, tdir),
           alone => ttable = d[tdir]
    PROVE  Midway(d, Moved(sh, tdir, ttable, path), known, alone)
  <1> DEFINE r == Moved(sh, tdir, ttable, path)
  <1>1. sh \in States /\ sh.todo # <<>>
    BY DEF Good, Proper
  <1>2. /\ r \in States
        /\ r.pc = sh.pc /\ r.ok = sh.ok /\ r.bad = sh.bad /\ r.wpath = sh.wpath
        /\ r.tdir = tdir /\ r.ttable = ttable /\ r.path = path
        /\ r.dir = sh.dir /\ r.table = sh.table
        /\ r.kind = sh.kind /\ r.last = sh.last /\ r.absolute = sh.absolute
        /\ r.odir = sh.odir /\ r.opath = sh.opath /\ r.from = sh.from
    BY <1>1, MovedRecord
  <1> HIDE DEF r
  <1>3. Midway(d, sh, known, alone)
    BY <1>1, WalkGood
  <1>4. Returning(r) <=> Returning(sh)
    BY <1>2 DEF Returning
  <1>5. known => Oriented(d, r)
    <2> SUFFICES ASSUME known PROVE Oriented(d, r)
      OBVIOUS
    <2>1. Oriented(d, sh)
      BY <1>3 DEF Midway
    <2> QED
      BY <1>2, <1>4, <2>1 DEF Oriented
  <1>6. alone => Fresh(d, r)
    BY <1>2, <1>3 DEF Midway, Fresh
  <1>7. r.bad = "cancel" => Home(r)
    BY <1>2, <1>3 DEF Midway, Home
  <1>8. Midway(d, r, known, alone)
    BY <1>2, <1>3, <1>5, <1>6, <1>7 DEF Midway
  <1> QED
    BY <1>8 DEF r

\* One component "..".
LEMMA UpGood ==
    ASSUME disk \in [Numbers -> Tables], in_use \in SUBSET Clusters,
           NEW known \in BOOLEAN, NEW alone \in BOOLEAN, known => Tree(disk, in_use),
           NEW sh, Good(disk, sh, known, alone), sh.pc = "walk", sh.path # <<>>
    PROVE  Good(disk, Arrived(Up(sh)), known, alone)
  <1> DEFINE up == sh.ttable[1].cluster
  <1>1. sh \in States /\ sh.ttable \in Tables /\ sh.path \in Seq(EntryNames) /\ sh.tdir \in Numbers
    BY DEF Good, States
  <1>2. up \in Numbers
    BY <1>1, TablesAre, Sizes DEF Entries
  <1> HIDE DEF up
  <1>3. Front(sh.path) \in Seq(EntryNames)
    BY <1>1, FrontIs
  <1>4. known => Follows(disk, Front(sh.path), up)
    <2> SUFFICES ASSUME known PROVE Follows(disk, Front(sh.path), up)
      OBVIOUS
    <2>1. Follows(disk, sh.path, sh.tdir) /\ up = disk[sh.tdir][1].cluster
      BY DEF Good, Oriented, SameParent, up
    <2> QED
      BY <1>1, <2>1, FollowsUp
  <1>5. SameParent(disk, disk[up], up)
    BY DEF SameParent
  <1>6. Up(sh) = Moved(sh, up, disk[up], Front(sh.path))
    BY <1>1 DEF Up, Moved, up, States
  <1>7. Midway(disk, Moved(sh, up, disk[up], Front(sh.path)), known, alone)
    <2>1. disk[up] \in Tables
      BY <1>2
    <2> QED
      BY <1>2, <1>3, <1>4, <1>5, <2>1, MovedMidway
  <1> QED
    BY <1>6, <1>7, ArrivedGood

\* One component ".".
LEMMA HereGood ==
    ASSUME NEW d, NEW known \in BOOLEAN, NEW alone \in BOOLEAN,
           NEW sh, Good(d, sh, known, alone), sh.pc = "walk"
    PROVE  Good(d, Arrived(Here(sh)), known, alone)
  <1>1. sh \in States /\ sh.ttable \in Tables /\ sh.path \in Seq(EntryNames) /\ sh.tdir \in Numbers
    BY DEF Good, States
  <1>2. Here(sh) = Moved(sh, sh.tdir, sh.ttable, sh.path)
    BY <1>1 DEF Here, Moved, States
  <1>3. /\ known => Follows(d, sh.path, sh.tdir) /\ SameParent(d, sh.ttable, sh.tdir)
        /\ alone => sh.ttable = d[sh.tdir]
    BY DEF Good, Oriented, Fresh
  <1>4. Midway(d, Moved(sh, sh.tdir, sh.ttable, sh.path), known, alone)
    BY <1>1, <1>3, MovedMidway
  <1> QED
    BY <1>2, <1>4, ArrivedGood

\* One component that names a folder, which the search has found.
LEMMA DownGood ==
    ASSUME disk \in [Numbers -> Tables], in_use \in SUBSET Clusters,
           NEW known \in BOOLEAN, NEW alone \in BOOLEAN, known => Tree(disk, in_use), alone => known,
           NEW sh, Good(disk, sh, known, alone), sh.pc = "walk",
           NEW name \in Names, NEW i \in Slots,
           disk[sh.tdir][i].name = name, disk[sh.tdir][i].folder
    PROVE  Good(disk, Arrived(Down(sh, disk[disk[sh.tdir][i].cluster])), known, alone)
  <1> DEFINE e == disk[sh.tdir][i]
             x == e.cluster
             D == disk[x]
             path == append_current_path(sh.path, D[0].name)
  <1>1. sh \in States /\ sh.path \in Seq(EntryNames) /\ sh.tdir \in Numbers /\ sh.kind # "mv_probe"
    BY DEF Good, States, Commands
  <1>2. e \in Entries /\ x \in Numbers
    <2>1. disk[sh.tdir] \in [Indices -> Entries] /\ i \in Indices
      BY <1>1, TablesAre, Sizes
    <2>2. e \in Entries
      BY <2>1
    <2> HIDE DEF e
    <2> QED
      BY <2>2 DEF Entries
  <1>3. D \in Tables /\ D[0] \in Entries
    BY <1>2, TablesAre, Sizes
  <1>4. D[0].cluster \in Numbers /\ D[0].name \in EntryNames
    BY <1>3 DEF Entries
  <1>5. path \in Seq(EntryNames)
    <2> HIDE DEF D
    <2> QED
      BY <1>1, <1>4 DEF append_current_path
  <1>6. e = Folder(name, x)
    BY <1>2 DEF Entries, Folder, Entry
  <1>7. known => /\ D[0].cluster = x
                 /\ Follows(disk, path, x)
    <2> SUFFICES ASSUME known PROVE D[0].cluster = x /\ Follows(disk, path, x)
      OBVIOUS
    <2>1. Edge(disk, sh.tdir, name, x)
      BY <1>6 DEF Edge
    <2>a. sh.tdir \in Clusters
      <3>1. Follows(disk, sh.path, sh.tdir)
        BY DEF Good, Oriented
      <3> QED
        BY <1>1, <3>1, FollowsEnd
    <2>b. x \in Clusters
      <3>1. Used(disk, sh.tdir, i)
        BY <1>6, FolderIs DEF Used
      <3>2. EntrySound(disk, in_use, sh.tdir, i)
        BY <2>a, <3>1 DEF Tree, EntriesSound
      <3> QED
        BY <3>2 DEF EntrySound
    <2>2. D[0] = Folder(name, x)
      BY <2>1, <2>a, <2>b, EdgeEnd
    <2>3. D[0].cluster = x /\ D[0].name = name
      BY <2>2, FolderIs
    <2>4. path = Append(sh.path, name)
      <3>1. name # NoName
        BY ShellAssumption
      <3> HIDE DEF D
      <3> QED
        BY <2>3, <3>1 DEF append_current_path
    <2>5. Follows(disk, sh.path, sh.tdir)
      BY DEF Good, Oriented
    <2>6. Follows(disk, Append(sh.path, name), x)
      <3>1. name \in EntryNames
        BY DEF EntryNames
      <3> QED
        BY <1>1, <2>1, <2>5, <2>b, <3>1, FollowsDown
    <2> QED
      BY <2>3, <2>4, <2>6
  <1>8. Down(sh, D) = Moved(sh, D[0].cluster, D, path)
    <2> HIDE DEF D
    <2> QED
      BY <1>1 DEF Down, Moved, States
  <1> HIDE DEF path, D
  <1>9. known => D = disk[D[0].cluster]
    BY <1>7 DEF D
  <1>10. /\ known => Follows(disk, path, D[0].cluster) /\ SameParent(disk, D, D[0].cluster)
         /\ alone => D = disk[D[0].cluster]
    BY <1>7, <1>9 DEF SameParent
  <1>11. Midway(disk, Moved(sh, D[0].cluster, D, path), known, alone)
    BY <1>3, <1>4, <1>5, <1>10, MovedMidway
  <1> QED
    BY <1>8, <1>11, ArrivedGood DEF D

\* A command has made its request and turns back.
LEMMA TurnGood ==
    ASSUME NEW d, NEW known \in BOOLEAN, NEW alone \in BOOLEAN,
           NEW sh \in States, Proper(sh), sh.pc \in {"mkdir", "rm", "cat"},
           known => Follows(d, sh.opath, sh.odir)
    PROVE  Good(d, [sh EXCEPT !.pc = "cancel"], known, alone)
  <1> DEFINE r == [sh EXCEPT !.pc = "cancel"]
  <1>1. /\ r \in States
        /\ r.pc = "cancel" /\ r.kind = sh.kind /\ r.absolute = sh.absolute
        /\ r.odir = sh.odir /\ r.opath = sh.opath /\ r.from = sh.from
    BY DEF States
  <1> HIDE DEF r
  <1>2. Returning(sh)
    BY DEF Returning
  <1>3. Proper(r)
    BY <1>1, <1>2 DEF Proper, Home
  <1>4. known => Oriented(d, r)
    BY <1>1 DEF Oriented
  <1>5. Fresh(d, r)
    BY <1>1 DEF Fresh
  <1>6. Good(d, r, known, alone)
    BY <1>1, <1>3, <1>4, <1>5 DEF Good
  <1> QED
    BY <1>6 DEF r

\* cancel_change_path
LEMMA CancelGood ==
    ASSUME disk \in [Numbers -> Tables], NEW known \in BOOLEAN, NEW alone \in BOOLEAN,
           NEW sh, Good(disk, sh, known, alone), sh.pc = "cancel"
    PROVE  /\ Cancelled(sh) = At(sh.odir, disk[sh.odir], sh.opath)
           /\ Good(disk, Cancelled(sh), known, alone)
  <1>1. sh \in States /\ sh.odir \in Numbers /\ sh.opath \in Seq(EntryNames) /\ sh.then = "prompt"
    BY DEF Good, States
  <1> DEFINE c == [sh EXCEPT !.dir = sh.odir, !.table = disk[sh.odir], !.path = sh.opath]
  <1>2. c.dir = sh.odir /\ c.table = disk[sh.odir] /\ c.path = sh.opath
    BY <1>1 DEF States
  <1>3. Cancelled(sh) = Prompt(c)
    BY <1>1 DEF Cancelled, Goto
  <1> HIDE DEF c
  <1>4. Cancelled(sh) = At(sh.odir, disk[sh.odir], sh.opath)
    BY <1>2, <1>3 DEF Prompt
  <1>5. known => Follows(disk, sh.opath, sh.odir)
    BY DEF Good, Oriented, Returning
  <1>6. SameParent(disk, disk[sh.odir], sh.odir)
    BY DEF SameParent
  <1>7. disk[sh.odir] \in Tables
    BY <1>1
  <1>8. Good(disk, At(sh.odir, disk[sh.odir], sh.opath), known, alone)
    BY <1>1, <1>5, <1>6, <1>7, AtGood
  <1> QED
    BY <1>4, <1>8

-----------------------------------------------------------------------------
(* The steps.                                                               *)

Known(s) == harm = {} /\ s \notin lost
Own(s)   == s \notin lost /\ Alone(s)

\* What the invariant says of a running shell.
LEMMA InvGood ==
    ASSUME ShellInv, NEW s \in Shells
    PROVE  /\ disk \in [Numbers -> Tables] /\ Grounded(disk) /\ in_use \in SUBSET Clusters
           /\ Known(s) \in BOOLEAN /\ Own(s) \in BOOLEAN
           /\ Known(s) => Tree(disk, in_use)
           /\ Own(s) => Known(s)
           /\ shell[s] \in States /\ Proper(shell[s])
           /\ shell[s].pc # "off" => Good(disk, shell[s], Known(s), Own(s))
  <1>1. /\ disk \in [Numbers -> Tables] /\ Grounded(disk) /\ in_use \in SUBSET Clusters
        /\ shell[s] \in States /\ Proper(shell[s])
    BY DEF ShellInv, ShellTypes
  <1>2. Known(s) \in BOOLEAN /\ Own(s) \in BOOLEAN
    BY DEF Known, Own, Alone
  <1>3. Known(s) => Tree(disk, in_use) /\ Oriented(disk, shell[s])
    BY DEF ShellInv, Known
  <1>4. Own(s) => Known(s) /\ Fresh(disk, shell[s])
    BY DEF ShellInv, Known, Own
  <1> QED
    BY <1>1, <1>2, <1>3, <1>4 DEF Good

\* A step that changes only the shell that makes it.
LEMMA LocalStep ==
    ASSUME ShellInv, NEW s \in Shells, NEW r, Good(disk, r, Known(s), Own(s)),
           shell' = [shell EXCEPT ![s] = r], UNCHANGED <<media, history>>
    PROVE  ShellInv'
  <1>1. disk' = disk /\ in_use' = in_use /\ lost' = lost /\ harm' = harm
    BY DEF media, history
  <1>2. shell \in [Shells -> States] /\ r \in States /\ Proper(r) /\ r.pc # "off"
    BY DEF ShellInv, ShellTypes, Good
  <1>3. /\ shell' \in [Shells -> States] /\ shell'[s] = r
        /\ \A t \in Shells \ {s} : shell'[t] = shell[t]
    BY <1>2
  <1>4. ShellTypes'
    <2>1. \A t \in Shells : Proper(shell'[t])
      BY <1>2, <1>3 DEF ShellInv, ShellTypes
    <2> QED
      BY <1>1, <1>3, <2>1 DEF ShellInv, ShellTypes
  <1>5. harm' = {} => Tree(disk', in_use')
    BY <1>1 DEF ShellInv
  <1>6. ASSUME harm' = {}, NEW t \in Shells \ lost'
        PROVE  Oriented(disk', shell'[t])
    <2>1. CASE t = s
      BY <1>1, <1>3, <1>6, <2>1 DEF Good, Known
    <2>2. CASE t # s
      BY <1>1, <1>3, <1>6, <2>2 DEF ShellInv
    <2> QED
      BY <2>1, <2>2
  <1>7. ASSUME NEW t \in Shells \ lost', Alone(t)'
        PROVE  harm' = {} /\ Fresh(disk', shell'[t])
    <2>1. t = s
      BY <1>2, <1>3, <1>7 DEF Alone
    <2>2. Own(s)
      BY <1>1, <1>3, <1>7, <2>1 DEF Own, Alone
    <2>3. harm = {}
      BY <2>2 DEF ShellInv, Own
    <2>4. Fresh(disk, r)
      BY <2>2 DEF Good
    <2> QED
      BY <1>1, <1>3, <2>1, <2>3, <2>4
  <1> QED
    BY <1>4, <1>5, <1>6, <1>7 DEF ShellInv

\* The invariant holds initially.
LEMMA ShellInit == Init => ShellInv
  <1> SUFFICES ASSUME Init PROVE ShellInv
    OBVIOUS
  <1> DEFINE R == ROOT_CLUSTER_NUMBER
             root == DirectoryTable("root", R, "root", R)
             file == Entry(ShellFile, FALSE, 3)
             t == [root EXCEPT ![2] = file]
  <1>1. R \in Clusters /\ R = 2 /\ 3 \in Clusters /\ "root" \in EntryNames /\ ShellFile \in EntryNames
    BY Sizes DEF EntryNames, ROOT_CLUSTER_NUMBER
  <1>2. /\ root \in [Indices -> Entries]
        /\ root[0] = Folder("root", R) /\ root[1] = Folder("root", R)
        /\ \A i \in Slots : root[i] = EmptyEntry
    <2> HIDE DEF R
    <2> QED
      BY <1>1, NewTable, Within
  <1>3. /\ file \in Entries /\ file # EmptyEntry /\ file.cluster = 3 /\ file.folder = FALSE
        /\ file.name = ShellFile
    <2>1. file.cluster = 3 /\ file.folder = FALSE /\ file.name = ShellFile /\ EmptyEntry.cluster = 0
      BY DEF Entry, EmptyEntry
    <2>2. file \in Entries
      BY <1>1, Within DEF Entry, Entries
    <2> HIDE DEF file
    <2> QED
      BY <2>1, <2>2
  <1> HIDE DEF root, file, R
  <1>4. /\ t \in [Indices -> Entries] /\ t[0] = Folder("root", R) /\ t[1] = Folder("root", R)
        /\ t[2] = file /\ \A i \in Slots \ {2} : t[i] = EmptyEntry
    <2>1. 2 \in Indices /\ 0 \in Indices /\ 1 \in Indices /\ \A i \in Slots : i \in Indices
      BY Sizes
    <2> QED
      BY <1>2, <1>3, <2>1
  <1> HIDE DEF t
  <1>5. /\ disk = [[c \in Numbers |-> EmptyTable] EXCEPT ![0] = BootSector, ![R] = t]
        /\ in_use = 2..3 /\ lost = {} /\ harm = {}
        /\ shell = [s \in Shells |-> [At(R, EmptyTable, <<>>) EXCEPT !.pc = "off"]]
    BY DEF Init, R, t, root, file
  <1>6. disk[R] = t /\ disk[0] = BootSector /\ \A c \in Numbers \ {0, R} : disk[c] = EmptyTable
    BY <1>1, <1>5, Sizes
  <1>7. disk \in [Numbers -> Tables] /\ in_use \subseteq Clusters
    <2>1. t \in Tables /\ BootSector \in Tables /\ EmptyTable \in Tables
      BY <1>4, TablesAre, BootIs
    <2> QED
      BY <1>5, <2>1, Sizes
  <1>g. Grounded(disk)
    <2>1. disk[OffDisk] = EmptyTable
      BY <1>1, <1>6, Sizes
    <2>2. ASSUME NEW c \in Clusters, NEW i \in Indices, disk[c][i].name # NoName
          PROVE  disk[c][i].cluster \in Clusters
      <3>1. c = R
        <4> SUFFICES ASSUME c # R PROVE FALSE
          OBVIOUS
        <4>1. disk[c] = EmptyTable
          BY <1>6, Sizes
        <4> QED
          BY <2>2, <4>1, EmptyIs
      <3>2. i \in {0, 1, 2}
        <4> SUFFICES ASSUME i \notin {0, 1, 2} PROVE FALSE
          OBVIOUS
        <4>1. i \in Slots \ {2}
          BY Sizes
        <4>2. disk[c][i] = EmptyEntry
          BY <1>4, <1>6, <3>1, <4>1
        <4> QED
          BY <2>2, <4>2, EmptyIs
      <3>3. t[0].cluster = R /\ t[1].cluster = R /\ t[2].cluster = 3
        BY <1>3, <1>4, FolderIs
      <3> QED
        BY <1>1, <1>6, <3>1, <3>2, <3>3
    <2> QED
      BY <1>6, <2>1, <2>2 DEF Grounded
  <1>8. \A c \in Clusters, i \in Slots : Used(disk, c, i) <=> c = R /\ i = 2
    <2>1. \A c \in Clusters \ {R}, i \in Slots : disk[c][i] = EmptyEntry
      BY <1>6, EmptyIs, Sizes
    <2> QED
      BY <1>3, <1>4, <1>6, <2>1 DEF Used
  <1>9. Tree(disk, in_use)
    <2>1. RootSound(disk, in_use)
      <3>1. \A c \in Numbers : IsFolder(disk[c]) => c = R
        BY <1>6, EmptyIs, BootIs
      <3>2. R \in 2..3
        BY <1>1
      <3> QED
        BY <1>4, <1>5, <1>6, <3>1, <3>2 DEF RootSound, R
    <2>2. EntriesSound(disk, in_use)
      <3>1. disk[R][2] = file /\ disk[3] = EmptyTable
        BY <1>1, <1>4, <1>6, Within
      <3>2. R \in in_use /\ 3 \in in_use \ {ROOT_CLUSTER_NUMBER}
        BY <1>1, <1>5 DEF R
      <3> QED
        BY <1>3, <1>8, <3>1, <3>2 DEF EntriesSound, EntrySound
    <2>3. NamedOnce(disk) /\ NamesDiffer(disk)
      BY <1>8 DEF NamedOnce, NamesDiffer
    <2>4. Reached(disk, in_use)
      <3>1. Used(disk, R, 2) /\ disk[R][2].cluster = 3 /\ 2 \in Slots
        BY <1>1, <1>3, <1>4, <1>6, <1>8, Sizes
      <3>2. \A c \in in_use \ {ROOT_CLUSTER_NUMBER} : c = 3
        BY <1>1, <1>5 DEF R
      <3> QED
        BY <1>1, <3>1, <3>2 DEF Reached
    <2> QED
      BY <2>1, <2>2, <2>3, <2>4 DEF Tree
  <1> DEFINE r == [At(R, EmptyTable, <<>>) EXCEPT !.pc = "off"]
  <1>10. At(R, EmptyTable, <<>>) \in States
    <2>1. EmptyTable \in Tables /\ <<>> \in Seq(EntryNames) /\ <<>> \in Seq(Components)
      BY TablesAre
    <2> QED
      BY <1>1, <2>1, Within DEF At, States
  <1>11. r \in States /\ r.pc = "off"
    BY <1>10 DEF States
  <1> HIDE DEF r
  <1>12. Proper(r) /\ (\A d : Oriented(d, r) /\ Fresh(d, r))
    BY <1>11 DEF Proper, Returning, Oriented, Fresh
  <1>13. \A s \in Shells : shell[s] = r
    BY <1>5 DEF r
  <1>14. shell \in [Shells -> States]
    BY <1>5, <1>11 DEF r
  <1> QED
    BY <1>5, <1>7, <1>9, <1>12, <1>13, <1>14, <1>g DEF ShellInv, ShellTypes

\* A shell starts.
LEMMA StartKeeps == ASSUME ShellInv, NEW s \in Shells, Start(s) PROVE ShellInv'
  <1>1. disk \in [Numbers -> Tables] /\ Known(s) \in BOOLEAN /\ Own(s) \in BOOLEAN
    BY InvGood
  <1>2. disk[ROOT_CLUSTER_NUMBER] \in Tables /\ ROOT_CLUSTER_NUMBER \in Clusters
    BY <1>1, Sizes
  <1>3. <<>> \in Seq(EntryNames)
    OBVIOUS
  <1>4. SameParent(disk, disk[ROOT_CLUSTER_NUMBER], ROOT_CLUSTER_NUMBER)
    BY DEF SameParent
  <1>5. Good(disk, At(ROOT_CLUSTER_NUMBER, disk[ROOT_CLUSTER_NUMBER], <<>>), Known(s), Own(s))
    BY <1>1, <1>2, <1>3, <1>4, FollowsRoot, AtGood, Within
  <1>6. /\ shell' = [shell EXCEPT ![s] = At(ROOT_CLUSTER_NUMBER, disk[ROOT_CLUSTER_NUMBER], <<>>)]
        /\ UNCHANGED <<media, history>>
    BY DEF Start
  <1> QED
    BY <1>5, <1>6, LocalStep

\* A command is given.
LEMMA CommandKeeps ==
    ASSUME ShellInv, NEW s \in Shells, NEW kind \in Commands, NEW p \in Paths, Command(s, kind, p)
    PROVE  ShellInv'
  <1>0. shell[s].pc = "prompt" /\ Nameable(kind, p) /\ UNCHANGED <<media, history>>
    BY DEF Command
  <1>1. /\ disk \in [Numbers -> Tables] /\ Known(s) \in BOOLEAN /\ Own(s) \in BOOLEAN
        /\ Good(disk, shell[s], Known(s), Own(s))
    BY <1>0, InvGood
  <1>2. CASE kind = "mkdir" /\ Last(p.parts) \notin Names
    <2> DEFINE q == parse_path(shell[s], p)
    <2>1. Good(disk, q, Known(s), Own(s)) /\ q.pc = "prompt"
      BY ZenonT(40), <1>0, <1>1, ParseGood
    <2>2. shell' = [shell EXCEPT ![s] = At(q.dir, q.table, q.path)]
      BY <1>2 DEF Command, Prompt
    <2> HIDE DEF q
    <2>3. q \in States
            /\ (Known(s) => Follows(disk, q.path, q.dir) /\ SameParent(disk, q.table, q.dir))
            /\ (Own(s) => q.table = disk[q.dir])
      BY <1>1, <2>1, PromptKnows
    <2>4. q.dir \in Numbers /\ q.table \in Tables /\ q.path \in Seq(EntryNames)
      BY <2>3 DEF States
    <2>5. Good(disk, At(q.dir, q.table, q.path), Known(s), Own(s))
      BY <1>1, <2>3, <2>4, AtGood
    <2> QED
      BY <1>0, <2>2, <2>5, LocalStep
  <1>3. CASE ~(kind = "mkdir" /\ Last(p.parts) \notin Names)
    <2>1. Good(disk, Begin(s, kind, p), Known(s), Own(s))
      BY <1>0, <1>1, <1>3, BeginGood
    <2>2. shell' = [shell EXCEPT ![s] = Begin(s, kind, p)]
      BY <1>3 DEF Command
    <2> QED
      BY <1>0, <2>1, <2>2, LocalStep
  <1> QED
    BY <1>2, <1>3

\* No shell of this module is in the middle of a mv.
LEMMA NotUnsettled == ASSUME ShellInv, NEW s \in Shells PROVE Unsettled(s) = lost /\ ~Writing(s)
  <1>1. \A u \in Shells : ~Writing(u)
    <2> SUFFICES ASSUME NEW u \in Shells PROVE ~Writing(u)
      OBVIOUS
    <2>1. shell[u] \in States
      BY InvGood
    <2> QED
      BY <2>1 DEF Writing, States
  <1> QED
    BY <1>1 DEF Unsettled

\* The steps that walk, and the ones that only change the shell.
LEMMA WalkKeeps ==
    ASSUME ShellInv, NEW s \in Shells, WalkUp(s) \/ WalkHere(s) \/ WalkDown(s)
    PROVE  ShellInv'
  <1>0. shell[s].pc = "walk"
    BY DEF WalkUp, WalkHere, WalkDown
  <1>1. /\ disk \in [Numbers -> Tables] /\ in_use \in SUBSET Clusters
        /\ Known(s) \in BOOLEAN /\ Own(s) \in BOOLEAN
        /\ (Known(s) => Tree(disk, in_use)) /\ (Own(s) => Known(s))
        /\ shell[s] \in States /\ Good(disk, shell[s], Known(s), Own(s))
    BY <1>0, InvGood
  <1>2. UNCHANGED <<media, history>>
    BY NotUnsettled DEF WalkUp, WalkHere, WalkDown, media, history
  <1> SUFFICES \E r : Good(disk, r, Known(s), Own(s)) /\ shell' = [shell EXCEPT ![s] = r]
    BY <1>2, LocalStep
  <1>3. CASE WalkUp(s)
    <2>1. shell[s].path # <<>> /\ shell' = [shell EXCEPT ![s] = Arrived(Up(shell[s]))]
      BY <1>3 DEF WalkUp, Spinning
    <2>2. Good(disk, Arrived(Up(shell[s])), Known(s), Own(s))
      BY <1>0, <1>1, <2>1, UpGood
    <2> QED
      BY <2>1, <2>2
  <1>4. CASE WalkHere(s)
    <2>1. shell' = [shell EXCEPT ![s] = Arrived(Here(shell[s]))]
      BY <1>4 DEF WalkHere
    <2>2. Good(disk, Arrived(Here(shell[s])), Known(s), Own(s))
      BY <1>0, <1>1, HereGood
    <2> QED
      BY ZenonT(40), <2>1, <2>2
  <1>5. CASE WalkDown(s)
    <2> DEFINE sh == shell[s]
               t  == disk[sh.tdir]
               name == Head(sh.todo)
    <2>1. name \in Names
      BY <1>5 DEF WalkDown
    <2>2. CASE shell' = [shell EXCEPT ![s] = Failed(sh, -1)]
      <3>1. Good(disk, Failed(sh, -1), Known(s), Own(s))
        BY <1>0, <1>1, FailedGood
      <3> QED
        BY <2>2, <3>1
    <2>3. CASE shell' = [shell EXCEPT ![s] = Failed(sh, 2)]
      <3>1. Good(disk, Failed(sh, 2), Known(s), Own(s))
        BY <1>0, <1>1, FailedGood
      <3> QED
        BY <2>3, <3>1
    <2>4. ASSUME NEW i \in Indices, Found(t, 2, name, i),
                 shell' = [shell EXCEPT ![s] = IF t[i].folder
                                               THEN Arrived(Down(sh, disk[t[i].cluster]))
                                               ELSE Failed(sh, 1)]
          PROVE  \E r : Good(disk, r, Known(s), Own(s)) /\ shell' = [shell EXCEPT ![s] = r]
      <3>1. i \in Slots /\ t[i].name = name
        BY SMTT(30), <2>4 DEF Found, Slots
      <3>2. CASE t[i].folder
        <4>1. Good(disk, Arrived(Down(sh, disk[t[i].cluster])), Known(s), Own(s))
          BY <1>0, <1>1, <2>1, <3>1, <3>2, DownGood
        <4> QED
          BY <2>4, <3>2, <4>1
      <3>3. CASE ~t[i].folder
        <4>1. Good(disk, Failed(sh, 1), Known(s), Own(s))
          BY <1>0, <1>1, FailedGood
        <4> QED
          BY <2>4, <3>3, <4>1
      <3> QED
        BY <3>2, <3>3
    <2> QED
      BY <1>5, <2>2, <2>3, <2>4 DEF WalkDown
  <1> QED
    BY <1>3, <1>4, <1>5

\* The ones that end a command, or read for it.
LEMMA EndKeeps ==
    ASSUME ShellInv, NEW s \in Shells, cat(s) \/ exec(s) \/ cancel_change_path(s)
    PROVE  ShellInv'
  <1>0. shell[s].pc \in {"cat", "exec", "cancel"} /\ UNCHANGED <<media, history>>
    BY DEF cat, exec, cancel_change_path
  <1>1. /\ disk \in [Numbers -> Tables]
        /\ Known(s) \in BOOLEAN /\ Own(s) \in BOOLEAN
        /\ shell[s] \in States /\ Proper(shell[s]) /\ Good(disk, shell[s], Known(s), Own(s))
    BY <1>0, InvGood
  <1> SUFFICES \E r : Good(disk, r, Known(s), Own(s)) /\ shell' = [shell EXCEPT ![s] = r]
    BY <1>0, LocalStep
  <1>2. CASE cat(s)
    <2>1. shell[s].pc = "cat" /\ shell' = [shell EXCEPT ![s].pc = "cancel"]
      BY <1>2 DEF cat, Turning
    <2>2. shell' = [shell EXCEPT ![s] = [shell[s] EXCEPT !.pc = "cancel"]]
      BY <2>1
    <2>3. Known(s) => Follows(disk, shell[s].opath, shell[s].odir)
      BY <1>1, <2>1 DEF Good, Oriented, Returning
    <2>4. Good(disk, [shell[s] EXCEPT !.pc = "cancel"], Known(s), Own(s))
      BY <1>1, <2>1, <2>3, TurnGood
    <2> QED
      BY <2>2, <2>4
  <1>3. CASE exec(s)
    <2> DEFINE sh == shell[s]
    <2>1. sh.pc = "exec" /\ shell' = [shell EXCEPT ![s] = At(sh.dir, sh.table, sh.path)]
      BY <1>3 DEF exec, Prompt
    <2>2. sh.dir \in Numbers /\ sh.table \in Tables /\ sh.path \in Seq(EntryNames)
      BY <1>1 DEF States
    <2>3. /\ Known(s) => Follows(disk, sh.path, sh.dir) /\ SameParent(disk, sh.table, sh.dir)
          /\ Own(s) => sh.table = disk[sh.dir]
      BY <1>1, <2>1 DEF Good, Oriented, Fresh
    <2>4. Good(disk, At(sh.dir, sh.table, sh.path), Known(s), Own(s))
      BY <1>1, <2>2, <2>3, AtGood
    <2> QED
      BY <2>1, <2>4
  <1>4. CASE cancel_change_path(s)
    <2>1. shell[s].pc = "cancel" /\ shell' = [shell EXCEPT ![s] = Cancelled(shell[s])]
      BY <1>4 DEF cancel_change_path
    <2>2. Good(disk, Cancelled(shell[s]), Known(s), Own(s))
      BY <1>1, <2>1, CancelGood
    <2> QED
      BY <2>1, <2>2
  <1> QED
    BY <1>2, <1>3, <1>4

\* A shell whose ways lost no edge is still where it believes.
LEMMA OrientedKept ==
    ASSUME NEW d, NEW d2, NEW sh \in States, Oriented(d, sh),
           \A c \in {sh.dir, sh.tdir, sh.odir} : \A path \in Seq(EntryNames) :
                Follows(d, path, c) => Follows(d2, path, c) /\ d2[c][1] = d[c][1]
    PROVE  Oriented(d2, sh)
  <1>1. sh.path \in Seq(EntryNames) /\ sh.wpath \in Seq(EntryNames) /\ sh.opath \in Seq(EntryNames)
    BY DEF States
  <1>2. sh.pc \in {"prompt", "mkdir", "rm", "cat", "exec"} =>
            Follows(d2, sh.path, sh.dir) /\ SameParent(d2, sh.table, sh.dir)
    BY <1>1 DEF Oriented, SameParent
  <1>3. sh.pc = "walk" =>
            /\ Follows(d2, sh.wpath, sh.dir) /\ SameParent(d2, sh.table, sh.dir)
            /\ Follows(d2, sh.path, sh.tdir) /\ SameParent(d2, sh.ttable, sh.tdir)
    BY <1>1 DEF Oriented, SameParent
  <1>4. Returning(sh) => Follows(d2, sh.opath, sh.odir)
    BY <1>1 DEF Oriented
  <1> QED
    BY <1>2, <1>3, <1>4 DEF Oriented

\* A request has changed the disk, and the shell that made it turns back.
LEMMA RequestStep ==
    ASSUME ShellInv, NEW s \in Shells, shell[s].pc \in {"mkdir", "rm"}, Turning(s),
           disk' \in [Numbers -> Tables], Grounded(disk'), in_use' \in SUBSET Clusters,
           lost' \subseteq Shells, lost \subseteq lost', harm \subseteq harm',
           harm' = {} => Tree(disk', in_use'),
           \A t \in Shells \ lost' : harm' = {} => Oriented(disk', shell[t]),
           s \notin lost' /\ Alone(s) => harm' = {}
    PROVE  ShellInv'
  <1> DEFINE r == [shell[s] EXCEPT !.pc = "cancel"]
  <1>1. /\ shell \in [Shells -> States] /\ \A t \in Shells : Proper(shell[t])
    BY DEF ShellInv, ShellTypes
  <1>2. shell' = [shell EXCEPT ![s] = r]
    BY DEF Turning
  <1>3. ASSUME NEW known \in BOOLEAN, known => Oriented(disk', shell[s])
        PROVE  r \in States /\ Proper(r) /\ r.pc = "cancel" /\ (known => Oriented(disk', r)) /\ Fresh(disk', r)
    <2>1. known => Follows(disk', shell[s].opath, shell[s].odir)
      BY <1>3 DEF Oriented, Returning
    <2>2. Good(disk', r, known, known)
      BY <1>1, <2>1, TurnGood
    <2>3. r.pc = "cancel"
      BY <1>1 DEF States
    <2>4. Fresh(disk', r)
      BY <2>3 DEF Fresh
    <2> QED
      BY <2>2, <2>3, <2>4 DEF Good
  <1>4. r \in States /\ Proper(r) /\ r.pc = "cancel" /\ Fresh(disk', r)
    BY <1>3
  <1>5. harm' = {} /\ s \notin lost' => Oriented(disk', r)
    BY <1>3
  <1> HIDE DEF r
  <1>6. /\ shell' \in [Shells -> States] /\ shell'[s] = r
        /\ \A t \in Shells \ {s} : shell'[t] = shell[t]
    BY <1>1, <1>2, <1>4
  <1>7. ShellTypes'
    <2>1. \A t \in Shells : Proper(shell'[t])
      BY <1>1, <1>4, <1>6
    <2> QED
      BY <1>6, <2>1 DEF ShellTypes, Grounded
  <1>8. ASSUME harm' = {}, NEW t \in Shells \ lost'
        PROVE  Oriented(disk', shell'[t])
    BY <1>5, <1>6, <1>8
  <1>9. ASSUME NEW t \in Shells \ lost', Alone(t)'
        PROVE  harm' = {} /\ Fresh(disk', shell'[t])
    <2>1. t = s
      BY <1>4, <1>6, <1>9 DEF Alone
    <2>2. Alone(s)
      BY <1>6, <1>9, <2>1 DEF Alone
    <2> QED
      BY <1>4, <1>6, <2>1, <2>2
  <1> QED
    BY <1>7, <1>8, <1>9 DEF ShellInv

\* mkdir's request, write.
LEMMA MkdirKeeps == ASSUME ShellInv, NEW s \in Shells, mkdir(s) PROVE ShellInv'
  <1> DEFINE sh == shell[s]
             parent == sh.dir
             name == sh.last
             t == disk[parent]
  <1>0. /\ sh.pc = "mkdir" /\ write(parent, name, TRUE) /\ Turning(s)
        /\ lost' = lost /\ harm' = harm
    BY DEF mkdir, history
  <1>1. /\ disk \in [Numbers -> Tables] /\ Grounded(disk) /\ in_use \in SUBSET Clusters
        /\ parent \in Numbers /\ name \in Names /\ lost \subseteq Shells
        /\ \A u \in Shells : shell[u] \in States
    <2>1. sh \in States /\ Proper(sh) /\ \A u \in Shells : shell[u] \in States
      BY InvGood
    <2>2. parent \in Numbers
      BY <2>1 DEF States
    <2>3. name \in Names
      BY <1>0, <2>1 DEF Proper
    <2> QED
      BY <2>1, <2>2, <2>3 DEF ShellInv, ShellTypes
  <1>2. /\ harm = {} => Tree(disk, in_use)
        /\ \A u \in Shells \ lost : harm = {} => Oriented(disk, shell[u])
        /\ s \notin lost /\ Alone(s) => harm = {}
    BY DEF ShellInv
  <1>3. CASE UNCHANGED <<disk, in_use>>
    <2>1. disk' = disk /\ in_use' = in_use
      BY <1>3
    <2> QED
      BY <1>0, <1>1, <1>2, <2>1, RequestStep
  <1>4. ASSUME NEW i \in Indices, NEW c \in Clusters,
               IsFolder(t), \A j \in Slots : ~(t[j].name = name /\ t[j].folder),
               FirstEmpty(t, i), FreeCluster(c),
               disk' = [disk EXCEPT ![parent][i] = Folder(name, c),
                                    ![c] = DirectoryTable(name, c, t[0].name, parent)],
               in_use' = in_use \cup {c}
        PROVE  ShellInv'
    <2> DEFINE e == Folder(name, c)
               tab == DirectoryTable(name, c, t[0].name, parent)
    <2>0. i \in Slots /\ t[i] = EmptyEntry /\ c \notin in_use
      BY <1>4 DEF FirstEmpty, FreeCluster, Slots
    <2>p. parent \in Clusters /\ parent \in Numbers /\ c \in Numbers
      BY <1>1, <1>4, FolderOnDisk, Sizes
    <2>1. disk' \in [Numbers -> Tables] /\ Grounded(disk')
      <3>1. t \in [Indices -> Entries] /\ t[0].name \in EntryNames /\ name \in EntryNames
        <4>1. t \in [Indices -> Entries] /\ 0 \in Indices
          BY <1>1, TablesAre, Sizes
        <4>2. t[0] \in Entries
          BY <4>1
        <4> HIDE DEF t
        <4> QED
          BY <1>1, <4>1, <4>2 DEF Entries, EntryNames
      <3>2. e \in Entries /\ tab \in [Indices -> Entries]
        <4> HIDE DEF t, parent, name
        <4> QED
          BY <2>p, <3>1, FolderIs, NewTable
      <3>n. /\ e.cluster \in Clusters
            /\ \A j \in Indices : tab[j].name # NoName => tab[j].cluster \in Clusters
        <4>1. tab[0] = e /\ tab[1] = Folder(t[0].name, parent) /\ \A j \in Slots : tab[j] = EmptyEntry
          <5> HIDE DEF t, parent, name
          <5> QED
            BY <2>p, <3>1, NewTable
        <4>2. e.cluster = c /\ tab[1].cluster = parent
          <5> HIDE DEF tab
          <5> QED
            BY <4>1, FolderIs
        <4> HIDE DEF e, tab, parent, t
        <4>3. \A j \in Indices : j \in Slots \/ j = 0 \/ j = 1
          BY Sizes
        <4> QED
          BY <2>p, <4>1, <4>2, <4>3, EmptyIs
      <3>3. disk' = [disk EXCEPT ![parent][i] = e, ![c] = tab]
        BY <1>4
      <3> HIDE DEF e, tab
      <3>4. [t EXCEPT ![i] = e] \in Tables /\ tab \in Tables
        BY <3>1, <3>2, TablesAre
      <3>5. disk' = [[disk EXCEPT ![parent] = [t EXCEPT ![i] = e]] EXCEPT ![c] = tab]
        BY <3>3
      <3>6. \A a \in Clusters, j \in Indices : t = disk[parent] /\
                (disk[a][j].name # NoName => disk[a][j].cluster \in Clusters)
        BY <1>1 DEF Grounded
      <3> HIDE DEF parent, t
      <3>7. /\ disk' \in [Numbers -> Tables]
            /\ disk'[c] = tab /\ (parent # c => disk'[parent] = [t EXCEPT ![i] = e])
            /\ \A a \in Numbers \ {c, parent} : disk'[a] = disk[a]
        BY <1>1, <2>p, <3>4, <3>5
      <3>8. disk'[0] = BootSector /\ disk'[OffDisk] = EmptyTable
        BY <1>1, <2>p, <3>7, Sizes DEF Grounded
      <3>9. ASSUME NEW a \in Clusters, NEW j \in Indices, disk'[a][j].name # NoName
            PROVE  disk'[a][j].cluster \in Clusters
        <4>1. CASE a = c
          BY <3>7, <3>9, <3>n, <4>1
        <4>2. CASE a = parent /\ a # c
          <5>1. disk'[a] = [t EXCEPT ![i] = e] /\ t = disk[a]
            BY <3>6, <3>7, <4>2
          <5>2. CASE j = i
            BY <3>1, <3>n, <5>1, <5>2
          <5>3. CASE j # i
            BY <3>1, <3>6, <3>9, <5>1, <5>3
          <5> QED
            BY <5>2, <5>3
        <4>3. CASE a \notin {c, parent}
          <5>1. disk'[a] = disk[a]
            BY <3>7, <4>3, Sizes
          <5> QED
            BY <3>6, <3>9, <5>1
        <4> QED
          BY <4>1, <4>2, <4>3
      <3> QED
        BY <3>7, <3>8, <3>9 DEF Grounded
    <2>2. in_use' \in SUBSET Clusters
      BY <1>1, <1>4
    <2>3. ASSUME harm = {} PROVE Kept(disk, disk', in_use', {})
      <3>1. disk' = Written(disk, parent, i, name, c) /\ in_use' = in_use \cup {c}
        BY <1>4 DEF Written
      <3>2. CanWrite(disk, in_use, parent, i, name, c)
        BY <1>1, <1>2, <1>4, <2>0, <2>3, <2>p DEF CanWrite
      <3> HIDE DEF parent, name
      <3> QED
        BY <3>1, <3>2, TreeWrite
    <2>4. ASSUME NEW u \in Shells \ lost, harm = {}
          PROVE  Oriented(disk', shell[u])
      <3>1. shell[u] \in States /\ Oriented(disk, shell[u]) /\ Tree(disk, in_use)
        BY <1>1, <1>2, <2>4
      <3>2. ASSUME NEW a, NEW path \in Seq(EntryNames), Follows(disk, path, a)
            PROVE  Follows(disk', path, a) /\ disk'[a][1] = disk[a][1]
        <4>1. a \in Clusters /\ IsFolder(disk[a])
          BY <1>1, <3>1, <3>2, FollowsEnd
        <4>2. \A b \in Clusters, e2 \in Clusters : \A n : Edge(disk, b, n, e2) => Edge(disk', b, n, e2)
          BY <2>3, <2>4 DEF Kept
        <4>3. Follows(disk', path, a)
          BY <3>2, <4>2, FollowsKept
        <4> QED
          BY <2>3, <2>4, <4>1, <4>3 DEF Kept
      <3> QED
        BY <3>1, <3>2, OrientedKept
    <2>5. harm' = {} => Tree(disk', in_use')
      BY <1>0, <2>3 DEF Kept
    <2> QED
      BY <1>0, <1>1, <1>2, <2>1, <2>2, <2>4, <2>5, RequestStep
  <1>5. \/ UNCHANGED <<disk, in_use>>
        \/ \E i \in Indices, c \in Clusters :
            /\ IsFolder(t) /\ \A j \in Slots : ~(t[j].name = name /\ t[j].folder)
            /\ FirstEmpty(t, i) /\ FreeCluster(c)
            /\ disk' = [disk EXCEPT ![parent][i] = Folder(name, c),
                                    ![c] = DirectoryTable(name, c, t[0].name, parent)]
            /\ in_use' = in_use \cup {c}
    <2>1. CASE UNCHANGED <<disk, in_use>>
      BY <2>1
    <2>2. CASE ~UNCHANGED <<disk, in_use>>
      <3>1. /\ IsFolder(t) /\ \A j \in Slots : ~(t[j].name = name /\ t[j].folder = TRUE)
            /\ \E i \in Indices, c \in Clusters :
                 /\ FirstEmpty(t, i) /\ FreeCluster(c)
                 /\ disk' = [disk EXCEPT ![parent][i] = Folder(name, c),
                                         ![c] = DirectoryTable(name, c, t[0].name, parent)]
                 /\ in_use' = in_use \cup {c}
        BY <1>0, <2>2 DEF write, Slots, Folder
      <3>2. \A j \in Slots : t[j].folder \in BOOLEAN
        <4>1. t \in [Indices -> Entries]
          BY <1>1, TablesAre
        <4> HIDE DEF t
        <4> QED
          BY <4>1, Sizes DEF Entries
      <3> HIDE DEF t
      <3> QED
        BY <3>1, <3>2
    <2> QED
      BY <2>1, <2>2
  <1> QED
    BY <1>3, <1>4, <1>5

\* The name of an entry of a folder alone in the tree: while a shell knows where it
\* is, Delete finds its folder by its own entry, or by the parent's which then is
\* not empty.
LEMMA OwnEntry ==
    ASSUME disk \in [Numbers -> Tables], in_use \in SUBSET Clusters, Tree(disk, in_use),
           NEW path \in Seq(EntryNames), NEW dir \in Clusters, Follows(disk, path, dir),
           NEW name, NEW i \in {0, 1}, Found(disk[dir], 0, name, i)
    PROVE  \/ disk[dir][i].cluster = dir
           \/ disk[dir][i].folder /\ NotEmpty(disk[disk[dir][i].cluster])
  <1>1. disk[dir][0].cluster = dir
    BY FollowsEnd
  <1>2. CASE i = 0
    BY <1>1, <1>2
  <1>3. CASE i = 1 /\ path = <<>>
    <2>1. dir = ROOT_CLUSTER_NUMBER
      BY <1>3, FollowsEmpty
    <2>2. disk[dir][1] = Folder("root", dir)
      BY <2>1 DEF Tree, RootSound
    <2> QED
      BY <1>3, <2>2, FolderIs
  <1>4. CASE i = 1 /\ path # <<>>
    <2>1. path # <<>>
      BY <1>4
    <2>2. disk[dir][1].folder /\ NotEmpty(disk[disk[dir][1].cluster])
      BY <2>1, FollowsUp
    <2> QED
      BY <1>4, <2>2
  <1> QED
    BY <1>2, <1>3, <1>4

\* rm's request, Delete.
LEMMA RmKeeps == ASSUME ShellInv, NEW s \in Shells, rm(s) PROVE ShellInv'
  <1> DEFINE sh == shell[s]
             parent == sh.dir
             name == sh.last
             t == disk[parent]
  <1>0. sh.pc = "rm" /\ DeleteEntry(parent, name) /\ Turning(s)
    BY DEF rm
  <1>1. /\ disk \in [Numbers -> Tables] /\ Grounded(disk) /\ in_use \in SUBSET Clusters
        /\ parent \in Numbers /\ name \in Names \cup {".."} /\ lost \subseteq Shells
        /\ sh.path \in Seq(EntryNames)
        /\ \A u \in Shells : shell[u] \in States
    <2>1. sh \in States /\ Proper(sh) /\ \A u \in Shells : shell[u] \in States
      BY InvGood
    <2>2. parent \in Numbers /\ sh.path \in Seq(EntryNames)
      BY <2>1 DEF States
    <2>3. name \in Names \cup {".."}
      BY <1>0, <2>1 DEF Proper
    <2> QED
      BY <2>1, <2>2, <2>3 DEF ShellInv, ShellTypes
  <1>2. /\ harm = {} => Tree(disk, in_use)
        /\ \A u \in Shells \ lost : harm = {} => Oriented(disk, shell[u])
        /\ s \notin lost /\ Alone(s) => harm = {}
    BY DEF ShellInv
  <1>3. CASE UNCHANGED <<media, history>>
    <2>1. disk' = disk /\ in_use' = in_use /\ lost' = lost /\ harm' = harm
      BY <1>3 DEF media, history
    <2> QED
      BY <1>0, <1>1, <1>2, <2>1, RequestStep
  <1>4. ASSUME NEW i \in Indices, IsFolder(t), Found(t, 0, name, i),
               ~(t[i].folder /\ NotEmpty(disk[t[i].cluster])),
               disk' = [disk EXCEPT ![t[i].cluster] = EmptyTable,
                                    ![parent] = [t EXCEPT ![i] = EmptyEntry]],
               in_use' = in_use \ {t[i].cluster},
               lost' = lost \cup {u \in Shells : t[i].cluster \in Holds(u)},
               harm' = harm \cup (IF i \in 0..1 THEN {"own_entry"} ELSE {})
        PROVE  ShellInv'
    <2> DEFINE x == t[i].cluster
    <2>p. parent \in Clusters /\ t[i].name = name /\ name # NoName /\ x \in Clusters
      <3>1. parent \in Clusters
        BY <1>1, <1>4, FolderOnDisk
      <3>2. t[i].name = name
        BY <1>4 DEF Found
      <3>3. name # NoName
        <4>1. NoName # ".."
          BY SMTT(30) DEF NoName
        <4> QED
          BY <1>1, <4>1, ShellAssumption
      <3> QED
        BY <1>1, <3>1, <3>2, <3>3 DEF Grounded
    <2>1. /\ disk' \in [Numbers -> Tables] /\ Grounded(disk') /\ in_use' \in SUBSET Clusters
          /\ lost' \subseteq Shells /\ lost \subseteq lost' /\ harm \subseteq harm'
      <3>1. t \in [Indices -> Entries]
        BY <1>1, TablesAre
      <3>2. t[i] \in Entries
        BY <3>1
      <3>3. [t EXCEPT ![i] = EmptyEntry] \in Tables /\ EmptyTable \in Tables
        <4> HIDE DEF t
        <4> QED
          BY <3>1, <3>2, TablesAre DEF Entries
      <3>4. disk' = [[disk EXCEPT ![x] = EmptyTable] EXCEPT ![parent] = [t EXCEPT ![i] = EmptyEntry]]
        BY <1>4
      <3>5. /\ disk' \in [Numbers -> Tables]
            /\ disk'[parent] = [t EXCEPT ![i] = EmptyEntry]
            /\ parent # x => disk'[x] = EmptyTable
            /\ \A a \in Numbers \ {x, parent} : disk'[a] = disk[a]
        <4> HIDE DEF t, x, parent
        <4> QED
          BY <1>1, <2>p, <3>3, <3>4, Sizes
      <3>6. Grounded(disk')
        <4>1. disk'[0] = BootSector /\ disk'[OffDisk] = EmptyTable
          BY <1>1, <2>p, <3>5, Sizes DEF Grounded
        <4>2. ASSUME NEW a \in Clusters, NEW j \in Indices, disk'[a][j].name # NoName
              PROVE  disk'[a][j].cluster \in Clusters
          <5>1. disk[a][j].name # NoName => disk[a][j].cluster \in Clusters
            BY <1>1 DEF Grounded
          <5>2. CASE a = parent
            <6>1. disk'[a] = [disk[a] EXCEPT ![i] = EmptyEntry] /\ disk[a] \in [Indices -> Entries]
              BY <3>1, <3>5, <5>2
            <6>2. j # i
              BY <4>2, <6>1, EmptyIs
            <6> QED
              BY <4>2, <5>1, <6>1, <6>2
          <5>3. CASE a # parent /\ a = x
            <6>1. disk'[a][j] = EmptyEntry
              BY <3>5, <5>3, EmptyIs
            <6> QED
              BY <4>2, <6>1, EmptyIs
          <5>4. CASE a \notin {parent, x}
            <6>1. disk'[a] = disk[a]
              BY <3>5, <5>4, Sizes
            <6> QED
              BY <4>2, <5>1, <6>1
          <5> QED
            BY <5>2, <5>3, <5>4
        <4> QED
          BY <4>1, <4>2 DEF Grounded
      <3> QED
        BY <1>1, <1>4, <3>5, <3>6
    <2>2. CASE i \in Slots
      <3>1. harm' = harm
        BY <1>4, <2>2 DEF Slots
      <3>2. Used(disk, parent, i)
        BY <2>p, EmptyIs DEF Used
      <3>3. ASSUME harm = {}
            PROVE  Kept(disk, disk', in_use', {x}) /\ \A j \in Slots : disk[x][j] = EmptyEntry
        <4>1. disk' = Deleted(disk, parent, i, x) /\ in_use' = in_use \ {x}
          BY SMTT(30), <1>4 DEF Deleted
        <4>2. CanDelete(disk, in_use, parent, i, x)
          BY <1>1, <1>2, <1>4, <2>2, <2>p, <3>2, <3>3 DEF CanDelete
        <4> HIDE DEF parent, x
        <4> QED
          BY <4>1, <4>2, TreeDelete
      <3> HIDE DEF x
      <3>4. ASSUME NEW u \in Shells \ lost', harm = {}
            PROVE  Oriented(disk', shell[u])
        <4>1. shell[u] \in States /\ Oriented(disk, shell[u]) /\ Tree(disk, in_use) /\ u \notin lost
          BY <1>1, <1>2, <1>4, <3>4
        <4>2. x \notin Holds(u)
          BY <1>4, <3>4 DEF x
        <4>3. x \notin {shell[u].dir, shell[u].tdir, shell[u].odir}
          BY <4>2 DEF Holds
        <4>4. \A m : \A b \in Clusters : ~Edge(disk, x, m, b)
          BY <3>3, <3>4, FolderIs DEF Edge
        <4>5. ASSUME NEW a, a # x, NEW path \in Seq(EntryNames), Follows(disk, path, a)
              PROVE  Follows(disk', path, a) /\ disk'[a][1] = disk[a][1]
          <5>1. a \in Clusters
            BY <1>1, <4>1, <4>5, FollowsEnd
          <5>2. Follows(disk', path, a)
            <6>1. \A b \in Clusters, c \in Clusters : \A n :
                    /\ Edge(disk, b, n, c)
                    /\ c = a \/ \E m : \E e \in Clusters : Edge(disk, c, m, e)
                    => Edge(disk', b, n, c)
              BY <3>3, <3>4, <4>4, <4>5 DEF Kept
            <6> QED
              BY <4>5, <6>1, FollowsKept
          <5>3. IsFolder(disk[a])
            BY <1>1, <4>1, <4>5, FollowsEnd
          <5> QED
            BY <3>3, <3>4, <4>5, <5>1, <5>2, <5>3 DEF Kept
        <4> QED
          BY <4>1, <4>3, <4>5, OrientedKept
      <3>5. s \notin lost' /\ Alone(s) => harm' = {}
        BY <1>2, <2>1, <3>1
      <3>6. harm' = {} => Tree(disk', in_use')
        BY <3>1, <3>3 DEF Kept
      <3> QED
        BY <1>0, <2>1, <3>1, <3>4, <3>5, <3>6, RequestStep
    <2>3. CASE i \notin Slots
      <3>1. i \in {0, 1} /\ i \in 0..1
        BY <2>3, Sizes
      <3>2. harm' # {}
        BY <1>4, <3>1
      <3>3. ASSUME s \notin lost', Alone(s) PROVE FALSE
        <4>1. harm = {} /\ Tree(disk, in_use) /\ Oriented(disk, sh)
          BY <1>2, <2>1, <3>3
        <4>2. Follows(disk, sh.path, parent)
          BY SMTT(30), <1>0, <4>1 DEF Oriented
        <4>3. t[i].cluster = parent
          BY <1>1, <1>4, <2>p, <3>1, <4>1, <4>2, OwnEntry
        <4>4. t[i].cluster \in Holds(s)
          BY SMTT(30), <4>3 DEF Holds
        <4> QED
          BY <1>4, <3>3, <4>4
      <3> QED
        BY <1>0, <2>1, <3>2, <3>3, RequestStep
    <2> QED
      BY SMTT(30), <2>2, <2>3
  <1>5. \/ UNCHANGED <<media, history>>
        \/ \E i \in Indices :
            /\ IsFolder(t) /\ Found(t, 0, name, i) /\ ~(t[i].folder /\ NotEmpty(disk[t[i].cluster]))
            /\ disk' = [disk EXCEPT ![t[i].cluster] = EmptyTable,
                                    ![parent] = [t EXCEPT ![i] = EmptyEntry]]
            /\ in_use' = in_use \ {t[i].cluster}
            /\ lost' = lost \cup {u \in Shells : t[i].cluster \in Holds(u)}
            /\ harm' = harm \cup (IF i \in 0..1 THEN {"own_entry"} ELSE {})
    BY <1>0 DEF DeleteEntry
  <1> QED
    BY <1>3, <1>4, <1>5

\* A step that changes no variable.
LEMMA StutterKeeps == ASSUME ShellInv, UNCHANGED vars PROVE ShellInv'
  <1>1. disk' = disk /\ in_use' = in_use /\ shell' = shell /\ lost' = lost /\ harm' = harm
    BY DEF vars, media, history
  <1> QED
    BY <1>1 DEF ShellInv, ShellTypes, Grounded, Alone

\* Every step keeps the invariant.
LEMMA ShellNext == ShellInv /\ [Next]_vars => ShellInv'
  <1> SUFFICES ASSUME ShellInv, [Next]_vars PROVE ShellInv'
    OBVIOUS
  <1>1. CASE UNCHANGED vars
    BY <1>1, StutterKeeps
  <1>2. ASSUME NEW s \in Shells, Start(s) PROVE ShellInv'
    BY <1>2, StartKeeps
  <1>3. ASSUME NEW s \in Shells, get_input(s) \/ ls(s) \/ Spin(s) PROVE ShellInv'
    BY <1>3, StutterKeeps DEF get_input, ls, Spin
  <1>4. ASSUME NEW s \in Shells, NEW kind \in Commands, NEW p \in Paths, Command(s, kind, p)
        PROVE  ShellInv'
    BY <1>4, CommandKeeps
  <1>5. ASSUME NEW s \in Shells, WalkUp(s) \/ WalkHere(s) \/ WalkDown(s) PROVE ShellInv'
    BY <1>5, WalkKeeps
  <1>6. ASSUME NEW s \in Shells, mkdir(s) PROVE ShellInv'
    BY <1>6, MkdirKeeps
  <1>7. ASSUME NEW s \in Shells, rm(s) PROVE ShellInv'
    BY <1>7, RmKeeps
  <1>8. ASSUME NEW s \in Shells, cat(s) \/ exec(s) \/ cancel_change_path(s) PROVE ShellInv'
    BY <1>8, EndKeeps
  <1> QED
    BY <1>1, <1>2, <1>3, <1>4, <1>5, <1>6, <1>7, <1>8 DEF Next, Step

-----------------------------------------------------------------------------
(* What the invariant implies.                                              *)

\* The types.
LEMMA InvTypeOK == ShellInv => TypeOK
  <1> SUFFICES ASSUME ShellInv PROVE TypeOK
    OBVIOUS
  <1>1. ASSUME NEW s \in Shells
        PROVE  /\ shell[s].pc \in {"off", "prompt", "walk", "mkdir", "rm", "cat", "exec", "cancel"}
               /\ Holds(s) \subseteq Numbers
               /\ shell[s].table \in Tables /\ shell[s].ttable \in Tables
               /\ shell[s].path \in Seq(Names \cup {NoName, Signature, "root", ShellFile})
               /\ shell[s].pc = "walk" => shell[s].todo # <<>>
    <2>1. shell[s] \in States /\ Proper(shell[s])
      BY InvGood
    <2>2. Holds(s) \subseteq Numbers
      BY <2>1 DEF Holds, States, Commands
    <2>3. shell[s].pc = "walk" => shell[s].todo # <<>>
      BY <2>1 DEF Proper
    <2> QED
      BY <2>1, <2>2, <2>3 DEF States, EntryNames
  <1> QED
    BY <1>1 DEF TypeOK, ShellInv, ShellTypes, Grounded

\* The prompt of a shell.
LEMMA InvPathNames == ShellInv => PathNamesDirectory
  <1> SUFFICES ASSUME ShellInv, harm = {}, NEW s \in Shells \ lost, shell[s].pc = "prompt"
               PROVE  Leads(shell[s].path, shell[s].dir)
    BY DEF PathNamesDirectory
  <1>1. disk \in [Numbers -> Tables] /\ shell[s].path \in Seq(EntryNames)
    BY InvGood DEF States
  <1>2. NamesDiffer(disk) /\ Follows(disk, shell[s].path, shell[s].dir)
    BY DEF ShellInv, Tree, Oriented
  <1> QED
    BY <1>1, <1>2, FollowsLeads

\* The copy of the table.
LEMMA InvCacheFresh == ShellInv => CacheFresh
  BY SMTT(30) DEF ShellInv, CacheFresh, Alone, Fresh

\* The folders.
LEMMA InvTreeSound == ShellInv => TreeSound
  <1> SUFFICES ASSUME ShellInv, harm = {} PROVE TreeSound
    BY DEF TreeSound
  <1>0. Tree(disk, in_use)
    BY DEF ShellInv
  <1> DEFINE Ent == {p \in Clusters \X (2..(DIRECTORY_ENTRIES - 1)) : disk[p[1]][p[2]] # EmptyEntry}
             E(p) == disk[p[1]][p[2]]
  <1>1. ASSUME NEW c \in in_use \ {ROOT_CLUSTER_NUMBER} PROVE \E p \in Ent : E(p).cluster = c
    <2>1. PICK b \in Clusters, i \in Slots : Used(disk, b, i) /\ disk[b][i].cluster = c
      BY <1>0 DEF Tree, Reached
    <2>2. <<b, i>> \in Ent /\ E(<<b, i>>).cluster = c
      BY SMTT(30), <2>1 DEF Used, Slots
    <2> QED
      BY <2>2
  <1>2. ASSUME NEW p \in Ent
        PROVE  /\ {p[1], E(p).cluster} \subseteq in_use
               /\ \A q \in Ent : E(p).cluster = E(q).cluster => p = q
               /\ E(p).folder => disk[E(p).cluster][0] = E(p) /\ disk[E(p).cluster][1].cluster = p[1]
    <2>1. p[1] \in Clusters /\ p[2] \in Slots /\ Used(disk, p[1], p[2])
      BY DEF Used, Slots
    <2>2. EntrySound(disk, in_use, p[1], p[2])
      BY <1>0, <2>1 DEF Tree, EntriesSound
    <2>3. ASSUME NEW q \in Ent, E(p).cluster = E(q).cluster PROVE p = q
      <3>1. q[1] \in Clusters /\ q[2] \in Slots /\ Used(disk, q[1], q[2])
        BY DEF Used, Slots
      <3>2. p[1] = q[1] /\ p[2] = q[2]
        BY <1>0, <2>1, <2>3, <3>1 DEF Tree, NamedOnce
      <3> QED
        BY <3>2
    <2> QED
      BY <2>2, <2>3 DEF EntrySound
  <1> QED
    BY SMTT(30), <1>1, <1>2 DEF TreeSound

\* A command that turns back returns to its home.
LEMMA InvStaysPut ==
    ASSUME ShellInv, [Next]_vars, NEW s \in Shells, shell[s].pc = "cancel", shell'[s].pc = "prompt"
    PROVE  <<shell'[s].dir, shell'[s].path>> =
                IF shell[s].absolute /\ shell[s].kind # "rm"
                THEN <<ROOT_CLUSTER_NUMBER, <<>>>> ELSE shell[s].from
  <1>1. shell \in [Shells -> States] /\ shell' # shell
    BY DEF ShellInv, ShellTypes
  <1>2. \A u \in Shells : \A r : shell' = [shell EXCEPT ![u] = r] => u = s
    BY <1>1
  <1>3. PICK u \in Shells : \/ Start(u) \/ Step(u)
                            \/ \E kind \in Commands, p \in Paths : Command(u, kind, p)
    BY <1>1 DEF Next, vars, get_input, ls
  <1>4. u = s
    <2>1. CASE Start(u)
      BY <1>2, <2>1 DEF Start
    <2>2. ASSUME NEW kind \in Commands, NEW p \in Paths, Command(u, kind, p) PROVE u = s
      BY <1>1, <2>2 DEF Command
    <2>3. CASE Step(u)
      BY <1>1, <2>3 DEF Step, WalkUp, WalkHere, WalkDown, Spin, mkdir, rm, cat, exec, Turning,
                        cancel_change_path, vars
    <2> QED
      BY <1>3, <2>1, <2>2, <2>3
  <1>5. cancel_change_path(s)
    BY <1>3, <1>4 DEF Start, Command, Step, WalkUp, WalkHere, WalkDown, Spin, Spinning, mkdir, rm, cat, exec
  <1>6. shell' = [shell EXCEPT ![s] = Cancelled(shell[s])]
    BY <1>5 DEF cancel_change_path
  <1>7. Cancelled(shell[s]) = At(shell[s].odir, disk[shell[s].odir], shell[s].opath)
    BY InvGood, CancelGood
  <1>8. shell'[s].dir = shell[s].odir /\ shell'[s].path = shell[s].opath
    BY <1>1, <1>6, <1>7 DEF At
  <1>9. Home(shell[s])
    BY InvGood DEF Proper, Returning
  <1> QED
    BY <1>8, <1>9 DEF Home

-----------------------------------------------------------------------------
(* Theorems.                                                                *)

\* The inductive invariant holds in every state, for every command, of every shell.
THEOREM ShellCorrect == Spec => []ShellInv
  <1> QED
    BY ShellInit, ShellNext, PTL DEF Spec

\* Types.  A shell whose folder has been overwritten (rm of another shell) may come to
\* the boot sector's cluster and to ones past the disk's end; whatever it asks for
\* there, no table is written to either (write, Delete).
THEOREM ShellTypeCorrect == Spec => []TypeOK
  <1> QED
    BY ShellCorrect, InvTypeOK, PTL

\* The path in the prompt leads to the cluster the shell works in (change_path,
\* append_current_path, retract_current_path), for any number of shells and commands.
THEOREM PathNamesDirectoryHolds == Spec => []PathNamesDirectory
  <1> QED
    BY ShellCorrect, InvPathNames, PTL

\* The table ls prints is the one on the disk while only one shell runs
\* (update_directory_table).
THEOREM CacheFreshHolds == Spec => []CacheFresh
  <1> QED
    BY ShellCorrect, InvCacheFresh, PTL

\* The folders form a tree whatever mkdir and rm of all shells do (write, Delete).
THEOREM TreeSoundHolds == Spec => []TreeSound
  <1> QED
    BY ShellCorrect, InvTreeSound, PTL

\* Only cd and exec move a shell (cancel_change_path).
THEOREM StaysPutHolds == Spec => StaysPut
  <1>1. ShellInv /\ [Next]_vars =>
            [\A s \in Shells :
                shell[s].pc = "cancel" /\ shell'[s].pc = "prompt" =>
                    <<shell'[s].dir, shell'[s].path>> =
                        IF shell[s].absolute /\ shell[s].kind # "rm"
                        THEN <<ROOT_CLUSTER_NUMBER, <<>>>> ELSE shell[s].from]_vars
    BY InvStaysPut
  <1> QED
    BY <1>1, ShellCorrect, PTL DEF Spec, StaysPut
=============================================================================
