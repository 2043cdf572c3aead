-------------------------------- MODULE Shell --------------------------------
(***************************************************************************)
(* The shell's current directory (src/src/user-shell.c, cd.c, mkdir.c,     *)
(* rm.c, cat.c, exec.c, ls.c) on top of the directories the driver keeps.  *)
(* The commands cp, mv and find are in module Move.                        *)
(*                                                                         *)
(* A shell caches the directory it stands in: the cluster number, a copy   *)
(* of the table and the path it shows in its prompt.  A command parses its *)
(* path, walks there, makes one request and walks back.  System calls go   *)
(* through an interrupt gate and are atomic; between two of them the       *)
(* scheduler may run another shell, so every step below makes at most one. *)
(*                                                                         *)
(* A path is a flag and a sequence of components, a component is a name,   *)
(* "." or "..".  A file holds one cluster and its content is left out.     *)
(* A shell left in a removed folder finds zeros there, and its way up goes *)
(* to cluster 0, whose text it takes for a table, and off the disk.        *)
(* The driver's requests are those of FAT32, seen between two requests.    *)
(***************************************************************************)
EXTENDS Integers, Sequences, SequencesExt, FiniteSets

CONSTANTS MaxShells,         \* bound on the processes that run the shell
          Names,             \* names users give files and folders
          Paths,             \* arguments: [absolute : BOOLEAN, parts : Seq]
          LastCluster,       \* CLUSTER_MAP_SIZE - 1
          DIRECTORY_ENTRIES, \* CLUSTER_SIZE / sizeof(struct FAT32DirectoryEntry)
          MaxPath,           \* bound on the components of current_path
          MaxCommands        \* bound on the commands given

NoName     == ""
Signature  == "Course"       \* the words of fs_signature: no user's name
Components == Names \cup {".", ".."}

ASSUME ShellAssumption ==
    /\ MaxShells \in Nat \ {0}
    /\ LastCluster \in Nat /\ LastCluster > 3
    /\ DIRECTORY_ENTRIES \in Nat /\ DIRECTORY_ENTRIES > 2
    /\ MaxPath \in Nat /\ MaxCommands \in Nat
    /\ Names \cap {NoName, Signature, ".", ".."} = {}
    /\ \A p \in Paths : /\ p.absolute \in BOOLEAN
                        /\ p.parts \in Seq(Components) \ {<<>>}

ROOT_CLUSTER_NUMBER == 2
Shells              == 1..MaxShells
Indices             == 0..(DIRECTORY_ENTRIES - 1)
Clusters            == 2..LastCluster   \* those of files and folders
OffDisk             == LastCluster + 1  \* stands for every cluster past the disk's end
Numbers             == Clusters \cup {0, OffDisk}   \* no entry names cluster 1, see in_use
Commands            == {"cd", "mkdir", "rm", "cat", "exec"}
ShellFile           == "shell"

VARIABLES disk,   \* cluster number -> directory table
          in_use, \* clusters the allocation table marks, other than 0 and 1
          shell,  \* the variables of each shell
          lost,   \* history: shells that used a folder when it was removed
          harm,   \* history: the ways in which commands have damaged the tree
          given   \* number of commands given

media   == <<disk, in_use>>
history == <<lost, harm>>
vars    == <<media, shell, history, given>>

-----------------------------------------------------------------------------
(* Directory tables and the driver's requests.                              *)

Entry(name, folder, cluster) == [name |-> name, folder |-> folder, cluster |-> cluster]
EmptyEntry == Entry(NoName, FALSE, 0)
EmptyTable == [i \in Indices |-> EmptyEntry]

\* init_directory_table, its write into a string literal aside: see FAT32.
DirectoryTable(name, cluster, parent_name, parent) ==
    [EmptyTable EXCEPT ![0] = Entry(name, TRUE, cluster),
                       ![1] = Entry(parent_name, TRUE, parent)]

IsFolder(t) == t[0].folder

\* The first entry from index start on with this name; every search of the
\* driver takes the first.
Found(t, start, name, i) ==
    /\ i \in start..(DIRECTORY_ENTRIES - 1)
    /\ t[i].name = name
    /\ \A j \in start..(i - 1) : t[j].name # name

Missing(t, start, name) == \A j \in start..(DIRECTORY_ENTRIES - 1) : t[j].name # name

FirstEmpty(t, i) ==
    /\ i \in 2..(DIRECTORY_ENTRIES - 1)
    /\ t[i] = EmptyEntry
    /\ \A j \in 2..(i - 1) : t[j] # EmptyEntry

FreeCluster(c) == c \in Clusters \ in_use /\ \A b \in Clusters \ in_use : c <= b

\* write, for a folder or for a file of one cluster.
write(parent, name, folder) ==
    LET t == disk[parent] IN
    IF /\ IsFolder(t)
       /\ \A i \in 2..(DIRECTORY_ENTRIES - 1) : ~(t[i].name = name /\ t[i].folder = folder)
       /\ \E i \in Indices : FirstEmpty(t, i)
       /\ in_use # Clusters
    THEN \E i \in Indices, c \in Clusters :
            /\ FirstEmpty(t, i) /\ FreeCluster(c)
            /\ disk' = [disk EXCEPT ![parent][i] = Entry(name, folder, c),
                                    ![c] = IF folder
                                           THEN DirectoryTable(name, c, t[0].name, parent)
                                           ELSE EmptyTable]
            /\ in_use' = in_use \cup {c}
    ELSE UNCHANGED <<disk, in_use>>

SlipNotEmpty(t) == FALSE

NotEmpty(t) == \E i \in 2..(DIRECTORY_ENTRIES - 1) : t[i] # EmptyEntry

\* The folders a shell holds on to: where it stands, where its walk has come,
\* where it will return to and what find has still to visit.
Holds(s) ==
    {shell[s].dir, shell[s].tdir, shell[s].odir}
        \cup (IF shell[s].kind = "find" THEN Range(shell[s].job.queue) ELSE {})

\* Delete searches from entry 0 on, so it may find the folder itself or its
\* parent; the cluster is overwritten with zeros, then the table is written.
DeleteEntry(parent, name) ==
    LET t == disk[parent] IN
    \/ /\ ~IsFolder(t) \/ Missing(t, 0, name)
       /\ UNCHANGED <<media, history>>
    \/ \E i \in Indices :
        /\ IsFolder(t) /\ Found(t, 0, name, i)
        /\ IF t[i].folder /\ NotEmpty(disk[t[i].cluster])
           THEN UNCHANGED <<media, history>>
           ELSE /\ disk' = [disk EXCEPT ![t[i].cluster] = EmptyTable,
                                        ![parent] = [t EXCEPT ![i] = EmptyEntry]]
                /\ in_use' = in_use \ {t[i].cluster}
                /\ lost' = lost \cup {s \in Shells : t[i].cluster \in Holds(s)}
                /\ harm' = harm \cup (IF i \in 0..1 THEN {"own_entry"} ELSE {})

-----------------------------------------------------------------------------
(* The shell.                                                               *)

\* A shell in main's loop: what a command kept on its stack is gone.  The fields:
\*   pc, kind, absolute, last        where it is in which command, with what argument
\*   todo, ok, bad, ret, tdir,       change_path: components to go, where it continues,
\*   ttable, wpath                     its result, and its locals
\*   odir, opath, then               where cancel_change_path returns to and continues
\*   dir, table, path                current_directory, current_dir_table, current_path
\*   from, job                       history: the place of the prompt; locals of Move
At(dir, table, path) ==
    [pc |-> "prompt", kind |-> "none", absolute |-> FALSE, last |-> NoName,
     todo |-> <<>>, ok |-> "prompt", bad |-> "prompt", ret |-> 0,
     tdir |-> dir, ttable |-> EmptyTable, wpath |-> <<>>,
     odir |-> dir, opath |-> <<>>, then |-> "prompt",
     dir |-> dir, table |-> table, path |-> path,
     from |-> <<>>, job |-> <<>>]

Prompt(sh) == At(sh.dir, sh.table, sh.path)

Goto(sh, label) == IF label = "prompt" THEN Prompt(sh) ELSE [sh EXCEPT !.pc = label]

\* fs_signature as a table: no folder, since the bytes of the attributes are a space,
\* a letter and a digit; the bytes of two cluster numbers are text as well.
BootSector ==
    [EmptyTable EXCEPT ![0] = Entry(Signature, FALSE, OffDisk),
                       ![1] = Entry(Signature, FALSE, OffDisk),
                       ![2] = Entry(Signature, FALSE, 0)]

\* The disk as external-inserter leaves it: the signature, and the root folder with
\* the shell.  The device gives zeros for a cluster it does not have.
Init ==
    /\ disk = [[c \in Numbers |-> EmptyTable] EXCEPT
                 ![0] = BootSector,
                 ![ROOT_CLUSTER_NUMBER] =
                    [DirectoryTable("root", ROOT_CLUSTER_NUMBER, "root", ROOT_CLUSTER_NUMBER)
                        EXCEPT ![2] = Entry(ShellFile, FALSE, 3)]]
    /\ in_use = 2..3
    /\ shell = [s \in Shells |-> [At(ROOT_CLUSTER_NUMBER, EmptyTable, <<>>) EXCEPT !.pc = "off"]]
    /\ lost = {}
    /\ harm = {}
    /\ given = 0

\* A process starts to run main: it loads the root's table.  The kernel starts the
\* first shell, a shell starts the next.
Start(s) ==
    /\ shell[s].pc = "off"
    /\ s > 1 => shell[s - 1].pc # "off"
    /\ shell' = [shell EXCEPT ![s] = At(ROOT_CLUSTER_NUMBER, disk[ROOT_CLUSTER_NUMBER], <<>>)]
    /\ UNCHANGED <<media, history, given>>

\* An absolute path moves the shell to the root before anything is looked up.
parse_path(sh, p) ==
    IF p.absolute
    THEN [sh EXCEPT !.dir = ROOT_CLUSTER_NUMBER, !.table = disk[ROOT_CLUSTER_NUMBER], !.path = <<>>]
    ELSE sh

\* change_path has found every component.
Committed(sh) == [sh EXCEPT !.dir = sh.tdir, !.table = sh.ttable]

SlipArrived(sh) == IF sh.todo = <<>> /\ sh.kind = "cd" THEN Prompt(Committed(sh)) ELSE sh

\* The end of change_path's loop.
Arrived(sh) == IF sh.todo = <<>> THEN Goto([Committed(sh) EXCEPT !.ret = 0], sh.ok) ELSE sh

\* change_path met an error: it restores the path.
Failed(sh, err) == Goto([sh EXCEPT !.path = sh.wpath, !.ret = err], sh.bad)

\* change_path begins.
change_path(sh, parts, ok, bad) ==
    Arrived([sh EXCEPT !.pc = "walk", !.todo = parts, !.ok = ok, !.bad = bad,
                       !.tdir = sh.dir, !.ttable = sh.table, !.wpath = sh.path])

SlipRemembered(kind, before, parsed) == parsed

\* Where the command will return to: rm remembers it before it parses its path,
\* mkdir and cat afterwards, cd and exec not at all.
Remembered(kind, before, parsed) == IF kind = "rm" THEN before ELSE parsed

\* The command line has been read, its path is parsed and change_path begins.  cd
\* and exec do not walk back, whatever change_path returns.
Begin(s, kind, p) ==
    LET sh   == parse_path(shell[s], p)
        back == Remembered(kind, shell[s], sh)
    IN  change_path([sh EXCEPT !.kind = kind, !.absolute = p.absolute, !.last = Last(p.parts),
                               !.odir = back.dir, !.opath = back.path,
                               !.from = <<shell[s].dir, shell[s].path>>],
                    IF kind = "cd" THEN p.parts ELSE Front(p.parts),
                    IF kind = "cd" THEN "prompt" ELSE kind,
                    IF kind \in {"cd", "exec"} THEN "prompt" ELSE "cancel")

\* get_input polls the keyboard until a line is complete.
get_input(s) == shell[s].pc = "prompt" /\ UNCHANGED vars

IsName(part) == part \in Names

\* ls prints the copied table and changes nothing.
ls(s) == shell[s].pc = "prompt" /\ UNCHANGED vars

\* Left out: commands on "." itself.  rm and cat take its name to be empty, which
\* an unused entry of the table matches.
Nameable(kind, p) == kind \in {"cd", "mkdir"} \/ Last(p.parts) # "."

\* mkdir refuses a name with a dot after it has parsed the path.
Command(s, kind, p) ==
    /\ shell[s].pc = "prompt"
    /\ given < MaxCommands
    /\ Nameable(kind, p)
    /\ (IF p.absolute THEN 0 ELSE Len(shell[s].path)) + Len(SelectSeq(p.parts, IsName)) <= MaxPath
    /\ shell' = [shell EXCEPT ![s] =
                    IF kind = "mkdir" /\ Last(p.parts) \notin Names
                    THEN Prompt(parse_path(@, p))
                    ELSE Begin(s, kind, p)]
    /\ given' = given + 1
    /\ UNCHANGED <<media, history>>

\* The path says that the walk is at the root, and the next component is "..".
Spinning(s) ==
    /\ shell[s].pc = "walk"
    /\ Head(shell[s].todo) = ".."
    /\ shell[s].path = <<>>

SlipUp(sh) ==
    LET up == sh.ttable[1].cluster
    IN  [sh EXCEPT !.tdir = up, !.ttable = disk[up], !.todo = Tail(@)]

\* One iteration of change_path's loop for "..", away from the root.
Up(sh) ==
    LET up == sh.ttable[1].cluster
    IN  [sh EXCEPT !.tdir = up, !.ttable = disk[up], !.path = Front(@), !.todo = Tail(@)]

\* An overwritten table has an empty name, which leaves "/" as it is.
append_current_path(path, name) ==
    IF path = <<>> /\ name = NoName THEN path ELSE Append(path, name)

\* change_directory has read the table d.  change_path_mv has a temp_dir_table of
\* its own, which hides the one change_directory reads into.
Down(sh, d) ==
    [sh EXCEPT !.tdir = d[0].cluster, !.todo = Tail(@),
               !.ttable = IF sh.kind = "mv_probe" THEN @ ELSE d,
               !.path = append_current_path(@, d[0].name)]

\* In the middle of the writes of mv (module Move).
Writing(s) == shell[s].pc \in {"move_unlink", "move_enter", "rename_read", "rename_inner"}

\* A walk through a tree that another shell's mv has half changed.
Unsettled(s) == IF \E u \in Shells \ {s} : Writing(u) THEN lost \cup {s} ELSE lost

WalkUp(s) ==
    /\ shell[s].pc = "walk" /\ Head(shell[s].todo) = ".." /\ ~Spinning(s)
    /\ shell' = [shell EXCEPT ![s] = Arrived(Up(@))]
    /\ lost' = Unsettled(s)
    /\ UNCHANGED <<media, harm, given>>

\* The continue of line 21 skips the increment of idx.
Spin(s) == Spinning(s) /\ UNCHANGED vars

SlipWalkHere(s) == shell[s].pc = "walk" /\ Head(shell[s].todo) = "." /\ UNCHANGED vars

\* One iteration for ".".
Here(sh) == [sh EXCEPT !.todo = Tail(@)]

WalkHere(s) ==
    /\ shell[s].pc = "walk" /\ Head(shell[s].todo) = "."
    /\ shell' = [shell EXCEPT ![s] = Arrived(Here(@))]
    /\ UNCHANGED <<media, history, given>>

\* read_directory searches from entry 2 on.
WalkDown(s) ==
    LET sh == shell[s]
        t  == disk[sh.tdir]
    IN
    /\ sh.pc = "walk" /\ Head(sh.todo) \in Names
    /\ \/ /\ ~IsFolder(t)
          /\ shell' = [shell EXCEPT ![s] = Failed(sh, -1)]
       \/ /\ IsFolder(t) /\ Missing(t, 2, Head(sh.todo))
          /\ shell' = [shell EXCEPT ![s] = Failed(sh, 2)]
       \/ \E i \in Indices :
            /\ IsFolder(t) /\ Found(t, 2, Head(sh.todo), i)
            /\ shell' = [shell EXCEPT ![s] =
                            IF t[i].folder THEN Arrived(Down(sh, disk[t[i].cluster])) ELSE Failed(sh, 1)]
    /\ lost' = Unsettled(s)
    /\ UNCHANGED <<media, harm, given>>

Turning(s) == shell' = [shell EXCEPT ![s].pc = "cancel"]

mkdir(s) ==
    /\ shell[s].pc = "mkdir"
    /\ write(shell[s].dir, shell[s].last, TRUE)
    /\ Turning(s)
    /\ UNCHANGED <<history, given>>

rm(s) ==
    /\ shell[s].pc = "rm"
    /\ DeleteEntry(shell[s].dir, shell[s].last)
    /\ Turning(s)
    /\ UNCHANGED given

\* read_file, whose request changes nothing here.
cat(s) ==
    /\ shell[s].pc = "cat"
    /\ Turning(s)
    /\ UNCHANGED <<media, history, given>>

\* execute_program does not walk back.
exec(s) ==
    /\ shell[s].pc = "exec"
    /\ shell' = [shell EXCEPT ![s] = Prompt(@)]
    /\ UNCHANGED <<media, history, given>>

SlipCancelled(sh) == Goto([sh EXCEPT !.dir = sh.odir, !.path = sh.opath], sh.then)

\* cancel_change_path
Cancelled(sh) ==
    Goto([sh EXCEPT !.dir = sh.odir, !.table = disk[sh.odir], !.path = sh.opath], sh.then)

cancel_change_path(s) ==
    /\ shell[s].pc = "cancel"
    /\ shell' = [shell EXCEPT ![s] = Cancelled(@)]
    /\ UNCHANGED <<media, history, given>>

Step(s) ==
    \/ WalkUp(s) \/ Spin(s) \/ WalkHere(s) \/ WalkDown(s)
    \/ mkdir(s) \/ rm(s) \/ cat(s) \/ exec(s)
    \/ cancel_change_path(s)

Next ==
    \E s \in Shells :
        \/ Start(s)
        \/ get_input(s) \/ ls(s)
        \/ \E kind \in Commands, p \in Paths : Command(s, kind, p)
        \/ Step(s)

Spec == Init /\ [][Next]_vars

\* The scheduler gives every process its turn (ReadyRuns of Process), so a
\* command that has begun goes on.
FairSpec == Spec /\ \A s \in Shells : WF_vars(Step(s))

-----------------------------------------------------------------------------
(* Properties.                                                              *)

Tables == [Indices -> [name : Names \cup {NoName, Signature, "root", ShellFile},
                       folder : BOOLEAN, cluster : Numbers]]

\* Types.  A shell in a removed folder may come to hold the boot sector's cluster or
\* one that is not on the disk: what it asks for there changes neither.
TypeOK ==
    /\ disk \in [Numbers -> Tables]
    /\ disk[0] = BootSector /\ disk[OffDisk] = EmptyTable
    /\ in_use \subseteq Clusters
    /\ lost \subseteq Shells
    /\ \A s \in Shells :
        /\ shell[s].pc \in {"off", "prompt", "walk", "mkdir", "rm", "cat", "exec", "cancel"}
        /\ Holds(s) \subseteq Numbers
        /\ shell[s].table \in Tables /\ shell[s].ttable \in Tables
        /\ shell[s].path \in Seq(Names \cup {NoName, Signature, "root", ShellFile})
        /\ shell[s].pc = "walk" => shell[s].todo # <<>>

\* The folder of this name in folder c.
Child(c, name) ==
    LET hits == {i \in 2..(DIRECTORY_ENTRIES - 1) : disk[c][i].name = name /\ disk[c][i].folder}
    IN  IF hits = {} THEN 0 ELSE disk[c][CHOOSE i \in hits : TRUE].cluster

\* The path leads, on the disk, from the root through its folders to cluster c.
Leads(path, c) ==
    \E way \in [1..Len(path) -> Clusters] :
        LET at(i) == IF i = 0 THEN ROOT_CLUSTER_NUMBER ELSE way[i] IN
        /\ \A i \in 1..Len(path) : at(i) = Child(at(i - 1), path[i])
        /\ at(Len(path)) = c

\* The prompt tells the truth: the path a shell shows leads, on the disk, to the
\* cluster it works in, whatever walks it has made, finished or failed, and
\* whatever other shells did, as long as none removed a folder under it or by
\* its own name (change_path, append_current_path, retract_current_path).
PathNamesDirectory ==
    harm = {} => \A s \in Shells \ lost :
        shell[s].pc = "prompt" => Leads(shell[s].path, shell[s].dir)

\* While only one shell runs, the table ls prints is the one on the disk: every
\* command that changed a folder has reloaded it (update_directory_table).
CacheFresh ==
    \A s \in Shells \ lost :
        /\ shell[s].pc = "prompt"
        /\ \A t \in Shells \ {s} : shell[t].pc = "off"
        => shell[s].table = disk[shell[s].dir]

\* Removing a folder that a shell stands in never tears the tree: every folder in
\* use is the child of exactly one folder in use, the one its second entry
\* names; a shell left in a removed folder cannot add entries to it (the
\* attribute test of write and Delete).
TreeSound ==
    LET Entries == {p \in Clusters \X (2..(DIRECTORY_ENTRIES - 1)) :
                        disk[p[1]][p[2]] # EmptyEntry}
        E(p)    == disk[p[1]][p[2]]
    IN  harm = {} /\ (\A s \in Shells : ~Writing(s)) =>
                 /\ \A c \in in_use \ {ROOT_CLUSTER_NUMBER} : \E p \in Entries : E(p).cluster = c
                 /\ \A p \in Entries :
                      /\ {p[1], E(p).cluster} \subseteq in_use
                      /\ \A q \in Entries : E(p).cluster = E(q).cluster => p = q
                      /\ E(p).folder => /\ disk[E(p).cluster][0] = E(p)
                                        /\ disk[E(p).cluster][1].cluster = p[1]

\* Only cd and exec move a shell: after rm it stands where it stood, after mkdir
\* and cat too, or in the root when the path was absolute (parse_path has moved
\* it there before write_to and read_file remember the place).
StaysPut ==
    [][\A s \in Shells :
        shell[s].pc = "cancel" /\ shell'[s].pc = "prompt" =>
            <<shell'[s].dir, shell'[s].path>> =
                IF shell[s].absolute /\ shell[s].kind # "rm"
                THEN <<ROOT_CLUSTER_NUMBER, <<>>>> ELSE shell[s].from]_vars

Busy(s) == shell[s].pc \notin {"off", "prompt"}

\* Every command comes back to the prompt, or spins on ".." at the root.
CommandsReturnOrSpin == \A s \in Shells : Busy(s) ~> ~Busy(s) \/ Spinning(s)
=============================================================================
