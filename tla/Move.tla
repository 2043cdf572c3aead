-------------------------------- MODULE Move --------------------------------
(***************************************************************************)
(* The shell's commands that touch more than one folder: cp, mv and find   *)
(* (src/src/cp.c, mv.c, find.c), on top of the walks of module Shell.      *)
(*                                                                         *)
(* cp makes two requests of the driver.  mv makes none: it reads tables    *)
(* into its own memory, edits them there and writes them back whole with   *)
(* system call 10, one folder at a time.  find reads tables with system    *)
(* call 9.  Between any two calls another shell may run.                   *)
(***************************************************************************)
EXTENDS Shell

CONSTANTS CopyArgs,  \* pairs of paths given to cp
          MoveArgs,  \* pairs of paths given to mv
          Goals,     \* names given to find
          Garbage,   \* what slots of find's Queue never written may hold
          MaxQueue,  \* bound on the slots of Queue find looks at
          ListRows   \* rows of listPath in trackToParent

ASSUME MoveAssumption ==
    /\ \A pq \in CopyArgs \cup MoveArgs, n \in 1..2 :
        /\ pq[n].absolute \in BOOLEAN
        /\ pq[n].parts \in Seq(Components) \ {<<>>}
    /\ \A pq \in CopyArgs : Last(pq[1].parts) \in Names
    /\ Goals \subseteq Names
    /\ Garbage \subseteq Numbers /\ 0 \in Garbage
    /\ MaxQueue \in Nat /\ ListRows \in Nat

-----------------------------------------------------------------------------
(* What the commands share.                                                 *)

\* A command line has been read.  The runs end with the command that does harm.
Given(s) ==
    /\ shell[s].pc = "prompt"
    /\ given < MaxCommands
    /\ harm = {}
    /\ given' = given + 1
    /\ UNCHANGED <<media, history>>

\* Both paths are parsed before the first walk: either moves the shell to the root.
ParseBoth(sh, p, q) == parse_path(parse_path(sh, p), q)

SlipRemember(sh, then) == [sh EXCEPT !.odir = sh.dir, !.then = then]

\* The place is remembered, and returned to by cancel_change_path.
Remember(sh, then) == [sh EXCEPT !.odir = sh.dir, !.opath = sh.path, !.then = then]

Do(s, sh) == shell' = [shell EXCEPT ![s] = sh]

\* The entry in slot i has a namesake of its kind in table t, which write would refuse.
Double(t, i) ==
    \E j \in (2..(DIRECTORY_ENTRIES - 1)) \ {i} :
        t[j].name = t[i].name /\ t[j].folder = t[i].folder

\* System call 10; the device does nothing for a cluster it does not have.
write_clusters(c, t) == disk' = [disk EXCEPT ![c] = IF c = OffDisk THEN @ ELSE t]

Quiet == UNCHANGED <<media, history, given>>

Above(c) == disk[c][1].cluster

\* The folder c lies in top, or is top.
Below(c, top) ==
    \E n \in 0..LastCluster :
        FoldLeft(LAMBDA x, i : Above(x), c, [i \in 1..n |-> i]) = top

\* Shells whose path runs through the folder c.
Through(c) == {t \in Shells : \E d \in Holds(t) : Below(d, c)}

-----------------------------------------------------------------------------
(* cp                                                                       *)

cp(s, p, q) ==
    LET sh == ParseBoth(shell[s], p, q) IN
    /\ Given(s)
    /\ Do(s, change_path([Remember(sh, "prompt") EXCEPT
                            !.kind = "cp", !.last = Last(p.parts), !.job = q.parts,
                            !.absolute = p.absolute \/ q.absolute,
                            !.from = <<shell[s].dir, shell[s].path>>],
                         Front(p.parts), "cp_read", "cancel"))

\* The result of read, for a file that is searched from entry 0 on.
ReadResult(t, name) ==
    CASE ~IsFolder(t)                                    -> -1
      [] IsFolder(t) /\ Missing(t, 0, name)              -> 2
      [] \E i \in Indices : IsFolder(t) /\ Found(t, 0, name, i) /\ t[i].folder -> 1
      [] OTHER                                           -> 0

\* read_file's request; a failure ends the command.
cp_read(s) ==
    LET sh  == shell[s]
        ret == ReadResult(disk[sh.dir], sh.last)
    IN
    /\ sh.pc = "cp_read"
    /\ Do(s, [sh EXCEPT !.pc = "cancel", !.then = IF ret = 0 THEN "cp_to" ELSE "prompt"])
    /\ Quiet

\* write_to walks all of the second path.
cp_to(s) ==
    /\ shell[s].pc = "cp_to"
    /\ Do(s, change_path(Remember(shell[s], "prompt"), shell[s].job, "cp_write", "cancel"))
    /\ Quiet

cp_write(s) ==
    /\ shell[s].pc = "cp_write"
    /\ write(shell[s].dir, shell[s].last, FALSE)
    /\ Turning(s)
    /\ UNCHANGED <<history, given>>

-----------------------------------------------------------------------------
(* mv: what it does depends on a first walk along the second path.          *)

\* The locals of mv, move and rename.
Job(p, q) ==
    [p |-> p, q |-> q, i |-> 0, isfile |-> FALSE, cluster |-> 0,
     parentSrc |-> EmptyTable, parentCluster |-> 0,
     srcDirectory |-> EmptyTable, srcCluster |-> 0,
     destDirectory |-> EmptyTable, destCluster |-> 0]

\* change_path, with a temp_dir_table of its own (Down of Shell) and no word about
\* what went wrong; its caller walks back in any case.
change_path_mv(sh, parts) == change_path([sh EXCEPT !.kind = "mv_probe"], parts, "cancel", "cancel")

\* Where to return to is remembered before the path is parsed.
mv(s, p, q) ==
    LET back == Remember(shell[s], "mv_choose") IN
    /\ Given(s)
    /\ Do(s, change_path_mv([parse_path(back, q) EXCEPT !.job = Job(p, q),
                                                        !.from = <<back.odir, back.opath>>],
                            q.parts))

\* A name was not found: rename the source, in place.
StartRename(sh) ==
    LET at == Remember(parse_path(sh, sh.job.p), "prompt")
    IN  IF sh.table[0].cluster = sh.dir /\ Last(sh.job.q.parts) \in Names
        THEN change_path([at EXCEPT !.kind = "mv", !.absolute = sh.job.p.absolute],
                         Front(sh.job.p.parts), "rename", "rename")
        ELSE Prompt(sh)

\* move reads the source's parent from the copied table when it is the current folder.
StartMove(sh) ==
    LET p  == sh.job.p
        at == [Remember(ParseBoth(sh, sh.job.q, p), "move_search") EXCEPT
                 !.kind = "mv", !.absolute = p.absolute \/ sh.job.q.absolute]
    IN  IF Len(p.parts) = 1
        THEN [at EXCEPT !.pc = "move_search", !.job.parentSrc = at.table, !.job.parentCluster = at.dir]
        ELSE change_path(at, Front(p.parts), "move_parent", "move_parent")

mv_choose(s) ==
    /\ shell[s].pc = "mv_choose"
    /\ Do(s, IF shell[s].ret = 2 THEN StartRename(shell[s]) ELSE StartMove(shell[s]))
    /\ Quiet

-----------------------------------------------------------------------------
(* rename                                                                   *)

\* The whole argument is compared with the names, so only a bare name is found.
Argument(p) == IF ~p.absolute /\ Len(p.parts) = 1 THEN p.parts[1] ELSE "/"

NewName(sh) == Last(sh.job.q.parts)

SlipRenamed(t, i, name) == IF i = 0 THEN t ELSE [t EXCEPT ![i].name = name]

Renamed(t, i, name) == [t EXCEPT ![i].name = name]

\* The copied table is changed and written back.
rename(s) ==
    LET sh == shell[s] IN
    /\ sh.pc = "rename"
    /\ \/ /\ Missing(sh.table, 0, Argument(sh.job.p))
          /\ Turning(s)
          /\ Quiet
       \/ \E i \in Indices :
            LET t == Renamed(sh.table, i, NewName(sh)) IN
            /\ Found(sh.table, 0, Argument(sh.job.p), i)
            /\ write_clusters(sh.dir, t)
            /\ Do(s, [sh EXCEPT !.pc = IF t[i].folder THEN "rename_read" ELSE "cancel",
                                !.table = t, !.job.i = i, !.job.cluster = t[i].cluster])
            /\ harm' = harm \cup (IF i \in 0..1 THEN {"own_entry"} ELSE {})
                            \cup (IF Double(t, i) THEN {"double"} ELSE {})
                            \cup (IF disk[sh.dir] # sh.table THEN {"stale"} ELSE {})
            /\ lost' = IF t[i].folder THEN lost \cup Through(t[i].cluster) ELSE lost
            /\ UNCHANGED <<in_use, given>>

\* The folder's own table has its name too.
rename_read(s) ==
    /\ shell[s].pc = "rename_read"
    /\ Do(s, [shell[s] EXCEPT !.pc = "rename_inner", !.table = disk[shell[s].job.cluster]])
    /\ Quiet

rename_inner(s) ==
    LET sh == shell[s]
        c  == sh.job.cluster
    IN
    /\ sh.pc = "rename_inner"
    /\ write_clusters(c, Renamed(sh.table, 0, NewName(sh)))
    /\ Do(s, [sh EXCEPT !.pc = "cancel", !.table = Renamed(sh.table, 0, NewName(sh))])
    /\ harm' = harm \cup (IF disk[c] # sh.table \/ disk[sh.dir][sh.job.i] # Entry(NewName(sh), TRUE, c)
                          THEN {"stale"} ELSE {})
    /\ lost' = lost \cup Through(c)
    /\ UNCHANGED <<in_use, given>>

-----------------------------------------------------------------------------
(* move                                                                     *)

\* Each walk of move ends with a copy of the table it came to, whether or not it
\* succeeded, and with cancel_change_path.
move_parent(s) ==
    LET sh == shell[s] IN
    /\ sh.pc = "move_parent"
    /\ Do(s, Cancelled([sh EXCEPT !.job.parentSrc = sh.table, !.job.parentCluster = sh.dir]))
    /\ Quiet

\* The source is looked up in the copy of its parent.  If it is not there isfile is
\* never assigned and the index is the one past the table.
move_search(s) ==
    LET sh   == shell[s]
        t    == sh.job.parentSrc
        name == Last(sh.job.p.parts)
    IN
    /\ sh.pc = "move_search"
    /\ \E i \in 2..DIRECTORY_ENTRIES, isfile \in BOOLEAN :
        /\ \/ Found(t, 2, name, i) /\ isfile = ~t[i].folder
           \/ Missing(t, 2, name) /\ i = DIRECTORY_ENTRIES
        /\ LET found == [sh EXCEPT !.job.i = i, !.job.isfile = isfile]
           IN  Do(s, IF isfile
                     THEN [found EXCEPT !.pc = "move_to"]
                     ELSE change_path([found EXCEPT !.then = "move_to"],
                                      sh.job.p.parts, "move_source", "move_source"))
    /\ Quiet

move_source(s) ==
    LET sh == shell[s] IN
    /\ sh.pc = "move_source"
    /\ Do(s, Cancelled([sh EXCEPT !.job.srcDirectory = sh.table, !.job.srcCluster = sh.dir]))
    /\ Quiet

move_to(s) ==
    /\ shell[s].pc = "move_to"
    /\ Do(s, change_path(shell[s], shell[s].job.q.parts, "move_dest", "move_dest"))
    /\ Quiet

\* A failed walk ends the command.  No entry's attribute is ever UATTR_NOT_EMPTY, so
\* the destination never counts as full.
move_dest(s) ==
    LET sh == shell[s] IN
    /\ sh.pc = "move_dest"
    /\ Do(s, Cancelled([sh EXCEPT !.job.destDirectory = sh.table, !.job.destCluster = sh.dir,
                                  !.then = CASE sh.ret # 0        -> "prompt"
                                             [] sh.job.isfile     -> "move_unlink"
                                             [] OTHER             -> "move_link"]))
    /\ Quiet

SlipSource(job) == job.srcDirectory

\* The folder's second entry becomes its new parent.
Source(job) == [job.srcDirectory EXCEPT ![1] = job.destDirectory[0]]

\* The first of the writes.  A source that was not found, by the search or by the walk,
\* leaves the copy of the current folder's table in srcDirectory.
move_link(s) ==
    LET sh  == shell[s]
        job == sh.job
    IN
    /\ sh.pc = "move_link"
    /\ write_clusters(job.srcCluster, Source(job))
    /\ Do(s, [sh EXCEPT !.pc = "move_unlink", !.job.srcDirectory = Source(job)])
    /\ harm' = harm \cup (IF job.i = DIRECTORY_ENTRIES THEN {"missing"} ELSE {})
                    \cup (IF disk[job.srcCluster] # job.srcDirectory
                             \/ (job.i \in Indices /\ job.parentSrc[job.i] # job.srcDirectory[0])
                          THEN {"stale"} ELSE {})
                    \cup (IF Below(job.destCluster, job.srcCluster) THEN {"loop"} ELSE {})
    /\ lost' = lost \cup Through(job.srcCluster)
    /\ UNCHANGED <<in_use, given>>

\* The folder has been moved or renamed since move_link, perhaps there and back: the
\* tables of its parent and of the destination may be what they were.
Rewritten(job) ==
    ~job.isfile /\ \E n \in 0..1 : disk[job.srcCluster][n] # job.srcDirectory[n]

\* The source's parent, without the entry.
Unlinked(job) == [job.parentSrc EXCEPT ![job.i] = EmptyEntry]

move_unlink(s) ==
    LET sh  == shell[s]
        job == sh.job
    IN
    /\ sh.pc = "move_unlink" /\ job.i \in Indices
    /\ write_clusters(job.parentCluster, Unlinked(job))
    /\ Do(s, [sh EXCEPT !.pc = "move_enter"])
    /\ harm' = harm \cup (IF disk[job.parentCluster] # job.parentSrc \/ Rewritten(job)
                          THEN {"stale"} ELSE {})
                    \cup (IF job.parentCluster = job.destCluster THEN {"same_folder"} ELSE {})
    /\ lost' = IF job.isfile THEN lost ELSE lost \cup Through(job.srcCluster)
    /\ UNCHANGED <<in_use, given>>

\* The entry past the table is copied and cleared: memory that belongs to other
\* variables.  What follows is not modelled.
move_wild(s) ==
    /\ shell[s].pc = "move_unlink" /\ shell[s].job.i \notin Indices
    /\ Do(s, [shell[s] EXCEPT !.pc = "wild"])
    /\ harm' = harm \cup {"missing"}
    /\ UNCHANGED <<media, lost, given>>

\* The destination, with the entry in slot 2, whatever was there.
Entered(job) ==
    [job.destDirectory EXCEPT ![2] = IF job.isfile THEN job.parentSrc[job.i] ELSE job.srcDirectory[0]]

move_enter(s) ==
    LET sh  == shell[s]
        job == sh.job
    IN
    /\ sh.pc = "move_enter"
    /\ write_clusters(job.destCluster, Entered(job))
    /\ Do(s, [sh EXCEPT !.pc = "move_update"])
    /\ harm' = harm \cup (IF disk[job.destCluster] # job.destDirectory \/ Rewritten(job)
                          THEN {"stale"} ELSE {})
                    \cup (IF job.destDirectory[2] # EmptyEntry THEN {"overwrite"} ELSE {})
                    \cup (IF Double(Entered(job), 2) THEN {"double"} ELSE {})
    /\ lost' = IF job.isfile THEN lost ELSE lost \cup Through(job.srcCluster)
    /\ UNCHANGED <<in_use, given>>

move_update(s) ==
    /\ shell[s].pc = "move_update"
    /\ Do(s, Prompt([shell[s] EXCEPT !.table = disk[shell[s].dir]]))
    /\ Quiet

-----------------------------------------------------------------------------
(* find                                                                     *)

find(s, goal) ==
    /\ Given(s)
    /\ Do(s, [shell[s] EXCEPT !.pc = "find", !.kind = "find", !.last = goal,
                              !.job = [queue |-> <<ROOT_CLUSTER_NUMBER>>, at |-> 1, hits |-> 0,
                                       cluster |-> 0, trail |-> <<>>]])

SubFolders(t) ==
    LET folders == {i \in 2..(DIRECTORY_ENTRIES - 1) : t[i].folder}
    IN  [n \in 1..Cardinality(folders) |->
            t[CHOOSE i \in folders : Cardinality({j \in folders : j <= i}) = n].cluster]

\* The folders found in t are put behind the slot in work, over what was there.
Enqueued(queue, at, t) ==
    LET new == SubFolders(t)
    IN  [n \in 1..(IF at + Len(new) > Len(queue) THEN at + Len(new) ELSE Len(queue)) |->
            IF n \in (at + 1)..(at + Len(new)) THEN new[n - at] ELSE queue[n]]

\* A slot of Queue: one never written holds whatever the stack held.  (A cluster that
\* is a file's is then read as an empty table, since contents are left out.)
Slot(job, c) ==
    IF job.at <= Len(job.queue) THEN c = job.queue[job.at]
    ELSE c \in Garbage /\ (job.at > MaxQueue => c = 0)

\* One folder is read, its entries compared, its folders put into the queue.
find_visit(s) ==
    LET sh == shell[s] IN
    /\ sh.pc = "find"
    /\ \E c \in Numbers :
        /\ Slot(sh.job, c)
        /\ LET t    == disk[c]
               hits == Cardinality({i \in 2..(DIRECTORY_ENTRIES - 1) : t[i].name = sh.last})
               q    == IF sh.job.at <= Len(sh.job.queue) THEN sh.job.queue
                       ELSE Append(sh.job.queue, c)
           IN  Do(s, CASE c = 0    -> Prompt(sh)
                       [] hits = 0 -> [sh EXCEPT !.job.queue = Enqueued(q, sh.job.at, t), !.job.at = @ + 1]
                       [] OTHER    -> [sh EXCEPT !.pc = "find_track",
                                                 !.job.queue = Enqueued(q, sh.job.at, t),
                                                 !.job.hits = hits, !.job.cluster = c])
    /\ lost' = Unsettled(s)
    /\ UNCHANGED <<media, harm, given>>

\* trackToParent: one folder on the way up.  A table that is no folder's leads to
\* cluster 0 and on, past the rows of listPath.
find_track(s) ==
    LET sh == shell[s]
        t  == disk[sh.job.cluster]
        up == [sh EXCEPT !.job.trail = <<t[0].name>> \o @, !.job.cluster = t[1].cluster]
    IN
    /\ sh.pc = "find_track"
    /\ Do(s, CASE ~IsFolder(t) \/ Len(sh.job.trail) = ListRows        -> [sh EXCEPT !.pc = "astray"]
               [] IsFolder(t) /\ t[0].cluster = ROOT_CLUSTER_NUMBER -> [up EXCEPT !.pc = "find_print"]
               [] OTHER                                             -> up)
    /\ lost' = Unsettled(s)
    /\ UNCHANGED <<media, harm, given>>

\* The path is printed; the same folder may have another hit.
find_print(s) ==
    LET sh == shell[s] IN
    /\ sh.pc = "find_print"
    /\ Do(s, IF sh.job.hits > 1
             THEN [sh EXCEPT !.pc = "find_track", !.job.trail = <<>>, !.job.hits = @ - 1,
                             !.job.cluster = sh.job.queue[sh.job.at]]
             ELSE [sh EXCEPT !.pc = "find", !.job.trail = <<>>, !.job.hits = 0,
                             !.job.cluster = 0, !.job.at = @ + 1])
    /\ Quiet

-----------------------------------------------------------------------------
MoveStep(s) ==
    \/ Step(s)
    \/ cp_read(s) \/ cp_to(s) \/ cp_write(s)
    \/ mv_choose(s)
    \/ rename(s) \/ rename_read(s) \/ rename_inner(s)
    \/ move_parent(s) \/ move_search(s) \/ move_source(s) \/ move_to(s) \/ move_dest(s)
    \/ move_link(s) \/ move_unlink(s) \/ move_wild(s) \/ move_enter(s) \/ move_update(s)
    \/ find_visit(s) \/ find_track(s) \/ find_print(s)

\* A shell that has lost its way computes on.
Stray(s) == shell[s].pc \in {"wild", "astray"} /\ UNCHANGED vars

MoveNext ==
    \E s \in Shells :
        \/ Start(s)
        \/ get_input(s) \/ ls(s)
        \/ harm = {} /\ \E kind \in {"cd", "mkdir", "rm"}, p \in Paths : Command(s, kind, p)
        \/ \E pq \in CopyArgs : cp(s, pq[1], pq[2])
        \/ \E pq \in MoveArgs : mv(s, pq[1], pq[2])
        \/ \E goal \in Goals : find(s, goal)
        \/ MoveStep(s)
        \/ Stray(s)

MoveSpec == Init /\ [][MoveNext]_vars

-----------------------------------------------------------------------------
(* Properties.  PathNamesDirectory and TreeSound of Shell are checked too.  *)

\* What find prints is the way to the folder it stands for: the walk up through the
\* second entries and the names in the first entries (trackToParent) gives the path
\* that leads, through the entries of the folders, down to the folder where the name
\* was found; and it comes to an end.  This is what mkdir, mv and rename have to keep
\* up in two places each.  Other shells may run, as long as none removes, moves or
\* renames a folder find has in its queue.
FindTellsTheWay ==
    \A s \in Shells \ lost :
        harm = {} => /\ shell[s].pc # "astray"
                     /\ shell[s].pc = "find_print" =>
                            /\ Head(shell[s].job.trail) = "root"
                            /\ Leads(Tail(shell[s].job.trail), shell[s].job.queue[shell[s].job.at])
=============================================================================
