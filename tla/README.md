# A TLA+ model of os-2024-semogakelar

This directory holds TLA+ modules that model the kernel and the shell of this
repository, TLC configurations that model-check them on small instances, and
proofs checked by TLAPS. Paths such as `fat32.c:295` are relative to `src/src/`
of the repository. `PROJECT.json` maps every definition to the lines it models.

## 1. The system

A 32-bit x86 teaching kernel with paging, a FAT32-like file system, a keyboard
driver, a text screen, round-robin multitasking and a shell that runs as an
ordinary user process.

| Component | State | Operations | Talks to |
|---|---|---|---|
| Paging (`paging.c`) | frame map, cached free count, page directories and their used flags | check, allocate and free a frame; create and free a directory | called by processes |
| Processes (`process.c`) | process table, running index, active count | create, exit, kill, list | paging, file system, scheduler |
| Scheduler (`scheduler.c`) | none of its own | save context, switch to the next ready process | timer interrupt, exit, kill, boot |
| Interrupts (`interrupt.c`, `intsetup.s`) | in-service bits of the PIC | timer, keyboard, page fault, 18 system calls | everything |
| FAT32 driver (`fat32.c`) | cached allocation table, directory buffer; on disk: signature, table, clusters | format, mount, read_directory, read, write, Delete | disk; system calls 0-3, 9, 10 |
| Keyboard and screen (`keyboard.c`, `framebuffer.c`) | one-character mailbox, on/off flag, echo count, cursor | interrupt handler, activate, poll, putchar, puts, clear | shells poll by system call |
| Shell (`user-shell.c`, `cd.c`, `mkdir.c`, `rm.c`, `cat.c`, `exec.c`, `cp.c`, `mv.c`, `find.c`, `ls.c`) | current directory, a copy of its table, the path in the prompt | the commands | system calls |
| Clock (`clock.c`, `cmos.c`) | the last reading | read the real-time clock, print it | the device; screen |

What is hard here:

- **Interleaving.** The IDT holds interrupt gates, so the kernel itself is never
  interrupted. User programs interleave at every timer interrupt: two shells
  share the disk, the keyboard mailbox and the screen, and every command is a
  sequence of system calls.
- **Whole-table writes.** `mv` asks the driver for nothing: it copies directory
  tables, edits the copies and writes them back with system call 10, in up to
  three separate calls.
- **A device that does not wait.** The clock's registers change while they are
  read.
- **Power loss.** A request writes up to several clusters; nothing is journalled.
- **Bounds.** Frames, directories, process slots, directory entries and clusters
  all run out, and several searches have no bound of their own.
- **Cached state.** Free-frame count, active count, allocation table, current
  directory table, path, echo count: each duplicates something else.

The hazards, line by line and with the properties that cover them, are listed in
`PROJECT.json`.

## 2. Modules

```
Paging  <-- Process            Process EXTENDS Paging; PagingSpec is also a PROPERTY of it
   ^           ^
   |           +---- ProcessProofs   (EXTENDS PagingProofs too)
   +------- PagingProofs
FAT32   <-- FAT32Store --> FileStore   (refinement, INSTANCE FileStore)
   ^           ^
   |           +---- MCFAT32   names and contents are symmetric
   +------- FAT32Proofs <-- VolumeProofs <-- StoreProofs   (EXTENDS FAT32Store too)
Shell   <-- MCShell            paths for TLC
   ^
   +------- Move <-- MCMove    cp, mv, find on top of the walks of Shell
   +------- ShellProofs
Clock   <-- MCClock            awkward moments for TLC
   ^
   +------- ClockProofs
Terminal <-- TerminalProofs
```

Definitions carry the names of the C functions where there is one. Definitions
named `Slip...` are deliberate errors, one per property: each is a plausible slip
in the definition that follows it, and with it in place TLC finds that property
violated. No specification uses them.

### Paging

`page_frame_map`, `free_page_frame_count`, `page_directory_used` and
`page_directory_list` are the C variables. A directory entry is the frame it maps
or `NotPresent`; the flag bits are a function of the page. The specification is
the manager under any client that keeps the rules of `process.c`: map absent
pages of directories in use, and return a directory only after its pages.
`paging_free_user_page_frame` and `paging_free_page_directory` are part of the
manager though nothing calls them yet.

### Process

`process_create_user_process` is a sequence of actions: `CreateStart` (the tests,
the slot, the directory), `AllocateStep` (one page each, result ignored as in the
code), then `LoadExecutable`, `ReadFailure` or `LoadFault`, then `CreateReturn`.
`cpu` says where control is, whose program runs, what CR3 holds and whether
interrupts are on. A program is identified with the directory it was loaded into:
directories are never recycled by this code. `TimerInterrupt` and `TimerHandler`
are separate so that the acknowledgement of the PIC matters. `Exec`, `Exit`,
`Kill` and `PageFault` are what a program may do at any moment.

### FAT32, FAT32Store, FileStore

Each cluster the driver writes is one step, so a power loss can fall between any
two. `cluster_map` has one cell more than the table because
`enough_empty_cluster` looks at it: in memory it is the first word of
`dir_table_buf`. `root_literal` is the string literal that
`init_directory_table` may overwrite through `memcpy(parent_name, ...)`; whether
it does is decided by the linker, so the model lets both happen.

A power loss between a file's entry and the table (`fat32.c:265`, `281`) leaves an
entry whose cluster has a free cell. The loops of `read` and `Delete` take the 0 there
for the next cluster and go on: `read` follows cell 0 (`ReadBootSector`), `Delete`
first writes zeros over the boot sector and frees cell 0 (`DeleteBootSector`). The
value of cell 0, taken as an index, wraps around in the address space to a word of the
calling program's memory; if that is 0 the loop goes round for ever
(`FollowForeignWord`). `Astray` is the driver in such a loop. Only what follows when
the word is not 0, or when a chain runs over the cell past the table, is left open
(`RunWild`, the label `"wild"`). A machine that hangs is switched off (`SwitchOff`).

`FileStore` is the abstract specification: a set of items that grows or shrinks
by one file or one empty folder. `FAT32Store` adds the history variable `items`,
the content of the disk when the driver was last idle, and shows that the driver
implements `FileStore`. An item has the data of its file: the chunks along the
chain, a recursive function of the first cluster (`Data`). `Content` reads the disk
with a given table: the cached one when the driver is idle, the one on the disk
when the power has failed, since that is what the next boot reads.

Two traps of the driver are left out of the passing runs by the constant
`Hazards`, because they destroy the file system: a request that names the folder
it is made in (`"own_name"`, shown by the run `fat32_own_name`) and a file that
needs the cell past the table (`"overrun"`, with which `NeverWild` fails).

### Shell

Per shell: the current directory, the copied table, the path, and the locals of
the command it executes. A step makes at most one system call. The driver's
requests are atomic here, as they are under the interrupt gate; their definitions
are those of FAT32 seen between two requests. `change_path` is a loop of its own:
the fields `ok` and `bad` say where its caller continues, `odir`, `opath` and
`then` what `cancel_change_path` restores and where that continues. Commands on
`.` are left out (`Nameable`).

A removed folder's table is zeros, so a shell left in it finds its parent in cluster
0. There it takes the signature (`BootSector`) for a table: the bytes of its second
entry name a cluster far past the disk's end, where the device gives zeros and ignores
writes (`OffDisk` stands for all such clusters), and from there `..` leads to 0 again.
Neither is a folder to the driver, so what such a shell asks for is refused.

Two history variables tell the cases apart in which a promise is not made. `lost`
holds the shells under which a folder was removed, moved or renamed. `harm` holds
the ways in which a command has damaged the tree; `Shell` has one, `rm` of a
folder by its own name from inside it (`"own_entry"`).

### Move

`cp` is two walks with a request each. `mv` first walks along its second argument
(`change_path_mv`); if a name was not found there it renames, else it moves. A
move copies up to three tables, each after a walk of its own (`move_parent`,
`move_source`, `move_dest`), and then writes: `move_link` gives a folder its new
parent, `move_unlink` clears the entry in the old parent, `move_enter` puts it
into the new one. A rename writes the parent's table and then the folder's own
(`rename`, `rename_inner`). Every write is a step and another shell may run
between any two.

`harm` records exactly the conditions, tested at the moment of the write, under
which the code goes wrong:

| `harm` | Condition | Code |
|---|---|---|
| `stale` | the table on disk is no longer the one that was copied, the copies of the source and of its parent do not fit each other, or the folder was moved or renamed between two writes of the move (`Rewritten`) | `mv.c:133,150,151,183,188` |
| `double` | the entry gets a name that another of its kind has in that folder; the driver's `write` refuses that, `mv` does not look | `mv.c:144,182` |
| `overwrite` | slot 2 of the destination is taken: the test at `mv.c:137` looks at `attribute`, which never has the value compared with | `mv.c:137` |
| `missing` | the source was not found: `isfile` is unassigned and the index is past the table | `mv.c:73,101,149` |
| `loop` | a folder is moved into or below itself | `mv.c:132` |
| `same_folder` | source and destination folder are the same, so one table is written in two versions | `mv.c:150` |
| `own_entry` | a folder is renamed, or removed, through entry 0 or 1 | `mv.c:168`, `fat32.c:295` |

Two of these conditions are easy to overlook. A folder moved away and back between
two writes of another shell's move leaves the tables of its parent and of the
destination as they were copied, but not its own second entry. And a rename acts
on the answer of its first walk, "no such name", after another shell may have
created one: the command then leaves two folders of one name, and the prompt of a
shell in the second names the first.

A behaviour accepts no new command after harm; properties speak of behaviours
without it. What follows an access past the table is not modelled (`move_wild`,
`Stray`).

`find` reads folder after folder from `Queue`. Two things are kept as the code
has them: the folders of each level overwrite those still waiting, so most
siblings are never visited, and a slot never written holds what the stack held
(`Garbage`). `trackToParent` is one step per table it reads. `write_clusters` is system
call 10; a write past the disk's end has no effect.

### Clock

The device (external) raises its flag, rewrites the registers that change one by
one in any order, and lowers the flag. `read_rtc` waits for the flag, reads six
registers one step each, and repeats until two readings agree; then it converts
(`Converted`) and prints (`Shown`). All four register formats are covered.
`beyond` is the byte behind the buffer of `itoa`, which is read for a 0 and may
or may not be zero. The properties compare the reading and the corner with the
device's own moments (`IsMoment`, `ShowsMoment`), not with the code's conversion. In
twelve-hour mode the code makes noon 0 and leaves midnight 12: `ShowsOneMoment`
leaves the hour out in these two cases (`Swapped`), and the run `clock_noon` shows the
swap. A zero is not claimed to be shown right when a foreign byte may follow it
(`ShowsNumber`). `ShowsOneMoment` is stated
for readings of less than a minute (`WithinAMinute`): minutes apart, two readings
could agree by accident. The calendar ends with `LastYear`, the last year the two
digits of the register can name to this kernel (`cmos.c:94`).

### Terminal

The keyboard interrupt, the mailbox `keyboard_input`, the echo (`l`, `col_now`,
`cells`) and each shell's line. `drift` records that a key was overwritten before
it was polled, or that a counter reached its limit. The screen is kept from the
cursor's row on. The kernel starts the first shell (`Boot`); a command returns (`Run`),
starts another shell (`exec`), ends one, perhaps its own (`kill`), or never returns
(`Spin`: `cd ..` in the root). A page fault that halts the machine is left to
`Process`.

## 3. Runs

| Run | Shows |
|---|---|
| `paging` | books, isolation, no leak (that recycled directories are clean, `DirectoryHygiene`, is proved instead) |
| `process` | process table, CPU and address spaces agree; no process starts with a hole in its code or stack; `process.c` keeps Paging's rules (`PagingSpec`); a process that terminates gives the CPU away if another one is left; a ready process eventually runs, is killed, or the machine stops |
| `fat32` | one owner per cluster, folders linked both ways, table on disk equal to the cached one, implementation of `FileStore`, truthful replies, reads return what was written |
| `fat32_power_loss` | chains ascend; at the moment of the power loss every item the request did not name is whole on the disk (nothing is said of what later requests do to what the loss left behind); every step of a later request brings its end closer, unless the chain it follows was cut off |
| `shell` | the prompt's path leads to the directory the shell works in; cached table fresh; tree sound; commands stay put and return, or spin at the root; a shell in a removed folder changes neither the boot sector nor anything past the disk's end |
| `shell_move` | with copies, moves, renames and searches by two shells: prompts true, tree sound, and `find` prints the way to what it found |
| `clock` | no torn time is shown; the corner catches up with the device (but for the hours after noon and midnight in twelve-hour mode) |
| `terminal` | echo equals line; no key twice; no Enter lost to a lone shell; the keyboard reopens unless a shell has stopped for ever, and also then every shell that comes back to its prompt reopens it |

Four runs expect a violation; each states what a comment, header or message of
the repository says and shows a behaviour of the code that contradicts it:

| Run | Text | Code |
|---|---|---|
| `process_memory_check` | `process.c:34`, `paging.h:122` | `process.c:36` passes pages for bytes; the kernel then faults and halts |
| `process_active_count` | `exec.c:49` | the active count is never decremented |
| `fat32_own_name` | `fat32.h:242` | `Delete` searches from entry 0 and can delete the folder it is asked in |
| `clock_noon` | `cmos.c:89` | the conversion to 24 hours swaps the hours after noon and after midnight |

Disagreements met on the way that the passing runs contain: `cd ..` in the root
never returns (`cd.c:21`, the disjunct `Spinning` of `CommandsReturnOrSpin`);
the last process that terminates keeps running, with pid 0 (`scheduler.c:26`, the
exception in `TerminateSwitches`); after a power loss between a file's directory entry
and the table, a `Delete` of that file follows the free cell to cluster 0, overwrites the
boot sector and may never return, and a read goes the same way (`fat32.c:328`, `:197`, the
exception in `RequestsProgress`);
`mv.c:129` prints "is full, mv failed" in a case that cannot occur, and the
destination's slot 2 is overwritten instead; `kill 12` is `kill 1`
(`user-shell.c:54`); `mv x/f d`, where there is no folder `x`, moves the file `f`
of the current folder, since `move` ignores what its walks return (`mv.c:82`); a process whose image is larger than 4 MB may start
without its upper pages (`process.c:56`).

### Bounds, and why they are enough

- `Paging.cfg`: three directories of two pages over five free frames, so
  frames run out, a directory is recycled, and two spaces compete.
- `Process.cfg`: four slots, three pages per process, eleven free frames, five
  directories. Frames run out during a creation (failed reads keep theirs),
  directories run out before frames, slots are reused. Requests take two pages,
  three, one too many, and one is at the kernel's address.
- `FAT32.cfg`: three free clusters, two entries per folder, files of one and two
  clusters, two contents, two names: chains, fragmentation, a full disk, a full
  folder and nested folders all occur. Names and contents are model values and
  symmetric, since the driver only compares the ones and copies the others.
- `FAT32PowerLoss.cfg`: two free clusters, one content, files of one and two
  clusters and one power loss, at any write of the format or of any request; requests
  go on afterwards without a bound, so every damaged disk is used, mended or looped on.
- `Shell.cfg`: two shells, five commands, paths that go up once and twice, down,
  through `.` and from the root and meet a file; clusters are reused, and a shell in
  a removed folder gets to the boot sector and off the disk.
- `Move.cfg`: two shells, three entries per folder (so that a rename can meet a
  name that has just been created), four commands among `cd`, `mkdir`, `rm`, `cp`, `mv` and
  `find` (`cat` and `exec` change nothing and are left to `shell`). Four suffice
  for two folders, a move of one into the other or a rename of one that holds a
  file, and a search after it, or for any two of these at once. Sources are a file, a
  folder and a path of two names, destinations relative and absolute.
- `Clock.cfg`: up to three updates from five moments: the ends of a minute, of
  the hours before noon and before one, of a year and of 28 February, where many
  registers change at once. Two updates can spoil one reading; the third lets two
  readings be spoiled. `ClockNoon.cfg` has the same moments and one update.
- `Terminal.cfg`: line limit 3, screen width 4, byte 8, five keystrokes; the
  echo's limit, a wrapped row and the wrap of the column are within reach.

`MaxShells`, `MaxPath`, `MaxCommands`, `MaxKeys`, `MaxTicks`, `MaxQueue` and
`MaxPowerLoss` are bounds of
the models; the other constants are the code's own, made small.

### Fairness

- `Process`: weak fairness of the kernel's own steps, since the CPU keeps
  executing; strong fairness of the timer interrupt, since the PIT keeps ticking
  and the PIC holds the request while interrupts are off, so a program that makes
  system calls all the time is interrupted when it returns. Programs owe nothing.
- `Shell`, `Terminal`: weak fairness of each shell's steps, which is what
  `ReadyRuns` of `Process` gives, and in `Terminal` of the kernel's start of the first
  shell. Nobody is obliged to type, and no command to return: `Spin` and `kill` are
  among the steps that satisfy the fairness condition.
- `Clock`: weak fairness of the kernel, and an update the device has begun ends.
  The device need not begin one. Its updates are finite in number (`MaxTicks`),
  which stands for an update lasting a small part of the second between two.
- `Move` is checked for safety only.
- `FAT32`: none is needed, `RequestsProgress` is a step property with an explicit
  measure.

`CHECK_DEADLOCK` is on everywhere. `Stuck` in `Process` is the machine that has
halted, a state the code really has.

## 4. Proofs

Eight modules of theorems, checked by TLAPS. Each proves one inductive invariant
and derives from it the properties of the runs, so that what a run shows on a
small instance holds for every value of the constants. Every inductive invariant
was first checked by TLC on the run's instance. The assumptions are the `ASSUME`s
of the component's module: sizes are positive, markers differ from one another,
users' names are not the empty one.

| Module | Inductive invariant | Properties proved |
|---|---|---|
| `PagingProofs` | `PagingInv` | `PagingTypeOK`, `FrameAccounting`, `FrameIsolation`, `NoFrameLeak`, `DirectoryHygiene` |
| `ProcessProofs` | `ProcessInv` | `TypeOK`, `OneRunning`, `OwnAddressSpace`, `DistinctPids`, `InactiveIndexExists`, `ImageMapped`, `TerminateSwitches`, the refinement `PagingSpec`, and with it `FrameIsolation` of the whole kernel |
| `FAT32Proofs` | `DriverInv` | `TypeOK`, `MapMirrored`, `ChainsAscend`, `RequestsProgress` |
| `VolumeProofs` | `VolumeInv` | `NeverWild`, `FoldersLinkedBothWays`, `ClustersOwnedOnce` |
| `StoreProofs` | `StoreInv` | `ImplementsFileStore`, `RepliesTellTheTruth`, `ReadsWhatWasWritten`, `PowerLossHarmsOnlyTheTarget` |
| `ShellProofs` | `ShellInv` | `TypeOK`, `PathNamesDirectory`, `CacheFresh`, `TreeSound`, `StaysPut` |
| `TerminalProofs` | `TerminalInv` | `TypeOK`, `EchoMatchesLine`, `NoKeyTwice`, `EnterSurvives` |
| `ClockProofs` | `ClockInv` | `ShowsOneMoment` |

**Paging.** `PagingInv` is the conjunction of the five properties; it is inductive
as it stands, and its parts need one another. An allocation takes the first
unmarked frame; that it stays inside the map needs the cached count to be exact
(`FrameAccounting`), and that the frame is not in use elsewhere needs every mapped
frame to be marked (`FrameIsolation`). That a new directory brings no old mappings
with it needs `DirectoryHygiene`.

**Process.** The properties speak of processes that exist; `ProcessInv` adds what
the kernel knows in the middle of a creation (`Creating`: the slot and directory
are this call's alone and the pages not yet asked for are absent), what the CPU
has loaded (`Running`, `Resumable`), and that the count of active processes is
never below the number of slots in use (`Counting`, which makes the unbounded
search for a slot end). `SearchFinds` shows that the round-robin search overlooks no
ready slot; hence `TerminateSwitches`, and hence at most one live process has pid 0
(`DistinctPids`). `Creating` is what makes each allocation a legal step of
`PagingSpec`; every other step leaves Paging's variables alone.

**FAT32, with power losses.** `DriverInv` holds with any number of power losses and
any `Hazards`. A chain is built from the first empty clusters upwards, so every
link points up (`Upward`), also in a table on disk that was written half; the
measure of `RequestsProgress` decreases because of it. The exception in
`RequestsProgress` is the code's: a loop on a cluster whose cell is free goes astray
(`ReadBootSector`, `DeleteBootSector`, `FollowForeignWord`), and the theorem says that it gets there in no other way. `Mirrored` says at which
steps of a request the table on the disk is the one in memory.

**FAT32, with the power on.** `VolumeInv` says what holds in the middle of a
request, up to what is still to be done: entries about to be removed (`Doomed`),
clusters that have an owner and no mark yet (`Owed`) or a mark and no owner
(`Loose`). Between requests all three are empty, and one owner per cluster is what
remains. A loop over a chain only meets marked cells (`Tame`, `VolumeTame`), which is
`NeverWild`. `VolumeCorrect` has it for every `MaxPowerLoss`, up to the first request
that is cut off. The theorems of the three properties assume `MaxPowerLoss = 0` and
`Hazards = {}`: after a power loss clusters do leak, and the two traps do break the
tree, as the runs show.

**FAT32, seen from outside.** `StoreInv` relates `items` to the disk in the middle
of a request. `Shelf` is the content of the disk without the entries the request is
about to add or remove; at every label it is `items`, less the item named (`Deleting`)
or with nothing added yet (`Filing`: the entry is there, and the chunks written so far
lie along the chain in work, `Chain`; `Fresh`: no item has that name and kind or that
cluster). A step that commits a request (`WriteFolderParent`, `WriteFileMap`,
`DeleteMap`) changes the shelf by the one item that the matching step of `FileStore`
adds or removes; every other step
leaves it alone and is a stutter. `Reading` says that what a read has delivered,
followed by the data from the next cluster on, is the data of the file.

The data of a file is defined by recursion along its chain, and the library's
induction theorems cannot be used here. The induction is done by hand: a set of
numbers that is not empty has a least element (`Least`, from `WFMin` of
`WellFoundedInduction`), and chains ascend (`ChainsAscend`), so a cluster with a
wrong datum would have a last one. `DataUnfolds` shows that the recursion has a
solution, `DataKept` that the data depends only on a set of clusters no chain leaves,
`DataAlong` that a chain written chunk by chunk reads back as the buffer. What a
request leaves alone follows from `DataKept` with the clusters that `VolumeInv` says
have an owner.

`FileStoreImplemented`, `RepliesAreTrue` and `ReadsAreWhole` assume `MaxPowerLoss = 0`
and `Hazards = {}`, as above. `PowerLossContained` allows any number of power losses
and speaks of the first: whichever of its writes a request had made, every item it
did not name is whole, read with the table that is on the disk at that moment.

**Shell.** `Tree` relates the folders on the disk to one another, `Oriented` a
shell's path to a way through them (`Follows`), `Fresh` a copied table to the disk.
The step that matters is `rm`: only an empty folder is removed, so a way that
loses an edge ended there, and the shell that held its end is in `lost`; every
other way survives. While one shell runs alone `harm` cannot arise without that
shell being lost (`OwnEntry`), which is why `CacheFresh` needs no such proviso.
`Grounded` holds whatever has been damaged: only clusters of files and folders hold
folders, and what has a name is in one, so no request, of a lost shell either, is
served in cluster 0 or past the disk's end. The theorems cover the walks, `cd`, `mkdir`, `rm`, `cat` and `exec` of any number
of shells; the bounds `MaxPath` and `MaxCommands` are any numbers.

**Terminal.** `EchoMatchesLine` speaks of the moments at which nothing waits in the
mailbox; `Echoed` says what the screen shows in between, the line as it will be
when the shell has received what waits. `Handed` says who may hold the keyboard
while one shell runs alone.

**Clock.** The history `instants` numbers the moments of a call. A reading begins
with the flag low, at some moment, and reads every register as it was then or
later, the reading before it as it was then or earlier. Within a minute the
seconds tell the moments apart, so two readings that agree took the seconds of
the same moment. That the conversions undo the device's formats is proved for
every value a register can hold.

Only model-checked:

- liveness (`ReadyRuns`, `CommandsReturnOrSpin`, `CatchesUp`, `KeyboardReopens`),
  which this prover cannot prove;
- the properties of `Move` (`FindTellsTheWay`, and `PathNamesDirectory` and
  `TreeSound` with `cp`, `mv` and `find`): any number of shells may be between two
  writes of a move, so `Tree` of `ShellProofs`, on which its proofs rest, holds only
  up to what each of them has still to write, and no invariant that says so has been
  worked out;
- the four violations of section 3.

## 5. Not modelled

- The size of a copy (`find_buffer_size`, `cp.c:117`): it depends on the contents
  of a file and of an uninitialised buffer, of which it looks at twice as many
  clusters as there are (`cp.c:120`); in `Shell` and `Move` a file holds one
  cluster and has no contents.
- What a loop of the driver does after `RunWild`.
- What `mv` does after an access past a table, and `find` after it has run past
  the rows of `listPath`.
- Splitting a command line into words, and `ps`, which only prints.
- ATA transfer (`disk.c`): two busy-waits and a transfer with no error path; what
  it does is the device's affair. (`ATA_DRQ_wait` tests the ready bit, not the
  data-request bit.) Port I/O, GDT, IDT, TSS, linker scripts: device protocol or
  constant data. A cluster write is taken as atomic.
- TLB contents, register values, colours, the text of messages.
- A screen past row 25 and an input line past 2048 characters: the code has no
  scrolling and no bound there.
- Empty names (a command on `.`), see the hazard at `rm.c:29`.

## 6. Plan

Modelled: the components of section 1, some of them in part (section 5, and `status`
in `PROJECT.json`: boot and interrupts, keyboard and screen, and the shell's input are
marked partly). Proved: the safety properties of every module but `Move`. What is left:

1. `TreeSound` and `PathNamesDirectory` for `cp`, `mv` and `find`, from `Tree` and
   `Oriented` of `ShellProofs`, up to the folders between two writes: those whose
   second entry is new and those that no entry names.
2. `FindTellsTheWay`, which needs in addition an invariant on the queue of `find`.
