------------------------------ MODULE Process -------------------------------
(***************************************************************************)
(* Processes: creation, termination and round-robin scheduling             *)
(* (process.c, scheduler.c, the timer, page-fault and system-call paths of *)
(* interrupt.c, kernel_setup and process_context_switch), on top of the    *)
(* page-frame manager Paging.                                              *)
(*                                                                         *)
(* One CPU.  The IDT holds interrupt gates, so the kernel runs with        *)
(* interrupts disabled: what interleaves is the user programs, at timer    *)
(* interrupts.  A user program is abstracted to the directory it was       *)
(* loaded into (no directory is ever recycled, so that names it); a saved  *)
(* context records which program resumes, in which address space, with     *)
(* interrupts enabled or not.                                              *)
(***************************************************************************)
EXTENDS Paging

CONSTANTS PROCESS_COUNT_MAX, \* process control blocks
          BufferSizes,       \* buffer_size of the requests, in bytes
          EntryPages         \* page number of a request's buf

\* Sizes are those for which buffer_size + PAGE_FRAME_SIZE does not wrap and the
\* process gets a page for its stack.
ASSUME ProcessAssumption ==
    /\ PROCESS_COUNT_MAX \in Nat \ {0}
    /\ BufferSizes \subseteq Nat \ {0}
    /\ EntryPages \subseteq Nat

Slots        == 0..(PROCESS_COUNT_MAX - 1)
NoProcess    == -1                     \* running_process_idx before the first
NULL         == -1                     \* a zeroed pointer
KernelSpace  == PAGING_DIRECTORY_TABLE_MAX_COUNT \* _paging_kernel_page_directory
Requests     == [buf : EntryPages, buffer_size : BufferSizes]

PROCESS_CREATE_SUCCESS                   == 0
PROCESS_CREATE_FAIL_MAX_PROCESS_EXCEEDED == 1
PROCESS_CREATE_FAIL_INVALID_ENTRYPOINT   == 2
PROCESS_CREATE_FAIL_NOT_ENOUGH_MEMORY    == 3
PROCESS_CREATE_FAIL_FS_READ_FAILURE      == 4

VARIABLES process_list,         \* process_manager_state.process_list
          running_process_idx,  \* process_manager_state.running_process_idx
          active_process_count, \* process_manager_state.active_process_count
          cpu,                  \* where control is, program, CR3, interrupt flag
          timer_in_service,     \* the PIC's in-service bit of IRQ 0
          creation,             \* locals of process_create_user_process
          retcode               \* its return code

processVars == <<process_list, running_process_idx, active_process_count, cpu,
                 timer_in_service, creation, retcode>>
vars == <<pagingVars, processVars>>

\* A saved context, and the context of an all-zero PCB.
Context(program, directory, enabled) ==
    [program |-> program, page_directory |-> directory, interrupts |-> enabled]

ZeroPCB == [pid |-> 0, state |-> "NEW", context |-> Context(NULL, NULL, FALSE),
            page_frame_used_count |-> 0]

NoCreation == [slot |-> 0, directory |-> NULL, needed |-> 0, page |-> 0]

Init ==
    /\ PagingInit
    /\ process_list = [i \in Slots |-> ZeroPCB]
    /\ running_process_idx = NoProcess
    /\ active_process_count = 0
    /\ cpu = [mode |-> "boot", program |-> NULL, cr3 |-> KernelSpace,
              interrupts |-> FALSE]
    /\ timer_in_service = FALSE
    /\ creation = NoCreation
    /\ retcode = PROCESS_CREATE_SUCCESS

States(S) == {i \in Slots : process_list[i].state \in S}
Active    == States({"READY", "RUNNING"})

-----------------------------------------------------------------------------
(* The scheduler.  Definitions named Slip... are mutants of the next        *)
(* definition; no specification uses them.                                  *)

\* iret back to the program that was interrupted or made the system call.
ReturnToUser == cpu' = [cpu EXCEPT !.mode = "user", !.interrupts = TRUE]

\* Without paging_use_page_directory.
SlipSwitched(ctx) ==
    [mode |-> "user", program |-> ctx.program, cr3 |-> cpu.cr3,
     interrupts |-> ctx.interrupts]

\* The CPU after paging_use_page_directory and process_context_switch.
Switched(ctx) ==
    [mode |-> "user", program |-> ctx.program, cr3 |-> ctx.page_directory,
     interrupts |-> ctx.interrupts]

\* A search that starts at slot 0.
SlipDistance(i) == i

\* How many steps the search from running_process_idx + 1 takes to reach i.
Distance(i) ==
    (i - running_process_idx - 1 + PROCESS_COUNT_MAX) % PROCESS_COUNT_MAX

\* A search that gives up one slot early.
SlipNextReady(list, i) ==
    /\ i # running_process_idx /\ list[i].state = "READY"
    /\ Distance(i) < PROCESS_COUNT_MAX - 2
    /\ \A j \in Slots \ {running_process_idx} :
          list[j].state = "READY" => Distance(i) <= Distance(j)

\* The search of scheduler_switch_to_next_process stops at slot i.
NextReady(list, i) ==
    /\ i # running_process_idx /\ list[i].state = "READY"
    /\ \A j \in Slots \ {running_process_idx} :
          list[j].state = "READY" => Distance(i) <= Distance(j)

\* Control leaves for the next ready process.  With none, the current one goes
\* on: its slot is marked RUNNING and the handler returns.  Before the first
\* process there is none to go on with: the call returns to the boot code, which
\* loops forever with interrupts off.
scheduler_switch_to_next_process(list) ==
    \/ \E i \in Slots :
          /\ NextReady(list, i)
          /\ process_list' = [list EXCEPT ![i].state = "RUNNING"]
          /\ running_process_idx' = i
          /\ cpu' = Switched(list[i].context)
    \/ /\ ~ \E i \in Slots : NextReady(list, i)
       /\ running_process_idx # NoProcess
       /\ process_list' = [list EXCEPT ![running_process_idx].state = "RUNNING"]
       /\ ReturnToUser
       /\ UNCHANGED running_process_idx
    \/ /\ ~ \E i \in Slots : NextReady(list, i)
       /\ running_process_idx = NoProcess
       /\ process_list' = list
       /\ cpu' = [cpu EXCEPT !.mode = "loop"]
       /\ UNCHANGED running_process_idx

\* scheduler_save_context_to_current_running_pcb: the list after it.
Saved(ctx) ==
    IF running_process_idx = NoProcess THEN process_list
    ELSE [process_list EXCEPT ![running_process_idx].context = ctx,
                              ![running_process_idx].state = "READY"]

-----------------------------------------------------------------------------
(* Interrupts.                                                              *)

\* IRQ 0 reaches a CPU that accepts interrupts.
TimerInterrupt ==
    /\ cpu.mode = "user" /\ cpu.interrupts /\ ~timer_in_service
    /\ timer_in_service' = TRUE
    /\ cpu' = [cpu EXCEPT !.mode = "timer", !.interrupts = FALSE]
    /\ UNCHANGED <<pagingVars, process_list, running_process_idx,
                   active_process_count, creation, retcode>>

\* End of interrupt: the PIC may deliver IRQ 0 again.
pic_ack == timer_in_service' = FALSE

\* Its handler: save the context, acknowledge, switch.  The acknowledgement comes
\* first because the switch does not return.
TimerHandler ==
    LET list == Saved(Context(cpu.program, cpu.cr3, TRUE)) IN
    /\ cpu.mode = "timer"
    /\ pic_ack
    /\ scheduler_switch_to_next_process(list)
    /\ UNCHANGED <<pagingVars, active_process_count, creation, retcode>>

\* A page fault of a user program: hlt with interrupts disabled.
PageFault ==
    /\ cpu.mode = "user"
    /\ cpu' = [cpu EXCEPT !.mode = "halted", !.interrupts = FALSE]
    /\ UNCHANGED <<pagingVars, process_list, running_process_idx,
                   active_process_count, timer_in_service, creation, retcode>>

-----------------------------------------------------------------------------
(* process_create_user_process.                                             *)

\* goto exit_cleanup
CreateExit(code) ==
    /\ retcode' = code
    /\ cpu' = [cpu EXCEPT !.mode = "created", !.interrupts = FALSE]

\* Frames for the executable and one for the stack.
page_frame_count_needed(request) ==
    ceil_div(request.buffer_size + PAGE_FRAME_SIZE, PAGE_FRAME_SIZE)

\* The memory test hands a number of pages to a function that takes bytes.
EnoughMemory(request) ==
    /\ paging_allocate_check(page_frame_count_needed(request))
    /\ page_frame_count_needed(request) <= PROCESS_PAGE_FRAME_COUNT_MAX

\* process_list_get_inactive_index, whose search has no bound of its own.
InactiveIndex(i) ==
    /\ process_list[i].state = "NEW"
    /\ \A j \in Slots : j < i => process_list[j].state # "NEW"

SlipTooMany == active_process_count > PROCESS_COUNT_MAX
TooMany     == active_process_count >= PROCESS_COUNT_MAX

\* Lines 22-50: the tests, the slot and the directory.
CreateStart(request) ==
    \/ /\ TooMany
       /\ CreateExit(PROCESS_CREATE_FAIL_MAX_PROCESS_EXCEEDED)
       /\ UNCHANGED <<pagingVars, creation>>
    \/ /\ ~TooMany
       /\ request.buf >= KernelPage
       /\ CreateExit(PROCESS_CREATE_FAIL_INVALID_ENTRYPOINT)
       /\ UNCHANGED <<pagingVars, creation>>
    \/ /\ ~TooMany
       /\ request.buf < KernelPage
       /\ ~EnoughMemory(request)
       /\ CreateExit(PROCESS_CREATE_FAIL_NOT_ENOUGH_MEMORY)
       /\ UNCHANGED <<pagingVars, creation>>
    \/ /\ ~TooMany
       /\ request.buf < KernelPage
       /\ EnoughMemory(request)
       /\ \E slot \in Slots, d \in Directories \union {KernelSpace} :
             /\ InactiveIndex(slot)
             /\ paging_create_new_page_directory(d)
             /\ \/ /\ d \notin Directories          \* NULL
                   /\ CreateExit(PROCESS_CREATE_FAIL_NOT_ENOUGH_MEMORY)
                   /\ UNCHANGED creation
                \/ /\ d \in Directories
                   /\ creation' = [slot |-> slot, directory |-> d, page |-> 0,
                                   needed |-> page_frame_count_needed(request)]
                   /\ cpu' = [cpu EXCEPT !.mode = "allocate", !.interrupts = FALSE]
                   /\ UNCHANGED retcode

\* kernel_setup creates the shell, with a buffer of 0x100000 bytes.
Boot ==
    /\ cpu.mode = "boot"
    /\ CreateStart([buf |-> 0, buffer_size |-> 1048576])
    /\ UNCHANGED <<process_list, running_process_idx, active_process_count,
                   timer_in_service>>

\* System call 12.
Exec ==
    /\ cpu.mode = "user"
    /\ \E request \in Requests : CreateStart(request)
    /\ UNCHANGED <<process_list, running_process_idx, active_process_count,
                   timer_in_service>>

\* One round of the loop of lines 54-58; the result of the allocation is ignored.
\* The last round falls through to line 59.
AllocateStep ==
    /\ cpu.mode = "allocate"
    /\ \/ /\ creation.page < creation.needed
          /\ paging_allocate_user_page_frame(creation.directory, creation.page)
          /\ creation' = [creation EXCEPT !.page = @ + 1]
          /\ UNCHANGED <<process_list, cpu>>
       \/ /\ creation.page >= creation.needed
          /\ process_list' = [process_list EXCEPT
                ![creation.slot].page_frame_used_count = creation.needed]
          /\ cpu' = [cpu EXCEPT !.mode = "load"]
          /\ UNCHANGED <<pagingVars, creation>>
    /\ UNCHANGED <<running_process_idx, active_process_count,
                   timer_in_service, retcode>>

\* Numbering processes by how many there are.
SlipNewPid(pid) == pid = Cardinality(Active) + 1

\* process_generate_new_pid: the smallest pid no PCB holds.
NewPid(pid) ==
    /\ \A i \in Slots : process_list[i].pid # pid
    /\ \A p \in 1..(pid - 1) : \E i \in Slots : process_list[i].pid = p

\* Copying the executable and zeroing the stack touch pages 0 and 1 of the new
\* address space (without the memset: page 0 only).
SlipExecutablePages == {0}
ExecutablePages == {0, 1} \intersect UserPages

\* Lines 61-110.  The file is missing or too large: return, keeping what was
\* taken.
ReadFailure ==
    /\ cpu.mode = "load"
    /\ CreateExit(PROCESS_CREATE_FAIL_FS_READ_FAILURE)
    /\ UNCHANGED <<pagingVars, process_list, running_process_idx,
                   active_process_count, timer_in_service, creation>>

\* The kernel itself faults on a page that was not mapped.
LoadFault ==
    /\ cpu.mode = "load"
    /\ \E p \in ExecutablePages :
          page_directory_list[creation.directory][p] = NotPresent
    /\ cpu' = [cpu EXCEPT !.mode = "halted", !.cr3 = creation.directory]
    /\ UNCHANGED <<pagingVars, process_list, running_process_idx,
                   active_process_count, timer_in_service, creation, retcode>>

\* The context process_create_user_process gives a new process.
NewContext(d) == Context(d, d, TRUE)

SlipNewCount == active_process_count
NewCount     == active_process_count + 1

LoadExecutable ==
    /\ cpu.mode = "load"
    /\ \A p \in ExecutablePages :
          page_directory_list[creation.directory][p] # NotPresent
    /\ \E pid \in 1..(PROCESS_COUNT_MAX + 1) :
          /\ NewPid(pid)
          /\ process_list' = [process_list EXCEPT
                ![creation.slot].pid = pid,
                ![creation.slot].state = "READY",
                ![creation.slot].context = NewContext(creation.directory)]
    /\ active_process_count' = NewCount
    /\ CreateExit(PROCESS_CREATE_SUCCESS)
    /\ UNCHANGED <<pagingVars, running_process_idx, timer_in_service, creation>>

\* Return: kernel_setup starts the scheduler whatever the result, a system call
\* goes back to its program.
CreateReturn ==
    /\ cpu.mode = "created"
    /\ \/ /\ running_process_idx = NoProcess
          /\ scheduler_switch_to_next_process(process_list)
       \/ /\ running_process_idx # NoProcess
          /\ ReturnToUser
          /\ UNCHANGED <<process_list, running_process_idx>>
    /\ creation' = NoCreation
    /\ UNCHANGED <<pagingVars, active_process_count, timer_in_service, retcode>>

-----------------------------------------------------------------------------
(* Termination.  Neither path gives frames, directory or count back.        *)

\* Only the pid is cleared.
SlipCleared(i) == [process_list EXCEPT ![i].pid = 0]
Cleared(i) == [process_list EXCEPT ![i] = ZeroPCB]

terminate_current_process ==
    scheduler_switch_to_next_process(Cleared(running_process_idx))

\* System call 11, made by crt0.s when main returns.
Exit ==
    /\ cpu.mode = "user"
    /\ terminate_current_process
    /\ UNCHANGED <<pagingVars, active_process_count, timer_in_service, creation,
                   retcode>>

\* System call 14: the running process ends at once, another one loses its PCB,
\* and an unknown pid changes nothing (returns -1).
kill_process(pid) ==
    \/ /\ process_list[running_process_idx].pid = pid
       /\ terminate_current_process
    \/ \E i \in Slots :
          /\ process_list[running_process_idx].pid # pid
          /\ process_list[i].pid = pid
          /\ \A j \in Slots : j < i => process_list[j].pid # pid
          /\ process_list' = Cleared(i)
          /\ ReturnToUser
          /\ UNCHANGED running_process_idx
    \/ /\ \A i \in Slots : process_list[i].pid # pid
       /\ ReturnToUser
       /\ UNCHANGED <<process_list, running_process_idx>>

\* What the shell's kill command takes: one digit or two, none of them zero.  (Digits
\* that begin no pid are left out.)
KillArguments ==
    LET digits == {d \in 1..9 : d <= PROCESS_COUNT_MAX}
    IN  {<<d>> : d \in digits} \cup (digits \X digits)

\* The test for a second digit asks for more than two characters, so it is dropped:
\* kill 12 is kill 1.
PidOf(argument) == argument[1]

Kill ==
    /\ cpu.mode = "user"
    /\ \E argument \in KillArguments : kill_process(PidOf(argument))
    /\ UNCHANGED <<pagingVars, active_process_count, timer_in_service, creation,
                   retcode>>

\* hlt with interrupts off, or the boot code's loop: nothing happens any more.
Stopped == cpu.mode \in {"halted", "loop"}
Stuck   == Stopped /\ UNCHANGED vars

-----------------------------------------------------------------------------
\* What the processor does by itself, as opposed to what programs choose to do.
KernelStep == \/ Boot \/ TimerHandler \/ AllocateStep \/ ReadFailure
              \/ LoadFault \/ LoadExecutable \/ CreateReturn

Next == KernelStep \/ TimerInterrupt \/ PageFault \/ Exec \/ Exit \/ Kill \/ Stuck

Spec == Init /\ [][Next]_vars

\* The CPU keeps executing the kernel.  The PIT keeps ticking and the PIC holds
\* the request while interrupts are off, so a program that keeps making system
\* calls is interrupted too: strong fairness.
Fairness == WF_vars(KernelStep) /\ SF_vars(TimerInterrupt)
FairSpec == Spec /\ Fairness

-----------------------------------------------------------------------------
\* The state has the shape of the C structures.
Contexts == [program : Directories \union {NULL},
             page_directory : Directories \union {NULL}, interrupts : BOOLEAN]
PCBs == [pid : 0..(PROCESS_COUNT_MAX + 1), state : {"NEW", "READY", "RUNNING"},
         context : Contexts, page_frame_used_count : Nat]
Modes == {"boot", "user", "timer", "allocate", "load", "created", "halted", "loop"}

TypeOK ==
    /\ PagingTypeOK
    /\ process_list \in [Slots -> PCBs]
    /\ running_process_idx \in Slots \union {NoProcess}
    /\ active_process_count \in 0..PROCESS_COUNT_MAX
    /\ cpu \in [mode : Modes, program : Directories \union {NULL},
                cr3 : Directories \union {KernelSpace}, interrupts : BOOLEAN]
    /\ timer_in_service \in BOOLEAN
    /\ creation \in [slot : Slots, directory : Directories \union {NULL},
                     needed : Nat, page : Nat]
    /\ retcode \in 0..4

\* At most one PCB is RUNNING and it is running_process_idx's: the timer, exit,
\* kill and creation all keep the table and the index together.
OneRunning ==
    /\ States({"RUNNING"}) \subseteq {running_process_idx}
    /\ cpu.mode = "user" => States({"RUNNING"}) = {running_process_idx}

\* A program only ever runs in the address space it was loaded into, and the
\* contexts waiting to be resumed say the same, with interrupts on: a switch
\* cannot lose the CPU to a program nothing can preempt.  Two processes never
\* share a page directory (PCBs not saved to since they were cleared have none).
OwnAddressSpace ==
    /\ cpu.mode = "user" => cpu.program = cpu.cr3 /\ cpu.interrupts
    /\ \A i \in States({"READY"}) :
          LET ctx == process_list[i].context IN
          /\ ctx.program = ctx.page_directory /\ ctx.interrupts
          /\ ctx.page_directory \in Directories
    /\ \A i, j \in Active :
          LET d == process_list[i].context.page_directory IN
          i # j /\ d # NULL => d # process_list[j].context.page_directory

\* kill names its victim: live processes have different pids, whatever slots and pids
\* were given up and taken again.  A program that goes on after it terminated has pid
\* 0 (TerminateSwitches), so there is at most one of these at a time.
DistinctPids ==
    \A i, j \in Active : i # j => process_list[i].pid # process_list[j].pid

\* process_list_get_inactive_index has no bound: the test of
\* active_process_count must guarantee it a free PCB.
InactiveIndexExists ==
    active_process_count < PROCESS_COUNT_MAX => States({"NEW"}) # {}

\* A process that was created has the two pages that creation fills, whatever memory
\* ran out meanwhile: it never starts with a hole in its code or its stack.  Pages
\* from the third on, of an image of more than 4 MB, are touched by nothing and may
\* be missing although page_frame_used_count counts them.
ImageMapped ==
    \A i \in Active :
        LET d == process_list[i].context.page_directory IN
        d # NULL =>
            /\ page_directory_used[d]
            /\ \A p \in 0..1 : page_directory_list[d][p] # NotPresent

\* process.h:137 "Terminate current process & switch to other ready processes (if
\* exists)": exit, and a kill of oneself, give the CPU away if anyone is left to take
\* it.  Only the last process of all goes on, with its PCB cleared and pid 0.
TerminateSwitches ==
    [][\A i \in Slots :
          /\ process_list[i].pid # 0
          /\ process_list'[i].pid = 0 /\ process_list'[i].state # "NEW"
          => \A j \in Slots \ {i} : process_list'[j].state = "NEW"]_vars

\* Round robin starves nobody: a ready process gets the CPU, is killed, or the
\* machine stops.
ReadyRuns ==
    \A i \in Slots :
        process_list[i].state = "READY" ~>
            (process_list[i].state # "READY" \/ Stopped)

-----------------------------------------------------------------------------
(* What comments and messages of the code say, and the code does not do.    *)

\* process.c:34 "Check whether memory is enough for the executable and
\* additional frame for user stack": a creation that passed the test finds all
\* its pages mapped when it starts to load the program.
AcceptedCreationFits ==
    cpu.mode = "load" =>
        \A p \in 0..(creation.needed - 1) :
            page_directory_list[creation.directory][p] # NotPresent

=============================================================================
