--------------------------- MODULE ProcessProofs ----------------------------
(***************************************************************************)
(* Processes and the scheduler are safe for every number of process slots, *)
(* frames and directories, and use the page-frame manager by its rules.    *)
(*                                                                         *)
(* ProcessInv is inductive.  Beyond the properties of Process it says what *)
(* the kernel knows between two steps of one system call (Creating), what  *)
(* the CPU is doing to the slot it runs (Running) and why the count of     *)
(* active processes bounds the slots in use (Counting).                    *)
(***************************************************************************)
EXTENDS Process, PagingProofs, NaturalsInduction, WellFoundedInduction

\* The pages that creation fills are there, in a directory that is taken.
Mapped(d) ==
    /\ d \in Directories
    /\ page_directory_used[d]
    /\ \A p \in 0..1 : page_directory_list[d][p] # NotPresent

\* The slot in running_process_idx is the one that is RUNNING, from the first
\* switch on.
OneSlot ==
    /\ running_process_idx = NoProcess =>
          \A i \in Slots : process_list[i].state # "RUNNING"
    /\ running_process_idx # NoProcess =>
          \A i \in Slots : process_list[i].state = "RUNNING" <=> i = running_process_idx
    /\ cpu.mode \in {"user", "timer"} => running_process_idx # NoProcess

\* What is loaded in the CPU between two switches: a program in its own, complete
\* address space, which no other PCB names (the running PCB may: it holds what was
\* last saved, or nothing).
Running ==
    /\ running_process_idx # NoProcess /\ cpu.mode # "halted" =>
          /\ cpu.program = cpu.cr3
          /\ Mapped(cpu.cr3)
          /\ \A i \in Active : i # running_process_idx =>
                process_list[i].context.page_directory # cpu.cr3
    /\ cpu.mode = "user" => cpu.interrupts

\* Contexts that wait for the CPU can be switched to.
Resumable ==
    \A i \in Slots : process_list[i].state = "READY" =>
        /\ process_list[i].context.program = process_list[i].context.page_directory
        /\ process_list[i].context.page_directory \in Directories
        /\ process_list[i].context.interrupts = TRUE

\* No two processes name one directory, and the ones they name are complete.
Separate ==
    /\ \A i, j \in Active :
          i # j /\ process_list[i].context.page_directory # NULL =>
              process_list[i].context.page_directory # process_list[j].context.page_directory
    /\ \A i \in Active :
          process_list[i].context.page_directory # NULL =>
              Mapped(process_list[i].context.page_directory)

\* Slots in use are counted; the count is never lowered, so it may exceed them.
Counting == Cardinality(Active) <= active_process_count

\* Half-way through process_create_user_process: the count has been tested, the slot
\* and the directory are this call's alone, and the pages not yet asked for are absent.
Creating ==
    cpu.mode \in {"allocate", "load"} =>
        /\ active_process_count < PROCESS_COUNT_MAX
        /\ process_list[creation.slot].state = "NEW"
        /\ creation.directory \in Directories
        /\ page_directory_used[creation.directory]
        /\ running_process_idx # NoProcess => creation.directory # cpu.cr3
        /\ \A i \in Active :
              process_list[i].context.page_directory # creation.directory
        /\ creation.needed \in 2..PROCESS_PAGE_FRAME_COUNT_MAX
        /\ creation.page <= creation.needed
        /\ \A p \in UserPages : p >= creation.page =>
              page_directory_list[creation.directory][p] = NotPresent

ProcessInv ==
    /\ TypeOK
    /\ PagingInv
    /\ OneSlot
    /\ Running
    /\ Resumable
    /\ Separate
    /\ DistinctPids
    /\ Counting
    /\ Creating

-----------------------------------------------------------------------------
(* What the operators compute.                                              *)

\* A request needs a page for the executable and one for the stack, however small
\* the executable is.
LEMMA TwoPagesNeeded ==
    ASSUME NEW size \in Nat \ {0}
    PROVE  ceil_div(size + PAGE_FRAME_SIZE, PAGE_FRAME_SIZE) \in Nat \ {0, 1}
<1> DEFINE a == size + PAGE_FRAME_SIZE
           q == a \div PAGE_FRAME_SIZE
           m == a % PAGE_FRAME_SIZE
<1>1. PAGE_FRAME_SIZE \in Nat \ {0} /\ a \in Nat /\ a > PAGE_FRAME_SIZE
  BY PagingAssumption
<1> HIDE DEF a
<1>2. q \in Int /\ m \in 0..(PAGE_FRAME_SIZE - 1) /\ a = PAGE_FRAME_SIZE * q + m
  BY <1>1, Z3
<1> HIDE DEF q, m
<1>3. q >= 1
  BY <1>1, <1>2, Z3
<1>4. q = 1 => m > 0
  BY <1>1, <1>2, Z3
<1>5. ceil_div(a, PAGE_FRAME_SIZE) = q + (IF m > 0 THEN 1 ELSE 0)
  BY DEF ceil_div, q, m
<1>6. ceil_div(a, PAGE_FRAME_SIZE) \in Nat \ {0, 1}
  BY <1>2, <1>3, <1>4, <1>5
<1> QED
  BY <1>6 DEF a

\* The slots in use are a finite set, so they can be counted.
LEMMA ActiveFinite ==
    /\ IsFiniteSet(Slots)
    /\ Cardinality(Slots) = PROCESS_COUNT_MAX
    /\ IsFiniteSet(Active)
    /\ Cardinality(Active) \in Nat
<1>1. IsFiniteSet(Slots) /\ Cardinality(Slots) = PROCESS_COUNT_MAX
  BY FS_Interval, ProcessAssumption DEF Slots
<1>2. Active \subseteq Slots
  BY DEF Active, States
<1> QED
  BY <1>1, <1>2, FS_Subset, FS_CardinalityType

\* NULL and KernelSpace are no directories, NoProcess is no slot.
LEMMA NoneOfThem ==
    /\ NULL \notin Directories /\ KernelSpace \notin Directories
    /\ NoProcess \notin Slots
  BY PagingAssumption, ProcessAssumption
     DEF NULL, Directories, KernelSpace, NoProcess, Slots

\* A cleared PCB is NEW, has pid 0 and no directory.
LEMMA ZeroIsNew ==
    /\ ZeroPCB \in PCBs
    /\ ZeroPCB.state = "NEW" /\ ZeroPCB.pid = 0
    /\ ZeroPCB.context.page_directory = NULL
  BY ProcessAssumption DEF ZeroPCB, PCBs, Contexts, Context

\* The PCBs that are in use, by state.
LEMMA ActiveStates ==
    ASSUME TypeOK
    PROVE  \A i \in Slots : i \in Active <=> process_list[i].state # "NEW"
  BY DEF TypeOK, Active, States, PCBs

-----------------------------------------------------------------------------
(* scheduler_switch_to_next_process.                                        *)

\* A set of numbers that is not empty has a least one.
LEMMA LeastNumber ==
    ASSUME NEW S, S \subseteq Nat, S # {}
    PROVE  \E x \in S : \A y \in S : x <= y
<1> DEFINE R == OpToRel(<, Nat)
<1>1. IsWellFoundedOn(R, Nat)
  BY NatLessThanWellFounded
<1>2. \A x, y \in Nat : <<y, x>> \in R <=> y < x
  BY DEF OpToRel
<1> HIDE DEF R
<1>3. PICK x \in S : \A y \in S : ~(<<y, x>> \in R)
  BY <1>1, WFMin
<1>4. ASSUME NEW y \in S PROVE ~(y < x)
  BY <1>2, <1>3
<1>5. \A m, n \in Nat : ~(n < m) => m <= n
  OBVIOUS
<1> QED
  BY <1>4, <1>5

\* The round-robin search overlooks nobody: it stops somewhere if any slot but the
\* running one is READY, wherever in the table that slot is.
LEMMA SearchFinds ==
    ASSUME running_process_idx \in Slots \union {NoProcess}, NEW list,
           NEW k \in Slots \ {running_process_idx}, list[k].state = "READY"
    PROVE  \E i \in Slots : NextReady(list, i)
<1> DEFINE Ready == {j \in Slots \ {running_process_idx} : list[j].state = "READY"}
           S == {Distance(j) : j \in Ready}
<1>1. ASSUME NEW j \in Slots PROVE Distance(j) \in Nat
  <2>1. ASSUME NEW a \in Int, NEW m \in Nat \ {0} PROVE a % m \in Nat
    BY <2>1, Z3
  <2>2. j - running_process_idx - 1 + PROCESS_COUNT_MAX \in Int
    BY ProcessAssumption DEF Slots, NoProcess
  <2> QED
    BY <2>1, <2>2, ProcessAssumption DEF Distance
<1>2. S \subseteq Nat /\ S # {}
  BY <1>1
<1> HIDE DEF S
<1>3. PICK x \in S : \A y \in S : x <= y
  BY <1>2, LeastNumber
<1>4. PICK i \in Ready : Distance(i) = x
  BY DEF S
<1>5. \A j \in Ready : Distance(i) <= Distance(j)
  BY <1>3, <1>4 DEF S
<1> QED
  BY <1>4, <1>5 DEF NextReady

\* The process table as the callers hand it over: as it was, but the running slot
\* has been saved (the timer) or cleared (exit, kill).  Before the first switch
\* there is none.
HandedOver(list) ==
    /\ list \in [Slots -> PCBs]
    /\ \A j \in Slots : j # running_process_idx => list[j] = process_list[j]
    /\ running_process_idx # NoProcess =>
          \/ list[running_process_idx] = ZeroPCB
          \/ /\ list[running_process_idx].state = "READY"
             /\ list[running_process_idx].context = Context(cpu.program, cpu.cr3, TRUE)
             /\ list[running_process_idx].pid = process_list[running_process_idx].pid

\* The switch keeps the table, the index and the CPU in step, whichever of its three
\* ways it ends.
LEMMA SwitchInv ==
    ASSUME ProcessInv, NEW list, HandedOver(list),
           cpu.mode \in {"user", "timer", "created"},
           scheduler_switch_to_next_process(list),
           timer_in_service' \in BOOLEAN,
           creation' = creation \/ creation' = NoCreation,
           UNCHANGED <<pagingVars, active_process_count, retcode>>
    PROVE  ProcessInv'
<1> USE DEF ProcessInv
<1> DEFINE r == running_process_idx
<1>1. /\ list \in [Slots -> PCBs]
      /\ r \in Slots \union {NoProcess}
      /\ NoProcess \notin Slots
  BY NoneOfThem DEF TypeOK, HandedOver
<1>2. \A i \in Slots : list[i].state # "RUNNING"
  BY <1>1, ZeroIsNew DEF HandedOver, OneSlot
<1>3. \A i \in Slots : list[i].state = "READY" =>
         /\ i \in Active
         /\ list[i].pid = process_list[i].pid
         /\ list[i].context.program = list[i].context.page_directory
         /\ Mapped(list[i].context.page_directory)
         /\ list[i].context.interrupts = TRUE
  <2> SUFFICES ASSUME NEW i \in Slots, list[i].state = "READY"
               PROVE  /\ i \in Active
                      /\ list[i].pid = process_list[i].pid
                      /\ list[i].context.program = list[i].context.page_directory
                      /\ Mapped(list[i].context.page_directory)
                      /\ list[i].context.interrupts = TRUE
    OBVIOUS
  <2>1. CASE i = r
    <3>1. /\ list[i].context = Context(cpu.program, cpu.cr3, TRUE)
          /\ list[i].pid = process_list[i].pid
          /\ r # NoProcess
      BY <2>1, <1>1, ZeroIsNew DEF HandedOver
    <3>2. cpu.program = cpu.cr3 /\ Mapped(cpu.cr3) /\ i \in Active
      BY <3>1, <2>1, ActiveStates DEF Running, OneSlot
    <3> QED
      BY <3>1, <3>2 DEF Context
  <2>2. CASE i # r
    <3>1. list[i] = process_list[i]
      BY <2>2 DEF HandedOver
    <3>2. i \in Active
      BY <3>1, ActiveStates
    <3> QED
      BY <3>1, <3>2, NoneOfThem DEF Resumable, Separate
  <2> QED
    BY <2>1, <2>2
<1>4. \A i, j \in Slots : list[i].state = "READY" /\ list[j].state = "READY" /\ i # j =>
         list[i].context.page_directory # list[j].context.page_directory
  <2> SUFFICES ASSUME NEW i \in Slots, NEW j \in Slots, list[i].state = "READY",
                      list[j].state = "READY", i # j
               PROVE  list[i].context.page_directory # list[j].context.page_directory
    OBVIOUS
  <2>1. i \in Active /\ j \in Active
    BY <1>3
  <2>2. \A k \in {i, j} : k # r => list[k] = process_list[k]
    BY DEF HandedOver
  <2>3. \A k \in {i, j} : k = r =>
           /\ list[k].context.page_directory = cpu.cr3
           /\ \A m \in Active : m # k => process_list[m].context.page_directory # cpu.cr3
    BY <1>1, ZeroIsNew DEF HandedOver, Context, Running
  <2>4. CASE i # r /\ j # r
    <3>1. process_list[i].context.page_directory # NULL
      BY <1>3, <2>2, <2>4, NoneOfThem DEF Mapped
    <3> QED
      BY <2>1, <2>2, <2>4, <3>1 DEF Separate
  <2>5. CASE i = r \/ j = r
    BY <2>1, <2>2, <2>3, <2>5
  <2> QED
    BY <2>4, <2>5
<1>5. \A d : Mapped(d)' <=> Mapped(d)
  BY DEF Mapped, pagingVars
<1>6. PagingInv'
  BY PagingNextInv DEF pagingVars
<1>7. creation' \in [slot : Slots, directory : Directories \union {NULL},
                     needed : Nat, page : Nat]
  BY ProcessAssumption DEF TypeOK, NoCreation, Slots
<1> DEFINE CPUs == [mode : Modes, program : Directories \union {NULL},
                    cr3 : Directories \union {KernelSpace}, interrupts : BOOLEAN]
           After == /\ process_list' \in [Slots -> PCBs]
                    /\ \A j \in Slots : /\ process_list'[j].pid = list[j].pid
                                        /\ process_list'[j].context = list[j].context
                                        /\ process_list'[j].state =
                                              IF j = r' THEN "RUNNING" ELSE list[j].state
                    /\ r' \in Slots \union {NoProcess}
                    /\ cpu' \in CPUs /\ cpu'.mode \in {"user", "loop"}
                    /\ cpu'.mode = "user" => r' # NoProcess /\ cpu'.interrupts = TRUE
                    /\ r' # NoProcess =>
                          /\ \/ list[r'].state = "READY"
                             \/ /\ r' = r /\ list[r'] = ZeroPCB
                                /\ \A j \in Slots \ {r} : list[j].state # "READY"
                          /\ cpu'.program = cpu'.cr3
                          /\ Mapped(cpu'.cr3)
                          /\ \A j \in Slots : list[j].state = "READY" /\ j # r' =>
                                list[j].context.page_directory # cpu'.cr3
<1>8. ASSUME NEW i \in Slots, NextReady(list, i),
             process_list' = [list EXCEPT ![i].state = "RUNNING"],
             r' = i, cpu' = Switched(list[i].context)
      PROVE  After
  <2>1. list[i].state = "READY"
    BY <1>8 DEF NextReady
  <2>2. cpu' \in CPUs /\ cpu'.mode = "user" /\ cpu'.interrupts = TRUE
        /\ cpu'.cr3 = list[i].context.page_directory /\ cpu'.program = cpu'.cr3
    BY <1>1, <1>3, <1>8, <2>1 DEF Switched, Mapped, Modes, PCBs, Contexts
  <2>3. process_list' \in [Slots -> PCBs]
    BY <1>1, <1>8 DEF PCBs
  <2>4. \A j \in Slots : /\ process_list'[j].pid = list[j].pid
                         /\ process_list'[j].context = list[j].context
                         /\ process_list'[j].state = IF j = i THEN "RUNNING" ELSE list[j].state
    BY <1>1, <1>8 DEF PCBs
  <2>5. /\ Mapped(cpu'.cr3)
        /\ \A j \in Slots : list[j].state = "READY" /\ j # i =>
              list[j].context.page_directory # cpu'.cr3
    BY <1>3, <1>4, <2>1, <2>2
  <2>6. r' = i
    BY <1>8
  <2> HIDE DEF CPUs
  <2> QED
    BY <1>1, <2>1, <2>2, <2>3, <2>4, <2>5, <2>6
<1>9. ASSUME r # NoProcess, ~ \E i \in Slots : NextReady(list, i), process_list' = [list EXCEPT ![r].state = "RUNNING"],
             ReturnToUser, r' = r
      PROVE  After
  <2>1. cpu' \in CPUs /\ cpu'.mode = "user" /\ cpu'.interrupts = TRUE
        /\ cpu'.cr3 = cpu.cr3 /\ cpu'.program = cpu.program
    BY <1>9 DEF ReturnToUser, TypeOK, Modes
  <2>2. process_list' \in [Slots -> PCBs]
    BY <1>1, <1>9 DEF PCBs
  <2>3. \A j \in Slots : /\ process_list'[j].pid = list[j].pid
                         /\ process_list'[j].context = list[j].context
                         /\ process_list'[j].state = IF j = r THEN "RUNNING" ELSE list[j].state
    BY <1>1, <1>9 DEF PCBs
  <2>4. cpu.program = cpu.cr3 /\ Mapped(cpu.cr3)
    BY <1>9 DEF Running
  <2>5. \A j \in Slots : list[j].state = "READY" /\ j # r =>
           list[j].context.page_directory # cpu.cr3
    BY <1>3, <1>9 DEF Running, HandedOver
  <2>6. /\ list[r].state = "READY" \/ list[r] = ZeroPCB
        /\ \A j \in Slots \ {r} : list[j].state # "READY"
    BY <1>1, <1>9, SearchFinds DEF HandedOver
  <2> QED
    BY <1>1, <1>9, <2>1, <2>2, <2>3, <2>4, <2>5, <2>6
<1>10. ASSUME r = NoProcess, process_list' = list,
              cpu' = [cpu EXCEPT !.mode = "loop"], r' = r
       PROVE  After
  <2>1. cpu' \in CPUs /\ cpu'.mode = "loop"
    BY <1>10 DEF TypeOK, Modes
  <2> QED
    BY <1>1, <1>10, <2>1
<1>11. After
  BY <1>8, <1>9, <1>10 DEF scheduler_switch_to_next_process
<1>12. TypeOK'
  <2>1. PagingTypeOK'
    BY <1>6 DEF PagingInv
  <2>2. active_process_count' \in 0..PROCESS_COUNT_MAX /\ retcode' \in 0..4
    BY DEF TypeOK
  <2> QED
    BY <1>7, <1>11, <2>1, <2>2 DEF TypeOK
<1>13. \A j \in Slots : j \in Active' <=> j = r' \/ list[j].state = "READY"
  <2>1. \A j \in Slots : j \in Active' <=> process_list'[j].state \in {"READY", "RUNNING"}
    BY DEF Active, States
  <2> QED
    BY <1>2, <1>11, <2>1
<1>14. Active' \subseteq Active
  <2>1. r' # NoProcess => r' \in Active
    BY <1>1, <1>3, <1>11, ActiveStates DEF OneSlot
  <2>2. Active' \subseteq Slots
    BY DEF Active, States
  <2> QED
    BY <1>3, <1>11, <1>13, <2>1, <2>2, NoneOfThem
<1>15. OneSlot'
  BY <1>2, <1>11, NoneOfThem DEF OneSlot
<1>16. Running'
  <2>1. ASSUME r' # NoProcess, NEW j \in Active', j # r'
        PROVE  process_list'[j].context.page_directory # cpu'.cr3
    <3>1. j \in Slots
      BY DEF Active, States
    <3> QED
      BY <3>1, <2>1, <1>11, <1>13
  <2> QED
    BY <1>5, <1>11, <2>1 DEF Running
<1>17. Resumable'
  BY <1>3, <1>11 DEF Resumable, Mapped
<1>18. Separate' /\ DistinctPids'
  <2> SUFFICES ASSUME NEW i \in Active'
               PROVE  /\ process_list'[i].context.page_directory # NULL =>
                            Mapped(process_list'[i].context.page_directory)
                      /\ \A j \in Active' : i # j =>
                            /\ process_list'[i].context.page_directory # NULL =>
                                  process_list'[i].context.page_directory
                                    # process_list'[j].context.page_directory
                            /\ process_list'[i].pid # process_list'[j].pid
    BY <1>5 DEF Separate, DistinctPids
  <2>1. \A k \in Active' :
           /\ k \in Slots /\ k \in Active
           /\ process_list'[k].context = list[k].context /\ process_list'[k].pid = list[k].pid
           /\ \/ list[k].state = "READY"
              \/ /\ k = r' /\ list[k].context.page_directory = NULL
                 /\ \A j \in Slots \ {k} : list[j].state # "READY"
    BY <1>11, <1>13, <1>14, ZeroIsNew, NoneOfThem DEF Active, States
  <2>2. \A k \in Active' : process_list'[k].context.page_directory # NULL =>
           Mapped(process_list'[k].context.page_directory)
    BY <2>1, <1>3
  <2>3. ASSUME NEW j \in Active', i # j, process_list'[i].context.page_directory # NULL
        PROVE  process_list'[i].context.page_directory # process_list'[j].context.page_directory
    BY <2>1, <2>3, <1>4
  <2>4. ASSUME NEW j \in Active', i # j
        PROVE  process_list'[i].pid # process_list'[j].pid
    BY <2>1, <2>4, <1>3 DEF DistinctPids
  <2> QED
    BY <2>2, <2>3, <2>4
<1>19. Counting'
  <2>1. IsFiniteSet(Active') /\ Cardinality(Active') <= Cardinality(Active)
    BY <1>14, ActiveFinite, FS_Subset
  <2>2. Cardinality(Active') \in Nat
    BY <2>1, FS_CardinalityType
  <2> QED
    BY <2>1, <2>2, ActiveFinite DEF Counting, TypeOK
<1>20. Creating'
  BY <1>11 DEF Creating
<1> QED
  BY <1>6, <1>12, <1>15, <1>16, <1>17, <1>18, <1>19, <1>20

-----------------------------------------------------------------------------
(* Steps that leave the process table and the page directories alone.       *)

\* Entering the kernel, and leaving it for the same program, keeps everything.
LEMMA SameProgramInv ==
    ASSUME ProcessInv, TypeOK',
           UNCHANGED <<pagingVars, process_list, running_process_idx, active_process_count>>,
           cpu'.program = cpu.program, cpu'.cr3 = cpu.cr3,
           cpu.mode = "halted" => cpu'.mode = "halted",
           cpu'.mode \in {"user", "timer"} => running_process_idx # NoProcess,
           cpu'.mode = "user" => cpu'.interrupts = TRUE,
           cpu'.mode \notin {"allocate", "load"}
    PROVE  ProcessInv'
<1> USE DEF ProcessInv
<1>1. PagingInv'
  BY PagingNextInv DEF pagingVars
<1>2. Active' = Active /\ \A d : Mapped(d)' <=> Mapped(d)
  BY DEF Active, States, Mapped, pagingVars
<1>3. OneSlot' /\ Resumable'
  BY DEF OneSlot, Resumable
<1>4. Running'
  BY <1>2 DEF Running
<1>5. Separate' /\ DistinctPids'
  BY <1>2 DEF Separate, DistinctPids
<1>6. Counting' /\ Creating'
  BY <1>2 DEF Counting, Creating
<1> QED
  BY <1>1, <1>3, <1>4, <1>5, <1>6

\* The CPU's record after a change of mode.
LEMMA ModeType ==
    ASSUME TypeOK, NEW m \in Modes, NEW b \in BOOLEAN,
           cpu' = [cpu EXCEPT !.mode = m, !.interrupts = b]
    PROVE  /\ cpu' \in [mode : Modes, program : Directories \union {NULL},
                        cr3 : Directories \union {KernelSpace}, interrupts : BOOLEAN]
           /\ cpu'.mode = m /\ cpu'.interrupts = b
           /\ cpu'.program = cpu.program /\ cpu'.cr3 = cpu.cr3
  BY DEF TypeOK

\* A timer interrupt enters its handler.
LEMMA TimerInterruptInv == ProcessInv /\ TimerInterrupt => ProcessInv'
<1> SUFFICES ASSUME ProcessInv, TimerInterrupt PROVE ProcessInv'
  OBVIOUS
<1>1. /\ cpu' \in [mode : Modes, program : Directories \union {NULL},
                   cr3 : Directories \union {KernelSpace}, interrupts : BOOLEAN]
      /\ cpu'.mode = "timer" /\ cpu'.program = cpu.program /\ cpu'.cr3 = cpu.cr3
  BY ModeType DEF TimerInterrupt, ProcessInv, Modes
<1>2. TypeOK'
  BY <1>1 DEF TimerInterrupt, ProcessInv, TypeOK, PagingTypeOK, pagingVars
<1>3. running_process_idx # NoProcess
  BY DEF TimerInterrupt, ProcessInv, OneSlot
<1> QED
  BY <1>1, <1>2, <1>3, SameProgramInv DEF TimerInterrupt

\* A page fault halts the machine in place.
LEMMA PageFaultInv == ProcessInv /\ PageFault => ProcessInv'
<1> SUFFICES ASSUME ProcessInv, PageFault PROVE ProcessInv'
  OBVIOUS
<1>1. /\ cpu' \in [mode : Modes, program : Directories \union {NULL},
                   cr3 : Directories \union {KernelSpace}, interrupts : BOOLEAN]
      /\ cpu'.mode = "halted" /\ cpu'.program = cpu.program /\ cpu'.cr3 = cpu.cr3
  BY ModeType DEF PageFault, ProcessInv, Modes
<1>2. TypeOK'
  BY <1>1 DEF PageFault, ProcessInv, TypeOK, PagingTypeOK, pagingVars
<1> QED
  BY <1>1, <1>2, SameProgramInv DEF PageFault

\* process_create_user_process gives up: only its return code is new.
LEMMA CreateExitInv ==
    ASSUME ProcessInv, NEW code \in 0..4, CreateExit(code), cpu.mode # "halted",
           UNCHANGED <<pagingVars, process_list, running_process_idx,
                       active_process_count, timer_in_service, creation>>
    PROVE  ProcessInv'
<1>1. /\ cpu' \in [mode : Modes, program : Directories \union {NULL},
                   cr3 : Directories \union {KernelSpace}, interrupts : BOOLEAN]
      /\ cpu'.mode = "created" /\ cpu'.program = cpu.program /\ cpu'.cr3 = cpu.cr3
  BY ModeType DEF CreateExit, ProcessInv, Modes
<1>2. TypeOK'
  BY <1>1 DEF CreateExit, ProcessInv, TypeOK, PagingTypeOK, pagingVars
<1> QED
  BY <1>1, <1>2, SameProgramInv

\* A handler returns to the program it interrupted.
LEMMA ReturnToUserInv ==
    ASSUME ProcessInv, ReturnToUser, cpu.mode # "halted", running_process_idx # NoProcess,
           creation' = creation \/ creation' = NoCreation,
           UNCHANGED <<pagingVars, process_list, running_process_idx,
                       active_process_count, timer_in_service, retcode>>
    PROVE  ProcessInv'
<1>1. /\ cpu' \in [mode : Modes, program : Directories \union {NULL},
                   cr3 : Directories \union {KernelSpace}, interrupts : BOOLEAN]
      /\ cpu'.mode = "user" /\ cpu'.program = cpu.program /\ cpu'.cr3 = cpu.cr3
      /\ cpu'.interrupts = TRUE
  BY ModeType DEF ReturnToUser, ProcessInv, Modes
<1>2. creation' \in [slot : Slots, directory : Directories \union {NULL},
                     needed : Nat, page : Nat]
  BY ProcessAssumption DEF ProcessInv, TypeOK, NoCreation, Slots
<1>3. TypeOK'
  BY <1>1, <1>2 DEF ProcessInv, TypeOK, PagingTypeOK, pagingVars
<1> QED
  BY <1>1, <1>3, SameProgramInv

-----------------------------------------------------------------------------
(* process_create_user_process.                                             *)

\* The boot state.
LEMMA ProcessInitInv == Init => ProcessInv
<1> SUFFICES ASSUME Init PROVE ProcessInv
  OBVIOUS
<1>1. PagingInv
  BY PagingInitInv DEF Init
<1>2. TypeOK
  <2>1. cpu \in [mode : Modes, program : Directories \union {NULL},
                 cr3 : Directories \union {KernelSpace}, interrupts : BOOLEAN]
    BY DEF Init, Modes
  <2>2. creation \in [slot : Slots, directory : Directories \union {NULL},
                      needed : Nat, page : Nat]
    BY ProcessAssumption DEF Init, NoCreation, Slots
  <2>3. process_list \in [Slots -> PCBs]
    BY ZeroIsNew DEF Init
  <2>4. timer_in_service \in BOOLEAN
    BY Zenon DEF Init
  <2>5. running_process_idx \in Slots \union {NoProcess} /\ retcode \in 0..4
        /\ active_process_count \in 0..PROCESS_COUNT_MAX
    BY ProcessAssumption DEF Init, PROCESS_CREATE_SUCCESS
  <2> QED
    BY <1>1, <2>1, <2>2, <2>3, <2>4, <2>5 DEF TypeOK, PagingInv
<1>3. \A i \in Slots : process_list[i].state = "NEW"
  BY ZeroIsNew DEF Init
<1>4. Active = {}
  BY <1>3 DEF Active, States
<1>5. cpu.mode = "boot" /\ running_process_idx = NoProcess
  BY DEF Init
<1>6. OneSlot /\ Resumable /\ Running
  BY <1>3, <1>5 DEF OneSlot, Resumable, Running
<1>7. Separate /\ DistinctPids
  BY <1>4 DEF Separate, DistinctPids
<1>8. Counting /\ Creating
  BY <1>4, <1>5, FS_EmptySet DEF Counting, Creating, Init
<1> QED
  BY <1>1, <1>2, <1>6, <1>7, <1>8 DEF ProcessInv

\* When only the page directories change, and no process loses a page by it, the
\* process table is as sound as before.
LEMMA PagingStepInv ==
    ASSUME ProcessInv, PagingInv', TypeOK', Creating',
           \A d \in Directories : Mapped(d) => Mapped(d)',
           UNCHANGED <<process_list, running_process_idx, active_process_count>>,
           cpu'.program = cpu.program, cpu'.cr3 = cpu.cr3,
           cpu.mode # "halted", cpu'.mode \notin {"user", "timer"}
    PROVE  ProcessInv'
<1> USE DEF ProcessInv
<1>1. Active' = Active
  BY DEF Active, States
<1>2. \A d : Mapped(d) => Mapped(d)'
  BY DEF Mapped
<1>3. OneSlot' /\ Resumable'
  BY DEF OneSlot, Resumable
<1>4. Running'
  BY <1>1, <1>2 DEF Running
<1>5. Separate' /\ DistinctPids'
  BY <1>1, <1>2 DEF Separate, DistinctPids
<1>6. Counting'
  BY <1>1 DEF Counting
<1> QED
  BY <1>3, <1>4, <1>5, <1>6

\* The tests, the slot and the directory: either nothing is taken, or the call owns
\* what it took.
LEMMA CreateStartInv ==
    ASSUME ProcessInv, NEW request, request.buffer_size \in Nat \ {0},
           cpu.mode # "halted", CreateStart(request),
           UNCHANGED <<process_list, running_process_idx, active_process_count,
                       timer_in_service>>
    PROVE  ProcessInv'
<1> USE DEF ProcessInv
<1> DEFINE codes == {PROCESS_CREATE_FAIL_MAX_PROCESS_EXCEEDED,
                     PROCESS_CREATE_FAIL_INVALID_ENTRYPOINT,
                     PROCESS_CREATE_FAIL_NOT_ENOUGH_MEMORY}
<1>1. ASSUME NEW code \in codes, CreateExit(code), UNCHANGED <<pagingVars, creation>>
      PROVE  ProcessInv'
  <2>1. code \in 0..4
    BY DEF PROCESS_CREATE_FAIL_MAX_PROCESS_EXCEEDED, PROCESS_CREATE_FAIL_INVALID_ENTRYPOINT,
           PROCESS_CREATE_FAIL_NOT_ENOUGH_MEMORY
  <2> QED
    BY <1>1, <2>1, CreateExitInv
<1>2. ASSUME ~TooMany, EnoughMemory(request), NEW slot \in Slots, NEW d \in Directories,
             InactiveIndex(slot), paging_create_new_page_directory(d),
             creation' = [slot |-> slot, directory |-> d, page |-> 0,
                          needed |-> page_frame_count_needed(request)],
             cpu' = [cpu EXCEPT !.mode = "allocate", !.interrupts = FALSE],
             UNCHANGED retcode
      PROVE  ProcessInv'
  <2>1. d \in 0..PAGING_DIRECTORY_TABLE_MAX_COUNT
        /\ d < PAGING_DIRECTORY_TABLE_MAX_COUNT /\ d # PAGING_DIRECTORY_TABLE_MAX_COUNT
    BY PagingAssumption DEF Directories
  <2>2. PagingInv'
    BY <1>2, <2>1, CreateDirectoryInv
  <2>3. /\ ~page_directory_used[d]
        /\ page_directory_used' = [page_directory_used EXCEPT ![d] = TRUE]
        /\ page_directory_list' = [page_directory_list EXCEPT ![d][KernelPage] = KernelFrame]
    BY <1>2, <2>1 DEF paging_create_new_page_directory, FirstFree, TypeOK, PagingTypeOK,
                      update_page_directory_entry
  <2>4. page_directory_used'[d] /\ \A e \in Directories :
           page_directory_used[e] => page_directory_used'[e]
    BY <2>3 DEF TypeOK, PagingTypeOK
  <2>5. \A e \in Directories : Mapped(e) => Mapped(e)'
    <3> SUFFICES ASSUME NEW e \in Directories, Mapped(e) PROVE Mapped(e)'
      OBVIOUS
    <3>1. e # d
      BY <2>3 DEF Mapped
    <3>2. page_directory_list'[e] = page_directory_list[e]
      BY <2>3, <3>1 DEF TypeOK, PagingTypeOK
    <3> QED
      BY <2>4, <3>2 DEF Mapped
  <2>6. \A p \in UserPages : page_directory_list'[d][p] = NotPresent
    <3>1. page_directory_list[d] = EmptyDirectory
      BY <2>3 DEF PagingInv, DirectoryHygiene
    <3>2. KernelPage \notin UserPages /\ UserPages \subseteq Pages
      BY PagingAssumption DEF KernelPage, UserPages, Pages
    <3> QED
      BY <2>3, <3>1, <3>2 DEF EmptyDirectory, TypeOK, PagingTypeOK
  <2>7. /\ cpu' \in [mode : Modes, program : Directories \union {NULL},
                     cr3 : Directories \union {KernelSpace}, interrupts : BOOLEAN]
        /\ cpu'.mode = "allocate" /\ cpu'.program = cpu.program /\ cpu'.cr3 = cpu.cr3
    BY <1>2, ModeType DEF Modes
  <2>8. creation'.needed \in 2..PROCESS_PAGE_FRAME_COUNT_MAX
    <3>1. page_frame_count_needed(request) \in Nat \ {0, 1}
      BY TwoPagesNeeded DEF page_frame_count_needed
    <3>2. page_frame_count_needed(request) <= PROCESS_PAGE_FRAME_COUNT_MAX
      BY <1>2 DEF EnoughMemory
    <3> QED
      BY <1>2, <3>1, <3>2, PagingAssumption
  <2>9. /\ creation' \in [slot : Slots, directory : Directories \union {NULL},
                          needed : Nat, page : Nat]
        /\ creation'.slot = slot /\ creation'.directory = d /\ creation'.page = 0
    <3>1. creation'.needed \in Nat
      BY <2>8, PagingAssumption
    <3> QED
      BY <1>2, <3>1
  <2>10. TypeOK'
    BY <1>2, <2>2, <2>7, <2>9 DEF TypeOK, PagingInv
  <2>11. running_process_idx # NoProcess => d # cpu.cr3
    BY <2>3 DEF Running, Mapped
  <2>12. \A i \in Active : process_list[i].context.page_directory # d
    BY <2>3, NoneOfThem DEF Separate, Mapped
  <2>13. active_process_count < PROCESS_COUNT_MAX
    BY <1>2, ProcessAssumption DEF TooMany, TypeOK
  <2>14. Active' = Active /\ process_list[slot].state = "NEW"
    BY <1>2 DEF Active, States, InactiveIndex
  <2>15. creation'.page <= creation'.needed
    BY <2>8, <2>9, PagingAssumption
  <2>16. Creating'
    BY <2>4, <2>6, <2>7, <2>8, <2>9, <2>11, <2>12, <2>13, <2>14, <2>15 DEF Creating
  <2> QED
    BY <2>2, <2>5, <2>7, <2>10, <2>16, PagingStepInv
<1>3. ASSUME NEW d \in Directories \union {KernelSpace}, d \notin Directories,
             paging_create_new_page_directory(d)
      PROVE  UNCHANGED pagingVars
  BY <1>3, PagingAssumption
     DEF paging_create_new_page_directory, KernelSpace, Directories
<1> QED
  BY <1>1, <1>2, <1>3 DEF CreateStart

\* kernel_setup creates the first process.
LEMMA BootInv == ProcessInv /\ Boot => ProcessInv'
<1> SUFFICES ASSUME ProcessInv, Boot PROVE ProcessInv'
  OBVIOUS
<1> DEFINE request == [buf |-> 0, buffer_size |-> 1048576]
<1>1. request.buffer_size \in Nat \ {0}
  OBVIOUS
<1>2. CreateStart(request) /\ cpu.mode # "halted"
  BY DEF Boot
<1> HIDE DEF request
<1> QED
  BY <1>1, <1>2, CreateStartInv DEF Boot

\* System call 12 creates one on behalf of a program.
LEMMA ExecInv == ProcessInv /\ Exec => ProcessInv'
<1> SUFFICES ASSUME ProcessInv, Exec PROVE ProcessInv'
  OBVIOUS
<1>1. PICK request \in Requests : CreateStart(request)
  BY DEF Exec
<1>2. request.buffer_size \in Nat \ {0}
  BY ProcessAssumption DEF Requests
<1> QED
  BY <1>1, <1>2, CreateStartInv DEF Exec

\* A page of the new process is mapped, or memory has run out; after the last one
\* the number of pages goes into the PCB.
LEMMA AllocateStepInv == ProcessInv /\ AllocateStep => ProcessInv'
<1> SUFFICES ASSUME ProcessInv, AllocateStep PROVE ProcessInv'
  OBVIOUS
<1> USE DEF ProcessInv
<1> DEFINE d == creation.directory
           p == creation.page
<1>0. /\ cpu.mode = "allocate" /\ d \in Directories /\ page_directory_used[d]
      /\ p \in Nat /\ creation.slot \in Slots
      /\ creation.needed \in 2..PROCESS_PAGE_FRAME_COUNT_MAX
  BY DEF AllocateStep, Creating, TypeOK
<1>1. CASE p < creation.needed
  <2>1. /\ paging_allocate_user_page_frame(d, p)
        /\ creation' = [creation EXCEPT !.page = @ + 1]
        /\ UNCHANGED <<process_list, cpu>>
    BY <1>0, <1>1, PagingAssumption DEF AllocateStep
  <2>2. p \in UserPages
    BY <1>0, <1>1, PagingAssumption DEF UserPages
  <2>3. page_directory_list[d][p] = NotPresent
    BY <1>0, <2>2 DEF Creating
  <2>4. PagingInv'
    BY <1>0, <2>1, <2>2, <2>3, AllocateInv
  <2>5. page_directory_used' = page_directory_used
    BY <2>1 DEF paging_allocate_user_page_frame, pagingVars
  <2>6. \/ page_directory_list' = page_directory_list
        \/ \E f \in 0..PAGE_FRAME_MAX_COUNT :
              page_directory_list' = [page_directory_list EXCEPT ![d][p] = f]
    BY <2>1 DEF paging_allocate_user_page_frame, pagingVars, update_page_directory_entry
  <2>7. \A e \in Directories, q \in Pages :
           /\ ~(e = d /\ q = p) => page_directory_list'[e][q] = page_directory_list[e][q]
           /\ page_directory_list[e][q] # NotPresent => page_directory_list'[e][q] # NotPresent
    BY <2>6, <2>3 DEF TypeOK, PagingTypeOK, NotPresent
  <2>8. \A e \in Directories : Mapped(e) => Mapped(e)'
    <3>1. 0..1 \subseteq Pages
      BY <1>0, PagingAssumption DEF Pages, UserPages
    <3> QED
      BY <2>5, <2>7, <3>1 DEF Mapped
  <2>9. /\ creation' \in [slot : Slots, directory : Directories \union {NULL},
                          needed : Nat, page : Nat]
        /\ creation'.slot = creation.slot /\ creation'.directory = d
        /\ creation'.needed = creation.needed /\ creation'.page = p + 1
    BY <2>1, <1>0 DEF TypeOK
  <2>10. TypeOK'
    BY <2>1, <2>4, <2>9 DEF TypeOK, PagingInv, AllocateStep
  <2>11. UserPages \subseteq Pages
    BY DEF Pages
  <2>12. \A q \in UserPages : q >= p + 1 => page_directory_list'[d][q] = NotPresent
    <3> SUFFICES ASSUME NEW q \in UserPages, q >= p + 1
                 PROVE  page_directory_list'[d][q] = NotPresent
      OBVIOUS
    <3>1. q # p /\ q >= p
      BY <1>0 DEF UserPages
    <3>2. page_directory_list[d][q] = NotPresent
      BY <1>0, <3>1 DEF Creating
    <3> QED
      BY <1>0, <2>7, <2>11, <3>1, <3>2
  <2>13. Active' = Active
    BY <2>1 DEF Active, States
  <2>14. creation'.page <= creation'.needed
    BY <1>0, <1>1, <2>9, PagingAssumption
  <2>15. Creating'
    BY <1>0, <2>1, <2>5, <2>9, <2>12, <2>13, <2>14 DEF Creating, AllocateStep
  <2> QED
    BY <1>0, <2>1, <2>4, <2>8, <2>10, <2>15, PagingStepInv DEF AllocateStep
<1>2. CASE ~(p < creation.needed)
  <2>1. /\ process_list' = [process_list EXCEPT
                               ![creation.slot].page_frame_used_count = creation.needed]
        /\ cpu' = [cpu EXCEPT !.mode = "load"]
        /\ UNCHANGED <<pagingVars, creation>>
    BY <1>0, <1>2, PagingAssumption DEF AllocateStep
  <2>2. /\ process_list' \in [Slots -> PCBs]
        /\ \A i \in Slots : /\ process_list'[i].state = process_list[i].state
                            /\ process_list'[i].context = process_list[i].context
                            /\ process_list'[i].pid = process_list[i].pid
    BY <1>0, <2>1, PagingAssumption DEF TypeOK, PCBs
  <2>3. /\ cpu' \in [mode : Modes, program : Directories \union {NULL},
                     cr3 : Directories \union {KernelSpace}, interrupts : BOOLEAN]
        /\ cpu'.mode = "load" /\ cpu'.program = cpu.program /\ cpu'.cr3 = cpu.cr3
    BY <2>1 DEF TypeOK, Modes
  <2>4. PagingInv'
    BY <2>1, PagingNextInv
  <2>5. TypeOK'
    BY <2>1, <2>2, <2>3, <2>4 DEF TypeOK, AllocateStep, PagingInv
  <2>6. Active' = Active /\ Active \subseteq Slots /\ \A e : Mapped(e)' <=> Mapped(e)
    BY <2>1, <2>2 DEF Active, States, Mapped, pagingVars
  <2>7. OneSlot' /\ Resumable'
    BY <1>0, <2>2, <2>3 DEF OneSlot, Resumable, AllocateStep
  <2>8. Running'
    BY <1>0, <2>2, <2>3, <2>6 DEF Running, AllocateStep
  <2>9. Separate' /\ DistinctPids'
    BY <2>2, <2>6 DEF Separate, DistinctPids
  <2>10. Counting'
    BY <2>6 DEF Counting, AllocateStep
  <2>11. Creating'
    BY <1>0, <2>1, <2>2, <2>3, <2>6 DEF Creating, AllocateStep, pagingVars
  <2> QED
    BY <2>4, <2>5, <2>7, <2>8, <2>9, <2>10, <2>11
<1> QED
  BY <1>1, <1>2

\* The executable cannot be read: the call returns with what it took.
LEMMA ReadFailureInv == ProcessInv /\ ReadFailure => ProcessInv'
<1> SUFFICES ASSUME ProcessInv, ReadFailure PROVE ProcessInv'
  OBVIOUS
<1>1. PROCESS_CREATE_FAIL_FS_READ_FAILURE \in 0..4
  BY DEF PROCESS_CREATE_FAIL_FS_READ_FAILURE
<1> QED
  BY <1>1, CreateExitInv DEF ReadFailure

\* Loading the executable into a page that is not there halts the machine.
LEMMA LoadFaultInv == ProcessInv /\ LoadFault => ProcessInv'
<1> SUFFICES ASSUME ProcessInv, LoadFault PROVE ProcessInv'
  OBVIOUS
<1> USE DEF ProcessInv
<1>1. creation.directory \in Directories
  BY DEF LoadFault, Creating
<1>2. /\ cpu' \in [mode : Modes, program : Directories \union {NULL},
                   cr3 : Directories \union {KernelSpace}, interrupts : BOOLEAN]
      /\ cpu'.mode = "halted"
  BY <1>1 DEF LoadFault, TypeOK, Modes
<1>3. PagingInv'
  BY PagingNextInv DEF LoadFault
<1>4. TypeOK'
  BY <1>2, <1>3 DEF LoadFault, TypeOK, PagingInv
<1>5. Active' = Active /\ \A d : Mapped(d)' <=> Mapped(d)
  BY DEF LoadFault, Active, States, Mapped, pagingVars
<1>6. OneSlot' /\ Resumable' /\ Running'
  BY <1>2 DEF LoadFault, OneSlot, Resumable, Running
<1>7. Separate' /\ DistinctPids'
  BY <1>5 DEF LoadFault, Separate, DistinctPids
<1>8. Counting' /\ Creating'
  BY <1>2, <1>5 DEF LoadFault, Counting, Creating
<1> QED
  BY <1>3, <1>4, <1>6, <1>7, <1>8

\* The new process becomes READY in the slot, the directory and the place in the count
\* that were reserved for it.
LEMMA LoadExecutableInv == ProcessInv /\ LoadExecutable => ProcessInv'
<1> SUFFICES ASSUME ProcessInv, LoadExecutable PROVE ProcessInv'
  OBVIOUS
<1> USE DEF ProcessInv
<1> DEFINE slot == creation.slot
           d == creation.directory
<1>0. /\ cpu.mode = "load" /\ slot \in Slots /\ d \in Directories
      /\ process_list[slot].state = "NEW" /\ page_directory_used[d]
      /\ creation.needed \in 2..PROCESS_PAGE_FRAME_COUNT_MAX
      /\ active_process_count < PROCESS_COUNT_MAX
      /\ running_process_idx # NoProcess => d # cpu.cr3
      /\ \A i \in Active : process_list[i].context.page_directory # d
  BY DEF LoadExecutable, Creating, TypeOK
<1>1. PICK pid \in 1..(PROCESS_COUNT_MAX + 1) :
         /\ NewPid(pid)
         /\ process_list' = [process_list EXCEPT ![slot].pid = pid,
                                                 ![slot].state = "READY",
                                                 ![slot].context = NewContext(d)]
  BY DEF LoadExecutable
<1>2. /\ NewContext(d) \in Contexts /\ NewContext(d).page_directory = d
      /\ NewContext(d).program = d /\ NewContext(d).interrupts = TRUE
  BY <1>0 DEF NewContext, Context, Contexts
<1> HIDE DEF slot, d
<1>3. pid \in 0..(PROCESS_COUNT_MAX + 1)
  BY ProcessAssumption
<1>4. /\ process_list' \in [Slots -> PCBs]
      /\ \A i \in Slots : i # slot => process_list'[i] = process_list[i]
      /\ process_list'[slot].pid = pid /\ process_list'[slot].state = "READY"
      /\ process_list'[slot].context = NewContext(d)
  BY <1>0, <1>1, <1>2, <1>3 DEF TypeOK, PCBs
<1>5. /\ UNCHANGED <<pagingVars, running_process_idx, timer_in_service, creation>>
      /\ active_process_count' = active_process_count + 1
      /\ retcode' \in 0..4
      /\ cpu' \in [mode : Modes, program : Directories \union {NULL},
                   cr3 : Directories \union {KernelSpace}, interrupts : BOOLEAN]
      /\ cpu'.mode = "created" /\ cpu'.program = cpu.program /\ cpu'.cr3 = cpu.cr3
  <2>1. cpu' = [cpu EXCEPT !.mode = "created", !.interrupts = FALSE] /\ retcode' = 0
    BY DEF LoadExecutable, CreateExit, PROCESS_CREATE_SUCCESS
  <2>2. "created" \in Modes /\ FALSE \in BOOLEAN
    BY DEF Modes
  <2>3. /\ UNCHANGED <<pagingVars, running_process_idx, timer_in_service, creation>>
        /\ active_process_count' = active_process_count + 1
    BY DEF LoadExecutable, NewCount
  <2>4. retcode' \in 0..4
    BY <2>1
  <2> QED
    BY <2>1, <2>2, <2>3, <2>4, ModeType
<1>6. PagingInv'
  BY <1>5, PagingNextInv
<1>7. active_process_count' \in 0..PROCESS_COUNT_MAX
  BY <1>0, <1>5, ProcessAssumption DEF TypeOK
<1>8. TypeOK'
  BY <1>4, <1>5, <1>6, <1>7 DEF TypeOK, PagingInv
<1>9. Active' = Active \union {slot} /\ slot \notin Active /\ Active \subseteq Slots
  BY <1>0, <1>4 DEF Active, States
<1>10. \A e : Mapped(e)' <=> Mapped(e)
  BY <1>5 DEF Mapped, pagingVars
<1>11. Mapped(d)
  <2>1. ExecutablePages = 0..1
    BY <1>0, PagingAssumption DEF ExecutablePages, UserPages
  <2> QED
    BY <1>0, <2>1 DEF LoadExecutable, Mapped, d
<1>12. OneSlot'
  BY <1>0, <1>4, <1>5 DEF OneSlot
<1>13. Resumable'
  BY <1>0, <1>2, <1>4 DEF Resumable
<1>14. Running'
  BY <1>0, <1>2, <1>4, <1>5, <1>9, <1>10 DEF Running
<1>15. Separate'
  BY <1>0, <1>2, <1>4, <1>9, <1>10, <1>11, NoneOfThem DEF Separate
<1>16. DistinctPids'
  <2>1. \A i \in Slots : process_list[i].pid # pid
    BY <1>1 DEF NewPid
  <2> QED
    BY <2>1, <1>0, <1>4, <1>9 DEF DistinctPids
<1>17. Counting'
  <2>1. Cardinality(Active') = Cardinality(Active) + 1
    BY <1>9, ActiveFinite, FS_AddElement
  <2> QED
    BY <2>1, <1>5, ActiveFinite DEF Counting, TypeOK
<1>18. Creating'
  BY <1>5 DEF Creating
<1> QED
  BY <1>6, <1>8, <1>12, <1>13, <1>14, <1>15, <1>16, <1>17, <1>18

-----------------------------------------------------------------------------
(* Switching, exit and kill.                                                *)

\* The end of a creation starts the scheduler, or goes back to the caller.
LEMMA CreateReturnInv == ProcessInv /\ CreateReturn => ProcessInv'
<1> SUFFICES ASSUME ProcessInv, CreateReturn PROVE ProcessInv'
  OBVIOUS
<1>1. CASE running_process_idx = NoProcess
  <2>1. HandedOver(process_list)
    BY <1>1 DEF HandedOver, ProcessInv, TypeOK
  <2>2. scheduler_switch_to_next_process(process_list)
    BY <1>1 DEF CreateReturn
  <2>3. timer_in_service' \in BOOLEAN
    BY DEF CreateReturn, ProcessInv, TypeOK
  <2> QED
    BY <2>1, <2>2, <2>3, SwitchInv DEF CreateReturn
<1>2. CASE running_process_idx # NoProcess
  BY <1>2, ReturnToUserInv DEF CreateReturn
<1> QED
  BY <1>1, <1>2

\* The timer saves the running program and switches.
LEMMA TimerHandlerInv == ProcessInv /\ TimerHandler => ProcessInv'
<1> SUFFICES ASSUME ProcessInv, TimerHandler PROVE ProcessInv'
  OBVIOUS
<1> DEFINE ctx == Context(cpu.program, cpu.cr3, TRUE)
           list == Saved(ctx)
<1>1. cpu.mode = "timer" /\ running_process_idx \in Slots
      /\ running_process_idx # NoProcess
  BY NoneOfThem DEF TimerHandler, ProcessInv, OneSlot, TypeOK
<1>2. ctx \in Contexts
  BY <1>1 DEF ProcessInv, Running, Mapped, TypeOK, Context, Contexts
<1> HIDE DEF ctx
<1>3. list = [process_list EXCEPT ![running_process_idx].context = ctx,
                                  ![running_process_idx].state = "READY"]
  BY <1>1 DEF Saved
<1>4. /\ list \in [Slots -> PCBs]
      /\ \A j \in Slots : j # running_process_idx => list[j] = process_list[j]
      /\ list[running_process_idx].state = "READY"
      /\ list[running_process_idx].context = ctx
      /\ list[running_process_idx].pid = process_list[running_process_idx].pid
  <2>1. process_list \in [Slots -> PCBs]
    BY DEF ProcessInv, TypeOK
  <2> HIDE DEF list
  <2> QED
    BY <1>1, <1>2, <1>3, <2>1 DEF PCBs
<1>5. HandedOver(list)
  BY <1>4 DEF HandedOver, ctx
<1>6. scheduler_switch_to_next_process(list)
  BY DEF TimerHandler, ctx
<1>7. timer_in_service' \in BOOLEAN
  BY DEF TimerHandler, pic_ack
<1> HIDE DEF list
<1> QED
  BY <1>1, <1>5, <1>6, <1>7, SwitchInv DEF TimerHandler

\* The running process gives up its slot and the next one runs, or it goes on itself
\* when there is none.
LEMMA TerminateInv ==
    ASSUME ProcessInv, cpu.mode = "user", terminate_current_process,
           UNCHANGED <<pagingVars, active_process_count, timer_in_service, creation, retcode>>
    PROVE  ProcessInv'
<1> DEFINE list == Cleared(running_process_idx)
<1>1. running_process_idx \in Slots
  BY DEF ProcessInv, OneSlot, TypeOK
<1>2. /\ list \in [Slots -> PCBs]
      /\ \A j \in Slots : j # running_process_idx => list[j] = process_list[j]
      /\ list[running_process_idx] = ZeroPCB
  BY <1>1, ZeroIsNew DEF Cleared, ProcessInv, TypeOK
<1>3. HandedOver(list)
  BY <1>2 DEF HandedOver
<1>4. scheduler_switch_to_next_process(list)
  BY DEF terminate_current_process
<1>5. timer_in_service' \in BOOLEAN
  BY DEF ProcessInv, TypeOK
<1> HIDE DEF list
<1> QED
  BY <1>3, <1>4, <1>5, SwitchInv

\* System call 14: the victim is the caller, another process, or nobody.
LEMMA KillInv == ProcessInv /\ Kill => ProcessInv'
<1> SUFFICES ASSUME ProcessInv, Kill PROVE ProcessInv'
  OBVIOUS
<1> USE DEF ProcessInv
<1>1. /\ cpu.mode = "user"
      /\ UNCHANGED <<pagingVars, active_process_count, timer_in_service, creation, retcode>>
  BY DEF Kill
<1>2. running_process_idx \in Slots /\ running_process_idx # NoProcess
  BY <1>1 DEF OneSlot, TypeOK
<1>3. PICK pid : kill_process(pid)
  BY DEF Kill
<1>4. CASE terminate_current_process
  BY <1>1, <1>4, TerminateInv
<1>5. CASE ReturnToUser /\ UNCHANGED <<process_list, running_process_idx>>
  BY <1>1, <1>2, <1>5, ReturnToUserInv
<1>6. ASSUME NEW i \in Slots, i # running_process_idx, process_list' = Cleared(i),
             ReturnToUser, UNCHANGED running_process_idx
      PROVE  ProcessInv'
  <2>1. /\ process_list' \in [Slots -> PCBs]
        /\ \A j \in Slots : j # i => process_list'[j] = process_list[j]
        /\ process_list'[i] = ZeroPCB
    BY <1>6, ZeroIsNew DEF Cleared, TypeOK
  <2>2. /\ cpu' \in [mode : Modes, program : Directories \union {NULL},
                     cr3 : Directories \union {KernelSpace}, interrupts : BOOLEAN]
        /\ cpu'.mode = "user" /\ cpu'.interrupts = TRUE
        /\ cpu'.program = cpu.program /\ cpu'.cr3 = cpu.cr3
    BY <1>6, ModeType DEF ReturnToUser, Modes
  <2>3. PagingInv'
    BY <1>1, PagingNextInv
  <2>4. TypeOK'
    BY <1>1, <1>6, <2>1, <2>2, <2>3 DEF TypeOK, PagingInv
  <2>5. Active' = Active \ {i} /\ Active \subseteq Slots
    BY <2>1, ZeroIsNew DEF Active, States
  <2>6. \A d : Mapped(d)' <=> Mapped(d)
    BY <1>1 DEF Mapped, pagingVars
  <2>7. OneSlot'
    BY <1>2, <1>6, <2>1, ZeroIsNew DEF OneSlot
  <2>8. Resumable'
    BY <2>1, ZeroIsNew DEF Resumable
  <2>9. Running'
    BY <1>1, <1>2, <1>6, <2>1, <2>2, <2>5, <2>6 DEF Running
  <2>10. Separate' /\ DistinctPids'
    BY <2>1, <2>5, <2>6 DEF Separate, DistinctPids
  <2>11. Counting'
    <3>1. Cardinality(Active') \in Nat /\ Cardinality(Active') <= Cardinality(Active)
      BY <2>5, ActiveFinite, FS_Subset, FS_CardinalityType
    <3> QED
      BY <3>1, <1>1, ActiveFinite DEF Counting, TypeOK
  <2>12. Creating'
    BY <2>2 DEF Creating
  <2> QED
    BY <2>3, <2>4, <2>7, <2>8, <2>9, <2>10, <2>11, <2>12
<1> QED
  BY <1>3, <1>4, <1>5, <1>6 DEF kill_process

-----------------------------------------------------------------------------
\* Every step keeps the invariant.
LEMMA ProcessNextInv == ProcessInv /\ [Next]_vars => ProcessInv'
<1> SUFFICES ASSUME ProcessInv, [Next]_vars PROVE ProcessInv'
  OBVIOUS
<1>1. CASE Boot
  BY <1>1, BootInv
<1>2. CASE TimerHandler
  BY <1>2, TimerHandlerInv
<1>3. CASE AllocateStep
  BY <1>3, AllocateStepInv
<1>4. CASE ReadFailure
  BY <1>4, ReadFailureInv
<1>5. CASE LoadFault
  BY <1>5, LoadFaultInv
<1>6. CASE LoadExecutable
  BY <1>6, LoadExecutableInv
<1>7. CASE CreateReturn
  BY <1>7, CreateReturnInv
<1>8. CASE TimerInterrupt
  BY <1>8, TimerInterruptInv
<1>9. CASE PageFault
  BY <1>9, PageFaultInv
<1>10. CASE Exec
  BY <1>10, ExecInv
<1>11. CASE Exit
  BY <1>11, TerminateInv DEF Exit
<1>12. CASE Kill
  BY <1>12, KillInv
<1>13. CASE UNCHANGED vars
  <2>1. PagingInv'
    BY <1>13, PagingNextInv DEF ProcessInv, vars
  <2>2. TypeOK'
    BY <1>13, <2>1 DEF ProcessInv, TypeOK, PagingInv, vars, processVars
  <2>3. Active' = Active /\ \A d : Mapped(d)' <=> Mapped(d)
    BY <1>13 DEF Active, States, Mapped, vars, processVars, pagingVars
  <2>4. OneSlot' /\ Resumable' /\ Running'
    BY <1>13, <2>3 DEF ProcessInv, OneSlot, Resumable, Running, vars, processVars
  <2>5. Separate' /\ DistinctPids' /\ Counting'
    BY <1>13, <2>3 DEF ProcessInv, Separate, DistinctPids, Counting, vars, processVars
  <2>6. Creating'
    BY <1>13, <2>3 DEF ProcessInv, Creating, vars, processVars, pagingVars
  <2> QED
    BY <2>1, <2>2, <2>4, <2>5, <2>6 DEF ProcessInv
<1> QED
  BY <1>1, <1>2, <1>3, <1>4, <1>5, <1>6, <1>7, <1>8, <1>9, <1>10, <1>11, <1>12, <1>13
     DEF Next, KernelStep, Stuck

\* The whole invariant, for any number of slots, frames, directories and pages.
THEOREM ProcessCorrect == Spec => []ProcessInv
<1> QED
  BY ProcessInitInv, ProcessNextInv, PTL DEF Spec

\* process.c, scheduler.c and the interrupt paths keep their state well-typed; in
\* particular a context switch never loads a null page directory into CR3, and
\* active_process_count never passes PROCESS_COUNT_MAX.
THEOREM ProcessTypeCorrect == Spec => []TypeOK
<1>1. ProcessInv => TypeOK
  BY DEF ProcessInv
<1> QED
  BY <1>1, ProcessCorrect, PTL

\* Whatever timer interrupts, exits, kills and creations come, running_process_idx
\* names the one PCB that is RUNNING.
THEOREM OneRunningHolds == Spec => []OneRunning
<1>1. ASSUME ProcessInv PROVE OneRunning
  <2>1. running_process_idx = NoProcess => States({"RUNNING"}) = {}
    BY <1>1 DEF ProcessInv, OneSlot, States
  <2>2. running_process_idx # NoProcess => States({"RUNNING"}) = {running_process_idx}
    BY <1>1 DEF ProcessInv, OneSlot, TypeOK, States
  <2> QED
    BY <1>1, <2>1, <2>2 DEF OneRunning, ProcessInv, OneSlot
<1> QED
  BY <1>1, ProcessCorrect, PTL

\* A program is only ever resumed in the address space it was loaded into, with
\* interrupts on, and no two processes share a page directory.
THEOREM OwnAddressSpaceHolds == Spec => []OwnAddressSpace
<1>1. ASSUME ProcessInv PROVE OwnAddressSpace
  <2>1. cpu.mode = "user" => cpu.program = cpu.cr3 /\ cpu.interrupts
    BY <1>1 DEF ProcessInv, OneSlot, Running
  <2>2. \A i \in States({"READY"}) :
           /\ process_list[i].context.program = process_list[i].context.page_directory
           /\ process_list[i].context.interrupts
           /\ process_list[i].context.page_directory \in Directories
    BY <1>1 DEF ProcessInv, Resumable, States
  <2>3. \A i, j \in Active :
           i # j /\ process_list[i].context.page_directory # NULL =>
               process_list[i].context.page_directory # process_list[j].context.page_directory
    BY <1>1 DEF ProcessInv, Separate
  <2> QED
    BY <2>1, <2>2, <2>3 DEF OwnAddressSpace
<1> QED
  BY <1>1, ProcessCorrect, PTL

\* process_generate_new_pid never gives a live process's pid to another, and no two
\* programs are ever left running with the pid 0 of a cleared PCB.
THEOREM DistinctPidsHolds == Spec => []DistinctPids
<1>1. ProcessInv => DistinctPids
  BY DEF ProcessInv
<1> QED
  BY <1>1, ProcessCorrect, PTL

\* A step of any other kind than exit or kill leaves no live process without its pid.
LEMMA OnlyTerminationTakesPids ==
    ASSUME ProcessInv, Next, ~Exit, ~Kill,
           NEW i \in Slots, process_list[i].pid # 0, process_list'[i].pid = 0
    PROVE  FALSE
<1> USE DEF ProcessInv
<1>1. process_list \in [Slots -> PCBs] /\ running_process_idx \in Slots \union {NoProcess}
      /\ creation.slot \in Slots
  BY DEF TypeOK
<1>2. ASSUME NEW list, list \in [Slots -> PCBs], scheduler_switch_to_next_process(list),
             list[i].pid = process_list[i].pid
      PROVE  FALSE
  <2>1. \A k \in Slots : [list EXCEPT ![k].state = "RUNNING"][i].pid = list[i].pid
    BY <1>2 DEF PCBs
  <2> QED
    BY <1>1, <1>2, <2>1 DEF scheduler_switch_to_next_process
<1>3. CASE TimerHandler
  <2> DEFINE list == Saved(Context(cpu.program, cpu.cr3, TRUE))
  <2>1. Context(cpu.program, cpu.cr3, TRUE) \in Contexts
    BY <1>3 DEF TimerHandler, OneSlot, Running, Mapped, Context, Contexts
  <2>2. list \in [Slots -> PCBs] /\ list[i].pid = process_list[i].pid
    BY <1>1, <2>1 DEF Saved, PCBs
  <2>3. scheduler_switch_to_next_process(list)
    BY <1>3 DEF TimerHandler
  <2> HIDE DEF list
  <2> QED
    BY <1>2, <2>2, <2>3
<1>4. CASE CreateReturn
  BY <1>1, <1>2, <1>4 DEF CreateReturn
<1>5. CASE AllocateStep
  BY <1>1, <1>5 DEF AllocateStep, PCBs
<1>6. CASE LoadExecutable
  <2>1. PICK pid \in 1..(PROCESS_COUNT_MAX + 1) :
           process_list' = [process_list EXCEPT
                ![creation.slot].pid = pid,
                ![creation.slot].state = "READY",
                ![creation.slot].context = NewContext(creation.directory)]
    BY <1>6 DEF LoadExecutable
  <2> QED
    BY <1>1, <2>1, ProcessAssumption DEF PCBs
<1>7. CASE UNCHANGED process_list
  BY <1>7
<1> QED
  BY <1>3, <1>4, <1>5, <1>6, <1>7
     DEF Next, KernelStep, Boot, Exec, ReadFailure, LoadFault, TimerInterrupt, PageFault,
         Stuck, vars, processVars

\* exit and kill switch to another process whenever there is one: only the last of all
\* gets the CPU back with its PCB cleared.
THEOREM TerminateSwitchesHolds == Spec => TerminateSwitches
<1>1. ASSUME ProcessInv, Next, NEW i \in Slots, process_list[i].pid # 0,
             process_list'[i].pid = 0, process_list'[i].state # "NEW",
             NEW j \in Slots \ {i}
      PROVE  process_list'[j].state = "NEW"
  <2> USE DEF ProcessInv
  <2>1. Exit \/ Kill
    BY <1>1, OnlyTerminationTakesPids
  <2>2. /\ process_list \in [Slots -> PCBs]
        /\ running_process_idx \in Slots
        /\ cpu.mode = "user"
    BY <1>1, <2>1 DEF Exit, Kill, TypeOK, OneSlot
  <2> DEFINE list == Cleared(running_process_idx)
  <2>3. terminate_current_process
    <3>1. ASSUME NEW k \in Slots, process_list' = Cleared(k) PROVE FALSE
      BY <1>1, <2>2, <3>1, ZeroIsNew DEF Cleared
    <3> QED
      BY <1>1, <2>1, <3>1 DEF Exit, Kill, kill_process
  <2>4. /\ \A k \in Slots : k # running_process_idx => list[k] = process_list[k]
        /\ list[running_process_idx] = ZeroPCB
        /\ list \in [Slots -> PCBs]
    BY <2>2, ZeroIsNew DEF Cleared
  <2>5. \A k \in Slots : list[k].state # "RUNNING"
    BY <1>1, <2>2, <2>4, ZeroIsNew, NoneOfThem DEF OneSlot
  <2>6. scheduler_switch_to_next_process(list)
    BY <2>3 DEF terminate_current_process
  <2> HIDE DEF list
  <2>7. ASSUME NEW k \in Slots, NextReady(list, k),
               process_list' = [list EXCEPT ![k].state = "RUNNING"]
        PROVE  FALSE
    <3>1. k # running_process_idx
      BY <2>7 DEF NextReady
    <3>2. process_list'[i].pid = list[i].pid
          /\ (i # k => process_list'[i] = list[i])
      BY <2>4, <2>7 DEF PCBs
    <3>3. i = running_process_idx
      BY <1>1, <2>4, <3>2
    <3> QED
      BY <1>1, <2>4, <3>1, <3>2, <3>3, ZeroIsNew
  <2>8. /\ ~ \E k \in Slots : NextReady(list, k)
        /\ process_list' = [list EXCEPT ![running_process_idx].state = "RUNNING"]
    BY <2>2, <2>6, <2>7, NoneOfThem DEF scheduler_switch_to_next_process
  <2>9. \A k \in Slots \ {running_process_idx} : list[k].state = "NEW"
    <3>1. \A k \in Slots \ {running_process_idx} : list[k].state # "READY"
      BY <2>2, <2>8, SearchFinds
    <3> QED
      BY <2>4, <2>5, <3>1 DEF PCBs
  <2>10. \A k \in Slots \ {running_process_idx} : process_list'[k] = list[k]
    BY <2>4, <2>8
  <2>11. i = running_process_idx
    BY <1>1, <2>9, <2>10
  <2> QED
    BY <2>9, <2>10, <2>11
<1>2. ProcessInv /\ [Next]_vars =>
         [\A i \in Slots :
             /\ process_list[i].pid # 0
             /\ process_list'[i].pid = 0 /\ process_list'[i].state # "NEW"
             => \A j \in Slots \ {i} : process_list'[j].state = "NEW"]_vars
  BY <1>1
<1> QED
  BY <1>2, ProcessCorrect, PTL DEF Spec, TerminateSwitches

\* The unbounded search of process_list_get_inactive_index ends inside the table: the
\* test of active_process_count leaves it a free PCB.
THEOREM InactiveIndexExistsHolds == Spec => []InactiveIndexExists
<1>1. ASSUME ProcessInv PROVE InactiveIndexExists
  <2>1. ASSUME States({"NEW"}) = {} PROVE active_process_count >= PROCESS_COUNT_MAX
    <3>1. Active = Slots
      BY <1>1, <2>1, ActiveStates DEF ProcessInv, States, Active
    <3> QED
      BY <1>1, <3>1, ActiveFinite DEF ProcessInv, Counting, TypeOK
  <2> QED
    BY <1>1, <2>1, ProcessAssumption DEF InactiveIndexExists, ProcessInv, TypeOK
<1> QED
  BY <1>1, ProcessCorrect, PTL

\* No process ever exists without the pages its creation fills, although the results of
\* the allocations are ignored.
THEOREM ImageMappedHolds == Spec => []ImageMapped
<1>1. ProcessInv => ImageMapped
  BY SMTT(30) DEF ProcessInv, Separate, Mapped, ImageMapped
<1> QED
  BY <1>1, ProcessCorrect, PTL

-----------------------------------------------------------------------------
(* Process management uses the page-frame manager by its rules.             *)

\* Each step maps an absent page of a directory in use, takes a directory, or leaves
\* the page-frame manager alone.
LEMMA PagingStep == ProcessInv /\ [Next]_vars => [PagingNext]_pagingVars
<1> SUFFICES ASSUME ProcessInv, [Next]_vars, ~UNCHANGED pagingVars
             PROVE  PagingNext
  OBVIOUS
<1>1. ASSUME NEW request, CreateStart(request) PROVE CreateDirectory
  <2>1. PICK d \in Directories \union {KernelSpace} : paging_create_new_page_directory(d)
    BY <1>1 DEF CreateStart
  <2>2. d \in 0..PAGING_DIRECTORY_TABLE_MAX_COUNT
    BY PagingAssumption DEF Directories, KernelSpace
  <2> QED
    BY <2>1, <2>2 DEF CreateDirectory
<1>2. CASE Boot \/ Exec
  BY <1>1, <1>2 DEF Boot, Exec, PagingNext
<1>3. CASE AllocateStep
  <2>1. /\ creation.page < creation.needed
        /\ paging_allocate_user_page_frame(creation.directory, creation.page)
        /\ cpu.mode = "allocate"
    BY <1>3 DEF AllocateStep
  <2>2. /\ creation.directory \in Directories
        /\ page_directory_used[creation.directory]
        /\ creation.page \in Nat
        /\ creation.needed \in 2..PROCESS_PAGE_FRAME_COUNT_MAX
    BY <2>1 DEF ProcessInv, Creating, TypeOK
  <2>3. creation.page \in UserPages
    BY <2>1, <2>2, PagingAssumption DEF UserPages
  <2>4. page_directory_list[creation.directory][creation.page] = NotPresent
    BY <2>1, <2>2, <2>3 DEF ProcessInv, Creating
  <2> QED
    BY <2>1, <2>2, <2>3, <2>4 DEF AllocatePage, PagingNext
<1> QED
  BY <1>2, <1>3
     DEF Next, KernelStep, Stuck, vars, TimerHandler, ReadFailure, LoadFault, LoadExecutable,
         CreateReturn, TimerInterrupt, PageFault, Exit, Kill

\* The calls of process.c to paging.c are a behaviour of the page-frame manager under
\* a client that keeps the rules, so what is proved of that manager holds here.
THEOREM ProcessImplementsPaging == Spec => PagingSpec
<1>1. Init => PagingInit
  BY DEF Init
<1> QED
  BY <1>1, PagingStep, ProcessCorrect, PTL DEF Spec, PagingSpec

\* Address spaces stay disjoint under the real callers: no page of one process is
\* backed by a frame of another's, or of the kernel's.
THEOREM ProcessFrameIsolation == Spec => []FrameIsolation
<1> QED
  BY ProcessImplementsPaging, FrameIsolationHolds, PTL
=============================================================================
