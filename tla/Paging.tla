------------------------------- MODULE Paging -------------------------------
(***************************************************************************)
(* The kernel's page-frame and page-directory manager (src/src/paging.c).  *)
(*                                                                         *)
(* Memory is handed out in frames of 4 MiB.  page_frame_map says which     *)
(* frames are taken, free_page_frame_count caches how many are not, and    *)
(* page_directory_list holds one page directory per address space.  A      *)
(* directory entry is reduced to the frame it maps, or NotPresent: the     *)
(* flag bits are a function of the page (user pages get the user bit, the  *)
(* kernel's page does not).  Only the entries the kernel ever writes are   *)
(* kept: the pages a process can own and the kernel's page 0x300.          *)
(*                                                                         *)
(* Every entry point runs with interrupts disabled (system calls and IRQs  *)
(* go through interrupt gates), so each is one action.                     *)
(***************************************************************************)
EXTENDS Integers, FiniteSets

CONSTANTS PAGE_FRAME_SIZE,                  \* bytes in a frame
          PAGE_FRAME_MAX_COUNT,             \* frames of physical memory
          PAGING_DIRECTORY_TABLE_MAX_COUNT, \* page directories
          PROCESS_PAGE_FRAME_COUNT_MAX      \* user pages of one process

\* The kernel holds frame 0, its virtual page 0x300 lies above every user page,
\* and a number of pages, taken as a number of bytes, fits in one frame.
ASSUME PagingAssumption ==
    /\ PAGE_FRAME_SIZE \in Nat
    /\ PAGE_FRAME_MAX_COUNT \in Nat \ {0}
    /\ PAGING_DIRECTORY_TABLE_MAX_COUNT \in Nat
    /\ PROCESS_PAGE_FRAME_COUNT_MAX \in 1..768
    /\ PROCESS_PAGE_FRAME_COUNT_MAX < PAGE_FRAME_SIZE

Frames      == 0..(PAGE_FRAME_MAX_COUNT - 1)
Directories == 0..(PAGING_DIRECTORY_TABLE_MAX_COUNT - 1)
UserPages   == 0..(PROCESS_PAGE_FRAME_COUNT_MAX - 1)
KernelPage  == 768                              \* table index 0x300
Pages       == UserPages \union {KernelPage}
KernelFrame == 0
NotPresent  == -1

VARIABLES page_frame_map,        \* page_manager_state.page_frame_map
          free_page_frame_count, \* page_manager_state.free_page_frame_count
          page_directory_used,   \* page_directory_manager.page_directory_used
          page_directory_list    \* the page directories

pagingVars == <<page_frame_map, free_page_frame_count,
                page_directory_used, page_directory_list>>

\* An all-zero page directory: nothing is mapped.
EmptyDirectory == [p \in Pages |-> NotPresent]

PagingInit ==
    /\ page_frame_map = [f \in Frames |-> f = KernelFrame]
    /\ free_page_frame_count = PAGE_FRAME_MAX_COUNT - 1
    /\ page_directory_used = [d \in Directories |-> FALSE]
    /\ page_directory_list = [d \in Directories |-> EmptyDirectory]

-----------------------------------------------------------------------------
(* Definitions named Slip... are mutants: what a slip in the next           *)
(* definition's code would compute.  No specification uses them; they show  *)
(* that the properties can fail.                                            *)

\* The search forgets to test the entry.
SlipFirstFree(used, i) == i \in DOMAIN used /\ \A j \in DOMAIN used : i <= j

\* The linear searches of paging.c: i is the first unused index, or the number
\* of entries when all are used.
FirstFree(used, i) ==
    /\ i \in DOMAIN used => ~used[i]
    /\ \A j \in DOMAIN used : j < i => used[j]

\* Rounded-up division, as in paging_allocate_check and process.c's ceil_div.
ceil_div(a, b) == (a \div b) + (IF a % b > 0 THEN 1 ELSE 0)

SlipAllocateCheck(amount) ==
    free_page_frame_count + 1 >= ceil_div(amount, PAGE_FRAME_SIZE)

\* Are there enough free frames for that many BYTES?
paging_allocate_check(amount) ==
    free_page_frame_count >= ceil_div(amount, PAGE_FRAME_SIZE)

update_page_directory_entry(d, frame, page) ==
    page_directory_list' = [page_directory_list EXCEPT ![d][page] = frame]

\* Maps page of directory d to the first free frame; when no frame is left it
\* returns false and changes nothing.  A search that finds nothing would map the
\* frame past the end: FrameAccounting is what rules that out.
paging_allocate_user_page_frame(d, page) ==
    \/ /\ ~paging_allocate_check(PAGE_FRAME_SIZE)
       /\ UNCHANGED pagingVars
    \/ /\ paging_allocate_check(PAGE_FRAME_SIZE)
       /\ \E i \in 0..PAGE_FRAME_MAX_COUNT :
             /\ FirstFree(page_frame_map, i)
             /\ update_page_directory_entry(d, i, page)
             /\ page_frame_map' = [page_frame_map EXCEPT ![i] = TRUE]
       /\ free_page_frame_count' = free_page_frame_count - 1
       /\ UNCHANGED page_directory_used

\* Without the test of the present bit.
SlipFreeAbsent(d, page) ==
    /\ page_frame_map' =
          [page_frame_map EXCEPT ![page_directory_list[d][page]] = FALSE]
    /\ page_directory_list' = [page_directory_list EXCEPT ![d][page] = NotPresent]
    /\ free_page_frame_count' = free_page_frame_count + 1
    /\ UNCHANGED page_directory_used

\* Clears the entry but not the frame.
SlipFreeEntryOnly(d, page) ==
    /\ page_directory_list' = [page_directory_list EXCEPT ![d][page] = NotPresent]
    /\ UNCHANGED <<page_frame_map, free_page_frame_count, page_directory_used>>

\* Unmaps page of directory d; an absent page is left alone (returns false).
paging_free_user_page_frame(d, page) ==
    \/ /\ page_directory_list[d][page] = NotPresent
       /\ UNCHANGED pagingVars
    \/ /\ page_directory_list[d][page] # NotPresent
       /\ page_frame_map' =
             [page_frame_map EXCEPT ![page_directory_list[d][page]] = FALSE]
       /\ page_directory_list' =
             [page_directory_list EXCEPT ![d][page] = NotPresent]
       /\ free_page_frame_count' = free_page_frame_count + 1
       /\ UNCHANGED page_directory_used

\* Returns the first unused directory d with the kernel mapped into it, or NULL.
\* The other entries are not written: they are what the last owner left there.
paging_create_new_page_directory(d) ==
    /\ FirstFree(page_directory_used, d)
    /\ \/ /\ d = PAGING_DIRECTORY_TABLE_MAX_COUNT
          /\ UNCHANGED pagingVars
       \/ /\ d < PAGING_DIRECTORY_TABLE_MAX_COUNT
          /\ page_directory_used' = [page_directory_used EXCEPT ![d] = TRUE]
          /\ update_page_directory_entry(d, KernelFrame, KernelPage)
          /\ UNCHANGED <<page_frame_map, free_page_frame_count>>

\* Gives directory d back and zeroes it.  Frames it still maps stay taken.
paging_free_page_directory(d) ==
    /\ page_directory_used' = [page_directory_used EXCEPT ![d] = FALSE]
    /\ page_directory_list' =
          [page_directory_list EXCEPT ![d] = EmptyDirectory]
    /\ UNCHANGED <<page_frame_map, free_page_frame_count>>

-----------------------------------------------------------------------------
(* The manager under any client that keeps the rules process.c keeps: map   *)
(* an absent page of a directory it holds, and return a directory only      *)
(* after its user pages.                                                    *)

AllocatePage ==
    \E d \in Directories, p \in UserPages :
        /\ page_directory_used[d]
        /\ page_directory_list[d][p] = NotPresent
        /\ paging_allocate_user_page_frame(d, p)

FreePage ==
    \E d \in Directories, p \in UserPages :
        page_directory_used[d] /\ paging_free_user_page_frame(d, p)

CreateDirectory ==
    \E d \in 0..PAGING_DIRECTORY_TABLE_MAX_COUNT :
        paging_create_new_page_directory(d)

FreeDirectory ==
    \E d \in Directories :
        /\ page_directory_used[d]
        /\ \A p \in UserPages : page_directory_list[d][p] = NotPresent
        /\ paging_free_page_directory(d)

PagingNext == AllocatePage \/ FreePage \/ CreateDirectory \/ FreeDirectory

PagingSpec == PagingInit /\ [][PagingNext]_pagingVars

-----------------------------------------------------------------------------
\* The manager's state has the shape of the C structures.
PagingTypeOK ==
    /\ page_frame_map \in [Frames -> BOOLEAN]
    /\ free_page_frame_count \in Nat
    /\ page_directory_used \in [Directories -> BOOLEAN]
    /\ page_directory_list \in [Directories -> [Pages -> Frames \union {NotPresent}]]

FreeFrames == {f \in Frames : ~page_frame_map[f]}

\* Frame f backs page p of directory d.
Maps(d, p, f) == page_directory_list[d][p] = f

\* The cached count is the number of free frames, so a successful
\* paging_allocate_check means the first-fit search stays inside the map.
FrameAccounting == free_page_frame_count = Cardinality(FreeFrames)

\* Address spaces are disjoint: no frame backs two user pages, whichever
\* directories they belong to, a mapped frame is marked taken, and the kernel's
\* frame backs no user page.
FrameIsolation ==
    /\ page_frame_map[KernelFrame]
    /\ \A d \in Directories, p \in UserPages : ~Maps(d, p, KernelFrame)
    /\ \A d \in Directories, p \in UserPages, f \in Frames :
          Maps(d, p, f) => page_frame_map[f]
    /\ \A d, e \in Directories, p, q \in UserPages, f \in Frames :
          Maps(d, p, f) /\ Maps(e, q, f) => d = e /\ p = q

\* A taken frame is reachable: some directory in use maps it, so it can be
\* given back.
NoFrameLeak ==
    \A f \in Frames \ {KernelFrame} :
        page_frame_map[f] =>
            \E d \in Directories, p \in UserPages :
                page_directory_used[d] /\ Maps(d, p, f)

\* paging_create_new_page_directory writes one entry only, so a directory must
\* be empty when it is not in use, and every directory in use maps the kernel
\* at 0x300: the kernel survives loading it into CR3.
DirectoryHygiene ==
    \A d \in Directories :
        /\ ~page_directory_used[d] => page_directory_list[d] = EmptyDirectory
        /\ page_directory_used[d] => Maps(d, KernelPage, KernelFrame)
=============================================================================
