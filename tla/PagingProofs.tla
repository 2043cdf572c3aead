---------------------------- MODULE PagingProofs ----------------------------
(***************************************************************************)
(* The page-frame manager keeps its books for every number of frames,      *)
(* directories and pages.  PagingInv is inductive: isolation needs "mapped *)
(* frames are taken" to survive an allocation, that needs unused           *)
(* directories to be empty, and the first-fit search stays inside the map  *)
(* because the cached count is exact.                                      *)
(***************************************************************************)
EXTENDS Paging, FiniteSetTheorems, TLAPS

PagingInv == /\ PagingTypeOK
             /\ FrameAccounting
             /\ FrameIsolation
             /\ NoFrameLeak
             /\ DirectoryHygiene

\* The free frames are a finite set, with a natural number of elements.
LEMMA FreeFramesFinite ==
    IsFiniteSet(FreeFrames) /\ Cardinality(FreeFrames) \in Nat
<1>1. IsFiniteSet(Frames)
  BY FS_Interval, PagingAssumption DEF Frames
<1>2. FreeFrames \subseteq Frames
  BY DEF FreeFrames
<1> QED
  BY <1>1, <1>2, FS_Subset, FS_CardinalityType

\* paging_allocate_check asks for one frame when given up to a frame of bytes.
LEMMA CheckOneFrame ==
    ASSUME PagingTypeOK, NEW n \in 1..PAGE_FRAME_SIZE
    PROVE  paging_allocate_check(n) <=> free_page_frame_count >= 1
<1>1. CASE n = PAGE_FRAME_SIZE
  <2>1. PAGE_FRAME_SIZE \div PAGE_FRAME_SIZE = 1 /\ PAGE_FRAME_SIZE % PAGE_FRAME_SIZE = 0
    BY PagingAssumption, <1>1, Z3
  <2> QED
    BY <2>1, <1>1 DEF paging_allocate_check, ceil_div
<1>2. CASE n < PAGE_FRAME_SIZE
  <2>1. n \div PAGE_FRAME_SIZE = 0 /\ n % PAGE_FRAME_SIZE = n
    BY PagingAssumption, <1>2, Z3
  <2> QED
    BY <2>1, <1>2 DEF paging_allocate_check, ceil_div
<1> QED
  BY <1>1, <1>2, PagingAssumption

\* With an exact count, a frame is free exactly when the count is positive.
LEMMA PositiveCountMeansFree ==
    ASSUME PagingTypeOK, FrameAccounting, free_page_frame_count >= 1
    PROVE  \E f \in Frames : ~page_frame_map[f]
<1>1. FreeFrames # {}
  BY FS_EmptySet DEF FrameAccounting
<1> QED
  BY <1>1 DEF FreeFrames

\* First fit: with a positive exact count the search of
\* paging_allocate_user_page_frame ends on a free frame inside the map.
LEMMA FirstFitInside ==
    ASSUME PagingTypeOK, FrameAccounting, free_page_frame_count >= 1,
           NEW i \in 0..PAGE_FRAME_MAX_COUNT, FirstFree(page_frame_map, i)
    PROVE  i \in Frames /\ ~page_frame_map[i]
<1>1. PICK f \in Frames : ~page_frame_map[f]
  BY PositiveCountMeansFree
<1>2. DOMAIN page_frame_map = Frames
  BY DEF PagingTypeOK
<1>3. ~(f < i)
  BY <1>1, <1>2 DEF FirstFree
<1>4. i \in Frames
  BY <1>1, <1>3, PagingAssumption DEF Frames
<1> QED
  BY <1>2, <1>4 DEF FirstFree

-----------------------------------------------------------------------------
\* The statically initialised state satisfies the invariant.
LEMMA PagingInitInv == PagingInit => PagingInv
<1> SUFFICES ASSUME PagingInit PROVE PagingInv
  OBVIOUS
<1> USE DEF PagingInit
<1>1. PagingTypeOK
  BY PagingAssumption DEF PagingTypeOK, Frames, Pages, EmptyDirectory, NotPresent
<1>0. \A f \in Frames : page_frame_map[f] <=> f = KernelFrame
  BY Zenon
<1>2. FrameAccounting
  <2>0. FreeFrames = Frames \ {KernelFrame}
    BY <1>0 DEF FreeFrames
  <2>1. FreeFrames = 1..(PAGE_FRAME_MAX_COUNT - 1)
    BY <2>0, PagingAssumption DEF Frames, KernelFrame
  <2>2. Cardinality(1..(PAGE_FRAME_MAX_COUNT - 1)) = PAGE_FRAME_MAX_COUNT - 1
    BY FS_Interval, PagingAssumption
  <2> QED
    BY <2>1, <2>2 DEF FrameAccounting
<1>3. FrameIsolation
  <2>1. \A d \in Directories, p \in UserPages, f \in Frames : ~Maps(d, p, f)
    BY DEF Maps, EmptyDirectory, Frames, Pages, NotPresent
  <2>2. KernelFrame \in Frames
    BY PagingAssumption DEF KernelFrame, Frames
  <2> QED
    BY <1>0, <2>1, <2>2 DEF FrameIsolation
<1>4. NoFrameLeak
  BY <1>0 DEF NoFrameLeak
<1>5. DirectoryHygiene
  BY DEF DirectoryHygiene
<1> QED
  BY <1>1, <1>2, <1>3, <1>4, <1>5 DEF PagingInv

\* Mapping an absent page of a directory in use keeps the books.
LEMMA AllocateInv ==
    ASSUME PagingInv, NEW d \in Directories, NEW p \in UserPages,
           page_directory_used[d], page_directory_list[d][p] = NotPresent,
           paging_allocate_user_page_frame(d, p)
    PROVE  PagingInv'
<1> USE DEF PagingInv
<1>0. PAGE_FRAME_SIZE \in 1..PAGE_FRAME_SIZE
  BY PagingAssumption
<1>1. CASE UNCHANGED pagingVars
  BY <1>1 DEF pagingVars, PagingTypeOK, FrameAccounting, FrameIsolation, NoFrameLeak,
              DirectoryHygiene, FreeFrames, Maps
<1>2. CASE ~UNCHANGED pagingVars
  <2>1. /\ paging_allocate_check(PAGE_FRAME_SIZE)
        /\ free_page_frame_count' = free_page_frame_count - 1
        /\ page_directory_used' = page_directory_used
    BY <1>2 DEF paging_allocate_user_page_frame
  <2>2. free_page_frame_count >= 1
    BY <1>0, <2>1, CheckOneFrame
  <2>3. PICK i \in 0..PAGE_FRAME_MAX_COUNT :
           /\ FirstFree(page_frame_map, i)
           /\ page_directory_list' = [page_directory_list EXCEPT ![d][p] = i]
           /\ page_frame_map' = [page_frame_map EXCEPT ![i] = TRUE]
    BY <1>2 DEF paging_allocate_user_page_frame, update_page_directory_entry
  <2>4. i \in Frames /\ ~page_frame_map[i]
    BY <2>2, <2>3, FirstFitInside
  <2>5. i # KernelFrame
    BY <2>4 DEF FrameIsolation
  <2>6. PagingTypeOK'
    <3>1. page_frame_map' \in [Frames -> BOOLEAN]
      BY <2>3 DEF PagingTypeOK
    <3>2. page_directory_list' \in [Directories -> [Pages -> Frames \union {NotPresent}]]
      BY <2>3, <2>4 DEF PagingTypeOK
    <3>3. free_page_frame_count' \in Nat
      BY <2>1, <2>2 DEF PagingTypeOK
    <3> QED
      BY <3>1, <3>2, <3>3, <2>1 DEF PagingTypeOK
  <2>7. FrameAccounting'
    <3>1. FreeFrames' = FreeFrames \ {i} /\ i \in FreeFrames
      BY <2>3, <2>4 DEF PagingTypeOK, FreeFrames
    <3>2. Cardinality(FreeFrames \ {i}) = Cardinality(FreeFrames) - 1
      BY <3>1, FreeFramesFinite, FS_RemoveElement
    <3> QED
      BY <2>1, <3>1, <3>2 DEF FrameAccounting
  <2>8. p \in Pages /\ p # KernelPage
    BY PagingAssumption DEF Pages, UserPages, KernelPage
  <2>9. \A e \in Directories, q \in Pages :
           page_directory_list'[e][q] = IF e = d /\ q = p THEN i
                                        ELSE page_directory_list[e][q]
    BY <2>3, <2>8 DEF PagingTypeOK
  <2>10. \A f \in Frames : page_frame_map'[f] = (f = i \/ page_frame_map[f])
    BY <2>3, <2>4 DEF PagingTypeOK
  <2>11. UserPages \subseteq Pages
    BY DEF Pages
  <2>12. FrameIsolation'
    <3>0. KernelFrame \in Frames
      BY PagingAssumption DEF KernelFrame, Frames
    <3>1. KernelFrame \in Frames /\ page_frame_map'[KernelFrame]
      BY <3>0, <2>10 DEF FrameIsolation
    <3>2. \A e \in Directories, q \in UserPages, f \in Frames :
             Maps(e, q, f)' <=> IF e = d /\ q = p THEN f = i ELSE Maps(e, q, f)
      BY <2>9, <2>11 DEF Maps
    <3>3. \A e \in Directories, q \in UserPages : ~Maps(e, q, i)
      BY <2>4 DEF FrameIsolation
    <3>4. \A e \in Directories, q \in UserPages, f \in Frames :
             Maps(e, q, f)' => page_frame_map'[f]
      BY <3>2, <2>10 DEF FrameIsolation
    <3>5. \A e \in Directories, q \in UserPages : ~Maps(e, q, KernelFrame)'
      BY <3>1, <3>2, <2>5 DEF FrameIsolation
    <3>6. \A e, h \in Directories, q, r \in UserPages, f \in Frames :
             Maps(e, q, f)' /\ Maps(h, r, f)' => e = h /\ q = r
      BY <3>2, <3>3 DEF FrameIsolation
    <3> QED
      BY <3>1, <3>4, <3>5, <3>6 DEF FrameIsolation
  <2>13. NoFrameLeak'
    <3> SUFFICES ASSUME NEW f \in Frames \ {KernelFrame}, page_frame_map'[f]
                 PROVE  \E e \in Directories, q \in UserPages :
                           page_directory_used'[e] /\ Maps(e, q, f)'
      BY DEF NoFrameLeak
    <3>1. CASE f = i
      BY <3>1, <2>1, <2>9, <2>11 DEF Maps
    <3>2. CASE f # i
      <4>1. PICK e \in Directories, q \in UserPages :
               page_directory_used[e] /\ Maps(e, q, f)
        BY <3>2, <2>10 DEF NoFrameLeak
      <4>2. ~(e = d /\ q = p)
        BY <4>1 DEF Maps, NotPresent, Frames
      <4> QED
        BY <4>1, <4>2, <2>1, <2>9, <2>11 DEF Maps
    <3> QED
      BY <3>1, <3>2
  <2>14. DirectoryHygiene'
    <3>1. \A e \in Directories : e # d => page_directory_list'[e] = page_directory_list[e]
      BY <2>3 DEF PagingTypeOK
    <3> QED
      BY <3>1, <2>1, <2>8, <2>9 DEF DirectoryHygiene, Maps, Pages, EmptyDirectory
  <2> QED
    BY <2>6, <2>7, <2>12, <2>13, <2>14
<1> QED
  BY <1>1, <1>2

\* Unmapping a page of a directory in use keeps the books.
LEMMA FreeInv ==
    ASSUME PagingInv, NEW d \in Directories, NEW p \in UserPages,
           page_directory_used[d], paging_free_user_page_frame(d, p)
    PROVE  PagingInv'
<1> USE DEF PagingInv
<1>1. CASE UNCHANGED pagingVars
  BY <1>1 DEF pagingVars, PagingTypeOK, FrameAccounting, FrameIsolation, NoFrameLeak,
              DirectoryHygiene, FreeFrames, Maps
<1>2. CASE ~UNCHANGED pagingVars
  <2> DEFINE g == page_directory_list[d][p]
  <2>1. /\ g # NotPresent
        /\ page_frame_map' = [page_frame_map EXCEPT ![g] = FALSE]
        /\ page_directory_list' = [page_directory_list EXCEPT ![d][p] = NotPresent]
        /\ free_page_frame_count' = free_page_frame_count + 1
        /\ page_directory_used' = page_directory_used
    BY <1>2 DEF paging_free_user_page_frame
  <2>2. p \in Pages /\ p # KernelPage /\ UserPages \subseteq Pages
    BY PagingAssumption DEF Pages, UserPages, KernelPage
  <2>3. g \in Frames /\ page_frame_map[g] /\ g # KernelFrame
    BY <2>1, <2>2 DEF PagingTypeOK, FrameIsolation, Maps
  <2>4. PagingTypeOK'
    BY <2>1, <2>2 DEF PagingTypeOK
  <2>5. FrameAccounting'
    <3>1. FreeFrames' = FreeFrames \union {g} /\ g \notin FreeFrames
      BY <2>1, <2>3 DEF PagingTypeOK, FreeFrames
    <3>2. Cardinality(FreeFrames \union {g}) = Cardinality(FreeFrames) + 1
      BY <3>1, FreeFramesFinite, FS_AddElement
    <3> QED
      BY <2>1, <3>1, <3>2 DEF FrameAccounting
  <2>6. \A e \in Directories, q \in Pages :
           page_directory_list'[e][q] = IF e = d /\ q = p THEN NotPresent
                                        ELSE page_directory_list[e][q]
    BY <2>1, <2>2 DEF PagingTypeOK
  <2>7. \A f \in Frames : page_frame_map'[f] = (f # g /\ page_frame_map[f])
    BY <2>1, <2>3 DEF PagingTypeOK
  <2>8. NotPresent \notin Frames /\ KernelFrame \in Frames
    BY PagingAssumption DEF NotPresent, Frames, KernelFrame
  <2>9. FrameIsolation'
    <3>1. \A e \in Directories, q \in UserPages, f \in Frames :
             Maps(e, q, f)' => Maps(e, q, f) /\ f # g
      BY <2>2, <2>3, <2>6, <2>8 DEF Maps, FrameIsolation
    <3>2. page_frame_map'[KernelFrame]
      BY <2>3, <2>7, <2>8 DEF FrameIsolation
    <3>3. \A e \in Directories, q \in UserPages, f \in Frames :
             Maps(e, q, f)' => page_frame_map'[f]
      BY ZenonT(40), <3>1, <2>7 DEF FrameIsolation
    <3>4. \A e, h \in Directories, q, r \in UserPages, f \in Frames :
             Maps(e, q, f)' /\ Maps(h, r, f)' => e = h /\ q = r
      BY <3>1 DEF FrameIsolation
    <3>5. \A e \in Directories, q \in UserPages : ~Maps(e, q, KernelFrame)'
      BY <3>1, <2>8 DEF FrameIsolation
    <3> QED
      BY <3>2, <3>3, <3>4, <3>5 DEF FrameIsolation
  <2>10. NoFrameLeak'
    <3> SUFFICES ASSUME NEW f \in Frames \ {KernelFrame}, page_frame_map'[f]
                 PROVE  \E e \in Directories, q \in UserPages :
                           page_directory_used'[e] /\ Maps(e, q, f)'
      BY DEF NoFrameLeak
    <3>1. PICK e \in Directories, q \in UserPages :
             page_directory_used[e] /\ Maps(e, q, f)
      BY <2>7 DEF NoFrameLeak
    <3>2. ~(e = d /\ q = p)
      BY <3>1, <2>7 DEF Maps
    <3> QED
      BY <3>1, <3>2, <2>1, <2>2, <2>6 DEF Maps
  <2>11. DirectoryHygiene'
    <3>1. \A e \in Directories : e # d => page_directory_list'[e] = page_directory_list[e]
      BY <2>1 DEF PagingTypeOK
    <3> QED
      BY <3>1, <2>1, <2>2, <2>6 DEF DirectoryHygiene, Maps, Pages
  <2> QED
    BY <2>4, <2>5, <2>9, <2>10, <2>11
<1> QED
  BY <1>1, <1>2

\* Taking a directory keeps the books.
LEMMA CreateDirectoryInv ==
    ASSUME PagingInv, NEW d \in 0..PAGING_DIRECTORY_TABLE_MAX_COUNT,
           paging_create_new_page_directory(d)
    PROVE  PagingInv'
<1> USE DEF PagingInv
<1>1. CASE UNCHANGED pagingVars
  BY <1>1 DEF pagingVars, PagingTypeOK, FrameAccounting, FrameIsolation, NoFrameLeak,
              DirectoryHygiene, FreeFrames, Maps
<1>2. CASE ~UNCHANGED pagingVars
  <2>1. /\ d \in Directories
        /\ page_directory_used' = [page_directory_used EXCEPT ![d] = TRUE]
        /\ page_directory_list' = [page_directory_list EXCEPT ![d][KernelPage] = KernelFrame]
        /\ page_frame_map' = page_frame_map
        /\ free_page_frame_count' = free_page_frame_count
    BY <1>2, PagingAssumption
       DEF paging_create_new_page_directory, update_page_directory_entry, Directories
  <2>2. KernelPage \in Pages /\ KernelPage \notin UserPages /\ UserPages \subseteq Pages
        /\ KernelFrame \in Frames
    BY PagingAssumption DEF Pages, UserPages, KernelPage, KernelFrame, Frames
  <2>3. \A e \in Directories, q \in Pages :
           page_directory_list'[e][q] = IF e = d /\ q = KernelPage THEN KernelFrame
                                        ELSE page_directory_list[e][q]
    BY <2>1, <2>2 DEF PagingTypeOK
  <2>4. \A e \in Directories, q \in UserPages, f \in Frames :
           Maps(e, q, f)' <=> Maps(e, q, f)
    BY <2>2, <2>3 DEF Maps
  <2>5. PagingTypeOK'
    BY <2>1, <2>2 DEF PagingTypeOK
  <2>6. FrameAccounting'
    BY <2>1 DEF FrameAccounting, FreeFrames
  <2>7. FrameIsolation'
    BY <2>1, <2>2, <2>4 DEF FrameIsolation
  <2>8. NoFrameLeak'
    <3> SUFFICES ASSUME NEW f \in Frames \ {KernelFrame}, page_frame_map'[f]
                 PROVE  \E e \in Directories, q \in UserPages :
                           page_directory_used'[e] /\ Maps(e, q, f)'
      BY DEF NoFrameLeak
    <3>1. PICK e \in Directories, q \in UserPages :
             page_directory_used[e] /\ Maps(e, q, f)
      BY <2>1 DEF NoFrameLeak
    <3>2. page_directory_used'[e]
      BY <3>1, <2>1 DEF PagingTypeOK
    <3> QED
      BY <3>1, <3>2, <2>4
  <2>9. DirectoryHygiene'
    <3>1. \A e \in Directories : e # d => page_directory_list'[e] = page_directory_list[e]
      BY <2>1 DEF PagingTypeOK
    <3>2. \A e \in Directories :
             page_directory_used'[e] = IF e = d THEN TRUE ELSE page_directory_used[e]
      BY <2>1 DEF PagingTypeOK
    <3> QED
      BY <3>1, <3>2, <2>2, <2>3 DEF DirectoryHygiene, Maps
  <2> QED
    BY <2>5, <2>6, <2>7, <2>8, <2>9
<1> QED
  BY <1>1, <1>2

\* Returning a directory without user pages keeps the books.
LEMMA FreeDirectoryInv ==
    ASSUME PagingInv, NEW d \in Directories, page_directory_used[d],
           \A p \in UserPages : page_directory_list[d][p] = NotPresent,
           paging_free_page_directory(d)
    PROVE  PagingInv'
<1> USE DEF PagingInv
<1>1. /\ page_directory_used' = [page_directory_used EXCEPT ![d] = FALSE]
      /\ page_directory_list' = [page_directory_list EXCEPT ![d] = EmptyDirectory]
      /\ page_frame_map' = page_frame_map
      /\ free_page_frame_count' = free_page_frame_count
  BY DEF paging_free_page_directory
<1>2. UserPages \subseteq Pages /\ NotPresent \notin Frames
  BY DEF Pages, NotPresent, Frames
<1>3. \A e \in Directories, q \in UserPages, f \in Frames :
         Maps(e, q, f)' <=> Maps(e, q, f)
  BY <1>1, <1>2 DEF Maps, PagingTypeOK, EmptyDirectory
<1>4. PagingTypeOK'
  BY <1>1 DEF PagingTypeOK, EmptyDirectory
<1>5. FrameAccounting'
  BY <1>1 DEF FrameAccounting, FreeFrames
<1>6. KernelFrame \in Frames
  BY PagingAssumption DEF KernelFrame, Frames
<1>7. FrameIsolation'
  BY <1>1, <1>3, <1>6 DEF FrameIsolation
<1>8. NoFrameLeak'
  <2> SUFFICES ASSUME NEW f \in Frames \ {KernelFrame}, page_frame_map'[f]
               PROVE  \E e \in Directories, q \in UserPages :
                         page_directory_used'[e] /\ Maps(e, q, f)'
    BY DEF NoFrameLeak
  <2>1. PICK e \in Directories, q \in UserPages :
           page_directory_used[e] /\ Maps(e, q, f)
    BY <1>1 DEF NoFrameLeak
  <2>2. e # d
    BY <2>1, <1>2 DEF Maps
  <2>3. page_directory_used'[e]
    BY <2>1, <2>2, <1>1 DEF PagingTypeOK
  <2> QED
    BY <2>1, <2>3, <1>3
<1>9. DirectoryHygiene'
  <2>1. \A e \in Directories : page_directory_list'[e] =
           IF e = d THEN EmptyDirectory ELSE page_directory_list[e]
    BY <1>1 DEF PagingTypeOK
  <2>2. \A e \in Directories :
           page_directory_used'[e] = IF e = d THEN FALSE ELSE page_directory_used[e]
    BY <1>1 DEF PagingTypeOK
  <2> QED
    BY <2>1, <2>2 DEF DirectoryHygiene, Maps
<1> QED
  BY <1>4, <1>5, <1>7, <1>8, <1>9

-----------------------------------------------------------------------------
\* Every operation of paging.c, called by the rules process.c keeps, preserves
\* the invariant.
LEMMA PagingNextInv == PagingInv /\ [PagingNext]_pagingVars => PagingInv'
<1> SUFFICES ASSUME PagingInv, [PagingNext]_pagingVars PROVE PagingInv'
  OBVIOUS
<1>1. CASE AllocatePage
  BY <1>1, AllocateInv DEF AllocatePage
<1>2. CASE FreePage
  BY <1>2, FreeInv DEF FreePage
<1>3. CASE CreateDirectory
  BY <1>3, CreateDirectoryInv DEF CreateDirectory
<1>4. CASE FreeDirectory
  BY <1>4, FreeDirectoryInv DEF FreeDirectory
<1>5. CASE UNCHANGED pagingVars
  BY <1>5 DEF PagingInv, pagingVars, PagingTypeOK, FrameAccounting, FrameIsolation,
              NoFrameLeak, DirectoryHygiene, FreeFrames, Maps
<1> QED
  BY <1>1, <1>2, <1>3, <1>4, <1>5 DEF PagingNext

\* The whole invariant, for any number of frames, directories and pages.
THEOREM PagingCorrect == PagingSpec => []PagingInv
<1> QED
  BY PagingInitInv, PagingNextInv, PTL DEF PagingSpec

\* paging.c keeps its state well-typed.
THEOREM PagingTypeCorrect == PagingSpec => []PagingTypeOK
<1>1. PagingInv => PagingTypeOK
  BY DEF PagingInv
<1> QED
  BY <1>1, PagingCorrect, PTL

\* free_page_frame_count never drifts from page_frame_map.
THEOREM FrameAccountingHolds == PagingSpec => []FrameAccounting
<1>1. PagingInv => FrameAccounting
  BY DEF PagingInv
<1> QED
  BY <1>1, PagingCorrect, PTL

\* No two address spaces share a frame and none contains the kernel's.
THEOREM FrameIsolationHolds == PagingSpec => []FrameIsolation
<1>1. PagingInv => FrameIsolation
  BY DEF PagingInv
<1> QED
  BY <1>1, PagingCorrect, PTL

\* A frame that was taken can be given back: paging_free_user_page_frame reaches
\* it through a directory in use.
THEOREM NoFrameLeakHolds == PagingSpec => []NoFrameLeak
<1>1. PagingInv => NoFrameLeak
  BY DEF PagingInv
<1> QED
  BY <1>1, PagingCorrect, PTL

\* A directory that paging_create_new_page_directory hands out brings no mapping
\* of its last owner, and every one in use maps the kernel.
THEOREM DirectoryHygieneHolds == PagingSpec => []DirectoryHygiene
<1>1. PagingInv => DirectoryHygiene
  BY DEF PagingInv
<1> QED
  BY <1>1, PagingCorrect, PTL
=============================================================================
