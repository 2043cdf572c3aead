------------------------------ MODULE FileStore ------------------------------
(***************************************************************************)
(* What the FAT32 driver promises its callers: a tree of named files and   *)
(* folders that changes by whole items.  The promises are those of         *)
(* src/src/header/filesystem/fat32.h: write adds one file or folder under  *)
(* a name not yet taken in that folder, Delete removes one file or one     *)
(* empty folder, and nothing else changes anything.                        *)
(*                                                                         *)
(* An item is a record [folder, name, ext, kind, id, data]: the folder it  *)
(* is listed in, its name, "file" or "folder", the handle by which callers *)
(* address it as a folder, and a file's data.                              *)
(***************************************************************************)
CONSTANT Root       \* the handle of the root folder

VARIABLE items

FolderIds == {Root} \union {f.id : f \in {g \in items : g.kind = "folder"}}

Init == items = {}

SameKey(f, g) ==
    f.folder = g.folder /\ f.name = g.name /\ f.ext = g.ext /\ f.kind = g.kind

\* write: item f appears in an existing folder, under a name that is free.
Write ==
    \E f \in items' \ items :
        /\ items' = items \union {f}
        /\ f.folder \in FolderIds
        /\ \A g \in items : ~SameKey(f, g) /\ f.id # g.id
        /\ f.id # Root

\* Delete: item f disappears; a folder must be empty.
Delete ==
    \E f \in items :
        /\ items' = items \ {f}
        /\ \A g \in items : f.kind = "folder" => g.folder # f.id

Next == Write \/ Delete

Spec == Init /\ [][Next]_items
=============================================================================
