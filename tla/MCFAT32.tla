------------------------------ MODULE MCFAT32 -------------------------------
(***************************************************************************)
(* Small instances of FAT32Store.  The driver compares names and copies    *)
(* contents, and looks into neither, so they are interchangeable.          *)
(***************************************************************************)
EXTENDS FAT32Store, TLC

Interchangeable == Permutations(Names) \union Permutations(Contents)
=============================================================================
