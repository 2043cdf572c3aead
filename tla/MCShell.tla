------------------------------ MODULE MCShell ------------------------------
(***************************************************************************)
(* Small instances of Shell: the paths its users type.  They go up and     *)
(* down, start at the root or not, and meet the one file on the disk.      *)
(***************************************************************************)
EXTENDS Shell

Relative(parts) == [absolute |-> FALSE, parts |-> parts]
Absolute(parts) == [absolute |-> TRUE, parts |-> parts]

MCPaths == {Relative(<<".", "a">>), Relative(<<"..">>), Relative(<<"..", "shell">>),
            Relative(<<"..", "..", "shell">>), Absolute(<<"a", "b">>)}
=============================================================================
