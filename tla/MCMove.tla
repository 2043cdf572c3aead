------------------------------- MODULE MCMove -------------------------------
(***************************************************************************)
(* Small instances of Move: sources and destinations that are bare names,  *)
(* paths, the root and a name that does not exist yet.                     *)
(***************************************************************************)
EXTENDS Move

Relative(parts) == [absolute |-> FALSE, parts |-> parts]
Absolute(parts) == [absolute |-> TRUE, parts |-> parts]

A  == Relative(<<"a">>)
B  == Relative(<<"b">>)
F  == Relative(<<"shell">>)
AF == Relative(<<"a", "shell">>)

MCPaths    == {A, B}
MCCopyArgs == {<<F, A>>}
MCMoveArgs == {<<A, B>>, <<F, A>>, <<AF, Absolute(<<"b">>)>>}
=============================================================================
