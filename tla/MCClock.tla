------------------------------ MODULE MCClock ------------------------------
(***************************************************************************)
(* Moments a reading of the clock should survive: the end of a minute, of  *)
(* the hour before noon and before one, of a year and of the last day of   *)
(* February.                                                               *)
(***************************************************************************)
EXTENDS Clock

At(d, mo, y, h, mi, s) ==
    [second |-> s, minute |-> mi, hour |-> h, day |-> d, month |-> mo, year |-> y]

MCStarts == {At(7, 5, 2024, 16, 9, 58), At(30, 4, 2099, 11, 59, 59),
             At(9, 10, 2024, 12, 59, 58), At(31, 12, 2024, 23, 59, 59),
             At(28, 2, 2028, 0, 59, 59)}

MCModes == [bcd : BOOLEAN, twelve : BOOLEAN]
=============================================================================
