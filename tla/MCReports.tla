------------------------------- MODULE MCReports -------------------------------
(***************************************************************************)
(* Reports for TLC.  Two orders of different totals.  A year has 20 ticks; *)
(* orders are created on and beside the boundaries of hours, days and      *)
(* months of two years.  Explicit windows are whole, cut off at the end,   *)
(* cut off at the start by an hour, half an hour or days, empty, reversed. *)
(***************************************************************************)
EXTENDS Reports

MCTotals == [o \in OrderIds |-> IF o = CHOOSE q \in OrderIds : TRUE THEN 1 ELSE 3]

MCInstants == {0, 1, 3, 4, 11, 12, 19, 25}

MCWindows == {<<0, 20>>, <<0, 40>>, <<4, 13>>, <<12, 19>>,
              <<2, 20>>, <<1, 20>>, <<11, 40>>, <<8, 33>>, <<4, 4>>, <<12, 4>>}
===============================================================================
