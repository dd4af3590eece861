------------------------------ MODULE MCSlotGrid ------------------------------
(* SlotGrid on one whole day: intervals that divide the hour and intervals *)
(* that do not, weekdays that are closed, open once or twice, on and off   *)
(* the hour.                                                               *)
EXTENDS SlotGrid

DayInstants == 0 .. 1439
HoursOfDay == {0, 8 * 60, 12 * 60 + 15, 22 * 60}
WeekdayHours ==
  LET range(o, c) == [open |-> o, close |-> c]
  IN {AlwaysOpen, {}, {range(9 * 60, 17 * 60)}, {range(9 * 60 + 10, 17 * 60)},
      {range(9 * 60 + 30, 14 * 60 + 20), range(19 * 60, 23 * 60 + 30)},
      {range(12 * 60, 15 * 60), range(14 * 60, 16 * 60)},
      {range(20 * 60, 19 * 60)}}
===============================================================================
