------------------------------- MODULE SlotGrid -------------------------------
(***************************************************************************)
(* Which instants a customer is offered and which are accepted             *)
(* (orders.service.ts getAvailableSlots, generateSlotTimes and             *)
(* validateScheduledFor).  The two are computed differently: the offer     *)
(* counts in steps of the interval from each opening time, the validation  *)
(* takes the minute of the hour modulo the interval.                       *)
(*                                                                         *)
(* Time is a minute of one day in the organization's time zone; a day      *)
(* with a change of the clock is not modelled.  An instant with seconds is *)
(* neither offered nor accepted and is left out.                           *)
(***************************************************************************)
EXTENDS Integers

CONSTANTS Intervals,     \* values of orderSchedulingIntervalMinutes
          OpeningHours,  \* sets of ranges of one weekday, or AlwaysOpen
          AlwaysOpen,    \* openingHours = null
          Instants,      \* the minutes of the day that are looked at
          Clock          \* the minutes at which the clock is read

ASSUME SlotGridAssumption ==
  /\ Intervals \subseteq Nat \ {0}
  /\ Instants \subseteq 0 .. 1439 /\ Clock \subseteq Nat
  /\ \A hours \in OpeningHours \ {AlwaysOpen} : \A r \in hours :
       r.open \in Nat /\ r.close \in Nat /\ r.close < 1440

VARIABLES intervalMinutes,  \* organization-ms: the interval
          openingHours,     \* organization-ms: the ranges of the weekday
          now               \* the clock of the service

gridVars == <<intervalMinutes, openingHours, now>>

GridInit ==
  /\ intervalMinutes \in Intervals
  /\ openingHours \in OpeningHours
  /\ now \in Clock

-------------------------------------------------------------------------------
EndOfDay == 23 * 60 + 59
Ranges == IF openingHours = AlwaysOpen THEN {[open |-> 0, close |-> EndOfDay]}
          ELSE openingHours

\* generateSlotTimes: cursor = open; while cursor < close; cursor += interval.
ThroughClose(r) == {t \in Instants : r.open <= t /\ t <= r.close
                                     /\ (t - r.open) % intervalMinutes = 0}
generateSlotTimes(r) == {t \in Instants : r.open <= t /\ t < r.close
                                          /\ (t - r.open) % intervalMinutes = 0}

\* getAvailableSlots: the future slots of all ranges.
OfferedSlots == {t \in UNION {generateSlotTimes(r) : r \in Ranges} : t > now}

\* The two checks of validateScheduledFor beside the future.
AlignsToDefault(t) == (t % 60) % 15 = 0
AlignsToInterval(t) == (t % 60) % intervalMinutes = 0
WithinHoursExclusive(t) ==
  openingHours = AlwaysOpen \/ \E r \in openingHours : r.open < t /\ t < r.close
WithinHours(t) ==
  openingHours = AlwaysOpen \/ \E r \in openingHours : r.open <= t /\ t < r.close

validateScheduledFor(t) == t > now /\ AlignsToInterval(t) /\ WithinHours(t)
Bookable == {t \in Instants : validateScheduledFor(t)}

-------------------------------------------------------------------------------
\* A manager edits the organization; time passes.
EditOrganization ==
  /\ intervalMinutes' \in Intervals
  /\ openingHours' \in OpeningHours
  /\ UNCHANGED now

Tick ==
  /\ now' \in {t \in Clock : t > now}
  /\ UNCHANGED <<intervalMinutes, openingHours>>

GridNext == EditOrganization \/ Tick

GridSpec == GridInit /\ [][GridNext]_gridVars

-------------------------------------------------------------------------------
\* The interval divides the hour and the ranges open on a slot boundary.
Regular ==
  /\ 60 % intervalMinutes = 0
  /\ \A r \in Ranges : r.open % intervalMinutes = 0

(***************************************************************************)
(* Under a regular configuration the offer and the validation agree: what  *)
(* is offered is accepted, and what is accepted was offered.  The one      *)
(* exception is the last minute of the day, which an organization without  *)
(* opening hours and with a one-minute interval accepts and never offers.  *)
(***************************************************************************)
OfferMatchesValidation ==
  Regular => /\ OfferedSlots \subseteq Bookable
             /\ Bookable \ OfferedSlots \subseteq
                  IF openingHours = AlwaysOpen THEN {EndOfDay} ELSE {}

(***************************************************************************)
(* If the interval divides the hour, two accepted instants are at least an *)
(* interval apart, so that no two slots with a capacity each cover the     *)
(* same minutes of the kitchen.                                            *)
(***************************************************************************)
SlotsDoNotOverlap ==
  60 % intervalMinutes = 0 =>
    \A t \in Bookable : \A d \in 1 .. intervalMinutes - 1 : t + d \notin Bookable

(***************************************************************************)
(* If the interval divides the hour, a range of opening hours is offered   *)
(* whole or in vain: of the future slots generateSlotTimes makes from it,  *)
(* validateScheduledFor accepts all or refuses all.  Whether the range     *)
(* opens on a boundary decides which.  So an organization that opens at ten*)
(* past sees it at its first slot, and not at some slot of the day.        *)
(***************************************************************************)
FutureSlots(r) == {t \in generateSlotTimes(r) : t > now}

WholeRangeOrNothing ==
  60 % intervalMinutes = 0 => \A r \in Ranges :
    IF r.open % intervalMinutes = 0 THEN FutureSlots(r) \subseteq Bookable
                                    ELSE FutureSlots(r) \cap Bookable = {}
================================================================================
