SPECIFICATION GridSpec
CONSTANTS
  AlwaysOpen = AlwaysOpen
  Intervals = {1, 7, 10, 15, 20, 30, 45, 60, 90}
  OpeningHours <- WeekdayHours
  Instants <- DayInstants
  Clock <- HoursOfDay
INVARIANTS OfferMatchesValidation SlotsDoNotOverlap WholeRangeOrNothing
