\* Three payments over a catalogue under edit, with restarts and failing transactions.
SPECIFICATION Spec
CONSTANTS
  u1 = u1  u2 = u2  i1 = i1  i2 = i2  i3 = i3  monthly = monthly  yearly = yearly
  Codes = {monthly, yearly}
  Defaults = {monthly, yearly}
  DefaultDuration <- MCDefaultDuration
  Users = {u1}
  Durations = {2}
  Intents = {i1, i2, i3}
  MaxTime = 2
  AutoConfirm = {TRUE, FALSE}
  Edited = {monthly}
  Faults = TRUE
SYMMETRY Symmetry
INVARIANTS TypeOK PaidTimeTiles PaidTimeConserved CreditedOnlyIfPaid
  HandlerViewHolds SubscribedPlanExists
PROPERTIES PaidPeriodKept ImplementsLedger
CHECK_DEADLOCK FALSE
