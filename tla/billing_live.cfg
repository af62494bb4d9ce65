\* A process that stays up over a catalogue nobody edits: whoever pays is served.
SPECIFICATION FairSpec
CONSTANTS
  u1 = u1  u2 = u2  i1 = i1  i2 = i2  i3 = i3  monthly = monthly  yearly = yearly
  Codes = {monthly, yearly}
  Defaults = {monthly, yearly}
  DefaultDuration <- MCDefaultDuration
  Users = {u1, u2}
  Durations = {2}
  Intents = {i1, i2}
  MaxTime = 1
  AutoConfirm = {TRUE, FALSE}
  Edited = {}
  Faults = FALSE
INVARIANTS AcknowledgedIsApplied
PROPERTIES PaidIsApplied
CHECK_DEADLOCK FALSE
