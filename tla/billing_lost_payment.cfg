\* An admin may edit the catalogue between checkout and the notification.
SPECIFICATION Spec
CONSTANTS
  u1 = u1  u2 = u2  i1 = i1  i2 = i2  i3 = i3  monthly = monthly  yearly = yearly
  Codes = {monthly, yearly}
  Defaults = {monthly, yearly}
  DefaultDuration <- MCDefaultDuration
  Users = {u1}
  Durations = {2}
  Intents = {i1, i2}
  MaxTime = 1
  AutoConfirm = {FALSE}
  Edited = {monthly}
  Faults = FALSE
INVARIANTS AcknowledgedIsApplied
CHECK_DEADLOCK FALSE
