\* Three turns of one case under fairness, with every fault but those of the database.
SPECIFICATION FairSpec
CONSTANTS
  c1 = c1  c2 = c2
  Cases = {c1}
  MaxTurns = 3
  Faults = {"crash", "http", "timeout"}
PROPERTIES EveryTurnAnswered
CHECK_DEADLOCK FALSE
