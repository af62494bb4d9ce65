\* Four turns of one case, with every fault.
SPECIFICATION Spec
CONSTANTS
  c1 = c1  c2 = c2
  Cases = {c1}
  MaxTurns = 4
  Faults = {"crash", "db", "http", "timeout"}
INVARIANTS TypeOK TurnsInOrder AnswerIsOwn
PROPERTIES ImplementsConversation
CHECK_DEADLOCK FALSE
