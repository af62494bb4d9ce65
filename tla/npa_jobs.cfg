\* Two uploads of one file and two jobs, with every fault.
SPECIFICATION FairSpec
CONSTANTS
  n1 = n1  n2 = n2  law = law  j1 = j1  j2 = j2  primal = primal  general = general
  Rows = {n1, n2}
  Names = {law}
  Name <- MCName
  Size <- MCSize
  Groups = {primal}
  Jobs = {j1, j2}
  Nobody = Nobody
  Faults = {"crash", "db", "storage", "vectors"}
INVARIANTS TypeOK IndexingHasOwner RunningIsShown ReplacedIsExact
PROPERTIES EveryJobEnds
CHECK_DEADLOCK FALSE
