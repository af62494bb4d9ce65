\* Each part on an instance of its own; see the table of bounds in README.md.
SPECIFICATION RetrieverSpec
CONSTANTS
  k1 = k1  k2 = k2  law = law  gk = gk  kf = kf  gkrf = gkrf  None = None  Empty = Empty
  p1 = p1  p2 = p2  p3 = p3  p4 = p4  p5 = p5  s1 = s1  s2 = s2  s3 = s3  s4 = s4
  ca = ca  cb = cb  cc = cc  cd = cd  cx = cx  cy = cy  cz = cz  ra = ra  rb = rb  rx = rx
  qa = qa  qb = qb  qc = qc
  Articles <- MCArticles
  Roots <- MCRoots
  MAX_CHUNK_CHARS = 8
  ChunkLimits = {0, 2}
  Texts <- MCTexts
  EMBED_MAX_CHARS = 9
  EMBED_MAX_COUNT = 3
  Infos <- MCInfos
  Tables <- MCTables
  Passages <- MCPassages
  Uploads = {k1, gk}
  ArticleNumbers = {1, 2}
  CivilAliases = {gkrf}
  CivilCode = gkrf
  CodeSources = {k1, gk}
  NameOf <- MCNameOf
  Nowhere = None
  NotLoaded = Empty
  MemorySize = 1
  MaxChanges = 1
  Primal = {p1, p2, p3, p4, p5}
  Secondary = {s1, s2, s3, s4}
  ChunkOf <- MCChunkOf
  NoId = {cc}
  Cites <- MCCites
  Matches <- MCMatches
  CapOf <- MCCapOf
  Queries = {qa, qb, qc}
  NoQuery = None
  TargetArticles = 2
  MaxQueries = 2
  TopK = 2
  ExpandedTopK = 3
  MaxItems = 2
  SecondaryTopK = 1
  CandidateTopK = 3
  PrimaryTopK = 2
  MaxHops = 2
  HopCap = 2
  BatchSize = 2
  AssistQueries = 2
INVARIANTS ChunksCover PiecesFit ReferencesResolve NormsTraceable
CHECK_DEADLOCK FALSE
