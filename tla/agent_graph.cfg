\* Any number of messages; two retries, a question about the type, two searches.
SPECIFICATION FairSpec
CONSTANTS
  MaxIterations = 2
  MaxClarifications = 1
  MaxSearches = 2
INVARIANTS TypeOK LoopsBounded ShortcutIsSafe EditIsEarned EndsWithReply ReplyMatchesDocx
PROPERTIES RequiredFormIsValid EveryRunEnds
