SPECIFICATION FairSpec
CONSTANTS
  Keys = {k1}
  MaxWrites = 3
  Deletes = {2}
  MaxPending = 2
  MaxTroubles = 2
INVARIANTS
  TypeOK PipelineHeadsQueue AnswersMatchPipeline NoWriteLost CallbacksTellTheTruth
  LastWriteWins StreamAssertionsHold CacheIsServerState ListShowsDocuments
  NothingIsStuck SettledListIsServers
PROPERTIES ImplementsSharedCollection WritesSettle ListConverges
CHECK_DEADLOCK FALSE
