SPECIFICATION CommandsSpec
CONSTANTS
  Names <- MCNames
  Slug <- MCSlug
  Key <- MCKey
  MatchTables <- MCMatchTables
  OddsTables <- MCOddsTables
  InitialOf <- MCInitialOf
  Compound <- MCCompound
  RatedSlugs <- MCRatedSlugs
  SlugOf <- MCSlugOf
  Pools <- MCPools
  RateSlugs <- MCRateSlugs
  Careers <- MCCareers
  Bounds <- MCBounds
  GridPoints = 3
  RecentLimit = 2
  Workers = 2
  AlphaRanges <- MCAlphaRanges
  SearchEnv <- MCSearchEnv
  Scores <- MCScores
  Profiles <- MCProfiles
  Defaults <- MCDefaults
  Decay <- MCDecay
INVARIANTS ExitZeroIsComplete OddsAreOfTheMeeting PoolsAgree PreloadedIsAsOf ReportIsReproducible NoLookAhead FormScalesBaseline
PROPERTIES MergeKeepsEntries CommandsEnd
CHECK_DEADLOCK FALSE
