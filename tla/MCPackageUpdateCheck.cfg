SPECIFICATION FairSpec
CONSTANTS
    Releases <- MCReleases
    ParseVersion <- MCParseVersion
    NewVersion <- MCNewVersion
    InfoVersion <- MCInfoVersion
    Inputs <- MCInputs
    Rank <- MCRank
    MarkerResult <- EvaluateMarker
    MaxAttempts = 2
    MaxChanges = 1
INVARIANT VersionsInPEP440Order
INVARIANT SpecifierLaws
INVARIANT ResolvedIsBest
INVARIANT StalenessIsTrue
INVARIANT MarkerFollowsGrammar
PROPERTY CheckEnds
