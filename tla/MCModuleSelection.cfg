SPECIFICATION FairSpec
CONSTANTS
    Coordinates <- MCCoordinates
    GoMods <- MCGoMods
    Prunings <- MCPrunings
    RootMods <- MCRootMods
INVARIANTS NeverAboveMVS SelectionClosed ExactOnSimpleGraphs EdgesExplainModules
PROPERTIES RoundsOnlyRise SelectReturns
