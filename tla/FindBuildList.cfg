SPECIFICATION Spec
CONSTANTS
    Coordinates <- MCCoordinates
    GoMods <- MCGoMods
    Prunings <- MCPrunings
    RootMods <- MCRootMods
INVARIANT SelectsBuildList

