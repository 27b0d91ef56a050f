SPECIFICATION FairSpec
CONSTANTS
    alice = alice
    bob = bob
    Clients <- MCClients
    Requests <- MCRequests
    Workers = {w1, w2}
    Coordinates <- MCCoordinates
    Packages <- MCPackages
    Project <- MCProject
    Resolve <- MCResolve
    Requires <- MCRequires
    MaxAttempts = 2
    MaxFaults = 1
    None = None
INVARIANT IdempotentSubmit
INVARIANT TablesMatchExpansion
INVARIANT AuditCoversGraph
PROPERTY AuditSettles
