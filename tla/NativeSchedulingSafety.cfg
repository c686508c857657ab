SPECIFICATION Spec
CONSTANTS
    Requests = {r1, r2}
    Scopes = {s1}
    Providers = {p1, p2}
    p1 = p1
    p2 = p2
    Unbound = Unbound
    Routes <- MCRoutes
    Auths <- MCAuths
    Offers <- MCOffers
    ProviderOf <- MCProviderOf
    Priority <- MCPriority
    Settings <- MCSettings
    Capacity = 1
    MaxChanges = 1
SYMMETRY Symmetry
INVARIANT PickAuthorized
INVARIANT NeverDelegated
INVARIANT CursorsAreLive
PROPERTY FairRotation
