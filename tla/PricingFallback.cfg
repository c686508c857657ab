SPECIFICATION Spec
CONSTANTS
    m = m
    f = f
    p = p
    q = q
    Ids <- MCIds
    Aliases <- MCOneAlias
    TargetOf <- MCTargetOne
    Shadowed <- MCShadowed
    Prices = {p, q}
    Zero = Zero
    ImageRate = ImageRate
    Absent = Absent
    Down = Down
    LiteAnswers <- MCLiteAnswers
    DevAnswers <- MCDevAnswers
    NoRow = NoRow
    NoAlias = NoAlias
    FirstAliases <- MCFirstAliases
    Open = Open
    Idle = Idle
    MaxUpsets = 2
INVARIANT UnpricedStaysUnpriced
