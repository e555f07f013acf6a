SPECIFICATION Spec
CONSTANTS
    Literals = {a, b}
    Parameters = {x, y}
    Dynamic = Dynamic
    NoMask = NoMask
    MaxLength = 2
    MaxRoutes = 3
    MaxBodyLogSize = 1
    MaxPieces = 2
    MaxReceives = 3
    MaxLoggedRoutes = 1
INVARIANTS MaskMatches ResolvesPreferred ExchangeUndisturbed
