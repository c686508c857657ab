SPECIFICATION Spec
CONSTANTS
    Picks = {p1, p2, p3}
    Auths = {x1, x2}
    Groups = {g1}
    Capacity = 1
    MaxChanges = 3
SYMMETRY Symmetry
INVARIANTS
    StaleOnlyByRace
