\* Two sessions, two rows, three codes, two names.
SPECIFICATION Spec
CONSTANTS
    c1 = c1
    c2 = c2
    c3 = c3
    n1 = n1
    n2 = n2
    s1 = s1
    s2 = s2
    s3 = s3
    Null = Null
    Sessions = {s1, s2}
    Codes = {c1, c2, c3}
    Names = {n1, n2}
    MaxRows = 2
    Updates <- MCUpdates
SYMMETRY Symmetry
INVARIANTS
    TypeOK
    KeysUnique
PROPERTIES
    NoClobber
    FreshUpdateApplies
