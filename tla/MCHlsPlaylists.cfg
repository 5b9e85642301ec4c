CONSTANTS
    Max = 3
    Uuids = {u1, u2, u3}
    a = a
    b = b
    Uris = {a, b}
    Tables <- MCTables
    Long = {a}
    None = None
    Master = Master
    Sessions = {s1, s2}
    MaxPlays = 3
SPECIFICATION Spec
SYMMETRY NamesAreAlike
CHECK_DEADLOCK FALSE
INVARIANTS
    LibraryIsTrue
PROPERTIES
    PlaysWhatIsThere
    IsLibrary
