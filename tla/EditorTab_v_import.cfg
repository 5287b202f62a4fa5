SPECIFICATION TabSpec
CONSTANTS
    Calls = {c1, c2, c3}
    Tables = {t1}
    None = None
INVARIANT AllClearIsShown
