SPECIFICATION Spec
CONSTANTS
    Account = {a1, a2}
    Session = {s1, s2}
    GMs = {a2}
    Limits <- LimitOne
    Tolerance = FALSE
    MaxLogins = 0
    NULL = NULL
INVARIANT WorkConservingAsDocumented
