\* Two first uses of a token of an older build.
SPECIFICATION Spec

CONSTANTS
    t1 = t1  t2 = t2  d1 = d1  d2 = d2  x1 = x1  x2 = x2  x3 = x3
    Thread = {t1, t2}
    Code = {}
    Token = {x1}
    Desktop = {d1, d2}
    Nothing = Nothing
    Legacy = {x1}
    LegacyDesktop = d1
    Lifetime = 1
    MaxTime = 0
    MaxCrashes = 1

PROPERTY LegacyIsAccepted
