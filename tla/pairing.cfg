\* Two threads; one code, two tokens to issue and one of an older build.
SPECIFICATION Spec
SYMMETRY ThreadSymmetry
CONSTANTS
    t1 = t1  t2 = t2  d1 = d1  d2 = d2  x1 = x1  x2 = x2  x3 = x3
    Thread = {t1, t2}
    Code = {c1}
    Token = {x1, x2, x3}
    Desktop = {d1, d2}
    Nothing = Nothing
    Legacy = {x1}
    LegacyDesktop = d1
    Lifetime = 1
    MaxTime = 2
    MaxCrashes = 1
INVARIANTS TypeOK MintedInTime RevokedIsGone
PROPERTIES ImplementsCredentials IssuedIsAccepted AdmittedRightly
