CONSTANTS
    a1 = a1  a2 = a2  b1 = b1  b2 = b2  x = x  e = e  f = f  m = m  w = w
    c1 = c1  c2 = c2  r1 = r1  r2 = r2  r3 = r3
    t1 = t1  p1 = p1  p2 = p2
    Seal = {a1, b1}
    Content = {c1, c2}
    Claim <- MCClaim
    Body <- MCBody
    REF = {r1, r2}
    TagName = {t1}
    Path = {p1, p2}
    None = None
    InitialHead <- OneRoot
    Stops = {0, 1, 2, 3, 4}
    MaxOps = 2
SPECIFICATION Spec
INVARIANTS Resolvable
PROPERTIES NamespaceSpec OnlyRecoverStrands
