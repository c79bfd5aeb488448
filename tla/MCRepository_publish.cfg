CONSTANTS
    a1 = a1  a2 = a2  b1 = b1  b2 = b2  x = x  e = e  f = f  m = m  w = w
    c1 = c1  c2 = c2  r1 = r1  r2 = r2  r3 = r3
    t1 = t1  p1 = p1  p2 = p2
    Seal = {a1, a2, b2, x, e, f, m, w}
    Content = {c1, c2}
    Claim <- MCClaim
    Body <- MCBody
    REF = {r1, r2}
    TagName = {}
    Path = {}
    None = None
    InitialHead <- TwoRoots
    Stops = {4}
    MaxOps = 2
SPECIFICATION Spec
INVARIANTS DraftClosed StaleHasFrontier StaleIsComplete
PROPERTIES OnlyRecoverCloses FreshAtPublication
