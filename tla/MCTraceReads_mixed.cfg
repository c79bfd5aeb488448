SPECIFICATION ReadsSpec
CONSTANTS
    k1 = k1  k2 = k2  p1 = p1  p2 = p2  t1 = t1  t2 = t2
    v1 = v1  v2 = v2  v3 = v3  s1 = s1  s2 = s2  s3 = s3  o1 = o1  o2 = o2
    Key = {k1, k2}
    Path = {p1, p2}
    Text = {t1, t2}
    Version = {v1, v2, v3}
    Seal = {s1, s2, s3}
    Origin = {o1, o2}
    None = None
    Unreadable = Unreadable
    Base <- MCBase
    SealOf <- MCSealOf
    Initial <- MCInitial
    Trace <- MCTrace
    External <- MCExternal
    RunKey <- MCRunKey
    Occurrence <- MCOccurrence
    Listing <- MCListing
    Below <- MCBelow
    Limit = 1
    MaxChanges = 1
INVARIANT DigestIsOfContent
CHECK_DEADLOCK FALSE
