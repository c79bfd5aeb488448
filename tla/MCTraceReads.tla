----------------------------- MODULE MCTraceReads -----------------------------
(* Instances of TraceReads for TLC. *)
EXTENDS TraceReads, TLC

CONSTANTS k1, k2, p1, p2, t1, t2, v1, v2, v3, s1, s2, s3, o1, o2

(* Two first Candidates, of different Origins, and one of the next         *)
(* revision, without an Origin.                                            *)
MCBase   == [v \in Version |-> IF v = v3 THEN s1 ELSE None]
MCSealOf == (v1 :> s1) @@ (v2 :> s2) @@ (v3 :> s3)
MCTrace  == (v1 :> o1) @@ (s1 :> o1) @@ (v2 :> o2) @@ (s2 :> o2) @@ (v3 :> None) @@ (s3 :> None)
MCBelow  == (s1 :> {s1}) @@ (s2 :> {s2}) @@ (s3 :> {s1, s3})

World0(c, h, b, f) == [cand |-> c, head |-> h, bind |-> b, file |-> f]
OneBound  == (k1 :> p1) @@ (k2 :> None)
BothBound == (k1 :> p1) @@ (k2 :> p2)
Same      == (p1 :> t1) @@ (p2 :> t1)
OneUnread == (p1 :> Unreadable) @@ (p2 :> t1)
MCInitial == {World0(v1, None, OneBound, Same), World0(None, s1, OneBound, Same), World0(v3, s1, OneBound, Same),
              World0(v2, None, BothBound, OneUnread), World0(None, s2, BothBound, Same)}

MCExternal == (o1 :> {k1}) @@ (o2 :> {k1, k2})
MCRunKey   == (o1 :> k1) @@ (o2 :> k2)

MCOccurrence  == {"snapshot", "current"} \X (1..2)
Hits(view, n) == [i \in 1..n |-> <<view, i>>]
MCListing ==
    (o1 :> ((t1 :> Hits("snapshot", 1) \o Hits("current", 1)) @@ (t2 :> Hits("snapshot", 1))))
    @@ (o2 :> ((t1 :> Hits("snapshot", 2)) @@ (t2 :> Hits("snapshot", 2) \o Hits("current", 2))))
=============================================================================
