---------------------------- MODULE MCRepository ----------------------------
(* Instances of Repository for TLC: small universes of Seals. *)
EXTENDS Repository, TLC

CONSTANTS a1, a2, b1, b2, x, e, f, m, w, c1, c2, r1, r2, r3, t1, p1, p2

To(t)         == [target |-> t, previous |-> {}]
ToRev(t, p)   == [target |-> t, previous |-> {p}]
RootOf(c)     == [content |-> c, draft |-> FALSE, root |-> TRUE, links |-> {}, review |-> {}]
Over(c, ls)   == [content |-> c, draft |-> FALSE, root |-> FALSE, links |-> ls, review |-> {}]
DraftOn(c, ls)== [content |-> c, draft |-> TRUE, root |-> FALSE, links |-> ls, review |-> {}]

(* Two roots; draft work on a1 (b1); the revision assertion a1 <- a2 (b2,  *)
(* and m beside a plain link) and, by a draft, the opposite one (x); normal*)
(* work on that draft (e); draft work that rests on b2 (f).                *)
(* The review of m on r1 while a2 is the head of r2; w is m with it.       *)
Retain    == [ref |-> r1, subject |-> m, others |-> {<<r2, a2>>},
              compared |-> (a1 :> {a2}) @@ (a2 :> {a2}), retained |-> {a1, a2}]
MCClaim   == IF w \in Seal THEN {Retain} ELSE {}

AllBodies == (a1 :> RootOf(c1)) @@ (a2 :> RootOf(c2))
          @@ (b1 :> DraftOn(c1, {To(a1)}))
          @@ (b2 :> Over(c1, {ToRev(a2, a1)}))
          @@ (m  :> Over(c1, {To(a1), ToRev(a2, a1)}))
          @@ (x  :> DraftOn(c1, {ToRev(a1, a2)}))
          @@ (e  :> Over(c1, {To(x)}))
          @@ (f  :> DraftOn(c1, {To(b2)}))
          @@ (w  :> [Over(c1, {To(a1), ToRev(a2, a1)}) EXCEPT !.review = {Retain}])

MCBody == [s \in Seal |-> AllBodies[s]]
OneRoot == [r \in REF |-> IF r = r1 THEN a1 ELSE None]
TwoRoots == [r \in REF |-> CASE r = r1 -> a1 [] r = r2 -> a2 [] OTHER -> None]
=============================================================================
