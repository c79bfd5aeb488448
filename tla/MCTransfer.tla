------------------------------ MODULE MCTransfer ------------------------------
(* Instances of Transfer for TLC. *)
EXTENDS Transfer, TLC

CONSTANTS MaxChanges \* bound: changes of a source while it is captured

(* REFs are alike. *)
Symmetry == Permutations(Ref)

Text(t) == [text |-> t]
MCStray == Text("stray")

Link(t) == [target |-> t, message |-> IF t = 2 THEN "" ELSE "because"]
Old4(content, parent, targets, draft) ==
    [content |-> content, parent |-> parent, links |-> {Link(t) : t \in targets}, draft |-> draft]
Plain(n) == [content : {Text("a"), Text("b")}, parent : {None} \cup 1..(n - 1),
             targets : SUBSET (1..(n - 1)), draft : {FALSE}]
Payloads(n) == {Old4(p.content, p.parent, p.targets, p.draft) : p \in Plain(n)}

(* Every history of three Seals with two contents, the first of one. *)
Distinct(h) == \A i, j \in DOMAIN h : h[i] = h[j] => i = j
Three == {h \in {<<p, q, r>> : p \in {Old4(Text("a"), None, {}, FALSE)}, q \in Payloads(2), r \in Payloads(3)} :
             Distinct(h)}
(* The same with a fourth that links to two or three of them. *)
Observer(targets) == Old4(Text("a"), None, targets, TRUE)
Four  == {Append(h, Observer(targets)) : h \in Three, targets \in {{1, 2}, {1, 3}, {2, 3}, {1, 2, 3}}}
(* Contents that are records themselves, whole or not. *)
First == Old4(Text("a"), None, {}, FALSE)
Copy(content) == <<First, Old4(content, 1, {1}, FALSE)>>
Root        == Provenance(TRUE, FALSE, {})
FirstSeal   == NewSeal(Material(Text("a")), Root)
AbsentSeal  == NewSeal(Material(Text("absent")), Root)
Links(target, previous) ==
    Provenance(FALSE, FALSE, {[target |-> target, previous |-> previous, messages |-> {"because"}]})
Records == {Material(Text("a")), Material(Text("absent")), [seal |-> 1], Root, Provenance(TRUE, TRUE, {}),
            Links(FirstSeal, {}), Links(AbsentSeal, {}), Links(Material(Text("a")), {}),
            Links(FirstSeal, {AbsentSeal}), Links(FirstSeal, {Root}),
            FirstSeal, AbsentSeal, NewSeal(Material(Text("a")), Provenance(TRUE, TRUE, {})),
            NewSeal(Root, Root), NewSeal(Material(Text("a")), Material(Text("a")))}
Copies == {Copy(content) : content \in Records}
(* A content that is a Seal of its own, with links to projected ones; it   *)
(* stands before the Seal it builds on, or after it.                       *)
SecondSeal == NewSeal(Material(Text("b")), Links(FirstSeal, {}))
Guest(links) == <<First, Old4(Text("b"), None, {1}, FALSE), Old4(links, None, {2}, FALSE),
                  Old4(NewSeal(Material(Text("a")), links), None, {3}, FALSE)>>
Guests == {Guest(Links(SecondSeal, {FirstSeal})), Guest(Links(FirstSeal, {SecondSeal}))}

World(h, n, c, e) == [history |-> h, stored |-> n, changes |-> c, edits |-> e]
Line == <<First, Old4(Text("b"), 1, {1}, FALSE)>>

MCWorlds == {World(h, 3, 0, 1) : h \in Three} \cup {World(h, 4, 0, 0) : h \in Four \cup Guests}
                \cup {World(h, 2, 0, 1) : h \in Copies}
                \cup {World(Line, 1, MaxChanges, 0), World(Line, 2, 0, 3)}
=============================================================================
