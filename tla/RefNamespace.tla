----------------------------- MODULE RefNamespace -----------------------------
(***************************************************************************)
(* What the REF namespace promises its users (docs/storage-format.md 6 and *)
(* 12): one manifest per REF, changed by four shapes of command and undone *)
(* by exact restoration only.  Repository.tla implements it with one step  *)
(* per command, GuardedWriter.tla with one step per file-system effect.    *)
(***************************************************************************)
CONSTANTS REF, TagName, Seal, None

Tags     == [TagName -> Seal \cup {None}]
NoTags   == [t \in TagName |-> None]
Manifest == [head : Seal, tags : Tags]
State    == Manifest \cup {None}

VARIABLES refs,   \* the manifest of each REF
          undo    \* the changes offered for recovery

vars == <<refs, undo>>

Init == refs \in [REF -> State] /\ undo = {}

-----------------------------------------------------------------------------
At(c, side)        == \A r \in DOMAIN c : refs[r] = c[r][side]
Installed(c, side) == [r \in REF |-> IF r \in DOMAIN c THEN c[r][side] ELSE refs[r]]

(* A change is offered for recovery no later than it takes effect; it may  *)
(* be offered and never happen.  `after' maps the REFs it touches.         *)
Change(after) ==
    LET c == [r \in DOMAIN after |-> [before |-> refs[r], after |-> after[r]]]
    IN  /\ undo' = undo \cup {c}
        /\ refs' \in {refs, Installed(c, "after")}

(* The shapes of recovery.go validateKindShape, each from the state a      *)
(* command finds: the head moves and the tags stay; one free tag is bound; *)
(* a whole manifest is renamed to an absent name; a manifest is dropped.   *)
Publish(r, s) ==
    Change([q \in {r} |-> [head |-> s,
                           tags |-> IF refs[r] = None THEN NoTags ELSE refs[r].tags]])

Bind(r, t, s) ==
    /\ refs[r] # None
    /\ refs[r].tags[t] = None
    /\ Change([q \in {r} |-> [refs[r] EXCEPT !.tags[t] = s]])

Rename(old, new) ==
    /\ old # new
    /\ refs[old] # None
    /\ refs[new] = None
    /\ Change([q \in {old, new} |-> IF q = old THEN None ELSE refs[old]])

Drop(r) ==
    /\ refs[r] # None
    /\ Change([q \in {r} |-> None])

(* Exact restoration: every REF of the change is still as the change left  *)
(* it, and all of them go back in one step.                                *)
Restore(c) ==
    /\ c \in undo
    /\ At(c, "after")
    /\ refs' = Installed(c, "before")
    /\ UNCHANGED undo

Next ==
    \/ \E r \in REF : \/ Drop(r)
                      \/ \E s \in Seal : \/ Publish(r, s)
                                         \/ \E t \in TagName : Bind(r, t, s)
                      \/ \E q \in REF : Rename(r, q)
    \/ \E c \in undo : Restore(c)

Spec == Init /\ [][Next]_vars
=============================================================================
