----------------------------- MODULE MCGenerations -----------------------------
(* Instances of Generations for TLC. *)
EXTENDS Generations, TLC

Processes == Permutations(Proc)

One == <<1>>
Two == <<0, 1>>
MCContents == {One, Two}

Source(key, content)      == [key |-> key, content |-> content]
Copied(n, source, start) == [length |-> n, snapshot |-> source, start |-> start]
Typed(n)                 == [length |-> n, snapshot |-> None, start |-> 0]
Map(content, runs)       == [content |-> content, runs |-> runs]

(* A byte of no source and one copied from a source; and what must be     *)
(* refused: a byte that differs, a map too short, runs to be merged.       *)
Copy  == Map(Two, <<Typed(1), Copied(1, Source("k", One), 0)>>)
Wrong == Map(Two, <<Copied(1, Source("k", One), 0), Typed(1)>>)
Short == Map(Two, <<Typed(1)>>)
Split == Map(Two, <<Typed(1), Typed(1)>>)
MCTraces == {Copy, Wrong, Short, Split}
=============================================================================
