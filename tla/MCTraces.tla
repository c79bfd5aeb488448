-------------------------------- MODULE MCTraces --------------------------------
(* Instances of Traces for TLC. *)
EXTENDS Traces

CONSTANTS MaxLength \* bound: bytes of a text

MCTexts == UNION {[1..n -> {0, 1}] : n \in 0..MaxLength}

(* A deletion, two that agree, and two that begin like them; and two of    *)
(* another run, of which one does not fit every text.                      *)
Part(start, length)  == [start |-> start, length |-> length]
Says(run, ranges)    == [run |-> run, ranges |-> ranges]
MCDeclarations == <<Says(Part(0, 2), <<>>), Says(Part(0, 2), <<Part(0, 1)>>), Says(Part(0, 2), <<Part(0, 1)>>),
                    Says(Part(0, 2), <<Part(0, 1), Part(2, 1)>>),
                    Says(Part(1, 2), <<Part(0, 2)>>), Says(Part(1, 2), <<Part(1, 1)>>)>>
=============================================================================
