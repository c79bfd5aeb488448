------------------------------ MODULE MCInspection ------------------------------
(* Instances of Inspection for TLC: three revisions of one work (1, 2, 3),  *)
(* work on it (4), work on both (5) and work on that (6).                   *)
EXTENDS Inspection, TLC

To(t, ps) == [target |-> t, previous |-> ps]

OnA  == {{To(1, {})}, {To(2, {1})}, {To(1, {}), To(2, {})}}
OnB  == {{To(3, {2})}, {To(3, {1, 2})}, {To(3, {1}), To(4, {})}, {To(2, {1}), To(4, {})},
         {To(2, {}), To(4, {}), To(1, {})}, {To(4, {1})}, {To(3, {2}), To(1, {})}}
OnC  == {{To(5, {}), To(4, {})}, {To(5, {4})}, {To(5, {4}), To(3, {2, 1})}, {To(4, {}), To(3, {2})},
         {To(5, {}), To(2, {}), To(1, {})}, {To(1, {}), To(5, {})}, {To(1, {2})}}
MCStored   == {[s \in 1..3 |-> {}] @@ (4 :> a) @@ (5 :> b) @@ (6 :> c) : a \in OnA, b \in OnB, c \in OnC}
(* A function from REFs 1, 2 ... to heads; in two of them REFs share one.   *)
MCHeadMaps == {<<6>>, <<6, 5>>, <<3, 6>>, <<5, 4>>, <<6, 3, 4>>, <<4, 5, 6>>, <<6, 6>>, <<5, 4, 5>>}
=============================================================================
