-------------------------- MODULE ExchangeMirror --------------------------
(***************************************************************************)
(* What a synchronized Level-2 book promises to whoever reads it: while it *)
(* is shown as live it holds exactly what the exchange did up to some      *)
(* moment, and that moment only moves forward until continuity is given up *)
(* explicitly.                                                             *)
(***************************************************************************)
EXTENDS Naturals

VARIABLE view    \* [live : whether the book may be used, ids : its content]

Dark == [live |-> FALSE, ids |-> {}]

\* The first n changes of the exchange, for some n.
Prefix(ids) == \A i \in ids : i > 0 /\ 1 .. i \subseteq ids

Init == view = Dark

Synchronize == /\ ~ view.live
               /\ view'.live
               /\ Prefix(view'.ids)

Follow == /\ view.live
          /\ view'.live
          /\ Prefix(view'.ids)
          /\ view.ids \subseteq view'.ids

Lose == view' = Dark

Next == Synchronize \/ Follow \/ Lose

Spec == Init /\ [][Next]_view
=============================================================================
