---------------------------- MODULE L2OrderBook ----------------------------
(***************************************************************************)
(* The Python reference book of market_data/l2_order_book.py, as far as    *)
(* sequencing is concerned.  An exchange numbers every change of its book, *)
(* so the content of a local book is abstracted to the set of exchange     *)
(* update ids whose effect it holds.  The book that agrees with the        *)
(* exchange at id n is the one holding exactly 1..n: a missing or a foreign *)
(* id is a level that differs.  A level carries an absolute quantity, so   *)
(* applying a change twice is harmless and applying an old one is not      *)
(* undone by lowering the id.                                              *)
(***************************************************************************)
EXTENDS Naturals

CONSTANT Unsound    \* ids after which validate() rejects the book
                    \* (one side empty, or bid at or above ask)

ASSUME UnsoundAssumption == Unsound \subseteq Nat

\* A depth update covers an inclusive range of exchange update ids.
Update(first, final) == [first |-> first, final |-> final]

DepthUpdate == {e \in [first : Nat \ {0}, final : Nat \ {0}] :
                  e.first <= e.final}

Book == [ids : SUBSET Nat, last : Nat]

\* clear()
ClearedBook == [ids |-> {}, last |-> 0]

\* install_snapshot(): both sides are replaced, never merged.
SnapshotBook(s) == [ids |-> 1 .. s, last |-> s]

\* apply(): the levels of the update are set and the id moves to its end,
\* before validate() looks at the result.
Applied(b, e) == [ids |-> b.ids \cup (e.first .. e.final), last |-> e.final]

\* validate() raises on this book.
Rejected(b) == b.last \in Unsound

\* The book equals the exchange's own book at the id it claims.
Exact(b) == b.ids = 1 .. b.last
=============================================================================
