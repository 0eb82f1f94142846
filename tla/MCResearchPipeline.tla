------------------------- MODULE MCResearchPipeline -------------------------
(* Up to four sessions of up to four rows, and one market of four sessions *)
(* whose trainings are followed to the end.                                *)
EXTENDS ResearchPipeline

Sizes == 1 .. 4
MCFollowed == {<<2, 2, 2, 2>>}
\* Long enough for the split by events, in one, two and three sessions.
Long == {<<15>>, <<20>>, <<7, 8>>, <<6, 14>>, <<1, 19>>, <<1, 1, 18>>}
MCMarkets == UNION {[1 .. n -> Sizes] : n \in 1 .. 4} \cup Long
MCSelections == {{1, 2, 3}, {1, 2, 3, 4}}
=============================================================================
