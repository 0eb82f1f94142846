------------------------- MODULE TopOfBookFeatures -------------------------
(***************************************************************************)
(* Which records a top-of-book feature row is made of: offline, when       *)
(* research builds rows of a whole recording, and online, when a replay    *)
(* feeds one record after the other.  A record is its position, from 1;    *)
(* the arithmetic over the records of a window is left out.                *)
(***************************************************************************)
EXTENDS TopOfBookReader, FiniteSets

CONSTANTS MaxHistory,   \* records before the one a row describes
          Horizon       \* records to its label

ASSUME FeatureAssumption == MaxHistory \in Nat /\ Horizon \in Nat \ {0}

\* The longest lag of build_feature_set() and update() is MaxHistory.
Window(i) == (i - MaxHistory) .. i

\* build_feature_set() of one segment; a shorter one is refused, and
\* prepare_feature_data() passes over it.
RowsOfSegment(segment) ==
    IF Cardinality(segment) < MaxHistory + Horizon + 2 THEN {}
    ELSE {i \in segment : Window(i) \subseteq segment /\ i + Horizon \in segment}

\* prepare_feature_data() of one recording.
OfflineRows(times, boundaries, maxGap) ==
    IF RecordsValid(times)
    THEN UNION {RowsOfSegment(s) : s \in Segments(times, boundaries, maxGap)}
    ELSE {}

\* Mutant: only time going back ends the history.
ContinuesPast(times, i, maxGap) == i = 1 \/ times[i] - times[i - 1] >= 0

\* OnlineFeatureBuilder.update() keeps its history.
Continues(times, i, maxGap) == i = 1 \/ times[i] - times[i - 1] \in 0 .. maxGap

\* _history after each record: reset() before the records of resets, and by
\* update() itself where time goes back or leaps.
Histories(times, resets, maxGap) ==
    LET kept[i \in 0 .. Len(times)] ==
            IF i = 0 THEN <<>>
            ELSE LET before == IF i \in resets \/ ~ Continues(times, i, maxGap)
                               THEN <<>> ELSE kept[i - 1]
                     full   == Len(before) = MaxHistory + 1
                 IN Append(IF full THEN Tail(before) ELSE before, i)
    IN kept

\* update() returns a vector, made of these records.
OnlineRows(times, resets, maxGap) ==
    {h \in Range(Histories(times, resets, maxGap)) : Len(h) = MaxHistory + 1}
=============================================================================
