-------------------------- MODULE CapturedFeatures --------------------------
(* The recordings an L2 capture publishes, and the rows research makes of  *)
(* them.                                                                   *)
EXTENDS L2Capture, L2Features

\* One stretch of the stream: no boundary and no second snapshot.
Uninterrupted(events, first, last) ==
    \A i \in first .. last : events[i].kind \in {"depth", "trade"}

\* However connections, overflows and snapshots interleave, and whether the
\* recording is complete or not, research reads it without meeting a gap: the
\* book behind every observation is the exchange's, and its whole history,
\* the observations beside it in its segment, and so the label of every row,
\* lie in one stretch of the stream.
RowsAreContinuous ==
    \A s \in Symbols : pc = "done" /\ cap[s].file.phase = "published" =>
        LET events == cap[s].events
            rows   == Build(events).rows IN
        /\ \A n \in 0 .. Len(events) : LET b == BuildLoop(events)[n] IN
              /\ b.ok
              /\ \A k \in DOMAIN b.segment :
                    /\ Exact(b.segment[k].book)
                    /\ \A i \in b.segment[k].events : Uninterrupted(events, i, n)
        /\ \A k \in DOMAIN rows :
              LET row == rows[k]
              IN /\ row.now.at < row.future.at
                 /\ \A i \in row.now.events :
                       Uninterrupted(events, i, row.future.at)
=============================================================================
