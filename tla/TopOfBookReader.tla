-------------------------- MODULE TopOfBookReader --------------------------
(***************************************************************************)
(* What recording/top_of_book.py accepts, and where it cuts a recording    *)
(* into segments.  A recording is three files: records, update ids, and    *)
(* the sidecar; any of the last two may be missing.  A creation time is    *)
(* the recording's number.                                                 *)
(***************************************************************************)
EXTENDS Integers, Sequences, SequencesExt

CONSTANT NoFile

\* What a file may hold: numbers of records, the last one cut or the header too
\* short if it is torn; or the sidecar's fields, with the kinds of boundaries
\* the recorder writes.
RecordFiles == [id : Nat, list : Seq(Nat), torn : BOOLEAN]
Sidecars == [id : Nat, clean : BOOLEAN, complete : BOOLEAN,
             counts : [accepted : Nat, recorded : Nat, dropped : Nat, errors : Nat],
             ids : [first : Nat, last : Nat],
             boundaries : Seq([index : Nat,
                              kind : {"connection_start", "recording_queue_drop"}])]

ASSUME AbsenceAssumption == NoFile \notin RecordFiles \cup Sidecars

\* _read_sidecar(): boundary entries outside the recording are refused, equal
\* ones are one.
BoundariesOf(f) == IF f.sidecar = NoFile THEN {} ELSE Range(f.sidecar.boundaries)

BoundariesRefused(f) ==
    \E b \in BoundariesOf(f) : b.index \notin 0 .. Len(f.records.list)

\* _read_update_id_metadata(): a sidecar of this format names an update-id
\* file, and without a sidecar one of the conventional name is looked for.
UpdateIdsRefused(f) ==
    \/ f.sidecar # NoFile /\ f.ids = NoFile
    \/ f.ids # NoFile /\ \/ f.ids.torn \/ f.ids.id # f.records.id
                         \/ Len(f.ids.list) # Len(f.records.list)
                         \/ f.sidecar # NoFile
                            /\ f.sidecar.counts.recorded # Len(f.ids.list)

SidecarRefused(f) ==
    LET s == f.sidecar
        n == Len(f.records.list)
    IN \/ s.id # f.records.id
       \/ s.counts.recorded # n \/ s.counts.recorded > s.counts.accepted
       \/ s.ids.first # 0 /\ s.ids.last # 0 /\ s.ids.first > s.ids.last
       \/ s.complete /\ ~ /\ s.clean
                          /\ s.counts.dropped = 0 /\ s.counts.errors = 0
                          /\ s.counts.accepted = n

\* read_metadata(): an exception, data_complete, or "legacy" where the files
\* cannot tell (data_complete is None).
Verdict(f) ==
    IF \/ f.records = NoFile \/ f.records.torn
       \/ BoundariesRefused(f) \/ UpdateIdsRefused(f)
    THEN "refused"
    ELSE IF f.sidecar = NoFile
         THEN IF f.ids = NoFile THEN "legacy" ELSE "incomplete"
    ELSE IF SidecarRefused(f) THEN "refused"
    ELSE IF f.sidecar.complete THEN "complete" ELSE "incomplete"

\* validate_update_ids() passes: positive and increasing, from the sidecar's
\* first to its last.
UpdateIdsValid(list, sidecar) ==
    list # <<>> =>
        /\ \A i \in DOMAIN list : list[i] > 0 /\ (i > 1 => list[i - 1] < list[i])
        /\ sidecar.ids.first \in {0, list[1]}
        /\ sidecar.ids.last \in {0, Last(list)}

\* validate_records() passes; prices are left out.
RecordsValid(times) ==
    \A i \in DOMAIN times : times[i] > 0 /\ (i > 1 => times[i - 1] <= times[i])

\* Mutant: a drop of the recorder does not cut.
EndsHistoryAtConnections(b) == b.kind = "connection_start"

\* The boundaries at which rolling history must not continue.
EndsHistory(b) == b.kind \in {"connection_start", "recording_queue_drop"}

\* contiguous_slices(): cut at boundaries and where time goes back or leaps.
\* A segment is the range of its record positions, from 1.
CutPoints(times, boundaries, maxGap) ==
    {0, Len(times)} \cup {b.index : b \in {c \in boundaries : EndsHistory(c)}}
    \cup {i \in 1 .. Len(times) - 1 : times[i + 1] - times[i] \notin 0 .. maxGap}

Segments(times, boundaries, maxGap) ==
    LET cuts == CutPoints(times, boundaries, maxGap) \cap (0 .. Len(times))
    IN {(p[1] + 1) .. p[2] : p \in {q \in cuts \X cuts :
            q[1] < q[2] /\ \A c \in cuts : c \notin (q[1] + 1) .. (q[2] - 1)}}

\* feature_reset_indices(): the positions that begin a new online history.
FeatureResets(boundaries) ==
    {b.index + 1 : b \in {c \in boundaries : EndsHistory(c) /\ c.index > 0}}
=============================================================================
