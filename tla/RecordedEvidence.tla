-------------------------- MODULE RecordedEvidence --------------------------
(***************************************************************************)
(* The recorder and the readers of its files: TopOfBookRecorder writes     *)
(* what TopOfBookReader is given and TopOfBookFeatures makes rows of.      *)
(***************************************************************************)
EXTENDS TopOfBookRecorder, TopOfBookFeatures

\* The JSON that write_metadata_sidecar_noexcept() writes; stop() has set
\* clean_shutdown before.
SidecarFile ==
    IF ~ sidecar.published THEN NoFile
    ELSE [id |-> past.sessions, clean |-> TRUE, complete |-> sidecar.complete,
          counts |-> sidecar.counts, ids |-> sidecar.ids,
          boundaries |-> sidecar.boundaries]

\* The two streams, each as it was left, and the sidecar.
Files == [records |-> [id |-> past.sessions, list |-> file, torn |-> "records" \in torn],
          ids     |-> [id |-> past.sessions, list |-> idFile, torn |-> "ids" \in torn],
          sidecar |-> SidecarFile]

\* The instants the records of the file may carry: steady, except that one
\* of them may come after a silence longer than the permitted gap.
Gap == 1
Instants == {[i \in DOMAIN file |-> IF i < late THEN i ELSE i + Gap] :
                 late \in 1 .. Len(file) + 1}

-----------------------------------------------------------------------------
(* Correctness *)

\* After stop() the reader says of the files what the recorder says, whichever
\* stream failed where: complete exactly if the sidecar claims it; without a
\* sidecar never complete and never legacy, but incomplete if both streams hold
\* as much, and refused if not.  With one it refuses only after a write error
\* or when the writer ended before the queue was empty, although the writer
\* counts ahead of the feed; and a complete one holds every record the feed
\* offered in this session, in order, each with its own id in the second file,
\* which passes validate_update_ids().
ReaderAgrees ==
    control = "stopped" /\ past.sessions > 0 =>
        IF ~ sidecar.published
        THEN Verdict(Files) = IF torn = {} /\ Len(idFile) = Len(file)
                              THEN "incomplete" ELSE "refused"
        ELSE /\ sidecar.complete <=> Verdict(Files) = "complete"
             /\ sidecar.complete =>
                  /\ UpdateIdsValid(idFile, SidecarFile) /\ idFile = file
                  /\ file = [i \in 1 .. past.arrived - past.base |-> past.base + i]
             /\ Verdict(Files) = "refused" =>
                  sidecar.counts.errors = 1
                  \/ sidecar.counts.recorded < sidecar.counts.accepted

\* However the writer lags, the segments research builds features in hold
\* consecutive arrivals of this very recording: no loss lies inside one.
SegmentsHoldNoGap ==
    \A times \in Instants :
        \A s \in Segments(times, Range(markers), Gap) : \A i \in s :
          /\ past.base < file[i]
          /\ i + 1 \in s => file[i + 1] = file[i] + 1

\* The model meets in a replay the rows it was trained on: for the recording
\* of every interleaving, the history a replay holds at the record of an
\* offline row is the window of that row, and a vector is emitted nowhere but
\* inside one segment.
OnlineMatchesOffline ==
    control = "stopped" /\ sidecar.published =>
        LET boundaries == Range(sidecar.boundaries)
        IN \A times \in Instants :
             LET segments == Segments(times, boundaries, Gap)
                 windows  == OnlineRows(times, FeatureResets(boundaries), Gap)
             IN /\ \A i \in OfflineRows(times, boundaries, Gap) :
                     \E w \in windows : Last(w) = i /\ Range(w) = Window(i)
                /\ \A w \in windows : \E s \in segments : Range(w) \subseteq s
=============================================================================
