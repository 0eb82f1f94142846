------------------------ MODULE MCTopOfBookRecorder ------------------------
(* Two recordings by one engine, five arrivals and one connection: the      *)
(* queue of two overflows while the writer holds a batch of two, and a      *)
(* record the first recording leaves in the queue would meet the second.    *)
EXTENDS RecordedEvidence
=============================================================================
