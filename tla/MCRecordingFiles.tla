--------------------------- MODULE MCRecordingFiles ---------------------------
(* A recording of up to MaxEvents events and its stop marker, next to an       *)
(* earlier one that has as many of each kind and ends at the same book.        *)
EXTENDS RecordingFiles

MCEarlierEvents == <<"snapshot", "depth", "boundary">>
=============================================================================
