------------------------- MODULE MCIngestionEngine -------------------------
(***************************************************************************)
(* Instances of IngestionEngine.                                           *)
(***************************************************************************)
EXTENDS IngestionEngine

\* Files that end well, inside the queue's capacity or beyond it, and files
\* with a record that read_record() or the loop refuses (a file that cannot be
\* opened fails like one whose first record is invalid).
MCFiles == { <<"invalid">>, <<"good">>, <<"good", "good", "good">>,
             <<"good", "invalid">>, <<"good", "good", "disordered">> }
=============================================================================
