------------------------ MODULE MCDepthSynchronizer ------------------------
(***************************************************************************)
(* Instance of DepthSynchronizer: every sequence of calls with exchange    *)
(* ids up to MaxId, a buffer of MaxBuffered events.                        *)
(***************************************************************************)
EXTENDS DepthSynchronizerSpec
=============================================================================
