-------------------------- MODULE MCSpscRingBuffer --------------------------
(* A ring of two slots whose indices wrap after four pushes, batches of up  *)
(* to three (more than the ring holds) and three payloads.                  *)
EXTENDS SpscRingBuffer
=============================================================================
