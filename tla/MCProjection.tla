---------------------------- MODULE MCProjection ----------------------------
(* Projection with two publishers racing over two values.                  *)
EXTENDS Projection
=============================================================================
