------------------------------ MODULE MCFibers ------------------------------
(* Fibers on a small instance: the main fiber and two more.                  *)
EXTENDS Fibers
=============================================================================
