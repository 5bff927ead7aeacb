---------------------------- MODULE MCEventLoop ----------------------------
(* EventLoop on a small instance, where an Int32 has four values, so that a  *)
(* delay of 3 is already too long for select.                                *)
EXTENDS EventLoop
=============================================================================
