------------------------------ MODULE MCStream ------------------------------
(* Stream on a small instance.  Block and Room are one number in the code; a *)
(* smaller Block cuts the same bytes into more blocks, and lets counts be    *)
(* larger than it.  Bytes that are neither CR nor LF end what could become a *)
(* blank line no sooner than a second CR or LF does, and are left out.       *)
EXTENDS Stream
=============================================================================
