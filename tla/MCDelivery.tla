----------------------------- MODULE MCDelivery -----------------------------
(* Delivery with one lead and two calls.  Liveness is checked, so the calls *)
(* are not declared symmetric.                                              *)
EXTENDS Delivery, TLC
=============================================================================
