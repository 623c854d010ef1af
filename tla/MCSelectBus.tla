---------------------------- MODULE MCSelectBus ----------------------------
(* A transmitter three bytes deep and more messages than fit in it. *)
EXTENDS SelectBus
=============================================================================
