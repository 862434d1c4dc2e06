------------------------------ MODULE MCInjector ------------------------------
(* Constants for TLC: an order in which the reset callbacks may be called. *)
EXTENDS Injector

StopThenPins == <<"time", "stop", "pins">>
=============================================================================
