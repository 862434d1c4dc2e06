-------------------------------- MODULE MCPump --------------------------------
(* Constants for TLC: the services, the interrupt modes of the AVR and of the *)
(* ESP8266 cores, and the calls loop() makes itself.                          *)
EXTENDS Pump

MCServices == {"mdns", "wifi", "http", "ntp"}
MCRising == {"RISING"}
MCEdgeModes == {"CHANGE", "RISING", "FALLING"}
MCAllModes == MCEdgeModes \cup {"ONLOW", "ONHIGH"}
MCDirectCalls == {"check", "trigger"}
=============================================================================
