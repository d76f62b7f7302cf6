------------------------------ MODULE MCDaemon ------------------------------
(* The instances of Daemon that TLC checks: one device of each type. *)
EXTENDS Daemon

MCTypeOf == [d \in Devices |-> CASE d = 1 -> "serial"
                                [] d = 2 -> "network"
                                [] d = 3 -> "usb"]
=============================================================================
