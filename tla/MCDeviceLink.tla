---------------------------- MODULE MCDeviceLink ----------------------------
(* Instances of DeviceLink for TLC. *)
EXTENDS DeviceLink

Case(f, c, x, u, h) == [faults |-> f, changes |-> c, exits |-> x, user |-> u, chat |-> h]
MCBounds == {Case(1, 1, 0, 0, 0), Case(0, 3, 0, 0, 0), Case(0, 2, 0, 1, 0), Case(0, 1, 1, 0, 0), Case(0, 0, 1, 1, 1)}
=============================================================================
