--------------------------- MODULE DeviceDirectory ---------------------------
(***************************************************************************)
(* What the control side of the Windows client promises its user, without  *)
(* threads, lists or indices: a set of listed phones, at most one of which *)
(* is active, and commands that go to the phone they are for.              *)
(***************************************************************************)
CONSTANTS Device, NoDevice

VARIABLES
  listed,  \* the phones the user can choose
  active,  \* the phone whose stream is open, or NoDevice
  last     \* whom the last command was for, and who got it

vars == <<listed, active, last>>

Init ==
  /\ listed = {} /\ active = NoDevice
  /\ last = [for |-> NoDevice, to |-> NoDevice]

Join(d) ==
  /\ d \notin listed /\ listed' = listed \union {d}
  /\ UNCHANGED <<active, last>>

\* A phone that leaves takes its stream along, and nobody else's.
Leave(d) ==
  /\ d \in listed /\ listed' = listed \ {d}
  /\ active' = IF active = d THEN NoDevice ELSE active
  /\ UNCHANGED last

\* Choosing a phone activates it; the one active before is not told.
Select(d) ==
  /\ d \in listed
  /\ active' = d /\ last' = [for |-> d, to |-> d]
  /\ UNCHANGED listed

Command ==
  /\ active # NoDevice
  /\ last' = [for |-> active, to |-> active]
  /\ UNCHANGED <<listed, active>>

StopStream ==
  /\ active' = NoDevice
  /\ UNCHANGED <<listed, last>>

Next ==
  \/ \E d \in Device : Join(d) \/ Leave(d) \/ Select(d)
  \/ Command \/ StopStream

Spec == Init /\ [][Next]_vars
=============================================================================
