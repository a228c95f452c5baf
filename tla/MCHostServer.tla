---------------------------- MODULE MCHostServer ----------------------------
(* Instances of HostServer for TLC. *)
EXTENDS HostServer, TLC

\* Sockets are interchangeable, and so are phones (safety runs only).
Symmetry == Permutations(Socket) \union Permutations(Device)
=============================================================================
