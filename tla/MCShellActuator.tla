---------------------------- MODULE MCShellActuator ----------------------------
(* Pipes as large as the capture buffers, as on Linux, and a program that     *)
(* can fill one twice over and more.                                         *)
EXTENDS ShellActuator
=============================================================================
