------------------------------ MODULE MCHosted ------------------------------
(* The small accelerator of MCAccelerator and its programs, over the bus. *)
EXTENDS HostedAccelerator, MCAccelerator
=============================================================================
