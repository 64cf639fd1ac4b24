----------------------------- MODULE MCScanJobs -----------------------------
(* Instances of ScanJobs: its constants are numbers and model values. *)
EXTENDS ScanJobs
=============================================================================
