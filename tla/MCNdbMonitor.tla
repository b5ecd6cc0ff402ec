---------------------------- MODULE MCNdbMonitor ----------------------------
(* NdbMonitor on one or two small files.                                     *)
EXTENDS NdbMonitor
=============================================================================
