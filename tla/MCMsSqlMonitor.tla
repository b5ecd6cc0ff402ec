---------------------------- MODULE MCMsSqlMonitor ----------------------------
(* MsSqlMonitor for TLC.                                                    *)
EXTENDS MsSqlMonitor

\* One row after five stays within the first reading, five after one do not.
SomeRowCounts == {0, 1, 5}

\* The queries work.
AllRows == {0, 5}
=============================================================================
