---------------------------- MODULE MCMysqlMonitor ----------------------------
(* MysqlMonitor for TLC.                                                    *)
EXTENDS MysqlMonitor
=============================================================================
