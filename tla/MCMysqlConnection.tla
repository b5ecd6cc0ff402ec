-------------------------- MODULE MCMysqlConnection --------------------------
(* MysqlConnection for TLC.                                                 *)
EXTENDS MysqlConnection
=============================================================================
