---------------------------- MODULE MysqlConnection ----------------------------
(***************************************************************************)
(* CMysqlConnection (src/SysMonitor/simple_mysql.cpp) over the MySQL client *)
(* library: connecting, finding out that a connection is gone, and running  *)
(* a statement that may have to be run again.                               *)
(*                                                                          *)
(* A method is the set of what it may do to a connection: outcomes with the *)
(* connection afterwards and the code returned.  What the library does is   *)
(* what libmysqlclient 5.5 does: every network call may find the session    *)
(* gone, and mysql_next_result forgets the last error.                      *)
(*                                                                          *)
(* Definitions named after a mistake (ForgetsNull, ...) are not used: each  *)
(* is what the definition after it would be with that mistake in the code,  *)
(* and breaks a property below.                                             *)
(***************************************************************************)
EXTENDS Naturals

CONSTANT MaxMore   \* bound: results of one statement after its first

ASSUME ConstantsAssumption == MaxMore \in Nat

VARIABLES
    conn,   \* the CMysqlConnection
    last    \* history: the last call, its return, how often its statement
            \* took effect, and what reconnect connected with

vars == <<conn, last>>

Statuses == {"INIT", "OPEN", "UNKNOWN"}
Codes == {"OK", "STATUS", "ILLEGAL_PARAM", "FAILED", "E_DB_CONNECT", "E_DB_QUERY", "NULL"}

Connections ==
    [m_nStatus : Statuses,
     m_strDB : BOOLEAN,                          \* not NULL
     m_dbCon : {"null", "local", "callers"},     \* "local": of a frame that is gone
     m_myres : BOOLEAN,                          \* not NULL
     stored  : 0 .. 1,                           \* results the library has allocated
     vio     : BOOLEAN,                          \* MYSQL: the socket is there
     err     : {"none", "lost", "sync", "other"}, \* MYSQL: last error; lost: 2006, 2013;
                                                 \* sync: commands out of sync
     cur     : BOOLEAN,                          \* MYSQL: a result waits to be stored
     more    : 0 .. MaxMore]                     \* MYSQL: results announced after it

TypeOK ==
    /\ conn \in Connections
    /\ last \in [call : {"none", "connect", "disconnect", "reconnect", "check_connect",
                         "execute", "end", "get_record_set"},
                 rc : Codes, applied : 0 .. 2,
                 here : {"no", "string", "local", "callers"}]

-----------------------------------------------------------------------------
(* The library.                                                             *)

\* A result must be taken before the next command.
Waiting(c) == c.cur \/ c.more > 0
OutOfSync(c) == [c EXCEPT !.err = "sync"]

\* A network call finds the session gone; what was announced stays announced.
Lost(c) == [c EXCEPT !.vio = FALSE, !.err = "lost", !.cur = FALSE]

NewSession(c) == [c EXCEPT !.vio = TRUE, !.err = "none", !.cur = FALSE, !.more = 0]

mysql_real_connect(c) ==
    IF c.vio
      THEN {[c EXCEPT !.err = "other"]}   \* already connected
      ELSE {NewSession(c)} \union {[c EXCEPT !.err = e, !.more = 0] : e \in {"lost", "other"}}

\* What a statement may come to: it took effect as a whole or not, and the client
\* knows or not.  An error packet means not: what a CALL has done before its
\* error, which execute sends again all the same, is not counted.
mysql_query(c) ==
    IF ~ c.vio
      THEN {[c |-> Lost(c), ok |-> FALSE, applied |-> 0]}
    ELSE IF Waiting(c)
      THEN {[c |-> OutOfSync(c), ok |-> FALSE, applied |-> 0]}
      ELSE {[c |-> [c EXCEPT !.err = "none", !.cur = r[1], !.more = r[2]], ok |-> TRUE, applied |-> 1]
              : r \in BOOLEAN \X (0 .. MaxMore)}
             \union {[c |-> [c EXCEPT !.err = "other"], ok |-> FALSE, applied |-> 0]}
             \union {[c |-> Lost(c), ok |-> FALSE, applied |-> n] : n \in 0 .. 1}

\* COM_PING, with the library's own reconnect allowed or not.
mysql_ping(c, reconnect) ==
    IF c.vio /\ Waiting(c)
      THEN {[c |-> OutOfSync(c), ok |-> FALSE]}
      ELSE {[c |-> Lost(c), ok |-> FALSE]}
             \union {[c |-> [c EXCEPT !.err = "none"], ok |-> TRUE] : v \in {c.vio} \ {FALSE}}
             \union UNION {{[c |-> NewSession(c), ok |-> TRUE],
                            [c |-> [Lost(c) EXCEPT !.err = "other"], ok |-> FALSE]}
                           : r \in {reconnect} \ {FALSE}}

\* store_result and next_result until there are no more: a next_result with
\* none announced forgets the error, also that of a store_result.
Drained(c) ==
    IF c.vio
      THEN {[c EXCEPT !.err = "none", !.cur = FALSE, !.more = 0]}
             \union (IF Waiting(c) THEN {[Lost(c) EXCEPT !.err = "none", !.more = 0]} ELSE {})
             \union (IF c.more > 0
                       THEN {Lost(c), [c EXCEPT !.err = "other", !.cur = FALSE, !.more = 0]}
                       ELSE {})
      ELSE {IF c.more > 0 THEN Lost(c) ELSE [c EXCEPT !.err = "none"]}

-----------------------------------------------------------------------------
(* CMysqlConnection.                                                        *)

Outcome(c, rc) == [c |-> c, rc |-> rc, here |-> "no", applied |-> 0]

\* mysql_free_result(m_myres), m_myres = NULL.
ForgetsNull(c) == IF c.m_myres THEN [c EXCEPT !.stored = 0] ELSE c
FreeResult(c) == IF c.m_myres THEN [c EXCEPT !.stored = 0, !.m_myres = FALSE] ELSE c

ClearedKeepsError(c) ==
    {[d EXCEPT !.err = c.err] : d \in Drained(FreeResult(c))}

ClearedFirst(c) ==
    IF c.more = 0 THEN Drained(FreeResult(c))
    ELSE {[FreeResult(c) EXCEPT !.err = "none", !.cur = r, !.more = @ - 1] : r \in BOOLEAN}

ClearsNothing(c) == {c}

\* The code it returns is used by Done only.
clear_all_result_set(c) == Drained(FreeResult(c))

\* connect(const db_conn_str_t*).
connect_struct(c, dbCon) ==
    LET opened == [c EXCEPT !.m_nStatus = "OPEN", !.m_dbCon = dbCon] IN
    UNION {IF d.err # "none"
             THEN {Outcome(d, "FAILED")}
             ELSE {Outcome(d, "OK"),                                   \* both set
                   Outcome([d EXCEPT !.err = "other"], "FAILED"),      \* character set
                   Outcome(Lost(d), "FAILED"),
                   Outcome([d EXCEPT !.err = "other"], "OK"),          \* autocommit fails
                   Outcome(Lost(d), "OK")}
           : d \in mysql_real_connect(opened)}

\* connect(const CHAR_T*): the parsed string is a local of this call.
connect_string(c) ==
    IF c.m_nStatus # "INIT"
      THEN {Outcome(c, "STATUS")}
      ELSE {Outcome(c, "ILLEGAL_PARAM")}
             \union connect_struct([c EXCEPT !.m_strDB = TRUE], "local")

\* disconnect clears and closes.
disconnect(c) ==
    {Outcome([d EXCEPT !.m_nStatus = "UNKNOWN", !.vio = FALSE, !.err = "none"], "OK")
       : d \in clear_all_result_set(c)}

Here(outcomes, by) == {[o EXCEPT !.here = by] : o \in outcomes}

StructFirst(c) ==
    IF c.m_dbCon # "null" THEN Here(connect_struct(c, c.m_dbCon), c.m_dbCon)
    ELSE {Outcome(c, "FAILED")}

\* The branch that connects anew, with what connect was called with.
ConnectAgain(c) ==
    IF c.m_strDB THEN Here(connect_string(c), "string")
    ELSE IF c.m_dbCon # "null" THEN Here(connect_struct(c, c.m_dbCon), c.m_dbCon)
    ELSE {Outcome(c, "FAILED")}

\* What reconnect does once the results are cleared: d is the connection then.
Repaired(d) ==
    IF d.err = "none" /\ d.vio THEN {Outcome(d, "OK")}
    ELSE IF d.err = "lost"
      THEN {Outcome(p.c, IF p.ok THEN "OK" ELSE "FAILED") : p \in mysql_ping(d, TRUE)}
      ELSE ConnectAgain(d)

reconnect(c) ==
    IF c.m_nStatus # "OPEN" THEN {Outcome(c, "STATUS")}
    ELSE UNION {Repaired(d) : d \in clear_all_result_set(c)}

check_connect(c, bKeepAlive, bFix) ==
    IF c.m_nStatus # "OPEN" THEN {Outcome(c, "STATUS")}
    ELSE IF ~ bKeepAlive /\ ~ bFix THEN {Outcome(c, "OK")}
    ELSE UNION {UNION {IF p.ok THEN {Outcome(p.c, "OK")}
                       ELSE IF bFix THEN reconnect(p.c)
                       ELSE {Outcome(p.c, "FAILED")}
                       : p \in mysql_ping(d, FALSE)}
                : d \in clear_all_result_set(c)}

KnowsOnlyLost(err) == IF err = "lost" THEN "E_DB_CONNECT" ELSE "OK"

exchange_error(err) ==
    CASE err = "none" -> "OK" [] err = "lost" -> "E_DB_CONNECT" [] OTHER -> "E_DB_QUERY"

Ran(q, c, rc) == [c |-> c, rc |-> rc, here |-> "no", applied |-> q.applied]

\* The statement ran: its results are kept for get_record_set, or dropped.
Done(q, bNeedResult) ==
    IF bNeedResult THEN {Ran(q, q.c, "OK")}
    ELSE {Ran(q, d, exchange_error(d.err)) : d \in clear_all_result_set(q.c)}

\* The outcomes after r, with what r did.
Then(r, outcomes) ==
    {[o EXCEPT !.applied = @ + r.applied, !.here = IF @ = "no" THEN r.here ELSE @]
       : o \in outcomes}

\* The second answer is final.
Again(q, bNeedResult) ==
    IF q.ok THEN Done(q, bNeedResult) ELSE {Ran(q, q.c, exchange_error(q.c.err))}

\* A statement that failed is run again on a connection reconnect calls good.
RunAgain(q, bNeedResult) ==
    UNION {IF r.rc # "OK"
             THEN {[r EXCEPT !.rc = "E_DB_QUERY", !.applied = q.applied]}
             ELSE Then([r EXCEPT !.applied = q.applied],
                       UNION {Again(a, bNeedResult) : a \in mysql_query(r.c)})
           : r \in reconnect(q.c)}

Run(c, bNeedResult) ==
    UNION {IF q.ok THEN Done(q, bNeedResult) ELSE RunAgain(q, bNeedResult)
           : q \in mysql_query(c)}

execute(c, bNeedResult) ==
    IF c.m_nStatus # "OPEN" THEN {Outcome(c, "STATUS")}
    ELSE UNION {IF r.rc # "OK" THEN {[r EXCEPT !.rc = "FAILED"]}
                ELSE Then(r, UNION {Run(d, bNeedResult) : d \in clear_all_result_set(r.c)})
                : r \in reconnect(c)}

\* commit and rollback.
end_transaction(c) ==
    IF c.m_nStatus # "OPEN" THEN {Outcome(c, "STATUS")}
    ELSE UNION {{Outcome(q.c, IF q.ok THEN "OK" ELSE "FAILED")
                   : q \in {s \in mysql_query(d) : s.ok => ~ Waiting(s.c)}}
                : d \in clear_all_result_set(c)}

\* mysql_next_result with nothing waiting finds one more.
NextResult(c) ==
    IF c.more = 0 \/ ~ c.vio THEN {}
    ELSE {[c EXCEPT !.err = "none", !.cur = r, !.more = @ - 1] : r \in BOOLEAN}

\* mysql_store_result: amid the rows the session or the statement may fail.
StoreResult(c) ==
    IF ~ c.cur THEN {Outcome(c, "NULL")}
    ELSE {Outcome([c EXCEPT !.cur = FALSE, !.m_myres = TRUE, !.stored = 1], "OK"),
          Outcome(Lost(c), "NULL"),
          Outcome([c EXCEPT !.err = "other", !.cur = FALSE, !.more = 0], "NULL")}

get_record_set(c) ==
    IF c.m_nStatus # "OPEN" THEN {Outcome(c, "NULL")}
    ELSE IF ~ c.m_myres THEN StoreResult(c)
    ELSE LET d == FreeResult(c) IN
         IF d.cur THEN {Outcome(OutOfSync(d), "NULL")}
         ELSE (UNION {StoreResult(e) : e \in NextResult(d)})
           \union (IF d.more > 0
                     THEN {Outcome(Lost(d), "NULL"),
                           Outcome([d EXCEPT !.err = "other", !.more = 0], "NULL")}
                     ELSE {Outcome([d EXCEPT !.err = "none"], "NULL")})

-----------------------------------------------------------------------------
(* A caller that connects before it works and destroys the object once.     *)

Init ==
    /\ conn \in [m_nStatus : {"INIT", "UNKNOWN"},   \* UNKNOWN: mysql_init failed
                 m_strDB : {FALSE}, m_dbCon : {"null"}, m_myres : {FALSE}, stored : {0},
                 vio : {FALSE}, err : {"none"}, cur : {FALSE}, more : {0}]
    /\ last = [call |-> "none", rc |-> "OK", applied |-> 0, here |-> "no"]

Does(call, outcomes) ==
    \E o \in outcomes :
        /\ conn' = o.c
        /\ last' = [call |-> call, rc |-> o.rc, applied |-> o.applied, here |-> o.here]

Connect ==
    \/ Does("connect", connect_string(conn))
    \/ conn.m_nStatus = "INIT" /\ Does("connect", connect_struct(conn, "callers"))

\* disconnect, or the destructor.
Disconnect == conn.m_nStatus # "UNKNOWN" /\ Does("disconnect", disconnect(conn))

Reconnect == Does("reconnect", reconnect(conn))
CheckConnect ==
    \E bKeepAlive, bFix \in BOOLEAN :
        Does("check_connect", check_connect(conn, bKeepAlive, bFix))
Execute == \E bNeedResult \in BOOLEAN : Does("execute", execute(conn, bNeedResult))
EndTransaction == Does("end", end_transaction(conn))
GetRecordSet == Does("get_record_set", get_record_set(conn))

Next ==
    Connect \/ Disconnect \/ Reconnect \/ CheckConnect \/ Execute \/ EndTransaction \/ GetRecordSet

Spec == Init /\ [][Next]_vars

-----------------------------------------------------------------------------
(* Properties.                                                              *)

\* execute returns RC_S_OK only if the server ran the statement.
OkMeansApplied == last.call = "execute" /\ last.rc = "OK" => last.applied > 0

\* A statement never takes its whole effect twice in one execute on a connection
\* that was made from a connect string, although it is sent again after an
\* error: not even if the session broke after the server had run it.
AppliedOnce == last.call = "execute" /\ conn.m_strDB => last.applied <= 1

\* m_myres is NULL exactly when no result is allocated: whichever way calls
\* follow each other and break off, a result is freed once and none is lost.
ResultsFreedOnce == conn.stored = IF conn.m_myres THEN 1 ELSE 0

\* No command is sent while results of an earlier one wait, however many results
\* a caller of get_record_set has left.
NeverOutOfSync == conn.err # "sync"

\* reconnect never connects with the parsed string of an earlier connect, which
\* lived in that call's frame and to which m_dbCon still points.
DanglingNotUsed == last.here # "local"

\* "it's never goto here": reconnect does not get to the branch that calls
\* connect again.
NeverGoesHere == last.here = "no"
=============================================================================
