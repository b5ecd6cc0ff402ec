----------------------------- MODULE MysqlMonitor -----------------------------
(***************************************************************************)
(* CMysqlMonitor (src/SysMonitor/mysql_monitor.cpp and .h) over the         *)
(* connections of MysqlConnection: the constructor's connections, what      *)
(* write asks of which of them, the cluster's tables that ndb_mgm prints    *)
(* (in the Linux build; in the Windows build they are empty), and the       *)
(* destructor.                                                              *)
(*                                                                          *)
(* The answer of write is a list of tables followed by fields; the reader   *)
(* finds a field by its place, so the report is kept as how many there are  *)
(* of each.  The values, and the slaves' rows inside a table, are left out. *)
(*                                                                          *)
(* Definitions named after a mistake (BlankOneMore, ...) are not used: each *)
(* is what the definition after it would be with that mistake in the code,  *)
(* and breaks a property below.                                             *)
(***************************************************************************)
EXTENDS Naturals, Sequences

CONSTANTS MaxMore,      \* bound: results of one statement after its first
          MaxDbs,       \* bound: configured databases
          StatusRows,   \* rows of "show status": 21 in the code
          Nodes         \* node ids of the cluster

ASSUME MonitorAssumption == MaxMore \in Nat /\ MaxDbs \in Nat /\ StatusRows \in Nat

VARIABLES
    dbcount, mysql_type,   \* what CLoadConfig loaded
    win32,                 \* the build: Windows', or Linux' with the cluster's tables
    conn, last,            \* per connection made: the connection and, history,
                           \* the last call of it
    list,                  \* m_mysql_list_connection
    monitor,               \* where the object's methods are: i, their loops' index,
                           \* at, mysql_connection; history: rc, what execute said, and
                           \* short, whether the server had less than was asked for
    report,                \* json_value
    process                \* "up", "gone": the object was deleted, "null": NULL was
                           \* used, "range": a vector was read past its end, "ended":
                           \* by an exception nobody catches

vars == <<dbcount, mysql_type, win32, conn, last, list, monitor, report, process>>

Types == {"MYSQL_GENERAL", "MYSQL_MASTER_SLAVE", "MYSQL_NDB"}
Dbs == 1 .. MaxDbs
Connection(i) == INSTANCE MysqlConnection WITH conn <- conn[i], last <- last[i]
Client == INSTANCE MysqlConnection WITH conn <- conn, last <- last

PCs == {"connect", "rest", "slaves", "slave_rows", "show", "memory", "proc", "proc_row",
        "status", "status_rows", "delete"}
Fields == 1 + StatusRows

TypeOK ==
    /\ dbcount \in 0 .. MaxDbs /\ mysql_type \in Types /\ win32 \in BOOLEAN
    /\ \A i \in Dbs : Connection(i)!TypeOK
    /\ Len(list) <= dbcount
    /\ \A k \in 1 .. Len(list) : list[k] \in 1 .. dbcount
    /\ monitor \in [pc : PCs, i : 0 .. MaxDbs + 1, at : 0 .. MaxDbs,
                    rc : Client!Codes, rows : {"NULL", "none", "some"},
                    short : BOOLEAN, map_id_ip : SUBSET Nodes]
    /\ report \in [tables : 0 .. 5, fields : 0 .. Fields]
    /\ process \in {"up", "gone", "null", "range", "ended"}

\* A CMysqlConnection that was never connected.
Init ==
    /\ dbcount \in 0 .. MaxDbs /\ mysql_type \in Types /\ win32 \in BOOLEAN
    /\ \E c \in {o \in Client!Connections :
                   /\ o.m_nStatus \in {"INIT", "UNKNOWN"} /\ ~ o.m_strDB /\ o.m_dbCon = "null"
                   /\ ~ o.m_myres /\ o.stored = 0 /\ ~ o.vio /\ o.err = "none"
                   /\ ~ o.cur /\ o.more = 0} :
         conn = [i \in Dbs |-> c]
    /\ last = [i \in Dbs |-> [call |-> "none", rc |-> "OK", applied |-> 0, here |-> "no"]]
    /\ list = <<>>
    /\ monitor = [pc |-> "connect", i |-> 0, at |-> 0, rc |-> "OK", rows |-> "NULL",
                  short |-> FALSE, map_id_ip |-> {}]
    /\ report = [tables |-> 0, fields |-> 0]
    /\ process = "up"

-----------------------------------------------------------------------------
At(pc) == process = "up" /\ monitor.pc = pc
Goes(pc) == monitor' = [monitor EXCEPT !.pc = pc]
Appends(tables, fields) ==
    report' = [tables |-> report.tables + tables, fields |-> report.fields + fields]
Ends(how) == process' = how /\ UNCHANGED <<dbcount, mysql_type, win32, conn, last, list, monitor, report>>

\* One call of connection i.
Calls(i, call, o) ==
    /\ conn' = [conn EXCEPT ![i] = o.c]
    /\ last' = [last EXCEPT ![i] = [call |-> call, rc |-> o.rc, applied |-> o.applied,
                                    here |-> o.here]]

\* get_last_error: a connect string that is not one leaves no error number.
HasNoErrorNumber(o) == o.c.err = "none"

\* A connection with an error number is dropped, not deleted.
Connect ==
    /\ At("connect") /\ monitor.i < dbcount
    /\ \E o \in Client!connect_string(conn[monitor.i + 1]) :
         /\ Calls(monitor.i + 1, "connect", o)
         /\ list' = IF HasNoErrorNumber(o) THEN Append(list, monitor.i + 1) ELSE list
    /\ monitor' = [monitor EXCEPT !.i = @ + 1]
    /\ UNCHANGED <<dbcount, mysql_type, win32, report, process>>

Constructed ==
    /\ At("connect") /\ monitor.i = dbcount
    /\ monitor' = [monitor EXCEPT !.pc = "rest", !.i = 0]
    /\ UNCHANGED <<dbcount, mysql_type, win32, conn, last, list, report, process>>

BlankOneMore ==
    /\ At("rest") /\ list = <<>>
    /\ report' = [tables |-> 5, fields |-> Fields + 1]
    /\ UNCHANGED <<dbcount, mysql_type, win32, conn, last, list, monitor, process>>

\* Without any connection the report is blank.
WriteBlank ==
    /\ At("rest") /\ list = <<>>
    /\ report' = [tables |-> 5, fields |-> Fields]
    /\ UNCHANGED <<dbcount, mysql_type, win32, conn, last, list, monitor, process>>

AfterSlaves == IF mysql_type = "MYSQL_NDB" /\ ~ win32 THEN "show" ELSE "proc"

FirstTablesAlike == 1

\* The slaves' table and, in the Windows build, the cluster's four, empty.
FirstTables == IF win32 THEN 5 ELSE 1

StartWrite ==
    /\ At("rest") /\ list # <<>>
    /\ monitor' = [monitor EXCEPT !.i = 1, !.at = list[1], !.rows = "NULL", !.short = FALSE,
                     !.pc = IF mysql_type = "MYSQL_MASTER_SLAVE" THEN "slaves" ELSE AfterSlaves]
    /\ report' = [tables |-> IF mysql_type = "MYSQL_MASTER_SLAVE" THEN 0 ELSE FirstTables,
                 fields |-> 0]
    /\ UNCHANGED <<dbcount, mysql_type, win32, conn, last, list, process>>

-----------------------------------------------------------------------------
(* Statements.                                                              *)

\* execute, whose answer is not looked at.
Execute(i, next) ==
    /\ \E o \in Client!execute(conn[i], TRUE) :
         /\ Calls(i, "execute", o)
         /\ monitor' = [monitor EXCEPT !.pc = next, !.at = i, !.rc = o.rc, !.rows = "NULL"]
    /\ UNCHANGED <<dbcount, mysql_type, win32, list, report, process>>

FreesResult(rows) ==
    /\ \E o \in Client!get_record_set(conn[monitor.at]) :
         /\ Calls(monitor.at, "get_record_set", [o EXCEPT !.c.stored = 0])
         /\ o.rc = "NULL" <=> rows = "NULL"
    /\ UNCHANGED <<dbcount, mysql_type, win32, list>>

\* get_record_set and the cursor on its first row, if there is one.
RecordSet(rows) ==
    /\ \E o \in Client!get_record_set(conn[monitor.at]) :
         /\ Calls(monitor.at, "get_record_set", o)
         /\ o.rc = "NULL" <=> rows = "NULL"
    /\ UNCHANGED <<dbcount, mysql_type, win32, list>>

\* The loop runs to the number of databases configured.
InLoop == monitor.i <= dbcount

SlaveExecute ==
    /\ At("slaves") /\ InLoop /\ monitor.i <= Len(list)
    /\ Execute(list[monitor.i], "slave_rows")

SlavePastEnd == At("slaves") /\ InLoop /\ monitor.i > Len(list) /\ Ends("range")

SlaveRows ==
    /\ At("slave_rows")
    /\ \E rows \in {"NULL", "none", "some"} :
         /\ RecordSet(rows)
         /\ monitor' = [monitor EXCEPT !.pc = "slaves", !.i = @ + 1, !.rows = rows]
    /\ UNCHANGED <<report, process>>

SlavesDone ==
    /\ At("slaves") /\ ~ InLoop
    /\ Goes("proc") /\ Appends(FirstTables, 0)
    /\ UNCHANGED <<dbcount, mysql_type, win32, conn, last, list, process>>

ProcExecute == At("proc") /\ Execute(monitor.at, "proc_row")

ProcNullLeftOut ==
    /\ At("proc_row") /\ RecordSet("NULL")
    /\ monitor' = [monitor EXCEPT !.pc = "status", !.rows = "NULL"]
    /\ UNCHANGED <<report, process>>

ProcNull ==
    /\ At("proc_row") /\ RecordSet("NULL")
    /\ monitor' = [monitor EXCEPT !.pc = "status", !.rows = "NULL"]
    /\ Appends(0, 1)
    /\ UNCHANGED process

\* A NULL value adds nothing.
ProcRow ==
    /\ At("proc_row") /\ RecordSet("some")
    /\ \E isNull \in BOOLEAN :
         /\ Appends(0, IF isNull THEN 0 ELSE 1)
         /\ monitor' = [monitor EXCEPT !.pc = "status", !.rows = "some", !.short = @ \/ isNull]
    /\ UNCHANGED process

\* Without a row get_record returns NULL, and get_data is called on it.
ProcNoRow ==
    /\ At("proc_row") /\ RecordSet("none")
    /\ process' = "null"
    /\ monitor' = [monitor EXCEPT !.rows = "none"]
    /\ UNCHANGED report

StatusExecute == At("status") /\ Execute(monitor.at, "status_rows")

\* As many fields as the server has of the variables asked for.
StatusFields ==
    /\ At("status_rows")
    /\ \E n \in 0 .. StatusRows :
         /\ \E rows \in {"NULL", "none", "some"} :
              /\ RecordSet(rows)
              /\ rows = "NULL" => n = StatusRows
              /\ rows = "none" => n = 0
              /\ rows = "some" => n > 0
              /\ monitor' = [monitor EXCEPT !.pc = "rest", !.i = 0, !.rows = rows,
                               !.short = @ \/ n < StatusRows]
         /\ Appends(0, n)
    /\ UNCHANGED process

-----------------------------------------------------------------------------
(* ndb_mgm.                                                                 *)

\* "show" lists data nodes, management nodes and API nodes.
Show ==
    /\ At("show")
    /\ \E S \in SUBSET Nodes : monitor' = [monitor EXCEPT !.pc = "memory", !.map_id_ip = S]
    /\ Appends(3, 0)
    /\ UNCHANGED <<dbcount, mysql_type, win32, conn, last, list, process>>

\* The nodes reported on cannot be shown: the first by number whose address is
\* not known (NULL), or that has one line (vector::at).
Lowest(S) == {m \in S : \A k \in S : m <= k}

MemoryUsage ==
    /\ At("memory")
    /\ \E lines \in [Nodes -> 0 .. 2] :
         LET bad == {m \in Nodes : lines[m] = 1 \/ (lines[m] = 2 /\ m \notin monitor.map_id_ip)}
         IN  IF bad = {} THEN /\ Goes("proc") /\ Appends(1, 0)
                              /\ UNCHANGED process
             ELSE /\ process' = IF Lowest(bad) \subseteq monitor.map_id_ip THEN "ended" ELSE "null"
                  /\ UNCHANGED <<monitor, report>>
    /\ UNCHANGED <<dbcount, mysql_type, win32, conn, last, list>>

-----------------------------------------------------------------------------
(* The destructor.                                                          *)

StartDelete ==
    /\ At("rest")
    /\ monitor' = [monitor EXCEPT !.pc = "delete", !.i = 1]
    /\ UNCHANGED <<dbcount, mysql_type, win32, conn, last, list, report, process>>

DeleteConnection ==
    /\ At("delete") /\ InLoop /\ monitor.i <= Len(list)
    /\ LET i == list[monitor.i] IN
       IF conn[i].m_nStatus = "UNKNOWN" THEN UNCHANGED <<conn, last>>
       ELSE \E o \in Client!disconnect(conn[i]) : Calls(i, "disconnect", o)
    /\ monitor' = [monitor EXCEPT !.i = @ + 1]
    /\ UNCHANGED <<dbcount, mysql_type, win32, list, report, process>>

DeletePastEnd == At("delete") /\ InLoop /\ monitor.i > Len(list) /\ Ends("range")

Deleted == At("delete") /\ ~ InLoop /\ Ends("gone")

Write ==
    \/ SlaveExecute \/ SlavePastEnd \/ SlaveRows \/ SlavesDone \/ Show \/ MemoryUsage
    \/ ProcExecute \/ ProcNull \/ ProcRow \/ ProcNoRow \/ StatusExecute \/ StatusFields

Next ==
    \/ Connect \/ Constructed \/ WriteBlank \/ StartWrite \/ Write
    \/ StartDelete \/ DeleteConnection \/ DeletePastEnd \/ Deleted

Spec == Init /\ [][Next]_vars

-----------------------------------------------------------------------------
(* Properties.                                                              *)

\* What the monitor does to each connection is what a caller of MysqlConnection
\* does: what is proved of that holds of each of these.
ConnectionSpec ==
    /\ \A i \in Dbs : Connection(i)!Init
    /\ [][\A i \in Dbs : [Connection(i)!Next]_(Connection(i)!vars)]_vars

\* Although nobody looks at what execute answers, rows are only ever taken from a
\* result of the statement just run: a failed execute never leaves an earlier
\* statement's result to be read in its place.
RowsOfThisStatement == monitor.rows # "NULL" => monitor.rc = "OK"

\* The tables a report begins with.
TablesBefore == IF list = <<>> \/ win32 \/ mysql_type = "MYSQL_NDB" THEN 5 ELSE 1

\* However many statements of a write failed, its report has each field in the
\* place that the build, the type and whether there is a connection at all give
\* it: behind that many tables, and none of the fields before it left out, unless
\* the server itself answered with a NULL or with fewer variables.  (In the Linux
\* build a general or master-slave report has its fields four places before
\* those of a blank one.)
FieldsInPlace ==
    process = "up" /\ monitor.pc = "rest" /\ report.tables > 0
        => /\ report.tables = TablesBefore
           /\ ~ monitor.short => report.fields = Fields
=============================================================================
