--------------------------- MODULE MysqlMonitorProofs ---------------------------
(***************************************************************************)
(* Theorems about MysqlMonitor for any number of databases, of results per  *)
(* statement and of status variables.  The lemmas about the methods of a    *)
(* connection are those of MysqlConnectionProofs (P); what is added is      *)
(* where write is in its report (Counting) and what a failed execute leaves *)
(* for get_record_set to find: nothing (Reading).                           *)
(***************************************************************************)
EXTENDS MysqlMonitor, TLAPS

P == INSTANCE MysqlConnectionProofs

LastTypes == [call : P!Calls, rc : P!Codes, applied : 0 .. 2,
              here : {"no", "string", "local", "callers"}]
MonitorTypes == [pc : PCs, i : 0 .. MaxDbs + 1, at : 0 .. MaxDbs, rc : P!Codes,
                 rows : {"NULL", "none", "some"}, short : BOOLEAN, map_id_ip : SUBSET Nodes]
ReportTypes == [tables : 0 .. 5, fields : 0 .. Fields]

Typed ==
    /\ dbcount \in 0 .. MaxDbs /\ mysql_type \in Types /\ win32 \in BOOLEAN
    /\ conn \in [Dbs -> P!Connections] /\ last \in [Dbs -> LastTypes]
    /\ list \in Seq(1 .. dbcount) /\ Len(list) <= dbcount
    /\ monitor \in MonitorTypes
    /\ report \in ReportTypes
    /\ process \in {"up", "gone", "null", "range", "ended"}

\* What MysqlConnectionProofs keeps of one connection between two calls.
Sound(i) ==
    /\ P!Good(conn[i])
    /\ conn[i].m_nStatus = "INIT" => ~ conn[i].m_myres /\ ~ conn[i].vio
    /\ last[i].here # "local"
    /\ last[i].call = "execute" /\ last[i].rc = "OK" => last[i].applied > 0
    /\ last[i].call = "execute" /\ conn[i].m_strDB => last[i].applied <= 1

\* The loops' index, and the connection write works with.
Walking ==
    /\ monitor.pc = "connect" => Len(list) <= monitor.i /\ monitor.i <= dbcount
    /\ monitor.pc = "slave_rows" => monitor.i <= dbcount
    /\ monitor.pc \in {"slaves", "slave_rows", "delete"} => monitor.i >= 1
    /\ monitor.pc \notin {"connect", "rest", "delete"} => monitor.at \in 1 .. dbcount

\* The report so far: its tables stand before its fields.
Counting ==
    LET so(t, f) == report.tables = t /\ report.fields = f IN
    /\ monitor.pc \in {"connect", "slaves", "slave_rows"} => so(0, 0)
    /\ monitor.pc \in {"slaves", "slave_rows"} => mysql_type = "MYSQL_MASTER_SLAVE"
    /\ monitor.pc \in {"show", "memory"} => mysql_type = "MYSQL_NDB"
    /\ monitor.pc \notin {"connect", "rest", "delete"} => list # <<>>
    /\ monitor.pc = "show" => so(1, 0)
    /\ monitor.pc = "memory" => so(4, 0)
    /\ monitor.pc \in {"proc", "proc_row"} => so(TablesBefore, 0)
    /\ monitor.pc \in {"status", "status_rows"} =>
         /\ report.tables = TablesBefore /\ report.fields <= 1
         /\ ~ monitor.short => report.fields = 1
    /\ monitor.pc = "rest" /\ report.tables > 0 =>
         /\ report.tables = TablesBefore
         /\ ~ monitor.short => report.fields = Fields

\* Before a record set is asked for nothing has been read of this statement, and
\* where it failed there is nothing to read.
Reading ==
    /\ monitor.rows # "NULL" => monitor.rc = "OK"
    /\ monitor.pc \in {"slave_rows", "proc_row", "status_rows"} /\ monitor.rc # "OK" =>
         conn[monitor.at].m_nStatus # "OPEN" \/ P!Empty(conn[monitor.at])

MInv == Typed /\ (\A i \in Dbs : Sound(i)) /\ Walking /\ Counting /\ Reading

-----------------------------------------------------------------------------
(* The methods mean the same in every instance of MysqlConnection.          *)

LEMMA SameConnect ==
    ASSUME NEW i, NEW c
    PROVE  Client!connect_string(c) = P!connect_string(c) /\ Connection(i)!connect_string(c) = P!connect_string(c)
BY Zenon
   DEF Client!Outcome, Client!Lost, Client!NewSession, Client!mysql_real_connect,
       Client!connect_struct, Client!connect_string, Connection!Outcome, Connection!Lost,
       Connection!NewSession, Connection!mysql_real_connect, Connection!connect_struct,
       Connection!connect_string, P!Outcome, P!Lost, P!NewSession, P!mysql_real_connect,
       P!connect_struct, P!connect_string

LEMMA SameExecute ==
    ASSUME NEW i, NEW c, NEW b
    PROVE  Client!execute(c, b) = P!execute(c, b) /\ Connection(i)!execute(c, b) = P!execute(c, b)
BY Zenon
   DEF Client!Statuses, Client!Waiting, Client!OutOfSync, Client!Lost, Client!NewSession,
       Client!mysql_real_connect, Client!mysql_query, Client!mysql_ping, Client!Drained,
       Client!Outcome, Client!FreeResult, Client!clear_all_result_set,
       Client!connect_struct, Client!connect_string, Client!Here, Client!ConnectAgain,
       Client!Repaired, Client!reconnect, Client!exchange_error, Client!Ran, Client!Done,
       Client!Then, Client!Again, Client!RunAgain, Client!Run, Client!execute,
       Connection!Statuses, Connection!Waiting, Connection!OutOfSync, Connection!Lost,
       Connection!NewSession, Connection!mysql_real_connect, Connection!mysql_query,
       Connection!mysql_ping, Connection!Drained, Connection!Outcome,
       Connection!FreeResult, Connection!clear_all_result_set, Connection!connect_struct,
       Connection!connect_string, Connection!Here, Connection!ConnectAgain,
       Connection!Repaired, Connection!reconnect, Connection!exchange_error,
       Connection!Ran, Connection!Done, Connection!Then, Connection!Again,
       Connection!RunAgain, Connection!Run, Connection!execute, P!Statuses, P!Waiting,
       P!OutOfSync, P!Lost, P!NewSession, P!mysql_real_connect, P!mysql_query,
       P!mysql_ping, P!Drained, P!Outcome, P!FreeResult, P!clear_all_result_set,
       P!connect_struct, P!connect_string, P!Here, P!ConnectAgain, P!Repaired,
       P!reconnect, P!exchange_error, P!Ran, P!Done, P!Then, P!Again, P!RunAgain, P!Run,
       P!execute

LEMMA SameRecordSet ==
    ASSUME NEW i, NEW c
    PROVE  Client!get_record_set(c) = P!get_record_set(c) /\ Connection(i)!get_record_set(c) = P!get_record_set(c)
BY Zenon
   DEF Client!OutOfSync, Client!Lost, Client!Outcome, Client!FreeResult,
       Client!NextResult, Client!StoreResult, Client!get_record_set, Connection!OutOfSync,
       Connection!Lost, Connection!Outcome, Connection!FreeResult, Connection!NextResult,
       Connection!StoreResult, Connection!get_record_set, P!OutOfSync, P!Lost, P!Outcome,
       P!FreeResult, P!NextResult, P!StoreResult, P!get_record_set

LEMMA SameDisconnect ==
    ASSUME NEW i, NEW c
    PROVE  Client!disconnect(c) = P!disconnect(c) /\ Connection(i)!disconnect(c) = P!disconnect(c)
BY Zenon
   DEF Client!Waiting, Client!Lost, Client!Drained, Client!Outcome, Client!FreeResult,
       Client!clear_all_result_set, Client!disconnect, Connection!Waiting,
       Connection!Lost, Connection!Drained, Connection!Outcome, Connection!FreeResult,
       Connection!clear_all_result_set, Connection!disconnect, P!Waiting, P!Lost,
       P!Drained, P!Outcome, P!FreeResult, P!clear_all_result_set, P!disconnect

LEMMA SameTypes ==
    ASSUME NEW i
    PROVE  /\ Client!Codes = P!Codes
           /\ Client!Connections = P!Connections /\ Connection(i)!Connections = P!Connections
           /\ Connection(i)!TypeOK <=> conn[i] \in P!Connections /\ last[i] \in LastTypes
<1>1. /\ Client!Codes = P!Codes /\ Connection(i)!Codes = P!Codes
      /\ Client!Statuses = P!Statuses /\ Connection(i)!Statuses = P!Statuses
    BY Zenon DEF Client!Codes, Connection!Codes, P!Codes,
                 Client!Statuses, Connection!Statuses, P!Statuses
<1>2. Client!Connections = P!Connections /\ Connection(i)!Connections = P!Connections
    BY Zenon DEF Client!Connections, Connection!Connections, P!Connections,
                 Client!Statuses, Connection!Statuses, P!Statuses
<1>3. Connection(i)!TypeOK <=> conn[i] \in P!Connections /\ last[i] \in LastTypes
    BY <1>1, <1>2, Zenon DEF Connection!TypeOK, LastTypes, P!Calls
<1> QED
    BY <1>1, <1>2, <1>3

-----------------------------------------------------------------------------
(* One call of a connection.                                                *)

LEMMA UpdateFacts ==
    ASSUME NEW S, NEW T, NEW g \in [S -> T], NEW x \in S, NEW v \in T,
           NEW h, h = [g EXCEPT ![x] = v]
    PROVE  /\ h \in [S -> T] /\ h[x] = v
           /\ \A y \in S : y # x => h[y] = g[y]
OBVIOUS

\* What an outcome of a call must be for the connection to stay sound.
Allowed(i, call, o) ==
    /\ P!Fine(conn[i], o)
    /\ call = "execute" => /\ o.rc = "OK" => o.applied > 0
                           /\ o.c.m_strDB => o.applied <= 1

\* The methods' outcomes are allowed; one that execute calls a failure leaves
\* nothing behind.
LEMMA Outcomes ==
    ASSUME NEW i, Sound(i)
    PROVE  /\ \A o \in Client!connect_string(conn[i]) : Allowed(i, "connect", o)
           /\ \A o \in Client!get_record_set(conn[i]) : Allowed(i, "get_record_set", o)
           /\ \A o \in Client!disconnect(conn[i]) : Allowed(i, "disconnect", o)
           /\ \A o \in Client!execute(conn[i], TRUE) :
                /\ Allowed(i, "execute", o)
                /\ o.rc # "OK" => o.c.m_nStatus # "OPEN" \/ P!Empty(o.c)
<1>0. /\ P!Good(conn[i])
      /\ conn[i].m_nStatus = "INIT" => ~ conn[i].m_myres /\ ~ conn[i].vio
    BY DEF Sound
<1>c. MaxMore \in Nat
    BY MonitorAssumption
<1>1. ASSUME NEW o \in P!connect_string(conn[i]) PROVE P!Fine(conn[i], o)
    BY <1>0, <1>c, P!ConnectStringPlain DEF P!Plain
<1>2. ASSUME NEW o \in P!get_record_set(conn[i]) PROVE P!Fine(conn[i], o)
    BY <1>0, <1>c, P!GetRecordSetPlain DEF P!Plain
<1>3. ASSUME NEW o \in P!disconnect(conn[i]) PROVE P!Fine(conn[i], o)
    BY <1>0, <1>c, P!DisconnectPlain DEF P!Plain
<1>4. ASSUME NEW o \in P!execute(conn[i], TRUE)
      PROVE  /\ Allowed(i, "execute", o)
             /\ o.rc # "OK" => o.c.m_nStatus # "OPEN" \/ P!Empty(o.c)
    <2>1. TRUE \in BOOLEAN
        OBVIOUS
    <2> QED
        BY <1>0, <1>c, <2>1, P!ExecuteFacts DEF Allowed
<1> QED
    BY <1>1, <1>2, <1>3, <1>4, SameConnect, SameRecordSet, SameDisconnect, SameExecute
    DEF Allowed

\* A call changes its connection only and keeps all of them sound.
LEMMA CallFacts ==
    ASSUME Typed, \A j \in Dbs : Sound(j), NEW i \in Dbs, NEW call \in P!Calls,
           NEW o, Allowed(i, call, o), Calls(i, call, o)
    PROVE  /\ conn' \in [Dbs -> P!Connections] /\ last' \in [Dbs -> LastTypes]
           /\ \A j \in Dbs : Sound(j)'
           /\ conn'[i] = o.c
<1> DEFINE l == [call |-> call, rc |-> o.rc, applied |-> o.applied, here |-> o.here]
<1>1. /\ o.rc \in P!Codes /\ o.applied \in 0 .. 2 /\ o.here \in {"no", "string", "callers"}
      /\ P!Good(o.c) /\ o.c \in P!Connections
      /\ o.c = conn[i] \/ o.c.m_nStatus # "INIT"
    BY DEF Allowed, P!Fine, P!Outcomes, P!Good
<1>2. l \in LastTypes
    BY <1>1 DEF LastTypes
<1>3. /\ l.call = call /\ l.rc = o.rc /\ l.applied = o.applied /\ l.here = o.here
      /\ conn' = [conn EXCEPT ![i] = o.c] /\ last' = [last EXCEPT ![i] = l]
    BY DEF Calls
<1> HIDE DEF l
<1>4. /\ conn' \in [Dbs -> P!Connections] /\ conn'[i] = o.c
      /\ \A j \in Dbs : j # i => conn'[j] = conn[j]
    BY <1>1, <1>3, UpdateFacts DEF Typed
<1>5. /\ last' \in [Dbs -> LastTypes] /\ last'[i] = l
      /\ \A j \in Dbs : j # i => last'[j] = last[j]
    BY <1>2, <1>3, UpdateFacts DEF Typed
<1>6. Sound(i)'
    <2>1. P!Good(conn[i])'
        BY <1>1, <1>4, Zenon DEF P!Good, P!Connections, P!Statuses
    <2>2. conn'[i].m_nStatus = "INIT" => ~ conn'[i].m_myres /\ ~ conn'[i].vio
        BY <1>1, <1>4 DEF Sound
    <2> QED
        BY <1>1, <1>3, <1>4, <1>5, <2>1, <2>2 DEF Sound, Allowed
<1>7. ASSUME NEW j \in Dbs, j # i PROVE Sound(j)'
    <2>1. conn'[j] = conn[j] /\ last'[j] = last[j]
        BY <1>4, <1>5, <1>7
    <2>2. Sound(j)
        OBVIOUS
    <2>3. P!Good(conn[j])'
        BY <2>1, <2>2, Zenon DEF Sound, P!Good, P!Connections, P!Statuses
    <2> QED
        BY <2>1, <2>2, <2>3 DEF Sound
<1> QED
    BY <1>4, <1>5, <1>6, <1>7

\* Without a call the connections stay as they are.
LEMMA KeptSound ==
    ASSUME \A j \in Dbs : Sound(j), UNCHANGED <<conn, last>>
    PROVE  \A j \in Dbs : Sound(j)'
<1> SUFFICES ASSUME NEW j \in Dbs PROVE Sound(j)'
    OBVIOUS
<1>1. conn'[j] = conn[j] /\ last'[j] = last[j] /\ Sound(j)
    OBVIOUS
<1>2. P!Good(conn[j])'
    BY <1>1, Zenon DEF Sound, P!Good, P!Connections, P!Statuses
<1> QED
    BY <1>1, <1>2 DEF Sound

\* After execute of connection i a failure leaves nothing to be read.
LEMMA ExecuteStep ==
    ASSUME MInv, NEW i \in 1 .. dbcount, NEW next \in PCs, Execute(i, next)
    PROVE  /\ Typed' /\ \A j \in Dbs : Sound(j)'
           /\ monitor'.pc = next /\ monitor'.at = i /\ monitor'.rows = "NULL"
           /\ monitor'.i = monitor.i /\ monitor'.short = monitor.short
           /\ monitor'.rc # "OK" => conn'[i].m_nStatus # "OPEN" \/ P!Empty(conn'[i])
           /\ UNCHANGED <<dbcount, mysql_type, win32, list, report, process>>
<1>1. Typed /\ (\A j \in Dbs : Sound(j)) /\ i \in Dbs /\ i \in 0 .. MaxDbs
    BY MonitorAssumption DEF MInv, Typed, Dbs
<1>2. PICK o \in Client!execute(conn[i], TRUE) :
        /\ Calls(i, "execute", o)
        /\ monitor' = [monitor EXCEPT !.pc = next, !.at = i, !.rc = o.rc, !.rows = "NULL"]
    BY Zenon DEF Execute
<1>3. Sound(i)
    BY <1>1
<1>4. Allowed(i, "execute", o) /\ (o.rc # "OK" => o.c.m_nStatus # "OPEN" \/ P!Empty(o.c))
    BY <1>2, <1>3, Outcomes
<1>5. "execute" \in P!Calls
    BY DEF P!Calls
<1>6. /\ conn' \in [Dbs -> P!Connections] /\ last' \in [Dbs -> LastTypes]
      /\ \A j \in Dbs : Sound(j)'
      /\ conn'[i] = o.c
    BY <1>1, <1>2, <1>4, <1>5, CallFacts
<1>7. o.rc \in P!Codes
    BY <1>4 DEF Allowed, P!Fine, P!Outcomes
<1>8. /\ monitor' \in MonitorTypes
      /\ monitor'.pc = next /\ monitor'.at = i /\ monitor'.rc = o.rc /\ monitor'.rows = "NULL"
      /\ monitor'.i = monitor.i /\ monitor'.short = monitor.short
    BY <1>1, <1>2, <1>7 DEF Typed, MonitorTypes
<1>9. UNCHANGED <<dbcount, mysql_type, win32, list, report, process>>
    BY DEF Execute
<1>10. Typed'
    BY <1>1, <1>6, <1>8, <1>9 DEF Typed
<1>11. monitor'.rc # "OK" => conn'[i].m_nStatus # "OPEN" \/ P!Empty(conn'[i])
    BY <1>4, <1>6, <1>8 DEF P!Empty
<1> QED
    BY <1>6, <1>8, <1>9, <1>10, <1>11

\* A record set is only ever of a statement that ran.
LEMMA RecordSetStep ==
    ASSUME MInv, monitor.pc \in {"slave_rows", "proc_row", "status_rows"}, NEW rows, RecordSet(rows)
    PROVE  /\ conn' \in [Dbs -> P!Connections] /\ last' \in [Dbs -> LastTypes]
           /\ \A j \in Dbs : Sound(j)'
           /\ rows # "NULL" => monitor.rc = "OK"
           /\ UNCHANGED <<dbcount, mysql_type, win32, list>>
<1> DEFINE i == monitor.at
<1>1. Typed /\ (\A j \in Dbs : Sound(j)) /\ i \in Dbs
    BY MonitorAssumption DEF MInv, Typed, Walking, Dbs
<1>2. PICK o \in Client!get_record_set(conn[i]) :
        Calls(i, "get_record_set", o) /\ (o.rc = "NULL" <=> rows = "NULL")
    BY Zenon DEF RecordSet
<1>3. monitor.rc # "OK" => conn[i].m_nStatus # "OPEN" \/ P!Empty(conn[i])
    BY Zenon DEF MInv, Reading
<1> HIDE DEF i
<1>4. Sound(i)
    BY <1>1
<1>5. Allowed(i, "get_record_set", o)
    BY <1>2, <1>4, Outcomes
<1>6. "get_record_set" \in P!Calls
    BY DEF P!Calls
<1>7. /\ conn' \in [Dbs -> P!Connections] /\ last' \in [Dbs -> LastTypes]
      /\ \A j \in Dbs : Sound(j)'
    BY <1>1, <1>2, <1>5, <1>6, CallFacts
<1>8. ASSUME monitor.rc # "OK" PROVE rows = "NULL"
    <2>1. o \in P!get_record_set(conn[i])
        BY <1>2, SameRecordSet
    <2>2. MaxMore \in Nat
        BY MonitorAssumption
    <2> QED
        BY <1>2, <1>3, <1>8, <2>1, <2>2, P!GetRecordSetNull
<1>9. UNCHANGED <<dbcount, mysql_type, win32, list>>
    BY DEF RecordSet
<1> QED
    BY <1>7, <1>8, <1>9

-----------------------------------------------------------------------------
(* The invariant.                                                           *)

LEMMA InitMInv == Init => MInv
<1> SUFFICES ASSUME Init PROVE MInv
    OBVIOUS
<1>1. PICK c \in P!Connections :
        /\ c.m_nStatus \in {"INIT", "UNKNOWN"} /\ ~ c.m_strDB /\ c.m_dbCon = "null"
        /\ ~ c.m_myres /\ c.stored = 0 /\ ~ c.vio /\ c.err = "none"
        /\ ~ c.cur /\ c.more = 0
        /\ conn = [i \in Dbs |-> c]
    BY SameTypes DEF Init
<1>2. P!Good(c)
    BY <1>1 DEF P!Good
<1> DEFINE l == [call |-> "none", rc |-> "OK", applied |-> 0, here |-> "no"]
<1>3. l \in LastTypes
    BY DEF LastTypes, P!Calls, P!Codes
<1>4. last = [i \in Dbs |-> l]
    BY DEF Init
<1>5. ASSUME NEW i \in Dbs PROVE Sound(i)
    BY <1>1, <1>2, <1>4 DEF Sound
<1>6. conn \in [Dbs -> P!Connections] /\ last \in [Dbs -> LastTypes]
    BY <1>1, <1>3, <1>4
<1>7. monitor \in MonitorTypes /\ monitor.pc = "connect" /\ monitor.i = 0 /\ monitor.rows = "NULL"
    BY MonitorAssumption DEF Init, MonitorTypes, PCs, P!Codes
<1>8. report \in ReportTypes /\ report.tables = 0 /\ report.fields = 0
    BY MonitorAssumption DEF Init, ReportTypes, Fields
<1>9. list \in Seq(1 .. dbcount) /\ Len(list) = 0
    BY DEF Init
<1>10. dbcount \in 0 .. MaxDbs /\ dbcount \in Nat
    BY MonitorAssumption DEF Init
<1>11. Typed
    BY <1>6, <1>7, <1>8, <1>9, <1>10 DEF Init, Typed
<1>12. Walking /\ Counting /\ Reading
    BY <1>7, <1>8, <1>9, <1>10 DEF Walking, Counting, Reading
<1> QED
    BY <1>5, <1>11, <1>12 DEF MInv

\* The process ends, or goes on: nothing else changes.
LEMMA EndsMInv ==
    ASSUME MInv, NEW how \in {"up", "gone", "null", "range", "ended"},
           process' = how, UNCHANGED <<dbcount, mysql_type, win32, conn, last, list, monitor, report>>
    PROVE  MInv'
<1>1. \A j \in Dbs : Sound(j)'
    BY KeptSound DEF MInv
<1>2. Typed'
    BY DEF MInv, Typed
<1>3. (Walking /\ Counting)'
    BY DEF MInv, Walking, Counting, TablesBefore
<1>4. Reading'
    BY Zenon DEF MInv, Reading, P!Empty
<1> QED
    BY <1>1, <1>2, <1>3, <1>4 DEF MInv

-----------------------------------------------------------------------------
(* The actions.                                                             *)

LEMMA ConnectMInv == MInv /\ Connect => MInv'
<1> SUFFICES ASSUME MInv, Connect PROVE MInv'
    OBVIOUS
<1> DEFINE i == monitor.i + 1
<1>1. /\ Typed /\ (\A j \in Dbs : Sound(j)) /\ monitor \in MonitorTypes
      /\ dbcount \in Nat /\ dbcount <= MaxDbs /\ MaxDbs \in Nat
      /\ monitor.pc = "connect" /\ monitor.i < dbcount /\ monitor.i \in Nat
      /\ Len(list) <= monitor.i
    BY MonitorAssumption DEF MInv, Typed, MonitorTypes, Walking, Connect, At
<1>2. i \in Dbs /\ i \in 1 .. dbcount
    BY <1>1 DEF Dbs
<1>3. PICK o \in Client!connect_string(conn[i]) :
        /\ Calls(i, "connect", o)
        /\ list' = IF HasNoErrorNumber(o) THEN Append(list, i) ELSE list
    BY Zenon DEF Connect
<1>4. /\ monitor' = [monitor EXCEPT !.i = @ + 1]
      /\ UNCHANGED <<dbcount, mysql_type, win32, report, process>>
    BY DEF Connect
<1>5. monitor' \in MonitorTypes /\ monitor'.pc = "connect" /\ monitor'.i = i /\ monitor'.rows = monitor.rows
      /\ monitor'.rc = monitor.rc
    BY <1>1, <1>4 DEF MonitorTypes
<1>6. list' \in Seq(1 .. dbcount) /\ Len(list') \in Nat /\ Len(list') <= i
    <2>1. list \in Seq(1 .. dbcount) /\ Len(list) \in Nat
        BY <1>1 DEF Typed
    <2>2. /\ Append(list, i) \in Seq(1 .. dbcount)
          /\ Len(Append(list, i)) = Len(list) + 1
        BY <1>2, <2>1
    <2>3. Len(list) + 1 <= i /\ Len(list) <= i
        BY <1>1, <2>1
    <2>4. list' = Append(list, i) \/ list' = list
        BY <1>3
    <2>5. CASE list' = list
        BY <2>1, <2>3, <2>5
    <2>6. CASE list' = Append(list, i)
        <3>1. list' \in Seq(1 .. dbcount) /\ Len(list') = Len(list) + 1
            BY <2>2, <2>6, Zenon
        <3> QED
            BY <2>1, <2>3, <3>1
    <2> QED
        BY <2>4, <2>5, <2>6
<1> HIDE DEF i
<1>7. Allowed(i, "connect", o)
    BY <1>1, <1>2, <1>3, Outcomes
<1>8. "connect" \in P!Calls
    BY DEF P!Calls
<1>9. /\ conn' \in [Dbs -> P!Connections] /\ last' \in [Dbs -> LastTypes]
      /\ \A j \in Dbs : Sound(j)'
    BY <1>1, <1>2, <1>3, <1>7, <1>8, CallFacts
<1>10. Typed'
    <2>1. Len(list') <= dbcount
        BY <1>1, <1>2, <1>6
    <2> QED
        BY <1>1, <1>4, <1>5, <1>6, <1>9, <2>1 DEF Typed
<1>11. Walking'
    BY <1>2, <1>4, <1>5, <1>6 DEF Walking
<1>12. Counting'
    BY <1>1, <1>4, <1>5 DEF MInv, Counting, TablesBefore
<1>13. Reading'
    BY <1>5 DEF MInv, Reading
<1> QED
    BY <1>9, <1>10, <1>11, <1>12, <1>13 DEF MInv

LEMMA ConstructedMInv == MInv /\ Constructed => MInv'
<1> SUFFICES ASSUME MInv, Constructed PROVE MInv'
    OBVIOUS
<1>1. \A j \in Dbs : Sound(j)'
    BY KeptSound DEF MInv, Constructed
<1>2. /\ monitor' \in MonitorTypes /\ monitor'.pc = "rest" /\ monitor'.rows = monitor.rows
      /\ monitor'.rc = monitor.rc
    <2>1. monitor \in MonitorTypes /\ monitor' = [monitor EXCEPT !.pc = "rest", !.i = 0]
        BY DEF MInv, Typed, Constructed
    <2>2. 0 \in 0 .. MaxDbs + 1 /\ "rest" \in PCs
        BY MonitorAssumption DEF PCs
    <2> QED
        BY <2>1, <2>2 DEF MonitorTypes
<1>3. Typed'
    BY <1>2 DEF MInv, Typed, Constructed
<1>4. report'.tables = 0
    BY DEF MInv, Counting, Constructed, At
<1> QED
    BY <1>1, <1>2, <1>3, <1>4 DEF MInv, Walking, Counting, Reading

LEMMA WriteBlankMInv == MInv /\ WriteBlank => MInv'
<1> SUFFICES ASSUME MInv, WriteBlank PROVE MInv'
    OBVIOUS
<1>1. \A j \in Dbs : Sound(j)'
    BY KeptSound DEF MInv, WriteBlank
<1>2. report' \in ReportTypes /\ report'.fields = Fields /\ report'.tables = 5
    BY MonitorAssumption DEF WriteBlank, ReportTypes, Fields
<1>3. Typed'
    BY <1>2 DEF MInv, Typed, WriteBlank
<1>4. monitor'.pc = "rest" /\ monitor' = monitor /\ list' = <<>>
    BY DEF WriteBlank, At
<1> QED
    BY <1>1, <1>2, <1>3, <1>4 DEF MInv, Walking, Counting, TablesBefore, Reading

LEMMA StartWriteMInv == MInv /\ StartWrite => MInv'
<1> SUFFICES ASSUME MInv, StartWrite PROVE MInv'
    OBVIOUS
<1>1. \A j \in Dbs : Sound(j)'
    BY KeptSound DEF MInv, StartWrite
<1> DEFINE slaves == mysql_type = "MYSQL_MASTER_SLAVE"
           next == IF slaves THEN "slaves" ELSE AfterSlaves
<1>2. /\ next \in {"slaves", "show", "proc"} /\ (next = "slaves" <=> slaves)
      /\ next = "show" => mysql_type = "MYSQL_NDB" /\ ~ win32
      /\ next = "proc" => mysql_type # "MYSQL_NDB" \/ win32
    BY DEF AfterSlaves
<1>3. list[1] \in 1 .. dbcount /\ list[1] \in 0 .. MaxDbs
    <2>1. list \in Seq(1 .. dbcount) /\ list # <<>> /\ dbcount \in 0 .. MaxDbs
        BY DEF MInv, Typed, StartWrite
    <2> QED
        BY <2>1, MonitorAssumption
<1>4. monitor' = [monitor EXCEPT !.i = 1, !.at = list[1], !.rows = "NULL", !.short = FALSE, !.pc = next]
    BY DEF StartWrite
<1>5. report' = [tables |-> IF slaves THEN 0 ELSE FirstTables, fields |-> 0]
    BY DEF StartWrite
<1> HIDE DEF next
<1>6. /\ monitor' \in MonitorTypes /\ monitor'.pc = next /\ monitor'.at = list[1]
      /\ monitor'.rows = "NULL" /\ monitor'.i = 1
    <2>1. monitor \in MonitorTypes
        BY DEF MInv, Typed
    <2>2. 1 \in 0 .. MaxDbs + 1 /\ next \in PCs
        BY <1>2, MonitorAssumption DEF PCs
    <2> QED
        BY <1>3, <1>4, <2>1, <2>2 DEF MonitorTypes
<1>7. report' \in ReportTypes /\ report'.fields = 0 /\ report'.tables = IF slaves THEN 0 ELSE FirstTables
    BY <1>5, MonitorAssumption DEF ReportTypes, Fields, FirstTables
<1>8. Typed'
    BY <1>6, <1>7 DEF MInv, Typed, StartWrite
<1>9. UNCHANGED <<dbcount, mysql_type, win32, list>> /\ list # <<>>
    BY DEF StartWrite
<1>10. win32 \in BOOLEAN
    BY DEF MInv, Typed
<1>11. Counting'
    BY <1>2, <1>6, <1>7, <1>9, <1>10 DEF Counting, FirstTables, TablesBefore
<1> QED
    BY <1>1, <1>2, <1>3, <1>6, <1>8, <1>9, <1>11 DEF MInv, Walking, Reading

\* An element of the list is a connection.
LEMMA Listed ==
    ASSUME Typed, NEW k \in Nat, 1 <= k, k <= Len(list)
    PROVE  list[k] \in 1 .. dbcount
BY DEF Typed

\* execute from a place of write to the one that takes its result.
LEMMA ExecuteMInv ==
    ASSUME MInv, NEW i \in 1 .. dbcount, NEW next \in {"slave_rows", "proc_row", "status_rows"},
           Execute(i, next),
           next = "slave_rows" => monitor.pc = "slaves" /\ monitor.i <= dbcount,
           next = "proc_row" => monitor.pc = "proc",
           next = "status_rows" => monitor.pc = "status"
    PROVE  MInv'
<1>1. next \in PCs
    BY DEF PCs
<1>2. /\ Typed' /\ \A j \in Dbs : Sound(j)'
      /\ monitor'.pc = next /\ monitor'.at = i /\ monitor'.rows = "NULL"
      /\ monitor'.i = monitor.i /\ monitor'.short = monitor.short
      /\ monitor'.rc # "OK" => conn'[i].m_nStatus # "OPEN" \/ P!Empty(conn'[i])
      /\ UNCHANGED <<dbcount, mysql_type, win32, list, report, process>>
    BY <1>1, ExecuteStep
<1>3. Walking'
    <2>1. next = "slave_rows" => monitor.i >= 1
        BY DEF MInv, Walking
    <2> QED
        BY <1>2, <2>1 DEF Walking
<1>4. Counting'
    BY <1>2 DEF MInv, Counting, TablesBefore
<1>5. Reading'
    BY <1>2 DEF Reading, P!Empty
<1> QED
    BY <1>2, <1>3, <1>4, <1>5 DEF MInv

LEMMA SlaveRowsMInv == MInv /\ SlaveRows => MInv'
<1> SUFFICES ASSUME MInv, SlaveRows PROVE MInv'
    OBVIOUS
<1>1. PICK rows \in {"NULL", "none", "some"} :
        /\ RecordSet(rows)
        /\ monitor' = [monitor EXCEPT !.pc = "slaves", !.i = @ + 1, !.rows = rows]
    BY Zenon DEF SlaveRows
<1>2. /\ monitor.pc = "slave_rows" /\ monitor \in MonitorTypes /\ Typed
      /\ monitor.i + 1 \in 0 .. MaxDbs + 1 /\ "slaves" \in PCs
    BY MonitorAssumption DEF MInv, Typed, MonitorTypes, Walking, SlaveRows, At, PCs
<1>3. /\ conn' \in [Dbs -> P!Connections] /\ last' \in [Dbs -> LastTypes]
      /\ \A j \in Dbs : Sound(j)'
      /\ rows # "NULL" => monitor.rc = "OK"
      /\ UNCHANGED <<dbcount, mysql_type, win32, list>>
    BY <1>1, <1>2, RecordSetStep
<1>4. UNCHANGED <<report, process>>
    BY DEF SlaveRows
<1>5. /\ monitor' \in MonitorTypes /\ monitor'.pc = "slaves" /\ monitor'.at = monitor.at
      /\ monitor'.i = monitor.i + 1
      /\ monitor'.rows = rows /\ monitor'.rc = monitor.rc /\ monitor'.short = monitor.short
    BY <1>1, <1>2 DEF MonitorTypes
<1>6. Typed'
    BY <1>2, <1>3, <1>4, <1>5 DEF Typed
<1>7. Walking'
    <2>1. monitor'.i >= 1
        BY <1>2, <1>5 DEF MInv, Walking, MonitorTypes
    <2> QED
        BY <1>2, <1>3, <1>5, <2>1 DEF MInv, Walking
<1>8. Counting'
    BY <1>2, <1>3, <1>4, <1>5 DEF MInv, Counting, TablesBefore
<1>9. Reading'
    BY <1>3, <1>5 DEF Reading
<1> QED
    BY <1>3, <1>6, <1>7, <1>8, <1>9 DEF MInv

\* A step of write that asks no connection for anything.
LEMMA GoesMInv ==
    ASSUME MInv, monitor.pc \in {"slaves", "show", "memory"},
           monitor' \in MonitorTypes, monitor'.pc \in {"memory", "proc"}, monitor'.at = monitor.at,
           monitor'.rows = monitor.rows, monitor'.rc = monitor.rc,
           report' \in ReportTypes, report'.fields = 0,
           monitor'.pc = "memory" => monitor.pc = "show" /\ report'.tables = 4,
           monitor'.pc = "proc" => report'.tables = TablesBefore,
           UNCHANGED <<dbcount, mysql_type, win32, conn, last, list, process>>
    PROVE  MInv'
<1>1. \A j \in Dbs : Sound(j)'
    BY KeptSound DEF MInv
<1>2. Typed'
    BY DEF MInv, Typed
<1>3. Walking'
    BY DEF MInv, Walking
<1>4. Counting'
    BY DEF MInv, Counting, TablesBefore
<1>5. Reading'
    BY DEF MInv, Reading
<1> QED
    BY <1>1, <1>2, <1>3, <1>4, <1>5 DEF MInv

LEMMA TablesMInv == MInv /\ (SlavesDone \/ Show \/ MemoryUsage) => MInv'
<1> SUFFICES ASSUME MInv, SlavesDone \/ Show \/ MemoryUsage PROVE MInv'
    OBVIOUS
<1>1. monitor \in MonitorTypes /\ report \in ReportTypes /\ {"memory", "proc"} \subseteq PCs
    BY DEF MInv, Typed, PCs
<1>2. ASSUME Goes("proc")
      PROVE  /\ monitor' \in MonitorTypes /\ monitor'.pc = "proc" /\ monitor'.at = monitor.at
             /\ monitor'.rows = monitor.rows /\ monitor'.rc = monitor.rc
    BY <1>1, <1>2 DEF Goes, MonitorTypes
<1>3. ASSUME \/ monitor.pc = "slaves" /\ Appends(FirstTables, 0)
             \/ monitor.pc = "memory" /\ Appends(1, 0)
      PROVE  report' \in ReportTypes /\ report'.fields = 0 /\ report'.tables = TablesBefore
    <2>1. FirstTables \in {1, 5} /\ win32 \in BOOLEAN /\ (FirstTables = 5 <=> win32)
        BY DEF MInv, Typed, FirstTables
    <2>2. CASE monitor.pc = "slaves" /\ Appends(FirstTables, 0)
        <3>1. /\ report.tables = 0 /\ report.fields = 0
              /\ mysql_type = "MYSQL_MASTER_SLAVE" /\ list # <<>>
            BY <2>2 DEF MInv, Counting
        <3> QED
            BY <1>1, <2>1, <2>2, <3>1 DEF Appends, ReportTypes, TablesBefore
    <2>3. CASE monitor.pc = "memory" /\ Appends(1, 0)
        <3>1. report.tables = 4 /\ report.fields = 0 /\ mysql_type = "MYSQL_NDB"
            BY <2>3 DEF MInv, Counting
        <3> QED
            BY <1>1, <2>3, <3>1 DEF Appends, ReportTypes, TablesBefore
    <2> QED
        BY <1>3, <2>2, <2>3
<1>4. CASE SlavesDone
    <2>1. /\ monitor.pc = "slaves" /\ Goes("proc") /\ Appends(FirstTables, 0)
          /\ UNCHANGED <<dbcount, mysql_type, win32, conn, last, list, process>>
        BY <1>4 DEF SlavesDone, At
    <2> QED
        BY <1>2, <1>3, <2>1, GoesMInv
<1>5. CASE Show
    <2>1. PICK S \in SUBSET Nodes : monitor' = [monitor EXCEPT !.pc = "memory", !.map_id_ip = S]
        BY <1>5 DEF Show
    <2>2. /\ monitor.pc = "show" /\ Appends(3, 0)
          /\ UNCHANGED <<dbcount, mysql_type, win32, conn, last, list, process>>
        BY <1>5 DEF Show, At
    <2>3. /\ monitor' \in MonitorTypes /\ monitor'.pc = "memory" /\ monitor'.at = monitor.at
          /\ monitor'.rows = monitor.rows /\ monitor'.rc = monitor.rc
        BY <1>1, <2>1 DEF MonitorTypes
    <2>4. report' \in ReportTypes /\ report'.fields = 0 /\ report'.tables = 4
        BY <1>1, <2>2 DEF MInv, Counting, Appends, ReportTypes
    <2> QED
        BY <2>2, <2>3, <2>4, GoesMInv
<1>6. CASE MemoryUsage
    <2>1. /\ monitor.pc = "memory" /\ UNCHANGED <<dbcount, mysql_type, win32, conn, last, list>>
          /\ \/ Goes("proc") /\ Appends(1, 0) /\ UNCHANGED process
             \/ process' \in {"ended", "null"} /\ UNCHANGED <<monitor, report>>
        BY <1>6 DEF MemoryUsage, At
    <2>2. CASE Goes("proc") /\ Appends(1, 0) /\ UNCHANGED process
        BY <1>2, <1>3, <2>1, <2>2, GoesMInv
    <2>3. CASE process' \in {"ended", "null"} /\ UNCHANGED <<monitor, report>>
        BY <2>1, <2>3, EndsMInv
    <2> QED
        BY <2>1, <2>2, <2>3
<1> QED
    BY <1>4, <1>5, <1>6

\* A record set taken in the report of the statement just run.
LEMMA FieldsMInv ==
    ASSUME MInv, monitor.pc \in {"proc_row", "status_rows"},
           NEW rows \in {"NULL", "none", "some"}, RecordSet(rows),
           monitor' \in MonitorTypes, monitor'.rows = rows, monitor'.rc = monitor.rc,
           monitor'.at = monitor.at, monitor'.i = monitor.i \/ monitor'.pc = "rest",
           monitor'.pc \in {monitor.pc, "status", "rest"},
           monitor'.pc = "status" => monitor.pc = "proc_row",
           monitor'.pc = "rest" => monitor.pc = "status_rows",
           monitor'.pc = monitor.pc => monitor.pc = "proc_row" /\ rows = "none" /\ UNCHANGED report,
           report' \in ReportTypes, report'.tables = report.tables,
           monitor'.pc = "status" =>
               report'.fields <= 1 /\ (~ monitor'.short => report'.fields = 1),
           monitor'.pc = "rest" /\ ~ monitor'.short => report'.fields = Fields,
           process' \in {"up", "null"}
    PROVE  MInv'
<1>1. /\ conn' \in [Dbs -> P!Connections] /\ last' \in [Dbs -> LastTypes]
      /\ \A j \in Dbs : Sound(j)'
      /\ rows # "NULL" => monitor.rc = "OK"
      /\ UNCHANGED <<dbcount, mysql_type, win32, list>>
    BY RecordSetStep
<1>2. Typed'
    BY <1>1 DEF MInv, Typed
<1>3. Walking'
    BY <1>1 DEF MInv, Walking
<1>4. Counting'
    BY <1>1 DEF MInv, Counting, TablesBefore
<1>5. Reading'
    <2>1. monitor'.rows # "NULL" => monitor'.rc = "OK"
        BY <1>1
    <2>2. CASE monitor'.pc \notin {"slave_rows", "proc_row", "status_rows"}
        BY <2>1, <2>2 DEF Reading
    <2>3. CASE monitor'.pc = monitor.pc
        BY <1>1, <2>1, <2>3 DEF Reading
    <2> QED
        BY <2>2, <2>3
<1> QED
    BY <1>1, <1>2, <1>3, <1>4, <1>5 DEF MInv

LEMMA ProcMInv == MInv /\ (ProcNull \/ ProcRow \/ ProcNoRow) => MInv'
<1> SUFFICES ASSUME MInv, ProcNull \/ ProcRow \/ ProcNoRow PROVE MInv'
    OBVIOUS
<1>1. /\ monitor \in MonitorTypes /\ report \in ReportTypes /\ "status" \in PCs
      /\ process \in {"up", "gone", "null", "range", "ended"}
      /\ monitor.pc = "proc_row" /\ process = "up" /\ report.fields = 0
    BY DEF MInv, Typed, PCs, Counting, ProcNull, ProcRow, ProcNoRow, At
<1>2. CASE ProcNull
    <2>1. /\ RecordSet("NULL") /\ UNCHANGED process
          /\ monitor' = [monitor EXCEPT !.pc = "status", !.rows = "NULL"]
        BY <1>2 DEF ProcNull
    <2>2. /\ monitor' \in MonitorTypes /\ monitor'.pc = "status" /\ monitor'.at = monitor.at
          /\ monitor'.rows = "NULL" /\ monitor'.rc = monitor.rc /\ monitor'.i = monitor.i
        BY <1>1, <2>1 DEF MonitorTypes
    <2>3. report' \in ReportTypes /\ report'.tables = report.tables /\ report'.fields = 1
        BY <1>1, <1>2, MonitorAssumption DEF ProcNull, Appends, ReportTypes, Fields
    <2> QED
        BY <1>1, <2>1, <2>2, <2>3, FieldsMInv
<1>3. CASE ProcRow
    <2>1. PICK isNull \in BOOLEAN :
            /\ Appends(0, IF isNull THEN 0 ELSE 1)
            /\ monitor' = [monitor EXCEPT !.pc = "status", !.rows = "some", !.short = @ \/ isNull]
        BY <1>3, Zenon DEF ProcRow
    <2>2. RecordSet("some") /\ UNCHANGED process
        BY <1>3 DEF ProcRow
    <2>3. /\ monitor' \in MonitorTypes /\ monitor'.pc = "status" /\ monitor'.at = monitor.at
          /\ monitor'.rows = "some" /\ monitor'.rc = monitor.rc /\ monitor'.i = monitor.i
          /\ ~ monitor'.short => ~ isNull
        <3>1. (monitor.short \/ isNull) \in BOOLEAN
            OBVIOUS
        <3> QED
            BY <1>1, <2>1, <3>1 DEF MonitorTypes
    <2>4. /\ report' \in ReportTypes /\ report'.tables = report.tables
          /\ report'.fields = IF isNull THEN 0 ELSE 1
        BY <1>1, <2>1, MonitorAssumption DEF Appends, ReportTypes, Fields
    <2> QED
        BY <1>1, <2>2, <2>3, <2>4, FieldsMInv
<1>4. CASE ProcNoRow
    <2>1. /\ RecordSet("none") /\ process' = "null" /\ UNCHANGED report
          /\ monitor' = [monitor EXCEPT !.rows = "none"]
        BY <1>4 DEF ProcNoRow
    <2>2. /\ monitor' \in MonitorTypes /\ monitor'.pc = monitor.pc /\ monitor'.at = monitor.at
          /\ monitor'.rows = "none" /\ monitor'.rc = monitor.rc /\ monitor'.i = monitor.i
        BY <1>1, <2>1 DEF MonitorTypes
    <2> QED
        BY <1>1, <2>1, <2>2, FieldsMInv
<1> QED
    BY <1>2, <1>3, <1>4

LEMMA StatusFieldsMInv == MInv /\ StatusFields => MInv'
<1> SUFFICES ASSUME MInv, StatusFields PROVE MInv'
    OBVIOUS
<1>1. PICK n \in 0 .. StatusRows :
        /\ \E rows \in {"NULL", "none", "some"} :
             /\ RecordSet(rows)
             /\ rows = "NULL" => n = StatusRows
             /\ rows = "none" => n = 0
             /\ rows = "some" => n > 0
             /\ monitor' = [monitor EXCEPT !.pc = "rest", !.i = 0, !.rows = rows,
                              !.short = @ \/ n < StatusRows]
        /\ Appends(0, n)
    BY Zenon DEF StatusFields
<1>2. PICK rows \in {"NULL", "none", "some"} :
        /\ RecordSet(rows)
        /\ monitor' = [monitor EXCEPT !.pc = "rest", !.i = 0, !.rows = rows,
                         !.short = @ \/ n < StatusRows]
    BY <1>1, Zenon
<1>3. /\ monitor \in MonitorTypes /\ report \in ReportTypes /\ "rest" \in PCs
      /\ process = "up" /\ monitor.pc = "status_rows" /\ 0 \in 0 .. MaxDbs + 1
      /\ report.fields <= 1 /\ (~ monitor.short => report.fields = 1)
    BY MonitorAssumption DEF MInv, Typed, PCs, Counting, StatusFields, At
<1>4. UNCHANGED process
    BY DEF StatusFields
<1> DEFINE short == monitor.short \/ n < StatusRows
<1>5. short \in BOOLEAN /\ monitor' = [monitor EXCEPT !.pc = "rest", !.i = 0, !.rows = rows, !.short = short]
    BY <1>2, <1>3
<1>6. ~ short => ~ monitor.short /\ n = StatusRows
    BY <1>1, MonitorAssumption
<1> HIDE DEF short
<1>7. /\ monitor' \in MonitorTypes /\ monitor'.pc = "rest" /\ monitor'.at = monitor.at
      /\ monitor'.rows = rows /\ monitor'.rc = monitor.rc /\ monitor'.short = short
    BY <1>3, <1>5 DEF MonitorTypes
<1>8. /\ report' \in ReportTypes /\ report'.tables = report.tables
      /\ report'.fields = report.fields + n
    BY <1>1, <1>3, MonitorAssumption DEF Appends, ReportTypes, Fields
<1>9. ~ monitor'.short => report'.fields = Fields
    BY <1>3, <1>6, <1>7, <1>8, MonitorAssumption DEF Fields
<1> QED
    BY <1>2, <1>3, <1>4, <1>7, <1>8, <1>9, FieldsMInv

LEMMA StartDeleteMInv == MInv /\ StartDelete => MInv'
<1> SUFFICES ASSUME MInv, StartDelete PROVE MInv'
    OBVIOUS
<1>1. \A j \in Dbs : Sound(j)'
    BY KeptSound DEF MInv, StartDelete
<1>2. /\ monitor' \in MonitorTypes /\ monitor'.pc = "delete" /\ monitor'.rows = monitor.rows
      /\ monitor'.rc = monitor.rc /\ monitor'.i = 1
    <2>1. monitor \in MonitorTypes /\ monitor' = [monitor EXCEPT !.pc = "delete", !.i = 1]
        BY DEF MInv, Typed, StartDelete
    <2>2. 1 \in 0 .. MaxDbs + 1 /\ "delete" \in PCs
        BY MonitorAssumption DEF PCs
    <2> QED
        BY <2>1, <2>2 DEF MonitorTypes
<1>3. Typed'
    BY <1>2 DEF MInv, Typed, StartDelete
<1> QED
    BY <1>1, <1>2, <1>3 DEF MInv, Walking, Counting, Reading

LEMMA DeleteConnectionMInv == MInv /\ DeleteConnection => MInv'
<1> SUFFICES ASSUME MInv, DeleteConnection PROVE MInv'
    OBVIOUS
<1> DEFINE i == list[monitor.i]
<1>1. /\ Typed /\ (\A j \in Dbs : Sound(j)) /\ monitor \in MonitorTypes
      /\ monitor.pc = "delete" /\ monitor.i <= dbcount /\ monitor.i <= Len(list)
      /\ monitor.i \in Nat /\ dbcount <= MaxDbs /\ dbcount \in Nat
      /\ UNCHANGED <<dbcount, mysql_type, win32, list, report, process>>
      /\ monitor' = [monitor EXCEPT !.i = @ + 1]
    BY MonitorAssumption DEF MInv, Typed, MonitorTypes, DeleteConnection, At, InLoop
<1>2. /\ monitor' \in MonitorTypes /\ monitor'.pc = "delete" /\ monitor'.rows = monitor.rows
      /\ monitor'.rc = monitor.rc /\ monitor'.i >= 1
    <2>1. monitor.i + 1 \in 0 .. MaxDbs + 1
        BY <1>1, MonitorAssumption
    <2> QED
        BY <1>1, <2>1 DEF MonitorTypes
<1>3. /\ conn' \in [Dbs -> P!Connections] /\ last' \in [Dbs -> LastTypes]
      /\ \A j \in Dbs : Sound(j)'
    <2>1. \/ UNCHANGED <<conn, last>>
          \/ \E o \in Client!disconnect(conn[i]) : Calls(i, "disconnect", o)
        BY Zenon DEF DeleteConnection
    <2>2. CASE UNCHANGED <<conn, last>>
        BY <1>1, <2>2, KeptSound DEF Typed
    <2>3. ASSUME NEW o \in Client!disconnect(conn[i]), Calls(i, "disconnect", o)
          PROVE  /\ conn' \in [Dbs -> P!Connections] /\ last' \in [Dbs -> LastTypes]
                 /\ \A j \in Dbs : Sound(j)'
        <3>1. monitor.i >= 1
            BY <1>1 DEF MInv, Walking
        <3>2. i \in 1 .. dbcount /\ i \in Dbs
            <4>1. i \in 1 .. dbcount
                BY <1>1, <3>1, Listed
            <4> HIDE DEF i
            <4> QED
                BY <1>1, <4>1, MonitorAssumption DEF Dbs
        <3> HIDE DEF i
        <3>3. Allowed(i, "disconnect", o)
            BY <1>1, <2>3, <3>2, Outcomes
        <3>4. "disconnect" \in P!Calls
            BY DEF P!Calls
        <3> QED
            BY <1>1, <2>3, <3>2, <3>3, <3>4, CallFacts
    <2> QED
        BY <2>1, <2>2, <2>3
<1>4. Typed'
    BY <1>1, <1>2, <1>3 DEF Typed
<1> QED
    BY <1>2, <1>3, <1>4 DEF MInv, Walking, Counting, Reading

LEMMA NextMInv == MInv /\ [Next]_vars => MInv'
<1> SUFFICES ASSUME MInv, [Next]_vars PROVE MInv'
    OBVIOUS
<1>1. CASE Connect \/ Constructed \/ WriteBlank \/ StartWrite
    BY <1>1, ConnectMInv, ConstructedMInv, WriteBlankMInv, StartWriteMInv
<1>2. CASE SlaveExecute
    <2>1. /\ Execute(list[monitor.i], "slave_rows") /\ monitor.pc = "slaves"
          /\ monitor.i <= dbcount /\ monitor.i <= Len(list) /\ monitor.i \in Nat /\ monitor.i >= 1
        BY <1>2 DEF SlaveExecute, At, InLoop, MInv, Typed, MonitorTypes, Walking
    <2>2. list[monitor.i] \in 1 .. dbcount
        BY <2>1, Listed DEF MInv
    <2> QED
        BY <2>1, <2>2, ExecuteMInv
<1>3. CASE ProcExecute
    BY <1>3, ExecuteMInv DEF ProcExecute, At, MInv, Walking
<1>4. CASE StatusExecute
    BY <1>4, ExecuteMInv DEF StatusExecute, At, MInv, Walking
<1>5. CASE SlaveRows \/ SlavesDone \/ Show \/ MemoryUsage
    BY <1>5, SlaveRowsMInv, TablesMInv
<1>6. CASE ProcNull \/ ProcRow \/ ProcNoRow \/ StatusFields
    BY <1>6, ProcMInv, StatusFieldsMInv
<1>7. CASE StartDelete \/ DeleteConnection
    BY <1>7, StartDeleteMInv, DeleteConnectionMInv
<1>8. CASE SlavePastEnd \/ DeletePastEnd \/ Deleted
    <2>1. PICK how \in {"gone", "range"} : Ends(how)
        BY <1>8 DEF SlavePastEnd, DeletePastEnd, Deleted
    <2> QED
        BY <2>1, EndsMInv DEF Ends
<1>9. CASE UNCHANGED vars
    <2>1. process \in {"up", "gone", "null", "range", "ended"}
        BY DEF MInv, Typed
    <2> QED
        BY <1>9, <2>1, EndsMInv DEF vars
<1> QED
    BY <1>1, <1>2, <1>3, <1>4, <1>5, <1>6, <1>7, <1>8, <1>9 DEF Next, Write

-----------------------------------------------------------------------------
(* What follows.                                                            *)

LEMMA Invariant == Spec => []MInv
<1>1. Init => MInv
    BY InitMInv
<1>2. MInv /\ [Next]_vars => MInv'
    BY NextMInv
<1> QED
    BY <1>1, <1>2, PTL DEF Spec

\* Every variable keeps to its type: each of the constructor's connections, the
\* list (with no more entries than databases), and at most five tables and one
\* field more than the status variables in a report of CMysqlMonitor::write.
THEOREM TypeCorrect == Spec => []TypeOK
<1>1. MInv => TypeOK
    <2> SUFFICES ASSUME MInv PROVE TypeOK
        OBVIOUS
    <2>1. \A i \in Dbs : Connection(i)!TypeOK
        BY SameTypes DEF MInv, Typed
    <2>2. \A k \in 1 .. Len(list) : list[k] \in 1 .. dbcount
        BY Listed DEF MInv, Typed
    <2>3. monitor \in [pc : PCs, i : 0 .. MaxDbs + 1, at : 0 .. MaxDbs,
                       rc : Client!Codes, rows : {"NULL", "none", "some"},
                       short : BOOLEAN, map_id_ip : SUBSET Nodes]
        BY SameTypes DEF MInv, Typed, MonitorTypes
    <2> QED
        BY <2>1, <2>2, <2>3 DEF MInv, Typed, ReportTypes, TypeOK
<1> QED
    BY <1>1, Invariant, PTL

\* Although write ignores what execute answers, the rows get_record_set gives it
\* are always of the statement just run.
THEOREM StatementRows == Spec => []RowsOfThisStatement
<1>1. MInv => RowsOfThisStatement
    BY DEF MInv, Reading, RowsOfThisStatement
<1> QED
    BY <1>1, Invariant, PTL

\* However many statements of a write failed, its fields stand behind as many
\* tables as the build, the type and whether there is any connection say (five,
\* or one in the Linux build's general and master-slave reports), and none of
\* them is left out unless the server answered with a NULL or with fewer
\* variables than were asked for.
THEOREM Places == Spec => []FieldsInPlace
<1>1. MInv => FieldsInPlace
    BY DEF MInv, Counting, FieldsInPlace
<1> QED
    BY <1>1, Invariant, PTL

\* What MysqlConnection promises its callers holds of every connection the
\* monitor makes: results are freed once, a statement of write takes effect at
\* most once and has if execute said so, no command meets waiting results, and
\* the dangling m_dbCon is not used.
THEOREM ConnectionsInProgram ==
    Spec => [](\A i \in Dbs : /\ Connection(i)!OkMeansApplied /\ Connection(i)!AppliedOnce
                              /\ Connection(i)!ResultsFreedOnce /\ Connection(i)!NeverOutOfSync
                              /\ Connection(i)!DanglingNotUsed)
<1>1. ASSUME MInv, NEW i \in Dbs
      PROVE  /\ Connection(i)!OkMeansApplied /\ Connection(i)!AppliedOnce
             /\ Connection(i)!ResultsFreedOnce /\ Connection(i)!NeverOutOfSync
             /\ Connection(i)!DanglingNotUsed
    <2>1. Sound(i)
        BY <1>1 DEF MInv
    <2> QED
        BY <2>1 DEF Sound, P!Good, Connection!OkMeansApplied, Connection!AppliedOnce,
                    Connection!ResultsFreedOnce, Connection!NeverOutOfSync,
                    Connection!DanglingNotUsed
<1>2. MInv => \A i \in Dbs :
        /\ Connection(i)!OkMeansApplied /\ Connection(i)!AppliedOnce
        /\ Connection(i)!ResultsFreedOnce /\ Connection(i)!NeverOutOfSync
        /\ Connection(i)!DanglingNotUsed
    BY <1>1
<1> QED
    BY <1>2, Invariant, PTL

-----------------------------------------------------------------------------
(* The monitor as the caller of its connections.                            *)

\* One step of connection i.
ConnectionStep(i) == [Connection(i)!Next]_(Connection(i)!vars)

LEMMA InitConnections == Init => \A i \in Dbs : Connection(i)!Init
<1> SUFFICES ASSUME Init, NEW i \in Dbs PROVE Connection(i)!Init
    OBVIOUS
<1>1. PICK c \in P!Connections :
        /\ c.m_nStatus \in {"INIT", "UNKNOWN"} /\ ~ c.m_strDB /\ c.m_dbCon = "null"
        /\ ~ c.m_myres /\ c.stored = 0 /\ ~ c.vio /\ c.err = "none"
        /\ ~ c.cur /\ c.more = 0
        /\ conn = [k \in Dbs |-> c]
    BY SameTypes DEF Init
<1>2. conn[i] = c /\ last[i] = [call |-> "none", rc |-> "OK", applied |-> 0, here |-> "no"]
    BY <1>1 DEF Init
<1>3. c \in [m_nStatus : {"INIT", "UNKNOWN"},
             m_strDB : {FALSE}, m_dbCon : {"null"}, m_myres : {FALSE}, stored : {0},
             vio : {FALSE}, err : {"none"}, cur : {FALSE}, more : {0}]
    BY <1>1 DEF P!Connections
<1> QED
    BY <1>2, <1>3 DEF Connection!Init

\* A call of one connection is a step of it and of no other.
LEMMA CallSteps ==
    ASSUME Typed, NEW i \in Dbs, NEW call, NEW o, Calls(i, call, o), NEW S, o \in S,
           Connection(i)!Does(call, S) => Connection(i)!Next
    PROVE  \A j \in Dbs : ConnectionStep(j)
<1> DEFINE l == [call |-> call, rc |-> o.rc, applied |-> o.applied, here |-> o.here]
<1>1. /\ conn \in [Dbs -> P!Connections] /\ last \in [Dbs -> LastTypes]
      /\ conn' = [conn EXCEPT ![i] = o.c] /\ last' = [last EXCEPT ![i] = l]
    BY DEF Typed, Calls
<1>2. conn'[i] = o.c /\ last'[i] = l
    BY <1>1
<1>3. Connection(i)!Does(call, S)
    BY <1>2 DEF Connection!Does
<1> HIDE DEF l
<1>4. ASSUME NEW j \in Dbs, j # i PROVE ConnectionStep(j)
    <2>1. conn'[j] = conn[j] /\ last'[j] = last[j]
        BY <1>1, <1>4
    <2> QED
        BY <2>1 DEF ConnectionStep, Connection!vars
<1>5. ConnectionStep(i)
    BY <1>3 DEF ConnectionStep
<1> QED
    BY <1>4, <1>5

LEMMA NoCallSteps ==
    ASSUME UNCHANGED <<conn, last>>
    PROVE  \A j \in Dbs : ConnectionStep(j)
BY DEF ConnectionStep, Connection!vars

LEMMA ExecuteSteps ==
    ASSUME Typed, NEW i \in Dbs, NEW next, Execute(i, next)
    PROVE  \A j \in Dbs : ConnectionStep(j)
<1>0. Client!execute(conn[i], TRUE) = Connection(i)!execute(conn[i], TRUE)
    BY SameExecute
<1>1. PICK o \in Client!execute(conn[i], TRUE) : Calls(i, "execute", o)
    BY Zenon DEF Execute
<1>2. Connection(i)!Does("execute", Connection(i)!execute(conn[i], TRUE)) => Connection(i)!Next
    BY DEF Connection!Next, Connection!Execute
<1> QED
    BY <1>0, <1>1, <1>2, CallSteps

LEMMA RecordSetSteps ==
    ASSUME Typed, monitor.at \in Dbs, NEW rows, RecordSet(rows)
    PROVE  \A j \in Dbs : ConnectionStep(j)
<1> DEFINE i == monitor.at
<1>1. PICK o \in Connection(i)!get_record_set(conn[i]) : Calls(i, "get_record_set", o)
    BY SameRecordSet, Zenon DEF RecordSet
<1>2. Connection(i)!Does("get_record_set", Connection(i)!get_record_set(conn[i]))
        => Connection(i)!Next
    BY DEF Connection!Next, Connection!GetRecordSet
<1> QED
    BY <1>1, <1>2, CallSteps

LEMMA StepConnections == MInv /\ [Next]_vars => \A j \in Dbs : ConnectionStep(j)
<1> SUFFICES ASSUME MInv, [Next]_vars PROVE \A j \in Dbs : ConnectionStep(j)
    OBVIOUS
<1>1. Typed /\ dbcount \in Nat /\ dbcount <= MaxDbs /\ MaxDbs \in Nat /\ monitor.i \in Nat
    BY MonitorAssumption DEF MInv, Typed, MonitorTypes
<1>2. \A k \in 1 .. dbcount : k \in Dbs
    BY <1>1 DEF Dbs
<1>3. monitor.pc \notin {"connect", "rest", "delete"} => monitor.at \in Dbs
    BY <1>2 DEF MInv, Walking
<1>4. CASE Connect
    <2> DEFINE i == monitor.i + 1
    <2>1. i \in Dbs
        BY <1>1, <1>4 DEF Connect, Dbs
    <2>2. PICK o \in Connection(i)!connect_string(conn[i]) : Calls(i, "connect", o)
        BY <1>4, SameConnect, Zenon DEF Connect
    <2>3. Connection(i)!Does("connect", Connection(i)!connect_string(conn[i])) => Connection(i)!Next
        BY DEF Connection!Next, Connection!Connect
    <2> HIDE DEF i
    <2> QED
        BY <1>1, <2>1, <2>2, <2>3, CallSteps
<1>5. CASE SlaveExecute
    <2>1. Execute(list[monitor.i], "slave_rows") /\ monitor.i <= Len(list) /\ monitor.i >= 1
        BY <1>5 DEF SlaveExecute, At, MInv, Walking
    <2>2. list[monitor.i] \in Dbs
        BY <1>1, <1>2, <2>1, Listed
    <2> QED
        BY <1>1, <2>1, <2>2, ExecuteSteps
<1>6. CASE ProcExecute \/ StatusExecute
    BY <1>1, <1>3, <1>6, ExecuteSteps DEF ProcExecute, StatusExecute, At
<1>7. CASE SlaveRows \/ ProcNull \/ ProcRow \/ ProcNoRow \/ StatusFields
    <2>1. monitor.pc \in {"slave_rows", "proc_row", "status_rows"}
        BY <1>7 DEF SlaveRows, ProcNull, ProcRow, ProcNoRow, StatusFields, At
    <2>2. PICK rows : RecordSet(rows)
        BY <1>7, Zenon DEF SlaveRows, ProcNull, ProcRow, ProcNoRow, StatusFields
    <2> QED
        BY <1>1, <1>3, <2>1, <2>2, RecordSetSteps
<1>8. CASE DeleteConnection
    <2> DEFINE i == list[monitor.i]
    <2>1. /\ monitor.i <= Len(list) /\ monitor.i >= 1
          /\ \/ UNCHANGED <<conn, last>>
             \/ /\ conn[i].m_nStatus # "UNKNOWN"
                /\ \E o \in Client!disconnect(conn[i]) : Calls(i, "disconnect", o)
        BY <1>8, Zenon DEF DeleteConnection, At, MInv, Walking
    <2>2. i \in Dbs
        BY <1>1, <1>2, <2>1, Listed
    <2>3. ASSUME conn[i].m_nStatus # "UNKNOWN",
                 NEW o \in Connection(i)!disconnect(conn[i]), Calls(i, "disconnect", o)
          PROVE  \A j \in Dbs : ConnectionStep(j)
        <3>1. Connection(i)!Does("disconnect", Connection(i)!disconnect(conn[i]))
                => Connection(i)!Next
            BY <2>3 DEF Connection!Next, Connection!Disconnect
        <3> HIDE DEF i
        <3> QED
            BY <1>1, <2>2, <2>3, <3>1, CallSteps
    <2>4. Client!disconnect(conn[i]) = Connection(i)!disconnect(conn[i])
        BY SameDisconnect
    <2> HIDE DEF i
    <2> QED
        BY <2>1, <2>3, <2>4, NoCallSteps
<1>9. CASE \/ Constructed \/ WriteBlank \/ StartWrite \/ SlavePastEnd \/ SlavesDone \/ Show
            \/ MemoryUsage \/ StartDelete \/ DeletePastEnd \/ Deleted \/ UNCHANGED vars
    <2>1. UNCHANGED <<conn, last>>
        BY <1>9 DEF Constructed, WriteBlank, StartWrite, SlavePastEnd, SlavesDone, Show,
                     MemoryUsage, StartDelete, DeletePastEnd, Deleted, Ends, vars
    <2> QED
        BY <2>1, NoCallSteps
<1> QED
    BY <1>4, <1>5, <1>6, <1>7, <1>8, <1>9 DEF Next, Write

\* Every call that the constructor, write and the destructor of CMysqlMonitor make
\* of a connection is one MysqlConnection lets a caller make in the state the
\* connection is in, and no step calls two: the monitor implements that caller.
THEOREM UsesConnections == Spec => ConnectionSpec
<1>1. Init => \A i \in Dbs : Connection(i)!Init
    BY InitConnections
<1>2. MInv /\ [Next]_vars => [\A i \in Dbs : [Connection(i)!Next]_(Connection(i)!vars)]_vars
    BY StepConnections DEF ConnectionStep
<1> QED
    BY <1>1, <1>2, Invariant, PTL DEF Spec, ConnectionSpec
=============================================================================
