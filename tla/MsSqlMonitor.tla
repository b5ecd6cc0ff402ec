----------------------------- MODULE MsSqlMonitor -----------------------------
(***************************************************************************)
(* CMsSqlMonitor (src/SysMonitor/mssql_monitor.cpp) as a caller of the link *)
(* pool: write reads the counters of every configured database twice, a     *)
(* second apart, over a link it takes and frees each time, and appends one  *)
(* row per database to the answer.                                          *)
(*                                                                          *)
(* In the program the monitor is alone (others = {}); the pool is checked   *)
(* with further callers as well.  A reading is the database it came from    *)
(* and its number of rows; what a counter counts is left out.               *)
(*                                                                          *)
(* Definitions named after a mistake (FreeCloses, ...) are not used: each   *)
(* is what the definition after it would be with that mistake in the code,  *)
(* and breaks a property below.                                             *)
(***************************************************************************)
EXTENDS LinkManager, Sequences

CONSTANTS Monitor,     \* the monitor among the callers
          RowCounts    \* how many rows the query may have; 0: it failed

ASSUME MonitorAssumption == Monitor \in Callers /\ 0 \in RowCounts /\ RowCounts \subseteq Nat

VARIABLES
    others,    \* who else uses the pool
    monitor,   \* write's locals; made: history, some reading has been made
    report,    \* json_value: the rows appended so far
    process    \* "up"; "null": NULL was dereferenced, "range": a vector read past
               \* its end, "ended": by an exception nobody catches

monitorVars == <<link, caller, leaked, others, monitor, report, process>>

Readings == [db : Dbs \union {NoDb}, n : RowCounts]

\* What a reading adds to a row: whose entries they should be, whose they are.
Parts == [asked : Dbs, first : Dbs \union {NoDb}, second : Dbs \union {NoDb}]
Part == [asked |-> monitor.i, first |-> monitor.vt_data1.db, second |-> monitor.vt_data2.db]

MonitorTypeOK ==
    /\ TypeOK
    /\ others \subseteq Callers \ {Monitor}
    /\ monitor \in [pc : {"rest", "call", "link", "free", "compute"}, i : Dbs, read : 1 .. 2,
                    vt_data1 : Readings, vt_data2 : Readings,
                    temp_json_value : Seq(Parts), made : BOOLEAN]
    /\ report \in Seq(Seq(Parts)) /\ Len(report) <= DbCount
    /\ process \in {"up", "null", "range", "ended"}

NoReading == [db |-> NoDb, n |-> 0]

MonitorInit ==
    /\ Init
    /\ others \in SUBSET (Callers \ {Monitor})
    /\ monitor = [pc |-> "rest", i |-> 0, read |-> 1, vt_data1 |-> NoReading,
                  vt_data2 |-> NoReading, temp_json_value |-> <<>>, made |-> FALSE]
    /\ report = <<>> /\ process = "up"

-----------------------------------------------------------------------------
StartWrite ==
    /\ monitor.pc = "rest"
    /\ monitor' = [monitor EXCEPT !.pc = "call"]
    /\ report' = <<>>
    /\ UNCHANGED <<vars, process>>

\* get_counter_value asks for the link of database i; bPrimary is FALSE.
CallGetLink ==
    /\ monitor.pc = "call"
    /\ Ask(Monitor)
    /\ caller'[Monitor].dbsel = monitor.i /\ ~ caller'[Monitor].bPrimary
    /\ monitor' = [monitor EXCEPT !.pc = "link"]
    /\ UNCHANGED <<report, process>>

InGetLink ==
    /\ monitor.pc = "link" /\ ~ At(Monitor, "idle")
    /\ GetLink(Monitor)
    /\ UNCHANGED <<monitor, report, process>>

\* NULL is used like a link.
UseNull ==
    /\ monitor.pc = "link" /\ At(Monitor, "idle")
    /\ process' = "null"
    /\ UNCHANGED <<vars, monitor, report>>

\* GetLink is called outside the try block.
Uncaught ==
    /\ monitor.pc = "link" /\ At(Monitor, "thrown")
    /\ process' = "ended"
    /\ UNCHANGED <<vars, monitor, report>>

\* The query, over whatever the link is connected to; its exceptions are
\* swallowed.
Query ==
    /\ monitor.pc = "link" /\ At(Monitor, "held")
    /\ \E n \in RowCounts :
         LET reading == [db |-> Mine(Monitor).open, n |-> n] IN
         monitor' = [monitor EXCEPT !.pc = "free", !.made = TRUE,
                       !.vt_data1 = IF monitor.read = 1 THEN reading ELSE @,
                       !.vt_data2 = IF monitor.read = 2 THEN reading ELSE @]
    /\ UNCHANGED <<vars, report, process>>

AfterFree ==
    monitor' = IF monitor.read = 1 THEN [monitor EXCEPT !.pc = "call", !.read = 2]
               ELSE [monitor EXCEPT !.pc = "compute"]

FreeCloses ==
    /\ monitor.pc = "free"
    /\ link' = [link EXCEPT ![caller[Monitor].at] =
                  [@ EXCEPT !.is_busy = FALSE, !.is_connected = FALSE, !.open = NoDb]]
    /\ Returns(Monitor) /\ AfterFree
    /\ UNCHANGED <<leaked, report, process>>

ForgetsFree ==
    /\ monitor.pc = "free"
    /\ Returns(Monitor) /\ AfterFree
    /\ UNCHANGED <<link, leaked, report, process>>

Free ==
    /\ monitor.pc = "free"
    /\ FreeLink(Monitor) /\ AfterFree
    /\ UNCHANGED <<report, process>>

\* Of these entries the second reading is reduced by the first.
IsRate(j) == j = 0 \/ j \in 4 .. 6 \/ j >= 13

PastEnd ==
    \E j \in 0 .. monitor.vt_data2.n - 1 : IsRate(j) /\ j >= monitor.vt_data1.n

Extended ==
    IF monitor.vt_data2.n > 0 THEN Append(monitor.temp_json_value, Part)
    ELSE monitor.temp_json_value

\* The vectors end with the turn of the loop, temp_json_value with the loop.
NextDb ==
    monitor' = [monitor EXCEPT
        !.pc = IF monitor.i + 1 < DbCount THEN "call" ELSE "rest",
        !.i = IF @ + 1 < DbCount THEN @ + 1 ELSE 0,
        !.temp_json_value = IF monitor.i + 1 < DbCount THEN Extended ELSE <<>>,
        !.read = 1, !.vt_data1 = NoReading, !.vt_data2 = NoReading]

AppendsNonEmpty ==
    /\ monitor.pc = "compute" /\ ~ PastEnd
    /\ report' = IF monitor.vt_data2.n > 0 THEN Append(report, Extended) ELSE report
    /\ NextDb
    /\ UNCHANGED <<vars, process>>

\* The row is temp_json_value, which lives outside the loop: the entries of this
\* database come after those of the ones before.
AppendRow ==
    /\ monitor.pc = "compute" /\ ~ PastEnd
    /\ report' = Append(report, Extended)
    /\ NextDb
    /\ UNCHANGED <<vars, process>>

ReadPastEnd ==
    /\ monitor.pc = "compute" /\ PastEnd
    /\ process' = "range"
    /\ UNCHANGED <<vars, monitor, report>>

MonitorStep ==
    /\ process = "up"
    /\ \/ StartWrite \/ CallGetLink \/ InGetLink \/ UseNull \/ Uncaught
       \/ Query \/ Free \/ AppendRow \/ ReadPastEnd
    /\ UNCHANGED others

OtherStep ==
    /\ process = "up"
    /\ \E p \in others :
         GetLink(p) \/ FreeLink(p) \/ CheckConnect(p) \/ DisConnect(p) \/ Catch(p)
    /\ UNCHANGED <<others, monitor, report, process>>

MonitorNext == MonitorStep \/ OtherStep

\* The timer thread is scheduled; nothing is asked of the other callers.
MonitorSpec ==
    MonitorInit /\ [][MonitorNext]_monitorVars /\ WF_monitorVars(MonitorStep)

-----------------------------------------------------------------------------
(* Properties.                                                              *)

\* The monitor uses the pool only as a caller of it does: what is proved of
\* LinkManager holds in the program.
PoolSpec == Init /\ [][Next]_vars

\* GetLink's unchecked NULL and its uncaught exception end the program only
\* before the first reading: once a link is connected the pool has that link for
\* the monitor every time it asks, as long as nobody else uses it.
FailsOnlyAtFirst ==
    others = {} /\ process \in {"null", "ended"} => ~ monitor.made

\* A finished write has a row for every database, in order, and the newest
\* entries of row k are database k's own, unless its second query failed.
RowsInOrder ==
    /\ monitor.pc = "rest" /\ monitor.made => Len(report) = DbCount
    /\ \A k \in 1 .. Len(report) :
         LET row == report[k] IN
         /\ \A j \in 1 .. Len(row) : row[j].asked < k
         /\ Len(row) > (IF k = 1 THEN 0 ELSE Len(report[k - 1]))
              => row[Len(row)].asked = k - 1

\* write never waits: whatever links other callers hold, for ever if they like,
\* it ends (or the program does).
WriteEnds == monitor.pc # "rest" ~> monitor.pc = "rest" \/ process # "up"

\* Row k holds what database k counted.
RowsShowOwnDatabase ==
    \A k \in 1 .. Len(report) : \A j \in 1 .. Len(report[k]) :
        report[k][j].first = k - 1 /\ report[k][j].second = k - 1
=============================================================================
