-------------------------- MODULE MsSqlMonitorProofs --------------------------
(***************************************************************************)
(* Theorems about MsSqlMonitor: it uses the link pool as LinkManager allows,*)
(* so LinkManagerProofs' results hold in the program; its rows come in      *)
(* order; and while it is the pool's only caller, only its first request    *)
(* for a link can end the program.                                          *)
(*                                                                          *)
(* The invariant adds to LInv what a write has done so far (Writing) and,   *)
(* for a monitor that is alone, that it always gets the first link and that *)
(* this stays connected once it has been (Alone).                           *)
(***************************************************************************)
EXTENDS MsSqlMonitor, LinkManagerProofs

LastRow == IF report = <<>> THEN <<>> ELSE report[Len(report)]

\* Rows k and k + 1 of report: what the newest entries are.
RowFollows(row, k, before) ==
    /\ \A j \in 1 .. Len(row) : row[j].asked < k
    /\ Len(row) > before => row[Len(row)].asked = k - 1

RowsFollow ==
    \A k \in 1 .. Len(report) :
        RowFollows(report[k], k, IF k = 1 THEN 0 ELSE Len(report[k - 1]))

Writing ==
    /\ monitor.pc = "rest" => /\ monitor.i = 0 /\ monitor.temp_json_value = <<>>
                              /\ monitor.made => Len(report) = DbCount
    /\ monitor.pc # "rest" => monitor.i = Len(report) /\ monitor.temp_json_value = LastRow

AlonePCs == {"idle", "pick", "check", "connect2", "give_up", "held", "thrown"}

Alone ==
    others = {} =>
        /\ \A p \in Callers : p # Monitor => caller[p].pc = "idle"
        /\ caller[Monitor].pc \in AlonePCs /\ ~ caller[Monitor].bPrimary
        /\ caller[Monitor].at \in {0, NoLink}
        /\ caller[Monitor].pc # "thrown" => leaked = {}
        /\ caller[Monitor].pc # "idle" => monitor.pc \in {"link", "free"}
        /\ monitor.pc = "free" => caller[Monitor].pc = "held"
        /\ caller[Monitor].pc = "held" => link[0].is_connected
        /\ monitor.made =>
             /\ 0 \in Links /\ link[0].is_connected
             /\ caller[Monitor].pc \in {"idle", "pick", "check", "held"}
             /\ monitor.pc = "link" => caller[Monitor].pc # "idle"
        /\ process \in {"null", "ended"} => ~ monitor.made

MInv == LInv /\ MonitorTypeOK /\ RowsFollow /\ Writing /\ Alone

-----------------------------------------------------------------------------
(* The pool's steps.                                                        *)

\* Every step of the monitor, and of the others, is one of a caller of the pool.
LEMMA PoolStep ==
    ASSUME MonitorTypeOK, [MonitorNext]_monitorVars
    PROVE  [Next]_vars
<1>1. CASE MonitorStep
    <2> USE MonitorAssumption
    <2>1. CASE CallGetLink
        BY <2>1 DEF CallGetLink, GetLink, Next
    <2>2. CASE InGetLink
        BY <2>2 DEF InGetLink, Next
    <2>3. CASE Free
        BY <2>3 DEF Free, Next
    <2>4. CASE StartWrite \/ UseNull \/ Uncaught \/ Query \/ AppendRow \/ ReadPastEnd
        BY <2>4 DEF StartWrite, UseNull, Uncaught, Query, AppendRow, ReadPastEnd
    <2> QED
        BY <1>1, <2>1, <2>2, <2>3, <2>4 DEF MonitorStep
<1>2. CASE OtherStep
    BY <1>2 DEF OtherStep, MonitorTypeOK, Next
<1>3. CASE UNCHANGED monitorVars
    BY <1>3 DEF monitorVars, vars
<1> QED
    BY <1>1, <1>2, <1>3 DEF MonitorNext

-----------------------------------------------------------------------------
(* What a write has done.                                                   *)

MonitorTypes ==
    [pc : {"rest", "call", "link", "free", "compute"}, i : Dbs, read : 1 .. 2,
     vt_data1 : Readings, vt_data2 : Readings, temp_json_value : Seq(Parts), made : BOOLEAN]

\* The databases are numbered from 0; NoReading is a reading.
LEMMA Databases ==
    /\ DbCount \in Nat \ {0} /\ 0 \in Dbs /\ NoReading \in Readings
    /\ \A d \in Dbs : d \in Nat /\ d < DbCount /\ (d + 1 < DbCount => d + 1 \in Dbs)
BY ConstantsAssumption, MonitorAssumption DEF Dbs, NoDb, Readings, NoReading

\* The next row of the report.
LEMMA ExtendedTypes ==
    ASSUME MonitorTypeOK
    PROVE  Part \in Parts /\ Extended \in Seq(Parts)
<1>1. /\ monitor.i \in Dbs /\ monitor.vt_data1.db \in Dbs \union {NoDb}
      /\ monitor.vt_data2.db \in Dbs \union {NoDb} /\ monitor.temp_json_value \in Seq(Parts)
    BY DEF MonitorTypeOK, Readings
<1>2. Part \in Parts
    BY <1>1 DEF Part, Parts
<1> QED
    BY <1>1, <1>2 DEF Extended

\* What the entries of a row say is a number.
LEMMA Numbered ==
    ASSUME NEW row \in Seq(Parts)
    PROVE  \A j \in 1 .. Len(row) : row[j].asked \in Nat
<1>1. \A j \in 1 .. Len(row) : row[j] \in Parts
    OBVIOUS
<1>2. \A x \in Parts : x.asked \in Nat
    BY Databases DEF Parts
<1> QED
    BY <1>1, <1>2

\* A step that leaves the report alone.
LEMMA SameReport ==
    ASSUME RowsFollow, Writing, UNCHANGED report,
           monitor'.pc = "rest" <=> monitor.pc = "rest",
           UNCHANGED <<monitor.i, monitor.temp_json_value>>,
           monitor.pc # "rest" \/ UNCHANGED monitor.made
    PROVE  RowsFollow' /\ Writing'
BY DEF RowsFollow, RowFollows, Writing, LastRow

\* The monitor's locals at the end of a turn.
LEMMA NextTurn ==
    ASSUME monitor \in MonitorTypes, NEW pc \in {"call", "rest"}, NEW i \in Dbs, NEW t \in Seq(Parts),
           monitor' = [monitor EXCEPT !.pc = pc, !.i = i, !.temp_json_value = t, !.read = 1,
                         !.vt_data1 = NoReading, !.vt_data2 = NoReading]
    PROVE  monitor' \in MonitorTypes
<1>1. NoReading \in Readings /\ 1 \in 1 .. 2
    BY Databases
<1>2. monitor' = [pc |-> pc, i |-> i, read |-> 1, vt_data1 |-> NoReading, vt_data2 |-> NoReading,
                  temp_json_value |-> t, made |-> monitor.made]
    BY DEF MonitorTypes
<1>3. monitor.made \in BOOLEAN
    BY DEF MonitorTypes
<1> QED
    BY <1>1, <1>2, <1>3 DEF MonitorTypes

\* Appending a row keeps the rows in order, and the next turn of the loop, or the
\* end of write, finds them as Writing says.
LEMMA RowAppended ==
    ASSUME MonitorTypeOK, RowsFollow, Writing, AppendRow, UNCHANGED others
    PROVE  MonitorTypeOK' /\ RowsFollow' /\ Writing'
<1> DEFINE n == Len(report)
<1>1. /\ monitor.pc = "compute" /\ monitor.i = n /\ n \in Nat /\ n < DbCount
      /\ monitor.temp_json_value = LastRow /\ report' = Append(report, Extended)
      /\ UNCHANGED <<vars, process>>
    BY Databases DEF AppendRow, Writing, MonitorTypeOK
<1>2. Extended \in Seq(Parts) /\ monitor.temp_json_value \in Seq(Parts) /\ report \in Seq(Seq(Parts))
    BY ExtendedTypes DEF MonitorTypeOK
<1>3. /\ report' \in Seq(Seq(Parts)) /\ Len(report') = n + 1
      /\ report'[n + 1] = Extended
      /\ \A k \in 1 .. n : report'[k] = report[k] /\ report[k] \in Seq(Parts)
    BY <1>1, <1>2
<1>4. RowFollows(Extended, n + 1, IF n = 0 THEN 0 ELSE Len(report[n]))
    <2>1. /\ \A j \in 1 .. Len(LastRow) : LastRow[j].asked < n
          /\ Len(LastRow) = IF n = 0 THEN 0 ELSE Len(report[n])
        <3>1. CASE n = 0
            BY <3>1, <1>2 DEF LastRow
        <3>2. CASE n # 0
            BY <3>2, <1>1, <1>2 DEF LastRow, RowsFollow, RowFollows
        <3> QED
            BY <3>1, <3>2
    <2>2. CASE monitor.vt_data2.n > 0
        <3>1. Extended = Append(LastRow, Part) /\ Part.asked = n /\ Part \in Parts
            BY <2>2, <1>1, ExtendedTypes DEF Extended, Part
        <3>2. LastRow \in Seq(Parts) /\ \A j \in 1 .. Len(LastRow) : LastRow[j].asked \in Nat
            BY <1>1, <1>2, Numbered
        <3>3. /\ Len(Extended) = Len(LastRow) + 1 /\ Extended[Len(LastRow) + 1] = Part
              /\ \A j \in 1 .. Len(LastRow) : Extended[j] = LastRow[j]
            BY <3>1, <3>2
        <3> QED
            BY <1>1, <2>1, <3>1, <3>2, <3>3 DEF RowFollows
    <2>3. CASE ~ monitor.vt_data2.n > 0
        <3>1. Extended = LastRow /\ LastRow \in Seq(Parts)
            BY <2>3, <1>1, <1>2 DEF Extended
        <3>2. \A j \in 1 .. Len(LastRow) : LastRow[j].asked \in Nat
            BY <3>1, Numbered
        <3> QED
            BY <1>1, <2>1, <3>1, <3>2 DEF RowFollows
    <2> QED
        BY <2>2, <2>3
<1>5. RowsFollow'
    <2> SUFFICES ASSUME NEW k \in 1 .. n + 1
                 PROVE  RowFollows(report'[k], k, IF k = 1 THEN 0 ELSE Len(report'[k - 1]))
        BY <1>3 DEF RowsFollow
    <2>1. CASE k = n + 1
        <3>1. n # 0 => report'[k - 1] = report[n]
            BY <2>1, <1>1, <1>3
        <3> QED
            BY <2>1, <3>1, <1>1, <1>3, <1>4
    <2>2. CASE k # n + 1
        <3>1. k \in 1 .. n /\ report'[k] = report[k] /\ (k # 1 => report'[k - 1] = report[k - 1])
            BY <2>2, <1>1, <1>3
        <3> QED
            BY <3>1 DEF RowsFollow
    <2> QED
        BY <2>1, <2>2
<1>6. /\ monitor' = [monitor EXCEPT
             !.pc = IF n + 1 < DbCount THEN "call" ELSE "rest",
             !.i = IF n + 1 < DbCount THEN n + 1 ELSE 0,
             !.temp_json_value = IF n + 1 < DbCount THEN Extended ELSE <<>>,
             !.read = 1, !.vt_data1 = NoReading, !.vt_data2 = NoReading]
      /\ monitor \in MonitorTypes
    BY <1>1 DEF AppendRow, NextDb, MonitorTypeOK, MonitorTypes
<1>7. Writing'
    <2>1. CASE n + 1 < DbCount
        BY <2>1, <1>1, <1>3, <1>6 DEF Writing, LastRow, MonitorTypes
    <2>2. CASE ~ (n + 1 < DbCount)
        BY <2>2, <1>1, <1>3, <1>6, Databases DEF Writing, MonitorTypes
    <2> QED
        BY <2>1, <2>2
<1>8. monitor' \in MonitorTypes /\ n + 1 <= DbCount
    <2>1. (IF n + 1 < DbCount THEN Extended ELSE <<>>) \in Seq(Parts)
        BY <1>2
    <2>2. (IF n + 1 < DbCount THEN n + 1 ELSE 0) \in Dbs
        BY <1>1, <1>6, Databases DEF MonitorTypes
    <2> QED
        <3> DEFINE pc == IF n + 1 < DbCount THEN "call" ELSE "rest"
                   i == IF n + 1 < DbCount THEN n + 1 ELSE 0
                   t == IF n + 1 < DbCount THEN Extended ELSE <<>>
        <3>1. pc \in {"call", "rest"}
            OBVIOUS
        <3>2. /\ monitor \in MonitorTypes
              /\ monitor' = [monitor EXCEPT !.pc = pc, !.i = i, !.temp_json_value = t, !.read = 1,
                                !.vt_data1 = NoReading, !.vt_data2 = NoReading]
            BY <1>6
        <3>3. i \in Dbs /\ t \in Seq(Parts)
            BY <2>1, <2>2
        <3> HIDE DEF pc, i, t
        <3>4. monitor' \in MonitorTypes
            BY <3>1, <3>2, <3>3, NextTurn
        <3> QED
            BY <3>4, <1>1, Databases
<1> QED
    BY <1>1, <1>3, <1>5, <1>7, <1>8
    DEF MonitorTypeOK, MonitorTypes, vars, TypeOK
\* Every other step.
LEMMA WriteStep ==
    ASSUME LInv, TypeOK', MonitorTypeOK, RowsFollow, Writing, [MonitorNext]_monitorVars
    PROVE  MonitorTypeOK' /\ RowsFollow' /\ Writing'
<1> USE MonitorAssumption
<1>0. monitor \in MonitorTypes /\ process \in {"up", "null", "range", "ended"}
    BY DEF MonitorTypeOK, MonitorTypes
<1>1. CASE StartWrite /\ UNCHANGED others
    <2>1. /\ report' = <<>> /\ monitor' = [monitor EXCEPT !.pc = "call"] /\ monitor.pc = "rest"
          /\ UNCHANGED process
        BY <1>1 DEF StartWrite
    <2>2. monitor' \in MonitorTypes
        BY <1>0, <2>1 DEF MonitorTypes
    <2>3. RowsFollow' /\ Writing'
        BY <1>0, <2>1 DEF RowsFollow, Writing, LastRow, MonitorTypes
    <2> QED
        BY <1>1, <2>1, <2>2, <2>3, Databases DEF MonitorTypeOK, MonitorTypes
<1>2. ASSUME NEW pc \in {"link", "call", "compute"}, NEW read \in 1 .. 2, monitor.pc # "rest",
             monitor' = [monitor EXCEPT !.pc = pc, !.read = read],
             UNCHANGED <<others, report, process>>
      PROVE  MonitorTypeOK' /\ RowsFollow' /\ Writing'
    <2>1. monitor' \in MonitorTypes /\ monitor'.pc = pc /\ UNCHANGED <<monitor.i, monitor.temp_json_value>>
        BY <1>0, <1>2 DEF MonitorTypes
    <2> QED
        BY <1>2, <2>1, SameReport DEF MonitorTypeOK, MonitorTypes
<1>3. CASE CallGetLink /\ UNCHANGED others
    <2>1. monitor' = [monitor EXCEPT !.pc = "link", !.read = monitor.read] /\ monitor.read \in 1 .. 2
        BY <1>0, <1>3 DEF CallGetLink, MonitorTypes
    <2> QED
        BY <1>2, <1>3, <2>1 DEF CallGetLink
<1>4. CASE Query /\ UNCHANGED others
    <2>1. caller[Monitor].at \in Links /\ link[caller[Monitor].at] \in LinkTypes
        BY <1>4, HasLink DEF Query, At, LInv
    <2>2. PICK n \in RowCounts :
            monitor' = [monitor EXCEPT !.pc = "free", !.made = TRUE,
                          !.vt_data1 = IF monitor.read = 1 THEN [db |-> Mine(Monitor).open, n |-> n] ELSE @,
                          !.vt_data2 = IF monitor.read = 2 THEN [db |-> Mine(Monitor).open, n |-> n] ELSE @]
        BY <1>4 DEF Query
    <2>3. [db |-> Mine(Monitor).open, n |-> n] \in Readings
        BY <2>1 DEF Readings, Mine, LinkTypes
    <2>4. monitor' \in MonitorTypes /\ monitor'.pc = "free"
          /\ UNCHANGED <<monitor.i, monitor.temp_json_value>>
        BY <1>0, <2>2, <2>3 DEF MonitorTypes
    <2> QED
        BY <1>4, <2>4, SameReport DEF Query, MonitorTypeOK, MonitorTypes
<1>5. CASE Free /\ UNCHANGED others
    <2>1. CASE monitor.read = 1
        BY <1>2, <1>5, <2>1 DEF Free, AfterFree
    <2>2. CASE monitor.read # 1
        <3>1. monitor' = [monitor EXCEPT !.pc = "compute", !.read = monitor.read] /\ monitor.read \in 1 .. 2
            BY <1>0, <1>5, <2>2 DEF Free, AfterFree, MonitorTypes
        <3> QED
            BY <1>2, <1>5, <3>1 DEF Free
    <2> QED
        BY <2>1, <2>2
<1>6. CASE AppendRow /\ UNCHANGED others
    BY <1>6, RowAppended
<1>7. CASE (InGetLink \/ UseNull \/ Uncaught \/ ReadPastEnd \/ OtherStep \/ UNCHANGED monitorVars)
           /\ UNCHANGED others
    <2>1. UNCHANGED <<monitor, report>> /\ process' \in {"up", "null", "range", "ended"}
        BY <1>0, <1>7 DEF InGetLink, UseNull, Uncaught, ReadPastEnd, OtherStep, monitorVars
    <2> QED
        BY <1>7, <2>1, SameReport DEF MonitorTypeOK
<1> QED
    BY <1>1, <1>3, <1>4, <1>5, <1>6, <1>7 DEF MonitorNext, MonitorStep, OtherStep, monitorVars

-----------------------------------------------------------------------------
(* A monitor that is alone.                                                 *)

\* While the monitor has no link and none has been leaked, no link is busy.
LEMMA AllFree ==
    ASSUME LInv, MonitorTypeOK, Alone, others = {}, caller[Monitor].pc \in {"idle", "pick"}
    PROVE  \A l \in Links : ~ link[l].is_busy
<1>1. \A p \in Callers, l \in Links : ~ Uses(p, l)
    BY Numbers DEF LInv, TypeOK, Alone, Uses
<1>2. leaked = {}
    BY DEF Alone
<1> QED
    BY <1>1, <1>2 DEF LInv, BusyAccounted

\* GetLink, for the monitor: the first link, connected once and for all.
LEMMA AloneInGetLink ==
    ASSUME LInv, MonitorTypeOK, Alone, others = {}, UNCHANGED others, InGetLink, process = "up"
    PROVE  Alone'
<1> DEFINE p == Monitor
<1> USE MonitorAssumption
<1>0. /\ \A q \in Callers : q # p => caller[q].pc = "idle"
      /\ caller[p].pc \in AlonePCs \ {"idle"} /\ ~ caller[p].bPrimary
      /\ caller[p].at \in {0, NoLink}
      /\ caller[p].pc # "thrown" => leaked = {}
      /\ monitor.made => /\ 0 \in Links /\ link[0].is_connected
                         /\ caller[p].pc \in {"pick", "check", "held"}
      /\ monitor.pc = "link" /\ UNCHANGED <<monitor, process>>
      /\ GetLink(p) /\ TypeOK
    BY DEF Alone, InGetLink, At, LInv
\* What is left to show of a step that moves the monitor alone.
<1>1. ASSUME NEW pc \in AlonePCs, NEW at \in {0, NoLink}, Moves(p, pc, at),
             pc # "thrown" => leaked' = {},
             pc = "held" => link'[0].is_connected,
             monitor.made => link'[0].is_connected /\ pc \in {"pick", "check", "held"}
      PROVE  Alone'
    BY <1>0, <1>1 DEF Alone, Moves
<1>2. CASE Ask(p)
    BY <1>0, <1>2 DEF Ask, At
<1>3. CASE Pick(p)
    <2>1. PICK l \in Links :
             /\ Picked(p, l)
             /\ link' = [link EXCEPT ![l].is_busy = TRUE]
             /\ caller' = [caller EXCEPT ![p].at = l, ![p].pc = "check"]
        BY <1>0, <1>3 DEF Pick
    <2>2. caller[p].pc = "pick" /\ UNCHANGED leaked
        BY <1>3 DEF Pick, At
    <2>3. \A k \in Links : IsFree(k)
        BY <2>2, AllFree DEF IsFree
    <2>4. l = 0
        <3>1. {k \in {j \in Links : IsFree(j)} : caller[p].bPrimary => link[k].cur_sel = Default} = Links
            BY <1>0, <2>3
        <3>2. \A k \in Links : l <= k
            BY <2>1, <2>3, <3>1 DEF Picked, First
        <3>3. l \in Nat /\ 0 \in Links
            BY <2>1, ConstantsAssumption DEF Links
        <3> QED
            BY <3>2, <3>3
    <2>5. Moves(p, "check", 0)
        <3>1. caller \in [Callers -> CallerTypes] /\ "check" \in PCs /\ 0 \in Links
            BY <1>0, <2>4 DEF TypeOK, CallerTypes, PCs
        <3>2. [caller[p] EXCEPT !.at = 0, !.pc = "check"] \in CallerTypes
            BY <3>1 DEF CallerTypes
        <3>3. caller' = [caller EXCEPT ![p] = [caller[p] EXCEPT !.at = 0, !.pc = "check"]]
            BY <2>1, <2>4, <3>1 DEF CallerTypes
        <3> QED
            BY <3>1, <3>2, <3>3 DEF Moves, CallerTypes
    <2>6. link'[0].is_connected = link[0].is_connected
        BY <1>0, <2>1, <2>4 DEF TypeOK
    <2> QED
        BY <1>0, <1>1, <2>2, <2>5, <2>6 DEF AlonePCs
<1>4. CASE PickNone(p)
    <2>1. ~ monitor.made
        BY <1>0, <1>4, AllFree DEF PickNone, At, IsFree
    <2>2. Moves(p, "idle", NoLink) /\ UNCHANGED <<link, leaked>> /\ caller[p].pc = "pick"
        BY <1>0, <1>4, ReturnsFacts DEF PickNone, At
    <2> QED
        BY <1>0, <1>1, <2>1, <2>2 DEF AlonePCs
<1>5. CASE CloseOther(p) \/ ConnectDefault(p)
    BY <1>0, <1>5 DEF CloseOther, ConnectDefault, At, AlonePCs
<1>6. ASSUME caller[p].pc # "pick"
      PROVE  caller[p].at = 0 /\ 0 \in Links
    BY <1>0, <1>6, Numbers DEF TypeOK
<1>7. CASE Check(p)
    <2>1. /\ caller[p].pc = "check" /\ UNCHANGED <<link, leaked>>
          /\ Goes(p, IF link[0].is_connected THEN "held" ELSE "connect2")
        BY <1>0, <1>6, <1>7 DEF Check, At, Mine
    <2>2. Moves(p, IF link[0].is_connected THEN "held" ELSE "connect2", 0)
        BY <1>0, <1>6, <2>1, GoesFacts DEF PCs
    <2> QED
        BY <1>0, <1>1, <2>1, <2>2 DEF AlonePCs
<1>8. CASE _Connect2(p)
    <2>1. ~ monitor.made /\ leaked = {} /\ caller[p].at = 0 /\ 0 \in Links
        BY <1>0, <1>6, <1>8 DEF _Connect2, At
    <2>2. CASE Set(p, TRUE, caller[p].dbsel, caller[p].dbsel) /\ Goes(p, "held") /\ UNCHANGED leaked
        <3>1. Moves(p, "held", 0)
            BY <1>0, <2>1, <2>2, GoesFacts DEF PCs
        <3>2. link'[0].is_connected
            BY <1>0, <2>1, <2>2 DEF Set, TypeOK
        <3> QED
            BY <1>1, <2>1, <2>2, <3>1, <3>2 DEF AlonePCs
    <2>3. CASE Goes(p, "give_up") /\ UNCHANGED leaked
        <3>1. Moves(p, "give_up", 0)
            BY <1>0, <2>1, <2>3, GoesFacts DEF PCs
        <3> QED
            BY <1>1, <2>1, <2>3, <3>1 DEF AlonePCs
    <2>4. CASE Goes(p, "thrown")
        <3>1. Moves(p, "thrown", 0)
            BY <1>0, <2>1, <2>4, GoesFacts DEF PCs
        <3> QED
            BY <1>1, <2>1, <3>1 DEF AlonePCs
    <2> QED
        BY <1>8, <2>2, <2>3, <2>4 DEF _Connect2, ConnectDataBase
<1>9. CASE GiveUp(p)
    <2>1. Moves(p, "idle", NoLink) /\ caller[p].pc = "give_up" /\ UNCHANGED leaked
        BY <1>0, <1>9, ReturnsFacts DEF GiveUp, At
    <2> QED
        BY <1>0, <1>1, <2>1 DEF AlonePCs
<1> QED
    BY <1>0, <1>2, <1>3, <1>4, <1>5, <1>7, <1>8, <1>9 DEF GetLink

\* The monitor's own steps.
LEMMA AloneStep ==
    ASSUME MInv, [MonitorNext]_monitorVars
    PROVE  Alone'
<1> USE MonitorAssumption
<1>0. UNCHANGED others /\ LInv /\ MonitorTypeOK /\ Alone /\ TypeOK
    BY DEF MonitorNext, MonitorStep, OtherStep, monitorVars, MInv, LInv
<1> SUFFICES ASSUME others = {} PROVE Alone'
    BY <1>0 DEF Alone
<1>1. monitor \in MonitorTypes
    BY <1>0 DEF MonitorTypeOK, MonitorTypes
<1>2. CASE process = "up" /\ StartWrite
    BY <1>0, <1>1, <1>2 DEF StartWrite, Alone, vars, MonitorTypes
<1>3. CASE process = "up" /\ CallGetLink
    <2>1. /\ caller[Monitor].pc = "idle" /\ caller[Monitor].at = NoLink
          /\ monitor' = [monitor EXCEPT !.pc = "link"] /\ UNCHANGED <<link, leaked, process>>
        BY <1>0, <1>3 DEF CallGetLink, Ask, At, TypeOK
    <2>2. /\ caller'[Monitor].pc = "pick" /\ caller'[Monitor].at = NoLink /\ ~ caller'[Monitor].bPrimary
          /\ \A q \in Callers : q # Monitor => caller'[q] = caller[q]
        BY <1>0, <1>3, <2>1 DEF CallGetLink, Ask, TypeOK
    <2> QED
        BY <1>0, <1>1, <1>3, <2>1, <2>2 DEF Alone, AlonePCs, MonitorTypes
<1>4. CASE process = "up" /\ InGetLink
    BY <1>0, <1>4, AloneInGetLink
<1>5. CASE process = "up" /\ (UseNull \/ Uncaught)
    BY <1>0, <1>5 DEF UseNull, Uncaught, Alone, vars, At
<1>6. CASE process = "up" /\ Query
    <2>1. /\ caller[Monitor].pc = "held" /\ caller[Monitor].at = 0 /\ 0 \in Links
          /\ link[0].is_connected /\ UNCHANGED <<vars, process>>
        BY <1>0, <1>6, Numbers DEF Query, At, Alone, TypeOK
    <2>2. monitor'.pc = "free" /\ monitor'.made
        BY <1>1, <1>6 DEF Query, MonitorTypes
    <2> QED
        BY <1>0, <1>6, <2>1, <2>2 DEF Alone, vars
<1>7. CASE process = "up" /\ Free
    <2>1. /\ monitor'.pc \in {"call", "compute"} /\ UNCHANGED <<monitor.made, process, leaked>>
          /\ caller[Monitor].pc = "held" /\ caller[Monitor].at = 0 /\ 0 \in Links
        BY <1>0, <1>1, <1>7, Numbers DEF Free, AfterFree, FreeLink, Alone, TypeOK, MonitorTypes
    <2>2. Moves(Monitor, "idle", NoLink) /\ NotBusy(Monitor)
        BY <1>0, <1>7, ReturnsFacts DEF Free, FreeLink
    <2>3. link'[0].is_connected = link[0].is_connected
        BY <1>0, <2>1, <2>2 DEF NotBusy, TypeOK
    <2> QED
        BY <1>0, <1>7, <2>1, <2>2, <2>3 DEF Alone, AlonePCs, Moves
<1>8. CASE process = "up" /\ AppendRow
    <2>1. monitor.pc = "compute" /\ monitor'.pc \in {"call", "rest"} /\ UNCHANGED <<vars, process, monitor.made>>
        BY <1>1, <1>8 DEF AppendRow, NextDb, MonitorTypes
    <2> QED
        BY <1>0, <1>8, <2>1 DEF Alone, vars
<1>9. CASE process = "up" /\ ReadPastEnd
    BY <1>0, <1>9 DEF ReadPastEnd, Alone, vars
<1>10. CASE OtherStep
    BY <1>10 DEF OtherStep
<1>11. CASE UNCHANGED monitorVars
    BY <1>0, <1>11 DEF monitorVars, Alone
<1> QED
    BY <1>2, <1>3, <1>4, <1>5, <1>6, <1>7, <1>8, <1>9, <1>10, <1>11 DEF MonitorNext, MonitorStep

-----------------------------------------------------------------------------
(* The results.                                                             *)

LEMMA MonitorInitInv == MonitorInit => MInv
<1> SUFFICES ASSUME MonitorInit PROVE MInv
    OBVIOUS
<1>1. LInv /\ TypeOK
    BY LInit DEF MonitorInit, LInv
<1>2. MonitorTypeOK
    BY <1>1, Databases DEF MonitorInit, MonitorTypeOK
<1>3. RowsFollow /\ Writing
    BY DEF MonitorInit, RowsFollow, Writing
<1>4. Alone
    BY MonitorAssumption DEF MonitorInit, Init, Alone, AlonePCs
<1> QED
    BY <1>1, <1>2, <1>3, <1>4 DEF MInv

LEMMA MonitorNextInv == MInv /\ [MonitorNext]_monitorVars => MInv'
<1> SUFFICES ASSUME MInv, [MonitorNext]_monitorVars PROVE MInv'
    OBVIOUS
<1>1. LInv /\ MonitorTypeOK /\ RowsFollow /\ Writing
    BY DEF MInv
<1>2. LInv' /\ TypeOK'
    BY <1>1, PoolStep, LNext DEF LInv
<1>3. MonitorTypeOK' /\ RowsFollow' /\ Writing'
    BY <1>1, <1>2, WriteStep
<1> QED
    BY <1>2, <1>3, AloneStep DEF MInv

THEOREM MonitorInductive == MonitorSpec => []MInv
BY MonitorInitInv, MonitorNextInv, PTL DEF MonitorSpec

\* The monitor's state is well typed for every pool and every set of databases.
THEOREM MonitorTypeCorrect == MonitorSpec => []MonitorTypeOK
<1>1. MInv => MonitorTypeOK
    BY DEF MInv
<1> QED
    BY <1>1, MonitorInductive, PTL

\* write and get_counter_value use CLinkManager as one of its callers.
THEOREM UsesPool == MonitorSpec => PoolSpec
<1>1. MonitorInit => Init
    BY DEF MonitorInit
<1>2. MInv /\ [MonitorNext]_monitorVars => [Next]_vars
    BY PoolStep DEF MInv
<1> QED
    BY <1>1, <1>2, MonitorInductive, PTL DEF MonitorSpec, PoolSpec

\* So what LinkManagerProofs proves of any callers holds in the program: each link
\* has one user and those that are busy are accounted for.
THEOREM PoolInProgram == MonitorSpec => [](OneUserPerLink /\ BusyAccounted)
<1>1. PoolSpec => Spec
    BY DEF PoolSpec, Spec
<1> QED
    BY <1>1, UsesPool, OneUser, Accounted, PTL

\* write appends a row per database, in their order, whatever the queries return.
THEOREM RowsOrdered == MonitorSpec => []RowsInOrder
<1>1. MInv => RowsInOrder
    BY DEF MInv, Writing, RowsFollow, RowFollows, RowsInOrder
<1> QED
    BY <1>1, MonitorInductive, PTL

\* For any number of links and databases, a monitor that has read once from the
\* pool that is its own gets a link every time it calls GetLink.
THEOREM FailsFirst == MonitorSpec => []FailsOnlyAtFirst
<1>1. MInv => FailsOnlyAtFirst
    BY DEF MInv, Alone, FailsOnlyAtFirst
<1> QED
    BY <1>1, MonitorInductive, PTL

=============================================================================
