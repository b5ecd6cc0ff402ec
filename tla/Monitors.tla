-------------------------------- MODULE Monitors --------------------------------
(***************************************************************************)
(* From config.ini to the samples: main loads the configuration (Config),   *)
(* CProtocolManage has CBuildMonitor put a monitor into each slot, and its  *)
(* write asks every slot's monitor in turn.  Of the monitors                *)
(* CProcessMonitor (src/SysMonitor/monitor_system.cpp, Windows build) is    *)
(* modelled here, with the processes that come and go, and what             *)
(* CLinuxSysinfo makes of the kernel's counters; the monitors with a module *)
(* of their own only have their place.                                      *)
(*                                                                          *)
(* Definitions named after a mistake (StopsAtUnopened, ...) are not used:   *)
(* each is what the definition after it would be with that mistake in the   *)
(* code, and breaks a property below.                                       *)
(***************************************************************************)
EXTENDS Config, LinuxSysinfo

CONSTANTS Names,      \* names of programs
          Pids,       \* process ids, reused by the system
          MaxConns,   \* bound: established connections of a process
          MaxWrites,  \* bound: samples taken
          MaxCount,   \* bound: the kernel's counters at the first reading
          MaxStep     \* bound: what is counted in a second, by one counter

\* Less is counted in a second than half an int holds.
ASSUME MonitorsAssumption ==
    /\ IsFiniteSet(Pids) /\ MaxConns \in Nat /\ MaxWrites \in Nat
    /\ MaxCount \in Nat /\ MaxStep \in Nat /\ 2 * MaxStep < Modulus \div 2

VARIABLES
    slots,    \* m_vector_system_monitor: each a type's singleton, or NULL
    writing,  \* where write and delete are; history: seen, the programs this
              \* snapshot found, and count
    running,  \* the system: which program each pid runs, if any
    m_map_process_name_pid,
    rows,     \* per slot of the sample: CProcessMonitor's rows
    rates     \* history: CLinuxSysinfo's last two readings of something

monitorVars == <<slots, writing, running, m_map_process_name_pid, rows, rates>>
vars == <<configVars, monitorVars>>

NULL == 0
CONFIG_PROCESS == 6
CONFIG_LINUX_SYSINFO == 7
Counters == (0 .. MaxCount + MaxStep) \X (0 .. MaxCount + MaxStep)
Slots == 0 .. OBJECT_NUM - 1
Idle == [pc |-> "build", i |-> 0, seen |-> {}, count |-> 0]

Values == {l.value : l \in Lines} \union {"", "garbled"}

TypeOK ==
    /\ ConfigTypeOK
    /\ slots \in [Slots -> 0 .. 9]
    /\ writing.pc \in {"build", "rest", "slot", "netstat", "delete", "gone",
                       "twice"}   \* twice: a monitor was deleted twice
    /\ writing.i \in 0 .. OBJECT_NUM /\ writing.seen \subseteq Names
    /\ running \in [Pids -> Names \union {None}]
    /\ \A n \in Names : \A k \in 1 .. Len(m_map_process_name_pid[n]) :
         m_map_process_name_pid[n][k] \in Pids
    /\ \A i \in Slots : \A k \in 1 .. Len(rows[i]) :
         rows[i][k] \in [name : Values, tcpnum : 0 .. MaxConns, status : 0 .. 1]
    /\ rates \in [first : Counters, second : Counters]

Init ==
    /\ ConfigInit
    /\ slots = [i \in Slots |-> NULL]
    /\ writing = Idle
    /\ running = [p \in Pids |-> None]
    /\ m_map_process_name_pid = [n \in Names |-> <<>>]
    /\ rows = [i \in Slots |-> <<>>]
    /\ rates = [first |-> <<0, 0>>, second |-> <<0, 0>>]

-----------------------------------------------------------------------------
(* The factory.                                                             *)

AtMonitors(pc) == load.step = "done" /\ process = "up" /\ writing.pc = pc

\* The types with a monitor in the build.
Built == IF text.win32 THEN {1, 2, 3, 5, 6, 7, 9} ELSE {2, 5, 7, 9}

ConcreteMonitor ==
    /\ AtMonitors("build") /\ writing.i < OBJECT_NUM
    /\ LET type == config.object_type[writing.i] IN
       slots' = [slots EXCEPT ![writing.i] = IF type \in Built THEN type ELSE NULL]
    /\ writing' = [writing EXCEPT !.i = @ + 1]
    /\ UNCHANGED <<configVars, running, m_map_process_name_pid, rows, rates>>

Constructed ==
    /\ AtMonitors("build") /\ writing.i = OBJECT_NUM
    /\ writing' = [writing EXCEPT !.pc = "rest"]
    /\ UNCHANGED <<configVars, slots, running, m_map_process_name_pid, rows, rates>>

-----------------------------------------------------------------------------
(* write.                                                                   *)

StartWrite ==
    /\ AtMonitors("rest") /\ writing.count < MaxWrites
    /\ writing' = [writing EXCEPT !.pc = "slot", !.i = 0, !.count = @ + 1]
    /\ rows' = [i \in Slots |-> <<>>]
    /\ UNCHANGED <<configVars, slots, running, m_map_process_name_pid, rates>>

NextSlotOf(w) ==
    IF w.i + 1 < OBJECT_NUM THEN [w EXCEPT !.pc = "slot", !.i = @ + 1]
    ELSE [w EXCEPT !.pc = "rest"]

OtherMonitor ==
    /\ AtMonitors("slot") /\ slots[writing.i] \notin {CONFIG_PROCESS, CONFIG_LINUX_SYSINFO}
    /\ writing' = NextSlotOf(writing)
    /\ UNCHANGED <<configVars, slots, running, m_map_process_name_pid, rows, rates>>

\* get_monitor_data_sec: two readings of one kind of counters; the others are
\* read in between and make no difference to it.
ReadCounters ==
    /\ AtMonitors("slot") /\ slots[writing.i] = CONFIG_LINUX_SYSINFO
    /\ \E a, b \in 0 .. MaxCount, d, e \in 0 .. MaxStep :
         rates' = [first |-> <<a, b>>, second |-> <<a + d, b + e>>]
    /\ writing' = NextSlotOf(writing)
    /\ UNCHANGED <<configVars, slots, running, m_map_process_name_pid, rows>>

SnapshotFails ==
    /\ AtMonitors("slot") /\ slots[writing.i] = CONFIG_PROCESS
    /\ writing' = NextSlotOf(writing)
    /\ UNCHANGED <<configVars, slots, running, m_map_process_name_pid, rows, rates>>

process_name == config.entry[CONFIG_PROCESS]

\* How often a pid of a program is recorded: once for each time it is configured.
Times(n) == Cardinality({k \in 1 .. Len(process_name) : process_name[k] = n})

\* A snapshot lists processes in any order: of each program's pids the order.
Orders(S) == {s \in [1 .. Cardinality(S) -> S] : \A j, k \in DOMAIN s : j # k => s[j] # s[k]}
Listings(opened) ==
    {pids \in [Names -> UNION {Orders(S) : S \in SUBSET opened}] :
       \A n \in Names : pids[n] \in Orders({p \in opened : running[p] = n})}

\* The pids of a snapshot come after those that are there: none is ever removed.
Recorded(n, pids) ==
    m_map_process_name_pid[n]
      \o [k \in 1 .. Times(n) * Len(pids) |-> pids[((k - 1) \div Times(n)) + 1]]

Running == {p \in Pids : running[p] # None}

StopsAtUnopened(opened) == {p \in opened : \A q \in Running \ opened : p < q}

\* OpenProcess may be denied; the loop goes on.
Visited(opened) == opened

GetProcessList ==
    /\ AtMonitors("slot") /\ slots[writing.i] = CONFIG_PROCESS
    /\ \E opened \in SUBSET Running :
         /\ \E pids \in Listings(Visited(opened)) :
              m_map_process_name_pid' = [n \in Names |-> Recorded(n, pids[n])]
         /\ writing' = [writing EXCEPT !.pc = "netstat", !.seen = {running[p] : p \in opened}]
    /\ UNCHANGED <<configVars, slots, running, rows, rates>>

Known(k) == process_name[k] \in Names /\ m_map_process_name_pid[process_name[k]] # <<>>
KnownRows == {k \in 1 .. Len(process_name) : Known(k)}

\* netstat's output is read to its end for the first pid of the first row that
\* is known: for all other pids nothing is left.
Row(k, conns) ==
    [name |-> process_name[k],
     tcpnum |-> IF Known(k) /\ k = Least(KnownRows)
                  THEN conns[m_map_process_name_pid[process_name[k]][1]] ELSE 0,
     status |-> IF Known(k) THEN 1 ELSE 0]

ReportProcesses ==
    /\ AtMonitors("netstat")
    /\ \E conns \in [Pids -> 0 .. MaxConns] :
         /\ \A p \in Pids \ Running : conns[p] = 0
         /\ rows' = [rows EXCEPT ![writing.i] = [k \in 1 .. Len(process_name) |-> Row(k, conns)]]
    /\ writing' = NextSlotOf(writing)
    /\ UNCHANGED <<configVars, slots, running, m_map_process_name_pid, rates>>

StartProcess ==
    /\ load.step = "done" /\ process = "up"
    /\ \E p \in Pids \ Running, n \in Names : running' = [running EXCEPT ![p] = n]
    /\ UNCHANGED <<configVars, slots, writing, m_map_process_name_pid, rows, rates>>

EndProcess ==
    /\ load.step = "done" /\ process = "up"
    /\ \E p \in Running : running' = [running EXCEPT ![p] = None]
    /\ UNCHANGED <<configVars, slots, writing, m_map_process_name_pid, rows, rates>>

-----------------------------------------------------------------------------
(* main's end: CBuildMonitor deletes what its slots point to.               *)

StartDelete ==
    /\ AtMonitors("rest")
    /\ writing' = [writing EXCEPT !.pc = "delete", !.i = 0]
    /\ UNCHANGED <<configVars, slots, running, m_map_process_name_pid, rows, rates>>

\* Two slots of one type share its singleton.
Shared == \E j \in 0 .. writing.i - 1 : slots[j] = slots[writing.i] /\ slots[j] # NULL

DeleteMonitor ==
    /\ AtMonitors("delete")
    /\ writing' = IF writing.i = OBJECT_NUM THEN [writing EXCEPT !.pc = "gone"]
                  ELSE IF Shared THEN [writing EXCEPT !.pc = "twice"]
                  ELSE [writing EXCEPT !.i = @ + 1]
    /\ UNCHANGED <<configVars, slots, running, m_map_process_name_pid, rows, rates>>

Next ==
    \/ LoadConfig /\ UNCHANGED monitorVars
    \/ ConcreteMonitor \/ Constructed
    \/ StartWrite \/ OtherMonitor \/ ReadCounters \/ SnapshotFails \/ GetProcessList \/ ReportProcesses
    \/ StartProcess \/ EndProcess
    \/ StartDelete \/ DeleteMonitor

Spec == Init /\ [][Next]_vars

-----------------------------------------------------------------------------
(* Properties.                                                              *)

\* A monitor that has been built is the one its slot was configured for, and
\* finds its section loaded, whatever the other slots hold: MonitorConfig has no
\* initial values, and the monitors read its numbers and arrays unasked.
BuiltIsLoaded ==
    \A i \in Slots : slots[i] # NULL =>
        /\ slots[i] = config.object_type[i]
        /\ slots[i] \in Sectioned => slots[i] \in config.loaded

\* A configured program that the snapshot found, and could open, is reported as
\* running, whichever others could not be opened and whatever ended since.
SeenIsReported ==
    [][\A i \in Slots : rows'[i] # rows[i] =>
         \A k \in 1 .. Len(rows'[i]) :
            process_name[k] \in writing.seen => rows'[i][k].status = 1]_vars

\* Counters may have outgrown an int, and their sum may: the rates of the disks
\* and the processor are still what was counted between the readings.  So is the
\* network's, unless a counter passed a multiple of Modulus between them: then it
\* is less by as much.
RatesSurviveOverflow ==
    LET counted(k) == rates.second[k] - rates.first[k]
        passed(k) == rates.second[k] \div Modulus - rates.first[k] \div Modulus
    IN  /\ DiskRate(rates.first, rates.second) = counted(1) + counted(2)
        /\ CpuRate(rates.first, rates.second)
             = [busy |-> counted(2), all |-> counted(1) + counted(2)]
        /\ NetworkRate(rates.first, rates.second)
             = counted(1) + counted(2) - Modulus * (passed(1) + passed(2))
=============================================================================
