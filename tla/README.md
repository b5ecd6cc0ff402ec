# Specifications of sysmonitor

`sysmonitor` is an agent: it samples the machine it runs on (system counters,
processes, databases, web counters, the alarm lines of log files), keeps the
last samples in memory and hands them, one per request, to TCP clients.  This
directory holds TLA+ models of its concurrent core, the TLC runs that check
them on small instances and the TLAPS proofs that settle the main results for
every instance.  All paths below are relative to `src/SysMonitor/` unless they
start with `src/`.

## 1. The system

### 1.1 Threads

| Thread | Code | Does |
|---|---|---|
| main / event loop | `main`, `on_accept`, `buffered_on_read`, `buffered_on_error` (`sys_monitor.cpp`) | builds everything, accepts clients, answers requests through `CProtocolManage::read` |
| timer | `on_timer` | calls `CProtocolManage::write` for ever, once a second (or with no pause when a monitor of type 1 or 3 is configured) |
| one per NDB log file | `thread_func` (`ndb_monitor.cpp`) | `scan_log`, then a sleep of 3 s, for ever |

The timer and the event loop share one `CProtocolManage`; all threads share the
one `CNdbMonitor`.

### 1.2 Components

| Component | State | Operations | Correct when |
|---|---|---|---|
| Sample queue and protocol, `protocol_manage.cpp` | `m_list_buf` (no lock), `m_bCheck` | `read`, `get_last_buf`, `rset_list_buf`, `write` | the list stays bounded, keeps the newest samples, no sample is answered twice or out of order, no `pop_front` of an empty list |
| Server, `sys_monitor.cpp` | `monitor_global`, one `client` per connection, `g_thread_on_of` | `on_accept`, `buffered_on_read`, `buffered_on_error`, `on_timer`, `main` | a client's structure and the shared `CProtocolManage` are used only while they live; shutdown ends |
| NDB log monitor, `ndb_monitor.cpp` | `m_map_log_state` under `m_lock`, the `LOG_STATE_DATA` it points to without | constructor, `scan_log`, `compare_file_state`, `write`, `reset_log_status` | every error line is reported until a client ignores it; nobody waits for ever |
| Link manager, `link_manager.cpp` (Windows) | pool of `MAX_LINK_NUM` `OPLINK`s under `m_csLink`, `m_nFailCount` | `GetLink`, `FreeLink`, `DisConnect`, `CheckConnect`, `_Connect2`, `ConnectDataBase` | a link belongs to one caller at a time, is connected to the database asked for, and comes back |
| MSSQL monitor, `mssql_monitor.cpp` (Windows) | none of its own | `write`, `get_counter_value` | each database's counters appear once, in its own row |
| MySQL connection, `simple_mysql.cpp` | status, result sets, server handle | `connect`, `disconnect`, `reconnect`, `check_connect`, `execute`, `commit`, `rollback` | the status says what the handle is; results are freed once |
| MySQL monitor, `mysql_monitor.cpp` | vector of connections | constructor, `write` | one row per configured database |
| Configuration, `load_config.cpp`, `func.cpp`, `db_utility.cpp` | the values read | `LoadConfig`, `GetIniKeyString`, `db_parse_cs` | each key is read from its own section |
| Monitor factory, `monitor_system.cpp` | seven slots of monitors, one singleton per class | `ConcreteMonitor`, `get_monitor_obj`, destructor | a slot holds the type configured for it; every monitor is deleted once |
| Process monitor, `monitor_system.cpp` (Windows) | `m_map_process_name_pid` | `GetProcessList`, `write` | reports the processes that run now |
| Linux system and process info, `linux_monitor_system.cpp` | `/proc` counters read twice | `get_monitor_data_sec`, ... | rates are differences over the interval |
| Web monitor, Windows counters, ports: `web_monitor.cpp`, `port.cpp` | none | `write` | pure input and formatting |
| Oracle monitor, `Oracle_Monitor.cpp` | - | - | not compiled (`HAS_ORACLE` is commented out, `monitor_system.h:23`) |
| `src/jsoncpp`, `src/libevent`, `src/database` | - | - | third-party code |

## 2. Plan

The order is by what would hurt most: the data every client sees, then the
alarms, then the server around them, then the database access, then what the
configuration makes of all of them.

| # | Module | Composes / implements | State of it |
|---|---|---|---|
| 1 | `SampleQueue` | implements the abstract `SampleFeed` | modelled, checked, safety and refinement proved |
| 2 | `NdbMonitor` | with the callers' side of `CProtocolManage` | modelled, checked, safety proved |
| 3 | `Server` | clients, event loop, timer, descriptor table | modelled, checked, safety proved |
| 4 | `LinkManager` | the pool as any callers may use it | modelled, checked with its caller, safety proved |
| 5 | `MsSqlMonitor` | extends `LinkManager`; implements its `Spec` | modelled, checked, safety and refinement proved |
| 6 | `MysqlConnection` | over libmysqlclient | modelled, checked, safety proved |
| 7 | `MysqlMonitor` | `INSTANCE MysqlConnection` per connection; implements its `Spec` | modelled, checked, safety and refinement proved |
| 8 | `Config` | `GetIniKeyString`, `LoadConfig` | modelled, checked and proved within `Monitors` |
| 9 | `Monitors` | extends `Config` and `LinuxSysinfo`: configuration, factory, process monitor | modelled, checked, safety proved |
| 10 | `LinuxSysinfo` | pure operators | modelled, checked and proved within `Monitors` |

Every safety property of a run is proved.  What a client sees is stated in two
places that share no variable, the samples' order in `SampleFeed` and whom an
answer reaches in `Server`; one specification of both would be their
conjunction.  There are
as many runs and properties as one can keep an overview of (12 and 40): a new
one replaces the least telling.

## 3. Modules and code

In every module an action is one thread's code between two points at which
another thread, a client or the library can do something.  Where a lock is
held the action may be larger, where none is each list or field operation is an
action of its own.  `MC*.tla` only name the instances.

Definitions named after a mistake (`TrimsLate`, `ClearFlagForgotten`, ...)
are not part of the models.  Each is the definition below it with one mistake
a programmer could make; putting it in its place violates the property given
for it in `PROJECT.json`.  They show that each property can fail.

### `SampleFeed`, `SampleQueue` - `protocol_manage.cpp`

`SampleFeed` is what a client may rely on: samples are published one after
another and an answer is newer than all earlier ones.  `SampleQueue` has the
list (`m_list_buf`), the timer's locals (`list_size`, `pop_left`) and the event
loop's (`first`, `text`).  A sample is its number.

| Code | Actions |
|---|---|
| `write` (timer), with `rset_list_buf` | `ReadSize`, `TrimPop` once per `pop_front`, `Sample`, `PushBack` |
| `buffered_on_read`, `read` and `get_last_buf` (event loop) | `Receive` or `ReceiveTooLong`, `ResetLogStatus`, `CheckSize`, `Front`, `Copy`, `PopFront`, `Reply` |

A `pop_front` of an empty list, a read of a freed node, a sample or a request
longer than the client's buffer and two list operations at once are undefined; `mem` records
which happened and the model stops.  So the properties say what holds up to
then, and `UnderflowNeedsDrain` what must have happened for the first of them.

### `NdbMonitor` - `ndb_monitor.cpp`

State per log file: `LOG_STATE_DATA` as the map points to it (`state`), the
scanning thread's position and locals (`thread`), the file's lines (`disk`).
A line is what one `fgets` returns (at most 999 bytes) and is the tag in its
fourth word; positions and sizes count lines.  A longer line, or one that is
read before all of it was written, is several lines of the model, and if that
cuts the tag's word in two none of them has the tag: what `ErrorReported` and
`LinesScannedOnce` say is said of these pieces.

| Code | Actions |
|---|---|
| constructor | `CreateThread`, `InsertState`, in the order of the code: a thread may run before its state is in the map (`WildLookup`) |
| `scan_log` | `GetFileState`, `OpenFile`, `ReadLine`, `SetStatus`, `SetMessage`, `CheckReset`, `ClearMessage`, `ClearStatus`, `ClearFlag`, `StoreState`: every assignment through the unguarded pointer is a step |
| `write` | `WriteLock`, `Compare` (with the second lock of `m_lock` for a truncated file), `ReportStatus`, `ReportMessage`, `WriteUnlock` |
| `reset_log_status` | `ResetLock`, `ResetMessage`, `ResetStatus`, `ResetFlag`, `ResetUnlock` |
| writer of the logs (external) | `AppendLine`, `Rotate` |

Two threads that touch one `std::string` at once are undefined (`Race`).

### `Server` - `sys_monitor.cpp`

Linux build.  A descriptor is a number that names what it was opened for; the
kernel gives out the lowest free one.  `on_accept`, `buffered_on_read` and
`buffered_on_error` are one action each, since the event loop runs a callback
to its end; between them stand the descriptor operations of the timer thread
and libevent's deferred finalizer, which closes a bufferevent's descriptor
after the callbacks already due (`Finalize`).  The timer thread closes a
descriptor twice as well: `get_systemtime` calls `close(f)` before and after it
appends its value (`linux_monitor_system.cpp:70`, `:73`; `CloseFile`), so a
client accepted in between loses its socket.  `AnswersAsker` says what holds
in spite of both thefts.  What arrives at once is read into a buffer of `BUFLEN`
bytes whatever its length; `OverrunsBuffer` is that it does not fit.  After a failure of `epoll`
`main` goes through its teardown in steps, while the timer thread still works.
The event loop, the finalizer and the descriptor table are external parts,
modelled as the program uses them and as the vendored libevent headers say.

### `LinkManager` - `link_manager.cpp`, `MsSqlMonitor` - `mssql_monitor.cpp`

`link` is `m_aLinkInfo` with one field for the truth: `open`, the database the
connection is connected to as the ADO object knows it: a session the server has
ended stays open until a query on it fails, and `GetLink` hands it out.  `GetLink` is several steps: the choice of
a link is under `m_csLink`, closing and connecting is not, and a connect may
throw out of it.  The class is proved for any number of callers, as it is
written.  `m_nFailCount` and `busy_time` influence nothing and are left out.

`MsSqlMonitor` is the caller in the program, with its loop over the databases:
`CallGetLink`, `InGetLink`, `Query` and `Free` for each of the two readings of
a database, `AppendRow`.  A reading is the database it came from and how many
rows it has.  What nobody catches ends the program (`process`): `GetLink`'s
`NULL` and its exception, a vector read past its end.  The run lets a second
caller share the pool (`others`), so that the pool's properties are checked in
the composition.

### `MysqlConnection` - `simple_mysql.cpp`

A `CMysqlConnection` is not shared between threads, so what matters is the
sequence of calls and what the network does in the middle of one.  Each method
is an operator that gives the set of its outcomes: the connection afterwards,
the code returned, how often the statement took effect on the server, and with
what `reconnect` connected.  Every network call of the library may find the
session gone.  The library's part (`mysql_query`, `mysql_ping`, `Drained`, ...)
follows libmysqlclient 5.5.36, the one in `src/database/mysql`: a
call on a lost session leaves the announced results announced, and
`mysql_next_result` clears the last error when none is.  An error packet means
that the statement had no effect: what a `CALL` that fails half-way has already
changed is not counted, and `execute` sends such a call again.  `AppliedOnce`
speaks of whole effects.  Left out: character
set and autocommit of the session (only that setting them may fail), the texts.

### `MysqlMonitor` - `mysql_monitor.cpp`, `mysql_monitor.h`

One `MysqlConnection` per configured database (`Connection(i)`), and
`m_mysql_list_connection` as the list of those without an error number.

| Code | Actions |
|---|---|
| constructor | `Connect` per database, `Constructed` |
| `write` | `WriteBlank` or `StartWrite`; `SlaveExecute`, `SlaveRows` per database; `Show` and `MemoryUsage` for a cluster; `ProcExecute` and one of `ProcNull`, `ProcRow`, `ProcNoRow`; `StatusExecute`, `StatusFields` |
| destructor | `StartDelete`, `DeleteConnection`, `Deleted` |

A report is how many tables and fields it has, for a reader finds a field by its
place.  `win32` is the build: the Windows one appends the cluster's four tables,
empty, to every report and never runs `ndb_mgm`.  `FieldsInPlace` says that a
report has the tables of its build and type and, behind them, every field the
server did not itself leave out.  The server's rows and what `ndb_mgm` prints are arbitrary.  The three
ways out of the process are `SlavePastEnd`/`DeletePastEnd` (the list is indexed
by the number configured), `ProcNoRow` (`get_record`'s `NULL`) and
`MemoryUsage` (a node of one line, or without an address).

### `Config` - `load_config.cpp`, `func.cpp`

`LoadConfig` is one action per lookup.  `GetIniKeyString` is a function of the
file and of its static buffer: which line it takes (`Found`: the key occurs
anywhere in a line after the header of the section, in this or a later
section) and which bytes it returns (`Copied`: on Linux `strncpy` leaves the
rest to the header that was put into the buffer before).  Bytes are kept as the
line they came from, so that an answer is seen to be the value, more, or less.
`FindsOwnKey` is about sections with one header (`OneHeader`): with two the
lookup goes on from the first one.  `ConfigAssumption` says what a file is made
of and that no text fills the buffer to its end.

### `Monitors`, `LinuxSysinfo` - `protocol_manage.cpp`, `monitor_system.cpp`, `linux_monitor_system.cpp`

After `Config`, `ConcreteMonitor` fills the slots with the types' singletons,
`write` goes through the slots, and at the end `DeleteMonitor` deletes what
the slots point to.  `GetProcessList` and `ReportProcesses` are
`CProcessMonitor`, with `StartProcess` and `EndProcess` between them;
a snapshot lists the processes in any order (`Listings`).  `ReadCounters` takes
two readings for the operators of `LinuxSysinfo`, in which an `int` has
`Modulus` values, 2^32 in the code.  That `scanf` of `%d` keeps the lower bits of
a number that does not fit, and that sums of `int`s wrap around, is assumed, as
the 64-bit glibc and gcc's code do it; the language defines neither, and a 32-bit
glibc would saturate.  The two columns of `get_network_transfers` are the bytes
received and, by the count of its format's columns (`:309`), the multicast packets
received, where the bytes sent were meant.

## 4. Runs

| Run | Instance | Shows |
|---|---|---|
| `queue` | `LIMIT` 4, `REMAINDER` 2, 7 samples | every property of the list under all interleavings, and that it implements `SampleFeed` |
| `ndb` | one file, lines of every tag and without one, one truncation, two ignores | what scan, report and reset may do to an alarm |
| `ndb_live` | one file, no truncation, fair | errors are reported, ignores end |
| `ndb_truncated` | one truncation, fair | finding: the timer thread waits for its own lock |
| `server` | three clients, two of which send up to two requests and hang up, two descriptors, one file of the timer, fair | answers go to who asked, everyone is heard, requests are taken while another client waits in vain to be accepted |
| `server_theft` | two clients | finding: a client loses its descriptor to another's second close |
| `mssql` | the monitor and possibly one more caller, two links, two databases, queries of 0, 1 and 5 rows | one user per link, nothing is lost but by a throw, fields tell the truth; rows in order; only the first request can fail a monitor that is alone; `write` ends; the monitor implements the pool's `Spec` |
| `mssql_rows` | the monitor alone, queries that work | finding: rows hold another database's counters |
| `mysql` | up to two further results per statement | no double effect, no double free, never out of sync, no dangling string |
| `mysql_here` | one further result | finding: the branch "it's never goto here" is reached |
| `mysql_monitor` | both builds, up to two databases, every type, up to two further results | rows belong to the statement just run, reports have the tables and fields of their build and type, each connection is used as `MysqlConnection` allows |
| `startup` | four templates of `config.ini` with any of their keys missing, CR LF and LF, both builds; two programs, two pids; an `int` of 8 values | keys are found, answers are values, what is built is what was configured, and loaded; a process seen is reported; rates survive overflow |

The bounds are the smallest at which every branch is taken and every hazard
can happen.  The trim of the list needs `REMAINDER < LIMIT` and more samples
than two trims (7 > 4 + 2).  A scan of one line with two lines in the file
splits a file over scans; two ignores are needed for one to come between the
other's flag and the scan.  Two clients and two descriptors are enough for one
to get the number the other had.  With a third client the descriptors run out
while two are connected: `accept` fails in every round, since the listening
socket stays readable, and both must still be served.  The third
only connects (`Quiet`): the requests of two are enough to see one of them left
unserved, whoever is connected and whoever waits.  With two links the second caller can hold
one, an exception leak one, and somebody find none; two databases are one whose
link can be another's; five rows reach the fifth entry, which is reduced by the
first reading's.  Two further results: one to skip, one to be left.  Two
databases: the list can be empty, short, or whole; two status variables stand
for the 21, all of which are treated alike.  `config.ini`'s templates have keys
that are parts of others, numbers 1 and 10, a type that is 9 with LF lines (written
90; a type of one digit becomes 0), a key commented out, a section
without its number before one whose number's key contains it, types named twice
and more databases than there is room for; the values are shorter and longer
than their section's title, which decides what shows through the buffer.
Counters of up to 13 pass both limits, 4 and 8; a rate of up to 2 is below
half of 8, as a second's is below 2^31.

For the safety properties of all modules the theorems of section 5 remove the
bounds.  Runs say `CHECK_DEADLOCK FALSE` where the model stops at its
bounds, at the end of the process or at undefined behaviour; `MysqlConnection`
never stops and is checked for deadlock.

### Fairness

`NdbMonitor`: `thread_func`, `on_timer` and the event loop run for ever and are
scheduled; a thread that waits for `m_lock` gets it if it becomes free again
and again (strong fairness) - between two uses the holders sleep for seconds
or wait for a client; a log can be opened again and again.  No fairness for
clients, the writer of the logs, or undefined behaviour.  `Server`: the event
loop runs the callbacks due, the timer thread and the teardown go on (weak
fairness); `epoll` need not fail and clients need do nothing.  `MsSqlMonitor`:
the timer thread goes on (weak fairness), nothing is asked of other callers.
The other modules have no liveness property.

### Findings

1. `ndb_monitor.cpp:149`: `write` holds `m_lock` and locks it again when a log
   was truncated; the timer thread stops, then every other one (`ndb_truncated`).
2. `sys_monitor.cpp:248`: `close(client->fd)` closes a descriptor that
   libevent closes again later; a client accepted between the two loses its
   socket (`server_theft`).
3. `link_manager.cpp:105`: a connected free link is returned whatever database
   was asked for, and `mssql_monitor.cpp:7` never empties the row it fills: the
   rows after the first hold other databases' counters (`mssql_rows`).
4. `simple_mysql.cpp:352`: clearing the results resets the error number by which
   `reconnect` would recognise a lost session, so the branch that is "never"
   reached is, and a connection made from a connect string stays lost
   (`mysql_here`).  The model also shows the good side of this: that connection
   never sends a statement twice that took effect (`AppliedOnce`).

Seen while modelling, and part of the models, but contradicting no sentence of
the repository:

- `link_manager.cpp:94`: a connect that throws leaves its link busy for ever
  (`leaked`; `BusyAccounted` says it is the only way).
- `linux_monitor_system.cpp:73`: the second `close` of `get_systemtime`.
- `func.cpp:66`: on Linux a `config.ini` whose lines end in LF loses the last
  byte of every value: a port of 6666 is read as 666 (`Taken`; `AnswerIsValue`
  is therefore stated for CR LF).  Values longer than their section's title may
  end in bytes of an earlier answer.
- `monitor_system.cpp:188`: the map of pids is never cleared; a program that
  ended is reported as running for ever, and its connections are those of
  whoever has its first pid now.  netstat's pipe is read to its end for the
  first pid of the first known program only, so every other program has 0.
- `mysql_monitor.cpp:105`: a report of a general or master-slave database has
  one table on Linux, a blank one five, so its fields stand elsewhere
  (`TablesBefore`, which `FieldsInPlace` holds every report to).
- `sys_monitor.cpp:199`: a request longer than `BUFLEN` is written past the end
  of the client's buffer (`OverrunsBuffer`, `ReceiveTooLong`).
- `linux_monitor_system.cpp:309`: the network rate adds a column of the received
  side to the bytes received, not the bytes sent.

## 5. Proofs

All proofs hold for every value of the constants that the named assumptions of
the modules allow.  They say only that sizes are naturals, `REMAINDER < LIMIT`,
at least one line per scan, that a default database exists, that clients are not
the model's own markers, that the monitor is one of the pool's callers
(`BoundsAssumption`, `ConstantsAssumption`, `MonitorAssumption`); that a file is
a sequence of lines whose texts, like the titles, are shorter than the buffer
(`ConfigAssumption`); that an `int` has an even number of values
(`ModulusAssumption`); that there are finitely many pids, and that a counter
moves in a second by less than a quarter of those values (`MonitorsAssumption`).

| Module | Theorems | Inductive invariant and argument |
|---|---|---|
| `SampleQueueProofs` | `TypeCorrect`, `Backlog`, `NoGap`, `TrimRemainder`, `Underflow`, `InOrder`, `Refinement` | `IInv`: the timer's stale size and the real length differ exactly by the requests served since (`Trimming`, `Drained`), and the sample in the event loop's hands is the list's front or older (`InHand`). Without them `Len <= LIMIT` is not inductive: the push relies on a size read several steps before. Refinement maps `published` to the samples appended |
| `NdbMonitorProofs` | `TypeCorrect`, `IgnoresAccounted`, `Exclusion`, `NoLineLostOrRepeated`, `AlarmsStand`, `ReportsBacked`, `BlocksOnlyTruncated` | `NInv`: who holds `m_lock` by program counters (`LockHeld`), what ties a file's flag, thread and history together (`Own`, framed file by file), and that an untruncated file never looks shorter than recorded (`Grows`). For `ReportsBacked` a second invariant on top, `EInv`: the alarm that stands, the one reported and the line in hand all come from lines read; each step says where the values it writes come from (`Sourced`), and what was read stays read (`ReadStays`) |
| `ServerProofs` | `TypeCorrect`, `NoCrossTalk`, `AllHeard` | `SInv`: the kernel watches a descriptor only for who owns it, an event is registered only for open clients, a freed client has its finalizer to come, and a due callback's socket is its own unless a file of the timer thread was closed under it (`Honest`) |
| `LinkManagerProofs` | `TypeCorrect`, `OneUser`, `Accounted`, `TellsTruth`, `Primary` | `LInv`: a used link is not leaked, fields are true except between the two assignments of `DisConnect`, and what a caller on its way through `GetLink` knows of its link (`OnTheWay`) |
| `MsSqlMonitorProofs` | `MonitorTypeCorrect`, `UsesPool`, `PoolInProgram`, `RowsOrdered`, `FailsFirst` | `MInv` extends `LInv`: the row in hand is the report's last (`Writing`), and a monitor that is alone always gets link 0, which stays connected once it has been and is never leaked after that (`Alone`). Without it `FailsOnlyAtFirst` is not inductive: that the pool has a link for the monitor rests on how the one before came back. Every step is a pool step or leaves the pool alone (`PoolStep`), so `LinkManagerProofs`' theorems hold here by refinement |
| `MysqlConnectionProofs` | `TypeCorrect`, `OkApplied`, `Once`, `FreedOnce`, `InSync`, `NotDangling` | `CInv` with `Good`: a stored result excludes one that waits, no result waits on a session that is gone, and the dead frame's string is only pointed at where the connect string is known. One lemma per method: clearing makes a connection `Clear`, on which the next command is accepted; a statement that failed but took effect leaves a session that is lost and announced nothing, which `reconnect` does not repair where there is a connect string |
| `MysqlMonitorProofs` | `TypeCorrect`, `StatementRows`, `Places`, `UsesConnections`, `ConnectionsInProgram` | `MInv`: each connection is between two calls what `MysqlConnectionProofs` keeps of it (`Sound`), the loops' index and the connection at work are in range (`Walking`), the report's tables and fields are those of where `write` is (`Counting`), and a statement that failed has left nothing to be read (`Reading`): without it rows of an earlier statement could be taken for this one's. Every step is one call on one connection, or none, so `MysqlConnectionProofs`' theorems hold of every connection in the program |
| `MonitorsProofs` | `TypeCorrect`, `OwnKeys`, `Answers`, `LoadedFirst`, `Rates`, `ReportsSeen` | `MonInv`: the buffer's last byte is `NUL` (`Buffered`), so an answer has an end; sections behind `LoadConfig`'s slot are loaded (`HasLoaded`) and a monitor has its slot's configured type (`Building`); a program the snapshot found has a pid in the map until its row is written (`Sampling`). A lookup is examined by itself: the least line found is the least that sets the key, and bytes of an earlier answer can only stand behind the `NUL` of the header, which the value must have covered. The rates rest on arithmetic modulo `Modulus`: congruent numbers that fit an `int` are equal |

Only model-checked: liveness under fairness (`ErrorReported`,
`IgnoreTakesEffect`, `RequestsTaken`, `WriteEnds`), which is beyond the prover;
and the four findings, which are counterexamples.  Proved but in no
run: `NdbMonitorProofs!Exclusion`, `ReportsBacked` and `BlocksOnlyTruncated` and
`LinkManagerProofs!Primary`.  `ReportsBacked` is the safety half of what
`ErrorReported` asks for, `BlocksOnlyTruncated` says when finding 1 cannot happen;
TLC finds both true in all 2,871,844 states of the instance of `ndb`.  The modules contain no
`RECURSIVE` operator and no theorem needs induction over data.

## 6. Not modelled

The Oracle monitor (not compiled), web counters, Windows performance counters
and the string functions of `port.cpp` (they read, format and keep nothing), the
parser of connect strings (its outcome is an input of `MysqlConnection`), the
other methods of `CLinuxSysinfo` (each prints one file of `/proc`), the Windows
timer and its message loop, the wording and JSON layout of the answers.

The repository is mostly third-party code: of its lines of C and C++ some 5,000
are the program's own (`src/SysMonitor`), the rest is libevent, jsoncpp, ADO,
OCILIB and the headers of MySQL, vendored as they were published.  Of these only
the behaviour this program meets is modelled, and marked external in the map;
OCILIB, the largest, is not even compiled.  So a small share of all lines
is mapped while the program's own control is nearly all modelled.

Undefined behaviour is reached and named by the models (`mem`, `process`,
`writing.pc = "twice"`), not followed further; the one exception is
`LinuxSysinfo`, which follows integer overflow and `%d` out of range as
wrap-around (section 3).

Of `config.ini` left out are numbers that are negative or do not fit their variable
(`load_config.h:44`, `:48`, `:60` are `short`) and values that contain a key's
name, which `strstr` would find.  No property says what follows where the
models stop or where the code promises nothing; the hazards in `PROJECT.json`
that have no property say why.
