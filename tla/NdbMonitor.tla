------------------------------ MODULE NdbMonitor -----------------------------
(***************************************************************************)
(* CNdbMonitor (src/SysMonitor/ndb_monitor.cpp): one scanning thread per    *)
(* log file raises alarms from the lines it reads, the timer thread reports *)
(* the alarms (write), and the event loop clears them when a client sends   *)
(* "ignore" (reset_log_status).  m_lock is held around the map look-ups,    *)
(* the report and the reset, but scan_log changes the state it got a        *)
(* pointer to without it: each of its assignments is a step of its own.     *)
(*                                                                          *)
(* A line is what one fgets returns, at most 999 bytes, and is the tag in   *)
(* its fourth word, "none" if it has fewer: a longer line, or one read      *)
(* before it was all written, is several of the model's lines, each with    *)
(* the tag of its own fourth word.  Sizes and positions count these.  A     *)
(* file stands for the thread that scans it, whose id is the key of         *)
(* m_map_log_state.                                                         *)
(*                                                                          *)
(* Definitions named after a mistake (TagsReadAsIs, ResetLockUnchecked, ...) *)
(* are not used: each is what the definition after it would be with that    *)
(* mistake in the code, and breaks a property below.                        *)
(***************************************************************************)
EXTENDS Naturals, Sequences

CONSTANTS Files,          \* the configured log files
          READ_LINE_NUM,  \* lines one scan reads at most: 100 in the code
          Tags,           \* tags of the lines the files may hold
          MaxLines,       \* bound: length of a file
          MaxRotations,   \* bound: truncations of the files
          MaxIgnores      \* bound: "ignore" requests

ASSUME ConstantsAssumption ==
    /\ Files # {}
    /\ READ_LINE_NUM \in Nat \ {0}
    /\ Tags \subseteq {"INFO", "WARNING", "ERROR", "none"}
    /\ MaxLines \in Nat /\ MaxRotations \in Nat /\ MaxIgnores \in Nat

LOG_NORMAL == 0
LOG_WARNING == 1
LOG_ERROR == 2
Statuses == {LOG_NORMAL, LOG_WARNING, LOG_ERROR}
Messages == {"", "WARNING", "ERROR"}   \* a message is the tag of its line

LOG_STATE_DATA ==
    [file_size : Nat, file_pos : Nat, log_status : Statuses,
     log_err_msg : Messages, b_reset_status : BOOLEAN]

VARIABLES
    disk,        \* the files' lines, written and truncated from outside
    rotations,   \* history: truncations so far
    process,     \* "up", "exited", or the undefined behaviour that ended it
    started,     \* files whose thread the constructor has created
    inserted,    \* files whose state is in m_map_log_state
    m_lock,      \* "free", or the thread that holds it: "timer" | "loop"
    state,       \* per file: the LOG_STATE_DATA the map points to
    thread,      \* per file: pc, FILE position and locals of scan_log
    timer,       \* timer thread: pc of write(), files to visit, file in hand
    report,      \* per file: status and message of the last report
    loop,        \* event loop: pc of reset_log_status, files to visit, file in hand
    history      \* per file: ignores, alarms swallowed for them, lines scanned

outside == <<disk, rotations>>
startup == <<started, inserted>>
vars == <<outside, process, startup, m_lock, state, thread, timer, report, loop, history>>

ThreadPCs == {"get", "open", "line", "status", "msg", "check",
              "clear_msg", "clear_status", "clear_flag", "store"}

TypeOK ==
    /\ disk \in [Files -> Seq(Tags)]
    /\ rotations \in Nat
    /\ process \in {"up", "exited", "wild", "raced"}
    /\ started \subseteq Files /\ inserted \subseteq started
    /\ m_lock \in {"free", "timer", "loop"}
    /\ state \in [Files -> LOG_STATE_DATA]
    /\ thread \in [Files -> [pc : ThreadPCs, offset : Nat, line_num : Nat,
                             tag : {"INFO", "WARNING", "ERROR"}]]
    /\ timer \in [pc : {"idle", "compare", "relock", "status", "msg"},
                  todo : SUBSET Files, at : Files]
    /\ report \in [Files -> [log_status : Statuses, log_err_msg : Messages]]
    /\ loop \in [pc : {"idle", "want", "msg", "status", "flag"},
                 todo : SUBSET Files, at : Files]
    /\ history \in [Files -> [ignores : Nat, swallowed : Nat, scanned : Nat]]

Init ==
    /\ disk \in [Files -> UNION {[1 .. n -> Tags] : n \in 0 .. MaxLines}]
    /\ rotations = 0
    /\ process = "up"
    /\ started = {} /\ inserted = {}
    /\ m_lock = "free"
    /\ state = [f \in Files |->
                 [file_size |-> 0, file_pos |-> 0, log_status |-> LOG_NORMAL,
                  log_err_msg |-> "", b_reset_status |-> FALSE]]
    /\ thread = [f \in Files |-> [pc |-> "get", offset |-> 0, line_num |-> 0, tag |-> "INFO"]]
    /\ report = [f \in Files |-> [log_status |-> LOG_NORMAL, log_err_msg |-> ""]]
    /\ history = [f \in Files |-> [ignores |-> 0, swallowed |-> 0, scanned |-> 0]]
    /\ timer = [pc |-> "idle", todo |-> {}, at |-> CHOOSE f \in Files : TRUE]
    /\ loop = timer

-----------------------------------------------------------------------------
(* The program that writes the log files.                                   *)

AppendLine(f) ==
    /\ Len(disk[f]) < MaxLines
    /\ \E t \in Tags : disk' = [disk EXCEPT ![f] = Append(@, t)]
    /\ UNCHANGED rotations

Rotate(f) ==
    /\ rotations < MaxRotations
    /\ disk' = [disk EXCEPT ![f] = <<>>]
    /\ rotations' = rotations + 1

Environment ==
    /\ \E f \in Files : AppendLine(f) \/ Rotate(f)
    /\ UNCHANGED <<process, startup, m_lock, state, thread, timer, report, loop, history>>

-----------------------------------------------------------------------------
(* The constructor, on the main thread, before the timer and the event loop *)
(* run.  The thread starts before its state is in the map.                  *)

CreateThread(f) ==
    /\ started = inserted /\ f \notin started
    /\ state' = [state EXCEPT ![f].file_size = Len(disk[f])]
    /\ started' = started \union {f}
    /\ UNCHANGED <<inserted, process>>

InsertState ==
    /\ started # inserted
    /\ inserted' = started
    /\ UNCHANGED <<started, state, process>>

\* stat or pthread_create fails.
ConstructorExits ==
    /\ inserted # Files
    /\ process' = "exited"
    /\ UNCHANGED <<startup, state>>

Constructor ==
    /\ (\E f \in Files : CreateThread(f)) \/ InsertState \/ ConstructorExits
    /\ UNCHANGED <<outside, m_lock, thread, timer, report, loop, history>>

Constructed == inserted = Files

-----------------------------------------------------------------------------
(* thread_func: scan_log(f) and a sleep, for ever.                          *)

Step(f, from, to) ==
    /\ thread[f].pc = from
    /\ thread' = [thread EXCEPT ![f].pc = to]

Assign(f, field, value) == state' = [state EXCEPT ![f][field] = value]

\* get_file_sate locks, looks up, unlocks.
GetFileState(f) ==
    /\ f \in inserted
    /\ m_lock = "free"
    /\ Step(f, "get", "open")
    /\ UNCHANGED <<state, history>>

OpenFileAtStart(f) ==
    /\ thread[f].pc = "open"
    /\ thread' = [thread EXCEPT ![f].pc = "line", ![f].line_num = 0, ![f].offset = 0]
    /\ UNCHANGED <<state, history>>

\* fopen and fseek to file_pos; if fopen fails nothing is read.
OpenFile(f) ==
    /\ thread[f].pc = "open"
    /\ thread' = [thread EXCEPT ![f].pc = "line", ![f].line_num = 0,
                                ![f].offset = state[f].file_pos]
    /\ UNCHANGED <<state, history>>

OpenFails(f) == Step(f, "open", "get") /\ UNCHANGED <<state, history>>

TagsReadAsIs(t) == {t}

\* A line of fewer than four words leaves tag_str as it was: anything.
TagsRead(t) == IF t = "none" THEN {"INFO", "WARNING", "ERROR"} ELSE {t}

AtEnd(f) ==
    thread[f].line_num >= READ_LINE_NUM \/ thread[f].offset >= Len(disk[f])

ReadLine(f) ==
    /\ thread[f].pc = "line"
    /\ ~ AtEnd(f)
    /\ \E t \in TagsRead(disk[f][thread[f].offset + 1]) :
         thread' = [thread EXCEPT ![f] =
                     [pc |-> IF t = "INFO" THEN "line" ELSE "status",
                      offset |-> @.offset + 1, line_num |-> @.line_num + 1, tag |-> t]]
    /\ history' = [history EXCEPT ![f].scanned = @ + 1]
    /\ UNCHANGED state

IsMaskedNever(f) == FALSE
IsMaskedByWarning(f) == state[f].log_status # LOG_NORMAL

\* A warning does not replace an error that stands.
IsMasked(f) == thread[f].tag = "WARNING" /\ state[f].log_status = LOG_ERROR

SetStatus(f) ==
    /\ IF IsMasked(f)
         THEN Step(f, "status", "line") /\ UNCHANGED state
         ELSE /\ Step(f, "status", "msg")
              /\ Assign(f, "log_status",
                        IF thread[f].tag = "ERROR" THEN LOG_ERROR ELSE LOG_WARNING)
    /\ UNCHANGED history

SetMessage(f) ==
    Step(f, "msg", "check") /\ Assign(f, "log_err_msg", thread[f].tag) /\ UNCHANGED history

\* After an "ignore" the next alarm is dropped.
CheckReset(f) ==
    /\ Step(f, "check", IF state[f].b_reset_status THEN "clear_msg" ELSE "line")
    /\ UNCHANGED <<state, history>>

ClearMessage(f) ==
    Step(f, "clear_msg", "clear_status") /\ Assign(f, "log_err_msg", "") /\ UNCHANGED history

ClearStatus(f) ==
    Step(f, "clear_status", "clear_flag") /\ Assign(f, "log_status", LOG_NORMAL) /\ UNCHANGED history

ClearFlagForgotten(f) ==
    /\ Step(f, "clear_flag", "line")
    /\ history' = [history EXCEPT ![f].swallowed = @ + 1]
    /\ UNCHANGED state

ClearFlag(f) ==
    /\ Step(f, "clear_flag", "line")
    /\ Assign(f, "b_reset_status", FALSE)
    /\ history' = [history EXCEPT ![f].swallowed = @ + 1]

\* At the end of the file, or of the scan's share of lines.
TellPosition(f) ==
    AtEnd(f) /\ Step(f, "line", "store") /\ Assign(f, "file_pos", thread[f].offset) /\ UNCHANGED history

\* set_file_state locks, and copies the state onto itself.
StoreState(f) ==
    m_lock = "free" /\ Step(f, "store", "get") /\ UNCHANGED <<state, history>>

Scan(f) ==
    /\ \/ GetFileState(f) \/ OpenFile(f) \/ OpenFails(f) \/ ReadLine(f)
       \/ SetStatus(f) \/ SetMessage(f) \/ CheckReset(f) \/ ClearMessage(f)
       \/ ClearStatus(f) \/ ClearFlag(f) \/ TellPosition(f) \/ StoreState(f)
    /\ UNCHANGED <<outside, process, startup, m_lock, timer, report, loop>>

-----------------------------------------------------------------------------
(* The timer thread: write(), which holds m_lock to its end.                *)

WriteLock ==
    /\ Constructed
    /\ timer.pc = "idle" /\ m_lock = "free"
    /\ m_lock' = "timer"
    /\ timer' = [timer EXCEPT !.pc = "compare", !.todo = Files]
    /\ UNCHANGED <<state, report>>

\* compare_file_state for one file.  A file shorter than recorded is to be read
\* from the start again, and set_file_state locks m_lock, which this thread
\* holds and which is not recursive: no step leaves "relock".
Compare(f) ==
    /\ timer.pc = "compare" /\ f \in timer.todo
    /\ IF state[f].file_size > Len(disk[f])
         THEN /\ state' = [state EXCEPT ![f].file_pos = 0, ![f].file_size = Len(disk[f])]
              /\ timer' = [timer EXCEPT !.pc = "relock"]
         ELSE /\ timer' = [timer EXCEPT !.todo = @ \ {f}]
              /\ UNCHANGED state
    /\ UNCHANGED <<m_lock, report>>

\* A file that cannot be opened, eleven times over, is passed over.
CompareOpenFails(f) ==
    /\ timer.pc = "compare" /\ f \in timer.todo
    /\ timer' = [timer EXCEPT !.todo = @ \ {f}]
    /\ UNCHANGED <<m_lock, state, report>>

StartReport ==
    /\ timer.pc = "compare" /\ timer.todo = {}
    /\ timer' = [timer EXCEPT !.pc = "status", !.todo = Files]
    /\ UNCHANGED <<m_lock, state, report>>

ReportStatus(f) ==
    /\ timer.pc = "status" /\ f \in timer.todo
    /\ report' = [report EXCEPT ![f].log_status = state[f].log_status]
    /\ timer' = [timer EXCEPT !.pc = "msg", !.at = f]
    /\ UNCHANGED <<m_lock, state>>

ReportMessage ==
    /\ timer.pc = "msg"
    /\ report' = [report EXCEPT ![timer.at].log_err_msg = state[timer.at].log_err_msg]
    /\ timer' = [timer EXCEPT !.pc = "status", !.todo = @ \ {timer.at}]
    /\ UNCHANGED <<m_lock, state>>

WriteUnlockForgotten ==
    /\ timer.pc = "status" /\ timer.todo = {}
    /\ timer' = [timer EXCEPT !.pc = "idle"]
    /\ UNCHANGED <<m_lock, state, report>>

WriteUnlock ==
    /\ timer.pc = "status" /\ timer.todo = {}
    /\ m_lock' = "free"
    /\ timer' = [timer EXCEPT !.pc = "idle"]
    /\ UNCHANGED <<state, report>>

Timer ==
    /\ \/ WriteLock \/ StartReport \/ ReportMessage \/ WriteUnlock
       \/ \E f \in Files : Compare(f) \/ CompareOpenFails(f) \/ ReportStatus(f)
    /\ UNCHANGED <<outside, process, startup, thread, loop, history>>

-----------------------------------------------------------------------------
(* The event loop: reset_log_status(0).                                     *)

RequestIgnore ==
    /\ Constructed
    /\ loop.pc = "idle"
    /\ \A f \in Files : history[f].ignores < MaxIgnores
    /\ loop' = [loop EXCEPT !.pc = "want"]
    /\ UNCHANGED <<m_lock, state, history>>

ResetLock ==
    /\ loop.pc = "want" /\ m_lock = "free"
    /\ m_lock' = "loop"
    /\ loop' = [loop EXCEPT !.pc = "msg", !.todo = Files]
    /\ UNCHANGED <<state, history>>

ResetMessage(f) ==
    /\ loop.pc = "msg" /\ f \in loop.todo
    /\ Assign(f, "log_err_msg", "")
    /\ loop' = [loop EXCEPT !.pc = "status", !.at = f]
    /\ UNCHANGED <<m_lock, history>>

ResetStatus ==
    /\ loop.pc = "status"
    /\ Assign(loop.at, "log_status", LOG_NORMAL)
    /\ loop' = [loop EXCEPT !.pc = "flag"]
    /\ UNCHANGED <<m_lock, history>>

ResetFlag ==
    /\ loop.pc = "flag"
    /\ Assign(loop.at, "b_reset_status", TRUE)
    /\ history' = [history EXCEPT ![loop.at].ignores = @ + 1]
    /\ loop' = [loop EXCEPT !.pc = "msg", !.todo = @ \ {loop.at}]
    /\ UNCHANGED m_lock

ResetUnlock ==
    /\ loop.pc = "msg" /\ loop.todo = {}
    /\ m_lock' = "free"
    /\ loop' = [loop EXCEPT !.pc = "idle"]
    /\ UNCHANGED <<state, history>>

Loop ==
    /\ \/ RequestIgnore \/ ResetLock \/ ResetStatus \/ ResetFlag \/ ResetUnlock
       \/ \E f \in Files : ResetMessage(f)
    /\ UNCHANGED <<outside, process, startup, thread, timer, report>>

-----------------------------------------------------------------------------
(* Undefined behaviour beyond the orders of the steps above.                *)

\* get_file_sate dereferences end() for a thread the map does not hold yet.
WildLookup(f) ==
    /\ f \in started \ inserted /\ thread[f].pc = "get"
    /\ process' = "wild"

\* A string is assigned while another thread assigns or copies it, or the map
\* is searched while the constructor inserts.
Race(f) ==
    /\ \/ /\ thread[f].pc \in {"msg", "clear_msg"}
          /\ \/ timer.pc = "msg" /\ timer.at = f
             \/ loop.pc = "msg" /\ f \in loop.todo
       \/ f \in started /\ thread[f].pc = "get" /\ started # inserted
    /\ process' = "raced"

Undefined ==
    /\ \E f \in Files : WildLookup(f) \/ Race(f)
    /\ UNCHANGED <<outside, startup, m_lock, state, thread, timer, report, loop, history>>

Next ==
    /\ process = "up"
    /\ Environment \/ Constructor \/ (\E f \in Files : Scan(f)) \/ Timer \/ Loop \/ Undefined

Spec == Init /\ [][Next]_vars

-----------------------------------------------------------------------------
(* Fairness: every thread is scheduled, a thread that waits for m_lock gets *)
(* it if it is free again and again, and the logs can be opened again and   *)
(* again.  The clients, the logs' writer and the undefined are not fair.    *)

TimerStep == Timer /\ process = "up"
LoopStep == Loop /\ ~ RequestIgnore /\ process = "up"
ScanStep(f) == Scan(f) /\ process = "up"
StartStep ==
    /\ process = "up"
    /\ (\E f \in Files : CreateThread(f)) \/ InsertState
    /\ UNCHANGED <<outside, m_lock, thread, timer, report, loop, history>>

Fairness ==
    /\ WF_vars(StartStep)
    /\ SF_vars(TimerStep)
    /\ SF_vars(LoopStep)
    /\ \A f \in Files : SF_vars(ScanStep(f)) /\ SF_vars(ScanStep(f) /\ OpenFile(f))

FairSpec == Spec /\ Fairness

-----------------------------------------------------------------------------
(* Properties.                                                              *)

\* An "ignore" suppresses at most one later alarm of each file, however the
\* reset and the scan interleave.
SwallowsOncePerIgnore ==
    \A f \in Files : history[f].swallowed <= history[f].ignores

\* A report and a reset never overlap: m_lock keeps the reset of all files out
\* of a report and a report out of a half-done reset.
ReportExcludesReset ==
    ~ (timer.pc # "idle" /\ loop.pc \in {"msg", "status", "flag"})

\* As long as nobody truncates it, everything written to a file is read exactly
\* once, piece by piece as fgets returns it, over all the scans of the file.
LinesScannedOnce ==
    rotations = 0 =>
        \A f \in Files :
            history[f].scanned = IF thread[f].pc \in {"get", "open", "store"}
                                   THEN state[f].file_pos
                                   ELSE thread[f].offset

\* An alarm's level falls only in a reset of its file, or where the scan drops
\* an alarm for an "ignore" it has not yet accounted for: a later warning never
\* hides an error.
AlarmFallsOnlyByIgnore ==
    [][\A f \in Files :
         state'[f].log_status < state[f].log_status =>
            \/ loop.pc = "status" /\ loop.at = f
            \/ history[f].swallowed < history[f].ignores]_vars

\* A line of this tag, or one whose tag cannot be told, was read from the file.
SawTag(f, t) ==
    \E i \in DOMAIN disk[f] : i <= history[f].scanned /\ disk[f][i] \in {t, "none"}

\* Both halves of an alarm come from lines that were read, though not of one line.
Backed(f, alarm) ==
    /\ alarm.log_status = LOG_ERROR => SawTag(f, "ERROR")
    /\ alarm.log_status = LOG_WARNING => SawTag(f, "WARNING")
    /\ alarm.log_err_msg # "" => SawTag(f, alarm.log_err_msg)

\* A report raises no false alarm: while nobody truncates a file, the status and
\* the message of its report are each those of a line the scans have read, however
\* the scan's assignments, the report's copies and a reset interleave.
NoFalseAlarm == rotations = 0 => \A f \in Files : Backed(f, report[f])

\* write() waits for itself in compare_file_state only after a truncation.
SelfLockNeedsTruncation == timer.pc = "relock" => rotations > 0

\* A line with an ERROR tag is reported as an error in the end, unless a client
\* ignores the file's alarms (where no file is truncated, and fgets returns the
\* tag's word whole).
ErrorReported ==
    \A f \in Files :
        (\E i \in DOMAIN disk[f] : disk[f][i] = "ERROR")
            ~> \/ report[f].log_status = LOG_ERROR
               \/ history[f].ignores > 0 \/ process # "up"

\* A client's "ignore" takes effect and the event loop returns to its clients.
IgnoreTakesEffect == loop.pc = "want" ~> (loop.pc = "idle" \/ process # "up")
=============================================================================
