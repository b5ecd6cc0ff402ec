--------------------------- MODULE NdbMonitorProofs --------------------------
(***************************************************************************)
(* Theorems about NdbMonitor for every set of files and every bound.        *)
(* The inductive invariant NInv says which thread holds m_lock (LockHeld),  *)
(* what links a file's alarm state, its thread and its history (Own), and   *)
(* that an untruncated file never looks shorter than recorded (Grows).      *)
(***************************************************************************)
EXTENDS NdbMonitor, TLAPS

\* m_lock is held exactly in write() and in reset_log_status.
LockHeld ==
    /\ timer.pc # "idle" <=> m_lock = "timer"
    /\ loop.pc \in {"msg", "status", "flag"} <=> m_lock = "loop"

\* Of each file: the flag stands for an ignore that has not swallowed an alarm
\* yet, and a thread drops an alarm only while it is set; only a line with an
\* alarm's tag is handled as an alarm; the lines read are those before the
\* position.
Own(f) ==
    /\ history[f].swallowed <= history[f].ignores
    /\ state[f].b_reset_status => history[f].swallowed < history[f].ignores
    /\ thread[f].pc \in {"clear_msg", "clear_status", "clear_flag"} => state[f].b_reset_status
    /\ thread[f].pc \in {"status", "msg"} => thread[f].tag # "INFO"
    /\ rotations = 0 =>
         history[f].scanned = IF thread[f].pc \in {"get", "open", "store"}
                                THEN state[f].file_pos ELSE thread[f].offset

\* Without truncation compare_file_state finds no file shorter than recorded.
Grows == rotations = 0 => \A f \in Files : state[f].file_size <= Len(disk[f])

NInv == TypeOK /\ LockHeld /\ (\A f \in Files : Own(f)) /\ Grows

-----------------------------------------------------------------------------
(* What the two update operators do, field by field.                        *)

Others(f) ==
    \A g \in Files : g # f =>
        thread'[g] = thread[g] /\ state'[g] = state[g] /\ history'[g] = history[g]

\* Replacing one value of a function.
LEMMA UpdateFacts ==
    ASSUME NEW S, NEW T, NEW g \in [S -> T], NEW x \in S, NEW v \in T,
           NEW h, h = [g EXCEPT ![x] = v]
    PROVE  /\ h \in [S -> T] /\ h[x] = v
           /\ \A y \in S : y # x => h[y] = g[y]
OBVIOUS

\* A step of thread f moves its program counter and nothing else of it.
LEMMA StepFacts ==
    ASSUME TypeOK, NEW f \in Files, NEW from \in ThreadPCs, NEW to \in ThreadPCs,
           Step(f, from, to)
    PROVE  /\ thread' \in [Files -> [pc : ThreadPCs, offset : Nat, line_num : Nat,
                                     tag : {"INFO", "WARNING", "ERROR"}]]
           /\ thread[f].pc = from /\ thread'[f].pc = to
           /\ thread'[f].offset = thread[f].offset
           /\ thread'[f].tag = thread[f].tag
           /\ \A g \in Files : g # f => thread'[g] = thread[g]
<1> DEFINE T == [pc : ThreadPCs, offset : Nat, line_num : Nat, tag : {"INFO", "WARNING", "ERROR"}]
           t == [thread[f] EXCEPT !.pc = to]
<1>1. thread \in [Files -> T] /\ thread[f] \in T
    BY DEF TypeOK
<1>2. t \in T /\ t.pc = to /\ t.offset = thread[f].offset /\ t.tag = thread[f].tag
    BY <1>1
<1>3. thread[f].pc = from /\ thread' = [thread EXCEPT ![f] = t]
    BY DEF Step
<1> HIDE DEF t, T
<1>4. /\ thread' \in [Files -> T] /\ thread'[f] = t
      /\ \A g \in Files : g # f => thread'[g] = thread[g]
    BY <1>1, <1>2, <1>3, UpdateFacts
<1> QED
    BY <1>2, <1>3, <1>4 DEF T

\* Assigning the status leaves the other fields and the other files alone,
LEMMA AssignStatus ==
    ASSUME TypeOK, NEW f \in Files, NEW v \in Statuses, Assign(f, "log_status", v)
    PROVE  /\ state' \in [Files -> LOG_STATE_DATA]
           /\ state'[f].log_status = v
           /\ state'[f].log_err_msg = state[f].log_err_msg
           /\ state'[f].b_reset_status = state[f].b_reset_status
           /\ state'[f].file_pos = state[f].file_pos
           /\ state'[f].file_size = state[f].file_size
           /\ \A g \in Files : g # f => state'[g] = state[g]
<1> DEFINE d == [state[f] EXCEPT !["log_status"] = v]
<1>1. state \in [Files -> LOG_STATE_DATA] /\ state[f] \in LOG_STATE_DATA
    BY DEF TypeOK
<1>2. /\ d \in LOG_STATE_DATA /\ d.log_status = v /\ d.b_reset_status = state[f].b_reset_status
      /\ d.log_err_msg = state[f].log_err_msg
      /\ d.file_pos = state[f].file_pos /\ d.file_size = state[f].file_size
    BY <1>1 DEF LOG_STATE_DATA
<1>3. state' = [state EXCEPT ![f] = d]
    BY DEF Assign
<1> HIDE DEF d
<1>4. /\ state' \in [Files -> LOG_STATE_DATA] /\ state'[f] = d
      /\ \A g \in Files : g # f => state'[g] = state[g]
    BY <1>1, <1>2, <1>3, UpdateFacts
<1> QED
    BY <1>2, <1>4

\* so does assigning the message,
LEMMA AssignMessage ==
    ASSUME TypeOK, NEW f \in Files, NEW v \in Messages, Assign(f, "log_err_msg", v)
    PROVE  /\ state' \in [Files -> LOG_STATE_DATA]
           /\ state'[f].log_status = state[f].log_status
           /\ state'[f].log_err_msg = v
           /\ state'[f].b_reset_status = state[f].b_reset_status
           /\ state'[f].file_pos = state[f].file_pos
           /\ state'[f].file_size = state[f].file_size
           /\ \A g \in Files : g # f => state'[g] = state[g]
<1> DEFINE d == [state[f] EXCEPT !["log_err_msg"] = v]
<1>1. state \in [Files -> LOG_STATE_DATA] /\ state[f] \in LOG_STATE_DATA
    BY DEF TypeOK
<1>2. /\ d \in LOG_STATE_DATA /\ d.log_status = state[f].log_status /\ d.b_reset_status = state[f].b_reset_status
      /\ d.log_err_msg = v
      /\ d.file_pos = state[f].file_pos /\ d.file_size = state[f].file_size
    BY <1>1 DEF LOG_STATE_DATA
<1>3. state' = [state EXCEPT ![f] = d]
    BY DEF Assign
<1> HIDE DEF d
<1>4. /\ state' \in [Files -> LOG_STATE_DATA] /\ state'[f] = d
      /\ \A g \in Files : g # f => state'[g] = state[g]
    BY <1>1, <1>2, <1>3, UpdateFacts
<1> QED
    BY <1>2, <1>4

\* the reset flag,
LEMMA AssignFlag ==
    ASSUME TypeOK, NEW f \in Files, NEW v \in BOOLEAN, Assign(f, "b_reset_status", v)
    PROVE  /\ state' \in [Files -> LOG_STATE_DATA]
           /\ state'[f].log_status = state[f].log_status
           /\ state'[f].log_err_msg = state[f].log_err_msg
           /\ state'[f].b_reset_status = v
           /\ state'[f].file_pos = state[f].file_pos
           /\ state'[f].file_size = state[f].file_size
           /\ \A g \in Files : g # f => state'[g] = state[g]
<1> DEFINE d == [state[f] EXCEPT !["b_reset_status"] = v]
<1>1. state \in [Files -> LOG_STATE_DATA] /\ state[f] \in LOG_STATE_DATA
    BY DEF TypeOK
<1>2. /\ d \in LOG_STATE_DATA /\ d.log_status = state[f].log_status /\ d.b_reset_status = v
      /\ d.log_err_msg = state[f].log_err_msg
      /\ d.file_pos = state[f].file_pos /\ d.file_size = state[f].file_size
    BY <1>1 DEF LOG_STATE_DATA
<1>3. state' = [state EXCEPT ![f] = d]
    BY DEF Assign
<1> HIDE DEF d
<1>4. /\ state' \in [Files -> LOG_STATE_DATA] /\ state'[f] = d
      /\ \A g \in Files : g # f => state'[g] = state[g]
    BY <1>1, <1>2, <1>3, UpdateFacts
<1> QED
    BY <1>2, <1>4

\* and the position.
LEMMA AssignPosition ==
    ASSUME TypeOK, NEW f \in Files, NEW v \in Nat, Assign(f, "file_pos", v)
    PROVE  /\ state' \in [Files -> LOG_STATE_DATA]
           /\ state'[f].log_status = state[f].log_status
           /\ state'[f].log_err_msg = state[f].log_err_msg
           /\ state'[f].b_reset_status = state[f].b_reset_status
           /\ state'[f].file_pos = v
           /\ state'[f].file_size = state[f].file_size
           /\ \A g \in Files : g # f => state'[g] = state[g]
<1> DEFINE d == [state[f] EXCEPT !["file_pos"] = v]
<1>1. state \in [Files -> LOG_STATE_DATA] /\ state[f] \in LOG_STATE_DATA
    BY DEF TypeOK
<1>2. /\ d \in LOG_STATE_DATA /\ d.log_status = state[f].log_status /\ d.b_reset_status = state[f].b_reset_status
      /\ d.log_err_msg = state[f].log_err_msg
      /\ d.file_pos = v /\ d.file_size = state[f].file_size
    BY <1>1 DEF LOG_STATE_DATA
<1>3. state' = [state EXCEPT ![f] = d]
    BY DEF Assign
<1> HIDE DEF d
<1>4. /\ state' \in [Files -> LOG_STATE_DATA] /\ state'[f] = d
      /\ \A g \in Files : g # f => state'[g] = state[g]
    BY <1>1, <1>2, <1>3, UpdateFacts
<1> QED
    BY <1>2, <1>4

-----------------------------------------------------------------------------
(* What one step of a scanning thread does to its own file: the part of     *)
(* NInv that speaks of that file, and the types.                            *)

Types ==
    /\ state \in [Files -> LOG_STATE_DATA]
    /\ thread \in [Files -> [pc : ThreadPCs, offset : Nat, line_num : Nat,
                             tag : {"INFO", "WARNING", "ERROR"}]]
    /\ history \in [Files -> [ignores : Nat, swallowed : Nat, scanned : Nat]]

\* Every scanning step keeps its own file's part, the types, the recorded
\* size, and everything of the other files.
LEMMA ScanStepFacts ==
    ASSUME TypeOK, NEW f \in Files, Own(f), Scan(f)
    PROVE  /\ Own(f)' /\ Types' /\ Others(f)
           /\ state'[f].file_size = state[f].file_size
<1> DEFINE Goal == /\ Own(f)' /\ Types' /\ Others(f)
                   /\ state'[f].file_size = state[f].file_size
<1> USE DEF Own, Types, Others
<1>0. Types /\ rotations' = rotations /\ f \in Files
    BY DEF Types, TypeOK, Scan, outside
<1>1. CASE GetFileState(f)
    <2>1. Step(f, "get", "open") /\ "get" \in ThreadPCs /\ "open" \in ThreadPCs
          /\ state' = state /\ history' = history
        BY <1>1 DEF GetFileState, ThreadPCs
    <2> QED
        BY <1>0, <2>1, StepFacts
<1>2. CASE OpenFile(f)
    <2>1. /\ thread' \in [Files -> [pc : ThreadPCs, offset : Nat, line_num : Nat,
                                    tag : {"INFO", "WARNING", "ERROR"}]]
          /\ thread[f].pc = "open" /\ thread'[f].pc = "line"
          /\ thread'[f].offset = state[f].file_pos
          /\ \A g \in Files : g # f => thread'[g] = thread[g]
        <3>1. state[f].file_pos \in Nat
            BY <1>0 DEF LOG_STATE_DATA
        <3>2. thread[f].pc = "open" /\ "line" \in ThreadPCs
              /\ thread' = [thread EXCEPT ![f].pc = "line", ![f].line_num = 0,
                                          ![f].offset = state[f].file_pos]
            BY <1>2 DEF OpenFile, ThreadPCs
        <3> DEFINE T == [pc : ThreadPCs, offset : Nat, line_num : Nat,
                         tag : {"INFO", "WARNING", "ERROR"}]
                   t == [thread[f] EXCEPT !.pc = "line", !.line_num = 0,
                                          !.offset = state[f].file_pos]
        <3>3. thread \in [Files -> T] /\ thread[f] \in T
            BY <1>0
        <3>4. /\ t \in T /\ t.pc = "line" /\ t.offset = state[f].file_pos
              /\ t.tag = thread[f].tag
            BY <3>1, <3>2, <3>3
        <3>5. thread' = [thread EXCEPT ![f] = t]
            BY <3>2
        <3> HIDE DEF t, T
        <3>6. /\ thread' \in [Files -> T] /\ thread'[f] = t
              /\ \A g \in Files : g # f => thread'[g] = thread[g]
            BY <3>3, <3>4, <3>5, UpdateFacts
        <3> QED
            BY <3>2, <3>4, <3>6 DEF T
    <2>2. state' = state /\ history' = history
        BY <1>2 DEF OpenFile
    <2> QED
        BY <1>0, <2>1, <2>2
<1>3. CASE OpenFails(f)
    <2>1. Step(f, "open", "get") /\ "get" \in ThreadPCs /\ "open" \in ThreadPCs
          /\ state' = state /\ history' = history
        BY <1>3 DEF OpenFails, ThreadPCs
    <2> QED
        BY <1>0, <2>1, StepFacts
<1>4. CASE ReadLine(f)
    <2>1. PICK t \in {"INFO", "WARNING", "ERROR"} :
            thread' = [thread EXCEPT ![f] =
                        [pc |-> IF t = "INFO" THEN "line" ELSE "status",
                         offset |-> @.offset + 1, line_num |-> @.line_num + 1, tag |-> t]]
        <3>1. disk[f][thread[f].offset + 1] \in Tags
            <4>1. disk[f] \in Seq(Tags) /\ Len(disk[f]) \in Nat
                BY DEF TypeOK
            <4>2. thread[f].offset \in Nat /\ thread[f].offset < Len(disk[f])
                BY <1>0, <1>4, <4>1 DEF ReadLine, AtEnd
            <4>3. thread[f].offset + 1 \in 1 .. Len(disk[f])
                BY <4>1, <4>2
            <4> QED
                BY <4>1, <4>3
        <3>2. TagsRead(disk[f][thread[f].offset + 1]) \subseteq {"INFO", "WARNING", "ERROR"}
            BY <3>1, ConstantsAssumption DEF TagsRead
        <3> QED
            BY <1>4, <3>2 DEF ReadLine
    <2>2. /\ thread' \in [Files -> [pc : ThreadPCs, offset : Nat, line_num : Nat,
                                    tag : {"INFO", "WARNING", "ERROR"}]]
          /\ thread'[f].pc = IF t = "INFO" THEN "line" ELSE "status"
          /\ thread'[f].offset = thread[f].offset + 1
          /\ thread'[f].tag = t
          /\ \A g \in Files : g # f => thread'[g] = thread[g]
        BY <1>0, <2>1 DEF ThreadPCs
    <2>3. /\ history' \in [Files -> [ignores : Nat, swallowed : Nat, scanned : Nat]]
          /\ history'[f].ignores = history[f].ignores
          /\ history'[f].swallowed = history[f].swallowed
          /\ history'[f].scanned = history[f].scanned + 1
          /\ \A g \in Files : g # f => history'[g] = history[g]
        BY <1>0, <1>4 DEF ReadLine
    <2>4. state' = state /\ thread[f].pc = "line"
        BY <1>4 DEF ReadLine
    <2> QED
        BY <1>0, <2>2, <2>3, <2>4
<1>5. CASE SetStatus(f)
    <2>1. CASE IsMasked(f)
        <3>1. Step(f, "status", "line") /\ "status" \in ThreadPCs /\ "line" \in ThreadPCs
              /\ state' = state /\ history' = history
            BY <1>5, <2>1 DEF SetStatus, ThreadPCs
        <3> QED
            BY <1>0, <3>1, StepFacts
    <2>2. CASE ~ IsMasked(f)
        <3>1. Step(f, "status", "msg") /\ "status" \in ThreadPCs /\ "msg" \in ThreadPCs
              /\ history' = history
            BY <1>5, <2>2 DEF SetStatus, ThreadPCs
        <3>2. PICK v \in Statuses : Assign(f, "log_status", v)
            BY <1>5, <2>2 DEF SetStatus, Statuses
        <3> QED
            BY <1>0, <3>1, <3>2, StepFacts, AssignStatus
    <2> QED
        BY <2>1, <2>2
<1>6. CASE SetMessage(f)
    <2>1. Step(f, "msg", "check") /\ "msg" \in ThreadPCs /\ "check" \in ThreadPCs
          /\ history' = history /\ Assign(f, "log_err_msg", thread[f].tag)
        BY <1>6 DEF SetMessage, ThreadPCs
    <2>2. thread[f].tag \in Messages
        BY <1>0, <2>1 DEF Messages, Step
    <2> QED
        BY <1>0, <2>1, <2>2, StepFacts, AssignMessage
<1>7. CASE CheckReset(f)
    <2>1. state' = state /\ history' = history
        BY <1>7 DEF CheckReset
    <2>2. CASE state[f].b_reset_status
        <3>1. Step(f, "check", "clear_msg") /\ "check" \in ThreadPCs /\ "clear_msg" \in ThreadPCs
            BY <1>7, <2>2 DEF CheckReset, ThreadPCs
        <3> QED
            BY <1>0, <2>1, <2>2, <3>1, StepFacts
    <2>3. CASE ~ state[f].b_reset_status
        <3>1. Step(f, "check", "line") /\ "check" \in ThreadPCs /\ "line" \in ThreadPCs
            BY <1>7, <2>3 DEF CheckReset, ThreadPCs
        <3> QED
            BY <1>0, <2>1, <2>3, <3>1, StepFacts
    <2> QED
        BY <2>2, <2>3
<1>8. CASE ClearMessage(f)
    <2>0. Step(f, "clear_msg", "clear_status") /\ "clear_msg" \in ThreadPCs
          /\ "clear_status" \in ThreadPCs
        BY <1>8 DEF ClearMessage, ThreadPCs
    <2>1. history' = history /\ Assign(f, "log_err_msg", "") /\ "" \in Messages
        BY <1>8 DEF ClearMessage, Messages
    <2>2. /\ state'[f].b_reset_status = state[f].b_reset_status
          /\ state'[f].file_pos = state[f].file_pos /\ state'[f].file_size = state[f].file_size
          /\ state' \in [Files -> LOG_STATE_DATA]
          /\ \A g \in Files : g # f => state'[g] = state[g]
        BY <2>1, AssignMessage
    <2>3. /\ thread' \in [Files -> [pc : ThreadPCs, offset : Nat, line_num : Nat,
                                    tag : {"INFO", "WARNING", "ERROR"}]]
          /\ thread[f].pc = "clear_msg" /\ thread'[f].pc = "clear_status"
          /\ thread'[f].offset = thread[f].offset
          /\ \A g \in Files : g # f => thread'[g] = thread[g]
        BY <2>0, StepFacts
    <2>4. Own(f)'
        <3>1. /\ history' = history /\ rotations' = rotations
              /\ state'[f].b_reset_status = state[f].b_reset_status
              /\ state'[f].file_pos = state[f].file_pos
              /\ thread[f].pc = "clear_msg" /\ thread'[f].pc = "clear_status"
              /\ thread'[f].offset = thread[f].offset
            BY <1>0, <2>1, <2>2, <2>3
        <3> QED
            BY <3>1
    <2>5. Types'
        BY <1>0, <2>1, <2>2, <2>3
    <2> QED
        BY <2>1, <2>2, <2>3, <2>4, <2>5
<1>9. CASE ClearStatus(f)
    <2>1. Step(f, "clear_status", "clear_flag") /\ "clear_flag" \in ThreadPCs
          /\ "clear_status" \in ThreadPCs
          /\ history' = history /\ Assign(f, "log_status", LOG_NORMAL) /\ LOG_NORMAL \in Statuses
        BY <1>9 DEF ClearStatus, ThreadPCs, Statuses
    <2> QED
        BY <1>0, <2>1, StepFacts, AssignStatus
<1>10. CASE ClearFlag(f)
    <2>1. Step(f, "clear_flag", "line") /\ "clear_flag" \in ThreadPCs /\ "line" \in ThreadPCs
          /\ Assign(f, "b_reset_status", FALSE)
        BY <1>10 DEF ClearFlag, ThreadPCs
    <2>2. /\ history' \in [Files -> [ignores : Nat, swallowed : Nat, scanned : Nat]]
          /\ history'[f].ignores = history[f].ignores
          /\ history'[f].swallowed = history[f].swallowed + 1
          /\ history'[f].scanned = history[f].scanned
          /\ \A g \in Files : g # f => history'[g] = history[g]
        BY <1>0, <1>10 DEF ClearFlag
    <2>3. state'[f].b_reset_status = FALSE /\ history[f].swallowed < history[f].ignores
        BY <1>0, <2>1, AssignFlag DEF Step
    <2>4. history[f].swallowed \in Nat /\ history[f].ignores \in Nat
        BY <1>0
    <2>5. /\ state' \in [Files -> LOG_STATE_DATA]
          /\ state'[f].file_size = state[f].file_size
          /\ \A g \in Files : g # f => state'[g] = state[g]
        BY <2>1, AssignFlag
    <2>6. /\ thread' \in [Files -> [pc : ThreadPCs, offset : Nat, line_num : Nat,
                                    tag : {"INFO", "WARNING", "ERROR"}]]
          /\ thread[f].pc = "clear_flag" /\ thread'[f].pc = "line"
          /\ thread'[f].offset = thread[f].offset
          /\ \A g \in Files : g # f => thread'[g] = thread[g]
        BY <2>1, StepFacts
    <2>7. Own(f)'
        BY <1>0, <2>2, <2>3, <2>4, <2>6
    <2> QED
        BY <1>0, <2>2, <2>5, <2>6, <2>7
<1>11. CASE TellPosition(f)
    <2>1. Step(f, "line", "store") /\ "store" \in ThreadPCs /\ "line" \in ThreadPCs
          /\ history' = history /\ Assign(f, "file_pos", thread[f].offset)
        BY <1>11 DEF TellPosition, ThreadPCs
    <2>2. thread[f].offset \in Nat
        BY <1>0
    <2> QED
        BY <1>0, <2>1, <2>2, StepFacts, AssignPosition
<1>12. CASE StoreState(f)
    <2>1. Step(f, "store", "get") /\ "store" \in ThreadPCs /\ "get" \in ThreadPCs
          /\ state' = state /\ history' = history
        BY <1>12 DEF StoreState, ThreadPCs
    <2> QED
        BY <1>0, <2>1, StepFacts
<1> QED
    BY <1>1, <1>2, <1>3, <1>4, <1>5, <1>6, <1>7, <1>8, <1>9, <1>10, <1>11, <1>12 DEF Scan

-----------------------------------------------------------------------------
(* The steps of the other actors.                                           *)

\* If nothing a file's part of NInv speaks of changes, the part stays.
LEMMA OwnFrame ==
    ASSUME NEW g \in Files, Own(g), rotations' = 0 => rotations = 0,
           thread'[g] = thread[g], state'[g] = state[g], history'[g] = history[g]
    PROVE  Own(g)'
BY DEF Own

\* The logs' writer only appends, or counts a truncation.
LEMMA EnvironmentStep ==
    NInv /\ Environment => NInv'
<1> SUFFICES ASSUME NInv, Environment PROVE NInv'
    OBVIOUS
<1>1. PICK f \in Files : AppendLine(f) \/ Rotate(f)
    BY DEF Environment
<1>2. UNCHANGED <<process, startup, m_lock, state, thread, timer, report, loop, history>>
    BY DEF Environment
<1>3. disk \in [Files -> Seq(Tags)] /\ rotations \in Nat
    BY DEF NInv, TypeOK
<1>4. /\ disk' \in [Files -> Seq(Tags)] /\ rotations' \in Nat
      /\ rotations' = 0 => rotations = 0
      /\ rotations' = 0 => \A g \in Files : Len(disk'[g]) >= Len(disk[g])
    <2>1. CASE AppendLine(f)
        <3>1. PICK t \in Tags : disk' = [disk EXCEPT ![f] = Append(@, t)]
            BY <2>1 DEF AppendLine
        <3>2. disk[f] \in Seq(Tags) /\ Len(disk[f]) \in Nat
            BY <1>3
        <3>3. disk'[f] = Append(disk[f], t) /\ \A g \in Files : g # f => disk'[g] = disk[g]
            BY <1>3, <3>1
        <3>4. Len(disk'[f]) = Len(disk[f]) + 1 /\ disk'[f] \in Seq(Tags)
            BY <3>2, <3>3
        <3>5. \A g \in Files : Len(disk[g]) \in Nat /\ disk[g] \in Seq(Tags)
            BY <1>3
        <3>6. disk' \in [Files -> Seq(Tags)]
            BY <1>3, <3>1, <3>3, <3>4
        <3>7. \A g \in Files : Len(disk'[g]) >= Len(disk[g])
            BY <3>2, <3>3, <3>4, <3>5
        <3>8. rotations' = rotations
            BY <2>1 DEF AppendLine
        <3> QED
            BY <1>3, <3>6, <3>7, <3>8
    <2>2. CASE Rotate(f)
        <3>1. disk' = [disk EXCEPT ![f] = <<>>] /\ rotations' = rotations + 1
            BY <2>2 DEF Rotate
        <3> QED
            BY <1>3, <3>1
    <2> QED
        BY <1>1, <2>1, <2>2
<1>5. TypeOK'
    BY <1>2, <1>4 DEF NInv, TypeOK, startup
<1>6. LockHeld'
    BY <1>2 DEF NInv, LockHeld
<1>7. \A g \in Files : Own(g)'
    BY <1>2, <1>4, OwnFrame DEF NInv
<1>8. Grows'
    <2>1. SUFFICES ASSUME rotations' = 0, NEW g \in Files
                   PROVE  state[g].file_size <= Len(disk'[g])
        BY <1>2 DEF Grows
    <2>2. state[g].file_size <= Len(disk[g]) /\ Len(disk'[g]) >= Len(disk[g])
        BY <1>4, <2>1 DEF NInv, Grows
    <2>3. disk[g] \in Seq(Tags) /\ disk'[g] \in Seq(Tags) /\ state[g] \in LOG_STATE_DATA
        BY <1>3, <1>4 DEF NInv, TypeOK
    <2>4. state[g].file_size \in Nat /\ Len(disk[g]) \in Nat /\ Len(disk'[g]) \in Nat
        BY <2>3 DEF LOG_STATE_DATA
    <2> QED
        BY <2>2, <2>4
<1> QED
    BY <1>5, <1>6, <1>7, <1>8 DEF NInv

\* The constructor records the size a file has.
LEMMA ConstructorStep ==
    NInv /\ Constructor => NInv'
<1> SUFFICES ASSUME NInv, Constructor PROVE NInv'
    OBVIOUS
<1>1. UNCHANGED <<outside, m_lock, thread, timer, report, loop, history>>
    BY DEF Constructor
<1> DEFINE Recorded ==
      /\ state' \in [Files -> LOG_STATE_DATA]
      /\ \A g \in Files : /\ state'[g].b_reset_status = state[g].b_reset_status
                          /\ state'[g].file_pos = state[g].file_pos
                          /\ \/ state'[g].file_size = state[g].file_size
                             \/ state'[g].file_size = Len(disk[g])
      /\ process' \in {"up", "exited", "wild", "raced"}
      /\ started' \subseteq Files /\ inserted' \subseteq started'
<1>2. Recorded
    <2>0. state \in [Files -> LOG_STATE_DATA] /\ disk \in [Files -> Seq(Tags)]
        BY DEF NInv, TypeOK
    <2>1. ASSUME NEW f \in Files, CreateThread(f) PROVE Recorded
        <3>1. state' = [state EXCEPT ![f].file_size = Len(disk[f])]
            BY <2>1 DEF CreateThread
        <3>2. Len(disk[f]) \in Nat
            BY <2>0
        <3>3. /\ state' \in [Files -> LOG_STATE_DATA]
              /\ state'[f].b_reset_status = state[f].b_reset_status
              /\ state'[f].file_pos = state[f].file_pos
              /\ state'[f].file_size = Len(disk[f])
              /\ \A g \in Files : g # f => state'[g] = state[g]
            BY <2>0, <3>1, <3>2 DEF LOG_STATE_DATA
        <3>4. /\ process' \in {"up", "exited", "wild", "raced"}
              /\ started' \subseteq Files /\ inserted' \subseteq started'
            BY <2>1 DEF CreateThread, NInv, TypeOK
        <3> QED
            BY <3>3, <3>4
    <2>2. CASE InsertState \/ ConstructorExits
        BY <2>0, <2>2 DEF InsertState, ConstructorExits, startup, NInv, TypeOK
    <2> QED
        BY <2>1, <2>2 DEF Constructor
<1>3. TypeOK'
    BY <1>1, <1>2 DEF NInv, TypeOK, outside
<1>4. LockHeld'
    BY <1>1 DEF NInv, LockHeld
<1>5. \A g \in Files : Own(g)'
    BY <1>1, <1>2 DEF NInv, Own, outside
<1>6. Grows'
    <2>1. \A g \in Files : Len(disk[g]) \in Nat
        BY DEF NInv, TypeOK
    <2> QED
        BY <1>1, <1>2, <2>1 DEF NInv, Grows, outside
<1> QED
    BY <1>3, <1>4, <1>5, <1>6 DEF NInv

\* A scanning step keeps NInv.
LEMMA ScanStepNInv ==
    ASSUME NInv, NEW f \in Files, Scan(f)
    PROVE  NInv'
<1>1. UNCHANGED <<outside, process, startup, m_lock, timer, report, loop>>
    BY DEF Scan
<1>2. /\ Own(f)' /\ Types' /\ Others(f)
      /\ state'[f].file_size = state[f].file_size
    BY ScanStepFacts DEF NInv
<1>3. TypeOK'
    BY <1>1, <1>2 DEF NInv, TypeOK, Types, outside, startup
<1>4. LockHeld'
    BY <1>1 DEF NInv, LockHeld
<1>5. \A g \in Files : Own(g)'
    BY <1>1, <1>2, OwnFrame DEF NInv, Others, outside
<1>6. Grows'
    BY <1>1, <1>2 DEF NInv, Grows, Others, outside
<1> QED
    BY <1>3, <1>4, <1>5, <1>6 DEF NInv

\* A step of write() keeps NInv: only a truncated file is rewound, and m_lock
\* is held from the first step to the last.
LEMMA TimerStepNInv ==
    NInv /\ Timer => NInv'
<1> SUFFICES ASSUME NInv, Timer PROVE NInv'
    OBVIOUS
<1>1. UNCHANGED <<outside, process, startup, thread, loop, history>>
    BY DEF Timer
<1>2. /\ state \in [Files -> LOG_STATE_DATA] /\ disk \in [Files -> Seq(Tags)]
      /\ timer \in [pc : {"idle", "compare", "relock", "status", "msg"},
                    todo : SUBSET Files, at : Files]
      /\ report \in [Files -> [log_status : Statuses, log_err_msg : Messages]]
      /\ m_lock \in {"free", "timer", "loop"}
    BY DEF NInv, TypeOK
<1> DEFINE TimerType == timer' \in [pc : {"idle", "compare", "relock", "status", "msg"},
                                    todo : SUBSET Files, at : Files]
           ReportType == report' \in [Files -> [log_status : Statuses, log_err_msg : Messages]]
           LockType == m_lock' \in {"free", "timer", "loop"}
           Rewound == /\ state' \in [Files -> LOG_STATE_DATA]
                      /\ \A g \in Files :
                           /\ state'[g].b_reset_status = state[g].b_reset_status
                           /\ rotations = 0 => state'[g] = state[g]
<1>3. ASSUME WriteLock
      PROVE  TimerType /\ ReportType /\ LockType /\ Rewound /\ LockHeld'
    <2>1. timer' = [timer EXCEPT !.pc = "compare", !.todo = Files]
          /\ m_lock = "free" /\ m_lock' = "timer" /\ timer.pc = "idle"
          /\ UNCHANGED <<state, report>>
        BY <1>3 DEF WriteLock
    <2>2. TimerType /\ timer'.pc = "compare"
        BY <1>2, <2>1
    <2>3. LockHeld'
        BY <1>1, <2>1, <2>2 DEF NInv, LockHeld
    <2> QED
        BY <1>2, <2>1, <2>2, <2>3
<1>4. ASSUME NEW f \in Files, Compare(f)
      PROVE  TimerType /\ ReportType /\ LockType /\ Rewound /\ LockHeld'
    <2>1. CASE state[f].file_size > Len(disk[f])
        <3>1. /\ state' = [state EXCEPT ![f].file_pos = 0, ![f].file_size = Len(disk[f])]
              /\ timer' = [timer EXCEPT !.pc = "relock"] /\ timer.pc = "compare"
              /\ UNCHANGED <<m_lock, report>>
            BY <1>4, <2>1 DEF Compare
        <3>2. Len(disk[f]) \in Nat /\ state[f].file_size \in Nat
            BY <1>2 DEF LOG_STATE_DATA
        <3>3. /\ state' \in [Files -> LOG_STATE_DATA]
              /\ state'[f].b_reset_status = state[f].b_reset_status
              /\ \A g \in Files : g # f => state'[g] = state[g]
            <4> DEFINE d == [state[f] EXCEPT !.file_pos = 0, !.file_size = Len(disk[f])]
            <4>1. state \in [Files -> LOG_STATE_DATA] /\ state[f] \in LOG_STATE_DATA
                BY <1>2
            <4>2. d \in LOG_STATE_DATA /\ d.b_reset_status = state[f].b_reset_status
                BY <3>2, <4>1 DEF LOG_STATE_DATA
            <4>3. state' = [state EXCEPT ![f] = d]
                BY <3>1
            <4> HIDE DEF d
            <4>4. /\ state' \in [Files -> LOG_STATE_DATA] /\ state'[f] = d
                  /\ \A g \in Files : g # f => state'[g] = state[g]
                BY <4>1, <4>2, <4>3, UpdateFacts
            <4> QED
                BY <4>2, <4>4
        <3>4. rotations # 0
            BY <2>1, <3>2 DEF NInv, Grows
        <3>5. TimerType /\ timer'.pc = "relock"
            BY <1>2, <3>1
        <3>6. LockHeld'
            BY <1>1, <3>1, <3>5 DEF NInv, LockHeld
        <3> QED
            BY <1>2, <3>1, <3>3, <3>4, <3>5, <3>6
    <2>2. CASE ~ (state[f].file_size > Len(disk[f]))
        <3>1. /\ timer' = [timer EXCEPT !.todo = @ \ {f}] /\ timer.pc = "compare"
              /\ UNCHANGED <<m_lock, report, state>>
            BY <1>4, <2>2 DEF Compare
        <3>2. TimerType /\ timer'.pc = "compare"
            BY <1>2, <3>1
        <3>3. LockHeld'
            BY <1>1, <3>1, <3>2 DEF NInv, LockHeld
        <3> QED
            BY <1>2, <3>1, <3>2, <3>3
    <2> QED
        BY <2>1, <2>2
<1>5. ASSUME NEW f \in Files, CompareOpenFails(f)
      PROVE  TimerType /\ ReportType /\ LockType /\ Rewound /\ LockHeld'
    <2>1. /\ timer' = [timer EXCEPT !.todo = @ \ {f}] /\ timer.pc = "compare"
          /\ UNCHANGED <<m_lock, report, state>>
        BY <1>5 DEF CompareOpenFails
    <2>2. TimerType /\ timer'.pc = "compare"
        BY <1>2, <2>1
    <2>3. LockHeld'
        BY <1>1, <2>1, <2>2 DEF NInv, LockHeld
    <2> QED
        BY <1>2, <2>1, <2>2, <2>3
<1>6. ASSUME StartReport
      PROVE  TimerType /\ ReportType /\ LockType /\ Rewound /\ LockHeld'
    <2>1. /\ timer' = [timer EXCEPT !.pc = "status", !.todo = Files] /\ timer.pc = "compare"
          /\ UNCHANGED <<m_lock, report, state>>
        BY <1>6 DEF StartReport
    <2>2. TimerType /\ timer'.pc = "status"
        BY <1>2, <2>1
    <2>3. LockHeld'
        BY <1>1, <2>1, <2>2 DEF NInv, LockHeld
    <2> QED
        BY <1>2, <2>1, <2>2, <2>3
<1>7. ASSUME NEW f \in Files, ReportStatus(f)
      PROVE  TimerType /\ ReportType /\ LockType /\ Rewound /\ LockHeld'
    <2>1. /\ timer' = [timer EXCEPT !.pc = "msg", !.at = f] /\ timer.pc = "status"
          /\ report' = [report EXCEPT ![f].log_status = state[f].log_status]
          /\ UNCHANGED <<m_lock, state>>
        BY <1>7 DEF ReportStatus
    <2>2. TimerType /\ timer'.pc = "msg"
        BY <1>2, <2>1
    <2>3. ReportType
        BY <1>2, <2>1 DEF LOG_STATE_DATA
    <2>4. LockHeld'
        BY <1>1, <2>1, <2>2 DEF NInv, LockHeld
    <2> QED
        BY <1>2, <2>1, <2>2, <2>3, <2>4
<1>8. ASSUME ReportMessage
      PROVE  TimerType /\ ReportType /\ LockType /\ Rewound /\ LockHeld'
    <2>1. /\ timer' = [timer EXCEPT !.pc = "status", !.todo = @ \ {timer.at}] /\ timer.pc = "msg"
          /\ report' = [report EXCEPT ![timer.at].log_err_msg = state[timer.at].log_err_msg]
          /\ UNCHANGED <<m_lock, state>>
        BY <1>8 DEF ReportMessage
    <2>2. TimerType /\ timer'.pc = "status"
        BY <1>2, <2>1
    <2>3. timer.at \in Files /\ state[timer.at].log_err_msg \in Messages
        BY <1>2 DEF LOG_STATE_DATA
    <2>4. ReportType
        BY <1>2, <2>1, <2>3
    <2>5. LockHeld'
        BY <1>1, <2>1, <2>2 DEF NInv, LockHeld
    <2> QED
        BY <1>2, <2>1, <2>2, <2>4, <2>5
<1>9. ASSUME WriteUnlock
      PROVE  TimerType /\ ReportType /\ LockType /\ Rewound /\ LockHeld'
    <2>1. /\ timer' = [timer EXCEPT !.pc = "idle"] /\ timer.pc = "status"
          /\ m_lock' = "free" /\ UNCHANGED <<report, state>>
        BY <1>9 DEF WriteUnlock
    <2>2. TimerType /\ timer'.pc = "idle"
        BY <1>2, <2>1
    <2>3. LockHeld'
        BY <1>1, <2>1, <2>2 DEF NInv, LockHeld
    <2> QED
        BY <1>2, <2>1, <2>2, <2>3
<1>10. TimerType /\ ReportType /\ LockType /\ Rewound /\ LockHeld'
    BY <1>3, <1>4, <1>5, <1>6, <1>7, <1>8, <1>9 DEF Timer
<1>11. TypeOK'
    BY <1>1, <1>10 DEF NInv, TypeOK, outside, startup
<1>12. \A g \in Files : Own(g)'
    BY <1>1, <1>10 DEF NInv, Own, outside
<1>13. Grows'
    BY <1>1, <1>10 DEF NInv, Grows, outside
<1> QED
    BY <1>10, <1>11, <1>12, <1>13 DEF NInv

\* A step of reset_log_status keeps NInv: the flag is set together with the
\* count of the ignores, so it never stands for an ignore already spent.
LEMMA LoopStepNInv ==
    NInv /\ Loop => NInv'
<1> SUFFICES ASSUME NInv, Loop PROVE NInv'
    OBVIOUS
<1>1. UNCHANGED <<outside, process, startup, thread, timer, report>>
    BY DEF Loop
<1>2. /\ TypeOK /\ state \in [Files -> LOG_STATE_DATA]
      /\ loop \in [pc : {"idle", "want", "msg", "status", "flag"},
                   todo : SUBSET Files, at : Files]
      /\ history \in [Files -> [ignores : Nat, swallowed : Nat, scanned : Nat]]
      /\ m_lock \in {"free", "timer", "loop"}
    BY DEF NInv, TypeOK
<1> DEFINE LoopType == loop' \in [pc : {"idle", "want", "msg", "status", "flag"},
                                  todo : SUBSET Files, at : Files]
           LockType == m_lock' \in {"free", "timer", "loop"}
           \* What a step leaves of the alarm states and the histories.
           Kept == /\ state' \in [Files -> LOG_STATE_DATA]
                   /\ history' \in [Files -> [ignores : Nat, swallowed : Nat, scanned : Nat]]
                   /\ \A g \in Files :
                        /\ state'[g].file_pos = state[g].file_pos
                        /\ state'[g].file_size = state[g].file_size
                        /\ history'[g].scanned = history[g].scanned
                        /\ history'[g].swallowed = history[g].swallowed
                        /\ \/ /\ state'[g].b_reset_status = state[g].b_reset_status
                              /\ history'[g].ignores = history[g].ignores
                           \/ /\ state'[g].b_reset_status = TRUE
                              /\ history'[g].ignores = history[g].ignores + 1
<1>3. ASSUME RequestIgnore
      PROVE  LoopType /\ LockType /\ Kept /\ LockHeld'
    <2>1. /\ loop' = [loop EXCEPT !.pc = "want"] /\ loop.pc = "idle"
          /\ UNCHANGED <<m_lock, state, history>>
        BY <1>3 DEF RequestIgnore
    <2>2. LoopType /\ loop'.pc = "want"
        BY <1>2, <2>1
    <2>3. LockHeld'
        BY <1>1, <2>1, <2>2 DEF NInv, LockHeld
    <2> QED
        BY <1>2, <2>1, <2>2, <2>3
<1>4. ASSUME ResetLock
      PROVE  LoopType /\ LockType /\ Kept /\ LockHeld'
    <2>1. /\ loop' = [loop EXCEPT !.pc = "msg", !.todo = Files] /\ loop.pc = "want"
          /\ m_lock = "free" /\ m_lock' = "loop"
          /\ UNCHANGED <<state, history>>
        BY <1>4 DEF ResetLock
    <2>2. LoopType /\ loop'.pc = "msg"
        BY <1>2, <2>1
    <2>3. LockHeld'
        BY <1>1, <2>1, <2>2 DEF NInv, LockHeld
    <2> QED
        BY <1>2, <2>1, <2>2, <2>3
<1>5. ASSUME NEW f \in Files, ResetMessage(f)
      PROVE  LoopType /\ LockType /\ Kept /\ LockHeld'
    <2>1. /\ loop' = [loop EXCEPT !.pc = "status", !.at = f] /\ loop.pc = "msg"
          /\ Assign(f, "log_err_msg", "") /\ "" \in Messages
          /\ UNCHANGED <<m_lock, history>>
        BY <1>5 DEF ResetMessage, Messages
    <2>2. LoopType /\ loop'.pc = "status"
        BY <1>2, <2>1
    <2>3. LockHeld'
        BY <1>1, <2>1, <2>2 DEF NInv, LockHeld
    <2>4. /\ state' \in [Files -> LOG_STATE_DATA]
          /\ state'[f].b_reset_status = state[f].b_reset_status
          /\ state'[f].file_pos = state[f].file_pos
          /\ state'[f].file_size = state[f].file_size
          /\ \A g \in Files : g # f => state'[g] = state[g]
        BY <1>2, <2>1, AssignMessage
    <2>5. Kept
        BY <1>2, <2>1, <2>4
    <2> QED
        BY <1>2, <2>1, <2>2, <2>3, <2>5
<1>6. ASSUME ResetStatus
      PROVE  LoopType /\ LockType /\ Kept /\ LockHeld'
    <2>1. /\ loop' = [loop EXCEPT !.pc = "flag"] /\ loop.pc = "status"
          /\ Assign(loop.at, "log_status", LOG_NORMAL) /\ LOG_NORMAL \in Statuses
          /\ UNCHANGED <<m_lock, history>>
        BY <1>6 DEF ResetStatus, Statuses
    <2>2. LoopType /\ loop'.pc = "flag" /\ loop.at \in Files
        BY <1>2, <2>1
    <2>3. LockHeld'
        BY <1>1, <2>1, <2>2 DEF NInv, LockHeld
    <2>4. /\ state' \in [Files -> LOG_STATE_DATA]
          /\ state'[loop.at].b_reset_status = state[loop.at].b_reset_status
          /\ state'[loop.at].file_pos = state[loop.at].file_pos
          /\ state'[loop.at].file_size = state[loop.at].file_size
          /\ \A g \in Files : g # loop.at => state'[g] = state[g]
        BY <1>2, <2>1, <2>2, AssignStatus
    <2>5. Kept
        BY <1>2, <2>1, <2>4
    <2> QED
        BY <1>2, <2>1, <2>2, <2>3, <2>5
<1>7. ASSUME ResetFlag
      PROVE  LoopType /\ LockType /\ Kept /\ LockHeld'
    <2>1. /\ loop' = [loop EXCEPT !.pc = "msg", !.todo = @ \ {loop.at}] /\ loop.pc = "flag"
          /\ Assign(loop.at, "b_reset_status", TRUE) /\ TRUE \in BOOLEAN
          /\ history' = [history EXCEPT ![loop.at].ignores = @ + 1]
          /\ UNCHANGED m_lock
        BY <1>7 DEF ResetFlag
    <2>2. LoopType /\ loop'.pc = "msg" /\ loop.at \in Files
        BY <1>2, <2>1
    <2>3. LockHeld'
        BY <1>1, <2>1, <2>2 DEF NInv, LockHeld
    <2>4. /\ state' \in [Files -> LOG_STATE_DATA]
          /\ state'[loop.at].b_reset_status = TRUE
          /\ state'[loop.at].file_pos = state[loop.at].file_pos
          /\ state'[loop.at].file_size = state[loop.at].file_size
          /\ \A g \in Files : g # loop.at => state'[g] = state[g]
        BY <1>2, <2>1, <2>2, AssignFlag
    <2>5. /\ history' \in [Files -> [ignores : Nat, swallowed : Nat, scanned : Nat]]
          /\ history'[loop.at].ignores = history[loop.at].ignores + 1
          /\ history'[loop.at].swallowed = history[loop.at].swallowed
          /\ history'[loop.at].scanned = history[loop.at].scanned
          /\ \A g \in Files : g # loop.at => history'[g] = history[g]
        BY <1>2, <2>1, <2>2
    <2>6. Kept
        BY <2>4, <2>5, Zenon
    <2> QED
        BY <1>2, <2>1, <2>2, <2>3, <2>6
<1>8. ASSUME ResetUnlock
      PROVE  LoopType /\ LockType /\ Kept /\ LockHeld'
    <2>1. /\ loop' = [loop EXCEPT !.pc = "idle"] /\ loop.pc = "msg"
          /\ m_lock' = "free" /\ UNCHANGED <<state, history>>
        BY <1>8 DEF ResetUnlock
    <2>2. LoopType /\ loop'.pc = "idle"
        BY <1>2, <2>1
    <2>3. LockHeld'
        BY <1>1, <2>1, <2>2 DEF NInv, LockHeld
    <2> QED
        BY <1>2, <2>1, <2>2, <2>3
<1>9. LoopType /\ LockType /\ Kept /\ LockHeld'
    BY <1>3, <1>4, <1>5, <1>6, <1>7, <1>8 DEF Loop
<1>10. TypeOK'
    BY <1>1, <1>9 DEF NInv, TypeOK, outside, startup
<1>11. ASSUME NEW g \in Files PROVE Own(g)'
    <2>1. /\ history[g].swallowed \in Nat /\ history[g].ignores \in Nat
          /\ history'[g].swallowed = history[g].swallowed
          /\ history'[g].ignores = history[g].ignores
             \/ history'[g].ignores = history[g].ignores + 1
        BY <1>2, <1>9
    <2>2. Own(g) /\ thread' = thread /\ rotations' = rotations
        BY <1>1 DEF NInv, outside
    <2>3. history'[g].swallowed <= history'[g].ignores
        BY <2>1, <2>2 DEF Own
    <2>4. state'[g].b_reset_status => history'[g].swallowed < history'[g].ignores
        <3>1. CASE history'[g].ignores = history[g].ignores + 1
            BY <2>1, <2>2, <3>1 DEF Own
        <3>2. CASE state'[g].b_reset_status = state[g].b_reset_status
                   /\ history'[g].ignores = history[g].ignores
            BY <2>1, <2>2, <3>2 DEF Own
        <3> QED
            BY <1>9, <3>1, <3>2
    <2>5. state[g].b_reset_status => state'[g].b_reset_status
        BY <1>9, Zenon
    <2>6. /\ state'[g].file_pos = state[g].file_pos
          /\ history'[g].scanned = history[g].scanned
        BY <1>9, Zenon
    <2> QED
        BY <2>2, <2>3, <2>4, <2>5, <2>6 DEF Own
<1>12. Grows'
    BY <1>1, <1>9 DEF NInv, Grows, outside
<1> QED
    BY <1>9, <1>10, <1>11, <1>12 DEF NInv

\* Undefined behaviour ends the run and touches nothing else.
LEMMA UndefinedStep ==
    NInv /\ Undefined => NInv'
<1> SUFFICES ASSUME NInv, Undefined PROVE NInv'
    OBVIOUS
<1>1. UNCHANGED <<outside, startup, m_lock, state, thread, timer, report, loop, history>>
    BY DEF Undefined
<1>2. process' \in {"up", "exited", "wild", "raced"}
    BY DEF Undefined, WildLookup, Race
<1>3. TypeOK'
    BY <1>1, <1>2 DEF NInv, TypeOK, outside, startup
<1>4. LockHeld'
    BY <1>1 DEF NInv, LockHeld
<1>5. \A g \in Files : Own(g)'
    BY <1>1, OwnFrame DEF NInv, outside
<1>6. Grows'
    BY <1>1 DEF NInv, Grows, outside
<1> QED
    BY <1>3, <1>4, <1>5, <1>6 DEF NInv

-----------------------------------------------------------------------------
(* The inductive invariant.                                                 *)

\* Before the constructor runs, with any log files on the disk, NInv holds.
LEMMA InitNInv ==
    Init => NInv
<1> SUFFICES ASSUME Init PROVE NInv
    OBVIOUS
<1>1. disk \in [Files -> Seq(Tags)]
    <2>1. ASSUME NEW n \in 0 .. MaxLines, NEW s \in [1 .. n -> Tags] PROVE s \in Seq(Tags)
        <3>1. n \in Nat
            BY <2>1, ConstantsAssumption
        <3> QED
            BY <2>1, <3>1
    <2> DEFINE Contents == UNION {[1 .. n -> Tags] : n \in 0 .. MaxLines}
    <2>2. Contents \subseteq Seq(Tags)
        BY <2>1
    <2>3. disk \in [Files -> Contents]
        BY DEF Init
    <2> HIDE DEF Contents
    <2> QED
        BY <2>2, <2>3
<1>2. (CHOOSE f \in Files : TRUE) \in Files
    BY ConstantsAssumption
<1>3. TypeOK
    <2>1. /\ rotations = 0 /\ process = "up" /\ started = {} /\ inserted = {} /\ m_lock = "free"
          /\ state \in [Files -> LOG_STATE_DATA]
        BY DEF Init, LOG_STATE_DATA, Statuses, Messages
    <2>2. thread \in [Files -> [pc : ThreadPCs, offset : Nat, line_num : Nat,
                                tag : {"INFO", "WARNING", "ERROR"}]]
        BY DEF Init, ThreadPCs
    <2>3. timer \in [pc : {"idle", "compare", "relock", "status", "msg"},
                     todo : SUBSET Files, at : Files]
        BY <1>2 DEF Init
    <2>4. loop \in [pc : {"idle", "want", "msg", "status", "flag"},
                    todo : SUBSET Files, at : Files]
        BY <1>2 DEF Init
    <2>5. report \in [Files -> [log_status : Statuses, log_err_msg : Messages]]
        BY DEF Init, Statuses, Messages
    <2>6. history \in [Files -> [ignores : Nat, swallowed : Nat, scanned : Nat]]
        BY DEF Init
    <2> QED
        BY <1>1, <2>1, <2>2, <2>3, <2>4, <2>5, <2>6 DEF TypeOK
<1>4. LockHeld
    <2>1. timer.pc = "idle" /\ loop.pc = "idle" /\ m_lock = "free"
        BY DEF Init
    <2> QED
        BY <2>1 DEF LockHeld
<1>5. ASSUME NEW f \in Files PROVE Own(f)
    <2>1. /\ state[f].b_reset_status = FALSE /\ state[f].file_pos = 0
          /\ thread[f].pc = "get"
          /\ history[f] = [ignores |-> 0, swallowed |-> 0, scanned |-> 0]
        BY DEF Init
    <2> QED
        BY <2>1 DEF Own
<1>6. Grows
    <2>1. ASSUME NEW f \in Files PROVE state[f].file_size <= Len(disk[f])
        <3>1. disk[f] \in Seq(Tags)
            BY <1>1
        <3>2. Len(disk[f]) \in Nat
            BY <3>1
        <3>3. state[f].file_size = 0
            BY DEF Init
        <3> QED
            BY <3>2, <3>3
    <2> QED
        BY <2>1 DEF Grows
<1> QED
    BY <1>3, <1>4, <1>5, <1>6 DEF NInv

\* NInv speaks only of the variables.
LEMMA Stutter ==
    NInv /\ UNCHANGED vars => NInv'
<1> SUFFICES ASSUME NInv, UNCHANGED vars PROVE NInv'
    OBVIOUS
<1>1. UNCHANGED <<disk, rotations, process, started, inserted, m_lock, state, thread,
                  timer, report, loop, history>>
    BY DEF vars, outside, startup
<1>2. TypeOK'
    BY <1>1 DEF NInv, TypeOK
<1>3. LockHeld'
    BY <1>1 DEF NInv, LockHeld
<1>4. \A g \in Files : Own(g)'
    BY <1>1, OwnFrame DEF NInv
<1>5. Grows'
    BY <1>1 DEF NInv, Grows
<1> QED
    BY <1>2, <1>3, <1>4, <1>5 DEF NInv

\* Every step keeps it.
LEMMA NInvStep ==
    NInv /\ [Next]_vars => NInv'
BY EnvironmentStep, ConstructorStep, ScanStepNInv, TimerStepNInv, LoopStepNInv,
   UndefinedStep, Stutter DEF Next

\* NInv holds in every reachable state.
THEOREM Invariance == Spec => []NInv
<1>1. Init => NInv
    BY InitNInv
<1>2. NInv /\ [Next]_vars => NInv'
    BY NInvStep
<1> QED
    BY <1>1, <1>2, PTL DEF Spec

-----------------------------------------------------------------------------
(* The results.                                                             *)

\* Every variable keeps its type, whatever ends the run.
THEOREM TypeCorrect == Spec => []TypeOK
<1>1. NInv => TypeOK
    BY DEF NInv
<1> QED
    BY <1>1, Invariance, PTL

\* However the event loop's reset and the scans interleave (the assignments of
\* scan_log take no lock), an "ignore" drops at most one later alarm per file.
THEOREM IgnoresAccounted == Spec => []SwallowsOncePerIgnore
<1>1. NInv => SwallowsOncePerIgnore
    BY DEF NInv, Own, SwallowsOncePerIgnore
<1> QED
    BY <1>1, Invariance, PTL

\* m_lock keeps write() and reset_log_status apart for any number of files.
THEOREM Exclusion == Spec => []ReportExcludesReset
<1>1. NInv => ReportExcludesReset
    BY DEF NInv, LockHeld, ReportExcludesReset
<1> QED
    BY <1>1, Invariance, PTL

\* scan_log resumes where its last scan ended: while nobody truncates the file,
\* every line is read exactly once.
THEOREM NoLineLostOrRepeated == Spec => []LinesScannedOnce
<1>1. NInv => LinesScannedOnce
    BY DEF NInv, Own, LinesScannedOnce
<1> QED
    BY <1>1, Invariance, PTL

\* What the action property says of one step.
FallsOnlyByIgnore ==
    \A f \in Files :
        state'[f].log_status < state[f].log_status =>
            \/ loop.pc = "status" /\ loop.at = f
            \/ history[f].swallowed < history[f].ignores

\* Only two assignments lower a status: the reset's, and the one that scan_log
\* makes while the flag stands for an ignore still to be spent.
LEMMA FallStep ==
    NInv /\ [Next]_vars => FallsOnlyByIgnore
<1> SUFFICES ASSUME NInv, [Next]_vars, NEW f \in Files,
                    state'[f].log_status < state[f].log_status
             PROVE  \/ loop.pc = "status" /\ loop.at = f
                    \/ history[f].swallowed < history[f].ignores
    BY DEF FallsOnlyByIgnore
<1>0. /\ TypeOK /\ state \in [Files -> LOG_STATE_DATA]
      /\ state[f] \in LOG_STATE_DATA /\ state[f].log_status \in Statuses
      /\ Own(f)
    BY DEF NInv, TypeOK, LOG_STATE_DATA
<1> DEFINE Same == state'[f].log_status = state[f].log_status
<1>1. ~ Same
    BY <1>0 DEF Statuses, LOG_NORMAL, LOG_WARNING, LOG_ERROR
<1>2. CASE UNCHANGED vars \/ Environment \/ Undefined
    <2>1. state' = state
        BY <1>2 DEF vars, Environment, Undefined
    <2> QED
        BY <1>1, <2>1
<1>3. CASE Constructor
    <2>1. ASSUME NEW g \in Files, CreateThread(g) PROVE Same
        BY <1>0, <2>1 DEF CreateThread, LOG_STATE_DATA
    <2>2. CASE InsertState \/ ConstructorExits
        BY <1>1, <2>2 DEF InsertState, ConstructorExits
    <2> QED
        BY <1>1, <1>3, <2>1, <2>2 DEF Constructor
<1>4. ASSUME NEW g \in Files, Scan(g)
      PROVE  history[f].swallowed < history[f].ignores
    <2>1. CASE g # f
        <3>1. Others(g)
            BY <1>0, <1>4, ScanStepFacts DEF NInv
        <3> QED
            BY <1>1, <2>1, <3>1 DEF Others
    <2>2. CASE g = f
        <3>1. CASE \/ GetFileState(f) \/ OpenFile(f) \/ OpenFails(f) \/ ReadLine(f)
                   \/ CheckReset(f) \/ StoreState(f)
            <4>1. state' = state
                BY <3>1 DEF GetFileState, OpenFile, OpenFails, ReadLine, CheckReset, StoreState
            <4> QED
                BY <1>1, <4>1
        <3>2. CASE SetStatus(f)
            <4>1. CASE IsMasked(f)
                BY <1>1, <3>2, <4>1 DEF SetStatus
            <4>2. CASE ~ IsMasked(f)
                <5> DEFINE v == IF thread[f].tag = "ERROR" THEN LOG_ERROR ELSE LOG_WARNING
                <5>1. Assign(f, "log_status", v) /\ v \in Statuses
                    BY <3>2, <4>2 DEF SetStatus, Statuses
                <5> HIDE DEF v
                <5>2. state'[f].log_status = v
                    BY <1>0, <5>1, AssignStatus
                <5>3. thread[f].tag \in {"WARNING", "ERROR"}
                    BY <1>0, <3>2 DEF TypeOK, Own, SetStatus, Step
                <5>4. CASE thread[f].tag = "ERROR"
                    BY <1>0, <5>2, <5>4 DEF v, Statuses, LOG_NORMAL, LOG_WARNING, LOG_ERROR
                <5>5. CASE thread[f].tag = "WARNING"
                    <6>1. state[f].log_status # LOG_ERROR /\ v = LOG_WARNING
                        BY <4>2, <5>5 DEF IsMasked, v
                    <6> QED
                        BY <1>0, <5>2, <6>1 DEF Statuses, LOG_NORMAL, LOG_WARNING, LOG_ERROR
                <5> QED
                    BY <5>3, <5>4, <5>5
            <4> QED
                BY <4>1, <4>2
        <3>3. CASE SetMessage(f)
            <4>1. thread[f].tag \in Messages /\ Assign(f, "log_err_msg", thread[f].tag)
                BY <1>0, <3>3 DEF SetMessage, Step, Own, Messages, TypeOK
            <4> QED
                BY <1>0, <1>1, <4>1, AssignMessage
        <3>4. CASE ClearMessage(f)
            <4>1. "" \in Messages /\ Assign(f, "log_err_msg", "")
                BY <3>4 DEF ClearMessage, Messages
            <4> QED
                BY <1>0, <1>1, <4>1, AssignMessage
        <3>5. CASE ClearStatus(f)
            <4>1. thread[f].pc = "clear_status"
                BY <3>5 DEF ClearStatus, Step
            <4> QED
                BY <1>0, <4>1 DEF Own
        <3>6. CASE ClearFlag(f)
            <4>1. Assign(f, "b_reset_status", FALSE)
                BY <3>6 DEF ClearFlag
            <4> QED
                BY <1>0, <1>1, <4>1, AssignFlag
        <3>7. CASE TellPosition(f)
            <4>1. Assign(f, "file_pos", thread[f].offset) /\ thread[f].offset \in Nat
                BY <1>0, <3>7 DEF TellPosition, TypeOK
            <4> QED
                BY <1>0, <1>1, <4>1, AssignPosition
        <3> QED
            BY <1>4, <2>2, <3>1, <3>2, <3>3, <3>4, <3>5, <3>6, <3>7 DEF Scan
    <2> QED
        BY <2>1, <2>2
<1>5. CASE Timer
    <2>1. ASSUME NEW g \in Files, Compare(g) PROVE Same
        <3>1. \/ state' = state
              \/ state' = [state EXCEPT ![g].file_pos = 0, ![g].file_size = Len(disk[g])]
            BY <2>1 DEF Compare
        <3> QED
            BY <1>0, <3>1 DEF LOG_STATE_DATA
    <2>2. CASE WriteLock \/ StartReport \/ ReportMessage \/ WriteUnlock
        BY <1>1, <2>2 DEF WriteLock, StartReport, ReportMessage, WriteUnlock
    <2>3. ASSUME NEW g \in Files, CompareOpenFails(g) \/ ReportStatus(g) PROVE Same
        BY <2>3 DEF CompareOpenFails, ReportStatus
    <2> QED
        BY <1>1, <1>5, <2>1, <2>2, <2>3 DEF Timer
<1>6. CASE Loop
    <2>0. loop.at \in Files
        BY <1>0 DEF TypeOK
    <2>1. CASE RequestIgnore \/ ResetLock \/ ResetUnlock
        BY <1>1, <2>1 DEF RequestIgnore, ResetLock, ResetUnlock
    <2>2. ASSUME NEW g \in Files, ResetMessage(g) PROVE Same
        <3>1. "" \in Messages /\ Assign(g, "log_err_msg", "")
            BY <2>2 DEF ResetMessage, Messages
        <3> QED
            BY <1>0, <3>1, AssignMessage
    <2>3. CASE ResetStatus
        <3>1. loop.pc = "status" /\ Assign(loop.at, "log_status", LOG_NORMAL)
              /\ LOG_NORMAL \in Statuses
            BY <2>3 DEF ResetStatus, Statuses
        <3>2. loop.at = f
            BY <1>0, <1>1, <2>0, <3>1, AssignStatus
        <3> QED
            BY <3>1, <3>2
    <2>4. CASE ResetFlag
        <3>1. Assign(loop.at, "b_reset_status", TRUE)
            BY <2>4 DEF ResetFlag
        <3> QED
            BY <1>0, <1>1, <2>0, <3>1, AssignFlag
    <2> QED
        BY <1>1, <1>6, <2>1, <2>2, <2>3, <2>4 DEF Loop
<1> QED
    BY <1>2, <1>3, <1>4, <1>5, <1>6 DEF Next

\* A later warning never hides an error, for every set of log files.
THEOREM AlarmsStand == Spec => AlarmFallsOnlyByIgnore
<1>1. NInv /\ [Next]_vars => [FallsOnlyByIgnore]_vars
    BY FallStep
<1> QED
    BY <1>1, Invariance, PTL DEF Spec, AlarmFallsOnlyByIgnore, FallsOnlyByIgnore

-----------------------------------------------------------------------------
(* Reports raise no false alarm: where the values of an alarm come from.    *)

\* Of each file: the alarm that stands and the one reported are backed, and the
\* line in hand was read.
Evidence(f) ==
    /\ Backed(f, state[f]) /\ Backed(f, report[f])
    /\ thread[f].pc \in {"status", "msg"} => SawTag(f, thread[f].tag)

EInv == NInv /\ (rotations = 0 => \A f \in Files : Evidence(f))

\* A step changes a file's alarm by clearing it or by the line its thread has in
\* hand, its report by copying the alarm, and the line in hand by reading.
SameStatus(f) == state'[f].log_status = state[f].log_status
SameMessage(f) == state'[f].log_err_msg = state[f].log_err_msg
StatusSourced(f) ==
    \/ SameStatus(f) \/ state'[f].log_status = LOG_NORMAL
    \/ /\ thread[f].pc = "status" /\ thread[f].tag = "ERROR"
       /\ state'[f].log_status = LOG_ERROR
    \/ /\ thread[f].pc = "status" /\ thread[f].tag = "WARNING"
       /\ state'[f].log_status = LOG_WARNING
MessageSourced(f) ==
    \/ SameMessage(f) \/ state'[f].log_err_msg = ""
    \/ thread[f].pc = "msg" /\ state'[f].log_err_msg = thread[f].tag
ReportSourced(f) ==
    /\ report'[f].log_status \in {report[f].log_status, state[f].log_status}
    /\ report'[f].log_err_msg \in {report[f].log_err_msg, state[f].log_err_msg}
LineSourced(f) ==
    thread'[f].pc \in {"status", "msg"} =>
        \/ thread[f].pc \in {"status", "msg"} /\ thread'[f].tag = thread[f].tag
        \/ rotations = 0 => SawTag(f, thread[f].tag)'
Sourced(f) ==
    StatusSourced(f) /\ MessageSourced(f) /\ ReportSourced(f) /\ LineSourced(f)

\* Truncations are only ever counted up.
LEMMA RotationsGrow ==
    ASSUME NInv, [Next]_vars, rotations' = 0
    PROVE  rotations = 0
<1>1. rotations \in Nat
    BY DEF NInv, TypeOK
<1>2. CASE Environment
    BY <1>1, <1>2 DEF Environment, AppendLine, Rotate
<1>3. CASE ~ Environment
    BY <1>3 DEF Next, vars, outside, Constructor, Scan, Timer, Loop, Undefined
<1> QED
    BY <1>2, <1>3

\* What was read stays read until a file is truncated.
LEMMA ReadStays ==
    ASSUME NInv, [Next]_vars, rotations' = 0, NEW f \in Files, NEW t, SawTag(f, t)
    PROVE  SawTag(f, t)'
<1>1. /\ disk \in [Files -> Seq(Tags)] /\ rotations \in Nat /\ Types
      /\ history[f].scanned \in Nat
    BY DEF NInv, TypeOK, Types
<1> DEFINE Longer == /\ rotations = 0
                     /\ \A i \in DOMAIN disk[f] : i \in DOMAIN disk'[f] /\ disk'[f][i] = disk[f][i]
           MoreRead == history'[f].scanned \in Nat /\ history[f].scanned <= history'[f].scanned
<1>2. CASE Environment
    <2>1. ASSUME NEW g \in Files, AppendLine(g) PROVE Longer
        <3>1. PICK x \in Tags : disk' = [disk EXCEPT ![g] = Append(@, x)]
            BY <2>1 DEF AppendLine
        <3>2. disk[g] \in Seq(Tags) /\ disk[f] \in Seq(Tags) /\ rotations = 0
            BY <1>1, <2>1 DEF AppendLine
        <3>3. CASE g = f
            <4>1. disk'[f] = Append(disk[f], x)
                BY <1>1, <3>1, <3>3
            <4> QED
                BY <3>2, <4>1
        <3>4. CASE g # f
            BY <1>1, <3>1, <3>2, <3>4
        <3> QED
            BY <3>3, <3>4
    <2>2. ASSUME NEW g \in Files, Rotate(g) PROVE FALSE
        BY <1>1, <2>2 DEF Rotate
    <2>3. history' = history
        BY <1>2 DEF Environment
    <2>4. Longer /\ MoreRead
        BY <1>1, <1>2, <2>1, <2>2, <2>3 DEF Environment
    <2> QED
        BY <1>1, <2>4 DEF SawTag
<1>3. CASE UNCHANGED vars \/ Constructor \/ (\E g \in Files : Scan(g)) \/ Timer \/ Loop \/ Undefined
    <2>1. outside' = outside
        BY <1>3 DEF vars, Constructor, Scan, Timer, Loop, Undefined
    <2>2. MoreRead
        <3>1. CASE UNCHANGED vars \/ Constructor \/ Timer \/ Undefined
            <4>1. history' = history
                BY <3>1 DEF vars, Constructor, Timer, Undefined
            <4> QED
                BY <1>1, <4>1
        <3>2. ASSUME NEW g \in Files, Scan(g) PROVE MoreRead
            <4>1. CASE g # f
                <5>1. Others(g)
                    BY <3>2, ScanStepFacts DEF NInv
                <5> QED
                    BY <1>1, <4>1, <5>1 DEF Others
            <4>2. CASE g = f
                <5>1. \/ history' = history
                      \/ history' = [history EXCEPT ![f].scanned = @ + 1]
                      \/ history' = [history EXCEPT ![f].swallowed = @ + 1]
                    BY <3>2, <4>2 DEF Scan, GetFileState, OpenFile, OpenFails, ReadLine, SetStatus,
                       SetMessage, CheckReset, ClearMessage, ClearStatus, ClearFlag, TellPosition,
                       StoreState
                <5>2. /\ history \in [Files -> [ignores : Nat, swallowed : Nat, scanned : Nat]]
                      /\ history[f] \in [ignores : Nat, swallowed : Nat, scanned : Nat]
                    BY <1>1 DEF Types
                <5>3. \/ history'[f].scanned = history[f].scanned
                      \/ history'[f].scanned = history[f].scanned + 1
                    BY <5>1, <5>2
                <5> QED
                    BY <1>1, <5>3
            <4> QED
                BY <4>1, <4>2
        <3>3. CASE Loop
            <4>1. loop.at \in Files
                BY DEF NInv, TypeOK
            <4>2. \/ history' = history
                  \/ history' = [history EXCEPT ![loop.at].ignores = @ + 1]
                BY <3>3 DEF Loop, RequestIgnore, ResetLock, ResetStatus, ResetFlag, ResetUnlock,
                   ResetMessage
            <4>3. /\ history \in [Files -> [ignores : Nat, swallowed : Nat, scanned : Nat]]
                  /\ history[f] \in [ignores : Nat, swallowed : Nat, scanned : Nat]
                  /\ history[loop.at] \in [ignores : Nat, swallowed : Nat, scanned : Nat]
                BY <1>1, <4>1 DEF Types
            <4>4. history'[f].scanned = history[f].scanned
                BY <4>1, <4>2, <4>3
            <4> QED
                BY <1>1, <4>4
        <3> QED
            BY <1>3, <3>1, <3>2, <3>3
    <2>3. Longer
        BY <2>1 DEF outside
    <2> QED
        BY <1>1, <2>2, <2>3 DEF SawTag
<1> QED
    BY <1>2, <1>3 DEF Next

\* The scan: its alarms are those of the line in hand, and that line was read.
LEMMA ScanSourced ==
    ASSUME NInv, NEW g \in Files, Scan(g), NEW f \in Files
    PROVE  Sourced(f)
<1>0. TypeOK /\ Types /\ Own(g) /\ UNCHANGED <<disk, rotations, report>>
    BY DEF NInv, TypeOK, Types, Scan, outside
<1>1. ReportSourced(f)
    BY <1>0 DEF ReportSourced
<1>2. CASE f # g
    <2>1. Others(g)
        BY <1>0, ScanStepFacts
    <2> QED
        BY <1>1, <1>2, <2>1 DEF Others, Sourced, StatusSourced, MessageSourced, LineSourced,
           SameStatus, SameMessage
<1>3. CASE f = g
    <2> SUFFICES StatusSourced(f) /\ MessageSourced(f) /\ LineSourced(f)
        BY <1>1 DEF Sourced
    <2> USE DEF StatusSourced, MessageSourced, SameStatus, SameMessage
    <2>1. ASSUME NEW from \in ThreadPCs, NEW to \in ThreadPCs, Step(f, from, to),
                 to \in {"status", "msg"} => from \in {"status", "msg"}
          PROVE  LineSourced(f)
        BY <1>0, <2>1, StepFacts DEF LineSourced
    <2>2. CASE GetFileState(f) \/ OpenFails(f) \/ StoreState(f)
        <3>1. state' = state
            BY <2>2 DEF GetFileState, OpenFails, StoreState
        <3>2. PICK from \in {"get", "open", "store"}, to \in {"open", "get"} : Step(f, from, to)
            BY <2>2 DEF GetFileState, OpenFails, StoreState
        <3>3. from \in ThreadPCs /\ to \in ThreadPCs
            BY DEF ThreadPCs
        <3> QED
            BY <2>1, <3>1, <3>2, <3>3
    <2>3. CASE OpenFile(f)
        <3>1. /\ state' = state
              /\ thread' = [thread EXCEPT ![f].pc = "line", ![f].line_num = 0,
                                          ![f].offset = state[f].file_pos]
            BY <2>3 DEF OpenFile
        <3>2. thread'[f].pc = "line"
            BY <1>0, <3>1 DEF Types
        <3> QED
            BY <3>1, <3>2 DEF LineSourced
    <2>4. CASE ReadLine(f)
        <3> DEFINE i == thread[f].offset + 1
        <3>1. PICK t \in TagsRead(disk[f][i]) :
                thread' = [thread EXCEPT ![f] =
                            [pc |-> IF t = "INFO" THEN "line" ELSE "status",
                             offset |-> @.offset + 1, line_num |-> @.line_num + 1, tag |-> t]]
            BY <2>4 DEF ReadLine
        <3>2. /\ state' = state /\ thread[f].pc = "line"
              /\ history' = [history EXCEPT ![f].scanned = @ + 1]
            BY <2>4 DEF ReadLine
        <3>3. thread'[f].tag = t
            BY <1>0, <3>1 DEF Types
        <3>4. disk[f][i] \in {t, "none"}
            BY <3>1 DEF TagsRead
        <3>5. i \in DOMAIN disk[f]
            <4>1. disk[f] \in Seq(Tags) /\ thread[f].offset \in Nat
                BY <1>0 DEF TypeOK
            <4>2. Len(disk[f]) \in Nat /\ thread[f].offset < Len(disk[f])
                BY <2>4, <4>1 DEF ReadLine, AtEnd
            <4> QED
                BY <4>1, <4>2
        <3>6. ASSUME rotations = 0 PROVE i <= history'[f].scanned
            <4>1. history[f].scanned = thread[f].offset /\ thread[f].offset \in Nat
                BY <1>0, <1>3, <3>2, <3>6 DEF Own, Types
            <4>2. history'[f].scanned = history[f].scanned + 1
                BY <1>0, <3>2 DEF Types
            <4> QED
                BY <4>1, <4>2
        <3>7. rotations = 0 => SawTag(f, thread[f].tag)'
            BY <1>0, <3>3, <3>4, <3>5, <3>6 DEF SawTag
        <3> QED
            BY <3>2, <3>7 DEF LineSourced
    <2>5. CASE SetStatus(f)
        <3>0. "status" \in ThreadPCs /\ "line" \in ThreadPCs /\ "msg" \in ThreadPCs
            BY DEF ThreadPCs
        <3>1. CASE IsMasked(f)
            <4>1. Step(f, "status", "line") /\ state' = state
                BY <2>5, <3>1 DEF SetStatus
            <4> QED
                BY <2>1, <3>0, <4>1
        <3>2. CASE ~ IsMasked(f)
            <4> DEFINE v == IF thread[f].tag = "ERROR" THEN LOG_ERROR ELSE LOG_WARNING
            <4>1. Step(f, "status", "msg") /\ Assign(f, "log_status", v) /\ v \in Statuses
                BY <2>5, <3>2 DEF SetStatus, Statuses
            <4>2. thread[f].pc = "status" /\ thread[f].tag \in {"WARNING", "ERROR"}
                BY <1>0, <1>3, <4>1 DEF TypeOK, Own, Step
            <4>3. \/ v = LOG_ERROR /\ thread[f].tag = "ERROR"
                  \/ v = LOG_WARNING /\ thread[f].tag = "WARNING"
                <5>1. CASE thread[f].tag = "ERROR"
                    BY <5>1
                <5>2. CASE thread[f].tag = "WARNING"
                    BY <5>2
                <5> QED
                    BY <4>2, <5>1, <5>2
            <4> HIDE DEF v
            <4>4. state'[f].log_status = v /\ SameMessage(f)
                BY <1>0, <4>1, AssignStatus
            <4>5. LineSourced(f)
                BY <2>1, <3>0, <4>1
            <4> QED
                BY <4>2, <4>3, <4>4, <4>5
        <3> QED
            BY <3>1, <3>2
    <2>6. CASE SetMessage(f)
        <3>1. /\ Step(f, "msg", "check") /\ "msg" \in ThreadPCs /\ "check" \in ThreadPCs
              /\ thread[f].pc = "msg" /\ Assign(f, "log_err_msg", thread[f].tag)
            BY <2>6 DEF SetMessage, Step, ThreadPCs
        <3>2. thread[f].tag \in Messages
            BY <1>0, <1>3, <3>1 DEF Own, Types, Messages
        <3>3. state'[f].log_err_msg = thread[f].tag /\ SameStatus(f)
            BY <1>0, <3>1, <3>2, AssignMessage
        <3> QED
            BY <2>1, <3>1, <3>3
    <2>7. CASE CheckReset(f)
        <3>1. PICK to \in {"clear_msg", "line"} : Step(f, "check", to)
            BY <2>7 DEF CheckReset
        <3>2. "check" \in ThreadPCs /\ to \in ThreadPCs /\ state' = state
            BY <2>7 DEF CheckReset, ThreadPCs
        <3> QED
            BY <2>1, <3>1, <3>2
    <2>8. CASE ClearMessage(f)
        <3>1. /\ Step(f, "clear_msg", "clear_status") /\ "clear_msg" \in ThreadPCs
              /\ "clear_status" \in ThreadPCs
              /\ Assign(f, "log_err_msg", "") /\ "" \in Messages
            BY <2>8 DEF ClearMessage, ThreadPCs, Messages
        <3>2. state'[f].log_err_msg = "" /\ SameStatus(f)
            BY <1>0, <3>1, AssignMessage
        <3> QED
            BY <2>1, <3>1, <3>2
    <2>9. CASE ClearStatus(f)
        <3>1. /\ Step(f, "clear_status", "clear_flag") /\ "clear_status" \in ThreadPCs
              /\ "clear_flag" \in ThreadPCs
              /\ Assign(f, "log_status", LOG_NORMAL) /\ LOG_NORMAL \in Statuses
            BY <2>9 DEF ClearStatus, ThreadPCs, Statuses
        <3>2. state'[f].log_status = LOG_NORMAL /\ SameMessage(f)
            BY <1>0, <3>1, AssignStatus
        <3> QED
            BY <2>1, <3>1, <3>2
    <2>10. CASE ClearFlag(f)
        <3>1. /\ Step(f, "clear_flag", "line") /\ "clear_flag" \in ThreadPCs
              /\ "line" \in ThreadPCs
              /\ Assign(f, "b_reset_status", FALSE)
            BY <2>10 DEF ClearFlag, ThreadPCs
        <3>2. SameStatus(f) /\ SameMessage(f)
            BY <1>0, <3>1, AssignFlag
        <3> QED
            BY <2>1, <3>1, <3>2
    <2>11. CASE TellPosition(f)
        <3>1. /\ Step(f, "line", "store") /\ "line" \in ThreadPCs /\ "store" \in ThreadPCs
              /\ Assign(f, "file_pos", thread[f].offset) /\ thread[f].offset \in Nat
            BY <1>0, <2>11 DEF TellPosition, ThreadPCs, Types
        <3>2. SameStatus(f) /\ SameMessage(f)
            BY <1>0, <3>1, AssignPosition
        <3> QED
            BY <2>1, <3>1, <3>2
    <2> QED
        BY <1>3, <2>2, <2>3, <2>4, <2>5, <2>6, <2>7, <2>8, <2>9, <2>10, <2>11 DEF Scan
<1> QED
    BY <1>2, <1>3

\* The timer thread copies what stands, and rewinds without touching an alarm.
LEMMA TimerSourced ==
    ASSUME NInv, Timer, NEW f \in Files
    PROVE  Sourced(f)
<1>0. /\ thread' = thread /\ timer.at \in Files
      /\ state \in [Files -> LOG_STATE_DATA]
      /\ report \in [Files -> [log_status : Statuses, log_err_msg : Messages]]
    BY DEF NInv, TypeOK, Timer
<1> DEFINE Same == SameStatus(f) /\ SameMessage(f)
<1>3. ASSUME NEW g \in Files, Compare(g) PROVE Same /\ ReportSourced(f)
    <2>1. report' = report
        BY <1>3 DEF Compare
    <2> DEFINE d == [state[g] EXCEPT !.file_pos = 0, !.file_size = Len(disk[g])]
    <2>2. state' = state \/ state' = [state EXCEPT ![g] = d]
        BY <1>3 DEF Compare
    <2>3. state[g] \in LOG_STATE_DATA
        BY <1>0
    <2>4. d.log_status = state[g].log_status /\ d.log_err_msg = state[g].log_err_msg
        BY <2>3 DEF LOG_STATE_DATA
    <2> HIDE DEF d
    <2>5. Same
        BY <1>0, <2>2, <2>4 DEF SameStatus, SameMessage
    <2> QED
        BY <2>1, <2>5 DEF ReportSourced
<1>4. ASSUME NEW g \in Files, CompareOpenFails(g) PROVE Same /\ ReportSourced(f)
    BY <1>4 DEF CompareOpenFails, SameStatus, SameMessage, ReportSourced
<1>5. ASSUME NEW g \in Files, ReportStatus(g) PROVE Same /\ ReportSourced(f)
    <2>1. state' = state /\ report' = [report EXCEPT ![g].log_status = state[g].log_status]
        BY <1>5 DEF ReportStatus
    <2> QED
        BY <1>0, <2>1 DEF SameStatus, SameMessage, ReportSourced
<1>6. Same /\ ReportSourced(f)
    <2>1. CASE WriteLock \/ StartReport \/ WriteUnlock
        BY <2>1 DEF WriteLock, StartReport, WriteUnlock, SameStatus, SameMessage,
           ReportSourced
    <2>2. CASE ReportMessage
        <3>1. state' = state
              /\ report' = [report EXCEPT ![timer.at].log_err_msg = state[timer.at].log_err_msg]
            BY <2>2 DEF ReportMessage
        <3> QED
            BY <1>0, <3>1 DEF SameStatus, SameMessage, ReportSourced
    <2> QED
        BY <1>3, <1>4, <1>5, <2>1, <2>2 DEF Timer
<1>7. LineSourced(f)
    BY <1>0 DEF LineSourced
<1> QED
    BY <1>6, <1>7 DEF Sourced, StatusSourced, MessageSourced

\* The event loop only clears.
LEMMA LoopSourced ==
    ASSUME NInv, Loop, NEW f \in Files
    PROVE  Sourced(f)
<1>0. /\ TypeOK /\ loop.at \in Files /\ UNCHANGED <<thread, report>>
    BY DEF NInv, TypeOK, Loop
<1> DEFINE Clears == StatusSourced(f) /\ MessageSourced(f)
<1> USE DEF StatusSourced, MessageSourced, SameStatus, SameMessage
<1>1. CASE RequestIgnore \/ ResetLock \/ ResetUnlock
    <2>1. state' = state
        BY <1>1 DEF RequestIgnore, ResetLock, ResetUnlock
    <2>2. Clears
        BY <2>1
    <2> QED
        BY <1>0, <2>2 DEF Sourced, ReportSourced, LineSourced
<1>2. ASSUME NEW g \in Files, ResetMessage(g) PROVE Clears
    <2>1. "" \in Messages /\ Assign(g, "log_err_msg", "")
        BY <1>2 DEF ResetMessage, Messages
    <2>2. /\ state'[g].log_status = state[g].log_status /\ state'[g].log_err_msg = ""
          /\ \A h \in Files : h # g => state'[h] = state[h]
        BY <1>0, <2>1, AssignMessage
    <2> QED
        BY <2>2
<1>3. CASE ResetStatus
    <2>1. LOG_NORMAL \in Statuses /\ Assign(loop.at, "log_status", LOG_NORMAL)
        BY <1>3 DEF ResetStatus, Statuses
    <2>2. /\ state'[loop.at].log_status = LOG_NORMAL
          /\ state'[loop.at].log_err_msg = state[loop.at].log_err_msg
          /\ \A h \in Files : h # loop.at => state'[h] = state[h]
        BY <1>0, <2>1, AssignStatus
    <2>3. Clears
        BY <2>2
    <2> QED
        BY <1>0, <2>3 DEF Sourced, ReportSourced, LineSourced
<1>4. CASE ResetFlag
    <2>1. Assign(loop.at, "b_reset_status", TRUE)
        BY <1>4 DEF ResetFlag
    <2>2. /\ state'[loop.at].log_status = state[loop.at].log_status
          /\ state'[loop.at].log_err_msg = state[loop.at].log_err_msg
          /\ \A h \in Files : h # loop.at => state'[h] = state[h]
        BY <1>0, <2>1, AssignFlag
    <2>3. Clears
        BY <2>2
    <2> QED
        BY <1>0, <2>3 DEF Sourced, ReportSourced, LineSourced
<1>5. CASE \E g \in Files : ResetMessage(g)
    BY <1>0, <1>2, <1>5 DEF Sourced, ReportSourced, LineSourced
<1> QED
    BY <1>1, <1>3, <1>4, <1>5 DEF Loop

\* The others change no alarm.
LEMMA NextSourced ==
    ASSUME NInv, [Next]_vars, NEW f \in Files
    PROVE  Sourced(f)
<1> USE DEF Sourced, StatusSourced, MessageSourced, ReportSourced, LineSourced, SameStatus,
            SameMessage
<1>1. CASE UNCHANGED vars \/ Environment \/ Undefined
    BY <1>1 DEF vars, Environment, Undefined
<1>2. CASE Constructor
    <2>1. UNCHANGED <<thread, report>> /\ state \in [Files -> LOG_STATE_DATA]
        BY <1>2 DEF Constructor, NInv, TypeOK
    <2>2. ASSUME NEW g \in Files, CreateThread(g)
          PROVE  SameStatus(f) /\ SameMessage(f)
        BY <2>1, <2>2 DEF CreateThread, LOG_STATE_DATA
    <2>3. CASE InsertState \/ ConstructorExits
        BY <2>1, <2>3 DEF InsertState, ConstructorExits
    <2>4. CASE \E g \in Files : CreateThread(g)
        BY <2>1, <2>2, <2>4
    <2> QED
        BY <1>2, <2>3, <2>4 DEF Constructor
<1>3. CASE (\E g \in Files : Scan(g)) \/ Timer \/ Loop
    BY <1>3, ScanSourced, TimerSourced, LoopSourced
<1> QED
    BY <1>1, <1>2, <1>3 DEF Next

\* A step keeps the evidence: every value it writes is backed, and what was read
\* stays read.
LEMMA EvidenceStep ==
    EInv /\ [Next]_vars => EInv'
<1> SUFFICES ASSUME EInv, [Next]_vars PROVE EInv'
    OBVIOUS
<1>1. NInv /\ NInv'
    BY NInvStep DEF EInv
<1>2. ASSUME rotations' = 0, NEW f \in Files PROVE Evidence(f)'
    <2>0. LOG_NORMAL # LOG_ERROR /\ LOG_NORMAL # LOG_WARNING /\ LOG_ERROR # LOG_WARNING
        BY DEF LOG_NORMAL, LOG_WARNING, LOG_ERROR
    <2>1. rotations = 0
        BY <1>1, <1>2, RotationsGrow
    <2>2. Evidence(f)
        BY <2>1 DEF EInv
    <2>3. \A t : SawTag(f, t) => SawTag(f, t)'
        BY <1>1, <1>2, ReadStays
    <2>4. Sourced(f)
        BY <1>1, NextSourced
    <2>5. Backed(f, state[f])'
        BY <2>0, <2>2, <2>3, <2>4 DEF Evidence, Backed, Sourced, StatusSourced, MessageSourced,
           SameStatus, SameMessage
    <2>6. Backed(f, report[f])'
        BY <2>0, <2>2, <2>3, <2>4 DEF Evidence, Backed, Sourced, ReportSourced
    <2>7. thread'[f].pc \in {"status", "msg"} => SawTag(f, thread[f].tag)'
        BY <2>1, <2>2, <2>3, <2>4 DEF Evidence, Sourced, LineSourced
    <2> QED
        BY <2>5, <2>6, <2>7 DEF Evidence
<1> QED
    BY <1>1, <1>2 DEF EInv

\* Nothing stands and nothing is reported before the first line is read.
LEMMA InitEvidence ==
    Init => EInv
<1> SUFFICES ASSUME Init PROVE EInv
    OBVIOUS
<1>1. NInv
    BY InitNInv
<1>2. ASSUME NEW f \in Files PROVE Evidence(f)
    <2>1. /\ state[f].log_status = LOG_NORMAL /\ state[f].log_err_msg = ""
          /\ report[f].log_status = LOG_NORMAL /\ report[f].log_err_msg = ""
          /\ thread[f].pc = "get"
        BY DEF Init
    <2>2. LOG_NORMAL # LOG_ERROR /\ LOG_NORMAL # LOG_WARNING
        BY DEF LOG_NORMAL, LOG_WARNING, LOG_ERROR
    <2>3. Backed(f, state[f])
        BY <2>1, <2>2, Zenon DEF Backed
    <2>4. Backed(f, report[f])
        BY <2>1, <2>2, Zenon DEF Backed
    <2>5. thread[f].pc \notin {"status", "msg"}
        BY <2>1
    <2> QED
        BY <2>3, <2>4, <2>5, Zenon DEF Evidence
<1> QED
    BY <1>1, <1>2 DEF EInv

\* A report raises no false alarm, for any log files, scan length and number of
\* ignores: what it says of a file that nobody truncated was in lines that were read.
THEOREM ReportsBacked == Spec => []NoFalseAlarm
<1>1. EInv => NoFalseAlarm
    BY DEF EInv, Evidence, NoFalseAlarm
<1> QED
    BY <1>1, InitEvidence, EvidenceStep, PTL DEF Spec

-----------------------------------------------------------------------------
(* When write() waits for itself.                                           *)

LockInv == NInv /\ SelfLockNeedsTruncation

\* Only compare_file_state leads there, and only for a file that is shorter
\* than recorded, which Grows keeps for truncated files.
LEMMA SelfLockStep ==
    LockInv /\ [Next]_vars => LockInv'
<1> SUFFICES ASSUME LockInv, [Next]_vars PROVE LockInv'
    OBVIOUS
<1>1. NInv /\ NInv' /\ rotations \in Nat /\ rotations' \in Nat
    BY NInvStep DEF LockInv, NInv, TypeOK
<1>2. ASSUME timer'.pc = "relock" PROVE rotations' # 0
    <2>1. CASE timer.pc = "relock"
        BY <1>1, <2>1, RotationsGrow DEF LockInv, SelfLockNeedsTruncation
    <2>2. CASE timer.pc # "relock"
        <3>1. Timer
            BY <1>2, <2>2 DEF Next, vars, Environment, Constructor, Scan, Loop, Undefined
        <3>2. timer \in [pc : {"idle", "compare", "relock", "status", "msg"},
                         todo : SUBSET Files, at : Files]
            BY <1>1 DEF NInv, TypeOK
        <3>3. PICK f \in Files : Compare(f)
            BY <1>2, <2>2, <3>1, <3>2 DEF Timer, WriteLock, StartReport, ReportMessage,
               WriteUnlock, CompareOpenFails, ReportStatus
        <3>4. state[f].file_size > Len(disk[f])
            BY <1>2, <2>2, <3>2, <3>3 DEF Compare
        <3>5. state[f].file_size \in Nat /\ Len(disk[f]) \in Nat
            <4>1. state[f] \in LOG_STATE_DATA /\ disk[f] \in Seq(Tags)
                BY <1>1, <3>3 DEF NInv, TypeOK
            <4> QED
                BY <4>1 DEF LOG_STATE_DATA
        <3>6. rotations # 0
            BY <1>1, <3>4, <3>5 DEF NInv, Grows
        <3> QED
            BY <1>1, <3>6, RotationsGrow
    <2> QED
        BY <2>1, <2>2
<1> QED
    BY <1>1, <1>2 DEF LockInv, SelfLockNeedsTruncation

\* The timer thread locks m_lock against itself in compare_file_state only after
\* somebody truncated a log file: files that only grow never block the program.
THEOREM BlocksOnlyTruncated == Spec => []SelfLockNeedsTruncation
<1>1. Init => LockInv
    <2>1. ASSUME Init PROVE timer.pc = "idle"
        BY <2>1 DEF Init
    <2> QED
        BY <2>1, InitNInv DEF LockInv, SelfLockNeedsTruncation
<1>2. LockInv => SelfLockNeedsTruncation
    BY DEF LockInv
<1> QED
    BY <1>1, <1>2, SelfLockStep, PTL DEF Spec
=============================================================================
