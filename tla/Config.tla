--------------------------------- MODULE Config ---------------------------------
(***************************************************************************)
(* CLoadConfig::LoadConfig (src/SysMonitor/load_config.cpp) and             *)
(* GetIniKeyString (func.cpp), with which it reads config.ini: a scan of    *)
(* the whole file for every key, whose answer is left in a static buffer.   *)
(*                                                                          *)
(* A line is a section's header or key = value; other lines, and a last one *)
(* without its end, change nothing.  A key is a name and a number           *)
(* ("counter_name" 1), the number 0 if it has none.  Of a text only the     *)
(* length is kept and of a byte which text it came from.  Left out are      *)
(* values that contain a key's name, lines beyond the buffers' 1024 bytes,  *)
(* and numbers that are negative or do not fit their variable (a short for  *)
(* the number of counters, programs and logs).                              *)
(*                                                                          *)
(* Definitions named after a mistake (AnySection, ...) are not used: each   *)
(* is what the definition after it would be with that mistake in the code,  *)
(* and breaks a property below.                                             *)
(***************************************************************************)
EXTENDS Integers, Sequences, FiniteSets

CONSTANTS Files,        \* the files, each a sequence of Lines
          Lines,        \* [title, key, len, int, value, comment]
          NameInside,   \* pairs <<a, b>> of key names: a is the end of b
          TitleLen,     \* per title the length of "[title]"
          OBJECT_NUM,   \* slots for monitors: 7 in the code
          MAX_DBCOUNT,  \* 5 in the code
          FieldSize,    \* bytes of a DBCONFIG's fields: 32 in the code
          BufSize       \* bound: longer than every text

\* The sections keys are looked up in.
Titles == {"service", "monitortype", "system", "mysql", "mssql", "web", "process", "ndb"}

ASSUME ConfigAssumption ==
    /\ OBJECT_NUM \in Nat \ {0} /\ MAX_DBCOUNT \in Nat /\ FieldSize \in Nat
    /\ BufSize \in Nat \ {0} /\ TitleLen \in [Titles -> 0 .. BufSize - 1]
    /\ \A f \in Files : f \in Seq(Lines)
    /\ Lines \subseteq [title : STRING, key : STRING \X Nat, len : Nat, int : Nat,
                       value : STRING, comment : BOOLEAN]
    /\ \A l \in Lines : l.len < BufSize - 1

VARIABLES
    text,      \* config.ini: its lines (none once nobody reads it any more), whether
               \* they end in CR LF; the build: win32
    tmpstr,    \* GetIniKeyString's static buffer
    config,    \* m_monitor_config, as far as set
    load,      \* where LoadConfig is: slot i, entry j of its section
    got,       \* history: the last lookup and its answer
    process    \* "up"; "overrun": memory was written past a field's or array's end

configVars == <<text, tmpstr, config, load, got, process>>

None == "none"
Bytes == 0 .. BufSize - 1
NUL == 0
TITLE == -1   \* other bytes: the number of the line they were copied from

\* What LoadConfig reads for a monitor's type: the key of the number of entries,
\* and their keys; the names of the web counters are looked up in [system].
Sections ==
    [t \in {1, 2, 3, 5, 6, 9} |->
       CASE t = 1 -> [title |-> "system", num |-> "counter_num", from |-> "system", keys |-> <<"counter_name">>]
         [] t = 2 -> [title |-> "mysql", num |-> "dbcount", from |-> "mysql", keys |-> <<"connectonstr">>]
         [] t = 3 -> [title |-> "mssql", num |-> "dbcount", from |-> "mssql",
                      keys |-> <<"data_source", "data_base", "user_name", "password">>]
         [] t = 5 -> [title |-> "web", num |-> "counter_num", from |-> "system", keys |-> <<"counter_name">>]
         [] t = 6 -> [title |-> "process", num |-> "process_num", from |-> "process", keys |-> <<"process_name">>]
         [] t = 9 -> [title |-> "ndb", num |-> "num", from |-> "ndb", keys |-> <<"name">>]]
Sectioned == DOMAIN Sections

ConfigTypeOK ==
    /\ text \in [lines : Seq(Lines), crlf : BOOLEAN, win32 : BOOLEAN]
    /\ tmpstr \in [Bytes -> {TITLE, NUL} \union 1 .. Len(text.lines)]
    /\ config.object_type \in [0 .. OBJECT_NUM - 1 -> Nat]
    /\ config.num \in [Sectioned -> Nat] /\ config.loaded \subseteq Sectioned
    /\ \A t \in Sectioned : Len(config.entry[t]) <= config.num[t] * Len(Sections[t].keys)
    /\ load.step \in {"service", "type", "num", "entry", "done"} /\ load.i \in 0 .. OBJECT_NUM
    /\ process \in {"up", "overrun"}

NotLooked == [title |-> None, key |-> <<None, 0>>, line |-> 0, bytes |-> <<>>]

ConfigInit ==
    /\ text \in [lines : Files, crlf : BOOLEAN, win32 : BOOLEAN]
    /\ tmpstr = [p \in Bytes |-> NUL]
    /\ config = [port |-> 0, object_type |-> [i \in 0 .. OBJECT_NUM - 1 |-> 0],
                 num |-> [t \in Sectioned |-> 0], entry |-> [t \in Sectioned |-> <<>>],
                 loaded |-> {}]
    /\ load = [step |-> "service", i |-> 0, j |-> 0]
    /\ got = NotLooked
    /\ process = "up"

-----------------------------------------------------------------------------
(* GetIniKeyString.                                                         *)

Line(i) == text.lines[i]

\* strstr: the key asked for occurs in the key of the line.
DigitsBegin(n, m) == n = m \/ n \div 10 = m
NameIn(a, b) == a = b \/ <<a, b>> \in NameInside
HasKey(key, wanted) ==
    /\ NameIn(wanted[1], key[1])
    /\ wanted[2] = 0 \/ DigitsBegin(key[2], wanted[2])

AnySection(title, i) == TRUE

\* flag: set by the section's header, and never reset.
InSection(title, i) == \E j \in 1 .. i - 1 : Line(j).title = title

Matches(title, wanted, i) ==
    /\ Line(i).title = None /\ ~ Line(i).comment
    /\ HasKey(Line(i).key, wanted) /\ InSection(title, i)

Found(title, wanted) == {i \in 1 .. Len(text.lines) : Matches(title, wanted, i)}
Least(S) == CHOOSE i \in S : \A j \in S : i <= j

HeadedOpen(title) == [p \in Bytes |-> IF p < TitleLen[title] THEN TITLE ELSE tmpstr[p]]

\* strcpy and strcat of "[title]", done for every line that is not a key of the
\* section: at least the header.
Headed(title) ==
    IF text.lines = <<>> THEN tmpstr
    ELSE [p \in Bytes |-> IF p < TitleLen[title] THEN TITLE
                          ELSE IF p = TitleLen[title] THEN NUL ELSE tmpstr[p]]

\* The bytes strncpy takes: all but the last, which it takes for a CR.
Taken(i) == IF text.crlf THEN Line(i).len ELSE Line(i).len - 1

\* On Linux what is taken gets no end of its own.
Copied(title, i) ==
    [p \in Bytes |->
       IF text.win32 THEN IF p < Line(i).len THEN i
                          ELSE IF p = Line(i).len THEN NUL ELSE Headed(title)[p]
       ELSE IF p < Taken(i) THEN i ELSE Headed(title)[p]]

StringIn(buf) ==
    LET end == Least({p \in Bytes : buf[p] = NUL}) IN [p \in 1 .. end |-> buf[p - 1]]

\* Of an empty value strncpy takes size_t(-1) bytes.
Overruns(title, wanted) ==
    LET S == Found(title, wanted) IN
    S # {} /\ ~ text.win32 /\ ~ text.crlf /\ Line(Least(S)).len = 0

\* The lookup: the buffer afterwards and the answer, "" if there is no such key.
GetIniKeyString(title, wanted) ==
    LET S == Found(title, wanted) IN
    IF S = {} THEN [buf |-> Headed(title), line |-> 0, bytes |-> <<>>]
    ELSE LET i == Least(S) IN
         [buf |-> Copied(title, i), line |-> i, bytes |-> StringIn(Copied(title, i))]

\* atoi: the digits taken; what follows them is never a digit, for no number is
\* longer than a title.
GetIniKeyInt(title, wanted) ==
    LET r == GetIniKeyString(title, wanted) IN
    IF r.line = 0 THEN 0
    ELSE IF text.win32 \/ text.crlf THEN Line(r.line).int ELSE Line(r.line).int \div 10

\* The text an entry got: the value of its line, or something else.
Entry(r) ==
    IF r.line = 0 THEN ""
    ELSE IF r.bytes = [p \in 1 .. Line(r.line).len |-> r.line] THEN Line(r.line).value
    ELSE "garbled"

Looks(title, wanted) ==
    LET r == GetIniKeyString(title, wanted) IN
    /\ tmpstr' = r.buf
    /\ got' = [title |-> title, key |-> wanted, line |-> r.line, bytes |-> r.bytes]

-----------------------------------------------------------------------------
(* LoadConfig.  dbsel, dbtype and logflag are read like port and left out.  *)

At(step) == process = "up" /\ load.step = step
Slot == config.object_type[load.i]
Section == Sections[Slot]

\* What is looked up next.
Title ==
    CASE load.step = "service" -> "service" [] load.step = "type" -> "monitortype"
      [] load.step = "num" -> Section.title [] OTHER -> Section.from
EntriesOneMore == config.num[Slot] * Len(Section.keys) + 1
Entries == config.num[Slot] * Len(Section.keys)
KeyOf(j) == <<Section.keys[(j % Len(Section.keys)) + 1], (j \div Len(Section.keys)) + 1>>
Wanted ==
    CASE load.step = "service" -> <<"port", 0>> [] load.step = "type" -> <<"type", load.i + 1>>
      [] load.step = "num" -> <<Section.num, 0>> [] OTHER -> KeyOf(load.j)

Looking ==
    /\ process = "up"
    /\ \/ load.step \in {"service", "type"}
       \/ load.step = "num" /\ load.i < OBJECT_NUM /\ Slot \in Sectioned
       \/ load.step = "entry" /\ load.j < Entries

Overrun ==
    /\ Looking /\ Overruns(Title, Wanted)
    /\ process' = "overrun"
    /\ UNCHANGED <<text, tmpstr, config, load, got>>

Lookup == Looking /\ ~ Overruns(Title, Wanted) /\ Looks(Title, Wanted)

ReadService ==
    /\ At("service") /\ Lookup
    /\ config' = [config EXCEPT !.port = GetIniKeyInt(Title, Wanted)]
    /\ load' = [load EXCEPT !.step = "type"]
    /\ UNCHANGED <<text, process>>

ReadType ==
    /\ At("type") /\ Lookup
    /\ config' = [config EXCEPT !.object_type[load.i] = GetIniKeyInt(Title, Wanted)]
    /\ load' = IF load.i + 1 < OBJECT_NUM THEN [load EXCEPT !.i = @ + 1]
               ELSE [load EXCEPT !.step = "num", !.i = 0]
    /\ UNCHANGED <<text, process>>

ReadNum ==
    /\ At("num") /\ Lookup
    /\ config' = [config EXCEPT !.num[Slot] = GetIniKeyInt(Title, Wanted),
                    !.entry[Slot] = <<>>, !.loaded = @ \union {Slot}]
    /\ load' = [load EXCEPT !.step = "entry", !.j = 0]
    /\ UNCHANGED <<text, process>>

NextSlot ==
    /\ \/ At("num") /\ load.i < OBJECT_NUM /\ Slot \notin Sectioned
       \/ At("entry") /\ load.j = Entries
    /\ load' = [load EXCEPT !.step = "num", !.i = @ + 1, !.j = 0]
    /\ UNCHANGED <<text, tmpstr, config, got, process>>

\* The databases have room for MAX_DBCOUNT, their fields for FieldSize bytes.
Fits(r) == Slot = 3 => load.j \div Len(Section.keys) < MAX_DBCOUNT /\ Len(r.bytes) < FieldSize

ReadEntry ==
    /\ At("entry") /\ Lookup
    /\ LET r == GetIniKeyString(Title, Wanted) IN
       /\ config' = [config EXCEPT !.entry[Slot] = Append(@, Entry(r))]
       /\ process' = IF Fits(r) THEN "up" ELSE "overrun"
    /\ load' = [load EXCEPT !.j = @ + 1]
    /\ UNCHANGED text

LoadedEarly ==
    /\ At("num") /\ load.i = OBJECT_NUM - 1
    /\ load' = [load EXCEPT !.step = "done"]
    /\ text' = [text EXCEPT !.lines = <<>>]
    /\ tmpstr' = [p \in Bytes |-> NUL] /\ got' = NotLooked
    /\ UNCHANGED <<config, process>>

\* Nobody reads the file again: the model forgets it.
Loaded ==
    /\ At("num") /\ load.i = OBJECT_NUM
    /\ load' = [load EXCEPT !.step = "done"]
    /\ text' = [text EXCEPT !.lines = <<>>]
    /\ tmpstr' = [p \in Bytes |-> NUL] /\ got' = NotLooked
    /\ UNCHANGED <<config, process>>

LoadConfig ==
    \/ Overrun \/ ReadService \/ ReadType \/ ReadNum \/ NextSlot \/ ReadEntry \/ Loaded

-----------------------------------------------------------------------------
(* Properties.                                                              *)

\* The lines of a section of the file, as a reader sees it.
InOwnSection(title, i) ==
    \E j \in 1 .. i - 1 : Line(j).title = title /\ \A k \in j + 1 .. i : Line(k).title = None

\* The first line of its section that sets a key is what a lookup finds, though
\* it looks for the key anywhere in a line and never leaves a section, unless a
\* line before it in the section has the key as a part of its own or the section
\* has two headers.
OneHeader(title) ==
    \A j, k \in 1 .. Len(text.lines) : Line(j).title = title /\ Line(k).title = title => j = k

FindsOwnKey ==
    LET own == {i \in 1 .. Len(text.lines) :
                  /\ InOwnSection(got.title, i) /\ ~ Line(i).comment /\ Line(i).key = got.key}
    IN  own # {} /\ OneHeader(got.title) /\ (\A i \in 1 .. Len(text.lines) :
                       i < Least(own) /\ InOwnSection(got.title, i)
                         => ~ HasKey(Line(i).key, got.key) \/ Line(i).comment)
          => got.line = Least(own)

\* The answer is the value itself when Windows' strcpy copies it.  Linux' copy
\* begins with the value if the lines end in CR LF and may go on with other text;
\* where an answer before this one shows through, the value is longer than the
\* section's title.
AnswerIsValue ==
    got.line # 0 =>
        LET len == Line(got.line).len
            own == [p \in 1 .. len |-> got.line]
        IN  /\ text.win32 => got.bytes = own
            /\ text.crlf => Len(got.bytes) >= len /\ SubSeq(got.bytes, 1, len) = own
            /\ (\E p \in 1 .. Len(got.bytes) : got.bytes[p] \notin {got.line, TITLE})
                 => len > TitleLen[got.title]
=============================================================================
