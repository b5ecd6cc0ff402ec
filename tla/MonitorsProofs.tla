----------------------------- MODULE MonitorsProofs -----------------------------
(***************************************************************************)
(* Theorems about Monitors, for any config.ini with lines of the form of    *)
(* Config, any number of slots, programs and processes, and an int of any   *)
(* even number of values.  They need three arguments that have nothing to do *)
(* with each other: arithmetic modulo Modulus for the rates, what a scan of  *)
(* the file for a key finds and copies, and one inductive invariant for the  *)
(* way from the file over the slots to the rows of a sample.                *)
(***************************************************************************)
EXTENDS Monitors, FiniteSetTheorems, SequenceTheorems, WellFoundedInduction, TLAPS

-----------------------------------------------------------------------------
(* Numbers.                                                                 *)

\* Division is the one of the integers.
LEMMA Division ==
    ASSUME NEW m \in Nat \ {0}, NEW n \in Int
    PROVE  n = m * (n \div m) + (n % m) /\ n % m \in 0 .. m - 1 /\ n \div m \in Int
OBVIOUS

\* A set of numbers has a least one.
LEMMA LeastFacts ==
    ASSUME NEW S, S \subseteq Nat, S # {}
    PROVE  Least(S) \in S /\ \A j \in S : Least(S) <= j
<1>1. PICK i \in S : \A j \in S : <<j, i>> \notin OpToRel(<, Nat)
    BY NatLessThanWellFounded, WFMin
<1>2. OpToRel(<, Nat) = {ss \in Nat \X Nat : ss[1] < ss[2]}
    BY Zenon DEF OpToRel
<1>3. ASSUME NEW j \in S PROVE i <= j
    <2>1. /\ i \in Nat /\ j \in Nat
          /\ <<j, i>> \notin {ss \in Nat \X Nat : ss[1] < ss[2]}
        BY <1>1, <1>2
    <2> QED
        BY <2>1
<1> QED
    BY <1>3, Zenon DEF Least

\* ... and no other.
LEMMA LeastIs ==
    ASSUME NEW S, S \subseteq Nat, NEW i \in S, \A j \in S : i <= j
    PROVE  Least(S) = i
<1>1. Least(S) \in S /\ Least(S) <= i
    BY LeastFacts
<1>2. i <= Least(S) /\ i \in Nat /\ Least(S) \in Nat
    BY <1>1
<1> QED
    BY <1>1, <1>2

-----------------------------------------------------------------------------
(* What an int holds.                                                       *)

Multiple(k) == Modulus * k
Congruent(x, y) == \E k \in Int : x = y + Multiple(k)
FitsInt(x) == 0 - Modulus <= 2 * x /\ 2 * x < Modulus

LEMMA Half == Modulus \in Nat /\ Modulus >= 1 /\ 2 * (Modulus \div 2) = Modulus /\ Modulus \div 2 \in Nat
BY ModulusAssumption

LEMMA TimesFacts ==
    ASSUME NEW k \in Int, NEW l \in Int
    PROVE  /\ Multiple(k) \in Int
           /\ Multiple(k + l) = Multiple(k) + Multiple(l)
           /\ Multiple(k - l) = Multiple(k) - Multiple(l)
           /\ Multiple(0) = 0 /\ Multiple(1) = Modulus
           /\ Multiple(k) < Modulus /\ Multiple(k) > 0 - Modulus => k = 0
BY Half DEF Multiple

LEMMA CongruentSums ==
    ASSUME NEW u \in Int, NEW v \in Int, NEW x \in Int, NEW y \in Int,
           Congruent(u, x), Congruent(v, y)
    PROVE  Congruent(u + v, x + y) /\ Congruent(u - v, x - y)
<1>1. PICK k \in Int : u = x + Multiple(k)
    BY DEF Congruent
<1>2. PICK l \in Int : v = y + Multiple(l)
    BY DEF Congruent
<1>3. /\ Multiple(k) \in Int /\ Multiple(l) \in Int
      /\ Multiple(k + l) = Multiple(k) + Multiple(l)
      /\ Multiple(k - l) = Multiple(k) - Multiple(l)
    BY TimesFacts
<1>4. u + v = x + y + Multiple(k + l) /\ k + l \in Int
    BY <1>1, <1>2, <1>3
<1>5. u - v = x - y + Multiple(k - l) /\ k - l \in Int
    BY <1>1, <1>2, <1>3
<1> QED
    BY <1>4, <1>5 DEF Congruent

LEMMA CongruentOverTwo ==
    ASSUME NEW u \in Int, NEW x \in Int, NEW y \in Int, Congruent(u, x), Congruent(x, y)
    PROVE  Congruent(u, y)
<1>1. PICK k \in Int : u = x + Multiple(k)
    BY DEF Congruent
<1>2. PICK l \in Int : x = y + Multiple(l)
    BY DEF Congruent
<1>3. /\ Multiple(k) \in Int /\ Multiple(l) \in Int
      /\ Multiple(k + l) = Multiple(k) + Multiple(l)
    BY TimesFacts
<1>4. u = y + Multiple(k + l) /\ k + l \in Int
    BY <1>1, <1>2, <1>3
<1> QED
    BY <1>4 DEF Congruent

\* Only one of the congruent numbers fits an int.
LEMMA OneFits ==
    ASSUME NEW x \in Int, NEW y \in Int, Congruent(x, y), FitsInt(x), FitsInt(y)
    PROVE  x = y
<1>1. PICK k \in Int : x = y + Multiple(k)
    BY DEF Congruent
<1>2. Multiple(k) \in Int
    BY TimesFacts
<1>3. Multiple(k) < Modulus /\ Multiple(k) > 0 - Modulus
    BY <1>1, <1>2, Half DEF FitsInt
<1>4. k = 0 /\ Multiple(0) = 0
    BY <1>3, TimesFacts
<1> QED
    BY <1>1, <1>4

\* An assignment to an int keeps the number up to multiples of Modulus.
LEMMA AsIntFacts ==
    ASSUME NEW n \in Int
    PROVE  AsInt(n) \in Int /\ Congruent(AsInt(n), n) /\ FitsInt(AsInt(n))
<1> DEFINE q == n \div Modulus
           r == n % Modulus
<1>1. n = Multiple(q) + r /\ r \in 0 .. Modulus - 1 /\ q \in Int
    BY Division, ModulusAssumption DEF Multiple
<1>2. AsInt(n) = IF r < Modulus \div 2 THEN r ELSE r - Modulus
    BY DEF AsInt
<1> HIDE DEF q, r
<1>3. /\ Multiple(q) \in Int /\ Multiple(0 - q) = Multiple(0) - Multiple(q)
      /\ Multiple(0) = 0 /\ Multiple(1) = Modulus /\ 0 - q \in Int
    BY <1>1, TimesFacts
<1>4. Multiple(0 - q - 1) = Multiple(0 - q) - Multiple(1) /\ 0 - q - 1 \in Int
    BY <1>1, <1>3, TimesFacts
<1>5. r = n + Multiple(0 - q)
    BY <1>1, <1>3
<1>6. r - Modulus = n + Multiple(0 - q - 1)
    BY <1>1, <1>3, <1>4, Half
<1>7. CASE r < Modulus \div 2
    <2>1. Congruent(r, n)
        BY <1>3, <1>5 DEF Congruent
    <2> QED
        BY <1>1, <1>2, <1>7, <2>1, Half DEF FitsInt
<1>8. CASE ~ (r < Modulus \div 2)
    <2>1. Congruent(r - Modulus, n)
        BY <1>4, <1>6 DEF Congruent
    <2> QED
        BY <1>1, <1>2, <1>8, <2>1, Half DEF FitsInt
<1> QED
    BY <1>7, <1>8

\* What is assigned to an int is there if it fits.
LEMMA AsIntIs ==
    ASSUME NEW n \in Int, NEW x \in Int, Congruent(n, x), FitsInt(x)
    PROVE  AsInt(n) = x
<1>1. AsInt(n) \in Int /\ Congruent(AsInt(n), n) /\ FitsInt(AsInt(n))
    BY AsIntFacts
<1>2. Congruent(AsInt(n), x)
    BY <1>1, CongruentOverTwo
<1> QED
    BY <1>1, <1>2, OneFits

\* The sum of two counters is kept up to multiples of Modulus although both and
\* the sum may be too large.
LEMMA SumFacts ==
    ASSUME NEW a \in Int, NEW b \in Int
    PROVE  AsInt(AsInt(a) + AsInt(b)) \in Int /\ Congruent(AsInt(AsInt(a) + AsInt(b)), a + b)
<1>1. /\ AsInt(a) \in Int /\ AsInt(b) \in Int
      /\ Congruent(AsInt(a), a) /\ Congruent(AsInt(b), b)
    BY AsIntFacts
<1>2. AsInt(a) + AsInt(b) \in Int
    BY <1>1
<1>3. Congruent(AsInt(a) + AsInt(b), a + b)
    BY <1>1, CongruentSums, Zenon
<1>4. a + b \in Int
    OBVIOUS
<1> QED
    BY <1>2, <1>3, <1>4, AsIntFacts, CongruentOverTwo

\* A difference of two readings is right although both are cut off.
LEMMA RateFacts ==
    ASSUME NEW u \in Int, NEW v \in Int, NEW x \in Int, NEW y \in Int,
           Congruent(u, x), Congruent(v, y), FitsInt(y - x)
    PROVE  AsInt(v - u) = y - x
<1>1. Congruent(v - u, y - x)
    BY CongruentSums, Zenon
<1>2. v - u \in Int /\ y - x \in Int
    OBVIOUS
<1> QED
    BY <1>1, <1>2, AsIntIs

\* Two readings of CLinuxSysinfo and what was counted in between.
Readings ==
    /\ rates \in [first : (0 .. MaxCount) \X (0 .. MaxCount), second : Counters]
    /\ \E d, e \in 0 .. MaxStep : rates.second = <<rates.first[1] + d, rates.first[2] + e>>

LEMMA RatesFacts == Readings => RatesSurviveOverflow
<1> SUFFICES ASSUME Readings PROVE RatesSurviveOverflow
    OBVIOUS
<1>1. PICK d \in 0 .. MaxStep, e \in 0 .. MaxStep :
        rates.second = <<rates.first[1] + d, rates.first[2] + e>>
    BY DEF Readings
<1> DEFINE a == rates.first[1]
           b == rates.first[2]
           c == rates.second[1]
           f == rates.second[2]
           first == rates.first
           second == rates.second
<1>2. /\ a \in Int /\ b \in Int /\ d \in Int /\ e \in Int
      /\ c = a + d /\ f = b + e /\ c \in Int /\ f \in Int
    BY <1>1, MonitorsAssumption DEF Readings
<1>3. FitsInt(d) /\ FitsInt(e) /\ FitsInt(d + e)
    <2>1. 0 <= d /\ 0 <= e /\ d <= MaxStep /\ e <= MaxStep /\ MaxStep \in Nat
          /\ 2 * MaxStep < Modulus \div 2
        BY MonitorsAssumption
    <2> QED
        BY <1>2, <2>1, Half DEF FitsInt
<1>h. first[1] = a /\ first[2] = b /\ second[1] = c /\ second[2] = f
    OBVIOUS
<1> HIDE DEF a, b, c, f
<1>r. c - a = d /\ f - b = e /\ (c + f) - (a + b) = d + e
    BY <1>2
<1>4. DiskRate(first, second) = d + e
    <2>1. /\ get_disk_io(first) \in Int /\ Congruent(get_disk_io(first), a + b)
          /\ get_disk_io(second) \in Int /\ Congruent(get_disk_io(second), c + f)
        <3>1. /\ get_disk_io(first) = AsInt(AsInt(a) + AsInt(b))
              /\ get_disk_io(second) = AsInt(AsInt(c) + AsInt(f))
            BY <1>h DEF get_disk_io
        <3> QED
            BY <1>2, <3>1, SumFacts, Zenon
    <2>2. c + f \in Int /\ a + b \in Int /\ FitsInt((c + f) - (a + b))
        BY <1>2, <1>r, <1>3
    <2> DEFINE u == get_disk_io(first)
               v == get_disk_io(second)
               x == a + b
               y == c + f
    <2>3. DiskRate(first, second) = AsInt(v - u) /\ y - x = d + e
        BY <1>r DEF DiskRate
    <2>4. /\ u \in Int /\ v \in Int /\ x \in Int /\ y \in Int
          /\ Congruent(u, x) /\ Congruent(v, y) /\ FitsInt(y - x)
        BY <2>1, <2>2
    <2> HIDE DEF u, v, x, y
    <2>5. AsInt(v - u) = y - x
        BY <2>4, RateFacts
    <2> QED
        BY <2>3, <2>5
<1>5. CpuRate(first, second) = [busy |-> e, all |-> d + e]
    <2> DEFINE all == AsInt(get_cpu_time(second).all_time - get_cpu_time(first).all_time)
               idle == AsInt(get_cpu_time(second).idle_time - get_cpu_time(first).idle_time)
    <2>1. all = d + e
        <3>1. /\ get_cpu_time(first).all_time \in Int
              /\ Congruent(get_cpu_time(first).all_time, a + b)
              /\ get_cpu_time(second).all_time \in Int
              /\ Congruent(get_cpu_time(second).all_time, c + f)
            <4>1. /\ get_cpu_time(first).all_time = AsInt(AsInt(a) + AsInt(b))
                  /\ get_cpu_time(second).all_time = AsInt(AsInt(c) + AsInt(f))
                BY <1>h DEF get_cpu_time
            <4> QED
                BY <1>2, <4>1, SumFacts, Zenon
        <3>2. c + f \in Int /\ a + b \in Int /\ FitsInt((c + f) - (a + b))
            BY <1>2, <1>r, <1>3
        <3> DEFINE u == get_cpu_time(first).all_time
                   v == get_cpu_time(second).all_time
                   x == a + b
                   y == c + f
        <3>3. all = AsInt(v - u) /\ y - x = d + e
            BY <1>r
        <3>4. /\ u \in Int /\ v \in Int /\ x \in Int /\ y \in Int
              /\ Congruent(u, x) /\ Congruent(v, y) /\ FitsInt(y - x)
            BY <3>1, <3>2
        <3> HIDE DEF u, v, x, y, all
        <3>5. AsInt(v - u) = y - x
            BY <3>4, RateFacts
        <3> QED
            BY <3>3, <3>5
    <2>2. idle = d
        <3>1. /\ get_cpu_time(first).idle_time \in Int
              /\ Congruent(get_cpu_time(first).idle_time, a)
              /\ get_cpu_time(second).idle_time \in Int
              /\ Congruent(get_cpu_time(second).idle_time, c)
            BY <1>2, <1>h, AsIntFacts DEF get_cpu_time
        <3>2. FitsInt(c - a)
            BY <1>r, <1>3
        <3> DEFINE u == get_cpu_time(first).idle_time
                   v == get_cpu_time(second).idle_time
        <3>3. idle = AsInt(v - u) /\ u \in Int /\ v \in Int /\ Congruent(u, a) /\ Congruent(v, c)
            BY <3>1
        <3> HIDE DEF u, v, idle
        <3>4. AsInt(v - u) = c - a
            BY <1>2, <3>2, <3>3, RateFacts
        <3> QED
            BY <1>r, <3>3, <3>4
    <2>3. CpuRate(first, second) = [busy |-> AsInt(all - idle), all |-> all]
        BY DEF CpuRate
    <2> HIDE DEF all, idle
    <2>4. AsInt(all - idle) = e
        <3>1. all - idle = e
            BY <1>2, <2>1, <2>2
        <3>2. Congruent(e, e)
            BY <1>2, TimesFacts DEF Congruent
        <3> QED
            BY <1>2, <1>3, <3>1, <3>2, AsIntIs
    <2> QED
        BY <2>1, <2>3, <2>4
<1>6. NetworkRate(first, second)
        = d + e - Modulus * ((c \div Modulus - a \div Modulus)
                              + (f \div Modulus - b \div Modulus))
    <2>1. ASSUME NEW n \in Int
          PROVE  AsLowerHalf(n) = n - Multiple(n \div Modulus) /\ n \div Modulus \in Int
        BY Division, ModulusAssumption DEF AsLowerHalf, Multiple
    <2> DEFINE p == a \div Modulus
               q == b \div Modulus
               s == c \div Modulus
               t == f \div Modulus
    <2>2. /\ p \in Int /\ q \in Int /\ s \in Int /\ t \in Int
          /\ AsLowerHalf(a) = a - Multiple(p) /\ AsLowerHalf(b) = b - Multiple(q)
          /\ AsLowerHalf(c) = c - Multiple(s) /\ AsLowerHalf(f) = f - Multiple(t)
        <3>1. AsLowerHalf(a) = a - Multiple(p) /\ p \in Int
            BY <1>2, <2>1
        <3>2. AsLowerHalf(b) = b - Multiple(q) /\ q \in Int
            BY <1>2, <2>1
        <3>3. AsLowerHalf(c) = c - Multiple(s) /\ s \in Int
            BY <1>2, <2>1
        <3>4. AsLowerHalf(f) = f - Multiple(t) /\ t \in Int
            BY <1>2, <2>1
        <3> QED
            BY <3>1, <3>2, <3>3, <3>4
    <2>3. NetworkRate(first, second)
            = (AsLowerHalf(c) + AsLowerHalf(f)) - (AsLowerHalf(a) + AsLowerHalf(b))
        BY <1>h DEF NetworkRate, get_network_transfers
    <2> HIDE DEF p, q, s, t
    <2>4. /\ Multiple(p) \in Int /\ Multiple(q) \in Int /\ Multiple(s) \in Int /\ Multiple(t) \in Int
          /\ Multiple(s - p) = Multiple(s) - Multiple(p)
          /\ Multiple(t - q) = Multiple(t) - Multiple(q)
        BY <2>2, TimesFacts
    <2>5. Multiple((s - p) + (t - q)) = Multiple(s - p) + Multiple(t - q)
        BY <2>2, TimesFacts
    <2>6. NetworkRate(first, second) = d + e - Multiple((s - p) + (t - q))
        BY <1>2, <2>2, <2>3, <2>4, <2>5
    <2> QED
        BY <2>6 DEF Multiple, p, q, s, t
<1> QED
    BY <1>2, <1>r, <1>h, <1>4, <1>5, <1>6 DEF RatesSurviveOverflow

-----------------------------------------------------------------------------
(* The invariant.  A slot's monitor has the slot's configured type, and that *)
(* type's section was loaded before the first monitor was built; the buffer  *)
(* always ends in a NUL, so that an answer has an end; a program this snap-  *)
(* shot found has a pid in the map until its row is written.                 *)

Settings ==
    [port : Nat, object_type : [Slots -> Nat], num : [Sectioned -> Nat],
     entry : [Sectioned -> Seq(Values)], loaded : SUBSET Sectioned]
LoadPoints == [step : {"service", "type", "num", "entry", "done"}, i : 0 .. OBJECT_NUM, j : Nat]
WritePoints ==
    [pc : {"build", "rest", "slot", "netstat", "delete", "gone", "twice"},
     i : 0 .. OBJECT_NUM, seen : SUBSET Names, count : Nat]
RowsOfASlot == Seq([name : Values, tcpnum : 0 .. MaxConns, status : 0 .. 1])

Buffered ==
    /\ text \in [lines : Seq(Lines), crlf : BOOLEAN, win32 : BOOLEAN]
    /\ tmpstr \in [Bytes -> {TITLE, NUL} \union 1 .. Len(text.lines)]
    /\ tmpstr[BufSize - 1] = NUL

Room(t) == config.num[t] * Len(Sections[t].keys)
HasLoaded(n) ==
    \A k \in 0 .. n - 1 : config.object_type[k] \in Sectioned => config.object_type[k] \in config.loaded

Loading ==
    /\ config \in Settings /\ load \in LoadPoints /\ process \in {"up", "overrun"}
    /\ \A t \in Sectioned : Len(config.entry[t]) <= Room(t)
    /\ load.step \in {"service", "type"} => load.i < OBJECT_NUM
    /\ load.step \in {"num", "entry"} => HasLoaded(load.i)
    /\ load.step = "entry" => /\ load.i < OBJECT_NUM /\ Slot \in config.loaded
                              /\ Len(config.entry[Slot]) = load.j
    /\ load.step = "done" => HasLoaded(OBJECT_NUM)

Building ==
    /\ slots \in [Slots -> 0 .. 9] /\ writing \in WritePoints
    /\ load.step # "done" => writing = Idle
    /\ writing.pc \in {"slot", "netstat"} => writing.i < OBJECT_NUM
    /\ \A i \in Slots : slots[i] # NULL => load.step = "done" /\ slots[i] = config.object_type[i]

Sampling ==
    /\ running \in [Pids -> Names \union {None}]
    /\ m_map_process_name_pid \in [Names -> Seq(Pids)]
    /\ rows \in [Slots -> RowsOfASlot]
    /\ writing.pc = "netstat" =>
         \A k \in 1 .. Len(process_name) :
            process_name[k] \in writing.seen => m_map_process_name_pid[process_name[k]] # <<>>

Answered == FindsOwnKey /\ AnswerIsValue

MonInv == Buffered /\ Loading /\ Answered /\ Building /\ Sampling /\ Readings

-----------------------------------------------------------------------------
(* A lookup.                                                                *)

LEMMA SectionFacts ==
    ASSUME NEW t \in Sectioned
    PROVE  /\ Sections[t].title \in Titles /\ Sections[t].from \in Titles
           /\ Len(Sections[t].keys) \in {1, 4}
BY DEF Sectioned, Sections, Titles

LEMMA NamesDiffer == None \notin Titles /\ 0 \notin Sectioned /\ NULL = 0
BY DEF None, Titles, Sectioned, Sections, NULL

LEMMA LineFacts ==
    ASSUME Buffered, NEW i \in 1 .. Len(text.lines)
    PROVE  /\ Line(i) \in Lines /\ Line(i).len \in Nat /\ Line(i).len < BufSize - 1
           /\ Line(i).int \in Nat /\ Line(i).value \in Values
<1>1. Line(i) \in Lines
    BY DEF Buffered, Line
<1> QED
    BY <1>1, ConfigAssumption DEF Values

LEMMA FoundFacts ==
    ASSUME Buffered, NEW title, NEW wanted, Found(title, wanted) # {}
    PROVE  /\ Least(Found(title, wanted)) \in Found(title, wanted)
           /\ Least(Found(title, wanted)) \in 1 .. Len(text.lines)
           /\ \A j \in Found(title, wanted) : Least(Found(title, wanted)) <= j
<1>1. Len(text.lines) \in Nat
    BY DEF Buffered
<1>2. Found(title, wanted) \subseteq 1 .. Len(text.lines)
    BY DEF Found
<1>3. Found(title, wanted) \subseteq Nat
    BY <1>1, <1>2
<1> QED
    BY <1>2, <1>3, LeastFacts

LEMMA SizeFacts == BufSize \in Nat \ {0} /\ BufSize - 1 \in Bytes /\ Bytes \subseteq Nat
                   /\ \A t \in Titles : TitleLen[t] \in Bytes
BY ConfigAssumption DEF Bytes

LEMMA HeadedFacts ==
    ASSUME Buffered, NEW title \in Titles
    PROVE  /\ Headed(title) \in [Bytes -> {TITLE, NUL} \union 1 .. Len(text.lines)]
           /\ Headed(title)[BufSize - 1] = NUL
           /\ text.lines # <<>> => /\ Headed(title)[TitleLen[title]] = NUL
                                   /\ \A p \in Bytes : p < TitleLen[title] => Headed(title)[p] = TITLE
<1>1. TitleLen[title] \in Nat /\ TitleLen[title] \in Bytes /\ BufSize - 1 \in Bytes
      /\ TitleLen[title] <= BufSize - 1 /\ Bytes \subseteq Nat /\ BufSize \in Nat
    BY SizeFacts DEF Bytes
<1>2. CASE text.lines = <<>>
    BY <1>2 DEF Headed, Buffered
<1>3. CASE text.lines # <<>>
    <2> DEFINE H == [p \in Bytes |-> IF p < TitleLen[title] THEN TITLE
                                     ELSE IF p = TitleLen[title] THEN NUL ELSE tmpstr[p]]
    <2>1. Headed(title) = H
        BY <1>3 DEF Headed
    <2>2. \A p \in Bytes : H[p] \in {TITLE, NUL} \union 1 .. Len(text.lines)
        BY DEF Buffered
    <2>3. H \in [Bytes -> {TITLE, NUL} \union 1 .. Len(text.lines)]
        BY <2>2
    <2>4. H[BufSize - 1] = NUL
        BY <1>1 DEF Buffered
    <2>5. H[TitleLen[title]] = NUL /\ \A p \in Bytes : p < TitleLen[title] => H[p] = TITLE
        BY <1>1
    <2> HIDE DEF H
    <2> QED
        BY <2>1, <2>3, <2>4, <2>5
<1> QED
    BY <1>2, <1>3

LEMMA CopiedFacts ==
    ASSUME Buffered, NEW title \in Titles, NEW i \in 1 .. Len(text.lines)
    PROVE  /\ Copied(title, i) \in [Bytes -> {TITLE, NUL} \union 1 .. Len(text.lines)]
           /\ Copied(title, i)[BufSize - 1] = NUL
<1>1. /\ Line(i).len \in Nat /\ Line(i).len < BufSize - 1
      /\ BufSize - 1 \in Bytes /\ Bytes \subseteq Nat /\ BufSize \in Nat
    BY LineFacts, SizeFacts
<1>2. /\ Headed(title) \in [Bytes -> {TITLE, NUL} \union 1 .. Len(text.lines)]
      /\ Headed(title)[BufSize - 1] = NUL
    BY HeadedFacts
<1>3. Taken(i) \in Int /\ Taken(i) <= Line(i).len
    BY <1>1 DEF Taken
<1>4. \A p \in Bytes : Copied(title, i)[p] \in {TITLE, NUL} \union 1 .. Len(text.lines)
    BY <1>2 DEF Copied
<1>5. Copied(title, i)[BufSize - 1] = NUL
    BY <1>1, <1>2, <1>3 DEF Copied
<1>6. Copied(title, i) = [p \in Bytes |-> Copied(title, i)[p]]
    BY DEF Copied
<1> HIDE DEF Copied
<1> QED
    BY <1>4, <1>5, <1>6

\* An answer goes to the first NUL of the buffer.
LEMMA StringFacts ==
    ASSUME NEW buf, buf[BufSize - 1] = NUL
    PROVE  \E end \in Bytes :
             /\ buf[end] = NUL /\ \A q \in Bytes : q < end => buf[q] # NUL
             /\ StringIn(buf) = [p \in 1 .. end |-> buf[p - 1]]
             /\ Len(StringIn(buf)) = end
<1> DEFINE ends == {p \in Bytes : buf[p] = NUL}
           end == Least(ends)
<1>1. ends \subseteq Nat /\ ends # {}
    BY SizeFacts
<1>2. end \in ends /\ \A j \in ends : end <= j
    BY <1>1, LeastFacts
<1>3. StringIn(buf) = [p \in 1 .. end |-> buf[p - 1]]
    BY DEF StringIn
<1>4. end \in Bytes /\ end \in Nat /\ buf[end] = NUL
    BY <1>2, SizeFacts
<1>5. \A q \in Bytes : q < end => buf[q] # NUL
    BY <1>2, <1>4, SizeFacts
<1> HIDE DEF end
<1>6. Len(StringIn(buf)) = end
    BY <1>3, <1>4
<1> QED
    BY <1>3, <1>4, <1>5, <1>6

\* The key asked for is not missed, and nothing before it is taken for it.
LEMMA LookupFindsOwnKey ==
    ASSUME Buffered, NEW title \in Titles, NEW wanted, Looks(title, wanted), UNCHANGED text
    PROVE  FindsOwnKey'
<1> DEFINE lines == 1 .. Len(text.lines)
           Own == {i \in lines : InOwnSection(title, i) /\ ~ Line(i).comment /\ Line(i).key = wanted}
           S == Found(title, wanted)
<1>1. text' = text /\ got'.title = title /\ got'.key = wanted
      /\ got'.line = GetIniKeyString(title, wanted).line
    BY DEF Looks
<1>2. SUFFICES ASSUME Own # {}, OneHeader(title),
                      \A i \in lines : i < Least(Own) /\ InOwnSection(title, i)
                                         => ~ HasKey(Line(i).key, wanted) \/ Line(i).comment
               PROVE  GetIniKeyString(title, wanted).line = Least(Own)
    <2>1. ASSUME NEW i PROVE Line(i)' = Line(i)
        BY <1>1 DEF Line
    <2>2. ASSUME NEW i PROVE InOwnSection(got.title, i)' <=> InOwnSection(title, i)
        BY <1>1 DEF InOwnSection, Line
    <2>3. OneHeader(got.title)' <=> OneHeader(title)
        BY <1>1 DEF OneHeader, Line
    <2>4. ASSUME NEW i PROVE HasKey(Line(i).key, got.key)' <=> HasKey(Line(i).key, wanted)
        BY <1>1 DEF HasKey, NameIn, DigitsBegin, Line
    <2>5. {i \in 1 .. Len(text.lines) :
             InOwnSection(got.title, i) /\ ~ Line(i).comment /\ Line(i).key = got.key}' = Own
        BY <1>1, <2>1, <2>2
    <2> HIDE DEF Own
    <2> QED
        BY <1>1, <2>1, <2>2, <2>3, <2>4, <2>5 DEF FindsOwnKey
<1>3. Len(text.lines) \in Nat
    BY DEF Buffered
<1>4. Own \subseteq Nat /\ Own \subseteq lines
    BY <1>3
<1>5. Least(Own) \in Own /\ \A j \in Own : Least(Own) <= j
    BY <1>2, <1>4, LeastFacts
<1>6. ASSUME NEW i \in Own PROVE i \in S
    <2>1. PICK j \in 1 .. i - 1 : Line(j).title = title /\ \A k \in j + 1 .. i : Line(k).title = None
        BY DEF InOwnSection
    <2>2. i \in Nat /\ j \in Nat /\ i \in j + 1 .. i
        BY <1>4, <2>1
    <2>3. Line(i).title = None /\ InSection(title, i)
        BY <2>1, <2>2 DEF InSection
    <2>4. HasKey(Line(i).key, wanted)
        BY DEF HasKey, NameIn, DigitsBegin
    <2> QED
        BY <2>3, <2>4 DEF Found, Matches
<1> DEFINE l == Least(Own)
<1>7. l \in Nat /\ l \in lines /\ l \in S /\ l \in Own
    BY <1>4, <1>5, <1>6
<1>8. ASSUME NEW m \in S PROVE l <= m
    <2>1. m \in lines /\ m \in Nat /\ Matches(title, wanted, m)
        BY <1>3 DEF Found
    <2> SUFFICES ASSUME m < l PROVE FALSE
        BY <1>7, <2>1
    <2>2. PICK j \in 1 .. m - 1 : Line(j).title = title
        BY <2>1 DEF Matches, InSection
    <2>3. PICK j2 \in 1 .. l - 1 : Line(j2).title = title /\ \A k \in j2 + 1 .. l : Line(k).title = None
        BY <1>7 DEF InOwnSection
    <2>4. j \in lines /\ j2 \in lines
        BY <1>3, <1>7, <2>1, <2>2, <2>3
    <2>5. j = j2
        BY <1>2, <2>2, <2>3, <2>4 DEF OneHeader
    <2>6. \A k \in j + 1 .. m : Line(k).title = None
        <3>1. \A k \in j + 1 .. m : k \in j2 + 1 .. l
            BY <1>7, <2>1, <2>5
        <3> QED
            BY <2>3, <3>1
    <2>7. InOwnSection(title, m)
        BY <2>2, <2>6 DEF InOwnSection
    <2>8. HasKey(Line(m).key, wanted) /\ ~ Line(m).comment
        BY <2>1 DEF Matches
    <2> QED
        BY <1>2, <2>1, <2>7, <2>8
<1> HIDE DEF Own, l
<1>9. S \subseteq Nat /\ S # {}
    BY <1>3, <1>7 DEF Found
<1>10. Least(S) = l
    BY <1>7, <1>8, <1>9, LeastIs
<1> QED
    BY <1>9, <1>10 DEF GetIniKeyString, l

LEMMA LookupAnswersValue ==
    ASSUME Buffered, NEW title \in Titles, NEW wanted, Looks(title, wanted), UNCHANGED text
    PROVE  AnswerIsValue'
<1> DEFINE S == Found(title, wanted)
           i == Least(S)
           buf == Copied(title, i)
           len == Line(i).len
           T == TitleLen[title]
<1>1. text' = text /\ got'.title = title
      /\ got'.line = GetIniKeyString(title, wanted).line
      /\ got'.bytes = GetIniKeyString(title, wanted).bytes
    BY DEF Looks
<1>2. CASE S = {}
    BY <1>1, <1>2 DEF AnswerIsValue, GetIniKeyString
<1>3. CASE S # {}
    <2>1. i \in 1 .. Len(text.lines) /\ Len(text.lines) \in Nat /\ i \in Nat /\ i >= 1
        BY <1>3, FoundFacts DEF Buffered
    <2>2. got'.line = i /\ got'.bytes = StringIn(buf)
        BY <1>1, <1>3 DEF GetIniKeyString
    <2>3. /\ len \in Nat /\ len < BufSize - 1 /\ BufSize \in Nat
          /\ T \in Nat /\ T \in Bytes /\ Bytes \subseteq Nat /\ len \in Bytes
        BY <2>1, LineFacts, SizeFacts DEF Bytes
    <2>4. buf[BufSize - 1] = NUL
        BY <2>1, CopiedFacts
    <2>5. /\ Headed(title)[T] = NUL
          /\ \A p \in Bytes : p < T => Headed(title)[p] = TITLE
        <3>1. text.lines # <<>>
            BY <2>1
        <3> QED
            BY <3>1, HeadedFacts
    <2>6. \A p \in Bytes :
            buf[p] = IF text.win32 THEN IF p < len THEN i ELSE IF p = len THEN NUL ELSE Headed(title)[p]
                     ELSE IF p < Taken(i) THEN i ELSE Headed(title)[p]
        BY DEF Copied
    <2>7. Taken(i) = IF text.crlf THEN len ELSE len - 1
        BY DEF Taken
    <2> HIDE DEF i, buf, len, T
    <2>8. PICK end \in Bytes :
             /\ buf[end] = NUL /\ \A q \in Bytes : q < end => buf[q] # NUL
             /\ StringIn(buf) = [p \in 1 .. end |-> buf[p - 1]]
             /\ Len(StringIn(buf)) = end
        BY <2>4, StringFacts
    <2>9. end \in Nat /\ \A p \in 1 .. end : p - 1 \in Bytes /\ p - 1 < end
        BY <2>3, <2>8 DEF Bytes
    <2> DEFINE bytes == StringIn(buf)
               own == [p \in 1 .. len |-> i]
    <2>10. i # NUL
        BY <2>1 DEF NUL
    <2>11. text.win32 => end = len
        <3>1. text.win32 => end <= len
            BY <2>3, <2>6, <2>8, <2>9
        <3>2. text.win32 => ~ (end < len)
            BY <2>3, <2>6, <2>8, <2>9, <2>10
        <3> QED
            BY <2>3, <2>9, <3>1, <3>2
    <2>12. text.win32 => bytes = own
        <3>1. text.win32 => \A p \in 1 .. end : buf[p - 1] = i
            BY <2>3, <2>6, <2>9, <2>11
        <3> QED
            BY <2>8, <2>11, <3>1
    <2>13. text.crlf => end >= len /\ \A p \in 1 .. len : bytes[p] = i
        <3> SUFFICES ASSUME text.crlf PROVE end >= len /\ \A p \in 1 .. len : bytes[p] = i
            OBVIOUS
        <3>1. \A p \in Bytes : p < len => buf[p] = i
            BY <2>6, <2>7
        <3>2. end >= len
            BY <2>3, <2>8, <2>9, <2>10, <3>1
        <3>3. \A p \in 1 .. len : p - 1 \in Bytes /\ p - 1 < len /\ p \in 1 .. end
            BY <2>3, <2>9, <3>2 DEF Bytes
        <3>4. \A p \in 1 .. len : bytes[p] = buf[p - 1]
            BY <2>8, <3>3
        <3> QED
            BY <3>1, <3>2, <3>3, <3>4
    <2>14. text.crlf => SubSeq(bytes, 1, len) = own
        <3> SUFFICES ASSUME text.crlf PROVE SubSeq(bytes, 1, len) = own
            OBVIOUS
        <3>1. buf \in [Bytes -> Int]
            <4>1. buf \in [Bytes -> {TITLE, NUL} \union 1 .. Len(text.lines)]
                BY <2>1, CopiedFacts DEF buf, i
            <4>2. {TITLE, NUL} \union 1 .. Len(text.lines) \subseteq Int
                BY <2>1 DEF TITLE, NUL
            <4> QED
                BY <4>1, <4>2
        <3>2. bytes \in [1 .. end -> Int]
            <4>1. \A p \in 1 .. end : buf[p - 1] \in Int
                BY <2>9, <3>1
            <4> QED
                BY <2>8, <4>1
        <3>3. bytes \in Seq(Int) /\ Len(bytes) = end
            BY <2>8, <2>9, <3>2
        <3> HIDE DEF bytes
        <3>4. /\ SubSeq(bytes, 1, len) \in Seq(Int) /\ Len(SubSeq(bytes, 1, len)) = len
              /\ \A p \in 1 .. len : SubSeq(bytes, 1, len)[p] = bytes[p]
            BY <2>3, <2>9, <2>13, <3>3
        <3>5. /\ own \in Seq(Int) /\ Len(own) = len /\ \A p \in 1 .. len : own[p] = i
            BY <2>1, <2>3
        <3> HIDE DEF own
        <3> QED
            BY <2>13, <3>4, <3>5
    <2>15. ASSUME NEW p \in 1 .. end, bytes[p] \notin {i, TITLE} PROVE len > T
        <3> DEFINE q == p - 1
        <3>1. q \in Bytes /\ q \in Nat /\ q < end /\ buf[q] # NUL /\ buf[q] \notin {i, TITLE}
            BY <2>3, <2>8, <2>9, <2>15
        <3>2. ~ text.win32
            BY <2>3, <2>6, <2>11, <3>1
        <3>3. Taken(i) \in Int /\ Taken(i) <= len
            BY <2>3, <2>7
        <3> HIDE DEF q
        <3>4. buf[q] = Headed(title)[q] /\ ~ (q < Taken(i))
            BY <2>6, <3>1, <3>2
        <3>5. q > T
            <4>1. q # T /\ ~ (q < T)
                BY <2>5, <3>1, <3>4
            <4> QED
                BY <2>3, <3>1, <4>1
        <3>6. buf[T] # NUL
            BY <2>3, <2>8, <2>9, <3>1, <3>5
        <3>7. T < Taken(i)
            BY <2>3, <2>5, <2>6, <3>2, <3>6
        <3> QED
            BY <2>3, <3>3, <3>7
    <2>16. text.lines'[i] = Line(i) /\ text.win32' = text.win32 /\ text.crlf' = text.crlf
        BY <1>1 DEF Line
    <2> QED
        <3>1. got'.bytes = bytes /\ Len(bytes) = end /\ got'.line = i /\ got'.title = title
            BY <1>1, <2>2, <2>8
        <3>2. Line(got.line)' = Line(i)
            BY <2>16, <3>1 DEF Line
        <3> HIDE DEF bytes, own
        <3> SUFFICES /\ text.win32 => bytes = own
                     /\ text.crlf => Len(bytes) >= len /\ SubSeq(bytes, 1, len) = own
                     /\ (\E p \in 1 .. Len(bytes) : bytes[p] \notin {i, TITLE}) => len > T
            BY <2>16, <3>1, <3>2 DEF AnswerIsValue, T, len, own
        <3> QED
            BY <2>12, <2>13, <2>14, <2>15, <3>1
<1> QED
    BY <1>2, <1>3

LEMMA AnswerTypes ==
    ASSUME Buffered, NEW title \in Titles, NEW wanted
    PROVE  GetIniKeyInt(title, wanted) \in Nat /\ Entry(GetIniKeyString(title, wanted)) \in Values
<1> DEFINE r == GetIniKeyString(title, wanted)
<1>1. r.line = 0 \/ r.line \in 1 .. Len(text.lines)
    BY FoundFacts DEF GetIniKeyString
<1> HIDE DEF r
<1>2. CASE r.line = 0
    <2>1. "" \in Values
        BY DEF Values
    <2>2. Entry(r) \in Values
        BY <1>2, <2>1 DEF Entry
    <2>3. GetIniKeyInt(title, wanted) \in Nat
        BY <1>2 DEF GetIniKeyInt, r
    <2> QED
        BY <2>2, <2>3 DEF r
<1>3. CASE r.line # 0
    <2>1. Line(r.line).int \in Nat /\ Line(r.line).value \in Values
        BY <1>1, <1>3, LineFacts
    <2>2. "garbled" \in Values
        BY DEF Values
    <2>3. Line(r.line).int \div 10 \in Nat
        BY <2>1
    <2>4. Entry(r) \in Values
        BY <1>3, <2>1, <2>2 DEF Entry
    <2>5. GetIniKeyInt(title, wanted) \in Nat
        BY <1>3, <2>1, <2>3 DEF GetIniKeyInt, r
    <2> QED
        BY <2>4, <2>5 DEF r
<1> QED
    BY <1>2, <1>3

\* What every lookup of LoadConfig keeps.
LEMMA LookupKeeps ==
    ASSUME Buffered, NEW title \in Titles, NEW wanted, Looks(title, wanted), UNCHANGED text
    PROVE  Buffered' /\ Answered'
<1> DEFINE r == GetIniKeyString(title, wanted)
<1>1. tmpstr' = r.buf
    BY DEF Looks
<1>2. /\ r.buf \in [Bytes -> {TITLE, NUL} \union 1 .. Len(text.lines)]
      /\ r.buf[BufSize - 1] = NUL
    <2>1. CASE Found(title, wanted) = {}
        BY <2>1, HeadedFacts DEF GetIniKeyString
    <2>2. CASE Found(title, wanted) # {}
        <3> DEFINE i == Least(Found(title, wanted))
        <3>1. i \in 1 .. Len(text.lines)
            BY <2>2, FoundFacts
        <3>2. r.buf = Copied(title, i)
            BY <2>2 DEF GetIniKeyString
        <3> HIDE DEF i, r
        <3> QED
            BY <3>1, <3>2, CopiedFacts
    <2> QED
        BY <2>1, <2>2
<1> HIDE DEF r
<1>3. Buffered'
    BY <1>1, <1>2 DEF Buffered
<1>4. Answered'
    BY LookupFindsOwnKey, LookupAnswersValue DEF Answered
<1> QED
    BY <1>3, <1>4

LEMMA SlotFacts ==
    ASSUME Loading
    PROVE  /\ load.i < OBJECT_NUM => load.i \in Slots /\ Slot \in Nat
           /\ load.step = "entry" => Slot \in Sectioned /\ load.i \in Slots
<1>1. load.i \in 0 .. OBJECT_NUM /\ OBJECT_NUM \in Nat
    BY ConfigAssumption DEF Loading, LoadPoints
<1>2. load.i < OBJECT_NUM => load.i \in Slots
    BY <1>1 DEF Slots
<1>3. config.object_type \in [Slots -> Nat] /\ config.loaded \subseteq Sectioned
    BY DEF Loading, Settings
<1> QED
    BY <1>2, <1>3 DEF Loading, Slot

LEMMA TitleFacts ==
    ASSUME Loading, Looking
    PROVE  /\ Title \in Titles
           /\ load.step \in {"num", "entry"} => Slot \in Sectioned
<1>1. load.step \in {"num", "entry"} => Slot \in Sectioned
    <2>1. load.step = "num" => Slot \in Sectioned
        BY DEF Looking
    <2> QED
        BY <2>1, SlotFacts
<1>2. load.step \in {"num", "entry"} => Section.title \in Titles /\ Section.from \in Titles
    BY <1>1, SectionFacts DEF Section
<1>3. "service" \in Titles /\ "monitortype" \in Titles
    BY DEF Titles
<1>4. load.step \in {"service", "type", "num", "entry"}
    BY DEF Looking
<1> QED
    BY <1>1, <1>2, <1>3, <1>4 DEF Title

-----------------------------------------------------------------------------
(* LoadConfig.                                                              *)

LEMMA ReadServiceKeeps ==
    ASSUME Buffered, Loading, ReadService PROVE Buffered' /\ Loading' /\ Answered'
<1>1. Title \in Titles /\ Looks(Title, Wanted) /\ text' = text
    BY TitleFacts DEF ReadService, Lookup
<1>2. Buffered' /\ Answered'
    BY <1>1, LookupKeeps, Zenon
<1>3. GetIniKeyInt(Title, Wanted) \in Nat
    BY <1>1, AnswerTypes, Zenon
<1> DEFINE n == GetIniKeyInt(Title, Wanted)
<1>4. config' = [config EXCEPT !.port = n] /\ load' = [load EXCEPT !.step = "type"] /\ process' = process
      /\ load.step = "service"
    BY DEF ReadService, At
<1> HIDE DEF n
<1>5. config' \in Settings /\ config'.entry = config.entry /\ config'.num = config.num
    BY <1>3, <1>4 DEF Loading, Settings, n
<1>6. load' \in LoadPoints /\ load'.step = "type" /\ load'.i = load.i
    BY <1>4 DEF Loading, LoadPoints
<1> QED
    BY <1>2, <1>4, <1>5, <1>6 DEF Loading, Room

LEMMA ReadTypeKeeps ==
    ASSUME Buffered, Loading, ReadType PROVE Buffered' /\ Loading' /\ Answered'
<1>1. Title \in Titles /\ Looks(Title, Wanted) /\ text' = text
    BY TitleFacts DEF ReadType, Lookup
<1>2. Buffered' /\ Answered'
    BY <1>1, LookupKeeps, Zenon
<1>3. GetIniKeyInt(Title, Wanted) \in Nat
    BY <1>1, AnswerTypes, Zenon
<1> DEFINE n == GetIniKeyInt(Title, Wanted)
<1>4. /\ config' = [config EXCEPT !.object_type[load.i] = n]
      /\ load' = IF load.i + 1 < OBJECT_NUM THEN [load EXCEPT !.i = @ + 1]
                 ELSE [load EXCEPT !.step = "num", !.i = 0]
      /\ process' = process /\ load.step = "type"
    BY DEF ReadType, At
<1> HIDE DEF n
<1>5. config' \in Settings /\ config'.entry = config.entry /\ config'.num = config.num
    <2>1. load.i \in Slots
        BY <1>4, SlotFacts DEF Loading
    <2>2. [config.object_type EXCEPT ![load.i] = n] \in [Slots -> Nat]
        BY <1>3, <2>1 DEF Loading, Settings, n
    <2> QED
        BY <1>4, <2>2 DEF Loading, Settings
<1>6. /\ load' \in LoadPoints
      /\ \/ load'.step = "type" /\ load'.i < OBJECT_NUM
         \/ load'.step = "num" /\ load'.i = 0
    <2>1. load \in LoadPoints /\ load.i \in Nat /\ OBJECT_NUM \in Nat
        BY ConfigAssumption DEF Loading, LoadPoints
    <2>2. CASE load.i + 1 < OBJECT_NUM
        <3>1. load' = [load EXCEPT !.i = load.i + 1] /\ load.i + 1 \in 0 .. OBJECT_NUM
              /\ load.step = "type"
            BY <1>4, <2>1, <2>2
        <3>2. load' \in LoadPoints /\ load'.step = load.step /\ load'.i = load.i + 1
            BY <2>1, <3>1 DEF LoadPoints
        <3> QED
            BY <2>2, <3>1, <3>2
    <2>3. CASE ~ (load.i + 1 < OBJECT_NUM)
        <3>1. load' = [load EXCEPT !.step = "num", !.i = 0] /\ 0 \in 0 .. OBJECT_NUM
            BY <1>4, <2>1, <2>3
        <3> QED
            BY <2>1, <3>1 DEF LoadPoints
    <2> QED
        BY <2>2, <2>3
<1>7. HasLoaded(load.i)' \/ load'.step = "type"
    BY <1>6 DEF HasLoaded
<1> QED
    BY <1>2, <1>4, <1>5, <1>6, <1>7 DEF Loading, Room

LEMMA RoomFacts ==
    ASSUME Loading, NEW t \in Sectioned
    PROVE  Room(t) \in Nat /\ config.num[t] \in Nat /\ Len(config.entry[t]) \in Nat
           /\ config.entry[t] \in Seq(Values)
<1>1. /\ config.num[t] \in Nat /\ config.entry[t] \in Seq(Values)
      /\ Len(Sections[t].keys) \in {1, 4}
    BY SectionFacts DEF Loading, Settings
<1>2. config.num[t] * Len(Sections[t].keys) \in Nat
    BY <1>1
<1> QED
    BY <1>1, <1>2 DEF Room

LEMMA ReadNumKeeps ==
    ASSUME Buffered, Loading, ReadNum PROVE Buffered' /\ Loading' /\ Answered'
<1>1. Title \in Titles /\ Looks(Title, Wanted) /\ text' = text /\ load.step = "num"
      /\ Slot \in Sectioned /\ load.i < OBJECT_NUM /\ process = "up"
    BY TitleFacts DEF ReadNum, Lookup, At, Looking
<1>2. Buffered' /\ Answered'
    BY <1>1, LookupKeeps, Zenon
<1>3. GetIniKeyInt(Title, Wanted) \in Nat
    BY <1>1, AnswerTypes, Zenon
<1> DEFINE n == GetIniKeyInt(Title, Wanted)
           s == Slot
<1>4. /\ config' = [config EXCEPT !.num[s] = n, !.entry[s] = <<>>, !.loaded = @ \union {s}]
      /\ load' = [load EXCEPT !.step = "entry", !.j = 0] /\ process' = process
    BY DEF ReadNum
<1>s. s \in Sectioned
    BY <1>1
<1> HIDE DEF n, s
<1>5. /\ config.num \in [Sectioned -> Nat] /\ config.entry \in [Sectioned -> Seq(Values)]
      /\ config.loaded \subseteq Sectioned /\ config \in Settings /\ n \in Nat
    BY <1>3 DEF Loading, Settings, n
<1>6. /\ config' \in Settings /\ config'.object_type = config.object_type
      /\ config'.num = [config.num EXCEPT ![s] = n]
      /\ config'.entry = [config.entry EXCEPT ![s] = <<>>]
      /\ config'.loaded = config.loaded \union {s}
    <2>1. /\ [config.num EXCEPT ![s] = n] \in [Sectioned -> Nat]
          /\ [config.entry EXCEPT ![s] = <<>>] \in [Sectioned -> Seq(Values)]
          /\ config.loaded \union {s} \in SUBSET Sectioned
        BY <1>s, <1>5
    <2> QED
        BY <1>4, <1>5, <2>1 DEF Settings
<1>7. load' \in LoadPoints /\ load'.step = "entry" /\ load'.i = load.i /\ load'.j = 0
    BY <1>4 DEF Loading, LoadPoints
<1>8. \A t \in Sectioned : Len(config'.entry[t]) <= Room(t)'
    <2> SUFFICES ASSUME NEW t \in Sectioned PROVE Len(config'.entry[t]) <= Room(t)'
        OBVIOUS
    <2>1. CASE t = s
        <3>1. config'.entry[t] = <<>> /\ config'.num[t] = n
            BY <1>5, <1>6, <2>1
        <3>2. Len(Sections[t].keys) \in {1, 4}
            BY SectionFacts
        <3>3. n * Len(Sections[t].keys) \in Nat
            BY <1>5, <3>2
        <3> QED
            BY <3>1, <3>3 DEF Room
    <2>2. CASE t # s
        BY <1>5, <1>6, <2>2 DEF Room, Loading
    <2> QED
        BY <2>1, <2>2
<1>9. HasLoaded(load.i)'
    BY <1>1, <1>6, <1>7 DEF HasLoaded, Loading
<1>10. Slot' = s /\ config'.entry[s] = <<>> /\ s \in config'.loaded
    BY <1>s, <1>5, <1>6, <1>7 DEF Slot, s
<1> QED
    BY <1>1, <1>2, <1>4, <1>6, <1>7, <1>8, <1>9, <1>10 DEF Loading

LEMMA ReadEntryKeeps ==
    ASSUME Buffered, Loading, ReadEntry PROVE Buffered' /\ Loading' /\ Answered'
<1>1. Title \in Titles /\ Looks(Title, Wanted) /\ text' = text /\ load.step = "entry"
      /\ Slot \in Sectioned /\ process = "up" /\ load.j < Entries
    BY TitleFacts DEF ReadEntry, Lookup, At, Looking
<1>2. Buffered' /\ Answered'
    BY <1>1, LookupKeeps, Zenon
<1> DEFINE r == GetIniKeyString(Title, Wanted)
           s == Slot
<1>3. Entry(r) \in Values
    BY <1>1, AnswerTypes, Zenon
<1>4. /\ config' = [config EXCEPT !.entry[s] = Append(@, Entry(r))]
      /\ load' = [load EXCEPT !.j = @ + 1] /\ process' \in {"up", "overrun"}
    BY DEF ReadEntry
<1>5. s \in Sectioned /\ load.j < Room(s)
    BY <1>1 DEF Entries, Room, Section
<1>6. s = Slot
    OBVIOUS
<1> HIDE DEF s
<1> DEFINE e == Entry(r)
<1> HIDE DEF e
<1>7. config.entry \in [Sectioned -> Seq(Values)] /\ config \in Settings /\ e \in Values
    BY <1>3 DEF Loading, Settings, e
<1>8. /\ config' \in Settings /\ config'.object_type = config.object_type
      /\ config'.num = config.num /\ config'.loaded = config.loaded
      /\ config'.entry = [config.entry EXCEPT ![s] = Append(@, e)]
    <2>1. config' = [config EXCEPT !.entry = [config.entry EXCEPT ![s] = Append(@, e)]]
        BY <1>4, <1>7 DEF Settings, e
    <2>2. [config.entry EXCEPT ![s] = Append(@, e)] \in [Sectioned -> Seq(Values)]
        BY <1>5, <1>7
    <2> QED
        BY <1>7, <2>1, <2>2 DEF Settings
<1>9. load' \in LoadPoints /\ load'.step = "entry" /\ load'.i = load.i /\ load'.j = load.j + 1
    BY <1>1, <1>4 DEF Loading, LoadPoints
<1>10. /\ config'.entry[s] = Append(config.entry[s], e)
       /\ Len(config'.entry[s]) = Len(config.entry[s]) + 1
       /\ \A t \in Sectioned : t # s => config'.entry[t] = config.entry[t]
    BY <1>5, <1>7, <1>8
<1>11. Len(config.entry[s]) = load.j /\ load.i < OBJECT_NUM /\ s \in config.loaded
       /\ HasLoaded(load.i) /\ load.j \in Nat
    BY <1>1, <1>6 DEF Loading, LoadPoints
<1>12. \A t \in Sectioned : Len(config'.entry[t]) <= Room(t)' /\ Room(t)' = Room(t)
    <2> SUFFICES ASSUME NEW t \in Sectioned
                 PROVE  Len(config'.entry[t]) <= Room(t)' /\ Room(t)' = Room(t)
        OBVIOUS
    <2>1. Room(t)' = Room(t) /\ Room(t) \in Nat
        BY <1>8, RoomFacts DEF Room
    <2>2. CASE t = s
        BY <1>5, <1>10, <1>11, <2>1, <2>2
    <2>3. CASE t # s
        BY <1>10, <2>1, <2>3 DEF Loading
    <2> QED
        BY <2>1, <2>2, <2>3
<1>13. HasLoaded(load.i)' /\ Slot' = s
    BY <1>6, <1>8, <1>9, <1>11 DEF HasLoaded, Slot
<1> QED
    BY <1>2, <1>4, <1>8, <1>9, <1>10, <1>11, <1>12, <1>13 DEF Loading

LEMMA NextSlotKeeps ==
    ASSUME Loading, NextSlot PROVE Loading'
<1>1. /\ config' = config /\ process' = process
      /\ load' = [load EXCEPT !.step = "num", !.i = @ + 1, !.j = 0]
    BY DEF NextSlot
<1>2. load.i < OBJECT_NUM /\ load.i \in Nat /\ OBJECT_NUM \in Nat /\ load.step \in {"num", "entry"}
    BY ConfigAssumption DEF NextSlot, At, Loading, LoadPoints
<1>3. load' \in LoadPoints /\ load'.step = "num" /\ load'.i = load.i + 1
    <2>1. load \in LoadPoints /\ load.i + 1 \in 0 .. OBJECT_NUM
        BY <1>2 DEF Loading
    <2> QED
        BY <1>1, <2>1 DEF LoadPoints
<1>4. Slot \in Sectioned => Slot \in config.loaded
    BY DEF NextSlot, At, Loading
<1>5. HasLoaded(load.i)
    BY <1>2 DEF Loading
<1>6. HasLoaded(load.i)'
    <2> SUFFICES ASSUME NEW k \in 0 .. load.i, config.object_type[k] \in Sectioned
                 PROVE  config.object_type[k] \in config.loaded
        BY <1>1, <1>2, <1>3 DEF HasLoaded
    <2>1. CASE k = load.i
        BY <1>4, <2>1 DEF Slot
    <2>2. CASE k # load.i
        BY <1>2, <1>5, <2>2 DEF HasLoaded
    <2> QED
        BY <2>1, <2>2
<1> QED
    BY <1>1, <1>3, <1>6 DEF Loading, Room

\* Nothing has been looked up.
LEMMA NothingLooked == got = NotLooked /\ Buffered => Answered
<1> SUFFICES ASSUME got = NotLooked, Buffered PROVE Answered
    OBVIOUS
<1>1. AnswerIsValue
    BY DEF AnswerIsValue, NotLooked
<1>2. FindsOwnKey
    <2> DEFINE Own == {i \in 1 .. Len(text.lines) :
                         InOwnSection(got.title, i) /\ ~ Line(i).comment /\ Line(i).key = got.key}
    <2> SUFFICES ASSUME NEW i \in Own, OneHeader(got.title) PROVE FALSE
        BY DEF FindsOwnKey
    <2>1. got.title = None
        BY DEF NotLooked
    <2>2. Len(text.lines) \in Nat
        BY DEF Buffered
    <2>3. PICK j \in 1 .. i - 1 :
            Line(j).title = None /\ \A k \in j + 1 .. i : Line(k).title = None
        BY <2>1 DEF InOwnSection
    <2>4. i \in 1 .. Len(text.lines) /\ j \in 1 .. Len(text.lines) /\ i \in j + 1 .. i /\ j # i
        BY <2>2, <2>3
    <2>5. Line(i).title = None
        BY <2>3, <2>4
    <2> QED
        BY <2>1, <2>3, <2>4, <2>5 DEF OneHeader
<1> QED
    BY <1>1, <1>2 DEF Answered

LEMMA LoadedKeeps ==
    ASSUME Buffered, Loading, Loaded PROVE Buffered' /\ Loading' /\ Answered'
<1>1. /\ text' = [text EXCEPT !.lines = <<>>] /\ tmpstr' = [p \in Bytes |-> NUL]
      /\ config' = config /\ process' = process /\ got' = NotLooked
      /\ load' = [load EXCEPT !.step = "done"]
    BY DEF Loaded
<1>2. Buffered'
    <2>0. <<>> \in Seq(Lines)
        OBVIOUS
    <2>1. text' \in [lines : Seq(Lines), crlf : BOOLEAN, win32 : BOOLEAN]
        BY <1>1, <2>0 DEF Buffered
    <2> QED
        BY <1>1, <2>1, SizeFacts DEF Buffered
<1>3. load' \in LoadPoints /\ load'.step = "done" /\ load.i = OBJECT_NUM /\ load.step = "num"
    BY <1>1 DEF Loading, LoadPoints, Loaded, At
<1>4. HasLoaded(OBJECT_NUM)'
    BY <1>1, <1>3 DEF Loading, HasLoaded
<1>5. Loading'
    BY <1>1, <1>3, <1>4 DEF Loading, Room
<1>6. (got = NotLooked)'
    BY <1>1 DEF NotLooked
<1>7. Answered'
    BY <1>2, <1>6, NothingLooked, PTL
<1> QED
    BY <1>2, <1>5, <1>7

LEMMA FileStays ==
    ASSUME Buffered, Answered, UNCHANGED <<text, tmpstr, got>> PROVE Buffered' /\ Answered'
<1>1. Buffered'
    BY DEF Buffered
<1>2. FindsOwnKey'
    <2>1. FindsOwnKey
        BY DEF Answered
    <2>2. ASSUME NEW i PROVE Line(i)' = Line(i)
        BY DEF Line
    <2>3. ASSUME NEW i PROVE InOwnSection(got.title, i)' <=> InOwnSection(got.title, i)
        BY DEF InOwnSection, Line
    <2>4. OneHeader(got.title)' <=> OneHeader(got.title)
        BY DEF OneHeader, Line
    <2>5. ASSUME NEW i PROVE HasKey(Line(i).key, got.key)' <=> HasKey(Line(i).key, got.key)
        BY DEF HasKey, NameIn, DigitsBegin, Line
    <2> DEFINE Own == {i \in 1 .. Len(text.lines) :
                         InOwnSection(got.title, i) /\ ~ Line(i).comment /\ Line(i).key = got.key}
    <2>6. Own' = Own
        BY <2>2, <2>3
    <2> HIDE DEF Own
    <2> QED
        BY <2>1, <2>2, <2>3, <2>4, <2>5, <2>6 DEF FindsOwnKey, Own
<1>3. AnswerIsValue'
    <2>1. AnswerIsValue
        BY DEF Answered
    <2> QED
        BY <2>1 DEF AnswerIsValue, Line
<1> QED
    BY <1>1, <1>2, <1>3 DEF Answered

LEMMA OverrunKeeps ==
    ASSUME Buffered, Loading, Answered, Overrun PROVE Buffered' /\ Loading' /\ Answered'
<1>1. UNCHANGED <<text, tmpstr, config, load, got>> /\ process' = "overrun"
    BY DEF Overrun
<1>2. Buffered' /\ Loading'
    BY <1>1 DEF Buffered, Loading, Room, HasLoaded, Slot
<1>3. Answered'
    BY <1>1, FileStays
<1> QED
    BY <1>2, <1>3

LEMMA LoadStep ==
    ASSUME Buffered, Loading, Answered, LoadConfig
    PROVE  Buffered' /\ Loading' /\ Answered' /\ load.step # "done"
<1>1. CASE Overrun
    BY <1>1, OverrunKeeps DEF Overrun, Looking
<1>2. CASE ReadService
    BY <1>2, ReadServiceKeeps DEF ReadService, At
<1>3. CASE ReadType
    BY <1>3, ReadTypeKeeps DEF ReadType, At
<1>4. CASE ReadNum
    BY <1>4, ReadNumKeeps DEF ReadNum, At
<1>5. CASE NextSlot
    BY <1>5, NextSlotKeeps, FileStays DEF NextSlot, At
<1>6. CASE ReadEntry
    BY <1>6, ReadEntryKeeps DEF ReadEntry, At
<1>7. CASE Loaded
    BY <1>7, LoadedKeeps DEF Loaded, At
<1> QED
    BY <1>1, <1>2, <1>3, <1>4, <1>5, <1>6, <1>7 DEF LoadConfig

-----------------------------------------------------------------------------
(* The monitors.                                                            *)

LEMMA ConfigStays ==
    ASSUME MonInv, UNCHANGED configVars
    PROVE  Buffered' /\ Loading' /\ Answered' /\ process_name' = process_name
<1>1. UNCHANGED <<text, tmpstr, config, load, got, process>>
    BY DEF configVars
<1>2. Buffered' /\ Answered'
    BY <1>1, FileStays DEF MonInv
<1>3. Loading'
    BY <1>1 DEF MonInv, Loading, Room, HasLoaded, Slot
<1>4. process_name' = process_name
    BY <1>1 DEF process_name
<1> QED
    BY <1>2, <1>3, <1>4

LEMMA CountFacts ==
    ASSUME Loading, NEW n
    PROVE  /\ Times(n) \in Nat
           /\ (\E k \in 1 .. Len(process_name) : process_name[k] = n) => Times(n) >= 1
<1> DEFINE S == {k \in 1 .. Len(process_name) : process_name[k] = n}
<1>1. process_name \in Seq(Values)
    <2>1. CONFIG_PROCESS \in Sectioned
        BY DEF Sectioned, Sections, CONFIG_PROCESS
    <2> QED
        BY <2>1 DEF Loading, Settings, process_name
<1>2. Len(process_name) \in Nat
    BY <1>1
<1>3. IsFiniteSet(S)
    <2>1. IsFiniteSet(1 .. Len(process_name))
        BY <1>2, FS_Interval
    <2> QED
        BY <2>1, FS_Subset
<1>4. Cardinality(S) \in Nat /\ (S # {} => Cardinality(S) # 0)
    BY <1>3, FS_CardinalityType, FS_EmptySet
<1> QED
    BY <1>4 DEF Times

\* The pids of a snapshot that are recorded, and where.
LEMMA RecordedFacts ==
    ASSUME Loading, Sampling, NEW opened \in SUBSET Running, NEW pids \in Listings(opened), NEW n \in Names
    PROVE  /\ Recorded(n, pids[n]) \in Seq(Pids)
           /\ (\E p \in opened : running[p] = n) /\ Times(n) >= 1 => Recorded(n, pids[n]) # <<>>
<1> DEFINE S == {p \in opened : running[p] = n}
           L == Cardinality(S)
           T == Times(n)
           more == [k \in 1 .. T * Len(pids[n]) |-> pids[n][((k - 1) \div T) + 1]]
<1>1. S \subseteq Pids /\ IsFiniteSet(S)
    <2>1. S \subseteq Pids
        BY DEF Running
    <2> QED
        BY <2>1, MonitorsAssumption, FS_Subset
<1>2. L \in Nat /\ (S # {} => L # 0)
    BY <1>1, FS_CardinalityType, FS_EmptySet
<1>3. pids[n] \in [1 .. L -> S]
    BY DEF Listings, Orders
<1> HIDE DEF S, L, T
<1>4. pids[n] \in Seq(Pids) /\ Len(pids[n]) = L /\ \A k \in 1 .. L : pids[n][k] \in Pids
    <2> DEFINE s == pids[n]
    <2>1. s \in [1 .. L -> Pids] /\ L \in Nat
        BY <1>1, <1>2, <1>3
    <2> HIDE DEF s
    <2>2. s \in Seq(Pids) /\ Len(s) = L /\ \A k \in 1 .. L : s[k] \in Pids
        BY <2>1
    <2> QED
        BY <2>2 DEF s
<1>5. T \in Nat
    BY CountFacts DEF T
<1>6. m_map_process_name_pid[n] \in Seq(Pids)
    BY DEF Sampling
<1>7. Recorded(n, pids[n]) = m_map_process_name_pid[n] \o more
    BY DEF Recorded, T
<1>8. T * L \in Nat /\ (T >= 1 /\ L >= 1 => T * L >= 1)
    BY <1>2, <1>5
<1>9. ASSUME NEW k \in 1 .. T * L PROVE ((k - 1) \div T) + 1 \in 1 .. L
    <2>1. T \in Nat \ {0}
        BY <1>2, <1>5, <1>8, <1>9
    <2> DEFINE c == k - 1
               q == c \div T
               r == c % T
    <2>h. c \in Int /\ c = k - 1
        BY <1>8
    <2> HIDE DEF c
    <2>2. c = T * q + r /\ r \in 0 .. T - 1 /\ q \in Int
        BY <2>1, <2>h, Division
    <2> HIDE DEF q, r
    <2>3. T * q < T * L /\ T * q > 0 - T
        BY <1>8, <2>1, <2>2, <2>h
    <2>4. q < L /\ q > 0 - 1
        BY <1>2, <2>1, <2>2, <2>3
    <2> QED
        BY <1>2, <2>2, <2>4, <2>h DEF q, c
<1>10. more \in Seq(Pids) /\ Len(more) = T * L
    <2> DEFINE N == T * L
    <2>1. more \in [1 .. N -> Pids] /\ N \in Nat
        BY <1>4, <1>8, <1>9
    <2> HIDE DEF N, more
    <2>2. more \in Seq(Pids) /\ Len(more) = N
        BY <2>1
    <2> QED
        BY <2>2 DEF N
<1> HIDE DEF more
<1>11. Recorded(n, pids[n]) \in Seq(Pids)
    BY <1>6, <1>7, <1>10
<1>12. Len(Recorded(n, pids[n])) = Len(m_map_process_name_pid[n]) + T * L
    BY <1>6, <1>7, <1>8, <1>10
<1>13. ASSUME \E p \in opened : running[p] = n, T >= 1 PROVE Recorded(n, pids[n]) # <<>>
    <2>1. L >= 1
        BY <1>2, <1>13 DEF S
    <2>2. Len(Recorded(n, pids[n])) >= 1
        BY <1>6, <1>8, <1>12, <1>13, <2>1
    <2> QED
        BY <2>2
<1> QED
    BY <1>11, <1>13 DEF T

\* What write and delete do to their place.
Going(w) ==
    /\ w \in WritePoints /\ w.pc # "netstat"
    /\ w.pc = "slot" => w.i < OBJECT_NUM

LEMMA NextSlotFacts ==
    ASSUME Building, writing.i < OBJECT_NUM PROVE Going(NextSlotOf(writing))
<1>1. writing \in WritePoints /\ writing.i \in Nat /\ OBJECT_NUM \in Nat
    BY ConfigAssumption DEF Building, WritePoints
<1>2. CASE writing.i + 1 < OBJECT_NUM
    <2> DEFINE w == [writing EXCEPT !.pc = "slot", !.i = writing.i + 1]
    <2>1. NextSlotOf(writing) = w /\ writing.i + 1 \in 0 .. OBJECT_NUM
        BY <1>1, <1>2 DEF NextSlotOf
    <2>2. w \in WritePoints /\ w.pc = "slot" /\ w.i = writing.i + 1
        BY <1>1, <2>1 DEF WritePoints
    <2> QED
        BY <1>2, <2>1, <2>2 DEF Going
<1>3. CASE ~ (writing.i + 1 < OBJECT_NUM)
    <2> DEFINE w == [writing EXCEPT !.pc = "rest"]
    <2>1. NextSlotOf(writing) = w
        BY <1>3 DEF NextSlotOf
    <2>2. w \in WritePoints /\ w.pc = "rest"
        BY <1>1 DEF WritePoints
    <2> QED
        BY <2>1, <2>2 DEF Going
<1> QED
    BY <1>2, <1>3

\* A step of write or delete that asks no process monitor.
LEMMA GoingKeeps ==
    ASSUME MonInv, UNCHANGED <<configVars, slots, running, m_map_process_name_pid>>,
           load.step = "done", Going(writing'), rows' \in [Slots -> RowsOfASlot]
    PROVE  Building' /\ Sampling'
<1>1. load' = load /\ config' = config
    BY DEF configVars
<1>2. Building'
    BY <1>1 DEF MonInv, Building, Going
<1>3. Sampling'
    BY DEF MonInv, Sampling, Going
<1> QED
    BY <1>2, <1>3

LEMMA NothingReported == [i \in Slots |-> <<>>] \in [Slots -> RowsOfASlot]
<1>1. <<>> \in RowsOfASlot
    BY DEF RowsOfASlot
<1> QED
    BY <1>1

LEMMA MonInvInit == Init => MonInv
<1> SUFFICES ASSUME Init PROVE MonInv
    OBVIOUS
<1>1. Buffered
    <2>1. text \in [lines : Files, crlf : BOOLEAN, win32 : BOOLEAN] /\ tmpstr = [p \in Bytes |-> NUL]
        BY DEF Init, ConfigInit
    <2>2. \A f \in Files : f \in Seq(Lines)
        BY ConfigAssumption
    <2> QED
        BY <2>1, <2>2, SizeFacts DEF Buffered
<1>2. Loading
    <2>1. /\ config = [port |-> 0, object_type |-> [i \in 0 .. OBJECT_NUM - 1 |-> 0],
                       num |-> [t \in Sectioned |-> 0], entry |-> [t \in Sectioned |-> <<>>],
                       loaded |-> {}]
          /\ load = [step |-> "service", i |-> 0, j |-> 0] /\ process = "up"
        BY DEF Init, ConfigInit
    <2>2. /\ [i \in 0 .. OBJECT_NUM - 1 |-> 0] \in [Slots -> Nat]
          /\ [t \in Sectioned |-> 0] \in [Sectioned -> Nat]
          /\ [t \in Sectioned |-> <<>>] \in [Sectioned -> Seq(Values)]
        BY DEF Slots
    <2>3. config \in Settings
        BY <2>1, <2>2 DEF Settings
    <2>4. load \in LoadPoints /\ load.i < OBJECT_NUM
        BY <2>1, ConfigAssumption DEF LoadPoints
    <2>5. \A t \in Sectioned : Len(config.entry[t]) <= Room(t)
        <3> SUFFICES ASSUME NEW t \in Sectioned PROVE Len(config.entry[t]) <= Room(t)
            OBVIOUS
        <3>1. Len(config.entry[t]) = 0 /\ config.num[t] = 0 /\ Len(Sections[t].keys) \in {1, 4}
            BY <2>1, SectionFacts
        <3> QED
            BY <3>1 DEF Room
    <2> QED
        BY <2>1, <2>3, <2>4, <2>5 DEF Loading
<1>3. Answered
    BY <1>1, NothingLooked DEF Init, ConfigInit
<1>4. Building
    <2>1. slots = [i \in Slots |-> NULL] /\ writing = Idle
        BY DEF Init
    <2>2. Idle \in WritePoints /\ Idle.pc = "build"
        BY ConfigAssumption DEF Idle, WritePoints
    <2> QED
        BY <2>1, <2>2 DEF Building, NULL
<1>5. Sampling
    <2>1. running \in [Pids -> Names \union {None}]
        BY DEF Init
    <2>2. m_map_process_name_pid \in [Names -> Seq(Pids)]
        BY DEF Init
    <2>3. rows \in [Slots -> RowsOfASlot]
        BY NothingReported DEF Init
    <2>4. writing.pc # "netstat"
        BY DEF Init, Idle
    <2> QED
        BY <2>1, <2>2, <2>3, <2>4 DEF Sampling
<1>6. Readings
    BY MonitorsAssumption DEF Init, Readings, Counters
<1> QED
    BY <1>1, <1>2, <1>3, <1>4, <1>5, <1>6 DEF MonInv

LEMMA LoadMonitors ==
    ASSUME MonInv, LoadConfig, UNCHANGED monitorVars PROVE MonInv'
<1>1. Buffered' /\ Loading' /\ Answered' /\ load.step # "done"
    BY LoadStep DEF MonInv
<1>2. UNCHANGED <<slots, writing, running, m_map_process_name_pid, rows, rates>>
    BY DEF monitorVars
<1>3. Building' /\ writing = Idle
    BY <1>1, <1>2 DEF MonInv, Building
<1>4. Sampling'
    BY <1>2, <1>3 DEF MonInv, Sampling, Idle
<1>5. Readings'
    BY <1>2 DEF MonInv, Readings
<1> QED
    BY <1>1, <1>3, <1>4, <1>5 DEF MonInv

LEMMA ConcreteMonitorKeeps ==
    ASSUME MonInv, ConcreteMonitor PROVE MonInv'
<1> DEFINE type == config.object_type[writing.i]
           built == IF type \in Built THEN type ELSE NULL
<1>1. /\ slots' = [slots EXCEPT ![writing.i] = built]
      /\ writing' = [writing EXCEPT !.i = @ + 1]
      /\ UNCHANGED <<configVars, running, m_map_process_name_pid, rows, rates>>
      /\ load.step = "done" /\ writing.pc = "build" /\ writing.i < OBJECT_NUM
    BY DEF ConcreteMonitor, AtMonitors
<1>2. writing \in WritePoints /\ writing.i \in Slots /\ writing.i + 1 \in 0 .. OBJECT_NUM
    BY <1>1, ConfigAssumption DEF MonInv, Building, WritePoints, Slots
<1>3. built \in 0 .. 9 /\ (built # NULL => built = type)
    <2>1. Built \subseteq 0 .. 9
        BY DEF Built
    <2>2. NULL \in 0 .. 9
        BY DEF NULL
    <2> HIDE DEF type
    <2> QED
        BY <2>1, <2>2
<1>4. writing' \in WritePoints /\ writing'.pc = "build"
    BY <1>1, <1>2 DEF WritePoints
<1>t. type = config.object_type[writing.i]
    OBVIOUS
<1> HIDE DEF type, built
<1>5. load' = load /\ config' = config
    BY <1>1 DEF configVars
<1>6. Building'
    <2>1. slots \in [Slots -> 0 .. 9] /\ slots' \in [Slots -> 0 .. 9]
        BY <1>1, <1>2, <1>3 DEF MonInv, Building
    <2>2. ASSUME NEW i \in Slots, slots'[i] # NULL
          PROVE  slots'[i] = config.object_type[i]
        <3>1. CASE i = writing.i
            BY <1>1, <1>2, <1>3, <1>t, <2>1, <2>2, <3>1
        <3>2. CASE i # writing.i
            BY <1>1, <2>1, <2>2, <3>2 DEF MonInv, Building
        <3> QED
            BY <3>1, <3>2
    <2> QED
        BY <1>1, <1>4, <1>5, <2>1, <2>2 DEF Building
<1>7. Sampling' /\ Readings'
    BY <1>1, <1>4 DEF MonInv, Sampling, Readings
<1>8. Buffered' /\ Loading' /\ Answered'
    BY <1>1, ConfigStays
<1> QED
    BY <1>6, <1>7, <1>8 DEF MonInv

\* Steps of write and delete that only move on.
LEMMA MovingKeeps ==
    ASSUME MonInv, UNCHANGED <<configVars, slots, running, m_map_process_name_pid, rates>>,
           load.step = "done", Going(writing'), rows' \in [Slots -> RowsOfASlot]
    PROVE  MonInv'
<1>1. Building' /\ Sampling'
    BY GoingKeeps
<1>2. Readings'
    BY DEF MonInv, Readings
<1>3. Buffered' /\ Loading' /\ Answered'
    BY ConfigStays
<1> QED
    BY <1>1, <1>2, <1>3 DEF MonInv

LEMMA PlaceFacts ==
    ASSUME MonInv
    PROVE  /\ writing \in WritePoints /\ writing.i \in Nat /\ OBJECT_NUM \in Nat /\ OBJECT_NUM >= 1
           /\ writing.pc \in {"slot", "netstat"} => writing.i < OBJECT_NUM /\ writing.i \in Slots
           /\ rows \in [Slots -> RowsOfASlot]
BY ConfigAssumption DEF MonInv, Building, Sampling, WritePoints, Slots

LEMMA ConstructedKeeps == ASSUME MonInv, Constructed PROVE MonInv'
<1>1. /\ writing' = [writing EXCEPT !.pc = "rest"]
      /\ UNCHANGED <<configVars, slots, running, m_map_process_name_pid, rows, rates>>
      /\ load.step = "done"
    BY DEF Constructed, AtMonitors
<1>2. Going(writing')
    BY <1>1, PlaceFacts DEF Going, WritePoints
<1> QED
    BY <1>1, <1>2, PlaceFacts, MovingKeeps

LEMMA StartWriteKeeps == ASSUME MonInv, StartWrite PROVE MonInv'
<1>1. /\ writing' = [writing EXCEPT !.pc = "slot", !.i = 0, !.count = @ + 1]
      /\ UNCHANGED <<configVars, slots, running, m_map_process_name_pid, rates>>
      /\ load.step = "done" /\ rows' = [i \in Slots |-> <<>>]
    BY DEF StartWrite, AtMonitors
<1>2. Going(writing')
    <2>1. /\ writing' = [writing EXCEPT !.pc = "slot", !.i = 0, !.count = writing.count + 1]
          /\ 0 \in 0 .. OBJECT_NUM /\ writing.count + 1 \in Nat
        BY <1>1, PlaceFacts DEF WritePoints
    <2>2. writing' \in WritePoints /\ writing'.pc = "slot" /\ writing'.i = 0
        BY <2>1, PlaceFacts DEF WritePoints
    <2> QED
        BY <2>2, PlaceFacts DEF Going
<1> QED
    BY <1>1, <1>2, NothingReported, MovingKeeps

LEMMA OtherMonitorKeeps == ASSUME MonInv, OtherMonitor \/ SnapshotFails PROVE MonInv'
<1>1. /\ writing' = NextSlotOf(writing) /\ writing.pc = "slot"
      /\ UNCHANGED <<configVars, slots, running, m_map_process_name_pid, rows, rates>>
      /\ load.step = "done"
    BY DEF OtherMonitor, SnapshotFails, AtMonitors
<1>2. Going(writing')
    BY <1>1, PlaceFacts, NextSlotFacts DEF MonInv
<1> QED
    BY <1>1, <1>2, PlaceFacts, MovingKeeps

LEMMA ReadCountersKeeps == ASSUME MonInv, ReadCounters PROVE MonInv'
<1>1. /\ writing' = NextSlotOf(writing) /\ writing.pc = "slot"
      /\ UNCHANGED <<configVars, slots, running, m_map_process_name_pid, rows>>
      /\ load.step = "done"
    BY DEF ReadCounters, AtMonitors
<1>2. Going(writing')
    BY <1>1, PlaceFacts, NextSlotFacts DEF MonInv
<1>3. Building' /\ Sampling'
    BY <1>1, <1>2, PlaceFacts, GoingKeeps
<1>4. PICK a, b \in 0 .. MaxCount, d, e \in 0 .. MaxStep :
        rates' = [first |-> <<a, b>>, second |-> <<a + d, b + e>>]
    BY DEF ReadCounters
<1>5. Readings'
    <2>1. a + d \in 0 .. MaxCount + MaxStep /\ b + e \in 0 .. MaxCount + MaxStep
        BY MonitorsAssumption
    <2> QED
        BY <1>4, <2>1 DEF Readings, Counters
<1>6. Buffered' /\ Loading' /\ Answered'
    BY <1>1, ConfigStays
<1> QED
    BY <1>3, <1>5, <1>6 DEF MonInv

LEMMA StartDeleteKeeps == ASSUME MonInv, StartDelete PROVE MonInv'
<1>1. /\ writing' = [writing EXCEPT !.pc = "delete", !.i = 0]
      /\ UNCHANGED <<configVars, slots, running, m_map_process_name_pid, rows, rates>>
      /\ load.step = "done"
    BY DEF StartDelete, AtMonitors
<1>2. Going(writing')
    <2>1. /\ writing' = [writing EXCEPT !.pc = "delete", !.i = 0]
          /\ 0 \in 0 .. OBJECT_NUM
        BY <1>1, PlaceFacts DEF WritePoints
    <2>2. writing' \in WritePoints /\ writing'.pc = "delete" /\ writing'.i = 0
        BY <2>1, PlaceFacts DEF WritePoints
    <2> QED
        BY <2>2, PlaceFacts DEF Going
<1> QED
    BY <1>1, <1>2, PlaceFacts, MovingKeeps

LEMMA DeleteMonitorKeeps == ASSUME MonInv, DeleteMonitor PROVE MonInv'
<1>1. /\ UNCHANGED <<configVars, slots, running, m_map_process_name_pid, rows, rates>>
      /\ load.step = "done" /\ writing.pc = "delete"
    BY DEF DeleteMonitor, AtMonitors
<1>2. Going(writing')
    <2>1. CASE writing' = [writing EXCEPT !.pc = "gone"]
        BY <2>1, PlaceFacts DEF Going, WritePoints
    <2>2. CASE writing' = [writing EXCEPT !.pc = "twice"]
        BY <2>2, PlaceFacts DEF Going, WritePoints
    <2>3. CASE writing.i # OBJECT_NUM /\ writing' = [writing EXCEPT !.i = @ + 1]
        <3>1. writing.i + 1 \in 0 .. OBJECT_NUM
            BY <2>3, PlaceFacts DEF WritePoints
        <3> QED
            BY <1>1, <2>3, <3>1, PlaceFacts DEF Going, WritePoints
    <2> QED
        BY <2>1, <2>2, <2>3 DEF DeleteMonitor
<1> QED
    BY <1>1, <1>2, PlaceFacts, MovingKeeps

\* The system.
LEMMA ProcessesKeep ==
    ASSUME MonInv, StartProcess \/ EndProcess PROVE MonInv'
<1>1. UNCHANGED <<configVars, slots, writing, m_map_process_name_pid, rows, rates>>
    BY DEF StartProcess, EndProcess
<1>2. running' \in [Pids -> Names \union {None}]
    <2>1. CASE StartProcess
        <3>1. PICK p \in Pids \ Running, n \in Names : running' = [running EXCEPT ![p] = n]
            BY <2>1 DEF StartProcess
        <3> QED
            BY <3>1 DEF MonInv, Sampling
    <2>2. CASE EndProcess
        <3>1. PICK p \in Running : running' = [running EXCEPT ![p] = None]
            BY <2>2 DEF EndProcess
        <3> QED
            BY <3>1 DEF MonInv, Sampling
    <2> QED
        BY <2>1, <2>2
<1>3. Buffered' /\ Loading' /\ Answered' /\ process_name' = process_name
    BY <1>1, ConfigStays
<1>4. load' = load /\ config' = config
    BY <1>1 DEF configVars
<1>5. Building' /\ Readings'
    BY <1>1, <1>4 DEF MonInv, Building, Readings
<1>6. Sampling'
    BY <1>1, <1>2, <1>3 DEF MonInv, Sampling
<1> QED
    BY <1>3, <1>5, <1>6 DEF MonInv

-----------------------------------------------------------------------------
(* CProcessMonitor.                                                         *)

LEMMA NamesFacts ==
    ASSUME Loading
    PROVE  process_name \in Seq(Values) /\ Len(process_name) \in Nat
           /\ \A k \in 1 .. Len(process_name) : process_name[k] \in Values
<1>1. process_name \in Seq(Values)
    <2>1. CONFIG_PROCESS \in Sectioned
        BY DEF Sectioned, Sections, CONFIG_PROCESS
    <2> QED
        BY <2>1 DEF Loading, Settings, process_name
<1> QED
    BY <1>1

LEMMA GetProcessListKeeps ==
    ASSUME MonInv, GetProcessList PROVE MonInv'
<1>1. /\ UNCHANGED <<configVars, slots, running, rows, rates>>
      /\ load.step = "done" /\ writing.pc = "slot"
    BY DEF GetProcessList, AtMonitors
<1>2. PICK opened \in SUBSET Running :
        /\ \E pids \in Listings(Visited(opened)) :
             m_map_process_name_pid' = [n \in Names |-> Recorded(n, pids[n])]
        /\ writing' = [writing EXCEPT !.pc = "netstat", !.seen = {running[p] : p \in opened}]
    BY DEF GetProcessList
<1>3. PICK pids \in Listings(opened) :
        m_map_process_name_pid' = [n \in Names |-> Recorded(n, pids[n])]
    BY <1>2 DEF Visited
<1> DEFINE seen == {running[p] : p \in opened}
<1>4. seen \in SUBSET Names
    BY DEF MonInv, Sampling, Running
<1>5. writing' = [writing EXCEPT !.pc = "netstat", !.seen = seen]
    BY <1>2
<1>6. /\ writing' \in WritePoints /\ writing'.pc = "netstat" /\ writing'.seen = seen
      /\ writing'.i = writing.i /\ writing.i < OBJECT_NUM
    <2> HIDE DEF seen
    <2> QED
        BY <1>1, <1>4, <1>5, PlaceFacts DEF WritePoints
<1>7. Buffered' /\ Loading' /\ Answered' /\ process_name' = process_name
    BY <1>1, ConfigStays
<1>8. load' = load /\ config' = config
    BY <1>1 DEF configVars
<1>9. Building' /\ Readings'
    BY <1>1, <1>6, <1>8 DEF MonInv, Building, Readings
<1>10. ASSUME NEW n \in Names
       PROVE  /\ Recorded(n, pids[n]) \in Seq(Pids)
              /\ n \in seen /\ Times(n) >= 1 => Recorded(n, pids[n]) # <<>>
    BY RecordedFacts DEF MonInv
<1> HIDE DEF seen
<1>11. m_map_process_name_pid' \in [Names -> Seq(Pids)]
    BY <1>3, <1>10
<1>12. ASSUME NEW k \in 1 .. Len(process_name), process_name[k] \in seen
       PROVE  m_map_process_name_pid'[process_name[k]] # <<>>
    <2>1. process_name[k] \in Names /\ Times(process_name[k]) >= 1
        BY <1>4, <1>12, CountFacts DEF MonInv
    <2> QED
        BY <1>3, <1>10, <1>12, <2>1
<1>13. Sampling'
    BY <1>1, <1>6, <1>7, <1>11, <1>12 DEF MonInv, Sampling
<1> QED
    BY <1>7, <1>9, <1>13 DEF MonInv

LEMMA ReportProcessesKeeps ==
    ASSUME MonInv, ReportProcesses PROVE MonInv'
<1>1. /\ UNCHANGED <<configVars, slots, running, m_map_process_name_pid, rates>>
      /\ load.step = "done" /\ writing.pc = "netstat" /\ writing' = NextSlotOf(writing)
    BY DEF ReportProcesses, AtMonitors
<1>2. PICK conns \in [Pids -> 0 .. MaxConns] :
        rows' = [rows EXCEPT ![writing.i] = [k \in 1 .. Len(process_name) |-> Row(k, conns)]]
    BY DEF ReportProcesses
<1>3. Going(writing')
    BY <1>1, PlaceFacts, NextSlotFacts DEF MonInv
<1>4. ASSUME NEW k \in 1 .. Len(process_name)
      PROVE  Row(k, conns) \in [name : Values, tcpnum : 0 .. MaxConns, status : 0 .. 1]
    <2>1. process_name[k] \in Values
        BY NamesFacts DEF MonInv
    <2>2. Known(k) => conns[m_map_process_name_pid[process_name[k]][1]] \in 0 .. MaxConns
        <3> SUFFICES ASSUME Known(k) PROVE conns[m_map_process_name_pid[process_name[k]][1]] \in 0 .. MaxConns
            OBVIOUS
        <3> DEFINE s == m_map_process_name_pid[process_name[k]]
        <3>1. s \in Seq(Pids) /\ s # <<>>
            BY DEF MonInv, Sampling, Known
        <3> HIDE DEF s
        <3>2. s[1] \in Pids
            BY <3>1
        <3> QED
            BY <3>2 DEF s
    <2>3. 0 \in 0 .. MaxConns
        BY MonitorsAssumption
    <2> QED
        BY <2>1, <2>2, <2>3 DEF Row
<1>5. [k \in 1 .. Len(process_name) |-> Row(k, conns)] \in RowsOfASlot
    <2> DEFINE R == [name : Values, tcpnum : 0 .. MaxConns, status : 0 .. 1]
               s == [k \in 1 .. Len(process_name) |-> Row(k, conns)]
    <2>1. s \in [1 .. Len(process_name) -> R] /\ Len(process_name) \in Nat
        BY <1>4, NamesFacts DEF MonInv
    <2> HIDE DEF R, s
    <2>2. s \in Seq(R)
        BY <2>1
    <2> QED
        BY <2>2 DEF R, s, RowsOfASlot
<1>6. rows' \in [Slots -> RowsOfASlot]
    BY <1>2, <1>5, PlaceFacts
<1> QED
    BY <1>1, <1>3, <1>6, MovingKeeps

LEMMA MonInvStep == MonInv /\ [Next]_vars => MonInv'
<1> SUFFICES ASSUME MonInv, [Next]_vars PROVE MonInv'
    OBVIOUS
<1>1. CASE LoadConfig /\ UNCHANGED monitorVars
    BY <1>1, LoadMonitors
<1>2. CASE ConcreteMonitor
    BY <1>2, ConcreteMonitorKeeps
<1>3. CASE Constructed
    BY <1>3, ConstructedKeeps
<1>4. CASE StartWrite
    BY <1>4, StartWriteKeeps
<1>5. CASE OtherMonitor \/ SnapshotFails
    BY <1>5, OtherMonitorKeeps
<1>6. CASE ReadCounters
    BY <1>6, ReadCountersKeeps
<1>7. CASE GetProcessList
    BY <1>7, GetProcessListKeeps
<1>8. CASE ReportProcesses
    BY <1>8, ReportProcessesKeeps
<1>9. CASE StartProcess \/ EndProcess
    BY <1>9, ProcessesKeep
<1>10. CASE StartDelete
    BY <1>10, StartDeleteKeeps
<1>11. CASE DeleteMonitor
    BY <1>11, DeleteMonitorKeeps
<1>12. CASE UNCHANGED vars
    <2>1. UNCHANGED <<configVars, slots, writing, running, m_map_process_name_pid, rows, rates>>
        BY <1>12 DEF vars, monitorVars
    <2>2. Buffered' /\ Loading' /\ Answered' /\ process_name' = process_name
        BY <2>1, ConfigStays
    <2>3. load' = load /\ config' = config
        BY <2>1 DEF configVars
    <2>4. Building' /\ Readings'
        BY <2>1, <2>3 DEF MonInv, Building, Readings
    <2>5. Sampling'
        BY <2>1, <2>2 DEF MonInv, Sampling
    <2> QED
        BY <2>2, <2>4, <2>5 DEF MonInv
<1> QED
    BY <1>1, <1>2, <1>3, <1>4, <1>5, <1>6, <1>7, <1>8, <1>9, <1>10, <1>11, <1>12 DEF Next

LEMMA Invariance == Spec => []MonInv
BY MonInvInit, MonInvStep, PTL DEF Spec

-----------------------------------------------------------------------------
(* Theorems.                                                                *)

LEMMA TypesFollow == MonInv => TypeOK
<1> SUFFICES ASSUME MonInv PROVE TypeOK
    OBVIOUS
<1>1. ConfigTypeOK
    <2>1. config.object_type \in [0 .. OBJECT_NUM - 1 -> Nat]
        BY DEF MonInv, Loading, Settings, Slots
    <2>2. /\ config.num \in [Sectioned -> Nat] /\ config.loaded \subseteq Sectioned
          /\ load.step \in {"service", "type", "num", "entry", "done"} /\ load.i \in 0 .. OBJECT_NUM
          /\ process \in {"up", "overrun"}
        BY DEF MonInv, Loading, Settings, LoadPoints
    <2>3. \A t \in Sectioned : Len(config.entry[t]) <= config.num[t] * Len(Sections[t].keys)
        BY DEF MonInv, Loading, Room
    <2> QED
        BY <2>1, <2>2, <2>3 DEF ConfigTypeOK, MonInv, Buffered
<1>2. /\ slots \in [Slots -> 0 .. 9]
      /\ writing.pc \in {"build", "rest", "slot", "netstat", "delete", "gone", "twice"}
      /\ writing.i \in 0 .. OBJECT_NUM /\ writing.seen \subseteq Names
    BY DEF MonInv, Building, WritePoints
<1>3. /\ running \in [Pids -> Names \union {None}]
      /\ \A n \in Names : \A k \in 1 .. Len(m_map_process_name_pid[n]) :
            m_map_process_name_pid[n][k] \in Pids
    <2>1. \A n \in Names : m_map_process_name_pid[n] \in Seq(Pids)
        BY DEF MonInv, Sampling
    <2> QED
        BY <2>1 DEF MonInv, Sampling
<1>4. \A i \in Slots : \A k \in 1 .. Len(rows[i]) :
         rows[i][k] \in [name : Values, tcpnum : 0 .. MaxConns, status : 0 .. 1]
    <2> DEFINE R == [name : Values, tcpnum : 0 .. MaxConns, status : 0 .. 1]
    <2>1. \A i \in Slots : rows[i] \in Seq(R)
        BY DEF MonInv, Sampling, RowsOfASlot
    <2> HIDE DEF R
    <2>2. \A i \in Slots : \A k \in 1 .. Len(rows[i]) : rows[i][k] \in R
        BY <2>1
    <2> QED
        BY <2>2 DEF R
<1>5. rates \in [first : Counters, second : Counters]
    <2>1. (0 .. MaxCount) \X (0 .. MaxCount) \subseteq Counters
        BY MonitorsAssumption DEF Counters
    <2> QED
        BY <2>1 DEF MonInv, Readings
<1> QED
    BY <1>1, <1>2, <1>3, <1>4, <1>5 DEF TypeOK

\* The state keeps the form of the program's data: no entry beyond the number
\* that was configured, no pid of another set, no row with another status.
THEOREM TypeCorrect == Spec => []TypeOK
BY Invariance, TypesFollow, PTL

\* What a lookup finds is the key it looks for, in the section it looks in.
THEOREM OwnKeys == Spec => []FindsOwnKey
<1>1. MonInv => FindsOwnKey
    BY DEF MonInv, Answered
<1> QED
    BY <1>1, Invariance, PTL

\* What a lookup answers begins with the value, and is the value on Windows.
THEOREM Answers == Spec => []AnswerIsValue
<1>1. MonInv => AnswerIsValue
    BY DEF MonInv, Answered
<1> QED
    BY <1>1, Invariance, PTL

\* A slot's monitor is of the type that config.ini gives the slot, and it is
\* built after its section was loaded, wherever both stand.
THEOREM LoadedFirst == Spec => []BuiltIsLoaded
<1>1. MonInv => BuiltIsLoaded
    <2> SUFFICES ASSUME MonInv, NEW i \in Slots, slots[i] # NULL
                 PROVE  /\ slots[i] = config.object_type[i]
                        /\ slots[i] \in Sectioned => slots[i] \in config.loaded
        BY DEF BuiltIsLoaded
    <2>1. load.step = "done" /\ slots[i] = config.object_type[i]
        BY DEF MonInv, Building
    <2>2. HasLoaded(OBJECT_NUM)
        BY <2>1 DEF MonInv, Loading
    <2> QED
        BY <2>1, <2>2 DEF HasLoaded, Slots
<1> QED
    BY <1>1, Invariance, PTL

\* The rates are what was counted, however wide the counters are.
THEOREM Rates == Spec => []RatesSurviveOverflow
<1>1. MonInv => RatesSurviveOverflow
    BY RatesFacts DEF MonInv
<1> QED
    BY <1>1, Invariance, PTL

\* A configured program that the snapshot found is reported as running.
THEOREM ReportsSeen == Spec => SeenIsReported
<1> DEFINE A == \A i \in Slots : rows'[i] # rows[i] =>
                  \A k \in 1 .. Len(rows'[i]) :
                     process_name[k] \in writing.seen => rows'[i][k].status = 1
<1>1. MonInv /\ [Next]_vars => [A]_vars
    <2> SUFFICES ASSUME MonInv, Next PROVE A
        OBVIOUS
    <2>1. CASE StartWrite
        <3>1. \A i \in Slots : Len(rows'[i]) = 0
            BY <2>1 DEF StartWrite
        <3> QED
            BY <3>1
    <2>2. CASE ReportProcesses
        <3>1. PICK conns \in [Pids -> 0 .. MaxConns] :
                rows' = [rows EXCEPT ![writing.i] = [k \in 1 .. Len(process_name) |-> Row(k, conns)]]
            BY <2>2 DEF ReportProcesses
        <3>2. writing.pc = "netstat" /\ writing.i \in Slots /\ rows \in [Slots -> RowsOfASlot]
            BY <2>2, PlaceFacts DEF ReportProcesses, AtMonitors
        <3>3. SUFFICES ASSUME NEW i \in Slots, rows'[i] # rows[i],
                              NEW k \in 1 .. Len(rows'[i]), process_name[k] \in writing.seen
                       PROVE  rows'[i][k].status = 1
            OBVIOUS
        <3>4. rows'[i] = [j \in 1 .. Len(process_name) |-> Row(j, conns)]
            BY <3>1, <3>2, <3>3
        <3>5. Len(process_name) \in Nat
            BY NamesFacts DEF MonInv
        <3>6. k \in 1 .. Len(process_name) /\ rows'[i][k] = Row(k, conns)
            BY <3>4, <3>5
        <3>7. Known(k)
            BY <3>2, <3>3, <3>6, PlaceFacts DEF MonInv, Sampling, Known, WritePoints
        <3> QED
            BY <3>6, <3>7 DEF Row
    <2>3. CASE rows' = rows
        BY <2>3
    <2> QED
        BY <2>1, <2>2, <2>3 DEF Next, monitorVars, ConcreteMonitor, Constructed, OtherMonitor,
           ReadCounters, SnapshotFails, GetProcessList, StartProcess, EndProcess, StartDelete,
           DeleteMonitor
<1> QED
    BY <1>1, Invariance, PTL DEF Spec, SeenIsReported
=============================================================================
