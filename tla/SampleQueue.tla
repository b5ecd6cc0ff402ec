----------------------------- MODULE SampleQueue -----------------------------
(***************************************************************************)
(* CProtocolManage (src/SysMonitor/protocol_manage.cpp) as two threads use  *)
(* it: the timer thread (on_timer) samples every monitor and appends the    *)
(* result to m_list_buf, the event-loop thread (buffered_on_read) pops the  *)
(* oldest sample for a client that asks.  No lock guards the list, so each  *)
(* list operation is a step of its own and the threads interleave freely.   *)
(*                                                                          *)
(* A sample is its number: the n-th call of write() makes sample n.         *)
(*                                                                          *)
(* Definitions named after a mistake (TrimsLate, PoppedAtBack, ...) are not *)
(* used: each is what the definition after it would be with that mistake    *)
(* in the code, and breaks a property below.                                *)
(***************************************************************************)
EXTENDS Naturals, Sequences

CONSTANTS LIMIT,        \* the argument of rset_list_buf in write(): 10
          REMAINDER,    \* remainder_size in rset_list_buf: 5
          MaxSamples    \* bound: how many samples the timer takes

ASSUME BoundsAssumption ==
    /\ LIMIT \in Nat /\ REMAINDER \in Nat /\ MaxSamples \in Nat
    /\ REMAINDER < LIMIT

CHECK_WORD == "sysmonitor"
DEAL_NDB_OPERATION == "ignore"
CHECK_ERROR == "check error."
Words == {CHECK_WORD, DEAL_NDB_OPERATION, "other"}

VARIABLES
    m_list_buf,   \* std::list<string>, unguarded
    m_bCheck,     \* set by the first right check word, never cleared
    timer,        \* timer thread: "idle" | "trim" | "sample" | "push"
    list_size,    \* its local of rset_list_buf, as read at the start of write()
    pop_left,     \* pop_front calls its trimming loop has still to make
    produced,     \* number of samples taken
    loop,         \* event loop: "idle" | "reset" | "size" | "front" | "copy" | "pop" | "reply"
    first,        \* the sample ifirst_buf points at and first_buf copies, 0 if none
    text,         \* what client->buffer holds: "empty", "json" or CHECK_ERROR
    sent,         \* samples written to clients, in order
    mem,          \* "ok", or the undefined behaviour that ended the run
    served        \* history: event-loop pops since list_size was read

timerVars == <<timer, list_size, pop_left, produced>>
loopVars == <<loop, first, text, sent, m_bCheck>>
vars == <<m_list_buf, timerVars, loopVars, mem, served>>

TypeOK ==
    /\ m_list_buf \in Seq(Nat)
    /\ m_bCheck \in BOOLEAN
    /\ timer \in {"idle", "trim", "sample", "push"}
    /\ list_size \in Nat
    /\ pop_left \in Nat
    /\ produced \in Nat
    /\ loop \in {"idle", "reset", "size", "front", "copy", "pop", "reply"}
    /\ first \in Nat
    /\ text \in {"empty", "json", CHECK_ERROR}
    /\ sent \in Seq(Nat)
    /\ mem \in {"ok", "underflow", "freed", "raced", "overflow"}
    /\ served \in Nat

Init ==
    /\ m_list_buf = <<>>
    /\ m_bCheck = FALSE
    /\ timer = "idle" /\ list_size = 0 /\ pop_left = 0 /\ produced = 0
    /\ loop = "idle" /\ first = 0 /\ text = "empty" /\ sent = <<>>
    /\ mem = "ok"
    /\ served = 0

-----------------------------------------------------------------------------
(* The timer thread: write(), called from on_timer for ever.                *)

\* The condition of rset_list_buf for a list of n samples, and its pop_len.
TrimsAlways(n) == TRUE
TrimsLate(n) == n > LIMIT /\ n > REMAINDER
Trims(n) == n >= LIMIT /\ n > REMAINDER

PopLenAll(n) == n
PopLenOneLess(n) == n - REMAINDER - 1
PopLen(n) == n - REMAINDER

\* pop_front of a non-empty list.
PoppedAtBack(list) == SubSeq(list, 1, Len(list) - 1)
PoppedNothing(list) == list
Popped(list) == Tail(list)

\* write() enters rset_list_buf, which reads the size once.
ReadSize ==
    /\ timer = "idle"
    /\ list_size' = Len(m_list_buf)
    /\ served' = 0
    /\ IF Trims(Len(m_list_buf))
         THEN timer' = "trim" /\ pop_left' = PopLen(Len(m_list_buf))
         ELSE timer' = "sample" /\ pop_left' = 0
    /\ UNCHANGED <<m_list_buf, produced, loopVars, mem>>

\* One pop_front of the trimming loop; the list may have been drained by the
\* event loop since its size was read.
TrimPop ==
    /\ timer = "trim"
    /\ IF m_list_buf = <<>>
         THEN /\ mem' = "underflow"
              /\ UNCHANGED <<m_list_buf, timerVars>>
         ELSE /\ m_list_buf' = Popped(m_list_buf)
              /\ pop_left' = pop_left - 1
              /\ timer' = IF pop_left = 1 THEN "sample" ELSE "trim"
              /\ UNCHANGED <<list_size, produced, mem>>
    /\ UNCHANGED <<loopVars, served>>

\* Every monitor writes its part and the sample is serialised.
Sample ==
    /\ timer = "sample"
    /\ produced < MaxSamples
    /\ produced' = produced + 1
    /\ timer' = "push"
    /\ UNCHANGED <<m_list_buf, list_size, pop_left, loopVars, mem, served>>

PushBack ==
    /\ timer = "push"
    /\ m_list_buf' = Append(m_list_buf, produced)
    /\ timer' = "idle"
    /\ UNCHANGED <<list_size, pop_left, produced, loopVars, mem, served>>

-----------------------------------------------------------------------------
(* The event-loop thread: buffered_on_read, read() and get_last_buf().      *)

\* A client's bytes arrive; read() compares them with the two known words.
Receive(word) ==
    /\ loop = "idle"
    /\ m_bCheck' = (m_bCheck \/ word = CHECK_WORD)
    /\ first' = 0
    /\ loop' = CASE word = CHECK_WORD -> "size"
                 [] word = DEAL_NDB_OPERATION -> "reset"
                 [] OTHER -> "reply"
    /\ text' = IF word = "other" THEN CHECK_ERROR ELSE "empty"
    /\ UNCHANGED <<m_list_buf, timerVars, sent, mem, served>>

\* Bytes that fill client->buffer: the NUL put behind them, or they themselves,
\* are written past its end.
ReceiveTooLong ==
    /\ loop = "idle"
    /\ mem' = "overflow"
    /\ UNCHANGED <<m_list_buf, timerVars, loopVars, served>>

\* "ignore" calls reset_log_status of the NDB monitor before it answers;
\* what that does is in module NdbMonitor.
ResetLogStatus ==
    /\ loop = "reset"
    /\ loop' = "size"
    /\ UNCHANGED <<m_list_buf, timerVars, first, text, sent, m_bCheck, mem, served>>

\* get_last_buf: an empty list answers nothing.
CheckSize ==
    /\ loop = "size"
    /\ loop' = IF m_list_buf = <<>> THEN "reply" ELSE "front"
    /\ UNCHANGED <<m_list_buf, timerVars, first, text, sent, m_bCheck, mem, served>>

\* begin(), compared with end().
Front ==
    /\ loop = "front"
    /\ IF m_list_buf = <<>>
         THEN loop' = "reply" /\ UNCHANGED first
         ELSE loop' = "copy" /\ first' = Head(m_list_buf)
    /\ UNCHANGED <<m_list_buf, timerVars, text, sent, m_bCheck, mem, served>>

\* The node the iterator points at is alive iff it is still the list's first:
\* nodes are only taken from the front.
NodeAlive == m_list_buf # <<>> /\ Head(m_list_buf) = first

\* The node's string is copied to client->buffer of BUFLEN bytes.  The text of
\* a sample is the monitors': it may hold CHECK_ERROR, or be longer than BUFLEN.
Copy ==
    /\ loop = "copy"
    /\ \/ /\ NodeAlive
          /\ text' \in {"json", CHECK_ERROR}
          /\ loop' = "pop"
          /\ UNCHANGED mem
       \/ /\ mem' = IF NodeAlive THEN "overflow" ELSE "freed"
          /\ UNCHANGED <<loop, text>>
    /\ UNCHANGED <<m_list_buf, timerVars, first, sent, m_bCheck, served>>

\* pop_front pops whatever is first by now.
PopFront ==
    /\ loop = "pop"
    /\ IF m_list_buf = <<>>
         THEN /\ mem' = "underflow"
              /\ UNCHANGED <<m_list_buf, loop, served>>
         ELSE /\ m_list_buf' = Popped(m_list_buf)
              /\ served' = served + 1
              /\ loop' = "reply"
              /\ UNCHANGED mem
    /\ UNCHANGED <<timerVars, first, text, sent, m_bCheck>>

\* buffered_on_read sends what read() left in the buffer, unless that is
\* empty or holds CHECK_ERROR.
IsSentWhenEmpty(t) == t # CHECK_ERROR
IsSent(t) == t # "empty" /\ t # CHECK_ERROR

Reply ==
    /\ loop = "reply"
    /\ sent' = IF IsSent(text) THEN Append(sent, first) ELSE sent
    /\ loop' = "idle"
    /\ first' = 0
    /\ text' = "empty"
    /\ UNCHANGED <<m_list_buf, timerVars, m_bCheck, mem, served>>

-----------------------------------------------------------------------------
(* Both threads inside the list at once, one of them changing what the      *)
(* other uses, is a data race: either order of the two operations, or       *)
(* anything at all.  The orders are the interleavings of the actions above; *)
(* the rest is mem = "raced", after which the model says nothing more.      *)
Race ==
    /\ \/ loop = "pop" /\ timer \in {"trim", "push"}
       \/ loop \in {"front", "copy"} /\ timer = "trim"
    /\ mem' = "raced"
    /\ UNCHANGED <<m_list_buf, timerVars, loopVars, served>>

Timer == ReadSize \/ TrimPop \/ Sample \/ PushBack
Loop ==
    \/ (\E word \in Words : Receive(word)) \/ ReceiveTooLong
    \/ ResetLogStatus \/ CheckSize \/ Front \/ Copy \/ PopFront \/ Reply

\* After undefined behaviour the process has crashed or may do anything.
Next == mem = "ok" /\ (Timer \/ Loop \/ Race)

Spec == Init /\ [][Next]_vars

-----------------------------------------------------------------------------
(* Properties.                                                              *)

\* Samples that have reached the list: one that is taken but not yet appended
\* is no client's business.
Published == IF timer = "push" THEN produced - 1 ELSE produced

\* The backlog never exceeds the limit rset_list_buf is called with, although
\* the size it trims by is stale by the time write() appends.
BoundedBacklog == Len(m_list_buf) <= LIMIT

\* What the list holds is always the newest samples without a gap: samples
\* leave only at the old end, whichever thread pops.
NewestWithoutGap ==
    \A i \in 1 .. Len(m_list_buf) :
        m_list_buf[i] + (Len(m_list_buf) - i) = Published

\* A trimming write() and the requests served during it together leave exactly
\* REMAINDER samples: a sample the event loop takes is one the trim keeps less.
TrimKeepsRemainder ==
    timer \in {"sample", "push"} /\ Trims(list_size)
    => Len(m_list_buf) + served = REMAINDER

\* pop_front on an empty list needs at least REMAINDER requests to be served
\* within one trimming write(); fewer are always safe.
UnderflowNeedsDrain ==
    mem = "underflow" => Trims(list_size) /\ served >= REMAINDER

\* No sample is sent twice and none after a newer one, whichever way the
\* threads interleave and however many clients ask.
SentInOrder ==
    \A i, j \in 1 .. Len(sent) : i < j => sent[i] < sent[j]

\* The queue implements SampleFeed: whatever the two threads do, an answer is a
\* published sample newer than all earlier answers.
Feed == INSTANCE SampleFeed WITH published <- Published

FeedSpec == Feed!Spec
=============================================================================
