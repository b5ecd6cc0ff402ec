-------------------------- MODULE SampleQueueProofs --------------------------
(***************************************************************************)
(* Theorems about SampleQueue for every LIMIT, REMAINDER and MaxSamples.    *)
(* The inductive invariant IInv says by how much the timer's stale          *)
(* list_size and the real list can differ (Trimming), and where the sample  *)
(* in the event loop's hands stands relative to the list (InHand).          *)
(***************************************************************************)
EXTENDS SampleQueue, Integers, TLAPS

LastSent == IF sent = <<>> THEN 0 ELSE sent[Len(sent)]

\* The requests served since list_size was read are what separates it from
\* the real length.
Trimming ==
    /\ timer = "trim" =>
         /\ Trims(list_size)
         /\ pop_left >= 1
         /\ Len(m_list_buf) + served = REMAINDER + pop_left
    /\ timer \in {"sample", "push"} =>
         /\ Trims(list_size) => Len(m_list_buf) + served = REMAINDER
         /\ ~ Trims(list_size) => Len(m_list_buf) + served = list_size
    /\ timer = "push" => produced >= 1

\* A request that has seen the list non-empty finds it empty only while a
\* trimming write() is under way.
Drained ==
    loop \in {"front", "copy", "pop"} /\ m_list_buf = <<>>
    => timer \in {"trim", "sample", "push"} /\ Trims(list_size)

\* What has been sent and what is about to be sent is older than what the
\* list still holds.
InHand ==
    /\ LastSent + Len(m_list_buf) <= Published
    /\ loop \in {"copy", "pop"} =>
         /\ LastSent < first
         /\ first <= Published
         /\ first + Len(m_list_buf) <= Published + 1
    /\ loop = "reply" /\ text = "json" =>
         /\ LastSent < first
         /\ first <= Published
         /\ first + Len(m_list_buf) <= Published
    /\ text = "json" => loop \in {"pop", "reply"}

IInv ==
    /\ TypeOK
    /\ BoundedBacklog
    /\ NewestWithoutGap
    /\ Trimming
    /\ Drained
    /\ InHand
    /\ SentInOrder
    /\ UnderflowNeedsDrain
-----------------------------------------------------------------------------
(* Facts about the sequences the model uses.                                *)

\* Popping the front of a non-empty queue shifts the rest down by one.
LEMMA TailFacts ==
    ASSUME NEW s \in Seq(Nat), s # <<>>
    PROVE  /\ Tail(s) \in Seq(Nat)
           /\ Len(s) >= 1
           /\ Len(Tail(s)) = Len(s) - 1
           /\ \A i \in 1 .. Len(Tail(s)) : Tail(s)[i] = s[i + 1]
           /\ Head(s) = s[1]
           /\ Head(s) \in Nat
    OBVIOUS

\* Appending leaves the old elements where they are.
LEMMA AppendFacts ==
    ASSUME NEW s \in Seq(Nat), NEW e \in Nat
    PROVE  /\ Append(s, e) \in Seq(Nat)
           /\ Append(s, e) # <<>>
           /\ Len(Append(s, e)) = Len(s) + 1
           /\ Append(s, e)[Len(s) + 1] = e
           /\ \A i \in 1 .. Len(s) : Append(s, e)[i] = s[i]
    OBVIOUS

\* A queue is empty exactly when its length is 0.
LEMMA EmptyFacts ==
    ASSUME NEW s \in Seq(Nat)
    PROVE  /\ Len(s) \in Nat
           /\ s = <<>> <=> Len(s) = 0
           /\ \A i \in 1 .. Len(s) : s[i] \in Nat
    OBVIOUS

-----------------------------------------------------------------------------
\* Types: preserved by every step of either thread.
LEMMA TypeStep == TypeOK /\ Trimming /\ [Next]_vars => TypeOK'
<1> SUFFICES ASSUME TypeOK, Trimming, [Next]_vars PROVE TypeOK'
    OBVIOUS
<1> USE DEF TypeOK
<1>1. CASE ReadSize
    <2>1. Len(m_list_buf) \in Nat
        BY EmptyFacts
    <2>2. Trims(Len(m_list_buf)) => Len(m_list_buf) - REMAINDER \in Nat
        BY <2>1, BoundsAssumption DEF Trims, PopLen
    <2> QED
        BY <1>1, <2>1, <2>2 DEF ReadSize, PopLen, loopVars
<1>2. CASE TrimPop
    <2>1. CASE m_list_buf = <<>>
        BY <1>2, <2>1 DEF TrimPop, Popped, timerVars, loopVars
    <2>2. CASE m_list_buf # <<>>
        <3>1. m_list_buf' \in Seq(Nat)
            BY <1>2, <2>2, TailFacts DEF TrimPop, Popped
        <3>2. pop_left' \in Nat
            BY <1>2, <2>2 DEF TrimPop, Popped, Trimming
        <3> QED
            BY <1>2, <2>2, <3>1, <3>2 DEF TrimPop, Popped, loopVars
    <2> QED
        BY <2>1, <2>2
<1>3. CASE Sample
    BY <1>3 DEF Sample, loopVars
<1>4. CASE PushBack
    BY <1>4, AppendFacts DEF PushBack, loopVars
<1>5. ASSUME NEW word \in Words, Receive(word) PROVE TypeOK'
    BY <1>5 DEF Receive, timerVars, Words, CHECK_WORD, DEAL_NDB_OPERATION, CHECK_ERROR
<1>6. CASE ResetLogStatus
    BY <1>6 DEF ResetLogStatus, timerVars
<1>7. CASE CheckSize
    BY <1>7 DEF CheckSize, timerVars
<1>8. CASE Front
    BY <1>8, TailFacts DEF Front, timerVars
<1>9. CASE Copy
    BY <1>9 DEF Copy, timerVars
<1>10. CASE PopFront
    <2>1. CASE m_list_buf = <<>>
        BY <1>10, <2>1 DEF PopFront, Popped, timerVars
    <2>2. CASE m_list_buf # <<>>
        <3>1. m_list_buf' \in Seq(Nat)
            BY <1>10, <2>2, TailFacts DEF PopFront, Popped
        <3>2. served' \in Nat
            BY <1>10, <2>2 DEF PopFront, Popped
        <3> QED
            BY <1>10, <2>2, <3>1, <3>2 DEF PopFront, Popped, timerVars
    <2> QED
        BY <2>1, <2>2
<1>11. CASE Reply
    BY <1>11, AppendFacts DEF Reply, timerVars
<1>12. CASE Race \/ ReceiveTooLong
    BY <1>12 DEF Race, ReceiveTooLong, timerVars, loopVars
<1>13. CASE UNCHANGED vars
    BY <1>13 DEF vars, timerVars, loopVars
<1> QED
    BY <1>1, <1>2, <1>3, <1>4, <1>5, <1>6, <1>7, <1>8, <1>9, <1>10, <1>11,
       <1>12, <1>13 DEF Next, Timer, Loop

\* The stale size: how Trimming, Drained and with them the bound and the
\* underflow condition survive every step.
LEMMA BacklogStep ==
    /\ TypeOK /\ TypeOK'
    /\ BoundedBacklog /\ Trimming /\ Drained /\ UnderflowNeedsDrain
    /\ [Next]_vars
    => BoundedBacklog' /\ Trimming' /\ Drained' /\ UnderflowNeedsDrain'
<1> DEFINE Backlog == BoundedBacklog /\ Trimming /\ Drained /\ UnderflowNeedsDrain
<1> SUFFICES ASSUME TypeOK, TypeOK', Backlog, [Next]_vars PROVE Backlog'
    OBVIOUS
<1> USE BoundsAssumption
    DEF BoundedBacklog, Trimming, Drained, UnderflowNeedsDrain, Trims
<1>0. /\ Len(m_list_buf) \in Nat /\ Len(m_list_buf') \in Nat
      /\ m_list_buf = <<>> <=> Len(m_list_buf) = 0
      /\ m_list_buf' = <<>> <=> Len(m_list_buf') = 0
      /\ list_size \in Nat /\ pop_left \in Nat /\ served \in Nat /\ produced \in Nat
      /\ timer \in {"idle", "trim", "sample", "push"}
      /\ m_list_buf \in Seq(Nat)
    BY EmptyFacts DEF TypeOK
<1>1. CASE mem = "ok" /\ ReadSize
    <2>1. timer' = "sample" => ~ Trims(Len(m_list_buf))
        BY <1>1 DEF ReadSize, PopLen
    <2>2. BoundedBacklog' /\ UnderflowNeedsDrain'
        BY <1>0, <1>1 DEF ReadSize, PopLen
    <2>3. Trimming'
        BY <1>0, <1>1, <2>1 DEF ReadSize, PopLen
    <2>4. Drained'
        BY <1>0, <1>1 DEF ReadSize, PopLen, loopVars
    <2> QED
        BY <2>2, <2>3, <2>4
<1>2. CASE TrimPop
    <2>1. CASE m_list_buf = <<>>
        BY <1>0, <1>2, <2>1 DEF TrimPop, Popped, timerVars, loopVars
    <2>2. CASE m_list_buf # <<>>
        <3>1. Len(m_list_buf') = Len(m_list_buf) - 1
            BY <1>0, <1>2, <2>2, TailFacts DEF TrimPop, Popped
        <3>2. /\ timer = "trim" /\ pop_left' = pop_left - 1
              /\ timer' = IF pop_left = 1 THEN "sample" ELSE "trim"
              /\ UNCHANGED <<list_size, produced, mem, served, loopVars>>
            BY <1>2, <2>2 DEF TrimPop
        <3>3. BoundedBacklog' /\ UnderflowNeedsDrain'
            BY <1>0, <3>1, <3>2 DEF loopVars
        <3>4. Trimming'
            BY <1>0, <3>1, <3>2 DEF loopVars
        <3>5. Drained'
            BY <1>0, <3>1, <3>2 DEF loopVars
        <3> QED
            BY <3>3, <3>4, <3>5
    <2> QED
        BY <2>1, <2>2
<1>3. CASE Sample
    BY <1>0, <1>3 DEF Sample, loopVars
<1>4. CASE PushBack
    <2>1. Len(m_list_buf') = Len(m_list_buf) + 1 /\ m_list_buf' # <<>>
        BY <1>0, <1>4, AppendFacts DEF PushBack
    <2>2. Len(m_list_buf) < LIMIT
        BY <1>0, <1>4 DEF PushBack
    <2> QED
        BY <1>0, <1>4, <2>1, <2>2 DEF PushBack, loopVars
<1>5. ASSUME NEW word \in Words, Receive(word) PROVE Backlog'
    BY <1>0, <1>5 DEF Receive, timerVars, Words, CHECK_WORD, DEAL_NDB_OPERATION
<1>6. CASE ResetLogStatus
    BY <1>0, <1>6 DEF ResetLogStatus, timerVars
<1>7. CASE CheckSize
    BY <1>0, <1>7 DEF CheckSize, timerVars
<1>8. CASE Front
    BY <1>0, <1>8 DEF Front, timerVars
<1>9. CASE Copy
    BY <1>0, <1>9 DEF Copy, timerVars
<1>10. CASE mem = "ok" /\ PopFront
    <2>1. CASE m_list_buf = <<>>
        BY <1>0, <1>10, <2>1 DEF PopFront, Popped, timerVars
    <2>2. CASE m_list_buf # <<>>
        <3>1. Len(m_list_buf') = Len(m_list_buf) - 1
            BY <1>0, <1>10, <2>2, TailFacts DEF PopFront, Popped
        <3>2. loop' = "reply" /\ served' = served + 1 /\ UNCHANGED <<timerVars, mem>>
            BY <1>10, <2>2 DEF PopFront, Popped
        <3>3. Trimming'
            BY <1>0, <2>2, <3>1, <3>2 DEF timerVars
        <3>4. BoundedBacklog' /\ Drained' /\ UnderflowNeedsDrain'
            BY <1>0, <1>10, <2>2, <3>1, <3>2 DEF timerVars
        <3> QED
            BY <3>3, <3>4
    <2> QED
        BY <2>1, <2>2
<1>11. CASE Reply
    BY <1>0, <1>11 DEF Reply, timerVars
<1>12. CASE Race \/ ReceiveTooLong
    BY <1>0, <1>12 DEF Race, ReceiveTooLong, timerVars, loopVars
<1>13. CASE UNCHANGED vars
    BY <1>0, <1>13 DEF vars, timerVars, loopVars
<1> QED
    BY <1>1, <1>2, <1>3, <1>4, <1>5, <1>6, <1>7, <1>8, <1>9, <1>10, <1>11,
       <1>12, <1>13 DEF Next, Timer, Loop

\* The list stays the newest samples without a gap.
LEMMA NoGapStep ==
    TypeOK /\ TypeOK' /\ Trimming /\ NewestWithoutGap /\ [Next]_vars => NewestWithoutGap'
<1> SUFFICES ASSUME TypeOK, TypeOK', Trimming, NewestWithoutGap, [Next]_vars
             PROVE  NewestWithoutGap'
    OBVIOUS
<1> USE DEF NewestWithoutGap, Published
<1>0. /\ m_list_buf \in Seq(Nat) /\ Len(m_list_buf) \in Nat /\ produced \in Nat
      /\ \A i \in 1 .. Len(m_list_buf) : m_list_buf[i] \in Nat
      /\ timer \in {"idle", "trim", "sample", "push"}
    BY EmptyFacts DEF TypeOK
<1>1. ASSUME m_list_buf # <<>>, m_list_buf' = Tail(m_list_buf), Published' = Published
      PROVE  NewestWithoutGap'
    <2>1. Len(m_list_buf') = Len(m_list_buf) - 1
        BY <1>0, <1>1, TailFacts
    <2>2. \A i \in 1 .. Len(m_list_buf') : m_list_buf'[i] = m_list_buf[i + 1]
        BY <1>0, <1>1, TailFacts
    <2>3. ASSUME NEW i \in 1 .. Len(m_list_buf')
          PROVE  m_list_buf'[i] + (Len(m_list_buf') - i) = Published'
        <3>1. i + 1 \in 1 .. Len(m_list_buf)
            BY <1>0, <2>1
        <3>2. m_list_buf[i + 1] + (Len(m_list_buf) - (i + 1)) = Published
            BY <3>1
        <3> QED
            BY <1>0, <1>1, <2>1, <2>2, <3>1, <3>2
    <2> QED
        BY <2>3
<1>2. CASE TrimPop
    BY <1>1, <1>2 DEF TrimPop, Popped, timerVars
<1>3. CASE PopFront
    BY <1>1, <1>3 DEF PopFront, Popped, timerVars
<1>4. CASE PushBack
    <2>1. /\ Len(m_list_buf') = Len(m_list_buf) + 1
          /\ m_list_buf'[Len(m_list_buf) + 1] = produced
          /\ \A i \in 1 .. Len(m_list_buf) : m_list_buf'[i] = m_list_buf[i]
        BY <1>0, <1>4, AppendFacts DEF PushBack
    <2>2. Published' = produced /\ Published = produced - 1 /\ produced >= 1
        BY <1>4 DEF PushBack, Trimming
    <2>3. ASSUME NEW i \in 1 .. Len(m_list_buf')
          PROVE  m_list_buf'[i] + (Len(m_list_buf') - i) = Published'
        <3>1. CASE i = Len(m_list_buf) + 1
            <4>1. m_list_buf'[i] = produced /\ Len(m_list_buf') = i /\ i \in Nat
                BY <2>1, <3>1
            <4>2. produced \in Nat
                BY <1>0
            <4> QED
                BY <2>2, <4>1, <4>2
        <3>2. CASE i \in 1 .. Len(m_list_buf)
            <4>1. m_list_buf[i] + (Len(m_list_buf) - i) = produced - 1
                BY <2>2, <3>2
            <4>2. m_list_buf'[i] = m_list_buf[i] /\ m_list_buf[i] \in Nat
                BY <1>0, <2>1, <3>2
            <4> QED
                BY <1>0, <2>1, <2>2, <3>2, <4>1, <4>2
        <3> QED
            BY <1>0, <2>1, <3>1, <3>2
    <2> QED
        BY <2>3
<1>5. ASSUME UNCHANGED m_list_buf, Published' = Published PROVE NewestWithoutGap'
    BY <1>5
<1>6. CASE ReadSize \/ Sample
    BY <1>0, <1>5, <1>6 DEF ReadSize, PopLen, Sample
<1>7. CASE Race \/ ReceiveTooLong \/ UNCHANGED vars
    BY <1>5, <1>7 DEF Race, ReceiveTooLong, vars, timerVars
<1>8. CASE (\E word \in Words : Receive(word)) \/ ResetLogStatus \/ CheckSize
           \/ Front \/ Copy \/ Reply
    BY <1>5, <1>8 DEF Receive, ResetLogStatus, CheckSize, Front, Copy, Reply, timerVars
<1> QED
    BY <1>2, <1>3, <1>4, <1>6, <1>7, <1>8 DEF Next, Timer, Loop

\* Under NewestWithoutGap the front of a non-empty list is the sample that
\* many places before the newest.
LEMMA FrontIsOldest ==
    ASSUME TypeOK, NewestWithoutGap, m_list_buf # <<>>
    PROVE  /\ Head(m_list_buf) \in Nat
           /\ Len(m_list_buf) >= 1
           /\ Head(m_list_buf) + Len(m_list_buf) = Published + 1
<1>1. /\ Len(m_list_buf) \in Nat /\ Len(m_list_buf) >= 1
      /\ Head(m_list_buf) = m_list_buf[1] /\ Head(m_list_buf) \in Nat
    BY TailFacts, EmptyFacts DEF TypeOK
<1>2. m_list_buf[1] + (Len(m_list_buf) - 1) = Published
    BY <1>1 DEF NewestWithoutGap
<1>3. Published \in Int
    BY DEF Published, TypeOK
<1> QED
    BY <1>1, <1>2, <1>3

\* Exactly the samples whose text is free of the error message are sent.
LEMMA SentIsJson == TypeOK => (IsSent(text) <=> text = "json")
BY DEF TypeOK, IsSent, CHECK_ERROR

\* What has been sent stays older than what is in hand, and that older than
\* what the list holds.
LEMMA InHandStep ==
    /\ TypeOK /\ TypeOK' /\ NewestWithoutGap /\ Trimming /\ InHand
    /\ [Next]_vars
    => InHand'
<1> SUFFICES ASSUME TypeOK, TypeOK', NewestWithoutGap, Trimming, InHand, [Next]_vars
             PROVE  InHand'
    OBVIOUS
<1> USE DEF InHand
<1>0. /\ m_list_buf \in Seq(Nat) /\ Len(m_list_buf) \in Nat
      /\ Len(m_list_buf') \in Nat
      /\ sent \in Seq(Nat) /\ LastSent \in Nat
      /\ first \in Nat /\ first' \in Nat
      /\ Published \in Int /\ Published' \in Int
      /\ timer \in {"idle", "trim", "sample", "push"}
      /\ loop \in {"idle", "reset", "size", "front", "copy", "pop", "reply"}
    BY EmptyFacts DEF TypeOK, LastSent, Published
<1>1. ASSUME UNCHANGED loopVars,
             Published' - Len(m_list_buf') >= Published - Len(m_list_buf),
             Published' >= Published
      PROVE  InHand'
    <2>1. LastSent' = LastSent /\ first' = first /\ loop' = loop /\ text' = text
        BY <1>1 DEF LastSent, loopVars
    <2> QED
        BY <1>0, <1>1, <2>1
<1>2. CASE ReadSize
    BY <1>0, <1>1, <1>2 DEF ReadSize, PopLen, Published
<1>3. CASE TrimPop
    <2>1. m_list_buf # <<>> => Len(m_list_buf') = Len(m_list_buf) - 1
        BY <1>0, <1>3, TailFacts DEF TrimPop, Popped
    <2>2. Len(m_list_buf') <= Len(m_list_buf)
        BY <1>0, <1>3, <2>1 DEF TrimPop, Popped
    <2>3. Published' = Published
        BY <1>3 DEF TrimPop, Popped, Published, timerVars
    <2>4. UNCHANGED loopVars
        BY <1>3 DEF TrimPop, Popped
    <2> QED
        BY <1>0, <1>1, <2>2, <2>3, <2>4
<1>4. CASE Sample
    <2>1. Published' = Published
        BY <1>4 DEF Sample, Published, TypeOK
    <2> QED
        BY <1>0, <1>1, <1>4, <2>1 DEF Sample
<1>5. CASE PushBack
    <2>1. Len(m_list_buf') = Len(m_list_buf) + 1
        BY <1>0, <1>5, AppendFacts DEF PushBack, TypeOK
    <2>2. Published' = Published + 1
        BY <1>5 DEF PushBack, Published, TypeOK
    <2> QED
        BY <1>0, <1>1, <1>5, <2>1, <2>2 DEF PushBack
<1>6. CASE Race \/ ReceiveTooLong \/ UNCHANGED vars
    BY <1>0, <1>1, <1>6 DEF Race, ReceiveTooLong, vars, timerVars, loopVars, Published
<1>7. ASSUME UNCHANGED <<m_list_buf, timerVars, sent>>
      PROVE  Published' = Published /\ LastSent' = LastSent /\ Len(m_list_buf') = Len(m_list_buf)
    BY <1>7 DEF Published, LastSent, timerVars
<1>8. ASSUME NEW word \in Words, Receive(word) PROVE InHand'
    BY <1>0, <1>7, <1>8
       DEF Receive, Words, CHECK_WORD, DEAL_NDB_OPERATION, CHECK_ERROR
<1>9. CASE ResetLogStatus
    BY <1>0, <1>7, <1>9 DEF ResetLogStatus
<1>10. CASE CheckSize
    BY <1>0, <1>7, <1>10 DEF CheckSize
<1>11. CASE Front
    <2>1. CASE m_list_buf = <<>>
        BY <1>0, <1>7, <1>11, <2>1 DEF Front
    <2>2. CASE m_list_buf # <<>>
        <3>1. first' + Len(m_list_buf) = Published + 1 /\ Len(m_list_buf) >= 1
            BY <1>11, <2>2, FrontIsOldest DEF Front
        <3>2. loop' = "copy" /\ text' = text
            BY <1>11, <2>2 DEF Front
        <3>3. text # "json"
            BY <1>11 DEF Front
        <3> QED
            BY <1>0, <1>7, <1>11, <3>1, <3>2, <3>3 DEF Front
    <2> QED
        BY <2>1, <2>2
<1>12. CASE Copy
    BY <1>0, <1>7, <1>12 DEF Copy, CHECK_ERROR
<1>13. CASE PopFront
    <2>1. Published' = Published /\ LastSent' = LastSent
        BY <1>13 DEF PopFront, Popped, Published, LastSent, timerVars
    <2>2. CASE m_list_buf = <<>>
        BY <1>0, <1>13, <2>1, <2>2 DEF PopFront, Popped
    <2>3. CASE m_list_buf # <<>>
        <3>1. Len(m_list_buf') = Len(m_list_buf) - 1
            BY <1>0, <1>13, <2>3, TailFacts DEF PopFront, Popped
        <3> QED
            BY <1>0, <1>13, <2>1, <2>3, <3>1 DEF PopFront, Popped
    <2> QED
        BY <2>2, <2>3
<1>14. CASE Reply
    <2>1. Published' = Published /\ Len(m_list_buf') = Len(m_list_buf)
        BY <1>14 DEF Reply, Published, timerVars
    <2>2. CASE text = "json"
        <3>1. LastSent' = first
            <4>1. sent' = Append(sent, first)
                BY <1>14, <2>2, SentIsJson DEF Reply
            <4> QED
                BY <1>0, <4>1, AppendFacts DEF LastSent
        <3> QED
            BY <1>0, <1>14, <2>1, <2>2, <3>1 DEF Reply
    <2>3. CASE text # "json"
        BY <1>0, <1>14, <2>1, <2>3, SentIsJson DEF Reply, LastSent
    <2> QED
        BY <2>2, <2>3
<1> QED
    BY <1>2, <1>3, <1>4, <1>5, <1>6, <1>8, <1>9, <1>10, <1>11, <1>12, <1>13,
       <1>14 DEF Next, Timer, Loop

\* An answer is newer than all earlier ones.
LEMMA SentStep ==
    TypeOK /\ InHand /\ SentInOrder /\ [Next]_vars => SentInOrder'
<1> SUFFICES ASSUME TypeOK, InHand, SentInOrder, [Next]_vars PROVE SentInOrder'
    OBVIOUS
<1>1. CASE Reply /\ text = "json"
    <2>1. /\ sent \in Seq(Nat) /\ first \in Nat /\ Len(sent) \in Nat
          /\ \A i \in 1 .. Len(sent) : sent[i] \in Nat
        BY EmptyFacts DEF TypeOK
    <2>2. /\ Len(sent') = Len(sent) + 1
          /\ sent'[Len(sent) + 1] = first
          /\ \A i \in 1 .. Len(sent) : sent'[i] = sent[i]
        BY <1>1, <2>1, AppendFacts, SentIsJson DEF Reply
    <2>3. \A i \in 1 .. Len(sent) : sent[i] < first
        <3>1. SUFFICES ASSUME NEW i \in 1 .. Len(sent) PROVE sent[i] < first
            OBVIOUS
        <3>2. sent # <<>> /\ LastSent = sent[Len(sent)] /\ LastSent < first
            BY <1>1, <2>1, EmptyFacts DEF LastSent, InHand, Reply
        <3>3. i = Len(sent) \/ sent[i] < sent[Len(sent)]
            BY <2>1 DEF SentInOrder
        <3> QED
            BY <2>1, <3>2, <3>3
    <2>4. ASSUME NEW i \in 1 .. Len(sent'), NEW j \in 1 .. Len(sent'), i < j
          PROVE  sent'[i] < sent'[j]
        <3>1. i \in 1 .. Len(sent)
            BY <2>1, <2>2, <2>4
        <3>2. CASE j = Len(sent) + 1
            BY <2>2, <2>3, <3>1, <3>2
        <3>3. CASE j \in 1 .. Len(sent)
            BY <2>2, <2>4, <3>1, <3>3 DEF SentInOrder
        <3> QED
            BY <2>1, <2>2, <3>2, <3>3
    <2> QED
        BY <2>4 DEF SentInOrder
<1>2. ASSUME UNCHANGED sent PROVE SentInOrder'
    BY <1>2 DEF SentInOrder
<1>3. CASE ~ (Reply /\ text = "json")
    BY <1>2, <1>3, SentIsJson
       DEF Next, Timer, Loop, ReadSize, TrimPop, Sample, PushBack, Receive, ReceiveTooLong,
           ResetLogStatus, CheckSize, Front, Copy, PopFront, Reply, Race,
           vars, loopVars
<1> QED
    BY <1>1, <1>3

-----------------------------------------------------------------------------
\* IInv holds in the initial state,
LEMMA InitIInv == Init => IInv
<1> SUFFICES ASSUME Init PROVE IInv
    OBVIOUS
<1>1. Len(m_list_buf) = 0 /\ Len(sent) = 0
    BY DEF Init
<1>2. TypeOK
    <2>1. m_list_buf \in Seq(Nat) /\ sent \in Seq(Nat)
        BY DEF Init
    <2>2. m_bCheck \in BOOLEAN
        BY Zenon DEF Init
    <2> QED
        BY <2>1, <2>2 DEF Init, TypeOK
<1>3. NewestWithoutGap /\ SentInOrder
    BY <1>1 DEF NewestWithoutGap, SentInOrder
<1>4. BoundedBacklog /\ Trimming /\ Drained /\ UnderflowNeedsDrain
    BY <1>1, BoundsAssumption
       DEF Init, BoundedBacklog, Trimming, Drained, UnderflowNeedsDrain
<1>5. InHand
    BY <1>1 DEF Init, InHand, LastSent, Published
<1> QED
    BY <1>2, <1>3, <1>4, <1>5 DEF IInv

\* and every step preserves it.
LEMMA NextIInv == IInv /\ [Next]_vars => IInv'
<1> SUFFICES ASSUME IInv, [Next]_vars PROVE IInv'
    OBVIOUS
<1>1. TypeOK'
    BY TypeStep DEF IInv
<1>2. BoundedBacklog' /\ Trimming' /\ Drained' /\ UnderflowNeedsDrain'
    BY <1>1, BacklogStep DEF IInv
<1>3. NewestWithoutGap'
    BY <1>1, NoGapStep DEF IInv
<1>4. InHand'
    BY <1>1, InHandStep DEF IInv
<1>5. SentInOrder'
    BY SentStep DEF IInv
<1> QED
    BY <1>1, <1>2, <1>3, <1>4, <1>5 DEF IInv

\* The inductive invariant holds of every behaviour.
THEOREM Invariance == Spec => []IInv
BY InitIInv, NextIInv, PTL DEF Spec

\* Every variable keeps its type, whatever the two threads do to the list.
THEOREM TypeCorrect == Spec => []TypeOK
<1>1. IInv => TypeOK
    BY DEF IInv
<1> QED
    BY <1>1, Invariance, PTL

\* rset_list_buf bounds the unguarded list by LIMIT although it trims by a
\* size that other thread has made stale.
THEOREM Backlog == Spec => []BoundedBacklog
<1>1. IInv => BoundedBacklog
    BY DEF IInv
<1> QED
    BY <1>1, Invariance, PTL

\* The list always holds the newest samples, without a gap.
THEOREM NoGap == Spec => []NewestWithoutGap
<1>1. IInv => NewestWithoutGap
    BY DEF IInv
<1> QED
    BY <1>1, Invariance, PTL

\* A trim and the requests served during it leave REMAINDER samples together.
THEOREM TrimRemainder == Spec => []TrimKeepsRemainder
<1>1. IInv => TrimKeepsRemainder
    BY DEF IInv, Trimming, TrimKeepsRemainder
<1> QED
    BY <1>1, Invariance, PTL

\* pop_front of an empty list needs REMAINDER requests within one trim.
THEOREM Underflow == Spec => []UnderflowNeedsDrain
<1>1. IInv => UnderflowNeedsDrain
    BY DEF IInv
<1> QED
    BY <1>1, Invariance, PTL

\* No sample is sent twice or after a newer one.
THEOREM InOrder == Spec => []SentInOrder
<1>1. IInv => SentInOrder
    BY DEF IInv
<1> QED
    BY <1>1, Invariance, PTL

-----------------------------------------------------------------------------
\* Every step of the two threads publishes, answers, or changes nothing a
\* client can see.
LEMMA StepRefines == IInv /\ [Next]_vars => [Feed!Next]_<<Published, sent>>
<1> SUFFICES ASSUME IInv, [Next]_vars,
                    ~ (UNCHANGED <<Published, sent>>)
             PROVE  Feed!Next
    OBVIOUS
<1>0. /\ sent \in Seq(Nat) /\ LastSent \in Nat /\ first \in Nat
      /\ Published \in Int /\ produced \in Nat
    BY EmptyFacts DEF IInv, TypeOK, LastSent, Published
<1>1. CASE PushBack
    <2>1. Published' = Published + 1 /\ sent' = sent
        BY <1>0, <1>1 DEF PushBack, Published, loopVars
    <2> QED
        BY <2>1 DEF Feed!Next, Feed!Publish
<1>2. CASE Reply
    <2>1. Published' = Published
        BY <1>2 DEF Reply, Published, timerVars
    <2>2. text = "json" /\ sent' = Append(sent, first)
        BY <1>2, <2>1, SentIsJson DEF Reply, IInv
    <2>3. LastSent < first /\ first <= Published
        BY <1>2, <2>2 DEF IInv, InHand, Reply
    <2>4. Feed!Newest = LastSent
        BY DEF Feed!Newest, LastSent
    <2>5. first \in Feed!Newest + 1 .. Published
        BY <1>0, <2>3, <2>4
    <2> QED
        BY <2>1, <2>2, <2>5 DEF Feed!Next, Feed!Deliver
<1>3. CASE ~ PushBack /\ ~ Reply
    BY <1>0, <1>3
       DEF Next, Timer, Loop, ReadSize, TrimPop, Sample, Receive, ReceiveTooLong,
           ResetLogStatus, CheckSize, Front, Copy, PopFront, Race,
           vars, timerVars, loopVars, Published
<1> QED
    BY <1>1, <1>2, <1>3

\* The queue implements the feed of samples its clients rely on.
THEOREM Refinement == Spec => FeedSpec
<1>1. Init => Feed!Init
    BY DEF Init, Feed!Init, Published
<1>2. IInv /\ [Next]_vars => [Feed!Next]_<<Published, sent>>
    BY StepRefines
<1> QED
    BY <1>1, <1>2, Invariance, PTL DEF Spec, FeedSpec, Feed!Spec
=============================================================================
