------------------------- MODULE MysqlConnectionProofs -------------------------
(***************************************************************************)
(* Theorems about MysqlConnection for statements of any number of results.  *)
(* Each method is a set of outcomes, so the proof is one lemma per method:   *)
(* what it keeps of a good connection (Good), and what the connection is     *)
(* like after results have been cleared (Clear).                             *)
(***************************************************************************)
EXTENDS MysqlConnection, TLAPS

\* A connection between two calls: results freed once, in step with the server,
\* a pointer into a dead frame only where the connect string is known, and no
\* result waiting on a session that is gone.
Good(c) ==
    /\ c \in Connections
    /\ c.stored = IF c.m_myres THEN 1 ELSE 0
    /\ c.err # "sync"
    /\ c.m_myres => ~ c.cur
    /\ c.m_dbCon = "local" => c.m_strDB
    /\ c.cur => c.vio

\* Nothing is stored, and the next command would be accepted.
Clear(c) == Good(c) /\ ~ c.m_myres /\ (c.vio => ~ Waiting(c))

\* Nothing for get_record_set to return.
Empty(c) == ~ c.m_myres /\ ~ c.cur

LEMMA ClearEmpty ==
    ASSUME NEW c, Clear(c)
    PROVE  Empty(c)
BY DEF Clear, Good, Empty, Waiting

\* What only connect and disconnect change.
Same(c, d) ==
    d.m_strDB = c.m_strDB /\ d.m_nStatus = c.m_nStatus /\ d.m_dbCon = c.m_dbCon

-----------------------------------------------------------------------------
(* The library.                                                             *)

\* What is put into the fields of a session.
Session(c, d, vio, err, cur, more) ==
    /\ d \in Connections
    /\ d.vio = vio /\ d.err = err /\ d.cur = cur /\ d.more = more
    /\ d.stored = c.stored /\ d.m_myres = c.m_myres /\ Same(c, d)

LEMMA Zero == 0 \in 0 .. MaxMore
BY ConstantsAssumption

\* A session that is lost keeps what belongs to the object.
LEMMA LostFacts ==
    ASSUME NEW c, Good(c)
    PROVE  /\ Good(Lost(c)) /\ Session(c, Lost(c), FALSE, "lost", FALSE, c.more)
<1>1. Session(c, Lost(c), FALSE, "lost", FALSE, c.more)
    BY DEF Good, Session, Same, Lost, Connections
<1> QED
    BY <1>1 DEF Good, Session, Same

\* A new session has no results.
LEMMA NewSessionFacts ==
    ASSUME NEW c, Good(c)
    PROVE  Good(NewSession(c)) /\ Session(c, NewSession(c), TRUE, "none", FALSE, 0)
<1>1. Session(c, NewSession(c), TRUE, "none", FALSE, 0)
    BY Zero DEF Good, Session, Same, NewSession, Connections
<1> QED
    BY <1>1 DEF Good, Session, Same

\* A session whose last error or results change stays good.
LEMMA SessionGood ==
    ASSUME NEW c, Good(c), NEW d, NEW vio, NEW err, err # "sync", NEW cur,
           cur => ~ c.m_myres, cur => vio, NEW more, Session(c, d, vio, err, cur, more)
    PROVE  Good(d)
BY DEF Good, Session, Same

\* Freeing m_myres leaves nothing stored.
LEMMA FreeFacts ==
    ASSUME NEW c, Good(c)
    PROVE  /\ Good(FreeResult(c)) /\ Same(c, FreeResult(c)) /\ ~ FreeResult(c).m_myres
           /\ FreeResult(c).vio = c.vio /\ FreeResult(c).more = c.more
<1>1. CASE c.m_myres
    <2> DEFINE d == [c EXCEPT !.stored = 0, !.m_myres = FALSE]
    <2>0. c \in Connections /\ 0 \in 0 .. 1
        BY DEF Good
    <2>1. d \in Connections
        BY <2>0 DEF Connections
    <2>4. d.stored = 0 /\ ~ d.m_myres
        BY DEF Good, Connections
    <2>2. /\ d.err = c.err /\ d.vio = c.vio /\ d.more = c.more /\ d.cur = c.cur
          /\ d.m_strDB = c.m_strDB /\ d.m_nStatus = c.m_nStatus /\ d.m_dbCon = c.m_dbCon
        BY DEF Good, Connections
    <2>3. FreeResult(c) = d
        BY <1>1 DEF FreeResult
    <2> HIDE DEF d
    <2> QED
        BY <2>1, <2>2, <2>3, <2>4 DEF Good, Same
<1>2. CASE ~ c.m_myres
    BY <1>2 DEF FreeResult, Same
<1> QED
    BY <1>1, <1>2

\* After clear_all_result_set the next command is accepted; a lost session
\* that had announced nothing is no longer known to be lost.
LEMMA ClearFacts ==
    ASSUME NEW c, Good(c), NEW d \in clear_all_result_set(c)
    PROVE  /\ Clear(d) /\ Same(c, d)
           /\ ~ c.vio /\ c.more = 0 => d.err = "none" /\ ~ d.vio
<1> DEFINE f == FreeResult(c)
<1>1. /\ Good(f) /\ Same(c, f) /\ ~ f.m_myres /\ f.vio = c.vio /\ f.more = c.more
    BY FreeFacts
<1>2. d \in Drained(f)
    BY DEF clear_all_result_set
<1> HIDE DEF f
<1>3. Good(Lost(f)) /\ Session(f, Lost(f), FALSE, "lost", FALSE, f.more)
    BY <1>1, LostFacts
<1>4. CASE d = [f EXCEPT !.err = "none", !.cur = FALSE, !.more = 0] /\ f.vio
    <2>1. Session(f, d, TRUE, "none", FALSE, 0)
        BY <1>1, <1>4, Zero DEF Good, Session, Same, Connections
    <2>2. Good(d)
        BY <1>1, <2>1, SessionGood
    <2>3. ~ Waiting(d)
        BY <2>1 DEF Session, Waiting
    <2> QED
        BY <1>1, <1>4, <2>1, <2>2, <2>3 DEF Session, Same, Clear
<1>5. CASE d = [Lost(f) EXCEPT !.err = "none", !.more = 0] /\ f.vio
    <2>1. Session(f, d, FALSE, "none", FALSE, 0)
        BY <1>1, <1>3, <1>5, Zero DEF Good, Session, Same, Connections
    <2> QED
        BY <1>1, <1>5, <2>1, SessionGood DEF Session, Same, Clear
<1>6. CASE d = Lost(f) /\ (f.vio \/ f.more > 0)
    BY <1>1, <1>3, <1>6 DEF Clear, Same, Session
<1>7. CASE d = [f EXCEPT !.err = "other", !.cur = FALSE, !.more = 0] /\ f.vio
    <2>1. Session(f, d, TRUE, "other", FALSE, 0)
        BY <1>1, <1>7, Zero DEF Good, Session, Same, Connections
    <2>2. Good(d)
        BY <1>1, <2>1, SessionGood
    <2>3. ~ Waiting(d)
        BY <2>1 DEF Session, Waiting
    <2> QED
        BY <1>1, <1>7, <2>1, <2>2, <2>3 DEF Session, Same, Clear
<1>8. CASE d = [f EXCEPT !.err = "none"] /\ ~ f.vio
    <2>1. Session(f, d, FALSE, "none", f.cur, f.more) /\ ~ f.cur
        BY <1>1, <1>8 DEF Good, Session, Same, Connections
    <2> QED
        BY <1>1, <1>8, <2>1, SessionGood DEF Session, Same, Clear
<1> QED
    BY <1>2, <1>4, <1>5, <1>6, <1>7, <1>8 DEF Drained

-----------------------------------------------------------------------------
\* A ping leaves the connection clear; it answers only where a session is.
LEMMA PingFacts ==
    ASSUME NEW c, Clear(c), NEW auto \in BOOLEAN, NEW p \in mysql_ping(c, auto)
    PROVE  Clear(p.c) /\ Same(c, p.c)
<1>0. Good(c) /\ ~ c.m_myres /\ ~ c.cur /\ c.vio \in BOOLEAN
    BY ClearEmpty DEF Clear, Good, Connections, Empty
<1>1. /\ Good(Lost(c)) /\ Session(c, Lost(c), FALSE, "lost", FALSE, c.more)
      /\ Good(NewSession(c)) /\ Session(c, NewSession(c), TRUE, "none", FALSE, 0)
    BY <1>0, LostFacts, NewSessionFacts
<1>2. CASE p = [c |-> Lost(c), ok |-> FALSE]
    BY <1>0, <1>1, <1>2 DEF Clear, Session
<1>3. CASE p = [c |-> [c EXCEPT !.err = "none"], ok |-> TRUE]
    <2>1. Session(c, p.c, c.vio, "none", c.cur, c.more)
        BY <1>0, <1>3 DEF Good, Session, Same, Connections
    <2>2. Good(p.c)
        BY <1>0, <2>1, SessionGood
    <2> QED
        BY <1>0, <2>1, <2>2 DEF Clear, Session, Waiting
<1>4. CASE p = [c |-> NewSession(c), ok |-> TRUE]
    <2>1. ~ Waiting(NewSession(c))
        BY <1>1 DEF Session, Waiting
    <2> QED
        BY <1>0, <1>1, <1>4, <2>1 DEF Clear, Session
<1>5. CASE p = [c |-> [Lost(c) EXCEPT !.err = "other"], ok |-> FALSE]
    <2>1. Session(c, p.c, FALSE, "other", FALSE, c.more)
        BY <1>0, <1>1, <1>5 DEF Good, Session, Same, Connections
    <2>2. Good(p.c)
        BY <1>0, <2>1, SessionGood
    <2> QED
        BY <1>0, <2>1, <2>2 DEF Clear, Session
<1> QED
    BY <1>0, <1>2, <1>3, <1>4, <1>5 DEF mysql_ping, Clear

\* A statement on a clear connection: if it failed the connection is clear, and
\* where it may have taken effect all the same the session is lost.
LEMMA QueryFacts ==
    ASSUME NEW c, Clear(c), NEW q \in mysql_query(c)
    PROVE  /\ Good(q.c) /\ ~ q.c.m_myres /\ Same(c, q.c)
           /\ q.ok \in BOOLEAN /\ q.applied \in 0 .. 1
           /\ q.ok => q.applied = 1
           /\ ~ q.ok => Clear(q.c) /\ q.c.err \in {"lost", "other"}
           /\ ~ q.ok /\ q.applied = 1 => ~ q.c.vio /\ q.c.more = 0
<1>0. Good(c) /\ ~ c.m_myres /\ c.vio \in BOOLEAN
    BY DEF Clear, Good, Connections
<1>1. Good(Lost(c)) /\ Session(c, Lost(c), FALSE, "lost", FALSE, c.more)
    BY <1>0, LostFacts
<1>2. CASE ~ c.vio
    <2>1. q = [c |-> Lost(c), ok |-> FALSE, applied |-> 0]
        BY <1>2 DEF mysql_query
    <2> QED
        BY <1>0, <1>1, <2>1 DEF Session, Clear
<1>3. CASE c.vio
    <2>0. ~ Waiting(c) /\ c.more = 0
        BY <1>0, <1>3 DEF Clear, Waiting, Good, Connections
    <2>1. ASSUME NEW r \in BOOLEAN \X (0 .. MaxMore),
                 q = [c |-> [c EXCEPT !.err = "none", !.cur = r[1], !.more = r[2]],
                      ok |-> TRUE, applied |-> 1]
          PROVE  Good(q.c) /\ ~ q.c.m_myres /\ Same(c, q.c) /\ q.ok = TRUE /\ q.applied = 1
        <3>1. Session(c, q.c, TRUE, "none", r[1], r[2])
            BY <1>0, <1>3, <2>1 DEF Good, Session, Same, Connections
        <3>2. Good(q.c)
            BY <1>0, <3>1, SessionGood
        <3> QED
            BY <1>0, <2>1, <3>1, <3>2 DEF Session
    <2>2. CASE q = [c |-> [c EXCEPT !.err = "other"], ok |-> FALSE, applied |-> 0]
        <3>1. Session(c, q.c, TRUE, "other", c.cur, c.more)
            BY <1>0, <1>3, <2>2 DEF Good, Session, Same, Connections
        <3>2. Good(q.c)
            BY <1>0, <3>1, SessionGood
        <3> QED
            BY <1>0, <2>0, <2>2, <3>1, <3>2 DEF Session, Clear, Waiting
    <2>3. ASSUME NEW n \in 0 .. 1, q = [c |-> Lost(c), ok |-> FALSE, applied |-> n]
          PROVE  /\ Clear(q.c) /\ Same(c, q.c) /\ q.c.err = "lost" /\ ~ q.c.vio /\ q.c.more = 0
                 /\ q.ok = FALSE /\ q.applied \in 0 .. 1
        BY <1>0, <1>1, <2>0, <2>3 DEF Session, Clear
    <2>4. \/ \E r \in BOOLEAN \X (0 .. MaxMore) :
                q = [c |-> [c EXCEPT !.err = "none", !.cur = r[1], !.more = r[2]],
                     ok |-> TRUE, applied |-> 1]
          \/ q = [c |-> [c EXCEPT !.err = "other"], ok |-> FALSE, applied |-> 0]
          \/ \E n \in 0 .. 1 : q = [c |-> Lost(c), ok |-> FALSE, applied |-> n]
        BY <1>3, <2>0, Zenon DEF mysql_query
    <2>5. CASE \E r \in BOOLEAN \X (0 .. MaxMore) :
                q = [c |-> [c EXCEPT !.err = "none", !.cur = r[1], !.more = r[2]],
                     ok |-> TRUE, applied |-> 1]
        <3>1. Good(q.c) /\ ~ q.c.m_myres /\ Same(c, q.c) /\ q.ok = TRUE /\ q.applied = 1
            BY <2>1, <2>5, Zenon
        <3>2. q.ok /\ q.ok \in BOOLEAN
            BY <3>1
        <3>3. q.applied \in 0 .. 1
            BY <3>1
        <3> QED
            BY <3>1, <3>2, <3>3, Zenon
    <2>6. CASE q = [c |-> [c EXCEPT !.err = "other"], ok |-> FALSE, applied |-> 0]
        BY <2>2, <2>6
    <2>7. CASE \E n \in 0 .. 1 : q = [c |-> Lost(c), ok |-> FALSE, applied |-> n]
        BY <2>3, <2>7 DEF Clear
    <2> QED
        BY <2>4, <2>5, <2>6, <2>7
<1> QED
    BY <1>0, <1>2, <1>3

-----------------------------------------------------------------------------
(* Connecting.                                                              *)

Outcomes == [c : Connections, rc : Codes, here : {"no", "string", "local", "callers"},
             applied : 0 .. 2]

\* An outcome that reports nothing else than its code.
LEMMA OutcomeFacts ==
    ASSUME NEW c \in Connections, NEW rc \in Codes
    PROVE  /\ Outcome(c, rc) \in Outcomes
           /\ Outcome(c, rc).c = c /\ Outcome(c, rc).rc = rc
           /\ Outcome(c, rc).here = "no" /\ Outcome(c, rc).applied = 0
BY DEF Outcome, Outcomes

\* The last error of a clear connection may become one of the server's.
LEMMA OtherError ==
    ASSUME NEW c, Clear(c)
    PROVE  Clear([c EXCEPT !.err = "other"]) /\ Same(c, [c EXCEPT !.err = "other"])
<1> DEFINE d == [c EXCEPT !.err = "other"]
<1>0. Good(c) /\ ~ c.m_myres /\ ~ c.cur
    BY ClearEmpty DEF Clear, Empty
<1>1. Session(c, d, c.vio, "other", c.cur, c.more)
    BY <1>0 DEF Good, Session, Same, Connections
<1>2. Good(d)
    BY <1>0, <1>1, SessionGood
<1>3. Waiting(d) <=> Waiting(c)
    BY <1>1 DEF Session, Waiting
<1> QED
    BY <1>0, <1>1, <1>2, <1>3 DEF Clear, Session

LEMMA LostClear ==
    ASSUME NEW c, Clear(c)
    PROVE  Clear(Lost(c)) /\ Same(c, Lost(c))
BY LostFacts DEF Clear, Session

LEMMA RealConnectFacts ==
    ASSUME NEW c, Clear(c), NEW d \in mysql_real_connect(c)
    PROVE  Clear(d) /\ Same(c, d)
<1>0. Good(c) /\ ~ c.m_myres /\ ~ c.cur
    BY ClearEmpty DEF Clear, Empty
<1>1. CASE d = [c EXCEPT !.err = "other"]
    BY <1>1, OtherError
<1>2. CASE d = NewSession(c)
    <2>0. Session(c, NewSession(c), TRUE, "none", FALSE, 0)
        BY <1>0, NewSessionFacts
    <2>1. ~ Waiting(NewSession(c))
        BY <2>0 DEF Session, Waiting
    <2> QED
        BY <1>0, <1>2, <2>1, NewSessionFacts DEF Session, Clear
<1>3. ASSUME ~ c.vio, NEW e \in {"lost", "other"}, d = [c EXCEPT !.err = e, !.more = 0]
      PROVE  Clear(d) /\ Same(c, d)
    <2>1. Session(c, d, FALSE, e, c.cur, 0)
        BY <1>0, <1>3, Zero DEF Good, Session, Same, Connections
    <2>2. Good(d)
        BY <1>0, <2>1, SessionGood
    <2> QED
        BY <1>0, <2>1, <2>2 DEF Clear, Session
<1> QED
    BY <1>1, <1>2, <1>3 DEF mysql_real_connect

\* connect(const db_conn_str_t*) opens the status whether it connects or not.
LEMMA ConnectStructFacts ==
    ASSUME NEW c, Clear(c), NEW dbCon \in {"local", "callers"}, dbCon = "local" => c.m_strDB,
           NEW o \in connect_struct(c, dbCon)
    PROVE  /\ o \in Outcomes /\ o.here = "no" /\ o.applied = 0
           /\ Clear(o.c) /\ o.c.m_nStatus = "OPEN" /\ o.c.m_strDB = c.m_strDB
<1> DEFINE opened == [c EXCEPT !.m_nStatus = "OPEN", !.m_dbCon = dbCon]
<1>0. Good(c) /\ ~ c.m_myres
    BY DEF Clear
<1>1. /\ opened \in Connections
      /\ opened.m_nStatus = "OPEN" /\ opened.m_dbCon = dbCon /\ opened.m_strDB = c.m_strDB
      /\ opened.stored = c.stored /\ opened.m_myres = c.m_myres /\ opened.err = c.err
      /\ opened.cur = c.cur /\ opened.more = c.more /\ opened.vio = c.vio
    BY <1>0 DEF Good, Connections, Statuses
<1>2. Clear(opened)
    BY <1>0, <1>1 DEF Good, Clear, Waiting
<1>3. PICK d \in mysql_real_connect(opened) :
        o \in IF d.err # "none"
                THEN {Outcome(d, "FAILED")}
                ELSE {Outcome(d, "OK"),
                      Outcome([d EXCEPT !.err = "other"], "FAILED"),
                      Outcome(Lost(d), "FAILED"),
                      Outcome([d EXCEPT !.err = "other"], "OK"),
                      Outcome(Lost(d), "OK")}
    BY Zenon DEF connect_struct
<1> HIDE DEF opened
<1>4. Clear(d) /\ Same(opened, d)
    BY <1>2, <1>3, RealConnectFacts
<1>5. ASSUME NEW e, Clear(e), Same(d, e), NEW rc \in Codes, o = Outcome(e, rc)
      PROVE  /\ o \in Outcomes /\ o.here = "no" /\ o.applied = 0
             /\ Clear(o.c) /\ o.c.m_nStatus = "OPEN" /\ o.c.m_strDB = c.m_strDB
    <2>1. e \in Connections
        BY <1>5 DEF Clear, Good
    <2> QED
        BY <1>1, <1>4, <1>5, <2>1, OutcomeFacts DEF Same
<1>6. /\ Clear(d) /\ Same(d, d) /\ Clear(Lost(d)) /\ Same(d, Lost(d))
      /\ Clear([d EXCEPT !.err = "other"]) /\ Same(d, [d EXCEPT !.err = "other"])
      /\ "OK" \in Codes /\ "FAILED" \in Codes
    BY <1>4, OtherError, LostClear DEF Same, Codes
<1>7. \/ o = Outcome(d, "FAILED") \/ o = Outcome(d, "OK")
      \/ o = Outcome([d EXCEPT !.err = "other"], "FAILED") \/ o = Outcome(Lost(d), "FAILED")
      \/ o = Outcome([d EXCEPT !.err = "other"], "OK") \/ o = Outcome(Lost(d), "OK")
    BY <1>3
<1> QED
    BY <1>5, <1>6, <1>7, Zenon

\* connect(const CHAR_T*) refuses all but a new object.
LEMMA ConnectStringFacts ==
    ASSUME NEW c, Clear(c), NEW o \in connect_string(c)
    PROVE  /\ o \in Outcomes /\ o.here = "no" /\ o.applied = 0
           /\ Clear(o.c) /\ (c.m_strDB => o.c.m_strDB)
           /\ c.m_nStatus # "INIT" => o.c = c /\ o.rc = "STATUS"
<1>0. Good(c) /\ ~ c.m_myres /\ c \in Connections /\ {"STATUS", "ILLEGAL_PARAM"} \subseteq Codes
    BY DEF Clear, Good, Codes
<1>1. CASE c.m_nStatus # "INIT"
    <2>1. o = Outcome(c, "STATUS")
        BY <1>1 DEF connect_string
    <2> QED
        BY <1>0, <2>1, OutcomeFacts
<1>2. CASE c.m_nStatus = "INIT" /\ o = Outcome(c, "ILLEGAL_PARAM")
    BY <1>0, <1>2, OutcomeFacts
<1>3. CASE c.m_nStatus = "INIT" /\ o \in connect_struct([c EXCEPT !.m_strDB = TRUE], "local")
    <2> DEFINE named == [c EXCEPT !.m_strDB = TRUE]
    <2>1. /\ named \in Connections
          /\ named.m_nStatus = c.m_nStatus /\ named.m_dbCon = c.m_dbCon /\ named.m_strDB = TRUE
          /\ named.stored = c.stored /\ named.m_myres = c.m_myres /\ named.err = c.err
          /\ named.cur = c.cur /\ named.more = c.more /\ named.vio = c.vio
        BY <1>0 DEF Good, Connections
    <2>2. Clear(named)
        BY <1>0, <2>1 DEF Good, Clear, Waiting
    <2> HIDE DEF named
    <2>3. o \in connect_struct(named, "local")
        BY <1>3 DEF named
    <2> QED
        BY <1>3, <2>1, <2>2, <2>3, ConnectStructFacts
<1> QED
    BY <1>1, <1>2, <1>3 DEF connect_string

\* What reconnect connects with is noted and nothing else changes.
LEMMA HereFacts ==
    ASSUME NEW S, NEW by \in {"no", "string", "local", "callers"}, NEW o \in Here(S, by),
           S \subseteq Outcomes
    PROVE  \E r \in S : o \in Outcomes /\ o.c = r.c /\ o.rc = r.rc /\ o.applied = r.applied /\ o.here = by
<1>1. PICK r \in S : o = [r EXCEPT !.here = by]
    BY DEF Here
<1> QED
    BY <1>1 DEF Outcomes

\* Connecting again uses the connect string if there is one, and then refuses,
\* since the status is open; it never uses the dead frame's.
LEMMA ConnectAgainFacts ==
    ASSUME NEW c, Clear(c), c.m_nStatus = "OPEN", NEW o \in ConnectAgain(c)
    PROVE  /\ o \in Outcomes /\ o.here # "local" /\ o.applied = 0
           /\ Clear(o.c) /\ o.c.m_nStatus = "OPEN" /\ o.c.m_strDB = c.m_strDB
           /\ c.m_strDB => o.rc # "OK"
<1>0. Good(c) /\ c \in Connections /\ "FAILED" \in Codes
    BY DEF Clear, Good, Codes
<1>1. CASE c.m_strDB
    <2>1. o \in Here(connect_string(c), "string")
        BY <1>1 DEF ConnectAgain
    <2>2. \A r \in connect_string(c) : r \in Outcomes /\ r.applied = 0 /\ r.c = c /\ r.rc = "STATUS"
        BY ConnectStringFacts
    <2>3. PICK r \in connect_string(c) :
            o \in Outcomes /\ o.c = r.c /\ o.rc = r.rc /\ o.applied = r.applied /\ o.here = "string"
        BY <2>1, <2>2, HereFacts
    <2> QED
        BY <2>2, <2>3
<1>2. CASE ~ c.m_strDB /\ c.m_dbCon # "null"
    <2>1. c.m_dbCon = "callers"
        BY <1>0, <1>2 DEF Good, Connections
    <2>2. o \in Here(connect_struct(c, "callers"), "callers")
        BY <1>2, <2>1 DEF ConnectAgain
    <2>3. \A r \in connect_struct(c, "callers") :
            /\ r \in Outcomes /\ r.applied = 0
            /\ Clear(r.c) /\ r.c.m_nStatus = "OPEN" /\ r.c.m_strDB = c.m_strDB
        BY ConnectStructFacts
    <2>4. PICK r \in connect_struct(c, "callers") :
            o \in Outcomes /\ o.c = r.c /\ o.rc = r.rc /\ o.applied = r.applied /\ o.here = "callers"
        BY <2>2, <2>3, HereFacts
    <2> QED
        BY <1>2, <2>3, <2>4
<1>3. CASE ~ c.m_strDB /\ c.m_dbCon = "null"
    <2>1. o = Outcome(c, "FAILED")
        BY <1>3 DEF ConnectAgain
    <2> QED
        BY <1>0, <1>3, <2>1, OutcomeFacts
<1> QED
    BY <1>1, <1>2, <1>3

-----------------------------------------------------------------------------
(* Repairing.                                                               *)

\* What reconnect and check_connect keep of an open connection.
Kept(c, o) ==
    /\ o \in Outcomes /\ o.here # "local" /\ o.applied = 0
    /\ Clear(o.c) /\ o.c.m_nStatus = "OPEN" /\ o.c.m_strDB = c.m_strDB

\* An outcome of an open, clear connection that reports only its code.
LEMMA KeptOutcome ==
    ASSUME NEW c, c.m_nStatus = "OPEN", NEW d, Clear(d), Same(c, d), NEW rc \in Codes
    PROVE  Kept(c, Outcome(d, rc))
<1>1. d \in Connections
    BY DEF Clear, Good
<1> QED
    BY <1>1, OutcomeFacts DEF Kept, Same

\* A session the library has forgotten is not made again where connect was
\* given a string.
LEMMA RepairedFacts ==
    ASSUME NEW d, Clear(d), d.m_nStatus = "OPEN", NEW o \in Repaired(d)
    PROVE  /\ Kept(d, o)
           /\ d.m_strDB /\ d.err = "none" /\ ~ d.vio => o.rc # "OK"
<1>0. {"OK", "FAILED"} \subseteq Codes
    BY DEF Codes
<1>1. CASE d.err = "none" /\ d.vio
    <2>1. o = Outcome(d, "OK")
        BY <1>1 DEF Repaired
    <2> QED
        BY <1>0, <1>1, <2>1, KeptOutcome DEF Same
<1>2. CASE d.err = "lost"
    <2>1. PICK p \in mysql_ping(d, TRUE) : o = Outcome(p.c, IF p.ok THEN "OK" ELSE "FAILED")
        BY <1>2 DEF Repaired
    <2>2. Clear(p.c) /\ Same(d, p.c)
        BY PingFacts
    <2> QED
        BY <1>0, <1>2, <2>1, <2>2, KeptOutcome
<1>3. CASE d.err # "lost" /\ ~ (d.err = "none" /\ d.vio)
    <2>1. o \in ConnectAgain(d)
        BY <1>3 DEF Repaired
    <2> QED
        BY <2>1, ConnectAgainFacts DEF Kept
<1> QED
    BY <1>1, <1>2, <1>3

LEMMA ReconnectFacts ==
    ASSUME NEW c, Good(c), NEW o \in reconnect(c)
    PROVE  /\ c.m_nStatus # "OPEN" => o = Outcome(c, "STATUS")
           /\ c.m_nStatus = "OPEN" => Kept(c, o)
           /\ c.m_strDB /\ ~ c.vio /\ c.more = 0 => o.rc # "OK"
<1>1. CASE c.m_nStatus # "OPEN"
    BY <1>1 DEF reconnect, Outcome
<1>2. CASE c.m_nStatus = "OPEN"
    <2>1. PICK d \in clear_all_result_set(c) : o \in Repaired(d)
        BY <1>2, Zenon DEF reconnect
    <2>2. /\ Clear(d) /\ Same(c, d)
          /\ ~ c.vio /\ c.more = 0 => d.err = "none" /\ ~ d.vio
        BY ClearFacts
    <2>3. /\ Kept(d, o)
          /\ d.m_strDB /\ d.err = "none" /\ ~ d.vio => o.rc # "OK"
        BY <1>2, <2>1, <2>2, RepairedFacts DEF Same
    <2> QED
        BY <1>2, <2>2, <2>3 DEF Kept, Same
<1> QED
    BY <1>1, <1>2

-----------------------------------------------------------------------------
(* The methods a caller sees.                                               *)

\* What a call may leave behind: only an object connect was never called on, or
\* refused, is as good as new.
Fine(c, o) ==
    /\ o \in Outcomes /\ o.here # "local" /\ Good(o.c)
    /\ o.c = c \/ o.c.m_nStatus # "INIT"

\* ... in a call other than execute.
Plain(c, o) == Fine(c, o) /\ o.applied = 0

LEMMA PlainOutcome ==
    ASSUME NEW c, Good(c), NEW d, Good(d), d = c \/ d.m_nStatus # "INIT", NEW rc \in Codes
    PROVE  Plain(c, Outcome(d, rc))
<1>1. d \in Connections
    BY DEF Good
<1> QED
    BY <1>1, OutcomeFacts DEF Fine, Plain

LEMMA KeptPlain ==
    ASSUME NEW c, NEW o, Kept(c, o)
    PROVE  Plain(c, o)
BY DEF Kept, Fine, Clear, Plain

LEMMA ReconnectPlain ==
    ASSUME NEW c, Good(c), NEW o \in reconnect(c)
    PROVE  Plain(c, o)
<1>1. "STATUS" \in Codes
    BY DEF Codes
<1> QED
    BY <1>1, ReconnectFacts, PlainOutcome, KeptPlain

\* Only a new object is connected.
LEMMA ConnectStringPlain ==
    ASSUME NEW c, Good(c), c.m_nStatus = "INIT" => ~ c.m_myres /\ ~ c.vio,
           NEW o \in connect_string(c)
    PROVE  Plain(c, o)
<1>0. {"STATUS", "ILLEGAL_PARAM"} \subseteq Codes
    BY DEF Codes
<1>1. CASE c.m_nStatus # "INIT"
    <2>1. o = Outcome(c, "STATUS")
        BY <1>1 DEF connect_string
    <2> QED
        BY <1>0, <2>1, PlainOutcome
<1>2. CASE c.m_nStatus = "INIT"
    <2>1. Clear(c)
        BY <1>2 DEF Clear
    <2>2. CASE o = Outcome(c, "ILLEGAL_PARAM")
        BY <1>0, <2>2, PlainOutcome
    <2>3. CASE o \in connect_struct([c EXCEPT !.m_strDB = TRUE], "local")
        <3> DEFINE named == [c EXCEPT !.m_strDB = TRUE]
        <3>0. c \in Connections
            BY DEF Good
        <3>1. /\ named \in Connections
              /\ named.m_nStatus = c.m_nStatus /\ named.m_dbCon = c.m_dbCon /\ named.m_strDB = TRUE
              /\ named.stored = c.stored /\ named.m_myres = c.m_myres /\ named.err = c.err
              /\ named.cur = c.cur /\ named.more = c.more /\ named.vio = c.vio
            BY <3>0 DEF Connections
        <3>2. Clear(named)
            BY <2>1, <3>1 DEF Good, Clear, Waiting
        <3> HIDE DEF named
        <3>3. o \in connect_struct(named, "local")
            BY <2>3 DEF named
        <3> QED
            BY <3>1, <3>2, <3>3, ConnectStructFacts DEF Fine, Plain, Clear
    <2> QED
        BY <1>2, <2>2, <2>3 DEF connect_string
<1> QED
    BY <1>1, <1>2

LEMMA ConnectStructPlain ==
    ASSUME NEW c, Good(c), ~ c.m_myres, ~ c.vio, NEW o \in connect_struct(c, "callers")
    PROVE  Plain(c, o)
<1>1. Clear(c)
    BY DEF Clear
<1> QED
    BY <1>1, ConnectStructFacts DEF Fine, Plain, Clear

LEMMA DisconnectPlain ==
    ASSUME NEW c, Good(c), NEW o \in disconnect(c)
    PROVE  Plain(c, o)
<1>1. PICK d \in clear_all_result_set(c) :
        o = Outcome([d EXCEPT !.m_nStatus = "UNKNOWN", !.vio = FALSE, !.err = "none"], "OK")
    BY DEF disconnect
<1>2. Good(d) /\ ~ d.m_myres /\ d \in Connections /\ ~ d.cur
    BY ClearFacts, ClearEmpty DEF Clear, Good, Empty
<1> DEFINE e == [d EXCEPT !.m_nStatus = "UNKNOWN", !.vio = FALSE, !.err = "none"]
<1>3. /\ e \in Connections
      /\ e.m_nStatus = "UNKNOWN" /\ e.m_dbCon = d.m_dbCon /\ e.m_strDB = d.m_strDB
      /\ e.stored = d.stored /\ e.m_myres = d.m_myres /\ e.err = "none" /\ e.cur = d.cur
    BY <1>2 DEF Connections, Statuses
<1>4. Good(e) /\ "OK" \in Codes
    BY <1>2, <1>3 DEF Good, Codes
<1> QED
    BY <1>1, <1>3, <1>4, PlainOutcome

LEMMA CheckConnectPlain ==
    ASSUME NEW c, Good(c), NEW bKeepAlive \in BOOLEAN, NEW bFix \in BOOLEAN,
           NEW o \in check_connect(c, bKeepAlive, bFix)
    PROVE  Plain(c, o)
<1>0. {"OK", "FAILED", "STATUS"} \subseteq Codes
    BY DEF Codes
<1>1. CASE o = Outcome(c, "STATUS") \/ o = Outcome(c, "OK")
    BY <1>0, <1>1, PlainOutcome
<1>2. ASSUME c.m_nStatus = "OPEN", NEW d \in clear_all_result_set(c), NEW p \in mysql_ping(d, FALSE),
             o \in IF p.ok THEN {Outcome(p.c, "OK")}
                   ELSE IF bFix THEN reconnect(p.c)
                   ELSE {Outcome(p.c, "FAILED")}
      PROVE  Plain(c, o)
    <2>1. Clear(d) /\ Same(c, d)
        BY <1>2, ClearFacts
    <2>2. Clear(p.c) /\ Same(d, p.c)
        BY <1>2, <2>1, PingFacts
    <2>3. Good(p.c) /\ p.c.m_nStatus = "OPEN"
        BY <1>2, <2>1, <2>2 DEF Clear, Same
    <2>4. CASE o = Outcome(p.c, "OK") \/ o = Outcome(p.c, "FAILED")
        BY <1>0, <2>3, <2>4, PlainOutcome
    <2>5. CASE o \in reconnect(p.c)
        BY <2>3, <2>5, ReconnectFacts DEF Plain, Fine, Kept, Clear
    <2> QED
        BY <1>2, <2>4, <2>5
<1>3. CASE c.m_nStatus = "OPEN" /\ (bKeepAlive \/ bFix)
    <2>1. o \in UNION {UNION {IF p.ok THEN {Outcome(p.c, "OK")}
                              ELSE IF bFix THEN reconnect(p.c)
                              ELSE {Outcome(p.c, "FAILED")}
                              : p \in mysql_ping(d, FALSE)}
                       : d \in clear_all_result_set(c)}
        BY <1>3 DEF check_connect
    <2>2. PICK d \in clear_all_result_set(c) :
            o \in UNION {IF p.ok THEN {Outcome(p.c, "OK")}
                         ELSE IF bFix THEN reconnect(p.c)
                         ELSE {Outcome(p.c, "FAILED")}
                         : p \in mysql_ping(d, FALSE)}
        BY <2>1, Zenon
    <2>3. PICK p \in mysql_ping(d, FALSE) :
            o \in IF p.ok THEN {Outcome(p.c, "OK")}
                  ELSE IF bFix THEN reconnect(p.c)
                  ELSE {Outcome(p.c, "FAILED")}
        BY <2>2, Zenon
    <2> QED
        BY <1>2, <1>3, <2>3
<1>4. CASE ~ (c.m_nStatus = "OPEN" /\ (bKeepAlive \/ bFix))
    BY <1>1, <1>4 DEF check_connect
<1> QED
    BY <1>3, <1>4

LEMMA EndTransactionPlain ==
    ASSUME NEW c, Good(c), NEW o \in end_transaction(c)
    PROVE  Plain(c, o)
<1>0. {"OK", "FAILED", "STATUS"} \subseteq Codes
    BY DEF Codes
<1>1. CASE c.m_nStatus # "OPEN"
    BY <1>0, <1>1, PlainOutcome DEF end_transaction
<1>2. CASE c.m_nStatus = "OPEN"
    <2>1. PICK d \in clear_all_result_set(c) :
            o \in {Outcome(q.c, IF q.ok THEN "OK" ELSE "FAILED")
                     : q \in {s \in mysql_query(d) : s.ok => ~ Waiting(s.c)}}
        BY <1>2, Zenon DEF end_transaction
    <2>2. PICK q \in mysql_query(d) : o = Outcome(q.c, IF q.ok THEN "OK" ELSE "FAILED")
        BY <2>1
    <2>3. Clear(d) /\ Same(c, d)
        BY ClearFacts
    <2>4. Good(q.c) /\ Same(d, q.c)
        BY <2>3, QueryFacts
    <2> QED
        BY <1>0, <1>2, <2>2, <2>3, <2>4, PlainOutcome DEF Same
<1> QED
    BY <1>1, <1>2

-----------------------------------------------------------------------------
(* Results.                                                                 *)

LEMMA StoreFacts ==
    ASSUME NEW c, Good(c), ~ c.m_myres, c.m_nStatus = "OPEN", NEW o \in StoreResult(c)
    PROVE  o \in Outcomes /\ o.here = "no" /\ o.applied = 0 /\ Good(o.c) /\ o.c.m_nStatus = "OPEN"
<1>0. {"NULL", "OK"} \subseteq Codes /\ c \in Connections
    BY DEF Codes, Good
<1>1. CASE o = Outcome(c, "NULL")
    BY <1>0, <1>1, OutcomeFacts
<1>2. CASE o = Outcome(Lost(c), "NULL")
    <2>1. Good(Lost(c)) /\ Lost(c) \in Connections /\ Lost(c).m_nStatus = "OPEN"
        BY LostFacts DEF Session, Same
    <2> QED
        BY <1>0, <1>2, <2>1, OutcomeFacts
<1>3. CASE o = Outcome([c EXCEPT !.cur = FALSE, !.m_myres = TRUE, !.stored = 1], "OK")
    <2> DEFINE d == [c EXCEPT !.cur = FALSE, !.m_myres = TRUE, !.stored = 1]
    <2>0. 1 \in 0 .. 1
        OBVIOUS
    <2>1. /\ d \in Connections
          /\ d.m_nStatus = c.m_nStatus /\ d.m_dbCon = c.m_dbCon /\ d.m_strDB = c.m_strDB
          /\ d.stored = 1 /\ d.m_myres = TRUE /\ d.err = c.err /\ d.cur = FALSE
        BY <1>0, <2>0 DEF Connections
    <2>2. o = Outcome(d, "OK")
        BY <1>3
    <2> HIDE DEF d
    <2>3. Good(d)
        BY <2>1 DEF Good
    <2> QED
        BY <1>0, <2>1, <2>2, <2>3, OutcomeFacts
<1>4. CASE o = Outcome([c EXCEPT !.err = "other", !.cur = FALSE, !.more = 0], "NULL")
    <2> DEFINE d == [c EXCEPT !.err = "other", !.cur = FALSE, !.more = 0]
    <2>0. 0 \in 0 .. MaxMore
        BY ConstantsAssumption
    <2>1. /\ d \in Connections
          /\ d.m_nStatus = c.m_nStatus /\ d.m_dbCon = c.m_dbCon /\ d.m_strDB = c.m_strDB
          /\ d.stored = c.stored /\ d.m_myres = c.m_myres /\ d.err = "other" /\ d.cur = FALSE
        BY <1>0, <2>0 DEF Connections
    <2>2. o = Outcome(d, "NULL")
        BY <1>4
    <2> HIDE DEF d
    <2>3. Good(d)
        BY <2>1 DEF Good
    <2> QED
        BY <1>0, <2>1, <2>2, <2>3, OutcomeFacts
<1> QED
    BY <1>1, <1>2, <1>3, <1>4 DEF StoreResult

\* A result is stored where none is, whatever the caller left.
LEMMA GetRecordSetPlain ==
    ASSUME NEW c, Good(c), NEW o \in get_record_set(c)
    PROVE  Plain(c, o)
<1>0. {"NULL", "OK"} \subseteq Codes /\ c \in Connections
    BY DEF Codes, Good
<1>1. CASE o = Outcome(c, "NULL")
    BY <1>0, <1>1, PlainOutcome
<1>2. CASE c.m_nStatus = "OPEN" /\ ~ c.m_myres /\ o \in StoreResult(c)
    BY <1>2, StoreFacts DEF Plain, Fine
<1>3. CASE c.m_nStatus = "OPEN" /\ c.m_myres
    <2> DEFINE d == FreeResult(c)
    <2>1. Good(d) /\ ~ d.m_myres /\ d.m_nStatus = "OPEN" /\ d \in Connections
        BY <1>3, FreeFacts DEF Same, Good
    <2>2. d.cur = FALSE
        BY <1>0, <1>3 DEF Good, FreeResult, Connections
    <2> DEFINE found == UNION {StoreResult(e) : e \in NextResult(d)}
    <2> DEFINE broken == {Outcome(Lost(d), "NULL"),
                          Outcome([d EXCEPT !.err = "other", !.more = 0], "NULL")}
    <2> DEFINE none == {Outcome([d EXCEPT !.err = "none"], "NULL")}
    <2>3. o \in found \union (IF d.more > 0 THEN broken ELSE none)
        BY <1>3, <2>2, Zenon DEF get_record_set
    <2> HIDE DEF d, found, broken, none
    <2>4. ASSUME NEW e, Good(e), e.m_nStatus = "OPEN", o = Outcome(e, "NULL")
          PROVE  Plain(c, o)
        BY <1>0, <2>4, PlainOutcome
    <2>5. CASE o \in broken
        <3>1. Good(Lost(d)) /\ Lost(d).m_nStatus = "OPEN"
            BY <2>1, LostFacts DEF Session, Same
        <3> DEFINE e == [d EXCEPT !.err = "other", !.more = 0]
        <3>2. Session(d, e, d.vio, "other", d.cur, 0)
            BY <2>1, Zero DEF Session, Same, Connections
        <3>3. Good(e) /\ e.m_nStatus = "OPEN"
            BY <2>1, <2>2, <3>2, SessionGood DEF Session, Same
        <3> QED
            BY <2>4, <2>5, <3>1, <3>3 DEF broken
    <2>6. CASE o \in none
        <3> DEFINE e == [d EXCEPT !.err = "none"]
        <3>2. Session(d, e, d.vio, "none", d.cur, d.more)
            BY <2>1 DEF Session, Same, Connections
        <3>3. Good(e) /\ e.m_nStatus = "OPEN"
            BY <2>1, <2>2, <3>2, SessionGood DEF Session, Same
        <3> QED
            BY <2>4, <2>6, <3>3 DEF none
    <2>7. ASSUME NEW e \in NextResult(d), o \in StoreResult(e)
          PROVE  Plain(c, o)
        <3>0. d.more # 0 /\ d.more \in 0 .. MaxMore /\ d.vio
            BY <2>1, <2>7 DEF NextResult, Connections
        <3>1. d.more > 0 /\ d.more \in 0 .. MaxMore
            BY <3>0, ConstantsAssumption
        <3>2. \E r \in BOOLEAN : e = [d EXCEPT !.err = "none", !.cur = r, !.more = @ - 1]
            BY <2>7 DEF NextResult
        <3>3. PICK r \in BOOLEAN : e = [d EXCEPT !.err = "none", !.cur = r, !.more = @ - 1]
            BY <3>2
        <3>4. d.more - 1 \in 0 .. MaxMore
            BY <3>1, ConstantsAssumption
        <3>5. Session(d, e, d.vio, "none", r, d.more - 1)
            BY <2>1, <3>3, <3>4 DEF Session, Same, Connections
        <3>6. Good(e) /\ ~ e.m_myres /\ e.m_nStatus = "OPEN"
            BY <2>1, <3>0, <3>5, SessionGood DEF Session, Same
        <3> QED
            BY <2>7, <3>6, StoreFacts DEF Plain, Fine
    <2>8. CASE o \in found
        <3>1. PICK e \in NextResult(d) : o \in StoreResult(e)
            BY <2>8 DEF found
        <3> QED
            BY <2>7, <3>1
    <2> QED
        BY <2>3, <2>5, <2>6, <2>8
<1> QED
    BY <1>1, <1>2, <1>3 DEF get_record_set

\* get_record_set finds nothing on a connection that is empty or not open.
LEMMA GetRecordSetNull ==
    ASSUME NEW c, c.m_nStatus # "OPEN" \/ Empty(c), NEW o \in get_record_set(c)
    PROVE  o.rc = "NULL"
<1>1. CASE c.m_nStatus # "OPEN"
    BY <1>1 DEF get_record_set, Outcome
<1>2. CASE c.m_nStatus = "OPEN" /\ Empty(c)
    <2>1. o = Outcome(c, "NULL")
        BY <1>2, Zenon DEF get_record_set, StoreResult, Empty
    <2> QED
        BY <2>1 DEF Outcome
<1> QED
    BY <1>1, <1>2

-----------------------------------------------------------------------------
(* Statements.                                                              *)

LEMMA ExchangeFacts ==
    ASSUME NEW err
    PROVE  exchange_error(err) \in Codes /\ (exchange_error(err) = "OK" <=> err = "none")
BY DEF exchange_error, Codes

\* A statement sent once to the open connection c.
Sent(c, o) ==
    /\ o \in Outcomes /\ o.here = "no" /\ Good(o.c)
    /\ o.c.m_nStatus = "OPEN" /\ o.c.m_strDB = c.m_strDB
    /\ o.applied <= 1
    /\ o.rc = "OK" => o.applied = 1
    /\ o.rc # "OK" => Empty(o.c)

LEMMA RanSent ==
    ASSUME NEW c, c.m_nStatus = "OPEN", NEW d, Good(d), Same(c, d), NEW rc \in Codes,
           NEW q, q.applied \in 0 .. 1, rc = "OK" => q.applied = 1, rc # "OK" => Empty(d)
    PROVE  Sent(c, Ran(q, d, rc))
<1>1. d \in Connections /\ q.applied \in 0 .. 2
    BY DEF Good
<1> QED
    BY <1>1 DEF Ran, Sent, Outcomes, Same

LEMMA DoneSent ==
    ASSUME NEW c, Clear(c), c.m_nStatus = "OPEN", NEW q \in mysql_query(c), q.ok,
           NEW b \in BOOLEAN, NEW o \in Done(q, b)
    PROVE  Sent(c, o)
<1>0. Good(q.c) /\ Same(c, q.c) /\ q.applied = 1 /\ q.applied \in 0 .. 1 /\ "OK" \in Codes
    BY QueryFacts DEF Codes
<1>1. CASE b
    BY <1>0, <1>1, RanSent DEF Done
<1>2. CASE ~ b
    <2>1. PICK d \in clear_all_result_set(q.c) : o = Ran(q, d, exchange_error(d.err))
        BY <1>2 DEF Done
    <2>2. Clear(d) /\ Same(q.c, d)
        BY <1>0, ClearFacts
    <2>3. Good(d) /\ Same(c, d) /\ Empty(d)
        BY <1>0, <2>2, ClearEmpty DEF Clear, Same
    <2> QED
        BY <1>0, <2>1, <2>3, ExchangeFacts, RanSent
<1> QED
    BY <1>1, <1>2

LEMMA AgainSent ==
    ASSUME NEW c, Clear(c), c.m_nStatus = "OPEN", NEW q \in mysql_query(c),
           NEW b \in BOOLEAN, NEW o \in Again(q, b)
    PROVE  Sent(c, o)
<1>1. CASE q.ok
    BY <1>1, DoneSent DEF Again
<1>2. CASE ~ q.ok
    <2>1. o = Ran(q, q.c, exchange_error(q.c.err))
        BY <1>2 DEF Again
    <2>2. /\ Good(q.c) /\ Same(c, q.c) /\ q.applied \in 0 .. 1 /\ q.c.err # "none"
          /\ Empty(q.c)
        BY <1>2, QueryFacts, ClearEmpty
    <2> QED
        BY <2>1, <2>2, ExchangeFacts, RanSent
<1> QED
    BY <1>1, <1>2

\* What execute may leave of the open connection c.
Executed(c, o) ==
    /\ o \in Outcomes /\ o.here # "local" /\ Good(o.c)
    /\ o.c.m_nStatus = "OPEN" /\ o.c.m_strDB = c.m_strDB
    /\ o.rc = "OK" => o.applied > 0
    /\ o.rc # "OK" => Empty(o.c)
    /\ o.c.m_strDB => o.applied <= 1

LEMMA SentExecuted ==
    ASSUME NEW c, NEW o, Sent(c, o)
    PROVE  Executed(c, o)
BY DEF Sent, Executed, Outcomes

LEMMA ThenFacts ==
    ASSUME NEW r, r.here \in {"no", "string", "callers"}, NEW n, r.applied = n, NEW S,
           NEW o \in Then(r, S), \A z \in S : z \in Outcomes /\ z.applied + n \in 0 .. 2
    PROVE  \E z \in S : /\ o \in Outcomes /\ o.c = z.c /\ o.rc = z.rc
                        /\ o.applied = z.applied + n
                        /\ z.here # "local" => o.here # "local"
<1>1. PICK z \in S : o = [z EXCEPT !.applied = @ + r.applied, !.here = IF @ = "no" THEN r.here ELSE @]
    BY DEF Then
<1>2. o = [z EXCEPT !.applied = z.applied + n, !.here = IF z.here = "no" THEN r.here ELSE z.here]
    BY <1>1 DEF Outcomes
<1> QED
    BY <1>2 DEF Outcomes

\* A statement that was sent is not known to have run where it is sent again,
\* unless reconnect can connect anew, which a connect string keeps it from.
LEMMA RunAgainExecuted ==
    ASSUME NEW c, Clear(c), c.m_nStatus = "OPEN", NEW q \in mysql_query(c), ~ q.ok,
           NEW b \in BOOLEAN, NEW o \in RunAgain(q, b)
    PROVE  Executed(c, o)
<1>0. /\ Good(q.c) /\ Same(c, q.c) /\ q.applied \in 0 .. 1
      /\ q.applied = 1 => ~ q.c.vio /\ q.c.more = 0
    BY QueryFacts
<1>1. PICK r \in reconnect(q.c) :
        o \in IF r.rc # "OK"
                THEN {[r EXCEPT !.rc = "E_DB_QUERY", !.applied = q.applied]}
                ELSE Then([r EXCEPT !.applied = q.applied],
                          UNION {Again(a, b) : a \in mysql_query(r.c)})
    BY Zenon DEF RunAgain
<1>2. Kept(q.c, r)
    BY <1>0, ReconnectFacts DEF Same
<1>3. r.rc = "OK" /\ c.m_strDB => q.applied = 0
    <2>1. q.c.m_strDB /\ ~ q.c.vio /\ q.c.more = 0 => r.rc # "OK"
        BY <1>0, ReconnectFacts
    <2>2. q.c.m_strDB = c.m_strDB
        BY <1>0 DEF Same
    <2>3. q.applied = 0 \/ q.applied = 1
        BY <1>0
    <2> QED
        BY <1>0, <2>1, <2>2, <2>3
<1>4. r \in Outcomes /\ r.c.m_strDB = c.m_strDB /\ r.here # "local" /\ Clear(r.c) /\ r.c.m_nStatus = "OPEN"
    BY <1>0, <1>2 DEF Kept, Same
<1>5. CASE r.rc # "OK"
    <2>1. o = [r EXCEPT !.rc = "E_DB_QUERY", !.applied = q.applied]
        BY <1>1, <1>5
    <2>2. "E_DB_QUERY" \in Codes /\ q.applied \in 0 .. 2 /\ q.applied <= 1
        BY <1>0 DEF Codes
    <2>3. o \in Outcomes /\ o.c = r.c /\ o.here = r.here /\ o.rc = "E_DB_QUERY" /\ o.applied = q.applied
        BY <1>4, <2>1, <2>2 DEF Outcomes
    <2> QED
        BY <1>4, <2>2, <2>3, ClearEmpty DEF Executed, Clear
<1>6. CASE r.rc = "OK"
    <2> DEFINE S == UNION {Again(a, b) : a \in mysql_query(r.c)}
    <2> DEFINE s == [r EXCEPT !.applied = q.applied]
    <2>1. o \in Then(s, S)
        BY <1>1, <1>6
    <2>2. s.here \in {"no", "string", "callers"} /\ s.applied = q.applied
        BY <1>4 DEF Outcomes
    <2>3. ASSUME NEW z \in S
          PROVE  Sent(r.c, z)
        <3>1. PICK a \in mysql_query(r.c) : z \in Again(a, b)
            BY <2>3
        <3> QED
            BY <1>4, <3>1, AgainSent
    <2>4. \A z \in S : z \in Outcomes /\ z.applied + q.applied \in 0 .. 2
        BY <1>0, <2>3 DEF Sent, Outcomes
    <2> HIDE DEF S, s
    <2>5. PICK z \in S : /\ o \in Outcomes /\ o.c = z.c /\ o.rc = z.rc
                         /\ o.applied = z.applied + q.applied
                         /\ z.here # "local" => o.here # "local"
        BY <2>1, <2>2, <2>4, ThenFacts
    <2>6. Sent(r.c, z) /\ z.applied \in 0 .. 2
        BY <2>3 DEF Sent, Outcomes
    <2> QED
        BY <1>0, <1>3, <1>4, <1>6, <2>5, <2>6 DEF Sent, Executed
<1> QED
    BY <1>5, <1>6

LEMMA RunExecuted ==
    ASSUME NEW c, Clear(c), c.m_nStatus = "OPEN", NEW b \in BOOLEAN, NEW o \in Run(c, b)
    PROVE  Executed(c, o) /\ (o.applied \in 0 .. 2)
<1>1. PICK q \in mysql_query(c) : o \in IF q.ok THEN Done(q, b) ELSE RunAgain(q, b)
    BY Zenon DEF Run
<1>2. Executed(c, o)
    BY <1>1, DoneSent, SentExecuted, RunAgainExecuted
<1> QED
    BY <1>2 DEF Executed, Outcomes

LEMMA ExecuteFacts ==
    ASSUME NEW c, Good(c), NEW b \in BOOLEAN, NEW o \in execute(c, b)
    PROVE  /\ Fine(c, o)
           /\ o.rc = "OK" => o.applied > 0
           /\ o.rc # "OK" => o.c.m_nStatus # "OPEN" \/ Empty(o.c)
           /\ o.c.m_strDB => o.applied <= 1
<1>0. {"STATUS", "FAILED"} \subseteq Codes
    BY DEF Codes
<1>1. CASE c.m_nStatus # "OPEN"
    <2>1. o = Outcome(c, "STATUS")
        BY <1>1 DEF execute
    <2> QED
        <3>1. Plain(c, o)
            BY <1>0, <2>1, PlainOutcome
        <3>2. o.rc = "STATUS" /\ o.c = c
            BY <2>1 DEF Outcome
        <3> QED
            BY <1>1, <3>1, <3>2 DEF Plain
<1>2. CASE c.m_nStatus = "OPEN"
    <2>1. PICK r \in reconnect(c) :
            o \in IF r.rc # "OK" THEN {[r EXCEPT !.rc = "FAILED"]}
                  ELSE Then(r, UNION {Run(d, b) : d \in clear_all_result_set(r.c)})
        BY <1>2, Zenon DEF execute
    <2>2. Kept(c, r)
        BY <1>2, ReconnectFacts
    <2>3. CASE r.rc # "OK"
        <3>1. o = [r EXCEPT !.rc = "FAILED"]
            BY <2>1, <2>3
        <3>2. o \in Outcomes /\ o.c = r.c /\ o.here = r.here /\ o.rc = "FAILED" /\ o.applied = r.applied
            BY <1>0, <2>2, <3>1 DEF Kept, Outcomes
        <3> QED
            BY <2>2, <3>2, ClearEmpty DEF Kept, Fine, Clear
    <2>4. CASE r.rc = "OK"
        <3> DEFINE S == UNION {Run(d, b) : d \in clear_all_result_set(r.c)}
        <3>1. o \in Then(r, S)
            BY <2>1, <2>4
        <3>2. r.here \in {"no", "string", "callers"} /\ r.applied = 0 /\ Good(r.c)
            BY <2>2 DEF Kept, Outcomes, Clear
        <3>3. ASSUME NEW z \in S
              PROVE  Executed(c, z) /\ z.applied \in 0 .. 2
            <4>1. PICK d \in clear_all_result_set(r.c) : z \in Run(d, b)
                BY <3>3
            <4>2. Clear(d) /\ d.m_nStatus = "OPEN" /\ d.m_strDB = c.m_strDB
                BY <2>2, <3>2, ClearFacts DEF Kept, Same
            <4> QED
                BY <4>1, <4>2, RunExecuted DEF Executed
        <3>4. \A z \in S : z \in Outcomes /\ z.applied + 0 \in 0 .. 2
            BY <3>3 DEF Executed
        <3> HIDE DEF S
        <3>5. PICK z \in S : /\ o \in Outcomes /\ o.c = z.c /\ o.rc = z.rc
                             /\ o.applied = z.applied + 0
                             /\ z.here # "local" => o.here # "local"
            BY <3>1, <3>2, <3>4, ThenFacts
        <3>6. Executed(c, z) /\ z.applied \in 0 .. 2
            BY <3>3
        <3>7. o.applied = z.applied
            BY <3>5, <3>6
        <3> QED
            BY <3>5, <3>6, <3>7 DEF Executed, Fine
    <2> QED
        BY <2>3, <2>4
<1> QED
    BY <1>1, <1>2
-----------------------------------------------------------------------------
(* The invariant.                                                           *)

\* Between two calls.
CInv ==
    /\ TypeOK
    /\ Good(conn)
    /\ conn.m_nStatus = "INIT" => ~ conn.m_myres /\ ~ conn.vio
    /\ last.here # "local"
    /\ OkMeansApplied /\ AppliedOnce

LEMMA InitCInv == Init => CInv
<1> SUFFICES ASSUME Init PROVE CInv
    OBVIOUS
<1>1. conn \in Connections
    <2>1. conn \in [m_nStatus : {"INIT", "UNKNOWN"}, m_strDB : {FALSE}, m_dbCon : {"null"},
                     m_myres : {FALSE}, stored : {0}, vio : {FALSE}, err : {"none"},
                     cur : {FALSE}, more : {0}]
        BY DEF Init
    <2>2. 0 \in 0 .. 1
        OBVIOUS
    <2> QED
        BY <2>1, <2>2, Zero DEF Connections, Statuses
<1>2. /\ conn.stored = 0 /\ conn.m_myres = FALSE /\ conn.err = "none" /\ conn.cur = FALSE
      /\ conn.m_dbCon = "null" /\ conn.vio = FALSE
    BY DEF Init
<1>3. Good(conn)
    BY <1>1, <1>2 DEF Good
<1>4. /\ last = [call |-> "none", rc |-> "OK", applied |-> 0, here |-> "no"]
      /\ "OK" \in Codes /\ 0 \in 0 .. 2
    BY DEF Init, Codes
<1> QED
    BY <1>1, <1>2, <1>3, <1>4 DEF CInv, TypeOK, OkMeansApplied, AppliedOnce

Calls == {"none", "connect", "disconnect", "reconnect", "check_connect", "execute", "end",
          "get_record_set"}

\* A call whose outcomes are fine keeps the invariant.
LEMMA DoesCInv ==
    ASSUME CInv, NEW call \in Calls, NEW S, Does(call, S),
           \A o \in S : /\ Fine(conn, o)
                        /\ call = "execute" => /\ o.rc = "OK" => o.applied > 0
                                               /\ o.c.m_strDB => o.applied <= 1
    PROVE  CInv'
<1>1. PICK o \in S : /\ conn' = o.c
                     /\ last' = [call |-> call, rc |-> o.rc, applied |-> o.applied, here |-> o.here]
    BY DEF Does
<1>2. Fine(conn, o)
    OBVIOUS
<1>3. /\ o \in Outcomes /\ o.here # "local" /\ Good(conn') /\ conn' \in Connections
      /\ conn' = conn \/ conn'.m_nStatus # "INIT"
    BY <1>1, <1>2 DEF Fine, Good
<1>4. TypeOK'
    BY <1>1, <1>3 DEF TypeOK, Outcomes, Calls
<1>5. conn'.m_nStatus = "INIT" => ~ conn'.m_myres /\ ~ conn'.vio
    BY <1>3 DEF CInv
<1>6. OkMeansApplied' /\ AppliedOnce'
    BY <1>1 DEF OkMeansApplied, AppliedOnce
<1> QED
    BY <1>1, <1>3, <1>4, <1>5, <1>6 DEF CInv

LEMMA NextCInv == CInv /\ [Next]_vars => CInv'
<1> SUFFICES ASSUME CInv, [Next]_vars PROVE CInv'
    OBVIOUS
<1>0. Good(conn) /\ (conn.m_nStatus = "INIT" => ~ conn.m_myres /\ ~ conn.vio)
    BY DEF CInv
<1>1. CASE Connect
    <2>1. CASE Does("connect", connect_string(conn))
        <3>1. ASSUME NEW o \in connect_string(conn) PROVE Fine(conn, o)
            <4>1. Plain(conn, o)
                BY <1>0, ConnectStringPlain
            <4> QED
                BY <4>1 DEF Plain
        <3> QED
            BY <2>1, <3>1, DoesCInv DEF Calls
    <2>2. CASE conn.m_nStatus = "INIT" /\ Does("connect", connect_struct(conn, "callers"))
        <3>1. \A o \in connect_struct(conn, "callers") : Fine(conn, o)
            BY <1>0, <2>2, ConnectStructPlain DEF Plain
        <3> QED
            BY <2>2, <3>1, DoesCInv DEF Calls
    <2> QED
        BY <1>1, <2>1, <2>2 DEF Connect
<1>2. CASE Disconnect
    <2>1. \A o \in disconnect(conn) : Fine(conn, o)
        BY <1>0, DisconnectPlain DEF Plain
    <2> QED
        BY <1>2, <2>1, DoesCInv DEF Disconnect, Calls
<1>3. CASE Reconnect
    <2>1. \A o \in reconnect(conn) : Fine(conn, o)
        BY <1>0, ReconnectPlain DEF Plain
    <2> QED
        BY <1>3, <2>1, DoesCInv DEF Reconnect, Calls
<1>4. CASE CheckConnect
    <2>1. PICK bKeepAlive \in BOOLEAN, bFix \in BOOLEAN :
            Does("check_connect", check_connect(conn, bKeepAlive, bFix))
        BY <1>4 DEF CheckConnect
    <2>2. \A o \in check_connect(conn, bKeepAlive, bFix) : Fine(conn, o)
        BY <1>0, CheckConnectPlain DEF Plain
    <2> QED
        BY <2>1, <2>2, DoesCInv DEF Calls
<1>5. CASE Execute
    <2>1. PICK bNeedResult \in BOOLEAN : Does("execute", execute(conn, bNeedResult))
        BY <1>5 DEF Execute
    <2>2. \A o \in execute(conn, bNeedResult) :
            Fine(conn, o) /\ (o.rc = "OK" => o.applied > 0) /\ (o.c.m_strDB => o.applied <= 1)
        BY <1>0, ExecuteFacts
    <2>3. "execute" \in Calls
        BY DEF Calls
    <2> QED
        BY <2>1, <2>2, <2>3, DoesCInv
<1>6. CASE EndTransaction
    <2>1. \A o \in end_transaction(conn) : Fine(conn, o)
        BY <1>0, EndTransactionPlain DEF Plain
    <2> QED
        BY <1>6, <2>1, DoesCInv DEF EndTransaction, Calls
<1>7. CASE GetRecordSet
    <2>1. \A o \in get_record_set(conn) : Fine(conn, o)
        BY <1>0, GetRecordSetPlain DEF Plain
    <2> QED
        BY <1>7, <2>1, DoesCInv DEF GetRecordSet, Calls
<1>8. CASE UNCHANGED vars
    BY <1>8 DEF vars, CInv, TypeOK, OkMeansApplied, AppliedOnce
<1> QED
    BY <1>1, <1>2, <1>3, <1>4, <1>5, <1>6, <1>7, <1>8 DEF Next

LEMMA Invariant == Spec => []CInv
BY InitCInv, NextCInv, PTL DEF Spec

-----------------------------------------------------------------------------
(* Theorems.                                                                *)

\* Type correctness of the connection and of what is noted of each call.
THEOREM TypeCorrect == Spec => []TypeOK
<1>1. CInv => TypeOK
    BY DEF CInv
<1> QED
    BY <1>1, Invariant, PTL

\* execute answers RC_S_OK only for a statement the server ran.
THEOREM OkApplied == Spec => []OkMeansApplied
<1>1. CInv => OkMeansApplied
    BY DEF CInv
<1> QED
    BY <1>1, Invariant, PTL

\* Sent twice after an error, a statement still takes effect at most once on a
\* connection made from a connect string.
THEOREM Once == Spec => []AppliedOnce
<1>1. CInv => AppliedOnce
    BY DEF CInv
<1> QED
    BY <1>1, Invariant, PTL

\* In every order of calls m_myres is freed once and never lost.
THEOREM FreedOnce == Spec => []ResultsFreedOnce
<1>1. CInv => ResultsFreedOnce
    BY DEF CInv, Good, ResultsFreedOnce
<1> QED
    BY <1>1, Invariant, PTL

\* The client never sends a command while results of an earlier one wait.
THEOREM InSync == Spec => []NeverOutOfSync
<1>1. CInv => NeverOutOfSync
    BY DEF CInv, Good, NeverOutOfSync
<1> QED
    BY <1>1, Invariant, PTL

\* reconnect never reads the string that died with an earlier connect.
THEOREM NotDangling == Spec => []DanglingNotUsed
<1>1. CInv => DanglingNotUsed
    BY DEF CInv, DanglingNotUsed
<1> QED
    BY <1>1, Invariant, PTL
=============================================================================
