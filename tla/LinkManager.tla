------------------------------ MODULE LinkManager ------------------------------
(***************************************************************************)
(* CLinkManager (src/SysMonitor/link_manager.cpp, Windows build): a pool of *)
(* database links that callers take with GetLink and give back.  m_csLink   *)
(* guards the busy flags only; whoever has made a link busy closes and      *)
(* connects it without the lock, and connecting may throw (CADODatabase::   *)
(* Open), which GetLink does not catch.                                     *)
(*                                                                          *)
(* The program has one caller, CMsSqlMonitor on the timer thread; the class *)
(* is written for several.  What nothing reads (m_nFailCount, busy_time,    *)
(* the texts) is left out.  open is the ADO object's own state, all that    *)
(* the program asks: where the server has ended the session it stays open   *)
(* until a query fails, and GetLink hands the link out.                     *)
(*                                                                          *)
(* Definitions named after a mistake (AnyLink, ...) are not used: each is   *)
(* what the definition after it would be with that mistake in the code, and *)
(* breaks a property below.                                                 *)
(***************************************************************************)
EXTENDS Naturals

CONSTANTS Callers,
          MAX_LINK_NUM,   \* links of the pool: 30 in the code
          DbCount,        \* configured databases, at most the MAX_DBCOUNT (5)
                          \* m_dbConfig has room for
          Default         \* m_nDefaultSel, which Init takes from them

ASSUME ConstantsAssumption ==
    /\ MAX_LINK_NUM \in Nat /\ DbCount \in Nat
    /\ Default \in 0 .. DbCount - 1

Links == 0 .. MAX_LINK_NUM - 1
Dbs == 0 .. DbCount - 1
NoLink == MAX_LINK_NUM
NoDb == DbCount

VARIABLES
    link,     \* m_aLinkInfo; open: the database ado_db is connected to
    caller,   \* per caller: pc, what it asked for, the link it has
    leaked    \* history: links a connect has thrown on

vars == <<link, caller, leaked>>

\* "pick" to "give_up" are in GetLink, "held" has its link, "dropped" has had
\* CheckConnect close it, "closing" and "closed" are in DisConnect, "thrown"
\* left GetLink by an exception.
PCs == {"idle", "pick", "primary", "connect", "check", "connect2", "give_up",
        "held", "dropped", "closing", "closed", "thrown"}

TypeOK ==
    /\ link \in [Links -> [is_busy : BOOLEAN, cur_sel : Dbs, is_connected : BOOLEAN,
                           open : Dbs \union {NoDb}]]
    /\ caller \in [Callers -> [pc : PCs, dbsel : Dbs, bPrimary : BOOLEAN,
                               at : Links \union {NoLink}]]
    /\ \A p \in Callers : caller[p].at = NoLink <=> caller[p].pc \in {"idle", "pick"}
    /\ leaked \subseteq Links

Init ==
    /\ link = [l \in Links |-> [is_busy |-> FALSE, cur_sel |-> Default,
                                is_connected |-> FALSE, open |-> NoDb]]
    /\ caller = [p \in Callers |-> [pc |-> "idle", dbsel |-> Default,
                                    bPrimary |-> FALSE, at |-> NoLink]]
    /\ leaked = {}

-----------------------------------------------------------------------------
At(p, pc) == caller[p].pc = pc
Mine(p) == link[caller[p].at]
Goes(p, pc) == caller' = [caller EXCEPT ![p].pc = pc]
Returns(p) == caller' = [caller EXCEPT ![p].pc = "idle", ![p].at = NoLink]

\* GetLink(dbsel, bPrimary) for a configured database; a dbsel beyond
\* m_dbConfig would return NULL at once.
Ask(p) ==
    /\ At(p, "idle")
    /\ \E d \in Dbs, b \in BOOLEAN :
         caller' = [caller EXCEPT ![p] = [@ EXCEPT !.pc = "pick", !.bPrimary = b,
                                          !.dbsel = IF b THEN Default ELSE d]]
    /\ UNCHANGED <<link, leaked>>

AnyLink(l) == TRUE
IsFree(l) == ~ link[l].is_busy

First(S, l) == l \in S /\ \A k \in S : l <= k

\* The scan under the lock: the first free link, for the primary database the
\* first free one that was last connected to it, if there is one.
Picked(p, l) ==
    LET free == {k \in Links : IsFree(k)}
        best == {k \in free : caller[p].bPrimary => link[k].cur_sel = Default}
    IN  First(IF best # {} THEN best ELSE free, l)

Pick(p) ==
    /\ At(p, "pick")
    /\ \E l \in Links :
         /\ Picked(p, l)
         /\ link' = [link EXCEPT ![l].is_busy = TRUE]
         /\ caller' = [caller EXCEPT ![p].at = l,
                         ![p].pc = IF caller[p].bPrimary THEN "primary" ELSE "check"]
    /\ UNCHANGED leaked

PicksPastEnd(p) ==
    /\ At(p, "pick")
    /\ \A l \in Links : ~ IsFree(l)
    /\ Goes(p, "check")
    /\ UNCHANGED <<link, leaked>>

PickWaits(p) ==
    /\ At(p, "pick")
    /\ \A l \in Links : ~ IsFree(l)
    /\ UNCHANGED vars

\* Every link is busy: NULL.
PickNone(p) ==
    /\ At(p, "pick")
    /\ \A l \in Links : ~ IsFree(l)
    /\ Returns(p)
    /\ UNCHANGED <<link, leaked>>

Set(p, is_connected, open, cur_sel) ==
    link' = [link EXCEPT ![caller[p].at] =
              [@ EXCEPT !.is_connected = is_connected, !.open = open, !.cur_sel = cur_sel]]

\* For the primary database a link to another one is closed.
CloseOther(p) ==
    /\ At(p, "primary")
    /\ IF Mine(p).cur_sel # Default
         THEN Set(p, FALSE, NoDb, Mine(p).cur_sel) /\ Goes(p, "connect")
         ELSE /\ Goes(p, IF Mine(p).is_connected THEN "check" ELSE "connect")
              /\ UNCHANGED link
    /\ UNCHANGED leaked

\* ConnectDataBase closes and opens; it succeeds, fails, or throws.
ConnectDataBase(p, db, succeeded, failed) ==
    \/ Set(p, TRUE, db, db) /\ Goes(p, succeeded) /\ UNCHANGED leaked
    \/ /\ Set(p, FALSE, NoDb, Mine(p).cur_sel)
       /\ \/ Goes(p, failed) /\ UNCHANGED leaked
          \/ Goes(p, "thrown") /\ leaked' = leaked \union {caller[p].at}

ConnectDefault(p) == At(p, "connect") /\ ConnectDataBase(p, Default, "check", "check")

\* A link that is connected is the answer, whatever it is connected to.
Check(p) ==
    /\ At(p, "check")
    /\ Goes(p, IF Mine(p).is_connected THEN "held"
               ELSE IF caller[p].bPrimary THEN "give_up" ELSE "connect2")
    /\ UNCHANGED <<link, leaked>>

_Connect2(p) == At(p, "connect2") /\ ConnectDataBase(p, caller[p].dbsel, "held", "give_up")

NotBusy(p) == link' = [link EXCEPT ![caller[p].at].is_busy = FALSE]

StaysBusy(p) == At(p, "give_up") /\ Returns(p) /\ UNCHANGED <<link, leaked>>

GiveUp(p) == At(p, "give_up") /\ NotBusy(p) /\ Returns(p) /\ UNCHANGED leaked

GetLink(p) ==
    \/ Ask(p) \/ Pick(p) \/ PickNone(p) \/ CloseOther(p) \/ ConnectDefault(p)
    \/ Check(p) \/ _Connect2(p) \/ GiveUp(p)

-----------------------------------------------------------------------------
FreeLink(p) ==
    /\ At(p, "held") \/ At(p, "dropped")
    /\ NotBusy(p) /\ Returns(p)
    /\ UNCHANGED leaked

\* The connection is found bad: closed, but kept.
CheckConnect(p) ==
    /\ At(p, "held")
    /\ Set(p, FALSE, NoDb, Mine(p).cur_sel)
    /\ Goes(p, "dropped")
    /\ UNCHANGED leaked

CloseForFree(p) ==
    /\ At(p, "held") \/ At(p, "dropped")
    /\ Set(p, Mine(p).is_connected, NoDb, Mine(p).cur_sel)
    /\ Goes(p, "closing")
    /\ UNCHANGED leaked

ForgetsFlag(p) == At(p, "closing") /\ Goes(p, "closed") /\ UNCHANGED <<link, leaked>>

ResetFlag(p) ==
    /\ At(p, "closing")
    /\ Set(p, FALSE, Mine(p).open, Mine(p).cur_sel)
    /\ Goes(p, "closed")
    /\ UNCHANGED leaked

FreeClosed(p) == At(p, "closed") /\ NotBusy(p) /\ Returns(p) /\ UNCHANGED leaked

DisConnect(p) == CloseForFree(p) \/ ResetFlag(p) \/ FreeClosed(p)

\* A caller that catches the exception has no link to give back.
Catch(p) == At(p, "thrown") /\ Returns(p) /\ UNCHANGED <<link, leaked>>

Next ==
    \E p \in Callers :
        GetLink(p) \/ FreeLink(p) \/ CheckConnect(p) \/ DisConnect(p) \/ Catch(p)

Spec == Init /\ [][Next]_vars

-----------------------------------------------------------------------------
(* Properties.                                                              *)

Uses(p, l) == caller[p].at = l /\ caller[p].pc # "thrown"

\* A link has one user at a time, although only its busy flag is guarded and it
\* is connected, closed and read without the lock.
OneUserPerLink ==
    \A l \in Links, p, q \in Callers : Uses(p, l) /\ Uses(q, l) => p = q

\* A link is busy exactly while somebody uses it or a connect has thrown on it:
\* every other way out of GetLink, FreeLink and DisConnect gives it back.
BusyAccounted ==
    \A l \in Links :
        link[l].is_busy <=> l \in leaked \/ \E p \in Callers : Uses(p, l)

\* What a free link's fields say is true of its connection: it is open exactly
\* if is_connected, and then on the database cur_sel.
FreeLinkTellsTruth ==
    \A l \in Links :
        ~ link[l].is_busy =>
            link[l].open = IF link[l].is_connected THEN link[l].cur_sel ELSE NoDb

\* Who asked for the primary database has a connection to it, whatever the
\* links were used for before.
PrimaryGetsDefault ==
    \A p \in Callers : At(p, "held") /\ caller[p].bPrimary => Mine(p).open = Default
=============================================================================
