--------------------------- MODULE LinkManagerProofs ---------------------------
(***************************************************************************)
(* Theorems about LinkManager for any set of callers, any number of links   *)
(* and databases.  The inductive invariant LInv adds to the properties that *)
(* a link in use has not been leaked, that a link's fields are true of its  *)
(* connection except between the two assignments of DisConnect, and what a  *)
(* caller on its way through GetLink knows of its link (OnTheWay).          *)
(***************************************************************************)
EXTENDS LinkManager, TLAPS

LinkTypes == [is_busy : BOOLEAN, cur_sel : Dbs, is_connected : BOOLEAN,
              open : Dbs \union {NoDb}]

CallerTypes == [pc : PCs, dbsel : Dbs, bPrimary : BOOLEAN, at : Links \union {NoLink}]

UsedNotLeaked == \A p \in Callers : \A l \in Links : Uses(p, l) => l \notin leaked

Truthful(l) == link[l].open = IF link[l].is_connected THEN link[l].cur_sel ELSE NoDb

TruthfulUnlessClosing ==
    \A l \in Links : Truthful(l) \/ \E p \in Callers : Uses(p, l) /\ At(p, "closing")

OnTheWay(p) ==
    /\ At(p, "closing") => Mine(p).open = NoDb
    /\ caller[p].bPrimary =>
         /\ At(p, "check") /\ Mine(p).is_connected => Mine(p).cur_sel = Default
         /\ At(p, "held") => Mine(p).is_connected /\ Mine(p).cur_sel = Default
         /\ ~ At(p, "connect2")

LInv ==
    /\ TypeOK
    /\ OneUserPerLink
    /\ BusyAccounted
    /\ UsedNotLeaked
    /\ TruthfulUnlessClosing
    /\ \A p \in Callers : OnTheWay(p)

LEMMA Numbers == NoLink \notin Links /\ NoDb \notin Dbs /\ Default \in Dbs
BY ConstantsAssumption DEF Links, NoLink, Dbs, NoDb

-----------------------------------------------------------------------------
(* What the update operators do, field by field.                            *)

\* Only caller p changes, and of it pc and at.
Moves(p, pc, at) ==
    /\ caller' \in [Callers -> CallerTypes]
    /\ caller'[p].pc = pc /\ caller'[p].at = at
    /\ caller'[p].bPrimary = caller[p].bPrimary
    /\ \A q \in Callers : q # p => caller'[q] = caller[q]

\* Only link l changes; its fields are the ones given.
Becomes(l, is_busy, is_connected, open, cur_sel) ==
    /\ link' \in [Links -> LinkTypes]
    /\ link'[l].is_busy = is_busy /\ link'[l].is_connected = is_connected
    /\ link'[l].open = open /\ link'[l].cur_sel = cur_sel
    /\ \A k \in Links : k # l => link'[k] = link[k]

\* Replacing one value of a function.
LEMMA UpdateFacts ==
    ASSUME NEW S, NEW T, NEW g \in [S -> T], NEW x \in S, NEW v \in T,
           NEW h, h = [g EXCEPT ![x] = v]
    PROVE  /\ h \in [S -> T] /\ h[x] = v
           /\ \A y \in S : y # x => h[y] = g[y]
OBVIOUS

\* A caller whose program counter and link are set.
LEMMA MovesFacts ==
    ASSUME TypeOK, NEW p \in Callers, NEW pc \in PCs, NEW at \in Links \union {NoLink},
           caller' = [caller EXCEPT ![p] = [caller[p] EXCEPT !.pc = pc, !.at = at]]
    PROVE  Moves(p, pc, at)
<1> DEFINE c == [caller[p] EXCEPT !.pc = pc, !.at = at]
<1>1. caller \in [Callers -> CallerTypes] /\ caller[p] \in CallerTypes
    BY DEF TypeOK, CallerTypes
<1>2. c \in CallerTypes /\ c.pc = pc /\ c.at = at /\ c.bPrimary = caller[p].bPrimary
    BY <1>1 DEF CallerTypes
<1>3. caller' = [caller EXCEPT ![p] = c]
    OBVIOUS
<1> HIDE DEF c
<1>4. /\ caller' \in [Callers -> CallerTypes] /\ caller'[p] = c
      /\ \A q \in Callers : q # p => caller'[q] = caller[q]
    BY <1>1, <1>2, <1>3, UpdateFacts
<1> QED
    BY <1>2, <1>4 DEF Moves

\* Goes moves the program counter.
LEMMA GoesFacts ==
    ASSUME TypeOK, NEW p \in Callers, NEW pc \in PCs, Goes(p, pc)
    PROVE  Moves(p, pc, caller[p].at)
<1>1. caller \in [Callers -> CallerTypes] /\ caller[p] \in CallerTypes
    BY DEF TypeOK, CallerTypes
<1>2. [caller[p] EXCEPT !.pc = pc] = [caller[p] EXCEPT !.pc = pc, !.at = caller[p].at]
    BY <1>1 DEF CallerTypes
<1>3. caller' = [caller EXCEPT ![p] = [caller[p] EXCEPT !.pc = pc]]
    BY DEF Goes
<1>4. caller[p].at \in Links \union {NoLink}
    BY <1>1 DEF CallerTypes
<1> QED
    BY <1>2, <1>3, <1>4, MovesFacts

\* Returns forgets the link.
LEMMA ReturnsFacts ==
    ASSUME TypeOK, NEW p \in Callers, Returns(p)
    PROVE  Moves(p, "idle", NoLink)
<1>1. caller' = [caller EXCEPT ![p] = [caller[p] EXCEPT !.pc = "idle", !.at = NoLink]]
    BY DEF Returns
<1> QED
    BY <1>1, MovesFacts DEF PCs

\* Set changes the caller's link, not its busy flag.
LEMMA SetFacts ==
    ASSUME TypeOK, NEW p \in Callers, NEW l \in Links, caller[p].at = l,
           NEW c \in BOOLEAN, NEW o \in Dbs \union {NoDb}, NEW s \in Dbs, Set(p, c, o, s)
    PROVE  Becomes(l, link[l].is_busy, c, o, s)
<1> DEFINE d == [link[l] EXCEPT !.is_connected = c, !.open = o, !.cur_sel = s]
<1>1. link \in [Links -> LinkTypes] /\ link[l] \in LinkTypes
    BY DEF TypeOK, LinkTypes
<1>2. /\ d \in LinkTypes /\ d.is_busy = link[l].is_busy
      /\ d.is_connected = c /\ d.open = o /\ d.cur_sel = s
    BY <1>1 DEF LinkTypes
<1>3. link' = [link EXCEPT ![l] = d]
    BY DEF Set
<1> HIDE DEF d
<1>4. /\ link' \in [Links -> LinkTypes] /\ link'[l] = d
      /\ \A k \in Links : k # l => link'[k] = link[k]
    BY <1>1, <1>2, <1>3, UpdateFacts
<1> QED
    BY <1>2, <1>4 DEF Becomes

\* NotBusy changes the busy flag only.
LEMMA NotBusyFacts ==
    ASSUME TypeOK, NEW p \in Callers, NEW l \in Links, caller[p].at = l, NotBusy(p)
    PROVE  Becomes(l, FALSE, link[l].is_connected, link[l].open, link[l].cur_sel)
BY DEF NotBusy, TypeOK, Becomes, LinkTypes

\* A caller outside "idle" and "pick" has a link.
LEMMA HasLink ==
    ASSUME TypeOK, NEW p \in Callers, caller[p].pc \notin {"idle", "pick"}
    PROVE  caller[p].at \in Links /\ link[caller[p].at] \in LinkTypes
BY DEF TypeOK, LinkTypes

-----------------------------------------------------------------------------
(* The two kinds of step a caller with a link makes.                        *)

Fields(l) == Becomes(l, link[l].is_busy, link[l].is_connected, link[l].open, link[l].cur_sel)

\* A step that leaves the links alone.
LEMMA SameLink ==
    ASSUME TypeOK, NEW l \in Links, UNCHANGED link
    PROVE  Fields(l)
BY DEF TypeOK, Fields, Becomes, LinkTypes

\* The caller keeps its link and says the truth about it.
LEMMA KeepsLink ==
    ASSUME LInv, NEW p \in Callers, NEW l \in Links, Uses(p, l), caller[p].pc \notin {"idle", "pick"},
           NEW pc \in PCs \ {"idle", "pick", "thrown"}, Moves(p, pc, l),
           NEW c, NEW o, NEW s, Becomes(l, link[l].is_busy, c, o, s),
           UNCHANGED leaked,
           pc = "closing" \/ o = IF c THEN s ELSE NoDb,
           OnTheWay(p)'
    PROVE  LInv'
<1>1. TypeOK'
    <2>1. caller' \in [Callers -> CallerTypes] /\ link' \in [Links -> LinkTypes] /\ leaked' \subseteq Links
        BY DEF LInv, TypeOK, Moves, Becomes
    <2>2. ASSUME NEW q \in Callers
          PROVE  caller'[q].at = NoLink <=> caller'[q].pc \in {"idle", "pick"}
        <3>1. CASE q = p
            BY <3>1, Numbers DEF Moves
        <3>2. CASE q # p
            BY <3>2 DEF LInv, TypeOK, Moves
        <3> QED
            BY <3>1, <3>2
    <2> QED
        BY <2>1, <2>2 DEF TypeOK, LinkTypes, CallerTypes
<1>2. \A q \in Callers, k \in Links : Uses(q, k)' <=> Uses(q, k)
    BY DEF Uses, Moves
<1>3. OneUserPerLink'
    BY <1>2 DEF LInv, OneUserPerLink
<1>4. BusyAccounted'
    <2>1. \A k \in Links : link'[k].is_busy = link[k].is_busy
        BY DEF Becomes
    <2> QED
        BY <1>2, <2>1 DEF LInv, BusyAccounted
<1>5. UsedNotLeaked'
    BY <1>2 DEF LInv, UsedNotLeaked
<1>6. TruthfulUnlessClosing'
    <2> SUFFICES ASSUME NEW k \in Links
                 PROVE  Truthful(k)' \/ \E q \in Callers : Uses(q, k)' /\ At(q, "closing")'
        BY DEF TruthfulUnlessClosing
    <2>1. CASE k = l
        <3>1. CASE pc = "closing"
            BY <1>2, <2>1, <3>1 DEF Moves, At
        <3>2. CASE o = IF c THEN s ELSE NoDb
            BY <2>1, <3>2 DEF Becomes, Truthful
        <3> QED
            BY <3>1, <3>2
    <2>2. CASE k # l
        <3>1. CASE Truthful(k)
            BY <2>2, <3>1 DEF Becomes, Truthful
        <3>2. CASE ~ Truthful(k)
            <4>1. PICK q \in Callers : Uses(q, k) /\ At(q, "closing")
                BY <3>2 DEF LInv, TruthfulUnlessClosing
            <4>2. q # p
                BY <2>2, <4>1 DEF Uses
            <4> QED
                BY <1>2, <4>1, <4>2 DEF Moves, At
        <3> QED
            BY <3>1, <3>2
    <2> QED
        BY <2>1, <2>2
<1>7. ASSUME NEW q \in Callers
      PROVE  OnTheWay(q)'
    <2>1. CASE q = p
        BY <2>1
    <2>2. CASE q # p
        <3>1. caller'[q] = caller[q]
            BY <2>2 DEF Moves
        <3>2. CASE caller[q].pc \in {"closing", "check", "held"}
            <4>1. caller[q].at \in Links /\ caller[q].at # l
                BY <2>2, <3>2, HasLink DEF LInv, OneUserPerLink, Uses
            <4>2. link'[caller[q].at] = link[caller[q].at]
                BY <4>1 DEF Becomes
            <4> QED
                BY <3>1, <4>2 DEF LInv, OnTheWay, At, Mine
        <3>3. CASE caller[q].pc \notin {"closing", "check", "held"}
            BY <3>1, <3>3 DEF LInv, OnTheWay, At, Mine
        <3> QED
            BY <3>2, <3>3
    <2> QED
        BY <2>1, <2>2
<1> QED
    BY <1>1, <1>3, <1>4, <1>5, <1>6, <1>7 DEF LInv

\* The caller gives its link back.
LEMMA GivesBack ==
    ASSUME LInv, NEW p \in Callers, NEW l \in Links, Uses(p, l),
           caller[p].pc \notin {"idle", "pick", "closing"},
           Moves(p, "idle", NoLink),
           Becomes(l, FALSE, link[l].is_connected, link[l].open, link[l].cur_sel),
           UNCHANGED leaked
    PROVE  LInv'
<1>1. TypeOK'
    <2>1. caller' \in [Callers -> CallerTypes] /\ link' \in [Links -> LinkTypes] /\ leaked' \subseteq Links
        BY DEF LInv, TypeOK, Moves, Becomes
    <2>2. ASSUME NEW q \in Callers
          PROVE  caller'[q].at = NoLink <=> caller'[q].pc \in {"idle", "pick"}
        BY DEF LInv, TypeOK, Moves
    <2> QED
        BY <2>1, <2>2 DEF TypeOK, LinkTypes, CallerTypes
<1>2. \A q \in Callers, k \in Links : Uses(q, k)' <=> q # p /\ Uses(q, k)
    BY Numbers DEF Uses, Moves
<1>3. OneUserPerLink'
    BY <1>2 DEF LInv, OneUserPerLink
<1>4. BusyAccounted'
    <2> SUFFICES ASSUME NEW k \in Links
                 PROVE  link'[k].is_busy <=> k \in leaked' \/ \E q \in Callers : Uses(q, k)'
        BY DEF BusyAccounted
    <2>1. CASE k = l
        <3>1. ~ link'[k].is_busy
            BY <2>1 DEF Becomes
        <3>2. k \notin leaked'
            BY <2>1 DEF LInv, UsedNotLeaked
        <3>3. ~ \E q \in Callers : Uses(q, k)'
            BY <1>2, <2>1 DEF LInv, OneUserPerLink
        <3> QED
            BY <3>1, <3>2, <3>3
    <2>2. CASE k # l
        <3>1. link'[k] = link[k]
            BY <2>2 DEF Becomes
        <3>2. (\E q \in Callers : Uses(q, k)') <=> \E q \in Callers : Uses(q, k)
            BY <1>2, <2>2 DEF Uses
        <3> QED
            BY <3>1, <3>2 DEF LInv, BusyAccounted
    <2> QED
        BY <2>1, <2>2
<1>5. UsedNotLeaked'
    BY <1>2 DEF LInv, UsedNotLeaked
<1>6. TruthfulUnlessClosing'
    <2> SUFFICES ASSUME NEW k \in Links
                 PROVE  Truthful(k)' \/ \E q \in Callers : Uses(q, k)' /\ At(q, "closing")'
        BY DEF TruthfulUnlessClosing
    <2>1. CASE Truthful(k)
        BY <2>1 DEF Becomes, Truthful
    <2>2. CASE ~ Truthful(k)
        <3>1. PICK q \in Callers : Uses(q, k) /\ At(q, "closing")
            BY <2>2 DEF LInv, TruthfulUnlessClosing
        <3>2. q # p
            BY <3>1 DEF At
        <3> QED
            BY <1>2, <3>1, <3>2 DEF Moves, At
    <2> QED
        BY <2>1, <2>2
<1>7. ASSUME NEW q \in Callers
      PROVE  OnTheWay(q)'
    <2>1. CASE q = p
        BY <2>1 DEF OnTheWay, Moves, At
    <2>2. CASE q # p
        <3>1. caller'[q] = caller[q]
            BY <2>2 DEF Moves
        <3>2. CASE caller[q].pc \in {"closing", "check", "held"}
            <4>1. caller[q].at \in Links /\ caller[q].at # l
                BY <2>2, <3>2, HasLink DEF LInv, OneUserPerLink, Uses
            <4>2. link'[caller[q].at] = link[caller[q].at]
                BY <4>1 DEF Becomes
            <4> QED
                BY <3>1, <4>2 DEF LInv, OnTheWay, At, Mine
        <3>3. CASE caller[q].pc \notin {"closing", "check", "held"}
            BY <3>1, <3>3 DEF LInv, OnTheWay, At, Mine
        <3> QED
            BY <3>2, <3>3
    <2> QED
        BY <2>1, <2>2
<1> QED
    BY <1>1, <1>3, <1>4, <1>5, <1>6, <1>7 DEF LInv

-----------------------------------------------------------------------------
(* The steps of a caller without a link, and a connect that throws.         *)

\* Asking, being turned away and catching the exception touch no link.
LEMMA NoLinkStep ==
    ASSUME LInv, NEW p \in Callers, caller[p].pc \in {"idle", "pick", "thrown"},
           UNCHANGED <<link, leaked>>,
           caller' \in [Callers -> CallerTypes],
           caller'[p].pc \in {"idle", "pick"}, caller'[p].at = NoLink,
           \A q \in Callers : q # p => caller'[q] = caller[q]
    PROVE  LInv'
<1>1. TypeOK'
    BY DEF LInv, TypeOK, CallerTypes
<1>2. ASSUME NEW q \in Callers, NEW k \in Links
      PROVE  Uses(q, k)' <=> Uses(q, k)
    <2>1. CASE q = p
        <3>1. ~ Uses(p, k)
            BY Numbers DEF LInv, TypeOK, Uses
        <3> QED
            BY <2>1, <3>1, Numbers DEF Uses
    <2>2. CASE q # p
        BY <2>2 DEF Uses
    <2> QED
        BY <2>1, <2>2
<1>3. OneUserPerLink' /\ BusyAccounted' /\ UsedNotLeaked'
    BY <1>2 DEF LInv, OneUserPerLink, BusyAccounted, UsedNotLeaked
<1>4. TruthfulUnlessClosing'
    <2> SUFFICES ASSUME NEW k \in Links, ~ Truthful(k)
                 PROVE  \E q \in Callers : Uses(q, k)' /\ At(q, "closing")'
        BY DEF TruthfulUnlessClosing, Truthful
    <2>1. PICK q \in Callers : Uses(q, k) /\ At(q, "closing")
        BY DEF LInv, TruthfulUnlessClosing
    <2>2. q # p
        BY <2>1 DEF At
    <2> QED
        BY <1>2, <2>1, <2>2 DEF At
<1>5. ASSUME NEW q \in Callers
      PROVE  OnTheWay(q)'
    <2>1. CASE q = p
        BY <2>1 DEF OnTheWay, At
    <2>2. CASE q # p
        BY <2>2 DEF LInv, OnTheWay, At, Mine
    <2> QED
        BY <2>1, <2>2
<1> QED
    BY <1>1, <1>3, <1>4, <1>5 DEF LInv

\* The link a connect throws on has lost its user and stays busy.
LEMMA Throws ==
    ASSUME LInv, NEW p \in Callers, NEW l \in Links, Uses(p, l),
           caller[p].pc \notin {"idle", "pick", "closing"},
           Moves(p, "thrown", l),
           NEW s, Becomes(l, link[l].is_busy, FALSE, NoDb, s),
           leaked' = leaked \union {l}
    PROVE  LInv'
<1>1. TypeOK'
    <2>1. caller' \in [Callers -> CallerTypes] /\ link' \in [Links -> LinkTypes] /\ leaked' \subseteq Links
        BY DEF LInv, TypeOK, Moves, Becomes
    <2>2. ASSUME NEW q \in Callers
          PROVE  caller'[q].at = NoLink <=> caller'[q].pc \in {"idle", "pick"}
        BY Numbers DEF LInv, TypeOK, Moves
    <2> QED
        BY <2>1, <2>2 DEF TypeOK, LinkTypes, CallerTypes
<1>2. \A q \in Callers, k \in Links : Uses(q, k)' <=> q # p /\ Uses(q, k)
    BY DEF Uses, Moves
<1>3. OneUserPerLink'
    BY <1>2 DEF LInv, OneUserPerLink
<1>4. BusyAccounted'
    <2> SUFFICES ASSUME NEW k \in Links
                 PROVE  link'[k].is_busy <=> k \in leaked' \/ \E q \in Callers : Uses(q, k)'
        BY DEF BusyAccounted
    <2>0. link'[k].is_busy = link[k].is_busy
        BY DEF Becomes
    <2>1. CASE k = l
        BY <2>0, <2>1 DEF LInv, BusyAccounted
    <2>2. CASE k # l
        <3>1. (\E q \in Callers : Uses(q, k)') <=> \E q \in Callers : Uses(q, k)
            BY <1>2, <2>2 DEF Uses
        <3> QED
            BY <2>0, <2>2, <3>1 DEF LInv, BusyAccounted
    <2> QED
        BY <2>1, <2>2
<1>5. UsedNotLeaked'
    BY <1>2 DEF LInv, UsedNotLeaked, OneUserPerLink
<1>6. TruthfulUnlessClosing'
    <2> SUFFICES ASSUME NEW k \in Links
                 PROVE  Truthful(k)' \/ \E q \in Callers : Uses(q, k)' /\ At(q, "closing")'
        BY DEF TruthfulUnlessClosing
    <2>1. CASE k = l
        BY <2>1 DEF Becomes, Truthful
    <2>2. CASE k # l /\ Truthful(k)
        BY <2>2 DEF Becomes, Truthful
    <2>3. CASE k # l /\ ~ Truthful(k)
        <3>1. PICK q \in Callers : Uses(q, k) /\ At(q, "closing")
            BY <2>3 DEF LInv, TruthfulUnlessClosing
        <3>2. q # p
            BY <3>1 DEF At
        <3> QED
            BY <1>2, <3>1, <3>2 DEF Moves, At
    <2> QED
        BY <2>1, <2>2, <2>3
<1>7. ASSUME NEW q \in Callers
      PROVE  OnTheWay(q)'
    <2>1. CASE q = p
        BY <2>1 DEF OnTheWay, Moves, At
    <2>2. CASE q # p
        <3>1. caller'[q] = caller[q]
            BY <2>2 DEF Moves
        <3>2. CASE caller[q].pc \in {"closing", "check", "held"}
            <4>1. caller[q].at \in Links /\ caller[q].at # l
                BY <2>2, <3>2, HasLink DEF LInv, OneUserPerLink, Uses
            <4>2. link'[caller[q].at] = link[caller[q].at]
                BY <4>1 DEF Becomes
            <4> QED
                BY <3>1, <4>2 DEF LInv, OnTheWay, At, Mine
        <3>3. CASE caller[q].pc \notin {"closing", "check", "held"}
            BY <3>1, <3>3 DEF LInv, OnTheWay, At, Mine
        <3> QED
            BY <3>2, <3>3
    <2> QED
        BY <2>1, <2>2
<1> QED
    BY <1>1, <1>3, <1>4, <1>5, <1>6, <1>7 DEF LInv

\* The scan takes a link that nobody uses and that is not leaked.
LEMMA Picks ==
    ASSUME LInv, NEW p \in Callers, Pick(p)
    PROVE  LInv'
<1>1. PICK l \in Links :
        /\ Picked(p, l)
        /\ link' = [link EXCEPT ![l].is_busy = TRUE]
        /\ caller' = [caller EXCEPT ![p].at = l,
                        ![p].pc = IF caller[p].bPrimary THEN "primary" ELSE "check"]
    BY DEF Pick
<1>2. ~ link[l].is_busy
    BY <1>1 DEF Picked, First, IsFree
<1>3. Becomes(l, TRUE, link[l].is_connected, link[l].open, link[l].cur_sel)
    BY <1>1 DEF LInv, TypeOK, Becomes, LinkTypes
<1>4. Moves(p, IF caller[p].bPrimary THEN "primary" ELSE "check", l)
    <2> DEFINE pc == IF caller[p].bPrimary THEN "primary" ELSE "check"
    <2>1. caller' = [caller EXCEPT ![p] = [caller[p] EXCEPT !.pc = pc, !.at = l]]
        BY <1>1
    <2>2. pc \in PCs
        BY DEF PCs
    <2> QED
        BY <2>1, <2>2, MovesFacts DEF LInv
<1>5. leaked' = leaked /\ caller[p].pc = "pick"
    BY DEF Pick, At
<1>6. l \notin leaked /\ \A q \in Callers : ~ Uses(q, l)
    BY <1>2 DEF LInv, BusyAccounted
<1>7. TypeOK'
    <2>1. caller' \in [Callers -> CallerTypes] /\ link' \in [Links -> LinkTypes] /\ leaked' \subseteq Links
        BY <1>3, <1>4, <1>5 DEF LInv, TypeOK, Moves, Becomes
    <2>2. ASSUME NEW q \in Callers
          PROVE  caller'[q].at = NoLink <=> caller'[q].pc \in {"idle", "pick"}
        BY <1>4, Numbers DEF LInv, TypeOK, Moves
    <2> QED
        BY <2>1, <2>2 DEF TypeOK, LinkTypes, CallerTypes
<1>8. ASSUME NEW q \in Callers, NEW k \in Links
      PROVE  Uses(q, k)' <=> IF q = p THEN k = l ELSE Uses(q, k)
    BY <1>4 DEF Uses, Moves
<1>9. OneUserPerLink' /\ UsedNotLeaked'
    BY <1>5, <1>6, <1>8 DEF LInv, OneUserPerLink, UsedNotLeaked
<1>10. BusyAccounted'
    <2> SUFFICES ASSUME NEW k \in Links
                 PROVE  link'[k].is_busy <=> k \in leaked' \/ \E q \in Callers : Uses(q, k)'
        BY DEF BusyAccounted
    <2>1. CASE k = l
        BY <1>3, <1>8, <2>1 DEF Becomes
    <2>2. CASE k # l
        <3>1. ~ Uses(p, k)
            BY <1>5, Numbers DEF LInv, TypeOK, Uses
        <3>2. (\E q \in Callers : Uses(q, k)') <=> \E q \in Callers : Uses(q, k)
            BY <1>8, <2>2, <3>1
        <3> QED
            BY <1>3, <1>5, <2>2, <3>2 DEF LInv, BusyAccounted, Becomes
    <2> QED
        BY <2>1, <2>2
<1>11. TruthfulUnlessClosing'
    <2> SUFFICES ASSUME NEW k \in Links, ~ Truthful(k)
                 PROVE  \E q \in Callers : Uses(q, k)' /\ At(q, "closing")'
        BY <1>3 DEF TruthfulUnlessClosing, Truthful, Becomes
    <2>1. PICK q \in Callers : Uses(q, k) /\ At(q, "closing")
        BY DEF LInv, TruthfulUnlessClosing
    <2>2. q # p
        BY <1>5, <2>1 DEF At
    <2> QED
        BY <1>4, <1>8, <2>1, <2>2 DEF At, Moves
<1>12. ASSUME NEW q \in Callers
       PROVE  OnTheWay(q)'
    <2>1. CASE q = p
        BY <1>4, <2>1 DEF OnTheWay, At, Moves
    <2>2. CASE q # p
        <3>1. caller'[q] = caller[q]
            BY <1>4, <2>2 DEF Moves
        <3>2. CASE caller[q].pc \in {"closing", "check", "held"}
            <4>1. caller[q].at \in Links /\ caller[q].at # l
                BY <1>6, <3>2, HasLink DEF LInv, Uses
            <4>2. link'[caller[q].at] = link[caller[q].at]
                BY <1>3, <4>1 DEF Becomes
            <4> QED
                BY <3>1, <4>2 DEF LInv, OnTheWay, At, Mine
        <3>3. CASE caller[q].pc \notin {"closing", "check", "held"}
            BY <3>1, <3>3 DEF LInv, OnTheWay, At, Mine
        <3> QED
            BY <3>2, <3>3
    <2> QED
        BY <2>1, <2>2
<1> QED
    BY <1>7, <1>9, <1>10, <1>11, <1>12 DEF LInv

-----------------------------------------------------------------------------
(* One step of the proof per action.                                        *)

\* What a connect does, whichever way it goes on from there.
LEMMA Connects ==
    ASSUME LInv, NEW p \in Callers, caller[p].pc \in {"connect", "connect2"},
           NEW db \in Dbs, NEW succeeded \in {"check", "held"}, NEW failed \in {"check", "give_up"},
           caller[p].bPrimary => db = Default,
           ConnectDataBase(p, db, succeeded, failed)
    PROVE  LInv'
<1> DEFINE l == caller[p].at
<1>1. l \in Links /\ Uses(p, l) /\ link[l] \in LinkTypes
    BY HasLink DEF LInv, Uses
<1>2. link[l].cur_sel \in Dbs
    BY <1>1 DEF LinkTypes
<1>3. {"check", "held", "give_up", "thrown"} \subseteq PCs
    BY DEF PCs
<1>4. CASE Set(p, TRUE, db, db) /\ Goes(p, succeeded) /\ UNCHANGED leaked
    <2>1. Becomes(l, link[l].is_busy, TRUE, db, db) /\ Moves(p, succeeded, l)
        BY <1>1, <1>3, <1>4, SetFacts, GoesFacts DEF LInv
    <2>2. OnTheWay(p)'
        BY <2>1 DEF OnTheWay, At, Mine, Moves, Becomes
    <2> QED
        BY <1>1, <1>3, <1>4, <2>1, <2>2, KeepsLink
<1>5. CASE Set(p, FALSE, NoDb, Mine(p).cur_sel) /\ Goes(p, failed) /\ UNCHANGED leaked
    <2>1. Becomes(l, link[l].is_busy, FALSE, NoDb, link[l].cur_sel) /\ Moves(p, failed, l)
        BY <1>1, <1>2, <1>3, <1>5, SetFacts, GoesFacts DEF LInv, Mine
    <2>2. OnTheWay(p)'
        BY <2>1 DEF OnTheWay, At, Mine, Moves, Becomes
    <2> QED
        BY <1>1, <1>3, <1>5, <2>1, <2>2, KeepsLink
<1>6. CASE /\ Set(p, FALSE, NoDb, Mine(p).cur_sel)
           /\ Goes(p, "thrown") /\ leaked' = leaked \union {caller[p].at}
    <2>1. Becomes(l, link[l].is_busy, FALSE, NoDb, link[l].cur_sel) /\ Moves(p, "thrown", l)
        BY <1>1, <1>2, <1>3, <1>6, SetFacts, GoesFacts DEF LInv, Mine
    <2> QED
        BY <1>1, <1>6, <2>1, Throws
<1> QED
    BY <1>4, <1>5, <1>6 DEF ConnectDataBase

\* Every step of a caller preserves the invariant.
LEMMA StepInv ==
    ASSUME LInv, NEW p \in Callers,
           GetLink(p) \/ FreeLink(p) \/ CheckConnect(p) \/ DisConnect(p) \/ Catch(p)
    PROVE  LInv'
<1> DEFINE l == caller[p].at
<1>0. TypeOK
    BY DEF LInv
<1>1. ASSUME caller[p].pc \notin {"idle", "pick"}
      PROVE  /\ l \in Links /\ link[l] \in LinkTypes
             /\ caller[p].pc # "thrown" => Uses(p, l)
             /\ UNCHANGED link => Fields(l)
    BY <1>0, <1>1, HasLink, SameLink DEF Uses
<1>2. CASE Ask(p)
    <2>0. PICK d \in Dbs, b \in BOOLEAN :
            caller' = [caller EXCEPT ![p] = [@ EXCEPT !.pc = "pick", !.bPrimary = b,
                                             !.dbsel = IF b THEN Default ELSE d]]
        BY <1>2 DEF Ask
    <2>1. caller' \in [Callers -> CallerTypes]
        <3>1. caller[p] \in CallerTypes /\ "pick" \in PCs
            BY <1>0 DEF TypeOK, CallerTypes, PCs
        <3>2. (IF b THEN Default ELSE d) \in Dbs
            BY Numbers
        <3>3. [caller[p] EXCEPT !.pc = "pick", !.bPrimary = b,
                                !.dbsel = IF b THEN Default ELSE d] \in CallerTypes
            BY <3>1, <3>2 DEF CallerTypes
        <3> QED
            BY <1>0, <2>0, <3>3 DEF TypeOK, CallerTypes
    <2>2. caller'[p].pc = "pick" /\ caller'[p].at = NoLink
        BY <1>0, <1>2 DEF Ask, TypeOK, At
    <2> QED
        BY <1>2, <2>1, <2>2, NoLinkStep DEF Ask, At
<1>3. CASE Pick(p)
    BY <1>3, Picks
<1>4. CASE PickNone(p)
    BY <1>0, <1>4, ReturnsFacts, NoLinkStep DEF PickNone, At, Moves
<1>5. CASE CloseOther(p)
    <2>1. "check" \in PCs /\ "connect" \in PCs /\ caller[p].pc = "primary"
        BY <1>5 DEF PCs, CloseOther, At
    <2>2. CASE Mine(p).cur_sel # Default
        <3>1. Becomes(l, link[l].is_busy, FALSE, NoDb, link[l].cur_sel) /\ Moves(p, "connect", l)
            BY <1>0, <1>1, <1>5, <2>1, <2>2, SetFacts, GoesFacts DEF CloseOther, Mine, LinkTypes
        <3>2. OnTheWay(p)'
            BY <3>1 DEF OnTheWay, At, Moves
        <3> QED
            BY <1>1, <1>5, <2>1, <3>1, <3>2, KeepsLink DEF CloseOther
    <2>3. CASE Mine(p).cur_sel = Default
        <3> DEFINE pc == IF Mine(p).is_connected THEN "check" ELSE "connect"
        <3>1. UNCHANGED <<link, leaked>> /\ Moves(p, pc, l)
            BY <1>0, <1>5, <2>1, <2>3, GoesFacts DEF CloseOther
        <3>2. OnTheWay(p)'
            BY <2>3, <3>1 DEF OnTheWay, At, Moves, Mine
        <3>3. Truthful(l)
            BY <1>1, <2>1 DEF LInv, TruthfulUnlessClosing, OneUserPerLink, At
        <3>4. pc \in PCs \ {"idle", "pick", "thrown"} /\ Fields(l)
            BY <1>1, <2>1, <3>1
        <3> HIDE DEF pc, l
        <3> QED
            BY <1>1, <2>1, <3>1, <3>2, <3>3, <3>4, KeepsLink DEF Fields, Truthful
    <2> QED
        BY <2>2, <2>3
<1>6. CASE ConnectDefault(p)
    BY <1>6, Connects, Numbers DEF ConnectDefault, At
<1>7. CASE Check(p)
    <2>1. caller[p].pc = "check" /\ UNCHANGED <<link, leaked>> /\ l \in Links /\ Uses(p, l) /\ Fields(l)
        BY <1>1, <1>7 DEF Check, At
    <2>2. Truthful(l)
        BY <2>1 DEF LInv, TruthfulUnlessClosing, OneUserPerLink, At
    <2> DEFINE pc == IF Mine(p).is_connected THEN "held"
                     ELSE IF caller[p].bPrimary THEN "give_up" ELSE "connect2"
    <2>3. pc \in PCs \ {"idle", "pick", "thrown"}
        BY DEF PCs
    <2>4. Moves(p, pc, l)
        BY <1>0, <1>7, <2>3, GoesFacts DEF Check
    <2>5. OnTheWay(p)'
        BY <2>1, <2>4 DEF LInv, OnTheWay, At, Moves, Mine
    <2> HIDE DEF pc, l
    <2> QED
        BY <2>1, <2>2, <2>3, <2>4, <2>5, KeepsLink DEF Fields, Truthful
<1>8. CASE _Connect2(p)
    <2>1. caller[p].dbsel \in Dbs /\ caller[p].pc = "connect2"
        BY <1>0, <1>8 DEF _Connect2, TypeOK, At
    <2>2. ~ caller[p].bPrimary
        BY <2>1 DEF LInv, OnTheWay, At
    <2> QED
        BY <1>8, <2>1, <2>2, Connects DEF _Connect2
<1>9. ASSUME NotBusy(p), Returns(p), UNCHANGED leaked,
             caller[p].pc \notin {"idle", "pick", "closing", "thrown"}
      PROVE  LInv'
    <2>1. l \in Links /\ Uses(p, l)
        BY <1>1, <1>9
    <2>2. Becomes(l, FALSE, link[l].is_connected, link[l].open, link[l].cur_sel)
        BY <1>0, <1>9, <2>1, NotBusyFacts
    <2> QED
        BY <1>0, <1>9, <2>1, <2>2, ReturnsFacts, GivesBack
<1>10. CASE GiveUp(p)
    BY <1>9, <1>10 DEF GiveUp, At
<1>11. CASE FreeLink(p)
    BY <1>9, <1>11 DEF FreeLink, At
<1>12. CASE CheckConnect(p)
    <2>1. caller[p].pc = "held" /\ "dropped" \in PCs
        BY <1>12 DEF CheckConnect, At, PCs
    <2>2. Becomes(l, link[l].is_busy, FALSE, NoDb, link[l].cur_sel) /\ Moves(p, "dropped", l)
        BY <1>0, <1>1, <1>12, <2>1, SetFacts, GoesFacts DEF CheckConnect, Mine, LinkTypes
    <2>3. OnTheWay(p)'
        BY <2>2 DEF OnTheWay, At, Moves
    <2> QED
        BY <1>1, <1>12, <2>1, <2>2, <2>3, KeepsLink DEF CheckConnect
<1>13. CASE CloseForFree(p)
    <2>1. caller[p].pc \in {"held", "dropped"} /\ "closing" \in PCs
        BY <1>13 DEF CloseForFree, At, PCs
    <2>2. /\ Becomes(l, link[l].is_busy, link[l].is_connected, NoDb, link[l].cur_sel)
          /\ Moves(p, "closing", l)
        BY <1>0, <1>1, <1>13, <2>1, SetFacts, GoesFacts DEF CloseForFree, Mine, LinkTypes
    <2>3. OnTheWay(p)'
        BY <1>1, <2>1, <2>2 DEF OnTheWay, At, Moves, Mine, Becomes
    <2> QED
        BY <1>1, <1>13, <2>1, <2>2, <2>3, KeepsLink DEF CloseForFree
<1>14. CASE ResetFlag(p)
    <2>1. caller[p].pc = "closing" /\ "closed" \in PCs
        BY <1>14 DEF ResetFlag, At, PCs
    <2>2. /\ Becomes(l, link[l].is_busy, FALSE, link[l].open, link[l].cur_sel)
          /\ Moves(p, "closed", l)
        BY <1>0, <1>1, <1>14, <2>1, SetFacts, GoesFacts DEF ResetFlag, Mine, LinkTypes
    <2>3. OnTheWay(p)'
        BY <2>2 DEF OnTheWay, At, Moves
    <2>4. link[l].open = NoDb
        BY <2>1 DEF LInv, OnTheWay, At, Mine
    <2> QED
        BY <1>1, <1>14, <2>1, <2>2, <2>3, <2>4, KeepsLink DEF ResetFlag
<1>15. CASE FreeClosed(p)
    BY <1>9, <1>15 DEF FreeClosed, At
<1>16. CASE Catch(p)
    BY <1>0, <1>16, ReturnsFacts, NoLinkStep DEF Catch, At, Moves
<1> QED
    BY <1>2, <1>3, <1>4, <1>5, <1>6, <1>7, <1>8, <1>10, <1>11, <1>12, <1>13, <1>14, <1>15, <1>16
    DEF GetLink, DisConnect

LEMMA LInit == Init => LInv
<1> SUFFICES ASSUME Init PROVE LInv
    OBVIOUS
<1>1. TypeOK
    BY Numbers DEF Init, TypeOK, PCs
<1>2. \A p \in Callers, k \in Links : ~ Uses(p, k)
    BY Numbers DEF Init, Uses
<1> QED
    BY <1>1, <1>2 DEF Init, LInv, OneUserPerLink, BusyAccounted, UsedNotLeaked,
                      TruthfulUnlessClosing, Truthful, OnTheWay, At

LEMMA LNext == LInv /\ [Next]_vars => LInv'
<1> SUFFICES ASSUME LInv, [Next]_vars PROVE LInv'
    OBVIOUS
<1>1. CASE Next
    BY <1>1, StepInv DEF Next
<1>2. CASE UNCHANGED vars
    BY <1>2 DEF vars, LInv, TypeOK, OneUserPerLink, BusyAccounted, UsedNotLeaked, Uses,
                TruthfulUnlessClosing, Truthful, OnTheWay, At, Mine
<1> QED
    BY <1>1, <1>2

THEOREM Inductive == Spec => []LInv
BY LInit, LNext, PTL DEF Spec

-----------------------------------------------------------------------------
(* The results.                                                             *)

\* Links, databases and callers stay what TypeOK says, for every pool: in
\* particular no caller has the element past the end of m_aLinkInfo.
THEOREM TypeCorrect == Spec => []TypeOK
<1>1. LInv => TypeOK
    BY DEF LInv
<1> QED
    BY <1>1, Inductive, PTL

\* However many callers call GetLink, FreeLink and DisConnect, a link has one
\* user at a time.
THEOREM OneUser == Spec => []OneUserPerLink
<1>1. LInv => OneUserPerLink
    BY DEF LInv
<1> QED
    BY <1>1, Inductive, PTL

\* The busy flags are those of the links in use and of those ConnectDataBase
\* threw on, which nobody gives back.
THEOREM Accounted == Spec => []BusyAccounted
<1>1. LInv => BusyAccounted
    BY DEF LInv
<1> QED
    BY <1>1, Inductive, PTL

\* A free link's is_connected and cur_sel are true of its connection.
THEOREM TellsTruth == Spec => []FreeLinkTellsTruth
<1>1. LInv => FreeLinkTellsTruth
    BY DEF LInv, BusyAccounted, TruthfulUnlessClosing, Truthful, FreeLinkTellsTruth
<1> QED
    BY <1>1, Inductive, PTL

\* GetLink for the primary database returns a link connected to it.
THEOREM Primary == Spec => []PrimaryGetsDefault
<1>1. ASSUME LInv, NEW p \in Callers, At(p, "held"), caller[p].bPrimary
      PROVE  Mine(p).open = Default
    <2>1. caller[p].at \in Links /\ Uses(p, caller[p].at)
        BY <1>1, HasLink DEF LInv, At, Uses
    <2>2. Truthful(caller[p].at)
        BY <1>1, <2>1 DEF LInv, TruthfulUnlessClosing, OneUserPerLink, At
    <2> QED
        BY <1>1, <2>1, <2>2 DEF LInv, OnTheWay, Truthful, Mine
<1>2. LInv => PrimaryGetsDefault
    BY <1>1 DEF PrimaryGetsDefault
<1> QED
    BY <1>2, Inductive, PTL
=============================================================================
