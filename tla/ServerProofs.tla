----------------------------- MODULE ServerProofs ----------------------------
(***************************************************************************)
(* Theorems about Server for any set of clients and any number of           *)
(* descriptors.  The inductive invariant SInv says whom the kernel watches   *)
(* (WatchesOwner), and, as long as the loop and the timer thread have not    *)
(* closed each other's descriptors, whose socket a due callback reads.       *)
(***************************************************************************)
EXTENDS Server, TLAPS

TimerTypes == [pc : {"top", "write"}, own : BOOLEAN,
               fd : Fds \union {NoFd}, file : {"none", "once", "twice", "again"},
               opens : 0 .. MaxOpens]

ClientTypes == [life : {"none", "backlog", "open", "freed"}, fd : Fds \union {NoFd}]

\* A descriptor the kernel watches is that of one connected client, which has
\* the only read event on it.
WatchesOwner ==
    \A d \in watched : \E c \in Clients :
        /\ client[c].life = "open" /\ client[c].fd = d
        /\ table[d] = c /\ registered[d] = {c}

\* Only a connected client has a read event, on its own descriptor.
EventsOfOpen ==
    \A d \in Fds : \A c \in registered[d] : client[c].life = "open" /\ client[c].fd = d

FreedFinalize == \A c \in finalizers : client[c].life = "freed"

TimerOwnsFile == timer.file \in {"once", "twice"} => table[timer.fd] = "file"

\* A callback that is due finds its client connected,
ActiveOpen == \A c \in active \ {"accept"} : client[c].life = "open"

\* on its own descriptor.
ActiveOwn ==
    \A c \in active \ {"accept"} : client[c].life = "open" /\ table[client[c].fd] = c

SInv ==
    /\ TypeOK
    /\ WatchesOwner
    /\ EventsOfOpen
    /\ FreedFinalize
    /\ ActiveOpen
    /\ TimerApart => TimerOwnsFile /\ ActiveOwn /\ AnswersAsker
    /\ EveryClientHeard

-----------------------------------------------------------------------------
LEMMA SInit == Init => SInv
<1> SUFFICES ASSUME Init PROVE SInv
    OBVIOUS
<1>0. \A d \in Fds : d # NoFd
    BY DEF Fds, NoFd
<1>1. TypeOK
    BY <1>0, ConstantsAssumption DEF Init, TypeOK, Owners
<1>2. WatchesOwner /\ EventsOfOpen /\ FreedFinalize /\ ActiveOpen
    BY DEF Init, WatchesOwner, EventsOfOpen, FreedFinalize, ActiveOpen
<1>3. TimerOwnsFile /\ ActiveOwn /\ AnswersAsker /\ EveryClientHeard
    BY DEF Init, TimerOwnsFile, ActiveOwn, AnswersAsker, EveryClientHeard
<1> QED
    BY <1>1, <1>2, <1>3 DEF SInv

LEMMA NoFdIsNone == NoFd \notin Fds
BY DEF NoFd, Fds

\* What the types say, in the form the steps use.
LEMMA Typed ==
    ASSUME TypeOK
    PROVE  /\ client \in [Clients -> ClientTypes] /\ table \in [Fds -> Owners]
           /\ registered \in [Fds -> SUBSET Clients] /\ watched \subseteq Fds
           /\ \A c \in Clients : client[c].life \in {"open", "freed"} => client[c].fd \in Fds
           /\ finalizers \subseteq Clients /\ active \subseteq Clients \union {"accept"}
           /\ timer \in TimerTypes
BY DEF TypeOK, ClientTypes, TimerTypes

\* Closing a number frees it, and is on record if it named something else.
LEMMA CloseFacts ==
    ASSUME TypeOK, NEW d \in Fds, NEW by \in Owners, Close(d, by)
    PROVE  /\ table' \in [Fds -> Owners] /\ table'[d] = "free"
           /\ \A e \in Fds : e # d => table'[e] = table[e]
           /\ stolen' \subseteq Owners \X Owners /\ stolen \subseteq stolen'
           /\ <<by, table[d]>> \in stolen' \/ table[d] = by \/ table[d] = "free"
<1>1. table \in [Fds -> Owners] /\ stolen \subseteq Owners \X Owners /\ table[d] \in Owners
    BY DEF TypeOK
<1>2. /\ table' = [table EXCEPT ![d] = "free"]
      /\ stolen' = stolen \union {<<by, o>> : o \in {table[d]} \ {by, "free"}}
    BY DEF Close
<1>3. {<<by, o>> : o \in {table[d]} \ {by, "free"}} \subseteq Owners \X Owners
    BY <1>1
<1>4. table[d] \notin {by, "free"} => <<by, table[d]>> \in stolen'
    BY <1>2
<1> QED
    BY <1>1, <1>2, <1>3, <1>4 DEF Owners

\* What the clients do on their side leaves the server's tables alone.
LEMMA PeersStep == SInv /\ Peers => SInv'
<1> SUFFICES ASSUME SInv, NEW c \in Clients,
                    Connect(c) \/ Request(c) \/ HangUp(c),
                    UNCHANGED <<table, registered, watched, loopVars, main, proto, timer,
                                process, answered, stolen>>
             PROVE  SInv'
    BY DEF Peers
<1> DEFINE PeerTypes == [sent : 0 .. MaxRequests, unread : 0 .. MaxRequests, hungup : BOOLEAN]
<1>0. peer \in [Clients -> PeerTypes] /\ client \in [Clients -> ClientTypes] /\ TypeOK
    BY DEF SInv, TypeOK, ClientTypes
<1>1. /\ client' \in [Clients -> ClientTypes]
      /\ \A b \in Clients : \/ client'[b] = client[b]
                            \/ client[b].life = "none" /\ client'[b].life = "backlog"
    BY <1>0 DEF Connect, Request, HangUp, ClientTypes
<1>2. peer' \in [Clients -> PeerTypes]
    <2>1. CASE Request(c)
        BY <1>0, <2>1 DEF Request
    <2>2. CASE Connect(c) \/ HangUp(c)
        BY <1>0, <2>2 DEF Connect, HangUp
    <2> QED
        BY <2>1, <2>2
<1>3. UNCHANGED <<table, registered, watched, active, finalizers, main, proto, timer,
                  process, answered, stolen>>
    BY DEF loopVars
<1>4. TypeOK'
    BY <1>0, <1>1, <1>2, <1>3 DEF TypeOK, ClientTypes
<1>5. WatchesOwner'
    BY <1>1, <1>3 DEF SInv, WatchesOwner
<1>6. EventsOfOpen'
    <2>1. \A d \in Fds : registered[d] \subseteq Clients
        BY <1>0 DEF TypeOK
    <2> QED
        BY <1>1, <1>3, <2>1 DEF SInv, EventsOfOpen
<1>7. FreedFinalize' /\ ActiveOpen'
    BY <1>0, <1>1, <1>3 DEF SInv, FreedFinalize, ActiveOpen, TypeOK
<1>8. TimerApart' => TimerOwnsFile' /\ ActiveOwn' /\ AnswersAsker'
    BY <1>0, <1>1, <1>3 DEF SInv, TimerApart, TimerOwnsFile, ActiveOwn, AnswersAsker, TypeOK
<1>9. EveryClientHeard'
    BY <1>1, <1>3 DEF SInv, EveryClientHeard
<1> QED
    BY <1>4, <1>5, <1>6, <1>7, <1>8, <1>9 DEF SInv

\* The callbacks a poll finds due are those of watched descriptors, hence of
\* their owners.
LEMMA PollStep == SInv /\ Poll /\ UNCHANGED timer => SInv'
<1> SUFFICES ASSUME SInv, Poll, UNCHANGED timer PROVE SInv'
    OBVIOUS
<1>1. UNCHANGED <<peer, client, table, registered, watched, finalizers, main, proto, timer,
                  process, answered, stolen>> /\ active' = Ready
    BY DEF Poll, netVars
<1>2. \A c \in Ready \ {"accept"} :
         c \in Clients /\ client[c].life = "open" /\ table[client[c].fd] = c
    <2>1. ASSUME NEW c \in Ready \ {"accept"} 
          PROVE  c \in Clients /\ client[c].life = "open" /\ table[client[c].fd] = c
        <3>1. c \in UNION {registered[d] : d \in {e \in watched : Readable(e)}}
            <4> DEFINE Due == UNION {registered[d] : d \in {e \in watched : Readable(e)}}
                       New == {a \in {"accept"} : \E b \in Clients : client[b].life = "backlog"}
            <4>1. New \subseteq {"accept"} /\ Ready = Due \union New
                BY DEF Ready
            <4> HIDE DEF Due, New
            <4>2. c \in Due
                BY <2>1, <4>1
            <4> QED
                BY <4>2 DEF Due
        <3>2. PICK d \in watched : c \in registered[d]
            BY <3>1
        <3>3. PICK b \in Clients : /\ client[b].life = "open" /\ client[b].fd = d
                                   /\ table[d] = b /\ registered[d] = {b}
            BY <3>2 DEF SInv, WatchesOwner
        <3> QED
            BY <3>2, <3>3
    <2> QED
        BY <2>1
<1>3. Ready \subseteq Clients \union {"accept"}
    BY <1>2
<1>4. TypeOK'
    BY <1>1, <1>3 DEF SInv, TypeOK
<1> QED
    BY <1>1, <1>2, <1>4 DEF SInv, WatchesOwner, EventsOfOpen, FreedFinalize, ActiveOpen, TimerApart,
       TimerOwnsFile, ActiveOwn, AnswersAsker, EveryClientHeard

\* A new client takes a free descriptor, which therefore nobody's callback is
\* about to use; it is watched unless a client that lost the number still has
\* its read event there.
LEMMA AcceptStep == SInv /\ on_accept /\ UNCHANGED timer => SInv'
<1> SUFFICES ASSUME SInv, on_accept, UNCHANGED timer PROVE SInv'
    OBVIOUS
<1>1. /\ UNCHANGED <<peer, finalizers, main, proto, timer, process, answered, stolen>>
      /\ active' = active \ {"accept"}
    BY DEF on_accept
<1>0. TypeOK
    BY DEF SInv
<1>2. CASE UNCHANGED <<table, client, registered, watched>>
    <2>1. TypeOK'
        BY <1>0, <1>1, <1>2 DEF TypeOK
    <2> QED
        BY <1>1, <1>2, <2>1 DEF SInv, WatchesOwner, EventsOfOpen, FreedFinalize, ActiveOpen, TimerApart,
           TimerOwnsFile, ActiveOwn, AnswersAsker, EveryClientHeard
<1>3. ASSUME NEW c \in Clients, NEW d \in Fds, Accepted(c, d) PROVE SInv'
    <2>1. /\ table[d] = "free" /\ client[c].life = "backlog"
          /\ table' = [table EXCEPT ![d] = c]
          /\ client' = [client EXCEPT ![c].life = "open", ![c].fd = d]
          /\ registered' = [registered EXCEPT ![d] = @ \union {c}]
          /\ watched' = IF registered[d] = {} THEN watched \union {d} ELSE watched
        BY <1>3 DEF Accepted, IsLowestFree, FreeFds
    <2>2. /\ client \in [Clients -> ClientTypes] /\ table \in [Fds -> Owners]
          /\ registered \in [Fds -> SUBSET Clients] /\ watched \subseteq Fds
          /\ \A b \in Clients : client[b].life \in {"open", "freed"} => client[b].fd \in Fds
        BY <1>0, Typed
    <2>3. /\ client' \in [Clients -> ClientTypes]
          /\ client'[c].life = "open" /\ client'[c].fd = d
          /\ \A b \in Clients : b # c => client'[b] = client[b]
        BY <2>1, <2>2 DEF ClientTypes
    <2>4. /\ table' \in [Fds -> Owners] /\ table'[d] = c
          /\ \A e \in Fds : e # d => table'[e] = table[e]
        BY <2>1, <2>2 DEF Owners
    <2>5. /\ registered' \in [Fds -> SUBSET Clients] /\ registered'[d] = registered[d] \union {c}
          /\ \A e \in Fds : e # d => registered'[e] = registered[e]
        BY <2>1, <2>2
    <2>6. /\ watched' \subseteq Fds /\ watched \subseteq watched'
          /\ \A e \in watched' : e = d \/ e \in watched
          /\ d \in watched' => registered[d] = {} \/ d \in watched
          /\ registered[d] = {} => d \in watched'
        BY <2>1, <2>2
    <2>7. c # "free" /\ c # "file" /\ c # "accept" /\ d \notin watched
        BY <2>1, ConstantsAssumption DEF SInv, WatchesOwner
    <2>8. TypeOK'
        <3>1. \A b \in Clients : client'[b].life \in {"open", "freed"} => client'[b].fd # NoFd
            BY <2>2, <2>3, NoFdIsNone
        <3>2. client' \in [Clients -> [life : {"none", "backlog", "open", "freed"},
                                       fd : Fds \union {NoFd}]]
            BY <2>3 DEF ClientTypes
        <3>3. active' \subseteq Clients \union {"accept"}
            BY <1>0, <1>1 DEF TypeOK
        <3>4. watched' \subseteq Fds
            BY <2>6
        <3> QED
            BY <1>0, <1>1, <2>4, <2>5, <3>1, <3>2, <3>3, <3>4 DEF TypeOK
    <2>9. WatchesOwner'
        <3> SUFFICES ASSUME NEW e \in watched'
                     PROVE  \E b \in Clients :
                              /\ client'[b].life = "open" /\ client'[b].fd = e
                              /\ table'[e] = b /\ registered'[e] = {b}
            BY DEF WatchesOwner
        <3>1. CASE e = d
            <4>1. registered'[d] = {c}
                BY <2>5, <2>6, <2>7, <3>1
            <4> QED
                BY <2>3, <2>4, <3>1, <4>1
        <3>2. CASE e # d
            <4>1. e \in watched /\ e \in Fds
                BY <2>2, <2>6, <3>2
            <4>2. PICK b \in Clients : /\ client[b].life = "open" /\ client[b].fd = e
                                       /\ table[e] = b /\ registered[e] = {b}
                BY <4>1 DEF SInv, WatchesOwner
            <4> QED
                BY <2>1, <2>3, <2>4, <2>5, <3>2, <4>1, <4>2
        <3> QED
            BY <3>1, <3>2
    <2>10. EventsOfOpen'
        <3> SUFFICES ASSUME NEW e \in Fds, NEW b \in registered'[e]
                     PROVE  client'[b].life = "open" /\ client'[b].fd = e
            BY DEF EventsOfOpen
        <3>1. CASE b = c
            <4>1. c \notin registered[e]
                BY <2>1 DEF SInv, EventsOfOpen
            <4>2. e = d
                BY <2>5, <3>1, <4>1
            <4> QED
                BY <2>3, <3>1, <4>2
        <3>2. CASE b # c
            <4>1. b \in registered[e] /\ b \in Clients
                BY <2>2, <2>5, <3>2
            <4> QED
                BY <2>3, <3>2, <4>1 DEF SInv, EventsOfOpen
        <3> QED
            BY <3>1, <3>2
    <2>11. FreedFinalize' /\ ActiveOpen'
        BY <1>0, <1>1, <2>1, <2>3 DEF SInv, FreedFinalize, ActiveOpen, TypeOK
    <2>12. TimerApart' => TimerOwnsFile' /\ ActiveOwn' /\ AnswersAsker'
        <3> SUFFICES ASSUME TimerApart' PROVE TimerOwnsFile' /\ ActiveOwn' /\ AnswersAsker'
            OBVIOUS
        <3>1. TimerApart /\ TimerOwnsFile /\ ActiveOwn /\ AnswersAsker
            BY <1>1 DEF SInv, TimerApart
        <3>2. TimerOwnsFile'
            <4>1. timer.fd \in Fds \union {NoFd}
                BY <1>0 DEF TypeOK
            <4> QED
                BY <1>1, <2>1, <2>4, <3>1, <4>1 DEF TimerOwnsFile
        <3>3. ActiveOwn'
            <4> SUFFICES ASSUME NEW b \in active' \ {"accept"}
                         PROVE  client'[b].life = "open" /\ table'[client'[b].fd] = b
                BY DEF ActiveOwn
            <4>1. b \in Clients /\ client[b].life = "open" /\ table[client[b].fd] = b
                BY <1>0, <1>1, <3>1 DEF ActiveOwn, TypeOK
            <4>2. b # c /\ client[b].fd \in Fds /\ client[b].fd # d
                BY <2>1, <2>2, <4>1, ConstantsAssumption
            <4> QED
                BY <2>3, <2>4, <4>1, <4>2
        <3>4. AnswersAsker'
            BY <1>1, <3>1 DEF AnswersAsker
        <3> QED
            BY <3>2, <3>3, <3>4
    <2>13. EveryClientHeard'
        <3> SUFFICES ASSUME stolen' = {}, NEW b \in Clients, client'[b].life = "open"
                     PROVE  client'[b].fd \in watched' /\ registered'[client'[b].fd] = {b}
            BY DEF EveryClientHeard
        <3>1. EveryClientHeard /\ stolen = {}
            BY <1>1 DEF SInv
        <3>2. CASE b = c
            <4>1. registered[d] = {}
                <5> SUFFICES ASSUME NEW a \in registered[d] PROVE FALSE
                    BY <2>2
                <5>1. a \in Clients /\ client[a].life = "open" /\ client[a].fd = d
                    BY <2>2 DEF SInv, EventsOfOpen
                <5> QED
                    BY <2>7, <3>1, <5>1 DEF EveryClientHeard
            <4> QED
                BY <2>3, <2>5, <2>6, <3>2, <4>1
        <3>3. CASE b # c
            <4>1. /\ client'[b] = client[b] /\ client[b].fd \in watched
                  /\ registered[client[b].fd] = {b}
                BY <2>3, <3>1, <3>3 DEF EveryClientHeard
            <4>2. client[b].fd # d /\ client[b].fd \in Fds
                BY <2>2, <2>7, <4>1
            <4> QED
                BY <2>5, <2>6, <4>1, <4>2
        <3> QED
            BY <3>2, <3>3
    <2> QED
        BY <2>8, <2>9, <2>10, <2>11, <2>12, <2>13 DEF SInv
<1> QED
    BY <1>2, <1>3 DEF on_accept

\* Reading takes a client's requests and nothing else; while the timer thread's
\* file is its own, the descriptor that is read is the client's.
LEMMA ReadStep ==
    ASSUME SInv, NEW c \in Clients, buffered_on_read(c) \/ NothingToRead(c), UNCHANGED timer
    PROVE  SInv'
<1>0. TypeOK /\ client \in [Clients -> ClientTypes]
    BY Typed DEF SInv
<1>1. /\ UNCHANGED <<client, table, registered, watched, finalizers, main, proto, timer,
                     process, stolen>>
      /\ active' = active \ {c} /\ c \in active
    BY DEF buffered_on_read, NothingToRead, netVars
<1>2. /\ \/ answered' = answered
         \/ answered' = answered \union {<<c, table[client[c].fd]>>}
      /\ peer' = peer \/ \E a \in Clients : peer' = [peer EXCEPT ![a].unread = 0]
      /\ answered' # answered => table[client[c].fd] \in Clients
    BY DEF buffered_on_read, NothingToRead, netVars
<1>3. TypeOK'
    <2>1. peer' \in [Clients -> [sent : 0 .. MaxRequests, unread : 0 .. MaxRequests,
                                 hungup : BOOLEAN]]
        <3>1. 0 \in 0 .. MaxRequests
            BY ConstantsAssumption
        <3> QED
            BY <1>0, <1>2, <3>1 DEF TypeOK
    <2>2. answered' \subseteq Clients \X Owners
        <3>1. answered \subseteq Clients \X Owners /\ Clients \subseteq Owners
            BY <1>0 DEF TypeOK, Owners
        <3>2. CASE answered' = answered
            BY <3>1, <3>2
        <3>3. CASE answered' # answered
            <4>1. <<c, table[client[c].fd]>> \in Clients \X Owners
                BY <1>2, <3>1, <3>3
            <4> QED
                BY <1>2, <3>1, <3>3, <4>1
        <3> QED
            BY <3>2, <3>3
    <2> QED
        BY <1>0, <1>1, <2>1, <2>2 DEF TypeOK
<1>4. WatchesOwner' /\ EventsOfOpen' /\ FreedFinalize' /\ ActiveOpen' /\ EveryClientHeard'
    BY <1>1 DEF SInv, WatchesOwner, EventsOfOpen, FreedFinalize, ActiveOpen, EveryClientHeard
<1>5. TimerApart' => TimerOwnsFile' /\ ActiveOwn' /\ AnswersAsker'
    <2> SUFFICES ASSUME TimerApart' PROVE TimerOwnsFile' /\ ActiveOwn' /\ AnswersAsker'
        OBVIOUS
    <2>1. TimerApart /\ TimerOwnsFile /\ ActiveOwn /\ AnswersAsker
        BY <1>1 DEF SInv, TimerApart
    <2>2. TimerOwnsFile' /\ ActiveOwn'
        BY <1>1, <2>1 DEF TimerOwnsFile, ActiveOwn
    <2>3. table[client[c].fd] = c
        BY <1>1, <2>1, ConstantsAssumption DEF ActiveOwn
    <2>4. AnswersAsker'
        BY <1>2, <2>1, <2>3 DEF AnswersAsker
    <2> QED
        BY <2>2, <2>4
<1> QED
    BY <1>3, <1>4, <1>5 DEF SInv

\* The error callback closes the descriptor the client has, and libevent has
\* forgotten the client by then.
LEMMA ErrorStep ==
    ASSUME SInv, NEW c \in Clients, buffered_on_error(c), UNCHANGED timer
    PROVE  SInv'
<1> DEFINE d == client[c].fd
<1>00. client[c].life = "open"
    BY ConstantsAssumption DEF SInv, ActiveOpen, buffered_on_error
<1>0. /\ TypeOK /\ client \in [Clients -> ClientTypes] /\ d \in Fds
      /\ registered \in [Fds -> SUBSET Clients] /\ watched \subseteq Fds
      /\ \A b \in Clients : client[b].life \in {"open", "freed"} => client[b].fd \in Fds
    BY <1>00, Typed DEF SInv
<1>1. /\ UNCHANGED <<peer, main, proto, timer, process, answered>>
      /\ active' = active \ {c} /\ c \in active
      /\ finalizers' = finalizers \union {c}
      /\ registered' = [registered EXCEPT ![d] = @ \ {c}]
      /\ watched' = watched \ {d}
      /\ client' = [client EXCEPT ![c].life = "freed"]
      /\ Close(d, c)
    BY DEF buffered_on_error, DropEvent
<1>2. /\ table' \in [Fds -> Owners] /\ table'[d] = "free"
      /\ \A e \in Fds : e # d => table'[e] = table[e]
      /\ stolen' \subseteq Owners \X Owners /\ stolen \subseteq stolen'
      /\ <<c, table[d]>> \in stolen' \/ table[d] = c \/ table[d] = "free"
    BY <1>0, <1>1, CloseFacts DEF Owners
<1>3. /\ client' \in [Clients -> ClientTypes]
      /\ client'[c].life = "freed" /\ client'[c].fd = d
      /\ \A b \in Clients : b # c => client'[b] = client[b]
    BY <1>0, <1>1 DEF ClientTypes
<1>4. /\ registered' \in [Fds -> SUBSET Clients] /\ registered'[d] = registered[d] \ {c}
      /\ \A e \in Fds : e # d => registered'[e] = registered[e]
    BY <1>0, <1>1
<1> HIDE DEF d
<1>5. TypeOK'
    <2>1. \A b \in Clients : client'[b].life \in {"open", "freed"} => client'[b].fd # NoFd
        BY <1>0, <1>3, NoFdIsNone
    <2>2. client' \in [Clients -> [life : {"none", "backlog", "open", "freed"},
                                   fd : Fds \union {NoFd}]]
        BY <1>3 DEF ClientTypes
    <2>3. active' \subseteq Clients \union {"accept"} /\ finalizers' \subseteq Clients
        BY <1>0, <1>1 DEF TypeOK
    <2>4. watched' \subseteq Fds
        BY <1>0, <1>1
    <2> QED
        BY <1>0, <1>1, <1>2, <1>4, <2>1, <2>2, <2>3, <2>4 DEF TypeOK
<1>6. WatchesOwner'
    <2> SUFFICES ASSUME NEW e \in watched'
                 PROVE  \E b \in Clients :
                          /\ client'[b].life = "open" /\ client'[b].fd = e
                          /\ table'[e] = b /\ registered'[e] = {b}
        BY DEF WatchesOwner
    <2>1. e \in watched /\ e # d /\ e \in Fds
        BY <1>0, <1>1
    <2>2. PICK b \in Clients : /\ client[b].life = "open" /\ client[b].fd = e
                               /\ table[e] = b /\ registered[e] = {b}
        BY <2>1 DEF SInv, WatchesOwner
    <2>3. b # c
        BY <2>1, <2>2 DEF d
    <2> QED
        BY <1>2, <1>3, <1>4, <2>1, <2>2, <2>3
<1>7. EventsOfOpen'
    <2> SUFFICES ASSUME NEW e \in Fds, NEW b \in registered'[e]
                 PROVE  client'[b].life = "open" /\ client'[b].fd = e
        BY DEF EventsOfOpen
    <2>1. b \in registered[e] /\ b \in Clients
        BY <1>0, <1>4
    <2>2. client[b].life = "open" /\ client[b].fd = e
        BY <2>1 DEF SInv, EventsOfOpen
    <2>3. b # c
        BY <1>4, <2>2 DEF d
    <2> QED
        BY <1>3, <2>1, <2>2, <2>3
<1>8. FreedFinalize' /\ ActiveOpen'
    BY <1>0, <1>1, <1>3 DEF SInv, FreedFinalize, ActiveOpen, TypeOK
<1>9. TimerApart' => TimerOwnsFile' /\ ActiveOwn' /\ AnswersAsker'
    <2> SUFFICES ASSUME TimerApart' PROVE TimerOwnsFile' /\ ActiveOwn' /\ AnswersAsker'
        OBVIOUS
    <2>1. TimerApart /\ TimerOwnsFile /\ ActiveOwn /\ AnswersAsker
        BY <1>2 DEF SInv, TimerApart
    <2>2. table[d] = c /\ c # "file" /\ c # "free" /\ c # "accept"
        BY <1>1, <2>1, ConstantsAssumption DEF ActiveOwn, d
    <2>3. TimerOwnsFile'
        <3>1. timer.fd \in Fds \union {NoFd}
            BY <1>0 DEF TypeOK
        <3>2. timer.file \in {"once", "twice"} => timer.fd \in Fds /\ timer.fd # d
            BY <1>0, <2>1, <2>2, <3>1 DEF TimerOwnsFile, TypeOK
        <3> QED
            BY <1>1, <1>2, <2>1, <3>2 DEF TimerOwnsFile
    <2>4. ActiveOwn'
        <3> SUFFICES ASSUME NEW b \in active' \ {"accept"}
                     PROVE  client'[b].life = "open" /\ table'[client'[b].fd] = b
            BY DEF ActiveOwn
        <3>1. b \in Clients /\ b # c /\ client[b].life = "open" /\ table[client[b].fd] = b
            BY <1>0, <1>1, <2>1 DEF ActiveOwn, TypeOK
        <3>2. client[b].fd \in Fds /\ client[b].fd # d
            BY <1>0, <2>2, <3>1
        <3> QED
            BY <1>2, <1>3, <3>1, <3>2
    <2>5. AnswersAsker'
        BY <1>1, <1>2, <2>1 DEF AnswersAsker
    <2> QED
        BY <2>3, <2>4, <2>5
<1>10. EveryClientHeard'
    <2> SUFFICES ASSUME stolen' = {}, NEW b \in Clients, client'[b].life = "open"
                 PROVE  client'[b].fd \in watched' /\ registered'[client'[b].fd] = {b}
        BY DEF EveryClientHeard
    <2>1. EveryClientHeard /\ stolen = {} /\ b # c /\ client'[b] = client[b]
        BY <1>2, <1>3 DEF SInv
    <2>2. /\ client[b].fd \in watched /\ registered[client[b].fd] = {b}
          /\ registered[d] = {c}
        BY <1>00, <2>1 DEF EveryClientHeard, d
    <2>3. client[b].fd # d /\ client[b].fd \in Fds
        BY <1>0, <2>1, <2>2
    <2> QED
        BY <1>1, <1>4, <2>1, <2>2, <2>3
<1> QED
    BY <1>5, <1>6, <1>7, <1>8, <1>9, <1>10 DEF SInv

\* A finalizer closes a number that may have gone to somebody else by now; then
\* the kernel watches it no longer, and the loss is on record.
LEMMA FinalizeStep ==
    ASSUME SInv, NEW c \in Clients, Finalize(c), UNCHANGED timer
    PROVE  SInv'
<1> DEFINE d == client[c].fd
<1>0. /\ TypeOK /\ client \in [Clients -> ClientTypes] /\ d \in Fds
      /\ registered \in [Fds -> SUBSET Clients] /\ watched \subseteq Fds
      /\ client[c].life = "freed"
      /\ \A b \in Clients : client[b].life \in {"open", "freed"} => client[b].fd \in Fds
    BY Typed DEF SInv, FreedFinalize, Finalize
<1>1. /\ UNCHANGED <<peer, client, registered, active, main, proto, timer, process, answered>>
      /\ finalizers' = finalizers \ {c} /\ active = {}
      /\ watched' = watched \ {d}
      /\ Close(d, c)
    BY DEF Finalize
<1>2. /\ table' \in [Fds -> Owners] /\ table'[d] = "free"
      /\ \A e \in Fds : e # d => table'[e] = table[e]
      /\ stolen' \subseteq Owners \X Owners /\ stolen \subseteq stolen'
      /\ <<c, table[d]>> \in stolen' \/ table[d] = c \/ table[d] = "free"
    BY <1>0, <1>1, CloseFacts DEF Owners
<1> HIDE DEF d
<1>3. TypeOK'
    <2>1. finalizers' \subseteq Clients /\ watched' \subseteq Fds
        BY <1>0, <1>1 DEF TypeOK
    <2> QED
        BY <1>0, <1>1, <1>2, <2>1 DEF TypeOK
<1>4. WatchesOwner'
    <2> SUFFICES ASSUME NEW e \in watched'
                 PROVE  \E b \in Clients :
                          /\ client'[b].life = "open" /\ client'[b].fd = e
                          /\ table'[e] = b /\ registered'[e] = {b}
        BY DEF WatchesOwner
    <2>1. e \in watched /\ e # d /\ e \in Fds
        BY <1>0, <1>1
    <2> QED
        BY <1>1, <1>2, <2>1 DEF SInv, WatchesOwner
<1>5. EventsOfOpen' /\ FreedFinalize' /\ ActiveOpen'
    BY <1>1 DEF SInv, EventsOfOpen, FreedFinalize, ActiveOpen
<1>6. TimerApart' => TimerOwnsFile' /\ ActiveOwn' /\ AnswersAsker'
    <2> SUFFICES ASSUME TimerApart' PROVE TimerOwnsFile' /\ ActiveOwn' /\ AnswersAsker'
        OBVIOUS
    <2>1. TimerApart /\ TimerOwnsFile /\ AnswersAsker
        BY <1>2 DEF SInv, TimerApart
    <2>2. TimerOwnsFile'
        <3>1. c # "file" /\ (<<c, table[d]>> \in stolen' => table[d] # "file")
            BY ConstantsAssumption DEF TimerApart
        <3>2. table[d] # "file"
            BY <1>2, <3>1
        <3>3. timer.fd \in Fds \union {NoFd}
            BY <1>0 DEF TypeOK
        <3>4. timer.file \in {"once", "twice"} => timer.fd \in Fds /\ timer.fd # d
            BY <1>0, <2>1, <3>2, <3>3 DEF TimerOwnsFile, TypeOK
        <3> QED
            BY <1>1, <1>2, <2>1, <3>4 DEF TimerOwnsFile
    <2>3. ActiveOwn'
        BY <1>1 DEF ActiveOwn
    <2>4. AnswersAsker'
        BY <1>1, <1>2, <2>1 DEF AnswersAsker
    <2> QED
        BY <2>2, <2>3, <2>4
<1>7. EveryClientHeard'
    <2> SUFFICES ASSUME stolen' = {}, NEW b \in Clients, client[b].life = "open"
                 PROVE  client[b].fd \in watched' /\ registered[client[b].fd] = {b}
        BY <1>1 DEF EveryClientHeard
    <2>1. client[b].fd \in watched /\ registered[client[b].fd] = {b}
        BY <1>2 DEF SInv, EveryClientHeard
    <2>2. table[client[b].fd] = b
        BY <2>1 DEF SInv, WatchesOwner
    <2>3. client[b].fd # d
        BY <1>0, <1>2, <2>2, ConstantsAssumption
    <2> QED
        BY <1>1, <2>1, <2>3
<1> QED
    BY <1>3, <1>4, <1>5, <1>6, <1>7 DEF SInv

\* The steps that leave sockets and callbacks alone.
LEMMA QuietStep ==
    ASSUME SInv,
           UNCHANGED <<peer, client, table, registered, watched, active, finalizers,
                       answered, stolen>>,
           timer' \in TimerTypes, timer'.fd = timer.fd, timer'.file = timer.file,
           main' \in {"dispatch", "clear_proto", "free_global", "join"},
           proto' \in {"live", "dangling", "null", "new"},
           process' \in {"up", "wild"}
    PROVE  SInv'
<1>1. TypeOK'
    BY DEF SInv, TypeOK, TimerTypes
<1> QED
    BY <1>1 DEF SInv, WatchesOwner, EventsOfOpen, FreedFinalize, ActiveOpen, TimerApart,
       TimerOwnsFile, ActiveOwn, AnswersAsker, EveryClientHeard

\* The timer thread opens a number that is free.
LEMMA OpenFileStep ==
    SInv /\ OpenFile /\ UNCHANGED <<peer, client, registered, loopVars, main, answered>> => SInv'
<1> SUFFICES ASSUME SInv, OpenFile,
                    UNCHANGED <<peer, client, registered, loopVars, main, answered>>
             PROVE  SInv'
    OBVIOUS
<1>0. /\ TypeOK /\ table \in [Fds -> Owners] /\ timer \in TimerTypes /\ watched \subseteq Fds
      /\ \A b \in Clients : client[b].life \in {"open", "freed"} => client[b].fd \in Fds
    BY Typed DEF SInv
<1>1. UNCHANGED <<peer, client, registered, active, finalizers, main, answered,
                  watched, proto, process, stolen>>
    BY DEF OpenFile, loopVars
<1>2. PICK d \in Fds : /\ table[d] = "free"
                       /\ table' = [table EXCEPT ![d] = "file"]
                       /\ \E f \in {"once", "twice"} :
                            timer' = [timer EXCEPT !.fd = d, !.file = f, !.opens = @ + 1]
                       /\ timer.opens < MaxOpens
    BY DEF OpenFile, IsLowestFree, FreeFds
<1>3. /\ table' \in [Fds -> Owners] /\ table'[d] = "file"
      /\ \A e \in Fds : e # d => table'[e] = table[e]
    BY <1>0, <1>2 DEF Owners
<1>4. /\ timer' \in TimerTypes /\ timer'.fd = d
      /\ timer'.fd = NoFd <=> timer'.file = "none"
    <2>1. timer.opens + 1 \in 0 .. MaxOpens
        BY <1>0, <1>2, ConstantsAssumption DEF TimerTypes
    <2>2. PICK f \in {"once", "twice"} :
              timer' = [pc |-> timer.pc, own |-> timer.own, fd |-> d, file |-> f,
                        opens |-> timer.opens + 1]
        BY <1>0, <1>2 DEF TimerTypes
    <2> QED
        BY <1>0, <2>1, <2>2, NoFdIsNone DEF TimerTypes
<1>5. TypeOK'
    BY <1>0, <1>1, <1>3, <1>4 DEF TypeOK, TimerTypes
<1>6. WatchesOwner'
    <2>1. d \notin watched
        BY <1>2, ConstantsAssumption DEF SInv, WatchesOwner
    <2> QED
        BY <1>0, <1>1, <1>3, <2>1 DEF SInv, WatchesOwner
<1>7. EventsOfOpen' /\ FreedFinalize' /\ ActiveOpen' /\ EveryClientHeard'
    BY <1>1 DEF SInv, EventsOfOpen, FreedFinalize, ActiveOpen, EveryClientHeard
<1>8. TimerApart' => TimerOwnsFile' /\ ActiveOwn' /\ AnswersAsker'
    <2> SUFFICES ASSUME TimerApart' PROVE TimerOwnsFile' /\ ActiveOwn' /\ AnswersAsker'
        OBVIOUS
    <2>1. TimerApart /\ ActiveOwn /\ AnswersAsker
        BY <1>1 DEF SInv, TimerApart
    <2>2. TimerOwnsFile' /\ AnswersAsker'
        BY <1>1, <1>3, <1>4, <2>1 DEF TimerOwnsFile, AnswersAsker
    <2>3. ActiveOwn'
        <3> SUFFICES ASSUME NEW b \in active \ {"accept"}
                     PROVE  client[b].life = "open" /\ table'[client[b].fd] = b
            BY <1>1 DEF ActiveOwn
        <3>1. b \in Clients /\ client[b].life = "open" /\ table[client[b].fd] = b
            BY <1>0, <2>1 DEF ActiveOwn, TypeOK
        <3>2. client[b].fd \in Fds /\ client[b].fd # d
            BY <1>0, <1>2, <3>1, ConstantsAssumption
        <3> QED
            BY <1>3, <3>1, <3>2
    <2> QED
        BY <2>2, <2>3
<1> QED
    BY <1>5, <1>6, <1>7, <1>8 DEF SInv

\* Closing its own file the timer thread takes nobody's descriptor; the second
\* time it may, and that is on record.
LEMMA CloseFileStep ==
    SInv /\ CloseFile /\ UNCHANGED <<peer, client, registered, loopVars, main, answered>> => SInv'
<1> SUFFICES ASSUME SInv, CloseFile,
                    UNCHANGED <<peer, client, registered, loopVars, main, answered>>
             PROVE  SInv'
    OBVIOUS
<1> DEFINE d == timer.fd
<1>0. /\ TypeOK /\ timer \in TimerTypes /\ watched \subseteq Fds /\ d \in Fds
      /\ \A b \in Clients : client[b].life \in {"open", "freed"} => client[b].fd \in Fds
    BY Typed DEF SInv, CloseFile, TypeOK
<1>1. /\ UNCHANGED <<peer, client, registered, active, finalizers, main, answered, proto, process>>
      /\ Close(d, "file") /\ watched' = watched \ {d}
      /\ timer' = IF timer.file = "twice" THEN [timer EXCEPT !.file = "again"]
                  ELSE [timer EXCEPT !.fd = NoFd, !.file = "none"]
    BY DEF CloseFile, loopVars
<1>2. /\ table' \in [Fds -> Owners] /\ table'[d] = "free"
      /\ \A e \in Fds : e # d => table'[e] = table[e]
      /\ stolen' \subseteq Owners \X Owners /\ stolen \subseteq stolen'
      /\ <<"file", table[d]>> \in stolen' \/ table[d] = "file" \/ table[d] = "free"
    BY <1>0, <1>1, CloseFacts DEF Owners
<1>3. /\ timer' \in TimerTypes /\ timer'.file \in {"again", "none"}
      /\ timer'.fd = NoFd <=> timer'.file = "none"
    BY <1>0, <1>1, NoFdIsNone DEF TimerTypes
<1> HIDE DEF d
<1>4. TypeOK'
    <2>1. watched' \subseteq Fds
        BY <1>0, <1>1
    <2> QED
        BY <1>0, <1>1, <1>2, <1>3, <2>1 DEF TypeOK, TimerTypes
<1>5. WatchesOwner'
    <2> SUFFICES ASSUME NEW e \in watched'
                 PROVE  \E b \in Clients :
                          /\ client'[b].life = "open" /\ client'[b].fd = e
                          /\ table'[e] = b /\ registered'[e] = {b}
        BY DEF WatchesOwner
    <2>1. e \in watched /\ e # d /\ e \in Fds
        BY <1>0, <1>1
    <2> QED
        BY <1>1, <1>2, <2>1 DEF SInv, WatchesOwner
<1>6. EventsOfOpen' /\ FreedFinalize' /\ ActiveOpen'
    BY <1>1 DEF SInv, EventsOfOpen, FreedFinalize, ActiveOpen
<1>7. TimerApart' => TimerOwnsFile' /\ ActiveOwn' /\ AnswersAsker'
    <2> SUFFICES ASSUME TimerApart' PROVE TimerOwnsFile' /\ ActiveOwn' /\ AnswersAsker'
        OBVIOUS
    <2>1. TimerApart /\ TimerOwnsFile /\ ActiveOwn /\ AnswersAsker
        BY <1>2 DEF SInv, TimerApart
    <2>2. table[d] \in {"file", "free"}
        BY <1>2 DEF TimerApart
    <2>3. ActiveOwn'
        <3> SUFFICES ASSUME NEW b \in active \ {"accept"}
                     PROVE  client[b].life = "open" /\ table'[client[b].fd] = b
            BY <1>1 DEF ActiveOwn
        <3>1. b \in Clients /\ client[b].life = "open" /\ table[client[b].fd] = b
            BY <1>0, <2>1 DEF ActiveOwn, TypeOK
        <3>2. client[b].fd \in Fds /\ client[b].fd # d
            BY <1>0, <2>2, <3>1, ConstantsAssumption
        <3> QED
            BY <1>2, <3>1, <3>2
    <2>4. TimerOwnsFile' /\ AnswersAsker'
        BY <1>1, <1>2, <1>3, <2>1 DEF TimerOwnsFile, AnswersAsker
    <2> QED
        BY <2>3, <2>4
<1>8. EveryClientHeard'
    <2> SUFFICES ASSUME stolen' = {}, NEW b \in Clients, client[b].life = "open"
                 PROVE  client[b].fd \in watched' /\ registered[client[b].fd] = {b}
        BY <1>1 DEF EveryClientHeard
    <2>1. client[b].fd \in watched /\ registered[client[b].fd] = {b}
        BY <1>2 DEF SInv, EveryClientHeard
    <2>2. table[client[b].fd] = b
        BY <2>1 DEF SInv, WatchesOwner
    <2>3. client[b].fd # d
        BY <1>2, <2>2, ConstantsAssumption
    <2> QED
        BY <1>1, <2>1, <2>3
<1> QED
    BY <1>4, <1>5, <1>6, <1>7, <1>8 DEF SInv

\* A request too long for client->buffer ends what the model says.
LEMMA OverrunStep ==
    ASSUME SInv, NEW c \in Clients, OverrunsBuffer(c), UNCHANGED timer
    PROVE  SInv'
<1>1. /\ UNCHANGED <<peer, client, table, registered, watched, active, finalizers,
                     main, proto, timer, answered, stolen>>
      /\ process' = "wild"
    BY DEF OverrunsBuffer, netVars, loopVars
<1>2. /\ timer \in TimerTypes
      /\ main \in {"dispatch", "clear_proto", "free_global", "join"}
      /\ proto \in {"live", "dangling", "null", "new"}
    BY Typed DEF SInv, TypeOK
<1> QED
    BY <1>1, <1>2, QuietStep

-----------------------------------------------------------------------------
\* SInv holds in every reachable state.
THEOREM Invariance == Spec => []SInv
<1>1. Init => SInv
    BY SInit
<1>2. SInv /\ [Next]_vars => SInv'
    <2> SUFFICES ASSUME SInv, [Next]_vars PROVE SInv'
        OBVIOUS
    <2>0. TypeOK /\ timer \in TimerTypes
        BY Typed DEF SInv
    <2>1. CASE Peers
        BY <2>1, PeersStep
    <2>2. CASE Callbacks
        BY <2>2, PollStep, AcceptStep, ReadStep, OverrunStep, ErrorStep, FinalizeStep
           DEF Callbacks
    <2>3. CASE DispatchFails \/ Teardown
        <3>1. /\ UNCHANGED <<peer, client, table, registered, watched, active, finalizers,
                             timer, process, answered, stolen>>
              /\ main' \in {"dispatch", "clear_proto", "free_global", "join"}
              /\ proto' \in {"live", "dangling", "null", "new"}
            BY <2>0, <2>3 DEF DispatchFails, Teardown, ClearProto, FreeGlobal, netVars,
               loopVars, TypeOK
        <3> QED
            BY <2>0, <3>1, QuietStep DEF TypeOK
    <2>4. CASE on_timer
        <3>1. UNCHANGED <<peer, client, registered, loopVars, main, answered>>
            BY <2>4 DEF on_timer
        <3>2. CASE OpenFile
            BY <3>1, <3>2, OpenFileStep
        <3>3. CASE CloseFile
            BY <3>1, <3>3, CloseFileStep
        <3>4. CASE StartWrite \/ EndWrite \/ UseFreed
            <4>1. UNCHANGED <<table, watched, stolen>>
                BY <3>4 DEF StartWrite, EndWrite, UseFreed
            <4>2. proto' \in {"live", "dangling", "null", "new"} /\ process' \in {"up", "wild"}
                BY <2>0, <3>4 DEF StartWrite, EndWrite, UseFreed, TypeOK
            <4>3. timer' \in TimerTypes /\ timer'.fd = timer.fd /\ timer'.file = timer.file
                <5>1. CASE StartWrite
                    <6>1. timer' = [timer EXCEPT !.pc = "write", !.own = (proto # "live")]
                        BY <5>1 DEF StartWrite
                    <6>2. (proto # "live") \in BOOLEAN
                        OBVIOUS
                    <6> HIDE DEF TimerTypes
                    <6> QED
                        BY <2>0, <6>1, <6>2 DEF TimerTypes
                <5>2. CASE EndWrite
                    BY <2>0, <5>2 DEF EndWrite, TimerTypes
                <5>3. CASE UseFreed
                    BY <2>0, <5>3 DEF UseFreed
                <5> QED
                    BY <3>4, <5>1, <5>2, <5>3
            <4> QED
                BY <2>0, <3>1, <4>1, <4>2, <4>3, QuietStep DEF loopVars, TypeOK
        <3> QED
            BY <2>4, <3>2, <3>3, <3>4 DEF on_timer
    <2>5. CASE UNCHANGED vars
        <3>1. UNCHANGED <<peer, client, table, registered, watched, active, finalizers,
                          main, proto, timer, process, answered, stolen>>
            BY <2>5 DEF vars, netVars, loopVars
        <3> QED
            BY <2>0, <3>1, QuietStep DEF TypeOK
    <2> QED
        BY <2>1, <2>2, <2>3, <2>4, <2>5 DEF Next
<1> QED
    BY <1>1, <1>2, PTL DEF Spec

\* Every variable keeps its type; a connected client always has a descriptor.
THEOREM TypeCorrect == Spec => []TypeOK
<1>1. SInv => TypeOK
    BY DEF SInv
<1> QED
    BY <1>1, Invariance, PTL

\* The second close of a descriptor never makes buffered_on_read answer one
\* client with another's request, for any number of clients and descriptors,
\* unless it hit the timer thread's file.
THEOREM NoCrossTalk == Spec => []AnswersAsker
<1>1. SInv => AnswersAsker
    BY DEF SInv, TimerApart, AnswersAsker
<1> QED
    BY <1>1, Invariance, PTL

\* on_accept leaves no client unheard as long as nobody's descriptor is taken.
THEOREM AllHeard == Spec => []EveryClientHeard
<1>1. SInv => EveryClientHeard
    BY DEF SInv
<1> QED
    BY <1>1, Invariance, PTL
=============================================================================
