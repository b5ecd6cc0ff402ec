-------------------------------- MODULE Server -------------------------------
(***************************************************************************)
(* The server of sys_monitor.cpp: main's event loop accepts clients,        *)
(* answers their requests and drops them, while the timer thread samples    *)
(* (and opens files on its way); both draw descriptors from one table.      *)
(*                                                                          *)
(* A descriptor is a number that names what it was opened for until someone *)
(* closes the number.  buffered_on_error closes a client's descriptor, and  *)
(* the bufferevent, created with BEV_OPT_CLOSE_ON_FREE, closes it again in  *)
(* a finalizer that the loop runs after the callbacks already due.  The     *)
(* timer thread, too, closes one file twice (/proc/uptime, in CLinuxSysinfo *)
(* ::get_systemtime), at any moment of the loop.                            *)
(*                                                                          *)
(* Definitions named after a mistake (StaysDue, ...) are not used: each     *)
(* is what the definition after it would be with that mistake in the code,  *)
(* and breaks a property below.                                             *)
(***************************************************************************)
EXTENDS Naturals

CONSTANTS Clients,      \* the connections clients make
          MaxFd,        \* descriptors are 1 .. MaxFd: what is left of the limit
          MaxRequests,  \* bound: requests of one client
          Quiet,        \* bound: clients that connect and do nothing more
          MaxOpens      \* bound: files the timer thread opens

ASSUME ConstantsAssumption ==
    /\ MaxFd \in Nat /\ MaxRequests \in Nat /\ MaxOpens \in Nat
    /\ Quiet \subseteq Clients
    /\ "file" \notin Clients /\ "free" \notin Clients
    /\ "accept" \notin Clients

Fds == 1 .. MaxFd
NoFd == 0

VARIABLES
    peer,        \* per client, its own side: sent, unread requests, hung up
    client,      \* per client: struct client's life, and its fd
    table,       \* per descriptor: what it names: a client, "file", "free"
    registered,  \* per descriptor: clients whose read event libevent keeps
    watched,     \* descriptors the kernel reports on
    active,      \* callbacks due: "accept", or the client whose socket is readable
    finalizers,  \* clients whose bufferevent waits for its finalizer
    main,        \* main: "dispatch", then the steps after it
    proto,       \* g_monitor->proto_manage: "live", "dangling", "null", "new"
    timer,       \* timer thread: pc, whether it made its own object, its file, opens
    process,     \* "up", or "wild" after a use of memory that is not the object's
    answered,    \* history: <<client served, client whose socket it was>>
    stolen       \* history: <<who closed, whose descriptor it was>>, when they differ

netVars == <<peer, client, table, registered, watched>>
loopVars == <<active, finalizers>>
vars == <<netVars, loopVars, main, proto, timer, process, answered, stolen>>

Owners == Clients \union {"file", "free"}

TypeOK ==
    /\ peer \in [Clients -> [sent : 0 .. MaxRequests, unread : 0 .. MaxRequests,
                             hungup : BOOLEAN]]
    /\ client \in [Clients -> [life : {"none", "backlog", "open", "freed"},
                               fd : Fds \union {NoFd}]]
    /\ \A c \in Clients : client[c].life \in {"open", "freed"} => client[c].fd # NoFd
    /\ table \in [Fds -> Owners]
    /\ registered \in [Fds -> SUBSET Clients]
    /\ watched \subseteq Fds
    /\ active \subseteq Clients \union {"accept"}
    /\ finalizers \subseteq Clients
    /\ main \in {"dispatch", "clear_proto", "free_global", "join"}
    /\ proto \in {"live", "dangling", "null", "new"}
    /\ timer \in [pc : {"top", "write"}, own : BOOLEAN, fd : Fds \union {NoFd},
                  file : {"none", "once", "twice", "again"}, opens : 0 .. MaxOpens]
    /\ timer.fd = NoFd <=> timer.file = "none"
    /\ process \in {"up", "wild"}
    /\ answered \subseteq Clients \X Owners
    /\ stolen \subseteq Owners \X Owners

Init ==
    /\ peer = [c \in Clients |-> [sent |-> 0, unread |-> 0, hungup |-> FALSE]]
    /\ client = [c \in Clients |-> [life |-> "none", fd |-> NoFd]]
    /\ table = [d \in Fds |-> "free"]
    /\ registered = [d \in Fds |-> {}]
    /\ watched = {} /\ active = {} /\ finalizers = {}
    /\ main = "dispatch" /\ proto = "live"
    /\ timer = [pc |-> "top", own |-> FALSE, fd |-> NoFd, file |-> "none", opens |-> 0]
    /\ process = "up" /\ answered = {} /\ stolen = {}

-----------------------------------------------------------------------------
(* The kernel: the lowest free number is taken; closing a number closes     *)
(* what it names and ends its watch, whoever closes it.                     *)

FreeFds == {d \in Fds : table[d] = "free"}
IsLowestFree(d) == d \in FreeFds /\ \A e \in FreeFds : d <= e

\* by is what the caller believes it closes; close of a free number fails.
Close(d, by) ==
    /\ table' = [table EXCEPT ![d] = "free"]
    /\ stolen' = stolen \union {<<by, o>> : o \in {table[d]} \ {by, "free"}}

-----------------------------------------------------------------------------
(* The clients.                                                             *)

Connect(c) ==
    /\ client[c].life = "none"
    /\ client' = [client EXCEPT ![c].life = "backlog"]
    /\ UNCHANGED peer

Request(c) ==
    /\ client[c].life # "none"
    /\ c \notin Quiet /\ ~ peer[c].hungup /\ peer[c].sent < MaxRequests
    /\ peer' = [peer EXCEPT ![c].sent = @ + 1, ![c].unread = @ + 1]
    /\ UNCHANGED client

\* The client closes its side or its connection breaks.
HangUp(c) ==
    /\ c \notin Quiet /\ client[c].life # "none" /\ ~ peer[c].hungup
    /\ peer' = [peer EXCEPT ![c].hungup = TRUE]
    /\ UNCHANGED client

Peers ==
    /\ \E c \in Clients : Connect(c) \/ Request(c) \/ HangUp(c)
    /\ UNCHANGED <<table, registered, watched, loopVars, main, proto, timer,
                   process, answered, stolen>>

-----------------------------------------------------------------------------
(* event_dispatch: poll, run the callbacks due in any order, then the       *)
(* finalizers they queued, poll again.                                      *)

Readable(d) ==
    table[d] \in Clients /\ (peer[table[d]].unread > 0 \/ peer[table[d]].hungup)

Ready ==
    (UNION {registered[d] : d \in {e \in watched : Readable(e)}})
      \union {a \in {"accept"} : \E c \in Clients : client[c].life = "backlog"}

Poll ==
    /\ active = {} /\ finalizers = {} /\ Ready # {}
    /\ active' = Ready
    /\ UNCHANGED <<netVars, finalizers, main, proto, process, answered, stolen>>

\* accept, struct client, bufferevent.  epoll is told of the descriptor only if
\* libevent has no read event on that number yet.
Accepted(c, d) ==
    /\ client[c].life = "backlog" /\ IsLowestFree(d)
    /\ table' = [table EXCEPT ![d] = c]
    /\ client' = [client EXCEPT ![c].life = "open", ![c].fd = d]
    /\ registered' = [registered EXCEPT ![d] = @ \union {c}]
    /\ watched' = IF registered[d] = {} THEN watched \union {d} ELSE watched

AcceptUnchecked ==
    /\ "accept" \in active
    /\ active' = active \ {"accept"}
    /\ \/ \E c \in Clients, d \in Fds : Accepted(c, d)
       \/ /\ FreeFds = {}
          /\ \E c \in Clients : /\ client[c].life = "backlog"
                                /\ client' = [client EXCEPT ![c].life = "open"]
          /\ UNCHANGED <<table, registered, watched>>
    /\ UNCHANGED <<peer, finalizers, main, proto, process, answered, stolen>>

AcceptUntilDone ==
    /\ "accept" \in active
    /\ \E c \in Clients, d \in Fds : Accepted(c, d)
    /\ active' = active \ {"accept"}
    /\ UNCHANGED <<peer, finalizers, main, proto, process, answered, stolen>>

on_accept ==
    /\ "accept" \in active
    /\ active' = active \ {"accept"}
    /\ \/ \E c \in Clients, d \in Fds : Accepted(c, d)
       \/ FreeFds = {} /\ UNCHANGED <<table, client, registered, watched>>  \* accept fails
    /\ UNCHANGED <<peer, finalizers, main, proto, process, answered, stolen>>

\* Only one request that arrived by itself is the word the protocol knows.
IsOneRequest(n) == n = 1

\* bufferevent_readcb finds data: buffered_on_read takes all of it.  A request
\* is answered if a sample is there, on the descriptor the client has.
buffered_on_read(c) ==
    LET asker == table[client[c].fd] IN
    /\ c \in active
    /\ asker \in Clients /\ peer[asker].unread > 0
    /\ active' = active \ {c}
    /\ peer' = [peer EXCEPT ![asker].unread = 0]
    /\ \/ IsOneRequest(peer[asker].unread) /\ answered' = answered \union {<<c, asker>>}
       \/ UNCHANGED answered
    /\ UNCHANGED <<client, table, registered, watched, finalizers, main, proto, process, stolen>>

\* What has arrived fills client->buffer: the NUL put behind it, or the text
\* itself, is written past the end.
OverrunsBuffer(c) ==
    LET asker == table[client[c].fd] IN
    /\ c \in active
    /\ asker \in Clients /\ peer[asker].unread > 0
    /\ process' = "wild"
    /\ UNCHANGED <<netVars, loopVars, main, proto, answered, stolen>>

KeepsEvent(c) ==
    registered' = registered /\ watched' = watched \ {client[c].fd}

\* Before the error callback libevent drops the read event, and the closed
\* descriptor its watch.
DropEvent(c) ==
    /\ registered' = [registered EXCEPT ![client[c].fd] = @ \ {c}]
    /\ watched' = watched \ {client[c].fd}

StaysDue(c) ==
    LET d == client[c].fd IN
    /\ c \in active
    /\ table[d] \in Clients => peer[table[d]].unread = 0 /\ peer[table[d]].hungup
    /\ DropEvent(c)
    /\ Close(d, c)
    /\ client' = [client EXCEPT ![c].life = "freed"]
    /\ finalizers' = finalizers \union {c}
    /\ UNCHANGED <<peer, active, main, proto, process, answered>>

\* bufferevent_readcb finds the end of the stream or an error.
buffered_on_error(c) ==
    LET d == client[c].fd IN
    /\ c \in active
    /\ table[d] \in Clients => peer[table[d]].unread = 0 /\ peer[table[d]].hungup
    /\ DropEvent(c)
    /\ Close(d, c)
    /\ client' = [client EXCEPT ![c].life = "freed"]
    /\ active' = active \ {c}
    /\ finalizers' = finalizers \union {c}
    /\ UNCHANGED <<peer, main, proto, process, answered>>

\* The descriptor changed hands after the poll: nothing to read there, or the
\* data of a file, which is no request.
NothingToRead(c) ==
    LET d == client[c].fd IN
    /\ c \in active
    /\ \/ table[d] = "file"
       \/ table[d] \in Clients /\ ~ Readable(d)
    /\ active' = active \ {c}
    /\ UNCHANGED <<netVars, finalizers, main, proto, process, answered, stolen>>

\* The bufferevent's finalizer closes the descriptor it was given.
Finalize(c) ==
    /\ active = {} /\ c \in finalizers
    /\ Close(client[c].fd, c)
    /\ watched' = watched \ {client[c].fd}
    /\ finalizers' = finalizers \ {c}
    /\ UNCHANGED <<peer, client, registered, active, main, proto, process, answered>>

Callbacks ==
    /\ main = "dispatch"
    /\ \/ Poll \/ on_accept
       \/ \E c \in Clients : buffered_on_read(c) \/ OverrunsBuffer(c)
                              \/ buffered_on_error(c) \/ NothingToRead(c) \/ Finalize(c)
    /\ UNCHANGED timer

\* epoll fails: the only way event_dispatch returns.
DispatchFails ==
    /\ main = "dispatch"
    /\ active = {} /\ finalizers = {}
    /\ main' = "clear_proto" /\ proto' = "dangling"
    /\ UNCHANGED <<netVars, loopVars, timer, process, answered, stolen>>

-----------------------------------------------------------------------------
(* main after event_dispatch: it frees what the timer thread uses, then     *)
(* waits for a thread that nothing ends.                                    *)

ClearProto ==
    main = "clear_proto" /\ main' = "free_global" /\ proto' = "null"

FreeGlobal ==
    main = "free_global" /\ main' = "join" /\ UNCHANGED proto

Teardown ==
    /\ ClearProto \/ FreeGlobal
    /\ UNCHANGED <<netVars, loopVars, timer, process, answered, stolen>>

-----------------------------------------------------------------------------
(* The timer thread.                                                        *)

\* One round: g_monitor->proto_manage, made anew if it is NULL, is written.
StartWrite ==
    /\ timer.pc = "top" /\ main # "join" /\ proto # "dangling"
    /\ timer' = [timer EXCEPT !.pc = "write", !.own = (proto # "live")]
    /\ proto' = IF proto = "null" THEN "new" ELSE proto
    /\ UNCHANGED <<table, watched, process, stolen>>

\* The thread is in an object that main has deleted.
Deleted == main # "dispatch" /\ ~ timer.own

\* file: how often it will be closed ("again": once more, though it is closed).
OpenFile ==
    /\ timer.pc = "write" /\ ~ Deleted
    /\ timer.file = "none" /\ timer.opens < MaxOpens
    /\ \E d \in Fds, f \in {"once", "twice"} :
         /\ IsLowestFree(d)
         /\ table' = [table EXCEPT ![d] = "file"]
         /\ timer' = [timer EXCEPT !.fd = d, !.file = f, !.opens = @ + 1]
    /\ UNCHANGED <<watched, proto, process, stolen>>

CloseFile ==
    /\ timer.pc = "write" /\ ~ Deleted /\ timer.file # "none"
    /\ Close(timer.fd, "file")
    /\ watched' = watched \ {timer.fd}
    /\ timer' = IF timer.file = "twice" THEN [timer EXCEPT !.file = "again"]
                ELSE [timer EXCEPT !.fd = NoFd, !.file = "none"]
    /\ UNCHANGED <<proto, process>>

EndWrite ==
    /\ timer.pc = "write" /\ ~ Deleted /\ timer.file = "none"
    /\ timer' = [timer EXCEPT !.pc = "top"]
    /\ UNCHANGED <<table, watched, proto, process, stolen>>

\* g_monitor or the object it pointed to is used after main has freed it.
UseFreed ==
    /\ \/ timer.pc = "top" /\ (main = "join" \/ proto = "dangling")
       \/ timer.pc = "write" /\ Deleted
    /\ process' = "wild"
    /\ UNCHANGED <<table, watched, proto, timer, stolen>>

on_timer ==
    /\ StartWrite \/ OpenFile \/ CloseFile \/ EndWrite \/ UseFreed
    /\ UNCHANGED <<peer, client, registered, loopVars, main, answered>>

Next == process = "up" /\ (Peers \/ Callbacks \/ DispatchFails \/ Teardown \/ on_timer)

Spec == Init /\ [][Next]_vars

\* Both threads run, and the loop runs the callbacks that are due; epoll need
\* not fail.
LoopStep == process = "up" /\ Callbacks
TimerStep == process = "up" /\ on_timer
TeardownStep == process = "up" /\ Teardown

FairSpec == Spec /\ WF_vars(LoopStep) /\ WF_vars(TimerStep) /\ WF_vars(TeardownStep)

-----------------------------------------------------------------------------
(* Properties.                                                              *)

\* Neither has the timer thread closed a socket nor the loop the timer's file.
TimerApart == \A s \in stolen : s[1] # "file" /\ s[2] # "file"

\* A client is answered only for a request that it sent itself, although the
\* loop closes a client's descriptor twice: that never turns a callback to
\* somebody else's socket.  Only a double close that crosses between the loop
\* and the timer thread (get_systemtime's, or one that hits its file) does.
AnswersAsker ==
    TimerApart => \A p \in answered : p[1] = p[2]

\* As long as no descriptor is closed under its user, every client is listened
\* to: the kernel watches its socket, and libevent has one read event for it.
EveryClientHeard ==
    stolen = {} =>
        \A c \in Clients : client[c].life = "open" =>
            client[c].fd \in watched /\ registered[client[c].fd] = {c}

\* When a client disconnects only its own structure and descriptor go: a client
\* that is connected keeps its descriptor.
KeepsDescriptor ==
    \A c \in Clients : client[c].life = "open" => table[client[c].fd] = c

\* A request of a connected client is taken from its socket, however often
\* accept fails meanwhile because the descriptors have run out; a client that
\* still waits to be accepted may wait for one.  What excuses the server are
\* the end of the loop or of the process, and a descriptor closed under its user.
RequestsTaken ==
    \A c \in Clients :
        peer[c].unread > 0
            ~> \/ peer[c].unread = 0
               \/ client[c].life = "backlog" /\ FreeFds = {}
               \/ stolen # {} \/ main # "dispatch" \/ process = "wild"
=============================================================================
