------------------------------- MODULE Networking -------------------------------
(***************************************************************************)
(* Connections: networking.c on event_loop.c, and the tick of server.c.    *)
(* Shutting the loop down is part of Lifecycle.                            *)
(*                                                                         *)
(* The server is one thread.  Each iteration of el_run ticks               *)
(* (before_sleep), collects the ready events (kevent) and calls their      *)
(* handlers one after the other: events collected early may concern a      *)
(* descriptor that an earlier handler has closed, or that a new connection *)
(* has taken over.  Clients and the kernel move between any two steps.     *)
(*                                                                         *)
(* Data are counted in cells.  A request is a frame of one or more cells,  *)
(* the first of which holds its length; the read buffer holds ReadCap      *)
(* cells, the longest legal frame.  A response is one cell, as large as a  *)
(* response can be, of which the write buffer holds WCap.                  *)
(***************************************************************************)
EXTENDS Integers, Sequences, FiniteSets

CONSTANTS
  Conns,      \* connections that clients may make, one after another or at once
  NoConn,     \* no connection
  MaxFd,      \* descriptors below MAX_FDS left for clients: 1..MaxFd
  ReadCap,    \* sizeof(c->buf): MSG_MAX + FRAME_HDR_SIZE
  WCap,       \* WBUF_SIZE in responses: 2 in the code
  RecvCap,    \* what the kernel takes for a client that does not read
  MaxEvents,  \* MAX_EVENTS
  Timeout,    \* client-timeout, in ticks of the clock
  Workloads,  \* which connections are made and the sizes of their requests, in cells
  Greedy      \* connections that send without waiting for answers

Fds == 1..MaxFd
NoFd     == 0
Listener == -1   \* server.server_fd

ASSUME NetAssumption ==
  /\ NoConn \notin Conns /\ Greedy \subseteq Conns
  /\ MaxFd \in Nat /\ MaxEvents \in Nat \ {0} /\ Timeout \in Nat
  /\ ReadCap \in Nat \ {0} /\ WCap \in Nat \ {0} /\ RecvCap \in Nat \ {0}
  /\ \A w \in Workloads : DOMAIN w \subseteq Conns /\ \A c \in DOMAIN w : w[c] \in Seq(Nat \ {0})

VARIABLES
  \* the server
  clients,        \* server.clients
  clients_count,  \* server.clients_count
  readers,        \* descriptors with a read handler, registered with kqueue
  writers,        \* descriptors with a write handler, registered with kqueue
  refused,        \* descriptors for which kevent refused to register one
  at,             \* el_run: "cron", "poll" or "events"; or "killed"
  batch,          \* events returned by kevent and not handled yet
  busy,           \* the descriptor whose buffer process_buffer is working on
  \* the kernel
  conn,           \* the connection a descriptor stands for
  sock,           \* the state of each connection
  backlog,        \* connections waiting to be accepted
  inbox,          \* cells sent and not read by the server
  unread,         \* answers that the kernel holds for a client
  \* the clients
  script,         \* the sizes of the requests of each connection
  sent,           \* how far it is: [req, cells] of the request it is sending
  answers,        \* history: answers written to each connection
  ran, reran      \* history: requests executed, and executed more than once

serverVars == <<clients, clients_count, readers, writers, refused, at, batch, busy>>
kernelVars == <<conn, sock, backlog, inbox, unread>>
clientVars == <<script, sent, answers, ran, reran>>
vars == <<serverVars, kernelVars, clientVars>>

\* client_t; its last_active_ms is kept as the time since, up to Timeout
NoClient == [active |-> FALSE, idle |-> 0, buf |-> <<>>, wbuf |-> <<>>, woff |-> 0]
NewClient == [NoClient EXCEPT !.active = TRUE]

Lesser(a, b) == IF a < b THEN a ELSE b

Init ==
  /\ clients = [f \in Fds |-> NoClient] /\ clients_count = 0
  /\ readers = {Listener} /\ writers = {} /\ refused = {}
  /\ at = "cron" /\ batch = {} /\ busy = NoFd
  /\ conn = [f \in Fds |-> NoConn] /\ sock = [c \in Conns |-> "new"]
  /\ backlog = <<>> /\ inbox = [c \in Conns |-> <<>>]
  /\ unread = [c \in Conns |-> 0]
  /\ script \in Workloads /\ sent = [c \in Conns |-> [req |-> 1, cells |-> 0]]
  /\ answers = [c \in Conns |-> <<>>] /\ ran = {} /\ reran = {}

-------------------------------------------------------------------------------
(* Handlers, closing                                                        *)

\* Handlers and their registration with kqueue come and go together.
el_add(fd) == readers' = readers \cup {fd}

\* Faulty variant: no write handler is registered.
AddWriteLost(fd) == UNCHANGED <<writers, refused>>

\* kevent may refuse, and queue_write ignores that: the response then waits
\* for the client's next request.
el_add_write(fd) ==
  \/ writers' = writers \cup {fd} /\ refused' = refused \ {fd}
  \/ refused' = refused \cup ({fd} \ writers) /\ UNCHANGED writers

el_remove_write(fd) == writers' = writers \ {fd} /\ refused' = refused \ {fd}

el_remove(fds) ==
  readers' = readers \ fds /\ writers' = writers \ fds /\ refused' = refused \ fds

\* Faulty variant: the write handler stays registered.
RemoveKeepsWriter(gone, cs) ==
  /\ clients' = [f \in Fds |-> IF f \in gone THEN NoClient ELSE cs[f]]
  /\ clients_count' = clients_count - Cardinality(gone)
  /\ readers' = readers \ gone /\ UNCHANGED writers /\ refused' = refused \ gone
  /\ conn' = [f \in Fds |-> IF f \in gone THEN NoConn ELSE conn[f]]
  /\ sock' = [c \in Conns |-> IF \E f \in gone : conn[f] = c THEN "dropped" ELSE sock[c]]

\* Faulty variant: a client is counted out twice.
RemoveCountsTwice(gone, cs) ==
  /\ clients' = [f \in Fds |-> IF f \in gone THEN NoClient ELSE cs[f]]
  /\ clients_count' = clients_count - 2 * Cardinality(gone)
  /\ el_remove(gone)
  /\ conn' = [f \in Fds |-> IF f \in gone THEN NoConn ELSE conn[f]]
  /\ sock' = [c \in Conns |-> IF \E f \in gone : conn[f] = c THEN "dropped" ELSE sock[c]]

\* remove_client for each descriptor of `gone`, with el_remove; cs are the
\* clients up to then.
remove_client(gone, cs) ==
  /\ clients' = [f \in Fds |-> IF f \in gone THEN NoClient ELSE cs[f]]
  /\ clients_count' = clients_count - Cardinality(gone)
  /\ el_remove(gone)
  /\ conn' = [f \in Fds |-> IF f \in gone THEN NoConn ELSE conn[f]]
  /\ sock' = [c \in Conns |-> IF \E f \in gone : conn[f] = c THEN "dropped" ELSE sock[c]]

Drop(fd) == remove_client({fd}, clients)

\* SIGPIPE: the kernel closes every descriptor.
Killed ==
  /\ at' = "killed" /\ batch' = {} /\ busy' = NoFd /\ backlog' = <<>>
  /\ clients' = [f \in Fds |-> NoClient] /\ clients_count' = 0
  /\ readers' = {} /\ writers' = {} /\ refused' = {} /\ conn' = [f \in Fds |-> NoConn]
  /\ sock' = [c \in Conns |-> IF sock[c] = "new" THEN "new" ELSE "dropped"]

-------------------------------------------------------------------------------
(* Writing                                                                 *)

Room(c) == RecvCap - unread[c]

\* write() of `data` to connection c puts n cells of it on their way.  A
\* client that has closed its end answers the first write with a reset.
Write(c, data, n) ==
  \/ /\ sock[c] = "open" /\ Room(c) > 0
     /\ n = Lesser(Len(data), Room(c))
     /\ answers' = [answers EXCEPT ![c] = @ \o SubSeq(data, 1, n)]
     /\ unread' = [unread EXCEPT ![c] = @ + n]
     /\ UNCHANGED sock
  \/ /\ sock[c] = "closed"
     /\ n = Len(data)
     /\ sock' = [sock EXCEPT ![c] = "reset"]
     /\ UNCHANGED <<answers, unread>>

\* write() of a response takes nothing of it (EAGAIN, EINTR) or only a part,
\* which counts as nothing: answers are counted when they are sent as a whole.
WriteShort(c) == sock[c] = "open"

\* write() to a connection that was reset.  The server leaves SIGPIPE as it
\* inherited it: if that is to ignore it, write() reports an error, otherwise
\* the process dies.  `rest` are the events then left.
WriteError(fd, rest) ==
  /\ sock[conn[fd]] = "reset"
  /\ \/ Drop(fd) /\ busy' = NoFd /\ batch' = rest /\ UNCHANGED <<at, backlog>>
     \/ Killed
  /\ UNCHANGED <<answers, unread>>

\* Faulty variants: the newest response is cut off, not the oldest; nothing is moved.
CompactWrongEnd(c) ==
  IF Len(c.wbuf) + 1 > WCap /\ c.woff > 0 THEN [c EXCEPT !.woff = 0, !.wbuf = SubSeq(@, 1, Len(@) - 1)] ELSE c
NoCompaction(c) == c

\* queue_write first moves the unsent responses to the front of the buffer
\* if the new one does not fit behind them.
Compact(c) ==
  IF Len(c.wbuf) + 1 > WCap /\ c.woff > 0
    THEN [c EXCEPT !.wbuf = SubSeq(@, c.woff + 1, Len(@)), !.woff = 0]
    ELSE c

\* process_buffer takes the frame off the read buffer once it is answered.
Consumed(c, size) == [c EXCEPT !.buf = SubSeq(@, size + 1, Len(@))]

Queued(c, r) == [c EXCEPT !.wbuf = Append(@, r)]

\* send_framed and queue_write of response r, the answer to the frame at the
\* head of the buffer.
queue_write(fd, r, size) ==
  LET q == Compact(clients[fd])
      answered == Consumed(q, size)
      fits == Len(q.wbuf) + 1 <= WCap
  IN  \/ \* no space: the frame stays where it is
         /\ ~fits
         /\ clients' = [clients EXCEPT ![fd] = q]
         /\ busy' = NoFd
         /\ UNCHANGED <<clients_count, readers, writers, refused, conn, sock, answers, unread,
                        at, batch, backlog>>
      \/ \* something is pending: the response waits behind it
         /\ fits /\ q.wbuf # <<>>
         /\ clients' = [clients EXCEPT ![fd] = Queued(answered, r)]
         /\ el_add_write(fd)
         /\ UNCHANGED <<clients_count, readers, conn, sock, answers, unread,
                        at, batch, backlog, busy>>
      \/ \* the fast path: the response is sent at once
         /\ fits /\ q.wbuf = <<>>
         /\ Write(conn[fd], <<r>>, 1)
         /\ clients' = [clients EXCEPT ![fd] = answered]
         /\ UNCHANGED <<clients_count, readers, writers, refused, conn, at, batch, backlog, busy>>
      \/ \* the fast path does not send all of it
         /\ fits /\ q.wbuf = <<>> /\ WriteShort(conn[fd])
         /\ clients' = [clients EXCEPT ![fd] = Queued(answered, r)]
         /\ el_add_write(fd)
         /\ UNCHANGED <<clients_count, readers, conn, sock, answers, unread,
                        at, batch, backlog, busy>>
      \/ fits /\ q.wbuf = <<>> /\ WriteError(fd, batch)

-------------------------------------------------------------------------------
(* Requests                                                                *)

\* The frame length that the first cell of the read buffer announces.
FrameSize(r) == script[r[1]][r[2]]

\* Faulty variant: the longest legal frame is refused.
IllegalAtLimit(c) == c.buf # <<>> /\ FrameSize(c.buf[1]) >= ReadCap

\* A first frame that is too long, and one that is there as a whole.
Illegal(c) == c.buf # <<>> /\ FrameSize(c.buf[1]) > ReadCap
HasFrame(c) == c.buf # <<>> /\ ~Illegal(c) /\ Len(c.buf) >= FrameSize(c.buf[1])

\* One turn of the loop of process_buffer.
process_buffer ==
  LET fd == busy
      c == clients[fd]
      r == c.buf[1]
  IN  /\ at = "events" /\ busy # NoFd
      /\ \/ /\ ~Illegal(c) /\ ~HasFrame(c)
            /\ busy' = NoFd
            /\ UNCHANGED <<clients, clients_count, readers, writers, refused, conn, sock, answers,
                           unread, at, batch, backlog, ran, reran>>
         \/ /\ Illegal(c)
            /\ Drop(fd)
            /\ busy' = NoFd
            /\ UNCHANGED <<answers, unread, at, batch, backlog, ran, reran>>
         \/ /\ HasFrame(c)
            /\ ran' = ran \cup {r}                    \* command_execute
            /\ reran' = IF r \in ran THEN reran \cup {r} ELSE reran
            /\ queue_write(fd, r, FrameSize(r))
      /\ UNCHANGED <<inbox, script, sent>>

-------------------------------------------------------------------------------
(* Handlers                                                                *)

\* el_run takes the next event; the order is the kernel's.
Event(filter, fd) ==
  /\ at = "events" /\ busy = NoFd
  /\ <<filter, fd>> \in batch

Handled(filter, fd) == batch' = batch \ {<<filter, fd>>}

\* No handler is registered any more: the event is ignored.
el_skip(filter, fd) ==
  /\ Event(filter, fd)
  /\ fd \notin (IF filter = "read" THEN readers ELSE writers)
  /\ Handled(filter, fd)
  /\ UNCHANGED <<clients, clients_count, readers, writers, refused, at, busy,
                 kernelVars, clientVars>>

\* Faulty variant: requests that waited for space are not looked at again.
DrainForgetsBuffer(fd) ==
  LET c == clients[fd]
      data == SubSeq(c.wbuf, c.woff + 1, Len(c.wbuf))
  IN  /\ Event("write", fd) /\ fd \in writers
      /\ Write(conn[fd], data, Len(data))
      /\ Handled("write", fd)
      /\ clients' = [clients EXCEPT ![fd].wbuf = <<>>, ![fd].woff = 0]
      /\ el_remove_write(fd)
      /\ UNCHANGED <<clients_count, readers, conn, at, backlog, busy,
                     inbox, script, sent, ran, reran>>

\* The EAGAIN return of on_write is never taken: kevent reported space, only
\* this handler fills it, and a descriptor's next owner cannot have both its
\* read and its write event left over.  (Taking it would be a deadlock here.)
on_write(fd) ==
  LET c == clients[fd]
      data == SubSeq(c.wbuf, c.woff + 1, Len(c.wbuf))
      w == c.woff
  IN  /\ Event("write", fd) /\ fd \in writers
      /\ \/ \E n \in 0..Len(data) :
              /\ Write(conn[fd], data, n)
              /\ Handled("write", fd)
              /\ \/ /\ w + n = Len(c.wbuf)
                    /\ clients' = [clients EXCEPT ![fd].wbuf = <<>>, ![fd].woff = 0]
                    /\ el_remove_write(fd)
                    /\ busy' = fd
                 \/ /\ w + n < Len(c.wbuf)
                    /\ clients' = [clients EXCEPT ![fd].woff = w + n]
                    /\ UNCHANGED <<writers, refused, busy>>
              /\ UNCHANGED <<clients_count, readers, conn, at, backlog>>
         \/ WriteError(fd, batch \ {<<"write", fd>>})
      /\ UNCHANGED <<inbox, script, sent, ran, reran>>

\* read() of what fits.  A read buffer without space makes it return 0, as a
\* client that has closed its end does.
on_read(fd) ==
  LET c == clients[fd]
      s == conn[fd]
      n == Lesser(Len(inbox[s]), ReadCap - Len(c.buf))
  IN  /\ Event("read", fd) /\ fd \in readers
      /\ Handled("read", fd)
      /\ \/ /\ sock[s] # "reset" /\ n > 0
            /\ clients' = [clients EXCEPT ![fd].buf = @ \o SubSeq(inbox[s], 1, n),
                                          ![fd].idle = 0]
            /\ inbox' = [inbox EXCEPT ![s] = SubSeq(@, n + 1, Len(@))]
            /\ busy' = fd
            /\ UNCHANGED <<clients_count, readers, writers, refused, conn, sock>>
         \/ /\ \/ sock[s] = "reset"
               \/ Len(c.buf) = ReadCap
               \/ inbox[s] = <<>> /\ sock[s] = "closed"
            /\ Drop(fd)
            /\ UNCHANGED <<inbox, busy>>
         \/ \* EAGAIN: the event was for an earlier owner of the descriptor
            /\ sock[s] = "open" /\ inbox[s] = <<>> /\ Len(c.buf) < ReadCap
            /\ UNCHANGED <<clients, clients_count, readers, writers, refused, conn, sock, inbox, busy>>
      /\ UNCHANGED <<at, backlog, unread, clientVars>>

\* accept() returns the lowest free descriptor.
Lowest == CHOOSE f \in 1..(MaxFd + 1) :
            /\ f \in Fds => conn[f] = NoConn
            /\ \A g \in 1..(f - 1) : conn[g] # NoConn

on_accept ==
  LET c == Head(backlog)
      fd == Lowest
  IN  /\ Event("read", Listener)
      /\ Handled("read", Listener)
      /\ \/ /\ backlog # <<>> /\ fd \in Fds
            /\ clients' = [clients EXCEPT ![fd] = NewClient]
            /\ clients_count' = clients_count + 1
            /\ el_add(fd)
            /\ conn' = [conn EXCEPT ![fd] = c]
            /\ sock' = IF sock[c] = "queued" THEN [sock EXCEPT ![c] = "open"] ELSE sock
            /\ backlog' = Tail(backlog)
         \/ \* no descriptor below MAX_FDS, or a system call fails: close it
            /\ backlog # <<>>
            /\ sock' = [sock EXCEPT ![c] = "dropped"]
            /\ backlog' = Tail(backlog)
            /\ UNCHANGED <<clients, clients_count, readers, conn>>
         \/ \* EAGAIN: the client gave up in the meantime
            /\ backlog = <<>>
            /\ UNCHANGED <<clients, clients_count, readers, conn, sock, backlog>>
      /\ UNCHANGED <<writers, refused, at, busy, inbox, unread, clientVars>>

-------------------------------------------------------------------------------
(* The loop                                                                *)

\* Faulty variant: the last client is never looked at.
StopsOneShort(cs) ==
  {f \in Fds : /\ cs[f].active /\ cs[f].idle >= Timeout
               /\ Cardinality({g \in Fds : g <= f /\ cs[g].active}) < clients_count}

\* check_client_timeouts walks the descriptors upwards and counts the active
\* ones it has seen; it stops when they are as many as clients_count, which
\* every removal lowers, so that later clients may be left to the next check.
TimedOut(cs) ==
  LET active(f) == {g \in Fds : g < f /\ cs[g].active}
      idle(f) == {g \in active(f) : cs[g].idle >= Timeout}
  IN  {f \in Fds : /\ cs[f].active /\ cs[f].idle >= Timeout
                   /\ Cardinality(active(f)) + Cardinality(idle(f)) < clients_count}

\* The tick: dt time has passed; `due` is the interval check of
\* client_timeouts_cron.
before_sleep(dt, due) ==
  LET aged == [f \in Fds |-> IF clients[f].active
                 THEN [clients[f] EXCEPT !.idle = Lesser(@ + dt, Timeout)]
                 ELSE clients[f]]
  IN  /\ at = "cron"
      /\ remove_client(IF due THEN TimedOut(aged) ELSE {}, aged)
      /\ at' = "poll"
      /\ UNCHANGED <<batch, busy, backlog, inbox, unread, clientVars>>

Ready ==
  {<<"read", f>> : f \in {g \in readers \cap Fds :
                            inbox[conn[g]] # <<>> \/ sock[conn[g]] # "open"}}
  \cup {<<"write", f>> : f \in {g \in writers :
                            Room(conn[g]) > 0 \/ sock[conn[g]] # "open"}}
  \cup (IF backlog # <<>> THEN {<<"read", Listener>>} ELSE {})

\* kevent returns as many ready events as the array holds, or none in time.
el_poll ==
  /\ at = "poll" /\ at' = "events"
  /\ \E b \in SUBSET Ready :
       /\ Cardinality(b) = Lesser(Cardinality(Ready), MaxEvents)
       /\ batch' = b
  /\ UNCHANGED <<clients, clients_count, readers, writers, refused, busy, kernelVars, clientVars>>

el_run ==
  /\ at = "events" /\ batch = {} /\ busy = NoFd
  /\ at' = "cron"
  /\ UNCHANGED <<clients, clients_count, readers, writers, refused, batch, busy, kernelVars, clientVars>>

Server ==
  \/ \E dt \in {0, 1}, due \in BOOLEAN : before_sleep(dt, due)
  \/ el_poll
  \/ \E e \in batch : el_skip(e[1], e[2])
  \/ \E fd \in Fds : on_read(fd) \/ on_write(fd)
  \/ on_accept
  \/ process_buffer
  \/ el_run

-------------------------------------------------------------------------------
(* Clients                                                                 *)

Down == at = "killed"

Received(c) == Len(answers[c]) - unread[c]

\* A client that is not greedy has at most as many requests unanswered as the
\* write buffer has room for responses.
MaySend(c) == c \in Greedy \/ sent[c].req - 1 - Received(c) < WCap

Connect(c) ==
  /\ ~Down /\ sock[c] = "new" /\ c \in DOMAIN script
  /\ sock' = [sock EXCEPT ![c] = "queued"]
  /\ backlog' = Append(backlog, c)
  /\ UNCHANGED <<serverVars, conn, inbox, unread, clientVars>>

\* The next cell of the request that c is sending, or the first of a new one.
Send(c) ==
  LET n == sent[c].req
      i == sent[c].cells + 1
  IN  /\ ~Down /\ sock[c] \in {"queued", "open"}
      /\ n <= Len(script[c])
      /\ i = 1 => MaySend(c)
      /\ inbox' = [inbox EXCEPT ![c] = Append(@, <<c, n>>)]
      /\ sent' = [sent EXCEPT ![c] = IF i = script[c][n] THEN [req |-> n + 1, cells |-> 0]
                                                         ELSE [req |-> n, cells |-> i]]
      /\ UNCHANGED <<serverVars, conn, sock, backlog, unread,
                     script, answers, ran, reran>>

Recv(c) ==
  /\ ~Down /\ sock[c] = "open" /\ unread[c] > 0
  /\ unread' = [unread EXCEPT ![c] = @ - 1]
  /\ UNCHANGED <<serverVars, conn, sock, backlog, inbox, clientVars>>

\* s without its i-th element.
Without(s, i) == SubSeq(s, 1, i - 1) \o SubSeq(s, i + 1, Len(s))

\* The client closes its end, or resets the connection (as closing it with
\* answers unread does).  A reset takes a connection out of the backlog.
Leave(c) ==
  /\ ~Down
  /\ \/ /\ sock[c] \in {"queued", "open"}
        /\ sock' = [sock EXCEPT ![c] = "closed"]
        /\ UNCHANGED backlog
     \/ /\ sock[c] = "open"
        /\ sock' = [sock EXCEPT ![c] = "reset"]
        /\ UNCHANGED backlog
     \/ /\ sock[c] = "queued"
        /\ sock' = [sock EXCEPT ![c] = "dropped"]
        /\ \E i \in DOMAIN backlog : backlog[i] = c /\ backlog' = Without(backlog, i)
  /\ UNCHANGED <<serverVars, conn, inbox, unread, clientVars>>

Halted == Down /\ UNCHANGED vars

Next ==
  \/ Server
  \/ \E c \in Conns : Connect(c) \/ Send(c) \/ Recv(c) \/ Leave(c)
  \/ Halted

Spec == Init /\ [][Next]_vars

(***************************************************************************)
(* Fairness.  The thread of the server goes on, and clients that wait for  *)
(* answers read them.                                                      *)
(***************************************************************************)
FairSpec == Spec /\ WF_vars(Server) /\ \A c \in Conns : WF_vars(Recv(c))

\* Time passes: sooner or later the check finds that the timeout is over.
TimePasses == SF_vars(before_sleep(1, TRUE))

-------------------------------------------------------------------------------
(* Properties                                                              *)

Cell == Conns \X (Nat \ {0})
Client == [active : BOOLEAN, idle : 0..Timeout, buf : Seq(Cell), wbuf : Seq(Cell), woff : Nat]

TypeOK ==
  /\ clients \in [Fds -> Client]
  /\ clients_count \in Nat
  /\ readers \subseteq Fds \cup {Listener} /\ writers \subseteq Fds /\ refused \subseteq Fds
  /\ at \in {"cron", "poll", "events", "killed"}
  /\ batch \subseteq {"read", "write"} \X (Fds \cup {Listener})
  /\ busy \in Fds \cup {NoFd}
  /\ conn \in [Fds -> Conns \cup {NoConn}]
  /\ sock \in [Conns -> {"new", "queued", "open", "closed", "reset", "dropped"}]
  /\ backlog \in Seq(Conns) /\ inbox \in [Conns -> Seq(Cell)]
  /\ unread \in [Conns -> 0..RecvCap]
  /\ script \in Workloads
  /\ sent \in [Conns -> [req : Nat \ {0}, cells : Nat]]
  /\ answers \in [Conns -> Seq(Cell)]
  /\ ran \subseteq Cell /\ reran \subseteq ran

Active == {f \in Fds : clients[f].active}

\* The four records of who is connected agree, whatever closed a connection
\* (end of file, error, bad frame, timeout, failed accept): the active
\* clients, clients_count (a wrong count would make the idle check stop
\* early), the handlers and the open descriptors.  A leaked handler would run
\* for the next owner of the descriptor.
BookkeepingAgrees ==
  /\ clients_count = Cardinality(Active)
  /\ readers \cap Fds = Active /\ writers \cup refused \subseteq Active
  /\ \A f \in Fds : (f \in Active) = (conn[f] # NoConn)
  /\ \A f, g \in Active : conn[f] = conn[g] => f = g
  /\ \A f \in Fds \ Active : clients[f] = NoClient

\* No wake-up is lost: between handlers, responses that are not sent yet have
\* a write handler, or one that kevent refused to register, and a whole request
\* that waits in the read buffer waits behind such responses, so that on_write
\* will come back to it.
NoLostWakeup ==
  \A f \in Active :
    /\ clients[f].wbuf # <<>> <=> f \in writers \cup refused
    /\ clients[f].woff < Len(clients[f].wbuf) \/ clients[f].wbuf = <<>>
    /\ busy # f /\ HasFrame(clients[f]) => f \in writers \cup refused

\* What arrives at a client is its own answers, in the order of its requests,
\* none missing and none twice, across partial writes, compaction, full
\* buffers, repeated execution and events that were meant for the previous
\* owner of the descriptor.
AnswersInOrder ==
  \A c \in Conns : \A i \in 1..Len(answers[c]) :
    answers[c][i] = <<c, i>> /\ <<c, i>> \in ran

\* A request is executed once if its client waits for answers, however the
\* other clients behave.
ExecutedOnce == \A r \in reran : r[1] \in Greedy

WellBehaved(c) ==
  c \in DOMAIN script \ Greedy /\ \A n \in 1..Len(script[c]) : script[c][n] <= ReadCap

\* Handling events never disconnects a client that is there, waits for
\* answers and sends legal frames, not even one that fills the read buffer.
WellBehavedKept ==
  [][\A c \in Conns : WellBehaved(c) /\ sock[c] = "open" /\ sock'[c] = "dropped"
       => at # "events" \/ Down']_vars

\* Every request that has arrived is answered in the end, or its connection
\* ends, though no further event may come from that client; unless kevent has
\* refused to watch for space in its socket.  (Workloads are finite: in the end
\* nothing is owed.)
Owed(c) ==
  /\ sock[c] = "open" /\ Len(answers[c]) < sent[c].req - 1
  /\ \A f \in refused : conn[f] # c

Answered == <>[](\A c \in Conns : ~Owed(c))

\* No connection stays for ever: clients that fall silent are found by the
\* idle check, though each check may stop early, and their descriptors freed.
SilentAreDropped == TimePasses => <>[](\A c \in Conns : sock[c] \in {"new", "dropped"})
=================================================================================
