---------------------------- MODULE NetworkingProofs ----------------------------
(***************************************************************************)
(* Proofs about Networking, for every number of connections and            *)
(* descriptors, every size of the buffers and every workload.              *)
(***************************************************************************)
EXTENDS Networking, SharedLemmas

-------------------------------------------------------------------------------
(* Types, sockets, records                                                 *)

\* The requests of the workload: what a cell may be a part of.
Requests == {r \in Cell : r[1] \in DOMAIN script /\ r[2] \in 1..Len(script[r[1]])}

ClientOK(c) ==
  /\ c \in Client
  /\ c.buf \in Seq(Requests) /\ c.wbuf \in Seq(Requests)

\* What the server keeps, and what the kernel and the clients do.
ServerTypes ==
  /\ clients \in [Fds -> Client] /\ \A f \in Fds : ClientOK(clients[f])
  /\ readers \subseteq Fds \cup {Listener} /\ writers \subseteq Fds /\ refused \subseteq Fds
  /\ at \in {"cron", "poll", "events", "killed"}
  /\ batch \subseteq {"read", "write"} \X (Fds \cup {Listener})
  /\ busy \in Fds \cup {NoFd}

KernelTypes ==
  /\ conn \in [Fds -> Conns \cup {NoConn}]
  /\ sock \in [Conns -> {"new", "queued", "open", "closed", "reset", "dropped"}]
  /\ backlog \in Seq(Conns) /\ inbox \in [Conns -> Seq(Requests)]
  /\ unread \in [Conns -> 0..RecvCap]

\* A client sends the requests of its script in order.
ClientTypes ==
  /\ script \in Workloads
  /\ sent \in [Conns -> [req : Nat \ {0}, cells : Nat]]
  /\ answers \in [Conns -> Seq(Requests)]
  /\ ran \subseteq Requests /\ reran \subseteq ran
  /\ \A c \in Conns :
       /\ sock[c] # "new" => c \in DOMAIN script
       /\ c \in DOMAIN script => sent[c].req <= Len(script[c]) + 1
       /\ sent[c].cells > 0 => /\ c \in DOMAIN script /\ sent[c].req <= Len(script[c])
                               /\ sent[c].cells < script[c][sent[c].req]

\* A connection is at most once in the backlog or at a descriptor, and its
\* socket is in a state that fits.
Sockets ==
  /\ \A f \in Fds : conn[f] # NoConn => sock[conn[f]] \in {"open", "closed", "reset"}
  /\ \A i \in 1..Len(backlog) :
       /\ sock[backlog[i]] \in {"queued", "closed"}
       /\ \A f \in Fds : conn[f] # backlog[i]
       /\ \A j \in 1..Len(backlog) : backlog[i] = backlog[j] => i = j

\* process_buffer works for a client that is there.
BusyOK == busy # NoFd => busy \in Active /\ at = "events"

Core == ServerTypes /\ KernelTypes /\ ClientTypes /\ Sockets /\ BookkeepingAgrees /\ BusyOK

\* Sets of descriptors are finite.
LEMMA FdSets ==
  ASSUME NEW S \in SUBSET Fds
  PROVE  IsFiniteSet(S) /\ Cardinality(S) \in Nat
<1>1. IsFiniteSet(Fds)
  BY NetAssumption, FS_Interval DEF Fds
<1> QED
  BY <1>1, FS_Subset, FS_CardinalityType

\* Frames have a size.
LEMMA SizeType ==
  ASSUME ClientTypes, NEW r \in Requests
  PROVE  FrameSize(r) \in Nat \ {0}
<1>1. script \in Workloads /\ r[1] \in DOMAIN script /\ r[2] \in 1..Len(script[r[1]])
  BY DEF ClientTypes, Requests
<1>2. script[r[1]] \in Seq(Nat \ {0})
  BY <1>1, NetAssumption
<1> QED
  BY <1>1, <1>2, ElementOfSeq DEF FrameSize

\* The clients that remain after a removal, their handlers and sockets.
LEMMA RemoveCore ==
  ASSUME Core, NEW gone \in SUBSET Active, NEW cs,
         cs \in [Fds -> Client],
         \A f \in Fds : /\ ClientOK(cs[f]) /\ cs[f].active = clients[f].active
                        /\ ~clients[f].active => cs[f] = NoClient,
         remove_client(gone, cs),
         UNCHANGED <<backlog, inbox, unread, script, sent, answers>>,
         at' \in {"cron", "poll", "events", "killed"}, batch' \subseteq batch,
         busy' = NoFd \/ (busy' = busy /\ busy \notin gone /\ at' = at),
         ran' \subseteq Requests, reran' \subseteq ran'
  PROVE  Core' /\ Active' = Active \ gone
<1> USE DEF Core
<1>1. gone \subseteq Fds /\ NoClient \in Client /\ ClientOK(NoClient)
  BY NetAssumption DEF Active, NoClient, Client, ClientOK
<1>2. Requests' = Requests
  BY DEF Requests
<1>3. clients' = [f \in Fds |-> IF f \in gone THEN NoClient ELSE cs[f]]
  BY DEF remove_client
<1>4. Active' = Active \ gone
  BY <1>1, <1>3 DEF Active, NoClient
<1>5. ServerTypes'
  <2>1. clients' \in [Fds -> Client] /\ \A f \in Fds : ClientOK(clients'[f])
    BY <1>1, <1>3
  <2>2. \A f \in Fds : ClientOK(clients[f])'
    BY <1>2, <2>1 DEF ClientOK
  <2>3. readers' \subseteq Fds \cup {Listener} /\ writers' \subseteq Fds /\ refused' \subseteq Fds
    BY DEF ServerTypes, remove_client, el_remove
  <2>4. /\ at' \in {"cron", "poll", "events", "killed"}
        /\ batch' \subseteq {"read", "write"} \X (Fds \cup {Listener})
        /\ busy' \in Fds \cup {NoFd}
    BY DEF ServerTypes
  <2> QED
    BY <2>1, <2>2, <2>3, <2>4 DEF ServerTypes
<1>6. conn' = [f \in Fds |-> IF f \in gone THEN NoConn ELSE conn[f]]
      /\ sock' = [c \in Conns |-> IF \E f \in gone : conn[f] = c THEN "dropped" ELSE sock[c]]
  BY DEF remove_client
<1>7. KernelTypes'
  BY <1>2, <1>6 DEF KernelTypes
<1>8. \A c \in Conns : \/ sock'[c] = sock[c]
                       \/ sock[c] \in {"open", "closed", "reset"} /\ sock'[c] = "dropped"
  BY <1>1, <1>6, NetAssumption DEF Sockets, KernelTypes
<1>9. ClientTypes'
  BY <1>2, <1>8 DEF ClientTypes
<1>10. Sockets'
  <2>1. \A f \in Fds : conn'[f] # NoConn => conn'[f] = conn[f] /\ f \notin gone /\ f \in Active
    BY <1>6 DEF BookkeepingAgrees
  <2>2. \A f \in Fds : conn'[f] # NoConn => sock'[conn[f]] = sock[conn[f]]
    <3>1. ASSUME NEW f \in Fds, conn'[f] # NoConn
          PROVE  conn[f] \in Conns /\ \A g \in gone : conn[g] # conn[f]
      BY <1>1, <2>1, <3>1 DEF BookkeepingAgrees, KernelTypes
    <3> QED
      BY <1>6, <3>1
  <2>3. \A f \in Fds : conn'[f] # NoConn => sock'[conn'[f]] \in {"open", "closed", "reset"}
    BY <2>1, <2>2 DEF Sockets
  <2>4. \A i \in 1..Len(backlog) : sock'[backlog[i]] = sock[backlog[i]] /\ backlog[i] \in Conns
    <3>1. \A i \in 1..Len(backlog) : backlog[i] \in Conns /\ \A f \in gone : conn[f] # backlog[i]
      BY <1>1, ElementOfSeq DEF Sockets, KernelTypes
    <3> QED
      BY <1>6, <3>1
  <2>5. \A i \in 1..Len(backlog) : \A f \in Fds : conn'[f] # backlog[i]
    BY <2>1, <2>4, NetAssumption DEF Sockets
  <2> QED
    BY <2>3, <2>4, <2>5 DEF Sockets
<1>11. BookkeepingAgrees'
  <2>1. clients_count' = Cardinality(Active')
    <3>1. IsFiniteSet(Active) /\ Active \cap gone = gone
      BY FdSets DEF Active
    <3>2. Cardinality(Active \ gone) = Cardinality(Active) - Cardinality(gone)
      BY <3>1, FS_Difference
    <3> QED
      BY <3>2, <1>4 DEF remove_client, BookkeepingAgrees
  <2>2. readers' \cap Fds = Active' /\ writers' \cup refused' \subseteq Active'
    BY <1>4 DEF remove_client, el_remove, BookkeepingAgrees
  <2>3. \A f \in Fds : (f \in Active') = (conn'[f] # NoConn)
    BY <1>4, <1>6 DEF BookkeepingAgrees
  <2>4. \A f, g \in Active' : conn'[f] = conn'[g] => f = g
    BY <1>4, <1>6 DEF BookkeepingAgrees, Active
  <2>5. \A f \in Fds \ Active' : clients'[f] = NoClient
    BY <1>3, <1>4 DEF Active
  <2> QED
    BY <2>1, <2>2, <2>3, <2>4, <2>5 DEF BookkeepingAgrees
<1>12. BusyOK'
  BY <1>4 DEF BusyOK
<1> QED
  BY <1>4, <1>5, <1>7, <1>9, <1>10, <1>11, <1>12

\* A handler that keeps its client changes that client, its write handler and
\* its connection only.
LEMMA TouchCore ==
  ASSUME Core, NEW fd \in Active, NEW x, ClientOK(x), x.active,
         clients' = [clients EXCEPT ![fd] = x],
         UNCHANGED <<clients_count, readers, conn, backlog, script, sent>>,
         writers' = writers \/ writers' = writers \cup {fd} \/ writers' = writers \ {fd},
         refused' = refused \/ refused' = refused \cup {fd} \/ refused' = refused \ {fd},
         inbox' \in [Conns -> Seq(Requests)], unread' \in [Conns -> 0..RecvCap],
         answers' \in [Conns -> Seq(Requests)],
         ran' \subseteq Requests, reran' \subseteq ran',
         \/ sock' = sock
         \/ sock[conn[fd]] = "closed" /\ sock' = [sock EXCEPT ![conn[fd]] = "reset"],
         at = "events" /\ at' = at, batch' \subseteq batch, busy' \in {NoFd, fd}
  PROVE  Core' /\ Active' = Active
<1> USE DEF Core
<1>1. fd \in Fds /\ conn[fd] \in Conns
  BY DEF Active, BookkeepingAgrees, KernelTypes
<1>2. Requests' = Requests
  BY DEF Requests
<1>3. Active' = Active
  BY <1>1 DEF Active, ServerTypes
<1>4. ServerTypes'
  <2>1. clients' \in [Fds -> Client] /\ \A f \in Fds : ClientOK(clients'[f])
    BY <1>1 DEF ServerTypes, ClientOK
  <2>2. \A f \in Fds : ClientOK(clients[f])'
    BY <1>2, <2>1 DEF ClientOK
  <2>3. writers' \subseteq Fds /\ refused' \subseteq Fds
    BY <1>1 DEF ServerTypes
  <2>4. batch' \subseteq {"read", "write"} \X (Fds \cup {Listener})
    BY DEF ServerTypes
  <2> QED
    BY <1>1, <2>1, <2>2, <2>3, <2>4 DEF ServerTypes
<1>5. KernelTypes'
  BY <1>1, <1>2 DEF KernelTypes
<1>6. \A c \in Conns : sock'[c] = sock[c] \/ (sock[c] = "closed" /\ sock'[c] = "reset" /\ c = conn[fd])
  BY <1>1 DEF KernelTypes
<1>7. ClientTypes'
  BY <1>2, <1>6 DEF ClientTypes
<1>8. Sockets'
  <2>1. \A f \in Fds : conn'[f] # NoConn => sock'[conn'[f]] \in {"open", "closed", "reset"}
    BY <1>6 DEF Sockets, KernelTypes
  <2>2. \A i \in 1..Len(backlog) : backlog[i] \in Conns /\ backlog[i] # conn[fd]
    BY <1>1, ElementOfSeq DEF Sockets, KernelTypes
  <2>3. \A i \in 1..Len(backlog) : sock'[backlog[i]] = sock[backlog[i]]
    BY <1>6, <2>2
  <2> QED
    BY <2>1, <2>3 DEF Sockets
<1>9. BookkeepingAgrees'
  BY <1>1, <1>3 DEF BookkeepingAgrees, ServerTypes
<1>10. BusyOK'
  BY <1>3 DEF BusyOK
<1> QED
  BY <1>3, <1>4, <1>5, <1>7, <1>8, <1>9, <1>10

\* Death by SIGPIPE closes everything.
LEMMA KilledCore ==
  ASSUME Core, Killed, UNCHANGED <<inbox, unread, script, sent, answers>>,
         ran' \subseteq Requests, reran' \subseteq ran'
  PROVE  Core' /\ Active' = {}
<1> USE DEF Core, Killed
<1>1. Active' = {}
  BY DEF Active, NoClient
<1>2. Requests' = Requests
  BY DEF Requests
<1>3. NoClient \in Client /\ ClientOK(NoClient)'
  BY NetAssumption DEF NoClient, Client, ClientOK
<1>4. ServerTypes'
  BY <1>3 DEF ServerTypes
<1>5. KernelTypes'
  BY <1>2 DEF KernelTypes
<1>6. ClientTypes'
  BY <1>2 DEF ClientTypes, KernelTypes
<1>7. Sockets'
  BY DEF Sockets
<1>8. BookkeepingAgrees'
  BY <1>1, FS_EmptySet DEF BookkeepingAgrees
<1>9. BusyOK'
  BY DEF BusyOK
<1> QED
  BY <1>1, <1>4, <1>5, <1>6, <1>7, <1>8, <1>9

\* Parts of sequences, from any place on.
LEMMA PartType ==
  ASSUME NEW S, NEW s \in Seq(S), NEW k \in Nat, NEW n \in 0..Len(s)
  PROVE  SubSeq(s, k + 1, n) \in Seq(S)
<1>1. \A i \in (k + 1)..n : s[i] \in S
  BY ElementOfSeq
<1> QED
  BY <1>1, SubSeqProperties

\* What queue_write and process_buffer make of a client is a client.
LEMMA ClientSteps ==
  ASSUME ClientTypes, NEW x, ClientOK(x), NEW r \in Requests, NEW k \in Nat
  PROVE  /\ ClientOK(Compact(x)) /\ Compact(x).active = x.active
         /\ ClientOK(Consumed(x, k)) /\ Consumed(x, k).active = x.active
         /\ ClientOK(Queued(x, r)) /\ Queued(x, r).active = x.active
<1> USE DEF ClientOK
<1>1. Requests \subseteq Cell
  BY DEF Requests
<1>2. /\ SubSeq(x.wbuf, x.woff + 1, Len(x.wbuf)) \in Seq(Requests)
      /\ SubSeq(x.wbuf, x.woff + 1, Len(x.wbuf)) \in Seq(Cell)
  BY PartType DEF Client
<1>3. SubSeq(x.buf, k + 1, Len(x.buf)) \in Seq(Requests) /\ SubSeq(x.buf, k + 1, Len(x.buf)) \in Seq(Cell)
  BY PartType DEF Client
<1>4. Append(x.wbuf, r) \in Seq(Requests) /\ Append(x.wbuf, r) \in Seq(Cell)
  BY <1>1, AppendProperties DEF Client
<1>5. ClientOK(Compact(x)) /\ Compact(x).active = x.active
  BY <1>2 DEF Compact, Client
<1>6. ClientOK(Consumed(x, k)) /\ Consumed(x, k).active = x.active
  BY <1>3 DEF Consumed, Client
<1>7. ClientOK(Queued(x, r)) /\ Queued(x, r).active = x.active
  BY <1>4 DEF Queued, Client
<1> QED
  BY <1>5, <1>6, <1>7

\* write() moves a part of the data to the client.
LEMMA WriteTypes ==
  ASSUME Core, NEW c \in Conns, NEW data \in Seq(Requests), NEW n, Write(c, data, n)
  PROVE  /\ n \in 0..Len(data)
         /\ answers' \in [Conns -> Seq(Requests)] /\ unread' \in [Conns -> 0..RecvCap]
         /\ \/ sock' = sock
            \/ sock[c] = "closed" /\ sock' = [sock EXCEPT ![c] = "reset"]
<1> USE DEF Core
<1>1. unread[c] \in 0..RecvCap /\ RecvCap \in Nat /\ Len(data) \in Nat /\ answers[c] \in Seq(Requests)
  BY NetAssumption DEF KernelTypes, ClientTypes
<1>2. n \in 0..Len(data)
  BY <1>1 DEF Write, Lesser, Room
<1>3. SubSeq(data, 1, n) \in Seq(Requests)
  BY <1>2, PartType
<1>4. answers[c] \o SubSeq(data, 1, n) \in Seq(Requests)
  BY <1>1, <1>3, ConcatProperties
<1>5. answers' \in [Conns -> Seq(Requests)]
  BY <1>4 DEF Write, ClientTypes
<1>6. unread' \in [Conns -> 0..RecvCap]
  <2>1. sock[c] = "open" /\ Room(c) > 0 /\ n = Lesser(Len(data), Room(c)) => unread[c] + n \in 0..RecvCap
    BY <1>1 DEF Lesser, Room
  <2> QED
    BY <2>1 DEF Write, KernelTypes
<1> QED
  BY <1>2, <1>5, <1>6 DEF Write

\* Closing one connection, and an error of write().
LEMMA DropCore ==
  ASSUME Core, NEW fd \in Active, Drop(fd),
         UNCHANGED <<at, backlog, inbox, unread, script, sent, answers>>,
         batch' \subseteq batch, busy' = NoFd, ran' \subseteq Requests, reran' \subseteq ran'
  PROVE  Core' /\ Active' = Active \ {fd}
<1>1. clients \in [Fds -> Client] /\ \A f \in Fds : ClientOK(clients[f])
  BY DEF Core, ServerTypes
<1>2. \A f \in Fds : ~clients[f].active => clients[f] = NoClient
  BY DEF Core, BookkeepingAgrees, Active
<1>3. at' \in {"cron", "poll", "events", "killed"}
  BY DEF Core, ServerTypes
<1>4. {fd} \in SUBSET Active /\ remove_client({fd}, clients)
  BY DEF Drop
<1> QED
  BY <1>1, <1>2, <1>3, <1>4, RemoveCore

LEMMA WriteErrorCore ==
  ASSUME Core, NEW fd \in Active, NEW rest \in SUBSET batch, WriteError(fd, rest),
         UNCHANGED <<inbox, script, sent>>, ran' \subseteq Requests, reran' \subseteq ran'
  PROVE  Core' /\ (Active' = Active \ {fd} \/ (Killed /\ Active' = {}))
<1>1. CASE Drop(fd) /\ busy' = NoFd /\ batch' = rest /\ UNCHANGED <<at, backlog, answers, unread>>
  BY <1>1, DropCore
<1>2. CASE Killed /\ UNCHANGED <<answers, unread>>
  BY <1>2, KilledCore
<1> QED
  BY <1>1, <1>2 DEF WriteError

\* accept() takes a free descriptor.
LEMMA LowestFree ==
  ASSUME Core
  PROVE  Lowest \in 1..(MaxFd + 1) /\ (Lowest \in Fds => conn[Lowest] = NoConn)
<1> DEFINE Free == {f \in 1..(MaxFd + 1) : f \in Fds => conn[f] = NoConn}
<1>1. Free \in SUBSET Nat /\ MaxFd + 1 \in Free
  BY NetAssumption DEF Fds
<1>2. PICK f \in Free : \A g \in Free : f <= g
  BY <1>1, LeastNat, Zenon
<1>3. \A g \in 1..(f - 1) : g \in 1..(MaxFd + 1) /\ g \in Fds /\ ~(f <= g)
  BY NetAssumption DEF Fds
<1>4. \A g \in 1..(f - 1) : conn[g] # NoConn
  BY <1>2, <1>3
<1>5. \E h \in 1..(MaxFd + 1) : (h \in Fds => conn[h] = NoConn) /\ \A g \in 1..(h - 1) : conn[g] # NoConn
  BY <1>4
<1> HIDE DEF Free
<1> QED
  BY <1>5, Zenon DEF Lowest

\* A client that is accepted.
LEMMA AcceptCore ==
  ASSUME Core, on_accept
  PROVE  Core'
<1> USE DEF Core
<1> DEFINE c == Head(backlog)
           fd == Lowest
<1>1. Requests' = Requests
  BY DEF on_accept, clientVars, Requests
<1>2. /\ UNCHANGED <<writers, refused, at, busy, inbox, unread, script, sent, answers, ran, reran>>
      /\ batch' \subseteq batch /\ busy = NoFd
  BY DEF on_accept, clientVars, Handled, Event
<1>3. backlog # <<>> => /\ c \in Conns /\ c = backlog[1] /\ Tail(backlog) \in Seq(Conns)
                        /\ Len(Tail(backlog)) = Len(backlog) - 1
                        /\ \A i \in 1..Len(Tail(backlog)) : Tail(backlog)[i] = backlog[i + 1]
  BY HeadTailProperties DEF KernelTypes
<1>4. backlog # <<>> => /\ sock[c] \in {"queued", "closed"} /\ \A f \in Fds : conn[f] # c
                        /\ \A i \in 1..Len(Tail(backlog)) : Tail(backlog)[i] # c
  BY <1>3 DEF Sockets, KernelTypes
<1>5. BusyOK'
  BY <1>2 DEF BusyOK
<1>6. \A x : ClientOK(x)' = ClientOK(x)
  BY <1>1 DEF ClientOK
<1>7. ASSUME backlog # <<>>, fd \in Fds, clients' = [clients EXCEPT ![fd] = NewClient],
             clients_count' = clients_count + 1, el_add(fd), conn' = [conn EXCEPT ![fd] = c],
             sock' = IF sock[c] = "queued" THEN [sock EXCEPT ![c] = "open"] ELSE sock,
             backlog' = Tail(backlog)
      PROVE  Core'
  <2>1. conn[fd] = NoConn /\ fd \notin Active
    BY <1>7, LowestFree DEF BookkeepingAgrees
  <2>2. NewClient \in Client /\ ClientOK(NewClient) /\ NewClient.active
    <3>1. NoClient \in Client /\ NoClient.buf = <<>> /\ NoClient.wbuf = <<>>
      BY NetAssumption DEF NoClient, Client
    <3>2. NewClient \in Client /\ NewClient.buf = <<>> /\ NewClient.wbuf = <<>> /\ NewClient.active
      BY <3>1 DEF NewClient, Client
    <3> QED
      BY <3>2 DEF ClientOK
  <2>3. Active' = Active \cup {fd}
    BY <1>7, <2>2 DEF Active, ServerTypes
  <2>4. ServerTypes'
    BY <1>2, <1>6, <1>7, <2>2 DEF ServerTypes, el_add
  <2>5. KernelTypes'
    BY <1>1, <1>2, <1>3, <1>7 DEF KernelTypes
  <2>6. \A d \in Conns : sock'[d] = sock[d] \/ (d = c /\ sock[d] = "queued" /\ sock'[d] = "open")
    BY <1>7 DEF KernelTypes
  <2>7. ClientTypes'
    BY <1>1, <1>2, <2>6 DEF ClientTypes
  <2>8. Sockets'
    <3>1. \A f \in Fds : conn'[f] # NoConn => sock'[conn'[f]] \in {"open", "closed", "reset"}
      BY <1>3, <1>4, <1>7, <2>6 DEF Sockets, KernelTypes
    <3>2. \A i \in 1..Len(backlog') : /\ backlog'[i] = backlog[i + 1] /\ i + 1 \in 1..Len(backlog)
                                      /\ backlog'[i] \in Conns /\ backlog'[i] # c
      BY <1>3, <1>4, <1>7, ElementOfSeq DEF KernelTypes
    <3>3. \A i \in 1..Len(backlog') : /\ sock'[backlog'[i]] \in {"queued", "closed"}
                                      /\ \A f \in Fds : conn'[f] # backlog'[i]
      BY <1>7, <2>6, <3>2 DEF Sockets, KernelTypes
    <3>4. ASSUME NEW i \in 1..Len(backlog'), NEW j \in 1..Len(backlog'), backlog'[i] = backlog'[j]
          PROVE  i = j
      <4>1. i + 1 = j + 1
        BY <3>2, <3>4 DEF Sockets
      <4> QED
        BY <4>1
    <3> QED
      BY <3>1, <3>3, <3>4 DEF Sockets
  <2>9. BookkeepingAgrees'
    <3>1. clients_count' = Cardinality(Active')
      <4>1. IsFiniteSet(Active)
        BY FdSets DEF Active
      <4> QED
        BY <1>7, <2>1, <2>3, <4>1, FS_AddElement DEF BookkeepingAgrees
    <3>2. readers' \cap Fds = Active' /\ writers' \cup refused' \subseteq Active'
      BY <1>2, <1>7, <2>3 DEF BookkeepingAgrees, el_add
    <3>3. \A f \in Fds : (f \in Active') = (conn'[f] # NoConn)
      BY <1>3, <1>7, <2>3, NetAssumption DEF BookkeepingAgrees, KernelTypes
    <3>4. \A f, g \in Active' : conn'[f] = conn'[g] => f = g
      BY <1>4, <1>7, <2>3 DEF BookkeepingAgrees, KernelTypes, Active
    <3>5. \A f \in Fds \ Active' : clients'[f] = NoClient
      BY <1>7, <2>3 DEF BookkeepingAgrees, ServerTypes
    <3> QED
      BY <3>1, <3>2, <3>3, <3>4, <3>5 DEF BookkeepingAgrees
  <2> QED
    BY <1>5, <2>4, <2>5, <2>7, <2>8, <2>9
<1>8. ASSUME backlog # <<>>, sock' = [sock EXCEPT ![c] = "dropped"], backlog' = Tail(backlog),
             UNCHANGED <<clients, clients_count, readers, conn>>
      PROVE  Core'
  <2>1. \A d \in Conns : sock'[d] = sock[d] \/ (d = c /\ sock[d] # "new")
    BY <1>4, <1>8 DEF KernelTypes
  <2>2. Active' = Active
    BY <1>8 DEF Active
  <2>3. ServerTypes'
    BY <1>2, <1>6, <1>8 DEF ServerTypes
  <2>4. KernelTypes'
    BY <1>1, <1>2, <1>3, <1>8 DEF KernelTypes
  <2>5. ClientTypes'
    BY <1>1, <1>2, <2>1, <2>4 DEF ClientTypes
  <2>6. Sockets'
    <3>1. \A f \in Fds : conn'[f] # NoConn => sock'[conn'[f]] \in {"open", "closed", "reset"}
      BY <1>4, <1>8, <2>1 DEF Sockets, KernelTypes
    <3>2. \A i \in 1..Len(backlog') : /\ backlog'[i] = backlog[i + 1] /\ i + 1 \in 1..Len(backlog)
                                      /\ backlog'[i] \in Conns /\ backlog'[i] # c
      BY <1>3, <1>4, <1>8, ElementOfSeq DEF KernelTypes
    <3>3. \A i, j \in 1..Len(backlog') : backlog'[i] = backlog'[j] => i = j
      BY <3>2 DEF Sockets
    <3> QED
      BY <1>8, <2>1, <3>1, <3>2, <3>3 DEF Sockets
  <2>7. BookkeepingAgrees'
    BY <1>2, <1>8, <2>2 DEF BookkeepingAgrees
  <2> QED
    BY <1>5, <2>3, <2>4, <2>5, <2>6, <2>7
<1>9. ASSUME UNCHANGED <<clients, clients_count, readers, conn, sock, backlog>>
      PROVE  Core'
  <2>1. ServerTypes' /\ KernelTypes'
    BY <1>1, <1>2, <1>6, <1>9 DEF ServerTypes, KernelTypes
  <2>2. ClientTypes' /\ Sockets'
    BY <1>1, <1>2, <1>9 DEF ClientTypes, Sockets
  <2>3. BookkeepingAgrees'
    BY <1>2, <1>9 DEF BookkeepingAgrees, Active
  <2> QED
    BY <1>5, <2>1, <2>2, <2>3
<1> QED
  BY <1>7, <1>8, <1>9 DEF on_accept

\* A reset takes one connection out of the backlog.
LEMMA WithoutProperties ==
  ASSUME NEW S, NEW s \in Seq(S), NEW k \in 1..Len(s)
  PROVE  /\ Without(s, k) \in Seq(S) /\ Len(Without(s, k)) = Len(s) - 1
         /\ \A i \in 1..(Len(s) - 1) : Without(s, k)[i] = s[IF i < k THEN i ELSE i + 1]
BY CutOut DEF Without

\* What clients do leaves the server alone.
LEMMA ClientCore ==
  ASSUME Core, NEW c \in Conns, Connect(c) \/ Send(c) \/ Recv(c) \/ Leave(c)
  PROVE  Core'
<1> USE DEF Core
<1>1. UNCHANGED <<clients, clients_count, readers, writers, refused, at, batch, busy, conn, script, answers, ran, reran>>
  BY DEF Connect, Send, Recv, Leave, serverVars, clientVars
<1>2. Requests' = Requests /\ Active' = Active
  BY <1>1 DEF Requests, Active
<1>3. ServerTypes' /\ BookkeepingAgrees' /\ BusyOK'
  <2>1. \A x : ClientOK(x)' = ClientOK(x)
    BY <1>2 DEF ClientOK
  <2> QED
    BY <1>1, <1>2, <2>1 DEF ServerTypes, BookkeepingAgrees, BusyOK
<1>4. CASE Connect(c)
  <2>1. /\ sock[c] = "new" /\ c \in DOMAIN script /\ UNCHANGED <<inbox, unread, sent>>
        /\ sock' = [sock EXCEPT ![c] = "queued"] /\ backlog' = Append(backlog, c)
    BY <1>4 DEF Connect, clientVars
  <2>2. /\ backlog' \in Seq(Conns) /\ Len(backlog') = Len(backlog) + 1
        /\ backlog'[Len(backlog) + 1] = c
        /\ \A i \in 1..Len(backlog) : backlog'[i] = backlog[i] /\ backlog[i] \in Conns /\ backlog[i] # c
    <3>1. backlog \in Seq(Conns)
      BY DEF KernelTypes
    <3>2. \A i \in 1..Len(backlog) : backlog[i] \in Conns /\ backlog[i] # c
      BY <2>1, <3>1, ElementOfSeq DEF Sockets
    <3> QED
      BY <2>1, <3>1, <3>2, AppendProperties
  <2>3. KernelTypes' /\ ClientTypes'
    BY <1>1, <1>2, <2>1, <2>2 DEF KernelTypes, ClientTypes
  <2>4. Sockets'
    <3>1. \A f \in Fds : conn[f] # c
      BY <2>1, NetAssumption DEF Sockets
    <3>2. \A f \in Fds : conn'[f] # NoConn => sock'[conn'[f]] \in {"open", "closed", "reset"}
      BY <1>1, <2>1, <3>1 DEF Sockets, KernelTypes
    <3>3. \A i \in 1..Len(backlog') : i \in 1..Len(backlog) \/ i = Len(backlog) + 1
      BY <2>2 DEF KernelTypes
    <3>4. \A i \in 1..Len(backlog') : sock'[backlog'[i]] \in {"queued", "closed"}
      BY <2>1, <2>2, <3>3 DEF Sockets, KernelTypes
    <3>5. \A i \in 1..Len(backlog') : \A f \in Fds : conn'[f] # backlog'[i]
      BY <1>1, <2>2, <3>1, <3>3 DEF Sockets
    <3>6. \A i, j \in 1..Len(backlog') : backlog'[i] = backlog'[j] => i = j
      BY <2>2, <3>3 DEF Sockets
    <3> QED
      BY <3>2, <3>4, <3>5, <3>6 DEF Sockets
  <2> QED
    BY <1>3, <2>3, <2>4
<1>5. CASE Send(c)
  <2> DEFINE n == sent[c].req
             i == sent[c].cells + 1
  <2>1. /\ sock[c] # "new" /\ n <= Len(script[c]) /\ UNCHANGED <<sock, backlog, unread>>
        /\ inbox' = [inbox EXCEPT ![c] = Append(@, <<c, n>>)]
        /\ sent' = [sent EXCEPT ![c] = IF i = script[c][n] THEN [req |-> n + 1, cells |-> 0]
                                                           ELSE [req |-> n, cells |-> i]]
    BY <1>5 DEF Send
  <2>2. /\ n \in Nat \ {0} /\ i \in Nat \ {0} /\ c \in DOMAIN script
        /\ script[c] \in Seq(Nat \ {0}) /\ Len(script[c]) \in Nat /\ n \in 1..Len(script[c])
    BY <2>1, NetAssumption DEF ClientTypes
  <2>3. <<c, n>> \in Requests
    BY <2>2 DEF Requests, Cell
  <2>4. KernelTypes'
    BY <1>1, <1>2, <2>1, <2>3, AppendProperties DEF KernelTypes
  <2>5. script[c][n] \in Nat \ {0}
    BY <2>2, ElementOfSeq
  <2>6. i # script[c][n] => i < script[c][n]
    <3>1. sent[c].cells \in Nat /\ (sent[c].cells > 0 => sent[c].cells < script[c][n])
      BY DEF ClientTypes
    <3> QED
      BY <2>5, <3>1
  <2>7. /\ sent' \in [Conns -> [req : Nat \ {0}, cells : Nat]]
        /\ \A d \in Conns \ {c} : sent'[d] = sent[d]
        /\ sent'[c] = IF i = script[c][n] THEN [req |-> n + 1, cells |-> 0] ELSE [req |-> n, cells |-> i]
    BY <2>1, <2>2 DEF ClientTypes
  <2>8. sent'[c].req <= Len(script[c]) + 1 /\ (sent'[c].cells > 0 => sent'[c].req = n /\ sent'[c].cells = i /\ i < script[c][n])
    BY <2>2, <2>6, <2>7
  <2>9. ClientTypes'
    BY <1>1, <1>2, <2>1, <2>2, <2>7, <2>8 DEF ClientTypes
  <2>10. Sockets'
    BY <1>1, <2>1 DEF Sockets
  <2> QED
    BY <1>3, <2>4, <2>9, <2>10
<1>6. CASE Recv(c)
  <2>1. UNCHANGED <<sock, backlog, inbox, sent>> /\ unread' = [unread EXCEPT ![c] = @ - 1] /\ unread[c] > 0
    BY <1>6 DEF Recv, clientVars
  <2>2. unread[c] - 1 \in 0..RecvCap
    <3>1. unread[c] \in 0..RecvCap /\ RecvCap \in Nat
      BY NetAssumption DEF KernelTypes
    <3> QED
      BY <2>1, <3>1
  <2>3. KernelTypes'
    BY <1>1, <1>2, <2>1, <2>2 DEF KernelTypes
  <2>4. ClientTypes' /\ Sockets'
    BY <1>1, <1>2, <2>1 DEF ClientTypes, Sockets
  <2> QED
    BY <1>3, <2>3, <2>4
<1>7. CASE Leave(c)
  <2>1. UNCHANGED <<inbox, unread, sent>>
    BY <1>7 DEF Leave, clientVars
  <2>2. CASE /\ UNCHANGED backlog
             /\ \/ sock[c] \in {"queued", "open"} /\ sock' = [sock EXCEPT ![c] = "closed"]
                \/ sock[c] = "open" /\ sock' = [sock EXCEPT ![c] = "reset"]
    <3>1. KernelTypes' /\ ClientTypes'
      BY <1>1, <1>2, <2>1, <2>2 DEF KernelTypes, ClientTypes
    <3>2. \A i \in 1..Len(backlog) : backlog[i] \in Conns
      BY ElementOfSeq DEF KernelTypes
    <3>3. \A d \in Conns : /\ sock[d] \in {"open", "closed", "reset"} => sock'[d] \in {"open", "closed", "reset"}
                           /\ sock[d] \in {"queued", "closed"} => sock'[d] \in {"queued", "closed"}
      BY <2>2 DEF KernelTypes
    <3>4. \A f \in Fds : conn[f] # NoConn => sock'[conn[f]] \in {"open", "closed", "reset"}
      BY <3>3 DEF Sockets, KernelTypes
    <3>5. \A i \in 1..Len(backlog) : sock'[backlog[i]] \in {"queued", "closed"}
      BY <3>2, <3>3 DEF Sockets
    <3>6. Sockets'
      BY <1>1, <2>2, <3>4, <3>5 DEF Sockets
    <3> QED
      BY <1>3, <3>1, <3>6
  <2>3. ASSUME sock[c] = "queued", sock' = [sock EXCEPT ![c] = "dropped"],
               NEW k \in DOMAIN backlog, backlog[k] = c, backlog' = Without(backlog, k)
        PROVE  Core'
    <3> DEFINE at_(i) == IF i < k THEN i ELSE i + 1
    <3>1. k \in 1..Len(backlog) /\ Len(backlog) \in Nat
      BY LenProperties DEF KernelTypes
    <3>4. /\ backlog' \in Seq(Conns) /\ Len(backlog') = Len(backlog) - 1
          /\ \A i \in 1..(Len(backlog) - 1) : backlog'[i] = backlog[at_(i)]
      BY <2>3, <3>1, WithoutProperties DEF KernelTypes
    <3>5. \A i, j \in 1..Len(backlog') : /\ at_(i) \in 1..Len(backlog) /\ at_(i) # k
                                         /\ at_(i) = at_(j) => i = j
      BY <3>1, <3>4
    <3> HIDE DEF at_
    <3>6. KernelTypes' /\ ClientTypes'
      BY <1>1, <1>2, <2>1, <2>3, <3>4 DEF KernelTypes, ClientTypes
    <3>7. \A i \in 1..Len(backlog') : backlog'[i] = backlog[at_(i)] /\ backlog'[i] # c /\ backlog'[i] \in Conns
      <4>1. \A i \in 1..Len(backlog') : backlog'[i] = backlog[at_(i)] /\ backlog'[i] \in Conns
        BY <3>1, <3>4, <3>5, ElementOfSeq
      <4>2. \A i \in 1..Len(backlog) : backlog[i] = backlog[k] => i = k
        BY <3>1 DEF Sockets
      <4> QED
        BY <2>3, <3>5, <4>1, <4>2
    <3>8. \A i, j \in 1..Len(backlog') : backlog'[i] = backlog'[j] => i = j
      BY <3>5, <3>7 DEF Sockets
    <3>9. \A f \in Fds : conn'[f] # c
      BY <1>1, <2>3, <3>1 DEF Sockets
    <3>10. Sockets'
      <4>1. \A d \in Conns \ {c} : sock'[d] = sock[d]
        BY <2>3 DEF KernelTypes
      <4>2. \A f \in Fds : conn'[f] # NoConn => sock'[conn'[f]] \in {"open", "closed", "reset"}
        BY <1>1, <3>9, <4>1 DEF Sockets, KernelTypes
      <4>3. \A i \in 1..Len(backlog') : /\ sock'[backlog'[i]] \in {"queued", "closed"}
                                        /\ \A f \in Fds : conn'[f] # backlog'[i]
        BY <1>1, <3>5, <3>7, <4>1 DEF Sockets
      <4> QED
        BY <3>8, <4>2, <4>3 DEF Sockets
    <3> QED
      BY <1>3, <3>6, <3>10
  <2> QED
    BY <1>7, <2>2, <2>3 DEF Leave
<1> QED
  BY <1>4, <1>5, <1>6, <1>7

\* The tick: some idle clients are removed.
LEMMA TickCore ==
  ASSUME Core, NEW dt \in {0, 1}, NEW due \in BOOLEAN, before_sleep(dt, due)
  PROVE  Core'
<1> DEFINE aged == [f \in Fds |-> IF clients[f].active
                      THEN [clients[f] EXCEPT !.idle = Lesser(@ + dt, Timeout)]
                      ELSE clients[f]]
           gone == IF due THEN TimedOut(aged) ELSE {}
<1>1. clients \in [Fds -> Client] /\ \A f \in Fds : ClientOK(clients[f])
  BY DEF Core, ServerTypes
<1>2. ASSUME NEW f \in Fds
      PROVE  /\ aged[f] \in Client /\ ClientOK(aged[f]) /\ aged[f].active = clients[f].active
             /\ ~clients[f].active => aged[f] = NoClient
  <2>1. CASE clients[f].active
    <3>1. clients[f].idle \in 0..Timeout /\ Timeout \in Nat
      BY <1>1, NetAssumption DEF Client
    <3>2. Lesser(clients[f].idle + dt, Timeout) \in 0..Timeout
      BY <3>1 DEF Lesser
    <3> QED
      BY <1>1, <2>1, <3>2 DEF ClientOK, Client
  <2>2. CASE ~clients[f].active
    BY <1>1, <2>2 DEF Core, BookkeepingAgrees, Active
  <2> QED
    BY <2>1, <2>2
<1>3. aged \in [Fds -> Client]
  BY <1>2
<1>4. gone \in SUBSET Active
  <2>1. TimedOut(aged) \subseteq {f \in Fds : aged[f].active}
    BY DEF TimedOut
  <2> QED
    BY <1>2, <2>1 DEF Active
<1>5. /\ at = "cron" /\ remove_client(gone, aged) /\ at' = "poll"
      /\ UNCHANGED <<batch, busy, backlog, inbox, unread, script, sent, answers, ran, reran>>
  BY DEF before_sleep, clientVars
<1> HIDE DEF aged, gone
<1>6. busy = NoFd /\ ran' \subseteq Requests /\ reran' \subseteq ran'
  BY <1>5 DEF Core, BusyOK, ClientTypes
<1> QED
  BY <1>2, <1>3, <1>4, <1>5, <1>6, RemoveCore

\* Steps of the loop that only move it on.
LEMMA LoopCore ==
  ASSUME Core,
         UNCHANGED <<clients, clients_count, readers, writers, refused, busy, kernelVars, clientVars>>,
         at' \in {"cron", "poll", "events", "killed"}, busy # NoFd => at' = at,
         batch' \subseteq {"read", "write"} \X (Fds \cup {Listener})
  PROVE  Core'
<1> USE DEF Core, kernelVars, clientVars
<1>1. Requests' = Requests /\ Active' = Active
  BY DEF Requests, Active
<1>2. \A x : ClientOK(x)' = ClientOK(x)
  BY <1>1 DEF ClientOK
<1>3. ServerTypes' /\ KernelTypes'
  BY <1>1, <1>2 DEF ServerTypes, KernelTypes
<1>4. ClientTypes' /\ Sockets'
  BY <1>1 DEF ClientTypes, Sockets
<1>5. BookkeepingAgrees' /\ BusyOK'
  BY <1>1 DEF BookkeepingAgrees, BusyOK
<1> QED
  BY <1>3, <1>4, <1>5

LEMMA PollCore ==
  ASSUME Core, el_poll
  PROVE  Core'
<1>1. PICK b \in SUBSET Ready : batch' = b
  BY DEF el_poll
<1>2. Ready \subseteq {"read", "write"} \X (Fds \cup {Listener})
  BY DEF Ready, Core, ServerTypes
<1>3. batch' \subseteq {"read", "write"} \X (Fds \cup {Listener})
  BY <1>1, <1>2
<1>4. busy = NoFd /\ UNCHANGED <<clients, clients_count, readers, writers, refused, busy, kernelVars, clientVars>>
      /\ at' = "events"
  BY DEF el_poll, Core, BusyOK
<1> QED
  BY <1>3, <1>4, LoopCore

\* The descriptor of an event with a handler is a client's.
LEMMA EventClient ==
  ASSUME Core, NEW fd \in Fds
  PROVE  /\ fd \in readers => fd \in Active
         /\ fd \in writers => fd \in Active
         /\ fd \in Active => conn[fd] \in Conns /\ ClientOK(clients[fd]) /\ clients[fd].active
BY DEF Core, BookkeepingAgrees, KernelTypes, ServerTypes, Active

LEMMA ReadCore ==
  ASSUME Core, NEW fd \in Fds, on_read(fd)
  PROVE  Core'
<1> DEFINE s == conn[fd]
           n == Lesser(Len(inbox[s]), ReadCap - Len(clients[fd].buf))
<1>1. /\ at = "events" /\ busy = NoFd /\ fd \in Active /\ batch' \subseteq batch
      /\ UNCHANGED <<at, backlog, unread, script, sent, answers, ran, reran>>
  BY EventClient DEF on_read, Event, Handled, clientVars
<1>2. s \in Conns /\ ClientOK(clients[fd]) /\ clients[fd].active /\ inbox \in [Conns -> Seq(Requests)]
  BY <1>1, EventClient DEF Core, KernelTypes
<1>3. /\ ran' \subseteq Requests /\ reran' \subseteq ran'
      /\ unread' \in [Conns -> 0..RecvCap] /\ answers' \in [Conns -> Seq(Requests)]
  BY <1>1 DEF Core, ClientTypes, KernelTypes
<1>4. ASSUME n > 0, inbox' = [inbox EXCEPT ![s] = SubSeq(@, n + 1, Len(@))], busy' = fd,
             clients' = [clients EXCEPT ![fd].buf = @ \o SubSeq(inbox[s], 1, n), ![fd].idle = 0],
             UNCHANGED <<clients_count, readers, writers, refused, conn, sock>>
      PROVE  Core'
  <2> DEFINE x == [clients[fd] EXCEPT !.buf = @ \o SubSeq(inbox[s], 1, n), !.idle = 0]
  <2>1. Len(clients[fd].buf) \in Nat /\ Len(inbox[s]) \in Nat /\ ReadCap \in Nat /\ inbox[s] \in Seq(Requests)
    BY <1>2, NetAssumption DEF ClientOK
  <2>2. n \in 1..Len(inbox[s])
    BY <1>4, <2>1, SMTT(30) DEF Lesser
  <2>3. SubSeq(inbox[s], 1, n) \in Seq(Requests) /\ SubSeq(inbox[s], n + 1, Len(inbox[s])) \in Seq(Requests)
    BY <2>1, <2>2, PartType
  <2>4. clients[fd].buf \o SubSeq(inbox[s], 1, n) \in Seq(Requests)
    BY <1>2, <2>3, ConcatProperties DEF ClientOK
  <2>5. Requests \subseteq Cell /\ 0 \in 0..Timeout
    BY NetAssumption DEF Requests
  <2>6. clients[fd].buf \o SubSeq(inbox[s], 1, n) \in Seq(Cell)
    BY <2>4, <2>5
  <2> HIDE DEF n
  <2>7. ClientOK(x) /\ x.active
    BY <1>2, <2>4, <2>5, <2>6 DEF ClientOK, Client
  <2>8. clients' = [clients EXCEPT ![fd] = x]
    BY <1>4
  <2>9. inbox' \in [Conns -> Seq(Requests)]
    BY <1>2, <1>4, <2>3
  <2> HIDE DEF x
  <2> QED
    BY <1>1, <1>3, <1>4, <2>7, <2>8, <2>9, TouchCore
<1>5. ASSUME Drop(fd), UNCHANGED <<inbox, busy>>
      PROVE  Core'
  BY <1>1, <1>3, <1>5, DropCore
<1>6. ASSUME UNCHANGED <<clients, clients_count, readers, writers, refused, conn, sock, inbox, busy>>
      PROVE  Core'
  <2>1. UNCHANGED <<kernelVars, clientVars>> /\ batch' \subseteq {"read", "write"} \X (Fds \cup {Listener})
        /\ at' \in {"cron", "poll", "events", "killed"}
    BY <1>1, <1>6 DEF kernelVars, clientVars, Core, ServerTypes
  <2> QED
    BY <1>1, <1>6, <2>1, LoopCore
<1> QED
  BY <1>4, <1>5, <1>6 DEF on_read

LEMMA WriteCore ==
  ASSUME Core, NEW fd \in Fds, on_write(fd)
  PROVE  Core'
<1> DEFINE c == clients[fd]
           data == SubSeq(c.wbuf, c.woff + 1, Len(c.wbuf))
<1>1. /\ at = "events" /\ busy = NoFd /\ fd \in Active /\ UNCHANGED <<inbox, script, sent, ran, reran>>
  BY EventClient DEF on_write, Event
<1>2. conn[fd] \in Conns /\ ClientOK(c) /\ c.active /\ data \in Seq(Requests)
  BY <1>1, EventClient, PartType DEF ClientOK, Client
<1>3. ran' \subseteq Requests /\ reran' \subseteq ran' /\ inbox' \in [Conns -> Seq(Requests)]
  BY <1>1 DEF Core, ClientTypes, KernelTypes
<1> HIDE DEF data
<1>4. ASSUME NEW n \in 0..Len(data), Write(conn[fd], data, n), Handled("write", fd),
             UNCHANGED <<clients_count, readers, conn, at, backlog>>,
             \/ /\ clients' = [clients EXCEPT ![fd].wbuf = <<>>, ![fd].woff = 0]
                /\ el_remove_write(fd) /\ busy' = fd
             \/ /\ clients' = [clients EXCEPT ![fd].woff = c.woff + n]
                /\ UNCHANGED <<writers, refused, busy>>
      PROVE  Core'
  <2>1. /\ answers' \in [Conns -> Seq(Requests)] /\ unread' \in [Conns -> 0..RecvCap]
        /\ \/ sock' = sock
           \/ sock[conn[fd]] = "closed" /\ sock' = [sock EXCEPT ![conn[fd]] = "reset"]
    BY <1>2, <1>4, WriteTypes
  <2>2. Len(data) \in Nat /\ c.woff + n \in Nat
    BY <1>2 DEF ClientOK, Client
  <2>3. PICK x : clients' = [clients EXCEPT ![fd] = x] /\ ClientOK(x) /\ x.active
    <3> DEFINE x1 == [c EXCEPT !.wbuf = <<>>, !.woff = 0]
               x2 == [c EXCEPT !.woff = c.woff + n]
    <3>1. ClientOK(x1) /\ x1.active /\ ClientOK(x2) /\ x2.active
      <4>1. x1 \in Client /\ x1.wbuf = <<>> /\ x1.buf = c.buf /\ x1.active
        <5>1. c \in Client /\ c.active
          BY <1>2 DEF ClientOK
        <5> HIDE DEF c
        <5>2. <<>> \in Seq(Cell) /\ 0 \in Nat
          OBVIOUS
        <5> QED
          BY <5>1, <5>2 DEF Client
      <4>2. x2 \in Client /\ x2.wbuf = c.wbuf /\ x2.buf = c.buf /\ x2.active
        BY <1>2, <2>2 DEF ClientOK, Client
      <4> HIDE DEF x1, x2, c
      <4> QED
        BY <1>2, <4>1, <4>2 DEF ClientOK
    <3>2. clients' = [clients EXCEPT ![fd] = x1] \/ clients' = [clients EXCEPT ![fd] = x2]
      BY <1>4
    <3> HIDE DEF x1, x2
    <3> QED
      BY <3>1, <3>2
  <2>4. batch' \subseteq batch
    BY <1>4 DEF Handled
  <2>5. (writers' = writers \/ writers' = writers \ {fd}) /\ (refused' = refused \/ refused' = refused \ {fd}) /\ busy' \in {NoFd, fd}
    BY <1>1, <1>4 DEF el_remove_write
  <2> QED
    BY <1>1, <1>3, <1>4, <2>1, <2>3, <2>4, <2>5, TouchCore
<1>5. ASSUME WriteError(fd, batch \ {<<"write", fd>>}) PROVE Core'
  <2>1. batch \ {<<"write", fd>>} \in SUBSET batch
    OBVIOUS
  <2> QED
    BY <1>1, <1>3, <1>5, <2>1, WriteErrorCore
<1> QED
  BY <1>4, <1>5 DEF on_write, data

LEMMA QueueCore ==
  ASSUME Core, at = "events", NEW fd \in Active, busy = fd, NEW r \in Requests,
         NEW size \in Nat, queue_write(fd, r, size), UNCHANGED <<inbox, script, sent>>,
         ran' \subseteq Requests, reran' \subseteq ran'
  PROVE  Core'
<1> DEFINE q == Compact(clients[fd])
           answered == Consumed(q, size)
<1>1. fd \in Fds /\ conn[fd] \in Conns /\ ClientTypes /\ ClientOK(clients[fd]) /\ clients[fd].active
  BY EventClient DEF Active, Core
<1>2. ClientOK(q) /\ q.active
  BY <1>1, ClientSteps
<1> HIDE DEF q
<1>3. ClientOK(answered) /\ answered.active
  BY <1>1, <1>2, ClientSteps
<1> HIDE DEF answered
<1>4. ClientOK(Queued(answered, r)) /\ Queued(answered, r).active
  BY <1>1, <1>3, ClientSteps
<1>5. /\ inbox' \in [Conns -> Seq(Requests)]
      /\ unread' = unread => unread' \in [Conns -> 0..RecvCap]
      /\ answers' = answers => answers' \in [Conns -> Seq(Requests)]
  BY DEF Core, ClientTypes, KernelTypes
<1>6. ASSUME clients' = [clients EXCEPT ![fd] = q], busy' = NoFd,
             UNCHANGED <<clients_count, readers, writers, refused, conn, sock, answers, unread, at, batch, backlog>>
      PROVE  Core'
  BY <1>2, <1>5, <1>6, TouchCore
<1>7. ASSUME clients' = [clients EXCEPT ![fd] = Queued(answered, r)], el_add_write(fd),
             UNCHANGED <<clients_count, readers, conn, sock, answers, unread, at, batch, backlog, busy>>
      PROVE  Core'
  BY <1>4, <1>5, <1>7, TouchCore DEF el_add_write
<1>8. ASSUME Write(conn[fd], <<r>>, 1), clients' = [clients EXCEPT ![fd] = answered],
             UNCHANGED <<clients_count, readers, writers, refused, conn, at, batch, backlog, busy>>
      PROVE  Core'
  <2>1. <<r>> \in Seq(Requests)
    OBVIOUS
  <2>2. /\ answers' \in [Conns -> Seq(Requests)] /\ unread' \in [Conns -> 0..RecvCap]
        /\ \/ sock' = sock
           \/ sock[conn[fd]] = "closed" /\ sock' = [sock EXCEPT ![conn[fd]] = "reset"]
    BY <1>1, <1>8, <2>1, WriteTypes
  <2> QED
    BY <1>3, <1>5, <1>8, <2>2, TouchCore
<1>9. ASSUME WriteError(fd, batch) PROVE Core'
  BY <1>9, WriteErrorCore
<1> QED
  BY <1>6, <1>7, <1>8, <1>9 DEF queue_write, q, answered

LEMMA BufferCore ==
  ASSUME Core, process_buffer
  PROVE  Core'
<1> DEFINE fd == busy
           c == clients[fd]
           r == c.buf[1]
<1>1. at = "events" /\ busy # NoFd /\ fd \in Active /\ UNCHANGED <<inbox, script, sent>>
  BY DEF process_buffer, Core, BusyOK
<1>2. fd \in Fds /\ ClientOK(c)
  BY <1>1, EventClient DEF Active
<1>3. ran \subseteq Requests /\ reran \subseteq ran
  BY DEF Core, ClientTypes
<1>4. ASSUME busy' = NoFd,
             UNCHANGED <<clients, clients_count, readers, writers, refused, conn, sock, answers,
                         unread, at, batch, backlog, ran, reran>>
      PROVE  Core'
  <2>1. c.active /\ clients' = [clients EXCEPT ![fd] = c]
    BY <1>1, <1>2, <1>4, EventClient DEF Core, ServerTypes
  <2>2. /\ inbox' \in [Conns -> Seq(Requests)] /\ unread' \in [Conns -> 0..RecvCap]
        /\ answers' \in [Conns -> Seq(Requests)] /\ ran' \subseteq Requests /\ reran' \subseteq ran'
    BY <1>1, <1>4 DEF Core, KernelTypes, ClientTypes
  <2> QED
    BY <1>1, <1>2, <1>4, <2>1, <2>2, TouchCore
<1>5. ASSUME Drop(fd), busy' = NoFd, UNCHANGED <<answers, unread, at, batch, backlog, ran, reran>>
      PROVE  Core'
  BY <1>1, <1>3, <1>5, DropCore
<1>6. ASSUME HasFrame(c), ran' = ran \cup {r}, queue_write(fd, r, FrameSize(r)),
             reran' = IF r \in ran THEN reran \cup {r} ELSE reran
      PROVE  Core'
  <2>1. r \in Requests
    BY <1>2, <1>6, ElementOfSeq DEF HasFrame, ClientOK
  <2>2. FrameSize(r) \in Nat
    BY <2>1, SizeType DEF Core
  <2>3. ran' \subseteq Requests /\ reran' \subseteq ran'
    BY <1>3, <1>6, <2>1
  <2> QED
    BY <1>1, <1>6, <2>1, <2>2, <2>3, QueueCore
<1> QED
  BY <1>4, <1>5, <1>6 DEF process_buffer

LEMMA CoreInit == Init => Core
<1> SUFFICES ASSUME Init PROVE Core
  OBVIOUS
<1> USE DEF Init
<1>1. Active = {} /\ Requests \subseteq Cell
  BY DEF Active, NoClient, Requests
<1>2. NoClient \in Client /\ ClientOK(NoClient)
  BY NetAssumption DEF NoClient, Client, ClientOK
<1>3. ServerTypes
  BY <1>2 DEF ServerTypes
<1>4. KernelTypes
  BY NetAssumption DEF KernelTypes
<1>5. script \in Workloads /\ \A c \in DOMAIN script : Len(script[c]) \in Nat
  BY NetAssumption
<1>6. ClientTypes
  BY <1>5 DEF ClientTypes
<1>7. Sockets /\ BusyOK
  BY DEF Sockets, BusyOK
<1>8. BookkeepingAgrees
  BY <1>1, FS_EmptySet DEF BookkeepingAgrees, Listener, Fds
<1> QED
  BY <1>3, <1>4, <1>6, <1>7, <1>8 DEF Core

LEMMA CoreStep == Core /\ [Next]_vars => Core'
<1> SUFFICES ASSUME Core, [Next]_vars PROVE Core'
  OBVIOUS
<1>1. ASSUME NEW dt \in {0, 1}, NEW due \in BOOLEAN, before_sleep(dt, due) PROVE Core'
  BY <1>1, TickCore
<1>2. ASSUME el_poll PROVE Core'
  BY <1>2, PollCore
<1>3. ASSUME NEW e \in batch, el_skip(e[1], e[2]) PROVE Core'
  <2>1. /\ busy = NoFd /\ UNCHANGED <<clients, clients_count, readers, writers, refused, busy, kernelVars, clientVars>>
        /\ at' \in {"cron", "poll", "events", "killed"}
        /\ batch' \subseteq {"read", "write"} \X (Fds \cup {Listener})
    BY <1>3 DEF el_skip, Event, Handled, Core, ServerTypes
  <2> QED
    BY <2>1, LoopCore
<1>4. ASSUME NEW fd \in Fds, on_read(fd) PROVE Core'
  BY <1>4, ReadCore
<1>5. ASSUME NEW fd \in Fds, on_write(fd) PROVE Core'
  BY <1>5, WriteCore
<1>6. ASSUME on_accept PROVE Core'
  BY <1>6, AcceptCore
<1>7. ASSUME process_buffer PROVE Core'
  BY <1>7, BufferCore
<1>8. ASSUME el_run \/ Halted \/ UNCHANGED vars PROVE Core'
  <2>1. /\ UNCHANGED <<clients, clients_count, readers, writers, refused, busy, kernelVars, clientVars>>
        /\ at' \in {"cron", "poll", "events", "killed"} /\ (busy # NoFd => at' = at)
        /\ batch' \subseteq {"read", "write"} \X (Fds \cup {Listener})
    BY <1>8 DEF el_run, Halted, vars, serverVars, Core, ServerTypes
  <2> QED
    BY <2>1, LoopCore
<1>9. ASSUME NEW c \in Conns, Connect(c) \/ Send(c) \/ Recv(c) \/ Leave(c) PROVE Core'
  BY <1>9, ClientCore
<1> QED
  BY <1>1, <1>2, <1>3, <1>4, <1>5, <1>6, <1>7, <1>8, <1>9 DEF Next, Server

\* The types of the state, whatever clients send and whenever they leave.
THEOREM NetworkingTypeCorrect == Spec => []TypeOK
<1>1. Core => TypeOK
  <2> SUFFICES ASSUME Core PROVE TypeOK
    OBVIOUS
  <2>1. Requests \subseteq Cell
    BY DEF Requests
  <2>2. clients_count \in Nat
    BY FdSets DEF Core, BookkeepingAgrees, Active
  <2>3. inbox \in [Conns -> Seq(Cell)] /\ answers \in [Conns -> Seq(Cell)] /\ ran \subseteq Cell
    BY <2>1 DEF Core, KernelTypes, ClientTypes
  <2> QED
    BY <2>2, <2>3 DEF Core, ServerTypes, KernelTypes, ClientTypes, TypeOK
<1> QED
  BY <1>1, CoreInit, CoreStep, PTL DEF Spec

\* The active clients, clients_count, the handlers and the open descriptors
\* agree after every step: every way remove_client is reached, a descriptor
\* taken over by a new connection, and death by SIGPIPE included.
THEOREM BookkeepingAlwaysAgrees == Spec => []BookkeepingAgrees
<1>1. Core => BookkeepingAgrees
  BY DEF Core
<1> QED
  BY <1>1, CoreInit, CoreStep, PTL DEF Spec

-------------------------------------------------------------------------------
(* Wake-ups                                                                *)

\* The descriptors whose space in the socket is awaited, in vain where kevent
\* refused the registration.
Awaited == writers \cup refused

WakeOK ==
  /\ NoLostWakeup
  /\ \A f \in Active : clients[f].wbuf = <<>> => clients[f].woff = 0

\* A client leaves the others' buffers and handlers alone.
LEMMA RemoveWake ==
  ASSUME Core, WakeOK, NEW gone \in SUBSET Active, NEW cs,
         \A f \in Fds : /\ cs[f].buf = clients[f].buf /\ cs[f].wbuf = clients[f].wbuf
                        /\ cs[f].woff = clients[f].woff /\ cs[f].active = clients[f].active,
         remove_client(gone, cs), script' = script,
         busy' = busy \/ busy \in gone
  PROVE  WakeOK'
<1>1. clients' = [f \in Fds |-> IF f \in gone THEN NoClient ELSE cs[f]]
  BY DEF remove_client
<1>2. Active' = Active \ gone
  BY <1>1 DEF Active, NoClient
<1>3. Awaited' = Awaited \ gone
  BY DEF remove_client, el_remove, Awaited
<1>4. ASSUME NEW f \in Active'
      PROVE  /\ f \in Active /\ f \notin gone /\ clients'[f].buf = clients[f].buf
             /\ clients'[f].wbuf = clients[f].wbuf /\ clients'[f].woff = clients[f].woff
             /\ busy' # f => busy # f
  BY <1>1, <1>2 DEF Active
<1>5. \A f \in Active' : HasFrame(clients[f])' => HasFrame(clients[f])
  BY <1>4 DEF HasFrame, Illegal, FrameSize
<1> QED
  BY <1>3, <1>4, <1>5 DEF WakeOK, NoLostWakeup, Awaited

LEMMA KilledWake ==
  ASSUME Killed
  PROVE  WakeOK'
BY DEF Killed, WakeOK, NoLostWakeup, Active, NoClient, Awaited

\* What a handler owes its client.
Woken(x, ws, b, fd) ==
  /\ x.wbuf # <<>> <=> fd \in ws
  /\ x.woff < Len(x.wbuf) \/ x.wbuf = <<>>
  /\ x.wbuf = <<>> => x.woff = 0
  /\ b # fd /\ HasFrame(x) => fd \in ws

LEMMA TouchWake ==
  ASSUME Core, WakeOK, NEW fd \in Active, NEW x, x.active,
         clients' = [clients EXCEPT ![fd] = x], script' = script,
         Awaited' = Awaited \/ Awaited' = Awaited \cup {fd} \/ Awaited' = Awaited \ {fd},
         busy \in {NoFd, fd}, Woken(x, Awaited', busy', fd)
  PROVE  WakeOK'
<1>1. fd \in Fds /\ clients \in [Fds -> Client]
  BY DEF Active, Core, ServerTypes
<1>2. Active' = Active /\ \A f \in Active \ {fd} : clients'[f] = clients[f] /\ busy # f
  BY <1>1 DEF Active, NoFd, Fds
<1>3. \A y : HasFrame(y)' = HasFrame(y)
  BY DEF HasFrame, Illegal, FrameSize
<1>4. clients'[fd] = x
  BY <1>1
<1>5. ASSUME NEW f \in Active' PROVE Woken(clients'[f], Awaited', busy', f)
  <2>1. CASE f = fd
    BY <1>4, <2>1
  <2>2. CASE f # fd
    BY <1>2, <2>2 DEF Woken, WakeOK, NoLostWakeup, Awaited
  <2> QED
    BY <2>1, <2>2
<1> QED
  BY <1>3, <1>5 DEF WakeOK, NoLostWakeup, Woken, Awaited

LEMMA SameWake ==
  ASSUME WakeOK, UNCHANGED <<clients, writers, refused, busy, script>>
  PROVE  WakeOK'
BY DEF WakeOK, NoLostWakeup, Active, HasFrame, Illegal, FrameSize, Awaited

LEMMA DropWake ==
  ASSUME Core, WakeOK, NEW fd \in Active, Drop(fd), script' = script, busy' = busy \/ busy = fd
  PROVE  WakeOK'
<1>1. {fd} \in SUBSET Active /\ remove_client({fd}, clients)
  BY DEF Drop
<1> QED
  BY <1>1, RemoveWake

LEMMA WriteErrorWake ==
  ASSUME Core, WakeOK, NEW fd \in Active, NEW rest, WriteError(fd, rest), script' = script,
         busy \in {NoFd, fd}
  PROVE  WakeOK'
<1>1. ASSUME Drop(fd), busy' = NoFd PROVE WakeOK'
  BY <1>1, DropWake
<1>2. ASSUME Killed PROVE WakeOK'
  BY <1>2, KilledWake
<1> QED
  BY <1>1, <1>2 DEF WriteError

\* Compaction keeps what is pending, and that something is.
LEMMA CompactWake ==
  ASSUME NEW x, ClientOK(x), x.woff < Len(x.wbuf) \/ x.wbuf = <<>>, x.wbuf = <<>> => x.woff = 0
  PROVE  LET q == Compact(x)
         IN  /\ q.wbuf # <<>> <=> x.wbuf # <<>>
             /\ q.woff < Len(q.wbuf) \/ q.wbuf = <<>>
             /\ q.wbuf = <<>> => q.woff = 0
             /\ q.buf = x.buf
<1>1. x \in Client /\ x.wbuf \in Seq(Cell) /\ x.woff \in Nat /\ Len(x.wbuf) \in Nat
  BY DEF ClientOK, Client
<1>2. CASE Len(x.wbuf) + 1 > WCap /\ x.woff > 0
  <2> DEFINE t == SubSeq(x.wbuf, x.woff + 1, Len(x.wbuf))
  <2>1. t \in Seq(Cell) /\ Len(t) = Len(x.wbuf) - x.woff /\ x.woff < Len(x.wbuf) /\ x.wbuf # <<>>
    <3>1. \A i \in (x.woff + 1)..Len(x.wbuf) : x.wbuf[i] \in Cell
      BY <1>1, ElementOfSeq
    <3> QED
      BY <1>1, <1>2, <3>1, SubSeqProperties
  <2>2. Compact(x) = [x EXCEPT !.wbuf = t, !.woff = 0]
    BY <1>2 DEF Compact
  <2> HIDE DEF t
  <2>3. Compact(x).wbuf = t /\ Compact(x).woff = 0 /\ Compact(x).buf = x.buf
    BY <1>1, <2>2 DEF Client
  <2>4. Len(t) > 0 /\ t # <<>>
    BY <1>1, <2>1
  <2> QED
    BY <2>1, <2>3, <2>4
<1>3. CASE ~(Len(x.wbuf) + 1 > WCap /\ x.woff > 0)
  BY <1>3 DEF Compact
<1> QED
  BY <1>2, <1>3

LEMMA QueueWake ==
  ASSUME Core, WakeOK, NEW fd \in Active, busy = fd, NEW r \in Requests, NEW size \in Nat,
         queue_write(fd, r, size), script' = script
  PROVE  WakeOK'
<1> DEFINE x == clients[fd]
           q == Compact(x)
           answered == Consumed(q, size)
           queued == Queued(answered, r)
<1>1. fd \in Fds /\ ClientTypes /\ ClientOK(x) /\ x.active
  BY EventClient DEF Active, Core
<1>2. Woken(x, Awaited, busy, fd)
  BY DEF WakeOK, NoLostWakeup, Woken, Awaited
<1>3. ClientOK(q) /\ q.active
  BY <1>1, ClientSteps
<1>4. /\ q.wbuf # <<>> <=> fd \in Awaited
      /\ q.woff < Len(q.wbuf) \/ q.wbuf = <<>>
      /\ q.wbuf = <<>> => q.woff = 0
  BY <1>1, <1>2, CompactWake DEF Woken, Awaited
<1> HIDE DEF q
<1>5. /\ ClientOK(answered) /\ answered.active
      /\ answered.wbuf = q.wbuf /\ answered.woff = q.woff
  BY <1>1, <1>3, ClientSteps DEF Consumed, ClientOK, Client
<1> HIDE DEF answered
<1>6. /\ queued.active /\ queued.wbuf = Append(q.wbuf, r) /\ queued.woff = q.woff
  BY <1>1, <1>5, ClientSteps DEF Queued, ClientOK, Client
<1>7. queued.wbuf # <<>> /\ queued.woff < Len(queued.wbuf)
  <2>1. q.wbuf \in Seq(Requests) /\ q.woff \in Nat /\ Len(q.wbuf) \in Nat
    BY <1>3 DEF ClientOK, Client
  <2>2. Append(q.wbuf, r) \in Seq(Requests) /\ Len(Append(q.wbuf, r)) = Len(q.wbuf) + 1
    BY <2>1, AppendProperties
  <2>3. q.woff <= Len(q.wbuf)
    BY <1>4, <2>1
  <2>4. Append(q.wbuf, r) # <<>>
    <3> DEFINE a == Append(q.wbuf, r)
    <3>1. a \in Seq(Requests) /\ Len(a) > 0
      BY <2>1, <2>2
    <3> HIDE DEF a
    <3>2. a # <<>>
      BY <3>1
    <3> QED
      BY <3>2 DEF a
  <2> QED
    BY <1>6, <2>1, <2>2, <2>3, <2>4
<1> HIDE DEF queued
<1>8. ASSUME ~(Len(q.wbuf) + 1 <= WCap), clients' = [clients EXCEPT ![fd] = q], busy' = NoFd,
             UNCHANGED <<writers, refused>>
      PROVE  WakeOK'
  <2>1. q.wbuf # <<>>
    BY <1>3, <1>8, NetAssumption DEF ClientOK
  <2>2. Woken(q, Awaited', busy', fd)
    BY <1>4, <1>8, <2>1 DEF Woken, Awaited
  <2>9. Awaited' = Awaited
    BY <1>8 DEF Awaited
  <2> QED
    BY <1>3, <1>8, <2>2, <2>9, TouchWake
<1>9. ASSUME clients' = [clients EXCEPT ![fd] = queued], el_add_write(fd)
      PROVE  WakeOK'
  <2>1. Awaited' = Awaited \cup {fd}
    BY <1>9 DEF el_add_write, Awaited
  <2>2. Woken(queued, Awaited', busy', fd)
    BY <1>7, <2>1 DEF Woken, Awaited
  <2> QED
    BY <1>6, <1>9, <2>1, <2>2, TouchWake
<1>10. ASSUME q.wbuf = <<>>, clients' = [clients EXCEPT ![fd] = answered], UNCHANGED <<writers, refused, busy>>
       PROVE  WakeOK'
  <2>1. Woken(answered, Awaited', busy', fd)
    BY <1>4, <1>5, <1>10 DEF Woken, Awaited
  <2>9. Awaited' = Awaited
    BY <1>10 DEF Awaited
  <2> QED
    BY <1>5, <1>10, <2>1, <2>9, TouchWake
<1>11. ASSUME WriteError(fd, batch) PROVE WakeOK'
  BY <1>11, WriteErrorWake
<1> QED
  BY <1>8, <1>9, <1>10, <1>11 DEF queue_write, q, answered, queued

LEMMA BufferWake ==
  ASSUME Core, WakeOK, process_buffer
  PROVE  WakeOK'
<1> DEFINE fd == busy
           c == clients[fd]
           r == c.buf[1]
<1>1. busy # NoFd /\ fd \in Active /\ script' = script
  BY DEF process_buffer, Core, BusyOK
<1>2. fd \in Fds /\ ClientOK(c) /\ c.active
  BY <1>1, EventClient DEF Active
<1>3. ASSUME ~HasFrame(c), UNCHANGED <<clients, writers, refused>>
      PROVE  WakeOK'
  <2>1. clients' = [clients EXCEPT ![fd] = c]
    BY <1>2, <1>3 DEF Core, ServerTypes
  <2>2. Woken(c, Awaited', busy', fd)
    BY <1>1, <1>3 DEF WakeOK, NoLostWakeup, Woken, Awaited
  <2>9. Awaited' = Awaited
    BY <1>3 DEF Awaited
  <2> QED
    BY <1>1, <1>2, <1>3, <2>1, <2>2, <2>9, TouchWake
<1>4. ASSUME Drop(fd) PROVE WakeOK'
  BY <1>1, <1>4, DropWake
<1>5. ASSUME HasFrame(c), queue_write(fd, r, FrameSize(r)) PROVE WakeOK'
  <2>1. r \in Requests
    BY <1>2, <1>5, ElementOfSeq DEF HasFrame, ClientOK
  <2>2. FrameSize(r) \in Nat
    BY <2>1, SizeType DEF Core
  <2> QED
    BY <1>1, <1>5, <2>1, <2>2, QueueWake
<1> QED
  BY <1>3, <1>4, <1>5 DEF process_buffer

LEMMA ReadWake ==
  ASSUME Core, WakeOK, NEW fd \in Fds, on_read(fd)
  PROVE  WakeOK'
<1> DEFINE s == conn[fd]
           n == Lesser(Len(inbox[s]), ReadCap - Len(clients[fd].buf))
<1>1. busy = NoFd /\ fd \in Active /\ script' = script
  BY EventClient DEF on_read, Event, clientVars
<1>2. ASSUME clients' = [clients EXCEPT ![fd].buf = @ \o SubSeq(inbox[s], 1, n), ![fd].idle = 0],
             busy' = fd, UNCHANGED <<writers, refused>>
      PROVE  WakeOK'
  <2> DEFINE b == clients[fd].buf \o SubSeq(inbox[s], 1, n)
             x == [clients[fd] EXCEPT !.buf = b, !.idle = 0]
  <2>1. clients' = [clients EXCEPT ![fd] = x]
    BY <1>2
  <2>2. clients[fd] \in Client /\ clients[fd].active
    BY <1>1, EventClient DEF ClientOK
  <2> HIDE DEF b
  <2>3. x.wbuf = clients[fd].wbuf /\ x.woff = clients[fd].woff /\ x.active
    BY <2>2 DEF Client
  <2> HIDE DEF x
  <2>4. Woken(x, Awaited', busy', fd)
    BY <1>1, <1>2, <2>3 DEF WakeOK, NoLostWakeup, Woken, Awaited
  <2>9. Awaited' = Awaited
    BY <1>2 DEF Awaited
  <2> QED
    BY <1>1, <1>2, <2>1, <2>3, <2>4, <2>9, TouchWake
<1>3. ASSUME Drop(fd), UNCHANGED busy PROVE WakeOK'
  BY <1>1, <1>3, DropWake
<1>4. ASSUME UNCHANGED <<clients, writers, refused, busy>> PROVE WakeOK'
  BY <1>1, <1>4, SameWake
<1> QED
  BY <1>2, <1>3, <1>4 DEF on_read

LEMMA WriteWake ==
  ASSUME Core, WakeOK, NEW fd \in Fds, on_write(fd)
  PROVE  WakeOK'
<1> DEFINE c == clients[fd]
<1>1. busy = NoFd /\ fd \in writers /\ fd \in Active /\ script' = script
  BY EventClient DEF on_write, Event
<1>2. c \in Client /\ c.active /\ Woken(c, Awaited, busy, fd)
  BY <1>1, EventClient DEF WakeOK, NoLostWakeup, Woken, ClientOK, Awaited
<1>3. ASSUME clients' = [clients EXCEPT ![fd].wbuf = <<>>, ![fd].woff = 0], el_remove_write(fd), busy' = fd
      PROVE  WakeOK'
  <2> DEFINE x == [c EXCEPT !.wbuf = <<>>, !.woff = 0]
  <2>1. clients' = [clients EXCEPT ![fd] = x]
    BY <1>3
  <2> HIDE DEF c
  <2>2. x.wbuf = <<>> /\ x.woff = 0 /\ x.active
    BY <1>2 DEF Client
  <2>3. Awaited' = Awaited \ {fd}
    BY <1>3 DEF el_remove_write, Awaited
  <2> HIDE DEF x
  <2>4. Woken(x, Awaited', busy', fd)
    BY <1>3, <2>2, <2>3 DEF Woken, Awaited
  <2> QED
    BY <1>1, <2>1, <2>2, <2>3, <2>4, TouchWake
<1>4. ASSUME NEW n \in Nat, c.woff + n < Len(c.wbuf), UNCHANGED <<writers, refused, busy>>,
             clients' = [clients EXCEPT ![fd].woff = c.woff + n]
      PROVE  WakeOK'
  <2> DEFINE x == [c EXCEPT !.woff = c.woff + n]
  <2>1. clients' = [clients EXCEPT ![fd] = x]
    BY <1>4
  <2>2. x.wbuf = c.wbuf /\ x.woff = c.woff + n /\ x.active
    BY <1>2 DEF Client
  <2>3. c.wbuf # <<>>
    BY <1>1, <1>2 DEF Woken, Awaited
  <2> HIDE DEF x, c
  <2>4. Woken(x, Awaited', busy', fd)
    BY <1>1, <1>4, <2>2, <2>3 DEF Woken, Awaited
  <2>9. Awaited' = Awaited
    BY <1>4 DEF Awaited
  <2> QED
    BY <1>1, <1>4, <2>1, <2>2, <2>4, <2>9, TouchWake
<1>5. ASSUME WriteError(fd, batch \ {<<"write", fd>>}) PROVE WakeOK'
  BY <1>1, <1>5, WriteErrorWake
<1>6. Len(SubSeq(c.wbuf, c.woff + 1, Len(c.wbuf))) \in Nat
  BY <1>2, PartType DEF Client
<1> QED
  BY <1>3, <1>4, <1>5, <1>6 DEF on_write

LEMMA AcceptWake ==
  ASSUME Core, WakeOK, on_accept
  PROVE  WakeOK'
<1> DEFINE fd == Lowest
<1>1. UNCHANGED <<writers, refused, busy, script>> /\ busy = NoFd
  BY DEF on_accept, clientVars, Event
<1>2. ASSUME fd \in Fds, clients' = [clients EXCEPT ![fd] = NewClient]
      PROVE  WakeOK'
  <2>1. conn[fd] = NoConn /\ fd \notin Active /\ fd \notin Awaited
    BY <1>2, LowestFree DEF Core, BookkeepingAgrees, Awaited
  <2>2. NoClient \in Client /\ NoClient.wbuf = <<>> /\ NoClient.buf = <<>> /\ NoClient.woff = 0
    BY NetAssumption DEF NoClient, Client
  <2>3. NewClient.wbuf = <<>> /\ NewClient.buf = <<>> /\ NewClient.woff = 0
    BY <2>2 DEF NewClient, Client
  <2>4. \A f \in Active' : (f \in Active /\ f # fd /\ clients'[f] = clients[f]) \/ (f = fd /\ clients'[f] = NewClient)
    BY <1>2 DEF Active, Core, ServerTypes
  <2>5. \A y : HasFrame(y)' = HasFrame(y)
    BY <1>1 DEF HasFrame, Illegal, FrameSize
  <2>6. ~HasFrame(NewClient)
    BY <2>3 DEF HasFrame
  <2> QED
    BY <1>1, <2>1, <2>3, <2>4, <2>5, <2>6 DEF WakeOK, NoLostWakeup, Awaited
<1>3. ASSUME clients' = clients PROVE WakeOK'
  BY <1>1, <1>3, SameWake
<1> QED
  BY <1>2, <1>3 DEF on_accept

LEMMA TickWake ==
  ASSUME Core, WakeOK, NEW dt \in {0, 1}, NEW due \in BOOLEAN, before_sleep(dt, due)
  PROVE  WakeOK'
<1> DEFINE aged == [f \in Fds |-> IF clients[f].active
                      THEN [clients[f] EXCEPT !.idle = Lesser(@ + dt, Timeout)]
                      ELSE clients[f]]
           gone == IF due THEN TimedOut(aged) ELSE {}
<1>1. \A f \in Fds : /\ aged[f].buf = clients[f].buf /\ aged[f].wbuf = clients[f].wbuf
                     /\ aged[f].woff = clients[f].woff /\ aged[f].active = clients[f].active
  BY DEF Core, ServerTypes, Client
<1>2. gone \in SUBSET Active
  <2>1. TimedOut(aged) \subseteq {f \in Fds : aged[f].active}
    BY DEF TimedOut
  <2> QED
    BY <1>1, <2>1 DEF Active
<1>3. remove_client(gone, aged) /\ UNCHANGED <<busy, script>>
  BY DEF before_sleep, clientVars
<1> HIDE DEF aged, gone
<1> QED
  BY <1>1, <1>2, <1>3, RemoveWake

LEMMA WakeStep == Core /\ WakeOK /\ [Next]_vars => WakeOK'
<1> SUFFICES ASSUME Core, WakeOK, [Next]_vars PROVE WakeOK'
  OBVIOUS
<1>1. ASSUME NEW dt \in {0, 1}, NEW due \in BOOLEAN, before_sleep(dt, due) PROVE WakeOK'
  BY <1>1, TickWake
<1>2. ASSUME NEW fd \in Fds, on_read(fd) PROVE WakeOK'
  BY <1>2, ReadWake
<1>3. ASSUME NEW fd \in Fds, on_write(fd) PROVE WakeOK'
  BY <1>3, WriteWake
<1>4. ASSUME on_accept PROVE WakeOK'
  BY <1>4, AcceptWake
<1>5. ASSUME process_buffer PROVE WakeOK'
  BY <1>5, BufferWake
<1>6. ASSUME \/ el_poll \/ el_run \/ Halted \/ UNCHANGED vars
             \/ \E e \in batch : el_skip(e[1], e[2])
             \/ \E c \in Conns : Connect(c) \/ Send(c) \/ Recv(c) \/ Leave(c)
      PROVE  WakeOK'
  <2>1. UNCHANGED <<clients, writers, refused, busy, script>>
    BY <1>6 DEF el_poll, el_run, el_skip, Halted, Connect, Send, Recv, Leave, vars, serverVars, clientVars
  <2> QED
    BY <2>1, SameWake
<1> QED
  BY <1>1, <1>2, <1>3, <1>4, <1>5, <1>6 DEF Next, Server

\* No wake-up is lost: whatever the buffers' sizes and the order of events, a
\* response that waits has a write handler or one that kevent refused to
\* register, and so has a descriptor with a whole request in its read buffer
\* that process_buffer has left.
THEOREM NoWakeupEverLost == Spec => []NoLostWakeup
<1>1. Init => WakeOK
  BY DEF Init, WakeOK, NoLostWakeup, Active, NoClient, Awaited
<1>2. WakeOK => NoLostWakeup
  BY DEF WakeOK
<1> QED
  BY <1>1, <1>2, CoreInit, CoreStep, WakeStep, PTL DEF Spec

-------------------------------------------------------------------------------
(* The flow of requests and answers                                        *)

Unsent(x) == Len(x.wbuf) - x.woff

\* The cells s are those of the requests of c, whose sizes are z, from request
\* m on up to k cells of request last: request r has the places from start[r] on.
Places(c, z, m, last, s, start) ==
  /\ start[m] = 1
  /\ \A r \in m..(last - 1) :
       /\ start[r + 1] = start[r] + z[r] /\ start[r + 1] <= start[last]
       /\ \A i \in 1..Len(s) : start[r] <= i /\ i < start[r + 1] => s[i] = <<c, r>>
  /\ \A i \in 1..Len(s) : start[last] <= i => s[i] = <<c, last>>

Frames(c, z, m, last, k, s) ==
  /\ m \in 1..last
  /\ \E start \in [m..last -> Int] :
       Places(c, z, m, last, s, start) /\ Len(s) = start[last] + k - 1

\* The sizes of the requests before `last`; t is s without its first k cells.
Sized(z, last) == \A r \in 1..(last - 1) : z[r] \in Nat \ {0}
Drops(s, t, k) == Len(t) = Len(s) - k /\ \A i \in 1..Len(t) : t[i] = s[k + i]

Laid(c, m, s) == Frames(c, script[c], m, sent[c].req, sent[c].cells, s)

\* Requests before m were executed; none from m on was; the answers up to m
\* are sent or wait, in order, in the write buffer of x.
Done(c, m) == \A i \in 1..(m - 1) : <<c, i>> \in ran
Once(c, m) == \A i \in Nat : <<c, i>> \in ran => i < m
Pending(c, x, m) ==
  /\ m = Len(answers[c]) + Unsent(x) + 1
  /\ \A j \in 1..Unsent(x) : x.wbuf[x.woff + j] = <<c, Len(answers[c]) + j>>

\* Request m is the next to be executed for descriptor f.
Flow(f, m) ==
  LET c == conn[f]
      x == clients[f]
  IN  /\ Laid(c, m, x.buf \o inbox[c]) /\ Done(c, m)
      /\ sock[c] # "reset" => Pending(c, x, m)
      /\ c \notin Greedy /\ (sock[c] # "reset" \/ busy = f) => Once(c, m)
      /\ c \notin Greedy /\ sock[c] # "reset" /\ busy # f => ~HasFrame(x)

\* The answers that c was sent are its own, in order, and none is missing.
Ordered(c) == \A i \in 1..Len(answers[c]) : answers[c][i] = <<c, i>> /\ <<c, i>> \in ran

\* Nothing was executed for a connection that is not accepted yet.
Fresh(c) ==
  answers[c] = <<>> /\ Laid(c, 1, inbox[c]) /\ \A i \in Nat : <<c, i>> \notin ran

\* A client that is not greedy has at most WCap requests without an answer.
Paced(c) ==
  sent[c].req - (IF sent[c].cells = 0 THEN 1 ELSE 0) - Received(c) <= WCap

FlowOK ==
  /\ AnswersInOrder /\ ExecutedOnce
  /\ \A f \in Active : \E m \in Nat : Flow(f, m)
  /\ \A c \in Conns : sock[c] = "new" => Fresh(c)
  /\ \A i \in 1..Len(backlog) : Fresh(backlog[i])
  /\ \A c \in Conns \ Greedy : Paced(c)

\* One more cell of the last request, and the last cell of it.
LEMMA FramesGrow ==
  ASSUME NEW c, NEW z, NEW m \in Nat, NEW last \in Nat \ {0}, NEW k \in Nat, NEW S, NEW s \in Seq(S),
         NEW t \in Seq(S), Len(t) = Len(s) + 1, t[Len(s) + 1] = <<c, last>>,
         \A i \in 1..Len(s) : t[i] = s[i], z[last] \in Nat \ {0},
         Frames(c, z, m, last, k, s)
  PROVE  /\ Frames(c, z, m, last, k + 1, t)
         /\ k + 1 = z[last] => Frames(c, z, m, last + 1, 0, t)
<1>1. m \in 1..last /\ Len(s) \in Nat
  BY DEF Frames
<1>2. PICK start \in [m..last -> Int] : Places(c, z, m, last, s, start) /\ Len(s) = start[last] + k - 1
  BY DEF Frames
<1>3. start[last] \in Int /\ start[last] <= Len(s) + 1
  BY <1>1, <1>2
<1>4. \A i \in 1..Len(t) : i \in 1..Len(s) \/ i = Len(s) + 1
  BY <1>1
<1>5. \A r \in m..(last - 1) : start[r + 1] \in Int /\ ~(Len(s) + 1 < start[r + 1])
  <2>1. ASSUME NEW r \in m..(last - 1) PROVE start[r + 1] \in Int /\ start[r + 1] <= start[last]
    <3>1. r + 1 \in m..last
      BY <1>1
    <3> QED
      BY <1>2, <3>1 DEF Places
  <2> QED
    BY <1>1, <1>3, <2>1
<1>6. Places(c, z, m, last, t, start)
  <2>1. \A r \in m..(last - 1) : \A i \in 1..Len(t) : start[r] <= i /\ i < start[r + 1] => t[i] = <<c, r>>
    BY <1>2, <1>4, <1>5 DEF Places
  <2>2. \A i \in 1..Len(t) : start[last] <= i => t[i] = <<c, last>>
    BY <1>2, <1>4 DEF Places
  <2> QED
    BY <1>2, <2>1, <2>2 DEF Places
<1>7. Frames(c, z, m, last, k + 1, t)
  <2>1. Len(t) = start[last] + (k + 1) - 1
    BY <1>1, <1>2, <1>3
  <2> QED
    BY <1>1, <1>6, <2>1 DEF Frames
<1>8. ASSUME k + 1 = z[last] PROVE Frames(c, z, m, last + 1, 0, t)
  <2> DEFINE next == [r \in m..(last + 1) |-> IF r = last + 1 THEN start[last] + z[last] ELSE start[r]]
  <2>1. next \in [m..(last + 1) -> Int] /\ m \in 1..(last + 1)
    BY <1>1, <1>3
  <2>2. next[last + 1] = start[last] + z[last] /\ \A r \in m..last : next[r] = start[r]
    BY <1>1
  <2> HIDE DEF next
  <2>3. Len(t) = next[last + 1] + 0 - 1
    BY <1>2, <1>3, <1>8, <2>2, SMTT(30)
  <2>4. ASSUME NEW r \in m..((last + 1) - 1)
        PROVE  /\ next[r + 1] = next[r] + z[r] /\ next[r + 1] <= next[last + 1]
               /\ \A i \in 1..Len(t) : next[r] <= i /\ i < next[r + 1] => t[i] = <<c, r>>
    <3>1. CASE r = last
      <4>1. next[r] = start[last] /\ next[r + 1] = start[last] + z[last]
        BY <1>1, <2>2, <3>1
      <4> QED
        BY <1>3, <1>6, <2>2, <3>1, <4>1 DEF Places
    <3>2. CASE r # last
      <4>1. r \in m..(last - 1) /\ r \in m..last /\ r + 1 \in m..last
        BY <1>1, <3>2
      <4>2. next[r] = start[r] /\ next[r + 1] = start[r + 1] /\ start[r + 1] \in Int
        BY <2>2, <4>1
      <4>3. start[r + 1] <= start[last] + z[last]
        BY <1>2, <1>3, <4>1, <4>2, SMTT(30) DEF Places
      <4> QED
        BY <1>6, <2>2, <4>1, <4>2, <4>3 DEF Places
    <3> QED
      BY <3>1, <3>2
  <2>5. \A i \in 1..Len(t) : ~(next[last + 1] <= i)
    BY <1>3, <2>2, <2>3
  <2>6. next[m] = 1
    BY <1>1, <1>2, <2>2, SMTT(30) DEF Places
  <2>7. Places(c, z, m, last + 1, t, next)
    BY <2>4, <2>5, <2>6 DEF Places
  <2> QED
    BY <2>1, <2>3, <2>7 DEF Frames
<1> QED
  BY <1>7, <1>8

\* The first cell is one of request m.  If all of request m is there, then
\* c has gone on to the next, and what follows are the frames from m + 1 on.
LEMMA FramesFirst ==
  ASSUME NEW c, NEW z, NEW m \in Nat, NEW last \in Nat \ {0}, NEW k \in Nat, NEW S, NEW s \in Seq(S),
         Frames(c, z, m, last, k, s), Sized(z, last), NEW e, e = <<c, m>>
  PROVE  /\ Len(s) > 0 => s[1] = e
         /\ m = last => Len(s) = k
<1>1. m \in 1..last /\ Len(s) \in Nat
  BY DEF Frames
<1>2. PICK start \in [m..last -> Int] : Places(c, z, m, last, s, start) /\ Len(s) = start[last] + k - 1
  BY DEF Frames
<1>3. start[m] = 1
  BY <1>2 DEF Places
<1>4. CASE m = last
  BY <1>1, <1>2, <1>3, <1>4 DEF Places
<1>5. CASE m # last
  <2>1. m \in m..(last - 1) /\ z[m] \in Nat \ {0}
    BY <1>1, <1>5 DEF Sized
  <2>2. start[m + 1] = 1 + z[m]
    BY <1>2, <1>3, <2>1 DEF Places
  <2> QED
    <3>1. \A i \in 1..Len(s) : 1 <= i /\ i < 1 + z[m] => s[i] = <<c, m>>
      BY <1>2, <1>3, <2>1, <2>2 DEF Places
    <3>2. Len(s) > 0 => s[1] = <<c, m>>
      BY <1>1, <2>1, <3>1
    <3> QED
      BY <1>5, <3>2
<1> QED
  BY <1>4, <1>5

LEMMA FramesConsume ==
  ASSUME NEW c, NEW z, NEW m \in Nat, NEW last \in Nat \ {0}, NEW k \in Nat, NEW S, NEW s \in Seq(S),
         NEW t \in Seq(S), Frames(c, z, m, last, k, s), m < last, Sized(z, last), Drops(s, t, z[m])
  PROVE  Frames(c, z, m + 1, last, k, t)
<1>1. m \in 1..last /\ m + 1 \in 1..last /\ Len(s) \in Nat /\ Len(t) \in Nat /\ z[m] \in Nat \ {0}
  BY DEF Frames, Sized
<1>0. Len(t) = Len(s) - z[m] /\ \A i \in 1..Len(t) : t[i] = s[z[m] + i]
  BY DEF Drops
<1>2. PICK start \in [m..last -> Int] : Places(c, z, m, last, s, start) /\ Len(s) = start[last] + k - 1
  BY DEF Frames
<1> DEFINE next == [r \in (m + 1)..last |-> start[r] - z[m]]
<1>3. next \in [(m + 1)..last -> Int] /\ \A r \in (m + 1)..last : next[r] = start[r] - z[m] /\ start[r] \in Int
  BY <1>1
<1> HIDE DEF next
<1>4. next[m + 1] = 1
  <2>1. m \in m..(last - 1) /\ m + 1 \in (m + 1)..last
    BY <1>1
  <2>2. start[m] = 1 /\ start[m + 1] = start[m] + z[m]
    BY <1>2, <2>1 DEF Places
  <2> QED
    BY <1>1, <1>3, <2>1, <2>2
<1>5. \A i \in 1..Len(t) : z[m] + i \in 1..Len(s) /\ t[i] = s[z[m] + i]
  <2>1. PICK b, u, v : b = z[m] /\ u = Len(t) /\ v = Len(s)
    OBVIOUS
  <2>2. b \in Nat /\ u \in Nat /\ v \in Nat /\ u = v - b
    BY <1>0, <1>1, <2>1
  <2>3. \A i \in 1..u : b + i \in 1..v
    BY <2>2
  <2> QED
    BY <1>0, <2>1, <2>3
<1>6. ASSUME NEW r \in (m + 1)..(last - 1)
      PROVE  /\ next[r + 1] = next[r] + z[r] /\ next[r + 1] <= next[last]
             /\ \A i \in 1..Len(t) : next[r] <= i /\ i < next[r + 1] => t[i] = <<c, r>>
  <2>1. r \in m..(last - 1) /\ r \in (m + 1)..last /\ r + 1 \in (m + 1)..last /\ last \in (m + 1)..last
    BY <1>1
  <2>2. /\ next[r] = start[r] - z[m] /\ next[r + 1] = start[r + 1] - z[m] /\ next[last] = start[last] - z[m]
        /\ start[r] \in Int /\ start[r + 1] \in Int /\ start[last] \in Int
    BY <1>3, <2>1
  <2>3. /\ start[r + 1] = start[r] + z[r] /\ start[r + 1] <= start[last]
        /\ \A i \in 1..Len(s) : start[r] <= i /\ i < start[r + 1] => s[i] = <<c, r>>
    BY <1>2, <2>1 DEF Places
  <2>4. next[r + 1] = next[r] + z[r] /\ next[r + 1] <= next[last]
    <3>1. z[r] \in Nat
      BY <1>1, <2>1 DEF Sized
    <3> QED
      BY <1>1, <2>2, <2>3, <3>1, SMTT(60)
  <2>5. ASSUME NEW i \in 1..Len(t), next[r] <= i, i < next[r + 1] PROVE t[i] = <<c, r>>
    <3>1. start[r] <= z[m] + i /\ z[m] + i < start[r + 1]
      BY <1>1, <2>2, <2>5, SMTT(30)
    <3> QED
      BY <1>5, <2>3, <2>5, <3>1
  <2> QED
    BY <2>4, <2>5
<1>7. /\ \A i \in 1..Len(t) : next[last] <= i => t[i] = <<c, last>>
      /\ Len(t) = next[last] + k - 1
  <2>1. next[last] = start[last] - z[m] /\ start[last] \in Int
    BY <1>1, <1>3
  <2>2. \A i \in 1..Len(t) : next[last] <= i => start[last] <= z[m] + i
    BY <1>1, <2>1
  <2>3. \A i \in 1..Len(s) : start[last] <= i => s[i] = <<c, last>>
    BY <1>2 DEF Places
  <2>4. \A i \in 1..Len(t) : next[last] <= i => t[i] = <<c, last>>
    BY <1>5, <2>2, <2>3
  <2>5. Len(s) = start[last] + k - 1 /\ Len(t) = Len(s) - z[m]
    BY <1>0, <1>2
  <2>6. Len(t) = next[last] + k - 1
    <3>1. \A a, b \in Int : (a + k - 1) - b = (a - b) + k - 1
      OBVIOUS
    <3> QED
      BY <1>1, <2>1, <2>5, <3>1
  <2> QED
    BY <2>4, <2>6
<1>8. Places(c, z, m + 1, last, t, next)
  BY <1>4, <1>6, <1>7 DEF Places
<1> QED
  BY <1>1, <1>3, <1>7, <1>8 DEF Frames


\* Reading, consuming and sending, on the read buffer followed by what the
\* kernel holds.
LEMMA ReadMoves ==
  ASSUME NEW S, NEW b \in Seq(S), NEW q \in Seq(S), NEW n \in 0..Len(q)
  PROVE  (b \o SubSeq(q, 1, n)) \o SubSeq(q, n + 1, Len(q)) = b \o q
<1>1. Len(q) \in Nat /\ 1 \in 1..(Len(q) + 1) /\ n \in (1 - 1)..Len(q) /\ Len(q) \in n..Len(q)
  OBVIOUS
<1>2. SubSeq(q, 1, n) \o SubSeq(q, n + 1, Len(q)) = SubSeq(q, 1, Len(q))
  BY <1>1, ConcatAdjacentSubSeq
<1>3. SubSeq(q, 1, Len(q)) = q
  BY SubSeqFull
<1>4. SubSeq(q, 1, n) \in Seq(S) /\ SubSeq(q, n + 1, Len(q)) \in Seq(S)
  BY <1>1, PartType
<1> DEFINE u == SubSeq(q, 1, n)
           v == SubSeq(q, n + 1, Len(q))
<1>5. (b \o u) \o v = b \o (u \o v)
  <2>1. u \in Seq(S) /\ v \in Seq(S)
    BY <1>4
  <2> HIDE DEF u, v
  <2> QED
    BY <2>1, ConcatAssociative, SMTT(30)
<1> QED
  BY <1>2, <1>3, <1>5

LEMMA ConsumeMoves ==
  ASSUME NEW S, NEW b \in Seq(S), NEW q \in Seq(S), NEW k \in 0..Len(b)
  PROVE  LET s == b \o q
             t == SubSeq(b, k + 1, Len(b)) \o q
         IN  s \in Seq(S) /\ t \in Seq(S) /\ Drops(s, t, k)
<1> DEFINE u == SubSeq(b, k + 1, Len(b))
           s == b \o q
           t == u \o q
<1>1. Len(b) \in Nat /\ Len(q) \in Nat /\ k \in Nat /\ k <= Len(b)
  OBVIOUS
<1>2. \A i \in (k + 1)..Len(b) : b[i] \in S
  BY <1>1, ElementOfSeq
<1>3. u \in Seq(S) /\ Len(u) = Len(b) - k /\ \A i \in 1..(Len(b) - k) : u[i] = b[k + i]
  BY <1>1, <1>2, SubSeqProperties
<1> HIDE DEF u
<1>4. /\ s \in Seq(S) /\ Len(s) = Len(b) + Len(q)
      /\ \A i \in 1..(Len(b) + Len(q)) : s[i] = IF i <= Len(b) THEN b[i] ELSE q[i - Len(b)]
  BY ConcatProperties
<1>5. /\ t \in Seq(S) /\ Len(t) = Len(u) + Len(q)
      /\ \A i \in 1..(Len(u) + Len(q)) : t[i] = IF i <= Len(u) THEN u[i] ELSE q[i - Len(u)]
  BY <1>3, ConcatProperties
<1> HIDE DEF s, t
<1>6. ASSUME NEW i \in 1..Len(t) PROVE t[i] = s[k + i]
  <2>1. i \in 1..(Len(u) + Len(q)) /\ k + i \in 1..(Len(b) + Len(q))
    BY <1>1, <1>3, <1>5
  <2>2. CASE i <= Len(u)
    <3>1. k + i <= Len(b) /\ i \in 1..(Len(b) - k)
      BY <1>1, <1>3, <2>1, <2>2
    <3> QED
      BY <1>3, <1>4, <1>5, <2>1, <2>2, <3>1
  <2>3. CASE ~(i <= Len(u))
    <3>1. ~(k + i <= Len(b)) /\ (k + i) - Len(b) = i - Len(u)
      BY <1>1, <1>3, <2>1, <2>3
    <3>2. s[k + i] = q[(k + i) - Len(b)] /\ t[i] = q[i - Len(u)]
      BY <1>4, <1>5, <2>1, <2>3, <3>1
    <3> QED
      BY <3>1, <3>2
  <2> QED
    BY <2>2, <2>3
<1>7. Len(t) = Len(s) - k
  BY <1>1, <1>3, <1>4, <1>5
<1>8. Drops(s, t, k)
  BY <1>6, <1>7 DEF Drops
<1> QED
  BY <1>4, <1>5, <1>8 DEF s, t, u

LEMMA SendMoves ==
  ASSUME NEW S, NEW b \in Seq(S), NEW q \in Seq(S), NEW e \in S
  PROVE  LET s == b \o q
             t == b \o Append(q, e)
         IN  /\ s \in Seq(S) /\ t \in Seq(S) /\ Len(t) = Len(s) + 1 /\ t[Len(s) + 1] = e
             /\ \A i \in 1..Len(s) : t[i] = s[i]
<1> DEFINE u == Append(q, e)
           s == b \o q
           t == b \o u
<1>1. Len(b) \in Nat /\ Len(q) \in Nat
  OBVIOUS
<1>2. u \in Seq(S) /\ Len(u) = Len(q) + 1 /\ u[Len(q) + 1] = e /\ \A i \in 1..Len(q) : u[i] = q[i]
  BY AppendProperties
<1> HIDE DEF u
<1>3. /\ s \in Seq(S) /\ Len(s) = Len(b) + Len(q)
      /\ \A i \in 1..(Len(b) + Len(q)) : s[i] = IF i <= Len(b) THEN b[i] ELSE q[i - Len(b)]
  BY ConcatProperties
<1>4. /\ t \in Seq(S) /\ Len(t) = Len(b) + Len(u)
      /\ \A i \in 1..(Len(b) + Len(u)) : t[i] = IF i <= Len(b) THEN b[i] ELSE u[i - Len(b)]
  BY <1>2, ConcatProperties
<1> HIDE DEF s, t
<1>5. t[Len(s) + 1] = e
  <2>1. /\ Len(s) + 1 \in 1..(Len(b) + Len(u)) /\ ~(Len(s) + 1 <= Len(b))
        /\ (Len(s) + 1) - Len(b) = Len(q) + 1
    BY <1>1, <1>2, <1>3
  <2> QED
    BY <1>2, <1>4, <2>1
<1>6. ASSUME NEW i \in 1..Len(s) PROVE t[i] = s[i]
  <2>1. i \in 1..(Len(b) + Len(q)) /\ i \in 1..(Len(b) + Len(u))
    BY <1>1, <1>2, <1>3
  <2>2. CASE i <= Len(b)
    BY <1>3, <1>4, <2>1, <2>2
  <2>3. CASE ~(i <= Len(b))
    <3>1. i - Len(b) \in 1..Len(q)
      BY <1>1, <2>1, <2>3
    <3>2. t[i] = u[i - Len(b)] /\ s[i] = q[i - Len(b)]
      BY <1>3, <1>4, <2>1, <2>3
    <3> QED
      BY <1>2, <3>1, <3>2
  <2> QED
    BY <2>2, <2>3
<1>7. Len(t) = Len(s) + 1
  BY <1>1, <1>2, <1>3, <1>4
<1> QED
  BY <1>3, <1>4, <1>5, <1>6, <1>7 DEF s, t, u

\* The requests that were sent, and the next one, have sizes.
LEMMA SentTypes ==
  ASSUME Core, NEW c \in Conns, sock[c] # "new"
  PROVE  /\ sent[c].req \in Nat \ {0} /\ sent[c].cells \in Nat
         /\ \A r \in 1..(sent[c].req - 1) : script[c][r] \in Nat \ {0}
         /\ sent[c].req <= Len(script[c]) => script[c][sent[c].req] \in Nat \ {0}
         /\ sent[c].cells > 0 => sent[c].cells < script[c][sent[c].req]
<1>1. /\ c \in DOMAIN script /\ script \in Workloads
      /\ sent[c].req \in Nat \ {0} /\ sent[c].cells \in Nat /\ sent[c].req <= Len(script[c]) + 1
      /\ sent[c].cells > 0 => sent[c].cells < script[c][sent[c].req]
  BY DEF Core, ClientTypes
<1>2. script[c] \in Seq(Nat \ {0}) /\ Len(script[c]) \in Nat
  BY <1>1, NetAssumption
<1>3. \A r \in 1..Len(script[c]) : script[c][r] \in Nat \ {0}
  BY <1>2, ElementOfSeq
<1>4. \A r \in 1..(sent[c].req - 1) : r \in 1..Len(script[c])
  BY <1>1, <1>2
<1> QED
  BY <1>1, <1>2, <1>3, <1>4

\* The next cell that c sends.
LEMMA LaidSend ==
  ASSUME Core, NEW c \in Conns, NEW m \in Nat, NEW b \in Seq(Requests),
         Laid(c, m, b \o inbox[c]), Send(c)
  PROVE  Frames(c, script[c], m, sent'[c].req, sent'[c].cells, b \o inbox'[c])
<1> DEFINE last == sent[c].req
           k == sent[c].cells
           e == <<c, last>>
           q == inbox[c]
<1>1. /\ last <= Len(script[c]) /\ sock[c] # "new"
      /\ sent'[c] = IF k + 1 = script[c][last] THEN [req |-> last + 1, cells |-> 0]
                                               ELSE [req |-> last, cells |-> k + 1]
      /\ inbox'[c] = Append(q, e)
  BY DEF Send, Core, ClientTypes, KernelTypes
<1>2. last \in Nat \ {0} /\ k \in Nat /\ script[c][last] \in Nat \ {0} /\ q \in Seq(Requests)
  BY <1>1, SentTypes DEF Core, KernelTypes
<1>3. e \in Requests
  BY <1>1, <1>2 DEF Requests, Cell, Core, ClientTypes
<1>4. Frames(c, script[c], m, last, k, b \o q)
  BY DEF Laid
<1> HIDE DEF last, k, e, q
<1> DEFINE s == b \o q
           t == b \o Append(q, e)
<1>5. /\ s \in Seq(Requests) /\ t \in Seq(Requests) /\ Len(t) = Len(s) + 1 /\ t[Len(s) + 1] = e
      /\ \A i \in 1..Len(s) : t[i] = s[i]
  BY <1>2, <1>3, SendMoves
<1> HIDE DEF s, t
<1>6. /\ Frames(c, script[c], m, last, k + 1, t)
      /\ k + 1 = script[c][last] => Frames(c, script[c], m, last + 1, 0, t)
  <2>1. Frames(c, script[c], m, last, k, s) /\ t[Len(s) + 1] = <<c, last>>
    BY <1>4, <1>5 DEF s, e
  <2> QED
    BY <1>2, <1>5, <2>1, FramesGrow
<1> QED
  BY <1>1, <1>6 DEF t

\* A whole frame in the read buffer is that of request m, and once it is taken
\* off, the buffer continues with request m + 1.
LEMMA LaidFrame ==
  ASSUME Core, NEW c \in Conns, sock[c] # "new", NEW m \in Nat, NEW b \in Seq(Requests),
         Laid(c, m, b \o inbox[c]), b # <<>>
  PROVE  /\ b[1] = <<c, m>> /\ m \in 1..sent[c].req /\ FrameSize(b[1]) = script[c][m]
         /\ Len(b) >= FrameSize(b[1]) =>
              /\ m < sent[c].req
              /\ Laid(c, m + 1, SubSeq(b, FrameSize(b[1]) + 1, Len(b)) \o inbox[c])
<1> DEFINE last == sent[c].req
           k == sent[c].cells
           q == inbox[c]
           z == script[c]
           s == b \o q
<1>1. last \in Nat \ {0} /\ k \in Nat /\ (k > 0 => k < z[last]) /\ q \in Seq(Requests) /\ Sized(z, last)
  BY SentTypes DEF Core, KernelTypes, Sized
<1>2. k > 0 => z[last] \in Nat
  BY SentTypes DEF Core, ClientTypes
<1>3. Frames(c, z, m, last, k, s)
  BY DEF Laid
<1> HIDE DEF last, k, q, z
<1>4. m \in 1..last /\ Len(b) \in Nat /\ Len(b) > 0 /\ Len(q) \in Nat
  BY <1>1, <1>3 DEF Frames
<1>5. s \in Seq(Requests) /\ Len(s) = Len(b) + Len(q) /\ s[1] = b[1]
  <2>1. 1 \in 1..(Len(b) + Len(q)) /\ 1 <= Len(b)
    BY <1>4
  <2> QED
    BY <1>1, <2>1, ConcatProperties
<1>6. b[1] = <<c, m>> /\ (m = last => Len(s) = k)
  <2> HIDE DEF s
  <2>1. Len(s) > 0
    BY <1>4, <1>5
  <2> DEFINE e == <<c, m>>
  <2>2. e = <<c, m>>
    OBVIOUS
  <2> HIDE DEF e
  <2>3. (Len(s) > 0 => s[1] = e) /\ (m = last => Len(s) = k)
    <3>1. last \in Nat \ {0} /\ k \in Nat /\ s \in Seq(Requests) /\ Sized(z, last)
      BY <1>1, <1>5
    <3> QED
      BY <1>3, <2>2, <3>1, FramesFirst
  <2> QED
    BY <1>5, <2>1, <2>2, <2>3
<1>7. FrameSize(b[1]) = z[m]
  BY <1>6 DEF FrameSize, z
<1>8. ASSUME Len(b) >= z[m] PROVE m < last /\ Frames(c, z, m + 1, last, k, SubSeq(b, z[m] + 1, Len(b)) \o q)
  <2>1. m # last
    <3> SUFFICES ASSUME m = last PROVE FALSE
      OBVIOUS
    <3>1. Len(b) + Len(q) = k /\ k > 0
      BY <1>1, <1>4, <1>5, <1>6
    <3>2. z[m] \in Nat /\ k < z[m]
      BY <1>1, <1>2, <3>1
    <3> QED
      BY <1>1, <1>4, <1>8, <3>1, <3>2
  <2>2. m < last
    BY <1>1, <1>4, <2>1
  <2>3. z[m] \in Nat \ {0} /\ z[m] \in 0..Len(b)
    BY <1>1, <1>4, <1>8, <2>2 DEF Sized
  <2> DEFINE t == SubSeq(b, z[m] + 1, Len(b)) \o q
  <2>4. t \in Seq(Requests) /\ Drops(s, t, z[m])
    BY <1>1, <2>3, ConsumeMoves
  <2> HIDE DEF s, t
  <2>5. Frames(c, z, m + 1, last, k, t)
    BY <1>1, <1>3, <1>5, <2>2, <2>4, FramesConsume
  <2> QED
    BY <2>2, <2>5 DEF t
<1> QED
  BY <1>4, <1>6, <1>7, <1>8 DEF Laid, last, k, q, z


-------------------------------------------------------------------------------
(* What a step leaves alone                                                *)

\* What the flow of descriptor f depends on.
LEMMA FlowSame ==
  ASSUME Core, NEW f \in Fds, NEW m \in Nat, Flow(f, m), script' = script, conn'[f] = conn[f],
         clients'[f].buf = clients[f].buf, clients'[f].wbuf = clients[f].wbuf,
         clients'[f].woff = clients[f].woff,
         inbox'[conn[f]] = inbox[conn[f]], sent'[conn[f]] = sent[conn[f]],
         answers'[conn[f]] = answers[conn[f]],
         sock'[conn[f]] = sock[conn[f]] \/ sock[conn[f]] # "reset",
         \A i \in Nat : <<conn[f], i>> \in ran' <=> <<conn[f], i>> \in ran,
         busy' = f <=> busy = f
  PROVE  Flow(f, m)'
<1> DEFINE c == conn[f]
<1>1. Laid(c, m, clients[f].buf \o inbox[c])'
  BY DEF Flow, Laid
<1>2. Done(c, m)' /\ (Once(c, m) => Once(c, m)')
  <2>1. \A i \in 1..(m - 1) : i \in Nat
    OBVIOUS
  <2> QED
    BY <2>1, Zenon DEF Flow, Done, Once
<1>3. Pending(c, clients[f], m) => Pending(c, clients[f], m)'
  BY DEF Pending, Unsent
<1>4. HasFrame(clients[f])' => HasFrame(clients[f])
  BY DEF HasFrame, Illegal, FrameSize
<1> QED
  BY <1>1, <1>2, <1>3, <1>4 DEF Flow

LEMMA FreshSame ==
  ASSUME NEW c \in Conns, Fresh(c), script' = script, inbox'[c] = inbox[c], sent'[c] = sent[c],
         answers'[c] = answers[c], \A i \in Nat : <<c, i>> \in ran' => <<c, i>> \in ran
  PROVE  Fresh(c)'
BY DEF Fresh, Laid

LEMMA OrderedSame ==
  ASSUME NEW c, Ordered(c), answers'[c] = answers[c], ran \subseteq ran'
  PROVE  Ordered(c)'
BY Zenon DEF Ordered

\* A step that touches the connections in D only.
LEMMA FlowFrame ==
  ASSUME Core, Core', FlowOK, script' = script, ran \subseteq ran', NEW D \in SUBSET Conns,
         \A d \in Conns \ D :
           /\ sock'[d] = sock[d] /\ inbox'[d] = inbox[d] /\ answers'[d] = answers[d]
           /\ unread'[d] = unread[d] /\ sent'[d] = sent[d]
           /\ \A i \in Nat : <<d, i>> \in ran' => <<d, i>> \in ran,
         \A f \in Active' : conn'[f] \notin D =>
           /\ f \in Active /\ conn'[f] = conn[f] /\ (busy' = f <=> busy = f)
           /\ clients'[f].buf = clients[f].buf /\ clients'[f].wbuf = clients[f].wbuf
           /\ clients'[f].woff = clients[f].woff,
         \A f \in Active' : conn'[f] \in D => \E m \in Nat : Flow(f, m)',
         \A i \in 1..Len(backlog') : backlog'[i] \notin D => \E j \in 1..Len(backlog) : backlog'[i] = backlog[j],
         \A d \in D : sock'[d] = "new" \/ (\E i \in 1..Len(backlog') : backlog'[i] = d) => Fresh(d)',
         \A d \in D : Ordered(d)',
         \A d \in D \ Greedy : Paced(d)',
         \A r \in reran' : r \in reran \/ r[1] \in Greedy
  PROVE  FlowOK'
<1>1. AnswersInOrder'
  <2>1. ASSUME NEW d \in Conns \ D PROVE Ordered(d)'
    <3>1. Ordered(d) /\ answers'[d] = answers[d]
      BY DEF FlowOK, AnswersInOrder, Ordered
    <3> QED
      BY <3>1, OrderedSame
  <2> QED
    BY <2>1 DEF AnswersInOrder, Ordered
<1>2. ExecutedOnce'
  BY DEF FlowOK, ExecutedOnce
<1>3. \A f \in Active' : \E m \in Nat : Flow(f, m)'
  <2> SUFFICES ASSUME NEW f \in Active', conn'[f] \notin D PROVE \E m \in Nat : Flow(f, m)'
    OBVIOUS
  <2>1. f \in Active /\ f \in Fds /\ conn[f] \in Conns \ D /\ conn'[f] = conn[f]
    BY EventClient DEF Active
  <2>2. PICK m \in Nat : Flow(f, m)
    BY <2>1 DEF FlowOK
  <2>3. \A i \in Nat : <<conn[f], i>> \in ran' <=> <<conn[f], i>> \in ran
    BY <2>1
  <2>4. Flow(f, m)'
    BY <2>1, <2>2, <2>3, FlowSame
  <2> QED
    BY <2>4
<1>4. \A c \in Conns : sock'[c] = "new" => Fresh(c)'
  <2>1. \A c \in Conns \ D : sock[c] = "new" => Fresh(c)'
    BY FreshSame DEF FlowOK
  <2> QED
    BY <2>1
<1>5. \A i \in 1..Len(backlog') : Fresh(backlog[i])'
  <2> SUFFICES ASSUME NEW i \in 1..Len(backlog'), backlog'[i] \notin D PROVE Fresh(backlog[i])'
    OBVIOUS
  <2>1. backlog'[i] \in Conns \ D
    BY ElementOfSeq DEF Core, KernelTypes
  <2>2. Fresh(backlog'[i])
    BY DEF FlowOK
  <2> QED
    BY <2>1, <2>2, FreshSame
<1>6. \A c \in Conns \ Greedy : Paced(c)'
  BY DEF FlowOK, Paced, Received
<1> QED
  BY <1>1, <1>2, <1>3, <1>4, <1>5, <1>6 DEF FlowOK

LEMMA QuietFlow ==
  ASSUME Core, Core', FlowOK,
         UNCHANGED <<clients, busy, conn, sock, backlog, inbox, unread, script, sent, answers, ran, reran>>
  PROVE  FlowOK'
<1>1. Active' = Active /\ {} \in SUBSET Conns
  BY DEF Active
<1>2. \A i \in 1..Len(backlog') : backlog'[i] \notin {} => \E j \in 1..Len(backlog) : backlog'[i] = backlog[j]
  OBVIOUS
<1> QED
  BY <1>1, <1>2, FlowFrame

\* Connections that the server closes.
LEMMA GoneFlow ==
  ASSUME Core, Core', FlowOK, NEW gone \in SUBSET Active, NEW cs,
         \A f \in Fds : /\ cs[f].buf = clients[f].buf /\ cs[f].wbuf = clients[f].wbuf
                        /\ cs[f].woff = clients[f].woff,
         remove_client(gone, cs), Active' = Active \ gone,
         UNCHANGED <<backlog, inbox, unread, script, sent, answers>>, ran \subseteq ran',
         \A r \in ran' : r \in ran \/ \E f \in gone : r[1] = conn[f],
         \A r \in reran' : r \in reran \/ r[1] \in Greedy,
         busy' = busy \/ (busy \in gone /\ busy' = NoFd)
  PROVE  FlowOK'
<1> DEFINE D == {conn[f] : f \in gone}
<1>1. gone \subseteq Fds /\ D \in SUBSET Conns
  BY EventClient DEF Active
<1>2. clients' = [f \in Fds |-> IF f \in gone THEN NoClient ELSE cs[f]]
      /\ conn' = [f \in Fds |-> IF f \in gone THEN NoConn ELSE conn[f]]
      /\ sock' = [c \in Conns |-> IF \E f \in gone : conn[f] = c THEN "dropped" ELSE sock[c]]
  BY DEF remove_client
<1>3. \A d \in Conns \ D :
           /\ sock'[d] = sock[d] /\ inbox'[d] = inbox[d] /\ answers'[d] = answers[d]
           /\ unread'[d] = unread[d] /\ sent'[d] = sent[d]
           /\ \A i \in Nat : <<d, i>> \in ran' => <<d, i>> \in ran
  <2>1. \A d \in Conns \ D : sock'[d] = sock[d]
    BY <1>2
  <2>2. ASSUME NEW d \in Conns \ D, NEW i \in Nat, <<d, i>> \in ran' PROVE <<d, i>> \in ran
    <3>1. <<d, i>>[1] = d /\ \A f \in gone : conn[f] # d
      OBVIOUS
    <3> QED
      BY <2>2, <3>1
  <2> QED
    BY <2>1, <2>2
<1>4. \A f \in Active' : /\ f \in Active /\ f \in Fds /\ f \notin gone /\ conn'[f] = conn[f] /\ conn[f] \notin D
                         /\ clients'[f].buf = clients[f].buf /\ clients'[f].wbuf = clients[f].wbuf
                         /\ clients'[f].woff = clients[f].woff /\ (busy' = f <=> busy = f)
  <2>1. \A f \in Active' : f \in Active /\ f \in Fds /\ f \notin gone /\ conn'[f] = conn[f] /\ clients'[f] = cs[f]
    BY <1>2 DEF Active
  <2>2. \A f \in Active' : conn[f] \notin D
    BY <2>1 DEF Core, BookkeepingAgrees
  <2>3. \A f \in Active' : busy' = f <=> busy = f
    BY <2>1 DEF NoFd, Fds
  <2> QED
    BY <2>1, <2>2, <2>3
<1>5. \A d \in D : /\ sock'[d] = "dropped" /\ Ordered(d)' /\ (d \notin Greedy => Paced(d)')
                   /\ \A i \in 1..Len(backlog') : backlog'[i] # d
  <2> SUFFICES ASSUME NEW d \in D
               PROVE  /\ sock'[d] = "dropped" /\ Ordered(d)' /\ (d \notin Greedy => Paced(d)')
                      /\ \A i \in 1..Len(backlog') : backlog'[i] # d
    OBVIOUS
  <2>1. PICK f \in gone : d = conn[f]
    OBVIOUS
  <2>2. d \in Conns /\ sock'[d] = "dropped"
    BY <1>1, <1>2, <2>1
  <2>3. Ordered(d)'
    <3>1. Ordered(d)
      BY <2>2 DEF FlowOK, AnswersInOrder, Ordered
    <3> QED
      BY <3>1, OrderedSame
  <2>4. d \notin Greedy => Paced(d)'
    BY <2>2 DEF FlowOK, Paced, Received
  <2>5. \A i \in 1..Len(backlog') : backlog'[i] # d
    BY <1>1, <2>1 DEF Core, Sockets
  <2> QED
    BY <2>2, <2>3, <2>4, <2>5
<1>6. \A i \in 1..Len(backlog') : \E j \in 1..Len(backlog) : backlog'[i] = backlog[j]
  OBVIOUS
<1> HIDE DEF D
<1>7. \A d \in D : sock'[d] = "new" \/ (\E i \in 1..Len(backlog') : backlog'[i] = d) => Fresh(d)'
  BY <1>5
<1>8. \A f \in Active' : conn'[f] \in D => \E m \in Nat : Flow(f, m)'
  BY <1>4
<1>9. \A f \in Active' : conn'[f] \notin D =>
           /\ f \in Active /\ conn'[f] = conn[f] /\ (busy' = f <=> busy = f)
           /\ clients'[f].buf = clients[f].buf /\ clients'[f].wbuf = clients[f].wbuf
           /\ clients'[f].woff = clients[f].woff
  BY <1>4
<1>10. /\ \A d \in D : Ordered(d)'
       /\ \A d \in D \ Greedy : Paced(d)'
  BY <1>5
<1> QED
  BY <1>1, <1>3, <1>6, <1>7, <1>8, <1>9, <1>10, FlowFrame

LEMMA KilledFlow ==
  ASSUME Core, Core', FlowOK, Killed, Active' = {},
         UNCHANGED <<inbox, unread, script, sent, answers>>, ran \subseteq ran',
         \A r \in ran' : r \in ran \/ sock[r[1]] # "new",
         \A r \in reran' : r \in reran \/ r[1] \in Greedy
  PROVE  FlowOK'
<1>1. \A c \in Conns : sock'[c] = "new" => sock[c] = "new"
  BY DEF Killed
<1>2. Len(backlog') = 0
  BY DEF Killed
<1>3. ASSUME NEW c \in Conns, sock'[c] = "new" PROVE Fresh(c)'
  <2>1. Fresh(c)
    BY <1>1, <1>3 DEF FlowOK
  <2>2. \A i \in Nat : <<c, i>>[1] = c
    OBVIOUS
  <2>3. \A i \in Nat : <<c, i>> \in ran' => <<c, i>> \in ran
    BY <1>1, <1>3, <2>2
  <2> QED
    BY <2>1, <2>3, FreshSame
<1>4. ASSUME NEW c \in Conns PROVE Ordered(c)'
  <2>1. Ordered(c)
    BY DEF FlowOK, AnswersInOrder, Ordered
  <2> QED
    BY <2>1, OrderedSame
<1>5. AnswersInOrder' /\ ExecutedOnce'
  BY <1>4 DEF AnswersInOrder, Ordered, ExecutedOnce, FlowOK
<1>6. \A c \in Conns \ Greedy : Paced(c)'
  BY DEF FlowOK, Paced, Received
<1> QED
  BY <1>2, <1>3, <1>5, <1>6 DEF FlowOK

\* The four things a client does.
LEMMA ConnectFlow ==
  ASSUME Core, Core', FlowOK, NEW c \in Conns, Connect(c)
  PROVE  FlowOK'
<1>1. /\ UNCHANGED <<clients, busy, conn, inbox, unread, script, sent, answers, ran, reran>>
      /\ sock[c] = "new" /\ sock' = [sock EXCEPT ![c] = "queued"] /\ backlog' = Append(backlog, c)
  BY DEF Connect, serverVars, clientVars
<1>2. /\ {c} \in SUBSET Conns /\ sock'[c] = "queued" /\ \A d \in Conns \ {c} : sock'[d] = sock[d]
      /\ Active' = Active
  BY <1>1 DEF Core, KernelTypes, Active
<1>3. Fresh(c)' /\ Ordered(c)' /\ (c \notin Greedy => Paced(c)')
  <2>1. Fresh(c) /\ Ordered(c)
    BY <1>1 DEF FlowOK, AnswersInOrder, Ordered
  <2>2. c \notin Greedy => Paced(c)'
    BY <1>1 DEF FlowOK, Paced, Received
  <2> QED
    BY <1>1, <2>1, <2>2, FreshSame, OrderedSame
<1>4. \A i \in 1..Len(backlog') : backlog'[i] \notin {c} => \E j \in 1..Len(backlog) : backlog'[i] = backlog[j]
  <2>1. backlog \in Seq(Conns) /\ Len(backlog) \in Nat
    BY DEF Core, KernelTypes
  <2>2. /\ Len(backlog') = Len(backlog) + 1 /\ backlog'[Len(backlog) + 1] = c
        /\ \A i \in 1..Len(backlog) : backlog'[i] = backlog[i]
    BY <1>1, <2>1, AppendProperties
  <2> QED
    BY <2>1, <2>2
<1>5. \A f \in Active' : ~(conn'[f] \in {c})
  <2>1. \A f \in Active : f \in Fds /\ conn[f] \in Conns
    BY EventClient DEF Active
  <2> QED
    BY <1>1, <1>2, <2>1, NetAssumption DEF Core, Sockets
<1> QED
  BY <1>1, <1>2, <1>3, <1>4, <1>5, FlowFrame, ZenonT(30)

LEMMA SendFlow ==
  ASSUME Core, Core', FlowOK, NEW c \in Conns, Send(c)
  PROVE  FlowOK'
<1>1. /\ UNCHANGED <<clients, busy, conn, sock, backlog, unread, script, answers, ran, reran>>
      /\ sock[c] # "new" /\ sock[c] \in {"queued", "open"}
  BY DEF Send, serverVars
<1>2. /\ {c} \in SUBSET Conns /\ Active' = Active
      /\ \A d \in Conns \ {c} : inbox'[d] = inbox[d] /\ sent'[d] = sent[d]
  BY <1>1 DEF Send, Active, Core, KernelTypes, ClientTypes
<1>3. ASSUME NEW f \in Active', conn'[f] \in {c} PROVE \E m \in Nat : Flow(f, m)'
  <2>1. f \in Active /\ f \in Fds /\ conn[f] = c /\ clients[f].buf \in Seq(Requests)
    BY <1>1, <1>2, <1>3, EventClient DEF Active, ClientOK
  <2>2. PICK m \in Nat : Flow(f, m)
    BY <2>1 DEF FlowOK
  <2>3. Laid(c, m, clients[f].buf \o inbox[c])
    BY <2>1, <2>2 DEF Flow
  <2>4. Frames(c, script[c], m, sent'[c].req, sent'[c].cells, clients[f].buf \o inbox'[c])
    BY <2>1, <2>3, LaidSend
  <2>5. Laid(c, m, clients[f].buf \o inbox[c])'
    BY <1>1, <2>4 DEF Laid
  <2>6. Flow(f, m)'
    BY <1>1, <2>1, <2>2, <2>5 DEF Flow, Done, Once, Pending, Unsent, HasFrame, Illegal, FrameSize
  <2> QED
    BY <2>6
<1>4. ASSUME NEW i \in 1..Len(backlog'), backlog'[i] = c PROVE Fresh(c)'
  <2>1. Fresh(c) /\ inbox[c] \in Seq(Requests) /\ <<>> \in Seq(Requests)
    BY <1>1, <1>4 DEF FlowOK, Core, KernelTypes
  <2>2. <<>> \o inbox[c] = inbox[c]
    BY <2>1, ConcatEmptySeq
  <2>3. Laid(c, 1, <<>> \o inbox[c])
    BY <2>1, <2>2 DEF Fresh
  <2>4. Frames(c, script[c], 1, sent'[c].req, sent'[c].cells, <<>> \o inbox'[c])
    BY <2>1, <2>3, LaidSend
  <2>5. inbox'[c] \in Seq(Requests')
    BY DEF Core, KernelTypes
  <2>6. <<>> \o inbox'[c] = inbox'[c]
    BY <2>5, ConcatEmptySeq
  <2> QED
    BY <1>1, <2>1, <2>4, <2>6 DEF Fresh, Laid
<1>5. Ordered(c)'
  <2>1. Ordered(c)
    BY DEF FlowOK, AnswersInOrder, Ordered
  <2> QED
    BY <1>1, <2>1, OrderedSame
<1>6. ASSUME c \notin Greedy PROVE Paced(c)'
  <2> DEFINE n == sent[c].req
             k == sent[c].cells
             rec == Received(c)
  <2>1. /\ sent'[c] = IF k + 1 = script[c][n] THEN [req |-> n + 1, cells |-> 0]
                                              ELSE [req |-> n, cells |-> k + 1]
        /\ k + 1 = 1 => n - 1 - rec < WCap
    BY <1>6 DEF Send, MaySend, Core, ClientTypes
  <2>2. n - (IF k = 0 THEN 1 ELSE 0) - rec <= WCap
    BY <1>6 DEF FlowOK, Paced
  <2>3. n \in Nat /\ k \in Nat /\ rec \in Int /\ WCap \in Nat
    BY NetAssumption DEF Core, ClientTypes, KernelTypes, Received
  <2>4. n - rec <= WCap
    BY <2>1, <2>2, <2>3
  <2>5. Received(c)' = rec
    BY <1>1 DEF Received
  <2> HIDE DEF n, k, rec
  <2>6. CASE k + 1 = script[c][n]
    <3>1. sent'[c].req = n + 1 /\ sent'[c].cells = 0
      BY <2>1, <2>6
    <3> QED
      BY <2>3, <2>4, <2>5, <3>1 DEF Paced
  <2>7. CASE k + 1 # script[c][n]
    <3>1. sent'[c].req = n /\ sent'[c].cells = k + 1
      BY <2>1, <2>7
    <3> QED
      BY <2>3, <2>4, <2>5, <3>1 DEF Paced
  <2> QED
    BY <2>6, <2>7
<1>7. \A i \in 1..Len(backlog') : backlog'[i] \notin {c} => \E j \in 1..Len(backlog) : backlog'[i] = backlog[j]
  BY <1>1
<1>8. \A d \in {c} : sock'[d] = "new" \/ (\E i \in 1..Len(backlog') : backlog'[i] = d) => Fresh(d)'
  BY <1>1, <1>4
<1> QED
  BY <1>1, <1>2, <1>3, <1>5, <1>6, <1>7, <1>8, FlowFrame

LEMMA RecvFlow ==
  ASSUME Core, Core', FlowOK, NEW c \in Conns, Recv(c)
  PROVE  FlowOK'
<1>1. /\ UNCHANGED <<clients, busy, conn, sock, backlog, inbox, script, sent, answers, ran, reran>>
      /\ unread' = [unread EXCEPT ![c] = @ - 1]
  BY DEF Recv, serverVars, clientVars
<1>2. {c} \in SUBSET Conns /\ Active' = Active /\ \A d \in Conns \ {c} : unread'[d] = unread[d]
  BY <1>1 DEF Active, Core, KernelTypes
<1>3. ASSUME NEW f \in Active', conn'[f] \in {c} PROVE \E m \in Nat : Flow(f, m)'
  <2>1. f \in Active /\ f \in Fds
    BY <1>2 DEF Active
  <2>2. PICK m \in Nat : Flow(f, m)
    BY <2>1 DEF FlowOK
  <2>3. Flow(f, m)'
    BY <1>1, <2>1, <2>2, FlowSame
  <2> QED
    BY <2>3
<1>4. ASSUME sock'[c] = "new" \/ \E i \in 1..Len(backlog') : backlog'[i] = c PROVE Fresh(c)'
  <2>1. Fresh(c)
    BY <1>1, <1>4 DEF FlowOK
  <2> QED
    BY <1>1, <2>1, FreshSame
<1>5. Ordered(c)'
  <2>1. Ordered(c)
    BY DEF FlowOK, AnswersInOrder, Ordered
  <2> QED
    BY <1>1, <2>1, OrderedSame
<1>6. ASSUME c \notin Greedy PROVE Paced(c)'
  <2> DEFINE rec == Received(c)
             n == sent[c].req - (IF sent[c].cells = 0 THEN 1 ELSE 0)
  <2>1. n - rec <= WCap
    BY <1>6 DEF FlowOK, Paced
  <2>2. n \in Int /\ rec \in Int /\ WCap \in Nat /\ Received(c)' = rec + 1
    BY <1>1, NetAssumption DEF Core, ClientTypes, KernelTypes, Received
  <2>3. n' = n
    BY <1>1
  <2> HIDE DEF n, rec
  <2>4. n - (rec + 1) <= WCap
    BY <2>1, <2>2
  <2> QED
    BY <2>2, <2>3, <2>4 DEF Paced, n
<1>7. \A i \in 1..Len(backlog') : backlog'[i] \notin {c} => \E j \in 1..Len(backlog) : backlog'[i] = backlog[j]
  BY <1>1
<1>8. \A d \in {c} : sock'[d] = "new" \/ (\E i \in 1..Len(backlog') : backlog'[i] = d) => Fresh(d)'
  BY <1>4
<1> QED
  BY <1>1, <1>2, <1>3, <1>5, <1>6, <1>7, <1>8, FlowFrame, ZenonT(30)

LEMMA LeaveFlow ==
  ASSUME Core, Core', FlowOK, NEW c \in Conns, Leave(c)
  PROVE  FlowOK'
<1>1. UNCHANGED <<clients, busy, conn, inbox, unread, script, sent, answers, ran, reran>>
  BY DEF Leave, serverVars, clientVars
<1>2. /\ {c} \in SUBSET Conns /\ Active' = Active /\ \A d \in Conns \ {c} : sock'[d] = sock[d]
      /\ sock[c] \in {"queued", "open"} /\ sock'[c] # "new"
  BY <1>1 DEF Leave, Active, Core, KernelTypes
<1>3. \A i \in 1..Len(backlog') : \E j \in 1..Len(backlog) : backlog'[i] = backlog[j]
  <2>1. CASE UNCHANGED backlog
    BY <2>1
  <2>2. ASSUME NEW k \in DOMAIN backlog, backlog' = Without(backlog, k)
        PROVE  \A i \in 1..Len(backlog') : \E j \in 1..Len(backlog) : backlog'[i] = backlog[j]
    <3>1. backlog \in Seq(Conns) /\ Len(backlog) \in Nat /\ k \in 1..Len(backlog)
      BY LenProperties DEF Core, KernelTypes
    <3>2. Len(backlog') = Len(backlog) - 1 /\ \A i \in 1..(Len(backlog) - 1) :
             backlog'[i] = backlog[IF i < k THEN i ELSE i + 1]
      BY <2>2, <3>1, WithoutProperties
    <3>3. \A i \in 1..(Len(backlog) - 1) : (IF i < k THEN i ELSE i + 1) \in 1..Len(backlog)
      BY <3>1
    <3> QED
      BY <3>2, <3>3
  <2> QED
    BY <2>1, <2>2 DEF Leave
<1>4. ASSUME NEW f \in Active', conn'[f] \in {c} PROVE \E m \in Nat : Flow(f, m)'
  <2>1. f \in Active /\ f \in Fds /\ conn[f] = c
    BY <1>1, <1>2, <1>4 DEF Active
  <2>2. PICK m \in Nat : Flow(f, m)
    BY <2>1 DEF FlowOK
  <2>3. Flow(f, m)'
    BY <1>1, <1>2, <2>1, <2>2, FlowSame
  <2> QED
    BY <2>3
<1>5. ASSUME NEW i \in 1..Len(backlog'), backlog'[i] = c PROVE Fresh(c)'
  <2>1. Fresh(c)
    BY <1>3, <1>5 DEF FlowOK
  <2> QED
    BY <1>1, <2>1, FreshSame
<1>6. Ordered(c)'
  <2>1. Ordered(c)
    BY DEF FlowOK, AnswersInOrder, Ordered
  <2> QED
    BY <1>1, <2>1, OrderedSame
<1>7. c \notin Greedy => Paced(c)'
  BY <1>1 DEF FlowOK, Paced, Received
<1>8. \A d \in {c} : sock'[d] = "new" \/ (\E i \in 1..Len(backlog') : backlog'[i] = d) => Fresh(d)'
  BY <1>2, <1>5
<1> QED
  BY <1>1, <1>2, <1>3, <1>4, <1>6, <1>7, <1>8, FlowFrame

-------------------------------------------------------------------------------
(* Handlers and the flow                                                   *)

\* A handler touches the connection of its descriptor only.
LEMMA TouchFlow ==
  ASSUME Core, Core', FlowOK, NEW fd \in Active, NEW x, clients' = [clients EXCEPT ![fd] = x],
         Active' = Active, UNCHANGED <<conn, backlog, script, sent>>,
         \A d \in Conns \ {conn[fd]} : /\ sock'[d] = sock[d] /\ inbox'[d] = inbox[d]
                                       /\ answers'[d] = answers[d] /\ unread'[d] = unread[d],
         ran \subseteq ran', \A r \in ran' : r \in ran \/ r[1] = conn[fd],
         \A r \in reran' : r \in reran \/ r[1] \in Greedy,
         busy \in {NoFd, fd}, busy' \in {NoFd, fd}, sock'[conn[fd]] # "new",
         \E m \in Nat : Flow(fd, m)', Ordered(conn[fd])', conn[fd] \notin Greedy => Paced(conn[fd])'
  PROVE  FlowOK'
<1> DEFINE c == conn[fd]
<1>1. fd \in Fds /\ {c} \in SUBSET Conns /\ clients \in [Fds -> Client]
  BY EventClient DEF Active, Core, ServerTypes
<1>2. ASSUME NEW d \in Conns \ {c}, NEW i \in Nat, <<d, i>> \in ran' PROVE <<d, i>> \in ran
  <2>1. <<d, i>>[1] = d
    OBVIOUS
  <2> QED
    BY <1>2, <2>1
<1>3. \A d \in Conns \ {c} :
        /\ sock'[d] = sock[d] /\ inbox'[d] = inbox[d] /\ answers'[d] = answers[d]
        /\ unread'[d] = unread[d] /\ sent'[d] = sent[d]
        /\ \A i \in Nat : <<d, i>> \in ran' => <<d, i>> \in ran
  BY <1>2
<1>4. \A f \in Active' : conn'[f] \in {c} => f = fd
  BY DEF Core, BookkeepingAgrees
<1>5. \A f \in Active' : conn'[f] \notin {c} =>
        /\ f \in Active /\ conn'[f] = conn[f] /\ (busy' = f <=> busy = f)
        /\ clients'[f].buf = clients[f].buf /\ clients'[f].wbuf = clients[f].wbuf
        /\ clients'[f].woff = clients[f].woff
  BY <1>1 DEF Active, NoFd, Fds
<1>6. \A i \in 1..Len(backlog') : backlog'[i] # c
  BY <1>1 DEF Core, Sockets
<1>7. \A i \in 1..Len(backlog') : backlog'[i] \notin {c} => \E j \in 1..Len(backlog) : backlog'[i] = backlog[j]
  OBVIOUS
<1>8. \A d \in {c} : sock'[d] = "new" \/ (\E i \in 1..Len(backlog') : backlog'[i] = d) => Fresh(d)'
  BY <1>6
<1>9. \A f \in Active' : conn'[f] \in {c} => \E m \in Nat : Flow(f, m)'
  BY <1>4
<1>10. (\A d \in {c} : Ordered(d)') /\ \A d \in {c} \ Greedy : Paced(d)'
  OBVIOUS
<1> HIDE DEF c
<1> QED
  BY <1>1, <1>3, <1>5, <1>7, <1>8, <1>9, <1>10, FlowFrame

LEMMA DropFlow ==
  ASSUME Core, Core', FlowOK, NEW fd \in Active, Drop(fd),
         UNCHANGED <<backlog, inbox, unread, script, sent, answers>>, ran \subseteq ran',
         \A r \in ran' : r \in ran \/ r[1] = conn[fd],
         \A r \in reran' : r \in reran \/ r[1] \in Greedy,
         busy \in {NoFd, fd}, busy' = NoFd
  PROVE  FlowOK'
<1>1. {fd} \in SUBSET Active /\ remove_client({fd}, clients)
  BY DEF Drop
<1>2. Active' = Active \ {fd}
  BY DEF Active, NoClient, Drop, remove_client
<1>3. \A r \in ran' : r \in ran \/ \E f \in {fd} : r[1] = conn[f]
  OBVIOUS
<1>4. busy' = busy \/ (busy \in {fd} /\ busy' = NoFd)
  OBVIOUS
<1> QED
  BY <1>1, <1>2, <1>3, <1>4, GoneFlow

LEMMA WriteErrorFlow ==
  ASSUME Core, Core', FlowOK, NEW fd \in Active, NEW rest, WriteError(fd, rest),
         UNCHANGED <<inbox, script, sent>>, ran \subseteq ran',
         \A r \in ran' : r \in ran \/ r[1] = conn[fd],
         \A r \in reran' : r \in reran \/ r[1] \in Greedy,
         busy \in {NoFd, fd}
  PROVE  FlowOK'
<1>1. ASSUME Drop(fd), busy' = NoFd, UNCHANGED <<backlog, answers, unread>> PROVE FlowOK'
  BY <1>1, DropFlow
<1>2. ASSUME Killed, UNCHANGED <<answers, unread>> PROVE FlowOK'
  <2>1. Active' = {} /\ sock[conn[fd]] # "new"
    BY <1>2 DEF Killed, Active, NoClient, WriteError
  <2>2. \A r \in ran' : r \in ran \/ sock[r[1]] # "new"
    BY <2>1
  <2> QED
    BY <1>2, <2>1, <2>2, KilledFlow
<1> QED
  BY <1>1, <1>2 DEF WriteError

LEMMA AcceptFlow ==
  ASSUME Core, Core', FlowOK, on_accept
  PROVE  FlowOK'
<1>0. PICK c, fd : c = Head(backlog) /\ fd = Lowest
  OBVIOUS
<1>1. UNCHANGED <<writers, refused, at, busy, inbox, unread, script, sent, answers, ran, reran>> /\ busy = NoFd
  BY DEF on_accept, clientVars, Event
<1>2. ASSUME backlog # <<>>
      PROVE  /\ c \in Conns /\ c = backlog[1] /\ 1 \in 1..Len(backlog)
             /\ Len(Tail(backlog)) = Len(backlog) - 1
             /\ \A i \in 1..Len(Tail(backlog)) : Tail(backlog)[i] = backlog[i + 1] /\ i + 1 \in 1..Len(backlog)
             /\ \A i \in 1..Len(Tail(backlog)) : Tail(backlog)[i] # c
             /\ sock[c] \in {"queued", "closed"} /\ \A f \in Fds : conn[f] # c
  <2>1. backlog \in Seq(Conns) /\ Len(backlog) \in Nat
    BY DEF Core, KernelTypes
  <2>2. /\ c \in Conns /\ c = backlog[1] /\ 1 \in 1..Len(backlog)
        /\ Len(Tail(backlog)) = Len(backlog) - 1
        /\ \A i \in 1..Len(Tail(backlog)) : Tail(backlog)[i] = backlog[i + 1] /\ i + 1 \in 1..Len(backlog)
    BY <1>0, <1>2, <2>1, HeadTailProperties
  <2>3. \A i \in 1..Len(Tail(backlog)) : i + 1 # 1
    BY <2>1, <2>2
  <2> QED
    BY <2>2, <2>3 DEF Core, Sockets
<1>3. ASSUME backlog # <<>>, backlog' = Tail(backlog)
      PROVE  /\ Fresh(c) /\ Ordered(c)' /\ (c \notin Greedy => Paced(c)')
             /\ \A i \in 1..Len(backlog') : backlog'[i] # c
             /\ \A i \in 1..Len(backlog') : backlog'[i] \notin {c} => \E j \in 1..Len(backlog) : backlog'[i] = backlog[j]
  <2>1. Fresh(c) /\ Ordered(c)
    BY <1>2, <1>3 DEF FlowOK, AnswersInOrder, Ordered
  <2>2. Ordered(c)'
    BY <1>1, <2>1, OrderedSame
  <2>3. c \notin Greedy => Paced(c)'
    BY <1>1, <1>2, <1>3 DEF FlowOK, Paced, Received
  <2>4. \A i \in 1..Len(backlog') : backlog'[i] # c /\ \E j \in 1..Len(backlog) : backlog'[i] = backlog[j]
    BY <1>2, <1>3
  <2> QED
    BY <2>1, <2>2, <2>3, <2>4
<1>4. ASSUME backlog # <<>>, fd \in Fds, clients' = [clients EXCEPT ![fd] = NewClient],
             conn' = [conn EXCEPT ![fd] = c], backlog' = Tail(backlog),
             sock' = IF sock[c] = "queued" THEN [sock EXCEPT ![c] = "open"] ELSE sock
      PROVE  FlowOK'
  <2>1. clients \in [Fds -> Client] /\ conn \in [Fds -> Conns \cup {NoConn}] 
        /\ sock \in [Conns -> {"new", "queued", "open", "closed", "reset", "dropped"}]
    BY DEF Core, ServerTypes, KernelTypes
  <2>2. /\ {c} \in SUBSET Conns /\ \A d \in Conns \ {c} : sock'[d] = sock[d]
        /\ sock'[c] \in {"open", "closed"}
    BY <1>2, <1>4, <2>1
  <2>3. \A f \in Active' : (f = fd \/ f \in Active) /\ f \in Fds
    BY <1>4, <2>1 DEF Active
  <2>4. \A f \in Active' : conn'[f] \in {c} => f = fd
    BY <1>2, <1>4, <2>1, <2>3
  <2>5. \A f \in Active' : conn'[f] \notin {c} =>
          /\ f \in Active /\ conn'[f] = conn[f] /\ (busy' = f <=> busy = f)
          /\ clients'[f].buf = clients[f].buf /\ clients'[f].wbuf = clients[f].wbuf
          /\ clients'[f].woff = clients[f].woff
    BY <1>1, <1>4, <2>1, <2>3
  <2>6. clients'[fd] = NewClient /\ conn'[fd] = c
    BY <1>4, <2>1
  <2>7. Flow(fd, 1)'
    <3>1. NoClient \in Client /\ NoClient.wbuf = <<>> /\ NoClient.buf = <<>> /\ NoClient.woff = 0
      BY NetAssumption DEF NoClient, Client
    <3>2. NewClient.wbuf = <<>> /\ NewClient.buf = <<>> /\ NewClient.woff = 0
      BY <3>1 DEF NewClient, Client
    <3>3. Fresh(c) /\ inbox[c] \in Seq(Requests)
      BY <1>2, <1>3, <1>4 DEF Core, KernelTypes
    <3>4. <<>> \o inbox[c] = inbox[c]
      BY <3>3, ConcatEmptySeq
    <3>5. Laid(c, 1, <<>> \o inbox[c])'
      BY <1>1, <3>3, <3>4 DEF Fresh, Laid
    <3>6. Done(c, 1)' /\ Once(c, 1)'
      BY <1>1, <3>3 DEF Done, Once, Fresh
    <3>7. Pending(c, NewClient, 1)'
      BY <1>1, <3>2, <3>3 DEF Pending, Unsent, Fresh
    <3>8. ~HasFrame(NewClient)'
      BY <3>2 DEF HasFrame
    <3> QED
      BY <2>6, <3>2, <3>5, <3>6, <3>7, <3>8 DEF Flow
  <2>8. \A f \in Active' : conn'[f] \in {c} => \E m \in Nat : Flow(f, m)'
    BY <2>4, <2>7
  <2>9. \A d \in {c} : sock'[d] = "new" \/ (\E i \in 1..Len(backlog') : backlog'[i] = d) => Fresh(d)'
    BY <1>3, <1>4, <2>2
  <2>10. (\A d \in {c} : Ordered(d)') /\ \A d \in {c} \ Greedy : Paced(d)'
    BY <1>3, <1>4
  <2>11. \A d \in Conns \ {c} :
           /\ sock'[d] = sock[d] /\ inbox'[d] = inbox[d] /\ answers'[d] = answers[d]
           /\ unread'[d] = unread[d] /\ sent'[d] = sent[d]
           /\ \A i \in Nat : <<d, i>> \in ran' => <<d, i>> \in ran
    BY <1>1, <2>2
  <2> QED
    BY <1>1, <1>3, <1>4, <2>2, <2>5, <2>8, <2>9, <2>10, <2>11, FlowFrame
<1>5. ASSUME backlog # <<>>, sock' = [sock EXCEPT ![c] = "dropped"], backlog' = Tail(backlog),
             UNCHANGED <<clients, conn>>
      PROVE  FlowOK'
  <2>1. /\ {c} \in SUBSET Conns /\ (\A d \in Conns \ {c} : sock'[d] = sock[d]) /\ sock'[c] = "dropped"
        /\ Active' = Active
    BY <1>2, <1>5 DEF Core, KernelTypes, Active
  <2>2. \A f \in Active' : conn'[f] \notin {c}
    BY <1>2, <1>5, <2>1 DEF Active
  <2>3. \A d \in {c} : sock'[d] = "new" \/ (\E i \in 1..Len(backlog') : backlog'[i] = d) => Fresh(d)'
    BY <1>3, <1>5, <2>1
  <2>4. (\A d \in {c} : Ordered(d)') /\ \A d \in {c} \ Greedy : Paced(d)'
    BY <1>3, <1>5
  <2> QED
    BY <1>1, <1>3, <1>5, <2>1, <2>2, <2>3, <2>4, FlowFrame
<1>6. ASSUME UNCHANGED <<clients, conn, sock, backlog>> PROVE FlowOK'
  BY <1>1, <1>6, QuietFlow
<1> QED
  BY <1>0, <1>4, <1>5, <1>6 DEF on_accept

LEMMA ReadFlow ==
  ASSUME Core, Core', FlowOK, NEW fd \in Fds, on_read(fd)
  PROVE  FlowOK'
<1> DEFINE s == conn[fd]
           n == Lesser(Len(inbox[s]), ReadCap - Len(clients[fd].buf))
<1>1. /\ at = "events" /\ busy = NoFd /\ fd \in Active
      /\ UNCHANGED <<at, backlog, unread, script, sent, answers, ran, reran>>
  BY EventClient DEF on_read, Event, Handled, clientVars
<1>2. /\ s \in Conns /\ ClientOK(clients[fd]) /\ clients[fd].active /\ inbox \in [Conns -> Seq(Requests)]
      /\ sock[s] \in {"open", "closed", "reset"}
  <2>1. s \in Conns /\ inbox \in [Conns -> Seq(Requests)]
    BY <1>1, EventClient, NetAssumption DEF Core, KernelTypes
  <2>2. ClientOK(clients[fd]) /\ clients[fd].active
    BY <1>1, EventClient
  <2>3. s # NoConn
    BY <2>1, NetAssumption
  <2>4. sock[s] \in {"open", "closed", "reset"}
    BY <2>3 DEF Core, Sockets
  <2> QED
    BY <2>1, <2>2, <2>4
<1>3. ASSUME n > 0, inbox' = [inbox EXCEPT ![s] = SubSeq(@, n + 1, Len(@))], busy' = fd, sock[s] # "reset",
             clients' = [clients EXCEPT ![fd].buf = @ \o SubSeq(inbox[s], 1, n), ![fd].idle = 0],
             UNCHANGED <<conn, sock>>
      PROVE  FlowOK'
  <2> DEFINE b == clients[fd].buf \o SubSeq(inbox[s], 1, n)
             x == [clients[fd] EXCEPT !.buf = b, !.idle = 0]
  <2>1. clients' = [clients EXCEPT ![fd] = x]
    BY <1>3
  <2>2. Len(clients[fd].buf) \in Nat /\ Len(inbox[s]) \in Nat /\ ReadCap \in Nat /\ inbox[s] \in Seq(Requests)
        /\ clients[fd].buf \in Seq(Requests) /\ clients[fd] \in Client /\ clients \in [Fds -> Client]
    BY <1>2, NetAssumption DEF ClientOK, Core, ServerTypes
  <2>3. n \in 0..Len(inbox[s])
    BY <1>3, <2>2 DEF Lesser
  <2>4. inbox'[s] = SubSeq(inbox[s], n + 1, Len(inbox[s])) /\ \A d \in Conns \ {s} : inbox'[d] = inbox[d]
    BY <1>2, <1>3
  <2> HIDE DEF n
  <2>5. b \o inbox'[s] = clients[fd].buf \o inbox[s]
    BY <2>2, <2>3, <2>4, ReadMoves, ZenonT(30)
  <2> HIDE DEF b
  <2>6. x.buf = b /\ x.wbuf = clients[fd].wbuf /\ x.woff = clients[fd].woff /\ x.active
    BY <1>2, <2>2 DEF Client
  <2> HIDE DEF x
  <2>7. clients'[fd] = x /\ Active' = Active
    BY <1>2, <2>1, <2>2, <2>6 DEF Active
  <2>8. PICK m \in Nat : Flow(fd, m)
    BY <1>1 DEF FlowOK
  <2>9. Flow(fd, m)'
    <3>1. Laid(s, m, clients[fd].buf \o inbox[s])'
      BY <1>1, <1>3, <2>5, <2>6, <2>7, <2>8 DEF Flow, Laid
    <3>2. Done(s, m)' /\ (Once(s, m) => Once(s, m)')
      BY <1>1, <1>3, <2>8 DEF Flow, Done, Once
    <3>3. Pending(s, clients[fd], m)'
      BY <1>1, <1>3, <2>6, <2>7, <2>8 DEF Flow, Pending, Unsent
    <3> QED
      BY <1>3, <2>8, <3>1, <3>2, <3>3 DEF Flow
  <2>10. Ordered(s)' /\ (s \notin Greedy => Paced(s)')
    <3>1. Ordered(s)
      BY <1>2 DEF FlowOK, AnswersInOrder, Ordered
    <3> QED
      BY <1>1, <1>2, <1>3, <3>1, OrderedSame DEF FlowOK, Paced, Received
  <2>11. \A d \in Conns \ {s} : sock'[d] = sock[d] /\ inbox'[d] = inbox[d]
                               /\ answers'[d] = answers[d] /\ unread'[d] = unread[d]
    BY <1>1, <1>3, <2>4
  <2>12. sock'[s] # "new"
    BY <1>2, <1>3
  <2> QED
    BY <1>1, <1>3, <2>1, <2>7, <2>9, <2>10, <2>11, <2>12, TouchFlow
<1>4. ASSUME Drop(fd), UNCHANGED <<inbox, busy>> PROVE FlowOK'
  BY <1>1, <1>4, DropFlow
<1>5. ASSUME UNCHANGED <<clients, conn, sock, inbox, busy>> PROVE FlowOK'
  BY <1>1, <1>5, QuietFlow
<1> QED
  BY <1>3, <1>4, <1>5 DEF on_read

\* z is a with the first n of the elements of w from place o + 1 on.
Moved(z, a, w, o, n) ==
  /\ Len(z) = Len(a) + n
  /\ \A i \in 1..Len(a) : z[i] = a[i]
  /\ \A j \in 1..n : z[Len(a) + j] = w[o + j]

LEMMA PartMoves ==
  ASSUME NEW S, NEW a \in Seq(S), NEW w \in Seq(S), NEW o \in Nat, NEW n \in Nat, o + n <= Len(w)
  PROVE  Moved(a \o SubSeq(SubSeq(w, o + 1, Len(w)), 1, n), a, w, o, n)
<1>0. PICK z : z = a \o SubSeq(SubSeq(w, o + 1, Len(w)), 1, n)
  OBVIOUS
<1> DEFINE data == SubSeq(w, o + 1, Len(w))
           part == SubSeq(data, 1, n)
<1>1. Len(a) \in Nat /\ Len(w) \in Nat
  OBVIOUS
<1>2. data \in Seq(S) /\ Len(data) = Len(w) - o /\ \A j \in 1..(Len(w) - o) : data[j] = w[o + j]
  <2>1. \A i \in (o + 1)..Len(w) : w[i] \in S
    BY <1>1, ElementOfSeq
  <2>2. /\ data \in Seq(S) /\ Len(data) = IF o + 1 <= Len(w) THEN Len(w) - (o + 1) + 1 ELSE 0
        /\ \A i \in 1..(Len(w) - (o + 1) + 1) : data[i] = w[(o + 1) + i - 1]
    BY <1>1, <2>1, SubSeqProperties
  <2> HIDE DEF data
  <2>3. \A i \in 1..(Len(w) - o) : i \in 1..(Len(w) - (o + 1) + 1) /\ (o + 1) + i - 1 = o + i
    BY <1>1
  <2> QED
    BY <1>1, <2>2, <2>3
<1> HIDE DEF data
<1>3. part \in Seq(S) /\ Len(part) = n /\ \A j \in 1..n : part[j] = data[j]
  <2>1. \A i \in 1..n : i \in 1..Len(data) /\ data[i] \in S
    BY <1>1, <1>2, ElementOfSeq
  <2> QED
    BY <1>1, <1>2, <2>1, SubSeqProperties
<1>4. z = a \o part
  BY <1>0 DEF data
<1> HIDE DEF part
<1>5. /\ Len(z) = Len(a) + Len(part)
      /\ \A i \in 1..(Len(a) + Len(part)) : z[i] = IF i <= Len(a) THEN a[i] ELSE part[i - Len(a)]
  BY <1>3, <1>4, ConcatProperties
<1>6. \A i \in 1..Len(a) : z[i] = a[i]
  BY <1>1, <1>3, <1>5
<1>7. ASSUME NEW j \in 1..n PROVE z[Len(a) + j] = w[o + j]
  <2>1. Len(a) + j \in 1..(Len(a) + Len(part)) /\ ~(Len(a) + j <= Len(a)) /\ (Len(a) + j) - Len(a) = j
    BY <1>1, <1>3
  <2>2. z[Len(a) + j] = part[j]
    BY <1>5, <2>1
  <2>3. j \in 1..(Len(w) - o)
    BY <1>1
  <2> QED
    BY <1>2, <1>3, <2>2, <2>3
<1> QED
  BY <1>0, <1>3, <1>5, <1>6, <1>7 DEF Moved

\* n of the answers that are pending for c go out; the rest waits.
LEMMA SentOn ==
  ASSUME Core, NEW c \in Conns, NEW x \in Client, NEW n \in Nat, x.woff + n <= Len(x.wbuf),
         NEW m \in Nat, Pending(c, x, m), Done(c, m), Ordered(c), ran \subseteq ran',
         answers'[c] = answers[c] \o SubSeq(SubSeq(x.wbuf, x.woff + 1, Len(x.wbuf)), 1, n)
  PROVE  /\ Ordered(c)' /\ Len(answers'[c]) = Len(answers[c]) + n
         /\ \A j \in 1..(Unsent(x) - n) : x.wbuf[x.woff + n + j] = <<c, Len(answers'[c]) + j>>
<1>0. PICK a, z, w, o, u : /\ a = answers[c] /\ z = answers'[c] /\ w = x.wbuf /\ o = x.woff
                           /\ u = Unsent(x)
  OBVIOUS
<1>1. a \in Seq(Cell) /\ w \in Seq(Cell) /\ o \in Nat /\ o + n <= Len(w)
  <2>1. Requests \subseteq Cell /\ answers[c] \in Seq(Requests)
    BY DEF Requests, Core, ClientTypes
  <2>2. answers[c] \in Seq(Cell)
    BY <2>1
  <2> QED
    BY <1>0, <2>2 DEF Client
<1>2. /\ Len(z) = Len(a) + n
      /\ \A i \in 1..Len(a) : z[i] = a[i]
      /\ \A j \in 1..n : z[Len(a) + j] = w[o + j]
  <2>1. z = a \o SubSeq(SubSeq(w, o + 1, Len(w)), 1, n)
    BY <1>0
  <2>2. Moved(z, a, w, o, n)
    BY <1>1, <2>1, PartMoves
  <2> QED
    BY <2>2 DEF Moved
<1>3. Len(a) \in Nat /\ Len(w) \in Nat /\ u = Len(w) - o /\ u \in Nat /\ n <= u
  BY <1>0, <1>1 DEF Unsent
<1>4. m = Len(a) + u + 1 /\ \A j \in 1..u : w[o + j] = <<c, Len(a) + j>>
  BY <1>0 DEF Pending
<1>5. \A i \in 1..Len(a) : a[i] = <<c, i>> /\ <<c, i>> \in ran
  BY <1>0 DEF Ordered
<1>6. ASSUME NEW i \in 1..Len(z) PROVE z[i] = <<c, i>> /\ <<c, i>> \in ran
  <2>1. CASE i <= Len(a)
    <3>1. i \in 1..Len(a)
      BY <1>3, <2>1
    <3> QED
      BY <1>2, <1>5, <3>1
  <2>2. CASE ~(i <= Len(a))
    <3>1. i - Len(a) \in 1..n /\ i - Len(a) \in 1..u /\ Len(a) + (i - Len(a)) = i /\ i \in 1..(m - 1)
      BY <1>2, <1>3, <1>4, <2>2
    <3>2. PICK j : j = i - Len(a)
      OBVIOUS
    <3>3. z[Len(a) + j] = w[o + j] /\ w[o + j] = <<c, Len(a) + j>>
      BY <1>2, <1>4, <3>1, <3>2
    <3>4. <<c, i>> \in ran
      BY <3>1 DEF Done
    <3> QED
      BY <3>1, <3>2, <3>3, <3>4
  <2> QED
    BY <2>1, <2>2
<1>7. Ordered(c)'
  BY <1>0, <1>6 DEF Ordered
<1>8. ASSUME NEW j \in 1..(u - n) PROVE w[o + n + j] = <<c, Len(z) + j>>
  <2>1. n + j \in 1..u /\ o + (n + j) = o + n + j /\ Len(a) + (n + j) = Len(z) + j
    BY <1>1, <1>2, <1>3
  <2>2. w[o + (n + j)] = <<c, Len(a) + (n + j)>>
    BY <1>4, <2>1
  <2> QED
    BY <2>1, <2>2
<1> QED
  BY <1>0, <1>2, <1>7, <1>8

\* Writing moves as many answers from the server to the kernel.
LEMMA WritePaced ==
  ASSUME Core, FlowOK, NEW c \in Conns \ Greedy, NEW n \in Nat, sent' = sent,
         Len(answers'[c]) = Len(answers[c]) + n, unread'[c] = unread[c] + n
  PROVE  Paced(c)'
<1>1. Paced(c) /\ Len(answers[c]) \in Nat /\ unread[c] \in Int
  BY DEF FlowOK, Core, ClientTypes, KernelTypes
<1>2. Received(c)' = Received(c)
  BY <1>1 DEF Received
<1> QED
  BY <1>1, <1>2 DEF Paced

LEMMA WriteFlow ==
  ASSUME Core, Core', WakeOK, FlowOK, NEW fd \in Fds, on_write(fd)
  PROVE  FlowOK'
<1>0. PICK c, x : c = conn[fd] /\ x = clients[fd]
  OBVIOUS
<1> DEFINE data == SubSeq(x.wbuf, x.woff + 1, Len(x.wbuf))
<1>1. /\ busy = NoFd /\ fd \in writers /\ fd \in Active /\ UNCHANGED <<inbox, script, sent, ran, reran>>
  BY EventClient DEF on_write, Event
<1>2. /\ c \in Conns /\ x \in Client /\ x.active /\ sock[c] # "new" /\ Ordered(c)
      /\ x.woff \in Nat /\ Len(x.wbuf) \in Nat /\ x.woff < Len(x.wbuf) /\ clients \in [Fds -> Client]
  <2>1. c \in Conns /\ x \in Client /\ x.active /\ Ordered(c) /\ clients \in [Fds -> Client]
    BY <1>0, <1>1, EventClient DEF FlowOK, AnswersInOrder, Ordered, ClientOK, Core, ServerTypes
  <2>2. x.woff < Len(x.wbuf)
    BY <1>0, <1>1 DEF WakeOK, NoLostWakeup, Awaited
  <2>3. sock[c] # "new"
    BY <1>0, <2>1, NetAssumption DEF Core, Sockets
  <2> QED
    BY <2>1, <2>2, <2>3 DEF Client
<1>3. Len(data) = Len(x.wbuf) - x.woff
  <2>1. \A i \in (x.woff + 1)..Len(x.wbuf) : x.wbuf[i] \in Cell
    BY <1>2, ElementOfSeq DEF Client
  <2> QED
    BY <1>2, <2>1, SubSeqProperties, SMTT(30)
<1>4. PICK m \in Nat : Flow(fd, m)
  BY <1>1 DEF FlowOK
<1>5. /\ Laid(c, m, x.buf \o inbox[c]) /\ Done(c, m) /\ (sock[c] # "reset" => Pending(c, x, m))
      /\ c \notin Greedy /\ sock[c] # "reset" => Once(c, m) /\ ~HasFrame(x)
  BY <1>0, <1>1, <1>4 DEF Flow, NoFd, Fds
<1>6. ASSUME NEW n \in 0..Len(data), Write(c, data, n), NEW y, clients' = [clients EXCEPT ![fd] = y],
             \/ /\ x.woff + n = Len(x.wbuf) /\ y.wbuf = <<>> /\ y.woff = 0 /\ busy' = fd
             \/ /\ x.woff + n < Len(x.wbuf) /\ y.wbuf = x.wbuf /\ y.woff = x.woff + n /\ busy' = busy,
             y.buf = x.buf, y.active, UNCHANGED <<conn, backlog>>
      PROVE  FlowOK'
  <2>1. clients'[fd] = y /\ Active' = Active /\ conn'[fd] = c
    BY <1>0, <1>2, <1>6 DEF Active
  <2>2. /\ sock[c] # "reset" /\ sock'[c] # "new" /\ n \in Nat
        /\ \A d \in Conns \ {c} : sock'[d] = sock[d] /\ answers'[d] = answers[d] /\ unread'[d] = unread[d]
    <3>1. n \in Nat
      BY <1>2, <1>3, <1>6
    <3>2. sock \in [Conns -> {"new", "queued", "open", "closed", "reset", "dropped"}]
          /\ unread \in [Conns -> 0..RecvCap] /\ answers \in [Conns -> Seq(Requests)]
      BY DEF Core, KernelTypes, ClientTypes
    <3> HIDE DEF data
    <3>3. sock[c] # "reset" /\ sock'[c] # "new" /\ \A d \in Conns \ {c} : sock'[d] = sock[d]
      BY <1>2, <1>6, <3>2 DEF Write
    <3>4. \A d \in Conns \ {c} : answers'[d] = answers[d] /\ unread'[d] = unread[d]
      BY <1>2, <1>6, <3>2 DEF Write
    <3> QED
      BY <3>1, <3>3, <3>4
  <2>3. Pending(c, x, m) /\ (c \notin Greedy => Once(c, m) /\ ~HasFrame(x))
    BY <1>5, <2>2
  <2>4. Laid(c, m, y.buf \o inbox[c])' /\ Done(c, m)' /\ (Once(c, m) => Once(c, m)')
    BY <1>1, <1>5, <1>6 DEF Laid, Done, Once
  <2>5. c \notin Greedy /\ busy' # fd => ~HasFrame(y)'
    BY <1>1, <1>6, <2>3 DEF HasFrame, Illegal, FrameSize
  <2>6. CASE sock[c] = "open"
    <3>1. /\ answers'[c] = answers[c] \o SubSeq(data, 1, n) /\ unread'[c] = unread[c] + n /\ sock' = sock
      BY <1>2, <1>6, <2>6 DEF Write, Core, KernelTypes, ClientTypes
    <3>2. x.woff + n <= Len(x.wbuf)
      BY <1>2, <1>3
    <3>3. /\ Ordered(c)' /\ Len(answers'[c]) = Len(answers[c]) + n
          /\ \A j \in 1..(Unsent(x) - n) : x.wbuf[x.woff + n + j] = <<c, Len(answers'[c]) + j>>
      BY <1>1, <1>2, <1>5, <2>2, <2>3, <3>1, <3>2, SentOn
    <3>4. Pending(c, y, m)'
      <4>1. m = Len(answers[c]) + Unsent(x) + 1 /\ Unsent(x) = Len(x.wbuf) - x.woff /\ Len(answers[c]) \in Nat
        BY <1>2, <2>3 DEF Pending, Unsent, Core, ClientTypes
      <4>2. CASE x.woff + n = Len(x.wbuf) /\ y.wbuf = <<>> /\ y.woff = 0
        <5>1. Unsent(y) = 0 /\ Unsent(x) = n
          BY <1>2, <2>2, <4>1, <4>2 DEF Unsent
        <5>2. m = Len(answers'[c]) + 0 + 1
          BY <2>2, <3>3, <4>1, <5>1
        <5>3. \A j \in 1..0 : FALSE
          OBVIOUS
        <5> QED
          BY <5>1, <5>2, <5>3 DEF Pending, Unsent
      <4>3. CASE y.wbuf = x.wbuf /\ y.woff = x.woff + n
        <5>1. Unsent(y) = Unsent(x) - n
          BY <1>2, <2>2, <4>1, <4>3 DEF Unsent
        <5>2. m = Len(answers'[c]) + Unsent(y) + 1
          BY <1>2, <2>2, <3>3, <4>1, <5>1
        <5> QED
          BY <3>3, <4>3, <5>1, <5>2 DEF Pending, Unsent
      <4> QED
        BY <1>6, <4>2, <4>3
    <3>5. Flow(fd, m)'
      BY <2>1, <2>3, <2>4, <2>5, <3>4 DEF Flow
    <3>6. c \notin Greedy => Paced(c)'
      BY <1>1, <1>2, <2>2, <3>1, <3>3, WritePaced
    <3> QED
      BY <1>0, <1>1, <1>6, <2>1, <2>2, <3>3, <3>5, <3>6, TouchFlow
  <2>7. CASE sock[c] = "closed"
    <3>1. sock'[c] = "reset" /\ UNCHANGED <<answers, unread>> /\ n = Len(data)
      BY <1>2, <1>6, <2>7 DEF Write, Core, KernelTypes
    <3>2. Flow(fd, m)'
      BY <2>1, <2>3, <2>4, <3>1 DEF Flow
    <3>3. Ordered(c)'
      BY <1>1, <1>2, <3>1, OrderedSame
    <3>4. c \notin Greedy => Paced(c)'
      BY <1>1, <1>2, <3>1 DEF FlowOK, Paced, Received
    <3> QED
      BY <1>0, <1>1, <1>6, <2>1, <2>2, <3>2, <3>3, <3>4, TouchFlow
  <2> QED
    BY <1>6, <2>6, <2>7 DEF Write
<1>7. ASSUME WriteError(fd, batch \ {<<"write", fd>>}) PROVE FlowOK'
  BY <1>1, <1>7, WriteErrorFlow
<1>8. ASSUME NEW n \in 0..Len(data), Write(c, data, n), UNCHANGED <<conn, backlog>>,
             \/ /\ x.woff + n = Len(x.wbuf) /\ busy' = fd
                /\ clients' = [clients EXCEPT ![fd].wbuf = <<>>, ![fd].woff = 0]
             \/ /\ x.woff + n < Len(x.wbuf) /\ busy' = busy
                /\ clients' = [clients EXCEPT ![fd].woff = x.woff + n]
      PROVE  FlowOK'
  <2> DEFINE y1 == [x EXCEPT !.wbuf = <<>>, !.woff = 0]
             y2 == [x EXCEPT !.woff = x.woff + n]
  <2>1. y1.wbuf = <<>> /\ y1.woff = 0 /\ y1.buf = x.buf /\ y1.active
    BY <1>2 DEF Client
  <2>2. y2.wbuf = x.wbuf /\ y2.woff = x.woff + n /\ y2.buf = x.buf /\ y2.active
    BY <1>2 DEF Client
  <2>3. \/ x.woff + n = Len(x.wbuf) /\ busy' = fd /\ clients' = [clients EXCEPT ![fd] = y1]
        \/ x.woff + n < Len(x.wbuf) /\ busy' = busy /\ clients' = [clients EXCEPT ![fd] = y2]
    BY <1>0, <1>8
  <2> HIDE DEF y1, y2
  <2> QED
    BY <1>6, <1>8, <2>1, <2>2, <2>3
<1> QED
  BY <1>0, <1>7, <1>8 DEF on_write

\* Compaction keeps the responses that wait, and their order.
LEMMA CompactPending ==
  ASSUME NEW x, ClientOK(x), x.woff < Len(x.wbuf) \/ x.wbuf = <<>>, x.wbuf = <<>> => x.woff = 0
  PROVE  LET q == Compact(x)
         IN  /\ Unsent(q) = Unsent(x) /\ Unsent(x) \in Nat
             /\ \A j \in 1..Unsent(x) : q.wbuf[q.woff + j] = x.wbuf[x.woff + j]
             /\ ~(Len(q.wbuf) + 1 <= WCap) => Unsent(q) >= WCap
<1>1. x \in Client /\ x.wbuf \in Seq(Cell) /\ x.woff \in Nat /\ Len(x.wbuf) \in Nat /\ WCap \in Nat
  BY NetAssumption DEF ClientOK, Client
<1>2. Unsent(x) \in Nat
  <2>1. x.wbuf = <<>> => Len(x.wbuf) = 0
    BY <1>1
  <2> QED
    BY <1>1, <2>1 DEF Unsent
<1>3. CASE Len(x.wbuf) + 1 > WCap /\ x.woff > 0
  <2>0. PICK o, w, t : o = x.woff /\ w = x.wbuf /\ t = SubSeq(w, o + 1, Len(w))
    OBVIOUS
  <2>1. w \in Seq(Cell) /\ Len(w) \in Nat /\ o \in Nat /\ o < Len(w)
    <3>1. x.wbuf # <<>>
      BY <1>1, <1>3
    <3> QED
      BY <1>1, <2>0, <3>1
  <2>2. t \in Seq(Cell) /\ Len(t) = Len(w) - o /\ \A j \in 1..(Len(w) - o) : t[j] = w[o + j]
    <3>1. \A i \in (o + 1)..Len(w) : w[i] \in Cell
      BY <2>1, ElementOfSeq
    <3>2. /\ t \in Seq(Cell) /\ Len(t) = IF o + 1 <= Len(w) THEN Len(w) - (o + 1) + 1 ELSE 0
          /\ \A i \in 1..(Len(w) - (o + 1) + 1) : t[i] = w[(o + 1) + i - 1]
      BY <2>0, <2>1, <3>1, SubSeqProperties, SMTT(30)
    <3>3. \A i \in 1..(Len(w) - o) : i \in 1..(Len(w) - (o + 1) + 1) /\ (o + 1) + i - 1 = o + i
      BY <2>1
    <3> QED
      BY <2>1, <3>2, <3>3
  <2>3. Compact(x) = [x EXCEPT !.wbuf = t, !.woff = 0]
    BY <1>3, <2>0 DEF Compact
  <2>4. Compact(x).wbuf = t /\ Compact(x).woff = 0
    BY <1>1, <2>3 DEF Client
  <2>5. PICK q : q = Compact(x)
    OBVIOUS
  <2>6. Unsent(q) = Unsent(x) /\ Unsent(x) = Len(w) - o /\ Len(q.wbuf) = Unsent(q)
    <3>1. Unsent(x) = Len(w) - o
      BY <2>0 DEF Unsent
    <3>2. Unsent(q) = Len(t) - 0 /\ Len(q.wbuf) = Len(t)
      BY <2>4, <2>5 DEF Unsent
    <3> QED
      BY <2>1, <2>2, <3>1, <3>2
  <2>7. \A j \in 1..Unsent(x) : q.wbuf[q.woff + j] = x.wbuf[x.woff + j]
    <3> SUFFICES ASSUME NEW j \in 1..(Len(w) - o) PROVE q.wbuf[q.woff + j] = x.wbuf[x.woff + j]
      BY <2>6
    <3>1. q.woff + j = j
      BY <1>1, <2>0, <2>4, <2>5
    <3> QED
      BY <2>0, <2>2, <2>4, <2>5, <3>1
  <2> QED
    BY <1>1, <1>2, <2>5, <2>6, <2>7
<1>4. CASE ~(Len(x.wbuf) + 1 > WCap /\ x.woff > 0)
  <2>1. Compact(x) = x
    BY <1>4 DEF Compact
  <2>2. ~(Len(x.wbuf) + 1 <= WCap) => Unsent(x) >= WCap
    BY <1>1, <1>4 DEF Unsent
  <2> QED
    BY <1>2, <2>1, <2>2
<1> QED
  BY <1>3, <1>4

\* Request m is executed for c: it and the ones before it are done.
LEMMA Execution ==
  ASSUME Core, NEW c \in Conns, NEW m \in Nat \ {0}, NEW r, r = <<c, m>>, Done(c, m),
         c \notin Greedy => Once(c, m),
         ran' = ran \cup {r}, reran' = IF r \in ran THEN reran \cup {r} ELSE reran
  PROVE  /\ ran \subseteq ran' /\ \A e \in ran' : e \in ran \/ e[1] = c
         /\ \A e \in reran' : e \in reran \/ e[1] \in Greedy
         /\ Done(c, m)' /\ Done(c, m + 1)' /\ (c \notin Greedy => Once(c, m + 1)')
<1>1. r[1] = c
  OBVIOUS
<1>2. c \notin Greedy => r \notin ran
  BY DEF Once
<1>3. Done(c, m)'
  BY DEF Done
<1>4. Done(c, m + 1)'
  <2> SUFFICES ASSUME NEW i \in 1..(m + 1 - 1) PROVE <<c, i>> \in ran'
    BY DEF Done
  <2>1. i \in 1..(m - 1) \/ i = m
    OBVIOUS
  <2> QED
    BY <1>3, <2>1 DEF Done
<1>5. ASSUME c \notin Greedy PROVE Once(c, m + 1)'
  <2> SUFFICES ASSUME NEW i \in Nat, <<c, i>> \in ran' PROVE i < m + 1
    BY DEF Once
  <2>1. CASE <<c, i>> \in ran
    <3>1. i < m
      BY <1>5, <2>1 DEF Once
    <3> QED
      BY <3>1
  <2>2. CASE <<c, i>> = r
    BY <2>2
  <2> QED
    BY <2>1, <2>2
<1> QED
  BY <1>1, <1>2, <1>3, <1>4, <1>5

\* A response joins the ones that wait.
LEMMA PendingQueued ==
  ASSUME Core, NEW c \in Conns, NEW q \in Client, NEW y, NEW m \in Nat \ {0}, NEW r, r = <<c, m>>,
         Pending(c, q, m), Unsent(q) \in Nat, r \in Cell,
         y.wbuf = Append(q.wbuf, r), y.woff = q.woff, answers'[c] = answers[c]
  PROVE  Pending(c, y, m + 1)'
<1>0. PICK a, w, o, u, t : a = Len(answers[c]) /\ w = q.wbuf /\ o = q.woff /\ u = Unsent(q) /\ t = Append(w, r)
  OBVIOUS
<1>1. a \in Nat /\ w \in Seq(Cell) /\ o \in Nat /\ u = Len(w) - o /\ u \in Nat /\ Len(w) \in Nat
  BY <1>0 DEF Core, ClientTypes, Unsent, Client
<1>2. m = a + u + 1 /\ \A j \in 1..u : w[o + j] = <<c, a + j>>
  BY <1>0 DEF Pending
<1>3. Len(t) = Len(w) + 1 /\ (\A i \in 1..Len(w) : t[i] = w[i]) /\ t[Len(w) + 1] = r
  BY <1>0, <1>1, AppendProperties
<1>4. Unsent(y) = u + 1
  <2>1. y.wbuf = t /\ y.woff = o
    BY <1>0
  <2>2. Unsent(y) = Len(t) - o
    BY <2>1 DEF Unsent
  <2> QED
    BY <1>1, <1>3, <2>2
<1>5. ASSUME NEW j \in 1..(u + 1) PROVE t[o + j] = <<c, a + j>>
  <2>1. CASE j \in 1..u
    <3>1. o + j \in 1..Len(w)
      BY <1>1, <2>1
    <3> QED
      BY <1>2, <1>3, <2>1, <3>1
  <2>2. CASE j = u + 1
    <3>1. o + j = Len(w) + 1 /\ a + j = m
      BY <1>1, <1>2, <2>2
    <3> QED
      BY <1>3, <3>1
  <2>3. j \in 1..u \/ j = u + 1
    BY <1>1
  <2> QED
    BY <2>1, <2>2, <2>3
<1>6. m + 1 = a + (u + 1) + 1
  BY <1>1, <1>2
<1> QED
  BY <1>0, <1>4, <1>5, <1>6 DEF Pending, Unsent

\* Nothing waits, and the response goes out at once.
LEMMA SentNow ==
  ASSUME Core, NEW c \in Conns, NEW q \in Client, q.wbuf = <<>>, q.woff = 0,
         NEW m \in Nat \ {0}, NEW r, r = <<c, m>>, r \in Cell, r \in ran', ran \subseteq ran',
         Pending(c, q, m), Ordered(c), answers'[c] = answers[c] \o SubSeq(<<r>>, 1, 1)
  PROVE  Ordered(c)' /\ Len(answers'[c]) = Len(answers[c]) + 1 /\ Pending(c, q, m + 1)'
<1>0. PICK a, z, e : a = answers[c] /\ z = answers'[c] /\ e = <<r>>
  OBVIOUS
<1>1. a \in Seq(Cell) /\ Len(a) \in Nat /\ e \in Seq(Cell) /\ Len(e) = 1 /\ e[1] = r
  <2>1. Requests \subseteq Cell /\ answers[c] \in Seq(Requests)
    BY DEF Requests, Core, ClientTypes
  <2>2. answers[c] \in Seq(Cell)
    BY <2>1
  <2> QED
    BY <1>0, <2>2
<1>2. SubSeq(e, 1, 1) \in Seq(Cell) /\ Len(SubSeq(e, 1, 1)) = 1 /\ SubSeq(e, 1, 1)[1] = r
  <2>1. \A i \in 1..1 : e[i] \in Cell
    <3>1. e[1] \in Cell /\ \A i \in 1..1 : i = 1
      BY <1>1
    <3> QED
      BY <3>1
  <2> QED
    BY <1>1, <2>1, SubSeqProperties
<1>3. PICK b : b = SubSeq(e, 1, 1)
  OBVIOUS
<1>4. Len(z) = Len(a) + 1 /\ (\A i \in 1..Len(a) : z[i] = a[i]) /\ z[Len(a) + 1] = r
  <2>1. z = a \o b /\ b \in Seq(Cell) /\ Len(b) = 1 /\ b[1] = r
    BY <1>0, <1>2, <1>3
  <2>2. Len(z) = Len(a) + Len(b)
        /\ \A i \in 1..(Len(a) + Len(b)) : z[i] = IF i <= Len(a) THEN a[i] ELSE b[i - Len(a)]
    BY <1>1, <2>1, ConcatProperties, ZenonT(30)
  <2>3. \A i \in 1..Len(a) : i \in 1..(Len(a) + Len(b)) /\ i <= Len(a)
    BY <1>1, <2>1
  <2>4. Len(a) + 1 \in 1..(Len(a) + Len(b)) /\ ~(Len(a) + 1 <= Len(a)) /\ (Len(a) + 1) - Len(a) = 1
    BY <1>1, <2>1
  <2> QED
    BY <2>1, <2>2, <2>3, <2>4
<1>5. Unsent(q) = 0 /\ m = Len(a) + 1
  <2>1. Unsent(q) = 0
    BY DEF Unsent
  <2> QED
    BY <1>0, <1>1, <2>1 DEF Pending
<1>6. ASSUME NEW i \in 1..Len(z) PROVE z[i] = <<c, i>> /\ <<c, i>> \in ran'
  <2>1. CASE i \in 1..Len(a)
    BY <1>0, <1>4, <2>1 DEF Ordered
  <2>2. CASE i = Len(a) + 1
    BY <1>4, <1>5, <2>2
  <2>3. i \in 1..Len(a) \/ i = Len(a) + 1
    BY <1>1, <1>4
  <2> QED
    BY <2>1, <2>2, <2>3
<1>7. Ordered(c)'
  BY <1>0, <1>6 DEF Ordered
<1>8. m + 1 = Len(z) + 0 + 1 /\ \A j \in 1..0 : FALSE
  BY <1>1, <1>4, <1>5
<1>9. Pending(c, q, m + 1)'
  BY <1>0, <1>5, <1>8 DEF Pending, Unsent
<1> QED
  BY <1>0, <1>4, <1>7, <1>9

\* process_buffer executes a request and queue_write takes, or refuses, its answer.
LEMMA AnswerFlow ==
  ASSUME Core, Core', WakeOK, FlowOK, NEW fd \in Active, busy = fd, HasFrame(clients[fd]),
         NEW r, r = clients[fd].buf[1], NEW size, size = FrameSize(r),
         ran' = ran \cup {r}, reran' = IF r \in ran THEN reran \cup {r} ELSE reran,
         queue_write(fd, r, size), UNCHANGED <<inbox, script, sent>>
  PROVE  FlowOK'
<1>0. PICK c, x, q : c = conn[fd] /\ x = clients[fd] /\ q = Compact(x)
  OBVIOUS
<1>1. /\ fd \in Fds /\ c \in Conns /\ ClientOK(x) /\ x \in Client /\ x.active /\ sock[c] # "new" /\ Ordered(c)
      /\ clients \in [Fds -> Client] /\ x.buf \in Seq(Requests) /\ x.buf # <<>>
      /\ Len(x.buf) >= FrameSize(x.buf[1])
  <2>1. /\ fd \in Fds /\ c \in Conns /\ ClientOK(x) /\ x \in Client /\ x.active /\ Ordered(c)
        /\ clients \in [Fds -> Client] /\ x.buf \in Seq(Requests)
    BY <1>0, EventClient DEF Active, FlowOK, AnswersInOrder, Ordered, ClientOK, Core, ServerTypes
  <2>2. sock[c] # "new"
    BY <1>0, <2>1, NetAssumption DEF Core, Sockets
  <2> QED
    BY <1>0, <2>1, <2>2 DEF HasFrame
<1>2. PICK m \in Nat : Flow(fd, m)
  BY DEF FlowOK
<1>3. /\ Laid(c, m, x.buf \o inbox[c]) /\ Done(c, m) /\ (sock[c] # "reset" => Pending(c, x, m))
      /\ c \notin Greedy => Once(c, m)
  BY <1>0, <1>2 DEF Flow
<1>4. /\ r = <<c, m>> /\ m \in Nat \ {0} /\ m < sent[c].req
      /\ Laid(c, m + 1, SubSeq(x.buf, size + 1, Len(x.buf)) \o inbox[c])
  <2>1. /\ x.buf[1] = <<c, m>> /\ m \in 1..sent[c].req
        /\ m < sent[c].req
        /\ Laid(c, m + 1, SubSeq(x.buf, FrameSize(x.buf[1]) + 1, Len(x.buf)) \o inbox[c])
    BY <1>1, <1>3, LaidFrame
  <2> QED
    BY <1>0, <2>1
<1>5. /\ ran \subseteq ran' /\ (\A e \in ran' : e \in ran \/ e[1] = c) /\ r \in ran'
      /\ \A e \in reran' : e \in reran \/ e[1] \in Greedy
      /\ Done(c, m)' /\ Done(c, m + 1)' /\ (c \notin Greedy => Once(c, m + 1)')
  BY <1>1, <1>3, <1>4, Execution
<1>6. r \in Requests /\ r \in Cell /\ size \in Nat
  <2>1. r \in Requests
    BY <1>0, <1>1, ElementOfSeq
  <2> QED
    BY <2>1, SizeType DEF Core, Requests
<1>7. Woken(x, Awaited, busy, fd)
  BY <1>0 DEF WakeOK, NoLostWakeup, Woken, Awaited
<1>8. /\ ClientOK(q) /\ q \in Client /\ q.active /\ q.buf = x.buf
      /\ Unsent(q) = Unsent(x) /\ Unsent(q) \in Nat /\ (q.wbuf = <<>> => q.woff = 0)
      /\ ~(Len(q.wbuf) + 1 <= WCap) => Unsent(q) >= WCap
      /\ \A j \in 1..Unsent(x) : q.wbuf[q.woff + j] = x.wbuf[x.woff + j]
  <2>1. ClientOK(q) /\ q \in Client /\ q.active
    BY <1>0, <1>1, <1>6, ClientSteps DEF Core, ClientOK
  <2> QED
    BY <1>0, <1>1, <1>7, <2>1, CompactWake, CompactPending DEF Woken, Awaited
<1>9. sock[c] # "reset" => Pending(c, q, m)
  BY <1>3, <1>8 DEF Pending
<1>10. PICK y, w : y = Consumed(q, size) /\ w = Queued(y, r)
  OBVIOUS
<1>11. /\ y \in Client /\ y.active /\ y.wbuf = q.wbuf /\ y.woff = q.woff
       /\ y.buf = SubSeq(x.buf, size + 1, Len(x.buf))
  BY <1>6, <1>8, <1>10, ClientSteps DEF Consumed, ClientOK, Client, Core
<1>12. w.active /\ w.wbuf = Append(q.wbuf, r) /\ w.woff = q.woff /\ w.buf = y.buf
  BY <1>10, <1>11 DEF Queued, Client
<1>13. c \notin Greedy => Paced(c)
  BY <1>1 DEF FlowOK
<1>14. ASSUME ~(Len(q.wbuf) + 1 <= WCap), clients' = [clients EXCEPT ![fd] = q], busy' = NoFd,
              UNCHANGED <<conn, sock, answers, unread, backlog>>
       PROVE  FlowOK'
  <2>1. clients'[fd] = q /\ Active' = Active /\ conn'[fd] = c
    BY <1>0, <1>1, <1>8, <1>14 DEF Active
  <2>2. c \notin Greedy => sock[c] = "reset"
    <3> SUFFICES ASSUME c \notin Greedy, sock[c] # "reset" PROVE FALSE
      OBVIOUS
    <3>1. PICK a, u, k, n : a = Len(answers[c]) /\ u = Unsent(q) /\ k = sent[c].req /\ n = unread[c]
      OBVIOUS
    <3>2. a \in Nat /\ u \in Nat /\ k \in Nat /\ n \in Nat /\ WCap \in Nat
      BY <1>1, <1>8, <3>1, NetAssumption DEF Core, ClientTypes, KernelTypes
    <3>3. m = a + u + 1 /\ m < k /\ u >= WCap
      BY <1>4, <1>8, <1>9, <1>14, <3>1 DEF Pending
    <3>4. k - 1 - (a - n) <= WCap
      <4>1. PICK d : d = IF sent[c].cells = 0 THEN 1 ELSE 0
        OBVIOUS
      <4>2. k - d - (a - n) <= WCap /\ d \in {0, 1}
        BY <1>13, <3>1, <4>1 DEF Paced, Received
      <4> QED
        BY <3>2, <4>2
    <3> QED
      BY <3>2, <3>3, <3>4
  <2>3. Laid(c, m, q.buf \o inbox[c])'
    BY <1>3, <1>8 DEF Laid
  <2>4. sock[c] # "reset" => Pending(c, q, m)'
    BY <1>9, <1>14 DEF Pending
  <2>5. busy' # fd
    BY <1>1, <1>14 DEF NoFd, Fds
  <2>6. Flow(fd, m)'
    BY <1>5, <1>14, <2>1, <2>2, <2>3, <2>4, <2>5 DEF Flow
  <2>7. Ordered(c)' /\ (c \notin Greedy => Paced(c)')
    BY <1>1, <1>5, <1>13, <1>14, OrderedSame DEF Paced, Received
  <2> QED
    BY <1>0, <1>1, <1>5, <1>14, <2>1, <2>6, <2>7, TouchFlow
<1>15. ASSUME clients' = [clients EXCEPT ![fd] = w], UNCHANGED <<conn, sock, answers, unread, backlog, busy>>
       PROVE  FlowOK'
  <2>1. clients'[fd] = w /\ Active' = Active /\ conn'[fd] = c
    BY <1>0, <1>1, <1>12, <1>15 DEF Active
  <2>2. Laid(c, m + 1, w.buf \o inbox[c])'
    BY <1>4, <1>11, <1>12 DEF Laid
  <2>3. sock[c] # "reset" => Pending(c, w, m + 1)'
    BY <1>1, <1>4, <1>6, <1>8, <1>9, <1>12, <1>15, PendingQueued
  <2>4. m + 1 \in Nat /\ Flow(fd, m + 1)'
    BY <1>5, <1>15, <2>1, <2>2, <2>3 DEF Flow
  <2>5. Ordered(c)' /\ (c \notin Greedy => Paced(c)')
    BY <1>1, <1>5, <1>13, <1>15, OrderedSame DEF Paced, Received
  <2>6. \E n \in Nat : Flow(fd, n)'
    BY <2>4
  <2> QED
    BY <1>0, <1>1, <1>5, <1>15, <2>1, <2>5, <2>6, TouchFlow
<1>16. ASSUME q.wbuf = <<>>, Write(c, <<r>>, 1), clients' = [clients EXCEPT ![fd] = y],
              UNCHANGED <<conn, backlog, busy>>
       PROVE  FlowOK'
  <2>1. clients'[fd] = y /\ Active' = Active /\ conn'[fd] = c
    BY <1>0, <1>1, <1>11, <1>16 DEF Active
  <2>2. Laid(c, m + 1, y.buf \o inbox[c])'
    BY <1>4, <1>11 DEF Laid
  <2>3. /\ sock[c] # "reset" /\ sock'[c] # "new"
        /\ \A d \in Conns \ {c} : sock'[d] = sock[d] /\ answers'[d] = answers[d] /\ unread'[d] = unread[d]
    <3>1. sock \in [Conns -> {"new", "queued", "open", "closed", "reset", "dropped"}]
          /\ unread \in [Conns -> 0..RecvCap] /\ answers \in [Conns -> Seq(Requests)]
      BY DEF Core, KernelTypes, ClientTypes
    <3>2. sock[c] # "reset" /\ sock'[c] # "new" /\ \A d \in Conns \ {c} : sock'[d] = sock[d]
      BY <1>1, <1>16, <3>1 DEF Write
    <3>3. \A d \in Conns \ {c} : answers'[d] = answers[d] /\ unread'[d] = unread[d]
      BY <1>1, <1>16, <3>1 DEF Write
    <3> QED
      BY <3>2, <3>3
  <2>4. ASSUME sock[c] = "open"
        PROVE  Pending(c, y, m + 1)' /\ Ordered(c)' /\ (c \notin Greedy => Paced(c)')
    <3>1. answers'[c] = answers[c] \o SubSeq(<<r>>, 1, 1) /\ unread'[c] = unread[c] + 1
      BY <1>1, <1>16, <2>4 DEF Write, Core, KernelTypes, ClientTypes
    <3>2. y.wbuf = <<>> /\ y.woff = 0 /\ Pending(c, y, m)
      BY <1>8, <1>9, <1>11, <1>16, <2>3 DEF Pending, Unsent
    <3>3. Ordered(c)' /\ Len(answers'[c]) = Len(answers[c]) + 1 /\ Pending(c, y, m + 1)'
      BY <1>1, <1>4, <1>5, <1>6, <1>11, <3>1, <3>2, SentNow
    <3>4. c \notin Greedy => Paced(c)'
      BY <1>1, <3>1, <3>3, WritePaced
    <3> QED
      BY <3>3, <3>4
  <2>5. ASSUME sock[c] = "closed"
        PROVE  sock'[c] = "reset" /\ Ordered(c)' /\ (c \notin Greedy => Paced(c)')
    <3>1. sock'[c] = "reset" /\ UNCHANGED <<answers, unread>>
      BY <1>1, <1>16, <2>5 DEF Write, Core, KernelTypes
    <3> QED
      BY <1>1, <1>5, <1>13, <3>1, OrderedSame DEF Paced, Received
  <2>6. sock[c] \in {"open", "closed"}
    BY <1>16 DEF Write
  <2>7. m + 1 \in Nat /\ Flow(fd, m + 1)'
    BY <1>5, <1>16, <2>1, <2>2, <2>4, <2>5, <2>6 DEF Flow
  <2>8. \E n \in Nat : Flow(fd, n)'
    BY <2>7
  <2> QED
    BY <1>0, <1>1, <1>5, <1>16, <2>1, <2>3, <2>4, <2>5, <2>6, <2>8, TouchFlow
<1>17. ASSUME WriteError(fd, batch) PROVE FlowOK'
  BY <1>0, <1>5, <1>17, WriteErrorFlow
<1> QED
  BY <1>0, <1>10, <1>14, <1>15, <1>16, <1>17 DEF queue_write

LEMMA BufferFlow ==
  ASSUME Core, Core', WakeOK, FlowOK, process_buffer
  PROVE  FlowOK'
<1>0. PICK fd, x : fd = busy /\ x = clients[fd]
  OBVIOUS
<1>1. fd \in Active /\ busy = fd /\ UNCHANGED <<inbox, script, sent>>
  BY <1>0 DEF process_buffer, Core, BusyOK
<1>2. /\ fd \in Fds /\ conn[fd] \in Conns /\ clients \in [Fds -> Client] /\ sock[conn[fd]] # "new"
      /\ Ordered(conn[fd])
  <2>1. fd \in Fds /\ conn[fd] \in Conns /\ clients \in [Fds -> Client]
    BY <1>1, EventClient DEF Active, Core, ServerTypes
  <2> QED
    BY <2>1, NetAssumption DEF Core, Sockets, FlowOK, AnswersInOrder, Ordered
<1>3. ASSUME ~HasFrame(x), busy' = NoFd,
             UNCHANGED <<clients, conn, sock, answers, unread, backlog, ran, reran>>
      PROVE  FlowOK'
  <2>1. clients' = [clients EXCEPT ![fd] = x] /\ Active' = Active
    BY <1>0, <1>2, <1>3 DEF Active
  <2>2. PICK m \in Nat : Flow(fd, m)
    BY <1>1 DEF FlowOK
  <2>3. Flow(fd, m)'
    <3>1. Laid(conn[fd], m, clients[fd].buf \o inbox[conn[fd]])'
      BY <1>1, <1>3, <2>2 DEF Flow, Laid
    <3>2. Done(conn[fd], m)' /\ (Once(conn[fd], m) => Once(conn[fd], m)')
      BY <1>3, <2>2 DEF Flow, Done, Once
    <3>3. sock[conn[fd]] # "reset" => Pending(conn[fd], clients[fd], m)'
      BY <1>3, <2>2 DEF Flow, Pending, Unsent
    <3>4. ~HasFrame(clients[fd])'
      BY <1>0, <1>1, <1>3 DEF HasFrame, Illegal, FrameSize
    <3>5. busy' # fd
      BY <1>2, <1>3 DEF NoFd, Fds
    <3> QED
      BY <1>1, <1>3, <2>2, <3>1, <3>2, <3>3, <3>4, <3>5 DEF Flow
  <2>4. Ordered(conn[fd])' /\ (conn[fd] \notin Greedy => Paced(conn[fd])')
    BY <1>1, <1>2, <1>3 DEF Ordered, FlowOK, Paced, Received
  <2> QED
    BY <1>1, <1>2, <1>3, <2>1, <2>3, <2>4, TouchFlow
<1>4. ASSUME Drop(fd), busy' = NoFd, UNCHANGED <<answers, unread, backlog, ran, reran>> PROVE FlowOK'
  BY <1>1, <1>4, DropFlow
<1>5. ASSUME HasFrame(x), ran' = ran \cup {x.buf[1]},
             reran' = IF x.buf[1] \in ran THEN reran \cup {x.buf[1]} ELSE reran,
             queue_write(fd, x.buf[1], FrameSize(x.buf[1]))
      PROVE  FlowOK'
  BY <1>0, <1>1, <1>5, AnswerFlow
<1> QED
  BY <1>0, <1>3, <1>4, <1>5 DEF process_buffer

LEMMA TickFlow ==
  ASSUME Core, Core', FlowOK, NEW dt \in {0, 1}, NEW due \in BOOLEAN, before_sleep(dt, due)
  PROVE  FlowOK'
<1> DEFINE aged == [f \in Fds |-> IF clients[f].active
                      THEN [clients[f] EXCEPT !.idle = Lesser(@ + dt, Timeout)]
                      ELSE clients[f]]
           gone == IF due THEN TimedOut(aged) ELSE {}
<1>1. \A f \in Fds : /\ aged[f].buf = clients[f].buf /\ aged[f].wbuf = clients[f].wbuf
                     /\ aged[f].woff = clients[f].woff /\ aged[f].active = clients[f].active
  BY DEF Core, ServerTypes, Client
<1>2. gone \in SUBSET Active
  <2>1. TimedOut(aged) \subseteq {f \in Fds : aged[f].active}
    BY DEF TimedOut
  <2> QED
    BY <1>1, <2>1 DEF Active
<1>3. remove_client(gone, aged) /\ UNCHANGED <<busy, backlog, inbox, unread, script, sent, answers, ran, reran>>
  BY DEF before_sleep, clientVars
<1> HIDE DEF aged, gone
<1>4. Active' = Active \ gone
  BY <1>1, <1>3 DEF remove_client, Active, NoClient
<1> QED
  BY <1>1, <1>2, <1>3, <1>4, GoneFlow

LEMMA FlowStep == Core /\ Core' /\ WakeOK /\ FlowOK /\ [Next]_vars => FlowOK'
<1> SUFFICES ASSUME Core, Core', WakeOK, FlowOK, [Next]_vars PROVE FlowOK'
  OBVIOUS
<1>1. ASSUME NEW dt \in {0, 1}, NEW due \in BOOLEAN, before_sleep(dt, due) PROVE FlowOK'
  BY <1>1, TickFlow
<1>2. ASSUME NEW fd \in Fds, on_read(fd) PROVE FlowOK'
  BY <1>2, ReadFlow
<1>3. ASSUME NEW fd \in Fds, on_write(fd) PROVE FlowOK'
  BY <1>3, WriteFlow
<1>4. ASSUME on_accept PROVE FlowOK'
  BY <1>4, AcceptFlow
<1>5. ASSUME process_buffer PROVE FlowOK'
  BY <1>5, BufferFlow
<1>6. ASSUME NEW c \in Conns, Connect(c) \/ Send(c) \/ Recv(c) \/ Leave(c) PROVE FlowOK'
  BY <1>6, ConnectFlow, SendFlow, RecvFlow, LeaveFlow
<1>7. ASSUME \/ el_poll \/ el_run \/ Halted \/ UNCHANGED vars
             \/ \E e \in batch : el_skip(e[1], e[2])
      PROVE  FlowOK'
  <2>1. UNCHANGED <<clients, busy, conn, sock, backlog, inbox, unread, script, sent, answers, ran, reran>>
    BY <1>7 DEF el_poll, el_run, el_skip, Halted, vars, serverVars, kernelVars, clientVars
  <2> QED
    BY <2>1, QuietFlow
<1> QED
  BY <1>1, <1>2, <1>3, <1>4, <1>5, <1>6, <1>7 DEF Next, Server

LEMMA FlowInit == Init => FlowOK
<1> SUFFICES ASSUME Init PROVE FlowOK
  OBVIOUS
<1>1. Active = {} /\ backlog = <<>> /\ Len(backlog) = 0
  BY DEF Init, Active, NoClient
<1>2. ASSUME NEW c \in Conns PROVE Fresh(c) /\ Ordered(c) /\ Paced(c)
  <2>1. answers[c] = <<>> /\ inbox[c] = <<>> /\ sent[c].req = 1 /\ sent[c].cells = 0 /\ unread[c] = 0 /\ ran = {}
    BY DEF Init
  <2>2. Frames(c, script[c], 1, 1, 0, <<>>)
    <3> DEFINE start == [i \in 1..1 |-> 1]
    <3>1. start \in [1..1 -> Int] /\ start[1] = 1
      OBVIOUS
    <3> HIDE DEF start
    <3>2. Places(c, script[c], 1, 1, <<>>, start)
      BY <3>1 DEF Places
    <3> QED
      BY <3>1, <3>2 DEF Frames
  <2>3. Laid(c, 1, inbox[c])
    BY <2>1, <2>2 DEF Laid
  <2> QED
    BY <2>1, <2>3, NetAssumption DEF Fresh, Ordered, Paced, Received
<1>3. AnswersInOrder /\ ExecutedOnce
  BY <1>2 DEF Init, AnswersInOrder, ExecutedOnce, Ordered
<1> QED
  BY <1>1, <1>2, <1>3 DEF FlowOK

\* What arrives at a client is its own answers, in the order of its requests,
\* none missing and none twice: for every size of the buffers and every
\* workload, greedy or not, whatever is cut in two by read() and write().
THEOREM AnswersAlwaysInOrder == Spec => []AnswersInOrder
<1>1. Init => WakeOK
  BY DEF Init, WakeOK, NoLostWakeup, Active, NoClient
<1>2. FlowOK => AnswersInOrder
  BY DEF FlowOK
<1> QED
  BY <1>1, <1>2, CoreInit, CoreStep, WakeStep, FlowInit, FlowStep, PTL DEF Spec

\* A client that keeps at most WCap requests unanswered has each executed
\* once: the refusal of queue_write, after which a frame stays in the buffer
\* and is executed again, can meet greedy clients only.
THEOREM ExecutedOnlyOnce == Spec => []ExecutedOnce
<1>1. Init => WakeOK
  BY DEF Init, WakeOK, NoLostWakeup, Active, NoClient
<1>2. FlowOK => ExecutedOnce
  BY DEF FlowOK
<1> QED
  BY <1>1, <1>2, CoreInit, CoreStep, WakeStep, FlowInit, FlowStep, PTL DEF Spec

-------------------------------------------------------------------------------
(* Clients that behave are kept                                            *)

\* The first frame in the buffer of a client that behaves is a legal one.
LEMMA LegalFrame ==
  ASSUME Core, FlowOK, NEW fd \in Active, WellBehaved(conn[fd])
  PROVE  ~Illegal(clients[fd]) /\ (Len(clients[fd].buf) = ReadCap => HasFrame(clients[fd]))
<1>0. PICK c, x : c = conn[fd] /\ x = clients[fd]
  OBVIOUS
<1>1. /\ c \in Conns /\ x.buf \in Seq(Requests) /\ Len(x.buf) \in Nat /\ sock[c] # "new"
  <2>1. fd \in Fds /\ c \in Conns /\ x.buf \in Seq(Requests)
    BY <1>0, EventClient DEF Active, ClientOK
  <2> QED
    BY <1>0, <2>1, NetAssumption DEF Core, Sockets
<1>2. ASSUME x.buf # <<>> PROVE FrameSize(x.buf[1]) <= ReadCap
  <2>1. PICK m \in Nat : Flow(fd, m)
    BY DEF FlowOK
  <2>2. Laid(c, m, x.buf \o inbox[c])
    BY <1>0, <2>1 DEF Flow
  <2>3. x.buf[1] = <<c, m>>
    BY <1>1, <1>2, <2>2, LaidFrame
  <2>4. x.buf[1] \in Requests
    BY <1>1, <1>2, ElementOfSeq
  <2>5. m \in 1..Len(script[c]) /\ FrameSize(x.buf[1]) = script[c][m]
    BY <2>3, <2>4 DEF Requests, FrameSize
  <2> QED
    BY <1>0, <2>5 DEF WellBehaved
<1>3. ~Illegal(x)
  <2> SUFFICES ASSUME x.buf # <<>>, FrameSize(x.buf[1]) > ReadCap PROVE FALSE
    BY DEF Illegal
  <2>1. FrameSize(x.buf[1]) \in Nat
    BY <1>1, ElementOfSeq, SizeType DEF Core
  <2> QED
    BY <1>2, <2>1, NetAssumption
<1>4. Len(x.buf) = ReadCap => x.buf # <<>> /\ Len(x.buf) >= FrameSize(x.buf[1])
  <2> SUFFICES ASSUME Len(x.buf) = ReadCap PROVE x.buf # <<>> /\ Len(x.buf) >= FrameSize(x.buf[1])
    OBVIOUS
  <2>1. x.buf # <<>>
    BY <1>1, NetAssumption
  <2>2. FrameSize(x.buf[1]) \in Nat
    BY <1>1, <2>1, ElementOfSeq, SizeType DEF Core
  <2> QED
    BY <1>2, <2>1, <2>2, NetAssumption
<1> QED
  BY <1>0, <1>3, <1>4 DEF HasFrame

\* A removal drops the connection of its descriptor only.
LEMMA DropsOwn ==
  ASSUME NEW fd, NEW c \in Conns, Drop(fd), sock[c] = "open", sock'[c] = "dropped"
  PROVE  c = conn[fd]
BY DEF Drop, remove_client

\* write() to a connection, failed or not, drops none that is open.
LEMMA WriteKeeps ==
  ASSUME Core, NEW fd \in Active, NEW c \in Conns, sock[c] = "open", sock'[c] = "dropped",
         \/ \E data, n : Write(conn[fd], data, n)
         \/ \E rest : WriteError(fd, rest)
  PROVE  Down'
<1>1. ASSUME NEW data, NEW n, Write(conn[fd], data, n) PROVE FALSE
  BY <1>1 DEF Write, Core, KernelTypes
<1>2. ASSUME NEW rest, WriteError(fd, rest) PROVE Down'
  <2>1. CASE Drop(fd)
    BY <1>2, <2>1, DropsOwn DEF WriteError
  <2>2. CASE Killed
    BY <2>2 DEF Killed, Down
  <2> QED
    BY <1>2, <2>1, <2>2 DEF WriteError
<1> QED
  BY <1>1, <1>2

LEMMA KeptStep ==
  ASSUME Core, FlowOK, [Next]_vars, NEW c \in Conns, WellBehaved(c),
         sock[c] = "open", sock'[c] = "dropped", at = "events"
  PROVE  Down'
<1>1. sock \in [Conns -> {"new", "queued", "open", "closed", "reset", "dropped"}]
  BY DEF Core, KernelTypes
<1>2. ASSUME NEW fd \in Fds, on_read(fd) PROVE FALSE
  <2>1. busy = NoFd /\ fd \in Active
    BY <1>2, EventClient DEF on_read, Event
  <2>2. Drop(fd) /\ (sock[conn[fd]] = "open" => Len(clients[fd].buf) = ReadCap)
    BY <1>2 DEF on_read
  <2>3. c = conn[fd]
    BY <2>2, DropsOwn
  <2>4. HasFrame(clients[fd])
    BY <2>1, <2>2, <2>3, LegalFrame
  <2>5. PICK m \in Nat : Flow(fd, m)
    BY <2>1 DEF FlowOK
  <2> QED
    BY <2>1, <2>3, <2>4, <2>5 DEF Flow, WellBehaved, NoFd, Fds
<1>3. ASSUME NEW fd \in Fds, on_write(fd) PROVE Down'
  <2>1. fd \in Active
    BY <1>3, EventClient DEF on_write
  <2>2. \/ \E data, n : Write(conn[fd], data, n)
        \/ \E rest : WriteError(fd, rest)
    BY <1>3 DEF on_write
  <2> QED
    BY <2>1, <2>2, WriteKeeps
<1>4. ASSUME on_accept PROVE FALSE
  <2>1. backlog # <<>> => Head(backlog) \in Conns /\ sock[Head(backlog)] \in {"queued", "closed"}
    <3> SUFFICES ASSUME backlog # <<>>
                 PROVE  Head(backlog) \in Conns /\ sock[Head(backlog)] \in {"queued", "closed"}
      OBVIOUS
    <3>1. backlog \in Seq(Conns)
      BY DEF Core, KernelTypes
    <3>2. Head(backlog) = backlog[1] /\ Head(backlog) \in Conns /\ 1 \in 1..Len(backlog)
      BY <3>1, HeadTailProperties
    <3> QED
      BY <3>2 DEF Core, Sockets
  <2> QED
    BY <1>1, <1>4, <2>1 DEF on_accept
<1>5. ASSUME process_buffer PROVE Down'
  <2>0. PICK fd : fd = busy
    OBVIOUS
  <2>1. fd \in Active
    BY <1>5, <2>0 DEF process_buffer, Core, BusyOK
  <2>2. ASSUME Illegal(clients[fd]), Drop(fd) PROVE FALSE
    BY <2>1, <2>2, DropsOwn, LegalFrame
  <2>3. ASSUME NEW r, NEW size, queue_write(fd, r, size) PROVE Down'
    <3>1. \/ \E data, n : Write(conn[fd], data, n)
          \/ \E rest : WriteError(fd, rest)
      BY <2>3 DEF queue_write
    <3> QED
      BY <2>1, <3>1, WriteKeeps
  <2> QED
    BY <1>5, <2>0, <2>2, <2>3 DEF process_buffer
<1>6. ASSUME NEW d \in Conns, Connect(d) \/ Send(d) \/ Recv(d) \/ Leave(d) PROVE FALSE
  BY <1>1, <1>6 DEF Connect, Send, Recv, Leave
<1>7. ASSUME \/ el_poll \/ el_run \/ Halted \/ UNCHANGED vars
             \/ \E e \in batch : el_skip(e[1], e[2])
             \/ \E dt \in {0, 1}, due \in BOOLEAN : before_sleep(dt, due)
      PROVE  FALSE
  BY <1>7 DEF el_poll, el_run, el_skip, before_sleep, Halted, vars, kernelVars
<1> QED
  BY <1>2, <1>3, <1>4, <1>5, <1>6, <1>7 DEF Next, Server

\* Handling events never disconnects a client that is there, waits for its
\* answers and sends legal frames, even one as long as the read buffer: the
\* buffer is never full without a whole frame in it that is worked on at once.
THEOREM WellBehavedAlwaysKept == Spec => WellBehavedKept
<1>1. Init => WakeOK
  BY DEF Init, WakeOK, NoLostWakeup, Active, NoClient
<1>2. Core /\ FlowOK /\ [Next]_vars
      => [\A c \in Conns : WellBehaved(c) /\ sock[c] = "open" /\ sock'[c] = "dropped"
            => at # "events" \/ Down']_vars
  BY KeptStep
<1> QED
  BY <1>1, <1>2, CoreInit, CoreStep, WakeStep, FlowInit, FlowStep, PTL DEF Spec, WellBehavedKept
==================================================================================
