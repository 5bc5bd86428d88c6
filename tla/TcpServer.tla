------------------------------ MODULE TcpServer ------------------------------
(***************************************************************************)
(* The echo server of TcpServer.cpp on lwIP's netconn layer: the server    *)
(* task (api_lib.c, the API half), the tcpip thread's callbacks            *)
(* (api_msg.c) and what tcp_in.c and tcp.c do to a pcb around them.        *)
(*                                                                         *)
(* A connection c has a pcb (the stack's record) and, once accepted by     *)
(* accept_function, a netconn (the API's record); each is used once, so    *)
(* the pools are counts of them.  Every section that the code runs under   *)
(* the core lock is one action; what the server task does outside of it    *)
(* (the flag test before a fetch, the fetch, the read of conn->pcb) is     *)
(* an action of its own.  Sequence numbers are left out: a segment that    *)
(* reaches the stack is the next one in order, a dropped one is sent again.*)
(***************************************************************************)
EXTENDS Integers, Sequences, FiniteSets

CONSTANTS
    Conns,          \* the connections clients may open
    None,           \* no connection; in the acceptmbox: an error message
    BYTES,          \* bound: the bytes each client sends at most
    Chains,         \* the pbuf chains a segment comes in: where each pbuf ends
    NUM_NETCONN,    \* MEMP_NUM_NETCONN
    NUM_PCB,        \* MEMP_NUM_TCP_PCB
    ACCEPTMBOX,     \* DEFAULT_ACCEPTMBOX_SIZE
    RECVMBOX,       \* DEFAULT_TCP_RECVMBOX_SIZE
    WND,            \* TCP_WND
    SND_BUF         \* TCP_SND_BUF

ASSUME SizesAssumption ==
    /\ BYTES \in [Conns -> Nat]
    /\ {NUM_NETCONN, NUM_PCB, ACCEPTMBOX, RECVMBOX, WND, SND_BUF} \subseteq Nat \ {0}
    /\ Chains \subseteq {q \in Seq(Nat \ {0}) :
                         q # <<>> /\ \A i, j \in DOMAIN q : i < j => q[i] < q[j]}
    /\ None \notin Conns

VARIABLES
    pc,             \* where the server task is
    cur,            \* client_conn
    buf,            \* what is left to write of the netbuf
    listening,      \* the listen pcb and the acceptmbox exist
    acceptmbox,     \* netconns and error messages waiting for netconn_accept
    pcb,            \* struct tcp_pcb of each connection
    conn,           \* struct netconn of each connection
    rcvd,           \* bytes of each client the stack has taken
    taken,          \* bytes of each client netconn_recv has returned
    echoed          \* bytes passed to tcp_write, in order

vars == <<pc, cur, buf, listening, acceptmbox, pcb, conn, rcvd, taken, echoed>>

-------------------------------------------------------------------------------
(* The records.                                                            *)

Live     == {"syn_rcvd", "established", "close_wait", "fin_wait", "last_ack", "time_wait"}
Killable == {"last_ack", "time_wait"}   \* what tcp_alloc sacrifices for a new pcb

\* A pbuf chain carries the client's bytes from + 1 .. ends[Len(ends)]; ends[i] is
\* the last byte of its pbuf i.  Chain(q, b) has the bytes after b, cut as q says.
NULL        == [from |-> 0, ends |-> <<>>]
Chain(q, b) == IF q = <<>> THEN NULL
               ELSE [from |-> b, ends |-> [i \in DOMAIN q |-> b + q[i]]]
tot_len(q)  == IF q.ends = <<>> THEN 0 ELSE q.ends[Len(q.ends)] - q.from

\* The bytes of the first pbuf, and the chain after it (netbuf_data, netbuf_next).
netbuf_data(q) == [i \in 1 .. q.ends[1] - q.from |-> q.from + i]
netbuf_next(q) == IF Len(q.ends) > 1 THEN [from |-> q.ends[1], ends |-> Tail(q.ends)] ELSE NULL

\* A pcb just allocated, and one that does not exist (any more).
tcp_alloc == [state |-> "syn_rcvd", recv |-> FALSE, arg |-> FALSE, refused |-> NULL,
              finflag |-> FALSE, wnd |-> WND, rxclosed |-> FALSE, closepend |-> FALSE,
              unacked |-> 0]
Gone == [tcp_alloc EXCEPT !.state = "gone"]

Free == [alloc |-> FALSE, pcb |-> FALSE, state |-> "none", mbox |-> <<>>,
         valid |-> FALSE, closed |-> FALSE, pending |-> FALSE, msg |-> FALSE,
         todo |-> <<>>, ok |-> TRUE, sem |-> 0]

\* netconn_alloc and setup_tcp: a netconn bound to its pcb.
netconn_alloc == [Free EXCEPT !.alloc = TRUE, !.pcb = TRUE, !.valid = TRUE]
setup_tcp(p)  == [p EXCEPT !.recv = TRUE, !.arg = TRUE]

\* What the recvmbox holds.
Data(q) == [tag |-> "data", p |-> q]
Closed  == [tag |-> "closed", p |-> NULL]     \* netconn_closed
Failed  == [tag |-> "err", p |-> NULL]        \* netconn_aborted, netconn_reset

Smaller(a, b) == IF a < b THEN a ELSE b
One(b)        == IF b THEN 1 ELSE 0

-------------------------------------------------------------------------------
(* What a locked section does to one connection, as functions on its state *)
(* s = [p |-> pcb, n |-> netconn, e |-> bytes written].                    *)

State(c) == [p |-> pcb[c], n |-> conn[c], e |-> echoed[c]]

Set(c, s) == /\ pcb' = [pcb EXCEPT ![c] = s.p]
             /\ conn' = [conn EXCEPT ![c] = s.n]
             /\ echoed' = [echoed EXCEPT ![c] = s.e]

\* sys_mbox_trypost(&conn->recvmbox): only into a mailbox with room.
HasRoom(n)    == Len(n.mbox) < RECVMBOX
TryPost(n, m) == IF HasRoom(n) THEN [n EXCEPT !.mbox = Append(@, m)] ELSE n

\* Mutant of tcp_recved: the window may grow beyond TCP_WND.
RecvedUnbounded(p, len) == [p EXCEPT !.wnd = @ + len]

tcp_recved(p, len) == [p EXCEPT !.wnd = Smaller(WND, @ + len)]

\* Mutant of err_tcp: a write that waits is not told.
ErrWithoutSignal(n) ==
    LET told == IF n.valid THEN TryPost(n, Failed) ELSE n
    IN  [told EXCEPT !.pcb = FALSE, !.pending = TRUE, !.closed = TRUE, !.state = "none"]

\* Mutant of err_tcp: the recvmbox gets no message.
ErrWithoutMessage(n) ==
    LET dead == [n EXCEPT !.pcb = FALSE, !.pending = TRUE, !.closed = TRUE, !.state = "none"]
    IN  IF n.state = "write"
        THEN [dead EXCEPT !.ok = FALSE, !.msg = FALSE, !.sem = @ + 1]
        ELSE dead

\* The callback err_tcp: the pcb is gone; whoever waits for this netconn is told.
err_tcp(n) ==
    LET told == IF n.valid THEN TryPost(n, Failed) ELSE n
        dead == [told EXCEPT !.pcb = FALSE, !.pending = TRUE, !.closed = TRUE,
                             !.state = "none"]
    IN  IF n.state = "write"
        THEN [dead EXCEPT !.ok = FALSE, !.msg = FALSE, !.sem = @ + 1]
        ELSE dead

\* Mutant of tcp_abandon: the error callback is not called.
AbandonWithoutCallback(s) == [s EXCEPT !.p = Gone]

\* tcp_abort, and the end of a pcb that was reset.
tcp_abandon(s) == [s EXCEPT !.p = Gone, !.n = IF s.p.arg THEN err_tcp(@) ELSE @]

\* lwip_netconn_do_writemore of a blocking write.  mem: tcp_write finds memory;
\* route: tcp_output finds a route.
lwip_netconn_do_writemore(s, mem, route, delayed) ==
    LET len  == IF mem THEN Smaller(SND_BUF - s.p.unacked, Len(s.n.todo)) ELSE 0
        rest == SubSeq(s.n.todo, len + 1, Len(s.n.todo))
        done == rest = <<>> \/ ~route
        n1   == [s.n EXCEPT !.todo = rest]
    IN  [p |-> [s.p EXCEPT !.unacked = @ + len],
         n |-> IF done THEN [n1 EXCEPT !.ok = route, !.msg = FALSE, !.state = "none",
                                       !.sem = IF delayed THEN @ + 1 ELSE @]
               ELSE n1,
         e |-> s.e \o SubSeq(s.n.todo, 1, len)]

\* sent_tcp and poll_tcp: a write that waits goes on.
sent_tcp(s, mem, route) ==
    IF s.p.arg /\ s.n.state = "write"
    THEN lwip_netconn_do_writemore(s, mem, route, TRUE)
    ELSE s

\* Sending the FIN; without memory the pcb is marked and tcp_fasttmr tries again.
tcp_close_shutdown_fin(p, mem) ==
    IF p.state \notin {"established", "close_wait"} THEN p
    ELSE IF ~mem THEN [p EXCEPT !.closepend = TRUE]
    ELSE [p EXCEPT !.state = IF @ = "established" THEN "fin_wait" ELSE "last_ack",
                   !.closepend = FALSE]

\* Mutant of tcp_close: data that was not read is not looked at.
CloseWithoutReset(p, mem) == tcp_close_shutdown_fin([p EXCEPT !.rxclosed = TRUE], mem)

\* tcp_close: unread data turns the FIN into a RST, which frees the pcb.
tcp_close(p, mem) ==
    LET closing == [p EXCEPT !.rxclosed = TRUE]
    IN  IF p.state \in {"established", "close_wait"} /\ (p.refused # NULL \/ p.wnd # WND)
        THEN Gone
        ELSE tcp_close_shutdown_fin(closing, mem)

\* The recv callback: recv_tcp while the netconn wants data, none after.
recv_tcp(s, m) ==
    IF s.n.valid THEN [s EXCEPT !.n = TryPost(s.n, m)]
    ELSE [s EXCEPT !.p = tcp_recved(s.p, tot_len(m.p))]

tcp_recv_null(s, m) == [s EXCEPT !.p = tcp_recved(s.p, tot_len(m.p))]

TCP_EVENT_RECV(s, m) == IF s.p.recv THEN recv_tcp(s, m) ELSE tcp_recv_null(s, m)

\* The callback answers ERR_OK.
RecvOk(s) == s.p.recv /\ s.n.valid => HasRoom(s.n)

\* The end of the client's data: nobody looks at the callback's answer.
TCP_EVENT_CLOSED(s) ==
    LET open == [s EXCEPT !.p = tcp_recved(s.p, 1)]
    IN  IF s.p.recv THEN recv_tcp(open, Closed) ELSE open

\* Mutant of tcp_process_refused_data: refused_data is not cleared.
RefusedNotCleared(s) ==
    IF s.p.refused = NULL THEN s ELSE TCP_EVENT_RECV(s, Data(s.p.refused))

\* What the netconn refused is offered again.
tcp_process_refused_data(s) ==
    LET offer == TCP_EVENT_RECV([s EXCEPT !.p = [s.p EXCEPT !.refused = NULL, !.finflag = FALSE]],
                                Data(s.p.refused))
    IN  IF s.p.refused = NULL \/ ~RecvOk(s) THEN s
        ELSE IF s.p.finflag THEN TCP_EVENT_CLOSED(offer)
        ELSE offer

\* netconn_drain: the recvmbox is emptied and deleted.
netconn_drain(n) == [n EXCEPT !.mbox = <<>>, !.valid = FALSE]

\* The part of tcp_input after tcp_process for a segment that acknowledges k bytes.
Acked(s, k, mem, route) ==
    sent_tcp([s EXCEPT !.p = [s.p EXCEPT !.unacked = @ - k]], mem, route)

\* The same for the next segment in order, with data q (perhaps none) and a FIN.
Received(s, q, fin) ==
    LET next == IF ~fin THEN s.p.state
                ELSE IF s.p.state = "established" THEN "close_wait" ELSE "time_wait"
        got  == [s EXCEPT !.p = [s.p EXCEPT !.wnd = @ - tot_len(q) - One(fin), !.state = next]]
        kept == IF q = NULL THEN got
                ELSE IF RecvOk(got) THEN TCP_EVENT_RECV(got, Data(q))
                ELSE [got EXCEPT !.p = [got.p EXCEPT !.refused = q]]
    IN  IF q # NULL /\ s.p.rxclosed THEN tcp_abandon(got)
        ELSE IF ~fin THEN kept
        ELSE IF kept.p.refused = NULL THEN TCP_EVENT_CLOSED(kept)
        ELSE [kept EXCEPT !.p = [kept.p EXCEPT !.finflag = TRUE]]

-------------------------------------------------------------------------------
(* The tcpip thread.                                                       *)

Used == {c \in Conns : pcb[c].state \in Live}
PostAccept(m) == acceptmbox' = IF Len(acceptmbox) < ACCEPTMBOX
                               THEN Append(acceptmbox, m) ELSE acceptmbox

server == <<pc, cur, buf, listening, taken>>

\* tcp_handle_closepend: before a pcb is sacrificed, the FINs that found no memory
\* are tried again.
tcp_handle_closepend(mem) ==
    [d \in Conns |-> IF pcb[d].closepend THEN tcp_close_shutdown_fin(pcb[d], mem) ELSE pcb[d]]

\* tcp_listen_input: a SYN gets a pcb, if need be that of a connection that is
\* closing (ages are left out), and is dropped when its SYN|ACK finds no memory;
\* without a pcb the application is told.
Syn(c) ==
    /\ listening /\ pcb[c].state = "none"
    /\ \/ /\ Cardinality(Used) < NUM_PCB
          /\ pcb' = [pcb EXCEPT ![c] = tcp_alloc]
          /\ UNCHANGED acceptmbox
       \/ /\ Cardinality(Used) = NUM_PCB
          /\ \E mem \in BOOLEAN :
                LET retried == tcp_handle_closepend(mem)
                    victims == {d \in Used : retried[d].state \in Killable}
                IN  \/ /\ \E d \in victims, npcb \in {tcp_alloc, pcb[c]} :
                             pcb' = [retried EXCEPT ![c] = npcb, ![d] = Gone]
                       /\ UNCHANGED acceptmbox
                    \/ /\ victims = {}
                       /\ pcb' = retried
                       /\ PostAccept(None)
    /\ UNCHANGED <<server, conn, rcvd, echoed>>

\* The ACK that completes the handshake: accept_function makes a netconn and
\* queues it; when it cannot, tcp_process aborts the connection.
Established(c) ==
    LET netconns == Cardinality({d \in Conns : conn[d].alloc}) + 1
    IN  /\ pcb[c].state = "syn_rcvd"
        /\ \/ /\ PostAccept(None)       \* netconn_alloc fails: the pool, or the heap
              /\ pcb' = [pcb EXCEPT ![c] = Gone]
              /\ UNCHANGED conn
           \/ /\ netconns < NUM_NETCONN /\ Len(acceptmbox) = ACCEPTMBOX
              /\ pcb' = [pcb EXCEPT ![c] = Gone]
              /\ UNCHANGED <<acceptmbox, conn>>
           \/ /\ netconns < NUM_NETCONN /\ Len(acceptmbox) < ACCEPTMBOX
              /\ PostAccept(c)
              /\ pcb' = [pcb EXCEPT ![c] = setup_tcp([@ EXCEPT !.state = "established"])]
              /\ conn' = [conn EXCEPT ![c] = netconn_alloc]
        /\ UNCHANGED <<server, rcvd, echoed>>

\* A segment with data or a FIN.  Refused data is offered first; while it stays
\* refused the segment is dropped.
Segment(c, cut, fin) ==
    LET q    == Chain(cut, rcvd[c])
        need == tot_len(q) + One(fin)
        s    == tcp_process_refused_data(State(c))
    IN  /\ pcb[c].state \in {"established", "fin_wait"}
        /\ need > 0 /\ need <= pcb[c].wnd /\ rcvd[c] + tot_len(q) <= BYTES[c]
        /\ \/ /\ s.p.refused # NULL
              /\ Set(c, s)
              /\ UNCHANGED rcvd
           \/ /\ s.p.refused = NULL
              /\ Set(c, Received(s, q, fin))
              /\ rcvd' = [rcvd EXCEPT ![c] = @ + tot_len(q)]
        /\ UNCHANGED <<server, acceptmbox>>

\* A segment that only acknowledges.
Ack(c) ==
    /\ pcb[c].state \in {"established", "close_wait"}
    /\ \E k \in 1 .. pcb[c].unacked, mem \in BOOLEAN, route \in BOOLEAN :
          Set(c, Acked(tcp_process_refused_data(State(c)), k, mem, route))
    /\ UNCHANGED <<server, acceptmbox, rcvd>>

\* A RST of the client.
Reset(c) ==
    /\ pcb[c].state \in Live \ {"time_wait"}
    /\ Set(c, tcp_abandon(tcp_process_refused_data(State(c))))
    /\ UNCHANGED <<server, acceptmbox, rcvd>>

\* The stack aborts a connection: retransmissions ran out in tcp_slowtmr, or the
\* interface changed its address.
Abort(c) ==
    /\ pcb[c].state \in {"established", "close_wait"}
    /\ Set(c, tcp_abandon(State(c)))
    /\ UNCHANGED <<server, acceptmbox, rcvd>>

\* The last ACK, or a timer of tcp_slowtmr, ends a pcb no netconn has.
Expire(c) ==
    /\ pcb[c].state \in {"syn_rcvd", "fin_wait", "last_ack", "time_wait"}
    /\ pcb' = [pcb EXCEPT ![c] = Gone]
    /\ UNCHANGED <<server, acceptmbox, conn, rcvd, echoed>>

\* tcp_fasttmr: a FIN that found no memory, and refused data.
tcp_fasttmr(c) ==
    /\ pcb[c].closepend \/ pcb[c].refused # NULL
    /\ \E mem \in BOOLEAN :
          LET p1 == IF pcb[c].closepend THEN tcp_close_shutdown_fin(pcb[c], mem) ELSE pcb[c]
          IN  Set(c, tcp_process_refused_data([State(c) EXCEPT !.p = p1]))
    /\ UNCHANGED <<server, acceptmbox, rcvd>>

\* poll_tcp, called by tcp_slowtmr: a write that found no memory tries again.
poll_tcp(c, mem, route) ==
    /\ pcb[c].arg /\ conn[c].state = "write"
    /\ Set(c, lwip_netconn_do_writemore(State(c), mem, route, TRUE))
    /\ UNCHANGED <<server, acceptmbox, rcvd>>

-------------------------------------------------------------------------------
(* The server task.                                                        *)

stack == <<acceptmbox, pcb, conn, rcvd, echoed>>

Goto(l) == pc' = l

\* The two seconds, then netconn_new, netconn_bind and netconn_listen; the task
\* ends when one of the first two fails, and ignores the third.
netconn_new ==
    /\ pc = "new"
    /\ \/ Goto("bind") \/ Goto("ended")
    /\ UNCHANGED <<cur, buf, listening, taken, stack>>

netconn_bind ==
    /\ pc = "bind"
    /\ \/ Goto("listen") \/ Goto("ended")
    /\ UNCHANGED <<cur, buf, listening, taken, stack>>

netconn_listen ==
    /\ pc = "listen"
    /\ listening' \in BOOLEAN
    /\ Goto("accept")
    /\ UNCHANGED <<cur, buf, taken, stack>>

\* netconn_accept: without an acceptmbox it fails at once, else the task waits.
netconn_accept ==
    /\ pc = "accept"
    /\ \/ ~listening /\ Goto("backoff")
       \/ listening /\ Goto("accepting")
    /\ UNCHANGED <<cur, buf, listening, taken, stack>>

AcceptFetch ==
    /\ pc = "accepting" /\ acceptmbox # <<>>
    /\ acceptmbox' = Tail(acceptmbox)
    /\ cur' = Head(acceptmbox)
    /\ Goto(IF Head(acceptmbox) = None THEN "backoff" ELSE "recv")
    /\ UNCHANGED <<buf, listening, taken, pcb, conn, rcvd, echoed>>

\* vTaskDelay(100) after an error of netconn_accept.
Backoff ==
    /\ pc = "backoff"
    /\ Goto("accept")
    /\ UNCHANGED <<cur, buf, listening, taken, stack>>

\* netconn_recv_data takes a message: data and the end of data go on to
\* tcp_recved, an error ends the connection.
TakeMessage ==
    LET m == Head(conn[cur].mbox)
    IN  /\ conn' = [conn EXCEPT ![cur].mbox = Tail(@)]
        /\ buf' = m.p
        /\ taken' = [taken EXCEPT ![cur] = @ + tot_len(m.p)]
        /\ Goto(IF m = Failed THEN "close" ELSE "recved")
        /\ UNCHANGED <<cur, listening, acceptmbox, pcb, rcvd, echoed>>

\* netconn_recv: the test whether the connection died, with the tryfetch that
\* follows if so; otherwise the task goes to wait.
netconn_recv ==
    /\ pc = "recv"
    /\ LET dead == conn[cur].closed \/ conn[cur].pending
       IN  \/ /\ ~conn[cur].valid
              /\ Goto("close")
              /\ UNCHANGED <<cur, buf, listening, taken, stack>>
           \/ /\ conn[cur].valid /\ dead /\ conn[cur].mbox # <<>>
              /\ TakeMessage
           \/ /\ conn[cur].valid /\ dead /\ conn[cur].mbox = <<>>
              /\ conn' = [conn EXCEPT ![cur].pending = FALSE]
              /\ Goto("close")
              /\ UNCHANGED <<cur, buf, listening, taken, acceptmbox, pcb, rcvd, echoed>>
           \/ /\ conn[cur].valid /\ ~dead
              /\ Goto("fetch")
              /\ UNCHANGED <<cur, buf, listening, taken, stack>>

\* sys_arch_mbox_fetch(&conn->recvmbox), without a timeout.
Fetch ==
    /\ pc = "fetch" /\ conn[cur].mbox # <<>>
    /\ TakeMessage

\* lwip_netconn_do_recv: the window opens again (by one for the end of data).
lwip_netconn_do_recv ==
    LET len == IF buf = NULL THEN 1 ELSE tot_len(buf)
    IN  /\ pc = "recved"
        /\ pcb' = IF conn[cur].pcb THEN [pcb EXCEPT ![cur] = tcp_recved(@, len)] ELSE pcb
        /\ Goto(IF buf = NULL THEN "handle_fin" ELSE "write")
        /\ UNCHANGED <<cur, buf, listening, taken, acceptmbox, conn, rcvd, echoed>>

\* handle_fin of netconn_recv_data_tcp reads conn->pcb outside of the lock.
handle_fin ==
    /\ pc = "handle_fin"
    /\ \/ /\ conn[cur].pcb
          /\ Goto("shut_rd")
          /\ UNCHANGED conn
       \/ /\ ~conn[cur].pcb
          /\ conn' = [conn EXCEPT ![cur].pending = FALSE]
          /\ Goto("close")
    /\ UNCHANGED <<cur, buf, listening, taken, acceptmbox, pcb, rcvd, echoed>>

\* netconn_close_shutdown(NETCONN_SHUT_RD): the recvmbox goes, the pcb stays.
ShutRd ==
    /\ pc = "shut_rd"
    /\ \/ /\ conn[cur].pcb
          /\ conn' = [conn EXCEPT ![cur] = netconn_drain(@)]
          /\ pcb' = [pcb EXCEPT ![cur] = [@ EXCEPT !.recv = FALSE, !.rxclosed = TRUE,
                                                   !.refused = NULL, !.finflag = FALSE]]
       \/ ~conn[cur].pcb /\ UNCHANGED <<conn, pcb>>
    /\ Goto("close")
    /\ UNCHANGED <<cur, buf, listening, taken, acceptmbox, rcvd, echoed>>

\* The next fragment of the netbuf, or the next netbuf; after an error the loop ends.
NextFragment(ok) ==
    /\ buf' = IF ok THEN netbuf_next(buf) ELSE NULL
    /\ Goto(IF ~ok THEN "close" ELSE IF Len(buf.ends) > 1 THEN "write" ELSE "recv")

\* netconn_write of a fragment: lwip_netconn_do_write, which waits for the
\* semaphore when not everything could be queued.
netconn_write(mem, route) ==
    LET n == conn[cur]
        s == lwip_netconn_do_writemore(
                [State(cur) EXCEPT !.n = [n EXCEPT !.state = "write", !.msg = TRUE,
                                                   !.todo = netbuf_data(buf)]],
                mem, route, FALSE)
    IN  /\ pc = "write"
        /\ \/ /\ n.pending
              /\ conn' = [conn EXCEPT ![cur].pending = FALSE]
              /\ NextFragment(FALSE)
              /\ UNCHANGED <<pcb, echoed>>
           \/ /\ ~n.pending /\ (n.state # "none" \/ ~n.pcb)
              /\ NextFragment(FALSE)
              /\ UNCHANGED <<conn, pcb, echoed>>
           \/ /\ ~n.pending /\ n.state = "none" /\ n.pcb
              /\ Set(cur, s)
              /\ \/ s.n.state = "none" /\ NextFragment(route)
                 \/ s.n.state = "write" /\ Goto("sem") /\ UNCHANGED buf
        /\ UNCHANGED <<cur, listening, taken, acceptmbox, rcvd>>

\* sys_arch_sem_wait(op_completed): the write has ended.
SemWait ==
    /\ pc = "sem" /\ conn[cur].sem > 0
    /\ conn' = [conn EXCEPT ![cur].sem = @ - 1]
    /\ NextFragment(conn[cur].ok)
    /\ UNCHANGED <<cur, listening, taken, acceptmbox, pcb, rcvd, echoed>>

\* lwip_netconn_do_close_internal with both directions shut: the callbacks go,
\* then tcp_close.  Nobody looks at the send buffer of such a pcb.
Detach(p, mem) == tcp_close([p EXCEPT !.recv = FALSE, !.arg = FALSE, !.unacked = 0], mem)

\* netconn_close: lwip_netconn_do_close(NETCONN_SHUT_RDWR), which lets the pcb go.
netconn_close(mem) ==
    /\ pc = "close"
    /\ \/ /\ conn[cur].pcb /\ conn[cur].state = "none"
          /\ pcb' = [pcb EXCEPT ![cur] = Detach(@, mem)]
          /\ conn' = [conn EXCEPT ![cur] = [netconn_drain(@) EXCEPT !.pcb = FALSE]]
       \/ ~(conn[cur].pcb /\ conn[cur].state = "none") /\ UNCHANGED <<pcb, conn>>
    /\ Goto("delete")
    /\ UNCHANGED <<cur, buf, listening, taken, acceptmbox, rcvd, echoed>>

\* netconn_delete: lwip_netconn_do_delconn (a pcb that is left is closed) and
\* netconn_free; a netconn that is writing is left as it is.
netconn_delete(mem) ==
    /\ pc = "delete"
    /\ \/ /\ conn[cur].state = "none"
          /\ conn' = [conn EXCEPT ![cur] = Free]
          /\ pcb' = IF conn[cur].pcb
                    THEN [pcb EXCEPT ![cur] = Detach(@, mem)] ELSE pcb
       \/ conn[cur].state # "none" /\ UNCHANGED <<pcb, conn>>
    /\ cur' = None
    /\ Goto("accept")
    /\ UNCHANGED <<buf, listening, taken, acceptmbox, rcvd, echoed>>

-------------------------------------------------------------------------------
Init ==
    /\ pc = "new" /\ cur = None /\ buf = NULL /\ listening = FALSE /\ acceptmbox = <<>>
    /\ pcb = [c \in Conns |-> [Gone EXCEPT !.state = "none"]]
    /\ conn = [c \in Conns |-> Free]
    /\ rcvd = [c \in Conns |-> 0]
    /\ taken = [c \in Conns |-> 0]
    /\ echoed = [c \in Conns |-> <<>>]

Server ==
    \/ netconn_new \/ netconn_bind \/ netconn_listen \/ netconn_accept \/ AcceptFetch
    \/ Backoff \/ netconn_recv \/ Fetch \/ lwip_netconn_do_recv \/ handle_fin \/ ShutRd
    \/ \E mem, route \in BOOLEAN : netconn_write(mem, route)
    \/ SemWait
    \/ \E mem \in BOOLEAN : netconn_close(mem) \/ netconn_delete(mem)

\* The end of a client's stream: a client that has sent its FIN owes nothing more.
Finish(c) == \/ Segment(c, <<>>, TRUE)
             \/ pcb[c].state \in {"syn_rcvd", "established"} /\ Reset(c)

Next ==
    \/ Server
    \/ \E c \in Conns :
          \/ Syn(c) \/ Established(c) \/ Ack(c) \/ Reset(c) \/ Abort(c) \/ Expire(c)
          \/ tcp_fasttmr(c)
          \/ \E cut \in Chains \cup {<<>>}, fin \in BOOLEAN : Segment(c, cut, fin)
          \/ \E mem, route \in BOOLEAN : poll_tcp(c, mem, route)

Spec == Init /\ [][Next]_vars

\* The server task runs, the timers tick, a client acknowledges what it gets (or
\* tcp_slowtmr gives it up), ends its stream, and a write finds memory some day.
Fairness ==
    /\ WF_vars(Server)
    /\ \A c \in Conns :
          /\ WF_vars(tcp_fasttmr(c))
          /\ WF_vars(Ack(c) \/ (pcb[c].unacked > 0 /\ Abort(c)))
          /\ WF_vars(Finish(c))
          /\ WF_vars(poll_tcp(c, TRUE, TRUE))

FairSpec == Spec /\ Fairness
-------------------------------------------------------------------------------
(* Properties.                                                             *)

Pbufs == [from : Nat, ends : Seq(Nat)]

\* The mailboxes, the windows, the send buffers and the pools keep their bounds.
TypeOK ==
    /\ pc \in {"new", "bind", "listen", "accept", "accepting", "backoff", "recv", "fetch",
               "recved", "handle_fin", "shut_rd", "write", "sem", "close", "delete", "ended"}
    /\ cur \in Conns \cup {None} /\ buf \in Pbufs /\ listening \in BOOLEAN
    /\ acceptmbox \in Seq(Conns \cup {None}) /\ Len(acceptmbox) <= ACCEPTMBOX
    /\ \A c \in Conns :
          /\ pcb[c].state \in Live \cup {"none", "gone"}
          /\ pcb[c].refused \in Pbufs
          /\ pcb[c].wnd \in 0 .. WND /\ pcb[c].unacked \in 0 .. SND_BUF
          /\ conn[c].state \in {"none", "write"}
          /\ Len(conn[c].mbox) <= RECVMBOX /\ conn[c].sem \in {0, 1}
    /\ rcvd \in [Conns -> Nat] /\ taken \in [Conns -> Nat]
    /\ Cardinality(Used) <= NUM_PCB
    /\ Cardinality({c \in Conns : conn[c].alloc}) < NUM_NETCONN

\* A pcb calls back into a netconn exactly when that netconn exists and still has
\* it: no callback of tcp_in.c or tcp.c reaches a netconn that was freed, and no
\* API call a pcb that was (setup_tcp, err_tcp, lwip_netconn_do_close_internal).
\* A netconn is in the acceptmbox or in the server's hands, or back in its pool,
\* whatever goes wrong in accept_function, netconn_close or netconn_delete.
NetconnOwned ==
    \A c \in Conns :
        /\ pcb[c].arg <=> conn[c].pcb
        /\ conn[c].pcb => conn[c].alloc /\ pcb[c].state \in {"established", "close_wait"}
        /\ conn[c].alloc <=> c = cur \/ \E i \in DOMAIN acceptmbox : acceptmbox[i] = c

\* op_completed is given once for each write that waits and never otherwise (the
\* asserts "state!" of lwip_netconn_do_write).
SignalPending(c) ==
    LET n == conn[c]
    IN  IF pc = "sem" /\ c = cur
        THEN \/ n.sem = 1 /\ n.state = "none" /\ ~n.msg
             \/ n.sem = 0 /\ n.state = "write" /\ n.msg /\ n.pcb /\ n.todo # <<>>
        ELSE n.sem = 0 /\ n.state = "none" /\ ~n.msg

\* A blocked server will be woken: in sys_arch_sem_wait it has its signal or a
\* live pcb that will give it, once; and it never waits for the data of a dead
\* connection, although err_tcp may find the recvmbox full and come between
\* netconn_recv_data's test and its fetch.
ServerWoken ==
    /\ \A c \in Conns : SignalPending(c)
    /\ pc = "fetch" /\ ~conn[cur].pcb => conn[cur].mbox # <<>>

\* The client gets back its own bytes, each once and in the order it sent them,
\* over refused segments, partial writes, chains and delayed writes.
EchoInOrder ==
    \A c \in Conns :
        /\ \A i \in DOMAIN echoed[c] : echoed[c][i] = i
        /\ Len(echoed[c]) <= taken[c] /\ taken[c] <= rcvd[c]

\* A connection the server ends with a FIN had all its data read; what was
\* acknowledged to the client and thrown away makes it a RST (tcp_close_shutdown).
UnreadMeansReset ==
    \A c \in Conns :
        pcb[c].state \in {"fin_wait", "last_ack", "time_wait"} => taken[c] = rcvd[c]

\* The client's FIN is acknowledged, recv_tcp had no room for it, and the server
\* is not about to close for another reason.
FinLost(c) ==
    /\ pcb[c].state = "close_wait" /\ pcb[c].recv /\ pcb[c].refused = NULL
    /\ \A i \in DOMAIN conn[c].mbox : conn[c].mbox[i] # Closed
    /\ ~(c = cur /\ (pc \in {"handle_fin", "shut_rd", "close"} \/ (pc = "recved" /\ buf = NULL)))

\* Every connection that was accepted is served and freed, one after the other,
\* if the clients end their streams; the lost FIN is the only thing in the way.
EveryoneServed ==
    \A c \in Conns :
        conn[c].alloc ~> (~conn[c].alloc \/ \E d \in Conns : FinLost(d))

\* What recv_tcp refuses "is presented to us later again from tcp_fasttmr": so is
\* the end of the data.
FinPresentedAgain == \A c \in Conns : FinLost(c) ~> ~FinLost(c)
===============================================================================
