--------------------------- MODULE TcpServerProofs ---------------------------
(***************************************************************************)
(* Proofs about TcpServer, for any number of connections, any sizes of the *)
(* pools, mailboxes, windows and buffers, and any way to cut the clients'  *)
(* data into segments and pbufs.                                           *)
(*                                                                         *)
(* The invariant Good speaks of one connection: its pcb p, its netconn n,  *)
(* the bytes e echoed, the numbers r of bytes received and t of bytes      *)
(* taken, the place k of the server task if it serves this connection      *)
(* ("none" if not), and the netbuf b it holds.  The functions TcpServer is *)
(* made of preserve it one by one; the actions only put them together.     *)
(***************************************************************************)
EXTENDS TcpServer, TLAPS, SequenceTheorems, FiniteSetTheorems

-------------------------------------------------------------------------------
(* The invariant.                                                          *)

Msgs == [tag : {"data", "closed", "err"}, p : Pbufs]

PcbRecs ==
    [state : Live \cup {"none", "gone"}, recv : BOOLEAN, arg : BOOLEAN, refused : Pbufs,
     finflag : BOOLEAN, wnd : 0 .. WND, rxclosed : BOOLEAN, closepend : BOOLEAN,
     unacked : 0 .. SND_BUF]

Netconns ==
    [alloc : BOOLEAN, pcb : BOOLEAN, state : {"none", "write"}, mbox : Seq(Msgs),
     valid : BOOLEAN, closed : BOOLEAN, pending : BOOLEAN, msg : BOOLEAN,
     todo : Seq(Nat), ok : BOOLEAN, sem : Nat]

States == [p : PcbRecs, n : Netconns, e : Seq(Nat)]

\* A chain without pbufs is NULL; no pbuf of a chain is empty.
Upto(q) == q.ends[Len(q.ends)]
Whole(q) ==
    /\ q.ends = <<>> => q = NULL
    /\ \A i \in DOMAIN q.ends : q.from < q.ends[i]
    /\ \A i, j \in DOMAIN q.ends : i < j => q.ends[i] < q.ends[j]

\* Records of the right type; only data messages carry a chain.
Shaped(p, n, e) ==
    /\ p \in PcbRecs /\ n \in Netconns /\ e \in Seq(Nat)
    /\ Whole(p.refused)
    /\ Len(n.mbox) <= RECVMBOX
    /\ \A i \in DOMAIN n.mbox : /\ Whole(n.mbox[i].p)
                                /\ n.mbox[i].p = NULL <=> n.mbox[i].tag # "data"

\* A pcb and its netconn have each other; the recv callback is there exactly while
\* there is also a recvmbox; data is refused only for a netconn that may take it.
Owned(p, n) ==
    /\ p.arg <=> n.pcb
    /\ n.pcb => n.alloc /\ p.state \in {"established", "close_wait"}
    /\ n.alloc => p.state \notin {"none", "syn_rcvd"}
    /\ ~n.alloc => n = Free
    /\ p.closepend => ~p.arg
    /\ p.recv <=> n.valid /\ n.pcb
    /\ n.valid /\ ~n.pcb => n.closed
    /\ p.recv => ~p.rxclosed
    /\ p.refused # NULL => p.recv
    /\ p.finflag => p.refused # NULL /\ p.state = "close_wait"

\* The data in the mailbox q comes before anything else, starts after byte t and has
\* no gap; Tip: it ends with byte f.
Queue(q, r, t) ==
    /\ \A i, j \in DOMAIN q : i < j /\ q[j].p # NULL => q[i].p # NULL
    /\ \A i \in DOMAIN q : q[i].p # NULL =>
          Upto(q[i].p) <= r /\ q[i].p.from = IF i = 1 THEN t ELSE Upto(q[i - 1].p)
Tip(q, f, t) ==
    /\ \A i \in DOMAIN q : q[i].p # NULL /\ (i = Len(q) \/ q[i + 1].p = NULL) => Upto(q[i].p) = f
    /\ q = <<>> \/ q[1].p = NULL => t = f

\* What is refused continues the mailbox and ends what was received; the end of the
\* data comes last.
Mail(p, n, r, t) ==
    n.valid =>
        /\ Queue(n.mbox, r, t)
        /\ p.recv => /\ Tip(n.mbox, IF p.refused = NULL THEN r ELSE p.refused.from, t)
                     /\ p.refused # NULL => Upto(p.refused) = r
                     /\ \A i \in DOMAIN n.mbox : n.mbox[i].p = NULL =>
                           p.state = "close_wait" /\ p.refused = NULL

\* A pcb whose data nobody will read any more had all of it read.
Read(p, r, t) ==
    /\ p.state \in {"established", "close_wait"} /\ ~p.recv => p.rxclosed /\ t = r
    /\ p.state \in {"fin_wait", "last_ack", "time_wait"} => p.rxclosed /\ t = r
    /\ p.state \in {"none", "syn_rcvd"} => r = 0 /\ ~p.rxclosed /\ ~p.closepend

\* The window is smaller by at least what is unread, a FIN that waits behind refused
\* data, and what the server has taken but not yet told.
Window(p, r, t, k, b) ==
    p.recv => r - t + One(p.finflag) + (IF k = "recved" THEN tot_len(b) ELSE 0) <= WND - p.wnd

\* The server has seen the end of the data: there was no more.
Fin(p, r, t, k, b) ==
    p.recv /\ (k \in {"handle_fin", "shut_rd"} \/ (k = "recved" /\ b = NULL))
        => p.state = "close_wait" /\ t = r /\ p.refused = NULL

\* ServerWoken for one connection, and what the fetch relies on.
Signal(n, k) ==
    /\ IF k = "sem"
       THEN \/ n.sem = 1 /\ n.state = "none" /\ ~n.msg
            \/ n.sem = 0 /\ n.state = "write" /\ n.msg /\ n.pcb /\ n.todo # <<>>
       ELSE n.sem = 0 /\ n.state = "none" /\ ~n.msg
    /\ k = "fetch" => n.valid /\ (~n.pcb => n.mbox # <<>>)
    /\ k # "none" => n.alloc

\* What was echoed, and where the server is in the netbuf it echoes.
Echo(n, e, r, t, k, b) ==
    /\ \A i \in DOMAIN e : e[i] = i
    /\ Len(e) <= t /\ t <= r
    /\ k = "none" /\ n.alloc => t = 0
    /\ k \in {"recv", "fetch"} => Len(e) = t
    /\ k = "write" \/ (k = "recved" /\ b # NULL) => b # NULL /\ b.from = Len(e) /\ Upto(b) = t
    /\ k = "sem" =>
          /\ b # NULL /\ Upto(b) = t
          /\ n.state = "write" => /\ Len(e) + Len(n.todo) = b.ends[1]
                                  /\ \A i \in DOMAIN n.todo : n.todo[i] = Len(e) + i
          /\ n.state = "none" /\ n.ok => Len(e) = b.ends[1]

Good(p, n, e, r, t, k, b) ==
    /\ Shaped(p, n, e) /\ Owned(p, n) /\ Mail(p, n, r, t) /\ Read(p, r, t)
    /\ Window(p, r, t, k, b) /\ Fin(p, r, t, k, b) /\ Signal(n, k) /\ Echo(n, e, r, t, k, b)

-------------------------------------------------------------------------------
(* Chains, messages and records.                                           *)

LEMMA Sizes == /\ RECVMBOX \in Nat \ {0} /\ WND \in Nat \ {0} /\ SND_BUF \in Nat \ {0}
               /\ NUM_NETCONN \in Nat \ {0} /\ NUM_PCB \in Nat \ {0} /\ ACCEPTMBOX \in Nat \ {0}
BY SizesAssumption

\* No chain at all.
LEMMA NullChain == /\ NULL \in Pbufs /\ NULL.ends = <<>> /\ Whole(NULL) /\ tot_len(NULL) = 0
BY DEF NULL, Pbufs, Whole, tot_len

\* tot_len is the number of bytes in the chain.
LEMMA ChainLength ==
    ASSUME NEW q \in Pbufs, Whole(q), q # NULL
    PROVE  /\ q.ends # <<>> /\ q.ends \in Seq(Nat) /\ Len(q.ends) \in Nat \ {0}
           /\ Upto(q) \in Nat /\ q.from \in Nat /\ q.from < Upto(q)
           /\ tot_len(q) = Upto(q) - q.from
           /\ q.ends[1] \in Nat /\ q.from < q.ends[1] /\ q.ends[1] <= Upto(q)
<1>1. q.ends # <<>> /\ q.ends \in Seq(Nat) /\ q.from \in Nat  BY DEF Whole, Pbufs
<1>2. /\ Len(q.ends) \in Nat \ {0} /\ 1 \in DOMAIN q.ends /\ Len(q.ends) \in DOMAIN q.ends
      /\ q.ends[1] \in Nat /\ q.ends[Len(q.ends)] \in Nat
  BY <1>1
<1>3. q.ends[1] <= Upto(q)  BY <1>1, <1>2 DEF Whole, Upto
<1> QED BY <1>1, <1>2, <1>3 DEF Whole, Upto, tot_len

\* The length of any chain is a number.
LEMMA ChainLengthNat ==
    ASSUME NEW q \in Pbufs, Whole(q)
    PROVE  tot_len(q) \in Nat /\ (tot_len(q) = 0 <=> q = NULL)
<1>1. CASE q = NULL  BY <1>1, NullChain
<1>2. CASE q # NULL  BY <1>2, ChainLength
<1> QED BY <1>1, <1>2

LEMMA MessageTypes ==
    /\ Closed \in Msgs /\ Closed.p = NULL /\ Closed.tag = "closed"
    /\ Failed \in Msgs /\ Failed.p = NULL /\ Failed.tag = "err"
    /\ \A q \in Pbufs : Data(q) \in Msgs /\ Data(q).p = q /\ Data(q).tag = "data"
BY NullChain DEF Closed, Failed, Data, Msgs

LEMMA Records ==
    /\ tcp_alloc \in PcbRecs /\ Gone \in PcbRecs /\ Free \in Netconns /\ netconn_alloc \in Netconns
<1>1. tcp_alloc \in PcbRecs  BY NullChain, Sizes DEF tcp_alloc, PcbRecs, Live
<1>2. Gone \in PcbRecs  BY <1>1, NullChain, Sizes DEF Gone, PcbRecs, tcp_alloc
<1>3. Free \in Netconns  BY DEF Free, Netconns
<1>4. netconn_alloc \in Netconns  BY <1>3 DEF netconn_alloc, Free, Netconns
<1> QED BY <1>1, <1>2, <1>3, <1>4

\* A mailbox with one message more.
LEMMA Appended ==
    ASSUME NEW q \in Seq(Msgs), NEW m \in Msgs
    PROVE  /\ Append(q, m) \in Seq(Msgs) /\ Append(q, m) # <<>>
           /\ Len(Append(q, m)) = Len(q) + 1
           /\ \A i \in DOMAIN Append(q, m) :
                 Append(q, m)[i] = m \/ (i \in DOMAIN q /\ Append(q, m)[i] = q[i])
BY AppendProperties

\* sys_mbox_trypost only appends, and only where there is room.
LEMMA TryPostShape ==
    ASSUME NEW n \in Netconns, NEW m \in Msgs
    PROVE  /\ TryPost(n, m) \in Netconns
           /\ TryPost(n, m).state = n.state /\ TryPost(n, m).sem = n.sem
           /\ TryPost(n, m).todo = n.todo
           /\ TryPost(n, m).alloc <=> n.alloc
           /\ TryPost(n, m).pcb <=> n.pcb
           /\ TryPost(n, m).valid <=> n.valid
           /\ TryPost(n, m).closed <=> n.closed
           /\ TryPost(n, m).msg <=> n.msg
           /\ TryPost(n, m).ok <=> n.ok
           /\ TryPost(n, m).mbox = IF Len(n.mbox) < RECVMBOX THEN Append(n.mbox, m) ELSE n.mbox
<1>1. n.mbox \in Seq(Msgs)  BY DEF Netconns
<1>2. PICK q \in Seq(Msgs) : q = Append(n.mbox, m)  BY <1>1, AppendProperties
<1>3. [n EXCEPT !.mbox = q] \in Netconns  BY DEF Netconns
<1>4. CASE Len(n.mbox) < RECVMBOX
  <2>1. TryPost(n, m) = [n EXCEPT !.mbox = q]  BY <1>2, <1>4 DEF TryPost, HasRoom
  <2> QED BY <1>2, <1>3, <1>4, <2>1 DEF Netconns
<1>5. CASE ~(Len(n.mbox) < RECVMBOX)
  <2>1. TryPost(n, m) = n  BY <1>5 DEF TryPost, HasRoom
  <2> QED BY <1>5, <2>1
<1> QED BY <1>4, <1>5

\* err_tcp, field by field.
LEMMA ErrShape ==
    ASSUME NEW n \in Netconns
    PROVE  /\ err_tcp(n) \in Netconns
           /\ err_tcp(n).alloc <=> n.alloc
           /\ ~err_tcp(n).pcb
           /\ err_tcp(n).valid <=> n.valid
           /\ err_tcp(n).closed /\ err_tcp(n).state = "none"
           /\ err_tcp(n).mbox = IF n.valid THEN TryPost(n, Failed).mbox ELSE n.mbox
           /\ n.state = "write" =>
                 ~err_tcp(n).ok /\ ~err_tcp(n).msg /\ err_tcp(n).sem = n.sem + 1
           /\ n.state # "write" =>
                 (err_tcp(n).ok <=> n.ok) /\ (err_tcp(n).msg <=> n.msg) /\ err_tcp(n).sem = n.sem
<1> DEFINE m == IF n.valid THEN TryPost(n, Failed) ELSE n
<1>1. PICK told \in Netconns : told = m  BY TryPostShape, MessageTypes
<1>2. /\ told.alloc <=> n.alloc
      /\ told.valid <=> n.valid
      /\ told.ok <=> n.ok
      /\ told.msg <=> n.msg
      /\ told.sem = n.sem
      /\ told.mbox = IF n.valid THEN TryPost(n, Failed).mbox ELSE n.mbox
  BY <1>1, TryPostShape, MessageTypes DEF Netconns
<1> DEFINE d == [told EXCEPT !.pcb = FALSE, !.pending = TRUE, !.closed = TRUE, !.state = "none"]
<1>3. PICK dead \in Netconns : dead = d  BY DEF Netconns
<1>4. /\ ~dead.pcb /\ dead.closed /\ dead.state = "none"
      /\ dead.alloc <=> told.alloc
      /\ dead.valid <=> told.valid
      /\ dead.ok <=> told.ok
      /\ dead.msg <=> told.msg
      /\ dead.sem = told.sem /\ dead.mbox = told.mbox
  BY <1>3 DEF Netconns
<1>5. err_tcp(n) = IF n.state = "write"
                   THEN [dead EXCEPT !.ok = FALSE, !.msg = FALSE, !.sem = @ + 1] ELSE dead
  BY <1>1, <1>3 DEF err_tcp
<1>6. CASE n.state # "write"  BY <1>2, <1>4, <1>5, <1>6
<1>7. CASE n.state = "write"
  <2>0. dead.sem + 1 \in Nat  BY DEF Netconns
  <2>1. PICK w \in Netconns : w = [dead EXCEPT !.ok = FALSE, !.msg = FALSE, !.sem = @ + 1]
    BY <2>0 DEF Netconns
  <2>2. /\ ~w.ok /\ ~w.msg /\ w.sem = dead.sem + 1 /\ ~w.pcb /\ w.closed /\ w.state = "none"
        /\ w.alloc <=> dead.alloc
        /\ w.valid <=> dead.valid
        /\ w.mbox = dead.mbox
    BY <2>1, <1>4 DEF Netconns
  <2> QED BY <1>2, <1>4, <1>5, <1>7, <2>1, <2>2
<1> QED BY <1>6, <1>7

\* A data message that continues the mailbox.
LEMMA QueueData ==
    ASSUME NEW q \in Seq(Msgs), NEW m \in Msgs, NEW r \in Nat, NEW r2 \in Nat, NEW t \in Nat,
           NEW f \in Nat, Queue(q, r, t), Tip(q, f, t), \A i \in DOMAIN q : q[i].p # NULL,
           m.p # NULL, m.p.from = f, Upto(m.p) <= r2, r <= r2, Upto(m.p) \in Nat,
           \A i \in DOMAIN q : Upto(q[i].p) \in Nat
    PROVE  Queue(Append(q, m), r2, t) /\ Tip(Append(q, m), Upto(m.p), t)
<1> DEFINE a == Append(q, m)
<1>1. /\ a \in Seq(Msgs) /\ Len(a) = Len(q) + 1 /\ a[Len(q) + 1] = m
      /\ \A i \in DOMAIN q : a[i] = q[i]
      /\ DOMAIN a = 1 .. Len(q) + 1 /\ DOMAIN q = 1 .. Len(q) /\ Len(q) \in Nat
  BY AppendProperties
<1>2. \A i \in DOMAIN a : a[i].p # NULL  BY <1>1
<1>3. ASSUME NEW i \in DOMAIN a
      PROVE  Upto(a[i].p) <= r2 /\ a[i].p.from = IF i = 1 THEN t ELSE Upto(a[i - 1].p)
  <2>1. CASE i = Len(q) + 1
    <3>1. CASE q = <<>>  BY <3>1, <2>1, <1>1 DEF Tip
    <3>2. CASE q # <<>>
      <4>1. Len(q) \in DOMAIN q /\ i # 1 /\ i - 1 = Len(q)  BY <3>2, <2>1, <1>1
      <4>2. Upto(q[Len(q)].p) = f  BY <4>1 DEF Tip
      <4> QED BY <4>1, <4>2, <2>1, <1>1
    <3> QED BY <3>1, <3>2
  <2>2. CASE i # Len(q) + 1
    <3>1. i \in DOMAIN q /\ a[i] = q[i]  BY <2>2, <1>1
    <3>2. i # 1 => i - 1 \in DOMAIN q /\ a[i - 1] = q[i - 1]  BY <3>1, <1>1
    <3>3. Upto(q[i].p) <= r /\ q[i].p.from = IF i = 1 THEN t ELSE Upto(q[i - 1].p)
      BY <3>1 DEF Queue
    <3> QED BY <3>1, <3>2, <3>3
  <2> QED BY <2>1, <2>2
<1>4. Queue(a, r2, t)  BY <1>2, <1>3 DEF Queue
<1>5. ASSUME NEW i \in DOMAIN a, a[i].p # NULL /\ (i = Len(a) \/ a[i + 1].p = NULL)
      PROVE  Upto(a[i].p) = Upto(m.p)
  <2>1. i # Len(a) => i + 1 \in DOMAIN a  BY <1>1
  <2> QED BY <2>1, <1>1, <1>2, <1>5
<1>6. ~(a = <<>> \/ a[1].p = NULL)  BY <1>1, <1>2
<1>7. Tip(a, Upto(m.p), t)  BY <1>5, <1>6 DEF Tip
<1> QED BY <1>4, <1>7

\* The end of the data, or an error, comes after everything.
LEMMA QueueEnd ==
    ASSUME NEW q \in Seq(Msgs), NEW m \in Msgs, NEW r \in Nat, NEW t \in Nat, Queue(q, r, t),
           m.p = NULL
    PROVE  /\ Queue(Append(q, m), r, t)
           /\ \A f \in Nat : Tip(q, f, t) => Tip(Append(q, m), f, t)
<1> DEFINE a == Append(q, m)
<1>1. /\ a \in Seq(Msgs) /\ Len(a) = Len(q) + 1 /\ a[Len(q) + 1] = m
      /\ \A i \in DOMAIN q : a[i] = q[i]
      /\ DOMAIN a = 1 .. Len(q) + 1 /\ DOMAIN q = 1 .. Len(q) /\ Len(q) \in Nat
  BY AppendProperties
<1>2. \A i \in DOMAIN a : a[i].p # NULL => i \in DOMAIN q  BY <1>1
<1>3. ASSUME NEW i \in DOMAIN a, NEW j \in DOMAIN a, i < j /\ a[j].p # NULL
      PROVE  a[i].p # NULL
  <2>1. i \in DOMAIN q /\ j \in DOMAIN q  BY <1>1, <1>2, <1>3
  <2> QED BY <2>1, <1>1, <1>3 DEF Queue
<1>4. ASSUME NEW i \in DOMAIN a, a[i].p # NULL
      PROVE  Upto(a[i].p) <= r /\ a[i].p.from = IF i = 1 THEN t ELSE Upto(a[i - 1].p)
  <2>1. i \in DOMAIN q /\ a[i] = q[i]  BY <1>1, <1>2, <1>4
  <2>2. i # 1 => i - 1 \in DOMAIN q /\ a[i - 1] = q[i - 1]  BY <2>1, <1>1
  <2>3. Upto(q[i].p) <= r /\ q[i].p.from = IF i = 1 THEN t ELSE Upto(q[i - 1].p)
    BY <2>1, <1>4 DEF Queue
  <2> QED BY <2>1, <2>2, <2>3
<1>5. Queue(a, r, t)  BY <1>3, <1>4 DEF Queue
<1>6. ASSUME NEW f \in Nat, Tip(q, f, t)
      PROVE  Tip(a, f, t)
  <2>1. ASSUME NEW i \in DOMAIN a, a[i].p # NULL /\ (i = Len(a) \/ a[i + 1].p = NULL)
        PROVE  Upto(a[i].p) = f
    <3>1. i \in DOMAIN q /\ a[i] = q[i]  BY <1>1, <1>2, <2>1
    <3>2. i # Len(q) => i + 1 \in DOMAIN q /\ a[i + 1] = q[i + 1]  BY <3>1, <1>1
    <3>3. i # Len(a)  BY <3>1, <1>1
    <3> QED BY <3>1, <3>2, <3>3, <2>1, <1>6 DEF Tip
  <2>2. ASSUME a = <<>> \/ a[1].p = NULL
        PROVE  t = f
    <3>1. q = <<>> \/ q[1].p = NULL  BY <2>2, <1>1
    <3> QED BY <3>1, <1>6 DEF Tip
  <2> QED BY <2>1, <2>2 DEF Tip
<1> QED BY <1>5, <1>6

\* The server takes the first message.
LEMMA QueueTail ==
    ASSUME NEW q \in Seq(Msgs), q # <<>>, NEW r \in Nat, NEW t \in Nat, Queue(q, r, t),
           NEW t2 \in Nat, t2 = IF q[1].p = NULL THEN t ELSE Upto(q[1].p)
    PROVE  /\ Queue(Tail(q), r, t2)
           /\ \A f \in Nat : Tip(q, f, t) => Tip(Tail(q), f, t2)
<1> DEFINE a == Tail(q)
<1>1. /\ a \in Seq(Msgs) /\ Len(a) = Len(q) - 1 /\ Len(q) \in Nat \ {0}
      /\ \A i \in 1 .. Len(q) - 1 : a[i] = q[i + 1]
      /\ DOMAIN a = 1 .. Len(q) - 1 /\ DOMAIN q = 1 .. Len(q)
  BY HeadTailProperties
<1>2. ASSUME NEW i \in DOMAIN a
      PROVE  i + 1 \in DOMAIN q /\ a[i] = q[i + 1] /\ i \in DOMAIN q /\ i \in Nat \ {0}
  BY <1>1
<1>3. ASSUME NEW i \in DOMAIN a, NEW j \in DOMAIN a, i < j /\ a[j].p # NULL
      PROVE  a[i].p # NULL
  <2>1. i + 1 < j + 1  BY <1>2, <1>3
  <2> QED BY <2>1, <1>2, <1>3 DEF Queue
<1>4. ASSUME NEW i \in DOMAIN a, a[i].p # NULL
      PROVE  Upto(a[i].p) <= r /\ a[i].p.from = IF i = 1 THEN t2 ELSE Upto(a[i - 1].p)
  <2>1. i + 1 \in DOMAIN q /\ a[i] = q[i + 1] /\ i + 1 # 1 /\ (i + 1) - 1 = i  BY <1>2
  <2>2. Upto(q[i + 1].p) <= r /\ q[i + 1].p.from = Upto(q[i].p)  BY <2>1, <1>4 DEF Queue
  <2>3. 1 \in DOMAIN q /\ 1 < i + 1  BY <1>1, <1>2
  <2>4. q[1].p # NULL  BY <2>1, <2>3, <1>4 DEF Queue
  <2>5. i # 1 => i - 1 \in DOMAIN a /\ a[i - 1] = q[i]  BY <1>1, <1>2
  <2> QED BY <2>1, <2>2, <2>4, <2>5
<1>5. Queue(a, r, t2)  BY <1>3, <1>4 DEF Queue
<1>6. ASSUME NEW f \in Nat, Tip(q, f, t)
      PROVE  Tip(a, f, t2)
  <2>1. ASSUME NEW i \in DOMAIN a, a[i].p # NULL /\ (i = Len(a) \/ a[i + 1].p = NULL)
        PROVE  Upto(a[i].p) = f
    <3>1. i + 1 \in DOMAIN q /\ a[i] = q[i + 1]  BY <1>2
    <3>2. i # Len(a) => a[i + 1] = q[(i + 1) + 1]  BY <1>1
    <3>3. i = Len(a) => i + 1 = Len(q)  BY <1>1
    <3> QED BY <3>1, <3>2, <3>3, <2>1, <1>6 DEF Tip
  <2>2. ASSUME a = <<>> \/ a[1].p = NULL
        PROVE  t2 = f
    <3>1. 1 \in DOMAIN q /\ (1 = Len(q) \/ q[1 + 1].p = NULL)
      <4>1. CASE Len(q) = 1  BY <4>1, <1>1
      <4>2. CASE Len(q) # 1
        <5>1. 1 \in DOMAIN a /\ a[1] = q[1 + 1] /\ a # <<>>  BY <4>2, <1>1
        <5> QED BY <5>1, <2>2, <1>1
      <4> QED BY <4>1, <4>2
    <3> QED BY <3>1, <1>6 DEF Tip
  <2> QED BY <2>1, <2>2 DEF Tip
<1> QED BY <1>5, <1>6

-------------------------------------------------------------------------------
(* What the stack does to a connection.                                    *)

LEMMA GoneShape ==
    /\ Gone \in PcbRecs /\ Gone.state = "gone" /\ ~Gone.recv /\ ~Gone.arg /\ Gone.refused = NULL
    /\ ~Gone.finflag /\ ~Gone.closepend
BY Records DEF Gone, tcp_alloc

\* tcp_abandon and err_tcp: the connection is dead and everyone is told.
LEMMA DeadGood ==
    ASSUME NEW p, NEW n, NEW e, NEW r \in Nat, NEW r2 \in Nat, NEW t \in Nat, NEW k,
           NEW b \in Pbufs, Good(p, n, e, r, t, k, b), r <= r2,
           NEW n2, n2 = IF p.arg THEN err_tcp(n) ELSE n
    PROVE  Good(Gone, n2, e, r2, t, k, b)
<1>1. p \in PcbRecs /\ n \in Netconns /\ e \in Seq(Nat)  BY DEF Good, Shaped
<1>2. Owned(p, n) /\ Mail(p, n, r, t) /\ Signal(n, k) /\ Echo(n, e, r, t, k, b)  BY DEF Good
<1>3. n2 \in Netconns  BY <1>1, ErrShape
<1>4. n.mbox \in Seq(Msgs) /\ Len(n.mbox) \in Nat /\ Len(n.mbox) <= RECVMBOX
  BY <1>1 DEF Netconns, Good, Shaped
<1>posted. TryPost(n, Failed).mbox = IF Len(n.mbox) < RECVMBOX THEN Append(n.mbox, Failed) ELSE n.mbox
  BY <1>1, TryPostShape, MessageTypes
<1>err. err_tcp(n).mbox = IF n.valid THEN TryPost(n, Failed).mbox ELSE n.mbox
  BY <1>1, ErrShape
<1>5. \/ n2.mbox = n.mbox
      \/ n2.mbox = Append(n.mbox, Failed) /\ Len(n.mbox) < RECVMBOX
  BY <1>posted, <1>err
<1>6. Shaped(Gone, n2, e)
  <2>1. Len(n2.mbox) <= RECVMBOX
    <3>1. Len(Append(n.mbox, Failed)) = Len(n.mbox) + 1  BY <1>4, MessageTypes, AppendProperties
    <3> QED BY <3>1, <1>4, <1>5, Sizes
  <2>2. ASSUME NEW i \in DOMAIN n2.mbox
        PROVE  Whole(n2.mbox[i].p) /\ (n2.mbox[i].p = NULL <=> n2.mbox[i].tag # "data")
    <3>1. CASE n2.mbox = n.mbox  BY <3>1 DEF Good, Shaped
    <3>2. CASE n2.mbox = Append(n.mbox, Failed)
      <4>1. n2.mbox[i] = Failed \/ (i \in DOMAIN n.mbox /\ n2.mbox[i] = n.mbox[i])
        BY <3>2, <1>4, MessageTypes, Appended, SMTT(60)
      <4>2. CASE n2.mbox[i] = Failed  BY <4>2, MessageTypes, NullChain
      <4>3. CASE i \in DOMAIN n.mbox /\ n2.mbox[i] = n.mbox[i]  BY <4>3 DEF Good, Shaped
      <4> QED BY <4>1, <4>2, <4>3
    <3> QED BY <3>1, <3>2, <1>5
  <2> QED BY <2>1, <2>2, <1>1, <1>3, GoneShape, NullChain DEF Shaped
<1>7. Owned(Gone, n2)
  <2>1. ~n2.pcb /\ (n2.alloc <=> n.alloc) /\ (n2.valid <=> n.valid)
    BY <1>1, <1>2, ErrShape DEF Owned, PcbRecs, Netconns
  <2>2. ~n2.alloc => n2 = Free  BY <1>2, <2>1 DEF Owned
  <2>3. n2.valid => n2.closed  BY <1>1, <1>2, <2>1, ErrShape DEF Owned
  <2> QED BY <2>1, <2>2, <2>3, GoneShape DEF Owned
<1>8. Mail(Gone, n2, r2, t)
  <2>1. SUFFICES ASSUME n2.valid PROVE Queue(n2.mbox, r2, t)  BY GoneShape DEF Mail
  <2>2. n.valid  BY <2>1, <1>1, ErrShape
  <2>3. Queue(n.mbox, r, t)  BY <2>2, <1>2 DEF Mail
  <2>4. Queue(n2.mbox, r, t)  BY <2>3, <1>4, <1>5, QueueEnd, MessageTypes
  <2>5. \A i \in DOMAIN n2.mbox : n2.mbox[i].p # NULL => Upto(n2.mbox[i].p) \in Nat
    <3>1. n2.mbox \in Seq(Msgs)  BY <1>3 DEF Netconns
    <3>2. \A i \in DOMAIN n2.mbox : n2.mbox[i] \in Msgs  BY <3>1
    <3>3. \A i \in DOMAIN n2.mbox : n2.mbox[i].p \in Pbufs  BY <3>2 DEF Msgs
    <3> QED BY <3>3, <1>6, ChainLength DEF Shaped
  <2>6. ASSUME NEW i \in DOMAIN n2.mbox, n2.mbox[i].p # NULL
        PROVE  Upto(n2.mbox[i].p) <= r2
    BY <2>4, <2>5, <2>6 DEF Queue
  <2> QED BY <2>4, <2>6 DEF Queue
<1>9. Read(Gone, r2, t) /\ Window(Gone, r2, t, k, b) /\ Fin(Gone, r2, t, k, b)
  BY GoneShape DEF Read, Window, Fin
<1>10. Signal(n2, k)
  <2>1. CASE ~p.arg  BY <2>1, <1>2
  <2>2. CASE p.arg
    <3>1. /\ n2.state = "none" /\ ~n2.pcb /\ (n2.alloc <=> n.alloc) /\ (n2.valid <=> n.valid)
          /\ n.state = "write" => ~n2.msg /\ n2.sem = n.sem + 1
          /\ n.state # "write" => (n2.msg <=> n.msg) /\ n2.sem = n.sem
      BY <2>2, <1>1, ErrShape
    <3>2. IF k = "sem" THEN n2.sem = 1 /\ ~n2.msg ELSE n2.sem = 0 /\ ~n2.msg
      BY <3>1, <1>2 DEF Signal
    <3>3. n.valid => n2.mbox # <<>>
      <4>1. SUFFICES ASSUME n.valid PROVE n2.mbox # <<>>  OBVIOUS
      <4>2. n2.mbox = IF Len(n.mbox) < RECVMBOX THEN Append(n.mbox, Failed) ELSE n.mbox
        BY <4>1, <2>2, <1>posted, <1>err
      <4>3. Append(n.mbox, Failed) # <<>>  BY <1>4, MessageTypes, AppendProperties
      <4>4. ~(Len(n.mbox) < RECVMBOX) => n.mbox # <<>>  BY <1>4, Sizes
      <4> QED BY <4>2, <4>3, <4>4
    <3> QED BY <3>1, <3>2, <3>3, <1>2 DEF Signal
  <2> QED BY <2>1, <2>2
<1>11. Echo(n2, e, r2, t, k, b)
  <2>1. n2.alloc <=> n.alloc  BY <1>1, ErrShape
  <2>2. Len(e) \in Nat  BY <1>1
  <2>3. n2.state = "write" => n2 = n  BY <1>1, ErrShape
  <2>4. k = "sem" /\ n2.state = "none" /\ n2.ok => n.state = "none" /\ n.ok
    BY <1>1, <1>2, ErrShape DEF Signal, Netconns
  <2> QED BY <2>1, <2>2, <2>3, <2>4, <1>2 DEF Echo
<1> QED BY <1>6, <1>7, <1>8, <1>9, <1>10, <1>11 DEF Good

\* A pcb whose data nobody reads may go on closing, or be freed or allocated.
LEMMA QuietGood ==
    ASSUME NEW p, NEW n, NEW e, NEW r \in Nat, NEW t \in Nat, NEW k,
           NEW b \in Pbufs, Good(p, n, e, r, t, k, b), ~p.recv,
           NEW p2 \in PcbRecs, ~p2.recv, p2.refused = NULL, ~p2.finflag,
           p2.arg <=> p.arg,
           p2.arg => p2.state \in {"established", "close_wait"} /\ ~p2.closepend,
           n.alloc => p2.state \notin {"none", "syn_rcvd"}, Read(p2, r, t)
    PROVE  Good(p2, n, e, r, t, k, b)
<1>2. Shaped(p2, n, e)  BY NullChain DEF Good, Shaped
<1>3. Owned(p2, n)  BY DEF Good, Owned
<1>4. Mail(p2, n, r, t)  BY DEF Good, Mail
<1>5. Window(p2, r, t, k, b) /\ Fin(p2, r, t, k, b)  BY DEF Window, Fin
<1> QED BY <1>2, <1>3, <1>4, <1>5 DEF Good

\* Two pcbs that differ at most in their window, send buffer and refused data.
Alike(p, p2) ==
    /\ p2.state = p.state
    /\ p2.recv <=> p.recv
    /\ p2.arg <=> p.arg
    /\ p2.rxclosed <=> p.rxclosed
    /\ p2.closepend <=> p.closepend

\* tcp_recved changes only the window, which stays in its bounds.
LEMMA RecvedShape ==
    ASSUME NEW p \in PcbRecs, NEW len \in Nat
    PROVE  /\ tcp_recved(p, len) \in PcbRecs
           /\ tcp_recved(p, len).state = p.state /\ tcp_recved(p, len).unacked = p.unacked
           /\ tcp_recved(p, len).refused = p.refused
           /\ tcp_recved(p, len).recv <=> p.recv
           /\ tcp_recved(p, len).arg <=> p.arg
           /\ tcp_recved(p, len).finflag <=> p.finflag
           /\ tcp_recved(p, len).rxclosed <=> p.rxclosed
           /\ tcp_recved(p, len).closepend <=> p.closepend
           /\ tcp_recved(p, len).wnd = IF WND < p.wnd + len THEN WND ELSE p.wnd + len
<1>1. p.wnd \in 0 .. WND  BY DEF PcbRecs
<1>2. PICK w \in 0 .. WND : w = IF WND < p.wnd + len THEN WND ELSE p.wnd + len
  BY <1>1, Sizes
<1>3. tcp_recved(p, len) = [p EXCEPT !.wnd = w]  BY <1>1, <1>2, Sizes DEF tcp_recved, Smaller
<1>4. [p EXCEPT !.wnd = w] \in PcbRecs  BY DEF PcbRecs
<1> QED BY <1>2, <1>3, <1>4 DEF PcbRecs

\* The netconn takes what it had refused.
LEMMA OfferGood ==
    ASSUME NEW p, NEW n, NEW e, NEW r \in Nat, NEW t \in Nat, NEW k,
           NEW b \in Pbufs, Whole(b), Good(p, n, e, r, t, k, b), p.refused # NULL, HasRoom(n),
           NEW p2 \in PcbRecs, Alike(p, p2), p2.wnd = p.wnd, p2.refused = NULL, ~p2.finflag,
           NEW n2, n2 = TryPost(n, Data(p.refused))
    PROVE  Good(p2, n2, e, r, t, k, b)
<1>1. p \in PcbRecs /\ n \in Netconns /\ e \in Seq(Nat) /\ Whole(p.refused) /\ p.refused \in Pbufs
  BY DEF Good, Shaped, PcbRecs
<1>2. /\ Owned(p, n) /\ Mail(p, n, r, t) /\ Read(p, r, t) /\ Window(p, r, t, k, b)
      /\ Fin(p, r, t, k, b) /\ Signal(n, k) /\ Echo(n, e, r, t, k, b)
  BY DEF Good
<1>3. /\ p2 \in PcbRecs /\ p2.refused = NULL /\ ~p2.finflag
      /\ p2.state = p.state /\ p2.wnd = p.wnd
      /\ p2.recv <=> p.recv
      /\ p2.arg <=> p.arg
      /\ p2.rxclosed <=> p.rxclosed
      /\ p2.closepend <=> p.closepend
  BY DEF Alike
<1> DEFINE m == Data(p.refused)
<1>4. m \in Msgs /\ m.p = p.refused /\ m.tag = "data"  BY <1>1, MessageTypes
<1>5. /\ n2 \in Netconns /\ n2.mbox = Append(n.mbox, m) /\ n2.state = n.state /\ n2.sem = n.sem
      /\ n2.todo = n.todo
      /\ n2.alloc <=> n.alloc
      /\ n2.pcb <=> n.pcb
      /\ n2.valid <=> n.valid
      /\ n2.closed <=> n.closed
      /\ n2.msg <=> n.msg
      /\ n2.ok <=> n.ok
  BY <1>1, <1>4, TryPostShape DEF HasRoom
<1>6. n.mbox \in Seq(Msgs) /\ Len(n.mbox) \in Nat /\ Len(n.mbox) < RECVMBOX
  BY <1>1 DEF Netconns, HasRoom
<1>7. p.recv /\ n.valid /\ n.pcb /\ n.alloc  BY <1>2 DEF Owned
<1>8. Shaped(p2, n2, e)
  <2>1. Len(n2.mbox) <= RECVMBOX  BY <1>4, <1>5, <1>6, AppendProperties, Sizes
  <2>2. ASSUME NEW i \in DOMAIN n2.mbox
        PROVE  Whole(n2.mbox[i].p) /\ (n2.mbox[i].p = NULL <=> n2.mbox[i].tag # "data")
    <3>1. n2.mbox[i] = m \/ (i \in DOMAIN n.mbox /\ n2.mbox[i] = n.mbox[i])
      BY <1>4, <1>5, <1>6, Appended
    <3>2. CASE n2.mbox[i] = m  BY <3>2, <1>1, <1>4
    <3>3. CASE i \in DOMAIN n.mbox /\ n2.mbox[i] = n.mbox[i]  BY <3>3 DEF Good, Shaped
    <3> QED BY <3>1, <3>2, <3>3
  <2> QED BY <2>1, <2>2, <1>1, <1>3, <1>5, NullChain DEF Shaped
<1>9. Owned(p2, n2)
  BY <1>2, <1>3, <1>5, <1>7 DEF Owned
<1>10. Mail(p2, n2, r, t)
  <2>1. /\ Queue(n.mbox, r, t) /\ Tip(n.mbox, p.refused.from, t) /\ Upto(p.refused) = r
        /\ \A i \in DOMAIN n.mbox : n.mbox[i].p # NULL
    BY <1>2, <1>7 DEF Mail
  <2>2. \A i \in DOMAIN n.mbox : n.mbox[i].p \in Pbufs /\ Whole(n.mbox[i].p)
    <3>1. \A i \in DOMAIN n.mbox : n.mbox[i] \in Msgs  BY <1>6
    <3> QED BY <3>1 DEF Msgs, Good, Shaped
  <2>3. \A i \in DOMAIN n.mbox : Upto(n.mbox[i].p) \in Nat  BY <2>1, <2>2, ChainLength
  <2>4. p.refused.from \in Nat /\ Upto(p.refused) \in Nat  BY <1>1, ChainLength
  <2>5. Queue(Append(n.mbox, m), r, t) /\ Tip(Append(n.mbox, m), r, t)
    BY <2>1, <2>3, <2>4, <1>4, <1>6, QueueData
  <2>6. \A i \in DOMAIN n2.mbox : n2.mbox[i].p # NULL
    BY <2>1, <1>4, <1>5, <1>6, AppendProperties
  <2> QED BY <2>5, <2>6, <1>3, <1>5 DEF Mail
<1>11. Read(p2, r, t)  BY <1>2, <1>3, <1>7 DEF Read
<1>12. Window(p2, r, t, k, b)
  <2>1. One(p.finflag) \in Nat /\ One(p2.finflag) = 0  BY <1>3 DEF One
  <2>2. (IF k = "recved" THEN tot_len(b) ELSE 0) \in Nat  BY ChainLengthNat
  <2>3. p.wnd \in 0 .. WND  BY <1>1 DEF PcbRecs
  <2>4. r - t + One(p.finflag) + (IF k = "recved" THEN tot_len(b) ELSE 0) <= WND - p.wnd
    BY <1>2, <1>7 DEF Window
  <2>5. r - t + 0 + (IF k = "recved" THEN tot_len(b) ELSE 0) <= WND - p.wnd
    BY <2>1, <2>2, <2>3, <2>4, Sizes
  <2> QED BY <2>1, <2>5, <1>3 DEF Window
<1>13. Fin(p2, r, t, k, b)  BY <1>2, <1>3 DEF Fin
<1>14. Signal(n2, k)
  <2>1. n2.mbox # <<>>  BY <1>4, <1>5, <1>6, AppendProperties
  <2> QED BY <2>1, <1>2, <1>5, <1>7 DEF Signal
<1>15. Echo(n2, e, r, t, k, b)  BY <1>2, <1>5 DEF Echo
<1> QED BY <1>8, <1>9, <1>10, <1>11, <1>12, <1>13, <1>14, <1>15 DEF Good

\* The window that is still there for a FIN.
FinRoom(p, r, t, k, b) ==
    r - t + 1 + (IF k = "recved" THEN tot_len(b) ELSE 0) <= WND - p.wnd

\* TCP_EVENT_CLOSED: the netconn is told of the end of the data, if it has room.
LEMMA ClosedGood ==
    ASSUME NEW p, NEW n, NEW e, NEW r \in Nat, NEW t \in Nat, NEW k,
           NEW b \in Pbufs, Whole(b), Good(p, n, e, r, t, k, b), p.refused = NULL, p.recv,
           p.state = "close_wait", FinRoom(p, r, t, k, b),
           NEW p2, p2 = tcp_recved(p, 1),
           NEW n2, n2 = TryPost(n, Closed)
    PROVE  Good(p2, n2, e, r, t, k, b)
<1>1. p \in PcbRecs /\ n \in Netconns /\ e \in Seq(Nat)
  BY DEF Good, Shaped, PcbRecs
<1>2. /\ Owned(p, n) /\ Mail(p, n, r, t) /\ Read(p, r, t) /\ Window(p, r, t, k, b)
      /\ Fin(p, r, t, k, b) /\ Signal(n, k) /\ Echo(n, e, r, t, k, b)
  BY DEF Good
<1>wnd. p2.wnd = IF WND < p.wnd + 1 THEN WND ELSE p.wnd + 1  BY <1>1, RecvedShape
<1>nofin. ~p.finflag  BY <1>2 DEF Owned
<1>typ. p2 \in PcbRecs /\ p2.refused = NULL /\ p2.state = p.state  BY <1>1, RecvedShape
<1>3. /\ p2 \in PcbRecs /\ p2.refused = NULL /\ p2.state = p.state
      /\ ~p2.finflag /\ p2.recv
      /\ p2.arg <=> p.arg
      /\ p2.rxclosed <=> p.rxclosed
      /\ p2.closepend <=> p.closepend
  BY <1>1, <1>typ, <1>nofin, RecvedShape
<1>4. Closed \in Msgs /\ Closed.p = NULL /\ Closed.tag = "closed"  BY MessageTypes
<1>5. /\ n2 \in Netconns /\ n2.state = n.state /\ n2.sem = n.sem
      /\ n2.todo = n.todo
      /\ n2.alloc <=> n.alloc
      /\ n2.pcb <=> n.pcb
      /\ n2.valid <=> n.valid
      /\ n2.closed <=> n.closed
      /\ n2.msg <=> n.msg
      /\ n2.ok <=> n.ok
      /\ \/ n2.mbox = n.mbox
         \/ n2.mbox = Append(n.mbox, Closed) /\ Len(n.mbox) < RECVMBOX
  BY <1>1, <1>4, TryPostShape DEF HasRoom
<1>6. n.mbox \in Seq(Msgs) /\ Len(n.mbox) \in Nat /\ Len(n.mbox) <= RECVMBOX
  BY <1>1 DEF Netconns, Good, Shaped
<1>7. p.recv /\ n.valid /\ n.pcb /\ n.alloc  BY <1>2 DEF Owned
<1>8. Shaped(p2, n2, e)
  <2>1. Len(n2.mbox) <= RECVMBOX  BY <1>4, <1>5, <1>6, AppendProperties, Sizes
  <2>2. ASSUME NEW i \in DOMAIN n2.mbox
        PROVE  Whole(n2.mbox[i].p) /\ (n2.mbox[i].p = NULL <=> n2.mbox[i].tag # "data")
    <3>1. n2.mbox[i] = Closed \/ (i \in DOMAIN n.mbox /\ n2.mbox[i] = n.mbox[i])
      <4>1. CASE n2.mbox = n.mbox  BY <4>1
      <4>2. CASE n2.mbox = Append(n.mbox, Closed)  BY <4>2, <1>4, <1>6, Appended
      <4> QED BY <4>1, <4>2, <1>5
    <3>2. CASE n2.mbox[i] = Closed  BY <3>2, <1>4, NullChain
    <3>3. CASE i \in DOMAIN n.mbox /\ n2.mbox[i] = n.mbox[i]  BY <3>3 DEF Good, Shaped
    <3> QED BY <3>1, <3>2, <3>3
  <2> QED BY <2>1, <2>2, <1>1, <1>3, <1>5, NullChain DEF Shaped
<1>9. Owned(p2, n2)
  BY <1>2, <1>3, <1>5, <1>7 DEF Owned
<1>10. Mail(p2, n2, r, t)
  <2>1. Queue(n.mbox, r, t) /\ Tip(n.mbox, r, t)  BY <1>2, <1>7 DEF Mail
  <2>2. Queue(n2.mbox, r, t) /\ Tip(n2.mbox, r, t)  BY <2>1, <1>4, <1>5, <1>6, QueueEnd
  <2> QED BY <2>2, <1>3 DEF Mail
<1>11. Read(p2, r, t)  BY <1>2, <1>3, <1>7 DEF Read
<1>12. Window(p2, r, t, k, b)
  <2>1. One(p2.finflag) = 0  BY <1>3 DEF One
  <2>2. tot_len(b) \in Nat /\ t <= r  BY <1>2, ChainLengthNat DEF Echo
  <2>3. p.wnd \in 0 .. WND  BY <1>1 DEF PcbRecs
  <2>4. p2.wnd <= p.wnd + 1  BY <2>3, <1>wnd, Sizes
  <2>5. p2.wnd \in Nat  BY <1>3 DEF PcbRecs
  <2> QED BY <2>1, <2>2, <2>3, <2>4, <2>5, <1>3, Sizes DEF Window, FinRoom
<1>13. Fin(p2, r, t, k, b)  BY <1>2, <1>3 DEF Fin
<1>14. Signal(n2, k)
  <2>1. n.mbox # <<>> => n2.mbox # <<>>  BY <1>4, <1>5, <1>6, AppendProperties
  <2> QED BY <2>1, <1>2, <1>5, <1>7 DEF Signal
<1>15. Echo(n2, e, r, t, k, b)  BY <1>2, <1>5 DEF Echo
<1> QED BY <1>8, <1>9, <1>10, <1>11, <1>12, <1>13, <1>14, <1>15 DEF Good

\* Neither a message nor an error allocates or frees a netconn.
LEMMA PostAlloc ==
    ASSUME NEW n \in Netconns, NEW m \in Msgs
    PROVE  /\ TryPost(n, m) \in Netconns
           /\ TryPost(n, m).alloc <=> n.alloc
BY TryPostShape

LEMMA GoodState ==
    ASSUME NEW p, NEW n, NEW e, NEW r, NEW t, NEW k, NEW b, Good(p, n, e, r, t, k, b)
    PROVE  /\ p \in PcbRecs /\ n \in Netconns /\ e \in Seq(Nat)
           /\ [p |-> p, n |-> n, e |-> e] \in States
BY DEF Good, Shaped, States

\* The recv callback of a netconn that has a recvmbox.
LEMMA EventRecv ==
    ASSUME NEW s \in States, NEW m \in Msgs, s.p.recv, s.n.valid
    PROVE  /\ TCP_EVENT_RECV(s, m) \in States /\ TCP_EVENT_CLOSED(s) \in States
           /\ TCP_EVENT_RECV(s, m).p = s.p
           /\ TCP_EVENT_RECV(s, m).n = TryPost(s.n, m)
           /\ TCP_EVENT_RECV(s, m).e = s.e
           /\ TCP_EVENT_CLOSED(s).p = tcp_recved(s.p, 1)
           /\ TCP_EVENT_CLOSED(s).n = TryPost(s.n, Closed)
           /\ TCP_EVENT_CLOSED(s).e = s.e
<1>0. PICK n1 \in Netconns : n1 = TryPost(s.n, m)  BY TryPostShape DEF States
<1>1. /\ TCP_EVENT_RECV(s, m) \in States
      /\ TCP_EVENT_RECV(s, m).p = s.p
      /\ TCP_EVENT_RECV(s, m).n = TryPost(s.n, m)
      /\ TCP_EVENT_RECV(s, m).e = s.e
  <2>1. TCP_EVENT_RECV(s, m) = [s EXCEPT !.n = n1]  BY <1>0 DEF TCP_EVENT_RECV, recv_tcp
  <2> QED BY <2>1, <1>0 DEF States
<1>2. PICK w \in PcbRecs : w = tcp_recved(s.p, 1)  BY RecvedShape DEF States
<1>3. PICK o \in States : o = [s EXCEPT !.p = w]  BY DEF States
<1>4. o.p = w /\ o.n = s.n /\ o.e = s.e  BY <1>3 DEF States
<1>5. PICK n2 \in Netconns : n2 = TryPost(s.n, Closed)  BY TryPostShape, MessageTypes DEF States
<1>6. TCP_EVENT_CLOSED(s) = [o EXCEPT !.n = n2]
  BY <1>2, <1>3, <1>4, <1>5 DEF TCP_EVENT_CLOSED, recv_tcp
<1>7. TCP_EVENT_CLOSED(s) \in States  BY <1>6 DEF States
<1> QED BY <1>1, <1>2, <1>4, <1>5, <1>6, <1>7 DEF States

\* tcp_process_refused_data.
LEMMA RefusedGood ==
    ASSUME NEW s \in States, NEW r \in Nat, NEW t \in Nat, NEW k, NEW b \in Pbufs, Whole(b),
           Good(s.p, s.n, s.e, r, t, k, b), NEW x, x = tcp_process_refused_data(s)
    PROVE  /\ x \in States /\ Good(x.p, x.n, x.e, r, t, k, b)
           /\ x.p.state = s.p.state /\ x.p.unacked = s.p.unacked /\ x.p.wnd >= s.p.wnd
           /\ x.n.alloc <=> s.n.alloc
<1>1. CASE s.p.refused = NULL \/ ~RecvOk(s)
  <2>1. x = s  BY <1>1 DEF tcp_process_refused_data
  <2> QED BY <2>1 DEF States, PcbRecs
<1>2. CASE s.p.refused # NULL /\ RecvOk(s)
  <2>1. s.p \in PcbRecs /\ s.n \in Netconns /\ s.e \in Seq(Nat)  BY DEF States
  <2>2. s.p.recv /\ s.n.valid /\ HasRoom(s.n)  BY <1>2 DEF Good, Owned, RecvOk
  <2>3. PICK p1 \in PcbRecs : p1 = [s.p EXCEPT !.refused = NULL, !.finflag = FALSE]
    BY <2>1, NullChain DEF PcbRecs
  <2>4. /\ p1.recv /\ p1.state = s.p.state /\ p1.wnd = s.p.wnd /\ p1.unacked = s.p.unacked
        /\ p1.refused = NULL
    BY <2>1, <2>2, <2>3 DEF PcbRecs
  <2>5. PICK s1 \in States : s1 = [s EXCEPT !.p = p1]  BY DEF States
  <2>6. s1.p = p1 /\ s1.n = s.n /\ s1.e = s.e  BY <2>5 DEF States
  <2>dat. Data(s.p.refused) \in Msgs  BY <2>1, MessageTypes DEF PcbRecs
  <2> DEFINE o == TCP_EVENT_RECV(s1, Data(s.p.refused))
  <2>7. o.p = p1 /\ o.n = TryPost(s.n, Data(s.p.refused)) /\ o.e = s.e
    BY <2>2, <2>4, <2>6, <2>dat, EventRecv
  <2>like. Alike(s.p, p1) /\ ~p1.finflag  BY <2>1, <2>3 DEF PcbRecs, Alike
  <2>8. Good(o.p, o.n, o.e, r, t, k, b)  BY <2>2, <2>4, <2>like, <2>7, <1>2, OfferGood
  <2>9. o \in States  BY <2>2, <2>4, <2>6, <2>dat, EventRecv
  <2>10. x = IF s.p.finflag THEN TCP_EVENT_CLOSED(o) ELSE o
    BY <1>2, <2>3, <2>5 DEF tcp_process_refused_data
  <2>alloc. o.n \in Netconns /\ (o.n.alloc <=> s.n.alloc)  BY <2>1, <2>7, <2>dat, PostAlloc
  <2>11. CASE ~s.p.finflag  BY <2>1, <2>4, <2>7, <2>8, <2>9, <2>10, <2>11, <2>alloc DEF PcbRecs
  <2>12. CASE s.p.finflag
    <3>1. o.n.valid /\ o.p.recv /\ o.p.state = "close_wait"
      BY <2>1, <2>2, <2>4, <2>7, <2>8, <2>12 DEF Good, Owned
    <3>2. FinRoom(o.p, r, t, k, b)
      <4>1. r - t + One(s.p.finflag) + (IF k = "recved" THEN tot_len(b) ELSE 0) <= WND - s.p.wnd
        BY <2>2 DEF Good, Window
      <4>2. One(s.p.finflag) = 1  BY <2>12 DEF One
      <4> QED BY <4>1, <4>2, <2>4, <2>7 DEF FinRoom
    <3> HIDE DEF o
    <3>3. x \in States /\ x.p = tcp_recved(o.p, 1) /\ x.n = TryPost(o.n, Closed) /\ x.e = o.e
      BY <3>1, <2>9, <2>10, <2>12, <2>dat, EventRecv
    <3>4. Good(x.p, x.n, x.e, r, t, k, b)  BY <3>1, <3>2, <3>3, <2>4, <2>7, <2>8, ClosedGood
    <3>5. x.p.state = o.p.state /\ x.p.unacked = o.p.unacked /\ x.p.wnd >= o.p.wnd
      <4>0. PICK op \in PcbRecs : op = o.p  BY <2>9 DEF States
      <4>1. o.p \in PcbRecs  BY <4>0
      <4>2. x.p.wnd = IF WND < o.p.wnd + 1 THEN WND ELSE o.p.wnd + 1
        <5>1. tcp_recved(op, 1).wnd = IF WND < op.wnd + 1 THEN WND ELSE op.wnd + 1  BY RecvedShape
        <5> QED BY <3>3, <4>0, <5>1
      <4>3. x.p.wnd >= o.p.wnd  BY <4>1, <4>2, Sizes DEF PcbRecs
      <4>4. tcp_recved(op, 1).state = op.state /\ tcp_recved(op, 1).unacked = op.unacked
        BY RecvedShape
      <4>5. x.p.state = o.p.state /\ x.p.unacked = o.p.unacked  BY <3>3, <4>0, <4>4
      <4> QED BY <4>3, <4>5
    <3>6. x.n.alloc <=> s.n.alloc
      <4>1. PICK h \in Netconns : h = o.n  BY <2>alloc
      <4>2. x.n = TryPost(h, Closed)  BY <4>1, <3>3
      <4> QED BY <4>1, <4>2, <2>alloc, PostAlloc, MessageTypes, SMTT(60)
    <3> QED BY <3>3, <3>4, <3>5, <3>6, <2>4, <2>7
  <2> QED BY <2>11, <2>12
<1> QED BY <1>1, <1>2

\* New data the netconn has no room for, perhaps with a FIN.
LEMMA RefuseGood ==
    ASSUME NEW p, NEW n, NEW e, NEW r \in Nat, NEW t \in Nat, NEW k,
           NEW b \in Pbufs, Whole(b), Good(p, n, e, r, t, k, b), p.refused = NULL, p.recv,
           p.state = "established", NEW q \in Pbufs, Whole(q), q # NULL, q.from = r,
           NEW fin \in BOOLEAN,
           NEW p2 \in PcbRecs, p2.recv <=> p.recv, p2.arg <=> p.arg,
           p2.rxclosed <=> p.rxclosed, p2.closepend <=> p.closepend,
           p2.state = IF fin THEN "close_wait" ELSE "established",
           p2.wnd = p.wnd - tot_len(q) - One(fin), p2.refused = q, p2.finflag <=> fin
    PROVE  Good(p2, n, e, r + tot_len(q), t, k, b)
<1>1. p \in PcbRecs /\ n \in Netconns /\ e \in Seq(Nat)  BY GoodState
<1>2. /\ Owned(p, n) /\ Mail(p, n, r, t) /\ Read(p, r, t) /\ Window(p, r, t, k, b)
      /\ Fin(p, r, t, k, b) /\ Signal(n, k) /\ Echo(n, e, r, t, k, b)
  BY DEF Good
<1>3. PICK r2 \in Nat : r2 = r + tot_len(q)  BY ChainLengthNat
<1>4. r2 = Upto(q) /\ r < r2 /\ q.from \in Nat  BY <1>3, ChainLength
<1>5. n.valid /\ n.pcb /\ n.alloc /\ ~p.finflag  BY <1>2 DEF Owned
<1>6. Shaped(p2, n, e)  BY DEF Good, Shaped
<1>7. Owned(p2, n)  BY <1>2, <1>5 DEF Owned
<1>8. Mail(p2, n, r2, t)
  <2>1. /\ Queue(n.mbox, r, t) /\ Tip(n.mbox, r, t)
        /\ \A i \in DOMAIN n.mbox : n.mbox[i].p # NULL
    BY <1>2, <1>5 DEF Mail
  <2>2. \A i \in DOMAIN n.mbox : Upto(n.mbox[i].p) \in Nat
    <3>1. n.mbox \in Seq(Msgs)  BY <1>1 DEF Netconns
    <3>2. \A i \in DOMAIN n.mbox : n.mbox[i] \in Msgs  BY <3>1
    <3>3. \A i \in DOMAIN n.mbox : n.mbox[i].p \in Pbufs /\ Whole(n.mbox[i].p)
      BY <3>2 DEF Msgs, Good, Shaped
    <3> QED BY <3>3, <2>1, ChainLength
  <2>3. \A i \in DOMAIN n.mbox : Upto(n.mbox[i].p) <= r2
    <3>1. \A i \in DOMAIN n.mbox : Upto(n.mbox[i].p) <= r  BY <2>1 DEF Queue
    <3> QED BY <3>1, <2>2, <1>4
  <2>4. Queue(n.mbox, r2, t)  BY <2>1, <2>3 DEF Queue
  <2> QED BY <2>1, <2>4, <1>4 DEF Mail
<1>9. Read(p2, r2, t)  BY DEF Read
<1>10. Window(p2, r2, t, k, b)
  <2>1. One(p.finflag) = 0 /\ One(p2.finflag) = One(fin) /\ One(fin) \in Nat  BY <1>5 DEF One
  <2>2. PICK h \in Nat : h = IF k = "recved" THEN tot_len(b) ELSE 0  BY ChainLengthNat
  <2>3. p.wnd \in Nat /\ tot_len(q) \in Nat  BY <1>1, ChainLengthNat, Sizes DEF PcbRecs
  <2>4. r - t + 0 + h <= WND - p.wnd  BY <1>2, <2>1, <2>2 DEF Window
  <2>5. r2 - t + One(fin) + h <= WND - (p.wnd - tot_len(q) - One(fin))
    BY <2>1, <2>3, <2>4, <1>3, Sizes
  <2> QED BY <2>1, <2>2, <2>5 DEF Window
<1>11. Fin(p2, r2, t, k, b)  BY <1>2 DEF Fin
<1>12. Echo(n, e, r2, t, k, b)  BY <1>2, <1>4 DEF Echo
<1> QED BY <1>2, <1>3, <1>6, <1>7, <1>8, <1>9, <1>10, <1>11, <1>12 DEF Good

\* A FIN without data.
LEMMA BareFinGood ==
    ASSUME NEW p, NEW n, NEW e, NEW r \in Nat, NEW t \in Nat, NEW k,
           NEW b \in Pbufs, Whole(b), Good(p, n, e, r, t, k, b), p.refused = NULL, p.recv,
           p.state = "established",
           NEW p2 \in PcbRecs, p2.recv <=> p.recv, p2.arg <=> p.arg,
           p2.rxclosed <=> p.rxclosed, p2.closepend <=> p.closepend,
           p2.state = "close_wait", p2.wnd = p.wnd - 1, p2.refused = NULL, p2.finflag <=> p.finflag
    PROVE  Good(p2, n, e, r, t, k, b) /\ FinRoom(p2, r, t, k, b)
<1>1. p \in PcbRecs /\ n \in Netconns /\ e \in Seq(Nat)  BY GoodState
<1>2. /\ Owned(p, n) /\ Mail(p, n, r, t) /\ Read(p, r, t) /\ Window(p, r, t, k, b)
      /\ Fin(p, r, t, k, b) /\ Signal(n, k) /\ Echo(n, e, r, t, k, b)
  BY DEF Good
<1>5. n.valid /\ n.pcb /\ n.alloc /\ ~p.finflag  BY <1>2 DEF Owned
<1>6. Shaped(p2, n, e)  BY DEF Good, Shaped
<1>7. Owned(p2, n)  BY <1>2, <1>5 DEF Owned
<1>8. Mail(p2, n, r, t)  BY <1>2, <1>5 DEF Mail
<1>9. Read(p2, r, t)  BY DEF Read
<1>10. Window(p2, r, t, k, b) /\ FinRoom(p2, r, t, k, b)
  <2>1. One(p.finflag) = 0 /\ One(p2.finflag) = 0  BY <1>5 DEF One
  <2>2. PICK h \in Nat : h = IF k = "recved" THEN tot_len(b) ELSE 0  BY ChainLengthNat
  <2>3. p.wnd \in Nat  BY <1>1, Sizes DEF PcbRecs
  <2>4. r - t + 0 + h <= WND - p.wnd  BY <1>2, <2>1, <2>2 DEF Window
  <2>5. r - t + 0 + h <= WND - p2.wnd /\ r - t + 1 + h <= WND - p2.wnd
    BY <2>3, <2>4, Sizes
  <2> QED BY <2>1, <2>2, <2>5 DEF Window, FinRoom
<1>11. Fin(p2, r, t, k, b)  BY <1>2 DEF Fin
<1> QED BY <1>2, <1>6, <1>7, <1>8, <1>9, <1>10, <1>11 DEF Good

\* tcp_abandon.
LEMMA AbandonGood ==
    ASSUME NEW s \in States, NEW r \in Nat, NEW t \in Nat, NEW k, NEW b \in Pbufs,
           Good(s.p, s.n, s.e, r, t, k, b), NEW x, x = tcp_abandon(s)
    PROVE  /\ x \in States /\ Good(x.p, x.n, x.e, r, t, k, b) /\ x.p = Gone
           /\ x.n.alloc <=> s.n.alloc
<1>1. s.p \in PcbRecs /\ s.n \in Netconns  BY DEF States
<1>2. PICK n2 \in Netconns : n2 = IF s.p.arg THEN err_tcp(s.n) ELSE s.n  BY <1>1, ErrShape
<1>3. x = [s EXCEPT !.p = Gone, !.n = n2]  BY <1>2 DEF tcp_abandon
<1>4. x \in States /\ x.p = Gone /\ x.n = n2 /\ x.e = s.e  BY <1>3, Records DEF States
<1>5. Good(Gone, n2, s.e, r, t, k, b)  BY <1>2, DeadGood
<1>6. n2.alloc <=> s.n.alloc  BY <1>1, <1>2, ErrShape
<1> QED BY <1>4, <1>5, <1>6

\* What tcp_input does with the next segment in order.
LEMMA ReceivedGood ==
    ASSUME NEW s \in States, NEW r \in Nat, NEW t \in Nat, NEW k, NEW b \in Pbufs, Whole(b),
           Good(s.p, s.n, s.e, r, t, k, b), s.p.refused = NULL,
           s.p.state \in {"established", "fin_wait"},
           NEW q \in Pbufs, Whole(q), q # NULL => q.from = r, NEW fin \in BOOLEAN,
           tot_len(q) + One(fin) > 0, tot_len(q) + One(fin) <= s.p.wnd,
           NEW x, x = Received(s, q, fin)
    PROVE  /\ x \in States /\ Good(x.p, x.n, x.e, r + tot_len(q), t, k, b)
           /\ x.n.alloc <=> s.n.alloc
<1>1. s.p \in PcbRecs /\ s.n \in Netconns /\ s.e \in Seq(Nat)  BY DEF States
<1>2. tot_len(q) \in Nat /\ One(fin) \in {0, 1} /\ s.p.wnd \in 0 .. WND
  BY <1>1, ChainLengthNat DEF One, PcbRecs
<1>3. PICK w \in 0 .. WND : w = s.p.wnd - tot_len(q) - One(fin)  BY <1>2, Sizes
<1>4. PICK st \in Live : st = IF ~fin THEN s.p.state
                              ELSE IF s.p.state = "established" THEN "close_wait" ELSE "time_wait"
  BY DEF Live
<1>5. PICK g \in PcbRecs : g = [s.p EXCEPT !.wnd = w, !.state = st]  BY <1>1 DEF PcbRecs
<1>6. g.wnd = w /\ g.state = st /\ g.refused = NULL /\ g.unacked = s.p.unacked
  BY <1>1, <1>5 DEF PcbRecs
<1>7. /\ g.recv <=> s.p.recv
      /\ g.arg <=> s.p.arg
      /\ g.finflag <=> s.p.finflag
      /\ g.rxclosed <=> s.p.rxclosed
      /\ g.closepend <=> s.p.closepend
  BY <1>1, <1>5 DEF PcbRecs
<1>8. PICK got \in States : got = [s EXCEPT !.p = g]  BY DEF States
<1>9. got.p = g /\ got.n = s.n /\ got.e = s.e  BY <1>8 DEF States
<1> DEFINE kept == IF q = NULL THEN got
                   ELSE IF RecvOk(got) THEN TCP_EVENT_RECV(got, Data(q))
                   ELSE [got EXCEPT !.p = [got.p EXCEPT !.refused = q]]
<1>10. x = IF q # NULL /\ s.p.rxclosed THEN tcp_abandon(got)
           ELSE IF ~fin THEN kept
           ELSE IF kept.p.refused = NULL THEN TCP_EVENT_CLOSED(kept)
           ELSE [kept EXCEPT !.p = [kept.p EXCEPT !.finflag = TRUE]]
  BY <1>3, <1>4, <1>5, <1>8, SMTT(60) DEF Received
<1>11. Data(q) \in Msgs  BY MessageTypes
<1>12. CASE q # NULL /\ s.p.rxclosed
  <2>1. PICK n2 \in Netconns : n2 = IF s.p.arg THEN err_tcp(s.n) ELSE s.n  BY <1>1, ErrShape
  <2>2. x = tcp_abandon(got)  BY <1>10, <1>12
  <2>3. n2 = IF got.p.arg THEN err_tcp(got.n) ELSE got.n  BY <2>1, <1>7, <1>9
  <2>4. x = [got EXCEPT !.p = Gone, !.n = n2]  BY <2>2, <2>3 DEF tcp_abandon
  <2>5. x \in States /\ x.p = Gone /\ x.n = n2 /\ x.e = s.e  BY <2>4, <1>9, Records DEF States
  <2>6. PICK r2 \in Nat : r2 = r + tot_len(q)  BY <1>2
  <2>7. Good(Gone, n2, s.e, r2, t, k, b)  BY <2>1, <2>6, <1>2, DeadGood
  <2>8. n2.alloc <=> s.n.alloc
    <3>1. CASE s.p.arg  BY <3>1, <2>1, <1>1, ErrShape
    <3>2. CASE ~s.p.arg  BY <3>2, <2>1
    <3> QED BY <3>1, <3>2
  <2> QED BY <2>5, <2>6, <2>7, <2>8
<1>13. CASE ~(q # NULL /\ s.p.rxclosed) /\ ~s.p.recv
  <2>1. s.p.rxclosed /\ t = r  BY <1>13 DEF Good, Read
  <2>2. q = NULL /\ tot_len(q) = 0  BY <2>1, <1>13, NullChain
  <2>3. fin  BY <2>2, <1>2 DEF One
  <2>4. x = TCP_EVENT_CLOSED(got)  BY <2>2, <2>3, <1>6, <1>9, <1>10
  <2>5. PICK p2 \in PcbRecs : p2 = tcp_recved(g, 1)  BY RecvedShape
  <2>6. x = [got EXCEPT !.p = p2]  BY <2>4, <2>5, <1>7, <1>9, <1>13 DEF TCP_EVENT_CLOSED
  <2>7. x \in States /\ x.p = p2 /\ x.n = s.n /\ x.e = s.e  BY <2>6, <1>9 DEF States
  <2>8. p2.state = st /\ p2.refused = NULL
    <3>1. tcp_recved(g, 1).state = g.state /\ tcp_recved(g, 1).refused = g.refused  BY RecvedShape
    <3> QED BY <2>5, <3>1, <1>6
  <2>9. /\ p2.recv <=> g.recv
        /\ p2.arg <=> g.arg
        /\ p2.finflag <=> g.finflag
        /\ p2.rxclosed <=> g.rxclosed
        /\ p2.closepend <=> g.closepend
    BY <2>5, RecvedShape
  <2>10. st = IF s.p.state = "established" THEN "close_wait" ELSE "time_wait"  BY <2>3, <1>4
  <2>11. s.p.arg => s.p.state = "established" /\ ~s.p.closepend  BY <1>1 DEF Good, Owned
  <2>12. ~s.p.finflag  BY DEF Good, Owned
  <2>13. Read(p2, r, t)  BY <2>1, <2>8, <2>9, <2>10, <1>7 DEF Read
  <2>14. Good(p2, s.n, s.e, r, t, k, b)
    BY <2>8, <2>9, <2>10, <2>11, <2>12, <2>13, <1>7, <1>13, QuietGood
  <2>15. r + tot_len(q) = r  BY <2>2
  <2> QED BY <2>7, <2>14, <2>15
<1>14. CASE ~(q # NULL /\ s.p.rxclosed) /\ s.p.recv
  <2>1. s.n.valid /\ s.p.state = "established" /\ ~s.p.finflag  BY <1>14 DEF Good, Owned
  <2>2. st = IF fin THEN "close_wait" ELSE "established"  BY <2>1, <1>4
  <2>3. x = IF ~fin THEN kept
            ELSE IF kept.p.refused = NULL THEN TCP_EVENT_CLOSED(kept)
            ELSE [kept EXCEPT !.p = [kept.p EXCEPT !.finflag = TRUE]]
    BY <1>10, <1>14
  <2>4. g.recv /\ got.n.valid  BY <2>1, <1>7, <1>9, <1>14
  <2>5. CASE q = NULL
    <3>1. fin /\ tot_len(q) = 0 /\ One(fin) = 1  BY <2>5, <1>2, NullChain DEF One
    <3>2. x = TCP_EVENT_CLOSED(got)  BY <3>1, <2>3, <2>5, <1>6, <1>9
    <3>3. g.state = "close_wait" /\ g.wnd = s.p.wnd - 1  BY <3>1, <2>2, <1>2, <1>3, <1>6
    <3>4. Good(g, s.n, s.e, r, t, k, b) /\ FinRoom(g, r, t, k, b)
      BY <3>3, <2>1, <1>6, <1>7, <1>14, BareFinGood
    <3>5. x \in States /\ x.p = tcp_recved(g, 1) /\ x.n = TryPost(s.n, Closed) /\ x.e = s.e
      BY <3>2, <2>4, <1>9, <1>11, EventRecv
    <3>6. Good(x.p, x.n, x.e, r, t, k, b)
      BY <3>3, <3>4, <3>5, <2>4, <1>6, ClosedGood
    <3>7. r + tot_len(q) = r  BY <3>1
    <3>8. x.n.alloc <=> s.n.alloc
      <4>1. PICK h \in Netconns : h = s.n  BY <1>1
      <4>2. TryPost(h, Closed).alloc <=> h.alloc  BY PostAlloc, MessageTypes
      <4>3. x.n = TryPost(h, Closed)  BY <4>1, <3>5
      <4> QED BY <4>1, <4>2, <4>3, Zenon
    <3> QED BY <3>5, <3>6, <3>7, <3>8
  <2>6. CASE q # NULL
    <3>1. PICK r2 \in Nat : r2 = r + tot_len(q)  BY <1>2
    <3>2. PICK pr \in PcbRecs : pr = [g EXCEPT !.refused = q, !.finflag = fin]  BY DEF PcbRecs
    <3>3. pr.refused = q /\ pr.wnd = w /\ pr.state = st  BY <3>2, <1>6 DEF PcbRecs
    <3>4. /\ pr.recv <=> s.p.recv
          /\ pr.arg <=> s.p.arg
          /\ pr.finflag <=> fin
          /\ pr.rxclosed <=> s.p.rxclosed
          /\ pr.closepend <=> s.p.closepend
      BY <3>2, <1>7 DEF PcbRecs
    <3>5. Good(pr, s.n, s.e, r2, t, k, b)
      BY <3>1, <3>3, <3>4, <2>1, <2>2, <2>6, <1>3, <1>14, RefuseGood
    <3>6. CASE ~RecvOk(got)
      <4>1. PICK p1 \in PcbRecs : p1 = [g EXCEPT !.refused = q]  BY DEF PcbRecs
      <4>2. kept = [got EXCEPT !.p = p1]  BY <3>6, <4>1, <2>6, <1>9
      <4>3. kept \in States /\ kept.p = p1 /\ kept.n = s.n /\ kept.e = s.e
        BY <4>2, <1>9 DEF States
      <4>4. p1.refused = q  BY <4>1 DEF PcbRecs
      <4>5. CASE fin
        <5>1. PICK p2 \in PcbRecs : p2 = [p1 EXCEPT !.finflag = TRUE]  BY DEF PcbRecs
        <5>2. x = [kept EXCEPT !.p = p2]  BY <5>1, <4>3, <4>4, <4>5, <2>3, <2>6
        <5>3. x \in States /\ x.p = p2 /\ x.n = s.n /\ x.e = s.e
          <6> HIDE DEF kept
          <6> QED BY <5>2, <4>3 DEF States
        <5>4. p2 = pr  BY <5>1, <4>1, <3>2, <4>5 DEF PcbRecs
        <5> QED BY <5>3, <5>4, <3>1, <3>5
      <4>6. CASE ~fin
        <5>1. p1.wnd = w /\ p1.state = st  BY <4>1, <1>6 DEF PcbRecs
        <5>2. /\ p1.recv <=> s.p.recv
              /\ p1.arg <=> s.p.arg
              /\ p1.finflag <=> fin
              /\ p1.rxclosed <=> s.p.rxclosed
              /\ p1.closepend <=> s.p.closepend
          BY <4>1, <4>6, <2>1, <1>7 DEF PcbRecs
        <5>3. Good(p1, s.n, s.e, r2, t, k, b)
          BY <5>1, <5>2, <4>4, <3>1, <2>1, <2>2, <2>6, <1>3, <1>14, RefuseGood
        <5>4. x = kept  BY <4>6, <2>3
        <5> HIDE DEF kept
        <5> QED BY <5>3, <5>4, <4>3, <3>1
      <4> QED BY <4>5, <4>6
    <3>7. CASE RecvOk(got)
      <4>1. HasRoom(s.n)  BY <3>7, <2>4, <1>9 DEF RecvOk
      <4>2. kept = TCP_EVENT_RECV(got, Data(q))  BY <3>7, <2>6
      <4> HIDE DEF kept
      <4>3. kept \in States /\ kept.p = g /\ kept.n = TryPost(s.n, Data(q)) /\ kept.e = s.e
        BY <4>2, <2>4, <1>9, <1>11, EventRecv
      <4>4. Alike(pr, g) /\ g.wnd = pr.wnd /\ ~g.finflag
        BY <3>3, <3>4, <2>1, <1>6, <1>7 DEF Alike
      <4>5. Good(g, kept.n, kept.e, r2, t, k, b)
        BY <4>1, <4>3, <4>4, <3>3, <3>5, <2>6, <1>6, OfferGood
      <4>alloc. PICK h \in Netconns : h = kept.n /\ (h.alloc <=> s.n.alloc)
        BY <4>3, <1>1, <1>11, PostAlloc
      <4>6. CASE ~fin
        <5>1. x = kept  BY <4>6, <2>3
        <5> QED BY <5>1, <4>alloc, <4>3, <4>5, <3>1
      <4>7. CASE fin
        <5>1. x = TCP_EVENT_CLOSED(kept)  BY <4>3, <4>7, <2>3, <1>6
        <5>2. kept.n.valid  BY <4>3, <4>5, <2>4 DEF Good, Owned
        <5>3. x \in States /\ x.p = tcp_recved(g, 1) /\ x.n = TryPost(kept.n, Closed) /\ x.e = kept.e
          BY <5>1, <5>2, <4>3, <2>4, <1>11, EventRecv
        <5>4. FinRoom(g, r2, t, k, b)
          <6>1. r2 - t + One(pr.finflag) + (IF k = "recved" THEN tot_len(b) ELSE 0) <= WND - pr.wnd
            BY <3>4, <3>5, <1>14 DEF Good, Window
          <6>2. One(pr.finflag) = 1  BY <3>4, <4>7 DEF One
          <6> QED BY <6>1, <6>2, <4>4 DEF FinRoom
        <5>5. g.state = "close_wait"  BY <4>7, <2>2, <1>6
        <5>6. Good(x.p, x.n, x.e, r2, t, k, b)
          BY <5>3, <5>4, <5>5, <4>5, <2>4, <1>6, ClosedGood
        <5>7. x.n = TryPost(h, Closed)  BY <5>3, <4>alloc
        <5>8. x.n.alloc <=> s.n.alloc
          <6>1. TryPost(h, Closed).alloc <=> h.alloc  BY PostAlloc, MessageTypes
          <6> QED BY <6>1, <5>7, <4>alloc, Zenon
        <5> QED BY <5>3, <5>6, <5>8, <3>1
      <4> QED BY <4>6, <4>7
    <3> QED BY <3>6, <3>7
  <2> QED BY <2>5, <2>6
<1> QED BY <1>12, <1>13, <1>14

\* Bytes count from 1; a piece of them is cut off and echoed.
Counted(e, todo) ==
    (\A i \in DOMAIN e : e[i] = i) /\ (\A i \in DOMAIN todo : todo[i] = Len(e) + i)
CutAt(len, e, todo, e2, rest) ==
    /\ e2 = e \o SubSeq(todo, 1, len) /\ rest = SubSeq(todo, len + 1, Len(todo))
    /\ Len(e2) = Len(e) + len /\ Len(rest) = Len(todo) - len
    /\ Counted(e2, rest)

LEMMA Cut ==
    ASSUME NEW e \in Seq(Nat), NEW todo \in Seq(Nat), NEW len \in 0 .. Len(todo), Counted(e, todo)
    PROVE  \E e2 \in Seq(Nat), rest \in Seq(Nat) : CutAt(len, e, todo, e2, rest)
<1>0. PICK e2, rest : e2 = e \o SubSeq(todo, 1, len) /\ rest = SubSeq(todo, len + 1, Len(todo))
  OBVIOUS
<1>1. PICK E \in Nat, L \in Nat : E = Len(e) /\ L = Len(todo)  OBVIOUS
<1>2. /\ DOMAIN e = 1 .. E /\ DOMAIN todo = 1 .. L /\ len \in 0 .. L
      /\ \A i \in 1 .. L : todo[i] \in Nat /\ todo[i] = E + i
      /\ \A i \in 1 .. E : e[i] = i
  <2>1. DOMAIN e = 1 .. E /\ DOMAIN todo = 1 .. L /\ len \in 0 .. L  BY <1>1
  <2>2. \A i \in 1 .. L : todo[i] \in Nat  BY <2>1
  <2> QED BY <2>1, <2>2, <1>1 DEF Counted
<1>3. PICK h \in Seq(Nat) : h = SubSeq(todo, 1, len) /\ Len(h) = len /\ \A i \in 1 .. len : h[i] = E + i
  <2>1. \A i \in 1 .. len : todo[i] \in Nat  BY <1>2
  <2>2. /\ SubSeq(todo, 1, len) \in Seq(Nat)
        /\ Len(SubSeq(todo, 1, len)) = IF 1 <= len THEN len - 1 + 1 ELSE 0
        /\ \A i \in 1 .. len - 1 + 1 : SubSeq(todo, 1, len)[i] = todo[1 + i - 1]
    BY <2>1, SubSeqProperties
  <2>3. Len(SubSeq(todo, 1, len)) = len  BY <2>2
  <2>4. \A i \in 1 .. len : SubSeq(todo, 1, len)[i] = E + i
    <3>1. ASSUME NEW i \in 1 .. len
          PROVE  i \in 1 .. len - 1 + 1 /\ 1 + i - 1 = i /\ i \in 1 .. L
      BY <1>2
    <3> QED BY <3>1, <2>2, <1>2
  <2> QED BY <2>2, <2>3, <2>4
<1>4. /\ rest \in Seq(Nat) /\ Len(rest) = L - len
      /\ \A i \in 1 .. L - len : rest[i] = E + len + i
  <2>1. \A i \in len + 1 .. L : todo[i] \in Nat  BY <1>2
  <2>2. PICK m \in Int : m = len + 1  OBVIOUS
  <2>2a. rest = SubSeq(todo, m, L)  BY <2>2, <1>0, <1>1
  <2>2b. /\ rest \in Seq(Nat)
         /\ Len(rest) = IF m <= L THEN L - m + 1 ELSE 0
         /\ \A i \in 1 .. L - m + 1 : rest[i] = todo[m + i - 1]
    BY <2>1, <2>2, <2>2a, SubSeqProperties
  <2>3. /\ rest \in Seq(Nat)
        /\ Len(rest) = IF len + 1 <= L THEN L - (len + 1) + 1 ELSE 0
        /\ \A i \in 1 .. L - (len + 1) + 1 : rest[i] = todo[(len + 1) + i - 1]
    BY <2>2, <2>2b
  <2>4. Len(rest) = L - len  BY <2>3, <1>2
  <2>5. ASSUME NEW i \in 1 .. L - len
        PROVE  rest[i] = E + len + i
    <3>1. i \in 1 .. L - (len + 1) + 1 /\ (len + 1) + i - 1 = len + i /\ len + i \in 1 .. L
      BY <1>2
    <3>2. rest[i] = todo[len + i]  BY <3>1, <2>3
    <3> QED BY <3>1, <3>2, <1>2
  <2> QED BY <2>3, <2>4, <2>5
<1>5. /\ e2 \in Seq(Nat) /\ Len(e2) = E + len
      /\ \A i \in 1 .. E + len : e2[i] = IF i <= E THEN e[i] ELSE h[i - E]
  <2>1. /\ e \o h \in Seq(Nat) /\ Len(e \o h) = Len(e) + Len(h)
        /\ \A i \in 1 .. Len(e) + Len(h) : (e \o h)[i] = IF i <= Len(e) THEN e[i] ELSE h[i - Len(e)]
    BY ConcatProperties
  <2> QED BY <2>1, <1>0, <1>1, <1>3
<1>6. DOMAIN e2 = 1 .. E + len /\ DOMAIN rest = 1 .. L - len  BY <1>4, <1>5
<1>7. ASSUME NEW i \in 1 .. E + len
      PROVE  e2[i] = i
  <2>1. CASE i <= E  BY <2>1, <1>2, <1>5
  <2>2. CASE ~(i <= E)
    <3>1. i - E \in 1 .. len /\ E + (i - E) = i  BY <2>2, <1>2
    <3> QED BY <3>1, <2>2, <1>3, <1>5
  <2> QED BY <2>1, <2>2
<1>8. /\ Len(e2) = Len(e) + len /\ Len(rest) = Len(todo) - len
      /\ \A i \in DOMAIN e2 : e2[i] = i
      /\ \A i \in DOMAIN rest : rest[i] = Len(e2) + i
  BY <1>1, <1>4, <1>5, <1>6, <1>7
<1>9. CutAt(len, e, todo, e2, rest)  BY <1>0, <1>8 DEF CutAt, Counted
<1> QED BY <1>4, <1>5, <1>9

\* What a write changes: it moves bytes from todo to the echo, and ends with the
\* last of them or with an error, when it signals if it is delayed.
Kept(s, x) ==
    /\ Alike(s.p, x.p) /\ x.p.wnd = s.p.wnd /\ x.p.refused = s.p.refused
    /\ x.p.finflag <=> s.p.finflag
    /\ x.n.mbox = s.n.mbox
    /\ x.n.alloc <=> s.n.alloc
    /\ x.n.pcb <=> s.n.pcb
    /\ x.n.valid <=> s.n.valid
    /\ x.n.closed <=> s.n.closed
Moved(s, x) ==
    /\ Counted(x.e, x.n.todo)
    /\ Len(x.e) + Len(x.n.todo) = Len(s.e) + Len(s.n.todo)
Ended(s, x, route, signals) ==
    \/ /\ x.n.todo # <<>> /\ x.n.state = s.n.state /\ x.n.sem = s.n.sem
       /\ x.n.msg <=> s.n.msg
    \/ /\ x.n.state = "none" /\ ~x.n.msg
       /\ x.n.sem = s.n.sem + signals
       /\ x.n.ok <=> route
       /\ route => x.n.todo = <<>>

\* lwip_netconn_do_writemore.
LEMMA WriteShape ==
    ASSUME NEW s \in States, NEW mem \in BOOLEAN, NEW route \in BOOLEAN, NEW delayed \in BOOLEAN,
           Counted(s.e, s.n.todo), NEW x, x = lwip_netconn_do_writemore(s, mem, route, delayed),
           NEW signals \in Nat, signals = IF delayed THEN 1 ELSE 0
    PROVE  x \in States /\ Kept(s, x) /\ Moved(s, x) /\ Ended(s, x, route, signals)
<1>1. s.p \in PcbRecs /\ s.n \in Netconns /\ s.e \in Seq(Nat)  BY DEF States
<1>2. s.n.todo \in Seq(Nat) /\ s.p.unacked \in 0 .. SND_BUF /\ s.n.sem \in Nat
  BY <1>1 DEF PcbRecs, Netconns
<1>3. Len(s.n.todo) \in Nat /\ Len(s.e) \in Nat  BY <1>1, <1>2
<1>4. PICK len \in 0 .. Len(s.n.todo) :
        /\ len = IF mem THEN Smaller(SND_BUF - s.p.unacked, Len(s.n.todo)) ELSE 0
        /\ s.p.unacked + len \in 0 .. SND_BUF
  <2>1. PICK u \in 0 .. SND_BUF, l \in Nat : u = s.p.unacked /\ l = Len(s.n.todo)  BY <1>2, <1>3
  <2>2. Smaller(SND_BUF - u, l) \in 0 .. l /\ u + Smaller(SND_BUF - u, l) \in 0 .. SND_BUF
    BY Sizes DEF Smaller
  <2>3. CASE mem  BY <2>1, <2>2, <2>3
  <2>4. CASE ~mem  BY <2>1, <2>4
  <2> QED BY <2>3, <2>4
<1>5. PICK e1 \in Seq(Nat), todo \in Seq(Nat) : e1 = s.e /\ todo = s.n.todo  BY <1>1, <1>2
<1>6. PICK e2 \in Seq(Nat), rest \in Seq(Nat) : CutAt(len, e1, todo, e2, rest)
  <2>1. Counted(e1, todo)  BY <1>5 DEF Counted
  <2>2. len \in 0 .. Len(todo)  BY <1>5
  <2> QED BY <2>1, <2>2, Cut
<1>7. /\ e2 = s.e \o SubSeq(s.n.todo, 1, len)
      /\ rest = SubSeq(s.n.todo, len + 1, Len(s.n.todo))
      /\ Len(e2) = Len(s.e) + len /\ Len(rest) = Len(s.n.todo) - len
      /\ Counted(e2, rest)
  BY <1>5, <1>6 DEF CutAt
<1>8. PICK p2 \in PcbRecs : p2 = [s.p EXCEPT !.unacked = @ + len]
  <2>1. PICK u \in 0 .. SND_BUF : u = s.p.unacked + len  BY <1>4
  <2>2. [s.p EXCEPT !.unacked = u] \in PcbRecs  BY <1>1 DEF PcbRecs
  <2>3. [s.p EXCEPT !.unacked = u] = [s.p EXCEPT !.unacked = @ + len]  BY <2>1
  <2> QED BY <2>2, <2>3
<1>9. /\ Alike(s.p, p2) /\ p2.wnd = s.p.wnd /\ p2.refused = s.p.refused
      /\ p2.finflag <=> s.p.finflag
  BY <1>1, <1>8 DEF PcbRecs, Alike
<1>10. PICK n1 \in Netconns : n1 = [s.n EXCEPT !.todo = rest]  BY <1>1 DEF Netconns
<1>11. /\ n1.mbox = s.n.mbox /\ n1.todo = rest /\ n1.state = s.n.state /\ n1.sem = s.n.sem
       /\ n1.alloc <=> s.n.alloc
       /\ n1.pcb <=> s.n.pcb
       /\ n1.valid <=> s.n.valid
       /\ n1.closed <=> s.n.closed
       /\ n1.msg <=> s.n.msg
  BY <1>1, <1>10 DEF Netconns
<1>12. Len(e2) + Len(rest) = Len(s.e) + Len(s.n.todo)
  <2>1. PICK i \in Nat, j \in Nat : i = Len(s.e) /\ j = Len(s.n.todo)  BY <1>3
  <2>2. len \in 0 .. j /\ Len(e2) = i + len /\ Len(rest) = j - len  BY <2>1, <1>7
  <2>3. (i + len) + (j - len) = i + j
    <3>1. len \in Int  BY <2>1, <2>2
    <3> QED BY <3>1
  <2> QED BY <2>1, <2>2, <2>3, Zenon
<1> DEFINE done == rest = <<>> \/ ~route
           more == [n1 EXCEPT !.ok = route, !.msg = FALSE, !.state = "none",
                              !.sem = IF delayed THEN @ + 1 ELSE @]
<1>13. x = [p |-> p2, n |-> IF done THEN more ELSE n1, e |-> e2]
  BY <1>4, <1>7, <1>8, <1>10 DEF lwip_netconn_do_writemore
<1>14. CASE ~done
  <2>1. x \in States /\ x.p = p2 /\ x.n = n1 /\ x.e = e2  BY <1>13, <1>14 DEF States
  <2>2. rest # <<>>  BY <1>14
  <2>3. Kept(s, x)  BY <2>1, <1>9, <1>11 DEF Kept
  <2>4. Moved(s, x)  BY <2>1, <1>7, <1>11, <1>12 DEF Moved
  <2>5. Ended(s, x, route, signals)  BY <2>1, <2>2, <1>11 DEF Ended
  <2> QED BY <2>1, <2>3, <2>4, <2>5
<1>15. CASE done
  <2>1. PICK u \in Nat : u = IF delayed THEN n1.sem + 1 ELSE n1.sem  BY <1>2, <1>11
  <2>2. PICK n2 \in Netconns : n2 = [n1 EXCEPT !.ok = route, !.msg = FALSE, !.state = "none", !.sem = u]
    BY DEF Netconns
  <2>3. more = n2  BY <2>1, <2>2
  <2>4. /\ n2.mbox = n1.mbox /\ n2.todo = rest /\ n2.state = "none" /\ n2.sem = u /\ ~n2.msg
        /\ n2.alloc <=> n1.alloc
        /\ n2.pcb <=> n1.pcb
        /\ n2.valid <=> n1.valid
        /\ n2.closed <=> n1.closed
        /\ n2.ok <=> route
    BY <2>2, <1>11 DEF Netconns
  <2>5. x \in States /\ x.p = p2 /\ x.n = n2 /\ x.e = e2
    <3>1. x = [p |-> p2, n |-> n2, e |-> e2]  BY <2>3, <1>13, <1>15
    <3> QED BY <3>1 DEF States
  <2>6. u = s.n.sem + signals  BY <2>1, <1>2, <1>11
  <2>7. route => rest = <<>>  BY <1>15
  <2>8. Kept(s, x)  BY <2>4, <2>5, <1>9, <1>11 DEF Kept
  <2>9. Moved(s, x)  BY <2>4, <2>5, <1>7, <1>12 DEF Moved
  <2>10. Ended(s, x, route, signals)  BY <2>4, <2>5, <2>6, <2>7 DEF Ended
  <2> QED BY <2>5, <2>8, <2>9, <2>10
<1> QED BY <1>14, <1>15

\* A step that leaves the mailbox, the ownership and the pcb's state as they are.
LEMMA SameGood ==
    ASSUME NEW p, NEW n, NEW e, NEW r \in Nat, NEW t \in Nat, NEW k, NEW b,
           Good(p, n, e, r, t, k, b),
           NEW p2 \in PcbRecs, Alike(p, p2), p2.refused = p.refused, p2.finflag <=> p.finflag,
           NEW n2 \in Netconns, n2.mbox = n.mbox, n2.alloc <=> n.alloc, n2.pcb <=> n.pcb,
           n2.valid <=> n.valid, n2.closed <=> n.closed, n.alloc \/ n2 = n,
           NEW e2 \in Seq(Nat), NEW k2, NEW b2,
           Window(p2, r, t, k2, b2), Fin(p2, r, t, k2, b2), Signal(n2, k2),
           Echo(n2, e2, r, t, k2, b2)
    PROVE  Good(p2, n2, e2, r, t, k2, b2)
<1>1. /\ Shaped(p, n, e) /\ Owned(p, n) /\ Mail(p, n, r, t) /\ Read(p, r, t)  BY DEF Good
<1>2. /\ p2.state = p.state
      /\ p2.recv <=> p.recv
      /\ p2.arg <=> p.arg
      /\ p2.rxclosed <=> p.rxclosed
      /\ p2.closepend <=> p.closepend
  BY DEF Alike
<1>3. Shaped(p2, n2, e2)  BY <1>1 DEF Shaped
<1>4. Owned(p2, n2)  BY <1>1, <1>2 DEF Owned
<1>5. Mail(p2, n2, r, t)  BY <1>1, <1>2 DEF Mail
<1>6. Read(p2, r, t)  BY <1>1, <1>2 DEF Read
<1> QED BY <1>3, <1>4, <1>5, <1>6 DEF Good

\* sent_tcp and poll_tcp: a write that waits goes on, and ends with a signal.
LEMMA WritemoreGood ==
    ASSUME NEW s \in States, NEW r \in Nat, NEW t \in Nat, NEW k, NEW b \in Pbufs, Whole(b),
           Good(s.p, s.n, s.e, r, t, k, b), s.n.state = "write",
           s.p.arg, NEW mem \in BOOLEAN, NEW route \in BOOLEAN,
           NEW x, x = sent_tcp(s, mem, route)
    PROVE  /\ x \in States /\ Good(x.p, x.n, x.e, r, t, k, b) /\ x.p.state = s.p.state
           /\ x.n.alloc <=> s.n.alloc
<1>1. s.p \in PcbRecs /\ s.n \in Netconns /\ s.e \in Seq(Nat)  BY DEF States
<1>2. /\ Window(s.p, r, t, k, b) /\ Fin(s.p, r, t, k, b) /\ Signal(s.n, k) /\ Owned(s.p, s.n)
      /\ Echo(s.n, s.e, r, t, k, b)
  BY DEF Good
<1>3. k = "sem" /\ s.n.sem = 0 /\ s.n.msg /\ s.n.pcb /\ s.n.alloc  BY <1>2 DEF Signal
<1>4. /\ b # NULL /\ Upto(b) = t /\ Len(s.e) + Len(s.n.todo) = b.ends[1]
      /\ \A i \in DOMAIN s.e : s.e[i] = i
      /\ \A i \in DOMAIN s.n.todo : s.n.todo[i] = Len(s.e) + i
      /\ t <= r
  BY <1>2, <1>3 DEF Echo
<1>5. Counted(s.e, s.n.todo)  BY <1>4 DEF Counted
<1>6. x \in States /\ Kept(s, x) /\ Moved(s, x) /\ Ended(s, x, route, 1)
  <2>1. PICK delayed \in BOOLEAN : delayed /\ x = lwip_netconn_do_writemore(s, mem, route, delayed)
    BY DEF sent_tcp
  <2> QED BY <2>1, <1>5, WriteShape
<1>7. x.p \in PcbRecs /\ x.n \in Netconns /\ x.e \in Seq(Nat)  BY <1>6 DEF States
<1>8. PICK e2 \in Seq(Nat), rest \in Seq(Nat) : e2 = x.e /\ rest = x.n.todo
  BY <1>7 DEF Netconns
<1>9. Window(x.p, r, t, k, b) /\ Fin(x.p, r, t, k, b)
  <2>1. One(x.p.finflag) = One(s.p.finflag)  BY <1>6 DEF Kept, One
  <2>2. x.p.recv <=> s.p.recv  BY <1>6 DEF Kept, Alike
  <2>3. x.p.wnd = s.p.wnd  BY <1>6 DEF Kept
  <2> QED BY <2>1, <2>2, <2>3, <1>2, <1>3 DEF Window, Fin
<1>10. Signal(x.n, k)
  <2>1. x.n.pcb /\ x.n.alloc  BY <1>3, <1>6 DEF Kept
  <2>3. s.n.sem + 1 = 1  BY <1>3
  <2> QED BY <2>1, <2>3, <1>3, <1>6 DEF Signal, Ended
<1>11. Echo(x.n, x.e, r, t, k, b)
  <2>1. b.ends[1] \in Nat /\ b.ends[1] <= t  BY <1>4, ChainLength
  <2>2. Len(e2) + Len(rest) = b.ends[1]  BY <1>4, <1>6, <1>8 DEF Moved
  <2>3. Len(e2) <= t  BY <2>1, <2>2
  <2>4. rest = <<>> => Len(e2) = b.ends[1]  BY <2>2
  <2>5. x.n.state = "none" /\ x.n.ok => x.n.todo = <<>>  BY <1>6 DEF Ended
  <2>6. /\ \A i \in DOMAIN x.e : x.e[i] = i
        /\ \A i \in DOMAIN x.n.todo : x.n.todo[i] = Len(x.e) + i
    BY <1>6 DEF Moved, Counted
  <2> QED BY <2>2, <2>3, <2>4, <2>5, <2>6, <1>3, <1>4, <1>8 DEF Echo
<1>12. Good(x.p, x.n, x.e, r, t, k, b)
  BY <1>3, <1>6, <1>7, <1>9, <1>10, <1>11, SameGood DEF Kept
<1> QED BY <1>6, <1>12 DEF Kept, Alike

\* A segment that acknowledges k bytes: sent_tcp.
AfterAck(s, x) ==
    \E i \in 1 .. s.p.unacked, mem \in BOOLEAN, route \in BOOLEAN : x = Acked(s, i, mem, route)

LEMMA AckedGood ==
    ASSUME NEW s \in States, NEW r \in Nat, NEW t \in Nat, NEW k, NEW b \in Pbufs, Whole(b),
           Good(s.p, s.n, s.e, r, t, k, b), NEW x, AfterAck(s, x)
    PROVE  /\ x \in States /\ Good(x.p, x.n, x.e, r, t, k, b) /\ x.p.state = s.p.state
           /\ x.n.alloc <=> s.n.alloc
<1>1. s.p \in PcbRecs /\ s.n \in Netconns /\ s.e \in Seq(Nat)  BY DEF States
<1>i. PICK i \in 1 .. s.p.unacked, mem \in BOOLEAN, route \in BOOLEAN :
        x = Acked(s, i, mem, route)
  BY DEF AfterAck
<1>2. PICK u \in 0 .. SND_BUF : u = s.p.unacked - i  BY <1>1, Sizes DEF PcbRecs
<1>3. PICK p1 \in PcbRecs : p1 = [s.p EXCEPT !.unacked = u]  BY <1>1 DEF PcbRecs
<1>4. /\ Alike(s.p, p1) /\ p1.wnd = s.p.wnd /\ p1.refused = s.p.refused
      /\ p1.finflag <=> s.p.finflag
  BY <1>1, <1>3 DEF PcbRecs, Alike
<1>5. PICK s1 \in States : s1 = [s EXCEPT !.p = p1]  BY DEF States
<1>6. s1.p = p1 /\ s1.n = s.n /\ s1.e = s.e  BY <1>5 DEF States
<1>7. Good(p1, s.n, s.e, r, t, k, b)
  <2>1. Window(s.p, r, t, k, b) /\ Fin(s.p, r, t, k, b) /\ Signal(s.n, k) /\ Echo(s.n, s.e, r, t, k, b)
    BY DEF Good
  <2>2. p1.recv <=> s.p.recv  BY <1>4 DEF Alike
  <2>3. p1.state = s.p.state  BY <1>4 DEF Alike
  <2>4. One(p1.finflag) = One(s.p.finflag)  BY <1>4 DEF One
  <2>5. Window(p1, r, t, k, b) /\ Fin(p1, r, t, k, b)
    BY <2>1, <2>2, <2>3, <2>4, <1>4 DEF Window, Fin
  <2> QED BY <2>1, <2>5, <1>1, <1>4, SameGood
<1>8. x = sent_tcp(s1, mem, route)  BY <1>i, <1>2, <1>3, <1>5 DEF Acked
<1>9. CASE s1.p.arg /\ s1.n.state = "write"
  <2>2. /\ x \in States /\ Good(x.p, x.n, x.e, r, t, k, b) /\ x.p.state = s1.p.state
        /\ x.n.alloc <=> s1.n.alloc
    <3>1. Good(s1.p, s1.n, s1.e, r, t, k, b)  BY <1>6, <1>7
    <3> QED BY <3>1, <1>8, <1>9, WritemoreGood, SMTT(60)
  <2> QED BY <2>2, <1>4, <1>6 DEF Alike
<1>10. CASE ~(s1.p.arg /\ s1.n.state = "write")
  <2>1. x = s1  BY <1>8, <1>10 DEF sent_tcp
  <2> QED BY <2>1, <1>4, <1>6, <1>7 DEF Alike
<1> QED BY <1>9, <1>10

-------------------------------------------------------------------------------
(* Opening and closing.                                                    *)

\* Sending the FIN, or marking the pcb to send it later.
LEMMA ShutFinShape ==
    ASSUME NEW p \in PcbRecs, NEW mem \in BOOLEAN, NEW x, x = tcp_close_shutdown_fin(p, mem)
    PROVE  /\ x \in PcbRecs /\ x.refused = p.refused
           /\ x.recv <=> p.recv
           /\ x.arg <=> p.arg
           /\ x.finflag <=> p.finflag
           /\ x.rxclosed <=> p.rxclosed
           /\ \/ x.state = p.state
              \/ p.state \in {"established", "close_wait"} /\ x.state \in {"fin_wait", "last_ack"}
<1>1. CASE p.state \notin {"established", "close_wait"}
  <2>1. x = p  BY <1>1 DEF tcp_close_shutdown_fin
  <2> QED BY <2>1
<1>2. CASE p.state \in {"established", "close_wait"} /\ ~mem
  <2>1. x = [p EXCEPT !.closepend = TRUE]  BY <1>2 DEF tcp_close_shutdown_fin
  <2>2. x \in PcbRecs  BY <2>1 DEF PcbRecs
  <2> QED BY <2>1, <2>2 DEF PcbRecs
<1>3. CASE p.state \in {"established", "close_wait"} /\ mem
  <2>1. PICK l \in {"fin_wait", "last_ack"} : l = IF p.state = "established" THEN "fin_wait" ELSE "last_ack"
    OBVIOUS
  <2>2. x = [p EXCEPT !.state = l, !.closepend = FALSE]  BY <2>1, <1>3 DEF tcp_close_shutdown_fin
  <2>3. x \in PcbRecs  BY <2>2 DEF PcbRecs, Live
  <2>4. x.refused = p.refused /\ x.state = l  BY <2>2, <2>3 DEF PcbRecs
  <2>5. /\ x.recv <=> p.recv
        /\ x.arg <=> p.arg
        /\ x.finflag <=> p.finflag
        /\ x.rxclosed <=> p.rxclosed
    BY <2>2, <2>3 DEF PcbRecs
  <2> QED BY <2>3, <2>4, <2>5, <1>3
<1> QED BY <1>1, <1>2, <1>3

\* A pcb no netconn has: nobody reads from it, and nothing is refused.
LEMMA OrphanShape ==
    ASSUME NEW p, NEW n, NEW e, NEW r, NEW t, NEW k, NEW b, Good(p, n, e, r, t, k, b), ~p.arg
    PROVE  ~p.recv /\ p.refused = NULL /\ ~p.finflag
BY DEF Good, Owned

\* tcp_handle_closepend and tcp_fasttmr: the FIN is tried again.
LEMMA ClosependGood ==
    ASSUME NEW p, NEW n, NEW e, NEW r \in Nat, NEW t \in Nat, NEW k, NEW b \in Pbufs,
           Good(p, n, e, r, t, k, b), p.closepend, NEW mem \in BOOLEAN,
           NEW x, x = tcp_close_shutdown_fin(p, mem)
    PROVE  /\ x \in PcbRecs /\ Good(x, n, e, r, t, k, b) /\ x.refused = p.refused
           /\ \/ x.state = p.state
              \/ p.state \in Live /\ x.state \in {"fin_wait", "last_ack"}
           /\ ~x.arg
<1>1. p \in PcbRecs  BY GoodState
<1>2. Owned(p, n) /\ Read(p, r, t)  BY DEF Good
<1>3. ~p.arg  BY <1>2 DEF Owned
<1>4. ~p.recv /\ p.refused = NULL /\ ~p.finflag  BY <1>3, OrphanShape
<1>5. /\ x \in PcbRecs /\ x.refused = p.refused
      /\ x.recv <=> p.recv
      /\ x.arg <=> p.arg
      /\ x.finflag <=> p.finflag
      /\ x.rxclosed <=> p.rxclosed
      /\ \/ x.state = p.state
         \/ p.state \in {"established", "close_wait"} /\ x.state \in {"fin_wait", "last_ack"}
  BY <1>1, ShutFinShape
<1>6. Read(x, r, t)  BY <1>2, <1>4, <1>5 DEF Read
<1>7. n.alloc => x.state \notin {"none", "syn_rcvd"}  BY <1>2, <1>5 DEF Owned
<1>8. Good(x, n, e, r, t, k, b)  BY <1>3, <1>4, <1>5, <1>6, <1>7, QuietGood
<1> QED BY <1>3, <1>5, <1>8 DEF Live

\* The end of a pcb no netconn has.
LEMMA OrphanGone ==
    ASSUME NEW p, NEW n, NEW e, NEW r \in Nat, NEW t \in Nat, NEW k, NEW b \in Pbufs,
           Good(p, n, e, r, t, k, b), ~p.arg
    PROVE  Good(Gone, n, e, r, t, k, b)
<1>1. ~p.recv  BY OrphanShape
<1>2. Read(Gone, r, t)  BY GoneShape DEF Read
<1> QED BY <1>1, <1>2, GoneShape, QuietGood

\* tcp_alloc: a new pcb for a connection that had none.
LEMMA AllocGood ==
    ASSUME NEW p, NEW n, NEW e, NEW r \in Nat, NEW t \in Nat, NEW k, NEW b \in Pbufs,
           Good(p, n, e, r, t, k, b), p.state = "none"
    PROVE  Good(tcp_alloc, n, e, r, t, k, b)
<1>1. ~n.alloc /\ ~p.arg  BY DEF Good, Owned
<1>2. ~p.recv  BY <1>1, OrphanShape
<1>3. /\ tcp_alloc \in PcbRecs /\ ~tcp_alloc.recv /\ ~tcp_alloc.arg /\ tcp_alloc.refused = NULL
      /\ ~tcp_alloc.finflag /\ tcp_alloc.state = "syn_rcvd"
  BY Records DEF tcp_alloc
<1>4. Read(tcp_alloc, r, t)
  <2>1. r = 0  BY DEF Good, Read
  <2>2. ~tcp_alloc.rxclosed /\ ~tcp_alloc.closepend  BY DEF tcp_alloc
  <2> QED BY <2>1, <2>2, <1>3 DEF Read
<1> QED BY <1>1, <1>2, <1>3, <1>4, QuietGood

\* Letting the pcb go (lwip_netconn_do_close_internal, tcp_close): a connection with
\* unread data is reset, so one that stays had all its data read.
LEMMA DetachShape ==
    ASSUME NEW p, NEW n, NEW e, NEW r \in Nat, NEW t \in Nat, NEW k, NEW b \in Pbufs, Whole(b),
           Good(p, n, e, r, t, k, b), n.pcb, NEW mem \in BOOLEAN, NEW x, x = Detach(p, mem)
    PROVE  /\ x \in PcbRecs /\ ~x.recv /\ ~x.arg /\ x.refused = NULL /\ ~x.finflag
           /\ x.state \notin {"none", "syn_rcvd"} /\ Read(x, r, t)
<1>1. p \in PcbRecs /\ Owned(p, n) /\ Read(p, r, t) /\ Window(p, r, t, k, b) /\ t <= r
  BY DEF Good, Shaped, Echo
<1>2. p.state \in {"established", "close_wait"}  BY <1>1 DEF Owned
<1>3. PICK d \in PcbRecs : d = [p EXCEPT !.recv = FALSE, !.arg = FALSE, !.unacked = 0]
  <2>1. 0 \in 0 .. SND_BUF  BY Sizes
  <2> QED BY <2>1, <1>1 DEF PcbRecs
<1>4. /\ d.state = p.state /\ d.refused = p.refused /\ d.wnd = p.wnd /\ ~d.recv /\ ~d.arg
      /\ d.finflag <=> p.finflag
  BY <1>1, <1>3 DEF PcbRecs
<1>5. PICK closing \in PcbRecs : closing = [d EXCEPT !.rxclosed = TRUE]  BY DEF PcbRecs
<1>6. /\ closing.state = p.state /\ closing.refused = p.refused /\ ~closing.recv
      /\ ~closing.arg /\ closing.rxclosed
      /\ closing.finflag <=> p.finflag
  BY <1>4, <1>5 DEF PcbRecs
<1>7. x = IF p.refused # NULL \/ p.wnd # WND THEN Gone ELSE tcp_close_shutdown_fin(closing, mem)
  BY <1>2, <1>3, <1>4, <1>5 DEF Detach, tcp_close
<1>8. CASE p.refused # NULL \/ p.wnd # WND
  <2>1. x = Gone  BY <1>7, <1>8
  <2> QED BY <2>1, GoneShape DEF Read
<1>9. CASE p.refused = NULL /\ p.wnd = WND
  <2>1. /\ x \in PcbRecs /\ x.refused = NULL /\ ~x.recv /\ ~x.arg /\ x.rxclosed
        /\ x.finflag <=> p.finflag
        /\ x.state \in {"established", "close_wait", "fin_wait", "last_ack"}
    BY <1>2, <1>6, <1>7, <1>9, ShutFinShape
  <2>2. ~p.finflag  BY <1>1, <1>9 DEF Owned
  <2>3. t = r
    <3>1. CASE ~p.recv  BY <3>1, <1>1, <1>2 DEF Read
    <3>2. CASE p.recv
      <4>1. One(p.finflag) = 0  BY <2>2 DEF One
      <4>2. PICK h \in Nat : h = IF k = "recved" THEN tot_len(b) ELSE 0  BY ChainLengthNat
      <4>3. r - t + 0 + h <= WND - WND  BY <4>1, <4>2, <3>2, <1>1, <1>9 DEF Window
      <4> QED BY <4>3, <1>1, Sizes
    <3> QED BY <3>1, <3>2
  <2> QED BY <2>1, <2>2, <2>3 DEF Read
<1> QED BY <1>8, <1>9

\* A netconn without pcb and recvmbox.
LEMMA BareGood ==
    ASSUME NEW p, NEW n, NEW e, NEW r \in Nat, NEW t \in Nat, NEW k, NEW b,
           Good(p, n, e, r, t, k, b),
           NEW p2 \in PcbRecs, ~p2.recv, ~p2.arg, p2.refused = NULL, ~p2.finflag,
           p2.state \notin {"none", "syn_rcvd"}, Read(p2, r, t),
           NEW n2 \in Netconns, ~n2.pcb, ~n2.valid, n2.mbox = <<>>, n2.alloc \/ n2 = Free,
           NEW k2, k2 \in {"delete", "none"}, Signal(n2, k2), k2 = "none" => n2 = Free
    PROVE  Good(p2, n2, e, r, t, k2, b)
<1>1. e \in Seq(Nat) /\ Echo(n, e, r, t, k, b)  BY DEF Good, Shaped
<1>2. Shaped(p2, n2, e)
  <2>1. DOMAIN n2.mbox = {} /\ Len(n2.mbox) = 0  OBVIOUS
  <2> QED BY <2>1, <1>1, NullChain, Sizes DEF Shaped
<1>3. Owned(p2, n2)  BY DEF Owned
<1>4. Mail(p2, n2, r, t) /\ Window(p2, r, t, k2, b) /\ Fin(p2, r, t, k2, b)
  BY DEF Mail, Window, Fin
<1>5. Echo(n2, e, r, t, k2, b)
  <2>1. k2 = "none" => ~n2.alloc  BY DEF Free
  <2> QED BY <2>1, <1>1 DEF Echo
<1> QED BY <1>2, <1>3, <1>4, <1>5 DEF Good

\* netconn_close.
LEMMA CloseGood ==
    ASSUME NEW p, NEW n, NEW e, NEW r \in Nat, NEW t \in Nat, NEW b \in Pbufs, Whole(b),
           Good(p, n, e, r, t, "close", b), n.pcb, NEW mem \in BOOLEAN,
           NEW p2, p2 = Detach(p, mem),
           NEW n2, n2 = [netconn_drain(n) EXCEPT !.pcb = FALSE]
    PROVE  Good(p2, n2, e, r, t, "delete", b)
<1>1. n \in Netconns /\ Signal(n, "close")  BY DEF Good, Shaped
<1>2. PICK d \in Netconns : d = netconn_drain(n)
  <2>1. <<>> \in Seq(Msgs)  OBVIOUS
  <2> QED BY <2>1, <1>1 DEF netconn_drain, Netconns
<1>3. n2 \in Netconns  BY <1>2 DEF Netconns
<1>4. /\ ~n2.pcb /\ ~n2.valid /\ n2.mbox = <<>> /\ n2.state = n.state /\ n2.sem = n.sem
      /\ n2.alloc <=> n.alloc
      /\ n2.msg <=> n.msg
  BY <1>1, <1>2, <1>3 DEF Netconns, netconn_drain
<1>5. Signal(n2, "delete") /\ n2.alloc  BY <1>1, <1>4 DEF Signal
<1>6. /\ p2 \in PcbRecs /\ ~p2.recv /\ ~p2.arg /\ p2.refused = NULL /\ ~p2.finflag
      /\ p2.state \notin {"none", "syn_rcvd"} /\ Read(p2, r, t)
  BY DetachShape
<1>7. ASSUME NEW m \in Netconns, m = n2, NEW p3 \in PcbRecs, p3 = p2
      PROVE  Good(p3, m, e, r, t, "delete", b)
  <2>1. /\ ~p3.recv /\ ~p3.arg /\ p3.refused = NULL /\ ~p3.finflag
        /\ p3.state \notin {"none", "syn_rcvd"} /\ Read(p3, r, t)
    BY <1>6, <1>7
  <2>2. ~m.pcb /\ ~m.valid /\ m.mbox = <<>> /\ m.alloc /\ Signal(m, "delete")
    BY <1>4, <1>5, <1>7
  <2> QED BY <2>1, <2>2, BareGood
<1> QED BY <1>3, <1>6, <1>7

\* netconn_delete of a netconn that still has its pcb.
LEMMA DeleteGood ==
    ASSUME NEW p, NEW n, NEW e, NEW r \in Nat, NEW t \in Nat, NEW b \in Pbufs, Whole(b),
           Good(p, n, e, r, t, "delete", b), NEW mem \in BOOLEAN,
           NEW p2, p2 = IF n.pcb THEN Detach(p, mem) ELSE p
    PROVE  Good(p2, Free, e, r, t, "none", b)
<1>1. /\ Free \in Netconns /\ ~Free.pcb /\ ~Free.valid /\ Free.mbox = <<>> /\ ~Free.alloc
      /\ Free.sem = 0 /\ Free.state = "none" /\ ~Free.msg
  BY Records DEF Free
<1>2. Signal(Free, "none")  BY <1>1 DEF Signal
<1>3. CASE n.pcb  BY <1>1, <1>2, <1>3, DetachShape, BareGood
<1>4. CASE ~n.pcb
  <2>1. /\ p \in PcbRecs /\ Read(p, r, t) /\ Owned(p, n) /\ n.alloc
    BY DEF Good, Shaped, Signal
  <2>2. ~p.arg /\ p.state \notin {"none", "syn_rcvd"}  BY <2>1, <1>4 DEF Owned
  <2>3. ~p.recv /\ p.refused = NULL /\ ~p.finflag  BY <2>2, OrphanShape
  <2> QED BY <2>1, <2>2, <2>3, <1>1, <1>2, <1>4, BareGood
<1> QED BY <1>3, <1>4

\* netconn_close_shutdown(NETCONN_SHUT_RD): the end of the data was seen, so nothing
\* that is thrown away was unread.
LEMMA ShutRdGood ==
    ASSUME NEW p, NEW n, NEW e, NEW r \in Nat, NEW t \in Nat, NEW b \in Pbufs,
           Good(p, n, e, r, t, "shut_rd", b), n.pcb,
           NEW p2, p2 = [p EXCEPT !.recv = FALSE, !.rxclosed = TRUE, !.refused = NULL, !.finflag = FALSE],
           NEW n2, n2 = netconn_drain(n)
    PROVE  Good(p2, n2, e, r, t, "close", b)
<1>1. /\ p \in PcbRecs /\ n \in Netconns /\ e \in Seq(Nat) /\ Owned(p, n) /\ Read(p, r, t)
      /\ Fin(p, r, t, "shut_rd", b) /\ Signal(n, "shut_rd") /\ Echo(n, e, r, t, "shut_rd", b)
  BY DEF Good, Shaped
<1>2. p2 \in PcbRecs  BY <1>1, NullChain DEF PcbRecs
<1>3. /\ p2.state = p.state /\ ~p2.recv /\ p2.rxclosed /\ p2.refused = NULL /\ ~p2.finflag
      /\ p2.arg <=> p.arg
      /\ p2.closepend <=> p.closepend
  BY <1>1, <1>2 DEF PcbRecs
<1>4. n2 \in Netconns
  <2>1. <<>> \in Seq(Msgs)  OBVIOUS
  <2> QED BY <2>1, <1>1 DEF Netconns, netconn_drain
<1>5. /\ ~n2.valid /\ n2.mbox = <<>> /\ n2.state = n.state /\ n2.sem = n.sem
      /\ n2.alloc <=> n.alloc
      /\ n2.pcb <=> n.pcb
      /\ n2.msg <=> n.msg
  BY <1>1, <1>4 DEF Netconns, netconn_drain
<1>6. p.state \in {"established", "close_wait"} /\ p.arg /\ n.alloc /\ ~p.closepend
  BY <1>1 DEF Owned
<1>7. t = r  BY <1>1, <1>6 DEF Fin, Read
<1>8. Shaped(p2, n2, e)
  <2>1. DOMAIN n2.mbox = {} /\ Len(n2.mbox) = 0  BY <1>5
  <2> QED BY <2>1, <1>1, <1>2, <1>3, <1>4, NullChain, Sizes DEF Shaped
<1>9. Owned(p2, n2)  BY <1>3, <1>5, <1>6 DEF Owned
<1>10. /\ Mail(p2, n2, r, t) /\ Read(p2, r, t) /\ Window(p2, r, t, "close", b)
       /\ Fin(p2, r, t, "close", b)
  BY <1>3, <1>5, <1>6, <1>7 DEF Mail, Read, Window, Fin
<1>11. Signal(n2, "close")  BY <1>1, <1>5 DEF Signal
<1>12. Echo(n2, e, r, t, "close", b)  BY <1>1 DEF Echo
<1> QED BY <1>8, <1>9, <1>10, <1>11, <1>12 DEF Good

\* accept_function: a netconn for a connection that is established.
LEMMA SetupGood ==
    ASSUME NEW p, NEW n, NEW e, NEW r \in Nat, NEW t \in Nat, NEW b \in Pbufs,
           Good(p, n, e, r, t, "none", b), p.state = "syn_rcvd",
           NEW p2, p2 = setup_tcp([p EXCEPT !.state = "established"])
    PROVE  Good(p2, netconn_alloc, e, r, t, "none", b) /\ ~n.alloc
<1>1. /\ p \in PcbRecs /\ e \in Seq(Nat) /\ Owned(p, n) /\ Read(p, r, t)
      /\ Echo(n, e, r, t, "none", b)
  BY DEF Good, Shaped
<1>2. ~n.alloc /\ ~p.arg  BY <1>1 DEF Owned
<1>3. p.refused = NULL /\ ~p.finflag  BY <1>2, OrphanShape
<1>4. PICK h \in PcbRecs : h = [p EXCEPT !.state = "established"]  BY <1>1 DEF PcbRecs, Live
<1>5. /\ h.state = "established" /\ h.refused = NULL /\ h.wnd = p.wnd
      /\ h.finflag <=> p.finflag
      /\ h.rxclosed <=> p.rxclosed
      /\ h.closepend <=> p.closepend
  BY <1>1, <1>3, <1>4 DEF PcbRecs
<1>6. p2 = [h EXCEPT !.recv = TRUE, !.arg = TRUE]  BY <1>4 DEF setup_tcp
<1>7. PICK g \in PcbRecs : g = p2  BY <1>6 DEF PcbRecs
<1>8. /\ g.state = "established" /\ g.refused = NULL /\ g.wnd = p.wnd /\ g.recv /\ g.arg
      /\ g.finflag <=> p.finflag
      /\ g.rxclosed <=> p.rxclosed
      /\ g.closepend <=> p.closepend
  BY <1>5, <1>6, <1>7 DEF PcbRecs
<1>9. r = 0 /\ t = 0 /\ ~p.rxclosed /\ ~p.closepend  BY <1>1 DEF Read, Echo
<1>10. PICK m \in Netconns : m = netconn_alloc  BY Records
<1>11. /\ m.alloc /\ m.pcb /\ m.state = "none" /\ m.mbox = <<>> /\ m.valid /\ ~m.msg /\ m.sem = 0
  BY <1>10, Records DEF netconn_alloc, Free, Netconns
<1>12. Shaped(g, m, e)
  <2>1. DOMAIN m.mbox = {} /\ Len(m.mbox) = 0  BY <1>11
  <2> QED BY <2>1, <1>1, <1>8, NullChain, Sizes DEF Shaped
<1>13. Owned(g, m)  BY <1>3, <1>8, <1>9, <1>11 DEF Owned
<1>14. Mail(g, m, r, t)  BY <1>8, <1>9, <1>11 DEF Mail, Queue, Tip
<1>15. Read(g, r, t) /\ Fin(g, r, t, "none", b)  BY <1>8 DEF Read, Fin
<1>16. Window(g, r, t, "none", b)
  <2>1. One(g.finflag) = 0 /\ g.wnd \in 0 .. WND  BY <1>3, <1>8 DEF One, PcbRecs
  <2> QED BY <2>1, <1>9, Sizes DEF Window
<1>17. Signal(m, "none")  BY <1>11 DEF Signal
<1>18. Echo(m, e, r, t, "none", b)  BY <1>1, <1>9 DEF Echo
<1>19. Good(g, m, e, r, t, "none", b)
  BY <1>12, <1>13, <1>14, <1>15, <1>16, <1>17, <1>18 DEF Good
<1> QED BY <1>2, <1>7, <1>10, <1>19

-------------------------------------------------------------------------------
(* What the server task does to the connection it serves.                  *)

\* A connection it does not serve does not look at its netbuf; once fetched from the
\* acceptmbox it does.
LEMMA IdleGood ==
    ASSUME NEW p, NEW n, NEW e, NEW r \in Nat, NEW t \in Nat, NEW b, NEW b2,
           Good(p, n, e, r, t, "none", b)
    PROVE  Good(p, n, e, r, t, "none", b2) /\ (n.alloc => Good(p, n, e, r, t, "recv", b2))
<1>1. /\ Shaped(p, n, e) /\ Owned(p, n) /\ Mail(p, n, r, t) /\ Read(p, r, t)
      /\ Window(p, r, t, "none", b) /\ Signal(n, "none") /\ Echo(n, e, r, t, "none", b)
  BY DEF Good
<1>2. Window(p, r, t, "none", b2) /\ Fin(p, r, t, "none", b2) /\ Echo(n, e, r, t, "none", b2)
  BY <1>1 DEF Window, Fin, Echo
<1>3. Good(p, n, e, r, t, "none", b2)  BY <1>1, <1>2 DEF Good
<1>4. ASSUME n.alloc PROVE Good(p, n, e, r, t, "recv", b2)
  <2>1. Window(p, r, t, "recv", b2) /\ Fin(p, r, t, "recv", b2)  BY <1>1 DEF Window, Fin
  <2>2. Signal(n, "recv")  BY <1>1, <1>4 DEF Signal
  <2>3. t = 0 /\ Len(e) <= t /\ Len(e) \in Nat  BY <1>1, <1>4 DEF Echo, Shaped
  <2>4. Echo(n, e, r, t, "recv", b2)  BY <2>3, <1>1 DEF Echo
  <2> QED BY <2>1, <2>2, <2>4, <1>1 DEF Good
<1> QED BY <1>3, <1>4

\* What netconn_recv_data does with a netconn it gives up.
LEMMA UnpendShape ==
    ASSUME NEW n \in Netconns, NEW n2, n2 = [n EXCEPT !.pending = FALSE]
    PROVE  /\ n2 \in Netconns /\ n2.mbox = n.mbox /\ n2.state = n.state /\ n2.sem = n.sem
           /\ n2.todo = n.todo
           /\ n2.alloc <=> n.alloc
           /\ n2.pcb <=> n.pcb
           /\ n2.valid <=> n.valid
           /\ n2.closed <=> n.closed
           /\ n2.msg <=> n.msg
<1>1. n2 \in Netconns  BY DEF Netconns
<1> QED BY <1>1 DEF Netconns

\* The loop ends, for whatever reason.
LEMMA ToClose ==
    ASSUME NEW p, NEW n, NEW e, NEW r \in Nat, NEW t \in Nat, NEW k, NEW b \in Pbufs, Whole(b),
           Good(p, n, e, r, t, k, b), k \notin {"none", "sem"}, NEW b2,
           NEW n2, n2 = n \/ n2 = [n EXCEPT !.pending = FALSE]
    PROVE  Good(p, n2, e, r, t, "close", b2)
<1>1. /\ p \in PcbRecs /\ n \in Netconns /\ e \in Seq(Nat) /\ Window(p, r, t, k, b)
      /\ Signal(n, k) /\ Echo(n, e, r, t, k, b) /\ n.alloc
  BY DEF Good, Shaped, Signal
<1>2. n2 \in Netconns /\ n2.mbox = n.mbox /\ n2.state = n.state /\ n2.sem = n.sem
  BY <1>1, UnpendShape
<1>3. /\ n2.alloc <=> n.alloc
      /\ n2.pcb <=> n.pcb
      /\ n2.valid <=> n.valid
      /\ n2.closed <=> n.closed
      /\ n2.msg <=> n.msg
  BY <1>1, UnpendShape
<1>4. Window(p, r, t, "close", b2)
  <2>1. One(p.finflag) \in Nat /\ p.wnd \in Nat  BY <1>1, Sizes DEF One, PcbRecs
  <2>2. PICK h \in Nat : h = IF k = "recved" THEN tot_len(b) ELSE 0  BY ChainLengthNat
  <2>3. p.recv => r - t + One(p.finflag) + h <= WND - p.wnd  BY <2>2, <1>1 DEF Window
  <2>4. p.recv => r - t + One(p.finflag) + 0 <= WND - p.wnd  BY <2>1, <2>3, Sizes
  <2> QED BY <2>4 DEF Window
<1>5. Fin(p, r, t, "close", b2)  BY DEF Fin
<1>6. Signal(n2, "close")  BY <1>1, <1>2, <1>3 DEF Signal
<1>7. Echo(n2, e, r, t, "close", b2)  BY <1>1 DEF Echo
<1>8. Alike(p, p)  BY <1>1 DEF Alike
<1> QED BY <1>1, <1>2, <1>3, <1>4, <1>5, <1>6, <1>7, <1>8, SameGood

\* The steps of the task that change nothing else: to the fetch of a connection that
\* is alive, from handle_fin to the shutdown, from netconn_close to netconn_delete.
LEMMA MoveGood ==
    ASSUME NEW p, NEW n, NEW e, NEW r \in Nat, NEW t \in Nat, NEW k, NEW b, NEW k2,
           Good(p, n, e, r, t, k, b),
           \/ k = "recv" /\ k2 = "fetch" /\ n.valid /\ ~n.closed
           \/ k = "handle_fin" /\ k2 = "shut_rd"
           \/ k = "close" /\ k2 = "delete"
    PROVE  Good(p, n, e, r, t, k2, b)
<1>1. /\ Shaped(p, n, e) /\ Owned(p, n) /\ Mail(p, n, r, t) /\ Read(p, r, t)
      /\ Window(p, r, t, k, b) /\ Fin(p, r, t, k, b) /\ Signal(n, k) /\ Echo(n, e, r, t, k, b)
  BY DEF Good
<1>2. Window(p, r, t, k2, b)  BY <1>1 DEF Window
<1>3. Fin(p, r, t, k2, b)  BY <1>1 DEF Fin
<1>4. n.valid /\ ~n.closed => n.pcb  BY <1>1 DEF Owned
<1>5. Signal(n, k2)  BY <1>1, <1>4 DEF Signal
<1>6. Echo(n, e, r, t, k2, b)  BY <1>1 DEF Echo
<1> QED BY <1>1, <1>2, <1>3, <1>5, <1>6 DEF Good

\* TakeMessage for one connection.
Takes(n, t, m, n2, t2, k2) ==
    /\ m = Head(n.mbox) /\ n2 = [n EXCEPT !.mbox = Tail(n.mbox)]
    /\ t2 = t + tot_len(m.p) /\ k2 = IF m = Failed THEN "close" ELSE "recved"

\* netconn_recv_data takes the first message: what it carries comes next in the
\* client's stream, and the end of the data comes after all of it.
LEMMA TakeGood ==
    ASSUME NEW p, NEW n, NEW e, NEW r \in Nat, NEW t \in Nat, NEW k \in {"recv", "fetch"}, NEW b,
           Good(p, n, e, r, t, k, b), n.valid, n.mbox # <<>>,
           NEW m, NEW n2, NEW t2, NEW k2, Takes(n, t, m, n2, t2, k2)
    PROVE  Good(p, n2, e, r, t2, k2, m.p)
<1>0. /\ m = Head(n.mbox) /\ n2 = [n EXCEPT !.mbox = Tail(n.mbox)]
      /\ t2 = t + tot_len(m.p) /\ k2 = IF m = Failed THEN "close" ELSE "recved"
  BY DEF Takes
<1> USE <1>0
<1>1. /\ p \in PcbRecs /\ n \in Netconns /\ e \in Seq(Nat) /\ Owned(p, n) /\ Mail(p, n, r, t)
      /\ Read(p, r, t) /\ Window(p, r, t, k, b) /\ Signal(n, k) /\ Echo(n, e, r, t, k, b)
  BY DEF Good, Shaped
<1>2. PICK q \in Seq(Msgs) : q = n.mbox  BY <1>1 DEF Netconns
<1>3. /\ q # <<>> /\ Len(q) \in Nat \ {0} /\ 1 \in DOMAIN q /\ m = q[1] /\ m \in Msgs
      /\ Tail(q) \in Seq(Msgs) /\ Len(Tail(q)) = Len(q) - 1
      /\ \A i \in 1 .. Len(q) - 1 : Tail(q)[i] = q[i + 1]
      /\ DOMAIN q = 1 .. Len(q)
  BY <1>2, HeadTailProperties
<1>4. m.p \in Pbufs /\ Whole(m.p)  BY <1>2, <1>3 DEF Msgs, Good, Shaped
<1>5. tot_len(m.p) \in Nat /\ t2 \in Nat /\ t2 >= t  BY <1>4, ChainLengthNat
<1>6. PICK l \in Seq(Msgs) : l = Tail(q)  BY <1>3
<1>7. PICK g \in Netconns : g = n2
  <2>1. n2 = [n EXCEPT !.mbox = l]  BY <1>2, <1>6
  <2> QED BY <2>1, <1>1 DEF Netconns
<1>8. g.mbox = l /\ g.state = n.state /\ g.sem = n.sem /\ g.todo = n.todo
  BY <1>1, <1>2, <1>6, <1>7 DEF Netconns
<1>9. /\ g.alloc <=> n.alloc
      /\ g.pcb <=> n.pcb
      /\ g.valid <=> n.valid
      /\ g.closed <=> n.closed
      /\ g.msg <=> n.msg
  BY <1>1, <1>7 DEF Netconns
<1>10. Queue(q, r, t)  BY <1>1, <1>2 DEF Mail
<1>11. /\ m.p # NULL => m.p.from = t /\ Upto(m.p) <= r
       /\ t2 = IF m.p = NULL THEN t ELSE Upto(m.p)
       /\ t2 <= r
  <2>1. m.p # NULL => m.p.from = t /\ Upto(m.p) <= r  BY <1>3, <1>10 DEF Queue
  <2>2. CASE m.p = NULL  BY <2>2, <1>1, NullChain DEF Echo
  <2>3. CASE m.p # NULL
    <3>1. tot_len(m.p) = Upto(m.p) - m.p.from /\ Upto(m.p) \in Nat  BY <2>3, <1>4, ChainLength
    <3>2. t2 = Upto(m.p)  BY <3>1, <2>1, <2>3
    <3> QED BY <3>2, <2>1, <2>3
  <2> QED BY <2>1, <2>2, <2>3
<1>12. Queue(l, r, t2) /\ \A f \in Nat : Tip(q, f, t) => Tip(l, f, t2)
  BY <1>3, <1>5, <1>6, <1>10, <1>11, QueueTail
<1>13. Shaped(p, g, e)
  <2>1. Len(l) <= RECVMBOX
    <3>1. Len(q) <= RECVMBOX  BY <1>2 DEF Good, Shaped
    <3>2. Len(l) = Len(q) - 1  BY <1>3, <1>6
    <3> QED BY <3>1, <3>2, <1>3, Sizes
  <2>2. ASSUME NEW i \in DOMAIN l
        PROVE  Whole(l[i].p) /\ (l[i].p = NULL <=> l[i].tag # "data")
    <3>1. i \in 1 .. Len(q) - 1  BY <1>3, <1>6
    <3>2. i + 1 \in DOMAIN q /\ l[i] = q[i + 1]  BY <3>1, <1>3, <1>6
    <3> QED BY <3>2, <1>2 DEF Good, Shaped
  <2> QED BY <2>1, <2>2, <1>1, <1>8 DEF Good, Shaped
<1>14. Owned(p, g)
  <2>1. n.alloc  BY <1>1 DEF Signal
  <2> QED BY <2>1, <1>1, <1>9 DEF Owned
<1>15. Mail(p, g, r, t2)
  <2>1. SUFFICES ASSUME p.recv
        PROVE  /\ Tip(l, IF p.refused = NULL THEN r ELSE p.refused.from, t2)
               /\ p.refused # NULL => Upto(p.refused) = r
               /\ \A i \in DOMAIN l : l[i].p = NULL => p.state = "close_wait" /\ p.refused = NULL
    BY <1>8, <1>12 DEF Mail
  <2>2. /\ Tip(q, IF p.refused = NULL THEN r ELSE p.refused.from, t)
        /\ p.refused # NULL => Upto(p.refused) = r
        /\ \A i \in DOMAIN q : q[i].p = NULL => p.state = "close_wait" /\ p.refused = NULL
    BY <2>1, <1>1, <1>2 DEF Mail
  <2>3. PICK f \in Nat : f = IF p.refused = NULL THEN r ELSE p.refused.from
    BY <1>1 DEF PcbRecs, Pbufs
  <2>4. Tip(l, f, t2)  BY <2>2, <2>3, <1>12
  <2>5. ASSUME NEW i \in DOMAIN l
        PROVE  i + 1 \in DOMAIN q /\ l[i] = q[i + 1]
    BY <1>3, <1>6
  <2> QED BY <2>2, <2>3, <2>4, <2>5
<1>16. Read(p, r, t2)  BY <1>1, <1>5, <1>11 DEF Read
<1>17. Window(p, r, t2, k2, m.p)
  <2>1. One(p.finflag) \in Nat /\ p.wnd \in Nat  BY <1>1, Sizes DEF One, PcbRecs
  <2>2. p.recv => r - t + One(p.finflag) + 0 <= WND - p.wnd  BY <1>1 DEF Window
  <2>3. PICK h \in Nat : h = IF k2 = "recved" THEN tot_len(m.p) ELSE 0  BY <1>5
  <2>4. h <= t2 - t  BY <2>3, <1>5
  <2>5. PICK o \in Nat, w \in Nat : o = One(p.finflag) /\ w = p.wnd  BY <2>1
  <2>6. p.recv => r - t + o <= WND - w  BY <2>2, <2>5, Sizes
  <2>7. ASSUME p.recv PROVE r - t2 + o + h <= WND - w
    <3>1. PICK u \in Nat : u = t2  BY <1>5
    <3>2. h <= u - t /\ r - t + o <= WND - w /\ WND \in Nat  BY <3>1, <2>4, <2>6, <2>7, Sizes
    <3>3. r - u + o + h <= WND - w  BY <3>2
    <3> QED BY <3>1, <3>3
  <2> QED BY <2>3, <2>5, <2>7 DEF Window
<1>18. Fin(p, r, t2, k2, m.p)
  <2>1. SUFFICES ASSUME p.recv, m.p = NULL
        PROVE  p.state = "close_wait" /\ t2 = r /\ p.refused = NULL
    BY DEF Fin
  <2>2. p.state = "close_wait" /\ p.refused = NULL  BY <2>1, <1>1, <1>2, <1>3 DEF Mail
  <2>3. Tip(q, r, t)  BY <2>1, <2>2, <1>1, <1>2 DEF Mail
  <2>4. t = r  BY <2>1, <2>3, <1>3 DEF Tip
  <2> QED BY <2>1, <2>2, <2>4, <1>11
<1>19. Signal(g, k2)  BY <1>1, <1>8, <1>9 DEF Signal
<1>20. Echo(g, e, r, t2, k2, m.p)
  <2>1. Len(e) = t  BY <1>1 DEF Echo
  <2> QED BY <2>1, <1>1, <1>5, <1>11 DEF Echo
<1>21. Good(p, g, e, r, t2, k2, m.p)
  BY <1>13, <1>14, <1>15, <1>16, <1>17, <1>18, <1>19, <1>20 DEF Good
<1> QED BY <1>7, <1>21

\* lwip_netconn_do_recv gives the window back what was taken, never more than TCP_WND.
LEMMA DoRecvGood ==
    ASSUME NEW p, NEW n, NEW e, NEW r \in Nat, NEW t \in Nat, NEW b \in Pbufs, Whole(b),
           Good(p, n, e, r, t, "recved", b), NEW len, len = IF b = NULL THEN 1 ELSE tot_len(b),
           NEW p2, p2 = IF n.pcb THEN tcp_recved(p, len) ELSE p,
           NEW k2, k2 = IF b = NULL THEN "handle_fin" ELSE "write"
    PROVE  Good(p2, n, e, r, t, k2, b)
<1>1. /\ p \in PcbRecs /\ n \in Netconns /\ e \in Seq(Nat) /\ Owned(p, n)
      /\ Window(p, r, t, "recved", b) /\ Fin(p, r, t, "recved", b)
      /\ Signal(n, "recved") /\ Echo(n, e, r, t, "recved", b)
  BY DEF Good, Shaped
<1>2. tot_len(b) \in Nat /\ len \in Nat  BY ChainLengthNat
<1>3. PICK g \in PcbRecs : g = p2  BY <1>1, <1>2, RecvedShape
<1>4. Alike(p, g) /\ g.refused = p.refused
  <2>1. CASE ~n.pcb  BY <2>1, <1>1, <1>3 DEF Alike
  <2>2. CASE n.pcb  BY <2>2, <1>1, <1>2, <1>3, RecvedShape, ZenonT(60) DEF Alike
  <2> QED BY <2>1, <2>2
<1>5. g.finflag <=> p.finflag
  <2>1. CASE ~n.pcb  BY <2>1, <1>3
  <2>2. CASE n.pcb  BY <2>2, <1>1, <1>2, <1>3, RecvedShape
  <2> QED BY <2>1, <2>2
<1>6. /\ g.state = p.state
      /\ g.recv <=> p.recv
  BY <1>4 DEF Alike
<1>7. p.recv /\ b = NULL => t = r /\ p.refused = NULL /\ p.state = "close_wait" /\ ~p.finflag
  BY <1>1 DEF Fin, Owned
<1>8. Window(g, r, t, k2, b)
  <2>1. SUFFICES ASSUME p.recv PROVE r - t + One(g.finflag) + 0 <= WND - g.wnd
    BY <1>6 DEF Window
  <2>2. n.pcb  BY <2>1, <1>1 DEF Owned
  <2>3. g.wnd = IF WND < p.wnd + len THEN WND ELSE p.wnd + len  BY <2>2, <1>1, <1>2, <1>3, RecvedShape, ZenonT(60)
  <2>4. p.wnd \in 0 .. WND /\ g.wnd \in 0 .. WND  BY <1>1 DEF PcbRecs
  <2>5. PICK h \in Nat : h = One(p.finflag) /\ h = One(g.finflag)  BY <1>5 DEF One
  <2>6. r - t + h + tot_len(b) <= WND - p.wnd  BY <2>1, <2>5, <1>1 DEF Window
  <2>7. CASE b # NULL
    <3>1. g.wnd <= p.wnd + tot_len(b)  BY <2>3, <2>4, <2>7, <1>2, Sizes
    <3>2. r - t + h + 0 <= WND - g.wnd  BY <3>1, <2>4, <2>6, <1>2, Sizes
    <3> QED BY <3>2, <2>5
  <2>8. CASE b = NULL
    <3>1. t = r /\ h = 0  BY <2>1, <2>5, <2>8, <1>7 DEF One
    <3>2. r - t + h + 0 <= WND - g.wnd  BY <3>1, <2>4, Sizes
    <3> QED BY <3>2, <2>5
  <2> QED BY <2>7, <2>8
<1>9. Fin(g, r, t, k2, b)  BY <1>4, <1>6, <1>1 DEF Fin
<1>10. Signal(n, k2)  BY <1>1 DEF Signal
<1>11. Echo(n, e, r, t, k2, b)  BY <1>1 DEF Echo
<1>12. Good(g, n, e, r, t, k2, b)
  BY <1>1, <1>4, <1>5, <1>8, <1>9, <1>10, <1>11, SameGood
<1> QED BY <1>3, <1>12

\* netbuf_data: the bytes that continue what was echoed.
LEMMA DataShape ==
    ASSUME NEW b \in Pbufs, Whole(b), b # NULL, NEW e \in Seq(Nat), b.from = Len(e),
           \A i \in DOMAIN e : e[i] = i, NEW d, d = netbuf_data(b)
    PROVE  /\ d \in Seq(Nat) /\ Len(d) = b.ends[1] - b.from /\ Counted(e, d)
           /\ Len(e) + Len(d) = b.ends[1]
<1>1. b.ends[1] \in Nat /\ b.from \in Nat /\ b.from < b.ends[1]  BY ChainLength
<1>2. PICK f \in Nat, l \in Nat : f = b.from /\ l = b.ends[1] - b.from  BY <1>1
<1>3. d = [i \in 1 .. l |-> f + i]  BY <1>2 DEF netbuf_data
<1>4. d \in Seq(Nat) /\ Len(d) = l /\ DOMAIN d = 1 .. l
  <2>1. \A i \in 1 .. l : f + i \in Nat  OBVIOUS
  <2>2. d \in [1 .. l -> Nat]  BY <2>1, <1>3
  <2> QED BY <2>2
<1>5. \A i \in DOMAIN d : d[i] = Len(e) + i  BY <1>2, <1>3, <1>4
<1>6. f + l = b.ends[1]  BY <1>1, <1>2
<1> QED BY <1>2, <1>4, <1>5, <1>6 DEF Counted

\* netbuf_next: the chain after the first pbuf.
LEMMA NextShape ==
    ASSUME NEW b \in Pbufs, Whole(b), b # NULL, NEW x, x = netbuf_next(b)
    PROVE  /\ x \in Pbufs /\ Whole(x)
           /\ Len(b.ends) > 1 => x # NULL /\ x.from = b.ends[1] /\ Upto(x) = Upto(b)
           /\ ~(Len(b.ends) > 1) => x = NULL /\ Upto(b) = b.ends[1]
<1>1. /\ b.ends \in Seq(Nat) /\ b.ends # <<>> /\ Len(b.ends) \in Nat \ {0} /\ b.ends[1] \in Nat
  BY ChainLength
<1>q. PICK q \in Seq(Nat) : q = b.ends  BY <1>1
<1>n. q # <<>> /\ Len(q) \in Nat \ {0}  BY <1>q, <1>1
<1>l. PICK L \in Nat \ {0} : L = Len(q)  BY <1>n
<1>2. CASE ~(L > 1)
  <2>1. x = NULL  BY <1>2, <1>q, <1>l DEF netbuf_next
  <2>3. L = 1  BY <1>2
  <2>2. Len(q) = 1  BY <2>3, <1>l
  <2> QED BY <2>1, <2>2, <1>2, <1>q, <1>l, NullChain DEF Upto
<1>3. CASE L > 1
  <2>1. q = b.ends  BY <1>q
  <2>2. PICK l \in Seq(Nat) : l = Tail(q) /\ Len(l) = Len(q) - 1 /\ \A i \in 1 .. Len(q) - 1 : l[i] = q[i + 1]
    BY <1>n, HeadTailProperties
  <2>3. x = [from |-> b.ends[1], ends |-> l]  BY <2>1, <2>2, <1>3, <1>l DEF netbuf_next
  <2>4. x \in Pbufs /\ x.from = b.ends[1] /\ x.ends = l  BY <2>3, <1>1 DEF Pbufs
  <2>5. l # <<>> /\ Len(l) \in Nat \ {0}
    <3>1. L - 1 \in Nat \ {0}  BY <1>3
    <3>2. Len(l) \in Nat \ {0}  BY <3>1, <2>2, <1>l
    <3> QED BY <3>2
  <2>6. x # NULL  BY <2>4, <2>5, NullChain
  <2>7. Upto(x) = Upto(b)
    <3>1. Len(l) \in 1 .. Len(q) - 1 /\ Len(l) + 1 = Len(q)  BY <2>1, <2>2, <2>5
    <3>2. l[Len(l)] = q[Len(q)]  BY <3>1, <2>2
    <3> QED BY <3>2, <2>1, <2>4 DEF Upto
  <2>8. ASSUME NEW i \in DOMAIN l
        PROVE  i \in Nat /\ i + 1 \in DOMAIN q /\ l[i] = q[i + 1] /\ 1 \in DOMAIN q /\ 1 < i + 1
    BY <2>1, <2>2, <1>3
  <2>9. \A i, j \in DOMAIN q : i < j => q[i] < q[j]  BY <2>1 DEF Whole
  <2>10. \A i \in DOMAIN l : q[1] < l[i]  BY <2>8, <2>9
  <2>11. ASSUME NEW i \in DOMAIN l, NEW j \in DOMAIN l, i < j
         PROVE  l[i] < l[j]
    <3>1. i + 1 < j + 1  BY <2>8, <2>11
    <3> QED BY <3>1, <2>8, <2>9
  <2>12. Whole(x)  BY <2>1, <2>4, <2>5, <2>10, <2>11 DEF Whole
  <2> QED BY <2>1, <2>4, <2>6, <2>7, <2>12, <1>3, <1>l
<1> QED BY <1>2, <1>3

\* After a fragment the next one continues the echo, or the netbuf is used up.
LEMMA FragmentEcho ==
    ASSUME NEW b \in Pbufs, Whole(b), b # NULL, NEW r \in Nat, NEW t \in Nat, Upto(b) = t, t <= r,
           NEW e \in Seq(Nat), \A i \in DOMAIN e : e[i] = i, Len(e) <= t, NEW n,
           NEW ok \in BOOLEAN, ok => Len(e) = b.ends[1],
           NEW b2, b2 = IF ok THEN netbuf_next(b) ELSE NULL,
           NEW k2, k2 = IF ~ok THEN "close" ELSE IF Len(b.ends) > 1 THEN "write" ELSE "recv"
    PROVE  /\ Echo(n, e, r, t, k2, b2) /\ b2 \in Pbufs /\ Whole(b2)
           /\ k2 \in {"close", "write", "recv"}
<1>1. k2 \in {"close", "write", "recv"}  OBVIOUS
<1>2. CASE ~ok
  <2>1. Echo(n, e, r, t, "close", b2)  BY DEF Echo
  <2> QED BY <2>1, <1>1, <1>2, NullChain
<1>3. CASE ok
  <2>1. PICK x : x = netbuf_next(b)  OBVIOUS
  <2>2. /\ x \in Pbufs /\ Whole(x)
        /\ Len(b.ends) > 1 => x # NULL /\ x.from = b.ends[1] /\ Upto(x) = Upto(b)
        /\ ~(Len(b.ends) > 1) => x = NULL /\ Upto(b) = b.ends[1]
    BY <2>1, NextShape
  <2>3. b2 = x  BY <2>1, <1>3
  <2>4. CASE Len(b.ends) > 1
    <3>1. k2 = "write" /\ x # NULL /\ x.from = Len(e) /\ Upto(x) = t  BY <2>2, <2>4, <1>3
    <3>2. Echo(n, e, r, t, "write", x)  BY <3>1 DEF Echo
    <3> QED BY <3>1, <3>2, <2>2, <2>3
  <2>5. CASE ~(Len(b.ends) > 1)
    <3>1. k2 = "recv" /\ Len(e) = t  BY <2>2, <2>5, <1>3
    <3>2. Echo(n, e, r, t, "recv", x)  BY <3>1 DEF Echo
    <3> QED BY <3>1, <3>2, <2>2, <2>3
  <2> QED BY <2>4, <2>5
<1> QED BY <1>2, <1>3

\* The window and the end of the data while the server does not hold unread data.
LEMMA EasyWindow ==
    ASSUME NEW p, NEW p2, NEW r, NEW t, NEW k, NEW k2, NEW b, NEW b2, Window(p, r, t, k, b),
           k # "recved", k2 \notin {"recved", "handle_fin", "shut_rd"},
           p2.wnd = p.wnd, p2.recv <=> p.recv, p2.finflag <=> p.finflag
    PROVE  Window(p2, r, t, k2, b2) /\ Fin(p2, r, t, k2, b2)
<1>1. One(p2.finflag) = One(p.finflag)  BY DEF One
<1> QED BY <1>1 DEF Window, Fin

\* sys_arch_sem_wait: the write the server waited for has ended.
LEMMA SemGood ==
    ASSUME NEW p, NEW n, NEW e, NEW r \in Nat, NEW t \in Nat, NEW b \in Pbufs, Whole(b),
           Good(p, n, e, r, t, "sem", b), n.sem > 0,
           NEW n2, n2 = [n EXCEPT !.sem = n.sem - 1],
           NEW b2, b2 = IF n.ok THEN netbuf_next(b) ELSE NULL,
           NEW k2, k2 = IF ~n.ok THEN "close" ELSE IF Len(b.ends) > 1 THEN "write" ELSE "recv"
    PROVE  Good(p, n2, e, r, t, k2, b2) /\ b2 \in Pbufs /\ Whole(b2)
<1>1. /\ p \in PcbRecs /\ n \in Netconns /\ e \in Seq(Nat)
      /\ Window(p, r, t, "sem", b) /\ Signal(n, "sem") /\ Echo(n, e, r, t, "sem", b)
  BY DEF Good, Shaped
<1>2. n.sem = 1 /\ n.state = "none" /\ ~n.msg /\ n.alloc  BY <1>1 DEF Signal
<1>3. /\ b # NULL /\ Upto(b) = t /\ Len(e) <= t /\ t <= r
      /\ \A i \in DOMAIN e : e[i] = i
      /\ n.ok => Len(e) = b.ends[1]
  BY <1>1, <1>2 DEF Echo
<1>4. PICK g \in Netconns : g = n2
  <2>1. PICK z \in Nat : z = n.sem - 1  BY <1>2
  <2>2. n2 = [n EXCEPT !.sem = z]  BY <2>1
  <2> QED BY <2>2, <1>1 DEF Netconns
<1>5. g.mbox = n.mbox /\ g.sem = 0 /\ g.state = "none"
  <2>1. g = [n EXCEPT !.sem = 0]  BY <1>2, <1>4
  <2> QED BY <2>1, <1>1, <1>2, <1>4 DEF Netconns
<1>6. /\ g.alloc <=> n.alloc
      /\ g.pcb <=> n.pcb
      /\ g.valid <=> n.valid
      /\ g.closed <=> n.closed
      /\ g.msg <=> n.msg
  BY <1>1, <1>4 DEF Netconns
<1>7. PICK ok \in BOOLEAN : ok <=> n.ok  OBVIOUS
<1>8. Echo(g, e, r, t, k2, b2) /\ b2 \in Pbufs /\ Whole(b2) /\ k2 \in {"close", "write", "recv"}
  BY <1>1, <1>3, <1>7, FragmentEcho
<1>9. Window(p, r, t, k2, b2) /\ Fin(p, r, t, k2, b2)  BY <1>1, <1>8, EasyWindow
<1>10. Signal(g, k2)  BY <1>2, <1>5, <1>6, <1>8 DEF Signal
<1>11. Alike(p, p)  BY <1>1 DEF Alike
<1>12. Good(p, g, e, r, t, k2, b2)
  BY <1>1, <1>2, <1>5, <1>6, <1>8, <1>9, <1>10, <1>11, SameGood
<1> QED BY <1>4, <1>8, <1>12

\* netconn_write for one connection, and where the server goes when it has ended.
Writes(p, n, e, b, mem, route, x, b2, k2) ==
    /\ x = lwip_netconn_do_writemore(
              [p |-> p, n |-> [n EXCEPT !.state = "write", !.msg = TRUE, !.todo = netbuf_data(b)],
               e |-> e], mem, route, FALSE)
    /\ b2 = IF route THEN netbuf_next(b) ELSE NULL
    /\ k2 = IF ~route THEN "close" ELSE IF Len(b.ends) > 1 THEN "write" ELSE "recv"

\* netconn_write: the fragment is queued at once, or the server waits for the rest.
LEMMA WriteGood ==
    ASSUME NEW p, NEW n, NEW e, NEW r \in Nat, NEW t \in Nat, NEW b \in Pbufs, Whole(b),
           Good(p, n, e, r, t, "write", b), n.pcb, NEW mem \in BOOLEAN, NEW route \in BOOLEAN,
           NEW x, NEW b2, NEW k2, Writes(p, n, e, b, mem, route, x, b2, k2)
    PROVE  /\ x \in States /\ b2 \in Pbufs /\ Whole(b2)
           /\ x.n.state = "none" => Good(x.p, x.n, x.e, r, t, k2, b2)
           /\ x.n.state = "write" => Good(x.p, x.n, x.e, r, t, "sem", b)
           /\ x.n.alloc <=> n.alloc
           /\ x.p.state = p.state
<1>n. PICK n1 : n1 = [n EXCEPT !.state = "write", !.msg = TRUE, !.todo = netbuf_data(b)]  OBVIOUS
<1>0. /\ n1 = [n EXCEPT !.state = "write", !.msg = TRUE, !.todo = netbuf_data(b)]
      /\ x = lwip_netconn_do_writemore([p |-> p, n |-> n1, e |-> e], mem, route, FALSE)
      /\ b2 = IF route THEN netbuf_next(b) ELSE NULL
      /\ k2 = IF ~route THEN "close" ELSE IF Len(b.ends) > 1 THEN "write" ELSE "recv"
  BY <1>n DEF Writes
<1> USE <1>0
<1>1. /\ p \in PcbRecs /\ n \in Netconns /\ e \in Seq(Nat) /\ Window(p, r, t, "write", b)
      /\ Signal(n, "write") /\ Echo(n, e, r, t, "write", b)
  BY DEF Good, Shaped
<1>2. /\ b # NULL /\ b.from = Len(e) /\ Upto(b) = t /\ t <= r
      /\ \A i \in DOMAIN e : e[i] = i
  BY <1>1 DEF Echo
<1>3. n.sem = 0 /\ n.alloc  BY <1>1 DEF Signal
<1>4. PICK d \in Seq(Nat) : d = netbuf_data(b)  BY <1>1, <1>2, DataShape
<1>5. Counted(e, d) /\ Len(e) + Len(d) = b.ends[1]  BY <1>1, <1>2, <1>4, DataShape
<1>6. PICK m \in Netconns : m = n1
  <2>1. n1 = [n EXCEPT !.state = "write", !.msg = TRUE, !.todo = d]  BY <1>4
  <2> QED BY <2>1, <1>1 DEF Netconns
<1>7. m.state = "write" /\ m.msg /\ m.todo = d /\ m.sem = 0 /\ m.mbox = n.mbox
  <2>1. m = [n EXCEPT !.state = "write", !.msg = TRUE, !.todo = d]  BY <1>4, <1>6
  <2> QED BY <2>1, <1>1, <1>3 DEF Netconns
<1>8. /\ m.alloc <=> n.alloc
      /\ m.pcb <=> n.pcb
      /\ m.valid <=> n.valid
      /\ m.closed <=> n.closed
  <2>1. m = [n EXCEPT !.state = "write", !.msg = TRUE, !.todo = d]  BY <1>4, <1>6
  <2> QED BY <2>1, <1>1 DEF Netconns
<1>9. PICK s \in States : s = [p |-> p, n |-> m, e |-> e]  BY <1>1 DEF States
<1>10. s.p = p /\ s.n = m /\ s.e = e  BY <1>9
<1>11. x \in States /\ Kept(s, x) /\ Moved(s, x) /\ Ended(s, x, route, 0)
  <2>1. PICK delayed \in BOOLEAN : ~delayed /\ x = lwip_netconn_do_writemore(s, mem, route, delayed)
    BY <1>6, <1>9
  <2>2. Counted(s.e, s.n.todo)  BY <1>5, <1>7, <1>10
  <2> QED BY <2>1, <2>2, WriteShape
<1>12. /\ x.p \in PcbRecs /\ x.n \in Netconns /\ x.e \in Seq(Nat)  BY <1>11 DEF States
<1>13. /\ Alike(p, x.p) /\ x.p.wnd = p.wnd /\ x.p.refused = p.refused
       /\ x.p.finflag <=> p.finflag
       /\ x.n.mbox = n.mbox
  BY <1>7, <1>10, <1>11 DEF Kept
<1>14. /\ x.n.alloc <=> n.alloc
       /\ x.n.pcb <=> n.pcb
       /\ x.n.valid <=> n.valid
       /\ x.n.closed <=> n.closed
  BY <1>8, <1>10, <1>11 DEF Kept
<1>15. PICK e2 \in Seq(Nat), rest \in Seq(Nat) : e2 = x.e /\ rest = x.n.todo
  BY <1>12 DEF Netconns
<1>16. Len(e2) + Len(rest) = b.ends[1] /\ Counted(e2, rest)
  BY <1>5, <1>7, <1>10, <1>11, <1>15 DEF Moved
<1>17. b.ends[1] \in Nat /\ b.ends[1] <= t  BY <1>2, ChainLength
<1>18. /\ Len(e2) <= t
       /\ rest = <<>> => Len(e2) = b.ends[1]
       /\ \A i \in DOMAIN e2 : e2[i] = i
       /\ \A i \in DOMAIN rest : rest[i] = Len(e2) + i
  <2>1. Len(e2) <= t  BY <1>16, <1>17
  <2>2. rest = <<>> => Len(e2) = b.ends[1]  BY <1>16
  <2> QED BY <2>1, <2>2, <1>16 DEF Counted
<1>19. x.p.recv <=> p.recv  BY <1>13 DEF Alike
<1>next. b2 \in Pbufs /\ Whole(b2)
  <2>1. CASE route  BY <2>1, <1>2, NextShape
  <2>2. CASE ~route  BY <2>2, NullChain
  <2> QED BY <2>1, <2>2
<1>20. ASSUME x.n.state = "none" PROVE Good(x.p, x.n, x.e, r, t, k2, b2)
  <2>1. x.n.sem = 0 /\ ~x.n.msg /\ (route => rest = <<>>)
    <3>1. s.n.sem + 0 = 0 /\ s.n.state = "write"  BY <1>7, <1>10
    <3> QED BY <3>1, <1>11, <1>15, <1>20 DEF Ended
  <2>2. route => Len(e2) = b.ends[1]  BY <2>1, <1>18
  <2>3. Echo(x.n, e2, r, t, k2, b2) /\ k2 \in {"close", "write", "recv"}
    BY <2>2, <1>2, <1>18, FragmentEcho, ZenonT(60)
  <2>4. PICK l \in {"close", "write", "recv"}, c \in Pbufs : l = k2 /\ c = b2  BY <2>3, <1>next
  <2>5. Window(x.p, r, t, l, c) /\ Fin(x.p, r, t, l, c)
    <3>1. l \notin {"recved", "handle_fin", "shut_rd"}  OBVIOUS
    <3> QED BY <3>1, <1>1, <1>13, <1>19, EasyWindow
  <2>6. Signal(x.n, l)
    <3>1. l # "sem" /\ l # "fetch"  OBVIOUS
    <3>2. x.n.alloc  BY <1>3, <1>14
    <3> QED BY <3>1, <3>2, <2>1, <1>20 DEF Signal
  <2>7. Echo(x.n, x.e, r, t, l, c)  BY <2>3, <2>4, <1>15
  <2>8. Good(x.p, x.n, x.e, r, t, l, c)
    BY <2>5, <2>6, <2>7, <1>3, <1>12, <1>13, <1>14, SameGood
  <2> QED BY <2>4, <2>8
<1>21. ASSUME x.n.state = "write" PROVE Good(x.p, x.n, x.e, r, t, "sem", b)
  <2>1. x.n.sem = 0 /\ x.n.msg /\ rest # <<>>
    BY <1>7, <1>10, <1>11, <1>15, <1>21 DEF Ended
  <2>2. Echo(x.n, e2, r, t, "sem", b)  BY <1>2, <1>15, <1>16, <1>18, <1>21 DEF Echo
  <2>3. Window(x.p, r, t, "sem", b) /\ Fin(x.p, r, t, "sem", b)
    BY <1>1, <1>13, <1>19, EasyWindow
  <2>4. Signal(x.n, "sem")  BY <2>1, <1>3, <1>14, <1>15, <1>21 DEF Signal
  <2>5. Echo(x.n, x.e, r, t, "sem", b)  BY <2>2, <1>15
  <2> QED BY <2>3, <2>4, <2>5, <1>3, <1>12, <1>13, <1>14, SameGood
<1> QED BY <1>next, <1>11, <1>13, <1>14, <1>20, <1>21 DEF Alike

-------------------------------------------------------------------------------
(* The inductive invariant.                                                *)

Serving == {"recv", "fetch", "recved", "handle_fin", "shut_rd", "write", "sem", "close", "delete"}
Places  == Serving \cup {"new", "bind", "listen", "accept", "accepting", "backoff", "ended"}

Place(c) == IF c = cur THEN pc ELSE "none"
Accepted == {c \in Conns : conn[c].alloc}

\* Every connection is as Good says.
Connections ==
    \A c \in Conns : Good(pcb[c], conn[c], echoed[c], rcvd[c], taken[c], Place(c), buf)

Tables ==
    /\ pcb \in [Conns -> PcbRecs] /\ conn \in [Conns -> Netconns] /\ echoed \in [Conns -> Seq(Nat)]
    /\ rcvd \in [Conns -> Nat] /\ taken \in [Conns -> Nat]

\* The server has a connection exactly while it serves one.
Task ==
    /\ pc \in Places /\ cur \in Conns \cup {None} /\ listening \in BOOLEAN
    /\ buf \in Pbufs /\ Whole(buf)
    /\ cur # None <=> pc \in Serving

\* A netconn waits once in the acceptmbox, or is served.
Waiting ==
    /\ acceptmbox \in Seq(Conns \cup {None}) /\ Len(acceptmbox) <= ACCEPTMBOX
    /\ \A c \in Accepted : c = cur \/ \E i \in DOMAIN acceptmbox : acceptmbox[i] = c
    /\ \A i \in DOMAIN acceptmbox : acceptmbox[i] # None =>
          acceptmbox[i] # cur /\ acceptmbox[i] \in Accepted
    /\ \A i, j \in DOMAIN acceptmbox : acceptmbox[i] # None /\ acceptmbox[i] = acceptmbox[j] => i = j

Pools ==
    /\ IsFiniteSet(Used) /\ Cardinality(Used) <= NUM_PCB
    /\ IsFiniteSet(Accepted) /\ Cardinality(Accepted) < NUM_NETCONN

TInv == Connections /\ Tables /\ Task /\ Waiting /\ Pools

\* A part of a finite set has at most as many members.
LEMMA Fewer ==
    ASSUME NEW S, NEW T, IsFiniteSet(S), T \subseteq S
    PROVE  /\ IsFiniteSet(T) /\ Cardinality(T) \in Nat /\ Cardinality(S) \in Nat
           /\ Cardinality(T) <= Cardinality(S)
BY FS_Subset, FS_CardinalityType

\* The pools keep their bounds in a step that takes nothing from them.
LEMMA PoolsKept ==
    ASSUME Pools, Used' \subseteq Used, Accepted' \subseteq Accepted
    PROVE  Pools'
<1>1. /\ IsFiniteSet(Used) /\ Cardinality(Used) <= NUM_PCB
      /\ IsFiniteSet(Accepted) /\ Cardinality(Accepted) < NUM_NETCONN
  BY DEF Pools
<1>2. PICK S, T, A, B : S = Used /\ T = Used' /\ A = Accepted /\ B = Accepted'  OBVIOUS
<1>3. /\ IsFiniteSet(T) /\ Cardinality(T) \in Nat /\ Cardinality(S) \in Nat
      /\ Cardinality(T) <= Cardinality(S)
  BY <1>1, <1>2, Fewer
<1>4. /\ IsFiniteSet(B) /\ Cardinality(B) \in Nat /\ Cardinality(A) \in Nat
      /\ Cardinality(B) <= Cardinality(A)
  BY <1>1, <1>2, Fewer
<1>5. Cardinality(T) <= NUM_PCB /\ Cardinality(B) < NUM_NETCONN  BY <1>1, <1>2, <1>3, <1>4, Sizes
<1>6. IsFiniteSet(Used') /\ Cardinality(Used') <= NUM_PCB  BY <1>2, <1>3, <1>5
<1>7. IsFiniteSet(Accepted') /\ Cardinality(Accepted') < NUM_NETCONN  BY <1>2, <1>4, <1>5
<1> QED BY <1>6, <1>7 DEF Pools

\* A step of the stack on one connection.
LEMMA StackStep ==
    ASSUME TInv, NEW c \in Conns, NEW x \in States, NEW r \in Nat,
           Good(x.p, x.n, x.e, r, taken[c], Place(c), buf),
           x.n.alloc <=> conn[c].alloc, x.p.state \in Live => pcb[c].state \in Live,
           Set(c, x), rcvd' = [rcvd EXCEPT ![c] = r], UNCHANGED <<server, acceptmbox>>
    PROVE  TInv'
<1>1. x.p \in PcbRecs /\ x.n \in Netconns /\ x.e \in Seq(Nat)  BY DEF States
<1>2. /\ pcb' = [pcb EXCEPT ![c] = x.p] /\ conn' = [conn EXCEPT ![c] = x.n]
      /\ echoed' = [echoed EXCEPT ![c] = x.e] /\ rcvd' = [rcvd EXCEPT ![c] = r]
  BY DEF Set
<1>3. /\ pc' = pc /\ cur' = cur /\ buf' = buf /\ listening' = listening /\ taken' = taken
      /\ acceptmbox' = acceptmbox
  BY DEF server
<1>4. Tables'  BY <1>1, <1>2, <1>3 DEF TInv, Tables
<1>5. /\ pcb'[c] = x.p /\ conn'[c] = x.n /\ echoed'[c] = x.e /\ rcvd'[c] = r
      /\ \A d \in Conns \ {c} : /\ pcb'[d] = pcb[d] /\ conn'[d] = conn[d]
                                /\ echoed'[d] = echoed[d] /\ rcvd'[d] = rcvd[d]
  BY <1>2 DEF TInv, Tables
<1>6. ASSUME NEW d \in Conns
      PROVE  Good(pcb[d], conn[d], echoed[d], rcvd[d], taken[d], Place(d), buf)'
  <2>1. Place(d)' = Place(d)  BY <1>3 DEF Place
  <2>2. CASE d = c  BY <2>1, <2>2, <1>3, <1>5
  <2>3. CASE d # c
    <3>1. Good(pcb[d], conn[d], echoed[d], rcvd[d], taken[d], Place(d), buf)
      BY DEF TInv, Connections
    <3> QED BY <2>1, <2>3, <3>1, <1>3, <1>5
  <2> QED BY <2>2, <2>3
<1>7. Connections'  BY <1>6 DEF Connections
<1>8. Task'  BY <1>3 DEF TInv, Task
<1>9. Accepted' = Accepted  BY <1>5 DEF Accepted
<1>10. Waiting'  BY <1>3, <1>9 DEF TInv, Waiting
<1>11. Used' \subseteq Used  BY <1>5 DEF Used
<1>12. Pools'  BY <1>9, <1>11, PoolsKept DEF TInv
<1> QED BY <1>4, <1>7, <1>8, <1>10, <1>12 DEF TInv

\* The chain a segment brings.
LEMMA ChainShape ==
    ASSUME NEW cut \in Chains \cup {<<>>}, NEW r \in Nat, NEW q, q = Chain(cut, r)
    PROVE  q \in Pbufs /\ Whole(q) /\ (q # NULL => q.from = r)
<1>1. CASE cut = <<>>
  <2>1. q = NULL  BY <1>1 DEF Chain
  <2> QED BY <2>1, NullChain
<1>2. CASE cut # <<>>
  <2>1. /\ cut \in Seq(Nat \ {0})
        /\ \A i, j \in DOMAIN cut : i < j => cut[i] < cut[j]
    BY <1>2, SizesAssumption
  <2>2. PICK l \in Nat : l = Len(cut) /\ DOMAIN cut = 1 .. l /\ l # 0  BY <2>1, <1>2
  <2>3. \A i \in 1 .. l : cut[i] \in Nat \ {0}  BY <2>1, <2>2
  <2>4. PICK a : a = [i \in 1 .. l |-> r + cut[i]]  OBVIOUS
  <2>5. a \in Seq(Nat) /\ DOMAIN a = 1 .. l /\ Len(a) = l
    <3>1. a \in [1 .. l -> Nat]  BY <2>3, <2>4
    <3> QED BY <3>1
  <2>6. q = [from |-> r, ends |-> a]  BY <1>2, <2>2, <2>4 DEF Chain
  <2>7. q \in Pbufs /\ q.from = r /\ q.ends = a  BY <2>5, <2>6 DEF Pbufs
  <2>8. a # <<>>  BY <2>2, <2>5
  <2>9. \A i \in 1 .. l : a[i] = r + cut[i]  BY <2>4
  <2>10. \A i \in 1 .. l : r < a[i]  BY <2>3, <2>9
  <2>11. ASSUME NEW i \in 1 .. l, NEW j \in 1 .. l, i < j PROVE a[i] < a[j]
    <3>1. cut[i] < cut[j] /\ cut[i] \in Nat /\ cut[j] \in Nat  BY <2>1, <2>2, <2>3, <2>11
    <3> QED BY <3>1, <2>9
  <2>12. Whole(q)  BY <2>5, <2>7, <2>8, <2>10, <2>11 DEF Whole
  <2> QED BY <2>7, <2>12
<1> QED BY <1>1, <1>2

LEMMA StateGood ==
    ASSUME TInv, NEW c \in Conns, NEW s, s = State(c)
    PROVE  /\ s \in States /\ s.p = pcb[c] /\ s.n = conn[c] /\ s.e = echoed[c]
           /\ Good(s.p, s.n, s.e, rcvd[c], taken[c], Place(c), buf)
           /\ rcvd[c] \in Nat /\ taken[c] \in Nat /\ buf \in Pbufs /\ Whole(buf)
<1>1. s = [p |-> pcb[c], n |-> conn[c], e |-> echoed[c]]  BY DEF State
<1>2. pcb[c] \in PcbRecs /\ conn[c] \in Netconns /\ echoed[c] \in Seq(Nat)
  BY DEF TInv, Tables
<1>3. s \in States /\ s.p = pcb[c] /\ s.n = conn[c] /\ s.e = echoed[c]  BY <1>1, <1>2 DEF States
<1>4. Good(pcb[c], conn[c], echoed[c], rcvd[c], taken[c], Place(c), buf)
  BY DEF TInv, Connections
<1> QED BY <1>3, <1>4 DEF TInv, Tables, Task

\* A step that leaves rcvd alone.
LEMMA QuietStep ==
    ASSUME TInv, NEW c \in Conns, NEW x \in States,
           Good(x.p, x.n, x.e, rcvd[c], taken[c], Place(c), buf),
           x.n.alloc <=> conn[c].alloc, x.p.state \in Live => pcb[c].state \in Live,
           Set(c, x), UNCHANGED rcvd, UNCHANGED <<server, acceptmbox>>
    PROVE  TInv'
<1>1. rcvd \in [Conns -> Nat] /\ rcvd[c] \in Nat  BY DEF TInv, Tables
<1>2. PICK r \in Nat : r = rcvd[c]  BY <1>1
<1>3. rcvd' = [rcvd EXCEPT ![c] = r]  BY <1>1, <1>2
<1>4. Good(x.p, x.n, x.e, r, taken[c], Place(c), buf)  BY <1>2
<1> QED BY <1>3, <1>4, StackStep

LEMMA SegmentInv ==
    ASSUME TInv, NEW c \in Conns, NEW cut \in Chains \cup {<<>>}, NEW fin \in BOOLEAN,
           Segment(c, cut, fin)
    PROVE  TInv'
<1>1. PICK s0 : s0 = State(c)  OBVIOUS
<1>k. PICK k : k = Place(c)  OBVIOUS
<1>2. PICK r \in Nat, t \in Nat, b \in Pbufs : r = rcvd[c] /\ t = taken[c] /\ b = buf
  BY <1>1, StateGood
<1>3. /\ s0 \in States /\ s0.p = pcb[c] /\ s0.n = conn[c] /\ s0.e = echoed[c]
      /\ Good(s0.p, s0.n, s0.e, r, t, k, b) /\ Whole(b)
  BY <1>1, <1>2, <1>k, StateGood
<1>4. PICK s : s = tcp_process_refused_data(s0)  OBVIOUS
<1>5. /\ s \in States /\ Good(s.p, s.n, s.e, r, t, k, b)
      /\ s.p.state = s0.p.state /\ s.p.wnd >= s0.p.wnd
      /\ s.n.alloc <=> s0.n.alloc
  <2>1. s.p.wnd >= s0.p.wnd  BY <1>3, <1>4, RefusedGood
  <2>2. s \in States /\ Good(s.p, s.n, s.e, r, t, k, b) /\ s.p.state = s0.p.state
    BY <1>3, <1>4, RefusedGood, SMTT(60)
  <2>3. s.n.alloc <=> s0.n.alloc  BY <1>3, <1>4, RefusedGood
  <2> QED BY <2>1, <2>2, <2>3
<1>6. PICK q : q = Chain(cut, r)  OBVIOUS
<1>7. q \in Pbufs /\ Whole(q) /\ (q # NULL => q.from = r)  BY <1>6, ChainShape
<1>8. /\ pcb[c].state \in {"established", "fin_wait"}
      /\ tot_len(q) + One(fin) > 0 /\ tot_len(q) + One(fin) <= pcb[c].wnd
      /\ \/ s.p.refused # NULL /\ Set(c, s) /\ UNCHANGED rcvd
         \/ /\ s.p.refused = NULL /\ Set(c, Received(s, q, fin))
            /\ rcvd' = [rcvd EXCEPT ![c] = @ + tot_len(q)]
      /\ UNCHANGED <<server, acceptmbox>>
  BY <1>1, <1>2, <1>4, <1>6 DEF Segment
<1>9. pcb[c].state \in Live  BY <1>8 DEF Live
<1>10. CASE s.p.refused # NULL /\ Set(c, s) /\ UNCHANGED rcvd
  <2>1. Good(s.p, s.n, s.e, rcvd[c], taken[c], Place(c), buf)  BY <1>2, <1>5, <1>k
  <2> QED BY <2>1, <1>3, <1>5, <1>8, <1>9, <1>10, QuietStep
<1>11. CASE /\ s.p.refused = NULL /\ Set(c, Received(s, q, fin))
            /\ rcvd' = [rcvd EXCEPT ![c] = @ + tot_len(q)]
  <2>1. PICK x : x = Received(s, q, fin)  OBVIOUS
  <2>2. PICK r2 \in Nat : r2 = r + tot_len(q)  BY <1>7, ChainLengthNat
  <2>3. s.p.state \in {"established", "fin_wait"}  BY <1>3, <1>5, <1>8
  <2>4. tot_len(q) + One(fin) <= s.p.wnd
    <3>1. pcb[c].wnd \in Nat /\ s.p.wnd \in Nat
      BY <1>3, <1>5, Sizes DEF States, PcbRecs
    <3>2. tot_len(q) \in Nat /\ One(fin) \in Nat  BY <1>7, ChainLengthNat DEF One
    <3> QED BY <3>1, <3>2, <1>3, <1>5, <1>8
  <2>5. x \in States /\ Good(x.p, x.n, x.e, r + tot_len(q), t, k, b) /\ (x.n.alloc <=> s.n.alloc)
    BY <2>1, <2>3, <2>4, <1>3, <1>5, <1>7, <1>8, <1>11, ReceivedGood, ZenonT(60)
  <2>6. Good(x.p, x.n, x.e, r2, taken[c], Place(c), buf)  BY <2>2, <2>5, <1>2, <1>k
  <2>7. rcvd' = [rcvd EXCEPT ![c] = r2]  BY <2>2, <1>2, <1>11
  <2> QED BY <2>1, <2>5, <2>6, <2>7, <1>3, <1>5, <1>8, <1>9, <1>11, StackStep
<1> QED BY <1>8, <1>10, <1>11

\* What tcp_input finds after tcp_process_refused_data.
LEMMA OfferedGood ==
    ASSUME TInv, NEW c \in Conns, NEW s, s = tcp_process_refused_data(State(c))
    PROVE  /\ s \in States /\ Good(s.p, s.n, s.e, rcvd[c], taken[c], Place(c), buf)
           /\ s.p.state = pcb[c].state /\ s.p.unacked = pcb[c].unacked
           /\ s.n.alloc <=> conn[c].alloc
<1>1. PICK s0 : s0 = State(c)  OBVIOUS
<1>k. PICK k : k = Place(c)  OBVIOUS
<1>2. PICK r \in Nat, t \in Nat, b \in Pbufs : r = rcvd[c] /\ t = taken[c] /\ b = buf
  BY <1>1, StateGood
<1>3. /\ s0 \in States /\ s0.p = pcb[c] /\ s0.n = conn[c] /\ s0.e = echoed[c]
      /\ Good(s0.p, s0.n, s0.e, r, t, k, b) /\ Whole(b)
  BY <1>1, <1>2, <1>k, StateGood
<1>4. s = tcp_process_refused_data(s0)  BY <1>1
<1>5. s \in States /\ Good(s.p, s.n, s.e, r, t, k, b)  BY <1>3, <1>4, RefusedGood
<1>6. s.p.state = s0.p.state /\ s.p.unacked = s0.p.unacked  BY <1>3, <1>4, RefusedGood
<1>7. s.n.alloc <=> s0.n.alloc  BY <1>3, <1>4, RefusedGood
<1> QED BY <1>2, <1>k, <1>3, <1>5, <1>6, <1>7

LEMMA AckInv ==
    ASSUME TInv, NEW c \in Conns, Ack(c)
    PROVE  TInv'
<1>1. PICK s : s = tcp_process_refused_data(State(c))  OBVIOUS
<1>k. PICK k : k = Place(c)  OBVIOUS
<1>2. PICK r \in Nat, t \in Nat, b \in Pbufs : r = rcvd[c] /\ t = taken[c] /\ b = buf /\ Whole(b)
  BY StateGood
<1>3. /\ s \in States /\ Good(s.p, s.n, s.e, r, t, k, b)
      /\ s.p.state = pcb[c].state /\ s.p.unacked = pcb[c].unacked
      /\ s.n.alloc <=> conn[c].alloc
  BY <1>1, <1>2, <1>k, OfferedGood
<1>4. /\ pcb[c].state \in Live
      /\ UNCHANGED <<server, acceptmbox>> /\ UNCHANGED rcvd
  BY DEF Ack, Live
<1>5. PICK x : AfterAck(s, x) /\ Set(c, x)
  BY <1>1, <1>3 DEF Ack, AfterAck
<1>w. Whole(b) /\ s \in States /\ Good(s.p, s.n, s.e, r, t, k, b)  BY <1>2, <1>3
<1>7. /\ x \in States /\ Good(x.p, x.n, x.e, r, t, k, b) /\ x.p.state = s.p.state
      /\ x.n.alloc <=> s.n.alloc
  BY <1>w, <1>5, AckedGood
<1>8. Good(x.p, x.n, x.e, rcvd[c], taken[c], Place(c), buf)  BY <1>2, <1>k, <1>7
<1> QED BY <1>3, <1>4, <1>5, <1>7, <1>8, QuietStep

\* Reset and Abort.
LEMMA AbandonStep ==
    ASSUME TInv, NEW c \in Conns, NEW s \in States,
           Good(s.p, s.n, s.e, rcvd[c], taken[c], Place(c), buf),
           s.n.alloc <=> conn[c].alloc,
           Set(c, tcp_abandon(s)), UNCHANGED rcvd, UNCHANGED <<server, acceptmbox>>
    PROVE  TInv'
<1>k. PICK k : k = Place(c)  OBVIOUS
<1>2. PICK r \in Nat, t \in Nat, b \in Pbufs : r = rcvd[c] /\ t = taken[c] /\ b = buf
  BY StateGood
<1>3. PICK x : x = tcp_abandon(s)  OBVIOUS
<1>4. Good(s.p, s.n, s.e, r, t, k, b)  BY <1>2, <1>k
<1>5. /\ x \in States /\ Good(x.p, x.n, x.e, r, t, k, b) /\ x.p = Gone
      /\ x.n.alloc <=> s.n.alloc
  BY <1>3, <1>4, AbandonGood
<1>6. Good(x.p, x.n, x.e, rcvd[c], taken[c], Place(c), buf)  BY <1>2, <1>k, <1>5
<1>7. x.p.state \notin Live  BY <1>5, GoneShape DEF Live
<1> QED BY <1>3, <1>5, <1>6, <1>7, QuietStep

LEMMA ResetInv ==
    ASSUME TInv, NEW c \in Conns, Reset(c)
    PROVE  TInv'
<1>1. PICK s : s = tcp_process_refused_data(State(c))  OBVIOUS
<1>2. /\ s \in States /\ Good(s.p, s.n, s.e, rcvd[c], taken[c], Place(c), buf)
      /\ s.n.alloc <=> conn[c].alloc
  BY <1>1, OfferedGood
<1>3. Set(c, tcp_abandon(s)) /\ UNCHANGED rcvd /\ UNCHANGED <<server, acceptmbox>>
  BY <1>1 DEF Reset
<1> QED BY <1>2, <1>3, AbandonStep

LEMMA AbortInv ==
    ASSUME TInv, NEW c \in Conns, Abort(c)
    PROVE  TInv'
<1>1. PICK s : s = State(c)  OBVIOUS
<1>2. /\ s \in States /\ Good(s.p, s.n, s.e, rcvd[c], taken[c], Place(c), buf) /\ s.n = conn[c]
  BY <1>1, StateGood
<1>3. Set(c, tcp_abandon(s)) /\ UNCHANGED rcvd /\ UNCHANGED <<server, acceptmbox>>
  BY <1>1 DEF Abort
<1> QED BY <1>2, <1>3, AbandonStep

LEMMA PollInv ==
    ASSUME TInv, NEW c \in Conns, NEW mem \in BOOLEAN, NEW route \in BOOLEAN,
           poll_tcp(c, mem, route)
    PROVE  TInv'
<1>1. PICK s : s = State(c)  OBVIOUS
<1>k. PICK k : k = Place(c)  OBVIOUS
<1>2. PICK r \in Nat, t \in Nat, b \in Pbufs : r = rcvd[c] /\ t = taken[c] /\ b = buf /\ Whole(b)
  BY StateGood
<1>3. /\ s \in States /\ Good(s.p, s.n, s.e, r, t, k, b) /\ s.p = pcb[c] /\ s.n = conn[c]
  BY <1>1, <1>2, <1>k, StateGood
<1>4. /\ s.p.arg /\ s.n.state = "write" /\ Set(c, sent_tcp(s, mem, route))
      /\ UNCHANGED <<server, acceptmbox>> /\ UNCHANGED rcvd
  BY <1>1, <1>3 DEF poll_tcp, sent_tcp
<1>5. PICK x : x = sent_tcp(s, mem, route)  OBVIOUS
<1>w. /\ Whole(b) /\ s \in States /\ Good(s.p, s.n, s.e, r, t, k, b)
      /\ s.p.arg /\ s.n.state = "write"
  BY <1>2, <1>3, <1>4
<1>6. /\ x \in States /\ Good(x.p, x.n, x.e, r, t, k, b) /\ x.p.state = s.p.state
      /\ x.n.alloc <=> s.n.alloc
  BY <1>w, <1>5, WritemoreGood, SMTT(60)
<1>7. Good(x.p, x.n, x.e, rcvd[c], taken[c], Place(c), buf)  BY <1>2, <1>k, <1>6
<1> QED BY <1>3, <1>4, <1>5, <1>6, <1>7, QuietStep

LEMMA FasttmrInv ==
    ASSUME TInv, NEW c \in Conns, tcp_fasttmr(c)
    PROVE  TInv'
<1>1. PICK s0 : s0 = State(c)  OBVIOUS
<1>k. PICK k : k = Place(c)  OBVIOUS
<1>2. PICK r \in Nat, t \in Nat, b \in Pbufs : r = rcvd[c] /\ t = taken[c] /\ b = buf /\ Whole(b)
  BY StateGood
<1>3. /\ s0 \in States /\ Good(s0.p, s0.n, s0.e, r, t, k, b) /\ s0.p = pcb[c] /\ s0.n = conn[c]
  BY <1>1, <1>2, <1>k, StateGood
<1>4. PICK mem \in BOOLEAN :
        Set(c, tcp_process_refused_data(
                 [State(c) EXCEPT !.p = IF pcb[c].closepend
                                        THEN tcp_close_shutdown_fin(pcb[c], mem) ELSE pcb[c]]))
  BY DEF tcp_fasttmr
<1>5. UNCHANGED <<server, acceptmbox>> /\ UNCHANGED rcvd  BY DEF tcp_fasttmr
<1>6. PICK p1 : p1 = IF pcb[c].closepend THEN tcp_close_shutdown_fin(pcb[c], mem) ELSE pcb[c]
  OBVIOUS
<1>7. /\ p1 \in PcbRecs /\ Good(p1, s0.n, s0.e, r, t, k, b)
      /\ p1.state \in Live => pcb[c].state \in Live
  <2>1. CASE pcb[c].closepend
    <3>1. p1 = tcp_close_shutdown_fin(s0.p, mem) /\ s0.p.closepend  BY <2>1, <1>3, <1>6
    <3>0. PICK p0, n0, e0 : p0 = s0.p /\ n0 = s0.n /\ e0 = s0.e  OBVIOUS
    <3>g. /\ Good(p0, n0, e0, r, t, k, b) /\ p0.closepend
          /\ p1 = tcp_close_shutdown_fin(p0, mem)
      BY <3>0, <3>1, <1>3
    <3>p. /\ p1 \in PcbRecs /\ Good(p1, n0, e0, r, t, k, b)
          /\ \/ p1.state = p0.state
             \/ p0.state \in Live /\ p1.state \in {"fin_wait", "last_ack"}
      BY <3>g, ClosependGood
    <3>2. /\ p1 \in PcbRecs /\ Good(p1, s0.n, s0.e, r, t, k, b)
          /\ \/ p1.state = s0.p.state
             \/ s0.p.state \in Live /\ p1.state \in {"fin_wait", "last_ack"}
      BY <3>0, <3>p
    <3> QED BY <3>2, <1>3
  <2>2. CASE ~pcb[c].closepend
    <3>1. p1 = s0.p  BY <2>2, <1>3, <1>6
    <3> QED BY <3>1, <1>3 DEF States
  <2> QED BY <2>1, <2>2
<1>8. PICK s \in States : s = [s0 EXCEPT !.p = p1]  BY <1>3, <1>7 DEF States
<1>9. s.p = p1 /\ s.n = s0.n /\ s.e = s0.e  BY <1>3, <1>7, <1>8 DEF States
<1>10. PICK x : x = tcp_process_refused_data(s)  OBVIOUS
<1>11. Set(c, x)  BY <1>1, <1>4, <1>6, <1>8, <1>10
<1>12. Good(s.p, s.n, s.e, r, t, k, b)  BY <1>7, <1>9
<1>13. x \in States /\ Good(x.p, x.n, x.e, r, t, k, b) /\ x.p.state = s.p.state
  BY <1>2, <1>10, <1>12, RefusedGood
<1>14. x.n.alloc <=> s.n.alloc  BY <1>2, <1>10, <1>12, RefusedGood
<1>15. Good(x.p, x.n, x.e, rcvd[c], taken[c], Place(c), buf)  BY <1>2, <1>k, <1>13
<1>16. x.p.state \in Live => pcb[c].state \in Live  BY <1>7, <1>9, <1>13
<1>17. x.n.alloc <=> conn[c].alloc  BY <1>3, <1>9, <1>14
<1> QED BY <1>5, <1>11, <1>13, <1>15, <1>16, <1>17, QuietStep

\* A step of the stack on the pcbs alone.
LEMMA PcbStep ==
    ASSUME TInv, pcb' \in [Conns -> PcbRecs], UNCHANGED <<server, conn, rcvd, echoed>>,
           \A d \in Conns : Good(pcb'[d], conn[d], echoed[d], rcvd[d], taken[d], Place(d), buf),
           Waiting', Pools'
    PROVE  TInv'
<1>1. /\ pc' = pc /\ cur' = cur /\ buf' = buf /\ listening' = listening /\ taken' = taken
      /\ conn' = conn /\ rcvd' = rcvd /\ echoed' = echoed
  BY DEF server
<1>2. Tables'  BY <1>1 DEF TInv, Tables
<1>3. Task'  BY <1>1 DEF TInv, Task
<1>4. ASSUME NEW d \in Conns
      PROVE  Good(pcb[d], conn[d], echoed[d], rcvd[d], taken[d], Place(d), buf)'
  <2>1. Place(d)' = Place(d)  BY <1>1 DEF Place
  <2>2. Good(pcb'[d], conn[d], echoed[d], rcvd[d], taken[d], Place(d), buf)  OBVIOUS
  <2> QED BY <2>1, <2>2, <1>1
<1>5. Connections'  BY <1>4 DEF Connections
<1> QED BY <1>2, <1>3, <1>5 DEF TInv

\* An error message in the acceptmbox names no netconn.
LEMMA PostError ==
    ASSUME Waiting, PostAccept(None) \/ UNCHANGED acceptmbox, conn' = conn, cur' = cur
    PROVE  Waiting'
<1>1. Accepted' = Accepted  BY DEF Accepted
<1>2. CASE acceptmbox' = acceptmbox  BY <1>1, <1>2 DEF Waiting
<1>3. CASE acceptmbox' = Append(acceptmbox, None) /\ Len(acceptmbox) < ACCEPTMBOX
  <2>1. acceptmbox \in Seq(Conns \cup {None})  BY DEF Waiting
  <2>2. PICK a, q \in Seq(Conns \cup {None}) : q = acceptmbox /\ a = Append(q, None)
    BY <2>1, AppendProperties
  <2>3. /\ Len(a) = Len(q) + 1 /\ a[Len(q) + 1] = None
        /\ \A i \in DOMAIN q : a[i] = q[i]
        /\ DOMAIN a = 1 .. Len(q) + 1 /\ DOMAIN q = 1 .. Len(q) /\ Len(q) \in Nat
    BY <2>2, AppendProperties
  <2>4. /\ acceptmbox' = a /\ acceptmbox = q /\ cur' = cur /\ Accepted' = Accepted
    BY <2>2, <1>1, <1>3
  <2>5. \A i \in DOMAIN a : a[i] # None => i \in DOMAIN q /\ a[i] = q[i]  BY <2>3
  <2>6. Len(a) <= ACCEPTMBOX  BY <1>3, <2>3, <2>4, Sizes
  <2>7. \A c \in Accepted : c = cur \/ \E i \in DOMAIN a : a[i] = c
    <3>1. \A c \in Accepted : c = cur \/ \E i \in DOMAIN q : q[i] = c  BY <2>4 DEF Waiting
    <3>2. DOMAIN q \subseteq DOMAIN a  BY <2>3
    <3> QED BY <3>1, <3>2, <2>3
  <2>8. \A i \in DOMAIN a : a[i] # None => a[i] # cur /\ a[i] \in Accepted
    BY <2>4, <2>5 DEF Waiting
  <2>9. \A i, j \in DOMAIN a : a[i] # None /\ a[i] = a[j] => i = j
    BY <2>4, <2>5 DEF Waiting
  <2> QED BY <2>4, <2>6, <2>7, <2>8, <2>9 DEF Waiting
<1> QED BY <1>2, <1>3 DEF PostAccept

\* A pcb that no netconn has goes.
LEMMA GoneStep ==
    ASSUME TInv, NEW c \in Conns, pcb[c].state \notin {"established", "close_wait"},
           pcb' = [pcb EXCEPT ![c] = Gone], UNCHANGED <<server, conn, rcvd, echoed>>,
           PostAccept(None) \/ UNCHANGED acceptmbox
    PROVE  TInv'
<1>1. pcb \in [Conns -> PcbRecs] /\ Gone \in PcbRecs  BY Records DEF TInv, Tables
<1>2. pcb' \in [Conns -> PcbRecs]  BY <1>1
<1>3. ASSUME NEW d \in Conns
      PROVE  Good(pcb'[d], conn[d], echoed[d], rcvd[d], taken[d], Place(d), buf)
  <2>1. Good(pcb[d], conn[d], echoed[d], rcvd[d], taken[d], Place(d), buf)
    BY DEF TInv, Connections
  <2>2. CASE d # c  BY <2>1, <2>2, <1>1
  <2>3. CASE d = c
    <3>1. ~pcb[d].arg  BY <2>1, <2>3 DEF Good, Owned
    <3>2. rcvd[d] \in Nat /\ taken[d] \in Nat /\ buf \in Pbufs  BY DEF TInv, Tables, Task
    <3>3. Good(Gone, conn[d], echoed[d], rcvd[d], taken[d], Place(d), buf)
      BY <2>1, <3>1, <3>2, OrphanGone
    <3> QED BY <3>3, <2>3, <1>1
  <2> QED BY <2>2, <2>3
<1>4. conn' = conn /\ cur' = cur  BY DEF server
<1>5. Waiting'  BY <1>4, PostError DEF TInv
<1>6. Used' \subseteq Used /\ Accepted' \subseteq Accepted
  BY <1>1, <1>4, GoneShape DEF Used, Accepted, Live
<1>7. Pools'  BY <1>6, PoolsKept DEF TInv
<1> QED BY <1>2, <1>3, <1>5, <1>7, PcbStep

LEMMA ExpireInv ==
    ASSUME TInv, NEW c \in Conns, Expire(c)
    PROVE  TInv'
BY GoneStep DEF Expire

LEMMA OneMore ==
    ASSUME NEW S, IsFiniteSet(S), NEW a
    PROVE  /\ IsFiniteSet(S \cup {a}) /\ Cardinality(S \cup {a}) \in Nat /\ Cardinality(S) \in Nat
           /\ Cardinality(S \cup {a}) <= Cardinality(S) + 1
<1>1. IsFiniteSet(S \cup {a})  BY FS_AddElement
<1>2. Cardinality(S \cup {a}) \in Nat /\ Cardinality(S) \in Nat  BY <1>1, FS_CardinalityType
<1>3. Cardinality(S \cup {a}) = Cardinality(S) \/ Cardinality(S \cup {a}) = Cardinality(S) + 1
  BY FS_AddElement
<1> QED BY <1>1, <1>2, <1>3

LEMMA OneLess ==
    ASSUME NEW S, IsFiniteSet(S), NEW a \in S
    PROVE  /\ IsFiniteSet(S \ {a}) /\ Cardinality(S \ {a}) \in Nat
           /\ Cardinality(S \ {a}) = Cardinality(S) - 1
<1>1. IsFiniteSet(S \ {a}) /\ Cardinality(S \ {a}) = Cardinality(S) - 1  BY FS_RemoveElement
<1> QED BY <1>1, FS_CardinalityType

\* The acceptmbox gets a netconn that was just made.
LEMMA PostNetconn ==
    ASSUME Waiting, NEW c \in Conns, c # cur, c \notin Accepted, Len(acceptmbox) < ACCEPTMBOX,
           PostAccept(c), cur' = cur, Accepted' = Accepted \cup {c}, None \notin Conns
    PROVE  Waiting'
<1>1. acceptmbox \in Seq(Conns \cup {None})  BY DEF Waiting
<1>2. PICK a, q \in Seq(Conns \cup {None}) : q = acceptmbox /\ a = Append(q, c)
  BY <1>1, AppendProperties
<1>3. /\ Len(a) = Len(q) + 1 /\ a[Len(q) + 1] = c
      /\ \A i \in DOMAIN q : a[i] = q[i]
      /\ DOMAIN a = 1 .. Len(q) + 1 /\ DOMAIN q = 1 .. Len(q) /\ Len(q) \in Nat
  BY <1>2, AppendProperties
<1>4. acceptmbox' = a /\ acceptmbox = q  BY <1>2 DEF PostAccept
<1>5. \A i \in DOMAIN q : q[i] # None => q[i] # cur /\ q[i] \in Accepted  BY <1>4 DEF Waiting
<1>6. \A i \in DOMAIN a : i = Len(q) + 1 \/ (i \in DOMAIN q /\ a[i] = q[i])  BY <1>3
<1>7. Len(a) <= ACCEPTMBOX  BY <1>3, <1>4, Sizes
<1>8. \A d \in Accepted' : d = cur \/ \E i \in DOMAIN a : a[i] = d
  <2>1. \A d \in Accepted : d = cur \/ \E i \in DOMAIN q : q[i] = d  BY <1>4 DEF Waiting
  <2>2. DOMAIN q \subseteq DOMAIN a /\ Len(q) + 1 \in DOMAIN a  BY <1>3
  <2> QED BY <2>1, <2>2, <1>3
<1>9. \A i \in DOMAIN a : a[i] # None => a[i] # cur /\ a[i] \in Accepted'
  BY <1>3, <1>5, <1>6
<1>10. \A i, j \in DOMAIN a : a[i] # None /\ a[i] = a[j] => i = j
  <2>1. \A i, j \in DOMAIN q : q[i] # None /\ q[i] = q[j] => i = j  BY <1>4 DEF Waiting
  <2>2. \A i \in DOMAIN q : q[i] # c  BY <1>5
  <2> QED BY <2>1, <2>2, <1>3, <1>6
<1> QED BY <1>4, <1>7, <1>8, <1>9, <1>10 DEF Waiting

\* A connection without a netconn is not the one the server serves.
LEMMA NotServed ==
    ASSUME TInv, NEW c \in Conns, ~conn[c].alloc
    PROVE  c # cur /\ Place(c) = "none" /\ c \notin Accepted
<1>1. Good(pcb[c], conn[c], echoed[c], rcvd[c], taken[c], Place(c), buf)
  BY DEF TInv, Connections
<1>2. Place(c) = "none"  BY <1>1 DEF Good, Signal
<1>3. cur # c
  <2>1. ASSUME cur = c PROVE FALSE
    <3>1. cur # None  BY <2>1, SizesAssumption
    <3>2. pc \in Serving  BY <3>1 DEF TInv, Task
    <3> QED BY <3>2, <2>1, <1>2 DEF Place, Serving
  <2> QED BY <2>1
<1> QED BY <1>2, <1>3 DEF Accepted

LEMMA EstablishedInv ==
    ASSUME TInv, NEW c \in Conns, Established(c)
    PROVE  TInv'
<1>1. pcb[c].state = "syn_rcvd" /\ UNCHANGED <<server, rcvd, echoed>>  BY DEF Established
<1>2. CASE pcb' = [pcb EXCEPT ![c] = Gone] /\ UNCHANGED conn /\ (PostAccept(None) \/ UNCHANGED acceptmbox)
  BY <1>1, <1>2, GoneStep
<1>3. CASE /\ Cardinality({d \in Conns : conn[d].alloc}) + 1 < NUM_NETCONN
           /\ Len(acceptmbox) < ACCEPTMBOX /\ PostAccept(c)
           /\ pcb' = [pcb EXCEPT ![c] = setup_tcp([@ EXCEPT !.state = "established"])]
           /\ conn' = [conn EXCEPT ![c] = netconn_alloc]
  <2>1. /\ pc' = pc /\ cur' = cur /\ buf' = buf /\ listening' = listening /\ taken' = taken
        /\ rcvd' = rcvd /\ echoed' = echoed
    BY <1>1 DEF server
  <2>2. /\ pcb \in [Conns -> PcbRecs] /\ conn \in [Conns -> Netconns]
        /\ echoed \in [Conns -> Seq(Nat)] /\ rcvd \in [Conns -> Nat] /\ taken \in [Conns -> Nat]
        /\ rcvd[c] \in Nat /\ taken[c] \in Nat /\ buf \in Pbufs
    BY DEF TInv, Tables, Task
  <2>3. Good(pcb[c], conn[c], echoed[c], rcvd[c], taken[c], Place(c), buf)
    BY DEF TInv, Connections
  <2>4. ~conn[c].alloc  BY <2>3, <1>1 DEF Good, Owned
  <2>5. c # cur /\ Place(c) = "none" /\ c \notin Accepted  BY <2>4, NotServed
  <2>6. PICK p2 : p2 = setup_tcp([pcb[c] EXCEPT !.state = "established"])  OBVIOUS
  <2>7. Good(p2, netconn_alloc, echoed[c], rcvd[c], taken[c], "none", buf)
    BY <2>2, <2>3, <2>5, <2>6, <1>1, SetupGood
  <2>8. p2 \in PcbRecs /\ netconn_alloc \in Netconns  BY <2>7 DEF Good, Shaped
  <2>9. pcb' = [pcb EXCEPT ![c] = p2]  BY <2>6, <1>3
  <2>10. /\ pcb'[c] = p2 /\ conn'[c] = netconn_alloc
         /\ \A d \in Conns \ {c} : pcb'[d] = pcb[d] /\ conn'[d] = conn[d]
    BY <2>2, <2>9, <1>3
  <2>11. Tables'  BY <2>1, <2>2, <2>8, <2>9, <1>3 DEF Tables
  <2>12. Task'  BY <2>1 DEF TInv, Task
  <2>13. ASSUME NEW d \in Conns
         PROVE  Good(pcb[d], conn[d], echoed[d], rcvd[d], taken[d], Place(d), buf)'
    <3>1. Place(d)' = Place(d)  BY <2>1 DEF Place
    <3>2. CASE d = c  BY <3>1, <3>2, <2>1, <2>5, <2>7, <2>10
    <3>3. CASE d # c
      <4>1. Good(pcb[d], conn[d], echoed[d], rcvd[d], taken[d], Place(d), buf)
        BY DEF TInv, Connections
      <4> QED BY <3>1, <3>3, <4>1, <2>1, <2>10
    <3> QED BY <3>2, <3>3
  <2>14. Connections'  BY <2>13 DEF Connections
  <2>15. netconn_alloc.alloc  BY DEF netconn_alloc, Free
  <2>16. Accepted' = Accepted \cup {c}  BY <2>10, <2>15 DEF Accepted
  <2>17. Waiting'  BY <2>1, <2>5, <2>16, <1>3, PostNetconn, SizesAssumption DEF TInv
  <2>18. Used' \subseteq Used  BY <2>10, <1>1 DEF Used, Live
  <2>19. Pools'
    <3>1. PICK S, T, A : S = Used /\ T = Used' /\ A = Accepted  OBVIOUS
    <3>2. /\ IsFiniteSet(S) /\ Cardinality(S) <= NUM_PCB
          /\ IsFiniteSet(A) /\ Cardinality(A) + 1 < NUM_NETCONN
      BY <3>1, <1>3 DEF TInv, Pools, Accepted
    <3>3. /\ IsFiniteSet(T) /\ Cardinality(T) \in Nat /\ Cardinality(S) \in Nat
          /\ Cardinality(T) <= Cardinality(S)
      BY <3>1, <3>2, <2>18, Fewer
    <3>4. /\ IsFiniteSet(A \cup {c}) /\ Cardinality(A \cup {c}) \in Nat /\ Cardinality(A) \in Nat
          /\ Cardinality(A \cup {c}) <= Cardinality(A) + 1
      BY <3>2, OneMore
    <3>5. Cardinality(T) <= NUM_PCB  BY <3>2, <3>3, Sizes
    <3>6. Cardinality(A \cup {c}) < NUM_NETCONN  BY <3>2, <3>4, Sizes
    <3>7. IsFiniteSet(Used') /\ Cardinality(Used') <= NUM_PCB  BY <3>1, <3>3, <3>5
    <3>8. IsFiniteSet(Accepted') /\ Cardinality(Accepted') < NUM_NETCONN
      BY <3>1, <3>4, <3>6, <2>16
    <3> QED BY <3>7, <3>8 DEF Pools
  <2> QED BY <2>11, <2>12, <2>14, <2>17, <2>19 DEF TInv
<1> QED BY <1>2, <1>3 DEF Established

\* tcp_handle_closepend leaves every connection as Good says.
LEMMA RetriedGood ==
    ASSUME TInv, NEW mem \in BOOLEAN, NEW f, f = tcp_handle_closepend(mem), NEW d \in Conns
    PROVE  /\ f[d] \in PcbRecs
           /\ Good(f[d], conn[d], echoed[d], rcvd[d], taken[d], Place(d), buf)
           /\ f[d].state \in Live => pcb[d].state \in Live
<1>1. f[d] = IF pcb[d].closepend THEN tcp_close_shutdown_fin(pcb[d], mem) ELSE pcb[d]
  BY DEF tcp_handle_closepend
<1>2. PICK p, n, e, k : p = pcb[d] /\ n = conn[d] /\ e = echoed[d] /\ k = Place(d)  OBVIOUS
<1>3. PICK r \in Nat, t \in Nat, b \in Pbufs : r = rcvd[d] /\ t = taken[d] /\ b = buf
  BY DEF TInv, Tables, Task
<1>4. Good(p, n, e, r, t, k, b)  BY <1>2, <1>3 DEF TInv, Connections
<1>5. p \in PcbRecs  BY <1>2 DEF TInv, Tables
<1>6. CASE p.closepend
  <2>1. PICK x : x = tcp_close_shutdown_fin(p, mem)  OBVIOUS
  <2>2. /\ x \in PcbRecs /\ Good(x, n, e, r, t, k, b)
        /\ \/ x.state = p.state
           \/ p.state \in Live /\ x.state \in {"fin_wait", "last_ack"}
    BY <2>1, <1>4, <1>6, ClosependGood
  <2>3. f[d] = x  BY <2>1, <1>1, <1>2, <1>6
  <2> QED BY <2>2, <2>3, <1>2, <1>3
<1>7. CASE ~p.closepend
  <2>1. f[d] = p  BY <1>1, <1>2, <1>7
  <2> QED BY <2>1, <1>2, <1>3, <1>4, <1>5
<1> QED BY <1>6, <1>7

LEMMA SynInv ==
    ASSUME TInv, NEW c \in Conns, Syn(c)
    PROVE  TInv'
<1>1. pcb[c].state = "none" /\ UNCHANGED <<server, conn, rcvd, echoed>>  BY DEF Syn
<1>2. conn' = conn /\ cur' = cur  BY <1>1 DEF server
<1>3. Accepted' = Accepted  BY <1>2 DEF Accepted
<1>4. pcb \in [Conns -> PcbRecs] /\ tcp_alloc \in PcbRecs /\ Gone \in PcbRecs
  BY Records DEF TInv, Tables
<1>5. rcvd[c] \in Nat /\ taken[c] \in Nat /\ buf \in Pbufs  BY DEF TInv, Tables, Task
<1>6. \A d \in Conns : Good(pcb[d], conn[d], echoed[d], rcvd[d], taken[d], Place(d), buf)
  BY DEF TInv, Connections
<1>7. Good(tcp_alloc, conn[c], echoed[c], rcvd[c], taken[c], Place(c), buf)
  BY <1>1, <1>5, <1>6, AllocGood
<1>8. IsFiniteSet(Accepted) /\ Cardinality(Accepted) < NUM_NETCONN  BY DEF TInv, Pools
<1>9. PICK S : S = Used  OBVIOUS
<1>10. IsFiniteSet(S) /\ Cardinality(S) <= NUM_PCB /\ Cardinality(S) \in Nat
  BY <1>9, FS_CardinalityType DEF TInv, Pools
<1>11. CASE /\ Cardinality(Used) < NUM_PCB /\ pcb' = [pcb EXCEPT ![c] = tcp_alloc]
            /\ UNCHANGED acceptmbox
  <2>1. pcb' \in [Conns -> PcbRecs]  BY <1>4, <1>11
  <2>2. pcb'[c] = tcp_alloc /\ \A d \in Conns \ {c} : pcb'[d] = pcb[d]  BY <1>4, <1>11
  <2>3. \A d \in Conns : Good(pcb'[d], conn[d], echoed[d], rcvd[d], taken[d], Place(d), buf)
    BY <2>2, <1>6, <1>7
  <2>4. Waiting'  BY <1>2, <1>11, PostError DEF TInv
  <2>5. Used' \subseteq S \cup {c}  BY <2>2, <1>9 DEF Used
  <2>6. PICK T : T = Used'  OBVIOUS
  <2>7. /\ IsFiniteSet(S \cup {c}) /\ Cardinality(S \cup {c}) \in Nat
        /\ Cardinality(S \cup {c}) <= Cardinality(S) + 1
    BY <1>10, OneMore
  <2>8. IsFiniteSet(T) /\ Cardinality(T) \in Nat /\ Cardinality(T) <= Cardinality(S \cup {c})
    BY <2>5, <2>6, <2>7, Fewer
  <2>9. Cardinality(T) <= NUM_PCB  BY <2>7, <2>8, <1>9, <1>10, <1>11, Sizes
  <2>10. IsFiniteSet(Used') /\ Cardinality(Used') <= NUM_PCB  BY <2>6, <2>8, <2>9
  <2>11. Pools'  BY <2>10, <1>3, <1>8 DEF Pools
  <2> QED BY <2>1, <2>3, <2>4, <2>11, <1>1, PcbStep
<1>12. ASSUME NEW mem \in BOOLEAN, NEW f, f = tcp_handle_closepend(mem),
              Cardinality(Used) = NUM_PCB,
              \/ /\ \E d \in {d \in Used : f[d].state \in Killable}, npcb \in {tcp_alloc, pcb[c]} :
                       pcb' = [f EXCEPT ![c] = npcb, ![d] = Gone]
                 /\ UNCHANGED acceptmbox
              \/ pcb' = f /\ PostAccept(None)
       PROVE  TInv'
  <2>1. ASSUME NEW d \in Conns
        PROVE  /\ f[d] \in PcbRecs
               /\ Good(f[d], conn[d], echoed[d], rcvd[d], taken[d], Place(d), buf)
               /\ f[d].state \in Live => pcb[d].state \in Live
    BY <1>12, RetriedGood
  <2>2. f \in [Conns -> PcbRecs]
    <3>1. f = [d \in Conns |-> f[d]]  BY <1>12 DEF tcp_handle_closepend
    <3> QED BY <3>1, <2>1
  <2>3. Waiting'  BY <1>2, <1>12, PostError DEF TInv
  <2>4. CASE pcb' = f
    <3>1. pcb' \in [Conns -> PcbRecs]  BY <2>2, <2>4
    <3>2. \A d \in Conns : Good(pcb'[d], conn[d], echoed[d], rcvd[d], taken[d], Place(d), buf)
      BY <2>1, <2>4
    <3>3. Used' \subseteq Used  BY <2>1, <2>4 DEF Used
    <3>4. Pools'  BY <3>3, <1>3, PoolsKept DEF TInv
    <3> QED BY <3>1, <3>2, <3>4, <2>3, <1>1, PcbStep
  <2>5. ASSUME NEW d \in Used, f[d].state \in Killable, NEW npcb \in {tcp_alloc, pcb[c]},
               pcb' = [f EXCEPT ![c] = npcb, ![d] = Gone]
        PROVE  TInv'
    <3>1. d \in Conns /\ pcb[d].state \in Live  BY DEF Used
    <3>2. d # c  BY <3>1, <1>1 DEF Live
    <3>3. npcb \in PcbRecs  BY <1>4
    <3>4. pcb' \in [Conns -> PcbRecs]  BY <2>2, <2>5, <3>3, <1>4
    <3>5. /\ pcb'[c] = npcb /\ pcb'[d] = Gone
          /\ \A h \in Conns \ {c, d} : pcb'[h] = f[h]
      BY <2>2, <2>5, <3>1, <3>2
    <3>6. Good(npcb, conn[c], echoed[c], rcvd[c], taken[c], Place(c), buf)  BY <1>6, <1>7
    <3>7. Good(Gone, conn[d], echoed[d], rcvd[d], taken[d], Place(d), buf)
      <4>1. PICK p : p = f[d]  OBVIOUS
      <4>2. Good(p, conn[d], echoed[d], rcvd[d], taken[d], Place(d), buf)  BY <4>1, <2>1, <3>1
      <4>3. p.state \notin {"established", "close_wait"}  BY <4>1, <2>5 DEF Killable
      <4>4. ~p.arg  BY <4>2, <4>3 DEF Good, Owned
      <4>5. rcvd[d] \in Nat /\ taken[d] \in Nat  BY <3>1 DEF TInv, Tables
      <4> QED BY <4>2, <4>4, <4>5, <1>5, OrphanGone
    <3>8. \A h \in Conns : Good(pcb'[h], conn[h], echoed[h], rcvd[h], taken[h], Place(h), buf)
      BY <2>1, <3>5, <3>6, <3>7
    <3>9. Used' \subseteq (S \ {d}) \cup {c}
      <4>1. \A h \in Used' : h # d  BY <3>5, GoneShape DEF Used, Live
      <4>2. \A h \in Used' : h # c => h \in Used  BY <4>1, <2>1, <3>5 DEF Used
      <4> QED BY <4>1, <4>2, <1>9
    <3>10. PICK R, T : R = S \ {d} /\ T = Used'  OBVIOUS
    <3>11. IsFiniteSet(R) /\ Cardinality(R) \in Nat /\ Cardinality(R) = Cardinality(S) - 1
      BY <3>10, <1>9, <1>10, OneLess
    <3>12. /\ IsFiniteSet(R \cup {c}) /\ Cardinality(R \cup {c}) \in Nat
           /\ Cardinality(R \cup {c}) <= Cardinality(R) + 1
      BY <3>11, OneMore
    <3>13. IsFiniteSet(T) /\ Cardinality(T) \in Nat /\ Cardinality(T) <= Cardinality(R \cup {c})
      BY <3>9, <3>10, <3>12, Fewer
    <3>14. Cardinality(T) <= NUM_PCB  BY <3>11, <3>12, <3>13, <1>10, Sizes
    <3>15. IsFiniteSet(Used') /\ Cardinality(Used') <= NUM_PCB  BY <3>10, <3>13, <3>14
    <3>16. Pools'  BY <3>15, <1>3, <1>8 DEF Pools
    <3> QED BY <3>4, <3>8, <3>16, <2>3, <1>1, PcbStep
  <2> QED BY <2>4, <2>5, <1>12
<1> QED BY <1>11, <1>12 DEF Syn

-------------------------------------------------------------------------------
(* The steps of the server.                                                *)

\* What the server's connection is made of.
Now(c, p, n, e, r, t, b) ==
    /\ c = cur /\ p = pcb[c] /\ n = conn[c] /\ e = echoed[c] /\ r = rcvd[c] /\ t = taken[c]
    /\ b = buf

LEMMA ServedNow ==
    ASSUME TInv, NEW k \in Serving, pc = k
    PROVE  \E c \in Conns, p \in PcbRecs, n \in Netconns, e \in Seq(Nat), r \in Nat, t \in Nat,
              b \in Pbufs : Now(c, p, n, e, r, t, b) /\ Whole(b) /\ Good(p, n, e, r, t, k, b)
<1>1. cur \in Conns  BY DEF TInv, Task
<1>2. Good(pcb[cur], conn[cur], echoed[cur], rcvd[cur], taken[cur], k, buf)
  BY <1>1 DEF TInv, Connections, Place
<1>3. /\ pcb[cur] \in PcbRecs /\ conn[cur] \in Netconns /\ echoed[cur] \in Seq(Nat)
      /\ rcvd[cur] \in Nat /\ taken[cur] \in Nat /\ buf \in Pbufs /\ Whole(buf)
  BY <1>1 DEF TInv, Tables, Task
<1>4. Now(cur, pcb[cur], conn[cur], echoed[cur], rcvd[cur], taken[cur], buf)  BY DEF Now
<1> QED BY <1>1, <1>2, <1>3, <1>4

\* What the server makes of it, and where it goes.
Becomes(c, p, n, e, t, k, b) ==
    /\ pcb' = [pcb EXCEPT ![c] = p] /\ conn' = [conn EXCEPT ![c] = n]
    /\ echoed' = [echoed EXCEPT ![c] = e] /\ taken' = [taken EXCEPT ![c] = t]
    /\ pc' = k /\ buf' = b /\ UNCHANGED <<cur, listening, acceptmbox, rcvd>>

\* A step of the server on the connection it serves.
LEMMA ServerStep ==
    ASSUME TInv, NEW c \in Conns, NEW p, NEW n, NEW e, NEW r, NEW t, NEW b, pc \in Serving,
           Now(c, p, n, e, r, t, b),
           NEW p2, NEW n2, NEW e2, NEW t2 \in Nat, NEW k2 \in Serving, NEW b2 \in Pbufs, Whole(b2),
           Good(p2, n2, e2, r, t2, k2, b2), p2.state \in Live => p.state \in Live,
           Becomes(c, p2, n2, e2, t2, k2, b2)
    PROVE  TInv'
<1>1. c = cur /\ p = pcb[c] /\ n = conn[c] /\ r = rcvd[c]  BY DEF Now
<1>2. p2 \in PcbRecs /\ n2 \in Netconns /\ e2 \in Seq(Nat)  BY DEF Good, Shaped
<1>3. /\ cur' = cur /\ listening' = listening /\ acceptmbox' = acceptmbox /\ rcvd' = rcvd
      /\ pc' = k2 /\ buf' = b2
      /\ pcb' = [pcb EXCEPT ![c] = p2] /\ conn' = [conn EXCEPT ![c] = n2]
      /\ echoed' = [echoed EXCEPT ![c] = e2] /\ taken' = [taken EXCEPT ![c] = t2]
  BY DEF Becomes
<1>4. Tables'  BY <1>2, <1>3 DEF TInv, Tables
<1>5. /\ pcb'[c] = p2 /\ conn'[c] = n2 /\ echoed'[c] = e2 /\ taken'[c] = t2
      /\ \A d \in Conns \ {c} : /\ pcb'[d] = pcb[d] /\ conn'[d] = conn[d]
                                /\ echoed'[d] = echoed[d] /\ taken'[d] = taken[d]
  BY <1>3 DEF TInv, Tables
<1>6. ASSUME NEW d \in Conns
      PROVE  Good(pcb[d], conn[d], echoed[d], rcvd[d], taken[d], Place(d), buf)'
  <2>1. CASE d = c
    <3>1. Place(d)' = k2  BY <2>1, <1>1, <1>3 DEF Place
    <3> QED BY <2>1, <3>1, <1>1, <1>3, <1>5
  <2>2. CASE d # c
    <3>1. Place(d) = "none" /\ Place(d)' = "none"  BY <2>2, <1>1, <1>3 DEF Place
    <3>2. Good(pcb[d], conn[d], echoed[d], rcvd[d], taken[d], "none", buf)
      BY <3>1 DEF TInv, Connections
    <3>3. rcvd[d] \in Nat /\ taken[d] \in Nat  BY DEF TInv, Tables
    <3>4. Good(pcb[d], conn[d], echoed[d], rcvd[d], taken[d], "none", b2)
      BY <3>2, <3>3, IdleGood
    <3> QED BY <2>2, <3>1, <3>4, <1>3, <1>5
  <2> QED BY <2>1, <2>2
<1>7. Connections'  BY <1>6 DEF Connections
<1>8. Task'
  <2>1. k2 \in Places  BY DEF Places
  <2>2. cur # None  BY <1>1, SizesAssumption
  <2> QED BY <2>1, <2>2, <1>3 DEF TInv, Task
<1>9. n2.alloc  BY DEF Good, Signal, Serving
<1>10. conn[c].alloc
  <2>1. Good(pcb[c], conn[c], echoed[c], rcvd[c], taken[c], pc, buf)
    BY <1>1 DEF TInv, Connections, Place
  <2> QED BY <2>1 DEF Good, Signal, Serving
<1>11. Accepted' = Accepted  BY <1>5, <1>9, <1>10 DEF Accepted
<1>12. Waiting'  BY <1>3, <1>11 DEF TInv, Waiting
<1>13. Used' \subseteq Used  BY <1>1, <1>5 DEF Used
<1>14. Pools'  BY <1>11, <1>13, PoolsKept DEF TInv
<1> QED BY <1>4, <1>7, <1>8, <1>12, <1>14 DEF TInv

\* netconn_recv_data takes a message.
LEMMA TakeInv ==
    ASSUME TInv, NEW k \in {"recv", "fetch"}, pc = k, conn[cur].valid, conn[cur].mbox # <<>>,
           TakeMessage
    PROVE  TInv'
<1>1. k \in Serving  BY DEF Serving
<1>2. PICK c \in Conns, p \in PcbRecs, n \in Netconns, e \in Seq(Nat), r \in Nat, t \in Nat,
          b \in Pbufs : Now(c, p, n, e, r, t, b) /\ Whole(b) /\ Good(p, n, e, r, t, k, b)
  BY <1>1, ServedNow
<1>3. c = cur /\ p = pcb[c] /\ n = conn[c] /\ e = echoed[c] /\ t = taken[c]  BY <1>2 DEF Now
<1>4. n.valid /\ n.mbox # <<>>  BY <1>3
<1>5. PICK m : m = Head(n.mbox)  OBVIOUS
<1>6. PICK n2 : n2 = [n EXCEPT !.mbox = Tail(n.mbox)]  OBVIOUS
<1>7. PICK t2 : t2 = t + tot_len(m.p)  OBVIOUS
<1>8. PICK k2 : k2 = IF m = Failed THEN "close" ELSE "recved"  OBVIOUS
<1>g. Good(p, n, e, r, t, k, b)  BY <1>2
<1>9. Good(p, n2, e, r, t2, k2, m.p) /\ m.p \in Pbufs /\ Whole(m.p) /\ t2 \in Nat
  <2>1. Takes(n, t, m, n2, t2, k2)  BY <1>5, <1>6, <1>7, <1>8 DEF Takes
  <2>2. Good(p, n2, e, r, t2, k2, m.p)  BY <2>1, <1>g, <1>4, TakeGood
  <2>3. m.p \in Pbufs /\ Whole(m.p)
    <3>1. PICK q \in Seq(Msgs) : q = n.mbox  BY DEF Netconns
    <3>2. q # <<>> /\ m = q[1] /\ 1 \in DOMAIN q /\ m \in Msgs  BY <3>1, <1>4, <1>5
    <3> QED BY <3>1, <3>2, <1>g DEF Good, Shaped, Msgs
  <2>4. t2 \in Nat  BY <2>3, <1>7, ChainLengthNat
  <2> QED BY <2>2, <2>3, <2>4
<1>10. k2 \in Serving  BY <1>8 DEF Serving
<1>11. Becomes(c, p, n2, e, t2, k2, m.p)
  <2>1. pcb \in [Conns -> PcbRecs] /\ echoed \in [Conns -> Seq(Nat)]  BY DEF TInv, Tables
  <2>2. pcb = [pcb EXCEPT ![c] = p] /\ echoed = [echoed EXCEPT ![c] = e]  BY <2>1, <1>3
  <2>3. conn' = [conn EXCEPT ![c] = n2]  BY <1>3, <1>6 DEF TakeMessage
  <2>4. taken' = [taken EXCEPT ![c] = t2]  BY <1>3, <1>5, <1>7 DEF TakeMessage
  <2>5. pc' = k2 /\ buf' = m.p /\ UNCHANGED <<cur, listening, acceptmbox, pcb, rcvd, echoed>>
    BY <1>3, <1>5, <1>8 DEF TakeMessage, Goto
  <2> QED BY <2>2, <2>3, <2>4, <2>5 DEF Becomes
<1>12. pc \in Serving  BY <1>1
<1> QED BY <1>2, <1>9, <1>10, <1>11, <1>12, ServerStep

\* The server goes on, perhaps after netconn_err, with what it has.
LEMMA GoStep ==
    ASSUME TInv, NEW c \in Conns, NEW p, NEW n, NEW e, NEW r, NEW t \in Nat, NEW b,
           Now(c, p, n, e, r, t, b), pc \in Serving,
           NEW n2, NEW k2 \in Serving, NEW b2 \in Pbufs, Whole(b2), Good(p, n2, e, r, t, k2, b2),
           conn' = [conn EXCEPT ![c] = n2], pc' = k2, buf' = b2,
           UNCHANGED <<cur, listening, taken, acceptmbox, pcb, rcvd, echoed>>
    PROVE  TInv'
<1>1. p = pcb[c] /\ e = echoed[c] /\ t = taken[c]  BY DEF Now
<1>2. Becomes(c, p, n2, e, t, k2, b2)  BY <1>1 DEF TInv, Tables, Becomes
<1> QED BY <1>2, ServerStep

LEMMA RecvInv ==
    ASSUME TInv, netconn_recv
    PROVE  TInv'
<1>1. pc = "recv" /\ "recv" \in Serving /\ "close" \in Serving /\ "fetch" \in Serving
  BY DEF netconn_recv, Serving
<1>2. PICK c \in Conns, p \in PcbRecs, n \in Netconns, e \in Seq(Nat), r \in Nat, t \in Nat,
          b \in Pbufs : Now(c, p, n, e, r, t, b) /\ Whole(b) /\ Good(p, n, e, r, t, "recv", b)
  BY <1>1, ServedNow
<1>3. c = cur /\ n = conn[c] /\ b = buf  BY <1>2 DEF Now
<1>4. conn \in [Conns -> Netconns] /\ conn = [conn EXCEPT ![c] = n]  BY <1>3 DEF TInv, Tables
<1>5. CASE Goto("close") /\ UNCHANGED <<cur, buf, listening, taken, stack>>
  <2>1. Good(p, n, e, r, t, "close", b)  BY <1>2, ToClose
  <2>2. /\ pc' = "close" /\ buf' = b /\ conn' = [conn EXCEPT ![c] = n]
        /\ UNCHANGED <<cur, listening, taken, acceptmbox, pcb, rcvd, echoed>>
    BY <1>3, <1>4, <1>5 DEF Goto, stack
  <2> QED BY <2>1, <2>2, <1>1, <1>2, GoStep
<1>6. CASE conn[cur].valid /\ conn[cur].mbox # <<>> /\ TakeMessage
  BY <1>1, <1>6, TakeInv
<1>7. CASE /\ conn' = [conn EXCEPT ![cur].pending = FALSE] /\ Goto("close")
           /\ UNCHANGED <<cur, buf, listening, taken, acceptmbox, pcb, rcvd, echoed>>
  <2>1. PICK n2 : n2 = [n EXCEPT !.pending = FALSE]  OBVIOUS
  <2>2. Good(p, n2, e, r, t, "close", b)  BY <2>1, <1>2, ToClose
  <2>3. /\ pc' = "close" /\ buf' = b /\ conn' = [conn EXCEPT ![c] = n2]
        /\ UNCHANGED <<cur, listening, taken, acceptmbox, pcb, rcvd, echoed>>
    BY <1>3, <1>7, <2>1 DEF Goto
  <2> QED BY <2>2, <2>3, <1>1, <1>2, GoStep
<1>8. CASE /\ conn[cur].valid /\ ~(conn[cur].closed \/ conn[cur].pending) /\ Goto("fetch")
           /\ UNCHANGED <<cur, buf, listening, taken, stack>>
  <2>1. Good(p, n, e, r, t, "fetch", b)  BY <1>2, <1>3, <1>8, MoveGood
  <2>2. /\ pc' = "fetch" /\ buf' = b /\ conn' = [conn EXCEPT ![c] = n]
        /\ UNCHANGED <<cur, listening, taken, acceptmbox, pcb, rcvd, echoed>>
    BY <1>3, <1>4, <1>8 DEF Goto, stack
  <2> QED BY <2>1, <2>2, <1>1, <1>2, GoStep
<1> QED BY <1>5, <1>6, <1>7, <1>8 DEF netconn_recv

LEMMA FetchInv ==
    ASSUME TInv, Fetch
    PROVE  TInv'
<1>1. pc = "fetch" /\ "fetch" \in Serving /\ conn[cur].mbox # <<>> /\ TakeMessage
  BY DEF Fetch, Serving
<1>2. PICK c \in Conns, p \in PcbRecs, n \in Netconns, e \in Seq(Nat), r \in Nat, t \in Nat,
          b \in Pbufs : Now(c, p, n, e, r, t, b) /\ Whole(b) /\ Good(p, n, e, r, t, "fetch", b)
  BY <1>1, ServedNow
<1>3. conn[cur].valid  BY <1>2 DEF Now, Good, Signal
<1> QED BY <1>1, <1>3, TakeInv

LEMMA DoRecvInv ==
    ASSUME TInv, lwip_netconn_do_recv
    PROVE  TInv'
<1>1. pc = "recved" /\ "recved" \in Serving  BY DEF lwip_netconn_do_recv, Serving
<1>2. PICK c \in Conns, p \in PcbRecs, n \in Netconns, e \in Seq(Nat), r \in Nat, t \in Nat,
          b \in Pbufs : Now(c, p, n, e, r, t, b) /\ Whole(b) /\ Good(p, n, e, r, t, "recved", b)
  BY <1>1, ServedNow
<1>3. /\ c = cur /\ p = pcb[c] /\ n = conn[c] /\ e = echoed[c] /\ t = taken[c] /\ b = buf
  BY <1>2 DEF Now
<1>4. PICK len : len = IF b = NULL THEN 1 ELSE tot_len(b)  OBVIOUS
<1>5. PICK p2 : p2 = IF n.pcb THEN tcp_recved(p, len) ELSE p  OBVIOUS
<1>6. PICK k2 : k2 = IF b = NULL THEN "handle_fin" ELSE "write"  OBVIOUS
<1>7. Good(p2, n, e, r, t, k2, b)  BY <1>2, <1>4, <1>5, <1>6, DoRecvGood
<1>8. k2 \in Serving  BY <1>6 DEF Serving
<1>9. p2.state \in Live => p.state \in Live
  <2>1. n.pcb => p.state \in {"established", "close_wait"}  BY <1>2 DEF Good, Owned
  <2> QED BY <2>1, <1>5 DEF Live
<1>10. Becomes(c, p2, n, e, t, k2, b)
  <2>1. /\ pcb \in [Conns -> PcbRecs] /\ echoed \in [Conns -> Seq(Nat)]
        /\ conn \in [Conns -> Netconns] /\ taken \in [Conns -> Nat]
    BY DEF TInv, Tables
  <2>2. /\ pcb = [pcb EXCEPT ![c] = p] /\ echoed = [echoed EXCEPT ![c] = e]
        /\ conn = [conn EXCEPT ![c] = n] /\ taken = [taken EXCEPT ![c] = t]
    BY <2>1, <1>3
  <2>3. pcb' = IF n.pcb THEN [pcb EXCEPT ![c] = tcp_recved(p, len)] ELSE pcb
    BY <1>3, <1>4 DEF lwip_netconn_do_recv
  <2>4. pcb' = [pcb EXCEPT ![c] = p2]  BY <2>2, <2>3, <1>5
  <2>5. pc' = k2 /\ UNCHANGED <<cur, buf, listening, taken, acceptmbox, conn, rcvd, echoed>>
    BY <1>3, <1>6 DEF lwip_netconn_do_recv, Goto
  <2> QED BY <2>2, <2>4, <2>5, <1>3 DEF Becomes
<1> QED BY <1>1, <1>2, <1>7, <1>8, <1>9, <1>10, ServerStep

LEMMA HandleFinInv ==
    ASSUME TInv, handle_fin
    PROVE  TInv'
<1>1. pc = "handle_fin" /\ "handle_fin" \in Serving /\ "shut_rd" \in Serving /\ "close" \in Serving
  BY DEF handle_fin, Serving
<1>2. PICK c \in Conns, p \in PcbRecs, n \in Netconns, e \in Seq(Nat), r \in Nat, t \in Nat,
          b \in Pbufs : Now(c, p, n, e, r, t, b) /\ Whole(b) /\ Good(p, n, e, r, t, "handle_fin", b)
  BY <1>1, ServedNow
<1>3. c = cur /\ n = conn[c] /\ b = buf  BY <1>2 DEF Now
<1>4. conn \in [Conns -> Netconns] /\ conn = [conn EXCEPT ![c] = n]  BY <1>3 DEF TInv, Tables
<1>5. UNCHANGED <<cur, listening, taken, acceptmbox, pcb, rcvd, echoed>> /\ buf' = b
  BY <1>3 DEF handle_fin
<1>6. CASE Goto("shut_rd") /\ UNCHANGED conn
  <2>1. Good(p, n, e, r, t, "shut_rd", b)  BY <1>2, MoveGood
  <2>2. pc' = "shut_rd" /\ conn' = [conn EXCEPT ![c] = n]  BY <1>4, <1>6 DEF Goto
  <2> QED BY <2>1, <2>2, <1>1, <1>2, <1>5, GoStep
<1>7. CASE conn' = [conn EXCEPT ![cur].pending = FALSE] /\ Goto("close")
  <2>1. PICK n2 : n2 = [n EXCEPT !.pending = FALSE]  OBVIOUS
  <2>2. Good(p, n2, e, r, t, "close", b)  BY <2>1, <1>2, ToClose
  <2>3. pc' = "close" /\ conn' = [conn EXCEPT ![c] = n2]  BY <1>3, <1>7, <2>1 DEF Goto
  <2> QED BY <2>2, <2>3, <1>1, <1>2, <1>5, GoStep
<1> QED BY <1>6, <1>7 DEF handle_fin

LEMMA ShutRdInv ==
    ASSUME TInv, ShutRd
    PROVE  TInv'
<1>1. pc = "shut_rd" /\ "shut_rd" \in Serving /\ "close" \in Serving  BY DEF ShutRd, Serving
<1>2. PICK c \in Conns, p \in PcbRecs, n \in Netconns, e \in Seq(Nat), r \in Nat, t \in Nat,
          b \in Pbufs : Now(c, p, n, e, r, t, b) /\ Whole(b) /\ Good(p, n, e, r, t, "shut_rd", b)
  BY <1>1, ServedNow
<1>3. /\ c = cur /\ p = pcb[c] /\ n = conn[c] /\ e = echoed[c] /\ t = taken[c] /\ b = buf
  BY <1>2 DEF Now
<1>4. /\ conn \in [Conns -> Netconns] /\ conn = [conn EXCEPT ![c] = n]
      /\ echoed = [echoed EXCEPT ![c] = e] /\ taken = [taken EXCEPT ![c] = t]
  BY <1>3 DEF TInv, Tables
<1>5. UNCHANGED <<cur, listening, taken, acceptmbox, rcvd, echoed>> /\ buf' = b /\ pc' = "close"
  BY <1>3 DEF ShutRd, Goto
<1>6. CASE /\ conn[cur].pcb /\ conn' = [conn EXCEPT ![cur] = netconn_drain(@)]
           /\ pcb' = [pcb EXCEPT ![cur] = [@ EXCEPT !.recv = FALSE, !.rxclosed = TRUE,
                                                    !.refused = NULL, !.finflag = FALSE]]
  <2>1. PICK p2 : p2 = [p EXCEPT !.recv = FALSE, !.rxclosed = TRUE, !.refused = NULL,
                                 !.finflag = FALSE]
    OBVIOUS
  <2>2. PICK n2 : n2 = netconn_drain(n)  OBVIOUS
  <2>3. n.pcb  BY <1>3, <1>6
  <2>4. Good(p2, n2, e, r, t, "close", b)  BY <2>1, <2>2, <2>3, <1>2, ShutRdGood
  <2>5. p.state \in Live  BY <2>3, <1>2 DEF Good, Owned, Live
  <2>6. pcb' = [pcb EXCEPT ![c] = p2] /\ conn' = [conn EXCEPT ![c] = n2]
    BY <2>1, <2>2, <1>3, <1>6
  <2>7. Becomes(c, p2, n2, e, t, "close", b)  BY <2>6, <1>4, <1>5 DEF Becomes
  <2> QED BY <2>4, <2>5, <2>7, <1>1, <1>2, ServerStep
<1>7. CASE UNCHANGED <<conn, pcb>>
  <2>1. Good(p, n, e, r, t, "close", b)  BY <1>2, ToClose
  <2>2. UNCHANGED <<cur, listening, taken, acceptmbox, pcb, rcvd, echoed>>
        /\ conn' = [conn EXCEPT ![c] = n]
    BY <1>4, <1>5, <1>7
  <2> QED BY <2>1, <2>2, <1>1, <1>2, <1>5, GoStep
<1> QED BY <1>6, <1>7 DEF ShutRd

LEMMA CloseInv ==
    ASSUME TInv, NEW mem \in BOOLEAN, netconn_close(mem)
    PROVE  TInv'
<1>1. pc = "close" /\ "close" \in Serving /\ "delete" \in Serving  BY DEF netconn_close, Serving
<1>2. PICK c \in Conns, p \in PcbRecs, n \in Netconns, e \in Seq(Nat), r \in Nat, t \in Nat,
          b \in Pbufs : Now(c, p, n, e, r, t, b) /\ Whole(b) /\ Good(p, n, e, r, t, "close", b)
  BY <1>1, ServedNow
<1>3. /\ c = cur /\ p = pcb[c] /\ n = conn[c] /\ e = echoed[c] /\ t = taken[c] /\ b = buf
  BY <1>2 DEF Now
<1>4. /\ conn \in [Conns -> Netconns] /\ conn = [conn EXCEPT ![c] = n]
      /\ echoed = [echoed EXCEPT ![c] = e] /\ taken = [taken EXCEPT ![c] = t]
  BY <1>3 DEF TInv, Tables
<1>5. UNCHANGED <<cur, listening, taken, acceptmbox, rcvd, echoed>> /\ buf' = b /\ pc' = "delete"
  BY <1>3 DEF netconn_close, Goto
<1>6. CASE /\ conn[cur].pcb /\ pcb' = [pcb EXCEPT ![cur] = Detach(@, mem)]
           /\ conn' = [conn EXCEPT ![cur] = [netconn_drain(@) EXCEPT !.pcb = FALSE]]
  <2>1. PICK p2 : p2 = Detach(p, mem)  OBVIOUS
  <2>2. PICK n2 : n2 = [netconn_drain(n) EXCEPT !.pcb = FALSE]  OBVIOUS
  <2>3. n.pcb  BY <1>3, <1>6
  <2>4. Good(p2, n2, e, r, t, "delete", b)  BY <2>1, <2>2, <2>3, <1>2, CloseGood
  <2>5. p.state \in Live  BY <2>3, <1>2 DEF Good, Owned, Live
  <2>6. pcb' = [pcb EXCEPT ![c] = p2] /\ conn' = [conn EXCEPT ![c] = n2]
    BY <2>1, <2>2, <1>3, <1>6
  <2>7. Becomes(c, p2, n2, e, t, "delete", b)  BY <2>6, <1>4, <1>5 DEF Becomes
  <2> QED BY <2>4, <2>5, <2>7, <1>1, <1>2, ServerStep
<1>7. CASE UNCHANGED <<pcb, conn>>
  <2>1. Good(p, n, e, r, t, "delete", b)  BY <1>2, MoveGood
  <2>2. UNCHANGED <<cur, listening, taken, acceptmbox, pcb, rcvd, echoed>>
        /\ conn' = [conn EXCEPT ![c] = n]
    BY <1>4, <1>5, <1>7
  <2> QED BY <2>1, <2>2, <1>1, <1>2, <1>5, GoStep
<1> QED BY <1>6, <1>7 DEF netconn_close

LEMMA WriteInv ==
    ASSUME TInv, NEW mem \in BOOLEAN, NEW route \in BOOLEAN, netconn_write(mem, route)
    PROVE  TInv'
<1>1. /\ pc = "write" /\ "write" \in Serving /\ "close" \in Serving /\ "sem" \in Serving
  BY DEF netconn_write, Serving
<1>2. PICK c \in Conns, p \in PcbRecs, n \in Netconns, e \in Seq(Nat), r \in Nat, t \in Nat,
          b \in Pbufs : Now(c, p, n, e, r, t, b) /\ Whole(b) /\ Good(p, n, e, r, t, "write", b)
  BY <1>1, ServedNow
<1>3. /\ c = cur /\ p = pcb[c] /\ n = conn[c] /\ e = echoed[c] /\ t = taken[c] /\ b = buf
  BY <1>2 DEF Now
<1>4. /\ conn \in [Conns -> Netconns] /\ conn = [conn EXCEPT ![c] = n]
      /\ taken = [taken EXCEPT ![c] = t]
  BY <1>3 DEF TInv, Tables
<1>5. UNCHANGED <<cur, listening, taken, acceptmbox, rcvd>>  BY DEF netconn_write
<1>6. NextFragment(FALSE) => buf' = NULL /\ pc' = "close"  BY DEF NextFragment, Goto
<1>7. CASE /\ conn' = [conn EXCEPT ![cur].pending = FALSE] /\ NextFragment(FALSE)
           /\ UNCHANGED <<pcb, echoed>>
  <2>1. PICK n2 : n2 = [n EXCEPT !.pending = FALSE]  OBVIOUS
  <2>2. Good(p, n2, e, r, t, "close", NULL)  BY <2>1, <1>2, ToClose
  <2>3. /\ pc' = "close" /\ buf' = NULL /\ conn' = [conn EXCEPT ![c] = n2]
        /\ UNCHANGED <<cur, listening, taken, acceptmbox, pcb, rcvd, echoed>>
    BY <1>3, <1>5, <1>6, <1>7, <2>1
  <2> QED BY <2>2, <2>3, <1>1, <1>2, GoStep, NullChain
<1>8. CASE NextFragment(FALSE) /\ UNCHANGED <<conn, pcb, echoed>>
  <2>1. Good(p, n, e, r, t, "close", NULL)  BY <1>2, ToClose
  <2>2. /\ pc' = "close" /\ buf' = NULL /\ conn' = [conn EXCEPT ![c] = n]
        /\ UNCHANGED <<cur, listening, taken, acceptmbox, pcb, rcvd, echoed>>
    BY <1>4, <1>5, <1>6, <1>8
  <2> QED BY <2>1, <2>2, <1>1, <1>2, GoStep, NullChain
<1>9. PICK n1 : n1 = [n EXCEPT !.state = "write", !.msg = TRUE, !.todo = netbuf_data(b)]  OBVIOUS
<1>10. PICK x : x = lwip_netconn_do_writemore([p |-> p, n |-> n1, e |-> e], mem, route, FALSE)
  OBVIOUS
<1>11. CASE /\ n.pcb /\ Set(c, x)
            /\ \/ x.n.state = "none" /\ NextFragment(route)
               \/ x.n.state = "write" /\ Goto("sem") /\ UNCHANGED buf
  <2>1. PICK b2 : b2 = IF route THEN netbuf_next(b) ELSE NULL  OBVIOUS
  <2>2. PICK k2 : k2 = IF ~route THEN "close" ELSE IF Len(b.ends) > 1 THEN "write" ELSE "recv"
    OBVIOUS
  <2>w. Writes(p, n, e, b, mem, route, x, b2, k2)  BY <2>1, <2>2, <1>9, <1>10 DEF Writes
  <2>g. Good(p, n, e, r, t, "write", b) /\ Whole(b) /\ n.pcb  BY <1>2, <1>11
  <2>3. x.n.state = "none" => Good(x.p, x.n, x.e, r, t, k2, b2)  BY <2>w, <2>g, WriteGood
  <2>4. x.n.state = "write" => Good(x.p, x.n, x.e, r, t, "sem", b)  BY <2>w, <2>g, WriteGood
  <2>5. b2 \in Pbufs /\ Whole(b2)  BY <2>w, <2>g, WriteGood
  <2>6. p.state \in Live  BY <1>2, <1>11 DEF Good, Owned, Live
  <2>7. /\ pcb' = [pcb EXCEPT ![c] = x.p] /\ conn' = [conn EXCEPT ![c] = x.n]
        /\ echoed' = [echoed EXCEPT ![c] = x.e]
    BY <1>11 DEF Set
  <2>8. CASE x.n.state = "none" /\ NextFragment(route)
    <3>1. buf' = b2 /\ pc' = k2  BY <2>1, <2>2, <2>8, <1>3 DEF NextFragment, Goto
    <3>2. k2 \in Serving  BY <2>2 DEF Serving
    <3>3. Becomes(c, x.p, x.n, x.e, t, k2, b2)  BY <3>1, <2>7, <1>4, <1>5 DEF Becomes
    <3>4. Good(x.p, x.n, x.e, r, t, k2, b2)  BY <2>3, <2>8
    <3> QED BY <3>2, <3>3, <3>4, <2>5, <2>6, <1>1, <1>2, ServerStep
  <2>9. CASE x.n.state = "write" /\ Goto("sem") /\ UNCHANGED buf
    <3>1. Becomes(c, x.p, x.n, x.e, t, "sem", b)
      BY <2>7, <2>9, <1>3, <1>4, <1>5 DEF Becomes, Goto
    <3>2. Good(x.p, x.n, x.e, r, t, "sem", b)  BY <2>4, <2>9
    <3> QED BY <3>1, <3>2, <2>6, <1>1, <1>2, ServerStep
  <2> QED BY <2>8, <2>9, <1>11
<1>12. [State(cur) EXCEPT !.n = n1] = [p |-> p, n |-> n1, e |-> e]  BY <1>3 DEF State
<1> QED
  <2>1. CASE /\ conn[cur].pending /\ conn' = [conn EXCEPT ![cur].pending = FALSE]
             /\ NextFragment(FALSE) /\ UNCHANGED <<pcb, echoed>>
    BY <2>1, <1>7
  <2>2. CASE NextFragment(FALSE) /\ UNCHANGED <<conn, pcb, echoed>>  BY <2>2, <1>8
  <2>3. CASE ~(conn[cur].pending \/ conn[cur].state # "none" \/ ~conn[cur].pcb)
    <3>1. n.pcb  BY <2>3, <1>3
    <3>2. x = lwip_netconn_do_writemore(
                [State(cur) EXCEPT !.n = [conn[cur] EXCEPT !.state = "write", !.msg = TRUE,
                                                           !.todo = netbuf_data(buf)]],
                mem, route, FALSE)
      BY <1>3, <1>9, <1>10, <1>12
    <3>3. /\ Set(c, x)
          /\ \/ x.n.state = "none" /\ NextFragment(route)
             \/ x.n.state = "write" /\ Goto("sem") /\ UNCHANGED buf
      BY <2>3, <3>2, <1>3 DEF netconn_write
    <3> QED BY <3>1, <3>3, <1>11
  <2> QED BY <2>1, <2>2, <2>3 DEF netconn_write

LEMMA SemInv ==
    ASSUME TInv, SemWait
    PROVE  TInv'
<1>1. pc = "sem" /\ "sem" \in Serving  BY DEF SemWait, Serving
<1>2. PICK c \in Conns, p \in PcbRecs, n \in Netconns, e \in Seq(Nat), r \in Nat, t \in Nat,
          b \in Pbufs : Now(c, p, n, e, r, t, b) /\ Whole(b) /\ Good(p, n, e, r, t, "sem", b)
  BY <1>1, ServedNow
<1>3. c = cur /\ n = conn[c] /\ b = buf  BY <1>2 DEF Now
<1>4. PICK n2 : n2 = [n EXCEPT !.sem = n.sem - 1]  OBVIOUS
<1>5. PICK b2 : b2 = IF n.ok THEN netbuf_next(b) ELSE NULL  OBVIOUS
<1>6. PICK k2 : k2 = IF ~n.ok THEN "close" ELSE IF Len(b.ends) > 1 THEN "write" ELSE "recv"
  OBVIOUS
<1>7. n.sem > 0  BY <1>3 DEF SemWait
<1>8. Good(p, n2, e, r, t, k2, b2)  BY <1>2, <1>4, <1>5, <1>6, <1>7, SemGood
<1>9. b2 \in Pbufs /\ Whole(b2)  BY <1>2, <1>4, <1>5, <1>6, <1>7, SemGood
<1>10. k2 \in Serving  BY <1>6 DEF Serving
<1>11. /\ conn' = [conn EXCEPT ![c] = n2]
       /\ UNCHANGED <<cur, listening, taken, acceptmbox, pcb, rcvd, echoed>>
  BY <1>3, <1>4 DEF SemWait
<1>12. buf' = b2 /\ pc' = k2  BY <1>3, <1>5, <1>6 DEF SemWait, NextFragment, Goto
<1> QED BY <1>1, <1>2, <1>8, <1>9, <1>10, <1>11, <1>12, GoStep

LEMMA DeleteInv ==
    ASSUME TInv, NEW mem \in BOOLEAN, netconn_delete(mem)
    PROVE  TInv'
<1>1. pc = "delete" /\ "delete" \in Serving  BY DEF netconn_delete, Serving
<1>2. PICK c \in Conns, p \in PcbRecs, n \in Netconns, e \in Seq(Nat), r \in Nat, t \in Nat,
          b \in Pbufs : Now(c, p, n, e, r, t, b) /\ Whole(b) /\ Good(p, n, e, r, t, "delete", b)
  BY <1>1, ServedNow
<1>3. /\ c = cur /\ p = pcb[c] /\ n = conn[c] /\ e = echoed[c] /\ r = rcvd[c] /\ t = taken[c]
      /\ b = buf
  BY <1>2 DEF Now
<1>4. n.state = "none"  BY <1>2 DEF Good, Signal
<1>5. /\ conn' = [conn EXCEPT ![c] = Free]
      /\ pcb' = IF n.pcb THEN [pcb EXCEPT ![c] = Detach(p, mem)] ELSE pcb
      /\ cur' = None /\ pc' = "accept"
      /\ UNCHANGED <<buf, listening, taken, acceptmbox, rcvd, echoed>>
  BY <1>3, <1>4 DEF netconn_delete, Goto
<1>6. PICK p2 : p2 = IF n.pcb THEN Detach(p, mem) ELSE p  OBVIOUS
<1>7. Good(p2, Free, e, r, t, "none", b)  BY <1>2, <1>6, DeleteGood
<1>8. p2 \in PcbRecs /\ Free \in Netconns  BY <1>7 DEF Good, Shaped
<1>9. pcb \in [Conns -> PcbRecs] /\ conn \in [Conns -> Netconns]  BY DEF TInv, Tables
<1>10. pcb' = [pcb EXCEPT ![c] = p2]
  <2>1. pcb = [pcb EXCEPT ![c] = p]  BY <1>3, <1>9
  <2> QED BY <2>1, <1>5, <1>6
<1>11. /\ pcb'[c] = p2 /\ conn'[c] = Free
       /\ \A d \in Conns \ {c} : pcb'[d] = pcb[d] /\ conn'[d] = conn[d]
  BY <1>5, <1>9, <1>10
<1>12. Tables'  BY <1>5, <1>8, <1>10 DEF TInv, Tables
<1>13. Task'  BY <1>5 DEF TInv, Task, Places, Serving
<1>14. ASSUME NEW d \in Conns
       PROVE  Good(pcb[d], conn[d], echoed[d], rcvd[d], taken[d], Place(d), buf)'
  <2>1. Place(d)' = "none"  BY <1>5, SizesAssumption DEF Place
  <2>2. CASE d = c  BY <2>1, <2>2, <1>3, <1>5, <1>7, <1>11
  <2>3. CASE d # c
    <3>1. Place(d) = "none"  BY <2>3, <1>3 DEF Place
    <3>2. Good(pcb[d], conn[d], echoed[d], rcvd[d], taken[d], "none", buf)
      BY <3>1 DEF TInv, Connections
    <3> QED BY <2>1, <2>3, <3>2, <1>5, <1>11
  <2> QED BY <2>2, <2>3
<1>15. Connections'  BY <1>14 DEF Connections
<1>16. ~Free.alloc  BY DEF Free
<1>17. Accepted' = Accepted \ {c}  BY <1>11, <1>16 DEF Accepted
<1>18. Waiting'  BY <1>3, <1>5, <1>17 DEF TInv, Waiting
<1>19. Used' \subseteq Used
  <2>1. p2.state \in Live => p.state \in Live
    <3>1. n.pcb => p.state \in {"established", "close_wait"}  BY <1>2 DEF Good, Owned
    <3> QED BY <3>1, <1>6 DEF Live
  <2> QED BY <2>1, <1>3, <1>11 DEF Used
<1>20. Pools'  BY <1>17, <1>19, PoolsKept DEF TInv
<1> QED BY <1>12, <1>13, <1>15, <1>18, <1>20 DEF TInv

\* A step of the server while it serves nobody.
LEMMA IdleStep ==
    ASSUME TInv, pc \notin Serving, NEW l \in Places \ Serving, pc' = l, listening' \in BOOLEAN,
           UNCHANGED <<cur, buf, taken, stack>>
    PROVE  TInv'
<1>1. cur = None /\ cur \notin Conns  BY SizesAssumption DEF TInv, Task
<1>2. /\ cur' = cur /\ buf' = buf /\ taken' = taken /\ acceptmbox' = acceptmbox /\ pcb' = pcb
      /\ conn' = conn /\ rcvd' = rcvd /\ echoed' = echoed
  BY DEF stack
<1>3. Tables'  BY <1>2 DEF TInv, Tables
<1>4. Task'  BY <1>1, <1>2 DEF TInv, Task
<1>5. ASSUME NEW d \in Conns
      PROVE  Good(pcb[d], conn[d], echoed[d], rcvd[d], taken[d], Place(d), buf)'
  <2>1. Place(d)' = Place(d)  BY <1>1, <1>2 DEF Place
  <2>2. Good(pcb[d], conn[d], echoed[d], rcvd[d], taken[d], Place(d), buf)
    BY DEF TInv, Connections
  <2> QED BY <2>1, <2>2, <1>2
<1>6. Connections'  BY <1>5 DEF Connections
<1>7. Accepted' = Accepted /\ Used' = Used  BY <1>2 DEF Accepted, Used
<1>8. Waiting'  BY <1>2, <1>7 DEF TInv, Waiting
<1>9. Pools'  BY <1>7 DEF TInv, Pools
<1> QED BY <1>3, <1>4, <1>6, <1>8, <1>9 DEF TInv

LEMMA IdleInv ==
    ASSUME TInv, netconn_new \/ netconn_bind \/ netconn_listen \/ netconn_accept \/ Backoff
    PROVE  TInv'
<1>1. pc \notin Serving  BY DEF netconn_new, netconn_bind, netconn_listen, netconn_accept, Backoff, Serving
<1>2. PICK l \in {"bind", "ended", "listen", "accept", "backoff", "accepting"} : pc' = l
  BY DEF netconn_new, netconn_bind, netconn_listen, netconn_accept, Backoff, Goto
<1>3. l \in Places \ Serving  BY <1>2 DEF Places, Serving
<1>4. UNCHANGED <<cur, buf, taken, stack>>
  BY DEF netconn_new, netconn_bind, netconn_listen, netconn_accept, Backoff
<1>5. listening' \in BOOLEAN
  BY DEF netconn_new, netconn_bind, netconn_listen, netconn_accept, Backoff, TInv, Task
<1> QED BY <1>1, <1>2, <1>3, <1>4, <1>5, IdleStep

LEMMA AcceptInv ==
    ASSUME TInv, AcceptFetch
    PROVE  TInv'
<1>1. PICK q \in Seq(Conns \cup {None}), a \in Seq(Conns \cup {None}), h \in Conns \cup {None} :
        /\ q = acceptmbox /\ q # <<>> /\ h = q[1] /\ a = Tail(q)
        /\ acceptmbox' = a /\ cur' = h /\ pc' = IF h = None THEN "backoff" ELSE "recv"
  <2>1. acceptmbox \in Seq(Conns \cup {None}) /\ acceptmbox # <<>>
    BY DEF TInv, Waiting, AcceptFetch
  <2>2. /\ Head(acceptmbox) = acceptmbox[1] /\ Head(acceptmbox) \in Conns \cup {None}
        /\ Tail(acceptmbox) \in Seq(Conns \cup {None})
    BY <2>1, HeadTailProperties
  <2> QED BY <2>1, <2>2 DEF AcceptFetch, Goto
<1>2. /\ pc = "accepting" /\ buf' = buf /\ listening' = listening /\ taken' = taken /\ pcb' = pcb
      /\ conn' = conn /\ rcvd' = rcvd /\ echoed' = echoed
  BY DEF AcceptFetch
<1>3. cur = None /\ None \notin Conns
  BY <1>2, SizesAssumption DEF TInv, Task, Serving
<1>4. /\ Len(q) \in Nat \ {0} /\ Len(a) = Len(q) - 1 /\ 1 \in DOMAIN q
      /\ DOMAIN a = 1 .. Len(q) - 1 /\ DOMAIN q = 1 .. Len(q)
      /\ \A i \in 1 .. Len(q) - 1 : a[i] = q[i + 1]
  BY <1>1, HeadTailProperties
<1>5. Tables'  BY <1>2 DEF TInv, Tables
<1>6. h # None <=> pc' \in Serving  BY <1>1 DEF Serving
<1>7. Task'  BY <1>1, <1>2, <1>6 DEF TInv, Task, Places, Serving
<1>8. /\ \A c \in Accepted : \E i \in DOMAIN q : q[i] = c
      /\ \A i \in DOMAIN q : q[i] # None => q[i] \in Accepted
      /\ \A i, j \in DOMAIN q : q[i] # None /\ q[i] = q[j] => i = j
      /\ Len(q) <= ACCEPTMBOX
  <2>1. Accepted \subseteq Conns  BY DEF Accepted
  <2> QED BY <2>1, <1>1, <1>3 DEF TInv, Waiting
<1>9. ASSUME NEW d \in Conns
      PROVE  Good(pcb[d], conn[d], echoed[d], rcvd[d], taken[d], Place(d), buf)'
  <2>1. Good(pcb[d], conn[d], echoed[d], rcvd[d], taken[d], "none", buf)
    BY <1>3 DEF TInv, Connections, Place
  <2>2. CASE d # h
    <3>1. Place(d)' = "none"  BY <2>2, <1>1 DEF Place
    <3> QED BY <2>1, <3>1, <1>2
  <2>3. CASE d = h
    <3>1. Place(d)' = "recv"  BY <2>3, <1>1, <1>3 DEF Place
    <3>2. conn[d].alloc  BY <2>3, <1>1, <1>3, <1>4, <1>8 DEF Accepted
    <3>3. rcvd[d] \in Nat /\ taken[d] \in Nat  BY DEF TInv, Tables
    <3>4. Good(pcb[d], conn[d], echoed[d], rcvd[d], taken[d], "recv", buf)
      BY <2>1, <3>2, <3>3, IdleGood
    <3> QED BY <3>1, <3>4, <1>2
  <2> QED BY <2>2, <2>3
<1>10. Connections'  BY <1>9 DEF Connections
<1>11. Accepted' = Accepted /\ Used' = Used  BY <1>2 DEF Accepted, Used
<1>12. Waiting'
  <2>1. ASSUME NEW i \in DOMAIN a
        PROVE  i + 1 \in DOMAIN q /\ a[i] = q[i + 1] /\ i + 1 # 1
    BY <1>4
  <2>2. Len(a) <= ACCEPTMBOX  BY <1>4, <1>8, Sizes
  <2>3. ASSUME NEW c \in Accepted PROVE c = h \/ \E i \in DOMAIN a : a[i] = c
    <3>1. PICK i \in DOMAIN q : q[i] = c  BY <1>8
    <3>2. CASE i = 1  BY <3>1, <3>2, <1>1
    <3>3. CASE i # 1
      <4>1. i - 1 \in DOMAIN a /\ a[i - 1] = q[i]  BY <3>3, <1>4
      <4> QED BY <4>1, <3>1
    <3> QED BY <3>2, <3>3
  <2>4. \A i \in DOMAIN a : a[i] # None => a[i] # h /\ a[i] \in Accepted
    BY <2>1, <1>1, <1>4, <1>8
  <2>5. ASSUME NEW i \in DOMAIN a, NEW j \in DOMAIN a, a[i] # None, a[i] = a[j]
        PROVE  i = j
    <3>1. i + 1 = j + 1  BY <2>1, <2>5, <1>8
    <3>2. i \in Nat /\ j \in Nat  BY <1>4
    <3> QED BY <3>1, <3>2
  <2> QED BY <2>2, <2>3, <2>4, <2>5, <1>1, <1>11 DEF Waiting
<1>13. Pools'  BY <1>11 DEF TInv, Pools
<1> QED BY <1>5, <1>7, <1>10, <1>12, <1>13 DEF TInv

-------------------------------------------------------------------------------
(* The theorems.                                                           *)

LEMMA InitGood ==
    ASSUME NEW p, p = [Gone EXCEPT !.state = "none"]
    PROVE  p \in PcbRecs /\ p.state = "none" /\ Good(p, Free, <<>>, 0, 0, "none", NULL)
<1>1. PICK g \in PcbRecs : g = Gone  BY GoneShape
<1>2. /\ g.state = "gone" /\ ~g.recv /\ ~g.arg /\ g.refused = NULL /\ ~g.finflag /\ ~g.closepend
  BY <1>1, GoneShape
<1>3. ~g.rxclosed  BY <1>1 DEF Gone, tcp_alloc
<1>4. PICK s \in PcbRecs : s = [g EXCEPT !.state = "none"]
  <2>1. "none" \in Live \cup {"none", "gone"}  OBVIOUS
  <2> QED BY <2>1 DEF PcbRecs
<1>5. /\ s.state = "none" /\ ~s.recv /\ ~s.arg /\ s.refused = NULL /\ ~s.finflag /\ ~s.closepend
      /\ ~s.rxclosed
  BY <1>2, <1>3, <1>4 DEF PcbRecs
<1>6. PICK n \in Netconns : n = Free  BY Records
<1>7. /\ ~n.alloc /\ ~n.pcb /\ n.state = "none" /\ n.mbox = <<>> /\ ~n.valid /\ ~n.msg /\ n.sem = 0
  BY <1>6 DEF Free
<1>8. PICK e \in Seq(Nat) : e = <<>>  BY EmptySeq
<1>9. Shaped(s, n, e)
  <2>1. Len(n.mbox) <= RECVMBOX /\ DOMAIN n.mbox = {}  BY <1>7, Sizes
  <2> QED BY <2>1, <1>5, NullChain DEF Shaped
<1>10. Owned(s, n)  BY <1>5, <1>6, <1>7 DEF Owned
<1>11. Mail(s, n, 0, 0) /\ Read(s, 0, 0)  BY <1>5, <1>7 DEF Mail, Read
<1>12. Window(s, 0, 0, "none", NULL) /\ Fin(s, 0, 0, "none", NULL)  BY <1>5 DEF Window, Fin
<1>13. Signal(n, "none")  BY <1>7 DEF Signal
<1>14. Echo(n, e, 0, 0, "none", NULL)  BY <1>7, <1>8 DEF Echo
<1>15. Good(s, n, e, 0, 0, "none", NULL)  BY <1>9, <1>10, <1>11, <1>12, <1>13, <1>14 DEF Good
<1>16. p = s  BY <1>1, <1>4
<1> QED BY <1>5, <1>6, <1>8, <1>15, <1>16

LEMMA InitInv ==
    ASSUME Init
    PROVE  TInv
<1>1. PICK p : p = [Gone EXCEPT !.state = "none"]  OBVIOUS
<1>2. p \in PcbRecs /\ p.state = "none" /\ Good(p, Free, <<>>, 0, 0, "none", NULL)
  BY <1>1, InitGood
<1>3. /\ pc = "new" /\ cur = None /\ buf = NULL /\ listening = FALSE /\ acceptmbox = <<>>
      /\ pcb = [c \in Conns |-> p] /\ conn = [c \in Conns |-> Free]
      /\ rcvd = [c \in Conns |-> 0] /\ taken = [c \in Conns |-> 0]
      /\ echoed = [c \in Conns |-> <<>>]
  BY <1>1 DEF Init
<1>4. Tables  BY <1>2, <1>3, Records DEF Tables
<1>5. Task  BY <1>3, NullChain DEF Task, Places, Serving
<1>6. ASSUME NEW c \in Conns
      PROVE  Good(pcb[c], conn[c], echoed[c], rcvd[c], taken[c], Place(c), buf)
  <2>1. Place(c) = "none"  BY <1>3, SizesAssumption DEF Place
  <2>2. /\ pcb[c] = p /\ conn[c] = Free /\ echoed[c] = <<>> /\ rcvd[c] = 0 /\ taken[c] = 0
        /\ buf = NULL
    BY <1>3
  <2> QED BY <2>1, <2>2, <1>2
<1>7. Connections  BY <1>6 DEF Connections
<1>8. Accepted = {} /\ Used = {}  BY <1>2, <1>3 DEF Accepted, Used, Live, Free
<1>9. Waiting  BY <1>3, <1>8, Sizes DEF Waiting
<1>10. Pools  BY <1>8, FS_EmptySet, Sizes DEF Pools
<1> QED BY <1>4, <1>5, <1>7, <1>9, <1>10 DEF TInv

LEMMA StutterInv ==
    ASSUME TInv, UNCHANGED vars
    PROVE  TInv'
<1>1. /\ pc' = pc /\ cur' = cur /\ buf' = buf /\ listening' = listening
      /\ acceptmbox' = acceptmbox /\ pcb' = pcb /\ conn' = conn /\ rcvd' = rcvd
      /\ taken' = taken /\ echoed' = echoed
  BY DEF vars
<1>2. Connections'  BY <1>1 DEF TInv, Connections, Place
<1>3. Tables' /\ Task'  BY <1>1 DEF TInv, Tables, Task
<1>4. Accepted' = Accepted /\ Used' = Used  BY <1>1 DEF Accepted, Used
<1>5. Waiting'  BY <1>1, <1>4 DEF TInv, Waiting
<1>6. Pools'  BY <1>4 DEF TInv, Pools
<1> QED BY <1>2, <1>3, <1>5, <1>6 DEF TInv

LEMMA ServerInv ==
    ASSUME TInv, Server
    PROVE  TInv'
BY IdleInv, AcceptInv, RecvInv, FetchInv, DoRecvInv, HandleFinInv, ShutRdInv, WriteInv, SemInv,
   CloseInv, DeleteInv
   DEF Server

LEMMA NextInv ==
    ASSUME TInv, [Next]_vars
    PROVE  TInv'
<1>1. CASE Server  BY <1>1, ServerInv
<1>2. ASSUME NEW c \in Conns,
             \/ Syn(c) \/ Established(c) \/ Ack(c) \/ Reset(c) \/ Abort(c) \/ Expire(c)
             \/ tcp_fasttmr(c)
      PROVE  TInv'
  BY <1>2, SynInv, EstablishedInv, AckInv, ResetInv, AbortInv, ExpireInv, FasttmrInv
<1>3. ASSUME NEW c \in Conns, NEW cut \in Chains \cup {<<>>}, NEW fin \in BOOLEAN,
             Segment(c, cut, fin)
      PROVE  TInv'
  BY <1>3, SegmentInv
<1>4. ASSUME NEW c \in Conns, NEW mem \in BOOLEAN, NEW route \in BOOLEAN, poll_tcp(c, mem, route)
      PROVE  TInv'
  BY <1>4, PollInv
<1>5. CASE UNCHANGED vars  BY <1>5, StutterInv
<1> QED BY <1>1, <1>2, <1>3, <1>4, <1>5 DEF Next

\* The invariant holds in every reachable state: every callback of the stack and
\* every step of the server task preserves it.
THEOREM Invariant == Spec => []TInv
<1>1. Init => TInv  BY InitInv
<1>2. TInv /\ [Next]_vars => TInv'  BY NextInv
<1> QED BY <1>1, <1>2, PTL DEF Spec

\* The mailboxes, windows, send buffers and pools keep their bounds, whatever their
\* sizes: sys_mbox_trypost, tcp_recved, lwip_netconn_do_writemore, tcp_alloc and
\* accept_function never go beyond what there is.
THEOREM TypeCorrect == Spec => []TypeOK
<1>1. TInv => TypeOK
  <2>1. SUFFICES ASSUME TInv PROVE TypeOK  OBVIOUS
  <2>2. /\ pc \in Places /\ cur \in Conns \cup {None} /\ buf \in Pbufs /\ listening \in BOOLEAN
        /\ acceptmbox \in Seq(Conns \cup {None}) /\ Len(acceptmbox) <= ACCEPTMBOX
        /\ rcvd \in [Conns -> Nat] /\ taken \in [Conns -> Nat]
    BY <2>1 DEF TInv, Task, Waiting, Tables
  <2>3. ASSUME NEW c \in Conns
        PROVE  /\ pcb[c].state \in Live \cup {"none", "gone"}
               /\ pcb[c].refused \in Pbufs
               /\ pcb[c].wnd \in 0 .. WND /\ pcb[c].unacked \in 0 .. SND_BUF
               /\ conn[c].state \in {"none", "write"}
               /\ Len(conn[c].mbox) <= RECVMBOX /\ conn[c].sem \in {0, 1}
    <3>1. Good(pcb[c], conn[c], echoed[c], rcvd[c], taken[c], Place(c), buf)
      BY <2>1 DEF TInv, Connections
    <3>2. pcb[c] \in PcbRecs /\ conn[c] \in Netconns  BY <2>1 DEF TInv, Tables
    <3>3. Len(conn[c].mbox) <= RECVMBOX  BY <3>1 DEF Good, Shaped
    <3>4. conn[c].sem \in {0, 1}  BY <3>1 DEF Good, Signal
    <3> QED BY <3>2, <3>3, <3>4 DEF PcbRecs, Netconns
  <2>4. Cardinality(Used) <= NUM_PCB /\ Cardinality({c \in Conns : conn[c].alloc}) < NUM_NETCONN
    BY <2>1 DEF TInv, Pools, Accepted
  <2> QED BY <2>2, <2>3, <2>4 DEF TypeOK, Places, Serving
<1> QED BY <1>1, Invariant, PTL

\* No callback reaches a netconn that was freed, no API call a pcb that was, and no
\* netconn is lost between accept_function, the acceptmbox and netconn_delete.
THEOREM NetconnOwnedAlways == Spec => []NetconnOwned
<1>1. TInv => NetconnOwned
  <2>1. SUFFICES ASSUME TInv, NEW c \in Conns
        PROVE  /\ pcb[c].arg <=> conn[c].pcb
               /\ conn[c].pcb => conn[c].alloc /\ pcb[c].state \in {"established", "close_wait"}
               /\ conn[c].alloc <=> c = cur \/ \E i \in DOMAIN acceptmbox : acceptmbox[i] = c
    BY DEF NetconnOwned
  <2>2. Good(pcb[c], conn[c], echoed[c], rcvd[c], taken[c], Place(c), buf)
    BY <2>1 DEF TInv, Connections
  <2>3. /\ pcb[c].arg <=> conn[c].pcb
        /\ conn[c].pcb => conn[c].alloc /\ pcb[c].state \in {"established", "close_wait"}
    BY <2>2 DEF Good, Owned
  <2>4. ASSUME conn[c].alloc
        PROVE  c = cur \/ \E i \in DOMAIN acceptmbox : acceptmbox[i] = c
    <3>1. c \in Accepted  BY <2>4 DEF Accepted
    <3> QED BY <3>1, <2>1 DEF TInv, Waiting
  <2>5. ASSUME c = cur PROVE conn[c].alloc  BY <2>1, <2>5, NotServed
  <2>6. ASSUME NEW i \in DOMAIN acceptmbox, acceptmbox[i] = c PROVE conn[c].alloc
    <3>1. c # None  BY SizesAssumption
    <3>2. c \in Accepted  BY <3>1, <2>1, <2>6 DEF TInv, Waiting
    <3> QED BY <3>2 DEF Accepted
  <2> QED BY <2>3, <2>4, <2>5, <2>6
<1> QED BY <1>1, Invariant, PTL

\* op_completed is given once for each write that waits and never otherwise, and the
\* server never waits for a message of a connection that died between the test of
\* netconn_recv_data and its fetch.
THEOREM ServerWokenAlways == Spec => []ServerWoken
<1>1. TInv => ServerWoken
  <2>1. SUFFICES ASSUME TInv PROVE ServerWoken  OBVIOUS
  <2>2. ASSUME NEW c \in Conns PROVE SignalPending(c)
    <3>1. Good(pcb[c], conn[c], echoed[c], rcvd[c], taken[c], Place(c), buf)
      BY <2>1 DEF TInv, Connections
    <3>2. Signal(conn[c], Place(c))  BY <3>1 DEF Good
    <3>3. Place(c) = "sem" <=> pc = "sem" /\ c = cur  BY DEF Place
    <3> QED BY <3>2, <3>3 DEF Signal, SignalPending
  <2>3. ASSUME pc = "fetch", ~conn[cur].pcb PROVE conn[cur].mbox # <<>>
    <3>1. cur \in Conns  BY <2>1, <2>3 DEF TInv, Task, Serving
    <3>2. Good(pcb[cur], conn[cur], echoed[cur], rcvd[cur], taken[cur], "fetch", buf)
      BY <2>1, <2>3, <3>1 DEF TInv, Connections, Place
    <3> QED BY <2>3, <3>2 DEF Good, Signal
  <2> QED BY <2>2, <2>3 DEF ServerWoken
<1> QED BY <1>1, Invariant, PTL

\* The client gets its own bytes back, each once and in order: whatever recv_tcp
\* refuses, however the segments are cut into pbufs, and wherever a write stops.
THEOREM EchoInOrderAlways == Spec => []EchoInOrder
<1>1. TInv => EchoInOrder
  <2>1. SUFFICES ASSUME TInv, NEW c \in Conns
        PROVE  /\ \A i \in DOMAIN echoed[c] : echoed[c][i] = i
               /\ Len(echoed[c]) <= taken[c] /\ taken[c] <= rcvd[c]
    BY DEF EchoInOrder
  <2>2. Good(pcb[c], conn[c], echoed[c], rcvd[c], taken[c], Place(c), buf)
    BY <2>1 DEF TInv, Connections
  <2> QED BY <2>2 DEF Good, Echo
<1> QED BY <1>1, Invariant, PTL

\* A connection the server ends with a FIN had all its data read: what was left
\* unread made tcp_close_shutdown send a RST.
THEOREM UnreadMeansResetAlways == Spec => []UnreadMeansReset
<1>1. TInv => UnreadMeansReset
  <2>1. SUFFICES ASSUME TInv, NEW c \in Conns,
                        pcb[c].state \in {"fin_wait", "last_ack", "time_wait"}
        PROVE  taken[c] = rcvd[c]
    BY DEF UnreadMeansReset
  <2>2. Good(pcb[c], conn[c], echoed[c], rcvd[c], taken[c], Place(c), buf)
    BY <2>1 DEF TInv, Connections
  <2> QED BY <2>1, <2>2 DEF Good, Read
<1> QED BY <1>1, Invariant, PTL

=============================================================================
