------------------------- MODULE AsyncUploadProofs -------------------------
(***************************************************************************)
(* Proofs about AsyncUpload, for any file and any timing of the handlers.  *)
(* Inv holds whatever the network does; OrderInv, and that the server      *)
(* implements FileTransfer, for datagrams that arrive in order (InOrder).  *)
(***************************************************************************)
EXTENDS AsyncUpload, PutLemmas

\* A step of FileTransfer, or one it does not see.
FTStep == [FT!FTNext]_FT!ftVars

\* What is shown of every step.
Step == Inv' /\ (InOrder /\ OrderInv => OrderInv' /\ FTStep)

-----------------------------------------------------------------------------
(* The queue of handlers.                                                  *)

\* The handler of the one operation is taken off: only timers are left.
LEMMA OpTaken ==
    ASSUME Inv, ready # << >>, Head(ready).op # "timer"
    PROVE  /\ Tail(ready) \in Seq(Handler) /\ Idle(Tail(ready))
           /\ srv.op = "none" /\ OpOK(srv, Head(ready).op)
           /\ Head(ready) \in Handler
           /\ Head(ready).op = "data" /\ ~Head(ready).ec => Head(ready).pkt \in sent
<1>1. /\ ready \in Seq(Handler) /\ Head(ready) = ready[1] /\ 1 \in DOMAIN ready
      /\ Tail(ready) \in Seq(Handler) /\ Head(ready) \in Handler
  BY DEF Inv, TypeOK
<1>2. ReadyOK(srv, ready, sent)
  BY DEF Inv
<1>3. srv.op = "none"
  BY <1>1, <1>2 DEF ReadyOK, Idle
<1>4. /\ OpOK(srv, Head(ready).op)
      /\ \A j \in DOMAIN ready : ready[j].op # "timer" => j = 1
      /\ Head(ready).op = "data" /\ ~Head(ready).ec => Head(ready).pkt \in sent
  BY <1>1, <1>2 DEF ReadyOK
<1>5. Idle(Tail(ready))
  <2> SUFFICES ASSUME NEW i \in DOMAIN Tail(ready)
               PROVE  Tail(ready)[i].op = "timer"
    BY DEF Idle
  <2>1. i + 1 \in DOMAIN ready /\ Tail(ready)[i] = ready[i + 1] /\ i + 1 # 1
    BY <1>1
  <2> QED
    BY <1>4, <2>1
<1> QED
  BY <1>1, <1>3, <1>4, <1>5

\* A timer's handler is taken off.
LEMMA TimerTaken ==
    ASSUME Inv, ready # << >>, Head(ready).op = "timer"
    PROVE  /\ Tail(ready) \in Seq(Handler)
           /\ ReadyOK(srv, Tail(ready), sent)
           /\ \A i \in DOMAIN Tail(ready) : \E j \in DOMAIN ready : Tail(ready)[i] = ready[j]
<1>1. /\ ready \in Seq(Handler) /\ Tail(ready) \in Seq(Handler)
  BY DEF Inv, TypeOK
<1>2. ReadyOK(srv, ready, sent)
  BY DEF Inv
<1>3. \A i \in DOMAIN Tail(ready) : i + 1 \in DOMAIN ready /\ Tail(ready)[i] = ready[i + 1]
                                    /\ i \in Nat
  BY <1>1
<1> DEFINE t == Tail(ready)
<1> HIDE DEF t
<1>4. srv.op # "none" => OpOK(srv, srv.op) /\ Idle(t)
  BY <1>2, <1>3 DEF ReadyOK, Idle, t
<1>5. ASSUME NEW i \in DOMAIN t, t[i].op # "timer"
      PROVE  /\ OpOK(srv, t[i].op)
             /\ \A j \in DOMAIN t : t[j].op # "timer" => i = j
             /\ t[i].op = "data" /\ ~t[i].ec => t[i].pkt \in sent
  <2>1. i + 1 \in DOMAIN ready /\ t[i] = ready[i + 1] /\ i \in Nat
    BY <1>3 DEF t
  <2>2. /\ OpOK(srv, t[i].op)
        /\ t[i].op = "data" /\ ~t[i].ec => t[i].pkt \in sent
    BY <1>2, <1>5, <2>1 DEF ReadyOK
  <2>3. ASSUME NEW j \in DOMAIN t, t[j].op # "timer"
        PROVE  i = j
    <3>1. j + 1 \in DOMAIN ready /\ t[j] = ready[j + 1] /\ j \in Nat
      BY <1>3 DEF t
    <3>2. i + 1 = j + 1
      BY <1>2, <1>5, <2>1, <2>3, <3>1 DEF ReadyOK
    <3> QED
      BY <2>1, <3>1, <3>2
  <2> QED
    BY <2>2, <2>3
<1>6. ReadyOK(srv, t, sent)
  BY <1>4, <1>5 DEF ReadyOK
<1> QED
  BY <1>1, <1>3, <1>6 DEF t

\* The outstanding operation completes: its handler joins those of the timer.
LEMMA OpDone ==
    ASSUME NEW q \in Seq(Handler), Idle(q), NEW h \in Handler, h.op # "timer",
           NEW st, st.op = "none", OpOK(st, h.op), NEW net,
           h.op = "data" /\ ~h.ec => h.pkt \in net
    PROVE  /\ Append(q, h) \in Seq(Handler)
           /\ ReadyOK(st, Append(q, h), net)
           /\ \A i \in DOMAIN Append(q, h) :
                 Append(q, h)[i].op # "timer" => Append(q, h)[i] = h
<1> DEFINE r == Append(q, h)
<1>1. /\ r \in Seq(Handler) /\ DOMAIN r = 1 .. Len(q) + 1 /\ Len(q) \in Nat
      /\ \A i \in 1 .. Len(q) : r[i] = q[i] /\ i \in DOMAIN q
      /\ r[Len(q) + 1] = h
  OBVIOUS
<1> HIDE DEF r
<1>2. \A i \in DOMAIN r : r[i].op # "timer" => i = Len(q) + 1
  BY <1>1 DEF Idle
<1>3. ReadyOK(st, r, net)
  BY <1>1, <1>2 DEF ReadyOK
<1> QED
  BY <1>1, <1>2, <1>3 DEF r

\* A timer expires: its handler joins the others.
LEMMA TimerDone ==
    ASSUME NEW q \in Seq(Handler), NEW h \in Handler, h.op = "timer",
           NEW st, NEW net, ReadyOK(st, q, net)
    PROVE  /\ Append(q, h) \in Seq(Handler)
           /\ ReadyOK(st, Append(q, h), net)
           /\ \A i \in DOMAIN Append(q, h) : Append(q, h)[i].op # "timer" =>
                 \E j \in DOMAIN q : Append(q, h)[i] = q[j]
<1> DEFINE r == Append(q, h)
<1>1. /\ r \in Seq(Handler) /\ DOMAIN r = 1 .. Len(q) + 1 /\ Len(q) \in Nat
      /\ \A i \in 1 .. Len(q) : r[i] = q[i] /\ i \in DOMAIN q
      /\ r[Len(q) + 1] = h
  OBVIOUS
<1> HIDE DEF r
<1>2. \A i \in DOMAIN r : r[i].op # "timer" => i \in DOMAIN q /\ r[i] = q[i]
  BY <1>1
<1>3. st.op # "none" => Idle(r)
  BY <1>1, <1>2 DEF ReadyOK, Idle
<1>4. ReadyOK(st, r, net)
  BY <1>2, <1>3 DEF ReadyOK
<1> QED
  BY <1>1, <1>2, <1>4 DEF r

\* No operation, or one that suits the state, next to timers alone.
LEMMA NewOp ==
    ASSUME NEW q, Idle(q), NEW st, st.op = "none" \/ OpOK(st, st.op), NEW net
    PROVE  ReadyOK(st, q, net)
BY DEF ReadyOK, Idle

\* What has been received stays sent, and what OpOK looks at is the same.
LEMMA SameOps ==
    ASSUME NEW q, NEW st, NEW net, ReadyOK(st, q, net),
           NEW u, u.op = st.op, u.block = st.block, u.renamed = st.renamed,
           NEW more, net \subseteq more
    PROVE  ReadyOK(u, q, more)
BY DEF ReadyOK, OpOK

\* An error is on its way only in the handler of its send.
LEMMA NotFailing ==
    ASSUME Inv, ready # << >>, Head(ready).op \notin {"timer", "nak"}
    PROVE  ~Failing
<1>1. srv.op = "none" /\ Idle(Tail(ready)) /\ ready \in Seq(Handler)
  BY OpTaken DEF Inv, TypeOK
<1>2. ASSUME NEW i \in DOMAIN ready
      PROVE  ready[i].op # "nak"
  <2>1. CASE i = 1
    BY <1>1, <2>1
  <2>2. CASE i # 1
    <3>1. i - 1 \in DOMAIN Tail(ready) /\ Tail(ready)[i - 1] = ready[i]
      BY <1>1, <2>2
    <3> QED
      BY <1>1, <3>1 DEF Idle
  <2> QED
    BY <2>1, <2>2
<1> QED
  BY <1>1, <1>2 DEF Failing

-----------------------------------------------------------------------------
(* What a step means to FileTransfer.                                      *)

\* Nothing is stored; a transfer that has failed does not recover.
LEMMA KeepsFile ==
    ASSUME Running, Stored' = Stored, srv'.renamed = srv.renamed,
           srv'.buf.out = srv.buf.out, srv'.buf.lost = srv.buf.lost,
           Failing => Failing' \/ ~Running'
    PROVE  FTStep
<1>1. UNCHANGED <<Stored, srv.buf.out, srv.buf.lost>>
  OBVIOUS
<1>2. Outcome' = Outcome \/ (Outcome = "active" /\ Outcome' = "failed")
  BY DEF Outcome
<1>3. CASE Outcome' = Outcome
  BY <1>1, <1>3 DEF FTStep, FT!ftVars
<1>4. CASE Outcome = "active" /\ Outcome' = "failed"
  BY <1>1, <1>4 DEF FTStep, FT!FTNext, FT!Fail
<1> QED
  BY <1>2, <1>3, <1>4

\* Block k is accepted: it is stored, or its write fails, or it is empty.
LEMMA StoresBlock ==
    ASSUME NEW k \in 1 .. N, NEW ok \in BOOLEAN, srv.buf.lost \in BOOLEAN,
           Stored = k - 1, Stored' = k, Outcome = "active",
           srv'.buf.out = IF Size(k) > 0 /\ ok THEN Append(srv.buf.out, k) ELSE srv.buf.out,
           srv'.buf.lost = (srv.buf.lost \/ (Size(k) > 0 /\ ~ok)),
           Outcome' = IF k = N THEN "ok" ELSE "active"
    PROVE  FTStep
<1>1. Stored < N /\ Stored' = Stored + 1
  BY SizesAssumption
<1>2. Size(k) \in Nat
  BY SizeType, SizesAssumption
<1>3. FT!Store(k)
  <2>1. FT!Size(k) = Size(k)
    BY DEF FT!Size, Size
  <2>2. CASE Size(k) > 0 /\ ok
    <3>1. srv'.buf.out = Append(srv.buf.out, k) /\ srv'.buf.lost = srv.buf.lost
      BY <2>2, Zenon
    <3> QED
      BY <2>1, <2>2, <3>1 DEF FT!Store
  <2>3. CASE Size(k) > 0 /\ ~ok
    <3>1. srv'.buf.out = srv.buf.out /\ srv'.buf.lost = TRUE
      BY <2>3, Zenon
    <3> QED
      BY <2>1, <2>3, <3>1 DEF FT!Store
  <2>4. CASE ~(Size(k) > 0)
    <3>1. srv'.buf.out = srv.buf.out /\ srv'.buf.lost = srv.buf.lost
      BY <2>4, Zenon
    <3> QED
      BY <1>2, <2>1, <2>4, <3>1 DEF FT!Store
  <2> QED
    BY <2>2, <2>3, <2>4
<1>4. FT!Accept
  BY <1>1, <1>3 DEF FT!Accept
<1> QED
  BY <1>4 DEF FTStep, FT!FTNext

-----------------------------------------------------------------------------
(* What a step of the server to state st shows.                            *)

\* What may have been sent by the server in state st.
Sends(st) == \/ UNCHANGED sent
             \/ \E p \in Packet : /\ sent' = sent \cup {p} /\ p.type # "DATA"
                                  /\ p.type = "ACK" => p.seq <= Kept(st)

\* The packet of a receive that completed is the last one received.
SeqOK(st, q) == \A i \in DOMAIN q : q[i].op = "data" /\ ~q[i].ec => q[i].pkt.seq = st.high

\* The parts of the invariants put together.
LEMMA ServerMoves ==
    ASSUME Inv, NEW st \in SrvState, srv' = st, SrvOK(st), UNCHANGED client,
           ready' \in Seq(Handler), ReadyOK(st, ready', sent'), Sends(st),
           InOrder /\ OrderInv => /\ OrderOK(st) /\ Kept(st) >= Stored
                                  /\ SeqOK(st, ready') /\ FTStep
    PROVE  Step
<1>1. sent \subseteq sent' /\ sent' \subseteq Packet
  BY DEF Sends, Inv, TypeOK
<1>2. TypeOK' /\ PutInv'
  BY <1>1 DEF Inv, TypeOK, PutInv
<1>3. \A p \in sent' : DataOK(p)'
  BY DEF Inv, Sends, DataOK
<1>4. SrvOK(srv)' /\ ReadyOK(srv, ready, sent)'
  BY DEF SrvOK, ReadyOK, OpOK, Idle
<1>5. Inv'
  BY <1>2, <1>3, <1>4 DEF Inv
<1>6. ASSUME InOrder, OrderInv
      PROVE  OrderInv'
  <2>1. Kept(st) \in Nat /\ Stored \in Nat /\ Stored' = Kept(st) /\ Acked' = Acked
        /\ Acked \in Nat
    BY DEF Inv, TypeOK, SrvState, Stored, Kept, Acked, ClientState
  <2>2. \A p \in sent' : p.type = "ACK" => p.seq <= Stored'
    <3>1. \A p \in sent : p.type = "ACK" => p.seq <= Stored /\ p.seq \in Nat
      BY <1>6 DEF OrderInv, Inv, TypeOK, Packet
    <3>2. \A p \in sent : p.type = "ACK" => p.seq <= Kept(st)
      BY <1>6, <2>1, <3>1
    <3> QED
      BY <2>1, <3>2 DEF Sends
  <2>3. Acked' <= Stored'
    BY <1>6, <2>1 DEF OrderInv
  <2>4. OrderOK(srv)'
    BY <1>6 DEF OrderOK, Kept
  <2>5. SeqOK(st, ready')
    BY <1>6
  <2> QED
    BY <2>2, <2>3, <2>4, <2>5 DEF OrderInv, SeqOK
<1> QED
  BY <1>5, <1>6 DEF Step

\* A step that stores nothing.
LEMMA ServerKeeps ==
    ASSUME Inv, Running, NEW st \in SrvState, srv' = st, SrvOK(st), UNCHANGED client,
           Failing => Failing' \/ ~Running',
           ready' \in Seq(Handler), ReadyOK(st, ready', sent'), Sends(st),
           st.block = srv.block, st.renamed = srv.renamed,
           st.buf.out = srv.buf.out, st.buf.lost = srv.buf.lost,
           InOrder /\ OrderInv => srv.block <= st.high + 1 /\ SeqOK(st, ready')
    PROVE  Step
<1>1. Kept(st) = Stored /\ Stored \in Nat
  BY DEF Stored, Kept, Inv, TypeOK, SrvState
<1>2. ASSUME InOrder, OrderInv
      PROVE  OrderOK(st) /\ Kept(st) >= Stored
  <2>1. srv.block <= st.high + 1
    BY <1>2
  <2> QED
    BY <1>1, <1>2, <2>1 DEF OrderInv, OrderOK, Stored
<1>3. FTStep
  <2>1. Stored' = Stored
    BY <1>1 DEF Stored, Kept
  <2> QED
    BY <2>1, KeepsFile
<1> QED
  BY <1>2, <1>3, ServerMoves

\* The same, with the queue down to timers.
LEMMA ServerIdles ==
    ASSUME Inv, Running, ready # << >>, Head(ready).op # "timer", ready' = Tail(ready),
           NEW st \in SrvState, srv' = st, SrvOK(st), UNCHANGED client,
           st.op = "none" \/ OpOK(st, st.op), Sends(st),
           st.block = srv.block, st.renamed = srv.renamed, st.high = srv.high,
           st.buf.out = srv.buf.out, st.buf.lost = srv.buf.lost,
           Head(ready).op = "nak" => st.result # "running"
    PROVE  Step
<1>1. ready' \in Seq(Handler) /\ Idle(ready')
  BY OpTaken
<1>2. ReadyOK(st, ready', sent')
  BY <1>1, NewOp
<1>3. SeqOK(st, ready')
  BY <1>1 DEF SeqOK, Idle
<1>4. OrderInv => srv.block <= st.high + 1
  BY DEF OrderInv, OrderOK
<1>5. Failing => ~Running'
  BY NotFailing DEF Running
<1> QED
  BY <1>1, <1>2, <1>3, <1>4, <1>5, ServerKeeps

-----------------------------------------------------------------------------
(* The start, and the steps of the client.                                 *)

\* Nothing is received or sent at the start.
LEMMA InitInv == Init => Inv /\ OrderInv
<1> SUFFICES ASSUME Init PROVE Inv /\ OrderInv
  OBVIOUS
<1>1. w_init \in Buffers /\ r_init \in Buffers /\ ReceiverBuf(w_init)
      /\ w_init.out = FilePrefix(0)
  BY InitBuffers, PrefixOfNothing DEF ReceiverBuf
<1>2. client \in ClientState
  BY <1>1, SizesAssumption DEF Init, ClientInit, ClientState, Address
<1>3. srv \in SrvState
  BY <1>1, AsyncTimerAssumption DEF Init, SrvState
<1>4. ready \in Seq(Handler) /\ DOMAIN ready = {}
  BY DEF Init
<1>5. TypeOK
  BY <1>2, <1>3, <1>4 DEF Init, TypeOK
<1>6. PutInv
  BY <1>2, SizesAssumption DEF Init, ClientInit, PutInv
<1>7. /\ srv.op = "request" /\ srv.block = 0 /\ ~srv.renamed /\ srv.buf = w_init
      /\ srv.high = 0 /\ sent = {} /\ client.block = 0 /\ client.pc = "idle"
  BY DEF Init, ClientInit
<1>8. SrvOK(srv) /\ ReadyOK(srv, ready, sent)
  BY <1>1, <1>4, <1>7 DEF SrvOK, ReadyOK, OpOK, Idle
<1>9. OrderInv
  BY <1>1, <1>4, <1>7, SizesAssumption DEF OrderInv, OrderOK, Stored, Kept, Acked
<1> QED
  BY <1>5, <1>6, <1>7, <1>8, <1>9 DEF Inv

\* The client only counts a block whose ACK the server has sent.
LEMMA ClientInv ==
    ASSUME Inv, ClientNext, UNCHANGED <<srv, ready>>
    PROVE  Step
<1>1. PutStep
  BY PutKeeps DEF Inv, TypeOK
<1>2. TypeOK' /\ PutInv' /\ \A p \in sent' : DataOK(p)'
  BY <1>1 DEF Inv, TypeOK, PutStep, PutInv
<1>3. SrvOK(srv)'
  BY DEF Inv, SrvOK
<1>4. ReadyOK(srv, ready, sent')
  BY <1>1, SameOps DEF Inv, PutStep
<1>5. ReadyOK(srv, ready, sent)'
  BY <1>4 DEF ReadyOK, OpOK, Idle
<1>6. Inv'
  BY <1>2, <1>3, <1>5 DEF Inv
<1>7. ASSUME InOrder, OrderInv
      PROVE  OrderInv'
  <2>1. Stored' = Stored
    BY DEF Stored, Kept
  <2>2. \A p \in sent' : p.type = "ACK" => p.seq <= Stored'
    BY <1>1, <1>7, <2>1 DEF PutStep, OrderInv
  <2>3. Acked' <= Stored'
    BY <1>1, <1>7, <2>1 DEF PutStep, OrderInv
  <2>4. OrderOK(srv)'
    BY <1>7 DEF OrderInv, OrderOK, Kept
  <2> QED
    BY <1>7, <2>2, <2>3, <2>4 DEF OrderInv
<1>8. FTStep
  BY DEF FTStep, FT!ftVars, Stored, Kept, Outcome, Running, Failing
<1> QED
  BY <1>6, <1>7, <1>8 DEF Step

-----------------------------------------------------------------------------
(* Outstanding operations complete.                                        *)

\* NoPacket is a packet in all but its type; it is not a DATA packet.
LEMMA Completed ==
    ASSUME Inv, srv.op # "none", NEW ec \in BOOLEAN, NEW p \in Packet \cup {NoPacket}
    PROVE  Completion(ec, p) \in Handler
BY DEF Completion, Handler, Inv, TypeOK, SrvState

\* The state behind an operation that has completed.
LEMMA OpEnds ==
    ASSUME Inv, Running, srv.op # "none", NEW k \in Nat,
           NEW h \in Handler, h.op = srv.op, ready' = Append(ready, h), UNCHANGED client,
           srv' = [srv EXCEPT !.op = "none", !.high = k], Sends(srv),
           h.op = "data" /\ ~h.ec => h.pkt \in sent',
           InOrder /\ OrderInv => /\ srv.block <= k + 1
                                  /\ h.op = "data" /\ ~h.ec => h.pkt.seq = k
    PROVE  Step
<1> DEFINE st == [srv EXCEPT !.op = "none", !.high = k]
<1>1. /\ st \in SrvState /\ st.op = "none" /\ st.high = k /\ st.block = srv.block
      /\ st.renamed = srv.renamed /\ st.buf = srv.buf /\ st.named = srv.named
      /\ st.last = srv.last /\ st.result = srv.result
  BY DEF Inv, TypeOK, SrvState
<1>2. srv' = st
  OBVIOUS
<1> HIDE DEF st
<1>3. SrvOK(st) /\ Sends(st)
  BY <1>1 DEF Inv, SrvOK, Sends, Kept
<1>4. ready \in Seq(Handler) /\ Idle(ready) /\ OpOK(srv, h.op) /\ h.op # "timer"
  BY DEF Inv, TypeOK, ReadyOK, SrvState
<1>5. OpOK(st, h.op)
  BY <1>1, <1>4 DEF OpOK
<1>6. /\ ready' \in Seq(Handler) /\ ReadyOK(st, ready', sent')
      /\ \A i \in DOMAIN ready' : ready'[i].op # "timer" => ready'[i] = h
  BY <1>1, <1>4, <1>5, OpDone
<1>7. InOrder /\ OrderInv => srv.block <= st.high + 1 /\ SeqOK(st, ready')
  BY <1>1, <1>6 DEF SeqOK
<1>8. Failing => Failing'
  <2>1. Failing => h.op = "nak"
    BY <1>4 DEF Failing, Idle
  <2>2. Len(ready) + 1 \in DOMAIN ready' /\ ready'[Len(ready) + 1] = h
    BY <1>4
  <2> QED
    BY <2>1, <2>2 DEF Failing
<1> QED
  BY <1>1, <1>2, <1>3, <1>6, <1>7, <1>8, ServerKeeps

\* A datagram is received.
LEMMA ReceivedInv ==
    ASSUME Inv, Running, NEW p \in ServerArriving, Received(p)
    PROVE  Step
<1>1. /\ p \in sent /\ p \in Packet /\ srv.op \in {"request", "data", "last"}
      /\ srv.op # "none" /\ p.seq \in Nat
  BY DEF ServerArriving, Arriving, Inv, TypeOK, Packet
<1> DEFINE h == Completion(FALSE, p)
<1>2. h \in Handler /\ h.op = srv.op /\ h.pkt = p
  BY <1>1, Completed DEF Completion
<1>3. /\ ready' = Append(ready, h) /\ srv' = [srv EXCEPT !.op = "none", !.high = p.seq]
      /\ UNCHANGED <<client, sent>>
  BY DEF Received
<1> HIDE DEF h
<1>4. ASSUME InOrder, OrderInv
      PROVE  srv.block <= p.seq + 1
  <2>1. CASE srv.op = "request"
    <3>1. srv.block = 0
      BY <2>1 DEF Inv, ReadyOK, OpOK
    <3> QED
      BY <1>1, <3>1
  <2>2. CASE srv.op # "request"
    <3>1. p.seq >= srv.high
      BY <1>1, <1>4, <2>2 DEF InOrder, ServerArriving
    <3>2. srv.block <= srv.high + 1 /\ srv.block \in Nat /\ srv.high \in Nat
      BY <1>4 DEF OrderInv, OrderOK, Inv, TypeOK, SrvState
    <3> QED
      BY <1>1, <3>1, <3>2
  <2> QED
    BY <2>1, <2>2
<1> QED
  BY <1>1, <1>2, <1>3, <1>4, OpEnds DEF Sends

\* The operation completes without a packet; it may have sent one.
LEMMA OpEndsEmpty ==
    ASSUME Inv, Running, srv.op # "none", NEW ec \in BOOLEAN, srv.op = "data" => ec,
           ready' = Append(ready, Completion(ec, NoPacket)), UNCHANGED client,
           srv' = [srv EXCEPT !.op = "none"], Sends(srv)
    PROVE  Step
<1> DEFINE h == Completion(ec, NoPacket)
<1>1. h \in Handler /\ h.op = srv.op /\ h.ec = ec
  BY Completed DEF Completion
<1>2. srv' = [srv EXCEPT !.op = "none", !.high = srv.high] /\ srv.high \in Nat
  BY DEF Inv, TypeOK, SrvState
<1>3. ready' = Append(ready, h)
  OBVIOUS
<1> HIDE DEF h
<1>4. OrderInv => srv.block <= srv.high + 1
  BY DEF OrderInv, OrderOK
<1> QED
  BY <1>1, <1>2, <1>3, <1>4, OpEnds

\* A send is done: an ACK acknowledges what is stored.
LEMMA SentInv ==
    ASSUME Inv, Running, Sent
    PROVE  Step
<1> DEFINE p == IF srv.op = "ack" THEN Ack(Server, Client, srv.block - 1)
                ELSE nak(IF srv.named THEN Server ELSE Inetd, Client, srv.block)
<1>1. /\ srv.op \in {"ack", "nak"} /\ sent' = sent \cup {p} /\ UNCHANGED client
      /\ ready' = Append(ready, Completion(FALSE, NoPacket))
      /\ srv' = [srv EXCEPT !.op = "none"]
  BY DEF Sent
<1>2. Server \in Address /\ Client \in Address /\ Inetd \in Address /\ srv.block \in Nat
  BY ServerAssumption DEF Address, Inv, TypeOK, SrvState
<1>3. srv.op = "ack" => srv.block > 0 /\ ~srv.renamed
  BY DEF Inv, ReadyOK, OpOK
<1>4. p \in Packet /\ p.type # "DATA" /\ (p.type = "ACK" => p.seq <= Kept(srv))
  BY <1>1, <1>2, <1>3 DEF Ack, nak, Packet, Kept
<1> HIDE DEF p
<1>5. Sends(srv)
  BY <1>1, <1>4 DEF Sends
<1> QED
  BY <1>1, <1>5, OpEndsEmpty

\* A send or receive fails.
LEMMA OpFailedInv ==
    ASSUME Inv, Running, OpFailed
    PROVE  Step
BY OpEndsEmpty DEF OpFailed, Sends

\* The timer expires.
LEMMA ExpiredInv ==
    ASSUME Inv, Running, Expired
    PROVE  Step
<1> DEFINE st == [srv EXCEPT !.timer = FALSE]
           h == [op |-> "timer", ec |-> FALSE, pkt |-> NoPacket]
<1>1. srv' = st /\ ready' = Append(ready, h) /\ UNCHANGED <<client, sent>>
  BY DEF Expired
<1>2. /\ st \in SrvState /\ st.op = srv.op /\ st.high = srv.high /\ st.block = srv.block
      /\ st.renamed = srv.renamed /\ st.buf = srv.buf /\ st.named = srv.named
      /\ st.last = srv.last /\ st.result = srv.result
  BY DEF Inv, TypeOK, SrvState
<1>3. h \in Handler /\ h.op = "timer"
  BY DEF Handler
<1> HIDE DEF st, h
<1>4. SrvOK(st) /\ Sends(st)
  BY <1>1, <1>2 DEF Inv, SrvOK, Sends
<1>5. ready \in Seq(Handler) /\ ReadyOK(st, ready, sent)
  BY <1>2, SameOps DEF Inv, TypeOK
<1>6. /\ ready' \in Seq(Handler) /\ ReadyOK(st, ready', sent')
      /\ \A i \in DOMAIN ready' : ready'[i].op # "timer" =>
            \E j \in DOMAIN ready : ready'[i] = ready[j]
  BY <1>1, <1>3, <1>5, TimerDone
<1>7. OrderInv => srv.block <= st.high + 1 /\ SeqOK(st, ready')
  BY <1>2, <1>6 DEF OrderInv, OrderOK, SeqOK
<1>8. Failing => Failing'
  <2>1. \A i \in DOMAIN ready : i \in DOMAIN ready' /\ ready'[i] = ready[i]
    BY <1>1, <1>5
  <2> QED
    BY <1>1, <1>2, <2>1 DEF Failing
<1> QED
  BY <1>1, <1>2, <1>4, <1>6, <1>7, <1>8, ServerKeeps

\* io_context.run() returns.
LEMMA ReturnInv ==
    ASSUME Inv, Running, Return
    PROVE  Step
<1> DEFINE r == IF srv.named THEN "path" ELSE "empty"
           st == [srv EXCEPT !.result = r]
<1>1. srv' = st /\ srv.op = "none" /\ UNCHANGED <<client, sent, ready>>
  BY DEF Return
<1>2. /\ st \in SrvState /\ st.op = srv.op /\ st.high = srv.high /\ st.block = srv.block
      /\ st.renamed = srv.renamed /\ st.buf = srv.buf /\ st.named = srv.named
      /\ st.last = srv.last /\ st.result = r
  BY DEF Inv, TypeOK, SrvState
<1>3. ready \in Seq(Handler) /\ ready = << >>
  BY DEF Return, Inv, TypeOK
<1> HIDE DEF st
<1>4. SrvOK(st) /\ Sends(st)
  BY <1>1, <1>2 DEF Inv, SrvOK, Sends, Running
<1>5. ReadyOK(st, ready', sent')
  BY <1>1, <1>2, SameOps DEF Inv
<1>6. OrderInv => srv.block <= st.high + 1 /\ SeqOK(st, ready')
  BY <1>1, <1>2 DEF OrderInv, OrderOK, SeqOK
<1>7. ~Running'
  BY <1>1, <1>2 DEF Running
<1> QED
  BY <1>1, <1>2, <1>3, <1>4, <1>5, <1>6, <1>7, ServerKeeps

-----------------------------------------------------------------------------
(* The handlers.                                                           *)

\* The state after send_ack.
LEMMA AckSent ==
    ASSUME NEW u \in SrvState, NEW ok \in BOOLEAN
    PROVE  send_ack(u, ok) = [u EXCEPT !.block = u.block + 1,
                                       !.buf = write_behind(u.buf, ok), !.op = "ack"]
<1> DEFINE v == [u EXCEPT !.block = u.block + 1]
<1>1. send_ack(u, ok) = [v EXCEPT !.buf = write_behind(v.buf, ok), !.op = "ack"]
  BY DEF send_ack, send_ackbuf
<1>2. v.buf = u.buf
  BY DEF SrvState
<1> QED
  BY <1>1, <1>2

\* A request is answered with an error, or the file is opened and ACK 0 sent.
LEMMA do_receiveInv ==
    ASSUME Inv, Running, NEW refused \in BOOLEAN, do_receive(refused)
    PROVE  Step
<1>1. /\ ready # << >> /\ Head(ready).op = "request" /\ ready' = Tail(ready)
      /\ UNCHANGED <<client, sent>>
  BY DEF do_receive, H
<1>2. /\ srv.op = "none" /\ srv.block = 0 /\ ~srv.renamed /\ srv \in SrvState
      /\ ready' \in Seq(Handler) /\ Idle(ready')
  BY <1>1, OpTaken DEF OpOK, Inv, TypeOK
<1>3. CASE refused
  <2> DEFINE st == [srv EXCEPT !.op = "nak"]
  <2>1. srv' = st
    BY <1>3 DEF do_receive, send_error
  <2>2. /\ st \in SrvState /\ st.op = "nak" /\ st.high = srv.high /\ st.block = srv.block
        /\ st.renamed = srv.renamed /\ st.buf = srv.buf
    BY <1>2 DEF SrvState
  <2> HIDE DEF st
  <2>3. SrvOK(st) /\ OpOK(st, st.op) /\ Sends(st)
    BY <1>1, <1>2, <2>2 DEF Inv, SrvOK, OpOK, Sends
  <2> QED
    BY <1>1, <2>1, <2>2, <2>3, ServerIdles
<1>4. CASE ~refused
  <2> DEFINE u  == [srv EXCEPT !.named = TRUE, !.block = 0, !.buf = w_init]
             st == [u EXCEPT !.block = 1, !.buf = w_init, !.op = "ack"]
  <2>1. w_init \in Buffers /\ ReceiverBuf(w_init) /\ write_behind(w_init, TRUE) = w_init
    BY InitBuffers, NothingToFlush DEF ReceiverBuf
  <2>2. srv' = st /\ u \in SrvState
    <3>1. srv' = send_ack(u, TRUE)
      BY <1>4 DEF do_receive, start_recvfile
    <3>2. u \in SrvState /\ u.block = 0 /\ u.buf = w_init
      BY <1>2, <2>1 DEF SrvState
    <3> HIDE DEF u
    <3>3. send_ack(u, TRUE) = [u EXCEPT !.block = u.block + 1,
                                        !.buf = write_behind(u.buf, TRUE), !.op = "ack"]
      BY <3>2, AckSent, Zenon
    <3>4. u.block + 1 = 1 /\ write_behind(u.buf, TRUE) = w_init
      <4>1. u.block + 1 = 1
        BY <3>2
      <4>2. write_behind(u.buf, TRUE) = w_init
        BY <2>1, <3>2, Zenon
      <4> QED
        BY <4>1, <4>2
    <3> DEFINE j == u.block + 1
               g == write_behind(u.buf, TRUE)
    <3>5. srv' = [u EXCEPT !.block = j, !.buf = g, !.op = "ack"]
      BY <3>1, <3>3, Zenon
    <3>6. j = 1 /\ g = w_init
      BY <3>4
    <3> HIDE DEF j, g
    <3> QED
      BY <3>2, <3>5, <3>6
  <2>3. /\ st \in SrvState /\ st.op = "ack" /\ st.high = srv.high /\ st.block = 1
        /\ st.renamed = srv.renamed /\ st.buf = w_init /\ st.named
    BY <1>2, <2>1, <2>2 DEF SrvState
  <2> HIDE DEF st
  <2>4. SrvOK(st) /\ OpOK(st, st.op) /\ Sends(st)
    BY <1>1, <1>2, <2>1, <2>3 DEF SrvOK, OpOK, Sends
  <2>5. ReadyOK(st, ready', sent') /\ SeqOK(st, ready')
    BY <1>2, <2>4, NewOp DEF SeqOK, Idle
  <2>6. Kept(st) = 0 /\ Stored = 0
    BY <1>2, <2>3 DEF Stored, Kept
  <2>7. OrderOK(st)
    <3>1. st.high \in Nat /\ 1 <= N
      BY <2>3, SizesAssumption DEF SrvState
    <3>2. st.buf.out = FilePrefix(Kept(st))
      BY <2>3, <2>6, InitBuffers, PrefixOfNothing
    <3> QED
      BY <1>2, <2>3, <3>1, <3>2 DEF OrderOK
  <2>8. FTStep
    <3>1. srv.buf = w_init
      BY <1>2 DEF Inv, SrvOK
    <3>2. Stored' = Stored
      BY <2>2, <2>6 DEF Stored, Kept
    <3>3. ~Failing
      BY <1>1, NotFailing
    <3> QED
      BY <2>2, <2>3, <3>1, <3>2, <3>3, KeepsFile
  <2> QED
    BY <1>1, <1>2, <2>2, <2>3, <2>4, <2>5, <2>6, <2>7, <2>8, ServerMoves
<1> QED
  BY <1>3, <1>4

\* Nothing follows, or a receive is started, or the handler throws.
LEMMA SimpleHandlersInv ==
    ASSUME Inv, Running, GivesUp \/ Waits \/ Throws
    PROVE  Step
<1> DEFINE waiting == [srv EXCEPT !.timer = TRUE, !.op = "data"]
           thrown  == [srv EXCEPT !.timer = FALSE, !.result = "canceled"]
<1>1. srv \in SrvState /\ SrvOK(srv)
  BY DEF Inv, TypeOK
<1>2. CASE GivesUp
  <2>1. /\ ready # << >> /\ Head(ready).op \in {"request", "ack"} /\ ready' = Tail(ready)
        /\ UNCHANGED <<client, sent, srv>>
    BY <1>2 DEF GivesUp, H
  <2>2. srv.op = "none" /\ Sends(srv)
    BY <2>1, OpTaken DEF Sends
  <2> QED
    BY <1>1, <2>1, <2>2, ServerIdles
<1>3. CASE Waits
  <2>1. /\ ready # << >> /\ Head(ready).op \in {"ack", "data"} /\ ready' = Tail(ready)
        /\ srv' = waiting /\ UNCHANGED <<client, sent>>
    BY <1>1, <1>3 DEF Waits, H, receive_block, start_timeout, SrvState
  <2>2. srv.block > 0 /\ ~srv.renamed
    BY <2>1, OpTaken DEF OpOK
  <2>3. /\ waiting \in SrvState /\ waiting.op = "data" /\ waiting.high = srv.high
        /\ waiting.block = srv.block /\ waiting.renamed = srv.renamed
        /\ waiting.buf = srv.buf /\ waiting.named = srv.named
    BY <1>1 DEF SrvState
  <2> HIDE DEF waiting
  <2>4. SrvOK(waiting) /\ OpOK(waiting, waiting.op) /\ Sends(waiting)
    BY <1>1, <2>1, <2>2, <2>3 DEF SrvOK, OpOK, Sends
  <2> QED
    BY <2>1, <2>3, <2>4, ServerIdles
<1>4. CASE Throws
  <2>1. /\ ready # << >> /\ Head(ready).op = "nak" /\ ready' = Tail(ready)
        /\ srv' = thrown /\ UNCHANGED <<client, sent>>
    BY <1>4 DEF Throws, H
  <2>2. srv.op = "none" /\ ~srv.renamed
    BY <2>1, OpTaken DEF OpOK
  <2>3. /\ thrown \in SrvState /\ thrown.op = srv.op /\ thrown.high = srv.high
        /\ thrown.block = srv.block /\ thrown.renamed = srv.renamed
        /\ thrown.buf = srv.buf /\ thrown.named = srv.named
        /\ thrown.result = "canceled"
    BY <1>1 DEF SrvState
  <2> HIDE DEF thrown
  <2>4. SrvOK(thrown) /\ Sends(thrown)
    BY <1>1, <2>1, <2>2, <2>3 DEF SrvOK, Sends
  <2> QED
    BY <2>1, <2>2, <2>3, <2>4, ServerIdles
<1> QED
  BY <1>2, <1>3, <1>4

\* The timer's handler cancels what is outstanding, and throws at the end,
\* but not once the file is in place.
LEMMA TimerInv ==
    ASSUME Inv, Running, Timer
    PROVE  Step
<1> DEFINE t    == Elapsed(srv.timeout, Rexmt)
           over == srv.open /\ t >= MaxTimeout
           op   == IF srv.open THEN "none" ELSE srv.op
           open == srv.open /\ ~over
           res  == IF over /\ ~srv.last THEN "timed_out" ELSE srv.result
           st   == [srv EXCEPT !.timeout = t, !.op = op, !.open = open, !.result = res]
<1>1. /\ ready # << >> /\ Head(ready).op = "timer" /\ UNCHANGED <<client, sent>>
      /\ ready' = IF srv.open /\ srv.op # "none"
                  THEN Append(Tail(ready), Completion(TRUE, NoPacket))
                  ELSE Tail(ready)
  BY DEF Timer
<1>2. srv' = st
  BY DEF Timer
<1>3. srv \in SrvState /\ SrvOK(srv)
  BY DEF Inv, TypeOK
<1>4. /\ t \in Nat /\ op \in {"none", srv.op} /\ open \in BOOLEAN
      /\ res \in {"timed_out", srv.result} /\ (srv.last => res = srv.result)
      /\ srv.open => op = "none"
      /\ ~srv.open => op = srv.op
  BY <1>3, AsyncTimerAssumption DEF Elapsed, SrvState
<1> HIDE DEF t, op, open, res, over
<1>5. /\ st \in SrvState /\ st.op = op /\ st.high = srv.high /\ st.block = srv.block
      /\ st.renamed = srv.renamed /\ st.buf = srv.buf /\ st.named = srv.named
      /\ st.last = srv.last /\ st.result = res
  BY <1>3, <1>4 DEF SrvState
<1> HIDE DEF st
<1>6. SrvOK(st) /\ Sends(st)
  BY <1>1, <1>3, <1>4, <1>5 DEF SrvOK, Sends, Running
<1>7. /\ Tail(ready) \in Seq(Handler) /\ ReadyOK(srv, Tail(ready), sent)
      /\ \A i \in DOMAIN Tail(ready) : \E j \in DOMAIN ready : Tail(ready)[i] = ready[j]
  BY <1>1, TimerTaken
<1>8. CASE srv.open /\ srv.op # "none"
  <2> DEFINE h == Completion(TRUE, NoPacket)
  <2>1. h \in Handler /\ h.op = srv.op /\ h.ec
    BY <1>8, Completed DEF Completion
  <2>2. ready' = Append(Tail(ready), h)
    BY <1>1, <1>8
  <2> HIDE DEF h
  <2>3. Idle(Tail(ready)) /\ OpOK(srv, h.op) /\ h.op # "timer"
    BY <1>3, <1>7, <1>8, <2>1 DEF ReadyOK, SrvState
  <2>4. OpOK(st, h.op) /\ st.op = "none"
    BY <1>4, <1>5, <1>8, <2>3 DEF OpOK
  <2>5. /\ ready' \in Seq(Handler) /\ ReadyOK(st, ready', sent')
        /\ \A i \in DOMAIN ready' : ready'[i].op # "timer" => ready'[i] = h
    BY <1>7, <2>1, <2>2, <2>3, <2>4, OpDone
  <2>6. OrderInv => srv.block <= st.high + 1 /\ SeqOK(st, ready')
    BY <1>5, <2>1, <2>5 DEF OrderInv, OrderOK, SeqOK
  <2>7. Failing => Failing'
    <3>1. Failing => h.op = "nak"
      BY <1>8, <2>1 DEF Failing, Inv, ReadyOK, Idle
    <3>2. Len(Tail(ready)) + 1 \in DOMAIN ready' /\ ready'[Len(Tail(ready)) + 1] = h
      BY <1>7, <2>2
    <3> QED
      BY <3>1, <3>2 DEF Failing
  <2> QED
    BY <1>1, <1>2, <1>5, <1>6, <2>5, <2>6, <2>7, ServerKeeps
<1>9. CASE ~(srv.open /\ srv.op # "none")
  <2>1. ready' = Tail(ready) /\ st.op = srv.op
    BY <1>1, <1>4, <1>5, <1>9
  <2>2. ready' \in Seq(Handler) /\ ReadyOK(st, ready', sent')
    BY <1>1, <1>5, <1>7, <2>1, SameOps
  <2>3. OrderInv => srv.block <= st.high + 1 /\ SeqOK(st, ready')
    BY <1>5, <1>7, <2>1 DEF OrderInv, OrderOK, SeqOK
  <2>4. Failing => Failing'
    <3>1. ready \in Seq(Handler)
      BY DEF Inv, TypeOK
    <3>2. ASSUME NEW i \in DOMAIN ready, ready[i].op = "nak"
          PROVE  i - 1 \in DOMAIN Tail(ready) /\ Tail(ready)[i - 1] = ready[i]
      <4>1. i # 1
        BY <1>1, <3>1, <3>2
      <4> QED
        BY <3>1, <4>1
    <3> QED
      BY <1>2, <2>1, <3>2 DEF Failing
  <2> QED
    BY <1>1, <1>2, <1>5, <1>6, <2>2, <2>3, <2>4, ServerKeeps
<1> QED
  BY <1>8, <1>9

-----------------------------------------------------------------------------
(* check_and_write_block.                                                  *)

\* A packet that was received, and the state it is received into.
LEMMA GotOK ==
    ASSUME Inv, ready # << >>, Head(ready).op = "data", ~Head(ready).ec,
           NEW p, p = Head(ready).pkt
    PROVE  /\ p \in sent /\ p \in Packet /\ DataOK(p)
           /\ srv.block > 0 /\ ~srv.renamed /\ srv.op = "none"
           /\ srv \in SrvState /\ srv.named
           /\ Got(p) \in SrvState /\ Got(p) = [srv EXCEPT !.buf = recv(srv.buf, p)]
           /\ Got(p).op = "none" /\ Got(p).block = srv.block /\ Got(p).high = srv.high
           /\ Got(p).renamed = srv.renamed /\ Got(p).named = srv.named
           /\ Got(p).buf = recv(srv.buf, p) /\ ReceiverBuf(Got(p).buf)
           /\ Got(p).buf.out = srv.buf.out /\ Got(p).buf.lost = srv.buf.lost
           /\ SrvOK(Got(p))
<1>1. /\ p \in sent /\ srv.op = "none" /\ srv.block > 0 /\ ~srv.renamed
  BY OpTaken DEF OpOK
<1>2. p \in Packet /\ DataOK(p) /\ srv \in SrvState /\ SrvOK(srv) /\ srv.named
  BY <1>1 DEF Inv, TypeOK, SrvOK
<1>3. /\ ReceiverBuf(recv(srv.buf, p)) /\ recv(srv.buf, p).out = srv.buf.out
      /\ recv(srv.buf, p).lost = srv.buf.lost
  BY <1>2, RecvKeeps DEF SrvOK
<1> DEFINE b == recv(srv.buf, p)
           st == [srv EXCEPT !.buf = b]
<1>4. b \in Buffers
  BY <1>3 DEF ReceiverBuf
<1>5. Got(p) = st
  BY DEF Got
<1> HIDE DEF b
<1>6. /\ st \in SrvState /\ st.op = srv.op /\ st.high = srv.high /\ st.block = srv.block
      /\ st.renamed = srv.renamed /\ st.buf = b /\ st.named = srv.named
  BY <1>2, <1>4 DEF SrvState
<1> HIDE DEF st
<1>7. SrvOK(st)
  BY <1>1, <1>2, <1>3, <1>6 DEF SrvOK, b
<1> QED
  BY <1>1, <1>2, <1>3, <1>5, <1>6, <1>7 DEF b, st

\* An ERROR, another opcode, or the block before: nothing is stored.
LEMMA DataKeepsInv ==
    ASSUME Inv, Running, H("data", FALSE), NEW p, p = Head(ready).pkt,
           DataError(p) \/ DataBadOpcode(p) \/ DataRexmit(p)
    PROVE  Step
<1>1. /\ ready # << >> /\ Head(ready).op = "data" /\ ~Head(ready).ec
      /\ ready' = Tail(ready) /\ UNCHANGED client
  BY DEF H
<1> DEFINE g == Got(p)
<1>2. /\ g \in SrvState /\ g.op = "none" /\ g.block = srv.block /\ g.high = srv.high
      /\ g.renamed = srv.renamed /\ g.named = srv.named /\ ReceiverBuf(g.buf)
      /\ g.buf.out = srv.buf.out /\ g.buf.lost = srv.buf.lost /\ SrvOK(g)
      /\ srv.block > 0 /\ ~srv.renamed
  BY <1>1, GotOK
<1>3. UNCHANGED sent
  BY DEF DataError, DataBadOpcode, DataRexmit
<1>4. PICK op \in {"none", "nak", "ack"} : srv' = [g EXCEPT !.op = op]
  <2>1. CASE DataError(p)
    <3>1. srv' = g
      BY <2>1 DEF DataError
    <3>2. g = [g EXCEPT !.op = "none"]
      BY <1>2 DEF SrvState
    <3> QED
      BY <3>1, <3>2
  <2>2. CASE DataBadOpcode(p)
    BY <2>2 DEF DataBadOpcode, send_error
  <2>3. CASE DataRexmit(p)
    <3>1. srv' = [g EXCEPT !.buf = write_behind(g.buf, TRUE), !.op = "ack"]
      BY <2>3 DEF DataRexmit, send_ackbuf
    <3>2. write_behind(g.buf, TRUE) = g.buf
      BY <1>2, NothingToFlush
    <3> HIDE DEF g
    <3>3. srv' = [g EXCEPT !.op = "ack"]
      BY <1>2, <3>1, <3>2 DEF SrvState
    <3> QED
      BY <3>3
  <2> QED
    BY <2>1, <2>2, <2>3
<1> DEFINE st == [g EXCEPT !.op = op]
<1> HIDE DEF g
<1>5. /\ st \in SrvState /\ st.op = op /\ st.high = srv.high /\ st.block = srv.block
      /\ st.renamed = srv.renamed /\ st.buf = g.buf /\ st.named = srv.named
  BY <1>2 DEF SrvState
<1>6. srv' = st
  BY <1>4
<1> HIDE DEF st
<1>7. SrvOK(st) /\ (st.op = "none" \/ OpOK(st, st.op)) /\ Sends(st)
  BY <1>2, <1>3, <1>5 DEF SrvOK, OpOK, Sends
<1> QED
  BY <1>1, <1>2, <1>5, <1>6, <1>7, ServerIdles

\* Block numbers below the wrap are what they are.
LEMMA SmallWire ==
    ASSUME NEW k \in Nat, k < BlockMod
    PROVE  Wire(k) = k
BY BlockModAssumption DEF Wire

\* In order, the block that is written is the one awaited: the client is not
\* past it, and nothing older than the block before it can come.
LEMMA AwaitedBlock ==
    ASSUME Inv, InOrder, OrderInv, ready # << >>, Head(ready).op = "data", ~Head(ready).ec,
           NEW p, p = Head(ready).pkt, p.type = "DATA", WritesBlock(p, srv.block)
    PROVE  /\ srv.block \in 1 .. N /\ p.seq = srv.block /\ p.seg = srv.block
           /\ p.size = Size(srv.block) /\ Stored = srv.block - 1
<1>1. /\ p \in Packet /\ DataOK(p) /\ srv.block > 0 /\ ~srv.renamed /\ srv \in SrvState
  BY GotOK
<1>2. /\ srv.block \in 1 .. N /\ srv.block <= srv.high + 1 /\ Stored = srv.block - 1
      /\ srv.high \in Nat
  BY <1>1, SizesAssumption DEF OrderInv, OrderOK, SrvState, Stored, Kept
<1>3. p.seq = srv.high
  <2>1. 1 \in DOMAIN ready /\ Head(ready) = ready[1]
    BY DEF Inv, TypeOK
  <2> QED
    BY <2>1 DEF OrderInv
<1>4. p.seq <= srv.block
  <2>1. client.block \in Nat /\ client.block <= Acked + 1 /\ Acked \in Nat
    BY DEF Inv, PutInv, ClientState, Acked
  <2>2. Acked <= srv.block - 1
    BY <1>2 DEF OrderInv
  <2>3. p.seq \in 1 .. client.block
    BY <1>1 DEF DataOK
  <2> QED
    BY <1>2, <2>1, <2>2, <2>3
<1>5. p.seq # srv.block - 1
  <2>1. /\ srv.block - 1 \in Nat /\ srv.block \in Nat /\ srv.block < BlockMod
        /\ srv.block - 1 < BlockMod
    BY <1>2, SizesAssumption, BlockModAssumption DEF InOrder
  <2>2. Wire(srv.block) = srv.block /\ Wire(srv.block - 1) = srv.block - 1
    BY <2>1, SmallWire
  <2>3. SUFFICES ASSUME p.seq = srv.block - 1 PROVE FALSE
    OBVIOUS
  <2>4. Wire(p.seq) = srv.block - 1
    BY <2>2, <2>3
  <2> QED
    BY <2>1, <2>2, <2>4 DEF WritesBlock, IsBlock, IsPrevious
<1>6. p.seq = srv.block
  BY <1>2, <1>3, <1>4, <1>5
<1> QED
  BY <1>1, <1>2, <1>6 DEF DataOK

\* Block k is added to what b has written, or its write fails, or it is empty.
Writing(b, w, k, ok) ==
    /\ w.out = IF Size(k) > 0 /\ ok THEN Append(b.out, k) ELSE b.out
    /\ w.lost = (b.lost \/ (Size(k) > 0 /\ ~ok))

\* Writing and flushing the packet received.
LEMMA Flushed ==
    ASSUME Inv, ready # << >>, Head(ready).op = "data", ~Head(ready).ec,
           NEW p, p = Head(ready).pkt, p.type = "DATA", NEW ok \in BOOLEAN
    PROVE  LET f == writeit(recv(srv.buf, p), p.size, TRUE)
               w == write_behind(f, ok)
           IN  /\ f \in Buffers /\ w \in Buffers /\ ReceiverBuf(w)
               /\ p.size # 0 /\ ~ok => w.lost
               /\ InOrder /\ OrderInv /\ WritesBlock(p, srv.block)
                      => /\ w.lost \/ w.out = FilePrefix(srv.block)
                         /\ Writing(srv.buf, w, srv.block, ok)
<1> DEFINE b == srv.buf
           f == writeit(recv(b, p), p.size, TRUE)
           w == write_behind(f, ok)
<1>1. p \in Packet /\ p.size \in 0 .. SEGSIZE /\ ReceiverBuf(b) /\ b.lost \in BOOLEAN
  <2>1. p \in Packet /\ DataOK(p) /\ SrvOK(srv) /\ srv \in SrvState
    BY GotOK DEF Inv
  <2>2. p.seq \in Nat /\ p.size = Size(p.seq)
    BY <2>1 DEF DataOK, Packet
  <2> QED
    BY <2>1, <2>2, SizeType DEF SrvOK, SrvState, Buffers
<1>2. /\ f \in Buffers /\ f.out = b.out /\ f.lost = b.lost /\ ReceiverBuf(w)
      /\ w.out = IF p.size > 0 /\ ok THEN Append(b.out, p.seg) ELSE b.out
      /\ w.lost = (b.lost \/ (p.size > 0 /\ ~ok))
  <2>1. ASSUME NEW ok1 \in BOOLEAN
        PROVE  LET g == writeit(recv(b, p), p.size, ok1)
                   v == write_behind(g, ok)
               IN  /\ g \in Buffers /\ g.out = b.out /\ g.lost = b.lost /\ ReceiverBuf(v)
                   /\ v.out = IF p.size > 0 /\ ok THEN Append(b.out, p.seg) ELSE b.out
                   /\ v.lost = (b.lost \/ (p.size > 0 /\ ~ok))
    BY <1>1, AcceptFlush
  <2> QED
    BY <2>1, Zenon
<1> HIDE DEF f, w
<1>3. w \in Buffers
  BY <1>2 DEF ReceiverBuf
<1>4. ASSUME InOrder, OrderInv, WritesBlock(p, srv.block)
      PROVE  /\ w.lost \/ w.out = FilePrefix(srv.block)
             /\ Writing(b, w, srv.block, ok)
  <2> DEFINE k == srv.block
  <2>1. k \in 1 .. N /\ p.seg = k /\ p.size = Size(k) /\ Stored = k - 1
    BY <1>4, AwaitedBlock
  <2>2. b.lost \/ b.out = FilePrefix(k - 1)
    BY <1>4, <2>1 DEF OrderInv, OrderOK, Stored
  <2> HIDE DEF k
  <2>3. /\ w.out = IF Size(k) > 0 /\ ok THEN Append(b.out, k) ELSE b.out
        /\ w.lost = (b.lost \/ (Size(k) > 0 /\ ~ok))
    BY <1>2, <2>1, Zenon
  <2>4. w.lost \/ w.out = FilePrefix(k)
    BY <2>1, <2>2, <2>3, PrefixGrows
  <2> QED
    BY <2>3, <2>4, Zenon DEF k, Writing
<1>5. p.size # 0 /\ ~ok => w.lost
  <2>1. p.size # 0 => p.size > 0
    BY <1>1
  <2> QED
    BY <1>2, <2>1, Zenon
<1> QED
  BY <1>2, <1>3, <1>4, <1>5, Zenon DEF f, w

\* A full block is stored and acknowledged.
LEMMA DataFullInv ==
    ASSUME Inv, Running, H("data", FALSE), NEW p, p = Head(ready).pkt, DataFull(p)
    PROVE  Step
<1>1. /\ ready # << >> /\ Head(ready).op = "data" /\ ~Head(ready).ec
      /\ ready' = Tail(ready) /\ UNCHANGED client
  BY DEF H
<1>2. /\ p.type = "DATA" /\ WritesBlock(p, srv.block) /\ p.size = SEGSIZE /\ UNCHANGED sent
  BY DEF DataFull
<1> DEFINE f == writeit(recv(srv.buf, p), p.size, TRUE)
           u == [Got(p) EXCEPT !.buf = f]
<1>3. PICK ok \in BOOLEAN : srv' = send_ack([Got(p) EXCEPT !.buf = writeit(@, p.size, TRUE)], ok)
  BY DEF DataFull
<1> DEFINE w == write_behind(f, ok)
           k == srv.block
           st == [u EXCEPT !.block = k + 1, !.buf = w, !.op = "ack"]
<1>4. /\ f \in Buffers /\ w \in Buffers /\ ReceiverBuf(w)
      /\ InOrder /\ OrderInv => /\ w.lost \/ w.out = FilePrefix(k)
                                /\ Writing(srv.buf, w, k, ok)
  BY <1>1, <1>2, Flushed
<1>5. /\ Got(p) \in SrvState /\ Got(p).op = "none" /\ Got(p).block = k
      /\ Got(p).high = srv.high /\ Got(p).renamed = srv.renamed /\ Got(p).named
      /\ Got(p).buf = recv(srv.buf, p) /\ k \in Nat /\ k > 0 /\ ~srv.renamed
      /\ Got(p).result = srv.result
  BY <1>1, GotOK DEF SrvState
<1>6. srv' = send_ack(u, ok)
  BY <1>3, <1>5
<1> HIDE DEF f
<1>7. /\ u \in SrvState /\ u.op = "none" /\ u.block = k /\ u.high = srv.high
      /\ u.renamed = srv.renamed /\ u.named /\ u.buf = f /\ u.result = srv.result
  BY <1>4, <1>5 DEF SrvState
<1> HIDE DEF u
<1>8. srv' = st
  BY <1>6, <1>7, AckSent
<1> HIDE DEF w
<1>9. /\ st \in SrvState /\ st.op = "ack" /\ st.block = k + 1 /\ st.high = srv.high
      /\ st.renamed = srv.renamed /\ st.named /\ st.buf = w /\ st.result = srv.result
  <2>1. k + 1 \in Nat /\ w \in Buffers
    BY <1>4, <1>5
  <2> QED
    BY <1>7, <2>1 DEF SrvState
<1> HIDE DEF st
<1>10. SrvOK(st) /\ OpOK(st, st.op) /\ Sends(st)
  BY <1>2, <1>4, <1>5, <1>9 DEF SrvOK, OpOK, Sends
<1>11. ready' \in Seq(Handler) /\ Idle(ready')
  BY <1>1, OpTaken
<1>12. ReadyOK(st, ready', sent') /\ SeqOK(st, ready')
  BY <1>10, <1>11, NewOp DEF SeqOK, Idle
<1>13. ASSUME InOrder, OrderInv
       PROVE  OrderOK(st) /\ Kept(st) >= Stored /\ FTStep
  <2>1. k \in 1 .. N /\ p.seq = k /\ p.size = Size(k) /\ Stored = k - 1
    BY <1>1, <1>2, <1>13, AwaitedBlock
  <2>2. k < N
    BY <1>2, <2>1, FullIsNotLast
  <2>3. srv.high = k
    <3>1. 1 \in DOMAIN ready /\ Head(ready) = ready[1]
      BY <1>1 DEF Inv, TypeOK
    <3> QED
      BY <1>1, <1>13, <2>1, <3>1 DEF OrderInv
  <2>4. Kept(st) = k
    BY <1>5, <1>9 DEF Kept
  <2>5. st.buf.lost \/ st.buf.out = FilePrefix(Kept(st))
    BY <1>4, <1>9, <1>13, <2>4
  <2>6. st.block <= N /\ st.block <= st.high + 1 /\ Kept(st) >= Stored
    BY <1>9, <2>1, <2>2, <2>3, <2>4, SizesAssumption
  <2>7. FTStep
    <3>1. Stored' = k
      BY <1>8, <2>4 DEF Stored, Kept
    <3>2. Outcome = "active"
      BY <1>1, <1>5, NotFailing DEF Outcome
    <3>3. Outcome' = "active"
      BY <1>5, <1>7, <1>8, <1>9, <1>11 DEF Outcome, Failing, Running, Idle
    <3>4. srv.buf.lost \in BOOLEAN
      BY DEF Inv, TypeOK, SrvState, Buffers
    <3>5. Writing(srv.buf, srv'.buf, k, ok)
      BY <1>4, <1>8, <1>9, <1>13
    <3> QED
      BY <2>1, <2>2, <3>1, <3>2, <3>3, <3>4, <3>5, StoresBlock DEF Writing
  <2> QED
    BY <1>5, <1>9, <2>5, <2>6, <2>7 DEF OrderOK
<1> QED
  BY <1>1, <1>8, <1>9, <1>10, <1>11, <1>12, <1>13, ServerMoves

\* A short block is stored, its file gets its name, and the final ACK goes out.
LEMMA DataLastInv ==
    ASSUME Inv, Running, H("data", FALSE), NEW p, p = Head(ready).pkt, DataLast(p)
    PROVE  Step
<1>1. /\ ready # << >> /\ Head(ready).op = "data" /\ ~Head(ready).ec
      /\ ready' = Tail(ready) /\ UNCHANGED client
  BY DEF H
<1>2. p.type = "DATA" /\ WritesBlock(p, srv.block) /\ p.size # SEGSIZE
  BY DEF DataLast
<1>3. PICK written \in Writes(p.size) :
          LET st == [Got(p) EXCEPT !.buf = write_behind(writeit(@, p.size, TRUE),
                                                        written = "all")]
          IN  \/ written = "error" /\ srv' = send_error(st) /\ UNCHANGED sent
              \/ written # "error" /\ send_last_ack([st EXCEPT !.renamed = TRUE])
  BY DEF DataLast
<1> DEFINE all == written = "all"
           k == srv.block
           f == writeit(recv(srv.buf, p), p.size, TRUE)
           w == write_behind(f, all)
           u == [Got(p) EXCEPT !.buf = w]
           n == [u EXCEPT !.renamed = TRUE]
<1>4. all \in BOOLEAN
  OBVIOUS
<1>5. /\ w \in Buffers /\ ReceiverBuf(w)
      /\ p.size # 0 /\ ~all => w.lost
      /\ InOrder /\ OrderInv => /\ w.lost \/ w.out = FilePrefix(k)
                                /\ Writing(srv.buf, w, k, all)
  <2> HIDE DEF all
  <2> QED
    BY <1>1, <1>2, <1>4, Flushed
<1>6. /\ Got(p) \in SrvState /\ Got(p).op = "none" /\ Got(p).block = k
      /\ Got(p).high = srv.high /\ Got(p).renamed = srv.renamed /\ Got(p).named
      /\ Got(p).buf = recv(srv.buf, p) /\ k \in Nat /\ k > 0 /\ ~srv.renamed
      /\ Got(p) = [srv EXCEPT !.buf = recv(srv.buf, p)] /\ srv \in SrvState
  BY <1>1, GotOK DEF SrvState
<1>7. \/ written = "error" /\ srv' = send_error(u) /\ UNCHANGED sent
      \/ written # "error" /\ send_last_ack(n)
  BY <1>3, <1>6
<1>8. ready' \in Seq(Handler) /\ Idle(ready')
  BY <1>1, OpTaken
<1> HIDE DEF w
<1>9. /\ u \in SrvState /\ u.op = "none" /\ u.block = k /\ u.high = srv.high
      /\ u.renamed = srv.renamed /\ u.named /\ u.buf = w /\ u.result = srv.result
  BY <1>5, <1>6 DEF SrvState
<1>10. ASSUME InOrder, OrderInv
       PROVE  /\ k = N /\ srv.high = k /\ Stored = N - 1
              /\ w.lost \/ w.out = FilePrefix(N)
              /\ Writing(srv.buf, w, N, all) /\ Outcome = "active"
  <2>1. k \in 1 .. N /\ p.seq = k /\ p.size = Size(k) /\ Stored = k - 1
    BY <1>1, <1>2, <1>10, AwaitedBlock
  <2>2. k = N
    BY <1>2, <2>1, FullIsNotLast, SizesAssumption
  <2>3. 1 \in DOMAIN ready /\ Head(ready) = ready[1]
    BY <1>1 DEF Inv, TypeOK
  <2>4. srv.high = k
    BY <1>1, <1>10, <2>1, <2>3 DEF OrderInv
  <2>5. Outcome = "active"
    BY <1>1, <1>6, NotFailing DEF Outcome
  <2> QED
    BY <1>5, <1>10, <2>1, <2>2, <2>4, <2>5
<1> HIDE DEF u
<1>11. CASE written = "error" /\ srv' = send_error(u) /\ UNCHANGED sent
  <2> DEFINE st == [u EXCEPT !.op = "nak"]
  <2>1. srv' = st
    BY <1>11 DEF send_error
  <2>2. /\ st \in SrvState /\ st.op = "nak" /\ st.block = k /\ st.high = srv.high
        /\ st.renamed = srv.renamed /\ st.named /\ st.buf = w
    BY <1>9 DEF SrvState
  <2> HIDE DEF st
  <2>3. SrvOK(st) /\ OpOK(st, st.op) /\ Sends(st)
    BY <1>5, <1>6, <1>11, <2>2 DEF SrvOK, OpOK, Sends
  <2>4. ReadyOK(st, ready', sent') /\ SeqOK(st, ready')
    BY <1>8, <2>3, NewOp DEF SeqOK, Idle
  <2>5. ASSUME InOrder, OrderInv
        PROVE  OrderOK(st) /\ Kept(st) >= Stored /\ FTStep
    <3>1. w.lost
      BY <1>3, <1>5, <1>11 DEF Writes
    <3>2. Kept(st) = Stored /\ Stored \in Nat
      BY <1>6, <2>2 DEF Kept, Stored
    <3>3. w.out = srv.buf.out /\ w.lost = TRUE
      <4>1. ~all
        BY <1>11
      <4>2. w.lost \in BOOLEAN
        BY <1>5 DEF Buffers
      <4> HIDE DEF all
      <4>3. w.out = srv.buf.out
        BY <1>10, <2>5, <4>1 DEF Writing
      <4> QED
        BY <3>1, <4>2, <4>3
    <3>4. Stored' = Stored /\ srv'.buf.out = srv.buf.out /\ srv'.buf.lost = TRUE
      BY <2>1, <2>2, <3>2, <3>3 DEF Stored, Kept
    <3>5. Outcome = "active" /\ Outcome' = "failed"
      BY <1>6, <1>10, <2>1, <2>2, <2>5 DEF Outcome, Failing
    <3>6. FTStep
      BY <3>4, <3>5 DEF FTStep, FT!FTNext, FT!Fail
    <3> QED
      BY <1>6, <2>2, <2>5, <3>1, <3>2, <3>6 DEF OrderInv, OrderOK
  <2> QED
    BY <1>1, <1>8, <2>1, <2>2, <2>3, <2>4, <2>5, ServerMoves
<1>12. CASE send_last_ack(n)
  <2>1. /\ n \in SrvState /\ n.op = "none" /\ n.block = k /\ n.high = srv.high
        /\ n.renamed /\ n.named /\ n.buf = w /\ n.result = "running"
    BY <1>9 DEF SrvState, Running
  <2> HIDE DEF n
  <2>2. ASSUME NEW st \in SrvState, srv' = st, st.block = k, st.high = srv.high,
               st.renamed, st.buf = w
        PROVE  InOrder /\ OrderInv => OrderOK(st) /\ Kept(st) >= Stored /\ FTStep
    <3> SUFFICES ASSUME InOrder, OrderInv PROVE OrderOK(st) /\ Kept(st) >= Stored /\ FTStep
      OBVIOUS
    <3>1. k = N /\ srv.high = k /\ Stored = N - 1 /\ N \in Nat
      BY <1>10, SizesAssumption
    <3>2. Kept(st) = N
      BY <2>2, <3>1 DEF Kept
    <3>3. st.buf.lost \/ st.buf.out = FilePrefix(Kept(st))
      BY <1>10, <2>2, <3>2
    <3>4. Stored' = N /\ Outcome' = "ok"
      BY <2>2, <3>2 DEF Stored, Outcome, Kept
    <3>5. /\ Outcome = "active" /\ srv.buf.lost \in BOOLEAN /\ N \in 1 .. N
          /\ Writing(srv.buf, srv'.buf, N, all)
      BY <1>10, <2>2, SizesAssumption DEF Inv, TypeOK, SrvState, Buffers
    <3>6. FTStep
      <4> HIDE DEF all
      <4> QED
        BY <1>4, <3>1, <3>4, <3>5, StoresBlock DEF Writing
    <3> QED
      BY <2>2, <3>1, <3>2, <3>3, <3>6 DEF OrderOK
  <2>3. CASE /\ srv' = [start_last_timeout(n) EXCEPT !.op = "last", !.acks = 1]
             /\ sent' = sent \cup {Ack(Server, Client, n.block)}
    <3> DEFINE st == [n EXCEPT !.timer = TRUE, !.timeout = MaxTimeout, !.last = TRUE,
                               !.op = "last", !.acks = 1]
               a == Ack(Server, Client, k)
    <3>1. srv' = st /\ sent' = sent \cup {a}
      BY <2>1, <2>3 DEF start_last_timeout, start_timeout
    <3>2. MaxTimeout \in Nat /\ 1 \in 0 .. 2
      BY AsyncTimerAssumption
    <3>3. /\ st \in SrvState /\ st.op = "last" /\ st.block = k /\ st.high = srv.high
          /\ st.renamed /\ st.named /\ st.buf = w /\ st.last /\ st.result = "running"
      BY <2>1, <3>2 DEF SrvState
    <3> HIDE DEF st
    <3>4. a \in Packet /\ a.type = "ACK" /\ a.seq <= Kept(st)
      <4>1. Server \in Address /\ Client \in Address
        BY ServerAssumption DEF Address
      <4>2. Kept(st) = k
        BY <3>3 DEF Kept
      <4> QED
        BY <1>6, <4>1, <4>2 DEF Ack, Packet
    <3>5. SrvOK(st) /\ OpOK(st, st.op)
      BY <1>5, <1>6, <3>3 DEF SrvOK, OpOK
    <3> HIDE DEF a
    <3>6. Sends(st)
      BY <3>1, <3>4 DEF Sends
    <3>7. ReadyOK(st, ready', sent') /\ SeqOK(st, ready')
      BY <1>8, <3>5, NewOp DEF SeqOK, Idle
    <3> QED
      BY <1>1, <1>8, <2>2, <3>1, <3>3, <3>5, <3>6, <3>7, ServerMoves
  <2>4. CASE srv' = [n EXCEPT !.result = "send_to"] /\ UNCHANGED sent
    <3> DEFINE st == [n EXCEPT !.result = "send_to"]
    <3>1. /\ st \in SrvState /\ st.op = "none" /\ st.block = k /\ st.high = srv.high
          /\ st.renamed /\ st.named /\ st.buf = w /\ st.result = "send_to"
      BY <2>1 DEF SrvState
    <3>2. srv' = st
      BY <2>4
    <3> HIDE DEF st
    <3>3. SrvOK(st) /\ Sends(st)
      BY <1>5, <1>6, <2>4, <3>1 DEF SrvOK, Sends
    <3>4. ReadyOK(st, ready', sent') /\ SeqOK(st, ready')
      BY <1>8, <3>1, NewOp DEF SeqOK, Idle
    <3> QED
      BY <1>1, <1>8, <2>2, <3>1, <3>2, <3>3, <3>4, ServerMoves
  <2> QED
    BY <1>12, <2>3, <2>4 DEF send_last_ack
<1> QED
  BY <1>7, <1>11, <1>12

\* The receive after the final ACK.
LEMMA LastInv ==
    ASSUME Inv, Running, Last
    PROVE  Step
<1> DEFINE h == Head(ready)
           lost == ~h.ec /\ LastAckLost(h.pkt)
           ag == ~h.ec /\ h.pkt.type = "DATA" /\ IsBlock(h.pkt, srv.block)
           ac == IF lost THEN 2 ELSE srv.acks
           st == [srv EXCEPT !.timer = FALSE, !.again = ag, !.acks = ac]
           a == Ack(Server, Client, srv.block)
<1>1. /\ ready # << >> /\ h.op = "last" /\ ready' = Tail(ready) /\ UNCHANGED client
      /\ srv' = st /\ sent' \in {sent, sent \cup {a}}
  BY DEF Last
<1>2. srv.op = "none" /\ srv.renamed /\ srv \in SrvState
  BY <1>1, OpTaken DEF OpOK, Inv, TypeOK
<1>3. ag \in BOOLEAN /\ ac \in 0 .. 2
  BY <1>2 DEF SrvState
<1> HIDE DEF ag, ac
<1>4. /\ st \in SrvState /\ st.op = srv.op /\ st.high = srv.high /\ st.block = srv.block
      /\ st.renamed = srv.renamed /\ st.buf = srv.buf /\ st.named = srv.named
      /\ st.last = srv.last /\ st.result = srv.result
  BY <1>2, <1>3 DEF SrvState
<1> HIDE DEF st
<1>5. SrvOK(st)
  BY <1>4 DEF Inv, SrvOK
<1>6. a \in Packet /\ a.type = "ACK" /\ a.seq <= Kept(st)
  <2>1. Server \in Address /\ Client \in Address /\ srv.block \in Nat
    BY <1>2, ServerAssumption DEF Address, SrvState
  <2>2. Kept(st) = srv.block
    BY <1>2, <1>4 DEF Kept
  <2> QED
    BY <2>1, <2>2 DEF Ack, Packet
<1> HIDE DEF a
<1>7. Sends(st)
  BY <1>1, <1>6 DEF Sends
<1> QED
  BY <1>1, <1>2, <1>4, <1>5, <1>7, ServerIdles

-----------------------------------------------------------------------------
(* The theorems.                                                           *)

\* Every step keeps Inv, and in order OrderInv.
LEMMA NextInv ==
    ASSUME Inv, [Next]_vars
    PROVE  Step
<1>1. CASE ClientNext /\ UNCHANGED <<srv, ready>>
  BY <1>1, ClientInv
<1>2. CASE Runs
  <2>1. Running
    BY <1>2 DEF Runs
  <2>2. CASE do_receive(TRUE) \/ do_receive(FALSE)
    BY <2>1, <2>2, do_receiveInv
  <2>3. CASE GivesUp \/ Waits \/ Throws
    BY <2>1, <2>3, SimpleHandlersInv
  <2>4. CASE Timer
    BY <2>1, <2>4, TimerInv
  <2>5. CASE check_and_write_block
    <3> DEFINE p == Head(ready).pkt
    <3>1. /\ H("data", FALSE)
          /\ \/ DataError(p) \/ DataBadOpcode(p) \/ DataRexmit(p)
             \/ DataFull(p) \/ DataLast(p)
      BY <2>5 DEF check_and_write_block
    <3> QED
      BY <2>1, <3>1, DataKeepsInv, DataFullInv, DataLastInv
  <2>6. CASE Last
    BY <2>1, <2>6, LastInv
  <2> QED
    BY <1>2, <2>2, <2>3, <2>4, <2>5, <2>6 DEF Runs
<1>3. CASE Completes
  BY <1>3, SentInv, OpFailedInv, ExpiredInv, ReturnInv DEF Completes
<1>4. CASE Receives
  BY <1>4, ReceivedInv DEF Receives
<1>5. CASE UNCHANGED vars
  <2>1. UNCHANGED <<client, sent, srv, ready>>
    BY <1>5 DEF vars
  <2>2. Inv'
    BY <2>1 DEF Inv, TypeOK, PutInv, DataOK, SrvOK, ReadyOK, OpOK, Idle
  <2>3. OrderInv => OrderInv'
    BY <2>1 DEF OrderInv, OrderOK, Stored, Kept, Acked
  <2>4. FTStep
    BY <2>1 DEF FTStep, FT!ftVars, Stored, Kept, Outcome, Running, Failing
  <2> QED
    BY <2>2, <2>3, <2>4 DEF Step
<1> QED
  BY <1>1, <1>2, <1>3, <1>4, <1>5 DEF Next

\* Inv is an invariant of AsyncUpload, whatever the network does.
THEOREM Invariance == Spec => []Inv
<1>1. Init => Inv
  BY InitInv
<1>2. Inv /\ [Next]_vars => Inv'
  BY NextInv DEF Step
<1> QED
  BY <1>1, <1>2, PTL DEF Spec

\* The variables of the client, the server and the queue of handlers keep
\* their types.
THEOREM TypeCorrect == Spec => []TypeOK
<1>1. Inv => TypeOK
  BY DEF Inv
<1> QED
  BY <1>1, Invariance, PTL

\* Once the file is in place no timeout that was already on its way makes
\* receive_file throw.
THEOREM PathIsReturned == Spec => []RenamedIsReturned
<1>1. Inv => RenamedIsReturned
  BY DEF Inv, SrvOK, RenamedIsReturned
<1> QED
  BY <1>1, Invariance, PTL

\* With datagrams in order and no wrap, OrderInv is invariant too.
THEOREM OrderInvariance == InOrder => (Spec => []OrderInv)
<1> SUFFICES ASSUME InOrder PROVE Spec => []OrderInv
  OBVIOUS
<1>1. Init => OrderInv
  BY InitInv
<1>2. Inv /\ OrderInv /\ [Next]_vars => OrderInv'
  BY NextInv DEF Step
<1> QED
  BY <1>1, <1>2, Invariance, PTL DEF Spec

\* The upload holds the blocks received so far, each once and in order.
THEOREM PrefixStored == InOrder => (Spec => []StoredIsPrefix)
<1> SUFFICES ASSUME InOrder PROVE Spec => []StoredIsPrefix
  OBVIOUS
<1>1. OrderInv => StoredIsPrefix
  BY DEF OrderInv, OrderOK, StoredIsPrefix, Stored
<1> QED
  BY <1>1, OrderInvariance, PTL

\* The file only gets its name when all its blocks are in it, and it has got it
\* when a client ends well: the client's last ACK is of a stored block.
THEOREM WholeFileRenamed == InOrder => (Spec => []RenamedIsWhole)
<1> SUFFICES ASSUME InOrder PROVE Spec => []RenamedIsWhole
  OBVIOUS
<1>1. Inv /\ OrderInv => RenamedIsWhole
  <2> SUFFICES ASSUME Inv, OrderInv PROVE RenamedIsWhole
    OBVIOUS
  <2>1. srv.renamed => srv.block = N /\ (srv.buf.lost \/ srv.buf.out = WholeFile)
    BY DEF OrderInv, OrderOK, Kept, WholeFile
  <2>2. ASSUME client.pc = "done", ~srv.renamed PROVE FALSE
    <3>1. Acked = N /\ N \in Nat \ {0}
      BY <2>2, SizesAssumption DEF Acked, Inv, PutInv
    <3>2. Stored <= N - 1
      BY <2>2, <3>1 DEF Stored, Kept, OrderInv, OrderOK, Inv, TypeOK, SrvState
    <3>3. Stored \in Nat /\ Acked <= Stored
      BY DEF Stored, Kept, OrderInv, Inv, TypeOK, SrvState
    <3> QED
      BY <3>1, <3>2, <3>3
  <2> QED
    BY <2>1, <2>2 DEF RenamedIsWhole
<1> QED
  BY <1>1, Invariance, OrderInvariance, PTL

\* With datagrams in order, the server implements FileTransfer: blocks are
\* stored once each and in order whatever comes again, nothing is stored once
\* an error is on its way, and a file in place is never touched again.
THEOREM Refinement == InOrder => (Spec => ImplementsFileTransfer)
<1> SUFFICES ASSUME InOrder PROVE Spec => ImplementsFileTransfer
  OBVIOUS
<1>1. Init => FT!FTInit
  BY InitBuffers DEF Init, FT!FTInit, Stored, Kept, Outcome, Running, Failing
<1>2. Inv /\ OrderInv /\ [Next]_vars => [FT!FTNext]_FT!ftVars
  BY NextInv DEF Step, FTStep
<1> QED
  BY <1>1, <1>2, Invariance, OrderInvariance, PTL
     DEF Spec, ImplementsFileTransfer, FT!FTSpec

=============================================================================
