----------------------------- MODULE PutLemmas -----------------------------
(***************************************************************************)
(* What a step of the client's sendfile keeps and what the servers may     *)
(* count on, for the proofs about Upload and AsyncUpload.                  *)
(***************************************************************************)
EXTENDS PutClient, TransferLemmas

\* A step of the client: PutInv is kept, whatever it sends fits, it sends no
\* ACK, and it only counts a block as delivered when the block's ACK is there.
PutStep ==
    /\ PutInv'
    /\ sent \subseteq sent' /\ sent' \subseteq Packet
    /\ \A p \in sent' : DataOK(p)'
    /\ \A p \in sent' \ sent : p.type # "ACK"
    /\ client'.block >= client.block
    /\ \/ Acked' = Acked
       \/ \E p \in sent : p.type = "ACK" /\ p.dst = Client /\ p.seq = Acked'

\* The packet at dp, when c holds its block in the current buffer.
HoldsBlock(c) ==
    /\ c \in ClientState
    /\ c.block <= N
    /\ c.block > 0 => /\ c.size = Size(c.block)
                      /\ c.buf.hdr[c.buf.current] = c.block
                      /\ c.buf.seg[c.buf.current] = c.block
    /\ \A ok \in BOOLEAN : SenderBuf(read_ahead(c.buf, ok), c.block)

\* Nothing but the client's own variables changes what the packets mean.
LEMMA OldPackets ==
    ASSUME client.block \in Nat, client'.block \in Nat, client'.block >= client.block,
           \A p \in sent : DataOK(p)
    PROVE  \A p \in sent : DataOK(p)'
BY DEF DataOK

\* sendto of the request or of a block, and the read ahead that follows.
LEMMA PutSends ==
    ASSUME PutInv, sent \subseteq Packet, \A p \in sent : DataOK(p),
           NEW c, HoldsBlock(c), c.block >= client.block, ClientSend(c)
    PROVE  /\ PutInv' /\ sent \subseteq sent' /\ sent' \subseteq Packet
           /\ \A p \in sent' : DataOK(p)'
           /\ \A p \in sent' \ sent : p.type # "ACK"
           /\ client'.block = c.block /\ client'.pc \in {"wait", "failed"}
<1>1. PICK ok \in BOOLEAN :
          \/ /\ client' = [c EXCEPT !.pc = "wait", !.buf = read_ahead(@, ok)]
             /\ sent' = sent \cup {dp(c)}
          \/ /\ client' = [c EXCEPT !.pc = "failed"]
             /\ UNCHANGED sent
  BY DEF ClientSend
<1> DEFINE g == read_ahead(c.buf, ok)
           d == dp(c)
<1>2. /\ c \in ClientState /\ c.block <= N /\ c.block \in Nat
      /\ SenderBuf(g, c.block) /\ g \in Buffers /\ client.block \in Nat
  BY DEF HoldsBlock, SenderBuf, ClientState, PutInv
<1>3. /\ d \in Packet /\ d.type \in {"WRQ", "DATA"}
      /\ d.type = "DATA" => /\ d.seq \in 1 .. c.block
                            /\ d.seg = d.seq /\ d.size = Size(d.seq)
  <2>1. CASE c.block = 0
    BY <1>2, <2>1 DEF dp, Request, Packet, ClientState, Address
  <2>2. CASE c.block # 0
    <3>1. d = Data(Client, c.from, c.buf, c.size) /\ c.block \in 1 .. c.block
      BY <1>2, <2>2 DEF dp
    <3>2. /\ c.size = Size(c.block) /\ c.size \in Nat
          /\ c.buf.hdr[c.buf.current] = c.block /\ c.buf.seg[c.buf.current] = c.block
      BY <1>2, <2>2, SizeType DEF HoldsBlock
    <3> QED
      BY <1>2, <3>1, <3>2 DEF Data, Packet, ClientState, Address
  <2> QED
    BY <2>1, <2>2
<1> HIDE DEF g, d
<1>4. \/ /\ client' = [c EXCEPT !.pc = "wait", !.buf = g] /\ sent' = sent \cup {d}
      \/ /\ client' = [c EXCEPT !.pc = "failed"] /\ UNCHANGED sent
  BY <1>1 DEF g, d
<1>5. /\ client' \in ClientState /\ client'.block = c.block /\ client'.size = c.size
      /\ client'.pc \in {"wait", "failed"}
      /\ client'.pc = "wait" => client'.buf = g
  BY <1>2, <1>4 DEF ClientState
<1>6. PutInv'
  BY <1>2, <1>5 DEF PutInv, HoldsBlock
<1>7. \A p \in sent : DataOK(p)'
  BY <1>2, <1>5, OldPackets
<1>8. d \in sent' => DataOK(d)'
  BY <1>3, <1>5 DEF DataOK
<1>9. /\ sent \subseteq sent' /\ sent' \subseteq Packet /\ sent' \subseteq sent \cup {d}
  BY <1>3, <1>4
<1> QED
  BY <1>3, <1>5, <1>6, <1>7, <1>8, <1>9

\* A waiting client still holds its block, whoever it now sends it to.
LEMMA StillHolds ==
    ASSUME PutInv, client.pc = "wait", NEW c \in ClientState,
           c.block = client.block, c.buf = client.buf, c.size = client.size
    PROVE  HoldsBlock(c)
<1>1. SenderBuf(c.buf, c.block) /\ c.block \in Nat /\ c.block <= N
  BY DEF PutInv, ClientState
<1>2. \A ok \in BOOLEAN : SenderBuf(read_ahead(c.buf, ok), c.block)
  BY <1>1, ResendKeepsBuffers
<1> QED
  BY <1>1, <1>2 DEF HoldsBlock, PutInv, SenderBuf

\* The request goes out from the buffers r_init leaves, and fills the other.
LEMMA RequestHolds ==
    ASSUME PutInv, client.pc = "idle"
    PROVE  HoldsBlock(client)
<1>1. client.block = 0 /\ client.buf = r_init /\ client \in ClientState
  BY DEF PutInv
<1>2. ASSUME NEW ok \in BOOLEAN
      PROVE  SenderBuf(read_ahead(r_init, ok), 0)
  <2> DEFINE cn == [r_init.counter EXCEPT ![1] = IF ok THEN Size(1) ELSE -1]
             sg == [r_init.seg EXCEPT ![1] = IF ok THEN 1 ELSE @]
             ps == IF ok THEN 1 ELSE 0
             g == [r_init EXCEPT !.counter = cn, !.seg = sg, !.nextone = 0, !.pos = ps]
  <2>1. /\ r_init \in Buffers /\ r_init.counter = [i \in 0 .. 1 |-> IF i = 0 THEN -3 ELSE -2]
        /\ r_init.nextone = 1 /\ r_init.current = 0 /\ r_init.pos = 0
        /\ r_init.hdr = [i \in 0 .. 1 |-> 0] /\ r_init.seg = [i \in 0 .. 1 |-> 0]
    BY InitBuffers DEF r_init, rw_init, BF_ALLOC, BF_FREE
  <2> HIDE DEF cn, sg, ps
  <2>2. read_ahead(r_init, ok) = g
    <3>1. r_init.counter[r_init.nextone] = BF_FREE
      BY <2>1 DEF BF_FREE
    <3>2. read_ahead(r_init, ok)
             = [r_init EXCEPT !.counter[1] = IF ok THEN Size(1) ELSE -1,
                              !.seg[1]     = IF ok THEN 1 ELSE @,
                              !.nextone    = 0,
                              !.pos        = IF ok THEN 1 ELSE 0]
      BY <2>1, <3>1 DEF read_ahead
    <3> QED
      BY <2>1, <3>2 DEF cn, sg, ps
  <2>3. /\ cn \in [0 .. 1 -> -3 .. SEGSIZE] /\ cn[0] = -3
        /\ cn[1] = IF ok THEN Size(1) ELSE -1
    <3>1. Size(1) \in -3 .. SEGSIZE
      BY SizesAssumption, SizeType
    <3> QED
      BY <2>1, <3>1, SizesAssumption DEF cn
  <2>4. sg \in [0 .. 1 -> Nat] /\ sg[0] = 0 /\ (ok => sg[1] = 1)
    BY <2>1 DEF sg
  <2>5. ps \in Nat /\ (ok => ps = 1)
    BY DEF ps
  <2>6. g \in Buffers
    BY <2>1, <2>3, <2>4, <2>5 DEF Buffers
  <2>7. /\ g.counter = cn /\ g.seg = sg /\ g.nextone = 0 /\ g.pos = ps
        /\ g.current = 0 /\ g.hdr[0] = 0
    BY <2>1 DEF Buffers
  <2> HIDE DEF g
  <2>8. ReadAhead(g, 1, 1)
    BY <2>3, <2>4, <2>5, <2>7 DEF ReadAhead
  <2>9. ReadAhead(g, 1 - g.current, 0 + 1)
    BY <2>7, <2>8
  <2>10. g.counter[g.current] # BF_FREE /\ g.seg[g.current] = 0
    BY <2>3, <2>4, <2>7 DEF BF_FREE
  <2>11. SenderBuf(g, 0)
    BY <2>6, <2>7, <2>9, <2>10 DEF SenderBuf
  <2> QED
    BY <2>2, <2>11
<1> QED
  BY <1>1, <1>2, SizesAssumption DEF HoldsBlock

\* recvfrom alone.
LEMMA PutRecv ==
    ASSUME PutInv, sent \subseteq Packet, NEW p \in ClientArriving
    PROVE  /\ p \in sent /\ p \in Packet /\ p.dst = Client /\ Fresh(p.seq, client.block)
           /\ client.pc = "wait"
           /\ ClientRecv(p) \in ClientState
           /\ ClientRecv(p).pc = "wait" /\ ClientRecv(p).block = client.block
           /\ ClientRecv(p).buf = client.buf /\ ClientRecv(p).size = client.size
           /\ ClientRecv(p).timeout = client.timeout
BY DEF ClientArriving, Arriving, ClientRecv, PutInv, ClientState, Packet

\* A client that sends nothing and stays at its block.
LEMMA PutStays ==
    ASSUME PutInv, sent \subseteq Packet, \A p \in sent : DataOK(p),
           client.pc = "wait", client' \in ClientState, UNCHANGED sent,
           client'.pc \in {"wait", "failed", "timedout"},
           client'.block = client.block, client'.buf = client.buf,
           client'.size = client.size
    PROVE  PutStep
<1>1. PutInv'
  BY DEF PutInv
<1>2. \A p \in sent : DataOK(p)'
  BY OldPackets DEF PutInv, ClientState
<1>3. Acked' = Acked
  BY DEF Acked
<1> QED
  BY <1>1, <1>2, <1>3 DEF PutStep, PutInv, ClientState

\* A client that sends its block again.
LEMMA PutResends ==
    ASSUME PutInv, sent \subseteq Packet, \A p \in sent : DataOK(p),
           client.pc \in {"idle", "wait"}, NEW c, HoldsBlock(c),
           c.block = client.block, ClientSend(c)
    PROVE  PutStep
<1>1. c.block >= client.block
  BY DEF PutInv, ClientState
<1>2. /\ PutInv' /\ sent \subseteq sent' /\ sent' \subseteq Packet
      /\ \A p \in sent' : DataOK(p)'
      /\ \A p \in sent' \ sent : p.type # "ACK"
      /\ client'.block = c.block /\ client'.pc \in {"wait", "failed"}
  BY <1>1, PutSends
<1>3. Acked' = Acked
  BY <1>2 DEF Acked
<1> QED
  BY <1>1, <1>2, <1>3 DEF PutStep

-----------------------------------------------------------------------------
(* The actions.                                                            *)

\* The awaited ACK with more to send: the next segment is taken from the
\* buffer that was read ahead.
LEMMA PutAcked ==
    ASSUME PutInv, sent \subseteq Packet, \A p \in sent : DataOK(p),
           NEW p \in ClientArriving, ClientAcked(p)
    PROVE  PutStep
<1> DEFINE k == client.block
           c == [ClientRecv(p) EXCEPT !.block = @ + 1]
<1>1. /\ p \in sent /\ p \in Packet /\ p.dst = Client /\ Fresh(p.seq, k)
      /\ client.pc = "wait" /\ ClientRecv(p) \in ClientState
      /\ ClientRecv(p).block = k /\ ClientRecv(p).buf = client.buf
      /\ p.type = "ACK" /\ IsBlock(p, k) /\ (k = 0 \/ client.size = SEGSIZE)
  BY PutRecv DEF ClientAcked
<1>2. /\ k \in Nat /\ k <= N /\ SenderBuf(client.buf, k)
      /\ k > 0 => client.size = Size(k)
  BY <1>1 DEF PutInv, ClientState
<1>3. p.seq = k
  BY <1>1, <1>2, SameBlock DEF IsBlock, Packet
<1>4. k + 1 \in 1 .. N
  <2>1. CASE k = 0
    BY <2>1, SizesAssumption
  <2>2. CASE k # 0
    BY <1>1, <1>2, <2>2, FullIsNotLast, SizesAssumption
  <2> QED
    BY <2>1, <2>2
<1>5. c \in ClientState /\ c.block = k + 1 /\ c.buf = client.buf
  BY <1>1, <1>2 DEF ClientState
<1>6. ClientNextBlock(c)
  BY DEF ClientAcked
<1> HIDE DEF c
<1>7. PICK ok \in BOOLEAN :
          LET b == readit(c.buf, ok)
              n == b.counter[b.current]
          IN  IF n < 0
              THEN /\ client' = [c EXCEPT !.pc = "failed", !.buf = b]
                   /\ sent' = sent \cup {nak(Client, c.from, c.block)}
              ELSE ClientSend([c EXCEPT !.buf = [b EXCEPT !.hdr[b.current] = c.block],
                                        !.size = n,
                                        !.timeout = 0])
  BY <1>6 DEF ClientNextBlock
<1> DEFINE b == readit(c.buf, ok)
           n == b.counter[b.current]
           h == [b EXCEPT !.hdr[b.current] = c.block]
           t == [c EXCEPT !.buf = h, !.size = n, !.timeout = 0]
           Acks == \E q \in sent : q.type = "ACK" /\ q.dst = Client /\ q.seq = k
<1>8. ReadBuf(b, c.block) /\ b \in Buffers /\ c.block \in Nat
  BY <1>2, <1>5, NextRead DEF ReadBuf
<1>9. Acks
  BY <1>1, <1>3
<1>10. CASE n < 0
  <2> DEFINE e == nak(Client, c.from, c.block)
  <2>1. client' = [c EXCEPT !.pc = "failed", !.buf = b] /\ sent' = sent \cup {e}
    BY <1>7, <1>10
  <2> HIDE DEF b
  <2>2. /\ client' \in ClientState /\ client'.pc = "failed" /\ client'.block = k + 1
    BY <1>5, <1>8, <2>1 DEF ClientState
  <2>3. e \in Packet /\ e.type = "ERROR"
    BY <1>5 DEF nak, Packet, ClientState, Address
  <2> HIDE DEF e
  <2>4. PutInv' /\ Acked' = k /\ client'.block >= client.block
    BY <1>2, <1>4, <2>2 DEF PutInv, Acked
  <2>5. \A q \in sent : DataOK(q)'
    BY <1>2, <2>2, <2>4, OldPackets
  <2>6. \A q : q.type = "ERROR" => DataOK(q)'
    BY DEF DataOK
  <2> QED
    BY <1>9, <2>1, <2>3, <2>4, <2>5, <2>6 DEF PutStep
<1>11. CASE ~(n < 0)
  <2>1. ClientSend(t)
    BY <1>7, <1>11
  <2> HIDE DEF b
  <2>2. n \in Int /\ n >= 0
    BY <1>8, <1>11 DEF Buffers
  <2>3. \A x \in BOOLEAN : SenderBuf(read_ahead(h, x), c.block)
    BY <1>8, <2>2, SendBlock
  <2>4. /\ h.hdr[h.current] = c.block /\ h.seg[h.current] = c.block
        /\ n = Size(c.block) /\ h \in Buffers
    BY <1>8, <2>2, SendBlock
  <2> HIDE DEF h, n
  <2>5. t \in ClientState /\ t.block = k + 1 /\ t.buf = h /\ t.size = n
    BY <1>2, <1>5, <2>4, SizeType DEF ClientState
  <2> HIDE DEF t
  <2>6. HoldsBlock(t)
    BY <1>4, <1>5, <2>3, <2>4, <2>5 DEF HoldsBlock
  <2>7. t.block >= client.block
    BY <1>2, <2>5
  <2>8. /\ PutInv' /\ sent \subseteq sent' /\ sent' \subseteq Packet
        /\ \A q \in sent' : DataOK(q)'
        /\ \A q \in sent' \ sent : q.type # "ACK"
        /\ client'.block = t.block /\ client'.pc \in {"wait", "failed"}
    BY <2>1, <2>6, <2>7, PutSends
  <2>9. Acked' = k /\ client'.block >= client.block
    BY <1>2, <2>5, <2>8 DEF Acked
  <2> QED
    BY <1>9, <2>8, <2>9 DEF PutStep
<1> QED
  BY <1>10, <1>11

\* The ACK of a short block, which is the last.
LEMMA PutAckedLast ==
    ASSUME PutInv, sent \subseteq Packet, \A p \in sent : DataOK(p),
           NEW p \in ClientArriving, ClientAckedLast(p)
    PROVE  PutStep
<1> DEFINE k == client.block
<1>1. /\ p \in sent /\ p \in Packet /\ p.dst = Client /\ Fresh(p.seq, k)
      /\ client.pc = "wait" /\ ClientRecv(p) \in ClientState
      /\ ClientRecv(p).block = k /\ p.type = "ACK" /\ IsBlock(p, k)
      /\ k # 0 /\ client.size # SEGSIZE
      /\ client' = [ClientRecv(p) EXCEPT !.pc = "done"] /\ UNCHANGED sent
  BY PutRecv DEF ClientAckedLast
<1>2. k \in 1 .. N /\ client.size = Size(k)
  BY <1>1, SizesAssumption DEF PutInv, ClientState
<1>3. k = N
  BY <1>1, <1>2, FullIsNotLast, SizesAssumption
<1>4. p.seq = k
  BY <1>1, <1>2, SameBlock DEF IsBlock, Packet
<1>5. client' \in ClientState /\ client'.pc = "done" /\ client'.block = k
  BY <1>1 DEF ClientState
<1>6. PutInv' /\ Acked' = k /\ client'.block >= client.block
  BY <1>2, <1>3, <1>5 DEF PutInv, Acked
<1>7. \A q \in sent : DataOK(q)'
  BY <1>2, <1>5, <1>6, OldPackets
<1> QED
  BY <1>1, <1>4, <1>6, <1>7 DEF PutStep

\* SIGALRM: the block is sent again, to whoever spoke last, or put gives up.
LEMMA PutTimer ==
    ASSUME PutInv, sent \subseteq Packet, \A p \in sent : DataOK(p), ClientTimer
    PROVE  PutStep
<1>1. PICK d \in {client} \cup {ClientRecv(p) : p \in ClientArriving} :
          LET c == [d EXCEPT !.timeout = Elapsed(@, ClientRexmt)]
          IN  IF c.timeout >= ClientMax
              THEN /\ client' = [c EXCEPT !.pc = "timedout"]
                   /\ UNCHANGED sent
              ELSE ClientSend(c)
  BY DEF ClientTimer
<1> DEFINE c == [d EXCEPT !.timeout = Elapsed(@, ClientRexmt)]
<1>2. client.pc = "wait"
  BY DEF ClientTimer
<1>3. /\ d \in ClientState /\ d.block = client.block /\ d.buf = client.buf
      /\ d.size = client.size /\ d.pc = "wait"
  BY <1>2, PutRecv DEF PutInv
<1>4. /\ c \in ClientState /\ c.block = client.block /\ c.buf = client.buf
      /\ c.size = client.size
  BY <1>3, ClientTimerAssumption DEF ClientState, Elapsed
<1>5. CASE c.timeout >= ClientMax
  <2>1. client' = [c EXCEPT !.pc = "timedout"] /\ UNCHANGED sent
    BY <1>1, <1>5
  <2> HIDE DEF c
  <2>2. /\ client' \in ClientState /\ client'.pc = "timedout"
        /\ client'.block = client.block /\ client'.buf = client.buf
        /\ client'.size = client.size
    BY <1>4, <2>1 DEF ClientState
  <2> QED
    BY <1>2, <2>1, <2>2, PutStays
<1>6. CASE ~(c.timeout >= ClientMax)
  <2>1. ClientSend(c)
    BY <1>1, <1>6
  <2> HIDE DEF c
  <2> QED
    BY <1>2, <1>4, <2>1, StillHolds, PutResends
<1> QED
  BY <1>5, <1>6

\* Every step of the client is a PutStep.
LEMMA PutKeeps ==
    ASSUME PutInv, sent \subseteq Packet, \A p \in sent : DataOK(p), ClientNext
    PROVE  PutStep
<1>1. CASE ClientPut
  BY <1>1, RequestHolds, PutResends DEF ClientPut, PutInv
<1>2. CASE ClientTimer
  BY <1>2, PutTimer
<1>3. ASSUME NEW p \in ClientArriving, ClientAcked(p) PROVE PutStep
  BY <1>3, PutAcked
<1>4. ASSUME NEW p \in ClientArriving, ClientAckedLast(p) PROVE PutStep
  BY <1>4, PutAckedLast
<1>5. ASSUME NEW p \in ClientArriving, ClientResend(p) PROVE PutStep
  BY <1>5, PutRecv, StillHolds, PutResends DEF ClientResend
<1>6. ASSUME NEW p \in ClientArriving, ClientIgnore(p) PROVE PutStep
  BY <1>6, PutRecv, PutStays DEF ClientIgnore
<1>7. ASSUME NEW p \in ClientArriving, ClientError(p) PROVE PutStep
  <2>1. client' = [ClientRecv(p) EXCEPT !.pc = "failed"] /\ UNCHANGED sent
    BY <1>7 DEF ClientError
  <2>2. /\ client' \in ClientState /\ client'.pc = "failed"
        /\ client'.block = client.block /\ client'.buf = client.buf
        /\ client'.size = client.size
    BY <2>1, PutRecv DEF ClientState
  <2> QED
    BY <2>1, <2>2, PutRecv, PutStays
<1> QED
  BY <1>1, <1>2, <1>3, <1>4, <1>5, <1>6, <1>7 DEF ClientNext

=============================================================================
