--------------------------- MODULE DownloadProofs ---------------------------
(***************************************************************************)
(* Download keeps its inductive invariant Inv, for any number of tftpds,   *)
(* any file and any wrap of the block numbers.                             *)
(***************************************************************************)
EXTENDS Download, TransferLemmas

\* Nothing is accepted, sent or buffered at the start.
LEMMA InitInv == Init => Inv
<1> SUFFICES ASSUME Init PROVE Inv
  OBVIOUS
<1>1. TypeOK
  BY InitBuffers, SizesAssumption
     DEF Init, TypeOK, ClientState, ServerState, ReceiverBuf, Address
<1>2. ClientInv
  BY InitBuffers, PrefixOfNothing, SizesAssumption
     DEF Init, ClientInv, ReceivedIsPrefix, Accepted
<1>3. \A s \in Servers : ServerOK(server[s])
  BY DEF Init, ServerOK
<1>4. \A p \in sent : PacketOK(p)
  BY DEF Init
<1> QED
  BY <1>1, <1>2, <1>3, <1>4 DEF Inv

-----------------------------------------------------------------------------
(* What a step of one process leaves for the others.                       *)

\* The client moved: the tftpds and the packets on their way still fit.
LEMMA ClientStep ==
    ASSUME Inv, client' \in ClientState, ClientInv',
           client.pc # "done", client'.block >= client.block,
           UNCHANGED server,
           \/ UNCHANGED sent
           \/ \E p \in Packet : /\ sent' = sent \cup {p}
                                /\ \/ p.type = "RRQ"
                                   \/ p.type = "ACK" /\ p.seq \in 1 .. Accepted'
    PROVE  Inv'
<1>1. sent' \subseteq Packet /\ TypeOK'
  BY DEF Inv, TypeOK
<1>2. \A s \in Servers : ServerOK(server[s])'
  BY DEF Inv, TypeOK, ServerOK, ServerState, ClientState
<1>3. Accepted \in Nat /\ Accepted' \in Nat /\ Accepted <= Accepted'
  BY DEF Inv, TypeOK, ClientState, Accepted
<1>4. \A p \in sent : PacketOK(p)'
  BY <1>3 DEF Inv, PacketOK
<1>5. \A p \in sent' : PacketOK(p)'
  BY <1>4 DEF PacketOK
<1> QED
  BY <1>1, <1>2, <1>5 DEF Inv

\* The tftpd s moved to st: the client and the other tftpds do not notice.
LEMMA ServerStep ==
    ASSUME Inv, NEW s \in Servers, NEW st \in ServerState, ServerOK(st),
           server' = [server EXCEPT ![s] = st],
           UNCHANGED client,
           \/ UNCHANGED sent
           \/ \E p \in Packet : /\ sent' = sent \cup {p}
                                /\ p.type # "ACK" /\ PacketOK(p)
    PROVE  Inv'
<1>1. TypeOK'
  BY DEF Inv, TypeOK
<1>2. ClientInv'
  BY DEF Inv, ClientInv, ReceivedIsPrefix, Accepted
<1>3. \A t \in Servers : ServerOK(server'[t])
  BY DEF Inv, TypeOK
<1>4. \A t \in Servers : ServerOK(server[t])'
  BY <1>3 DEF ServerOK
<1>5. \A p \in sent' : PacketOK(p)'
  BY DEF Inv, PacketOK, Accepted
<1> QED
  BY <1>1, <1>2, <1>4, <1>5 DEF Inv

-----------------------------------------------------------------------------
(* What a step of the client is to FileTransfer.                           *)

\* A step of FileTransfer, or one it does not see.
FTStep == [FT!FTNext]_FT!ftVars

\* Waiting on, and giving up, with the file as it was.
LEMMA KeepsFile ==
    ASSUME client.pc \in {"idle", "wait"}, client'.pc \in {"wait", "failed", "timedout"},
           client'.block = client.block,
           client'.buf.out = client.buf.out, client'.buf.lost = client.buf.lost
    PROVE  FTStep
<1>1. UNCHANGED <<Accepted, client.buf.out, client.buf.lost>>
  BY DEF Accepted
<1>2. CASE client'.pc = "wait"
  BY <1>1, <1>2 DEF FTStep, FT!ftVars
<1>3. CASE client'.pc # "wait"
  BY <1>1, <1>3 DEF FTStep, FT!FTNext, FT!Fail
<1> QED
  BY <1>2, <1>3

\* Accepting block k: it is stored, or its write fails, or it is empty.
LEMMA StoresBlock ==
    ASSUME NEW k \in 1 .. N, client.pc = "wait", client.block = k,
           client.buf.lost \in BOOLEAN, NEW ok \in BOOLEAN,
           client'.buf.out = IF Size(k) > 0 /\ ok THEN Append(client.buf.out, k)
                                                 ELSE client.buf.out,
           client'.buf.lost = (client.buf.lost \/ (Size(k) > 0 /\ ~ok)),
           \/ client'.pc \in {"wait", "failed"} /\ client'.block = k + 1 /\ k < N
           \/ client'.pc = "done" /\ client'.block = k /\ k = N
    PROVE  FTStep
<1>1. Accepted = k - 1 /\ Accepted' = k /\ Accepted < N /\ Accepted' = Accepted + 1
  BY SizesAssumption DEF Accepted
<1>2. Size(k) \in Nat
  BY SizeType, SizesAssumption
<1>3. FT!Store(k)
  <2>1. FT!Size(k) = Size(k)
    BY DEF FT!Size, Size
  <2>2. CASE Size(k) > 0 /\ ok
    <3>1. client'.buf.out = Append(client.buf.out, k) /\ client'.buf.lost = client.buf.lost
      BY <2>2, Zenon
    <3> QED
      BY <2>1, <2>2, <3>1 DEF FT!Store
  <2>3. CASE Size(k) > 0 /\ ~ok
    <3>1. client'.buf.out = client.buf.out /\ client'.buf.lost = TRUE
      BY <2>3, Zenon
    <3> QED
      BY <2>1, <2>3, <3>1 DEF FT!Store
  <2>4. CASE ~(Size(k) > 0)
    <3>1. client'.buf.out = client.buf.out /\ client'.buf.lost = client.buf.lost
      BY <2>4, Zenon
    <3> QED
      BY <1>2, <2>1, <2>4, <3>1 DEF FT!Store
  <2> QED
    BY <2>2, <2>3, <2>4
<1>4. FT!Store(Accepted')
  BY <1>1, <1>3
<1>5. FT!Accept
  BY <1>1, <1>4 DEF FT!Accept
<1> QED
  BY <1>5 DEF FTStep, FT!FTNext

-----------------------------------------------------------------------------
(* The client.                                                             *)

\* Sending with nothing to flush (the request, a resent ACK) changes neither
\* the file nor the count of accepted blocks.
LEMMA ClientSendAgain ==
    ASSUME Inv, NEW c \in ClientState, client.pc \in {"idle", "wait"},
           c.pc = client.pc, c.block = client.block, ReceiverBuf(c.buf),
           c.buf.out = client.buf.out, c.buf.lost = client.buf.lost,
           ClientSend(c, ackbuf(c)), UNCHANGED server
    PROVE  Inv' /\ FTStep
<1>1. PICK ok \in BOOLEAN :
          \/ /\ client' = [c EXCEPT !.pc = "wait", !.buf = write_behind(@, ok)]
             /\ sent' = sent \cup {ackbuf(c)}
          \/ /\ client' = [c EXCEPT !.pc = "failed", !.buf = write_behind(@, ok)]
             /\ UNCHANGED sent
  BY DEF ClientSend, ClientClose
<1>2. write_behind(c.buf, ok) = c.buf
  BY NothingToFlush
<1>3. /\ client' \in ClientState /\ client'.block = client.block /\ client'.buf = c.buf
      /\ client'.pc \in {"wait", "failed"}
  BY <1>1, <1>2 DEF ClientState
<1>4. ClientInv'
  BY <1>3 DEF Inv, ClientInv, ReceivedIsPrefix, Accepted
<1>5. /\ ackbuf(c) \in Packet
      /\ \/ ackbuf(c).type = "RRQ"
         \/ ackbuf(c).type = "ACK" /\ ackbuf(c).seq \in 1 .. Accepted'
  BY <1>3 DEF ackbuf, Request, Ack, Packet, ClientState, Address, Accepted
<1>6. client.pc # "done" /\ client'.block >= client.block
  BY <1>3 DEF Inv, TypeOK, ClientState
<1>7. FTStep
  BY <1>3, KeepsFile
<1> QED
  BY <1>1, <1>3, <1>4, <1>5, <1>6, <1>7, ClientStep

\* recvfrom alone.
LEMMA ClientRecvOK ==
    ASSUME Inv, client.pc = "wait", NEW p \in sent
    PROVE  LET c == ClientRecv(p)
           IN  /\ c \in ClientState /\ c.pc = "wait" /\ c.block = client.block
               /\ c.timeout = client.timeout /\ c.from = p.src
               /\ c.buf = recv(client.buf, p)
               /\ ReceiverBuf(c.buf)
               /\ c.buf.out = client.buf.out /\ c.buf.lost = client.buf.lost
<1>1. p \in Packet /\ ReceiverBuf(client.buf)
  BY DEF Inv, TypeOK, ClientInv
<1>2. /\ ReceiverBuf(recv(client.buf, p))
      /\ recv(client.buf, p).out = client.buf.out
      /\ recv(client.buf, p).lost = client.buf.lost
  BY <1>1, RecvKeeps
<1>3. recv(client.buf, p) \in Buffers
  BY <1>2 DEF ReceiverBuf
<1> QED
  BY <1>1, <1>2, <1>3 DEF ClientRecv, Inv, TypeOK, ClientState, Packet

\* The read request goes out before anything was received.
LEMMA ClientGetInv == Inv /\ ClientGet => Inv' /\ FTStep
BY ClientSendAgain DEF ClientGet, Inv, TypeOK, ClientInv

\* Resending an ACK leaves the file as it is.
LEMMA ClientResendInv ==
    ASSUME Inv, NEW p \in ClientArriving, ClientResend(p)
    PROVE  Inv' /\ FTStep
BY ClientRecvOK, ClientSendAgain DEF ClientResend, ClientArriving, Arriving

\* The client leaves the loop, or just looks at the packet.
LEMMA ClientIgnoreInv ==
    ASSUME Inv, NEW p \in ClientArriving, ClientIgnore(p) \/ ClientError(p)
    PROVE  Inv' /\ FTStep
<1>1. p \in sent /\ client.pc = "wait"
  BY DEF ClientArriving, Arriving
<1>2. /\ client' \in ClientState /\ client'.pc \in {"wait", "failed"}
      /\ client'.block = client.block /\ client'.buf = ClientRecv(p).buf
  <2>1. \A ok \in BOOLEAN : write_behind(ClientRecv(p).buf, ok) = ClientRecv(p).buf
    BY <1>1, ClientRecvOK, NothingToFlush
  <2> QED
    BY <1>1, <2>1, ClientRecvOK DEF ClientIgnore, ClientError, ClientClose, ClientState
<1>3. ClientInv'
  BY <1>1, <1>2, ClientRecvOK DEF Inv, ClientInv, ReceivedIsPrefix, Accepted
<1>4. client'.block >= client.block
  BY <1>2 DEF Inv, TypeOK, ClientState
<1>5. FTStep
  BY <1>1, <1>2, ClientRecvOK, KeepsFile
<1> QED
  BY <1>1, <1>2, <1>3, <1>4, <1>5, ClientStep DEF ClientIgnore, ClientError

\* A timeout, which may drop a packet just received, resends or gives up.
LEMMA ClientTimerInv == Inv /\ ClientTimer => Inv' /\ FTStep
<1> SUFFICES ASSUME Inv, ClientTimer PROVE Inv' /\ FTStep
  OBVIOUS
<1>1. PICK c \in {client} \cup {ClientRecv(p) : p \in ClientArriving} :
          IF c.timeout + ClientRexmt >= ClientMax
          THEN /\ client' = [c EXCEPT !.pc = "timedout",
                                      !.timeout = c.timeout + ClientRexmt]
               /\ UNCHANGED sent
          ELSE ClientSend([c EXCEPT !.timeout = c.timeout + ClientRexmt], ackbuf(c))
  BY DEF ClientTimer, Elapsed
<1>2. client.pc = "wait" /\ UNCHANGED server
  BY DEF ClientTimer
<1>3. /\ c \in ClientState /\ c.pc = "wait" /\ c.block = client.block
      /\ ReceiverBuf(c.buf)
      /\ c.buf.out = client.buf.out /\ c.buf.lost = client.buf.lost
  BY <1>2, ClientRecvOK DEF Inv, TypeOK, ClientInv, ClientArriving, Arriving
<1> DEFINE d == [c EXCEPT !.timeout = c.timeout + ClientRexmt]
<1>4. /\ d \in ClientState /\ d.pc = "wait" /\ d.block = client.block /\ d.buf = c.buf
      /\ d.from = c.from
  BY <1>3, TimerAssumption DEF ClientState
<1>5. CASE c.timeout + ClientRexmt >= ClientMax
  <2>0. client' = [d EXCEPT !.pc = "timedout"] /\ UNCHANGED sent
    BY <1>1, <1>3, <1>5 DEF ClientState
  <2> HIDE DEF d
  <2>1. /\ client' \in ClientState /\ client'.block = client.block
        /\ client'.buf = c.buf /\ client'.pc = "timedout"
    BY <1>4, <2>0 DEF ClientState
  <2>2. ClientInv'
    BY <1>2, <1>3, <2>1 DEF Inv, ClientInv, ReceivedIsPrefix, Accepted
  <2>3. client'.block >= client.block
    BY <2>1 DEF Inv, TypeOK, ClientState
  <2>4. FTStep
    BY <1>2, <1>3, <2>1, KeepsFile
  <2> QED
    BY <1>2, <2>0, <2>1, <2>2, <2>3, <2>4, ClientStep
<1>6. CASE ~(c.timeout + ClientRexmt >= ClientMax)
  <2>1. ackbuf(d) = ackbuf(c)
    BY <1>3, <1>4 DEF ackbuf
  <2> QED
    BY <1>1, <1>2, <1>3, <1>4, <1>6, <2>1, ClientSendAgain
<1> QED
  BY <1>5, <1>6

\* The packet that passes th_block == block is the block awaited.
LEMMA AwaitedBlock ==
    ASSUME Inv, NEW p \in ClientArriving, p.type = "DATA", IsBlock(p, client.block)
    PROVE  /\ p \in sent /\ p \in Packet /\ client.pc = "wait"
           /\ p.seq = client.block /\ p.seg = p.seq /\ p.size = Size(p.seq)
           /\ p.seq \in 1 .. N
<1>1. /\ p \in sent /\ p \in Packet /\ client.pc = "wait" /\ PacketOK(p)
      /\ Fresh(p.seq, client.block)
  BY DEF ClientArriving, Arriving, Inv, TypeOK
<1>2. p.seq \in Nat /\ client.block \in Nat
  BY <1>1 DEF Packet, Inv, TypeOK, ClientState
<1>3. p.seq = client.block
  BY <1>1, <1>2, SameBlock DEF IsBlock
<1> QED
  BY <1>1, <1>3 DEF PacketOK

\* Storing the awaited block makes the file one block longer.
LEMMA StoreAwaited ==
    ASSUME Inv, NEW p \in ClientArriving, p.type = "DATA", IsBlock(p, client.block),
           NEW ok1 \in BOOLEAN, NEW ok2 \in BOOLEAN
    PROVE  LET w == write_behind(writeit(ClientRecv(p).buf, p.size, ok1), ok2)
               k == client.block
           IN  /\ ReceiverBuf(w)
               /\ w.lost \/ w.out = FilePrefix(k)
               /\ w.out = IF Size(k) > 0 /\ ok2 THEN Append(client.buf.out, k)
                                               ELSE client.buf.out
               /\ w.lost = (client.buf.lost \/ (Size(k) > 0 /\ ~ok2))
<1> DEFINE w == write_behind(writeit(recv(client.buf, p), p.size, ok1), ok2)
<1>1. /\ p \in sent /\ p \in Packet /\ client.pc = "wait" /\ p.seq = client.block
      /\ p.seg = client.block /\ p.size = Size(client.block) /\ client.block \in 1 .. N
  BY AwaitedBlock
<1>2. p.size \in 0 .. SEGSIZE /\ ReceiverBuf(client.buf)
  BY <1>1, SizeType DEF Inv, ClientInv
<1>3. /\ ReceiverBuf(w)
      /\ w.out = IF p.size > 0 /\ ok2 THEN Append(client.buf.out, p.seg) ELSE client.buf.out
      /\ w.lost = (client.buf.lost \/ (p.size > 0 /\ ~ok2))
  BY <1>1, <1>2, AcceptFlush
<1>4. client.buf.lost \/ client.buf.out = FilePrefix(client.block - 1)
  BY <1>1 DEF Inv, ClientInv, ReceivedIsPrefix, Accepted
<1>5. w.lost \/ w.out = FilePrefix(client.block)
  BY <1>1, <1>2, <1>3, <1>4, PrefixGrows
<1>6. ClientRecv(p).buf = recv(client.buf, p)
  BY <1>1, ClientRecvOK
<1>7. /\ w.out = IF Size(client.block) > 0 /\ ok2 THEN Append(client.buf.out, client.block)
                                                  ELSE client.buf.out
      /\ w.lost = (client.buf.lost \/ (Size(client.block) > 0 /\ ~ok2))
  BY <1>1, <1>3, Zenon
<1> HIDE DEF w
<1> QED
  BY <1>3, <1>5, <1>6, <1>7 DEF w

\* A full block is stored, counted and acknowledged.
LEMMA ClientAcceptInv ==
    ASSUME Inv, NEW p \in ClientArriving, ClientAccept(p)
    PROVE  Inv' /\ FTStep
<1>1. PICK ok1 \in BOOLEAN :
          LET c == [ClientRecv(p) EXCEPT !.buf = writeit(@, p.size, ok1),
                                         !.block = @ + 1,
                                         !.timeout = 0]
          IN  ClientSend(c, ackbuf(c))
  BY DEF ClientAccept
<1> DEFINE r == ClientRecv(p)
           c == [r EXCEPT !.buf = writeit(@, p.size, ok1), !.block = @ + 1, !.timeout = 0]
<1>2. /\ p.type = "DATA" /\ IsBlock(p, client.block) /\ p.size = SEGSIZE
      /\ UNCHANGED server
  BY DEF ClientAccept
<1>3. /\ p \in sent /\ client.pc = "wait" /\ client.block \in 1 .. N
      /\ client.block < N
  BY <1>2, AwaitedBlock, FullIsNotLast
<1>4. PICK ok2 \in BOOLEAN :
          \/ /\ client' = [c EXCEPT !.pc = "wait", !.buf = write_behind(@, ok2)]
             /\ sent' = sent \cup {ackbuf(c)}
          \/ /\ client' = [c EXCEPT !.pc = "failed", !.buf = write_behind(@, ok2)]
             /\ UNCHANGED sent
  BY <1>1 DEF ClientSend, ClientClose
<1> DEFINE w == write_behind(writeit(r.buf, p.size, ok1), ok2)
<1>5. r \in ClientState /\ r.block = client.block /\ r.pc = "wait"
  BY <1>3, ClientRecvOK
<1>6. ReceiverBuf(w) /\ (w.lost \/ w.out = FilePrefix(client.block)) /\ w \in Buffers
  BY <1>2, StoreAwaited DEF ReceiverBuf
<1>6b. /\ w.out = IF Size(client.block) > 0 /\ ok2 THEN Append(client.buf.out, client.block)
                                                   ELSE client.buf.out
       /\ w.lost = (client.buf.lost \/ (Size(client.block) > 0 /\ ~ok2))
       /\ client.buf.lost \in BOOLEAN
  BY <1>2, StoreAwaited DEF Inv, TypeOK, ClientState, Buffers
<1> HIDE DEF r
<1>7. /\ \E x \in {"wait", "failed"} :
             client' = [r EXCEPT !.pc = x, !.buf = w, !.block = client.block + 1,
                                 !.timeout = 0]
      /\ c.block = client.block + 1 /\ c.from = r.from
  <2>1. /\ c = [r EXCEPT !.buf = writeit(r.buf, p.size, ok1), !.block = client.block + 1,
                         !.timeout = 0]
        /\ c.block = client.block + 1 /\ c.from = r.from
        /\ c.buf = writeit(r.buf, p.size, ok1)
    BY <1>5 DEF ClientState
  <2>2. \A x : [c EXCEPT !.pc = x, !.buf = write_behind(@, ok2)]
                 = [r EXCEPT !.pc = x, !.buf = w, !.block = client.block + 1, !.timeout = 0]
    <3>1. \A x : [c EXCEPT !.pc = x, !.buf = write_behind(@, ok2)]
                    = [c EXCEPT !.pc = x, !.buf = w]
      BY <2>1
    <3> HIDE DEF w
    <3> QED
      BY <1>5, <2>1, <3>1 DEF ClientState
  <2> HIDE DEF c
  <2> QED
    BY <1>4, <2>1, <2>2
<1> HIDE DEF w, c
<1>8. /\ client' \in ClientState /\ client'.block = client.block + 1
      /\ client'.buf = w /\ client'.pc \in {"wait", "failed"}
  <2>1. PICK x \in {"wait", "failed"} :
            client' = [r EXCEPT !.pc = x, !.buf = w, !.block = client.block + 1,
                                !.timeout = 0]
    BY <1>7
  <2>2. client.block + 1 \in Nat \ {0} /\ w \in Buffers
    BY <1>3, <1>6
  <2> QED
    BY <1>5, <2>1, <2>2 DEF ClientState
<1>9. ClientInv'
  BY <1>3, <1>6, <1>8, SizesAssumption DEF ClientInv, ReceivedIsPrefix, Accepted
<1>10. /\ ackbuf(c) \in Packet
       /\ ackbuf(c).type = "ACK" /\ ackbuf(c).seq \in 1 .. Accepted'
  BY <1>3, <1>5, <1>7, <1>8 DEF ackbuf, Ack, Packet, ClientState, Address, Accepted
<1>11. client.pc # "done" /\ client'.block >= client.block
  BY <1>3, <1>8
<1>12. FTStep
  BY <1>3, <1>6b, <1>8, StoresBlock
<1> QED
  BY <1>2, <1>4, <1>8, <1>9, <1>10, <1>11, <1>12, ClientStep

\* A short block completes the file.
LEMMA ClientAcceptLastInv ==
    ASSUME Inv, NEW p \in ClientArriving, ClientAcceptLast(p)
    PROVE  Inv' /\ FTStep
<1> DEFINE r == ClientRecv(p)
<1>1. PICK ok1 \in BOOLEAN, ok2 \in BOOLEAN :
          client' = ClientClose([r EXCEPT !.buf = writeit(@, p.size, ok1)], "done", ok2)
  BY DEF ClientAcceptLast
<1>2. /\ p.type = "DATA" /\ IsBlock(p, client.block) /\ p.size # SEGSIZE
      /\ sent' = sent \cup {Ack(Client, p.src, client.block)}
      /\ UNCHANGED server
  BY DEF ClientAcceptLast
<1>3. /\ p \in sent /\ p \in Packet /\ client.pc = "wait" /\ client.block \in 1 .. N
      /\ client.block = N
  BY <1>2, AwaitedBlock, FullIsNotLast, SizesAssumption
<1> DEFINE w == write_behind(writeit(r.buf, p.size, ok1), ok2)
<1>4. r \in ClientState /\ r.block = client.block
  BY <1>3, ClientRecvOK
<1>5. ReceiverBuf(w) /\ (w.lost \/ w.out = FilePrefix(client.block)) /\ w \in Buffers
  BY <1>2, StoreAwaited DEF ReceiverBuf
<1>5b. /\ w.out = IF Size(client.block) > 0 /\ ok2 THEN Append(client.buf.out, client.block)
                                                   ELSE client.buf.out
       /\ w.lost = (client.buf.lost \/ (Size(client.block) > 0 /\ ~ok2))
       /\ client.buf.lost \in BOOLEAN
  BY <1>2, StoreAwaited DEF Inv, TypeOK, ClientState, Buffers
<1> HIDE DEF r
<1>6. client' = [r EXCEPT !.pc = "done", !.buf = w]
  BY <1>1, <1>4 DEF ClientClose, ClientState
<1> HIDE DEF w
<1>7. /\ client' \in ClientState /\ client'.block = client.block
      /\ client'.buf = w /\ client'.pc = "done"
  BY <1>4, <1>5, <1>6 DEF ClientState
<1>8. ClientInv'
  BY <1>3, <1>5, <1>7 DEF ClientInv, ReceivedIsPrefix, Accepted
<1> DEFINE a == Ack(Client, p.src, client.block)
<1>9. a \in Packet /\ a.type = "ACK" /\ a.seq \in 1 .. Accepted'
  BY <1>3, <1>7 DEF Ack, Packet, Address, Accepted
<1>10. client.pc # "done" /\ client'.block >= client.block
  BY <1>3, <1>7
<1>11. FTStep
  BY <1>3, <1>5b, <1>7, StoresBlock
<1> HIDE DEF a
<1> QED
  BY <1>2, <1>7, <1>8, <1>9, <1>10, <1>11, ClientStep DEF a

-----------------------------------------------------------------------------
(* A tftpd.                                                                *)

\* Resending the block in the current buffer changes nothing else.
LEMMA ServerSendAgain ==
    ASSUME Inv, NEW s \in Servers, server[s].pc = "wait",
           NEW st \in ServerState, st.pc = "wait", st.block = server[s].block,
           st.buf = server[s].buf, st.size = server[s].size,
           ServerSend(s, st), UNCHANGED client
    PROVE  Inv'
<1>1. PICK ok \in BOOLEAN :
          \/ /\ server' = [server EXCEPT ![s] =
                              [st EXCEPT !.pc = "wait", !.buf = read_ahead(@, ok)]]
             /\ sent' = sent \cup {Data(s, Client, st.buf, st.size)}
          \/ /\ server' = [server EXCEPT ![s] = [st EXCEPT !.pc = "aborted"]]
             /\ UNCHANGED sent
  BY DEF ServerSend
<1>2. /\ ServerOK(server[s]) /\ st.block \in Nat /\ st.block \in 1 .. N
      /\ SenderBuf(st.buf, st.block) /\ st.size = Size(st.block)
  BY DEF Inv, ServerOK, ServerState
<1>3. read_ahead(st.buf, ok) = st.buf
  BY <1>2, ResendKeepsBuffers
<1>4. [st EXCEPT !.pc = "wait", !.buf = read_ahead(@, ok)] = st
  BY <1>3 DEF ServerState
<1>5. ServerOK(st)
  BY <1>2 DEF ServerOK
<1>6. /\ [st EXCEPT !.pc = "aborted"] \in ServerState
      /\ ServerOK([st EXCEPT !.pc = "aborted"])
  BY DEF ServerState, ServerOK
<1> DEFINE d == Data(s, Client, st.buf, st.size)
<1>7. d \in Packet /\ d.type = "DATA" /\ PacketOK(d)
  BY <1>2, SizeType, SizesAssumption DEF Data, Packet, PacketOK, SenderBuf, Address
<1> HIDE DEF d
<1>8. CASE server' = [server EXCEPT ![s] = st] /\ sent' = sent \cup {d}
  BY <1>5, <1>7, <1>8, ServerStep
<1>9. CASE /\ server' = [server EXCEPT ![s] = [st EXCEPT !.pc = "aborted"]]
           /\ UNCHANGED sent
  BY <1>6, <1>9, ServerStep
<1> QED
  BY <1>1, <1>4, <1>8, <1>9 DEF d

\* A timeout of tftpd resends the block it still holds, or ends it.
LEMMA ServerTimerInv ==
    ASSUME Inv, NEW s \in Servers, ServerTimer(s)
    PROVE  Inv'
<1> DEFINE st == [server[s] EXCEPT !.timeout = Elapsed(@, ServerRexmt)]
<1>1. server[s].pc = "wait" /\ UNCHANGED client
  BY DEF ServerTimer
<1>2. /\ st \in ServerState /\ st.pc = "wait" /\ st.block = server[s].block
      /\ st.buf = server[s].buf /\ st.size = server[s].size
  BY <1>1, TimerAssumption DEF Inv, TypeOK, ServerState, Elapsed
<1>3. CASE st.timeout >= ServerMax
  <2>1. /\ server' = [server EXCEPT ![s] = [st EXCEPT !.pc = "timedout"]]
        /\ UNCHANGED sent
    BY <1>3 DEF ServerTimer
  <2>2. /\ [st EXCEPT !.pc = "timedout"] \in ServerState
        /\ ServerOK([st EXCEPT !.pc = "timedout"])
    BY <1>2 DEF ServerState, ServerOK
  <2> QED
    BY <1>1, <2>1, <2>2, ServerStep
<1>4. CASE ~(st.timeout >= ServerMax)
  BY <1>1, <1>2, <1>4, ServerSendAgain DEF ServerTimer
<1> QED
  BY <1>3, <1>4

\* An old ACK makes tftpd resend the block it still holds.
LEMMA ServerResendInv ==
    ASSUME Inv, NEW s \in Servers, NEW p \in ServerArriving(s), ServerResend(s, p)
    PROVE  Inv'
BY ServerSendAgain DEF ServerResend, ServerArriving, Inv, TypeOK

\* A tftpd that stops leaves everybody else alone.
LEMMA ServerRecvFailsInv ==
    ASSUME Inv, NEW s \in Servers, ServerRecvFails(s)
    PROVE  Inv'
<1> DEFINE st == [server[s] EXCEPT !.pc = "aborted"]
<1>1. st \in ServerState /\ ServerOK(st)
  BY DEF Inv, TypeOK, ServerState, ServerOK
<1>2. server' = [server EXCEPT ![s] = st] /\ UNCHANGED <<client, sent>>
  BY DEF ServerRecvFails
<1> HIDE DEF st
<1> QED
  BY <1>1, <1>2, ServerStep

\* Moving on to a block the client already waits for.
LEMMA ServerNextBlockInv ==
    ASSUME Inv, NEW s \in Servers, NEW st \in ServerState,
           st.block \in 1 .. N, st.block <= client.block,
           \A ok \in BOOLEAN : ReadBuf(readit(st.buf, ok), st.block),
           ServerNextBlock(s, st), UNCHANGED client
    PROVE  Inv'
<1>1. PICK ok \in BOOLEAN :
          LET b == readit(st.buf, ok)
              n == b.counter[b.current]
          IN  IF n < 0
              THEN /\ server' = [server EXCEPT ![s] =
                                    [st EXCEPT !.pc = "aborted", !.buf = b]]
                   /\ sent' = sent \cup {nak(s, Client, st.block)}
              ELSE ServerSend(s, [st EXCEPT
                                    !.buf = [b EXCEPT !.hdr[b.current] = st.block],
                                    !.size = n,
                                    !.timeout = 0])
  BY DEF ServerNextBlock
<1> DEFINE b == readit(st.buf, ok)
           n == b.counter[b.current]
           h == [b EXCEPT !.hdr[b.current] = st.block]
           t == [st EXCEPT !.buf = h, !.size = n, !.timeout = 0]
<1>2. ReadBuf(b, st.block) /\ b \in Buffers /\ st.block \in Nat
  BY DEF ReadBuf
<1>3. CASE n < 0
  <2> DEFINE u == [st EXCEPT !.pc = "aborted", !.buf = b]
             e == nak(s, Client, st.block)
  <2>1. server' = [server EXCEPT ![s] = u] /\ sent' = sent \cup {e}
    BY <1>1, <1>3
  <2> HIDE DEF b
  <2>2. u \in ServerState /\ ServerOK(u)
    BY <1>2 DEF ServerState, ServerOK
  <2>3. e \in Packet /\ e.type = "ERROR" /\ PacketOK(e)
    BY <1>2 DEF nak, Packet, PacketOK, Address
  <2> HIDE DEF u, e
  <2> QED
    BY <2>1, <2>2, <2>3, ServerStep
<1>4. CASE ~(n < 0)
  <2>1. ServerSend(s, t)
    BY <1>1, <1>4
  <2> HIDE DEF b
  <2>2. n \in Int /\ n >= 0
    BY <1>2, <1>4 DEF Buffers
  <2>3. \A x \in BOOLEAN : SenderBuf(read_ahead(h, x), st.block)
    BY <1>2, <2>2, SendBlock
  <2>4. /\ h.hdr[h.current] = st.block /\ h.seg[h.current] = st.block
        /\ n = Size(st.block) /\ h \in Buffers
    BY <1>2, <2>2, SendBlock
  <2> HIDE DEF h, n
  <2>5. /\ t \in ServerState /\ t.block = st.block /\ t.buf = h /\ t.size = n
    BY <2>4, SizeType DEF ServerState
  <2> HIDE DEF t
  <2>6. PICK x \in BOOLEAN :
            \/ /\ server' = [server EXCEPT ![s] =
                                [t EXCEPT !.pc = "wait", !.buf = read_ahead(@, x)]]
               /\ sent' = sent \cup {Data(s, Client, t.buf, t.size)}
            \/ /\ server' = [server EXCEPT ![s] = [t EXCEPT !.pc = "aborted"]]
               /\ UNCHANGED sent
    BY <2>1 DEF ServerSend
  <2> DEFINE d == Data(s, Client, t.buf, t.size)
             g == read_ahead(h, x)
             u == [t EXCEPT !.pc = "wait", !.buf = read_ahead(@, x)]
             v == [t EXCEPT !.pc = "aborted"]
  <2>7. d \in Packet /\ d.type = "DATA" /\ PacketOK(d)
    BY <2>4, <2>5, SizeType, SizesAssumption DEF Data, Packet, PacketOK, Address
  <2>8. SenderBuf(g, st.block) /\ g \in Buffers
    BY <2>3 DEF SenderBuf
  <2>9. u = [t EXCEPT !.pc = "wait", !.buf = g]
    BY <2>5
  <2> HIDE DEF g, d, u
  <2>10. u \in ServerState /\ u.pc = "wait" /\ u.buf = g /\ u.block = st.block /\ u.size = n
    BY <2>5, <2>8, <2>9 DEF ServerState
  <2>11. ServerOK(u)
    BY <2>4, <2>8, <2>10 DEF ServerOK
  <2>12. v \in ServerState /\ ServerOK(v)
    BY <2>5 DEF ServerState, ServerOK
  <2> HIDE DEF v
  <2>13. CASE server' = [server EXCEPT ![s] = u] /\ sent' = sent \cup {d}
    BY <2>7, <2>10, <2>11, <2>13, ServerStep
  <2>14. CASE server' = [server EXCEPT ![s] = v] /\ UNCHANGED sent
    BY <2>12, <2>14, ServerStep
  <2> QED
    BY <2>6, <2>13, <2>14 DEF d, u, v
<1> QED
  BY <1>3, <1>4

\* A new tftpd refuses the request or sends block 1.
LEMMA ServerStartInv ==
    ASSUME Inv, NEW s \in Servers, ServerStart(s)
    PROVE  Inv'
<1>1. /\ server[s].pc = "idle" /\ UNCHANGED client
      /\ server[s] \in ServerState /\ server[s].block = 1 /\ server[s].buf = r_init
      /\ client.block >= 1
  BY DEF ServerStart, Inv, TypeOK, ServerOK, ClientState
<1>2. CASE /\ server' = [server EXCEPT ![s].pc = "aborted"]
           /\ sent' = sent \cup {nak(s, Client, 1)}
  <2> DEFINE st == [server[s] EXCEPT !.pc = "aborted"]
             e == nak(s, Client, 1)
  <2>1. st \in ServerState /\ ServerOK(st)
    BY <1>1 DEF ServerState, ServerOK
  <2>2. e \in Packet /\ e.type = "ERROR" /\ PacketOK(e)
    BY DEF nak, Packet, PacketOK, Address
  <2>3. server' = [server EXCEPT ![s] = st] /\ sent' = sent \cup {e}
    BY <1>2
  <2> HIDE DEF st, e
  <2> QED
    BY <1>1, <2>1, <2>2, <2>3, ServerStep
<1>3. CASE ServerNextBlock(s, server[s])
  BY <1>1, <1>3, FirstRead, ServerNextBlockInv, SizesAssumption
<1> QED
  BY <1>2, <1>3 DEF ServerStart

\* tftpd only moves past a block that the client has accepted.
LEMMA ServerAckedInv ==
    ASSUME Inv, NEW s \in Servers, NEW p \in ServerArriving(s), ServerAcked(s, p)
    PROVE  Inv'
<1> DEFINE k == server[s].block
           st == [server[s] EXCEPT !.block = @ + 1]
<1>1. /\ p \in sent /\ server[s].pc = "wait" /\ Fresh(p.seq, k)
      /\ p.type = "ACK" /\ IsBlock(p, k) /\ UNCHANGED client
  BY DEF ServerArriving, Arriving, ServerAcked
<1>2. /\ server[s] \in ServerState /\ SenderBuf(server[s].buf, k) /\ k \in 1 .. N
      /\ server[s].size = Size(k) /\ k <= client.block
  BY <1>1 DEF Inv, TypeOK, ServerOK, ServerState
<1>3. p.seq \in Nat /\ k \in Nat /\ p.seq \in 1 .. Accepted
  BY <1>1, <1>2 DEF Inv, TypeOK, Packet, PacketOK
<1>4. k <= Accepted
  BY <1>1, <1>3, SameBlock DEF IsBlock
<1>5. /\ st \in ServerState /\ st.block = k + 1 /\ st.buf = server[s].buf
      /\ st.size = Size(k)
  BY <1>2 DEF ServerState
<1>6. /\ client.block \in Nat /\ client.block <= N
      /\ Accepted = IF client.pc = "done" THEN N ELSE client.block - 1
  BY DEF Inv, TypeOK, ClientInv, ClientState, Accepted
<1>7. CASE st.size = SEGSIZE
  <2>1. k < N
    BY <1>2, <1>5, <1>7, FullIsNotLast
  <2>2. st.block \in 1 .. N /\ st.block <= client.block
    BY <1>2, <1>4, <1>5, <1>6, <2>1, SizesAssumption DEF Inv, ClientInv
  <2>3. \A ok \in BOOLEAN : ReadBuf(readit(st.buf, ok), st.block)
    BY <1>2, <1>3, <1>5, NextRead
  <2>4. ServerNextBlock(s, st)
    BY <1>7 DEF ServerAcked
  <2> HIDE DEF st
  <2> QED
    BY <1>1, <1>5, <2>2, <2>3, <2>4, ServerNextBlockInv
<1>8. CASE st.size # SEGSIZE
  <2> DEFINE u == [st EXCEPT !.pc = "done"]
  <2>1. server' = [server EXCEPT ![s] = u] /\ UNCHANGED sent
    BY <1>8 DEF ServerAcked
  <2>2. k = N
    BY <1>2, <1>5, <1>8, FullIsNotLast, SizesAssumption
  <2>3. client.pc = "done"
    BY <1>4, <1>6, <2>2, SizesAssumption
  <2> HIDE DEF st
  <2>4. u \in ServerState /\ ServerOK(u)
    BY <1>5, <2>3 DEF ServerState, ServerOK
  <2> HIDE DEF u
  <2> QED
    BY <1>1, <2>1, <2>4, ServerStep
<1> QED
  BY <1>7, <1>8

-----------------------------------------------------------------------------
\* A step that changes nothing keeps the invariant.
LEMMA StutterInv == Inv /\ UNCHANGED vars => Inv'
BY DEF Inv, vars, TypeOK, ClientInv, ReceivedIsPrefix, Accepted, ServerOK, PacketOK

\* FileTransfer sees nothing of what a tftpd does.
LEMMA ServerUnseen == UNCHANGED client => FTStep
BY DEF FTStep, FT!ftVars, Accepted

\* Every step keeps the invariant, and is a step of FileTransfer or unseen.
LEMMA NextInv == Inv /\ [Next]_vars => Inv' /\ FTStep
<1> SUFFICES ASSUME Inv, [Next]_vars PROVE Inv' /\ FTStep
  OBVIOUS
<1>1. CASE ClientGet
  BY <1>1, ClientGetInv
<1>2. CASE ClientTimer
  BY <1>2, ClientTimerInv
<1>3. ASSUME NEW p \in ClientArriving, ClientAccept(p) PROVE Inv' /\ FTStep
  BY <1>3, ClientAcceptInv
<1>4. ASSUME NEW p \in ClientArriving, ClientAcceptLast(p) PROVE Inv' /\ FTStep
  BY <1>4, ClientAcceptLastInv
<1>5. ASSUME NEW p \in ClientArriving, ClientResend(p) PROVE Inv' /\ FTStep
  BY <1>5, ClientResendInv
<1>6. ASSUME NEW p \in ClientArriving, ClientIgnore(p) \/ ClientError(p) PROVE Inv' /\ FTStep
  BY <1>6, ClientIgnoreInv
<1>7. ASSUME NEW s \in Servers, ServerStart(s) PROVE Inv' /\ FTStep
  BY <1>7, ServerStartInv, ServerUnseen DEF ServerStart
<1>8. ASSUME NEW s \in Servers, ServerRecvFails(s) PROVE Inv' /\ FTStep
  BY <1>8, ServerRecvFailsInv, ServerUnseen DEF ServerRecvFails
<1>9. ASSUME NEW s \in Servers, ServerTimer(s) PROVE Inv' /\ FTStep
  BY <1>9, ServerTimerInv, ServerUnseen DEF ServerTimer
<1>10. ASSUME NEW s \in Servers, NEW p \in ServerArriving(s), ServerAcked(s, p)
       PROVE  Inv' /\ FTStep
  BY <1>10, ServerAckedInv, ServerUnseen DEF ServerAcked
<1>11. ASSUME NEW s \in Servers, NEW p \in ServerArriving(s), ServerResend(s, p)
       PROVE  Inv' /\ FTStep
  BY <1>11, ServerResendInv, ServerUnseen DEF ServerResend
<1>12. CASE UNCHANGED vars
  BY <1>12, StutterInv, ServerUnseen DEF vars
<1> QED
  BY <1>1, <1>2, <1>3, <1>4, <1>5, <1>6, <1>7, <1>8, <1>9, <1>10, <1>11, <1>12 DEF Next

\* Inv is an invariant of Download.
THEOREM Invariance == Spec => []Inv
<1>1. Init => Inv
  BY InitInv
<1>2. Inv /\ [Next]_vars => Inv'
  BY NextInv
<1> QED
  BY <1>1, <1>2, PTL DEF Spec

\* The variables of the client, of every tftpd and of the network keep their
\* types, for every file and every number of tftpds.
THEOREM TypeCorrect == Spec => []TypeOK
<1>1. Inv => TypeOK
  BY DEF Inv
<1> QED
  BY <1>1, Invariance, PTL

\* The file on the client's disk is at all times exactly the accepted blocks.
THEOREM ReceivedPrefix == Spec => []ReceivedIsPrefix
<1>1. Inv => ReceivedIsPrefix
  BY DEF Inv, ClientInv
<1> QED
  BY <1>1, Invariance, PTL

\* recvfile only reports whole files as received.
THEOREM ReportedIsWhole == Spec => []DoneIsWhole
<1>1. Inv => DoneIsWhole
  BY DEF Inv, ClientInv, ReceivedIsPrefix, Accepted, DoneIsWhole, WholeFile
<1> QED
  BY <1>1, Invariance, PTL

\* Every DATA packet ever sent, first or again, carries its own segment.
THEOREM FaithfulData == Spec => []DataIsFaithful
<1>1. Inv => DataIsFaithful
  BY DEF Inv, PacketOK, DataIsFaithful
<1> QED
  BY <1>1, Invariance, PTL

\* No tftpd is ever ahead of the client, nor ends well before it does.
THEOREM StopAndWait == Spec => []LockStep
<1>1. Inv => LockStep
  BY DEF Inv, ServerOK, LockStep
<1> QED
  BY <1>1, Invariance, PTL

\* recvfile is what FileTransfer promises, whatever the tftpds, the network and
\* the timers do: every block is stored once and in order, the report is made
\* only when all are, and a finished transfer stays as it ended.
THEOREM Refinement == Spec => ImplementsFileTransfer
<1>1. Init => FT!FTInit
  BY InitBuffers DEF Init, FT!FTInit, Accepted
<1>2. Inv /\ [Next]_vars => [FT!FTNext]_FT!ftVars
  BY NextInv DEF FTStep
<1> QED
  BY <1>1, <1>2, Invariance, PTL DEF Spec, ImplementsFileTransfer, FT!FTSpec

=============================================================================
