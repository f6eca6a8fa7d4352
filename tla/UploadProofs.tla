---------------------------- MODULE UploadProofs ----------------------------
(***************************************************************************)
(* Upload keeps its inductive invariant Inv, for any number of tftpds on   *)
(* one file, any file and any wrap of the block numbers.                   *)
(***************************************************************************)
EXTENDS Upload, PutLemmas

\* A step of FileTransfer for tftpd s, or one it does not see.
FTStep(s) == FT(s)!FTNext \/ UNCHANGED FT(s)!ftVars

\* Going from state a to state b without accepting anything.
Keeps(a, b) == /\ Taken(b) = Taken(a)
               /\ b.buf.out = a.buf.out /\ b.buf.lost = a.buf.lost
               /\ Outcome(b) = Outcome(a) \/ (Outcome(a) = "active" /\ Outcome(b) = "failed")

\* Such a step leaves the file alone.
LEMMA KeepsFile ==
    ASSUME NEW s \in Servers, Keeps(server[s], server'[s])
    PROVE  FTStep(s)
<1>1. UNCHANGED <<Accepted(s), server[s].buf.out, server[s].buf.lost>>
  BY DEF Keeps, Accepted, Taken
<1>2. CASE Outcome(server'[s]) = Outcome(server[s])
  BY <1>1, <1>2 DEF FTStep, FT!ftVars, Outcome
<1>3. CASE Outcome(server[s]) = "active" /\ Outcome(server'[s]) = "failed"
  BY <1>1, <1>3 DEF FTStep, FT!FTNext, FT!Fail, Outcome
<1> QED
  BY <1>2, <1>3 DEF Keeps
\* Accepting block k: it is stored, or its write fails, or it is empty.
LEMMA StoresBlock ==
    ASSUME NEW s \in Servers, NEW k \in 1 .. N, NEW ok \in BOOLEAN,
           server[s].pc = "wait", server[s].block = k, server[s].buf.lost \in BOOLEAN,
           server'[s].buf.out = IF Size(k) > 0 /\ ok THEN Append(server[s].buf.out, k)
                                                    ELSE server[s].buf.out,
           server'[s].buf.lost = (server[s].buf.lost \/ (Size(k) > 0 /\ ~ok)),
           \/ server'[s].pc = "wait" /\ server'[s].block = k + 1 /\ k < N
           \/ server'[s].pc = "linger" /\ server'[s].block = k /\ k = N
    PROVE  FTStep(s)
<1>1. /\ Accepted(s) = k - 1 /\ Accepted(s)' = k /\ Accepted(s) < N
      /\ Accepted(s)' = Accepted(s) + 1
  BY SizesAssumption DEF Accepted, Taken
<1>2. Size(k) \in Nat
  BY SizeType, SizesAssumption
<1>3. FT(s)!Store(k)
  <2>1. FT(s)!Size(k) = Size(k)
    BY DEF FT!Size, Size
  <2>2. CASE Size(k) > 0 /\ ok
    <3>1. /\ server'[s].buf.out = Append(server[s].buf.out, k)
          /\ server'[s].buf.lost = server[s].buf.lost
      BY <2>2, Zenon
    <3> QED
      BY <2>1, <2>2, <3>1 DEF FT!Store
  <2>3. CASE Size(k) > 0 /\ ~ok
    <3>1. server'[s].buf.out = server[s].buf.out /\ server'[s].buf.lost = TRUE
      BY <2>3, Zenon
    <3> QED
      BY <2>1, <2>3, <3>1 DEF FT!Store
  <2>4. CASE ~(Size(k) > 0)
    <3>1. /\ server'[s].buf.out = server[s].buf.out
          /\ server'[s].buf.lost = server[s].buf.lost
      BY <2>4, Zenon
    <3> QED
      BY <1>2, <2>1, <2>4, <3>1 DEF FT!Store
  <2> QED
    BY <2>2, <2>3, <2>4
<1>4. FT(s)!Store(Accepted(s)')
  BY <1>1, <1>3
<1>5. FT(s)!Accept
  BY <1>1, <1>4 DEF FT!Accept, Outcome
<1> QED
  BY <1>5 DEF FTStep, FT!FTNext

\* A block is accepted, and the ACK cannot be sent: it is never flushed.
LEMMA LosesBlock ==
    ASSUME NEW s \in Servers, NEW k \in 1 .. N, k < N,
           server[s].pc = "wait", server[s].block = k,
           server'[s].pc = "aborted", server'[s].block = k + 1,
           server'[s].buf.out = server[s].buf.out,
           server'[s].buf.lost = server[s].buf.lost
    PROVE  FTStep(s)
<1>1. /\ Accepted(s) = k - 1 /\ Accepted(s)' = k /\ Accepted(s)' < N
      /\ Accepted(s) < N /\ Accepted(s)' = Accepted(s) + 1
  BY SizesAssumption DEF Accepted, Taken
<1>2. FT(s)!Accept
  BY <1>1 DEF FT!Accept, Outcome
<1> QED
  BY <1>2 DEF FTStep, FT!FTNext

-----------------------------------------------------------------------------
(* The start, and the steps of the client.                                 *)

\* Nothing is accepted, sent or written at the start.
LEMMA InitInv == Init => Inv /\ \A s \in Servers : FT(s)!FTInit
<1> SUFFICES ASSUME Init PROVE Inv /\ \A s \in Servers : FT(s)!FTInit
  OBVIOUS
<1>1. \A s \in Servers : /\ server[s].pc = "idle" /\ server[s].block = 0
                         /\ server[s].buf = w_init
  BY DEF Init
<1>2. TypeOK
  BY InitBuffers, SizesAssumption
     DEF Init, ClientInit, TypeOK, ClientState, ServerState, ReceiverBuf, Address
<1>3. PutInv
  BY <1>2, SizesAssumption DEF Init, ClientInit, PutInv, TypeOK
<1>4. \A s \in Servers : ServerOK(server[s]) /\ Accepted(s) = 0
  BY <1>1, InitBuffers, PrefixOfNothing, SizesAssumption DEF ServerOK, Taken, Accepted
<1>5. /\ \A p \in sent : DataOK(p) /\ AckOK(p)
      /\ AckedIsAccepted /\ LockStep /\ DiskNeverWrong
  BY <1>4 DEF Init, ClientInit, Acked, AckedIsAccepted, LockStep, DiskNeverWrong
<1>6. OnDisk
  BY <1>1 DEF OnDisk, Started
<1>7. \A s \in Servers : FT(s)!FTInit
  BY <1>1, <1>4, InitBuffers DEF FT!FTInit, Outcome
<1> QED
  BY <1>2, <1>3, <1>4, <1>5, <1>6, <1>7 DEF Inv

\* The client only counts a block that the tftpd whose ACK it took has accepted.
LEMMA ClientInv ==
    ASSUME Inv, ClientNext, UNCHANGED <<server, disk>>
    PROVE  Inv' /\ \A s \in Servers : FTStep(s)
<1>1. PutStep
  BY PutKeeps DEF Inv, TypeOK
<1>2. TypeOK' /\ PutInv'
  BY <1>1 DEF Inv, TypeOK, PutStep, PutInv
<1>3. \A s \in Servers : Accepted(s)' = Accepted(s)
  BY DEF Accepted, Taken
<1>4. \A s \in Servers : ServerOK(server[s])'
  BY DEF Inv, ServerOK, Taken
<1>5. \A p \in sent' : DataOK(p)' /\ AckOK(p)'
  <2>1. \A p \in sent : AckOK(p)'
    BY <1>3 DEF Inv, AckOK
  <2> QED
    BY <1>1, <2>1 DEF PutStep, AckOK
<1>6. AckedIsAccepted'
  <2>1. CASE Acked' = Acked
    BY <1>3, <2>1 DEF Inv, AckedIsAccepted
  <2>2. CASE \E p \in sent : p.type = "ACK" /\ p.dst = Client /\ p.seq = Acked'
    <3>1. PICK p \in sent : p.type = "ACK" /\ p.seq = Acked'
      BY <2>2
    <3>2. p.src \in Servers /\ p.seq <= Accepted(p.src) /\ p.seq \in Nat
      BY <3>1 DEF Inv, AckOK, TypeOK, Packet
    <3>3. Accepted(p.src) \in Nat
      BY <3>2 DEF Inv, TypeOK, ServerState, Accepted, Taken
    <3>4. Accepted(p.src)' >= Acked'
      BY <1>3, <3>1, <3>2, <3>3
    <3> QED
      BY <3>2, <3>4 DEF AckedIsAccepted
  <2> QED
    BY <1>1, <2>1, <2>2 DEF PutStep
<1>7. LockStep'
  <2>1. \A s \in Servers : Accepted(s) \in Nat
    BY DEF Inv, TypeOK, ServerState, Accepted, Taken
  <2>2. client.block \in Nat /\ client'.block \in Nat /\ client'.block >= client.block
    BY <1>1 DEF Inv, PutInv, PutStep, ClientState
  <2> QED
    BY <1>3, <2>1, <2>2 DEF Inv, LockStep
<1>8. DiskNeverWrong' /\ OnDisk'
  BY DEF Inv, DiskNeverWrong, OnDisk, Damaged, Started
<1>9. \A s \in Servers : FTStep(s)
  BY KeepsFile DEF Keeps
<1> QED
  BY <1>2, <1>4, <1>5, <1>6, <1>7, <1>8, <1>9 DEF Inv

-----------------------------------------------------------------------------
(* What a step of tftpd s to state st leaves for the others.               *)

\* The parts of the invariant that do not speak of the disk.
LEMMA ServerMoves ==
    ASSUME Inv, NEW s \in Servers, NEW st \in ServerState, ServerOK(st),
           server' = [server EXCEPT ![s] = st], UNCHANGED client,
           Taken(st) >= Accepted(s), Taken(st) <= client.block,
           disk' \in [1 .. N -> Nat], DiskNeverWrong', OnDisk',
           \/ UNCHANGED sent
           \/ \E q \in Packet :
                 /\ sent' = sent \cup {q} /\ q.type # "DATA"
                 /\ q.type = "ACK" => q.src = s /\ q.seq <= Taken(st)
    PROVE  Inv'
<1>1. TypeOK' /\ PutInv'
  BY DEF Inv, TypeOK, PutInv
<1>2. \A t \in Servers : server'[t] = IF t = s THEN st ELSE server[t]
  BY DEF Inv, TypeOK
<1>3. \A t \in Servers : ServerOK(server[t])'
  <2>1. \A t \in Servers : ServerOK(server'[t])
    BY <1>2 DEF Inv
  <2> QED
    BY <2>1 DEF ServerOK, Taken
<1>4. \A t \in Servers : /\ Accepted(t) \in Nat /\ Accepted(t)' \in Nat
                         /\ Accepted(t)' >= Accepted(t) /\ Accepted(t)' <= client.block
  <2>1. \A u \in ServerState : Taken(u) \in Nat
    BY DEF ServerState, Taken
  <2>2. \A t \in Servers : Accepted(t)' = IF t = s THEN Taken(st) ELSE Accepted(t)
    BY <1>2 DEF Accepted, Taken
  <2>3. \A t \in Servers : Accepted(t) \in Nat /\ Accepted(t) <= client.block
    BY <2>1 DEF Inv, TypeOK, LockStep, Accepted
  <2> QED
    BY <2>1, <2>2, <2>3
<1>5. \A p \in sent' : DataOK(p)' /\ AckOK(p)'
  <2>1. \A p \in sent : DataOK(p)' /\ AckOK(p)'
    <3>1. \A p \in sent : p.seq \in Nat
      BY DEF Inv, TypeOK, Packet
    <3> QED
      BY <1>4, <3>1 DEF Inv, DataOK, AckOK
  <2>2. Accepted(s)' = Taken(st)
    BY <1>2 DEF Accepted, Taken
  <2>3. ASSUME NEW q \in Packet, q.type # "DATA",
               q.type = "ACK" => q.src = s /\ q.seq <= Taken(st)
        PROVE  DataOK(q)' /\ AckOK(q)'
    BY <2>2, <2>3 DEF DataOK, AckOK
  <2> QED
    BY <2>1, <2>3
<1>6. AckedIsAccepted'
  <2>1. Acked' = Acked /\ Acked \in Nat
    BY DEF Acked, Inv, PutInv, ClientState
  <2> QED
    BY <1>4, <2>1 DEF Inv, AckedIsAccepted
<1>7. LockStep'
  BY <1>4 DEF LockStep
<1> QED
  BY <1>1, <1>3, <1>5, <1>6, <1>7 DEF Inv

\* What FileTransfer sees of the other tftpds: nothing.
LEMMA OthersKeep ==
    ASSUME Inv, NEW s \in Servers, NEW st, server' = [server EXCEPT ![s] = st], FTStep(s)
    PROVE  \A t \in Servers : FTStep(t)
<1>1. \A t \in Servers \ {s} : server'[t] = server[t]
  BY DEF Inv, TypeOK
<1>2. \A t \in Servers \ {s} : Keeps(server[t], server'[t])
  BY <1>1 DEF Keeps
<1> QED
  BY <1>2, KeepsFile

\* The disk and the buffers are as they were.
LEMMA DiskKept ==
    ASSUME Inv, NEW s \in Servers, NEW st, server' = [server EXCEPT ![s] = st],
           UNCHANGED disk, (st.block > 0) <=> (server[s].block > 0),
           st.buf.out = server[s].buf.out, st.buf.lost = server[s].buf.lost
    PROVE  disk' \in [1 .. N -> Nat] /\ DiskNeverWrong' /\ OnDisk'
<1>1. \A t \in Servers : server'[t] = IF t = s THEN st ELSE server[t]
  BY DEF Inv, TypeOK
<1>2. \A t \in Servers : /\ server'[t].buf.out = server[t].buf.out
                         /\ server'[t].buf.lost = server[t].buf.lost
                         /\ (server'[t].block > 0) <=> (server[t].block > 0)
  BY <1>1
<1>3. Started' = Started /\ Damaged' = Damaged
  BY <1>2 DEF Started, Damaged
<1> QED
  BY <1>2, <1>3 DEF Inv, TypeOK, DiskNeverWrong, OnDisk

\* A step that accepts nothing and writes nothing.
LEMMA ServerStays ==
    ASSUME Inv, NEW s \in Servers, NEW st \in ServerState, ServerOK(st),
           server' = [server EXCEPT ![s] = st], UNCHANGED <<client, disk>>,
           Keeps(server[s], st), st.block = server[s].block,
           \/ UNCHANGED sent
           \/ \E q \in Packet :
                 /\ sent' = sent \cup {q} /\ q.type # "DATA"
                 /\ q.type = "ACK" => q.src = s /\ q.seq <= Taken(st)
    PROVE  Inv' /\ \A t \in Servers : FTStep(t)
<1>1. disk' \in [1 .. N -> Nat] /\ DiskNeverWrong' /\ OnDisk'
  BY DiskKept DEF Keeps
<1>2. Taken(st) >= Accepted(s) /\ Taken(st) <= client.block
  BY DEF Inv, TypeOK, LockStep, Keeps, Accepted, Taken, ServerState
<1>3. Inv'
  BY <1>1, <1>2, ServerMoves
<1>4. server'[s] = st
  BY DEF Inv, TypeOK
<1>5. FTStep(s)
  BY <1>4, KeepsFile
<1> QED
  BY <1>3, <1>5, OthersKeep

\* Writing nothing leaves the disk as it is.
LEMMA WrittenNothing ==
    ASSUME NEW d \in [1 .. N -> Nat], NEW b1 \in Buffers, NEW b2, b2.out = b1.out
    PROVE  Written(d, b1, b2) = d
BY SizesAssumption DEF Written, Buffers

-----------------------------------------------------------------------------
(* A tftpd.                                                                *)

\* Sending an ACK again, with nothing to flush.
LEMMA ServerSendAgain ==
    ASSUME Inv, NEW s \in Servers, server[s].pc = "wait", NEW st \in ServerState,
           st.pc = "wait", st.block = server[s].block, ReceiverBuf(st.buf),
           st.buf.out = server[s].buf.out, st.buf.lost = server[s].buf.lost,
           ServerSend(s, st, disk), UNCHANGED client
    PROVE  Inv' /\ \A t \in Servers : FTStep(t)
<1>1. PICK ok \in BOOLEAN :
          LET b == write_behind(st.buf, ok)
          IN  \/ /\ server' = [server EXCEPT ![s] = [st EXCEPT !.pc = "wait", !.buf = b]]
                 /\ disk' = Written(disk, st.buf, b)
                 /\ sent' = sent \cup {Ack(s, Client, st.block - 1)}
              \/ /\ server' = [server EXCEPT ![s] = [st EXCEPT !.pc = "aborted"]]
                 /\ disk' = disk
                 /\ UNCHANGED sent
  BY DEF ServerSend
<1>2. write_behind(st.buf, ok) = st.buf /\ st.buf \in Buffers
  BY NothingToFlush DEF ReceiverBuf
<1>3. Written(disk, st.buf, st.buf) = disk
  BY <1>2, WrittenNothing DEF Inv, TypeOK
<1>4. ServerOK(server[s]) /\ st.block \in 1 .. N
  BY SizesAssumption DEF Inv, ServerOK, ServerState
<1> DEFINE a == Ack(s, Client, st.block - 1)
           v == [st EXCEPT !.pc = "aborted"]
<1>5. [st EXCEPT !.pc = "wait", !.buf = write_behind(st.buf, ok)] = st
  BY <1>2 DEF ServerState
<1>6. ServerOK(st) /\ Keeps(server[s], st) /\ Taken(st) = st.block - 1
  BY <1>4 DEF ServerOK, Keeps, Taken, Outcome
<1>7. a \in Packet /\ a.type = "ACK" /\ a.src = s /\ a.seq <= Taken(st)
  BY <1>4, <1>6, SizesAssumption DEF Ack, Packet, Address
<1>8. /\ v \in ServerState /\ ServerOK(v) /\ Keeps(server[s], v)
      /\ v.block = server[s].block
  BY <1>4 DEF ServerState, ServerOK, Keeps, Taken, Outcome
<1> HIDE DEF a, v
<1>9. CASE /\ server' = [server EXCEPT ![s] = st] /\ UNCHANGED disk
           /\ sent' = sent \cup {a}
  BY <1>4, <1>6, <1>7, <1>9, ServerStays
<1>10. CASE server' = [server EXCEPT ![s] = v] /\ UNCHANGED <<disk, sent>>
  BY <1>8, <1>10, ServerStays
<1> QED
  BY <1>1, <1>2, <1>3, <1>5, <1>9, <1>10 DEF a, v

\* recv alone.
LEMMA ServerRecvOK ==
    ASSUME Inv, NEW s \in Servers, NEW p \in ServerArriving(s), server[s].pc = "wait"
    PROVE  LET st == ServerRecv(s, p)
           IN  /\ p \in sent /\ p \in Packet /\ Fresh(p.seq, server[s].block)
               /\ st \in ServerState /\ st.pc = "wait" /\ st.block = server[s].block
               /\ st.buf = recv(server[s].buf, p) /\ ReceiverBuf(st.buf)
               /\ st.buf.out = server[s].buf.out /\ st.buf.lost = server[s].buf.lost
<1>1. /\ p \in sent /\ p \in Packet /\ Fresh(p.seq, server[s].block)
      /\ server[s] \in ServerState /\ ReceiverBuf(server[s].buf)
  BY DEF ServerArriving, Arriving, Inv, TypeOK, ServerOK
<1>2. /\ ReceiverBuf(recv(server[s].buf, p))
      /\ recv(server[s].buf, p).out = server[s].buf.out
      /\ recv(server[s].buf, p).lost = server[s].buf.lost
  BY <1>1, RecvKeeps
<1>3. recv(server[s].buf, p) \in Buffers
  BY <1>2 DEF ReceiverBuf
<1> QED
  BY <1>1, <1>2, <1>3 DEF ServerRecv, ServerState

\* An old block makes tftpd send its ACK again.
LEMMA ServerResendInv ==
    ASSUME Inv, NEW s \in Servers, NEW p \in ServerArriving(s), ServerResend(s, p)
    PROVE  Inv' /\ \A t \in Servers : FTStep(t)
BY ServerRecvOK, ServerSendAgain DEF ServerResend

\* Any other packet only scribbles on the free buffer.
LEMMA ServerIgnoreInv ==
    ASSUME Inv, NEW s \in Servers, NEW p \in ServerArriving(s), ServerIgnore(s, p)
    PROVE  Inv' /\ \A t \in Servers : FTStep(t)
<1> DEFINE st == ServerRecv(s, p)
<1>1. /\ server[s].pc = "wait" /\ server' = [server EXCEPT ![s] = st]
      /\ UNCHANGED <<client, disk, sent>>
  BY DEF ServerIgnore
<1>2. /\ st \in ServerState /\ st.pc = "wait" /\ st.block = server[s].block
      /\ ReceiverBuf(st.buf)
      /\ st.buf.out = server[s].buf.out /\ st.buf.lost = server[s].buf.lost
  BY <1>1, ServerRecvOK
<1> HIDE DEF st
<1>3. ServerOK(st) /\ Keeps(server[s], st)
  BY <1>1, <1>2 DEF Inv, ServerOK, Keeps, Taken, Outcome
<1> QED
  BY <1>1, <1>2, <1>3, ServerStays

\* A tftpd that gives up, at a packet or at once.
LEMMA ServerAbortInv ==
    ASSUME Inv, NEW s \in Servers, ServerAbort(s)
    PROVE  Inv' /\ \A t \in Servers : FTStep(t)
<1> DEFINE st == [server[s] EXCEPT !.pc = "aborted"]
<1>1. /\ server[s].pc = "wait" /\ server' = [server EXCEPT ![s] = st]
      /\ UNCHANGED <<client, disk, sent>>
  BY DEF ServerAbort
<1>2. /\ st \in ServerState /\ st.block = server[s].block
      /\ ServerOK(st) /\ Keeps(server[s], st)
  BY <1>1 DEF Inv, TypeOK, ServerState, ServerOK, Keeps, Taken, Outcome
<1> HIDE DEF st
<1> QED
  BY <1>1, <1>2, ServerStays

\* A timeout of tftpd sends the last ACK again, or ends it.
LEMMA ServerTimerInv ==
    ASSUME Inv, NEW s \in Servers, ServerTimer(s)
    PROVE  Inv' /\ \A t \in Servers : FTStep(t)
<1> DEFINE st == [server[s] EXCEPT !.timeout = Elapsed(@, ServerRexmt)]
           v == [st EXCEPT !.pc = "timedout"]
<1>1. /\ server[s].pc = "wait" /\ UNCHANGED client /\ server[s] \in ServerState
      /\ ServerOK(server[s])
  BY DEF ServerTimer, Inv, TypeOK
<1>2. /\ st \in ServerState /\ st.pc = "wait" /\ st.block = server[s].block
      /\ st.buf = server[s].buf /\ ReceiverBuf(st.buf)
  BY <1>1, ServerTimerAssumption DEF ServerState, ServerOK, Elapsed
<1>3. CASE st.timeout >= ServerMax
  <2>1. server' = [server EXCEPT ![s] = v] /\ UNCHANGED <<disk, sent>>
    BY <1>3 DEF ServerTimer
  <2> HIDE DEF st
  <2>2. /\ v \in ServerState /\ v.block = server[s].block
        /\ ServerOK(v) /\ Keeps(server[s], v)
    BY <1>1, <1>2 DEF ServerState, ServerOK, Keeps, Taken, Outcome
  <2> HIDE DEF v
  <2> QED
    BY <1>1, <2>1, <2>2, ServerStays
<1>4. CASE ~(st.timeout >= ServerMax)
  BY <1>1, <1>2, <1>4, ServerSendAgain DEF ServerTimer
<1> QED
  BY <1>3, <1>4

\* The end after the final ACK, which may be sent once more.
LEMMA ServerEndsInv ==
    ASSUME Inv, NEW s \in Servers,
           ServerQuit(s) \/ \E p \in ServerArriving(s) : ServerLinger(s, p)
    PROVE  Inv' /\ \A t \in Servers : FTStep(t)
<1>1. PICK ag \in BOOLEAN, ac \in 0 .. 2 :
          /\ server' = [server EXCEPT ![s] = [server[s] EXCEPT !.pc = "done", !.again = ag,
                                                               !.acks = ac]]
          /\ UNCHANGED <<client, disk>>
          /\ sent' \in {sent, sent \cup {Ack(s, Client, server[s].block)}}
  <2>1. server[s] \in ServerState /\ server \in [Servers -> ServerState]
    BY DEF Inv, TypeOK
  <2>2. CASE ServerQuit(s)
    <3>1. server[s].again \in BOOLEAN /\ server[s].acks \in 0 .. 2
      BY <2>1 DEF ServerState
    <3>2. [server[s] EXCEPT !.pc = "done"]
             = [server[s] EXCEPT !.pc = "done", !.again = server[s].again,
                                 !.acks = server[s].acks]
      BY <2>1 DEF ServerState
    <3> QED
      BY <2>2, <3>1, <3>2 DEF ServerQuit
  <2>3. ASSUME NEW p \in ServerArriving(s), ServerLinger(s, p)
        PROVE  \E ag \in BOOLEAN, ac \in 0 .. 2 :
                  /\ server' = [server EXCEPT ![s] =
                                   [server[s] EXCEPT !.pc = "done", !.again = ag, !.acks = ac]]
                  /\ UNCHANGED <<client, disk>>
                  /\ sent' \in {sent, sent \cup {Ack(s, Client, server[s].block)}}
    <3> DEFINE lost == LastAckLost(server[s])
               ag == p.type = "DATA" /\ IsBlock(p, server[s].block)
               ac == IF lost THEN 2 ELSE server[s].acks
    <3>1. ag \in BOOLEAN /\ ac \in 0 .. 2
      BY <2>1 DEF ServerState
    <3>2. server' = [server EXCEPT ![s] =
                        [server[s] EXCEPT !.pc = "done", !.again = ag, !.acks = ac]]
      BY <2>1, <2>3 DEF ServerLinger
    <3>3. /\ UNCHANGED <<client, disk>>
          /\ sent' \in {sent, sent \cup {Ack(s, Client, server[s].block)}}
      BY <2>3 DEF ServerLinger
    <3> HIDE DEF ag, ac
    <3> QED
      BY <3>1, <3>2, <3>3
  <2> QED
    BY <2>2, <2>3
<1> DEFINE st == [server[s] EXCEPT !.pc = "done", !.again = ag, !.acks = ac]
           a == Ack(s, Client, server[s].block)
<1>2. server[s].pc = "linger" /\ server[s] \in ServerState /\ ServerOK(server[s])
  BY DEF ServerQuit, ServerLinger, Inv, TypeOK
<1>3. /\ st \in ServerState /\ st.block = server[s].block
      /\ ServerOK(st) /\ Keeps(server[s], st) /\ Taken(st) = server[s].block
  <2>1. /\ st \in ServerState /\ st.pc = "done" /\ st.block = server[s].block
        /\ st.buf = server[s].buf
    BY <1>2 DEF ServerState
  <2> HIDE DEF st
  <2> QED
    BY <1>2, <2>1 DEF ServerOK, Keeps, Taken, Outcome
<1>4. a \in Packet /\ a.type = "ACK" /\ a.src = s /\ a.seq <= Taken(st)
  BY <1>2, <1>3 DEF Ack, Packet, Address, ServerState
<1> HIDE DEF st, a
<1>5. /\ server' = [server EXCEPT ![s] = st] /\ UNCHANGED <<client, disk>>
      /\ UNCHANGED sent \/ sent' = sent \cup {a}
  BY <1>1 DEF st, a
<1> QED
  BY <1>3, <1>4, <1>5, ServerStays

-----------------------------------------------------------------------------
(* The blocks that a tftpd writes.                                         *)

\* Block k lands at its own offset, or its write fails, or it is empty.
LEMMA DiskWrites ==
    ASSUME Inv, NEW s \in Servers, NEW k \in 1 .. N, NEW ok \in BOOLEAN,
           server[s].pc = "wait", server[s].block = k,
           NEW st \in ServerState, st.block > 0, server' = [server EXCEPT ![s] = st],
           st.buf.out = IF Size(k) > 0 /\ ok THEN Append(server[s].buf.out, k)
                                            ELSE server[s].buf.out,
           st.buf.lost = (server[s].buf.lost \/ (Size(k) > 0 /\ ~ok)),
           disk' = Written(disk, server[s].buf, st.buf)
    PROVE  disk' \in [1 .. N -> Nat] /\ DiskNeverWrong' /\ OnDisk'
<1> DEFINE o == server[s].buf.out
           w == st.buf.out
<1>1. \A t \in Servers : server'[t] = IF t = s THEN st ELSE server[t]
  BY DEF Inv, TypeOK
<1>2. /\ disk \in [1 .. N -> Nat] /\ o \in Seq(Nat) /\ w \in Seq(Nat) /\ k \in Nat
      /\ N \in Nat /\ disk' = [i \in 1 .. N |-> IF i \in Len(o) + 1 .. Len(w)
                                               THEN w[i] ELSE disk[i]]
  BY SizesAssumption DEF Inv, TypeOK, ServerState, Buffers, Written
<1>3. disk' \in [1 .. N -> Nat]
  BY <1>2
<1>4. CASE st.buf.lost
  <2>1. Damaged'
    BY <1>1, <1>4 DEF Damaged
  <2> QED
    BY <1>3, <2>1 DEF DiskNeverWrong, OnDisk
<1>5. CASE ~st.buf.lost
  <2>1. ~server[s].buf.lost /\ (Size(k) > 0 => ok)
    BY <1>5, Zenon
  <2>2. Damaged => Damaged'
    BY <1>1, <2>1 DEF Damaged
  <2>3. o = FilePrefix(k - 1)
    BY <2>1 DEF Inv, ServerOK, Taken
  <2>4. o = [i \in 1 .. k - 1 |-> i] /\ Len(o) = k - 1
    <3>1. k - 1 \in Nat /\ k - 1 # N
      BY <1>2
    <3>2. o = [i \in 1 .. k - 1 |-> i]
      BY <2>3, <3>1 DEF FilePrefix
    <3> QED
      BY <1>2, <3>1, <3>2
  <2>5. \/ w = Append(o, k) /\ Len(w) = k /\ w[k] = k
           /\ \A i \in 1 .. k - 1 : w[i] = o[i]
        \/ w = o
    <3>1. CASE Size(k) > 0
      <4>1. w = Append(o, k)
        BY <2>1, <3>1
      <4> QED
        BY <1>2, <2>4, <4>1
    <3>2. CASE ~(Size(k) > 0)
      BY <3>2
    <3> QED
      BY <3>1, <3>2
  <2> HIDE DEF o, w
  <2>6. \A i \in 1 .. N : disk'[i] = disk[i] \/ (i = k /\ disk'[i] = k)
    BY <1>2, <2>4, <2>5
  <2>7. DiskNeverWrong'
    BY <2>2, <2>6 DEF Inv, DiskNeverWrong
  <2>8. ASSUME NEW t \in Servers, ~Damaged', Started' = {t},
               NEW i \in 1 .. Len(server'[t].buf.out)
        PROVE  disk'[i] = server'[t].buf.out[i]
    <3>1. \A u \in Servers : (server'[u].block > 0) <=> (server[u].block > 0)
      BY <1>1, <1>2
    <3>2. Started = Started' /\ s \in Started
      BY <1>2, <3>1 DEF Started
    <3>3. t = s /\ Started = {s} /\ ~Damaged
      BY <2>2, <2>8, <3>2
    <3>4. \A j \in 1 .. Len(o) : disk[j] = o[j]
      BY <3>3 DEF Inv, OnDisk, o
    <3>5. server'[t].buf.out = w /\ i \in 1 .. Len(w)
      BY <1>1, <3>3 DEF w
    <3>6. CASE w = o
      <4>1. i \in 1 .. N /\ i \notin Len(o) + 1 .. Len(w)
        BY <1>2, <2>4, <3>5, <3>6
      <4> QED
        BY <1>2, <3>4, <3>5, <3>6, <4>1
    <3>7. CASE /\ Len(w) = k /\ w[k] = k /\ \A j \in 1 .. k - 1 : w[j] = o[j]
      BY <1>2, <2>4, <3>4, <3>5, <3>7
    <3> QED
      BY <2>5, <3>6, <3>7
  <2> QED
    BY <1>3, <2>7, <2>8 DEF OnDisk
<1> QED
  BY <1>4, <1>5

\* The packet that passes th_block == block is the block awaited, and the
\* client has reached it.
LEMMA AwaitedBlock ==
    ASSUME Inv, NEW s \in Servers, NEW p \in ServerArriving(s), server[s].pc = "wait",
           p.type = "DATA", IsBlock(p, server[s].block)
    PROVE  /\ p.seq = server[s].block /\ p.seg = p.seq /\ p.size = Size(p.seq)
           /\ p.seq \in 1 .. N /\ p.seq <= client.block
<1>1. /\ p \in sent /\ p \in Packet /\ Fresh(p.seq, server[s].block) /\ DataOK(p)
  BY ServerRecvOK DEF Inv
<1>2. p.seq \in Nat /\ server[s].block \in Nat /\ client.block \in Nat /\ client.block <= N
  BY <1>1 DEF Packet, Inv, TypeOK, ServerState, PutInv, ClientState
<1>3. p.seq = server[s].block
  BY <1>1, <1>2, SameBlock DEF IsBlock
<1> QED
  BY <1>1, <1>2, <1>3, SizesAssumption DEF DataOK

\* What writeit and write_behind make of it.
LEMMA FlushAwaited ==
    ASSUME Inv, NEW s \in Servers, NEW p \in ServerArriving(s), server[s].pc = "wait",
           p.type = "DATA", IsBlock(p, server[s].block),
           NEW ok1 \in BOOLEAN, NEW ok2 \in BOOLEAN
    PROVE  LET k == server[s].block
               b == server[s].buf
               f == writeit(recv(b, p), p.size, ok1)
               w == write_behind(f, ok2)
           IN  /\ f \in Buffers /\ f.out = b.out /\ f.lost = b.lost
               /\ ReceiverBuf(w) /\ w \in Buffers
               /\ w.lost \/ w.out = FilePrefix(k)
               /\ w.out = IF Size(k) > 0 /\ ok2 THEN Append(b.out, k) ELSE b.out
               /\ w.lost = (b.lost \/ (Size(k) > 0 /\ ~ok2))
               /\ Written(disk, b, f) = disk
               /\ Written(disk, f, w) = Written(disk, b, w)
<1> DEFINE k == server[s].block
           b == server[s].buf
           f == writeit(recv(b, p), p.size, ok1)
           w == write_behind(f, ok2)
<1>1. /\ p.seg = k /\ p.size = Size(k) /\ k \in 1 .. N /\ p \in Packet
      /\ p.size \in 0 .. SEGSIZE
  BY AwaitedBlock, ServerRecvOK, SizeType, SizesAssumption
<1>2. /\ ReceiverBuf(b) /\ b \in Buffers /\ disk \in [1 .. N -> Nat]
      /\ b.lost \/ b.out = FilePrefix(k - 1)
  BY <1>1 DEF Inv, TypeOK, ServerOK, ReceiverBuf, Taken
<1>3. /\ f \in Buffers /\ f.out = b.out /\ f.lost = b.lost /\ ReceiverBuf(w)
      /\ w.out = IF p.size > 0 /\ ok2 THEN Append(b.out, p.seg) ELSE b.out
      /\ w.lost = (b.lost \/ (p.size > 0 /\ ~ok2))
  BY <1>1, <1>2, AcceptFlush
<1> HIDE DEF f, w
<1>4. /\ w.out = IF Size(k) > 0 /\ ok2 THEN Append(b.out, k) ELSE b.out
      /\ w.lost = (b.lost \/ (Size(k) > 0 /\ ~ok2))
  BY <1>1, <1>3, Zenon
<1>5. w.lost \/ w.out = FilePrefix(k)
  BY <1>1, <1>2, <1>4, PrefixGrows
<1>6. Written(disk, b, f) = disk
  BY <1>2, <1>3, WrittenNothing
<1>7. Written(disk, f, w) = Written(disk, b, w)
  BY <1>3 DEF Written
<1>8. w \in Buffers
  BY <1>3 DEF ReceiverBuf
<1> QED
  BY <1>3, <1>4, <1>5, <1>6, <1>7, <1>8 DEF f, w

\* A full block is queued, the one before it acknowledged, then it is flushed.
LEMMA ServerAcceptInv ==
    ASSUME Inv, NEW s \in Servers, NEW p \in ServerArriving(s), ServerAccept(s, p)
    PROVE  Inv' /\ \A t \in Servers : FTStep(t)
<1> DEFINE r == ServerRecv(s, p)
           k == server[s].block
           b == server[s].buf
<1>1. PICK ok1 \in BOOLEAN :
          LET st == [r EXCEPT !.buf = writeit(@, p.size, ok1), !.block = @ + 1,
                              !.timeout = 0]
          IN  ServerSend(s, st, Written(disk, b, st.buf))
  BY DEF ServerAccept
<1>2. /\ server[s].pc = "wait" /\ p.type = "DATA" /\ IsBlock(p, k) /\ p.size = SEGSIZE
      /\ UNCHANGED client
  BY DEF ServerAccept
<1>3. /\ p.size = Size(k) /\ k \in 1 .. N /\ k <= client.block
      /\ k < N
  BY <1>2, AwaitedBlock, FullIsNotLast
<1>4. /\ r \in ServerState /\ r.block = k /\ r.buf = recv(b, p)
  BY <1>2, ServerRecvOK
<1> DEFINE f == writeit(recv(b, p), p.size, ok1)
           st == [r EXCEPT !.buf = f, !.block = k + 1, !.timeout = 0]
<1>5. f \in Buffers /\ f.out = b.out /\ f.lost = b.lost /\ Written(disk, b, f) = disk
  BY <1>2, FlushAwaited
<1>6. ServerSend(s, st, disk)
  <2>1. st = [r EXCEPT !.buf = writeit(@, p.size, ok1), !.block = @ + 1, !.timeout = 0]
    BY <1>4
  <2>2. st.buf = f
    BY <1>4 DEF ServerState
  <2> HIDE DEF r, f
  <2> QED
    BY <1>1, <1>5, <2>1, <2>2
<1> HIDE DEF r, f
<1>7. st \in ServerState /\ st.block = k + 1 /\ st.buf = f
  <2>1. k + 1 \in Nat /\ 0 \in Nat
    BY <1>3
  <2>2. f \in Buffers
    BY <1>5
  <2> QED
    BY <1>4, <2>1, <2>2 DEF ServerState
<1> HIDE DEF st
<1>8. PICK ok2 \in BOOLEAN :
          LET w == write_behind(st.buf, ok2)
          IN  \/ /\ server' = [server EXCEPT ![s] = [st EXCEPT !.pc = "wait", !.buf = w]]
                 /\ disk' = Written(disk, st.buf, w)
                 /\ sent' = sent \cup {Ack(s, Client, st.block - 1)}
              \/ /\ server' = [server EXCEPT ![s] = [st EXCEPT !.pc = "aborted"]]
                 /\ disk' = disk
                 /\ UNCHANGED sent
  BY <1>6 DEF ServerSend
<1> DEFINE w == write_behind(f, ok2)
           u == [st EXCEPT !.pc = "wait", !.buf = w]
           v == [st EXCEPT !.pc = "aborted"]
           a == Ack(s, Client, k)
<1>9. server[s] \in ServerState /\ Accepted(s) = k - 1 /\ b.lost \in BOOLEAN
  BY <1>2, <1>3 DEF Inv, TypeOK, ServerState, Buffers, Accepted, Taken
<1>10. CASE server' = [server EXCEPT ![s] = v] /\ UNCHANGED <<disk, sent>>
  <2>1. /\ v \in ServerState /\ v.pc = "aborted" /\ v.block = k + 1 /\ v.buf = f
    BY <1>7 DEF ServerState
  <2> HIDE DEF v
  <2>2. ServerOK(v) /\ Taken(v) = k
    BY <1>3, <2>1, SizesAssumption DEF ServerOK, Taken
  <2>3. disk' \in [1 .. N -> Nat] /\ DiskNeverWrong' /\ OnDisk'
    <3>1. (v.block > 0) <=> (server[s].block > 0)
      BY <1>3, <2>1
    <3> QED
      BY <1>5, <1>10, <2>1, <3>1, DiskKept
  <2>4. Taken(v) >= Accepted(s) /\ Taken(v) <= client.block
    BY <1>3, <1>9, <2>2
  <2>5. Inv'
    BY <1>2, <1>10, <2>1, <2>2, <2>3, <2>4, ServerMoves
  <2>6. server'[s] = v
    BY <1>10 DEF Inv, TypeOK
  <2>7. FTStep(s)
    BY <1>2, <1>3, <1>5, <2>1, <2>6, LosesBlock
  <2> QED
    BY <1>10, <2>5, <2>7, OthersKeep
<1>11. CASE /\ server' = [server EXCEPT ![s] = u] /\ disk' = Written(disk, f, w)
            /\ sent' = sent \cup {a}
  <2>1. /\ ReceiverBuf(w) /\ w \in Buffers /\ (w.lost \/ w.out = FilePrefix(k))
        /\ w.out = IF Size(k) > 0 /\ ok2 THEN Append(b.out, k) ELSE b.out
        /\ w.lost = (b.lost \/ (Size(k) > 0 /\ ~ok2))
        /\ Written(disk, f, w) = Written(disk, b, w)
    BY <1>2, FlushAwaited DEF f
  <2> HIDE DEF w
  <2>2. /\ u \in ServerState /\ u.pc = "wait" /\ u.block = k + 1 /\ u.buf = w
    BY <1>7, <2>1 DEF ServerState
  <2> HIDE DEF u
  <2>3. ServerOK(u) /\ Taken(u) = k /\ u.block > 0
    BY <1>3, <2>1, <2>2, SizesAssumption DEF ServerOK, Taken
  <2>4. disk' \in [1 .. N -> Nat] /\ DiskNeverWrong' /\ OnDisk'
    BY <1>2, <1>3, <1>11, <2>1, <2>2, <2>3, DiskWrites
  <2>5. Taken(u) >= Accepted(s) /\ Taken(u) <= client.block
    BY <1>3, <1>9, <2>3
  <2>6. a \in Packet /\ a.type = "ACK" /\ a.src = s /\ a.seq <= Taken(u)
    BY <1>3, <2>3 DEF Ack, Packet, Address
  <2> HIDE DEF a
  <2>7. Inv'
    BY <1>2, <1>11, <2>2, <2>3, <2>4, <2>5, <2>6, ServerMoves
  <2>8. server'[s] = u
    BY <1>11 DEF Inv, TypeOK
  <2>9. FTStep(s)
    BY <1>2, <1>3, <1>9, <2>1, <2>2, <2>8, StoresBlock
  <2> QED
    BY <1>11, <2>7, <2>9, OthersKeep
<1>12. st.block - 1 = k
  BY <1>3, <1>7
<1> QED
  BY <1>7, <1>8, <1>10, <1>11, <1>12

\* A short block is flushed, and the file complete, before its ACK goes out.
LEMMA ServerAcceptLastInv ==
    ASSUME Inv, NEW s \in Servers, NEW p \in ServerArriving(s), ServerAcceptLast(s, p)
    PROVE  Inv' /\ \A t \in Servers : FTStep(t)
<1> DEFINE k == server[s].block
           b == server[s].buf
<1>1. PICK ok1 \in BOOLEAN, ok2 \in BOOLEAN :
          LET w == write_behind(writeit(recv(b, p), p.size, ok1), ok2)
          IN  /\ server' = [server EXCEPT ![s] =
                               [server[s] EXCEPT !.pc = "linger", !.buf = w, !.acks = 1]]
              /\ disk' = Written(disk, b, w)
  BY DEF ServerAcceptLast
<1>2. /\ server[s].pc = "wait" /\ p.type = "DATA" /\ IsBlock(p, k) /\ p.size # SEGSIZE
      /\ sent' = sent \cup {Ack(s, Client, k)} /\ UNCHANGED client
  BY DEF ServerAcceptLast
<1>3. k \in 1 .. N /\ k <= client.block /\ k = N
  BY <1>2, AwaitedBlock, FullIsNotLast, SizesAssumption
<1> DEFINE w == write_behind(writeit(recv(b, p), p.size, ok1), ok2)
           u == [server[s] EXCEPT !.pc = "linger", !.buf = w, !.acks = 1]
           a == Ack(s, Client, k)
<1>4. /\ ReceiverBuf(w) /\ w \in Buffers /\ (w.lost \/ w.out = FilePrefix(k))
      /\ w.out = IF Size(k) > 0 /\ ok2 THEN Append(b.out, k) ELSE b.out
      /\ w.lost = (b.lost \/ (Size(k) > 0 /\ ~ok2))
  BY <1>2, FlushAwaited
<1>5. server' = [server EXCEPT ![s] = u] /\ disk' = Written(disk, b, w)
  BY <1>1
<1> HIDE DEF w
<1>6. server[s] \in ServerState /\ Accepted(s) = k - 1 /\ b.lost \in BOOLEAN
  BY <1>2, <1>3 DEF Inv, TypeOK, ServerState, Buffers, Accepted, Taken
<1>7. u \in ServerState /\ u.pc = "linger" /\ u.block = k /\ u.buf = w
  <2>1. w \in Buffers /\ server[s] \in ServerState /\ 1 \in 0 .. 2
    BY <1>4, <1>6
  <2> QED
    BY <2>1 DEF ServerState
<1> HIDE DEF u
<1>8. ServerOK(u) /\ Taken(u) = k /\ u.block > 0
  <2>1. Taken(u) = k /\ u.block > 0
    BY <1>3, <1>7 DEF Taken
  <2>2. ReceiverBuf(u.buf) /\ (u.buf.lost \/ u.buf.out = FilePrefix(Taken(u)))
    BY <1>4, <1>7, <2>1, Zenon
  <2>3. u.block <= N /\ u.block = N
    BY <1>3, <1>7
  <2> QED
    BY <1>7, <2>1, <2>2, <2>3 DEF ServerOK
<1>9. disk' \in [1 .. N -> Nat] /\ DiskNeverWrong' /\ OnDisk'
  BY <1>2, <1>3, <1>4, <1>5, <1>7, <1>8, DiskWrites
<1>10. Taken(u) >= Accepted(s) /\ Taken(u) <= client.block
  BY <1>3, <1>6, <1>8
<1>11. a \in Packet /\ a.type = "ACK" /\ a.src = s /\ a.seq <= Taken(u)
  BY <1>3, <1>8 DEF Ack, Packet, Address
<1>12. Inv'
  <2> HIDE DEF a
  <2>1. sent' = sent \cup {a}
    BY <1>2 DEF a
  <2> QED
    BY <1>2, <1>5, <1>7, <1>8, <1>9, <1>10, <1>11, <2>1, ServerMoves
<1>13. server'[s] = u
  BY <1>5 DEF Inv, TypeOK
<1>14. FTStep(s)
  BY <1>2, <1>3, <1>4, <1>6, <1>7, <1>13, StoresBlock
<1> QED
  BY <1>5, <1>12, <1>14, OthersKeep

\* A new tftpd refuses the request, or truncates the file: whatever another
\* one has written there is gone, but nothing wrong is in its place.
LEMMA ServerStartInv ==
    ASSUME Inv, NEW s \in Servers, ServerStart(s)
    PROVE  Inv' /\ \A t \in Servers : FTStep(t)
<1>1. /\ server[s].pc = "idle" /\ UNCHANGED client /\ server[s] \in ServerState
      /\ server[s].block = 0 /\ server[s].buf = w_init /\ ServerOK(server[s])
  BY DEF ServerStart, Inv, TypeOK, ServerOK
<1>2. CASE /\ server' = [server EXCEPT ![s].pc = "aborted"]
           /\ sent' = sent \cup {nak(s, Client, 0)} /\ UNCHANGED disk
  <2> DEFINE st == [server[s] EXCEPT !.pc = "aborted"]
             e == nak(s, Client, 0)
  <2>1. /\ st \in ServerState /\ st.block = server[s].block
        /\ ServerOK(st) /\ Keeps(server[s], st)
    BY <1>1 DEF ServerState, ServerOK, Keeps, Taken, Outcome
  <2>2. e \in Packet /\ e.type = "ERROR"
    BY DEF nak, Packet, Address
  <2>3. server' = [server EXCEPT ![s] = st] /\ sent' = sent \cup {e}
    BY <1>2
  <2> HIDE DEF st, e
  <2> QED
    BY <1>1, <1>2, <2>1, <2>2, <2>3, ServerStays
<1>3. CASE \/ ServerSend(s, [server[s] EXCEPT !.block = 1], Truncated)
           \/ /\ server' = [server EXCEPT ![s] =
                               [[server[s] EXCEPT !.block = 1] EXCEPT !.pc = "aborted"]]
              /\ sent' = sent \cup {nak(s, Client, 0)} /\ disk' = Truncated
  <2> DEFINE st == [server[s] EXCEPT !.block = 1]
             a == Ack(s, Client, 0)
             e == nak(s, Client, 0)
  <2>1. st \in ServerState /\ st.block = 1 /\ st.buf = w_init
    BY <1>1 DEF ServerState
  <2>2. \/ ServerSend(s, st, Truncated)
        \/ /\ server' = [server EXCEPT ![s] = [st EXCEPT !.pc = "aborted"]]
           /\ sent' = sent \cup {e} /\ disk' = Truncated
    BY <1>3
  <2> HIDE DEF st
  <2>3. ASSUME ServerSend(s, st, Truncated)
        PROVE  \E x \in {"wait", "aborted"} :
                  /\ server' = [server EXCEPT ![s] = [st EXCEPT !.pc = x]]
                  /\ disk' = Truncated
                  /\ UNCHANGED sent \/ sent' = sent \cup {a}
    <3>1. PICK ok \in BOOLEAN :
            LET b == write_behind(st.buf, ok)
            IN  \/ /\ server' = [server EXCEPT ![s] = [st EXCEPT !.pc = "wait", !.buf = b]]
                   /\ disk' = Written(Truncated, st.buf, b)
                   /\ sent' = sent \cup {Ack(s, Client, st.block - 1)}
                \/ /\ server' = [server EXCEPT ![s] = [st EXCEPT !.pc = "aborted"]]
                   /\ disk' = Truncated
                   /\ UNCHANGED sent
      BY <2>3 DEF ServerSend
    <3>2. write_behind(w_init, ok) = w_init /\ w_init \in Buffers
      BY InitBuffers, NothingToFlush DEF ReceiverBuf
    <3>3. Written(Truncated, w_init, w_init) = Truncated
      BY <3>2, WrittenNothing DEF Truncated
    <3>4. [st EXCEPT !.pc = "wait", !.buf = w_init] = [st EXCEPT !.pc = "wait"]
      BY <2>1 DEF ServerState
    <3>5. st.block - 1 = 0
      BY <2>1
    <3> QED
      BY <2>1, <3>1, <3>2, <3>3, <3>4, <3>5
  <2>4. PICK x \in {"wait", "aborted"}, q \in {a, e} :
            /\ server' = [server EXCEPT ![s] = [st EXCEPT !.pc = x]]
            /\ disk' = Truncated
            /\ UNCHANGED sent \/ sent' = sent \cup {q}
    BY <2>2, <2>3
  <2> DEFINE u == [st EXCEPT !.pc = x]
  <2>5. u \in ServerState /\ u.pc = x /\ u.block = 1 /\ u.buf = w_init
    BY <2>1 DEF ServerState
  <2> HIDE DEF u
  <2>6. /\ ServerOK(u) /\ Taken(u) = 0 /\ Accepted(s) = 0
        /\ Keeps(server[s], u)
    BY <1>1, <2>5, InitBuffers, PrefixOfNothing, SizesAssumption
       DEF ServerOK, Taken, Accepted, Keeps, Outcome
  <2>7. server' = [server EXCEPT ![s] = u] /\ server'[s] = u
    BY <2>4 DEF u, Inv, TypeOK
  <2>8. disk' \in [1 .. N -> Nat] /\ DiskNeverWrong' /\ OnDisk'
    <3>1. disk' \in [1 .. N -> Nat] /\ DiskNeverWrong'
      BY <2>4 DEF DiskNeverWrong, Truncated
    <3>2. s \in Started' /\ server'[s].buf.out = << >>
      BY <2>5, <2>7, InitBuffers DEF Started
    <3>3. OnDisk'
      BY <3>2 DEF OnDisk
    <3> QED
      BY <3>1, <3>3
  <2>9. Taken(u) >= Accepted(s) /\ Taken(u) <= client.block
    BY <2>6 DEF Inv, PutInv, ClientState
  <2>10. /\ q \in Packet /\ q.type # "DATA"
         /\ q.type = "ACK" => q.src = s /\ q.seq <= Taken(u)
    BY <2>6 DEF Ack, nak, Packet, Address
  <2> HIDE DEF a, e
  <2>11. Inv'
    BY <1>1, <2>4, <2>5, <2>6, <2>7, <2>8, <2>9, <2>10, ServerMoves
  <2>12. FTStep(s)
    BY <2>6, <2>7, KeepsFile
  <2> QED
    BY <2>7, <2>11, <2>12, OthersKeep
<1> QED
  BY <1>2, <1>3 DEF ServerStart

-----------------------------------------------------------------------------
\* Every step keeps the invariant, and is for each tftpd a step of
\* FileTransfer or unseen.
LEMMA NextInv ==
    ASSUME Inv, [Next]_vars
    PROVE  Inv' /\ \A t \in Servers : FTStep(t)
<1> DEFINE Goal == Inv' /\ \A t \in Servers : FTStep(t)
<1>1. CASE ClientNext /\ UNCHANGED <<server, disk>>
  BY <1>1, ClientInv
<1>2. ASSUME NEW s \in Servers, ServerStart(s) PROVE Goal
  BY <1>2, ServerStartInv
<1>3. ASSUME NEW s \in Servers, ServerAbort(s) PROVE Goal
  BY <1>3, ServerAbortInv
<1>4. ASSUME NEW s \in Servers, ServerTimer(s) PROVE Goal
  BY <1>4, ServerTimerInv
<1>5. ASSUME NEW s \in Servers, ServerQuit(s) PROVE Goal
  BY <1>5, ServerEndsInv
<1>6. ASSUME NEW s \in Servers, NEW p \in ServerArriving(s), ServerAccept(s, p)
      PROVE  Goal
  BY <1>6, ServerAcceptInv
<1>7. ASSUME NEW s \in Servers, NEW p \in ServerArriving(s), ServerAcceptLast(s, p)
      PROVE  Goal
  BY <1>7, ServerAcceptLastInv
<1>8. ASSUME NEW s \in Servers, NEW p \in ServerArriving(s), ServerResend(s, p)
      PROVE  Goal
  BY <1>8, ServerResendInv
<1>9. ASSUME NEW s \in Servers, NEW p \in ServerArriving(s), ServerIgnore(s, p)
      PROVE  Goal
  BY <1>9, ServerIgnoreInv
<1>10. ASSUME NEW s \in Servers, NEW p \in ServerArriving(s), ServerLinger(s, p)
       PROVE  Goal
  BY <1>10, ServerEndsInv
<1>11. CASE UNCHANGED vars
  <2>1. UNCHANGED <<client, server, disk, sent>>
    BY <1>11 DEF vars
  <2>2. Inv'
    BY <2>1 DEF Inv, TypeOK, PutInv, ServerOK, Taken, Accepted, DataOK, AckOK, Acked,
                AckedIsAccepted, LockStep, DiskNeverWrong, OnDisk, Damaged, Started
  <2>3. \A t \in Servers : FTStep(t)
    BY <2>1, KeepsFile DEF Keeps
  <2> QED
    BY <2>2, <2>3
<1> QED
  BY <1>1, <1>2, <1>3, <1>4, <1>5, <1>6, <1>7, <1>8, <1>9, <1>10, <1>11 DEF Next

\* Inv is an invariant of Upload.
THEOREM Invariance == Spec => []Inv
<1>1. Init => Inv
  BY InitInv
<1>2. Inv /\ [Next]_vars => Inv'
  BY NextInv
<1> QED
  BY <1>1, <1>2, PTL DEF Spec

\* The variables of the client, of every tftpd, of the disk and of the network
\* keep their types, for every file and every number of tftpds.
THEOREM TypeCorrect == Spec => []TypeOK
<1>1. Inv => TypeOK
  BY DEF Inv
<1> QED
  BY <1>1, Invariance, PTL

\* What sendfile counts as delivered, some one tftpd has accepted from the
\* first block on.
THEOREM AckedAccepted == Spec => []AckedIsAccepted
<1>1. Inv => AckedIsAccepted
  BY DEF Inv
<1> QED
  BY <1>1, Invariance, PTL

\* No tftpd has accepted a block the client has not reached.
THEOREM InLockStep == Spec => []LockStep
<1>1. Inv => LockStep
  BY DEF Inv
<1> QED
  BY <1>1, Invariance, PTL

\* However many tftpds write the file at once, no offset ever holds another
\* segment than its own.
THEOREM DiskContent == Spec => []DiskNeverWrong
<1>1. Inv => DiskNeverWrong
  BY DEF Inv
<1> QED
  BY <1>1, Invariance, PTL

\* A put that ends well has stored the whole file, when one tftpd served it
\* and no write failed.
THEOREM DoneStored == Spec => []DoneIsStored
<1>1. Inv => DoneIsStored
  <2> SUFFICES ASSUME Inv, client.pc = "done", ~Damaged, NEW s \in Servers, Started = {s},
                      NEW i \in DOMAIN WholeFile
               PROVE  disk[i] = i
    BY DEF DoneIsStored
  <2>1. client.block = N /\ Acked = N /\ N \in Nat /\ N > 0
    BY SizesAssumption DEF Inv, PutInv, Acked
  <2>2. PICK t \in Servers : Accepted(t) >= N
    BY <2>1 DEF Inv, AckedIsAccepted
  <2>3. server[t] \in ServerState /\ ServerOK(server[t])
    BY DEF Inv, TypeOK
  <2>4. server[t].block = N /\ server[t].pc \in {"linger", "done"}
    BY <2>1, <2>2, <2>3 DEF Accepted, Taken, ServerOK, ServerState
  <2>5. t = s
    BY <2>1, <2>4 DEF Started
  <2>6. server[s].buf.out = WholeFile
    BY <2>3, <2>4, <2>5 DEF ServerOK, Taken, Damaged, WholeFile
  <2>7. /\ i \in 1 .. N /\ WholeFile[i] = i /\ i \in 1 .. Len(WholeFile)
    <3>1. WholeFile = [j \in 1 .. (IF LastSize = 0 THEN N - 1 ELSE N) |-> j]
      BY DEF WholeFile, FilePrefix
    <3>2. (IF LastSize = 0 THEN N - 1 ELSE N) \in Nat
      BY <2>1
    <3> QED
      BY <2>1, <3>1, <3>2
  <2> QED
    BY <2>6, <2>7 DEF Inv, OnDisk
<1> QED
  BY <1>1, Invariance, PTL

\* Each tftpd's recvfile is what FileTransfer promises, however many of them
\* serve the same request.
THEOREM Refinement == Spec => ImplementsFileTransfer
<1>1. Init => \A s \in Servers : FT(s)!FTInit
  BY InitInv
<1>2. Inv /\ [Next]_vars
          => [\A s \in Servers : FT(s)!FTNext \/ UNCHANGED FT(s)!ftVars]_vars
  BY NextInv DEF FTStep
<1> QED
  BY <1>1, <1>2, Invariance, PTL DEF Spec, ImplementsFileTransfer

=============================================================================
