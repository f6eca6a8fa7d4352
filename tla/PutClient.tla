------------------------------ MODULE PutClient ------------------------------
(***************************************************************************)
(* The sendfile loop of the client (tftp/tftp.c), which `put' runs.  It is *)
(* composed with tftpd's recvfile in Upload and with the asynchronous      *)
(* server in AsyncUpload.  What the process does from one recvfrom to the  *)
(* next is one action.                                                     *)
(***************************************************************************)
EXTENDS Tftpsubs, Wire

CONSTANTS ClientRexmt, ClientMax    \* rexmtval and maxtimeout of the client

ASSUME ClientTimerAssumption == {ClientRexmt, ClientMax} \subseteq Nat

VARIABLES
    client,     \* sendfile's locals, and the globals from and timeout
    sent        \* datagrams sent so far

ClientState == [pc      : {"idle", "wait", "done", "failed", "timedout"},
                block   : Nat,
                buf     : Buffers,
                size    : 0 .. SEGSIZE,
                from    : Address,
                timeout : Nat]

ClientInit == client = [pc |-> "idle", block |-> 0, buf |-> r_init, size |-> 0,
                        from |-> Inetd, timeout |-> 0]

-----------------------------------------------------------------------------
\* The packet at dp: the request on the first trip, then a block of data.
dp(c) == IF c.block = 0 THEN Request("WRQ", c.from)
                        ELSE Data(Client, c.from, c.buf, c.size)

\* The label send_data: send, then fill the next buffer.
ClientSend(c) ==
    \E ok \in BOOLEAN :
        \/ /\ client' = [c EXCEPT !.pc = "wait", !.buf = read_ahead(@, ok)]
           /\ sent' = sent \cup {dp(c)}
        \/ /\ client' = [c EXCEPT !.pc = "failed"]        \* sendto failed
           /\ UNCHANGED sent

\* Mutant of ClientNextBlock: a read that failed is not noticed.
ClientNextBlockUnchecked(c) ==
    \E ok \in BOOLEAN :
        LET b == readit(c.buf, ok)
        IN  ClientSend([c EXCEPT !.buf = [b EXCEPT !.hdr[b.current] = c.block],
                                 !.size = b.counter[b.current],
                                 !.timeout = 0])

\* The top of the do loop for data blocks: take the next segment, or give
\* up with a nak when the file cannot be read.
ClientNextBlock(c) ==
    \E ok \in BOOLEAN :
        LET b == readit(c.buf, ok)
            n == b.counter[b.current]
        IN  IF n < 0
            THEN /\ client' = [c EXCEPT !.pc = "failed", !.buf = b]
                 /\ sent' = sent \cup {nak(Client, c.from, c.block)}
            ELSE ClientSend([c EXCEPT !.buf = [b EXCEPT !.hdr[b.current] = c.block],
                                      !.size = n,
                                      !.timeout = 0])

\* recvfrom(f, ackbuf, ..., &from, ...)
ClientRecv(p) == [client EXCEPT !.from = p.src]

ClientArriving == {p \in Arriving(sent, Client, client.block) :
                       client.pc = "wait"}

ClientPut == /\ client.pc = "idle"
             /\ ClientSend(client)

\* The awaited ACK, with more to send: block 0 acknowledges the request.
ClientAcked(p) ==
    /\ p.type = "ACK" /\ IsBlock(p, client.block)
    /\ client.block = 0 \/ client.size = SEGSIZE
    /\ ClientNextBlock([ClientRecv(p) EXCEPT !.block = @ + 1])

\* The ACK of the last block.
ClientAckedLast(p) ==
    /\ p.type = "ACK" /\ IsBlock(p, client.block)
    /\ client.block # 0 /\ client.size # SEGSIZE
    /\ client' = [ClientRecv(p) EXCEPT !.pc = "done"]
    /\ UNCHANGED sent

\* The ACK before the awaited one: the data was lost, resend it.
ClientResend(p) ==
    /\ p.type = "ACK" /\ ~IsBlock(p, client.block)
    /\ IsPrevious(p, client.block)
    /\ ClientSend(ClientRecv(p))

ClientIgnore(p) ==
    /\ p.type # "ERROR"
    /\ p.type = "ACK" => /\ ~IsBlock(p, client.block)
                         /\ ~IsPrevious(p, client.block)
    /\ client' = ClientRecv(p)
    /\ UNCHANGED sent

ClientError(p) ==
    /\ p.type = "ERROR"
    /\ client' = [ClientRecv(p) EXCEPT !.pc = "failed"]
    /\ UNCHANGED sent

\* SIGALRM, which may come after recvfrom took a packet and before alarm(0).
\* alarm(0) arms nothing, so with rexmtval 0 the signal never comes.
ClientTimer ==
    /\ client.pc = "wait"
    /\ ClientRexmt > 0
    /\ \E c0 \in {client} \cup {ClientRecv(p) : p \in ClientArriving} :
           LET c == [c0 EXCEPT !.timeout = Elapsed(@, ClientRexmt)]
           IN  IF c.timeout >= ClientMax
               THEN /\ client' = [c EXCEPT !.pc = "timedout"]
                    /\ UNCHANGED sent
               ELSE ClientSend(c)

-----------------------------------------------------------------------------
ClientNext == \/ ClientPut
              \/ ClientTimer
              \/ \E p \in ClientArriving : \/ ClientAcked(p)
                                           \/ ClientAckedLast(p)
                                           \/ ClientResend(p)
                                           \/ ClientIgnore(p)
                                           \/ ClientError(p)

\* Blocks the client has been told are stored.
Acked == IF client.pc = "done" THEN client.block
         ELSE IF client.block = 0 THEN 0 ELSE client.block - 1

\* Why put sends the right file: a waiting sendfile still holds the block it
\* may have to resend (the request counts as block 0, in the buffer r_init
\* leaves), and ends well only at the last one.
PutInv == /\ client \in ClientState
          /\ client.block <= N
          /\ client.pc = "idle" => client.block = 0 /\ client.buf = r_init
          /\ client.pc = "wait" => /\ SenderBuf(client.buf, client.block)
                                   /\ client.block > 0 => client.size = Size(client.block)
          /\ client.pc = "done" => client.block = N

\* A DATA packet is a block the client has reached, and holds its segment.
DataOK(p) == p.type = "DATA" => /\ p.seq \in 1 .. client.block
                                /\ p.seg = p.seq
                                /\ p.size = Size(p.seq)

=============================================================================
