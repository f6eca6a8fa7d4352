------------------------------ MODULE Download ------------------------------
(***************************************************************************)
(* `get': the recvfile loop of the client (tftp/tftp.c) against the        *)
(* sendfile loops of the tftpd processes (tftpd/tftpd.c) that inetd starts *)
(* for the client's read request and for every copy of it.                 *)
(*                                                                         *)
(* Each process is sequential and only meets the others at sendto and      *)
(* recvfrom, so everything a process does from one recvfrom to the next is *)
(* one action.  A packet that a loop ignores changes nothing in a server   *)
(* (no action); in the client it still overwrites `from' and dp.           *)
(***************************************************************************)
EXTENDS Tftpsubs, Wire

CONSTANTS
    ClientRexmt, ClientMax,     \* rexmtval and maxtimeout of the client
    ServerRexmt, ServerMax      \* rexmtval and maxtimeout of tftpd

ASSUME TimerAssumption == /\ {ClientRexmt, ClientMax} \subseteq Nat
                          /\ {ServerRexmt, ServerMax} \subseteq Nat \ {0}

VARIABLES
    client,     \* recvfile's locals, and the globals from and timeout
    server,     \* sendfile's locals of each tftpd
    sent        \* datagrams sent so far

vars == <<client, server, sent>>

ClientState == [pc      : {"idle", "wait", "done", "failed", "timedout"},
                block   : Nat \ {0},
                buf     : Buffers,
                from    : Address,
                timeout : Nat]

ServerState == [pc      : {"idle", "wait", "done", "aborted", "timedout"},
                block   : Nat \ {0},
                buf     : Buffers,
                size    : 0 .. SEGSIZE,
                timeout : Nat]

\* Every variable has the type the code gives it.
TypeOK == /\ client \in ClientState
          /\ server \in [Servers -> ServerState]
          /\ sent \subseteq Packet

Init == /\ client = [pc |-> "idle", block |-> 1, buf |-> w_init,
                     from |-> Inetd, timeout |-> 0]
        /\ server = [s \in Servers |-> [pc |-> "idle", block |-> 1,
                                        buf |-> r_init, size |-> 0,
                                        timeout |-> 0]]
        /\ sent = {}

-----------------------------------------------------------------------------
(* The client: recvfile.                                                   *)

\* Mutants of ClientClose: the last buffer is not flushed.
ClientCloseUnflushed(c, pc, ok) == [c EXCEPT !.pc = pc]

\* The label abort: flush the last buffer, close the file.
ClientClose(c, pc, ok) == [c EXCEPT !.pc = pc, !.buf = write_behind(@, ok)]

\* The label send_ack: send, then flush what the last packet brought.
ClientSend(c, p) ==
    \E ok \in BOOLEAN :
        \/ /\ client' = [c EXCEPT !.pc = "wait", !.buf = write_behind(@, ok)]
           /\ sent' = sent \cup {p}
        \/ /\ client' = ClientClose(c, "failed", ok)     \* sendto failed
           /\ UNCHANGED sent

\* What ackbuf holds: the request until the first block came, then an ACK.
ackbuf(c) == IF c.block = 1 THEN Request("RRQ", c.from)
                            ELSE Ack(Client, c.from, c.block - 1)

\* recvfrom(f, dp, ..., &from, ...)
ClientRecv(p) == [client EXCEPT !.from = p.src, !.buf = recv(@, p)]

ClientArriving == {p \in Arriving(sent, Client, client.block) :
                       client.pc = "wait"}

ClientGet == /\ client.pc = "idle"
             /\ ClientSend(client, ackbuf(client))
             /\ UNCHANGED server

\* The awaited block, and it is not the last.
ClientAccept(p) ==
    /\ p.type = "DATA" /\ IsBlock(p, client.block)
    /\ p.size = SEGSIZE
    /\ \E ok \in BOOLEAN :
           LET c == [ClientRecv(p) EXCEPT !.buf = writeit(@, p.size, ok),
                                          !.block = @ + 1,
                                          !.timeout = 0]
           IN  ClientSend(c, ackbuf(c))
    /\ UNCHANGED server

\* The awaited block, and it is the last: one final ACK, and out.
ClientAcceptLast(p) ==
    /\ p.type = "DATA" /\ IsBlock(p, client.block)
    /\ p.size # SEGSIZE
    /\ \E ok1, ok2 \in BOOLEAN :
           client' = ClientClose([ClientRecv(p) EXCEPT
                                      !.buf = writeit(@, p.size, ok1)],
                                 "done", ok2)
    /\ sent' = sent \cup {Ack(Client, p.src, client.block)}
    /\ UNCHANGED server

\* The block before the awaited one: its ACK was lost, resend it.
ClientResend(p) ==
    /\ p.type = "DATA" /\ ~IsBlock(p, client.block)
    /\ IsPrevious(p, client.block)
    /\ ClientSend(ClientRecv(p), ackbuf(ClientRecv(p)))
    /\ UNCHANGED server

ClientIgnore(p) ==
    /\ p.type # "ERROR"
    /\ p.type = "DATA" => /\ ~IsBlock(p, client.block)
                          /\ ~IsPrevious(p, client.block)
    /\ client' = ClientRecv(p)
    /\ UNCHANGED <<server, sent>>

ClientError(p) ==
    /\ p.type = "ERROR"
    /\ \E ok \in BOOLEAN : client' = ClientClose(ClientRecv(p), "failed", ok)
    /\ UNCHANGED <<server, sent>>

\* SIGALRM, which may come after recvfrom took a packet and before alarm(0).
\* alarm(0) arms nothing, so with rexmtval 0 the signal never comes.
ClientTimer ==
    /\ client.pc = "wait"
    /\ ClientRexmt > 0
    /\ \E c \in {client} \cup {ClientRecv(p) : p \in ClientArriving} :
           LET t == Elapsed(c.timeout, ClientRexmt)
           IN  IF t >= ClientMax
               THEN /\ client' = [c EXCEPT !.pc = "timedout", !.timeout = t]
                    /\ UNCHANGED sent
               ELSE ClientSend([c EXCEPT !.timeout = t], ackbuf(c))
    /\ UNCHANGED server

-----------------------------------------------------------------------------
(* A tftpd process: tftp, then sendfile.                                   *)

\* The label send_data: send the current buffer, then fill the next one.
ServerSend(s, st) ==
    \E ok \in BOOLEAN :
        \/ /\ server' = [server EXCEPT ![s] =
                            [st EXCEPT !.pc = "wait", !.buf = read_ahead(@, ok)]]
           /\ sent' = sent \cup {Data(s, Client, st.buf, st.size)}
        \/ /\ server' = [server EXCEPT ![s] = [st EXCEPT !.pc = "aborted"]]
           /\ UNCHANGED sent                              \* sendto failed

\* Mutant of ServerNextBlock: a read that failed is not noticed.
ServerNextBlockUnchecked(s, st) ==
    \E ok \in BOOLEAN :
        LET b == readit(st.buf, ok)
        IN  ServerSend(s, [st EXCEPT !.buf = [b EXCEPT !.hdr[b.current] = st.block],
                                     !.size = b.counter[b.current],
                                     !.timeout = 0])

\* The top of the do loop: take the next segment and send it as block, or
\* tell the client that the file cannot be read.
ServerNextBlock(s, st) ==
    \E ok \in BOOLEAN :
        LET b == readit(st.buf, ok)
            n == b.counter[b.current]
        IN  IF n < 0
            THEN /\ server' = [server EXCEPT ![s] =
                                  [st EXCEPT !.pc = "aborted", !.buf = b]]
                 /\ sent' = sent \cup {nak(s, Client, st.block)}
            ELSE ServerSend(s, [st EXCEPT !.buf = [b EXCEPT !.hdr[b.current] = st.block],
                                          !.size = n,
                                          !.timeout = 0])

ServerArriving(s) == {p \in Arriving(sent, s, server[s].block) :
                          server[s].pc = "wait"}

\* inetd hands a copy of the read request to a new tftpd, which may refuse
\* it (validate_access).
ServerStart(s) ==
    /\ server[s].pc = "idle"
    /\ Requested(sent, "RRQ")
    /\ \/ /\ server' = [server EXCEPT ![s].pc = "aborted"]
          /\ sent' = sent \cup {nak(s, Client, 1)}
       \/ ServerNextBlock(s, server[s])
    /\ UNCHANGED client

\* The awaited ACK: next block, or the end after a short one.
ServerAcked(s, p) ==
    /\ p.type = "ACK" /\ IsBlock(p, server[s].block)
    /\ LET st == [server[s] EXCEPT !.block = @ + 1]
       IN  IF st.size = SEGSIZE
           THEN ServerNextBlock(s, st)
           ELSE /\ server' = [server EXCEPT ![s] = [st EXCEPT !.pc = "done"]]
                /\ UNCHANGED sent
    /\ UNCHANGED client

\* The ACK before the awaited one: the data was lost, resend it.
ServerResend(s, p) ==
    /\ p.type = "ACK" /\ ~IsBlock(p, server[s].block)
    /\ IsPrevious(p, server[s].block)
    /\ ServerSend(s, server[s])
    /\ UNCHANGED client

\* recv failed.  (An ERROR packet ends the loop in the same way, but the
\* client's recvfile never sends one: the size it tests is never negative.)
ServerRecvFails(s) ==
    /\ server[s].pc = "wait"
    /\ server' = [server EXCEPT ![s].pc = "aborted"]
    /\ UNCHANGED <<client, sent>>

ServerTimer(s) ==
    /\ server[s].pc = "wait"
    /\ LET st == [server[s] EXCEPT !.timeout = Elapsed(@, ServerRexmt)]
       IN  IF st.timeout >= ServerMax
           THEN /\ server' = [server EXCEPT ![s] = [st EXCEPT !.pc = "timedout"]]
                /\ UNCHANGED sent
           ELSE ServerSend(s, st)
    /\ UNCHANGED client

-----------------------------------------------------------------------------
Next == \/ ClientGet
        \/ ClientTimer
        \/ \E p \in ClientArriving : \/ ClientAccept(p)
                                     \/ ClientAcceptLast(p)
                                     \/ ClientResend(p)
                                     \/ ClientIgnore(p)
                                     \/ ClientError(p)
        \/ \E s \in Servers : \/ ServerStart(s)
                              \/ ServerRecvFails(s)
                              \/ ServerTimer(s)
                              \/ \E p \in ServerArriving(s) :
                                     ServerAcked(s, p) \/ ServerResend(s, p)

Spec == Init /\ [][Next]_vars

\* The alarm of a waiting process fires unless it is cancelled for good.  That
\* the sendto which follows fails is not counted on.
Fairness == /\ WF_vars(ClientTimer /\ client'.pc # "failed")
            /\ \A s \in Servers : WF_vars(ServerTimer(s) /\ server'[s].pc # "aborted")

FairSpec == Spec /\ Fairness

-----------------------------------------------------------------------------
(* Properties                                                              *)

\* Blocks the client has accepted.
Accepted == IF client.pc = "done" THEN client.block ELSE client.block - 1

\* The bytes on the client's disk are exactly the blocks it accepted, in
\* order and each once, at every recvfrom and also when recvfile gives up:
\* write_behind has always flushed the last one (unless a write failed).
ReceivedIsPrefix == client.buf.lost \/ client.buf.out = FilePrefix(Accepted)

\* recvfile reports a received file only if it has the whole of it, although
\* it takes any short packet for the last one and follows whichever tftpd
\* spoke last.
DoneIsWhole == client.pc = "done" =>
                   client.block = N /\ (client.buf.lost \/ client.buf.out = WholeFile)

\* Every DATA packet carries the segment its number says, retransmissions
\* included: read_ahead never touches the buffer that may have to be resent.
DataIsFaithful == \A p \in sent : p.type = "DATA" => /\ p.seg = p.seq
                                                     /\ p.size = Size(p.seq)

\* Stop and wait: no tftpd is ever past the block the client waits for, and
\* none believes the file delivered before the client has all of it.
LockStep == \A s \in Servers :
                /\ server[s].pc = "wait" => server[s].block <= client.block
                /\ server[s].pc = "done" => client.pc = "done"

\* Why these hold: the inductive invariant.  A waiting client has flushed all
\* it accepted, a waiting tftpd still holds the block it may have to resend,
\* and nothing is acknowledged before it was accepted.
ClientInv == /\ client.block <= N
             /\ client.pc = "idle" => client.block = 1
             /\ client.pc = "done" => client.block = N
             /\ client.pc \in {"idle", "wait"} => ReceiverBuf(client.buf)
             /\ ReceivedIsPrefix

ServerOK(st) == /\ st.pc = "idle" => st.block = 1 /\ st.buf = r_init
                /\ st.pc = "wait" => /\ SenderBuf(st.buf, st.block)
                                     /\ st.block <= N
                                     /\ st.size = Size(st.block)
                                     /\ st.block <= client.block
                /\ st.pc = "done" => client.pc = "done"

PacketOK(p) == /\ p.type = "DATA" => /\ p.seq \in 1 .. N
                                     /\ p.seg = p.seq
                                     /\ p.size = Size(p.seq)
               /\ p.type = "ACK" => p.seq \in 1 .. Accepted

Inv == /\ TypeOK
       /\ ClientInv
       /\ \A s \in Servers : ServerOK(server[s])
       /\ \A p \in sent : PacketOK(p)

\* recvfile is what FileTransfer promises.
FT == INSTANCE FileTransfer WITH
          progress <- Accepted,
          file     <- client.buf.out,
          damaged  <- client.buf.lost,
          status   <- IF client.pc \in {"idle", "wait"} THEN "active"
                      ELSE IF client.pc = "done" THEN "ok" ELSE "failed"

ImplementsFileTransfer == FT!FTSpec

\* Every transfer comes to an end on both sides: the client's, and that of
\* every tftpd that was started for it.
ClientEnds == client.pc = "wait" ~> client.pc \in {"done", "failed", "timedout"}
ServersEnd == \A s \in Servers :
                  server[s].pc = "wait" ~> server[s].pc \in {"done", "aborted", "timedout"}

=============================================================================
