------------------------------- MODULE Upload -------------------------------
(***************************************************************************)
(* `put': the sendfile loop of the client (tftp/tftp.c) against the        *)
(* recvfile loops of the tftpd processes (tftpd/tftpd.c) that inetd starts *)
(* for the client's write request and for every copy of it.  All of them   *)
(* open, truncate and write the same file, each at its own offset.         *)
(*                                                                         *)
(* As in Download, what a process does between two recvfroms is one        *)
(* action, and a packet that changes nothing has no action.                *)
(***************************************************************************)
EXTENDS PutClient

CONSTANTS ServerRexmt, ServerMax    \* rexmtval and maxtimeout of tftpd

ASSUME ServerTimerAssumption == {ServerRexmt, ServerMax} \subseteq Nat \ {0}

VARIABLES
    server,     \* recvfile's locals of each tftpd
    disk        \* the file on the server: the segment at each offset, or 0

vars == <<client, server, disk, sent>>

ServerState == [pc      : {"idle", "wait", "linger", "done", "aborted", "timedout"},
                block   : Nat,
                buf     : Buffers,
                timeout : Nat,
                acks    : 0 .. 2,       \* how often the final ACK was sent
                again   : BOOLEAN]      \* the last block came once more

\* Every variable has the type the code gives it.
TypeOK == /\ client \in ClientState
          /\ server \in [Servers -> ServerState]
          /\ disk \in [1 .. N -> Nat]
          /\ sent \subseteq Packet

Init == /\ ClientInit
        /\ server = [s \in Servers |-> [pc |-> "idle", block |-> 0,
                                        buf |-> w_init, timeout |-> 0,
                                        acks |-> 0, again |-> FALSE]]
        /\ disk = [i \in 1 .. N |-> 0]
        /\ sent = {}

-----------------------------------------------------------------------------
(* A tftpd process: tftp, then recvfile.                                   *)

\* The file after the buffers went from b1 to b2: what was written in
\* between lies at the writer's offset.
Written(d, b1, b2) ==
    [i \in 1 .. N |-> IF i \in Len(b1.out) + 1 .. Len(b2.out)
                      THEN b2.out[i] ELSE d[i]]

\* The label send_ack: send, then flush what the last packet brought.
ServerSend(s, st, d) ==
    \E ok \in BOOLEAN :
        LET b == write_behind(st.buf, ok)
        IN  \/ /\ server' = [server EXCEPT ![s] = [st EXCEPT !.pc = "wait", !.buf = b]]
               /\ disk' = Written(d, st.buf, b)
               /\ sent' = sent \cup {Ack(s, Client, st.block - 1)}
            \/ /\ server' = [server EXCEPT ![s] = [st EXCEPT !.pc = "aborted"]]
               /\ disk' = d                               \* sendto failed
               /\ UNCHANGED sent

\* recv(peer, dp, ...)
ServerRecv(s, p) == [server[s] EXCEPT !.buf = recv(@, p)]

ServerArriving(s) == {p \in Arriving(sent, s, server[s].block) :
                          server[s].pc \in {"wait", "linger"}}

\* The file after open with O_TRUNC.
Truncated == [i \in 1 .. N |-> 0]

\* inetd hands a copy of the write request to a new tftpd, which may refuse
\* it, before open or, when fdopen fails, after it (validate_access; block 1
\* is the mark of a tftpd that opened the file), or truncates the file and
\* acknowledges block 0.
ServerStart(s) ==
    LET opened == [server[s] EXCEPT !.block = 1]
    IN  /\ server[s].pc = "idle"
        /\ Requested(sent, "WRQ")
        /\ \/ /\ server' = [server EXCEPT ![s].pc = "aborted"]
              /\ sent' = sent \cup {nak(s, Client, 0)}
              /\ UNCHANGED disk
           \/ /\ server' = [server EXCEPT ![s] = [opened EXCEPT !.pc = "aborted"]]
              /\ sent' = sent \cup {nak(s, Client, 0)}
              /\ disk' = Truncated
           \/ ServerSend(s, opened, Truncated)
        /\ UNCHANGED client

\* The awaited block, and it is not the last.
ServerAccept(s, p) ==
    /\ server[s].pc = "wait"
    /\ p.type = "DATA" /\ IsBlock(p, server[s].block)
    /\ p.size = SEGSIZE
    /\ \E ok \in BOOLEAN :
           LET st == [ServerRecv(s, p) EXCEPT !.buf = writeit(@, p.size, ok),
                                              !.block = @ + 1,
                                              !.timeout = 0]
           IN  ServerSend(s, st, Written(disk, server[s].buf, st.buf))
    /\ UNCHANGED client

\* Mutant of ServerAcceptLast: the final ACK goes out before the last block
\* is flushed, and the process ends there.
ServerAcceptLastUnflushed(s, p) ==
    /\ server[s].pc = "wait"
    /\ p.type = "DATA" /\ IsBlock(p, server[s].block)
    /\ p.size # SEGSIZE
    /\ server' = [server EXCEPT ![s] =
                     [ServerRecv(s, p) EXCEPT !.buf = writeit(@, p.size, TRUE),
                                              !.pc = "linger",
                                              !.acks = 1]]
    /\ sent' = sent \cup {Ack(s, Client, server[s].block)}
    /\ UNCHANGED <<client, disk>>

\* The awaited block, and it is the last: flush, close, send the final ACK
\* and wait once more in case it gets lost.
ServerAcceptLast(s, p) ==
    /\ server[s].pc = "wait"
    /\ p.type = "DATA" /\ IsBlock(p, server[s].block)
    /\ p.size # SEGSIZE
    /\ \E ok1, ok2 \in BOOLEAN :
           LET b == write_behind(writeit(recv(server[s].buf, p), p.size, ok1), ok2)
           IN  /\ server' = [server EXCEPT ![s] =
                                [server[s] EXCEPT !.pc = "linger", !.buf = b,
                                                  !.acks = 1]]
               /\ disk' = Written(disk, server[s].buf, b)
    /\ sent' = sent \cup {Ack(s, Client, server[s].block)}
    /\ UNCHANGED client

\* The block before the awaited one: its ACK was lost, resend it.
ServerResend(s, p) ==
    /\ server[s].pc = "wait"
    /\ p.type = "DATA" /\ ~IsBlock(p, server[s].block)
    /\ IsPrevious(p, server[s].block)
    /\ ServerSend(s, ServerRecv(s, p), disk)
    /\ UNCHANGED client

ServerIgnore(s, p) ==
    /\ server[s].pc = "wait"
    /\ p.type # "ERROR"
    /\ p.type = "DATA" => /\ ~IsBlock(p, server[s].block)
                          /\ ~IsPrevious(p, server[s].block)
    /\ server' = [server EXCEPT ![s] = ServerRecv(s, p)]
    /\ UNCHANGED <<client, disk, sent>>

\* The client gave up, or recv failed.
ServerAbort(s) ==
    /\ server[s].pc = "wait"
    /\ server' = [server EXCEPT ![s].pc = "aborted"]
    /\ UNCHANGED <<client, disk, sent>>

\* A packet that SIGALRM throws away after recv took it stays in dp with its
\* header in network byte order, which no later test reads.
ServerTimer(s) ==
    /\ server[s].pc = "wait"
    /\ LET st == [server[s] EXCEPT !.timeout = Elapsed(@, ServerRexmt)]
       IN  IF st.timeout >= ServerMax
           THEN /\ server' = [server EXCEPT ![s] = [st EXCEPT !.pc = "timedout"]]
                /\ UNCHANGED <<disk, sent>>
           ELSE ServerSend(s, st, disk)
    /\ UNCHANGED client

\* The test made on the packet that comes after the final ACK.  The packet
\* is in buf; dp still points to the free packet buffer, whose header is 0
\* unless a DATA packet was received into it before.
LastAckLost(st) == LET h == st.buf.hdr[st.buf.current]
                   IN  h # 0 /\ Wire(h) = Wire(st.block)

\* One packet after the final ACK ends the process.
ServerLinger(s, p) ==
    /\ server[s].pc = "linger"
    /\ LET lost == LastAckLost(server[s])
       IN  /\ server' = [server EXCEPT
                 ![s].pc    = "done",
                 ![s].again = p.type = "DATA" /\ IsBlock(p, server[s].block),
                 ![s].acks  = IF lost THEN 2 ELSE @]
           /\ sent' = IF lost THEN sent \cup {Ack(s, Client, server[s].block)}
                              ELSE sent
    /\ UNCHANGED <<client, disk>>

\* Nothing came after the final ACK: justquit.
ServerQuit(s) ==
    /\ server[s].pc = "linger"
    /\ server' = [server EXCEPT ![s].pc = "done"]
    /\ UNCHANGED <<client, disk, sent>>

-----------------------------------------------------------------------------
Next == \/ ClientNext /\ UNCHANGED <<server, disk>>
        \/ \E s \in Servers : \/ ServerStart(s)
                              \/ ServerAbort(s)
                              \/ ServerTimer(s)
                              \/ ServerQuit(s)
                              \/ \E p \in ServerArriving(s) :
                                     \/ ServerAccept(s, p)
                                     \/ ServerAcceptLast(s, p)
                                     \/ ServerResend(s, p)
                                     \/ ServerIgnore(s, p)
                                     \/ ServerLinger(s, p)

Spec == Init /\ [][Next]_vars

\* The alarm of a waiting process fires unless it is cancelled for good.  That
\* the sendto which follows fails is not counted on.
Fairness == /\ WF_vars(/\ ClientTimer /\ client'.pc # "failed"
                       /\ UNCHANGED <<server, disk>>)
            /\ \A s \in Servers :
                   /\ WF_vars(ServerTimer(s) /\ server'[s].pc # "aborted")
                   /\ WF_vars(ServerQuit(s))

FairSpec == Spec /\ Fairness

-----------------------------------------------------------------------------
(* Properties                                                              *)

\* Blocks a tftpd in state st has accepted.
Taken(st) == IF st.pc \in {"linger", "done"} THEN st.block
             ELSE IF st.block = 0 THEN 0 ELSE st.block - 1

Accepted(s) == Taken(server[s])

Damaged == \E s \in Servers : server[s].buf.lost

Started == {s \in Servers : server[s].block > 0}

\* What sendfile counts as delivered, one and the same tftpd has accepted,
\* from the first block on, although the client takes the ACKs of any.
AckedIsAccepted == Acked > 0 => \E s \in Servers : Accepted(s) >= Acked

\* Stop and wait: no tftpd has accepted a block the client has not reached.
LockStep == \A s \in Servers : Accepted(s) <= client.block

\* However many tftpds write the file at once, no offset ever holds another
\* segment than its own (unless a write failed).
DiskNeverWrong == Damaged \/ \A i \in 1 .. N : disk[i] \in {0, i}

\* When sendfile ends well, the whole file is on the server's disk, provided
\* that one tftpd served it and no write failed: the final ACK is sent only
\* after the last buffer was flushed.
DoneIsStored == (client.pc = "done" /\ ~Damaged /\ \E s \in Servers : Started = {s})
                    => \A i \in DOMAIN WholeFile : disk[i] = i

\* When the last block comes again after the final ACK, then "my last ack was
\* lost" and tftpd is to "resend final ack" (comments of recvfile).
FinalAckIsResent == \A s \in Servers : server[s].again => server[s].acks = 2

\* Why these hold: the inductive invariant.  A tftpd that waits has flushed
\* all it accepted, has accepted no block the client has not sent, and
\* acknowledges none it has not accepted; what it has written lies on the disk
\* as long as no second tftpd has truncated the file.
ServerOK(st) ==
    /\ st.block <= N
    /\ st.pc = "idle" => st.block = 0 /\ st.buf = w_init
    /\ st.pc = "wait" => st.block > 0
    /\ st.pc \in {"linger", "done"} => st.block = N
    /\ st.pc \in {"idle", "wait", "linger", "done"} =>
          /\ ReceiverBuf(st.buf)
          /\ st.buf.lost \/ st.buf.out = FilePrefix(Taken(st))

AckOK(p) == p.type = "ACK" => p.src \in Servers /\ p.seq <= Accepted(p.src)

OnDisk == \A s \in Servers : ~Damaged /\ Started = {s} =>
              \A i \in 1 .. Len(server[s].buf.out) : disk[i] = server[s].buf.out[i]

Inv == /\ TypeOK
       /\ PutInv
       /\ \A s \in Servers : ServerOK(server[s])
       /\ \A p \in sent : DataOK(p) /\ AckOK(p)
       /\ AckedIsAccepted
       /\ LockStep
       /\ DiskNeverWrong
       /\ OnDisk

\* How the transfer of a tftpd in state st stands.
Outcome(st) == IF st.pc \in {"idle", "wait"} THEN "active"
               ELSE IF st.pc \in {"linger", "done"} THEN "ok" ELSE "failed"

\* Each tftpd's recvfile is what FileTransfer promises.
FT(s) == INSTANCE FileTransfer WITH
             progress <- Accepted(s),
             file     <- server[s].buf.out,
             damaged  <- server[s].buf.lost,
             status   <- Outcome(server[s])

ImplementsFileTransfer ==
    /\ \A s \in Servers : FT(s)!FTInit
    /\ [][\A s \in Servers : FT(s)!FTNext \/ UNCHANGED FT(s)!ftVars]_vars

\* Every transfer comes to an end on both sides.
ClientEnds == client.pc = "wait" ~> client.pc \in {"done", "failed", "timedout"}
ServersEnd == \A s \in Servers : server[s].pc \in {"wait", "linger"}
                                     ~> server[s].pc \in {"done", "aborted", "timedout"}

=============================================================================
