---------------------------- MODULE AsyncUpload ----------------------------
(***************************************************************************)
(* receive_file (async_tftpd_server.cpp): the asynchronous server of       *)
(* tftpd.hpp, which receives one file and returns, against the sendfile    *)
(* loop of the client.                                                     *)
(*                                                                         *)
(* The program is one thread running boost.asio handlers.  An operation is *)
(* outstanding (op, timer), then complete (its handler waits in ready), and *)
(* then its handler runs, to the end: each handler is one action.  What    *)
(* asio does is modelled from how the code uses it:                        *)
(*  - timer_.cancel() and socket_.cancel() only reach outstanding          *)
(*    operations: a handler that is already in ready still runs, and the   *)
(*    timer's then finds no error and counts as a timeout;                 *)
(*  - run() returns when nothing is outstanding and no handler is left,    *)
(*    and passes on what a handler throws.                                 *)
(* The handler of a cancelled wait does nothing and is left out.           *)
(***************************************************************************)
EXTENDS PutClient

CONSTANTS
    Server,         \* the port the server opens for the transfer
    Rexmt,          \* rexmtval
    MaxTimeout,     \* maxtimeout
    Reorder,        \* may datagrams to the server overtake one another?
    BigEndian       \* the byte order of the server's host

ASSUME ServerAssumption == Servers = {Server}
ASSUME AsyncTimerAssumption == {Rexmt, MaxTimeout} \subseteq Nat \ {0}
ASSUME FlagAssumption == {Reorder, BigEndian} \subseteq BOOLEAN

VARIABLES
    srv,        \* the receiver object
    ready       \* completed handlers, first come first served

vars == <<client, sent, srv, ready>>

NoPacket == [Request("WRQ", Inetd) EXCEPT !.type = "NONE"]

Handler == [op  : {"request", "ack", "data", "last", "nak", "timer"},
            ec  : BOOLEAN,                      \* completed with an error
            pkt : Packet \cup {NoPacket}]       \* what was received

SrvState == [op      : {"none", "request", "ack", "data", "last", "nak"},
             timer   : BOOLEAN,      \* timer_ is running
             timeout : Nat,          \* timeout_
             last    : BOOLEAN,      \* last_timeout_
             open    : BOOLEAN,      \* socket_.is_open()
             named   : BOOLEAN,      \* file_path_ is set
             block   : Nat,
             buf     : Buffers,
             renamed : BOOLEAN,      \* rename() was called (its result is ignored)
             acks    : 0 .. 2,       \* how often the final ACK was sent
             again   : BOOLEAN,      \* the last block came once more
             high    : Nat,          \* block of the last packet received
             result  : {"running", "path", "empty",
                        "timed_out", "canceled", "send_to"}]

\* Every variable has the type the code gives it.
TypeOK ==
    /\ client \in ClientState
    /\ sent \subseteq Packet
    /\ srv \in SrvState
    /\ ready \in Seq(Handler)

Init == /\ ClientInit
        /\ sent = {}
        /\ srv = [op |-> "request", timer |-> TRUE, timeout |-> Rexmt,
                  last |-> FALSE, open |-> TRUE, named |-> FALSE,
                  block |-> 0, buf |-> w_init, renamed |-> FALSE,
                  acks |-> 0, again |-> FALSE, high |-> 0,
                  result |-> "running"]
        /\ ready = << >>

Running == srv.result = "running"

-----------------------------------------------------------------------------
(* Outstanding operations complete.                                        *)

Completion(ec, p) == [op |-> srv.op, ec |-> ec, pkt |-> p]

\* The packets the outstanding receive may return: the request goes to the
\* well-known port, the rest to the port of the transfer.
ServerArriving ==
    CASE srv.op = "request" -> {p \in sent : p.dst = Inetd}
      [] srv.op \in {"data", "last"} ->
             {p \in Arriving(sent, Server, srv.block) : Reorder \/ p.seq >= srv.high}
      [] OTHER -> {}

Received(p) == /\ ready' = Append(ready, Completion(FALSE, p))
               /\ srv' = [srv EXCEPT !.op = "none", !.high = p.seq]
               /\ UNCHANGED <<client, sent>>

\* async_send_to got rid of its packet.
Sent == /\ srv.op \in {"ack", "nak"}
        /\ sent' = sent \cup {IF srv.op = "ack"
                              THEN Ack(Server, Client, srv.block - 1)
                              ELSE nak(IF srv.named THEN Server ELSE Inetd,
                                       Client, srv.block)}
        /\ ready' = Append(ready, Completion(FALSE, NoPacket))
        /\ srv' = [srv EXCEPT !.op = "none"]
        /\ UNCHANGED client

OpFailed == /\ srv.op # "none"
            /\ ready' = Append(ready, Completion(TRUE, NoPacket))
            /\ srv' = [srv EXCEPT !.op = "none"]
            /\ UNCHANGED <<client, sent>>

Expired == /\ srv.timer
           /\ ready' = Append(ready, [op |-> "timer", ec |-> FALSE, pkt |-> NoPacket])
           /\ srv' = [srv EXCEPT !.timer = FALSE]
           /\ UNCHANGED <<client, sent>>

\* io_context.run() has run out of work: receive_file returns file_path_.
Return == /\ srv.op = "none" /\ ~srv.timer /\ ready = << >>
          /\ srv' = [srv EXCEPT !.result = IF srv.named THEN "path" ELSE "empty"]
          /\ UNCHANGED <<client, sent, ready>>

-----------------------------------------------------------------------------
(* The handlers.  H takes the next one off the queue.                      *)

H(op, ec) == /\ ready # << >>
             /\ Head(ready).op = op
             /\ Head(ready).ec = ec
             /\ ready' = Tail(ready)
             /\ UNCHANGED client

start_timeout(st) == [st EXCEPT !.timer = TRUE]

receive_block(st) == [start_timeout(st) EXCEPT !.op = "data"]

send_error(st) == [st EXCEPT !.op = "nak"]

\* Flush what the last block brought (the result is ignored), then send.
send_ackbuf(st, ok) == [st EXCEPT !.buf = write_behind(@, ok), !.op = "ack"]

send_ack(st, ok) == send_ackbuf([st EXCEPT !.block = @ + 1], ok)

\* ACK 0, or an OACK in its place; there is nothing to flush yet.
start_recvfile(st) == send_ack([st EXCEPT !.block = 0, !.buf = w_init], TRUE)

\* do_receive: a request that cannot be served is answered with an error; an
\* accepted one gets a port of its own.
do_receive(refused) ==
    /\ H("request", FALSE)
    /\ srv' = IF refused THEN send_error(srv)
                         ELSE start_recvfile([srv EXCEPT !.named = TRUE])
    /\ UNCHANGED sent

\* Nothing follows a receive or a send that failed here: only the timer is
\* left.
GivesUp == /\ H("request", TRUE) \/ H("ack", TRUE)
           /\ UNCHANGED <<srv, sent>>

\* An ACK is out, or a receive failed or was cancelled: wait for a block.
Waits == /\ H("ack", FALSE) \/ H("data", TRUE)
         /\ srv' = receive_block(srv)
         /\ UNCHANGED sent

\* do_send_error: however the send ended, throw.
Throws == /\ H("nak", FALSE) \/ H("nak", TRUE)
          /\ srv' = [srv EXCEPT !.timer = FALSE, !.result = "canceled"]
          /\ UNCHANGED sent

\* Mutant of start_last_timeout: the flag is not set.
last_timeout_not_set(st) == [start_timeout(st) EXCEPT !.timeout = MaxTimeout]

start_last_timeout(st) == [start_timeout(st) EXCEPT !.timeout = MaxTimeout,
                                                    !.last = TRUE]

\* The timer's handler.  Cancelling the socket completes what is outstanding
\* with an error.
Timer == /\ ready # << >> /\ Head(ready).op = "timer"
         /\ LET t    == Elapsed(srv.timeout, Rexmt)
                over == srv.open /\ t >= MaxTimeout
            IN  /\ srv' = [srv EXCEPT
                              !.timeout = t,
                              !.op = IF srv.open THEN "none" ELSE @,
                              !.open = @ /\ ~over,
                              !.result = IF over /\ ~srv.last THEN "timed_out" ELSE @]
                /\ ready' = IF srv.open /\ srv.op # "none"
                            THEN Append(Tail(ready), Completion(TRUE, NoPacket))
                            ELSE Tail(ready)
         /\ UNCHANGED <<client, sent>>

-----------------------------------------------------------------------------
(* check_and_write_block.                                                  *)

\* Mutant of WritesBlock: the test for a retransmission is missing.
WritesAny(p, block) == TRUE

\* The do { } while (false) falls through for every block number but that of
\* the block before.
WritesBlock(p, block) == IsBlock(p, block) \/ ~IsPrevious(p, block)

Got(p) == [srv EXCEPT !.buf = recv(@, p)]

\* An ERROR packet: return 0, and nothing is outstanding but the timer.
DataError(p) == /\ p.type = "ERROR"
                /\ srv' = Got(p)
                /\ UNCHANGED sent

DataBadOpcode(p) == /\ p.type \notin {"ERROR", "DATA"}
                    /\ srv' = send_error(Got(p))
                    /\ UNCHANGED sent

\* Mutant of DataRexmit: the block that is acknowledged again is counted again.
DataRexmitCounted(p) == /\ p.type = "DATA" /\ ~WritesBlock(p, srv.block)
                        /\ srv' = send_ack(Got(p), TRUE)
                        /\ UNCHANGED sent

\* The block before: send the last ackbuf_ again (nothing is left to flush).
DataRexmit(p) == /\ p.type = "DATA" /\ ~WritesBlock(p, srv.block)
                 /\ srv' = send_ackbuf(Got(p), TRUE)
                 /\ UNCHANGED sent

\* A full block: writeit (the other buffer is free, so it flushes nothing and
\* reports no error), then send_ack.
DataFull(p) == /\ p.type = "DATA" /\ WritesBlock(p, srv.block)
               /\ p.size = SEGSIZE
               /\ \E ok \in BOOLEAN :
                      srv' = send_ack([Got(p) EXCEPT
                                           !.buf = writeit(@, p.size, TRUE)], ok)
               /\ UNCHANGED sent

\* The final ACK is sent at once (send_to may throw); then one more receive.
send_last_ack(st) ==
    \/ /\ srv' = [start_last_timeout(st) EXCEPT !.op = "last", !.acks = 1]
       /\ sent' = sent \cup {Ack(Server, Client, st.block)}
    \/ /\ srv' = [st EXCEPT !.result = "send_to"]
       /\ UNCHANGED sent

\* How the write(2) of a block of n bytes may end: write_behind returns its
\* result, and writes a block of nothing too.
Writes(n) == IF n = 0 THEN {"all"} ELSE {"all", "short", "error"}

\* A short block ends the file.  Its own write is the only one looked at, and
\* only a result below zero is an error: a short write passes for a success.
DataLast(p) ==
    /\ p.type = "DATA" /\ WritesBlock(p, srv.block)
    /\ p.size # SEGSIZE
    /\ \E written \in Writes(p.size) :
           LET st == [Got(p) EXCEPT !.buf = write_behind(writeit(@, p.size, TRUE),
                                                         written = "all")]
           IN  \/ /\ written = "error"
                  /\ srv' = send_error(st)
                  /\ UNCHANGED sent
               \/ /\ written # "error"
                  /\ send_last_ack([st EXCEPT !.renamed = TRUE])

check_and_write_block ==
    /\ H("data", FALSE)
    /\ LET p == Head(ready).pkt
       IN  \/ DataError(p) \/ DataBadOpcode(p) \/ DataRexmit(p)
           \/ DataFull(p) \/ DataLast(p)

\* The test on the packet that comes after the final ACK: th_opcode and
\* th_block are compared as they came, in network byte order.
LastAckLost(p) == BigEndian /\ p.type = "DATA" /\ IsBlock(p, srv.block)

\* The handler of the last receive.
Last == /\ ready # << >> /\ Head(ready).op = "last"
        /\ LET h == Head(ready)
               lost == ~h.ec /\ LastAckLost(h.pkt)
           IN  /\ srv' = [srv EXCEPT
                     !.timer = FALSE,
                     !.again = ~h.ec /\ h.pkt.type = "DATA" /\ IsBlock(h.pkt, srv.block),
                     !.acks  = IF lost THEN 2 ELSE @]
               /\ sent' = IF lost THEN sent \cup {Ack(Server, Client, srv.block)}
                                  ELSE sent
        /\ ready' = Tail(ready)
        /\ UNCHANGED client

-----------------------------------------------------------------------------
Runs == /\ Running
        /\ \/ do_receive(TRUE) \/ do_receive(FALSE)
           \/ GivesUp
           \/ Waits
           \/ Throws
           \/ Timer
           \/ check_and_write_block
           \/ Last

Completes == Running /\ (Sent \/ OpFailed \/ Expired \/ Return)

Receives == Running /\ \E p \in ServerArriving : Received(p)

Next == \/ ClientNext /\ UNCHANGED <<srv, ready>>
        \/ Runs
        \/ Completes
        \/ Receives

Spec == Init /\ [][Next]_vars

\* The thread runs its handlers, sends finish and the timer expires.  Nothing
\* is assumed of the client or of the network.
Fairness == /\ WF_vars(Runs)
            /\ WF_vars(Running /\ (Sent \/ Return))
            /\ WF_vars(Running /\ Expired)

FairSpec == Spec /\ Fairness

-----------------------------------------------------------------------------
(* Properties                                                              *)

\* Blocks the server has written.
Kept(st) == IF st.renamed THEN st.block
            ELSE IF st.block = 0 THEN 0 ELSE st.block - 1

Stored == Kept(srv)

\* The upload holds the blocks received so far, each once and in order: what
\* is written is "the current data segment" (unless a write failed).
StoredIsPrefix == srv.buf.lost \/ srv.buf.out = FilePrefix(Stored)

\* The file only gets its final name when all its blocks are in it, and when a
\* client ends well it has got it (or rename() was tried: nobody looks whether
\* that succeeded).
RenamedIsWhole == /\ srv.renamed => /\ srv.block = N
                                    /\ srv.buf.lost \/ srv.buf.out = WholeFile
                  /\ client.pc = "done" => srv.renamed

\* Once the file is in place receive_file returns its path: no timeout that
\* was already on its way when the last block came makes it throw.  (Only the
\* final send_to may.)
RenamedIsReturned == srv.renamed => srv.result \in {"running", "path", "send_to"}

\* How the transfer goes, for FileTransfer: it has failed as soon as an error
\* is on its way to the client, and it is a success with the rename.
Failing == srv.op = "nak" \/ \E i \in DOMAIN ready : ready[i].op = "nak"

Outcome == IF srv.renamed THEN "ok"
           ELSE IF Running /\ ~Failing THEN "active" ELSE "failed"

FT == INSTANCE FileTransfer
          WITH progress <- Stored, file <- srv.buf.out, damaged <- srv.buf.lost,
               status <- Outcome

\* The server implements FileTransfer: a block that comes again is neither
\* stored nor counted again, nothing is stored once an error is on its way,
\* and a file that got its name is never touched again.
ImplementsFileTransfer == FT!FTSpec

\* Why these hold: the inductive invariant, in two parts.  The first holds
\* however datagrams arrive.  One operation at most is outstanding or has its
\* handler in ready, next to any number of timer handlers, so a packet meets
\* the state its receive was started in; only the receive after the final ACK
\* follows the rename, and it cannot throw.
OpOK(st, op) == /\ op = "request" => st.block = 0
                /\ op \in {"ack", "data"} => st.block > 0
                /\ st.renamed <=> op = "last"

Idle(q) == \A i \in DOMAIN q : q[i].op = "timer"

ReadyOK(st, q, net) ==
    /\ st.op # "none" => OpOK(st, st.op) /\ Idle(q)
    /\ \A i \in DOMAIN q : q[i].op # "timer" =>
          /\ OpOK(st, q[i].op)
          /\ \A j \in DOMAIN q : q[j].op # "timer" => i = j
          /\ q[i].op = "data" /\ ~q[i].ec => q[i].pkt \in net

SrvOK(st) == /\ ReceiverBuf(st.buf)
             /\ st.block = 0 => st.buf = w_init
             /\ st.block > 0 => st.named
             /\ st.renamed => /\ st.named
                              /\ st.last \/ st.result = "send_to"
                              /\ st.result \in {"running", "path", "send_to"}

Inv == /\ TypeOK
       /\ PutInv
       /\ \A p \in sent : DataOK(p)
       /\ SrvOK(srv)
       /\ ReadyOK(srv, ready, sent)

\* The second part needs datagrams that arrive in the order they were sent in,
\* and a file that is over before block numbers wrap.
InOrder == ~Reorder /\ N < BlockMod

\* The next packet is not older than the last block written, and the client is
\* not past the block awaited.
OrderOK(st) == /\ st.block <= N
               /\ st.block <= st.high + 1
               /\ st.renamed => st.block = N
               /\ st.buf.lost \/ st.buf.out = FilePrefix(Kept(st))

OrderInv == /\ OrderOK(srv)
            /\ \A i \in DOMAIN ready :
                  ready[i].op = "data" /\ ~ready[i].ec => ready[i].pkt.seq = srv.high
            /\ \A p \in sent : p.type = "ACK" => p.seq <= Stored
            /\ Acked <= Stored

\* receive_file returns the path to the file received, or throws on error.
PathIsReceived == srv.result = "path" => srv.renamed

\* When the disk is full the upload must fail for the client.
DiskFullFails == srv.buf.lost => client.pc # "done"

\* When the last block comes again the server must "resend final ack".
FinalAckIsResent == srv.again => srv.acks = 2

\* receive_file returns or throws, whatever the client does.
ServerReturns == <>~Running

=============================================================================
