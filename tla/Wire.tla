-------------------------------- MODULE Wire --------------------------------
(***************************************************************************)
(* Datagrams between a tftp client, the inetd port and tftpd processes     *)
(* (each of which answers from a port of its own), the comparisons of      *)
(* 16-bit block numbers that all transfer loops make, and their timer.     *)
(*                                                                         *)
(* A packet carries the ABSOLUTE number seq of its block; the code only    *)
(* ever sees Wire(seq).  The network is the set of the packets sent so     *)
(* far: a packet in it may arrive any number of times, in any order, or    *)
(* never, which is what UDP (and the inputs synchnet throws away) can do.  *)
(***************************************************************************)
EXTENDS Integers

CONSTANTS
    Servers,    \* tftpd processes inetd may start
    Client,     \* the client's address
    Inetd,      \* the well-known tftp port
    BlockMod    \* block numbers on the wire wrap at this value (2^16)

ASSUME AddressAssumption == Client # Inetd /\ {Client, Inetd} \cap Servers = {}
ASSUME BlockModAssumption == BlockMod \in Nat \ {0, 1}

Address == Servers \cup {Client, Inetd}

Packet == [type : {"RRQ", "WRQ", "DATA", "ACK", "ERROR"},
           src  : Address,
           dst  : Address,
           seq  : Nat,      \* block number before it is cut to 16 bits
           seg  : Nat,      \* payload: the segment of the file
           size : Nat]      \* bytes of payload

-----------------------------------------------------------------------------
\* makerequest
Request(op, to) == [type |-> op, src |-> Client, dst |-> to,
                    seq |-> 0, seg |-> 0, size |-> 0]

Ack(a, to, k) == [type |-> "ACK", src |-> a, dst |-> to,
                  seq |-> k, seg |-> 0, size |-> 0]

\* sendto(dp, size + 4): the packet in the sender's current buffer.
Data(a, to, b, n) == [type |-> "DATA", src |-> a, dst |-> to,
                      seq |-> b.hdr[b.current], seg |-> b.seg[b.current],
                      size |-> n]

\* nak: seq is the sender's block, for Fresh only; no code reads it.
nak(a, to, k) == [type |-> "ERROR", src |-> a, dst |-> to,
                  seq |-> k, seg |-> 0, size |-> 0]

-----------------------------------------------------------------------------
Wire(k) == k % BlockMod

\* Mutants: any block accepted; the block before the one awaited accepted
\* too; the block after the one awaited taken for it.
AnyBlock(p, block)     == TRUE
OrPrevious(p, block)   == \/ Wire(p.seq) = Wire(block)
                          \/ Wire(p.seq) = Wire(block) - 1
NextBlock(p, block)    == Wire(p.seq) = Wire(block + 1)

\* th_block == block
IsBlock(p, block) == Wire(p.seq) = Wire(block)

\* th_block == (block - 1): the subtraction is done in int, so at block 0
\* (after a wrap) it is -1 and no th_block equals it.
IsPrevious(p, block) == Wire(p.seq) = Wire(block) - 1

\* Mutant of Elapsed: the timer forgets how long the other side is silent.
Forgets(timeout, rexmtval) == timeout

\* timer: timeout += rexmtval
Elapsed(timeout, rexmtval) == timeout + rexmtval

-----------------------------------------------------------------------------
\* EXTERNAL: a process at block here takes no datagram of a block a whole cycle
\* of block numbers away: no old datagram survives that long, and none comes
\* from a tftpd that has fallen so far behind.
Fresh(k, here) == k < here + BlockMod /\ here < k + BlockMod

\* The packets recvfrom may return to the process at address a.
Arriving(net, a, here) == {p \in net : p.dst = a /\ Fresh(p.seq, here)}

\* tftpd's main: inetd hands a copy of a request to a new process, whose child
\* serves it from a socket of its own.  Where main exits early (no fork, no
\* socket) or flushes older requests while it retries fork, a copy is just not
\* served.
Requested(net, op) == \E p \in net : p.type = op /\ p.dst = Inetd

=============================================================================
