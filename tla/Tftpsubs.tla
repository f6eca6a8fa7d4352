------------------------------ MODULE Tftpsubs ------------------------------
(***************************************************************************)
(* The double buffering of tftp/tftpsubs.c: two packet buffers bfs[0..1],  *)
(* filled ahead of the sender (readit, read_ahead) or flushed behind the   *)
(* receiver (writeit, write_behind).                                       *)
(*                                                                         *)
(* A file is N segments: segments 1 .. N-1 hold SEGSIZE bytes and segment  *)
(* N holds LastSize < SEGSIZE bytes, which is how TFTP marks the end of a  *)
(* file.  The payload of a buffer is the number of the segment in it.      *)
(*                                                                         *)
(* A buffer pair is a record:                                              *)
(*   counter, hdr, seg   bfs[i].counter, the th_block of the packet in     *)
(*                       bfs[i].buf (0: never written) and its payload     *)
(*   current, nextone    the static indices of tftpsubs.c                  *)
(*   pos                 segments read(2) so far from the open file        *)
(*   out                 segments written so far to the open file          *)
(*   lost                ghost: a write(2) failed and nobody noticed       *)
(***************************************************************************)
EXTENDS Integers, Sequences

CONSTANTS
    SEGSIZE,    \* bytes in a full data block (512 in the code)
    N,          \* data blocks the file is sent in
    LastSize    \* bytes in the last of them

ASSUME SizesAssumption == /\ SEGSIZE \in Nat \ {0}
                          /\ N \in Nat \ {0}
                          /\ LastSize \in 0 .. SEGSIZE - 1

BF_ALLOC == -3   \* handed out, not yet filled
BF_FREE  == -2   \* free

\* What read(2) returns for the k-th read of the file (0 past its end).
Size(k) == IF k < N THEN SEGSIZE ELSE IF k = N THEN LastSize ELSE 0

Buffers == [counter : [0 .. 1 -> -3 .. SEGSIZE],
            hdr     : [0 .. 1 -> Nat],
            seg     : [0 .. 1 -> Nat],
            current : 0 .. 1,
            nextone : 0 .. 1,
            pos     : Nat,
            out     : Seq(Nat),
            lost    : BOOLEAN]

rw_init(x) == [counter |-> [i \in 0 .. 1 |-> IF i = 0 THEN BF_ALLOC ELSE BF_FREE],
               hdr     |-> [i \in 0 .. 1 |-> 0],
               seg     |-> [i \in 0 .. 1 |-> 0],
               current |-> 0,
               nextone |-> x,
               pos     |-> 0,
               out     |-> << >>,
               lost    |-> FALSE]
w_init == rw_init(0)
r_init == rw_init(1)

-----------------------------------------------------------------------------
\* Mutant of read_ahead: the buffer filled without looking whether it is free.
read_ahead_always(b, ok) ==
    [b EXCEPT !.counter[b.nextone] = IF ok THEN Size(b.pos + 1) ELSE -1,
              !.seg[b.nextone]     = IF ok THEN b.pos + 1 ELSE @,
              !.nextone            = 1 - @,
              !.pos                = IF ok THEN @ + 1 ELSE @]

-----------------------------------------------------------------------------
(* Sending: ok tells whether the read(2) the operator makes succeeds.      *)

\* Fill the next buffer unless it is still in use.
read_ahead(b, ok) ==
    IF b.counter[b.nextone] # BF_FREE
    THEN b
    ELSE [b EXCEPT !.counter[b.nextone] = IF ok THEN Size(b.pos + 1) ELSE -1,
                   !.seg[b.nextone]     = IF ok THEN b.pos + 1 ELSE @,
                   !.nextone            = 1 - @,
                   !.pos                = IF ok THEN @ + 1 ELSE @]

\* Free the acknowledged buffer, move to the other one, fill it if need be.
readit(b, ok) ==
    LET b1 == [b EXCEPT !.counter[b.current] = BF_FREE,
                        !.current            = 1 - @]
    IN  IF b1.counter[b1.current] = BF_FREE THEN read_ahead(b1, ok) ELSE b1

-----------------------------------------------------------------------------
(* Receiving: ok tells whether the write(2) the operator makes succeeds.   *)

\* recvfrom(f, dp, ...): a packet lands in the current buffer.
recv(b, p) == [b EXCEPT !.hdr[b.current] = p.seq,
                        !.seg[b.current] = p.seg]

\* Write out the buffer that waits to be flushed, if there is one.
write_behind(b, ok) ==
    LET count == b.counter[b.nextone]
    IN  IF count < -1
        THEN b
        ELSE [b EXCEPT !.counter[b.nextone] = BF_FREE,
                       !.nextone            = 1 - @,
                       !.out  = IF count > 0 /\ ok
                                THEN Append(@, b.seg[b.nextone]) ELSE @,
                       !.lost = @ \/ (count > 0 /\ ~ok)]

\* Queue the current buffer for writing and move to the other one, flushing
\* that first if it is still in use.
writeit(b, count, ok) ==
    LET b1 == [b EXCEPT !.counter[b.current] = count,
                        !.current            = 1 - @]
        b2 == IF b1.counter[b1.current] # BF_FREE
              THEN write_behind(b1, ok) ELSE b1
    IN  [b2 EXCEPT !.counter[b2.current] = BF_ALLOC]

\* The file after n of its blocks were written: an empty block adds nothing.
FilePrefix(n) == [k \in 1 .. (IF n = N /\ LastSize = 0 THEN N - 1 ELSE n) |-> k]

WholeFile == FilePrefix(N)

-----------------------------------------------------------------------------
(* The states the buffers are in at every sendto and recvfrom of a loop.    *)

\* A receiver that waits for a packet: everything accepted is flushed.
ReceiverBuf(b) == /\ b \in Buffers
                  /\ b.nextone = b.current
                  /\ b.counter[b.current] = BF_ALLOC
                  /\ b.counter[1 - b.current] = BF_FREE

\* The other buffer holds segment k, or the failure to read it.
ReadAhead(b, i, k) == \/ b.counter[i] = -1
                      \/ b.counter[i] = Size(k) /\ b.seg[i] = k /\ b.pos = k

\* A sender that has just moved on to segment k.
ReadBuf(b, k) == /\ b \in Buffers
                 /\ b.nextone = 1 - b.current
                 /\ b.counter[1 - b.current] = BF_FREE
                 /\ ReadAhead(b, b.current, k)

\* A sender that waits for the ACK of block k, with k + 1 read ahead.
SenderBuf(b, k) == /\ b \in Buffers
                   /\ b.nextone = b.current
                   /\ b.hdr[b.current] = k
                   /\ b.seg[b.current] = k
                   /\ b.counter[b.current] # BF_FREE
                   /\ ReadAhead(b, 1 - b.current, k + 1)

=============================================================================
