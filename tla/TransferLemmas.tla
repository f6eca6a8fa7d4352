--------------------------- MODULE TransferLemmas ---------------------------
(***************************************************************************)
(* Facts about the packet buffers of Tftpsubs and the block numbers of     *)
(* Wire, for the proofs about Download and Upload.                         *)
(***************************************************************************)
EXTENDS Tftpsubs, Wire, TLAPS

\* Two block numbers less than a cycle apart that look alike on the wire are
\* the same: what makes the 16-bit test th_block == block sound.
LEMMA SameBlock ==
    ASSUME NEW a \in Nat, NEW b \in Nat, Fresh(a, b), Wire(a) = Wire(b)
    PROVE  a = b
<1> DEFINE M == BlockMod
<1>0. M \in Nat /\ M > 0
  BY BlockModAssumption
<1>1. PICK q1 \in Nat, q2 \in Nat, r \in 0 .. M - 1 : a = M * q1 + r /\ b = M * q2 + r
  <2>1. a % M \in 0 .. M - 1 /\ a \div M \in Nat /\ a = M * (a \div M) + (a % M)
    BY <1>0, SMT
  <2>2. b % M \in 0 .. M - 1 /\ b \div M \in Nat /\ b = M * (b \div M) + (b % M)
    BY <1>0, SMT
  <2> QED
    BY <2>1, <2>2 DEF Wire
<1>2. \A x, y \in Nat : x < y => M * x + M <= M * y
  <2> SUFFICES ASSUME NEW x \in Nat, NEW y \in Nat, x < y
               PROVE  M * x + M <= M * y
    OBVIOUS
  <2>1. y - x - 1 \in Nat /\ y = x + 1 + (y - x - 1)
    OBVIOUS
  <2>2. \A d \in Nat : M * (x + 1 + d) = M * x + M + M * d /\ M * d >= 0
    BY <1>0, SMT
  <2> QED
    BY <1>0, <2>1, <2>2
<1>3. M * q1 \in Nat /\ M * q2 \in Nat
  BY <1>0, SMT
<1>4. ~(q1 < q2)
  BY <1>0, <1>1, <1>2, <1>3 DEF Fresh
<1>5. ~(q2 < q1)
  BY <1>0, <1>1, <1>2, <1>3 DEF Fresh
<1> QED
  BY <1>1, <1>4, <1>5

-----------------------------------------------------------------------------
\* Updating fields of a buffer pair within their types.
LEMMA CounterCurrent ==
    ASSUME NEW b \in Buffers, NEW cn \in [0 .. 1 -> -3 .. SEGSIZE], NEW i \in 0 .. 1
    PROVE  [b EXCEPT !.counter = cn, !.current = i] \in Buffers
BY DEF Buffers

\* The fields read_ahead changes, within their types.
LEMMA ReadUpdate ==
    ASSUME NEW b \in Buffers, NEW cn \in [0 .. 1 -> -3 .. SEGSIZE],
           NEW sg \in [0 .. 1 -> Nat], NEW i \in 0 .. 1, NEW k \in Nat
    PROVE  [b EXCEPT !.counter = cn, !.seg = sg, !.nextone = i, !.pos = k] \in Buffers
BY DEF Buffers

\* The fields write_behind changes, within their types.
LEMMA WriteUpdate ==
    ASSUME NEW b \in Buffers, NEW cn \in [0 .. 1 -> -3 .. SEGSIZE],
           NEW i \in 0 .. 1, NEW o \in Seq(Nat), NEW l \in BOOLEAN
    PROVE  [b EXCEPT !.counter = cn, !.nextone = i, !.out = o, !.lost = l] \in Buffers
BY DEF Buffers

\* read(2) never returns more than it was asked for.
LEMMA SizeType == \A k \in Nat : Size(k) \in 0 .. SEGSIZE
BY SizesAssumption DEF Size

\* A full segment is never the last of the file, and a short one always is.
LEMMA FullIsNotLast ==
    ASSUME NEW k \in 1 .. N
    PROVE  Size(k) = SEGSIZE <=> k < N
BY SizesAssumption DEF Size

\* w_init leaves a receiver that waits; r_init a well-typed sender.
LEMMA InitBuffers ==
    /\ ReceiverBuf(w_init)
    /\ w_init.out = << >> /\ w_init.lost = FALSE
    /\ r_init \in Buffers
BY SizesAssumption DEF ReceiverBuf, Buffers, w_init, r_init, rw_init, BF_ALLOC, BF_FREE

\* The first read of tftpd's sendfile.
LEMMA FirstRead ==
    ASSUME NEW ok \in BOOLEAN
    PROVE  ReadBuf(readit(r_init, ok), 1)
BY SizesAssumption, SizeType
   DEF ReadBuf, ReadAhead, Buffers, readit, read_ahead, r_init, rw_init, BF_ALLOC, BF_FREE

\* Retransmitting leaves the buffers alone.
LEMMA ResendKeepsBuffers ==
    ASSUME NEW b, NEW k \in Nat, SenderBuf(b, k), NEW ok \in BOOLEAN
    PROVE  read_ahead(b, ok) = b
BY DEF SenderBuf, read_ahead

\* An acknowledged block makes room for the one read ahead.
LEMMA NextRead ==
    ASSUME NEW b, NEW k \in Nat, SenderBuf(b, k), NEW ok \in BOOLEAN
    PROVE  ReadBuf(readit(b, ok), k + 1)
<1> DEFINE c == b.current
           cn == [b.counter EXCEPT ![b.current] = BF_FREE]
           d == [b EXCEPT !.counter[b.current] = BF_FREE, !.current = 1 - @]
<1>1. /\ b \in Buffers /\ c \in 0 .. 1 /\ 1 - c \in 0 .. 1 /\ c # 1 - c
      /\ b.nextone = c /\ ReadAhead(b, 1 - c, k + 1)
  BY DEF SenderBuf, Buffers
<1>2. b.counter[1 - c] # BF_FREE
  BY <1>1, SizesAssumption, SizeType DEF ReadAhead, BF_FREE
<1>3. /\ d \in Buffers /\ d.current = 1 - c /\ d.nextone = c
      /\ d.counter[c] = BF_FREE /\ d.counter[1 - c] = b.counter[1 - c]
      /\ d.seg = b.seg /\ d.pos = b.pos
  <2>1. cn \in [0 .. 1 -> -3 .. SEGSIZE] /\ cn[c] = BF_FREE /\ cn[1 - c] = b.counter[1 - c]
    BY <1>1, SizesAssumption DEF Buffers, BF_FREE
  <2>2. d = [b EXCEPT !.counter = cn, !.current = 1 - c]
    OBVIOUS
  <2> HIDE DEF cn, d
  <2>3. /\ d.current = 1 - c /\ d.nextone = c /\ d.counter = cn
        /\ d.seg = b.seg /\ d.pos = b.pos
    BY <1>1, <2>2 DEF Buffers
  <2>4. d \in Buffers
    BY <1>1, <2>1, <2>2, CounterCurrent
  <2> QED
    BY <2>1, <2>3, <2>4
<1>4. readit(b, ok) = d
  BY <1>2, <1>3 DEF readit
<1>5. ReadBuf(d, k + 1)
  BY <1>1, <1>3 DEF ReadBuf, ReadAhead
<1> QED
  BY <1>4, <1>5

\* Sending block k leaves it in the current buffer and reads k + 1 ahead.
LEMMA SendBlock ==
    ASSUME NEW b, NEW k \in Nat, ReadBuf(b, k), b.counter[b.current] >= 0,
           NEW ok \in BOOLEAN
    PROVE  LET h == [b EXCEPT !.hdr[b.current] = k]
           IN  /\ SenderBuf(read_ahead(h, ok), k)
               /\ h.hdr[h.current] = k /\ h.seg[h.current] = k
               /\ b.counter[b.current] = Size(k)
               /\ h \in Buffers
<1> DEFINE c == b.current
           h == [b EXCEPT !.hdr[b.current] = k]
           n == 1 - c
           g == [h EXCEPT !.counter[h.nextone] = IF ok THEN Size(h.pos + 1) ELSE -1,
                          !.seg[h.nextone]     = IF ok THEN h.pos + 1 ELSE @,
                          !.nextone            = 1 - @,
                          !.pos                = IF ok THEN @ + 1 ELSE @]
           cn == [h.counter EXCEPT ![n] = IF ok THEN Size(k + 1) ELSE -1]
           sg == [h.seg EXCEPT ![n] = IF ok THEN k + 1 ELSE @]
           ps == IF ok THEN k + 1 ELSE k
<1>1. /\ b \in Buffers /\ c \in 0 .. 1 /\ n \in 0 .. 1 /\ c # n /\ 1 - n = c
      /\ b.nextone = n /\ b.counter[n] = BF_FREE
      /\ b.counter[c] = Size(k) /\ b.seg[c] = k /\ b.pos = k
  BY DEF ReadBuf, ReadAhead, Buffers
<1>2. /\ h \in Buffers /\ h.current = c /\ h.nextone = n /\ h.counter = b.counter
      /\ h.seg = b.seg /\ h.pos = k /\ h.hdr[c] = k
  BY <1>1 DEF Buffers
<1>3. read_ahead(h, ok) = g
  BY <1>1, <1>2 DEF read_ahead
<1>4. Size(k + 1) \in -3 .. SEGSIZE /\ -1 \in -3 .. SEGSIZE
  BY SizesAssumption, SizeType
<1>5. /\ g \in Buffers /\ g.current = c /\ g.nextone = c /\ g.hdr = h.hdr
      /\ g.counter[c] = b.counter[c] /\ g.seg[c] = b.seg[c]
      /\ g.counter[n] = IF ok THEN Size(k + 1) ELSE -1
      /\ ok => g.seg[n] = k + 1 /\ g.pos = k + 1
  <2> HIDE DEF h
  <2>1. /\ cn \in [0 .. 1 -> -3 .. SEGSIZE] /\ cn[c] = b.counter[c]
        /\ cn[n] = IF ok THEN Size(k + 1) ELSE -1
    BY <1>1, <1>2, <1>4 DEF Buffers
  <2>2. /\ sg \in [0 .. 1 -> Nat] /\ sg[c] = b.seg[c]
        /\ ok => sg[n] = k + 1
    BY <1>1, <1>2 DEF Buffers
  <2>3. ps \in Nat
    OBVIOUS
  <2>4. g = [h EXCEPT !.counter = cn, !.seg = sg, !.nextone = c, !.pos = ps]
    BY <1>1, <1>2
  <2> HIDE DEF cn, sg, ps, g
  <2>5. /\ g.current = c /\ g.nextone = c /\ g.hdr = h.hdr
        /\ g.counter = cn /\ g.seg = sg /\ g.pos = ps
    BY <1>2, <2>4 DEF Buffers
  <2>6. g \in Buffers
    BY <1>1, <1>2, <2>1, <2>2, <2>3, <2>4, ReadUpdate
  <2> QED
    BY <1>2, <2>1, <2>2, <2>5, <2>6 DEF ps
<1>6. g.counter[c] # BF_FREE
  BY <1>1, <1>5, SizeType DEF BF_FREE
<1>7. SenderBuf(g, k)
  BY <1>1, <1>2, <1>5, <1>6 DEF SenderBuf, ReadAhead
<1> QED
  BY <1>1, <1>2, <1>3, <1>7

\* A waiting receiver has nothing to flush.
LEMMA NothingToFlush ==
    ASSUME NEW b, ReceiverBuf(b), NEW ok \in BOOLEAN
    PROVE  write_behind(b, ok) = b
BY DEF ReceiverBuf, write_behind, BF_ALLOC

\* A packet that is not accepted only scribbles on the free buffer.
LEMMA RecvKeeps ==
    ASSUME NEW b, ReceiverBuf(b), NEW p \in Packet
    PROVE  /\ ReceiverBuf(recv(b, p))
           /\ recv(b, p).out = b.out /\ recv(b, p).lost = b.lost
BY DEF ReceiverBuf, recv, Buffers, Packet

\* Accepting a packet of n bytes: writeit queues it, write_behind stores it.
LEMMA AcceptFlush ==
    ASSUME NEW b, ReceiverBuf(b), NEW p \in Packet, NEW n \in 0 .. SEGSIZE,
           NEW ok1 \in BOOLEAN, NEW ok2 \in BOOLEAN
    PROVE  LET f == writeit(recv(b, p), n, ok1)
               w == write_behind(f, ok2)
           IN  /\ f \in Buffers /\ f.out = b.out /\ f.lost = b.lost
               /\ ReceiverBuf(w)
               /\ w.out = IF n > 0 /\ ok2 THEN Append(b.out, p.seg) ELSE b.out
               /\ w.lost = (b.lost \/ (n > 0 /\ ~ok2))
<1> DEFINE c == b.current
           m == 1 - c
           r == recv(b, p)
           e == [r EXCEPT !.counter[r.current] = n, !.current = 1 - @]
           f == [e EXCEPT !.counter[e.current] = BF_ALLOC]
           w == write_behind(f, ok2)
           cn1 == [r.counter EXCEPT ![c] = n]
           cn2 == [cn1 EXCEPT ![m] = BF_ALLOC]
           cn3 == [cn2 EXCEPT ![c] = BF_FREE]
           o == IF n > 0 /\ ok2 THEN Append(b.out, p.seg) ELSE b.out
           l == b.lost \/ (n > 0 /\ ~ok2)
<1>1. /\ ReceiverBuf(r) /\ r.current = c /\ r.seg[c] = p.seg
      /\ r.out = b.out /\ r.lost = b.lost /\ p.seg \in Nat
  BY RecvKeeps DEF ReceiverBuf, recv, Buffers, Packet
<1>2. /\ c \in 0 .. 1 /\ m \in 0 .. 1 /\ c # m /\ 1 - m = c
      /\ r \in Buffers /\ r.nextone = c /\ r.counter[m] = BF_FREE
  <2>1. b.current \in 0 .. 1
    BY DEF ReceiverBuf, Buffers
  <2> HIDE DEF r
  <2> QED
    BY <1>1, <2>1 DEF ReceiverBuf
<1> HIDE DEF r
<1>3. /\ cn1 \in [0 .. 1 -> -3 .. SEGSIZE] /\ cn1[c] = n /\ cn1[m] = BF_FREE
      /\ cn2 \in [0 .. 1 -> -3 .. SEGSIZE] /\ cn2[c] = n /\ cn2[m] = BF_ALLOC
      /\ cn3 \in [0 .. 1 -> -3 .. SEGSIZE] /\ cn3[c] = BF_FREE /\ cn3[m] = BF_ALLOC
  <2>1. /\ r.counter \in [0 .. 1 -> -3 .. SEGSIZE] /\ n \in -3 .. SEGSIZE
        /\ BF_ALLOC \in -3 .. SEGSIZE /\ BF_FREE \in -3 .. SEGSIZE
    BY <1>2, SizesAssumption DEF Buffers, BF_ALLOC, BF_FREE
  <2>2. cn1 \in [0 .. 1 -> -3 .. SEGSIZE] /\ cn1[c] = n /\ cn1[m] = BF_FREE
    BY <1>2, <2>1
  <2> HIDE DEF cn1
  <2>3. cn2 \in [0 .. 1 -> -3 .. SEGSIZE] /\ cn2[c] = n /\ cn2[m] = BF_ALLOC
    BY <1>2, <2>1, <2>2
  <2> HIDE DEF cn2
  <2>4. cn3 \in [0 .. 1 -> -3 .. SEGSIZE] /\ cn3[c] = BF_FREE /\ cn3[m] = BF_ALLOC
    BY <1>2, <2>1, <2>3
  <2> QED
    BY <2>2, <2>3, <2>4
<1>4. /\ e = [r EXCEPT !.counter = cn1, !.current = m]
      /\ e \in Buffers
  BY <1>1, <1>2, <1>3, CounterCurrent
<1>5. /\ e.counter = cn1 /\ e.current = m /\ e.nextone = c
      /\ e.seg = r.seg /\ e.out = b.out /\ e.lost = b.lost
  BY <1>1, <1>2, <1>4 DEF Buffers
<1>6. writeit(r, n, ok1) = f
  BY <1>3, <1>5 DEF writeit
<1> HIDE DEF e
<1>7. f = [e EXCEPT !.counter = cn2, !.current = m]
  BY <1>4, <1>5 DEF Buffers
<1> HIDE DEF f, cn1
<1>8. /\ f \in Buffers /\ f.counter = cn2 /\ f.current = m /\ f.nextone = c
      /\ f.seg = r.seg /\ f.out = b.out /\ f.lost = b.lost
  <2>1. f \in Buffers
    BY <1>2, <1>3, <1>4, <1>7, CounterCurrent
  <2> QED
    BY <1>2, <1>4, <1>5, <1>7, <2>1 DEF Buffers
<1>9. w = [f EXCEPT !.counter = cn3, !.nextone = m, !.out = o, !.lost = l]
  <2>1. f.counter[f.nextone] = n /\ ~(n < -1) /\ f.seg[f.nextone] = p.seg
    BY <1>1, <1>3, <1>8
  <2>2. w = [f EXCEPT !.counter[c] = BF_FREE, !.nextone = 1 - @,
                      !.out = IF n > 0 /\ ok2 THEN Append(@, p.seg) ELSE @,
                      !.lost = @ \/ (n > 0 /\ ~ok2)]
    BY <1>8, <2>1 DEF write_behind
  <2> QED
    BY <1>8, <2>2
<1>10. o \in Seq(Nat) /\ l \in BOOLEAN
  BY <1>1, <1>2 DEF Buffers
<1> HIDE DEF o, l, w, cn2, cn3
<1>11. w \in Buffers
  BY <1>2, <1>3, <1>8, <1>9, <1>10, WriteUpdate
<1>12. /\ w.counter = cn3 /\ w.current = m /\ w.nextone = m /\ w.out = o /\ w.lost = l
  BY <1>8, <1>9 DEF Buffers
<1>13. ReceiverBuf(w)
  BY <1>2, <1>3, <1>11, <1>12 DEF ReceiverBuf
<1> QED
  BY <1>6, <1>8, <1>12, <1>13 DEF r, e, f, w, o, l

\* Storing block k after the k - 1 before it.
LEMMA PrefixGrows ==
    ASSUME NEW k \in 1 .. N
    PROVE  FilePrefix(k) = IF Size(k) > 0 THEN Append(FilePrefix(k - 1), k)
                                          ELSE FilePrefix(k - 1)
<1>1. FilePrefix(k - 1) = [i \in 1 .. k - 1 |-> i]
  BY SizesAssumption DEF FilePrefix
<1>2. CASE Size(k) > 0
  <2>1. FilePrefix(k) = [i \in 1 .. k |-> i]
    BY <1>2, SizesAssumption DEF FilePrefix, Size
  <2>2. Append([i \in 1 .. k - 1 |-> i], k) = [i \in 1 .. k |-> i]
    <3> DEFINE s == [i \in 1 .. k - 1 |-> i]
    <3>1. s \in Seq(Nat) /\ Len(s) = k - 1
      BY SizesAssumption
    <3> QED
      BY <3>1, SizesAssumption
  <2> QED
    BY <1>1, <1>2, <2>1, <2>2
<1>3. CASE ~(Size(k) > 0)
  BY <1>1, <1>3, SizesAssumption DEF FilePrefix, Size
<1> QED
  BY <1>2, <1>3

\* No blocks make an empty file.
LEMMA PrefixOfNothing == FilePrefix(0) = << >>
BY SizesAssumption DEF FilePrefix

=============================================================================
