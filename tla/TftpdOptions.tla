---------------------------- MODULE TftpdOptions ----------------------------
(***************************************************************************)
(* The option negotiation of tftpd_options.cpp (RFC 2347), as operators on *)
(* the globals it keeps:                                                   *)
(*   blksize_set, g_segsize, g_timeout (ms), g_tsize                       *)
(* An option of a request is a record [opt, val]: val is what strtoumax    *)
(* makes of its text ("-1" is the largest uintmax_t), or NaN when it does  *)
(* not read a number to the end of the string or it is out of range.  An   *)
(* OACK is the sequence of the options acknowledged.                       *)
(***************************************************************************)
EXTENDS Integers, Sequences, FiniteSetsExt

CONSTANT OffMax      \* off_t begins at -OffMax, uintmax_t ends before 2 * OffMax (2^63)

min_blksize_rfc == 8
default_blksize == 512
max_blksize     == 65464
max_timeout     == 255
MS_1K           == 1000

ASSUME OffMaxAssumption == OffMax \in Nat /\ OffMax > max_timeout * MS_1K * MS_1K

\* The values of uintmax_t and of off_t, and the conversions between them.
Unsigned     == 0 .. 2 * OffMax - 1
Signed       == -OffMax .. OffMax - 1
off_t(v)     == IF v < OffMax THEN v ELSE v - 2 * OffMax
uintmax_t(x) == IF x < 0 THEN x + 2 * OffMax ELSE x

NaN == -1

OptName == {"blksize", "blksize2", "tsize", "timeout", "utimeout"}
Unknown == "unknown"                 \* any other option

\* An option of a request (Unsigned or NaN), and an option acknowledged.
Option == [opt : OptName \cup {Unknown}, val : NaN .. 2 * OffMax - 1]
Acked  == [opt : OptName, val : Unsigned]

Globals == [blksize_set : BOOLEAN,
            g_segsize   : min_blksize_rfc .. max_blksize,
            g_timeout   : 1 .. max_timeout * MS_1K,
            g_tsize     : Signed]

\* The globals when the program starts.
GlobalsInit == [blksize_set |-> FALSE, g_segsize |-> default_blksize,
                g_timeout |-> MS_1K, g_tsize |-> 0]

\* Mutant of init_opt: a block size set by an earlier request is not forgotten.
init_opt_keeps(g) == [GlobalsInit EXCEPT !.blksize_set = g.blksize_set,
                                         !.g_segsize   = g.g_segsize]

\* Called at the start of every request.
init_opt(g) == GlobalsInit

-----------------------------------------------------------------------------
(* The setters: the globals and the value they leave, or that they refuse. *)

Refuses(g)     == [ok |-> FALSE, g |-> g, v |-> NaN]
Accepts(g, v)  == [ok |-> TRUE,  g |-> g, v |-> v]

\* Mutant of AtMost: the limit is not applied.
Uncapped(v, max) == v

AtMost(v, max) == IF v > max THEN max ELSE v

SetSize(g, sz) == Accepts([g EXCEPT !.g_segsize = sz, !.blksize_set = TRUE], sz)

set_blksize(g, v) ==
    IF g.blksize_set \/ v < min_blksize_rfc
    THEN Refuses(g) ELSE SetSize(g, AtMost(v, max_blksize))

\* Mutant of HighBit: the loop runs once more.
RoundedUp(sz) == LET sz1[s \in 0 .. sz] == IF s = 0 THEN 1 ELSE 2 * sz1[s \div 2]
                 IN  sz1[sz]

\* while ((sz >>= 1) != 0) sz1 <<= 1: the highest bit of sz.
HighBit(sz) == LET sz1[s \in 1 .. sz] == IF s \div 2 = 0 THEN 1 ELSE 2 * sz1[s \div 2]
               IN  sz1[sz]

\* A power of two is its own highest bit, so the test for one is left out.
set_blksize2(g, v) ==
    IF g.blksize_set \/ v < min_blksize_rfc
    THEN Refuses(g)
    ELSE SetSize(g, IF v > max_blksize THEN max_blksize ELSE HighBit(v))

set_tsize(g, v) ==
    IF v = 0 THEN Accepts(g, uintmax_t(g.g_tsize))
    ELSE Accepts([g EXCEPT !.g_tsize = off_t(v)], v)

set_timeout(g, v) ==
    IF v < 1 \/ v > max_timeout
    THEN Refuses(g) ELSE Accepts([g EXCEPT !.g_timeout = v * MS_1K], v)

set_utimeout(g, v) ==
    IF v < MS_1K \/ v > max_timeout * MS_1K * MS_1K
    THEN Refuses(g) ELSE Accepts([g EXCEPT !.g_timeout = v \div MS_1K], v)

\* The table of options.
o_fnc(opt, g, v) ==
    CASE opt = "blksize"  -> set_blksize(g, v)
      [] opt = "blksize2" -> set_blksize2(g, v)
      [] opt = "tsize"    -> set_tsize(g, v)
      [] opt = "timeout"  -> set_timeout(g, v)
      [] opt = "utimeout" -> set_utimeout(g, v)
      [] OTHER            -> Refuses(g)

\* One option of a request: a is the globals and the OACK so far.
do_opt(a, o) ==
    LET r == o_fnc(o.opt, a.g, o.val)
    IN  IF o.val = NaN \/ ~r.ok
        THEN a
        ELSE [g |-> r.g, ack |-> Append(a.ack, [opt |-> o.opt, val |-> r.v])]

\* The globals and the OACK after each of the first n options of a request.
do_opts(start, opts, n) ==
    LET after[i \in 0 .. n] == IF i = 0 THEN start ELSE do_opt(after[i - 1], opts[i])
    IN  after

-----------------------------------------------------------------------------
(* What a client reads from an OACK.                                       *)

BlkNames == {"blksize", "blksize2"}

\* The last of the options in names that ack acknowledges, or the default.
LastAcked(ack, names, default) ==
    LET is == {i \in DOMAIN ack : ack[i].opt \in names}
    IN  IF is = {} THEN default ELSE ack[Max(is)]

\* The block size of the transfer.
AckedBlksize(ack) ==
    LastAcked(ack, BlkNames, [opt |-> "blksize", val |-> default_blksize]).val

\* The timeout in milliseconds.
Millis(o) == IF o.opt = "timeout" THEN o.val * MS_1K ELSE o.val \div MS_1K

AckedTimeout(ack) ==
    Millis(LastAcked(ack, {"timeout", "utimeout"}, [opt |-> "timeout", val |-> 1]))

\* The size of the file.
AckedTsize(ack) == LastAcked(ack, {"tsize"}, [opt |-> "tsize", val |-> 0]).val

=============================================================================
