----------------------------- MODULE DataProofs -----------------------------
(***************************************************************************)
(* Proofs about the two components that are loops over the data of a       *)
(* packet: AsyncRequest, for any set of options and any number of them in  *)
(* a request, and Netascii, for texts and blocks of any length.  What their*)
(* loops compute is proved by induction on the number of their steps.      *)
(***************************************************************************)
EXTENDS AsyncRequest, Netascii, WellFoundedInduction, TLAPS

-----------------------------------------------------------------------------
(* Induction over a set of natural numbers.                                *)

\* The order of the natural numbers as a set of pairs.
Lt == {ss \in Nat \X Nat : ss[1] < ss[2]}

\* It is well founded.
LEMMA LtWellFounded == IsWellFoundedOn(Lt, Nat)
BY NatLessThanWellFounded DEF OpToRel, Lt

\* A set of natural numbers has a least element.
LEMMA Least ==
    ASSUME NEW T, T \subseteq Nat, T # {}
    PROVE  \E x \in T : \A y \in T : x <= y
<1>1. PICK x \in T : \A y \in T : ~(<<y, x>> \in Lt)
  BY LtWellFounded, WFMin, Zenon
<1>2. ASSUME NEW y \in T PROVE x <= y
  <2>1. ~(<<y, x>> \in Lt) /\ x \in Nat /\ y \in Nat
    BY <1>1
  <2>2. ~(y < x)
    BY <2>1 DEF Lt
  <2> QED
    BY <2>1, <2>2
<1> QED
  BY <1>2

\* Induction, for a property given as the set of the numbers that have it.
LEMMA SetInduction ==
    ASSUME NEW T, 0 \in T, \A n \in Nat : n \in T => n + 1 \in T
    PROVE  \A n \in Nat : n \in T
<1>1. SUFFICES ASSUME NEW n \in Nat, n \notin T PROVE FALSE
  OBVIOUS
<1>2. PICK m \in Nat \ T : \A y \in Nat \ T : m <= y
  <2>1. Nat \ T # {} /\ Nat \ T \subseteq Nat
    BY <1>1
  <2> QED
    BY <2>1, Least
<1>3. m # 0 /\ m - 1 \in Nat
  BY <1>2
<1>4. m - 1 \in T
  BY <1>2, <1>3
<1> QED
  BY <1>2, <1>3, <1>4

-----------------------------------------------------------------------------
(* The loop over the options.                                              *)

\* f holds the results of the first n options.
Loop(f, start, opts, n) ==
    f = [i \in 0 .. n |-> IF i = 0 THEN start ELSE do_opt(f[i - 1], opts[i])]

\* The loop has a result after any number of options ...
LEMMA LoopRuns ==
    ASSUME NEW start, NEW opts
    PROVE  \A n \in Nat : \E f : Loop(f, start, opts, n)
<1> DEFINE T == {n \in Nat : \E f : Loop(f, start, opts, n)}
<1>1. 0 \in T
  <2>1. Loop([i \in 0 .. 0 |-> start], start, opts, 0)
    BY DEF Loop
  <2> QED
    BY <2>1
<1>2. ASSUME NEW n \in Nat, n \in T PROVE n + 1 \in T
  <2>1. PICK f : Loop(f, start, opts, n)
    BY <1>2
  <2> DEFINE h == [i \in 0 .. n + 1 |-> IF i <= n THEN f[i] ELSE do_opt(f[n], opts[n + 1])]
  <2>2. ASSUME NEW i \in 0 .. n + 1
        PROVE  h[i] = IF i = 0 THEN start ELSE do_opt(h[i - 1], opts[i])
    <3>1. CASE i = 0
      BY <2>1, <3>1 DEF Loop
    <3>2. CASE i > 0 /\ i <= n
      BY <2>1, <3>2 DEF Loop
    <3>3. CASE i = n + 1
      BY <3>3
    <3> QED
      BY <3>1, <3>2, <3>3
  <2>3. Loop(h, start, opts, n + 1)
    BY <2>2 DEF Loop
  <2> QED
    BY <2>3
<1> HIDE DEF T
<1>3. \A n \in Nat : n \in T
  BY <1>1, <1>2, SetInduction
<1> QED
  BY <1>3 DEF T

\* ... and do_opts is that result.
LEMMA do_optsSteps ==
    ASSUME NEW start, NEW opts, NEW n \in Nat
    PROVE  /\ do_opts(start, opts, n)[0] = start
           /\ \A i \in 1 .. n : do_opts(start, opts, n)[i]
                                    = do_opt(do_opts(start, opts, n)[i - 1], opts[i])
<1> DEFINE f == do_opts(start, opts, n)
<1>1. f = CHOOSE h : Loop(h, start, opts, n)
  BY DEF do_opts, Loop
<1>2. Loop(f, start, opts, n)
  BY <1>1, LoopRuns, Zenon
<1> HIDE DEF f
<1>3. f[0] = start /\ \A i \in 1 .. n : f[i] = do_opt(f[i - 1], opts[i])
  BY <1>2 DEF Loop
<1> QED
  BY <1>3 DEF f

-----------------------------------------------------------------------------
(* The loop of set_blksize2.                                               *)

\* f holds the results of the loop for the sizes up to n.
Halving(f, n) == f = [s \in 1 .. n |-> IF s \div 2 = 0 THEN 1 ELSE 2 * f[s \div 2]]

\* The powers of two of 16 bits.
Powers == {1, 2, 4} \cup PowersOfTwo

\* What the loop is to compute for s.
IsHighBit(b, s) == b \in Nat /\ b <= s /\ s < 2 * b /\ (s < 65536 => b \in Powers)

\* Doubling the highest bit of half of s gives the highest bit of s.
LEMMA HighBitDoubles ==
    ASSUME NEW s \in Nat, s >= 2, NEW b, IsHighBit(b, s \div 2)
    PROVE  IsHighBit(2 * b, s)
<1> DEFINE h == s \div 2
<1>1. h \in Nat /\ 2 * h <= s /\ s <= 2 * h + 1 /\ (s < 65536 => h < 32768)
  OBVIOUS
<1>2. b \in Nat /\ b <= h /\ h < 2 * b /\ (h < 65536 => b \in Powers)
  BY DEF IsHighBit
<1> HIDE DEF h
<1>3. 2 * b \in Nat /\ 2 * b <= s /\ s < 2 * (2 * b)
  BY <1>1, <1>2
<1>4. ASSUME s < 65536 PROVE 2 * b \in Powers
  <2>1. b \in Powers /\ b < 32768
    BY <1>1, <1>2, <1>4
  <2> QED
    BY <2>1 DEF Powers, PowersOfTwo
<1> QED
  BY <1>3, <1>4 DEF IsHighBit

\* The loop has a result for every size.
LEMMA HalvingRuns == \A n \in Nat : \E f : Halving(f, n)
<1> DEFINE T == {n \in Nat : \E f : Halving(f, n)}
<1>1. 0 \in T
  <2>1. Halving([s \in 1 .. 0 |-> 1], 0)
    BY DEF Halving
  <2> QED
    BY <2>1
<1>2. ASSUME NEW n \in Nat, n \in T PROVE n + 1 \in T
  <2>1. PICK f : Halving(f, n)
    BY <1>2
  <2> DEFINE m == n + 1
             top == IF m \div 2 = 0 THEN 1 ELSE 2 * f[m \div 2]
             h == [s \in 1 .. m |-> IF s <= n THEN f[s] ELSE top]
  <2>2. ASSUME NEW s \in 1 .. m
        PROVE  h[s] = IF s \div 2 = 0 THEN 1 ELSE 2 * h[s \div 2]
    <3>1. s \div 2 = 0 \/ (s \div 2 \in 1 .. n /\ s \div 2 < s)
      OBVIOUS
    <3>2. h[s] = IF s \div 2 = 0 THEN 1 ELSE 2 * f[s \div 2]
      BY <2>1 DEF Halving
    <3> QED
      BY <3>1, <3>2
  <2>3. Halving(h, n + 1)
    BY <2>2 DEF Halving
  <2> QED
    BY <2>3
<1> HIDE DEF T
<1>3. \A n \in Nat : n \in T
  BY <1>1, <1>2, SetInduction
<1> QED
  BY <1>3 DEF T

\* HighBit is the largest power of two that is not above its argument.
LEMMA HighBitIs ==
    ASSUME NEW n \in Nat, n > 0
    PROVE  IsHighBit(HighBit(n), n)
<1> DEFINE f == CHOOSE h : Halving(h, n)
<1>1. Halving(f, n)
  BY HalvingRuns, Zenon
<1>2. HighBit(n) = f[n]
  BY DEF HighBit, Halving
<1> HIDE DEF f
<1>3. ASSUME NEW s \in 1 .. n, s \div 2 = 0 \/ IsHighBit(f[s \div 2], s \div 2)
      PROVE  IsHighBit(f[s], s)
  <2>1. f[s] = IF s \div 2 = 0 THEN 1 ELSE 2 * f[s \div 2]
    BY <1>1 DEF Halving
  <2>2. CASE s \div 2 = 0
    BY <2>1, <2>2 DEF IsHighBit, Powers
  <2>3. CASE s \div 2 # 0
    BY <1>3, <2>1, <2>3, HighBitDoubles
  <2> QED
    BY <2>2, <2>3
<1>4. \A s \in 1 .. n : IsHighBit(f[s], s)
  <2> DEFINE Bad == {s \in 1 .. n : ~IsHighBit(f[s], s)}
  <2>1. SUFFICES ASSUME Bad # {} PROVE FALSE
    OBVIOUS
  <2>2. PICK s \in Bad : \A y \in Bad : s <= y
    <3>1. Bad \subseteq Nat
      OBVIOUS
    <3> QED
      BY <2>1, <3>1, Least
  <2>3. s \div 2 = 0 \/ (s \div 2 \in 1 .. n /\ s \div 2 < s)
    OBVIOUS
  <2>4. s \div 2 \notin Bad
    BY <2>2, <2>3
  <2> QED
    BY <1>3, <2>2, <2>3, <2>4
<1> QED
  BY <1>2, <1>4

-----------------------------------------------------------------------------
(* What a client reads from an OACK with one option more.                  *)

\* The greatest of some positions in a sequence is one of them.
LEMMA MaxPosition ==
    ASSUME NEW n \in Nat, NEW S, S \subseteq 1 .. n, S # {}
    PROVE  Max(S) \in S /\ \A y \in S : Max(S) >= y
<1> DEFINE D == {n - x : x \in S}
<1>1. D \subseteq Nat /\ D # {}
  <2>1. PICK x \in S : TRUE
    OBVIOUS
  <2>2. n - x \in D
    OBVIOUS
  <2>3. \A y \in S : n - y \in Nat
    OBVIOUS
  <2> QED
    BY <2>2, <2>3
<1>2. PICK d \in D : \A y \in D : d <= y
  BY <1>1, Least
<1>3. PICK x \in S : d = n - x
  BY <1>2
<1>4. ASSUME NEW y \in S PROVE x >= y
  <2>1. n - y \in D
    OBVIOUS
  <2>2. n - x <= n - y
    BY <1>2, <1>3, <2>1
  <2> QED
    BY <2>2
<1>5. \E z \in S : \A y \in S : z >= y
  BY <1>4
<1> QED
  BY <1>5, Zenon DEF Max

\* The option appended is the last of its name, and hides no other.
LEMMA LastAckedAppend ==
    ASSUME NEW ack \in Seq(Acked), NEW o \in Acked, NEW names, NEW d
    PROVE  LastAcked(Append(ack, o), names, d)
               = IF o.opt \in names THEN o ELSE LastAcked(ack, names, d)
<1> DEFINE n  == Len(ack)
           s  == Append(ack, o)
           is == {i \in DOMAIN ack : ack[i].opt \in names}
           js == {i \in DOMAIN s : s[i].opt \in names}
<1>1. /\ n \in Nat /\ DOMAIN ack = 1 .. n /\ DOMAIN s = 1 .. n + 1 /\ s[n + 1] = o
      /\ \A i \in 1 .. n : s[i] = ack[i]
  OBVIOUS
<1>2. /\ LastAcked(s, names, d) = IF js = {} THEN d ELSE s[Max(js)]
      /\ LastAcked(ack, names, d) = IF is = {} THEN d ELSE ack[Max(is)]
  BY DEF LastAcked
<1> HIDE DEF s, n
<1>3. CASE o.opt \in names
  <2>1. n + 1 \in js /\ js \subseteq 1 .. n + 1
    BY <1>1, <1>3
  <2>2. Max(js) \in js /\ Max(js) >= n + 1
    <3> HIDE DEF js
    <3>1. n + 1 \in Nat /\ js # {}
      BY <1>1, <2>1
    <3> QED
      BY <2>1, <3>1, MaxPosition
  <2>3. Max(js) = n + 1
    BY <1>1, <2>1, <2>2
  <2> QED
    BY <1>1, <1>2, <1>3, <2>1, <2>3 DEF s
<1>4. CASE o.opt \notin names
  <2>1. js = is
    BY <1>1, <1>4
  <2>2. is # {} => Max(is) \in 1 .. n
    <3>1. is \subseteq 1 .. n
      BY <1>1
    <3> QED
      BY <1>1, <3>1, MaxPosition
  <2> QED
    BY <1>1, <1>2, <1>4, <2>1, <2>2 DEF s
<1> QED
  BY <1>3, <1>4

-----------------------------------------------------------------------------
(* The options of one request.                                             *)

\* What the globals and the OACK have in common after the first n options:
\* the values in force are the ones acknowledged, and a block size is among
\* them only when blksize_set says so.
Negotiated(a, opts, n) ==
    /\ a.g \in Globals
    /\ a.ack \in Seq(Acked)
    /\ a.g.g_segsize = AckedBlksize(a.ack)
    /\ uintmax_t(a.g.g_tsize) = AckedTsize(a.ack)
    /\ ~a.g.blksize_set => \A i \in DOMAIN a.ack : a.ack[i].opt \notin BlkNames
    /\ BlksizeOK(a.ack, SubSeq(opts, 1, n))

\* A size becomes an off_t and comes back as it was, and the other way round.
LEMMA Conversions ==
    /\ \A v \in Unsigned : off_t(v) \in Signed /\ uintmax_t(off_t(v)) = v
    /\ \A z \in Signed : uintmax_t(z) \in Unsigned /\ off_t(uintmax_t(z)) = z
<1>1. OffMax \in Nat
  BY OffMaxAssumption
<1> QED
  BY <1>1 DEF Unsigned, Signed, off_t, uintmax_t

\* The limits are values of uintmax_t.
LEMMA LimitsFit ==
    /\ OffMax \in Nat /\ OffMax > 255000000
    /\ 0 \in Unsigned /\ 0 \in Signed
    /\ \A v \in Nat : v <= 255000000 => v \in Unsigned
<1>1. OffMax \in Nat /\ OffMax > 255000000
  BY OffMaxAssumption DEF max_timeout, MS_1K
<1> QED
  BY <1>1 DEF Unsigned, Signed

\* The defaults of init_opt are within the limits.
LEMMA DefaultsInRange == GlobalsInit \in Globals
<1>1. 0 \in Signed
  BY LimitsFit
<1> QED
  BY <1>1 DEF GlobalsInit, Globals, min_blksize_rfc, default_blksize, max_blksize,
              max_timeout, MS_1K

\* Nothing is acknowledged before the first option.
LEMMA NegotiatedInit ==
    ASSUME NEW opts, NEW a, a = [g |-> GlobalsInit, ack |-> << >>]
    PROVE  Negotiated(a, opts, 0)
<1>1. a.g = GlobalsInit /\ a.ack = << >> /\ GlobalsInit \in Globals
  BY DefaultsInRange
<1>2. \A names, d : LastAcked(<< >>, names, d) = d
  BY DEF LastAcked
<1>3. AckedBlksize(<< >>) = default_blksize /\ AckedTsize(<< >>) = 0 /\ uintmax_t(0) = 0
  BY <1>2 DEF AckedBlksize, AckedTsize, uintmax_t
<1> QED
  BY <1>1, <1>3 DEF Negotiated, GlobalsInit, BlksizeOK

\* The limits are numbers.  (With their values the provers would list the
\* intervals between them.)
LEMMA Limits ==
    /\ min_blksize_rfc \in Nat /\ max_blksize \in Nat /\ min_blksize_rfc <= max_blksize
    /\ max_blksize <= 255000000
    /\ MS_1K \in Nat /\ max_timeout \in Nat /\ max_timeout * MS_1K \in Nat
BY DEF min_blksize_rfc, max_blksize, MS_1K, max_timeout

\* What acknowledging x for option o changes.
Took(a, o, x, b) ==
    /\ x.opt = o.opt
    /\ b.ack = Append(a.ack, x)
    /\ b.g \in Globals
    /\ \/ /\ o.opt \in BlkNames /\ ~a.g.blksize_set
          /\ b.g = [a.g EXCEPT !.g_segsize = x.val, !.blksize_set = TRUE]
          /\ x.val \in min_blksize_rfc .. max_blksize /\ Grants(o, x.val)
       \/ o.opt = "tsize" /\ b.g = [a.g EXCEPT !.g_tsize = off_t(x.val)]
       \/ o.opt \in {"timeout", "utimeout"} /\ \E t : b.g = [a.g EXCEPT !.g_timeout = t]

\* An option is acknowledged with the value it leaves in the globals, or it is
\* left out and changes nothing (do_opt and the setters).
LEMMA do_optTakes ==
    ASSUME NEW a, a.g \in Globals, a.ack \in Seq(Acked), NEW o \in Option
    PROVE  do_opt(a, o) = a \/ \E x \in Acked : Took(a, o, x, do_opt(a, o))
<1> DEFINE v == o.val
           r == o_fnc(o.opt, a.g, v)
           b == do_opt(a, o)
           x == [opt |-> o.opt, val |-> r.v]
<1> SUFFICES ASSUME v # NaN, r.ok
             PROVE  x \in Acked /\ Took(a, o, x, b)
  BY DEF do_opt
<1>1. b.g = r.g /\ b.ack = Append(a.ack, x)
  BY DEF do_opt
<1>2. /\ v \in Nat /\ v \in Unsigned
      /\ o.opt \in OptName \cup {Unknown} /\ x.opt = o.opt /\ x.val = r.v
  BY LimitsFit DEF Option, Unsigned, NaN
<1>3. r.v \in Unsigned /\ o.opt \in OptName => x \in Acked
  BY DEF Acked
<1> HIDE DEF b, x, r
<1>4. ASSUME NEW w \in min_blksize_rfc .. max_blksize, ~a.g.blksize_set, o.opt \in BlkNames,
             r.v = w, r.g = [a.g EXCEPT !.g_segsize = w, !.blksize_set = TRUE], Grants(o, w)
      PROVE  x \in Acked /\ Took(a, o, x, b)
  <2>1. r.g \in Globals
    BY <1>4 DEF Globals
  <2>2. w \in Unsigned /\ o.opt \in OptName
    <3>1. w \in Nat /\ w <= 255000000
      BY <1>4, Limits
    <3> QED
      BY <1>4, <3>1, LimitsFit DEF BlkNames, OptName
  <2> QED
    BY <1>1, <1>2, <1>3, <1>4, <2>1, <2>2 DEF Took
<1>5. CASE o.opt = "blksize"
  <2> DEFINE w == AtMost(v, max_blksize)
  <2>1. r = set_blksize(a.g, v)
    BY <1>5 DEF o_fnc, r
  <2>2. /\ ~a.g.blksize_set /\ v >= min_blksize_rfc
        /\ r.v = w /\ r.g = [a.g EXCEPT !.g_segsize = w, !.blksize_set = TRUE]
    BY <1>2, <2>1, Limits DEF set_blksize, Refuses, SetSize, Accepts
  <2>3. w \in min_blksize_rfc .. max_blksize /\ w <= v
    BY <1>2, <2>2, Limits DEF AtMost
  <2> HIDE DEF w
  <2>4. Grants(o, w) /\ o.opt \in BlkNames
    BY <1>5, <2>3 DEF Grants, BlkNames
  <2> QED
    BY <1>4, <2>2, <2>3, <2>4
<1>6. CASE o.opt = "blksize2"
  <2> DEFINE w == IF v > max_blksize THEN max_blksize ELSE HighBit(v)
  <2>1. r = set_blksize2(a.g, v)
    BY <1>6 DEF o_fnc, r
  <2>2. /\ ~a.g.blksize_set /\ v >= min_blksize_rfc
        /\ r.v = w /\ r.g = [a.g EXCEPT !.g_segsize = w, !.blksize_set = TRUE]
    BY <1>2, <2>1, Limits DEF set_blksize2, Refuses, SetSize, Accepts
  <2>3. /\ w \in min_blksize_rfc .. max_blksize /\ w <= v
        /\ v <= max_blksize => w \in PowersOfTwo /\ 2 * w > v
    <3>1. CASE v > max_blksize
      BY <1>2, <3>1, Limits
    <3>2. CASE v <= max_blksize
      <4> DEFINE h == HighBit(v)
      <4>1. w = h
        BY <1>2, <3>2, Limits
      <4>2. IsHighBit(h, v)
        BY <1>2, <2>2, HighBitIs DEF min_blksize_rfc
      <4> HIDE DEF h, w
      <4>3. h \in Nat /\ h <= v /\ v < 2 * h /\ h \in Powers
        BY <1>2, <3>2, <4>2 DEF IsHighBit, max_blksize
      <4>4. h \in PowersOfTwo /\ h >= min_blksize_rfc
        BY <1>2, <2>2, <4>3 DEF Powers, PowersOfTwo, min_blksize_rfc
      <4> QED
        BY <1>2, <3>2, <4>1, <4>3, <4>4, Limits
    <3> QED
      BY <1>2, <3>1, <3>2, Limits
  <2> HIDE DEF w
  <2>4. Grants(o, w) /\ o.opt \in BlkNames
    BY <1>6, <2>3 DEF Grants, BlkNames
  <2> QED
    BY <1>4, <2>2, <2>3, <2>4
<1>7. CASE o.opt = "tsize"
  <2>1. r = set_tsize(a.g, v)
    BY <1>7 DEF o_fnc, r
  <2>2. a.g.g_tsize \in Signed
    BY DEF Globals
  <2>3. r.v \in Unsigned /\ r.g = [a.g EXCEPT !.g_tsize = off_t(r.v)]
    <3>1. CASE v = 0
      <4>1. r.g = a.g /\ r.v = uintmax_t(a.g.g_tsize)
        BY <2>1, <3>1 DEF set_tsize, Accepts
      <4>2. off_t(r.v) = a.g.g_tsize /\ r.v \in Unsigned
        BY <2>2, <4>1, Conversions
      <4>3. a.g = [a.g EXCEPT !.g_tsize = a.g.g_tsize]
        BY DEF Globals
      <4> QED
        BY <4>1, <4>2, <4>3
    <3>2. CASE v # 0
      BY <1>2, <2>1, <3>2 DEF set_tsize, Accepts
    <3> QED
      BY <3>1, <3>2
  <2>4. r.g \in Globals
    <3>1. off_t(r.v) \in Signed
      BY <2>3, Conversions
    <3> QED
      BY <2>3, <3>1 DEF Globals
  <2> QED
    BY <1>1, <1>2, <1>3, <1>7, <2>3, <2>4 DEF Took, OptName
<1>8. ASSUME NEW t \in 1 .. max_timeout * MS_1K, o.opt \in {"timeout", "utimeout"},
             r.v = v, r.g = [a.g EXCEPT !.g_timeout = t]
      PROVE  x \in Acked /\ Took(a, o, x, b)
  <2>1. r.g \in Globals
    BY <1>8 DEF Globals
  <2>2. o.opt \in OptName
    BY <1>8 DEF OptName
  <2> QED
    BY <1>1, <1>2, <1>3, <1>8, <2>1, <2>2 DEF Took
<1>9. CASE o.opt = "timeout"
  <2> DEFINE t == v * MS_1K
  <2>1. r = set_timeout(a.g, v)
    BY <1>9 DEF o_fnc, r
  <2>2. r.v = v /\ v >= 1 /\ v <= max_timeout /\ r.g = [a.g EXCEPT !.g_timeout = t]
    BY <1>2, <2>1, Limits DEF set_timeout, Accepts, Refuses
  <2>3. t \in Nat /\ t >= 1 /\ t <= max_timeout * MS_1K
    BY <1>2, <2>2 DEF MS_1K, max_timeout
  <2> HIDE DEF t
  <2>4. t \in 1 .. max_timeout * MS_1K
    BY <2>3, Limits
  <2> QED
    BY <1>8, <1>9, <2>2, <2>4
<1>10. CASE o.opt = "utimeout"
  <2> DEFINE t == v \div MS_1K
  <2>1. r = set_utimeout(a.g, v)
    BY <1>10 DEF o_fnc, r
  <2>2. /\ r.v = v /\ v >= MS_1K /\ v <= max_timeout * MS_1K * MS_1K
        /\ r.g = [a.g EXCEPT !.g_timeout = t]
    <3> DEFINE top == max_timeout * MS_1K * MS_1K
    <3>1. top \in Nat
      BY Limits
    <3>2. r = IF v < MS_1K \/ v > top THEN Refuses(a.g)
              ELSE Accepts([a.g EXCEPT !.g_timeout = t], v)
      BY <2>1 DEF set_utimeout
    <3> HIDE DEF top, t
    <3>3. r.v = v /\ v >= MS_1K /\ v <= top /\ r.g = [a.g EXCEPT !.g_timeout = t]
      BY <1>2, <3>1, <3>2, Limits DEF Accepts, Refuses
    <3> QED
      BY <3>3 DEF top
  <2>3. t \in Nat /\ t >= 1 /\ t <= max_timeout * MS_1K
    BY <1>2, <2>2, SMT DEF MS_1K, max_timeout
  <2> HIDE DEF t
  <2>4. t \in 1 .. max_timeout * MS_1K
    BY <2>3, Limits
  <2> QED
    BY <1>8, <1>10, <2>2, <2>4
<1>11. CASE o.opt = Unknown
  BY <1>11 DEF o_fnc, r, Refuses, Unknown
<1> QED
  BY <1>2, <1>5, <1>6, <1>7, <1>9, <1>10, <1>11 DEF OptName

\* More options asked for take nothing away from what is granted.
LEMMA MoreOptions ==
    ASSUME NEW opts \in Seq(Option), NEW n \in Nat, n + 1 <= Len(opts), NEW ack,
           BlksizeOK(ack, SubSeq(opts, 1, n))
    PROVE  BlksizeOK(ack, SubSeq(opts, 1, n + 1))
<1> DEFINE s == SubSeq(opts, 1, n)
           t == SubSeq(opts, 1, n + 1)
<1>1. DOMAIN s \subseteq DOMAIN t /\ \A k \in DOMAIN s : t[k] = s[k]
  OBVIOUS
<1> HIDE DEF s, t
<1>2. BlksizeOK(ack, s)
  BY DEF s
<1>3. BlksizeOK(ack, t)
  BY <1>1, <1>2 DEF BlksizeOK
<1> QED
  BY <1>3 DEF t

\* One option more: what is in force is what is acknowledged, still.
LEMMA NegotiatedStep ==
    ASSUME NEW opts \in Seq(Option), NEW n \in Nat, n + 1 <= Len(opts),
           NEW a, Negotiated(a, opts, n)
    PROVE  Negotiated(do_opt(a, opts[n + 1]), opts, n + 1)
<1> DEFINE o == opts[n + 1]
           b == do_opt(a, o)
           t == SubSeq(opts, 1, n + 1)
<1>1. o \in Option /\ n + 1 \in DOMAIN t /\ t[n + 1] = o
  OBVIOUS
<1>2. /\ a.g \in Globals /\ a.ack \in Seq(Acked)
      /\ a.g.g_segsize = AckedBlksize(a.ack) /\ uintmax_t(a.g.g_tsize) = AckedTsize(a.ack)
      /\ ~a.g.blksize_set => \A i \in DOMAIN a.ack : a.ack[i].opt \notin BlkNames
  BY DEF Negotiated
<1>3. BlksizeOK(a.ack, t)
  BY MoreOptions DEF Negotiated
<1> HIDE DEF t, o, b
<1>4. CASE b = a
  <2>1. Negotiated(a, opts, n + 1)
    BY <1>2, <1>3 DEF Negotiated, t
  <2> QED
    BY <1>4, <2>1 DEF b, o
<1>5. ASSUME NEW x \in Acked, Took(a, o, x, b) PROVE Negotiated(b, opts, n + 1)
  <2>1. b.ack = Append(a.ack, x) /\ b.ack \in Seq(Acked) /\ b.g \in Globals /\ x.opt = o.opt
    BY <1>2, <1>5 DEF Took
  <2>2. /\ AckedBlksize(b.ack) = IF x.opt \in BlkNames THEN x.val ELSE AckedBlksize(a.ack)
        /\ AckedTsize(b.ack) = IF x.opt = "tsize" THEN x.val ELSE AckedTsize(a.ack)
    <3>1. ASSUME NEW names, NEW d
          PROVE  LastAcked(b.ack, names, d)
                     = IF x.opt \in names THEN x ELSE LastAcked(a.ack, names, d)
      BY <1>2, <2>1, LastAckedAppend
    <3> QED
      BY <3>1 DEF AckedBlksize, AckedTsize
  <2>3. /\ b.g.g_segsize = AckedBlksize(b.ack)
        /\ uintmax_t(b.g.g_tsize) = AckedTsize(b.ack)
        /\ b.g.blksize_set = IF x.opt \in BlkNames THEN TRUE ELSE a.g.blksize_set
        /\ x.opt \in BlkNames => /\ ~a.g.blksize_set /\ Grants(o, x.val)
                                 /\ x.val \in min_blksize_rfc .. max_blksize
    <3>1. CASE o.opt \in BlkNames
      <4>1. /\ b.g = [a.g EXCEPT !.g_segsize = x.val, !.blksize_set = TRUE]
            /\ ~a.g.blksize_set /\ Grants(o, x.val)
            /\ x.val \in min_blksize_rfc .. max_blksize
        BY <1>5, <3>1 DEF Took, BlkNames
      <4>2. /\ b.g.g_segsize = x.val /\ b.g.g_tsize = a.g.g_tsize
            /\ b.g.blksize_set = TRUE
        BY <1>2, <4>1 DEF Globals
      <4>3. x.opt # "tsize" /\ x.opt \in BlkNames
        BY <2>1, <3>1 DEF BlkNames
      <4> QED
        BY <1>2, <2>2, <4>1, <4>2, <4>3
    <3>2. CASE o.opt = "tsize"
      <4>1. b.g = [a.g EXCEPT !.g_tsize = off_t(x.val)]
        BY <1>5, <3>2 DEF Took, BlkNames
      <4>2. /\ b.g.g_segsize = a.g.g_segsize /\ b.g.g_tsize = off_t(x.val)
            /\ b.g.blksize_set = a.g.blksize_set
        BY <1>2, <4>1 DEF Globals
      <4>3. x.opt = "tsize" /\ x.opt \notin BlkNames
        BY <2>1, <3>2 DEF BlkNames
      <4>4. uintmax_t(off_t(x.val)) = x.val
        BY Conversions DEF Acked
      <4> QED
        BY <1>2, <2>2, <4>2, <4>3, <4>4
    <3>3. CASE o.opt \in {"timeout", "utimeout"}
      <4>1. PICK w : b.g = [a.g EXCEPT !.g_timeout = w]
        BY <1>5, <3>3 DEF Took, BlkNames
      <4>2. /\ b.g.g_segsize = a.g.g_segsize /\ b.g.g_tsize = a.g.g_tsize
            /\ b.g.blksize_set = a.g.blksize_set
        BY <1>2, <4>1 DEF Globals
      <4>3. x.opt # "tsize" /\ x.opt \notin BlkNames
        BY <2>1, <3>3 DEF BlkNames
      <4> QED
        BY <1>2, <2>2, <4>2, <4>3
    <3> QED
      BY <1>5, <3>1, <3>2, <3>3 DEF Took
  <2>4. DOMAIN a.ack = 1 .. Len(a.ack) /\ Len(a.ack) \in Nat
    BY <1>2
  <2>5. /\ DOMAIN b.ack = 1 .. Len(a.ack) + 1 /\ b.ack[Len(a.ack) + 1] = x
        /\ \A i \in DOMAIN a.ack : b.ack[i] = a.ack[i]
    BY <1>2, <2>1
  <2>6. ~b.g.blksize_set => \A i \in DOMAIN b.ack : b.ack[i].opt \notin BlkNames
    BY <1>2, <2>3, <2>4, <2>5
  <2>7. BlksizeOK(b.ack, t)
    <3>1. CASE x.opt \in BlkNames
      <4>1. \A i \in DOMAIN b.ack : b.ack[i].opt \in BlkNames => i = Len(a.ack) + 1
        BY <1>2, <2>3, <2>4, <2>5, <3>1
      <4> QED
        BY <1>1, <2>1, <2>3, <2>5, <3>1, <4>1 DEF BlksizeOK
    <3>2. CASE x.opt \notin BlkNames
      <4>1. \A i \in DOMAIN b.ack : b.ack[i].opt \in BlkNames
                => i \in DOMAIN a.ack /\ b.ack[i] = a.ack[i]
        BY <2>4, <2>5, <3>2
      <4> QED
        BY <1>3, <4>1 DEF BlksizeOK
    <3> QED
      BY <3>1, <3>2
  <2> QED
    BY <2>1, <2>3, <2>6, <2>7 DEF Negotiated, t
<1> QED
  BY <1>1, <1>2, <1>4, <1>5, do_optTakes DEF b, o

\* The whole loop, by induction on the number of options.
LEMMA do_optsNegotiates ==
    ASSUME NEW opts \in Seq(Option), NEW n \in Nat, n <= Len(opts),
           NEW start, start = [g |-> GlobalsInit, ack |-> << >>]
    PROVE  Negotiated(do_opts(start, opts, n)[n], opts, n)
<1> DEFINE f == do_opts(start, opts, n)
           T == {i \in Nat : i <= n => Negotiated(f[i], opts, i)}
<1>1. f[0] = start /\ \A i \in 1 .. n : f[i] = do_opt(f[i - 1], opts[i])
  BY do_optsSteps
<1> HIDE DEF f
<1>2. 0 \in T
  BY <1>1, NegotiatedInit
<1>3. ASSUME NEW i \in Nat, i \in T PROVE i + 1 \in T
  <2>1. SUFFICES ASSUME i + 1 <= n PROVE Negotiated(f[i + 1], opts, i + 1)
    OBVIOUS
  <2>2. Negotiated(f[i], opts, i) /\ i + 1 <= Len(opts)
    BY <1>3, <2>1
  <2>3. f[i + 1] = do_opt(f[i], opts[i + 1])
    BY <1>1, <2>1
  <2> QED
    BY <2>2, <2>3, NegotiatedStep
<1> HIDE DEF T
<1>4. \A i \in Nat : i \in T
  BY <1>2, <1>3, SetInduction
<1> QED
  BY <1>4 DEF T, f

-----------------------------------------------------------------------------
(* A request.                                                              *)

\* What the server holds while it serves an upload.
Inv == TypeOK /\ InForceIsAcked /\ BlksizeFits /\ AcceptedIsOpen

\* A request has its options in a sequence.
LEMMA RequestOptions ==
    ASSUME NEW r \in Requests
    PROVE  /\ r.opts \in Seq(Option) /\ Len(r.opts) \in Nat
           /\ r.op \in Ops /\ r.name \in Names /\ r.mode \in Modes
           /\ r.odd \in BOOLEAN /\ r.cut \in BOOLEAN
           /\ r.mode = Missing => r.opts = << >>
<1>1. PICK n \in 0 .. MaxOptions : r.opts \in [1 .. n -> Options]
  BY DEF Requests
<1>2. r.opts \in Seq(Options) /\ n \in Nat
  BY <1>1, OptionsAssumption
<1>3. r.opts \in Seq(Option)
  BY <1>2, OptionsAssumption
<1> QED
  BY <1>3 DEF Requests

\* What tftp() answers.
Answered(r, t) ==
    /\ t.err \in Codes /\ t.g \in Globals
    /\ t.file \in {"null", "target", "upload"}
    /\ t.upload \in {"absent", "partial", "empty"}
    /\ t.ack \in [kind : {"none", "unset", "oack"}, opts : Seq(Acked)]
    /\ t.err = OK =>
          /\ t.g.g_segsize = AckedBlksize(t.ack.opts)
          /\ uintmax_t(t.g.g_tsize) = AckedTsize(t.ack.opts)
          /\ BlksizeOK(t.ack.opts, r.opts)
          /\ r.name # Missing /\ r.mode # Missing =>
                /\ r.op = "WRQ" /\ r.mode = "octet" /\ r.name = "file"
                /\ t.file = "upload" /\ t.upload = "empty"
    /\ t.err # OK => \/ t.upload = upload
                     \/ OpenedFirst(r, t.err) /\ t.upload = "empty"

\* The access check opens the upload file of a write request it accepts, and
\* leaves it alone when it refuses, unless fdopen fails (validate_access).
LEMMA AccessResult ==
    ASSUME TypeOK, NEW r \in Requests, NEW fault, r.op # "DATA", r.name # Missing
    PROVE  LET a == Access(r, fault)
           IN  /\ a.err \in Codes /\ a.file \in {"null", "target", "upload"}
               /\ a.upload \in {"absent", "partial", "empty"}
               /\ r.op = "RRQ" => a.upload = upload
               /\ a.err # OK => \/ a.upload = upload
                                \/ OpenedFirst(r, a.err) /\ a.upload = "empty"
               /\ a.err = OK => r.mode = "octet" /\ r.name = "file"
               /\ a.err = OK /\ r.op = "WRQ" => a.file = "upload" /\ a.upload = "empty"
<1>1. /\ r.op \in {"RRQ", "WRQ"} /\ r.name \in {"file", "../file"}
      /\ upload \in {"absent", "partial", "empty"}
  BY RequestOptions DEF Ops, Names, TypeOK
<1>2. CASE ~ModeKnown(r)
  BY <1>1, <1>2 DEF Access, Codes, OK
<1>3. CASE ModeKnown(r)
  <2>1. r.mode = "octet" /\ Access(r, fault) = validate_access(r, fault)
    BY <1>3 DEF ModeKnown, Access
  <2> QED
    BY <1>1, <2>1 DEF validate_access, OpenedFirst, Codes, OK
<1> QED
  BY <1>2, <1>3

\* The strings of a request and the ones that are read.
LEMMA ParsedArgs ==
    ASSUME NEW r \in Requests, NEW byte
    PROVE  LET n == Parsed(r, byte)
           IN  /\ n \in Nat /\ Args(r) \in Nat /\ n <= Args(r) /\ Args(r) <= n + 1
               /\ n < Args(r) => r.cut
               /\ r.name = Missing => Args(r) = 0
               /\ r.name # Missing /\ r.mode = Missing => Args(r) = 1
               /\ r.name # Missing /\ r.mode # Missing => Args(r) >= 2
               /\ n >= 2 => /\ (n - 2) \div 2 \in Nat /\ (n - 2) \div 2 <= Len(r.opts)
                           /\ r.name # Missing /\ r.mode # Missing
               /\ n = 2 => (n - 2) \div 2 = 0
<1> DEFINE l == Len(r.opts)
           e == IF r.odd THEN 1 ELSE 0
<1>1. l \in Nat /\ e \in 0 .. 1
  BY RequestOptions
<1>2. Args(r) = IF r.name = Missing THEN 0
                ELSE IF r.mode = Missing THEN 1 ELSE 2 + 2 * l + e
  BY DEF Args
<1>3. Parsed(r, byte) = IF r.cut /\ Args(r) > 0 /\ byte # 0 THEN Args(r) - 1 ELSE Args(r)
  BY DEF Parsed
<1> HIDE DEF e, l
<1>4. Args(r) \in Nat
  BY <1>1, <1>2
<1>5. Parsed(r, byte) \in Nat /\ Parsed(r, byte) <= 2 + 2 * l + e
  BY <1>1, <1>2, <1>3, <1>4
<1>6. ASSUME Parsed(r, byte) >= 2
      PROVE  /\ (Parsed(r, byte) - 2) \div 2 \in Nat /\ (Parsed(r, byte) - 2) \div 2 <= l
  <2> DEFINE m == Parsed(r, byte) - 2
  <2>1. m \in Nat /\ m <= 2 * l + 1
    BY <1>1, <1>5, <1>6
  <2> HIDE DEF m
  <2>2. m \div 2 \in Nat /\ m \div 2 <= l
    BY <1>1, <2>1
  <2> QED
    BY <2>2 DEF m
<1>7. Parsed(r, byte) >= 2 => r.name # Missing /\ r.mode # Missing
  BY <1>1, <1>2, <1>3
<1>8. Parsed(r, byte) = 2 => (Parsed(r, byte) - 2) \div 2 = 0
  OBVIOUS
<1>9. /\ Parsed(r, byte) <= Args(r) /\ Args(r) <= Parsed(r, byte) + 1
      /\ Parsed(r, byte) < Args(r) => r.cut
  BY <1>3, <1>4
<1> QED
  BY <1>1, <1>2, <1>4, <1>5, <1>6, <1>7, <1>8, <1>9 DEF l

\* tftp(), from the first byte of a request to its answer.
LEMMA tftpAnswers ==
    ASSUME TypeOK, NEW r \in Requests, r.op # "DATA", NEW byte, NEW fault
    PROVE  Answered(r, tftp(r, byte, fault))
<1> DEFINE n == Parsed(r, byte)
           m == (n - 2) \div 2
           start == [g |-> init_opt(g), ack |-> << >>]
           a == IF n < 2 THEN [err |-> OK, file |-> "null", upload |-> upload]
                         ELSE Access(r, fault)
           o == IF n < 2 \/ a.err # OK THEN start ELSE Negotiate(r, n)
           e == CASE a.err # OK -> a.err
                  [] a.err = OK /\ (n < Args(r) \/ r.op = "RRQ") -> "EBADOP"
                  [] OTHER -> OK
           k == IF e = OK THEN FinalAck(r, o.ack) ELSE NoAck
           t == [err |-> e, g |-> o.g, upload |-> a.upload, file |-> a.file, ack |-> k]
<1>1. tftp(r, byte, fault) = t
  BY DEF tftp
<1>2. /\ n \in Nat /\ Args(r) \in Nat /\ n <= Args(r) /\ Args(r) <= n + 1
      /\ n < Args(r) => r.cut
      /\ r.name # Missing /\ r.mode # Missing => Args(r) >= 2
      /\ n >= 2 => m \in Nat /\ m <= Len(r.opts) /\ r.name # Missing /\ r.mode # Missing
      /\ n = 2 => m = 0
  BY ParsedArgs
<1>3. /\ r.opts \in Seq(Option) /\ r.op \in {"RRQ", "WRQ"} /\ Len(r.opts) \in Nat
      /\ upload \in {"absent", "partial", "empty"}
  BY RequestOptions DEF Ops, TypeOK
<1>4. start = [g |-> GlobalsInit, ack |-> << >>] /\ Negotiated(start, r.opts, 0)
  BY NegotiatedInit DEF init_opt
<1>5. /\ a.err \in Codes /\ a.file \in {"null", "target", "upload"}
      /\ a.upload \in {"absent", "partial", "empty"}
      /\ r.op = "RRQ" \/ n < 2 => a.upload = upload
      /\ a.err # OK => \/ a.upload = upload
                       \/ OpenedFirst(r, a.err) /\ a.upload = "empty"
      /\ a.err = OK /\ n >= 2 => r.mode = "octet" /\ r.name = "file"
      /\ a.err = OK /\ r.op = "WRQ" /\ n >= 2 => a.file = "upload" /\ a.upload = "empty"
  <2>1. CASE n < 2
    BY <1>2, <1>3, <2>1 DEF Codes, OK
  <2>2. CASE n >= 2
    <3>1. a = Access(r, fault)
      BY <1>2, <2>2
    <3> HIDE DEF n, a
    <3> QED
      BY <1>2, <2>2, <3>1, AccessResult
  <2> QED
    BY <1>2, <2>1, <2>2
<1>6. Negotiate(r, n) = do_opts(start, r.opts, m)[m]
  BY DEF Negotiate
<1> HIDE DEF n, m, a, start
<1>7. ASSUME n >= 2, a.err = OK
      PROVE  o = do_opts(start, r.opts, m)[m] /\ Negotiated(o, r.opts, m)
  <2>1. o = do_opts(start, r.opts, m)[m]
    BY <1>2, <1>6, <1>7
  <2> HIDE DEF o
  <2> QED
    BY <1>2, <1>3, <1>4, <1>7, <2>1, do_optsNegotiates
<1>8. n < 2 \/ a.err # OK => o = start
  OBVIOUS
<1> HIDE DEF o
<1>9. /\ o.g \in Globals /\ o.ack \in Seq(Acked)
      /\ o.g.g_segsize = AckedBlksize(o.ack) /\ uintmax_t(o.g.g_tsize) = AckedTsize(o.ack)
      /\ BlksizeOK(o.ack, r.opts)
  <2>1. CASE n < 2 \/ a.err # OK
    <3>1. o = start /\ start.ack = << >>
      BY <1>4, <1>8, <2>1
    <3>2. BlksizeOK(o.ack, r.opts)
      BY <3>1 DEF BlksizeOK
    <3>3. Negotiated(o, r.opts, 0)
      BY <1>4, <3>1
    <3> QED
      BY <3>2, <3>3 DEF Negotiated
  <2>2. CASE n >= 2 /\ a.err = OK
    <3> DEFINE s == SubSeq(r.opts, 1, m)
    <3>1. DOMAIN s \subseteq DOMAIN r.opts /\ \A i \in DOMAIN s : r.opts[i] = s[i]
      BY <1>2, <1>3, <2>2
    <3> HIDE DEF s
    <3>2. Negotiated(o, r.opts, m) /\ BlksizeOK(o.ack, s)
      BY <1>7, <2>2 DEF Negotiated, s
    <3>3. BlksizeOK(o.ack, r.opts)
      BY <3>1, <3>2 DEF BlksizeOK
    <3> QED
      BY <3>2, <3>3 DEF Negotiated
  <2> QED
    BY <1>2, <2>1, <2>2
<1>10. /\ e \in Codes
       /\ e = OK => a.err = OK /\ n = Args(r) /\ r.op = "WRQ"
       /\ a.err # OK => e = a.err
       /\ e # OK /\ a.err = OK => n < Args(r) \/ r.op = "RRQ"
  BY <1>2, <1>3, <1>5 DEF Codes, OK
<1> HIDE DEF e
<1>11. /\ k \in [kind : {"none", "unset", "oack"}, opts : Seq(Acked)]
       /\ e = OK => k.opts = o.ack
  <2>1. CASE e # OK
    BY <2>1 DEF NoAck
  <2>2. CASE e = OK /\ Args(r) > 2
    BY <1>2, <1>9, <2>2 DEF FinalAck, Oack
  <2>3. CASE e = OK /\ Args(r) <= 2
    <3>1. o.ack = << >>
      <4>1. start.ack = << >>
        BY <1>4
      <4>2. CASE Args(r) = 2
        <5>1. n = 2 /\ m = 0 /\ a.err = OK
          BY <1>2, <1>10, <2>3, <4>2
        <5>2. o = do_opts(start, r.opts, 0)[0]
          BY <1>7, <5>1
        <5> QED
          BY <4>1, <5>2, do_optsSteps
      <4>3. CASE Args(r) < 2
        BY <1>8, <1>10, <2>3, <4>1, <4>3
      <4> QED
        BY <1>2, <2>3, <4>2, <4>3
    <3>2. FinalAck(r, o.ack) \in {NoAck, Unset}
      BY <1>2, <2>3 DEF FinalAck
    <3>3. k = FinalAck(r, o.ack) /\ << >> \in Seq(Acked)
      BY <2>3
    <3> HIDE DEF k
    <3>4. /\ NoAck \in [kind : {"none", "unset", "oack"}, opts : Seq(Acked)]
          /\ Unset \in [kind : {"none", "unset", "oack"}, opts : Seq(Acked)]
      BY DEF NoAck, Unset
    <3>5. NoAck.opts = << >> /\ Unset.opts = << >>
      BY DEF NoAck, Unset
    <3> QED
      BY <3>1, <3>2, <3>3, <3>4, <3>5
  <2> QED
    BY <1>2, <2>1, <2>2, <2>3
<1> HIDE DEF k
<1>12. e = OK /\ r.name # Missing /\ r.mode # Missing =>
           /\ r.op = "WRQ" /\ r.mode = "octet" /\ r.name = "file"
           /\ a.file = "upload" /\ a.upload = "empty"
  BY <1>2, <1>5, <1>10
<1>13. e # OK => a.upload = upload \/ (OpenedFirst(r, e) /\ a.upload = "empty")
  <2>1. CASE a.err # OK
    BY <1>5, <1>10, <2>1
  <2>2. CASE e # OK /\ a.err = OK /\ r.op = "WRQ" /\ n >= 2
    <3>1. n < Args(r) /\ r.cut /\ Args(r) > 2
      BY <1>2, <1>10, <2>2
    <3> QED
      BY <1>5, <2>2, <3>1 DEF OpenedFirst
  <2> QED
    BY <1>2, <1>3, <1>5, <2>1, <2>2
<1>14. Answered(r, t)
  BY <1>5, <1>9, <1>10, <1>11, <1>12, <1>13 DEF Answered
<1> QED
  BY <1>1, <1>14

\* A datagram with another opcode is answered unread.
LEMMA OtherOpcode ==
    ASSUME TypeOK, NEW r \in Requests,
           NEW t, t = [err |-> "EBADID", g |-> init_opt(g), upload |-> upload,
                       file |-> "null", ack |-> NoAck]
    PROVE  Answered(r, t)
<1>1. t.g \in Globals
  BY DefaultsInRange DEF init_opt
<1>2. t.ack \in [kind : {"none", "unset", "oack"}, opts : Seq(Acked)]
  BY DEF NoAck
<1> QED
  BY <1>1, <1>2 DEF Answered, Codes, OK, TypeOK

\* Whatever a datagram holds, the server knows what it answered.
LEMMA ReceiveInv ==
    ASSUME TypeOK, NEW r \in Requests, Receive(r)
    PROVE  /\ Inv'
           /\ pc' = "refusing" =>
                 /\ target' = target
                 /\ upload' = upload \/ (OpenedFirst(req', res'.err) /\ upload' = "empty")
<1>1. PICK t : /\ Answered(r, t)
               /\ g' = t.g /\ upload' = t.upload /\ req' = r /\ target' = target
               /\ res' = [err |-> t.err, ack |-> t.ack, file |-> t.file]
               /\ pc' = IF t.err = OK THEN "serving" ELSE "refusing"
  <2>1. CASE r.op = "DATA"
    <3> DEFINE t == [err |-> "EBADID", g |-> init_opt(g), upload |-> upload,
                     file |-> "null", ack |-> NoAck]
    <3>1. /\ g' = t.g /\ upload' = t.upload /\ req' = r /\ target' = target
          /\ res' = [err |-> t.err, ack |-> t.ack, file |-> t.file]
          /\ pc' = IF t.err = OK THEN "serving" ELSE "refusing"
      BY <2>1 DEF Receive
    <3>2. Answered(r, t)
      BY OtherOpcode
    <3> HIDE DEF t
    <3> QED
      BY <3>1, <3>2
  <2>2. CASE r.op # "DATA"
    BY <2>2, tftpAnswers DEF Receive
  <2> QED
    BY <2>1, <2>2
<1>2. res'.err = t.err /\ res'.ack = t.ack /\ res'.file = t.file /\ res' \in Results
  BY <1>1 DEF Answered, Results
<1>3. TypeOK'
  BY <1>1, <1>2 DEF Answered, TypeOK
<1>4. InForceIsAcked' /\ BlksizeFits' /\ AcceptedIsOpen'
  BY <1>1, <1>2 DEF Answered, InForceIsAcked, BlksizeFits, AcceptedIsOpen
<1>5. pc' = "refusing" => t.err # OK
  BY <1>1
<1>6. pc' = "refusing" => upload' = upload \/ (OpenedFirst(req', res'.err) /\ upload' = "empty")
  BY <1>1, <1>2, <1>5 DEF Answered
<1> QED
  BY <1>1, <1>3, <1>4, <1>6 DEF Inv

\* The values a new server starts from.
LEMMA InitialTypes ==
    GlobalsInit \in Globals /\ NoRequest \in Requests /\ NoResult \in Results
<1>1. << >> \in [1 .. 0 -> Options] /\ 0 \in 0 .. MaxOptions
  BY OptionsAssumption
<1>2. << >> \in UNION {[1 .. n -> Options] : n \in 0 .. MaxOptions}
  BY <1>1
<1>3. NoRequest \in Requests
  BY <1>2 DEF NoRequest, Requests, Ops, Names, Modes, Missing
<1>4. NoResult \in Results
  BY DEF NoResult, Results, Codes, NoAck
<1> QED
  BY <1>3, <1>4, DefaultsInRange

\* The server listens again with nothing served.
LEMMA RelistenInv ==
    ASSUME TypeOK, Relisten, target' \in {"absent", "private", "public"},
           upload' \in {"absent", "partial", "empty"}
    PROVE  Inv'
<1>1. NoRequest \in Requests /\ NoResult \in Results
  BY InitialTypes
<1>2. /\ pc' = "listening" /\ req' = NoRequest /\ res' = NoResult /\ g' = g
  BY DEF Relisten
<1> QED
  BY <1>1, <1>2 DEF Inv, TypeOK, InForceIsAcked, BlksizeFits, AcceptedIsOpen

\* Every step keeps the invariant, and a refused request leaves the files alone.
LEMMA StepInv ==
    ASSUME Inv, [Next]_vars
    PROVE  /\ Inv'
           /\ pc = "listening" /\ pc' = "refusing" =>
                 /\ target' = target
                 /\ upload' = upload \/ (OpenedFirst(req', res'.err) /\ upload' = "empty")
<1>1. TypeOK
  BY DEF Inv
<1>2. ASSUME NEW r \in Requests, Receive(r)
      PROVE  /\ Inv'
             /\ pc' = "refusing" =>
                   /\ target' = target
                   /\ upload' = upload \/ (OpenedFirst(req', res'.err) /\ upload' = "empty")
  BY <1>1, <1>2, ReceiveInv
<1>3. CASE Finish \/ GiveUp \/ Throw
  <2>1. /\ Relisten /\ target' \in {"absent", "private", "public"}
        /\ upload' \in {"absent", "partial", "empty"}
    BY <1>1, <1>3 DEF Finish, GiveUp, Throw, TypeOK
  <2> QED
    BY <1>1, <2>1, RelistenInv DEF Relisten
<1>4. CASE UNCHANGED vars
  BY <1>4 DEF vars, Inv, TypeOK, InForceIsAcked, BlksizeFits, AcceptedIsOpen
<1> QED
  BY <1>2, <1>3, <1>4 DEF Next

\* The invariant holds of every state of the server.
THEOREM Invariance == Spec => []Inv
<1>1. Init => Inv
  <2> SUFFICES ASSUME Init PROVE Inv
    OBVIOUS
  <2>1. GlobalsInit \in Globals /\ NoRequest \in Requests /\ NoResult \in Results
    BY InitialTypes
  <2> QED
    BY <2>1 DEF Init, Inv, TypeOK, InForceIsAcked, BlksizeFits, AcceptedIsOpen
<1>2. Inv /\ [Next]_vars => Inv'
  BY StepInv
<1> QED
  BY <1>1, <1>2, PTL DEF Spec

\* The globals of tftpd_options.cpp stay within their limits for every request,
\* whatever options it has and however many.
THEOREM TypeCorrect == Spec => []TypeOK
<1>1. Inv => TypeOK
  BY DEF Inv
<1> QED
  BY <1>1, Invariance, PTL

\* The block size and the file size an upload is served with are the ones its
\* OACK tells the client, for every sequence of options and every width of the
\* integers, the sizes that off_t cannot hold included.
THEOREM InForceAcknowledged == Spec => []InForceIsAcked
<1>1. Inv => InForceIsAcked
  BY DEF Inv
<1> QED
  BY <1>1, Invariance, PTL

\* A block size granted is one the server can hold, was asked for, and for
\* blksize2 is the largest power of two that fits (set_blksize, set_blksize2).
THEOREM BlksizeGranted == Spec => []BlksizeFits
<1>1. Inv => BlksizeFits
  BY DEF Inv
<1> QED
  BY <1>1, Invariance, PTL

\* Only a write request in octet mode is accepted with a name and a mode, and
\* then its upload file is open and empty (tftp(), validate_access).
THEOREM AcceptedOpen == Spec => []AcceptedIsOpen
<1>1. Inv => AcceptedIsOpen
  BY DEF Inv
<1> QED
  BY <1>1, Invariance, PTL

\* A refused request leaves the files of earlier uploads alone, but for a write
\* request that is refused after open: cut off after its mode, or without a
\* stream from fdopen.
THEOREM RefusalLeavesFiles == Spec => RefusedLeavesFiles
<1> DEFINE Refused == pc = "listening" /\ pc' = "refusing" =>
                         /\ target' = target
                         /\ \/ upload' = upload
                            \/ OpenedFirst(req', res'.err) /\ upload' = "empty"
<1>1. Inv /\ [Next]_vars => [Refused]_vars
  BY StepInv
<1>2. Spec => [][Refused]_vars
  BY <1>1, Invariance, PTL DEF Spec
<1> QED
  BY <1>2 DEF RefusedLeavesFiles

-----------------------------------------------------------------------------
(* Netascii: the reference encoding.                                       *)

\* The second half of the encoding of a line end.
Second(c) == IF c = "lf" THEN "lf" ELSE "nul"

\* e holds the encodings of the first n prefixes of s.
EncLoop(e, s, n) ==
    e = [i \in 0 .. n |-> IF i = 0 THEN << >> ELSE e[i - 1] \o Code(s[i])]

\* There are such encodings for every length.
LEMMA EncRuns ==
    ASSUME NEW s
    PROVE  \A n \in Nat : \E e : EncLoop(e, s, n)
<1> DEFINE T == {n \in Nat : \E e : EncLoop(e, s, n)}
<1>1. 0 \in T
  <2>1. EncLoop([i \in 0 .. 0 |-> << >>], s, 0)
    BY DEF EncLoop
  <2> QED
    BY <2>1
<1>2. ASSUME NEW n \in Nat, n \in T PROVE n + 1 \in T
  <2>1. PICK e : EncLoop(e, s, n)
    BY <1>2
  <2> DEFINE h == [i \in 0 .. n + 1 |-> IF i <= n THEN e[i] ELSE e[n] \o Code(s[n + 1])]
  <2>2. ASSUME NEW i \in 0 .. n + 1
        PROVE  h[i] = IF i = 0 THEN << >> ELSE h[i - 1] \o Code(s[i])
    <3>1. CASE i = 0
      BY <2>1, <3>1 DEF EncLoop
    <3>2. CASE i > 0 /\ i <= n
      BY <2>1, <3>2 DEF EncLoop
    <3>3. CASE i = n + 1
      BY <3>3
    <3> QED
      BY <3>1, <3>2, <3>3
  <2>3. EncLoop(h, s, n + 1)
    BY <2>2 DEF EncLoop
  <2> QED
    BY <2>3
<1> HIDE DEF T
<1>3. \A n \in Nat : n \in T
  BY <1>1, <1>2, SetInduction
<1> QED
  BY <1>3 DEF T

\* A character more: itself, or the two halves of a line end.
LEMMA EncodingSteps ==
    ASSUME NEW s \in Seq(Char)
    PROVE  /\ Encoding(s)[0] = << >>
           /\ \A n \in 1 .. Len(s) :
                 Encoding(s)[n] = Encoding(s)[n - 1] \o Code(s[n])
<1> DEFINE e == Encoding(s)
<1>1. e = CHOOSE h : EncLoop(h, s, Len(s))
  BY DEF Encoding, EncLoop
<1>2. EncLoop(e, s, Len(s))
  <2>1. Len(s) \in Nat
    OBVIOUS
  <2> QED
    BY <1>1, <2>1, EncRuns, Zenon
<1> HIDE DEF e
<1>3. e[0] = << >> /\ \A n \in 1 .. Len(s) : e[n] = e[n - 1] \o Code(s[n])
  BY <1>2 DEF EncLoop
<1> QED
  BY <1>3 DEF e

\* Appending the code of a character.
LEMMA CodeAppended ==
    ASSUME NEW w \in Seq(Char), NEW c \in Char
    PROVE  /\ w \o Code(c) \in Seq(Char)
           /\ c \notin {"lf", "cr"} => w \o Code(c) = Append(w, c)
           /\ c \in {"lf", "cr"} => w \o Code(c) = Append(Append(w, "cr"), Second(c))
<1>1. CASE c = "lf"
  <2>1. Code(c) = <<"cr", "lf">> /\ Second(c) = "lf"
    BY <1>1 DEF Code, Second
  <2>2. w \o <<"cr", "lf">> = Append(Append(w, "cr"), "lf")
    OBVIOUS
  <2>3. Append(w, "cr") \in Seq(Char)
    BY DEF Char
  <2>4. Append(Append(w, "cr"), "lf") \in Seq(Char)
    BY <2>3 DEF Char
  <2> QED
    BY <1>1, <2>1, <2>2, <2>4
<1>2. CASE c = "cr"
  <2>1. Code(c) = <<"cr", "nul">> /\ Second(c) = "nul"
    BY <1>2 DEF Code, Second
  <2>2. w \o <<"cr", "nul">> = Append(Append(w, "cr"), "nul")
    OBVIOUS
  <2>3. Append(w, "cr") \in Seq(Char)
    BY DEF Char
  <2>4. Append(Append(w, "cr"), "nul") \in Seq(Char)
    BY <2>3 DEF Char
  <2> QED
    BY <1>2, <2>1, <2>2, <2>4
<1>3. CASE c \notin {"lf", "cr"}
  <2>1. Code(c) = <<c>>
    BY <1>3 DEF Code
  <2>2. w \o <<c>> = Append(w, c)
    OBVIOUS
  <2> QED
    BY <1>3, <2>1, <2>2
<1> QED
  BY <1>1, <1>2, <1>3

\* The encodings of the prefixes of a text, one character more at a time.
LEMMA EncodingOf ==
    ASSUME NEW s \in Seq(Char)
    PROVE  /\ Encoding(s)[0] = << >>
           /\ \A n \in 0 .. Len(s) : Encoding(s)[n] \in Seq(Char)
           /\ \A n \in 1 .. Len(s) :
                 Encoding(s)[n] = IF s[n] \in {"lf", "cr"}
                                  THEN Append(Append(Encoding(s)[n - 1], "cr"), Second(s[n]))
                                  ELSE Append(Encoding(s)[n - 1], s[n])
<1> DEFINE e == Encoding(s)
           T == {n \in Nat : n <= Len(s) => e[n] \in Seq(Char)}
<1>1. e[0] = << >> /\ \A n \in 1 .. Len(s) : e[n] = e[n - 1] \o Code(s[n])
  BY EncodingSteps
<1> HIDE DEF e
<1>2. 0 \in T
  <2>1. << >> \in Seq(Char)
    OBVIOUS
  <2> QED
    BY <1>1, <2>1
<1>3. ASSUME NEW n \in Nat, n \in T PROVE n + 1 \in T
  <2>1. SUFFICES ASSUME n + 1 <= Len(s) PROVE e[n + 1] \in Seq(Char)
    OBVIOUS
  <2>2. n + 1 \in 1 .. Len(s) /\ (n + 1) - 1 = n
    BY <2>1
  <2>3. e[n + 1] = e[n] \o Code(s[n + 1])
    BY <1>1, <2>2
  <2>4. e[n] \in Seq(Char)
    BY <1>3, <2>1
  <2>5. s[n + 1] \in Char
    BY <2>2
  <2> QED
    BY <2>3, <2>4, <2>5, CodeAppended
<1> HIDE DEF T
<1>4. \A n \in Nat : n \in T
  BY <1>2, <1>3, SetInduction
<1>5. \A n \in 0 .. Len(s) : e[n] \in Seq(Char)
  BY <1>4 DEF T
<1>6. ASSUME NEW n \in 1 .. Len(s)
      PROVE  e[n] = IF s[n] \in {"lf", "cr"}
                    THEN Append(Append(e[n - 1], "cr"), Second(s[n]))
                    ELSE Append(e[n - 1], s[n])
  <2>1. e[n - 1] \in Seq(Char) /\ s[n] \in Char
    BY <1>5
  <2> QED
    BY <1>1, <2>1, CodeAppended
<1> QED
  BY <1>1, <1>5, <1>6 DEF e

\* a is a prefix of b.
Begins(a, b) == Len(a) <= Len(b) /\ \A k \in 1 .. Len(a) : a[k] = b[k]

\* Begins is IsPrefix, for sequences.
LEMMA BeginsIsPrefix ==
    ASSUME NEW a \in Seq(Char), NEW b \in Seq(Char), Begins(a, b)
    PROVE  IsPrefix(a, b)
<1>1. Len(a) \in Nat /\ Len(b) \in Nat /\ Len(a) <= Len(b)
  BY DEF Begins
<1>2. SubSeq(a, 1, Len(a)) = SubSeq(b, 1, Len(a))
  BY <1>1 DEF Begins
<1> QED
  BY <1>1, <1>2 DEF IsPrefix

\* A sequence begins with its prefixes' prefixes.
LEMMA BeginsTrans ==
    ASSUME NEW a \in Seq(Char), NEW b \in Seq(Char), NEW c \in Seq(Char),
           Begins(a, b), Begins(b, c)
    PROVE  Begins(a, c)
<1>1. Len(a) \in Nat /\ Len(b) \in Nat /\ Len(c) \in Nat
  OBVIOUS
<1> QED
  BY <1>1 DEF Begins

\* Appending a character leaves the beginning as it is.
LEMMA BeginsAppend ==
    ASSUME NEW a \in Seq(Char), NEW c \in Char
    PROVE  Begins(a, a) /\ Begins(a, Append(a, c)) /\ Append(a, c) \in Seq(Char)
BY DEF Begins

\* A longer prefix is encoded by a longer sequence that begins with the shorter;
\* between the two halves of a line end lies no encoding of a prefix.
LEMMA EncodingGrows ==
    ASSUME NEW s \in Seq(Char), NEW i \in 0 .. Len(s)
    PROVE  \A j \in i + 1 .. Len(s) :
              /\ Begins(Encoding(s)[i], Encoding(s)[j])
              /\ Len(Encoding(s)[i]) < Len(Encoding(s)[j])
              /\ s[i + 1] \in {"lf", "cr"} =>
                    /\ Begins(Append(Encoding(s)[i], "cr"), Encoding(s)[j])
                    /\ Len(Encoding(s)[i]) + 1 < Len(Encoding(s)[j])
<1> DEFINE e == Encoding(s)
           P(j) == /\ Begins(e[i], e[j])
                   /\ Len(e[i]) < Len(e[j])
                   /\ s[i + 1] \in {"lf", "cr"} =>
                         /\ Begins(Append(e[i], "cr"), e[j])
                         /\ Len(e[i]) + 1 < Len(e[j])
           T == {d \in Nat : i + 1 + d <= Len(s) => P(i + 1 + d)}
<1>1. /\ \A n \in 0 .. Len(s) : e[n] \in Seq(Char)
      /\ \A n \in 1 .. Len(s) :
            e[n] = IF s[n] \in {"lf", "cr"} THEN Append(Append(e[n - 1], "cr"), Second(s[n]))
                                            ELSE Append(e[n - 1], s[n])
  BY EncodingOf
<1> HIDE DEF e
\* Each encoding begins with the one before, and is longer.
<1>2. ASSUME NEW n \in 0 .. Len(s), n + 1 <= Len(s)
      PROVE  /\ Begins(e[n], e[n + 1])
             /\ Len(e[n]) < Len(e[n + 1])
             /\ s[n + 1] \in {"lf", "cr"} => /\ Begins(Append(e[n], "cr"), e[n + 1])
                                             /\ Len(e[n]) + 1 < Len(e[n + 1])
             /\ Append(e[n], "cr") \in Seq(Char)
  <2>1. n + 1 \in 1 .. Len(s) /\ (n + 1) - 1 = n
    BY <1>2
  <2>2. e[n] \in Seq(Char) /\ s[n + 1] \in Char /\ "cr" \in Char
    BY <1>1, <2>1 DEF Char
  <2> DEFINE a == e[n]  b == Append(a, "cr")  c == s[n + 1]
  <2>3. Second(c) \in Char
    BY DEF Second, Char
  <2>4. b \in Seq(Char) /\ Begins(a, b) /\ Len(b) = Len(a) + 1
    BY <2>2, BeginsAppend
  <2>5. CASE c \in {"lf", "cr"}
    <3>1. e[n + 1] = Append(b, Second(c))
      BY <1>1, <2>1, <2>5
    <3> HIDE DEF b
    <3>2. Begins(b, e[n + 1]) /\ e[n + 1] \in Seq(Char) /\ Len(e[n + 1]) = Len(b) + 1
      BY <2>3, <2>4, <3>1, BeginsAppend
    <3>3. Begins(a, e[n + 1])
      BY <2>2, <2>4, <3>2, BeginsTrans
    <3> HIDE DEF a, c
    <3>4. Len(a) \in Nat /\ Len(b) \in Nat
      BY <2>2, <2>4 DEF a
    <3>5. Len(a) < Len(e[n + 1]) /\ Len(a) + 1 < Len(e[n + 1])
      BY <2>4, <3>2, <3>4
    <3> QED
      BY <2>4, <3>2, <3>3, <3>5 DEF a, b, c
  <2>6. CASE c \notin {"lf", "cr"}
    <3>1. e[n + 1] = Append(a, c)
      BY <1>1, <2>1, <2>6
    <3>2. Begins(a, e[n + 1]) /\ Len(e[n + 1]) = Len(a) + 1 /\ Len(a) \in Nat
      BY <2>2, <3>1, BeginsAppend
    <3>3. Len(a) < Len(e[n + 1])
      BY <3>2
    <3> QED
      BY <2>4, <2>6, <3>2, <3>3
  <2> QED
    BY <2>5, <2>6
<1>3. 0 \in T
  BY <1>2
<1>4. ASSUME NEW d \in Nat, d \in T PROVE d + 1 \in T
  <2> DEFINE j == i + 1 + d
  <2>0. i + 1 + (d + 1) = j + 1
    OBVIOUS
  <2>1. SUFFICES ASSUME i + 1 + (d + 1) <= Len(s) PROVE P(j + 1)
    BY <2>0
  <2>2. j \in 0 .. Len(s) /\ j + 1 <= Len(s) /\ j + 1 \in 0 .. Len(s)
    BY <2>1
  <2>3. P(j)
    BY <1>4, <2>2
  <2> HIDE DEF j
  <2>4. /\ Begins(e[j], e[j + 1]) /\ Len(e[j]) < Len(e[j + 1])
        /\ e[i] \in Seq(Char) /\ e[j] \in Seq(Char) /\ e[j + 1] \in Seq(Char)
    BY <1>1, <1>2, <2>2
  <2>5. Append(e[i], "cr") \in Seq(Char)
    BY <2>4, BeginsAppend DEF Char
  <2>6. Begins(e[i], e[j + 1])
    BY <2>3, <2>4, BeginsTrans
  <2>7. s[i + 1] \in {"lf", "cr"} => Begins(Append(e[i], "cr"), e[j + 1])
    BY <2>3, <2>4, <2>5, BeginsTrans
  <2>8. Len(e[i]) \in Nat /\ Len(e[j]) \in Nat /\ Len(e[j + 1]) \in Nat
    BY <2>4
  <2> QED
    BY <2>3, <2>4, <2>6, <2>7, <2>8
<1> HIDE DEF T
<1>5. \A d \in Nat : d \in T
  BY <1>3, <1>4, SetInduction
<1>6. ASSUME NEW j \in i + 1 .. Len(s) PROVE P(j)
  <2>1. j - (i + 1) \in Nat /\ i + 1 + (j - (i + 1)) = j /\ j <= Len(s)
    OBVIOUS
  <2> QED
    BY <1>5, <2>1 DEF T
<1> QED
  BY <1>6 DEF e

-----------------------------------------------------------------------------
(* Netascii: the sender.                                                   *)

\* The states of a fill.
Fills == [pos : 0 .. MaxText, newline : BOOLEAN, prevchar : Char \cup {NoChar},
          buf : Seq(Char), eof : BOOLEAN]

\* One trip of the loop, if it is still running.
FillTrip(f, limit) == IF f.eof THEN f ELSE FillChar(f, limit)

\* f holds the first n trips of a fill.
FillLoop(f, s, limit, n) ==
    f = [i \in 0 .. n |-> IF i = 0 THEN FillBegin(s) ELSE FillTrip(f[i - 1], limit)]

\* The loop can make any number of trips ...
LEMMA FillRuns ==
    ASSUME NEW s, NEW limit
    PROVE  \A n \in Nat : \E f : FillLoop(f, s, limit, n)
<1> DEFINE T == {n \in Nat : \E f : FillLoop(f, s, limit, n)}
<1>1. 0 \in T
  <2>1. FillLoop([i \in 0 .. 0 |-> FillBegin(s)], s, limit, 0)
    BY DEF FillLoop
  <2> QED
    BY <2>1
<1>2. ASSUME NEW n \in Nat, n \in T PROVE n + 1 \in T
  <2>1. PICK f : FillLoop(f, s, limit, n)
    BY <1>2
  <2> DEFINE h == [i \in 0 .. n + 1 |-> IF i <= n THEN f[i] ELSE FillTrip(f[n], limit)]
  <2>2. ASSUME NEW i \in 0 .. n + 1
        PROVE  h[i] = IF i = 0 THEN FillBegin(s) ELSE FillTrip(h[i - 1], limit)
    <3>1. CASE i = 0
      BY <2>1, <3>1 DEF FillLoop
    <3>2. CASE i > 0 /\ i <= n
      BY <2>1, <3>2 DEF FillLoop
    <3>3. CASE i = n + 1
      BY <3>3
    <3> QED
      BY <3>1, <3>2, <3>3
  <2>3. FillLoop(h, s, limit, n + 1)
    BY <2>2 DEF FillLoop
  <2> QED
    BY <2>3
<1> HIDE DEF T
<1>3. \A n \in Nat : n \in T
  BY <1>1, <1>2, SetInduction
<1> QED
  BY <1>3 DEF T

\* ... and Fill makes SEGSIZE of them.
LEMMA FillSteps ==
    ASSUME NEW s, NEW limit
    PROVE  /\ Fill(s, limit)[0] = FillBegin(s)
           /\ \A i \in 1 .. SEGSIZE :
                 Fill(s, limit)[i] = FillTrip(Fill(s, limit)[i - 1], limit)
<1> DEFINE f == Fill(s, limit)
<1>1. f = CHOOSE h : FillLoop(h, s, limit, SEGSIZE)
  BY DEF Fill, FillLoop, FillTrip
<1>2. FillLoop(f, s, limit, SEGSIZE)
  <2>1. SEGSIZE \in Nat
    BY NetasciiAssumption
  <2> QED
    BY <1>1, <2>1, FillRuns, Zenon
<1> HIDE DEF f
<1>3. f[0] = FillBegin(s) /\ \A i \in 1 .. SEGSIZE : f[i] = FillTrip(f[i - 1], limit)
  BY <1>2, NetasciiAssumption DEF FillLoop
<1> QED
  BY <1>3 DEF f

\* What a fill has put on the wire after i trips, where w was there before.
FillOK(f, w, limit, i) ==
    /\ f \in Fills
    /\ f.pos <= limit
    /\ SenderAt(w \o f.buf, f)
    /\ ~f.eof => Len(f.buf) = i
    /\ f.eof => Len(f.buf) < i /\ ~f.newline /\ f.pos = limit

\* One character more in the buffer.
LEMMA ConcatAppend ==
    ASSUME NEW w \in Seq(Char), NEW b \in Seq(Char), NEW c \in Char
    PROVE  /\ w \o b \in Seq(Char)
           /\ Append(b, c) \in Seq(Char)
           /\ Len(Append(b, c)) = Len(b) + 1
           /\ w \o Append(b, c) = Append(w \o b, c)
OBVIOUS

\* A trip keeps what was sent the encoding of what was read.
LEMMA FillTripOK ==
    ASSUME text \in Seq(Char), Len(text) <= MaxText, NEW w \in Seq(Char),
           NEW limit \in 0 .. Len(text), NEW i \in Nat, NEW f, FillOK(f, w, limit, i)
    PROVE  FillOK(FillTrip(f, limit), w, limit, i + 1)
<1> DEFINE e == Encoding(text)
<1>1. /\ f \in Fills /\ f.pos \in Nat /\ f.pos <= limit
      /\ f.buf \in Seq(Char) /\ Len(f.buf) \in Nat /\ Len(text) \in Nat
  BY NetasciiAssumption DEF FillOK, Fills
<1>2. /\ \A n \in 0 .. Len(text) : e[n] \in Seq(Char)
      /\ \A n \in 1 .. Len(text) :
            e[n] = IF text[n] \in {"lf", "cr"}
                   THEN Append(Append(e[n - 1], "cr"), Second(text[n]))
                   ELSE Append(e[n - 1], text[n])
  BY EncodingOf
<1> HIDE DEF e
<1>3. /\ ~f.newline => w \o f.buf = e[f.pos]
      /\ f.newline => /\ f.pos > 0 /\ text[f.pos] \in {"lf", "cr"}
                      /\ w \o f.buf = Append(e[f.pos - 1], "cr")
                      /\ f.prevchar = text[f.pos]
  BY DEF FillOK, SenderAt, Encodes, e
<1>4. CASE f.eof
  <2>1. FillTrip(f, limit) = f
    BY <1>4 DEF FillTrip
  <2> QED
    BY <1>1, <1>4, <2>1 DEF FillOK
<1>5. CASE ~f.eof /\ f.newline
  <2> DEFINE c == Second(f.prevchar)
             b == Append(f.buf, c)
             t == [f EXCEPT !.buf = b, !.newline = FALSE]
  <2>1. FillTrip(f, limit) = t
    BY <1>5 DEF FillTrip, FillChar, Second
  <2>2. c \in Char
    BY DEF Second, Char
  <2> HIDE DEF c
  <2>3. /\ b \in Seq(Char) /\ Len(b) = Len(f.buf) + 1
        /\ w \o b = Append(w \o f.buf, c)
    BY <1>1, <2>2, ConcatAppend
  <2> HIDE DEF b
  <2>4. /\ t \in Fills /\ t.pos = f.pos /\ t.buf = b /\ ~t.newline /\ ~t.eof
        /\ t.prevchar = f.prevchar
    BY <1>1, <1>5, <2>3 DEF Fills
  <2>5. f.pos \in 1 .. Len(text)
    BY <1>1, <1>3, <1>5
  <2>6. w \o b = e[f.pos]
    BY <1>2, <1>3, <1>5, <2>3, <2>5 DEF c
  <2> HIDE DEF t
  <2>7. SenderAt(w \o t.buf, t)
    BY <2>4, <2>5, <2>6 DEF SenderAt, Encodes, e
  <2> QED
    BY <1>1, <1>5, <2>1, <2>3, <2>4, <2>7 DEF FillOK
<1>6. CASE ~f.eof /\ ~f.newline /\ f.pos = limit
  <2> DEFINE t == [f EXCEPT !.eof = TRUE]
  <2>1. getc(f, limit) = "eof"
    BY <1>1, <1>6 DEF getc
  <2>2. FillTrip(f, limit) = t
    BY <1>6, <2>1 DEF FillTrip, FillChar
  <2>3. /\ t \in Fills /\ t.pos = f.pos /\ t.buf = f.buf /\ ~t.newline /\ t.eof
        /\ t.prevchar = f.prevchar
    BY <1>1, <1>6 DEF Fills
  <2> HIDE DEF t
  <2>4. SenderAt(w \o t.buf, t)
    BY <1>1, <1>3, <1>6, <2>3 DEF SenderAt, Encodes, e
  <2> QED
    BY <1>1, <1>6, <2>2, <2>3, <2>4 DEF FillOK
<1>7. CASE ~f.eof /\ ~f.newline /\ f.pos # limit
  <2> DEFINE c == text[f.pos + 1]
             n == f.pos + 1
  <2>1. n \in 1 .. Len(text) /\ n <= limit /\ n - 1 = f.pos /\ n \in 0 .. MaxText
    BY <1>1, <1>7, NetasciiAssumption
  <2>2. c \in Char /\ getc(f, limit) = c /\ c # "eof"
    <3>1. text[n] \in Char
      BY <2>1
    <3>2. getc(f, limit) = c
      BY <1>1, <1>7 DEF getc
    <3> QED
      BY <3>1, <3>2 DEF Char
  <2>3. e[n] = IF c \in {"lf", "cr"} THEN Append(Append(e[f.pos], "cr"), Second(c))
                                     ELSE Append(e[f.pos], c)
    BY <1>2, <2>1
  <2>4. CASE c \in {"lf", "cr"}
    <3> DEFINE b == Append(f.buf, "cr")
               t == [f EXCEPT !.buf = b, !.pos = n, !.prevchar = c, !.newline = TRUE]
    <3>1. FillTrip(f, limit) = t
      BY <1>7, <2>2, <2>4 DEF FillTrip, FillChar
    <3>2. /\ b \in Seq(Char) /\ Len(b) = Len(f.buf) + 1
          /\ w \o b = Append(w \o f.buf, "cr")
      BY <1>1, ConcatAppend DEF Char
    <3> HIDE DEF b, c, n
    <3>3. /\ t \in Fills /\ t.pos = n /\ t.buf = b /\ t.newline /\ ~t.eof
          /\ t.prevchar = c
      BY <1>1, <1>7, <2>1, <2>2, <3>2 DEF Fills
    <3> HIDE DEF t
    <3>4. w \o b = Append(e[n - 1], "cr")
      BY <1>3, <1>7, <2>1, <3>2
    <3>5. c = text[n]
      BY DEF c, n
    <3>6. n > 0 /\ n \in 0 .. Len(text)
      BY <2>1
    <3>7. SenderAt(w \o t.buf, t)
      BY <2>4, <3>3, <3>4, <3>5, <3>6 DEF SenderAt, Encodes, e
    <3> QED
      BY <1>1, <1>7, <2>1, <3>1, <3>2, <3>3, <3>7 DEF FillOK
  <2>5. CASE c \notin {"lf", "cr"}
    <3> DEFINE b == Append(f.buf, c)
               t == [f EXCEPT !.buf = b, !.pos = n]
    <3>1. FillTrip(f, limit) = t
      BY <1>7, <2>2, <2>5 DEF FillTrip, FillChar
    <3>2. /\ b \in Seq(Char) /\ Len(b) = Len(f.buf) + 1
          /\ w \o b = Append(w \o f.buf, c)
      BY <1>1, <2>2, ConcatAppend
    <3> HIDE DEF b, c, n
    <3>3. /\ t \in Fills /\ t.pos = n /\ t.buf = b /\ ~t.newline /\ ~t.eof
      BY <1>1, <1>7, <2>1, <2>2, <3>2 DEF Fills
    <3> HIDE DEF t
    <3>4. w \o f.buf = e[f.pos] /\ n \in 0 .. Len(text)
      BY <1>3, <1>7, <2>1
    <3>5. e[n] = Append(e[f.pos], c)
      BY <2>3, <2>5
    <3>6. w \o b = e[n]
      BY <3>2, <3>4, <3>5, Zenon
    <3>7. SenderAt(w \o t.buf, t)
      BY <3>3, <3>4, <3>6 DEF SenderAt, Encodes, e
    <3> QED
      BY <1>1, <1>7, <2>1, <3>1, <3>2, <3>3, <3>7 DEF FillOK
  <2> QED
    BY <2>4, <2>5
<1> QED
  BY <1>4, <1>5, <1>6, <1>7

\* A block is filled with what the encoding goes on with; a short one is filled
\* by the last characters there are to read.
LEMMA read_aheadOK ==
    ASSUME text \in Seq(Char), Len(text) <= MaxText, NEW w \in Seq(Char),
           NEW s \in Sender, SenderAt(w, s), NEW limit \in s.pos .. Len(text)
    PROVE  FillOK(read_ahead(s, limit), w, limit, SEGSIZE)
<1> DEFINE f == Fill(s, limit)
           T == {i \in Nat : i <= SEGSIZE => FillOK(f[i], w, limit, i)}
<1>1. f[0] = FillBegin(s) /\ \A i \in 1 .. SEGSIZE : f[i] = FillTrip(f[i - 1], limit)
  BY FillSteps
<1>2. s.pos \in Nat /\ Len(text) \in Nat /\ limit \in 0 .. Len(text) /\ s.pos <= limit
  BY DEF Sender
<1> HIDE DEF f
<1>3. 0 \in T
  <2> DEFINE b == FillBegin(s)
  <2>1. /\ b \in Fills /\ b.pos = s.pos /\ b.newline = s.newline /\ b.buf = << >>
        /\ b.prevchar = s.prevchar /\ ~b.eof
    BY DEF FillBegin, Fills, Sender
  <2>2. w \o << >> = w
    OBVIOUS
  <2> HIDE DEF b
  <2>3. FillOK(b, w, limit, 0)
    BY <1>2, <2>1, <2>2 DEF FillOK, SenderAt
  <2> QED
    BY <1>1, <2>3 DEF b
<1>4. ASSUME NEW i \in Nat, i \in T PROVE i + 1 \in T
  <2>1. SUFFICES ASSUME i + 1 <= SEGSIZE PROVE FillOK(f[i + 1], w, limit, i + 1)
    OBVIOUS
  <2>2. i + 1 \in 1 .. SEGSIZE /\ (i + 1) - 1 = i /\ i <= SEGSIZE
    BY <2>1, NetasciiAssumption
  <2>3. f[i + 1] = FillTrip(f[i], limit) /\ FillOK(f[i], w, limit, i)
    BY <1>1, <1>4, <2>2
  <2> QED
    BY <1>2, <2>3, FillTripOK
<1> HIDE DEF T
<1>5. \A i \in Nat : i \in T
  BY <1>3, <1>4, SetInduction
<1>6. SEGSIZE \in T
  BY <1>5, NetasciiAssumption
<1> QED
  BY <1>6, NetasciiAssumption DEF T, f, read_ahead

\* A sequence without elements is empty.
LEMMA EmptyIs ==
    ASSUME NEW S, NEW s \in Seq(S)
    PROVE  Len(s) \in Nat /\ (s = << >> <=> Len(s) = 0)
OBVIOUS

\* The natural numbers up to two.
LEMMA Below ==
    ASSUME NEW n \in Nat
    PROVE  /\ n <= 2 => n = 0 \/ n = 1 \/ n = 2
           /\ n < 2 => n = 0 \/ n = 1
OBVIOUS

\* An element more.
LEMMA AppendIs ==
    ASSUME NEW S, NEW s \in Seq(S), NEW b \in S
    PROVE  /\ Append(s, b) \in Seq(S)
           /\ Len(Append(s, b)) = Len(s) + 1
           /\ Append(s, b)[Len(s) + 1] = b
           /\ \A i \in 1 .. Len(s) : Append(s, b)[i] = s[i] /\ s[i] \in S
OBVIOUS

\* The bytes in the queue are a sequence.
LEMMA PendingIs ==
    ASSUME queue \in Seq(Seq(Char)), Len(queue) <= 2
    PROVE  Pending \in Seq(Char)
<1> DEFINE S == Seq(Char)
<1>1. queue \in Seq(S) /\ Len(queue) <= 2
  OBVIOUS
<1> HIDE DEF S
<1>2. Len(queue) \in Nat /\ \A i \in 1 .. Len(queue) : queue[i] \in S
  BY <1>1
<1>3. CASE Len(queue) = 0
  <2>1. Pending = << >>
    BY <1>3 DEF Pending
  <2> QED
    BY <2>1
<1>4. CASE Len(queue) = 1
  <2>1. Pending = queue[1] /\ queue[1] \in S
    BY <1>2, <1>4 DEF Pending
  <2> QED
    BY <2>1 DEF S
<1>5. CASE Len(queue) = 2
  <2>1. Pending = queue[1] \o queue[2] /\ queue[1] \in S /\ queue[2] \in S
    BY <1>2, <1>5 DEF Pending
  <2> QED
    BY <2>1 DEF S
<1>6. Len(queue) = 0 \/ Len(queue) = 1 \/ Len(queue) = 2
  BY <1>1, <1>2, Below
<1> QED
  BY <1>3, <1>4, <1>5, <1>6

\* What the blocks of the queue hold, with a block b more.
LEMMA PendingGrows ==
    ASSUME queue \in Seq(Seq(Char)), Len(queue) < 2, NEW b \in Seq(Char),
           queue' = Append(queue, b)
    PROVE  Pending' = Pending \o b
<1> DEFINE S == Seq(Char)
<1>1. queue \in Seq(S) /\ b \in S
  OBVIOUS
<1> HIDE DEF S
<1>2. /\ Len(queue') = Len(queue) + 1 /\ queue'[Len(queue) + 1] = b
      /\ \A i \in 1 .. Len(queue) : queue'[i] = queue[i]
  BY <1>1, AppendIs
<1>3. Len(queue) \in Nat
  BY <1>1, EmptyIs
<1>4. CASE Len(queue) = 0
  <2>1. Pending = << >> /\ Pending' = b
    BY <1>2, <1>4 DEF Pending
  <2> QED
    BY <2>1
<1>5. CASE Len(queue) = 1
  <2>1. Len(queue') = 2 /\ queue'[1] = queue[1] /\ queue'[2] = b
    BY <1>2, <1>5
  <2>2. Pending = queue[1] /\ Pending' = queue'[1] \o queue'[2]
    BY <1>5, <2>1 DEF Pending
  <2> QED
    BY <2>1, <2>2
<1>6. Len(queue) = 0 \/ Len(queue) = 1
  BY <1>3, Below
<1> QED
  BY <1>4, <1>5, <1>6

\* If the queue ends what was sent, the rest was taken.
LEMMA TakenIs ==
    ASSUME NEW u \in Seq(Char), NEW v \in Seq(Char)
    PROVE  /\ SubSeq(u \o v, 1, Len(u \o v) - Len(v)) = u
           /\ u \o v \in Seq(Char)
<1>1. Len(u \o v) - Len(v) = Len(u) /\ u \o v \in Seq(Char)
  OBVIOUS
<1>2. SubSeq(u \o v, 1, Len(u)) = u
  OBVIOUS
<1> QED
  BY <1>1, <1>2

\* What was taken is a sequence of characters.
LEMMA TakenSeq ==
    ASSUME NATypeOK, Len(queue) <= 2
    PROVE  Taken \in Seq(Char) /\ Pending \in Seq(Char)
<1>1. Pending \in Seq(Char) /\ wire \in Seq(Char)
  BY PendingIs DEF NATypeOK
<1> QED
  BY <1>1 DEF Taken

\* Concatenation is associative.
LEMMA ConcatAssoc ==
    ASSUME NEW u \in Seq(Char), NEW v \in Seq(Char), NEW w \in Seq(Char)
    PROVE  u \o (v \o w) = (u \o v) \o w
OBVIOUS

\* A send keeps the invariant.
LEMMA SendBlockInv ==
    ASSUME NAInv, Len(text) <= MaxText, Len(queue) < 2, SendBlock
    PROVE  NAInv' /\ Len(text') <= MaxText
<1>1. /\ text \in Seq(Char) /\ snd \in Sender /\ queue \in Seq(Seq(Char))
      /\ wire \in Seq(Char) /\ rcv \in Receiver /\ SenderAt(wire, snd)
      /\ ~snd.done /\ ~snd.failed /\ ~rcv.done
      /\ Taken \in Seq(Char) /\ wire = Taken \o Pending /\ ReceiverAt(Taken, rcv)
      /\ \A i \in 1 .. Len(queue) :
            Len(queue[i]) < SEGSIZE <=> snd.done /\ i = Len(queue)
      /\ Len(queue) \in Nat /\ Len(text) \in Nat /\ Pending \in Seq(Char)
  BY TakenSeq, EmptyIs DEF NAInv, NATypeOK, SendBlock
<1>2. PICK limit \in snd.pos .. Len(text) :
          /\ limit < Len(text) => read_ahead(snd, limit).eof
          /\ snd' = [pos |-> read_ahead(snd, limit).pos,
                     newline |-> read_ahead(snd, limit).newline,
                     prevchar |-> read_ahead(snd, limit).prevchar,
                     done     |-> Len(read_ahead(snd, limit).buf) < SEGSIZE,
                     failed   |-> limit < Len(text)]
          /\ queue' = Append(queue, read_ahead(snd, limit).buf)
          /\ wire' = wire \o read_ahead(snd, limit).buf
  BY DEF SendBlock
<1> DEFINE f == read_ahead(snd, limit)
<1>3. FillOK(f, wire, limit, SEGSIZE)
  BY <1>1, <1>2, read_aheadOK
<1>4. text' = text /\ rcv' = rcv
  BY DEF SendBlock
<1> HIDE DEF f
<1>5. /\ f \in Fills /\ f.buf \in Seq(Char) /\ SenderAt(wire \o f.buf, f)
      /\ Len(f.buf) \in Nat /\ f.pos \in Nat
      /\ ~f.eof => Len(f.buf) = SEGSIZE
      /\ f.eof => Len(f.buf) < SEGSIZE /\ ~f.newline /\ f.pos = limit
  BY <1>3 DEF FillOK, Fills
<1>6. /\ snd' = [pos |-> f.pos, newline |-> f.newline, prevchar |-> f.prevchar,
                 done |-> Len(f.buf) < SEGSIZE, failed |-> limit < Len(text)]
      /\ queue' = Append(queue, f.buf) /\ wire' = wire \o f.buf
      /\ limit < Len(text) => f.eof
  BY <1>2 DEF f
<1>7. /\ snd'.pos = f.pos /\ snd'.newline = f.newline /\ snd'.prevchar = f.prevchar
      /\ snd'.done <=> Len(f.buf) < SEGSIZE
      /\ snd'.failed <=> limit < Len(text)
  BY <1>6
<1>8. snd'.done <=> f.eof
  BY <1>5, <1>7, NetasciiAssumption
<1>9. NATypeOK'
  <2>1. snd' \in Sender
    BY <1>5, <1>6 DEF Sender, Fills
  <2>2. queue' \in Seq(Seq(Char)) /\ wire' \in Seq(Char)
    BY <1>1, <1>5, <1>6
  <2> QED
    BY <1>1, <1>4, <2>1, <2>2 DEF NATypeOK
<1>10. SenderAt(wire, snd)'
  BY <1>4, <1>5, <1>6, <1>7 DEF SenderAt, Encodes
<1>11. /\ snd'.failed => snd'.done
       /\ snd'.done => ~snd'.newline
       /\ snd'.done /\ ~snd'.failed => snd'.pos = Len(text)
  BY <1>1, <1>2, <1>5, <1>6, <1>7, <1>8
<1>12. /\ Len(queue') = Len(queue) + 1 /\ Len(queue') <= 2
       /\ \A i \in 1 .. Len(queue) : queue'[i] = queue[i]
       /\ queue'[Len(queue) + 1] = f.buf
  BY <1>1, <1>5, <1>6
<1>13. ASSUME NEW i \in 1 .. Len(queue')
       PROVE  Len(queue'[i]) < SEGSIZE <=> snd'.done /\ i = Len(queue')
  <2>1. CASE i = Len(queue')
    BY <1>7, <1>12, <2>1
  <2>2. CASE i \in 1 .. Len(queue)
    BY <1>1, <1>12, <2>2
  <2> QED
    BY <1>1, <1>12, <2>1, <2>2
<1>14. Pending' = Pending \o f.buf
  BY <1>1, <1>5, <1>6, PendingGrows
<1>15. wire' = Taken \o Pending' /\ Pending' \in Seq(Char)
  <2>1. wire' = (Taken \o Pending) \o f.buf
    BY <1>1, <1>6
  <2>2. Taken \o (Pending \o f.buf) = (Taken \o Pending) \o f.buf
    BY <1>1, <1>5, <1>14, ConcatAssoc
  <2>3. Pending \o f.buf \in Seq(Char)
    BY <1>1, <1>5
  <2> QED
    BY <1>14, <2>1, <2>2, <2>3
<1>16. Taken' = Taken
  <2> DEFINE u == Taken  v == Pending'
  <2>1. u \in Seq(Char) /\ v \in Seq(Char) /\ wire' = u \o v
    BY <1>1, <1>15
  <2>2. Taken' = SubSeq(wire', 1, Len(wire') - Len(v))
    BY DEF Taken
  <2> HIDE DEF u, v
  <2>3. Taken' = u
    BY <2>1, <2>2, TakenIs
  <2> QED
    BY <2>3 DEF u
<1>17. ReceiverAt(Taken, rcv)'
  BY <1>1, <1>4, <1>16 DEF ReceiverAt, Encodes
<1> QED
  BY <1>1, <1>4, <1>9, <1>10, <1>11, <1>12, <1>13, <1>15, <1>16, <1>17 DEF NAInv

-----------------------------------------------------------------------------
(* Netascii: the receiver.                                                 *)

\* f holds the first n trips of the loop over buf.
PutLoop(f, r, buf, n) ==
    f = [i \in 0 .. n |-> IF i = 0 THEN r ELSE PutChar(f[i - 1], buf[i])]

\* The loop can make any number of trips ...
LEMMA PutRuns ==
    ASSUME NEW r, NEW buf
    PROVE  \A n \in Nat : \E f : PutLoop(f, r, buf, n)
<1> DEFINE T == {n \in Nat : \E f : PutLoop(f, r, buf, n)}
<1>1. 0 \in T
  <2>1. PutLoop([i \in 0 .. 0 |-> r], r, buf, 0)
    BY DEF PutLoop
  <2> QED
    BY <2>1
<1>2. ASSUME NEW n \in Nat, n \in T PROVE n + 1 \in T
  <2>1. PICK f : PutLoop(f, r, buf, n)
    BY <1>2
  <2> DEFINE h == [i \in 0 .. n + 1 |-> IF i <= n THEN f[i] ELSE PutChar(f[n], buf[n + 1])]
  <2>2. ASSUME NEW i \in 0 .. n + 1
        PROVE  h[i] = IF i = 0 THEN r ELSE PutChar(h[i - 1], buf[i])
    <3>1. CASE i = 0
      BY <2>1, <3>1 DEF PutLoop
    <3>2. CASE i > 0 /\ i <= n
      BY <2>1, <3>2 DEF PutLoop
    <3>3. CASE i = n + 1
      BY <3>3
    <3> QED
      BY <3>1, <3>2, <3>3
  <2>3. PutLoop(h, r, buf, n + 1)
    BY <2>2 DEF PutLoop
  <2> QED
    BY <2>3
<1> HIDE DEF T
<1>3. \A n \in Nat : n \in T
  BY <1>1, <1>2, SetInduction
<1> QED
  BY <1>3 DEF T

\* ... and Put makes one for each character of the block.
LEMMA PutSteps ==
    ASSUME NEW r, NEW buf \in Seq(Char)
    PROVE  /\ Put(r, buf)[0] = r
           /\ \A i \in 1 .. Len(buf) : Put(r, buf)[i] = PutChar(Put(r, buf)[i - 1], buf[i])
<1> DEFINE f == Put(r, buf)
<1>1. f = CHOOSE h : PutLoop(h, r, buf, Len(buf))
  BY DEF Put, PutLoop
<1>2. PutLoop(f, r, buf, Len(buf))
  <2>1. Len(buf) \in Nat
    OBVIOUS
  <2> QED
    BY <1>1, <2>1, PutRuns, Zenon
<1> HIDE DEF f
<1>3. f[0] = r /\ \A i \in 1 .. Len(buf) : f[i] = PutChar(f[i - 1], buf[i])
  BY <1>2 DEF PutLoop
<1> QED
  BY <1>3 DEF f

\* putc at the end of a file appends.
LEMMA putcAtEnd ==
    ASSUME NEW f \in Seq(Char), NEW c \in Char
    PROVE  SubSeq(f, 1, Len(f)) \o <<c>> \o SubSeq(f, Len(f) + 2, Len(f)) = Append(f, c)
<1>1. SubSeq(f, 1, Len(f)) = f
  OBVIOUS
<1>2. SubSeq(f, Len(f) + 2, Len(f)) = << >>
  OBVIOUS
<1>3. (f \o <<c>>) \o << >> = Append(f, c)
  OBVIOUS
<1> QED
  BY <1>1, <1>2, <1>3

\* One position before the end, putc replaces the last character.
LEMMA putcAtLast ==
    ASSUME NEW f \in Seq(Char), Len(f) > 0, NEW c \in Char,
           NEW h, h = SubSeq(f, 1, Len(f) - 1) \o <<c>> \o SubSeq(f, Len(f) + 1, Len(f))
    PROVE  /\ h \in Seq(Char) /\ Len(h) = Len(f) /\ h[Len(f)] = c
           /\ \A i \in 1 .. Len(f) - 1 : h[i] = f[i]
<1> DEFINE cut == SubSeq(f, 1, Len(f) - 1)
<1>1. cut \in Seq(Char) /\ Len(cut) = Len(f) - 1 /\ \A i \in 1 .. Len(f) - 1 : cut[i] = f[i]
  OBVIOUS
<1>2. SubSeq(f, Len(f) + 1, Len(f)) = << >>
  OBVIOUS
<1> HIDE DEF cut
<1>3. (cut \o <<c>>) \o << >> = Append(cut, c)
  BY <1>1
<1>4. h = Append(cut, c)
  BY <1>2, <1>3 DEF cut
<1> QED
  BY <1>1, <1>4

\* The byte that follows w in a sequence is one.
LEMMA NextByte ==
    ASSUME NEW w \in Seq(Char), NEW c \in Char, NEW d \in Char, NEW s \in Seq(Char),
           Begins(Append(w, c), s), Begins(Append(w, d), s)
    PROVE  c = d
<1>1. Len(w) \in Nat /\ Len(Append(w, c)) = Len(w) + 1 /\ Len(Append(w, d)) = Len(w) + 1
  OBVIOUS
<1>2. Append(w, c)[Len(w) + 1] = c /\ Append(w, d)[Len(w) + 1] = d
  OBVIOUS
<1>3. Len(w) + 1 \in 1 .. Len(Append(w, c)) /\ Len(w) + 1 \in 1 .. Len(Append(w, d))
  BY <1>1
<1>4. s[Len(w) + 1] = c /\ s[Len(w) + 1] = d
  BY <1>2, <1>3 DEF Begins
<1> QED
  BY <1>4

\* Every prefix's encoding begins the encoding of the text.
LEMMA EncodingBegins ==
    ASSUME NEW s \in Seq(Char), NEW n \in 0 .. Len(s)
    PROVE  /\ Begins(Encoding(s)[n], Encode(s))
           /\ Encoding(s)[n] \in Seq(Char) /\ Encode(s) \in Seq(Char)
<1>1. Len(s) \in Nat /\ Len(s) \in 0 .. Len(s)
  OBVIOUS
<1>2. Encoding(s)[n] \in Seq(Char) /\ Encode(s) \in Seq(Char)
  BY <1>1, EncodingOf DEF Encode
<1>3. CASE n = Len(s)
  <2>1. Encoding(s)[n] = Encode(s)
    BY <1>3 DEF Encode
  <2> QED
    BY <1>2, <2>1 DEF Begins
<1>4. CASE n # Len(s)
  <2>1. Len(s) \in n + 1 .. Len(s)
    BY <1>1, <1>4
  <2> QED
    BY <1>2, <2>1, EncodingGrows DEF Encode
<1> QED
  BY <1>3, <1>4

\* A character received: the file holds the text it stands for.
LEMMA PutCharOK ==
    ASSUME text \in Seq(Char), NEW w \in Seq(Char), NEW c \in Char, NEW r \in Receiver,
           ReceiverAt(w, r), Begins(Append(w, c), Encode(text))
    PROVE  /\ PutChar(r, c) \in Receiver
           /\ PutChar(r, c).done = r.done
           /\ ReceiverAt(Append(w, c), PutChar(r, c))
<1> DEFINE e == Encoding(text)
           f == r.file
           n == Len(f)
<1>1. /\ f \in Seq(Char) /\ n \in Nat /\ r.pos = n /\ n \in 0 .. Len(text)
      /\ Len(text) \in Nat /\ r.done \in BOOLEAN
      /\ \A i \in 1 .. n : f[i] = IF i = n /\ r.prevchar = "cr" THEN "cr" ELSE text[i]
      /\ r.prevchar # "cr" => w = e[n]
      /\ r.prevchar = "cr" => /\ n > 0 /\ text[n] \in {"lf", "cr"}
                              /\ w = Append(e[n - 1], "cr")
  BY DEF ReceiverAt, Encodes, Receiver
<1>2. /\ \A m \in 0 .. Len(text) : e[m] \in Seq(Char) /\ Begins(e[m], Encode(text))
      /\ \A m \in 1 .. Len(text) :
            e[m] = IF text[m] \in {"lf", "cr"}
                   THEN Append(Append(e[m - 1], "cr"), Second(text[m]))
                   ELSE Append(e[m - 1], text[m])
      /\ Encode(text) \in Seq(Char)
  BY EncodingOf, EncodingBegins
<1>3. \A x \in Char : Second(x) \in Char
  BY DEF Second, Char
<1> HIDE DEF e
\* The second half of a line end.
<1>4. CASE r.prevchar = "cr"
  <2>1. n \in 1 .. Len(text) /\ text[n] \in Char
    <3>1. n \in 1 .. Len(text)
      BY <1>1, <1>4
    <3> QED
      BY <3>1
  <2>2. e[n] = Append(w, Second(text[n])) /\ Begins(e[n], Encode(text))
    BY <1>1, <1>2, <1>4, <2>1
  <2>3. c = Second(text[n])
    BY <1>2, <1>3, <2>1, <2>2, NextByte
  <2>4. Append(w, c) = e[n]
    BY <2>2, <2>3
  <2>5. CASE text[n] = "lf"
    <3> DEFINE h == SubSeq(f, 1, n - 1) \o <<c>> \o SubSeq(f, n + 1, n)
               t == [r EXCEPT !.file = h, !.prevchar = c]
    <3>1. c = "lf"
      BY <2>3, <2>5 DEF Second
    <3>2. /\ h \in Seq(Char) /\ Len(h) = n /\ h[n] = c
          /\ \A i \in 1 .. n - 1 : h[i] = f[i]
      <4>1. h = SubSeq(f, 1, Len(f) - 1) \o <<c>> \o SubSeq(f, Len(f) + 1, Len(f))
        OBVIOUS
      <4>2. f \in Seq(Char) /\ Len(f) > 0
        BY <1>1, <1>4
      <4> HIDE DEF h, f
      <4> QED
        BY <4>1, <4>2, putcAtLast
    <3>3. PutChar(r, c) = t
      <4> DEFINE q == [r EXCEPT !.pos = @ - 1]
      <4>1. q.pos = n - 1 /\ q.file = f /\ (n - 1) + 2 = n + 1 /\ (n - 1) + 1 = n
        BY <1>1 DEF Receiver
      <4>2. putc(q, c) = [q EXCEPT !.file = h, !.pos = n]
        BY <4>1 DEF putc
      <4>3. PutChar(r, c) = [[q EXCEPT !.file = h, !.pos = n] EXCEPT !.prevchar = c]
        BY <1>4, <3>1, <4>2 DEF PutChar
      <4> HIDE DEF h
      <4> QED
        BY <1>1, <4>3 DEF Receiver
    <3> HIDE DEF h
    <3>4. /\ t \in Receiver /\ t.file = h /\ t.pos = n /\ t.prevchar = "lf"
          /\ t.done = r.done
      BY <1>1, <3>1, <3>2 DEF Receiver, Char
    <3> HIDE DEF t, f, n
    <3>5. \A i \in 1 .. n : h[i] = text[i]
      BY <1>1, <2>1, <2>5, <3>1, <3>2
    <3>6. ReceiverAt(Append(w, c), t)
      BY <1>1, <2>4, <3>2, <3>4, <3>5 DEF ReceiverAt, Encodes, e
    <3> QED
      BY <3>3, <3>4, <3>6
  <2>6. CASE text[n] = "cr"
    <3> DEFINE t == [r EXCEPT !.prevchar = c]
    <3>1. c = "nul"
      BY <2>3, <2>6 DEF Second
    <3>2. PutChar(r, c) = t
      BY <1>4, <3>1 DEF PutChar
    <3>3. /\ t \in Receiver /\ t.file = f /\ t.pos = n /\ t.prevchar = "nul"
          /\ t.done = r.done
      BY <1>1, <3>1 DEF Receiver, Char
    <3> HIDE DEF t, f, n
    <3>4. \A i \in 1 .. n : f[i] = text[i]
      BY <1>1, <1>4, <2>1, <2>6
    <3>5. ReceiverAt(Append(w, c), t)
      BY <1>1, <2>4, <3>3, <3>4 DEF ReceiverAt, Encodes, e, n
    <3> QED
      BY <3>2, <3>3, <3>5
  <2> QED
    BY <1>1, <1>4, <2>5, <2>6
\* A whole character, or the first half of a line end.
<1>5. CASE r.prevchar # "cr"
  <2> DEFINE d == text[n + 1]
             h == Append(f, c)
             t == [r EXCEPT !.file = h, !.pos = n + 1, !.prevchar = c]
  <2>1. n + 1 \in 1 .. Len(text)
    <3>1. n # Len(text)
      <4> SUFFICES ASSUME n = Len(text) PROVE FALSE
        OBVIOUS
      <4>1. w = Encode(text)
        BY <1>1, <1>5 DEF Encode, e
      <4>2. Len(Append(w, c)) <= Len(w)
        BY <4>1 DEF Begins
      <4> QED
        BY <4>2
    <3> QED
      BY <1>1, <3>1
  <2>2. d \in Char
    BY <2>1
  <2>3. /\ d \in {"lf", "cr"} => c = "cr"
        /\ d \notin {"lf", "cr"} => c = d /\ Append(w, c) = e[n + 1]
    <3>1. /\ d \in {"lf", "cr"} => e[n + 1] = Append(Append(w, "cr"), Second(d))
          /\ d \notin {"lf", "cr"} => e[n + 1] = Append(w, d)
      <4>1. (n + 1) - 1 = n /\ w = e[n]
        BY <1>1, <1>5
      <4> HIDE DEF n
      <4> QED
        BY <1>2, <2>1, <4>1
    <3>2. Begins(e[n + 1], Encode(text)) /\ e[n + 1] \in Seq(Char)
      BY <1>2, <2>1
    <3>3. CASE d \in {"lf", "cr"}
      <4>1. Append(w, "cr") \in Seq(Char) /\ "cr" \in Char /\ Second(d) \in Char
        BY <1>3, <2>2 DEF Char
      <4>2. Begins(Append(w, "cr"), e[n + 1])
        BY <3>1, <3>3, <4>1, BeginsAppend
      <4>3. Begins(Append(w, "cr"), Encode(text))
        BY <1>2, <3>2, <4>1, <4>2, BeginsTrans
      <4>4. c = "cr"
        BY <1>2, <4>1, <4>3, NextByte
      <4> QED
        BY <3>3, <4>4
    <3>4. CASE d \notin {"lf", "cr"}
      <4>1. c = d
        BY <1>2, <2>2, <3>1, <3>2, <3>4, NextByte
      <4> QED
        BY <3>1, <3>4, <4>1
    <3> QED
      BY <3>3, <3>4
  <2>4. PutChar(r, c) = t
    <3>1. h = SubSeq(f, 1, n) \o <<c>> \o SubSeq(f, n + 2, n)
      BY <1>1, putcAtEnd
    <3>2. putc(r, c) = [r EXCEPT !.file = h, !.pos = n + 1]
      BY <1>1, <3>1 DEF putc
    <3>3. PutChar(r, c) = [[r EXCEPT !.file = h, !.pos = n + 1] EXCEPT !.prevchar = c]
      BY <1>5, <3>2 DEF PutChar
    <3> HIDE DEF h
    <3> QED
      BY <3>3
  <2>5. /\ h \in Seq(Char) /\ Len(h) = n + 1 /\ h[n + 1] = c
        /\ \A i \in 1 .. n : h[i] = f[i]
    BY <1>1
  <2> HIDE DEF h, f, n
  <2>6. /\ t \in Receiver /\ t.file = h /\ t.pos = n + 1 /\ t.prevchar = c
        /\ t.done = r.done
    <3> DEFINE m == n + 1
    <3>1. m \in Nat /\ h \in Seq(Char)
      BY <1>1, <2>5
    <3> HIDE DEF m
    <3>2. [r EXCEPT !.file = h, !.pos = m, !.prevchar = c] \in Receiver
      BY <3>1 DEF Receiver
    <3> QED
      BY <3>2 DEF m, Receiver
  <2> HIDE DEF t
  <2>7. \A i \in 1 .. n : h[i] = text[i]
    BY <1>1, <1>5, <2>5
  <2>8. n \in Nat /\ n + 1 \in 0 .. Len(text) /\ n + 1 > 0 /\ (n + 1) - 1 = n
    BY <1>1, <2>1
  <2>9. CASE d \in {"lf", "cr"}
    <3>1. Encodes(Append(w, c), n + 1, TRUE)
      BY <1>1, <1>5, <2>3, <2>8, <2>9 DEF Encodes, e
    <3>2. \A i \in 1 .. n + 1 : h[i] = IF i = n + 1 THEN "cr" ELSE text[i]
      BY <2>3, <2>5, <2>7, <2>8, <2>9
    <3>3. ReceiverAt(Append(w, c), t)
      BY <2>3, <2>5, <2>6, <2>9, <3>1, <3>2 DEF ReceiverAt
    <3> QED
      BY <2>4, <2>6, <3>3
  <2>10. CASE d \notin {"lf", "cr"}
    <3>1. Encodes(Append(w, c), n + 1, FALSE)
      BY <2>3, <2>8, <2>10 DEF Encodes, e
    <3>2. \A i \in 1 .. n + 1 : h[i] = text[i]
      BY <2>3, <2>5, <2>7, <2>8, <2>10
    <3>3. ReceiverAt(Append(w, c), t)
      BY <2>3, <2>5, <2>6, <2>10, <3>1, <3>2 DEF ReceiverAt
    <3> QED
      BY <2>4, <2>6, <3>3
  <2> QED
    BY <2>9, <2>10
<1> QED
  BY <1>4, <1>5

\* The part of a sequence up to a character, and a concatenation up to it.
LEMMA ConcatUpTo ==
    ASSUME NEW w \in Seq(Char), NEW b \in Seq(Char), NEW i \in Nat, i + 1 <= Len(b)
    PROVE  /\ b[i + 1] \in Char
           /\ SubSeq(b, 1, i) \in Seq(Char)
           /\ w \o SubSeq(b, 1, i) \in Seq(Char)
           /\ w \o SubSeq(b, 1, i + 1) = Append(w \o SubSeq(b, 1, i), b[i + 1])
           /\ Begins(w \o SubSeq(b, 1, i + 1), w \o b)
<1> DEFINE u == SubSeq(b, 1, i)  v == SubSeq(b, 1, i + 1)
<1>1. b[i + 1] \in Char /\ i + 1 \in 1 .. Len(b) /\ Len(b) \in Nat
  OBVIOUS
<1>2. u \in Seq(Char) /\ Len(u) = i /\ \A k \in 1 .. i : u[k] = b[k]
  BY <1>1
<1>3. v \in Seq(Char) /\ Len(v) = i + 1 /\ \A k \in 1 .. i + 1 : v[k] = b[k]
  BY <1>1
<1>4. v = Append(u, b[i + 1])
  BY <1>1
<1> HIDE DEF u, v
<1>5. w \o u \in Seq(Char) /\ w \o v = Append(w \o u, b[i + 1])
  BY <1>1, <1>2, <1>4, ConcatAppend
<1>6. /\ Len(w \o v) = Len(w) + (i + 1) /\ Len(w \o b) = Len(w) + Len(b) /\ Len(w) \in Nat
      /\ \A k \in 1 .. Len(w) + (i + 1) :
            (w \o v)[k] = IF k <= Len(w) THEN w[k] ELSE v[k - Len(w)]
      /\ \A k \in 1 .. Len(w) + Len(b) :
            (w \o b)[k] = IF k <= Len(w) THEN w[k] ELSE b[k - Len(w)]
  BY <1>3
<1>7. Begins(w \o v, w \o b)
  <2>1. ASSUME NEW k \in 1 .. Len(w) + (i + 1) PROVE (w \o v)[k] = (w \o b)[k]
    <3>1. k \in 1 .. Len(w) + Len(b)
      BY <1>1, <1>6
    <3>2. CASE k <= Len(w)
      BY <1>6, <3>1, <3>2
    <3>3. CASE ~(k <= Len(w))
      <4>1. k - Len(w) \in 1 .. i + 1
        BY <1>6, <3>3
      <4> QED
        BY <1>3, <1>6, <3>1, <3>3, <4>1
    <3> QED
      BY <3>2, <3>3
  <2>2. Len(w \o v) <= Len(w \o b)
    BY <1>1, <1>6
  <2> QED
    BY <1>6, <2>1, <2>2 DEF Begins
<1> QED
  BY <1>1, <1>2, <1>5, <1>7 DEF u, v

\* A block received: the file holds the text it stands for, wherever the block
\* begins and ends.
LEMMA write_behindOK ==
    ASSUME text \in Seq(Char), NEW w \in Seq(Char), NEW b \in Seq(Char),
           NEW r \in Receiver, ReceiverAt(w, r), Begins(w \o b, Encode(text))
    PROVE  /\ write_behind(r, b) \in Receiver
           /\ ReceiverAt(w \o b, write_behind(r, b))
<1> DEFINE p == Put(r, b)
           P(i) == p[i] \in Receiver /\ ReceiverAt(w \o SubSeq(b, 1, i), p[i])
           T == {i \in Nat : i <= Len(b) => P(i)}
<1>1. p[0] = r /\ \A i \in 1 .. Len(b) : p[i] = PutChar(p[i - 1], b[i])
  BY PutSteps
<1>2. Len(b) \in Nat /\ Encode(text) \in Seq(Char) /\ w \o b \in Seq(Char)
  <2>1. 0 \in 0 .. Len(text)
    OBVIOUS
  <2> QED
    BY <2>1, EncodingBegins
<1> HIDE DEF p
<1>3. 0 \in T
  <2>1. w \o SubSeq(b, 1, 0) = w
    OBVIOUS
  <2> QED
    BY <1>1, <2>1
<1>4. ASSUME NEW i \in Nat, i \in T PROVE i + 1 \in T
  <2>1. SUFFICES ASSUME i + 1 <= Len(b) PROVE P(i + 1)
    OBVIOUS
  <2> DEFINE u == w \o SubSeq(b, 1, i)
             c == b[i + 1]
  <2>2. P(i)
    BY <1>2, <1>4, <2>1
  <2>3. p[i + 1] = PutChar(p[i], c)
    <3>1. i + 1 \in 1 .. Len(b) /\ (i + 1) - 1 = i
      BY <1>2, <2>1
    <3> QED
      BY <1>1, <3>1
  <2>4. /\ c \in Char /\ u \in Seq(Char)
        /\ w \o SubSeq(b, 1, i + 1) = Append(u, c)
        /\ Begins(Append(u, c), w \o b)
    BY <2>1, ConcatUpTo
  <2> HIDE DEF u, c
  <2>5. Append(u, c) \in Seq(Char)
    BY <2>4
  <2>6. Begins(Append(u, c), Encode(text))
    BY <1>2, <2>4, <2>5, BeginsTrans
  <2>7. PutChar(p[i], c) \in Receiver /\ ReceiverAt(Append(u, c), PutChar(p[i], c))
    BY <2>2, <2>4, <2>6, PutCharOK DEF u
  <2> QED
    BY <2>3, <2>4, <2>7
<1> HIDE DEF T
<1>5. \A i \in Nat : i \in T
  BY <1>3, <1>4, SetInduction
<1>6. P(Len(b))
  BY <1>2, <1>5 DEF T
<1>7. SubSeq(b, 1, Len(b)) = b
  OBVIOUS
<1> QED
  BY <1>6, <1>7 DEF write_behind, p

\* A sequence without its first element.
LEMMA TailIs ==
    ASSUME NEW S, NEW s \in Seq(S), Len(s) # 0
    PROVE  /\ Head(s) \in S /\ Head(s) = s[1] /\ Tail(s) \in Seq(S)
           /\ Len(Tail(s)) = Len(s) - 1
           /\ \A i \in 1 .. Len(Tail(s)) : Tail(s)[i] = s[i + 1]
           /\ \A i \in 1 .. Len(s) : s[i] \in S
OBVIOUS

\* An element of a sequence.
LEMMA ElementIs ==
    ASSUME NEW S, NEW s \in Seq(S), NEW i \in 1 .. Len(s)
    PROVE  s[i] \in S
OBVIOUS

\* A sequence of two.
LEMMA TwoIs ==
    ASSUME NEW S, NEW s \in Seq(S), Len(s) = 2
    PROVE  s[1] \in S /\ s[2] \in S /\ Tail(s)[1] = s[2] /\ Len(Tail(s)) = 1
<1>1. s[1] \in S /\ s[2] \in S
  <2>1. 1 \in 1 .. Len(s) /\ 2 \in 1 .. Len(s)
    OBVIOUS
  <2> QED
    BY <2>1, ElementIs, Zenon
<1>2. /\ Len(Tail(s)) = Len(s) - 1
      /\ \A i \in 1 .. Len(Tail(s)) : Tail(s)[i] = s[i + 1]
  BY TailIs
<1>3. Len(Tail(s)) = 1
  BY <1>2
<1>4. Tail(s)[1] = s[1 + 1]
  BY <1>2, <1>3
<1> QED
  BY <1>1, <1>3, <1>4

\* The first block leaves the queue.
LEMMA PendingShrinks ==
    ASSUME queue \in Seq(Seq(Char)), queue # << >>, Len(queue) <= 2,
           queue' = Tail(queue)
    PROVE  /\ Head(queue) \in Seq(Char) /\ Head(queue) = queue[1]
           /\ queue' \in Seq(Seq(Char)) /\ Len(queue') = Len(queue) - 1
           /\ Len(queue) \in 1 .. 2
           /\ \A i \in 1 .. Len(queue') : queue'[i] = queue[i + 1]
           /\ Pending = Head(queue) \o Pending'
           /\ Pending' \in Seq(Char)
<1> DEFINE S == Seq(Char)
<1>1. queue \in Seq(S) /\ Len(queue) \in Nat /\ Len(queue) # 0
  BY EmptyIs
<1> HIDE DEF S
<1>2. /\ Head(queue) \in S /\ Head(queue) = queue[1] /\ queue' \in Seq(S)
      /\ Len(queue') = Len(queue) - 1
      /\ \A i \in 1 .. Len(queue') : queue'[i] = queue[i + 1]
  BY <1>1, TailIs
<1>3. Len(queue) = 1 \/ Len(queue) = 2
  BY <1>1, Below
<1>4. CASE Len(queue) = 1
  <2>1. Len(queue') = 0
    BY <1>2, <1>4
  <2>2. Pending = queue[1] /\ Pending' = << >>
    BY <1>4, <2>1 DEF Pending
  <2>3. queue[1] \o << >> = queue[1] /\ << >> \in Seq(Char)
    BY <1>2 DEF S
  <2> QED
    BY <1>2, <1>4, <2>1, <2>2, <2>3 DEF S
<1>5. CASE Len(queue) = 2
  <2>1. queue[1] \in S /\ queue[2] \in S /\ queue'[1] = queue[2] /\ Len(queue') = 1
    BY <1>1, <1>5, TwoIs
  <2>2. Pending = queue[1] \o queue[2]
    BY <1>5 DEF Pending
  <2>3. Pending' = queue'[1]
    <3>1. 1 # 0
      OBVIOUS
    <3> QED
      BY <2>1, <3>1, Zenon DEF Pending
  <2> QED
    BY <1>2, <1>5, <2>1, <2>2, <2>3 DEF S
<1> QED
  BY <1>3, <1>4, <1>5

\* The encoding of a text's prefix is not one of another, and none ends with the
\* first half of a line end.
LEMMA EncodingUnique ==
    ASSUME text \in Seq(Char), NEW m \in 0 .. Len(text), NEW w, NEW n, NEW c,
           w = Encoding(text)[m], Encodes(w, n, c = "cr")
    PROVE  n = m /\ c # "cr"
<1> DEFINE e == Encoding(text)
           half == c = "cr"
           k == IF half THEN n - 1 ELSE n
<1>1. /\ n \in 0 .. Len(text) /\ Len(text) \in Nat /\ k \in 0 .. Len(text)
      /\ half => n > 0 /\ text[n] \in {"lf", "cr"} /\ w = Append(e[n - 1], "cr")
      /\ ~half => w = e[n]
  BY DEF Encodes
<1>2. e[m] \in Seq(Char) /\ e[k] \in Seq(Char)
  BY <1>1, EncodingOf
<1> HIDE DEF e
<1>3. /\ Len(e[m]) \in Nat /\ Len(e[k]) \in Nat
      /\ Len(e[m]) = IF half THEN Len(e[k]) + 1 ELSE Len(e[k])
  BY <1>1, <1>2 DEF e
<1>4. m < k => Len(e[m]) < Len(e[k])
  <2> SUFFICES ASSUME m < k PROVE Len(e[m]) < Len(e[k])
    OBVIOUS
  <2>1. k \in m + 1 .. Len(text)
    BY <1>1
  <2> QED
    BY <2>1, EncodingGrows DEF e
<1>5. k < m => /\ Len(e[k]) < Len(e[m])
               /\ half => Len(e[k]) + 1 < Len(e[m])
  <2> SUFFICES ASSUME k < m PROVE /\ Len(e[k]) < Len(e[m])
                                  /\ half => Len(e[k]) + 1 < Len(e[m])
    OBVIOUS
  <2>1. m \in k + 1 .. Len(text)
    BY <1>1
  <2>2. half => text[k + 1] \in {"lf", "cr"}
    BY <1>1
  <2> HIDE DEF k
  <2> QED
    BY <1>1, <2>1, <2>2, EncodingGrows DEF e
<1>6. m < k \/ k < m \/ m = k
  BY <1>1
<1>7. ~half /\ m = k
  BY <1>3, <1>4, <1>5, <1>6
<1> QED
  BY <1>7

\* What was sent begins the encoding of the text.
LEMMA SentBegins ==
    ASSUME text \in Seq(Char), NEW w, NEW s, SenderAt(w, s)
    PROVE  w \in Seq(Char) /\ Begins(w, Encode(text)) /\ Encode(text) \in Seq(Char)
<1>1. /\ s.pos \in 0 .. Len(text) /\ Len(text) \in Nat
      /\ ~s.newline => w = Encoding(text)[s.pos]
      /\ s.newline => /\ s.pos > 0 /\ text[s.pos] \in {"lf", "cr"}
                      /\ w = Append(Encoding(text)[s.pos - 1], "cr")
  BY DEF SenderAt, Encodes
<1>2. CASE ~s.newline
  BY <1>1, <1>2, EncodingBegins
<1>3. CASE s.newline
  <2> DEFINE n == s.pos - 1
  <2>1. n \in 0 .. Len(text) /\ Len(text) \in n + 1 .. Len(text) /\ n + 1 = s.pos
    BY <1>1, <1>3
  <2>2. Encoding(text)[n] \in Seq(Char) /\ Encode(text) \in Seq(Char)
    BY <2>1, EncodingBegins
  <2>3. Begins(Append(Encoding(text)[n], "cr"), Encoding(text)[Len(text)])
    <3> HIDE DEF n
    <3> QED
      BY <1>1, <1>3, <2>1, EncodingGrows
  <2>4. Append(Encoding(text)[n], "cr") \in Seq(Char)
    BY <2>2, BeginsAppend DEF Char
  <2> QED
    BY <1>1, <1>3, <2>2, <2>3, <2>4 DEF Encode
<1> QED
  BY <1>2, <1>3

\* The beginning of a concatenation.
LEMMA BeginsConcat ==
    ASSUME NEW u \in Seq(Char), NEW v \in Seq(Char)
    PROVE  Begins(u, u \o v)
BY DEF Begins

\* A block received keeps the invariant.
LEMMA ReceiveBlockInv ==
    ASSUME NAInv, ReceiveBlock
    PROVE  NAInv'
<1> DEFINE b == Head(queue)
           r == write_behind(rcv, b)
<1>1. /\ text \in Seq(Char) /\ snd \in Sender /\ queue \in Seq(Seq(Char))
      /\ wire \in Seq(Char) /\ rcv \in Receiver /\ SenderAt(wire, snd)
      /\ wire = Taken \o Pending /\ ReceiverAt(Taken, rcv)
      /\ queue # << >> /\ Len(queue) <= 2
      /\ \A i \in 1 .. Len(queue) :
            Len(queue[i]) < SEGSIZE <=> snd.done /\ i = Len(queue)
  BY DEF NAInv, NATypeOK, ReceiveBlock
<1>2. /\ text' = text /\ snd' = snd /\ wire' = wire /\ queue' = Tail(queue)
      /\ rcv' = [r EXCEPT !.done = Len(b) < SEGSIZE]
  BY DEF ReceiveBlock
<1>3. Taken \in Seq(Char) /\ Pending \in Seq(Char)
  BY <1>1, TakenSeq DEF NAInv
<1>4. /\ b \in Seq(Char) /\ b = queue[1] /\ queue' \in Seq(Seq(Char))
      /\ Len(queue') = Len(queue) - 1 /\ Len(queue) \in 1 .. 2
      /\ \A i \in 1 .. Len(queue') : queue'[i] = queue[i + 1]
      /\ Pending = b \o Pending' /\ Pending' \in Seq(Char)
  BY <1>1, <1>2, PendingShrinks
<1> HIDE DEF b
<1>5. /\ wire = (Taken \o b) \o Pending' /\ Taken \o b \in Seq(Char)
      /\ Begins(Taken \o b, wire)
  <2>1. Taken \o (b \o Pending') = (Taken \o b) \o Pending'
    BY <1>3, <1>4, ConcatAssoc
  <2>2. Taken \o b \in Seq(Char)
    BY <1>3, <1>4
  <2>3. Begins(Taken \o b, (Taken \o b) \o Pending')
    BY <1>4, <2>2, BeginsConcat
  <2> QED
    BY <1>1, <1>4, <2>1, <2>2, <2>3
<1>6. Taken' = Taken \o b
  <2> DEFINE u == Taken \o b  v == Pending'
  <2>1. u \in Seq(Char) /\ v \in Seq(Char) /\ wire' = u \o v
    BY <1>2, <1>4, <1>5
  <2>2. Taken' = SubSeq(wire', 1, Len(wire') - Len(v))
    BY DEF Taken
  <2> HIDE DEF u, v
  <2>3. Taken' = u
    BY <2>1, <2>2, TakenIs
  <2> QED
    BY <2>3 DEF u
<1>7. r \in Receiver /\ ReceiverAt(Taken \o b, r)
  <2>1. Begins(wire, Encode(text)) /\ Encode(text) \in Seq(Char)
    BY <1>1, SentBegins
  <2>2. Begins(Taken \o b, Encode(text))
    BY <1>1, <1>5, <2>1, BeginsTrans
  <2> QED
    BY <1>1, <1>3, <1>4, <2>2, write_behindOK
<1> HIDE DEF r
<1>8. /\ rcv' \in Receiver /\ rcv'.file = r.file /\ rcv'.pos = r.pos
      /\ rcv'.prevchar = r.prevchar
      /\ rcv'.done <=> Len(b) < SEGSIZE
  <2> DEFINE short == Len(b) < SEGSIZE
  <2>1. short \in BOOLEAN /\ rcv' = [r EXCEPT !.done = short]
    BY <1>2
  <2> HIDE DEF short
  <2>2. /\ rcv' \in Receiver /\ rcv'.file = r.file /\ rcv'.pos = r.pos
        /\ rcv'.prevchar = r.prevchar /\ rcv'.done = short
    BY <1>7, <2>1 DEF Receiver
  <2> QED
    BY <2>2 DEF short
<1>9. ReceiverAt(Taken, rcv)'
  <2>1. ReceiverAt(Taken \o b, rcv')
    BY <1>7, <1>8 DEF ReceiverAt
  <2> QED
    BY <1>2, <1>6, <2>1 DEF ReceiverAt, Encodes
<1>10. NATypeOK'
  BY <1>1, <1>2, <1>4, <1>8 DEF NATypeOK
<1>11. SenderAt(wire, snd)'
  BY <1>1, <1>2 DEF SenderAt, Encodes
<1>12. /\ Len(queue') <= 2
       /\ \A i \in 1 .. Len(queue') :
             Len(queue'[i]) < SEGSIZE <=> snd'.done /\ i = Len(queue')
  <2> DEFINE n == Len(queue)  m == Len(queue')
  <2>1. n \in 1 .. 2 /\ m = n - 1
    BY <1>4
  <2>2. ASSUME NEW i \in 1 .. m
        PROVE  Len(queue'[i]) < SEGSIZE <=> snd'.done /\ i = m
    <3>1. queue'[i] = queue[i + 1]
      BY <1>4
    <3>2. Len(queue[i + 1]) < SEGSIZE <=> snd.done /\ i + 1 = n
      <4> HIDE DEF n, m
      <4>1. i + 1 \in 1 .. n
        BY <2>1
      <4> QED
        BY <1>1, <4>1 DEF n
    <3>3. i + 1 = n <=> i = m
      <4> HIDE DEF n, m
      <4> QED
        BY <2>1
    <3> QED
      BY <1>2, <3>1, <3>2, <3>3
  <2>3. m <= 2
    <3> HIDE DEF n, m
    <3> QED
      BY <2>1
  <2> QED
    BY <2>2, <2>3
<1>13. rcv'.done => snd'.done /\ queue' = << >>
  <2> SUFFICES ASSUME rcv'.done PROVE snd.done /\ queue' = << >>
    BY <1>2
  <2> DEFINE n == Len(queue)
  <2>1. 1 \in 1 .. n
    <3>1. n \in 1 .. 2
      BY <1>4
    <3> HIDE DEF n
    <3> QED
      BY <3>1
  <2>2. snd.done /\ 1 = n
    BY <1>1, <1>4, <1>8, <2>1
  <2>3. Len(queue') = 0
    <3>1. Len(queue') = n - 1
      BY <1>4
    <3> HIDE DEF n
    <3> QED
      BY <2>2, <3>1
  <2> QED
    BY <1>4, <2>2, <2>3, EmptyIs
<1>14. /\ snd'.failed => snd'.done
       /\ snd'.done => ~snd'.newline
       /\ snd'.done /\ ~snd'.failed => snd'.pos = Len(text')
  BY <1>2 DEF NAInv
<1>15. wire' = Taken' \o Pending'
  BY <1>2, <1>5, <1>6
<1> QED
  BY <1>9, <1>10, <1>11, <1>12, <1>13, <1>14, <1>15 DEF NAInv

\* The sender and the receiver start at the beginning of the text.
LEMMA NAInitInv == NAInit => NAInv /\ Len(text) <= MaxText
<1> SUFFICES ASSUME NAInit PROVE NAInv /\ Len(text) <= MaxText
  OBVIOUS
<1>1. PICK n \in 0 .. MaxText : text \in [1 .. n -> Char]
  BY DEF NAInit
<1>2. text \in Seq(Char) /\ Len(text) = n /\ n \in Nat /\ n <= MaxText
  BY <1>1, NetasciiAssumption
<1>3. /\ snd = [pos |-> 0, newline |-> FALSE, prevchar |-> NoChar,
                done |-> FALSE, failed |-> FALSE]
      /\ queue = << >> /\ wire = << >>
      /\ rcv = [prevchar |-> NoChar, file |-> << >>, pos |-> 0, done |-> FALSE]
  BY DEF NAInit
<1>4. NATypeOK
  <2>1. snd \in Sender
    BY <1>3, NetasciiAssumption DEF Sender
  <2>2. rcv \in Receiver
    BY <1>3 DEF Receiver
  <2>3. queue \in Seq(Seq(Char)) /\ wire \in Seq(Char)
    BY <1>3
  <2> QED
    BY <1>2, <2>1, <2>2, <2>3 DEF NATypeOK
<1>5. Encoding(text)[0] = << >> /\ 0 \in 0 .. Len(text)
  BY <1>2, EncodingOf
<1>6. SenderAt(wire, snd)
  BY <1>3, <1>5 DEF SenderAt, Encodes
<1>7. Len(queue) = 0 /\ Pending = << >> /\ Taken = << >>
  BY <1>3 DEF Pending, Taken
<1>8. ReceiverAt(Taken, rcv)
  <2>1. /\ rcv.file = << >> /\ Len(rcv.file) = 0 /\ rcv.pos = 0 /\ rcv.prevchar # "cr"
    BY <1>3 DEF NoChar
  <2> QED
    BY <1>5, <1>7, <2>1 DEF ReceiverAt, Encodes
<1>9. wire = Taken \o Pending
  BY <1>3, <1>7
<1> QED
  BY <1>2, <1>3, <1>4, <1>6, <1>7, <1>8, <1>9 DEF NAInv

\* What is on the wire and in the file follows the text, wherever blocks end:
\* the sender's newline and prevchar, and the receiver's prevchar, say exactly
\* how the last line end was cut.
THEOREM NAInvariance == NASpec => []NAInv
<1> DEFINE I == NAInv /\ Len(text) <= MaxText
<1>1. NAInit => I
  BY NAInitInv
<1>2. I /\ [NANext]_naVars => I'
  <2> SUFFICES ASSUME I, [NANext]_naVars PROVE I'
    OBVIOUS
  <2>1. CASE Len(queue) < 2 /\ SendBlock
    BY <2>1, SendBlockInv
  <2>2. CASE ReceiveBlock
    <3>1. text' = text
      BY <2>2 DEF ReceiveBlock
    <3> QED
      BY <2>2, <3>1, ReceiveBlockInv
  <2>3. CASE UNCHANGED naVars
    BY <2>3 DEF naVars, NAInv, NATypeOK, SenderAt, ReceiverAt, Encodes, Taken, Pending
  <2> QED
    BY <2>1, <2>2, <2>3 DEF NANext
<1> QED
  BY <1>1, <1>2, PTL DEF NASpec

\* read_ahead and write_behind only make characters and flags of their types.
THEOREM NATypeCorrect == NASpec => []NATypeOK
<1>1. NAInv => NATypeOK
  BY DEF NAInv
<1> QED
  BY <1>1, NAInvariance, PTL

\* The wire holds the encoding of the file for texts and blocks of any length: no
\* block border drops, doubles or tears a line end.
THEOREM WireEncoded == NASpec => []WireIsEncoding
<1>1. NAInv => WireIsEncoding
  <2> SUFFICES ASSUME NAInv PROVE WireIsEncoding
    OBVIOUS
  <2>1. text \in Seq(Char) /\ SenderAt(wire, snd)
    BY DEF NAInv, NATypeOK
  <2>2. wire \in Seq(Char) /\ Begins(wire, Encode(text)) /\ Encode(text) \in Seq(Char)
    BY <2>1, SentBegins
  <2>3. IsPrefix(wire, Encode(text))
    BY <2>2, BeginsIsPrefix
  <2>4. snd.done /\ ~snd.failed => wire = Encode(text)
    BY <2>1 DEF NAInv, SenderAt, Encodes, Encode
  <2> QED
    BY <2>3, <2>4 DEF WireIsEncoding
<1> QED
  BY <1>1, NAInvariance, PTL

\* The receiver's file is the sender's text so far, and the whole text when both
\* are done, for texts and blocks of any length; a failed read cuts it after a
\* whole character.
THEOREM TextArrives == NASpec => []FileIsText
<1>1. NAInv => FileIsText
  <2> SUFFICES ASSUME NAInv PROVE FileIsText
    OBVIOUS
  <2> DEFINE f == rcv.file
             n == Len(f)
             half == rcv.prevchar = "cr"
  <2>1. /\ text \in Seq(Char) /\ f \in Seq(Char) /\ n \in Nat /\ Len(text) \in Nat
        /\ rcv.pos = n /\ Encodes(Taken, n, half) /\ n <= Len(text) /\ n \in 0 .. Len(text)
        /\ half => n > 0 /\ text[n] \in {"lf", "cr"}
        /\ \A i \in 1 .. n : f[i] = IF i = n /\ half THEN "cr" ELSE text[i]
    BY DEF NAInv, NATypeOK, Receiver, ReceiverAt, Encodes
  <2>2. \A i \in 1 .. n :
           \/ f[i] = text[i]
           \/ i = n /\ half /\ f[i] = "cr" /\ text[i] = "lf"
    BY <2>1
  <2>3. ASSUME rcv.done PROVE n = snd.pos /\ ~half
    <3>1. snd.done /\ queue = << >> /\ ~snd.newline /\ wire = Taken \o Pending
      BY <2>3 DEF NAInv
    <3>2. Len(queue) = 0
      BY <3>1
    <3>3. Pending = << >> /\ Taken \in Seq(Char)
      BY <3>2, TakenSeq DEF Pending, NAInv
    <3>4. wire = Taken
      BY <3>1, <3>3
    <3>5. snd.pos \in 0 .. Len(text) /\ Taken = Encoding(text)[snd.pos]
      BY <3>1, <3>4 DEF NAInv, SenderAt, Encodes
    <3>6. text \in Seq(Char) /\ Encodes(Taken, n, rcv.prevchar = "cr")
      BY <2>1
    <3> HIDE DEF n
    <3>7. n = snd.pos /\ rcv.prevchar # "cr"
      BY <3>5, <3>6, EncodingUnique, Zenon
    <3> QED
      BY <3>7
  <2>4. rcv.done => IsPrefix(f, text)
    <3> SUFFICES ASSUME rcv.done PROVE IsPrefix(f, text)
      OBVIOUS
    <3>1. \A i \in 1 .. n : f[i] = text[i]
      BY <2>1, <2>3
    <3>2. Begins(f, text)
      BY <2>1, <3>1 DEF Begins
    <3> QED
      BY <2>1, <3>2, BeginsIsPrefix
  <2>5. rcv.done /\ ~snd.failed => f = text
    <3> SUFFICES ASSUME rcv.done, ~snd.failed PROVE f = text
      OBVIOUS
    <3>1. snd.done /\ snd.pos = Len(text)
      BY DEF NAInv
    <3>2. n = Len(text) /\ \A i \in 1 .. n : f[i] = text[i]
      BY <2>1, <2>3, <3>1
    <3> QED
      BY <2>1, <3>2
  <2> QED
    BY <2>1, <2>2, <2>4, <2>5 DEF FileIsText
<1> QED
  BY <1>1, NAInvariance, PTL

=============================================================================
