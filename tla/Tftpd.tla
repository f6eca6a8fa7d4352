------------------------------- MODULE Tftpd -------------------------------
(***************************************************************************)
(* How tftpd takes requests: main, tftp and validate_access of             *)
(* tftpd/tftpd.c, from a datagram in inetd's socket to the open file.      *)
(*                                                                         *)
(* inetd runs tftpd in "wait" mode: one main at a time reads the socket,   *)
(* forks a child for the request and exits.  The children run side by      *)
(* side, on one file; the transfers themselves are Download and Upload.    *)
(*                                                                         *)
(* A datagram is [from, size, op, name, mode].  Names stand for the cases  *)
(* of validate_access: relative, absolute below a directory of dirs,       *)
(* absolute elsewhere, with a ".." component.                              *)
(***************************************************************************)
EXTENDS Integers, Sequences

CONSTANTS
    Datagrams,    \* the datagrams that may arrive
    Children,     \* process slots for children (fork fails without one)
    User,         \* the user inetd runs tftpd as: "root" or "nobody"
    MaxQueue,     \* bound: datagrams queued in the socket
    MaxArrivals,  \* bound: datagrams that arrive
    MaxAdmin      \* bound: changes the administrator makes to the file

Ops   == {"RRQ", "WRQ", "other", "empty"}     \* "empty": a datagram of no bytes
Names == {"f", "/dirs/f", "/f", "../f"}
Modes == {"known", "unknown", "cut"}          \* "cut": its final NUL is missing

ASSUME DatagramsAssumption ==
    /\ \A d \in Datagrams : /\ d.size \in Nat /\ d.op \in Ops
                            /\ d.name \in Names /\ d.mode \in Modes
                            /\ (d.size = 0) = (d.op = "empty")
    /\ User \in {"root", "nobody"}

ASSUME BoundsAssumption == {MaxQueue, MaxArrivals, MaxAdmin} \subseteq Nat

VARIABLES
    flags,    \* options of the command line: n (suppress_naks), s (secure_tftp)
    queue,    \* datagrams in the socket that inetd passes as descriptor 0
    main,     \* the tftpd that holds the socket
    child,    \* the forked tftpds
    file,     \* the file that all names which are allowed lead to
    arrived, changes   \* how many datagrams have come, changes were made

vars == <<flags, queue, main, child, file, arrived, changes>>

\* World-readable, world-writable, owner, and whose content it is.
Absent     == [exists |-> FALSE, r |-> FALSE, w |-> FALSE, owner |-> "none", content |-> "none"]
Orig(r, w) == [exists |-> TRUE, r |-> r, w |-> w, owner |-> "admin", content |-> "orig"]
Installed  == {Absent} \cup {Orig(r, w) : r, w \in BOOLEAN}

NoMain   == [pc |-> "none", i |-> 0]
NoChild  == [pc |-> "free"]

Init == /\ flags \in [n : BOOLEAN, s : BOOLEAN]
        /\ queue = << >>
        /\ main = NoMain
        /\ child = [c \in Children |-> NoChild]
        /\ file \in Installed
        /\ arrived = 0
        /\ changes = 0

-----------------------------------------------------------------------------
(* The surroundings.                                                       *)

\* A datagram reaches the socket.
Arrive == /\ arrived < MaxArrivals
          /\ Len(queue) < MaxQueue
          /\ \E d \in Datagrams : queue' = Append(queue, d)
          /\ arrived' = arrived + 1
          /\ UNCHANGED <<flags, main, child, file, changes>>

\* The administrator installs, replaces, chmods or removes the file.
Admin == /\ changes < MaxAdmin
         /\ file' \in Installed \ {file}
         /\ changes' = changes + 1
         /\ UNCHANGED <<flags, queue, main, child, arrived>>

-----------------------------------------------------------------------------
(* main, as long as it holds the socket.                                   *)

\* inetd starts main, which receives the first datagram.  mixed is a ghost:
\* from was overwritten by a datagram that left buf as it was.
MainStart == /\ main.pc = "none"
             /\ queue # << >>
             /\ main' = [pc |-> "fork", i |-> 1, buf |-> Head(queue),
                         from |-> Head(queue).from, mixed |-> FALSE]
             /\ queue' = Tail(queue)
             /\ UNCHANGED <<flags, child, file, arrived, changes>>

\* fork succeeds: the child has the request, main exits.
ForkOk == /\ main.pc = "fork"
          /\ \E c \in Children :
                /\ child[c].pc = "free"
                /\ child' = [child EXCEPT ![c] =
                      [pc |-> "start", buf |-> main.buf, from |-> main.from,
                       mixed |-> main.mixed, uid |-> User, naked |-> FALSE]]
          /\ main' = NoMain
          /\ UNCHANGED <<flags, queue, file, arrived, changes>>

\* fork fails: main sleeps.
ForkFails == /\ main.pc = "fork"
             /\ main' = [main EXCEPT !.pc = "sleep"]
             /\ UNCHANGED <<flags, queue, child, file, arrived, changes>>

\* Mutant of Again: the loop has no end.
AgainUnbounded(m, i) == [m EXCEPT !.pc = "fork", !.i = i + 1]

\* The next trip of the loop, or the end of main after a failed fork.
Again(m, i) == IF i + 1 < 20 THEN [m EXCEPT !.pc = "fork", !.i = i + 1] ELSE NoMain

\* Mutant of Taken: from is kept from the first request.
TakenKeepsFrom(m, d) == Again([m EXCEPT !.buf = IF d.size > 0 THEN d ELSE @], d.size)

\* A datagram taken in the loop replaces the request.  recvfrom writes from
\* whatever the size; the size, not the number of trips, is what counts on.
Taken(m, d) == Again([m EXCEPT !.buf   = IF d.size > 0 THEN d ELSE @,
                               !.from  = d.from,
                               !.mixed = IF d.size > 0 THEN FALSE
                                         ELSE @ \/ d.from # m.buf.from], d.size)

\* Mutant of Flush: k is not set to the size of from, and recvfrom fails.
FlushFails == /\ main.pc = "sleep"
              /\ main' = Again(main, -1)
              /\ UNCHANGED <<flags, queue, child, file, arrived, changes>>

\* After the sleep: recvfrom takes a datagram or returns -1.
Flush == /\ main.pc = "sleep"
         /\ \/ /\ queue # << >>
               /\ main' = Taken(main, Head(queue))
               /\ queue' = Tail(queue)
            \/ /\ queue = << >>
               /\ main' = Again(main, -1)
               /\ UNCHANGED queue
         /\ UNCHANGED <<flags, child, file, arrived, changes>>

-----------------------------------------------------------------------------
(* A child.                                                                *)

\* nak and exit.
Nak(c)  == child' = [child EXCEPT ![c].pc = "end", ![c].naked = TRUE]
\* exit without a word.
Exit(c) == child' = [child EXCEPT ![c].pc = "end"]

\* Mutant of DropRoot: the check after setuid is missing.
DropRootUnchecked(u) == IF u = "root" THEN {"nobody", "root"} ELSE {u}

\* Become nobody.  When there is no such user main stays root, notices, and
\* exits ("none").
DropRoot(u) == IF u = "root" THEN {"nobody", "none"} ELSE {u}

\* A name is looked up in the first directory: it is relative, or -s is given
\* and it loses its leading slashes.
InFirstDir(d) == d.name = "f" \/ flags.s

\* The names that lead to the file.  Otherwise the request is refused: the
\* directories do not match, there is a "..", or (with -s, under which
\* /dirs/f is dirs/f below the first directory) there is no such path.
Prefixed(d) == d.name = "f" \/ d.name = (IF flags.s THEN "/f" ELSE "/dirs/f")

\* From fork to stat: privileges, the socket, the opcode, the mode (by chance
\* a NUL stands behind one that is cut), the directory and the name.
ChildStart(c) ==
    LET d == child[c].buf
    IN  /\ child[c].pc = "start"
        /\ \/ Exit(c)                        \* still root; socket or bind fails
           \/ d.op \in {"RRQ", "WRQ"} /\ d.mode # "known" /\ Nak(c)
           \/ d.op \in {"RRQ", "WRQ"} /\ ~Prefixed(d) /\ Nak(c)
           \/ d.op \in {"RRQ", "WRQ"} /\ InFirstDir(d) /\ Nak(c)    \* chdir fails
           \/ /\ d.op \in {"RRQ", "WRQ"}
              /\ d.mode # "unknown"
              /\ Prefixed(d)
              /\ \E u \in DropRoot(child[c].uid) \ {"none"} :
                    child' = [child EXCEPT ![c].pc = "stat", ![c].uid = u]
        /\ UNCHANGED <<flags, queue, main, file, arrived, changes>>

\* ENOTFOUND is not sent for a relative name under -n.
NotFound(c) == IF flags.n /\ child[c].buf.name = "f" THEN Exit(c) ELSE Nak(c)

\* stat: without the file, a read is refused, and a write goes on with
\* whatever is in stbuf.  A file must be public.
ChildStat(c) ==
    LET d == child[c].buf
    IN  /\ child[c].pc = "stat"
        /\ \/ ~file.exists /\ d.op = "RRQ" /\ NotFound(c)
           \/ /\ file.exists \/ d.op = "WRQ"
              /\ \E bits \in IF file.exists THEN {file} ELSE {Orig(b, b) : b \in BOOLEAN} :
                    IF (d.op = "RRQ" /\ bits.r) \/ (d.op = "WRQ" /\ bits.w)
                    THEN child' = [child EXCEPT ![c].pc = "open"]
                    ELSE Nak(c)
        /\ UNCHANGED <<flags, queue, main, file, arrived, changes>>

\* What the kernel lets user u do with the file (external).
Permits(u, op) == \/ u = "root"
                  \/ file.owner = u
                  \/ op = "RRQ" /\ file.r
                  \/ op = "WRQ" /\ file.w

\* open: a file to be written is truncated, and created when there is none.
Opened(u) == IF file.exists
             THEN [file EXCEPT !.content = "tftpd"]
             ELSE [exists |-> TRUE, r |-> FALSE, w |-> FALSE, owner |-> u, content |-> "tftpd"]

ChildOpen(c) ==
    LET op == child[c].buf.op
        u  == child[c].uid
    IN  /\ child[c].pc = "open"
        /\ \/ Nak(c) /\ UNCHANGED file       \* open fails, or fdopen of a read
           \/ /\ op = "RRQ" /\ file.exists /\ Permits(u, op)
              /\ child' = [child EXCEPT ![c].pc = "serve"]
              /\ UNCHANGED file
           \/ /\ op = "WRQ" /\ (file.exists => Permits(u, op))
              /\ \/ child' = [child EXCEPT ![c].pc = "serve"]
                 \/ Nak(c)                  \* fdopen fails: the file is open
              /\ file' = Opened(u)
        /\ UNCHANGED <<flags, queue, main, arrived, changes>>

\* The transfer ends (Download, Upload).
ChildServe(c) == /\ child[c].pc = "serve"
                 /\ Exit(c)
                 /\ UNCHANGED <<flags, queue, main, file, arrived, changes>>

\* The process is gone.
ChildEnd(c) == /\ child[c].pc = "end"
               /\ child' = [child EXCEPT ![c] = NoChild]
               /\ UNCHANGED <<flags, queue, main, file, arrived, changes>>

ChildStep(c) == \/ ChildStart(c) \/ ChildStat(c) \/ ChildOpen(c)
                \/ ChildServe(c) \/ ChildEnd(c)

Next == \/ Arrive
        \/ Admin
        \/ MainStart
        \/ ForkOk
        \/ ForkFails
        \/ Flush
        \/ \E c \in Children : ChildStep(c)

Spec == Init /\ [][Next]_vars

\* inetd and the processes keep running.  Nothing is assumed of fork, which
\* may fail for ever.
FairSpec == /\ Spec
            /\ WF_vars(MainStart)
            /\ WF_vars(Flush)
            /\ WF_vars(ForkOk \/ ForkFails)
            /\ \A c \in Children : WF_vars(ChildStep(c))

-----------------------------------------------------------------------------
Senders == {d.from : d \in Datagrams}

MainState == [pc : {"fork", "sleep"}, i : 0 .. 19, buf : Datagrams,
              from : Senders, mixed : BOOLEAN]

ChildState == [pc : {"start", "stat", "open", "serve", "end"}, buf : Datagrams,
               from : Senders, mixed : BOOLEAN, uid : {"root", "nobody"},
               naked : BOOLEAN]

FileState == [exists : BOOLEAN, r : BOOLEAN, w : BOOLEAN,
              owner : {"none", "admin", "nobody"}, content : {"none", "orig", "tftpd"}]

\* Everything is of its type; in the loop of main the counter is below 20,
\* and no file belongs to root.
TypeOK ==
    /\ flags \in [n : BOOLEAN, s : BOOLEAN]
    /\ queue \in Seq(Datagrams) /\ Len(queue) <= MaxQueue
    /\ main = NoMain \/ main \in MainState
    /\ child \in [Children -> {NoChild} \cup ChildState]
    /\ file \in FileState
    /\ arrived \in Nat /\ changes \in Nat

\* Whatever a child sends, the first block, an ACK or an error, goes to the
\* client whose request is in buf: main replaces the request and its sender
\* together when it flushes the socket between two forks.  (Not after a
\* datagram without any bytes, for which recvfrom sets from and not buf.)
AnswersSender ==
    \A c \in Children :
       /\ child[c].pc # "free"
       /\ child[c].pc \in {"stat", "open", "serve"} \/ child[c].naked
       /\ ~child[c].mixed
       => child[c].from = child[c].buf.from

\* No child overwrites a file of the administrator that is not publicly
\* writable, not even one that is installed or chmod'ed between its stat and
\* its open: the check of validate_access and the loss of root together.
PrivateUntouched ==
    [][file.content = "orig" /\ file'.content = "tftpd" => file.w]_vars

\* Why these hold: the inductive invariant.  The request and its sender stay
\* together in main and in every child; a child that has come to stat is no
\* longer root; and what the administrator wrote is the administrator's.
Together(m) == ~m.mixed => m.from = m.buf.from

ChildOK(k) == /\ Together(k)
              /\ k.pc \in {"stat", "open", "serve"} => k.uid = "nobody"

FileOK(f) == f.content = "orig" => f.exists /\ f.owner = "admin"

Inv == /\ TypeOK
       /\ main # NoMain => Together(main)
       /\ \A c \in Children : child[c] # NoChild => ChildOK(child[c])
       /\ FileOK(file)

\* tftpd(8): "Files may be written only if they already exist".  (stbuf is
\* used although stat failed.)
NeverCreates ==
    [][~file.exists /\ file'.exists => file'.content # "tftpd"]_vars

\* Every datagram is read from the socket in the end, by the main that holds
\* it or by one that inetd starts: neither forks that fail for ever nor the
\* counter that recvfrom overwrites keep main from the next recvfrom.
DatagramsRead ==
    \A k \in 1 .. MaxArrivals : arrived >= k ~> arrived - Len(queue) >= k

\* tftpd.c: "Thus, inetd will go back to listening to the tftp port": main
\* lets go of the socket.  (With the socket empty and fork failing on, the
\* counter starts over at every trip.)
MainEnds == main.pc # "none" ~> main.pc = "none"

=============================================================================
