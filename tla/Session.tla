------------------------------ MODULE Session ------------------------------
(***************************************************************************)
(* A session of the tftp client: the command interpreter of tftp/main.c    *)
(* with several transfers on one socket.  Of the transfers of tftp.c (see  *)
(* Download and PutClient) it keeps what outlives them: the socket, from,  *)
(* the signal handler and the alarm, the two jump buffers, and the packets *)
(* on their way to the socket.                                             *)
(*                                                                         *)
(* A transfer that ends, well or with an error, calls initsock and so gets *)
(* rid of its packets; one that is left by siglongjmp(toplevel), because   *)
(* it timed out or the user interrupted it, does not.                      *)
(*                                                                         *)
(* An argument of get and put is [host, name]: host is None for a name     *)
(* without a colon.  Words are tuples of letters.                          *)
(***************************************************************************)
EXTENDS Integers, Sequences, SequencesExt

CONSTANTS
    Hosts,       \* hosts that can be named
    Family(_),   \* the address family of a host
    GetArgs,     \* argument lists of get
    PutArgs,     \* argument lists of put
    Words,       \* command words typed
    Blocks,      \* data blocks in every file
    MaxLate,     \* packets on their way to the client at one time
    Rexmts, Timeouts   \* values typed for rexmt and timeout

None == "none"
TIMEOUT == 1    \* seconds between retransmissions

cmdtab == << <<"c", "o", "n", "n", "e", "c", "t">>, <<"m", "o", "d", "e">>,
             <<"p", "u", "t">>, <<"g", "e", "t">>, <<"q", "u", "i", "t">>,
             <<"v", "e", "r", "b", "o", "s", "e">>, <<"t", "r", "a", "c", "e">>,
             <<"s", "t", "a", "t", "u", "s">>, <<"b", "i", "n", "a", "r", "y">>,
             <<"a", "s", "c", "i", "i">>, <<"r", "e", "x", "m", "t">>,
             <<"t", "i", "m", "e", "o", "u", "t">>, <<"?">> >>

\* The commands by their place in cmdtab.
connect  == 1
mode_    == 2
put      == 3
get      == 4
quit     == 5
verbose  == 6
trace    == 7
status   == 8
binary   == 9
ascii    == 10
rexmt    == 11
timeout_ == 12
help     == 13

\* An argument: a name, and the host before its colon.
Argument == [host : Hosts \cup {None}, name : STRING]

ASSUME SessionAssumption ==
    /\ Blocks \in Nat \ {0} /\ MaxLate \in Nat \ {0}
    /\ Rexmts \subseteq Int /\ Timeouts \subseteq Int
    /\ None \notin Hosts
    /\ Words \subseteq Seq(STRING)
    /\ \A args \in GetArgs \cup PutArgs :
          /\ args \in Seq(Argument)
          /\ Len(args) >= 1

VARIABLES
    pc,      \* prompt, dispatch, files, initsock, send, wait, exited
    cmd,     \* the command and the word it was called by
    conn,    \* connected and s_inn (the host)
    sock,    \* f: whether it is open, its family; stale: ghost, a transfer was
             \* left, or initsock, by siglongjmp since it was opened
    vals,    \* mode, rexmtval, maxtimeout
    job,     \* the get or put command in progress: arguments and place
    tr,      \* the transfer in progress
    sig,     \* SIGALRM: alarm running, handler; jmp: timeoutbuf is this transfer's
    net      \* packets on their way to f

vars == <<pc, cmd, conn, sock, vals, job, tr, sig, net>>

NoJob == [op |-> None, args |-> << >>, n |-> 0, found |-> FALSE]
NoTr  == [op |-> None]
Nobody == [op |-> None, host |-> None, name |-> None]
NoCmd == [c |-> 0, word |-> << >>]

Init == /\ pc = "prompt"
        /\ cmd = NoCmd
        /\ conn = [connected |-> FALSE, host |-> None]
        /\ sock = [open |-> FALSE, family |-> None, stale |-> FALSE]
        /\ vals = [mode |-> "netascii", rexmtval |-> TIMEOUT, maxtimeout |-> 5 * TIMEOUT]
        /\ job = NoJob
        /\ tr = NoTr
        /\ sig = [alarm |-> FALSE, handler |-> "default", jmp |-> FALSE]
        /\ net = {}

-----------------------------------------------------------------------------
(* The command interpreter.                                                *)

\* Mutant of getcmd: the first command that begins with the word.
FirstMatch(w) == LET m == {c \in DOMAIN cmdtab : IsPrefix(w, cmdtab[c])}
                 IN  IF m = {} THEN 0 ELSE Min(m)

\* One trip of the loop of getcmd: s is what was found before command c.
Compare(w, s, c) ==
    CASE s.exact # 0 -> s
      [] s.exact = 0 /\ cmdtab[c] = w -> [s EXCEPT !.exact = c]
      [] s.exact = 0 /\ cmdtab[c] # w /\ IsPrefix(w, cmdtab[c]) ->
            IF Len(w) > s.longest
            THEN [s EXCEPT !.longest = Len(w), !.nmatches = 1, !.found = c]
            ELSE [s EXCEPT !.nmatches = @ + 1]
      [] OTHER -> s

\* What is found after each command of cmdtab.
Search(w) ==
    LET after[c \in 0 .. Len(cmdtab)] ==
            IF c = 0 THEN [exact |-> 0, longest |-> 0, nmatches |-> 0, found |-> 0]
            ELSE Compare(w, after[c - 1], c)
    IN  after

\* The command with this name, or the only one that begins with it; 0 for an
\* invalid word and -1 for an ambiguous one.  All matches have the length of
\* the word, so longest selects nothing.
getcmd(w) ==
    LET r == Search(w)[Len(cmdtab)]
    IN  IF r.exact # 0 THEN r.exact ELSE IF r.nmatches > 1 THEN -1 ELSE r.found

\* A line is read; ambiguous and invalid words change nothing.
Type(w) == /\ pc = "prompt"
           /\ getcmd(w) \in DOMAIN cmdtab
           /\ cmd' = [c |-> getcmd(w), word |-> w]
           /\ pc' = "dispatch"
           /\ UNCHANGED <<conn, sock, vals, job, tr, sig, net>>

\* End of file at the prompt, or quit.
Quit == /\ \/ pc = "prompt"
           \/ pc = "dispatch" /\ cmd.c = quit
        /\ pc' = "exited"
        /\ cmd' = NoCmd
        /\ UNCHANGED <<conn, sock, vals, job, tr, sig, net>>

\* A handler is called, and returns to the prompt.
Handles(c) == pc = "dispatch" /\ cmd.c = c /\ cmd' = NoCmd
ToPrompt   == pc' = "prompt" /\ job' = NoJob /\ tr' = NoTr

\* verbose, trace, status and help print or change what is printed.
Prints == /\ \E c \in {verbose, trace, status, help} : Handles(c)
          /\ ToPrompt
          /\ UNCHANGED <<conn, sock, vals, sig, net>>

\* mode, ascii and binary; mode with a word it does not know changes nothing.
SetMode == /\ \/ Handles(mode_) /\ vals' \in {[vals EXCEPT !.mode = m] : m \in {"netascii", "octet"}}
              \/ Handles(mode_) /\ UNCHANGED vals
              \/ Handles(binary) /\ vals' = [vals EXCEPT !.mode = "octet"]
              \/ Handles(ascii) /\ vals' = [vals EXCEPT !.mode = "netascii"]
           /\ ToPrompt
           /\ UNCHANGED <<conn, sock, sig, net>>

\* Mutant of SetTimes: rexmt takes any value.
SetTimesUnchecked == /\ Handles(rexmt)
                     /\ \E t \in Rexmts : vals' = [vals EXCEPT !.rexmtval = t]
                     /\ ToPrompt
                     /\ UNCHANGED <<conn, sock, sig, net>>

\* rexmt and timeout: any value but a negative one (a word is 0 to strtol).
SetTimes == /\ \/ /\ Handles(rexmt)
                  /\ \E t \in Rexmts : vals' = IF t < 0 THEN vals ELSE [vals EXCEPT !.rexmtval = t]
               \/ /\ Handles(timeout_)
                  /\ \E t \in Timeouts : vals' = IF t < 0 THEN vals ELSE [vals EXCEPT !.maxtimeout = t]
            /\ ToPrompt
            /\ UNCHANGED <<conn, sock, sig, net>>

-----------------------------------------------------------------------------
(* Peers and sockets.                                                      *)

\* Mutant of SetHost: the socket of the last host is kept.
SetHostKeepsSocket(h) == /\ conn' = [connected |-> TRUE, host |-> h]
                         /\ pc' = IF job'.op = None THEN "prompt" ELSE "files"

\* getaddrinfo has found the host: s_inn and connected, then initsock.
SetHost(h) == /\ conn' = [connected |-> TRUE, host |-> h]
              /\ pc' = "initsock"

\* connect host [port]: a host that is not found leaves the client
\* unconnected, wrong usage as it was.
setpeer ==
    /\ Handles(connect)
    /\ UNCHANGED <<sock, vals, job, tr, sig, net>>
    /\ \/ \E h \in Hosts : SetHost(h)
       \/ pc' = "prompt" /\ conn' \in {conn, [conn EXCEPT !.connected = FALSE]}

-----------------------------------------------------------------------------
(* get and put: one transfer after the other.                              *)

\* recvfile or sendfile begins: a new signal handler, from = s_inn.
Begin(op, name) ==
    /\ pc' = "send"
    /\ tr' = [op |-> op, me |-> [op |-> op, host |-> conn.host, name |-> name],
              from |-> Nobody, block |-> 1, requested |-> FALSE, timeout |-> 0,
              clean |-> ~sock.stale]
    /\ sig' = [sig EXCEPT !.handler = "timer", !.jmp = FALSE]

\* get host:rfile lfile or get rfile lfile: the second name is the local one.
OneFile(args, n) == Len(args) = 1 \/ (Len(args) = 2 /\ n = 1 /\ args[2].host = None)

Job(op, args) == [op |-> op, args |-> args, n |-> 1, found |-> FALSE]

\* Without a host every argument has to name one.
Get == /\ Handles(get)
       /\ \E args \in GetArgs :
             IF ~conn.connected /\ \E k \in DOMAIN args : args[k].host = None
             THEN pc' = "prompt" /\ UNCHANGED job
             ELSE pc' = "files" /\ job' = Job("get", args)
       /\ UNCHANGED <<conn, sock, vals, tr, sig, net>>

\* The host of the target is looked up once, before the first file; a file
\* that names one too is a mistake (putusage).
Put == /\ Handles(put)
       /\ \E args \in PutArgs :
             LET h     == Last(args).host
                 usage == \E k \in 1 .. Len(args) - 1 : args[k].host # None
             IN  \/ h # None /\ ~usage /\ job' = Job("put", args) /\ SetHost(h)
                 \/ h # None /\ pc' = "prompt" /\ UNCHANGED <<job, conn>>  \* usage, not found
                 \/ /\ h = None
                    /\ IF conn.connected THEN pc' = "files" /\ job' = Job("put", args)
                       ELSE pc' = "prompt" /\ UNCHANGED job
                    /\ UNCHANGED conn
       /\ UNCHANGED <<sock, vals, tr, sig, net>>

\* Files of the command: the last argument of put with several is a directory.
NFiles == IF job.op = "put" /\ Len(job.args) > 2 THEN Len(job.args) - 1
          ELSE IF job.op = "put" THEN 1 ELSE Len(job.args)

\* On to the next argument.
NextFile == pc' = "files" /\ job' = [job EXCEPT !.n = @ + 1, !.found = FALSE]

\* The host of the next argument of get.  When it is not found the argument is
\* passed over, even if the one behind it is the name of the local file.
GetHost ==
    LET a == job.args[job.n]
    IN  /\ pc = "files" /\ job.op = "get" /\ job.n <= NFiles
        /\ a.host # None /\ ~job.found
        /\ \/ job' = [job EXCEPT !.found = TRUE] /\ SetHost(a.host)
           \/ /\ pc' = "files"
              /\ job' = [job EXCEPT !.n = @ + 1]
              /\ UNCHANGED conn
        /\ UNCHANGED <<cmd, sock, vals, tr, sig, net>>

\* The next file of get.  When the local file cannot be created get ends, or
\* goes on to the next argument if it has several files.
GetFile ==
    LET a == job.args[job.n]
    IN  /\ pc = "files" /\ job.op = "get" /\ job.n <= NFiles
        /\ a.host = None \/ job.found
        /\ \/ Begin("get", a.name) /\ UNCHANGED job
           \/ OneFile(job.args, job.n) /\ ToPrompt /\ UNCHANGED sig
           \/ ~OneFile(job.args, job.n) /\ NextFile /\ UNCHANGED <<tr, sig>>
        /\ UNCHANGED <<cmd, conn, sock, vals, net>>

\* The next file of put; one that cannot be opened is left out.
PutFile ==
    LET name == IF Len(job.args) > 2 THEN job.args[job.n].name ELSE Last(job.args).name
    IN  /\ pc = "files" /\ job.op = "put" /\ job.n <= NFiles
        /\ UNCHANGED <<cmd, conn, sock, vals, net>>
        /\ \/ Begin("put", name) /\ UNCHANGED job
           \/ NextFile /\ UNCHANGED <<tr, sig>>

FilesDone == /\ pc = "files" /\ job.n > NFiles
             /\ ToPrompt
             /\ UNCHANGED <<cmd, conn, sock, vals, sig, net>>

\* recvfile or sendfile returns to get or put.
AfterTransfer ==
    IF job.op = "get" /\ OneFile(job.args, job.n)
    THEN ToPrompt
    ELSE NextFile /\ tr' = NoTr

\* initsock(af): close, socket and bind, for a host just found or at the end of
\* a transfer (from then has the family of the host); packets on their way to
\* the old socket have nowhere to go.  When socket or bind fails the program
\* ends.
initsock ==
    /\ pc = "initsock"
    /\ \/ /\ sock' = [open |-> TRUE, family |-> Family(conn.host), stale |-> FALSE]
          /\ net' = {}
          /\ CASE tr # NoTr -> AfterTransfer
               [] tr = NoTr /\ job # NoJob -> pc' = "files" /\ UNCHANGED <<job, tr>>
               [] tr = NoTr /\ job = NoJob -> ToPrompt
       \/ pc' = "exited" /\ UNCHANGED <<sock, net, job, tr>>
    /\ UNCHANGED <<cmd, conn, vals, sig>>

-----------------------------------------------------------------------------
(* A transfer.  A packet is the server that sent it (by the request it      *)
(* serves) and the block it is about; block 0 stands for an ERROR.  A put  *)
(* counts its request as block 1, a get its first DATA.                    *)

Packet(of, k) == [of |-> of, k |-> k]
NoPacket == Packet(Nobody, 0)
LastBlock(op) == IF op = "get" THEN Blocks ELSE Blocks + 1

\* What comes back when transfer t sends its current packet: the request, to
\* the port of the host, is answered by a new server, or refused; an ACK or
\* DATA packet by the server it goes to, with whatever that is serving.  A
\* request resent to a server that has spoken before is ignored by it.
Replies(t) ==
    CASE ~t.requested /\ t.from = Nobody -> {Packet(t.me, 0), Packet(t.me, 1)}
      [] ~t.requested /\ t.from # Nobody -> {NoPacket}
      [] OTHER -> {Packet(t.from, t.block)}

\* A packet more on its way: with MaxLate of them the others are lost.
Underway(r) == CASE r = NoPacket -> net
                 [] r # NoPacket /\ Cardinality(net \cup {r}) <= MaxLate -> net \cup {r}
                 [] OTHER -> {r}

\* Mutant of Ends: the socket stays open for the next transfer.
EndsOnOldSocket == AfterTransfer /\ sig' = [sig EXCEPT !.alarm = FALSE]

\* The end of recvfile and sendfile, also after an ERROR, a failed sendto, and
\* an error of the local file: initsock.
Ends == /\ pc' = "initsock"
        /\ sig' = [sig EXCEPT !.alarm = FALSE]
        /\ UNCHANGED <<job, tr>>

\* sendto, after sigsetjmp(timeoutbuf), and alarm(rexmtval).  It fails on a
\* socket that is closed or of another family, and may fail on any.
Send ==
    /\ pc = "send"
    /\ \/ /\ sock.open /\ sock.family = Family(conn.host)
          /\ pc' = "wait"
          /\ \E r \in Replies(tr) : net' = Underway(r)
          /\ sig' = [sig EXCEPT !.alarm = vals.rexmtval > 0, !.jmp = TRUE]
          /\ UNCHANGED <<job, tr>>
       \/ Ends /\ UNCHANGED net
    /\ UNCHANGED <<cmd, conn, sock, vals>>

\* A packet is received: whoever sent it is from now on the peer.  The block
\* waited for ends the transfer or sends the next packet, the one before sends
\* the last packet again, and any other is dropped.
Receive(p) ==
    LET t == [tr EXCEPT !.from = p.of]
        sendNext(u) == pc' = "send" /\ tr' = u /\ sig' = [sig EXCEPT !.alarm = FALSE]
                          /\ UNCHANGED job
    IN  /\ pc = "wait"
        /\ net' = net \ {p}
        /\ \/ p.k = 0 /\ Ends
           \/ p.k = tr.block /\ p.k = LastBlock(tr.op) /\ Ends
           \/ /\ p.k = tr.block /\ p.k # LastBlock(tr.op)
              /\ sendNext([t EXCEPT !.block = @ + 1, !.requested = TRUE, !.timeout = 0])
           \/ p.k # 0 /\ p.k = tr.block - 1 /\ sendNext(t)
           \/ /\ p.k \notin {0, tr.block, tr.block - 1}
              /\ tr' = t
              /\ UNCHANGED <<pc, job, sig>>
        /\ UNCHANGED <<cmd, conn, sock, vals>>

\* siglongjmp(toplevel): back to the prompt, past all that was to be done.
\* Inside initsock f may have been closed.
Toplevel == /\ ToPrompt
            /\ cmd' = NoCmd
            /\ \E open \in BOOLEAN :
                  /\ sock' = [sock EXCEPT !.open = open,
                              !.stale = @ \/ pc \in {"initsock", "send", "wait"}]
                  /\ (pc = "initsock" /\ ~open) \/ open = sock.open
            /\ UNCHANGED <<conn, vals, net>>

\* Mutant of Elapsed: the time of the packets before is forgotten.
ElapsedOnce(t) == vals.rexmtval

\* The time a transfer has waited for an answer, with the alarm that fired.
Elapsed(t) == t.timeout + vals.rexmtval

\* SIGALRM while the program waits: give up, or send the packet again.  When it
\* comes between recvfrom and alarm(0), from is that of a packet thrown away.
Timer == /\ pc = "wait" /\ sig.alarm /\ sig.handler = "timer"
         /\ IF Elapsed(tr) >= vals.maxtimeout
            THEN Toplevel /\ sig' = [sig EXCEPT !.alarm = FALSE]
            ELSE /\ pc' = "send"
                 /\ \E from \in {tr.from} \cup {p.of : p \in net} :
                       tr' = [tr EXCEPT !.timeout = Elapsed(tr), !.from = from]
                 /\ sig' = [sig EXCEPT !.alarm = FALSE]
                 /\ UNCHANGED <<cmd, conn, sock, vals, job, net>>

\* Mutant of intr: the alarm is left running.
intrKeepsAlarm == /\ pc # "exited"
                  /\ sig' = [sig EXCEPT !.handler = "ignore"]
                  /\ Toplevel

\* SIGINT, at any time: also inside initsock and between two transfers.
intr == /\ pc # "exited"
        /\ sig' = [sig EXCEPT !.handler = "ignore", !.alarm = FALSE]
        /\ Toplevel

Next == \/ \E w \in Words : Type(w)
        \/ Quit
        \/ Prints
        \/ SetMode
        \/ SetTimes
        \/ setpeer
        \/ Get
        \/ Put
        \/ GetHost
        \/ GetFile
        \/ PutFile
        \/ FilesDone
        \/ initsock
        \/ Send
        \/ \E p \in net : Receive(p)
        \/ Timer
        \/ intr

Spec == Init /\ [][Next]_vars

\* The client runs while it is not waiting, and its alarm fires.
FairSpec == Spec /\ WF_vars(Timer)
                 /\ WF_vars(GetHost \/ GetFile \/ PutFile \/ FilesDone \/ initsock \/ Send)

-----------------------------------------------------------------------------
Requests == [op : {"get", "put"}, host : Hosts, name : STRING]

JobState == [op : {"get", "put"}, args : GetArgs \cup PutArgs, n : Nat, found : BOOLEAN]

Transfer == [op : {"get", "put"}, me : Requests, from : Requests \cup {Nobody}, block : Nat,
             requested : BOOLEAN, timeout : Nat, clean : BOOLEAN]

\* The variables are of their types; a transfer counts its blocks up to the
\* last one, and a command its files up to one past the last argument.
TypeOK ==
    /\ pc \in {"prompt", "dispatch", "files", "initsock", "send", "wait", "exited"}
    /\ cmd \in [c : {0} \cup DOMAIN cmdtab, word : {<< >>} \cup Words]
    /\ conn \in [connected : BOOLEAN, host : {None} \cup Hosts]
    /\ sock \in [open : BOOLEAN, family : {None} \cup {Family(h) : h \in Hosts}, stale : BOOLEAN]
    /\ vals \in [mode : {"netascii", "octet"}, rexmtval : Nat, maxtimeout : Nat]
    /\ job = NoJob \/ job \in JobState
    /\ tr = NoTr \/ tr \in Transfer
    /\ sig \in [alarm : BOOLEAN, handler : {"default", "timer", "ignore"}, jmp : BOOLEAN]
    /\ net \subseteq [of : Requests \cup {Nobody}, k : Nat]
    /\ pc \in {"send", "wait"} => tr.block \in 1 .. LastBlock(tr.op)
    /\ pc = "files" => job.n \in 1 .. Len(job.args) + 1

\* "Commands may be abbreviated": a handler is only called for its full name
\* or for a word that begins no other command (getcmd).
CommandIsMeant ==
    pc = "dispatch" =>
       \/ cmd.word = cmdtab[cmd.c]
       \/ {c \in DOMAIN cmdtab : IsPrefix(cmd.word, cmdtab[c])} = {cmd.c}

\* On a socket no transfer and no initsock was torn from, a transfer has a
\* host that was found and an open socket of its address family, whatever
\* names were looked up before; on any other one at least what is waited on
\* is (setpeer, get, put, and initsock at the end of the transfer before).
PeerIsReady ==
    (pc = "wait" \/ (pc = "send" /\ tr.clean))
    => /\ conn.connected
       /\ sock.open /\ sock.family = Family(conn.host)
       /\ tr.me.host = conn.host

\* On a socket no transfer was torn away from, the client only ever talks to
\* servers of its own request: nothing of the transfer before reaches it, so
\* no file is mixed from two.  (After a timeout or an interrupt the next
\* transfer keeps the socket, and can be answered by the server of the last.)
OwnServer == pc = "wait" /\ tr.clean => tr.from \in {Nobody, tr.me}

\* SIGALRM never reaches timer() outside the transfer that has set timeoutbuf:
\* siglongjmp would enter a function that has returned.
AlarmHasTarget == sig.alarm /\ sig.handler = "timer" => pc = "wait" /\ sig.jmp

\* Why these hold: the inductive invariant.  The alarm runs only in a wait.  A
\* socket that no transfer and no initsock was torn from is ready for the host
\* as soon as there is one, and between transfers nothing is on its way to it.
\* A command only begins a transfer once it has a host; and a transfer begun on
\* a clean socket hears from servers of its own request alone.
Ready == sock.open /\ sock.family = Family(conn.host)

AlarmOK == sig.alarm => pc = "wait" /\ sig.jmp

SocketOK ==
    /\ conn.connected => conn.host \in Hosts
    /\ pc = "initsock" => conn.connected
    /\ pc = "wait" => Ready
    /\ ~sock.stale /\ conn.connected /\ pc \notin {"initsock", "exited"} => Ready
    /\ ~sock.stale /\ pc \in {"prompt", "dispatch", "files"} => net = {}

JobOK ==
    /\ pc \in {"prompt", "dispatch"} => job = NoJob
    /\ pc \in {"prompt", "dispatch", "files"} => tr = NoTr
    /\ pc \in {"files", "send", "wait"} => job # NoJob
    /\ pc \in {"send", "wait"} => tr # NoTr
    /\ tr # NoTr => job # NoJob /\ job.n <= NFiles
    /\ job # NoJob =>
          /\ job.n \in 1 .. Len(job.args) + 1
          /\ job.op = "put" \/ job.found => conn.connected
          /\ conn.connected \/ \A k \in DOMAIN job.args : job.args[k].host # None

TransferOK ==
    pc \in {"send", "wait"} =>
       /\ conn.connected /\ tr.me.host = conn.host
       /\ tr.clean => /\ ~sock.stale
                      /\ tr.from \in {Nobody, tr.me}
                      /\ tr.requested => tr.from = tr.me
                      /\ \A p \in net : p.of = tr.me

Inv == TypeOK /\ AlarmOK /\ SocketOK /\ JobOK /\ TransferOK

\* get and put come back to the prompt when the alarm is in use.
CommandEnds == (pc \in {"files", "initsock", "send", "wait"} /\ vals.rexmtval > 0)
                  ~> (pc \in {"prompt", "exited"})

=============================================================================
