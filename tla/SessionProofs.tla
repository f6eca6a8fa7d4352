--------------------------- MODULE SessionProofs ---------------------------
(***************************************************************************)
(* Proofs about Session, for every set of hosts, of commands and of        *)
(* arguments, and for files of any length: the inductive invariant Inv,    *)
(* and with it that no alarm goes off outside the transfer it belongs to,  *)
(* that a transfer has a peer and a socket, and that none hears from the   *)
(* server of another; and that getcmd calls no command that was not meant. *)
(***************************************************************************)
EXTENDS Session, WellFoundedInduction, TLAPS

-----------------------------------------------------------------------------
(* Arguments and files.                                                    *)

\* The argument list of a command in progress, and how many files it names.
LEMMA JobArgs ==
    ASSUME job \in JobState
    PROVE  /\ job.args \in Seq(Argument)
           /\ Len(job.args) \in Nat /\ Len(job.args) >= 1
           /\ DOMAIN job.args = 1 .. Len(job.args)
           /\ NFiles \in 1 .. Len(job.args)
<1>1. job.args \in GetArgs \cup PutArgs
  BY DEF JobState
<1>2. /\ job.args \in Seq(Argument)
      /\ Len(job.args) >= 1
  BY <1>1, SessionAssumption
<1>3. Len(job.args) \in Nat /\ DOMAIN job.args = 1 .. Len(job.args)
  BY <1>2
<1>4. NFiles \in 1 .. Len(job.args)
  BY <1>2, <1>3 DEF NFiles
<1> QED
  BY <1>2, <1>3, <1>4

\* The last block of a get or put.
LEMMA LastBlockNat ==
    ASSUME NEW op
    PROVE  LastBlock(op) \in Nat /\ LastBlock(op) >= 1
BY SessionAssumption DEF LastBlock

-----------------------------------------------------------------------------
(* The command interpreter.                                                *)

\* Init establishes Inv.
LEMMA InitInv == Init => Inv
<1> SUFFICES ASSUME Init PROVE Inv
  OBVIOUS
<1>1. TypeOK
  BY DEF Init, TypeOK, NoCmd, TIMEOUT
<1>2. AlarmOK /\ SocketOK /\ JobOK /\ TransferOK
  BY DEF Init, AlarmOK, SocketOK, JobOK, TransferOK
<1> QED
  BY <1>1, <1>2 DEF Inv

\* A command is read.
LEMMA TypeInv ==
    ASSUME Inv, NEW w \in Words, Type(w)
    PROVE  Inv'
<1>1. TypeOK'
  BY DEF Inv, TypeOK, Type
<1>2. AlarmOK' /\ SocketOK' /\ JobOK' /\ TransferOK'
  BY DEF Inv, AlarmOK, SocketOK, JobOK, TransferOK, Type, Ready
<1> QED
  BY <1>1, <1>2 DEF Inv

\* The program ends.
LEMMA QuitInv ==
    ASSUME Inv, Quit
    PROVE  Inv'
<1>1. TypeOK'
  BY DEF Inv, TypeOK, Quit, NoCmd
<1>2. AlarmOK' /\ SocketOK' /\ JobOK' /\ TransferOK'
  BY DEF Inv, AlarmOK, SocketOK, JobOK, TransferOK, Quit, Ready, NFiles
<1> QED
  BY <1>1, <1>2 DEF Inv

\* A handler that returns to the prompt, with other values or the same.
LEMMA HandledInv ==
    ASSUME Inv, pc = "dispatch", cmd' = NoCmd, ToPrompt,
           vals' \in [mode : {"netascii", "octet"}, rexmtval : Nat, maxtimeout : Nat],
           UNCHANGED <<conn, sock, sig, net>>
    PROVE  Inv'
<1>1. TypeOK'
  BY DEF Inv, TypeOK, ToPrompt, NoCmd
<1>2. AlarmOK' /\ SocketOK' /\ JobOK' /\ TransferOK'
  BY DEF Inv, AlarmOK, SocketOK, JobOK, TransferOK, ToPrompt, Ready
<1> QED
  BY <1>1, <1>2 DEF Inv

\* verbose, trace, status, help, mode, ascii, binary, rexmt and timeout.
LEMMA ValuesInv ==
    ASSUME Inv, Prints \/ SetMode \/ SetTimes
    PROVE  Inv'
<1>1. vals \in [mode : {"netascii", "octet"}, rexmtval : Nat, maxtimeout : Nat]
  BY DEF Inv, TypeOK
<1>2. CASE Prints
  BY <1>1, <1>2, HandledInv DEF Prints, Handles
<1>3. CASE SetMode
  <2>1. vals' \in [mode : {"netascii", "octet"}, rexmtval : Nat, maxtimeout : Nat]
    BY <1>1, <1>3 DEF SetMode
  <2> QED
    BY <1>3, <2>1, HandledInv DEF SetMode, Handles
<1>4. CASE SetTimes
  <2>1. vals' \in [mode : {"netascii", "octet"}, rexmtval : Nat, maxtimeout : Nat]
    BY <1>1, <1>4, SessionAssumption DEF SetTimes
  <2> QED
    BY <1>4, <2>1, HandledInv DEF SetTimes, Handles
<1> QED
  BY <1>2, <1>3, <1>4

-----------------------------------------------------------------------------
(* Peers and sockets.                                                      *)

\* connect.
LEMMA setpeerInv ==
    ASSUME Inv, setpeer
    PROVE  Inv'
<1>1. pc = "dispatch" /\ cmd' = NoCmd /\ UNCHANGED <<sock, vals, job, tr, sig, net>>
  BY DEF setpeer, Handles
<1>2. CASE \E h \in Hosts : SetHost(h)
  <2>1. PICK h \in Hosts : conn' = [connected |-> TRUE, host |-> h] /\ pc' = "initsock"
    BY <1>2 DEF SetHost
  <2>2. TypeOK'
    BY <1>1, <2>1 DEF Inv, TypeOK, NoCmd
  <2>3. AlarmOK' /\ SocketOK' /\ JobOK' /\ TransferOK'
    BY <1>1, <2>1 DEF Inv, AlarmOK, SocketOK, JobOK, TransferOK, Ready
  <2> QED
    BY <2>2, <2>3 DEF Inv
<1>3. CASE pc' = "prompt" /\ conn' \in {conn, [conn EXCEPT !.connected = FALSE]}
  <2>1. conn' \in [connected : BOOLEAN, host : {None} \cup Hosts]
        /\ (conn'.connected => conn' = conn)
    BY <1>3 DEF Inv, TypeOK
  <2>2. TypeOK'
    BY <1>1, <1>3, <2>1 DEF Inv, TypeOK, NoCmd
  <2>3. AlarmOK' /\ SocketOK' /\ JobOK' /\ TransferOK'
    BY <1>1, <1>3, <2>1 DEF Inv, AlarmOK, SocketOK, JobOK, TransferOK, Ready
  <2> QED
    BY <2>2, <2>3 DEF Inv
<1> QED
  BY <1>2, <1>3 DEF setpeer

\* get reads its arguments.
LEMMA GetInv ==
    ASSUME Inv, Get
    PROVE  Inv'
<1>1. /\ pc = "dispatch" /\ cmd' = NoCmd /\ job = NoJob /\ tr = NoTr
      /\ UNCHANGED <<conn, sock, vals, tr, sig, net>>
  BY DEF Get, Handles, Inv, JobOK
<1>2. PICK args \in GetArgs :
             IF ~conn.connected /\ \E k \in DOMAIN args : args[k].host = None
             THEN pc' = "prompt" /\ UNCHANGED job
             ELSE pc' = "files" /\ job' = Job("get", args)
  BY DEF Get
<1>3. CASE pc' = "prompt" /\ UNCHANGED job
  <2>1. TypeOK'
    BY <1>1, <1>3 DEF Inv, TypeOK, NoCmd
  <2>2. AlarmOK' /\ SocketOK' /\ JobOK' /\ TransferOK'
    BY <1>1, <1>3 DEF Inv, AlarmOK, SocketOK, JobOK, TransferOK, Ready
  <2> QED
    BY <2>1, <2>2 DEF Inv
<1>4. CASE /\ conn.connected \/ \A k \in DOMAIN args : args[k].host # None
           /\ pc' = "files" /\ job' = Job("get", args)
  <2>1. /\ job' \in JobState /\ job' # NoJob /\ job'.n = 1 /\ job'.args = args
        /\ ~job'.found /\ job'.op = "get"
    BY <1>4 DEF Job, JobState, NoJob, None
  <2>2. Len(args) \in Nat /\ Len(args) >= 1
    BY SessionAssumption
  <2>3. TypeOK'
    BY <1>1, <1>4, <2>1, <2>2 DEF Inv, TypeOK, NoCmd
  <2>4. AlarmOK' /\ SocketOK' /\ JobOK' /\ TransferOK'
    BY <1>1, <1>4, <2>1, <2>2 DEF Inv, AlarmOK, SocketOK, JobOK, TransferOK, Ready
  <2> QED
    BY <2>3, <2>4 DEF Inv
<1> QED
  BY <1>2, <1>3, <1>4

\* put reads its arguments, and looks up the host of the target.
LEMMA PutInv ==
    ASSUME Inv, Put
    PROVE  Inv'
<1>1. /\ pc = "dispatch" /\ cmd' = NoCmd /\ job = NoJob /\ tr = NoTr
      /\ UNCHANGED <<sock, vals, tr, sig, net>>
  BY DEF Put, Handles, Inv, JobOK
<1>2. PICK args \in PutArgs :
             LET h == Last(args).host
             IN  \/ h # None /\ job' = Job("put", args) /\ SetHost(h)
                 \/ h # None /\ pc' = "prompt" /\ UNCHANGED <<job, conn>>
                 \/ /\ h = None
                    /\ IF conn.connected THEN pc' = "files" /\ job' = Job("put", args)
                       ELSE pc' = "prompt" /\ UNCHANGED job
                    /\ UNCHANGED conn
  BY DEF Put
<1> DEFINE h == Last(args).host
<1>3. Len(args) \in Nat /\ Len(args) >= 1 /\ h \in Hosts \cup {None}
  <2>1. args \in Seq(Argument) /\ Len(args) >= 1
    BY SessionAssumption
  <2>2. Len(args) \in Nat /\ Len(args) \in DOMAIN args
    BY <2>1
  <2>3. args[Len(args)] \in Argument
    BY <2>1, <2>2
  <2>4. h \in Hosts \cup {None}
    BY <2>3 DEF Last, Argument
  <2> QED
    BY <2>1, <2>2, <2>4
<1> HIDE DEF h
<1>4. CASE pc' = "prompt" /\ UNCHANGED <<job, conn>>
  <2>1. TypeOK'
    BY <1>1, <1>4 DEF Inv, TypeOK, NoCmd
  <2>2. AlarmOK' /\ SocketOK' /\ JobOK' /\ TransferOK'
    BY <1>1, <1>4 DEF Inv, AlarmOK, SocketOK, JobOK, TransferOK, Ready
  <2> QED
    BY <2>1, <2>2 DEF Inv
<1>5. CASE /\ job' = Job("put", args)
           /\ \/ h \in Hosts /\ SetHost(h)
              \/ conn.connected /\ pc' = "files" /\ UNCHANGED conn
  <2>1. /\ job' \in JobState /\ job' # NoJob /\ job'.n = 1 /\ job'.args = args
    BY <1>5 DEF Job, JobState, NoJob, None
  <2>2. /\ pc' \in {"initsock", "files"}
        /\ conn' \in [connected : BOOLEAN, host : {None} \cup Hosts]
        /\ conn'.connected /\ conn'.host \in Hosts
        /\ pc' = "files" => UNCHANGED conn
    <3>1. CASE h \in Hosts /\ SetHost(h)
      BY <3>1 DEF SetHost
    <3>2. CASE conn.connected /\ pc' = "files" /\ UNCHANGED conn
      BY <3>2 DEF Inv, TypeOK, SocketOK
    <3> QED
      BY <1>5, <3>1, <3>2
  <2>3. TypeOK'
    BY <1>1, <1>3, <2>1, <2>2 DEF Inv, TypeOK, NoCmd
  <2>4. AlarmOK' /\ SocketOK' /\ JobOK' /\ TransferOK'
    BY <1>1, <1>3, <2>1, <2>2 DEF Inv, AlarmOK, SocketOK, JobOK, TransferOK, Ready
  <2> QED
    BY <2>3, <2>4 DEF Inv
<1> QED
  BY <1>2, <1>3, <1>4, <1>5 DEF h

-----------------------------------------------------------------------------
(* get and put: one transfer after the other.                              *)

\* A transfer begins, for a command that has found its host.
LEMMA BeginInv ==
    ASSUME Inv, pc = "files", conn.connected, NEW op \in {"get", "put"},
           NEW name \in STRING, Begin(op, name), job.n <= NFiles,
           UNCHANGED <<cmd, conn, sock, vals, job, net>>
    PROVE  Inv'
<1> DEFINE me == [op |-> op, host |-> conn.host, name |-> name]
<1>1. conn.host \in Hosts /\ sock.stale \in BOOLEAN
  BY DEF Inv, SocketOK, TypeOK
<1>2. me \in Requests /\ me.host = conn.host
  BY <1>1 DEF Requests
<1>3. /\ pc' = "send"
      /\ tr' = [op |-> op, me |-> me, from |-> Nobody, block |-> 1, requested |-> FALSE,
                timeout |-> 0, clean |-> ~sock.stale]
      /\ sig' = [sig EXCEPT !.handler = "timer", !.jmp = FALSE]
  BY DEF Begin
<1> HIDE DEF me
<1>4. /\ tr' \in Transfer /\ tr' # NoTr /\ tr'.block = 1 /\ tr'.me = me
      /\ tr'.from = Nobody /\ ~tr'.requested /\ tr'.clean = ~sock.stale
  BY <1>1, <1>2, <1>3 DEF Transfer, NoTr
<1>5. TypeOK'
  <2>1. sig' \in [alarm : BOOLEAN, handler : {"default", "timer", "ignore"}, jmp : BOOLEAN]
    BY <1>3 DEF Inv, TypeOK
  <2>2. tr'.block \in 1 .. LastBlock(tr'.op)
    BY <1>4, LastBlockNat
  <2> QED
    BY <1>3, <1>4, <2>1, <2>2 DEF Inv, TypeOK
<1>6. AlarmOK'
  BY <1>3 DEF Inv, TypeOK, AlarmOK
<1>7. SocketOK'
  BY <1>3 DEF Inv, SocketOK, Ready
<1>8. JobOK'
  BY <1>3, <1>4 DEF Inv, JobOK, NFiles
<1>9. TransferOK'
  BY <1>2, <1>3, <1>4 DEF Inv, TransferOK, SocketOK
<1> QED
  BY <1>5, <1>6, <1>7, <1>8, <1>9 DEF Inv

\* Back to the prompt, from a command that has nothing more to do.
LEMMA FilesEndInv ==
    ASSUME Inv, pc = "files", ToPrompt, UNCHANGED <<cmd, conn, sock, vals, sig, net>>
    PROVE  Inv'
<1>1. TypeOK'
  BY DEF Inv, TypeOK, ToPrompt
<1>2. AlarmOK' /\ SocketOK' /\ JobOK' /\ TransferOK'
  BY DEF Inv, AlarmOK, SocketOK, JobOK, TransferOK, ToPrompt, Ready
<1> QED
  BY <1>1, <1>2 DEF Inv

\* A file that is left out.
LEMMA NextFileInv ==
    ASSUME Inv, pc = "files", job.n <= NFiles, pc' = "files",
           NEW found \in BOOLEAN, found => job.found,
           job' = [job EXCEPT !.n = @ + 1, !.found = found],
           UNCHANGED <<cmd, conn, sock, vals, tr, sig, net>>
    PROVE  Inv'
<1>1. job \in JobState /\ job # NoJob
  BY DEF Inv, TypeOK, JobOK
<1>2. job.n \in Nat /\ job.n + 1 \in 1 .. Len(job.args) + 1
  BY <1>1, JobArgs DEF JobState
<1>3. /\ job' \in JobState /\ job'.n = job.n + 1 /\ job'.args = job.args
      /\ job'.op = job.op /\ job'.found = found
  <2>1. job.n + 1 \in Nat /\ job' = [job EXCEPT !.n = job.n + 1, !.found = found]
    BY <1>1, <1>2
  <2> QED
    BY <1>1, <2>1 DEF JobState
<1>4. job' # NoJob
  BY <1>3 DEF JobState, NoJob, None
<1>5. TypeOK'
  BY <1>2, <1>3 DEF Inv, TypeOK
<1>6. AlarmOK' /\ SocketOK' /\ TransferOK'
  BY DEF Inv, AlarmOK, SocketOK, TransferOK, Ready
<1>7. JobOK'
  BY <1>1, <1>2, <1>3, <1>4 DEF Inv, JobOK
<1> QED
  BY <1>5, <1>6, <1>7 DEF Inv

\* The argument a command has come to.
LEMMA ThisArg ==
    ASSUME Inv, pc = "files", job.n <= NFiles
    PROVE  /\ job \in JobState /\ job # NoJob /\ job.n \in DOMAIN job.args
           /\ job.args[job.n].host \in Hosts \cup {None}
           /\ job.args[job.n].name \in STRING
<1>1. job \in JobState /\ job # NoJob /\ job.n \in 1 .. Len(job.args) + 1
  BY DEF Inv, TypeOK, JobOK
<1>2. job.n \in DOMAIN job.args
  BY <1>1, JobArgs
<1>3. job.args[job.n] \in Argument
  BY <1>1, <1>2, JobArgs
<1> QED
  BY <1>1, <1>2, <1>3 DEF Argument

\* get looks up the host of an argument.
LEMMA GetHostInv ==
    ASSUME Inv, GetHost
    PROVE  Inv'
<1> DEFINE h == job.args[job.n].host
<1>1. /\ pc = "files" /\ job.n <= NFiles /\ h # None /\ ~job.found
      /\ UNCHANGED <<cmd, sock, vals, tr, sig, net>>
  BY DEF GetHost
<1>2. job \in JobState /\ job # NoJob /\ h \in Hosts
  BY <1>1, ThisArg
<1> HIDE DEF h
<1>3. CASE job' = [job EXCEPT !.found = TRUE] /\ SetHost(h)
  <2>1. conn' = [connected |-> TRUE, host |-> h] /\ pc' = "initsock"
    BY <1>3 DEF SetHost
  <2>2. /\ job' \in JobState /\ job'.n = job.n /\ job'.args = job.args
        /\ job'.op = job.op
    BY <1>2, <1>3 DEF JobState
  <2>3. job' # NoJob
    BY <2>2 DEF JobState, NoJob, None
  <2>4. TypeOK'
    BY <1>1, <1>2, <2>1, <2>2 DEF Inv, TypeOK
  <2>5. AlarmOK' /\ SocketOK' /\ TransferOK'
    BY <1>1, <1>2, <2>1 DEF Inv, AlarmOK, SocketOK, TransferOK, Ready
  <2>6. JobOK'
    BY <1>1, <1>2, <2>1, <2>2, <2>3 DEF Inv, JobOK
  <2> QED
    BY <2>4, <2>5, <2>6 DEF Inv
<1>4. CASE pc' = "files" /\ job' = [job EXCEPT !.n = @ + 1] /\ UNCHANGED conn
  <2>1. job' = [job EXCEPT !.n = @ + 1, !.found = job.found] /\ job.found \in BOOLEAN
    BY <1>2, <1>4 DEF JobState
  <2> QED
    BY <1>1, <1>4, <2>1, NextFileInv
<1> QED
  BY <1>3, <1>4 DEF GetHost, h

\* The next file of get has a host: of its own, or the one connected to.
LEMMA GetFileInv ==
    ASSUME Inv, GetFile
    PROVE  Inv'
<1> DEFINE a == job.args[job.n]
<1>1. /\ pc = "files" /\ job.op = "get" /\ job.n <= NFiles
      /\ a.host = None \/ job.found
      /\ UNCHANGED <<cmd, conn, sock, vals, net>>
  BY DEF GetFile
<1>2. /\ job \in JobState /\ job # NoJob /\ job.n \in DOMAIN job.args
      /\ a.name \in STRING
  BY <1>1, ThisArg
<1>3. CASE Begin("get", a.name) /\ UNCHANGED job
  <2>1. conn.connected
    BY <1>1, <1>2 DEF Inv, JobOK
  <2> HIDE DEF a
  <2> QED
    BY <1>1, <1>2, <1>3, <2>1, BeginInv
<1>4. CASE ToPrompt /\ UNCHANGED sig
  BY <1>1, <1>4, FilesEndInv
<1>5. CASE NextFile /\ UNCHANGED <<tr, sig>>
  BY <1>1, <1>5, NextFileInv DEF NextFile
<1> QED
  BY <1>3, <1>4, <1>5 DEF GetFile

\* The next file of put.
LEMMA PutFileInv ==
    ASSUME Inv, PutFile
    PROVE  Inv'
<1> DEFINE name == IF Len(job.args) > 2 THEN job.args[job.n].name ELSE Last(job.args).name
<1>1. /\ pc = "files" /\ job.op = "put" /\ job.n <= NFiles
      /\ UNCHANGED <<cmd, conn, sock, vals, net>>
  BY DEF PutFile
<1>2. /\ job \in JobState /\ job # NoJob /\ job.args[job.n].name \in STRING
  BY <1>1, ThisArg
<1>3. CASE Begin("put", name) /\ UNCHANGED job
  <2>1. conn.connected
    BY <1>1, <1>2 DEF Inv, JobOK
  <2>2. Len(job.args) \in DOMAIN job.args
    BY <1>2, JobArgs
  <2>3. job.args[Len(job.args)] \in Argument
    BY <1>2, <2>2, JobArgs
  <2>4. name \in STRING
    BY <1>2, <2>3 DEF Last, Argument
  <2> HIDE DEF name
  <2> QED
    BY <1>1, <1>3, <2>1, <2>4, BeginInv
<1>4. CASE NextFile /\ UNCHANGED <<tr, sig>>
  BY <1>1, <1>4, NextFileInv DEF NextFile
<1> QED
  BY <1>3, <1>4 DEF PutFile

\* initsock: the new socket is clean and nothing is on its way to it.
LEMMA initsockInv ==
    ASSUME Inv, initsock
    PROVE  Inv'
<1>1. pc = "initsock" /\ UNCHANGED <<cmd, conn, vals, sig>>
  BY DEF initsock
<1>2. conn.connected /\ conn.host \in Hosts /\ ~sig.alarm
  BY <1>1 DEF Inv, SocketOK, AlarmOK
<1>3. CASE pc' = "exited" /\ UNCHANGED <<sock, net, job, tr>>
  <2>1. TypeOK'
    BY <1>1, <1>3 DEF Inv, TypeOK
  <2>2. AlarmOK' /\ SocketOK' /\ JobOK' /\ TransferOK'
    BY <1>1, <1>2, <1>3 DEF Inv, AlarmOK, SocketOK, JobOK, TransferOK, NFiles
  <2> QED
    BY <2>1, <2>2 DEF Inv
<1>4. CASE /\ sock' = [open |-> TRUE, family |-> Family(conn.host), stale |-> FALSE]
           /\ net' = {}
           /\ CASE tr # NoTr -> AfterTransfer
                [] tr = NoTr /\ job # NoJob -> pc' = "files" /\ UNCHANGED <<job, tr>>
                [] tr = NoTr /\ job = NoJob -> ToPrompt
  <2>1. /\ sock' \in [open : BOOLEAN, family : {None} \cup {Family(h) : h \in Hosts},
                      stale : BOOLEAN]
        /\ Ready' /\ ~sock'.stale
    BY <1>1, <1>2, <1>4 DEF Ready
  <2>2. \/ ToPrompt
        \/ /\ pc' = "files" /\ tr' = NoTr /\ job' \in JobState /\ job' # NoJob
           /\ job'.n \in 1 .. Len(job'.args) + 1
    <3>1. CASE tr # NoTr
      <4>1. AfterTransfer
        BY <1>4, <3>1
      <4>2. job \in JobState /\ job # NoJob /\ job.n <= NFiles
            /\ job.n \in 1 .. Len(job.args) + 1
        BY <3>1 DEF Inv, TypeOK, JobOK
      <4>3. CASE ToPrompt
        BY <4>3
      <4>4. CASE NextFile /\ tr' = NoTr
        <5>1. job.n + 1 \in Nat /\ job.n + 1 \in 1 .. Len(job.args) + 1
          BY <4>2, JobArgs
        <5>2. job' = [job EXCEPT !.n = job.n + 1, !.found = FALSE]
          BY <4>2, <4>4 DEF NextFile
        <5>3. job' \in JobState /\ job'.n = job.n + 1 /\ job'.args = job.args
          BY <4>2, <5>1, <5>2 DEF JobState
        <5>4. job' # NoJob
          BY <5>3 DEF JobState, NoJob, None
        <5> QED
          BY <4>4, <5>1, <5>3, <5>4 DEF NextFile
      <4> QED
        BY <4>1, <4>3, <4>4 DEF AfterTransfer
    <3>2. CASE tr = NoTr /\ job # NoJob
      <4>1. pc' = "files" /\ UNCHANGED <<job, tr>>
        BY <1>4, <3>2
      <4> QED
        BY <3>2, <4>1 DEF Inv, TypeOK, JobOK
    <3>3. CASE tr = NoTr /\ job = NoJob
      BY <1>4, <3>3
    <3> QED
      BY <3>1, <3>2, <3>3
  <2>3. TypeOK'
    BY <1>1, <1>4, <2>1, <2>2 DEF Inv, TypeOK, ToPrompt
  <2>4. AlarmOK' /\ SocketOK' /\ TransferOK'
    BY <1>1, <1>2, <1>4, <2>1, <2>2 DEF AlarmOK, SocketOK, TransferOK, ToPrompt
  <2>5. JobOK'
    BY <1>1, <1>2, <2>2 DEF JobOK, ToPrompt
  <2> QED
    BY <2>3, <2>4, <2>5 DEF Inv
<1> QED
  BY <1>3, <1>4 DEF initsock

-----------------------------------------------------------------------------
(* A transfer.                                                             *)

\* The transfer in progress.
LEMMA InTransfer ==
    ASSUME Inv, pc \in {"send", "wait"}
    PROVE  /\ tr \in Transfer /\ tr # NoTr /\ job \in JobState /\ job # NoJob
           /\ tr.block \in 1 .. LastBlock(tr.op) /\ tr.block \in Nat
           /\ tr.me \in Requests /\ tr.me # Nobody
           /\ tr.from \in Requests \cup {Nobody}
<1>1. /\ tr \in Transfer /\ tr # NoTr /\ job \in JobState /\ job # NoJob
      /\ tr.block \in 1 .. LastBlock(tr.op)
  BY DEF Inv, TypeOK, JobOK
<1>2. tr.block \in Nat /\ tr.me \in Requests /\ tr.from \in Requests \cup {Nobody}
  BY <1>1 DEF Transfer
<1>3. tr.me # Nobody
  BY <1>2 DEF Requests, Nobody, None
<1> QED
  BY <1>1, <1>2, <1>3

\* A transfer that ends goes on to initsock, and takes its alarm with it.
LEMMA EndsInv ==
    ASSUME Inv, pc \in {"send", "wait"}, Ends, net' \subseteq net,
           UNCHANGED <<cmd, conn, sock, vals>>
    PROVE  Inv'
<1>1. /\ pc' = "initsock" /\ sig' = [sig EXCEPT !.alarm = FALSE] /\ UNCHANGED <<job, tr>>
  BY DEF Ends
<1>2. /\ sig' \in [alarm : BOOLEAN, handler : {"default", "timer", "ignore"}, jmp : BOOLEAN]
      /\ ~sig'.alarm
  BY <1>1 DEF Inv, TypeOK
<1>3. TypeOK'
  BY <1>1, <1>2 DEF Inv, TypeOK
<1>4. AlarmOK' /\ SocketOK' /\ TransferOK'
  BY <1>1, <1>2 DEF Inv, AlarmOK, SocketOK, TransferOK
<1>5. JobOK'
  BY <1>1 DEF Inv, JobOK, NFiles
<1> QED
  BY <1>3, <1>4, <1>5 DEF Inv

\* What comes back to a clean transfer comes from a server of its request.
LEMMA OwnReply ==
    ASSUME Inv, pc = "send", NEW r \in Replies(tr)
    PROVE  /\ r \in [of : Requests \cup {Nobody}, k : Nat]
           /\ r = NoPacket \/ (tr.clean => r.of = tr.me)
<1>1. /\ tr \in Transfer /\ tr.block \in Nat /\ tr.me \in Requests
      /\ tr.from \in Requests \cup {Nobody}
  BY InTransfer
<1>2. CASE ~tr.requested /\ tr.from = Nobody
  BY <1>1, <1>2 DEF Replies, Packet
<1>3. CASE ~tr.requested /\ tr.from # Nobody
  BY <1>1, <1>3 DEF Replies, Packet, NoPacket
<1>4. CASE tr.requested
  <2>1. r = Packet(tr.from, tr.block)
    BY <1>4 DEF Replies
  <2>2. tr.clean => tr.from = tr.me
    BY <1>4 DEF Inv, TransferOK
  <2> QED
    BY <1>1, <2>1, <2>2 DEF Packet
<1> QED
  BY <1>2, <1>3, <1>4

\* The packets on their way after one more was sent.
LEMMA UnderwayIn ==
    ASSUME NEW r
    PROVE  Underway(r) \subseteq IF r = NoPacket THEN net ELSE net \cup {r}
<1>1. CASE r = NoPacket
  BY <1>1 DEF Underway
<1>2. CASE r # NoPacket
  <2>1. CASE Cardinality(net \cup {r}) <= MaxLate
    BY <1>2, <2>1 DEF Underway
  <2>2. CASE ~(Cardinality(net \cup {r}) <= MaxLate)
    BY <1>2, <2>2 DEF Underway
  <2> QED
    BY <1>2, <2>1, <2>2
<1> QED
  BY <1>1, <1>2

\* A packet is sent.
LEMMA SendInv ==
    ASSUME Inv, Send
    PROVE  Inv'
<1>1. pc = "send" /\ UNCHANGED <<cmd, conn, sock, vals>>
  BY DEF Send
<1>2. CASE Ends /\ UNCHANGED net
  BY <1>1, <1>2, EndsInv
<1>3. CASE /\ sock.open /\ sock.family = Family(conn.host)
           /\ pc' = "wait"
           /\ \E r \in Replies(tr) : net' = Underway(r)
           /\ sig' = [sig EXCEPT !.alarm = vals.rexmtval > 0, !.jmp = TRUE]
           /\ UNCHANGED <<job, tr>>
  <2>1. PICK r \in Replies(tr) : net' = Underway(r)
    BY <1>3
  <2>2. net' \subseteq IF r = NoPacket THEN net ELSE net \cup {r}
    BY <2>1, UnderwayIn
  <2>3. net' \subseteq [of : Requests \cup {Nobody}, k : Nat]
    BY <1>1, <2>2, OwnReply DEF Inv, TypeOK
  <2>4. tr.clean => \A p \in net' : p.of = tr.me
    BY <1>1, <2>2, OwnReply DEF Inv, TransferOK
  <2>5. /\ sig' \in [alarm : BOOLEAN, handler : {"default", "timer", "ignore"},
                     jmp : BOOLEAN]
        /\ sig'.jmp
    <3> DEFINE on == vals.rexmtval > 0
    <3>1. on \in BOOLEAN /\ sig' = [sig EXCEPT !.alarm = on, !.jmp = TRUE]
      BY <1>3
    <3> HIDE DEF on
    <3> QED
      BY <3>1 DEF Inv, TypeOK
  <2>6. TypeOK'
    BY <1>1, <1>3, <2>3, <2>5 DEF Inv, TypeOK
  <2>7. AlarmOK' /\ SocketOK'
    BY <1>1, <1>3, <2>5 DEF Inv, AlarmOK, SocketOK, Ready
  <2>8. JobOK'
    BY <1>1, <1>3 DEF Inv, JobOK, NFiles
  <2>9. TransferOK'
    BY <1>1, <1>3, <2>4 DEF Inv, TransferOK
  <2> QED
    BY <2>6, <2>7, <2>8, <2>9 DEF Inv
<1> QED
  BY <1>2, <1>3 DEF Send

\* The transfer goes on, without the alarm or still in its wait.
LEMMA GoesOn ==
    ASSUME Inv, pc = "wait", pc' \in {"send", "wait"},
           \/ sig' = [sig EXCEPT !.alarm = FALSE]
           \/ pc' = "wait" /\ UNCHANGED sig,
           NEW u \in Transfer, tr' = u, u.me = tr.me, u.clean = tr.clean,
           u.block \in 1 .. LastBlock(u.op), u.from \in {tr.from} \cup {p.of : p \in net},
           u.requested => tr.requested \/ u.from \in {p.of : p \in net},
           net' \subseteq net, UNCHANGED <<cmd, conn, sock, vals, job>>
    PROVE  Inv'
<1>1. /\ sig' \in [alarm : BOOLEAN, handler : {"default", "timer", "ignore"}, jmp : BOOLEAN]
      /\ sig'.alarm => pc' = "wait" /\ sig'.jmp
  BY DEF Inv, TypeOK, AlarmOK
<1>2. u # NoTr
  <2>1. u.op # None
    BY DEF Transfer, None
  <2> QED
    BY <2>1 DEF NoTr
<1>3. TypeOK'
  BY <1>1 DEF Inv, TypeOK
<1>4. AlarmOK'
  BY <1>1 DEF AlarmOK
<1>5. SocketOK'
  BY DEF Inv, SocketOK, Ready
<1>6. JobOK'
  <2>1. job # NoJob /\ job.n <= NFiles
    BY InTransfer DEF Inv, JobOK
  <2> QED
    BY <1>2, <2>1 DEF Inv, JobOK, NFiles
<1>7. TransferOK'
  <2>1. tr.clean => /\ ~sock.stale /\ tr.from \in {Nobody, tr.me}
                    /\ tr.requested => tr.from = tr.me
                    /\ \A p \in net : p.of = tr.me
    BY DEF Inv, TransferOK
  <2>2. tr.clean => u.from \in {Nobody, tr.me} /\ (u.requested => u.from = tr.me)
    BY <2>1
  <2>3. conn.connected /\ tr.me.host = conn.host
    BY DEF Inv, TransferOK
  <2> QED
    BY <2>1, <2>2, <2>3 DEF TransferOK
<1> QED
  BY <1>3, <1>4, <1>5, <1>6, <1>7 DEF Inv

\* A packet is received.
LEMMA ReceiveInv ==
    ASSUME Inv, NEW p \in net, Receive(p)
    PROVE  Inv'
<1> DEFINE t == [tr EXCEPT !.from = p.of]
           n == [t EXCEPT !.block = @ + 1, !.requested = TRUE, !.timeout = 0]
<1>1. pc = "wait" /\ net' = net \ {p} /\ UNCHANGED <<cmd, conn, sock, vals>>
  BY DEF Receive
<1>2. tr \in Transfer /\ tr.block \in 1 .. LastBlock(tr.op) /\ tr.block \in Nat
  BY <1>1, InTransfer
<1>3. p.of \in Requests \cup {Nobody} /\ p.of \in {q.of : q \in net}
  BY DEF Inv, TypeOK
<1>4. /\ t \in Transfer /\ t.from = p.of /\ t.me = tr.me /\ t.clean = tr.clean
      /\ t.block = tr.block /\ t.op = tr.op /\ t.requested = tr.requested
  BY <1>2, <1>3 DEF Transfer
<1>5. CASE Ends
  BY <1>1, <1>5, EndsInv
<1>6. CASE /\ tr' = t /\ UNCHANGED job
           /\ \/ pc' = "send" /\ sig' = [sig EXCEPT !.alarm = FALSE]
              \/ pc' = "wait" /\ UNCHANGED sig
  <2> HIDE DEF t
  <2> QED
    BY <1>1, <1>2, <1>3, <1>4, <1>6, GoesOn
<1>7. CASE /\ p.k = tr.block /\ p.k # LastBlock(tr.op)
           /\ pc' = "send" /\ sig' = [sig EXCEPT !.alarm = FALSE]
           /\ tr' = n /\ UNCHANGED job
  <2>1. tr.block + 1 \in Nat /\ tr.block + 1 \in 1 .. LastBlock(tr.op)
    BY <1>2, <1>7, LastBlockNat
  <2>2. n = [t EXCEPT !.block = tr.block + 1, !.requested = TRUE, !.timeout = 0]
    BY <1>4
  <2> HIDE DEF t
  <2>3. /\ n \in Transfer /\ n.from = p.of /\ n.me = tr.me /\ n.clean = tr.clean
        /\ n.block = tr.block + 1 /\ n.op = tr.op
    BY <1>4, <2>1, <2>2 DEF Transfer
  <2> HIDE DEF n
  <2> QED
    BY <1>1, <1>3, <1>7, <2>1, <2>3, GoesOn
<1> QED
  BY <1>1, <1>5, <1>6, <1>7 DEF Receive

\* siglongjmp(toplevel): the socket is marked unless nothing was under way.
LEMMA ToplevelInv ==
    ASSUME Inv, Toplevel,
           sig' \in [alarm : BOOLEAN, handler : {"default", "timer", "ignore"}, jmp : BOOLEAN],
           ~sig'.alarm, pc # "exited"
    PROVE  Inv'
<1>1. /\ pc' = "prompt" /\ job' = NoJob /\ tr' = NoTr /\ cmd' = NoCmd
      /\ UNCHANGED <<conn, vals, net>>
  BY DEF Toplevel, ToPrompt
<1>2. PICK open \in BOOLEAN :
          /\ sock' = [sock EXCEPT !.open = open,
                         !.stale = @ \/ pc \in {"initsock", "send", "wait"}]
          /\ (pc = "initsock" /\ ~open) \/ open = sock.open
  BY DEF Toplevel
<1>3. /\ sock' \in [open : BOOLEAN, family : {None} \cup {Family(h) : h \in Hosts},
                    stale : BOOLEAN]
      /\ sock'.open = open /\ sock'.family = sock.family
      /\ ~sock'.stale => ~sock.stale /\ pc \notin {"initsock", "send", "wait"}
  <2> DEFINE torn == sock.stale \/ pc \in {"initsock", "send", "wait"}
  <2>1. torn \in BOOLEAN
    OBVIOUS
  <2>2. sock' = [sock EXCEPT !.open = open, !.stale = torn]
    BY <1>2
  <2>3. ~torn => ~sock.stale /\ pc \notin {"initsock", "send", "wait"}
    OBVIOUS
  <2> HIDE DEF torn
  <2>4. /\ sock' \in [open : BOOLEAN, family : {None} \cup {Family(h) : h \in Hosts},
                      stale : BOOLEAN]
        /\ sock'.open = open /\ sock'.family = sock.family /\ sock'.stale = torn
    BY <2>1, <2>2 DEF Inv, TypeOK
  <2> QED
    BY <2>3, <2>4
<1>4. TypeOK'
  BY <1>1, <1>3 DEF Inv, TypeOK, NoCmd
<1>5. AlarmOK' /\ JobOK' /\ TransferOK'
  BY <1>1 DEF AlarmOK, JobOK, TransferOK
<1>6. SocketOK'
  <2>1. ~sock'.stale => pc \in {"prompt", "dispatch", "files"} /\ ~sock.stale
                        /\ sock'.open = sock.open
    BY <1>2, <1>3 DEF Inv, TypeOK
  <2> QED
    BY <1>1, <1>3, <2>1 DEF Inv, SocketOK, Ready
<1> QED
  BY <1>4, <1>5, <1>6 DEF Inv

\* SIGALRM in a wait.
LEMMA TimerInv ==
    ASSUME Inv, Timer
    PROVE  Inv'
<1>1. pc = "wait" /\ sig' = [sig EXCEPT !.alarm = FALSE]
  BY DEF Timer
<1>2. /\ sig' \in [alarm : BOOLEAN, handler : {"default", "timer", "ignore"}, jmp : BOOLEAN]
      /\ ~sig'.alarm
  BY <1>1 DEF Inv, TypeOK
<1>3. CASE Toplevel
  BY <1>1, <1>2, <1>3, ToplevelInv
<1>4. CASE /\ pc' = "send" /\ UNCHANGED <<cmd, conn, sock, vals, job, net>>
           /\ \E from \in {tr.from} \cup {p.of : p \in net} :
                  tr' = [tr EXCEPT !.timeout = Elapsed(tr), !.from = from]
  <2>1. PICK from \in {tr.from} \cup {p.of : p \in net} :
              tr' = [tr EXCEPT !.timeout = Elapsed(tr), !.from = from]
    BY <1>4
  <2>2. /\ tr \in Transfer /\ tr.block \in 1 .. LastBlock(tr.op)
        /\ tr.from \in Requests \cup {Nobody}
    BY <1>1, InTransfer
  <2>3. from \in Requests \cup {Nobody}
    BY <2>2 DEF Inv, TypeOK
  <2>4. Elapsed(tr) \in Nat
    BY <2>2 DEF Elapsed, Transfer, Inv, TypeOK
  <2>5. /\ tr' \in Transfer /\ tr'.from = from /\ tr'.me = tr.me /\ tr'.clean = tr.clean
        /\ tr'.block = tr.block /\ tr'.op = tr.op /\ tr'.requested = tr.requested
    BY <2>1, <2>2, <2>3, <2>4 DEF Transfer
  <2> QED
    BY <1>1, <1>4, <2>1, <2>2, <2>5, GoesOn
<1> QED
  BY <1>3, <1>4 DEF Timer

\* SIGINT.
LEMMA intrInv ==
    ASSUME Inv, intr
    PROVE  Inv'
<1>1. /\ sig' \in [alarm : BOOLEAN, handler : {"default", "timer", "ignore"}, jmp : BOOLEAN]
      /\ ~sig'.alarm
  BY DEF Inv, TypeOK, intr
<1> QED
  BY <1>1, ToplevelInv DEF intr

-----------------------------------------------------------------------------
(* The theorems.                                                           *)

\* Every step keeps Inv.
LEMMA NextInv == Inv /\ [Next]_vars => Inv'
<1> SUFFICES ASSUME Inv, [Next]_vars PROVE Inv'
  OBVIOUS
<1>1. CASE FilesDone
  BY <1>1, FilesEndInv DEF FilesDone
<1>2. CASE UNCHANGED vars
  <2>1. TypeOK'
    BY <1>2 DEF Inv, TypeOK, vars
  <2>2. AlarmOK' /\ SocketOK' /\ TransferOK'
    BY <1>2 DEF Inv, AlarmOK, SocketOK, TransferOK, Ready, vars
  <2>3. JobOK'
    BY <1>2 DEF Inv, JobOK, NFiles, vars
  <2> QED
    BY <2>1, <2>2, <2>3 DEF Inv
<1> QED
  BY <1>1, <1>2, TypeInv, QuitInv, ValuesInv, setpeerInv, GetInv, PutInv, GetHostInv,
     GetFileInv, PutFileInv, initsockInv, SendInv, ReceiveInv, TimerInv, intrInv DEF Next

\* Inv is an invariant of Session.
THEOREM Invariance == Spec => []Inv
<1> QED
  BY InitInv, NextInv, PTL DEF Spec

\* The variables of the client keep their types, and its counters their bounds.
THEOREM TypeCorrect == Spec => []TypeOK
<1>1. Inv => TypeOK
  BY DEF Inv
<1> QED
  BY <1>1, Invariance, PTL

\* A transfer has a host that was found and a socket of its family.
THEOREM TransferHasPeer == Spec => []PeerIsReady
<1>1. Inv => PeerIsReady
  BY DEF Inv, PeerIsReady, SocketOK, TransferOK, Ready
<1> QED
  BY <1>1, Invariance, PTL

\* A transfer on a clean socket talks to servers of its own request alone.
THEOREM TalksToOwnServer == Spec => []OwnServer
<1>1. Inv => OwnServer
  BY DEF Inv, OwnServer, TransferOK
<1> QED
  BY <1>1, Invariance, PTL

\* SIGALRM never reaches timer() outside the transfer that set timeoutbuf.
THEOREM AlarmInTransfer == Spec => []AlarmHasTarget
<1>1. Inv => AlarmHasTarget
  BY DEF Inv, AlarmHasTarget, AlarmOK
<1> QED
  BY <1>1, Invariance, PTL

-----------------------------------------------------------------------------
(* The loop of getcmd, by induction on the commands it has looked at.       *)

\* The order of the natural numbers as a set of pairs.
Lt == {ss \in Nat \X Nat : ss[1] < ss[2]}

\* Induction, for a property given as the set of the numbers that have it.
LEMMA SetInduction ==
    ASSUME NEW T, 0 \in T, \A n \in Nat : n \in T => n + 1 \in T
    PROVE  \A n \in Nat : n \in T
<1>1. SUFFICES ASSUME NEW n \in Nat, n \notin T PROVE FALSE
  OBVIOUS
<1>2. IsWellFoundedOn(Lt, Nat)
  BY NatLessThanWellFounded DEF OpToRel, Lt
<1>3. PICK m \in Nat \ T : \A y \in Nat \ T : ~(<<y, m>> \in Lt)
  <2> DEFINE S == Nat \ T
  <2>1. S # {} /\ S \subseteq Nat
    BY <1>1
  <2> HIDE DEF S
  <2>2. \E m \in S : \A y \in S : ~(<<y, m>> \in Lt)
    BY <1>2, <2>1, WFMin, Zenon
  <2> QED
    BY <2>2 DEF S
<1>4. m # 0 /\ m - 1 \in Nat /\ m - 1 < m
  BY <1>3
<1>5. <<m - 1, m>> \in Lt
  BY <1>4 DEF Lt
<1>6. m - 1 \in T
  BY <1>3, <1>4, <1>5
<1> QED
  BY <1>3, <1>4, <1>6

\* f holds what was found after each of the first n commands.
Loop(f, w, n) ==
    f = [c \in 0 .. n |->
            IF c = 0 THEN [exact |-> 0, longest |-> 0, nmatches |-> 0, found |-> 0]
            ELSE Compare(w, f[c - 1], c)]

\* The loop has a result after any number of commands.
LEMMA LoopRuns ==
    ASSUME NEW w
    PROVE  \A n \in Nat : \E f : Loop(f, w, n)
<1> DEFINE none == [exact |-> 0, longest |-> 0, nmatches |-> 0, found |-> 0]
           T == {n \in Nat : \E f : Loop(f, w, n)}
<1>1. 0 \in T
  <2>1. Loop([c \in 0 .. 0 |-> none], w, 0)
    BY DEF Loop
  <2> QED
    BY <2>1
<1>2. ASSUME NEW n \in Nat, n \in T PROVE n + 1 \in T
  <2>1. PICK f : Loop(f, w, n)
    BY <1>2
  <2> DEFINE h == [c \in 0 .. n + 1 |-> IF c <= n THEN f[c] ELSE Compare(w, f[n], n + 1)]
  <2> HIDE DEF none
  <2>2. \A c \in 0 .. n : f[c] = IF c = 0 THEN none ELSE Compare(w, f[c - 1], c)
    BY <2>1 DEF Loop, none
  <2>3. ASSUME NEW c \in 0 .. n + 1
        PROVE  h[c] = IF c = 0 THEN none ELSE Compare(w, h[c - 1], c)
    <3>1. CASE c = 0
      BY <2>2, <3>1
    <3>2. CASE c > 0 /\ c <= n
      BY <2>2, <3>2
    <3>3. CASE c = n + 1
      BY <3>3
    <3> QED
      BY <3>1, <3>2, <3>3
  <2>4. Loop(h, w, n + 1)
    BY <2>3 DEF Loop, none
  <2> QED
    BY <2>4
<1> HIDE DEF T
<1>3. \A n \in Nat : n \in T
  BY <1>1, <1>2, SetInduction
<1> QED
  BY <1>3 DEF T

\* The commands before c, and c, that begin with w.
Matches(w, c) == {i \in 1 .. c : IsPrefix(w, cmdtab[i])}

\* What the loop knows after command c.
Searched(w, s, c) ==
    /\ s \in [exact : 0 .. c, longest : Nat, nmatches : Nat, found : 0 .. c]
    /\ s.exact # 0 => cmdtab[s.exact] = w
    /\ s.exact = 0 =>
          /\ s.nmatches = 0 => Matches(w, c) = {} /\ s.found = 0 /\ s.longest = 0
          /\ s.nmatches > 0 => s.longest = Len(w)
          /\ s.nmatches = 1 /\ s.found # 0 => Matches(w, c) = {s.found}

\* One command more.
LEMMA CompareStep ==
    ASSUME NEW w \in Seq(STRING), NEW c \in Nat, NEW s, Searched(w, s, c)
    PROVE  Searched(w, Compare(w, s, c + 1), c + 1)
<1> DEFINE d == c + 1
           R(n) == [exact : 0 .. n, longest : Nat, nmatches : Nat, found : 0 .. n]
<1>1. /\ s \in R(c) /\ s \in R(d) /\ Len(w) \in Nat
      /\ s.exact # 0 => cmdtab[s.exact] = w
      /\ s.exact = 0 =>
           /\ s.nmatches = 0 => Matches(w, c) = {} /\ s.found = 0 /\ s.longest = 0
           /\ s.nmatches > 0 => s.longest = Len(w)
           /\ s.nmatches = 1 /\ s.found # 0 => Matches(w, c) = {s.found}
  BY DEF Searched
<1>2. Matches(w, d) = IF IsPrefix(w, cmdtab[d]) THEN Matches(w, c) \cup {d} ELSE Matches(w, c)
  BY DEF Matches
<1> HIDE DEF d
<1>3. CASE s.exact # 0
  BY <1>1, <1>3 DEF Compare, Searched
<1>4. CASE s.exact = 0 /\ cmdtab[d] = w
  <2> DEFINE t == [s EXCEPT !.exact = d]
  <2>1. Compare(w, s, d) = t
    BY <1>4 DEF Compare
  <2>2. t \in R(d) /\ t.exact = d /\ d # 0
    BY <1>1 DEF d
  <2> HIDE DEF t
  <2> QED
    BY <1>4, <2>1, <2>2 DEF Searched, d
<1>5. CASE s.exact = 0 /\ cmdtab[d] # w /\ IsPrefix(w, cmdtab[d]) /\ Len(w) > s.longest
  <2> DEFINE t == [s EXCEPT !.longest = Len(w), !.nmatches = 1, !.found = d]
  <2>1. Compare(w, s, d) = t
    BY <1>5 DEF Compare
  <2>2. /\ t \in R(d) /\ t.exact = 0 /\ t.longest = Len(w) /\ t.nmatches = 1
        /\ t.found = d
    <3> DEFINE l == Len(w)
    <3>1. d \in 0 .. d /\ l \in Nat
      BY <1>1 DEF d
    <3> HIDE DEF l
    <3>2. [s EXCEPT !.longest = l, !.nmatches = 1, !.found = d] \in R(d)
      BY <1>1, <3>1
    <3> QED
      BY <1>1, <1>5, <3>2 DEF l
  <2>3. s.nmatches = 0
    BY <1>1, <1>5
  <2>4. Matches(w, d) = {d}
    BY <1>1, <1>2, <1>5, <2>3
  <2> HIDE DEF t
  <2> QED
    BY <2>1, <2>2, <2>4 DEF Searched, d
<1>6. CASE s.exact = 0 /\ cmdtab[d] # w /\ IsPrefix(w, cmdtab[d]) /\ ~(Len(w) > s.longest)
  <2> DEFINE t == [s EXCEPT !.nmatches = @ + 1]
  <2>1. Compare(w, s, d) = t
    BY <1>6 DEF Compare
  <2>2. /\ t \in R(d) /\ t.exact = 0 /\ t.longest = s.longest
        /\ t.nmatches = s.nmatches + 1 /\ t.found = s.found
    BY <1>1, <1>6
  <2>3. t.longest = Len(w) /\ t.nmatches > 0
    BY <1>1, <1>6, <2>2
  <2>4. ~(t.nmatches = 1 /\ t.found # 0)
    BY <1>1, <1>6, <2>2
  <2> HIDE DEF t
  <2> QED
    BY <2>1, <2>2, <2>3, <2>4 DEF Searched, d
<1>7. CASE s.exact = 0 /\ cmdtab[d] # w /\ ~IsPrefix(w, cmdtab[d])
  <2>1. Compare(w, s, d) = s
    BY <1>7 DEF Compare
  <2> QED
    BY <1>1, <1>2, <1>7, <2>1 DEF Searched, d
<1> QED
  BY <1>3, <1>4, <1>5, <1>6, <1>7 DEF d

\* getcmd finds the command of this name, or the only one that begins so.
LEMMA getcmdFinds ==
    ASSUME NEW w \in Seq(STRING), getcmd(w) \in DOMAIN cmdtab
    PROVE  \/ w = cmdtab[getcmd(w)]
           \/ {c \in DOMAIN cmdtab : IsPrefix(w, cmdtab[c])} = {getcmd(w)}
<1> DEFINE n == Len(cmdtab)
           f == Search(w)
           r == f[n]
           T == {c \in Nat : c <= n => Searched(w, f[c], c)}
<1>1. n \in Nat /\ DOMAIN cmdtab = 1 .. n
  BY DEF cmdtab
<1>2. f = CHOOSE h : Loop(h, w, n)
  BY DEF Search, Loop
<1>3. Loop(f, w, n)
  BY <1>1, <1>2, LoopRuns, Zenon
<1>4. getcmd(w) = IF r.exact # 0 THEN r.exact ELSE IF r.nmatches > 1 THEN -1 ELSE r.found
  BY DEF getcmd
<1> HIDE DEF n, f
<1>5. /\ f[0] = [exact |-> 0, longest |-> 0, nmatches |-> 0, found |-> 0]
      /\ \A c \in 1 .. n : f[c] = Compare(w, f[c - 1], c)
  BY <1>1, <1>3 DEF Loop
<1>6. 0 \in T
  BY <1>5 DEF Searched, Matches
<1>7. ASSUME NEW c \in Nat, c \in T PROVE c + 1 \in T
  <2>1. SUFFICES ASSUME c + 1 <= n PROVE Searched(w, f[c + 1], c + 1)
    OBVIOUS
  <2>2. Searched(w, f[c], c)
    BY <1>1, <1>7, <2>1
  <2>3. f[c + 1] = Compare(w, f[c], c + 1)
    BY <1>1, <1>5, <2>1
  <2> QED
    BY <2>2, <2>3, CompareStep
<1> HIDE DEF T
<1>8. n \in T
  BY <1>1, <1>6, <1>7, SetInduction
<1>9. Searched(w, r, n)
  BY <1>1, <1>8 DEF T
<1> HIDE DEF r
<1>10. CASE r.exact # 0
  BY <1>4, <1>9, <1>10 DEF Searched
<1>11. CASE r.exact = 0
  <2>1. r.nmatches \in Nat /\ r.found \in Nat
    BY <1>9 DEF Searched
  <2>2. getcmd(w) = r.found /\ r.found # 0 /\ r.nmatches <= 1
    BY <1>1, <1>4, <1>11, <2>1
  <2>3. Matches(w, n) = {r.found}
    BY <1>9, <1>11, <2>1, <2>2 DEF Searched
  <2> QED
    BY <1>1, <2>2, <2>3 DEF Matches
<1> QED
  BY <1>10, <1>11

\* A handler is only called for its name or for a word that begins no other
\* command (getcmd).
THEOREM CommandMeant == Spec => []CommandIsMeant
<1>1. Init => CommandIsMeant
  BY DEF Init, CommandIsMeant
<1>2. CommandIsMeant /\ [Next]_vars => CommandIsMeant'
  <2> SUFFICES ASSUME CommandIsMeant, [Next]_vars, pc' = "dispatch"
               PROVE  CommandIsMeant'
    BY DEF CommandIsMeant
  <2>1. ASSUME NEW w \in Words, Type(w) PROVE CommandIsMeant'
    <3>1. w \in Seq(STRING)
      BY SessionAssumption
    <3>2. getcmd(w) \in DOMAIN cmdtab /\ cmd'.c = getcmd(w) /\ cmd'.word = w
      BY <2>1 DEF Type
    <3> QED
      BY <3>1, <3>2, getcmdFinds DEF CommandIsMeant
  <2>2. CASE UNCHANGED vars
    BY <2>2 DEF CommandIsMeant, vars
  <2>3. ~Quit /\ ~Prints /\ ~SetMode /\ ~SetTimes /\ ~setpeer /\ ~Get /\ ~Put
    BY DEF Quit, Prints, SetMode, SetTimes, setpeer, Get, Put, SetHost, ToPrompt
  <2>4. ~GetHost /\ ~GetFile /\ ~PutFile /\ ~FilesDone /\ ~initsock
    BY DEF GetHost, GetFile, PutFile, FilesDone, initsock, SetHost, Begin, NextFile,
           AfterTransfer, ToPrompt
  <2>5. ~Send /\ (\A p \in net : ~Receive(p)) /\ ~Timer /\ ~intr
    BY DEF Send, Receive, Timer, intr, Toplevel, Ends, ToPrompt
  <2> QED
    BY <2>1, <2>2, <2>3, <2>4, <2>5 DEF Next
<1> QED
  BY <1>1, <1>2, PTL DEF Spec

=============================================================================
