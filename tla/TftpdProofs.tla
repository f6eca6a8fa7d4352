---------------------------- MODULE TftpdProofs ----------------------------
(***************************************************************************)
(* Proofs about Tftpd, for every set of datagrams, every number of         *)
(* children, and both users inetd may run tftpd as: the inductive          *)
(* invariant Inv, and with it that every answer goes to the client whose   *)
(* request it answers and that no private file is overwritten.             *)
(***************************************************************************)
EXTENDS Tftpd, TLAPS

-----------------------------------------------------------------------------
(* The files an administrator installs.                                    *)

\* An installed file is one of the administrator's, or there is none.
LEMMA InstalledFile ==
    ASSUME NEW f \in Installed
    PROVE  /\ f \in FileState
           /\ FileOK(f)
<1>1. CASE f = Absent
  BY <1>1 DEF Absent, FileState, FileOK
<1>2. CASE f # Absent
  <2>1. PICK r \in BOOLEAN, w \in BOOLEAN : f = Orig(r, w)
    BY <1>2 DEF Installed
  <2> QED
    BY <2>1 DEF Orig, FileState, FileOK
<1> QED
  BY <1>1, <1>2

-----------------------------------------------------------------------------
(* main.                                                                   *)

\* The next trip keeps the request, and the counter below 20.
LEMMA AgainKeeps ==
    ASSUME NEW m \in MainState, NEW i \in Int, i >= -1, Together(m)
    PROVE  LET n == Again(m, i)
           IN  n = NoMain \/ (n \in MainState /\ Together(n))
<1>1. CASE i + 1 < 20
  <2> DEFINE n == [m EXCEPT !.pc = "fork", !.i = i + 1]
  <2>1. i + 1 \in 0 .. 19
    BY <1>1
  <2>2. n \in MainState /\ n.mixed = m.mixed /\ n.from = m.from /\ n.buf = m.buf
    BY <2>1 DEF MainState
  <2> HIDE DEF n
  <2>3. Together(n)
    BY <2>2 DEF Together
  <2> QED
    BY <1>1, <2>2, <2>3 DEF Again, n
<1>2. CASE ~(i + 1 < 20)
  BY <1>2 DEF Again
<1> QED
  BY <1>1, <1>2

\* A datagram that is taken replaces the request and the sender; one without
\* bytes replaces only the sender, and is marked unless it is the same.
LEMMA TakenKeeps ==
    ASSUME NEW m \in MainState, NEW d \in Datagrams, Together(m)
    PROVE  LET n == Taken(m, d)
           IN  n = NoMain \/ (n \in MainState /\ Together(n))
<1> DEFINE e == [m EXCEPT !.buf   = IF d.size > 0 THEN d ELSE @,
                          !.from  = d.from,
                          !.mixed = IF d.size > 0 THEN FALSE
                                    ELSE @ \/ d.from # m.buf.from]
<1>1. d.size \in Int /\ d.size >= -1 /\ d.from \in Senders
  BY DatagramsAssumption DEF Senders
<1>2. e \in MainState /\ Together(e)
  <2>1. CASE d.size > 0
    <3>1. e = [m EXCEPT !.buf = d, !.from = d.from, !.mixed = FALSE]
      BY <2>1
    <3>2. e \in MainState /\ e.from = d.from /\ e.buf = d
      BY <1>1, <3>1 DEF MainState
    <3> QED
      BY <3>2 DEF Together
  <2>2. CASE ~(d.size > 0)
    <3> DEFINE x == m.mixed \/ d.from # m.buf.from
    <3>1. e = [m EXCEPT !.from = d.from, !.mixed = x]
      BY <2>2 DEF MainState
    <3>2. x \in BOOLEAN
      OBVIOUS
    <3> HIDE DEF x
    <3>3. e \in MainState /\ e.from = d.from /\ e.buf = m.buf /\ e.mixed = x
      BY <1>1, <3>1, <3>2 DEF MainState
    <3> HIDE DEF e
    <3>4. e.mixed <=> (m.mixed \/ d.from # m.buf.from)
      BY <3>2, <3>3 DEF x
    <3>5. Together(e)
      BY <3>3, <3>4, Zenon DEF Together
    <3> QED
      BY <3>3, <3>5
  <2> QED
    BY <2>1, <2>2
<1> HIDE DEF e
<1>3. Taken(m, d) = Again(e, d.size)
  BY DEF Taken, e
<1> QED
  BY <1>1, <1>2, <1>3, AgainKeeps

-----------------------------------------------------------------------------
(* A child.                                                                *)

\* A child that moves on keeps its request and its sender, and is nobody
\* from stat on.
LEMMA ChildMoves ==
    ASSUME NEW k \in ChildState, ChildOK(k),
           NEW q \in {"stat", "open", "serve", "end"}, NEW u \in {"root", "nobody"},
           NEW n \in BOOLEAN, q # "end" => u = "nobody"
    PROVE  LET j == [k EXCEPT !.pc = q, !.uid = u, !.naked = n]
           IN  j \in ChildState /\ ChildOK(j) /\ j # NoChild
<1> DEFINE j == [k EXCEPT !.pc = q, !.uid = u, !.naked = n]
<1>1. j \in ChildState /\ j.pc = q /\ j.uid = u /\ j.mixed = k.mixed
      /\ j.from = k.from /\ j.buf = k.buf
  BY DEF ChildState
<1> HIDE DEF j
<1>2. ChildOK(j)
  BY <1>1 DEF ChildOK, Together
<1>3. j # NoChild
  BY <1>1 DEF NoChild
<1> QED
  BY <1>1, <1>2, <1>3 DEF j

\* A child's step: no other child, nor main, the flags or the queue, changes.
Quiet == UNCHANGED <<flags, queue, main, arrived, changes>>

\* Inv after one child has come to a state that ChildOK allows.
LEMMA ChildStepInv ==
    ASSUME Inv, NEW c \in Children, Quiet,
           NEW j \in ChildState, ChildOK(j), child' = [child EXCEPT ![c] = j],
           file' \in FileState, FileOK(file')
    PROVE  Inv'
<1>1. TypeOK'
  BY DEF Inv, TypeOK, Quiet
<1>2. \A x \in Children : child'[x] # NoChild => ChildOK(child'[x])
  BY DEF Inv, TypeOK
<1>3. main' # NoMain => Together(main')
  BY DEF Inv, Quiet
<1> QED
  BY <1>1, <1>2, <1>3 DEF Inv

\* A process that is no longer free is a child in some state.
LEMMA ChildIs ==
    ASSUME Inv, NEW c \in Children, child[c].pc # "free"
    PROVE  child[c] \in ChildState /\ ChildOK(child[c]) /\ child[c] # NoChild
<1>1. child[c] \in {NoChild} \cup ChildState
  BY DEF Inv, TypeOK
<1>2. child[c] # NoChild
  BY DEF NoChild
<1> QED
  BY <1>1, <1>2 DEF Inv

\* exit, with or without an error packet.
LEMMA ExitInv ==
    ASSUME Inv, NEW c \in Children, child[c].pc # "free", Nak(c) \/ Exit(c),
           Quiet, file' \in FileState, FileOK(file')
    PROVE  Inv'
<1> DEFINE k == child[c]
<1>1. k \in ChildState /\ ChildOK(k)
  BY ChildIs
<1>2. k.uid \in {"root", "nobody"} /\ k.naked \in BOOLEAN
  BY <1>1 DEF ChildState
<1>3. CASE Nak(c)
  <2> DEFINE j == [k EXCEPT !.pc = "end", !.uid = k.uid, !.naked = TRUE]
  <2>1. j \in ChildState /\ ChildOK(j)
    BY <1>1, <1>2, ChildMoves
  <2>2. child' = [child EXCEPT ![c] = j]
    BY <1>1, <1>3 DEF Nak, Inv, TypeOK, ChildState
  <2> HIDE DEF j
  <2> QED
    BY <2>1, <2>2, ChildStepInv
<1>4. CASE Exit(c)
  <2> DEFINE j == [k EXCEPT !.pc = "end", !.uid = k.uid, !.naked = k.naked]
  <2>1. j \in ChildState /\ ChildOK(j)
    BY <1>1, <1>2, ChildMoves
  <2>2. child' = [child EXCEPT ![c] = j]
    BY <1>1, <1>4 DEF Exit, Inv, TypeOK, ChildState
  <2> HIDE DEF j
  <2> QED
    BY <2>1, <2>2, ChildStepInv
<1> QED
  BY <1>3, <1>4

\* From fork to stat: a child that goes on is nobody.
LEMMA ChildStartInv ==
    ASSUME Inv, NEW c \in Children, ChildStart(c)
    PROVE  Inv' /\ UNCHANGED file
<1> DEFINE k == child[c]
<1>1. k.pc = "start" /\ Quiet /\ UNCHANGED file
  BY DEF ChildStart, Quiet
<1>2. CASE Nak(c) \/ Exit(c)
  <2>1. file' \in FileState /\ FileOK(file')
    BY <1>1 DEF Inv, TypeOK
  <2> QED
    BY <1>1, <1>2, <2>1, ExitInv
<1>3. CASE \E u \in DropRoot(k.uid) \ {"none"} :
              child' = [child EXCEPT ![c].pc = "stat", ![c].uid = u]
  <2>1. PICK u \in DropRoot(k.uid) \ {"none"} :
              child' = [child EXCEPT ![c].pc = "stat", ![c].uid = u]
    BY <1>3
  <2>2. k \in ChildState /\ ChildOK(k)
    BY <1>1, ChildIs
  <2>3. k.naked \in BOOLEAN /\ u = "nobody"
    BY <2>1, <2>2 DEF ChildState, DropRoot
  <2> DEFINE j == [k EXCEPT !.pc = "stat", !.uid = u, !.naked = k.naked]
  <2>4. j \in ChildState /\ ChildOK(j)
    BY <2>2, <2>3, ChildMoves
  <2>5. child' = [child EXCEPT ![c] = j]
    BY <2>1, <2>2 DEF Inv, TypeOK, ChildState
  <2>6. file' \in FileState /\ FileOK(file')
    BY <1>1 DEF Inv, TypeOK
  <2> HIDE DEF j
  <2> QED
    BY <1>1, <2>4, <2>5, <2>6, ChildStepInv
<1>4. \/ Nak(c) \/ Exit(c)
      \/ \E u \in DropRoot(k.uid) \ {"none"} :
              child' = [child EXCEPT ![c].pc = "stat", ![c].uid = u]
  BY DEF ChildStart
<1> QED
  BY <1>1, <1>2, <1>3, <1>4

\* A child that goes on from stat or open stays nobody, on whatever file.
LEMMA GoesOnInv ==
    ASSUME Inv, NEW c \in Children, child[c].pc \in {"stat", "open"}, Quiet,
           NEW q \in {"open", "serve"}, child' = [child EXCEPT ![c].pc = q],
           file' \in FileState, FileOK(file')
    PROVE  Inv'
<1> DEFINE k == child[c]
<1>1. k \in ChildState /\ ChildOK(k)
  BY ChildIs
<1>2. k.naked \in BOOLEAN /\ k.uid = "nobody"
  BY <1>1 DEF ChildState, ChildOK
<1> DEFINE j == [k EXCEPT !.pc = q, !.uid = k.uid, !.naked = k.naked]
<1>3. j \in ChildState /\ ChildOK(j)
  BY <1>1, <1>2, ChildMoves
<1>4. child' = [child EXCEPT ![c] = j]
  BY <1>1 DEF Inv, TypeOK, ChildState
<1> HIDE DEF j
<1> QED
  BY <1>3, <1>4, ChildStepInv

\* stat answers, and changes no file.
LEMMA ChildStatInv ==
    ASSUME Inv, NEW c \in Children, ChildStat(c)
    PROVE  Inv' /\ UNCHANGED file
<1>1. child[c].pc = "stat" /\ Quiet /\ UNCHANGED file
  BY DEF ChildStat, Quiet
<1>2. Nak(c) \/ Exit(c) \/ child' = [child EXCEPT ![c].pc = "open"]
  BY DEF ChildStat, NotFound
<1>3. file' \in FileState /\ FileOK(file')
  BY <1>1 DEF Inv, TypeOK
<1> QED
  BY <1>1, <1>2, <1>3, ExitInv, GoesOnInv

\* open truncates or creates the file only as nobody, and a file of the
\* administrator only when everybody may write it.
LEMMA ChildOpenInv ==
    ASSUME Inv, NEW c \in Children, ChildOpen(c)
    PROVE  /\ Inv'
           /\ file.content = "orig" /\ file'.content = "tftpd" => file.w
<1>1. child[c].pc = "open" /\ Quiet
  BY DEF ChildOpen, Quiet
<1>2. child[c] \in ChildState /\ ChildOK(child[c]) /\ child[c].uid = "nobody"
  BY <1>1, ChildIs DEF ChildOK
<1>3. file \in FileState /\ FileOK(file)
  BY DEF Inv, TypeOK
<1>4. CASE UNCHANGED file
  <2>1. Nak(c) \/ child' = [child EXCEPT ![c].pc = "serve"]
    BY DEF ChildOpen
  <2>2. file' \in FileState /\ FileOK(file')
    BY <1>3, <1>4
  <2>3. ~(file.content = "orig" /\ file'.content = "tftpd")
    BY <1>4
  <2> QED
    BY <1>1, <1>4, <2>1, <2>2, <2>3, ExitInv, GoesOnInv
<1>5. CASE /\ child[c].buf.op = "WRQ"
           /\ file.exists => Permits("nobody", "WRQ")
           /\ child' = [child EXCEPT ![c].pc = "serve"] \/ Nak(c)
           /\ file' = Opened("nobody")
  <2>1. file' \in FileState /\ file'.content = "tftpd"
    BY <1>3, <1>5 DEF Opened, FileState
  <2>2. FileOK(file')
    BY <2>1 DEF FileOK
  <2>3. file.content = "orig" => file.w
    BY <1>3, <1>5 DEF FileOK, Permits
  <2> QED
    BY <1>1, <1>5, <2>1, <2>2, <2>3, ExitInv, GoesOnInv
<1> QED
  BY <1>2, <1>4, <1>5 DEF ChildOpen

-----------------------------------------------------------------------------
(* The theorems.                                                           *)

\* Init establishes Inv.
LEMMA InitInv == Init => Inv
<1> SUFFICES ASSUME Init PROVE Inv
  OBVIOUS
<1>1. file \in FileState /\ FileOK(file)
  BY InstalledFile DEF Init
<1>2. queue \in Seq(Datagrams) /\ Len(queue) = 0 /\ MaxQueue \in Nat
  BY BoundsAssumption DEF Init
<1>3. TypeOK
  BY <1>1, <1>2 DEF Init, TypeOK
<1> QED
  BY <1>1, <1>3 DEF Init, Inv

\* Every step keeps Inv, and leaves a private file of the administrator alone.
LEMMA NextInv ==
    ASSUME Inv, [Next]_vars
    PROVE  /\ Inv'
           /\ file.content = "orig" /\ file'.content = "tftpd" => file.w
<1>0. /\ main # NoMain => main \in MainState /\ Together(main)
      /\ queue \in Seq(Datagrams) /\ Len(queue) \in Nat /\ Len(queue) <= MaxQueue
      /\ MaxQueue \in Nat
  BY BoundsAssumption DEF Inv, TypeOK
<1>1. CASE Arrive
  <2>1. queue' \in Seq(Datagrams) /\ Len(queue') <= MaxQueue /\ arrived' \in Nat
    BY <1>0, <1>1 DEF Arrive, Inv, TypeOK
  <2>2. UNCHANGED <<flags, main, child, file, changes>>
    BY <1>1 DEF Arrive
  <2>3. Inv'
    BY <2>1, <2>2 DEF Inv, TypeOK
  <2> QED
    BY <2>2, <2>3
<1>2. CASE Admin
  <2>1. file' \in FileState /\ FileOK(file') /\ file'.content # "tftpd"
    BY <1>2, InstalledFile DEF Admin, Installed, Absent, Orig
  <2>2. UNCHANGED <<flags, queue, main, child, arrived>> /\ changes' \in Nat
    BY <1>2 DEF Admin, Inv, TypeOK
  <2>3. Inv'
    BY <2>1, <2>2 DEF Inv, TypeOK
  <2> QED
    BY <2>1, <2>3
<1>3. CASE MainStart
  <2>1. Head(queue) \in Datagrams /\ Tail(queue) \in Seq(Datagrams)
        /\ Len(Tail(queue)) <= MaxQueue
    BY <1>0, <1>3 DEF MainStart
  <2>2. main' \in MainState /\ Together(main')
    BY <1>3, <2>1 DEF MainStart, MainState, Senders, Together
  <2>3. UNCHANGED <<flags, child, file, arrived, changes>> /\ queue' = Tail(queue)
    BY <1>3 DEF MainStart
  <2>4. Inv'
    BY <2>1, <2>2, <2>3 DEF Inv, TypeOK
  <2> QED
    BY <2>3, <2>4
<1>4. CASE ForkOk
  <2>1. PICK c \in Children : child' = [child EXCEPT ![c] =
            [pc |-> "start", buf |-> main.buf, from |-> main.from,
             mixed |-> main.mixed, uid |-> User, naked |-> FALSE]]
    BY <1>4 DEF ForkOk
  <2>2. /\ main.pc = "fork" /\ main' = NoMain
        /\ UNCHANGED <<flags, queue, file, arrived, changes>>
    BY <1>4 DEF ForkOk
  <2> DEFINE j == [pc |-> "start", buf |-> main.buf, from |-> main.from,
                   mixed |-> main.mixed, uid |-> User, naked |-> FALSE]
  <2>3. main \in MainState /\ Together(main)
    BY <1>0, <2>2 DEF NoMain
  <2>4. j \in ChildState /\ j.pc = "start" /\ j.mixed = main.mixed
        /\ j.from = main.from /\ j.buf = main.buf
    BY <2>3, DatagramsAssumption DEF MainState, ChildState
  <2>5. child' = [child EXCEPT ![c] = j]
    BY <2>1
  <2> HIDE DEF j
  <2>6. ChildOK(j)
    BY <2>3, <2>4 DEF ChildOK, Together
  <2>7. TypeOK'
    BY <2>2, <2>4, <2>5 DEF Inv, TypeOK
  <2>8. \A x \in Children : child'[x] # NoChild => ChildOK(child'[x])
    BY <2>5, <2>6 DEF Inv, TypeOK
  <2>9. Inv'
    BY <2>2, <2>7, <2>8 DEF Inv
  <2> QED
    BY <2>2, <2>9
<1>5. CASE ForkFails
  <2>1. main.pc = "fork" /\ main' = [main EXCEPT !.pc = "sleep"]
        /\ UNCHANGED <<flags, queue, child, file, arrived, changes>>
    BY <1>5 DEF ForkFails
  <2>2. main \in MainState /\ Together(main)
    BY <1>0, <2>1 DEF NoMain
  <2>3. main' \in MainState /\ Together(main')
    BY <2>1, <2>2 DEF MainState, Together
  <2>4. Inv'
    BY <2>1, <2>3 DEF Inv, TypeOK
  <2> QED
    BY <2>1, <2>4
<1>6. CASE Flush
  <2>1. main.pc = "sleep" /\ UNCHANGED <<flags, child, file, arrived, changes>>
    BY <1>6 DEF Flush
  <2>2. main \in MainState /\ Together(main)
    BY <1>0, <2>1 DEF NoMain
  <2>3. main' = NoMain \/ (main' \in MainState /\ Together(main'))
    <3>1. CASE queue # << >> /\ main' = Taken(main, Head(queue))
      <4>1. Head(queue) \in Datagrams
        BY <1>0, <3>1
      <4> QED
        BY <2>2, <3>1, <4>1, TakenKeeps
    <3>2. CASE main' = Again(main, -1)
      BY <2>2, <3>2, AgainKeeps
    <3> QED
      BY <1>6, <3>1, <3>2 DEF Flush
  <2>4. queue' \in Seq(Datagrams) /\ Len(queue') <= MaxQueue
    BY <1>0, <1>6 DEF Flush
  <2>5. Inv'
    BY <2>1, <2>3, <2>4 DEF Inv, TypeOK
  <2> QED
    BY <2>1, <2>5
<1>7. ASSUME NEW c \in Children, ChildStep(c)
      PROVE  /\ Inv'
             /\ file.content = "orig" /\ file'.content = "tftpd" => file.w
  <2>1. CASE ChildStart(c)
    BY <2>1, ChildStartInv
  <2>2. CASE ChildStat(c)
    BY <2>2, ChildStatInv
  <2>3. CASE ChildOpen(c)
    BY <2>3, ChildOpenInv
  <2>4. CASE ChildServe(c)
    <3>1. child[c].pc = "serve" /\ Exit(c) /\ Quiet /\ UNCHANGED file
      BY <2>4 DEF ChildServe, Quiet
    <3>2. file' \in FileState /\ FileOK(file')
      BY <3>1 DEF Inv, TypeOK
    <3> QED
      BY <3>1, <3>2, ExitInv
  <2>5. CASE ChildEnd(c)
    <3>1. child' = [child EXCEPT ![c] = NoChild]
          /\ UNCHANGED <<flags, queue, main, file, arrived, changes>>
      BY <2>5 DEF ChildEnd
    <3>2. TypeOK'
      BY <3>1 DEF Inv, TypeOK
    <3>3. \A x \in Children : child'[x] # NoChild => ChildOK(child'[x])
      BY <3>1 DEF Inv, TypeOK
    <3> QED
      BY <3>1, <3>2, <3>3 DEF Inv
  <2> QED
    BY <1>7, <2>1, <2>2, <2>3, <2>4, <2>5 DEF ChildStep
<1>8. CASE UNCHANGED vars
  BY <1>8 DEF Inv, TypeOK, vars
<1> QED
  BY <1>1, <1>2, <1>3, <1>4, <1>5, <1>6, <1>7, <1>8 DEF Next

\* Inv is an invariant of Tftpd.
THEOREM Invariance == Spec => []Inv
<1>1. Init => Inv
  BY InitInv
<1>2. Inv /\ [Next]_vars => Inv'
  BY NextInv
<1> QED
  BY <1>1, <1>2, PTL DEF Spec

\* Everything keeps its type; main's counter stays below 20 whatever the sizes
\* of the datagrams it takes, and tftpd creates no file as root.
THEOREM TypeCorrect == Spec => []TypeOK
<1>1. Inv => TypeOK
  BY DEF Inv
<1> QED
  BY <1>1, Invariance, PTL

\* Whatever a child sends goes to the client whose request is in its buffer.
THEOREM AnswersGoToSender == Spec => []AnswersSender
<1>1. Inv => AnswersSender
  BY ChildIs DEF AnswersSender, ChildOK, Together
<1> QED
  BY <1>1, Invariance, PTL

\* No child overwrites a file of the administrator that is not publicly
\* writable, whatever happens between its stat and its open.
THEOREM PrivateFilesSafe == Spec => PrivateUntouched
<1>1. Inv /\ [Next]_vars
          => [file.content = "orig" /\ file'.content = "tftpd" => file.w]_vars
  BY NextInv
<1> QED
  BY <1>1, Invariance, PTL DEF Spec, PrivateUntouched

=============================================================================
