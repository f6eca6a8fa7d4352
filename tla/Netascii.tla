------------------------------ MODULE Netascii ------------------------------
(***************************************************************************)
(* The netascii conversion of tftp/tftpsubs.c, by the client and the tftpd *)
(* that send or receive a file in that mode.  The sender fills one packet  *)
(* buffer at a time (read_ahead), the receiver writes one out at a time    *)
(* (write_behind), and a line end may be cut in two by the border of a     *)
(* buffer: newline and prevchar carry it across.                           *)
(*                                                                         *)
(* That blocks reach the receiver once each and in order is the business   *)
(* of Download and Upload; here they go through a queue.  As in those      *)
(* modules a block shorter than SEGSIZE is the last one.                   *)
(***************************************************************************)
EXTENDS Integers, Sequences, SequencesExt

CONSTANTS
    SEGSIZE,    \* bytes in a full data block (512 in the code)
    MaxText     \* bound: length of the files that are sent

ASSUME NetasciiAssumption == SEGSIZE \in Nat \ {0} /\ MaxText \in Nat

Char   == {"lf", "cr", "nul", "x"}     \* "x": any other character
NoChar == "none"                       \* prevchar = -1

VARIABLES
    text,       \* the file that is sent
    snd,        \* the sender: FILE position, newline, prevchar
    queue,      \* blocks sent and not yet written
    wire,       \* ghost: all bytes sent so far
    rcv         \* the receiver: prevchar, the file and the FILE position

naVars == <<text, snd, queue, wire, rcv>>

Sender   == [pos : 0 .. MaxText, newline : BOOLEAN, prevchar : Char \cup {NoChar},
             done : BOOLEAN, failed : BOOLEAN]
Receiver == [prevchar : Char \cup {NoChar}, file : Seq(Char), pos : Nat,
             done : BOOLEAN]

\* Each process starts with rw_init; the receiver's file has been truncated.
NAInit == /\ text \in UNION {[1 .. n -> Char] : n \in 0 .. MaxText}
          /\ snd = [pos |-> 0, newline |-> FALSE, prevchar |-> NoChar,
                    done |-> FALSE, failed |-> FALSE]
          /\ queue = << >>
          /\ wire = << >>
          /\ rcv = [prevchar |-> NoChar, file |-> << >>, pos |-> 0, done |-> FALSE]

-----------------------------------------------------------------------------
(* The sender.  A fill is the sender's flags, the buffer so far and whether *)
(* getc has returned EOF, which it does at the end of the file and when    *)
(* read(2) fails: the loop does not ask which.                             *)

\* getc(file): file is readable up to its limit-th character.
getc(f, limit) == IF f.pos < limit THEN text[f.pos + 1] ELSE "eof"

\* Mutant of FillChar: the test for EOF is missing.
FillCharUnchecked(f, limit) ==
    [f EXCEPT !.buf = Append(@, getc(f, limit)), !.pos = @ + 1]

\* One trip of the loop: the second half of a line end, or the next character.
FillChar(f, limit) ==
    LET c == getc(f, limit)
    IN  CASE f.newline ->
               [f EXCEPT !.buf = Append(@, IF f.prevchar = "lf" THEN "lf" ELSE "nul"),
                         !.newline = FALSE]
          [] ~f.newline /\ c = "eof" -> [f EXCEPT !.eof = TRUE]
          [] ~f.newline /\ c \in {"lf", "cr"} ->
               [f EXCEPT !.buf = Append(@, "cr"), !.pos = @ + 1,
                         !.prevchar = c, !.newline = TRUE]
          [] OTHER -> [f EXCEPT !.buf = Append(@, c), !.pos = @ + 1]

\* Mutant of FillBegin: every block starts with a fresh line.
FillBeginFresh(s) == [pos |-> s.pos, newline |-> FALSE, prevchar |-> s.prevchar,
                      buf |-> << >>, eof |-> FALSE]

\* The buffer and flags a fill begins with: the flags of the block before.
FillBegin(s) == [pos |-> s.pos, newline |-> s.newline, prevchar |-> s.prevchar,
                 buf |-> << >>, eof |-> FALSE]

\* The loop: at most SEGSIZE characters, until EOF.
Fill(s, limit) ==
    LET fill[i \in 0 .. SEGSIZE] ==
            IF i = 0 THEN FillBegin(s)
            ELSE IF fill[i - 1].eof THEN fill[i - 1]
            ELSE FillChar(fill[i - 1], limit)
    IN  fill

read_ahead(s, limit) == Fill(s, limit)[SEGSIZE]

\* A block is read and sent.  read(2) may fail at any character from here on;
\* a short block ends the transfer.
SendBlock ==
    /\ ~snd.done
    /\ \E limit \in snd.pos .. Len(text) :
          LET f == read_ahead(snd, limit)
          IN  /\ limit < Len(text) => f.eof
              /\ snd' = [pos |-> f.pos, newline |-> f.newline,
                         prevchar |-> f.prevchar,
                         done     |-> Len(f.buf) < SEGSIZE,
                         failed   |-> limit < Len(text)]
              /\ queue' = Append(queue, f.buf)
              /\ wire' = wire \o f.buf
    /\ UNCHANGED <<text, rcv>>

-----------------------------------------------------------------------------
(* The receiver.                                                           *)

\* putc(c, file): overwrites what is at the position of the FILE.
putc(r, c) == [r EXCEPT !.file = SubSeq(@, 1, r.pos) \o <<c>>
                                     \o SubSeq(@, r.pos + 2, Len(@)),
                        !.pos  = @ + 1]

\* One trip of the loop: LF after CR is written over it, NUL after CR skipped.
PutChar(r, c) ==
    LET p == IF r.prevchar = "cr" /\ c = "lf" THEN putc([r EXCEPT !.pos = @ - 1], c)
             ELSE IF r.prevchar = "cr" /\ c = "nul" THEN r
             ELSE putc(r, c)
    IN  [p EXCEPT !.prevchar = c]

\* The loop over the characters of the buffer.
Put(r, buf) ==
    LET put[i \in 0 .. Len(buf)] == IF i = 0 THEN r ELSE PutChar(put[i - 1], buf[i])
    IN  put

\* Mutant of write_behind: the character before the block is forgotten.
write_behind_forgets(r, buf) == Put([r EXCEPT !.prevchar = NoChar], buf)[Len(buf)]

write_behind(r, buf) == Put(r, buf)[Len(buf)]

\* The next block is written; an empty one (nothing to write) only ends it.
ReceiveBlock ==
    /\ ~rcv.done
    /\ queue # << >>
    /\ rcv' = [write_behind(rcv, Head(queue)) EXCEPT !.done = Len(Head(queue)) < SEGSIZE]
    /\ queue' = Tail(queue)
    /\ UNCHANGED <<text, snd, wire>>

\* Stop and wait: block k + 1 may be filled ahead, not more.
NANext == \/ Len(queue) < 2 /\ SendBlock
          \/ ReceiveBlock

NASpec == NAInit /\ [][NANext]_naVars

-----------------------------------------------------------------------------
(* Reference: RFC 764 line ends, character by character.                   *)

Code(c) == CASE c = "lf" -> <<"cr", "lf">>
             [] c = "cr" -> <<"cr", "nul">>
             [] OTHER    -> <<c>>

\* The encodings of the prefixes of s.
Encoding(s) ==
    LET enc[n \in 0 .. Len(s)] == IF n = 0 THEN << >> ELSE enc[n - 1] \o Code(s[n])
    IN  enc

Encode(s) == Encoding(s)[Len(s)]

\* Every character and flag is of its type (read_ahead, write_behind).
NATypeOK == /\ text \in Seq(Char)
            /\ snd \in Sender
            /\ queue \in Seq(Seq(Char))
            /\ wire \in Seq(Char)
            /\ rcv \in Receiver

\* What read_ahead has put on the wire is the encoding of the file, cut into
\* blocks anywhere: no line end is dropped, doubled or torn at a block border.
\* When the sender is done the encoding is complete, unless a read failed.
WireIsEncoding ==
    /\ IsPrefix(wire, Encode(text))
    /\ snd.done /\ ~snd.failed => wire = Encode(text)

\* What write_behind has put into the file is the sender's text so far, but
\* for a CR that still waits for the LF to be written over it; and when the
\* receiver is done the file is the text.  A read error is taken for the end
\* of the file (getc returns EOF for both): then the file is cut short, but
\* still ends with a whole character, never with half a line end.
FileIsText ==
    LET n == Len(rcv.file)
    IN  /\ n <= Len(text)
        /\ \A i \in 1 .. n :
              \/ rcv.file[i] = text[i]
              \/ i = n /\ rcv.prevchar = "cr" /\ rcv.file[i] = "cr" /\ text[i] = "lf"
        /\ rcv.done => IsPrefix(rcv.file, text)
        /\ rcv.done /\ ~snd.failed => rcv.file = text
        /\ rcv.pos = n

\* Why these hold: the inductive invariant.  w is the encoding of the first pos
\* characters of the text, or lacks the second half of the last one, which is
\* then a line end (newline, prevchar of the sender).
Encodes(w, pos, newline) ==
    /\ pos \in 0 .. Len(text)
    /\ ~newline => w = Encoding(text)[pos]
    /\ newline => /\ pos > 0
                  /\ text[pos] \in {"lf", "cr"}
                  /\ w = Append(Encoding(text)[pos - 1], "cr")

SenderAt(w, s) == /\ Encodes(w, s.pos, s.newline)
                  /\ s.newline => s.prevchar = text[s.pos]

\* The receiver's file holds the characters it has got whole, and a CR for half
\* a line end, which prevchar remembers.
ReceiverAt(w, r) ==
    LET n == Len(r.file)
    IN  /\ r.pos = n
        /\ Encodes(w, n, r.prevchar = "cr")
        /\ \A i \in 1 .. n : r.file[i] = IF i = n /\ r.prevchar = "cr" THEN "cr" ELSE text[i]

\* What is in the queue, and what has been taken out of it.
Pending == IF Len(queue) = 0 THEN << >>
           ELSE IF Len(queue) = 1 THEN queue[1]
           ELSE queue[1] \o queue[2]

Taken == SubSeq(wire, 1, Len(wire) - Len(Pending))

NAInv == /\ NATypeOK
         /\ SenderAt(wire, snd)
         /\ snd.failed => snd.done
         /\ snd.done => ~snd.newline
         /\ snd.done /\ ~snd.failed => snd.pos = Len(text)
         /\ Len(queue) <= 2
         /\ \A i \in 1 .. Len(queue) :
               Len(queue[i]) < SEGSIZE <=> snd.done /\ i = Len(queue)
         /\ wire = Taken \o Pending
         /\ ReceiverAt(Taken, rcv)
         /\ rcv.done => snd.done /\ queue = << >>

=============================================================================
