# netkit-tftp in TLA+

TLA+ models of the TFTP client with its command shell, the classic `tftpd` from
its start by inetd on, and the asynchronous upload server of this repository, the
TLC configurations that check them, and TLAPS proofs of their safety properties.

## 1. The system

### Components

| Component | Source | State | Operations |
|---|---|---|---|
| client receive loop (`get`) | `tftp/tftp.c` `recvfile` | block, dp, ackbuf, `from`, `timeout`, file | request, accept, resend ACK, ignore, ERROR, timer, final ACK |
| client send loop (`put`) | `tftp/tftp.c` `sendfile` | block, dp, size, `from`, `timeout`, file | request, next block, resend, ignore, ERROR, timer |
| tftpd send loop | `tftpd/tftpd.c` `sendfile` | block, dp, size, `timeout` | first/next block, resend, timer |
| tftpd receive loop | `tftpd/tftpd.c` `recvfile` | block, dp, `timeout`, the file on disk | ACK, accept, resend ACK, timer, final ACK, linger |
| double buffering | `tftp/tftpsubs.c`, `tftp_subs.cpp` | `bfs[2]`, `current`, `nextone` | `rw_init`, `readit`, `read_ahead`, `writeit`, `write_behind`, `synchnet` |
| asynchronous server | `tftpd.hpp`, `async_tftpd_server.cpp` | outstanding asio operation, `timer_`, `timeout_`, `last_timeout_`, block, buffers, `file_path_` | one handler per asio operation |
| tftpd start-up | `tftpd/tftpd.c` `main` | the request and its sender, retry counter, user id | receive, fork loop with flush, drop privileges |
| request handling of tftpd | `tftpd/tftpd.c` `tftp`, `validate_access` | open file | parse, check, stat, open/truncate, nak |
| request handling of the asynchronous server | `tftpd_utils.cpp` | open file, path, OACK | parse, check, open/truncate |
| option negotiation | `tftpd_options.cpp` | `g_segsize`, `g_timeout`, `g_tsize`, `blksize_set` | `init_opt`, `do_opt`, one setter per option |
| client shell | `tftp/main.c` | peer, mode, `rexmtval`, `maxtimeout`, socket, signal handlers, jump buffers | commands, several transfers, SIGINT |

Statistics, tracing, the example library, the tests and the build files have no
behaviour of interest here.

### Interaction

The client sends a request to the well-known port. inetd starts one `tftpd` for
every copy of it that arrives; each answers from a port of its own, and the
client, which never checks who is talking, replies to whoever spoke last
(`from`). The two loops exchange DATA and ACK packets, stop and wait, over UDP;
each is driven by its own SIGALRM. The loops keep one block in hand and one
ahead (or behind) in the two buffers of `tftpsubs.c`. All tftpds of a `put`
write the same file. The asynchronous server plays tftpd's part for one upload
in a single thread of asio handlers. All transfers of a client's session share
its socket, its alarm and its jump buffers.

### What is hard

Copies of a request served at once; packets lost, repeated, delayed and
reordered; 16-bit block numbers that wrap; a signal between `recvfrom` and
`alarm(0)`; buffers read ahead while the current one may have to be resent; a
last block that is acknowledged and must be flushed; the final ACK lost; asio
handlers that run after they were "cancelled"; writes whose result is ignored;
line ends cut by a block border; fork failing while requests queue up; files
that change between `stat` and `open`; option globals that outlive a request;
transfers torn away by `siglongjmp` on a socket the next one uses; everybody's
eventual end. `PROJECT.json` lists these hazards line by line, with
the properties that cover them.

### What makes it correct

The receiver's file is the blocks it accepted, each once and in order; a
transfer is reported complete only when the file is; the sender never gets
ahead; resent packets are the packets they repeat; a text survives netascii; a
tftpd answers the sender of the request it serves and leaves private files
alone; an upload is served with the block size acknowledged for it; a transfer of a session
talks to its own server on its own socket; every process and command ends.

## 2. Modules

| Module | Models |
|---|---|
| `Tftpsubs` | the two packet buffers of `tftpsubs.c` as pure operators on a record; the payload of a buffer is the number of the file segment in it |
| `Wire` | packets, the set of datagrams sent, 16-bit comparison of block numbers, the timer's sum |
| `FileTransfer` | the abstract specification: what a transfer promises |
| `Download` | `get`: the client's `recvfile` with any number of tftpd `sendfile` processes |
| `PutClient` | the client's `sendfile` |
| `Upload` | `PutClient` with any number of tftpd `recvfile` processes on one file |
| `AsyncUpload` | `PutClient` with the asynchronous server |
| `Netascii` | the conversions of `read_ahead` and `write_behind` in netascii mode, sender and receiver with a reliable block queue between them |
| `Tftpd` | `tftpd.c` from inetd to the call of `sendfile`/`recvfile`: fork loop, privileges, request, access checks; several children, files that change meanwhile |
| `TftpdOptions` | the option setters of `tftpd_options.cpp` as operators on the record of its globals |
| `AsyncRequest` | `TftpdOptions` with `tftp()` and `validate_access` of `tftpd_utils.cpp`: one request to the asynchronous server after the other |
| `Session` | the command interpreter of `tftp/main.c` with several transfers on one socket |
| `TransferLemmas` | lemmas about `Tftpsubs` and `Wire` |
| `PutLemmas` | lemmas about `PutClient`, for both servers |
| `DownloadProofs`, `UploadProofs`, `AsyncUploadProofs`, `TftpdProofs`, `SessionProofs` | the proofs about the module of that name |
| `DataProofs` | the proofs about `AsyncRequest` and `Netascii`, which are inductions over options and characters |
| `MC*` | instances for TLC |

### Correspondence with the code

*One action per trip.* A process meets the others only at `sendto` and
`recvfrom`, so everything it does from one `recvfrom` to the next is one action:
`ClientAccept` of `Download` is the test of the packet, `writeit`, the new
`ackbuf`, `sendto` and `write_behind`. Where `sendto`, `read` or `write` may
fail, both outcomes are alternatives. The `pc` of a process is where it stands:
not started, in `recvfrom`, or how it left. A packet that a tftpd's `sendfile`
ignores goes into `ackbuf` and changes nothing, so it has no action; where an
ignored packet overwrites `from` or `dp`, it has one (`ClientIgnore`,
`ServerIgnore`).

*Signals.* `ClientTimer` includes the window after `recvfrom` has taken a packet
and before `alarm(0)`: the packet is gone but `from` and `dp` are overwritten.
With `rexmtval` 0 `alarm` arms nothing and the action is disabled.

*The network.* `sent` holds every datagram sent; any of them may be received any
number of times, in any order, or never. This covers loss, duplication,
reordering, and the packets that `synchnet` throws away. A packet carries the
absolute number of its block for the properties' sake, but every test in the
code is made on `Wire(seq)`, the number modulo `BlockMod`. One thing is assumed
of the network (`Fresh`, external): a process takes no datagram whose block is a
whole cycle of block numbers (65536 stop-and-wait exchanges) away from its own. No
old datagram survives that long; nor is anything heard of a tftpd that has fallen so
far behind, whose packets, though just sent, would be as old. Without it TFTP itself
is unsound.

*Files.* A file is `N` segments, all full but the last, whose size `LastSize` may
be 0. A write that fails (or is short) leaves its segment out and sets the ghost
`lost`; the code does not look, so neither does the model. `disk` in `Upload` is
the file all tftpds share, each writing at its own offset.

*asio.* `AsyncUpload` has the outstanding operation (`srv.op`), the running timer
and the queue of completed handlers (`ready`). Cancelling reaches only what is
outstanding; a timer handler already in the queue still runs and sees no error.
Each handler is one action. `Reorder` chooses whether datagrams to the server
may overtake one another, `BigEndian` the byte order of its host (the code
forgets an `ntohs`). An OACK is an ACK of block 0.

*Netascii.* A file is a text over LF, CR, NUL and one other character. Filling a
buffer is one action and loops over characters as the code does (the recursive
function `Fill`, one `FillChar` per trip), with `newline` and `prevchar` kept from
one buffer to the next (`FillBegin`). Writing one out is the loop `Put`, whose
`PutChar` seeks back over a CR to replace it by LF, also when the CR ended the
block before. A read error makes `getc` return EOF, which ends the file. The
reference is `Encode`, character by character. `putc` does not fail. Loss and repetition of blocks are
the business of `Download` and `Upload`; here each block is written once.

*tftpd.* `main` and each child are processes; a child's `stat` and `open` are
separate steps, between which `Admin` may install a file, remove it or change
its mode. `main.i` is the loop counter that `recvfrom` overwrites. stbuf after a
failed `stat` is any value. `setuid` may fail, and then `DropRoot` must notice.
The name `../f` stands for every name the prefix tests refuse, `/dirs/f` for one
below an exported directory, `/f` for one that is not, `f` for a relative one. With
`-s` it is the other way round: leading slashes are dropped and `/f` is the file in
the first directory. An `fdopen` that fails comes after the file was truncated or
created, here and in `ServerStart` of `Upload`.

*Requests to the asynchronous server.* A request is its strings, each present or
`Missing`, its options, whether an option lacks its value (`odd`) and whether the
final NUL is missing (`cut`); then the byte behind the buffer is any value. `tftp`
makes the whole pass, early returns included, so `Receive` is one action; its
loop over the options is the recursive function `do_opts`. Files and globals survive
from one request to the next. `OffMax` is the width of the integers: a tsize above
it, or one written with a minus sign, is negative in `g_tsize` and unsigned again
where it is used (`off_t`, `uintmax_t`).

*Sessions.* Of a transfer `Session` keeps what outlives it. An action ends where
SIGINT or SIGALRM matters: at the prompt, before a command runs, before each file,
inside `initsock`, before `sendto` and in `recvfrom`. `Toplevel` is
`siglongjmp(toplevel)`; it leaves the socket and the packets on their way to it as
they are, which the ghost `stale` records. A host on the command line is a
`connect` typed first. Name lookups and opening files may fail. A packet is
identified by the request it answers.

## 3. Runs

| Run | Checks | Bounds |
|---|---|---|
| `download` | type, `ReceivedIsPrefix`, `DoneIsWhole`, `DataIsFaithful`, `LockStep`, refinement of `FileTransfer`, both sides end | 2 tftpds, 2 blocks, two timeouts end a process |
| `upload` | type, `AckedIsAccepted`, `LockStep`, `DiskNeverWrong`, `DoneIsStored`, refinement of `FileTransfer` by each tftpd, both sides end | 2 tftpds, 2 blocks, the last short, wrap at 2 |
| `upload_final_ack` | violation of `FinalAckIsResent` | 1 tftpd, 3 blocks |
| `async` | type, `StoredIsPrefix`, `RenamedIsWhole`, `RenamedIsReturned`, refinement of `FileTransfer`, `ServerReturns` | 3 blocks, in-order datagrams, no wrap |
| `async_reorder` | violation of `StoredIsPrefix` | datagrams may overtake one another |
| `async_disk_full` | violation of `DiskFullFails` | 2 blocks, the last empty |
| `netascii` | type, `WireIsEncoding`, `FileIsText` | all texts of up to 5 characters, blocks of 3 bytes |
| `async_request` | type, `InForceIsAcked`, `BlksizeFits`, `AcceptedIsOpen`, `RefusedLeavesFiles` | any number of requests, each with up to `MaxOptions` options at and around the limits |
| `tftpd` | type, `AnswersSender`, `PrivateUntouched`, `DatagramsRead` | see `MCTftpd.cfg`: `MaxArrivals` datagrams, `MaxQueue` on the socket, `MaxAdmin` changes of the file |
| `tftpd_create` | violation of `NeverCreates` | one request |
| `tftpd_fork` | violation of `MainEnds` | one request |
| `session` | type, `CommandIsMeant`, `PeerIsReady`, `OwnServer`, `AlarmHasTarget`, `CommandEnds` | 2 hosts of different families, files of 2 blocks, any number of commands, `MaxLate` = 2 packets on their way |

*Why the bounds suffice.* Two tftpds are the least number that can interfere, and
they are alike. In `upload` the wrap equals the file, so comparisons are made
across it, and block 0 occurs on the wire twice; in `download` there is none, and
packets of every earlier block may arrive. Both are kept small because they check
liveness as well: their invariants and refinements are proved for every number of
blocks and every wrap.
`ClientMax` and `ServerMax` of two or three periods allow one or two
retransmissions of each packet; the set of sent datagrams then supplies any
number of duplicates. Five characters fill a buffer of three bytes and cut a line
end at each of its positions, twice. The option values lie around
the limits. In `session` stale packets of two transfers can be on their way
at once; a command line of three files has one in the middle. Deadlock is not
checked where the system may stop: a finished transfer, an exited client, a tftpd
nobody calls; `async_request` listens forever and is checked for it.

*Fairness.* Only that a waiting process's alarm eventually fires (a `sendto` that
fails after it is never what ends a process by assumption), that the
asynchronous server's thread runs its handlers, that its sends complete and its
timer expires. Of the other side nothing is assumed, and no packet has to arrive: a
transfer ends because its timer ends it. Of the network one thing is: the code arms
its timer anew at every packet, so that the timer fires means that a process is not
kept busy by old packets for ever, that is, that duplicates are finite. In `tftpd`
inetd and the processes run; fork may fail for ever, which is what `DatagramsRead`
has to bear and what refutes `MainEnds`. In `session` the client runs while it is
not waiting and its alarm fires; the user need not type or interrupt anything, and
`CommandEnds` is stated for a retransmission time above 0.

### What the violations show

Each is a disagreement between the code and a line of the repository, quoted in
`PROJECT.json`:

* the classic tftpd never resends its final ACK, because the test reads `dp`
  instead of `buf` (`upload_final_ack`);
* the asynchronous server writes a block that is neither the current nor the
  previous one, because `do { } while (false)` falls through (`async_reorder`);
* it reports success on a full disk (`async_disk_full`);
* tftpd may create a file that did not exist, because it tests an uninitialised
  `stbuf` (`tftpd_create`);
* its `main` never ends while fork fails on an empty socket: the limit of 20 tries
  is a counter that `recvfrom` overwrites (`tftpd_fork`).

Five more disagreements follow from the same modules, and are found by changing a
line of a configuration:

* with `ClientRexmt = 0` `ClientEnds` of `Download` fails: `rexmt 0`, which the
  shell accepts, disables the total timeout as well;
* with `BlockMod = 2` in `MCAsync.cfg` `StoredIsPrefix` fails: just after the wrap
  a repeated block is written again, because `block - 1` is -1;
* `FinalAckIsResent` of `AsyncUpload` fails with `BigEndian = FALSE`: `th_opcode`
  and `th_block` are compared without `ntohs`;
* `PathIsReceived` of `AsyncUpload` fails: after an ERROR packet or a failed ACK
  the server may return a path;
* `TimeoutIsUsed` of `AsyncRequest` fails: the server acknowledges a timeout option
  (`tftpd_options.cpp`: "supposed to be the (default) retransmission timeout"), and
  its timer goes on with the fixed `rexmtval`.

Some properties say in their statement where the code stops short: `OwnServer`
(not on a socket a transfer was torn from: there the server of the last transfer
can answer the next one), `AnswersSender` (not after an empty datagram),
`AcceptedIsOpen` (not without a mode: accepted with no file open),
`RefusedLeavesFiles` (not a request cut off after its mode, or one whose `fdopen`
fails: the file is truncated first), `BlksizeFits` (a capped blksize2 is 65464, no power of two). Nothing in
the repository promises these.

The classic loops are not affected by the wrap: they ignore a block that is not
recognised as the previous one, and the timers recover (the theorems about
`Download` and `Upload` hold for every wrap).

## 4. Proofs

Every invariant the runs check is proved for all values of the constants; so are
the three refinements and the action properties. The runs show them on small
instances.

| Module | Theorems | For every |
|---|---|---|
| `DownloadProofs` | `TypeCorrect`, `ReceivedPrefix`, `ReportedIsWhole`, `FaithfulData`, `StopAndWait`, `Refinement` | number of tftpds, file size, `BlockMod` above 1, timer value |
| `UploadProofs` | `TypeCorrect`, `AckedAccepted`, `InLockStep`, `DiskContent`, `DoneStored`, `Refinement` | the same |
| `AsyncUploadProofs` | `TypeCorrect`, `PathIsReturned` | file size, `BlockMod`, timer value, byte order, order of arrival |
| | `PrefixStored`, `WholeFileRenamed`, `Refinement` | file size, timer value and byte order, under `InOrder` |
| `DataProofs` | `NAInvariance`, `NATypeCorrect`, `WireEncoded`, `TextArrives` | text, length of the text, block size, place of a read error |
| | `TypeCorrect`, `InForceAcknowledged`, `BlksizeGranted`, `AcceptedOpen`, `RefusalLeavesFiles` | set of options, number of options in a request, width of the integers, state of the files |
| `TftpdProofs` | `TypeCorrect`, `AnswersGoToSender`, `PrivateFilesSafe` | number of children, arrivals, queue, changes to the files |
| `SessionProofs` | `TypeCorrect`, `CommandMeant`, `TransferHasPeer`, `TalksToOwnServer`, `AlarmInTransfer` | set of hosts, argument lists, words, file length, timer values |

Each module proves `Invariance` (`Spec => []Inv`; `NAInvariance` for `Netascii`)
with one lemma per action, and its theorems follow from it.

*Why the invariants are needed.* Hardly one of the checked invariants is
inductive.

* `Download`, `Upload`: `Inv` adds the state of the buffers at every `recvfrom`
  (`ReceiverBuf`: everything accepted has been flushed; `SenderBuf`: the current
  buffer still holds the block that may have to be resent and the other holds the
  next one), that every packet on its way is well formed, and that an ACK exists
  only for accepted blocks. The last is what makes `LockStep` hold with several
  tftpds: one client drives all of them. `SameBlock` turns the 16-bit test into
  equality of block numbers (from `Fresh`), `AcceptFlush` and `PrefixGrows` say
  that accepting a block appends it, `NextRead`, `SendBlock` and
  `ResendKeepsBuffers` that the sender's buffers rotate safely. What a step of the
  client means for the other side is `ClientStep`, or `PutStep` of `PutLemmas`,
  which both servers of a `put` share. In `Upload` what a tftpd has written at its
  own offsets is a prefix of the file, lost writes aside, which is why no
  interleaving puts a segment at another's offset; and it lies on the disk as long
  as no second tftpd has truncated the file (`OnDisk`).
* *Refinement.* `DownloadProofs` maps the client, `UploadProofs` each tftpd, and
  `AsyncUploadProofs` the asynchronous server to `FileTransfer`. Initial states map
  to initial states; a step that accepts a block maps to `Accept`, one that gives up
  to `Fail`, and every other one changes nothing that is mapped. The asynchronous
  server has failed as soon as an error packet is being sent (`Failing`), several
  handlers before it throws; that it cannot go on storing after that is what makes
  `Outcome` a mapping, and follows from the one operation that `Inv` allows. It
  looks at the result of its last write, so there `Fail` may also damage the file.
* `AsyncUpload`: `Inv` says that of receive, send and their handlers one at most
  is outstanding or queued, next to any number of timer handlers, so that a
  handler meets the state its operation was started in, and that after the rename
  only the last receive is left. That needs nothing of the network. `OrderInv` adds
  that a packet being handled is the newest one received, that ACKs are for stored
  blocks only and that what is stored is a prefix of the file. It is proved under `InOrder` (no overtaking, file
  shorter than the cycle of block numbers), and that hypothesis is not for
  convenience: without it the code does store wrong blocks, as `async_reorder`
  shows, and as `BlockMod = 2` shows for the wrap.
* `AsyncRequest`: `Negotiated` relates globals and OACK after each option: block and
  file size are the last ones acknowledged (`Conversions`: a size survives the way
  through `off_t`), and a block size is among them
  only if `blksize_set` is. It is carried through the loop by induction on the
  number of options (`do_optsNegotiates`); `HighBitIs` is an induction on the size
  for the shift loop of `set_blksize2`.
* `Netascii`: what has been sent is the encoding of the characters read so far, or
  lacks the second half of the last one, which then is a line end that `newline`
  and `prevchar` remember (`SenderAt`). What the receiver has taken of it stands in
  its file, with a CR for half a line end (`ReceiverAt`). Between them lie the
  queued blocks (`Taken`, `Pending`), of which only the last can be short, and that
  only when the sender is done and no line end is open. That the receiver's
  position is the only one its bytes allow needs two facts about encodings:
  `EncodingUnique` and `EncodingGrows`, no two prefixes of a text have the same
  encoding and none ends between the halves of a line end.
* `Tftpd`: request and sender are replaced together in `main` and copied together
  by `fork` (`Together`); a child that has reached `stat` is not root any more
  (`ChildOK`), which decides what `open` may overwrite.
* `Session`: an alarm runs only in a transfer that has reached `sigsetjmp`
  (`AlarmOK`); a clean socket has no packets of another request on their way
  (`SocketOK`); a command's hosts and arguments are those it was typed with
  (`JobOK`, `TransferOK`). `CommandMeant` is proved beside `Inv`, by induction over
  `cmdtab`.

*Induction over data.* The library's induction theorems take the property as an
operator, which the provers cannot instantiate. `SetInduction` states induction
for a property given as a set of numbers instead; it follows from `WFMin` and
`NatLessThanWellFounded`. With it, a recursive function is first shown to exist
for every length (`LoopRuns`, `HalvingRuns`, `EncRuns`, `FillRuns`, `PutRuns`), so that the `CHOOSE` behind its
definition picks one that satisfies the recursion, and then to compute what it
should.

*Assumptions.* The named ASSUMEs on the CONSTANTS, each in the module that declares
them: numbers and their ranges (a last block is shorter than a full one, block
numbers wrap at 2 or later, the server's timers are not 0, `off_t` holds the
largest timeout), the shape of requests
and argument lists, and addresses that differ. `Fresh`, which is part of the model.
`InOrder` where named.

*Only model-checked.* Liveness (`ClientEnds`, `ServersEnd`, `ServerReturns`,
`DatagramsRead`, `CommandEnds`): reasoning about fairness and ENABLED is out of the
prover's reach.

## 5. Not modelled

Statistics and tracing (they only print); the progress callback, the example
library, tests and build files; the text of error packets and of the shell's
output; the debug-only duplicate sends of the client (the network duplicates
anyway); short writes as anything but lost segments; a `rename` that fails (the asynchronous
server does not look at its result); runt packets; the sizes of
the shell's buffers; ports (`connect host port` keeps the port for later
commands); the negotiated block size inside `AsyncUpload`, whose `SEGSIZE` is any
size; the timeout inside `AsyncUpload`, where the code has a fixed one as well;
conversion in `tftp_subs.cpp`, which is compiled out. In `writeit` the flush of a
buffer still in use is modelled but never happens, since each loop flushes before
it receives.

A `put` served by more than one tftpd is not claimed to leave the file whole: a
copy of the write request that is delivered late makes a new tftpd truncate a
finished file, and `DoneIsStored` says so by excluding it.

## 6. Plan

All components with behaviour are modelled, and all safety properties and
refinements are proved. What is left is model-checked only: liveness. The proofs
of the asynchronous server stop where its code does: beyond `InOrder` it stores
wrong blocks, and a server that dropped them could be proved without it.
