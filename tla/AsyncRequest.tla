---------------------------- MODULE AsyncRequest ----------------------------
(***************************************************************************)
(* The requests of the asynchronous server: tftp() and validate_access()   *)
(* of tftpd_utils.cpp with the options of tftpd_options.cpp.               *)
(*                                                                         *)
(* One process calls receive_file again and again; each call makes a new   *)
(* server that handles one request, but the globals of tftpd_options.cpp   *)
(* and the files in g_rootdir stay.  The upload that follows an accepted   *)
(* request is the subject of AsyncUpload; here it has one of its two       *)
(* outcomes, renamed or given up.                                          *)
(*                                                                         *)
(* A request is [op, name, mode, opts, odd, cut]: name and mode may be     *)
(* Missing (nothing, or an empty string, which ends the parsing), odd says *)
(* that an option without a value follows opts, and cut that the datagram  *)
(* ends without the final NUL.                                             *)
(***************************************************************************)
EXTENDS TftpdOptions

CONSTANTS
    Options,     \* options [opt, val] that requests are made of
    MaxOptions   \* bound: options in one request

ASSUME OptionsAssumption ==
    /\ Options \subseteq Option
    /\ MaxOptions \in Nat

Missing == "missing"
Ops     == {"RRQ", "WRQ", "DATA"}         \* DATA: any other opcode
Names   == {"file", "../file", Missing}   \* "../file": with a ".." component
Modes   == {"octet", "netascii", Missing}

\* Nothing after a missing string is read, so it is left out.
Requests ==
    {r \in [op : Ops, name : Names, mode : Modes,
            opts : UNION {[1 .. n -> Options] : n \in 0 .. MaxOptions},
            odd : BOOLEAN, cut : BOOLEAN] :
        /\ r.name = Missing \/ r.op = "DATA" => r.mode = Missing
        /\ r.mode = Missing => r.opts = << >> /\ ~r.odd}

\* What tftp() returns: 0, or the code of the error packet.  EUNDEF: an errno.
OK    == "OK"
Codes == {OK, "EBADID", "EBADOP", "EACCESS", "ENOTFOUND", "EUNDEF"}

\* The OACK: none, the options, or PKTSIZE bytes that were never shortened.
NoAck   == [kind |-> "none", opts |-> << >>]
Unset   == [kind |-> "unset", opts |-> << >>]
Oack(s) == [kind |-> "oack", opts |-> s]

Results == [err : Codes, file : {"null", "target", "upload"},
            ack : [kind : {"none", "unset", "oack"}, opts : Seq(Acked)]]

VARIABLES
    pc,      \* "listening": in do_receive; "serving": in the upload;
             \* "refusing": in do_send_error
    g,       \* the globals of tftpd_options.cpp
    target,  \* the file of the request in g_rootdir: absent, private, public
    upload,  \* name.upload: absent, partial (an upload given up), empty
    req,     \* the request served last
    res      \* what tftp() made of it: error, OACK, and the FILE it opened

vars == <<pc, g, target, upload, req, res>>

NoRequest == [op |-> "DATA", name |-> Missing, mode |-> Missing, opts |-> << >>,
              odd |-> FALSE, cut |-> FALSE]
NoResult  == [err |-> "EBADID", ack |-> NoAck, file |-> "null"]

Init == /\ pc = "listening"
        /\ g = GlobalsInit
        /\ target \in {"absent", "private", "public"}
        /\ upload = "absent"
        /\ req = NoRequest
        /\ res = NoResult

-----------------------------------------------------------------------------
\* Strings in the request, counted up to the first that is missing.
Args(r) == CASE r.name = Missing -> 0
             [] r.name # Missing /\ r.mode = Missing -> 1
             [] OTHER -> 2 + 2 * Len(r.opts) + (IF r.odd THEN 1 ELSE 0)

\* Strings the loop gets through.  When the last one is not terminated the
\* loop stops at it, or finds a NUL in the byte after the request (byte: what
\* is there is nobody's business, and often 0).
Parsed(r, byte) == IF r.cut /\ Args(r) > 0 /\ byte # 0 THEN Args(r) - 1 ELSE Args(r)

\* validate_access: the error, the FILE it opens, and name.upload afterwards.
\* chdir, open or fdopen may fail for reasons of their own (fault); when fdopen
\* does, the file to be written is already created or truncated.
validate_access(r, fault) ==
    LET deny(e) == [err |-> e, file |-> "null", upload |-> upload]
        reading == r.op = "RRQ"
    IN  IF r.name = "../file" \/ fault = "chdir" THEN deny("EACCESS")
        ELSE IF reading /\ target = "absent"     THEN deny("ENOTFOUND")
        ELSE IF reading /\ target = "private"    THEN deny("EACCESS")
        ELSE IF fault = "open"                   THEN deny("EUNDEF")
        ELSE IF fault = "fdopen"
             THEN [deny("EUNDEF") EXCEPT !.upload = IF reading THEN @ ELSE "empty"]
        ELSE IF reading THEN [err |-> OK, file |-> "target", upload |-> upload]
        ELSE [err |-> OK, file |-> "upload", upload |-> "empty"]

\* Mutant of ModeKnown: netascii is still in the table.
ModeInTable(r) == r.mode # Missing

\* The mode is looked up in formats: only octet is left in the table.
ModeKnown(r) == r.mode = "octet"

\* Mutant of Access: the file is opened before the mode is looked at.
AccessFirst(r, fault) ==
    LET a == validate_access(r, fault)
    IN  IF ModeKnown(r) THEN a ELSE [a EXCEPT !.err = "EBADOP"]

\* The mode is checked before validate_access opens the file.
Access(r, fault) ==
    IF ModeKnown(r) THEN validate_access(r, fault)
    ELSE [err |-> "EBADOP", file |-> "null", upload |-> upload]

\* The options whose value the loop has reached.
Negotiate(r, n) ==
    LET reached == (n - 2) \div 2
    IN  do_opts([g |-> init_opt(g), ack |-> << >>], r.opts, reached)[reached]

\* The OACK at the end of the loop: dropped for a request without options, as
\* long as the options acknowledged for one with them, and of its first length
\* when there were fewer than two strings.
FinalAck(r, ack) == CASE Args(r) = 2 -> NoAck
                      [] Args(r) > 2 -> Oack(ack)
                      [] OTHER       -> Unset

\* tftp(): one datagram, from its first byte to the answer.
tftp(r, byte, fault) ==
    LET n == Parsed(r, byte)
        a == IF n < 2 THEN [err |-> OK, file |-> "null", upload |-> upload]
                      ELSE Access(r, fault)
        o == IF n < 2 \/ a.err # OK
             THEN [g |-> init_opt(g), ack |-> << >>] ELSE Negotiate(r, n)
        e == CASE a.err # OK                   -> a.err
               [] a.err = OK /\ (n < Args(r) \/ r.op = "RRQ") -> "EBADOP"
               [] OTHER                        -> OK
    IN  [err |-> e, g |-> o.g, upload |-> a.upload, file |-> a.file,
         ack |-> IF e = OK THEN FinalAck(r, o.ack) ELSE NoAck]

\* The period of the retransmission timer in milliseconds: rexmtval seconds,
\* whatever was negotiated.
rexmtval        == 1
restart_timeout == rexmtval * MS_1K

-----------------------------------------------------------------------------
\* receive_file is left, and called again with a new server.
Relisten == /\ pc' = "listening"
            /\ req' = NoRequest
            /\ res' = NoResult
            /\ UNCHANGED g

\* do_receive's handler: a datagram with another opcode is refused unread;
\* after an error the server sends it, otherwise the upload starts.
Receive(r) ==
    /\ pc = "listening"
    /\ req' = r
    /\ \E byte \in IF r.cut THEN {0, 1} ELSE {0}, fault \in {"none", "chdir", "open", "fdopen"} :
          LET t == IF r.op = "DATA"
                   THEN [err |-> "EBADID", g |-> init_opt(g), upload |-> upload,
                         file |-> "null", ack |-> NoAck]
                   ELSE tftp(r, byte, fault)
          IN  /\ g' = t.g
              /\ upload' = t.upload
              /\ res' = [err |-> t.err, ack |-> t.ack, file |-> t.file]
              /\ pc' = IF t.err = OK THEN "serving" ELSE "refusing"
    /\ UNCHANGED target

\* The upload is complete: name.upload is renamed (AsyncUpload).
Finish == /\ pc = "serving"
          /\ res.file = "upload"
          /\ target' = "public"
          /\ upload' = "absent"
          /\ Relisten

\* The upload is given up, with some of it in name.upload.
GiveUp == /\ pc = "serving"
          /\ upload' = IF res.file = "upload" THEN "partial" ELSE upload
          /\ Relisten
          /\ UNCHANGED target

\* The error has been sent: receive_file throws.
Throw == /\ pc = "refusing"
         /\ Relisten
         /\ UNCHANGED <<target, upload>>

Next == \/ \E r \in Requests : Receive(r)
        \/ Finish
        \/ GiveUp
        \/ Throw

Spec == Init /\ [][Next]_vars

-----------------------------------------------------------------------------
\* Globals, files and results are of their types (tftp()).
TypeOK == /\ pc \in {"listening", "serving", "refusing"}
          /\ g \in Globals
          /\ target \in {"absent", "private", "public"}
          /\ upload \in {"absent", "partial", "empty"}
          /\ req \in Requests
          /\ res \in Results

\* While an upload is served, the block size, by which receive decides which
\* block is the last, and the file size, by which it divides (as an unsigned
\* number) to report progress, are the ones a client reads from the OACK of
\* this very request, or the defaults without one: nothing of an earlier
\* request is left in the globals (init_opt, set_*).
InForceIsAcked ==
    pc = "serving" => /\ g.g_segsize = AckedBlksize(res.ack.opts)
                      /\ uintmax_t(g.g_tsize) = AckedTsize(res.ack.opts)

\* tftpd_options.cpp says of the timeout option "This is supposed to be the
\* (default) retransmission timeout".  (set_timeout only stores it.)
TimeoutIsUsed ==
    pc = "serving" => restart_timeout = AckedTimeout(res.ack.opts)

\* The powers of two a block size may be.
PowersOfTwo == {8, 16, 32, 64, 128, 256, 512, 1024, 2048, 4096, 8192, 16384, 32768}

\* The size v granted for option o of a request.
Grants(o, v) == /\ v <= o.val
                /\ o.opt = "blksize2" /\ o.val <= max_blksize
                       => v \in PowersOfTwo /\ 2 * v > o.val

\* The block sizes that ack grants for the options opts.
BlksizeOK(ack, opts) ==
    \A i \in DOMAIN ack : ack[i].opt \in BlkNames =>
        /\ \A j \in DOMAIN ack : ack[j].opt \in BlkNames => i = j
        /\ ack[i].val \in min_blksize_rfc .. max_blksize
        /\ \E k \in DOMAIN opts : opts[k].opt = ack[i].opt /\ Grants(opts[k], ack[i].val)

\* A block size is acknowledged at most once, is one the server can hold, is
\* never above what was asked for, and for blksize2 it is the largest power of
\* two that fits (unless the request is capped at max_blksize).
BlksizeFits == pc = "serving" => BlksizeOK(res.ack.opts, req.opts)

\* An accepted request that names a file and a mode has its upload file open
\* and empty, and only a write request in octet mode is accepted.  (Without a
\* mode tftp() accepts a write request and opens nothing.)
AcceptedIsOpen ==
    pc = "serving" /\ req.name # Missing /\ req.mode # Missing =>
       /\ req.op = "WRQ" /\ req.mode = "octet" /\ req.name = "file"
       /\ res.file = "upload" /\ upload = "empty"

\* A request r refused with error e after validate_access had opened the file:
\* a write request that is cut off after its mode, or whose fdopen failed.
OpenedFirst(r, e) == /\ r.op = "WRQ" /\ r.name = "file" /\ r.mode = "octet"
                     /\ (r.cut /\ Args(r) > 2) \/ e = "EUNDEF"

\* A refused request touches neither the file nor what an earlier upload left
\* in name.upload, but for the two ways to be refused after open: these leave
\* name.upload empty.
RefusedLeavesFiles ==
    [][ pc = "listening" /\ pc' = "refusing" =>
           /\ target' = target
           /\ \/ upload' = upload
              \/ OpenedFirst(req', res'.err) /\ upload' = "empty" ]_vars

=============================================================================
