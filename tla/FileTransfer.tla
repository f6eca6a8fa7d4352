---------------------------- MODULE FileTransfer ----------------------------
(***************************************************************************)
(* What a file transfer promises the user, whatever the network does: the  *)
(* file grows by the segments of the source, each once and in order; it is *)
(* reported as complete only when every block was accepted; a write that   *)
(* fails leaves a gap (damaged), which the code never repairs, and reports *)
(* only where it looks at the result of the write, by failing; and a       *)
(* transfer that ended stays as it ended.                                  *)
(***************************************************************************)
EXTENDS Tftpsubs

VARIABLES
    progress,   \* blocks accepted so far
    file,       \* segments stored so far
    damaged,    \* some write was lost
    status      \* "active", "ok" or "failed"

ftVars == <<progress, file, damaged, status>>

FTInit == progress = 0 /\ file = << >> /\ damaged = FALSE /\ status = "active"

\* Segment k is stored, unless it is empty or its write fails.
Store(k) == \/ /\ Size(k) > 0
               /\ file' = Append(file, k)
               /\ UNCHANGED damaged
            \/ /\ Size(k) > 0
               /\ damaged' = TRUE
               /\ UNCHANGED file
            \/ /\ Size(k) = 0
               /\ UNCHANGED <<file, damaged>>

\* A block is accepted; if the transfer fails right then, the block may or may
\* not have been stored.
Accept == /\ status = "active"
          /\ progress < N
          /\ progress' = progress + 1
          /\ \/ Store(progress') /\ status' = IF progress' = N THEN "ok" ELSE "active"
             \/ Store(progress') /\ status' = "failed" /\ progress' < N
             \/ UNCHANGED <<file, damaged>> /\ status' = "failed" /\ progress' < N

\* The transfer fails, for any reason or because a write did.
Fail == /\ status = "active"
        /\ status' = "failed"
        /\ damaged' \in {damaged, TRUE}
        /\ UNCHANGED <<progress, file>>

FTNext == Accept \/ Fail

FTSpec == FTInit /\ [][FTNext]_ftVars

=============================================================================
