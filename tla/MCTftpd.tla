------------------------------ MODULE MCTftpd ------------------------------
(* Instance of Tftpd for TLC: two clients, the sizes around the limit of    *)
(* main's loop, names that -s allows and names that it refuses, a mode      *)
(* without its end, and a datagram of no bytes.                             *)
EXTENDS Tftpd

D(from, size, op, name, mode) ==
    [from |-> from, size |-> size, op |-> op, name |-> name, mode |-> mode]

MCDatagrams ==
    {D("c1", 18, "RRQ", "f", "known"),
     D("c1", 18, "WRQ", "/f", "known"),
     D("c2", 19, "WRQ", "/dirs/f", "cut"),
     D("c2", 0, "empty", "f", "known")}

=============================================================================
