--------------------------- MODULE MCAsyncRequest ---------------------------
(* Instance of AsyncRequest for TLC: option values at and around every      *)
(* limit of tftpd_options.cpp, and a tsize that off_t cannot hold.          *)
EXTENDS AsyncRequest

OptionValues ==
    [blksize  |-> {7, 65465},
     blksize2 |-> {8, 1023, 65464},
     tsize    |-> {0, 2 * OffMax - 1, NaN},
     timeout  |-> {2, 256},
     utimeout |-> {999, 33333},
     unknown  |-> {1}]

MCOptions == UNION {{[opt |-> n, val |-> v] : v \in OptionValues[n]} : n \in DOMAIN OptionValues}

=============================================================================
