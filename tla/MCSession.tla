---------------------------- MODULE MCSession ----------------------------
(***************************************************************************)
(* A session of the client with an IPv4 and an IPv6 host, gets and puts of *)
(* one and of several files, with and without host names.                  *)
(***************************************************************************)
EXTENDS Session

MCFamily(h) == IF h = "h4" THEN "inet" ELSE "inet6"

Arg(h, n) == [host |-> h, name |-> n]

MCGetArgs == { << Arg("h6", "a"), Arg(None, "l") >>,
               << Arg(None, "a"), Arg("h4", "b"), Arg(None, "a") >> }

MCPutArgs == { << Arg(None, "a") >>,
               << Arg(None, "a"), Arg(None, "b"), Arg("h6", "d") >>,
               << Arg("h4", "a"), Arg("h6", "d") >> }

\* Abbreviations of one and of several commands, full names, and a word that
\* begins none.
MCWords == { <<"g">>, <<"p", "u", "t">>, <<"c", "o">>, <<"t", "i">>, <<"t">>, <<"s">>,
             <<"a">>, <<"b">>, <<"m">>, <<"r">>, <<"q">>, <<"?">>, <<"x">> }

MCRexmts   == {-1, 0, 1}
MCTimeouts == {-1, 1}

=============================================================================
