------------------------------- MODULE PthIOMC --------------------------------
(***************************************************************************)
(* TLC instances of PthIO.                                                 *)
(***************************************************************************)
EXTENDS PthIO

CONSTANTS t1, t2, sock, line, dial, door, m1

\* A stream with two readers and two writers; another one that is closed while
\* one thread uses it and the other one connects; and a listening socket with
\* two threads at it.
TheOpened  == {{sock}, {line, dial}, {door}}
TheEvents  == Threads \X {"io", "time", "msg", "other"}
TheVectors == {<<2>>, <<1, 1>>}
TheCalls ==
    (t1 :> ({"read", "write", "select"} \X {sock, line} \cup {<<"accept", door>>})) @@
    (t2 :> ({"read", "write", "close"} \X {sock} \cup
            {<<"close", line>>, <<"connect", dial>>, <<"accept", door>>}))
TheSender == m1 :> t1

=============================================================================
