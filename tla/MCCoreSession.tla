---------------------------- MODULE MCCoreSession ----------------------------
(***************************************************************************)
(* Small instances of CoreSession: two calls with two faults, three calls  *)
(* with one, a watcher and an HTTP request with two, a watcher beside a    *)
(* call with one.                                                          *)
(***************************************************************************)
EXTENDS CoreSession

CONSTANTS first, second, third

Program(a, b, c, watching, most) ==
    [kind |-> [x \in Calls |-> CASE x = first -> a [] x = second -> b [] x = third -> c],
     watch |-> watching, faults |-> most]

Pairs == {<<"get", "get">>, <<"get", "set">>, <<"get", "batch">>,
          <<"set", "batch">>, <<"batch", "batch">>, <<"inhibit", "get">>}
MCPrograms ==
    {Program(p[1], p[2], "none", FALSE, 2) : p \in Pairs}
    \cup {Program("set", "batch", "get", FALSE, 1)}
    \cup {Program("http", "none", "none", FALSE, 2), Program("none", "none", "none", TRUE, 2),
          Program("get", "none", "none", TRUE, 1)}
=============================================================================
