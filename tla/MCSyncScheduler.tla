-------------------------- MODULE MCSyncScheduler --------------------------
(***************************************************************************)
(* Small instances of SyncScheduler.  A group of Core data is 0, 1, ...;   *)
(* Forward edits never return to an old value, Back edits may.             *)
(***************************************************************************)
EXTENDS SyncScheduler

CONSTANT p1

MCValues  == {0, 1}
Forward   == {<<0, 1>>}
Back      == {<<0, 1>>, <<1, 0>>}
Limit(edits, requests, failures, restarts) ==
    [edit |-> edits, request |-> requests, failure |-> failures, restart |-> restarts]
AllButPartial == AllOutcomes \ {"partial"}

BuildLimits == {Limit(2, 1, 0, 1)}
RecoveryLimits == {Limit(1, 1, 0, 0), Limit(1, 0, 1, 0), Limit(1, 0, 0, 1),
                   Limit(0, 0, 2, 0), Limit(0, 0, 1, 1)}

\* Start from the unedited configuration.
MCInit     == Init /\ source = [s \in Sections |-> 0]
MCSpec     == MCInit /\ [][Next]_vars
MCFairSpec == MCSpec /\ Fairness
=============================================================================
