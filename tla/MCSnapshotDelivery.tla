------------------------- MODULE MCSnapshotDelivery -------------------------
(***************************************************************************)
(* Small instances of SnapshotDelivery: two snapshots, a push of syncNow   *)
(* and a retry, three addresses.                                           *)
(***************************************************************************)
EXTENDS SnapshotDelivery

CONSTANTS sync, retry, old, new, home, away, part

Current == [Legacy EXCEPT !.protocol = 2, !.schema = 6, !.capabilities = {"proxy_entities"}]
MCDescriptors == {Current, Legacy}

Limit(pushes, faults, sleeps, crashes, moves) ==
    [push |-> pushes, fault |-> faults, sleep |-> sleeps, crash |-> crashes, move |-> moves]
MCLimits == {Limit(2, 1, 1, 0, 0), Limit(1, 2, 1, 1, 1), Limit(1, 0, 1, 0, 1)}
=============================================================================
