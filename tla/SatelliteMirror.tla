--------------------------- MODULE SatelliteMirror ---------------------------
(***************************************************************************)
(* What a Satellite promises to whoever posts it snapshots                 *)
(* (src/src/service/index.js, applyReceived and purgeSynchronized): one    *)
(* snapshot or removal at a time; a success that is not a repetition is    *)
(* answered only when the Core has every part of that snapshot but those   *)
(* its report counts as skipped or warns of; a repetition is answered only *)
(* for a snapshot that once was applied.                                   *)
(***************************************************************************)
CONSTANTS Snapshots, Parts, Nothing, Removal

VARIABLES
    running,    \* the snapshot being applied, Removal, or Nothing
    lacking,    \* the parts of each snapshot that the Core does not have
    warned,     \* the parts that the application under way has given up
                \* with a warning, or counted as skipped
    done,       \* the snapshots whose application has succeeded
    answer      \* the last answer: [to, success, duplicate]

mvars == <<running, lacking, warned, done, answer>>

Shortages == [Snapshots -> SUBSET Parts]
Worsens == \A s \in Snapshots : lacking[s] \subseteq lacking'[s]

Answer(s, success, duplicate) ==
    answer' = [to |-> s, success |-> success, duplicate |-> duplicate]

MInit ==
    /\ running = Nothing /\ warned = {}
    /\ lacking \in Shortages
    /\ done = {}
    /\ answer = Nothing

\* A free Satellite starts to apply s; from here on the Core is in between.
Begin(s) ==
    /\ running = Nothing /\ running' = s
    /\ lacking' \in Shortages /\ warned' = {}
    /\ UNCHANGED <<done, answer>>

Work ==
    /\ running # Nothing
    /\ lacking' \in Shortages
    /\ warned \subseteq warned' /\ warned' \in SUBSET Parts
    /\ UNCHANGED <<running, done, answer>>

Succeed ==
    /\ running \in Snapshots /\ running' = Nothing
    /\ lacking' \in Shortages /\ lacking'[running] \subseteq warned
    /\ warned' = {}
    /\ done' = done \cup {running}
    /\ Answer(running, TRUE, FALSE)

Fail ==
    /\ running # Nothing /\ running' = Nothing
    /\ lacking' \in Shortages /\ warned' = {} /\ UNCHANGED done
    /\ Answer(running, FALSE, FALSE)

\* A removal that left nothing behind, or said so.
Removed ==
    /\ running = Removal /\ running' = Nothing
    /\ lacking' \in Shortages /\ warned' = {} /\ UNCHANGED done
    /\ Answer(Removal, TRUE, FALSE)

Busy(s) ==
    /\ running # Nothing
    /\ Answer(s, FALSE, FALSE)
    /\ UNCHANGED <<running, lacking, warned, done>>

\* An operation that was carried out before is confirmed again, not repeated.
\* Only the catalog is made the one of s: what is lacking may change with it.
Repeat(s) ==
    /\ running = Nothing /\ s \in done
    /\ Answer(s, TRUE, TRUE)
    /\ lacking' \in Shortages
    /\ UNCHANGED <<running, warned, done>>

\* The process dies: the answer is never given.  A Satellite that was idle
\* has no part more than before.
Die ==
    /\ running' = Nothing /\ warned' = {}
    /\ lacking' \in Shortages /\ (running = Nothing => Worsens)
    /\ UNCHANGED <<done, answer>>

\* The owner of the remote changes something on its Core; the memory of old
\* operations is limited.
Disturb ==
    /\ lacking' \in Shortages /\ Worsens
    /\ done' \in SUBSET done
    /\ UNCHANGED <<running, warned, answer>>

MNext ==
    \/ \E s \in Snapshots \cup {Removal} : Begin(s)
    \/ \E s \in Snapshots \cup {Removal} : Busy(s)
    \/ \E s \in Snapshots : Repeat(s)
    \/ Work \/ Succeed \/ Fail \/ Removed \/ Die \/ Disturb

MirrorSpec == MInit /\ [][MNext]_mvars
=============================================================================
