--------------------------- MODULE MCActivitySync ---------------------------
(***************************************************************************)
(* Small instances of ActivitySync.                                        *)
(***************************************************************************)
EXTENDS ActivitySync

CONSTANTS a, b

One == <<a>>
Two == <<a, b>>

Limit(change, press, initialize, failure, restart) ==
    [change |-> change, press |-> press, initialize |-> initialize,
     failure |-> failure, restart |-> restart]

AgreementLimits   == Limit(4, 1, 0, 0, 0)
OrderLimits       == Limit(1, 1, 1, 1, 1)

\* A failure or a restart, not both.
OneFault == budget.failure + budget.restart > 0

\* Relay steps that shared a suppression can echo for ever: beyond two changes,
\* what follows such a state is not explored.
SharingIsBounded == collapsed => Used("change") <= 2
=============================================================================
