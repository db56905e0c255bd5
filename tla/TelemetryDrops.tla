--------------------------- MODULE TelemetryDrops --------------------------
(***************************************************************************)
(* The telemetry path with what a drop of a counter may be excused by.     *)
(* The variables added here are histories: they follow the steps of        *)
(* Telemetry, which none of them enables, changes or stops.                *)
(***************************************************************************)
EXTENDS Telemetry

VARIABLES
    newest,     \* slot of the exchange the agent began last, NoSlot at first
    overtaken,  \* printers whose row a handler wrote after a newer exchange began
    lostAlerts  \* readings whose counter_reset was due and will not be opened

dropVars == <<vars, newest, overtaken, lostAlerts>>

\* Readings whose device's row a handler in slot s has written and that it has
\* neither mapped nor skipped.
WrittenBy(s) == {e.row : e \in {f \in net[s].seen : f.at # "read"}}
\* Readings whose handler is between the UPDATE and the opening of the alert.
AlertDue ==
    {e.row : e \in UNION {{f \in net[s].seen : Handles(s, f, "written")} : s \in Slots}}

DropsInit == Init /\ newest = NoSlot /\ overtaken = {} /\ lostAlerts = {}

HistoryStep ==
    /\ newest' = IF waiting' = NoSlot THEN newest ELSE waiting'
    /\ overtaken' = overtaken \cup
           UNION {{origin[r] : r \in WrittenBy(s)' \ WrittenBy(s)} : s \in Slots \ {newest}}
    /\ lostAlerts' = lostAlerts \cup {r \in AlertDue \ AlertDue' : origin[r] \notin counterReset'}

DropsNext == Next /\ HistoryStep

DropsSpec == DropsInit /\ [][DropsNext]_dropVars

----------------------------------------------------------------------------

\* The counter of a printer really went down from one of its readings with
\* counters to the next.
RealDrop(q, r) ==
    /\ q < r /\ origin[q] = origin[r] /\ 0 < total[r] /\ total[r] < total[q]
    /\ \A m \in Rows : q < m /\ m < r => origin[m] # origin[r] \/ total[m] = 0

\* A printer whose counter went down between two consecutive readings has its
\* counter_reset alert once both are stored, however the batches were retried
\* and their handlers overlapped, unless its handler has not come to open it,
\* the handler ended between the UPDATE and the opening (two statements without
\* a transaction), or a handler that a newer exchange had overtaken wrote the
\* printer's row (process-reading.ts upsertExisting, openCounterResetAlert).
DropIsAlerted ==
    \A q, r \in Stored \ skipped :
        RealDrop(q, r) =>
            \/ origin[r] \in counterReset
            \/ r \in AlertDue \cup lostAlerts
            \/ origin[r] \in overtaken

=============================================================================
