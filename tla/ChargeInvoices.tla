--------------------------- MODULE ChargeInvoices -----------------------------
(***************************************************************************)
(* Invoices of Supercharger sessions (store_charging_history of            *)
(* teslai/db/repo.py, tesla/charging_history.py) and the charges they are  *)
(* linked to, which the live job deletes and inserts again in every cycle  *)
(* while they are recent (teslai/live.py); a link to a deleted row becomes *)
(* NULL (0008_supercharger_history.py).                                    *)
(*                                                                         *)
(* The monitor rebuilds in every cycle and syncs once a day; the command   *)
(* tesla charging-history syncs, and a monitor --once rebuilds, at any     *)
(* moment beside it.  Time is counted in steps of five minutes and         *)
(* advances in steps of Pause.  The rows of the table of sessions are      *)
(* known by the session they are of: an id that was read before its row    *)
(* was deleted is Gone.  A rebuild builds again what it has the link row   *)
(* for (LiveRebuild has the builder itself).  Amounts are left out.        *)
(***************************************************************************)
EXTENDS Integers, FiniteSetsExt

CONSTANTS Sessions, Begins, Ends,     \* the sessions of the car, and when
          Known,                      \* the last link row until each begins
          Charges,                    \* the sessions that are charges
          Records, Billed,            \* Tesla's records: the charge each is of,
          RecordStart, RecordStop,    \* ... its times, which may be off a little,
          Appears,                    \* ... and when Tesla begins to list it
          Tolerance,                  \* MATCH_TOLERANCE
          Prefilter,                  \* an hour, in store_charging_history
          LiveWindow, Warmup,         \* WINDOW and WARMUP of live.py
          DayLength,                  \* a day
          SyncDays, CommandDays,      \* days that the monitor and the command ask for
          Pause,                      \* bound: the clock's step between cycles
          LastMoment,                 \* bound: the last time
          MaxMisfortunes,             \* bound: failed syncs, restarts, rebuilds by others
          MaxSyncCommands             \* bound: syncs by the command

Unmatched == "unmatched"   \* matched_session_id IS NULL
NotStored == "not_stored"
Gone == "gone"
NoSync == -1               \* last_history_sync of a new process; no time

ASSUME InvoiceAssumption ==
    /\ {Tolerance, Prefilter, LiveWindow, Warmup, LastMoment, MaxMisfortunes,
        MaxSyncCommands} \subseteq Nat
    /\ {DayLength, SyncDays, CommandDays, Pause} \subseteq Nat \ {0}
    /\ Charges \subseteq Sessions
    /\ Begins \in [Sessions -> Nat] /\ Ends \in [Sessions -> Nat] /\ Known \in [Sessions -> Nat]
    /\ Billed \in [Records -> Charges] /\ Appears \in [Records -> Nat]
    /\ RecordStart \in [Records -> Nat] /\ RecordStop \in [Records -> Nat \cup {NoSync}]
    /\ {Unmatched, NotStored, Gone} \cap Sessions = {}

RecordEnd(r) == IF RecordStop[r] = NoSync THEN RecordStart[r] ELSE RecordStop[r]

\* A session ends after it begins (one of no length overlaps nothing, and is not
\* linked); a cycle of the monitor (a minute) is shorter than the live window (two
\* days); and the charges around a record are those of more than the tolerance.
ASSUME TimesAssumption ==
    /\ \A s \in Sessions : Begins[s] < Ends[s]
    /\ Pause <= LiveWindow
    /\ Tolerance <= Prefilter

VARIABLES clock,      \* now
          table,      \* the rows of sessions: "none", "open" or "closed"
          link,       \* supercharger_sessions: the matched charge of each record
          pc,         \* what the monitor and the command do next
          listed,     \* the records each of the two has fetched
          match,      \* ... and the ids it has selected for them
          lastSync,   \* last_history_sync of the monitor
          syncCommands, misfortunes, imported,
          blind       \* history: records that a sync matched without their charge

invoiceVars == <<clock, table, link, pc, listed, match, lastSync,
                 syncCommands, misfortunes, imported, blind>>

Syncers == {"monitor", "command"}

InvoiceInit ==
    /\ clock = 0
    /\ table = [s \in Sessions |-> "none"]
    /\ link = [r \in Records |-> NotStored]
    /\ pc = [p \in Syncers |-> IF p = "monitor" THEN "rebuild" ELSE "idle"]
    /\ listed = [p \in Syncers |-> {}]
    /\ match = [p \in Syncers |-> [r \in Records |-> Unmatched]]
    /\ lastSync = NoSync
    /\ syncCommands = 0 /\ misfortunes = 0 /\ imported = FALSE
    /\ blind = {}

-----------------------------------------------------------------------------
(* Sessions.                                                               *)

\* What the builder makes of the telemetry so far.
Built(s) == IF Begins[s] > clock THEN "none" ELSE IF Ends[s] > clock THEN "open" ELSE "closed"

\* The sessions that were over for the window, and _anchor, where the last one ended.
Finished == {s \in Sessions : table[s] = "closed" /\ Ends[s] <= clock - LiveWindow}
FromStart == 0  \* mutant: no anchor
Anchor == IF Finished = {} THEN clock - LiveWindow ELSE Max({Ends[s] : s \in Finished})

\* DELETE of the rows of S: links become NULL, and ids that were read are gone.
Delete(S) ==
    /\ link' = [r \in Records |-> IF link[r] \in S THEN Unmatched ELSE link[r]]
    /\ match' = [p \in Syncers |-> [r \in Records |->
                    IF match[p][r] \in S THEN Gone ELSE match[p][r]]]

\* rebuild_recent: what begins at the anchor or later is deleted and built again, if
\* the rows from Warmup before the anchor on tell whether the car was connected.
\* Without any such row (return 0) there is nothing to delete and nothing to build.
Rebuild ==
    \E anchor \in {Anchor} :
        /\ Delete({s \in Sessions : Begins[s] >= anchor})
        /\ table' = [s \in Sessions |-> IF Begins[s] < anchor THEN table[s]
                                        ELSE IF Known[s] >= anchor - Warmup THEN Built(s)
                                        ELSE "none"]

\* In a cycle of the monitor.
MonitorRebuilds ==
    /\ pc["monitor"] = "rebuild"
    /\ Rebuild
    /\ pc' = [pc EXCEPT !["monitor"] = "due"]
    /\ UNCHANGED <<clock, listed, lastSync, syncCommands, misfortunes, imported, blind>>

OtherRebuilds ==
    /\ misfortunes < MaxMisfortunes
    /\ misfortunes' = misfortunes + 1
    /\ Rebuild
    /\ UNCHANGED <<clock, pc, listed, lastSync, syncCommands, imported, blind>>

\* import teslafi --write over everything so far.
ImportWrites ==
    /\ ~imported /\ clock > 0
    /\ imported' = TRUE
    /\ Delete(Sessions)
    /\ table' = [s \in Sessions |-> Built(s)]
    /\ UNCHANGED <<clock, pc, listed, lastSync, syncCommands, misfortunes, blind>>

-----------------------------------------------------------------------------
(* Syncs.                                                                  *)

\* Rows of other charges in an hour around the record are left out by best_match.
Candidates(r) ==
    {c \in Charges : /\ table[c] # "none"
                     /\ Begins[c] < RecordEnd(r) + Prefilter
                     /\ table[c] = "open" \/ Ends[c] > RecordStart[r] - Prefilter}

SmallerOf(a, b) == IF a < b THEN a ELSE b
LargerOf(a, b) == IF a > b THEN a ELSE b

\* A charge that is open has no length yet.
Overlap(r, c) ==
    SmallerOf(RecordEnd(r) + Tolerance, IF table[c] = "open" THEN Begins[c] ELSE Ends[c])
        - LargerOf(RecordStart[r] - Tolerance, Begins[c])

AnyOverlap(r) ==  \* mutant: the first charge that overlaps, not the best
    LET fits == {c \in Candidates(r) : Overlap(r, c) > 0}
    IN  IF fits = {} THEN {Unmatched} ELSE fits

\* The first of those that overlap most; the query has no order.
BestMatch(r) ==
    LET fits == {c \in Candidates(r) : Overlap(r, c) > 0}
    IN  IF fits = {} THEN {Unmatched}
        ELSE {c \in fits : \A d \in fits : Overlap(r, d) <= Overlap(r, c)}

ListedToday(days) ==  \* mutant: a sync asks for what is new since the last one
    {r \in Records : Appears[r] <= clock /\ RecordStart[r] >= clock - DayLength}

\* fetch_history: what Tesla lists by now, from so many days back.
Listed(days) ==
    {r \in Records : Appears[r] <= clock /\ RecordStart[r] >= clock - days * DayLength}

\* The monitor notes the sync before it attempts it; one that fails is not
\* repeated before the next day.
SyncIsDue == lastSync = NoSync \/ clock - lastSync > DayLength

MonitorSyncs ==
    /\ pc["monitor"] = "due" /\ SyncIsDue
    /\ lastSync' = clock
    /\ listed' = [listed EXCEPT !["monitor"] = Listed(SyncDays)]
    /\ pc' = [pc EXCEPT !["monitor"] = "select"]
    /\ UNCHANGED <<clock, table, link, match, syncCommands, misfortunes, imported, blind>>

MonitorSkips ==
    /\ pc["monitor"] = "due" /\ ~SyncIsDue
    /\ pc' = [pc EXCEPT !["monitor"] = "asleep"]
    /\ UNCHANGED <<clock, table, link, listed, match, lastSync, syncCommands, misfortunes, imported, blind>>

CommandSyncs ==
    /\ pc["command"] = "idle" /\ syncCommands < MaxSyncCommands
    /\ syncCommands' = syncCommands + 1
    /\ listed' = [listed EXCEPT !["command"] = Listed(CommandDays)]
    /\ pc' = [pc EXCEPT !["command"] = "select"]
    /\ UNCHANGED <<clock, table, link, match, lastSync, misfortunes, imported, blind>>

Done(p) == IF p = "monitor" THEN "asleep" ELSE "idle"

Forget(p) ==
    /\ listed' = [listed EXCEPT ![p] = {}]
    /\ match' = [match EXCEPT ![p] = [r \in Records |-> Unmatched]]

\* The token, the request or the database fails: the monitor retries tomorrow.
SyncFails(p) ==
    /\ pc[p] \in {"select", "commit"} /\ misfortunes < MaxMisfortunes
    /\ misfortunes' = misfortunes + 1
    /\ Forget(p)
    /\ pc' = [pc EXCEPT ![p] = Done(p)]
    /\ UNCHANGED <<clock, table, link, lastSync, syncCommands, imported, blind>>

\* store_charging_history reads the charges around each record ...
SelectCharges(p) ==
    /\ pc[p] = "select"
    /\ \E m \in [Records -> Charges \cup {Unmatched}] :
          /\ \A r \in Records : IF r \in listed[p] THEN m[r] \in BestMatch(r) ELSE m[r] = Unmatched
          /\ match' = [match EXCEPT ![p] = m]
    /\ blind' = blind \cup {r \in listed[p] : table[Billed[r]] # "closed"}
    /\ pc' = [pc EXCEPT ![p] = "commit"]
    /\ UNCHANGED <<clock, table, link, listed, lastSync, syncCommands, misfortunes, imported>>

\* ... and stores the ids, if their rows are all there still; a foreign key that
\* fails takes the whole transaction back.
StoreHistory(p) ==
    /\ pc[p] = "commit"
    /\ link' = [r \in Records |->
                   IF r \in listed[p] /\ \A q \in listed[p] : match[p][q] # Gone
                   THEN match[p][r] ELSE link[r]]
    /\ pc' = [pc EXCEPT ![p] = Done(p)]
    /\ Forget(p)
    /\ UNCHANGED <<clock, table, lastSync, syncCommands, misfortunes, imported, blind>>

-----------------------------------------------------------------------------
\* time.sleep: another cycle begins.  No transaction is open for that long.
NextCycle ==
    /\ pc["monitor"] = "asleep" /\ clock < LastMoment
    /\ pc["command"] # "commit"
    /\ clock' = clock + Pause
    /\ pc' = [pc EXCEPT !["monitor"] = "rebuild"]
    /\ UNCHANGED <<table, link, listed, match, lastSync, syncCommands, misfortunes, imported, blind>>

\* A new process of the monitor knows of no sync.
MonitorRestarts ==
    /\ misfortunes < MaxMisfortunes
    /\ misfortunes' = misfortunes + 1
    /\ lastSync' = NoSync
    /\ pc' = [pc EXCEPT !["monitor"] = "rebuild"]
    /\ UNCHANGED <<clock, table, link, listed, match, syncCommands, imported, blind>>

MonitorLoop ==
    \/ MonitorRebuilds
    \/ MonitorSyncs
    \/ MonitorSkips
    \/ SelectCharges("monitor")
    \/ StoreHistory("monitor")
    \/ NextCycle

InvoiceNext ==
    \/ MonitorLoop
    \/ MonitorRestarts
    \/ \E p \in Syncers : SyncFails(p)
    \/ CommandSyncs
    \/ SelectCharges("command")
    \/ StoreHistory("command")
    \/ OtherRebuilds
    \/ ImportWrites

-----------------------------------------------------------------------------
(* Properties.                                                             *)

\* What a record and a charge have in common, within the tolerance.
Shared(r, c) == SmallerOf(RecordEnd(r) + Tolerance, Ends[c])
                    - LargerOf(RecordStart[r] - Tolerance, Begins[c])

\* The record's times are more of its own charge than of any other.
IsClear(r) == \A c \in Charges \ {Billed[r]} : Shared(r, c) < Shared(r, Billed[r])

\* Every link is to a row that exists and is closed, of a charge that overlaps the
\* record, also when another process rebuilds between the query and the upsert; and
\* it is the record's own charge, if that overlaps it most, unless a sync came upon
\* the record while its charge was still open here or had been lost
\* (best_match, store_charging_history, the foreign key).
LinksFit ==
    \A r \in Records :
        link[r] \in Charges =>
            /\ table[link[r]] = "closed" /\ Shared(r, link[r]) > 0
            /\ IsClear(r) /\ r \notin blind => link[r] = Billed[r]

\* Once a linked charge is older than the live window, its record stays linked, and
\* only ever to a charge that overlaps it as much, whatever the rebuilds lose, as
\* long as no import runs over it (_anchor, replace_sessions, the upsert).
OldLinksStay ==
    [][\A r \in Records :
          (link[r] \in Charges /\ Ends[link[r]] <= clock - LiveWindow /\ ~imported')
              => link'[r] \in Charges /\ Shared(r, link'[r]) >= Shared(r, link[r])]_invoiceVars

\* The rebuilds have lost the charge: the car connected more than Warmup before it.
IsLost(c) == table[c] = "none" /\ Known[c] < Begins[c] - Warmup

\* Every record is linked to its charge for good in the end, although each cycle
\* of the monitor takes the link away while the charge is recent: there are enough
\* days between the end of the live window and the end of what a sync asks for,
\* whatever a few of the syncs do (monitor, rebuild_recent, fetch_history).  Only a
\* charge that a rebuild has lost stays without its invoice.
EventuallyInvoiced ==
    \A r \in Records : <>[](imported \/ link[r] = Billed[r] \/ IsLost(Billed[r]))
===============================================================================
