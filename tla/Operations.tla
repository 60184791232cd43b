------------------------------ MODULE Operations -------------------------------
(***************************************************************************)
(* Three parts of teslai that share no state, checked side by side: the    *)
(* invoices of Supercharger sessions, the owner's login, and the setup of  *)
(* the car's telemetry.  A behaviour is of one of them.                    *)
(***************************************************************************)
EXTENDS ChargeInvoices, OwnerLogin, TelemetrySetup

VARIABLE job

\* A charge at home, a drive, and at once a Supercharger, all since one connection, so
\* that the second charge is lost when the first one ends the window; two days later,
\* a short charge, of which Tesla does not tell the end, and at once another.
WeekCharges == {"first", "second", "late", "again"}
Week == {"out", "sleep"} \cup WeekCharges
BeginsAt == [first |-> 20, out |-> 137, second |-> 138, sleep |-> 150, late |-> 592, again |-> 595]
EndsAt == [first |-> 137, out |-> 138, second |-> 150, sleep |-> 590, late |-> 594, again |-> 606]
KnownFrom == [first |-> 10, out |-> 10, second |-> 10, sleep |-> 150, late |-> 590, again |-> 590]

TwoRecords == {"r1", "r2"}
BilledFor == [r1 |-> "second", r2 |-> "late"]
RecordStartAt == [r1 |-> 139, r2 |-> 593]
RecordStopAt == [r1 |-> 143, r2 |-> NoSync]
AppearsAt == [r1 |-> 144, r2 |-> 864]

vars == <<job, invoiceVars, loginVars, setupVars>>

Init ==
    /\ job \in {"invoices", "login", "setup"}
    /\ InvoiceInit /\ LoginInit /\ SetupInit

Invoices(A) == job = "invoices" /\ A /\ UNCHANGED <<job, loginVars, setupVars>>

Next ==
    \/ Invoices(InvoiceNext)
    \/ job = "login" /\ LoginNext /\ UNCHANGED <<job, invoiceVars, setupVars>>
    \/ job = "setup" /\ SetupNext /\ UNCHANGED <<job, invoiceVars, loginVars>>

\* The monitor goes round, and a command that has selected commits.
Spec ==
    /\ Init /\ [][Next]_vars
    /\ WF_vars(Invoices(MonitorLoop))
    /\ WF_vars(Invoices(StoreHistory("command")))

-----------------------------------------------------------------------------
\* Every record is linked to its charge for good in the end, although each cycle
\* of the monitor takes the link away while the charge is recent: there are enough
\* days between the end of the live window and the end of what a sync asks for,
\* whatever a few of the syncs do (monitor, rebuild_recent, fetch_history).  Only a
\* charge that a rebuild has lost stays without its invoice.
RecordsAreInvoiced == job = "invoices" => EventuallyInvoiced
===============================================================================
