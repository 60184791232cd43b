------------------------------ MODULE Replay -------------------------------
(***************************************************************************)
(* `teslai replay` beside the live worker: a second Ingestor, with a       *)
(* memory of its own, pushes the recorded payloads through handle() with   *)
(* the receive times they were recorded with (teslai/recorder.py, the      *)
(* replay command of teslai/cli.py), into the tables of Ingest.            *)
(***************************************************************************)
EXTENDS Ingest

CONSTANT MaxReplays  \* bound: replays started

ASSUME ReplayBoundAssumption == MaxReplays \in Nat

VARIABLES rpos,      \* record being replayed next (0: no replay is running)
          rlen,      \* length of the recording when the replay read it
          rmem,      \* the replaying Ingestor's _last_value
          replayed,  \* history: longest prefix a completed replay has covered
          replays    \* replays started

replayVars == <<rpos, rlen, rmem, replayed, replays>>
allVars == <<vars, replayVars>>

ReplayInit ==
    /\ Init
    /\ rpos = 0 /\ rlen = 0 /\ replayed = 0 /\ replays = 0
    /\ rmem = [f \in Fields |-> NoValue]

\* records = list(read_records(paths)): the whole file is read before the first
\* record is pushed.
ReplayStart ==
    /\ rpos = 0 /\ replays < MaxReplays /\ recording # <<>>
    /\ rpos' = 1 /\ rlen' = Len(recording) /\ replays' = replays + 1
    /\ rmem' = [f \in Fields |-> NoValue]
    /\ UNCHANGED <<vars, replayed>>

ReplaySignalNow(m, ts) ==  \* mutant: stamped with the time of the replay
    /\ m.kind = "signal"
    /\ events' = IF Repeats(rmem, m) THEN events ELSE Inserted(events, m, clock)
    /\ usage' = [usage EXCEPT ![m.field] = @ + 1]
    /\ rmem' = [rmem EXCEPT ![m.field] = m.value]
    /\ UNCHANGED connectivity

ReplaySignalReplacing(m, ts) ==  \* mutant: the day's rows are replaced, not added to
    /\ m.kind = "signal"
    /\ events' = IF Repeats(rmem, m)
                 THEN events
                 ELSE {r \in events : r.field # m.field \/ r.ts < ts} \cup
                      {[field |-> m.field, ts |-> ts, value |-> m.value]}
    /\ usage' = [usage EXCEPT ![m.field] = @ + 1]
    /\ rmem' = [rmem EXCEPT ![m.field] = m.value]
    /\ UNCHANGED connectivity

\* ingestor.handle(r.topic, r.payload, r.received_at), in a transaction of its own.
ReplaySignal(m, ts) ==
    /\ m.kind = "signal"
    /\ events' = IF Repeats(rmem, m) THEN events ELSE Inserted(events, m, ts)
    /\ usage' = [usage EXCEPT ![m.field] = @ + 1]
    /\ rmem' = [rmem EXCEPT ![m.field] = m.value]
    /\ UNCHANGED connectivity

ReplayConnectivity(m) ==
    /\ m.kind = "connectivity"
    /\ connectivity' = connectivity \cup {[ts |-> m.created, connected |-> m.connected]}
    /\ UNCHANGED <<events, usage, rmem>>

ReplayIgnored(m) ==
    /\ m.kind = "ignored"
    /\ UNCHANGED <<events, usage, rmem, connectivity>>

ReplayRecord ==
    /\ rpos \in 1..rlen
    /\ LET r == recording[rpos]
           m == sent[r.msg]
       IN  ReplaySignal(m, r.ts) \/ ReplayConnectivity(m) \/ ReplayIgnored(m)
    /\ rpos' = rpos + 1
    /\ UNCHANGED <<brokerVars, workerVars, committed, doubted, recording, clock, faults,
                   rlen, replayed, replays>>

ReplayExits == rpos' = 0 /\ rlen' = 0 /\ rmem' = [f \in Fields |-> NoValue]

ReplayDone ==
    /\ rpos = rlen + 1
    /\ ReplayExits
    /\ replayed' = IF rlen > replayed THEN rlen ELSE replayed
    /\ UNCHANGED <<vars, replays>>

\* handle() raises or the command is stopped: what it committed stays.
ReplayAborts ==
    /\ rpos \in 1..rlen
    /\ ReplayExits
    /\ UNCHANGED <<vars, replayed, replays>>

Worker == Next /\ UNCHANGED replayVars

ReplayNext == Worker \/ ReplayStart \/ ReplayRecord \/ ReplayDone \/ ReplayAborts

ReplaySpec == ReplayInit /\ [][ReplayNext]_allVars

\* The worker reads on and the replay loop runs to its end.
ReplayFairSpec ==
    ReplaySpec /\ WF_allVars(Work /\ UNCHANGED replayVars)

-----------------------------------------------------------------------------
\* Between replays the stored rows show, at the moment each signal was
\* committed, its value: a replay, even one cut short or run while the worker
\* ingests, rewrites no history the worker had stored, and leaves the newest row
\* of each field the car's last value.
ReplayKeepsHistory == (rpos = 0) => CommittedIsShown /\ NewestWins

\* Replaying records that a completed replay has already covered stores no row
\* ("replaying a day twice changes nothing", recorder.py), whatever the live
\* worker stored in between.  It does count every signal in api_usage again.
ReplayAgainStoresNothing ==
    [][ReplayRecord /\ rpos <= replayed => UNCHANGED <<events, connectivity>>]_allVars
=============================================================================
