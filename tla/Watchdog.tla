------------------------------ MODULE Watchdog ------------------------------
(***************************************************************************)
(* The silent-stall watchdog of the supervisor (cmd/ocr/main.go,           *)
(* watchdogLoop): at every tick it reads the collector's cursor, raises an *)
(* alarm when the cursor has not risen for longer than a threshold, and    *)
(* again at most once per re-alert interval.                               *)
(*                                                                         *)
(* Time is counted in watchdogIntervals. Of the collector and of backfill  *)
(* commands there is what the watchdog sees: the cursor they write.        *)
(***************************************************************************)
EXTENDS Integers

CONSTANTS
    Threshold,  \* StallAlertMin; 0 disables the watchdog
    ReAlert,    \* stallReAlertInterval
    MaxBlock,   \* bound: the highest block
    MaxDelay,   \* bound: ticks a read of the cursor takes
    MaxFaults,  \* bound: reads that fail
    MaxClock    \* bound: length of a behaviour

ASSUME WatchdogAssumption ==
    /\ Threshold \in Nat /\ ReAlert \in Nat /\ MaxBlock \in Nat
    /\ MaxDelay \in Nat /\ MaxFaults \in Nat /\ MaxClock \in Nat

Never == -1
NoCursor == -1
Blocks == 0..MaxBlock
Times == 0..MaxClock
Cursors == Blocks \cup {NoCursor}
Moments == Times \cup {Never}

VARIABLES
    cursor,     \* the cursor in Postgres
    clock,
    st,         \* watchdogState
    due,        \* a tick waits in the ticker's channel, which holds one
    probe,      \* the read in progress: what it found, and since when it was so
    moved,      \* history: when the cursor last changed
    lowered,    \* history: the cursor was set back
    alarm,      \* history: when the last alarm was raised, and whether rightly so
    faults      \* reads that failed

history == <<moved, lowered>>
watchdogVars == <<cursor, clock, st, due, probe, moved, lowered, alarm, faults>>

NoProbe == [reading |-> FALSE, cursor |-> NoCursor, at |-> Never, moved |-> Never]

WatchdogTypeOK ==
    /\ cursor \in Cursors
    /\ clock \in Times
    /\ st \in [lastBlock : Blocks, advancedAt : Moments, lastAlert : Moments]
    /\ due \in BOOLEAN
    /\ probe \in [reading : BOOLEAN, cursor : Cursors, at : Moments, moved : Moments]
    /\ moved \in Moments
    /\ lowered \in BOOLEAN
    /\ alarm \in [at : Moments, stalled : BOOLEAN]
    /\ faults \in 0..MaxFaults

WatchdogInit ==
    /\ cursor \in Cursors
    /\ clock = 0
    /\ st = [lastBlock |-> 0, advancedAt |-> Never, lastAlert |-> Never]
    /\ due = FALSE
    /\ probe = NoProbe
    /\ moved = IF cursor = NoCursor THEN Never ELSE 0
    /\ lowered = FALSE
    /\ alarm = [at |-> Never, stalled |-> TRUE]
    /\ faults = 0

-----------------------------------------------------------------------------
(* SetCursor, by the collector and by backfills.                           *)

\* A chunk is processed, or a backfill starts at a later block.
Advance ==
    /\ \E block \in Blocks : block > cursor /\ cursor' = block
    /\ moved' = clock
    /\ UNCHANGED <<clock, st, due, probe, lowered, alarm, faults>>

\* A backfill starts at an earlier block, or a scan that was under way then writes.
SetBack ==
    /\ \E block \in Blocks : block < cursor /\ cursor' = block
    /\ moved' = clock
    /\ lowered' = TRUE
    /\ UNCHANGED <<clock, st, due, probe, alarm, faults>>

-----------------------------------------------------------------------------
(* The loop.                                                               *)

\* The next interval begins. The loop takes a tick when it is not in a check, and a
\* read ends within MaxDelay; a tick that finds another one waiting is dropped.
Tick ==
    /\ clock < MaxClock
    /\ due => probe.reading
    /\ probe.reading => clock - probe.at < MaxDelay
    /\ clock' = clock + 1
    /\ due' = (Threshold > 0)
    /\ UNCHANGED <<cursor, st, probe, history, alarm, faults>>

\* watchdogCheck: GetCursor.
ReadCursor ==
    /\ due /\ ~probe.reading
    /\ due' = FALSE
    /\ probe' = [reading |-> TRUE, cursor |-> cursor, at |-> clock, moved |-> moved]
    /\ UNCHANGED <<cursor, clock, st, history, alarm, faults>>

\* The read fails: the state stays.
ReadFails ==
    /\ probe.reading
    /\ faults < MaxFaults
    /\ faults' = faults + 1
    /\ probe' = NoProbe
    /\ UNCHANGED <<cursor, clock, st, due, history, alarm>>

\* What was read meets a watchdog that has seen no cursor or a lower one.
Advanced == st.advancedAt = Never \/ probe.cursor > st.lastBlock

Frozen == clock - st.advancedAt
Throttled == st.lastAlert # Never /\ clock - st.lastAlert < ReAlert

\* watchdogStep on what was read, at the time the answer is there.
Assess(readings, alarms) ==
    /\ probe.reading
    /\ probe' = NoProbe
    /\ st' = readings
    /\ alarm' = alarms
    /\ UNCHANGED <<cursor, clock, due, history, faults>>

\* No cursor yet: nothing to assess.
ColdStore == probe.cursor = NoCursor /\ Assess(st, alarm)

\* Fault: the freeze is still counted from the first cursor seen.
ProgressUntimed ==
    /\ probe.cursor # NoCursor /\ Advanced
    /\ Assess([lastBlock |-> probe.cursor, lastAlert |-> Never,
               advancedAt |-> IF st.advancedAt = Never THEN clock ELSE st.advancedAt], alarm)

\* The collector progresses: the throttle is cleared.
Progress ==
    /\ probe.cursor # NoCursor /\ Advanced
    /\ Assess([lastBlock |-> probe.cursor, advancedAt |-> clock, lastAlert |-> Never], alarm)

\* stallAlertDecision: not frozen for long.
Healthy ==
    /\ probe.cursor # NoCursor /\ ~Advanced /\ Frozen <= Threshold
    /\ Assess([st EXCEPT !.lastAlert = Never], alarm)

\* Fault: a suppressed alarm counts as the last one.
SuppressedAnew ==
    /\ probe.cursor # NoCursor /\ ~Advanced /\ Frozen > Threshold /\ Throttled
    /\ Assess([st EXCEPT !.lastAlert = clock], alarm)

\* A stall that was reported not long ago.
Suppressed ==
    /\ probe.cursor # NoCursor /\ ~Advanced /\ Frozen > Threshold /\ Throttled
    /\ Assess(st, alarm)

\* A stall to report.
Alert ==
    /\ probe.cursor # NoCursor /\ ~Advanced /\ Frozen > Threshold /\ ~Throttled
    /\ Assess([st EXCEPT !.lastAlert = clock],
              [at |-> clock, stalled |-> clock - probe.moved > Threshold])

Check == ReadCursor \/ ReadFails \/ ColdStore \/ Progress \/ Healthy \/ Suppressed \/ Alert

WatchdogNext == Advance \/ SetBack \/ Tick \/ Check

WatchdogSpec == WatchdogInit /\ [][WatchdogNext]_watchdogVars

-----------------------------------------------------------------------------
(* Properties.                                                             *)

\* "A frozen cursor means a real stall": when the watchdog raises an alarm, the
\* cursor it read had stood still for longer than the threshold, however late the
\* answer of the database is. Unless a backfill had set the cursor back: ingestion
\* goes on then below a block the watchdog remembers.
AlarmIsStall == alarm.stalled \/ lowered

\* Ticks from the end of a check that took a while to the end of the next.
Round == IF MaxDelay = 0 THEN 1 ELSE MaxDelay

\* Ticks by which a stall is noticed late: a check that began before the cursor
\* stopped, the one that first sees where it stopped, the one that comes next when
\* the threshold has passed just after a check, and checks that fail.
Slack == (2 + faults) * Round + 1 + MaxDelay

\* No stall is silent: while the cursor has stood still for longer than the threshold
\* and a few ticks, an alarm has been raised, and again within the re-alert
\* interval; an alarm of its own, the throttle of an earlier stall does not hold it
\* up, unless the cursor was set back.
StallNoticed ==
    Threshold > 0 /\ moved # Never /\ clock - moved > Threshold + Slack =>
        /\ alarm.at # Never
        /\ clock - alarm.at <= ReAlert + Slack
        /\ alarm.at > moved \/ lowered
=============================================================================
