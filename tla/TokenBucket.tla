---------------------------- MODULE TokenBucket ----------------------------
(***************************************************************************)
(* What a rate limiter promises: every client has a bucket that fills by   *)
(* one unit per tick up to Capacity, and a request is served only by       *)
(* taking Cost units out of it.  The limiter may be stricter than that.    *)
(* The promise does not speak of maps, locks or evictions.                 *)
(***************************************************************************)
EXTENDS Integers

CONSTANTS
    Clients,
    Capacity,   \* units a bucket can hold
    Cost        \* units one request takes

VARIABLES
    clock,
    level,      \* per client: units in its bucket
    window      \* per client: an observation window, and what was served in it

vars == <<clock, level, window>>

Window == [since : Nat, served : Nat]

TypeOK ==
    /\ clock \in Nat
    /\ level \in [Clients -> 0..Capacity]
    /\ window \in [Clients -> Window]

Init ==
    /\ clock = 0
    /\ level = [c \in Clients |-> Capacity]
    /\ window = [c \in Clients |-> [since |-> 0, served |-> 0]]

Filled(l) == IF l < Capacity THEN l + 1 ELSE Capacity

Tick ==
    /\ clock' = clock + 1
    /\ level' = [c \in Clients |-> Filled(level[c])]
    /\ UNCHANGED window

Serve(c) ==
    /\ level[c] >= Cost
    /\ \E l \in 0..(level[c] - Cost) : level' = [level EXCEPT ![c] = l]
    /\ window' = [window EXCEPT ![c].served = @ + 1]
    /\ UNCHANGED clock

\* A client may lose units it did not use.
Forfeit(c) ==
    /\ \E l \in 0..level[c] : level' = [level EXCEPT ![c] = l]
    /\ UNCHANGED <<clock, window>>

\* Somebody starts to count from now on.
Observe(c) ==
    /\ window' = [window EXCEPT ![c] = [since |-> clock, served |-> 0]]
    /\ UNCHANGED <<clock, level>>

Next == Tick \/ \E c \in Clients : Serve(c) \/ Forfeit(c) \/ Observe(c)

Spec == Init /\ [][Next]_vars

\* Over any window, whenever it began, a client is served no more than a full
\* bucket and what the time since then has added.
WindowBound ==
    \A c \in Clients : Cost * window[c].served <= Capacity + (clock - window[c].since)
=============================================================================
