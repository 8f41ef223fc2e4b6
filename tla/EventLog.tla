------------------------------ MODULE EventLog ------------------------------
(***************************************************************************)
(* What the job event store promises its callers: for every job one        *)
(* append-only sequence of events, in which the event at version v + 1 is  *)
(* chained to the event at version v by that event's hash.  A step of the  *)
(* store appends one event to one job, or changes no log at all.           *)
(*                                                                         *)
(* EventStore (both its PostgreSQL and its in-memory form) implements this *)
(* specification: see EventStore!LogRefinement.                            *)
(***************************************************************************)
EXTENDS Naturals, Sequences

CONSTANTS Jobs,         \* job identifiers
          Writers,      \* whoever may be the author of an event
          Types         \* event types

VARIABLE log            \* log[j]: the events of job j; its version is Len(log[j])

\* The prev_hash of a first event; the hash of an event is a positive number.
GenesisHash == 0

Event == [type : Types, writer : Writers, prev : Nat, hash : Nat]

\* The hash the next event of job j must carry in its prev field.
TipHash(j) == IF log[j] = << >> THEN GenesisHash ELSE log[j][Len(log[j])].hash

Init == log = [j \in Jobs |-> << >>]

AppendEvent(j) ==
    LET e == log'[j][Len(log[j]) + 1] IN
    /\ Len(log'[j]) = Len(log[j]) + 1
    /\ log' = [log EXCEPT ![j] = Append(@, e)]
    /\ e \in Event
    /\ e.prev = TipHash(j)

Next == \E j \in Jobs : AppendEvent(j)

Spec == Init /\ [][Next]_log
=============================================================================
