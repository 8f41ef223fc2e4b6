------------------------------ MODULE Snapshot ------------------------------
(***************************************************************************)
(* Snapshots of one job's event stream under PostgreSQL: every worker's    *)
(* snapshot loop builds a ReplayContext from the stream and stores it      *)
(* under a version, later runs resume from the latest snapshot and the     *)
(* events behind it, and old snapshots are deleted.                        *)
(*                                                                         *)
(* The stream only grows, so what a process has read of it is a length;    *)
(* the bytes of a snapshot are a function of the events they were built    *)
(* from, so a row keeps that number (upto) beside the version it is        *)
(* labelled with.  The contexts themselves are computed where they are     *)
(* compared.  Of the payload maps a context keeps the keys: a value is the *)
(* one its event carries.                                                  *)
(***************************************************************************)
EXTENDS Naturals, Sequences, SequencesExt

CONSTANTS Workers,     \* workers, each with its snapshot loop
          Runs,        \* runs that resume the job
          Nodes,       \* nodes of the plan
          Streams,     \* the streams the job may come to have
          Threshold,   \* events a job has before it is worth a snapshot
          KeepLatest,  \* keep_latest of the configuration
          MaxEvents,   \* bound: events of a stream
          MaxTicks,    \* bound: rounds of all snapshot loops together
          None

\* RecordedTime and RecordedUUID are stored as they are; the other maps are
\* allocated when a snapshot is read.
StoredAsIs == {"timer_fired", "uuid_recorded"}
Recorded == StoredAsIs \cup {"random_recorded", "http_recorded"}

\* Events of the whole job name no node.
NodeIDs == Nodes \cup {None}

\* The events of runs, requests and workers.  An ok event carries what the replay
\* asks of it: a result that counts as success, a resumption context, a
\* correlation key.
Event == [type : {"job_created", "plan_generated", "tool_invocation_started",
                  "tool_invocation_finished", "command_committed", "node_finished",
                  "state_changed", "job_waiting", "wait_completed", "job_completed",
                  "job_failed", "job_cancelled", "job_requeued"} \cup Recorded,
          node : NodeIDs,
          ok : BOOLEAN]

\* What a run knows of the job.  nilMaps are the maps that are not allocated;
\* writing to one of them panics.
ReplayContext ==
    [plan : BOOLEAN, cursor : NodeIDs, nodes : SUBSET NodeIDs,
     commands : SUBSET NodeIDs, invocations : SUBSET NodeIDs,
     pending : SUBSET NodeIDs, changes : Seq(NodeIDs),
     approved : SUBSET NodeIDs, wait : NodeIDs,
     memory : NodeIDs, recorded : [Recorded -> SUBSET NodeIDs],
     phase : {"planning", "executing", "job_completed", "job_failed", "job_cancelled", "job_waiting"},
     nilMaps : SUBSET Recorded, panic : BOOLEAN]

ASSUME SnapshotAssumption ==
    /\ None \notin Nodes \cup Nat \cup ReplayContext
    /\ Threshold \in Nat
    /\ KeepLatest \in Nat
    /\ MaxEvents \in Nat
    /\ MaxTicks \in Nat
    /\ \A s \in Streams : s \in Seq(Event) /\ Len(s) \in 1..MaxEvents

Versions == 0..MaxEvents

VARIABLES
    stream,  \* the events the job will have had
    len,     \* how many of them are written
    snaps,   \* snaps[v]: events in the snapshot of version v, None without such a row
    ticks,   \* rounds of the snapshot loops so far
    snap,    \* snap[w]: the snapshot loop of worker w
    replay   \* replay[r]: the BuildFromSnapshot of run r

vars == << stream, len, snaps, ticks, snap, replay >>

\* The stored stream, as ListEvents returns it.
log == SubSeq(stream, 1, len)

NoSnap == [at |-> "idle", upto |-> 0, label |-> 0]
NoReplay == [at |-> "idle", upto |-> None, label |-> 0, seen |-> 0]

-----------------------------------------------------------------------------
(* The ReplayContext. *)

EmptyContext ==
    [plan |-> FALSE, cursor |-> None, nodes |-> {}, commands |-> {}, invocations |-> {},
     pending |-> {}, changes |-> << >>, approved |-> {}, wait |-> None, memory |-> None,
     recorded |-> [k \in Recorded |-> {}], phase |-> "planning",
     nilMaps |-> {}, panic |-> FALSE]

\* A recorded effect; a write to a map that is not allocated panics.
RecordEffect(c, e) ==
    IF e.type \in c.nilMaps THEN [c EXCEPT !.panic = TRUE]
    ELSE [c EXCEPT !.recorded[e.type] = @ \cup {e.node}]

\* One event of the switch that both ways of building a context share.
ApplyEvent(c, e) ==
    IF c.panic THEN c ELSE
    CASE e.type = "tool_invocation_started" -> [c EXCEPT !.pending = @ \cup {e.node}]
      [] e.type = "tool_invocation_finished" ->
            [c EXCEPT !.pending = @ \ {e.node},
                      !.invocations = IF e.ok THEN @ \cup {e.node} ELSE @]
      [] e.type = "plan_generated" -> [c EXCEPT !.plan = TRUE]
      [] e.type = "node_finished" /\ e.ok ->
            [c EXCEPT !.nodes = @ \cup {e.node}, !.cursor = e.node]
      [] e.type = "command_committed" -> [c EXCEPT !.commands = @ \cup {e.node}]
      [] e.type = "state_changed" -> [c EXCEPT !.changes = Append(@, e.node)]
      [] e.type = "job_waiting" /\ e.ok -> [c EXCEPT !.wait = e.node, !.memory = e.node]
      [] e.type = "wait_completed" ->
            [c EXCEPT !.nodes = @ \cup {e.node}, !.cursor = e.node, !.wait = None,
                      !.commands = @ \cup {e.node},
                      !.approved = IF e.ok THEN @ \cup {e.node} ELSE @]
      [] e.type \in Recorded -> RecordEffect(c, e)
      [] OTHER -> c

\* The phase depends on the last event alone, and on whether there is a plan.
PhaseAfter(c, last) ==
    IF last \in {"job_completed", "job_failed", "job_cancelled", "job_waiting"} THEN last
    ELSE IF c.plan THEN "executing" ELSE "planning"

\* A context without a plan counts as none.
BuildFromEvents(events) ==
    LET c == FoldLeft(ApplyEvent, EmptyContext, events) IN
    IF c.plan THEN [c EXCEPT !.phase = PhaseAfter(c, events[Len(events)].type)] ELSE None

\* Writing a snapshot omits every map that is empty, ...
SerializeReplayContext(c) ==
    [c EXCEPT !.nilMaps = {k \in Recorded : c.recorded[k] = {}}]

\* ... and reading it allocates all of them but two, which come back as nil.
DeserializeSnapshot(c) == [c EXCEPT !.nilMaps = @ \cap StoredAsIs]

\* Mutant of ApplyIncrementalEvents: the phase of the snapshot is kept.
ApplyIncrementalOld(c, events) == FoldLeft(ApplyEvent, c, events)

ApplyIncrementalEvents(c, events) ==
    LET d == FoldLeft(ApplyEvent, c, events) IN
    [d EXCEPT !.phase = PhaseAfter(d, events[Len(events)].type)]

\* Mutant of BuildFromSnapshot: the event at the label is applied again.
BuildFromSnapshotEarly(upto, label, events) ==
    LET c == DeserializeSnapshot(SerializeReplayContext(BuildFromEvents(SubSeq(log, 1, upto))))
        from == IF label > Len(events) THEN Len(events) ELSE label
        incremental == SubSeq(events, from, Len(events)) IN
    IF incremental = << >> THEN c ELSE ApplyIncrementalEvents(c, incremental)

\* What a run gets from a snapshot of upto events labelled with version label,
\* after reading the events `events`.
BuildFromSnapshot(upto, label, events) ==
    LET c == DeserializeSnapshot(SerializeReplayContext(BuildFromEvents(SubSeq(log, 1, upto))))
        from == IF label > Len(events) THEN Len(events) ELSE label
        incremental == SubSeq(events, from + 1, Len(events)) IN
    IF incremental = << >> THEN c ELSE ApplyIncrementalEvents(c, incremental)

-----------------------------------------------------------------------------
(* The stream *)

AppendEvent ==
    /\ len < Len(stream)
    /\ len' = len + 1
    /\ UNCHANGED << stream, snaps, ticks, snap, replay >>

-----------------------------------------------------------------------------
(* triggerSnapshotsForHighEventJobs, for this job. *)

ListJobsWithHighEventCount == len >= Threshold

\* The job is among those with many events, which it stays, and the first read
\* builds the context; a job without a plan is skipped.
SnapshotBuild(w) ==
    /\ snap[w].at = "idle"
    /\ ticks < MaxTicks
    /\ ticks' = ticks + 1
    /\ ListJobsWithHighEventCount
    /\ BuildFromEvents(log) # None
    /\ snap' = [snap EXCEPT ![w] = [at |-> "version", upto |-> len, label |-> 0]]
    /\ UNCHANGED << stream, len, snaps, replay >>

\* Mutant of SnapshotVersion: the label is one too low.
SnapshotVersionLate(w) ==
    /\ snap[w].at = "version"
    /\ snap' = [snap EXCEPT ![w] = [at |-> "create", upto |-> snap[w].upto, label |-> len - 1]]
    /\ UNCHANGED << stream, len, snaps, ticks, replay >>

\* The second read: only its version is used.
SnapshotVersion(w) ==
    /\ snap[w].at = "version"
    /\ snap' = [snap EXCEPT ![w] = [at |-> "create", upto |-> snap[w].upto, label |-> len]]
    /\ UNCHANGED << stream, len, snaps, ticks, replay >>

\* An upsert: a row of the same version is replaced.
CreateSnapshot(w) ==
    /\ snap[w].at = "create"
    /\ snaps' = [snaps EXCEPT ![snap[w].label] = snap[w].upto]
    /\ snap' = [snap EXCEPT ![w] = IF KeepLatest <= 1 THEN [NoSnap EXCEPT !.at = "latest"] ELSE NoSnap]
    /\ UNCHANGED << stream, len, ticks, replay >>

Rows == {v \in Versions : snaps[v] # None}

IsLatest(v) == v \in Rows /\ \A u \in Rows : u <= v

SnapshotLatest(w) ==
    /\ snap[w].at = "latest"
    /\ \E v \in Versions :
          /\ IsLatest(v)
          /\ snap' = [snap EXCEPT ![w] = [at |-> "delete", upto |-> 0, label |-> v]]
    /\ UNCHANGED << stream, len, snaps, ticks, replay >>

\* Mutant of DeleteSnapshotsBefore: the snapshot to keep is deleted too.
DeleteSnapshotsUpTo(w) ==
    /\ snap[w].at = "delete"
    /\ snaps' = [v \in Versions |-> IF v <= snap[w].label THEN None ELSE snaps[v]]
    /\ snap' = [snap EXCEPT ![w] = NoSnap]
    /\ UNCHANGED << stream, len, ticks, replay >>

DeleteSnapshotsBefore(w) ==
    /\ snap[w].at = "delete"
    /\ snaps' = [v \in Versions |-> IF v < snap[w].label THEN None ELSE snaps[v]]
    /\ snap' = [snap EXCEPT ![w] = NoSnap]
    /\ UNCHANGED << stream, len, ticks, replay >>

\* A call fails or times out, or the worker stops: the job is left as it is.
SnapshotGiveUp(w) ==
    /\ snap[w].at # "idle"
    /\ snap' = [snap EXCEPT ![w] = NoSnap]
    /\ UNCHANGED << stream, len, snaps, ticks, replay >>

-----------------------------------------------------------------------------
(* A run that resumes: two reads with steps of others in between. *)

\* Without a snapshot, or when it cannot be read, the stream alone is replayed.
GetLatestSnapshot(r) ==
    /\ replay[r].at = "idle"
    /\ \/ \E v \in Versions :
             /\ IsLatest(v)
             /\ replay' = [replay EXCEPT ![r] =
                            [at |-> "events", upto |-> snaps[v], label |-> v, seen |-> 0]]
       \/ replay' = [replay EXCEPT ![r] = [at |-> "events", upto |-> None, label |-> 0, seen |-> 0]]
    /\ UNCHANGED << stream, len, snaps, ticks, snap >>

ListEvents(r) ==
    /\ replay[r].at = "events"
    /\ replay' = [replay EXCEPT ![r] = [at |-> "built", upto |-> replay[r].upto,
                                          label |-> replay[r].label, seen |-> len]]
    /\ UNCHANGED << stream, len, snaps, ticks, snap >>

\* The run goes on, or is over; a run after it starts anew.
ReplayDone(r) ==
    /\ replay[r].at = "built"
    /\ replay' = [replay EXCEPT ![r] = NoReplay]
    /\ UNCHANGED << stream, len, snaps, ticks, snap >>

-----------------------------------------------------------------------------

Init ==
    /\ stream \in Streams
    /\ len = 1
    /\ snaps = [v \in Versions |-> None]
    /\ ticks = 0
    /\ snap = [w \in Workers |-> NoSnap]
    /\ replay = [r \in Runs |-> NoReplay]

Next ==
    \/ AppendEvent
    \/ \E w \in Workers :
          \/ SnapshotBuild(w) \/ SnapshotVersion(w) \/ CreateSnapshot(w)
          \/ SnapshotLatest(w) \/ DeleteSnapshotsBefore(w) \/ SnapshotGiveUp(w)
    \/ \E r \in Runs : GetLatestSnapshot(r) \/ ListEvents(r) \/ ReplayDone(r)

Spec == Init /\ [][Next]_vars

-----------------------------------------------------------------------------
(* Properties *)

\* Types of the stream, of the rows and of the processes' reads.
TypeOK ==
    /\ stream \in Streams
    /\ len \in 1..Len(stream)
    /\ snaps \in [Versions -> Versions \cup {None}]
    /\ ticks \in 0..MaxTicks
    /\ snap \in [Workers -> [at : {"idle", "version", "create", "latest", "delete"},
                              upto : Versions, label : Versions]]
    /\ replay \in [Runs -> [at : {"idle", "events", "built"}, upto : Versions \cup {None},
                             label : Versions, seen : Versions]]

\* The context run r has built.
Context(r) ==
    LET events == SubSeq(log, 1, replay[r].seen) IN
    IF replay[r].upto = None THEN BuildFromEvents(events)
    ELSE BuildFromSnapshot(replay[r].upto, replay[r].label, events)

FullContext(r) == BuildFromEvents(SubSeq(log, 1, replay[r].seen))

\* A snapshot is never labelled with fewer events than it was built from, so that
\* no event is applied a second time on top of it (StateChangesByStep is appended
\* to, and would hold a change twice), and never with more than the stream has.
NothingTwice ==
    \A v \in Rows : snaps[v] <= v /\ v <= len

\* BuildFromSnapshot agrees with BuildFromEvents on every field of the context
\* when no event came between the two reads of the snapshot loop and no write
\* hits a map that was stored empty: snapshot and rest together are the stream.
SnapshotExact ==
    \A r \in Runs :
        (replay[r].at = "built" /\ replay[r].upto \in {None, replay[r].label})
            => LET c == Context(r) IN
               c = None \/ c.panic \/ [c EXCEPT !.nilMaps = {}] = FullContext(r)

\* Whatever the reads of the snapshot loop missed, a resumed run holds nothing for
\* done that the stream does not say: no node, command, invocation or approval is
\* invented, and no state change is applied more often than it was recorded.
ReplaySound ==
    \A r \in Runs :
        LET c == Context(r)
            f == FullContext(r) IN
        (replay[r].at = "built" /\ c # None /\ ~c.panic) =>
            /\ f # None
            /\ c.nodes \subseteq f.nodes
            /\ c.commands \subseteq f.commands
            /\ c.invocations \subseteq f.invocations
            /\ c.approved \subseteq f.approved
            /\ Len(c.changes) <= Len(f.changes)

\* Concurrent snapshot loops and their deletions never take the latest snapshot
\* back: once a job can resume from version v it never falls behind v.
LatestAdvances ==
    [][\A v \in Rows : \E u \in Versions : u >= v /\ snaps'[u] # None]_vars
=============================================================================
