----------------------------- MODULE MCSnapshot -----------------------------
(***************************************************************************)
(* Snapshot for TLC.  The streams are those of jobs with a tool t and a    *)
(* second node u: a tool that records effects; a failed attempt that is    *)
(* requeued and repeated; a wait that is answered, then a tool; a job      *)
(* cancelled while a tool is under way; a wait without a resumption        *)
(* context whose answer has no key.                                        *)
(***************************************************************************)
EXTENDS Snapshot, TLC

CONSTANTS w1, w2, t, u

MCSymmetry == Permutations({w1, w2})

E(type, n, ok) == [type |-> type, node |-> n, ok |-> ok]

Begin == << E("job_created", None, TRUE), E("plan_generated", None, TRUE) >>

MCStreams ==
    { Begin \o << E("tool_invocation_started", t, TRUE), E("timer_fired", t, TRUE),
                  E("random_recorded", t, TRUE), E("tool_invocation_finished", t, TRUE),
                  E("state_changed", t, TRUE), E("node_finished", t, TRUE) >>,
      Begin \o << E("tool_invocation_started", t, TRUE), E("tool_invocation_finished", t, FALSE),
                  E("node_finished", t, FALSE), E("job_failed", None, TRUE),
                  E("job_requeued", None, TRUE), E("tool_invocation_started", t, TRUE) >>,
      Begin \o << E("job_waiting", u, TRUE), E("wait_completed", u, TRUE),
                  E("tool_invocation_started", t, TRUE), E("tool_invocation_finished", t, TRUE),
                  E("command_committed", t, TRUE), E("node_finished", t, TRUE) >>,
      Begin \o << E("tool_invocation_started", t, TRUE), E("uuid_recorded", t, TRUE),
                  E("uuid_recorded", u, TRUE), E("http_recorded", t, TRUE),
                  E("job_cancelled", None, TRUE) >>,
      Begin \o << E("state_changed", t, TRUE), E("state_changed", u, TRUE),
                  E("job_waiting", u, FALSE), E("wait_completed", u, FALSE),
                  E("job_completed", None, TRUE) >> }
=============================================================================
