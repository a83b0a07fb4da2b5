---------------------------- MODULE DeviceTrace -----------------------------
(***************************************************************************)
(* The device table of cmd/tracer (tracer -devices) beside the registry    *)
(* whose event log it reads.  Registry.event is called with Registry.mu    *)
(* held, so the log has the events in the order of the critical sections,  *)
(* and the table is the fold of deviceStatus over them.  trace[d] is that  *)
(* fold for device d: a deviceRow without its counters of lost, stale and  *)
(* repeated messages.                                                      *)
(***************************************************************************)
EXTENDS Registry

VARIABLE trace

tracedVars == <<registryVars, trace>>

\* One case of the switch in deviceStatus for each event type.
ConfigSet(r, v) == [r EXCEPT !.desired = v, !.attempts = 0]

Pushed(r, v, n) == IF v = r.desired THEN [r EXCEPT !.attempts = n] ELSE r

Acked(r, v) == IF v > r.acked THEN [r EXCEPT !.acked = v] ELSE r

PushFailed(r, v) == [r EXCEPT !.failedAt = v]

\* Mutant: the row of a superseded failure is still shown as failed.
RowStateAnyFailure(r) ==
  CASE r.desired = 0 -> "idle"
    [] r.desired # 0 /\ r.acked >= r.desired -> "acked"
    [] r.desired # 0 /\ r.acked < r.desired /\ r.failedAt # 0 -> "failed"
    [] OTHER -> "pending"

\* deviceRow.state
RowState(r) ==
  CASE r.desired = 0 -> "idle"
    [] r.desired # 0 /\ r.acked >= r.desired -> "acked"
    [] r.desired # 0 /\ r.acked < r.desired /\ r.failedAt = r.desired -> "failed"
    [] OTHER -> "pending"

TraceInit ==
  /\ RegistryInit
  /\ trace = [d \in Devices |-> [desired |-> 0, acked |-> 0, attempts |-> 0,
                                 failedAt |-> 0]]

\* The events that change a row, logged by the step that makes them true.
Logs(d, row) == trace' = [trace EXCEPT ![d] = row]

TracedSetConfig(d, c) == SetConfig(d, c) /\ Logs(d, ConfigSet(trace[d], desired'[d]))

TracedGiveUp(d, l) == LoopGivesUp(d, l) /\ Logs(d, PushFailed(trace[d], desired[d]))

TracedPush(d, l) ==
  LoopPushes(d, l) /\ Logs(d, Pushed(trace[d], desired[d], attempts'[d]))

\* "acked" is logged only when the ack advances entry.AckedVersion.
TracedAck(d, l) ==
  /\ AckAccepted(d, l)
  /\ IF acked'[d] > acked[d] THEN Logs(d, Acked(trace[d], acked'[d]))
                             ELSE UNCHANGED trace

\* The remaining events (ack_timeout, stale_ack_ignored and
\* duplicate_ignored_by_device) only feed counters of the table.  Register, Retry,
\* Close and the end of a loop log nothing.
Untraced ==
  \/ \E d \in Devices : Register(d) \/ Retry(d)
  \/ \E d \in Devices, l \in Loops :
        \/ LoopStops(d, l) \/ DeviceReceives(d, l) \/ MessageLost(d, l)
        \/ AckTimesOut(d, l) \/ StaleAckIgnored(d, l)
        \/ LoopWakes(d, l) \/ LoopCancelled(d, l)
  \/ CloseCancels \/ CloseReturns

TraceNext ==
  \/ \E d \in Devices, c \in Configs : TracedSetConfig(d, c)
  \/ \E d \in Devices, l \in Loops :
        TracedGiveUp(d, l) \/ TracedPush(d, l) \/ TracedAck(d, l)
  \/ Untraced /\ UNCHANGED trace

\* The registry's fairness.
TraceSpec == TraceInit /\ [][TraceNext]_tracedVars /\ Fairness

-----------------------------------------------------------------------------
(* Properties *)

\* The tracer and the HTTP API tell the same story: the state rebuilt from the
\* events is the registry's, and ATTEMPTS counts the pushes of the desired version,
\* none for one that has not been pushed yet (where Status.Attempts still shows the
\* pushes of the version before, until the loop comes round).  The one exception is
\* a failed delivery that was retried: Retry is not logged, so until the next push
\* the table shows the spent budget, and until the end that the device failed.
TraceAgreesButRetried ==
  \A d \in registered :
    /\ \/ RowState(trace[d]) = state[d]
       \/ RowState(trace[d]) = "failed" /\ state[d] = "pending" /\ retries[d] > 0
    /\ \/ trace[d].attempts = IF pushedFor[d] = desired[d] THEN attempts[d] ELSE 0
       \/ trace[d].attempts = MaxAttempts /\ pushedFor[d] = 0 /\ retries[d] > 0

=============================================================================
