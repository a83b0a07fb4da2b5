------------------------------ MODULE Registry ------------------------------
(***************************************************************************)
(* The device registry of internal/devices: versioned configuration pushed *)
(* to each device by a goroutine (pushLoop) that retries until the device  *)
(* acknowledges, over the lossy in-process transport of sim.go.  An action *)
(* is one critical section of Registry.mu or of SimDevice.mu, or one       *)
(* outcome of a wait.  Goroutines are counted rather than assumed unique:  *)
(* device d may have one loop for each member of Loops, and only           *)
(* entry.loopRunning keeps SetConfig and Retry from starting a second one. *)
(***************************************************************************)
EXTENDS Naturals, FiniteSets

CONSTANTS
  Devices, Configs,
  Loops,        \* names for the push loops of one device
  MaxAttempts,  \* Options.MaxAttempts
  MaxVersion,   \* bound on the number of SetConfig calls per device
  MaxRetries    \* bound on the number of effective Retry calls per device

ASSUME RegistryAssumption ==
  /\ "none" \notin Configs
  /\ MaxAttempts \in Nat \ {0}    \* Options.defaults replaces a value <= 0
  /\ MaxVersion \in Nat /\ MaxRetries \in Nat

VARIABLES
  registered,   \* the keys of Registry.devs
  desired, config, acked, state, attempts, lastErr,  \* Status of each entry
  loopRunning, pushedFor,                            \* the rest of the entry
  pc,           \* where push loop <<d, l>> is, "none" if there is no such loop
  push,         \* the Push that loop has taken a copy of
  ack,          \* the Ack the transport returns to it
  version, running, applies,  \* SimDevice.version, .config and .applies
  retries,      \* effective Retry calls so far (for MaxRetries)
  closing       \* Registry.Close: "open", then "cancelled", then "returned"

entryVars == <<registered, desired, config, acked, state, attempts, lastErr,
               loopRunning, pushedFor, retries>>
loopVars == <<pc, push, ack>>
deviceVars == <<version, running, applies>>
registryVars == <<entryVars, loopVars, deviceVars, closing>>

NoPush == [version |-> 0, cfg |-> "none", attempt |-> 0]
NoAck  == [version |-> 0, applied |-> FALSE]

RegistryInit ==
  /\ registered = {}
  /\ desired = [d \in Devices |-> 0] /\ acked = [d \in Devices |-> 0]
  /\ config = [d \in Devices |-> "none"]
  /\ state = [d \in Devices |-> "idle"]
  /\ attempts = [d \in Devices |-> 0] /\ pushedFor = [d \in Devices |-> 0]
  /\ lastErr = [d \in Devices |-> FALSE]
  /\ loopRunning = [d \in Devices |-> FALSE]
  /\ retries = [d \in Devices |-> 0]
  /\ pc = [x \in Devices \X Loops |-> "none"]
  /\ push = [x \in Devices \X Loops |-> NoPush]
  /\ ack = [x \in Devices \X Loops |-> NoAck]
  /\ version = [d \in Devices |-> 0] /\ running = [d \in Devices |-> "none"]
  /\ applies = [d \in Devices |-> 0]
  /\ closing = "open"

Register(d) ==
  /\ d \notin registered
  /\ registered' = registered \cup {d}
  /\ UNCHANGED <<desired, config, acked, state, attempts, lastErr,
                 loopRunning, pushedFor, retries, loopVars, deviceVars, closing>>

\* Mutant: a push loop is started whether or not one is running.
StartLoopAlways(d) ==
  /\ loopRunning' = [loopRunning EXCEPT ![d] = TRUE]
  /\ \E l \in Loops : /\ pc[<<d, l>>] = "none"
                      /\ pc' = [pc EXCEPT ![<<d, l>>] = "top"]

\* The end of SetConfig and of Retry: start a push loop unless one is running.
StartLoop(d) ==
  \/ /\ loopRunning[d]
     /\ UNCHANGED <<loopRunning, pc>>
  \/ /\ ~loopRunning[d]
     /\ loopRunning' = [loopRunning EXCEPT ![d] = TRUE]
     /\ \E l \in Loops : /\ pc[<<d, l>>] = "none"
                         /\ pc' = [pc EXCEPT ![<<d, l>>] = "top"]

SetConfig(d, c) ==
  /\ d \in registered
  /\ desired[d] < MaxVersion
  /\ desired' = [desired EXCEPT ![d] = @ + 1]
  /\ config' = [config EXCEPT ![d] = c]
  /\ state' = [state EXCEPT ![d] = "pending"]
  /\ lastErr' = [lastErr EXCEPT ![d] = FALSE]
  /\ StartLoop(d)
  /\ UNCHANGED <<registered, acked, attempts, pushedFor, retries, push, ack,
                 deviceVars, closing>>

Retry(d) ==
  /\ d \in registered
  /\ state[d] = "failed"
  /\ retries[d] < MaxRetries
  /\ state' = [state EXCEPT ![d] = "pending"]
  /\ pushedFor' = [pushedFor EXCEPT ![d] = 0]
  /\ lastErr' = [lastErr EXCEPT ![d] = FALSE]
  /\ retries' = [retries EXCEPT ![d] = @ + 1]
  /\ StartLoop(d)
  /\ UNCHANGED <<registered, desired, config, acked, attempts, push, ack,
                 deviceVars, closing>>

Goto(x, label) == pc' = [pc EXCEPT ![x] = label]

\* A push loop ends: its device no longer has one.  The goroutine's own data
\* is gone with it.
LoopEnds(d, l) ==
  /\ Goto(<<d, l>>, "none")
  /\ loopRunning' = [loopRunning EXCEPT ![d] = FALSE]
  /\ push' = [push EXCEPT ![<<d, l>>] = NoPush]
  /\ ack' = [ack EXCEPT ![<<d, l>>] = NoAck]

\* Mutant: a new version inherits the attempts of the one before.
SpentEver(d) == attempts[d]

\* The attempts made so far for the desired version.
Spent(d) == IF pushedFor[d] # desired[d] THEN 0 ELSE attempts[d]

\* Mutant: the loop compares with the version it last pushed.
SettledAsPushed(d) == closing # "open" \/ acked[d] >= pushedFor[d]

\* The loop has nothing left to do.
NothingToPush(d) == closing # "open" \/ acked[d] >= desired[d]

\* The critical section at the top of pushLoop: stop, ...
LoopStops(d, l) ==
  /\ pc[<<d, l>>] = "top"
  /\ NothingToPush(d)
  /\ LoopEnds(d, l)
  /\ UNCHANGED <<registered, desired, config, acked, state, attempts, lastErr,
                 pushedFor, retries, deviceVars, closing>>

\* ... give up, the attempt budget of the desired version being spent, ...
LoopGivesUp(d, l) ==
  /\ pc[<<d, l>>] = "top"
  /\ ~NothingToPush(d)
  /\ Spent(d) >= MaxAttempts
  /\ state' = [state EXCEPT ![d] = "failed"]
  /\ LoopEnds(d, l)
  /\ UNCHANGED <<registered, desired, config, acked, attempts, lastErr,
                 pushedFor, retries, deviceVars, closing>>

\* ... or push the desired version once more.
LoopPushes(d, l) ==
  /\ pc[<<d, l>>] = "top"
  /\ ~NothingToPush(d)
  /\ Spent(d) < MaxAttempts
  /\ pushedFor' = [pushedFor EXCEPT ![d] = desired[d]]
  /\ attempts' = [attempts EXCEPT ![d] = Spent(d) + 1]
  /\ push' = [push EXCEPT ![<<d, l>>] = [version |-> desired[d], cfg |-> config[d],
                                     attempt |-> Spent(d) + 1]]
  /\ Goto(<<d, l>>, "sending")
  /\ UNCHANGED <<registered, desired, config, acked, state, lastErr,
                 loopRunning, retries, ack, deviceVars, closing>>

\* Mutant: the device applies a version again when it is pushed again.
DeviceReappliesEqual(d, l) ==
  /\ pc[<<d, l>>] = "sending"
  /\ LET p == push[<<d, l>>]
         newer == p.version >= version[d]
     IN  /\ version' = IF newer THEN [version EXCEPT ![d] = p.version] ELSE version
         /\ running' = IF newer THEN [running EXCEPT ![d] = p.cfg] ELSE running
         /\ applies' = IF newer THEN [applies EXCEPT ![d] = @ + 1] ELSE applies
         /\ ack' = [ack EXCEPT ![<<d, l>>] = [version |-> version'[d], applied |-> newer]]
  /\ Goto(<<d, l>>, "answered")
  /\ UNCHANGED <<entryVars, push, closing>>

\* The push arrives: SimDevice.Receive applies only a newer version, but
\* always answers with the version it runs.
DeviceReceives(d, l) ==
  /\ pc[<<d, l>>] = "sending"
  /\ LET p == push[<<d, l>>]
         newer == p.version > version[d]
     IN  /\ version' = IF newer THEN [version EXCEPT ![d] = p.version] ELSE version
         /\ running' = IF newer THEN [running EXCEPT ![d] = p.cfg] ELSE running
         /\ applies' = IF newer THEN [applies EXCEPT ![d] = @ + 1] ELSE applies
         /\ ack' = [ack EXCEPT ![<<d, l>>] = [version |-> version'[d], applied |-> newer]]
  /\ Goto(<<d, l>>, "answered")
  /\ UNCHANGED <<entryVars, push, closing>>

\* The network loses the push, or the ack on its way back.
MessageLost(d, l) ==
  /\ pc[<<d, l>>] \in {"sending", "answered"}
  /\ Goto(<<d, l>>, "lost")
  /\ UNCHANGED <<entryVars, push, ack, deviceVars, closing>>

\* Mutant: a loop whose push or ack was lost goes on waiting for the ack.
AckAwaitedForever(d, l) ==
  /\ pc[<<d, l>>] = "sending"
  /\ lastErr' = [lastErr EXCEPT ![d] = TRUE]
  /\ Goto(<<d, l>>, "backoff")
  /\ UNCHANGED <<registered, desired, config, acked, state, attempts,
                 loopRunning, pushedFor, retries, push, ack, deviceVars, closing>>

\* Send returns an error: the device is unknown to the network, AckTimeout is
\* over, or Close has cancelled the context.
AckTimesOut(d, l) ==
  /\ pc[<<d, l>>] \in {"sending", "lost"}
  /\ lastErr' = [lastErr EXCEPT ![d] = TRUE]
  /\ Goto(<<d, l>>, "backoff")
  /\ UNCHANGED <<registered, desired, config, acked, state, attempts,
                 loopRunning, pushedFor, retries, push, ack, deviceVars, closing>>

\* The ack is for a version that SetConfig has replaced in the meantime.
StaleAckIgnored(d, l) ==
  /\ pc[<<d, l>>] = "answered"
  /\ ack[<<d, l>>].version # desired[d]
  /\ Goto(<<d, l>>, "top")
  /\ UNCHANGED <<entryVars, push, ack, deviceVars, closing>>

\* Mutant: an ack for any version settles the device.
AckTakenForAny(d, l) ==
  /\ pc[<<d, l>>] = "answered"
  /\ acked' = [acked EXCEPT ![d] = desired[d]]
  /\ state' = [state EXCEPT ![d] = "acked"]
  /\ lastErr' = [lastErr EXCEPT ![d] = FALSE]
  /\ Goto(<<d, l>>, "top")
  /\ UNCHANGED <<registered, desired, config, attempts, loopRunning, pushedFor,
                 retries, push, ack, deviceVars, closing>>

\* The ack is for the desired version (an ack not above entry.AckedVersion is
\* dropped).
AckAccepted(d, l) ==
  /\ pc[<<d, l>>] = "answered"
  /\ LET v == ack[<<d, l>>].version
         news == v > acked[d]
     IN  /\ v = desired[d]
         /\ acked' = IF news THEN [acked EXCEPT ![d] = v] ELSE acked
         /\ state' = IF news THEN [state EXCEPT ![d] = "acked"] ELSE state
         /\ lastErr' = IF news THEN [lastErr EXCEPT ![d] = FALSE] ELSE lastErr
  /\ Goto(<<d, l>>, "top")
  /\ UNCHANGED <<registered, desired, config, attempts, loopRunning, pushedFor,
                 retries, push, ack, deviceVars, closing>>

\* sleep returns after the backoff ...
LoopWakes(d, l) ==
  /\ pc[<<d, l>>] = "backoff"
  /\ Goto(<<d, l>>, "top")
  /\ UNCHANGED <<entryVars, push, ack, deviceVars, closing>>

\* ... or because of Close; then finish ends the loop.
LoopCancelled(d, l) ==
  /\ pc[<<d, l>>] = "backoff"
  /\ closing # "open"
  /\ LoopEnds(d, l)
  /\ UNCHANGED <<registered, desired, config, acked, state, attempts, lastErr,
                 pushedFor, retries, deviceVars, closing>>

\* Close cancels the context ...
CloseCancels ==
  /\ closing = "open"
  /\ closing' = "cancelled"
  /\ UNCHANGED <<entryVars, loopVars, deviceVars>>

\* ... and waits on the WaitGroup until no push loop is left.
CloseReturns ==
  /\ closing = "cancelled"
  /\ \A x \in Devices \X Loops : pc[x] = "none"
  /\ closing' = "returned"
  /\ UNCHANGED <<entryVars, loopVars, deviceVars>>

LoopStep(d, l) ==
  \/ LoopStops(d, l) \/ LoopGivesUp(d, l) \/ LoopPushes(d, l)
  \/ DeviceReceives(d, l) \/ MessageLost(d, l) \/ AckTimesOut(d, l)
  \/ StaleAckIgnored(d, l) \/ AckAccepted(d, l)
  \/ LoopWakes(d, l) \/ LoopCancelled(d, l)

RegistryNext ==
  \/ \E d \in Devices : Register(d) \/ Retry(d)
  \/ \E d \in Devices, c \in Configs : SetConfig(d, c)
  \/ \E d \in Devices, l \in Loops : LoopStep(d, l)
  \/ CloseCancels \/ CloseReturns

RegistrySafety == RegistryInit /\ [][RegistryNext]_registryVars

\* A running goroutine keeps running, and every wait of a push loop is bounded
\* by AckTimeout or by the backoff.  Nothing obliges a client to call.
Fairness ==
  /\ \A d \in Devices, l \in Loops : WF_registryVars(LoopStep(d, l))
  /\ WF_registryVars(CloseReturns)

RegistrySpec == RegistrySafety /\ Fairness

-----------------------------------------------------------------------------
(* Properties *)

\* Every variable has the shape of the field it stands for.
RegistryTypeOK ==
  /\ registered \subseteq Devices
  /\ desired \in [Devices -> 0..MaxVersion] /\ acked \in [Devices -> 0..MaxVersion]
  /\ config \in [Devices -> Configs \cup {"none"}]
  /\ state \in [Devices -> {"idle", "pending", "acked", "failed"}]
  /\ attempts \in [Devices -> 0..MaxAttempts]
  /\ pushedFor \in [Devices -> 0..MaxVersion]
  /\ lastErr \in [Devices -> BOOLEAN] /\ loopRunning \in [Devices -> BOOLEAN]
  /\ retries \in [Devices -> 0..MaxRetries]
  /\ pc \in [Devices \X Loops -> {"none", "top", "sending", "answered",
                               "lost", "backoff"}]
  /\ push \in [Devices \X Loops -> [version : 0..MaxVersion,
                                    cfg : Configs \cup {"none"},
                                    attempt : 0..MaxAttempts]]
  /\ ack \in [Devices \X Loops -> [version : 0..MaxVersion, applied : BOOLEAN]]
  /\ version \in [Devices -> 0..MaxVersion]
  /\ running \in [Devices -> Configs \cup {"none"}]
  /\ applies \in [Devices -> Nat]
  /\ closing \in {"open", "cancelled", "returned"}

Alive(d) == {l \in Loops : pc[<<d, l>>] # "none"}

\* A device never has two push loops, however SetConfig, Retry and the end of
\* a loop interleave; loopRunning says exactly whether it has one.
SingleLoop == \A d \in Devices : Cardinality(Alive(d)) = IF loopRunning[d] THEN 1 ELSE 0

\* "acked" is never a claim about an older configuration: the device then runs
\* the desired version, with the configuration set for it.
AckedMeansRunning ==
  \A d \in Devices : state[d] = "acked" =>
    /\ acked[d] = desired[d] /\ version[d] = desired[d]
    /\ running[d] = config[d] /\ ~lastErr[d]

\* No SetConfig or Retry is forgotten: until Close, a pending device has a push
\* loop that has not yet decided to stop.
PendingIsServed ==
  closing = "open" =>
    \A d \in Devices : state[d] = "pending" => loopRunning[d] /\ acked[d] < desired[d]

\* A device is given up only after MaxAttempts pushes of the desired version
\* none of which was acknowledged; over SimNetwork the status then says that an ack
\* was missed (a transport with nothing but stale acks would leave LastError empty).
FailedMeansSpent ==
  \A d \in Devices : state[d] = "failed" =>
    /\ acked[d] < desired[d] /\ pushedFor[d] = desired[d]
    /\ attempts[d] = MaxAttempts /\ lastErr[d] /\ ~loopRunning[d]

\* Redelivery is idempotent: a device applies a version at most once, and what
\* the registry believes acknowledged never runs ahead of the device.
AppliedOnce ==
  \A d \in Devices : /\ applies[d] <= version[d]
                     /\ acked[d] <= version[d] /\ version[d] <= desired[d]

\* Both waits of a client end: until Close every pending device is acknowledged
\* or given up, so WaitSettled returns, and Close itself does not wait forever.
WaitsEnd ==
  /\ \A d \in Devices :
       state[d] = "pending" ~> (state[d] # "pending" \/ closing # "open")
  /\ closing = "cancelled" ~> closing = "returned"

=============================================================================
