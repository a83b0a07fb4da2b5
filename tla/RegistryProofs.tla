--------------------------- MODULE RegistryProofs ---------------------------
(***************************************************************************)
(* Proofs about the device registry and the tracer's device table, for     *)
(* every set of devices, configurations and loops and every bound.         *)
(***************************************************************************)
EXTENDS DeviceTrace, FiniteSetTheorems, TLAPS

USE RegistryAssumption

\* Where a push loop can be.
LoopLabels == {"none", "top", "sending", "answered", "lost", "backoff"}

\* loopRunning as the loops see it: a device with a loop is marked, the loop is
\* its only one, and a marked device has a loop.
LoopsMarked ==
  \A d \in Devices :
    /\ \A l \in Loops : pc[<<d, l>>] # "none" =>
         loopRunning[d] /\ \A m \in Loops : pc[<<d, m>>] # "none" => m = l
    /\ loopRunning[d] => \E l \in Loops : pc[<<d, l>>] # "none"

\* What the fields of one entry say about each other and about the device.
EntryOK ==
  \A d \in Devices :
    /\ acked[d] <= version[d] /\ version[d] <= desired[d]
    /\ applies[d] <= version[d] /\ pushedFor[d] <= desired[d]
    /\ version[d] = desired[d] => running[d] = config[d]
    /\ desired[d] = 0 => config[d] = "none"
    /\ state[d] = "idle" <=> desired[d] = 0
    /\ state[d] = "pending" => acked[d] < desired[d]
    /\ state[d] = "acked" => acked[d] = desired[d] /\ ~lastErr[d]
    /\ state[d] = "failed" => /\ acked[d] < desired[d] /\ pushedFor[d] = desired[d]
                              /\ attempts[d] = MaxAttempts /\ lastErr[d]

\* A loop runs unless the device is settled or the registry closed.
Served ==
  \A d \in Devices : /\ state[d] = "failed" => ~loopRunning[d]
                     /\ closing = "open" /\ state[d] = "pending" => loopRunning[d]

\* What a loop holds, having left the critical section, against what it will find
\* on its return.  A push still names the version last pushed, an ack is never for
\* less than the push it answers nor for more than the device runs, and a loop back
\* at the top with the desired version unacknowledged has recorded an error.
FlightAt(d, l) ==
  /\ push[<<d, l>>].version <= desired[d]
  /\ push[<<d, l>>].version = desired[d] => push[<<d, l>>].cfg = config[d]
  /\ ack[<<d, l>>].version <= version[d]
  /\ pc[<<d, l>>] \in {"sending", "answered", "lost", "backoff"} => acked[d] < desired[d]
  /\ pc[<<d, l>>] \in {"sending", "answered", "lost"} => push[<<d, l>>].version = pushedFor[d]
  /\ pc[<<d, l>>] = "answered" => ack[<<d, l>>].version >= push[<<d, l>>].version
  /\ pc[<<d, l>>] \in {"top", "backoff"} /\ acked[d] < desired[d]
       /\ pushedFor[d] = desired[d] => lastErr[d]

FlightOK == \A d \in Devices, l \in Loops : FlightAt(d, l)

\* The inductive invariant.
IInv == RegistryTypeOK /\ LoopsMarked /\ EntryOK /\ Served /\ FlightOK

-----------------------------------------------------------------------------
(* The loops of a device *)

\* A step of loop l of device d touches no other loop's program counter.
LEMMA GotoOne ==
  ASSUME RegistryTypeOK, NEW d \in Devices, NEW l \in Loops, NEW label, Goto(<<d, l>>, label)
  PROVE  /\ pc'[<<d, l>>] = label
         /\ \A e \in Devices, m \in Loops : <<e, m>> # <<d, l>> => pc'[<<e, m>>] = pc[<<e, m>>]
BY DEF RegistryTypeOK, Goto

\* A loop that goes on stays the one loop of its device.
LEMMA GoesOn ==
  ASSUME RegistryTypeOK, LoopsMarked, NEW d \in Devices, NEW l \in Loops, NEW label,
         Goto(<<d, l>>, label), pc[<<d, l>>] # "none", label # "none",
         loopRunning' = loopRunning
  PROVE  LoopsMarked'
<1>1. \A e \in Devices, m \in Loops : pc'[<<e, m>>] # "none" <=> pc[<<e, m>>] # "none"
  <2> SUFFICES ASSUME NEW e \in Devices, NEW m \in Loops
               PROVE  pc'[<<e, m>>] # "none" <=> pc[<<e, m>>] # "none"
    OBVIOUS
  <2>1. CASE e = d /\ m = l
    BY <2>1, GotoOne
  <2>2. CASE e # d \/ m # l
    BY <2>2, GotoOne
  <2> QED BY <2>1, <2>2
<1> QED BY <1>1 DEF LoopsMarked

\* A loop that ends leaves its device without a loop, and unmarked.
LEMMA Ends ==
  ASSUME RegistryTypeOK, LoopsMarked, NEW d \in Devices, NEW l \in Loops,
         LoopEnds(d, l), pc[<<d, l>>] # "none"
  PROVE  /\ LoopsMarked' /\ ~loopRunning'[d]
         /\ \A e \in Devices \ {d} : loopRunning'[e] = loopRunning[e]
         /\ \A m \in Loops : pc'[<<d, m>>] = "none"
<1>1. /\ pc'[<<d, l>>] = "none"
      /\ \A e \in Devices, m \in Loops : <<e, m>> # <<d, l>> => pc'[<<e, m>>] = pc[<<e, m>>]
  BY GotoOne DEF LoopEnds
<1>2. ~loopRunning'[d] /\ \A e \in Devices \ {d} : loopRunning'[e] = loopRunning[e]
  BY DEF LoopEnds, RegistryTypeOK
<1>3. \A m \in Loops : pc'[<<d, m>>] = "none"
  BY <1>1 DEF LoopsMarked
<1>4. \A e \in Devices \ {d}, m \in Loops : pc'[<<e, m>>] = pc[<<e, m>>]
  BY <1>1
<1>5. LoopsMarked'
  BY <1>2, <1>3, <1>4 DEF LoopsMarked
<1> QED BY <1>2, <1>3, <1>5

\* SetConfig and Retry leave their device with exactly one loop: the one it had,
\* which is not disturbed, or a new one at the top.
LEMMA Starts ==
  ASSUME RegistryTypeOK, LoopsMarked, NEW d \in Devices, StartLoop(d)
  PROVE  /\ LoopsMarked' /\ loopRunning'[d]
         /\ \A e \in Devices \ {d} : loopRunning'[e] = loopRunning[e]
         /\ \A e \in Devices, m \in Loops :
              pc'[<<e, m>>] = pc[<<e, m>>] \/ (e = d /\ pc'[<<e, m>>] = "top")
         /\ pc' \in [Devices \X Loops -> LoopLabels]
         /\ loopRunning' \in [Devices -> BOOLEAN]
<1>1. CASE loopRunning[d] /\ UNCHANGED <<loopRunning, pc>>
  BY <1>1 DEF LoopLabels, LoopsMarked, RegistryTypeOK
<1>2. ASSUME ~loopRunning[d], loopRunning' = [loopRunning EXCEPT ![d] = TRUE],
             NEW l \in Loops, pc' = [pc EXCEPT ![<<d, l>>] = "top"]
      PROVE  /\ LoopsMarked' /\ loopRunning'[d]
             /\ \A e \in Devices \ {d} : loopRunning'[e] = loopRunning[e]
             /\ \A e \in Devices, m \in Loops :
                  pc'[<<e, m>>] = pc[<<e, m>>] \/ (e = d /\ pc'[<<e, m>>] = "top")
             /\ pc' \in [Devices \X Loops -> LoopLabels]
             /\ loopRunning' \in [Devices -> BOOLEAN]
  <2>1. /\ pc'[<<d, l>>] = "top"
        /\ \A e \in Devices, m \in Loops : <<e, m>> # <<d, l>> => pc'[<<e, m>>] = pc[<<e, m>>]
    BY <1>2, GotoOne DEF Goto
  <2>2. loopRunning'[d] /\ \A e \in Devices \ {d} : loopRunning'[e] = loopRunning[e]
    BY <1>2 DEF RegistryTypeOK
  <2>3. \A m \in Loops : m # l => pc'[<<d, m>>] = "none"
    BY <1>2, <2>1 DEF LoopsMarked
  <2>4. \A e \in Devices \ {d}, m \in Loops : pc'[<<e, m>>] = pc[<<e, m>>]
    BY <2>1
  <2>5. LoopsMarked'
    BY <2>1, <2>2, <2>3, <2>4 DEF LoopsMarked
  <2>6. /\ pc' \in [Devices \X Loops -> LoopLabels]
        /\ loopRunning' \in [Devices -> BOOLEAN]
    BY <1>2 DEF RegistryTypeOK, LoopLabels
  <2> QED BY <2>1, <2>2, <2>5, <2>6
<1> QED BY <1>1, <1>2 DEF StartLoop

-----------------------------------------------------------------------------
(* The steps of a push loop *)

\* A loop step of device d leaves what every other loop holds as good as it was:
\* the other devices are not touched, and d has no other loop.
LEMMA OtherFlights ==
  ASSUME IInv, NEW d \in Devices, NEW l \in Loops, LoopStep(d, l), FlightAt(d, l)'
  PROVE  FlightOK'
<1> SUFFICES ASSUME NEW e \in Devices, NEW m \in Loops, e # d \/ m # l
             PROVE  FlightAt(e, m)'
  BY DEF FlightOK
<1> USE DEF LoopStep, LoopStops, LoopGivesUp, LoopPushes, DeviceReceives, MessageLost,
            AckTimesOut, StaleAckIgnored, AckAccepted, LoopWakes, LoopCancelled,
            LoopEnds, entryVars, deviceVars
<1>1. pc[<<d, l>>] # "none" /\ \E label : Goto(<<d, l>>, label)
  OBVIOUS
<1>2. /\ pc'[<<e, m>>] = pc[<<e, m>>] /\ push'[<<e, m>>] = push[<<e, m>>]
      /\ ack'[<<e, m>>] = ack[<<e, m>>]
  BY <1>1, GotoOne DEF IInv, RegistryTypeOK
<1>3. /\ desired' = desired /\ config' = config /\ version[e] <= version'[e]
      /\ e # d => /\ acked'[e] = acked[e] /\ pushedFor'[e] = pushedFor[e]
                  /\ lastErr'[e] = lastErr[e]
  BY DEF IInv, RegistryTypeOK
<1>4. e = d => pc[<<e, m>>] = "none"
  BY <1>1 DEF IInv, LoopsMarked
<1>5. FlightAt(e, m)
  BY DEF IInv, FlightOK
<1> QED BY <1>2, <1>3, <1>4, <1>5 DEF FlightAt, IInv, RegistryTypeOK

\* A loop stops only when its device is not pending, or on Close.
LEMMA LoopStopsInv ==
  ASSUME IInv, NEW d \in Devices, NEW l \in Loops, LoopStops(d, l) PROVE IInv'
<1> USE DEF LoopStops, NothingToPush, deviceVars
<1>1. RegistryTypeOK'
  BY DEF IInv, RegistryTypeOK, Goto, LoopEnds, NoPush, NoAck
<1>2. /\ LoopsMarked' /\ ~loopRunning'[d]
      /\ \A e \in Devices \ {d} : loopRunning'[e] = loopRunning[e]
      /\ \A m \in Loops : pc'[<<d, m>>] = "none"
  BY Ends DEF IInv
<1>3. EntryOK'
  BY DEF IInv, RegistryTypeOK, EntryOK, FlightOK, FlightAt
<1>4. Served'
  BY <1>2 DEF IInv, RegistryTypeOK, Served, EntryOK, LoopsMarked
<1>5. FlightAt(d, l)'
  <2>1. FlightAt(d, l)
    BY DEF IInv, FlightOK
  <2> QED BY <2>1 DEF IInv, RegistryTypeOK, EntryOK, Served, FlightAt, Goto, LoopEnds, NoPush, NoAck
<1> QED BY <1>1, <1>2, <1>3, <1>4, <1>5, OtherFlights DEF IInv, LoopStep

\* A loop gives up with the budget of the desired version spent and an error noted.
LEMMA LoopGivesUpInv ==
  ASSUME IInv, NEW d \in Devices, NEW l \in Loops, LoopGivesUp(d, l) PROVE IInv'
<1> USE DEF LoopGivesUp, NothingToPush, Spent, deviceVars
<1>1. RegistryTypeOK'
  BY DEF IInv, RegistryTypeOK, Goto, LoopEnds, NoPush, NoAck
<1>2. /\ LoopsMarked' /\ ~loopRunning'[d]
      /\ \A e \in Devices \ {d} : loopRunning'[e] = loopRunning[e]
      /\ \A m \in Loops : pc'[<<d, m>>] = "none"
  BY Ends DEF IInv
<1>3. EntryOK'
  <2>1. acked[d] < desired[d] /\ pushedFor[d] = desired[d] /\ attempts[d] = MaxAttempts
    <3>1. /\ acked[d] \in Nat /\ desired[d] \in Nat
          /\ attempts[d] \in 0..MaxAttempts
      BY DEF IInv, RegistryTypeOK
    <3> QED BY <3>1
  <2>2. lastErr[d]
    BY <2>1 DEF IInv, FlightOK, FlightAt
  <2> QED BY <2>1, <2>2 DEF IInv, RegistryTypeOK, EntryOK
<1>4. Served'
  BY <1>2 DEF IInv, RegistryTypeOK, Served, EntryOK, LoopsMarked
<1>5. FlightAt(d, l)'
  <2>1. FlightAt(d, l)
    BY DEF IInv, FlightOK
  <2> QED BY <2>1 DEF IInv, RegistryTypeOK, EntryOK, Served, FlightAt, Goto, LoopEnds, NoPush, NoAck
<1> QED BY <1>1, <1>2, <1>3, <1>4, <1>5, OtherFlights DEF IInv, LoopStep

\* The push a loop sends carries the desired version with its configuration.
LEMMA LoopPushesInv ==
  ASSUME IInv, NEW d \in Devices, NEW l \in Loops, LoopPushes(d, l) PROVE IInv'
<1> USE DEF LoopPushes, NothingToPush, Spent, deviceVars
<1>1. RegistryTypeOK'
  BY DEF IInv, RegistryTypeOK, Goto
<1>2. LoopsMarked'
  BY GoesOn DEF IInv
<1>3. EntryOK'
  BY DEF IInv, RegistryTypeOK, EntryOK, FlightOK, FlightAt
<1>4. Served'
  BY <1>2 DEF IInv, RegistryTypeOK, Served, EntryOK, LoopsMarked
<1>5. FlightAt(d, l)'
  <2>1. FlightAt(d, l)
    BY DEF IInv, FlightOK
  <2> QED BY <2>1 DEF IInv, RegistryTypeOK, EntryOK, Served, FlightAt, Goto
<1> QED BY <1>1, <1>2, <1>3, <1>4, <1>5, OtherFlights DEF IInv, LoopStep

\* The device runs the newest version it was sent.
LEMMA DeviceReceivesInv ==
  ASSUME IInv, NEW d \in Devices, NEW l \in Loops, DeviceReceives(d, l) PROVE IInv'
<1> USE DEF DeviceReceives, entryVars
<1>1. RegistryTypeOK'
  BY DEF IInv, RegistryTypeOK, Goto
<1>2. LoopsMarked'
  BY GoesOn DEF IInv
<1>3. EntryOK'
  BY DEF IInv, RegistryTypeOK, EntryOK, FlightOK, FlightAt
<1>4. Served'
  BY <1>2 DEF IInv, RegistryTypeOK, Served, EntryOK, LoopsMarked
<1>5. FlightAt(d, l)'
  <2>1. FlightAt(d, l)
    BY DEF IInv, FlightOK
  <2> QED BY <2>1 DEF IInv, RegistryTypeOK, EntryOK, Served, FlightAt, Goto
<1> QED BY <1>1, <1>2, <1>3, <1>4, <1>5, OtherFlights DEF IInv, LoopStep

\* A lost message changes nothing but what the loop waits for.
LEMMA MessageLostInv ==
  ASSUME IInv, NEW d \in Devices, NEW l \in Loops, MessageLost(d, l) PROVE IInv'
<1> USE DEF MessageLost, entryVars, deviceVars
<1>1. RegistryTypeOK'
  BY DEF IInv, RegistryTypeOK, Goto
<1>2. LoopsMarked'
  BY GoesOn DEF IInv
<1>3. EntryOK'
  BY DEF IInv, RegistryTypeOK, EntryOK, FlightOK, FlightAt
<1>4. Served'
  BY <1>2 DEF IInv, RegistryTypeOK, Served, EntryOK, LoopsMarked
<1>5. FlightAt(d, l)'
  <2>1. FlightAt(d, l)
    BY DEF IInv, FlightOK
  <2> QED BY <2>1 DEF IInv, RegistryTypeOK, EntryOK, Served, FlightAt, Goto
<1> QED BY <1>1, <1>2, <1>3, <1>4, <1>5, OtherFlights DEF IInv, LoopStep

\* A missed ack is noted while the device is still not acknowledged.
LEMMA AckTimesOutInv ==
  ASSUME IInv, NEW d \in Devices, NEW l \in Loops, AckTimesOut(d, l) PROVE IInv'
<1> USE DEF AckTimesOut, deviceVars
<1>1. RegistryTypeOK'
  BY DEF IInv, RegistryTypeOK, Goto
<1>2. LoopsMarked'
  BY GoesOn DEF IInv
<1>3. EntryOK'
  BY DEF IInv, RegistryTypeOK, EntryOK, FlightOK, FlightAt
<1>4. Served'
  BY <1>2 DEF IInv, RegistryTypeOK, Served, EntryOK, LoopsMarked
<1>5. FlightAt(d, l)'
  <2>1. FlightAt(d, l)
    BY DEF IInv, FlightOK
  <2> QED BY <2>1 DEF IInv, RegistryTypeOK, EntryOK, Served, FlightAt, Goto
<1> QED BY <1>1, <1>2, <1>3, <1>4, <1>5, OtherFlights DEF IInv, LoopStep

\* An ack is stale only if the version pushed is no longer the desired one.
LEMMA StaleAckIgnoredInv ==
  ASSUME IInv, NEW d \in Devices, NEW l \in Loops, StaleAckIgnored(d, l) PROVE IInv'
<1> USE DEF StaleAckIgnored, entryVars, deviceVars
<1>1. RegistryTypeOK'
  BY DEF IInv, RegistryTypeOK, Goto
<1>2. LoopsMarked'
  BY GoesOn DEF IInv
<1>3. EntryOK'
  BY DEF IInv, RegistryTypeOK, EntryOK, FlightOK, FlightAt
<1>4. Served'
  BY <1>2 DEF IInv, RegistryTypeOK, Served, EntryOK, LoopsMarked
<1>5. FlightAt(d, l)'
  <2>1. FlightAt(d, l)
    BY DEF IInv, FlightOK
  <2>2. pushedFor[d] # desired[d]
    <3>1. /\ push[<<d, l>>].version = pushedFor[d]
          /\ push[<<d, l>>].version <= ack[<<d, l>>].version
          /\ ack[<<d, l>>].version <= version[d] /\ version[d] <= desired[d]
      BY <2>1 DEF FlightAt, IInv, EntryOK
    <3>2. ack[<<d, l>>].version \in Nat /\ desired[d] \in Nat /\ version[d] \in Nat
      BY DEF IInv, RegistryTypeOK
    <3> QED BY <3>1, <3>2
  <2>3. pc'[<<d, l>>] = "top"
    BY GotoOne DEF IInv
  <2> QED BY <2>1, <2>2, <2>3 DEF FlightAt
<1> QED BY <1>1, <1>2, <1>3, <1>4, <1>5, OtherFlights DEF IInv, LoopStep

\* An accepted ack is for the version the device runs.
LEMMA AckAcceptedInv ==
  ASSUME IInv, NEW d \in Devices, NEW l \in Loops, AckAccepted(d, l) PROVE IInv'
<1> USE DEF AckAccepted, deviceVars
<1>1. RegistryTypeOK'
  BY DEF IInv, RegistryTypeOK, Goto
<1>2. LoopsMarked'
  BY GoesOn DEF IInv
<1>3. EntryOK'
  BY DEF IInv, RegistryTypeOK, EntryOK, FlightOK, FlightAt
<1>4. Served'
  BY <1>2 DEF IInv, RegistryTypeOK, Served, EntryOK, LoopsMarked
<1>5. FlightAt(d, l)'
  <2>1. FlightAt(d, l)
    BY DEF IInv, FlightOK
  <2> QED BY <2>1 DEF IInv, RegistryTypeOK, EntryOK, Served, FlightAt, Goto
<1> QED BY <1>1, <1>2, <1>3, <1>4, <1>5, OtherFlights DEF IInv, LoopStep

\* After the backoff the loop looks again.
LEMMA LoopWakesInv ==
  ASSUME IInv, NEW d \in Devices, NEW l \in Loops, LoopWakes(d, l) PROVE IInv'
<1> USE DEF LoopWakes, entryVars, deviceVars
<1>1. RegistryTypeOK'
  BY DEF IInv, RegistryTypeOK, Goto
<1>2. LoopsMarked'
  BY GoesOn DEF IInv
<1>3. EntryOK'
  BY DEF IInv, RegistryTypeOK, EntryOK, FlightOK, FlightAt
<1>4. Served'
  BY <1>2 DEF IInv, RegistryTypeOK, Served, EntryOK, LoopsMarked
<1>5. FlightAt(d, l)'
  <2>1. FlightAt(d, l)
    BY DEF IInv, FlightOK
  <2> QED BY <2>1 DEF IInv, RegistryTypeOK, EntryOK, Served, FlightAt, Goto
<1> QED BY <1>1, <1>2, <1>3, <1>4, <1>5, OtherFlights DEF IInv, LoopStep

\* Only Close ends a loop in its backoff.
LEMMA LoopCancelledInv ==
  ASSUME IInv, NEW d \in Devices, NEW l \in Loops, LoopCancelled(d, l) PROVE IInv'
<1> USE DEF LoopCancelled, deviceVars
<1>1. RegistryTypeOK'
  BY DEF IInv, RegistryTypeOK, Goto, LoopEnds, NoPush, NoAck
<1>2. /\ LoopsMarked' /\ ~loopRunning'[d]
      /\ \A e \in Devices \ {d} : loopRunning'[e] = loopRunning[e]
      /\ \A m \in Loops : pc'[<<d, m>>] = "none"
  BY Ends DEF IInv
<1>3. EntryOK'
  BY DEF IInv, RegistryTypeOK, EntryOK, FlightOK, FlightAt
<1>4. Served'
  BY <1>2 DEF IInv, RegistryTypeOK, Served, EntryOK, LoopsMarked
<1>5. FlightAt(d, l)'
  <2>1. FlightAt(d, l)
    BY DEF IInv, FlightOK
  <2> QED BY <2>1 DEF IInv, RegistryTypeOK, EntryOK, Served, FlightAt, Goto, LoopEnds, NoPush, NoAck
<1> QED BY <1>1, <1>2, <1>3, <1>4, <1>5, OtherFlights DEF IInv, LoopStep

-----------------------------------------------------------------------------
(* The calls of a client *)

\* Register creates an entry and touches none.
LEMMA RegisterInv == ASSUME IInv, NEW d \in Devices, Register(d) PROVE IInv'
<1> USE DEF Register, loopVars, deviceVars
<1>1. RegistryTypeOK' /\ EntryOK' /\ Served'
  BY DEF IInv, RegistryTypeOK, EntryOK, Served
<1>2. LoopsMarked' /\ FlightOK'
  BY DEF IInv, LoopsMarked, FlightOK, FlightAt
<1> QED BY <1>1, <1>2 DEF IInv

\* SetConfig makes every push and ack in flight a stale one, and leaves a loop
\* that will come round to the new version.
LEMMA SetConfigInv ==
  ASSUME IInv, NEW d \in Devices, NEW c \in Configs, SetConfig(d, c) PROVE IInv'
<1> USE DEF SetConfig, deviceVars
<1>1. /\ LoopsMarked' /\ loopRunning'[d]
      /\ \A e \in Devices \ {d} : loopRunning'[e] = loopRunning[e]
      /\ \A e \in Devices, m \in Loops :
           pc'[<<e, m>>] = pc[<<e, m>>] \/ (e = d /\ pc'[<<e, m>>] = "top")
      /\ pc' \in [Devices \X Loops -> LoopLabels]
      /\ loopRunning' \in [Devices -> BOOLEAN]
  BY Starts DEF IInv
<1>2. RegistryTypeOK'
  <2>1. desired' \in [Devices -> 0..MaxVersion] /\ config' \in [Devices -> Configs \cup {"none"}]
    BY DEF IInv, RegistryTypeOK
  <2>2. /\ state' \in [Devices -> {"idle", "pending", "acked", "failed"}]
        /\ lastErr' \in [Devices -> BOOLEAN]
    BY DEF IInv, RegistryTypeOK
  <2> QED BY <1>1, <2>1, <2>2 DEF IInv, RegistryTypeOK, LoopLabels
<1>3. EntryOK'
  BY DEF IInv, RegistryTypeOK, EntryOK
<1>4. Served'
  BY <1>1 DEF IInv, RegistryTypeOK, Served
<1>5. FlightOK'
  <2> SUFFICES ASSUME NEW e \in Devices, NEW m \in Loops PROVE FlightAt(e, m)'
    BY DEF FlightOK
  <2>1. FlightAt(e, m)
    BY DEF IInv, FlightOK
  <2>2. CASE e = d
    <3>1. /\ push[<<d, m>>].version \in Nat /\ push[<<d, m>>].version < desired'[d]
          /\ acked[d] < desired'[d] /\ pushedFor[d] < desired'[d]
          /\ ack'[<<d, m>>] = ack[<<d, m>>] /\ version' = version
      BY <2>1, <2>2 DEF FlightAt, IInv, EntryOK, RegistryTypeOK
    <3> QED BY <2>1, <2>2, <3>1, <1>1 DEF FlightAt, IInv, RegistryTypeOK
  <2>3. CASE e # d
    BY <1>1, <2>1, <2>3 DEF FlightAt, IInv, RegistryTypeOK
  <2> QED BY <2>2, <2>3
<1> QED BY <1>1, <1>2, <1>3, <1>4, <1>5 DEF IInv

\* Retry finds no loop at work, and starts one with a budget of its own.
LEMMA RetryInv == ASSUME IInv, NEW d \in Devices, Retry(d) PROVE IInv'
<1> USE DEF Retry, deviceVars
<1>1. /\ LoopsMarked' /\ loopRunning'[d]
      /\ \A e \in Devices \ {d} : loopRunning'[e] = loopRunning[e]
      /\ \A e \in Devices, m \in Loops :
           pc'[<<e, m>>] = pc[<<e, m>>] \/ (e = d /\ pc'[<<e, m>>] = "top")
      /\ pc' \in [Devices \X Loops -> LoopLabels]
      /\ loopRunning' \in [Devices -> BOOLEAN]
  BY Starts DEF IInv
<1>2. RegistryTypeOK'
  <2>1. retries' \in [Devices -> 0..MaxRetries] /\ pushedFor' \in [Devices -> 0..MaxVersion]
    BY DEF IInv, RegistryTypeOK
  <2>2. /\ state' \in [Devices -> {"idle", "pending", "acked", "failed"}]
        /\ lastErr' \in [Devices -> BOOLEAN]
    BY DEF IInv, RegistryTypeOK
  <2> QED BY <1>1, <2>1, <2>2 DEF IInv, RegistryTypeOK, LoopLabels
<1>3. EntryOK'
  BY DEF IInv, RegistryTypeOK, EntryOK
<1>4. Served'
  BY <1>1 DEF IInv, RegistryTypeOK, Served
<1>5. FlightOK'
  <2> SUFFICES ASSUME NEW e \in Devices, NEW m \in Loops PROVE FlightAt(e, m)'
    BY DEF FlightOK
  <2>1. FlightAt(e, m)
    BY DEF IInv, FlightOK
  <2>2. CASE e = d
    <3>1. pc[<<d, m>>] = "none" /\ acked[d] < desired[d] /\ pushedFor'[d] = 0
      BY <2>2 DEF IInv, EntryOK, Served, LoopsMarked, RegistryTypeOK
    <3>2. pc'[<<d, m>>] \in {"none", "top"} /\ desired'[d] # pushedFor'[d]
      BY <1>1, <3>1 DEF IInv, RegistryTypeOK
    <3> QED BY <2>1, <2>2, <3>2 DEF FlightAt
  <2>3. CASE e # d
    BY <1>1, <2>1, <2>3 DEF FlightAt, IInv, RegistryTypeOK
  <2> QED BY <2>2, <2>3
<1> QED BY <1>1, <1>2, <1>3, <1>4, <1>5 DEF IInv

\* Neither half of Close touches an entry or a loop.
LEMMA CloseInv == ASSUME IInv, CloseCancels \/ CloseReturns PROVE IInv'
<1> USE DEF CloseCancels, CloseReturns, entryVars, loopVars, deviceVars
<1>1. RegistryTypeOK' /\ EntryOK' /\ Served'
  BY DEF IInv, RegistryTypeOK, EntryOK, Served
<1>2. LoopsMarked' /\ FlightOK'
  BY DEF IInv, LoopsMarked, FlightOK, FlightAt
<1> QED BY <1>1, <1>2 DEF IInv

-----------------------------------------------------------------------------
(* The registry *)

\* A new registry satisfies the inductive invariant.
LEMMA InitInv == RegistryInit => IInv
<1> SUFFICES ASSUME RegistryInit PROVE IInv
  OBVIOUS
<1> USE DEF RegistryInit
<1>1. RegistryTypeOK
  BY DEF RegistryTypeOK, NoPush, NoAck
<1>2. LoopsMarked
  BY DEF LoopsMarked
<1>3. EntryOK /\ Served
  BY DEF EntryOK, Served
<1>4. FlightOK
  BY DEF FlightOK, FlightAt, NoPush, NoAck
<1> QED BY <1>1, <1>2, <1>3, <1>4 DEF IInv

\* Every step of the registry preserves it.
LEMMA NextInv == IInv /\ [RegistryNext]_registryVars => IInv'
<1> SUFFICES ASSUME IInv, [RegistryNext]_registryVars PROVE IInv'
  OBVIOUS
<1>1. CASE UNCHANGED registryVars
  BY <1>1 DEF registryVars, entryVars, loopVars, deviceVars, IInv, RegistryTypeOK,
              LoopsMarked, EntryOK, Served, FlightOK, FlightAt
<1>2. ASSUME NEW d \in Devices, NEW l \in Loops, LoopStep(d, l) PROVE IInv'
  BY <1>2, LoopStopsInv, LoopGivesUpInv, LoopPushesInv, DeviceReceivesInv, MessageLostInv,
     AckTimesOutInv, StaleAckIgnoredInv, AckAcceptedInv, LoopWakesInv, LoopCancelledInv
     DEF LoopStep
<1>3. CASE RegistryNext
  BY <1>2, <1>3, RegisterInv, SetConfigInv, RetryInv, CloseInv DEF RegistryNext
<1> QED BY <1>1, <1>3

\* What the inductive invariant says, in the terms of the properties.
LEMMA InvMeaning ==
  IInv => /\ SingleLoop /\ AckedMeansRunning /\ PendingIsServed
          /\ FailedMeansSpent /\ AppliedOnce
<1> SUFFICES ASSUME IInv
             PROVE  /\ SingleLoop /\ AckedMeansRunning /\ PendingIsServed
                    /\ FailedMeansSpent /\ AppliedOnce
  OBVIOUS
<1>1. SingleLoop
  <2> SUFFICES ASSUME NEW d \in Devices
               PROVE  Cardinality(Alive(d)) = IF loopRunning[d] THEN 1 ELSE 0
    BY DEF SingleLoop
  <2>1. CASE loopRunning[d]
    <3>1. PICK l \in Loops : Alive(d) = {l}
      <4>1. PICK l \in Loops : pc[<<d, l>>] # "none"
        BY <2>1 DEF IInv, LoopsMarked
      <4>2. \A m \in Loops : pc[<<d, m>>] # "none" => m = l
        BY <4>1 DEF IInv, LoopsMarked
      <4> QED BY <4>1, <4>2 DEF Alive
    <3> QED BY <2>1, <3>1, FS_Singleton
  <2>2. CASE ~loopRunning[d]
    <3>1. Alive(d) = {}
      BY <2>2 DEF IInv, LoopsMarked, Alive
    <3> QED BY <2>2, <3>1, FS_EmptySet
  <2> QED BY <2>1, <2>2
<1>2. AckedMeansRunning
  <2> SUFFICES ASSUME NEW d \in Devices, state[d] = "acked"
               PROVE  /\ acked[d] = desired[d] /\ version[d] = desired[d]
                      /\ running[d] = config[d] /\ ~lastErr[d]
    BY DEF AckedMeansRunning
  <2>1. /\ acked[d] = desired[d] /\ ~lastErr[d]
        /\ acked[d] <= version[d] /\ version[d] <= desired[d]
        /\ version[d] = desired[d] => running[d] = config[d]
    BY DEF IInv, EntryOK
  <2>2. version[d] \in Nat /\ desired[d] \in Nat
    BY DEF IInv, RegistryTypeOK
  <2> QED BY <2>1, <2>2
<1>3. PendingIsServed /\ FailedMeansSpent
  BY DEF IInv, EntryOK, Served, PendingIsServed, FailedMeansSpent
<1>4. AppliedOnce
  BY DEF IInv, EntryOK, AppliedOnce
<1> QED BY <1>1, <1>2, <1>3, <1>4

\* The registry preserves the inductive invariant.
THEOREM RegistryInductive == RegistrySafety => []IInv
BY InitInv, NextInv, PTL DEF RegistrySafety

\* Type correctness of the registry, its loops and its devices.
THEOREM RegistryTypeCorrect == RegistrySafety => []RegistryTypeOK
BY RegistryInductive, PTL DEF IInv

\* loopRunning is enough to keep a device from ever having two push loops.
THEOREM OneLoopPerDevice == RegistrySafety => []SingleLoop
BY RegistryInductive, InvMeaning, PTL

\* "acked" is never a claim about an older configuration.
THEOREM AckedIsTrue == RegistrySafety => []AckedMeansRunning
BY RegistryInductive, InvMeaning, PTL

\* Until Close, a pending device has a loop that will look at it again.
THEOREM NoCallForgotten == RegistrySafety => []PendingIsServed
BY RegistryInductive, InvMeaning, PTL

\* A device is given up only after MaxAttempts unacknowledged pushes.
THEOREM BudgetSpentBeforeFailed == RegistrySafety => []FailedMeansSpent
BY RegistryInductive, InvMeaning, PTL

\* A device applies each version at most once and is never behind what the
\* registry believes acknowledged.
THEOREM RedeliveryIsIdempotent == RegistrySafety => []AppliedOnce
BY RegistryInductive, InvMeaning, PTL

-----------------------------------------------------------------------------
(* The tracer's table *)

\* A row of the device table.
TraceTypeOK ==
  trace \in [Devices -> [desired : Nat, acked : Nat, attempts : Nat, failedAt : Nat]]

\* The row against the entry: versions are the same, a failure shown is one that
\* happened or was retried, and so are the attempts.
RowAt(d) ==
  /\ trace[d].desired = desired[d] /\ trace[d].acked = acked[d]
  /\ trace[d].failedAt <= desired[d]
  /\ state[d] = "failed" => trace[d].failedAt = desired[d]
  /\ state[d] = "pending" /\ trace[d].failedAt = desired[d] => retries[d] > 0
  /\ \/ trace[d].attempts = IF pushedFor[d] = desired[d] THEN attempts[d] ELSE 0
     \/ trace[d].attempts = MaxAttempts /\ pushedFor[d] = 0 /\ retries[d] > 0

TInv == IInv /\ TraceTypeOK /\ \A d \in Devices : RowAt(d)

\* Logging changes nothing in the registry.
LEMMA TraceIsRegistry == [TraceNext]_tracedVars => [RegistryNext]_registryVars
BY DEF TraceNext, tracedVars, TracedSetConfig, TracedGiveUp, TracedPush, TracedAck, Untraced,
       RegistryNext, LoopStep

\* The row of a device that no event is about still agrees with its entry.
LEMMA OtherRows ==
  ASSUME TInv, NEW d \in Devices, NEW row, Logs(d, row),
         row \in [desired : Nat, acked : Nat, attempts : Nat, failedAt : Nat],
         \A e \in Devices \ {d} :
           /\ desired'[e] = desired[e] /\ acked'[e] = acked[e] /\ state'[e] = state[e]
           /\ pushedFor'[e] = pushedFor[e] /\ attempts'[e] = attempts[e]
           /\ retries'[e] = retries[e]
  PROVE  TraceTypeOK' /\ trace'[d] = row /\ \A e \in Devices \ {d} : RowAt(e)'
<1>1. TraceTypeOK' /\ trace'[d] = row
  BY DEF TInv, TraceTypeOK, Logs
<1>2. \A e \in Devices \ {d} : trace'[e] = trace[e]
  BY DEF TInv, TraceTypeOK, Logs
<1> QED BY <1>1, <1>2 DEF TInv, RowAt

\* The entry of a device in numbers.
LEMMA EntryNumbers ==
  ASSUME TInv, NEW d \in Devices
  PROVE  /\ desired[d] \in Nat /\ acked[d] \in Nat /\ attempts[d] \in Nat
         /\ pushedFor[d] \in Nat /\ retries[d] \in Nat
         /\ trace[d] \in [desired : Nat, acked : Nat, attempts : Nat, failedAt : Nat]
BY DEF TInv, IInv, RegistryTypeOK, TraceTypeOK

\* A step that logs an event about device d keeps every row right.
LEMMA LoggedInv ==
  ASSUME TInv, IInv', NEW d \in Devices
  PROVE  /\ \A c \in Configs : TracedSetConfig(d, c) => TInv'
         /\ \A l \in Loops : TracedGiveUp(d, l) \/ TracedPush(d, l) \/ TracedAck(d, l) => TInv'
<1> USE EntryNumbers
<1>0. RowAt(d)
  BY DEF TInv
<1>1. ASSUME NEW c \in Configs, TracedSetConfig(d, c) PROVE TInv'
  <2> USE DEF TracedSetConfig, SetConfig
  <2> DEFINE row == ConfigSet(trace[d], desired'[d])
  <2>1. desired'[d] = desired[d] + 1
    BY <1>1 DEF TInv, IInv, RegistryTypeOK
  <2>2. row \in [desired : Nat, acked : Nat, attempts : Nat, failedAt : Nat]
    <3>1. trace[d] \in [desired : Nat, acked : Nat, attempts : Nat, failedAt : Nat]
            /\ desired'[d] \in Nat
      BY <2>1
    <3> QED BY <3>1 DEF ConfigSet
  <2>3. TraceTypeOK' /\ trace'[d] = row /\ \A e \in Devices \ {d} : RowAt(e)'
    <3> HIDE DEF row
    <3>1. \A e \in Devices \ {d} : desired'[e] = desired[e] /\ state'[e] = state[e]
      BY <1>1 DEF TInv, IInv, RegistryTypeOK
    <3>2. Logs(d, row) /\ UNCHANGED <<acked, pushedFor, attempts, retries>>
      BY <1>1 DEF row
    <3> QED BY <2>2, <3>1, <3>2, OtherRows
  <2>4. RowAt(d)'
    <3>1. pushedFor[d] # desired[d] + 1 /\ state'[d] = "pending"
      BY <1>1 DEF TInv, IInv, EntryOK, RegistryTypeOK
    <3> QED BY <1>0, <1>1, <2>1, <2>3, <3>1 DEF RowAt, ConfigSet
  <2> QED BY <2>3, <2>4 DEF TInv
<1>2. ASSUME NEW l \in Loops, TracedGiveUp(d, l) PROVE TInv'
  <2> USE DEF TracedGiveUp, LoopGivesUp
  <2> DEFINE row == PushFailed(trace[d], desired[d])
  <2>1. row \in [desired : Nat, acked : Nat, attempts : Nat, failedAt : Nat]
    BY DEF PushFailed
  <2>2. TraceTypeOK' /\ trace'[d] = row /\ \A e \in Devices \ {d} : RowAt(e)'
    <3> HIDE DEF row
    <3>1. \A e \in Devices \ {d} : state'[e] = state[e]
      BY <1>2 DEF TInv, IInv, RegistryTypeOK
    <3>2. Logs(d, row) /\ UNCHANGED <<desired, acked, pushedFor, attempts, retries>>
      BY <1>2 DEF row
    <3> QED BY <2>1, <3>1, <3>2, OtherRows
  <2>3. RowAt(d)'
    <3>1. state'[d] = "failed"
      BY <1>2 DEF TInv, IInv, RegistryTypeOK
    <3> QED BY <1>0, <1>2, <2>2, <3>1 DEF RowAt, PushFailed
  <2> QED BY <2>2, <2>3 DEF TInv
<1>3. ASSUME NEW l \in Loops, TracedPush(d, l) PROVE TInv'
  <2> USE DEF TracedPush, LoopPushes
  <2> DEFINE row == Pushed(trace[d], desired[d], attempts'[d])
  <2>0. attempts'[d] \in Nat /\ pushedFor'[d] = desired[d]
    BY <1>3 DEF TInv, IInv, RegistryTypeOK
  <2>1. row \in [desired : Nat, acked : Nat, attempts : Nat, failedAt : Nat]
    BY <2>0 DEF Pushed
  <2>2. TraceTypeOK' /\ trace'[d] = row /\ \A e \in Devices \ {d} : RowAt(e)'
    <3> HIDE DEF row
    <3>1. \A e \in Devices \ {d} : pushedFor'[e] = pushedFor[e] /\ attempts'[e] = attempts[e]
      BY <1>3 DEF TInv, IInv, RegistryTypeOK
    <3>2. Logs(d, row) /\ UNCHANGED <<desired, acked, state, retries>>
      BY <1>3 DEF row
    <3> QED BY <2>1, <3>1, <3>2, OtherRows
  <2>3. RowAt(d)'
    BY <1>0, <1>3, <2>0, <2>2 DEF RowAt, Pushed
  <2> QED BY <2>2, <2>3 DEF TInv
<1>4. ASSUME NEW l \in Loops, TracedAck(d, l) PROVE TInv'
  <2> USE DEF TracedAck, AckAccepted
  <2> DEFINE row == Acked(trace[d], acked'[d])
  <2>0. acked[d] < desired[d] /\ acked'[d] = desired[d] /\ state'[d] = "acked"
    <3>1. acked[d] < desired[d]
      BY <1>4 DEF TInv, IInv, FlightOK, FlightAt
    <3> QED BY <1>4, <3>1 DEF TInv, IInv, RegistryTypeOK
  <2>1. row \in [desired : Nat, acked : Nat, attempts : Nat, failedAt : Nat]
    BY <2>0 DEF Acked
  <2>2. TraceTypeOK' /\ trace'[d] = row /\ \A e \in Devices \ {d} : RowAt(e)'
    <3>1. \A e \in Devices \ {d} : acked'[e] = acked[e] /\ state'[e] = state[e]
      BY <1>4 DEF TInv, IInv, RegistryTypeOK
    <3>2. Logs(d, row) /\ UNCHANGED <<desired, pushedFor, attempts, retries>>
      BY <1>4, <2>0
    <3> HIDE DEF row
    <3> QED BY <2>1, <3>1, <3>2, OtherRows
  <2>3. RowAt(d)'
    BY <1>0, <1>4, <2>0, <2>2 DEF RowAt, Acked
  <2> QED BY <2>2, <2>3 DEF TInv
<1> QED BY <1>1, <1>2, <1>3, <1>4

\* A step that logs nothing keeps every row right; after a Retry the row shows a
\* failure that is over, which is the exception the property makes.
LEMMA UnloggedInv ==
  ASSUME TInv, IInv', Untraced \/ UNCHANGED registryVars, UNCHANGED trace
  PROVE  TInv'
<1>1. TraceTypeOK'
  BY DEF TInv, TraceTypeOK
<1>2. ASSUME NEW d \in Devices, Retry(d) PROVE \A e \in Devices : RowAt(e)'
  <2>1. RowAt(d)'
    <3>1. RowAt(d) /\ state[d] = "failed" /\ pushedFor[d] = desired[d] /\ attempts[d] = MaxAttempts
      BY <1>2 DEF TInv, IInv, EntryOK, Retry
    <3>2. /\ state'[d] = "pending" /\ pushedFor'[d] = 0 /\ retries'[d] = retries[d] + 1
          /\ UNCHANGED <<desired, acked, attempts>>
      BY <1>2 DEF Retry, TInv, IInv, RegistryTypeOK
    <3> QED BY <3>1, <3>2, EntryNumbers DEF RowAt
  <2>2. \A e \in Devices \ {d} : RowAt(e)'
    BY <1>2 DEF Retry, TInv, IInv, RegistryTypeOK, RowAt
  <2> QED BY <2>1, <2>2
<1>3. CASE UNCHANGED <<desired, acked, state, attempts, pushedFor, retries>>
  <2> SUFFICES ASSUME NEW d \in Devices PROVE RowAt(d)'
    BY <1>1 DEF TInv
  <2>1. RowAt(d)
    BY DEF TInv
  <2> QED BY <1>3, <2>1 DEF RowAt
<1>4. \/ UNCHANGED <<desired, acked, state, attempts, pushedFor, retries>>
      \/ \E d \in Devices : Retry(d)
  <2>1. ASSUME NEW d \in Devices, NEW l \in Loops,
               \/ LoopStops(d, l) \/ DeviceReceives(d, l) \/ MessageLost(d, l)
               \/ AckTimesOut(d, l) \/ StaleAckIgnored(d, l)
               \/ LoopWakes(d, l) \/ LoopCancelled(d, l)
        PROVE  UNCHANGED <<desired, acked, state, attempts, pushedFor, retries>>
    BY <2>1 DEF entryVars, LoopStops, DeviceReceives, MessageLost, AckTimesOut,
                StaleAckIgnored, LoopWakes, LoopCancelled
  <2>2. ASSUME \/ \E d \in Devices : Register(d)
               \/ CloseCancels \/ CloseReturns \/ UNCHANGED registryVars
        PROVE  UNCHANGED <<desired, acked, state, attempts, pushedFor, retries>>
    BY <2>2 DEF entryVars, registryVars, Register, CloseCancels, CloseReturns
  <2> QED BY <2>1, <2>2, Zenon DEF Untraced
<1> QED BY <1>1, <1>2, <1>3, <1>4 DEF TInv

\* The table rebuilt from the log agrees with the registry, up to retried failures.
THEOREM TracerAgrees == TraceSpec => []TraceAgreesButRetried
<1>1. TraceInit => TInv
  BY InitInv DEF TraceInit, RegistryInit, TInv, TraceTypeOK, RowAt
<1>2. TInv /\ [TraceNext]_tracedVars => TInv'
  <2> SUFFICES ASSUME TInv, [TraceNext]_tracedVars PROVE TInv'
    OBVIOUS
  <2>1. IInv'
    BY TraceIsRegistry, NextInv DEF TInv
  <2>2. CASE UNCHANGED tracedVars
    BY <2>1, <2>2, UnloggedInv DEF tracedVars
  <2>3. CASE TraceNext
    BY <2>1, <2>3, LoggedInv, UnloggedInv DEF TraceNext
  <2> QED BY <2>2, <2>3
<1>3. TInv => TraceAgreesButRetried
  <2> SUFFICES ASSUME TInv, NEW d \in registered
               PROVE  /\ \/ RowState(trace[d]) = state[d]
                         \/ RowState(trace[d]) = "failed" /\ state[d] = "pending" /\ retries[d] > 0
                      /\ \/ trace[d].attempts = IF pushedFor[d] = desired[d] THEN attempts[d] ELSE 0
                         \/ trace[d].attempts = MaxAttempts /\ pushedFor[d] = 0 /\ retries[d] > 0
    BY DEF TraceAgreesButRetried
  <2>1. d \in Devices /\ state[d] \in {"idle", "pending", "acked", "failed"}
    BY DEF TInv, IInv, RegistryTypeOK
  <2>2. RowAt(d)
    BY <2>1 DEF TInv
  <2>3. /\ state[d] = "idle" <=> desired[d] = 0
        /\ state[d] = "pending" => acked[d] < desired[d]
        /\ state[d] = "acked" => acked[d] = desired[d]
        /\ state[d] = "failed" => acked[d] < desired[d]
    BY <2>1 DEF TInv, IInv, EntryOK
  <2>4. desired[d] \in Nat /\ acked[d] \in Nat
    BY <2>1, EntryNumbers
  <2>5. CASE state[d] \in {"idle", "acked"}
    BY <2>2, <2>3, <2>4, <2>5 DEF RowAt, RowState
  <2>6. CASE state[d] = "failed"
    BY <2>2, <2>3, <2>4, <2>6 DEF RowAt, RowState
  <2>7. CASE state[d] = "pending"
    BY <2>2, <2>3, <2>4, <2>7 DEF RowAt, RowState
  <2> QED BY <2>1, <2>5, <2>6, <2>7
<1> QED BY <1>1, <1>2, <1>3, PTL DEF TraceSpec

=============================================================================
