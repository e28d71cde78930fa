----------------------- MODULE TunnelOwnership_proofs -----------------------
(* Theorems about TunnelOwnership, for any number of runs.                    *)
EXTENDS TunnelOwnership, TLAPS

USE ReusedAssumption, NoTunnelAssumption

\* What a run waits for while it has a tunnel of its own.
OwnWaits == {"creating", "porting", "hosting", "connected", "draining", "stopping",
             "deleting"}

-----------------------------------------------------------------------------
(* The inductive invariant                                                   *)

\* How life, pc, attempt, outcome and endedBefore go together.
Phases ==
  \A r \in Run :
    /\ pc[r] \in OwnWaits => attempt[r] # 0
    /\ Alive(r) => (attempt[r] = 0 <=> pc[r] \in {"look", "recovering"})
    /\ Alive(r) /\ pc[r] = "login" => attempt[r] = 1
    /\ Alive(r) => pc[r] # "idle"
    /\ life[r] = "absent" => attempt[r] = 0 /\ pc[r] = "idle"
    /\ outcome[r] = "clean" => life[r] = "exited" /\ pc[r] = "idle"
    /\ life[r] = "cleaning" => pc[r] \in {"draining", "stopping", "deleting"}
    /\ \A q \in endedBefore[r] : life[q] = "exited"

\* Records, and the runs still to be recovered, belong to runs that have started.
OwnersStarted ==
  /\ \A t \in Tunnel : records[t] # "none" => life[Owner(t)] # "absent"
  /\ \A r \in Run : \A t \in todo[r] : life[Owner(t)] # "absent"

\* A recovery deletes only tunnels of runs that have ended.
TargetsEnded ==
  \A r \in Run : pc[r] = "recovering" =>
    target[r] \in Tunnel /\ life[Owner(target[r])] = "exited"

\* A run that has a tunnel of its own has it on record, and at the provider from
\* its creation until it begins to delete it.
OwnTunnel ==
  \A r \in Run : Alive(r) =>
    /\ pc[r] \in OwnWaits => records[Own(r)] # "none"
    /\ pc[r] \in {"porting", "hosting", "connected"} => Own(r) \in exists
    /\ pc[r] = "connected" => records[Own(r)] = "ready"

\* While a run reconciles, the stale tunnels it must get rid of are still to come.
StaleListed ==
  \A r \in Run : Alive(r) /\ attempt[r] = 0 =>
    \A t \in exists : Owner(t) \in endedBefore[r] =>
      t \in late \/ Owner(t) \in ReusedPid \/ t \in todo[r]

\* A shutdown deletes the tunnel it closes after its host has stopped, and when it
\* ends in order neither is left.
HostStoppedFirst ==
  \A r \in Run : life[r] = "cleaning" /\ pc[r] = "deleting" => Own(r) \notin hosts
OwnDeleted ==
  \A r \in Run : outcome[r] = "clean" => Own(r) \notin exists \cup hosts

IndInv ==
  /\ TypeOK /\ Phases /\ OwnersStarted /\ TargetsEnded /\ OwnTunnel
  /\ OnlyLateTunnelsUnrecorded /\ StaleListed /\ RecoveredBeforeCreate
  /\ HostStoppedFirst /\ OwnDeleted

LEMMA OwnIsTunnel ==
  ASSUME TypeOK, NEW r \in Run
  PROVE  /\ Owner(Own(r)) = r
         /\ attempt[r] # 0 => Own(r) \in Tunnel
BY DEF TypeOK, Own, Owner, Tunnel

LEMMA OwnerIsRun ==
  ASSUME NEW t \in Tunnel
  PROVE  Owner(t) \in Run
BY DEF Owner, Tunnel

\* The tunnels of a run are its own.
LEMMA OwnDiffers ==
  ASSUME NEW r \in Run, NEW q \in Run, Own(q) = Own(r)
  PROVE  q = r
BY DEF Own

-----------------------------------------------------------------------------
(* What the shared steps do                                                  *)

States == {"none", "creating", "ready", "deleting"}

\* The effect of a save on the records: on t alone, and none at all only when it
\* throws.
Saves(t, state, ok) ==
  /\ records' \in [Tunnel -> States]
  /\ \A u \in Tunnel \ {t} : records'[u] = records[u]
  /\ records'[t] \in {records[t], state}
  /\ ok => records'[t] = state

LEMMA SaveFacts ==
  ASSUME TypeOK, NEW t \in Tunnel, NEW state \in States \ {"none"}, NEW ok \in BOOLEAN,
         Save(t, state, ok)
  PROVE  Saves(t, state, ok)
BY DEF TypeOK, Save, Saves, States

\* The effect of the catch of startHost.
Undoes(r) ==
  /\ \E ok \in BOOLEAN : Saves(Own(r), "deleting", ok)
  /\ pc' = [pc EXCEPT ![r] = "deleting"]
  /\ UNCHANGED <<life, outcome>>

LEMMA UndoFacts ==
  ASSUME TypeOK, NEW r \in Run, Own(r) \in Tunnel, Undo(r)
  PROVE  Undoes(r)
BY SaveFacts DEF Undo, Undoes, GoTo, States

-----------------------------------------------------------------------------
(* Every step keeps the invariant                                            *)

LEMMA InitOK == Init => IndInv
<1> SUFFICES ASSUME Init PROVE IndInv
  OBVIOUS
<1> USE DEF Init, Alive
<1>1. TypeOK
  BY DEF TypeOK, Waits
<1>2. Phases /\ OwnersStarted /\ TargetsEnded /\ OwnTunnel
  BY OwnerIsRun DEF Phases, OwnersStarted, TargetsEnded, OwnTunnel, OwnWaits
<1>3. OnlyLateTunnelsUnrecorded /\ StaleListed /\ RecoveredBeforeCreate
      /\ HostStoppedFirst /\ OwnDeleted
  BY DEF OnlyLateTunnelsUnrecorded, StaleListed, RecoveredBeforeCreate,
       HostStoppedFirst,
         OwnDeleted
<1> QED
  BY <1>1, <1>2, <1>3 DEF IndInv

LEMMA StartOK ==
  ASSUME IndInv, NEW r \in Run, Start(r)
  PROVE  IndInv'
<1> USE DEF IndInv, Start, Exit
<1>1. TypeOK'
  BY DEF TypeOK, Waits
<1>2. Phases'
  BY DEF TypeOK, Phases, OwnWaits, Alive
<1>3. OwnersStarted'
  BY OwnerIsRun DEF TypeOK, OwnersStarted, Alive
<1>4. TargetsEnded'
  BY OwnerIsRun DEF TypeOK, TargetsEnded, Phases
<1>5. OwnTunnel'
  BY DEF TypeOK, OwnTunnel, Own, Alive, OwnWaits
<1>6. StaleListed'
  BY OwnerIsRun DEF TypeOK, StaleListed, OnlyLateTunnelsUnrecorded, Alive, Phases
<1>7. OnlyLateTunnelsUnrecorded' /\ RecoveredBeforeCreate'
  BY DEF TypeOK, OnlyLateTunnelsUnrecorded, RecoveredBeforeCreate, Alive, Phases
<1>8. HostStoppedFirst' /\ OwnDeleted'
  BY DEF TypeOK, HostStoppedFirst, OwnDeleted, Own, Phases
<1> QED
  BY <1>1, <1>2, <1>3, <1>4, <1>5, <1>6, <1>7, <1>8

LEMMA SkipRecordOK ==
  ASSUME IndInv, NEW r \in Run, NEW t \in Tunnel, SkipRecord(r, t)
  PROVE  IndInv'
<1> USE DEF IndInv, SkipRecord, Skipped
<1>1. StaleListed'
  BY OwnIsTunnel, OwnerIsRun DEF TypeOK, StaleListed, Phases, Alive
<1>2. TypeOK' /\ Phases' /\ OwnersStarted' /\ TargetsEnded'
      /\ OwnTunnel' /\ OnlyLateTunnelsUnrecorded' /\ RecoveredBeforeCreate'
      /\ HostStoppedFirst' /\ OwnDeleted'
  BY OwnIsTunnel, OwnerIsRun DEF TypeOK, Waits, Phases, OwnWaits, OwnersStarted,
       TargetsEnded, OwnTunnel, Own, OnlyLateTunnelsUnrecorded, RecoveredBeforeCreate,
       StaleListed, HostStoppedFirst, OwnDeleted, Alive
<1> QED
  BY <1>1, <1>2

LEMMA RecoverRecordOK ==
  ASSUME IndInv, NEW r \in Run, NEW t \in Tunnel, NEW ok \in BOOLEAN,
         RecoverRecord(r, t, ok)
  PROVE  IndInv'
<1> USE DEF IndInv, RecoverRecord, Skipped, GoTo, Exit, States, Saves, Undoes
<1>1. Saves(t, "deleting", ok)
  BY SaveFacts
<1>2. life[Owner(t)] = "exited" /\ Owner(t) # r
  BY OwnerIsRun DEF OwnersStarted, TypeOK, Alive
<1>3. TypeOK'
  BY <1>1, <1>2, OwnIsTunnel, OwnerIsRun DEF TypeOK, Waits, Alive
<1>4. TargetsEnded'
  BY <1>1, <1>2, OwnIsTunnel, OwnerIsRun DEF TypeOK, TargetsEnded, Phases, Alive
<1>5. OwnTunnel'
  BY <1>1, <1>2, OwnIsTunnel, OwnerIsRun DEF TypeOK, OwnTunnel, OwnWaits, Own, Phases,
       Alive
<1>6. Phases' /\ OwnersStarted' /\ OnlyLateTunnelsUnrecorded'
      /\ StaleListed' /\ RecoveredBeforeCreate' /\ HostStoppedFirst'
      /\ OwnDeleted'
  BY <1>1, <1>2, OwnIsTunnel, OwnerIsRun DEF TypeOK, Phases, OwnWaits, OwnersStarted,
       OnlyLateTunnelsUnrecorded, OwnTunnel, StaleListed, RecoveredBeforeCreate,
       HostStoppedFirst, Own, OwnDeleted, Alive
<1> QED
  BY <1>3, <1>4, <1>5, <1>6

LEMMA RecoveredOK ==
  ASSUME IndInv, NEW r \in Run, NEW ok \in BOOLEAN, NEW more \in BOOLEAN,
         Recovered(r, ok, more)
  PROVE  IndInv'
<1> USE DEF IndInv, Recovered, Delete, Remove, GoTo, Exit
<1>1. target[r] \in Tunnel /\ life[Owner(target[r])] = "exited"
  BY DEF TargetsEnded
<1>2. \A q \in Run : Alive(q) => Own(q) # target[r]
  BY <1>1, OwnIsTunnel DEF Alive
<1>3. TypeOK'
  BY <1>1, <1>2, OwnIsTunnel, OwnerIsRun DEF TypeOK, Waits, Alive
<1>4. OwnTunnel'
  BY <1>1, <1>2, OwnIsTunnel, OwnerIsRun DEF TypeOK, OwnTunnel, OwnWaits, Own, Phases,
       Alive
<1>5. OnlyLateTunnelsUnrecorded'
  BY <1>1, <1>2, OwnIsTunnel, OwnerIsRun DEF TypeOK, OnlyLateTunnelsUnrecorded,
       OwnTunnel, OwnWaits, Alive
<1>6. StaleListed'
  BY <1>1, <1>2, OwnIsTunnel, OwnerIsRun DEF TypeOK, StaleListed, Phases, Alive
<1>7. Phases' /\ OwnersStarted' /\ TargetsEnded'
      /\ RecoveredBeforeCreate' /\ HostStoppedFirst' /\ OwnDeleted'
  BY <1>1, <1>2, OwnIsTunnel, OwnerIsRun DEF TypeOK, Phases, OwnWaits, OwnersStarted,
       TargetsEnded, RecoveredBeforeCreate, StaleListed, HostStoppedFirst, Own,
       OwnDeleted, Alive
<1> QED
  BY <1>3, <1>4, <1>5, <1>6, <1>7

LEMMA PlanOK ==
  ASSUME IndInv, NEW r \in Run, NEW ok \in BOOLEAN, Plan(r, ok)
  PROVE  IndInv'
<1> USE DEF IndInv, Plan, StartFails, GoTo, Exit, States, Saves, Undoes
<1>1. attempt[r] \in {0, 1} /\ attempt'[r] = attempt[r] + 1 /\ <<r, attempt[r] + 1>> = Own(r)'
  BY DEF TypeOK, Phases, Alive, Own
<1>2. Own(r)' \in Tunnel /\ Owner(Own(r)') = r
  BY <1>1 DEF Tunnel, Own, Owner
<1>3. Saves(Own(r)', "creating", ok)
  BY <1>1, <1>2, SaveFacts
<1>4. TypeOK'
  BY <1>1, <1>2, <1>3, OwnIsTunnel, OwnerIsRun DEF TypeOK, Waits, Alive
<1>5. Phases'
  BY <1>1, <1>2, <1>3, OwnIsTunnel, OwnerIsRun DEF TypeOK, Phases, OwnWaits, Alive
<1>6. OwnersStarted'
  BY <1>1, <1>2, <1>3, OwnIsTunnel, OwnerIsRun DEF TypeOK, OwnersStarted, Alive
<1>7. OwnTunnel'
  BY <1>1, <1>2, <1>3, OwnIsTunnel, OwnerIsRun DEF TypeOK, OwnTunnel, OwnWaits, Own,
       Phases, Alive
<1>8. RecoveredBeforeCreate'
  BY <1>1, <1>2, <1>3, OwnIsTunnel, OwnerIsRun DEF TypeOK, RecoveredBeforeCreate,
       StaleListed, Phases, Alive
<1>9. HostStoppedFirst' /\ OwnDeleted'
  BY <1>1, <1>2, <1>3, OwnIsTunnel, OwnerIsRun DEF TypeOK, HostStoppedFirst, Own,
       Phases, OwnDeleted, Alive
<1>10. TargetsEnded' /\ OnlyLateTunnelsUnrecorded' /\ StaleListed'
  BY <1>1, <1>2, <1>3, OwnIsTunnel, OwnerIsRun DEF TypeOK, TargetsEnded, Phases,
       OnlyLateTunnelsUnrecorded, OwnTunnel, OwnWaits, StaleListed, Alive
<1> QED
  BY <1>4, <1>5, <1>6, <1>7, <1>8, <1>9, <1>10

LEMMA GiveUpOK ==
  ASSUME IndInv, NEW r \in Run, GiveUp(r)
  PROVE  IndInv'
<1> USE DEF IndInv, GiveUp, Exit
<1>1. TypeOK' /\ Phases' /\ OwnersStarted' /\ TargetsEnded' /\ OwnTunnel'
      /\ OnlyLateTunnelsUnrecorded' /\ StaleListed' /\ RecoveredBeforeCreate'
      /\ HostStoppedFirst' /\ OwnDeleted'
  BY OwnIsTunnel, OwnerIsRun DEF TypeOK, Waits, Phases, OwnWaits, OwnersStarted,
       TargetsEnded, OwnTunnel, Own, OnlyLateTunnelsUnrecorded, StaleListed,
       RecoveredBeforeCreate, HostStoppedFirst, OwnDeleted, Alive
<1> QED
  BY <1>1

LEMMA CreatedOK ==
  ASSUME IndInv, NEW r \in Run, NEW ok \in BOOLEAN, Created(r, ok)
  PROVE  IndInv'
<1> USE DEF IndInv, Created, GoTo, States, Saves, Undoes
<1>1. Own(r) \in Tunnel /\ Owner(Own(r)) = r
  BY OwnIsTunnel DEF Phases, OwnWaits
<1>2. ~ok => Undoes(r)
  BY <1>1, UndoFacts
<1>3. TypeOK'
  BY <1>1, <1>2, OwnIsTunnel, OwnerIsRun DEF TypeOK, Waits, Alive
<1>4. Phases'
  BY <1>1, <1>2, OwnIsTunnel, OwnerIsRun DEF TypeOK, Phases, OwnWaits, Alive
<1>5. OwnTunnel'
  BY <1>1, <1>2, OwnIsTunnel, OwnerIsRun DEF TypeOK, OwnTunnel, OwnWaits, Own, Phases,
       Alive
<1>6. OnlyLateTunnelsUnrecorded'
  BY <1>1, <1>2, OwnIsTunnel, OwnerIsRun DEF TypeOK, OnlyLateTunnelsUnrecorded,
       OwnTunnel, OwnWaits, Alive
<1>7. StaleListed' /\ RecoveredBeforeCreate'
  BY <1>1, <1>2, OwnIsTunnel, OwnerIsRun DEF TypeOK, StaleListed, Phases,
       RecoveredBeforeCreate, Alive
<1>8. HostStoppedFirst' /\ OwnDeleted'
  BY <1>1, <1>2, OwnIsTunnel, OwnerIsRun DEF TypeOK, HostStoppedFirst, Own, Phases,
       OwnDeleted, Alive
<1>9. OwnersStarted' /\ TargetsEnded'
  BY <1>1, <1>2, OwnIsTunnel, OwnerIsRun DEF TypeOK, OwnersStarted, TargetsEnded,
       Phases, Alive
<1> QED
  BY <1>3, <1>4, <1>5, <1>6, <1>7, <1>8, <1>9

LEMMA PortCreatedOK ==
  ASSUME IndInv, NEW r \in Run, NEW ok \in BOOLEAN, PortCreated(r, ok)
  PROVE  IndInv'
<1> USE DEF IndInv, PortCreated, GoTo, States, Saves, Undoes
<1>1. Own(r) \in Tunnel /\ Owner(Own(r)) = r
  BY OwnIsTunnel DEF Phases, OwnWaits
<1>2. ~ok => Undoes(r)
  BY <1>1, UndoFacts
<1>3. TypeOK'
  BY <1>1, <1>2, OwnIsTunnel, OwnerIsRun DEF TypeOK, Waits, Alive
<1>4. Phases'
  BY <1>1, <1>2, OwnIsTunnel, OwnerIsRun DEF TypeOK, Phases, OwnWaits, Alive
<1>5. OwnTunnel'
  BY <1>1, <1>2, OwnIsTunnel, OwnerIsRun DEF TypeOK, OwnTunnel, OwnWaits, Own, Phases,
       Alive
<1>6. HostStoppedFirst' /\ OwnDeleted'
  BY <1>1, <1>2, OwnIsTunnel, OwnerIsRun DEF TypeOK, HostStoppedFirst, Own, Phases,
       OwnDeleted, Alive
<1>7. OwnersStarted' /\ TargetsEnded'
      /\ OnlyLateTunnelsUnrecorded' /\ StaleListed' /\ RecoveredBeforeCreate'
  BY <1>1, <1>2, OwnIsTunnel, OwnerIsRun DEF TypeOK, OwnersStarted, TargetsEnded,
       Phases, OnlyLateTunnelsUnrecorded, OwnTunnel, OwnWaits, StaleListed,
       RecoveredBeforeCreate, Alive
<1> QED
  BY <1>3, <1>4, <1>5, <1>6, <1>7

LEMMA HostReadyOK ==
  ASSUME IndInv, NEW r \in Run, NEW ok \in BOOLEAN, NEW more \in BOOLEAN,
         HostReady(r, ok, more)
  PROVE  IndInv'
<1> USE DEF IndInv, HostReady, GoTo, States, Saves, Undoes
<1>1. Own(r) \in Tunnel /\ Owner(Own(r)) = r
  BY OwnIsTunnel DEF Phases, OwnWaits
<1>2. ok => Saves(Own(r), "ready", more)
  BY <1>1, SaveFacts
<1>3. \A q \in Run \ {r} : Own(q) # Own(r)
  BY OwnDiffers
<1>4. TypeOK'
  BY <1>1, <1>2, <1>3, OwnIsTunnel, OwnerIsRun DEF TypeOK, Waits, Alive
<1>5. OwnTunnel'
  <2>1. ASSUME NEW q \in Run, Alive(q)', q # r
        PROVE  /\ pc'[q] \in OwnWaits => records'[Own(q)] # "none"
               /\ pc'[q] \in {"porting", "hosting", "connected"} => Own(q) \in exists
               /\ pc'[q] = "connected" => records'[Own(q)] = "ready"
    BY <1>1, <1>2, <1>3, <2>1, OwnIsTunnel DEF TypeOK, OwnTunnel, Phases, Alive
  <2>2. /\ pc'[r] \in OwnWaits => records'[Own(r)] # "none"
        /\ Own(r) \in exists
        /\ pc'[r] = "connected" => records'[Own(r)] = "ready"
    BY <1>1, <1>2 DEF TypeOK, OwnTunnel, OwnWaits, Alive
  <2> QED
    BY <2>1, <2>2 DEF OwnTunnel, Own
<1>6. HostStoppedFirst' /\ OwnDeleted'
  BY <1>1, <1>2, <1>3, OwnIsTunnel, OwnerIsRun DEF TypeOK, HostStoppedFirst, Own,
       Phases, OwnDeleted, Alive
<1>7. Phases' /\ OwnersStarted' /\ TargetsEnded'
      /\ OnlyLateTunnelsUnrecorded' /\ StaleListed' /\ RecoveredBeforeCreate'
  BY <1>1, <1>2, <1>3, OwnIsTunnel, OwnerIsRun DEF TypeOK, Phases, OwnWaits,
       OwnersStarted, TargetsEnded, OnlyLateTunnelsUnrecorded, OwnTunnel, StaleListed,
       RecoveredBeforeCreate, Alive
<1> QED
  BY <1>4, <1>5, <1>6, <1>7

LEMMA HostEndsOK ==
  ASSUME IndInv, NEW t \in Tunnel, HostEnds(t)
  PROVE  IndInv'
<1> USE DEF IndInv, HostEnds
<1>1. TypeOK' /\ Phases' /\ OwnersStarted' /\ TargetsEnded' /\ OwnTunnel'
      /\ OnlyLateTunnelsUnrecorded' /\ StaleListed' /\ RecoveredBeforeCreate'
      /\ HostStoppedFirst' /\ OwnDeleted'
  BY OwnIsTunnel, OwnerIsRun DEF TypeOK, Waits, Phases, OwnWaits, OwnersStarted,
       TargetsEnded, OwnTunnel, Own, OnlyLateTunnelsUnrecorded, StaleListed,
       RecoveredBeforeCreate, HostStoppedFirst, OwnDeleted, Alive
<1> QED
  BY <1>1

LEMMA HostStoppedOK ==
  ASSUME IndInv, NEW r \in Run, HostStopped(r)
  PROVE  IndInv'
<1> USE DEF IndInv, HostStopped, GoTo, States, Saves, Undoes
<1>1. Own(r) \in Tunnel /\ Owner(Own(r)) = r
  BY OwnIsTunnel DEF Phases, OwnWaits
<1>2. life[r] = "running" => Undoes(r)
  BY <1>1, UndoFacts
<1>3. TypeOK'
  BY <1>1, <1>2, OwnIsTunnel, OwnerIsRun DEF TypeOK, Waits, Alive
<1>4. OwnTunnel'
  BY <1>1, <1>2, OwnIsTunnel, OwnerIsRun DEF TypeOK, OwnTunnel, OwnWaits, Own, Phases,
       Alive
<1>5. HostStoppedFirst' /\ OwnDeleted'
  BY <1>1, <1>2, OwnIsTunnel, OwnerIsRun DEF TypeOK, HostStoppedFirst, Own, Phases,
       OwnDeleted, Alive
<1>6. Phases' /\ OwnersStarted' /\ TargetsEnded'
      /\ OnlyLateTunnelsUnrecorded' /\ StaleListed' /\ RecoveredBeforeCreate'
  BY <1>1, <1>2, OwnIsTunnel, OwnerIsRun DEF TypeOK, Phases, OwnWaits, OwnersStarted,
       TargetsEnded, OnlyLateTunnelsUnrecorded, OwnTunnel, StaleListed,
       RecoveredBeforeCreate, Alive
<1> QED
  BY <1>3, <1>4, <1>5, <1>6

LEMMA DeletedOK ==
  ASSUME IndInv, NEW r \in Run, NEW ok \in BOOLEAN, NEW more \in BOOLEAN,
         Deleted(r, ok, more)
  PROVE  IndInv'
<1> USE DEF IndInv, Deleted, Delete, Remove, Forget, Finish, StartFails, GoTo, Exit
<1>1. Own(r) \in Tunnel /\ Owner(Own(r)) = r
  BY OwnIsTunnel DEF Phases, OwnWaits
<1>2. TypeOK'
  BY <1>1, OwnIsTunnel, OwnerIsRun DEF TypeOK, Waits, Alive
<1>3. Phases'
  BY <1>1, OwnIsTunnel, OwnerIsRun DEF TypeOK, Phases, OwnWaits, Alive
<1>4. OwnTunnel'
  BY <1>1, OwnIsTunnel, OwnerIsRun DEF TypeOK, OwnTunnel, OwnWaits, Own, Phases, Alive
<1>5. OnlyLateTunnelsUnrecorded'
  BY <1>1, OwnIsTunnel, OwnerIsRun DEF TypeOK, OnlyLateTunnelsUnrecorded, OwnTunnel,
       OwnWaits, Alive
<1>6. HostStoppedFirst' /\ OwnDeleted'
  BY <1>1, OwnIsTunnel, OwnerIsRun DEF TypeOK, HostStoppedFirst, Own, Phases,
       OwnDeleted, Alive
<1>7. OwnersStarted' /\ TargetsEnded' /\ StaleListed' /\ RecoveredBeforeCreate'
  BY <1>1, OwnIsTunnel, OwnerIsRun DEF TypeOK, OwnersStarted, TargetsEnded, Phases,
       StaleListed, RecoveredBeforeCreate, Alive
<1> QED
  BY <1>2, <1>3, <1>4, <1>5, <1>6, <1>7

LEMMA RequestShutdownOK ==
  ASSUME IndInv, NEW r \in Run, RequestShutdown(r)
  PROVE  IndInv'
<1> USE DEF IndInv, RequestShutdown, Exit
<1>1. TypeOK'
  BY OwnIsTunnel, OwnerIsRun DEF TypeOK, Waits, Alive
<1>2. Phases'
  BY OwnIsTunnel, OwnerIsRun DEF TypeOK, Phases, OwnWaits, Alive
<1>3. OwnTunnel'
  BY OwnIsTunnel, OwnerIsRun DEF TypeOK, OwnTunnel, OwnWaits, Own, Phases, Alive
<1>4. OwnersStarted' /\ TargetsEnded' /\ OnlyLateTunnelsUnrecorded'
      /\ StaleListed' /\ RecoveredBeforeCreate' /\ HostStoppedFirst'
      /\ OwnDeleted'
  BY OwnIsTunnel, OwnerIsRun DEF TypeOK, OwnersStarted, TargetsEnded, Phases,
       OnlyLateTunnelsUnrecorded, OwnTunnel, OwnWaits, StaleListed,
       RecoveredBeforeCreate, HostStoppedFirst, Own, OwnDeleted, Alive
<1> QED
  BY <1>1, <1>2, <1>3, <1>4

LEMMA ServerClosedOK ==
  ASSUME IndInv, NEW r \in Run, NEW ok \in BOOLEAN, ServerClosed(r, ok)
  PROVE  IndInv'
<1> USE DEF IndInv, ServerClosed, GoTo, States, Saves, Undoes
<1>1. Own(r) \in Tunnel /\ Owner(Own(r)) = r
  BY OwnIsTunnel DEF Phases, OwnWaits, Alive
<1>2. Saves(Own(r), "deleting", ok)
  BY <1>1, SaveFacts
<1>3. TypeOK'
  BY <1>1, <1>2, OwnIsTunnel, OwnerIsRun DEF TypeOK, Waits, Alive
<1>4. OwnTunnel'
  BY <1>1, <1>2, OwnIsTunnel, OwnerIsRun DEF TypeOK, OwnTunnel, OwnWaits, Own, Phases,
       Alive
<1>5. Phases' /\ OwnersStarted' /\ TargetsEnded' /\ OnlyLateTunnelsUnrecorded'
      /\ StaleListed' /\ RecoveredBeforeCreate' /\ HostStoppedFirst'
      /\ OwnDeleted'
  BY <1>1, <1>2, OwnIsTunnel, OwnerIsRun DEF TypeOK, Phases, OwnWaits, OwnersStarted,
       TargetsEnded, OnlyLateTunnelsUnrecorded, OwnTunnel, StaleListed,
       RecoveredBeforeCreate, HostStoppedFirst, Own, OwnDeleted, Alive
<1> QED
  BY <1>3, <1>4, <1>5

LEMMA DeadlineOK ==
  ASSUME IndInv, NEW r \in Run, Deadline(r)
  PROVE  IndInv'
<1> USE DEF IndInv, Deadline, Exit
<1>1. TypeOK' /\ Phases' /\ OwnersStarted' /\ TargetsEnded' /\ OwnTunnel'
      /\ OnlyLateTunnelsUnrecorded' /\ StaleListed' /\ RecoveredBeforeCreate'
      /\ HostStoppedFirst' /\ OwnDeleted'
  BY OwnIsTunnel, OwnerIsRun DEF TypeOK, Waits, Phases, OwnWaits, OwnersStarted,
       TargetsEnded, OwnTunnel, Own, OnlyLateTunnelsUnrecorded, StaleListed,
       RecoveredBeforeCreate, HostStoppedFirst, OwnDeleted, Alive
<1> QED
  BY <1>1

LEMMA CrashOK ==
  ASSUME IndInv, NEW r \in Run, Crash(r)
  PROVE  IndInv'
<1> USE DEF IndInv, Crash, Exit
<1>1. TypeOK' /\ Phases' /\ OwnersStarted' /\ TargetsEnded' /\ OwnTunnel'
      /\ OnlyLateTunnelsUnrecorded' /\ StaleListed' /\ RecoveredBeforeCreate'
      /\ HostStoppedFirst' /\ OwnDeleted'
  BY OwnIsTunnel, OwnerIsRun DEF TypeOK, Waits, Phases, OwnWaits, OwnersStarted,
       TargetsEnded, OwnTunnel, Own, OnlyLateTunnelsUnrecorded, StaleListed,
       RecoveredBeforeCreate, HostStoppedFirst, OwnDeleted, Alive
<1> QED
  BY <1>1

LEMMA LateReplyOK ==
  ASSUME IndInv, NEW r \in Run, NEW ok \in BOOLEAN, LateReply(r, ok)
  PROVE  IndInv'
<1> USE DEF IndInv, LateReply
<1>1. pc[r] = "recovering" => target[r] \in Tunnel /\ life[Owner(target[r])] = "exited"
  BY DEF TargetsEnded
<1>2. pc[r] # "recovering" => Own(r) \in Tunnel /\ Owner(Own(r)) = r
  BY OwnIsTunnel DEF Phases, OwnWaits
<1>3. \A q \in Run : Alive(q) => Own(q) # Own(r) /\ (pc[r] = "recovering" => Own(q) # target[r])
  BY <1>1, OwnIsTunnel DEF Alive
<1>4. TypeOK'
  BY <1>1, <1>2, <1>3, OwnIsTunnel, OwnerIsRun DEF TypeOK, Waits, Alive
<1>5. OwnTunnel'
  BY <1>1, <1>2, <1>3, OwnIsTunnel, OwnerIsRun DEF TypeOK, OwnTunnel, OwnWaits, Own,
       Phases, Alive
<1>6. OnlyLateTunnelsUnrecorded'
  BY <1>1, <1>2, <1>3, OwnIsTunnel, OwnerIsRun DEF TypeOK, OnlyLateTunnelsUnrecorded,
       OwnTunnel, OwnWaits, Alive
<1>7. Phases' /\ OwnersStarted' /\ TargetsEnded'
      /\ StaleListed' /\ RecoveredBeforeCreate' /\ HostStoppedFirst'
      /\ OwnDeleted'
  BY <1>1, <1>2, <1>3, OwnIsTunnel, OwnerIsRun DEF TypeOK, Phases, OwnWaits,
       OwnersStarted, TargetsEnded, StaleListed, RecoveredBeforeCreate,
       HostStoppedFirst, Own, OwnDeleted, Alive
<1> QED
  BY <1>4, <1>5, <1>6, <1>7

-----------------------------------------------------------------------------
LEMMA NextOK == IndInv /\ [Next]_vars => IndInv'
<1> SUFFICES ASSUME IndInv, [Next]_vars PROVE IndInv'
  OBVIOUS
<1>1. CASE UNCHANGED vars
  BY <1>1 DEF vars, IndInv, TypeOK, Phases, OwnersStarted, TargetsEnded, OwnTunnel,
     OnlyLateTunnelsUnrecorded, StaleListed, RecoveredBeforeCreate, HostStoppedFirst,
     OwnDeleted, Alive, Own
<1>2. ASSUME NEW t \in Tunnel, HostEnds(t)
      PROVE  IndInv'
  BY <1>2, HostEndsOK
<1>3. ASSUME NEW r \in Run,
             \/ Start(r) \/ GiveUp(r) \/ HostStopped(r) \/ RequestShutdown(r)
             \/ Deadline(r) \/ Crash(r) \/ \E t \in Tunnel : SkipRecord(r, t)
      PROVE  IndInv'
  BY <1>3, StartOK, GiveUpOK, HostStoppedOK, RequestShutdownOK, DeadlineOK, CrashOK,
     SkipRecordOK
<1>4. ASSUME NEW r \in Run, NEW ok \in BOOLEAN,
             \/ \E t \in Tunnel : RecoverRecord(r, t, ok)
             \/ Plan(r, ok) \/ Created(r, ok) \/ PortCreated(r, ok)
             \/ ServerClosed(r, ok) \/ LateReply(r, ok)
      PROVE  IndInv'
  BY <1>4, RecoverRecordOK, PlanOK, CreatedOK, PortCreatedOK, ServerClosedOK,
       LateReplyOK
<1>5. ASSUME NEW r \in Run, NEW ok \in BOOLEAN, NEW more \in BOOLEAN,
             Recovered(r, ok, more) \/ HostReady(r, ok, more) \/ Deleted(r, ok, more)
      PROVE  IndInv'
  BY <1>5, RecoveredOK, HostReadyOK, DeletedOK
<1> QED
  BY <1>1, <1>2, <1>3, <1>4, <1>5 DEF Next

-----------------------------------------------------------------------------
(* What a run leaves behind                                                  *)

\* A host process belongs to the present attempt of its run, until stopHost; a run
\* that is gone may have left it behind, but not one that ended in order.  Nor does
\* a tunnel come late for a run that did.
LeftBehind ==
  /\ \A t \in hosts :
       /\ life[Owner(t)] # "absent" /\ outcome[Owner(t)] # "clean"
       /\ Alive(Owner(t)) => /\ t = Own(Owner(t))
                             /\ pc[Owner(t)] \in {"hosting", "connected", "draining", "stopping"}
  /\ \A t \in late : life[Owner(t)] = "exited" /\ outcome[Owner(t)] # "clean"

\* It is enough to look at the hosts of the run that takes the step.
LEMMA LeftBehindStays ==
  ASSUME IndInv, LeftBehind, NEW r \in Run, life[r] # "exited", late' = late,
         hosts' \subseteq Tunnel, \A t \in hosts' : t \in hosts \/ Owner(t) = r,
         \A q \in Run \ {r} : /\ life'[q] = life[q] /\ pc'[q] = pc[q]
                              /\ attempt'[q] = attempt[q] /\ outcome'[q] = outcome[q],
         \A t \in hosts' : Owner(t) = r =>
           /\ life'[r] # "absent" /\ outcome'[r] # "clean"
           /\ life'[r] \in {"running", "cleaning"} =>
                /\ t = <<r, attempt'[r]>>
                /\ pc'[r] \in {"hosting", "connected", "draining", "stopping"}
  PROVE  LeftBehind'
<1>1. \A t \in hosts' : Owner(t) \in Run
  BY OwnerIsRun
<1>2. \A t \in late : Owner(t) \in Run /\ Owner(t) # r
  BY OwnerIsRun DEF LeftBehind, IndInv, TypeOK
<1> QED
  BY <1>1, <1>2 DEF LeftBehind, Alive, Own

LEMMA LeftBehindNext == IndInv /\ LeftBehind /\ [Next]_vars => LeftBehind'
<1> SUFFICES ASSUME IndInv, LeftBehind, [Next]_vars PROVE LeftBehind'
  OBVIOUS
<1> DEFINE Hosting == {"hosting", "connected", "draining", "stopping"}
<1>1. TypeOK /\ hosts \subseteq Tunnel /\ late \subseteq Tunnel
  BY DEF IndInv, TypeOK
<1>2. ASSUME NEW r \in Run, NEW t \in hosts, Owner(t) = r
      PROVE  /\ life[r] # "absent" /\ outcome[r] # "clean"
             /\ Alive(r) => t = <<r, attempt[r]>> /\ pc[r] \in Hosting
  BY <1>2 DEF LeftBehind, Own
<1>3. ASSUME NEW r \in Run,
             \/ Start(r) \/ GiveUp(r) \/ RequestShutdown(r) \/ Deadline(r) \/ Crash(r)
             \/ \E t \in Tunnel : SkipRecord(r, t)
             \/ \E ok \in BOOLEAN : ServerClosed(r, ok)
      PROVE  LeftBehind'
  BY <1>1, <1>2, <1>3, LeftBehindStays
     DEF Start, GiveUp, RequestShutdown, Deadline, Crash, SkipRecord, ServerClosed, Exit,
         GoTo, TypeOK, Alive
<1>4. ASSUME NEW r \in Run, NEW ok \in BOOLEAN, NEW more \in BOOLEAN,
             \/ \E t \in Tunnel : RecoverRecord(r, t, ok)
             \/ Recovered(r, ok, more)
             \/ Plan(r, ok)
             \/ Created(r, ok)
             \/ HostReady(r, ok, more)
      PROVE  LeftBehind'
  BY <1>1, <1>2, <1>4, LeftBehindStays
     DEF RecoverRecord, Recovered, Plan, Created, HostReady, StartFails, Undo, Exit, GoTo,
         TypeOK, Alive
<1>5. ASSUME NEW r \in Run, NEW ok \in BOOLEAN, PortCreated(r, ok)
      PROVE  LeftBehind'
  <2>1. Own(r) \in Tunnel /\ Owner(Own(r)) = r /\ Own(r) = <<r, attempt[r]>>
    BY <1>1, <1>5, OwnIsTunnel DEF PortCreated, IndInv, Phases, OwnWaits, Own
  <2>2. outcome[r] # "clean"
    BY <1>5 DEF PortCreated, IndInv, Phases
  <2>3. \A t \in hosts : Owner(t) # r
    BY <1>2, <1>5 DEF PortCreated, Alive
  <2>4. /\ life[r] = "running" /\ life' = life /\ outcome' = outcome /\ attempt' = attempt
        /\ late' = late /\ \A q \in Run \ {r} : pc'[q] = pc[q]
    BY <1>1, <1>5 DEF PortCreated, Undo, GoTo, TypeOK
  <2>5. hosts' = hosts \/ (hosts' = hosts \cup {Own(r)} /\ pc'[r] = "hosting")
    BY <1>1, <1>5 DEF PortCreated, GoTo, TypeOK
  <2> QED
    BY <1>1, <2>1, <2>2, <2>3, <2>4, <2>5, LeftBehindStays
<1>6. ASSUME NEW r \in Run, HostStopped(r)
      PROVE  LeftBehind'
  <2>1. \A t \in hosts' : t \in hosts /\ Owner(t) # r
    BY <1>1, <1>2, <1>6 DEF HostStopped, Own
  <2> QED
    BY <1>1, <1>6, <2>1, LeftBehindStays DEF HostStopped, Undo, GoTo, TypeOK, Alive
<1>7. ASSUME NEW r \in Run, NEW ok \in BOOLEAN, NEW more \in BOOLEAN, Deleted(r, ok, more)
      PROVE  LeftBehind'
  <2>1. \A t \in hosts' : t \in hosts /\ Owner(t) # r
    BY <1>2, <1>7 DEF Deleted
  <2> QED
    BY <1>1, <1>7, <2>1, LeftBehindStays
       DEF Deleted, StartFails, Finish, Exit, GoTo, TypeOK, Alive
<1>8. ASSUME NEW r \in Run, NEW ok \in BOOLEAN, LateReply(r, ok)
      PROVE  LeftBehind'
  <2>1. pc[r] = "creating" => outcome[r] # "clean" /\ Owner(Own(r)) = r
    BY <1>1, OwnIsTunnel DEF IndInv, Phases
  <2>2. \A t \in hosts \cup late : Owner(t) \in Run
    BY <1>1, OwnerIsRun
  <2>3. /\ life[r] = "exited"
        /\ life' = life /\ outcome' = outcome /\ attempt' = attempt /\ hosts' = hosts
        /\ \A q \in Run \ {r} : pc'[q] = pc[q]
        /\ \A t \in late' : t \in late \/ (t = Own(r) /\ pc[r] = "creating")
    BY <1>1, <1>8 DEF LateReply, TypeOK
  <2>4. \A t \in late' : life'[Owner(t)] = "exited" /\ outcome'[Owner(t)] # "clean"
    BY <2>1, <2>3 DEF LeftBehind
  <2>5. \A t \in hosts : Alive(Owner(t)) => Owner(t) # r /\ pc'[Owner(t)] = pc[Owner(t)]
    BY <2>2, <2>3 DEF Alive
  <2>6. \A t \in hosts' : Own(Owner(t))' = Own(Owner(t)) /\ (Alive(Owner(t))' <=> Alive(Owner(t)))
    BY <2>3 DEF Own, Alive
  <2> QED
    BY <2>3, <2>4, <2>5, <2>6 DEF LeftBehind
<1>9. ASSUME NEW t \in Tunnel, HostEnds(t)
      PROVE  LeftBehind'
  BY <1>9 DEF HostEnds, LeftBehind, Alive, Own
<1>10. CASE UNCHANGED vars
  BY <1>10 DEF vars, LeftBehind, Alive, Own
<1> QED
  BY <1>3, <1>4, <1>5, <1>6, <1>7, <1>8, <1>9, <1>10 DEF Next

-----------------------------------------------------------------------------
(* Theorems                                                                  *)

\* The inductive invariant holds in every reachable state.
THEOREM InductiveInvariant == Spec => []IndInv
<1> QED
  BY InitOK, NextOK, PTL DEF Spec

\* Every variable keeps its type; in particular a run plans at most two tunnels.
THEOREM TypeCorrect == Spec => []TypeOK
<1>1. IndInv => TypeOK
  BY DEF IndInv
<1> QED
  BY <1>1, InductiveInvariant, PTL

\* The tunnel of a connected run exists and is on record as ready, whatever the
\* recoveries of any number of other runs do (reconcileTemporaryTunnels).
THEOREM ConnectedSafe == Spec => []ConnectedTunnelIsSafe
<1>1. IndInv => ConnectedTunnelIsSafe
  BY DEF IndInv, OwnTunnel, ConnectedTunnelIsSafe, Alive
<1> QED
  BY <1>1, InductiveInvariant, PTL

\* A tunnel without a record was created after its run had ended: saving before
\* creating, and removing after deleting, leave no other way to lose one.
THEOREM RecordsCoverTunnels == Spec => []OnlyLateTunnelsUnrecorded
<1>1. IndInv => OnlyLateTunnelsUnrecorded
  BY DEF IndInv
<1> QED
  BY <1>1, InductiveInvariant, PTL

\* No run creates a tunnel before it has deleted every stale one it can know of.
THEOREM RecoveryFirst == Spec => []RecoveredBeforeCreate
<1>1. IndInv => RecoveredBeforeCreate
  BY DEF IndInv
<1> QED
  BY <1>1, InductiveInvariant, PTL

\* An orderly shutdown leaves no host process, and at the provider at most the
\* tunnel of an earlier attempt whose deletion failed, with its record: for any
\* number of runs around it, and whatever they recover meanwhile.
THEOREM ShutdownIsClean == Spec => []CleanShutdownCleansUp
<1>1. Init => LeftBehind
  BY DEF Init, LeftBehind
<1>2. IndInv /\ LeftBehind => CleanShutdownCleansUp
  BY DEF IndInv, LeftBehind, OwnDeleted, OnlyLateTunnelsUnrecorded, CleanShutdownCleansUp
<1> QED
  BY <1>1, <1>2, LeftBehindNext, InductiveInvariant, PTL DEF Spec
=============================================================================
