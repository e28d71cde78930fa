-------------------------- MODULE TunnelOwnership ---------------------------
(***************************************************************************)
(* Temporary Tunnels over several runs of the CLI: their creation, the     *)
(* ownership records on disk, orderly shutdown and the recovery that the   *)
(* next run starts with (cli/src/tunnel/devtunnels.ts,                     *)
(* temporaryTunnelOwnership.ts, cliLifecycle.ts, runStation.ts).           *)
(*                                                                         *)
(* Runs are processes: they overlap, are interrupted, and crash.  A run    *)
(* waits for one helper command (devtunnel create, port create, delete) at *)
(* a time; pc says which.  The helper is a process of its own and survives *)
(* the run that spawned it, so a run that is gone keeps the pc of the      *)
(* command still in flight, until that command ends.                       *)
(*                                                                         *)
(* An action is what a run does between two waits.  A crash inside one     *)
(* leaves what a crash just before or just after it leaves, because the    *)
(* files and the provider change only in its first step or through a       *)
(* helper that may never get to run.                                       *)
(***************************************************************************)
EXTENDS Naturals, FiniteSets

CONSTANTS
  Run,        \* runs of the CLI
  ReusedPid,  \* runs whose process id belongs to another process once they end
  NoTunnel    \* no tunnel is being recovered

ASSUME ReusedAssumption == ReusedPid \subseteq Run

\* tunnelIdFactory: a fresh identity per attempt, and connect makes at most two.
Tunnel == Run \X {1, 2}
Owner(t) == t[1]

ASSUME NoTunnelAssumption == NoTunnel \notin Tunnel

VARIABLES
  life,         \* CliLifecycle.state, and "absent" before the process starts
  outcome,      \* how the run ended
  pc,           \* what the run waits for
  attempt,      \* startHost calls so far
  todo,         \* records that reconciliation still has to look at
  target,       \* the stale tunnel being deleted
  records,      \* ownership records on disk, with their state
  exists,       \* tunnels at the provider
  hosts,        \* tunnels with a `devtunnel host` process
  late,         \* history: tunnels created after their run had ended
  endedBefore   \* history: runs that had ended when this one started

vars == <<life, outcome, pc, attempt, todo, target, records, exists, hosts, late,
          endedBefore>>

Alive(r) == life[r] \in {"running", "cleaning"}
Own(r) == <<r, attempt[r]>>

Init ==
  /\ life = [r \in Run |-> "absent"]
  /\ outcome = [r \in Run |-> "none"]
  /\ pc = [r \in Run |-> "idle"]
  /\ attempt = [r \in Run |-> 0]
  /\ todo = [r \in Run |-> {}]
  /\ target = [r \in Run |-> NoTunnel]
  /\ records = [t \in Tunnel |-> "none"]
  /\ exists = {}
  /\ hosts = {}
  /\ late = {}
  /\ endedBefore = [r \in Run |-> {}]

-----------------------------------------------------------------------------
(* Steps shared by the operations                                            *)

\* process.exit, with the helper that p still waits for left behind.
Exit(r, how, p) ==
  /\ life' = [life EXCEPT ![r] = "exited"]
  /\ outcome' = [outcome EXCEPT ![r] = how]
  /\ pc' = [pc EXCEPT ![r] = p]

GoTo(r, p) == pc' = [pc EXCEPT ![r] = p] /\ UNCHANGED <<life, outcome>>

\* save is atomic; one that throws may have replaced the file all the same
\* (the chmod after the rename failed).
Save(t, state, ok) ==
  records' \in (IF ok THEN {} ELSE {records}) \cup {[records EXCEPT ![t] = state]}

\* remove: the file goes, or the removal throws.
Remove(t, ok) == records' = IF ok THEN [records EXCEPT ![t] = "none"] ELSE records

\* The provider after a delete command: a failed one may have had its effect.
Delete(t, ok) == exists' \in (IF ok THEN {} ELSE {exists}) \cup {exists \ {t}}

\* startHost has thrown.  connect asks for the login state after the first time
\* and gives up after the second; main's catch then finds no cleanup and exits.
StartFails(r) == IF attempt'[r] = 1 THEN GoTo(r, "login") ELSE Exit(r, "failed", "idle")

-----------------------------------------------------------------------------
(* reconcileTemporaryTunnels                                                 *)

\* The run starts and reads the records.
Start(r) ==
  /\ life[r] = "absent"
  /\ endedBefore' = [endedBefore EXCEPT ![r] = {q \in Run : life[q] = "exited"}]
  /\ \/ /\ life' = [life EXCEPT ![r] = "running"]
        /\ pc' = [pc EXCEPT ![r] = "look"]
        /\ todo' = [todo EXCEPT ![r] = {t \in Tunnel : records[t] # "none" /\ Owner(t) # r}]
        /\ UNCHANGED outcome
     \/ /\ Exit(r, "failed", "idle")
        /\ UNCHANGED todo
  /\ UNCHANGED <<attempt, target, records, exists, hosts, late>>

\* A record is skipped when a process with its owner's id is alive.
\* Fault: no record is.
NoneSkipped(t) == FALSE
Skipped(t) == Alive(Owner(t)) \/ (life[Owner(t)] = "exited" /\ Owner(t) \in ReusedPid)

SkipRecord(r, t) ==
  /\ life[r] = "running" /\ pc[r] = "look" /\ t \in todo[r]
  /\ Skipped(t)
  /\ todo' = [todo EXCEPT ![r] = @ \ {t}]
  /\ UNCHANGED <<life, outcome, pc, attempt, target, records, exists, hosts, late, endedBefore>>

\* A stale record is marked, and the deletion of its tunnel begins.
RecoverRecord(r, t, ok) ==
  /\ life[r] = "running" /\ pc[r] = "look" /\ t \in todo[r]
  /\ ~Skipped(t)
  /\ Save(t, "deleting", ok)
  /\ IF ok THEN GoTo(r, "recovering") ELSE Exit(r, "failed", "idle")
  /\ target' = [target EXCEPT ![r] = IF ok THEN t ELSE @]
  /\ UNCHANGED <<attempt, todo, exists, hosts, late, endedBefore>>

\* The delete command of a recovery ends.  Only a confirmed deletion (or "not
\* found") removes the record; anything else ends the run.
\* Fault: a refused deletion is passed over.
RecoveredAnyway(r, ok, removed) ==
  /\ life[r] = "running" /\ pc[r] = "recovering"
  /\ Delete(target[r], ok)
  /\ Remove(target[r], ok /\ removed)
  /\ GoTo(r, "look")
  /\ todo' = [todo EXCEPT ![r] = @ \ {target[r]}]
  /\ target' = [target EXCEPT ![r] = NoTunnel]
  /\ UNCHANGED <<attempt, hosts, late, endedBefore>>
Recovered(r, ok, removed) ==
  /\ life[r] = "running" /\ pc[r] = "recovering"
  /\ Delete(target[r], ok)
  /\ Remove(target[r], ok /\ removed)
  /\ IF ok /\ removed THEN GoTo(r, "look") ELSE Exit(r, "failed", "idle")
  /\ todo' = [todo EXCEPT ![r] = @ \ {target[r]}]
  /\ target' = [target EXCEPT ![r] = NoTunnel]
  /\ UNCHANGED <<attempt, hosts, late, endedBefore>>

-----------------------------------------------------------------------------
(* startHost                                                                 *)

\* The tunnel is recorded before the provider is asked to create it: after the
\* last stale record, or after a new login for the second attempt.
Plan(r, ok) ==
  /\ life[r] = "running"
  /\ (pc[r] = "look" /\ todo[r] = {}) \/ pc[r] = "login"
  /\ attempt' = [attempt EXCEPT ![r] = @ + 1]
  /\ Save(<<r, attempt[r] + 1>>, "creating", ok)
  /\ IF ok THEN GoTo(r, "creating") ELSE StartFails(r)
  /\ UNCHANGED <<todo, target, exists, hosts, late, endedBefore>>

\* The login is still cached, or the new login fails: the error stands.
GiveUp(r) ==
  /\ life[r] = "running" /\ pc[r] = "login"
  /\ Exit(r, "failed", "idle")
  /\ UNCHANGED <<attempt, todo, target, records, exists, hosts, late, endedBefore>>

\* The catch of startHost: the record is marked if it can be, and the deletion
\* begins.
Undo(r) ==
  /\ \E ok \in BOOLEAN : Save(Own(r), "deleting", ok)
  /\ GoTo(r, "deleting")

Created(r, ok) ==
  /\ life[r] = "running" /\ pc[r] = "creating"
  /\ exists' \in (IF ok THEN {} ELSE {exists}) \cup {exists \cup {Own(r)}}
  /\ IF ok THEN GoTo(r, "porting") /\ UNCHANGED records ELSE Undo(r)
  /\ UNCHANGED <<attempt, todo, target, hosts, late, endedBefore>>

PortCreated(r, ok) ==
  /\ life[r] = "running" /\ pc[r] = "porting"
  /\ IF ok THEN GoTo(r, "hosting") /\ UNCHANGED records ELSE Undo(r)
  /\ hosts' = IF ok THEN hosts \cup {Own(r)} ELSE hosts
  /\ UNCHANGED <<attempt, todo, target, exists, late, endedBefore>>

\* The host prints its URL and the record becomes "ready": the tunnel is
\* connected and runStation registers its cleanup in the same turn.  An exit, an
\* error or the readiness timeout of the host, or a failed save, undoes it all.
HostReady(r, url, saved) ==
  /\ life[r] = "running" /\ pc[r] = "hosting"
  /\ IF url THEN Save(Own(r), "ready", saved) ELSE UNCHANGED records
  /\ GoTo(r, IF url /\ saved THEN "connected" ELSE "stopping")
  /\ UNCHANGED <<attempt, todo, target, exists, hosts, late, endedBefore>>

\* The host process ends by itself.
HostEnds(t) ==
  /\ t \in hosts
  /\ hosts' = hosts \ {t}
  /\ UNCHANGED <<life, outcome, pc, attempt, todo, target, records, exists, late, endedBefore>>

\* stopHost is done: the host has exited, or has been killed after 5 seconds.
\* A failed start marks the record now, a shutdown has done so before.
HostStopped(r) ==
  /\ Alive(r) /\ pc[r] = "stopping"
  /\ hosts' = hosts \ {Own(r)}
  /\ IF life[r] = "running" THEN Undo(r) ELSE GoTo(r, "deleting") /\ UNCHANGED records
  /\ UNCHANGED <<attempt, todo, target, exists, late, endedBefore>>

\* What a shutdown's disconnect does when the delete command has ended.
\* Fault: it ends as if the tunnel were gone.
FinishAnyway(r, ok) == Exit(r, "clean", "idle")
Finish(r, ok) == Exit(r, IF ok THEN "clean" ELSE "failed", "idle")

\* Whether the record goes when the delete command has ended.
\* Fault: whatever the command said.
ForgetAnyway(ok, removed) == removed
Forget(ok, removed) == ok /\ removed

\* The delete command of the run's own tunnel ends.
Deleted(r, ok, removed) ==
  /\ Alive(r) /\ pc[r] = "deleting"
  /\ Delete(Own(r), ok)
  /\ Remove(Own(r), Forget(ok, removed))
  /\ attempt' = attempt
  /\ IF life[r] = "running" THEN StartFails(r) ELSE Finish(r, ok /\ removed)
  /\ UNCHANGED <<todo, target, hosts, late, endedBefore>>

-----------------------------------------------------------------------------
(* CliLifecycle                                                              *)

\* requestShutdown: a signal, the end of the Session, a top-level failure.  No
\* callback runs between reading the records and the first helper ("look").
\* The first request starts the cleanup that runStation has registered; before
\* that there is none, and the process exits at once.  A second request does not
\* wait.
RequestShutdown(r) ==
  /\ Alive(r) /\ pc[r] # "look"
  /\ \/ /\ life[r] = "running" /\ pc[r] = "connected"
        /\ life' = [life EXCEPT ![r] = "cleaning"]
        /\ pc' = [pc EXCEPT ![r] = "draining"]
        /\ UNCHANGED outcome
     \/ /\ life[r] = "running" /\ pc[r] # "connected"
        /\ Exit(r, "interrupted", pc[r])
     \/ /\ life[r] = "cleaning"
        /\ Exit(r, "forced", pc[r])
  /\ UNCHANGED <<attempt, todo, target, records, exists, hosts, late, endedBefore>>

\* The server has closed: disconnect marks the record and stops the host.
ServerClosed(r, ok) ==
  /\ life[r] = "cleaning" /\ pc[r] = "draining"
  /\ Save(Own(r), "deleting", ok)
  /\ GoTo(r, "stopping")
  /\ UNCHANGED <<attempt, todo, target, exists, hosts, late, endedBefore>>

\* Ten seconds after the first request the run exits whatever it waits for.
\* Fault: the deadline covers only the provider's part of the cleanup.
DeadlineOfDeletion(r) ==
  /\ life[r] = "cleaning" /\ pc[r] = "deleting"
  /\ Exit(r, "forced", pc[r])
  /\ UNCHANGED <<attempt, todo, target, records, exists, hosts, late, endedBefore>>
Deadline(r) ==
  /\ life[r] = "cleaning"
  /\ Exit(r, "forced", pc[r])
  /\ UNCHANGED <<attempt, todo, target, records, exists, hosts, late, endedBefore>>

\* SIGKILL, a crash of the process.
Crash(r) ==
  /\ Alive(r)
  /\ Exit(r, "crashed", pc[r])
  /\ UNCHANGED <<attempt, todo, target, records, exists, hosts, late, endedBefore>>

\* A helper that has outlived its run ends, with or without its effect.
LateReply(r, ok) ==
  /\ life[r] = "exited" /\ pc[r] \in {"creating", "deleting", "recovering"}
  /\ pc' = [pc EXCEPT ![r] = "idle"]
  /\ exists' = IF ~ok THEN exists
               ELSE CASE pc[r] = "creating"   -> exists \cup {Own(r)}
                      [] pc[r] = "deleting"   -> exists \ {Own(r)}
                      [] pc[r] = "recovering" -> exists \ {target[r]}
  /\ late' = IF ok /\ pc[r] = "creating" THEN late \cup {Own(r)} ELSE late
  /\ UNCHANGED <<life, outcome, attempt, todo, target, records, hosts, endedBefore>>

-----------------------------------------------------------------------------
Next ==
  \/ \E r \in Run :
       \/ Start(r)
       \/ GiveUp(r)
       \/ HostStopped(r)
       \/ RequestShutdown(r)
       \/ Deadline(r)
       \/ Crash(r)
       \/ \E t \in Tunnel : SkipRecord(r, t)
       \/ \E ok \in BOOLEAN :
            \/ \E t \in Tunnel : RecoverRecord(r, t, ok)
            \/ Plan(r, ok)
            \/ Created(r, ok)
            \/ PortCreated(r, ok)
            \/ ServerClosed(r, ok)
            \/ LateReply(r, ok)
            \/ \E more \in BOOLEAN :
                 \/ Recovered(r, ok, more)
                 \/ HostReady(r, ok, more)
                 \/ Deleted(r, ok, more)
  \/ \E t \in Tunnel : HostEnds(t)

Spec == Init /\ [][Next]_vars
-----------------------------------------------------------------------------
(* Properties                                                                *)

Waits == {"idle", "look", "recovering", "login", "creating", "porting", "hosting",
          "connected", "draining", "stopping", "deleting"}

TypeOK ==
  /\ life \in [Run -> {"absent", "running", "cleaning", "exited"}]
  /\ outcome \in [Run -> {"none", "failed", "interrupted", "forced", "crashed", "clean"}]
  /\ pc \in [Run -> Waits]
  /\ attempt \in [Run -> {0, 1, 2}]
  /\ todo \in [Run -> SUBSET Tunnel]
  /\ target \in [Run -> Tunnel \cup {NoTunnel}]
  /\ records \in [Tunnel -> {"none", "creating", "ready", "deleting"}]
  /\ exists \subseteq Tunnel
  /\ hosts \subseteq Tunnel
  /\ late \subseteq Tunnel
  /\ endedBefore \in [Run -> SUBSET Run]

\* No other run's recovery ever touches the tunnel that a connected run uses: it
\* exists and its record says "ready", whatever other runs list, mark and delete
\* around it (ADR 0003: records of another live run are left untouched).
ConnectedTunnelIsSafe ==
  \A r \in Run : life[r] = "running" /\ pc[r] = "connected" =>
    Own(r) \in exists /\ records[Own(r)] = "ready"

\* Every tunnel at the provider has its record on disk, through crashes, failed
\* saves and concurrent recoveries, with one exception: a create command that
\* outlives its run can come after the recovery of that run.
OnlyLateTunnelsUnrecorded ==
  \A t \in exists : records[t] = "none" => t \in late

\* A run that creates a tunnel has first got rid of every tunnel of the runs that
\* had ended when it started, except those it could not know of and those whose
\* process id is in use again.
RecoveredBeforeCreate ==
  \A r \in Run : Alive(r) /\ attempt[r] > 0 =>
    \A t \in exists : Owner(t) \in endedBefore[r] => t \in late \/ Owner(t) \in ReusedPid

\* A shutdown that ends in order leaves no host process of the run, and of all the
\* tunnels the run ever planned only one of an earlier attempt: startHost failed, so
\* did the deletion in its catch, and connect tried again after a new login.  That
\* one keeps its record for the next run, which disconnect, knowing only the tunnel
\* it closes, does not touch.
CleanShutdownCleansUp ==
  \A r \in Run : outcome[r] = "clean" =>
    /\ \A t \in hosts : Owner(t) # r
    /\ \A t \in exists : Owner(t) = r => t # Own(r) /\ records[t] # "none"

\* ADR 0003: "Normal Session completion, handled termination signals, startup
\* failures after tunnel creation, and top-level failures use one idempotent CLI
\* cleanup coordinator.  The first shutdown request [...] gives the complete
\* cleanup operation ten seconds."  So a first request, while nothing fails, does
\* not leave the tunnel behind.
FirstRequestCleansUp ==
  \A r \in Run : outcome[r] = "interrupted" => Own(r) \notin exists

-----------------------------------------------------------------------------
(* Fairness: the deadline timer fires.  No helper command need ever end.      *)

FairSpec == Spec /\ \A r \in Run : WF_vars(Deadline(r))

\* A shutdown that has begun ends, though the server, the host or the provider
\* never answers.
ShutdownEnds == \A r \in Run : life[r] = "cleaning" ~> life[r] = "exited"
=============================================================================
