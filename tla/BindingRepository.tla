------------------------- MODULE BindingRepository --------------------------
(***************************************************************************)
(* FileBindingRepository: the Device Key bindings in one file that several *)
(* mobily processes read, change and replace without a lock (a running     *)
(* Station, and `mobily --revoke-binding`; cli/src/bindings.ts).           *)
(*                                                                         *)
(* Within a process an operation runs to its end.  Between processes it    *)
(* interleaves at its file system calls, so an action is one such call and *)
(* the code up to the next.  A file system call may fail where the code    *)
(* has an error path.                                                      *)
(***************************************************************************)
EXTENDS Naturals

CONSTANTS
  Process,
  Binding,     \* deviceBindingIds
  NoBinding,
  Faults,      \* the file accesses that may fail: "read", "write"
  Alone,       \* operations of different processes do not overlap
  MaxVersion   \* bound: how often the file is replaced

ASSUME NoBindingAssumption == NoBinding \notin Binding
ASSUME FaultsAssumption == Faults \subseteq {"read", "write"}
ASSUME AloneAssumption == Alone \in BOOLEAN
ASSUME BoundAssumption == MaxVersion \in Nat

VARIABLES
  file,      \* the bindings in the file
  version,   \* its mtime; 0 when there is no file
  bindings,  \* the map in the memory of each process
  loaded,    \* lastLoadedMtimeMs of each process
  pc,        \* what each process does next
  op,        \* the operation it executes
  id,        \* the deviceBindingId it is about
  edited,    \* whether the operation has changed the map
  previous,  \* whether the binding was in the map before
  temporary, \* the contents of its temporary file
  answer,    \* what its last operation has returned
  revoked,   \* history: bindings whose revocation was reported as done
  saved,     \* history: bindings whose pairing was reported as done
  past       \* history: what was revoked and saved when the operation began,
             \* and has not been paired or revoked since

fileVars    == <<file, version>>
memoryVars  == <<bindings, loaded>>
callVars    == <<op, id, past>>
editVars    == <<edited, previous, temporary>>
historyVars == <<revoked, saved>>
vars == <<fileVars, memoryVars, callVars, editVars, historyVars, pc, answer>>

Busy(p) == pc[p] \notin {"off", "idle"}

\* The outcomes of a file access of a kind.
Outcomes(kind) == IF kind \in Faults THEN BOOLEAN ELSE {TRUE}

Init ==
  /\ file = {}
  /\ version = 0
  /\ bindings = [p \in Process |-> {}]
  /\ loaded = [p \in Process |-> 0]
  /\ pc = [p \in Process |-> "off"]
  /\ op = [p \in Process |-> "none"]
  /\ id = [p \in Process |-> NoBinding]
  /\ edited = [p \in Process |-> FALSE]
  /\ previous = [p \in Process |-> FALSE]
  /\ temporary = [p \in Process |-> {}]
  /\ answer = [p \in Process |-> "none"]
  /\ revoked = {}
  /\ saved = {}
  /\ past = [p \in Process |-> [revoked |-> {}, saved |-> {}]]

GoTo(p, step) == pc' = [pc EXCEPT ![p] = step] /\ UNCHANGED answer

Finish(p, result) ==
  /\ pc' = [pc EXCEPT ![p] = "idle"]
  /\ answer' = [answer EXCEPT ![p] = result]

-----------------------------------------------------------------------------
(* Operations begin                                                          *)

\* o is the operation, b its binding; R and S are what stays revoked and saved.
Begin(p, o, b, step, R, S) ==
  /\ Alone => \A q \in Process : ~Busy(q)
  /\ revoked' = R
  /\ saved' = S
  /\ op' = [op EXCEPT ![p] = o]
  /\ id' = [id EXCEPT ![p] = b]
  /\ past' = [q \in Process |->
                IF q = p THEN [revoked |-> R, saved |-> S]
                ELSE [revoked |-> past[q].revoked \cap R, saved |-> past[q].saved \cap S]]
  /\ edited' = [edited EXCEPT ![p] = FALSE]
  /\ pc' = [pc EXCEPT ![p] = step]
  /\ answer' = [answer EXCEPT ![p] = "none"]
  /\ UNCHANGED <<fileVars, previous, temporary>>

\* A new process: the constructor loads.
Start(p) ==
  /\ pc[p] = "off"
  /\ Begin(p, "start", NoBinding, "read", revoked, saved)
  /\ bindings' = [bindings EXCEPT ![p] = {}]
  /\ loaded' = [loaded EXCEPT ![p] = 0]

Get(p, b) ==
  /\ pc[p] = "idle"
  /\ Begin(p, "get", b, "stat", revoked, saved)
  /\ UNCHANGED memoryVars

Save(p, b) ==
  /\ pc[p] = "idle" /\ version < MaxVersion
  /\ Begin(p, "save", b, "stat", revoked \ {b}, saved)
  /\ UNCHANGED memoryVars

Revoke(p, b) ==
  /\ pc[p] = "idle" /\ version < MaxVersion
  /\ Begin(p, "revoke", b, "stat", revoked, saved \ {b})
  /\ UNCHANGED memoryVars

-----------------------------------------------------------------------------
(* refreshIfChanged and load                                                 *)

\* Fault: a process that has loaded the file does not look again.
StatOnce(p, ok) ==
  /\ pc[p] = "stat"
  /\ GoTo(p, IF ~ok \/ loaded[p] # 0 THEN "act" ELSE "read")
  /\ UNCHANGED <<fileVars, memoryVars, callVars, editVars, historyVars>>

\* The mtime decides whether the file is read again.
Stat(p, ok) ==
  /\ pc[p] = "stat"
  /\ GoTo(p, IF ~ok \/ version = loaded[p] THEN "act" ELSE "read")
  /\ UNCHANGED <<fileVars, memoryVars, callVars, editVars, historyVars>>

\* A refresh that cannot read or stat the file keeps what it has; a constructor
\* throws, and the process ends.
Unreadable(p) == GoTo(p, IF op[p] = "start" THEN "off" ELSE "act")

\* No file is an empty map.  Otherwise the contents are read, then, in another call, the mtime.
Read(p, ok) ==
  /\ pc[p] = "read"
  /\ bindings' = [bindings EXCEPT ![p] = IF ok \/ version = 0 THEN file ELSE @]
  /\ loaded' = [loaded EXCEPT ![p] = IF version = 0 THEN 0 ELSE @]
  /\ \/ version = 0 /\ GoTo(p, "act")
     \/ version > 0 /\ ok /\ GoTo(p, "stamp")
     \/ version > 0 /\ ~ok /\ Unreadable(p)
  /\ UNCHANGED <<fileVars, callVars, editVars, historyVars>>

Stamp(p, ok) ==
  /\ pc[p] = "stamp"
  /\ loaded' = [loaded EXCEPT ![p] = IF ok THEN version ELSE @]
  /\ IF ok THEN GoTo(p, "act") ELSE Unreadable(p)
  /\ UNCHANGED <<fileVars, bindings, callVars, editVars, historyVars>>

-----------------------------------------------------------------------------
(* What the operation does once the map has been refreshed                   *)

Answer(p) ==
  /\ \/ op[p] = "start" /\ Finish(p, "done")
     \/ op[p] = "get" /\ Finish(p, IF id[p] \in bindings[p] THEN "found" ELSE "missing")
     \/ op[p] = "revoke" /\ ~edited[p] /\ id[p] \notin bindings[p] /\ Finish(p, "unknown")
  /\ UNCHANGED <<bindings, editVars>>

\* The map changes first; persist lists it, and so refreshes it once more.
Edit(p) ==
  /\ ~edited[p]
  /\ op[p] = "save" \/ (op[p] = "revoke" /\ id[p] \in bindings[p])
  /\ previous' = [previous EXCEPT ![p] = id[p] \in bindings[p]]
  /\ bindings' = [bindings EXCEPT ![p] = IF op[p] = "save" THEN @ \cup {id[p]}
                                         ELSE @ \ {id[p]}]
  /\ edited' = [edited EXCEPT ![p] = TRUE]
  /\ GoTo(p, "stat")
  /\ UNCHANGED temporary

List(p) ==
  /\ edited[p]
  /\ temporary' = [temporary EXCEPT ![p] = bindings[p]]
  /\ GoTo(p, "write")
  /\ UNCHANGED <<bindings, edited, previous>>

Act(p) ==
  /\ pc[p] = "act"
  /\ Answer(p) \/ Edit(p) \/ List(p)
  /\ UNCHANGED <<fileVars, loaded, callVars, historyVars>>

-----------------------------------------------------------------------------
(* persist                                                                   *)

\* Fault: the binding is dropped even if it was there before.
RollBackToNothing(p) ==
  /\ bindings' = [bindings EXCEPT ![p] = @ \ {id[p]}]
  /\ Finish(p, "failed")
\* persist has thrown: the map gets back what it had of this binding.
RollBack(p) ==
  /\ bindings' = [bindings EXCEPT ![p] = IF previous[p] THEN @ \cup {id[p]} ELSE @ \ {id[p]}]
  /\ Finish(p, "failed")

\* The temporary file; the calls that make the directory fail here as well.
Write(p, ok) ==
  /\ pc[p] = "write"
  /\ IF ok THEN GoTo(p, "rename") /\ UNCHANGED bindings ELSE RollBack(p)
  /\ UNCHANGED <<fileVars, loaded, callVars, editVars, historyVars>>

\* Fault: the new mtime is taken over before the last call that may fail.
RenameAndStamp(p, ok) ==
  /\ pc[p] = "rename"
  /\ IF ok THEN file' = temporary[p] /\ version' = version + 1 /\ GoTo(p, "restamp")
                /\ loaded' = [loaded EXCEPT ![p] = version + 1] /\ UNCHANGED bindings
     ELSE RollBack(p) /\ UNCHANGED <<fileVars, loaded>>
  /\ UNCHANGED <<callVars, editVars, historyVars>>
Rename(p, ok) ==
  /\ pc[p] = "rename"
  /\ IF ok THEN file' = temporary[p] /\ version' = version + 1 /\ GoTo(p, "restamp")
                /\ UNCHANGED bindings
     ELSE RollBack(p) /\ UNCHANGED fileVars
  /\ UNCHANGED <<loaded, callVars, editVars, historyVars>>

\* chmod and stat of the new file.
Restamp(p, ok) ==
  /\ pc[p] = "restamp"
  /\ loaded' = [loaded EXCEPT ![p] = IF ok THEN version ELSE @]
  /\ IF ok THEN Finish(p, "done") /\ UNCHANGED bindings ELSE RollBack(p)
  /\ saved' = IF ok /\ op[p] = "save" THEN saved \cup {id[p]} ELSE saved
  /\ revoked' = IF ok /\ op[p] = "revoke" THEN revoked \cup {id[p]} ELSE revoked
  /\ UNCHANGED <<fileVars, callVars, editVars>>

\* The process ends, in the middle of an operation or not.
Crash(p) ==
  /\ pc[p] # "off"
  /\ pc' = [pc EXCEPT ![p] = "off"]
  /\ UNCHANGED <<fileVars, memoryVars, callVars, editVars, historyVars, answer>>

-----------------------------------------------------------------------------
Next ==
  \E p \in Process :
    \/ Start(p) \/ Act(p) \/ Crash(p)
    \/ \E b \in Binding : Get(p, b) \/ Save(p, b) \/ Revoke(p, b)
    \/ \E ok \in Outcomes("read") : Stat(p, ok) \/ Read(p, ok) \/ Stamp(p, ok)
    \/ \E ok \in Outcomes("write") : Write(p, ok) \/ Rename(p, ok) \/ Restamp(p, ok)

Spec == Init /\ [][Next]_vars
-----------------------------------------------------------------------------
(* Properties                                                                *)

TypeOK ==
  /\ file \subseteq Binding
  /\ version \in Nat
  /\ bindings \in [Process -> SUBSET Binding]
  /\ loaded \in [Process -> Nat]
  /\ pc \in [Process -> {"off", "idle", "stat", "read", "stamp", "act", "write", "rename",
                         "restamp"}]
  /\ op \in [Process -> {"none", "start", "get", "save", "revoke"}]
  /\ id \in [Process -> Binding \cup {NoBinding}]
  /\ edited \in [Process -> BOOLEAN]
  /\ previous \in [Process -> BOOLEAN]
  /\ temporary \in [Process -> SUBSET Binding]
  /\ answer \in [Process -> {"none", "done", "found", "missing", "unknown", "failed"}]
  /\ revoked \subseteq Binding
  /\ saved \subseteq Binding
  /\ past \in [Process -> [revoked : SUBSET Binding, saved : SUBSET Binding]]

\* "A running Station must honor `--revoke-binding` without a restart": once a
\* revocation has been reported as done, no later lookup in any process finds the
\* binding, unless it is paired again.
RevocationHonored ==
  \A p \in Process : answer[p] = "found" => id[p] \notin past[p].revoked

\* A pairing reported as done is found by every later lookup in any process, also
\* after a restart and after other operations on the file have failed half-way.
PairingKept ==
  \A p \in Process : answer[p] = "missing" => id[p] \notin past[p].saved

\* Between operations a map that counts as up to date is what the file says, also
\* after a persist that failed before or after its rename.
FreshMapIsFile ==
  \A p \in Process : pc[p] = "idle" /\ loaded[p] = version => bindings[p] = file
=============================================================================
