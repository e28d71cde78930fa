------------------------------- MODULE Pairing -------------------------------
(***************************************************************************)
(* Pairing a phone with a Station: the scanner (ScannerScreen.tsx), the      *)
(* pairing request of the phone (auth/pairing.ts), its answer by the         *)
(* Station (cli/src/auth.ts), and the functions of the phone that change the *)
(* saved Stations meanwhile: the list of Stations, the terminal, the         *)
(* connection.                                                               *)
(***************************************************************************)
EXTENDS SavedStations, DeviceKey

CONSTANT MaxFaults  \* bound: storage calls that reject
ASSUME FaultAssumption == MaxFaults \in Nat

VARIABLES
  screen,   \* what the phone shows
  job,      \* the task whose result the mounted scanner waits for, or None
  conn,     \* binding id of the current connection, or None
  code,     \* the Station's pairing code
  bound,    \* binding ids of the Station's saved bindings
  faults,
  kept      \* history: ids whose record was saved and that nobody removed

phoneVars == <<screen, job, conn>>
stationVars == <<code, bound>>
vars == <<storeVars, phoneVars, stationVars, faults, kept>>

Screens == {"home", "stations", "scanning", "confirm", "pairing", "error", "terminal"}
Scanner == {"scanning", "confirm", "pairing", "error"}

\* HomeScreen lists the saved Stations when the app starts: nothing, a record
\* of an older release, or a list of one that the Station knows.
Launched == {[t \in Task |-> IF t = first THEN Started("home", None) ELSE NoTask] : first \in Task}
Init ==
  /\ task \in Launched
  /\ screen = "home" /\ job = None /\ conn = None
  /\ code = "live" /\ faults = 0 /\ trouble = {}
  /\ \/ list = None /\ legacy = None /\ selected = None /\ kept = {}
     \/ \E old \in Binding :
          /\ kept = {old}
          /\ \/ list = None /\ selected = None /\ \E fresh \in BOOLEAN : legacy = [id |-> old, fresh |-> fresh]
             \/ list = <<[id |-> old, fresh |-> TRUE]>> /\ selected = old /\ legacy = None
  /\ keys = kept /\ bound = kept

(* ---- The pairing request ---- *)

Fails(me) == [me EXCEPT !.kind = "pair", !.at = "cleanup"]

\* The user holds the camera over the QR code; decodePairingPayload refuses one
\* that has expired.
Scan ==
  /\ screen = "scanning" /\ code # "expired"
  /\ screen' = "confirm"
  /\ UNCHANGED <<storeVars, job, conn, stationVars, faults, kept>>

\* "Cancel" and "Scan again".
RetryScanning ==
  /\ screen \in {"confirm", "error"}
  /\ screen' = "scanning"
  /\ UNCHANGED <<storeVars, job, conn, stationVars, faults, kept>>

ConfirmPairing(t) ==
  /\ screen = "confirm" /\ Free(t)
  /\ screen' = "pairing" /\ job' = t
  /\ Goes(t, [NoTask EXCEPT !.kind = "pair", !.at = "create"])
  /\ UNCHANGED <<list, selected, legacy, keys, trouble, conn, stationVars, faults, kept>>

\* A fresh binding id, and a Device Key under it.
FreshId(id) == id \notin keys \cup bound \cup Stored \cup kept /\ \A t \in Task : task[t].id # id
CreateKey(t, id) ==
  /\ At(t, "create") /\ FreshId(id)
  /\ keys' = KeyCreated(keys, id)
  /\ Goes(t, [task[t] EXCEPT !.at = "sign", !.id = id])
  /\ UNCHANGED <<list, selected, legacy, trouble, phoneVars, stationVars, faults, kept>>

\* Another version, no usable biometrics, or the key cannot be made.
PairingRefused(t) ==
  /\ At(t, "create")
  /\ Goes(t, [task[t] EXCEPT !.at = "failed"])
  /\ UNCHANGED <<list, selected, legacy, keys, trouble, phoneVars, stationVars, faults, kept>>

\* The Device Key signs the proof; without a signature the pairing fails.
SignProof(t) ==
  /\ At(t, "sign")
  /\ \E outcome \in Sign(keys, task[t].id) :
       Goes(t, IF outcome = "signature" THEN [task[t] EXCEPT !.at = "post"] ELSE Fails(task[t]))
  /\ UNCHANGED <<list, selected, legacy, keys, trouble, phoneVars, stationVars, faults, kept>>

\* Fault: the code is burned, and the answer given, before the binding is saved.
PairUnsaved(t) ==
  /\ At(t, "post") /\ code = "live"
  /\ \/ bound' = bound \cup {task[t].id} /\ faults' = faults
     \/ faults < MaxFaults /\ faults' = faults + 1 /\ bound' = bound
  /\ code' = "burned"
  /\ Goes(t, [task[t] EXCEPT !.at = "reply"])
  /\ UNCHANGED <<list, selected, legacy, keys, trouble, phoneVars, kept>>

\* Auth.pair with a good code: the binding is saved, then the code is burned.
Pair(t) ==
  /\ At(t, "post") /\ code = "live"
  /\ bound' = bound \cup {task[t].id}
  /\ code' = "burned"
  /\ Goes(t, [task[t] EXCEPT !.at = "reply"])
  /\ UNCHANGED <<list, selected, legacy, keys, trouble, phoneVars, faults, kept>>

\* Auth.pair whose save throws: the code stays usable, the answer is 500.  The
\* file may have the binding all the same (BindingRepository).
PairNotStored(t) ==
  /\ At(t, "post") /\ code = "live" /\ faults < MaxFaults
  /\ bound' \in {bound, bound \cup {task[t].id}}
  /\ faults' = faults + 1
  /\ Goes(t, Fails(task[t]))
  /\ UNCHANGED <<list, selected, legacy, keys, trouble, phoneVars, code, kept>>

\* The request is refused (a code that is burned or expired), or it is lost.
RequestFails(t) ==
  /\ At(t, "post")
  /\ Goes(t, Fails(task[t]))
  /\ UNCHANGED <<list, selected, legacy, keys, trouble, phoneVars, stationVars, faults, kept>>

\* The answer 200 arrives, and savePairing begins; or it is lost on the way.
Answered(t) ==
  /\ At(t, "reply")
  /\ Goes(t, Started("save", task[t].id))
  /\ UNCHANGED <<list, selected, legacy, keys, trouble, phoneVars, stationVars, faults, kept>>

AnswerLost(t) ==
  /\ At(t, "reply")
  /\ Goes(t, Fails(task[t]))
  /\ UNCHANGED <<list, selected, legacy, keys, trouble, phoneVars, stationVars, faults, kept>>

\* fail(): the Device Key is deleted, and the deletion may fail.
CleanUp(t) ==
  /\ At(t, "cleanup")
  /\ keys' \in KeyDeleted(keys, task[t].id)
  /\ Goes(t, [task[t] EXCEPT !.at = "failed"])
  /\ UNCHANGED <<list, selected, legacy, trouble, phoneVars, stationVars, faults, kept>>

(* ---- What follows each function of the store ---- *)

\* A Station screen that gets the focus prunes the list; a terminal that is
\* mounted loads the selected Station.
ShowStations(t) == screen' = "stations" /\ job' = None /\ Goes(t, Started("prune", None))
ShowTerminal(t) == screen' = "terminal" /\ job' = None /\ Goes(t, Started("load", None))
Ends(t) == Goes(t, NoTask)

Paired(t) ==
  /\ task[t].kind = "save" /\ At(t, "end")
  /\ ShowTerminal(t)
  /\ UNCHANGED <<list, selected, legacy, keys, trouble, conn, stationVars, faults, kept>>

PairingFailed(t) ==
  /\ task[t].kind \in {"pair", "save"} /\ At(t, "failed")
  /\ IF task[t].kind = "save" THEN Goes(t, Fails(task[t])) /\ UNCHANGED <<screen, job>>
     ELSE /\ Ends(t)
          /\ screen' = IF job = t THEN "error" ELSE screen
          /\ job' = IF job = t THEN None ELSE job
  /\ UNCHANGED <<list, selected, legacy, keys, trouble, conn, stationVars, faults, kept>>

\* HomeScreen goes to the list of Stations when there is one, else to the scanner.
HomeDone(t) ==
  /\ task[t].kind = "home"
  /\ \/ At(t, "stations") /\ ShowStations(t)
     \/ At(t, "end") /\ Ends(t) /\ screen' = "scanning" /\ job' = None
  /\ UNCHANGED <<list, selected, legacy, keys, trouble, conn, stationVars, faults, kept>>

\* The focus effect lists the Stations once it has pruned them.
Pruned(t) ==
  /\ task[t].kind = "prune" /\ At(t, "end")
  /\ Goes(t, Started("show", None))
  /\ UNCHANGED <<list, selected, legacy, keys, trouble, phoneVars, stationVars, faults, kept>>

Listed(t) ==
  /\ task[t].kind = "show" /\ At(t, "end")
  /\ Ends(t)
  /\ UNCHANGED <<list, selected, legacy, keys, trouble, phoneVars, stationVars, faults, kept>>

\* Once a Station is selected, the phone connects and shows the terminal.
Selected(t) ==
  /\ task[t].kind = "select" /\ At(t, "end")
  /\ conn' = task[t].id
  /\ ShowTerminal(t)
  /\ UNCHANGED <<list, selected, legacy, keys, trouble, stationVars, faults, kept>>

Loaded(t) ==
  /\ task[t].kind = "load" /\ At(t, "end")
  /\ conn' = IF task[t].id # None /\ screen = "terminal" THEN task[t].id ELSE conn
  /\ Ends(t)
  /\ UNCHANGED <<list, selected, legacy, keys, trouble, screen, job, stationVars, faults, kept>>

\* "Re-scan QR", done or not: the scanner opens.
Cleared(t) ==
  /\ task[t].kind \in {"clear", "remove"} /\ task[t].at \in {"end", "failed"}
  /\ Ends(t)
  /\ screen' = "scanning" /\ job' = None
  /\ UNCHANGED <<list, selected, legacy, keys, trouble, conn, stationVars, faults, kept>>

\* markConnected is not waited for; a rejection of the others is logged.
Dropped(t) ==
  /\ \/ task[t].kind = "mark" /\ task[t].at \in {"end", "failed"}
     \/ task[t].kind \in {"home", "prune", "show", "select", "load"} /\ At(t, "failed")
  /\ Ends(t)
  /\ UNCHANGED <<list, selected, legacy, keys, trouble, phoneVars, stationVars, faults, kept>>

(* ---- The user, the connection and the Station ---- *)

\* A tap on a Station of the list, which may show one that is not saved any more.
Open(t, id) ==
  /\ screen = "stations" /\ id \in bound /\ Free(t)
  /\ Goes(t, Started("select", id))
  /\ UNCHANGED <<list, selected, legacy, keys, trouble, phoneVars, stationVars, faults, kept>>

AddStation ==
  /\ screen = "stations"
  /\ screen' = "scanning"
  /\ UNCHANGED <<storeVars, job, conn, stationVars, faults, kept>>

\* Back to the list of Stations; a pairing that was under way goes on.
Back(t) ==
  /\ screen \in Scanner \cup {"terminal"} /\ Free(t)
  /\ ShowStations(t)
  /\ UNCHANGED <<list, selected, legacy, keys, trouble, conn, stationVars, faults, kept>>

\* handleReScan of a terminal whose connection has failed.
ReScan(t) ==
  /\ screen = "terminal" /\ conn # None /\ Free(t)
  /\ conn' = None
  /\ Goes(t, Started("clear", None))
  /\ UNCHANGED <<list, selected, legacy, keys, trouble, screen, job, stationVars, faults, kept>>

\* onReady: the Station has let the phone in, and the phone records it.
Ready(t) ==
  /\ conn # None /\ conn \in keys \cap bound /\ Free(t)
  /\ Goes(t, Started("mark", conn))
  /\ UNCHANGED <<list, selected, legacy, keys, trouble, phoneVars, stationVars, faults, kept>>

\* The app is killed and started again: storage and Keystore remain.
Crash ==
  /\ task' \in Launched
  /\ screen' = "home" /\ job' = None /\ conn' = None
  /\ UNCHANGED <<list, selected, legacy, keys, trouble, stationVars, faults, kept>>

CodeExpires ==
  /\ code = "live"
  /\ code' = "expired"
  /\ UNCHANGED <<storeVars, phoneVars, bound, faults, kept>>

\* The Station is started again: generatePairingCode.  A code that has not been
\* used gives way to one just like it.  Bound: while binding ids are left.
NewCode ==
  /\ code # "live" /\ \E id \in Binding : FreshId(id)
  /\ code' = "live"
  /\ UNCHANGED <<storeVars, phoneVars, bound, faults, kept>>

\* The promise to keep a record begins with the list that savePairing writes;
\* a removal by the user or by retention ends it, and so does a savePairing that
\* goes on to fail.
Storage(t) ==
  /\ StoreStep(t)
  /\ kept' = IF ~At(t, "write") THEN kept
             ELSE IF task[t].kind = "save" THEN kept \cup {task[t].id} ELSE kept \ task[t].gone
  /\ UNCHANGED <<phoneVars, stationVars, faults>>
StorageFails(t) ==
  /\ faults < MaxFaults /\ faults' = faults + 1
  /\ StoreFails(t)
  /\ kept' = IF At(t, "select") /\ task[t].kind = "save" THEN kept \ {task[t].id} ELSE kept
  /\ UNCHANGED <<phoneVars, stationVars>>

Request(t) ==
  \/ ConfirmPairing(t) \/ (\E id \in Binding : CreateKey(t, id)) \/ PairingRefused(t)
  \/ SignProof(t) \/ Pair(t) \/ PairNotStored(t) \/ RequestFails(t)
  \/ Answered(t) \/ AnswerLost(t) \/ CleanUp(t)
Continues(t) ==
  \/ Paired(t) \/ PairingFailed(t) \/ HomeDone(t) \/ Pruned(t) \/ Listed(t) \/ Selected(t)
  \/ Loaded(t) \/ Cleared(t) \/ Dropped(t)
User(t) == Back(t) \/ ReScan(t) \/ Ready(t) \/ \E id \in Binding : Open(t, id)

\* A caller goes on as soon as the function it awaits has ended: promises are
\* settled before the next callback runs.
Resumes == \E t \in Task : task[t].at \in {"stations", "end", "failed"}
Callback ==
  \/ \E t \in Task : Request(t) \/ User(t) \/ Storage(t) \/ StorageFails(t)
  \/ Scan \/ RetryScanning \/ AddStation \/ Crash \/ CodeExpires \/ NewCode
  \/ Ages /\ UNCHANGED <<phoneVars, stationVars, faults, kept>>
Next == (\E t \in Task : Continues(t)) \/ (~Resumes /\ Callback)

Spec == Init /\ [][Next]_vars

TypeOK ==
  /\ StoreTypeOK
  /\ screen \in Screens /\ job \in Task \cup {None}
  /\ conn \in Binding \cup {None}
  /\ code \in {"live", "burned", "expired"}
  /\ bound \subseteq Binding /\ kept \subseteq Binding
  /\ faults \in 0..MaxFaults

\* A Station the phone has saved knows the phone: the record is written after
\* the answer 200, and the answer is given after the binding is stored.
SavedIsBound == Stored \subseteq bound

\* A saved Station has its Device Key, through every interleaving, crash and
\* failed call but two: a list written over a newer one may bring back a record
\* whose key was deleted, and fail() deletes the key of a record that
\* savePairing has written when only the selection could not be stored.
SavedHasKey == trouble \cap {"race", "halfSaved"} = {} => Stored \subseteq keys

\* A pairing that has been saved stays saved until the user removes it or it
\* expires, but for two cases: a list written over a newer one, and a migration
\* that failed half-way and returned an empty list.
Legacy == IF legacy = None THEN {} ELSE {legacy.id}
SavedIsKept == trouble \cap {"race", "halfMigrated"} = {} => kept \subseteq Stored \cup Legacy
=============================================================================
