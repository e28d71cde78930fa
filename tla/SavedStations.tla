---------------------------- MODULE SavedStations ----------------------------
(***************************************************************************)
(* What the phone keeps of its Stations: the encrypted list of pairing      *)
(* records, the selected one, the record of older releases, and the Device  *)
(* Keys (android/src/auth/storage.ts, deviceKey.ts).                        *)
(*                                                                         *)
(* Every function of storage.ts is a chain of awaits on SecureStore.  A     *)
(* task runs one function; between two steps of a task, steps of other      *)
(* tasks happen.  Nothing orders the tasks: no lock, no queue.              *)
(***************************************************************************)
EXTENDS Naturals, Sequences, FiniteSets

CONSTANTS Task,      \* functions that can be under way at the same time
          Binding,   \* device binding ids
          None

VARIABLES
  list,      \* mobily.pairings.v2: a sequence of records, or None
  selected,  \* mobily.selected-pairing.v2
  legacy,    \* mobily.pairing: the record of an older release, or None
  keys,      \* binding ids that have a Device Key in the Keystore
  task,      \* the functions under way
  trouble    \* history: what went wrong in storage (see Troubles)

storeVars == <<list, selected, legacy, keys, task, trouble>>

\* A record is what tells Stations apart, its binding id, and whether the phone
\* paired or connected with it within the last two days.
Record == [id : Binding, fresh : BOOLEAN]
ASSUME StoreAssumption == None \notin Binding /\ None \notin Record /\ None \notin Seq(Record)

\* "race": a list was written that was computed from an older list;
\* "halfSaved": savePairing wrote the list but not the selection;
\* "halfMigrated": the old record was copied, but not selected or deleted.
Troubles == {"race", "halfSaved", "halfMigrated"}

NoTask == [kind |-> "none", at |-> "idle", id |-> None, seen |-> <<>>, base |-> None, gone |-> {}]
Started(kind, id) == [NoTask EXCEPT !.kind = kind, !.at = "list", !.id = id]

Free(t) == task[t] = NoTask
At(t, place) == task[t].at = place
Goes(t, me) == task' = [task EXCEPT ![t] = me]

Ids(ps) == {ps[i].id : i \in DOMAIN ps}
Stored == IF list = None THEN {} ELSE Ids(list)
Stale(ps) == {ps[i].id : i \in {j \in DOMAIN ps : ~ps[j].fresh}}

\* The records that stay, in their order.
Increasing(f) == \A i, j \in DOMAIN f : i < j => f[i] < f[j]
Without(ps, gone) ==
  LET stay == {i \in DOMAIN ps : ps[i].id \notin gone}
      nth == CHOOSE f \in [1..Cardinality(stay) -> stay] :
               Increasing(f) /\ {f[k] : k \in DOMAIN f} = stay
  IN [k \in DOMAIN nth |-> ps[nth[k]]]

\* Fault: the last record gives way to the new one.
PutLast(ps, record) == IF ps = <<>> THEN <<record>> ELSE [ps EXCEPT ![Len(ps)] = record]
Put(ps, record) ==
  IF record.id \in Ids(ps)
  THEN [i \in DOMAIN ps |-> IF ps[i].id = record.id THEN record ELSE ps[i]]
  ELSE Append(ps, record)

\* The next await of me, once listPairings has returned ps.  "end" and "failed"
\* are the places where the caller goes on.
Rewrite(me, ps) == [me EXCEPT !.at = "write", !.seen = ps]
\* Fault: the keys are deleted, the list is not written.
DropOnlyKeys(me, ps, gone) == [me EXCEPT !.at = "dropKeys", !.gone = gone]
Drop(me, ps, gone) == [Rewrite(me, Without(ps, gone)) EXCEPT !.gone = gone]
AfterList(me, ps) ==
  LET here == me.id \in Ids(ps)
  IN CASE me.kind = "save" -> Rewrite(me, Put(ps, [id |-> me.id, fresh |-> TRUE]))
       [] me.kind = "mark" /\ here -> Rewrite(me, Put(ps, [id |-> me.id, fresh |-> TRUE]))
       [] me.kind = "remove" /\ here -> Drop(me, ps, {me.id})
       [] me.kind = "prune" /\ Stale(ps) # {} -> Drop(me, ps, Stale(ps))
       [] me.kind = "select" /\ here -> [me EXCEPT !.at = "select"]
       [] me.kind \in {"load", "clear"} /\ ps # <<>> -> [me EXCEPT !.at = "selected", !.seen = ps]
       [] me.kind = "home" /\ ps # <<>> -> [me EXCEPT !.at = "stations"]
       [] me.kind = "select" -> [me EXCEPT !.at = "failed"]
       [] OTHER -> [me EXCEPT !.at = "end", !.id = None]

\* History: a list that will be written is remembered with the one it comes from.
Based(me, ps) == IF me.at = "write" THEN [me EXCEPT !.base = ps] ELSE me

\* readPairings: the list, when there is one.
ReadList(t) ==
  /\ At(t, "list")
  /\ Goes(t, IF list = None THEN [task[t] EXCEPT !.at = "legacy"]
             ELSE Based(AfterList(task[t], list), list))
  /\ UNCHANGED <<list, selected, legacy, keys, trouble>>

\* migrateLegacyPairing reads the record of an older release.
ReadLegacy(t) ==
  /\ At(t, "legacy")
  /\ Goes(t, IF legacy = None THEN AfterList(task[t], <<>>)
             ELSE [task[t] EXCEPT !.at = "migrate", !.seen = <<legacy>>])
  /\ UNCHANGED <<list, selected, legacy, keys, trouble>>

Raced(base) == IF list = base THEN trouble ELSE trouble \cup {"race"}

MigrateList(t) ==
  /\ At(t, "migrate")
  /\ list' = task[t].seen
  /\ trouble' = Raced(None)
  /\ Goes(t, [task[t] EXCEPT !.at = "migrateSelect"])
  /\ UNCHANGED <<selected, legacy, keys>>

MigrateSelection(t) ==
  /\ At(t, "migrateSelect")
  /\ selected' = task[t].seen[1].id
  /\ Goes(t, [task[t] EXCEPT !.at = "migrateDelete"])
  /\ UNCHANGED <<list, legacy, keys, trouble>>

MigrateDelete(t) ==
  /\ At(t, "migrateDelete")
  /\ legacy' = None
  /\ Goes(t, LET ps == task[t].seen IN Based(AfterList([task[t] EXCEPT !.seen = <<>>], ps), ps))
  /\ UNCHANGED <<list, selected, keys, trouble>>

\* writePairings, and what each function awaits next.
AfterWrite(me) ==
  CASE me.kind = "save" -> [me EXCEPT !.at = "select", !.seen = <<>>]
    [] me.kind = "mark" -> [me EXCEPT !.at = "end", !.seen = <<>>]
    [] OTHER -> [me EXCEPT !.at = "selected"]
WriteList(t) ==
  /\ At(t, "write")
  /\ list' = task[t].seen
  /\ trouble' = Raced(task[t].base)
  /\ Goes(t, [AfterWrite(task[t]) EXCEPT !.base = None])
  /\ UNCHANGED <<selected, legacy, keys>>

\* getItem of the selection: loadPairing falls back to the first record;
\* removePairing and pruneStalePairings must replace a selection that is gone.
\* clearPairing goes on to remove what loadPairing found.
Found(ps) == IF selected \in Ids(ps) THEN selected ELSE ps[1].id
AfterSelected(me) ==
  CASE me.kind = "load" -> [me EXCEPT !.at = "end", !.id = Found(me.seen), !.seen = <<>>]
    [] me.kind = "clear" -> Started("remove", Found(me.seen))
    [] selected \in me.gone -> [me EXCEPT !.at = "reselect"]
    [] OTHER -> [me EXCEPT !.at = "dropKeys", !.seen = <<>>]
ReadSelected(t) ==
  /\ At(t, "selected")
  /\ Goes(t, AfterSelected(task[t]))
  /\ UNCHANGED <<list, selected, legacy, keys, trouble>>

Reselect(t) ==
  /\ At(t, "reselect")
  /\ selected' = IF task[t].seen = <<>> THEN None ELSE task[t].seen[1].id
  /\ Goes(t, [task[t] EXCEPT !.at = "dropKeys", !.seen = <<>>])
  /\ UNCHANGED <<list, legacy, keys, trouble>>

\* setItem of the selection, the last step of savePairing and selectPairing.
WriteSelected(t) ==
  /\ At(t, "select")
  /\ selected' = task[t].id
  /\ Goes(t, [task[t] EXCEPT !.at = "end"])
  /\ UNCHANGED <<list, legacy, keys, trouble>>

\* The callers of removePairing and pruneStalePairings delete the Device Keys
\* of the records that were removed; a key that cannot be deleted is left.
DropKeys(t) ==
  /\ At(t, "dropKeys")
  /\ \E deleted \in SUBSET task[t].gone : keys' = keys \ deleted
  /\ Goes(t, [task[t] EXCEPT !.at = "end", !.gone = {}])
  /\ UNCHANGED <<list, selected, legacy, trouble>>

\* A SecureStore call of t rejects.  migrateLegacyPairing catches it and returns
\* an empty list; the other functions reject.
Migrating(t) == task[t].at \in {"migrate", "migrateSelect", "migrateDelete"}
Storing(t) == task[t].at \in {"list", "legacy", "write", "selected", "reselect", "select"}
StoreFails(t) ==
  /\ \/ /\ Migrating(t)
        /\ Goes(t, AfterList([task[t] EXCEPT !.seen = <<>>], <<>>))
        /\ trouble' = IF At(t, "migrate") THEN trouble ELSE trouble \cup {"halfMigrated"}
     \/ /\ Storing(t)
        /\ Goes(t, [NoTask EXCEPT !.kind = task[t].kind, !.at = "failed", !.id = task[t].id])
        /\ trouble' = IF At(t, "select") /\ task[t].kind = "save"
                      THEN trouble \cup {"halfSaved"} ELSE trouble
  /\ UNCHANGED <<list, selected, legacy, keys>>

StoreStep(t) ==
  \/ ReadList(t) \/ ReadLegacy(t) \/ WriteList(t) \/ ReadSelected(t) \/ Reselect(t) \/ WriteSelected(t)
  \/ DropKeys(t) \/ MigrateList(t) \/ MigrateSelection(t) \/ MigrateDelete(t)

\* Two days without a connection: every record is past its retention.
Ages ==
  /\ \A t \in Task : Free(t)
  /\ list' = IF list = None THEN None ELSE [i \in DOMAIN list |-> [list[i] EXCEPT !.fresh = FALSE]]
  /\ legacy' = IF legacy = None THEN None ELSE [legacy EXCEPT !.fresh = FALSE]
  /\ UNCHANGED <<selected, keys, task, trouble>>

Kinds == {"none", "pair", "save", "mark", "remove", "prune", "show", "select", "load", "clear", "home"}
Places ==
  {"idle", "create", "sign", "post", "reply", "cleanup", "list", "legacy", "migrate", "migrateSelect",
   "migrateDelete", "write", "selected", "reselect", "select", "dropKeys", "stations", "end", "failed"}
TaskRecord ==
  [kind : Kinds, at : Places, id : Binding \cup {None}, seen : Seq(Record),
   base : Seq(Record) \cup {None}, gone : SUBSET Binding]
StoreTypeOK ==
  /\ task \in [Task -> TaskRecord]
  /\ list \in {None} \cup Seq(Record)
  /\ selected \in Binding \cup {None}
  /\ legacy \in Record \cup {None}
  /\ keys \subseteq Binding
  /\ trouble \subseteq Troubles
=============================================================================
