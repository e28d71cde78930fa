---------------------- MODULE BindingRepository_proofs ----------------------
(***************************************************************************)
(* What FileBindingRepository promises when operations of different        *)
(* processes do not overlap and the file can be read: for any processes    *)
(* and bindings, with failing writes and crashes anywhere.                 *)
(***************************************************************************)
EXTENDS BindingRepository, TLAPS

USE NoBindingAssumption, FaultsAssumption, AloneAssumption, BoundAssumption

\* What the run bindings_alone assumes of the world.
Calm == Alone /\ "read" \notin Faults

\* At most one process is inside an operation.
OneAtATime == \A p, q \in Process : Busy(p) /\ Busy(q) => p = q

\* The mtime a process knows is never ahead of the file's.
Versions ==
  /\ version = 0 => file = {}
  /\ \A p \in Process : loaded[p] <= version

\* The map of p after its edit, while the file does not have it yet.
EditOf(p) == IF op[p] = "save" THEN file \cup {id[p]} ELSE file \ {id[p]}

\* What the map of a process is at each step of an operation.
Steps ==
  \A p \in Process :
    /\ pc[p] = "stat" /\ ~edited[p] /\ loaded[p] = version => bindings[p] = file
    /\ pc[p] = "act" /\ ~edited[p] => loaded[p] = version /\ bindings[p] = file
    /\ pc[p] \in {"read", "stamp"} => ~edited[p]
    /\ pc[p] = "stamp" => bindings[p] = file
    /\ pc[p] \in {"write", "rename", "restamp"} => edited[p]
    /\ pc[p] \in {"stat", "act", "write", "rename"} /\ edited[p] =>
         /\ loaded[p] = version
         /\ bindings[p] = EditOf(p)
         /\ previous[p] <=> id[p] \in file
         /\ op[p] = "revoke" => id[p] \in file
    /\ pc[p] \in {"write", "rename"} => temporary[p] = bindings[p]
    /\ pc[p] = "restamp" => /\ loaded[p] # version /\ bindings[p] = file
                            /\ op[p] = "save" => id[p] \in file
                            /\ op[p] = "revoke" => id[p] \notin file
    /\ Busy(p) /\ edited[p] => op[p] \in {"save", "revoke"}
    /\ Busy(p) /\ op[p] \in {"save", "revoke", "get"} => id[p] \in Binding

\* The file agrees with what has been reported as done, and an operation under
\* way is on nobody's list.
Reported ==
  /\ revoked \cap file = {}
  /\ saved \subseteq file
  /\ \A p \in Process :
       /\ Busy(p) /\ op[p] = "save" => id[p] \notin revoked
       /\ Busy(p) /\ op[p] = "revoke" => id[p] \notin saved
       /\ past[p].revoked \subseteq revoked
       /\ past[p].saved \subseteq saved

IndInv ==
  /\ TypeOK /\ OneAtATime /\ Versions /\ Steps /\ Reported
  /\ FreshMapIsFile /\ RevocationHonored /\ PairingKept

-----------------------------------------------------------------------------
LEMMA InitOK == Init => IndInv
BY DEF Init, IndInv, TypeOK, OneAtATime, Versions, Steps, Reported, FreshMapIsFile,
       RevocationHonored, PairingKept, Busy

\* A new process begins with an empty map that counts as unread.
LEMMA StartOK ==
  ASSUME Calm, IndInv, NEW p \in Process, Start(p)
  PROVE  IndInv'
<1> USE DEF Calm, IndInv, Busy, Start, Begin, fileVars
<1>1. TypeOK'
  BY DEF TypeOK
<1>2. OneAtATime'
  BY DEF TypeOK, OneAtATime
<1>3. Versions'
  BY DEF TypeOK, Versions
<1>4. Steps'
  BY DEF TypeOK, OneAtATime, Versions, Steps, EditOf, FreshMapIsFile
<1>5. Reported'
  BY DEF TypeOK, OneAtATime, Steps, EditOf, Reported
<1>6. FreshMapIsFile'
  BY DEF TypeOK, OneAtATime, Versions, Steps, EditOf, FreshMapIsFile
<1>7. RevocationHonored' /\ PairingKept'
  BY DEF TypeOK, Steps, Reported, RevocationHonored, PairingKept
<1> QED
  BY <1>1, <1>2, <1>3, <1>4, <1>5, <1>6, <1>7

\* A lookup begins.
LEMMA GetOK ==
  ASSUME Calm, IndInv, NEW p \in Process, NEW b \in Binding, Get(p, b)
  PROVE  IndInv'
<1> USE DEF Calm, IndInv, Busy, Get, Begin, fileVars, memoryVars
<1>1. TypeOK'
  BY DEF TypeOK
<1>2. OneAtATime'
  BY DEF TypeOK, OneAtATime
<1>3. Versions'
  BY DEF TypeOK, Versions
<1>4. Steps'
  BY DEF TypeOK, OneAtATime, Versions, Steps, EditOf, FreshMapIsFile
<1>5. Reported'
  BY DEF TypeOK, OneAtATime, Steps, EditOf, Reported
<1>6. FreshMapIsFile'
  BY DEF TypeOK, OneAtATime, Versions, Steps, EditOf, FreshMapIsFile
<1>7. RevocationHonored' /\ PairingKept'
  BY DEF TypeOK, Steps, Reported, RevocationHonored, PairingKept
<1> QED
  BY <1>1, <1>2, <1>3, <1>4, <1>5, <1>6, <1>7

\* A pairing begins: what it is about no longer counts as revoked.
LEMMA SaveOK ==
  ASSUME Calm, IndInv, NEW p \in Process, NEW b \in Binding, Save(p, b)
  PROVE  IndInv'
<1> USE DEF Calm, IndInv, Busy, Save, Begin, fileVars, memoryVars
<1>1. TypeOK'
  BY DEF TypeOK
<1>2. OneAtATime'
  BY DEF TypeOK, OneAtATime
<1>3. Versions'
  BY DEF TypeOK, Versions
<1>4. Steps'
  BY DEF TypeOK, OneAtATime, Versions, Steps, EditOf, FreshMapIsFile
<1>5. Reported'
  BY DEF TypeOK, OneAtATime, Steps, EditOf, Reported
<1>6. FreshMapIsFile'
  BY DEF TypeOK, OneAtATime, Versions, Steps, EditOf, FreshMapIsFile
<1>7. RevocationHonored' /\ PairingKept'
  BY DEF TypeOK, Steps, Reported, RevocationHonored, PairingKept
<1> QED
  BY <1>1, <1>2, <1>3, <1>4, <1>5, <1>6, <1>7

\* A revocation begins: what it is about no longer counts as paired.
LEMMA RevokeOK ==
  ASSUME Calm, IndInv, NEW p \in Process, NEW b \in Binding, Revoke(p, b)
  PROVE  IndInv'
<1> USE DEF Calm, IndInv, Busy, Revoke, Begin, fileVars, memoryVars
<1>1. TypeOK'
  BY DEF TypeOK
<1>2. OneAtATime'
  BY DEF TypeOK, OneAtATime
<1>3. Versions'
  BY DEF TypeOK, Versions
<1>4. Steps'
  BY DEF TypeOK, OneAtATime, Versions, Steps, EditOf, FreshMapIsFile
<1>5. Reported'
  BY DEF TypeOK, OneAtATime, Steps, EditOf, Reported
<1>6. FreshMapIsFile'
  BY DEF TypeOK, OneAtATime, Versions, Steps, EditOf, FreshMapIsFile
<1>7. RevocationHonored' /\ PairingKept'
  BY DEF TypeOK, Steps, Reported, RevocationHonored, PairingKept
<1> QED
  BY <1>1, <1>2, <1>3, <1>4, <1>5, <1>6, <1>7

\* A step that neither writes the file nor reports anything.
LEMMA SameReports ==
  ASSUME IndInv, UNCHANGED <<file, revoked, saved, past, op, id>>,
         \A q \in Process : Busy(q)' => Busy(q)
  PROVE  Reported'
BY DEF IndInv, Reported

\* A roll-back of an edit that the file has not got makes the map the file again.
LEMMA RollBackFacts ==
  ASSUME IndInv, NEW p \in Process, pc[p] \in {"write", "rename"}, RollBack(p)
  PROVE  /\ bindings' = [bindings EXCEPT ![p] = file]
         /\ pc' = [pc EXCEPT ![p] = "idle"]
         /\ answer' = [answer EXCEPT ![p] = "failed"]
<1>1. bindings[p] = EditOf(p) /\ (previous[p] <=> id[p] \in file)
  BY DEF IndInv, Steps, Busy
<1>2. op[p] \in {"save", "revoke"} /\ (op[p] = "revoke" => id[p] \in file)
  BY DEF IndInv, Steps, Busy
<1>3. (IF previous[p] THEN bindings[p] \cup {id[p]} ELSE bindings[p] \ {id[p]}) = file
  BY <1>1, <1>2 DEF EditOf
<1> QED
  BY <1>3 DEF RollBack, Finish

\* The mtime tells whether the map is the file.
LEMMA StatOK ==
  ASSUME Calm, IndInv, NEW p \in Process, NEW ok \in Outcomes("read"), Stat(p, ok)
  PROVE  IndInv'
<1> USE DEF Calm, IndInv, Busy, Stat, GoTo, Outcomes, fileVars, memoryVars, callVars, editVars,
           historyVars
<1>1. TypeOK'
  BY DEF TypeOK
<1>2. OneAtATime'
  BY DEF TypeOK, OneAtATime
<1>3. Versions'
  BY DEF TypeOK, Versions
<1>4. Steps'
  BY DEF TypeOK, OneAtATime, Versions, Steps, EditOf, FreshMapIsFile
<1>5. Reported'
  <2>1. \A q \in Process : Busy(q)' => Busy(q)
    BY DEF TypeOK
  <2> QED
    BY <2>1, SameReports
<1>6. FreshMapIsFile'
  BY DEF TypeOK, OneAtATime, Versions, Steps, EditOf, FreshMapIsFile
<1>7. RevocationHonored' /\ PairingKept'
  BY DEF TypeOK, Steps, Reported, RevocationHonored, PairingKept
<1> QED
  BY <1>1, <1>2, <1>3, <1>4, <1>5, <1>6, <1>7

\* The map becomes the file.
LEMMA ReadOK ==
  ASSUME Calm, IndInv, NEW p \in Process, NEW ok \in Outcomes("read"), Read(p, ok)
  PROVE  IndInv'
<1> USE DEF Calm, IndInv, Busy, Read, GoTo, Unreadable, Outcomes, fileVars, callVars, editVars,
           historyVars
<1>1. TypeOK'
  BY DEF TypeOK
<1>2. OneAtATime'
  BY DEF TypeOK, OneAtATime
<1>3. Versions'
  BY DEF TypeOK, Versions
<1>4. Steps'
  BY DEF TypeOK, OneAtATime, Versions, Steps, EditOf, FreshMapIsFile
<1>5. Reported'
  <2>1. \A q \in Process : Busy(q)' => Busy(q)
    BY DEF TypeOK
  <2> QED
    BY <2>1, SameReports
<1>6. FreshMapIsFile'
  BY DEF TypeOK, OneAtATime, Versions, Steps, EditOf, FreshMapIsFile
<1>7. RevocationHonored' /\ PairingKept'
  BY DEF TypeOK, Steps, Reported, RevocationHonored, PairingKept
<1> QED
  BY <1>1, <1>2, <1>3, <1>4, <1>5, <1>6, <1>7

\* The mtime belongs to the contents read, because nobody writes in between.
LEMMA StampOK ==
  ASSUME Calm, IndInv, NEW p \in Process, NEW ok \in Outcomes("read"), Stamp(p, ok)
  PROVE  IndInv'
<1> USE DEF Calm, IndInv, Busy, Stamp, GoTo, Unreadable, Outcomes, fileVars, callVars, editVars,
           historyVars
<1>1. TypeOK'
  BY DEF TypeOK
<1>2. OneAtATime'
  BY DEF TypeOK, OneAtATime
<1>3. Versions'
  BY DEF TypeOK, Versions
<1>4. Steps'
  BY DEF TypeOK, OneAtATime, Versions, Steps, EditOf, FreshMapIsFile
<1>5. Reported'
  <2>1. \A q \in Process : Busy(q)' => Busy(q)
    BY DEF TypeOK
  <2> QED
    BY <2>1, SameReports
<1>6. FreshMapIsFile'
  BY DEF TypeOK, OneAtATime, Versions, Steps, EditOf, FreshMapIsFile
<1>7. RevocationHonored' /\ PairingKept'
  BY DEF TypeOK, Steps, Reported, RevocationHonored, PairingKept
<1> QED
  BY <1>1, <1>2, <1>3, <1>4, <1>5, <1>6, <1>7

\* The answer comes from a map that is the file.
LEMMA AnswerOK ==
  ASSUME IndInv, NEW p \in Process, pc[p] = "act", Answer(p),
         UNCHANGED <<fileVars, loaded, callVars, historyVars>>
  PROVE  IndInv'
<1> USE DEF IndInv, Busy, Answer, Finish, fileVars, callVars, editVars, historyVars
<1>1. TypeOK'
  BY DEF TypeOK
<1>2. OneAtATime'
  BY DEF TypeOK, OneAtATime
<1>3. Versions'
  BY DEF TypeOK, Versions
<1>4. Steps'
  BY DEF TypeOK, OneAtATime, Versions, Steps, EditOf, FreshMapIsFile
<1>5. Reported'
  <2>1. \A q \in Process : Busy(q)' => Busy(q)
    BY DEF TypeOK
  <2> QED
    BY <2>1, SameReports
<1>6. FreshMapIsFile'
  BY DEF TypeOK, OneAtATime, Versions, Steps, EditOf, FreshMapIsFile
<1>7. RevocationHonored' /\ PairingKept'
  BY DEF TypeOK, Steps, Reported, RevocationHonored, PairingKept
<1> QED
  BY <1>1, <1>2, <1>3, <1>4, <1>5, <1>6, <1>7

\* The edit is on top of a map that is the file.
LEMMA EditOK ==
  ASSUME IndInv, NEW p \in Process, pc[p] = "act", Edit(p),
         UNCHANGED <<fileVars, loaded, callVars, historyVars>>
  PROVE  IndInv'
<1> USE DEF IndInv, Busy, Edit, GoTo, fileVars, callVars, historyVars
<1>1. TypeOK'
  <2>1. id[p] \in Binding /\ bindings[p] \subseteq Binding
    BY DEF Steps, TypeOK
  <2> DEFINE map == IF op[p] = "save" THEN bindings[p] \cup {id[p]}
                    ELSE bindings[p] \ {id[p]}
  <2>2. map \subseteq Binding /\ bindings' = [bindings EXCEPT ![p] = map]
    BY <2>1
  <2> HIDE DEF map
  <2> QED
    BY <2>2 DEF TypeOK
<1>2. OneAtATime'
  BY DEF TypeOK, OneAtATime
<1>3. Versions'
  BY DEF TypeOK, Versions
<1>4. Steps'
  <2>1. /\ bindings[p] = file /\ loaded[p] = version
        /\ op[p] \in {"save", "revoke"} /\ id[p] \in Binding
        /\ op[p] = "revoke" => id[p] \in file
    BY DEF Steps
  <2>2. bindings' = [bindings EXCEPT ![p] = EditOf(p)]
    BY <2>1 DEF EditOf
  <2>3. EditOf(p)' = EditOf(p)
    BY DEF EditOf
  <2>4. /\ bindings'[p] = EditOf(p) /\ (previous'[p] <=> id[p] \in file)
        /\ edited'[p] /\ pc'[p] = "stat"
    BY <2>1, <2>2 DEF TypeOK
  <2>5. \A q \in Process \ {p} : /\ bindings'[q] = bindings[q] /\ previous'[q] = previous[q]
                                 /\ edited'[q] = edited[q] /\ pc'[q] = pc[q]
                                 /\ EditOf(q)' = EditOf(q)
    BY DEF TypeOK, EditOf
  <2> QED
    BY <2>1, <2>3, <2>4, <2>5 DEF Steps
<1>5. Reported'
  <2>1. \A q \in Process : Busy(q)' => Busy(q)
    BY DEF TypeOK
  <2> QED
    BY <2>1, SameReports
<1>6. FreshMapIsFile'
  BY DEF TypeOK, OneAtATime, Versions, Steps, EditOf, FreshMapIsFile
<1>7. RevocationHonored' /\ PairingKept'
  BY DEF TypeOK, Steps, Reported, RevocationHonored, PairingKept
<1> QED
  BY <1>1, <1>2, <1>3, <1>4, <1>5, <1>6, <1>7

\* persist writes what the map holds.
LEMMA ListOK ==
  ASSUME IndInv, NEW p \in Process, pc[p] = "act", List(p),
         UNCHANGED <<fileVars, loaded, callVars, historyVars>>
  PROVE  IndInv'
<1> USE DEF IndInv, Busy, List, GoTo, fileVars, callVars, historyVars
<1>1. TypeOK'
  BY DEF TypeOK
<1>2. OneAtATime'
  BY DEF TypeOK, OneAtATime
<1>3. Versions'
  BY DEF TypeOK, Versions
<1>4. Steps'
  BY DEF TypeOK, OneAtATime, Versions, Steps, EditOf, FreshMapIsFile
<1>5. Reported'
  <2>1. \A q \in Process : Busy(q)' => Busy(q)
    BY DEF TypeOK
  <2> QED
    BY <2>1, SameReports
<1>6. FreshMapIsFile'
  BY DEF TypeOK, OneAtATime, Versions, Steps, EditOf, FreshMapIsFile
<1>7. RevocationHonored' /\ PairingKept'
  BY DEF TypeOK, Steps, Reported, RevocationHonored, PairingKept
<1> QED
  BY <1>1, <1>2, <1>3, <1>4, <1>5, <1>6, <1>7

LEMMA ActOK ==
  ASSUME Calm, IndInv, NEW p \in Process, Act(p)
  PROVE  IndInv'
BY AnswerOK, EditOK, ListOK DEF Act

\* A write or a rename that fails leaves the file, and the map is the file again.
LEMMA UndoneOK ==
  ASSUME IndInv, NEW p \in Process, pc[p] \in {"write", "rename"}, RollBack(p),
         UNCHANGED <<fileVars, loaded, callVars, editVars, historyVars>>
  PROVE  IndInv'
<1> USE DEF IndInv, Busy, fileVars, callVars, editVars, historyVars
<1>0. /\ bindings' = [bindings EXCEPT ![p] = file]
      /\ pc' = [pc EXCEPT ![p] = "idle"]
      /\ answer' = [answer EXCEPT ![p] = "failed"]
  BY RollBackFacts
<1>1. TypeOK'
  BY <1>0 DEF TypeOK
<1>2. OneAtATime' /\ Versions'
  BY <1>0 DEF TypeOK, OneAtATime, Versions
<1>3. Steps'
  <2>1. \A q \in Process \ {p} : bindings'[q] = bindings[q] /\ pc'[q] = pc[q]
    BY <1>0 DEF TypeOK
  <2>2. pc'[p] = "idle"
    BY <1>0 DEF TypeOK
  <2> QED
    BY <2>1, <2>2 DEF Steps, EditOf
<1>4. Reported'
  <2>1. \A q \in Process : Busy(q)' => Busy(q)
    BY <1>0 DEF TypeOK
  <2> QED
    BY <2>1, SameReports
<1>5. FreshMapIsFile'
  BY <1>0 DEF TypeOK, FreshMapIsFile
<1>6. RevocationHonored' /\ PairingKept'
  BY <1>0 DEF TypeOK, RevocationHonored, PairingKept
<1> QED
  BY <1>1, <1>2, <1>3, <1>4, <1>5, <1>6

\* The temporary file changes nothing that counts.
LEMMA WriteOK ==
  ASSUME Calm, IndInv, NEW p \in Process, NEW ok \in BOOLEAN, Write(p, ok)
  PROVE  IndInv'
<1>1. CASE ok
  <2> USE <1>1 DEF IndInv, Busy, Write, GoTo, fileVars, callVars, editVars, historyVars
  <2>1. TypeOK'
    BY DEF TypeOK
  <2>2. OneAtATime' /\ Versions'
    <3>1. OneAtATime'
      BY DEF TypeOK, OneAtATime
    <3>2. Versions'
      BY DEF TypeOK, Versions
    <3> QED
      BY <3>1, <3>2
  <2>3. Steps'
    BY DEF TypeOK, Steps, EditOf
  <2>4. Reported'
    <3>1. \A q \in Process : Busy(q)' => Busy(q)
      BY DEF TypeOK
    <3> QED
      BY <3>1, SameReports
  <2>5. FreshMapIsFile' /\ RevocationHonored' /\ PairingKept'
    BY DEF TypeOK, FreshMapIsFile, RevocationHonored, PairingKept
  <2> QED
    BY <2>1, <2>2, <2>3, <2>4, <2>5
<1>2. CASE ~ok
  <2>1. UNCHANGED <<fileVars, loaded, callVars, editVars, historyVars>> /\ RollBack(p)
    BY <1>2 DEF Write, memoryVars, fileVars
  <2>2. pc[p] = "write"
    BY DEF Write
  <2> QED
    BY <2>1, <2>2, UndoneOK
<1> QED
  BY <1>1, <1>2

\* The edit reaches the file; the mtimes all processes know are older.
LEMMA RenameOK ==
  ASSUME Calm, IndInv, NEW p \in Process, NEW ok \in BOOLEAN, Rename(p, ok)
  PROVE  IndInv'
<1>1. CASE ok
  <2>1. /\ file' = EditOf(p) /\ version' = version + 1
        /\ pc' = [pc EXCEPT ![p] = "restamp"]
        /\ UNCHANGED <<bindings, answer, loaded, callVars, editVars, historyVars>>
    BY <1>1 DEF Rename, GoTo, IndInv, Steps, Busy
  <2>2. /\ pc[p] = "rename" /\ edited[p] /\ loaded[p] = version
        /\ op[p] \in {"save", "revoke"} /\ id[p] \in Binding
    BY DEF Rename, IndInv, Steps, Busy
  <2>3. \A q \in Process \ {p} : ~Busy(q)
    BY <2>2 DEF IndInv, OneAtATime, Busy
  <2>4. file' \subseteq file \cup {id[p]} /\ file \subseteq file' \cup {id[p]}
    BY <2>1 DEF EditOf
  <2>5. /\ op[p] = "save" => id[p] \in file' /\ file \subseteq file'
        /\ op[p] = "revoke" => id[p] \notin file' /\ file' \subseteq file
    BY <2>1 DEF EditOf
  <2> USE DEF IndInv, callVars, editVars, historyVars
  <2>6. TypeOK'
    BY <2>1, <2>2, <2>4 DEF TypeOK
  <2>7. OneAtATime'
    BY <2>1, <2>2, <2>3 DEF TypeOK, OneAtATime, Busy
  <2>8. Versions'
    BY <2>1 DEF TypeOK, Versions
  <2>9. Steps'
    <3>1. SUFFICES ASSUME NEW q \in Process, q # p PROVE pc'[q] \in {"off", "idle"}
      BY <2>1, <2>2, <2>5 DEF TypeOK, Steps, Busy
    <3> QED
      BY <2>1, <2>3, <3>1 DEF TypeOK, Busy
  <2>10. Reported'
    <3>1. id[p] \notin revoked \/ op[p] = "revoke"
      BY <2>2 DEF Reported, Busy
    <3>2. id[p] \notin saved \/ op[p] = "save"
      BY <2>2 DEF Reported, Busy
    <3>3. revoked \cap file' = {} /\ saved \subseteq file'
      BY <2>2, <2>4, <2>5, <3>1, <3>2 DEF Reported
    <3>4. \A q \in Process : Busy(q)' => Busy(q)
      BY <2>1, <2>2 DEF TypeOK, Busy
    <3> QED
      BY <2>1, <3>3, <3>4 DEF Reported
  <2>11. FreshMapIsFile'
    BY <2>1 DEF TypeOK, Versions, FreshMapIsFile
  <2>12. RevocationHonored' /\ PairingKept'
    BY <2>1 DEF RevocationHonored, PairingKept
  <2> QED
    BY <2>6, <2>7, <2>8, <2>9, <2>10, <2>11, <2>12
<1>2. CASE ~ok
  <2>1. UNCHANGED <<fileVars, loaded, callVars, editVars, historyVars>> /\ RollBack(p)
    BY <1>2 DEF Rename, memoryVars, fileVars
  <2>2. pc[p] = "rename"
    BY DEF Rename
  <2> QED
    BY <2>1, <2>2, UndoneOK
<1> QED
  BY <1>1, <1>2

\* The operation is reported as done, or the map goes back without the mtime.
LEMMA RestampOK ==
  ASSUME Calm, IndInv, NEW p \in Process, NEW ok \in BOOLEAN, Restamp(p, ok)
  PROVE  IndInv'
<1>1. /\ pc[p] = "restamp" /\ edited[p] /\ loaded[p] # version
      /\ op[p] \in {"save", "revoke"} /\ id[p] \in Binding
      /\ op[p] = "save" => id[p] \in file
      /\ op[p] = "revoke" => id[p] \notin file
  BY DEF Restamp, IndInv, Steps, Busy
<1>2. \A q \in Process \ {p} : ~Busy(q)
  BY <1>1 DEF IndInv, OneAtATime, Busy
<1>3. PICK answered \in {"done", "failed"} :
        pc' = [pc EXCEPT ![p] = "idle"] /\ answer' = [answer EXCEPT ![p] = answered]
  BY DEF Restamp, RollBack, Finish
<1> USE DEF IndInv, fileVars, callVars, editVars
<1>4. UNCHANGED <<file, version, op, id, past, edited, previous, temporary>>
  BY DEF Restamp
<1>5. TypeOK'
  <2>1. bindings' \in [Process -> SUBSET Binding]
    <3>1. CASE ok
      BY <3>1 DEF Restamp, TypeOK
    <3>2. CASE ~ok
      <4>1. /\ bindings[p] \cup {id[p]} \subseteq Binding
            /\ bindings[p] \ {id[p]} \subseteq Binding
        BY <1>1 DEF TypeOK
      <4> QED
        BY <3>2, <4>1 DEF Restamp, RollBack, TypeOK
    <3> QED
      BY <3>1, <3>2
  <2>2. loaded' \in [Process -> Nat]
    BY DEF Restamp, TypeOK
  <2>3. revoked' \subseteq Binding /\ saved' \subseteq Binding
    BY <1>1 DEF Restamp, TypeOK
  <2> QED
    BY <1>3, <1>4, <2>1, <2>2, <2>3 DEF TypeOK
<1>6. OneAtATime'
  BY <1>1, <1>2, <1>3 DEF TypeOK, OneAtATime, Busy
<1>7. Versions'
  BY <1>4 DEF Restamp, TypeOK, Versions
<1>8. \A q \in Process : pc'[q] \in {"off", "idle"}
  BY <1>2, <1>3 DEF TypeOK, Busy
<1>9. Steps'
  BY <1>8 DEF Steps, Busy
<1>10. Reported'
  <2>1. revoked \subseteq revoked' /\ revoked' \cap file = {}
    BY <1>1 DEF Restamp, Reported
  <2>2. saved \subseteq saved' /\ saved' \subseteq file
    BY <1>1 DEF Restamp, Reported
  <2> QED
    BY <1>4, <1>8, <2>1, <2>2 DEF Reported, Busy
<1>11. FreshMapIsFile'
  <2>1. CASE ok
    <3>1. bindings' = bindings /\ loaded' = [loaded EXCEPT ![p] = version]
      BY <2>1 DEF Restamp
    <3>2. bindings[p] = file
      BY <1>1 DEF Steps
    <3> QED
      BY <1>3, <1>4, <3>1, <3>2 DEF TypeOK, FreshMapIsFile
  <2>2. CASE ~ok
    <3>1. loaded' = loaded /\ \A q \in Process \ {p} : bindings'[q] = bindings[q]
      BY <2>2 DEF Restamp, RollBack, TypeOK
    <3> QED
      BY <1>1, <1>3, <1>4, <3>1 DEF TypeOK, FreshMapIsFile
  <2> QED
    BY <2>1, <2>2
<1>12. RevocationHonored' /\ PairingKept'
  BY <1>3, <1>4 DEF TypeOK, RevocationHonored, PairingKept
<1> QED
  BY <1>5, <1>6, <1>7, <1>9, <1>10, <1>11, <1>12

\* A process ends anywhere.
LEMMA CrashOK ==
  ASSUME IndInv, NEW p \in Process, Crash(p)
  PROVE  IndInv'
<1> USE DEF IndInv, Busy, Crash, fileVars, memoryVars, callVars, editVars, historyVars
<1>1. TypeOK'
  BY DEF TypeOK
<1>2. OneAtATime'
  BY DEF TypeOK, OneAtATime
<1>3. Versions'
  BY DEF TypeOK, Versions
<1>4. Steps'
  BY DEF TypeOK, OneAtATime, Versions, Steps, EditOf, FreshMapIsFile
<1>5. Reported'
  <2>1. \A q \in Process : Busy(q)' => Busy(q)
    BY DEF TypeOK
  <2> QED
    BY <2>1, SameReports
<1>6. FreshMapIsFile'
  BY DEF TypeOK, OneAtATime, Versions, Steps, EditOf, FreshMapIsFile
<1>7. RevocationHonored' /\ PairingKept'
  BY DEF TypeOK, Steps, Reported, RevocationHonored, PairingKept
<1> QED
  BY <1>1, <1>2, <1>3, <1>4, <1>5, <1>6, <1>7

LEMMA NextOK == Calm /\ IndInv /\ [Next]_vars => IndInv'
<1> SUFFICES ASSUME Calm, IndInv, [Next]_vars PROVE IndInv'
  OBVIOUS
<1>1. CASE UNCHANGED vars
  BY <1>1 DEF vars, fileVars, memoryVars, callVars, editVars, historyVars, IndInv, TypeOK,
              OneAtATime, Versions, Steps, EditOf, Reported, FreshMapIsFile,
              RevocationHonored, PairingKept, Busy
<1>2. ASSUME NEW p \in Process, Start(p) \/ Act(p) \/ Crash(p)
      PROVE  IndInv'
  BY <1>2, StartOK, ActOK, CrashOK
<1>3. ASSUME NEW p \in Process, NEW b \in Binding, Get(p, b) \/ Save(p, b) \/ Revoke(p, b)
      PROVE  IndInv'
  BY <1>3, GetOK, SaveOK, RevokeOK
<1>4. ASSUME NEW p \in Process, NEW ok \in Outcomes("read"),
             Stat(p, ok) \/ Read(p, ok) \/ Stamp(p, ok)
      PROVE  IndInv'
  BY <1>4, StatOK, ReadOK, StampOK
<1>5. ASSUME NEW p \in Process, NEW ok \in BOOLEAN,
             Write(p, ok) \/ Rename(p, ok) \/ Restamp(p, ok)
      PROVE  IndInv'
  BY <1>5, WriteOK, RenameOK, RestampOK
<1>6. Outcomes("write") \subseteq BOOLEAN
  BY DEF Outcomes
<1> QED
  BY <1>1, <1>2, <1>3, <1>4, <1>5, <1>6 DEF Next

-----------------------------------------------------------------------------
\* The inductive invariant holds in every behaviour whose operations do not
\* overlap and whose reads do not fail.
THEOREM InductiveInvariant == Calm => (Spec => []IndInv)
<1> SUFFICES ASSUME Calm PROVE Spec => []IndInv
  OBVIOUS
<1>1. Init => IndInv
  BY InitOK
<1>2. IndInv /\ [Next]_vars => IndInv'
  BY NextOK
<1> QED
  BY <1>1, <1>2, PTL DEF Spec

\* A revocation reported as done is honored by every later lookup in any process
\* (FileBindingRepository.get), whatever writes fail and processes crash.
THEOREM RevocationsAreHonored == Calm => (Spec => []RevocationHonored)
<1> SUFFICES ASSUME Calm PROVE Spec => []RevocationHonored
  OBVIOUS
<1>1. IndInv => RevocationHonored
  BY DEF IndInv
<1> QED
  BY <1>1, InductiveInvariant, PTL

\* A pairing reported as done is found by every later lookup in any process, until
\* it is revoked.
THEOREM PairingsAreKept == Calm => (Spec => []PairingKept)
<1> SUFFICES ASSUME Calm PROVE Spec => []PairingKept
  OBVIOUS
<1>1. IndInv => PairingKept
  BY DEF IndInv
<1> QED
  BY <1>1, InductiveInvariant, PTL

\* A map whose mtime is the file's is the file, also after a roll-back.
THEOREM FreshMapsAreTheFile == Calm => (Spec => []FreshMapIsFile)
<1> SUFFICES ASSUME Calm PROVE Spec => []FreshMapIsFile
  OBVIOUS
<1>1. IndInv => FreshMapIsFile
  BY DEF IndInv
<1> QED
  BY <1>1, InductiveInvariant, PTL
=============================================================================
