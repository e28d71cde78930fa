---------------------------- MODULE Pairing_proofs ----------------------------
(***************************************************************************)
(* Theorems about Pairing and SavedStations, for any number of tasks, of      *)
(* bindings, of saved Stations and of storage calls that reject.              *)
(***************************************************************************)
EXTENDS Pairing, FiniteSetTheorems, SequenceTheorems, WellFoundedInduction, TLAPS

USE StoreAssumption, FaultAssumption

-----------------------------------------------------------------------------
(* A non-empty set of natural numbers has a least element: the step that      *)
(* stands for an induction                                                    *)

NatLess == {p \in Nat \X Nat : p[1] < p[2]}

LEMMA NatLessWellFounded == IsWellFoundedOn(NatLess, Nat)
<1>1. NatLess = OpToRel(<, Nat)
  BY DEF NatLess, OpToRel
<1> QED
  BY <1>1, NatLessThanWellFounded

\* Every non-empty set of naturals has a least element.
LEMMA NatLeast ==
  ASSUME NEW T \in SUBSET Nat, T # {}
  PROVE  \E x \in T : \A y \in T : x <= y
<1>1. PICK x \in T : \A y \in T : ~ (<<y, x>> \in NatLess)
  BY NatLessWellFounded, WFMin, Zenon
<1>2. ASSUME NEW y \in T
      PROVE  x <= y
  <2>1. x \in Nat /\ y \in Nat
    OBVIOUS
  <2>2. ~ (y < x)
    <3>1. <<y, x>> \in Nat \X Nat
      BY <2>1
    <3>2. <<y, x>>[1] = y /\ <<y, x>>[2] = x
      OBVIOUS
    <3> QED
      BY <1>1, <3>1, <3>2 DEF NatLess
  <2> QED
    BY <2>1, <2>2
<1> QED
  BY <1>2

-----------------------------------------------------------------------------
(* The invariants                                                            *)

Migration == {"migrate", "migrateSelect", "migrateDelete"}
Asking == {"create", "sign", "post", "reply", "cleanup"}

\* The list that x is based on, and the record it adds.
Base(x) == IF x.base = None THEN {} ELSE Ids(x.base)
Own(x) == IF x.kind = "save" THEN {x.id} ELSE {}

\* What a task holds at each place.
Shape(x) ==
  /\ x.at \in Asking => x.kind = "pair"
  /\ x.kind = "pair" => /\ x.at \in Asking \cup {"failed"}
                        /\ x.at \in Asking \ {"create"} => x.id # None
                        /\ x.at = "create" => x.id = None
  /\ x.kind = "save" => /\ x.id # None
                        /\ x.at \in {"list", "legacy", "write", "select", "end", "failed"} \cup Migration
  /\ x.at \notin Migration \cup {"write", "selected", "reselect"} => x.seen = <<>>
  /\ x.at \in Migration => Len(x.seen) = 1
  /\ x.at = "selected" => (x.kind \in {"load", "clear"} /\ x.seen # <<>>) \/ x.kind \in {"remove", "prune"}
  /\ x.gone # {} => x.at \in {"write", "selected", "reselect", "dropKeys"} /\ x.kind \in {"remove", "prune"}
  /\ x.at # "write" => x.base = None
  /\ x.at = "write" => /\ x.kind \in {"save", "mark", "remove", "prune"}
                       /\ Ids(x.seen) = (Base(x) \ x.gone) \cup Own(x)
                       /\ x.gone \subseteq Base(x)
ShapeInv == \A t \in Task : Shape(task[t])

\* Whatever the phone has saved, or is about to save, the Station has bound.
Known(x) ==
  /\ Ids(x.seen) \cup x.gone \cup Own(x) \subseteq bound
  /\ x.at = "reply" => x.id \in bound
BoundInv ==
  /\ Stored \cup Legacy \subseteq bound
  /\ \A t \in Task : Known(task[t])

\* The binding id of a pairing that is not in the list yet.
Private(x) == (x.kind = "pair" /\ x.id # None) \/ (x.kind = "save" /\ x.at \notin {"select", "end"})

\* The id of a private pairing x is unknown to the task y.
Apart(x, y) ==
  /\ x.id \notin Ids(y.seen) /\ x.id \notin y.gone
  /\ Private(y) => x.id # y.id
PrivateInv ==
  \A t \in Task : Private(task[t]) =>
    /\ task[t].id \notin Stored \cup Legacy
    /\ task[t].at # "write" => task[t].id \notin Ids(task[t].seen)
    /\ \A u \in Task \ {t} : Apart(task[t], task[u])

\* A key is there as long as it may be needed.
Unwritten(x) == Private(x) /\ x.at \notin {"cleanup", "failed"}
KeyInv ==
  /\ Stored \subseteq keys
  /\ list = None => Legacy \subseteq keys
  /\ \A t \in Task : /\ Unwritten(task[t]) => task[t].id \in keys
                     /\ At(t, "migrate") /\ list = None => Ids(task[t].seen) \subseteq keys
                     /\ ~At(t, "write") /\ task[t].gone # {} => list # None /\ task[t].gone \cap Stored = {}

HasKeyInv == trouble \cap {"race", "halfSaved"} = {} => PrivateInv /\ KeyInv

\* The record of an older release is in the list before it is deleted.
KeptInv ==
  /\ kept \subseteq Stored \cup Legacy
  /\ \A t \in Task :
       /\ At(t, "migrate") => Legacy \subseteq Ids(task[t].seen)
       /\ task[t].at \in {"migrateSelect", "migrateDelete"} => list # None /\ Legacy \cap kept \subseteq Stored
IsKeptInv == trouble \cap {"race", "halfMigrated"} = {} => KeptInv
-----------------------------------------------------------------------------
(* Lists of records                                                          *)

\* A finite set of positions can be listed in increasing order.
Listing(f, S) ==
  /\ f \in [1..Cardinality(S) -> S] /\ Increasing(f) /\ {f[k] : k \in DOMAIN f} = S
Unlisted == {n \in Nat : \E S \in SUBSET (1..n) : ~\E f : Listing(f, S)}

\* A listing of all but the last position, with the last one after it.
LEMMA AddedLast ==
  ASSUME NEW n \in Nat, NEW S \in SUBSET (1..n), n \in S, NEW g, Listing(g, S \ {n})
  PROVE  \E f : Listing(f, S)
<1> DEFINE R == S \ {n}
           m == Cardinality(R)
           f == [k \in 1..(m + 1) |-> IF k = m + 1 THEN n ELSE g[k]]
<1>1. IsFiniteSet(R) /\ m \in Nat /\ Cardinality(S) = m + 1
  <2>1. IsFiniteSet(1..n)
    BY FS_Interval
  <2>2. IsFiniteSet(S)
    BY <2>1, FS_Subset
  <2>3. IsFiniteSet(R)
    BY <2>2, FS_Subset
  <2>4. m \in Nat
    BY <2>3, FS_CardinalityType
  <2>5. S = R \cup {n} /\ n \notin R
    OBVIOUS
  <2>6. Cardinality(R \cup {n}) = m + 1
    BY <2>3, <2>5, FS_AddElement
  <2> QED BY <2>3, <2>4, <2>5, <2>6
<1>2. g \in [1..m -> R] /\ Increasing(g) /\ {g[k] : k \in DOMAIN g} = R
  BY DEF Listing
<1> HIDE DEF m
<1>3. DOMAIN f = 1..(m + 1) /\ f[m + 1] = n /\ \A k \in 1..m : f[k] = g[k] /\ g[k] \in R
  BY <1>1, <1>2
<1> HIDE DEF f
<1>4. Increasing(f)
  <2> SUFFICES ASSUME NEW i \in 1..(m + 1), NEW j \in 1..(m + 1), i < j
               PROVE  f[i] < f[j]
    BY <1>3 DEF Increasing
  <2>1. i \in 1..m
    BY <1>1
  <2>2. f[i] = g[i] /\ g[i] \in R
    BY <1>3, <2>1
  <2>3. CASE j = m + 1
    <3>1. f[i] \in 1..n /\ f[i] # n
      BY <2>2
    <3> QED BY <1>3, <2>3, <3>1
  <2>4. CASE j \in 1..m
    BY <1>2, <1>3, <2>1, <2>4 DEF Increasing
  <2> QED BY <1>1, <2>3, <2>4
<1>5. {f[k] : k \in DOMAIN f} = S
  <2>1. ASSUME NEW k \in DOMAIN f
        PROVE  f[k] \in S
    BY <1>1, <1>3
  <2>2. ASSUME NEW s \in S
        PROVE  \E k \in DOMAIN f : f[k] = s
    <3>1. CASE s = n
      BY <1>1, <1>3, <3>1
    <3>2. CASE s \in R
      <4>1. PICK k \in 1..m : g[k] = s
        BY <1>2, <3>2
      <4> QED BY <1>1, <1>3, <4>1
    <3> QED BY <3>1, <3>2
  <2> QED BY <2>1, <2>2
<1>6. f \in [1..(m + 1) -> S]
  <2>1. f = [k \in 1..(m + 1) |-> f[k]]
    BY DEF f
  <2> QED BY <1>3, <1>5, <2>1
<1> QED BY <1>1, <1>4, <1>5, <1>6 DEF Listing

\* Every set of positions has an increasing listing.
LEMMA Listable ==
  ASSUME NEW n \in Nat, NEW S \in SUBSET (1..n)
  PROVE  \E f : Listing(f, S)
<1>1. Unlisted = {}
  <2> SUFFICES ASSUME Unlisted # {}
               PROVE  FALSE
    OBVIOUS
  <2>1. PICK k \in Unlisted : \A y \in Unlisted : k <= y
    <3>1. Unlisted \in SUBSET Nat
      BY DEF Unlisted
    <3> QED BY <3>1, NatLeast
  <2>2. k \in Nat
    BY <2>1 DEF Unlisted
  <2>3. PICK T \in SUBSET (1..k) : ~\E f : Listing(f, T)
    BY <2>1 DEF Unlisted
  <2>4. CASE T = {}
    <3>1. Listing(<<>>, {})
      <4>1. Cardinality({}) = 0
        BY FS_EmptySet
      <4>2. 1..Cardinality({}) = {}
        BY <4>1
      <4>3. <<>> \in [{} -> {}] /\ Increasing(<<>>) /\ {<<>>[i] : i \in DOMAIN <<>>} = {}
        BY DEF Increasing
      <4> QED BY <4>2, <4>3 DEF Listing
    <3> QED BY <2>3, <2>4, <3>1
  <2>5. CASE T # {}
    <3>0. k # 0
      <4>1. PICK i \in T : TRUE
        BY <2>5
      <4>2. i \in 1..k
        BY <4>1
      <4> QED BY <2>2, <4>2
    <3>1. k - 1 \in Nat
      BY <2>2, <3>0
    <3>2. k - 1 \notin Unlisted
      BY <2>1, <2>2, <3>1
    <3>3. \A R \in SUBSET (1..(k - 1)) : \E f : Listing(f, R)
      BY <3>1, <3>2 DEF Unlisted
    <3>4. T \ {k} \in SUBSET (1..(k - 1))
      BY <2>2
    <3>5. PICK g : Listing(g, T \ {k})
      BY <3>3, <3>4
    <3>6. CASE k \in T
      BY <2>2, <2>3, <3>5, <3>6, AddedLast
    <3>7. CASE k \notin T
      <4>1. T \ {k} = T
        BY <3>7
      <4> QED BY <2>3, <3>5, <4>1
    <3> QED BY <3>6, <3>7
  <2> QED BY <2>4, <2>5
<1> QED BY <1>1 DEF Unlisted

\* What is left of a list when the records of gone are taken from it.
LEMMA WithoutRecords ==
  ASSUME NEW ps \in Seq(Record), NEW gone
  PROVE  Without(ps, gone) \in Seq(Record) /\ Ids(Without(ps, gone)) = Ids(ps) \ gone
<1> DEFINE stay == {i \in DOMAIN ps : ps[i].id \notin gone}
           nth == CHOOSE f \in [1..Cardinality(stay) -> stay] :
                    Increasing(f) /\ {f[k] : k \in DOMAIN f} = stay
<1>1. stay \in SUBSET (1..Len(ps)) /\ Len(ps) \in Nat
  OBVIOUS
<1>2. IsFiniteSet(stay) /\ Cardinality(stay) \in Nat
  <2> HIDE DEF stay
  <2>1. IsFiniteSet(1..Len(ps))
    BY <1>1, FS_Interval
  <2>2. IsFiniteSet(stay)
    BY <1>1, <2>1, FS_Subset
  <2> QED BY <2>2, FS_CardinalityType
<1>3. \E f \in [1..Cardinality(stay) -> stay] : Increasing(f) /\ {f[k] : k \in DOMAIN f} = stay
  <2> HIDE DEF stay
  <2> QED BY <1>1, Listable DEF Listing
<1>4. nth \in [1..Cardinality(stay) -> stay] /\ {nth[k] : k \in DOMAIN nth} = stay
  <2> HIDE DEF stay
  <2> QED BY <1>3
<1>5. Without(ps, gone) = [k \in DOMAIN nth |-> ps[nth[k]]]
  BY DEF Without
<1> HIDE DEF nth
<1>6. \A k \in DOMAIN nth : ps[nth[k]] \in Record
  BY <1>4
<1>7. Without(ps, gone) \in Seq(Record)
  <2> DEFINE n == Cardinality(stay)
  <2> HIDE DEF stay
  <2>1. n \in Nat /\ DOMAIN nth = 1..n
    BY <1>2, <1>4
  <2> HIDE DEF n
  <2> QED BY <1>5, <1>6, <2>1
<1>8. Ids(Without(ps, gone)) = {ps[nth[k]].id : k \in DOMAIN nth}
  BY <1>5 DEF Ids
<1>9. {ps[nth[k]].id : k \in DOMAIN nth} = {ps[i].id : i \in stay}
  <2> HIDE DEF stay
  <2> QED BY <1>4
<1> QED BY <1>7, <1>8, <1>9 DEF Ids

\* A list with a record put in place of the one of the same Station, or last.
LEMMA PutRecord ==
  ASSUME NEW ps \in Seq(Record), NEW record \in Record
  PROVE  Put(ps, record) \in Seq(Record) /\ Ids(Put(ps, record)) = Ids(ps) \cup {record.id}
<1>1. CASE record.id \in Ids(ps)
  <2> DEFINE new == [i \in DOMAIN ps |-> IF ps[i].id = record.id THEN record ELSE ps[i]]
  <2>1. Put(ps, record) = new
    BY <1>1 DEF Put
  <2>2. DOMAIN new = 1..Len(ps) /\ \A i \in DOMAIN new : new[i] \in Record /\ new[i].id = ps[i].id
    OBVIOUS
  <2>3. new \in Seq(Record)
    <3>1. Len(ps) \in Nat
      OBVIOUS
    <3> HIDE DEF new
    <3>2. new = [i \in 1..Len(ps) |-> new[i]]
      BY <2>2 DEF new
    <3> QED BY <2>2, <3>1, <3>2
  <2> HIDE DEF new
  <2> QED BY <1>1, <2>1, <2>2, <2>3 DEF Ids
<1>2. CASE record.id \notin Ids(ps)
  <2> DEFINE new == Append(ps, record)
  <2>1. Put(ps, record) = new
    BY <1>2 DEF Put
  <2>2. /\ new \in Seq(Record) /\ Len(ps) \in Nat
        /\ DOMAIN ps = 1..Len(ps) /\ DOMAIN new = 1..(Len(ps) + 1)
        /\ \A i \in DOMAIN ps : new[i] = ps[i]
        /\ new[Len(ps) + 1] = record
    BY AppendProperties
  <2> HIDE DEF new
  <2>3. \A i \in DOMAIN new : i \in DOMAIN ps \/ i = Len(ps) + 1
    BY <2>2
  <2>4. DOMAIN ps \subseteq DOMAIN new /\ Len(ps) + 1 \in DOMAIN new
    BY <2>2
  <2> QED BY <2>1, <2>2, <2>3, <2>4 DEF Ids
<1> QED BY <1>1, <1>2

-----------------------------------------------------------------------------
(* Types and shapes                                                          *)

\* The ids of a list, and which of its positions there are.
LEMMA RecordIds ==
  ASSUME NEW ps \in Seq(Record)
  PROVE  /\ Ids(ps) \subseteq Binding /\ Stale(ps) \subseteq Ids(ps)
         /\ \A i \in DOMAIN ps : ps[i] \in Record /\ ps[i].id \in Ids(ps)
         /\ ps # <<>> => 1 \in DOMAIN ps
         /\ ps = <<>> => Ids(ps) = {}
<1>1. \A i \in DOMAIN ps : ps[i] \in Record
  OBVIOUS
<1>2. \A i \in DOMAIN ps : ps[i].id \in Binding
  BY <1>1 DEF Record
<1>3. ps # <<>> => 1 \in DOMAIN ps
  OBVIOUS
<1>4. ps = <<>> => DOMAIN ps = {}
  OBVIOUS
<1> QED BY <1>1, <1>2, <1>3, <1>4 DEF Ids, Stale

\* A fresh task: it has read nothing.
Blank(x) == x \in TaskRecord /\ x.seen = <<>> /\ x.base = None /\ x.gone = {}

\* The idle task, and one that begins, hold nothing.
LEMMA NewTask ==
  /\ Blank(NoTask)
  /\ \A kind \in Kinds, id \in Binding \cup {None} :
       /\ Blank(Started(kind, id)) /\ Started(kind, id).kind = kind
       /\ Started(kind, id).at = "list" /\ Started(kind, id).id = id
<1>1. NoTask \in TaskRecord
  <2>1. <<>> \in Seq(Record) /\ {} \in SUBSET Binding
    OBVIOUS
  <2> QED BY <2>1 DEF NoTask, TaskRecord, Kinds, Places
<1>2. Blank(NoTask)
  BY <1>1 DEF Blank, NoTask
<1>3. ASSUME NEW kind \in Kinds, NEW id \in Binding \cup {None}
      PROVE  /\ Blank(Started(kind, id)) /\ Started(kind, id).kind = kind
             /\ Started(kind, id).at = "list" /\ Started(kind, id).id = id
  <2>1. Started(kind, id) = [NoTask EXCEPT !.kind = kind, !.at = "list", !.id = id] /\ "list" \in Places
    BY DEF Started, Places
  <2>2. Started(kind, id) \in TaskRecord
    BY <1>1, <2>1 DEF TaskRecord
  <2> QED BY <1>1, <1>2, <2>1, <2>2 DEF Blank, TaskRecord
<1> QED BY <1>2, <1>3

\* The next await of a task, once it has the list ps.
LEMMA AfterListTask ==
  ASSUME NEW me, Blank(me), me.kind # "pair", me.kind = "save" => me.id # None, NEW ps \in Seq(Record)
  PROVE  LET r == AfterList(me, ps)
         IN  /\ r \in TaskRecord /\ r.kind = me.kind /\ r.base = None
             /\ r.at \in {"write", "select", "selected", "stations", "end", "failed"}
             /\ r.at # "write" => /\ Ids(r.seen) \subseteq Ids(ps) /\ r.gone = {}
                                  /\ r.seen # <<>> => r.at = "selected"
             /\ r.at = "selected" => r.kind \in {"load", "clear"} /\ r.seen # <<>>
             /\ r.at = "write" => /\ r.kind \in {"save", "mark", "remove", "prune"}
                                  /\ Ids(r.seen) = (Ids(ps) \ r.gone) \cup Own(r)
                                  /\ r.gone \subseteq Ids(ps)
                                  /\ r.gone # {} => r.kind \in {"remove", "prune"}
             /\ r.kind = "save" => r.at = "write" /\ r.id = me.id
<1> DEFINE r == AfterList(me, ps)
           here == me.id \in Ids(ps)
<1>0. /\ me \in TaskRecord /\ me.seen = <<>> /\ me.base = None /\ me.gone = {}
      /\ me.kind # "pair" /\ (me.kind = "save" => me.id \in Binding)
  BY DEF Blank, TaskRecord
<1>1. Ids(ps) \subseteq Binding /\ Stale(ps) \subseteq Ids(ps) /\ Ids(<<>>) = {}
  <2>1. <<>> \in Seq(Record)
    OBVIOUS
  <2> QED BY <2>1, RecordIds
<1>2. CASE me.kind = "save" \/ (me.kind = "mark" /\ here)
  <2> DEFINE record == [id |-> me.id, fresh |-> TRUE]
             seen == Put(ps, record)
  <2>1. record \in Record /\ record.id = me.id
    BY <1>0, <1>1, <1>2 DEF Record
  <2> HIDE DEF record
  <2>2. seen \in Seq(Record) /\ Ids(seen) = Ids(ps) \cup {me.id}
    BY <2>1, PutRecord
  <2>3. r = [me EXCEPT !.at = "write", !.seen = seen]
    BY <1>2 DEF AfterList, Rewrite, record
  <2> HIDE DEF seen, r
  <2>4. r \in TaskRecord
    BY <1>0, <2>2, <2>3 DEF TaskRecord, Places
  <2>5. /\ r.kind = me.kind /\ r.id = me.id /\ r.seen = seen /\ r.at = "write" /\ r.base = None
        /\ r.gone = {}
    BY <1>0, <2>3 DEF TaskRecord
  <2>6. Ids(r.seen) = (Ids(ps) \ r.gone) \cup Own(r)
    BY <1>2, <2>2, <2>5 DEF Own
  <2> QED BY <1>2, <2>4, <2>5, <2>6 DEF r
<1>3. ASSUME NEW gone \in SUBSET Ids(ps), r = Drop(me, ps, gone), me.kind \in {"remove", "prune"}
      PROVE  /\ r \in TaskRecord /\ r.kind = me.kind /\ r.id = me.id /\ r.base = None /\ r.at = "write"
             /\ Ids(r.seen) = Ids(ps) \ r.gone /\ r.gone \subseteq Ids(ps) /\ Own(r) = {}
  <2> DEFINE seen == Without(ps, gone)
  <2>1. seen \in Seq(Record) /\ Ids(seen) = Ids(ps) \ gone
    BY WithoutRecords
  <2>2. r = [me EXCEPT !.at = "write", !.seen = seen, !.gone = gone]
    BY <1>3 DEF Drop, Rewrite
  <2> HIDE DEF seen, r
  <2>3. gone \in SUBSET Binding
    BY <1>1
  <2>4. r \in TaskRecord
    BY <1>0, <2>1, <2>2, <2>3 DEF TaskRecord, Places
  <2>5. /\ r.kind = me.kind /\ r.id = me.id /\ r.seen = seen /\ r.at = "write" /\ r.base = None
        /\ r.gone = gone
    BY <1>0, <2>2 DEF TaskRecord
  <2> QED BY <1>3, <2>1, <2>4, <2>5 DEF Own
<1>4. CASE me.kind = "remove" /\ here
  <2>1. r = Drop(me, ps, {me.id}) /\ {me.id} \in SUBSET Ids(ps)
    BY <1>4 DEF AfterList
  <2> HIDE DEF r
  <2> QED BY <1>3, <1>4, <2>1 DEF r
<1>5. CASE me.kind = "prune" /\ Stale(ps) # {}
  <2>1. r = Drop(me, ps, Stale(ps)) /\ Stale(ps) \in SUBSET Ids(ps)
    BY <1>1, <1>5 DEF AfterList
  <2> HIDE DEF r
  <2> QED BY <1>3, <1>5, <2>1 DEF r
<1>6. CASE me.kind \in {"load", "clear"} /\ ps # <<>>
  <2>1. r = [me EXCEPT !.at = "selected", !.seen = ps]
    BY <1>6 DEF AfterList
  <2> HIDE DEF r
  <2>2. r \in TaskRecord
    BY <1>0, <2>1 DEF TaskRecord, Places
  <2>3. r.kind = me.kind /\ r.seen = ps /\ r.at = "selected" /\ r.base = None /\ r.gone = {}
    BY <1>0, <2>1 DEF TaskRecord
  <2> QED BY <1>6, <2>2, <2>3 DEF r
<1>7. CASE ~( \/ me.kind = "save" \/ (me.kind = "mark" /\ here)
              \/ (me.kind = "remove" /\ here) \/ (me.kind = "prune" /\ Stale(ps) # {})
              \/ (me.kind \in {"load", "clear"} /\ ps # <<>>))
  <2>1. PICK at \in {"select", "stations", "failed", "end"}, id \in {me.id, None} :
          r = [me EXCEPT !.at = at, !.id = id]
    <3>1. \/ r = [me EXCEPT !.at = "select"] \/ r = [me EXCEPT !.at = "stations"]
          \/ r = [me EXCEPT !.at = "failed"] \/ r = [me EXCEPT !.at = "end", !.id = None]
      BY <1>7 DEF AfterList
    <3>2. \A at : [me EXCEPT !.at = at] = [me EXCEPT !.at = at, !.id = me.id]
      BY <1>0 DEF TaskRecord
    <3> HIDE DEF r
    <3> QED BY <3>1, <3>2
  <2> HIDE DEF r
  <2>2. r \in TaskRecord
    BY <1>0, <2>1 DEF TaskRecord, Places
  <2>3. r.kind = me.kind /\ r.seen = <<>> /\ r.at = at /\ r.base = None /\ r.gone = {}
    BY <1>0, <2>1 DEF TaskRecord
  <2> QED BY <1>1, <1>7, <2>2, <2>3 DEF r
<1> QED BY <1>2, <1>4, <1>5, <1>6, <1>7

-----------------------------------------------------------------------------
(* What a step does to the tasks and to storage                              *)

\* Nothing; a task begins, or a caller goes on: nothing is read or owned yet.
Still == UNCHANGED <<list, legacy, keys, task, trouble, kept, bound>>
Begins(t, r) ==
  /\ UNCHANGED <<list, legacy, keys, trouble, kept, bound>> /\ Goes(t, r)
  /\ Blank(r) /\ Shape(r) /\ ~Private(r) /\ Own(r) = {} /\ r.at \in {"idle", "list", "create", "failed"}

\* A pairing makes its key, and goes on with it.
Creates(t, r) ==
  /\ UNCHANGED <<list, legacy, trouble, kept, bound>> /\ Goes(t, r)
  /\ Blank(r) /\ Shape(r) /\ r.kind = "pair" /\ r.at = "sign" /\ r.id \in Binding
  /\ FreshId(r.id) /\ keys' = keys \cup {r.id}
Proceeds(t, r) ==
  /\ UNCHANGED <<list, legacy, trouble, kept>> /\ Goes(t, r)
  /\ Blank(r) /\ Shape(r) /\ Private(r) /\ r.at \notin {"write", "sign"} \cup Migration
  /\ Private(task[t]) /\ r.id = task[t].id /\ r.id \in Binding
  /\ bound' \in {bound, bound \cup {r.id}}
  /\ r.at = "reply" => r.id \in bound'
  /\ r.kind = "save" => At(t, "reply")
  /\ Unwritten(r) => Unwritten(task[t])
  /\ keys' = keys \/ (keys' = keys \ {r.id} /\ ~Unwritten(r))

\* There is no list: the task looks for the record of an older release.
Reads(t, r) ==
  /\ UNCHANGED <<list, legacy, keys, trouble, kept, bound>> /\ Goes(t, r)
  /\ At(t, "list") /\ Blank(r) /\ Shape(r) /\ r.at = "legacy"
  /\ r.kind = task[t].kind /\ r.id = task[t].id

\* A task takes ps for the list.
Takes(t, r, ps) ==
  /\ UNCHANGED <<list, keys, kept, bound>> /\ Goes(t, r)
  /\ trouble \subseteq trouble' /\ trouble' \subseteq Troubles
  /\ task[t].at \in {"list", "legacy"} \cup Migration
  /\ legacy' = legacy \/ (legacy' = None /\ At(t, "migrateDelete"))
  /\ Ids(ps) \subseteq Stored \cup Ids(task[t].seen)
  /\ r \in TaskRecord /\ Shape(r) /\ r.kind = task[t].kind
  /\ r.at \in {"write", "select", "selected", "stations", "end", "failed"}
  /\ Ids(r.seen) \subseteq Ids(ps) \cup Own(r) /\ r.gone \subseteq Ids(ps)
  /\ r.at # "write" => r.gone = {}
  /\ r.kind = "save" => r.at = "write" /\ r.id = task[t].id

\* A task has the record of an older release, and makes a list of it.
TakesOld(t, r) ==
  /\ UNCHANGED <<list, legacy, keys, trouble, kept, bound>> /\ Goes(t, r)
  /\ At(t, "legacy")
  /\ r \in TaskRecord /\ Shape(r) /\ r.at = "migrate" /\ Ids(r.seen) = Legacy /\ r.gone = {}
  /\ r.kind = task[t].kind /\ r.id = task[t].id
Migrates(t, r) ==
  /\ UNCHANGED <<legacy, keys, kept, bound>> /\ Goes(t, r)
  /\ At(t, "migrate") /\ list' = task[t].seen /\ trouble' = Raced(None)
  /\ r \in TaskRecord /\ Shape(r) /\ r.at = "migrateSelect" /\ r.seen = task[t].seen /\ r.gone = {}
  /\ r.kind = task[t].kind /\ r.id = task[t].id

\* A task writes its list.
Writes(t, r) ==
  /\ UNCHANGED <<legacy, keys, bound>> /\ Goes(t, r)
  /\ At(t, "write") /\ list' = task[t].seen /\ trouble' = Raced(task[t].base)
  /\ kept' = IF task[t].kind = "save" THEN kept \cup {task[t].id} ELSE kept \ task[t].gone
  /\ r \in TaskRecord /\ Shape(r) /\ r.at \in {"select", "end", "selected"}
  /\ r.seen \in {<<>>, task[t].seen} /\ r.gone = task[t].gone
  /\ r.kind = task[t].kind /\ r.id = task[t].id

\* A task goes on without reading or writing the list, or fails.
Moves(t, r) ==
  /\ UNCHANGED <<list, legacy, keys, bound>> /\ Goes(t, r)
  /\ trouble \subseteq trouble' /\ trouble' \subseteq Troubles /\ kept' \subseteq kept
  /\ r \in TaskRecord /\ Shape(r) /\ r.at \notin {"legacy", "migrate", "migrateSelect", "write"} \cup Asking
  /\ r.at = "migrateDelete" => At(t, "migrateSelect")
  /\ r.kind # "pair"
  /\ Ids(r.seen) \subseteq Ids(task[t].seen)
  /\ r.gone = {} \/ (r.gone = task[t].gone /\ ~At(t, "write"))
  /\ r.kind = "save" => task[t].kind = "save" /\ r.id = task[t].id
  /\ r.kind = "save" /\ Private(r) /\ ~Private(task[t]) => "halfSaved" \in trouble'
  /\ Unwritten(r) => Unwritten(task[t])

\* The keys of the records that are gone are deleted.
Drops(t, r) ==
  /\ UNCHANGED <<list, legacy, trouble, kept, bound>> /\ Goes(t, r)
  /\ At(t, "dropKeys") /\ keys \ task[t].gone \subseteq keys' /\ keys' \subseteq keys
  /\ Blank(r) /\ Shape(r) /\ ~Private(r) /\ Own(r) = {} /\ r.at = "end"

\* The app starts again; the records age.
Restarts ==
  /\ UNCHANGED <<list, legacy, keys, trouble, kept, bound>>
  /\ \A t \in Task : task'[t] \in {NoTask, Started("home", None)}
  /\ task' \in [Task -> TaskRecord]
Older ==
  /\ UNCHANGED <<keys, task, trouble, kept, bound>>
  /\ (list' = None <=> list = None) /\ Stored' = Stored /\ Legacy' = Legacy
  /\ list' \in {None} \cup Seq(Record) /\ legacy' \in Record \cup {None}
  /\ \A t \in Task : task[t] = NoTask

\* Every step of a task.
AnyStep(t, r) ==
  \/ Begins(t, r) \/ Creates(t, r) \/ Proceeds(t, r) \/ Reads(t, r) \/ TakesOld(t, r)
  \/ Migrates(t, r) \/ Writes(t, r) \/ Moves(t, r) \/ Drops(t, r) \/ \E ps \in Seq(Record) : Takes(t, r, ps)

Step == Still \/ Restarts \/ Older \/ \E t \in Task, r \in TaskRecord : AnyStep(t, r)

\* The types of what storage and the tasks hold.
StoreOK ==
  /\ task \in [Task -> TaskRecord] /\ list \in {None} \cup Seq(Record)
  /\ selected \in Binding \cup {None} /\ legacy \in Record \cup {None}
  /\ keys \subseteq Binding /\ trouble \subseteq Troubles
  /\ bound \subseteq Binding /\ kept \subseteq Binding

\* What a task is made of.
LEMMA TaskType ==
  ASSUME StoreOK, ShapeInv, NEW t \in Task
  PROVE  /\ task[t] \in TaskRecord /\ Shape(task[t])
         /\ task[t].seen \in Seq(Record) /\ task[t].gone \subseteq Binding
         /\ task[t].id \in Binding \cup {None} /\ task[t].kind \in Kinds
BY DEF StoreOK, ShapeInv, TaskRecord

\* A task that has read nothing, or that has let go of what it read.
LEMMA BlankTask ==
  ASSUME NEW x \in TaskRecord, Shape(x),
         x.at \notin {"write", "selected", "reselect", "dropKeys"} \cup Migration
  PROVE  Blank(x)
BY DEF Blank, Shape

\* A task that only changes its place.
LEMMA NewPlace ==
  ASSUME NEW x \in TaskRecord, NEW at \in Places
  PROVE  LET r == [x EXCEPT !.at = at]
         IN  /\ r \in TaskRecord /\ r.at = at /\ r.kind = x.kind /\ r.id = x.id
             /\ r.seen = x.seen /\ r.base = x.base /\ r.gone = x.gone
BY DEF TaskRecord

\* The steps of a pairing request (pairing.ts, Auth.pair).
LEMMA RequestSteps ==
  ASSUME StoreOK, ShapeInv, NEW t \in Task, Request(t)
  PROVE  Step
<1> DEFINE me == task[t]
<1>0. me \in TaskRecord /\ Shape(me) /\ me.id \in Binding \cup {None}
  BY TaskType
<1>1. CASE ConfirmPairing(t)
  <2> DEFINE r == [NoTask EXCEPT !.kind = "pair", !.at = "create"]
  <2>1. NoTask \in TaskRecord /\ "create" \in Places /\ "pair" \in Kinds
    BY NewTask DEF Blank, Places, Kinds
  <2>2. /\ r \in TaskRecord /\ r.at = "create" /\ r.kind = "pair" /\ r.id = None /\ r.seen = <<>>
        /\ r.base = None /\ r.gone = {}
    BY <2>1, NewTask DEF Blank, TaskRecord, NoTask
  <2>3. Goes(t, r) /\ UNCHANGED <<list, legacy, keys, trouble, kept, bound>>
    BY <1>1 DEF ConfirmPairing, stationVars
  <2> HIDE DEF r
  <2>4. Blank(r) /\ Shape(r) /\ ~Private(r) /\ Own(r) = {}
    BY <2>2 DEF Blank, Shape, Private, Own, Asking, Migration
  <2>5. Begins(t, r)
    BY <2>2, <2>3, <2>4 DEF Begins
  <2> QED BY <2>2, <2>5 DEF Step, AnyStep
<1>2. ASSUME NEW id \in Binding, CreateKey(t, id)
      PROVE  Step
  <2> DEFINE r == [me EXCEPT !.at = "sign", !.id = id]
  <2>1. At(t, "create") /\ FreshId(id) /\ keys' = keys \cup {id} /\ Goes(t, r)
        /\ UNCHANGED <<list, legacy, trouble, kept, bound>>
    BY <1>2 DEF CreateKey, KeyCreated, stationVars
  <2>2. me.at = "create" /\ me.kind = "pair" /\ Blank(me) /\ "sign" \in Places
    BY <1>0, <2>1, BlankTask DEF At, Shape, Asking, Places, Migration
  <2>3. /\ r \in TaskRecord /\ r.at = "sign" /\ r.kind = "pair" /\ r.id = id /\ r.seen = <<>>
        /\ r.base = None /\ r.gone = {}
    BY <1>0, <2>2 DEF TaskRecord, Blank
  <2> HIDE DEF r, me
  <2>4. Blank(r) /\ Shape(r)
    BY <2>3 DEF Blank, Shape, Asking, Migration
  <2>5. Creates(t, r)
    BY <2>1, <2>3, <2>4 DEF Creates
  <2> QED BY <2>3, <2>5 DEF Step, AnyStep
<1>3. CASE PairingRefused(t)
  <2> DEFINE r == [me EXCEPT !.at = "failed"]
  <2>1. Goes(t, r) /\ me.at = "create" /\ UNCHANGED <<list, legacy, keys, trouble, kept, bound>>
    BY <1>3 DEF PairingRefused, stationVars, At
  <2>2. Blank(me) /\ "failed" \in Places /\ me.kind = "pair" /\ me.id = None
    BY <1>0, <2>1, BlankTask DEF Shape, Asking, Places, Migration
  <2>3. /\ r \in TaskRecord /\ r.at = "failed" /\ r.kind = "pair" /\ r.id = None /\ r.seen = <<>>
        /\ r.base = None /\ r.gone = {}
    BY <1>0, <2>2, NewPlace DEF Blank
  <2> HIDE DEF r, me
  <2>4. Blank(r) /\ Shape(r) /\ ~Private(r) /\ Own(r) = {}
    BY <2>3 DEF Blank, Shape, Private, Own, Asking, Migration
  <2>5. Begins(t, r)
    BY <2>1, <2>3, <2>4 DEF Begins
  <2> QED BY <2>3, <2>5 DEF Step, AnyStep
<1>4. ASSUME NEW at \in {"post", "reply", "cleanup", "failed"}, NEW r,
             r = [me EXCEPT !.at = at] \/ (at = "cleanup" /\ r = Fails(me)), Goes(t, r),
             me.at \in {"sign", "post", "reply", "cleanup"}, at = "failed" <=> me.at = "cleanup",
             UNCHANGED <<list, legacy, trouble, kept>>,
             bound' \in {bound, bound \cup {me.id}}, at = "reply" => me.id \in bound',
             keys' = keys \/ (keys' = keys \ {me.id} /\ at = "failed")
      PROVE  Step
  <2>1. Blank(me) /\ at \in Places /\ me.kind = "pair" /\ me.id # None
    BY <1>0, <1>4, BlankTask DEF Shape, Asking, Places, Migration
  <2>2. /\ r \in TaskRecord /\ r.at = at /\ r.kind = "pair" /\ r.id = me.id /\ r.seen = <<>>
        /\ r.base = None /\ r.gone = {}
    <3>1. "cleanup" \in Places /\ "pair" \in Kinds
      BY DEF Places, Kinds
    <3>2. CASE r = [me EXCEPT !.at = at]
      BY <1>0, <2>1, <3>2, NewPlace DEF Blank
    <3>3. CASE at = "cleanup" /\ r = [me EXCEPT !.kind = "pair", !.at = "cleanup"]
      BY <1>0, <2>1, <3>1, <3>3 DEF Blank, TaskRecord
    <3> QED BY <1>4, <3>2, <3>3 DEF Fails
  <2>3. Blank(r) /\ Shape(r) /\ Private(r) /\ Private(me) /\ me.id \in Binding
    BY <1>0, <1>4, <2>1, <2>2 DEF Blank, Shape, Private, Asking, Migration
  <2>4. /\ r.at \notin {"write", "sign"} \cup Migration
        /\ Unwritten(r) => Unwritten(me)
        /\ r.at = "failed" => ~Unwritten(r)
    BY <1>4, <2>2, <2>3 DEF Unwritten, Migration
  <2> HIDE DEF me
  <2>5. Proceeds(t, r)
    BY <1>4, <2>2, <2>3, <2>4 DEF Proceeds, me
  <2> QED BY <2>2, <2>5 DEF Step, AnyStep
<1>5. CASE SignProof(t)
  <2>1. me.at = "sign" /\ UNCHANGED <<list, legacy, keys, trouble, kept, bound>>
    BY <1>5 DEF SignProof, stationVars, At
  <2>2. Goes(t, [me EXCEPT !.at = "post"]) \/ Goes(t, Fails(me))
    BY <1>5 DEF SignProof
  <2> HIDE DEF me
  <2>3. CASE Goes(t, [me EXCEPT !.at = "post"])
    BY <1>4, <2>1, <2>3
  <2>4. CASE Goes(t, Fails(me))
    BY <1>4, <2>1, <2>4
  <2> QED BY <2>2, <2>3, <2>4
<1>6. CASE Pair(t)
  <2>1. /\ me.at = "post" /\ UNCHANGED <<list, legacy, keys, trouble, kept>>
        /\ bound' = bound \cup {me.id} /\ Goes(t, [me EXCEPT !.at = "reply"])
    BY <1>6 DEF Pair, At
  <2> HIDE DEF me
  <2> QED BY <1>4, <2>1
<1>7. CASE PairNotStored(t) \/ RequestFails(t) \/ AnswerLost(t)
  <2>1. /\ me.at \in {"post", "reply"} /\ UNCHANGED <<list, legacy, keys, trouble, kept>>
        /\ bound' \in {bound, bound \cup {me.id}} /\ Goes(t, Fails(me))
    BY <1>7 DEF PairNotStored, RequestFails, AnswerLost, At, stationVars
  <2> HIDE DEF me
  <2> QED BY <1>4, <2>1
<1>8. CASE Answered(t)
  <2> DEFINE r == Started("save", me.id)
  <2>1. Goes(t, r) /\ me.at = "reply" /\ UNCHANGED <<list, legacy, keys, trouble, kept, bound>>
    BY <1>8 DEF Answered, stationVars, At
  <2>2. me.kind = "pair" /\ me.id # None /\ "save" \in Kinds
    BY <1>0, <2>1 DEF Shape, Asking, Kinds
  <2>3. Blank(r) /\ r.kind = "save" /\ r.at = "list" /\ r.id = me.id
    BY <1>0, <2>2, NewTask
  <2> HIDE DEF r, me
  <2>4. Shape(r) /\ Private(r) /\ Private(me) /\ Unwritten(me)
    BY <2>1, <2>2, <2>3 DEF Blank, Shape, Private, Unwritten, Asking, Migration
  <2>5. me.id \in Binding /\ r \in TaskRecord
    BY <1>0, <2>2, <2>3 DEF Blank
  <2>6. Proceeds(t, r)
    BY <2>1, <2>2, <2>3, <2>4, <2>5 DEF Proceeds, Migration, At, me
  <2> QED BY <2>5, <2>6 DEF Step, AnyStep
<1>9. CASE CleanUp(t)
  <2>1. /\ me.at = "cleanup" /\ UNCHANGED <<list, legacy, trouble, kept, bound>>
        /\ keys' \in {keys \ {me.id}, keys} /\ Goes(t, [me EXCEPT !.at = "failed"])
    BY <1>9 DEF CleanUp, KeyDeleted, At, stationVars
  <2> HIDE DEF me
  <2> QED BY <1>4, <2>1
<1> QED BY <1>1, <1>2, <1>3, <1>5, <1>6, <1>7, <1>8, <1>9 DEF Request

\* A task that has read nothing begins, or is over.
LEMMA BeginsNew ==
  ASSUME StoreOK, NEW t \in Task, UNCHANGED <<list, legacy, keys, trouble, kept, bound>>,
         NEW r, Goes(t, r),
         r = NoTask \/ \E kind \in Kinds \ {"pair", "save"}, id \in Binding \cup {None} : r = Started(kind, id)
  PROVE  Step
<1>1. Blank(r) /\ r.kind \notin {"pair", "save"} /\ r.at \in {"idle", "list"}
  <2>1. NoTask.kind = "none" /\ NoTask.at = "idle"
    BY DEF NoTask
  <2>2. CASE r = NoTask
    BY <2>1, <2>2, NewTask
  <2>3. ASSUME NEW kind \in Kinds \ {"pair", "save"}, NEW id \in Binding \cup {None},
               r = Started(kind, id)
        PROVE  Blank(r) /\ r.kind \notin {"pair", "save"} /\ r.at \in {"idle", "list"}
    BY <2>3, NewTask
  <2> QED BY <2>2, <2>3
<1>2. Shape(r) /\ ~Private(r) /\ Own(r) = {}
  BY <1>1 DEF Blank, Shape, Private, Own, Asking, Migration
<1>3. Begins(t, r) /\ r \in TaskRecord
  BY <1>1, <1>2 DEF Begins, Blank
<1> QED BY <1>3 DEF Step, AnyStep

\* The steps of the callers, of the user and of the connection.
LEMMA ContinueSteps ==
  ASSUME TypeOK, StoreOK, ShapeInv, NEW t \in Task, Continues(t) \/ User(t)
  PROVE  Step
<1> DEFINE me == task[t]
<1>0. me \in TaskRecord /\ Shape(me) /\ me.id \in Binding \cup {None}
  BY TaskType
<1>1. CASE /\ PairingFailed(t) /\ me.kind = "save" 
  <2> DEFINE r == Fails(me)
  <2>1. Goes(t, r) /\ me.at = "failed" /\ UNCHANGED <<list, legacy, keys, trouble, kept, bound>>
    BY <1>1 DEF PairingFailed, stationVars, At
  <2>2. Blank(me) /\ "cleanup" \in Places /\ "pair" \in Kinds /\ me.id # None
    BY <1>0, <1>1, <2>1, BlankTask DEF Shape, Asking, Places, Kinds, Migration
  <2>3. /\ r \in TaskRecord /\ r.at = "cleanup" /\ r.kind = "pair" /\ r.id = me.id /\ r.seen = <<>>
        /\ r.base = None /\ r.gone = {}
    BY <1>0, <2>2 DEF Blank, TaskRecord, Fails
  <2> HIDE DEF r
  <2>4. /\ Blank(r) /\ Shape(r) /\ Private(r) /\ Private(me) /\ ~Unwritten(r) /\ me.id \in Binding
        /\ r.at \notin {"write", "sign"} \cup Migration
    BY <1>0, <1>1, <2>1, <2>2, <2>3 DEF Blank, Shape, Private, Unwritten, Asking, Migration
  <2> HIDE DEF me
  <2>5. Proceeds(t, r)
    BY <2>1, <2>3, <2>4 DEF Proceeds, me
  <2> QED BY <2>3, <2>5 DEF Step, AnyStep
<1>2. CASE ~(PairingFailed(t) /\ me.kind = "save")
  <2>1. UNCHANGED <<list, legacy, keys, trouble, kept, bound>>
    BY <1>2 DEF Continues, User, Paired, PairingFailed, HomeDone, Pruned, Listed, Selected, Loaded, Cleared,
                Dropped, Back, ReScan, Ready, Open, stationVars, phoneVars
  <2>2. conn \in Binding \cup {None} /\ {"prune", "load", "show", "select", "clear", "mark"} \subseteq Kinds
    BY DEF TypeOK, Kinds
  <2>3. \E r : /\ Goes(t, r)
               /\ r = NoTask \/ \E kind \in Kinds \ {"pair", "save"}, id \in Binding \cup {None} :
                                  r = Started(kind, id)
    <3>1. \/ Goes(t, NoTask)
          \/ \E kind \in {"prune", "load", "show", "clear"} : Goes(t, Started(kind, None))
          \/ Goes(t, Started("mark", conn)) \/ \E id \in Binding : Goes(t, Started("select", id))
      BY <1>2 DEF Continues, User, Paired, PairingFailed, HomeDone, Pruned, Listed, Selected, Loaded, Cleared,
                  Dropped, Back, ReScan, Ready, Open, ShowStations, ShowTerminal, Ends
    <3> QED BY <2>2, <3>1
  <2> QED BY <2>1, <2>3, BeginsNew
<1> QED BY <1>1, <1>2

\* A task takes ps for the list, when its list was based on it.
LEMMA TakesList ==
  ASSUME StoreOK, ShapeInv, NEW t \in Task, task[t].at \in {"list", "legacy"} \cup Migration,
         NEW me, Blank(me), me.kind = task[t].kind, me.id = task[t].id,
         NEW ps \in Seq(Record), Ids(ps) \subseteq Stored \cup Ids(task[t].seen),
         NEW r, Goes(t, r), r = Based(AfterList(me, ps), ps) \/ (r = AfterList(me, ps) /\ ps = <<>>),
         UNCHANGED <<list, keys, kept, bound>>, trouble \subseteq trouble', trouble' \subseteq Troubles,
         legacy' = legacy \/ (legacy' = None /\ At(t, "migrateDelete"))
  PROVE  Step
<1>3. me.kind # "pair" /\ (me.kind = "save" => me.id # None)
  <2>1. Shape(task[t])
    BY TaskType
  <2> QED BY <2>1 DEF Shape, Asking, Migration
<1> DEFINE q == AfterList(me, ps)
<1>1. /\ q \in TaskRecord /\ q.kind = me.kind /\ q.base = None
      /\ q.at \in {"write", "select", "selected", "stations", "end", "failed"}
      /\ q.at # "write" => /\ Ids(q.seen) \subseteq Ids(ps) /\ q.gone = {}
                           /\ q.seen # <<>> => q.at = "selected"
      /\ q.at = "selected" => q.kind \in {"load", "clear"} /\ q.seen # <<>>
      /\ q.at = "write" => /\ q.kind \in {"save", "mark", "remove", "prune"}
                           /\ Ids(q.seen) = (Ids(ps) \ q.gone) \cup Own(q)
                           /\ q.gone \subseteq Ids(ps)
                           /\ q.gone # {} => q.kind \in {"remove", "prune"}
      /\ q.kind = "save" => q.at = "write" /\ q.id = me.id
  BY <1>3, AfterListTask
<1> HIDE DEF q
<1>2. /\ r \in TaskRecord /\ r.kind = q.kind /\ r.at = q.at /\ r.id = q.id /\ r.seen = q.seen /\ r.gone = q.gone
      /\ r.at = "write" => Base(r) = Ids(ps)
      /\ r.at # "write" => r.base = None
  <2>1. ps # None /\ Ids(<<>>) = {}
    <3>1. <<>> \in Seq(Record)
      OBVIOUS
    <3> QED BY <3>1, RecordIds
  <2>2. CASE q.at = "write" /\ r = [q EXCEPT !.base = ps]
    BY <1>1, <2>1, <2>2 DEF TaskRecord, Base
  <2>3. CASE q.at # "write" /\ r = q
    BY <1>1, <2>3
  <2>4. CASE r = q /\ ps = <<>>
    BY <1>1, <2>1, <2>4 DEF Base
  <2> QED BY <2>2, <2>3, <2>4 DEF Based, q
<1>4. Own(r) = Own(q)
  BY <1>2 DEF Own
<1>5. Shape(r)
  BY <1>1, <1>2, <1>3, <1>4 DEF Shape, Asking, Migration
<1>6. /\ Ids(r.seen) \subseteq Ids(ps) \cup Own(r) /\ r.gone \subseteq Ids(ps) /\ (r.at # "write" => r.gone = {})
      /\ r.at \in {"write", "select", "selected", "stations", "end", "failed"} /\ r.kind = task[t].kind
      /\ r.kind = "save" => r.at = "write" /\ r.id = task[t].id
  BY <1>1, <1>2, <1>4
<1>7. Takes(t, r, ps)
  BY <1>2, <1>5, <1>6 DEF Takes
<1> QED BY <1>2, <1>7 DEF Step, AnyStep

\* The steps of the storage functions (storage.ts).
LEMMA StoreSteps ==
  ASSUME StoreOK, ShapeInv, NEW t \in Task, Storage(t)
  PROVE  Step
<1> DEFINE me == task[t]
<1>0. me \in TaskRecord /\ Shape(me) /\ me.id \in Binding \cup {None} /\ me.seen \in Seq(Record)
  BY TaskType
<1>a. UNCHANGED bound /\ (~At(t, "write") => kept' = kept)
  BY DEF Storage, stationVars
<1>b. <<>> \in Seq(Record) /\ Ids(<<>>) = {}
  <2>1. <<>> \in Seq(Record)
    OBVIOUS
  <2> QED BY <2>1, RecordIds
<1>c. trouble \subseteq Troubles
  BY DEF StoreOK
<1>1. CASE ReadList(t) /\ list # None
  <2>1. /\ me.at = "list" /\ Goes(t, Based(AfterList(me, list), list))
        /\ UNCHANGED <<list, legacy, keys, trouble, kept, bound>>
    BY <1>1, <1>a DEF ReadList, At
  <2>2. Blank(me) /\ list \in Seq(Record) /\ Ids(list) = Stored
    BY <1>0, <1>1, <2>1, BlankTask DEF Migration, StoreOK, Stored
  <2> HIDE DEF me
  <2> QED BY <1>c, <2>1, <2>2, TakesList DEF me
<1>2. CASE ReadList(t) /\ list = None
  <2> DEFINE r == [me EXCEPT !.at = "legacy"]
  <2>1. /\ me.at = "list" /\ Goes(t, r) /\ UNCHANGED <<list, legacy, keys, trouble, kept, bound>>
    BY <1>2, <1>a DEF ReadList, At
  <2>2. Blank(me) /\ "legacy" \in Places
    BY <1>0, <2>1, BlankTask DEF Migration, Places
  <2>3. /\ r \in TaskRecord /\ r.at = "legacy" /\ r.kind = me.kind /\ r.id = me.id /\ r.seen = <<>>
        /\ r.base = None /\ r.gone = {}
    BY <1>0, <2>2, NewPlace DEF Blank
  <2> HIDE DEF r
  <2>4. Shape(r)
    BY <1>0, <2>1, <2>3 DEF Shape, Asking, Migration
  <2>5. (r.kind = "save" => Private(me)) /\ (Unwritten(r) => Unwritten(me))
    BY <2>1, <2>3 DEF Private, Unwritten
  <2> HIDE DEF me
  <2>6. Reads(t, r)
    BY <1>b, <2>1, <2>3, <2>4, <2>5 DEF Reads, At, me, Blank
  <2> QED BY <2>3, <2>6 DEF Step, AnyStep
<1>3. CASE ReadLegacy(t) /\ legacy = None
  <2>1. /\ me.at = "legacy" /\ Goes(t, AfterList(me, <<>>))
        /\ UNCHANGED <<list, legacy, keys, trouble, kept, bound>>
    BY <1>3, <1>a DEF ReadLegacy, At
  <2>2. Blank(me)
    BY <1>0, <2>1, BlankTask DEF Migration
  <2> HIDE DEF me
  <2> QED BY <1>b, <1>c, <2>1, <2>2, TakesList DEF me
<1>4. CASE ReadLegacy(t) /\ legacy # None
  <2> DEFINE seen == <<legacy>>
             r == [me EXCEPT !.at = "migrate", !.seen = seen]
  <2>1. /\ me.at = "legacy" /\ Goes(t, r) /\ UNCHANGED <<list, legacy, keys, trouble, kept, bound>>
    BY <1>4, <1>a DEF ReadLegacy, At
  <2>2. Blank(me) /\ "migrate" \in Places
    BY <1>0, <2>1, BlankTask DEF Migration, Places
  <2>3. seen \in Seq(Record) /\ Len(seen) = 1 /\ Ids(seen) = Legacy
    <3>1. legacy \in Record
      BY <1>4 DEF StoreOK
    <3>2. DOMAIN seen = {1} /\ seen[1] = legacy
      OBVIOUS
    <3>3. seen \in Seq(Record) /\ Len(seen) = 1
      BY <3>1
    <3> QED BY <1>4, <3>2, <3>3 DEF Ids, Legacy
  <2> HIDE DEF seen
  <2>4. /\ r \in TaskRecord /\ r.at = "migrate" /\ r.kind = me.kind /\ r.id = me.id /\ r.seen = seen
        /\ r.base = None /\ r.gone = {}
    BY <1>0, <2>2, <2>3 DEF Blank, TaskRecord
  <2> HIDE DEF r
  <2>5. Shape(r)
    BY <1>0, <2>1, <2>3, <2>4 DEF Shape, Asking, Migration
  <2> HIDE DEF me
  <2>6. TakesOld(t, r)
    BY <2>1, <2>3, <2>4, <2>5 DEF TakesOld, At, me
  <2> QED BY <2>4, <2>6 DEF Step, AnyStep
<1>5. CASE MigrateList(t)
  <2> DEFINE r == [me EXCEPT !.at = "migrateSelect"]
  <2>1. /\ me.at = "migrate" /\ Goes(t, r) /\ UNCHANGED <<legacy, keys, kept, bound>>
        /\ list' = me.seen /\ trouble' = Raced(None)
    BY <1>5, <1>a DEF MigrateList, At
  <2>2. /\ r \in TaskRecord /\ r.at = "migrateSelect" /\ r.kind = me.kind /\ r.id = me.id
        /\ r.seen = me.seen /\ r.base = me.base /\ r.gone = me.gone
    BY <1>0, NewPlace DEF Places
  <2> HIDE DEF r
  <2>3. Shape(r) /\ r.gone = {}
    BY <1>0, <2>1, <2>2 DEF Shape, Asking, Migration
  <2> HIDE DEF me
  <2>4. Migrates(t, r)
    BY <2>1, <2>2, <2>3 DEF Migrates, At, me
  <2> QED BY <2>2, <2>4 DEF Step, AnyStep
<1>6. CASE MigrateSelection(t)
  <2> DEFINE r == [me EXCEPT !.at = "migrateDelete"]
  <2>1. /\ me.at = "migrateSelect" /\ Goes(t, r) /\ UNCHANGED <<list, legacy, keys, trouble, kept, bound>>
    BY <1>6, <1>a DEF MigrateSelection, At
  <2>2. /\ r \in TaskRecord /\ r.at = "migrateDelete" /\ r.kind = me.kind /\ r.id = me.id
        /\ r.seen = me.seen /\ r.base = me.base /\ r.gone = me.gone
    BY <1>0, NewPlace DEF Places
  <2> HIDE DEF r
  <2>3. Shape(r) /\ r.gone = {}
    BY <1>0, <2>1, <2>2 DEF Shape, Asking, Migration
  <2>4. (r.kind = "save" => Private(me)) /\ (Unwritten(r) => Unwritten(me)) /\ r.at \notin Asking /\ r.kind # "pair"
    BY <1>0, <2>1, <2>2 DEF Private, Unwritten, Asking, Shape, Migration
  <2> HIDE DEF me
  <2>5. Moves(t, r)
    BY <1>c, <2>1, <2>2, <2>3, <2>4 DEF Moves, At, me
  <2> QED BY <2>2, <2>5 DEF Step, AnyStep
<1>7. CASE MigrateDelete(t)
  <2> DEFINE ps == me.seen
             x == [me EXCEPT !.seen = <<>>]
  <2>1. /\ me.at = "migrateDelete" /\ Goes(t, Based(AfterList(x, ps), ps)) /\ legacy' = None
        /\ UNCHANGED <<list, keys, trouble, kept, bound>>
    BY <1>7, <1>a DEF MigrateDelete, At
  <2>2. Blank(x) /\ x.kind = me.kind /\ x.id = me.id
    BY <1>0, <1>b, <2>1 DEF Blank, TaskRecord, Shape
  <2>3. ps \in Seq(Record) /\ me.at \in Migration
    BY <1>0, <2>1 DEF Migration
  <2> HIDE DEF x, me
  <2> QED BY <1>c, <2>1, <2>2, <2>3, TakesList DEF me, At
<1>8. CASE WriteList(t)
  <2> DEFINE r == [AfterWrite(me) EXCEPT !.base = None]
  <2>1. /\ At(t, "write") /\ me.at = "write" /\ Goes(t, r) /\ UNCHANGED <<legacy, keys, bound>>
        /\ list' = me.seen /\ trouble' = Raced(me.base)
        /\ kept' = IF me.kind = "save" THEN kept \cup {me.id} ELSE kept \ me.gone
    BY <1>8 DEF WriteList, At, Storage, stationVars
  <2>2. /\ me.kind \in {"save", "mark", "remove", "prune"}
        /\ me.gone # {} => me.kind \in {"remove", "prune"}
        /\ me.kind = "save" => me.id # None
    BY <1>0, <2>1 DEF Shape
  <2>3. \/ me.kind = "save" /\ r = [me EXCEPT !.at = "select", !.seen = <<>>, !.base = None]
        \/ me.kind = "mark" /\ r = [me EXCEPT !.at = "end", !.seen = <<>>, !.base = None]
        \/ me.kind \in {"remove", "prune"} /\ r = [me EXCEPT !.at = "selected", !.base = None]
    <3>1. CASE me.kind = "save"
      BY <1>0, <3>1 DEF AfterWrite, TaskRecord
    <3>2. CASE me.kind = "mark"
      BY <1>0, <3>2 DEF AfterWrite, TaskRecord
    <3>3. CASE me.kind \in {"remove", "prune"}
      BY <1>0, <3>3 DEF AfterWrite, TaskRecord
    <3> QED BY <2>2, <3>1, <3>2, <3>3
  <2> HIDE DEF r
  <2>4. /\ r \in TaskRecord /\ r.kind = me.kind /\ r.id = me.id /\ r.gone = me.gone /\ r.base = None
        /\ \/ me.kind = "save" /\ r.at = "select" /\ r.seen = <<>>
           \/ me.kind = "mark" /\ r.at = "end" /\ r.seen = <<>>
           \/ me.kind \in {"remove", "prune"} /\ r.at = "selected" /\ r.seen = me.seen
    <3>1. {"select", "end", "selected"} \subseteq Places /\ None \in Seq(Record) \cup {None}
      BY DEF Places
    <3> QED BY <1>0, <1>b, <2>3, <3>1 DEF TaskRecord
  <2>5. Shape(r)
    BY <2>2, <2>4 DEF Shape, Asking, Migration
  <2> HIDE DEF me
  <2>6. Writes(t, r)
    BY <2>1, <2>4, <2>5 DEF Writes, me
  <2> QED BY <2>4, <2>6 DEF Step, AnyStep
<1>9. CASE ReadSelected(t) \/ Reselect(t) \/ WriteSelected(t)
  <2> DEFINE found == Found(me.seen)
  <2>1. /\ UNCHANGED <<list, legacy, keys, trouble, kept, bound>>
        /\ \/ me.at = "selected" /\ Goes(t, AfterSelected(me))
           \/ me.at = "reselect" /\ Goes(t, [me EXCEPT !.at = "dropKeys", !.seen = <<>>])
           \/ me.at = "select" /\ Goes(t, [me EXCEPT !.at = "end"])
    BY <1>9, <1>a DEF ReadSelected, Reselect, WriteSelected, At
  <2>2. me.kind \in {"load", "clear"} /\ me.at = "selected" => found \in Binding
    <3>1. me.kind \in {"load", "clear"} /\ me.at = "selected" => me.seen # <<>>
      BY <1>0 DEF Shape
    <3> QED BY <1>0, <3>1, RecordIds DEF Found, Record
  <2> HIDE DEF found
  <2>3. PICK r : /\ Goes(t, r)
                 /\ \/ me.at = "selected" /\ me.kind = "load" /\ r = [me EXCEPT !.at = "end", !.id = found, !.seen = <<>>]
                    \/ me.at = "selected" /\ me.kind = "clear" /\ r = Started("remove", found)
                    \/ /\ me.at = "selected" /\ me.kind \notin {"load", "clear"}
                       /\ (r = [me EXCEPT !.at = "reselect"] \/ r = [me EXCEPT !.at = "dropKeys", !.seen = <<>>])
                    \/ me.at = "reselect" /\ r = [me EXCEPT !.at = "dropKeys", !.seen = <<>>]
                    \/ me.at = "select" /\ r = [me EXCEPT !.at = "end"]
    <3>1. CASE me.at = "selected" /\ me.kind = "load"
      <4>0. selected \notin me.gone
        BY <1>0, <3>1 DEF Shape
      <4>1. AfterSelected(me) = [me EXCEPT !.at = "end", !.id = found, !.seen = <<>>]
        BY <4>0, <3>1 DEF AfterSelected, found
      <4> HIDE DEF me
      <4> QED BY <2>1, <3>1, <4>1
    <3>2. CASE me.at = "selected" /\ me.kind = "clear"
      <4>0. selected \notin me.gone
        BY <1>0, <3>2 DEF Shape
      <4>1. AfterSelected(me) = Started("remove", found)
        BY <4>0, <3>2 DEF AfterSelected, found
      <4> HIDE DEF me
      <4> QED BY <2>1, <3>2, <4>1
    <3>3. CASE me.at = "selected" /\ me.kind \notin {"load", "clear"}
      <4>1. AfterSelected(me) \in {[me EXCEPT !.at = "reselect"], [me EXCEPT !.at = "dropKeys", !.seen = <<>>]}
        BY <3>3 DEF AfterSelected
      <4> HIDE DEF me
      <4> QED BY <2>1, <3>3, <4>1
    <3>4. CASE me.at # "selected"
      <4> HIDE DEF me
      <4> QED BY <2>1, <3>4
    <3> QED BY <3>1, <3>2, <3>3, <3>4
  <2>5. /\ me.at \in {"selected", "reselect", "select"} /\ me.base = None /\ me.gone \subseteq Binding
        /\ me.at = "select" => me.seen = <<>> /\ me.gone = {}
        /\ me.kind \in {"load", "clear"} => me.gone = {}
        /\ me.kind # "pair" /\ (me.kind = "save" => me.at = "select" /\ me.id # None)
    BY <1>0, <2>3 DEF Shape, Asking, Migration, TaskRecord
  <2>6. /\ r \in TaskRecord /\ r.base = None /\ Ids(r.seen) \subseteq Ids(me.seen)
        /\ r.gone = {} \/ r.gone = me.gone
        /\ \/ r.at = "end" /\ r.seen = <<>> /\ r.gone = {}
              /\ (r.kind = "save" => me.kind = "save" /\ r.id = me.id) /\ r.kind = me.kind
           \/ r.at = "list" /\ r.kind = "remove" /\ r.seen = <<>> /\ r.gone = {}
           \/ /\ r.at \in {"reselect", "dropKeys"} /\ r.kind = me.kind /\ me.at \in {"selected", "reselect"}
              /\ r.at = "dropKeys" => r.seen = <<>>
    <3>1. {"end", "reselect", "dropKeys"} \subseteq Places /\ "remove" \in Kinds /\ None \in Seq(Record) \cup {None}
      BY DEF Places, Kinds
    <3>2. CASE me.at = "selected" /\ me.kind = "load" /\ r = [me EXCEPT !.at = "end", !.id = found, !.seen = <<>>]
      <4>1. found \in Binding
        BY <2>2, <3>2
      <4>2. /\ r \in TaskRecord /\ r.at = "end" /\ r.seen = <<>> /\ r.gone = {} /\ r.kind = "load"
            /\ r.base = None
        BY <1>0, <1>b, <2>5, <3>1, <3>2, <4>1 DEF TaskRecord
      <4> QED BY <1>b, <3>2, <4>2
    <3>3. CASE me.at = "selected" /\ me.kind = "clear" /\ r = Started("remove", found)
      <4>1. found \in Binding
        BY <2>2, <3>3
      <4>2. Blank(r) /\ r.kind = "remove" /\ r.at = "list"
        BY <3>1, <3>3, <4>1, NewTask
      <4> QED BY <1>b, <4>2 DEF Blank
    <3>4. CASE me.at = "selected" /\ me.kind \notin {"load", "clear"} /\ r = [me EXCEPT !.at = "reselect"]
      BY <1>0, <2>5, <3>1, <3>4, NewPlace
    <3>5. CASE me.at \in {"selected", "reselect"} /\ r = [me EXCEPT !.at = "dropKeys", !.seen = <<>>]
      <4>1. /\ r \in TaskRecord /\ r.at = "dropKeys" /\ r.seen = <<>> /\ r.gone = me.gone /\ r.kind = me.kind
            /\ r.base = None
        BY <1>0, <1>b, <2>5, <3>1, <3>5 DEF TaskRecord
      <4> QED BY <1>b, <3>5, <4>1
    <3>6. CASE me.at = "select" /\ r = [me EXCEPT !.at = "end"]
      BY <1>0, <2>5, <3>1, <3>6, NewPlace
    <3> QED BY <2>3, <3>2, <3>3, <3>4, <3>5, <3>6
  <2>7. Shape(r) /\ ~Private(r) /\ ~Unwritten(r)
    BY <1>0, <2>3, <2>5, <2>6 DEF Shape, Private, Unwritten, Asking, Migration
  <2>8. r.at \notin {"legacy", "migrate", "migrateSelect", "write", "migrateDelete"} \cup Asking /\ r.kind # "pair"
    BY <2>5, <2>6 DEF Asking
  <2> HIDE DEF me
  <2>9. Moves(t, r)
    BY <1>c, <2>1, <2>3, <2>5, <2>6, <2>7, <2>8 DEF Moves, At, me
  <2> QED BY <2>6, <2>9 DEF Step, AnyStep
<1>10. CASE DropKeys(t)
  <2> DEFINE r == [me EXCEPT !.at = "end", !.gone = {}]
  <2>1. /\ me.at = "dropKeys" /\ Goes(t, r) /\ UNCHANGED <<list, legacy, trouble, kept, bound>>
        /\ keys \ me.gone \subseteq keys' /\ keys' \subseteq keys
    BY <1>10, <1>a DEF DropKeys, At
  <2>2. me.kind \notin {"pair", "save"} /\ me.seen = <<>> /\ me.base = None
    BY <1>0, <2>1 DEF Shape, Asking, Migration
  <2>3. r \in TaskRecord /\ r.at = "end" /\ r.kind = me.kind /\ r.seen = <<>> /\ r.base = None /\ r.gone = {}
    BY <1>0, <2>2 DEF TaskRecord, Places
  <2> HIDE DEF r
  <2>4. Blank(r) /\ Shape(r) /\ ~Private(r) /\ Own(r) = {}
    BY <2>2, <2>3 DEF Blank, Shape, Private, Own, Asking, Migration
  <2> HIDE DEF me
  <2>5. Drops(t, r)
    BY <2>1, <2>3, <2>4 DEF Drops, At, me
  <2> QED BY <2>3, <2>5 DEF Step, AnyStep
<1> QED BY <1>1, <1>2, <1>3, <1>4, <1>5, <1>6, <1>7, <1>8, <1>9, <1>10 DEF Storage, StoreStep

\* A storage call that rejects.
LEMMA StoreFailSteps ==
  ASSUME StoreOK, ShapeInv, NEW t \in Task, StorageFails(t)
  PROVE  Step
<1> DEFINE me == task[t]
<1>0. me \in TaskRecord /\ Shape(me) /\ me.id \in Binding \cup {None} /\ me.kind \in Kinds
  BY TaskType
<1>1. UNCHANGED <<list, legacy, keys, bound>> /\ trouble \subseteq trouble' /\ trouble' \subseteq Troubles
  <2>1. UNCHANGED <<list, legacy, keys, bound>>
    BY DEF StorageFails, StoreFails, stationVars
  <2>2. trouble' \in {trouble, trouble \cup {"halfMigrated"}, trouble \cup {"halfSaved"}}
    BY DEF StorageFails, StoreFails
  <2>3. trouble \subseteq Troubles /\ {"halfMigrated", "halfSaved"} \subseteq Troubles
    BY DEF StoreOK, Troubles
  <2> QED BY <2>1, <2>2, <2>3
<1>2. CASE Migrating(t) /\ Goes(t, AfterList([task[t] EXCEPT !.seen = <<>>], <<>>))
  <2> DEFINE x == [me EXCEPT !.seen = <<>>]
  <2>1. <<>> \in Seq(Record) /\ Ids(<<>>) = {}
    <3>1. <<>> \in Seq(Record)
      OBVIOUS
    <3> QED BY <3>1, RecordIds
  <2>2. me.at \in Migration
    BY <1>2 DEF Migrating, Migration
  <2>3. Blank(x) /\ x.kind = me.kind /\ x.id = me.id
    BY <1>0, <2>1, <2>2 DEF Blank, TaskRecord, Shape, Migration
  <2>4. kept' = kept
    BY <2>2 DEF StorageFails, At, Migration
  <2>5. Goes(t, AfterList(x, <<>>))
    BY <1>2
  <2> HIDE DEF x, me
  <2> QED BY <1>1, <2>1, <2>2, <2>3, <2>4, <2>5, TakesList DEF me
<1>3. CASE /\ Storing(t)
           /\ Goes(t, [NoTask EXCEPT !.kind = task[t].kind, !.at = "failed", !.id = task[t].id])
           /\ trouble' = IF At(t, "select") /\ task[t].kind = "save" THEN trouble \cup {"halfSaved"} ELSE trouble
  <2> DEFINE r == [NoTask EXCEPT !.kind = me.kind, !.at = "failed", !.id = me.id]
  <2>1. Goes(t, r) /\ me.at \in {"list", "legacy", "write", "selected", "reselect", "select"}
    BY <1>3 DEF Storing
  <2>2. NoTask \in TaskRecord /\ NoTask.seen = <<>> /\ NoTask.base = None /\ NoTask.gone = {} /\ "failed" \in Places
    BY NewTask DEF Blank, Places
  <2>3. /\ r \in TaskRecord /\ r.at = "failed" /\ r.kind = me.kind /\ r.id = me.id /\ r.seen = <<>>
        /\ r.base = None /\ r.gone = {}
    BY <1>0, <2>2 DEF TaskRecord
  <2> HIDE DEF r
  <2>4. Shape(r) /\ r.kind # "pair"
    BY <1>0, <2>1, <2>3 DEF Shape, Asking, Migration
  <2>5. kept' \subseteq kept
    BY DEF StorageFails
  <2>6. r.kind = "save" /\ Private(r) /\ ~Private(me) => "halfSaved" \in trouble'
    BY <1>3, <2>1, <2>3 DEF Private, At
  <2>7. ~Unwritten(r) /\ r.at \notin {"legacy", "migrate", "migrateSelect", "write"} \cup Asking /\ r.at # "migrateDelete"
    BY <2>3 DEF Unwritten, Asking
  <2>8. Ids(r.seen) \subseteq Ids(me.seen)
    BY <2>3 DEF Ids
  <2> HIDE DEF me
  <2>9. Moves(t, r)
    BY <1>1, <2>1, <2>3, <2>4, <2>5, <2>6, <2>7, <2>8 DEF Moves, me
  <2> QED BY <2>3, <2>9 DEF Step, AnyStep
<1> QED BY <1>2, <1>3 DEF StorageFails, StoreFails

\* Records that age stay records of the same Stations.
LEMMA OlderRecords ==
  ASSUME NEW ps \in Seq(Record)
  PROVE  LET qs == [i \in DOMAIN ps |-> [ps[i] EXCEPT !.fresh = FALSE]]
         IN  qs \in Seq(Record) /\ Ids(qs) = Ids(ps)
<1> DEFINE qs == [i \in DOMAIN ps |-> [ps[i] EXCEPT !.fresh = FALSE]]
<1>1. \A i \in DOMAIN ps : ps[i] \in Record
  OBVIOUS
<1>2. \A i \in DOMAIN ps : qs[i] \in Record /\ qs[i].id = ps[i].id
  BY <1>1 DEF Record
<1>3. Len(ps) \in Nat /\ DOMAIN qs = 1..Len(ps) /\ DOMAIN ps = 1..Len(ps)
  OBVIOUS
<1>4. qs = [i \in 1..Len(ps) |-> qs[i]]
  BY <1>3
<1> HIDE DEF qs
<1>5. qs \in Seq(Record)
  BY <1>2, <1>3, <1>4
<1>6. Ids(qs) = Ids(ps)
  BY <1>2, <1>3 DEF Ids
<1> QED BY <1>5, <1>6 DEF qs

\* All records age.
LEMMA AgeSteps ==
  ASSUME TypeOK, StoreOK, Ages, UNCHANGED <<phoneVars, stationVars, faults, kept>>
  PROVE  Step
<1>1. \A t \in Task : task[t] = NoTask
  BY DEF Ages, Free
<1>2. UNCHANGED <<keys, task, trouble, kept, bound>>
  BY DEF Ages, stationVars
<1>3. (list' = None <=> list = None) /\ Stored' = Stored /\ list' \in {None} \cup Seq(Record)
  <2>1. CASE list = None
    BY <2>1 DEF Ages, Stored
  <2>2. CASE list # None
    <3>1. list \in Seq(Record) /\ list' = [i \in DOMAIN list |-> [list[i] EXCEPT !.fresh = FALSE]]
      BY <2>2 DEF Ages, StoreOK
    <3>2. list' \in Seq(Record) /\ Ids(list') = Ids(list)
      BY <3>1, OlderRecords
    <3> QED BY <2>2, <3>2 DEF Stored
  <2> QED BY <2>1, <2>2
<1>4. Legacy' = Legacy /\ legacy' \in Record \cup {None}
  <2>1. CASE legacy = None
    BY <2>1 DEF Ages, Legacy
  <2>2. CASE legacy # None
    <3>1. legacy \in Record /\ legacy' = [legacy EXCEPT !.fresh = FALSE]
      BY <2>2 DEF Ages, StoreOK
    <3>2. legacy'.id = legacy.id /\ legacy' \in Record
      BY <3>1 DEF Record
    <3> QED BY <2>2, <3>2 DEF Legacy
  <2> QED BY <2>1, <2>2
<1>5. Older
  BY <1>1, <1>2, <1>3, <1>4 DEF Older
<1> QED BY <1>5 DEF Step

\* Every step of the phone and of the Station is one of the kinds above.
LEMMA NextSteps ==
  ASSUME TypeOK, ShapeInv, [Next]_vars
  PROVE  Step
<1>0. StoreOK
  BY DEF TypeOK, StoreTypeOK, StoreOK
<1>1. CASE Still
  BY <1>1 DEF Step
<1>2. CASE UNCHANGED vars
  BY <1>1, <1>2 DEF vars, storeVars, stationVars, Still
<1>3. CASE Scan \/ RetryScanning \/ AddStation \/ CodeExpires \/ NewCode
  BY <1>1, <1>3 DEF Scan, RetryScanning, AddStation, CodeExpires, NewCode, storeVars, stationVars, Still
<1>4. CASE Crash
  <2>1. UNCHANGED <<list, legacy, keys, trouble, kept, bound>> /\ task' \in Launched
    BY <1>4 DEF Crash, stationVars
  <2>2. PICK first \in Task : task' = [t \in Task |-> IF t = first THEN Started("home", None) ELSE NoTask]
    BY <2>1 DEF Launched
  <2>3. NoTask \in TaskRecord /\ Started("home", None) \in TaskRecord
    BY NewTask DEF Blank, Kinds
  <2>4. (\A t \in Task : task'[t] \in {NoTask, Started("home", None)}) /\ task' \in [Task -> TaskRecord]
    BY <2>2, <2>3
  <2> QED BY <2>1, <2>4 DEF Restarts, Step
<1>5. CASE Ages /\ UNCHANGED <<phoneVars, stationVars, faults, kept>>
  BY <1>0, <1>5, AgeSteps
<1>6. ASSUME NEW t \in Task, Continues(t) \/ User(t)
      PROVE  Step
  BY <1>0, <1>6, ContinueSteps
<1>7. ASSUME NEW t \in Task, Request(t)
      PROVE  Step
  BY <1>0, <1>7, RequestSteps
<1>8. ASSUME NEW t \in Task, Storage(t)
      PROVE  Step
  BY <1>0, <1>8, StoreSteps
<1>9. ASSUME NEW t \in Task, StorageFails(t)
      PROVE  Step
  BY <1>0, <1>9, StoreFailSteps
<1> QED BY <1>2, <1>3, <1>4, <1>5, <1>6, <1>7, <1>8, <1>9 DEF Next, Callback

-----------------------------------------------------------------------------
(* Types                                                                     *)

\* A new task in place of an old one.
LEMMA NewRecord ==
  ASSUME StoreOK, NEW t \in Task, NEW r \in TaskRecord, Goes(t, r)
  PROVE  /\ task' \in [Task -> TaskRecord] /\ task'[t] = r
         /\ \A u \in Task \ {t} : task'[u] = task[u]
BY DEF StoreOK, Goes

\* Every step keeps the shapes.
LEMMA ShapeStep ==
  ASSUME StoreOK, ShapeInv, Step
  PROVE  ShapeInv' /\ task' \in [Task -> TaskRecord]
<1>1. CASE Still
  BY <1>1 DEF Still, ShapeInv, StoreOK
<1>2. CASE Older
  BY <1>2 DEF Older, ShapeInv, StoreOK
<1>3. CASE Restarts
  <2>1. ASSUME NEW t \in Task
        PROVE  Shape(task'[t])
    <3>1. Blank(task'[t]) /\ task'[t].kind \in {"none", "home"} /\ task'[t].at \in {"idle", "list"}
      <4>1. NoTask.kind = "none" /\ NoTask.at = "idle"
        BY DEF NoTask
      <4> QED BY <1>3, <4>1, NewTask DEF Restarts, Kinds
    <3> QED BY <3>1 DEF Blank, Shape, Asking, Migration
  <2> QED BY <1>3, <2>1 DEF Restarts, ShapeInv
<1>4. ASSUME NEW t \in Task, NEW r \in TaskRecord, Goes(t, r), Shape(r)
      PROVE  ShapeInv' /\ task' \in [Task -> TaskRecord]
  BY <1>4, NewRecord DEF ShapeInv
<1>5. ASSUME NEW t \in Task, NEW r \in TaskRecord,
             AnyStep(t, r)
      PROVE  Goes(t, r) /\ Shape(r)
  BY <1>5 DEF AnyStep, Begins, Creates, Proceeds, Reads, TakesOld, Migrates, Writes, Moves, Drops, Takes
<1> QED BY <1>1, <1>2, <1>3, <1>4, <1>5 DEF Step, AnyStep

\* Every step keeps the types of storage.
LEMMA StoreType ==
  ASSUME TypeOK, StoreOK, ShapeInv, Step
  PROVE  /\ list' \in {None} \cup Seq(Record) /\ legacy' \in Record \cup {None}
         /\ keys' \subseteq Binding /\ trouble' \subseteq Troubles
         /\ bound' \subseteq Binding /\ kept' \subseteq Binding
<1>0. /\ list \in {None} \cup Seq(Record) /\ legacy \in Record \cup {None}
      /\ keys \subseteq Binding /\ trouble \subseteq Troubles /\ bound \subseteq Binding /\ kept \subseteq Binding
  BY DEF StoreOK
<1>1. CASE Still \/ Restarts \/ Older
  BY <1>0, <1>1 DEF Still, Restarts, Older
<1>2. ASSUME NEW base
      PROVE  Raced(base) \subseteq Troubles
  BY <1>0 DEF Raced, Troubles
<1>3. ASSUME NEW t \in Task, NEW r \in TaskRecord,
             Begins(t, r) \/ Creates(t, r) \/ Proceeds(t, r) \/ Reads(t, r) \/ TakesOld(t, r) \/ Drops(t, r)
      PROVE  /\ UNCHANGED <<list, legacy, trouble, kept>> /\ bound' \subseteq Binding
             /\ keys' \subseteq Binding
  BY <1>0, <1>3 DEF Begins, Creates, Proceeds, Reads, TakesOld, Drops
<1>4. ASSUME NEW t \in Task, NEW r \in TaskRecord, Migrates(t, r) \/ Writes(t, r)
      PROVE  /\ UNCHANGED <<legacy, keys, bound>> /\ list' \in Seq(Record) /\ trouble' \subseteq Troubles
             /\ kept' \subseteq Binding
  <2>1. task[t].seen \in Seq(Record) /\ (task[t].kind = "save" => task[t].id \in Binding)
    BY TaskType DEF Shape
  <2> QED BY <1>0, <1>2, <1>4, <2>1 DEF Migrates, Writes
<1>5. ASSUME NEW t \in Task, NEW r \in TaskRecord, Moves(t, r) \/ \E ps \in Seq(Record) : Takes(t, r, ps)
      PROVE  /\ UNCHANGED <<list, keys, bound>> /\ legacy' \in {legacy, None} /\ trouble' \subseteq Troubles
             /\ kept' \subseteq kept
  BY <1>5 DEF Moves, Takes
<1> QED BY <1>0, <1>1, <1>3, <1>4, <1>5 DEF Step, AnyStep

\* What the phone shows, and what it waits for.
LEMMA PhoneType ==
  ASSUME TypeOK, ShapeInv, [Next]_vars
  PROVE  /\ screen' \in Screens /\ job' \in Task \cup {None} /\ conn' \in Binding \cup {None}
         /\ code' \in {"live", "burned", "expired"} /\ faults' \in 0..MaxFaults
         /\ selected' \in Binding \cup {None}
<1>0. /\ screen \in Screens /\ job \in Task \cup {None} /\ conn \in Binding \cup {None}
      /\ code \in {"live", "burned", "expired"} /\ faults \in 0..MaxFaults
      /\ selected \in Binding \cup {None} /\ StoreOK
  BY DEF TypeOK, StoreTypeOK, StoreOK
<1>1. CASE UNCHANGED vars
  BY <1>0, <1>1 DEF vars, storeVars, phoneVars, stationVars
<1>2. CASE Scan \/ RetryScanning \/ AddStation \/ Crash \/ CodeExpires \/ NewCode
  BY <1>0, <1>2 DEF Scan, RetryScanning, AddStation, Crash, CodeExpires, NewCode, storeVars, phoneVars,
                    stationVars, Screens
<1>3. CASE Ages /\ UNCHANGED <<phoneVars, stationVars, faults, kept>>
  BY <1>0, <1>3 DEF Ages, phoneVars, stationVars
<1>4. ASSUME NEW t \in Task, Request(t)
      PROVE  UNCHANGED <<conn, selected>> /\ job' \in {job, t} /\ screen' \in {screen, "pairing"}
             /\ code' \in {code, "burned"} /\ faults' \in 0..MaxFaults
  <2>1. CASE ConfirmPairing(t) \/ (\E id \in Binding : CreateKey(t, id)) \/ PairingRefused(t) \/ SignProof(t)
    BY <1>0, <2>1 DEF ConfirmPairing, CreateKey, PairingRefused, SignProof, phoneVars, stationVars
  <2>2. CASE Pair(t) \/ RequestFails(t) \/ Answered(t) \/ AnswerLost(t) \/ CleanUp(t)
    BY <1>0, <2>2 DEF Pair, RequestFails, Answered, AnswerLost, CleanUp, phoneVars, stationVars
  <2>3. CASE PairNotStored(t)
    BY <1>0, <2>3 DEF PairNotStored, phoneVars
  <2> QED BY <1>4, <2>1, <2>2, <2>3 DEF Request
<1>5. ASSUME NEW t \in Task, Continues(t) \/ User(t)
      PROVE  UNCHANGED <<selected, code, faults>> /\ screen' \in Screens /\ job' \in Task \cup {None}
             /\ conn' \in Binding \cup {None}
  <2>0. task[t].id \in Binding \cup {None}
    BY <1>0, TaskType
  <2>1. CASE Paired(t) \/ PairingFailed(t) \/ HomeDone(t) \/ Pruned(t) \/ Listed(t)
    BY <1>0, <2>1 DEF Paired, PairingFailed, HomeDone, Pruned, Listed, ShowStations, ShowTerminal, phoneVars,
                      stationVars, Screens
  <2>2. CASE Selected(t) \/ Loaded(t) \/ Cleared(t) \/ Dropped(t)
    BY <1>0, <2>0, <2>2 DEF Selected, Loaded, Cleared, Dropped, ShowTerminal, phoneVars, stationVars, Screens
  <2>3. CASE Back(t) \/ ReScan(t) \/ Ready(t) \/ \E id \in Binding : Open(t, id)
    BY <1>0, <2>3 DEF Back, ReScan, Ready, Open, ShowStations, phoneVars, stationVars, Screens
  <2> QED BY <1>5, <2>1, <2>2, <2>3 DEF Continues, User
<1>6. ASSUME NEW t \in Task, Storage(t)
      PROVE  UNCHANGED <<phoneVars, stationVars, faults>> /\ selected' \in Binding \cup {None}
  <2>0. task[t].id \in Binding \cup {None} /\ task[t].seen \in Seq(Record) /\ Shape(task[t])
    BY <1>0, TaskType
  <2>1. UNCHANGED <<phoneVars, stationVars, faults>> /\ StoreStep(t)
    BY <1>6 DEF Storage
  <2>2. task[t].seen # <<>> => task[t].seen[1].id \in Binding
    <3>1. task[t].seen # <<>> => task[t].seen[1] \in Record
      BY <2>0
    <3> QED BY <3>1 DEF Record
  <2>3. At(t, "migrateSelect") => task[t].seen # <<>>
    BY <2>0 DEF At, Shape, Migration
  <2>4. CASE ReadList(t) \/ ReadLegacy(t) \/ WriteList(t) \/ ReadSelected(t) \/ DropKeys(t) \/ MigrateList(t)
             \/ MigrateDelete(t)
    BY <1>0, <2>1, <2>4 DEF ReadList, ReadLegacy, WriteList, ReadSelected, DropKeys, MigrateList, MigrateDelete
  <2>5. CASE Reselect(t) \/ WriteSelected(t) \/ MigrateSelection(t)
    BY <1>0, <2>0, <2>1, <2>2, <2>3, <2>5 DEF Reselect, WriteSelected, MigrateSelection
  <2> QED BY <2>1, <2>4, <2>5 DEF StoreStep
<1>7. ASSUME NEW t \in Task, StorageFails(t)
      PROVE  UNCHANGED <<phoneVars, stationVars, selected>> /\ faults' \in 0..MaxFaults
  BY <1>0, <1>7 DEF StorageFails, StoreFails
<1>8. UNCHANGED <<phoneVars, stationVars, faults>> => UNCHANGED <<screen, job, conn, code, faults>>
  BY DEF phoneVars, stationVars
<1>9. UNCHANGED <<phoneVars, stationVars>> => UNCHANGED <<screen, job, conn, code>>
  BY DEF phoneVars, stationVars
<1>10. "pairing" \in Screens
  BY DEF Screens
<1> QED BY <1>0, <1>1, <1>2, <1>3, <1>4, <1>5, <1>6, <1>7, <1>8, <1>9, <1>10 DEF Next, Callback

\* Every step keeps the types and the shapes.
LEMMA TypeStep ==
  ASSUME TypeOK, ShapeInv, [Next]_vars
  PROVE  TypeOK' /\ ShapeInv'
<1>1. StoreOK /\ Step
  BY NextSteps DEF TypeOK, StoreTypeOK, StoreOK
<1>2. /\ list' \in {None} \cup Seq(Record) /\ legacy' \in Record \cup {None}
      /\ keys' \subseteq Binding /\ trouble' \subseteq Troubles
      /\ bound' \subseteq Binding /\ kept' \subseteq Binding
      /\ ShapeInv' /\ task' \in [Task -> TaskRecord]
  BY <1>1, ShapeStep, StoreType
<1> QED BY <1>2, PhoneType DEF TypeOK, StoreTypeOK

\* The types and the shapes at the start.
LEMMA TypeInit ==
  ASSUME Init
  PROVE  TypeOK /\ ShapeInv
<1>1. PICK first \in Task : task = [t \in Task |-> IF t = first THEN Started("home", None) ELSE NoTask]
  BY DEF Init, Launched
<1>2. /\ \A t \in Task : Blank(task[t]) /\ task[t].kind \in {"none", "home"} /\ task[t].at \in {"idle", "list"}
      /\ task \in [Task -> TaskRecord]
  <2>1. NoTask.kind = "none" /\ NoTask.at = "idle"
    BY DEF NoTask
  <2>2. Blank(NoTask) /\ Blank(Started("home", None)) /\ Started("home", None).kind = "home"
        /\ Started("home", None).at = "list"
    BY NewTask DEF Kinds
  <2> QED BY <1>1, <2>1, <2>2 DEF Blank
<1>3. ShapeInv
  BY <1>2 DEF Blank, ShapeInv, Shape, Asking, Migration
<1>4. list \in {None} \cup Seq(Record) /\ legacy \in Record \cup {None} /\ selected \in Binding \cup {None}
      /\ kept \subseteq Binding
  <2>1. CASE list = None /\ legacy = None /\ selected = None /\ kept = {}
    BY <2>1
  <2>2. ASSUME NEW old \in Binding, kept = {old}, list = None, selected = None,
               \E fresh \in BOOLEAN : legacy = [id |-> old, fresh |-> fresh]
        PROVE  legacy \in Record
    BY <2>2 DEF Record
  <2>3. ASSUME NEW old \in Binding, kept = {old}, list = <<[id |-> old, fresh |-> TRUE]>>, selected = old
        PROVE  list \in Seq(Record)
    <3>1. [id |-> old, fresh |-> TRUE] \in Record
      BY DEF Record
    <3> QED BY <2>3, <3>1
  <2> QED BY <2>1, <2>2, <2>3 DEF Init
<1>5. TypeOK
  BY <1>2, <1>4 DEF Init, TypeOK, StoreTypeOK, Screens
<1> QED BY <1>3, <1>5

\* What is saved at first is kept, bound, and has its key.
LEMMA InitIds ==
  ASSUME Init
  PROVE  Stored \cup Legacy = kept /\ keys = kept /\ bound = kept
<1>1. keys = kept /\ bound = kept
  BY DEF Init
<1>2. CASE list = None /\ legacy = None /\ kept = {}
  BY <1>1, <1>2 DEF Stored, Legacy
<1>3. ASSUME NEW old \in Binding, kept = {old}, list = None, NEW fresh \in BOOLEAN, legacy = [id |-> old, fresh |-> fresh]
      PROVE  Stored \cup Legacy = kept
  <2>1. legacy \in Record
    BY <1>3 DEF Record
  <2> QED BY <1>3, <2>1 DEF Stored, Legacy
<1>4. ASSUME NEW old \in Binding, kept = {old}, list = <<[id |-> old, fresh |-> TRUE]>>, legacy = None
      PROVE  Stored \cup Legacy = kept
  <2>1. list \in Seq(Record)
    <3>1. [id |-> old, fresh |-> TRUE] \in Record
      BY DEF Record
    <3> QED BY <1>4, <3>1
  <2>2. DOMAIN list = {1} /\ list[1] = [id |-> old, fresh |-> TRUE]
    BY <1>4
  <2>3. Ids(list) = {old}
    BY <2>2 DEF Ids
  <2> QED BY <1>4, <2>1, <2>3 DEF Stored, Legacy
<1> QED BY <1>1, <1>2, <1>3, <1>4 DEF Init

\* Every task, the storage and the screens keep their types, and each task
\* holds what its place needs (SavedStations, Pairing).
THEOREM TypeCorrect == Spec => [](TypeOK /\ ShapeInv)
<1>1. Init => TypeOK /\ ShapeInv
  BY TypeInit
<1>2. TypeOK /\ ShapeInv /\ [Next]_vars => TypeOK' /\ ShapeInv'
  BY TypeStep
<1> QED BY <1>1, <1>2, PTL DEF Spec

-----------------------------------------------------------------------------
(* A saved Station knows the phone                                           *)

\* A blank task has no ids.
LEMMA BlankIds ==
  ASSUME NEW x, Blank(x)
  PROVE  Ids(x.seen) = {} /\ x.gone = {}
BY DEF Blank, Ids

\* What storage holds after a step, and what the next task has.
LEMMA StoredStep ==
  ASSUME StoreOK, ShapeInv, NEW t \in Task, NEW r \in TaskRecord, AnyStep(t, r)
  PROVE  /\ Legacy' \subseteq Legacy /\ bound \subseteq bound'
         /\ \/ list' = list /\ Stored' = Stored
            \/ /\ task[t].at \in {"migrate", "write"} /\ list' = task[t].seen /\ list' # None
               /\ Stored' = Ids(task[t].seen)
<1>1. bound \subseteq bound' /\ (legacy' = legacy \/ legacy' = None)
  BY DEF AnyStep, Begins, Creates, Proceeds, Reads, TakesOld, Migrates, Writes, Moves, Drops, Takes
<1>2. Legacy' \subseteq Legacy
  BY <1>1 DEF Legacy
<1>3. list' = list \/ (task[t].at \in {"migrate", "write"} /\ list' = task[t].seen)
  BY DEF AnyStep, Begins, Creates, Proceeds, Reads, TakesOld, Migrates, Writes, Moves, Drops, Takes, At
<1>4. task[t].seen # None
  BY TaskType
<1> QED BY <1>1, <1>2, <1>3, <1>4 DEF Stored

\* Every step keeps BoundInv.
LEMMA BoundStep ==
  ASSUME TypeOK, ShapeInv, BoundInv, Step
  PROVE  BoundInv'
<1>0. StoreOK
  BY DEF TypeOK, StoreTypeOK, StoreOK
<1>1. CASE Still
  BY <1>1 DEF Still, BoundInv, Known, Stored, Legacy
<1>2. CASE Older
  BY <1>2 DEF Older, BoundInv, Known
<1>3. CASE Restarts
  <2>1. ASSUME NEW t \in Task
        PROVE  Known(task[t])'
    <3>1. Blank(task'[t]) /\ task'[t].kind # "save" /\ task'[t].at # "reply"
      <4>1. NoTask.kind = "none" /\ NoTask.at = "idle"
        BY DEF NoTask
      <4> QED BY <1>3, <4>1, NewTask DEF Restarts, Kinds
    <3> QED BY <3>1, BlankIds DEF Known, Own
  <2> QED BY <1>3, <2>1 DEF Restarts, BoundInv, Stored, Legacy
<1>4. ASSUME NEW t \in Task, NEW r \in TaskRecord, AnyStep(t, r)
      PROVE  BoundInv'
  <2> DEFINE me == task[t]
  <2>1. Stored \cup Legacy \subseteq bound /\ Known(me) /\ \A u \in Task \ {t} : Known(task[u])
    BY DEF BoundInv
  <2>2. /\ Legacy' \subseteq Legacy /\ bound \subseteq bound'
        /\ Stored' = Stored \/ Stored' = Ids(me.seen)
    BY <1>0, <1>4, StoredStep
  <2>3. Goes(t, r)
    BY <1>4 DEF AnyStep, Begins, Creates, Proceeds, Reads, TakesOld, Migrates, Writes, Moves, Drops, Takes
  <2>4. task'[t] = r /\ \A u \in Task \ {t} : task'[u] = task[u]
    BY <1>0, <2>3, NewRecord
  <2>5. Ids(me.seen) \cup me.gone \cup Own(me) \subseteq bound /\ (me.at = "reply" => me.id \in bound)
    BY <2>1 DEF Known
  <2> HIDE DEF me
  <2>6. Ids(r.seen) \cup r.gone \cup Own(r) \subseteq bound' /\ (r.at = "reply" => r.id \in bound')
    <3>1. CASE Begins(t, r) \/ Drops(t, r)
      BY <3>1, BlankIds DEF Begins, Drops
    <3>2. CASE Creates(t, r)
      BY <3>2, BlankIds DEF Creates, Own
    <3>3. CASE Proceeds(t, r)
      BY <2>2, <2>5, <3>3, BlankIds DEF Proceeds, Own, At, me
    <3>4. CASE Reads(t, r)
      BY <2>2, <2>5, <3>4, BlankIds DEF Reads, Own, me
    <3>5. CASE TakesOld(t, r)
      BY <2>1, <2>2, <2>5, <3>5 DEF TakesOld, Own, me
    <3>6. CASE Migrates(t, r)
      BY <2>2, <2>5, <3>6 DEF Migrates, Own, me
    <3>7. CASE Writes(t, r)
      <4>1. Ids(<<>>) = {}
        BY DEF Ids
      <4> QED BY <2>2, <2>5, <3>7, <4>1 DEF Writes, Own, me
    <3>8. CASE Moves(t, r)
      BY <2>2, <2>5, <3>8 DEF Moves, Own, Asking, me
    <3>9. ASSUME NEW ps \in Seq(Record), Takes(t, r, ps)
          PROVE  Ids(r.seen) \cup r.gone \cup Own(r) \subseteq bound' /\ (r.at = "reply" => r.id \in bound')
      <4>1. Own(r) \subseteq Own(me)
        BY <3>9 DEF Takes, Own, me
      <4> QED BY <2>1, <2>2, <2>5, <3>9, <4>1 DEF Takes, me
    <3> QED BY <1>4, <3>1, <3>2, <3>3, <3>4, <3>5, <3>6, <3>7, <3>8, <3>9 DEF AnyStep
  <2>7. Known(r)'
    BY <2>6 DEF Known, Ids, Own
  <2>8. \A u \in Task \ {t} : Known(task[u])'
    BY <2>1, <2>2, <2>4 DEF Known, Ids, Own
  <2> QED BY <2>1, <2>2, <2>4, <2>5, <2>7, <2>8 DEF BoundInv
<1> QED BY <1>1, <1>2, <1>3, <1>4 DEF Step, AnyStep

\* BoundInv at the start.
LEMMA BoundInit ==
  ASSUME Init
  PROVE  BoundInv
<1>1. PICK first \in Task : task = [t \in Task |-> IF t = first THEN Started("home", None) ELSE NoTask]
  BY DEF Init, Launched
<1>2. \A t \in Task : Blank(task[t]) /\ task[t].kind # "save" /\ task[t].at # "reply"
  <2>1. NoTask.kind = "none" /\ NoTask.at = "idle"
    BY DEF NoTask
  <2>2. Blank(NoTask) /\ Blank(Started("home", None)) /\ Started("home", None).kind = "home"
        /\ Started("home", None).at = "list"
    BY NewTask DEF Kinds
  <2> QED BY <1>1, <2>1, <2>2
<1>3. \A t \in Task : Known(task[t])
  BY <1>2, BlankIds DEF Known, Own
<1>4. Stored \cup Legacy \subseteq bound
  BY InitIds
<1> QED BY <1>3, <1>4 DEF BoundInv

\* A Station the phone has saved knows the phone, whatever fails, crashes or
\* runs beside it (storage.ts, Auth.pair).
THEOREM SavedIsBoundAlways == Spec => []SavedIsBound
<1>1. Init => TypeOK /\ ShapeInv /\ BoundInv
  BY TypeInit, BoundInit
<1>2. TypeOK /\ ShapeInv /\ BoundInv /\ [Next]_vars => TypeOK' /\ ShapeInv' /\ BoundInv'
  BY TypeStep, NextSteps, BoundStep
<1>3. BoundInv => SavedIsBound
  BY DEF BoundInv, SavedIsBound
<1> QED BY <1>1, <1>2, <1>3, PTL DEF Spec

-----------------------------------------------------------------------------
(* A saved Station has its Device Key                                        *)

\* The id of a pairing that is not in the list.
Secret(x) == IF Private(x) THEN {x.id} ELSE {}

\* What went wrong is not forgotten.
LEMMA TroubleStays ==
  ASSUME Step
  PROVE  trouble \subseteq trouble'
BY DEF Step, AnyStep, Still, Begins, Creates, Proceeds, Reads, TakesOld, Migrates, Writes, Moves, Drops, Takes, Restarts,
       Older, Raced

\* Where the ids that a task has after a step come from.
LEMMA IdSources ==
  ASSUME StoreOK, ShapeInv, NEW t \in Task, NEW r \in TaskRecord, AnyStep(t, r)
  PROVE  LET me == task[t]
         IN  /\ Ids(r.seen) \subseteq Stored \cup Legacy \cup Ids(me.seen) \cup Secret(me)
             /\ r.gone \subseteq Stored \cup Ids(me.seen) \cup me.gone
             /\ Private(r) /\ "halfSaved" \notin trouble' => (Private(me) /\ r.id = me.id) \/ Creates(t, r)
             /\ Private(r) /\ r.at # "write" =>
                  Ids(r.seen) \subseteq Legacy \cup (IF me.at \in Migration THEN Ids(me.seen) ELSE {})
<1> DEFINE me == task[t]
<1>0. Shape(me)
  BY TaskType
<1>1. Ids(<<>>) = {}
  BY DEF Ids
<1> SUFFICES /\ Ids(r.seen) \subseteq Stored \cup Legacy \cup Ids(me.seen) \cup Secret(me)
             /\ r.gone \subseteq Stored \cup Ids(me.seen) \cup me.gone
             /\ Private(r) /\ "halfSaved" \notin trouble' => (Private(me) /\ r.id = me.id) \/ Creates(t, r)
             /\ Private(r) /\ r.at # "write" =>
                  Ids(r.seen) \subseteq Legacy \cup (IF me.at \in Migration THEN Ids(me.seen) ELSE {})
  OBVIOUS
<1>2. CASE Begins(t, r) \/ Drops(t, r)
  BY <1>2, BlankIds DEF Begins, Drops
<1>3. CASE Creates(t, r)
  BY <1>3, BlankIds DEF Creates
<1>4. CASE Proceeds(t, r)
  BY <1>4, BlankIds DEF Proceeds
<1>5. CASE Reads(t, r)
  <2>1. Ids(r.seen) = {} /\ r.gone = {} /\ me.at = "list" /\ r.at = "legacy" /\ r.kind = me.kind /\ r.id = me.id
    BY <1>5, BlankIds DEF Reads, At
  <2>2. me.kind # "pair"
    BY <1>0, <2>1 DEF Shape, Asking
  <2> HIDE DEF me
  <2> QED BY <2>1, <2>2 DEF Private
<1>6. CASE TakesOld(t, r)
  <2>1. Ids(r.seen) = Legacy /\ r.gone = {} /\ me.at = "legacy" /\ r.at = "migrate" /\ r.kind = me.kind /\ r.id = me.id
    BY <1>6 DEF TakesOld, At
  <2>2. me.kind # "pair"
    BY <1>0, <2>1 DEF Shape, Asking
  <2> HIDE DEF me
  <2> QED BY <2>1, <2>2 DEF Private
<1>7. CASE Migrates(t, r)
  <2>1. r.seen = me.seen /\ r.gone = {} /\ me.at = "migrate" /\ r.at = "migrateSelect" /\ r.kind = me.kind /\ r.id = me.id
    BY <1>7 DEF Migrates, At
  <2>2. me.kind # "pair" /\ me.at \in Migration
    BY <1>0, <2>1 DEF Shape, Asking, Migration
  <2> HIDE DEF me
  <2> QED BY <2>1, <2>2 DEF Private
<1>8. CASE Writes(t, r)
  <2>1. r.seen \in {<<>>, me.seen} /\ r.gone = me.gone /\ Shape(r) /\ r.at \in {"select", "end", "selected"}
    BY <1>8 DEF Writes
  <2>2. ~Private(r)
    BY <2>1 DEF Shape, Private, Asking, Migration
  <2> HIDE DEF me
  <2> QED BY <1>1, <2>1, <2>2
<1>9. CASE Moves(t, r)
  <2>1. /\ Ids(r.seen) \subseteq Ids(me.seen) /\ (r.gone = {} \/ r.gone = me.gone) /\ Shape(r)
        /\ r.kind # "pair" /\ (r.kind = "save" => me.kind = "save" /\ r.id = me.id)
        /\ r.kind = "save" /\ Private(r) /\ ~Private(me) => "halfSaved" \in trouble'
        /\ r.at = "migrateDelete" => me.at = "migrateSelect"
        /\ r.at \notin {"migrate", "migrateSelect"}
    BY <1>9 DEF Moves, At
  <2>2. Private(r) => r.kind = "save"
    BY <2>1 DEF Private
  <2>3. Private(r) /\ r.at # "write" => r.seen = <<>> \/ (r.at = "migrateDelete" /\ me.at \in Migration)
    BY <2>1, <2>2 DEF Shape, Migration
  <2> HIDE DEF me
  <2> QED BY <1>1, <2>1, <2>2, <2>3
<1>10. ASSUME NEW ps \in Seq(Record), Takes(t, r, ps)
       PROVE  /\ Ids(r.seen) \subseteq Stored \cup Legacy \cup Ids(me.seen) \cup Secret(me)
              /\ r.gone \subseteq Stored \cup Ids(me.seen) \cup me.gone
              /\ Private(r) => Private(me) /\ r.id = me.id
              /\ Private(r) => r.at = "write"
  <2>1. /\ Ids(ps) \subseteq Stored \cup Ids(me.seen) /\ r.kind = me.kind
        /\ Ids(r.seen) \subseteq Ids(ps) \cup Own(r) /\ r.gone \subseteq Ids(ps)
        /\ r.kind = "save" => r.at = "write" /\ r.id = me.id
        /\ me.at \in {"list", "legacy"} \cup Migration
    BY <1>10 DEF Takes
  <2>2. me.kind # "pair"
    BY <1>0, <2>1 DEF Shape, Asking, Migration
  <2>3. me.kind = "save" => Private(me)
    BY <2>1 DEF Private, Migration
  <2>4. Own(r) \subseteq Secret(me)
    BY <2>1, <2>3 DEF Own, Secret
  <2>5. Private(r) => r.kind = "save"
    BY <2>1, <2>2 DEF Private
  <2> HIDE DEF me
  <2> QED BY <2>1, <2>3, <2>4, <2>5
<1> QED BY <1>2, <1>3, <1>4, <1>5, <1>6, <1>7, <1>8, <1>9, <1>10 DEF AnyStep

\* A fresh id is nowhere on the phone.
LEMMA FreshIsNew ==
  ASSUME BoundInv, NEW id, FreshId(id)
  PROVE  /\ id \notin Stored \cup Legacy /\ id \notin keys
         /\ \A u \in Task : id \notin Ids(task[u].seen) /\ id \notin task[u].gone /\ id # task[u].id
BY DEF FreshId, BoundInv, Known

\* Every step of a task keeps the pairings private.
LEMMA PrivateStep ==
  ASSUME StoreOK, ShapeInv, BoundInv, PrivateInv, NEW t \in Task, NEW r \in TaskRecord, AnyStep(t, r),
         "halfSaved" \notin trouble'
  PROVE  PrivateInv'
<1> DEFINE me == task[t]
<1>1. /\ Ids(r.seen) \subseteq Stored \cup Legacy \cup Ids(me.seen) \cup Secret(me)
      /\ r.gone \subseteq Stored \cup Ids(me.seen) \cup me.gone
      /\ Private(r) => (Private(me) /\ r.id = me.id) \/ Creates(t, r)
      /\ Private(r) /\ r.at # "write" =>
           Ids(r.seen) \subseteq Legacy \cup (IF me.at \in Migration THEN Ids(me.seen) ELSE {})
  BY IdSources
<1>2. /\ Legacy' \subseteq Legacy
      /\ Stored' = Stored \/ (me.at \in {"migrate", "write"} /\ Stored' = Ids(me.seen))
  BY StoredStep
<1>3. Goes(t, r)
  BY DEF AnyStep, Begins, Creates, Proceeds, Reads, TakesOld, Migrates, Writes, Moves, Drops, Takes
<1>4. task'[t] = r /\ \A u \in Task \ {t} : task'[u] = task[u]
  BY <1>3, NewRecord
<1>5. /\ \A u \in Task : Private(task[u]) =>
           /\ task[u].id \notin Stored \cup Legacy
           /\ task[u].at # "write" => task[u].id \notin Ids(task[u].seen)
           /\ \A v \in Task \ {u} : Apart(task[u], task[v])
  BY DEF PrivateInv
<1>6. Private(r) /\ me.at = "write" => Stored' = Stored
  <2>1. CASE Writes(t, r)
    <3>1. Shape(r) /\ r.at \in {"select", "end", "selected"}
      BY <2>1 DEF Writes
    <3>2. ~Private(r)
      BY <3>1 DEF Shape, Private, Asking, Migration
    <3> QED BY <3>2
  <2>2. CASE ~Writes(t, r) /\ me.at = "write"
    <3>1. list' = list
      BY <2>2 DEF AnyStep, Begins, Creates, Proceeds, Reads, TakesOld, Migrates, Moves, Drops, Takes, At
    <3> QED BY <3>1 DEF Stored
  <2> QED BY <2>1, <2>2
<1>7. Creates(t, r) => FreshId(r.id) /\ Ids(r.seen) = {} /\ Stored' = Stored
  BY BlankIds DEF Creates, Stored
\* The pairing of another task.
<1>8. ASSUME NEW u \in Task \ {t}, Private(task[u])
      PROVE  /\ task[u].id \notin Stored' \cup Legacy' /\ Apart(task[u], r)
  <2> DEFINE x == task[u]
  <2>1. x.id \notin Stored \cup Legacy /\ Apart(x, me)
    BY <1>5, <1>8
  <2>2. Private(me) => Apart(me, x)
    BY <1>5
  <2>3. x.id \notin Ids(me.seen) /\ x.id \notin me.gone /\ (Private(me) => x.id # me.id)
    BY <2>1 DEF Apart
  <2>4. x.id \notin Ids(r.seen) /\ x.id \notin r.gone /\ x.id \notin Stored' \cup Legacy'
    <3>1. x.id \notin Secret(me)
      BY <2>3 DEF Secret
    <3> HIDE DEF me, x
    <3> QED BY <1>1, <1>2, <2>1, <2>3, <3>1
  <2>5. Private(r) => x.id # r.id
    <3>1. Creates(t, r) => x.id # r.id
      BY <1>7, FreshIsNew
    <3> HIDE DEF me, x
    <3> QED BY <1>1, <2>3, <3>1
  <2> HIDE DEF x
  <2> QED BY <2>4, <2>5 DEF Apart, x
\* The pairing of the task that takes the step.
<1>9. ASSUME Private(r)
      PROVE  /\ r.id \notin Stored' \cup Legacy' /\ (r.at # "write" => r.id \notin Ids(r.seen))
             /\ \A u \in Task \ {t} : Apart(r, task[u])
  <2>1. CASE Creates(t, r)
    <3>1. /\ r.id \notin Stored \cup Legacy
          /\ \A u \in Task : r.id \notin Ids(task[u].seen) /\ r.id \notin task[u].gone /\ r.id # task[u].id
      BY <1>7, <2>1, FreshIsNew
    <3> QED BY <1>2, <1>7, <2>1, <3>1 DEF Apart
  <2>2. CASE Private(me) /\ r.id = me.id
    <3>1. /\ me.id \notin Stored \cup Legacy /\ (me.at # "write" => me.id \notin Ids(me.seen))
          /\ \A u \in Task \ {t} : Apart(me, task[u])
      BY <1>5, <2>2
    <3>2. \A u \in Task \ {t} : Apart(r, task[u])
      BY <2>2, <3>1 DEF Apart
    <3>3. r.id \notin Stored' \cup Legacy'
      <4> HIDE DEF me
      <4> QED BY <1>2, <1>6, <1>9, <2>2, <3>1
    <3>4. r.at # "write" => r.id \notin Ids(r.seen)
      <4>1. me.at \in Migration => me.at # "write"
        BY DEF Migration
      <4> HIDE DEF me
      <4> QED BY <1>1, <1>9, <2>2, <3>1, <4>1
    <3> QED BY <3>2, <3>3, <3>4
  <2> QED BY <1>1, <1>9, <2>1, <2>2
<1>10. \A u \in Task : Private(task'[u]) =>
          /\ task'[u].id \notin Stored' \cup Legacy'
          /\ task'[u].at # "write" => task'[u].id \notin Ids(task'[u].seen)
          /\ \A v \in Task \ {u} : Apart(task'[u], task'[v])
  <2>1. ASSUME NEW u \in Task, Private(task'[u])
        PROVE  /\ task'[u].id \notin Stored' \cup Legacy'
               /\ task'[u].at # "write" => task'[u].id \notin Ids(task'[u].seen)
               /\ \A v \in Task \ {u} : Apart(task'[u], task'[v])
    <3> HIDE DEF me
    <3>1. CASE u = t
      BY <1>4, <1>9, <2>1, <3>1
    <3>2. CASE u # t
      <4>1. task'[u] = task[u] /\ Private(task[u])
        BY <1>4, <2>1, <3>2
      <4>2. task[u].id \notin Stored' \cup Legacy' /\ Apart(task[u], r)
        BY <1>8, <3>2, <4>1
      <4>3. \A v \in Task \ {u} : v # t => Apart(task[u], task[v])
        BY <1>5, <4>1
      <4>4. task[u].at # "write" => task[u].id \notin Ids(task[u].seen)
        BY <1>5, <4>1
      <4> QED BY <1>4, <4>1, <4>2, <4>3, <4>4
    <3> QED BY <3>1, <3>2
  <2> QED BY <2>1
<1> QED BY <1>10 DEF PrivateInv, Private, Apart, Ids

\* What a task needs of the keys.
KeyOf(x) ==
  /\ Unwritten(x) => x.id \in keys
  /\ x.at = "migrate" /\ list = None => Ids(x.seen) \subseteq keys
  /\ x.at # "write" /\ x.gone # {} => list # None /\ x.gone \cap Stored = {}

\* Every step of a task keeps the keys that are needed.
LEMMA KeyStep ==
  ASSUME StoreOK, ShapeInv, PrivateInv, KeyInv, NEW t \in Task, NEW r \in TaskRecord, AnyStep(t, r),
         trouble' \cap {"race", "halfSaved"} = {}
  PROVE  KeyInv'
<1> DEFINE me == task[t]
<1>0. Shape(me) /\ me.seen \in Seq(Record) /\ me.seen # None
  BY TaskType
<1>1. /\ Stored \subseteq keys /\ (list = None => Legacy \subseteq keys)
      /\ \A u \in Task : KeyOf(task[u])
  BY DEF KeyInv, KeyOf, At
<1>2. Goes(t, r)
  BY DEF AnyStep, Begins, Creates, Proceeds, Reads, TakesOld, Migrates, Writes, Moves, Drops, Takes
<1>3. task'[t] = r /\ \A u \in Task \ {t} : task'[u] = task[u]
  BY <1>2, NewRecord
<1>4. Legacy' \subseteq Legacy
  BY StoredStep
<1>5. \A u \in Task \ {t} : Private(me) => Apart(me, task[u])
  BY DEF PrivateInv
<1>6. \A u \in Task \ {t} : Private(task[u]) => Apart(task[u], me)
  BY DEF PrivateInv
<1>7. Private(me) => me.id \notin Stored \cup Legacy
  BY DEF PrivateInv
\* It is enough to look at storage, the task of the step, and the other tasks.
<1>8. SUFFICES /\ Stored' \subseteq keys' /\ (list' = None => Legacy' \subseteq keys')
               /\ KeyOf(r)' /\ \A u \in Task \ {t} : KeyOf(task[u]) => KeyOf(task[u])'
  <2>1. ASSUME /\ Stored' \subseteq keys' /\ (list' = None => Legacy' \subseteq keys')
               /\ KeyOf(r)' /\ \A u \in Task \ {t} : KeyOf(task[u]) => KeyOf(task[u])'
        PROVE  \A u \in Task : KeyOf(task[u])'
    <3>1. KeyOf(task[t])'
      BY <1>3, <2>1 DEF KeyOf, Unwritten, Private, Ids
    <3> QED BY <1>1, <2>1, <3>1
  <2> QED BY <1>1, <2>1 DEF KeyInv, KeyOf, At
\* Storage and keys are as they were.
<1>9. ASSUME UNCHANGED <<list, keys>>
      PROVE  /\ Stored' \subseteq keys' /\ (list' = None => Legacy' \subseteq keys')
             /\ \A u \in Task \ {t} : KeyOf(task[u]) => KeyOf(task[u])'
  <2>1. Stored' = Stored
    BY <1>9 DEF Stored
  <2> QED BY <1>1, <1>3, <1>4, <1>9, <2>1 DEF KeyOf, Unwritten, Private, Ids
<1>10. Unwritten(r) /\ ~Creates(t, r) => Unwritten(me) /\ r.id = me.id
  <2>1. Unwritten(r) => Private(r) /\ r.at \notin {"cleanup", "failed"}
    BY DEF Unwritten
  <2>2. Private(r) /\ ~Creates(t, r) => Private(me) /\ r.id = me.id
    BY IdSources
  <2>3. CASE Proceeds(t, r) \/ Moves(t, r)
    BY <2>1, <2>2, <2>3 DEF Proceeds, Moves
  <2>4. CASE ~Proceeds(t, r) /\ ~Moves(t, r) /\ ~Creates(t, r)
    <3>1. Begins(t, r) \/ Drops(t, r) => ~Private(r)
      BY DEF Begins, Drops
    <3>2. ~Begins(t, r) /\ ~Drops(t, r) => me.at \notin {"cleanup", "failed"}
      BY <2>4 DEF AnyStep, Reads, TakesOld, Migrates, Writes, Takes, At, Migration
    <3> QED BY <2>1, <2>2, <2>4, <3>1, <3>2 DEF Unwritten
  <2> QED BY <2>3, <2>4
<1>11. Unwritten(me) => me.id \in keys
  BY <1>1 DEF KeyOf
<1>12. CASE Begins(t, r)
  <2>1. KeyOf(r)'
    BY <1>12 DEF Begins, Blank, KeyOf, Unwritten, Private, Ids
  <2> QED BY <1>9, <1>12, <2>1 DEF Begins
<1>13. CASE Creates(t, r)
  <2>1. UNCHANGED list /\ keys \subseteq keys' /\ Stored' = Stored
    BY <1>13 DEF Creates, Stored
  <2>2. r.id \in keys' /\ r.at = "sign" /\ r.gone = {}
    BY <1>13 DEF Creates, Blank
  <2>3. KeyOf(r)'
    BY <2>2 DEF KeyOf
  <2> QED BY <1>1, <1>3, <1>4, <2>1, <2>3 DEF KeyOf, Unwritten, Private, Ids
<1>14. CASE Proceeds(t, r)
  <2>1. /\ UNCHANGED list /\ Stored' = Stored /\ Private(me) /\ r.id = me.id /\ r.gone = {} /\ r.at # "migrate"
        /\ keys' = keys \/ (keys' = keys \ {me.id} /\ ~Unwritten(r))
    BY <1>14 DEF Proceeds, Stored, Blank, Migration
  <2> HIDE DEF me
  <2>2. Stored' \subseteq keys' /\ (list' = None => Legacy' \subseteq keys')
    BY <1>1, <1>4, <1>7, <2>1
  <2>3. ~Creates(t, r)
    BY <1>14, <2>1 DEF Proceeds, Creates, Migration
  <2>4. Unwritten(r) => r.id \in keys'
    BY <1>10, <1>11, <2>1, <2>3
  <2>5. KeyOf(r)'
    BY <2>1, <2>4 DEF KeyOf, Unwritten, Private
  <2>6. ASSUME NEW u \in Task \ {t}, KeyOf(task[u])
        PROVE  KeyOf(task[u])'
    <3> DEFINE x == task[u]
    <3>1. x' = x /\ Apart(me, x)
      BY <1>3, <1>5, <2>1
    <3>2. me.id \notin Ids(x.seen) /\ (Private(x) => x.id # me.id)
      BY <3>1 DEF Apart
    <3>3. /\ Unwritten(x) => x.id \in keys
          /\ x.at = "migrate" /\ list = None => Ids(x.seen) \subseteq keys
          /\ x.at # "write" /\ x.gone # {} => list # None /\ x.gone \cap Stored = {}
      BY <2>6 DEF KeyOf
    <3>4. Unwritten(x) => Private(x)
      BY DEF Unwritten
    <3>5. Unwritten(x)' = Unwritten(x) /\ Ids(x.seen)' = Ids(x.seen)
      BY <3>1 DEF Unwritten, Private, Ids
    <3> HIDE DEF x
    <3>6. KeyOf(x)'
      BY <2>1, <3>1, <3>2, <3>3, <3>4, <3>5 DEF KeyOf
    <3> QED BY <3>6 DEF x
  <2> QED BY <2>2, <2>5, <2>6
<1>15. CASE Reads(t, r)
  <2>1. /\ UNCHANGED <<list, keys>> /\ r.gone = {} /\ r.at = "legacy" /\ ~Creates(t, r)
    BY <1>15 DEF Reads, Creates, Blank
  <2>2. KeyOf(r)'
    BY <1>10, <1>11, <2>1 DEF KeyOf, Unwritten, Private
  <2> QED BY <1>9, <2>1, <2>2
<1>16. CASE TakesOld(t, r)
  <2>1. /\ UNCHANGED <<list, keys>> /\ r.gone = {} /\ r.at = "migrate" /\ ~Creates(t, r) /\ Ids(r.seen) = Legacy
    BY <1>16 DEF TakesOld, Creates
  <2>2. list' = None => Ids(r.seen) \subseteq keys'
    BY <1>1, <2>1
  <2>3. KeyOf(r)'
    BY <1>10, <1>11, <2>1, <2>2 DEF KeyOf, Unwritten, Private, Ids
  <2> QED BY <1>9, <2>1, <2>3
<1>17. CASE Migrates(t, r)
  <2>1. /\ UNCHANGED keys /\ r.gone = {} /\ r.at = "migrateSelect" /\ ~Creates(t, r) /\ list' = me.seen
        /\ me.at = "migrate" /\ list = None
    <3>1. trouble' = Raced(None) /\ "race" \notin trouble'
      BY <1>17 DEF Migrates
    <3>2. list = None
      BY <3>1 DEF Raced
    <3> QED BY <1>17, <3>2 DEF Migrates, Creates, At
  <2>2. Stored' = Ids(me.seen) /\ list' # None
    BY <1>0, <2>1 DEF Stored
  <2>3. Ids(me.seen) \subseteq keys
    BY <1>1, <2>1 DEF KeyOf
  <2>4. KeyOf(r)'
    BY <1>10, <1>11, <2>1 DEF KeyOf, Unwritten, Private
  <2>5. ASSUME NEW u \in Task \ {t}, KeyOf(task[u])
        PROVE  KeyOf(task[u])'
    <3>1. task'[u] = task[u]
      BY <1>3
    <3>2. Unwritten(task[u])' = Unwritten(task[u])
      BY <3>1 DEF Unwritten, Private
    <3> QED BY <2>1, <2>2, <2>5, <3>1, <3>2 DEF KeyOf
  <2> HIDE DEF me
  <2> QED BY <2>1, <2>2, <2>3, <2>4, <2>5
<1>18. CASE Writes(t, r)
  <2>1. /\ UNCHANGED keys /\ r.gone = me.gone /\ r.at \in {"select", "end", "selected"} /\ ~Creates(t, r)
        /\ list' = me.seen /\ me.at = "write" /\ list = me.base
    <3>1. trouble' = Raced(me.base) /\ "race" \notin trouble'
      BY <1>18 DEF Writes
    <3>2. list = me.base
      BY <3>1 DEF Raced
    <3> QED BY <1>18, <3>2 DEF Writes, Creates, At
  <2>2. Stored' = Ids(me.seen) /\ list' # None
    BY <1>0, <2>1 DEF Stored
  <2>3. Stored = Base(me)
    BY <2>1 DEF Base, Stored
  <2>4. /\ Ids(me.seen) = (Stored \ me.gone) \cup Own(me)
        /\ me.gone # {} => Own(me) = {}
    BY <1>0, <2>1, <2>3 DEF Shape, Own
  <2>5. Own(me) \subseteq keys /\ (Own(me) # {} => Private(me) /\ Own(me) = {me.id})
    BY <1>11, <2>1 DEF Own, Unwritten, Private
  <2>6. Stored' \subseteq keys'
    <3> HIDE DEF me
    <3> QED BY <1>1, <2>1, <2>2, <2>4, <2>5
  <2>7. me.gone # {} => me.gone \cap Stored' = {}
    <3> HIDE DEF me
    <3> QED BY <2>2, <2>4
  <2>8. KeyOf(r)'
    BY <1>10, <1>11, <2>1, <2>2, <2>7 DEF KeyOf, Unwritten, Private
  <2>9. ASSUME NEW u \in Task \ {t}, KeyOf(task[u])
        PROVE  KeyOf(task[u])'
    <3>1. task'[u] = task[u]
      BY <1>3
    <3>2. Unwritten(task[u])' = Unwritten(task[u])
      BY <3>1 DEF Unwritten, Private
    <3>3. Own(me) \cap task[u].gone = {}
      BY <1>5, <2>5 DEF Apart
    <3>4. task[u].at # "write" /\ task[u].gone # {} => task[u].gone \cap Stored = {}
      BY <2>9 DEF KeyOf
    <3>5. task[u].at # "write" /\ task[u].gone # {} => task[u].gone \cap Stored' = {}
      <4> HIDE DEF me
      <4> QED BY <2>2, <2>4, <3>3, <3>4
    <3> QED BY <2>1, <2>2, <2>9, <3>1, <3>2, <3>5 DEF KeyOf
  <2> QED BY <2>2, <2>6, <2>8, <2>9
<1>19. CASE Moves(t, r)
  <2>1. /\ UNCHANGED <<list, keys>> /\ r.at \notin {"migrate", "write"} /\ ~Creates(t, r)
        /\ r.gone = {} \/ (r.gone = me.gone /\ me.at # "write")
    BY <1>19 DEF Moves, Creates, Asking, At
  <2>2. r.gone # {} => list # None /\ r.gone \cap Stored = {}
    BY <1>1, <2>1 DEF KeyOf
  <2>3. Stored' = Stored
    BY <2>1 DEF Stored
  <2>4. KeyOf(r)'
    BY <1>10, <1>11, <2>1, <2>2, <2>3 DEF KeyOf, Unwritten, Private
  <2> QED BY <1>9, <2>1, <2>4
<1>20. CASE Drops(t, r)
  <2>1. /\ UNCHANGED list /\ me.at = "dropKeys" /\ keys \ me.gone \subseteq keys' /\ keys' \subseteq keys
        /\ r.gone = {} /\ r.at = "end" /\ ~Private(r) /\ Stored' = Stored
    BY <1>20 DEF Drops, Blank, At, Stored
  <2>2. me.gone # {} => list # None /\ me.gone \cap Stored = {}
    BY <1>1, <2>1 DEF KeyOf
  <2>3. KeyOf(r)'
    BY <2>1 DEF KeyOf, Unwritten, Private
  <2>4. Stored' \subseteq keys' /\ (list' = None => Legacy' \subseteq keys')
    <3> HIDE DEF me
    <3> QED BY <1>1, <1>4, <2>1, <2>2
  <2>5. ASSUME NEW u \in Task \ {t}, KeyOf(task[u])
        PROVE  KeyOf(task[u])'
    <3> DEFINE x == task[u]
    <3>1. x' = x /\ (Private(x) => x.id \notin me.gone)
      BY <1>3, <1>6 DEF Apart
    <3>2. /\ Unwritten(x) => x.id \in keys
          /\ x.at = "migrate" /\ list = None => Ids(x.seen) \subseteq keys
          /\ x.at # "write" /\ x.gone # {} => list # None /\ x.gone \cap Stored = {}
      BY <2>5 DEF KeyOf
    <3>3. Unwritten(x) => Private(x)
      BY DEF Unwritten
    <3>4. Unwritten(x)' = Unwritten(x) /\ Ids(x.seen)' = Ids(x.seen)
      BY <3>1 DEF Unwritten, Private, Ids
    <3> HIDE DEF x, me
    <3>5. KeyOf(x)'
      BY <2>1, <2>2, <3>1, <3>2, <3>3, <3>4 DEF KeyOf
    <3> QED BY <3>5 DEF x
  <2> QED BY <2>3, <2>4, <2>5
<1>21. ASSUME NEW ps \in Seq(Record), Takes(t, r, ps)
       PROVE  /\ Stored' \subseteq keys' /\ (list' = None => Legacy' \subseteq keys')
              /\ KeyOf(r)' /\ \A u \in Task \ {t} : KeyOf(task[u]) => KeyOf(task[u])'
  <2>1. /\ UNCHANGED <<list, keys>> /\ r.at \in {"write", "select", "selected", "stations", "end", "failed"}
        /\ r.at # "write" => r.gone = {}
    BY <1>21 DEF Takes
  <2>2. ~Creates(t, r)
    BY <2>1 DEF Creates
  <2>3. KeyOf(r)'
    BY <1>10, <1>11, <2>1, <2>2 DEF KeyOf, Unwritten, Private
  <2> QED BY <1>9, <2>1, <2>3
<1> QED BY <1>12, <1>13, <1>14, <1>15, <1>16, <1>17, <1>18, <1>19, <1>20, <1>21 DEF AnyStep

\* Every step keeps HasKeyInv.
LEMMA HasKeyStep ==
  ASSUME TypeOK, ShapeInv, BoundInv, HasKeyInv, Step
  PROVE  HasKeyInv'
<1>0. StoreOK
  BY DEF TypeOK, StoreTypeOK, StoreOK
<1> SUFFICES ASSUME trouble' \cap {"race", "halfSaved"} = {}
             PROVE  PrivateInv' /\ KeyInv'
  BY DEF HasKeyInv
<1>1. PrivateInv /\ KeyInv
  BY TroubleStays DEF HasKeyInv
<1>2. CASE Still
  BY <1>1, <1>2 DEF Still, PrivateInv, KeyInv, Private, Apart, Unwritten, Stored, Legacy, Ids, At
<1>3. CASE Older
  <2>1. \A t \in Task : task[t].kind = "none" /\ task[t].at = "idle" /\ task[t].gone = {}
    BY <1>3, NewTask DEF Older, NoTask
  <2>2. \A t \in Task : ~Private(task[t]) /\ ~Unwritten(task[t]) /\ ~At(t, "migrate") /\ task[t].gone = {}
    BY <2>1 DEF Private, Unwritten, At
  <2>3. \A t \in Task : ~Private(task[t])' /\ ~Unwritten(task[t])' /\ ~At(t, "migrate")' /\ task'[t].gone = {}
    BY <1>3, <2>2 DEF Older, Private, Unwritten, At
  <2>4. Stored' \subseteq keys' /\ (list' = None => Legacy' \subseteq keys')
    BY <1>1, <1>3 DEF Older, KeyInv
  <2> QED BY <2>3, <2>4 DEF PrivateInv, KeyInv
<1>4. CASE Restarts
  <2>1. \A t \in Task : Blank(task'[t]) /\ task'[t].kind \in {"none", "home"} /\ task'[t].at \in {"idle", "list"}
    <3>1. NoTask.kind = "none" /\ NoTask.at = "idle"
      BY DEF NoTask
    <3> QED BY <1>4, <3>1, NewTask DEF Restarts, Kinds
  <2>2. \A t \in Task : ~Private(task[t])' /\ ~Unwritten(task[t])' /\ ~At(t, "migrate")' /\ task'[t].gone = {}
    BY <2>1 DEF Private, Unwritten, At, Blank
  <2>3. Stored' \subseteq keys' /\ (list' = None => Legacy' \subseteq keys')
    BY <1>1, <1>4 DEF Restarts, KeyInv, Stored, Legacy
  <2> QED BY <2>2, <2>3 DEF PrivateInv, KeyInv
<1>5. ASSUME NEW t \in Task, NEW r \in TaskRecord, AnyStep(t, r)
      PROVE  PrivateInv' /\ KeyInv'
  <2>1. "halfSaved" \notin trouble'
    OBVIOUS
  <2>2. PrivateInv'
    BY <1>0, <1>1, <1>5, <2>1, PrivateStep
  <2>3. KeyInv'
    BY <1>0, <1>1, <1>5, KeyStep
  <2> QED BY <2>2, <2>3
<1> QED BY <1>2, <1>3, <1>4, <1>5 DEF Step, AnyStep

\* The tasks of a launch hold nothing.
LEMMA InitTasks ==
  ASSUME Init
  PROVE  \A t \in Task : /\ task[t].kind \in {"none", "home"} /\ task[t].at \in {"idle", "list"}
                         /\ Blank(task[t])
<1>1. PICK first \in Task : task = [t \in Task |-> IF t = first THEN Started("home", None) ELSE NoTask]
  BY DEF Init, Launched
<1>2. NoTask.kind = "none" /\ NoTask.at = "idle"
  BY DEF NoTask
<1>3. Blank(NoTask) /\ Blank(Started("home", None)) /\ Started("home", None).kind = "home"
      /\ Started("home", None).at = "list"
  BY NewTask DEF Kinds
<1> QED BY <1>1, <1>2, <1>3

\* HasKeyInv at the start.
LEMMA HasKeyInit ==
  ASSUME Init
  PROVE  HasKeyInv
<1>1. \A t \in Task : ~Private(task[t]) /\ ~Unwritten(task[t]) /\ ~At(t, "migrate") /\ task[t].gone = {}
  BY InitTasks DEF Private, Unwritten, At, Blank
<1>2. Stored \subseteq keys /\ Legacy \subseteq keys
  BY InitIds
<1> QED BY <1>1, <1>2 DEF HasKeyInv, PrivateInv, KeyInv

\* A saved Station has its Device Key, through every interleaving, crash and
\* failed call but a lost update of the list and a savePairing that fails after
\* it has written the list (pairing.ts fail, storage.ts, deviceKey.ts).
THEOREM SavedHasKeyAlways == Spec => []SavedHasKey
<1>1. Init => TypeOK /\ ShapeInv /\ BoundInv /\ HasKeyInv
  BY TypeInit, BoundInit, HasKeyInit
<1>2. TypeOK /\ ShapeInv /\ BoundInv /\ HasKeyInv /\ [Next]_vars => TypeOK' /\ ShapeInv' /\ BoundInv' /\ HasKeyInv'
  BY TypeStep, NextSteps, BoundStep, HasKeyStep
<1>3. HasKeyInv => SavedHasKey
  BY DEF HasKeyInv, KeyInv, SavedHasKey
<1> QED BY <1>1, <1>2, <1>3, PTL DEF Spec

-----------------------------------------------------------------------------
(* A saved Station stays saved                                               *)

\* Every step of a task keeps what was saved.
LEMMA KeptStep ==
  ASSUME StoreOK, ShapeInv, KeptInv, NEW t \in Task, NEW r \in TaskRecord, AnyStep(t, r),
         trouble' \cap {"race", "halfMigrated"} = {}
  PROVE  KeptInv'
<1> DEFINE me == task[t]
           Old(x) == /\ x.at = "migrate" => Legacy \subseteq Ids(x.seen)
                     /\ x.at \in {"migrateSelect", "migrateDelete"} => list # None /\ Legacy \cap kept \subseteq Stored
<1>0. Shape(me) /\ me.seen \in Seq(Record) /\ me.seen # None
  BY TaskType
<1>1. kept \subseteq Stored \cup Legacy /\ \A u \in Task : Old(task[u])
  BY DEF KeptInv, At
<1>2. Goes(t, r)
  BY DEF AnyStep, Begins, Creates, Proceeds, Reads, TakesOld, Migrates, Writes, Moves, Drops, Takes
<1>3. task'[t] = r /\ \A u \in Task \ {t} : task'[u] = task[u]
  BY <1>2, NewRecord
<1>4. Legacy' \subseteq Legacy
  BY StoredStep
<1>5. SUFFICES kept' \subseteq Stored' \cup Legacy' /\ Old(r)' /\ \A u \in Task \ {t} : Old(task[u]) => Old(task[u])'
  <2>1. ASSUME kept' \subseteq Stored' \cup Legacy' /\ Old(r)' /\ \A u \in Task \ {t} : Old(task[u]) => Old(task[u])'
        PROVE  \A u \in Task : Old(task[u])'
    <3>1. Old(task[t])'
      BY <1>3, <2>1 DEF Ids
    <3> QED BY <1>1, <2>1, <3>1
  <2> QED BY <1>1, <2>1 DEF KeptInv, At
\* The list is as it was, and nothing more is to be kept.
<1>6. ASSUME UNCHANGED list, kept' \subseteq kept
      PROVE  \A u \in Task \ {t} : Old(task[u]) => Old(task[u])'
  <2>1. Stored' = Stored
    BY <1>6 DEF Stored
  <2> QED BY <1>3, <1>4, <1>6, <2>1 DEF Ids
<1>7. ASSUME UNCHANGED <<list, legacy>>, kept' \subseteq kept
      PROVE  kept' \subseteq Stored' \cup Legacy'
  BY <1>1, <1>7 DEF Stored, Legacy
<1>8. CASE Begins(t, r) \/ Creates(t, r) \/ Proceeds(t, r) \/ Reads(t, r) \/ Drops(t, r)
  <2>1. UNCHANGED <<list, legacy, kept>> /\ r.at \notin Migration
    BY <1>8 DEF Begins, Creates, Proceeds, Reads, Drops, Migration
  <2>2. Old(r)'
    BY <2>1 DEF Migration
  <2> QED BY <1>6, <1>7, <2>1, <2>2
<1>9. CASE TakesOld(t, r)
  <2>1. UNCHANGED <<list, legacy, kept>> /\ r.at = "migrate" /\ Ids(r.seen) = Legacy /\ Legacy' = Legacy
    BY <1>9 DEF TakesOld, Legacy
  <2>2. Old(r)'
    BY <2>1 DEF Ids
  <2> QED BY <1>6, <1>7, <2>1, <2>2
<1>10. CASE Migrates(t, r)
  <2>1. /\ UNCHANGED <<legacy, kept>> /\ Legacy' = Legacy /\ list' = me.seen /\ me.at = "migrate" /\ list = None
        /\ r.at = "migrateSelect"
    <3>1. trouble' = Raced(None) /\ "race" \notin trouble'
      BY <1>10 DEF Migrates
    <3>2. list = None
      BY <3>1 DEF Raced
    <3> QED BY <1>10, <3>2 DEF Migrates, Legacy, At
  <2>2. Stored' = Ids(me.seen) /\ list' # None /\ Stored = {} /\ Legacy \subseteq Stored'
    BY <1>0, <1>1, <2>1 DEF Stored
  <2> HIDE DEF me
  <2>3. kept' \subseteq Stored' \cup Legacy' /\ Legacy' \cap kept' \subseteq Stored' /\ list' # None
    BY <1>1, <2>1, <2>2
  <2>4. Old(r)'
    BY <2>1, <2>3
  <2>5. \A u \in Task \ {t} : Old(task[u]) => Old(task[u])'
    BY <1>3, <2>1, <2>3 DEF Ids
  <2> QED BY <2>3, <2>4, <2>5
<1>11. CASE Writes(t, r)
  <2>1. /\ UNCHANGED legacy /\ Legacy' = Legacy /\ list' = me.seen /\ me.at = "write" /\ list = me.base
        /\ kept' = (IF me.kind = "save" THEN kept \cup {me.id} ELSE kept \ me.gone)
        /\ r.at \notin Migration
    <3>1. trouble' = Raced(me.base) /\ "race" \notin trouble'
      BY <1>11 DEF Writes
    <3>2. list = me.base
      BY <3>1 DEF Raced
    <3> QED BY <1>11, <3>2 DEF Writes, Legacy, At, Migration
  <2>2. Stored' = Ids(me.seen) /\ list' # None /\ Stored = Base(me)
    BY <1>0, <2>1 DEF Stored, Base
  <2>3. Ids(me.seen) = (Stored \ me.gone) \cup Own(me) /\ (me.kind = "save" => me.gone = {})
    BY <1>0, <2>1, <2>2 DEF Shape
  <2>4. kept' \subseteq Stored' \cup Legacy'
    BY <1>1, <2>1, <2>2, <2>3 DEF Own
  <2>5. Legacy \cap kept \subseteq Stored => Legacy' \cap kept' \subseteq Stored'
    BY <2>1, <2>2, <2>3 DEF Own
  <2> HIDE DEF me
  <2>6. Old(r)'
    BY <2>1 DEF Migration
  <2>7. \A u \in Task \ {t} : Old(task[u]) => Old(task[u])'
    BY <1>3, <2>1, <2>2, <2>5 DEF Ids
  <2> QED BY <2>4, <2>6, <2>7
<1>12. CASE Moves(t, r)
  <2>1. /\ UNCHANGED <<list, legacy>> /\ kept' \subseteq kept /\ r.at \notin {"migrate", "migrateSelect"}
        /\ r.at = "migrateDelete" => me.at = "migrateSelect"
        /\ Stored' = Stored /\ Legacy' = Legacy
    BY <1>12 DEF Moves, At, Stored, Legacy
  <2>2. Old(r)'
    BY <1>1, <2>1
  <2> QED BY <1>6, <1>7, <2>1, <2>2
<1>13. ASSUME NEW ps \in Seq(Record), Takes(t, r, ps)
       PROVE  kept' \subseteq Stored' \cup Legacy' /\ Old(r)' /\ \A u \in Task \ {t} : Old(task[u]) => Old(task[u])'
  <2>1. /\ UNCHANGED <<list, kept>> /\ r.at \notin Migration /\ Stored' = Stored
        /\ legacy' = legacy \/ (legacy' = None /\ me.at = "migrateDelete")
    BY <1>13 DEF Takes, At, Migration, Stored
  <2>2. Old(r)'
    BY <2>1 DEF Migration
  <2>3. CASE legacy' = legacy
    BY <1>6, <1>7, <2>1, <2>2, <2>3
  <2>4. CASE legacy' = None /\ me.at = "migrateDelete"
    <3>1. Legacy \cap kept \subseteq Stored
      BY <1>1, <2>4
    <3>2. kept' \subseteq Stored'
      BY <1>1, <2>1, <3>1
    <3> QED BY <1>6, <2>1, <2>2, <3>2
  <2> QED BY <2>1, <2>3, <2>4
<1> QED BY <1>8, <1>9, <1>10, <1>11, <1>12, <1>13 DEF AnyStep

\* Every step keeps IsKeptInv.
LEMMA IsKeptStep ==
  ASSUME TypeOK, ShapeInv, IsKeptInv, Step
  PROVE  IsKeptInv'
<1>0. StoreOK
  BY DEF TypeOK, StoreTypeOK, StoreOK
<1> SUFFICES ASSUME trouble' \cap {"race", "halfMigrated"} = {}
             PROVE  KeptInv'
  BY DEF IsKeptInv
<1>1. KeptInv
  BY TroubleStays DEF IsKeptInv
<1>2. CASE Still
  BY <1>1, <1>2 DEF Still, KeptInv, Stored, Legacy, Ids, At
<1>3. CASE Older
  <2>1. \A t \in Task : task[t].at = "idle"
    BY <1>3 DEF Older, NoTask
  <2> QED BY <1>1, <1>3, <2>1 DEF Older, KeptInv, At
<1>4. CASE Restarts
  <2>1. \A t \in Task : task'[t].at \in {"idle", "list"}
    <3>1. NoTask.at = "idle"
      BY DEF NoTask
    <3> QED BY <1>4, <3>1, NewTask DEF Restarts, Kinds
  <2>2. kept' \subseteq Stored' \cup Legacy'
    BY <1>1, <1>4 DEF Restarts, KeptInv, Stored, Legacy
  <2> QED BY <2>1, <2>2 DEF KeptInv, At
<1>5. ASSUME NEW t \in Task, NEW r \in TaskRecord, AnyStep(t, r)
      PROVE  KeptInv'
  BY <1>0, <1>1, <1>5, KeptStep
<1> QED BY <1>2, <1>3, <1>4, <1>5 DEF Step, AnyStep

\* IsKeptInv at the start.
LEMMA IsKeptInit ==
  ASSUME Init
  PROVE  IsKeptInv
<1>1. \A t \in Task : task[t].at \in {"idle", "list"}
  BY InitTasks
<1>2. kept \subseteq Stored \cup Legacy
  BY InitIds
<1> QED BY <1>1, <1>2 DEF IsKeptInv, KeptInv, At

\* A pairing that has been saved stays saved until it is removed or expires,
\* but for a lost update of the list and a migration that fails half-way
\* (storage.ts).
THEOREM SavedIsKeptAlways == Spec => []SavedIsKept
<1>1. Init => TypeOK /\ ShapeInv /\ IsKeptInv
  BY TypeInit, IsKeptInit
<1>2. TypeOK /\ ShapeInv /\ IsKeptInv /\ [Next]_vars => TypeOK' /\ ShapeInv' /\ IsKeptInv'
  BY TypeStep, NextSteps, IsKeptStep
<1>3. IsKeptInv => SavedIsKept
  BY DEF IsKeptInv, KeptInv, SavedIsKept
<1> QED BY <1>1, <1>2, <1>3, PTL DEF Spec
=============================================================================
