----------------------- MODULE StationSession_proofs ------------------------
(* Theorems about StationSession, for any number of viewers, any dimensions   *)
(* and any bounds, and about the mouse guard, for any output.                  *)
EXTENDS StationSession, MouseGuard, SequenceTheorems, FiniteSetTheorems,
        FunctionTheorems, WellFoundedInduction, TLAPS

USE ViewerAssumption, DimsAssumption, UnsetAssumption, FrameAssumption,
    SlowAssumption, BoundAssumption

-----------------------------------------------------------------------------
(* A non-empty set of natural numbers has a least element: the step that      *)
(* stands for an induction                                                    *)

NatLess == {p \in Nat \X Nat : p[1] < p[2]}

LEMMA NatLessWellFounded == IsWellFoundedOn(NatLess, Nat)
<1>1. NatLess = OpToRel(<, Nat)
  BY DEF NatLess, OpToRel
<1> QED
  BY <1>1, NatLessThanWellFounded

\* Every non-empty set of naturals has a least element.
LEMMA NatLeast ==
  ASSUME NEW T \in SUBSET Nat, T # {}
  PROVE  \E x \in T : \A y \in T : x <= y
<1>1. PICK x \in T : \A y \in T : ~ (<<y, x>> \in NatLess)
  BY NatLessWellFounded, WFMin, Zenon
<1>2. ASSUME NEW y \in T
      PROVE  x <= y
  <2>1. x \in Nat /\ y \in Nat
    OBVIOUS
  <2>2. ~ (y < x)
    <3>1. <<y, x>> \in Nat \X Nat
      BY <2>1
    <3>2. <<y, x>>[1] = y /\ <<y, x>>[2] = x
      OBVIOUS
    <3> QED
      BY <1>1, <3>1, <3>2 DEF NatLess
  <2> QED
    BY <2>1, <2>2
<1> QED
  BY <1>2

\* A function to the naturals that is bounded on a non-empty set has a maximum
\* there.
THEOREM BoundedMaximum ==
  ASSUME NEW S, S # {}, NEW f, \A s \in S : f[s] \in Nat,
         NEW n \in Nat, \A s \in S : f[s] <= n
  PROVE  \E s \in S : \A t \in S : f[t] <= f[s]
<1> DEFINE T == {n - f[s] : s \in S}
<1>1. T \in SUBSET Nat /\ T # {}
  OBVIOUS
<1>2. PICK x \in T : \A y \in T : x <= y
  <2> HIDE DEF T
  <2> QED BY <1>1, NatLeast
<1>3. PICK s \in S : x = n - f[s]
  BY <1>2
<1>4. ASSUME NEW t \in S PROVE f[t] <= f[s]
  <2>1. n - f[t] \in T
    OBVIOUS
  <2>2. n - f[s] <= n - f[t]
    BY <1>2, <1>3, <2>1
  <2> QED
    BY <2>2
<1> QED
  BY <1>4

-----------------------------------------------------------------------------
(* Type correctness                                                          *)

\* A replay always has a frame to handle.
ReplayHasFrames == replaying # NoViewer => inbound[replaying] # <<>>

\* The parts of TypeOK about sockets, and about sizes and the parser queue.
WireOK == ws \in [Viewer -> {"absent", "open", "closing", "closed"}]
          /\ clogged \subseteq Viewer /\ seen \in [Viewer -> Seen]
SizeOK == /\ sizeClaimants \in [Viewer -> Nat]
          /\ sizeClaimSequence \in Nat
          /\ sizeOwner \in Viewer \cup {NoViewer}
          /\ current \in Dims
          /\ station \in Dims
          /\ resizeFailed \in BOOLEAN
QueueOK == queue \in Seq(Task)
InboundOK == /\ inbound \in [Viewer -> Seq(Frame)]
             /\ replaying \in Viewer \cup {NoViewer}
             /\ received \in [Viewer -> Nat]
             /\ handled \in [Viewer -> Nat]
             /\ ReplayHasFrames
AttachOK == /\ stage \in [Viewer -> {"none", "attaching", "ready", "detached"}]
            /\ viewers \subseteq Viewer
            /\ subscribers \subseteq Viewer
            /\ pendingScrollback \in [Viewer -> Nat \cup {Unset}]

\* Claims are numbered in the order they are made, and no two share a number.
ClaimsNumbered ==
  /\ \A v \in Viewer : sizeClaimants[v] <= sizeClaimSequence
  /\ \A v, w \in Viewer : sizeClaimants[v] # 0 /\ sizeClaimants[v] = sizeClaimants[w]
                         => v = w

SizeInv == SizeOK /\ ClaimsNumbered /\ OwnerIsMostRecentClaimant

LifeOK == /\ local \in {"waiting", "attached", "gone"}
          /\ parsed \in Seq(ScreenOp)
          /\ pushed \in Nat
          /\ exited \in BOOLEAN
          /\ disposed \in BOOLEAN

\* The inductive invariant.
IndInv == WireOK /\ InboundOK /\ AttachOK /\ SizeInv /\ QueueOK /\ LifeOK

LEMMA ClosingType ==
  ASSUME WireOK, NEW S
  PROVE  Closing(S) \in [Viewer -> {"absent", "open", "closing", "closed"}]
BY DEF Closing, WireOK

LEMMA UnseenType == Unseen \in Seen
  BY DEF Unseen, Seen

LEMMA OwnerToldType ==
  ASSUME WireOK, NEW owner
  PROVE  OwnerTold(owner) \in [Viewer -> Seen]
BY DEF OwnerTold, OwnerState, WireOK, Seen

\* A notice is one more frame on the screen, and tells nothing else.
LEMMA NoticedShows ==
  ASSUME NEW known \in [Viewer -> Seen], NEW S, NEW w \in Viewer
  PROVE  LET n == Noticed(known, S)[w]
         IN  /\ n \in Seen /\ n.owner = known[w].owner /\ n.grid = known[w].grid
             /\ n.snapshot = known[w].snapshot /\ n.history = known[w].history
             /\ n.screen = known[w].screen \/ n.screen = Append(known[w].screen, Notice)
<1> DEFINE k == known[w]
           longer == Append(k.screen, Notice)
           n == [k EXCEPT !.screen = longer]
<1>1. k \in Seen
  OBVIOUS
<1>2. Noticed(known, S)[w] = k \/ Noticed(known, S)[w] = n
  BY DEF Noticed
<1> HIDE DEF k
<1>3. longer \in Seq(ScreenFrame)
  <2>1. k.screen \in Seq(ScreenFrame) /\ Notice \in ScreenFrame
    BY <1>1 DEF Seen, ScreenFrame
  <2> QED
    BY <2>1
<1> HIDE DEF longer
<1>4. /\ n \in Seen /\ n.owner = k.owner /\ n.grid = k.grid /\ n.snapshot = k.snapshot
      /\ n.history = k.history /\ n.screen = longer
  BY <1>1, <1>3 DEF Seen
<1> HIDE DEF n
<1> QED
  BY <1>1, <1>2, <1>4 DEF k, longer

LEMMA ScreenOpsAreFrames ==
  ASSUME NEW log \in Seq(ScreenOp)
  PROVE  log \in Seq(ScreenFrame)
<1>1. ScreenOp \subseteq ScreenFrame
  BY DEF ScreenFrame
<1>2. \A i \in 1..Len(log) : log[i] \in ScreenFrame
  BY <1>1
<1> QED
  BY <1>2

LEMMA NoticedType ==
  ASSUME NEW known \in [Viewer -> Seen], NEW S
  PROVE  Noticed(known, S) \in [Viewer -> Seen]
<1>1. \A w \in Viewer : Noticed(known, S)[w] \in Seen
  BY NoticedShows
<1>2. Noticed(known, S) = [w \in Viewer |-> Noticed(known, S)[w]]
  BY DEF Noticed
<1> QED
  BY <1>1, <1>2

LEMMA SeenOnReleaseType ==
  ASSUME WireOK, NEW v \in Viewer, NEW ok \in BOOLEAN
  PROVE  SeenOnRelease(v, ok) \in [Viewer -> Seen]
<1>1. OwnerTold(NoViewer) \in [Viewer -> Seen] /\ OwnerTold(Successor(v)) \in [Viewer -> Seen]
  BY OwnerToldType
<1>2. Noticed(OwnerTold(NoViewer), subscribers) \in [Viewer -> Seen]
  BY <1>1, NoticedType
<1> QED
  BY <1>1, <1>2 DEF SeenOnRelease, WireOK

LEMMA MostRecentType ==
  ASSUME NEW S \in SUBSET Viewer, SizeOK, ClaimsNumbered
  PROVE  /\ S = {} => MostRecent(S) = NoViewer
         /\ S # {} => /\ MostRecent(S) \in S
                      /\ \A w \in S : sizeClaimants[w] <= sizeClaimants[MostRecent(S)]
<1>1. CASE S = {}
  BY <1>1 DEF MostRecent
<1>2. CASE S # {}
  <2>1. \E v \in S : \A w \in S : sizeClaimants[w] <= sizeClaimants[v]
    <3>1. \A s \in S : sizeClaimants[s] \in Nat /\ sizeClaimants[s] <= sizeClaimSequence
      BY DEF SizeOK, ClaimsNumbered
    <3> QED
      BY <1>2, <3>1, BoundedMaximum, Zenon DEF SizeOK
  <2> QED
    BY <1>2, <2>1 DEF MostRecent
<1> QED
  BY <1>1, <1>2

-----------------------------------------------------------------------------
(* The operations on sizes                                                   *)

LEMMA ApplyResizeType ==
  ASSUME NEW d \in Dims, NEW ok \in BOOLEAN, NEW q \in Seq(Task), SizeOK,
         ApplyResize(d, ok, q)
  PROVE  current' \in Dims /\ resizeFailed' \in BOOLEAN /\ queue' \in Seq(Task)
<1>1. Resize(d) \in Task
  BY DEF Resize, Task, ScreenOp
<1>2. queue' \in Seq(Task)
  BY <1>1 DEF ApplyResize
<1>3. resizeFailed' \in BOOLEAN
  BY Zenon DEF ApplyResize, SizeOK
<1> QED
  BY <1>2, <1>3 DEF ApplyResize, SizeOK

\* Claimants after the claim of v has gone.
LEMMA ReleaseKeepsSizeInv ==
  ASSUME NEW v \in Viewer, NEW ok \in BOOLEAN, NEW q \in Seq(Task), SizeInv,
         ReleaseSizeClaim(v, ok, q)
  PROVE  SizeInv' /\ queue' \in Seq(Task)
<1> USE DEF SizeInv
<1>1. current' \in Dims /\ resizeFailed' \in BOOLEAN /\ queue' \in Seq(Task)
  <2>1. CASE Restores(v)
    <3>1. ApplyResize(station, ok, q)
      BY <2>1 DEF ReleaseSizeClaim
    <3> QED
      BY <3>1, ApplyResizeType DEF SizeOK
  <2>2. CASE ~Restores(v)
    BY <2>2 DEF ReleaseSizeClaim, SizeOK
  <2> QED
    BY <2>1, <2>2
<1>2. /\ sizeClaimants' = [sizeClaimants EXCEPT ![v] = 0]
      /\ sizeOwner' = IF sizeOwner = v THEN Successor(v) ELSE sizeOwner
      /\ sizeClaimSequence' = sizeClaimSequence
      /\ station' = station
  BY DEF ReleaseSizeClaim
<1>3. /\ Claimants \ {v} = {} => Successor(v) = NoViewer
      /\ Claimants \ {v} # {} =>
           /\ Successor(v) \in Claimants \ {v}
           /\ \A w \in Claimants \ {v} : sizeClaimants[w] <= sizeClaimants[Successor(v)]
  BY MostRecentType DEF Successor, Claimants
<1>4. Claimants' = Claimants \ {v}
  BY <1>2 DEF Claimants, SizeOK
<1>5. SizeOK'
  BY <1>1, <1>2, <1>3 DEF SizeOK, Claimants
<1>6. ClaimsNumbered'
  BY <1>2 DEF ClaimsNumbered, SizeOK
<1>7. OwnerIsMostRecentClaimant'
  <2>1. \A w \in Claimants \ {v} : sizeClaimants'[w] = sizeClaimants[w]
    BY <1>2 DEF SizeOK, Claimants
  <2>2. CASE sizeOwner = v
    <3>1. sizeOwner' = Successor(v)
      BY <1>2, <2>2
    <3>2. \A w \in Claimants \ {v, Successor(v)} :
            sizeClaimants[w] <= sizeClaimants[Successor(v)] /\ w \in Viewer
            /\ sizeClaimants[w] # 0
      BY <1>3 DEF Claimants
    <3>3. CASE Claimants \ {v} = {}
      BY <3>1, <3>3, <1>3, <1>4 DEF OwnerIsMostRecentClaimant
    <3>4. CASE Claimants \ {v} # {}
      <4>1. Successor(v) \in Claimants \ {v} /\ Successor(v) \in Viewer /\ Successor(v) # NoViewer
        BY <3>4, <1>3 DEF Claimants
      <4>2. \A w \in Claimants \ {v, Successor(v)} : sizeClaimants[w] < sizeClaimants[Successor(v)]
        BY <3>2, <4>1 DEF ClaimsNumbered, SizeOK
      <4> QED
        BY <3>1, <4>1, <4>2, <1>4, <2>1 DEF OwnerIsMostRecentClaimant
    <3> QED
      BY <3>3, <3>4
  <2>3. CASE sizeOwner # v
    BY <1>2, <1>4, <2>1, <2>3 DEF OwnerIsMostRecentClaimant
  <2> QED
    BY <2>2, <2>3
<1> QED
  BY <1>1, <1>5, <1>6, <1>7

LEMMA ClaimKeepsSizeInv ==
  ASSUME NEW v \in Viewer, NEW f, SizeInv, HandleClaim(v, f)
  PROVE  SizeInv'
<1> USE DEF SizeInv
<1>1. CASE sizeClaimants[v] # 0
  BY <1>1 DEF HandleClaim, sizeVars, SizeOK, ClaimsNumbered, OwnerIsMostRecentClaimant, Claimants
<1>2. CASE sizeClaimants[v] = 0
  <2>1. /\ sizeClaimSequence' = sizeClaimSequence + 1
        /\ sizeClaimants' = [sizeClaimants EXCEPT ![v] = sizeClaimSequence + 1]
        /\ sizeOwner' = v
        /\ UNCHANGED <<current, station, resizeFailed>>
    BY <1>2 DEF HandleClaim
  <2>2. SizeOK'
    BY <2>1 DEF SizeOK
  <2>3. ClaimsNumbered'
    BY <2>1 DEF SizeOK, ClaimsNumbered
  <2>4. Claimants' = Claimants \cup {v}
    BY <2>1 DEF SizeOK, Claimants
  <2>5. \A w \in Claimants \ {v} : sizeClaimants'[w] < sizeClaimants'[v]
    BY <2>1 DEF SizeOK, ClaimsNumbered, Claimants
  <2> QED
    BY <2>1, <2>2, <2>3, <2>4, <2>5 DEF OwnerIsMostRecentClaimant
<1> QED
  BY <1>1, <1>2 DEF SizeOK

LEMMA EndKeepsSizeInv ==
  ASSUME SizeInv, EndSession
  PROVE  SizeInv'
BY DEF EndSession, SizeInv, SizeOK, ClaimsNumbered, OwnerIsMostRecentClaimant, Claimants

\* Nothing but the grids changes.
LEMMA GridsKeepSizeInv ==
  ASSUME SizeInv, UNCHANGED <<sizeClaimants, sizeClaimSequence, sizeOwner>>,
         current' \in Dims, station' \in Dims, resizeFailed' \in BOOLEAN
  PROVE  SizeInv'
BY DEF SizeInv, SizeOK, ClaimsNumbered, OwnerIsMostRecentClaimant, Claimants

-----------------------------------------------------------------------------
(* The actions                                                               *)

\* What a handler of an inbound frame leaves in order.
HandledWell == WireOK' /\ AttachOK' /\ SizeInv' /\ QueueOK' /\ LifeOK'

LEMMA SendToType ==
  ASSUME NEW v \in Viewer, WireOK, AttachOK, SendTo(v)
  PROVE  /\ ws' \in [Viewer -> {"absent", "open", "closing", "closed"}]
         /\ subscribers' \subseteq Viewer
BY ClosingType DEF SendTo, AttachOK

LEMMA SendNoticeType ==
  ASSUME NEW v \in Viewer, WireOK, AttachOK, SendNotice(v)
  PROVE  /\ ws' \in [Viewer -> {"absent", "open", "closing", "closed"}]
         /\ subscribers' \subseteq Viewer /\ seen' \in [Viewer -> Seen]
BY SendToType, NoticedType DEF SendNotice, WireOK

LEMMA PushType ==
  ASSUME QueueOK, LifeOK, Push
  PROVE  queue' \in Seq(Task) /\ pushed' \in Nat /\ parsed' = parsed
<1>1. Write(pushed + 1) \in Task
  BY DEF Write, Task, ScreenOp, LifeOK
<1> QED
  BY <1>1 DEF Push, QueueOK, LifeOK

LEMMA SameSizes ==
  ASSUME SizeInv, UNCHANGED sizeVars
  PROVE  SizeInv'
BY GridsKeepSizeInv DEF sizeVars, SizeInv, SizeOK

LEMMA GiveUpClaimOK ==
  ASSUME IndInv, NEW v \in Viewer, NEW ok \in BOOLEAN, GiveUpClaim(v, ok), UNCHANGED lifeVars
  PROVE  HandledWell
<1>1. SizeInv' /\ QueueOK'
  BY ReleaseKeepsSizeInv DEF GiveUpClaim, IndInv, QueueOK
<1>2. seen' \in [Viewer -> Seen]
  BY SeenOnReleaseType DEF GiveUpClaim, IndInv
<1>3. ws' \in [Viewer -> {"absent", "open", "closing", "closed"}]
  BY ClosingType DEF GiveUpClaim, IndInv
<1> QED
  BY <1>1, <1>2, <1>3 DEF GiveUpClaim, HandledWell, IndInv, WireOK, AttachOK, LifeOK, lifeVars

LEMMA HandleMessageOK ==
  ASSUME IndInv, NEW v \in Viewer, NEW f \in Frame, NEW ok \in BOOLEAN,
         HandleMessage(v, f, ok)
  PROVE  HandledWell /\ handled' \in [Viewer -> Nat]
<1> USE DEF IndInv
<1>1. f.id \in Nat /\ f.dims \in Dims
  BY DEF Frame
<1>2. handled' \in [Viewer -> Nat]
  BY <1>1 DEF HandleMessage, InboundOK
<1> SUFFICES HandledWell
  BY <1>2
<1>3. UNCHANGED lifeVars
  BY DEF HandleMessage
<1>4. CASE HandleInput(v, f)
  BY <1>3, <1>4, SameSizes DEF HandleInput, HandledWell, wireVars, attachVars, screenVars,
     lifeVars, WireOK, AttachOK, QueueOK, LifeOK
<1>5. CASE HandleTerminalReset(v, f, ok)
  <2>1. CASE ok
    BY <1>3, <1>5, <2>1, SameSizes, PushType
       DEF HandleTerminalReset, HandledWell, lifeVars, WireOK, AttachOK, QueueOK, LifeOK
  <2>2. CASE ~ok
    BY <1>3, <1>5, <2>2, SameSizes, SendNoticeType
       DEF HandleTerminalReset, HandledWell, lifeVars, screenVars, WireOK, AttachOK, QueueOK, LifeOK
  <2> QED
    BY <2>1, <2>2
<1>6. CASE HandleResize(v, f, ok)
  <2>1. CASE ~MayResize(v)
    <3>1. seen' \in [Viewer -> Seen]
      <4>1. OwnerState(v, sizeOwner) \in {"none", "station", "other", "self"}
        BY DEF OwnerState
      <4>2. seen' = IF Reaches(v) THEN [seen EXCEPT ![v].owner = OwnerState(v, sizeOwner)]
                    ELSE seen
        BY <1>6, <2>1 DEF HandleResize
      <4> QED
        BY <4>1, <4>2 DEF WireOK, Seen
    <3>2. SendTo(v) /\ UNCHANGED <<queue, sizeVars>>
      BY <1>6, <2>1 DEF HandleResize
    <3> QED
      BY <1>3, <1>6, <3>1, <3>2, SendToType, SameSizes
         DEF HandleResize, HandledWell, lifeVars, WireOK, AttachOK, QueueOK, LifeOK
  <2>2. CASE MayResize(v)
    <3>1. ApplyResize(f.dims, ok, queue) /\ UNCHANGED <<sizeClaimants, sizeClaimSequence, sizeOwner, station>>
      BY <1>6, <2>2 DEF HandleResize
    <3>2. SizeInv' /\ QueueOK'
      BY <1>1, <3>1, ApplyResizeType, GridsKeepSizeInv DEF SizeInv, SizeOK, QueueOK
    <3>3. /\ ws' \in [Viewer -> {"absent", "open", "closing", "closed"}]
          /\ subscribers' \subseteq Viewer /\ seen' \in [Viewer -> Seen]
      BY <1>6, <2>2, SendNoticeType DEF HandleResize, WireOK, AttachOK
    <3> QED
      BY <1>3, <1>6, <3>1, <3>2, <3>3
         DEF HandleResize, HandledWell, lifeVars, WireOK, AttachOK, LifeOK
  <2> QED
    BY <2>1, <2>2
<1>7. CASE HandleSnapshotApplied(v, f)
  <2>1. seen' \in [Viewer -> Seen]
    <3>1. pendingScrollback[v] \in Nat \cup {Unset} /\ seen[v] \in Seen
      BY DEF AttachOK, WireOK
    <3>2. \/ seen' = seen
          \/ /\ pendingScrollback[v] # Unset
             /\ seen' = [seen EXCEPT ![v] = [seen[v] EXCEPT !.history =
                                               Append(seen[v].history, pendingScrollback[v])]]
      BY <1>7 DEF HandleSnapshotApplied, SendHistory
    <3>3. ASSUME pendingScrollback[v] # Unset
          PROVE  [seen[v] EXCEPT !.history = Append(seen[v].history, pendingScrollback[v])] \in Seen
      <4> DEFINE longer == Append(seen[v].history, pendingScrollback[v])
      <4>1. longer \in Seq(Nat)
        BY <3>1, <3>3 DEF Seen
      <4> HIDE DEF longer
      <4>2. [seen[v] EXCEPT !.history = longer] \in Seen
        BY <3>1, <4>1 DEF Seen
      <4> QED
        BY <4>2 DEF longer
    <3> QED
      BY <3>2, <3>3 DEF WireOK
  <2>2. /\ ws' \in [Viewer -> {"absent", "open", "closing", "closed"}]
        /\ subscribers' \subseteq Viewer
    BY <1>7, SendToType, ClosingType DEF HandleSnapshotApplied, AttachOK
  <2> QED
    BY <1>3, <1>7, <2>1, <2>2, SameSizes
       DEF HandleSnapshotApplied, HandledWell, lifeVars, screenVars, WireOK, AttachOK, QueueOK,
           LifeOK
<1>8. CASE HandleClaim(v, f)
  <2>1. SizeInv'
    BY <1>8, ClaimKeepsSizeInv
  <2>2. seen' \in [Viewer -> Seen]
    BY <1>8, OwnerToldType DEF HandleClaim, WireOK, wireVars
  <2>3. /\ ws' \in [Viewer -> {"absent", "open", "closing", "closed"}]
        /\ subscribers' \subseteq Viewer
    BY <1>8, ClosingType DEF HandleClaim, WireOK, AttachOK, wireVars
  <2> QED
    BY <1>3, <1>8, <2>1, <2>2, <2>3
       DEF HandleClaim, HandledWell, lifeVars, screenVars, wireVars, WireOK, AttachOK, QueueOK,
           LifeOK
<1>9. CASE HandleRelease(v, f, ok)
  BY <1>3, <1>9, GiveUpClaimOK DEF HandleRelease
<1>10. CASE HandleMalformed(v, f)
  BY <1>3, <1>10, SameSizes, ClosingType, NoticedType
     DEF HandleMalformed, HandledWell, lifeVars, screenVars, WireOK, AttachOK, QueueOK, LifeOK
<1> QED
  BY <1>4, <1>5, <1>6, <1>7, <1>8, <1>9, <1>10 DEF HandleMessage

LEMMA DetachOK ==
  ASSUME IndInv, NEW v \in Viewer, NEW ok \in BOOLEAN, NEW q \in Seq(Task), NEW told,
         Detach(v, ok, q, told), replaying = NoViewer, UNCHANGED replaying
  PROVE  InboundOK' /\ AttachOK' /\ SizeInv' /\ QueueOK'
<1> USE DEF IndInv
<1>1. SizeInv' /\ QueueOK'
  BY ReleaseKeepsSizeInv DEF Detach, QueueOK
<1>2. InboundOK'
  BY DEF Detach, InboundOK, ReplayHasFrames
<1>3. AttachOK'
  BY DEF Detach, AttachOK
<1> QED
  BY <1>1, <1>2, <1>3

LEMMA AttachAuthenticatedOK ==
  ASSUME IndInv, NEW v \in Viewer, NEW d \in Dims, NEW ok \in BOOLEAN,
         AttachAuthenticated(v, d, ok)
  PROVE  IndInv'
<1> USE DEF IndInv
<1> DEFINE applies == (local = "waiting" /\ ~exited) /\ sizeOwner = NoViewer
           grid    == IF applies /\ ok THEN d ELSE current
           q       == IF applies /\ ok THEN Append(queue, Resize(d)) ELSE queue
<1>1. q \in Seq(Task)
  <2>1. Resize(d) \in Task
    BY DEF Resize, Task, ScreenOp
  <2> QED
    BY <2>1 DEF QueueOK
<1>2. QueueOK'
  <2>1. Capture(v) \in Task
    BY DEF Capture, Task
  <2>2. queue' = Append(q, Capture(v))
    BY DEF AttachAuthenticated, CaptureLast
  <2> HIDE DEF q
  <2> QED
    BY <1>1, <2>1, <2>2 DEF QueueOK
<1>3. SizeInv'
  <2>1. current' \in Dims /\ station' \in Dims
    BY DEF AttachAuthenticated, SizeInv, SizeOK
  <2>2. resizeFailed' \in BOOLEAN
    BY Zenon DEF AttachAuthenticated
  <2>3. UNCHANGED <<sizeClaimants, sizeClaimSequence, sizeOwner>>
    BY DEF AttachAuthenticated
  <2> QED
    BY <2>1, <2>2, <2>3, GridsKeepSizeInv
<1>4. WireOK'
  <2>1. ws' \in [Viewer -> {"absent", "open", "closing", "closed"}] /\ clogged' \subseteq Viewer
    BY DEF AttachAuthenticated, WireOK
  <2>2. CASE seen' = [seen EXCEPT ![v].owner = OwnerState(v, sizeOwner), ![v].grid = grid]
    <3>1. OwnerState(v, sizeOwner) \in {"none", "station", "other", "self"}
      BY DEF OwnerState
    <3>2. grid \in Dims
      BY DEF SizeInv, SizeOK
    <3>3. seen[v] \in Seen
      BY DEF WireOK
    <3> HIDE DEF grid
    <3>4. [[seen[v] EXCEPT !.owner = OwnerState(v, sizeOwner)] EXCEPT !.grid = grid] \in Seen
      BY <3>1, <3>2, <3>3 DEF Seen
    <3> QED
      BY <2>1, <2>2, <3>4 DEF WireOK
  <2>3. CASE UNCHANGED seen
    BY <2>1, <2>3 DEF WireOK
  <2> QED
    BY <2>2, <2>3 DEF AttachAuthenticated
<1>5. InboundOK'
  BY DEF AttachAuthenticated, inboundVars, InboundOK, ReplayHasFrames
<1>6. AttachOK'
  BY DEF AttachAuthenticated, AttachOK
<1>7. LifeOK'
  BY DEF AttachAuthenticated, LifeOK
<1> QED
  BY <1>2, <1>3, <1>4, <1>5, <1>6, <1>7

LEMMA SocketClosedOK ==
  ASSUME IndInv, NEW v \in Viewer, NEW ok \in BOOLEAN, SocketClosed(v, ok)
  PROVE  IndInv'
<1> USE DEF IndInv
<1> DEFINE told == ToldOnRelease(v) \ {v}
<1>1. ws' \in [Viewer -> {"absent", "open", "closing", "closed"}]
  BY ClosingType DEF SocketClosed
<1>2. clogged' \subseteq Viewer
  BY DEF SocketClosed, WireOK
<1>3. LifeOK'
  BY DEF SocketClosed, LifeOK, lifeVars
<1>4. CASE stage[v] = "detached"
  <2>1. /\ UNCHANGED <<inboundVars, attachVars, sizeVars, queue>>
        /\ seen' = [seen EXCEPT ![v] = Unseen]
    BY <1>4 DEF SocketClosed
  <2>2. seen' \in [Viewer -> Seen]
    BY <2>1, UnseenType DEF WireOK
  <2> QED
    BY <1>1, <1>2, <1>3, <2>1, <2>2, SameSizes
       DEF inboundVars, attachVars, WireOK, InboundOK, AttachOK, QueueOK, ReplayHasFrames
<1>5. CASE stage[v] # "detached"
  <2>1. Detach(v, ok, queue, told) /\ UNCHANGED replaying /\ replaying = NoViewer
    BY <1>5 DEF SocketClosed, Idle
  <2>2. InboundOK' /\ AttachOK' /\ SizeInv' /\ QueueOK'
    BY <2>1, DetachOK DEF QueueOK
  <2>3. seen' = [SeenOnRelease(v, ok) EXCEPT ![v] = Unseen]
    BY <1>5 DEF SocketClosed
  <2>4. SeenOnRelease(v, ok) \in [Viewer -> Seen]
    BY SeenOnReleaseType
  <2> QED
    BY <1>1, <1>2, <1>3, <2>2, <2>3, <2>4, UnseenType DEF WireOK
<1> QED
  BY <1>4, <1>5

LEMMA RunScreenOpOK ==
  ASSUME IndInv, RunScreenOp
  PROVE  IndInv'
<1> USE DEF IndInv
<1>1. Head(queue) \in ScreenOp
  <2>1. Head(queue) \in Task /\ Head(queue).op # "capture"
    BY DEF RunScreenOp, QueueOK
  <2> QED
    BY <2>1 DEF Task
<1>2. QueueOK'
  BY DEF RunScreenOp, QueueOK
<1>3. SizeInv'
  BY SameSizes DEF RunScreenOp
<1>4. InboundOK'
  BY DEF RunScreenOp, inboundVars, InboundOK, ReplayHasFrames
<1>5. CASE disposed
  BY <1>2, <1>3, <1>4, <1>5 DEF RunScreenOp, WireOK, AttachOK, LifeOK, lifeVars
<1>6. CASE ~disposed
  <2>1. parsed' = Append(parsed, Head(queue)) /\ Broadcast(Head(queue))
    BY <1>6 DEF RunScreenOp
  <2>2. seen' \in [Viewer -> Seen]
    <3>1. \A v \in Viewer : [seen[v] EXCEPT !.screen = Append(@, Head(queue))] \in Seen
      <4> TAKE v \in Viewer
      <4>1. seen[v] \in Seen
        BY DEF WireOK
      <4>2. Append(seen[v].screen, Head(queue)) \in Seq(ScreenFrame)
        <5>1. seen[v].screen \in Seq(ScreenFrame) /\ Head(queue) \in ScreenFrame
          BY <1>1, <4>1 DEF Seen, ScreenFrame
        <5> QED
          BY <5>1
      <4> QED
        BY <4>1, <4>2 DEF Seen
    <3> QED
      BY <2>1, <3>1 DEF Broadcast, WireOK
  <2>3. WireOK' /\ AttachOK'
    BY <2>1, <2>2, ClosingType DEF Broadcast, RunScreenOp, WireOK, AttachOK
  <2>4. LifeOK'
    BY <1>1, <2>1 DEF RunScreenOp, LifeOK, lifeVars
  <2> QED
    BY <1>2, <1>3, <1>4, <2>3, <2>4
<1> QED
  BY <1>5, <1>6

LEMMA RunCaptureOK ==
  ASSUME IndInv, NEW ok \in BOOLEAN, RunCapture(ok)
  PROVE  IndInv'
<1> USE DEF IndInv
<1> DEFINE v == Head(queue).viewer
<1>1. v \in Viewer
  <2>1. Head(queue) \in Task /\ Head(queue).op = "capture"
    BY DEF RunCapture, QueueOK
  <2> QED
    BY <2>1 DEF Task, ScreenOp
<1>2. Tail(queue) \in Seq(Task)
  BY DEF RunCapture, QueueOK
<1>3. replaying = NoViewer /\ pushed' = pushed /\ UNCHANGED lifeVars
  BY DEF RunCapture
<1>4. CASE queue' = Tail(queue) /\ UNCHANGED <<wireVars, inboundVars, attachVars, sizeVars, parsed>>
  BY <1>2, <1>3, <1>4, SameSizes
     DEF wireVars, inboundVars, attachVars, lifeVars, WireOK, InboundOK, AttachOK, QueueOK,
         LifeOK, ReplayHasFrames
<1>5. CASE RefuseCapture(v, ok)
  <2>1. clogged' = clogged /\ parsed' = parsed
    BY <1>5 DEF RefuseCapture
  <2>2. ws' \in [Viewer -> {"absent", "open", "closing", "closed"}]
    BY <1>5, ClosingType DEF RefuseCapture
  <2>3. CASE stage[v] = "detached"
    <3>1. UNCHANGED <<seen, inboundVars, attachVars, sizeVars>> /\ queue' = Tail(queue)
      BY <1>5, <2>3 DEF RefuseCapture, AfterRefusal
    <3> QED
      BY <1>2, <1>3, <2>1, <2>2, <3>1, SameSizes
         DEF inboundVars, attachVars, lifeVars, WireOK, InboundOK, AttachOK, QueueOK, LifeOK,
             ReplayHasFrames
  <2>4. CASE stage[v] # "detached"
    <3>1. /\ Detach(v, ok, Tail(queue), ToldOnRelease(v))
          /\ seen' = SeenOnRelease(v, ok)
          /\ UNCHANGED replaying
      BY <1>5, <2>4 DEF RefuseCapture, AfterRefusal
    <3>2. InboundOK' /\ AttachOK' /\ SizeInv' /\ QueueOK'
      BY <1>1, <1>2, <1>3, <3>1, DetachOK
    <3>3. seen' \in [Viewer -> Seen]
      BY <1>1, <3>1, SeenOnReleaseType
    <3> QED
      BY <1>3, <2>1, <2>2, <3>2, <3>3 DEF WireOK, LifeOK, lifeVars
  <2> QED
    BY <2>3, <2>4
<1>6. CASE SendSnapshot(v)
  <2>1. seen' \in [Viewer -> Seen]
    <3>1. seen[v] \in Seen /\ parsed \in Seq(ScreenOp) /\ Len(parsed) \in Nat
      BY <1>1 DEF WireOK, LifeOK
    <3>4. parsed \in Seq(ScreenFrame)
      BY <3>1, ScreenOpsAreFrames
    <3>2. [[seen[v] EXCEPT !.snapshot = Len(parsed)] EXCEPT !.screen = parsed] \in Seen
      BY <3>1, <3>4 DEF Seen
    <3>3. seen' = seen \/ seen' = [seen EXCEPT ![v].snapshot = Len(parsed), ![v].screen = parsed]
      BY <1>6 DEF SendSnapshot, CapturedScreen
    <3> QED
      BY <3>2, <3>3 DEF WireOK
  <2>2. WireOK'
    BY <1>6, <2>1, ClosingType DEF SendSnapshot, WireOK
  <2>3. InboundOK'
    BY <1>1, <1>6 DEF SendSnapshot, InboundOK, ReplayHasFrames, ReplayOf
  <2>4. AttachOK'
    BY <1>1, <1>6 DEF SendSnapshot, AttachOK, LifeOK
  <2>5. SizeInv'
    BY <1>6, SameSizes DEF SendSnapshot
  <2> QED
    BY <1>2, <1>3, <1>6, <2>2, <2>3, <2>4, <2>5
       DEF SendSnapshot, QueueOK, LifeOK, lifeVars
<1> QED
  BY <1>4, <1>5, <1>6 DEF RunCapture

LEMMA ReceiveOK ==
  ASSUME IndInv, NEW v \in Viewer, NEW f \in Frame, NEW ok \in BOOLEAN, Receive(v, f, ok)
  PROVE  IndInv'
<1> USE DEF IndInv
<1>1. f.id \in Nat
  BY DEF Frame
<1>2. received' \in [Viewer -> Nat] /\ UNCHANGED replaying /\ replaying = NoViewer
  BY <1>1 DEF Receive, InboundOK
<1>3. CASE stage[v] = "attaching"
  <2>1. inbound' = [inbound EXCEPT ![v] = Append(@, f)]
        /\ UNCHANGED <<handled, wireVars, attachVars, sizeVars, screenVars, lifeVars>>
    BY <1>3 DEF Receive
  <2>2. InboundOK'
    BY <1>2, <2>1 DEF InboundOK, ReplayHasFrames
  <2> QED
    BY <2>1, <2>2, SameSizes
       DEF wireVars, attachVars, screenVars, lifeVars, WireOK, AttachOK, QueueOK, LifeOK
<1>4. CASE stage[v] = "ready"
  <2>1. HandleMessage(v, f, ok) /\ UNCHANGED inbound
    BY <1>4 DEF Receive
  <2>2. HandledWell /\ handled' \in [Viewer -> Nat]
    BY <2>1, HandleMessageOK
  <2>3. InboundOK'
    BY <1>2, <2>1, <2>2 DEF InboundOK, ReplayHasFrames
  <2> QED
    BY <2>2, <2>3 DEF HandledWell
<1> QED
  BY <1>3, <1>4 DEF Receive

LEMMA ReplayOK ==
  ASSUME IndInv, NEW v \in Viewer, NEW ok \in BOOLEAN, Replay(v, ok)
  PROVE  IndInv'
<1> USE DEF IndInv
<1>1. inbound[v] \in Seq(Frame) /\ inbound[v] # <<>>
  BY DEF Replay, InboundOK, ReplayHasFrames
<1>2. Head(inbound[v]) \in Frame /\ Tail(inbound[v]) \in Seq(Frame)
      /\ (Len(inbound[v]) # 1 => Tail(inbound[v]) # <<>>)
  <2> DEFINE s == inbound[v]
  <2>1. s \in Seq(Frame) /\ s # <<>>
    BY <1>1
  <2> HIDE DEF s
  <2>2. Head(s) \in Frame /\ Tail(s) \in Seq(Frame)
    BY <2>1
  <2>3. Len(s) # 1 => Tail(s) # <<>>
    <3>1. Len(Tail(s)) = Len(s) - 1
      BY <2>1, HeadTailProperties
    <3>2. Len(s) \in Nat
      BY <2>1
    <3>3. Tail(s) = <<>> => Len(Tail(s)) = 0
      BY <2>2, EmptySeq
    <3> QED
      BY <3>1, <3>2, <3>3
  <2> QED
    BY <2>2, <2>3 DEF s
<1>3. HandledWell /\ handled' \in [Viewer -> Nat]
  BY <1>2, HandleMessageOK DEF Replay
<1>4. InboundOK'
  <2>1. inbound' = [inbound EXCEPT ![v] = Tail(@)] /\ UNCHANGED received
        /\ replaying' = IF Len(inbound[v]) = 1 THEN NoViewer ELSE v
    BY DEF Replay
  <2> QED
    BY <1>2, <1>3, <2>1 DEF InboundOK, ReplayHasFrames
<1> QED
  BY <1>3, <1>4 DEF HandledWell

LEMMA InitOK == Init => IndInv
<1> SUFFICES ASSUME Init PROVE IndInv
  OBVIOUS
<1>1. WireOK
  BY UnseenType DEF Init, WireOK
<1>2. SizeInv
  <2>1. SizeOK
    BY DEF Init, SizeOK
  <2>2. Claimants = {} /\ sizeOwner = NoViewer
    BY DEF Init, Claimants
  <2>3. ClaimsNumbered
    BY DEF Init, ClaimsNumbered
  <2> QED
    BY <2>1, <2>2, <2>3 DEF SizeInv, OwnerIsMostRecentClaimant
<1>3. InboundOK
  BY DEF Init, InboundOK, ReplayHasFrames
<1>4. AttachOK
  BY DEF Init, AttachOK
<1>5. QueueOK
  BY DEF Init, QueueOK
<1>6. LifeOK
  <2>1. local \in {"waiting", "attached", "gone"} /\ pushed \in Nat
    BY DEF Init
  <2>2. parsed \in Seq(ScreenOp)
    BY DEF Init
  <2>3. exited \in BOOLEAN /\ disposed \in BOOLEAN
    BY DEF Init
  <2> QED
    BY <2>1, <2>2, <2>3 DEF LifeOK
<1> QED
  BY <1>1, <1>2, <1>3, <1>4, <1>5, <1>6 DEF IndInv

LEMMA NextOK == IndInv /\ [Next]_vars => IndInv'
<1> SUFFICES ASSUME IndInv, [Next]_vars PROVE IndInv'
  OBVIOUS
<1> USE DEF IndInv
<1>1. CASE PtyOutput
  BY <1>1, PushType, SameSizes
     DEF PtyOutput, wireVars, inboundVars, attachVars, lifeVars, WireOK, InboundOK, AttachOK,
         QueueOK, LifeOK, ReplayHasFrames
<1>2. CASE LocalGone
  BY <1>2, SameSizes
     DEF LocalGone, wireVars, inboundVars, attachVars, screenVars, WireOK, InboundOK, AttachOK,
         QueueOK, LifeOK, ReplayHasFrames
<1>3. CASE RunScreenOp
  BY <1>3, RunScreenOpOK
<1>4. CASE PtyExit
  BY <1>4, EndKeepsSizeInv, ClosingType
     DEF PtyExit, EndSession, inboundVars, screenVars, WireOK, InboundOK, AttachOK, QueueOK,
         LifeOK, ReplayHasFrames
<1>5. CASE Dispose
  BY <1>5, EndKeepsSizeInv, ClosingType
     DEF Dispose, EndSession, inboundVars, screenVars, WireOK, InboundOK, AttachOK, QueueOK,
         LifeOK, ReplayHasFrames
<1>6. ASSUME NEW ok \in BOOLEAN, RunCapture(ok)
      PROVE  IndInv'
  BY <1>6, RunCaptureOK
<1>7. ASSUME NEW ok \in BOOLEAN, NEW d \in Dims, StationResize(d, ok)
      PROVE  IndInv'
  <2>1. current' \in Dims /\ station' \in Dims /\ resizeFailed' \in BOOLEAN /\ QueueOK'
    BY <1>7, ApplyResizeType DEF StationResize, ApplyStationResize, SizeInv, SizeOK, QueueOK
  <2>2. SizeInv'
    BY <1>7, <2>1, GridsKeepSizeInv DEF StationResize
  <2> QED
    BY <1>7, <2>1, <2>2
       DEF StationResize, wireVars, inboundVars, attachVars, lifeVars, WireOK, InboundOK,
           AttachOK, LifeOK, ReplayHasFrames
<1>8. ASSUME NEW ok \in BOOLEAN, NEW v \in Viewer, SocketClosed(v, ok)
      PROVE  IndInv'
  BY <1>8, SocketClosedOK
<1>9. ASSUME NEW ok \in BOOLEAN, NEW v \in Viewer, LeaseExpires(v, ok)
      PROVE  IndInv'
  BY <1>9, GiveUpClaimOK
     DEF LeaseExpires, HandledWell, inboundVars, InboundOK, ReplayHasFrames
<1>10. ASSUME NEW ok \in BOOLEAN, NEW v \in Viewer, Replay(v, ok)
       PROVE  IndInv'
  BY <1>10, ReplayOK
<1>11. ASSUME NEW ok \in BOOLEAN, NEW v \in Viewer, NEW d \in Dims,
              AttachAuthenticated(v, d, ok)
       PROVE  IndInv'
  BY <1>11, AttachAuthenticatedOK
<1>12. ASSUME NEW ok \in BOOLEAN, NEW v \in Viewer, NEW f \in Frame, Receive(v, f, ok)
       PROVE  IndInv'
  BY <1>12, ReceiveOK
<1>13. ASSUME NEW v \in Viewer, Clog(v)
       PROVE  IndInv'
  BY <1>13, SameSizes
     DEF Clog, inboundVars, attachVars, screenVars, lifeVars, WireOK, InboundOK, AttachOK,
         QueueOK, LifeOK, ReplayHasFrames
<1>14. CASE UNCHANGED vars
  BY <1>14, SameSizes
     DEF vars, wireVars, inboundVars, attachVars, screenVars, lifeVars, WireOK, InboundOK,
         AttachOK, QueueOK, LifeOK, ReplayHasFrames
<1> QED
  BY <1>1, <1>2, <1>3, <1>4, <1>5, <1>6, <1>7, <1>8, <1>9, <1>10, <1>11, <1>12, <1>13, <1>14
     DEF Next

THEOREM InductiveInvariant == Spec => []IndInv
BY InitOK, NextOK, PTL DEF Spec

-----------------------------------------------------------------------------
(* Results                                                                   *)

\* Every variable of the Session stays in its type, whatever the viewers send
\* and in whatever order the callbacks run.
THEOREM TypeCorrect == Spec => []TypeOK
<1>1. IndInv => TypeOK
  BY DEF IndInv, WireOK, InboundOK, AttachOK, SizeInv, SizeOK, QueueOK, LifeOK, TypeOK
<1> QED
  BY <1>1, InductiveInvariant, PTL

\* The owner of the size is the newest claimant, and there is one exactly while
\* somebody claims it (claimSizeOwnership, releaseSizeClaim, the lease timers,
\* detach, handleExit and dispose together).
THEOREM OwnershipCorrect == Spec => []OwnerIsMostRecentClaimant
<1>1. IndInv => OwnerIsMostRecentClaimant
  BY DEF IndInv, SizeInv
<1> QED
  BY <1>1, InductiveInvariant, PTL

-----------------------------------------------------------------------------
(* Snapshot before live                                                      *)

\* A viewer subscribes only with its snapshot.
SubscribersAreReady == \A v \in subscribers : stage[v] \notin {"none", "attaching"}

LiveInv == LiveScreenIsCanonical /\ SubscribersAreReady

\* A place is a number of frames.
LEMMA PlaceType ==
  ASSUME NEW s, NEW i \in Nat
  PROVE  Place(s, i) \in Nat
<1>1. IsFiniteSet(1..i)
  BY FS_Interval
<1>2. IsFiniteSet({j \in 1..i : s[j] # Notice})
  BY <1>1, FS_Subset
<1> QED
  BY <1>2, FS_CardinalityType DEF Place

\* One more frame leaves the places before it as they are.
LEMMA PlaceAppend ==
  ASSUME NEW s \in Seq(ScreenFrame), NEW e \in ScreenFrame
  PROVE  LET n == Len(s) + 1
         IN  /\ \A i \in 0..Len(s) : Place(Append(s, e), i) = Place(s, i)
             /\ Place(Append(s, e), n) = IF e = Notice THEN Place(s, Len(s)) ELSE Place(s, Len(s)) + 1
<1> DEFINE n == Len(s) + 1
           t == Append(s, e)
           Before == {j \in 1..Len(s) : s[j] # Notice}
<1>1. \A i \in 0..Len(s) : \A j \in 1..i : t[j] = s[j]
  OBVIOUS
<1>2. ASSUME NEW i \in 0..Len(s)
      PROVE  Place(t, i) = Place(s, i)
  <2>1. {j \in 1..i : t[j] # Notice} = {j \in 1..i : s[j] # Notice}
    BY <1>1
  <2> QED
    BY <2>1 DEF Place
<1>3. t[n] = e /\ n \in Nat /\ n \notin Before /\ Before \subseteq 1..Len(s)
  OBVIOUS
<1>4. IsFiniteSet(Before)
  <2> HIDE DEF Before
  <2>1. IsFiniteSet(1..Len(s))
    BY FS_Interval
  <2> QED
    BY <1>3, <2>1, FS_Subset
<1>5. {j \in 1..n : t[j] # Notice} = IF e = Notice THEN Before ELSE Before \cup {n}
  <2>1. \A j \in 1..n : j = n \/ j \in 1..Len(s)
    OBVIOUS
  <2>2. \A j \in 1..Len(s) : j \in 1..n /\ j # n /\ t[j] = s[j]
    OBVIOUS
  <2>3. n \in 1..n
    OBVIOUS
  <2> HIDE DEF t, n
  <2> QED
    BY <1>3, <2>1, <2>2, <2>3
<1>6. Cardinality(Before \cup {n}) = Cardinality(Before) + 1
  <2> HIDE DEF Before, n
  <2> QED
    BY <1>3, <1>4, FS_AddElement
<1> HIDE DEF t, n
<1>7. Place(t, n) = IF e = Notice THEN Cardinality(Before) ELSE Cardinality(Before) + 1
  BY <1>5, <1>6 DEF Place
<1>8. Place(s, Len(s)) = Cardinality(Before)
  BY DEF Place
<1> QED
  BY <1>2, <1>7, <1>8 DEF t, n

\* A notice changes nothing for the frames of the canonical screen.
LEMMA NoticeMirrors ==
  ASSUME NEW s \in Seq(ScreenFrame), NEW log, Mirrors(s, log)
  PROVE  Mirrors(Append(s, Notice), log)
<1> DEFINE t == Append(s, Notice)
<1>1. /\ \A i \in 0..Len(s) : Place(t, i) = Place(s, i)
      /\ Place(t, Len(s) + 1) = Place(s, Len(s))
  BY PlaceAppend DEF ScreenFrame
<1>2. /\ Len(t) = Len(s) + 1 /\ t[Len(s) + 1] = Notice
      /\ \A i \in DOMAIN t : i = Len(s) + 1 \/ (i \in DOMAIN s /\ i \in 0..Len(s) /\ t[i] = s[i])
  OBVIOUS
<1> HIDE DEF t
<1> QED
  BY <1>1, <1>2 DEF Mirrors, t

\* A frame that the canonical screen has parsed is the next one of the log.
LEMMA ParsedMirrors ==
  ASSUME NEW s \in Seq(ScreenFrame), NEW log \in Seq(ScreenOp), NEW op \in ScreenOp,
         Mirrors(s, log)
  PROVE  Mirrors(Append(s, op), Append(log, op))
<1> DEFINE t == Append(s, op)
           longer == Append(log, op)
<1>1. op \in ScreenFrame /\ op # Notice
  <2>1. op.op \in {"write", "resize"} /\ Notice.op = "notice"
    BY DEF ScreenOp, Notice
  <2> QED
    BY <2>1 DEF ScreenFrame
<1>2. /\ \A i \in 0..Len(s) : Place(t, i) = Place(s, i)
      /\ Place(t, Len(s) + 1) = Place(s, Len(s)) + 1
  BY <1>1, PlaceAppend
<1>3. /\ Len(t) = Len(s) + 1 /\ t[Len(s) + 1] = op
      /\ \A i \in DOMAIN t : i = Len(s) + 1 \/ (i \in DOMAIN s /\ i \in 0..Len(s) /\ t[i] = s[i])
  BY <1>1
<1>4. Place(s, Len(s)) = Len(log)
  BY DEF Mirrors
<1>5. /\ Len(longer) = Len(log) + 1 /\ longer[Len(log) + 1] = op
      /\ \A k \in 1..Len(log) : longer[k] = log[k]
  OBVIOUS
<1>6. ASSUME NEW i \in DOMAIN s, s[i] # Notice
      PROVE  Place(s, i) \in 1..Len(log)
  <2> DEFINE A == {j \in 1..i : s[j] # Notice}
             B == {j \in 1..Len(s) : s[j] # Notice}
  <2>1. i \in Nat /\ i \in A /\ A \subseteq B /\ A \subseteq 1..i /\ B \subseteq 1..Len(s)
    BY <1>6
  <2>2. IsFiniteSet(A) /\ IsFiniteSet(B)
    <3> HIDE DEF A, B
    <3>1. IsFiniteSet(1..i) /\ IsFiniteSet(1..Len(s))
      BY <2>1, FS_Interval
    <3> QED
      BY <2>1, <3>1, FS_Subset
  <2>3. Cardinality(A) <= Cardinality(B) /\ Cardinality(A) \in Nat /\ Cardinality(A) # 0
    <3> HIDE DEF A, B
    <3> QED
      BY <2>1, <2>2, FS_Subset, FS_CardinalityType, FS_EmptySet
  <2> QED
    BY <1>4, <2>3 DEF Place
<1> HIDE DEF t, longer
<1> SUFFICES Mirrors(t, longer)
  BY DEF t, longer
<1>7. ASSUME NEW i \in DOMAIN t, t[i] # Notice
      PROVE  t[i] = longer[Place(t, i)]
  <2>1. CASE i = Len(s) + 1
    BY <1>2, <1>3, <1>4, <1>5, <2>1
  <2>2. CASE i \in DOMAIN s /\ i \in 0..Len(s) /\ t[i] = s[i]
    <3>1. s[i] = log[Place(s, i)] /\ Place(t, i) = Place(s, i)
      BY <1>2, <1>7, <2>2 DEF Mirrors
    <3> QED
      BY <1>5, <1>6, <1>7, <2>2, <3>1
  <2> QED
    BY <1>3, <1>7, <2>1, <2>2
<1> QED
  BY <1>2, <1>3, <1>4, <1>5, <1>7 DEF Mirrors

\* The snapshot shows the log itself.
LEMMA LogMirrors ==
  ASSUME NEW log \in Seq(ScreenOp)
  PROVE  Mirrors(log, log)
<1>1. \A i \in 1..Len(log) : log[i] # Notice
  <2>1. \A op \in ScreenOp : op # Notice
    <3>1. \A op \in ScreenOp : op.op \in {"write", "resize"}
      BY DEF ScreenOp
    <3>2. Notice.op = "notice"
      BY DEF Notice
    <3> QED
      BY <3>1, <3>2
  <2> QED
    BY <2>1
<1>2. \A i \in 0..Len(log) : Place(log, i) = i
  <2> TAKE i \in 0..Len(log)
  <2>1. {j \in 1..i : log[j] # Notice} = 1..i
    BY <1>1
  <2>2. Cardinality(1..i) = i
    BY FS_Interval
  <2> QED
    BY <2>1, <2>2 DEF Place
<1> QED
  BY <1>2 DEF Mirrors

\* A step that parses nothing and adds nothing but notices to a screen behind an
\* open socket, which may only leave that state; subscribers may only go.
SameScreen(v) == \/ seen'[v].screen = seen[v].screen
                 \/ seen'[v].screen = Append(seen[v].screen, Notice)
Quiet ==
  /\ parsed' = parsed
  /\ \A v \in Viewer : ws'[v] = "open" => SameScreen(v)
  /\ \A v \in Viewer : ws'[v] = "open" => ws[v] = "open" \/ v \notin subscribers'
  /\ subscribers' \subseteq subscribers
  /\ \A v \in subscribers' : stage'[v] = stage[v] \/ stage'[v] = "detached"

LEMMA QuietKeepsLiveInv ==
  ASSUME IndInv, LiveInv, Quiet
  PROVE  LiveInv'
<1>1. SubscribersAreReady'
  BY DEF IndInv, AttachOK, LiveInv, Quiet, SubscribersAreReady
<1>2. ASSUME NEW v \in subscribers', ws'[v] = "open"
      PROVE  Mirrors(seen'[v].screen, parsed)
  <2>1. v \in Viewer /\ v \in subscribers /\ ws[v] = "open" /\ SameScreen(v)
    BY <1>2 DEF IndInv, AttachOK, Quiet
  <2>2. Mirrors(seen[v].screen, parsed) /\ seen[v].screen \in Seq(ScreenFrame)
    BY <2>1 DEF LiveInv, LiveScreenIsCanonical, IndInv, WireOK, Seen
  <2> QED
    BY <2>1, <2>2, NoticeMirrors DEF SameScreen
<1> QED
  BY <1>1, <1>2 DEF Quiet, LiveInv, LiveScreenIsCanonical

LEMMA ClosingOpensNothing ==
  ASSUME NEW S
  PROVE  \A v \in Viewer : Closing(S)[v] = "open" => ws[v] = "open"
BY DEF Closing

LEMMA OwnerToldScreens ==
  ASSUME WireOK, NEW owner
  PROVE  \A v \in Viewer : OwnerTold(owner)[v].screen = seen[v].screen
<1> TAKE v \in Viewer
<1> DEFINE o == OwnerState(v, owner)
<1>1. [seen[v] EXCEPT !.owner = o].screen = seen[v].screen
  <2> HIDE DEF o
  <2> QED
    BY DEF WireOK, Seen
<1> QED
  BY <1>1 DEF OwnerTold

LEMMA ReleaseScreens ==
  ASSUME WireOK, NEW v \in Viewer, NEW ok \in BOOLEAN
  PROVE  \A w \in Viewer : \/ SeenOnRelease(v, ok)[w].screen = seen[w].screen
                           \/ SeenOnRelease(v, ok)[w].screen = Append(seen[w].screen, Notice)
<1> TAKE w \in Viewer
<1>1. OwnerTold(NoViewer) \in [Viewer -> Seen]
  BY OwnerToldType
<1> DEFINE told == Noticed(OwnerTold(NoViewer), subscribers)
<1>2. \/ told[w].screen = OwnerTold(NoViewer)[w].screen
      \/ told[w].screen = Append(OwnerTold(NoViewer)[w].screen, Notice)
  BY <1>1, NoticedShows
<1> HIDE DEF told
<1>3. SeenOnRelease(v, ok) \in {seen, told, OwnerTold(Successor(v))}
  BY DEF SeenOnRelease, told
<1> QED
  BY <1>2, <1>3, OwnerToldScreens

\* An error message to one viewer.
LEMMA SendNoticeScreens ==
  ASSUME WireOK, NEW v \in Viewer, SendNotice(v)
  PROVE  /\ \A w \in Viewer : SameScreen(w)
         /\ \A w \in Viewer : ws'[w] = "open" => ws[w] = "open"
         /\ subscribers' \subseteq subscribers
BY NoticedShows, ClosingOpensNothing DEF SendNotice, SendTo, SameScreen, WireOK

LEMMA GiveUpClaimQuiet ==
  ASSUME IndInv, NEW v \in Viewer, NEW ok \in BOOLEAN, GiveUpClaim(v, ok)
  PROVE  Quiet
<1>1. \A w \in Viewer : SameScreen(w)
  BY ReleaseScreens DEF GiveUpClaim, IndInv, SameScreen
<1>2. \A w \in Viewer : ws'[w] = "open" => ws[w] = "open"
  BY ClosingOpensNothing DEF GiveUpClaim
<1> QED
  BY <1>1, <1>2 DEF GiveUpClaim, Quiet, IndInv, AttachOK

LEMMA HandleMessageQuiet ==
  ASSUME IndInv, NEW v \in Viewer, NEW f \in Frame, NEW ok \in BOOLEAN,
         HandleMessage(v, f, ok)
  PROVE  Quiet
<1> USE DEF IndInv
<1>1. CASE HandleInput(v, f)
  BY <1>1 DEF HandleInput, wireVars, attachVars, screenVars, Quiet, SameScreen
<1>2. CASE HandleTerminalReset(v, f, ok)
  BY <1>2, SendNoticeScreens DEF HandleTerminalReset, Push, screenVars, Quiet, SameScreen
<1>3. CASE HandleResize(v, f, ok)
  <2>3. CASE MayResize(v)
    BY <1>3, <2>3, SendNoticeScreens DEF HandleResize, Quiet, SameScreen
  <2>1. ASSUME ~MayResize(v)
        PROVE  \A w \in Viewer : seen'[w].screen = seen[w].screen
    <3> DEFINE o == OwnerState(v, sizeOwner)
    <3>1. seen' = seen \/ seen' = [seen EXCEPT ![v].owner = o]
      BY <1>3, <2>1 DEF HandleResize
    <3> HIDE DEF o
    <3>2. [seen[v] EXCEPT !.owner = o].screen = seen[v].screen
      BY DEF WireOK, Seen
    <3>3. \A w \in Viewer : seen'[w] # seen[w]
            => w = v /\ seen'[w] = [seen[v] EXCEPT !.owner = o]
      BY <3>1 DEF WireOK
    <3> QED
      BY <3>2, <3>3
  <2>2. ASSUME ~MayResize(v)
        PROVE  /\ \A w \in Viewer : ws'[w] = "open" => ws[w] = "open"
               /\ subscribers' \subseteq subscribers
    BY <1>3, <2>2, ClosingOpensNothing DEF HandleResize, SendTo
  <2> QED
    BY <1>3, <2>1, <2>2, <2>3 DEF HandleResize, Quiet, SameScreen
<1>4. CASE HandleSnapshotApplied(v, f)
  <2>1. \A w \in Viewer : seen'[w].screen = seen[w].screen
    <3> DEFINE h == Append(seen[v].history, pendingScrollback[v])
    <3>1. seen' = seen \/ seen' = [seen EXCEPT ![v].history = h]
      BY <1>4 DEF HandleSnapshotApplied, SendHistory, WireOK
    <3> HIDE DEF h
    <3>2. [seen[v] EXCEPT !.history = h].screen = seen[v].screen
      BY DEF WireOK, Seen
    <3>3. \A w \in Viewer : seen'[w] # seen[w]
            => w = v /\ seen'[w] = [seen[v] EXCEPT !.history = h]
      BY <3>1 DEF WireOK
    <3> QED
      BY <3>2, <3>3
  <2>2. /\ \A w \in Viewer : ws'[w] = "open" => ws[w] = "open"
        /\ subscribers' \subseteq subscribers
    BY <1>4, ClosingOpensNothing DEF HandleSnapshotApplied, SendTo
  <2> QED
    BY <1>4, <2>1, <2>2 DEF HandleSnapshotApplied, screenVars, Quiet, SameScreen
<1>5. CASE HandleClaim(v, f)
  <2>1. \A w \in Viewer : seen'[w].screen = seen[w].screen
    BY <1>5, OwnerToldScreens DEF HandleClaim, wireVars
  <2>2. /\ \A w \in Viewer : ws'[w] = "open" => ws[w] = "open"
        /\ subscribers' \subseteq subscribers
    BY <1>5, ClosingOpensNothing DEF HandleClaim, wireVars
  <2> QED
    BY <1>5, <2>1, <2>2 DEF HandleClaim, screenVars, Quiet, SameScreen
<1>6. CASE HandleRelease(v, f, ok)
  BY <1>6, GiveUpClaimQuiet DEF HandleRelease
<1>7. CASE HandleMalformed(v, f)
  <2>1. \A w \in Viewer : SameScreen(w)
    BY <1>7, NoticedShows DEF HandleMalformed, SameScreen, WireOK
  <2> QED
    BY <1>7, <2>1, ClosingOpensNothing DEF HandleMalformed, screenVars, Quiet
<1> QED
  BY <1>1, <1>2, <1>3, <1>4, <1>5, <1>6, <1>7 DEF HandleMessage

LEMMA DetachQuiet ==
  ASSUME IndInv, NEW v \in Viewer, NEW ok \in BOOLEAN, NEW q, NEW told,
         Detach(v, ok, q, told)
  PROVE  /\ subscribers' \subseteq subscribers \ {v}
         /\ \A w \in subscribers' : stage'[w] = stage[w]
BY DEF Detach, IndInv, AttachOK

LEMMA AttachAuthenticatedQuiet ==
  ASSUME IndInv, LiveInv, NEW v \in Viewer, NEW d \in Dims, NEW ok \in BOOLEAN,
         AttachAuthenticated(v, d, ok)
  PROVE  Quiet
<1> USE DEF IndInv
<1> DEFINE applies == (local = "waiting" /\ ~exited) /\ sizeOwner = NoViewer
           grid    == IF applies /\ ok THEN d ELSE current
<1>1. v \notin subscribers
  BY DEF AttachAuthenticated, LiveInv, SubscribersAreReady
<1>2. \A w \in Viewer : seen'[w].screen = seen[w].screen
  <2>1. CASE UNCHANGED seen
    BY <2>1
  <2>2. CASE seen' = [seen EXCEPT ![v].owner = OwnerState(v, sizeOwner), ![v].grid = grid]
    <3> TAKE w \in Viewer
    <3> DEFINE o == OwnerState(v, sizeOwner)
    <3>1. seen' = [seen EXCEPT ![v].owner = o, ![v].grid = grid]
      BY <2>2
    <3> HIDE DEF o, grid
    <3>2. [[seen[v] EXCEPT !.owner = o] EXCEPT !.grid = grid].screen = seen[v].screen
      BY DEF WireOK, Seen
    <3>3. seen'[w] = IF w = v THEN [[seen[v] EXCEPT !.owner = o] EXCEPT !.grid = grid] ELSE seen[w]
      BY <3>1 DEF WireOK
    <3> QED
      BY <3>2, <3>3
  <2> QED
    BY <2>1, <2>2 DEF AttachAuthenticated
<1>3. \A w \in Viewer : w # v => ws'[w] = ws[w] /\ stage'[w] = stage[w]
  BY DEF AttachAuthenticated, WireOK, AttachOK
<1> QED
  BY <1>1, <1>2, <1>3 DEF AttachAuthenticated, Quiet, SameScreen, AttachOK

LEMMA SocketClosedQuiet ==
  ASSUME IndInv, NEW v \in Viewer, NEW ok \in BOOLEAN, SocketClosed(v, ok)
  PROVE  Quiet
<1> USE DEF IndInv
<1> DEFINE told == ToldOnRelease(v) \ {v}
<1>1. \A w \in Viewer : ws'[w] = "open" => ws[w] = "open"
  BY ClosingOpensNothing, ClosingType DEF SocketClosed
<1>2. parsed' = parsed /\ ws'[v] = "closed"
  <2>1. Closing(told \cap clogged) \in [Viewer -> {"absent", "open", "closing", "closed"}]
    BY ClosingType
  <2> QED
    BY <2>1 DEF SocketClosed
<1>3. CASE stage[v] = "detached"
  <2>1. UNCHANGED attachVars /\ seen' = [seen EXCEPT ![v] = Unseen]
    BY <1>3 DEF SocketClosed
  <2>2. \A w \in Viewer \ {v} : seen'[w].screen = seen[w].screen
    BY <2>1 DEF WireOK
  <2> QED
    BY <1>1, <1>2, <2>1, <2>2 DEF Quiet, SameScreen, attachVars
<1>4. CASE stage[v] # "detached"
  <2>1. Detach(v, ok, queue, told) /\ seen' = [SeenOnRelease(v, ok) EXCEPT ![v] = Unseen]
    BY <1>4 DEF SocketClosed
  <2>2. \A w \in Viewer \ {v} : SameScreen(w)
    <3>1. SeenOnRelease(v, ok) \in [Viewer -> Seen]
      BY SeenOnReleaseType
    <3> QED
      BY <2>1, <3>1, ReleaseScreens DEF SameScreen
  <2> QED
    BY <1>1, <1>2, <2>1, <2>2, DetachQuiet DEF Quiet
<1> QED
  BY <1>3, <1>4

LEMMA RunScreenOpLive ==
  ASSUME IndInv, LiveInv, RunScreenOp
  PROVE  LiveInv'
<1> USE DEF IndInv
<1>1. CASE disposed
  BY <1>1, QuietKeepsLiveInv DEF RunScreenOp, Quiet, SameScreen
<1>2. CASE ~disposed
  <2>1. parsed' = Append(parsed, Head(queue)) /\ Broadcast(Head(queue)) /\ stage' = stage
    BY <1>2 DEF RunScreenOp
  <2>2. SubscribersAreReady'
    BY <2>1 DEF LiveInv, SubscribersAreReady, Broadcast
  <2>3. ASSUME NEW v \in subscribers', ws'[v] = "open"
        PROVE  Mirrors(seen'[v].screen, parsed')
    <3>1. v \in Viewer /\ v \in subscribers /\ v \notin Overrun(subscribers)
      BY <2>1, <2>3 DEF Broadcast, AttachOK
    <3>2. ws[v] = "open"
      BY <2>1, <2>3, <3>1, ClosingOpensNothing DEF Broadcast
    <3>3. Reaches(v)
      BY <3>1, <3>2 DEF Overrun, Reaches
    <3>4. seen[v] \in Seen /\ Mirrors(seen[v].screen, parsed)
      BY <3>1, <3>2 DEF WireOK, LiveInv, LiveScreenIsCanonical
    <3>5. seen'[v] = [seen[v] EXCEPT !.screen = Append(@, Head(queue))]
      BY <2>1, <3>1, <3>3 DEF Broadcast
    <3>6. seen'[v].screen = Append(seen[v].screen, Head(queue))
      BY <3>4, <3>5 DEF Seen
    <3>7. Head(queue) \in ScreenOp /\ parsed \in Seq(ScreenOp) /\ seen[v].screen \in Seq(ScreenFrame)
      <4>1. Head(queue) \in Task /\ Head(queue).op # "capture"
        BY DEF RunScreenOp, QueueOK
      <4> QED
        BY <3>4, <4>1 DEF Task, LifeOK, Seen
    <3>8. Mirrors(Append(seen[v].screen, Head(queue)), Append(parsed, Head(queue)))
      BY <3>4, <3>7, ParsedMirrors
    <3> QED
      BY <2>1, <3>6, <3>8
  <2> QED
    BY <2>2, <2>3 DEF LiveInv, LiveScreenIsCanonical
<1> QED
  BY <1>1, <1>2

LEMMA RunCaptureLive ==
  ASSUME IndInv, LiveInv, NEW ok \in BOOLEAN, RunCapture(ok)
  PROVE  LiveInv'
<1> USE DEF IndInv
<1> DEFINE v == Head(queue).viewer
<1>1. v \in Viewer
  <2>1. Head(queue) \in Task /\ Head(queue).op = "capture"
    BY DEF RunCapture, QueueOK
  <2> QED
    BY <2>1 DEF Task, ScreenOp
<1>2. CASE UNCHANGED <<wireVars, inboundVars, attachVars, sizeVars, parsed>>
  BY <1>2, QuietKeepsLiveInv DEF wireVars, attachVars, Quiet, SameScreen
<1>3. CASE RefuseCapture(v, ok)
  <2>1. parsed' = parsed /\ \A w \in Viewer : ws'[w] = "open" => ws[w] = "open"
    BY <1>3, ClosingOpensNothing DEF RefuseCapture
  <2>2. CASE stage[v] = "detached"
    BY <1>3, <2>1, <2>2, QuietKeepsLiveInv DEF RefuseCapture, attachVars, Quiet, SameScreen
  <2>3. CASE stage[v] # "detached"
    <3>1. Detach(v, ok, AfterRefusal, ToldOnRelease(v)) /\ seen' = SeenOnRelease(v, ok)
      BY <1>3, <2>3 DEF RefuseCapture
    <3>2. \A w \in Viewer : SameScreen(w)
      BY <1>1, <3>1, ReleaseScreens DEF SameScreen
    <3>3. /\ subscribers' \subseteq subscribers \ {v}
          /\ \A w \in subscribers' : stage'[w] = stage[w]
      BY <1>1, <3>1, DetachQuiet
    <3> QED
      BY <2>1, <3>2, <3>3, QuietKeepsLiveInv DEF Quiet
  <2> QED
    BY <2>2, <2>3
<1>4. CASE SendSnapshot(v)
  <2>1. subscribers' = subscribers \cup {v} /\ parsed' = parsed
        /\ stage' = [stage EXCEPT ![v] = "ready"] /\ ws' = Closing(Overrun({v}))
    BY <1>4 DEF SendSnapshot
  <2>2. SubscribersAreReady'
    BY <1>1, <2>1 DEF LiveInv, SubscribersAreReady, AttachOK
  <2>3. ASSUME NEW w \in subscribers', ws'[w] = "open"
        PROVE  Mirrors(seen'[w].screen, parsed)
    <3>1. w \in Viewer /\ ws[w] = "open"
      BY <1>1, <2>1, <2>3, ClosingOpensNothing DEF AttachOK
    <3>2. CASE w # v
      <4>1. seen'[w] = seen[w]
        BY <1>4, <3>1, <3>2 DEF SendSnapshot, WireOK
      <4> QED
        BY <2>1, <2>3, <3>1, <3>2, <4>1 DEF LiveInv, LiveScreenIsCanonical
    <3>3. CASE w = v
      <4>1. v \notin clogged
        BY <2>1, <2>3, <3>1, <3>3 DEF Closing, Overrun
      <4>2. seen' = [seen EXCEPT ![v].snapshot = Len(parsed), ![v].screen = parsed]
        BY <1>4, <3>1, <3>3, <4>1 DEF SendSnapshot, Reaches, CapturedScreen
      <4>3. seen[v] \in Seen
        BY <1>1 DEF WireOK
      <4>4. [[seen[v] EXCEPT !.snapshot = Len(parsed)] EXCEPT !.screen = parsed].screen = parsed
        BY <4>3 DEF Seen
      <4>5. Mirrors(parsed, parsed)
        BY LogMirrors DEF LifeOK
      <4> QED
        BY <1>1, <3>3, <4>2, <4>4, <4>5 DEF WireOK
    <3> QED
      BY <3>2, <3>3
  <2> QED
    BY <2>1, <2>2, <2>3 DEF LiveInv, LiveScreenIsCanonical
<1> QED
  BY <1>2, <1>3, <1>4 DEF RunCapture

LEMMA LiveNext == IndInv /\ LiveInv /\ [Next]_vars => LiveInv'
<1> SUFFICES ASSUME IndInv, LiveInv, [Next]_vars PROVE LiveInv'
  OBVIOUS
<1>1. CASE PtyOutput
  BY <1>1, QuietKeepsLiveInv DEF PtyOutput, Push, Quiet, SameScreen, wireVars, attachVars
<1>2. CASE LocalGone
  BY <1>2, QuietKeepsLiveInv DEF LocalGone, Quiet, SameScreen, wireVars, attachVars, screenVars
<1>3. CASE RunScreenOp
  BY <1>3, RunScreenOpLive
<1>4. CASE PtyExit
  BY <1>4, QuietKeepsLiveInv, ClosingOpensNothing DEF PtyExit, EndSession, Quiet, SameScreen, screenVars
<1>5. CASE Dispose
  BY <1>5, QuietKeepsLiveInv, ClosingOpensNothing DEF Dispose, EndSession, Quiet, SameScreen, screenVars
<1>6. ASSUME NEW ok \in BOOLEAN, RunCapture(ok)
      PROVE  LiveInv'
  BY <1>6, RunCaptureLive
<1>7. ASSUME NEW ok \in BOOLEAN, NEW d \in Dims, StationResize(d, ok)
      PROVE  LiveInv'
  BY <1>7, QuietKeepsLiveInv DEF StationResize, Quiet, SameScreen, wireVars, attachVars
<1>8. ASSUME NEW ok \in BOOLEAN, NEW v \in Viewer, SocketClosed(v, ok)
      PROVE  LiveInv'
  BY <1>8, SocketClosedQuiet, QuietKeepsLiveInv
<1>9. ASSUME NEW ok \in BOOLEAN, NEW v \in Viewer, LeaseExpires(v, ok)
      PROVE  LiveInv'
  BY <1>9, GiveUpClaimQuiet, QuietKeepsLiveInv DEF LeaseExpires
<1>10. ASSUME NEW ok \in BOOLEAN, NEW v \in Viewer, Replay(v, ok)
       PROVE  LiveInv'
  <2>1. inbound[v] \in Seq(Frame) /\ inbound[v] # <<>>
    BY <1>10 DEF Replay, IndInv, InboundOK, ReplayHasFrames
  <2>2. Head(inbound[v]) \in Frame
    BY <2>1
  <2> QED
    BY <1>10, <2>2, HandleMessageQuiet, QuietKeepsLiveInv DEF Replay
<1>11. ASSUME NEW ok \in BOOLEAN, NEW v \in Viewer, NEW d \in Dims,
              AttachAuthenticated(v, d, ok)
       PROVE  LiveInv'
  BY <1>11, AttachAuthenticatedQuiet, QuietKeepsLiveInv
<1>12. ASSUME NEW ok \in BOOLEAN, NEW v \in Viewer, NEW f \in Frame, Receive(v, f, ok)
       PROVE  LiveInv'
  <2>1. CASE stage[v] = "attaching"
    BY <1>12, <2>1, QuietKeepsLiveInv DEF Receive, Quiet, SameScreen, wireVars, attachVars, screenVars
  <2>2. CASE stage[v] = "ready"
    BY <1>12, <2>2, HandleMessageQuiet, QuietKeepsLiveInv DEF Receive
  <2> QED
    BY <1>12, <2>1, <2>2 DEF Receive
<1>13. ASSUME NEW v \in Viewer, Clog(v)
       PROVE  LiveInv'
  BY <1>13, QuietKeepsLiveInv DEF Clog, Quiet, SameScreen, attachVars, screenVars
<1>14. CASE UNCHANGED vars
  BY <1>14, QuietKeepsLiveInv DEF vars, Quiet, SameScreen, wireVars, attachVars, screenVars
<1> QED
  BY <1>1, <1>2, <1>3, <1>4, <1>5, <1>6, <1>7, <1>8, <1>9, <1>10, <1>11, <1>12, <1>13, <1>14
     DEF Next

\* ADR 0004, snapshot before live: every live viewer shows exactly what the
\* canonical screen has parsed, and between those frames nothing but the Session's
\* own error messages, for any interleaving of output, resizes, attaches, slow
\* sockets and the end of the Session.
THEOREM SnapshotBeforeLive == Spec => []LiveScreenIsCanonical
<1>1. Init => LiveInv
  BY DEF Init, LiveInv, LiveScreenIsCanonical, SubscribersAreReady
<1>2. LiveInv => LiveScreenIsCanonical
  BY DEF LiveInv
<1> QED
  BY <1>1, <1>2, LiveNext, InductiveInvariant, PTL DEF Spec

-----------------------------------------------------------------------------
(* Frames in order, and nothing left of a detached viewer                    *)

\* What a handler of a frame of v leaves alone, and where it may move sockets,
\* subscriptions and claims.
HandlerEffects(v) ==
  /\ UNCHANGED <<stage, viewers, clogged, parsed, lifeVars>>
  /\ \A w \in Viewer : ws'[w] = "open" => ws[w] = "open"
  /\ subscribers' \subseteq subscribers
  /\ \A w \in Viewer \ {v} : /\ sizeClaimants'[w] = sizeClaimants[w]
                             /\ pendingScrollback'[w] = pendingScrollback[w]
  /\ pendingScrollback'[v] \in {pendingScrollback[v], Unset}

LEMMA GiveUpClaimEffects ==
  ASSUME IndInv, NEW v \in Viewer, NEW ok \in BOOLEAN, GiveUpClaim(v, ok), UNCHANGED lifeVars
  PROVE  /\ HandlerEffects(v)
         /\ sizeClaimants'[v] = 0 /\ pendingScrollback' = pendingScrollback
<1>1. sizeClaimants' = [sizeClaimants EXCEPT ![v] = 0] /\ sizeClaimants \in [Viewer -> Nat]
  BY DEF GiveUpClaim, ReleaseSizeClaim, IndInv, SizeInv, SizeOK
<1>2. \A w \in Viewer : ws'[w] = "open" => ws[w] = "open"
  BY ClosingOpensNothing DEF GiveUpClaim
<1> QED
  BY <1>1, <1>2 DEF GiveUpClaim, HandlerEffects

LEMMA HandleMessageEffects ==
  ASSUME IndInv, NEW v \in Viewer, NEW f \in Frame, NEW ok \in BOOLEAN,
         HandleMessage(v, f, ok)
  PROVE  HandlerEffects(v) /\ handled' = [handled EXCEPT ![v] = f.id]
<1>1. UNCHANGED lifeVars /\ handled' = [handled EXCEPT ![v] = f.id]
  BY DEF HandleMessage
<1>2. pendingScrollback \in [Viewer -> Nat \cup {Unset}] /\ sizeClaimants \in [Viewer -> Nat]
  BY DEF IndInv, AttachOK, SizeInv, SizeOK
<1>3. CASE HandleInput(v, f)
  BY <1>1, <1>3 DEF HandleInput, wireVars, attachVars, sizeVars, screenVars, HandlerEffects
<1>4. CASE HandleTerminalReset(v, f, ok)
  BY <1>1, <1>4, ClosingOpensNothing
     DEF HandleTerminalReset, Push, SendNotice, SendTo, sizeVars, screenVars, HandlerEffects
<1>5. CASE HandleResize(v, f, ok)
  <2>1. /\ \A w \in Viewer : ws'[w] = "open" => ws[w] = "open"
        /\ subscribers' \subseteq subscribers
        /\ sizeClaimants' = sizeClaimants
    BY <1>5, ClosingOpensNothing DEF HandleResize, SendNotice, SendTo, sizeVars
  <2> QED
    BY <1>1, <1>5, <2>1 DEF HandleResize, HandlerEffects
<1>6. CASE HandleSnapshotApplied(v, f)
  <2>1. /\ \A w \in Viewer : ws'[w] = "open" => ws[w] = "open"
        /\ subscribers' \subseteq subscribers
        /\ pendingScrollback' = [pendingScrollback EXCEPT ![v] = Unset]
    BY <1>6, ClosingOpensNothing DEF HandleSnapshotApplied, SendTo
  <2> QED
    BY <1>1, <1>2, <1>6, <2>1 DEF HandleSnapshotApplied, HandlerEffects, sizeVars, screenVars
<1>7. CASE HandleClaim(v, f)
  <2>1. /\ \A w \in Viewer : ws'[w] = "open" => ws[w] = "open"
        /\ subscribers' \subseteq subscribers
        /\ clogged' = clogged
    BY <1>7, ClosingOpensNothing DEF HandleClaim, wireVars
  <2>2. \A w \in Viewer \ {v} : sizeClaimants'[w] = sizeClaimants[w]
    BY <1>2, <1>7 DEF HandleClaim, sizeVars
  <2> QED
    BY <1>1, <1>7, <2>1, <2>2 DEF HandleClaim, HandlerEffects, screenVars
<1>8. CASE HandleRelease(v, f, ok)
  BY <1>1, <1>8, GiveUpClaimEffects DEF HandleRelease
<1>9. CASE HandleMalformed(v, f)
  <2>1. \A w \in Viewer : ws'[w] = "open" => ws[w] = "open"
    BY <1>9, ClosingOpensNothing DEF HandleMalformed
  <2> QED
    BY <1>1, <1>9, <2>1 DEF HandleMalformed, HandlerEffects, sizeVars, screenVars
<1> QED
  BY <1>1, <1>3, <1>4, <1>5, <1>6, <1>7, <1>8, <1>9 DEF HandleMessage

\* A frame to be handled is a frame.
LEMMA HeldFrame ==
  ASSUME IndInv, NEW v \in Viewer, replaying = v
  PROVE  /\ inbound[v] \in Seq(Frame) /\ inbound[v] # <<>>
         /\ Head(inbound[v]) \in Frame /\ Tail(inbound[v]) \in Seq(Frame)
<1>1. inbound[v] \in Seq(Frame) /\ inbound[v] # <<>>
  BY DEF IndInv, InboundOK, ReplayHasFrames
<1> QED
  BY <1>1

\* The viewer of a capture that is next is a viewer.
LEMMA CaptureViewer ==
  ASSUME IndInv, queue # <<>>, Head(queue).op = "capture"
  PROVE  Head(queue).viewer \in Viewer /\ Head(queue) = Capture(Head(queue).viewer)
<1>1. Head(queue) \in Task
  BY DEF IndInv, QueueOK
<1> QED
  BY <1>1 DEF Task, ScreenOp, Capture

\* What a step may do to the attach of a viewer and to the frames it sends.
Aside == UNCHANGED <<stage, inboundVars>>
Joins(v) ==
  /\ stage[v] = "none" /\ stage' = [stage EXCEPT ![v] = "attaching"]
  /\ UNCHANGED inboundVars
Leaves(v) ==
  /\ replaying = NoViewer /\ stage' = [stage EXCEPT ![v] = "detached"]
  /\ inbound' = [inbound EXCEPT ![v] = <<>>]
  /\ UNCHANGED <<received, handled, replaying>>
Readies(v) ==
  /\ replaying = NoViewer /\ stage[v] # "detached" /\ stage' = [stage EXCEPT ![v] = "ready"]
  /\ replaying' = ReplayOf(v)
  /\ UNCHANGED <<inbound, received, handled>>
Holds(v, f) ==
  /\ replaying = NoViewer /\ stage[v] = "attaching" /\ f.id = received[v] + 1
  /\ received' = [received EXCEPT ![v] = f.id]
  /\ inbound' = [inbound EXCEPT ![v] = Append(@, f)]
  /\ UNCHANGED <<stage, handled, replaying>>
HandlesNow(v, f) ==
  /\ replaying = NoViewer /\ stage[v] = "ready" /\ f.id = received[v] + 1
  /\ received' = [received EXCEPT ![v] = f.id]
  /\ handled' = [handled EXCEPT ![v] = f.id]
  /\ UNCHANGED <<stage, inbound, replaying>>
HandlesHeld(v) ==
  /\ replaying = v
  /\ handled' = [handled EXCEPT ![v] = Head(inbound[v]).id]
  /\ inbound' = [inbound EXCEPT ![v] = Tail(@)]
  /\ replaying' = IF Len(inbound[v]) = 1 THEN NoViewer ELSE v
  /\ UNCHANGED <<stage, received>>
FrameStep ==
  \/ Aside
  \/ \E v \in Viewer : Joins(v) \/ Leaves(v) \/ Readies(v) \/ HandlesHeld(v)
  \/ \E v \in Viewer, f \in Frame : Holds(v, f) \/ HandlesNow(v, f)

\* Every step is of one of the kinds.
LEMMA FrameSteps == IndInv /\ [Next]_vars => FrameStep
<1> SUFFICES ASSUME IndInv, [Next]_vars PROVE FrameStep
  OBVIOUS
<1>1. CASE PtyOutput \/ LocalGone \/ RunScreenOp \/ PtyExit \/ Dispose \/ UNCHANGED vars
  BY <1>1 DEF PtyOutput, LocalGone, RunScreenOp, PtyExit, Dispose, EndSession, vars, attachVars,
     FrameStep, Aside
<1>2. ASSUME NEW ok \in BOOLEAN, RunCapture(ok)
      PROVE  FrameStep
  <2> DEFINE v == Head(queue).viewer
  <2>1. v \in Viewer /\ replaying = NoViewer
    BY <1>2, CaptureViewer DEF RunCapture
  <2>2. CASE UNCHANGED <<inboundVars, attachVars>>
    BY <2>2 DEF attachVars, FrameStep, Aside
  <2>3. CASE RefuseCapture(v, ok)
    <3>1. CASE stage[v] = "detached"
      BY <2>2, <2>3, <3>1 DEF RefuseCapture
    <3>2. CASE stage[v] # "detached"
      <4>1. Detach(v, ok, AfterRefusal, ToldOnRelease(v)) /\ UNCHANGED replaying
        BY <2>3, <3>2 DEF RefuseCapture
      <4> HIDE DEF v
      <4>2. Leaves(v)
        BY <2>1, <4>1 DEF Detach, Leaves
      <4> QED
        BY <2>1, <4>2 DEF FrameStep
    <3> QED
      BY <3>1, <3>2
  <2>4. CASE SendSnapshot(v)
    <3> HIDE DEF v
    <3>1. Readies(v)
      BY <2>1, <2>4 DEF SendSnapshot, Readies
    <3> QED
      BY <2>1, <3>1 DEF FrameStep
  <2> QED
    BY <1>2, <2>2, <2>3, <2>4 DEF RunCapture
<1>3. ASSUME NEW ok \in BOOLEAN, NEW d \in Dims, StationResize(d, ok)
      PROVE  FrameStep
  BY <1>3 DEF StationResize, attachVars, FrameStep, Aside
<1>4. ASSUME NEW ok \in BOOLEAN, NEW v \in Viewer, SocketClosed(v, ok)
      PROVE  FrameStep
  <2>1. CASE stage[v] = "detached"
    BY <1>4, <2>1 DEF SocketClosed, attachVars, FrameStep, Aside
  <2>2. CASE stage[v] # "detached"
    <3>1. Leaves(v)
      BY <1>4, <2>2 DEF SocketClosed, Detach, Leaves, Idle
    <3> QED
      BY <3>1 DEF FrameStep
  <2> QED
    BY <2>1, <2>2
<1>5. ASSUME NEW ok \in BOOLEAN, NEW v \in Viewer, LeaseExpires(v, ok)
      PROVE  FrameStep
  BY <1>5 DEF LeaseExpires, GiveUpClaim, FrameStep, Aside
<1>6. ASSUME NEW ok \in BOOLEAN, NEW v \in Viewer, Replay(v, ok)
      PROVE  FrameStep
  <2>1. Head(inbound[v]) \in Frame
    BY <1>6, HeldFrame DEF Replay
  <2>2. stage' = stage /\ handled' = [handled EXCEPT ![v] = Head(inbound[v]).id]
    BY <1>6, <2>1, HandleMessageEffects DEF Replay, HandlerEffects
  <2>3. HandlesHeld(v)
    BY <1>6, <2>2 DEF Replay, HandlesHeld
  <2> QED
    BY <2>3 DEF FrameStep
<1>7. ASSUME NEW ok \in BOOLEAN, NEW v \in Viewer, NEW d \in Dims, AttachAuthenticated(v, d, ok)
      PROVE  FrameStep
  <2>1. Joins(v)
    BY <1>7 DEF AttachAuthenticated, Joins
  <2> QED
    BY <2>1 DEF FrameStep
<1>8. ASSUME NEW ok \in BOOLEAN, NEW v \in Viewer, NEW f \in Frame, Receive(v, f, ok)
      PROVE  FrameStep
  <2>1. CASE stage[v] = "attaching"
    <3>1. Holds(v, f)
      BY <1>8, <2>1 DEF Receive, Holds, attachVars
    <3> QED
      BY <3>1 DEF FrameStep
  <2>2. CASE stage[v] = "ready"
    <3>1. HandleMessage(v, f, ok)
      BY <1>8, <2>2 DEF Receive
    <3>2. stage' = stage /\ handled' = [handled EXCEPT ![v] = f.id]
      BY <3>1, HandleMessageEffects DEF HandlerEffects
    <3>3. HandlesNow(v, f)
      BY <1>8, <2>2, <3>2 DEF Receive, HandlesNow
    <3> QED
      BY <3>3 DEF FrameStep
  <2> QED
    BY <1>8, <2>1, <2>2 DEF Receive
<1>9. ASSUME NEW v \in Viewer, Clog(v)
      PROVE  FrameStep
  BY <1>9 DEF Clog, attachVars, FrameStep, Aside
<1> QED
  BY <1>1, <1>2, <1>3, <1>4, <1>5, <1>6, <1>7, <1>8, <1>9 DEF Next

\* No frames before the attach; once it is complete none are held back, but for
\* those of the viewer whose frames are being replayed.
FrameInv ==
  /\ FramesHandledInOrder
  /\ \A v \in Viewer :
       /\ stage[v] = "none" => received[v] = 0 /\ handled[v] = 0 /\ inbound[v] = <<>>
       /\ stage[v] = "ready" /\ inbound[v] # <<>> => replaying = v
  /\ replaying # NoViewer => stage[replaying] = "ready"

\* The parts of FrameInv about one viewer.
FramesOf(v) ==
  /\ stage[v] \in {"attaching", "ready"} =>
       /\ received[v] = handled[v] + Len(inbound[v])
       /\ \A i \in DOMAIN inbound[v] : inbound[v][i].id = handled[v] + i
  /\ stage[v] = "none" => received[v] = 0 /\ handled[v] = 0 /\ inbound[v] = <<>>
  /\ stage[v] = "ready" /\ inbound[v] # <<>> => replaying = v

LEMMA FrameParts == FrameInv <=> /\ \A v \in Viewer : FramesOf(v)
                                 /\ replaying # NoViewer => stage[replaying] = "ready"
BY DEF FrameInv, FramesOf, FramesHandledInOrder

LEMMA FramePartsAfter ==
  ASSUME \A v \in Viewer : FramesOf(v)', (replaying # NoViewer => stage[replaying] = "ready")'
  PROVE  FrameInv'
BY DEF FrameInv, FramesOf, FramesHandledInOrder

\* Nothing about w changes.
LEMMA FramesKept ==
  ASSUME NEW w \in Viewer, FramesOf(w), stage'[w] = stage[w] \/ stage'[w] = "detached",
         received'[w] = received[w], handled'[w] = handled[w], inbound'[w] = inbound[w],
         replaying = w => replaying' = w
  PROVE  FramesOf(w)'
BY DEF FramesOf

LEMMA FrameNext == IndInv /\ FrameInv /\ [Next]_vars => FrameInv'
<1> SUFFICES ASSUME IndInv, FrameInv, [Next]_vars PROVE FrameInv'
  OBVIOUS
<1>1. FrameStep
  BY FrameSteps
<1>2. /\ stage \in [Viewer -> {"none", "attaching", "ready", "detached"}]
      /\ inbound \in [Viewer -> Seq(Frame)] /\ received \in [Viewer -> Nat]
      /\ handled \in [Viewer -> Nat] /\ replaying \in Viewer \cup {NoViewer}
  BY DEF IndInv, AttachOK, InboundOK
<1>3. \A v \in Viewer : FramesOf(v)
  BY FrameParts
<1>4. replaying # NoViewer => stage[replaying] = "ready"
  BY DEF FrameInv
<1>5. CASE Aside
  BY <1>5 DEF Aside, inboundVars, FrameInv, FramesHandledInOrder
<1>6. ASSUME NEW v \in Viewer, Joins(v)
      PROVE  FrameInv'
  <2>1. \A w \in Viewer \ {v} : FramesOf(w)'
    BY <1>2, <1>3, <1>6, FramesKept DEF Joins, inboundVars
  <2>2. FramesOf(v)'
    BY <1>2, <1>3, <1>6 DEF Joins, inboundVars, FramesOf
  <2>3. replaying' # NoViewer => stage'[replaying'] = "ready"
    BY <1>2, <1>4, <1>6 DEF Joins, inboundVars
  <2> QED
    BY <2>1, <2>2, <2>3, FramePartsAfter
<1>7. ASSUME NEW v \in Viewer, Leaves(v)
      PROVE  FrameInv'
  <2>1. \A w \in Viewer \ {v} : FramesOf(w)'
    BY <1>2, <1>3, <1>7, FramesKept DEF Leaves
  <2>2. FramesOf(v)'
    BY <1>2, <1>7 DEF Leaves, FramesOf
  <2>3. replaying' # NoViewer => stage'[replaying'] = "ready"
    BY <1>7 DEF Leaves
  <2> QED
    BY <2>1, <2>2, <2>3, FramePartsAfter
<1>8. ASSUME NEW v \in Viewer, Readies(v)
      PROVE  FrameInv'
  <2>1. \A w \in Viewer \ {v} : FramesOf(w)'
    BY <1>2, <1>3, <1>8, FramesKept DEF Readies
  <2>2. stage[v] \in {"none", "attaching", "ready"}
    BY <1>2, <1>8 DEF Readies
  <2>3. received[v] = handled[v] + Len(inbound[v])
        /\ \A i \in DOMAIN inbound[v] : inbound[v][i].id = handled[v] + i
    BY <1>3, <2>2 DEF FramesOf
  <2>4. FramesOf(v)'
    BY <1>2, <1>8, <2>3 DEF Readies, ReplayOf, FramesOf
  <2>5. replaying' # NoViewer => stage'[replaying'] = "ready"
    BY <1>2, <1>8 DEF Readies, ReplayOf
  <2> QED
    BY <2>1, <2>4, <2>5, FramePartsAfter
<1>9. ASSUME NEW v \in Viewer, NEW f \in Frame, Holds(v, f)
      PROVE  FrameInv'
  <2>1. \A w \in Viewer \ {v} : FramesOf(w)'
    BY <1>2, <1>3, <1>9, FramesKept DEF Holds
  <2>2. FramesOf(v)'
    <3> DEFINE s == inbound[v]
    <3>1. /\ received'[v] = received[v] + 1 /\ inbound'[v] = Append(s, f)
          /\ handled'[v] = handled[v] /\ stage'[v] = "attaching" /\ f.id = received[v] + 1
      BY <1>2, <1>9 DEF Holds
    <3>2. /\ received[v] = handled[v] + Len(s) /\ received[v] \in Nat /\ handled[v] \in Nat
          /\ \A i \in DOMAIN s : s[i].id = handled[v] + i
      BY <1>2, <1>3, <1>9 DEF FramesOf, Holds
    <3>3. s \in Seq(Frame) /\ Len(s) \in Nat
      BY <1>2
    <3> HIDE DEF s
    <3>4. /\ Len(Append(s, f)) = Len(s) + 1 /\ DOMAIN Append(s, f) = 1..(Len(s) + 1)
          /\ \A i \in 1..Len(s) : i \in DOMAIN s /\ Append(s, f)[i] = s[i]
          /\ Append(s, f)[Len(s) + 1] = f
      BY <3>3, AppendProperties
    <3>5. \A i \in 1..(Len(s) + 1) : i \in 1..Len(s) \/ i = Len(s) + 1
      BY <3>3
    <3>6. \A i \in DOMAIN Append(s, f) : Append(s, f)[i].id = handled[v] + i
      <4> TAKE i \in DOMAIN Append(s, f)
      <4>1. CASE i \in 1..Len(s)
        BY <3>2, <3>4, <4>1
      <4>2. CASE i = Len(s) + 1
        <5> DEFINE h == handled[v]
                   n == Len(s)
        <5>1. received[v] = h + n /\ h \in Nat /\ n \in Nat
          BY <3>2, <3>3
        <5> HIDE DEF h, n
        <5>2. h + (n + 1) = received[v] + 1
          BY <5>1
        <5> QED
          BY <3>1, <3>4, <4>2, <5>2 DEF h, n
      <4> QED
        BY <3>4, <3>5, <4>1, <4>2
    <3>7. received'[v] = handled'[v] + Len(inbound'[v])
      <4> DEFINE h == handled[v]
                 n == Len(s)
      <4>1. received[v] = h + n /\ h \in Nat /\ n \in Nat
        BY <3>2, <3>3
      <4> HIDE DEF h, n
      <4>2. received[v] + 1 = h + (n + 1)
        BY <4>1
      <4>3. received'[v] = received[v] + 1 /\ handled'[v] = h /\ Len(inbound'[v]) = n + 1
        BY <3>1, <3>4 DEF h, n
      <4> QED
        BY <4>2, <4>3
    <3> QED
      BY <3>1, <3>6, <3>7 DEF FramesOf
  <2>3. replaying' # NoViewer => stage'[replaying'] = "ready"
    BY <1>9 DEF Holds
  <2> QED
    BY <2>1, <2>2, <2>3, FramePartsAfter
<1>10. ASSUME NEW v \in Viewer, NEW f \in Frame, HandlesNow(v, f)
       PROVE  FrameInv'
  <2>1. \A w \in Viewer \ {v} : FramesOf(w)'
    BY <1>2, <1>3, <1>10, FramesKept DEF HandlesNow
  <2>2. FramesOf(v)'
    <3>1. inbound[v] = <<>>
      BY <1>3, <1>10 DEF HandlesNow, FramesOf
    <3>2. /\ inbound'[v] = <<>> /\ stage'[v] = "ready" /\ received'[v] = received[v] + 1
          /\ handled'[v] = received[v] + 1
      BY <1>2, <1>10, <3>1 DEF HandlesNow
    <3>3. received[v] + 1 = (received[v] + 1) + Len(<<>>) /\ DOMAIN <<>> = {}
      BY <1>2
    <3> QED
      BY <3>2, <3>3 DEF FramesOf
  <2>3. replaying' # NoViewer => stage'[replaying'] = "ready"
    BY <1>10 DEF HandlesNow
  <2> QED
    BY <2>1, <2>2, <2>3, FramePartsAfter
<1>11. ASSUME NEW v \in Viewer, HandlesHeld(v)
       PROVE  FrameInv'
  <2>1. v # NoViewer /\ stage[v] = "ready" /\ replaying = v
    BY <1>4, <1>11 DEF HandlesHeld
  <2>2. \A w \in Viewer \ {v} : FramesOf(w)'
    BY <1>2, <1>3, <1>11, FramesKept DEF HandlesHeld
  <2>3. FramesOf(v)' /\ (replaying' # NoViewer => replaying' = v)
    <3> DEFINE s == inbound[v]
               t == Tail(s)
    <3>1. /\ received'[v] = received[v] /\ inbound'[v] = t
          /\ handled'[v] = Head(s).id /\ stage'[v] = "ready"
          /\ replaying' = IF Len(s) = 1 THEN NoViewer ELSE v
      BY <1>2, <1>11, <2>1 DEF HandlesHeld
    <3>2. /\ received[v] = handled[v] + Len(s) /\ received[v] \in Nat /\ handled[v] \in Nat
          /\ \A i \in DOMAIN s : s[i].id = handled[v] + i
      BY <1>2, <1>3, <2>1 DEF FramesOf
    <3>3. s \in Seq(Frame) /\ s # <<>> /\ Len(s) \in Nat
      BY <2>1, HeldFrame
    <3> HIDE DEF s
    <3>4. /\ Head(s) = s[1] /\ t \in Seq(Frame) /\ Len(t) = Len(s) - 1 /\ DOMAIN s = 1..Len(s)
          /\ DOMAIN t = 1..(Len(s) - 1) /\ 1 \in DOMAIN s /\ Len(s) # 0
          /\ \A i \in 1..(Len(s) - 1) : t[i] = s[i + 1] /\ i + 1 \in DOMAIN s
      BY <3>3, HeadTailProperties
    <3> HIDE DEF t
    <3>5. handled'[v] = handled[v] + 1
      BY <3>1, <3>2, <3>4
    <3>6. received'[v] = handled'[v] + Len(inbound'[v])
      BY <3>1, <3>2, <3>3, <3>4, <3>5
    <3>7. \A i \in DOMAIN t : t[i].id = handled'[v] + i
      <4> TAKE i \in DOMAIN t
      <4>1. i \in 1..(Len(s) - 1) /\ t[i] = s[i + 1] /\ i + 1 \in DOMAIN s
        BY <3>4
      <4>2. t[i].id = handled[v] + (i + 1)
        BY <3>2, <4>1
      <4>3. i \in Nat
        BY <3>3, <4>1
      <4> DEFINE h == handled[v]
      <4>4. h \in Nat
        BY <3>2
      <4> HIDE DEF h
      <4>5. h + (i + 1) = (h + 1) + i
        BY <4>3, <4>4
      <4> QED
        BY <3>5, <4>2, <4>5 DEF h
    <3>8. Len(s) = 1 => t = <<>>
      BY <3>4, EmptySeq
    <3> QED
      BY <3>1, <3>6, <3>7, <3>8 DEF FramesOf
  <2>4. replaying' # NoViewer => stage'[replaying'] = "ready"
    BY <1>11, <2>1, <2>3 DEF HandlesHeld
  <2> QED
    BY <2>2, <2>3, <2>4, FramePartsAfter
<1> QED
  BY <1>1, <1>5, <1>6, <1>7, <1>8, <1>9, <1>10, <1>11 DEF FrameStep

\* Frames are handled once each, in the order they arrived, those held back while
\* the snapshot was pending included (messageHandler, the loop over inboundQueue).
THEOREM FramesInOrder == Spec => []FramesHandledInOrder
<1>1. Init => FrameInv
  BY DEF Init, FrameInv, FramesHandledInOrder
<1>2. FrameInv => FramesHandledInOrder
  BY DEF FrameInv
<1> QED
  BY <1>1, <1>2, FrameNext, InductiveInvariant, PTL DEF Spec

\* What is left of a viewer.
NothingLeft(w) ==
  w \notin viewers \cup subscribers /\ sizeClaimants[w] = 0 /\ pendingScrollback[w] = Unset

\* A step gives nothing new to a viewer that is detached, or leaves it nothing.
Gains(w) ==
  \/ /\ stage[w] = "detached"
     /\ (w \in viewers' => w \in viewers) /\ (w \in subscribers' => w \in subscribers)
     /\ sizeClaimants[w] = 0 => sizeClaimants'[w] = 0
     /\ pendingScrollback[w] = Unset => pendingScrollback'[w] = Unset
  \/ NothingLeft(w)'

LEMMA DetachLeavesNothing ==
  ASSUME IndInv, NEW v \in Viewer, NEW ok \in BOOLEAN, NEW q, NEW told, Detach(v, ok, q, told)
  PROVE  /\ NothingLeft(v)'
         /\ \A w \in Viewer \ {v} : stage'[w] = "detached" => Gains(w)
<1>1. /\ stage \in [Viewer -> {"none", "attaching", "ready", "detached"}]
      /\ pendingScrollback \in [Viewer -> Nat \cup {Unset}] /\ sizeClaimants \in [Viewer -> Nat]
      /\ sizeClaimants' = [sizeClaimants EXCEPT ![v] = 0]
  BY DEF IndInv, AttachOK, SizeInv, SizeOK, Detach, ReleaseSizeClaim
<1>2. /\ stage' = [stage EXCEPT ![v] = "detached"] /\ viewers' = viewers \ {v}
      /\ v \notin subscribers' /\ subscribers' \subseteq subscribers
      /\ pendingScrollback' = [pendingScrollback EXCEPT ![v] = Unset]
  BY DEF Detach
<1>3. NothingLeft(v)'
  BY <1>1, <1>2 DEF NothingLeft
<1>4. \A w \in Viewer \ {v} : stage'[w] = "detached" => Gains(w)
  BY <1>1, <1>2 DEF Gains
<1> QED
  BY <1>3, <1>4

\* A handler of a frame of v, which is attached.
LEMMA HandlerGains ==
  ASSUME NEW v \in Viewer, HandlerEffects(v), stage[v] # "detached"
  PROVE  \A w \in Viewer : stage'[w] = "detached" => Gains(w)
BY DEF HandlerEffects, Gains

LEMMA DetachedGains ==
  ASSUME IndInv, FrameInv, [Next]_vars
  PROVE  \A w \in Viewer : stage'[w] = "detached" => Gains(w)
<1> DEFINE G == \A w \in Viewer : stage'[w] = "detached" => Gains(w)
<1>1. CASE PtyOutput \/ LocalGone \/ RunScreenOp \/ UNCHANGED vars
  BY <1>1 DEF PtyOutput, LocalGone, RunScreenOp, Broadcast, vars, attachVars, sizeVars, Gains
<1>2. CASE PtyExit \/ Dispose
  <2>1. EndSession
    BY <1>2 DEF PtyExit, Dispose
  <2>2. \A w \in Viewer : NothingLeft(w)'
    BY <2>1 DEF EndSession, NothingLeft
  <2> QED
    BY <2>2 DEF Gains
<1>3. ASSUME NEW ok \in BOOLEAN, RunCapture(ok)
      PROVE  G
  <2>1. PICK v \in Viewer : v = Head(queue).viewer
    BY <1>3, CaptureViewer DEF RunCapture
  <2>2. CASE UNCHANGED <<attachVars, sizeVars>>
    BY <2>2 DEF attachVars, sizeVars, Gains
  <2>3. CASE RefuseCapture(v, ok)
    <3>1. CASE stage[v] = "detached"
      BY <2>2, <2>3, <3>1 DEF RefuseCapture
    <3>2. CASE stage[v] # "detached"
      <4>1. Detach(v, ok, AfterRefusal, ToldOnRelease(v))
        BY <2>3, <3>2 DEF RefuseCapture
      <4>2. NothingLeft(v)' /\ \A w \in Viewer \ {v} : stage'[w] = "detached" => Gains(w)
        BY <2>1, <4>1, DetachLeavesNothing
      <4> QED
        BY <4>2 DEF Gains
    <3> QED
      BY <3>1, <3>2
  <2>4. CASE SendSnapshot(v)
    <3>1. /\ stage' = [stage EXCEPT ![v] = "ready"] /\ viewers' = viewers
          /\ subscribers' = subscribers \cup {v} /\ sizeClaimants' = sizeClaimants
          /\ pendingScrollback' = [pendingScrollback EXCEPT ![v] = pushed]
      BY <2>4 DEF SendSnapshot, sizeVars
    <3>2. /\ stage \in [Viewer -> {"none", "attaching", "ready", "detached"}]
          /\ pendingScrollback \in [Viewer -> Nat \cup {Unset}]
      BY DEF IndInv, AttachOK
    <3> QED
      BY <2>1, <3>1, <3>2 DEF Gains
  <2> QED
    BY <1>3, <2>1, <2>2, <2>3, <2>4 DEF RunCapture
<1>4. ASSUME NEW ok \in BOOLEAN, NEW d \in Dims, StationResize(d, ok)
      PROVE  G
  BY <1>4 DEF StationResize, attachVars, Gains
<1>5. ASSUME NEW ok \in BOOLEAN, NEW v \in Viewer, SocketClosed(v, ok)
      PROVE  G
  <2>1. CASE stage[v] = "detached"
    BY <1>5, <2>1 DEF SocketClosed, attachVars, sizeVars, Gains
  <2>2. CASE stage[v] # "detached"
    <3>1. Detach(v, ok, queue, ToldOnRelease(v) \ {v})
      BY <1>5, <2>2 DEF SocketClosed
    <3>2. NothingLeft(v)' /\ \A w \in Viewer \ {v} : stage'[w] = "detached" => Gains(w)
      BY <3>1, DetachLeavesNothing
    <3> QED
      BY <3>2 DEF Gains
  <2> QED
    BY <2>1, <2>2
<1>6. ASSUME NEW ok \in BOOLEAN, NEW v \in Viewer, LeaseExpires(v, ok)
      PROVE  G
  <2>1. HandlerEffects(v) /\ sizeClaimants'[v] = 0 /\ pendingScrollback' = pendingScrollback
    BY <1>6, GiveUpClaimEffects DEF LeaseExpires
  <2> QED
    BY <2>1 DEF HandlerEffects, Gains
<1>7. ASSUME NEW ok \in BOOLEAN, NEW v \in Viewer, Replay(v, ok)
      PROVE  G
  <2>1. Head(inbound[v]) \in Frame /\ v # NoViewer
    BY <1>7, HeldFrame DEF Replay
  <2>2. stage[v] = "ready"
    BY <1>7, <2>1 DEF Replay, FrameInv
  <2> QED
    BY <1>7, <2>1, <2>2, HandleMessageEffects, HandlerGains DEF Replay
<1>8. ASSUME NEW ok \in BOOLEAN, NEW v \in Viewer, NEW d \in Dims, AttachAuthenticated(v, d, ok)
      PROVE  G
  <2>1. /\ stage[v] = "none" /\ stage' = [stage EXCEPT ![v] = "attaching"]
        /\ viewers' = viewers \cup {v}
        /\ UNCHANGED <<subscribers, pendingScrollback, sizeClaimants>>
    BY <1>8 DEF AttachAuthenticated
  <2>2. stage \in [Viewer -> {"none", "attaching", "ready", "detached"}]
    BY DEF IndInv, AttachOK
  <2> QED
    BY <2>1, <2>2 DEF Gains
<1>9. ASSUME NEW ok \in BOOLEAN, NEW v \in Viewer, NEW f \in Frame, Receive(v, f, ok)
      PROVE  G
  <2>1. CASE stage[v] = "attaching"
    BY <1>9, <2>1 DEF Receive, attachVars, sizeVars, Gains
  <2>2. CASE stage[v] = "ready"
    <3>1. HandleMessage(v, f, ok)
      BY <1>9, <2>2 DEF Receive
    <3> QED
      BY <2>2, <3>1, HandleMessageEffects, HandlerGains
  <2> QED
    BY <1>9, <2>1, <2>2 DEF Receive
<1>10. ASSUME NEW v \in Viewer, Clog(v)
       PROVE  G
  BY <1>10 DEF Clog, attachVars, sizeVars, Gains
<1> QED
  BY <1>1, <1>2, <1>3, <1>4, <1>5, <1>6, <1>7, <1>8, <1>9, <1>10 DEF Next

DetachedInv == \A v \in Viewer : stage[v] = "detached" => NothingLeft(v)

LEMMA DetachedNext == IndInv /\ FrameInv /\ DetachedInv /\ [Next]_vars => DetachedInv'
BY DetachedGains DEF DetachedInv, Gains, NothingLeft

\* A viewer that is detached is no viewer, subscriber, claimant or owner, and no
\* history is kept for it: whatever ends an attach, and whatever the viewer still
\* sends (detach, and the handlers that must not run after it).
THEOREM NothingOutlivesDetach == Spec => []DetachedLeavesNothing
<1>1. Init => FrameInv /\ DetachedInv
  BY DEF Init, FrameInv, FramesHandledInOrder, DetachedInv
<1>2. IndInv /\ DetachedInv => DetachedLeavesNothing
  <2> SUFFICES ASSUME IndInv, DetachedInv, NEW v \in Viewer, stage[v] = "detached"
               PROVE  sizeOwner # v /\ NothingLeft(v)
    BY DEF DetachedLeavesNothing, NothingLeft
  <2>1. v # NoViewer /\ v \notin Claimants
    BY DEF DetachedInv, NothingLeft, Claimants
  <2> QED
    BY <2>1 DEF IndInv, SizeInv, OwnerIsMostRecentClaimant, DetachedInv
<1> QED
  BY <1>1, <1>2, FrameNext, DetachedNext, InductiveInvariant, PTL DEF Spec

-----------------------------------------------------------------------------
(* What viewers believe of the owner                                         *)

\* w believes what it did and the owner is the same, or it believes the truth.
StaysTold(w) ==
  w \in viewers /\ ws[w] = "open" /\ seen'[w].owner = seen[w].owner /\ sizeOwner' = sizeOwner
Learns(w) == seen'[w].owner = OwnerState(w, sizeOwner')
Informed == \A w \in Viewer : w \in viewers' /\ ws'[w] = "open" => StaysTold(w) \/ Learns(w)

LEMMA OwnerToldOwner ==
  ASSUME WireOK, NEW owner, NEW w \in Viewer, w \in viewers, Reaches(w)
  PROVE  OwnerTold(owner)[w].owner = OwnerState(w, owner)
<1> DEFINE o == OwnerState(w, owner)
<1>1. OwnerTold(owner)[w] = [seen[w] EXCEPT !.owner = o]
  BY DEF OwnerTold
<1>2. seen[w] \in Seen
  BY DEF WireOK
<1> HIDE DEF o
<1>3. [seen[w] EXCEPT !.owner = o].owner = o
  BY <1>2 DEF Seen
<1> QED
  BY <1>1, <1>3 DEF o

\* The release of v's claim tells every viewer that can be reached.
LEMMA ReleaseTells ==
  ASSUME WireOK, NEW v \in Viewer, NEW ok \in BOOLEAN, NEW q, ReleaseSizeClaim(v, ok, q),
         NEW w \in Viewer, w \in viewers, ws[w] = "open", w \in ToldOnRelease(v) => w \notin clogged
  PROVE  \/ SeenOnRelease(v, ok)[w].owner = seen[w].owner /\ sizeOwner' = sizeOwner
         \/ SeenOnRelease(v, ok)[w].owner = OwnerState(w, sizeOwner')
<1>1. CASE sizeOwner = v
  <2> DEFINE told == OwnerTold(Successor(v))
  <2>1. /\ sizeOwner' = Successor(v) /\ Reaches(w)
        /\ SeenOnRelease(v, ok) = told \/ SeenOnRelease(v, ok) = Noticed(told, subscribers)
    BY <1>1 DEF ReleaseSizeClaim, SeenOnRelease, Restores, ToldOnRelease, Reaches
  <2>2. told[w].owner = OwnerState(w, Successor(v)) /\ told \in [Viewer -> Seen]
    BY <2>1, OwnerToldOwner, OwnerToldType
  <2> HIDE DEF told
  <2>3. Noticed(told, subscribers)[w].owner = told[w].owner
    BY <2>2, NoticedShows
  <2> QED
    BY <2>1, <2>2, <2>3
<1>2. CASE sizeOwner # v
  BY <1>2 DEF ReleaseSizeClaim, SeenOnRelease
<1> QED
  BY <1>1, <1>2

\* Nobody is told of anything.
LEMMA NobodyTold ==
  ASSUME \A w \in Viewer : ws'[w] = "open" => ws[w] = "open",
         \A w \in Viewer : seen'[w].owner = seen[w].owner,
         viewers' \subseteq viewers, sizeOwner' = sizeOwner
  PROVE  Informed
BY DEF Informed, StaysTold

LEMMA GiveUpClaimInforms ==
  ASSUME IndInv, NEW v \in Viewer, NEW ok \in BOOLEAN, GiveUpClaim(v, ok)
  PROVE  Informed
<1> SUFFICES ASSUME NEW w \in Viewer, w \in viewers', ws'[w] = "open"
             PROVE  StaysTold(w) \/ Learns(w)
  BY DEF Informed
<1>1. /\ ReleaseSizeClaim(v, ok, queue) /\ seen' = SeenOnRelease(v, ok)
      /\ ws' = Closing(Overrun(ToldOnRelease(v))) /\ viewers' = viewers
  BY DEF GiveUpClaim
<1>2. ws[w] = "open" /\ w \in viewers
  BY <1>1, ClosingOpensNothing
<1>3. w \in ToldOnRelease(v) => w \notin clogged
  BY <1>1, <1>2 DEF Closing, Overrun
<1>4. \/ SeenOnRelease(v, ok)[w].owner = seen[w].owner /\ sizeOwner' = sizeOwner
      \/ SeenOnRelease(v, ok)[w].owner = OwnerState(w, sizeOwner')
  BY <1>1, <1>2, <1>3, ReleaseTells DEF IndInv
<1> QED
  BY <1>1, <1>2, <1>4 DEF StaysTold, Learns

LEMMA HandleMessageInforms ==
  ASSUME IndInv, NEW v \in Viewer, NEW f \in Frame, NEW ok \in BOOLEAN,
         HandleMessage(v, f, ok)
  PROVE  Informed
<1>1. viewers' = viewers /\ \A w \in Viewer : ws'[w] = "open" => ws[w] = "open"
  BY HandleMessageEffects DEF HandlerEffects
<1>2. seen \in [Viewer -> Seen]
  BY DEF IndInv, WireOK
<1>3. CASE HandleInput(v, f) \/ HandleTerminalReset(v, f, ok) \/ HandleMalformed(v, f)
  <2>1. seen' = seen \/ seen' = Noticed(seen, {v})
    BY <1>3 DEF HandleInput, HandleTerminalReset, HandleMalformed, SendNotice, wireVars
  <2>2. \A w \in Viewer : seen'[w].owner = seen[w].owner
    BY <1>2, <2>1, NoticedShows
  <2> QED
    BY <1>1, <1>3, <2>2, NobodyTold
       DEF HandleInput, HandleTerminalReset, HandleMalformed, sizeVars
<1>4. CASE HandleResize(v, f, ok)
  <2>1. sizeOwner' = sizeOwner
    BY <1>4 DEF HandleResize, sizeVars
  <2> DEFINE o == OwnerState(v, sizeOwner)
  <2>2. seen' = seen \/ seen' = [seen EXCEPT ![v].owner = o] \/ seen' = Noticed(seen, {v})
    BY <1>4 DEF HandleResize, SendNotice
  <2>3. \A w \in Viewer : seen'[w].owner = seen[w].owner \/ (w = v /\ seen'[w].owner = o)
    <3> HIDE DEF o
    <3>1. [seen[v] EXCEPT !.owner = o].owner = o
      BY <1>2 DEF Seen
    <3>2. \A w \in Viewer : Noticed(seen, {v})[w].owner = seen[w].owner
      BY <1>2, NoticedShows
    <3> QED
      BY <1>2, <2>2, <3>1, <3>2
  <2> QED
    BY <1>1, <2>1, <2>3 DEF Informed, StaysTold, Learns
<1>5. CASE HandleSnapshotApplied(v, f)
  <2>1. sizeOwner' = sizeOwner
    BY <1>5 DEF HandleSnapshotApplied, sizeVars
  <2> DEFINE h == Append(seen[v].history, pendingScrollback[v])
  <2>2. seen' = seen \/ seen' = [seen EXCEPT ![v].history = h]
    BY <1>2, <1>5 DEF HandleSnapshotApplied, SendHistory
  <2>3. \A w \in Viewer : seen'[w].owner = seen[w].owner
    <3> HIDE DEF h
    <3>1. [seen[v] EXCEPT !.history = h].owner = seen[v].owner
      BY <1>2 DEF Seen
    <3> QED
      BY <1>2, <2>2, <3>1
  <2> QED
    BY <1>1, <2>1, <2>3, NobodyTold
<1>6. CASE HandleClaim(v, f)
  <2>1. CASE sizeClaimants[v] # 0
    BY <1>1, <1>6, <2>1, NobodyTold DEF HandleClaim, wireVars, sizeVars
  <2>2. CASE sizeClaimants[v] = 0
    <3>1. sizeOwner' = v /\ seen' = OwnerTold(v) /\ ws' = Closing(Overrun(viewers))
      BY <1>6, <2>2 DEF HandleClaim
    <3>2. ASSUME NEW w \in Viewer, w \in viewers, ws'[w] = "open"
          PROVE  Reaches(w)
      BY <1>1, <3>1, <3>2 DEF Closing, Overrun, Reaches
    <3>3. \A w \in Viewer : w \in viewers /\ ws'[w] = "open"
                            => OwnerTold(v)[w].owner = OwnerState(w, v)
      BY <3>2, OwnerToldOwner DEF IndInv
    <3> QED
      BY <1>1, <3>1, <3>3 DEF Informed, Learns
  <2> QED
    BY <2>1, <2>2
<1>7. CASE HandleRelease(v, f, ok)
  BY <1>7, GiveUpClaimInforms DEF HandleRelease
<1> QED
  BY <1>3, <1>4, <1>5, <1>6, <1>7 DEF HandleMessage

LEMMA InformedNext ==
  ASSUME IndInv, [Next]_vars
  PROVE  Informed
<1>1. seen \in [Viewer -> Seen]
  BY DEF IndInv, WireOK
<1>2. CASE PtyOutput \/ LocalGone \/ UNCHANGED vars
  BY <1>2, NobodyTold DEF PtyOutput, LocalGone, vars, wireVars, attachVars, sizeVars
<1>3. CASE RunScreenOp
  <2>1. viewers' = viewers /\ sizeOwner' = sizeOwner
    BY <1>3 DEF RunScreenOp, sizeVars
  <2>2. CASE disposed
    BY <1>3, <2>1, <2>2, NobodyTold DEF RunScreenOp
  <2>3. CASE ~disposed
    <3> DEFINE op == Head(queue)
    <3>1. /\ ws' = Closing(Overrun(subscribers))
          /\ seen' = [w \in Viewer |-> IF w \in subscribers /\ Reaches(w)
                                       THEN [seen[w] EXCEPT !.screen = Append(@, op)] ELSE seen[w]]
      BY <1>3, <2>3 DEF RunScreenOp, Broadcast
    <3> HIDE DEF op
    <3>2. \A w \in Viewer : [seen[w] EXCEPT !.screen = Append(@, op)].owner = seen[w].owner
      BY <1>1 DEF Seen
    <3>3. \A w \in Viewer : seen'[w].owner = seen[w].owner
      BY <3>1, <3>2
    <3> QED
      BY <2>1, <3>1, <3>3, ClosingOpensNothing, NobodyTold
  <2> QED
    BY <2>2, <2>3
<1>4. CASE PtyExit \/ Dispose
  BY <1>4 DEF PtyExit, Dispose, EndSession, Informed
<1>5. ASSUME NEW ok \in BOOLEAN, RunCapture(ok)
      PROVE  Informed
  <2>1. PICK v \in Viewer : v = Head(queue).viewer
    BY <1>5, CaptureViewer DEF RunCapture
  <2>2. CASE UNCHANGED <<wireVars, attachVars, sizeVars>>
    BY <2>2, NobodyTold DEF wireVars, attachVars, sizeVars
  <2>3. CASE RefuseCapture(v, ok)
    <3>1. CASE stage[v] = "detached"
      BY <2>3, <3>1, ClosingOpensNothing, NobodyTold DEF RefuseCapture, attachVars, sizeVars
    <3>2. CASE stage[v] # "detached"
      <4>1. /\ Detach(v, ok, AfterRefusal, ToldOnRelease(v)) /\ seen' = SeenOnRelease(v, ok)
            /\ ws' = Closing(RefusedSockets(v) \cup (ToldOnRelease(v) \cap clogged))
        BY <2>3, <3>2 DEF RefuseCapture
      <4>2. viewers' = viewers \ {v} /\ ReleaseSizeClaim(v, ok, AfterRefusal)
        BY <4>1 DEF Detach
      <4> SUFFICES ASSUME NEW w \in Viewer, w \in viewers', ws'[w] = "open"
                   PROVE  StaysTold(w) \/ Learns(w)
        BY DEF Informed
      <4>3. w \in viewers /\ ws[w] = "open" /\ (w \in ToldOnRelease(v) => w \notin clogged)
        BY <4>1, <4>2 DEF Closing
      <4>4. \/ SeenOnRelease(v, ok)[w].owner = seen[w].owner /\ sizeOwner' = sizeOwner
            \/ SeenOnRelease(v, ok)[w].owner = OwnerState(w, sizeOwner')
        BY <4>2, <4>3, ReleaseTells DEF IndInv
      <4> QED
        BY <4>1, <4>3, <4>4 DEF StaysTold, Learns
    <3> QED
      BY <3>1, <3>2
  <2>4. CASE SendSnapshot(v)
    <3> DEFINE n == Len(parsed)
    <3>1. /\ viewers' = viewers /\ sizeOwner' = sizeOwner /\ ws' = Closing(Overrun({v}))
          /\ seen' = seen \/ seen' = [seen EXCEPT ![v].snapshot = n, ![v].screen = parsed]
      BY <2>4 DEF SendSnapshot, sizeVars, CapturedScreen
    <3> HIDE DEF n
    <3>2. [[seen[v] EXCEPT !.snapshot = n] EXCEPT !.screen = parsed].owner = seen[v].owner
      BY <1>1 DEF Seen
    <3>3. \A w \in Viewer : seen'[w].owner = seen[w].owner
      BY <1>1, <3>1, <3>2
    <3> QED
      BY <3>1, <3>3, ClosingOpensNothing, NobodyTold
  <2> QED
    BY <1>5, <2>1, <2>2, <2>3, <2>4 DEF RunCapture
<1>6. ASSUME NEW ok \in BOOLEAN, NEW d \in Dims, StationResize(d, ok)
      PROVE  Informed
  BY <1>6, NobodyTold DEF StationResize, wireVars, attachVars
<1>7. ASSUME NEW ok \in BOOLEAN, NEW v \in Viewer, SocketClosed(v, ok)
      PROVE  Informed
  <2> DEFINE told == ToldOnRelease(v) \ {v}
  <2>1. /\ Closing(told \cap clogged) \in [Viewer -> {"absent", "open", "closing", "closed"}]
        /\ ws' = [Closing(told \cap clogged) EXCEPT ![v] = "closed"]
    BY <1>7, ClosingType DEF SocketClosed, IndInv
  <2>2. ASSUME NEW w \in Viewer, ws'[w] = "open"
        PROVE  w # v /\ ws[w] = "open" /\ ~(w \in told /\ w \in clogged)
    BY <2>1, <2>2 DEF Closing
  <2>3. CASE stage[v] = "detached"
    <3>1. viewers' = viewers /\ sizeOwner' = sizeOwner /\ seen' = [seen EXCEPT ![v] = Unseen]
      BY <1>7, <2>3 DEF SocketClosed, attachVars, sizeVars
    <3> QED
      BY <1>1, <2>2, <3>1 DEF Informed, StaysTold
  <2>4. CASE stage[v] # "detached"
    <3>1. Detach(v, ok, queue, told) /\ seen' = [SeenOnRelease(v, ok) EXCEPT ![v] = Unseen]
      BY <1>7, <2>4 DEF SocketClosed
    <3>2. viewers' = viewers \ {v} /\ ReleaseSizeClaim(v, ok, queue)
      BY <3>1 DEF Detach
    <3> SUFFICES ASSUME NEW w \in Viewer, w \in viewers', ws'[w] = "open"
                 PROVE  StaysTold(w) \/ Learns(w)
      BY DEF Informed
    <3>3. w # v /\ w \in viewers /\ ws[w] = "open" /\ (w \in ToldOnRelease(v) => w \notin clogged)
      BY <2>2, <3>2
    <3>4. SeenOnRelease(v, ok) \in [Viewer -> Seen]
      BY SeenOnReleaseType DEF IndInv
    <3>5. seen'[w] = SeenOnRelease(v, ok)[w]
      BY <3>1, <3>3, <3>4
    <3>6. \/ SeenOnRelease(v, ok)[w].owner = seen[w].owner /\ sizeOwner' = sizeOwner
          \/ SeenOnRelease(v, ok)[w].owner = OwnerState(w, sizeOwner')
      BY <3>2, <3>3, ReleaseTells DEF IndInv
    <3> QED
      BY <3>3, <3>5, <3>6 DEF StaysTold, Learns
  <2> QED
    BY <2>3, <2>4
<1>8. ASSUME NEW ok \in BOOLEAN, NEW v \in Viewer, LeaseExpires(v, ok)
      PROVE  Informed
  BY <1>8, GiveUpClaimInforms DEF LeaseExpires
<1>9. ASSUME NEW ok \in BOOLEAN, NEW v \in Viewer, Replay(v, ok)
      PROVE  Informed
  BY <1>9, HeldFrame, HandleMessageInforms DEF Replay
<1>10. ASSUME NEW ok \in BOOLEAN, NEW v \in Viewer, NEW d \in Dims, AttachAuthenticated(v, d, ok)
       PROVE  Informed
  <2> DEFINE grid == IF local = "waiting" /\ ~exited /\ sizeOwner = NoViewer /\ ok THEN d ELSE current
             o == OwnerState(v, sizeOwner)
  <2>1. /\ viewers' = viewers \cup {v} /\ sizeOwner' = sizeOwner
        /\ \/ ws' = [ws EXCEPT ![v] = "open"] /\ seen' = [seen EXCEPT ![v].owner = o, ![v].grid = current']
           \/ ws' = [ws EXCEPT ![v] = "closing"] /\ seen' = seen
    BY <1>10 DEF AttachAuthenticated
  <2>2. ws \in [Viewer -> {"absent", "open", "closing", "closed"}]
    BY DEF IndInv, WireOK
  <2>3. \A w \in Viewer \ {v} : ws'[w] = ws[w] /\ seen'[w] = seen[w]
    BY <1>1, <2>1, <2>2
  <2>4. ws'[v] = "open" => seen'[v].owner = o
    <3> HIDE DEF o
    <3>1. [[seen[v] EXCEPT !.owner = o] EXCEPT !.grid = current'].owner = o
      BY <1>1 DEF Seen
    <3> QED
      BY <1>1, <2>1, <2>2, <3>1
  <2> QED
    BY <2>1, <2>3, <2>4 DEF Informed, StaysTold, Learns
<1>11. ASSUME NEW ok \in BOOLEAN, NEW v \in Viewer, NEW f \in Frame, Receive(v, f, ok)
       PROVE  Informed
  <2>1. CASE stage[v] = "attaching"
    BY <1>11, <2>1, NobodyTold DEF Receive, wireVars, attachVars, sizeVars
  <2>2. CASE stage[v] = "ready"
    BY <1>11, <2>2, HandleMessageInforms DEF Receive
  <2> QED
    BY <1>11, <2>1, <2>2 DEF Receive
<1>12. ASSUME NEW v \in Viewer, Clog(v)
       PROVE  Informed
  BY <1>12, NobodyTold DEF Clog, attachVars, sizeVars
<1> QED
  BY <1>2, <1>3, <1>4, <1>5, <1>6, <1>7, <1>8, <1>9, <1>10, <1>11, <1>12 DEF Next

\* Every viewer whose connection is open has been told who owns the size: each
\* change is broadcast, and a viewer that cannot be told is closed
\* (broadcastSizeOwnershipState, sendRaw).
THEOREM OwnerIsKnown == Spec => []ViewersKnowTheOwner
<1>1. Init => ViewersKnowTheOwner
  BY DEF Init, ViewersKnowTheOwner
<1>2. IndInv /\ ViewersKnowTheOwner /\ [Next]_vars => ViewersKnowTheOwner'
  <2> SUFFICES ASSUME IndInv, ViewersKnowTheOwner, [Next]_vars, NEW w \in viewers', ws'[w] = "open"
               PROVE  seen'[w].owner = OwnerState(w, sizeOwner')
    BY DEF ViewersKnowTheOwner
  <2>1. IndInv'
    BY NextOK
  <2>2. w \in Viewer
    BY <2>1 DEF IndInv, AttachOK
  <2>3. StaysTold(w) \/ Learns(w)
    BY <2>2, InformedNext DEF Informed
  <2> QED
    BY <2>2, <2>3 DEF ViewersKnowTheOwner, StaysTold, Learns
<1> QED
  BY <1>1, <1>2, InductiveInvariant, PTL DEF Spec

-----------------------------------------------------------------------------
(* The Station's grid                                                        *)

\* A step keeps the grids of a Session without owner equal.
LEMMA GridsNext ==
  ASSUME IndInv, StationGridRestored, [Next]_vars
  PROVE  StationGridRestored'
<1> DEFINE Same == UNCHANGED <<current, station, resizeFailed, sizeOwner>> /\ (exited => exited')
<1>1. Same => StationGridRestored'
  BY DEF StationGridRestored
<1>2. CASE PtyOutput \/ LocalGone \/ RunScreenOp \/ PtyExit \/ Dispose \/ UNCHANGED vars
  BY <1>1, <1>2 DEF PtyOutput, LocalGone, RunScreenOp, PtyExit, Dispose, EndSession, vars,
     sizeVars, lifeVars, StationGridRestored
<1>3. ASSUME NEW v \in Viewer, NEW ok \in BOOLEAN, NEW q, ReleaseSizeClaim(v, ok, q),
             exited' = exited
      PROVE  StationGridRestored'
  <2> SUFFICES ASSUME ~exited, ~resizeFailed', sizeOwner' = NoViewer
               PROVE  current' = station'
    BY <1>3 DEF StationGridRestored
  <2>1. /\ station' = station /\ sizeOwner' = IF sizeOwner = v THEN Successor(v) ELSE sizeOwner
        /\ IF Restores(v) THEN ApplyResize(station, ok, q) ELSE UNCHANGED <<current, resizeFailed>>
    BY <1>3 DEF ReleaseSizeClaim
  <2>2. CASE Restores(v)
    BY <2>1, <2>2 DEF ApplyResize
  <2>3. CASE ~Restores(v)
    BY <2>1, <2>3 DEF Restores, StationGridRestored
  <2> QED
    BY <2>2, <2>3
<1>4. ASSUME NEW v \in Viewer, NEW f \in Frame, NEW ok \in BOOLEAN, HandleMessage(v, f, ok)
      PROVE  StationGridRestored'
  <2>1. exited' = exited
    BY <1>4 DEF HandleMessage, lifeVars
  <2>2. CASE HandleInput(v, f) \/ HandleTerminalReset(v, f, ok) \/ HandleMalformed(v, f)
             \/ HandleSnapshotApplied(v, f)
    BY <1>1, <2>1, <2>2 DEF HandleInput, HandleTerminalReset, HandleMalformed,
       HandleSnapshotApplied, sizeVars
  <2>3. CASE HandleResize(v, f, ok)
    <3>1. CASE ~MayResize(v)
      BY <1>1, <2>1, <2>3, <3>1 DEF HandleResize, sizeVars
    <3>2. CASE MayResize(v)
      BY <2>3, <3>2 DEF HandleResize, MayResize, StationGridRestored
    <3> QED
      BY <3>1, <3>2
  <2>4. CASE HandleClaim(v, f)
    BY <1>1, <2>1, <2>4 DEF HandleClaim, sizeVars, StationGridRestored
  <2>5. CASE HandleRelease(v, f, ok)
    BY <1>3, <2>1, <2>5 DEF HandleRelease, GiveUpClaim
  <2> QED
    BY <1>4, <2>2, <2>3, <2>4, <2>5 DEF HandleMessage
<1>5. ASSUME NEW ok \in BOOLEAN, RunCapture(ok)
      PROVE  StationGridRestored'
  <2>1. PICK v \in Viewer : v = Head(queue).viewer
    BY <1>5, CaptureViewer DEF RunCapture
  <2>2. exited' = exited
    BY <1>5 DEF RunCapture, lifeVars
  <2>3. CASE UNCHANGED sizeVars
    BY <1>1, <2>2, <2>3 DEF sizeVars
  <2>4. CASE RefuseCapture(v, ok)
    BY <1>3, <2>2, <2>3, <2>4 DEF RefuseCapture, Detach
  <2> QED
    BY <1>5, <2>1, <2>3, <2>4 DEF RunCapture, SendSnapshot
<1>6. ASSUME NEW ok \in BOOLEAN, NEW d \in Dims, StationResize(d, ok)
      PROVE  StationGridRestored'
  BY <1>6 DEF StationResize, ApplyStationResize, ApplyResize, lifeVars, StationGridRestored
<1>7. ASSUME NEW ok \in BOOLEAN, NEW v \in Viewer, SocketClosed(v, ok)
      PROVE  StationGridRestored'
  <2>1. exited' = exited
    BY <1>7 DEF SocketClosed, lifeVars
  <2> QED
    BY <1>1, <1>3, <1>7, <2>1 DEF SocketClosed, Detach, sizeVars
<1>8. ASSUME NEW ok \in BOOLEAN, NEW v \in Viewer, LeaseExpires(v, ok)
      PROVE  StationGridRestored'
  BY <1>3, <1>8 DEF LeaseExpires, GiveUpClaim, lifeVars
<1>9. ASSUME NEW ok \in BOOLEAN, NEW v \in Viewer, Replay(v, ok)
      PROVE  StationGridRestored'
  BY <1>4, <1>9, HeldFrame DEF Replay
<1>10. ASSUME NEW ok \in BOOLEAN, NEW v \in Viewer, NEW d \in Dims, AttachAuthenticated(v, d, ok)
       PROVE  StationGridRestored'
  BY <1>10 DEF AttachAuthenticated, StationGridRestored
<1>11. ASSUME NEW ok \in BOOLEAN, NEW v \in Viewer, NEW f \in Frame, Receive(v, f, ok)
       PROVE  StationGridRestored'
  <2>1. CASE stage[v] = "attaching"
    BY <1>1, <1>11, <2>1 DEF Receive, sizeVars, lifeVars
  <2>2. CASE stage[v] = "ready"
    BY <1>4, <1>11, <2>2 DEF Receive
  <2> QED
    BY <1>11, <2>1, <2>2 DEF Receive
<1>12. ASSUME NEW v \in Viewer, Clog(v)
       PROVE  StationGridRestored'
  BY <1>1, <1>12 DEF Clog, sizeVars, lifeVars
<1> QED
  BY <1>2, <1>5, <1>6, <1>7, <1>8, <1>9, <1>10, <1>11, <1>12 DEF Next

\* ADR 0011: when the last claim has gone the Session has the Station's grid again,
\* also when the Station has resized meanwhile, or a new workstation has started;
\* unless a resize of the backend has failed (releaseSizeClaim, applyStationResize).
THEOREM GridIsRestored == Spec => []StationGridRestored
<1>1. Init => StationGridRestored
  BY DEF Init, StationGridRestored
<1> QED
  BY <1>1, GridsNext, InductiveInvariant, PTL DEF Spec

-----------------------------------------------------------------------------
(* The grid a screen has after a run of tasks                                *)

\* The grid of a screen that had the grid g before the tasks of q.
Resizes(q) == {i \in DOMAIN q : q[i].op = "resize"}
GridFrom(g, q) ==
  IF Resizes(q) = {} THEN g
  ELSE q[CHOOSE i \in Resizes(q) : \A j \in Resizes(q) : j <= i].dims

\* The grid of a log starts at the initial one.
LEMMA GridOfIsGridFrom ==
  ASSUME NEW log
  PROVE  GridOf(log) = GridFrom(InitialDims, log)
BY DEF GridOf, GridFrom, Resizes

\* A run of tasks with a resize has a last one.
LEMMA LastResize ==
  ASSUME NEW q \in Seq(Task), Resizes(q) # {}
  PROVE  \E i \in Resizes(q) : \A j \in Resizes(q) : j <= i
<1> DEFINE R == Resizes(q)
           f == [i \in R |-> i]
<1>1. \A i \in R : f[i] \in Nat /\ f[i] <= Len(q)
  BY DEF Resizes
<1>2. Len(q) \in Nat
  OBVIOUS
<1>3. \E i \in R : \A j \in R : f[j] <= f[i]
  <2> HIDE DEF f, R
  <2>1. R # {}
    BY DEF R
  <2> QED
    BY <1>1, <1>2, <2>1, BoundedMaximum, Zenon
<1> QED
  BY <1>3

\* The last resize decides.
LEMMA GridIs ==
  ASSUME NEW g, NEW q \in Seq(Task), NEW i \in Resizes(q), \A j \in Resizes(q) : j <= i
  PROVE  GridFrom(g, q) = q[i].dims
<1> DEFINE k == CHOOSE n \in Resizes(q) : \A j \in Resizes(q) : j <= n
<1>1. k \in Resizes(q) /\ \A j \in Resizes(q) : j <= k
  OBVIOUS
<1>2. i \in Nat /\ k \in Nat
  BY <1>1 DEF Resizes
<1> HIDE DEF k
<1>3. i = k
  BY <1>1, <1>2
<1> QED
  BY <1>3 DEF GridFrom, k

\* One task more.
LEMMA GridAppend ==
  ASSUME NEW g, NEW q \in Seq(Task), NEW x \in Task
  PROVE  GridFrom(g, Append(q, x)) = IF x.op = "resize" THEN x.dims ELSE GridFrom(g, q)
<1> DEFINE r == Append(q, x)
           n == Len(q) + 1
<1>1. /\ r \in Seq(Task) /\ DOMAIN r = 1..n /\ DOMAIN q = 1..Len(q) /\ Len(q) \in Nat
      /\ r[n] = x /\ \A i \in DOMAIN q : r[i] = q[i]
  BY AppendProperties
<1> HIDE DEF r
<1>2. CASE x.op = "resize"
  <2>1. n \in Resizes(r) /\ \A j \in Resizes(r) : j <= n
    BY <1>1, <1>2 DEF Resizes
  <2>2. GridFrom(g, r) = r[n].dims
    BY <1>1, <2>1, GridIs
  <2> QED
    BY <1>1, <1>2, <2>2 DEF r
<1>3. CASE x.op # "resize"
  <2>1. Resizes(r) = Resizes(q)
    BY <1>1, <1>3 DEF Resizes
  <2>2. CASE Resizes(q) = {}
    BY <1>3, <2>1, <2>2 DEF GridFrom, r
  <2>3. CASE Resizes(q) # {}
    <3>1. PICK i \in Resizes(q) : \A j \in Resizes(q) : j <= i
      BY <2>3, LastResize
    <3>2. GridFrom(g, q) = q[i].dims /\ GridFrom(g, r) = r[i].dims
      BY <1>1, <2>1, <3>1, GridIs
    <3>3. r[i] = q[i]
      BY <1>1, <3>1 DEF Resizes
    <3> QED
      BY <1>3, <3>2, <3>3 DEF r
  <2> QED
    BY <2>2, <2>3
<1> QED
  BY <1>2, <1>3

\* Two runs, one after the other.
LEMMA GridConcat ==
  ASSUME NEW g, NEW p \in Seq(Task), NEW q \in Seq(Task)
  PROVE  GridFrom(g, p \o q) = GridFrom(GridFrom(g, p), q)
<1> DEFINE r == p \o q
<1>1. /\ r \in Seq(Task) /\ Len(p) \in Nat /\ Len(q) \in Nat
      /\ DOMAIN p = 1..Len(p) /\ DOMAIN q = 1..Len(q) /\ DOMAIN r = 1..(Len(p) + Len(q))
      /\ \A i \in 1..(Len(p) + Len(q)) : r[i] = IF i <= Len(p) THEN p[i] ELSE q[i - Len(p)]
  BY ConcatProperties
<1> HIDE DEF r
<1>2. \A i \in 1..Len(p) : i \in DOMAIN r /\ r[i] = p[i]
  BY <1>1
<1>3. \A i \in 1..Len(q) : Len(p) + i \in DOMAIN r /\ r[Len(p) + i] = q[i]
  <2> TAKE i \in 1..Len(q)
  <2>1. /\ Len(p) + i \in 1..(Len(p) + Len(q))
        /\ ~(Len(p) + i <= Len(p)) /\ Len(p) + i - Len(p) = i
    BY <1>1
  <2> QED
    BY <1>1, <2>1
<1>4. \A i \in DOMAIN r : i \in 1..Len(p) \/ \E j \in 1..Len(q) : i = Len(p) + j
  <2> TAKE i \in DOMAIN r
  <2>1. CASE i <= Len(p)
    BY <1>1, <2>1
  <2>2. CASE ~(i <= Len(p))
    <3>1. i - Len(p) \in 1..Len(q) /\ i = Len(p) + (i - Len(p))
      BY <1>1, <2>2
    <3> QED
      BY <3>1
  <2> QED
    BY <2>1, <2>2
<1>5. CASE Resizes(q) # {}
  <2>1. PICK i \in Resizes(q) : \A j \in Resizes(q) : j <= i
    BY <1>5, LastResize
  <2>2. i \in 1..Len(q) /\ q[i].op = "resize"
    BY <1>1, <2>1 DEF Resizes
  <2>3. Len(p) + i \in Resizes(r)
    BY <1>3, <2>2 DEF Resizes
  <2>4. \A j \in Resizes(r) : j <= Len(p) + i
    <3> TAKE j \in Resizes(r)
    <3>1. CASE j \in 1..Len(p)
      BY <1>1, <2>2, <3>1
    <3>2. ASSUME NEW k \in 1..Len(q), j = Len(p) + k PROVE j <= Len(p) + i
      <4>1. k \in Resizes(q)
        BY <1>1, <1>3, <3>2 DEF Resizes
      <4> QED
        BY <1>1, <2>1, <2>2, <3>2, <4>1
    <3> QED
      BY <1>4, <3>1, <3>2 DEF Resizes
  <2>5. GridFrom(g, r) = r[Len(p) + i].dims
    BY <1>1, <2>3, <2>4, GridIs
  <2>6. GridFrom(GridFrom(g, p), q) = q[i].dims
    BY <2>1, GridIs
  <2> QED
    BY <1>3, <2>2, <2>5, <2>6 DEF r
<1>6. CASE Resizes(q) = {}
  <2>1. GridFrom(GridFrom(g, p), q) = GridFrom(g, p)
    BY <1>6 DEF GridFrom
  <2>2. Resizes(r) = Resizes(p)
    <3>1. \A i \in DOMAIN r : r[i].op = "resize" => i \in 1..Len(p)
      BY <1>1, <1>3, <1>4, <1>6 DEF Resizes
    <3> QED
      BY <1>1, <1>2, <3>1 DEF Resizes
  <2>3. CASE Resizes(p) = {}
    BY <2>1, <2>2, <2>3 DEF GridFrom, r
  <2>4. CASE Resizes(p) # {}
    <3>1. PICK i \in Resizes(p) : \A j \in Resizes(p) : j <= i
      BY <2>4, LastResize
    <3>2. GridFrom(g, p) = p[i].dims /\ GridFrom(g, r) = r[i].dims
      BY <1>1, <2>2, <3>1, GridIs
    <3>3. r[i] = p[i]
      BY <1>1, <1>2, <3>1 DEF Resizes
    <3> QED
      BY <2>1, <3>2, <3>3 DEF r
  <2> QED
    BY <2>3, <2>4
<1> QED
  BY <1>5, <1>6

\* The first task of a run, and the rest.
LEMMA GridHead ==
  ASSUME NEW g, NEW q \in Seq(Task), q # <<>>
  PROVE  GridFrom(g, q) = GridFrom(IF Head(q).op = "resize" THEN Head(q).dims ELSE g, Tail(q))
<1> DEFINE x == Head(q)
<1>1. x \in Task /\ Tail(q) \in Seq(Task) /\ <<>> \in Seq(Task)
  OBVIOUS
<1>2. q = Append(<<>>, x) \o Tail(q)
  OBVIOUS
<1>3. Append(<<>>, x) \in Seq(Task)
  BY <1>1
<1>4. GridFrom(g, <<>>) = g
  BY DEF GridFrom, Resizes
<1> HIDE DEF x
<1>5. GridFrom(g, Append(<<>>, x)) = IF x.op = "resize" THEN x.dims ELSE g
  BY <1>1, <1>4, GridAppend
<1>6. GridFrom(g, Append(<<>>, x) \o Tail(q)) = GridFrom(GridFrom(g, Append(<<>>, x)), Tail(q))
  BY <1>1, <1>3, GridConcat
<1> QED
  BY <1>2, <1>5, <1>6 DEF x

-----------------------------------------------------------------------------
(* Prefixes of the parser queue                                              *)

\* What is appended is behind every prefix.
LEMMA PrefixOfAppend ==
  ASSUME NEW S, NEW q \in Seq(S), NEW x \in S, NEW i \in 0..Len(q)
  PROVE  SubSeq(Append(q, x), 1, i) = SubSeq(q, 1, i)
<1> DEFINE r == Append(q, x)
<1>1. /\ r \in Seq(S) /\ Len(q) \in Nat /\ Len(r) = Len(q) + 1
      /\ \A j \in 1..Len(q) : r[j] = q[j]
  BY AppendProperties
<1> HIDE DEF r
<1>2. i \in Nat /\ i <= Len(q) /\ \A j \in 1..i : j \in 1..Len(q)
  BY <1>1
<1>3. SubSeq(r, 1, i) = [j \in 1..i |-> r[j]] /\ SubSeq(q, 1, i) = [j \in 1..i |-> q[j]]
  BY <1>1, <1>2
<1> QED
  BY <1>1, <1>2, <1>3 DEF r

\* What is done is before every prefix.
LEMMA PrefixOfTail ==
  ASSUME NEW S, NEW q \in Seq(S), q # <<>>, NEW i \in 1..Len(q)
  PROVE  /\ SubSeq(q, 1, i) \in Seq(S) /\ SubSeq(q, 1, i) # <<>>
         /\ Head(SubSeq(q, 1, i)) = Head(q)
         /\ Tail(SubSeq(q, 1, i)) = SubSeq(Tail(q), 1, i - 1)
<1>1. Len(q) \in Nat /\ i \in Nat /\ 1 <= i /\ i <= Len(q)
  OBVIOUS
<1>2. \A j \in 1..i : q[j] \in S
  BY <1>1
<1> DEFINE s == SubSeq(q, 1, i)
<1>3. s = [j \in 1..i |-> q[j]]
  BY <1>1
<1>4. s \in Seq(S) /\ Len(s) = i /\ DOMAIN s = 1..i /\ \A j \in 1..i : s[j] = q[j]
  BY <1>1, <1>2, <1>3, SubSeqProperties
<1> HIDE DEF s
<1>5. s # <<>> /\ Head(s) = q[1] /\ Head(q) = q[1]
  BY <1>1, <1>4
<1>6. Tail(s) = SubSeq(Tail(q), 1, i - 1)
  <2> DEFINE t == Tail(q)
  <2>1. /\ t \in Seq(S) /\ Len(t) = Len(q) - 1 /\ \A j \in 1..(Len(q) - 1) : t[j] = q[j + 1]
    BY HeadTailProperties
  <2>2. /\ Tail(s) \in Seq(S) /\ Len(Tail(s)) = i - 1 /\ DOMAIN Tail(s) = 1..(i - 1)
        /\ \A j \in 1..(i - 1) : Tail(s)[j] = s[j + 1]
    BY <1>1, <1>4, <1>5, HeadTailProperties
  <2> HIDE DEF t
  <2>3. /\ i - 1 \in Nat /\ i - 1 <= Len(t)
        /\ \A j \in 1..(i - 1) : j \in 1..(Len(q) - 1) /\ j + 1 \in 1..i
    BY <1>1, <2>1
  <2>4. SubSeq(t, 1, i - 1) = [j \in 1..(i - 1) |-> t[j]]
    BY <2>1, <2>3
  <2>5. \A j \in 1..(i - 1) : Tail(s)[j] = t[j]
    BY <1>4, <2>1, <2>2, <2>3
  <2> DEFINE u == Tail(s)
  <2> HIDE DEF u
  <2>6. u \in Seq(S) /\ Len(u) = i - 1 /\ \A j \in 1..(i - 1) : u[j] = t[j]
    BY <2>2, <2>5 DEF u
  <2>7. u = SubSeq(t, 1, i - 1)
    <3> DEFINE w == SubSeq(t, 1, i - 1)
    <3>1. w \in Seq(S) /\ Len(w) = i - 1 /\ \A j \in 1..(i - 1) : w[j] = t[j]
      BY <2>1, <2>3, <2>4
    <3> HIDE DEF w
    <3>2. u = w
      BY <2>6, <3>1, SeqEqual
    <3> QED
      BY <3>2 DEF w
  <2> QED
    BY <2>7 DEF t, u
<1> QED
  BY <1>4, <1>5, <1>6 DEF s

-----------------------------------------------------------------------------
(* Captures, and the grids they were announced with                          *)

\* q is queued or one task more is, and the current grid goes with it.
Grown(q, r) ==
  \/ r = q /\ current' = current
  \/ \E x \in ScreenOp : r = Append(q, x)
                         /\ current' = IF x.op = "resize" THEN x.dims ELSE current

\* Tasks of q that are captures belong to attaches that are not complete, one to
\* each.
CapturesOf(q, st) ==
  \A i \in DOMAIN q : q[i].op = "capture" =>
    /\ st[q[i].viewer] \in {"attaching", "detached"}
    /\ \A j \in DOMAIN q : q[j] = q[i] => j = i

\* What has grown keeps its tasks, its prefixes and its captures.
LEMMA GrownSeq ==
  ASSUME NEW q \in Seq(Task), NEW r, Grown(q, r)
  PROVE  /\ r \in Seq(Task) /\ Len(r) >= Len(q)
         /\ \A i \in DOMAIN q : r[i] = q[i]
         /\ \A i \in DOMAIN r : r[i].op = "capture" => i \in DOMAIN q
         /\ \A i \in 0..Len(q) : SubSeq(r, 1, i) = SubSeq(q, 1, i)
<1>1. CASE r = q
  BY <1>1
<1>2. ASSUME NEW x \in ScreenOp, r = Append(q, x)
      PROVE  /\ r \in Seq(Task) /\ Len(r) >= Len(q)
             /\ \A i \in DOMAIN q : r[i] = q[i]
             /\ \A i \in DOMAIN r : r[i].op = "capture" => i \in DOMAIN q
             /\ \A i \in 0..Len(q) : SubSeq(r, 1, i) = SubSeq(q, 1, i)
  <2>1. x \in Task /\ x.op # "capture"
    BY DEF Task, ScreenOp
  <2>2. /\ r \in Seq(Task) /\ Len(q) \in Nat /\ Len(r) = Len(q) + 1 /\ DOMAIN q = 1..Len(q)
        /\ DOMAIN r = 1..(Len(q) + 1) /\ r[Len(q) + 1] = x
        /\ \A i \in 1..Len(q) : r[i] = q[i]
    BY <1>2, <2>1, AppendProperties
  <2>3. \A i \in 0..Len(q) : SubSeq(r, 1, i) = SubSeq(q, 1, i)
    BY <1>2, <2>1, PrefixOfAppend
  <2>4. \A i \in DOMAIN r : i \in DOMAIN q \/ i = Len(q) + 1
    BY <2>2
  <2> QED
    BY <2>1, <2>2, <2>3, <2>4
<1> QED
  BY <1>1, <1>2 DEF Grown

\* The queue ends in the grid that is current.
LEMMA GrownGrid ==
  ASSUME NEW g, NEW q \in Seq(Task), NEW r, Grown(q, r), GridFrom(g, q) = current
  PROVE  GridFrom(g, r) = current'
<1>1. ScreenOp \subseteq Task
  BY DEF Task
<1>2. \A x \in ScreenOp : GridFrom(g, Append(q, x)) = IF x.op = "resize" THEN x.dims ELSE current
  BY <1>1, GridAppend
<1>3. CASE r = q /\ current' = current
  BY <1>3
<1>4. CASE \E x \in ScreenOp : r = Append(q, x)
                             /\ current' = IF x.op = "resize" THEN x.dims ELSE current
  <2>1. PICK x \in ScreenOp : r = Append(q, x)
                             /\ current' = IF x.op = "resize" THEN x.dims ELSE current
    BY <1>4
  <2>2. GridFrom(g, r) = GridFrom(g, Append(q, x))
    BY <2>1
  <2> QED
    BY <1>2, <2>1, <2>2
<1> QED
  BY <1>3, <1>4 DEF Grown

\* What is added is no capture.
LEMMA GrownCaptures ==
  ASSUME NEW q \in Seq(Task), NEW r, Grown(q, r), NEW st, CapturesOf(q, st)
  PROVE  CapturesOf(r, st)
<1>1. /\ \A i \in DOMAIN q : r[i] = q[i]
      /\ \A i \in DOMAIN r : r[i].op = "capture" => i \in DOMAIN q
  BY GrownSeq
<1> SUFFICES ASSUME NEW i \in DOMAIN r, r[i].op = "capture"
             PROVE  /\ st[r[i].viewer] \in {"attaching", "detached"}
                    /\ \A j \in DOMAIN r : r[j] = r[i] => j = i
  BY DEF CapturesOf
<1>2. i \in DOMAIN q /\ r[i] = q[i]
  BY <1>1
<1>3. \A j \in DOMAIN r : r[j] = r[i] => j \in DOMAIN q /\ q[j] = q[i]
  BY <1>1, <1>2
<1> QED
  BY <1>2, <1>3 DEF CapturesOf

\* The first task goes; if it is a capture it is the only one of its viewer.
LEMMA TailCaptures ==
  ASSUME NEW q \in Seq(Task), q # <<>>, NEW st, CapturesOf(q, st)
  PROVE  /\ CapturesOf(Tail(q), st)
         /\ Head(q).op = "capture" => /\ st[Head(q).viewer] \in {"attaching", "detached"}
                                      /\ \A i \in DOMAIN Tail(q) : Tail(q)[i] # Head(q)
<1> DEFINE t == Tail(q)
<1>1. /\ t \in Seq(Task) /\ Len(q) \in Nat /\ Len(q) # 0 /\ DOMAIN q = 1..Len(q) /\ Head(q) = q[1]
      /\ DOMAIN t = 1..(Len(q) - 1) /\ \A i \in 1..(Len(q) - 1) : t[i] = q[i + 1]
  BY HeadTailProperties
<1>2. /\ 1 \in DOMAIN q
      /\ \A i \in 1..(Len(q) - 1) : i + 1 \in DOMAIN q /\ i + 1 # 1
      /\ \A i, j \in 1..(Len(q) - 1) : i + 1 = j + 1 => i = j
  BY <1>1
<1> HIDE DEF t
<1>3. CapturesOf(t, st)
  <2> SUFFICES ASSUME NEW i \in DOMAIN t, t[i].op = "capture"
               PROVE  /\ st[t[i].viewer] \in {"attaching", "detached"}
                      /\ \A j \in DOMAIN t : t[j] = t[i] => j = i
    BY DEF CapturesOf
  <2>1. i + 1 \in DOMAIN q /\ t[i] = q[i + 1]
    BY <1>1, <1>2
  <2>2. /\ st[q[i + 1].viewer] \in {"attaching", "detached"}
        /\ \A j \in DOMAIN q : q[j] = q[i + 1] => j = i + 1
    BY <2>1 DEF CapturesOf
  <2>3. ASSUME NEW j \in DOMAIN t, t[j] = t[i]
        PROVE  j = i
    <3>1. j + 1 \in DOMAIN q /\ q[j + 1] = q[i + 1]
      BY <1>1, <1>2, <2>1, <2>3
    <3>2. j + 1 = i + 1
      BY <2>2, <3>1
    <3> QED
      BY <1>1, <1>2, <3>2
  <2> QED
    BY <2>1, <2>2, <2>3
<1>4. \A i \in DOMAIN t : Head(q).op = "capture" => t[i] # Head(q)
  BY <1>1, <1>2 DEF CapturesOf
<1> QED
  BY <1>1, <1>2, <1>3, <1>4 DEF CapturesOf, t

\* A capture of v, the first and the last.
LEMMA JoinCaptures ==
  ASSUME NEW q \in Seq(Task), NEW v \in Viewer, NEW st \in [Viewer -> {"none", "attaching", "ready", "detached"}],
         CapturesOf(q, st), st[v] = "none"
  PROVE  CapturesOf(Append(q, Capture(v)), [st EXCEPT ![v] = "attaching"])
<1> DEFINE r == Append(q, Capture(v))
           n == Len(q) + 1
           new == [st EXCEPT ![v] = "attaching"]
<1>1. Capture(v) \in Task /\ Capture(v).op = "capture" /\ Capture(v).viewer = v
  BY DEF Capture, Task
<1>2. /\ r \in Seq(Task) /\ Len(q) \in Nat /\ DOMAIN q = 1..Len(q) /\ DOMAIN r = 1..n
      /\ r[n] = Capture(v) /\ \A i \in 1..Len(q) : r[i] = q[i]
  BY <1>1, AppendProperties
<1>3. \A i \in DOMAIN r : i \in DOMAIN q \/ i = n
  BY <1>2
<1>4. \A i \in DOMAIN q : i # n /\ (q[i].op = "capture" => q[i].viewer # v)
  BY <1>2 DEF CapturesOf
<1>5. \A i \in DOMAIN q : q[i].op = "capture" => q[i].viewer \in Viewer
  BY DEF Task, ScreenOp
<1>6. \A i \in DOMAIN q : r[i] # Capture(v)
  BY <1>1, <1>2, <1>4
<1>7. new[v] = "attaching" /\ \A w \in Viewer \ {v} : new[w] = st[w]
  OBVIOUS
<1> HIDE DEF r, n, new
<1> SUFFICES ASSUME NEW i \in DOMAIN r, r[i].op = "capture"
             PROVE  /\ new[r[i].viewer] \in {"attaching", "detached"}
                    /\ \A j \in DOMAIN r : r[j] = r[i] => j = i
  BY DEF CapturesOf, r, new
<1>8. CASE i = n
  BY <1>1, <1>2, <1>3, <1>6, <1>7, <1>8
<1>9. CASE i \in DOMAIN q
  <2>1. r[i] = q[i] /\ q[i].viewer \in Viewer \ {v} /\ st[q[i].viewer] \in {"attaching", "detached"}
    BY <1>2, <1>4, <1>5, <1>9 DEF CapturesOf
  <2>2. \A j \in DOMAIN r : r[j] = r[i] => j \in DOMAIN q /\ q[j] = q[i]
    BY <1>2, <1>3, <1>6, <1>9, <2>1
  <2> QED
    BY <1>7, <1>9, <2>1, <2>2 DEF CapturesOf
<1> QED
  BY <1>3, <1>8, <1>9

\* The stage of a viewer moves on.
LEMMA StageCaptures ==
  ASSUME NEW q \in Seq(Task), NEW st, NEW new, CapturesOf(q, st),
         \A w \in Viewer : \/ new[w] = st[w]
                           \/ new[w] = "detached"
                           \/ \A i \in DOMAIN q : q[i] # Capture(w)
  PROVE  CapturesOf(q, new)
<1> SUFFICES ASSUME NEW i \in DOMAIN q, q[i].op = "capture"
             PROVE  new[q[i].viewer] \in {"attaching", "detached"}
  BY DEF CapturesOf
<1>1. q[i] \in Task
  OBVIOUS
<1>2. q[i].viewer \in Viewer /\ q[i] = Capture(q[i].viewer)
  BY <1>1 DEF Task, ScreenOp, Capture
<1> QED
  BY <1>2 DEF CapturesOf

-----------------------------------------------------------------------------
(* The grid, queued and announced                                            *)

\* The queue ends in the current size, whose way there starts at what is parsed.
QueuedGrid == ~disposed => GridFrom(GridOf(parsed), queue) = current
\* What a viewer was announced is the grid its capture will find.
Announced ==
  \A i \in DOMAIN queue : queue[i].op = "capture" /\ ws[queue[i].viewer] = "open" =>
    GridFrom(GridOf(parsed), SubSeq(queue, 1, i - 1)) = seen[queue[i].viewer].grid
SnapshotGrids ==
  \A v \in Viewer : seen[v].snapshot # Unset =>
    /\ seen[v].snapshot \in 0..Len(parsed)
    /\ GridOf(SubSeq(parsed, 1, seen[v].snapshot)) = seen[v].grid
ScreenInv ==
  /\ CapturesOf(queue, stage)
  /\ disposed => \A v \in Viewer : ws[v] # "open"
  /\ QueuedGrid /\ Announced /\ SnapshotGrids
  /\ \A v \in Viewer : stage[v] = "none" => seen[v].snapshot = Unset

\* What a step may do to the queue, to the screen and to what viewers have been
\* shown of it.
Shown(w) == seen'[w].grid = seen[w].grid /\ seen'[w].snapshot = seen[w].snapshot
ShownOrGone(w) == Shown(w) \/ (seen'[w] = Unseen /\ ws'[w] # "open")
OpensNothing == \A w \in Viewer : ws'[w] = "open" => ws[w] = "open"
Proceed(w) == stage'[w] = stage[w] \/ stage'[w] = "detached"

\* Nothing is parsed, one more task may be queued; at the end all is closed.
Rests ==
  /\ OpensNothing /\ \A w \in Viewer : ShownOrGone(w) /\ Proceed(w)
  /\ parsed' = parsed /\ Grown(queue, queue')
  /\ disposed => disposed'
  /\ disposed' => disposed \/ \A w \in Viewer : ws'[w] # "open"
\* The first task goes, without effect on the screen.
Drops ==
  /\ OpensNothing /\ \A w \in Viewer : Shown(w) /\ Proceed(w)
  /\ queue # <<>> /\ parsed' = parsed /\ Grown(Tail(queue), queue')
  /\ disposed' = disposed /\ (disposed \/ Head(queue).op = "capture")
\* The first task is parsed.
Parses ==
  /\ OpensNothing /\ \A w \in Viewer : Shown(w) /\ Proceed(w)
  /\ queue # <<>> /\ Head(queue).op # "capture" /\ ~disposed
  /\ parsed' = Append(parsed, Head(queue)) /\ queue' = Tail(queue)
  /\ UNCHANGED <<disposed, current>>
\* The capture of v is answered with the screen as it is.
Shows(v) ==
  /\ OpensNothing /\ \A w \in Viewer \ {v} : Shown(w) /\ Proceed(w)
  /\ queue # <<>> /\ Head(queue) = Capture(v) /\ ws[v] = "open" /\ ~disposed
  /\ stage[v] # "detached"
  /\ seen'[v].grid = seen[v].grid /\ seen'[v].snapshot \in {seen[v].snapshot, Len(parsed)}
  /\ stage'[v] = "ready"
  /\ queue' = Tail(queue) /\ UNCHANGED <<parsed, disposed, current>>
\* v enters, its capture joins the queue, and it is told the grid.
Enters(v) ==
  /\ \A w \in Viewer \ {v} : Shown(w) /\ (ws'[w] = "open" => ws[w] = "open")
  /\ stage[v] = "none" /\ stage' = [stage EXCEPT ![v] = "attaching"]
  /\ seen'[v].snapshot = seen[v].snapshot
  /\ ws'[v] = "open" => ~disposed /\ seen'[v].grid = current'
  /\ \E q : Grown(queue, q) /\ queue' = Append(q, Capture(v))
  /\ UNCHANGED <<parsed, disposed>>
ScreenStep == Rests \/ Drops \/ Parses \/ \E v \in Viewer : Shows(v) \/ Enters(v)

\* No task, the same grid.
LEMMA GridOfEmpty ==
  ASSUME NEW g
  PROVE  GridFrom(g, <<>>) = g
BY DEF GridFrom, Resizes

\* What is parsed is a run of tasks.
LEMMA ParsedTasks ==
  ASSUME IndInv
  PROVE  parsed \in Seq(ScreenOp) /\ parsed \in Seq(Task) /\ queue \in Seq(Task)
BY DEF IndInv, LifeOK, QueueOK, Task

\* The snapshots taken stay what they are.
LEMMA SnapshotsKept ==
  ASSUME IndInv, SnapshotGrids, NEW v \in Viewer, ShownOrGone(v),
         parsed' = parsed \/ \E x \in ScreenOp : parsed' = Append(parsed, x),
         seen'[v].snapshot # Unset
  PROVE  /\ seen'[v].snapshot \in 0..Len(parsed')
         /\ GridOf(SubSeq(parsed', 1, seen'[v].snapshot)) = seen'[v].grid
<1>1. Shown(v)
  BY DEF ShownOrGone, Unseen
<1> DEFINE n == seen[v].snapshot
<1>2. n \in 0..Len(parsed) /\ GridOf(SubSeq(parsed, 1, n)) = seen[v].grid
  BY <1>1 DEF Shown, SnapshotGrids
<1>3. parsed \in Seq(ScreenOp) /\ Len(parsed) \in Nat
  BY ParsedTasks
<1> HIDE DEF n
<1>4. n \in 0..Len(parsed') /\ SubSeq(parsed', 1, n) = SubSeq(parsed, 1, n)
  <2>1. CASE parsed' = parsed
    BY <1>2, <2>1
  <2>2. ASSUME NEW x \in ScreenOp, parsed' = Append(parsed, x)
        PROVE  n \in 0..Len(parsed') /\ SubSeq(parsed', 1, n) = SubSeq(parsed, 1, n)
    <3>1. Len(parsed') = Len(parsed) + 1
      BY <1>3, <2>2, AppendProperties
    <3>2. SubSeq(Append(parsed, x), 1, n) = SubSeq(parsed, 1, n)
      BY <1>2, <1>3, PrefixOfAppend
    <3> QED
      BY <1>2, <1>3, <2>2, <3>1, <3>2
  <2> QED
    BY <2>1, <2>2
<1> QED
  BY <1>1, <1>2, <1>4 DEF Shown, n

\* An announced grid still fits a queue that has grown.
LEMMA AnnouncedGrown ==
  ASSUME IndInv, ScreenInv, NEW r, Grown(queue, r), NEW i \in DOMAIN r, r[i].op = "capture",
         ws[r[i].viewer] = "open"
  PROVE  GridFrom(GridOf(parsed), SubSeq(r, 1, i - 1)) = seen[r[i].viewer].grid
<1>1. queue \in Seq(Task)
  BY ParsedTasks
<1>2. /\ i \in DOMAIN queue /\ r[i] = queue[i]
      /\ \A j \in 0..Len(queue) : SubSeq(r, 1, j) = SubSeq(queue, 1, j)
  BY <1>1, GrownSeq
<1>3. i - 1 \in 0..Len(queue)
  BY <1>1, <1>2
<1>4. SubSeq(r, 1, i - 1) = SubSeq(queue, 1, i - 1)
  BY <1>2, <1>3
<1>5. Announced
  BY DEF ScreenInv
<1>6. GridFrom(GridOf(parsed), SubSeq(queue, 1, i - 1)) = seen[queue[i].viewer].grid
  BY <1>2, <1>5 DEF Announced
<1> QED
  BY <1>2, <1>4, <1>6

\* The grid announced to a viewer behind the first task, when that one is gone.
LEMMA AnnouncedTail ==
  ASSUME IndInv, ScreenInv, queue # <<>>, NEW i \in DOMAIN Tail(queue),
         Tail(queue)[i].op = "capture", ws[Tail(queue)[i].viewer] = "open"
  PROVE  GridFrom(IF Head(queue).op = "resize" THEN Head(queue).dims ELSE GridOf(parsed),
                  SubSeq(Tail(queue), 1, i - 1))
         = seen[Tail(queue)[i].viewer].grid
<1> DEFINE t == Tail(queue)
           s == SubSeq(queue, 1, i)
           g == GridOf(parsed)
<1>1. queue \in Seq(Task)
  BY ParsedTasks
<1>2. /\ Len(queue) \in Nat /\ DOMAIN queue = 1..Len(queue)
      /\ DOMAIN t = 1..(Len(queue) - 1) /\ \A j \in 1..(Len(queue) - 1) : t[j] = queue[j + 1]
  BY <1>1, HeadTailProperties
<1>3. i + 1 \in DOMAIN queue /\ t[i] = queue[i + 1] /\ i \in 1..Len(queue) /\ i + 1 - 1 = i
  BY <1>2
<1>4. /\ s \in Seq(Task) /\ s # <<>> /\ Head(s) = Head(queue)
      /\ Tail(s) = SubSeq(t, 1, i - 1)
  BY <1>1, <1>3, PrefixOfTail
<1>5. GridFrom(g, s) = seen[t[i].viewer].grid
  BY <1>3 DEF ScreenInv, Announced
<1> HIDE DEF g, s, t
<1>6. GridFrom(g, s) = GridFrom(IF Head(s).op = "resize" THEN Head(s).dims ELSE g, Tail(s))
  BY <1>4, GridHead
<1> QED
  BY <1>4, <1>5, <1>6 DEF g, t

\* Stages move on only to the end of an attach.
LEMMA ProceedCaptures ==
  ASSUME NEW q \in Seq(Task), CapturesOf(q, stage), \A w \in Viewer : Proceed(w)
  PROVE  CapturesOf(q, stage')
<1> DEFINE new == stage'
<1>1. \A w \in Viewer : new[w] = stage[w] \/ new[w] = "detached"
  BY DEF Proceed
<1> HIDE DEF new
<1>2. CapturesOf(q, new)
  BY <1>1, StageCaptures
<1> QED
  BY <1>2 DEF new

\* Each kind of step keeps ScreenInv.
LEMMA RestsOK ==
  ASSUME IndInv, ScreenInv, Rests
  PROVE  ScreenInv'
<1>1. queue \in Seq(Task) /\ Grown(queue, queue') /\ parsed' = parsed
  BY ParsedTasks DEF Rests
<1>2. CapturesOf(queue', stage')
  <2>1. CapturesOf(queue', stage) /\ queue' \in Seq(Task)
    BY <1>1, GrownCaptures, GrownSeq DEF ScreenInv
  <2> QED
    BY <2>1, ProceedCaptures DEF Rests
<1>3. disposed' => \A v \in Viewer : ws'[v] # "open"
  BY DEF Rests, ScreenInv, OpensNothing
<1>4. QueuedGrid'
  <2> SUFFICES ASSUME ~disposed' PROVE GridFrom(GridOf(parsed), queue') = current'
    BY <1>1 DEF QueuedGrid
  <2>1. GridFrom(GridOf(parsed), queue) = current
    BY DEF Rests, ScreenInv, QueuedGrid
  <2> QED
    BY <1>1, <2>1, GrownGrid
<1>5. Announced'
  <2> SUFFICES ASSUME NEW i \in DOMAIN queue', queue'[i].op = "capture", ws'[queue'[i].viewer] = "open"
               PROVE  GridFrom(GridOf(parsed), SubSeq(queue', 1, i - 1)) = seen'[queue'[i].viewer].grid
    BY <1>1 DEF Announced
  <2>1. queue'[i].viewer \in Viewer
    <3>1. queue' \in Seq(Task)
      BY <1>1, GrownSeq
    <3> QED
      BY <3>1 DEF Task, ScreenOp
  <2>2. ws[queue'[i].viewer] = "open" /\ Shown(queue'[i].viewer)
    BY <2>1 DEF Rests, OpensNothing, ShownOrGone
  <2>3. GridFrom(GridOf(parsed), SubSeq(queue', 1, i - 1)) = seen[queue'[i].viewer].grid
    BY <1>1, <2>2, AnnouncedGrown
  <2> QED
    BY <2>2, <2>3 DEF Shown
<1>6. SnapshotGrids'
  BY <1>1, SnapshotsKept DEF Rests, ScreenInv, SnapshotGrids
<1>7. \A v \in Viewer : stage'[v] = "none" => seen'[v].snapshot = Unset
  BY DEF Rests, Proceed, ShownOrGone, Shown, Unseen, ScreenInv
<1> QED
  BY <1>2, <1>3, <1>4, <1>5, <1>6, <1>7 DEF ScreenInv

LEMMA DropsOK ==
  ASSUME IndInv, ScreenInv, Drops
  PROVE  ScreenInv'
<1> DEFINE t == Tail(queue)
<1>1. queue \in Seq(Task) /\ queue # <<>> /\ t \in Seq(Task) /\ Grown(t, queue') /\ parsed' = parsed
  BY ParsedTasks DEF Drops
<1>2. CapturesOf(queue', stage')
  <2>1. CapturesOf(t, stage)
    BY <1>1, TailCaptures DEF ScreenInv
  <2>2. CapturesOf(queue', stage) /\ queue' \in Seq(Task)
    BY <1>1, <2>1, GrownCaptures, GrownSeq
  <2> QED
    BY <2>2, ProceedCaptures DEF Drops
<1>3. disposed' => \A v \in Viewer : ws'[v] # "open"
  BY DEF Drops, ScreenInv, OpensNothing
<1>4. ASSUME ~disposed'
      PROVE  disposed' = disposed /\ Head(queue).op # "resize"
  BY <1>4 DEF Drops
<1>5. QueuedGrid'
  <2> SUFFICES ASSUME ~disposed' PROVE GridFrom(GridOf(parsed), queue') = current'
    BY <1>1 DEF QueuedGrid
  <2>1. GridFrom(GridOf(parsed), queue) = current
    BY <1>4 DEF ScreenInv, QueuedGrid
  <2>2. GridFrom(GridOf(parsed), t) = current
    BY <1>1, <1>4, <2>1, GridHead
  <2> HIDE DEF t
  <2> QED
    BY <1>1, <2>2, GrownGrid
<1>6. Announced'
  <2> SUFFICES ASSUME NEW i \in DOMAIN queue', queue'[i].op = "capture", ws'[queue'[i].viewer] = "open"
               PROVE  GridFrom(GridOf(parsed), SubSeq(queue', 1, i - 1)) = seen'[queue'[i].viewer].grid
    BY <1>1 DEF Announced
  <2>1. /\ queue' \in Seq(Task) /\ i \in DOMAIN t /\ queue'[i] = t[i]
        /\ \A j \in 0..Len(t) : SubSeq(queue', 1, j) = SubSeq(t, 1, j)
    <3> HIDE DEF t
    <3> QED
      BY <1>1, GrownSeq
  <2>2. t[i].viewer \in Viewer
    BY <1>1, <2>1 DEF Task, ScreenOp
  <2>3. ws[t[i].viewer] = "open" /\ Shown(t[i].viewer) /\ ~disposed
    BY <2>1, <2>2 DEF Drops, OpensNothing, ScreenInv
  <2>4. GridFrom(GridOf(parsed), SubSeq(t, 1, i - 1)) = seen[t[i].viewer].grid
    <3>1. Head(queue).op # "resize"
      BY <2>3 DEF Drops
    <3> QED
      BY <1>1, <2>1, <2>3, <3>1, AnnouncedTail
  <2> HIDE DEF t
  <2>5. i - 1 \in 0..Len(t)
    BY <1>1, <2>1
  <2>6. SubSeq(queue', 1, i - 1) = SubSeq(t, 1, i - 1)
    BY <2>1, <2>5
  <2> QED
    BY <2>1, <2>3, <2>4, <2>6 DEF Shown
<1>7. SnapshotGrids'
  BY <1>1, SnapshotsKept DEF Drops, ScreenInv, SnapshotGrids, ShownOrGone
<1>8. \A v \in Viewer : stage'[v] = "none" => seen'[v].snapshot = Unset
  BY DEF Drops, Proceed, Shown, ScreenInv
<1> QED
  BY <1>2, <1>3, <1>5, <1>6, <1>7, <1>8 DEF ScreenInv

LEMMA ParsesOK ==
  ASSUME IndInv, ScreenInv, Parses
  PROVE  ScreenInv'
<1> DEFINE t == Tail(queue)
           x == Head(queue)
<1>1. /\ queue \in Seq(Task) /\ queue # <<>> /\ t \in Seq(Task) /\ parsed \in Seq(Task)
      /\ queue' = t /\ parsed' = Append(parsed, x) /\ x \in ScreenOp /\ x \in Task
  BY ParsedTasks DEF Parses, Task, ScreenOp
<1>2. GridOf(parsed') = IF x.op = "resize" THEN x.dims ELSE GridOf(parsed)
  <2> HIDE DEF x
  <2>1. GridFrom(InitialDims, Append(parsed, x)) =
          IF x.op = "resize" THEN x.dims ELSE GridFrom(InitialDims, parsed)
    BY <1>1, GridAppend
  <2> QED
    BY <1>1, <2>1, GridOfIsGridFrom
<1>3. CapturesOf(queue', stage')
  <2>1. CapturesOf(t, stage)
    BY <1>1, TailCaptures DEF ScreenInv
  <2> QED
    BY <1>1, <2>1, ProceedCaptures DEF Parses
<1>4. disposed' => \A v \in Viewer : ws'[v] # "open"
  BY DEF Parses
<1>5. QueuedGrid'
  <2>1. GridFrom(GridOf(parsed), queue) = current /\ current' = current
    BY DEF Parses, ScreenInv, QueuedGrid
  <2>2. GridFrom(GridOf(parsed), queue) = GridFrom(GridOf(parsed'), t)
    BY <1>1, <1>2, GridHead
  <2> QED
    BY <1>1, <2>1, <2>2 DEF QueuedGrid
<1>6. Announced'
  <2> SUFFICES ASSUME NEW i \in DOMAIN t, t[i].op = "capture", ws'[t[i].viewer] = "open"
               PROVE  GridFrom(GridOf(parsed'), SubSeq(t, 1, i - 1)) = seen'[t[i].viewer].grid
    BY <1>1 DEF Announced
  <2>1. t[i].viewer \in Viewer
    BY <1>1 DEF Task, ScreenOp
  <2>2. ws[t[i].viewer] = "open" /\ Shown(t[i].viewer)
    BY <2>1 DEF Parses, OpensNothing
  <2>3. GridFrom(GridOf(parsed'), SubSeq(t, 1, i - 1)) = seen[t[i].viewer].grid
    BY <1>1, <1>2, <2>2, AnnouncedTail
  <2> QED
    BY <2>2, <2>3 DEF Shown
<1>7. SnapshotGrids'
  BY <1>1, SnapshotsKept DEF Parses, ScreenInv, SnapshotGrids, ShownOrGone
<1>8. \A v \in Viewer : stage'[v] = "none" => seen'[v].snapshot = Unset
  BY DEF Parses, Proceed, Shown, ScreenInv
<1> QED
  BY <1>3, <1>4, <1>5, <1>6, <1>7, <1>8 DEF ScreenInv

LEMMA ShowsOK ==
  ASSUME IndInv, ScreenInv, NEW v \in Viewer, Shows(v)
  PROVE  ScreenInv'
<1> DEFINE t == Tail(queue)
<1>1. /\ queue \in Seq(Task) /\ queue # <<>> /\ t \in Seq(Task) /\ parsed \in Seq(ScreenOp)
      /\ queue' = t /\ parsed' = parsed /\ Head(queue) = Capture(v)
  BY ParsedTasks DEF Shows
<1>2. Head(queue).op = "capture" /\ Head(queue).viewer = v
  BY <1>1 DEF Capture
<1>3. CapturesOf(t, stage) /\ stage[v] = "attaching" /\ \A i \in DOMAIN t : t[i] # Capture(v)
  BY <1>1, <1>2, TailCaptures DEF ScreenInv, Shows
<1>4. CapturesOf(queue', stage')
  <2> DEFINE new == stage'
  <2>1. \A w \in Viewer : \/ new[w] = stage[w] \/ new[w] = "detached"
                         \/ \A i \in DOMAIN t : t[i] # Capture(w)
    BY <1>3 DEF Shows, Proceed
  <2> HIDE DEF new, t
  <2>2. t \in Seq(Task) /\ CapturesOf(t, stage)
    BY <1>1, <1>3
  <2>3. \A w \in Viewer : \/ new[w] = stage[w]
                         \/ new[w] = "detached"
                         \/ \A i \in DOMAIN t : t[i] # Capture(w)
    BY <2>1
  <2>4. CapturesOf(t, new)
    BY <2>2, <2>3, StageCaptures
  <2> QED
    BY <1>1, <2>4 DEF new
<1>5. disposed' => \A w \in Viewer : ws'[w] # "open"
  BY DEF Shows
<1>6. QueuedGrid'
  <2>1. GridFrom(GridOf(parsed), queue) = current /\ current' = current
    BY DEF Shows, ScreenInv, QueuedGrid
  <2>2. GridFrom(GridOf(parsed), queue) = GridFrom(GridOf(parsed), t)
    BY <1>1, <1>2, GridHead
  <2> QED
    BY <1>1, <2>1, <2>2 DEF QueuedGrid
<1>7. Announced'
  <2> SUFFICES ASSUME NEW i \in DOMAIN t, t[i].op = "capture", ws'[t[i].viewer] = "open"
               PROVE  GridFrom(GridOf(parsed), SubSeq(t, 1, i - 1)) = seen'[t[i].viewer].grid
    BY <1>1 DEF Announced
  <2>1. t[i].viewer \in Viewer /\ t[i] = Capture(t[i].viewer)
    BY <1>1 DEF Task, ScreenOp, Capture
  <2>2. ws[t[i].viewer] = "open" /\ Shown(t[i].viewer)
    BY <1>3, <2>1 DEF Shows, OpensNothing
  <2>3. GridFrom(GridOf(parsed), SubSeq(t, 1, i - 1)) = seen[t[i].viewer].grid
    BY <1>1, <1>2, <2>2, AnnouncedTail
  <2> QED
    BY <2>2, <2>3 DEF Shown
<1>8. SnapshotGrids'
  <2> SUFFICES ASSUME NEW w \in Viewer, seen'[w].snapshot # Unset
               PROVE  /\ seen'[w].snapshot \in 0..Len(parsed)
                      /\ GridOf(SubSeq(parsed, 1, seen'[w].snapshot)) = seen'[w].grid
    BY <1>1 DEF SnapshotGrids
  <2>1. CASE Shown(w)
    BY <1>1, <2>1, SnapshotsKept DEF ScreenInv, ShownOrGone
  <2>2. CASE ~Shown(w)
    <3>1. w = v /\ seen'[v].snapshot = Len(parsed) /\ seen'[v].grid = seen[v].grid
      BY <2>2 DEF Shows, Shown
    <3>2. SubSeq(parsed, 1, Len(parsed)) = parsed /\ Len(parsed) \in 0..Len(parsed)
      BY <1>1
    <3>3. 1 \in DOMAIN queue /\ queue[1] = Head(queue) /\ SubSeq(queue, 1, 1 - 1) = <<>>
      BY <1>1
    <3>4. GridFrom(GridOf(parsed), SubSeq(queue, 1, 1 - 1)) = seen[v].grid
      BY <1>2, <3>3 DEF ScreenInv, Announced, Shows
    <3>5. GridOf(parsed) = seen[v].grid
      BY <3>3, <3>4, GridOfEmpty
    <3> QED
      BY <3>1, <3>2, <3>5
  <2> QED
    BY <2>1, <2>2
<1>9. \A w \in Viewer : stage'[w] = "none" => seen'[w].snapshot = Unset
  BY DEF Shows, Proceed, Shown, ScreenInv
<1> QED
  BY <1>4, <1>5, <1>6, <1>7, <1>8, <1>9 DEF ScreenInv

LEMMA EntersOK ==
  ASSUME IndInv, ScreenInv, NEW v \in Viewer, Enters(v)
  PROVE  ScreenInv'
<1>1. PICK q : Grown(queue, q) /\ queue' = Append(q, Capture(v))
  BY DEF Enters
<1> DEFINE r == Append(q, Capture(v))
           n == Len(q) + 1
<1>2. queue \in Seq(Task) /\ parsed' = parsed /\ Capture(v) \in Task /\ q \in Seq(Task)
  <2>1. queue \in Seq(Task)
    BY ParsedTasks
  <2> QED
    BY <1>1, <2>1, GrownSeq DEF Enters, Capture, Task
<1>3. /\ r \in Seq(Task) /\ DOMAIN r = 1..n /\ DOMAIN q = 1..Len(q) /\ Len(q) \in Nat /\ r[n] = Capture(v)
      /\ \A i \in 1..Len(q) : r[i] = q[i]
  BY <1>2, AppendProperties
<1>4. Capture(v).op = "capture" /\ Capture(v).viewer = v
  BY DEF Capture
<1>5. CapturesOf(queue', stage')
  <2>1. CapturesOf(q, stage)
    BY <1>1, <1>2, GrownCaptures DEF ScreenInv
  <2>2. stage \in [Viewer -> {"none", "attaching", "ready", "detached"}] /\ stage[v] = "none"
        /\ stage' = [stage EXCEPT ![v] = "attaching"]
    BY DEF Enters, IndInv, AttachOK
  <2> QED
    BY <1>1, <1>2, <2>1, <2>2, JoinCaptures
<1>6. disposed' => \A w \in Viewer : ws'[w] # "open"
  BY DEF Enters, ScreenInv
<1>7. ~disposed => GridFrom(GridOf(parsed), q) = current'
  BY <1>1, <1>2, GrownGrid DEF ScreenInv, QueuedGrid
<1>8. QueuedGrid'
  <2>1. ~disposed => GridFrom(GridOf(parsed), r) = current'
    BY <1>2, <1>4, <1>7, GridAppend
  <2> QED
    BY <1>1, <1>2, <2>1 DEF QueuedGrid, Enters
<1>9. Announced'
  <2> SUFFICES ASSUME NEW i \in DOMAIN r, r[i].op = "capture", ws'[r[i].viewer] = "open"
               PROVE  GridFrom(GridOf(parsed), SubSeq(r, 1, i - 1)) = seen'[r[i].viewer].grid
    BY <1>1, <1>2 DEF Announced
  <2>1. CASE i = n
    <3>1. n - 1 = Len(q) /\ Len(q) \in 0..Len(q)
      BY <1>3
    <3>2. SubSeq(r, 1, Len(q)) = SubSeq(q, 1, Len(q)) /\ SubSeq(q, 1, Len(q)) = q
      BY <1>2, <3>1, PrefixOfAppend
    <3>3. ws'[v] = "open" /\ r[i].viewer = v
      BY <1>3, <1>4, <2>1
    <3>4. ~disposed /\ seen'[v].grid = current'
      BY <3>3 DEF Enters
    <3> QED
      BY <1>7, <2>1, <3>1, <3>2, <3>3, <3>4
  <2>2. CASE i # n
    <3>1. i \in DOMAIN q /\ r[i] = q[i] /\ i - 1 \in 0..Len(q)
      BY <1>3, <2>2
    <3>2. CapturesOf(q, stage)
      BY <1>1, <1>2, GrownCaptures DEF ScreenInv
    <3>3. q[i].viewer \in Viewer \ {v}
      BY <1>2, <3>1, <3>2 DEF CapturesOf, Task, ScreenOp, Enters
    <3>4. ws[q[i].viewer] = "open" /\ Shown(q[i].viewer)
      BY <3>1, <3>3 DEF Enters
    <3>5. GridFrom(GridOf(parsed), SubSeq(q, 1, i - 1)) = seen[q[i].viewer].grid
      BY <1>1, <3>1, <3>4, AnnouncedGrown
    <3>6. SubSeq(r, 1, i - 1) = SubSeq(q, 1, i - 1)
      BY <1>2, <3>1, PrefixOfAppend
    <3> QED
      BY <3>1, <3>4, <3>5, <3>6 DEF Shown
  <2> QED
    BY <2>1, <2>2
<1>10. SnapshotGrids'
  <2> SUFFICES ASSUME NEW w \in Viewer, seen'[w].snapshot # Unset
               PROVE  /\ seen'[w].snapshot \in 0..Len(parsed')
                      /\ GridOf(SubSeq(parsed', 1, seen'[w].snapshot)) = seen'[w].grid
    BY DEF SnapshotGrids
  <2>1. w # v
    BY DEF Enters, ScreenInv
  <2> QED
    BY <1>2, <2>1, SnapshotsKept DEF Enters, ShownOrGone, ScreenInv
<1>11. \A w \in Viewer : stage'[w] = "none" => seen'[w].snapshot = Unset
  BY DEF Enters, Shown, ScreenInv, IndInv, AttachOK
<1> QED
  BY <1>5, <1>6, <1>8, <1>9, <1>10, <1>11 DEF ScreenInv

-----------------------------------------------------------------------------
(* The history                                                               *)

\* History is sent only while it is pending, to a viewer that has its snapshot.
HistoryInv ==
  \A v \in Viewer :
    /\ stage[v] \in {"none", "attaching"} => seen[v].history = <<>> /\ pendingScrollback[v] = Unset
    /\ pendingScrollback[v] # Unset /\ ws[v] = "open" =>
         seen[v].history = <<>> /\ seen[v].snapshot # Unset

\* What a step may do to the history of w.
Keeps(w) ==
  /\ Proceed(w) \/ (stage[w] = "none" /\ stage'[w] = "attaching")
  /\ pendingScrollback'[w] \in {pendingScrollback[w], Unset}
  /\ \/ /\ seen'[w].history = seen[w].history /\ seen'[w].snapshot = seen[w].snapshot
        /\ ws'[w] = "open" => ws[w] = "open" \/ stage[w] = "none"
     \/ seen'[w].history = <<>> /\ ws'[w] # "open"
Freezes(w) ==
  /\ stage[w] = "attaching" /\ stage'[w] = "ready"
  /\ seen'[w].history = seen[w].history
  /\ ws'[w] = "open" => seen'[w].snapshot # Unset
SendsHistory(w) ==
  /\ pendingScrollback[w] # Unset /\ ws[w] = "open"
  /\ pendingScrollback'[w] = Unset /\ stage'[w] = stage[w]
HistoryStep == \A w \in Viewer : Keeps(w) \/ Freezes(w) \/ SendsHistory(w)

\* A step of both kinds.
MirrorStep == ScreenStep /\ HistoryStep

\* The step keeps HistoryInv, and history is sent only once.
LEMMA HistoryStepOK ==
  ASSUME IndInv, HistoryInv, HistoryStep
  PROVE  /\ HistoryInv'
         /\ \A v \in Viewer : Len(seen'[v].history) > Len(seen[v].history) =>
              seen[v].history = <<>> /\ seen[v].snapshot # Unset
<1> SUFFICES ASSUME NEW v \in Viewer
             PROVE  /\ stage'[v] \in {"none", "attaching"} =>
                         seen'[v].history = <<>> /\ pendingScrollback'[v] = Unset
                    /\ pendingScrollback'[v] # Unset /\ ws'[v] = "open" =>
                         seen'[v].history = <<>> /\ seen'[v].snapshot # Unset
                    /\ Len(seen'[v].history) > Len(seen[v].history) =>
                         seen[v].history = <<>> /\ seen[v].snapshot # Unset
  BY DEF HistoryInv
<1>1. Keeps(v) \/ Freezes(v) \/ SendsHistory(v)
  BY DEF HistoryStep
<1>2. CASE Keeps(v)
  <2>1. Len(seen[v].history) \in Nat /\ Len(<<>>) = 0
    BY DEF IndInv, WireOK, Seen
  <2> QED
    BY <1>2, <2>1 DEF Keeps, Proceed, HistoryInv
<1>3. CASE Freezes(v)
  <2>1. Len(seen[v].history) \in Nat
    BY DEF IndInv, WireOK, Seen
  <2> QED
    BY <1>3, <2>1 DEF Freezes, HistoryInv
<1>4. CASE SendsHistory(v)
  BY <1>4 DEF SendsHistory, HistoryInv
<1> QED
  BY <1>1, <1>2, <1>3, <1>4

\* A broadcast of the owner tells nothing else.
LEMMA OwnerToldShows ==
  ASSUME WireOK, NEW owner, NEW w \in Viewer
  PROVE  /\ OwnerTold(owner)[w].grid = seen[w].grid
         /\ OwnerTold(owner)[w].snapshot = seen[w].snapshot
         /\ OwnerTold(owner)[w].history = seen[w].history
<1> DEFINE o == OwnerState(w, owner)
           s == [seen[w] EXCEPT !.owner = o]
<1>1. s.grid = seen[w].grid /\ s.snapshot = seen[w].snapshot /\ s.history = seen[w].history
  <2> HIDE DEF o
  <2> QED
    BY DEF WireOK, Seen
<1> QED
  BY <1>1 DEF OwnerTold

\* So does the release of a claim.
LEMMA ReleaseShows ==
  ASSUME WireOK, NEW v \in Viewer, NEW ok \in BOOLEAN, NEW w \in Viewer
  PROVE  /\ SeenOnRelease(v, ok)[w].grid = seen[w].grid
         /\ SeenOnRelease(v, ok)[w].snapshot = seen[w].snapshot
         /\ SeenOnRelease(v, ok)[w].history = seen[w].history
<1> DEFINE told == Noticed(OwnerTold(NoViewer), subscribers)
<1>1. /\ told[w].grid = OwnerTold(NoViewer)[w].grid
      /\ told[w].snapshot = OwnerTold(NoViewer)[w].snapshot
      /\ told[w].history = OwnerTold(NoViewer)[w].history
  BY OwnerToldType, NoticedShows
<1> HIDE DEF told
<1>2. SeenOnRelease(v, ok) \in {seen, told, OwnerTold(Successor(v))}
  BY DEF SeenOnRelease, told
<1> QED
  BY <1>1, <1>2, OwnerToldShows

\* Whatever resizes or prints puts its task at the end of the queue.
LEMMA ApplyResizeGrows ==
  ASSUME NEW d \in Dims, NEW ok \in BOOLEAN, NEW q, ApplyResize(d, ok, q)
  PROVE  Grown(q, queue')
<1>1. Resize(d) \in ScreenOp /\ Resize(d).op = "resize" /\ Resize(d).dims = d
  BY DEF Resize, ScreenOp
<1>2. CASE ok
  BY <1>1, <1>2 DEF ApplyResize, Grown
<1>3. CASE ~ok
  BY <1>3 DEF ApplyResize, Grown
<1> QED
  BY <1>2, <1>3

LEMMA ReleaseGrows ==
  ASSUME IndInv, NEW v \in Viewer, NEW ok \in BOOLEAN, NEW q, ReleaseSizeClaim(v, ok, q)
  PROVE  Grown(q, queue')
<1>1. station \in Dims
  BY DEF IndInv, SizeInv, SizeOK
<1>2. CASE Restores(v)
  BY <1>1, <1>2, ApplyResizeGrows DEF ReleaseSizeClaim
<1>3. CASE ~Restores(v)
  BY <1>3 DEF ReleaseSizeClaim, Grown
<1> QED
  BY <1>2, <1>3

LEMMA PushGrows ==
  ASSUME IndInv, Push, current' = current
  PROVE  Grown(queue, queue')
<1>1. pushed \in Nat
  BY DEF IndInv, LifeOK
<1>2. Write(pushed + 1) \in ScreenOp /\ Write(pushed + 1).op # "resize"
  BY <1>1 DEF Write, ScreenOp
<1> QED
  BY <1>2 DEF Push, Grown

\* Steps without output, that at most close sockets and forget pending history.
Calm ==
  /\ OpensNothing /\ Grown(queue, queue')
  /\ UNCHANGED <<parsed, disposed>>
  /\ \A w \in Viewer : /\ Shown(w) /\ Proceed(w)
                       /\ seen'[w].history = seen[w].history
                       /\ pendingScrollback'[w] \in {pendingScrollback[w], Unset}

\* A calm step is one that rests, and keeps the history.
LEMMA CalmIsMirrorStep ==
  ASSUME Calm
  PROVE  MirrorStep
<1>1. Rests
  BY DEF Calm, Rests, ShownOrGone
<1>2. HistoryStep
  BY DEF Calm, HistoryStep, Keeps, OpensNothing, Shown
<1> QED
  BY <1>1, <1>2 DEF MirrorStep, ScreenStep

\* Nothing is sent, queued or parsed.
LEMMA StillIsMirrorStep ==
  ASSUME OpensNothing, UNCHANGED <<seen, stage, queue, current, parsed, disposed>>,
         \A w \in Viewer : pendingScrollback'[w] \in {pendingScrollback[w], Unset}
  PROVE  MirrorStep
BY CalmIsMirrorStep DEF Calm, Grown, Shown, Proceed

LEMMA GiveUpClaimMirrors ==
  ASSUME IndInv, NEW v \in Viewer, NEW ok \in BOOLEAN, GiveUpClaim(v, ok), UNCHANGED lifeVars
  PROVE  MirrorStep
<1>1. HandlerEffects(v) /\ pendingScrollback' = pendingScrollback
  BY GiveUpClaimEffects
<1>2. Grown(queue, queue')
  BY ReleaseGrows DEF GiveUpClaim
<1>3. \A w \in Viewer : Shown(w) /\ seen'[w].history = seen[w].history
  BY ReleaseShows DEF GiveUpClaim, Shown, IndInv
<1> QED
  BY <1>1, <1>2, <1>3, CalmIsMirrorStep
     DEF Calm, HandlerEffects, lifeVars, OpensNothing, Proceed

\* sendPendingScrollback sends what is pending, once.
LEMMA SnapshotAppliedMirrors ==
  ASSUME IndInv, NEW v \in Viewer, NEW f \in Frame, HandleSnapshotApplied(v, f),
         UNCHANGED lifeVars
  PROVE  MirrorStep
<1> DEFINE h == pendingScrollback[v]
           longer == Append(seen[v].history, h)
<1>1. seen \in [Viewer -> Seen] /\ pendingScrollback \in [Viewer -> Nat \cup {Unset}]
  BY DEF IndInv, WireOK, AttachOK
<1>2. OpensNothing
  BY ClosingOpensNothing DEF HandleSnapshotApplied, SendTo, OpensNothing
<1>3. /\ UNCHANGED <<stage, parsed, queue, current, disposed>>
      /\ pendingScrollback' = [pendingScrollback EXCEPT ![v] = Unset]
  BY DEF HandleSnapshotApplied, sizeVars, screenVars, lifeVars
<1>4. \/ seen' = seen
      \/ h # Unset /\ ws[v] = "open" /\ seen' = [seen EXCEPT ![v].history = longer]
  BY <1>1 DEF HandleSnapshotApplied, SendHistory, Reaches
<1>5. CASE seen' = seen
  BY <1>1, <1>2, <1>3, <1>5, StillIsMirrorStep
<1>6. CASE h # Unset /\ ws[v] = "open" /\ seen' = [seen EXCEPT ![v].history = longer]
  <2> DEFINE s == [seen[v] EXCEPT !.history = longer]
  <2>1. s.grid = seen[v].grid /\ s.snapshot = seen[v].snapshot
    <3> HIDE DEF longer
    <3> QED
      BY <1>1 DEF Seen
  <2>2. seen'[v] = s /\ \A w \in Viewer \ {v} : seen'[w] = seen[w]
    BY <1>1, <1>6
  <2>3. Rests
    <3>1. \A w \in Viewer : Shown(w)
      BY <2>1, <2>2 DEF Shown
    <3> QED
      BY <1>2, <1>3, <3>1 DEF Rests, ShownOrGone, Proceed, Grown
  <2>4. HistoryStep
    <3>1. SendsHistory(v)
      BY <1>1, <1>3, <1>6, <2>1, <2>2 DEF SendsHistory
    <3>2. \A w \in Viewer \ {v} : Keeps(w)
      BY <1>1, <1>2, <1>3, <2>2 DEF Keeps, Proceed, OpensNothing
    <3> QED
      BY <3>1, <3>2 DEF HistoryStep
  <2> QED
    BY <2>3, <2>4 DEF MirrorStep, ScreenStep
<1> QED
  BY <1>4, <1>5, <1>6

LEMMA HandleMessageMirrors ==
  ASSUME IndInv, NEW v \in Viewer, NEW f \in Frame, NEW ok \in BOOLEAN,
         HandleMessage(v, f, ok)
  PROVE  MirrorStep
<1>1. UNCHANGED lifeVars /\ UNCHANGED disposed
  BY DEF HandleMessage, lifeVars
<1>2. HandlerEffects(v)
  BY HandleMessageEffects
<1>3. /\ UNCHANGED <<stage, parsed>> /\ OpensNothing
      /\ \A w \in Viewer : pendingScrollback'[w] \in {pendingScrollback[w], Unset}
  BY <1>2 DEF HandlerEffects, OpensNothing
<1>4. seen \in [Viewer -> Seen]
  BY DEF IndInv, WireOK
<1>5. ASSUME Grown(queue, queue'),
             \A w \in Viewer : Shown(w) /\ seen'[w].history = seen[w].history
      PROVE  MirrorStep
  BY <1>1, <1>3, <1>5, CalmIsMirrorStep DEF Calm, Proceed
<1>12. seen' = Noticed(seen, {v}) => \A w \in Viewer : Shown(w) /\ seen'[w].history = seen[w].history
  BY <1>4, NoticedShows DEF Shown
<1>6. CASE HandleInput(v, f) \/ HandleMalformed(v, f)
  <2>1. UNCHANGED <<queue, current>> /\ (seen' = seen \/ seen' = Noticed(seen, {v}))
    BY <1>6 DEF HandleInput, HandleMalformed, wireVars, sizeVars, screenVars
  <2> QED
    BY <1>5, <1>12, <2>1 DEF Grown, Shown
<1>7. CASE HandleTerminalReset(v, f, ok)
  <2>1. CASE ok
    BY <1>5, <1>7, <2>1, PushGrows DEF HandleTerminalReset, sizeVars, Shown
  <2>2. CASE ~ok
    BY <1>5, <1>7, <1>12, <2>2 DEF HandleTerminalReset, SendNotice, sizeVars, screenVars, Grown
  <2> QED
    BY <2>1, <2>2
<1>8. CASE HandleResize(v, f, ok)
  <2>1. Grown(queue, queue')
    <3>1. f.dims \in Dims
      BY DEF Frame
    <3> QED
      BY <1>8, <3>1, ApplyResizeGrows DEF HandleResize, sizeVars, Grown
  <2> DEFINE o == OwnerState(v, sizeOwner)
             s == [seen[v] EXCEPT !.owner = o]
  <2>2. s.history = seen[v].history /\ s.grid = seen[v].grid /\ s.snapshot = seen[v].snapshot
    <3> HIDE DEF o
    <3> QED
      BY <1>4 DEF Seen
  <2>3. seen' = seen \/ seen' = [seen EXCEPT ![v].owner = o] \/ seen' = Noticed(seen, {v})
    BY <1>8 DEF HandleResize, SendNotice
  <2>4. seen' # Noticed(seen, {v})
        => \A w \in Viewer : seen'[w] = seen[w] \/ (w = v /\ seen'[w] = s)
    BY <1>4, <2>3
  <2>5. \A w \in Viewer : Shown(w) /\ seen'[w].history = seen[w].history
    BY <1>12, <2>2, <2>4 DEF Shown
  <2> QED
    BY <1>5, <2>1, <2>5
<1>9. CASE HandleSnapshotApplied(v, f)
  BY <1>1, <1>9, SnapshotAppliedMirrors
<1>10. CASE HandleClaim(v, f)
  <2>1. Grown(queue, queue')
    BY <1>10 DEF HandleClaim, sizeVars, screenVars, Grown
  <2>2. \A w \in Viewer : Shown(w) /\ seen'[w].history = seen[w].history
    BY <1>10, OwnerToldShows DEF HandleClaim, wireVars, Shown, IndInv
  <2> QED
    BY <1>5, <2>1, <2>2
<1>11. CASE HandleRelease(v, f, ok)
  BY <1>1, <1>11, GiveUpClaimMirrors DEF HandleRelease
<1> QED
  BY <1>6, <1>7, <1>8, <1>9, <1>10, <1>11 DEF HandleMessage

LEMMA RunScreenOpMirrors ==
  ASSUME IndInv, RunScreenOp
  PROVE  MirrorStep
<1>1. /\ queue # <<>> /\ queue' = Tail(queue) /\ Head(queue).op # "capture"
      /\ UNCHANGED <<stage, pendingScrollback, current, disposed>>
  BY DEF RunScreenOp, sizeVars, lifeVars
<1>2. seen \in [Viewer -> Seen]
  BY DEF IndInv, WireOK
<1>3. /\ OpensNothing
      /\ \A w \in Viewer : Shown(w) /\ seen'[w].history = seen[w].history
  <2>1. CASE disposed
    BY <2>1 DEF RunScreenOp, OpensNothing, Shown
  <2>2. CASE ~disposed
    <3> DEFINE op == Head(queue)
    <3>1. Broadcast(op)
      BY <2>2 DEF RunScreenOp
    <3> HIDE DEF op
    <3>2. \A w \in Viewer : LET s == [seen[w] EXCEPT !.screen = Append(@, op)]
                            IN  /\ s.history = seen[w].history /\ s.grid = seen[w].grid
                                /\ s.snapshot = seen[w].snapshot
      BY <1>2 DEF Seen
    <3>3. \A w \in Viewer : Shown(w) /\ seen'[w].history = seen[w].history
      BY <3>1, <3>2 DEF Broadcast, Shown
    <3> QED
      BY <3>1, <3>3, ClosingOpensNothing DEF Broadcast, OpensNothing
  <2> QED
    BY <2>1, <2>2
<1>4. HistoryStep
  BY <1>1, <1>3 DEF HistoryStep, Keeps, Proceed, OpensNothing, Shown
<1>5. CASE disposed
  <2>1. Drops
    BY <1>1, <1>3, <1>5 DEF RunScreenOp, Drops, Proceed, Grown
  <2> QED
    BY <1>4, <2>1 DEF MirrorStep, ScreenStep
<1>6. CASE ~disposed
  <2>1. Parses
    BY <1>1, <1>3, <1>6 DEF RunScreenOp, Parses, Proceed
  <2> QED
    BY <1>4, <2>1 DEF MirrorStep, ScreenStep
<1> QED
  BY <1>5, <1>6

\* What detach does that matters here.
LEMMA DetachMirrors ==
  ASSUME IndInv, NEW v \in Viewer, NEW ok \in BOOLEAN, NEW q, NEW told,
         Detach(v, ok, q, told)
  PROVE  /\ Grown(q, queue')
         /\ \A w \in Viewer : Proceed(w) /\ pendingScrollback'[w] \in {pendingScrollback[w], Unset}
<1>1. Grown(q, queue')
  BY ReleaseGrows DEF Detach
<1>2. \A w \in Viewer : Proceed(w) /\ pendingScrollback'[w] \in {pendingScrollback[w], Unset}
  BY DEF Detach, Proceed, IndInv, AttachOK
<1> QED
  BY <1>1, <1>2

LEMMA RunCaptureMirrors ==
  ASSUME IndInv, ScreenInv, NEW ok \in BOOLEAN, RunCapture(ok)
  PROVE  MirrorStep
<1>1. PICK v \in Viewer : v = Head(queue).viewer /\ Head(queue) = Capture(v)
  BY CaptureViewer DEF RunCapture
<1>2. /\ queue # <<>> /\ Head(queue).op = "capture" /\ disposed' = disposed
      /\ queue \in Seq(Task) /\ parsed \in Seq(ScreenOp) /\ seen \in [Viewer -> Seen]
  BY ParsedTasks DEF RunCapture, lifeVars, IndInv, WireOK
<1>3. CASE disposed /\ queue' = Tail(queue)
           /\ UNCHANGED <<wireVars, inboundVars, attachVars, sizeVars, parsed>>
  <2>1. Drops
    BY <1>2, <1>3 DEF wireVars, attachVars, sizeVars, Drops, OpensNothing, Shown, Proceed, Grown
  <2>2. HistoryStep
    BY <1>3 DEF wireVars, attachVars, HistoryStep, Keeps, Proceed
  <2> QED
    BY <2>1, <2>2 DEF MirrorStep, ScreenStep
<1>4. CASE RefuseCapture(v, ok)
  <2>1. OpensNothing /\ parsed' = parsed
    BY <1>4, ClosingOpensNothing DEF RefuseCapture, OpensNothing
  <2>2. CASE stage[v] = "detached"
    <3>1. queue' = Tail(queue) /\ UNCHANGED <<seen, stage, pendingScrollback, current>>
      BY <1>4, <2>2 DEF RefuseCapture, AfterRefusal, attachVars, sizeVars
    <3>2. Drops
      BY <1>2, <2>1, <3>1 DEF Drops, Shown, Proceed, Grown
    <3>3. HistoryStep
      BY <2>1, <3>1 DEF HistoryStep, Keeps, Proceed, OpensNothing
    <3> QED
      BY <3>2, <3>3 DEF MirrorStep, ScreenStep
  <2>3. CASE stage[v] # "detached"
    <3>1. Detach(v, ok, Tail(queue), ToldOnRelease(v)) /\ seen' = SeenOnRelease(v, ok)
      BY <1>4, <2>3 DEF RefuseCapture, AfterRefusal
    <3>2. /\ Grown(Tail(queue), queue')
          /\ \A w \in Viewer : Proceed(w) /\ pendingScrollback'[w] \in {pendingScrollback[w], Unset}
      BY <3>1, DetachMirrors
    <3>3. \A w \in Viewer : Shown(w) /\ seen'[w].history = seen[w].history
      BY <3>1, ReleaseShows DEF Shown, IndInv
    <3>4. Drops
      BY <1>2, <2>1, <3>2, <3>3 DEF Drops
    <3>5. HistoryStep
      BY <2>1, <3>2, <3>3 DEF HistoryStep, Keeps, OpensNothing, Shown
    <3> QED
      BY <3>4, <3>5 DEF MirrorStep, ScreenStep
  <2> QED
    BY <2>2, <2>3
<1>5. CASE ~disposed /\ SendSnapshot(v)
  <2> DEFINE n == Len(parsed)
             s == [[seen[v] EXCEPT !.snapshot = n] EXCEPT !.screen = parsed]
  <2>1. n \in Nat /\ n # Unset
    BY <1>2
  <2>2. s.grid = seen[v].grid /\ s.snapshot = n /\ s.history = seen[v].history
    <3> HIDE DEF n
    <3> QED
      BY <1>2 DEF Seen
  <2>3. \/ seen' = seen /\ ~Reaches(v)
        \/ seen'[v] = s /\ \A w \in Viewer \ {v} : seen'[w] = seen[w]
    BY <1>2, <1>5 DEF SendSnapshot, CapturedScreen
  <2>4. /\ ws[v] = "open" /\ stage[v] # "detached" /\ ws' = Closing(Overrun({v}))
        /\ queue' = Tail(queue) /\ UNCHANGED <<parsed, current>>
        /\ stage' = [stage EXCEPT ![v] = "ready"]
        /\ pendingScrollback' = [pendingScrollback EXCEPT ![v] = pushed]
    BY <1>5 DEF SendSnapshot, sizeVars
  <2>5. OpensNothing
    BY <2>4, ClosingOpensNothing DEF OpensNothing
  <2>6. stage'[v] = "ready" /\ \A w \in Viewer \ {v} : /\ stage'[w] = stage[w]
                                                      /\ pendingScrollback'[w] = pendingScrollback[w]
    BY <2>4 DEF IndInv, AttachOK
  <2>7. \A w \in Viewer \ {v} : Shown(w) /\ Proceed(w) /\ seen'[w].history = seen[w].history
    BY <2>3, <2>6 DEF Shown, Proceed
  <2>8. /\ seen'[v].grid = seen[v].grid /\ seen'[v].snapshot \in {seen[v].snapshot, n}
        /\ seen'[v].history = seen[v].history
    BY <2>2, <2>3
  <2>9. ws'[v] = "open" => seen'[v].snapshot # Unset
    <3> SUFFICES ASSUME ws'[v] = "open" PROVE seen'[v].snapshot # Unset
      OBVIOUS
    <3>1. Reaches(v)
      BY <2>4 DEF Closing, Overrun, Reaches
    <3>2. seen'[v] = s
      BY <2>3, <3>1
    <3> QED
      BY <2>1, <2>2, <3>2
  <2>10. stage[v] = "attaching"
    <3>1. CapturesOf(queue, stage)
      BY DEF ScreenInv
    <3> QED
      BY <1>1, <1>2, <2>4, <3>1, TailCaptures
  <2>11. Shows(v)
    BY <1>1, <1>2, <1>5, <2>4, <2>5, <2>6, <2>7, <2>8 DEF Shows
  <2>12. HistoryStep
    <3>1. Freezes(v)
      BY <2>6, <2>8, <2>9, <2>10 DEF Freezes
    <3>2. \A w \in Viewer \ {v} : Keeps(w)
      BY <2>5, <2>6, <2>7 DEF Keeps, OpensNothing, Shown
    <3> QED
      BY <3>1, <3>2 DEF HistoryStep
  <2> QED
    BY <2>11, <2>12 DEF MirrorStep, ScreenStep
<1> QED
  BY <1>1, <1>3, <1>4, <1>5 DEF RunCapture

LEMMA SocketClosedMirrors ==
  ASSUME IndInv, NEW v \in Viewer, NEW ok \in BOOLEAN, SocketClosed(v, ok)
  PROVE  MirrorStep
<1> DEFINE told == ToldOnRelease(v) \ {v}
<1>1. /\ Closing(told \cap clogged) \in [Viewer -> {"absent", "open", "closing", "closed"}]
      /\ ws' = [Closing(told \cap clogged) EXCEPT ![v] = "closed"]
      /\ parsed' = parsed /\ disposed' = disposed
  BY ClosingType DEF SocketClosed, IndInv, lifeVars
<1>2. OpensNothing /\ ws'[v] # "open"
  BY <1>1 DEF OpensNothing, Closing
<1>3. Unseen.history = <<>>
  BY DEF Unseen
<1>4. ASSUME Grown(queue, queue'),
             \A w \in Viewer : Proceed(w) /\ pendingScrollback'[w] \in {pendingScrollback[w], Unset},
             seen'[v] = Unseen,
             \A w \in Viewer \ {v} : Shown(w) /\ seen'[w].history = seen[w].history
      PROVE  MirrorStep
  <2>1. Rests
    BY <1>1, <1>2, <1>4 DEF Rests, ShownOrGone
  <2>2. HistoryStep
    BY <1>2, <1>3, <1>4 DEF HistoryStep, Keeps, OpensNothing, Shown
  <2> QED
    BY <2>1, <2>2 DEF MirrorStep, ScreenStep
<1>5. CASE stage[v] = "detached"
  <2>1. UNCHANGED <<stage, pendingScrollback, current, queue>> /\ seen' = [seen EXCEPT ![v] = Unseen]
    BY <1>5 DEF SocketClosed, attachVars, sizeVars
  <2>2. seen'[v] = Unseen /\ \A w \in Viewer \ {v} : seen'[w] = seen[w]
    BY <2>1 DEF IndInv, WireOK
  <2> QED
    BY <1>4, <2>1, <2>2 DEF Grown, Proceed, Shown
<1>6. CASE stage[v] # "detached"
  <2>1. Detach(v, ok, queue, told) /\ seen' = [SeenOnRelease(v, ok) EXCEPT ![v] = Unseen]
    BY <1>6 DEF SocketClosed
  <2>2. /\ Grown(queue, queue')
        /\ \A w \in Viewer : Proceed(w) /\ pendingScrollback'[w] \in {pendingScrollback[w], Unset}
    BY <2>1, DetachMirrors
  <2>3. SeenOnRelease(v, ok) \in [Viewer -> Seen]
    BY SeenOnReleaseType DEF IndInv
  <2>4. seen'[v] = Unseen /\ \A w \in Viewer \ {v} : seen'[w] = SeenOnRelease(v, ok)[w]
    BY <2>1, <2>3
  <2>5. \A w \in Viewer \ {v} : Shown(w) /\ seen'[w].history = seen[w].history
    BY <2>4, ReleaseShows DEF Shown, IndInv
  <2> QED
    BY <1>4, <2>2, <2>4, <2>5
<1> QED
  BY <1>5, <1>6

LEMMA AttachMirrors ==
  ASSUME IndInv, NEW v \in Viewer, NEW d \in Dims, NEW ok \in BOOLEAN,
         AttachAuthenticated(v, d, ok)
  PROVE  MirrorStep
<1> DEFINE resizes == local = "waiting" /\ ~exited /\ sizeOwner = NoViewer /\ ok
           grid    == IF resizes THEN d ELSE current
           q       == IF resizes THEN Append(queue, Resize(d)) ELSE queue
           o       == OwnerState(v, sizeOwner)
           s       == [[seen[v] EXCEPT !.owner = o] EXCEPT !.grid = grid]
<1>1. /\ stage[v] = "none" /\ stage' = [stage EXCEPT ![v] = "attaching"]
      /\ current' = grid /\ queue' = Append(q, Capture(v))
      /\ UNCHANGED <<parsed, disposed, pendingScrollback>>
      /\ \/ ~disposed /\ ws' = [ws EXCEPT ![v] = "open"]
            /\ seen' = [seen EXCEPT ![v].owner = o, ![v].grid = grid]
         \/ ws' = [ws EXCEPT ![v] = "closing"] /\ seen' = seen
  BY DEF AttachAuthenticated, CaptureLast
<1>2. Grown(queue, q)
  <2>1. Resize(d) \in ScreenOp /\ Resize(d).op = "resize" /\ Resize(d).dims = d
    BY DEF Resize, ScreenOp
  <2> QED
    BY <1>1, <2>1 DEF Grown
<1>3. ws \in [Viewer -> {"absent", "open", "closing", "closed"}] /\ seen \in [Viewer -> Seen]
      /\ stage \in [Viewer -> {"none", "attaching", "ready", "detached"}]
  BY DEF IndInv, WireOK, AttachOK
<1>4. s.snapshot = seen[v].snapshot /\ s.history = seen[v].history /\ s.grid = grid
  <2> HIDE DEF o, grid
  <2> QED
    BY <1>3 DEF Seen
<1>5. \/ ~disposed /\ ws'[v] = "open" /\ seen'[v] = s
      \/ ws'[v] = "closing" /\ seen'[v] = seen[v]
  BY <1>1, <1>3
<1>6. \A w \in Viewer \ {v} : ws'[w] = ws[w] /\ seen'[w] = seen[w] /\ stage'[w] = stage[w]
  BY <1>1, <1>3
<1>7. seen'[v].snapshot = seen[v].snapshot /\ seen'[v].history = seen[v].history
  BY <1>4, <1>5
<1>8. Enters(v)
  <2>1. ws'[v] = "open" => ~disposed /\ seen'[v].grid = current'
    BY <1>1, <1>4, <1>5
  <2> HIDE DEF q
  <2>2. \E r : Grown(queue, r) /\ queue' = Append(r, Capture(v))
    BY <1>1, <1>2
  <2> QED
    BY <1>1, <1>6, <1>7, <2>1, <2>2 DEF Enters, Shown
<1>9. HistoryStep
  <2>1. Keeps(v)
    BY <1>1, <1>3, <1>7 DEF Keeps
  <2>2. \A w \in Viewer \ {v} : Keeps(w)
    BY <1>1, <1>6 DEF Keeps, Proceed
  <2> QED
    BY <2>1, <2>2 DEF HistoryStep
<1> QED
  BY <1>8, <1>9 DEF MirrorStep, ScreenStep

\* Every step is of one of the kinds.
LEMMA NextMirrors ==
  ASSUME IndInv, ScreenInv, [Next]_vars
  PROVE  MirrorStep
<1>1. CASE PtyOutput
  <2>1. Grown(queue, queue')
    BY <1>1, PushGrows DEF PtyOutput, sizeVars
  <2> QED
    BY <1>1, <2>1, CalmIsMirrorStep DEF PtyOutput, Push, wireVars, attachVars, lifeVars, Calm,
       OpensNothing, Shown, Proceed
<1>2. CASE LocalGone \/ UNCHANGED vars
  BY <1>2, StillIsMirrorStep DEF LocalGone, vars, wireVars, attachVars, sizeVars, screenVars,
     lifeVars, OpensNothing
<1>3. CASE RunScreenOp
  BY <1>3, RunScreenOpMirrors
<1>4. CASE PtyExit
  <2>1. OpensNothing
    BY <1>4, ClosingOpensNothing DEF PtyExit, OpensNothing
  <2> QED
    BY <1>4, <2>1, StillIsMirrorStep DEF PtyExit, EndSession, screenVars
<1>5. CASE Dispose
  <2>1. /\ ws' = Closing(Viewer) /\ disposed' = TRUE
        /\ UNCHANGED <<seen, stage, queue, current, parsed>>
        /\ pendingScrollback' = [w \in Viewer |-> Unset]
    BY <1>5 DEF Dispose, EndSession, screenVars
  <2>2. \A w \in Viewer : ws'[w] # "open"
    BY <2>1 DEF Closing
  <2>3. Rests
    BY <2>1, <2>2 DEF Rests, OpensNothing, ShownOrGone, Shown, Proceed, Grown
  <2>4. HistoryStep
    BY <2>1, <2>2 DEF HistoryStep, Keeps, Proceed
  <2> QED
    BY <2>3, <2>4 DEF MirrorStep, ScreenStep
<1>6. ASSUME NEW ok \in BOOLEAN, RunCapture(ok)
      PROVE  MirrorStep
  BY <1>6, RunCaptureMirrors
<1>7. ASSUME NEW ok \in BOOLEAN, NEW d \in Dims, StationResize(d, ok)
      PROVE  MirrorStep
  <2>1. Grown(queue, queue')
    BY <1>7, ApplyResizeGrows DEF StationResize, ApplyStationResize, Grown
  <2> QED
    BY <1>7, <2>1, CalmIsMirrorStep DEF StationResize, wireVars, attachVars, lifeVars, Calm,
       OpensNothing, Shown, Proceed
<1>8. ASSUME NEW ok \in BOOLEAN, NEW v \in Viewer, SocketClosed(v, ok)
      PROVE  MirrorStep
  BY <1>8, SocketClosedMirrors
<1>9. ASSUME NEW ok \in BOOLEAN, NEW v \in Viewer, LeaseExpires(v, ok)
      PROVE  MirrorStep
  BY <1>9, GiveUpClaimMirrors DEF LeaseExpires
<1>10. ASSUME NEW ok \in BOOLEAN, NEW v \in Viewer, Replay(v, ok)
       PROVE  MirrorStep
  BY <1>10, HeldFrame, HandleMessageMirrors DEF Replay
<1>11. ASSUME NEW ok \in BOOLEAN, NEW v \in Viewer, NEW d \in Dims,
              AttachAuthenticated(v, d, ok)
       PROVE  MirrorStep
  BY <1>11, AttachMirrors
<1>12. ASSUME NEW ok \in BOOLEAN, NEW v \in Viewer, NEW f \in Frame, Receive(v, f, ok)
       PROVE  MirrorStep
  <2>1. CASE stage[v] = "attaching"
    <3>1. UNCHANGED <<wireVars, attachVars, sizeVars, screenVars, lifeVars>>
      BY <1>12, <2>1 DEF Receive
    <3> QED
      BY <3>1, StillIsMirrorStep DEF wireVars, attachVars, sizeVars, screenVars, lifeVars,
         OpensNothing
  <2>2. CASE stage[v] = "ready"
    BY <1>12, <2>2, HandleMessageMirrors DEF Receive
  <2> QED
    BY <1>12, <2>1, <2>2 DEF Receive
<1>13. ASSUME NEW v \in Viewer, Clog(v)
       PROVE  MirrorStep
  BY <1>13, StillIsMirrorStep DEF Clog, attachVars, sizeVars, screenVars, lifeVars, OpensNothing
<1> QED
  BY <1>1, <1>2, <1>3, <1>4, <1>5, <1>6, <1>7, <1>8, <1>9, <1>10, <1>11, <1>12, <1>13 DEF Next

LEMMA ScreenNext == IndInv /\ ScreenInv /\ [Next]_vars => ScreenInv'
<1> SUFFICES ASSUME IndInv, ScreenInv, [Next]_vars PROVE ScreenInv'
  OBVIOUS
<1>1. ScreenStep
  BY NextMirrors DEF MirrorStep
<1> QED
  BY <1>1, RestsOK, DropsOK, ParsesOK, ShowsOK, EntersOK DEF ScreenStep

LEMMA ScreenInit == Init => ScreenInv /\ HistoryInv
<1> SUFFICES ASSUME Init PROVE ScreenInv /\ HistoryInv
  OBVIOUS
<1>1. queue = <<>> /\ parsed = <<>> /\ current = InitialDims
      /\ \A v \in Viewer : /\ ws[v] = "absent" /\ seen[v] = Unseen
                           /\ pendingScrollback[v] = Unset
  BY DEF Init
<1>2. Unseen.snapshot = Unset /\ Unseen.history = <<>>
  BY DEF Unseen
<1>3. GridFrom(GridOf(parsed), queue) = current
  BY <1>1, GridOfIsGridFrom, GridOfEmpty
<1> QED
  BY <1>1, <1>2, <1>3 DEF ScreenInv, HistoryInv, CapturesOf, QueuedGrid, Announced, SnapshotGrids

LEMMA ScreenInvariant == Spec => []ScreenInv
<1> QED
  BY ScreenInit, ScreenNext, InductiveInvariant, PTL DEF Spec

\* The current size, which changes when a resize is queued, is the size the screen
\* will have when the queue has run: no resize is lost, repeated or overtaken
\* (applyResize, the parser queue of terminalScreen.ts).
THEOREM CurrentIsQueued == Spec => []CurrentIsQueuedGrid
<1>1. IndInv /\ ScreenInv => CurrentIsQueuedGrid
  <2> SUFFICES ASSUME IndInv, ScreenInv, ~disposed PROVE GridOf(parsed \o queue) = current
    BY DEF CurrentIsQueuedGrid
  <2>1. GridFrom(InitialDims, parsed \o queue) = GridFrom(GridFrom(InitialDims, parsed), queue)
    BY ParsedTasks, GridConcat
  <2>2. GridFrom(GridOf(parsed), queue) = current
    BY DEF ScreenInv, QueuedGrid
  <2> QED
    BY <2>1, <2>2, GridOfIsGridFrom
<1> QED
  BY <1>1, ScreenInvariant, InductiveInvariant, PTL

\* The grid that a viewer is told when it attaches is the grid of the screen whose
\* snapshot it gets, whatever was queued when its capture was, or is queued behind it
\* (attachAuthenticated, capture).
THEOREM AnnouncedIsCaptured == Spec => []AnnouncedGridIsSnapshotGrid
<1>1. ScreenInv => AnnouncedGridIsSnapshotGrid
  BY DEF ScreenInv, SnapshotGrids, AnnouncedGridIsSnapshotGrid
<1> QED
  BY <1>1, ScreenInvariant, PTL

\* A viewer is sent history at most once, and never before its snapshot, whatever
\* acknowledgements it repeats or sends early (sendPendingScrollback).
THEOREM HistoryIsOnce == Spec => HistoryOnceAfterSnapshot
<1>1. IndInv /\ ScreenInv /\ HistoryInv /\ [Next]_vars => HistoryInv'
  BY NextMirrors, HistoryStepOK DEF MirrorStep
<1>2. IndInv /\ ScreenInv /\ HistoryInv /\ [Next]_vars
        => [\A v \in Viewer : Len(seen'[v].history) > Len(seen[v].history) =>
              seen[v].history = <<>> /\ seen[v].snapshot # Unset]_vars
  BY NextMirrors, HistoryStepOK DEF MirrorStep
<1>3. Spec => []HistoryInv
  BY <1>1, ScreenInit, ScreenInvariant, InductiveInvariant, PTL DEF Spec
<1> QED
  BY <1>2, <1>3, ScreenInvariant, InductiveInvariant, PTL DEF Spec, HistoryOnceAfterSnapshot

-----------------------------------------------------------------------------
(* Terminal Size Ownership: the claims as a stack                            *)

\* s has the claimants of c, the oldest claim first.
IsStack(s, c) ==
  /\ s \in Seq(Viewer)
  /\ \A i \in DOMAIN s : c[s[i]] # 0
  /\ \A v \in Viewer : c[v] # 0 => \E i \in DOMAIN s : s[i] = v
  /\ \A i, j \in DOMAIN s : i < j => c[s[i]] < c[s[j]]

LEMMA StackShape ==
  ASSUME NEW c, NEW s, IsStack(s, c)
  PROVE  /\ s \in Seq(Viewer) /\ Len(s) \in Nat /\ DOMAIN s = 1..Len(s)
         /\ \A i \in DOMAIN s : i \in Nat /\ s[i] \in Viewer
<1>1. s \in Seq(Viewer)
  BY DEF IsStack
<1> QED
  BY <1>1

\* A viewer is on the stack once.
LEMMA StackOnce ==
  ASSUME NEW c \in [Viewer -> Nat], NEW s, IsStack(s, c), NEW i \in DOMAIN s, NEW j \in DOMAIN s,
         s[i] = s[j]
  PROVE  i = j
<1>1. i \in Nat /\ j \in Nat /\ s[i] \in Viewer /\ c[s[i]] \in Nat
  BY DEF IsStack
<1>2. ~(i < j) /\ ~(j < i)
  BY <1>1 DEF IsStack
<1> QED
  BY <1>1, <1>2

\* Two stacks of the same claims agree as far as both go.
LEMMA StacksAgree ==
  ASSUME NEW c \in [Viewer -> Nat], NEW s, IsStack(s, c), NEW t, IsStack(t, c),
         NEW n \in Nat, n \in DOMAIN s, n \in DOMAIN t
  PROVE  s[n] = t[n]
<1> DEFINE Apart == {i \in DOMAIN s \cap DOMAIN t : s[i] # t[i]}
<1>1. Apart \in SUBSET Nat
  BY StackShape
<1>2. CASE Apart # {}
  <2>1. PICK i \in Apart : \A j \in Apart : i <= j
    <3> HIDE DEF Apart
    <3> QED
      BY <1>1, <1>2, NatLeast
  <2>2. i \in DOMAIN s /\ i \in DOMAIN t /\ i \in Nat /\ s[i] # t[i]
    BY <1>1, <2>1
  <2>3. s[i] \in Viewer /\ t[i] \in Viewer /\ c[s[i]] \in Nat /\ c[t[i]] \in Nat
        /\ c[s[i]] # 0 /\ c[t[i]] # 0
    BY <2>2 DEF IsStack
  <2>4. PICK j \in DOMAIN t : t[j] = s[i]
    BY <2>3 DEF IsStack
  <2>5. PICK k \in DOMAIN s : s[k] = t[i]
    BY <2>3 DEF IsStack
  <2>6. Len(s) \in Nat /\ Len(t) \in Nat /\ DOMAIN s = 1..Len(s) /\ DOMAIN t = 1..Len(t)
    BY StackShape
  <2>7. \A m \in DOMAIN s : m < i => m \in DOMAIN t /\ s[m] = t[m]
    BY <2>1, <2>2, <2>6
  <2>8. \A m \in DOMAIN t : m < i => m \in DOMAIN s /\ s[m] = t[m]
    BY <2>1, <2>2, <2>6
  <2>9. ~(j < i)
    BY <2>2, <2>4, <2>8, StackOnce
  <2>10. ~(k < i)
    BY <2>2, <2>5, <2>7, StackOnce
  <2>11. j \in Nat /\ k \in Nat /\ j # i /\ k # i
    BY <2>2, <2>4, <2>5, <2>6
  <2>12. i < j /\ i < k
    BY <2>2, <2>9, <2>10, <2>11
  <2>13. c[t[i]] < c[t[j]] /\ c[s[i]] < c[s[k]]
    BY <2>2, <2>4, <2>5, <2>12 DEF IsStack
  <2> QED
    BY <2>3, <2>4, <2>5, <2>13
<1> QED
  BY <1>2

LEMMA StackLengths ==
  ASSUME NEW c \in [Viewer -> Nat], NEW s, IsStack(s, c), NEW t, IsStack(t, c)
  PROVE  ~(Len(s) < Len(t))
<1> SUFFICES ASSUME Len(s) < Len(t) PROVE FALSE
  OBVIOUS
<1> DEFINE n == Len(s) + 1
<1>1. Len(s) \in Nat /\ Len(t) \in Nat /\ DOMAIN s = 1..Len(s) /\ DOMAIN t = 1..Len(t)
  BY StackShape
<1>2. n \in DOMAIN t /\ n \notin DOMAIN s /\ t[n] \in Viewer /\ c[t[n]] # 0
  BY <1>1 DEF IsStack
<1> HIDE DEF n
<1>3. PICK k \in DOMAIN s : s[k] = t[n]
  BY <1>2 DEF IsStack
<1>4. k \in DOMAIN t /\ k \in Nat
  BY <1>1, <1>3
<1>5. t[k] = t[n]
  BY <1>3, <1>4, StacksAgree
<1>6. k = n
  BY <1>2, <1>4, <1>5, StackOnce
<1> QED
  BY <1>2, <1>3, <1>6

LEMMA StackUnique ==
  ASSUME NEW c \in [Viewer -> Nat], NEW s, IsStack(s, c), NEW t, IsStack(t, c)
  PROVE  s = t
<1>1. s \in Seq(Viewer) /\ t \in Seq(Viewer) /\ Len(s) \in Nat /\ Len(t) \in Nat
  BY DEF IsStack
<1>2. Len(s) = Len(t)
  BY <1>1, StackLengths
<1>3. \A i \in 1..Len(s) : s[i] = t[i]
  BY <1>1, <1>2, StacksAgree
<1> QED
  BY <1>1, <1>2, <1>3, SeqEqual

\* The stack of the model is the stack there is.
LEMMA StackIs ==
  ASSUME NEW c \in [Viewer -> Nat], NEW s, IsStack(s, c)
  PROVE  StackOf(c) = s
<1> DEFINE S == {v \in Viewer : c[v] # 0}
           n == Len(s)
           Fits(r) == /\ \A v \in S : \E i \in DOMAIN r : r[i] = v
                      /\ \A i, j \in DOMAIN r : i < j => c[r[i]] < c[r[j]]
           r == CHOOSE x \in [1..n -> S] : Fits(x)
<1>1. n \in Nat /\ DOMAIN s = 1..n /\ s \in [1..n -> S] /\ Fits(s)
  BY DEF IsStack
<1>2. Cardinality(S) = n
  <2>1. s \in Bijection(1..n, S)
    <3>1. \A i, j \in 1..n : s[i] = s[j] => i = j
      BY <1>1, StackOnce
    <3>2. \A v \in S : \E i \in 1..n : s[i] = v
      BY <1>1
    <3> HIDE DEF S, n
    <3> QED
      BY <1>1, <3>1, <3>2 DEF Bijection, Injection, Surjection, IsInjective
  <2> HIDE DEF S, n
  <2> QED
    BY <1>1, <2>1, FS_CountingElements DEF ExistsBijection
<1>3. r \in [1..n -> S] /\ Fits(r)
  <2> HIDE DEF S, n, Fits
  <2> QED
    BY <1>1
<1>4. StackOf(c) = r
  BY <1>2 DEF StackOf
<1>5. IsStack(r, c)
  <2> HIDE DEF r
  <2>1. \A i \in 1..n : r[i] \in Viewer /\ c[r[i]] # 0
    BY <1>3
  <2>2. DOMAIN r = 1..n
    BY <1>3
  <2>3. r \in Seq(Viewer)
    <3> HIDE DEF S, n, Fits
    <3>1. r = [i \in 1..n |-> r[i]]
      BY <1>3
    <3> QED
      BY <1>1, <2>1, <3>1
  <2> QED
    BY <1>1, <1>3, <2>1, <2>2, <2>3 DEF IsStack
<1> HIDE DEF r
<1>6. r = s
  BY <1>5, StackUnique
<1> QED
  BY <1>4, <1>6

\* One element of a sequence taken out.
LEMMA TakenOut ==
  ASSUME NEW S, NEW s \in Seq(S), NEW i \in 1..Len(s)
  PROVE  LET t == SubSeq(s, 1, i - 1) \o SubSeq(s, i + 1, Len(s))
         IN  /\ t \in Seq(S) /\ Len(t) = Len(s) - 1
             /\ \A j \in 1..(Len(s) - 1) : t[j] = IF j < i THEN s[j] ELSE s[j + 1]
<1> DEFINE a == SubSeq(s, 1, i - 1)
           b == SubSeq(s, i + 1, Len(s))
           t == a \o b
<1>1. Len(s) \in Nat /\ i \in Nat /\ 1 <= i /\ i <= Len(s)
  OBVIOUS
<1>2. /\ a \in Seq(S) /\ Len(a) = i - 1 /\ \A j \in 1..(i - 1) : a[j] = s[j]
  BY <1>1
<1>3. /\ b \in Seq(S) /\ Len(b) = Len(s) - i /\ \A j \in 1..(Len(s) - i) : b[j] = s[i + j]
  <2>1. /\ b = [j \in 1..(Len(s) - (i + 1) + 1) |-> s[(i + 1) + j - 1]]
    BY <1>1
  <2>2. Len(s) - (i + 1) + 1 = Len(s) - i /\ Len(s) - i \in Nat
    BY <1>1
  <2>3. \A j \in 1..(Len(s) - i) : (i + 1) + j - 1 = i + j /\ i + j \in 1..Len(s) /\ s[i + j] \in S
    BY <1>1
  <2>4. b \in Seq(S)
    BY <1>1
  <2>5. Len(b) = Len(s) - i
    BY <1>1
  <2> QED
    BY <2>1, <2>2, <2>3, <2>4, <2>5
<1> HIDE DEF a, b
<1>4. /\ t \in Seq(S) /\ Len(t) = Len(s) - 1
      /\ \A j \in 1..(Len(s) - 1) : t[j] = IF j <= i - 1 THEN a[j] ELSE b[j - (i - 1)]
  <2>1. t \in Seq(S) /\ Len(t) = Len(a) + Len(b)
        /\ \A j \in 1..(Len(a) + Len(b)) : t[j] = IF j <= Len(a) THEN a[j] ELSE b[j - Len(a)]
    BY <1>2, <1>3, ConcatProperties
  <2>2. Len(a) + Len(b) = Len(s) - 1
    BY <1>1, <1>2, <1>3
  <2> QED
    BY <1>2, <2>1, <2>2
<1>5. ASSUME NEW j \in 1..(Len(s) - 1)
      PROVE  t[j] = IF j < i THEN s[j] ELSE s[j + 1]
  <2>1. CASE j < i
    <3>1. j <= i - 1 /\ j \in 1..(i - 1)
      BY <1>1, <2>1
    <3> QED
      BY <1>2, <1>4, <2>1, <3>1
  <2>2. CASE ~(j < i)
    <3>1. ~(j <= i - 1) /\ j - (i - 1) \in 1..(Len(s) - i) /\ i + (j - (i - 1)) = j + 1
      BY <1>1, <2>2
    <3>2. b[j - (i - 1)] = s[i + (j - (i - 1))]
      BY <1>3, <3>1
    <3> QED
      BY <1>4, <2>2, <3>1, <3>2
  <2> QED
    BY <2>1, <2>2
<1> QED
  BY <1>4, <1>5 DEF a, b

\* The newest claim goes on top.
LEMMA StackPushed ==
  ASSUME NEW c \in [Viewer -> Nat], NEW s, IsStack(s, c), NEW v \in Viewer, c[v] = 0,
         NEW n \in Nat, n # 0, \A w \in Viewer : c[w] < n
  PROVE  IsStack(Append(s, v), [c EXCEPT ![v] = n])
<1> DEFINE t == Append(s, v)
           d == [c EXCEPT ![v] = n]
           k == Len(s) + 1
<1>1. /\ t \in Seq(Viewer) /\ Len(s) \in Nat /\ DOMAIN s = 1..Len(s) /\ DOMAIN t = 1..k
      /\ t[k] = v /\ \A i \in 1..Len(s) : t[i] = s[i]
  BY AppendProperties DEF IsStack
<1>2. \A i \in DOMAIN s : s[i] \in Viewer \ {v} /\ t[i] = s[i] /\ d[s[i]] = c[s[i]] /\ i # k
  BY <1>1 DEF IsStack
<1>3. d[v] = n /\ k \in DOMAIN t
  BY <1>1
<1>4. \A i \in DOMAIN t : i \in DOMAIN s \/ i = k
  BY <1>1
<1> HIDE DEF t, d, k
<1>5. \A i \in DOMAIN t : d[t[i]] # 0
  BY <1>1, <1>2, <1>3, <1>4 DEF IsStack
<1>6. \A w \in Viewer : d[w] # 0 => \E i \in DOMAIN t : t[i] = w
  <2> TAKE w \in Viewer
  <2>1. CASE w = v
    BY <1>1, <1>3, <2>1
  <2>2. CASE w # v
    <3>1. d[w] = c[w]
      BY <2>2 DEF d
    <3>2. DOMAIN s \subseteq DOMAIN t
      BY <1>1 DEF k
    <3> QED
      BY <1>2, <3>1, <3>2 DEF IsStack
  <2> QED
    BY <2>1, <2>2
<1>7. \A i, j \in DOMAIN t : i < j => d[t[i]] < d[t[j]]
  <2> SUFFICES ASSUME NEW i \in DOMAIN t, NEW j \in DOMAIN t, i < j
               PROVE  d[t[i]] < d[t[j]]
    OBVIOUS
  <2>1. i \in DOMAIN s
    BY <1>1, <1>4 DEF k
  <2>2. CASE j \in DOMAIN s
    BY <1>2, <2>1, <2>2 DEF IsStack
  <2>3. CASE j = k
    BY <1>1, <1>2, <1>3, <2>1, <2>3
  <2> QED
    BY <1>4, <2>2, <2>3
<1> QED
  BY <1>1, <1>5, <1>6, <1>7 DEF IsStack, t, d

\* A claim that goes leaves the order of the others.
LEMMA StackDropped ==
  ASSUME NEW c \in [Viewer -> Nat], NEW s, IsStack(s, c), NEW i \in DOMAIN s
  PROVE  IsStack(SubSeq(s, 1, i - 1) \o SubSeq(s, i + 1, Len(s)), [c EXCEPT ![s[i]] = 0])
<1> DEFINE t == SubSeq(s, 1, i - 1) \o SubSeq(s, i + 1, Len(s))
           v == s[i]
           d == [c EXCEPT ![v] = 0]
           At(j) == IF j < i THEN j ELSE j + 1
<1>1. s \in Seq(Viewer) /\ Len(s) \in Nat /\ DOMAIN s = 1..Len(s) /\ i \in 1..Len(s) /\ v \in Viewer
  BY DEF IsStack
<1>2. /\ t \in Seq(Viewer) /\ Len(t) = Len(s) - 1
      /\ \A j \in 1..(Len(s) - 1) : t[j] = IF j < i THEN s[j] ELSE s[j + 1]
  BY <1>1, TakenOut
<1> HIDE DEF t
<1>3. DOMAIN t = 1..(Len(s) - 1)
  BY <1>1, <1>2
<1>4. \A j \in DOMAIN t : At(j) \in DOMAIN s /\ At(j) # i /\ t[j] = s[At(j)]
  <2> TAKE j \in DOMAIN t
  <2>1. j \in Nat /\ 1 <= j /\ j <= Len(s) - 1
    BY <1>1, <1>3
  <2>2. At(j) \in DOMAIN s /\ At(j) # i
    BY <1>1, <2>1
  <2> QED
    BY <1>2, <1>3, <2>2
<1>5. \A j, k \in DOMAIN t : j < k => At(j) < At(k)
  BY <1>1, <1>3
<1>6. \A j \in DOMAIN s : j # i => \E k \in DOMAIN t : At(k) = j
  <2> TAKE j \in DOMAIN s
  <2> HAVE j # i
  <2>1. CASE j < i
    <3>1. j \in DOMAIN t /\ At(j) = j
      BY <1>1, <1>3, <2>1
    <3> QED
      BY <3>1
  <2>2. CASE ~(j < i)
    <3>1. j - 1 \in DOMAIN t /\ At(j - 1) = j
      BY <1>1, <1>3, <2>2
    <3> QED
      BY <3>1
  <2> QED
    BY <2>1, <2>2
<1> HIDE DEF At
<1>7. \A j \in DOMAIN t : t[j] \in Viewer \ {v} /\ d[t[j]] = c[t[j]]
  <2> TAKE j \in DOMAIN t
  <2>1. At(j) \in DOMAIN s /\ At(j) # i /\ t[j] = s[At(j)]
    BY <1>4
  <2>2. t[j] # v
    BY <1>1, <2>1, StackOnce
  <2> QED
    BY <1>1, <2>1, <2>2
<1>8. \A w \in Viewer \ {v} : d[w] = c[w]
  OBVIOUS
<1>9. d[v] = 0
  BY <1>1
<1> HIDE DEF d
<1>10. \A j \in DOMAIN t : d[t[j]] # 0
  BY <1>4, <1>7 DEF IsStack
<1>11. \A w \in Viewer : d[w] # 0 => \E j \in DOMAIN t : t[j] = w
  <2> SUFFICES ASSUME NEW w \in Viewer, d[w] # 0
               PROVE  \E j \in DOMAIN t : t[j] = w
    OBVIOUS
  <2>1. w # v /\ c[w] # 0
    BY <1>8, <1>9
  <2>2. PICK k \in DOMAIN s : s[k] = w
    BY <2>1 DEF IsStack
  <2>3. k # i
    BY <2>1, <2>2
  <2> QED
    BY <1>4, <1>6, <2>2, <2>3
<1>12. \A j, k \in DOMAIN t : j < k => d[t[j]] < d[t[k]]
  <2> SUFFICES ASSUME NEW j \in DOMAIN t, NEW k \in DOMAIN t, j < k
               PROVE  d[t[j]] < d[t[k]]
    OBVIOUS
  <2>1. c[s[At(j)]] < c[s[At(k)]]
    BY <1>4, <1>5 DEF IsStack
  <2> QED
    BY <1>4, <1>7, <2>1
<1> QED
  BY <1>2, <1>10, <1>11, <1>12 DEF IsStack, t, d

LEMMA StackEmpty ==
  ASSUME NEW c, \A v \in Viewer : c[v] = 0
  PROVE  IsStack(<<>>, c)
BY DEF IsStack

-----------------------------------------------------------------------------
(* What a step does to the claims and the grids                              *)

TakesClaim(v) ==
  /\ sizeClaimants[v] = 0 /\ sizeClaimants' = [sizeClaimants EXCEPT ![v] = sizeClaimSequence + 1]
  /\ UNCHANGED <<current, station>>
GivesUpClaim(v) ==
  /\ sizeClaimants[v] # 0 /\ sizeClaimants' = [sizeClaimants EXCEPT ![v] = 0]
  /\ current' = current \/ (Claimants = {v} /\ current' = station)
  /\ station' = station
ResizesAsOwner(d) ==
  Claimants # {} /\ current' = d /\ UNCHANGED <<sizeClaimants, station>>
ResizesAsStation(d) ==
  /\ station' = d
  /\ current' = current \/ (Claimants = {} /\ current' = d)
  /\ UNCHANGED sizeClaimants
ClaimsEnd ==
  sizeClaimants' = [v \in Viewer |-> 0] /\ UNCHANGED <<current, station>>
SizesRest == UNCHANGED <<sizeClaimants, current, station>>

SizeStep ==
  \/ SizesRest
  \/ ClaimsEnd
  \/ \E v \in Viewer : TakesClaim(v)
  \/ \E v \in Viewer : GivesUpClaim(v)
  \/ \E d \in Dims : ResizesAsOwner(d)
  \/ \E d \in Dims : ResizesAsStation(d)

LEMMA RestIsSizeStep ==
  ASSUME UNCHANGED sizeVars
  PROVE  SizeStep
BY DEF sizeVars, SizeStep, SizesRest

LEMMA ReleaseIsSizeStep ==
  ASSUME IndInv, NEW v \in Viewer, NEW ok \in BOOLEAN, NEW q, ReleaseSizeClaim(v, ok, q)
  PROVE  SizeStep
<1>1. /\ sizeClaimants' = [sizeClaimants EXCEPT ![v] = 0] /\ station' = station
      /\ IF Restores(v) THEN ApplyResize(station, ok, q) ELSE current' = current
  BY DEF ReleaseSizeClaim
<1>2. sizeClaimants \in [Viewer -> Nat] /\ (sizeOwner = NoViewer <=> Claimants = {})
      /\ (sizeOwner # NoViewer => sizeOwner \in Claimants)
  BY DEF IndInv, SizeInv, SizeOK, OwnerIsMostRecentClaimant
<1>3. CASE sizeClaimants[v] = 0
  <2>1. v # NoViewer /\ v \notin Claimants
    BY <1>3, ViewerAssumption DEF Claimants
  <2>2. ~Restores(v)
    BY <1>2, <2>1 DEF Restores
  <2> QED
    BY <1>1, <1>2, <1>3, <2>2 DEF SizeStep, SizesRest
<1>4. CASE sizeClaimants[v] # 0
  <2>1. v \in Claimants
    BY <1>4 DEF Claimants
  <2>2. Restores(v) => Claimants = {v}
    <3>1. Claimants \ {v} \in SUBSET Viewer
      BY DEF Claimants
    <3>2. Claimants \ {v} # {} => Successor(v) # NoViewer
      BY <3>1, MostRecentType, ViewerAssumption DEF IndInv, SizeInv, Successor
    <3> QED
      BY <2>1, <3>2 DEF Restores
  <2>3. current' = current \/ (Claimants = {v} /\ current' = station)
    BY <1>1, <2>2 DEF ApplyResize
  <2> QED
    BY <1>1, <1>4, <2>3 DEF SizeStep, GivesUpClaim
<1> QED
  BY <1>3, <1>4

LEMMA HandleMessageIsSizeStep ==
  ASSUME IndInv, NEW v \in Viewer, NEW f \in Frame, NEW ok \in BOOLEAN, HandleMessage(v, f, ok)
  PROVE  SizeStep
<1>1. CASE HandleInput(v, f) \/ HandleTerminalReset(v, f, ok) \/ HandleMalformed(v, f)
           \/ HandleSnapshotApplied(v, f)
  BY <1>1, RestIsSizeStep DEF HandleInput, HandleTerminalReset, HandleMalformed,
     HandleSnapshotApplied
<1>2. CASE HandleResize(v, f, ok)
  <2>1. CASE ~MayResize(v)
    BY <1>2, <2>1, RestIsSizeStep DEF HandleResize
  <2>2. CASE MayResize(v)
    <3>1. ApplyResize(f.dims, ok, queue) /\ UNCHANGED <<sizeClaimants, station>> /\ f.type = "resize"
      BY <1>2, <2>2 DEF HandleResize
    <3>2. f.dims \in Dims
      BY DEF Frame
    <3>3. v # NoViewer
      BY ViewerAssumption
    <3>4. Claimants # {}
      BY <2>2, <3>3 DEF MayResize, IndInv, SizeInv, OwnerIsMostRecentClaimant
    <3>5. SizesRest \/ ResizesAsOwner(f.dims)
      BY <3>1, <3>4 DEF ApplyResize, SizesRest, ResizesAsOwner
    <3> QED
      BY <3>2, <3>5 DEF SizeStep
  <2> QED
    BY <2>1, <2>2
<1>3. CASE HandleClaim(v, f)
  <2>1. CASE sizeClaimants[v] # 0
    BY <1>3, <2>1, RestIsSizeStep DEF HandleClaim
  <2>2. CASE sizeClaimants[v] = 0
    <3>1. TakesClaim(v)
      BY <1>3, <2>2 DEF HandleClaim, TakesClaim
    <3> QED
      BY <3>1 DEF SizeStep
  <2> QED
    BY <2>1, <2>2
<1>4. CASE HandleRelease(v, f, ok)
  BY <1>4, ReleaseIsSizeStep DEF HandleRelease, GiveUpClaim
<1> QED
  BY <1>1, <1>2, <1>3, <1>4 DEF HandleMessage

LEMMA NextIsSizeStep ==
  ASSUME IndInv, [Next]_vars
  PROVE  SizeStep
<1>1. CASE PtyOutput \/ LocalGone \/ RunScreenOp \/ UNCHANGED vars
  BY <1>1, RestIsSizeStep DEF PtyOutput, LocalGone, RunScreenOp, vars
<1>2. CASE PtyExit \/ Dispose
  BY <1>2 DEF PtyExit, Dispose, EndSession, SizeStep, ClaimsEnd
<1>3. ASSUME NEW ok \in BOOLEAN, RunCapture(ok)
      PROVE  SizeStep
  <2>1. PICK v \in Viewer : v = Head(queue).viewer
    BY <1>3, CaptureViewer DEF RunCapture
  <2>2. CASE UNCHANGED sizeVars
    BY <2>2, RestIsSizeStep
  <2>3. CASE RefuseCapture(v, ok)
    BY <2>2, <2>3, ReleaseIsSizeStep DEF RefuseCapture, Detach
  <2> QED
    BY <1>3, <2>1, <2>2, <2>3 DEF RunCapture, SendSnapshot
<1>4. ASSUME NEW ok \in BOOLEAN, NEW d \in Dims, StationResize(d, ok)
      PROVE  SizeStep
  <2>1. sizeOwner = NoViewer => Claimants = {}
    BY DEF IndInv, SizeInv, OwnerIsMostRecentClaimant
  <2>2. ResizesAsStation(d)
    BY <1>4, <2>1 DEF StationResize, ApplyStationResize, ApplyResize, ResizesAsStation
  <2> QED
    BY <2>2 DEF SizeStep
<1>5. ASSUME NEW ok \in BOOLEAN, NEW v \in Viewer, NEW d \in Dims, AttachAuthenticated(v, d, ok)
      PROVE  SizeStep
  <2>1. sizeOwner = NoViewer => Claimants = {}
    BY DEF IndInv, SizeInv, OwnerIsMostRecentClaimant
  <2>2. SizesRest \/ ResizesAsStation(d)
    BY <1>5, <2>1 DEF AttachAuthenticated, ResizesAsStation, SizesRest
  <2> QED
    BY <2>2 DEF SizeStep
<1>6. ASSUME NEW ok \in BOOLEAN, NEW v \in Viewer, SocketClosed(v, ok)
      PROVE  SizeStep
  BY <1>6, RestIsSizeStep, ReleaseIsSizeStep DEF SocketClosed, Detach
<1>7. ASSUME NEW ok \in BOOLEAN, NEW v \in Viewer, LeaseExpires(v, ok)
      PROVE  SizeStep
  BY <1>7, ReleaseIsSizeStep DEF LeaseExpires, GiveUpClaim
<1>8. ASSUME NEW ok \in BOOLEAN, NEW v \in Viewer, Replay(v, ok)
      PROVE  SizeStep
  BY <1>8, HeldFrame, HandleMessageIsSizeStep DEF Replay
<1>9. ASSUME NEW ok \in BOOLEAN, NEW v \in Viewer, NEW f \in Frame, Receive(v, f, ok)
      PROVE  SizeStep
  BY <1>9, RestIsSizeStep, HandleMessageIsSizeStep DEF Receive
<1>10. ASSUME NEW v \in Viewer, Clog(v)
       PROVE  SizeStep
  BY <1>10, RestIsSizeStep DEF Clog
<1> QED
  BY <1>1, <1>2, <1>3, <1>4, <1>5, <1>6, <1>7, <1>8, <1>9, <1>10 DEF Next

-----------------------------------------------------------------------------
(* Each step is a step of SizeArbiter                                        *)

\* The claims have a stack.
StackInv == IsStack(StackOf(sizeClaimants), sizeClaimants)

LEMMA StackSteps ==
  ASSUME IndInv, StackInv, [Next]_vars
  PROVE  StackInv' /\ [Arbiter!Next]_(Arbiter!vars)
<1> DEFINE s == StackOf(sizeClaimants)
           t == StackOf(sizeClaimants')
<1>1. sizeClaimants \in [Viewer -> Nat] /\ sizeClaimants' \in [Viewer -> Nat]
      /\ sizeClaimSequence \in Nat /\ current' \in Dims /\ station' \in Dims
  BY NextOK DEF IndInv, SizeInv, SizeOK
<1>2. \A v \in Viewer : sizeClaimants[v] <= sizeClaimSequence
  BY DEF IndInv, SizeInv, ClaimsNumbered
<1>3. /\ IsStack(s, sizeClaimants) /\ s \in Seq(Viewer) /\ Len(s) \in Nat
      /\ DOMAIN s = 1..Len(s) /\ \A i \in DOMAIN s : i \in Nat /\ s[i] \in Viewer
  BY StackShape DEF StackInv
<1>4. ASSUME NEW u, IsStack(u, sizeClaimants')
      PROVE  StackInv' /\ t = u
  BY <1>1, <1>4, StackIs DEF StackInv
<1>5. s = <<>> <=> Claimants = {}
  <2>1. s = <<>> <=> DOMAIN s = {}
    BY <1>3
  <2> QED
    BY <1>3, <2>1 DEF IsStack, Claimants
<1>6. /\ StackOf(sizeClaimants) = s
      /\ (StackOf(sizeClaimants))' = t
  OBVIOUS
<1> HIDE DEF s, t
<1> DEFINE Step == [Arbiter!Next]_(Arbiter!vars)
<1>7. CASE SizesRest
  <2>1. StackInv' /\ t = s
    BY <1>3, <1>4, <1>7 DEF SizesRest
  <2>2. UNCHANGED Arbiter!vars
    BY <1>6, <1>7, <2>1 DEF SizesRest, Arbiter!vars
  <2> QED
    BY <2>1, <2>2
<1>8. CASE ClaimsEnd
  <2>1. IsStack(<<>>, sizeClaimants')
    BY <1>8, StackEmpty DEF ClaimsEnd
  <2>2. StackInv' /\ t = <<>>
    BY <1>4, <2>1
  <2>3. Arbiter!End
    BY <1>6, <1>8, <2>2 DEF ClaimsEnd, Arbiter!End
  <2> QED
    BY <2>2, <2>3 DEF Arbiter!Next
<1>9. ASSUME NEW v \in Viewer, TakesClaim(v)
      PROVE  StackInv' /\ Step
  <2>1. IsStack(Append(s, v), sizeClaimants')
    <3>1. /\ sizeClaimSequence + 1 \in Nat /\ sizeClaimSequence + 1 # 0
          /\ \A w \in Viewer : sizeClaimants[w] < sizeClaimSequence + 1
      BY <1>1, <1>2
    <3> QED
      BY <1>1, <1>3, <1>9, <3>1, StackPushed DEF TakesClaim
  <2>2. StackInv' /\ t = Append(s, v)
    BY <1>4, <2>1
  <2>3. \A i \in DOMAIN s : s[i] # v
    BY <1>3, <1>9 DEF IsStack, TakesClaim
  <2>4. Arbiter!Claim(v)
    BY <1>6, <1>9, <2>2, <2>3 DEF TakesClaim, Arbiter!Claim, Arbiter!Claimed
  <2> QED
    BY <2>2, <2>4 DEF Arbiter!Next
<1>10. ASSUME NEW v \in Viewer, GivesUpClaim(v)
       PROVE  StackInv' /\ Step
  <2>1. PICK i \in DOMAIN s : s[i] = v
    BY <1>3, <1>10 DEF IsStack, GivesUpClaim
  <2>2. IsStack(SubSeq(s, 1, i - 1) \o SubSeq(s, i + 1, Len(s)), sizeClaimants')
    BY <1>1, <1>3, <1>10, <2>1, StackDropped DEF GivesUpClaim
  <2>3. StackInv' /\ t = SubSeq(s, 1, i - 1) \o SubSeq(s, i + 1, Len(s))
    BY <1>4, <2>2
  <2>4. Claimants = {v} => Len(s) = 1
    <3> HAVE Claimants = {v}
    <3>1. \A j \in DOMAIN s : s[j] = v
      BY <1>3 DEF IsStack, Claimants
    <3>2. \A j \in DOMAIN s : j = i
      BY <1>1, <1>3, <2>1, <3>1, StackOnce
    <3>3. Len(s) # 0 /\ ~(2 \in DOMAIN s /\ 1 \in DOMAIN s)
      BY <1>3, <2>1, <3>2
    <3> QED
      BY <1>3, <3>3
  <2>5. Arbiter!Drop(v)
    BY <1>6, <1>10, <2>1, <2>3, <2>4 DEF GivesUpClaim, Arbiter!Drop
  <2> QED
    BY <2>3, <2>5 DEF Arbiter!Next
<1>11. ASSUME NEW d \in Dims, ResizesAsOwner(d)
       PROVE  StackInv' /\ Step
  <2>1. StackInv' /\ t = s
    BY <1>3, <1>4, <1>11 DEF ResizesAsOwner
  <2>2. Arbiter!OwnerResizes(d)
    BY <1>5, <1>6, <1>11, <2>1 DEF ResizesAsOwner, Arbiter!OwnerResizes
  <2> QED
    BY <2>1, <2>2 DEF Arbiter!Next
<1>12. ASSUME NEW d \in Dims, ResizesAsStation(d)
       PROVE  StackInv' /\ Step
  <2>1. StackInv' /\ t = s
    BY <1>3, <1>4, <1>12 DEF ResizesAsStation
  <2>2. Arbiter!StationResizes(d)
    BY <1>5, <1>6, <1>12, <2>1 DEF ResizesAsStation, Arbiter!StationResizes
  <2> QED
    BY <2>1, <2>2 DEF Arbiter!Next
<1> QED
  BY <1>7, <1>8, <1>9, <1>10, <1>11, <1>12, NextIsSizeStep DEF SizeStep

\* Terminal Size Ownership is implemented: the owner and the grid change only as
\* SizeArbiter says.
THEOREM ArbiterImplemented == Spec => ImplementsSizeArbiter
<1>1. Init => StackInv /\ Arbiter!Init
  <2> SUFFICES ASSUME Init PROVE StackInv /\ Arbiter!Init
    OBVIOUS
  <2>1. sizeClaimants = [v \in Viewer |-> 0] /\ current = InitialDims /\ station = InitialDims
    BY DEF Init
  <2>2. IsStack(<<>>, sizeClaimants)
    BY <2>1, StackEmpty
  <2>3. StackOf(sizeClaimants) = <<>>
    BY <2>1, <2>2, StackIs
  <2> QED
    BY <2>1, <2>2, <2>3 DEF StackInv, Arbiter!Init
<1>2. IndInv /\ StackInv /\ [Next]_vars => StackInv' /\ [Arbiter!Next]_(Arbiter!vars)
  BY StackSteps
<1> QED
  BY <1>1, <1>2, InductiveInvariant, PTL DEF Spec, ImplementsSizeArbiter, Arbiter!Spec

-----------------------------------------------------------------------------
(* The mouse guard                                                           *)

\* What the loop of trackOutput holds between two marks: it has not found more
\* reports waiting than there were, and none after it has asked for a flush.
ScanInv(s, g) ==
  /\ s = [guard |-> s.guard, flush |-> s.flush, ignoreNextMobilyPrompt |-> s.ignoreNextMobilyPrompt]
  /\ s.flush \in BOOLEAN /\ s.ignoreNextMobilyPrompt \in BOOLEAN
  /\ GuardInv(s.guard)
  /\ s.guard.mouseInputPending => Dirty(g) /\ ~s.flush
  /\ s.flush => Dirty(g)

\* One turn of the loop of trackOutput keeps what holds between two marks.
LEMMA MarkKeepsScan ==
  ASSUME NEW s, NEW g, GuardInv(g), ScanInv(s, g), NEW mark \in Mark, NEW now \in Nat
  PROVE  ScanInv(ScanMark(s, mark, now), g)
<1> DEFINE h == s.guard
           cleared == ClearDeferredFlush(h)
<1>1. h \in Guard /\ GuardInv(h)
  BY DEF ScanInv, GuardInv
<1>2. /\ cleared \in Guard /\ cleared.reportingArmed = h.reportingArmed
      /\ cleared.mouseInputPending = h.mouseInputPending /\ cleared.suppressUntil = h.suppressUntil
      /\ ~cleared.flushOnNextOutput /\ ~cleared.deferredFlushHandle
  BY <1>1 DEF ClearDeferredFlush, Guard
<1>3. CASE mark = "prompt"
  <2>1. ScanMark(s, mark, now) = ScanPrompt(s, now)
    BY <1>3 DEF ScanMark
  <2>2. CASE s.ignoreNextMobilyPrompt
    <3>1. ScanPrompt(s, now) = [guard |-> h, flush |-> s.flush, ignoreNextMobilyPrompt |-> FALSE]
      BY <2>2 DEF ScanPrompt, ScanInv
    <3> QED BY <2>1, <3>1 DEF ScanInv
  <2>3. CASE ~s.ignoreNextMobilyPrompt /\ Dirty(h)
    <3> DEFINE f == Flushed(cleared, now)
    <3>1. ScanPrompt(s, now) = [guard |-> f, flush |-> TRUE, ignoreNextMobilyPrompt |-> s.ignoreNextMobilyPrompt]
      BY <2>3 DEF ScanPrompt, ScanInv
    <3>2. now + DEFAULT_SUPPRESSION_WINDOW_MS \in Nat
      BY DEF DEFAULT_SUPPRESSION_WINDOW_MS
    <3>3. /\ f \in Guard /\ f.reportingArmed = FALSE /\ f.mouseInputPending = FALSE
          /\ f.flushOnNextOutput = cleared.flushOnNextOutput /\ f.deferredFlushHandle = cleared.deferredFlushHandle
      <4> HIDE DEF cleared
      <4> QED BY <1>2, <3>2 DEF Flushed, Guard
    <3>4. GuardInv(f)
      BY <1>2, <3>3 DEF GuardInv
    <3>5. Dirty(g)
      BY <2>3 DEF ScanInv, Dirty
    <3> HIDE DEF f
    <3> QED BY <2>1, <3>1, <3>3, <3>4, <3>5 DEF ScanInv
  <2>4. CASE ~s.ignoreNextMobilyPrompt /\ ~Dirty(h)
    <3> DEFINE f == [cleared EXCEPT !.reportingArmed = FALSE, !.mouseInputPending = FALSE]
    <3>1. ScanPrompt(s, now) = [guard |-> f, flush |-> s.flush, ignoreNextMobilyPrompt |-> s.ignoreNextMobilyPrompt]
      BY <2>4 DEF ScanPrompt, ScanInv
    <3>3. /\ f \in Guard /\ f.reportingArmed = FALSE /\ f.mouseInputPending = FALSE
          /\ f.flushOnNextOutput = cleared.flushOnNextOutput /\ f.deferredFlushHandle = cleared.deferredFlushHandle
      <4> HIDE DEF cleared
      <4> QED BY <1>2 DEF Guard
    <3>4. GuardInv(f)
      BY <1>2, <3>3 DEF GuardInv
    <3> HIDE DEF f
    <3> QED BY <2>1, <3>1, <3>3, <3>4 DEF ScanInv
  <2> QED BY <2>2, <2>3, <2>4
<1>4. CASE mark = "enable"
  <2> DEFINE f == [cleared EXCEPT !.reportingArmed = TRUE, !.suppressUntil = 0]
  <2>1. ScanMark(s, mark, now) = [guard |-> f, flush |-> s.flush, ignoreNextMobilyPrompt |-> s.ignoreNextMobilyPrompt]
    BY <1>4 DEF ScanMark, ScanEnable, ScanInv
  <2>2. /\ f \in Guard /\ f.reportingArmed = TRUE /\ f.mouseInputPending = cleared.mouseInputPending
        /\ f.flushOnNextOutput = cleared.flushOnNextOutput /\ f.deferredFlushHandle = cleared.deferredFlushHandle
        /\ f.suppressUntil = 0
    <3> HIDE DEF cleared
    <3> QED BY <1>2 DEF Guard
  <2>3. GuardInv(f)
    BY <1>2, <2>2 DEF GuardInv
  <2> HIDE DEF f
  <2> QED BY <1>2, <2>1, <2>2, <2>3 DEF ScanInv
<1>5. CASE mark = "leave" /\ Dirty(h)
  <2> DEFINE f == [h EXCEPT !.flushOnNextOutput = TRUE, !.deferredFlushHandle = TRUE]
  <2>1. ScanMark(s, mark, now) = [guard |-> f, flush |-> s.flush, ignoreNextMobilyPrompt |-> TRUE]
    BY <1>5 DEF ScanMark, ScanLeave, ScanInv
  <2>2. /\ f \in Guard /\ f.reportingArmed = h.reportingArmed /\ f.mouseInputPending = h.mouseInputPending
        /\ f.flushOnNextOutput = TRUE /\ f.deferredFlushHandle = TRUE
        /\ f.suppressUntil = h.suppressUntil
    <3> HIDE DEF h
    <3> QED BY <1>1 DEF Guard
  <2>3. GuardInv(f)
    BY <1>1, <1>5, <2>2 DEF GuardInv, Dirty
  <2> HIDE DEF f
  <2> QED BY <2>1, <2>2, <2>3 DEF ScanInv
<1>6. CASE mark = "other" \/ (mark = "leave" /\ ~Dirty(h))
  <2>1. ScanMark(s, mark, now) = s
    BY <1>6 DEF ScanMark, ScanLeave
  <2> QED BY <2>1
<1> QED BY <1>3, <1>4, <1>5, <1>6 DEF Mark

\* The loop of trackOutput, mark by mark.
ScanOf(scan, g, stream, now, n) ==
  scan = [i \in 0..n |-> IF i = 0 THEN [guard |-> g, flush |-> FALSE, ignoreNextMobilyPrompt |-> FALSE]
                         ELSE ScanMark(scan[i - 1], stream[i], now)]

\* The recursive function of Scanned exists: there is no least output without one.
LEMMA ScanExists ==
  ASSUME NEW g, NEW stream, NEW now, NEW n \in Nat
  PROVE  \E scan : ScanOf(scan, g, stream, now, n)
<1> DEFINE Start == [guard |-> g, flush |-> FALSE, ignoreNextMobilyPrompt |-> FALSE]
           T == {k \in Nat : ~\E scan : ScanOf(scan, g, stream, now, k)}
<1>1. T = {}
  <2> SUFFICES ASSUME T # {}
               PROVE  FALSE
    OBVIOUS
  <2>1. PICK k \in T : \A y \in T : k <= y
    <3> HIDE DEF T
    <3>1. T \in SUBSET Nat
      BY DEF T
    <3> QED BY <3>1, NatLeast
  <2>2. k \in Nat /\ ~\E scan : ScanOf(scan, g, stream, now, k)
    BY <2>1
  <2>3. k # 0
    <3>1. CASE k = 0
      <4> DEFINE scan == [i \in 0..0 |-> Start]
      <4>1. \A i \in 0..0 : i = 0
        OBVIOUS
      <4>2. ScanOf(scan, g, stream, now, 0)
        BY <4>1 DEF ScanOf
      <4> QED BY <2>2, <3>1, <4>2
    <3> QED BY <3>1
  <2>4. k - 1 \in Nat /\ ~(k <= k - 1)
    BY <2>2, <2>3
  <2>5. k - 1 \notin T
    BY <2>1, <2>4
  <2>6. PICK old : ScanOf(old, g, stream, now, k - 1)
    BY <2>4, <2>5
  <2> HIDE DEF T, Start
  <2> DEFINE scan == [i \in 0..k |-> IF i \in 0..(k - 1) THEN old[i] ELSE ScanMark(old[k - 1], stream[k], now)]
  <2>7. /\ 0 \in 0..(k - 1) /\ k - 1 \in 0..(k - 1)
        /\ \A i \in 0..k : i \in 0..(k - 1) \/ (i = k /\ i \notin 0..(k - 1) /\ i # 0)
        /\ \A i \in 0..(k - 1) : i \in 0..k /\ (i # 0 => i - 1 \in 0..(k - 1))
    BY <2>2, <2>3
  <2>8. \A i \in 0..(k - 1) : scan[i] = old[i]
    BY <2>7
  <2>9. \A i \in 0..k : scan[i] = IF i = 0 THEN Start ELSE ScanMark(scan[i - 1], stream[i], now)
    <3>1. ASSUME NEW i \in 0..(k - 1)
          PROVE  scan[i] = IF i = 0 THEN Start ELSE ScanMark(scan[i - 1], stream[i], now)
      <4>1. old[i] = IF i = 0 THEN Start ELSE ScanMark(old[i - 1], stream[i], now)
        BY <2>6 DEF ScanOf, Start
      <4>2. i # 0 => scan[i - 1] = old[i - 1]
        BY <2>7, <2>8
      <4> HIDE DEF scan
      <4> QED BY <2>8, <4>1, <4>2
    <3>2. scan[k] = ScanMark(scan[k - 1], stream[k], now) /\ k # 0
      <4>1. k \in 0..k /\ k \notin 0..(k - 1)
        BY <2>2
      <4>2. scan[k] = ScanMark(old[k - 1], stream[k], now)
        BY <4>1
      <4>3. scan[k - 1] = old[k - 1]
        BY <2>7, <2>8
      <4> HIDE DEF scan
      <4> QED BY <2>3, <4>2, <4>3
    <3> HIDE DEF scan
    <3> QED BY <2>7, <3>1, <3>2
  <2>10. DOMAIN scan = 0..k /\ scan = [i \in 0..k |-> scan[i]]
    OBVIOUS
  <2> HIDE DEF scan
  <2>11. ScanOf(scan, g, stream, now, k)
    BY <2>9, <2>10 DEF ScanOf, Start
  <2> QED BY <2>2, <2>11
<1> QED BY <1>1

\* The whole loop of trackOutput: there is no first mark that breaks it.
LEMMA ScannedKeeps ==
  ASSUME NEW g, GuardInv(g), NEW stream \in Seq(Mark), NEW now \in Nat
  PROVE  ScanInv(Scanned(g, stream, now), g)
<1> DEFINE n == Len(stream)
           scan == CHOOSE scan : ScanOf(scan, g, stream, now, n)
           T == {k \in 0..n : ~ScanInv(scan[k], g)}
<1>1. n \in Nat /\ \A i \in 1..n : stream[i] \in Mark
  OBVIOUS
<1>2. Scanned(g, stream, now) = scan[n]
  BY DEF Scanned, ScanOf
<1> HIDE DEF n
<1>3. ScanOf(scan, g, stream, now, n)
  BY <1>1, ScanExists
<1> HIDE DEF scan
<1>4. T = {}
  <2> SUFFICES ASSUME T # {}
               PROVE  FALSE
    OBVIOUS
  <2>1. PICK k \in T : \A y \in T : k <= y
    <3> HIDE DEF T
    <3>1. T \in SUBSET Nat
      BY <1>1 DEF T
    <3> QED BY <3>1, NatLeast
  <2>2. k \in 0..n /\ ~ScanInv(scan[k], g)
    BY <2>1
  <2>3. CASE k = 0
    <3>1. scan[k] = [guard |-> g, flush |-> FALSE, ignoreNextMobilyPrompt |-> FALSE]
      BY <1>3, <2>2, <2>3 DEF ScanOf
    <3>2. g.mouseInputPending => Dirty(g)
      BY DEF GuardInv, Dirty
    <3>3. ScanInv(scan[k], g)
      BY <3>1, <3>2 DEF ScanInv
    <3> QED BY <2>2, <3>3
  <2>4. CASE k # 0
    <3>1. k - 1 \in 0..n /\ ~(k <= k - 1) /\ k \in 1..n
      BY <1>1, <2>2, <2>4
    <3>2. ScanInv(scan[k - 1], g)
      BY <2>1, <3>1
    <3>3. scan[k] = ScanMark(scan[k - 1], stream[k], now)
      BY <1>3, <2>2, <2>4 DEF ScanOf
    <3>4. stream[k] \in Mark
      BY <1>1, <3>1
    <3>5. ScanInv(scan[k], g)
      BY <3>2, <3>3, <3>4, MarkKeepsScan
    <3> QED BY <2>2, <3>5
  <2> QED BY <2>3, <2>4
<1>5. n \in 0..n
  BY <1>1
<1> QED BY <1>2, <1>4, <1>5

\* A deferred flush that is consumed interrupts the shell, and forgets the reports.
LEMMA ConsumeKeeps ==
  ASSUME NEW g \in Guard, NEW now \in Nat, Dirty(g)
  PROVE  LET consumed == ConsumeDeferredFlush(g, now)
         IN  GuardInv(consumed.guard) /\ consumed.flush = TRUE /\ ~consumed.guard.mouseInputPending
<1> DEFINE cleared == ClearDeferredFlush(g)
           f == Flushed(cleared, now)
<1>1. /\ cleared \in Guard /\ cleared.reportingArmed = g.reportingArmed
      /\ cleared.mouseInputPending = g.mouseInputPending
      /\ ~cleared.flushOnNextOutput /\ ~cleared.deferredFlushHandle
  BY DEF ClearDeferredFlush, Guard
<1>2. ConsumeDeferredFlush(g, now) = [guard |-> f, flush |-> TRUE]
  BY <1>1 DEF ConsumeDeferredFlush, Dirty
<1>3. now + DEFAULT_SUPPRESSION_WINDOW_MS \in Nat
  BY DEF DEFAULT_SUPPRESSION_WINDOW_MS
<1>4. /\ f \in Guard /\ f.reportingArmed = FALSE /\ f.mouseInputPending = FALSE
      /\ f.flushOnNextOutput = cleared.flushOnNextOutput /\ f.deferredFlushHandle = cleared.deferredFlushHandle
  <2> HIDE DEF cleared
  <2> QED BY <1>1, <1>3 DEF Flushed, Guard
<1>5. GuardInv(f)
  BY <1>1, <1>4 DEF GuardInv
<1> HIDE DEF f
<1> QED BY <1>2, <1>4, <1>5

\* A read keeps the guard as it should be; it asks for a flush only when reports
\* may be waiting, and forgets them.
LEMMA ReadKeeps ==
  ASSUME NEW g, GuardInv(g), NEW chunk \in OutputChunk, NEW now \in Nat
  PROVE  LET read == TrackOutput(g, chunk, now)
         IN  GuardInv(read.guard) /\ (read.flush => Dirty(g) /\ ~read.guard.mouseInputPending)
<1> DEFINE stream == g.carry \o chunk.marks
           end == Scanned(g, stream, now)
           carry == Carried(stream, chunk.tail)
           h == [end.guard EXCEPT !.carry = carry]
<1>1. g \in Guard
  BY DEF GuardInv
<1>2. CASE g.flushOnNextOutput /\ Dirty(g)
  <2>1. TrackOutput(g, chunk, now) = ConsumeDeferredFlush(g, now)
    BY <1>2 DEF TrackOutput
  <2> QED BY <1>1, <1>2, <2>1, ConsumeKeeps
<1>3. CASE ~(g.flushOnNextOutput /\ Dirty(g)) /\ chunk.empty
  <2>1. TrackOutput(g, chunk, now) = [guard |-> g, flush |-> FALSE]
    BY <1>3 DEF TrackOutput
  <2> QED BY <2>1
<1>4. CASE ~(g.flushOnNextOutput /\ Dirty(g)) /\ ~chunk.empty
  <2>1. TrackOutput(g, chunk, now) = [guard |-> h, flush |-> end.flush]
    BY <1>4 DEF TrackOutput
  <2>2. stream \in Seq(Mark)
    <3>1. g.carry \in Seq(Mark) /\ chunk.marks \in Seq(Mark)
      BY <1>1 DEF Guard, OutputChunk
    <3> QED BY <3>1
  <2>3. carry \in Seq(Mark)
    <3> HIDE DEF stream
    <3>1. \A i \in 1..Len(stream) : stream[i] \in Mark
      BY <2>2
    <3>2. Len(stream) # 0 => stream[Len(stream)] \in Mark
      BY <2>2, <3>1
    <3>3. <<>> \in Seq(Mark) /\ \A m \in Mark : <<m>> \in Seq(Mark)
      OBVIOUS
    <3> QED BY <3>2, <3>3 DEF Carried
  <2>4. ScanInv(end, g)
    <3> HIDE DEF stream
    <3> QED BY <2>2, ScannedKeeps
  <2> HIDE DEF end, carry, stream
  <2>5. end.guard \in Guard /\ GuardInv(end.guard) /\ (end.flush => Dirty(g) /\ ~end.guard.mouseInputPending)
    BY <2>4 DEF ScanInv, GuardInv
  <2>6. /\ h \in Guard /\ h.reportingArmed = end.guard.reportingArmed
        /\ h.mouseInputPending = end.guard.mouseInputPending /\ h.suppressUntil = end.guard.suppressUntil
        /\ h.flushOnNextOutput = end.guard.flushOnNextOutput
        /\ h.deferredFlushHandle = end.guard.deferredFlushHandle
    BY <2>3, <2>5 DEF Guard
  <2> HIDE DEF h
  <2>7. GuardInv(h)
    BY <2>5, <2>6 DEF GuardInv, Dirty
  <2> QED BY <2>1, <2>5, <2>6, <2>7
<1> QED BY <1>2, <1>3, <1>4

\* Whatever the output and however it is cut into reads, the shell is interrupted
\* only at a read that finds mouse reports which may be waiting, and forgets them:
\* no later read interrupts for the same reports (trackOutput).  The read itself
\* may interrupt twice, when the shell has echoed reports (acceptBackendOutput).
THEOREM InterruptsAreDue ==
  ASSUME NEW g, GuardInv(g), NEW chunk \in OutputChunk, NEW now \in Nat,
         Interrupts(g, chunk, now) # 0
  PROVE  LET after == TrackOutput(g, chunk, now).guard
         IN  /\ Dirty(g) /\ ~Dirty(after) /\ GuardInv(after)
             /\ Interrupts(g, chunk, now) = 2 <=> chunk.echo
             /\ Interrupts(g, chunk, now) \in {1, 2}
             /\ \A next \in OutputChunk, later \in Nat : Interrupts(after, next, later) = 0
<1> DEFINE after == TrackOutput(g, chunk, now).guard
<1>1. TrackOutput(g, chunk, now).flush
  BY DEF Interrupts
<1>2. GuardInv(after) /\ Dirty(g) /\ ~after.mouseInputPending
  BY <1>1, ReadKeeps
<1>3. Interrupts(g, chunk, now) = IF chunk.echo THEN 2 ELSE 1
  BY <1>1 DEF Interrupts
<1> HIDE DEF after
<1>4. ~Dirty(after)
  BY <1>2 DEF Dirty
<1>5. ASSUME NEW next \in OutputChunk, NEW later \in Nat
      PROVE  Interrupts(after, next, later) = 0
  <2>1. ~TrackOutput(after, next, later).flush
    BY <1>2, <1>4, ReadKeeps
  <2> QED BY <2>1 DEF Interrupts
<1> QED BY <1>2, <1>3, <1>4, <1>5 DEF after

\* The timer, the input of the viewers and the end keep the guard as it should
\* be; the timer interrupts the shell only for reports that may be waiting, and
\* nothing but a mouse report without an owner is dropped (armDeferredFlushTimer,
\* trackInput, dispose).
THEOREM GuardKept ==
  ASSUME NEW g, GuardInv(g), NEW now \in Nat
  PROVE  /\ GuardInv(NewGuard) /\ GuardInv(DisposeGuard(g))
         /\ g.deferredFlushHandle =>
              LET fired == DeferredFlushFires(g, now)
              IN  GuardInv(fired.guard) /\ (fired.flush => Dirty(g) /\ ~fired.guard.mouseInputPending)
         /\ \A isMouse \in BOOLEAN :
              LET input == TrackInput(g, isMouse, now)
              IN  GuardInv(input.guard) /\ (~input.forward => isMouse /\ ~g.reportingArmed /\ now < g.suppressUntil)
<1>1. g \in Guard
  BY DEF GuardInv
<1>2. GuardInv(NewGuard)
  <2>1. <<>> \in Seq(Mark) /\ 0 \in Nat
    OBVIOUS
  <2>2. NewGuard \in Guard
    BY <2>1 DEF NewGuard, Guard
  <2> QED BY <2>2 DEF NewGuard, GuardInv
<1>3. GuardInv(DisposeGuard(g))
  <2> DEFINE h == DisposeGuard(g)
  <2>1. /\ h \in Guard /\ h.reportingArmed = g.reportingArmed
        /\ h.mouseInputPending = g.mouseInputPending /\ h.suppressUntil = g.suppressUntil
        /\ ~h.flushOnNextOutput /\ ~h.deferredFlushHandle
    BY <1>1 DEF DisposeGuard, ClearDeferredFlush, Guard
  <2> HIDE DEF h
  <2>2. GuardInv(h)
    BY <2>1 DEF GuardInv
  <2> QED BY <2>2 DEF h
<1>4. ASSUME g.deferredFlushHandle
      PROVE  LET fired == DeferredFlushFires(g, now)
             IN  GuardInv(fired.guard) /\ (fired.flush => Dirty(g) /\ ~fired.guard.mouseInputPending)
  <2> DEFINE h == [g EXCEPT !.deferredFlushHandle = FALSE]
             consumed == ConsumeDeferredFlush(h, now)
  <2>1. g.flushOnNextOutput /\ Dirty(g)
    BY <1>4 DEF GuardInv
  <2>2. h \in Guard /\ h.reportingArmed = g.reportingArmed /\ h.mouseInputPending = g.mouseInputPending
    BY <1>1 DEF Guard
  <2>3. DeferredFlushFires(g, now) = [guard |-> consumed.guard, flush |-> consumed.flush /\ g.deferredFlushHandler]
    BY <2>1 DEF DeferredFlushFires
  <2> HIDE DEF h
  <2>4. Dirty(h)
    BY <2>1, <2>2 DEF Dirty
  <2>5. GuardInv(consumed.guard) /\ ~consumed.guard.mouseInputPending
    BY <2>2, <2>4, ConsumeKeeps
  <2> HIDE DEF consumed
  <2> QED BY <2>1, <2>3, <2>5
<1>5. ASSUME NEW isMouse \in BOOLEAN
      PROVE  LET input == TrackInput(g, isMouse, now)
             IN  GuardInv(input.guard) /\ (~input.forward => isMouse /\ ~g.reportingArmed /\ now < g.suppressUntil)
  <2>1. CASE ~isMouse
    <3>1. TrackInput(g, isMouse, now) = [guard |-> g, forward |-> TRUE]
      BY <2>1 DEF TrackInput
    <3> QED BY <3>1
  <2>2. CASE isMouse /\ g.reportingArmed
    <3> DEFINE h == [g EXCEPT !.mouseInputPending = TRUE]
    <3>1. TrackInput(g, isMouse, now) = [guard |-> h, forward |-> TRUE]
      BY <2>2 DEF TrackInput
    <3>2. /\ h \in Guard /\ h.reportingArmed = g.reportingArmed /\ h.mouseInputPending = TRUE
          /\ h.suppressUntil = g.suppressUntil /\ h.flushOnNextOutput = g.flushOnNextOutput
          /\ h.deferredFlushHandle = g.deferredFlushHandle
      BY <1>1 DEF Guard
    <3> HIDE DEF h
    <3>3. GuardInv(h)
      BY <2>2, <3>2 DEF GuardInv, Dirty
    <3> QED BY <3>1, <3>3
  <2>3. CASE isMouse /\ ~g.reportingArmed
    <3>1. g.suppressUntil \in Nat
      BY <1>1 DEF Guard
    <3>2. TrackInput(g, isMouse, now).guard = g
      BY <2>3 DEF TrackInput
    <3>3. CASE now >= g.suppressUntil
      <4>1. TrackInput(g, isMouse, now) = [guard |-> g, forward |-> TRUE]
        BY <2>3, <3>3 DEF TrackInput
      <4> QED BY <4>1
    <3>4. CASE ~(now >= g.suppressUntil)
      <4>1. now < g.suppressUntil
        BY <3>1, <3>4
      <4> QED BY <2>3, <3>2, <4>1
    <3> QED BY <3>3, <3>4
  <2> QED BY <2>1, <2>2, <2>3
<1> QED BY <1>2, <1>3, <1>4, <1>5
=============================================================================
