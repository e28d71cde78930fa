--------------------------- MODULE GitDesk_proofs ---------------------------
(***************************************************************************)
(* Theorems about GitDesk, for any number of connections and of calls, any    *)
(* limit of a viewer's requests, any diff and any size of its pages.          *)
(***************************************************************************)
EXTENDS GitDesk, FiniteSetTheorems, SequenceTheorems, TLAPS

USE ScreenAssumption, DeskAssumption DEF Conns, Call

-----------------------------------------------------------------------------
(* Type correctness                                                          *)

CallsOK ==
  /\ conn \in 0..MaxConns /\ opened \in Conns
  /\ call \in [Call -> CallRecord]
  /\ up \in [Conns -> Seq(Call)]
DownOK == down \in Seq(FrameRecord)
GitOK == git \in [busy : BOOLEAN, follow : BOOLEAN]
DiffOK == diff \in DiffRecord
DeskOK ==
  /\ attached \subseteq Conns /\ active \in [Conns -> SUBSET Call]
  /\ job \in [Call -> JobRecord]
  /\ tail \in Seq(Call) /\ repo \in Nat

\* Only the mutation at the head of the tail is under way, and what it changed
\* is still the last change.
MutationInv ==
  /\ \A c \in Call : JobAt(c, "running") \/ JobAt(c, "changed") => tail # <<>> /\ c = Head(tail)
  /\ AnswerIsOwnOutcome

LEMMA TypeSplit == TypeOK <=> CallsOK /\ DownOK /\ GitOK /\ DiffOK /\ DeskOK
BY DEF TypeOK, ScreensTypeOK, CallsOK, DownOK, GitOK, DiffOK, DeskOK

LEMMA TypeSplitNext == TypeOK' <=> CallsOK' /\ DownOK' /\ GitOK' /\ DiffOK' /\ DeskOK'
BY DEF TypeOK, ScreensTypeOK, CallsOK, DownOK, GitOK, DiffOK, DeskOK

LEMMA AskType ==
  ASSUME CallsOK, NEW c \in Call, NEW method \in Method, NEW cursor \in Nat, Ask(c, method, cursor)
  PROVE  CallsOK' /\ down' = down
<1>1. conn \in Conns
  BY DEF Ask, CallsOK
<1>2. [at |-> "pending", method |-> method, on |-> conn, cursor |-> cursor] \in CallRecord
  BY <1>1 DEF CallRecord
<1>3. call' \in [Call -> CallRecord]
  BY <1>2 DEF Ask, CallsOK
<1>4. up' \in [Conns -> Seq(Call)]
  BY <1>1, AppendProperties DEF Ask, CallsOK
<1> QED BY <1>3, <1>4 DEF Ask, CallsOK

\* The end of a call, as the screens see it.
LEMMA SettleType ==
  ASSUME CallsOK, GitOK, DiffOK, NEW c \in Call, NEW outcome, IsResult(outcome) => outcome.value \in Nat,
         Settle(c, outcome)
  PROVE  call' \in [Call -> CallRecord] /\ GitOK' /\ DiffOK'
<1>1. call' \in [Call -> CallRecord]
  BY DEF Settle, CallsOK, CallRecord
<1>2. GitOK'
  BY Zenon DEF Settle, GitAfter, GitOK
<1>3. DiffOK'
  <2>1. diff.raw \o diff.page \in Seq(Nat)
    BY DEF DiffOK, DiffRecord
  <2>2. DiffAfter(diff, c, outcome) \in DiffRecord
    <3> USE DEF DiffOK, DiffRecord
    <3>1. CASE diff.load # c
      BY <3>1 DEF DiffAfter
    <3>2. CASE diff.load = c /\ ~IsResult(outcome)
      BY <3>2 DEF DiffAfter
    <3>3. CASE diff.load = c /\ IsResult(outcome)
      <4> DEFINE raw == diff.raw \o diff.page
      <4> HIDE DEF raw
      <4>1. DiffAfter(diff, c, outcome)
              = [diff EXCEPT !.load = None, !.raw = raw, !.page = <<>>, !.next = outcome.value]
        BY <3>3 DEF DiffAfter, raw
      <4>2. raw \in Seq(Nat) /\ <<>> \in Seq(Nat) /\ outcome.value \in Nat
        BY <2>1, <3>3 DEF raw
      <4> QED BY <4>1, <4>2
    <3> QED BY <3>1, <3>2, <3>3
  <2> QED BY <2>2 DEF Settle, DiffOK
<1> QED BY <1>1, <1>2, <1>3

\* The next frame to the phone.
LEMMA HeadOfDown ==
  ASSUME DownOK, down # <<>>
  PROVE  Head(down) \in FrameRecord /\ Tail(down) \in Seq(FrameRecord)
BY DEF DownOK

LEMMA HandleFrameType ==
  ASSUME CallsOK, DownOK, GitOK, DiffOK, HandleFrame
  PROVE  CallsOK' /\ DownOK' /\ GitOK' /\ DiffOK'
<1> DEFINE frame == Head(down)
<1>1. frame \in FrameRecord /\ DownOK'
  BY HeadOfDown DEF HandleFrame, DownOK
<1>2. UNCHANGED <<conn, opened, up>>
  BY DEF HandleFrame
<1>3. CASE UNCHANGED <<call, git, diff>>
  BY <1>1, <1>2, <1>3 DEF CallsOK, GitOK, DiffOK
<1>4. CASE Settle(frame.id, frame)
  BY <1>1, <1>2, <1>4, SettleType DEF FrameRecord, CallsOK
<1>5. CASE diff' = [diff EXCEPT !.page = PageWith(frame)] /\ UNCHANGED <<call, git>>
  <2>1. PageWith(frame) \in Seq(Nat)
    BY <1>1, AppendProperties DEF PageWith, FrameRecord, DiffOK, DiffRecord
  <2>2. DiffOK'
    BY <1>5, <2>1 DEF DiffOK, DiffRecord
  <2> QED BY <1>1, <1>2, <1>5, <2>2 DEF CallsOK, GitOK
<1> QED BY <1>3, <1>4, <1>5 DEF HandleFrame

LEMMA PhoneType ==
  ASSUME CallsOK, DownOK, GitOK, DiffOK, Phone
  PROVE  CallsOK' /\ DownOK' /\ GitOK' /\ DiffOK'
<1>1. CASE HandleFrame
  BY <1>1, HandleFrameType
<1>2. ASSUME NEW c \in Call, TimerFires(c)
      PROVE  CallsOK' /\ DownOK' /\ GitOK' /\ DiffOK'
  BY <1>2, SettleType DEF TimerFires, IsResult, Rejection, CallsOK, DownOK
<1>3. CASE Lost
  <2>1. call' \in [Call -> CallRecord]
    BY <1>3 DEF Lost, CallsOK, CallRecord
  <2>2. CallsOK' /\ DownOK'
    BY <1>3, <2>1 DEF Lost, CallsOK, DownOK
  <2>3. GitOK'
    BY <1>3, Zenon DEF Lost, GitOK
  <2>4. DiffOK'
    BY <1>3 DEF Lost, DiffOK, DiffRecord
  <2> QED BY <2>2, <2>3, <2>4
<1>4. CASE Reconnected
  <2>1. CallsOK' /\ DownOK' /\ GitOK'
    BY <1>4 DEF Reconnected, CallsOK, DownOK, GitOK
  <2>2. DiffOK'
    BY <1>4, Zenon DEF Reconnected, DiffOK, DiffRecord
  <2> QED BY <2>1, <2>2
<1>5. CASE OpenDiff \/ CloseDiff
  <2>1. NoDiff \in DiffRecord
    BY DEF NoDiff, DiffRecord
  <2> QED BY <1>5, <2>1 DEF OpenDiff, CloseDiff, CallsOK, DownOK, GitOK, DiffOK, DiffRecord
<1>6. ASSUME NEW c \in Call, Refresh(c)
      PROVE  CallsOK' /\ DownOK' /\ GitOK' /\ DiffOK'
  BY <1>6, AskType DEF Refresh, Method, DownOK, GitOK, DiffOK
<1>7. ASSUME NEW c \in Call, NEW method \in {"stage", "commit"}, Mutate(c, method)
      PROVE  CallsOK' /\ DownOK' /\ GitOK' /\ DiffOK'
  <2>1. CallsOK' /\ down' = down
    BY <1>7, AskType DEF Mutate, Method, Operation
  <2> QED BY <1>7, <2>1 DEF Mutate, DownOK, GitOK, DiffOK
<1>8. ASSUME NEW c \in Call, FollowUp(c)
      PROVE  CallsOK' /\ DownOK' /\ GitOK' /\ DiffOK'
  <2>1. CallsOK' /\ down' = down
    BY <1>8, AskType DEF FollowUp, Method, Operation, CallsOK
  <2>2. GitOK'
    BY <1>8, Zenon DEF FollowUp, GitOK
  <2> QED BY <1>8, <2>1, <2>2 DEF FollowUp, DownOK, DiffOK
<1>9. ASSUME NEW c \in Call, StartOver(c)
      PROVE  CallsOK' /\ DownOK' /\ GitOK' /\ DiffOK'
  <2>1. CallsOK' /\ down' = down
    BY <1>9, AskType DEF StartOver, Method, Operation, CallsOK
  <2>2. DiffOK'
    <3> DEFINE again == diff.again \/ diff.raw # <<>>
    <3>1. \/ diff' = [diff EXCEPT !.due = FALSE]
          \/ diff' = [diff EXCEPT !.due = FALSE, !.load = c, !.page = <<>>, !.again = again]
      BY <1>9 DEF StartOver
    <3>2. <<>> \in Seq(Nat) /\ c \in Call \cup {None}
      OBVIOUS
    <3>3. again \in BOOLEAN /\ FALSE \in BOOLEAN
      OBVIOUS
    <3> HIDE DEF Call, again
    <3> QED BY <3>1, <3>2, <3>3 DEF DiffOK, DiffRecord
  <2> QED BY <1>9, <2>1, <2>2 DEF StartOver, DownOK, GitOK
<1>10. ASSUME NEW c \in Call, NextPage(c)
       PROVE  CallsOK' /\ DownOK' /\ GitOK' /\ DiffOK'
  <2>1. CallsOK' /\ down' = down
    BY <1>10, AskType DEF NextPage, Method, Operation, DiffOK, DiffRecord
  <2>2. DiffOK'
    <3>1. <<>> \in Seq(Nat) /\ c \in Call \cup {None}
      OBVIOUS
    <3>2. diff' = [diff EXCEPT !.load = c, !.page = <<>>]
      BY <1>10 DEF NextPage
    <3> HIDE DEF Call
    <3> QED BY <3>1, <3>2 DEF DiffOK, DiffRecord
  <2> QED BY <1>10, <2>1, <2>2 DEF NextPage, DownOK, GitOK
<1> QED BY <1>1, <1>2, <1>3, <1>4, <1>5, <1>6, <1>7, <1>8, <1>9, <1>10
        DEF Phone, Load, RetryDiff

\* What the Station does with a call.
LEMMA SendType ==
  ASSUME DownOK, NEW c \in Call, NEW kind \in {"chunk", "result", "error"}, NEW value \in Nat,
         Send(c, kind, value)
  PROVE  DownOK'
<1>1. Frame(c, kind, value) \in FrameRecord
  BY DEF Frame, FrameRecord
<1> QED BY <1>1, AppendProperties DEF Send, DownOK

LEMMA FinishedType ==
  ASSUME CallsOK, DeskOK, NEW c \in Call, Finished(c)
  PROVE  active' \in [Conns -> SUBSET Call] /\ job' \in [Call -> JobRecord]
<1>1. NoJob \in JobRecord
  BY DEF NoJob, JobRecord
<1> QED BY <1>1 DEF Finished, DeskOK

LEMMA DeskType ==
  ASSUME CallsOK, DownOK, DeskOK, MutationInv, NEW c \in Call, Desk(c)
  PROVE  DownOK' /\ DeskOK'
<1> USE DEF JobRecord
<1>0. job[c] \in JobRecord /\ job[c].value \in Nat
  BY DEF DeskOK
<1>1. CASE AnswerRead(c)
  <2>1. DownOK'
    BY <1>1, SendType DEF AnswerRead, Listed
  <2> QED BY <1>1, <2>1, FinishedType DEF AnswerRead, DeskOK, deskOnly
<1>2. CASE RunMutation(c)
  <2>0. tail # <<>> /\ UNCHANGED <<deskOnly, down, repo>>
    BY <1>2 DEF RunMutation
  <2>1. tail \in Seq(Call) /\ Tail(tail) \in Seq(Call)
    BY <2>0 DEF DeskOK
  <2>2. CASE Aborted(c)
    <3>1. Finished(c) /\ tail' = Tail(tail)
      BY <1>2, <2>2 DEF RunMutation
    <3> QED BY <2>0, <2>1, <3>1, FinishedType DEF DownOK, DeskOK, deskOnly
  <2>3. CASE ~Aborted(c)
    <3>1. job' = [job EXCEPT ![c].at = "running"] /\ UNCHANGED <<active, tail>>
      BY <1>2, <2>3 DEF RunMutation
    <3> QED BY <2>0, <3>1 DEF DownOK, DeskOK, deskOnly
  <2> QED BY <2>2, <2>3
<1>3. CASE ChangeRepo(c)
  BY <1>3 DEF ChangeRepo, DownOK, DeskOK, deskOnly
<1>4. CASE MutationFails(c) \/ AnswerMutation(c)
  <2>1. DownOK'
    BY <1>4, SendType DEF MutationFails, AnswerMutation, Listed
  <2>2. tail' = Tail(tail) /\ tail # <<>> /\ tail \in Seq(Call)
    BY <1>4 DEF MutationFails, AnswerMutation, DeskOK, MutationInv
  <2>3. tail' \in Seq(Call)
    BY <2>2
  <2>4. Finished(c) /\ UNCHANGED <<deskOnly, repo>>
    BY <1>4 DEF MutationFails, AnswerMutation
  <2>5. active' \in [Conns -> SUBSET Call] /\ job' \in [Call -> JobRecord]
    BY <2>4, FinishedType
  <2>6. attached' = attached /\ repo' = repo
    BY <2>4 DEF deskOnly
  <2> QED BY <2>1, <2>3, <2>5, <2>6 DEF DeskOK
<1>5. CASE StreamLine(c)
  <2>1. DownOK'
    BY <1>0, <1>5, SendType DEF StreamLine
  <2>2. job' = [job EXCEPT ![c].value = job[c].value + 1] /\ UNCHANGED <<attached, active, tail, repo>>
    BY <1>5 DEF StreamLine, deskOnly
  <2>3. job' \in [Call -> JobRecord]
    <3>1. [job[c] EXCEPT !.value = job[c].value + 1] \in JobRecord
      BY <1>0
    <3>2. job' = [job EXCEPT ![c] = [job[c] EXCEPT !.value = job[c].value + 1]]
      BY <2>2
    <3> HIDE DEF JobRecord
    <3> QED BY <3>1, <3>2 DEF DeskOK
  <2> QED BY <2>1, <2>2, <2>3 DEF DeskOK
<1>6. CASE StreamEnds(c) \/ StreamFails(c)
  <2>1. NextCursor(job[c].value) \in Nat
    BY <1>0 DEF NextCursor
  <2>2. DownOK'
    BY <1>6, <2>1, SendType DEF StreamEnds, StreamFails
  <2> QED BY <1>6, <2>2, FinishedType DEF StreamEnds, StreamFails, DeskOK, deskOnly
<1> QED BY <1>1, <1>2, <1>3, <1>4, <1>5, <1>6 DEF Desk

LEMMA OnRpcType ==
  ASSUME CallsOK, DownOK, DeskOK, NEW n \in Conns, OnRpc(n)
  PROVE  CallsOK' /\ DownOK' /\ DeskOK'
<1> DEFINE c == Head(up[n])
<1>1. c \in Call /\ up' \in [Conns -> Seq(Call)]
  BY DEF OnRpc, CallsOK
<1>2. CallsOK'
  BY <1>1 DEF OnRpc, CallsOK
<1>3. DownOK'
  BY <1>1, SendType DEF OnRpc, DownOK
<1>4. [at |-> Place(c), value |-> call[c].cursor] \in JobRecord
  BY <1>1 DEF CallsOK, CallRecord, JobRecord, Place
<1>5. DeskOK'
  <2>1. Joined(c) \in Seq(Call)
    BY <1>1, AppendProperties DEF DeskOK, Joined
  <2> DEFINE begun == [at |-> Place(c), value |-> call[c].cursor]
  <2>2. \/ UNCHANGED <<active, tail, job>>
        \/ /\ active' = [active EXCEPT ![n] = @ \cup {c}]
           /\ job' = [job EXCEPT ![c] = begun]
           /\ tail' = Joined(c)
    BY DEF OnRpc
  <2>3. UNCHANGED <<attached, repo>>
    BY DEF OnRpc
  <2>4. begun \in JobRecord
    BY <1>4
  <2> HIDE DEF begun, c
  <2>5. active' \in [Conns -> SUBSET Call]
    <3> HIDE DEF Conns, Call
    <3>1. active \in [Conns -> SUBSET Call] /\ active[n] \cup {c} \in SUBSET Call
      BY <1>1 DEF DeskOK
    <3> QED BY <2>2, <3>1
  <2>6. job' \in [Call -> JobRecord]
    BY <1>1, <2>2, <2>4 DEF DeskOK
  <2>7. tail' \in Seq(Call)
    BY <2>1, <2>2 DEF DeskOK
  <2> QED BY <2>3, <2>5, <2>6, <2>7 DEF DeskOK
<1> QED BY <1>2, <1>3, <1>5

LEMMA TypeStep == TypeOK /\ MutationInv /\ [Next]_vars => TypeOK'
<1> SUFFICES ASSUME CallsOK, DownOK, GitOK, DiffOK, DeskOK, MutationInv, [Next]_vars
             PROVE  CallsOK' /\ DownOK' /\ GitOK' /\ DiffOK' /\ DeskOK'
  BY TypeSplit, TypeSplitNext
<1>1. CASE Phone /\ attached' = attached \cup ({conn'} \ {0}) /\ UNCHANGED <<active, tail, job, repo>>
  <2>1. CallsOK' /\ DownOK' /\ GitOK' /\ DiffOK'
    BY <1>1, PhoneType
  <2>2. {conn'} \ {0} \subseteq Conns
    BY <2>1 DEF CallsOK
  <2> QED BY <1>1, <2>1, <2>2 DEF DeskOK
<1>2. ASSUME NEW n \in Conns, OnRpc(n)
      PROVE  CallsOK' /\ DownOK' /\ GitOK' /\ DiffOK' /\ DeskOK'
  BY <1>2, OnRpcType DEF OnRpc, GitOK, DiffOK
<1>3. ASSUME NEW n \in Conns, Detach(n)
      PROVE  CallsOK' /\ DownOK' /\ GitOK' /\ DiffOK' /\ DeskOK'
  BY <1>3 DEF Detach, phoneVars, CallsOK, DownOK, GitOK, DiffOK, DeskOK
<1>4. ASSUME NEW c \in Call, Desk(c)
      PROVE  CallsOK' /\ DownOK' /\ GitOK' /\ DiffOK' /\ DeskOK'
  <2>1. UNCHANGED <<conn, opened, call, up, git, diff>>
    BY <1>4 DEF Desk, AnswerRead, RunMutation, ChangeRepo, MutationFails, AnswerMutation,
                StreamLine, StreamEnds, StreamFails, deskOnly
  <2> QED BY <1>4, <2>1, DeskType DEF CallsOK, GitOK, DiffOK
<1>5. CASE UNCHANGED vars
  BY <1>5 DEF vars, phoneVars, deskVars, CallsOK, DownOK, GitOK, DiffOK, DeskOK
<1> QED BY <1>1, <1>2, <1>3, <1>4, <1>5 DEF Next


-----------------------------------------------------------------------------
(* One mutation at a time                                                    *)

LEMMA MutationStep == TypeOK /\ MutationInv /\ [Next]_vars => MutationInv'
<1> SUFFICES ASSUME CallsOK, DeskOK, MutationInv, [Next]_vars
             PROVE  MutationInv'
  BY TypeSplit
<1> USE DEF MutationInv, AnswerIsOwnOutcome, JobAt
<1>1. CASE UNCHANGED <<tail, job, repo>>
  BY <1>1
<1>2. ASSUME NEW n \in Conns, OnRpc(n)
      PROVE  MutationInv'
  <2> DEFINE c == Head(up[n])
             begun == [at |-> Place(c), value |-> call[c].cursor]
  <2>1. c \in Call
    BY <1>2 DEF OnRpc, CallsOK
  <2>2. \/ UNCHANGED <<tail, job, repo>>
        \/ job' = [job EXCEPT ![c] = begun] /\ tail' = Joined(c) /\ repo' = repo
    BY <1>2 DEF OnRpc
  <2>3. begun.at \notin {"running", "changed"}
    BY DEF Place
  <2>4. tail # <<>> => Joined(c) # <<>> /\ Head(Joined(c)) = Head(tail)
    BY <2>1, AppendProperties, HeadTailProperties DEF Joined, DeskOK
  <2> HIDE DEF c, begun
  <2> QED BY <1>1, <2>1, <2>2, <2>3, <2>4 DEF DeskOK
<1>3. ASSUME NEW c \in Call, JobAt(c, "running") \/ JobAt(c, "changed"), Finished(c), repo' = repo
      PROVE  MutationInv'
  <2>1. \A d \in Call : d # c => ~JobAt(d, "running") /\ ~JobAt(d, "changed")
    BY <1>3
  <2>2. job'[c].at = "none" /\ \A d \in Call : d # c => job'[d] = job[d]
    BY <1>3 DEF Finished, NoJob, DeskOK
  <2> QED BY <2>1, <2>2
<1>4. ASSUME NEW c \in Call, Finished(c), UNCHANGED <<tail, repo>>
      PROVE  MutationInv'
  <2>1. \A d \in Call : job'[d] = job[d] \/ job'[d].at = "none"
    BY <1>4 DEF Finished, NoJob, DeskOK
  <2> QED BY <1>4, <2>1
<1>5. ASSUME NEW c \in Call, RunMutation(c)
      PROVE  MutationInv'
  <2>1. tail # <<>> /\ c = Head(tail) /\ JobAt(c, "queued") /\ repo' = repo
    BY <1>5 DEF RunMutation
  <2>2. \A d \in Call : ~JobAt(d, "running") /\ ~JobAt(d, "changed")
    BY <2>1
  <2>3. CASE Finished(c)
    <3>1. \A d \in Call : job'[d] = job[d] \/ job'[d].at = "none"
      BY <2>3 DEF Finished, NoJob, DeskOK
    <3> QED BY <2>2, <3>1
  <2>4. CASE job' = [job EXCEPT ![c].at = "running"] /\ tail' = tail
    <3>1. \A d \in Call : IF d = c THEN job'[d].at = "running" ELSE job'[d] = job[d]
      BY <2>4 DEF DeskOK, JobRecord
    <3> QED BY <2>1, <2>2, <2>4, <3>1
  <2> QED BY <1>5, <2>3, <2>4 DEF RunMutation
<1>6. ASSUME NEW c \in Call, ChangeRepo(c)
      PROVE  MutationInv'
  <2>1. tail # <<>> /\ c = Head(tail) /\ tail' = tail
    BY <1>6 DEF ChangeRepo
  <2>2. job'[c].value = repo' /\ \A d \in Call : d # c => job'[d] = job[d]
    BY <1>6 DEF ChangeRepo, DeskOK
  <2>3. \A d \in Call : d # c => ~JobAt(d, "running") /\ ~JobAt(d, "changed")
    BY <2>1
  <2> QED BY <2>1, <2>2, <2>3
<1>7. ASSUME NEW c \in Call, StreamLine(c)
      PROVE  MutationInv'
  <2>1. \A d \in Call : job'[d] = job[d] \/ job'[d].at = "streaming"
    BY <1>7 DEF StreamLine, DeskOK, JobRecord
  <2> QED BY <1>7, <2>1 DEF StreamLine
<1>8. ASSUME NEW c \in Call, Desk(c)
      PROVE  MutationInv'
  BY <1>3, <1>4, <1>5, <1>6, <1>7, <1>8
     DEF Desk, AnswerRead, MutationFails, AnswerMutation, StreamEnds, StreamFails
<1> QED BY <1>1, <1>2, <1>8 DEF Next, Detach, vars, deskVars

LEMMA TypeAndMutation == Spec => [](TypeOK /\ MutationInv)
<1>1. Init => TypeOK
  <2> SUFFICES ASSUME Init
               PROVE  CallsOK /\ DownOK /\ GitOK /\ DiffOK /\ DeskOK
    BY TypeSplit
  <2>1. CallsOK /\ DownOK
    BY DEF Init, PhoneInit, CallsOK, DownOK, Unused, CallRecord
  <2>2. GitOK /\ DiffOK
    BY DEF Init, PhoneInit, GitOK, DiffOK, NoGit, NoDiff, DiffRecord
  <2>3. DeskOK
    BY DEF Init, DeskInit, DeskOK, NoJob, JobRecord
  <2> QED BY <2>1, <2>2, <2>3
<1>2. Init => MutationInv
  BY DEF Init, DeskInit, MutationInv, AnswerIsOwnOutcome, JobAt, NoJob
<1> QED BY <1>1, <1>2, TypeStep, MutationStep, PTL DEF Spec

\* The variables keep their types: in particular a mutation that ends finds
\* itself at the head of the tail, which is never taken from when it is empty.
THEOREM TypeCorrect == Spec => []TypeOK
BY TypeAndMutation, PTL

\* Between the change a mutation makes and the status it answers with, no other
\* mutation changes the repository, whatever was aborted, retried or detached.
THEOREM AnswersAreOwnOutcomes == Spec => []AnswerIsOwnOutcome
<1>1. MutationInv => AnswerIsOwnOutcome
  BY DEF MutationInv
<1> QED BY <1>1, TypeAndMutation, PTL

-----------------------------------------------------------------------------
(* Calls                                                                     *)

\* Ids are given out in order; of a call that has not been made nothing is
\* known on either side; a request travels on the connection of its call.
CallInv ==
  /\ \E m \in 0..MaxCalls : \A c \in Call : call[c].at = "unused" <=> m < c
  /\ \A c \in Call : call[c].at = "unused" =>
       /\ job[c] = NoJob
       /\ \A n \in Conns : \A i \in DOMAIN up[n] : up[n][i] # c
       /\ \A i \in DOMAIN down : down[i].id # c
  /\ \A n \in Conns : \A i \in DOMAIN up[n] : call[up[n][i]].on = n


\* The id of a call that is made now has not been used.
LEMMA FreshIsUnused ==
  ASSUME CallsOK, CallInv, NEW c \in Call, Fresh(c)
  PROVE  \A d \in Call : call[d].at = "unused" <=> c <= d
<1>1. PICK m \in 0..MaxCalls : \A d \in Call : call[d].at = "unused" <=> m < d
  BY DEF CallInv
<1>2. {d \in Call : call[d].at # "unused"} = 1..m
  BY <1>1
<1>3. c = 1 + m
  <2>1. Cardinality(1..m) = m
    BY FS_Interval
  <2>2. c = 1 + Cardinality({d \in Call : call[d].at # "unused"})
    BY DEF Fresh
  <2> QED BY <1>2, <2>1, <2>2
<1> QED BY <1>1, <1>3

LEMMA Appended ==
  ASSUME NEW S, NEW q \in Seq(S), NEW f \in S
  PROVE  /\ Append(q, f) \in Seq(S) /\ Len(q) \in Nat /\ Len(Append(q, f)) = Len(q) + 1
         /\ DOMAIN q = 1..Len(q) /\ DOMAIN Append(q, f) = 1..(Len(q) + 1)
         /\ \A i \in DOMAIN q : Append(q, f)[i] = q[i]
         /\ Append(q, f)[Len(q) + 1] = f
BY AppendProperties

LEMMA InAppended ==
  ASSUME NEW S, NEW q \in Seq(S), NEW f \in S, NEW i \in DOMAIN Append(q, f)
  PROVE  (i \in DOMAIN q /\ Append(q, f)[i] = q[i]) \/ Append(q, f)[i] = f
<1>1. i \in 1..(Len(q) + 1) /\ Len(q) \in Nat /\ DOMAIN q = 1..Len(q)
  BY Appended
<1>2. i \in DOMAIN q \/ i = Len(q) + 1
  BY <1>1
<1> QED BY <1>2, Appended

LEMMA Unread ==
  ASSUME NEW S, NEW q \in Seq(S), q # <<>>
  PROVE  /\ Tail(q) \in Seq(S) /\ Len(q) \in Nat \ {0} /\ Len(Tail(q)) = Len(q) - 1
         /\ DOMAIN q = 1..Len(q) /\ DOMAIN Tail(q) = 1..(Len(q) - 1)
         /\ 1 \in DOMAIN q /\ q[1] = Head(q) /\ q[1] \in S
         /\ \A i \in DOMAIN Tail(q) : i + 1 \in DOMAIN q /\ Tail(q)[i] = q[i + 1]
         /\ \A i \in DOMAIN q : i = 1 \/ (i - 1 \in DOMAIN Tail(q) /\ q[i] = Tail(q)[i - 1])
OBVIOUS

\* A call is made.
LEMMA AskKeepsCalls ==
  ASSUME CallsOK, CallInv, NEW c \in Call, NEW method \in Method, NEW cursor \in Nat,
         Ask(c, method, cursor), job' = job
  PROVE  CallInv'
<1>1. /\ conn \in Conns /\ down' = down
      /\ call' = [call EXCEPT ![c] = [at |-> "pending", method |-> method, on |-> conn,
                                      cursor |-> cursor]]
      /\ up' = [up EXCEPT ![conn] = Append(up[conn], c)]
  BY DEF Ask, CallsOK
<1>2. \A d \in Call : call[d].at = "unused" <=> c <= d
  BY FreshIsUnused DEF Ask
<1>3. /\ call'[c].at = "pending" /\ call'[c].on = conn
      /\ \A d \in Call : d # c => call'[d] = call[d]
  BY <1>1 DEF CallsOK
<1>4. \E m \in 0..MaxCalls : \A d \in Call : call'[d].at = "unused" <=> m < d
  <2>1. c \in 0..MaxCalls
    OBVIOUS
  <2>2. \A d \in Call : call'[d].at = "unused" <=> c < d
    BY <1>2, <1>3
  <2> QED BY <2>1, <2>2
<1>5. ASSUME NEW n \in Conns, NEW i \in DOMAIN up'[n]
      PROVE  \/ i \in DOMAIN up[n] /\ up'[n][i] = up[n][i] /\ up[n][i] \in Call
             \/ n = conn /\ up'[n][i] = c
  <2>1. up[n] \in Seq(Call)
    BY DEF CallsOK
  <2>2. \A j \in DOMAIN up[n] : up[n][j] \in Call
    BY <2>1
  <2>3. CASE n = conn
    <3>1. up'[n] = Append(up[n], c)
      BY <1>1, <2>3 DEF CallsOK
    <3>2. (i \in DOMAIN up[n] /\ up'[n][i] = up[n][i]) \/ up'[n][i] = c
      <4> HIDE DEF Call, Conns
      <4>1. c \in Call /\ i \in DOMAIN Append(up[n], c)
        BY <1>5, <3>1
      <4>2. (i \in DOMAIN up[n] /\ Append(up[n], c)[i] = up[n][i]) \/ Append(up[n], c)[i] = c
        BY <2>1, <4>1, InAppended
      <4> QED BY <3>1, <4>2
    <3> QED BY <2>2, <2>3, <3>2
  <2>4. CASE n # conn
    BY <1>1, <2>2, <2>4 DEF CallsOK
  <2> QED BY <2>3, <2>4
<1>6. ASSUME NEW d \in Call, call'[d].at = "unused"
      PROVE  /\ job'[d] = NoJob
             /\ \A n \in Conns : \A i \in DOMAIN up'[n] : up'[n][i] # d
             /\ \A i \in DOMAIN down' : down'[i].id # d
  <2>1. d # c /\ call[d].at = "unused"
    BY <1>3, <1>6
  <2> QED BY <1>1, <1>5, <2>1 DEF CallInv
<1>7. \A n \in Conns : \A i \in DOMAIN up'[n] : call'[up'[n][i]].on = n
  <2>1. ASSUME NEW n \in Conns, NEW i \in DOMAIN up[n]
        PROVE  up[n][i] # c
    BY <1>2 DEF CallInv
  <2> QED BY <1>3, <1>5, <2>1 DEF CallInv
<1> QED BY <1>4, <1>6, <1>7 DEF CallInv

\* Nothing new is known of a call that has not been made.
LEMMA CallsKept ==
  ASSUME CallInv,
         \A d \in Call : (call'[d].at = "unused" <=> call[d].at = "unused") /\ call'[d].on = call[d].on,
         \A d \in Call : call[d].at = "unused" => job'[d] = job[d],
         \A n \in Conns : \A i \in DOMAIN up'[n] : /\ up'[n][i] \in Call
                                                   /\ \E j \in DOMAIN up[n] : up'[n][i] = up[n][j],
         \A i \in DOMAIN down' : \/ \E j \in DOMAIN down : down'[i].id = down[j].id
                                 \/ down'[i].id \in Call /\ call[down'[i].id].at # "unused"
  PROVE  CallInv'
<1>1. \E m \in 0..MaxCalls : \A d \in Call : call'[d].at = "unused" <=> m < d
  BY DEF CallInv
<1>2. ASSUME NEW d \in Call, call'[d].at = "unused"
      PROVE  /\ job'[d] = NoJob
             /\ \A n \in Conns : \A i \in DOMAIN up'[n] : up'[n][i] # d
             /\ \A i \in DOMAIN down' : down'[i].id # d
  <2>1. call[d].at = "unused" /\ job'[d] = job[d]
    BY <1>2
  <2> QED BY <2>1 DEF CallInv
<1>3. \A n \in Conns : \A i \in DOMAIN up'[n] : call'[up'[n][i]].on = n
  BY DEF CallInv
<1> QED BY <1>1, <1>2, <1>3 DEF CallInv

\* What a handler of the Station concerns.
LEMMA DeskConcerns ==
  ASSUME CallsOK, DeskOK, CallInv, NEW c \in Call, Desk(c)
  PROVE  /\ call[c].at # "unused" /\ UNCHANGED <<conn, opened, call, up, git, diff, attached>>
         /\ \A d \in Call : d # c => job'[d] = job[d]
         /\ \/ down' = down
            \/ \E kind \in {"chunk", "result", "error"}, value \in Nat : Send(c, kind, value)
<1>1. call[c].at # "unused"
  <2>1. job[c].at # "none"
    BY DEF Desk, AnswerRead, RunMutation, ChangeRepo, MutationFails, AnswerMutation,
           StreamLine, StreamEnds, StreamFails, JobAt
  <2> QED BY <2>1 DEF CallInv, NoJob
<1>2. UNCHANGED <<conn, opened, call, up, git, diff, attached>>
  BY DEF Desk, AnswerRead, RunMutation, ChangeRepo, MutationFails, AnswerMutation, StreamLine,
         StreamEnds, StreamFails, deskOnly
<1>3. \A d \in Call : d # c => job'[d] = job[d]
  BY DEF Desk, AnswerRead, RunMutation, ChangeRepo, MutationFails, AnswerMutation, StreamLine,
         StreamEnds, StreamFails, Finished, DeskOK
<1>4. \/ down' = down
      \/ \E kind \in {"chunk", "result", "error"}, value \in Nat : Send(c, kind, value)
  <2>1. job[c].value \in Nat /\ NextCursor(job[c].value) \in Nat
    BY DEF DeskOK, JobRecord, NextCursor
  <2> QED BY <2>1 DEF Desk, AnswerRead, RunMutation, ChangeRepo, MutationFails, AnswerMutation,
                      StreamLine, StreamEnds, StreamFails, Listed
<1> QED BY <1>1, <1>2, <1>3, <1>4

\* A frame the Station sends goes behind those under way, or nowhere.
LEMMA Sent ==
  ASSUME DownOK, NEW c \in Call, NEW kind \in {"chunk", "result", "error"}, NEW value \in Nat,
         Send(c, kind, value)
  PROVE  \/ down' = down
         \/ /\ Frame(c, kind, value) \in FrameRecord
            /\ down' = Append(down, Frame(c, kind, value))
BY DEF Send, Frame, FrameRecord

LEMMA SentCalls ==
  ASSUME DownOK, NEW c \in Call, NEW kind \in {"chunk", "result", "error"}, NEW value \in Nat,
         Send(c, kind, value)
  PROVE  \A i \in DOMAIN down' : (\E j \in DOMAIN down : down'[i].id = down[j].id) \/ down'[i].id = c
<1>1. CASE down' = down
  BY <1>1
<1>2. CASE /\ Frame(c, kind, value) \in FrameRecord
           /\ down' = Append(down, Frame(c, kind, value))
  BY <1>2, Appended DEF DownOK, Frame
<1> QED BY <1>1, <1>2, Sent

LEMMA CallStep == TypeOK /\ CallInv /\ [Next]_vars => CallInv'
<1> SUFFICES ASSUME CallsOK, DownOK, DiffOK, DeskOK, CallInv, [Next]_vars
             PROVE  CallInv'
  BY TypeSplit
<1>0. \A n \in Conns : up[n] \in Seq(Call) /\ \A i \in DOMAIN up[n] : up[n][i] \in Call
  BY DEF CallsOK
<1>1. CASE UNCHANGED <<call, up, down, job>>
  BY <1>1 DEF CallInv
<1>2. ASSUME NEW c \in Call, NEW method \in Method, NEW cursor \in Nat, Ask(c, method, cursor),
             job' = job
      PROVE  CallInv'
  BY <1>2, AskKeepsCalls
<1>3. CASE HandleFrame /\ job' = job
  <2>1. down # <<>> /\ down' = Tail(down) /\ up' = up
    BY <1>3 DEF HandleFrame
  <2>2. \A i \in DOMAIN down' : \E j \in DOMAIN down : down'[i] = down[j]
    BY <2>1, Unread DEF DownOK
  <2>3. \A d \in Call : (call'[d].at = "unused" <=> call[d].at = "unused") /\ call'[d].on = call[d].on
    <3> DEFINE f == Head(down).id
    <3>1. f \in Call
      BY <2>1, HeadOfDown DEF FrameRecord
    <3>2. \/ call' = call
          \/ call[f].at = "pending" /\ call' = [call EXCEPT ![f].at = "settled"]
      BY <1>3 DEF HandleFrame, Settle, Pending
    <3> HIDE DEF f
    <3>3. \A d \in Call : d # f => call'[d] = call[d]
      BY <3>2 DEF CallsOK
    <3>4. (call'[f].at = "unused" <=> call[f].at = "unused") /\ call'[f].on = call[f].on
      BY <3>1, <3>2 DEF CallsOK, CallRecord
    <3> QED BY <3>3, <3>4
  <2> QED BY <1>0, <1>3, <2>1, <2>2, <2>3, CallsKept
<1>4. ASSUME NEW c \in Call, TimerFires(c), job' = job
      PROVE  CallInv'
  <2>1. \A d \in Call : (call'[d].at = "unused" <=> call[d].at = "unused") /\ call'[d].on = call[d].on
    BY <1>4 DEF TimerFires, Settle, Pending, CallsOK, CallRecord
  <2> QED BY <1>0, <1>4, <2>1, CallsKept DEF TimerFires
<1>5. CASE Lost /\ job' = job
  <2>1. \A d \in Call : (call'[d].at = "unused" <=> call[d].at = "unused") /\ call'[d].on = call[d].on
    BY <1>5 DEF Lost, Pending, CallsOK, CallRecord
  <2> QED BY <1>0, <1>5, <2>1, CallsKept DEF Lost
<1>6. CASE Phone /\ job' = job
  <2>1. diff.next \in Nat /\ 0 \in Nat /\ Method = {"stage", "commit", "reload", "refresh", "diff"}
    BY DEF DiffOK, DiffRecord, Method, Operation
  <2> QED BY <1>1, <1>2, <1>3, <1>4, <1>5, <1>6, <2>1
       DEF Phone, Reconnected, OpenDiff, CloseDiff, Refresh, FollowUp, Load, RetryDiff, StartOver,
           NextPage, Mutate
<1>7. ASSUME NEW n \in Conns, OnRpc(n)
      PROVE  CallInv'
  <2> DEFINE c == Head(up[n])
  <2>1. up[n] # <<>> /\ up' = [up EXCEPT ![n] = Tail(up[n])] /\ call' = call
    BY <1>7 DEF OnRpc
  <2>2. c \in Call /\ call[c].at # "unused"
    <3>1. c = up[n][1] /\ 1 \in DOMAIN up[n]
      BY <1>0, <2>1, Unread
    <3> QED BY <1>0, <3>1 DEF CallInv
  <2>3. \A m \in Conns : \A i \in DOMAIN up'[m] : /\ up'[m][i] \in Call
                                                  /\ \E j \in DOMAIN up[m] : up'[m][i] = up[m][j]
    <3> SUFFICES ASSUME NEW m \in Conns, NEW i \in DOMAIN up'[m]
                 PROVE  \E j \in DOMAIN up[m] : up'[m][i] = up[m][j]
      BY <1>0
    <3>1. CASE m = n
      BY <1>0, <2>1, <3>1, Unread DEF CallsOK
    <3>2. CASE m # n
      BY <2>1, <3>2 DEF CallsOK
    <3> QED BY <3>1, <3>2
  <2>4. \A d \in Call : d # c => job'[d] = job[d]
    BY <1>7 DEF OnRpc, DeskOK
  <2>5. down' = down \/ Send(c, "error", 0)
    BY <1>7 DEF OnRpc
  <2>6. \A i \in DOMAIN down' : (\E j \in DOMAIN down : down'[i].id = down[j].id) \/ down'[i].id = c
    BY <2>2, <2>5, SentCalls
  <2> HIDE DEF c
  <2> QED BY <2>1, <2>2, <2>3, <2>4, <2>6, CallsKept
<1>8. ASSUME NEW c \in Call, Desk(c)
      PROVE  CallInv'
  <2>1. \A i \in DOMAIN down' : (\E j \in DOMAIN down : down'[i].id = down[j].id) \/ down'[i].id = c
    BY <1>8, DeskConcerns, SentCalls
  <2> QED BY <1>0, <1>8, <2>1, DeskConcerns, CallsKept
<1> QED BY <1>1, <1>6, <1>7, <1>8 DEF Next, Detach, vars, phoneVars, deskVars

LEMMA CallInvariant == Spec => []CallInv
<1>1. Init => CallInv
  <2> SUFFICES ASSUME Init
               PROVE  CallInv
    OBVIOUS
  <2>1. 0 \in 0..MaxCalls /\ \A c \in Call : call[c].at = "unused" /\ job[c] = NoJob
    BY DEF Init, PhoneInit, DeskInit, Unused
  <2>2. down = <<>> /\ \A n \in Conns : up[n] = <<>>
    BY DEF Init, PhoneInit
  <2>3. \E m \in 0..MaxCalls : \A c \in Call : call[c].at = "unused" <=> m < c
    <3>1. \A c \in Call : call[c].at = "unused" <=> 0 < c
      BY <2>1
    <3> QED BY <2>1, <3>1
  <2>4. DOMAIN down = {} /\ \A n \in Conns : DOMAIN up[n] = {}
    BY <2>2
  <2> QED BY <2>1, <2>3, <2>4, Zenon DEF CallInv
<1> QED BY <1>1, TypeCorrect, CallStep, PTL DEF Spec

-----------------------------------------------------------------------------
(* The frames of one call among those under way                              *)

Of(f, c) == f.id = c
ChunkOf(f, c) == Of(f, c) /\ f.kind = "chunk"

NoneOf(q, c) == \A i \in DOMAIN q : ~Of(q[i], c)
OnlyChunks(q, c) == \A i \in DOMAIN q : Of(q[i], c) => ChunkOf(q[i], c)

\* The chunks of c in q are the lines after s up to t, one by one and in order.
Consecutive(q, c, s, t) ==
  /\ t \in Nat /\ s <= t
  /\ \A i \in DOMAIN q : ChunkOf(q[i], c) => s < q[i].value /\ q[i].value <= t
  /\ \A i, j \in DOMAIN q : i < j /\ ChunkOf(q[i], c) /\ ChunkOf(q[j], c) => q[i].value < q[j].value
  /\ \A line \in (s + 1)..t : \E i \in DOMAIN q : ChunkOf(q[i], c) /\ q[i].value = line

\* The frame at last ends c, behind all its chunks.
EndsAt(q, c, last) ==
  /\ last \in DOMAIN q /\ Of(q[last], c) /\ ~ChunkOf(q[last], c)
  /\ \A i \in DOMAIN q : Of(q[i], c) => i = last \/ (i < last /\ ChunkOf(q[i], c))
Closed(q, c, s) ==
  \E last \in DOMAIN q :
    /\ EndsAt(q, c, last)
    /\ \E t \in Nat : Consecutive(q, c, s, t) /\ (q[last].kind = "result" => q[last].value \in {0, t})

LEMMA Values == ASSUME NEW q \in Seq(FrameRecord) PROVE \A i \in DOMAIN q : q[i].value \in Nat
<1>1. \A i \in DOMAIN q : q[i] \in FrameRecord
  OBVIOUS
<1> QED BY <1>1 DEF FrameRecord

LEMMA NoChunks ==
  ASSUME NEW q, NEW c, NEW s \in Nat, NoneOf(q, c)
  PROVE  Consecutive(q, c, s, s) /\ OnlyChunks(q, c)
BY DEF NoneOf, OnlyChunks, Consecutive, ChunkOf

\* A frame that is no chunk of c goes behind the others.
LEMMA OtherAppended ==
  ASSUME NEW q \in Seq(FrameRecord), NEW f \in FrameRecord, NEW c, NEW s \in Nat, NEW t,
         Consecutive(q, c, s, t), ~ChunkOf(f, c)
  PROVE  Consecutive(Append(q, f), c, s, t)
<1> DEFINE p == Append(q, f)
<1>1. /\ DOMAIN q = 1..Len(q) /\ Len(q) \in Nat /\ DOMAIN p = 1..(Len(q) + 1)
      /\ \A i \in DOMAIN q : p[i] = q[i]
      /\ p[Len(q) + 1] = f
  BY Appended
<1> HIDE DEF p
<1>2. \A i \in DOMAIN p : ChunkOf(p[i], c) => i \in DOMAIN q /\ p[i] = q[i]
  BY <1>1
<1>3. \A i \in DOMAIN q : i \in DOMAIN p
  BY <1>1
<1>4. Consecutive(p, c, s, t)
  BY <1>1, <1>2, <1>3 DEF Consecutive
<1> QED BY <1>4 DEF p

\* The next line goes behind the others.
LEMMA ChunkAppended ==
  ASSUME NEW q \in Seq(FrameRecord), NEW c \in Call, NEW s \in Nat, NEW t \in Nat,
         Consecutive(q, c, s, t), OnlyChunks(q, c)
  PROVE  LET p == Append(q, Frame(c, "chunk", t + 1))
         IN  Consecutive(p, c, s, t + 1) /\ OnlyChunks(p, c)
<1> DEFINE f == Frame(c, "chunk", t + 1)
           p == Append(q, f)
<1>0. f \in FrameRecord /\ ChunkOf(f, c) /\ f.value = t + 1
  BY DEF Frame, FrameRecord, ChunkOf, Of
<1> HIDE DEF f
<1>1. /\ DOMAIN q = 1..Len(q) /\ Len(q) \in Nat /\ DOMAIN p = 1..(Len(q) + 1)
      /\ \A i \in DOMAIN q : p[i] = q[i]
      /\ p[Len(q) + 1] = f
  BY <1>0, Appended
<1> HIDE DEF p
<1>2. \A i \in DOMAIN p : (i \in DOMAIN q /\ p[i] = q[i]) \/ (i = Len(q) + 1 /\ p[i] = f)
  BY <1>1
<1>3. \A i \in DOMAIN p : ChunkOf(p[i], c) => s < p[i].value /\ p[i].value <= t + 1
  <2>1. s <= t /\ \A i \in DOMAIN q : ChunkOf(q[i], c) => s < q[i].value /\ q[i].value <= t
    BY DEF Consecutive
  <2>2. \A i \in DOMAIN q : q[i].value \in Nat
    BY Values
  <2> QED BY <1>0, <1>2, <2>1, <2>2
<1>4. ASSUME NEW i \in DOMAIN p, NEW j \in DOMAIN p, i < j, ChunkOf(p[i], c), ChunkOf(p[j], c)
      PROVE  p[i].value < p[j].value
  <2>1. i \in DOMAIN q /\ p[i] = q[i]
    BY <1>1, <1>2, <1>4
  <2>2. q[i].value \in Nat /\ q[i].value <= t
    BY <1>4, <2>1, Values DEF Consecutive
  <2>3. CASE j \in DOMAIN q /\ p[j] = q[j]
    BY <1>4, <2>1, <2>3 DEF Consecutive
  <2>4. CASE p[j] = f
    BY <1>0, <2>1, <2>2, <2>4
  <2> QED BY <1>2, <2>3, <2>4
<1>5. ASSUME NEW line \in (s + 1)..(t + 1)
      PROVE  \E i \in DOMAIN p : ChunkOf(p[i], c) /\ p[i].value = line
  <2>1. CASE line = t + 1
    BY <1>0, <1>1, <2>1
  <2>2. CASE line \in (s + 1)..t
    <3>1. PICK i \in DOMAIN q : ChunkOf(q[i], c) /\ q[i].value = line
      BY <2>2 DEF Consecutive
    <3> QED BY <1>1, <3>1
  <2> QED BY <2>1, <2>2
<1>6. OnlyChunks(p, c)
  BY <1>0, <1>2 DEF OnlyChunks
<1>7. t + 1 \in Nat /\ s <= t + 1
  BY DEF Consecutive
<1>8. Consecutive(p, c, s, t + 1)
  BY <1>3, <1>4, <1>5, <1>7 DEF Consecutive
<1> QED BY <1>6, <1>8 DEF p, f

\* A frame that is no chunk of c is taken from the front.
LEMMA OtherTaken ==
  ASSUME NEW q \in Seq(FrameRecord), q # <<>>, NEW c, NEW s \in Nat, NEW t,
         Consecutive(q, c, s, t), ~ChunkOf(Head(q), c)
  PROVE  Consecutive(Tail(q), c, s, t)
<1> DEFINE p == Tail(q)
<1>1. /\ Len(q) \in Nat \ {0} /\ DOMAIN q = 1..Len(q) /\ DOMAIN p = 1..(Len(q) - 1)
      /\ q[1] = Head(q)
      /\ \A i \in DOMAIN p : i + 1 \in DOMAIN q /\ p[i] = q[i + 1]
      /\ \A i \in DOMAIN q : i = 1 \/ (i - 1 \in DOMAIN p /\ q[i] = p[i - 1])
  BY Unread
<1> HIDE DEF p
<1>2. \A i \in DOMAIN p : ChunkOf(p[i], c) => s < p[i].value /\ p[i].value <= t
  BY <1>1 DEF Consecutive
<1>3. ASSUME NEW i \in DOMAIN p, NEW j \in DOMAIN p, i < j, ChunkOf(p[i], c), ChunkOf(p[j], c)
      PROVE  p[i].value < p[j].value
  <2>1. i + 1 \in DOMAIN q /\ j + 1 \in DOMAIN q /\ i + 1 < j + 1 /\ p[i] = q[i + 1] /\ p[j] = q[j + 1]
    BY <1>1, <1>3
  <2> QED BY <1>3, <2>1 DEF Consecutive
<1>4. ASSUME NEW line \in (s + 1)..t
      PROVE  \E i \in DOMAIN p : ChunkOf(p[i], c) /\ p[i].value = line
  <2>1. PICK i \in DOMAIN q : ChunkOf(q[i], c) /\ q[i].value = line
    BY DEF Consecutive
  <2>2. i # 1
    BY <1>1, <2>1
  <2> QED BY <1>1, <2>1, <2>2
<1>5. Consecutive(p, c, s, t)
  BY <1>2, <1>3, <1>4 DEF Consecutive
<1> QED BY <1>5 DEF p

\* The chunk at the front is the next line.
LEMMA ChunkTaken ==
  ASSUME NEW q \in Seq(FrameRecord), q # <<>>, NEW c, NEW s \in Nat, NEW t,
         Consecutive(q, c, s, t), ChunkOf(Head(q), c)
  PROVE  Head(q).value = s + 1 /\ Consecutive(Tail(q), c, s + 1, t)
<1> DEFINE p == Tail(q)
<1>1. /\ Len(q) \in Nat \ {0} /\ DOMAIN q = 1..Len(q) /\ DOMAIN p = 1..(Len(q) - 1)
      /\ q[1] = Head(q) /\ 1 \in DOMAIN q
      /\ \A i \in DOMAIN p : i + 1 \in DOMAIN q /\ p[i] = q[i + 1]
      /\ \A i \in DOMAIN q : i = 1 \/ (i - 1 \in DOMAIN p /\ q[i] = p[i - 1])
  BY Unread
<1>0. \A i \in DOMAIN q : q[i].value \in Nat
  BY Values
<1> HIDE DEF p
<1>2. ChunkOf(q[1], c) /\ s < q[1].value /\ q[1].value <= t /\ t \in Nat
  BY <1>1 DEF Consecutive
<1>3. q[1].value = s + 1
  <2>1. s + 1 \in (s + 1)..t
    <3>1. q[1].value \in Nat
      BY <1>0, <1>1
    <3> QED BY <1>2, <3>1
  <2>2. PICK i \in DOMAIN q : ChunkOf(q[i], c) /\ q[i].value = s + 1
    BY <2>1 DEF Consecutive
  <2>3. CASE i = 1
    BY <2>2, <2>3
  <2>4. CASE i # 1
    <3>1. 1 < i
      BY <1>1, <2>4
    <3>2. q[1].value < q[i].value
      BY <1>1, <1>2, <2>2, <3>1 DEF Consecutive
    <3>3. q[1].value \in Nat /\ s < q[1].value /\ q[1].value < s + 1
      BY <1>0, <1>1, <1>2, <2>2, <3>2
    <3> QED BY <3>3
  <2> QED BY <2>3, <2>4
<1>4. ASSUME NEW i \in DOMAIN p, ChunkOf(p[i], c)
      PROVE  s + 1 < p[i].value /\ p[i].value <= t
  <2>1. i + 1 \in DOMAIN q /\ p[i] = q[i + 1] /\ 1 < i + 1
    BY <1>1
  <2>2. q[1].value < q[i + 1].value /\ q[i + 1].value <= t
    BY <1>1, <1>2, <1>4, <2>1 DEF Consecutive
  <2> QED BY <1>3, <2>1, <2>2
<1>5. ASSUME NEW i \in DOMAIN p, NEW j \in DOMAIN p, i < j, ChunkOf(p[i], c), ChunkOf(p[j], c)
      PROVE  p[i].value < p[j].value
  <2>1. i + 1 \in DOMAIN q /\ j + 1 \in DOMAIN q /\ i + 1 < j + 1 /\ p[i] = q[i + 1] /\ p[j] = q[j + 1]
    BY <1>1, <1>5
  <2> QED BY <1>5, <2>1 DEF Consecutive
<1>6. ASSUME NEW line \in (s + 1 + 1)..t
      PROVE  \E i \in DOMAIN p : ChunkOf(p[i], c) /\ p[i].value = line
  <2>0. line \in (s + 1)..t /\ line # s + 1
    BY <1>2
  <2>1. PICK i \in DOMAIN q : ChunkOf(q[i], c) /\ q[i].value = line
    BY <2>0 DEF Consecutive
  <2>2. i # 1
    BY <1>3, <2>0, <2>1
  <2> QED BY <1>1, <2>1, <2>2
<1>7. s + 1 <= t
  BY <1>2, <1>3
<1>8. Consecutive(p, c, s + 1, t)
  BY <1>2, <1>4, <1>5, <1>6, <1>7 DEF Consecutive
<1> QED BY <1>1, <1>3, <1>8 DEF p

\* Of a queue that begins with the end of c, nothing of c is left.
LEMMA NoLineLeft ==
  ASSUME NEW q, NEW c, NEW s \in Nat, NEW t, Consecutive(q, c, s, t),
         \A i \in DOMAIN q : ~ChunkOf(q[i], c)
  PROVE  t = s
<1>1. t \in Nat /\ s <= t /\ \A line \in (s + 1)..t : FALSE
  BY DEF Consecutive
<1> QED BY <1>1

\* Frames of other calls come and go.
LEMMA OthersAppended ==
  ASSUME NEW q \in Seq(FrameRecord), NEW f \in FrameRecord, NEW c, NEW s \in Nat, ~Of(f, c)
  PROVE  /\ NoneOf(q, c) => NoneOf(Append(q, f), c)
         /\ OnlyChunks(q, c) => OnlyChunks(Append(q, f), c)
         /\ Closed(q, c, s) => Closed(Append(q, f), c, s)
<1> DEFINE p == Append(q, f)
<1>1. /\ DOMAIN q = 1..Len(q) /\ Len(q) \in Nat /\ DOMAIN p = 1..(Len(q) + 1)
      /\ \A i \in DOMAIN q : p[i] = q[i]
      /\ p[Len(q) + 1] = f
  BY Appended
<1>0. ~ChunkOf(f, c)
  BY DEF ChunkOf
<1>2. ASSUME NEW t, Consecutive(q, c, s, t)
      PROVE  Consecutive(p, c, s, t)
  BY <1>0, <1>2, OtherAppended
<1> HIDE DEF p
<1>3. \A i \in DOMAIN p : Of(p[i], c) => i \in DOMAIN q /\ p[i] = q[i]
  BY <1>1
<1>4. NoneOf(q, c) => NoneOf(p, c)
  BY <1>3 DEF NoneOf
<1>5. OnlyChunks(q, c) => OnlyChunks(p, c)
  BY <1>3 DEF OnlyChunks
<1>6. ASSUME Closed(q, c, s)
      PROVE  Closed(p, c, s)
  <2>1. PICK last \in DOMAIN q :
          /\ EndsAt(q, c, last)
          /\ \E t \in Nat : Consecutive(q, c, s, t) /\ (q[last].kind = "result" => q[last].value \in {0, t})
    BY <1>6 DEF Closed
  <2>2. last \in DOMAIN p /\ p[last] = q[last]
    BY <1>1
  <2>3. EndsAt(p, c, last)
    BY <1>3, <2>1, <2>2 DEF EndsAt
  <2>4. PICK t \in Nat : Consecutive(q, c, s, t) /\ (q[last].kind = "result" => q[last].value \in {0, t})
    BY <2>1
  <2>5. Consecutive(p, c, s, t)
    BY <1>2, <2>4
  <2> QED BY <2>2, <2>3, <2>4, <2>5 DEF Closed
<1> QED BY <1>4, <1>5, <1>6 DEF p

LEMMA OthersTaken ==
  ASSUME NEW q \in Seq(FrameRecord), q # <<>>, NEW c, NEW s \in Nat
  PROVE  /\ NoneOf(q, c) => NoneOf(Tail(q), c)
         /\ OnlyChunks(q, c) => OnlyChunks(Tail(q), c)
         /\ ~Of(Head(q), c) /\ Closed(q, c, s) => Closed(Tail(q), c, s)
<1> DEFINE p == Tail(q)
<1>1. /\ Len(q) \in Nat \ {0} /\ DOMAIN q = 1..Len(q) /\ DOMAIN p = 1..(Len(q) - 1)
      /\ q[1] = Head(q)
      /\ \A i \in DOMAIN p : i + 1 \in DOMAIN q /\ p[i] = q[i + 1]
      /\ \A i \in DOMAIN q : i = 1 \/ (i - 1 \in DOMAIN p /\ q[i] = p[i - 1])
  BY Unread
<1>2. ASSUME NEW t, Consecutive(q, c, s, t), ~Of(Head(q), c)
      PROVE  Consecutive(p, c, s, t)
  BY <1>2, OtherTaken DEF ChunkOf
<1> HIDE DEF p
<1>4. NoneOf(q, c) => NoneOf(p, c)
  BY <1>1 DEF NoneOf
<1>5. OnlyChunks(q, c) => OnlyChunks(p, c)
  BY <1>1 DEF OnlyChunks
<1>6. ASSUME Closed(q, c, s), ~Of(Head(q), c)
      PROVE  Closed(p, c, s)
  <2>1. PICK last \in DOMAIN q :
          /\ EndsAt(q, c, last)
          /\ \E t \in Nat : Consecutive(q, c, s, t) /\ (q[last].kind = "result" => q[last].value \in {0, t})
    BY <1>6 DEF Closed
  <2>2. last # 1 /\ last - 1 \in DOMAIN p /\ p[last - 1] = q[last]
    BY <1>1, <1>6, <2>1 DEF EndsAt
  <2>3. EndsAt(p, c, last - 1)
    <3>1. ASSUME NEW i \in DOMAIN p, Of(p[i], c)
          PROVE  i = last - 1 \/ (i < last - 1 /\ ChunkOf(p[i], c))
      <4>1. i + 1 \in DOMAIN q /\ p[i] = q[i + 1]
        BY <1>1
      <4>2. i + 1 = last \/ (i + 1 < last /\ ChunkOf(q[i + 1], c))
        BY <2>1, <3>1, <4>1 DEF EndsAt
      <4> QED BY <1>1, <4>1, <4>2
    <3> QED BY <2>1, <2>2, <3>1 DEF EndsAt
  <2>4. PICK t \in Nat : Consecutive(q, c, s, t) /\ (q[last].kind = "result" => q[last].value \in {0, t})
    BY <2>1
  <2>5. Consecutive(p, c, s, t)
    BY <1>2, <1>6, <2>4
  <2> QED BY <2>2, <2>3, <2>4, <2>5 DEF Closed
<1> QED BY <1>4, <1>5, <1>6 DEF p

\* The end of c goes behind its chunks.
LEMMA EndAppended ==
  ASSUME NEW q \in Seq(FrameRecord), NEW f \in FrameRecord, NEW c, NEW s \in Nat, NEW t \in Nat,
         Consecutive(q, c, s, t), OnlyChunks(q, c),
         Of(f, c), ~ChunkOf(f, c), f.kind = "result" => f.value \in {0, t}
  PROVE  Closed(Append(q, f), c, s)
<1> DEFINE p == Append(q, f)
           last == Len(q) + 1
<1>1. /\ DOMAIN q = 1..Len(q) /\ Len(q) \in Nat /\ DOMAIN p = 1..(Len(q) + 1)
      /\ \A i \in DOMAIN q : p[i] = q[i]
      /\ p[Len(q) + 1] = f
  BY Appended
<1>2. Consecutive(p, c, s, t)
  BY OtherAppended
<1> HIDE DEF p
<1>3. ASSUME NEW i \in DOMAIN p, Of(p[i], c)
      PROVE  i = last \/ (i < last /\ ChunkOf(p[i], c))
  <2>1. i = last \/ (i \in DOMAIN q /\ p[i] = q[i] /\ i < last)
    BY <1>1
  <2> QED BY <1>3, <2>1 DEF OnlyChunks
<1>4. last \in DOMAIN p /\ p[last] = f
  BY <1>1
<1> HIDE DEF last
<1>5. EndsAt(p, c, last)
  BY <1>3, <1>4 DEF EndsAt
<1>6. Closed(p, c, s)
  BY <1>2, <1>4, <1>5 DEF Closed
<1> QED BY <1>6 DEF p

\* What comes first of a call whose end is under way: the next line, or the end.
LEMMA ClosedTaken ==
  ASSUME NEW q \in Seq(FrameRecord), q # <<>>, NEW c, NEW s \in Nat, Closed(q, c, s), Of(Head(q), c)
  PROVE  /\ Head(q).kind = "chunk" => Head(q).value = s + 1 /\ Closed(Tail(q), c, s + 1)
         /\ Head(q).kind = "result" => Head(q).value \in {0, s}
<1> DEFINE p == Tail(q)
<1>1. /\ Len(q) \in Nat \ {0} /\ DOMAIN q = 1..Len(q) /\ DOMAIN p = 1..(Len(q) - 1)
      /\ q[1] = Head(q) /\ 1 \in DOMAIN q
      /\ \A i \in DOMAIN p : i + 1 \in DOMAIN q /\ p[i] = q[i + 1]
      /\ \A i \in DOMAIN q : i = 1 \/ (i - 1 \in DOMAIN p /\ q[i] = p[i - 1])
  BY Unread
<1>2. PICK last \in DOMAIN q :
        /\ EndsAt(q, c, last)
        /\ \E t \in Nat : Consecutive(q, c, s, t) /\ (q[last].kind = "result" => q[last].value \in {0, t})
  BY DEF Closed
<1>3. PICK t \in Nat : Consecutive(q, c, s, t) /\ (q[last].kind = "result" => q[last].value \in {0, t})
  BY <1>2
<1>4. CASE Head(q).kind = "chunk"
  <2>1. ChunkOf(Head(q), c)
    BY <1>4 DEF ChunkOf
  <2>2. Head(q).value = s + 1 /\ Consecutive(p, c, s + 1, t)
    BY <1>3, <2>1, ChunkTaken
  <2> HIDE DEF p
  <2>3. last # 1 /\ last - 1 \in DOMAIN p /\ p[last - 1] = q[last]
    BY <1>1, <1>2, <2>1 DEF EndsAt
  <2>4. ASSUME NEW i \in DOMAIN p, Of(p[i], c)
        PROVE  i = last - 1 \/ (i < last - 1 /\ ChunkOf(p[i], c))
    <3>1. i + 1 \in DOMAIN q /\ p[i] = q[i + 1]
      BY <1>1
    <3>2. i + 1 = last \/ (i + 1 < last /\ ChunkOf(q[i + 1], c))
      BY <1>2, <2>4, <3>1 DEF EndsAt
    <3> QED BY <1>1, <3>1, <3>2
  <2>5. EndsAt(p, c, last - 1)
    BY <1>2, <2>3, <2>4 DEF EndsAt
  <2>6. Closed(p, c, s + 1)
    BY <1>3, <2>2, <2>3, <2>5 DEF Closed
  <2> QED BY <1>4, <2>2, <2>6 DEF p
<1>5. CASE Head(q).kind # "chunk"
  <2> HIDE DEF p
  <2>1. last = 1
    BY <1>1, <1>2, <1>5 DEF EndsAt, ChunkOf
  <2>2. \A i \in DOMAIN q : ~ChunkOf(q[i], c)
    <3> SUFFICES ASSUME NEW i \in DOMAIN q, ChunkOf(q[i], c)
                 PROVE  FALSE
      OBVIOUS
    <3>1. i = 1 \/ i < 1
      BY <1>2, <2>1 DEF EndsAt, ChunkOf
    <3> QED BY <1>1, <1>5, <3>1 DEF ChunkOf
  <2>3. t = s
    BY <1>3, <2>2, NoLineLeft
  <2> QED BY <1>1, <1>3, <1>5, <2>1, <2>3
<1> QED BY <1>4, <1>5

-----------------------------------------------------------------------------
(* The pages of the diff                                                     *)

\* The request of c among those on their way to the Station.
Absent(u, c) == \A i \in DOMAIN u : u[i] # c
Once(u, c) == \E i \in DOMAIN u : \A j \in DOMAIN u : u[j] = c <=> j = i

LEMMA OnceAppended ==
  ASSUME NEW u \in Seq(Call), NEW c \in Call, NEW d \in Call
  PROVE  /\ d # c /\ Absent(u, c) => Absent(Append(u, d), c)
         /\ d # c /\ Once(u, c) => Once(Append(u, d), c)
         /\ d = c /\ Absent(u, c) => Once(Append(u, d), c)
<1> DEFINE p == Append(u, d)
<1>1. /\ DOMAIN u = 1..Len(u) /\ Len(u) \in Nat /\ DOMAIN p = 1..(Len(u) + 1)
      /\ \A i \in DOMAIN u : p[i] = u[i]
      /\ p[Len(u) + 1] = d
  BY Appended
<1> HIDE DEF p
<1>2. d # c /\ Absent(u, c) => Absent(p, c)
  BY <1>1 DEF Absent
<1>3. ASSUME d # c, Once(u, c)
      PROVE  Once(p, c)
  <2>1. PICK i \in DOMAIN u : \A j \in DOMAIN u : u[j] = c <=> j = i
    BY <1>3 DEF Once
  <2>2. i \in DOMAIN p /\ \A j \in DOMAIN p : (j \in DOMAIN u /\ p[j] = u[j]) \/ (p[j] = d /\ j # i)
    BY <1>1
  <2>3. \A j \in DOMAIN p : p[j] = c <=> j = i
    BY <1>1, <1>3, <2>1, <2>2
  <2> QED BY <2>2, <2>3 DEF Once
<1>4. ASSUME d = c, Absent(u, c)
      PROVE  Once(p, c)
  <2> DEFINE last == Len(u) + 1
  <2>1. \A j \in DOMAIN p : (j \in DOMAIN u /\ j # last /\ p[j] = u[j]) \/ (j = last /\ p[j] = d)
    BY <1>1
  <2>2. last \in DOMAIN p
    BY <1>1
  <2> HIDE DEF last
  <2>3. \A j \in DOMAIN p : p[j] = c <=> j = last
    BY <1>4, <2>1 DEF Absent
  <2> QED BY <2>2, <2>3 DEF Once
<1> QED BY <1>2, <1>3, <1>4 DEF p

LEMMA OnceTaken ==
  ASSUME NEW u \in Seq(Call), u # <<>>, NEW c \in Call
  PROVE  /\ Absent(u, c) => Absent(Tail(u), c) /\ Head(u) # c
         /\ Once(u, c) /\ Head(u) # c => Once(Tail(u), c)
         /\ Once(u, c) /\ Head(u) = c => Absent(Tail(u), c)
<1> DEFINE p == Tail(u)
<1>1. /\ Len(u) \in Nat \ {0} /\ DOMAIN u = 1..Len(u) /\ DOMAIN p = 1..(Len(u) - 1)
      /\ u[1] = Head(u) /\ 1 \in DOMAIN u
      /\ \A i \in DOMAIN p : i + 1 \in DOMAIN u /\ p[i] = u[i + 1]
      /\ \A i \in DOMAIN u : i = 1 \/ (i - 1 \in DOMAIN p /\ u[i] = p[i - 1])
  BY Unread
<1> HIDE DEF p
<1>2. Absent(u, c) => Absent(p, c) /\ Head(u) # c
  BY <1>1 DEF Absent
<1>3. ASSUME Once(u, c), Head(u) # c
      PROVE  Once(p, c)
  <2>1. PICK i \in DOMAIN u : \A j \in DOMAIN u : u[j] = c <=> j = i
    BY <1>3 DEF Once
  <2>2. i # 1 /\ i - 1 \in DOMAIN p
    BY <1>1, <1>3, <2>1
  <2>3. ASSUME NEW j \in DOMAIN p
        PROVE  p[j] = c <=> j = i - 1
    <3>1. j + 1 \in DOMAIN u /\ p[j] = u[j + 1]
      BY <1>1
    <3>2. p[j] = c <=> j + 1 = i
      BY <2>1, <3>1
    <3>3. i \in Nat /\ j \in Nat
      BY <1>1
    <3> QED BY <3>2, <3>3
  <2> QED BY <2>2, <2>3 DEF Once
<1>4. ASSUME Once(u, c), Head(u) = c
      PROVE  Absent(p, c)
  <2>1. PICK i \in DOMAIN u : \A j \in DOMAIN u : u[j] = c <=> j = i
    BY <1>4 DEF Once
  <2>2. i = 1
    BY <1>1, <1>4, <2>1
  <2>3. ASSUME NEW j \in DOMAIN p
        PROVE  p[j] # c
    <3>1. j + 1 \in DOMAIN u /\ p[j] = u[j + 1] /\ j + 1 # 1
      BY <1>1
    <3> QED BY <2>1, <2>2, <3>1
  <2> QED BY <2>3 DEF Absent
<1> QED BY <1>2, <1>3, <1>4 DEF p

\* How many lines the diff screen has.
Shown == Len(diff.raw) + Len(diff.page)
Meets(lines, n) == \A i \in DOMAIN lines : lines[i] = n + i

\* The load c: its request is under way; the Station streams; the end of the
\* stream is under way, behind its chunks.
Waiting(c) ==
  Once(up[conn], c) /\ NoneOf(down, c) /\ job[c] = NoJob /\ diff.page = <<>>
Streaming(c) ==
  /\ Absent(up[conn], c) /\ JobAt(c, "streaming")
  /\ Consecutive(down, c, Shown, job[c].value) /\ OnlyChunks(down, c)
Ended(c) == Absent(up[conn], c) /\ job[c] = NoJob /\ Closed(down, c, Shown)
Stage(c) == Waiting(c) \/ Streaming(c) \/ Ended(c)

\* The load is a call of the screen that is pending, on the current connection.
Loading(c) == Pending(c) /\ call[c].method = "diff" /\ conn # 0 /\ call[c].on = conn

\* The load began where the complete pages end, and what is still to come of it
\* continues what is shown.
LoadInv ==
  /\ conn # 0 => conn \in attached
  /\ diff.load # None => Loading(diff.load)
  /\ ~diff.again => /\ Meets(diff.raw, 0) /\ Meets(diff.page, Len(diff.raw))
                    /\ diff.next \in {0, Len(diff.raw)}
  /\ ~diff.again /\ diff.load # None => call[diff.load].cursor = Len(diff.raw) /\ Stage(diff.load)

LEMMA Joining ==
  ASSUME NEW raw \in Seq(Nat), NEW page \in Seq(Nat), Meets(raw, 0), Meets(page, Len(raw))
  PROVE  Meets(raw \o page, 0) /\ Len(raw \o page) = Len(raw) + Len(page)
<1>1. Len(raw \o page) = Len(raw) + Len(page)
  BY ConcatProperties
<1>2. ASSUME NEW i \in DOMAIN (raw \o page)
      PROVE  (raw \o page)[i] = 0 + i
  <2>1. /\ i \in 1..(Len(raw) + Len(page))
        /\ (raw \o page)[i] = IF i <= Len(raw) THEN raw[i] ELSE page[i - Len(raw)]
    OBVIOUS
  <2>2. CASE i <= Len(raw)
    BY <2>1, <2>2 DEF Meets
  <2>3. CASE ~(i <= Len(raw))
    <3>1. i - Len(raw) \in DOMAIN page
      BY <2>1, <2>3
    <3>2. page[i - Len(raw)] = Len(raw) + (i - Len(raw))
      BY <3>1 DEF Meets
    <3> QED BY <2>1, <2>3, <3>2
  <2> QED BY <2>2, <2>3
<1> QED BY <1>1, <1>2 DEF Meets

LEMMA OneMore == \A a, b \in Nat : a + (b + 1) = (a + b) + 1
OBVIOUS

\* What does not concern a load leaves it where it is.
SameDiff ==
  /\ diff'.load = diff.load /\ diff'.raw = diff.raw /\ diff'.page = diff.page
  /\ diff'.next = diff.next /\ diff'.again = diff.again
UpBeside(c) ==
  \/ up'[conn] = up[conn]
  \/ \E d \in Call : d # c /\ up'[conn] = Append(up[conn], d)
  \/ up[conn] # <<>> /\ Head(up[conn]) # c /\ up'[conn] = Tail(up[conn])
DownBeside(c) ==
  \/ down' = down
  \/ \E f \in FrameRecord : ~Of(f, c) /\ down' = Append(down, f)
  \/ down # <<>> /\ ~Of(Head(down), c) /\ down' = Tail(down)

LEMMA ShownType == DiffOK => Shown \in Nat /\ diff.raw \in Seq(Nat) /\ diff.page \in Seq(Nat)
BY DEF Shown, DiffOK, DiffRecord

LEMMA StageKept ==
  ASSUME CallsOK, DownOK, DiffOK, NEW c \in Call, conn \in Conns, conn' = conn, SameDiff,
         job'[c] = job[c], UpBeside(c), DownBeside(c), Stage(c)
  PROVE  Stage(c)'
<1>1. Shown \in Nat /\ Shown' = Shown /\ diff'.page = diff.page
  BY ShownType DEF Shown, SameDiff
<1>2. /\ Absent(up[conn], c) => Absent(up'[conn], c)
      /\ Once(up[conn], c) => Once(up'[conn], c)
  <2>1. up[conn] \in Seq(Call)
    BY DEF CallsOK
  <2>2. CASE up'[conn] = up[conn]
    BY <2>2
  <2>3. ASSUME NEW d \in Call, d # c, up'[conn] = Append(up[conn], d)
        PROVE  /\ Absent(up[conn], c) => Absent(up'[conn], c)
               /\ Once(up[conn], c) => Once(up'[conn], c)
    BY <2>1, <2>3, OnceAppended
  <2>4. CASE up[conn] # <<>> /\ Head(up[conn]) # c /\ up'[conn] = Tail(up[conn])
    BY <2>1, <2>4, OnceTaken
  <2> QED BY <2>2, <2>3, <2>4 DEF UpBeside
<1>3. /\ NoneOf(down, c) => NoneOf(down', c)
      /\ OnlyChunks(down, c) => OnlyChunks(down', c)
      /\ Closed(down, c, Shown) => Closed(down', c, Shown)
  BY <1>1, OthersAppended, OthersTaken DEF DownBeside, DownOK
<1>4. ASSUME NEW t, Consecutive(down, c, Shown, t)
      PROVE  Consecutive(down', c, Shown, t)
  <2>1. \A f : ~Of(f, c) => ~ChunkOf(f, c)
    BY DEF ChunkOf
  <2> QED BY <1>1, <1>4, <2>1, OtherAppended, OtherTaken DEF DownBeside, DownOK
<1>5. Waiting(c) => Waiting(c)'
  BY <1>1, <1>2, <1>3 DEF Waiting
<1>6. Streaming(c) => Streaming(c)'
  <2>1. Streaming(c) => Consecutive(down', c, Shown, job[c].value)
    BY <1>4 DEF Streaming
  <2> QED BY <1>1, <1>2, <1>3, <2>1 DEF Streaming, JobAt
<1>7. Ended(c) => Ended(c)'
  BY <1>1, <1>2, <1>3 DEF Ended
<1> QED BY <1>5, <1>6, <1>7 DEF Stage

LEMMA LoadKept ==
  ASSUME CallsOK, DownOK, DiffOK, LoadInv, conn' = conn, conn # 0 => conn \in attached', SameDiff,
         diff.load # None => /\ call'[diff.load] = call[diff.load]
                             /\ UpBeside(diff.load) /\ DownBeside(diff.load)
                             /\ job'[diff.load] = job[diff.load]
  PROVE  LoadInv'
<1>1. CASE diff.load = None
  BY <1>1 DEF LoadInv, SameDiff
<1>2. CASE diff.load # None
  <2>0. PICK c \in Call : c = diff.load
    BY <1>2 DEF DiffOK, DiffRecord
  <2>1. diff.load = c /\ diff'.load = c /\ conn \in Conns
    BY <1>2, <2>0 DEF SameDiff, LoadInv, Loading, CallsOK
  <2>2. Loading(c) /\ call'[c] = call[c]
    BY <1>2, <2>1 DEF LoadInv
  <2>3. ~diff.again => Stage(c) /\ call[c].cursor = Len(diff.raw)
    BY <1>2, <2>1 DEF LoadInv
  <2>4. UpBeside(c) /\ DownBeside(c) /\ job'[c] = job[c]
    BY <1>2, <2>1
  <2>5. ~diff.again => Stage(c)'
    BY <2>1, <2>3, <2>4, StageKept
  <2>6. call'[c].at = "pending" /\ call'[c].method = "diff" /\ conn' # 0 /\ call'[c].on = conn'
    BY <2>2 DEF Loading, Pending
  <2>7. ~diff.again => call'[c].cursor = Len(diff.raw)
    BY <2>2, <2>3
  <2>8. ~diff.again => /\ Meets(diff.raw, 0) /\ Meets(diff.page, Len(diff.raw))
                       /\ diff.next \in {0, Len(diff.raw)}
    BY DEF LoadInv
  <2>9. /\ diff'.raw = diff.raw /\ diff'.page = diff.page /\ diff'.next = diff.next
        /\ diff'.again = diff.again
    BY DEF SameDiff
  <2>10. Loading(diff.load)'
    BY <2>1, <2>6 DEF Loading, Pending
  <2>11. ~diff.again => Stage(diff.load)'
    BY <2>1, <2>5 DEF Stage, Waiting, Streaming, Ended, JobAt
  <2> QED BY <2>1, <2>7, <2>8, <2>9, <2>10, <2>11 DEF LoadInv
<1> QED BY <1>1, <1>2

\* A call that is not the load is asked.
LEMMA OtherAsked ==
  ASSUME CallsOK, DownOK, DiffOK, CallInv, LoadInv, NEW d \in Call, NEW method, NEW cursor,
         Ask(d, method, cursor), SameDiff, job' = job, conn \in attached'
  PROVE  LoadInv'
<1>1. /\ conn' = conn /\ down' = down /\ conn \in Conns
      /\ call' = [call EXCEPT ![d] = [at |-> "pending", method |-> method, on |-> conn,
                                      cursor |-> cursor]]
      /\ up' = [up EXCEPT ![conn] = Append(up[conn], d)]
  BY DEF Ask, CallsOK
<1>2. call[d].at = "unused"
  BY FreshIsUnused DEF Ask
<1>3. diff.load # None => diff.load # d
  BY <1>2 DEF LoadInv, Loading, Pending
<1>4. diff.load # None => diff.load \in Call
  BY DEF DiffOK, DiffRecord
<1>5. diff.load # None => call'[diff.load] = call[diff.load]
  BY <1>1, <1>3, <1>4 DEF CallsOK
<1>6. diff.load # None => UpBeside(diff.load) /\ DownBeside(diff.load)
  <2>1. up'[conn] = Append(up[conn], d)
    BY <1>1 DEF CallsOK
  <2> QED BY <1>1, <1>3, <2>1 DEF UpBeside, DownBeside
<1> QED BY <1>1, <1>5, <1>6, LoadKept

\* The load is asked.
LEMMA LoadAsked ==
  ASSUME CallsOK, DownOK, DiffOK, CallInv, LoadInv, NEW c \in Call, NEW cursor \in Nat,
         Ask(c, "diff", cursor), job' = job, conn \in attached',
         diff'.load = c, diff'.raw = diff.raw, diff'.page = <<>>, diff'.next = diff.next,
         ~diff'.again => ~diff.again /\ cursor = Len(diff.raw)
  PROVE  LoadInv'
<1>1. /\ conn' = conn /\ down' = down /\ conn \in Conns
      /\ call' = [call EXCEPT ![c] = [at |-> "pending", method |-> "diff", on |-> conn,
                                      cursor |-> cursor]]
      /\ up' = [up EXCEPT ![conn] = Append(up[conn], c)]
  BY DEF Ask, CallsOK
<1>2. call[c].at = "unused"
  BY FreshIsUnused DEF Ask
<1>3. Absent(up[conn], c) /\ NoneOf(down, c) /\ job[c] = NoJob
  BY <1>1, <1>2 DEF CallInv, Absent, NoneOf, Of
<1>4. up'[conn] = Append(up[conn], c) /\ up[conn] \in Seq(Call)
  BY <1>1 DEF CallsOK
<1>5. Once(up'[conn], c)
  BY <1>3, <1>4, OnceAppended
<1>6. Waiting(c)'
  BY <1>1, <1>3, <1>5 DEF Waiting
<1>7. /\ call'[c].at = "pending" /\ call'[c].method = "diff" /\ call'[c].on = conn
      /\ call'[c].cursor = cursor
  BY <1>1 DEF CallsOK
<1>8. Loading(c)'
  BY <1>1, <1>7 DEF Loading, Pending
<1>9. ~diff'.again => /\ Meets(diff.raw, 0) /\ Meets(<<>>, Len(diff.raw))
                      /\ diff.next \in {0, Len(diff.raw)}
  BY DEF LoadInv, Meets
<1>10. Loading(diff.load)' /\ Stage(diff.load)'
  BY <1>6, <1>8 DEF Loading, Pending, Stage, Waiting
<1> QED BY <1>1, <1>7, <1>9, <1>10 DEF LoadInv

\* The load ends: what it brought stays, or is joined to the complete pages.
LEMMA LoadEnds ==
  ASSUME DiffOK, LoadInv, conn' # 0 => conn' \in attached', diff'.load = None, diff'.again = diff.again,
         \/ diff'.raw = diff.raw /\ diff'.page = diff.page /\ diff'.next = diff.next
         \/ /\ diff'.raw = diff.raw \o diff.page /\ diff'.page = <<>>
            /\ ~diff.again => diff'.next \in {0, Shown}
  PROVE  LoadInv'
<1>1. CASE diff'.raw = diff.raw /\ diff'.page = diff.page /\ diff'.next = diff.next
  BY <1>1 DEF LoadInv
<1>2. CASE /\ diff'.raw = diff.raw \o diff.page /\ diff'.page = <<>>
           /\ ~diff.again => diff'.next \in {0, Shown}
  <2>1. ~diff.again => Meets(diff'.raw, 0) /\ Len(diff'.raw) = Shown
    BY <1>2, ShownType, Joining DEF LoadInv, Shown
  <2>2. Meets(<<>>, Len(diff'.raw))
    BY DEF Meets
  <2> QED BY <1>2, <2>1, <2>2 DEF LoadInv
<1> QED BY <1>1, <1>2

\* A call that is not the load ends.
LEMMA OtherSettles ==
  ASSUME NEW d \in Call, d # diff.load, NEW outcome, Settle(d, outcome)
  PROVE  diff' = diff
BY DEF Settle, DiffAfter

LEMMA HandleFrameKeepsLoad ==
  ASSUME CallsOK, DownOK, DiffOK, LoadInv, HandleFrame, job' = job, conn # 0 => conn \in attached'
  PROVE  LoadInv'
<1>1. /\ down # <<>> /\ down' = Tail(down) /\ UNCHANGED <<conn, up>>
      /\ Head(down) \in FrameRecord /\ Head(down).id \in Call
  BY HeadOfDown DEF HandleFrame, FrameRecord
<1> DEFINE f == Head(down)
<1>2. CASE f.id # diff.load
  <2>1. SameDiff
    <3>1. CASE diff' = diff
      BY <3>1 DEF SameDiff
    <3>2. CASE diff' = [diff EXCEPT !.page = PageWith(f)]
      BY <1>2, <3>2 DEF SameDiff, PageWith, DiffOK, DiffRecord
    <3> QED BY <1>1, <1>2, <3>1, <3>2, OtherSettles DEF HandleFrame
  <2>2. diff.load # None => call'[diff.load] = call[diff.load]
    <3>1. call' = call \/ call' = [call EXCEPT ![f.id].at = "settled"]
      BY DEF HandleFrame, Settle
    <3>2. diff.load # None => diff.load \in Call
      BY DEF DiffOK, DiffRecord
    <3> QED BY <1>2, <3>1, <3>2 DEF CallsOK
  <2>3. diff.load # None => UpBeside(diff.load) /\ DownBeside(diff.load)
    BY <1>1, <1>2 DEF UpBeside, DownBeside, Of
  <2> QED BY <1>1, <2>1, <2>2, <2>3, LoadKept
<1>3. CASE f.id = diff.load
  <2>0. PICK c \in Call : c = diff.load
    BY <1>1, <1>3
  <2>1. c # None /\ f.id = c /\ Of(f, c) /\ diff.load = c /\ c \in Call
    BY <1>3, <2>0 DEF Of
  <2>2. Loading(c) /\ (~diff.again => call[c].cursor = Len(diff.raw) /\ Stage(c))
    BY <2>1 DEF LoadInv
  <2>3. Decoded(f) /\ Pending(f.id)
    BY <2>1, <2>2 DEF Loading, Decoded
  <2>4. Shown \in Nat /\ diff.raw \in Seq(Nat) /\ diff.page \in Seq(Nat) /\ conn \in Conns
    BY <2>2, ShownType DEF Loading, CallsOK
  <2>5. CASE f.kind # "chunk"
    <3>1. diff' = DiffAfter(diff, c, f)
      BY <2>1, <2>3, <2>5 DEF HandleFrame, Settle
    <3>2. ~diff.again /\ IsResult(f) => f.value \in {0, Shown}
      <4> SUFFICES ASSUME ~diff.again, IsResult(f)
                   PROVE  f.value \in {0, Shown}
        OBVIOUS
      <4>1. ~NoneOf(down, c) /\ ~OnlyChunks(down, c)
        <5>1. 1 \in DOMAIN down /\ down[1] = f
          BY <1>1, Unread DEF DownOK
        <5> QED BY <2>1, <2>5, <5>1 DEF NoneOf, OnlyChunks, ChunkOf
      <4>2. Closed(down, c, Shown)
        BY <2>2, <4>1 DEF Stage, Waiting, Streaming, Ended
      <4> QED BY <1>1, <2>1, <2>4, <4>2, ClosedTaken DEF DownOK, IsResult
    <3>3. \/ diff' = [diff EXCEPT !.load = None]
          \/ /\ IsResult(f)
             /\ diff' = [diff EXCEPT !.load = None, !.raw = diff.raw \o diff.page, !.page = <<>>,
                                     !.next = f.value]
      BY <2>1, <3>1 DEF DiffAfter
    <3>4. CASE diff' = [diff EXCEPT !.load = None]
      BY <1>1, <3>4, LoadEnds DEF DiffOK, DiffRecord
    <3>5. CASE /\ IsResult(f)
               /\ diff' = [diff EXCEPT !.load = None, !.raw = diff.raw \o diff.page, !.page = <<>>,
                                       !.next = f.value]
      <4>1. /\ diff'.load = None /\ diff'.again = diff.again /\ diff'.raw = diff.raw \o diff.page
            /\ diff'.page = <<>> /\ diff'.next = f.value
        BY <3>5 DEF DiffOK, DiffRecord
      <4>2. ~diff.again => diff'.next \in {0, Shown}
        BY <3>2, <3>5, <4>1
      <4> QED BY <1>1, <4>1, <4>2, LoadEnds
    <3> QED BY <3>3, <3>4, <3>5
  <2>6. CASE f.kind = "chunk"
    <3> DEFINE page == Append(diff.page, f.value)
    <3>0. f.value \in Nat
      BY <1>1 DEF FrameRecord
    <3>1. call' = call /\ diff' = [diff EXCEPT !.page = page]
      BY <2>1, <2>3, <2>6 DEF HandleFrame, PageWith
    <3>2. /\ diff'.load = c /\ diff'.raw = diff.raw /\ diff'.page = page /\ diff'.next = diff.next
          /\ diff'.again = diff.again
      BY <2>1, <3>1 DEF DiffOK, DiffRecord
    <3>3. Len(page) = Len(diff.page) + 1
      BY <2>4, <3>0, AppendProperties
    <3>4. Shown' = Shown + 1
      <4>1. Len(diff.raw) \in Nat /\ Len(diff.page) \in Nat
        BY <2>4
      <4>2. Shown' = Len(diff.raw) + Len(page)
        BY <3>2 DEF Shown
      <4> HIDE DEF page
      <4>3. Shown' = Len(diff.raw) + (Len(diff.page) + 1)
        BY <3>3, <4>2, Zenon
      <4>4. Len(diff.raw) + (Len(diff.page) + 1) = (Len(diff.raw) + Len(diff.page)) + 1
        BY <4>1, OneMore, Zenon
      <4> QED BY <4>3, <4>4, Zenon DEF Shown
    <3>5. ChunkOf(f, c)
      BY <2>1, <2>6 DEF ChunkOf
    <3>6. down \in Seq(FrameRecord) /\ down # <<>>
      BY <1>1 DEF DownOK
    <3>7. ASSUME ~diff.again
          PROVE  f.value = Shown + 1 /\ (Streaming(c)' \/ Ended(c)')
      <4>1. Stage(c)
        BY <2>2, <3>7
      <4>2. ~Waiting(c)
        <5>1. 1 \in DOMAIN down /\ down[1] = f
          BY <3>6, Unread
        <5> QED BY <2>1, <5>1 DEF Waiting, NoneOf
      <4>3. CASE Streaming(c)
        <5>1. f.value = Shown + 1 /\ Consecutive(down', c, Shown + 1, job[c].value)
          BY <1>1, <2>4, <3>5, <3>6, <4>3, ChunkTaken DEF Streaming
        <5>2. OnlyChunks(down', c)
          BY <1>1, <2>4, <3>6, <4>3, OthersTaken DEF Streaming
        <5> QED BY <1>1, <3>4, <4>3, <5>1, <5>2 DEF Streaming, JobAt
      <4>4. CASE Ended(c)
        <5>1. f.value = Shown + 1 /\ Closed(down', c, Shown + 1)
          BY <1>1, <2>1, <2>4, <2>6, <3>6, <4>4, ClosedTaken DEF Ended
        <5> QED BY <1>1, <3>4, <4>4, <5>1 DEF Ended
      <4> QED BY <4>1, <4>2, <4>3, <4>4 DEF Stage
    <3>8. ~diff.again => Meets(page, Len(diff.raw))
      <4> SUFFICES ASSUME ~diff.again, NEW i \in DOMAIN page
                   PROVE  page[i] = Len(diff.raw) + i
        BY DEF Meets
      <4>1. (i \in DOMAIN diff.page /\ page[i] = diff.page[i])
            \/ (i = Len(diff.page) + 1 /\ page[i] = f.value)
        BY <2>4, <3>0, Appended
      <4> HIDE DEF page
      <4>2. CASE i \in DOMAIN diff.page /\ page[i] = diff.page[i]
        BY <4>2 DEF LoadInv, Meets
      <4>3. CASE i = Len(diff.page) + 1 /\ page[i] = f.value
        <5>1. Len(diff.raw) \in Nat /\ Len(diff.page) \in Nat
          BY <2>4
        <5>2. f.value = Len(diff.raw) + Len(diff.page) + 1
          BY <3>7 DEF Shown
        <5>3. Len(diff.raw) + (Len(diff.page) + 1) = (Len(diff.raw) + Len(diff.page)) + 1
          BY <5>1, OneMore, Zenon
        <5>4. page[i] = Len(diff.raw) + Len(diff.page) + 1
          BY <4>3, <5>2, Zenon
        <5> QED BY <4>3, <5>3, <5>4, Zenon
      <4> QED BY <4>1, <4>2, <4>3
    <3> HIDE DEF page
    <3>9. Loading(diff.load)'
      BY <1>1, <2>2, <3>1, <3>2 DEF Loading, Pending
    <3>10. ~diff.again => Stage(diff.load)'
      BY <3>2, <3>7 DEF Stage, Waiting, Streaming, Ended, JobAt
    <3>11. ~diff.again => /\ Meets(diff.raw, 0) /\ diff.next \in {0, Len(diff.raw)}
                          /\ call[c].cursor = Len(diff.raw)
      BY <2>2 DEF LoadInv
    <3> QED BY <1>1, <3>1, <3>2, <3>8, <3>9, <3>10, <3>11 DEF LoadInv
  <2> QED BY <2>5, <2>6
<1> QED BY <1>2, <1>3

\* Load and RetryDiff.
LEMMA StartOverKeepsLoad ==
  ASSUME CallsOK, DownOK, DiffOK, CallInv, LoadInv, NEW c \in Call, StartOver(c), job' = job,
         conn' # 0 => conn' \in attached'
  PROVE  LoadInv'
<1>1. CASE conn = 0 \/ diff.load # None
  <2>1. diff' = [diff EXCEPT !.due = FALSE] /\ UNCHANGED <<conn, call, up, down>>
    BY <1>1 DEF StartOver
  <2>2. SameDiff
    BY <2>1 DEF SameDiff, DiffOK, DiffRecord
  <2> QED BY <2>1, <2>2, LoadKept DEF UpBeside, DownBeside
<1>2. CASE ~(conn = 0 \/ diff.load # None)
  <2> DEFINE again == diff.again \/ diff.raw # <<>>
  <2>1. /\ Ask(c, "diff", 0)
        /\ diff' = [diff EXCEPT !.due = FALSE, !.load = c, !.page = <<>>, !.again = again]
    BY <1>2 DEF StartOver
  <2> HIDE DEF again
  <2>2. /\ diff'.load = c /\ diff'.raw = diff.raw /\ diff'.page = <<>> /\ diff'.next = diff.next
        /\ diff'.again = again
    BY <2>1 DEF DiffOK, DiffRecord
  <2>3. ~again => ~diff.again /\ 0 = Len(diff.raw)
    BY DEF again
  <2>4. conn \in attached'
    BY <1>2, <2>1 DEF Ask
  <2> QED BY <2>1, <2>2, <2>3, <2>4, LoadAsked
<1> QED BY <1>1, <1>2

LEMMA PhoneKeepsLoad ==
  ASSUME CallsOK, DownOK, DiffOK, CallInv, LoadInv, Phone, job' = job,
         attached' = attached \cup ({conn'} \ {0})
  PROVE  LoadInv'
<1>0. conn' # 0 => conn' \in attached'
  OBVIOUS
<1>1. CASE HandleFrame
  BY <1>0, <1>1, HandleFrameKeepsLoad DEF HandleFrame
<1>2. CASE Lost
  <2>1. /\ diff'.load = None /\ diff'.again = diff.again
        /\ diff'.raw = diff.raw /\ diff'.page = diff.page /\ diff'.next = diff.next
    BY <1>2 DEF Lost, DiffOK, DiffRecord
  <2> QED BY <1>0, <2>1, LoadEnds
<1>3. CASE Reconnected
  <2>1. diff.load = None
    BY <1>3 DEF Reconnected, LoadInv, Loading
  <2>2. /\ diff'.load = diff.load /\ diff'.again = diff.again
        /\ diff'.raw = diff.raw /\ diff'.page = diff.page /\ diff'.next = diff.next
    <3> DEFINE due == diff.due \/ diff.open
    <3>1. diff' = [diff EXCEPT !.due = due]
      BY <1>3 DEF Reconnected
    <3> HIDE DEF due
    <3> QED BY <3>1 DEF DiffOK, DiffRecord
  <2> QED BY <1>0, <2>1, <2>2, LoadEnds
<1>4. CASE OpenDiff \/ CloseDiff
  <2>1. diff' = NoDiff \/ diff' = [NoDiff EXCEPT !.open = TRUE, !.due = TRUE]
    BY <1>4 DEF OpenDiff, CloseDiff
  <2>0. NoDiff \in DiffRecord
    BY DEF NoDiff, DiffRecord
  <2>2. /\ diff'.load = NoDiff.load /\ diff'.raw = NoDiff.raw
        /\ diff'.page = NoDiff.page /\ diff'.next = NoDiff.next
    <3>1. CASE diff' = NoDiff
      BY <3>1
    <3>2. CASE diff' = [NoDiff EXCEPT !.open = TRUE, !.due = TRUE]
      BY <2>0, <3>2 DEF DiffRecord
    <3> QED BY <2>1, <3>1, <3>2
  <2>4. NoDiff.load = None /\ NoDiff.raw = <<>> /\ NoDiff.page = <<>> /\ NoDiff.next = 0
    BY DEF NoDiff
  <2>3. Meets(<<>>, 0) /\ Meets(<<>>, Len(<<>>))
    BY DEF Meets
  <2> QED BY <1>0, <2>4, <2>2, <2>3 DEF LoadInv
<1>5. ASSUME NEW c \in Call, TimerFires(c)
      PROVE  LoadInv'
  <2>1. /\ UNCHANGED <<conn, up, down>> /\ Settle(c, Rejection)
        /\ call' = [call EXCEPT ![c].at = "settled"]
    BY <1>5 DEF TimerFires, Settle
  <2>2. CASE c = diff.load
    <3>1. diff' = [diff EXCEPT !.load = None]
      BY <2>1, <2>2 DEF Settle, DiffAfter, IsResult, Rejection
    <3>2. /\ diff'.load = None /\ diff'.again = diff.again
          /\ diff'.raw = diff.raw /\ diff'.page = diff.page /\ diff'.next = diff.next
      BY <3>1 DEF DiffOK, DiffRecord
    <3> QED BY <1>0, <3>2, LoadEnds
  <2>3. CASE c # diff.load
    <3>1. SameDiff
      BY <2>1, <2>3, OtherSettles DEF SameDiff
    <3>2. diff.load # None => call'[diff.load] = call[diff.load]
      BY <2>1, <2>3 DEF CallsOK, DiffOK, DiffRecord
    <3> QED BY <1>0, <2>1, <3>1, <3>2, LoadKept DEF UpBeside, DownBeside
  <2> QED BY <2>2, <2>3
<1>6. ASSUME NEW c \in Call, NEW method, Ask(c, method, 0), UNCHANGED diff
      PROVE  LoadInv'
  <2>1. SameDiff /\ conn \in attached'
    BY <1>0, <1>6 DEF SameDiff, Ask
  <2> QED BY <1>6, <2>1, OtherAsked
<1>7. CASE UNCHANGED <<conn, opened, call, up, down>> /\ UNCHANGED diff
  BY <1>0, <1>7, LoadKept DEF SameDiff, UpBeside, DownBeside
<1>8. ASSUME NEW c \in Call, StartOver(c)
      PROVE  LoadInv'
  BY <1>0, <1>8, StartOverKeepsLoad
<1>9. ASSUME NEW c \in Call, NextPage(c)
      PROVE  LoadInv'
  <2>1. diff.next # 0 /\ diff.next \in Nat /\ Ask(c, "diff", diff.next)
    BY <1>9 DEF NextPage, DiffOK, DiffRecord
  <2>2. /\ diff'.load = c /\ diff'.raw = diff.raw /\ diff'.page = <<>> /\ diff'.next = diff.next
        /\ diff'.again = diff.again
    BY <1>9 DEF NextPage, DiffOK, DiffRecord
  <2>3. ~diff.again => diff.next = Len(diff.raw)
    BY <2>1 DEF LoadInv
  <2>4. conn \in attached'
    BY <1>0, <2>1 DEF Ask
  <2> QED BY <2>1, <2>2, <2>3, <2>4, LoadAsked
<1> QED BY <1>1, <1>2, <1>3, <1>4, <1>5, <1>6, <1>7, <1>8, <1>9
        DEF Phone, Refresh, FollowUp, Mutate, Load, RetryDiff

\* The Station takes the request of the load.
LEMMA LoadTaken ==
  ASSUME CallsOK, DownOK, DiffOK, DeskOK, CallInv, LoadInv, NEW n \in Conns, OnRpc(n),
         NEW c \in Call, c = diff.load, up[n] # <<>>, Head(up[n]) = c
  PROVE  LoadInv'
<1>0. UNCHANGED <<conn, call, diff, attached>> /\ diff.load = c /\ c # None
  BY DEF OnRpc
<1>1. Loading(c) /\ conn \in attached /\ conn \in Conns
  BY <1>0 DEF LoadInv, Loading, CallsOK
<1>2. n = conn
  <2>1. up[n] \in Seq(Call)
    BY DEF CallsOK
  <2>2. 1 \in DOMAIN up[n] /\ up[n][1] = c
    BY <2>1, Unread
  <2> QED BY <1>1, <2>2 DEF CallInv, Loading
<1>3. up[conn] \in Seq(Call) /\ up'[conn] = Tail(up[conn])
  BY <1>1, <1>2 DEF OnRpc, CallsOK
<1>4. Shown \in Nat /\ Shown' = Shown
  BY <1>0, ShownType DEF Shown
<1>5. ASSUME ~diff.again
      PROVE  Stage(c)'
  <2>1. Stage(c) /\ call[c].cursor = Len(diff.raw)
    BY <1>0, <1>5 DEF LoadInv
  <2>2. Waiting(c)
    BY <1>2, <1>3, <2>1, OnceTaken DEF Stage, Streaming, Ended
  <2>3. Absent(up'[conn], c)
    BY <1>2, <1>3, <2>2, OnceTaken DEF Waiting
  <2>4. Consecutive(down, c, Shown, Shown) /\ OnlyChunks(down, c)
    BY <1>4, <2>2, NoChunks DEF Waiting
  <2>5. CASE Send(c, "error", 0) /\ job' = job
    <3> DEFINE f == Frame(c, "error", 0)
    <3>1. down' = Append(down, f)
      BY <1>1, <2>5 DEF Send, Aborted, Loading
    <3>2. f \in FrameRecord /\ Of(f, c) /\ ~ChunkOf(f, c) /\ f.kind # "result"
      BY DEF Frame, FrameRecord, Of, ChunkOf
    <3> HIDE DEF f
    <3>3. Closed(down', c, Shown)
      BY <1>4, <2>4, <3>1, <3>2, EndAppended DEF DownOK
    <3> QED BY <1>0, <1>4, <2>2, <2>3, <2>5, <3>3 DEF Stage, Ended, Waiting
  <2>6. CASE job' = [job EXCEPT ![c] = [at |-> Place(c), value |-> call[c].cursor]] /\ down' = down
    <3>1. Place(c) = "streaming"
      BY <1>1 DEF Place, IsMutation, Loading
    <3>2. job'[c].at = "streaming" /\ job'[c].value = Len(diff.raw)
      BY <2>1, <2>6, <3>1 DEF DeskOK
    <3>3. Shown = Len(diff.raw)
      <4>1. Len(diff.raw) \in Nat /\ Len(<<>>) = 0
        BY ShownType
      <4> QED BY <2>2, <4>1 DEF Shown, Waiting
    <3> QED BY <1>0, <1>4, <2>3, <2>4, <2>6, <3>2, <3>3 DEF Stage, Streaming, JobAt
  <2> QED BY <1>1, <1>2, <2>5, <2>6 DEF OnRpc
<1>6. Loading(diff.load)'
  BY <1>0, <1>1 DEF Loading, Pending
<1>7. ~diff.again => Stage(diff.load)'
  BY <1>0, <1>5 DEF Stage, Waiting, Streaming, Ended, JobAt
<1> QED BY <1>0, <1>6, <1>7 DEF LoadInv

\* The Station goes on with the load.
LEMMA LoadGoesOn ==
  ASSUME CallsOK, DownOK, DiffOK, DeskOK, CallInv, LoadInv, NEW c \in Call, Desk(c), c = diff.load
  PROVE  LoadInv'
<1>0. UNCHANGED <<conn, call, up, diff, attached>> /\ diff.load = c /\ c # None
  BY DeskConcerns
<1>1. Loading(c) /\ conn \in attached /\ conn \in Conns /\ ~Aborted(c)
  BY <1>0 DEF LoadInv, Loading, CallsOK, Aborted
<1>2. Shown \in Nat /\ Shown' = Shown
  BY <1>0, ShownType DEF Shown
<1>3. job[c].value \in Nat
  BY DEF DeskOK, JobRecord
<1>4. ASSUME ~diff.again
      PROVE  Stage(c)'
  <2>1. Stage(c) /\ job[c].at # "none"
    BY <1>0, <1>4 DEF LoadInv, Desk, AnswerRead, RunMutation, ChangeRepo, MutationFails,
                      AnswerMutation, StreamLine, StreamEnds, StreamFails, JobAt
  <2>2. Streaming(c)
    BY <2>1 DEF Stage, Waiting, Ended, NoJob
  <2>3. CASE StreamLine(c)
    <3>1. down' = Append(down, Frame(c, "chunk", job[c].value + 1))
      BY <1>1, <2>3 DEF StreamLine, Send, Loading
    <3>2. job'[c].at = "streaming" /\ job'[c].value = job[c].value + 1
      BY <2>2, <2>3 DEF StreamLine, Streaming, JobAt, DeskOK, JobRecord
    <3>3. Consecutive(down', c, Shown, job[c].value + 1) /\ OnlyChunks(down', c)
      BY <1>2, <1>3, <2>2, <3>1, ChunkAppended DEF Streaming, DownOK
    <3> QED BY <1>0, <1>2, <2>2, <3>2, <3>3 DEF Stage, Streaming, JobAt
  <2>4. CASE StreamEnds(c) \/ StreamFails(c)
    <3>1. PICK f \in FrameRecord : /\ down' = Append(down, f) /\ Of(f, c) /\ ~ChunkOf(f, c)
                                   /\ f.kind = "result" => f.value \in {0, job[c].value}
      <4> DEFINE next == NextCursor(job[c].value)
      <4>1. next \in Nat /\ next \in {0, job[c].value}
        BY <1>3 DEF NextCursor
      <4>2. Send(c, "result", next) \/ Send(c, "error", 0)
        BY <2>4 DEF StreamEnds, StreamFails
      <4> HIDE DEF next
      <4>3. \/ down' = Append(down, Frame(c, "result", next))
            \/ down' = Append(down, Frame(c, "error", 0))
        BY <1>1, <4>2 DEF Send, Loading
      <4>4. /\ Frame(c, "result", next) \in FrameRecord /\ Of(Frame(c, "result", next), c)
            /\ Frame(c, "result", next).kind = "result" /\ Frame(c, "result", next).value = next
        BY <4>1 DEF Frame, FrameRecord, Of
      <4>5. /\ Frame(c, "error", 0) \in FrameRecord /\ Of(Frame(c, "error", 0), c)
            /\ Frame(c, "error", 0).kind = "error"
        BY DEF Frame, FrameRecord, Of
      <4> QED BY <4>1, <4>3, <4>4, <4>5 DEF ChunkOf
    <3>2. job'[c] = NoJob
      BY <2>4 DEF StreamEnds, StreamFails, Finished, DeskOK
    <3>3. Closed(down', c, Shown)
      BY <1>2, <1>3, <2>2, <3>1, EndAppended DEF Streaming, DownOK
    <3> QED BY <1>0, <1>2, <2>2, <3>2, <3>3 DEF Stage, Ended, Streaming
  <2> QED BY <2>2, <2>3, <2>4 DEF Desk, AnswerRead, RunMutation, ChangeRepo, MutationFails,
                                  AnswerMutation, Streaming, JobAt
<1>6. Loading(diff.load)'
  BY <1>0, <1>1 DEF Loading, Pending
<1>7. ~diff.again => Stage(diff.load)'
  BY <1>0, <1>4 DEF Stage, Waiting, Streaming, Ended, JobAt
<1>8. ~diff.again => call[c].cursor = Len(diff.raw)
  BY <1>0 DEF LoadInv
<1> QED BY <1>0, <1>6, <1>7, <1>8 DEF LoadInv

\* The Station deals with another call.
LEMMA StationKeepsLoad ==
  ASSUME CallsOK, DownOK, DiffOK, DeskOK, CallInv, LoadInv, NEW d \in Call, d # diff.load,
         UNCHANGED <<conn, call, diff, attached>>,
         \A c \in Call : c # d => job'[c] = job[c],
         diff.load # None => UpBeside(diff.load),
         \/ down' = down
         \/ \E kind \in {"chunk", "result", "error"}, value \in Nat : Send(d, kind, value)
  PROVE  LoadInv'
<1>1. diff.load # None => DownBeside(diff.load)
  <2>1. CASE down' = down
    BY <2>1 DEF DownBeside
  <2>2. ASSUME NEW kind \in {"chunk", "result", "error"}, NEW value \in Nat, Send(d, kind, value)
        PROVE  DownBeside(diff.load)
    <3> DEFINE f == Frame(d, kind, value)
    <3>1. ~Of(f, diff.load)
      BY DEF Frame, Of
    <3>2. down' = down \/ (f \in FrameRecord /\ down' = Append(down, f))
      BY <2>2, Sent
    <3> HIDE DEF f
    <3> QED BY <3>1, <3>2 DEF DownBeside
  <2> QED BY <2>1, <2>2
<1>2. diff.load # None => diff.load \in Call /\ job'[diff.load] = job[diff.load]
  BY DEF DiffOK, DiffRecord
<1> QED BY <1>1, <1>2, LoadKept DEF SameDiff, LoadInv

LEMMA LoadStep == TypeOK /\ CallInv /\ LoadInv /\ [Next]_vars => LoadInv'
<1> SUFFICES ASSUME CallsOK, DownOK, DiffOK, DeskOK, CallInv, LoadInv, [Next]_vars
             PROVE  LoadInv'
  BY TypeSplit
<1>1. CASE Phone /\ attached' = attached \cup ({conn'} \ {0}) /\ UNCHANGED <<active, tail, job, repo>>
  BY <1>1, PhoneKeepsLoad
<1>2. ASSUME NEW n \in Conns, OnRpc(n)
      PROVE  LoadInv'
  <2> DEFINE d == Head(up[n])
  <2>1. up[n] # <<>> /\ up[n] \in Seq(Call) /\ d \in Call
    BY <1>2 DEF OnRpc, CallsOK
  <2>2. CASE d = diff.load
    BY <1>2, <2>1, <2>2, LoadTaken
  <2>3. CASE d # diff.load
    <3>1. UNCHANGED <<conn, call, diff, attached>> /\ up' = [up EXCEPT ![n] = Tail(up[n])]
      BY <1>2 DEF OnRpc
    <3>2. \A c \in Call : c # d => job'[c] = job[c]
      BY <1>2, <2>1 DEF OnRpc, DeskOK
    <3>3. down' = down \/ Send(d, "error", 0)
      BY <1>2 DEF OnRpc
    <3>4. diff.load # None => UpBeside(diff.load)
      BY <2>1, <2>3, <3>1 DEF UpBeside, CallsOK
    <3> HIDE DEF d
    <3> QED BY <2>1, <2>3, <3>1, <3>2, <3>3, <3>4, StationKeepsLoad
  <2> QED BY <2>2, <2>3
<1>3. ASSUME NEW n \in Conns, Detach(n)
      PROVE  LoadInv'
  <2>1. UNCHANGED <<conn, call, up, down, diff, job>> /\ attached' = attached \ {n} /\ n # conn
    BY <1>3 DEF Detach, phoneVars
  <2>2. conn # 0 => conn \in attached'
    BY <2>1 DEF LoadInv
  <2> QED BY <2>1, <2>2, LoadKept DEF SameDiff, UpBeside, DownBeside
<1>4. ASSUME NEW d \in Call, Desk(d)
      PROVE  LoadInv'
  <2>1. CASE d = diff.load
    BY <1>4, <2>1, LoadGoesOn
  <2>2. CASE d # diff.load
    BY <1>4, <2>2, DeskConcerns, StationKeepsLoad DEF UpBeside
  <2> QED BY <2>1, <2>2
<1>5. CASE UNCHANGED vars
  <2>1. UNCHANGED <<conn, call, up, down, diff, job, attached>>
    BY <1>5 DEF vars, phoneVars, deskVars
  <2> QED BY <2>1, LoadKept DEF SameDiff, UpBeside, DownBeside, LoadInv
<1> QED BY <1>1, <1>2, <1>3, <1>4, <1>5 DEF Next

\* The pages of the diff meet without a gap or an overlap, however the stream is
\* cut into pages, fails half-way, is timed out or is left behind by a closed
\* screen or a lost connection, until the screen starts over with pages on it.
THEOREM PagesMeetAlways == Spec => []PagesMeet
<1>1. Init => LoadInv
  <2> SUFFICES ASSUME Init
               PROVE  LoadInv
    OBVIOUS
  <2>1. conn = 1 /\ attached = {1} /\ diff = NoDiff
    BY DEF Init, PhoneInit, DeskInit
  <2>2. diff.load = None /\ diff.raw = <<>> /\ diff.page = <<>> /\ diff.next = 0
    BY <2>1 DEF NoDiff
  <2>3. Meets(<<>>, 0) /\ Meets(<<>>, Len(<<>>))
    BY DEF Meets
  <2> QED BY <2>1, <2>2, <2>3 DEF LoadInv
<1>2. TypeOK /\ LoadInv => PagesMeet
  <2> SUFFICES ASSUME TypeOK, LoadInv, ~diff.again
               PROVE  \A i \in DOMAIN (diff.raw \o diff.page) : (diff.raw \o diff.page)[i] = i
    BY DEF PagesMeet
  <2>1. diff.raw \in Seq(Nat) /\ diff.page \in Seq(Nat)
    BY TypeSplit, ShownType
  <2> DEFINE lines == diff.raw \o diff.page
  <2>2. Meets(lines, 0) /\ lines \in Seq(Nat)
    BY <2>1, Joining, ConcatProperties DEF LoadInv
  <2> HIDE DEF lines
  <2>3. \A i \in DOMAIN lines : i \in Nat
    BY <2>2
  <2>4. \A i \in DOMAIN lines : lines[i] = i
    BY <2>2, <2>3 DEF Meets
  <2> QED BY <2>4 DEF lines
<1> QED BY <1>1, <1>2, TypeCorrect, CallInvariant, LoadStep, PTL DEF Spec
=============================================================================
