------------------------------- MODULE GitDesk -------------------------------
(***************************************************************************)
(* The Station's side of structured Git: the requests of a viewer            *)
(* (cli/src/session.ts), RpcRouter, which runs one mutation at a time         *)
(* (rpcRouter.ts), and GitService (gitService.ts).                            *)
(*                                                                         *)
(* The repository is a version: how many mutations have changed it.  The      *)
(* diff that is shown has DiffLines lines, and no mutation touches its file.  *)
(***************************************************************************)
EXTENDS GitScreens

CONSTANTS MaxActive,  \* requests a viewer may have under way
          DiffLines, PageLines
ASSUME DeskAssumption == {MaxActive, DiffLines, PageLines} \subseteq Nat

VARIABLES
  attached,  \* connections the Station serves
  active,    \* calls under way, per connection
  tail,      \* mutations in the order they will run: mutationTail
  job,       \* how far the Station is with each call
  repo

deskVars == <<attached, active, tail, job, repo>>
vars == <<phoneVars, deskVars>>

NoJob == [at |-> "none", value |-> 0]
DeskInit ==
  /\ attached = {1}
  /\ active = [n \in Conns |-> {}]
  /\ tail = <<>> /\ job = [c \in Call |-> NoJob] /\ repo = 0

JobAt(c, place) == job[c].at = place
Aborted(c) == call[c].on \notin attached

\* sendTo reaches a viewer that is attached; a frame to a connection the phone
\* has left is lost.
Frame(c, kind, value) == [id |-> c, kind |-> kind, value |-> value]
Send(c, kind, value) ==
  down' = IF call[c].on = conn /\ ~Aborted(c) THEN Append(down, Frame(c, kind, value)) ELSE down

\* The handler of c ends, and its slot is free again.
Finished(c) ==
  /\ job' = [job EXCEPT ![c] = NoJob]
  /\ active' = [active EXCEPT ![call[c].on] = @ \ {c}]

\* handleRpc: the request of an attached viewer begins, unless it has too many.
\* A mutation joins the tail; what arrives after detach is dropped.
IsMutation(c) == call[c].method \in {"stage", "commit"}
Place(c) == CASE IsMutation(c) -> "queued" [] call[c].method = "diff" -> "streaming" [] OTHER -> "reading"
Joined(c) == IF IsMutation(c) THEN Append(tail, c) ELSE tail
OnRpc(n) ==
  /\ up[n] # <<>>
  /\ up' = [up EXCEPT ![n] = Tail(@)]
  /\ LET c == Head(up[n])
     IN IF n \notin attached THEN UNCHANGED <<down, active, tail, job>>
        ELSE IF Cardinality(active[n]) >= MaxActive
        THEN Send(c, "error", 0) /\ UNCHANGED <<active, tail, job>>
        ELSE /\ active' = [active EXCEPT ![n] = @ \cup {c}]
             /\ job' = [job EXCEPT ![c] = [at |-> Place(c), value |-> call[c].cursor]]
             /\ tail' = Joined(c)
             /\ UNCHANGED down
  /\ UNCHANGED <<conn, opened, call, git, diff, attached, repo>>

deskOnly == <<conn, opened, call, up, git, diff, attached>>

\* How many files or branches an answer lists: as many as git does.
Listed == {256, 257}

\* GitService.status, log and branches: the answer, or the error of one of them.
AnswerRead(c) ==
  /\ JobAt(c, "reading")
  /\ \/ \E entries \in Listed : Send(c, "result", entries)
     \/ Send(c, "error", 0)
  /\ Finished(c)
  /\ UNCHANGED <<deskOnly, tail, repo>>

\* Fault: mutations do not wait for one another.
RunAnyMutation(c) ==
  /\ JobAt(c, "queued")
  /\ job' = [job EXCEPT ![c].at = "running"]
  /\ UNCHANGED <<deskOnly, down, active, tail, repo>>

\* Fault: a mutation whose viewer has gone keeps its place.
RunKeepingAborted(c) ==
  /\ tail # <<>> /\ c = Head(tail) /\ JobAt(c, "queued")
  /\ IF Aborted(c) THEN Finished(c) /\ UNCHANGED tail
     ELSE job' = [job EXCEPT ![c].at = "running"] /\ UNCHANGED <<active, tail>>
  /\ UNCHANGED <<deskOnly, down, repo>>

\* serializeMutation: the mutation at the head of the tail runs; one whose
\* viewer has gone is skipped.
RunMutation(c) ==
  /\ tail # <<>> /\ c = Head(tail) /\ JobAt(c, "queued")
  /\ IF Aborted(c) THEN Finished(c) /\ tail' = Tail(tail)
     ELSE job' = [job EXCEPT ![c].at = "running"] /\ UNCHANGED <<active, tail>>
  /\ UNCHANGED <<deskOnly, down, repo>>

ChangeRepo(c) ==
  /\ JobAt(c, "running")
  /\ repo' = repo + 1
  /\ job' = [job EXCEPT ![c] = [at |-> "changed", value |-> repo']]
  /\ UNCHANGED <<deskOnly, down, active, tail>>

\* git refuses: nothing to commit, no such branch, invalid paths.
MutationFails(c) ==
  /\ JobAt(c, "running")
  /\ Send(c, "error", 0)
  /\ Finished(c) /\ tail' = Tail(tail)
  /\ UNCHANGED <<deskOnly, repo>>

\* The answer to a mutation carries the status that is read after it; when that
\* read fails, the caller of a change that was made is told of an error.
AnswerMutation(c) ==
  /\ JobAt(c, "changed")
  /\ \/ \E entries \in Listed : Send(c, "result", entries)
     \/ Send(c, "error", 0)
  /\ Finished(c) /\ tail' = Tail(tail)
  /\ UNCHANGED <<deskOnly, repo>>

\* streamDiff: lines from the cursor, at most a page of them; the end says
\* where the next page begins, 0 when there is none.
PageEnd(cursor) == IF cursor + PageLines < DiffLines THEN cursor + PageLines ELSE DiffLines
StreamLine(c) ==
  /\ JobAt(c, "streaming") /\ ~Aborted(c)
  /\ job[c].value < PageEnd(call[c].cursor)
  /\ job' = [job EXCEPT ![c].value = @ + 1]
  /\ Send(c, "chunk", job[c].value + 1)
  /\ UNCHANGED <<deskOnly, active, tail, repo>>
NextCursor(end) == IF end < DiffLines THEN end ELSE 0
StreamEnds(c) ==
  /\ JobAt(c, "streaming")
  /\ job[c].value = PageEnd(call[c].cursor)
  /\ Send(c, "result", NextCursor(job[c].value))
  /\ Finished(c)
  /\ UNCHANGED <<deskOnly, tail, repo>>

\* git fails, takes too long, or is killed because the viewer has gone.
StreamFails(c) ==
  /\ JobAt(c, "streaming")
  /\ Send(c, "error", 0)
  /\ Finished(c)
  /\ UNCHANGED <<deskOnly, tail, repo>>

\* The viewer's connection ends: its requests are aborted and its slots go.
Detach(n) ==
  /\ n \in attached /\ n # conn
  /\ attached' = attached \ {n}
  /\ active' = [active EXCEPT ![n] = {}]
  /\ UNCHANGED <<phoneVars, tail, job, repo>>

Desk(c) ==
  \/ AnswerRead(c) \/ RunMutation(c) \/ ChangeRepo(c) \/ MutationFails(c)
  \/ AnswerMutation(c) \/ StreamLine(c) \/ StreamEnds(c) \/ StreamFails(c)

Init == PhoneInit /\ DeskInit
Next ==
  \/ Phone /\ attached' = attached \cup ({conn'} \ {0}) /\ UNCHANGED <<active, tail, job, repo>>
  \/ \E n \in Conns : OnRpc(n) \/ Detach(n)
  \/ \E c \in Call : Desk(c)

\* Every git process ends, every event is delivered on both sides, the timer of
\* a call fires, and what awaits the end of a call goes on.
Fairness ==
  /\ \A c \in Call : WF_vars(TimerFires(c) /\ UNCHANGED deskVars)
  /\ WF_vars(\E c \in Call : FollowUp(c) /\ UNCHANGED deskVars)
  /\ \A c \in Call : WF_vars(Desk(c))
  /\ \A n \in Conns : WF_vars(OnRpc(n)) /\ WF_vars(Detach(n))
Spec == Init /\ [][Next]_vars /\ Fairness

JobRecord == [at : {"none", "queued", "running", "changed", "streaming", "reading"}, value : Nat]
TypeOK ==
  /\ ScreensTypeOK
  /\ attached \subseteq Conns /\ active \in [Conns -> SUBSET Call]
  /\ job \in [Call -> JobRecord]
  /\ tail \in Seq(Call) /\ repo \in Nat

\* Between the change a mutation makes and the status it answers with, nobody
\* else's mutation changes the repository: the answer shows the caller its own
\* change and nothing after it, whatever was retried after a timeout or came
\* over another connection.
AnswerIsOwnOutcome == \A c \in Call : JobAt(c, "changed") => repo = job[c].value

\* What the diff screen shows is the diff from its first line on: pages meet
\* without a gap or an overlap, and a page that failed half-way is taken back
\* when it is loaded again.  It holds until the screen starts over with pages
\* on it, after a reconnect or by Retry: it then shows the first page again.
PagesMeet ==
  LET lines == diff.raw \o diff.page
  IN ~diff.again => \A i \in DOMAIN lines : lines[i] = i

\* Every request gives its slot back: a mutation behind one that was aborted,
\* or failed, or timed out on the phone, still gets its turn.
EverySlotFreed == \A n \in Conns : \A c \in Call : c \in active[n] ~> c \notin active[n]

\* The buttons that an operation of the Git screen disables come back, whatever
\* became of the operation: refused, overtaken by its timer, lost with the
\* connection, or answered with more than the phone takes; and whatever became
\* of the refresh after it.  Waiting for a refresh that the bound on calls
\* leaves out is no counterexample.
NoCallLeft == \A c \in Call : call[c].at # "unused"
ButtonsReleased == git.busy ~> (~git.busy \/ (git.follow /\ NoCallLeft))
=============================================================================
