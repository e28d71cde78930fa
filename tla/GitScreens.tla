------------------------------ MODULE GitScreens ------------------------------
(***************************************************************************)
(* The phone's side of structured Git: RpcClient, which matches answers with *)
(* calls (client/rpcClient.ts), the Git screen and the diff screen           *)
(* (git/GitScreen.tsx, DiffScreen.tsx).                                      *)
(*                                                                         *)
(* A connection is a number; a call belongs to the connection it was sent    *)
(* on.  The three reads of a refresh are one call: it fails when one fails.  *)
(* "reload" is the refresh that ends a commit or a checkout.                 *)
(***************************************************************************)
EXTENDS Protocol, Sequences, FiniteSets

CONSTANTS None,
          MaxConns,  \* bound: connections, one after the other
          MaxCalls   \* bound: calls; an id is a number that is used once

Conns == 1..MaxConns
Call == 1..MaxCalls
Operation == {"stage", "commit", "reload"}  \* these hold the buttons
Method == Operation \cup {"refresh", "diff"}
ASSUME ScreenAssumption == MaxConns \in Nat \ {0} /\ MaxCalls \in Nat /\ None \notin Call

VARIABLES
  conn,   \* the current connection, 0 when there is none
  opened, \* connections so far
  call,   \* what each call asks, and whether its promise is pending
  up,     \* requests on their way to the Station, per connection
  down,   \* frames on their way to the phone, on the current connection
  git,    \* the Git screen
  diff    \* the diff screen

phoneVars == <<conn, opened, call, up, down, git, diff>>

Unused == [at |-> "unused", method |-> None, on |-> 0, cursor |-> 0]
Fresh(c) == c = 1 + Cardinality({d \in Call : call[d].at # "unused"})
Pending(c) == call[c].at = "pending"

\* busy: an operation holds the buttons; follow: one has to refresh the screen.
NoGit == [busy |-> FALSE, follow |-> FALSE]

\* raw: the lines of the pages that are complete; page: those of the page that
\* is loading, or failed; next: where the next page begins; due: load() is
\* about to run without a cursor; again: history, it did so after a page.
NoDiff == [open |-> FALSE, load |-> None, raw |-> <<>>, page |-> <<>>, next |-> 0, due |-> FALSE,
           again |-> FALSE]

PhoneInit ==
  /\ conn = 1 /\ opened = 1
  /\ call = [c \in Call |-> Unused]
  /\ up = [n \in Conns |-> <<>>] /\ down = <<>>
  /\ git = NoGit /\ diff = NoDiff

\* RpcClient.request and stream: the call is pending, and sent.
Ask(c, method, cursor) ==
  /\ conn # 0 /\ Fresh(c)
  /\ call' = [call EXCEPT ![c] = [at |-> "pending", method |-> method, on |-> conn, cursor |-> cursor]]
  /\ up' = [up EXCEPT ![conn] = Append(@, c)]
  /\ UNCHANGED <<conn, opened, down>>

\* What the screens make of the end of call c: its result, or a rejection.
IsResult(outcome) == outcome.kind = "result"
Committed(c, outcome) == call[c].method = "commit" /\ IsResult(outcome)

\* Fault: an operation that fails leaves the buttons disabled.
ReleasesOnSuccess(c, outcome) == call[c].method \in {"stage", "reload"} /\ IsResult(outcome)
Releases(c, outcome) == call[c].method \in Operation /\ ~Committed(c, outcome)

GitAfter(screen, c, outcome) ==
  [follow |-> screen.follow \/ Committed(c, outcome),
   busy |-> screen.busy /\ ~Releases(c, outcome)]
DiffAfter(screen, c, outcome) ==
  IF screen.load # c THEN screen
  ELSE IF ~IsResult(outcome) THEN [screen EXCEPT !.load = None]
  ELSE [screen EXCEPT !.load = None, !.raw = @ \o screen.page, !.page = <<>>, !.next = outcome.value]
Rejection == [kind |-> "error", value |-> 0]

Settle(c, outcome) ==
  /\ call' = [call EXCEPT ![c].at = "settled"]
  /\ git' = GitAfter(git, c, outcome)
  /\ diff' = DiffAfter(diff, c, outcome)

\* Fault: a chunk goes to the page whatever load it was asked by.
PageOfAnyLoad(frame) == IF diff.open THEN Append(diff.page, frame.value) ELSE diff.page

\* onChunk: every load appends the chunks of its own stream to its own page.
PageWith(frame) == IF diff.load = frame.id THEN Append(diff.page, frame.value) ELSE diff.page

\* decodeFrame: an answer that lists too much is refused.
Listing(entries) == [depth |-> 3, entries |-> entries, key |-> 14]
Decoded(frame) ==
  frame.kind = "result" /\ call[frame.id].method # "diff" => IsJsonValue(Listing(frame.value))

\* onmessage: a frame that is refused is dropped, and the socket closed: Lost
\* follows, as it may at any time.  handleFrame: a frame of a call that is not pending any more is ignored; a
\* chunk goes to the page that is loading; the rest settles the call.
HandleFrame ==
  /\ down # <<>>
  /\ down' = Tail(down)
  /\ LET frame == Head(down)
     IN IF ~Decoded(frame) \/ ~Pending(frame.id) THEN UNCHANGED <<call, git, diff>>
        ELSE IF frame.kind # "chunk" THEN Settle(frame.id, frame)
        ELSE /\ diff' = [diff EXCEPT !.page = PageWith(frame)]
             /\ UNCHANGED <<call, git>>
  /\ UNCHANGED <<conn, opened, up>>

TimerFires(c) ==
  /\ Pending(c)
  /\ Settle(c, Rejection)
  /\ UNCHANGED <<conn, opened, up, down>>

\* The connection is lost: RpcClient.disconnect rejects every call at once.
Lost ==
  /\ conn # 0
  /\ conn' = 0 /\ down' = <<>>
  /\ call' = [c \in Call |-> IF Pending(c) THEN [call[c] EXCEPT !.at = "settled"] ELSE call[c]]
  /\ git' = [git EXCEPT !.busy = @ /\ \A c \in Call : Pending(c) => call[c].method \notin Operation]
  /\ diff' = [diff EXCEPT !.load = None]
  /\ UNCHANGED <<opened, up>>

\* A new connection: the load function of the diff screen depends on the state
\* of the connection, and its effect runs it again.
Reconnected ==
  /\ conn = 0 /\ opened < MaxConns
  /\ opened' = opened + 1 /\ conn' = opened + 1
  /\ diff' = [diff EXCEPT !.due = @ \/ diff.open]
  /\ UNCHANGED <<call, up, down, git>>

\* refresh, on focus or by its button.
Refresh(c) == Ask(c, "refresh", 0) /\ UNCHANGED <<git, diff>>

\* The buttons of the files and of the commit are disabled while the screen is
\* busy; those of the branches are not.  A checkout proceeds as a commit does.
Mutate(c, method) ==
  /\ method = "stage" => ~git.busy
  /\ Ask(c, method, 0)
  /\ git' = [git EXCEPT !.busy = TRUE]
  /\ UNCHANGED diff

\* commit and checkout refresh the screen before they release the buttons.
FollowUp(c) ==
  /\ git.follow
  /\ git' = [git EXCEPT !.follow = FALSE, !.busy = conn # 0 /\ @]
  /\ IF conn = 0 THEN UNCHANGED <<conn, opened, call, up, down>> ELSE Ask(c, "reload", 0)
  /\ UNCHANGED diff

OpenDiff ==
  /\ conn # 0 /\ ~diff.open
  /\ diff' = [NoDiff EXCEPT !.open = TRUE, !.due = TRUE]
  /\ UNCHANGED <<conn, opened, call, up, down, git>>
CloseDiff ==
  /\ diff.open
  /\ diff' = NoDiff
  /\ UNCHANGED <<conn, opened, call, up, down, git>>

\* load(): nothing while another load runs or the connection is down.
StartOver(c) ==
  /\ IF conn = 0 \/ diff.load # None
     THEN diff' = [diff EXCEPT !.due = FALSE] /\ UNCHANGED <<conn, opened, call, up, down>>
     ELSE /\ Ask(c, "diff", 0)
          /\ diff' = [diff EXCEPT !.due = FALSE, !.load = c, !.page = <<>>, !.again = @ \/ diff.raw # <<>>]
  /\ UNCHANGED git
Load(c) == diff.due /\ StartOver(c)
RetryDiff(c) == diff.open /\ ~diff.due /\ diff.load = None /\ conn # 0 /\ StartOver(c)

\* onEndReached: the next page.
NextPage(c) ==
  /\ diff.open /\ diff.next # 0 /\ diff.load = None
  /\ Ask(c, "diff", diff.next)
  /\ diff' = [diff EXCEPT !.load = c, !.page = <<>>]
  /\ UNCHANGED git

Phone ==
  \/ HandleFrame \/ Lost \/ Reconnected \/ OpenDiff \/ CloseDiff
  \/ \E c \in Call : \/ TimerFires(c) \/ Refresh(c) \/ FollowUp(c) \/ Load(c) \/ RetryDiff(c) \/ NextPage(c)
                     \/ \E method \in {"stage", "commit"} : Mutate(c, method)

CallRecord ==
  [at : {"unused", "pending", "settled"}, method : Method \cup {None}, on : 0..MaxConns, cursor : Nat]
FrameRecord == [id : Call, kind : {"chunk", "result", "error"}, value : Nat]
DiffRecord ==
  [open : BOOLEAN, load : Call \cup {None}, raw : Seq(Nat), page : Seq(Nat), next : Nat,
   due : BOOLEAN, again : BOOLEAN]
ScreensTypeOK ==
  /\ conn \in 0..MaxConns /\ opened \in Conns
  /\ call \in [Call -> CallRecord]
  /\ up \in [Conns -> Seq(Call)] /\ down \in Seq(FrameRecord)
  /\ git \in [busy : BOOLEAN, follow : BOOLEAN] /\ diff \in DiffRecord
=============================================================================
