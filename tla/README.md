# basalt-server in TLA+

`basalt-server` hosts a programming competition: teams log in, read problems,
submit code, and watch the results on a websocket, while hosts start and pause
the clock and a leaderboard follows everybody. It is one Rust process (tokio,
axum) over one sqlite file. What is hard about it is that every request, every
run, every socket and every hook is a task of its own, that a task gives way at
each `.await`, and that clients, child processes and the process itself may
disappear at any of them.

This directory holds TLA+ modules translated from the code, TLC configurations
that check them on small instances, and proofs that TLAPS checks. Paths below
are relative to `basalt-server-lib/src/` unless they start with `src/`.

    tlc -workers 2 -config MCTester.cfg MCTester     # any run: its cfg, its module
    tlapm TesterProofs.tla                           # any module of section 4

`PROJECT.json` lists the runs with their properties, the lines each definition
stands for, the hazards with the properties that guard them, and the findings.

## 1. Inventory

| component | code | state | operations | talks to |
|---|---|---|---|---|
| Tester | `server/tester.rs` | `abort_handles`; for each run a task with counters, a statement under way, a result channel | `run_test`, `abort` | sqlite, delivery, standings, hooks |
| Questions service | `services/questions.rs` | none of its own | `create_submission`, `create_test`, `abort_submission`, `abort_test`, reads | tester, clock, sqlite |
| Result delivery | `server/tester.rs`, `spawn_ws_sender` | results gathered, the closing message | take, debounce, wait, gather, send | websockets, sqlite |
| Websockets | `server/websocket.rs`, `services/ws/` | `active_connections`, `waiting_connections`, a channel for each socket | `add_connection`, `remove_connection`, `wait_for_connection`, `broadcast` | clients |
| Clock | `server/clock.rs`, `services/clock.rs` | `start_time`, `pause_time`, `total_time_paused` under a lock | `pause`, `unpause`, `current_time`, `patch_clock` | hooks, websockets |
| Event hooks | `server/hooks/` | two channels, a thread per event, POSTs under way | `dispatch`, two handler loops | scripts, webhooks |
| Standings | `repositories/submissions.rs`, `services/leaderboard.rs`, `services/testing.rs` | tables `submission_history`, `test_results` | queries, `broadcast_team_update` | websockets |
| Sessions | `extractors/auth.rs`, `repositories/session.rs`, `services/auth.rs` | table `sessions` | login, logout, the extractors | teams, hooks, websockets |
| Teams | `server/teams.rs`, `services/teams.rs`, `repositories/users.rs` | `TeamManagement::teams`, table `users` | `check_in`, `disconnect`, `add_team`, `patch_team` | websockets |
| Announcements | `services/announcements.rs` | table `announcements` | create, delete | hooks, websockets |
| Storage, start-up | `storage/mod.rs`, `src/basalt-server/src/cli/run.rs` | the sqlite file | create, migrate, ingest, `init`, `init_hooks` | everything |
| Packet | `services/competition.rs`, crate bedrock | configuration, a rendered PDF | download | |
| Command line | `src/basalt-server/src/` | none | parse arguments | |

How they interact. A POST of code makes a submission id, registers an abort
handle, spawns the run and waits until it is set up. The run compiles, inserts a
row, tests case by case, stores each verdict, dispatches an event for it, puts it
on the run's channel, and in the end computes a score and updates the row. A
sender task takes the channel's messages, waits until the submitter's websocket
is open and sends them in as few messages as it can. A DELETE looks the row up,
takes the handle, signals the run and marks the row cancelled. After every ending
the run gathers the standing of its team from the tables and broadcasts it.

### What is hard, and what would be correct

* **Runs.** `tokio::select!` may drop the run at any await, in the middle of a
  statement that sqlite executes nevertheless; a run may finish while it is being
  aborted; statements fail; clients hang up; the process restarts on the same
  tables. The row, the stored verdicts, the closing message and the responses
  must still tell one story: a score comes from a complete run, nothing is
  announced that is not stored, a message that says how a run ended is true, at
  most one abort succeeds, and every waiting request is answered.
* **Delivery.** A user connects, reconnects and leaves at will while messages
  come, gather and time out. Each result goes to that user at most once and in
  order, nothing follows the closing message, and a result is lost only with a
  timeout or with the task that holds it, which returns with its closing message.
* **Websockets.** Two maps without a common lock, replaced at the same key by
  several sockets of a user.
* **Clock and hooks.** Concurrent pauses and unpauses; the time shown must be the
  time played; hooks must hear of changes in turn, webhooks in their order.
* **Standings.** A picture put together from several statements between which
  others write, ordered by a time that counts seconds.
* **Sessions and teams.** Any request checks its team in, and may do so after a
  logout; a handler can be cut off at each await. Hooks must hear of a check-in
  once, the teams of a request must be created together and become known, a
  logout must last, and a patch must not undo another.
* **Announcements.** A row, a broadcast and an event for each; the handlers of a
  create and of a delete race each other between their steps. What clients show
  must become what the table holds, and hooks must hear of every announcement
  that was broadcast, also when a webhook does not answer.
* **Start-up.** Errors and kills between the creation of the file and the
  ingestion of the accounts, and starts that overlap. A server must have all
  accounts of one configuration or none, and know the teams of its table.

## 2. Modules

    Packet ---- RunFeed ---------------+
       |           :                   :  (INSTANCE)
       +---- Tester ---- TesterInvariant ---- TesterProofs ---- TesterHistory
       |                        +------------ MCTester
    Clients ---- Connections ---- MCConnections
       |              :  (INSTANCE)
       +---- Delivery ---- DeliveryProofs        (Delivery also uses Packet, RunFeed)
                  +------- MCDelivery
    Hooks ..(INSTANCE).. Clock ---- ClockProofs
                           +------- MCClock
      :....(INSTANCE).. Announcements ..(INSTANCE)..+
                              Startup ..(INSTANCE)..+
                                                 Server ---- ServerProofs
                                                    +------- MCServer
    Standings ---- StandingsProofs               Sessions ---- SessionsProofs
         +-------- MCStandings                        +------- MCSessions

* **Packet**, **Clients**: constants with their assumptions. A submission id
  stands for its request: its submitter and `test_only` never change.
* **RunFeed**: the protocol of a run's result channel (`enum TestWsSend`) — the
  abstract specification that the tester implements and the sender relies on.
* **Tester**: the create handlers, the task of `run_test`, the DELETE handlers and
  the tables. `pc[r]` is the await at which the task of run `r` stands. Every
  await on the database is two steps, the execution of the statement (`Exec...`,
  sqlite's worker) and the polling of the task (`Resume...`); `SelectAbort` may
  come in between, and then the statement is executed all the same.
  `ExecError` is a statement that fails. `Restart` loses every task, handle and
  statement under way and keeps the tables. The clock appears as `paused`, which
  any step may change. Scores are abstracted to the counts they are computed
  from; compiling, running and scoring end in any of the ways their result types
  allow.
* **Connections**: `WebSocketManager` and the tasks of sockets. An operation on
  both maps is two steps. A socket task is `writing` while it awaits `ws.send`: it then
  looks at nothing else, and may stay there for ever. A waiter is any task that calls `wait_for_connection`.
* **Delivery**: `spawn_ws_sender` over Connections, fed by RunFeed. The message a
  task has in hand stays at the head of `queue` until it is used; history
  variables remember what was told, held back and dropped, and what became of the
  closing message (`fate`).
* **Hooks**: both event handlers. A thread goes through the scripts until one
  fails; POSTs arrive and end separately, and may never end.
* **Clock**: `ClockInfo` and `patch_clock` over Hooks. What happens under the write
  lock contains no await and is one step; the broadcast comes after the lock is
  gone and is another. Time is a number of ticks; `Restart` makes a new clock, in
  whose construction the time is read twice.
* **Standings**: the queries behind a team's score and states, the writes that
  change their answers, and `broadcast_team_update` with a step for each query.
  Rows have the second of their insertion, and any two may have the same.
* **Sessions**: login, the extractor, logout, `add_team`, `patch_team` and the
  tables and `TeamManagement` behind them. `at[q]` is the await at which the
  handler of request `q` stands. A statement is executed in one step, and what
  follows it up to the next await belongs to the next step; `CutOff` ends a
  handler at an await, with its statement done or not. A transaction is one step,
  at its commit. A login's session id is the login, the ids of new teams are those not
  drawn before. `Restart` keeps the tables and runs `AppState::init`.

* **Startup**: the steps of the command `run`, in any number of processes over one
  file. `place[p]` is the last step that process `p` has completed; `init[p]`, what
  it found when it looked for the file, decides whether it ingests. `End` is an
  error or a kill at any step; of two processes one holds the port.
* **Announcements**: the handlers of POST and DELETE. `at[q]` is how far the
  handler of a request has come; a dispatch is a send into one channel and then
  into the other. A handler whose client hangs up is dropped only where it awaits
  its statement (`CutOff`), with the statement done. `Shown` is what a client
  shows that has fetched the list and follows the broadcasts.
* **Server** composes Startup, Announcements and Hooks: requests are served while a
  process serves, and only if the table has the account of a host; when that
  process ends, handlers and hooks are gone and the tables stay for the next one.

Operators marked `faulty` are no part of the specifications. Each is a neighbour's
definition with a plausible mistake (a dropped guard, an ignored error, a missing
reset); put in its neighbour's place it makes TLC find a violation of the
property that `PROJECT.json` names, which shows that the property depends on that
line of the code.

## 3. Runs

| run | instance | shows |
|---|---|---|
| `tester_safety` | 1 submission of 2 cases, 2 DELETEs by any user, 1 restart | the safety properties of a run, its inductive invariant, the history of rows, and that the tester implements RunFeed |
| `tester_live` | 1 test run with 2 of 3 cases visible, 1 DELETE, 1 restart | runs end, requests are answered, an abort ends a run |
| `delivery_safety` | 1 run of 2 cases, 2 sockets of its user and 1 leaderboard | right user, order, no result twice, and lost only in the ways `ResultsAccounted` lists; true endings |
| `delivery_live` | 1 run of 1 case, 2 sockets | the sender returns, a replaced socket ends if writes to its client do, a connected user hears the end |
| `clock_safety` | 3 requests to pause or unpause, limit 1, 3 ticks, 1 restart, 1 script, 1 webhook | time, alternation, broadcasts, order at the webhook |
| `standings_safety` | 2 runs of a team, an older test of it and an older run of another, 2 seconds | the last submission counts; the right standing is told |
| `sessions_safety` | 3 requests of any kind, a host and a team with sessions of an earlier process, 2 ids for new teams, 2 patches of different fields, 1 restart | check-ins heard once, teams created together and known, logouts and patches last |
| `server` | 2 starts with a configuration that can be ingested or one that cannot, 2 requests that post an announcement or delete the other's, 1 script, 1 webhook | accounts whole, teams of the table, clients show the table, scripts and webhooks hear in the end |
| `tester_aborted` | 1 submission, 1 DELETE | **violation**, finding 1 |
| `delivery_held` | 1 run, 2 sockets | **violation**, finding 2 |
| `connections_timeout` | 2 sockets of a user, 1 waiter | **violation**, finding 3 |
| `hooks_stalled` | 1 start, 2 announcements, 2 webhooks | **violation**, finding 4 |

Why the bounds suffice. Runs share only the handle map, where each has its own
key, and the pause, so one run at a time shows what runs do (the proofs cover any
number). Two cases give a first and a last result with a failure in between; two
DELETEs are needed to compete for a handle. Two sockets of one user suffice for
an old connection to outlive a new one, a third socket tells keys apart. Three
requests make a change, its reversal and a repetition; a limit of 1 is reached
and passed within 3 ticks. Two racing runs suffice for one to read while the
other writes, and rows of another team and of a test for the filters of the
queries. Of three requests two can race while the third is a login of its own or
a logout before them; sessions of an earlier process give a host and a team to
start from; a request for two teams can have a conflict in one of them. Two
starts are one that makes the file and one that finds it, at any moment; two
requests are an announcement and its deletion, or two announcements of which one
waits behind the other (the proofs cover any number of each).
`MaxRestarts` (Tester, Clock, Sessions) and `MaxTime` (Clock, Standings) are the only
bounds in guards; they are constants, named as such where they are declared.
Symmetry is declared for requests, webhooks, racing runs and ids of new teams, in
runs that check safety only. Runs that may stop (all sockets gone, all requests served) say
`CHECK_DEADLOCK FALSE`.

**Fairness.** Weak fairness of polling: a tokio task whose await has resolved is
polled in the end, sqlite works off its queue, a timer fires, a ready branch of
`select!` is taken. The one strong fairness is that of `Close` (Delivery): a socket
task that comes back to `select!` and finds its channel closed, time and again, takes
that branch in the end although the client keeps it busy with pings, because
`select!` picks at random among the branches that are ready. Nothing is assumed of clients, of the handlers' pace, or of
submitted programs, scripts or webhooks: the first two liveness properties of the tester say *if* the
programs end (`ProgramsEnd`: the runner stops a case after its timeout, but no
timeout covers a build command), and `AbortEndsRun` needs no such premise;
`UnlistedSocketEnds` says *if* writes to clients end (`WritesEnd`: `ws.send` is
awaited inside a branch, and a client that does not read holds it up);
`WebhooksHearInTheEnd` says *if* the POSTs end (`PostsEnd`), and `ScriptsHear`, that a
script's evaluation begins, needs no premise. A server that ends excuses both.

## 4. Proofs

For every value of the constants that the assumptions allow (any number of runs,
cases, users, requests, starts, restarts, webhooks; any time limit):

| module | theorems |
|---|---|
| `TesterProofs` | `TypeCorrect`, `Invariant`, and from it `ScoresMatchResults`, `ClosingMessagesTrue`, `AnnouncedAfterStored`, `CancelNeedsSignal`, `OneAborter`, `OutcomeLeavesStarted` |
| `TesterHistory` | `KeepsChannelProtocol` (Tester implements RunFeed), `RowsMoveForward`, `ResultsStay` |
| `DeliveryProofs` | `TypeCorrect`, `RightUserOnly`, `TableStaysCurrent`, `Invariant`, and from it `ClientsAreToldInOrder`, `EveryResultAccounted`, `ClosingMessageIsTrue` |
| `ClockProofs` | `TypeCorrect`, `ClockShowsPlayed`, `EventsInTurn`, `HooksSkipNoEvent`, `WebhooksHearInOrder`, `EveryChangeIsBroadcast` |
| `SessionsProofs` | `TypeCorrect`, `Invariant`, and from it `CheckInsAreHeard`, `TeamsAreKnown`, `TeamsAreAddedTogether`, `LogoutsHold`, `PatchesAreKept` |
| `StandingsProofs` | `TypeCorrect`, `Invariant`, and from it `PicturesAreOfTheLast`, `StandingsAreTold` |
| `ServerProofs` | `StartInvariant`, and from it `AccountsAreWhole` and `TeamsAreKnown`; `TableIsShown` from `NewsInvariant` |

The invariants held in TLC on the instances of section 3 before they were proved.

*Tester.* No safety property is inductive by itself: that a score matches the
table depends on the counters of a task that may be gone when the UPDATE is
executed. `IInv` (TesterInvariant) says, run by run, which statement may be
outstanding at which place (`PlaceOf`), what the row looks like there (`RowOf`),
that the counters follow the table, one ahead while a result is being stored
(`CountOf`), the same for the channel (`ReportOf`), what a closing message
implies (`CloseOf`), who holds the handle (`HandleOf`), and how far each DELETE
is (`RequestInv`). `tester_safety` checks it as an invariant; it is proved action
by action. A frame lemma reduces a step of one run to the state of that run, and
`OneMoreResult` carries the only argument about cardinalities. It uses
`PacketAssumption` (finitely many cases) and `TesterAssumption`.

*What a run may do.* `TesterHistory` proves properties of steps. In each, one lemma
per kind of step says which variables it touches, and `IInv` gives what is known
there: a `Compiled` that is sent is the first message because `ReportOf` says what
has been sent at each place; a `Complete` comes after all results because `CountOf`
counts them. So every step of Tester is a step of RunFeed or leaves `feed` alone,
with the channel's variables as refinement mapping, and no step of a row is missing
in `RowEdges`, those of statements that outlive their task included.

*Delivery.* `RightUser` needs that a task is in the map under its own user
(`WaitersInv`); `TableIsCurrent` is inductive with the types. The rest is an account
of where every result of a run is: told, gathered, on the channel, or dropped by a
timeout, and nowhere twice (`ResultsOf`); and of what the closing message became when
the task returned (`FateOf`), on which depends what the results that are dropped with
the task gave way to: TestsComplete, which lists them, TestsError or TestsCancelled,
or a message that was itself not told. The first needs that the channel holds no case
twice and its closing message last (`ChannelOf`, which rests on RunFeed), and that a
closing message in hand is the run's own (`ClosingOf`). The lemmas `QueuedAfterAppend`,
`QueuedAfterTake` and `ToldAfterAppend` say what one message more or less does to
those sets.

*Clock.* `ClockInv` locates the pause under way between the start and the present
(`start + paused + played` is `pause_time` in a pause and `now` outside one); the
property itself forgets where the pause began and is not inductive.
`EventsAlternate` is, together with the type of `dispatched`. That the hooks skip
nothing follows from `HookInv`: what waits in a channel is the end of what was
dispatched (`EndsOf`), threads stand for what is gone from the one
(`ThreadsInv`), and all POSTs under way are of the last event gone from the other
(`PostsInv`), so what arrives next is later than all that has arrived.
`BroadcastInv` counts: every change of a kind is among those broadcast or in the
hands of one request. The proofs use `ClockAssumption`, and of finite sets that one
more element adds one.

*Sessions.* `WhoInv` says what a request has at each await: an account of the table,
a session of its own, the token it presents. `BatchInv`: the ids of one POST are its
own, and not known before they are inserted. `HeardInv`: a team that is checked in,
and the owner of every session that a client may present, was heard of or came in
silently. `LogoutInv`: a team with neither a session nor a logout between its two
halves is disconnected or excused. `PatchInv`: the draft that a request is about to
write is the account with the patch over it, unless the account was written since.
`OwnerKept` is the argument used most: whose a session is does not change while
anyone holds it. The proofs use `SessionsAssumption`.

*Standings.* `OrderInv`: a run is stored once and rows are in the order of their
times, so that the last row is of the latest second (`LastIsLatest`); with
`Distinct` no other row is (`LatestIsLast`), and the rows that the two queries yield
are those of the last submissions. `StatementInv`: a statement under way has a run
that waits for it, or its team is excused. `ToldInv` is the reason why standings are told: where
one is not, some run of the team has read nothing yet, or only what the table still
holds (`Current`). It is kept because the run whose statement is executed is before
its broadcast, and because other teams' rows are not in the picture
(`OthersUntouched`). The proofs use `StandingsAssumption`; that an earlier process left
finitely many rows is part of it. That a score is a number at all (`SumInNat`, a part
of the types) is proved by induction on the size of the set that is summed, from the
least element of a set of numbers (`Least`), as the library's induction theorems
cannot be cited.

*Server.* That the accounts are whole depends on who may still ingest: `FileInv` says
that only the process that made the file has both `init` and a file, `UsersInv` that
the table is empty until its commit and that configuration's afterwards.
`ClientsShowTable` speaks of moments when no handler is under way; `NewsInv` says what
holds between them: a row that clients do not show is with the handler of its
INSERT, and a shown announcement without a row was overtaken by its deletion or its
row is with a handler that has yet to broadcast it (`ShownInv`), which needs that a
name is inserted once and a row returned to one DELETE (`TableInv`). `AirShows` and
`AirHides` say what one more broadcast does to what a client shows.

**Model-checked only.** Liveness, as fairness and ENABLED are outside the prover's
reach: `RunEnds`, `RequestAnswered`, `AbortEndsRun`, `SenderEnds`,
`UnlistedSocketEnds`, `ConnectedUserHears`, `ScriptsHear`, `WebhooksHearInTheEnd`.
Every other property of a passing run is a theorem. The types of Tester, of the clock
and of the start, and `SingleAborter`, are proved and are conjuncts of invariants
that the runs check or the proofs establish; they are not listed in the runs again.

## 5. Findings

Each is a sentence of the repository that a run refutes.

1. `server/tester.rs:125`: `abort` "Returns whether the test existed and was
   successfully aborted". It returns true when the signal was sent; a run whose
   result is ready at that moment may still complete, keep its score and report
   TestsComplete, and the handler then marks its row cancelled and answers OK (`tester_aborted`).
2. `server/tester.rs:310`: "hold onto the results for the next cycle and send them
   then". If the next cycle brings an error or a cancellation, they are not sent
   (`delivery_held`; `ResultsAccounted` lists this among the ways to lose a result).
3. `server/websocket.rs:99`: None only "if the websocket does not occur before
   `timeout`". A user who connects between the look at one map and the entry in
   the other is missed for the whole timeout (`connections_timeout`).
4. `server/hooks/webhooks.rs:22`: "Each event is handled in a separate thread". The
   loop awaits all POSTs of an event before it takes the next, with a client that has
   no timeout: one webhook that never answers keeps all later events from every
   webhook (`hooks_stalled`).

What the models also show, without a document that says otherwise: a 201 may name
a run that has no row (`RequestAnswered` counts it as an answer); a row can stay
`started` for ever after an error or a restart (`NotLeftStarted` says when not);
a finish that outlives its cancelled run overwrites the state `cancelled`
(`RowHistory` lists the edge); the last standing broadcast may be an outdated one
(the comment at `RightPictureWasTold`); a request that was let in before its
session was closed shows the team as connected again, as does an expired session
that nobody closed, although `server/teams.rs:14` calls the flag one of a
deliberate disconnection (`excused` in `LogoutHolds`); teams whose `add_team` is
cut off after the commit can log in but are not in GET /teams until a restart
(`stranded`); the end of a user's older socket takes a newer one out of the table
(`TableIsCurrent`; `services/ws/connect.rs:62`), so that it hears nothing more; a start
that ends before its ingestion is committed, or whose configuration cannot be
ingested, leaves a file that every later start serves without accounts
(`AccountsWhole`); an announcement that is deleted before it was broadcast stays on
clients' screens (`Overtaken` in `ClientsShowTable`), and a statement whose handler is
dropped is not broadcast at all; a team with a session of an earlier process is checked in and no
hook hears of it (`silent`); the later of two overlapping patches restores what
the earlier one changed (`torn`). Each of these is named in a property as an
exception it has. Read, not checked: `run_test` gives test-only rows a score too, where
`migration.sql:26` says "score is not set" (`AllTested` in Tester; Standings leave it
out of the sum).

## 6. Not modelled

Of sessions and teams `last_seen`, and which password or username is right or
taken, which is a choice. The numbers given to the scoring formula,
`remaining_attempts` and the limit on submissions: they are two counts over
`submission_history`, and no document says what they should
be. The events of the tester and of check-ins on their way to the hooks, which is
that of announcements. Left out for good: the contents of code, output and messages;
what the crates erudite (runner), bedrock (configuration, scoring) and rustyscript do
inside, which appear as choices among their results; rendering the PDF; HTTP routing;
the command line; hashing. The unit tests, fixtures and API annotations make up much
of the source files and have no behaviour to model.

## 7. Plan

Done, in this order: Packet, RunFeed, Tester with its invariant and proofs;
Clients, Connections, Delivery; Hooks, Clock with its proofs; Standings; Sessions;
Startup, Announcements, Server with their proofs; then the proofs of the remaining
safety properties (TesterHistory, DeliveryProofs, SessionsProofs, the hooks and
broadcasts of ClockProofs, StandingsProofs). Left, most important first:

1. The safety part of liveness: that no task of a run, sender or handler is ever at
   a place that no action leaves.
2. Properties of steps: what a login, a logout or a restart may never undo; that a
   standing which was told is told no more only by a write.
3. The order in which hooks hear of announcements, as it is proved for the clock.
