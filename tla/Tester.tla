------------------------------- MODULE Tester -------------------------------
(***************************************************************************)
(* The life of a submission: the request handlers create_submission and    *)
(* create_test, the task that run_test spawns (compile, store the row, run *)
(* the cases one by one, store each result, score), the handlers           *)
(* abort_submission and abort_test, and the rows all of them write.        *)
(*                                                                         *)
(* Every `.await` on the database is two steps: the statement is executed  *)
(* by sqlite's worker thread (the Exec actions), and later the task that   *)
(* waits for it is polled (the Resume actions).  In between, and at every  *)
(* other await, tokio::select! may drop the waiting future in favour of    *)
(* abort_rx; a statement already handed to the worker runs all the same.   *)
(***************************************************************************)
EXTENDS Packet, Naturals, FiniteSets

CONSTANTS
    Users,         \* accounts that send requests
    Hosts,         \* those with Role::Host
    Submitter,     \* the account each run belongs to
    Requests,      \* DELETE requests, each served once
    NoRun,         \* the target of a request that has not found one
    MaxRestarts    \* bound: how often the process is killed and started again

ASSUME TesterAssumption ==
    /\ Hosts \subseteq Users
    /\ Submitter \in [Runs -> Users]
    /\ NoRun \notin Runs
    /\ MaxRestarts \in Nat

VARIABLES
    paused,         \* AppState::is_paused, see module Clock
    req,            \* req[r]: the create handler that runs r
    pc,             \* pc[r]: where the task of r waits
    stmt,           \* stmt[r]: the statement the task of r handed to sqlite
    yielded,        \* yielded[r]: the cases the runner has handed over so far
    current,        \* current[r]: the last <<case, verdict>> it has handed over
    tally,          \* tally[r]: the task's counters, passed and failed
    state,          \* table submission_history: column state, or "absent"
    score,          \* its columns score, success, passed and failed
    test_results,   \* table test_results: the verdict stored for each case
    abort_handles,  \* Tester::abort_handles
    signalled,      \* the runs whose abort_tx has been sent
    compiled,       \* what each run has sent on its result channel:
    reported,       \*   Compiled, the cases reported with Result,
    final,          \*   and the closing message
    apc,            \* apc[a]: the state of DELETE request a, or its response
    target,         \* target[a]: the submission request a has found
    restarts        \* restarts so far, only to bound them

locals == <<yielded, current, tally>>
task == <<pc, stmt, locals>>
db == <<state, score, test_results>>
feed == <<compiled, reported, final>>
aborts == <<abort_handles, signalled, apc, target>>
vars == <<paused, req, task, db, aborts, feed, restarts>>

Feed == INSTANCE RunFeed

(* Operators marked "faulty" are not used: each is the form its neighbour    *)
(* would take under a plausible mistake, and is put in its place to see that *)
(* a property notices.                                                       *)

Verdicts == {"pass", "fail"}
Statements == {"insert", "insert_failed", "record", "finish", "fail"}
Outcomes == {"none", "ok", "err"}
Live == {"compiling", "testing"} \union Statements
Places == Live \union {"idle", "broadcast", "done", "lost"}
Responses == {"ok", "refused", "error", "dropped"}
RowStates == {"absent", "started", "finished", "failed", "cancelled"}
Scores == [set : BOOLEAN, success : BOOLEAN, passed : Nat, failed : Nat]
NoScore == [set |-> FALSE, success |-> FALSE, passed |-> 0, failed |-> 0]

ListeningToTheEnd(r) == pc[r] \in Live \union {"broadcast"}     \* faulty
ListeningAtStatements(r) == pc[r] \in Statements                 \* faulty
Listening(r) == pc[r] \in Live      \* abort_rx has not been dropped

OverInAnyCase(r) == stmt[r] \in {"ok", "err"}                    \* faulty
Succeeded(r) == stmt[r] = "ok"      \* what the await of the statement returns

Stored(r, v) == {c \in Cases : test_results[r][c] = v}
Recorded(r) == {c \in Cases : test_results[r][c] # "none"}

Init ==
    /\ paused = TRUE
    /\ req = [r \in Runs |-> "idle"]
    /\ pc = [r \in Runs |-> "idle"]
    /\ stmt = [r \in Runs |-> "none"]
    /\ yielded = [r \in Runs |-> {}]
    /\ current = [r \in Runs |-> <<>>]
    /\ tally = [r \in Runs |-> [v \in Verdicts |-> 0]]
    /\ state = [r \in Runs |-> "absent"]
    /\ score = [r \in Runs |-> NoScore]
    /\ test_results = [r \in Runs |-> [c \in Cases |-> "none"]]
    /\ abort_handles = {}
    /\ signalled = {}
    /\ Feed!Init
    /\ apc = [a \in Requests |-> "idle"]
    /\ target = [a \in Requests |-> NoRun]
    /\ restarts = 0

-----------------------------------------------------------------------------
(* POST /{question}/submissions and /tests *)

(* 409 when paused, 404 when no runner exists for the language and problem. *)
CreateRejected(r) ==
    /\ req[r] = "idle"
    /\ req' = [req EXCEPT ![r] = "rejected"]
    /\ UNCHANGED <<paused, task, db, aborts, feed, restarts>>

(* run_test up to setup_rx.await: the handle is registered, the task spawned. *)
CreateAccepted(r) ==
    /\ ~paused
    /\ req[r] = "idle"
    /\ req' = [req EXCEPT ![r] = "waiting"]
    /\ abort_handles' = abort_handles \union {r}
    /\ pc' = [pc EXCEPT ![r] = "compiling"]
    /\ UNCHANGED <<paused, stmt, locals, db, signalled, apc, target,
                   feed, restarts>>

SetupSent(r) == pc[r] = "testing"                                \* faulty
SetupOver(r) == pc[r] \notin {"compiling", "insert", "insert_failed"}

(* setup_rx resolves when setup_tx has been sent, and also when it has been  *)
(* dropped because the result future is over.  Both end in 201 Created.      *)
CreateAnswered(r) ==
    /\ req[r] = "waiting"
    /\ SetupOver(r)
    /\ req' = [req EXCEPT ![r] = "created"]
    /\ UNCHANGED <<paused, task, db, aborts, feed, restarts>>

(* The client hangs up, and its handler is dropped; the task goes on. *)
CreateDropped(r) ==
    /\ req[r] = "waiting"
    /\ req' = [req EXCEPT ![r] = "dropped"]
    /\ UNCHANGED <<paused, task, db, aborts, feed, restarts>>

-----------------------------------------------------------------------------
(* The task *)

AwaitUnsent(r, s) == pc' = [pc EXCEPT ![r] = s] /\ UNCHANGED stmt    \* faulty
Await(r, s) ==      \* hand statement s to sqlite and wait for it
    /\ pc' = [pc EXCEPT ![r] = s]
    /\ stmt' = [stmt EXCEPT ![r] = s]

End(r, f) ==        \* tokio::select! is over: both futures have been dropped
    /\ pc' = [pc EXCEPT ![r] = "broadcast"]
    /\ final' = [final EXCEPT ![r] = f]
    /\ UNCHANGED <<compiled, reported>>

(* The compile command ran and failed; the row is stored as failed at once. *)
CompileFails(r) ==
    /\ pc[r] = "compiling"
    /\ Await(r, "insert_failed")
    /\ UNCHANGED <<paused, req, locals, db, aborts, feed, restarts>>

(* The compiler cannot be spawned, or a count query fails before the row.   *)
CompileErrors(r) ==
    /\ pc[r] = "compiling"
    /\ End(r, "Error")
    /\ UNCHANGED <<paused, req, stmt, locals, db, aborts, restarts>>

(* Compiled is sent only by languages that have a build command. *)
CompileSucceeds(r, built) ==
    /\ pc[r] = "compiling"
    /\ compiled' = [compiled EXCEPT ![r] = built]
    /\ Await(r, "insert")
    /\ UNCHANGED <<paused, req, locals, db, aborts, reported, final, restarts>>

ResumeInsertFailed(r) ==
    /\ pc[r] = "insert_failed"
    /\ \/ Succeeded(r) /\ End(r, "CompileFailed")
       \/ stmt[r] = "err" /\ End(r, "Error")
    /\ UNCHANGED <<paused, req, stmt, locals, db, aborts, restarts>>

ResumeInsert(r) ==
    /\ pc[r] = "insert"
    /\ \/ /\ Succeeded(r)
          /\ pc' = [pc EXCEPT ![r] = "testing"]
          /\ UNCHANGED feed
       \/ stmt[r] = "err" /\ End(r, "Error")
    /\ UNCHANGED <<paused, req, stmt, locals, db, aborts, restarts>>

DueAgain(r) == IF yielded[r] = CasesOf(r) THEN {} ELSE CasesOf(r)  \* faulty
Due(r) == CasesOf(r) \ yielded[r]

(* wait_next yields the verdict on one more case; it is counted, then stored. *)
NextResult(r, c, v) ==
    /\ pc[r] = "testing"
    /\ c \in Due(r)
    /\ yielded' = [yielded EXCEPT ![r] = @ \union {c}]
    /\ current' = [current EXCEPT ![r] = <<c, v>>]
    /\ tally' = [tally EXCEPT ![r][v] = @ + 1]
    /\ Await(r, "record")
    /\ UNCHANGED <<paused, req, db, aborts, feed, restarts>>

(* wait_next fails: the row is left as it is. *)
RunnerFails(r) ==
    /\ pc[r] = "testing"
    /\ End(r, "Error")
    /\ UNCHANGED <<paused, req, stmt, locals, db, aborts, restarts>>

(* A stored result is announced; one that cannot be stored fails the run. *)
ResumeRecord(r) ==
    /\ pc[r] = "record"
    /\ \/ /\ Succeeded(r)
          /\ reported' = [reported EXCEPT ![r] = @ \union {current[r][1]}]
          /\ pc' = [pc EXCEPT ![r] = "testing"]
          /\ UNCHANGED stmt
       \/ /\ stmt[r] = "err"
          /\ Await(r, "fail")
          /\ UNCHANGED reported
    /\ UNCHANGED <<paused, req, locals, db, aborts, compiled, final, restarts>>

(* No case is left: Config::score either succeeds or fails the run. *)
AllTested(r) ==
    /\ pc[r] = "testing"
    /\ Due(r) = {}
    /\ Await(r, "finish") \/ Await(r, "fail")
    /\ UNCHANGED <<paused, req, locals, db, aborts, feed, restarts>>

ResumeFinish(r) ==
    /\ pc[r] = "finish"
    /\ \/ Succeeded(r) /\ End(r, "Complete")
       \/ stmt[r] = "err" /\ End(r, "Error")
    /\ UNCHANGED <<paused, req, stmt, locals, db, aborts, restarts>>

ResumeFail(r) ==
    /\ pc[r] = "fail"
    /\ stmt[r] \in {"ok", "err"}
    /\ End(r, "Error")
    /\ UNCHANGED <<paused, req, stmt, locals, db, aborts, restarts>>

(* select! takes abort_rx: the result future is dropped where it waits.  The *)
(* compiler runs before select!, and nothing interrupts it.                  *)
SelectAbort(r) ==
    /\ r \in signalled
    /\ Listening(r) /\ pc[r] # "compiling"
    /\ End(r, "Cancelled")
    /\ UNCHANGED <<paused, req, stmt, locals, db, aborts, restarts>>

(* broadcast_team_update, after every ending; it only reads the tables. *)
BroadcastTeamUpdate(r) ==
    /\ pc[r] = "broadcast"
    /\ pc' = [pc EXCEPT ![r] = "done"]
    /\ UNCHANGED <<paused, req, stmt, locals, db, aborts, feed, restarts>>

-----------------------------------------------------------------------------
(* The statements, executed by sqlite whether or not the task still waits *)

ExecutedAtLeastOnce(r) ==                                        \* faulty
    stmt' \in {stmt, [stmt EXCEPT ![r] = "ok"]}
Executed(r) == stmt' = [stmt EXCEPT ![r] = "ok"]

SetState(r, s) == state' = [state EXCEPT ![r] = s]

ExecInsert(r) ==
    /\ stmt[r] = "insert"
    /\ SetState(r, "started")
    /\ Executed(r)
    /\ UNCHANGED <<paused, req, pc, locals, score, test_results, aborts, feed, restarts>>

ExecInsertFailed(r) ==
    /\ stmt[r] = "insert_failed"
    /\ SetState(r, "failed")
    /\ Executed(r)
    /\ UNCHANGED <<paused, req, pc, locals, score, test_results, aborts, feed, restarts>>

Record(r, c, v) == test_results' = [test_results EXCEPT ![r][c] = v]

ExecRecord(r) ==
    /\ stmt[r] = "record"
    /\ Record(r, current[r][1], current[r][2])
    /\ Executed(r)
    /\ UNCHANGED <<paused, req, pc, locals, state, score, aborts, feed, restarts>>

ExecFinish(r) ==
    /\ stmt[r] = "finish"
    /\ SetState(r, "finished")
    /\ score' = [score EXCEPT ![r] = [set |-> TRUE,
                                      success |-> tally[r]["fail"] = 0,
                                      passed |-> tally[r]["pass"],
                                      failed |-> tally[r]["fail"]]]
    /\ Executed(r)
    /\ UNCHANGED <<paused, req, pc, locals, test_results, aborts, feed, restarts>>

ExecFail(r) ==
    /\ stmt[r] = "fail"
    /\ SetState(r, "failed")
    /\ Executed(r)
    /\ UNCHANGED <<paused, req, pc, locals, score, test_results, aborts, feed, restarts>>

(* The statement fails, or never leaves the pool because its future is gone. *)
ExecError(r) ==
    /\ stmt[r] \in Statements
    /\ stmt' = [stmt EXCEPT ![r] = "err"]
    /\ UNCHANGED <<paused, req, pc, locals, db, aborts, feed, restarts>>

-----------------------------------------------------------------------------
(* DELETE /{question}/submissions/{id} and /tests/{id} *)

Respond(a, s) == apc' = [apc EXCEPT ![a] = s]

(* 409 while the competition is paused. *)
AbortRefused(a) ==
    /\ apc[a] = "idle"
    /\ paused
    /\ Respond(a, "refused")
    /\ UNCHANGED <<paused, req, task, db, abort_handles, signalled, target, feed, restarts>>

InTheMap(r) == r \in abort_handles                               \* faulty
InTheTable(r) == state[r] # "absent"

(* get_submission, then the checks on its immutable columns; `tests` is the *)
(* endpoint the request came in by and u the account that sent it.  The     *)
(* refusals are 500 (the query failed), 404 and 403.                        *)
AbortLookup(a, r, u, tests) ==
    /\ apc[a] = "idle"
    /\ ~paused
    /\ \/ Respond(a, "refused") /\ UNCHANGED target
       \/ /\ InTheTable(r) /\ tests = (r \in TestOnly)
          /\ u = Submitter[r] \/ u \in Hosts
          /\ Respond(a, "found")
          /\ target' = [target EXCEPT ![a] = r]
    /\ UNCHANGED <<paused, req, task, db, abort_handles, signalled, feed, restarts>>

BorrowHandle(r) == UNCHANGED abort_handles                       \* faulty
TakeHandle(r) == abort_handles' = abort_handles \ {r}

(* Tester::abort: take the handle, and succeed if the task still listens. *)
Abort(a) ==
    LET r == target[a] IN
    /\ apc[a] = "found"
    /\ TakeHandle(r)
    /\ IF r \in abort_handles /\ Listening(r)
       THEN signalled' = signalled \union {r} /\ Respond(a, "cancelling")
       ELSE UNCHANGED signalled /\ Respond(a, "refused")
    /\ UNCHANGED <<paused, req, task, db, target, feed, restarts>>

(* PartialSubmissionHistory::cancel.  If the client has hung up meanwhile the *)
(* statement runs all the same, and nobody is answered.                       *)
Cancel(a) ==
    /\ apc[a] = "cancelling"
    /\ \/ /\ SetState(target[a], "cancelled")
          /\ Respond(a, "ok") \/ Respond(a, "dropped")
       \/ UNCHANGED state /\ Respond(a, "error")
    /\ UNCHANGED <<paused, req, task, score, test_results, abort_handles, signalled,
                   target, feed, restarts>>

(* The client hangs up: its handler is dropped before the next statement. *)
AbortDropped(a) ==
    /\ apc[a] \in {"found", "cancelling"}
    /\ Respond(a, "dropped")
    /\ UNCHANGED <<paused, req, task, db, abort_handles, signalled, target, feed, restarts>>

-----------------------------------------------------------------------------
(* A host pauses or resumes the competition; see module Clock. *)
TogglePause ==
    /\ paused' = ~paused
    /\ UNCHANGED <<req, task, db, aborts, feed, restarts>>

(* The process dies and is started again on the same database.  A statement *)
(* is atomic: it has been executed or it is lost.  Nothing at start-up      *)
(* looks at submission_history, and the new clock starts paused.            *)
Restart ==
    /\ restarts < MaxRestarts
    /\ restarts' = restarts + 1
    /\ paused' = TRUE
    /\ req' = [r \in Runs |-> IF req[r] = "waiting" THEN "dropped" ELSE req[r]]
    /\ pc' = [r \in Runs |-> IF pc[r] \in {"idle", "done"} THEN pc[r] ELSE "lost"]
    /\ stmt' = [r \in Runs |-> "none"]
    /\ abort_handles' = {}
    /\ apc' = [a \in Requests |-> IF apc[a] \in {"found", "cancelling"}
                                  THEN "dropped" ELSE apc[a]]
    /\ UNCHANGED <<locals, db, signalled, target, feed>>

-----------------------------------------------------------------------------
Create(r) ==
    \/ CreateRejected(r) \/ CreateAccepted(r)
    \/ CreateAnswered(r) \/ CreateDropped(r)

Compile(r) ==
    \/ CompileFails(r)
    \/ CompileErrors(r)
    \/ \E built \in BOOLEAN : CompileSucceeds(r, built)

RunCases(r) ==      \* what the runner's child processes decide
    \/ \E c \in Cases, v \in Verdicts : NextResult(r, c, v)
    \/ RunnerFails(r)
    \/ AllTested(r)

Resume(r) ==
    \/ ResumeInsertFailed(r) \/ ResumeInsert(r) \/ ResumeRecord(r)
    \/ ResumeFinish(r) \/ ResumeFail(r)

Execute(r) ==
    \/ ExecInsert(r) \/ ExecInsertFailed(r) \/ ExecRecord(r)
    \/ ExecFinish(r) \/ ExecFail(r) \/ ExecError(r)

ServeAbort(a) ==
    \/ AbortRefused(a)
    \/ \E r \in Runs, u \in Users, tests \in BOOLEAN : AbortLookup(a, r, u, tests)
    \/ Abort(a)
    \/ Cancel(a)
    \/ AbortDropped(a)

Next ==
    \/ \E r \in Runs :
        \/ Create(r) \/ Compile(r) \/ RunCases(r) \/ Resume(r)
        \/ Execute(r) \/ SelectAbort(r) \/ BroadcastTeamUpdate(r)
    \/ \E a \in Requests : ServeAbort(a)
    \/ TogglePause
    \/ Restart

Spec == Init /\ [][Next]_vars

-----------------------------------------------------------------------------
(* Safety *)

TypeOK ==
    /\ paused \in BOOLEAN
    /\ req \in [Runs -> {"idle", "rejected", "waiting", "created", "dropped"}]
    /\ pc \in [Runs -> Places]
    /\ stmt \in [Runs -> Statements \union Outcomes]
    /\ yielded \in [Runs -> SUBSET Cases]
    /\ current \in [Runs -> (Cases \X Verdicts) \union {<<>>}]
    /\ tally \in [Runs -> [Verdicts -> Nat]]
    /\ state \in [Runs -> RowStates]
    /\ score \in [Runs -> Scores]
    /\ test_results \in [Runs -> [Cases -> Verdicts \union {"none"}]]
    /\ abort_handles \subseteq Runs
    /\ signalled \subseteq Runs
    /\ Feed!FeedType
    /\ apc \in [Requests -> {"idle", "found", "cancelling"} \union Responses]
    /\ target \in [Requests -> Runs \union {NoRun}]
    /\ restarts \in 0 .. MaxRestarts

(* A score in submission_history was computed from a complete run, and its    *)
(* counts are those of the rows in test_results, whatever aborts, errors and  *)
(* restarts came before or after it (finish, against create_test_results).    *)
ScoreMatchesResults == \A r \in Runs :
    /\ state[r] = "finished" => score[r].set
    /\ score[r].set =>
        /\ Recorded(r) = CasesOf(r)
        /\ score[r].passed = Cardinality(Stored(r, "pass"))
        /\ score[r].failed = Cardinality(Stored(r, "fail"))
        /\ score[r].success <=> Stored(r, "fail") = {}

(* What the closing message says is what the tables say: Complete is sent     *)
(* for a scored row, CompileFailed for a failed one without results, Error    *)
(* never for a run that has its score, Cancelled only after an abort.         *)
ClosingMessageTrue == \A r \in Runs :
    /\ final[r] = "Complete" =>
        score[r].set /\ state[r] \in {"finished", "cancelled"}
    /\ final[r] = "CompileFailed" =>
        state[r] \in {"failed", "cancelled"} /\ Recorded(r) = {}
    /\ final[r] = "Error" => ~score[r].set
    /\ final[r] = "Cancelled" => r \in signalled

(* The channel never runs ahead of the table, and lags by at most one result: *)
(* the one stored when the run was cut off (create_test_results, then send).  *)
AnnouncedAreStored == \A r \in Runs :
    /\ reported[r] \subseteq Recorded(r)
    /\ Cardinality(Recorded(r) \ reported[r]) <= 1

(* Only a run that is in the table is ever signalled, and a row is cancelled  *)
(* only if its task was signalled while it listened: a DELETE that comes too  *)
(* late never touches the row (abort_submission: find, abort, then cancel).   *)
CancelledOnlyBySignal == \A r \in Runs :
    /\ r \in signalled => state[r] # "absent"
    /\ state[r] = "cancelled" => r \in signalled

(* Of any number of DELETEs for a run at most one gets past Tester::abort,    *)
(* however they interleave: DashMap::remove hands the sender to one of them.  *)
SingleAborter == \A a, b \in Requests :
    /\ apc[a] \in {"cancelling", "ok"} /\ apc[b] \in {"cancelling", "ok"}
    /\ target[a] = target[b]
    => a = b

(* A run leaves its row "started" for good only if it ended in an error or    *)
(* was aborted without an answer: never after it told its user an outcome,    *)
(* and never after a DELETE answered OK (finish, cancel).                     *)
NotLeftStarted == \A r \in Runs :
    state[r] = "started" =>
        /\ final[r] \notin {"Complete", "CompileFailed"}
        /\ \A a \in Requests : ~(target[a] = r /\ apc[a] = "ok")

(* The life of a row: what each UPDATE may make of what another one left, the *)
(* late cancel of a finished run and the late finish of a cancelled one       *)
(* included.  Nothing is scored twice, and a score is never taken back.       *)
RowEdges ==
    {<<"absent", "started">>, <<"absent", "failed">>, <<"started", "finished">>,
     <<"started", "failed">>, <<"started", "cancelled">>, <<"finished", "cancelled">>,
     <<"failed", "cancelled">>, <<"cancelled", "finished">>, <<"cancelled", "failed">>}

RowHistory == [][\A r \in Runs :
    /\ state'[r] # state[r] => <<state[r], state'[r]>> \in RowEdges
    /\ score'[r] # score[r] => state'[r] = "finished" /\ ~score[r].set
    /\ score[r].set /\ state'[r] # state[r] => state'[r] = "cancelled"]_db

(* A stored verdict is never overwritten, and none is added to a run that has *)
(* been scored: the results a score was computed from are the ones shown.     *)
ResultsAreFinal == [][\A r \in Runs : test_results'[r] # test_results[r] =>
    /\ state[r] \in {"started", "cancelled"} /\ ~score[r].set
    /\ \A c \in Cases : test_results[r][c] # "none"
                       => test_results'[r][c] = test_results[r][c]]_test_results

(* tester.rs:125 says of abort: "Returns whether the test existed and was    *)
(* successfully aborted".  So when it said yes, the DELETE has answered OK    *)
(* and the row is cancelled, the run should not have completed; but a task    *)
(* whose result is ready when the signal comes may take either branch of      *)
(* select!, and then keeps its score and reports TestsComplete.               *)
AbortedMeansAborted == \A a \in Requests :
    apc[a] = "ok" /\ state[target[a]] = "cancelled" => final[target[a]] # "Complete"

(* The task keeps the protocol of its result channel (module RunFeed). *)
FeedSpec == Feed!Spec

-----------------------------------------------------------------------------
(* Liveness *)

(* The executor polls every task that can make progress, sqlite works off    *)
(* its queue, and a ready branch of select! is taken in the end.             *)
PollFairness == \A r \in Runs :
    /\ WF_vars(Resume(r)) /\ WF_vars(Execute(r)) /\ WF_vars(SelectAbort(r))
    /\ WF_vars(BroadcastTeamUpdate(r)) /\ WF_vars(CreateAnswered(r))

LiveSpec == Spec /\ PollFairness

(* Not part of LiveSpec: submitted programs end.  The runner stops each case *)
(* after test_runner.timeout, but nothing stops a build command.             *)
ProgramsEnd == \A r \in Runs : WF_vars(Compile(r)) /\ WF_vars(RunCases(r))

(* If the programs end, every task does, through whichever errors (run_test). *)
RunEnds == ProgramsEnd =>
    \A r \in Runs : pc[r] = "compiling" ~> pc[r] \in {"done", "lost"}

(* If the programs end, whoever waits for setup_rx is answered, also when the *)
(* task fails before it reaches setup_tx.send (run_test, setup_rx.await).     *)
RequestAnswered == ProgramsEnd =>
    \A r \in Runs : req[r] = "waiting" ~> req[r] \in {"created", "dropped"}

(* An aborted run ends even when the program under test never does (select!). *)
AbortEndsRun ==
    \A r \in Runs : r \in signalled ~> pc[r] \in {"done", "lost"}
=============================================================================
