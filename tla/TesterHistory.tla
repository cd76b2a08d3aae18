--------------------------- MODULE TesterHistory ---------------------------
(***************************************************************************)
(* What the steps of module Tester may do, for any number of runs, cases   *)
(* and requests: the task keeps the protocol of its result channel (module *)
(* RunFeed), rows go through the states in one direction only, and stored  *)
(* results stay.  Each follows from the invariant of TesterProofs and the  *)
(* one kind of step that touches the variables in question.                *)
(***************************************************************************)
EXTENDS TesterProofs

-----------------------------------------------------------------------------
(* The result channel *)

(* The end of a run is the closing message of its channel. *)
LEMMA EndIsFinal ==
    ASSUME IInv, NEW r \in Runs, NEW f \in Feed!Finals, End(r, f), final[r] = "none",
           f = "CompileFailed" => ~compiled[r] /\ reported[r] = {},
           f = "Complete" => reported[r] = CasesOf(r)
    PROVE  Feed!Next
<1>1. Feed!SayFinal(r, f)
  BY DEF End, Feed!SayFinal, Feed!Fresh, CasesOf, Feed!CasesOf
<1> QED
  BY <1>1 DEF Feed!Next

(* Compiling says Compiled first, once, or nothing. *)
LEMMA CompileSpeaks ==
    ASSUME IInv, NEW r \in Runs, Compile(r)
    PROVE  Feed!Next \/ UNCHANGED feed
<1>1. pc[r] = "compiling"
  BY DEF Compile, CompileFails, CompileErrors, CompileSucceeds
<1>2. /\ final[r] = "none" /\ ~compiled[r] /\ reported[r] = {}
      /\ compiled \in [Runs -> BOOLEAN]
  BY <1>1 DEF IInv, TypeInv, TypeOK, Feed!FeedType, RunInv, PlaceOf, CountOf, ReportOf, Live
<1>3. CASE CompileFails(r)
  BY <1>3 DEF CompileFails
<1>4. CASE CompileErrors(r)
  <2>1. End(r, "Error")
    BY <1>4 DEF CompileErrors
  <2> QED
    BY <1>2, <2>1, EndIsFinal DEF Feed!Finals
<1>5. ASSUME NEW built \in BOOLEAN, CompileSucceeds(r, built)
      PROVE  Feed!Next \/ UNCHANGED feed
  <2>1. compiled' = [compiled EXCEPT ![r] = built] /\ UNCHANGED <<reported, final>>
    BY <1>5 DEF CompileSucceeds
  <2>2. CASE built
    <3>1. Feed!SayCompiled(r)
      BY <1>2, <2>1, <2>2 DEF Feed!SayCompiled, Feed!Fresh
    <3> QED
      BY <3>1 DEF Feed!Next
  <2>3. CASE ~built
    BY <1>2, <2>1, <2>3 DEF feed
  <2> QED
    BY <2>2, <2>3
<1> QED
  BY <1>3, <1>4, <1>5 DEF Compile

(* What a task does when its statement returns is a message, or nothing: a   *)
(* stored result is new on the channel, and Complete follows all of them.    *)
LEMMA ResumeSpeaks ==
    ASSUME IInv, NEW r \in Runs, Resume(r)
    PROVE  Feed!Next \/ UNCHANGED feed
<1>1. /\ PlaceOf(r) /\ CountOf(r) /\ ReportOf(r)
      /\ reported \in [Runs -> SUBSET Cases]
  BY DEF IInv, TypeInv, TypeOK, Feed!FeedType, RunInv
<1>2. pc[r] \in Live => final[r] = "none"
  BY <1>1 DEF PlaceOf
<1>3. CASE ResumeInsertFailed(r)
  <2>1. pc[r] = "insert_failed" /\ (End(r, "CompileFailed") \/ End(r, "Error"))
    BY <1>3 DEF ResumeInsertFailed
  <2>2. ~compiled[r] /\ reported[r] = {}
    BY <1>1, <2>1 DEF CountOf, ReportOf, Live, Statements
  <2> QED
    BY <1>2, <2>1, <2>2, EndIsFinal DEF Feed!Finals, Live, Statements
<1>4. CASE ResumeInsert(r)
  <2>1. pc[r] = "insert" /\ (End(r, "Error") \/ UNCHANGED feed)
    BY <1>4 DEF ResumeInsert
  <2> QED
    BY <1>2, <2>1, EndIsFinal DEF Feed!Finals, Live, Statements
<1>5. CASE ResumeRecord(r)
  <2> DEFINE c == current[r][1]
  <2>1. CASE Succeeded(r)
    <3>1. pc[r] = "record" /\ stmt[r] = "ok"
      BY <1>5, <2>1 DEF ResumeRecord, Succeeded
    <3>2. /\ reported' = [reported EXCEPT ![r] = @ \union {c}]
          /\ UNCHANGED <<compiled, final>>
      BY <1>5, <3>1 DEF ResumeRecord, Succeeded
    <3>3. c \notin reported[r] /\ c \in CasesOf(r)
      BY <1>1, <3>1 DEF CountOf, ReportOf
    <3>4. Feed!SayResult(r, c)
      BY <1>2, <3>1, <3>2, <3>3 DEF Feed!SayResult, Live, Statements
    <3> QED
      BY <3>3, <3>4 DEF Feed!Next, CasesOf, Feed!CasesOf
  <2>2. CASE ~Succeeded(r)
    BY <1>5, <2>2 DEF ResumeRecord, feed
  <2> QED
    BY <2>1, <2>2
<1>6. CASE ResumeFinish(r)
  <2>1. pc[r] = "finish" /\ ((Succeeded(r) /\ End(r, "Complete")) \/ End(r, "Error"))
    BY <1>6 DEF ResumeFinish
  <2>2. reported[r] = CasesOf(r)
    BY <1>1, <2>1 DEF CountOf, ReportOf, Live, Statements
  <2> QED
    BY <1>2, <2>1, <2>2, EndIsFinal DEF Feed!Finals, Live, Statements
<1>7. CASE ResumeFail(r)
  <2>1. pc[r] = "fail" /\ End(r, "Error")
    BY <1>7 DEF ResumeFail
  <2> QED
    BY <1>2, <2>1, EndIsFinal DEF Feed!Finals, Live, Statements
<1> QED
  BY <1>3, <1>4, <1>5, <1>6, <1>7 DEF Resume

(* Between its results a task fails, or says nothing. *)
LEMMA RunCasesSpeak ==
    ASSUME IInv, NEW r \in Runs, RunCases(r)
    PROVE  Feed!Next \/ UNCHANGED feed
<1>1. CASE RunnerFails(r)
  <2>1. End(r, "Error") /\ pc[r] = "testing"
    BY <1>1 DEF RunnerFails
  <2>2. final[r] = "none"
    BY <2>1 DEF IInv, RunInv, PlaceOf, Live
  <2> QED
    BY <2>1, <2>2, EndIsFinal DEF Feed!Finals
<1>2. CASE ~RunnerFails(r)
  BY <1>2 DEF RunCases, NextResult, AllTested
<1> QED
  BY <1>1, <1>2

(* An abort that takes effect says Cancelled, and nothing was final before. *)
LEMMA AbortSpeaks ==
    ASSUME IInv, NEW r \in Runs, SelectAbort(r)
    PROVE  Feed!Next
<1>1. End(r, "Cancelled") /\ pc[r] \in Live
  BY DEF SelectAbort, Listening
<1>2. final[r] = "none"
  BY <1>1 DEF IInv, RunInv, PlaceOf
<1> QED
  BY <1>1, <1>2, EndIsFinal DEF Feed!Finals

(* No other step touches a channel. *)
LEMMA OthersAreSilent ==
    ASSUME [Next]_vars,
           \A r \in Runs : ~Compile(r) /\ ~RunCases(r) /\ ~Resume(r) /\ ~SelectAbort(r)
    PROVE  UNCHANGED feed
<1>1. ASSUME NEW r \in Runs, Create(r) PROVE UNCHANGED feed
  BY <1>1 DEF Create, CreateRejected, CreateAccepted, CreateAnswered, CreateDropped
<1>2. ASSUME NEW r \in Runs, Execute(r) PROVE UNCHANGED feed
  BY <1>2 DEF Execute, ExecInsert, ExecInsertFailed, ExecRecord, ExecFinish, ExecFail,
              ExecError
<1>3. ASSUME NEW r \in Runs, BroadcastTeamUpdate(r) PROVE UNCHANGED feed
  BY <1>3 DEF BroadcastTeamUpdate
<1>4. ASSUME NEW a \in Requests, ServeAbort(a) PROVE UNCHANGED feed
  BY <1>4 DEF ServeAbort, AbortRefused, AbortLookup, Abort, Cancel, AbortDropped
<1>5. CASE TogglePause \/ Restart \/ UNCHANGED vars
  BY <1>5 DEF TogglePause, Restart, vars
<1> QED
  BY <1>1, <1>2, <1>3, <1>4, <1>5 DEF Next

(* The task of a run implements RunFeed, whatever aborts, errors and restarts *)
(* cut it off: Compiled first, every result once and only after it is stored, *)
(* one closing message, and Complete only after all results (run_test).       *)
THEOREM KeepsChannelProtocol == Spec => FeedSpec
<1>1. Init => Feed!Init
  BY DEF Init
<1>2. IInv /\ [Next]_vars => [Feed!Next]_(Feed!feed)
  <2> SUFFICES ASSUME IInv, [Next]_vars PROVE Feed!Next \/ UNCHANGED feed
    BY DEF feed, Feed!feed
  <2>1. ASSUME NEW r \in Runs, Compile(r) \/ RunCases(r) \/ Resume(r) \/ SelectAbort(r)
        PROVE  Feed!Next \/ UNCHANGED feed
    BY <2>1, CompileSpeaks, RunCasesSpeak, ResumeSpeaks, AbortSpeaks
  <2> QED
    BY <2>1, OthersAreSilent
<1> QED
  BY <1>1, <1>2, Invariant, PTL DEF Spec, FeedSpec, Feed!Spec
-----------------------------------------------------------------------------
(* The rows *)

(* The edges of the life of the row of run r, as RowHistory lists them.      *)
RowStep(r) ==
    /\ state'[r] # state[r] => <<state[r], state'[r]>> \in RowEdges
    /\ score'[r] # score[r] => state'[r] = "finished" /\ ~score[r].set
    /\ score[r].set /\ state'[r] # state[r] => state'[r] = "cancelled"

(* What may become of the results of run r, as ResultsAreFinal has it.       *)
ResultStep(r) == test_results'[r] # test_results[r] =>
    /\ state[r] \in {"started", "cancelled"} /\ ~score[r].set
    /\ \A c \in Cases : test_results[r][c] # "none"
                       => test_results'[r][c] = test_results[r][c]

(* A statement of a task takes its row along one edge: it was issued when    *)
(* the row was in the state that it expects, or an abort has cancelled it.   *)
LEMMA ExecuteMovesRow ==
    ASSUME IInv, NEW q \in Runs, Execute(q), NEW r \in Runs
    PROVE  RowStep(r)
<1>1. /\ state \in [Runs -> RowStates] /\ score \in [Runs -> Scores]
      /\ PlaceOf(q) /\ RowOf(q)
  BY DEF IInv, TypeInv, TypeOK, RunInv
<1>2. CASE ExecInsert(q) \/ ExecInsertFailed(q)
  <2>1. state[q] = "absent" /\ ~score[q].set
    BY <1>1, <1>2 DEF PlaceOf, RowOf, ExecInsert, ExecInsertFailed
  <2>2. /\ \E s \in {"started", "failed"} : state' = [state EXCEPT ![q] = s]
        /\ score' = score
    BY <1>2 DEF ExecInsert, ExecInsertFailed, SetState
  <2> QED
    BY <1>1, <2>1, <2>2 DEF RowStep, RowEdges
<1>3. CASE ExecFinish(q) \/ ExecFail(q)
  <2>1. state[q] \in {"started", "cancelled"} /\ ~score[q].set
    BY <1>1, <1>3 DEF RowOf, ExecFinish, ExecFail
  <2>2. CASE ExecFinish(q)
    <3>1. state' = [state EXCEPT ![q] = "finished"] /\ (r # q => score'[r] = score[r])
      BY <1>1, <2>2 DEF ExecFinish, SetState
    <3> QED
      BY <1>1, <2>1, <3>1 DEF RowStep, RowEdges
  <2>3. CASE ExecFail(q)
    <3>1. state' = [state EXCEPT ![q] = "failed"] /\ score' = score
      BY <2>3 DEF ExecFail, SetState
    <3> QED
      BY <1>1, <2>1, <3>1 DEF RowStep, RowEdges
  <2> QED
    BY <1>3, <2>2, <2>3
<1>4. CASE ExecRecord(q) \/ ExecError(q)
  BY <1>4 DEF ExecRecord, ExecError, db, RowStep
<1> QED
  BY <1>2, <1>3, <1>4 DEF Execute

(* A DELETE cancels a row that is there, whatever state it is in. *)
LEMMA CancelMovesRow ==
    ASSUME IInv, NEW a \in Requests, Cancel(a), NEW r \in Runs
    PROVE  RowStep(r)
<1>1. apc[a] = "cancelling" /\ score' = score
  BY DEF Cancel
<1>2. target[a] \in Runs /\ state[target[a]] # "absent" /\ state \in [Runs -> RowStates]
  BY <1>1 DEF IInv, TypeInv, TypeOK, RequestInv
<1>3. state' = [state EXCEPT ![target[a]] = "cancelled"] \/ state' = state
  BY DEF Cancel, SetState
<1> QED
  BY <1>1, <1>2, <1>3 DEF RowStep, RowEdges, RowStates

(* A result is stored once, before the score: no verdict is written over.    *)
LEMMA ExecuteKeepsResults ==
    ASSUME IInv, NEW q \in Runs, Execute(q), NEW r \in Runs
    PROVE  ResultStep(r)
<1>1. CASE ExecRecord(q)
  <2> DEFINE c == current[q][1]
  <2>1. /\ state[q] \in {"started", "cancelled"} /\ ~score[q].set
        /\ c \in Cases /\ c \notin Recorded(q)
    <3>1. stmt[q] = "record"
      BY <1>1 DEF ExecRecord
    <3>2. current[q] \in Cases \X Verdicts
      BY <3>1 DEF IInv, TypeInv, CurrentKnown
    <3> QED
      BY <3>1, <3>2 DEF IInv, RunInv, RowOf, CountOf
  <2>2. test_results' = [test_results EXCEPT ![q][c] = current[q][2]]
    BY <1>1 DEF ExecRecord, Record
  <2>3. test_results \in [Runs -> [Cases -> Verdicts \union {"none"}]]
    BY DEF IInv, TypeInv, TypeOK
  <2> QED
    BY <2>1, <2>2, <2>3 DEF ResultStep, Recorded
<1>2. CASE ~ExecRecord(q)
  <2>1. test_results' = test_results
    BY <1>2 DEF Execute, ExecInsert, ExecInsertFailed, ExecFinish, ExecFail, ExecError, db
  <2> QED
    BY <2>1 DEF ResultStep
<1> QED
  BY <1>1, <1>2

(* No other step touches the tables. *)
LEMMA OthersWriteNothing ==
    ASSUME [Next]_vars, \A r \in Runs : ~Execute(r), \A a \in Requests : ~Cancel(a)
    PROVE  UNCHANGED db
<1>1. ASSUME NEW r \in Runs, Create(r) \/ BroadcastTeamUpdate(r) \/ SelectAbort(r)
      PROVE  UNCHANGED db
  BY <1>1 DEF Create, CreateRejected, CreateAccepted, CreateAnswered, CreateDropped,
              BroadcastTeamUpdate, SelectAbort
<1>2. ASSUME NEW r \in Runs, Compile(r) \/ RunCases(r) PROVE UNCHANGED db
  BY <1>2 DEF Compile, CompileFails, CompileErrors, CompileSucceeds,
              RunCases, NextResult, RunnerFails, AllTested
<1>3. ASSUME NEW r \in Runs, Resume(r) PROVE UNCHANGED db
  BY <1>3 DEF Resume, ResumeInsertFailed, ResumeInsert, ResumeRecord, ResumeFinish, ResumeFail
<1>4. ASSUME NEW a \in Requests, ServeAbort(a) PROVE UNCHANGED db
  BY <1>4 DEF ServeAbort, AbortRefused, AbortLookup, Abort, AbortDropped
<1>5. CASE TogglePause \/ Restart \/ UNCHANGED vars
  BY <1>5 DEF TogglePause, Restart, vars
<1> QED
  BY <1>1, <1>2, <1>3, <1>4, <1>5 DEF Next

(* A row moves along the listed edges only, is scored once, and a score is   *)
(* never taken back: late finishes and cancels included (finish, cancel).    *)
THEOREM RowsMoveForward == Spec => RowHistory
<1>1. ASSUME IInv, [Next]_vars, NEW r \in Runs PROVE RowStep(r)
  <2>1. CASE \E q \in Runs : Execute(q)
    BY <1>1, <2>1, ExecuteMovesRow
  <2>2. CASE \E a \in Requests : Cancel(a)
    BY <1>1, <2>2, CancelMovesRow
  <2>3. CASE UNCHANGED db
    BY <2>3 DEF db, RowStep
  <2> QED
    BY <1>1, <2>1, <2>2, <2>3, OthersWriteNothing
<1>2. IInv /\ [Next]_vars => \A r \in Runs : RowStep(r)
  BY <1>1
<1> QED
  BY <1>2, Invariant, PTL DEF Spec, RowHistory, RowStep

(* The results a score was computed from are the ones shown ever after       *)
(* (create_test_results, finish).                                            *)
THEOREM ResultsStay == Spec => ResultsAreFinal
<1>1. ASSUME IInv, [Next]_vars, NEW r \in Runs PROVE ResultStep(r)
  <2>1. CASE \E q \in Runs : Execute(q)
    BY <1>1, <2>1, ExecuteKeepsResults
  <2>2. CASE (\E a \in Requests : Cancel(a)) \/ UNCHANGED db
    BY <2>2 DEF Cancel, db, ResultStep
  <2> QED
    BY <1>1, <2>1, <2>2, OthersWriteNothing
<1>2. IInv /\ [Next]_vars => \A r \in Runs : ResultStep(r)
  BY <1>1
<1> QED
  BY <1>2, Invariant, PTL DEF Spec, ResultsAreFinal, ResultStep
=============================================================================
