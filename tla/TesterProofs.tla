---------------------------- MODULE TesterProofs ----------------------------
(***************************************************************************)
(* Theorems about module Tester, for any number of runs, cases and         *)
(* requests and any bound on restarts.  The safety properties follow from  *)
(* the inductive invariant IInv of module TesterInvariant.                 *)
(*                                                                         *)
(* A step of a task, or of sqlite for it, touches one run and no request   *)
(* (Local): it preserves IInv if it preserves the RunInv of that run       *)
(* (LocalStep).  So each of these actions has three steps: it is local;    *)
(* what it does to its run, variable by variable; RunInv of the run holds. *)
(***************************************************************************)
EXTENDS TesterInvariant, FiniteSetTheorems, TLAPS

-----------------------------------------------------------------------------
(* Types *)

(* Waiting for a statement keeps the places and statements in their types. *)
LEMMA AwaitType ==
    ASSUME TypeOK, NEW r \in Runs, NEW s \in Statements, Await(r, s)
    PROVE  /\ pc' \in [Runs -> Places]
           /\ stmt' \in [Runs -> Statements \union Outcomes]
BY DEF TypeOK, Await, Places, Live

(* The end of a run keeps the places and the channel in their types. *)
LEMMA EndType ==
    ASSUME TypeOK, NEW r \in Runs, NEW f \in Feed!Finals, End(r, f)
    PROVE  pc' \in [Runs -> Places] /\ Feed!FeedType'
BY DEF TypeOK, End, Places, Feed!FeedType

(* The initial state is well typed. *)
LEMMA TypeInit == Init => TypeInv
BY TesterAssumption
   DEF Init, TypeInv, TypeOK, CurrentKnown, Scores, NoScore, RowStates, Places, Outcomes,
       Responses, Feed!FeedType, Feed!Init, Verdicts

(* Every step keeps every variable in its type. *)
LEMMA TypeStep == TypeInv /\ [Next]_vars => TypeInv'
<1> SUFFICES ASSUME TypeInv, [Next]_vars PROVE TypeInv'
  OBVIOUS
<1> USE DEF TypeInv, TypeOK, Feed!FeedType, task, locals, db, aborts, feed
<1>1. ASSUME NEW r \in Runs, Create(r) PROVE TypeInv'
  <2>1. CASE CreateRejected(r)
    <3>1. TypeOK'
      BY <2>1 DEF CreateRejected
    <3>2. CurrentKnown'
      BY <2>1 DEF CurrentKnown, CreateRejected
    <3>3. QED
      BY <3>1, <3>2
  <2>2. CASE CreateAccepted(r)
    <3>1. TypeOK'
      BY <2>2 DEF CreateAccepted, Places, Live
    <3>2. CurrentKnown'
      BY <2>2 DEF CurrentKnown, CreateAccepted
    <3>3. QED
      BY <3>1, <3>2
  <2>3. CASE CreateAnswered(r)
    <3>1. TypeOK'
      BY <2>3 DEF CreateAnswered
    <3>2. CurrentKnown'
      BY <2>3 DEF CurrentKnown, CreateAnswered
    <3>3. QED
      BY <3>1, <3>2
  <2>4. CASE CreateDropped(r)
    <3>1. TypeOK'
      BY <2>4 DEF CreateDropped
    <3>2. CurrentKnown'
      BY <2>4 DEF CurrentKnown, CreateDropped
    <3>3. QED
      BY <3>1, <3>2
  <2>5. QED
    BY <1>1, <2>1, <2>2, <2>3, <2>4 DEF Create
<1>2. ASSUME NEW r \in Runs, Compile(r) PROVE TypeInv'
  <2>1. CASE CompileFails(r)
    <3>1. TypeOK'
      BY <2>1, AwaitType DEF CompileFails, Statements
    <3>2. CurrentKnown'
      BY <2>1 DEF CurrentKnown, CompileFails, Await, Statements
    <3>3. QED
      BY <3>1, <3>2
  <2>2. CASE CompileErrors(r)
    <3>1. TypeOK'
      BY <2>2, EndType DEF CompileErrors, Feed!Finals
    <3>2. CurrentKnown'
      BY <2>2 DEF CurrentKnown, CompileErrors, End
    <3>3. QED
      BY <3>1, <3>2
  <2>3. ASSUME NEW built \in BOOLEAN, CompileSucceeds(r, built) PROVE TypeInv'
    <3>1. TypeOK'
      BY <2>3 DEF CompileSucceeds, Await, Places, Live, Statements
    <3>2. CurrentKnown'
      BY <2>3 DEF CurrentKnown, CompileSucceeds, Await
    <3>3. QED
      BY <3>1, <3>2
  <2>4. QED
    BY <1>2, <2>1, <2>2, <2>3 DEF Compile
<1>3. ASSUME NEW r \in Runs, RunCases(r) PROVE TypeInv'
  <2>1. ASSUME NEW c \in Cases, NEW v \in Verdicts, NextResult(r, c, v) PROVE TypeInv'
    <3>1. TypeOK'
      BY <2>1, AwaitType DEF NextResult, Statements, Due, CasesOf
    <3>2. CurrentKnown'
      BY <2>1 DEF CurrentKnown, NextResult, Await
    <3>3. QED
      BY <3>1, <3>2
  <2>2. CASE RunnerFails(r)
    <3>1. TypeOK'
      BY <2>2, EndType DEF RunnerFails, Feed!Finals
    <3>2. CurrentKnown'
      BY <2>2 DEF CurrentKnown, RunnerFails, End
    <3>3. QED
      BY <3>1, <3>2
  <2>3. CASE AllTested(r)
    <3>1. TypeOK'
      BY <2>3, AwaitType DEF AllTested, Statements
    <3>2. CurrentKnown'
      BY <2>3 DEF CurrentKnown, AllTested, Await, Statements
    <3>3. QED
      BY <3>1, <3>2
  <2>4. QED
    BY <1>3, <2>1, <2>2, <2>3 DEF RunCases
<1>4. ASSUME NEW r \in Runs, Resume(r) PROVE TypeInv'
  <2>1. CASE ResumeInsertFailed(r)
    <3>1. TypeOK'
      BY <2>1, EndType DEF ResumeInsertFailed, Feed!Finals
    <3>2. CurrentKnown'
      BY <2>1 DEF CurrentKnown, ResumeInsertFailed, End
    <3>3. QED
      BY <3>1, <3>2
  <2>2. CASE ResumeInsert(r)
    <3>1. TypeOK'
      BY <2>2, EndType DEF ResumeInsert, Feed!Finals, Places, Live
    <3>2. CurrentKnown'
      BY <2>2 DEF CurrentKnown, ResumeInsert, End
    <3>3. QED
      BY <3>1, <3>2
  <2>3. CASE ResumeRecord(r)
    <3>1. current[r][1] \in Cases
      BY <2>3 DEF ResumeRecord, CurrentKnown
    <3>2. Feed!FeedType'
      <4>1. reported' \in [Runs -> SUBSET Cases]
        <5>1. CASE reported' = [reported EXCEPT ![r] = @ \union {current[r][1]}]
          BY <3>1, <5>1
        <5>2. CASE UNCHANGED reported
          BY <5>2
        <5>3. QED
          BY <2>3, <5>1, <5>2 DEF ResumeRecord
      <4>2. QED
        BY <2>3, <4>1 DEF ResumeRecord
    <3>3. /\ pc' \in [Runs -> Places]
          /\ stmt' \in [Runs -> Statements \union Outcomes]
      BY <2>3, AwaitType DEF ResumeRecord, Statements, Places, Live
    <3>4. TypeOK'
      BY <2>3, <3>2, <3>3 DEF ResumeRecord
    <3>5. CurrentKnown'
      BY <2>3 DEF CurrentKnown, ResumeRecord, Await
    <3>6. QED
      BY <3>4, <3>5
  <2>4. CASE ResumeFinish(r)
    <3>1. TypeOK'
      BY <2>4, EndType DEF ResumeFinish, Feed!Finals
    <3>2. CurrentKnown'
      BY <2>4 DEF CurrentKnown, ResumeFinish, End
    <3>3. QED
      BY <3>1, <3>2
  <2>5. CASE ResumeFail(r)
    <3>1. TypeOK'
      BY <2>5, EndType DEF ResumeFail, Feed!Finals
    <3>2. CurrentKnown'
      BY <2>5 DEF CurrentKnown, ResumeFail, End
    <3>3. QED
      BY <3>1, <3>2
  <2>6. QED
    BY <1>4, <2>1, <2>2, <2>3, <2>4, <2>5 DEF Resume
<1>5. ASSUME NEW r \in Runs, Execute(r) PROVE TypeInv'
  <2>1. CASE ExecInsert(r)
    <3>1. TypeOK'
      BY <2>1 DEF ExecInsert, Executed, Outcomes, SetState, RowStates
    <3>2. CurrentKnown'
      BY <2>1 DEF CurrentKnown, ExecInsert, Executed
    <3>3. QED
      BY <3>1, <3>2
  <2>2. CASE ExecInsertFailed(r)
    <3>1. TypeOK'
      BY <2>2 DEF ExecInsertFailed, Executed, Outcomes, SetState, RowStates
    <3>2. CurrentKnown'
      BY <2>2 DEF CurrentKnown, ExecInsertFailed, Executed
    <3>3. QED
      BY <3>1, <3>2
  <2>3. CASE ExecRecord(r)
    <3>1. current[r][1] \in Cases /\ current[r][2] \in Verdicts
      BY <2>3 DEF ExecRecord, CurrentKnown
    <3>2. test_results' \in [Runs -> [Cases -> Verdicts \union {"none"}]]
      BY <2>3, <3>1 DEF ExecRecord, Record
    <3>3. TypeOK'
      BY <2>3, <3>2 DEF ExecRecord, Executed, Outcomes
    <3>4. CurrentKnown'
      BY <2>3 DEF CurrentKnown, ExecRecord, Executed
    <3>5. QED
      BY <3>3, <3>4
  <2>4. CASE ExecFinish(r)
    <3>1. TypeOK'
      BY <2>4 DEF ExecFinish, Executed, Outcomes, SetState, RowStates, Scores, Verdicts
    <3>2. CurrentKnown'
      BY <2>4 DEF CurrentKnown, ExecFinish, Executed
    <3>3. QED
      BY <3>1, <3>2
  <2>5. CASE ExecFail(r)
    <3>1. TypeOK'
      BY <2>5 DEF ExecFail, Executed, Outcomes, SetState, RowStates
    <3>2. CurrentKnown'
      BY <2>5 DEF CurrentKnown, ExecFail, Executed
    <3>3. QED
      BY <3>1, <3>2
  <2>6. CASE ExecError(r)
    <3>1. TypeOK'
      BY <2>6 DEF ExecError, Outcomes
    <3>2. CurrentKnown'
      BY <2>6 DEF CurrentKnown, ExecError
    <3>3. QED
      BY <3>1, <3>2
  <2>7. QED
    BY <1>5, <2>1, <2>2, <2>3, <2>4, <2>5, <2>6 DEF Execute
<1>6. ASSUME NEW r \in Runs, SelectAbort(r) PROVE TypeInv'
  <2>1. TypeOK'
    BY <1>6, EndType DEF SelectAbort, Feed!Finals
  <2>2. CurrentKnown'
    BY <1>6 DEF CurrentKnown, SelectAbort, End
  <2>3. QED
    BY <2>1, <2>2
<1>7. ASSUME NEW r \in Runs, BroadcastTeamUpdate(r) PROVE TypeInv'
  <2>1. TypeOK'
    BY <1>7 DEF BroadcastTeamUpdate, Places
  <2>2. CurrentKnown'
    BY <1>7 DEF CurrentKnown, BroadcastTeamUpdate
  <2>3. QED
    BY <2>1, <2>2
<1>8. ASSUME NEW a \in Requests, ServeAbort(a) PROVE TypeInv'
  <2>1. CASE AbortRefused(a)
    <3>1. TypeOK'
      BY ZenonT(60), <2>1 DEF AbortRefused, Respond, Responses
    <3>2. CurrentKnown'
      BY <2>1 DEF CurrentKnown, AbortRefused
    <3>3. QED
      BY <3>1, <3>2
  <2>2. ASSUME NEW r \in Runs, NEW u \in Users, NEW tests \in BOOLEAN,
               AbortLookup(a, r, u, tests)
        PROVE  TypeInv'
    <3>1. TypeOK'
      BY ZenonT(60), <2>2 DEF AbortLookup, Respond, Responses
    <3>2. CurrentKnown'
      BY <2>2 DEF CurrentKnown, AbortLookup
    <3>3. QED
      BY <3>1, <3>2
  <2>3. CASE Abort(a)
    <3>1. TypeOK'
      BY ZenonT(60), <2>3 DEF Abort, Respond, Responses, TakeHandle
    <3>2. CurrentKnown'
      BY <2>3 DEF CurrentKnown, Abort
    <3>3. QED
      BY <3>1, <3>2
  <2>4. CASE Cancel(a)
    <3>1. TypeOK'
      BY <2>4 DEF Cancel, Respond, Responses, SetState, RowStates
    <3>2. CurrentKnown'
      BY <2>4 DEF CurrentKnown, Cancel
    <3>3. QED
      BY <3>1, <3>2
  <2>5. CASE AbortDropped(a)
    <3>1. TypeOK'
      BY <2>5 DEF AbortDropped, Respond, Responses
    <3>2. CurrentKnown'
      BY <2>5 DEF CurrentKnown, AbortDropped
    <3>3. QED
      BY <3>1, <3>2
  <2>6. QED
    BY <1>8, <2>1, <2>2, <2>3, <2>4, <2>5 DEF ServeAbort
<1>9. CASE TogglePause
  BY <1>9 DEF TogglePause, CurrentKnown
<1>10. CASE Restart
  BY <1>10, TesterAssumption DEF Restart, Places, Live, Outcomes, Responses, CurrentKnown
<1>11. CASE UNCHANGED vars
  BY <1>11 DEF vars, CurrentKnown
<1>12. QED
  BY <1>1, <1>2, <1>3, <1>4, <1>5, <1>6, <1>7, <1>8, <1>9, <1>10, <1>11 DEF Next

(* Every variable keeps its type, so no task, handler or table ever takes a  *)
(* value the code has no case for (run_test, abort_submission, restarts).    *)
THEOREM TypeCorrect == Spec => []TypeOK
<1>1. TypeInv => TypeOK
  BY DEF TypeInv
<1>2. QED
  BY <1>1, TypeInit, TypeStep, PTL DEF Spec

-----------------------------------------------------------------------------
(* Steps that touch one run *)

(* What a step does not change of run x. *)
SameTables(x) == state'[x] = state[x] /\ score'[x] = score[x] /\ test_results'[x] = test_results[x]
SameLocals(x) == yielded'[x] = yielded[x] /\ current'[x] = current[x] /\ tally'[x] = tally[x]
SameFeed(x) == compiled'[x] = compiled[x] /\ reported'[x] = reported[x] /\ final'[x] = final[x]
SameHandle(x) ==
    /\ (x \in abort_handles' <=> x \in abort_handles)
    /\ (x \in signalled' <=> x \in signalled)
SameRun(x) ==
    /\ req'[x] = req[x] /\ pc'[x] = pc[x] /\ stmt'[x] = stmt[x]
    /\ SameTables(x) /\ SameLocals(x) /\ SameFeed(x) /\ SameHandle(x)

(* A run whose stored results are unchanged has the same counts. *)
LEMMA SameResults ==
    ASSUME NEW x \in Runs, test_results'[x] = test_results[x]
    PROVE  Recorded(x)' = Recorded(x) /\ \A v \in Verdicts : Stored(x, v)' = Stored(x, v)
BY DEF Recorded, Stored

SameCounts(x) ==
    /\ Recorded(x)' = Recorded(x)
    /\ Stored(x, "pass")' = Stored(x, "pass")
    /\ Stored(x, "fail")' = Stored(x, "fail")

(* What holds of a run before a step that leaves its stored results alone. *)
LEMMA Before ==
    ASSUME IInv, NEW x \in Runs, test_results'[x] = test_results[x]
    PROVE  RunInv(x) /\ SameCounts(x)
BY SameResults DEF IInv, SameCounts, Verdicts

(* A run that a step does not touch stays as RunInv says. *)
LEMMA Frame ==
    ASSUME NEW x \in Runs, RunInv(x), SameRun(x)
    PROVE  RunInv(x)'
<1>1. Recorded(x)' = Recorded(x) /\ Stored(x, "pass")' = Stored(x, "pass")
      /\ Stored(x, "fail")' = Stored(x, "fail")
  BY SameResults DEF SameRun, SameTables, Verdicts
<1>2. PlaceOf(x)' /\ RowOf(x)' /\ CloseOf(x)' /\ HandleOf(x)'
  BY <1>1
  DEF RunInv, SameRun, SameTables, SameFeed, SameHandle, PlaceOf, RowOf, CloseOf, HandleOf
<1>3. ReportOf(x)'
  BY <1>1 DEF RunInv, SameRun, SameTables, SameFeed, SameLocals, ReportOf
<1>4. CountOf(x)'
  BY <1>1 DEF RunInv, SameRun, SameTables, SameLocals, CountOf, Counted, CountedAhead, CasesOf
<1>5. ScoreOf(x)'
  BY <1>1 DEF RunInv, SameRun, SameTables, ScoreOf, CasesOf
<1>6. QED
  BY <1>2, <1>3, <1>4, <1>5 DEF RunInv

Local(r) ==
    /\ \A x \in Runs \ {r} : SameRun(x)
    /\ UNCHANGED <<signalled, apc, target>>
    /\ state[r] # "absent" => state'[r] # "absent"
    /\ state'[r] = "started" => state[r] \in {"absent", "started"}

(* A step that touches run r alone preserves IInv if it preserves RunInv(r). *)
LEMMA LocalStep ==
    ASSUME IInv, TypeInv', NEW r \in Runs, Local(r), RunInv(r)'
    PROVE  IInv'
<1>1. \A x \in Runs : RunInv(x)'
  BY Frame DEF Local, IInv
<1>2. \A x \in Runs : /\ state[x] # "absent" => state'[x] # "absent"
                      /\ state'[x] = "started" => state[x] \in {"absent", "started"}
  BY DEF Local, SameRun, SameTables
<1>3. RequestInv'
  BY <1>2 DEF IInv, RequestInv, SingleAborter, Local
<1>4. QED
  BY <1>1, <1>3 DEF IInv

-----------------------------------------------------------------------------
(* The tables *)

(* The stored results of a run can be counted. *)
LEMMA StoredFinite ==
  ASSUME NEW x \in Runs, NEW v \in Verdicts
  PROVE  IsFiniteSet(Stored(x, v)) /\ (Cardinality(Stored(x, v)) = 0 <=> Stored(x, v) = {})
BY PacketAssumption, FS_Subset, FS_EmptySet DEF Stored

(* Executing create_test_results adds one result, and counts it once. *)
LEMMA OneMoreResult ==
  ASSUME TypeInv, TypeOK', NEW r \in Runs, ExecRecord(r), current[r][1] \notin Recorded(r)
  PROVE  /\ Recorded(r)' = Recorded(r) \union {current[r][1]}
         /\ \A v \in Verdicts :
              Cardinality(Stored(r, v)') = IF v = current[r][2]
                                           THEN Cardinality(Stored(r, v)) + 1
                                           ELSE Cardinality(Stored(r, v))
         /\ \A x \in Runs \ {r} :
              Recorded(x)' = Recorded(x) /\ \A v \in Verdicts : Stored(x, v)' = Stored(x, v)
<1> DEFINE c == current[r][1]
           w == current[r][2]
<1>1. c \in Cases /\ w \in Verdicts /\ test_results[r][c] = "none"
  BY DEF TypeInv, CurrentKnown, ExecRecord, Recorded
<1>2. test_results \in [Runs -> [Cases -> Verdicts \union {"none"}]]
  BY DEF TypeInv, TypeOK
<1>3. test_results' = [test_results EXCEPT ![r][c] = w]
  BY DEF ExecRecord, Record
<1>4. \A d \in Cases : test_results'[r][d] = IF d = c THEN w ELSE test_results[r][d]
  BY <1>1, <1>2, <1>3
<1>5. Recorded(r)' = Recorded(r) \union {c}
  BY <1>1, <1>4 DEF Recorded, Verdicts
<1>6. ASSUME NEW v \in Verdicts
      PROVE  Cardinality(Stored(r, v)') = IF v = w THEN Cardinality(Stored(r, v)) + 1
                                                   ELSE Cardinality(Stored(r, v))
  <2>1. CASE v = w
    <3>1. Stored(r, v)' = Stored(r, v) \union {c} /\ c \notin Stored(r, v)
      BY ZenonT(60), <1>1, <1>4, <2>1 DEF Stored, Verdicts
    <3>2. IsFiniteSet(Stored(r, v))
      BY StoredFinite
    <3>3. Cardinality(Stored(r, v) \union {c}) = Cardinality(Stored(r, v)) + 1
      BY <3>1, <3>2, FS_AddElement
    <3>4. QED
      BY <2>1, <3>1, <3>3
  <2>2. CASE v # w
    <3>1. Stored(r, v)' = Stored(r, v)
      BY <1>1, <1>4, <2>2 DEF Stored, Verdicts
    <3>2. QED
      BY <2>2, <3>1
  <2>3. QED
    BY <2>1, <2>2
<1>7. \A x \in Runs \ {r} :
        Recorded(x)' = Recorded(x) /\ \A v \in Verdicts : Stored(x, v)' = Stored(x, v)
  BY <1>2, <1>3 DEF Recorded, Stored
<1>8. QED
  BY <1>5, <1>6, <1>7

(* Once the result it is ahead by is stored, the counters agree with the table. *)
LEMMA ExecRecordCount ==
  ASSUME IInv, TypeInv', NEW r \in Runs, ExecRecord(r)
  PROVE  Counted(r)'
<1>1. /\ stmt[r] = "record" /\ tally'[r] = tally[r]
      /\ current[r] \in Cases \X Verdicts
  BY DEF IInv, TypeInv, CurrentKnown, locals, ExecRecord
<1>2. RunInv(r)
  BY DEF IInv
<1>3. /\ current[r][1] \notin Recorded(r)
      /\ CountedAhead(r, current[r][2])
  BY <1>1, <1>2 DEF RunInv, CountOf
<1>4. ASSUME NEW v \in Verdicts
      PROVE  Cardinality(Stored(r, v)') = Cardinality(Stored(r, v)) + IF current[r][2] = v THEN 1 ELSE 0
  <2>1. Cardinality(Stored(r, v)') = IF v = current[r][2]
                                           THEN Cardinality(Stored(r, v)) + 1
                                           ELSE Cardinality(Stored(r, v))
    BY <1>3, OneMoreResult DEF IInv, TypeInv
  <2>2. Cardinality(Stored(r, v)) \in Nat
    BY StoredFinite, FS_CardinalityType
  <2>3. QED
    BY <2>1, <2>2
<1>5. QED
  <2>1. Cardinality(Stored(r, "pass")') = tally[r]["pass"]
    BY <1>3, <1>4 DEF CountedAhead, Verdicts
  <2>2. Cardinality(Stored(r, "fail")') = tally[r]["fail"]
    BY <1>3, <1>4 DEF CountedAhead, Verdicts
  <2>3. QED
    BY <1>1, <2>1, <2>2 DEF Counted

(* create_test_results preserves the invariant. *)
LEMMA ExecRecordStep == ASSUME IInv, TypeInv', NEW r \in Runs, ExecRecord(r) PROVE IInv'
<1>1. Local(r)
  BY DEF IInv, TypeInv, TypeOK, Feed!FeedType, task, locals, db, aborts, feed, ExecRecord,
      Record, Executed, Local, SameRun, SameTables, SameLocals, SameFeed, SameHandle
<1>2. /\ req'[r] = req[r] /\ pc'[r] = pc[r] /\ stmt[r] = "record" /\ stmt'[r] = "ok"
      /\ state'[r] = state[r] /\ score'[r] = score[r]
      /\ current[r] \in Cases \X Verdicts
      /\ SameLocals(r) /\ SameFeed(r) /\ SameHandle(r)
  BY DEF IInv, TypeInv, TypeOK, CurrentKnown, Feed!FeedType, task, locals, db, aborts, feed,
      ExecRecord, Executed, SameLocals, SameFeed, SameHandle
<1>3. RunInv(r)
  BY DEF IInv
<1>4. current[r][1] \notin Recorded(r)
  BY <1>2, <1>3 DEF RunInv, CountOf
<1>5. /\ Recorded(r)' = Recorded(r) \union {current[r][1]}
      /\ \A v \in {"pass", "fail"} :
           Cardinality(Stored(r, v)') = IF v = current[r][2]
                                        THEN Cardinality(Stored(r, v)) + 1
                                        ELSE Cardinality(Stored(r, v))
  BY <1>4, OneMoreResult DEF Verdicts, IInv, TypeInv
<1>6. Counted(r)'
  BY ExecRecordCount
<1>7. PlaceOf(r)' /\ RowOf(r)' /\ CloseOf(r)' /\ HandleOf(r)' /\ ScoreOf(r)'
  BY <1>2, <1>3, <1>5
  DEF RunInv, PlaceOf, RowOf, CloseOf, HandleOf, ScoreOf, SameFeed, SameHandle, Live, Statements
<1>8. ReportOf(r)'
  BY <1>2, <1>3, <1>4, <1>5
  DEF RunInv, PlaceOf, ReportOf, SameLocals, SameFeed, Live, Statements
<1>9. CountOf(r)'
  BY <1>2, <1>3, <1>5, <1>6 DEF RunInv, PlaceOf, CountOf, SameLocals, Live, Statements, CasesOf
<1>10. RunInv(r)'
  BY <1>7, <1>8, <1>9 DEF RunInv
<1>11. QED
  BY <1>1, <1>10, LocalStep

-----------------------------------------------------------------------------
(* The task of a run *)

(* The steps of create_submission and create_test preserve the invariant. *)
LEMMA CreateStep ==
    ASSUME IInv, TypeInv', NEW r \in Runs, Create(r)
    PROVE  IInv'
<1>1. CASE CreateRejected(r)
  <2>1. Local(r)
    BY <1>1
    DEF IInv, TypeInv, TypeOK, Feed!FeedType, task, locals, db, aborts, feed, CreateRejected,
        Local, SameRun, SameTables, SameLocals, SameFeed, SameHandle
  <2>2. /\ req[r] = "idle" /\ req'[r] = "rejected" /\ pc'[r] = pc[r] /\ stmt'[r] = stmt[r]
        /\ SameTables(r) /\ SameLocals(r) /\ SameFeed(r) /\ SameHandle(r)
    BY <1>1
    DEF IInv, TypeInv, TypeOK, Feed!FeedType, task, locals, db, aborts, feed, CreateRejected,
        SameTables, SameLocals, SameFeed, SameHandle
  <2>3. RunInv(r)'
    BY <2>2, Before
    DEF SameCounts, RunInv, PlaceOf, RowOf, CountOf, ReportOf, CloseOf, HandleOf, ScoreOf,
        Counted, CountedAhead, SameTables, SameLocals, SameFeed, SameHandle, CasesOf, Live,
        Statements
  <2>4. QED
    BY <2>1, <2>3, LocalStep
<1>2. CASE CreateAccepted(r)
  <2>1. Local(r)
    BY <1>2
    DEF IInv, TypeInv, TypeOK, Feed!FeedType, task, locals, db, aborts, feed, CreateAccepted,
        Local, SameRun, SameTables, SameLocals, SameFeed, SameHandle
  <2>2. /\ req[r] = "idle" /\ req'[r] = "waiting" /\ pc'[r] = "compiling" /\ stmt'[r] = stmt[r]
        /\ r \in abort_handles'
        /\ r \in signalled' <=> r \in signalled
        /\ SameTables(r) /\ SameLocals(r) /\ SameFeed(r)
    BY <1>2
    DEF IInv, TypeInv, TypeOK, Feed!FeedType, task, locals, db, aborts, feed, CreateAccepted,
        SameTables, SameLocals, SameFeed, SameHandle
  <2>3. RunInv(r)'
    BY <2>2, Before
    DEF SameCounts, RunInv, PlaceOf, RowOf, CountOf, ReportOf, CloseOf, HandleOf, ScoreOf,
        Counted, CountedAhead, SameTables, SameLocals, SameFeed, SameHandle, CasesOf, Live,
        Statements
  <2>4. QED
    BY <2>1, <2>3, LocalStep
<1>3. CASE CreateAnswered(r)
  <2>1. Local(r)
    BY <1>3
    DEF IInv, TypeInv, TypeOK, Feed!FeedType, task, locals, db, aborts, feed, CreateAnswered,
        Local, SameRun, SameTables, SameLocals, SameFeed, SameHandle
  <2>2. /\ req[r] = "waiting" /\ req'[r] = "created" /\ pc'[r] = pc[r] /\ stmt'[r] = stmt[r]
        /\ SameTables(r) /\ SameLocals(r) /\ SameFeed(r) /\ SameHandle(r)
    BY <1>3
    DEF IInv, TypeInv, TypeOK, Feed!FeedType, task, locals, db, aborts, feed, CreateAnswered,
        SameTables, SameLocals, SameFeed, SameHandle
  <2>3. RunInv(r)'
    BY <2>2, Before
    DEF SameCounts, RunInv, PlaceOf, RowOf, CountOf, ReportOf, CloseOf, HandleOf, ScoreOf,
        Counted, CountedAhead, SameTables, SameLocals, SameFeed, SameHandle, CasesOf, Live,
        Statements
  <2>4. QED
    BY <2>1, <2>3, LocalStep
<1>4. CASE CreateDropped(r)
  <2>1. Local(r)
    BY <1>4
    DEF IInv, TypeInv, TypeOK, Feed!FeedType, task, locals, db, aborts, feed, CreateDropped,
        Local, SameRun, SameTables, SameLocals, SameFeed, SameHandle
  <2>2. /\ req[r] = "waiting" /\ req'[r] = "dropped" /\ pc'[r] = pc[r] /\ stmt'[r] = stmt[r]
        /\ SameTables(r) /\ SameLocals(r) /\ SameFeed(r) /\ SameHandle(r)
    BY <1>4
    DEF IInv, TypeInv, TypeOK, Feed!FeedType, task, locals, db, aborts, feed, CreateDropped,
        SameTables, SameLocals, SameFeed, SameHandle
  <2>3. RunInv(r)'
    BY <2>2, Before
    DEF SameCounts, RunInv, PlaceOf, RowOf, CountOf, ReportOf, CloseOf, HandleOf, ScoreOf,
        Counted, CountedAhead, SameTables, SameLocals, SameFeed, SameHandle, CasesOf, Live,
        Statements
  <2>4. QED
    BY <2>1, <2>3, LocalStep
<1>5. QED
  BY <1>1, <1>2, <1>3, <1>4 DEF Create

(* So do the endings of the compile command, *)
LEMMA CompileStep ==
    ASSUME IInv, TypeInv', NEW r \in Runs, Compile(r)
    PROVE  IInv'
<1>1. CASE CompileFails(r)
  <2>1. Local(r)
    BY <1>1
    DEF IInv, TypeInv, TypeOK, Feed!FeedType, task, locals, db, aborts, feed, CompileFails,
        Await, Local, SameRun, SameTables, SameLocals, SameFeed, SameHandle
  <2>2. /\ req'[r] = req[r]
        /\ pc[r] = "compiling" /\ pc'[r] = "insert_failed" /\ stmt'[r] = "insert_failed"
        /\ SameTables(r) /\ SameLocals(r) /\ SameFeed(r) /\ SameHandle(r)
    BY <1>1
    DEF IInv, TypeInv, TypeOK, Feed!FeedType, task, locals, db, aborts, feed, CompileFails,
        Await, SameTables, SameLocals, SameFeed, SameHandle
  <2>3. RunInv(r)'
    BY <2>2, Before
    DEF SameCounts, RunInv, PlaceOf, RowOf, CountOf, ReportOf, CloseOf, HandleOf, ScoreOf,
        Counted, CountedAhead, SameTables, SameLocals, SameFeed, SameHandle, CasesOf, Live,
        Statements
  <2>4. QED
    BY <2>1, <2>3, LocalStep
<1>2. CASE CompileErrors(r)
  <2>1. Local(r)
    BY <1>2
    DEF IInv, TypeInv, TypeOK, Feed!FeedType, task, locals, db, aborts, feed, CompileErrors,
        End, Local, SameRun, SameTables, SameLocals, SameFeed, SameHandle
  <2>2. /\ req'[r] = req[r]
        /\ pc[r] = "compiling" /\ pc'[r] = "broadcast" /\ stmt'[r] = stmt[r] /\ final'[r] = "Error"
        /\ compiled'[r] = compiled[r] /\ reported'[r] = reported[r]
        /\ SameTables(r) /\ SameLocals(r) /\ SameHandle(r)
    BY <1>2
    DEF IInv, TypeInv, TypeOK, Feed!FeedType, task, locals, db, aborts, feed, CompileErrors,
        End, SameTables, SameLocals, SameFeed, SameHandle
  <2>3. RunInv(r)'
    BY <2>2, Before
    DEF SameCounts, RunInv, PlaceOf, RowOf, CountOf, ReportOf, CloseOf, HandleOf, ScoreOf,
        Counted, CountedAhead, SameTables, SameLocals, SameFeed, SameHandle, CasesOf, Live,
        Statements
  <2>4. QED
    BY <2>1, <2>3, LocalStep
<1>3. ASSUME NEW built \in BOOLEAN, CompileSucceeds(r, built) PROVE IInv'
  <2>1. Local(r)
    BY <1>3
    DEF IInv, TypeInv, TypeOK, Feed!FeedType, task, locals, db, aborts, feed, CompileSucceeds,
        Await, Local, SameRun, SameTables, SameLocals, SameFeed, SameHandle
  <2>2. /\ req'[r] = req[r]
        /\ pc[r] = "compiling" /\ pc'[r] = "insert" /\ stmt'[r] = "insert"
        /\ reported'[r] = reported[r] /\ final'[r] = final[r]
        /\ SameTables(r) /\ SameLocals(r) /\ SameHandle(r)
    BY <1>3
    DEF IInv, TypeInv, TypeOK, Feed!FeedType, task, locals, db, aborts, feed, CompileSucceeds,
        Await, SameTables, SameLocals, SameFeed, SameHandle
  <2>3. RunInv(r)'
    BY <2>2, Before
    DEF SameCounts, RunInv, PlaceOf, RowOf, CountOf, ReportOf, CloseOf, HandleOf, ScoreOf,
        Counted, CountedAhead, SameTables, SameLocals, SameFeed, SameHandle, CasesOf, Live,
        Statements
  <2>4. QED
    BY <2>1, <2>3, LocalStep
<1>4. QED
  BY <1>1, <1>2, <1>3 DEF Compile

(* what the runner hands over, *)
LEMMA RunCasesStep ==
    ASSUME IInv, TypeInv', NEW r \in Runs, RunCases(r)
    PROVE  IInv'
<1>1. ASSUME NEW c \in Cases, NEW v \in Verdicts, NextResult(r, c, v) PROVE IInv'
  <2>1. Local(r)
    BY <1>1
    DEF IInv, TypeInv, TypeOK, Feed!FeedType, task, locals, db, aborts, feed, NextResult, Await,
        Due, Verdicts, Local, SameRun, SameTables, SameLocals, SameFeed, SameHandle
  <2>2. /\ req'[r] = req[r]
        /\ pc[r] = "testing" /\ pc'[r] = "record" /\ stmt'[r] = "record"
        /\ c \in Cases /\ c \notin yielded[r] /\ c \in CasesOf(r) /\ v \in {"pass", "fail"}
        /\ yielded'[r] = yielded[r] \union {c} /\ current'[r] = <<c, v>>
        /\ tally'[r]["pass"] = tally[r]["pass"] + IF v = "pass" THEN 1 ELSE 0
        /\ tally'[r]["fail"] = tally[r]["fail"] + IF v = "fail" THEN 1 ELSE 0
        /\ SameTables(r) /\ SameFeed(r) /\ SameHandle(r)
    BY <1>1
    DEF IInv, TypeInv, TypeOK, Feed!FeedType, task, locals, db, aborts, feed, NextResult, Await,
        Due, Verdicts, SameTables, SameLocals, SameFeed, SameHandle, Statements, CasesOf
  <2>3. RunInv(r)'
    BY <2>2, Before
    DEF SameCounts, RunInv, PlaceOf, RowOf, CountOf, ReportOf, CloseOf, HandleOf, ScoreOf,
        Counted, CountedAhead, SameTables, SameLocals, SameFeed, SameHandle, CasesOf, Live,
        Statements
  <2>4. QED
    BY <2>1, <2>3, LocalStep
<1>2. CASE RunnerFails(r)
  <2>1. Local(r)
    BY <1>2
    DEF IInv, TypeInv, TypeOK, Feed!FeedType, task, locals, db, aborts, feed, RunnerFails, End,
        Local, SameRun, SameTables, SameLocals, SameFeed, SameHandle
  <2>2. /\ req'[r] = req[r]
        /\ pc[r] = "testing" /\ pc'[r] = "broadcast" /\ stmt'[r] = stmt[r] /\ final'[r] = "Error"
        /\ compiled'[r] = compiled[r] /\ reported'[r] = reported[r]
        /\ SameTables(r) /\ SameLocals(r) /\ SameHandle(r)
    BY <1>2
    DEF IInv, TypeInv, TypeOK, Feed!FeedType, task, locals, db, aborts, feed, RunnerFails, End,
        SameTables, SameLocals, SameFeed, SameHandle
  <2>3. RunInv(r)'
    BY <2>2, Before
    DEF SameCounts, RunInv, PlaceOf, RowOf, CountOf, ReportOf, CloseOf, HandleOf, ScoreOf,
        Counted, CountedAhead, SameTables, SameLocals, SameFeed, SameHandle, CasesOf, Live,
        Statements
  <2>4. QED
    BY <2>1, <2>3, LocalStep
<1>3. CASE AllTested(r)
  <2>1. Local(r)
    BY <1>3
    DEF IInv, TypeInv, TypeOK, Feed!FeedType, task, locals, db, aborts, feed, AllTested, Await,
        Due, Local, SameRun, SameTables, SameLocals, SameFeed, SameHandle
  <2>2. /\ req'[r] = req[r]
        /\ pc[r] = "testing" /\ pc'[r] \in {"finish", "fail"} /\ stmt'[r] = pc'[r]
        /\ CasesOf(r) \subseteq yielded[r]
        /\ SameTables(r) /\ SameLocals(r) /\ SameFeed(r) /\ SameHandle(r)
    BY <1>3
    DEF IInv, TypeInv, TypeOK, Feed!FeedType, task, locals, db, aborts, feed, AllTested, Await,
        Due, SameTables, SameLocals, SameFeed, SameHandle, Statements, CasesOf
  <2>3. yielded[r] = CasesOf(r)
    BY <2>2, Before DEF SameTables, RunInv, CountOf
  <2>4. RunInv(r)'
    BY <2>2, Before, <2>3
    DEF SameCounts, RunInv, PlaceOf, RowOf, CountOf, ReportOf, CloseOf, HandleOf, ScoreOf,
        Counted, CountedAhead, SameTables, SameLocals, SameFeed, SameHandle, CasesOf, Live,
        Statements
  <2>5. QED
    BY <2>1, <2>4, LocalStep
<1>4. QED
  BY <1>1, <1>2, <1>3 DEF RunCases

(* the task's return from a statement, *)
LEMMA ResumeStep ==
    ASSUME IInv, TypeInv', NEW r \in Runs, Resume(r)
    PROVE  IInv'
<1>1. CASE ResumeInsertFailed(r)
  <2>1. Local(r)
    BY <1>1
    DEF IInv, TypeInv, TypeOK, Feed!FeedType, task, locals, db, aborts, feed,
        ResumeInsertFailed, Await, End, Local, SameRun, SameTables, SameLocals, SameFeed,
        SameHandle
  <2>2. CASE Succeeded(r) /\ End(r, "CompileFailed")
    <3>1. /\ req'[r] = req[r]
          /\ pc[r] = "insert_failed" /\ pc'[r] = "broadcast" /\ stmt'[r] = stmt[r]
          /\ final'[r] = "CompileFailed"
          /\ compiled'[r] = compiled[r] /\ reported'[r] = reported[r]
          /\ stmt[r] = "ok"
          /\ SameTables(r) /\ SameLocals(r) /\ SameHandle(r)
      BY <1>1, <2>2
      DEF IInv, TypeInv, TypeOK, Feed!FeedType, task, locals, db, aborts, feed,
          ResumeInsertFailed, End, Succeeded, SameTables, SameLocals, SameFeed, SameHandle
    <3>2. RunInv(r)'
      BY <3>1, Before
      DEF SameCounts, RunInv, PlaceOf, RowOf, CountOf, ReportOf, CloseOf, HandleOf, ScoreOf,
          Counted, CountedAhead, SameTables, SameLocals, SameFeed, SameHandle, CasesOf, Live,
          Statements
    <3>3. QED
      BY <2>1, <3>2, LocalStep
  <2>3. CASE stmt[r] = "err" /\ End(r, "Error")
    <3>1. /\ req'[r] = req[r]
          /\ pc[r] = "insert_failed" /\ pc'[r] = "broadcast" /\ stmt'[r] = stmt[r] /\ final'[r] = "Error"
          /\ compiled'[r] = compiled[r] /\ reported'[r] = reported[r]
          /\ stmt[r] = "err"
          /\ SameTables(r) /\ SameLocals(r) /\ SameHandle(r)
      BY <1>1, <2>3
      DEF IInv, TypeInv, TypeOK, Feed!FeedType, task, locals, db, aborts, feed,
          ResumeInsertFailed, End, SameTables, SameLocals, SameFeed, SameHandle
    <3>2. RunInv(r)'
      BY <3>1, Before
      DEF SameCounts, RunInv, PlaceOf, RowOf, CountOf, ReportOf, CloseOf, HandleOf, ScoreOf,
          Counted, CountedAhead, SameTables, SameLocals, SameFeed, SameHandle, CasesOf, Live,
          Statements
    <3>3. QED
      BY <2>1, <3>2, LocalStep
  <2>4. QED
    BY <1>1, <2>2, <2>3 DEF ResumeInsertFailed, Succeeded
<1>2. CASE ResumeInsert(r)
  <2>1. Local(r)
    BY <1>2
    DEF IInv, TypeInv, TypeOK, Feed!FeedType, task, locals, db, aborts, feed, ResumeInsert,
        Await, End, Local, SameRun, SameTables, SameLocals, SameFeed, SameHandle
  <2>2. CASE Succeeded(r) /\ pc' = [pc EXCEPT ![r] = "testing"] /\ UNCHANGED feed
    <3>1. /\ req'[r] = req[r]
          /\ pc[r] = "insert" /\ pc'[r] = "testing" /\ stmt[r] = "ok" /\ stmt'[r] = stmt[r]
          /\ SameTables(r) /\ SameLocals(r) /\ SameFeed(r) /\ SameHandle(r)
      BY <1>2, <2>2
      DEF IInv, TypeInv, TypeOK, Feed!FeedType, task, locals, db, aborts, feed, ResumeInsert,
          Succeeded, SameTables, SameLocals, SameFeed, SameHandle
    <3>2. RunInv(r)'
      BY <3>1, Before
      DEF SameCounts, RunInv, PlaceOf, RowOf, CountOf, ReportOf, CloseOf, HandleOf, ScoreOf,
          Counted, CountedAhead, SameTables, SameLocals, SameFeed, SameHandle, CasesOf, Live,
          Statements
    <3>3. QED
      BY <2>1, <3>2, LocalStep
  <2>3. CASE stmt[r] = "err" /\ End(r, "Error")
    <3>1. /\ req'[r] = req[r]
          /\ pc[r] = "insert" /\ pc'[r] = "broadcast" /\ stmt'[r] = stmt[r] /\ final'[r] = "Error"
          /\ compiled'[r] = compiled[r] /\ reported'[r] = reported[r]
          /\ stmt[r] = "err"
          /\ SameTables(r) /\ SameLocals(r) /\ SameHandle(r)
      BY <1>2, <2>3
      DEF IInv, TypeInv, TypeOK, Feed!FeedType, task, locals, db, aborts, feed, ResumeInsert,
          End, SameTables, SameLocals, SameFeed, SameHandle
    <3>2. RunInv(r)'
      BY <3>1, Before
      DEF SameCounts, RunInv, PlaceOf, RowOf, CountOf, ReportOf, CloseOf, HandleOf, ScoreOf,
          Counted, CountedAhead, SameTables, SameLocals, SameFeed, SameHandle, CasesOf, Live,
          Statements
    <3>3. QED
      BY <2>1, <3>2, LocalStep
  <2>4. QED
    BY <1>2, <2>2, <2>3 DEF ResumeInsert, Succeeded
<1>3. CASE ResumeRecord(r)
  <2>1. Local(r)
    BY <1>3
    DEF IInv, TypeInv, TypeOK, Feed!FeedType, task, locals, db, aborts, feed, ResumeRecord,
        Await, End, Local, SameRun, SameTables, SameLocals, SameFeed, SameHandle
  <2>2. CASE stmt[r] = "ok"
    <3>1. /\ req'[r] = req[r]
          /\ pc[r] = "record" /\ pc'[r] = "testing" /\ stmt[r] = "ok" /\ stmt'[r] = stmt[r]
          /\ reported'[r] = reported[r] \union {current[r][1]}
          /\ compiled'[r] = compiled[r] /\ final'[r] = final[r]
          /\ SameTables(r) /\ SameLocals(r) /\ SameHandle(r)
      BY <1>3, <2>2
      DEF IInv, TypeInv, TypeOK, Feed!FeedType, task, locals, db, aborts, feed, ResumeRecord,
          Succeeded, SameTables, SameLocals, SameFeed, SameHandle
    <3>2. RunInv(r)'
      BY <3>1, Before
      DEF SameCounts, RunInv, PlaceOf, RowOf, CountOf, ReportOf, CloseOf, HandleOf, ScoreOf,
          Counted, CountedAhead, SameTables, SameLocals, SameFeed, SameHandle, CasesOf, Live,
          Statements
    <3>3. QED
      BY <2>1, <3>2, LocalStep
  <2>3. CASE stmt[r] = "err"
    <3>1. /\ req'[r] = req[r]
          /\ stmt[r] = "err"
          /\ pc[r] = "record" /\ pc'[r] = "fail" /\ stmt'[r] = "fail"
          /\ SameTables(r) /\ SameLocals(r) /\ SameFeed(r) /\ SameHandle(r)
      BY <1>3, <2>3
      DEF IInv, TypeInv, TypeOK, Feed!FeedType, task, locals, db, aborts, feed, ResumeRecord,
          Await, Succeeded, SameTables, SameLocals, SameFeed, SameHandle
    <3>2. RunInv(r)'
      BY <3>1, Before
      DEF SameCounts, RunInv, PlaceOf, RowOf, CountOf, ReportOf, CloseOf, HandleOf, ScoreOf,
          Counted, CountedAhead, SameTables, SameLocals, SameFeed, SameHandle, CasesOf, Live,
          Statements
    <3>3. QED
      BY <2>1, <3>2, LocalStep
  <2>4. QED
    BY <1>3, <2>2, <2>3 DEF ResumeRecord, Succeeded
<1>4. CASE ResumeFinish(r)
  <2>1. Local(r)
    BY <1>4
    DEF IInv, TypeInv, TypeOK, Feed!FeedType, task, locals, db, aborts, feed, ResumeFinish,
        Await, End, Local, SameRun, SameTables, SameLocals, SameFeed, SameHandle
  <2>2. CASE Succeeded(r) /\ End(r, "Complete")
    <3>1. /\ req'[r] = req[r]
          /\ pc[r] = "finish" /\ pc'[r] = "broadcast" /\ stmt'[r] = stmt[r] /\ final'[r] = "Complete"
          /\ compiled'[r] = compiled[r] /\ reported'[r] = reported[r]
          /\ stmt[r] = "ok"
          /\ SameTables(r) /\ SameLocals(r) /\ SameHandle(r)
      BY <1>4, <2>2
      DEF IInv, TypeInv, TypeOK, Feed!FeedType, task, locals, db, aborts, feed, ResumeFinish,
          End, Succeeded, SameTables, SameLocals, SameFeed, SameHandle
    <3>2. RunInv(r)'
      BY <3>1, Before
      DEF SameCounts, RunInv, PlaceOf, RowOf, CountOf, ReportOf, CloseOf, HandleOf, ScoreOf,
          Counted, CountedAhead, SameTables, SameLocals, SameFeed, SameHandle, CasesOf, Live,
          Statements
    <3>3. QED
      BY <2>1, <3>2, LocalStep
  <2>3. CASE stmt[r] = "err" /\ End(r, "Error")
    <3>1. /\ req'[r] = req[r]
          /\ pc[r] = "finish" /\ pc'[r] = "broadcast" /\ stmt'[r] = stmt[r] /\ final'[r] = "Error"
          /\ compiled'[r] = compiled[r] /\ reported'[r] = reported[r]
          /\ stmt[r] = "err"
          /\ SameTables(r) /\ SameLocals(r) /\ SameHandle(r)
      BY <1>4, <2>3
      DEF IInv, TypeInv, TypeOK, Feed!FeedType, task, locals, db, aborts, feed, ResumeFinish,
          End, SameTables, SameLocals, SameFeed, SameHandle
    <3>2. RunInv(r)'
      BY <3>1, Before
      DEF SameCounts, RunInv, PlaceOf, RowOf, CountOf, ReportOf, CloseOf, HandleOf, ScoreOf,
          Counted, CountedAhead, SameTables, SameLocals, SameFeed, SameHandle, CasesOf, Live,
          Statements
    <3>3. QED
      BY <2>1, <3>2, LocalStep
  <2>4. QED
    BY <1>4, <2>2, <2>3 DEF ResumeFinish, Succeeded
<1>5. CASE ResumeFail(r)
  <2>1. Local(r)
    BY <1>5
    DEF IInv, TypeInv, TypeOK, Feed!FeedType, task, locals, db, aborts, feed, ResumeFail, End,
        Local, SameRun, SameTables, SameLocals, SameFeed, SameHandle
  <2>2. /\ req'[r] = req[r]
        /\ stmt[r] \in {"ok", "err"}
        /\ pc[r] = "fail" /\ pc'[r] = "broadcast" /\ stmt'[r] = stmt[r] /\ final'[r] = "Error"
        /\ compiled'[r] = compiled[r] /\ reported'[r] = reported[r]
        /\ SameTables(r) /\ SameLocals(r) /\ SameHandle(r)
    BY <1>5
    DEF IInv, TypeInv, TypeOK, Feed!FeedType, task, locals, db, aborts, feed, ResumeFail, End,
        SameTables, SameLocals, SameFeed, SameHandle
  <2>3. RunInv(r)'
    BY <2>2, Before
    DEF SameCounts, RunInv, PlaceOf, RowOf, CountOf, ReportOf, CloseOf, HandleOf, ScoreOf,
        Counted, CountedAhead, SameTables, SameLocals, SameFeed, SameHandle, CasesOf, Live,
        Statements
  <2>4. QED
    BY <2>1, <2>3, LocalStep
<1>6. QED
  BY <1>1, <1>2, <1>3, <1>4, <1>5 DEF Resume

(* the statements themselves, *)
LEMMA ExecuteStep ==
    ASSUME IInv, TypeInv', NEW r \in Runs, Execute(r)
    PROVE  IInv'
<1>1. CASE ExecInsert(r)
  <2>0. state[r] = "absent"
    BY <1>1 DEF IInv, RunInv, PlaceOf, RowOf, ExecInsert
  <2>1. Local(r)
    BY <1>1, <2>0
    DEF IInv, TypeInv, TypeOK, Feed!FeedType, task, locals, db, aborts, feed, ExecInsert,
        Executed, SetState, Local, SameRun, SameTables, SameLocals, SameFeed, SameHandle
  <2>2. /\ req'[r] = req[r]
        /\ pc'[r] = pc[r] /\ stmt[r] = "insert" /\ stmt'[r] = "ok"
        /\ state'[r] = "started" /\ score'[r] = score[r] /\ test_results'[r] = test_results[r]
        /\ SameLocals(r) /\ SameFeed(r) /\ SameHandle(r)
    BY <1>1
    DEF IInv, TypeInv, TypeOK, Feed!FeedType, task, locals, db, aborts, feed, ExecInsert,
        Executed, SetState, SameTables, SameLocals, SameFeed, SameHandle
  <2>3. RunInv(r)'
    BY <2>2, Before
    DEF SameCounts, RunInv, PlaceOf, RowOf, CountOf, ReportOf, CloseOf, HandleOf, ScoreOf,
        Counted, CountedAhead, SameTables, SameLocals, SameFeed, SameHandle, CasesOf, Live,
        Statements
  <2>4. QED
    BY <2>1, <2>3, LocalStep
<1>2. CASE ExecInsertFailed(r)
  <2>1. Local(r)
    BY <1>2
    DEF IInv, TypeInv, TypeOK, Feed!FeedType, task, locals, db, aborts, feed, ExecInsertFailed,
        Executed, SetState, Local, SameRun, SameTables, SameLocals, SameFeed, SameHandle
  <2>2. /\ req'[r] = req[r]
        /\ pc'[r] = pc[r] /\ stmt[r] = "insert_failed" /\ stmt'[r] = "ok"
        /\ state'[r] = "failed" /\ score'[r] = score[r] /\ test_results'[r] = test_results[r]
        /\ SameLocals(r) /\ SameFeed(r) /\ SameHandle(r)
    BY <1>2
    DEF IInv, TypeInv, TypeOK, Feed!FeedType, task, locals, db, aborts, feed, ExecInsertFailed,
        Executed, SetState, SameTables, SameLocals, SameFeed, SameHandle
  <2>3. RunInv(r)'
    BY <2>2, Before
    DEF SameCounts, RunInv, PlaceOf, RowOf, CountOf, ReportOf, CloseOf, HandleOf, ScoreOf,
        Counted, CountedAhead, SameTables, SameLocals, SameFeed, SameHandle, CasesOf, Live,
        Statements
  <2>4. QED
    BY <2>1, <2>3, LocalStep
<1>3. CASE ExecRecord(r)
  BY <1>3, ExecRecordStep
<1>4. CASE ExecFinish(r)
  <2>1. Local(r)
    BY <1>4
    DEF IInv, TypeInv, TypeOK, Feed!FeedType, task, locals, db, aborts, feed, ExecFinish,
        Executed, SetState, Local, SameRun, SameTables, SameLocals, SameFeed, SameHandle
  <2>2. /\ req'[r] = req[r]
        /\ pc'[r] = pc[r] /\ stmt[r] = "finish" /\ stmt'[r] = "ok"
        /\ state'[r] = "finished" /\ test_results'[r] = test_results[r]
        /\ score'[r].set /\ score'[r].passed = tally[r]["pass"] /\ score'[r].failed = tally[r]["fail"]
        /\ score'[r].success <=> tally[r]["fail"] = 0
        /\ SameLocals(r) /\ SameFeed(r) /\ SameHandle(r)
    BY <1>4
    DEF IInv, TypeInv, TypeOK, Feed!FeedType, task, locals, db, aborts, feed, ExecFinish,
        Executed, SetState, SameTables, SameLocals, SameFeed, SameHandle
  <2>3. Cardinality(Stored(r, "fail")) = 0 <=> Stored(r, "fail") = {}
    BY StoredFinite DEF Verdicts
  <2>4. RunInv(r)'
    BY <2>2, Before, <2>3
    DEF SameCounts, RunInv, PlaceOf, RowOf, CountOf, ReportOf, CloseOf, HandleOf, ScoreOf,
        Counted, CountedAhead, SameTables, SameLocals, SameFeed, SameHandle, CasesOf, Live,
        Statements
  <2>5. QED
    BY <2>1, <2>4, LocalStep
<1>5. CASE ExecFail(r)
  <2>1. Local(r)
    BY <1>5
    DEF IInv, TypeInv, TypeOK, Feed!FeedType, task, locals, db, aborts, feed, ExecFail,
        Executed, SetState, Local, SameRun, SameTables, SameLocals, SameFeed, SameHandle
  <2>2. /\ req'[r] = req[r]
        /\ pc'[r] = pc[r] /\ stmt[r] = "fail" /\ stmt'[r] = "ok"
        /\ state'[r] = "failed" /\ score'[r] = score[r] /\ test_results'[r] = test_results[r]
        /\ SameLocals(r) /\ SameFeed(r) /\ SameHandle(r)
    BY <1>5
    DEF IInv, TypeInv, TypeOK, Feed!FeedType, task, locals, db, aborts, feed, ExecFail,
        Executed, SetState, SameTables, SameLocals, SameFeed, SameHandle
  <2>3. RunInv(r)'
    BY <2>2, Before
    DEF SameCounts, RunInv, PlaceOf, RowOf, CountOf, ReportOf, CloseOf, HandleOf, ScoreOf,
        Counted, CountedAhead, SameTables, SameLocals, SameFeed, SameHandle, CasesOf, Live,
        Statements
  <2>4. QED
    BY <2>1, <2>3, LocalStep
<1>6. CASE ExecError(r)
  <2>1. Local(r)
    BY <1>6
    DEF IInv, TypeInv, TypeOK, Feed!FeedType, task, locals, db, aborts, feed, ExecError, Local,
        SameRun, SameTables, SameLocals, SameFeed, SameHandle
  <2>2. /\ req'[r] = req[r]
        /\ pc'[r] = pc[r] /\ stmt[r] \in Statements /\ stmt'[r] = "err"
        /\ SameTables(r) /\ SameLocals(r) /\ SameFeed(r) /\ SameHandle(r)
    BY <1>6
    DEF IInv, TypeInv, TypeOK, Feed!FeedType, task, locals, db, aborts, feed, ExecError,
        SameTables, SameLocals, SameFeed, SameHandle, Statements, CasesOf
  <2>3. RunInv(r)'
    BY <2>2, Before
    DEF SameCounts, RunInv, PlaceOf, RowOf, CountOf, ReportOf, CloseOf, HandleOf, ScoreOf,
        Counted, CountedAhead, SameTables, SameLocals, SameFeed, SameHandle, CasesOf, Live,
        Statements
  <2>4. QED
    BY <2>1, <2>3, LocalStep
<1>7. QED
  BY <1>1, <1>2, <1>3, <1>4, <1>5, <1>6 DEF Execute

(* the abort branch of select!, *)
LEMMA SelectAbortStep ==
    ASSUME IInv, TypeInv', NEW r \in Runs, SelectAbort(r)
    PROVE  IInv'
<1>1. Local(r)
  BY DEF IInv, TypeInv, TypeOK, Feed!FeedType, task, locals, db, aborts, feed, SelectAbort, End,
      Listening, Local, SameRun, SameTables, SameLocals, SameFeed, SameHandle
<1>2. /\ req'[r] = req[r]
      /\ r \in signalled /\ pc[r] \in Live /\ pc'[r] = "broadcast" /\ stmt'[r] = stmt[r]
      /\ final'[r] = "Cancelled" /\ compiled'[r] = compiled[r] /\ reported'[r] = reported[r]
      /\ pc[r] # "compiling"
      /\ SameTables(r) /\ SameLocals(r) /\ SameHandle(r)
  BY DEF IInv, TypeInv, TypeOK, Feed!FeedType, task, locals, db, aborts, feed, SelectAbort, End,
      Listening, SameTables, SameLocals, SameFeed, SameHandle, Statements, CasesOf
<1>3. RunInv(r)'
  BY <1>2, Before
  DEF SameCounts, RunInv, PlaceOf, RowOf, CountOf, ReportOf, CloseOf, HandleOf, ScoreOf,
      Counted, CountedAhead, SameTables, SameLocals, SameFeed, SameHandle, CasesOf, Live,
      Statements
<1>4. QED
  BY <1>1, <1>3, LocalStep

(* and the broadcast at the end. *)
LEMMA BroadcastTeamUpdateStep ==
    ASSUME IInv, TypeInv', NEW r \in Runs, BroadcastTeamUpdate(r)
    PROVE  IInv'
<1>1. Local(r)
  BY DEF IInv, TypeInv, TypeOK, Feed!FeedType, task, locals, db, aborts, feed,
      BroadcastTeamUpdate,
      Local, SameRun, SameTables, SameLocals, SameFeed, SameHandle
<1>2. /\ req'[r] = req[r]
      /\ pc[r] = "broadcast" /\ pc'[r] = "done" /\ stmt'[r] = stmt[r]
      /\ SameTables(r) /\ SameLocals(r) /\ SameFeed(r) /\ SameHandle(r)
  BY DEF IInv, TypeInv, TypeOK, Feed!FeedType, task, locals, db, aborts, feed,
      BroadcastTeamUpdate,
      SameTables, SameLocals, SameFeed, SameHandle
<1>3. RunInv(r)'
  BY <1>2, Before
  DEF SameCounts, RunInv, PlaceOf, RowOf, CountOf, ReportOf, CloseOf, HandleOf, ScoreOf,
      Counted, CountedAhead, SameTables, SameLocals, SameFeed, SameHandle, CasesOf, Live,
      Statements
<1>4. QED
  BY <1>1, <1>3, LocalStep

-----------------------------------------------------------------------------
(* The DELETE requests, restarts and the initial states *)

(* A step that leaves every run alone keeps every RunInv. *)
LEMMA AnyRunFrame ==
  ASSUME \A x \in Runs : RunInv(x), UNCHANGED <<req, pc, stmt, db, locals, feed, abort_handles, signalled>>
  PROVE  \A x \in Runs : RunInv(x)'
<1>1. \A x \in Runs : SameRun(x)
  BY DEF db, locals, feed, SameRun, SameTables, SameLocals, SameFeed, SameHandle
<1>2. QED
  BY <1>1, Frame

(* A DELETE that is refused preserves the invariant; *)
LEMMA AbortRefusedStep == ASSUME IInv, TypeInv', NEW a \in Requests, AbortRefused(a) PROVE IInv'
<1>1. \A x \in Runs : RunInv(x)'
  BY AnyRunFrame DEF IInv, AbortRefused, task
<1>2. apc' = [apc EXCEPT ![a] = "refused"] /\ UNCHANGED <<target, signalled, state>>
  BY DEF AbortRefused, Respond, db
<1>3. RequestInv'
  BY <1>2 DEF IInv, TypeInv, TypeOK, RequestInv, SingleAborter
<1>4. QED
  BY <1>1, <1>3 DEF IInv

(* so does one whose client hangs up, *)
LEMMA AbortDroppedStep == ASSUME IInv, TypeInv', NEW a \in Requests, AbortDropped(a) PROVE IInv'
<1>1. \A x \in Runs : RunInv(x)'
  BY AnyRunFrame DEF IInv, AbortDropped, task
<1>2. apc' = [apc EXCEPT ![a] = "dropped"] /\ UNCHANGED <<target, signalled, state>>
  BY DEF AbortDropped, Respond, db
<1>3. RequestInv'
  BY <1>2 DEF IInv, TypeInv, TypeOK, RequestInv, SingleAborter
<1>4. QED
  BY <1>1, <1>3 DEF IInv

(* one that looks the submission up, *)
LEMMA AbortLookupStep ==
  ASSUME IInv, TypeInv', NEW a \in Requests, NEW r \in Runs, NEW u \in Users, NEW tests \in BOOLEAN,
         AbortLookup(a, r, u, tests)
  PROVE IInv'
<1>1. \A x \in Runs : RunInv(x)'
  BY AnyRunFrame DEF IInv, AbortLookup, task
<1>2. UNCHANGED <<signalled, state>>
  BY DEF AbortLookup, db
<1>3. CASE apc' = [apc EXCEPT ![a] = "refused"] /\ UNCHANGED target
  <2>1. RequestInv'
    BY <1>2, <1>3 DEF IInv, TypeInv, TypeOK, RequestInv, SingleAborter
  <2>2. QED
    BY <1>1, <2>1 DEF IInv
<1>4. CASE /\ state[r] # "absent" /\ apc' = [apc EXCEPT ![a] = "found"]
           /\ target' = [target EXCEPT ![a] = r]
  <2>1. RequestInv'
    BY <1>2, <1>4 DEF IInv, TypeInv, TypeOK, RequestInv, SingleAborter
  <2>2. QED
    BY <1>1, <2>1 DEF IInv
<1>5. QED
  BY <1>3, <1>4 DEF AbortLookup, Respond, InTheTable

(* one that takes the handle: no other DELETE can have used it before, *)
LEMMA AbortStep == ASSUME IInv, TypeInv', NEW a \in Requests, Abort(a) PROVE IInv'
<1>1. PICK r \in Runs : r = target[a] /\ apc[a] = "found" /\ state[r] # "absent"
  BY DEF IInv, RequestInv, Abort
<1>2. /\ abort_handles' = abort_handles \ {r}
      /\ \A x \in Runs : req'[x] = req[x] /\ pc'[x] = pc[x] /\ stmt'[x] = stmt[x]
                         /\ SameTables(x) /\ SameLocals(x) /\ SameFeed(x)
      /\ UNCHANGED <<target, state>>
  BY <1>1 DEF Abort, TakeHandle, task, db, locals, feed, SameTables, SameLocals, SameFeed
<1>3. CASE /\ r \in abort_handles /\ signalled' = signalled \union {r}
           /\ apc' = [apc EXCEPT ![a] = "cancelling"]
  <2>1. \A x \in Runs \ {r} : SameRun(x)
    BY <1>2, <1>3 DEF SameRun, SameHandle
  <2>2. HandleOf(r)'
    BY <1>1, <1>2, <1>3 DEF IInv, RunInv, HandleOf, SameTables
  <2>3. Recorded(r)' = Recorded(r) /\ Stored(r, "pass")' = Stored(r, "pass")
        /\ Stored(r, "fail")' = Stored(r, "fail")
    BY <1>1, <1>2, SameResults DEF SameTables, Verdicts
  <2>4. RunInv(r)'
    BY <1>1, <1>2, <1>3, <2>2, <2>3
    DEF IInv, RunInv, PlaceOf, RowOf, CountOf, ReportOf, CloseOf, ScoreOf, Counted,
        CountedAhead, SameTables, SameLocals, SameFeed, CasesOf
  <2>5. \A x \in Runs : RunInv(x)'
    BY <2>1, <2>4, Frame DEF IInv
  <2>6. r \notin signalled
    BY <1>1, <1>3 DEF IInv, RunInv, HandleOf
  <2>7. RequestInv'
    BY <1>1, <1>2, <1>3, <2>6 DEF IInv, TypeInv, TypeOK, RequestInv, SingleAborter
  <2>8. QED
    BY <2>5, <2>7 DEF IInv
<1>4. CASE UNCHANGED signalled /\ apc' = [apc EXCEPT ![a] = "refused"]
  <2>1. \A x \in Runs \ {r} : SameRun(x)
    BY <1>2, <1>4 DEF SameRun, SameHandle
  <2>2. HandleOf(r)'
    BY <1>1, <1>2, <1>4 DEF IInv, RunInv, HandleOf, SameTables
  <2>3. Recorded(r)' = Recorded(r) /\ Stored(r, "pass")' = Stored(r, "pass")
        /\ Stored(r, "fail")' = Stored(r, "fail")
    BY <1>1, <1>2, SameResults DEF SameTables, Verdicts
  <2>4. RunInv(r)'
    BY <1>1, <1>2, <1>4, <2>2, <2>3
    DEF IInv, RunInv, PlaceOf, RowOf, CountOf, ReportOf, CloseOf, ScoreOf, Counted,
        CountedAhead, SameTables, SameLocals, SameFeed, CasesOf
  <2>5. \A x \in Runs : RunInv(x)'
    BY <2>1, <2>4, Frame DEF IInv
  <2>7. RequestInv'
    BY <1>1, <1>2, <1>4 DEF IInv, TypeInv, TypeOK, RequestInv, SingleAborter
  <2>8. QED
    BY <2>5, <2>7 DEF IInv
<1>5. QED
  BY <1>1, <1>3, <1>4 DEF Abort, Respond

(* and one that updates the row, in whatever state it has got to meanwhile. *)
LEMMA CancelStep == ASSUME IInv, TypeInv', NEW a \in Requests, Cancel(a) PROVE IInv'
<1>1. PICK r \in Runs : /\ r = target[a] /\ apc[a] = "cancelling"
                      /\ state[r] # "absent" /\ r \in signalled
  BY DEF IInv, RequestInv, Cancel
<1>2. /\ UNCHANGED <<signalled, target>>
      /\ \A x \in Runs : /\ req'[x] = req[x] /\ pc'[x] = pc[x] /\ stmt'[x] = stmt[x]
                         /\ score'[x] = score[x] /\ test_results'[x] = test_results[x]
                         /\ SameLocals(x) /\ SameFeed(x) /\ SameHandle(x)
  BY DEF Cancel, task, locals, feed, SameHandle, SameLocals, SameFeed
<1>3. CASE /\ state' = [state EXCEPT ![r] = "cancelled"]
           /\ \/ apc' = [apc EXCEPT ![a] = "ok"]
              \/ apc' = [apc EXCEPT ![a] = "dropped"]
  <2>1. \A x \in Runs \ {r} : SameRun(x)
    BY <1>2, <1>3 DEF IInv, TypeInv, TypeOK, SameRun, SameTables
  <2>2. state'[r] = "cancelled"
    BY <1>1, <1>3 DEF IInv, TypeInv, TypeOK
  <2>3. Recorded(r)' = Recorded(r) /\ Stored(r, "pass")' = Stored(r, "pass")
        /\ Stored(r, "fail")' = Stored(r, "fail")
    BY <1>1, <1>2, SameResults DEF Verdicts
  <2>4. ~(pc[r] \in {"insert", "insert_failed"} /\ stmt[r] # "ok")
         /\ pc[r] \notin {"idle", "compiling"}
    BY <1>1 DEF IInv, RunInv, PlaceOf, RowOf
  <2>5. RunInv(r)
    BY <1>1 DEF IInv
  <2>6. RowOf(r)'
    BY <1>1, <1>2, <2>2, <2>3, <2>4, <2>5
    DEF RunInv, PlaceOf, RowOf, SameFeed, Live, Statements
  <2>7. PlaceOf(r)' /\ CloseOf(r)' /\ HandleOf(r)' /\ ScoreOf(r)'
    BY <1>1, <1>2, <2>2, <2>3, <2>4, <2>5
    DEF RunInv, PlaceOf, CloseOf, HandleOf, ScoreOf, SameFeed, SameHandle, CasesOf
  <2>8. CountOf(r)' /\ ReportOf(r)'
    BY <1>1, <1>2, <2>3, <2>5
    DEF RunInv, CountOf, ReportOf, Counted, CountedAhead, SameLocals, SameFeed, CasesOf
  <2>9. RunInv(r)'
    BY <2>6, <2>7, <2>8 DEF RunInv
  <2>10. \A x \in Runs : RunInv(x)'
    BY <2>1, <2>9, Frame DEF IInv
  <2>11. /\ \A x \in Runs : state'[x] = IF x = r THEN "cancelled" ELSE state[x]
        /\ \A b \in Requests \ {a} : apc'[b] = apc[b]
        /\ apc'[a] \in {"ok", "dropped"}
    BY <1>3 DEF IInv, TypeInv, TypeOK
  <2>12. RequestInv'
    BY <1>1, <1>2, <2>11 DEF IInv, RequestInv, SingleAborter
  <2>13. QED
    BY <2>10, <2>12 DEF IInv
<1>4. CASE UNCHANGED state /\ apc' = [apc EXCEPT ![a] = "error"]
  <2>1. \A x \in Runs : SameRun(x)
    BY <1>2, <1>4 DEF SameRun, SameTables
  <2>2. \A x \in Runs : RunInv(x)'
    BY <2>1, Frame DEF IInv
  <2>3. RequestInv'
    BY <1>1, <1>2, <1>4 DEF IInv, TypeInv, TypeOK, RequestInv, SingleAborter
  <2>4. QED
    BY <2>2, <2>3 DEF IInv
<1>5. QED
  BY <1>1, <1>3, <1>4 DEF Cancel, Respond, SetState

(* A pause, and a stutter, preserve it. *)
LEMMA IdleStep == ASSUME IInv, TypeInv', UNCHANGED <<req, task, db, aborts, feed>> PROVE IInv'
<1>1. \A x \in Runs : RunInv(x)'
  BY AnyRunFrame DEF IInv, task, aborts
<1>2. RequestInv'
  BY DEF IInv, RequestInv, SingleAborter, aborts, db
<1>3. QED
  BY <1>1, <1>2 DEF IInv

(* A restart loses the tasks and the handles, and keeps the tables. *)
LEMMA RestartStep == ASSUME IInv, TypeInv', Restart PROVE IInv'
<1>1. ASSUME NEW x \in Runs PROVE RunInv(x)'
  <2>1. RunInv(x)
    BY DEF IInv
  <2>2. /\ req'[x] = IF req[x] = "waiting" THEN "dropped" ELSE req[x]
        /\ pc'[x] = IF pc[x] \in {"idle", "done"} THEN pc[x] ELSE "lost"
        /\ stmt'[x] = "none" /\ x \notin abort_handles' /\ (x \in signalled' <=> x \in signalled)
        /\ SameTables(x) /\ SameLocals(x) /\ SameFeed(x)
    BY DEF Restart, locals, db, feed, SameTables, SameLocals, SameFeed
  <2>3. Recorded(x)' = Recorded(x) /\ Stored(x, "pass")' = Stored(x, "pass")
        /\ Stored(x, "fail")' = Stored(x, "fail")
    BY <2>2, SameResults DEF SameTables, Verdicts
  <2>4. QED
    BY <2>1, <2>2, <2>3
    DEF RunInv, PlaceOf, RowOf, CountOf, ReportOf, CloseOf, HandleOf, ScoreOf, Counted,
         CountedAhead, SameTables, SameLocals, SameFeed, CasesOf, Live, Statements
<1>2. RequestInv'
  <2>1. UNCHANGED <<target, state, signalled>>
    BY DEF Restart, db
  <2>2. \A a \in Requests : apc'[a] = IF apc[a] \in {"found", "cancelling"} THEN "dropped" ELSE apc[a]
    BY DEF Restart
  <2>3. QED
    BY <2>1, <2>2 DEF IInv, RequestInv, SingleAborter
<1>3. QED
  BY <1>1, <1>2 DEF IInv

(* The invariant holds initially. *)
LEMMA InitInv == Init /\ TypeInv => IInv
<1> SUFFICES ASSUME Init, TypeInv PROVE IInv
  OBVIOUS
<1>1. ASSUME NEW x \in Runs PROVE RunInv(x)
  <2>1. Recorded(x) = {} /\ Stored(x, "pass") = {} /\ Stored(x, "fail") = {}
    BY DEF Init, Recorded, Stored
  <2>2. Cardinality({}) = 0
    BY FS_EmptySet
  <2>3. /\ req[x] = "idle" /\ pc[x] = "idle" /\ stmt[x] = "none" /\ yielded[x] = {}
        /\ tally[x]["pass"] = 0 /\ tally[x]["fail"] = 0
        /\ state[x] = "absent" /\ ~score[x].set
        /\ ~compiled[x] /\ reported[x] = {} /\ final[x] = "none"
        /\ x \notin abort_handles /\ x \notin signalled
    BY DEF Init, Feed!Init, NoScore, Verdicts
  <2>4. QED
    BY <2>1, <2>2, <2>3
    DEF RunInv, PlaceOf, RowOf, CountOf, Counted, ReportOf, CloseOf, HandleOf, ScoreOf, Live,
        Statements
<1>2. RequestInv
  BY DEF Init, RequestInv, SingleAborter
<1>3. QED
  BY <1>1, <1>2 DEF IInv

-----------------------------------------------------------------------------
(* The theorems *)

(* The invariant holds in every state of every behaviour (run_test, the      *)
(* statements it issues, abort_submission and restarts together).            *)
LEMMA InvariantStep == IInv /\ [Next]_vars => IInv'
<1> SUFFICES ASSUME IInv, [Next]_vars PROVE IInv'
  OBVIOUS
<1>1. TypeInv'
  BY TypeStep DEF IInv
<1>2. ASSUME NEW r \in Runs, Create(r) PROVE IInv'
  BY <1>1, <1>2, CreateStep
<1>3. ASSUME NEW r \in Runs, Compile(r) PROVE IInv'
  BY <1>1, <1>3, CompileStep
<1>4. ASSUME NEW r \in Runs, RunCases(r) PROVE IInv'
  BY <1>1, <1>4, RunCasesStep
<1>5. ASSUME NEW r \in Runs, Resume(r) PROVE IInv'
  BY <1>1, <1>5, ResumeStep
<1>6. ASSUME NEW r \in Runs, Execute(r) PROVE IInv'
  BY <1>1, <1>6, ExecuteStep
<1>7. ASSUME NEW r \in Runs, SelectAbort(r) PROVE IInv'
  BY <1>1, <1>7, SelectAbortStep
<1>8. ASSUME NEW r \in Runs, BroadcastTeamUpdate(r) PROVE IInv'
  BY <1>1, <1>8, BroadcastTeamUpdateStep
<1>9. ASSUME NEW a \in Requests, ServeAbort(a) PROVE IInv'
  <2>1. CASE AbortRefused(a)
    BY <1>1, <2>1, AbortRefusedStep
  <2>2. ASSUME NEW r \in Runs, NEW u \in Users, NEW tests \in BOOLEAN,
               AbortLookup(a, r, u, tests)
        PROVE  IInv'
    BY <1>1, <2>2, AbortLookupStep
  <2>3. CASE Abort(a)
    BY <1>1, <2>3, AbortStep
  <2>4. CASE Cancel(a)
    BY <1>1, <2>4, CancelStep
  <2>5. CASE AbortDropped(a)
    BY <1>1, <2>5, AbortDroppedStep
  <2>6. QED
    BY <1>9, <2>1, <2>2, <2>3, <2>4, <2>5 DEF ServeAbort
<1>10. CASE TogglePause
  BY <1>1, <1>10, IdleStep DEF TogglePause
<1>11. CASE Restart
  BY <1>1, <1>11, RestartStep
<1>12. CASE UNCHANGED vars
  BY <1>1, <1>12, IdleStep DEF vars
<1>13. QED
  BY <1>2, <1>3, <1>4, <1>5, <1>6, <1>7, <1>8, <1>9, <1>10, <1>11, <1>12 DEF Next

(* IInv is an invariant: whatever the interleaving of the tasks, sqlite, the *)
(* DELETE requests, pauses and restarts, each run is as RunInv says.         *)
THEOREM Invariant == Spec => []IInv
<1>1. Init => IInv
  BY TypeInit, InitInv
<1>2. QED
  BY <1>1, InvariantStep, PTL DEF Spec

(* A score was computed from a complete run and agrees with test_results,    *)
(* for every run, whatever cuts it short or follows it (finish).             *)
THEOREM ScoresMatchResults == Spec => []ScoreMatchesResults
<1>1. IInv => ScoreMatchesResults
  BY DEF IInv, RunInv, ScoreOf, ScoreMatchesResults
<1>2. QED
  BY <1>1, Invariant, PTL

(* The closing message of every run tells the truth about its row (run_test).*)
THEOREM ClosingMessagesTrue == Spec => []ClosingMessageTrue
<1>1. IInv => ClosingMessageTrue
  BY DEF IInv, RunInv, CloseOf, ClosingMessageTrue
<1>2. QED
  BY <1>1, Invariant, PTL

(* No result is announced before it is stored, and at most one is stored and *)
(* not announced (create_test_results, then send).                           *)
THEOREM AnnouncedAfterStored == Spec => []AnnouncedAreStored
<1>1. ASSUME IInv, NEW r \in Runs
      PROVE  reported[r] \subseteq Recorded(r) /\ Cardinality(Recorded(r) \ reported[r]) <= 1
  <2>1. \/ reported[r] = Recorded(r)
        \/ Recorded(r) = reported[r] \union {current[r][1]}
    BY <1>1 DEF IInv, RunInv, ReportOf
  <2>2. Recorded(r) \ reported[r] \in {{}, {current[r][1]}}
    BY <2>1
  <2>3. Cardinality({}) = 0 /\ Cardinality({current[r][1]}) = 1
    BY FS_EmptySet, FS_Singleton
  <2>4. QED
    BY <2>1, <2>2, <2>3
<1>2. IInv => AnnouncedAreStored
  BY <1>1 DEF AnnouncedAreStored
<1>3. QED
  BY <1>2, Invariant, PTL

(* A row is cancelled only for a task that was signalled while it listened,  *)
(* for any number of DELETE requests (abort_submission).                     *)
THEOREM CancelNeedsSignal == Spec => []CancelledOnlyBySignal
<1>1. IInv => CancelledOnlyBySignal
  BY DEF IInv, RunInv, HandleOf, CancelledOnlyBySignal
<1>2. QED
  BY <1>1, Invariant, PTL

(* At most one of any number of DELETEs for a run gets past Tester::abort.   *)
THEOREM OneAborter == Spec => []SingleAborter
<1>1. IInv => SingleAborter
  BY DEF IInv, RequestInv
<1>2. QED
  BY <1>1, Invariant, PTL

(* A run that told its user an outcome, or whose DELETE answered OK, has not *)
(* been left "started" (finish, cancel).                                     *)
THEOREM OutcomeLeavesStarted == Spec => []NotLeftStarted
<1>1. ASSUME IInv, NEW r \in Runs, state[r] = "started"
      PROVE  /\ final[r] \notin {"Complete", "CompileFailed"}
             /\ \A a \in Requests : ~(target[a] = r /\ apc[a] = "ok")
  BY <1>1 DEF IInv, RunInv, CloseOf, RequestInv
<1>2. IInv => NotLeftStarted
  BY <1>1 DEF NotLeftStarted
<1>3. QED
  BY <1>2, Invariant, PTL
=============================================================================
