----------------------------- MODULE Standings -----------------------------
(***************************************************************************)
(* The standing of a team: how its rows in submission_history become a     *)
(* score and a state per question, and how broadcast_team_update tells     *)
(* everyone after a run.  Of a run there is only what the standing shows:  *)
(* module Tester has the rest.  The queries of a broadcast are separate    *)
(* statements, between which other runs write.                             *)
(*                                                                         *)
(* GET /leaderboard, /teams and /testing/state put the same queries        *)
(* together, so their answers are pictures of this module as well.         *)
(***************************************************************************)
EXTENDS Naturals, FiniteSets, FiniteSetsExt, Functions, SequencesExt, Sequences

CONSTANTS
    Runs, TestOnly,     \* see Packet
    Earlier,            \* the runs whose rows an earlier process has left
    Teams, Questions,
    Submitter, Question,    \* of a run: fixed by the request
    Results,            \* what a run may come to: its success and score
    MaxTime             \* bound of the model: seconds that may pass

ASSUME StandingsAssumption ==
    /\ TestOnly \subseteq Runs /\ Earlier \subseteq Runs /\ IsFiniteSet(Earlier)
    /\ Submitter \in [Runs -> Teams]
    /\ Question \in [Runs -> Questions]
    /\ Results \subseteq [success : BOOLEAN, score : Nat]
    /\ MaxTime \in Nat

VARIABLES
    now,        \* CURRENT_TIMESTAMP, which counts whole seconds
    stored,     \* the runs with a row, in the order of their INSERTs
    row,        \* row[r]: the columns that the standing is made of
    stmt,       \* stmt[r]: the statement in sqlite's worker, or "none"
    task,       \* task[r]: how far the task of the run has got
    picture,    \* picture[r]: what its broadcast has gathered
    told,       \* history: the teams whose standing has been told since it changed
    excused     \* history: a broadcast failed, or a statement outlived its task

vars == <<now, stored, row, stmt, task, picture, told, excused>>

Rows == [time : 0 .. MaxTime, success : BOOLEAN, score : Nat]
NewRow(t) == [time |-> t, success |-> FALSE, score |-> 0]
Written(w, v) == [w EXCEPT !.success = v.success, !.score = v.score]
States == {"Pass", "Fail", "InProgress", "NotAttempted"}
Pictures == [states : [Questions -> States], score : Nat]
Blank == [states |-> [q \in Questions |-> "NotAttempted"], score |-> 0]
Stored == {stored[i] : i \in 1 .. Len(stored)}

Init ==
    /\ now = 0
    /\ stored \in SetToSeqs(Earlier)
    /\ row \in [Runs -> {NewRow(0)} \union {Written(NewRow(0), v) : v \in Results}]
    /\ \A r \in Runs \ Earlier : row[r] = NewRow(0)
    /\ stmt = [r \in Runs |-> "none"]
    /\ task = [r \in Runs |-> IF r \in Earlier THEN "over" ELSE "idle"]
    /\ picture = [r \in Runs |-> Blank]
    /\ told = Teams
    /\ excused = {}

-----------------------------------------------------------------------------
(* The queries *)

RowsOf(t, q) == {r \in Stored : Submitter[r] = t /\ Question[r] = q}
Submissions(t, q) == RowsOf(t, q) \ TestOnly

(* MAX(time) AS latest ... GROUP BY question_index *)
IsLatest(r, t, q) ==
    /\ Submissions(t, q) # {}
    /\ row[r].time = Max({row[s].time : s \in Submissions(t, q)})

(* get_latest_submissions: the rows, tests too, of that second. *)
LatestOf(t, q) == {r \in RowsOf(t, q) : IsLatest(r, t, q)}

(* count_tests *)
TestsOf(t, q) == Cardinality(RowsOf(t, q) \intersect TestOnly)

(* get_user_score: the rows, and their SUM, or 0 if there is none *)
ScoredOfAnyone(t) ==                                             \* faulty
    {r \in Stored \ TestOnly : IsLatest(r, t, Question[r])}
ScoredOf(t) ==
    {r \in Stored \ TestOnly : Submitter[r] = t /\ IsLatest(r, t, Question[r])}

TotalOrNull(t) == IF ScoredOf(t) = {} THEN 0 - 1                 \* faulty
                  ELSE SumFunction([r \in ScoredOf(t) |-> row[r].score])
Total(t) == SumFunction([r \in ScoredOf(t) |-> row[r].score])

(* Of several rows the one that the query yields last counts, and nothing    *)
(* orders them; InProgress is for questions with tests only.                 *)
Outcome(r) == IF row[r].success THEN "Pass" ELSE "Fail"
LatestStates(t, q) ==
    IF LatestOf(t, q) = {} THEN {"NotAttempted"} ELSE {Outcome(r) : r \in LatestOf(t, q)}
WithTests(t, q, s) == IF s = "NotAttempted" /\ TestsOf(t, q) > 0 THEN "InProgress" ELSE s

IsPicture(p, t) ==
    /\ \A q \in Questions :
        \E s \in LatestStates(t, q) : p.states[q] = WithTests(t, q, s)
    /\ p.score = Total(t)

-----------------------------------------------------------------------------
(* A run *)

Goto(r, from, to) == task[r] = from /\ task' = [task EXCEPT ![r] = to]
Issue(r, s) == stmt' = [stmt EXCEPT ![r] = s]

NotAwaited(r) == TRUE                                            \* faulty
Awaited(r) == stmt[r] = "none"

(* The code has been compiled, or has failed to; either way a row is due.    *)
Create(r) ==
    /\ Goto(r, "idle", "creating")
    /\ Issue(r, "insert")
    /\ UNCHANGED <<now, stored, row, picture, told, excused>>

(* create_submission_history returns and the cases are run, or               *)
(* create_failed_submission_history does and nothing is left to do.          *)
Created(r) ==
    /\ Awaited(r)
    /\ Goto(r, "creating", "running") \/ Goto(r, "creating", "latest")
    /\ UNCHANGED <<now, stored, row, stmt, picture, told, excused>>

(* finish is called with the score of the run. *)
Finish(r) ==
    /\ Goto(r, "running", "finishing")
    /\ Issue(r, "finish")
    /\ UNCHANGED <<now, stored, row, picture, told, excused>>

Finished(r) ==
    /\ Awaited(r)
    /\ Goto(r, "finishing", "latest")
    /\ UNCHANGED <<now, stored, row, stmt, picture, told, excused>>

(* An abort or an error ends the run anywhere before its broadcast; a        *)
(* statement that an abort leaves behind is executed all the same.           *)
CutShort(r) ==
    /\ \/ Goto(r, "idle", "latest") \/ Goto(r, "creating", "latest")
       \/ Goto(r, "running", "latest") \/ Goto(r, "finishing", "latest")
    /\ excused' = IF Awaited(r) THEN excused ELSE excused \union {Submitter[r]}
    /\ UNCHANGED <<now, stored, row, stmt, picture, told>>

(* sqlite executes a statement: a standing that was told is told no more. *)
Execute(r) ==
    /\ stmt[r] # "none"
    /\ \/ /\ stmt[r] = "insert"
          /\ stored' = Append(stored, r)
          /\ row' = [row EXCEPT ![r] = NewRow(now)]
       \/ /\ stmt[r] = "finish"
          /\ \E v \in Results :
              row' = [row EXCEPT ![r] = Written(row[r], v)]
          /\ UNCHANGED stored
    /\ Issue(r, "none")
    /\ told' = told \ {Submitter[r]}
    /\ UNCHANGED <<now, task, picture, excused>>

-----------------------------------------------------------------------------
(* broadcast_team_update *)

Gather(r, p) ==
    /\ picture' = [picture EXCEPT ![r] = p]
    /\ UNCHANGED <<now, stored, row, stmt, told, excused>>

Drop(r) == picture' = [picture EXCEPT ![r] = Blank]

ReadLatest(r) ==
    LET t == Submitter[r] IN
    /\ Goto(r, "latest", "tests")
    /\ \E f \in [Questions -> States] :
        /\ \A q \in Questions : f[q] \in LatestStates(t, q)
        /\ Gather(r, [Blank EXCEPT !.states = f])

ReadTests(r) ==
    LET p == picture[r] IN
    /\ Goto(r, "tests", "score")
    /\ Gather(r, [p EXCEPT !.states =
            [q \in Questions |-> WithTests(Submitter[r], q, p.states[q])]])

ReadScore(r) ==
    /\ Goto(r, "score", "tell")
    /\ Gather(r, [picture[r] EXCEPT !.score = Total(Submitter[r])])

Tell(r) ==
    /\ Goto(r, "tell", "over")
    /\ told' = told \union {t \in {Submitter[r]} : IsPicture(picture[r], t)}
    /\ Drop(r)
    /\ UNCHANGED <<now, stored, row, stmt, excused>>

(* One of the other queries fails, and nothing is broadcast; or count_tests  *)
(* does, and the broadcast goes on without it.                               *)
QueryFails(r) ==
    /\ \/ Goto(r, "tests", "score") /\ UNCHANGED picture
       \/ \E at \in {"latest", "score", "tell"} : Goto(r, at, "over") /\ Drop(r)
    /\ excused' = excused \union {Submitter[r]}
    /\ UNCHANGED <<now, stored, row, stmt, told>>

Tick == now < MaxTime /\ now' = now + 1
        /\ UNCHANGED <<stored, row, stmt, task, picture, told, excused>>

Run(r) == Create(r) \/ Created(r) \/ Finish(r) \/ Finished(r) \/ CutShort(r) \/ Execute(r)
BroadcastTeamUpdate(r) ==
    ReadLatest(r) \/ ReadTests(r) \/ ReadScore(r) \/ Tell(r) \/ QueryFails(r)

Next == Tick \/ \E r \in Runs : Run(r) \/ BroadcastTeamUpdate(r)

Spec == Init /\ [][Next]_vars

-----------------------------------------------------------------------------
(* Properties *)

TypeOK ==
    /\ now \in 0 .. MaxTime
    /\ stored \in Seq(Runs)
    /\ row \in [Runs -> Rows]
    /\ stmt \in [Runs -> {"none", "insert", "finish"}]
    /\ task \in [Runs -> {"idle", "creating", "running", "finishing",
                          "latest", "tests", "score", "tell", "over"}]
    /\ picture \in [Runs -> Pictures]
    /\ told \subseteq Teams
    /\ excused \subseteq Teams

(* No two rows of the team for one question are of the same second. *)
Distinct(t) == \A r, s \in Stored :
    r # s /\ Submitter[r] = t /\ Submitter[s] = t /\ Question[r] = Question[s]
        => row[r].time # row[s].time

LastSubmission(t, q) == stored[Max({i \in 1 .. Len(stored) : stored[i] \in Submissions(t, q)})]

(* The last submission for a question, and only it, makes the score and the  *)
(* state of the question, also while it is running, as long as no two rows   *)
(* share a second (get_user_score, get_latest_submissions).                  *)
PictureIsOfLast == \A t \in Teams : Distinct(t) =>
    LET Tried == {q \in Questions : Submissions(t, q) # {}}
        Counted == {LastSubmission(t, q) : q \in Tried}
    IN
    /\ Total(t) = SumFunction([r \in Counted |-> row[r].score])
    /\ \A q \in Tried : LatestStates(t, q) = {Outcome(LastSubmission(t, q))}

(* When the runs of a team are over, its standing has been told as it is:    *)
(* the run that wrote last has read after all writes.  Not in the end: an    *)
(* earlier, outdated picture may have been told after it.                    *)
RightPictureWasTold == \A t \in Teams :
    \/ t \in told \/ t \in excused
    \/ \E r \in Runs : Submitter[r] = t /\ task[r] \notin {"idle", "over"}
=============================================================================
