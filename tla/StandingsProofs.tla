-------------------------- MODULE StandingsProofs --------------------------
(***************************************************************************)
(* Theorems about module Standings, for any number of runs, teams and      *)
(* questions: the types, that a standing is made of the last submissions,  *)
(* and that it is told after the runs of a team.                           *)
(*                                                                         *)
(* The score is a fold over a set, whose value is proved to be a number by *)
(* induction on the size of the set: every set of numbers has a least.     *)
(***************************************************************************)
EXTENDS Standings, FiniteSetTheorems, TLAPS

-----------------------------------------------------------------------------
(* Least and greatest numbers *)

(* A set of naturals that is not empty has a least element.                   *)
LEMMA Least ==
    ASSUME NEW T \in SUBSET Nat, T # {}
    PROVE  \E x \in T : \A y \in T : x <= y
<1> DEFINE R == {p \in Nat \X Nat : p[1] < p[2]}
<1>1. IsWellFoundedOn(R, Nat)
  BY NatLessThanWellFounded DEF OpToRel
<1> HIDE DEF R
<1>2. PICK x \in T : \A y \in T : ~(<<y, x>> \in R)
  BY <1>1, WFMin
<1>3. \A y \in T : ~(y < x)
  BY <1>2 DEF R
<1> QED
  BY <1>3

(* Max is the element that is not below any other.                            *)
LEMMA MaxIs ==
    ASSUME NEW S \in SUBSET Nat, NEW x \in S, \A y \in S : x >= y
    PROVE  Max(S) = x
<1>1. \A z \in S : (\A y \in S : z >= y) => z = x
  OBVIOUS
<1> QED
  BY <1>1 DEF Max

(* Some place of a sequence is the last that is in a set.                     *)
LEMMA MaxOfPlaces ==
    ASSUME NEW n \in Nat, NEW S \in SUBSET (1 .. n), S # {}
    PROVE  Max(S) \in S /\ \A y \in S : Max(S) >= y
<1> DEFINE T == {k \in Nat : \A y \in S : y <= k}
<1>1. n \in T
  OBVIOUS
<1>2. PICK k \in T : \A l \in T : k <= l
  BY <1>1, Least
<1>3. k \in S
  <2> SUFFICES ASSUME k \notin S PROVE FALSE
    OBVIOUS
  <2>1. PICK y \in S : TRUE
    OBVIOUS
  <2>2. \A z \in S : z <= k /\ z # k
    OBVIOUS
  <2>3. k - 1 \in Nat /\ \A z \in S : z <= k - 1
    BY <2>1, <2>2
  <2>4. k - 1 \in T
    BY <2>3
  <2> QED
    BY <1>2, <2>4
<1>4. \A y \in S : k >= y
  OBVIOUS
<1>5. Max(S) = k
  BY <1>3, <1>4, MaxIs
<1> QED
  BY <1>3, <1>4, <1>5

-----------------------------------------------------------------------------
(* Sums *)

Some(S) == CHOOSE x \in S : TRUE
Rest(S) == S \ {Some(S)}

(* The sums over the subsets of f's domain, element by element.               *)
Added(f, g, S) == IF S = {} THEN 0 ELSE f[Some(S)] + g[Rest(S)]
Adds(f, g) == g = [S \in SUBSET DOMAIN f |-> Added(f, g, S)]

LEMMA SumDef == ASSUME NEW f PROVE SumFunction(f) = (CHOOSE g : Adds(f, g))[DOMAIN f]
BY DEF SumFunction, SumFunctionOnSet, FoldFunctionOnSet, MapThenFoldSet,
       Adds, Added, Some, Rest

(* A subset without one of its elements is a smaller subset.                  *)
LEMMA RestIsSmaller ==
    ASSUME NEW D, IsFiniteSet(D), NEW S \in SUBSET D, S # {}
    PROVE  /\ Some(S) \in D /\ Rest(S) \in SUBSET D
           /\ Cardinality(S) \in Nat /\ Cardinality(Rest(S)) \in Nat
           /\ Cardinality(S) = Cardinality(Rest(S)) + 1
<1>1. Some(S) \in S
  BY DEF Some
<1>2. IsFiniteSet(S) /\ IsFiniteSet(Rest(S))
  BY FS_Subset DEF Rest
<1>3. Cardinality(Rest(S)) = Cardinality(S) - 1
  BY <1>1, <1>2, FS_RemoveElement DEF Rest
<1> QED
  BY <1>1, <1>2, <1>3, FS_CardinalityType DEF Rest

(* There are sums over the subsets of up to n elements, for every n: for n + 1 *)
(* they are made of those for n.                                              *)
LEMMA SumsExist ==
    ASSUME NEW f, IsFiniteSet(DOMAIN f), \A x \in DOMAIN f : f[x] \in Nat
    PROVE  \E g \in [SUBSET DOMAIN f -> Nat] : Adds(f, g)
<1> DEFINE D == DOMAIN f
           G == [SUBSET D -> Nat]
           UpTo(n, g) == \A S \in SUBSET D : Cardinality(S) <= n => g[S] = Added(f, g, S)
           T == {n \in Nat : \A g \in G : ~UpTo(n, g)}
<1>0. \A S \in SUBSET D : IsFiniteSet(S) /\ Cardinality(S) \in Nat
  BY FS_Subset, FS_CardinalityType
<1>1. T = {}
  <2> SUFFICES ASSUME T # {} PROVE FALSE
    OBVIOUS
  <2>1. T \in SUBSET Nat
    OBVIOUS
  <2>2. PICK n \in T : \A m \in T : n <= m
    BY <2>1, Least
  <2>3. n # 0
    <3>1. \A S \in SUBSET D : Cardinality(S) <= 0 => S = {}
      BY <1>0, FS_EmptySet
    <3>2. [S \in SUBSET D |-> 0] \in G /\ UpTo(0, [S \in SUBSET D |-> 0])
      BY <3>1 DEF Added
    <3> QED
      BY <3>2
  <2>4. n \in Nat /\ n - 1 \in Nat /\ n - 1 \notin T
    <3> HIDE DEF T
    <3>1. n \in Nat /\ n - 1 \in Nat
      BY <2>1, <2>3
    <3> QED
      BY <2>2, <3>1
  <2>5. PICK g \in G : UpTo(n - 1, g)
    BY <2>4
  <2> DEFINE h == [S \in SUBSET D |-> IF Cardinality(S) <= n - 1 THEN g[S] ELSE Added(f, g, S)]
  <2>6. \A S \in SUBSET D : Added(f, g, S) \in Nat
    BY RestIsSmaller DEF Added
  <2>7. h \in G
    BY <2>6
  <2>8. ASSUME NEW S \in SUBSET D, Cardinality(S) <= n PROVE h[S] = Added(f, h, S)
    <3>1. h[S] = Added(f, g, S)
      BY <2>5
    <3>2. CASE S = {}
      BY <3>1, <3>2 DEF Added
    <3>3. CASE S # {}
      <4>1. Rest(S) \in SUBSET D /\ Cardinality(Rest(S)) <= n - 1
        BY <2>4, <2>8, <3>3, RestIsSmaller
      <4>2. h[Rest(S)] = g[Rest(S)]
        BY <4>1
      <4> QED
        BY <3>1, <3>3, <4>2 DEF Added
    <3> QED
      BY <3>2, <3>3
  <2>9. UpTo(n, h)
    BY <2>8
  <2> HIDE DEF h, UpTo
  <2> QED
    BY <2>7, <2>9
<1>2. Cardinality(D) \in Nat
  BY FS_CardinalityType
<1>3. PICK g \in G : UpTo(Cardinality(D), g)
  BY <1>1, <1>2
<1>4. \A S \in SUBSET D : Cardinality(S) <= Cardinality(D)
  BY FS_Subset
<1>5. \A S \in SUBSET D : g[S] = Added(f, g, S)
  BY <1>3, <1>4
<1>6. g = [S \in SUBSET D |-> Added(f, g, S)]
  BY <1>5
<1> QED
  BY <1>6 DEF Adds

(* The sum of finitely many naturals is a natural.                            *)
LEMMA SumInNat ==
    ASSUME NEW f, IsFiniteSet(DOMAIN f), \A x \in DOMAIN f : f[x] \in Nat
    PROVE  SumFunction(f) \in Nat
<1> DEFINE D == DOMAIN f
           g == CHOOSE h : Adds(f, h)
           T == {Cardinality(S) : S \in {S \in SUBSET D : g[S] \notin Nat}}
<1>1. Adds(f, g)
  BY SumsExist
<1> HIDE DEF g
<1>2. \A S \in SUBSET D : g[S] = Added(f, g, S)
  BY <1>1 DEF Adds
<1>3. \A S \in SUBSET D : IsFiniteSet(S) /\ Cardinality(S) \in Nat
  BY FS_Subset, FS_CardinalityType
<1>4. T = {}
  <2> SUFFICES ASSUME T # {} PROVE FALSE
    OBVIOUS
  <2>1. PICK n \in T : \A m \in T : n <= m
    BY <1>3, Least
  <2>2. PICK S \in SUBSET D : g[S] \notin Nat /\ n = Cardinality(S)
    BY <2>1
  <2>3. S # {}
    <3>1. g[{}] = 0
      BY <1>2 DEF Added
    <3> QED
      BY <2>2, <3>1
  <2>4. Some(S) \in D /\ Rest(S) \in SUBSET D /\ Cardinality(Rest(S)) \in Nat
        /\ n = Cardinality(Rest(S)) + 1
    BY <2>2, <2>3, RestIsSmaller
  <2>5. Cardinality(Rest(S)) \notin T
    BY <2>1, <2>4
  <2>6. g[Rest(S)] \in Nat
    BY <2>4, <2>5
  <2> QED
    BY <1>2, <2>2, <2>3, <2>4, <2>6 DEF Added
<1>5. g[D] \in Nat
  BY <1>4
<1> QED
  BY <1>5, SumDef DEF g

-----------------------------------------------------------------------------
(* Invariants *)

(* A run is stored once, the rows are in the order of their times, and the    *)
(* run whose INSERT is still to be executed has no row.                       *)
OrderInv ==
    /\ \A i, j \in 1 .. Len(stored) : i < j =>
        stored[i] # stored[j] /\ row[stored[i]].time <= row[stored[j]].time
    /\ \A r \in Stored : row[r].time <= now
    /\ \A r \in Runs : task[r] = "idle" \/ stmt[r] = "insert" => r \notin Stored
    /\ \A r \in Runs : task[r] = "idle" => stmt[r] # "insert"

(* A statement has a run that waits for it, or the team is excused.           *)
StatementInv == \A r \in Runs :
    stmt[r] # "none" => task[r] \in {"creating", "finishing"} \/ Submitter[r] \in excused

(* What the broadcast of the run has gathered is what the table holds.        *)
Current(r) ==
    LET t == Submitter[r] IN
    /\ task[r] = "tests" => \A q \in Questions : picture[r].states[q] \in LatestStates(t, q)
    /\ task[r] \in {"score", "tell"} => \A q \in Questions :
        \E s \in LatestStates(t, q) : picture[r].states[q] = WithTests(t, q, s)
    /\ task[r] = "tell" => picture[r].score = Total(t)

(* Where a standing is not told, a run is under way that has read nothing of  *)
(* it yet or has read what the table holds.                                   *)
ToldInv == \A t \in Teams :
    \/ t \in told \/ t \in excused
    \/ \E r \in Runs :
        Submitter[r] = t /\ task[r] \notin {"idle", "over"} /\ Current(r)

IInv == TypeOK /\ OrderInv /\ StatementInv /\ ToldInv

-----------------------------------------------------------------------------
(* Types *)

(* The runs with a row are finitely many.                                     *)
LEMMA StoredFinite ==
    ASSUME stored \in Seq(Runs)
    PROVE  Stored \in SUBSET Runs /\ IsFiniteSet(Stored)
<1>1. Len(stored) \in Nat /\ \A i \in 1 .. Len(stored) : stored[i] \in Runs
  OBVIOUS
<1>2. stored \in [1 .. Len(stored) -> Stored]
  BY DEF Stored
<1>3. stored \in Surjection(1 .. Len(stored), Stored)
  BY <1>2 DEF Surjection, Stored
<1>4. IsFiniteSet(1 .. Len(stored))
  BY <1>1, FS_Interval
<1> QED
  BY <1>1, <1>3, <1>4, FS_Surjection DEF Stored

(* The score of a team is a number (get_user_score).                          *)
LEMMA TotalInNat ==
    ASSUME TypeOK, NEW t \in Teams
    PROVE  Total(t) \in Nat
<1> DEFINE f == [r \in ScoredOf(t) |-> row[r].score]
<1>1. Stored \in SUBSET Runs /\ IsFiniteSet(Stored)
  BY StoredFinite DEF TypeOK
<1>2. ScoredOf(t) \in SUBSET Stored
  BY DEF ScoredOf
<1>3. IsFiniteSet(DOMAIN f)
  BY <1>1, <1>2, FS_Subset
<1>4. \A r \in DOMAIN f : f[r] \in Nat
  BY <1>1, <1>2 DEF TypeOK, Rows
<1> HIDE DEF f
<1>5. SumFunction(f) \in Nat
  BY <1>3, <1>4, SumInNat
<1> QED
  BY <1>5 DEF Total, f

(* What a row says of its run, a state, and a row with a result, is in type.  *)
LEMMA OutcomeTyped == \A t \in Teams, q \in Questions : LatestStates(t, q) \subseteq States
BY DEF LatestStates, Outcome, States

LEMMA WithTestsTyped ==
    ASSUME NEW t, NEW q, NEW s \in States
    PROVE  WithTests(t, q, s) \in States
BY DEF WithTests, States

LEMMA WrittenTyped ==
    ASSUME NEW w \in Rows, NEW v \in Results
    PROVE  Written(w, v) \in Rows /\ Written(w, v).time = w.time
<1>1. v.success \in BOOLEAN /\ v.score \in Nat
  BY StandingsAssumption
<1> QED
  BY <1>1 DEF Written, Rows

LEMMA NewRowTyped == \A n \in 0 .. MaxTime : NewRow(n) \in Rows /\ NewRow(n).time = n
BY DEF NewRow, Rows

LEMMA BlankTyped == Blank \in Pictures
BY DEF Blank, Pictures, States

LEMMA InitTyped == Init => TypeOK
<1> SUFFICES ASSUME Init PROVE TypeOK
  OBVIOUS
<1> USE StandingsAssumption
<1>1. stored \in Seq(Runs)
  <2>1. Cardinality(Earlier) \in Nat
    BY FS_CardinalityType
  <2>2. stored \in [1 .. Cardinality(Earlier) -> Runs]
    BY DEF Init, SetToSeqs
  <2> QED
    BY <2>1, <2>2
<1>2. row \in [Runs -> Rows]
  <2>1. NewRow(0) \in Rows /\ \A v \in Results : Written(NewRow(0), v) \in Rows
    BY NewRowTyped, WrittenTyped
  <2> QED
    BY <2>1 DEF Init
<1>3. picture \in [Runs -> Pictures]
  BY BlankTyped DEF Init
<1> QED
  BY <1>1, <1>2, <1>3 DEF Init, TypeOK

(* Every step keeps the types.                                                *)
LEMMA TypesKept == ASSUME TypeOK, Next PROVE TypeOK'
<1> USE StandingsAssumption
<1> USE DEF TypeOK, Goto, Issue
<1>1. ASSUME NEW r \in Runs, Run(r) PROVE TypeOK'
  <2>1. ASSUME Create(r) PROVE TypeOK'
    BY <2>1 DEF Create
  <2>2. ASSUME Created(r) PROVE TypeOK'
    BY <2>2 DEF Created
  <2>3. ASSUME Finish(r) PROVE TypeOK'
    BY <2>3 DEF Finish
  <2>4. ASSUME Finished(r) PROVE TypeOK'
    BY <2>4 DEF Finished
  <2>5. ASSUME CutShort(r) PROVE TypeOK'
    BY <2>5 DEF CutShort
  <2>6. ASSUME Execute(r) PROVE TypeOK'
    <3>1. row' \in [Runs -> Rows]
      <4>1. row[r] \in Rows /\ NewRow(now) \in Rows
        BY NewRowTyped
      <4>2. \A v \in Results : Written(row[r], v) \in Rows
        BY <4>1, WrittenTyped
      <4> QED
        BY <2>6, <4>1, <4>2 DEF Execute
    <3>2. stored' \in Seq(Runs)
      <4>1. Append(stored, r) \in Seq(Runs)
        OBVIOUS
      <4> QED
        BY <2>6, <4>1 DEF Execute
    <3> QED
      BY <2>6, <3>1, <3>2 DEF Execute
  <2> QED
    BY <1>1, <2>1, <2>2, <2>3, <2>4, <2>5, <2>6 DEF Run
<1>2. ASSUME NEW r \in Runs, BroadcastTeamUpdate(r) PROVE TypeOK'
  <2>0. Submitter[r] \in Teams /\ picture[r] \in Pictures
    OBVIOUS
  <2>1. ASSUME ReadLatest(r) PROVE TypeOK'
    <3>1. PICK f \in [Questions -> States] : Gather(r, [Blank EXCEPT !.states = f])
      BY <2>1 DEF ReadLatest
    <3>2. [Blank EXCEPT !.states = f] \in Pictures
      BY DEF Blank, Pictures
    <3> QED
      BY <2>1, <3>1, <3>2 DEF ReadLatest, Gather
  <2>2. ASSUME ReadTests(r) PROVE TypeOK'
    <3> DEFINE f == [q \in Questions |-> WithTests(Submitter[r], q, picture[r].states[q])]
    <3>1. f \in [Questions -> States]
      BY <2>0, WithTestsTyped DEF Pictures
    <3>2. Gather(r, [picture[r] EXCEPT !.states = f])
      BY <2>2 DEF ReadTests
    <3> HIDE DEF f
    <3>3. [picture[r] EXCEPT !.states = f] \in Pictures
      BY <2>0, <3>1 DEF Pictures
    <3>4. /\ picture' \in [Runs -> Pictures]
          /\ UNCHANGED <<now, stored, row, stmt, told, excused>>
      BY <3>2, <3>3 DEF Gather
    <3> QED
      BY <2>2, <3>4 DEF ReadTests
  <2>3. ASSUME ReadScore(r) PROVE TypeOK'
    <3>1. [picture[r] EXCEPT !.score = Total(Submitter[r])] \in Pictures
      BY <2>0, TotalInNat DEF Pictures
    <3> QED
      BY <2>3, <3>1 DEF ReadScore, Gather
  <2>4. ASSUME Tell(r) PROVE TypeOK'
    BY <2>0, <2>4, BlankTyped DEF Tell, Drop
  <2>5. ASSUME QueryFails(r) PROVE TypeOK'
    BY <2>0, <2>5, BlankTyped DEF QueryFails, Drop
  <2> QED
    BY <1>2, <2>1, <2>2, <2>3, <2>4, <2>5 DEF BroadcastTeamUpdate
<1>3. ASSUME Tick PROVE TypeOK'
  BY <1>3 DEF Tick
<1> QED
  BY <1>1, <1>2, <1>3 DEF Next

(* TypeOK: the types, and that a score, the SUM of get_user_score, is a       *)
(* number.                                                                    *)
THEOREM TypeCorrect == Spec => []TypeOK
<1>1. ASSUME TypeOK, UNCHANGED vars PROVE TypeOK'
  BY <1>1 DEF TypeOK, vars
<1>2. ASSUME TypeOK, [Next]_vars PROVE TypeOK'
  BY <1>1, <1>2, TypesKept
<1> QED
  BY InitTyped, <1>2, PTL DEF Spec

-----------------------------------------------------------------------------
(* The last submissions *)

(* The last submission of a team for a question is one, and none was created  *)
(* after it.                                                                  *)
LEMMA LastIsLatest ==
    ASSUME TypeOK, OrderInv, NEW t \in Teams, NEW q \in Questions, Submissions(t, q) # {}
    PROVE  /\ LastSubmission(t, q) \in Submissions(t, q)
           /\ \A s \in Submissions(t, q) : row[s].time <= row[LastSubmission(t, q)].time
<1> DEFINE P == {i \in 1 .. Len(stored) : stored[i] \in Submissions(t, q)}
           m == Max(P)
<1>1. Submissions(t, q) \subseteq Stored
  BY DEF Submissions, RowsOf
<1>2. P # {} /\ Len(stored) \in Nat
  BY <1>1 DEF Stored, TypeOK
<1>3. m \in P /\ \A i \in P : m >= i
  BY <1>2, MaxOfPlaces
<1> HIDE DEF m
<1>4. stored[m] \in Submissions(t, q)
  BY <1>3
<1>5. ASSUME NEW s \in Submissions(t, q) PROVE row[s].time <= row[stored[m]].time
  <2>1. PICK i \in 1 .. Len(stored) : stored[i] = s
    BY <1>1 DEF Stored
  <2>2. i \in P /\ m \in 1 .. Len(stored) /\ i <= m
    BY <1>3, <2>1
  <2>3. s \in Runs /\ row[s].time \in Nat
    BY <1>1, StoredFinite DEF TypeOK, Rows
  <2>4. CASE i = m
    BY <2>1, <2>3, <2>4
  <2>5. CASE i < m
    BY <2>1, <2>2, <2>5 DEF OrderInv
  <2> QED
    BY <1>2, <2>2, <2>4, <2>5
<1> QED
  BY <1>4, <1>5 DEF LastSubmission, m

(* Where no two rows of the team share a second, the row of the latest second *)
(* is that of the last submission, and no test has it.                        *)
LEMMA LatestIsLast ==
    ASSUME TypeOK, OrderInv, NEW t \in Teams, Distinct(t),
           NEW q \in Questions, Submissions(t, q) # {}, NEW r \in RowsOf(t, q)
    PROVE  IsLatest(r, t, q) <=> r = LastSubmission(t, q)
<1> DEFINE l == LastSubmission(t, q)
           T == {row[s].time : s \in Submissions(t, q)}
<1>1. l \in Submissions(t, q) /\ \A s \in Submissions(t, q) : row[s].time <= row[l].time
  BY LastIsLatest
<1>2. Submissions(t, q) \subseteq RowsOf(t, q) /\ RowsOf(t, q) \subseteq Stored
  BY DEF Submissions, RowsOf
<1>3. \A s \in RowsOf(t, q) : row[s].time \in Nat
  BY <1>2, StoredFinite DEF TypeOK, Rows
<1> HIDE DEF l
<1>4. T \in SUBSET Nat /\ row[l].time \in T /\ \A y \in T : row[l].time >= y
  BY <1>1, <1>2, <1>3
<1>5. Max(T) = row[l].time
  BY <1>4, MaxIs
<1>6. IsLatest(r, t, q) <=> row[r].time = row[l].time
  BY <1>5 DEF IsLatest
<1>7. l \in RowsOf(t, q)
  BY <1>1, <1>2
<1>8. row[r].time = row[l].time => r = l
  BY <1>2, <1>7 DEF Distinct, RowsOf
<1> QED
  BY <1>6, <1>8 DEF l

LEMMA PictureOfLast == ASSUME TypeOK, OrderInv PROVE PictureIsOfLast
<1> SUFFICES ASSUME NEW t \in Teams, Distinct(t)
             PROVE  LET Tried == {q \in Questions : Submissions(t, q) # {}}
                        Counted == {LastSubmission(t, q) : q \in Tried}
                    IN  /\ Total(t) = SumFunction([r \in Counted |-> row[r].score])
                        /\ \A q \in Tried :
                            LatestStates(t, q) = {Outcome(LastSubmission(t, q))}
  BY DEF PictureIsOfLast
<1> DEFINE Tried == {q \in Questions : Submissions(t, q) # {}}
           Counted == {LastSubmission(t, q) : q \in Tried}
<1>1. ScoredOf(t) = Counted
  <2>1. ASSUME NEW r \in ScoredOf(t) PROVE r \in Counted
    <3> DEFINE q == Question[r]
    <3>1. r \in Stored \ TestOnly /\ Submitter[r] = t /\ IsLatest(r, t, q)
      BY DEF ScoredOf
    <3>2. r \in Submissions(t, q) /\ r \in RowsOf(t, q)
      BY <3>1 DEF Submissions, RowsOf
    <3>3. q \in Questions
      BY <3>1, StoredFinite, StandingsAssumption DEF TypeOK
    <3>4. q \in Tried
      BY <3>2, <3>3
    <3> HIDE DEF q
    <3>5. r = LastSubmission(t, q)
      BY <3>1, <3>2, <3>4, LatestIsLast
    <3> QED
      BY <3>4, <3>5
  <2>2. ASSUME NEW q \in Tried PROVE LastSubmission(t, q) \in ScoredOf(t)
    <3> DEFINE l == LastSubmission(t, q)
    <3>1. l \in Submissions(t, q)
      BY LastIsLatest
    <3> HIDE DEF l
    <3>2. l \in RowsOf(t, q) /\ l \in Stored \ TestOnly /\ Submitter[l] = t /\ Question[l] = q
      BY <3>1 DEF Submissions, RowsOf
    <3>3. IsLatest(l, t, q)
      BY <3>2, LatestIsLast DEF l
    <3>4. l \in ScoredOf(t)
      BY <3>2, <3>3 DEF ScoredOf
    <3> QED
      BY <3>4 DEF l
  <2> QED
    BY <2>1, <2>2
<1>2. ASSUME NEW q \in Tried PROVE LatestStates(t, q) = {Outcome(LastSubmission(t, q))}
  <2> DEFINE l == LastSubmission(t, q)
  <2>1. l \in RowsOf(t, q)
    BY LastIsLatest DEF Submissions
  <2>2. \A r \in RowsOf(t, q) : IsLatest(r, t, q) <=> r = l
    BY LatestIsLast
  <2> HIDE DEF l
  <2>3. LatestOf(t, q) = {l}
    BY <2>1, <2>2 DEF LatestOf
  <2>4. LatestStates(t, q) = {Outcome(l)}
    BY <2>3 DEF LatestStates
  <2> QED
    BY <2>4 DEF l
<1>3. Total(t) = SumFunction([r \in Counted |-> row[r].score])
  BY <1>1 DEF Total
<1> QED
  BY <1>2, <1>3

-----------------------------------------------------------------------------
(* The order of the rows *)

LEMMA InitOrder == Init => OrderInv
<1> SUFFICES ASSUME Init PROVE OrderInv
  OBVIOUS
<1>1. /\ Cardinality(Earlier) \in Nat
      /\ stored \in [1 .. Cardinality(Earlier) -> Earlier]
      /\ \A i, j \in 1 .. Cardinality(Earlier) : i # j => stored[i] # stored[j]
  BY StandingsAssumption, FS_CardinalityType DEF Init, SetToSeqs
<1>2. Len(stored) = Cardinality(Earlier)
  BY <1>1
<1>3. Stored \subseteq Earlier /\ Earlier \subseteq Runs
  BY <1>1, <1>2, StandingsAssumption DEF Stored
<1>4. \A v \in Results : Written(NewRow(0), v).time = 0
  BY NewRowTyped, WrittenTyped, StandingsAssumption
<1>5. \A r \in Runs : row[r].time = 0
  BY <1>4 DEF Init, NewRow
<1>6. \A i, j \in 1 .. Len(stored) : i < j =>
        stored[i] # stored[j] /\ row[stored[i]].time <= row[stored[j]].time
  BY <1>1, <1>2, <1>3, <1>5
<1>7. \A r \in Stored : row[r].time <= now
  BY <1>3, <1>5 DEF Init
<1>8. \A r \in Runs : stmt[r] = "none" /\ (task[r] = "idle" => r \notin Stored)
  BY <1>3 DEF Init
<1> QED
  BY <1>6, <1>7, <1>8 DEF OrderInv

(* A step that writes no row and issues an INSERT only for an idle run.       *)
LEMMA OrderUntouched ==
    ASSUME TypeOK, OrderInv, UNCHANGED <<stored, row>>, now' \in Nat, now <= now',
           \A r \in Runs :
               /\ task'[r] = "idle" => task[r] = "idle" /\ stmt'[r] = stmt[r]
               /\ stmt'[r] = "insert" => stmt[r] = "insert" \/ task[r] = "idle"
    PROVE  OrderInv'
<1>1. Stored' = Stored /\ Stored \in SUBSET Runs
  BY StoredFinite DEF Stored, TypeOK
<1>2. \A r \in Stored : row[r].time \in Nat /\ row[r].time <= now'
  BY <1>1 DEF OrderInv, TypeOK, Rows
<1> QED
  BY <1>1, <1>2 DEF OrderInv

(* An INSERT that is executed, one row more.                                  *)
LEMMA Inserted ==
    ASSUME stored \in Seq(Runs), NEW r \in Runs, stored' = Append(stored, r)
    PROVE  /\ Len(stored) \in Nat /\ Len(stored') = Len(stored) + 1
           /\ \A i \in 1 .. Len(stored) : stored'[i] = stored[i] /\ stored[i] \in Stored
           /\ stored'[Len(stored) + 1] = r
           /\ Stored' = Stored \union {r}
<1>1. /\ Len(stored) \in Nat /\ Len(stored') = Len(stored) + 1
      /\ \A i \in 1 .. Len(stored) : stored'[i] = stored[i]
      /\ stored'[Len(stored) + 1] = r
  OBVIOUS
<1> QED
  BY <1>1 DEF Stored

LEMMA OrderExecuted ==
    ASSUME TypeOK, OrderInv, NEW r \in Runs, Execute(r)
    PROVE  OrderInv'
<1> DEFINE n == Len(stored)
<1>1. \A s \in Runs : stmt'[s] = "insert" => stmt[s] = "insert" /\ s # r
  BY DEF Execute, Issue, TypeOK
<1>2. UNCHANGED <<now, task>>
  BY DEF Execute
<1>3. CASE stmt[r] = "insert"
  <2>1. stored' = Append(stored, r) /\ row' = [row EXCEPT ![r] = NewRow(now)]
    BY <1>3 DEF Execute
  <2>2. /\ n \in Nat /\ Len(stored') = n + 1
        /\ \A i \in 1 .. n : stored'[i] = stored[i] /\ stored[i] \in Stored
        /\ stored'[n + 1] = r
        /\ Stored' = Stored \union {r}
    BY <2>1, Inserted DEF TypeOK
  <2>3. r \notin Stored
    BY <1>3 DEF OrderInv
  <2>4. row'[r].time = now
    BY <2>1, NewRowTyped DEF TypeOK
  <2>5. Stored \in SUBSET Runs /\ \A s \in Stored : row'[s] = row[s]
    BY <2>1, <2>3, StoredFinite DEF TypeOK
  <2>6. ASSUME NEW i \in 1 .. Len(stored'), NEW j \in 1 .. Len(stored'), i < j
        PROVE  stored'[i] # stored'[j] /\ row'[stored'[i]].time <= row'[stored'[j]].time
    <3>1. i \in 1 .. n
      BY <2>2, <2>6
    <3>2. CASE j \in 1 .. n
      BY <2>2, <2>5, <2>6, <3>1, <3>2 DEF OrderInv
    <3>3. CASE j = n + 1
      <4>1. stored'[i] \in Stored /\ stored'[j] = r
        BY <2>2, <3>1, <3>3
      <4> QED
        BY <2>3, <2>4, <2>5, <4>1 DEF OrderInv
    <3> QED
      BY <2>2, <3>2, <3>3
  <2>7. \A s \in Stored' : row'[s].time <= now'
    BY <1>2, <2>2, <2>4, <2>5 DEF OrderInv, TypeOK
  <2>8. \A s \in Runs : task'[s] = "idle" \/ stmt'[s] = "insert" => s \notin Stored'
    BY <1>1, <1>2, <1>3, <2>2 DEF OrderInv
  <2>9. \A s \in Runs : task'[s] = "idle" => stmt'[s] # "insert"
    BY <1>1, <1>2 DEF OrderInv
  <2> QED
    BY <2>6, <2>7, <2>8, <2>9 DEF OrderInv
<1>4. CASE stmt[r] = "finish"
  <2>1. PICK v \in Results : row' = [row EXCEPT ![r] = Written(row[r], v)]
    BY <1>4 DEF Execute
  <2>2. stored' = stored /\ Stored' = Stored /\ Stored \in SUBSET Runs
    BY <1>4, StoredFinite DEF Execute, Stored, TypeOK
  <2>3. \A s \in Runs : row'[s].time = row[s].time
    BY <2>1, WrittenTyped DEF TypeOK
  <2>4. Len(stored) \in Nat /\ \A i \in 1 .. Len(stored) : stored[i] \in Runs
    BY DEF TypeOK
  <2>5. \A i, j \in 1 .. Len(stored') : i < j =>
            stored'[i] # stored'[j] /\ row'[stored'[i]].time <= row'[stored'[j]].time
    BY <2>2, <2>3, <2>4 DEF OrderInv
  <2>6. \A s \in Stored' : row'[s].time <= now'
    BY <1>2, <2>2, <2>3 DEF OrderInv
  <2> QED
    BY <1>1, <1>2, <2>2, <2>5, <2>6 DEF OrderInv
<1> QED
  BY <1>3, <1>4 DEF Execute

(* No step but Execute writes a row.                                          *)
LEMMA OrderKept == ASSUME TypeOK, OrderInv, Next PROVE OrderInv'
<1> USE DEF Goto, Issue, TypeOK
<1>0. now \in Nat
  BY StandingsAssumption
<1>1. ASSUME NEW r \in Runs, Run(r) PROVE OrderInv'
  <2>1. ASSUME Create(r) PROVE OrderInv'
    BY <1>0, <2>1, OrderUntouched DEF Create
  <2>2. ASSUME Created(r) PROVE OrderInv'
    BY <1>0, <2>2, OrderUntouched DEF Created
  <2>3. ASSUME Finish(r) PROVE OrderInv'
    BY <1>0, <2>3, OrderUntouched DEF Finish
  <2>4. ASSUME Finished(r) PROVE OrderInv'
    BY <1>0, <2>4, OrderUntouched DEF Finished
  <2>5. ASSUME CutShort(r) PROVE OrderInv'
    BY <1>0, <2>5, OrderUntouched DEF CutShort
  <2>6. ASSUME Execute(r) PROVE OrderInv'
    BY <2>6, OrderExecuted
  <2> QED
    BY <1>1, <2>1, <2>2, <2>3, <2>4, <2>5, <2>6 DEF Run
<1>2. ASSUME NEW r \in Runs, BroadcastTeamUpdate(r) PROVE OrderInv'
  <2>1. UNCHANGED <<now, stored, row, stmt>>
    BY <1>2 DEF BroadcastTeamUpdate, ReadLatest, ReadTests, ReadScore, Tell, QueryFails, Gather
  <2>2. \A s \in Runs : task'[s] = "idle" => task[s] = "idle"
    BY <1>2 DEF BroadcastTeamUpdate, ReadLatest, ReadTests, ReadScore, Tell, QueryFails
  <2> QED
    BY <1>0, <2>1, <2>2, OrderUntouched
<1>3. ASSUME Tick PROVE OrderInv'
  BY <1>0, <1>3, OrderUntouched DEF Tick
<1> QED
  BY <1>1, <1>2, <1>3 DEF Next

-----------------------------------------------------------------------------
(* The statements *)

LEMMA StatementKept == ASSUME TypeOK, StatementInv, Next PROVE StatementInv'
<1> USE DEF Goto, Issue, TypeOK, Awaited
<1>1. ASSUME NEW r \in Runs, Run(r) PROVE StatementInv'
  <2> SUFFICES ASSUME NEW s \in Runs, stmt'[s] # "none"
               PROVE  task'[s] \in {"creating", "finishing"} \/ Submitter[s] \in excused'
    BY DEF StatementInv
  <2>0. stmt[s] # "none" => task[s] \in {"creating", "finishing"} \/ Submitter[s] \in excused
    BY DEF StatementInv
  <2>1. CASE Create(r)
    BY <2>0, <2>1 DEF Create
  <2>2. CASE Created(r)
    BY <2>0, <2>2 DEF Created
  <2>3. CASE Finish(r)
    BY <2>0, <2>3 DEF Finish
  <2>4. CASE Finished(r)
    BY <2>0, <2>4 DEF Finished
  <2>5. CASE CutShort(r)
    BY <2>0, <2>5 DEF CutShort
  <2>6. CASE Execute(r)
    BY <2>0, <2>6 DEF Execute
  <2> QED
    BY <1>1, <2>1, <2>2, <2>3, <2>4, <2>5, <2>6 DEF Run
<1>2. ASSUME NEW r \in Runs, BroadcastTeamUpdate(r) PROVE StatementInv'
  <2>1. UNCHANGED stmt /\ excused \subseteq excused'
    BY <1>2 DEF BroadcastTeamUpdate, ReadLatest, ReadTests, ReadScore, Tell, QueryFails, Gather
  <2>2. \A s \in Runs : s # r => task'[s] = task[s]
    BY <1>2 DEF BroadcastTeamUpdate, ReadLatest, ReadTests, ReadScore, Tell, QueryFails
  <2>3. task[r] \in {"latest", "tests", "score", "tell"}
    BY <1>2 DEF BroadcastTeamUpdate, ReadLatest, ReadTests, ReadScore, Tell, QueryFails
  <2> QED
    BY <2>1, <2>2, <2>3 DEF StatementInv
<1>3. ASSUME Tick PROVE StatementInv'
  BY <1>3 DEF Tick, StatementInv
<1> QED
  BY <1>1, <1>2, <1>3 DEF Next

-----------------------------------------------------------------------------
(* What is told *)

(* A team's part of the table: what its standing is put together from.        *)
SameStanding(t) ==
    /\ \A q \in Questions :
        LatestStates(t, q)' = LatestStates(t, q) /\ TestsOf(t, q)' = TestsOf(t, q)
    /\ Total(t)' = Total(t)

LEMMA TableUntouched ==
    ASSUME NEW t \in Teams, UNCHANGED <<stored, row>>
    PROVE  SameStanding(t)
<1>1. Stored' = Stored
  BY DEF Stored
<1>2. \A q : RowsOf(t, q)' = RowsOf(t, q)
  BY <1>1 DEF RowsOf
<1>3. \A q : Submissions(t, q)' = Submissions(t, q)
  BY <1>2 DEF Submissions
<1>4. \A r, q : IsLatest(r, t, q)' <=> IsLatest(r, t, q)
  BY <1>3 DEF IsLatest
<1>5. \A q : LatestOf(t, q)' = LatestOf(t, q)
  BY <1>2, <1>4 DEF LatestOf
<1>6. \A r : Outcome(r)' = Outcome(r)
  BY DEF Outcome
<1>7. ScoredOf(t)' = ScoredOf(t)
  BY <1>1, <1>4 DEF ScoredOf
<1>8. Total(t)' = Total(t)
  BY <1>7 DEF Total
<1>9. \A q : LatestStates(t, q)' = LatestStates(t, q)
  BY <1>5, <1>6 DEF LatestStates
<1>10. \A q : TestsOf(t, q)' = TestsOf(t, q)
  BY <1>2 DEF TestsOf
<1> QED
  BY <1>8, <1>9, <1>10 DEF SameStanding

(* A row that another team's run writes is not in it.                         *)
LEMMA OthersUntouched ==
    ASSUME TypeOK, NEW r \in Runs, Execute(r), NEW t \in Teams, t # Submitter[r]
    PROVE  SameStanding(t)
<1>1. Stored' = Stored \/ Stored' = Stored \union {r}
  BY Inserted DEF Execute, Stored, TypeOK
<1>2. \A s \in Runs : s # r => row'[s] = row[s]
  BY DEF Execute, TypeOK
<1>3. Stored \in SUBSET Runs
  BY StoredFinite DEF TypeOK
<1>4. \A q : RowsOf(t, q)' = RowsOf(t, q)
  BY <1>1 DEF RowsOf
<1>5. \A q : \A s \in RowsOf(t, q) : row'[s] = row[s]
  BY <1>2, <1>3 DEF RowsOf
<1>6. \A q : Submissions(t, q)' = Submissions(t, q) /\ Submissions(t, q) \subseteq RowsOf(t, q)
  BY <1>4 DEF Submissions
<1>7. \A q : {row[s].time : s \in Submissions(t, q)}' = {row[s].time : s \in Submissions(t, q)}
  BY <1>5, <1>6
<1>8. \A q : \A s \in RowsOf(t, q) : IsLatest(s, t, q)' <=> IsLatest(s, t, q)
  BY <1>5, <1>6, <1>7 DEF IsLatest
<1>9. \A q : LatestOf(t, q)' = LatestOf(t, q)
  BY <1>4, <1>8 DEF LatestOf
<1>10. \A q : LatestStates(t, q)' = LatestStates(t, q)
  BY <1>5, <1>9 DEF LatestStates, LatestOf, Outcome
<1>11. ScoredOf(t)' = ScoredOf(t)
  <2>1. \A s : s \in Stored' /\ Submitter[s] = t <=> s \in Stored /\ Submitter[s] = t
    BY <1>1
  <2>2. \A s \in Stored : Submitter[s] = t => s \in RowsOf(t, Question[s])
    BY DEF RowsOf
  <2> QED
    BY <1>8, <2>1, <2>2 DEF ScoredOf
<1>12. \A s \in ScoredOf(t) : row'[s] = row[s]
  BY <1>2, <1>3 DEF ScoredOf
<1>13. [s \in ScoredOf(t) |-> row[s].score]' = [s \in ScoredOf(t) |-> row[s].score]
  BY <1>11, <1>12
<1>14. Total(t)' = Total(t)
  BY <1>13 DEF Total
<1> QED
  BY <1>4, <1>10, <1>14 DEF SameStanding, TestsOf

(* A picture stays current while its team's part of the table is the same.    *)
LEMMA CurrentStays ==
    ASSUME NEW r \in Runs, SameStanding(Submitter[r]), Current(r),
           task'[r] = task[r], picture'[r] = picture[r]
    PROVE  Current(r)'
<1> DEFINE t == Submitter[r]
<1>1. \A q \in Questions : \A s : WithTests(t, q, s)' = WithTests(t, q, s)
  BY DEF SameStanding, WithTests
<1> QED
  BY <1>1 DEF Current, SameStanding

(* A step of one run that writes no row: it stays the run that will tell the  *)
(* standing, or it has told it, or its team is excused.                       *)
LEMMA ToldUnwritten ==
    ASSUME TypeOK, ToldInv, NEW r \in Runs,
           UNCHANGED <<stored, row>>, told \subseteq told', excused \subseteq excused',
           \A s \in Runs \ {r} : task'[s] = task[s] /\ picture'[s] = picture[s],
           task[r] \notin {"idle", "over"} /\ Current(r) =>
               \/ task'[r] \notin {"idle", "over"} /\ Current(r)'
               \/ Submitter[r] \in told' \/ Submitter[r] \in excused'
    PROVE  ToldInv'
<1> SUFFICES ASSUME NEW t \in Teams, t \notin told', t \notin excused'
             PROVE  \E s \in Runs : Submitter[s] = t /\ task'[s] \notin {"idle", "over"}
                                    /\ Current(s)'
  BY DEF ToldInv
<1>1. PICK s \in Runs : Submitter[s] = t /\ task[s] \notin {"idle", "over"} /\ Current(s)
  BY DEF ToldInv
<1>2. CASE s = r
  BY <1>1, <1>2
<1>3. CASE s # r
  <2>1. Current(s)'
    BY <1>1, <1>3, TableUntouched, CurrentStays
  <2> QED
    BY <1>1, <1>3, <2>1
<1> QED
  BY <1>2, <1>3

(* What is written is not yet told: the run whose statement it is has read    *)
(* nothing yet.                                                               *)
LEMMA ToldExecuted ==
    ASSUME TypeOK, StatementInv, ToldInv, NEW r \in Runs, Execute(r)
    PROVE  ToldInv'
<1> SUFFICES ASSUME NEW t \in Teams, t \notin told', t \notin excused'
             PROVE  \E s \in Runs : Submitter[s] = t /\ task'[s] \notin {"idle", "over"}
                                    /\ Current(s)'
  BY DEF ToldInv
<1>1. /\ stmt[r] # "none" /\ UNCHANGED <<task, picture, excused>>
      /\ told' = told \ {Submitter[r]}
  BY DEF Execute
<1>2. CASE t = Submitter[r]
  <2>1. task'[r] \in {"creating", "finishing"}
    BY <1>1, <1>2 DEF StatementInv
  <2>2. Current(r)'
    BY <2>1 DEF Current
  <2> QED
    BY <1>2, <2>1, <2>2
<1>3. CASE t # Submitter[r]
  <2>1. PICK s \in Runs : Submitter[s] = t /\ task[s] \notin {"idle", "over"} /\ Current(s)
    BY <1>1, <1>3 DEF ToldInv
  <2>2. Current(s)'
    BY <1>1, <1>3, <2>1, OthersUntouched, CurrentStays
  <2> QED
    BY <1>1, <2>1, <2>2
<1> QED
  BY <1>2, <1>3

(* A broadcast gathers, query by query, what the table holds, and tells it.   *)
LEMMA ToldBroadcast ==
    ASSUME TypeOK, ToldInv, NEW r \in Runs, BroadcastTeamUpdate(r)
    PROVE  ToldInv'
<1> DEFINE t == Submitter[r]
<1> USE DEF TypeOK, Goto
<1>1. t \in Teams /\ UNCHANGED <<stored, row>> /\ told \subseteq told' /\ excused \subseteq excused'
  BY StandingsAssumption DEF BroadcastTeamUpdate, ReadLatest, ReadTests, ReadScore, Tell,
     QueryFails, Gather
<1>2. \A s \in Runs \ {r} : task'[s] = task[s] /\ picture'[s] = picture[s]
  BY DEF BroadcastTeamUpdate, ReadLatest, ReadTests, ReadScore, Tell, QueryFails, Gather, Drop
<1>3. SameStanding(t) /\ \A q \in Questions : \A s : WithTests(t, q, s)' = WithTests(t, q, s)
  BY <1>1, TableUntouched DEF SameStanding, WithTests
<1>4. ASSUME ReadLatest(r) PROVE task'[r] \notin {"idle", "over"} /\ Current(r)'
  <2>1. PICK f \in [Questions -> States] :
            /\ \A q \in Questions : f[q] \in LatestStates(t, q)
            /\ picture' = [picture EXCEPT ![r] = [Blank EXCEPT !.states = f]]
    BY <1>4 DEF ReadLatest, Gather
  <2>2. picture'[r].states = f /\ task'[r] = "tests"
    BY <1>4, <2>1 DEF ReadLatest, Blank
  <2> QED
    BY <1>3, <2>1, <2>2 DEF Current, SameStanding
<1>5. ASSUME ReadTests(r), Current(r) PROVE task'[r] \notin {"idle", "over"} /\ Current(r)'
  <2>1. task[r] = "tests" /\ task'[r] = "score"
    BY <1>5 DEF ReadTests
  <2>2. \A q \in Questions : picture'[r].states[q] = WithTests(t, q, picture[r].states[q])
    BY <1>5 DEF ReadTests, Gather, Pictures
  <2>3. \A q \in Questions : picture[r].states[q] \in LatestStates(t, q)
    BY <1>5, <2>1 DEF Current
  <2> QED
    BY <1>3, <2>1, <2>2, <2>3 DEF Current, SameStanding
<1>6. ASSUME ReadScore(r), Current(r) PROVE task'[r] \notin {"idle", "over"} /\ Current(r)'
  <2>1. task[r] = "score" /\ task'[r] = "tell"
    BY <1>6 DEF ReadScore
  <2>2. picture'[r].states = picture[r].states /\ picture'[r].score = Total(t)
    BY <1>6 DEF ReadScore, Gather, Pictures
  <2> QED
    BY <1>3, <1>6, <2>1, <2>2 DEF Current, SameStanding
<1>7. ASSUME Tell(r), Current(r) PROVE t \in told'
  BY <1>7 DEF Tell, Current, IsPicture
<1>8. ASSUME QueryFails(r) PROVE t \in excused'
  BY <1>8 DEF QueryFails
<1> QED
  BY <1>1, <1>2, <1>4, <1>5, <1>6, <1>7, <1>8, ToldUnwritten DEF BroadcastTeamUpdate

LEMMA ToldKept == ASSUME TypeOK, StatementInv, ToldInv, Next PROVE ToldInv'
<1>1. ASSUME NEW r \in Runs, Run(r) PROVE ToldInv'
  <2>1. CASE Execute(r)
    BY <2>1, ToldExecuted
  <2>2. CASE ~Execute(r)
    <3>1. /\ UNCHANGED <<stored, row, picture, told>>
          /\ excused \subseteq excused'
          /\ task'[r] \in {"creating", "running", "finishing", "latest"}
          /\ \A s \in Runs \ {r} : task'[s] = task[s]
      BY <1>1, <2>2 DEF Run, Create, Created, Finish, Finished, CutShort, Goto, TypeOK
    <3>2. Current(r)'
      BY <3>1 DEF Current
    <3> QED
      BY <3>1, <3>2, ToldUnwritten
  <2> QED
    BY <2>1, <2>2
<1>2. ASSUME NEW r \in Runs, BroadcastTeamUpdate(r) PROVE ToldInv'
  BY <1>2, ToldBroadcast
<1>3. ASSUME Tick PROVE ToldInv'
  <2>1. UNCHANGED <<stored, row, picture, told, task, excused>>
    BY <1>3 DEF Tick
  <2> SUFFICES ASSUME NEW t \in Teams, t \notin told, t \notin excused
               PROVE  \E s \in Runs : Submitter[s] = t /\ task[s] \notin {"idle", "over"}
                                      /\ Current(s)'
    BY <2>1 DEF ToldInv
  <2>2. PICK s \in Runs : Submitter[s] = t /\ task[s] \notin {"idle", "over"} /\ Current(s)
    BY DEF ToldInv
  <2> QED
    BY <2>1, <2>2, TableUntouched, CurrentStays
<1> QED
  BY <1>1, <1>2, <1>3 DEF Next

-----------------------------------------------------------------------------
(* Theorems *)

LEMMA InitInv == Init => IInv
<1>1. Init => StatementInv /\ ToldInv
  BY DEF Init, StatementInv, ToldInv
<1> QED
  BY <1>1, InitTyped, InitOrder DEF IInv

LEMMA Stuttering == ASSUME IInv, UNCHANGED vars PROVE IInv'
<1> USE DEF IInv, vars
<1>1. TypeOK'
  BY DEF TypeOK
<1>2. OrderInv'
  BY DEF OrderInv, Stored
<1>3. StatementInv'
  BY DEF StatementInv
<1>4. ToldInv'
  <2> SUFFICES ASSUME NEW t \in Teams, t \notin told, t \notin excused
               PROVE  \E s \in Runs : Submitter[s] = t /\ task[s] \notin {"idle", "over"}
                                      /\ Current(s)'
    BY DEF ToldInv
  <2>1. PICK s \in Runs : Submitter[s] = t /\ task[s] \notin {"idle", "over"} /\ Current(s)
    BY DEF ToldInv
  <2> QED
    BY <2>1, TableUntouched, CurrentStays
<1> QED
  BY <1>1, <1>2, <1>3, <1>4

(* Invariant: rows in the order of their times, statements with a run that    *)
(* waits for them, and standings that are told or will be.                    *)
THEOREM Invariant == Spec => []IInv
<1>1. ASSUME IInv, [Next]_vars PROVE IInv'
  <2>1. CASE Next
    BY <1>1, <2>1, TypesKept, OrderKept, StatementKept, ToldKept DEF IInv
  <2> QED
    BY <1>1, <2>1, Stuttering
<1> QED
  BY InitInv, <1>1, PTL DEF Spec

(* PictureIsOfLast: the last submission for each question, and only it, makes *)
(* the score and the state of the question (get_user_score,                   *)
(* get_latest_submissions), where no two rows share a second.                 *)
THEOREM PicturesAreOfTheLast == Spec => []PictureIsOfLast
<1>1. IInv => PictureIsOfLast
  BY PictureOfLast DEF IInv
<1> QED
  BY Invariant, <1>1, PTL

(* RightPictureWasTold: when the runs of a team are over, its standing has    *)
(* been told as it is (broadcast_team_update), whatever the order of the      *)
(* queries of several runs, unless a query failed or an abort left a          *)
(* statement behind.                                                          *)
THEOREM StandingsAreTold == Spec => []RightPictureWasTold
<1>1. IInv => RightPictureWasTold
  BY DEF IInv, ToldInv, RightPictureWasTold
<1> QED
  BY Invariant, <1>1, PTL
=============================================================================
