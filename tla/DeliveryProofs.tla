--------------------------- MODULE DeliveryProofs ---------------------------
(***************************************************************************)
(* Theorems about module Delivery, for any number of runs, cases, users    *)
(* and sockets: the types, the safety properties of the websockets, and    *)
(* those of what a client is told of a run.                                *)
(***************************************************************************)
EXTENDS Delivery, SequenceTheorems, TLAPS

-----------------------------------------------------------------------------
(* Invariants *)

(* Who is in the map of waiting tasks, and whose connection a task has.      *)
WaitersInv ==
    /\ \A u \in Users : \A w \in waiting[u] : Submitter[w] = u
    /\ RightUser

(* A sender that waits for its client has a message in hand, and one that    *)
(* has returned waits for nothing.                                           *)
WaitOf(r) ==
    /\ wait[r] \in {"checked", "waiting", "given"} => queue[r] # <<>>
    /\ r \in over => wait[r] = "idle"

TypeInv == TypeOK /\ WaitersInv /\ \A r \in Runs : WaitOf(r)

(* What is on the channel of a run: Compiled only in front of everything,    *)
(* told or not; the closing message only at the end; no case twice.          *)
ChannelOf(r) ==
    /\ \A i \in 1 .. Len(queue[r]) :
        /\ queue[r][i].kind = "Compiled" => i = 1 /\ told[r] = <<>>
        /\ queue[r][i].kind \in Feed!Finals =>
            i = Len(queue[r]) /\ queue[r][i].kind = final[r]
        /\ queue[r][i].kind # "Results" => queue[r][i].cases = {}
    /\ \A i, j \in 1 .. Len(queue[r]) :
        i # j => queue[r][i].cases \intersect queue[r][j].cases = {}
    /\ queue[r] # <<>> \/ told[r] # <<>> =>
        compiled[r] \/ reported[r] # {} \/ final[r] # "none"
    /\ final[r] = "Complete" => reported[r] = CasesOf(r)
    /\ final[r] = "CompileFailed" => reported[r] = {}

(* A closing message, gathered or told, is that of the run.                  *)
TrueClosing(r, m) ==
    /\ m.kind = final[r]
    /\ m.kind = "Complete" => m.cases = CasesOf(r)

ClosingOf(r) ==
    /\ send[r] # NoMessage => send[r].kind \in Feed!Finals /\ TrueClosing(r, send[r])
    /\ \A i \in 1 .. Len(told[r]) :
        /\ told[r][i].kind = "Compiled" => i = 1
        /\ told[r][i].kind \in Feed!Finals =>
            /\ i = Len(told[r]) /\ r \in over
            /\ TrueClosing(r, told[r][i])

(* Where the results of a run are: told, gathered, on the channel, or lapsed; *)
(* in the first three no case twice.                                          *)
ResultsOf(r) ==
    /\ \A i, j \in 1 .. Len(told[r]) :
        /\ i # j /\ told[r][i].kind = "Results" /\ told[r][j].kind = "Results"
        => told[r][i].cases \intersect told[r][j].cases = {}
    /\ reported[r] = ToldCases(r) \union results[r] \union QueuedCases(r) \union lapsed[r]
    /\ results[r] \intersect ToldCases(r) = {}
    /\ QueuedCases(r) \intersect (ToldCases(r) \union results[r]) = {}

RunInv(r) == ChannelOf(r) /\ ClosingOf(r) /\ ResultsOf(r)

(* Where the closing message of a run is until its sender returns: on the    *)
(* channel, prepared by a sender that has its client, or lapsed.  A sender   *)
(* that returns has met it.                                                  *)
FateOf(r) ==
    /\ r \in over => queue[r] = <<>> /\ final[r] # "none" /\ fate[r] # "none"
    /\ fate[r] = "told" =>
        r \in over /\ told[r] # <<>> /\ told[r][Len(told[r])].kind \in Feed!Finals
    /\ r \notin over /\ final[r] # "none" =>
        \/ queue[r] # <<>> /\ queue[r][Len(queue[r])].kind = final[r]
        \/ queue[r] = <<>> /\ send[r] # NoMessage /\ wait[r] = "have"
        \/ fate[r] = "lapsed"

IInv == TypeInv /\ \A r \in Runs : RunInv(r) /\ FateOf(r)
-----------------------------------------------------------------------------
(* Types *)

(* The cases of a run are cases, also by the name they have in RunFeed.      *)
LEMMA CasesOfRun == \A r \in Runs : CasesOf(r) \subseteq Cases /\ Feed!CasesOf(r) = CasesOf(r)
BY PacketAssumption DEF CasesOf, Feed!CasesOf

(* A step of a websocket keeps the types and the waiters right: a connecting *)
(* user's waiters are given the socket of that user.                         *)
LEMMA SocketKeepsConnections ==
    ASSUME Conn!ConnectionsType, WaitersInv, NEW s \in Sockets, Conn!Socket(s)
    PROVE  Conn!ConnectionsType' /\ WaitersInv'
<1>1. CASE Conn!Greet(s)
  <2>1. Conn!ConnectionsType'
    BY ZenonT(60), <1>1 DEF Conn!Greet, Conn!ConnectionsType, Conn!SockStates, Conn!WaitStates
  <2>2. WaitersInv'
    BY ZenonT(60), <1>1, ClientsAssumption
    DEF Conn!Greet, Conn!ConnectionsType, Conn!Woken, WaitersInv, RightUser, Conn!RightUser
  <2> QED
    BY <2>1, <2>2
<1>2. CASE Conn!Insert(s)
  BY <1>2 DEF Conn!Insert, Conn!ConnectionsType, Conn!SockStates, Conn!SameKey, Conn!waiters,
              WaitersInv, RightUser, Conn!RightUser
<1>3. CASE Conn!Write(s) \/ Conn!Written(s) \/ Conn!Leave(s) \/ Conn!Close(s)
  BY <1>3 DEF Conn!Write, Conn!Written, Conn!Leave, Conn!Close, Conn!ConnectionsType,
              Conn!SockStates, Conn!waiters, WaitersInv, RightUser, Conn!RightUser
<1>4. CASE Conn!Deferred(s)
  BY <1>4 DEF Conn!Deferred, Conn!RemoveConnection, Conn!ConnectionsType, Conn!SockStates,
              Conn!waiters, WaitersInv, RightUser, Conn!RightUser
<1> QED
  BY <1>1, <1>2, <1>3, <1>4 DEF Conn!Socket

(* So does a step of a task that waits: it takes the connection of its user. *)
LEMMA WaiterKeepsConnections ==
    ASSUME Conn!ConnectionsType, WaitersInv, NEW r \in Runs,
           \/ Conn!CheckActive(r) \/ Conn!Register(r) \/ Conn!Wake(r)
           \/ Conn!TimeOut(r) \/ Conn!Release(r)
    PROVE  /\ Conn!ConnectionsType' /\ WaitersInv'
           /\ \A q \in Runs \ {r} : wait'[q] = wait[q]
<1> USE DEF Conn!ConnectionsType, Conn!WaitStates, Conn!table
<1>1. CASE Conn!CheckActive(r)
  BY <1>1 DEF Conn!CheckActive, WaitersInv, RightUser, Conn!RightUser
<1>2. CASE Conn!Register(r)
  BY <1>2, DeliveryAssumption DEF Conn!Register, WaitersInv, RightUser, Conn!RightUser
<1>3. CASE Conn!Wake(r) \/ Conn!TimeOut(r)
  BY <1>3 DEF Conn!Wake, Conn!TimeOut, WaitersInv, RightUser, Conn!RightUser
<1>4. CASE Conn!Release(r)
  BY <1>4, ClientsAssumption
  DEF Conn!Release, Conn!DropClient, WaitersInv, RightUser, Conn!RightUser
<1> QED
  BY <1>1, <1>2, <1>3, <1>4

(* In the beginning nothing is connected, queued or told. *)
LEMMA TypeInit == Init => TypeInv
<1> SUFFICES ASSUME Init PROVE TypeInv
  OBVIOUS
<1>1. Feed!FeedType /\ Conn!ConnectionsType
  BY DEF Init, Feed!Init, Feed!FeedType, Conn!Init, Conn!ConnectionsType, Conn!SockStates,
         Conn!WaitStates
<1>2. WaitersInv
  BY DEF Init, Conn!Init, WaitersInv, RightUser, Conn!RightUser
<1>3. \A r \in Runs : WaitOf(r)
  BY DEF Init, Conn!Init, WaitOf
<1>4. NoMessage \in Messages
  BY DEF NoMessage, Message, Messages, Kinds
<1> QED
  BY <1>1, <1>2, <1>3, <1>4 DEF Init, TypeInv, TypeOK, Fates

(* A report is a message that goes to the end of the channel of its run.     *)
LEMMA ReportType ==
    ASSUME TypeInv, NEW r \in Runs, Report(r)
    PROVE  /\ Feed!FeedType'
           /\ \E m \in Messages : queue' = [queue EXCEPT ![r] = Append(@, m)]
           /\ UNCHANGED <<connections, sender>>
<1>1. Feed!FeedType
  BY DEF TypeInv, TypeOK
<1>2. CASE Feed!SayCompiled(r) /\ Put(r, Message("Compiled", {}))
  <2>1. Message("Compiled", {}) \in Messages
    BY DEF Message, Messages, Kinds
  <2> QED
    BY <1>1, <1>2, <2>1 DEF Feed!SayCompiled, Feed!FeedType, Put, Report
<1>3. ASSUME NEW c \in CasesOf(r), Feed!SayResult(r, c), Put(r, Message("Results", {c}))
      PROVE  Feed!FeedType' /\ \E m \in Messages : queue' = [queue EXCEPT ![r] = Append(@, m)]
  <2>1. c \in Cases /\ Message("Results", {c}) \in Messages
    BY CasesOfRun DEF Message, Messages, Kinds
  <2> QED
    BY <1>1, <1>3, <2>1 DEF Feed!SayResult, Feed!FeedType, Put
<1>4. ASSUME NEW f \in Feed!Finals, Feed!SayFinal(r, f), Put(r, Message(f, {}))
      PROVE  Feed!FeedType' /\ \E m \in Messages : queue' = [queue EXCEPT ![r] = Append(@, m)]
  <2>1. Message(f, {}) \in Messages
    BY DEF Message, Messages, Kinds
  <2> QED
    BY <1>1, <1>4, <2>1 DEF Feed!SayFinal, Feed!FeedType, Put
<1> QED
  BY <1>2, <1>3, <1>4 DEF Report

(* What a step of a sender does to its run, whichever step it is. *)
LEMMA TakeType ==
    ASSUME TypeOK, NEW r \in Runs, queue[r] # <<>>
    PROVE  /\ Head(queue[r]) \in Messages /\ Head(queue[r]).cases \subseteq Cases
           /\ Tail(queue[r]) \in Seq(Messages)
<1>1. queue[r] \in Seq(Messages)
  BY DEF TypeOK
<1>2. Head(queue[r]) \in Messages /\ Tail(queue[r]) \in Seq(Messages)
  BY <1>1
<1> QED
  BY <1>2 DEF Messages

(* Telling a client one more message keeps the type of what it was told.     *)
LEMMA TellType ==
    ASSUME TypeOK, NEW r \in Runs, NEW m \in Messages, Tell(r, m)
    PROVE  told' \in [Runs -> Seq(Messages)]
<1>1. Append(told[r], m) \in Seq(Messages)
  BY DEF TypeOK
<1> QED
  BY <1>1 DEF TypeOK, Tell

(* Steps of a sender that leave its connection alone. *)
LEMMA HandleType ==
    ASSUME TypeInv, NEW r \in Runs, Handle(r)
    PROVE  TypeInv'
<1>1. /\ TypeOK /\ queue[r] # <<>> /\ wait[r] = "have"
      /\ queue' = [queue EXCEPT ![r] = Tail(queue[r])]
      /\ UNCHANGED <<feed, connections, over, held, lapsed, fate>>
  BY DEF TypeInv, Handle, Take
<1>2. /\ Head(queue[r]) \in Messages /\ Head(queue[r]).cases \subseteq Cases
      /\ Tail(queue[r]) \in Seq(Messages)
  BY <1>1, TakeType
<1>3. results' \in [Runs -> SUBSET Cases] /\ send' \in [Runs -> Messages]
      /\ told' \in [Runs -> Seq(Messages)]
  <2>1. CASE Gather(r)
    BY <1>1, <1>2, <2>1 DEF Gather, TypeOK
  <2>2. CASE PassOn(r)
    BY <1>1, <1>2, <2>2, TellType DEF PassOn, TypeOK
  <2>3. CASE Prepare(r)
    <3>1. reported[r] \subseteq Cases
      BY <1>1 DEF TypeOK, Feed!FeedType
    <3>2. \A k \in Feed!Finals :
            Message(k, IF k = "Complete" THEN reported[r] ELSE {}) \in Messages
      BY <3>1 DEF Message, Messages, Kinds
    <3> QED
      BY <1>1, <2>3, <3>2 DEF Prepare, TypeOK
  <2> QED
    BY <2>1, <2>2, <2>3 DEF Handle
<1>4. TypeOK'
  BY <1>1, <1>2, <1>3
  DEF TypeOK, feed, Feed!FeedType, connections, table, Conn!ConnectionsType
<1>5. WaitersInv'
  BY <1>1 DEF TypeInv, WaitersInv, RightUser, Conn!RightUser, connections
<1>6. ASSUME NEW q \in Runs PROVE WaitOf(q)'
  <2>1. WaitOf(q) /\ (q # r => queue'[q] = queue[q])
    BY <1>1 DEF TypeInv, TypeOK
  <2> QED
    BY <1>1, <2>1 DEF WaitOf, connections
<1> QED
  BY <1>4, <1>5, <1>6 DEF TypeInv

(* Every step keeps every variable in its type, and the waiters right.       *)
LEMMA TypeStep == TypeInv /\ [Next]_vars => TypeInv'
<1> SUFFICES ASSUME TypeInv, [Next]_vars PROVE TypeInv'
  OBVIOUS
<1> USE DEF feed, Feed!FeedType, sender
<1>0. TypeOK /\ WaitersInv /\ Conn!ConnectionsType /\ \A q \in Runs : WaitOf(q)
  BY DEF TypeInv, TypeOK
<1>1. ASSUME NEW r \in Runs, Report(r) PROVE TypeInv'
  <2>1. PICK m \in Messages : queue' = [queue EXCEPT ![r] = Append(@, m)]
    BY <1>1, ReportType
  <2>2. Feed!FeedType' /\ UNCHANGED <<connections, sender>>
    BY <1>1, ReportType
  <2>3. queue' \in [Runs -> Seq(Messages)] /\ Append(queue[r], m) # <<>>
    <3>1. queue[r] \in Seq(Messages)
      BY <1>0 DEF TypeOK
    <3>2. Append(queue[r], m) \in Seq(Messages) /\ Append(queue[r], m) # <<>>
      BY <3>1, AppendProperties
    <3> QED
      BY <1>0, <2>1, <3>2 DEF TypeOK
  <2>4. TypeOK'
    BY <1>0, <2>2, <2>3 DEF TypeOK, connections, table, Conn!ConnectionsType
  <2>5. WaitersInv'
    BY <1>0, <2>2 DEF WaitersInv, RightUser, Conn!RightUser, connections
  <2>6. \A q \in Runs : WaitOf(q)'
    BY <1>0, <2>1, <2>2, <2>3 DEF WaitOf, connections, TypeOK
  <2> QED
    BY <2>4, <2>5, <2>6 DEF TypeInv
<1>2. ASSUME NEW r \in Runs, Receive(r) \/ RegisterWait(r) \/ Connected(r) PROVE TypeInv'
  <2>1. /\ \/ Conn!CheckActive(r) /\ queue[r] # <<>> /\ r \notin over
           \/ Conn!Register(r)
           \/ Conn!Wake(r)
        /\ UNCHANGED <<feed, queue, sender>>
    BY <1>2 DEF Receive, RegisterWait, Connected
  <2>2. /\ Conn!ConnectionsType' /\ WaitersInv'
        /\ \A q \in Runs \ {r} : wait'[q] = wait[q]
    BY <1>0, <2>1, WaiterKeepsConnections
  <2>3. TypeOK'
    BY <1>0, <2>1, <2>2 DEF TypeOK
  <2>4. WaitOf(r)'
    <3>1. queue[r] # <<>> /\ r \notin over
      BY <1>0, <2>1 DEF WaitOf, Conn!Register, Conn!Wake
    <3> QED
      BY <2>1, <3>1 DEF WaitOf
  <2>5. \A q \in Runs \ {r} : WaitOf(q)'
    BY <1>0, <2>1, <2>2 DEF WaitOf
  <2> QED
    BY <2>2, <2>3, <2>4, <2>5 DEF TypeInv
<1>3. ASSUME NEW r \in Runs, Drained(r) PROVE TypeInv'
  BY <1>0, <1>3 DEF Drained, Return, TypeInv, TypeOK, connections, table,
        Conn!ConnectionsType, WaitersInv, RightUser, Conn!RightUser, WaitOf
<1>4. ASSUME NEW r \in Runs, GiveUp(r) \/ QueryFails(r) PROVE TypeInv'
  <2>1. /\ Conn!TimeOut(r) \/ Conn!Release(r)
        /\ queue' = [queue EXCEPT ![r] = Tail(queue[r])] /\ UNCHANGED <<feed, results, send, told, held>>
        /\ over \subseteq over' /\ over' \subseteq over \union {r}
    BY <1>4 DEF GiveUp, QueryFails, Take, Return
  <2>2. queue[r] # <<>>
    BY <1>0, <1>4 DEF GiveUp, QueryFails, Conn!TimeOut, WaitOf
  <2>3. Head(queue[r]).cases \subseteq Cases /\ Tail(queue[r]) \in Seq(Messages)
    BY <1>0, <2>2, TakeType
  <2>4. lapsed' \in [Runs -> SUBSET Cases] /\ fate' \in [Runs -> Fates]
    <3>1. lapsed \in [Runs -> SUBSET Cases] /\ fate \in [Runs -> Fates]
      BY <1>0 DEF TypeOK
    <3>2. CASE GiveUp(r)
      BY <2>3, <3>1, <3>2 DEF GiveUp, Befalls, Fates
    <3>3. CASE QueryFails(r)
      BY <3>1, <3>3 DEF QueryFails, Befalls, Fates
    <3> QED
      BY <1>4, <3>2, <3>3
  <2>5. /\ Conn!ConnectionsType' /\ WaitersInv'
        /\ \A q \in Runs \ {r} : wait'[q] = wait[q]
    BY <1>0, <2>1, WaiterKeepsConnections
  <2>6. wait'[r] = "idle"
    BY <1>0, <2>1 DEF Conn!TimeOut, Conn!Release, Conn!ConnectionsType
  <2>7. TypeOK'
    BY <1>0, <2>1, <2>3, <2>4, <2>5 DEF TypeOK
  <2>8. ASSUME NEW q \in Runs PROVE WaitOf(q)'
    <3>1. WaitOf(q) /\ (q # r => queue'[q] = queue[q])
      BY <1>0, <2>1 DEF TypeOK
    <3> QED
      BY <2>1, <2>5, <2>6, <3>1 DEF WaitOf
  <2> QED
    BY <2>5, <2>7, <2>8 DEF TypeInv
<1>5. ASSUME NEW r \in Runs, Handle(r) PROVE TypeInv'
  BY <1>5, HandleType
<1>6. ASSUME NEW r \in Runs, FinishUp(r) \/ Flush(r) PROVE TypeInv'
  <2>1. /\ Conn!Release(r)
        /\ UNCHANGED <<feed, queue, send, lapsed>>
        /\ over \subseteq over' /\ over' \subseteq over \union {r}
    BY <1>6 DEF FinishUp, Flush, Return
  <2>2. /\ Conn!ConnectionsType' /\ WaitersInv'
        /\ \A q \in Runs \ {r} : wait'[q] = wait[q]
    BY <1>0, <2>1, WaiterKeepsConnections
  <2>3. wait'[r] = "idle"
    BY <1>0, <2>1 DEF Conn!Release, Conn!ConnectionsType
  <2>4. send[r] \in Messages /\ Message("Results", results[r]) \in Messages
    BY <1>0 DEF TypeOK, Message, Messages, Kinds
  <2>5. /\ told' \in [Runs -> Seq(Messages)]
        /\ results' \in [Runs -> SUBSET Cases] /\ held' \in [Runs -> SUBSET Cases]
        /\ fate' \in [Runs -> Fates]
    <3>1. CASE FinishUp(r)
      BY <1>0, <2>4, <3>1, TellType DEF FinishUp, Befalls, Fates, TypeOK
    <3>2. CASE Flush(r) /\ results[r] = {}
      BY <1>0, <3>2 DEF Flush, TypeOK
    <3>3. CASE Flush(r) /\ results[r] # {}
      BY <1>0, <2>4, <3>3, TellType DEF Flush, ClearIfSent, TypeOK
    <3> QED
      BY <1>6, <3>1, <3>2, <3>3
  <2>6. TypeOK'
    BY <1>0, <2>1, <2>2, <2>5 DEF TypeOK
  <2>7. \A q \in Runs : WaitOf(q)'
    BY <1>0, <2>1, <2>2, <2>3 DEF WaitOf
  <2> QED
    BY <2>2, <2>6, <2>7 DEF TypeInv
<1>7. ASSUME NEW s \in Sockets, Socket(s) PROVE TypeInv'
  <2>1. Conn!Socket(s) /\ UNCHANGED <<feed, queue, sender>>
    BY <1>7 DEF Socket
  <2>2. Conn!ConnectionsType' /\ WaitersInv'
    BY <1>0, <2>1, SocketKeepsConnections
  <2>3. TypeOK'
    BY <1>0, <2>1, <2>2 DEF TypeOK
  <2>4. \A q \in Runs : wait'[q] # wait[q] => wait[q] = "waiting" /\ wait'[q] = "given"
    <3>1. CASE Conn!Greet(s)
      BY <3>1 DEF Conn!Greet, Conn!Woken
    <3>2. CASE UNCHANGED wait
      BY <3>2
    <3> QED
      BY <2>1, <3>1, <3>2 DEF Conn!Socket, Conn!Insert, Conn!Write, Conn!Written,
                              Conn!Leave, Conn!Close, Conn!Deferred, Conn!waiters
  <2>5. \A q \in Runs : WaitOf(q)'
    BY <1>0, <2>1, <2>4 DEF WaitOf
  <2> QED
    BY <2>2, <2>3, <2>5 DEF TypeInv
<1>8. CASE Broadcast
  BY <1>0, <1>8 DEF Broadcast, Conn!Broadcast, Conn!waiters, TypeInv, TypeOK,
        Conn!ConnectionsType, WaitersInv, RightUser, Conn!RightUser, WaitOf
<1>9. CASE UNCHANGED vars
  BY <1>0, <1>9 DEF vars, connections, table, TypeInv, TypeOK,
        Conn!ConnectionsType, WaitersInv, RightUser, Conn!RightUser, WaitOf
<1> QED
  BY <1>1, <1>2, <1>3, <1>4, <1>5, <1>6, <1>7, <1>8, <1>9 DEF Next, Sender

(* The types, the waiters and what they wait with hold together. *)
LEMMA TypeInvariant == Spec => []TypeInv
BY TypeInit, TypeStep, PTL DEF Spec

(* Every variable of the senders and of the websockets keeps its type.       *)
THEOREM TypeCorrect == Spec => []TypeOK
<1>1. TypeInv => TypeOK
  BY DEF TypeInv
<1> QED
  BY <1>1, TypeInvariant, PTL

(* Nobody is handed the connection of another user, or of a leaderboard, in  *)
(* whatever order users connect and tasks look, register and time out.       *)
THEOREM RightUserOnly == Spec => []RightUser
<1>1. TypeInv => RightUser
  BY DEF TypeInv, WaitersInv
<1> QED
  BY <1>1, TypeInvariant, PTL

-----------------------------------------------------------------------------
(* The table of websockets *)

(* A step of a websocket keeps one socket per key, in use or ended, and      *)
(* those that are in use and not listed have been replaced.                  *)
LEMMA SocketKeepsTable ==
    ASSUME Conn!ConnectionsType, TableIsCurrent, NEW s \in Sockets, Conn!Socket(s)
    PROVE  TableIsCurrent'
<1> USE DEF TableIsCurrent, Conn!TableIsCurrent, Conn!ConnectionsType, Conn!SockStates,
            Conn!SameKey, Conn!Serves
<1>1. CASE Conn!Greet(s)
  BY <1>1 DEF Conn!Greet
<1>2. CASE Conn!Insert(s)
  <2>1. /\ sock[s] = "greeting" /\ sock' = [sock EXCEPT ![s] = "writing"]
        /\ active' = (active \ Conn!SameKey(s)) \union {s}
    BY <1>2 DEF Conn!Insert
  <2>2. ASSUME NEW t \in active'
        PROVE  /\ sock'[t] \in {"writing", "open", "ended"}
               /\ \A v \in active' : v \in Conn!SameKey(t) => v = t
    BY <2>1, <2>2
  <2>3. ASSUME NEW t \in Sockets \ active', sock'[t] \in {"writing", "open"}
        PROVE  \E v \in Conn!SameKey(t) \ {t} :
                   sock'[v] \in {"writing", "open", "ended", "gone"}
    <3>1. t # s /\ sock[t] \in {"writing", "open"}
      BY <2>1, <2>3
    <3>2. CASE t \in active
      <4>1. s \in Conn!SameKey(t) \ {t} /\ sock'[s] = "writing"
        BY <2>1, <2>3, <3>1, <3>2
      <4> QED
        BY <4>1
    <3>3. CASE t \notin active
      <4>1. PICK v \in Conn!SameKey(t) \ {t} :
               sock[v] \in {"writing", "open", "ended", "gone"}
        BY <3>1, <3>3
      <4> QED
        BY <2>1, <4>1
    <3> QED
      BY <3>2, <3>3
  <2> QED
    BY <2>2, <2>3
<1>3. CASE Conn!Write(s) \/ Conn!Written(s) \/ Conn!Leave(s) \/ Conn!Close(s)
  BY <1>3 DEF Conn!Write, Conn!Written, Conn!Leave, Conn!Close
<1>4. CASE Conn!Deferred(s)
  <2>1. /\ sock[s] = "ended" /\ sock' = [sock EXCEPT ![s] = "gone"]
        /\ active' = active \ Conn!SameKey(s)
    BY <1>4 DEF Conn!Deferred, Conn!RemoveConnection
  <2>2. ASSUME NEW t \in active'
        PROVE  /\ sock'[t] \in {"writing", "open", "ended"}
               /\ \A v \in active' : v \in Conn!SameKey(t) => v = t
    BY <2>1, <2>2
  <2>3. ASSUME NEW t \in Sockets \ active', sock'[t] \in {"writing", "open"}
        PROVE  \E v \in Conn!SameKey(t) \ {t} :
                   sock'[v] \in {"writing", "open", "ended", "gone"}
    <3>1. t # s /\ sock[t] \in {"writing", "open"}
      BY <2>1, <2>3
    <3>2. CASE t \in active
      <4>1. s \in Conn!SameKey(t) \ {t} /\ sock'[s] = "gone"
        BY <2>1, <2>3, <3>1, <3>2
      <4> QED
        BY <4>1
    <3>3. CASE t \notin active
      <4>1. PICK v \in Conn!SameKey(t) \ {t} :
               sock[v] \in {"writing", "open", "ended", "gone"}
        BY <3>1, <3>3
      <4> QED
        BY <2>1, <4>1
    <3> QED
      BY <3>2, <3>3
  <2> QED
    BY <2>2, <2>3
<1> QED
  BY <1>1, <1>2, <1>3, <1>4 DEF Conn!Socket

(* Nothing but a websocket or a broadcast touches the table.                 *)
LEMMA OthersKeepTable ==
    ASSUME [Next]_vars, \A s \in Sockets : ~Socket(s), ~Broadcast
    PROVE  UNCHANGED table
<1>1. ASSUME NEW r \in Runs, Report(r) PROVE UNCHANGED table
  BY <1>1 DEF Report, connections
<1>2. ASSUME NEW r \in Runs, Sender(r) PROVE UNCHANGED table
  BY <1>2 DEF Sender, Receive, Drained, RegisterWait, Connected, GiveUp, Handle, QueryFails,
       FinishUp, Flush, Conn!CheckActive, Conn!Register, Conn!Wake, Conn!TimeOut,
       Conn!Release, Conn!table, table, connections
<1>3. CASE UNCHANGED vars
  BY <1>3 DEF vars, connections
<1> QED
  BY <1>1, <1>2, <1>3 DEF Next

(* The table of websockets is current, for any number of sockets that        *)
(* connect, are replaced, leave and are removed in any order (websocket.rs). *)
THEOREM TableStaysCurrent == Spec => []TableIsCurrent
<1>1. Init => TableIsCurrent
  BY DEF Init, Conn!Init, TableIsCurrent, Conn!TableIsCurrent, Conn!Serves
<1>2. TypeInv /\ TableIsCurrent /\ [Next]_vars => TableIsCurrent'
  <2> SUFFICES ASSUME TypeInv, TableIsCurrent, [Next]_vars PROVE TableIsCurrent'
    OBVIOUS
  <2>1. Conn!ConnectionsType
    BY DEF TypeInv, TypeOK
  <2>2. ASSUME NEW s \in Sockets, Socket(s) PROVE TableIsCurrent'
    BY <2>1, <2>2, SocketKeepsTable DEF Socket
  <2>3. CASE Broadcast
    BY <2>1, <2>3 DEF Broadcast, Conn!Broadcast, Conn!Listens, Conn!Serves, Conn!ConnectionsType,
                      TableIsCurrent, Conn!TableIsCurrent
  <2>4. CASE UNCHANGED table
    BY <2>4 DEF table, TableIsCurrent, Conn!TableIsCurrent, Conn!Serves
  <2> QED
    BY <2>2, <2>3, <2>4, OthersKeepTable
<1> QED
  BY <1>1, <1>2, TypeInvariant, PTL DEF Spec

-----------------------------------------------------------------------------
(* What is on a channel and what has been told *)

(* One more message on a channel brings its cases with it. *)
LEMMA QueuedAfterAppend ==
    ASSUME NEW r \in Runs, NEW m \in Messages, queue[r] \in Seq(Messages),
           queue'[r] = Append(queue[r], m)
    PROVE  QueuedCases(r)' = QueuedCases(r) \union m.cases
<1>1. /\ Len(queue'[r]) = Len(queue[r]) + 1 /\ Len(queue[r]) \in Nat
      /\ \A i \in 1 .. Len(queue[r]) : queue'[r][i] = queue[r][i]
      /\ queue'[r][Len(queue[r]) + 1] = m
  BY AppendProperties, LenProperties
<1>2. ASSUME NEW c \in QueuedCases(r)' PROVE c \in QueuedCases(r) \union m.cases
  <2>1. PICK i \in 1 .. Len(queue'[r]) : c \in queue'[r][i].cases
    BY <1>2 DEF QueuedCases
  <2>2. CASE i \in 1 .. Len(queue[r])
    BY <1>1, <2>1, <2>2 DEF QueuedCases
  <2>3. CASE i = Len(queue[r]) + 1
    BY <1>1, <2>1, <2>3
  <2> QED
    BY <1>1, <2>2, <2>3
<1>3. ASSUME NEW c \in QueuedCases(r) PROVE c \in QueuedCases(r)'
  <2>1. PICK i \in 1 .. Len(queue[r]) : c \in queue[r][i].cases
    BY <1>3 DEF QueuedCases
  <2>2. i \in 1 .. Len(queue'[r]) /\ queue'[r][i] = queue[r][i]
    BY <1>1
  <2> QED
    BY <2>1, <2>2 DEF QueuedCases
<1>4. ASSUME NEW c \in m.cases PROVE c \in QueuedCases(r)'
  <2>1. Len(queue[r]) + 1 \in 1 .. Len(queue'[r])
    BY <1>1
  <2> QED
    BY <1>1, <1>4, <2>1 DEF QueuedCases
<1> QED
  BY <1>2, <1>3, <1>4

(* Taking the first message leaves those of the others. *)
LEMMA QueuedAfterTake ==
    ASSUME NEW r \in Runs, queue[r] \in Seq(Messages), queue[r] # <<>>,
           queue'[r] = Tail(queue[r])
    PROVE  QueuedCases(r) = Head(queue[r]).cases \union QueuedCases(r)'
<1>1. /\ Len(queue'[r]) = Len(queue[r]) - 1 /\ Len(queue[r]) \in Nat \ {0}
      /\ \A i \in 1 .. Len(queue'[r]) : queue'[r][i] = queue[r][i + 1]
      /\ Head(queue[r]) = queue[r][1]
  BY HeadTailProperties, EmptySeq
<1>2. ASSUME NEW c \in QueuedCases(r) PROVE c \in Head(queue[r]).cases \union QueuedCases(r)'
  <2>1. PICK i \in 1 .. Len(queue[r]) : c \in queue[r][i].cases
    BY <1>2 DEF QueuedCases
  <2>2. CASE i = 1
    BY <1>1, <2>1, <2>2
  <2>3. CASE i # 1
    <3>1. i - 1 \in 1 .. Len(queue'[r]) /\ queue'[r][i - 1] = queue[r][i]
      BY <1>1, <2>3
    <3> QED
      BY <2>1, <3>1 DEF QueuedCases
  <2> QED
    BY <2>2, <2>3
<1>3. ASSUME NEW c \in QueuedCases(r)' PROVE c \in QueuedCases(r)
  <2>1. PICK i \in 1 .. Len(queue'[r]) : c \in queue'[r][i].cases
    BY <1>3 DEF QueuedCases
  <2>2. i + 1 \in 1 .. Len(queue[r]) /\ queue'[r][i] = queue[r][i + 1]
    BY <1>1
  <2> QED
    BY <2>1, <2>2 DEF QueuedCases
<1>4. ASSUME NEW c \in Head(queue[r]).cases PROVE c \in QueuedCases(r)
  <2>1. 1 \in 1 .. Len(queue[r]) /\ c \in queue[r][1].cases
    BY <1>1, <1>4
  <2> QED
    BY <2>1 DEF QueuedCases
<1> QED
  BY <1>2, <1>3, <1>4

(* Telling one more message tells its cases, if it carries results.          *)
LEMMA ToldAfterAppend ==
    ASSUME NEW r \in Runs, NEW m \in Messages, told[r] \in Seq(Messages),
           told'[r] = Append(told[r], m)
    PROVE  ToldCases(r)' = ToldCases(r) \union IF m.kind = "Results" THEN m.cases ELSE {}
<1>1. /\ Len(told'[r]) = Len(told[r]) + 1 /\ Len(told[r]) \in Nat
      /\ \A i \in 1 .. Len(told[r]) : told'[r][i] = told[r][i]
      /\ told'[r][Len(told[r]) + 1] = m
  BY AppendProperties, LenProperties
<1>2. ASSUME NEW c \in ToldCases(r)'
      PROVE  c \in ToldCases(r) \union IF m.kind = "Results" THEN m.cases ELSE {}
  <2>1. PICK i \in 1 .. Len(told'[r]) : told'[r][i].kind = "Results" /\ c \in told'[r][i].cases
    BY <1>2 DEF ToldCases
  <2>2. CASE i \in 1 .. Len(told[r])
    BY <1>1, <2>1, <2>2 DEF ToldCases
  <2>3. CASE i = Len(told[r]) + 1
    BY <1>1, <2>1, <2>3
  <2> QED
    BY <1>1, <2>2, <2>3
<1>3. ASSUME NEW c \in ToldCases(r) PROVE c \in ToldCases(r)'
  <2>1. PICK i \in 1 .. Len(told[r]) : told[r][i].kind = "Results" /\ c \in told[r][i].cases
    BY <1>3 DEF ToldCases
  <2>2. i \in 1 .. Len(told'[r]) /\ told'[r][i] = told[r][i]
    BY <1>1
  <2> QED
    BY <2>1, <2>2 DEF ToldCases
<1>4. ASSUME m.kind = "Results", NEW c \in m.cases PROVE c \in ToldCases(r)'
  <2>1. Len(told[r]) + 1 \in 1 .. Len(told'[r])
    BY <1>1
  <2> QED
    BY <1>1, <1>4, <2>1 DEF ToldCases
<1> QED
  BY <1>2, <1>3, <1>4

-----------------------------------------------------------------------------
(* The invariant of one run *)

(* A step that leaves a run alone, but for its return, keeps what holds of it. *)
LEMMA Untouched ==
    ASSUME NEW r \in Runs, RunInv(r), r \in over => r \in over',
           compiled'[r] = compiled[r], reported'[r] = reported[r], final'[r] = final[r],
           queue'[r] = queue[r], results'[r] = results[r], send'[r] = send[r],
           told'[r] = told[r], lapsed'[r] = lapsed[r]
    PROVE  RunInv(r)'
<1>1. ToldCases(r)' = ToldCases(r) /\ QueuedCases(r)' = QueuedCases(r)
  BY DEF ToldCases, QueuedCases
<1>2. ChannelOf(r)'
  BY DEF RunInv, ChannelOf
<1>3. ClosingOf(r)'
  BY DEF RunInv, ClosingOf, TrueClosing
<1>4. ResultsOf(r)'
  BY <1>1 DEF RunInv, ResultsOf
<1> QED
  BY <1>2, <1>3, <1>4 DEF RunInv

(* The messages that remain on a channel when its first one is taken. *)
LEMMA TakeKeepsChannel ==
    ASSUME NEW r \in Runs, ChannelOf(r), queue[r] \in Seq(Messages), queue[r] # <<>>,
           queue'[r] = Tail(queue[r]), UNCHANGED feed
    PROVE  ChannelOf(r)'
<1>1. /\ Len(queue'[r]) = Len(queue[r]) - 1 /\ Len(queue[r]) \in Nat \ {0}
      /\ \A i \in 1 .. Len(queue'[r]) : queue'[r][i] = queue[r][i + 1]
  BY HeadTailProperties, EmptySeq
<1>2. \A i \in 1 .. Len(queue'[r]) : i + 1 \in 1 .. Len(queue[r]) /\ i + 1 # 1
  BY <1>1
<1>3. ASSUME NEW i \in 1 .. Len(queue'[r])
      PROVE  /\ queue'[r][i].kind # "Compiled"
             /\ queue'[r][i].kind \in Feed!Finals =>
                    i = Len(queue'[r]) /\ queue'[r][i].kind = final'[r]
             /\ queue'[r][i].kind # "Results" => queue'[r][i].cases = {}
  BY <1>1, <1>2 DEF ChannelOf, feed
<1>4. ASSUME NEW i \in 1 .. Len(queue'[r]), NEW j \in 1 .. Len(queue'[r]), i # j
      PROVE  queue'[r][i].cases \intersect queue'[r][j].cases = {}
  <2>1. i + 1 # j + 1
    BY <1>1, <1>4
  <2> QED
    BY <1>1, <1>2, <2>1 DEF ChannelOf
<1>5. compiled'[r] \/ reported'[r] # {} \/ final'[r] # "none"
  BY DEF ChannelOf, feed
<1>6. /\ final'[r] = "Complete" => reported'[r] = CasesOf(r)
      /\ final'[r] = "CompileFailed" => reported'[r] = {}
  BY DEF ChannelOf, feed
<1> QED
  BY <1>3, <1>4, <1>5, <1>6 DEF ChannelOf

(* Telling a client one more message keeps the order and the truth of what   *)
(* it was told, if the sender has not returned: Compiled only as the first,  *)
(* and a closing message only when the sender returns with it.               *)
LEMMA TellKeepsClosing ==
    ASSUME NEW r \in Runs, NEW m \in Messages, ClosingOf(r), told[r] \in Seq(Messages),
           r \notin over, told'[r] = Append(told[r], m), final'[r] = final[r],
           send'[r] = send[r],
           m.kind = "Compiled" => told[r] = <<>>,
           m.kind \in Feed!Finals => TrueClosing(r, m) /\ r \in over'
    PROVE  ClosingOf(r)'
<1>1. /\ Len(told'[r]) = Len(told[r]) + 1 /\ Len(told[r]) \in Nat
      /\ \A i \in 1 .. Len(told[r]) : told'[r][i] = told[r][i]
      /\ told'[r][Len(told[r]) + 1] = m
  BY AppendProperties, LenProperties
<1>2. ASSUME NEW i \in 1 .. Len(told'[r])
      PROVE  /\ told'[r][i].kind = "Compiled" => i = 1
             /\ told'[r][i].kind \in Feed!Finals =>
                 /\ i = Len(told'[r]) /\ r \in over'
                 /\ TrueClosing(r, told'[r][i])
  <2>1. CASE i \in 1 .. Len(told[r])
    <3>1. told'[r][i] = told[r][i] /\ told[r][i].kind \notin Feed!Finals
      BY <1>1, <2>1 DEF ClosingOf
    <3> QED
      BY <2>1, <3>1 DEF ClosingOf
  <2>2. CASE i = Len(told[r]) + 1
    <3>1. told[r] = <<>> => i = 1
      BY <2>2, EmptySeq
    <3> QED
      BY <1>1, <2>2, <3>1
  <2> QED
    BY <1>1, <2>1, <2>2
<1> QED
  BY <1>2 DEF ClosingOf, TrueClosing

(* No case is told twice if those told now have not been told before.        *)
LEMMA TellKeepsDisjoint ==
    ASSUME NEW r \in Runs, NEW m \in Messages, ResultsOf(r), told[r] \in Seq(Messages),
           told'[r] = Append(told[r], m),
           m.kind = "Results" => m.cases \intersect ToldCases(r) = {}
    PROVE  \A i, j \in 1 .. Len(told'[r]) :
             /\ i # j /\ told'[r][i].kind = "Results" /\ told'[r][j].kind = "Results"
             => told'[r][i].cases \intersect told'[r][j].cases = {}
<1>1. /\ Len(told'[r]) = Len(told[r]) + 1 /\ Len(told[r]) \in Nat
      /\ \A i \in 1 .. Len(told[r]) : told'[r][i] = told[r][i]
      /\ told'[r][Len(told[r]) + 1] = m
  BY AppendProperties, LenProperties
<1>2. ASSUME NEW i \in 1 .. Len(told[r]), told[r][i].kind = "Results"
      PROVE  told[r][i].cases \subseteq ToldCases(r)
  BY <1>2 DEF ToldCases
<1>3. \A i, j \in 1 .. Len(told[r]) :
        /\ i # j /\ told[r][i].kind = "Results" /\ told[r][j].kind = "Results"
        => told[r][i].cases \intersect told[r][j].cases = {}
  BY DEF ResultsOf
<1> SUFFICES ASSUME NEW i \in 1 .. Len(told'[r]), NEW j \in 1 .. Len(told'[r]), i # j,
                    told'[r][i].kind = "Results", told'[r][j].kind = "Results"
             PROVE  told'[r][i].cases \intersect told'[r][j].cases = {}
  OBVIOUS
<1>4. CASE i \in 1 .. Len(told[r]) /\ j \in 1 .. Len(told[r])
  BY <1>1, <1>3, <1>4
<1>5. CASE i \in 1 .. Len(told[r]) /\ j = Len(told[r]) + 1
  BY <1>1, <1>2, <1>5
<1>6. CASE i = Len(told[r]) + 1 /\ j \in 1 .. Len(told[r])
  BY <1>1, <1>2, <1>6
<1> QED
  BY <1>1, <1>4, <1>5, <1>6

-----------------------------------------------------------------------------
(* The steps *)

(* The run reports: a message comes to the end of its channel. *)
LEMMA ReportKeeps ==
    ASSUME IInv, NEW r \in Runs, Report(r)
    PROVE  RunInv(r)'
<1>1. /\ TypeOK /\ RunInv(r) /\ UNCHANGED <<connections, sender>>
      /\ queue \in [Runs -> Seq(Messages)] /\ queue[r] \in Seq(Messages)
      /\ Len(queue[r]) \in Nat
      /\ compiled \in [Runs -> BOOLEAN] /\ reported \in [Runs -> SUBSET Cases]
      /\ final \in [Runs -> Feed!Finals \union {"none"}]
  BY LenProperties DEF IInv, TypeInv, TypeOK, Feed!FeedType, Report
<1>2. /\ final[r] = "none"
      /\ \A i \in 1 .. Len(queue[r]) : queue[r][i].kind \notin Feed!Finals
      /\ send[r] = NoMessage
      /\ \A i \in 1 .. Len(told[r]) : told[r][i].kind \notin Feed!Finals
  <2>1. final[r] = "none" /\ "none" \notin Feed!Finals
    BY DEF Report, Feed!SayCompiled, Feed!SayResult, Feed!SayFinal, Feed!Finals
  <2> QED
    BY <1>1, <2>1 DEF RunInv, ChannelOf, ClosingOf, TrueClosing
<1>3. ClosingOf(r)'
  BY <1>1, <1>2 DEF RunInv, ClosingOf, sender
<1>4. ToldCases(r)' = ToldCases(r)
  BY <1>1 DEF ToldCases, sender
<1>5. ASSUME Feed!SayCompiled(r), Put(r, Message("Compiled", {}))
      PROVE  ChannelOf(r)' /\ ResultsOf(r)'
  <2> DEFINE m == Message("Compiled", {})
  <2>1. m \in Messages /\ m.kind = "Compiled" /\ m.cases = {}
    BY DEF Message, Messages, Kinds
  <2>2. queue'[r] = Append(queue[r], m)
    BY <1>1, <1>5 DEF Put
  <2>3. /\ compiled'[r] /\ reported' = reported /\ final' = final
        /\ queue[r] = <<>> /\ told[r] = <<>>
    BY <1>1, <1>2, <1>5 DEF Feed!SayCompiled, Feed!Fresh, RunInv, ChannelOf
  <2> HIDE DEF m
  <2>4. Len(queue'[r]) = 1 /\ queue'[r][1] = m
    BY <2>1, <2>2, <2>3, AppendProperties, EmptySeq
  <2>5. told'[r] = <<>>
    BY <1>1, <2>3 DEF sender
  <2>6. ChannelOf(r)'
    BY <1>2, <2>1, <2>3, <2>4, <2>5 DEF ChannelOf, Feed!Finals
  <2>7. QueuedCases(r)' = QueuedCases(r) \union m.cases
    BY <1>1, <2>1, <2>2, QueuedAfterAppend
  <2>8. ResultsOf(r)'
    BY <1>1, <1>4, <2>1, <2>3, <2>7 DEF RunInv, ResultsOf, sender
  <2> QED
    BY <2>6, <2>8
<1>6. ASSUME NEW c \in CasesOf(r), Feed!SayResult(r, c), Put(r, Message("Results", {c}))
      PROVE  ChannelOf(r)' /\ ResultsOf(r)'
  <2> DEFINE m == Message("Results", {c})
  <2>1. m \in Messages /\ m.kind = "Results" /\ m.cases = {c}
    BY CasesOfRun DEF Message, Messages, Kinds
  <2>2. queue'[r] = Append(queue[r], m)
    BY <1>1, <1>6 DEF Put
  <2>3. /\ c \notin reported[r] /\ reported'[r] = reported[r] \union {c}
        /\ compiled' = compiled /\ final' = final
    BY <1>1, <1>6 DEF Feed!SayResult
  <2> HIDE DEF m
  <2>4. /\ Len(queue'[r]) = Len(queue[r]) + 1
        /\ \A i \in 1 .. Len(queue[r]) : queue'[r][i] = queue[r][i]
        /\ queue'[r][Len(queue[r]) + 1] = m
    BY <1>1, <2>1, <2>2, AppendProperties
  <2>5. \A i \in 1 .. Len(queue[r]) : c \notin queue[r][i].cases
    BY <1>1, <2>3 DEF RunInv, ResultsOf, QueuedCases
  <2>6. told' = told
    BY <1>1 DEF sender
  <2>7. ASSUME NEW i \in 1 .. Len(queue'[r])
        PROVE  /\ queue'[r][i].kind = "Compiled" => i = 1 /\ told'[r] = <<>>
               /\ queue'[r][i].kind \notin Feed!Finals
               /\ queue'[r][i].kind # "Results" => queue'[r][i].cases = {}
    <3>1. CASE i \in 1 .. Len(queue[r])
      <4>1. queue'[r][i] = queue[r][i] /\ told'[r] = told[r]
        BY <2>4, <2>6, <3>1
      <4>2. /\ queue[r][i].kind = "Compiled" => i = 1 /\ told[r] = <<>>
            /\ queue[r][i].kind # "Results" => queue[r][i].cases = {}
        BY <1>1, <3>1 DEF RunInv, ChannelOf
      <4> QED
        BY <1>2, <3>1, <4>1, <4>2
    <3>2. CASE i = Len(queue[r]) + 1
      BY <2>1, <2>4, <3>2 DEF Feed!Finals
    <3> QED
      BY <1>1, <2>4, <3>1, <3>2
  <2>8. ASSUME NEW i \in 1 .. Len(queue'[r]), NEW j \in 1 .. Len(queue'[r]), i # j
        PROVE  queue'[r][i].cases \intersect queue'[r][j].cases = {}
    <3>1. CASE i \in 1 .. Len(queue[r]) /\ j \in 1 .. Len(queue[r])
      BY <1>1, <2>4, <2>8, <3>1 DEF RunInv, ChannelOf
    <3>2. CASE i = Len(queue[r]) + 1 /\ j \in 1 .. Len(queue[r])
      <4>1. queue'[r][i].cases = {c} /\ queue'[r][j] = queue[r][j]
        BY <2>1, <2>4, <3>2
      <4> QED
        BY <2>5, <3>2, <4>1
    <3>3. CASE i \in 1 .. Len(queue[r]) /\ j = Len(queue[r]) + 1
      <4>1. queue'[r][j].cases = {c} /\ queue'[r][i] = queue[r][i]
        BY <2>1, <2>4, <3>3
      <4> QED
        BY <2>5, <3>3, <4>1
    <3> QED
      BY <1>1, <2>4, <2>8, <3>1, <3>2, <3>3
  <2>9. ChannelOf(r)'
    BY <1>2, <2>3, <2>7, <2>8 DEF ChannelOf
  <2>10. QueuedCases(r)' = QueuedCases(r) \union {c}
    BY <1>1, <2>1, <2>2, QueuedAfterAppend
  <2>11. ResultsOf(r)'
    BY <1>1, <1>4, <2>3, <2>10 DEF RunInv, ResultsOf, sender
  <2> QED
    BY <2>9, <2>11
<1>7. ASSUME NEW f \in Feed!Finals, Feed!SayFinal(r, f), Put(r, Message(f, {}))
      PROVE  ChannelOf(r)' /\ ResultsOf(r)'
  <2> DEFINE m == Message(f, {})
  <2>1. m \in Messages /\ m.kind = f /\ m.cases = {}
    BY DEF Message, Messages, Kinds
  <2>2. queue'[r] = Append(queue[r], m)
    BY <1>1, <1>7 DEF Put
  <2>3. /\ final'[r] = f /\ reported' = reported /\ compiled' = compiled
        /\ f = "Complete" => reported[r] = CasesOf(r)
        /\ f = "CompileFailed" => reported[r] = {}
    BY <1>1, <1>7, CasesOfRun DEF Feed!SayFinal, Feed!Fresh
  <2> HIDE DEF m
  <2>4. /\ Len(queue'[r]) = Len(queue[r]) + 1
        /\ \A i \in 1 .. Len(queue[r]) : queue'[r][i] = queue[r][i]
        /\ queue'[r][Len(queue[r]) + 1] = m
    BY <1>1, <2>1, <2>2, AppendProperties
  <2>5. told' = told
    BY <1>1 DEF sender
  <2>6. ASSUME NEW i \in 1 .. Len(queue'[r])
        PROVE  /\ queue'[r][i].kind = "Compiled" => i = 1 /\ told'[r] = <<>>
               /\ queue'[r][i].kind \in Feed!Finals =>
                    i = Len(queue'[r]) /\ queue'[r][i].kind = final'[r]
               /\ queue'[r][i].kind # "Results" => queue'[r][i].cases = {}
    <3>1. CASE i \in 1 .. Len(queue[r])
      BY <1>1, <1>2, <2>4, <2>5, <3>1 DEF RunInv, ChannelOf
    <3>2. CASE i = Len(queue[r]) + 1
      BY <2>1, <2>3, <2>4, <3>2 DEF Feed!Finals
    <3> QED
      BY <1>1, <2>4, <3>1, <3>2
  <2>7. ASSUME NEW i \in 1 .. Len(queue'[r]), NEW j \in 1 .. Len(queue'[r]), i # j
        PROVE  queue'[r][i].cases \intersect queue'[r][j].cases = {}
    <3>1. CASE i \in 1 .. Len(queue[r]) /\ j \in 1 .. Len(queue[r])
      BY <1>1, <2>4, <2>7, <3>1 DEF RunInv, ChannelOf
    <3>2. CASE i = Len(queue[r]) + 1 \/ j = Len(queue[r]) + 1
      BY <2>1, <2>4, <3>2
    <3> QED
      BY <1>1, <2>4, <3>1, <3>2
  <2>8. ChannelOf(r)'
    BY <2>3, <2>6, <2>7 DEF ChannelOf, Feed!Finals
  <2>9. QueuedCases(r)' = QueuedCases(r)
    BY <1>1, <2>1, <2>2, QueuedAfterAppend
  <2>10. ResultsOf(r)'
    BY <1>1, <1>4, <2>3, <2>9 DEF RunInv, ResultsOf, sender
  <2> QED
    BY <2>8, <2>10
<1> QED
  BY <1>3, <1>5, <1>6, <1>7 DEF Report, RunInv

(* The sender takes a message without telling of it: what it carried is      *)
(* gathered, or has lapsed with the 30 seconds, or was a closing message.    *)
LEMMA TakeKeeps ==
    ASSUME TypeOK, NEW r \in Runs, RunInv(r), queue[r] # <<>>,
           queue'[r] = Tail(queue[r]), told'[r] = told[r], UNCHANGED feed,
           \/ results'[r] = results[r] \union Head(queue[r]).cases /\ lapsed'[r] = lapsed[r]
           \/ results'[r] = results[r] /\ lapsed'[r] = lapsed[r] \union Head(queue[r]).cases
    PROVE  ChannelOf(r)' /\ ResultsOf(r)'
<1>1. queue[r] \in Seq(Messages)
  BY DEF TypeOK
<1>2. ChannelOf(r)'
  BY <1>1, TakeKeepsChannel DEF RunInv
<1>3. QueuedCases(r) = Head(queue[r]).cases \union QueuedCases(r)'
  BY <1>1, QueuedAfterTake
<1>4. Head(queue[r]).cases \intersect QueuedCases(r)' = {}
  <2>1. /\ Len(queue'[r]) = Len(queue[r]) - 1 /\ Len(queue[r]) \in Nat \ {0}
        /\ \A i \in 1 .. Len(queue'[r]) : queue'[r][i] = queue[r][i + 1]
        /\ Head(queue[r]) = queue[r][1]
    BY <1>1, HeadTailProperties, EmptySeq
  <2>2. ASSUME NEW i \in 1 .. Len(queue'[r])
        PROVE  Head(queue[r]).cases \intersect queue'[r][i].cases = {}
    <3>1. i + 1 \in 1 .. Len(queue[r]) /\ 1 \in 1 .. Len(queue[r]) /\ i + 1 # 1
      BY <2>1
    <3> QED
      BY <2>1, <3>1 DEF RunInv, ChannelOf
  <2> QED
    BY <2>2 DEF QueuedCases
<1>5. ToldCases(r)' = ToldCases(r)
  BY DEF ToldCases
<1>6. ResultsOf(r)'
  BY <1>3, <1>4, <1>5 DEF RunInv, ResultsOf, feed
<1> QED
  BY <1>2, <1>6

(* The match on a message that has been received. *)
LEMMA HandleKeeps ==
    ASSUME IInv, NEW r \in Runs, Handle(r)
    PROVE  RunInv(r)'
<1>1. /\ TypeOK /\ RunInv(r) /\ queue[r] # <<>> /\ wait[r] = "have" /\ WaitOf(r)
      /\ queue \in [Runs -> Seq(Messages)] /\ results \in [Runs -> SUBSET Cases]
      /\ told \in [Runs -> Seq(Messages)] /\ send \in [Runs -> Messages]
      /\ queue'[r] = Tail(queue[r])
      /\ UNCHANGED <<feed, over, lapsed>>
  BY DEF IInv, TypeInv, TypeOK, Handle, Take
<1>2. r \notin over
  BY <1>1 DEF WaitOf
<1> DEFINE m == Head(queue[r])
<1>3. /\ m \in Messages
      /\ 1 \in 1 .. Len(queue[r]) /\ m = queue[r][1] /\ Len(queue[r]) \in Nat \ {0}
  BY <1>1, HeadTailProperties, EmptySeq
<1>4. CASE Gather(r)
  <2>1. results'[r] = results[r] \union m.cases /\ UNCHANGED <<send, told>>
    BY <1>1, <1>4 DEF Gather
  <2>2. ChannelOf(r)' /\ ResultsOf(r)'
    BY <1>1, <2>1, TakeKeeps
  <2>3. ClosingOf(r)'
    BY <1>1, <2>1 DEF RunInv, ClosingOf, TrueClosing, feed
  <2> QED
    BY <2>2, <2>3 DEF RunInv
<1>5. CASE PassOn(r)
  <2>1. /\ m.kind = "Compiled" /\ m.cases = {} /\ told[r] = <<>>
        /\ UNCHANGED <<results, send>>
        /\ told'[r] = told[r] \/ told'[r] = Append(told[r], m)
    BY <1>1, <1>3, <1>5 DEF PassOn, Tell, RunInv, ChannelOf
  <2>2. ChannelOf(r)'
    BY <1>1, TakeKeepsChannel DEF RunInv
  <2>3. ClosingOf(r)'
    <3>1. CASE told'[r] = told[r]
      BY <1>1, <2>1, <3>1 DEF RunInv, ClosingOf, TrueClosing, feed
    <3>2. CASE told'[r] = Append(told[r], m)
      <4>1. m.kind \notin Feed!Finals
        BY <2>1 DEF Feed!Finals
      <4> QED
        BY <1>1, <1>2, <1>3, <2>1, <3>2, <4>1, TellKeepsClosing DEF RunInv, feed
    <3> QED
      BY <2>1, <3>1, <3>2
  <2>4. QueuedCases(r)' = QueuedCases(r)
    BY <1>1, <2>1, QueuedAfterTake
  <2>5. /\ ToldCases(r)' = ToldCases(r)
        /\ \A i, j \in 1 .. Len(told'[r]) :
             /\ i # j /\ told'[r][i].kind = "Results" /\ told'[r][j].kind = "Results"
             => told'[r][i].cases \intersect told'[r][j].cases = {}
    <3>1. CASE told'[r] = told[r]
      <4>1. ToldCases(r)' = ToldCases(r)
        BY <3>1 DEF ToldCases
      <4> QED
        BY <1>1, <3>1, <4>1 DEF RunInv, ResultsOf
    <3>2. CASE told'[r] = Append(told[r], m)
      BY <1>1, <1>3, <2>1, <3>2, ToldAfterAppend, TellKeepsDisjoint DEF RunInv
    <3> QED
      BY <2>1, <3>1, <3>2
  <2>6. ResultsOf(r)'
    BY <1>1, <2>1, <2>4, <2>5 DEF RunInv, ResultsOf, feed
  <2> QED
    BY <2>2, <2>3, <2>6 DEF RunInv
<1>6. CASE Prepare(r)
  <2> DEFINE x == Message(m.kind, IF m.kind = "Complete" THEN reported[r] ELSE {})
  <2>1. m.kind \in Feed!Finals /\ send'[r] = x /\ UNCHANGED <<results, told>>
    BY <1>1, <1>6 DEF Prepare
  <2>2. m.kind = final[r] /\ m.cases = {}
    BY <1>1, <1>3, <2>1 DEF RunInv, ChannelOf, Feed!Finals
  <2>3. ChannelOf(r)' /\ ResultsOf(r)'
    BY <1>1, <2>1, <2>2, TakeKeeps
  <2>4. final[r] = "Complete" => reported[r] = CasesOf(r)
    BY <1>1 DEF RunInv, ChannelOf
  <2>5. ClosingOf(r)'
    BY <1>1, <2>1, <2>2, <2>4 DEF RunInv, ClosingOf, TrueClosing, Message, feed
  <2> QED
    BY <2>3, <2>5 DEF RunInv
<1> QED
  BY <1>4, <1>5, <1>6 DEF Handle

(* 30 seconds have passed, or a query has failed: the message is dropped.    *)
LEMMA DropKeeps ==
    ASSUME IInv, NEW r \in Runs, GiveUp(r) \/ QueryFails(r)
    PROVE  RunInv(r)'
<1>1. /\ TypeOK /\ RunInv(r) /\ WaitOf(r)
      /\ queue \in [Runs -> Seq(Messages)] /\ lapsed \in [Runs -> SUBSET Cases]
      /\ queue'[r] = Tail(queue[r])
      /\ UNCHANGED <<feed, results, send, told>> /\ over \subseteq over'
  BY DEF IInv, TypeInv, TypeOK, GiveUp, QueryFails, Take, Return
<1>2. queue[r] # <<>>
  BY <1>1 DEF GiveUp, QueryFails, Conn!TimeOut, WaitOf
<1>3. lapsed'[r] = lapsed[r] \union Head(queue[r]).cases
  <2>1. CASE GiveUp(r)
    BY <1>1, <2>1 DEF GiveUp
  <2>2. CASE QueryFails(r)
    <3>1. Head(queue[r]).kind # "Results" /\ lapsed' = lapsed
      BY <2>2 DEF QueryFails
    <3>2. 1 \in 1 .. Len(queue[r]) /\ Head(queue[r]) = queue[r][1]
      BY <1>1, <1>2, HeadTailProperties, EmptySeq
    <3>3. Head(queue[r]).cases = {}
      BY <1>1, <3>1, <3>2 DEF RunInv, ChannelOf
    <3> QED
      BY <3>1, <3>3
  <2> QED
    BY <2>1, <2>2
<1>4. ChannelOf(r)' /\ ResultsOf(r)'
  BY <1>1, <1>2, <1>3, TakeKeeps
<1>5. ClosingOf(r)'
  BY <1>1 DEF RunInv, ClosingOf, TrueClosing, feed
<1> QED
  BY <1>4, <1>5 DEF RunInv

(* The closing message is sent, or its websocket is found closed.            *)
LEMMA FinishUpKeeps ==
    ASSUME IInv, NEW r \in Runs, FinishUp(r)
    PROVE  RunInv(r)'
<1>1. /\ TypeOK /\ RunInv(r) /\ WaitOf(r) /\ wait[r] = "have"
      /\ queue[r] = <<>> /\ send[r] # NoMessage /\ send[r] \in Messages
      /\ told \in [Runs -> Seq(Messages)]
      /\ told'[r] = told[r] \/ told'[r] = Append(told[r], send[r])
      /\ r \in over' /\ UNCHANGED <<feed, queue, results, send, lapsed>>
  BY DEF IInv, TypeInv, TypeOK, FinishUp, Tell, Return, Conn!Release
<1>2. r \notin over
  BY <1>1 DEF WaitOf
<1>3. /\ send[r].kind \in Feed!Finals /\ send[r].kind \notin {"none", "Compiled", "Results"}
      /\ TrueClosing(r, send[r])
  BY <1>1 DEF RunInv, ClosingOf, Feed!Finals
<1>4. CASE told'[r] = told[r]
  BY <1>1, <1>4, Untouched DEF feed
<1>5. CASE told'[r] = Append(told[r], send[r])
  <2>1. ChannelOf(r)'
    <3>1. final[r] # "none" /\ Len(queue[r]) = 0
      BY <1>1, <1>3, EmptySeq DEF TrueClosing
    <3> QED
      BY <1>1, <3>1 DEF RunInv, ChannelOf, feed
  <2>2. ClosingOf(r)'
    BY <1>1, <1>2, <1>3, <1>5, TellKeepsClosing DEF RunInv, feed
  <2>3. ToldCases(r)' = ToldCases(r)
    BY <1>1, <1>3, <1>5, ToldAfterAppend
  <2>4. \A i, j \in 1 .. Len(told'[r]) :
          /\ i # j /\ told'[r][i].kind = "Results" /\ told'[r][j].kind = "Results"
          => told'[r][i].cases \intersect told'[r][j].cases = {}
    BY <1>1, <1>3, <1>5, TellKeepsDisjoint DEF RunInv
  <2>5. QueuedCases(r)' = QueuedCases(r)
    BY <1>1 DEF QueuedCases
  <2>6. ResultsOf(r)'
    BY <1>1, <2>3, <2>4, <2>5 DEF RunInv, ResultsOf, feed
  <2> QED
    BY <2>1, <2>2, <2>6 DEF RunInv
<1> QED
  BY <1>1, <1>4, <1>5

(* The results are sent and forgotten, or kept for the next cycle.           *)
LEMMA FlushKeeps ==
    ASSUME IInv, NEW r \in Runs, Flush(r)
    PROVE  RunInv(r)'
<1> DEFINE m == Message("Results", results[r])
<1>1. /\ TypeOK /\ RunInv(r) /\ WaitOf(r) /\ wait[r] = "have"
      /\ queue[r] = <<>>
      /\ results \in [Runs -> SUBSET Cases] /\ told \in [Runs -> Seq(Messages)]
      /\ UNCHANGED <<feed, queue, send, over, lapsed>>
  BY DEF IInv, TypeInv, TypeOK, Flush, Conn!Release
<1>2. /\ m \in Messages /\ m.kind = "Results" /\ m.cases = results[r]
      /\ m.kind \notin Feed!Finals
  BY <1>1 DEF Message, Messages, Kinds, Feed!Finals
<1>3. \/ told'[r] = told[r] /\ results'[r] = results[r]
      \/ results[r] # {} /\ told'[r] = Append(told[r], m) /\ results'[r] = {}
  BY <1>1 DEF Flush, Tell, ClearIfSent
<1>4. r \notin over
  BY <1>1 DEF WaitOf
<1> HIDE DEF m
<1>5. CASE told'[r] = told[r] /\ results'[r] = results[r]
  BY <1>1, <1>5, Untouched DEF feed
<1>6. CASE results[r] # {} /\ told'[r] = Append(told[r], m) /\ results'[r] = {}
  <2>1. ChannelOf(r)'
    <3>1. reported[r] # {} /\ Len(queue[r]) = 0
      BY <1>1, <1>6, EmptySeq DEF RunInv, ResultsOf
    <3> QED
      BY <1>1, <3>1 DEF RunInv, ChannelOf, feed
  <2>2. ClosingOf(r)'
    BY <1>1, <1>2, <1>4, <1>6, TellKeepsClosing DEF RunInv, feed
  <2>3. ToldCases(r)' = ToldCases(r) \union results[r]
    BY <1>1, <1>2, <1>6, ToldAfterAppend
  <2>4. \A i, j \in 1 .. Len(told'[r]) :
          /\ i # j /\ told'[r][i].kind = "Results" /\ told'[r][j].kind = "Results"
          => told'[r][i].cases \intersect told'[r][j].cases = {}
    <3>1. m.cases \intersect ToldCases(r) = {}
      BY <1>1, <1>2 DEF RunInv, ResultsOf
    <3> QED
      BY <1>1, <1>2, <1>6, <3>1, TellKeepsDisjoint DEF RunInv
  <2>5. QueuedCases(r)' = QueuedCases(r)
    BY <1>1 DEF QueuedCases
  <2>6. ResultsOf(r)'
    BY <1>1, <1>6, <2>3, <2>4, <2>5 DEF RunInv, ResultsOf, feed
  <2> QED
    BY <2>1, <2>2, <2>6 DEF RunInv
<1> QED
  BY <1>3, <1>5, <1>6

(* A step of the run q or of its sender leaves other runs alone; the rest of *)
(* the world leaves all of them alone.                                       *)
LEMMA StepsAreLocal ==
    ASSUME TypeOK, NEW q \in Runs, Report(q) \/ Sender(q), NEW r \in Runs \ {q}, RunInv(r)
    PROVE  RunInv(r)'
<1> USE DEF TypeOK, Feed!FeedType, feed, sender
<1>1. CASE Report(q)
  <2>1. /\ queue'[r] = queue[r] /\ compiled'[r] = compiled[r] /\ reported'[r] = reported[r]
        /\ final'[r] = final[r] /\ UNCHANGED sender
    BY <1>1 DEF Report, Put, Feed!SayCompiled, Feed!SayResult, Feed!SayFinal
  <2> QED
    BY <2>1, Untouched
<1>2. CASE Sender(q)
  <2>1. /\ UNCHANGED feed
        /\ queue'[r] = queue[r] /\ results'[r] = results[r] /\ send'[r] = send[r]
        /\ told'[r] = told[r] /\ lapsed'[r] = lapsed[r] /\ over \subseteq over'
    <3>1. CASE Receive(q) \/ RegisterWait(q) \/ Connected(q) \/ Drained(q)
      BY <3>1 DEF Receive, RegisterWait, Connected, Drained, Return
    <3>2. CASE GiveUp(q) \/ QueryFails(q)
      BY <3>2 DEF GiveUp, QueryFails, Take, Return
    <3>3. CASE Handle(q)
      BY <3>3 DEF Handle, Take, Gather, PassOn, Prepare, Tell
    <3>4. CASE FinishUp(q)
      BY <3>4 DEF FinishUp, Tell, Return
    <3>5. CASE Flush(q)
      BY <3>5 DEF Flush, Tell, ClearIfSent
    <3> QED
      BY <1>2, <3>1, <3>2, <3>3, <3>4, <3>5 DEF Sender
  <2> QED
    BY <2>1, Untouched
<1> QED
  BY <1>1, <1>2

-----------------------------------------------------------------------------
(* The fate of the closing message *)

(* A step that leaves a run alone leaves its closing message where it is.    *)
LEMMA FateUntouched ==
    ASSUME NEW r \in Runs, FateOf(r), r \in over' <=> r \in over,
           wait[r] = "have" => wait'[r] = "have",
           final'[r] = final[r], queue'[r] = queue[r], send'[r] = send[r],
           told'[r] = told[r], fate'[r] = fate[r]
    PROVE  FateOf(r)'
BY DEF FateOf

(* The closing message comes to the end of the channel. *)
LEMMA ReportFate ==
    ASSUME IInv, NEW r \in Runs, Report(r)
    PROVE  FateOf(r)'
<1>1. /\ FateOf(r) /\ UNCHANGED <<connections, sender>>
      /\ queue \in [Runs -> Seq(Messages)] /\ queue[r] \in Seq(Messages)
      /\ final \in [Runs -> Feed!Finals \union {"none"}]
  BY DEF IInv, TypeInv, TypeOK, Feed!FeedType, Report
<1>2. final[r] = "none" /\ r \notin over /\ fate[r] # "told"
  <2>1. final[r] = "none"
    BY DEF Report, Feed!SayCompiled, Feed!SayResult, Feed!SayFinal
  <2> QED
    BY <1>1, <2>1 DEF FateOf
<1>3. r \notin over' /\ fate'[r] # "told"
  BY <1>1, <1>2 DEF sender
<1>4. CASE final' = final
  BY <1>2, <1>3, <1>4 DEF FateOf
<1>5. ASSUME NEW f \in Feed!Finals, Feed!SayFinal(r, f), Put(r, Message(f, {}))
      PROVE  FateOf(r)'
  <2> DEFINE m == Message(f, {})
  <2>1. m \in Messages /\ m.kind = f
    BY DEF Message, Messages, Kinds
  <2>2. final'[r] = f /\ queue'[r] = Append(queue[r], m)
    BY <1>1, <1>5 DEF Feed!SayFinal, Put
  <2> HIDE DEF m
  <2>3. queue'[r] # <<>> /\ queue'[r][Len(queue'[r])] = m
    BY <1>1, <2>1, <2>2, AppendProperties
  <2> QED
    BY <1>3, <2>1, <2>2, <2>3 DEF FateOf
<1> QED
  BY <1>4, <1>5 DEF Report, Feed!SayCompiled, Feed!SayResult

(* The first message on a channel is the closing one only if it is the last; *)
(* when another is taken, the closing one stays.                             *)
LEMMA ClosingIsLast ==
    ASSUME TypeOK, NEW r \in Runs, ChannelOf(r), queue[r] # <<>>
    PROVE  /\ Head(queue[r]).kind \in Feed!Finals =>
                Tail(queue[r]) = <<>> /\ Head(queue[r]).kind = final[r]
           /\ Head(queue[r]).kind # queue[r][Len(queue[r])].kind =>
                /\ Tail(queue[r]) # <<>>
                /\ Tail(queue[r])[Len(Tail(queue[r]))] = queue[r][Len(queue[r])]
<1> DEFINE h == Head(queue[r])
           t == Tail(queue[r])
<1>1. /\ t \in Seq(Messages) /\ Len(t) = Len(queue[r]) - 1 /\ Len(queue[r]) \in Nat \ {0}
      /\ \A i \in 1 .. Len(t) : t[i] = queue[r][i + 1]
      /\ h = queue[r][1]
  BY HeadTailProperties, EmptySeq DEF TypeOK
<1> HIDE DEF h, t
<1>2. ASSUME h.kind \in Feed!Finals PROVE t = <<>> /\ h.kind = final[r]
  <2>1. 1 \in 1 .. Len(queue[r])
    BY <1>1
  <2>2. 1 = Len(queue[r]) /\ h.kind = final[r]
    BY <1>1, <1>2, <2>1 DEF ChannelOf
  <2> QED
    BY <1>1, <2>2, EmptySeq
<1>3. ASSUME h.kind # queue[r][Len(queue[r])].kind
      PROVE  t # <<>> /\ t[Len(t)] = queue[r][Len(queue[r])]
  <2>1. Len(queue[r]) \in Nat \ {0, 1} /\ Len(t) = Len(queue[r]) - 1
    BY <1>1, <1>3
  <2>2. Len(t) \in 1 .. Len(t) /\ Len(t) + 1 = Len(queue[r]) /\ Len(t) # 0
    <3>1. \A n \in Nat \ {0, 1} : n - 1 \in 1 .. (n - 1) /\ (n - 1) + 1 = n /\ n - 1 # 0
      OBVIOUS
    <3> QED
      BY <2>1, <3>1
  <2>3. t # <<>>
    BY <2>2, EmptySeq
  <2>4. t[Len(t)] = queue[r][Len(t) + 1]
    BY <1>1, <2>2
  <2> QED
    BY <2>2, <2>3, <2>4
<1> QED
  BY <1>2, <1>3 DEF h, t

(* The sender takes a message: an earlier one, or the closing one, which it  *)
(* then has prepared, let lapse, or failed to look up.                       *)
LEMMA TakeFate ==
    ASSUME IInv, NEW r \in Runs, Handle(r) \/ GiveUp(r) \/ QueryFails(r)
    PROVE  FateOf(r)'
<1>1. /\ TypeOK /\ ChannelOf(r) /\ WaitOf(r) /\ FateOf(r)
      /\ queue \in [Runs -> Seq(Messages)] /\ fate \in [Runs -> Fates]
      /\ send \in [Runs -> Messages]
      /\ final[r] \in Feed!Finals \union {"none"} /\ "none" \notin Feed!Finals
      /\ queue'[r] = Tail(queue[r]) /\ UNCHANGED feed
  BY DEF IInv, TypeInv, RunInv, TypeOK, Feed!FeedType, Feed!Finals, Handle, GiveUp, QueryFails,
         Take
<1>2. queue[r] # <<>> /\ r \notin over
  BY <1>1 DEF WaitOf, Handle, GiveUp, QueryFails, Conn!TimeOut, Conn!Release
<1> DEFINE m == Head(queue[r])
<1>3. /\ m.kind \in Feed!Finals => queue'[r] = <<>> /\ m.kind = final[r]
      /\ m.kind # queue[r][Len(queue[r])].kind =>
           queue'[r] # <<>> /\ queue'[r][Len(queue'[r])] = queue[r][Len(queue[r])]
  BY <1>1, <1>2, ClosingIsLast
<1>4. fate[r] # "told"
  BY <1>1, <1>2 DEF FateOf
<1> HIDE DEF m
<1>5. ASSUME m.kind \notin Feed!Finals, UNCHANGED <<send, over, fate>> PROVE FateOf(r)'
  <2>1. final[r] # "none" /\ fate[r] # "lapsed" =>
            queue'[r] # <<>> /\ queue'[r][Len(queue'[r])].kind = final[r]
    BY <1>1, <1>2, <1>3, <1>5 DEF FateOf
  <2> QED
    BY <1>1, <1>2, <1>4, <1>5, <2>1 DEF FateOf, feed
<1>6. CASE Handle(r)
  <2>1. CASE Gather(r) \/ PassOn(r)
    BY <1>5, <1>6, <2>1 DEF Handle, Gather, PassOn, m, Feed!Finals
  <2>2. CASE Prepare(r)
    <3>1. /\ m.kind \in Feed!Finals /\ send'[r].kind = m.kind
          /\ wait'[r] = "have" /\ UNCHANGED <<over, fate>>
      BY <1>1, <1>6, <2>2 DEF Prepare, Handle, m, Message, connections
    <3>2. send'[r] # NoMessage
      BY <1>1, <3>1 DEF NoMessage, Message
    <3> QED
      BY <1>2, <1>3, <1>4, <3>1, <3>2 DEF FateOf
  <2> QED
    BY <1>6, <2>1, <2>2 DEF Handle
<1>7. CASE GiveUp(r)
  <2>1. UNCHANGED <<send, over>>
        /\ IF m.kind \in Feed!Finals THEN fate'[r] = "lapsed" ELSE UNCHANGED fate
    BY <1>1, <1>7 DEF GiveUp, Befalls, m
  <2> QED
    BY <1>2, <1>5, <2>1 DEF FateOf
<1>8. CASE QueryFails(r)
  <2>1. m.kind \in Feed!Finals /\ r \in over' /\ fate'[r] = "failed"
    BY <1>1, <1>8 DEF QueryFails, Return, Befalls, m, Feed!Finals
  <2> QED
    BY <1>1, <1>3, <2>1 DEF FateOf, feed
<1> QED
  BY <1>6, <1>7, <1>8

(* The sender comes to the end of a cycle, or of its channel. *)
LEMMA EndFate ==
    ASSUME IInv, NEW r \in Runs, FinishUp(r) \/ Flush(r) \/ Drained(r)
    PROVE  FateOf(r)'
<1>1. /\ TypeOK /\ RunInv(r) /\ WaitOf(r) /\ FateOf(r) /\ queue[r] = <<>>
      /\ UNCHANGED <<feed, queue, send>>
  BY DEF IInv, TypeInv, FinishUp, Flush, Drained
<1>2. r \notin over /\ fate[r] # "told"
  BY <1>1 DEF WaitOf, FateOf, FinishUp, Flush, Drained, Conn!Release
<1>3. CASE FinishUp(r)
  <2>1. /\ send[r] # NoMessage /\ r \in over'
        /\ IF Alive(r) THEN fate'[r] = "told" /\ told'[r] = Append(told[r], send[r])
                       ELSE fate'[r] = "closed"
    BY <1>1, <1>3 DEF FinishUp, Tell, Return, Befalls, TypeOK
  <2>2. send[r].kind \in Feed!Finals /\ final[r] # "none"
    BY <1>1, <2>1 DEF RunInv, ClosingOf, TrueClosing, Feed!Finals
  <2>3. told'[r] = Append(told[r], send[r]) =>
            told'[r] # <<>> /\ told'[r][Len(told'[r])] = send[r]
    <3>1. told[r] \in Seq(Messages) /\ send[r] \in Messages
      BY <1>1 DEF TypeOK
    <3> QED
      BY <3>1, AppendProperties
  <2> QED
    BY <1>1, <2>1, <2>2, <2>3 DEF FateOf, feed
<1>4. CASE Flush(r)
  <2>1. send[r] = NoMessage /\ UNCHANGED <<over, fate>>
    BY <1>4 DEF Flush
  <2> QED
    BY <1>1, <1>2, <2>1 DEF FateOf, feed
<1>5. CASE Drained(r)
  <2>1. /\ wait[r] = "idle" /\ final[r] # "none"
        /\ r \in over' /\ UNCHANGED fate
    BY <1>5 DEF Drained, Return
  <2>2. fate[r] = "lapsed"
    BY <1>1, <1>2, <2>1 DEF FateOf
  <2> QED
    BY <1>1, <2>1, <2>2 DEF FateOf, feed
<1> QED
  BY <1>3, <1>4, <1>5

(* The steps of other runs, of websockets and of broadcasts do not touch it. *)
LEMMA FateIsLocal ==
    ASSUME TypeOK, NEW q \in Runs, Report(q) \/ Sender(q), NEW r \in Runs \ {q}, FateOf(r)
    PROVE  FateOf(r)'
<1> USE DEF TypeOK, Feed!FeedType, feed, sender
<1>1. CASE Report(q)
  <2>1. /\ queue'[r] = queue[r] /\ final'[r] = final[r] /\ UNCHANGED <<sender, connections>>
    BY <1>1 DEF Report, Put, Feed!SayCompiled, Feed!SayResult, Feed!SayFinal
  <2> QED
    BY <2>1, FateUntouched DEF connections
<1>2. CASE Sender(q)
  <2>1. /\ UNCHANGED feed
        /\ queue'[r] = queue[r] /\ send'[r] = send[r] /\ told'[r] = told[r]
        /\ fate'[r] = fate[r] /\ wait'[r] = wait[r] /\ (r \in over' <=> r \in over)
    <3> USE DEF Conn!ConnectionsType
    <3>1. CASE Receive(q) \/ RegisterWait(q) \/ Connected(q) \/ Drained(q)
      BY <3>1 DEF Receive, RegisterWait, Connected, Drained, Return, connections,
                  Conn!CheckActive, Conn!Register, Conn!Wake
    <3>2. CASE GiveUp(q) \/ QueryFails(q)
      BY <3>2 DEF GiveUp, QueryFails, Take, Return, Befalls, Conn!TimeOut, Conn!Release
    <3>3. CASE Handle(q)
      BY <3>3 DEF Handle, Take, Gather, PassOn, Prepare, Tell, connections
    <3>4. CASE FinishUp(q)
      BY <3>4 DEF FinishUp, Tell, Return, Befalls, Conn!Release
    <3>5. CASE Flush(q)
      BY <3>5 DEF Flush, Tell, Conn!Release
    <3> QED
      BY <1>2, <3>1, <3>2, <3>3, <3>4, <3>5 DEF Sender
  <2> QED
    BY <2>1, FateUntouched
<1> QED
  BY <1>1, <1>2

(* Every step keeps the closing message of every run in view. *)
LEMMA FateStep ==
    ASSUME IInv, [Next]_vars, NEW r \in Runs
    PROVE  FateOf(r)'
<1>1. TypeOK /\ FateOf(r)
  BY DEF IInv, TypeInv
<1>2. ASSUME UNCHANGED <<feed, queue, sender>>, wait[r] = "have" => wait'[r] = "have"
      PROVE  FateOf(r)'
  BY <1>1, <1>2, FateUntouched DEF feed, sender
<1>3. ASSUME NEW q \in Runs, Report(q) \/ Sender(q) PROVE FateOf(r)'
  <2>1. CASE r # q
    BY <1>1, <1>3, <2>1, FateIsLocal
  <2>2. CASE r = q /\ (Receive(q) \/ RegisterWait(q) \/ Connected(q))
    <3>1. wait[r] # "have"
      BY <2>2 DEF Receive, RegisterWait, Connected, Conn!CheckActive, Conn!Register, Conn!Wake
    <3> QED
      BY <1>2, <2>2, <3>1 DEF Receive, RegisterWait, Connected
  <2> QED
    BY <1>3, <2>1, <2>2, ReportFate, TakeFate, EndFate DEF Sender
<1>4. ASSUME NEW s \in Sockets, Socket(s) PROVE FateOf(r)'
  <2>1. wait[r] = "have" => wait'[r] = "have"
    <3>1. CASE Conn!Greet(s)
      BY <3>1 DEF Conn!Greet, Conn!Woken
    <3>2. CASE UNCHANGED wait
      BY <3>2
    <3> QED
      BY <1>4, <3>1, <3>2 DEF Socket, Conn!Socket, Conn!Insert, Conn!Write, Conn!Written,
                              Conn!Leave, Conn!Close, Conn!Deferred, Conn!waiters
  <2> QED
    BY <1>2, <1>4, <2>1 DEF Socket
<1>5. CASE Broadcast
  BY <1>2, <1>5 DEF Broadcast, Conn!Broadcast, Conn!waiters
<1>6. CASE UNCHANGED vars
  BY <1>2, <1>6 DEF vars, connections
<1> QED
  BY <1>3, <1>4, <1>5, <1>6 DEF Next

(* Every step keeps the invariant. *)
LEMMA InvariantStep == IInv /\ [Next]_vars => IInv'
<1> SUFFICES ASSUME IInv, [Next]_vars PROVE IInv'
  OBVIOUS
<1>1. TypeInv' /\ TypeOK
  BY TypeStep DEF IInv, TypeInv
<1>2. ASSUME NEW r \in Runs, UNCHANGED <<feed, queue, sender>> PROVE RunInv(r)'
  BY <1>2, Untouched DEF IInv, feed, sender
<1>3. ASSUME NEW q \in Runs, Report(q) \/ Sender(q), NEW r \in Runs PROVE RunInv(r)'
  <2>1. CASE r # q
    BY <1>1, <1>3, <2>1, StepsAreLocal DEF IInv
  <2>2. CASE r = q /\ (Receive(q) \/ RegisterWait(q) \/ Connected(q))
    BY <1>2, <2>2 DEF Receive, RegisterWait, Connected
  <2>3. CASE r = q /\ Drained(q)
    BY <2>3, Untouched DEF Drained, Return, IInv, feed
  <2> QED
    BY <1>3, <2>1, <2>2, <2>3, ReportKeeps, DropKeeps, HandleKeeps, FinishUpKeeps, FlushKeeps
    DEF Sender
<1>4. ASSUME NEW r \in Runs PROVE RunInv(r)'
  <2>1. CASE (\E s \in Sockets : Socket(s)) \/ Broadcast
    BY <1>2, <2>1 DEF Socket, Broadcast
  <2>2. CASE UNCHANGED vars
    BY <1>2, <2>2 DEF vars
  <2> QED
    BY <1>3, <2>1, <2>2 DEF Next
<1> QED
  BY <1>1, <1>4, FateStep DEF IInv

(* Where every result of a run is, and what is told of it, in every state:   *)
(* whatever the order of reports, timeouts, failed queries, reconnections.   *)
THEOREM Invariant == Spec => []IInv
<1>1. Init => IInv
  <2> SUFFICES ASSUME Init, NEW r \in Runs PROVE RunInv(r) /\ FateOf(r)
    BY TypeInit DEF IInv
  <2>1. /\ queue[r] = <<>> /\ told[r] = <<>> /\ Len(<<>>) = 0
        /\ reported[r] = {} /\ results[r] = {} /\ lapsed[r] = {}
        /\ send[r] = NoMessage /\ final[r] = "none" /\ fate[r] = "none" /\ r \notin over
    BY EmptySeq DEF Init, Feed!Init
  <2>2. ToldCases(r) = {} /\ QueuedCases(r) = {}
    BY <2>1 DEF ToldCases, QueuedCases
  <2> QED
    BY <2>1, <2>2 DEF RunInv, ChannelOf, ClosingOf, ResultsOf, FateOf
<1> QED
  BY <1>1, InvariantStep, PTL DEF Spec

-----------------------------------------------------------------------------
(* The theorems *)

(* A client sees Compiled first, if at all, and nothing of a run after its   *)
(* closing message, also when it reconnects in between (spawn_ws_sender).    *)
THEOREM ClientsAreToldInOrder == Spec => []ToldInOrder
<1>1. IInv => ToldInOrder
  BY DEF IInv, RunInv, ClosingOf, ToldInOrder
<1> QED
  BY <1>1, Invariant, PTL

(* No result is sent twice.  While the sender runs none is lost but with its *)
(* 30 seconds; what the sender drops when it returns is listed by            *)
(* TestsComplete, or has given way to TestsError or TestsCancelled, or the   *)
(* closing message itself was not told.                                      *)
THEOREM EveryResultAccounted == Spec => []ResultsAccounted
<1>1. IInv => ResultsAccounted
  <2> SUFFICES ASSUME IInv, NEW r \in Runs, r \in over
               PROVE  /\ reported[r] = ToldCases(r) \union Dropped(r) \union lapsed[r]
                      /\ Dropped(r) # {} =>
                          \/ LET m == told[r][Len(told[r])] IN
                             /\ told[r] # <<>> /\ m.kind \in {"Complete", "Error", "Cancelled"}
                             /\ m.kind = "Complete" => Dropped(r) \subseteq m.cases
                          \/ fate[r] \in {"closed", "failed", "lapsed"}
    BY DEF IInv, RunInv, ResultsOf, ResultsAccounted
  <2>1. /\ ChannelOf(r) /\ ClosingOf(r) /\ ResultsOf(r) /\ FateOf(r)
        /\ fate[r] \in Fates /\ told[r] \in Seq(Messages) /\ Dropped(r) = results[r]
    BY DEF IInv, RunInv, TypeInv, TypeOK, Dropped
  <2>2. QueuedCases(r) = {}
    <3>1. Len(queue[r]) = 0
      BY <2>1, EmptySeq DEF FateOf
    <3> QED
      BY <3>1 DEF QueuedCases
  <2>3. reported[r] = ToldCases(r) \union Dropped(r) \union lapsed[r]
    BY <2>1, <2>2 DEF ResultsOf
  <2>4. ASSUME Dropped(r) # {}, fate[r] \notin {"closed", "failed", "lapsed"}
        PROVE  /\ told[r] # <<>>
               /\ told[r][Len(told[r])].kind \in {"Complete", "Error", "Cancelled"}
               /\ told[r][Len(told[r])].kind = "Complete" =>
                    Dropped(r) \subseteq told[r][Len(told[r])].cases
    <3>1. told[r] # <<>> /\ told[r][Len(told[r])].kind \in Feed!Finals
      BY <2>1, <2>4 DEF FateOf, Fates
    <3>2. Len(told[r]) \in 1 .. Len(told[r])
      BY <2>1, <3>1, EmptySeq, LenProperties
    <3>3. TrueClosing(r, told[r][Len(told[r])])
      BY <2>1, <3>1, <3>2 DEF ClosingOf
    <3>4. Dropped(r) \subseteq reported[r] /\ final[r] # "CompileFailed"
      BY <2>1, <2>3, <2>4 DEF ChannelOf
    <3> QED
      BY <2>1, <3>1, <3>3, <3>4 DEF TrueClosing, ChannelOf, Feed!Finals
  <2> QED
    BY <2>3, <2>4
<1> QED
  BY <1>1, Invariant, PTL

(* The closing message that a client sees is the one its run ended with, and *)
(* TestsComplete lists every case (get_test_results).                        *)
THEOREM ClosingMessageIsTrue == Spec => []ClosingIsTrue
<1>1. IInv => ClosingIsTrue
  BY DEF IInv, RunInv, ClosingOf, TrueClosing, ClosingIsTrue
<1> QED
  BY <1>1, Invariant, PTL
=============================================================================
