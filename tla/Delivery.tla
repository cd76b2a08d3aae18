------------------------------ MODULE Delivery ------------------------------
(***************************************************************************)
(* spawn_ws_sender: the task that takes the messages of a run off its      *)
(* channel (module RunFeed says in which order they come), waits for the   *)
(* submitter to be connected (module Connections), gathers what has come   *)
(* in meanwhile, and sends it as few websocket messages.  One life of the  *)
(* server: a restart loses all of this.                                    *)
(***************************************************************************)
EXTENDS Packet, Clients, Naturals, Sequences

CONSTANT Submitter     \* the user each run belongs to

ASSUME DeliveryAssumption == Submitter \in [Runs -> Users]

VARIABLES
    compiled, reported, final,              \* see RunFeed
    sock, active, waiting, wait, client,    \* see Connections
    queue,      \* queue[r]: the messages on the result channel of r
    results,    \* results[r]: gathered and not yet sent
    send,       \* send[r]: the closing message to send, or NoMessage
    over,       \* the runs whose sender task has returned
    told,       \* told[r]: what has been put on a websocket's channel, in order
    held,       \* history: results whose websocket was found closed
    lapsed,     \* history: results dropped when the 30 seconds were over
    fate        \* history: what became of the closing message of each run

Feed == INSTANCE RunFeed
Conn == INSTANCE Connections WITH Waiters <- Runs, WaitsFor <- Submitter

feed == <<compiled, reported, final>>
table == <<sock, active>>
connections == <<table, waiting, wait, client>>
sender == <<results, send, over, told, held, lapsed, fate>>
vars == <<feed, connections, queue, sender>>

Message(k, C) == [kind |-> k, cases |-> C]
NoMessage == Message("none", {})
Kinds == Feed!Finals \union {"none", "Compiled", "Results"}
Messages == [kind : Kinds, cases : SUBSET Cases]
Fates == {"none", "told", "closed", "failed", "lapsed"}

Init ==
    /\ Feed!Init
    /\ Conn!Init
    /\ queue = [r \in Runs |-> <<>>]
    /\ results = [r \in Runs |-> {}]
    /\ send = [r \in Runs |-> NoMessage]
    /\ over = {}
    /\ told = [r \in Runs |-> <<>>]
    /\ held = [r \in Runs |-> {}]
    /\ lapsed = [r \in Runs |-> {}]
    /\ fate = [r \in Runs |-> "none"]

-----------------------------------------------------------------------------
(* The task of the run sends a message; see module Tester. *)

PutBare(r, m) == queue' = [queue EXCEPT ![r] = Append(@, Message("Result", m.cases))]  \* faulty
Put(r, m) == queue' = [queue EXCEPT ![r] = Append(@, m)]

Report(r) ==
    /\ \/ Feed!SayCompiled(r) /\ Put(r, Message("Compiled", {}))
       \/ \E c \in CasesOf(r) : Feed!SayResult(r, c) /\ Put(r, Message("Results", {c}))
       \/ \E f \in Feed!Finals : Feed!SayFinal(r, f) /\ Put(r, Message(f, {}))
    /\ UNCHANGED <<connections, sender>>

-----------------------------------------------------------------------------
(* The sender task of run r *)

Take(r) == queue' = [queue EXCEPT ![r] = Tail(@)]
Befalls(r, f) == fate' = [fate EXCEPT ![r] = f]
Linger(r) == UNCHANGED over                                      \* faulty
Return(r) == over' = over \union {r}

Alive(r) == Conn!Listens(client[r])
Tell(r, m) == told' = IF Alive(r) THEN [told EXCEPT ![r] = Append(@, m)] ELSE told

(* recv has yielded a message (left in the queue here until it is used), the *)
(* debounce is over, and wait_for_connection begins.                         *)
Receive(r) ==
    /\ r \notin over
    /\ queue[r] # <<>>
    /\ Conn!CheckActive(r)
    /\ UNCHANGED <<feed, queue, sender>>

(* recv yields None: the run is over, and its end of the channel dropped. *)
Drained(r) ==
    /\ r \notin over
    /\ wait[r] = "idle" /\ queue[r] = <<>> /\ final[r] # "none"
    /\ Return(r)
    /\ UNCHANGED <<feed, connections, queue, results, send, told, held, lapsed, fate>>

RegisterWait(r) == Conn!Register(r) /\ UNCHANGED <<feed, queue, sender>>
Connected(r) == Conn!Wake(r) /\ UNCHANGED <<feed, queue, sender>>

(* No connection in 30 seconds: `continue`, without the message. *)
GiveUp(r) ==
    /\ Conn!TimeOut(r)
    /\ Take(r)
    /\ lapsed' = [lapsed EXCEPT ![r] = @ \union Head(queue[r]).cases]
    /\ IF Head(queue[r]).kind \in Feed!Finals THEN Befalls(r, "lapsed") ELSE UNCHANGED fate
    /\ UNCHANGED <<feed, results, send, over, told, held>>

Gather(r) ==
    /\ Head(queue[r]).kind = "Results"
    /\ results' = [results EXCEPT ![r] = @ \union Head(queue[r]).cases]
    /\ UNCHANGED <<send, told>>

PassOn(r) ==
    /\ Head(queue[r]).kind = "Compiled"
    /\ Tell(r, Head(queue[r]))
    /\ UNCHANGED <<results, send>>

PrepareGathered(r) ==                                            \* faulty
    LET k == Head(queue[r]).kind IN
    /\ k \in Feed!Finals
    /\ send' = [send EXCEPT ![r] = Message(k, IF k = "Complete" THEN results[r] ELSE {})]
    /\ UNCHANGED <<results, told>>
PrepareQuietly(r) ==                                             \* faulty
    LET k == Head(queue[r]).kind IN
    /\ k \in Feed!Finals
    /\ IF k = "Complete" THEN UNCHANGED send
                         ELSE send' = [send EXCEPT ![r] = Message(k, {})]
    /\ UNCHANGED <<results, told>>

(* Complete carries what get_test_results finds, by then every case.  *)
Prepare(r) ==
    LET k == Head(queue[r]).kind IN
    /\ k \in Feed!Finals
    /\ send' = [send EXCEPT ![r] = Message(k, IF k = "Complete" THEN reported[r] ELSE {})]
    /\ UNCHANGED <<results, told>>

(* The match on the first message, and on each that try_recv yields. *)
Handle(r) ==
    /\ wait[r] = "have" /\ queue[r] # <<>>
    /\ Take(r)
    /\ Gather(r) \/ PassOn(r) \/ Prepare(r)
    /\ UNCHANGED <<feed, connections, over, held, lapsed, fate>>

(* A query for the closing message fails: the task returns. *)
QueryFails(r) ==
    /\ queue[r] # <<>>
    /\ Head(queue[r]).kind \in {"Complete", "CompileFailed"}
    /\ Conn!Release(r)
    /\ Take(r)
    /\ Return(r)
    /\ Befalls(r, "failed")
    /\ UNCHANGED <<feed, results, send, told, held, lapsed>>

(* try_recv finds nothing more.  A closing message takes the place of the    *)
(* results gathered with it, and the task returns whether or not it is sent. *)
FinishUp(r) ==
    /\ queue[r] = <<>> /\ send[r] # NoMessage
    /\ Conn!Release(r)
    /\ Tell(r, send[r])
    /\ Befalls(r, IF Alive(r) THEN "told" ELSE "closed")
    /\ Return(r)
    /\ UNCHANGED <<feed, queue, results, send, held, lapsed>>

ClearAnyway(r) ==                                                \* faulty
    /\ results' = [results EXCEPT ![r] = {}]
    /\ UNCHANGED held
ClearIfSent(r) ==
    IF Alive(r) THEN results' = [results EXCEPT ![r] = {}] /\ UNCHANGED held
                ELSE held' = [held EXCEPT ![r] = results[r]] /\ UNCHANGED results

(* Otherwise the results go out, or stay for the next cycle. *)
Flush(r) ==
    /\ queue[r] = <<>> /\ send[r] = NoMessage
    /\ Conn!Release(r)
    /\ IF results[r] = {} THEN UNCHANGED <<told, results, held>>
                          ELSE Tell(r, Message("Results", results[r])) /\ ClearIfSent(r)
    /\ UNCHANGED <<feed, queue, send, over, lapsed, fate>>

Sender(r) ==
    \/ Receive(r) \/ Drained(r) \/ RegisterWait(r) \/ Connected(r) \/ GiveUp(r)
    \/ Handle(r) \/ QueryFails(r) \/ FinishUp(r) \/ Flush(r)

Socket(s) == Conn!Socket(s) /\ UNCHANGED <<feed, queue, sender>>
Broadcast == Conn!Broadcast /\ UNCHANGED <<feed, queue, sender>>

Next ==
    \/ \E r \in Runs : Report(r) \/ Sender(r)
    \/ \E s \in Sockets : Socket(s)
    \/ Broadcast

Spec == Init /\ [][Next]_vars

-----------------------------------------------------------------------------
(* Safety *)

ToldCases(r) == UNION {told[r][i].cases : i \in {j \in 1 .. Len(told[r]) : told[r][j].kind = "Results"}}
QueuedCases(r) == UNION {queue[r][i].cases : i \in 1 .. Len(queue[r])}
Dropped(r) == IF r \in over THEN results[r] ELSE {}     \* lost with the task that held them

TypeOK ==
    /\ Feed!FeedType
    /\ Conn!ConnectionsType
    /\ queue \in [Runs -> Seq(Messages)]
    /\ results \in [Runs -> SUBSET Cases]
    /\ send \in [Runs -> Messages]
    /\ over \subseteq Runs
    /\ told \in [Runs -> Seq(Messages)]
    /\ held \in [Runs -> SUBSET Cases]
    /\ lapsed \in [Runs -> SUBSET Cases]
    /\ fate \in [Runs -> Fates]

(* Nobody is told of another user's run (wait_for_connection). *)
RightUser == Conn!RightUser

TableIsCurrent == Conn!TableIsCurrent

(* A client sees Compiled first, if at all, and nothing of a run after its   *)
(* closing message: "No further updates for this test will be sent"          *)
(* (services/ws/mod.rs:178, 182, 186, 193).                                  *)
ToldInOrder == \A r \in Runs : \A i \in 1 .. Len(told[r]) :
    /\ told[r][i].kind = "Compiled" => i = 1
    /\ told[r][i].kind \in Feed!Finals => i = Len(told[r])

(* No result is sent twice, on the same socket or on one after another.  As  *)
(* long as the sender runs, a result has been sent, is yet to be, or was     *)
(* dropped with its 30 seconds.  When it returns, what it had gathered or    *)
(* held is lost: to TestsComplete, which lists it all; to TestsError or      *)
(* TestsCancelled, which take its place (tester.rs:296); or with a closing   *)
(* message that is itself not told, because its websocket is found closed,   *)
(* its query fails, or its 30 seconds are over.                              *)
ResultsAccounted == \A r \in Runs :
    /\ \A i, j \in 1 .. Len(told[r]) :
        /\ i # j /\ told[r][i].kind = "Results" /\ told[r][j].kind = "Results"
        => told[r][i].cases \intersect told[r][j].cases = {}
    /\ results[r] \intersect ToldCases(r) = {}
    /\ r \notin over =>
        reported[r] = ToldCases(r) \union results[r] \union QueuedCases(r) \union lapsed[r]
    /\ r \in over =>
        /\ reported[r] = ToldCases(r) \union Dropped(r) \union lapsed[r]
        /\ Dropped(r) # {} =>
            \/ /\ told[r] # <<>> /\ told[r][Len(told[r])].kind \in {"Complete", "Error", "Cancelled"}
               /\ told[r][Len(told[r])].kind = "Complete" =>
                    Dropped(r) \subseteq told[r][Len(told[r])].cases
            \/ fate[r] \in {"closed", "failed", "lapsed"}

(* The closing message a client sees is the one the run ended with, and      *)
(* TestsComplete lists every case of the run (get_test_results).             *)
ClosingIsTrue == \A r \in Runs : \A i \in 1 .. Len(told[r]) :
    told[r][i].kind \in Feed!Finals =>
        /\ told[r][i].kind = final[r]
        /\ told[r][i].kind = "Complete" => told[r][i].cases = CasesOf(r)

(* tester.rs:310: "hold onto the results for the next cycle and send them    *)
(* then".  When the next cycle brings TestsError or TestsCancelled, they are *)
(* not sent at all.                                                          *)
HeldAreSent == \A r \in Runs :
    (r \in over /\ told[r] # <<>> /\ told[r][Len(told[r])].kind \in Feed!Finals)
        => held[r] \subseteq ToldCases(r) \union told[r][Len(told[r])].cases

-----------------------------------------------------------------------------
(* Liveness *)

(* The executor polls every task that can go on, and timers fire.  A task at *)
(* select! that finds its channel closed time and again takes that branch in *)
(* the end, as select! chooses at random among those that are ready.  Runs   *)
(* and clients may stop, and a write to a client may never end.              *)
LiveSpec ==
    /\ Spec
    /\ \A r \in Runs : WF_vars(Sender(r))
    /\ \A s \in Sockets :
        /\ WF_vars((Conn!Insert(s) \/ Conn!Deferred(s)) /\ UNCHANGED <<feed, queue, sender>>)
        /\ SF_vars(Conn!Close(s) /\ UNCHANGED <<feed, queue, sender>>)

(* The sender of a run that is over returns, connected or not (the loop of   *)
(* spawn_ws_sender, whose recv yields None in the end).                      *)
SenderEnds == \A r \in Runs : final[r] # "none" ~> r \in over

(* Not part of LiveSpec: clients read what is written to them, or go away.   *)
WritesEnd == \A s \in Sockets :
    WF_vars((Conn!Written(s) \/ Conn!Leave(s)) /\ UNCHANGED <<feed, queue, sender>>)

(* If writes end, a socket that is no longer in the table is not left open:  *)
(* once the last clone of its sender is gone its task ends (handle_socket,   *)
(* rx.recv), a client that keeps it busy with pings notwithstanding.         *)
UnlistedSocketEnds == WritesEnd =>
    \A s \in Sockets : Conn!Serves(s) /\ s \notin active ~> sock[s] = "gone"

(* A user who is connected when the sender turns to the last message, and    *)
(* stays connected, is told how the run ended, that is, the message is put   *)
(* on the channel of the websocket.  Only a failing query for TestsComplete  *)
(* or TestsCompileFail may keep it (spawn_ws_sender).                        *)
ConnectedUserHears == \A r \in Runs, s \in Sockets :
    [](/\ wait[r] = "idle" /\ queue[r] # <<>> /\ final[r] # "none"
       /\ UserOf[s] = Submitter[r]
       /\ [](Conn!Serves(s) /\ s \in active)
       => <>(\/ told[r] # <<>> /\ told[r][Len(told[r])].kind = final[r]
             \/ fate[r] = "failed" /\ final[r] \in {"Complete", "CompileFailed"}))
=============================================================================
