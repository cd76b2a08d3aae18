---------------------------- MODULE ClockProofs ----------------------------
(* The clock shows the time played; pauses and unpauses reach the hooks in   *)
(* turn and in order, and each is broadcast as it was; for any number of     *)
(* requests, any time limit, any scripts and any webhooks.                   *)
EXTENDS Clock, FiniteSetTheorems, TLAPS

(* Where the pause under way lies between the start and the present. *)
ClockInv ==
    /\ restarts \in Nat
    /\ now \in 0 .. MaxTime /\ start_time \in 0 .. MaxTime
    /\ pause_time \in 0 .. NotPaused /\ total_time_paused \in 0 .. MaxTime
    /\ played \in 0 .. MaxTime
    /\ is_paused => /\ pause_time <= now
                    /\ start_time + total_time_paused + played = pause_time
    /\ ~is_paused => start_time + total_time_paused + played = now

(* What the dispatched events are, and that the last of them is the state. *)
DispatchInv ==
    /\ dispatched \in Seq([event : Events, played : 0 .. MaxTime])
    /\ EventsAlternate

-----------------------------------------------------------------------------
(* A handler that takes the lock moves the pause, and nothing else of time.  *)
LEMMA UpdateKeepsClock ==
    ASSUME ClockInv, NEW q \in Requests, NEW p \in BOOLEAN, Update(q, p)
    PROVE  ClockInv'
<1>1. now' = now /\ played' = played /\ restarts' = restarts
  BY DEF Update
<1>2. CASE p
  <2>1. Pause
    BY <1>2 DEF Update
  <2> QED
    BY <1>1, <2>1, ClockAssumption DEF Pause, ClockInv, is_paused, NotPaused
<1>3. CASE ~p
  <2>1. Unpause
    BY <1>3 DEF Update
  <2>2. CASE is_paused
    BY <1>1, <2>1, <2>2, ClockAssumption
    DEF Unpause, ClockInv, is_paused, NotPaused, Since
  <2>3. CASE ~is_paused
    BY <1>1, <2>1, <2>3, ClockAssumption
    DEF Unpause, ClockInv, is_paused, NotPaused
  <2> QED
    BY <2>2, <2>3
<1> QED
  BY <1>2, <1>3

(* The clock of a new process agrees with what was played in it. *)
LEMMA RestartKeepsClock ==
    ASSUME ClockInv, Restart
    PROVE  ClockInv'
<1>1. /\ restarts' = restarts + 1
      /\ now' \in {now, now + 1} /\ now' <= MaxTime
      /\ start_time' = now /\ pause_time' = now' /\ total_time_paused' = 0
      /\ played' = now' - now
  BY DEF Restart, Default
<1>2. now \in Nat /\ now <= MaxTime /\ restarts \in Nat
  BY ClockAssumption DEF ClockInv
<1>3. is_paused' /\ pause_time' <= now' /\ pause_time' \in 0 .. NotPaused
  BY <1>1, <1>2, ClockAssumption DEF is_paused, NotPaused
<1>4. played' \in 0 .. MaxTime /\ start_time' + total_time_paused' + played' = pause_time'
  <2>1. MaxTime \in Nat /\ MaxTime >= 1
    BY ClockAssumption
  <2>2. CASE now' = now
    BY <1>1, <1>2, <2>1, <2>2
  <2>3. CASE now' = now + 1
    BY <1>1, <1>2, <2>1, <2>3
  <2> QED
    BY <1>1, <2>2, <2>3
<1>5. total_time_paused' \in 0 .. MaxTime /\ now' \in 0 .. MaxTime /\ restarts' \in Nat
  BY <1>1, <1>2, ClockAssumption
<1> QED
  BY <1>1, <1>2, <1>3, <1>4, <1>5, ClockAssumption DEF ClockInv

(* ClockInv holds in every state. *)
LEMMA ClockInvariant == Spec => []ClockInv
<1>1. Init => ClockInv
  <2> SUFFICES ASSUME Init PROVE ClockInv
    OBVIOUS
  <2>1. now \in 0 .. 1 /\ start_time = 0 /\ pause_time = now
        /\ total_time_paused = 0 /\ played = now /\ restarts = 0
    BY DEF Init
  <2> QED
    BY <2>1, ClockAssumption DEF ClockInv, is_paused, NotPaused
<1>2. ClockInv /\ [Next]_vars => ClockInv'
  <2> SUFFICES ASSUME ClockInv, [Next]_vars PROVE ClockInv'
    OBVIOUS
  <2>1. ASSUME NEW q \in Requests, Broadcast(q) PROVE ClockInv'
    BY <2>1 DEF Broadcast, clock, ClockInv, is_paused, NotPaused
  <2>2. ASSUME NEW q \in Requests, NEW p \in BOOLEAN, Update(q, p) PROVE ClockInv'
    BY <2>2, UpdateKeepsClock
  <2>3. CASE HookTasks
    BY <2>3 DEF HookTasks, clock, ClockInv, is_paused, NotPaused
  <2>4. CASE Tick
    BY <2>4, ClockAssumption DEF Tick, clock, ClockInv, is_paused, NotPaused
  <2>5. CASE Restart
    BY <2>5, RestartKeepsClock
  <2>6. CASE UNCHANGED vars
    BY <2>6 DEF vars, clock, ClockInv, is_paused, NotPaused
  <2> QED
    BY <2>1, <2>2, <2>3, <2>4, <2>5, <2>6 DEF Next, Handler
<1> QED
  BY <1>1, <1>2, PTL DEF Spec

(* What CurrentTime comes to, paused or not. *)
LEMMA ShowsPlayed ==
    ASSUME ClockInv
    PROVE  TimeIsPlayed
<1>1. CASE is_paused
  BY <1>1, ClockAssumption
  DEF ClockInv, TimeIsPlayed, CurrentTime, Since, NotPaused
<1>2. CASE ~is_paused
  BY <1>2, ClockAssumption
  DEF ClockInv, TimeIsPlayed, CurrentTime, Since, NotPaused
<1> QED
  BY <1>1, <1>2

(* The clock shows the time the game has been on (ClockInfo::current_time).  *)
THEOREM ClockShowsPlayed == Spec => []TimeIsPlayed
<1>1. ClockInv => TimeIsPlayed
  BY ShowsPlayed
<1> QED
  BY <1>1, ClockInvariant, PTL

-----------------------------------------------------------------------------
(* An update that is affected dispatches the event whose turn it is. *)
LEMMA UpdateInTurn ==
    ASSUME ClockInv, DispatchInv, NEW q \in Requests, NEW p \in BOOLEAN, Update(q, p)
    PROVE  DispatchInv'
<1>1. now \in Nat /\ now # NotPaused /\ played \in 0 .. MaxTime
  BY ClockAssumption DEF ClockInv, NotPaused
<1>2. is_paused' <=> p
  <2>1. CASE p
    <3>1. Pause
      BY <2>1 DEF Update
    <3> QED
      BY <1>1, <2>1, <3>1 DEF Pause, is_paused
  <2>2. CASE ~p
    <3>1. Unpause
      BY <2>2 DEF Update
    <3> QED
      BY <2>2, <3>1 DEF Unpause, is_paused
  <2> QED
    BY <2>1, <2>2
<1>3. CASE Affected(p)
  <2> DEFINE e == Event(IF p THEN "onPause" ELSE "onUnpause", q)
             d == [event |-> e, played |-> played]
  <2>1. dispatched' = Append(dispatched, d)
    BY <1>3 DEF Update
  <2>2. d \in [event : Events, played : 0 .. MaxTime]
    BY <1>1 DEF Event, Events, Fns
  <2>3. d.event.fn = IF p THEN "onPause" ELSE "onUnpause"
    BY DEF Event
  <2> HIDE DEF d
  <2>4. /\ dispatched' \in Seq([event : Events, played : 0 .. MaxTime])
        /\ Len(dispatched') = Len(dispatched) + 1 /\ Len(dispatched) \in Nat
        /\ \A i \in 1 .. Len(dispatched) : dispatched'[i] = dispatched[i]
        /\ dispatched'[Len(dispatched) + 1] = d
    BY <2>1, <2>2 DEF DispatchInv
  <2>5. p <=> Len(dispatched) % 2 # 0
    BY <1>3 DEF Affected, DispatchInv, EventsAlternate
  <2>6. (Len(dispatched) + 1) % 2 = 1 <=> Len(dispatched) % 2 = 0
    BY <2>4
  <2>7. Len(dispatched') % 2 = 0 <=> p
    BY <2>4, <2>5, <2>6
  <2>8. ASSUME NEW i \in 1 .. Len(dispatched')
        PROVE  dispatched'[i].event.fn = IF i % 2 = 1 THEN "onUnpause" ELSE "onPause"
    <3>1. CASE i = Len(dispatched) + 1
      BY <2>3, <2>4, <2>5, <2>6, <3>1
    <3>2. CASE i # Len(dispatched) + 1
      <4>1. i \in 1 .. Len(dispatched)
        BY <2>4, <3>2
      <4> QED
        BY <2>4, <4>1 DEF DispatchInv, EventsAlternate
    <3> QED
      BY <3>1, <3>2
  <2> QED
    BY <1>2, <2>4, <2>7, <2>8 DEF DispatchInv, EventsAlternate
<1>4. CASE ~Affected(p)
  <2>1. dispatched' = dispatched
    BY <1>4 DEF Update
  <2> QED
    BY <1>2, <1>4, <2>1 DEF Affected, DispatchInv, EventsAlternate
<1> QED
  BY <1>3, <1>4

(* A process starts paused, and with no event dispatched. *)
LEMMA StartInTurn ==
    ASSUME dispatched = <<>>, is_paused
    PROVE  DispatchInv
  BY DEF DispatchInv, EventsAlternate

(* DispatchInv holds in every state. *)
LEMMA DispatchInvariant == Spec => []DispatchInv
<1>1. Init => DispatchInv
  <2> SUFFICES ASSUME Init PROVE DispatchInv
    OBVIOUS
  <2>1. dispatched = <<>> /\ now \in 0 .. 1 /\ pause_time = now
    BY DEF Init
  <2>2. is_paused
    BY <2>1, ClockAssumption DEF is_paused, NotPaused
  <2> QED
    BY <2>1, <2>2, StartInTurn
<1>2. ClockInv /\ DispatchInv /\ [Next]_vars => DispatchInv'
  <2> SUFFICES ASSUME ClockInv, DispatchInv, [Next]_vars PROVE DispatchInv'
    OBVIOUS
  <2>1. ASSUME UNCHANGED <<dispatched, pause_time>> PROVE DispatchInv'
    BY <2>1 DEF DispatchInv, EventsAlternate, is_paused
  <2>2. ASSUME NEW q \in Requests, Broadcast(q) PROVE DispatchInv'
    BY <2>1, <2>2 DEF Broadcast, clock
  <2>3. ASSUME NEW q \in Requests, NEW p \in BOOLEAN, Update(q, p) PROVE DispatchInv'
    BY <2>3, UpdateInTurn
  <2>4. CASE HookTasks
    BY <2>1, <2>4 DEF HookTasks, clock
  <2>5. CASE Tick
    BY <2>1, <2>5 DEF Tick, clock
  <2>6. CASE Restart
    <3>1. dispatched' = <<>> /\ pause_time' = now' /\ now' <= MaxTime
          /\ now' \in {now, now + 1} /\ now \in Nat
      BY <2>6, ClockAssumption DEF Restart, Default, ClockInv
    <3>2. pause_time' # NotPaused
      BY <3>1, ClockAssumption DEF NotPaused
    <3> QED
      BY <3>1, <3>2 DEF DispatchInv, EventsAlternate, is_paused
  <2>7. CASE UNCHANGED vars
    BY <2>1, <2>7 DEF vars, clock
  <2> QED
    BY <2>2, <2>3, <2>4, <2>5, <2>6, <2>7 DEF Next, Handler
<1> QED
  BY <1>1, <1>2, ClockInvariant, PTL DEF Spec

(* The hooks are told of unpauses and pauses in turn (patch_clock). *)
THEOREM EventsInTurn == Spec => []EventsAlternate
<1>1. DispatchInv => EventsAlternate
  BY DEF DispatchInv
<1> QED
  BY <1>1, DispatchInvariant, PTL
-----------------------------------------------------------------------------
(* The types that ClockInv and DispatchInv leave open. *)
HandlersType ==
    /\ handler \in [Requests -> {"waiting", "unlocked", "done"}]
    /\ broadcast \in [Requests -> Broadcasts \union {Silence}]
    /\ aired \in Seq(Broadcasts)
    /\ \A q \in Requests : handler[q] = "unlocked" => broadcast[q] \in Broadcasts

RestartsType == restarts \in 0 .. MaxRestarts

(* The steps of the hooks' own tasks keep their types. *)
LEMMA HookStepsKeepTypes ==
    ASSUME Hook!HooksType, Hook!Next
    PROVE  Hook!HooksType'
<1>0. 1 \in 0 .. Hook!Over
  BY ClockAssumption DEF Hook!Over
<1>1. CASE Hook!StartScripts
  BY <1>0, <1>1 DEF Hook!StartScripts, Hook!Received, Hook!HooksType
<1>2. CASE Hook!StartPosts
  <2>1. Head(webhooks_rx) \in Events /\ Tail(webhooks_rx) \in Seq(Events)
    BY <1>2 DEF Hook!StartPosts, Hook!HooksType
  <2>2. posts' = posts \union Webhooks \X {Head(webhooks_rx)}
        /\ webhooks_rx' = Tail(webhooks_rx)
        /\ UNCHANGED <<scripts_rx, thread, posted>>
    BY <1>2 DEF Hook!StartPosts
  <2> QED
    BY <2>1, <2>2 DEF Hook!HooksType
<1>3. ASSUME NEW e \in Events, Hook!Evaluate(e) PROVE Hook!HooksType'
  <2>1. PICK next \in {thread[e] + 1, Hook!Over} : thread' = [thread EXCEPT ![e] = next]
    BY <1>3 DEF Hook!Evaluate
  <2>2. next \in 0 .. Hook!Over
    BY <1>3, <2>1, ClockAssumption DEF Hook!Evaluate, Hook!Over
  <2> QED
    BY <1>3, <2>1, <2>2 DEF Hook!Evaluate, Hook!HooksType
<1>4. ASSUME NEW e \in Events, NEW u \in Webhooks, Hook!Arrive(u, e)
      PROVE  Hook!HooksType'
  <2>1. Append(posted[u], e) \in Seq(Events)
    BY DEF Hook!HooksType
  <2>2. posted' = [posted EXCEPT ![u] = Append(posted[u], e)]
    BY <1>4 DEF Hook!Arrive
  <2> QED
    BY <1>4, <2>1, <2>2 DEF Hook!Arrive, Hook!HooksType
<1>5. ASSUME NEW e \in Events, NEW u \in Webhooks, Hook!PostEnds(u, e)
      PROVE  Hook!HooksType'
  BY <1>5 DEF Hook!PostEnds, Hook!HooksType
<1> QED
  BY <1>1, <1>2, <1>3, <1>4, <1>5 DEF Hook!Next

(* Dispatching an event keeps the hooks' types. *)
LEMMA DispatchKeepsTypes ==
    ASSUME Hook!HooksType, NEW e \in Events, Hook!Dispatch(e)
    PROVE  Hook!HooksType'
  BY DEF Hook!Dispatch, Hook!HooksType

(* A new process starts with hooks of the right types. *)
LEMMA RenewKeepsTypes ==
    ASSUME Hook!Renew
    PROVE  Hook!HooksType'
  BY ClockAssumption DEF Hook!Renew, Hook!HooksType, Hook!Over

(* An update keeps the types of the handlers and of the hooks. *)
LEMMA UpdateKeepsTypes ==
    ASSUME ClockInv, HandlersType, Hook!HooksType, NEW q \in Requests, NEW p \in BOOLEAN,
           Update(q, p)
    PROVE  HandlersType' /\ Hook!HooksType'
<1>1. CASE Affected(p)
  <2> DEFINE e == Event(IF p THEN "onPause" ELSE "onUnpause", q)
             b == [kind |-> Paused(p), time_left |-> IF p THEN 0 ELSE TimeLeft(CurrentTime)]
  <2>1. /\ Hook!Dispatch(e) /\ aired' = aired
        /\ broadcast' = [broadcast EXCEPT ![q] = b]
        /\ handler' = [handler EXCEPT ![q] = "unlocked"]
    BY <1>1 DEF Update, Announce
  <2>2. e \in Events
    BY DEF Event, Events, Fns
  <2>3. ASSUME NEW d \in Nat PROVE TimeLeft(d) \in 0 .. Limit
    BY ClockAssumption DEF TimeLeft
  <2>4. b.time_left \in 0 .. Limit /\ b \in Broadcasts
    <3>1. CurrentTime \in Nat
      BY ShowsPlayed DEF ClockInv, TimeIsPlayed
    <3> QED
      BY <2>3, <3>1, ClockAssumption DEF Broadcasts, Paused
  <2> HIDE DEF b, e
  <2>5. HandlersType'
    BY <2>1, <2>4 DEF HandlersType
  <2> QED
    BY <2>1, <2>2, <2>5, DispatchKeepsTypes
<1>2. CASE ~Affected(p)
  <2>1. /\ handler' = [handler EXCEPT ![q] = "done"]
        /\ UNCHANGED <<broadcast, hooks, aired>>
    BY <1>2 DEF Update
  <2> QED
    BY <2>1 DEF HandlersType, Hook!HooksType, hooks
<1> QED
  BY <1>1, <1>2

(* The handlers and the hooks keep their types. *)
LEMMA TypesInvariant == Spec => [](HandlersType /\ RestartsType /\ Hook!HooksType)
<1> DEFINE Types == HandlersType /\ RestartsType /\ Hook!HooksType
<1>1. Init => Types
  <2> SUFFICES ASSUME Init PROVE Types
    OBVIOUS
  <2>1. HandlersType
    BY DEF Init, HandlersType
  <2>2. RestartsType
    BY ClockAssumption DEF Init, RestartsType
  <2>3. Hook!HooksType
    BY ClockAssumption DEF Init, Hook!Init, Hook!HooksType, Hook!Over
  <2> QED
    BY <2>1, <2>2, <2>3
<1>2. ClockInv /\ Types /\ [Next]_vars => Types'
  <2> SUFFICES ASSUME ClockInv, Types, [Next]_vars PROVE Types'
    OBVIOUS
  <2>1. ASSUME NEW q \in Requests, Broadcast(q) PROVE Types'
    <3>1. broadcast[q] \in Broadcasts
      BY <2>1 DEF Broadcast, HandlersType
    <3> QED
      BY <2>1, <3>1 DEF Broadcast, HandlersType, RestartsType, Hook!HooksType, hooks
  <2>2. ASSUME NEW q \in Requests, NEW p \in BOOLEAN, Update(q, p) PROVE Types'
    <3>1. restarts' = restarts
      BY <2>2 DEF Update
    <3> QED
      BY <2>2, <3>1, UpdateKeepsTypes DEF RestartsType
  <2>3. CASE HookTasks
    BY <2>3, HookStepsKeepTypes DEF HookTasks, requests, HandlersType, RestartsType
  <2>4. CASE Tick
    BY <2>4 DEF Tick, requests, hooks, HandlersType, RestartsType, Hook!HooksType
  <2>5. CASE Restart
    <3>1. HandlersType'
      BY <2>5 DEF Restart, HandlersType
    <3>2. RestartsType'
      BY <2>5, ClockAssumption DEF Restart, RestartsType
    <3> QED
      BY <2>5, <3>1, <3>2, RenewKeepsTypes DEF Restart
  <2>6. CASE UNCHANGED vars
    BY <2>6 DEF vars, requests, hooks, HandlersType, RestartsType, Hook!HooksType
  <2> QED
    BY <2>1, <2>2, <2>3, <2>4, <2>5, <2>6 DEF Next, Handler
<1> QED
  BY <1>1, <1>2, ClockInvariant, DispatchInvariant, PTL DEF Spec

(* Every variable of the clock and of its hooks keeps its type. *)
THEOREM TypeCorrect == Spec => []TypeOK
<1>1. ClockInv /\ DispatchInv /\ HandlersType /\ RestartsType /\ Hook!HooksType => TypeOK
  BY DEF ClockInv, DispatchInv, HandlersType, RestartsType, TypeOK
<1> QED
  BY <1>1, ClockInvariant, DispatchInvariant, TypesInvariant, PTL

-----------------------------------------------------------------------------
(* What the hooks have of the events *)

(* How many events the handler of the webhooks has taken.                     *)
Taken == Len(dispatched) - Len(webhooks_rx)

(* A request dispatches one event.                                            *)
OnceEach ==
    /\ \A i \in 1 .. Len(dispatched) : handler[dispatched[i].event.by] # "waiting"
    /\ \A i, j \in 1 .. Len(dispatched) : dispatched[i].event = dispatched[j].event => i = j

(* What waits in a channel is the end of what was dispatched.                 *)
EndsOf(rx) == Len(rx) <= Len(dispatched) /\ \A i \in 1 .. Len(rx) :
    rx[i] = dispatched[Len(dispatched) - Len(rx) + i].event

ThreadsInv ==
    /\ \A i \in 1 .. Len(dispatched) :
        thread[dispatched[i].event] # 0 <=> i <= Len(dispatched) - Len(scripts_rx)
    /\ \A e \in Events : thread[e] # 0 =>
        \E i \in 1 .. Len(dispatched) : dispatched[i].event = e

(* The POSTs under way are all of the last event taken, and what has arrived  *)
(* at a webhook was taken.                                                    *)
PostsInv ==
    /\ \A p \in posts : Taken >= 1 /\ p[2] = dispatched[Taken].event
    /\ \A u \in Webhooks : \A i \in 1 .. Len(posted[u]) :
        \E k \in 1 .. Taken : dispatched[k].event = posted[u][i]
    /\ PostedInOrder

HookInv == OnceEach /\ EndsOf(scripts_rx) /\ EndsOf(webhooks_rx) /\ ThreadsInv /\ PostsInv

LEMMA HookInvStates ==
    HookInv => EventsAccounted /\ PostedInOrder
BY DEF HookInv, EndsOf, ThreadsInv, PostsInv, EventsAccounted

LEMMA ElementOf == ASSUME NEW S, NEW s \in Seq(S), NEW i \in 1 .. Len(s) PROVE s[i] \in S
OBVIOUS

(* An event is appended to what was dispatched and to both channels.          *)
LEMMA DispatchKeepsHooks ==
    ASSUME HandlersType, Hook!HooksType, DispatchInv, HookInv,
           NEW q \in Requests, NEW e \in Events, e.by = q, handler[q] = "waiting",
           NEW d \in [event : Events, played : 0 .. MaxTime], d.event = e,
           dispatched' = Append(dispatched, d), Hook!Dispatch(e),
           handler' = [handler EXCEPT ![q] = "unlocked"]
    PROVE  HookInv'
<1> DEFINE n == Len(dispatched)
<1>1. /\ n \in Nat /\ Len(dispatched') = n + 1
      /\ \A i \in 1 .. n : dispatched'[i] = dispatched[i] /\ dispatched[i].event \in Events
      /\ dispatched'[n + 1] = d
  <2>1. dispatched \in Seq([event : Events, played : 0 .. MaxTime])
    BY DEF DispatchInv
  <2>2. \A i \in 1 .. n : dispatched[i] \in [event : Events, played : 0 .. MaxTime]
    BY <2>1, ElementOf
  <2>3. \A i \in 1 .. n : dispatched[i].event \in Events
    BY <2>2
  <2> QED
    BY <2>1, <2>3
<1>2. /\ scripts_rx' = Append(scripts_rx, e) /\ webhooks_rx' = Append(webhooks_rx, e)
      /\ thread' = thread /\ posts' = posts /\ posted' = posted
  BY DEF Hook!Dispatch
<1>3. \A rx \in Seq(Events) :
        /\ Len(rx) \in Nat /\ Len(Append(rx, e)) = Len(rx) + 1
        /\ \A i \in 1 .. Len(rx) : Append(rx, e)[i] = rx[i]
        /\ Append(rx, e)[Len(rx) + 1] = e
  OBVIOUS
<1>4. scripts_rx \in Seq(Events) /\ webhooks_rx \in Seq(Events)
  BY DEF Hook!HooksType
<1>5. \A i \in 1 .. n : dispatched[i].event # e
  BY <1>1 DEF HookInv, OnceEach
<1> HIDE DEF n
<1>6. OnceEach'
  <2>1. \A i \in 1 .. n + 1 : handler'[dispatched'[i].event.by] # "waiting"
    BY <1>1 DEF HookInv, OnceEach, HandlersType, n, Events
  <2>2. \A i, j \in 1 .. n + 1 : dispatched'[i].event = dispatched'[j].event => i = j
    <3> SUFFICES ASSUME NEW i \in 1 .. n + 1, NEW j \in 1 .. n + 1,
                        dispatched'[i].event = dispatched'[j].event
                 PROVE  i = j
      OBVIOUS
    <3>1. CASE i \in 1 .. n /\ j \in 1 .. n
      BY <1>1, <3>1 DEF HookInv, OnceEach, n
    <3>2. CASE i = n + 1 \/ j = n + 1
      BY <1>1, <1>5, <3>2
    <3> QED
      BY <1>1, <3>1, <3>2
  <2> QED
    BY <1>1, <2>1, <2>2 DEF OnceEach
<1>7. ASSUME NEW rx \in Seq(Events), EndsOf(rx)
      PROVE  /\ Len(Append(rx, e)) <= Len(dispatched')
             /\ \A i \in 1 .. Len(Append(rx, e)) :
                 Append(rx, e)[i] = dispatched'[Len(dispatched') - Len(Append(rx, e)) + i].event
  <2>1. Len(rx) \in Nat /\ Len(Append(rx, e)) = Len(rx) + 1 /\ Len(rx) <= n
    BY <1>3, <1>7 DEF EndsOf, n
  <2>2. ASSUME NEW i \in 1 .. Len(rx) + 1
        PROVE  Append(rx, e)[i] = dispatched'[(n + 1) - (Len(rx) + 1) + i].event
    <3>1. CASE i = Len(rx) + 1
      <4>1. (n + 1) - (Len(rx) + 1) + i = n + 1
        BY <1>1, <2>1, <3>1
      <4> QED
        BY <1>1, <1>3, <3>1, <4>1
    <3>2. CASE i # Len(rx) + 1
      <4>1. i \in 1 .. Len(rx) /\ (n + 1) - (Len(rx) + 1) + i = n - Len(rx) + i
        BY <1>1, <2>1, <3>2
      <4>2. n - Len(rx) + i \in 1 .. n
        BY <1>1, <2>1, <4>1
      <4> QED
        BY <1>1, <1>3, <1>7, <4>1, <4>2 DEF EndsOf, n
    <3> QED
      BY <3>1, <3>2
  <2>3. Len(dispatched') = n + 1 /\ Len(Append(rx, e)) = Len(rx) + 1
    BY <1>1, <2>1
  <2>4. Len(Append(rx, e)) <= Len(dispatched')
    BY <1>1, <2>1, <2>3
  <2>5. ASSUME NEW i \in 1 .. Len(Append(rx, e))
        PROVE  Append(rx, e)[i] = dispatched'[Len(dispatched') - Len(Append(rx, e)) + i].event
    <3>1. i \in 1 .. Len(rx) + 1
      BY <2>3
    <3>2. Append(rx, e)[i] = dispatched'[(n + 1) - (Len(rx) + 1) + i].event
      BY <2>2, <3>1
    <3> QED
      BY <2>3, <3>2
  <2> QED
    BY <2>4, <2>5
<1>8. EndsOf(scripts_rx)' /\ EndsOf(webhooks_rx)'
  BY <1>2, <1>4, <1>7 DEF HookInv, EndsOf
<1>9. ThreadsInv'
  <2>1. Len(dispatched') - Len(scripts_rx') = n - Len(scripts_rx)
    BY <1>1, <1>2, <1>3, <1>4
  <2>2. thread[e] = 0
    BY <1>5 DEF HookInv, ThreadsInv, n
  <2>3. n - Len(scripts_rx) <= n
    BY <1>1, <1>4
  <2>4. ASSUME NEW i \in 1 .. n + 1
        PROVE  thread[dispatched'[i].event] # 0 <=> i <= n - Len(scripts_rx)
    <3>1. CASE i = n + 1
      BY <1>1, <1>4, <2>2, <3>1
    <3>2. CASE i \in 1 .. n
      BY <1>1, <3>2 DEF HookInv, ThreadsInv, n
    <3> QED
      BY <1>1, <3>1, <3>2
  <2>5. ASSUME NEW f \in Events, thread[f] # 0
        PROVE  \E i \in 1 .. n + 1 : dispatched'[i].event = f
    <3>1. PICK i \in 1 .. n : dispatched[i].event = f
      BY <2>5 DEF HookInv, ThreadsInv, n
    <3> QED
      BY <1>1, <3>1
  <2> QED
    BY <1>1, <1>2, <2>1, <2>4, <2>5 DEF ThreadsInv
<1>10. PostsInv'
  <2>1. Taken' = Taken /\ Taken \in Nat /\ Taken <= n
    BY <1>1, <1>2, <1>3, <1>4 DEF Taken, n, HookInv, EndsOf
  <2>2. \A p \in posts : Taken >= 1 /\ p[2] = dispatched'[Taken].event
    BY <1>1, <2>1 DEF HookInv, PostsInv
  <2>3. ASSUME NEW u \in Webhooks, NEW i \in 1 .. Len(posted[u])
        PROVE  \E k \in 1 .. Taken : dispatched'[k].event = posted[u][i]
    <3>1. PICK k \in 1 .. Taken : dispatched[k].event = posted[u][i]
      BY DEF HookInv, PostsInv
    <3>2. k \in 1 .. n
      BY <1>1, <2>1
    <3> QED
      BY <1>1, <3>1, <3>2
  <2>4. ASSUME NEW u \in Webhooks, NEW i \in 1 .. Len(posted[u]),
               NEW j \in 1 .. Len(posted[u]), i < j
        PROVE  \E k, l \in 1 .. n + 1 :
                 k < l /\ dispatched'[k].event = posted[u][i] /\ dispatched'[l].event = posted[u][j]
    <3>1. PICK k \in 1 .. n, l \in 1 .. n :
            k < l /\ dispatched[k].event = posted[u][i] /\ dispatched[l].event = posted[u][j]
      BY <2>4 DEF HookInv, PostsInv, PostedInOrder, n
    <3>2. k \in 1 .. n + 1 /\ l \in 1 .. n + 1
      BY <1>1
    <3>3. dispatched'[k] = dispatched[k] /\ dispatched'[l] = dispatched[l]
      BY <1>1
    <3> QED
      BY <3>1, <3>2, <3>3
  <2>5. PostedInOrder'
    BY <1>1, <1>2, <2>4 DEF PostedInOrder
  <2>6. \A p \in posts' : Taken' >= 1 /\ p[2] = dispatched'[Taken'].event
    BY <1>2, <2>1, <2>2
  <2>7. \A u \in Webhooks : \A i \in 1 .. Len(posted'[u]) :
          \E k \in 1 .. Taken' : dispatched'[k].event = posted'[u][i]
    BY <1>2, <2>1, <2>3
  <2> QED
    BY <2>5, <2>6, <2>7 DEF PostsInv
<1> QED
  BY <1>6, <1>8, <1>9, <1>10 DEF HookInv

(* The hooks' own tasks take events in turn, and post the last one taken.     *)
LEMMA TasksKeepHooks ==
    ASSUME Hook!HooksType, DispatchInv, HookInv, HookTasks
    PROVE  HookInv'
<1> DEFINE n == Len(dispatched)
<1>1. /\ dispatched' = dispatched /\ handler' = handler /\ n \in Nat
      /\ \A i \in 1 .. n : dispatched[i].event \in Events
  <2>1. dispatched \in Seq([event : Events, played : 0 .. MaxTime])
    BY DEF DispatchInv
  <2>2. \A i \in 1 .. n : dispatched[i] \in [event : Events, played : 0 .. MaxTime]
    BY <2>1, ElementOf
  <2> QED
    BY <2>1, <2>2 DEF HookTasks, requests
<1>2. OnceEach'
  BY <1>1 DEF HookInv, OnceEach
<1>3. \A rx \in Seq(Events) : rx # <<>> =>
        /\ Len(rx) \in Nat \ {0} /\ Len(Tail(rx)) = Len(rx) - 1 /\ Head(rx) = rx[1]
        /\ \A i \in 1 .. Len(rx) - 1 : Tail(rx)[i] = rx[i + 1]
  OBVIOUS
<1>4. /\ scripts_rx \in Seq(Events) /\ webhooks_rx \in Seq(Events)
      /\ Len(scripts_rx) \in Nat /\ Len(webhooks_rx) \in Nat
  BY DEF Hook!HooksType
<1>5. ASSUME NEW rx \in Seq(Events), rx # <<>>, EndsOf(rx)
      PROVE  EndsOf(Tail(rx)) /\ Head(rx) = dispatched[n - Len(rx) + 1].event
                              /\ n - Len(rx) + 1 \in 1 .. n
  <2>1. Len(rx) \in Nat \ {0} /\ Len(rx) <= n /\ Len(Tail(rx)) = Len(rx) - 1
    BY <1>3, <1>5 DEF EndsOf
  <2>2. ASSUME NEW i \in 1 .. Len(rx) - 1
        PROVE  Tail(rx)[i] = dispatched[n - (Len(rx) - 1) + i].event
    <3>1. Tail(rx)[i] = rx[i + 1] /\ i + 1 \in 1 .. Len(rx)
      BY <1>3, <1>5, <2>1
    <3>2. n - (Len(rx) - 1) + i = n - Len(rx) + (i + 1)
      BY <1>1, <2>1
    <3> QED
      BY <1>5, <3>1, <3>2 DEF EndsOf
  <2>3. EndsOf(Tail(rx))
    BY <1>1, <2>1, <2>2 DEF EndsOf
  <2>4. 1 \in 1 .. Len(rx) /\ Head(rx) = rx[1]
    BY <1>3, <1>5, <2>1
  <2>5. n - Len(rx) + 1 \in 1 .. n
    BY <1>1, <2>1
  <2> QED
    BY <1>5, <2>3, <2>4, <2>5 DEF EndsOf
<1>6. CASE Hook!StartScripts
  <2>1. /\ scripts_rx # <<>> /\ scripts_rx' = Tail(scripts_rx)
        /\ thread' = [thread EXCEPT ![Head(scripts_rx)] = 1]
        /\ webhooks_rx' = webhooks_rx /\ posts' = posts /\ posted' = posted
    BY <1>6 DEF Hook!StartScripts, Hook!Received
  <2> DEFINE m == n - Len(scripts_rx)
  <2>2. /\ EndsOf(Tail(scripts_rx)) /\ m + 1 \in 1 .. n
        /\ Head(scripts_rx) = dispatched[m + 1].event
    BY <1>4, <1>5, <2>1 DEF HookInv
  <2>3. n - Len(scripts_rx') = m + 1
    BY <1>1, <1>3, <1>4, <2>1
  <2>4. ASSUME NEW i \in 1 .. n
        PROVE  thread'[dispatched[i].event] # 0 <=> i <= m + 1
    <3>1. CASE i = m + 1
      BY <1>1, <2>1, <2>2, <3>1 DEF Hook!HooksType
    <3>2. CASE i # m + 1
      <4>1. dispatched[i].event # Head(scripts_rx)
        BY <2>2, <3>2 DEF HookInv, OnceEach
      <4>2. thread'[dispatched[i].event] = thread[dispatched[i].event]
        BY <1>1, <2>1, <4>1 DEF Hook!HooksType
      <4>3. i <= m <=> i <= m + 1
        BY <1>1, <1>4, <3>2
      <4> QED
        BY <4>2, <4>3 DEF HookInv, ThreadsInv
    <3> QED
      BY <3>1, <3>2
  <2>5. ASSUME NEW f \in Events, thread'[f] # 0
        PROVE  \E i \in 1 .. n : dispatched[i].event = f
    <3>1. CASE f = Head(scripts_rx)
      BY <2>2, <3>1
    <3>2. CASE f # Head(scripts_rx)
      BY <2>1, <2>5, <3>2 DEF Hook!HooksType, HookInv, ThreadsInv
    <3> QED
      BY <3>1, <3>2
  <2>6. ThreadsInv'
    BY <1>1, <2>3, <2>4, <2>5 DEF ThreadsInv
  <2>7. EndsOf(scripts_rx)' /\ EndsOf(webhooks_rx)' /\ PostsInv'
    BY <1>1, <2>1, <2>2 DEF HookInv, EndsOf, PostsInv, PostedInOrder, Taken
  <2> QED
    BY <1>2, <2>6, <2>7 DEF HookInv
<1>7. CASE Hook!StartPosts
  <2>1. /\ posts = {} /\ webhooks_rx # <<>> /\ webhooks_rx' = Tail(webhooks_rx)
        /\ posts' = posts \union Webhooks \X {Head(webhooks_rx)}
        /\ scripts_rx' = scripts_rx /\ thread' = thread /\ posted' = posted
    BY <1>7 DEF Hook!StartPosts, Hook!Joined
  <2>2. /\ EndsOf(Tail(webhooks_rx)) /\ Taken + 1 \in 1 .. n
        /\ Head(webhooks_rx) = dispatched[Taken + 1].event
    BY <1>4, <1>5, <2>1 DEF HookInv, Taken
  <2>3. Taken' = Taken + 1 /\ Taken \in Int
    BY <1>1, <1>3, <1>4, <2>1 DEF Taken
  <2>4. \A p \in posts' : p[2] = dispatched[Taken + 1].event
    BY <2>1, <2>2
  <2>5. PostsInv'
    BY <1>1, <2>1, <2>2, <2>3, <2>4 DEF HookInv, PostsInv, PostedInOrder
  <2>6. EndsOf(scripts_rx)' /\ EndsOf(webhooks_rx)' /\ ThreadsInv'
    BY <1>1, <2>1, <2>2 DEF HookInv, EndsOf, ThreadsInv
  <2> QED
    BY <1>2, <2>5, <2>6 DEF HookInv
<1>8. ASSUME NEW e \in Events, Hook!Evaluate(e) PROVE HookInv'
  <2>1. PICK next \in {thread[e] + 1, Hook!Over} : thread' = [thread EXCEPT ![e] = next]
    BY <1>8 DEF Hook!Evaluate
  <2>2. /\ thread[e] # 0 /\ next # 0
        /\ UNCHANGED <<scripts_rx, webhooks_rx, posts, posted>>
    BY <1>8, <2>1, ClockAssumption DEF Hook!Evaluate, Hook!Over
  <2>3. \A f \in Events : thread'[f] # 0 <=> thread[f] # 0
    BY <2>1, <2>2 DEF Hook!HooksType
  <2>4. ThreadsInv'
    BY <1>1, <2>2, <2>3 DEF HookInv, ThreadsInv
  <2>5. EndsOf(scripts_rx)' /\ EndsOf(webhooks_rx)' /\ PostsInv'
    BY <1>1, <2>2 DEF HookInv, EndsOf, PostsInv, PostedInOrder, Taken
  <2> QED
    BY <1>2, <2>4, <2>5 DEF HookInv
<1>9. ASSUME NEW e \in Events, NEW u \in Webhooks, Hook!Arrive(u, e) PROVE HookInv'
  <2>1. /\ <<u, e>> \in posts /\ \A i \in 1 .. Len(posted[u]) : posted[u][i] # e
        /\ posted' = [posted EXCEPT ![u] = Append(posted[u], e)]
        /\ UNCHANGED <<scripts_rx, thread, webhooks_rx, posts>>
    BY <1>9 DEF Hook!Arrive
  <2>0. \A v \in Webhooks : \A i, j \in 1 .. Len(posted[v]) :
          i < j => \E k, l \in 1 .. n :
            k < l /\ dispatched[k].event = posted[v][i] /\ dispatched[l].event = posted[v][j]
    BY DEF HookInv, PostsInv, PostedInOrder
  <2> DEFINE m == Len(posted[u])
  <2>2. Taken \in 1 .. n /\ e = dispatched[Taken].event
    BY <1>1, <1>4, <2>1 DEF HookInv, PostsInv, Taken, EndsOf
  <2>3. /\ m \in Nat /\ Len(posted'[u]) = m + 1 /\ posted'[u][m + 1] = e
        /\ \A i \in 1 .. m : posted'[u][i] = posted[u][i]
        /\ \A v \in Webhooks \ {u} : posted'[v] = posted[v]
    <3>1. posted[u] \in Seq(Events) /\ posted'[u] = Append(posted[u], e)
      BY <2>1 DEF Hook!HooksType
    <3>2. \A v \in Webhooks \ {u} : posted'[v] = posted[v]
      BY <2>1 DEF Hook!HooksType
    <3> QED
      BY <3>1, <3>2
  <2>4. ASSUME NEW v \in Webhooks, NEW i \in 1 .. Len(posted'[v])
        PROVE  \E k \in 1 .. Taken : dispatched[k].event = posted'[v][i]
    <3>1. CASE v # u \/ i # m + 1
      BY <2>3, <3>1 DEF HookInv, PostsInv
    <3>2. CASE v = u /\ i = m + 1
      BY <2>2, <2>3, <3>2
    <3> QED
      BY <3>1, <3>2
  <2>5. ASSUME NEW v \in Webhooks, NEW i \in 1 .. Len(posted'[v]),
               NEW j \in 1 .. Len(posted'[v]), i < j
        PROVE  \E k, l \in 1 .. n :
                 k < l /\ dispatched[k].event = posted'[v][i] /\ dispatched[l].event = posted'[v][j]
    <3>1. CASE v # u \/ j # m + 1
      <4>1. /\ i \in 1 .. Len(posted[v]) /\ j \in 1 .. Len(posted[v])
            /\ posted'[v][i] = posted[v][i] /\ posted'[v][j] = posted[v][j]
        BY <2>3, <2>5, <3>1
      <4> QED
        BY <2>0, <2>5, <4>1
    <3>2. CASE v = u /\ j = m + 1
      <4>1. i \in 1 .. m /\ posted'[v][i] = posted[u][i] /\ posted'[v][j] = e
        BY <2>3, <2>5, <3>2
      <4>2. PICK k \in 1 .. Taken : dispatched[k].event = posted[u][i]
        BY <4>1 DEF HookInv, PostsInv
      <4>3. k # Taken
        BY <2>1, <2>2, <4>1, <4>2
      <4> QED
        BY <2>2, <4>1, <4>2, <4>3
    <3> QED
      BY <3>1, <3>2
  <2>6. PostsInv'
    <3>1. Taken' = Taken
      BY <1>1, <2>1 DEF Taken
    <3>2. \A p \in posts' : Taken' >= 1 /\ p[2] = dispatched'[Taken'].event
      BY <1>1, <2>1, <3>1 DEF HookInv, PostsInv
    <3>3. PostedInOrder'
      BY <1>1, <2>5 DEF PostedInOrder
    <3> QED
      BY <1>1, <2>4, <3>1, <3>2, <3>3 DEF PostsInv
  <2>7. EndsOf(scripts_rx)' /\ EndsOf(webhooks_rx)' /\ ThreadsInv'
    BY <1>1, <2>1 DEF HookInv, EndsOf, ThreadsInv
  <2> QED
    BY <1>2, <2>6, <2>7 DEF HookInv
<1>10. ASSUME NEW e \in Events, NEW u \in Webhooks, Hook!PostEnds(u, e) PROVE HookInv'
  <2>1. posts' \subseteq posts /\ UNCHANGED <<scripts_rx, thread, webhooks_rx, posted>>
    BY <1>10 DEF Hook!PostEnds
  <2>2. EndsOf(scripts_rx)' /\ EndsOf(webhooks_rx)' /\ ThreadsInv'
    BY <1>1, <2>1 DEF HookInv, EndsOf, ThreadsInv
  <2>3. Taken' = Taken /\ PostedInOrder'
    BY <1>1, <2>1 DEF Taken, HookInv, PostsInv, PostedInOrder
  <2>4. PostsInv'
    BY <1>1, <2>1, <2>3 DEF HookInv, PostsInv
  <2> QED
    BY <1>2, <2>2, <2>4 DEF HookInv
<1> QED
  BY <1>6, <1>7, <1>8, <1>9, <1>10 DEF HookTasks, Hook!Next

(* HookInv holds in every state.                                              *)
LEMMA HookInvariant == Spec => []HookInv
<1> DEFINE Types == HandlersType /\ Hook!HooksType
<1>1. Init => HookInv
  <2> SUFFICES ASSUME Init PROVE HookInv
    OBVIOUS
  <2>1. /\ dispatched = <<>> /\ scripts_rx = <<>> /\ webhooks_rx = <<>> /\ posts = {}
        /\ thread = [e \in Events |-> 0] /\ posted = [u \in Webhooks |-> <<>>]
    BY DEF Init, Hook!Init
  <2> QED
    BY <2>1 DEF HookInv, OnceEach, EndsOf, ThreadsInv, PostsInv, PostedInOrder, Taken
<1>2. Types /\ DispatchInv /\ HookInv /\ ClockInv /\ [Next]_vars => HookInv'
  <2> SUFFICES ASSUME Types, DispatchInv, HookInv, ClockInv, [Next]_vars PROVE HookInv'
    OBVIOUS
  <2>1. ASSUME UNCHANGED <<dispatched, hooks>>,
               \A q \in Requests : handler'[q] = "waiting" => handler[q] = "waiting"
        PROVE  HookInv'
    <3>1. \A i \in 1 .. Len(dispatched) : dispatched[i].event \in Events
      <4>1. dispatched \in Seq([event : Events, played : 0 .. MaxTime])
        BY DEF DispatchInv
      <4>2. \A i \in 1 .. Len(dispatched) :
              dispatched[i] \in [event : Events, played : 0 .. MaxTime]
        BY <4>1, ElementOf
      <4> QED
        BY <4>2
    <3>2. OnceEach'
      BY <2>1, <3>1 DEF HookInv, OnceEach, Events
    <3>3. EndsOf(scripts_rx)' /\ EndsOf(webhooks_rx)' /\ ThreadsInv' /\ PostsInv'
      BY <2>1 DEF hooks, HookInv, EndsOf, ThreadsInv, PostsInv, PostedInOrder, Taken
    <3> QED
      BY <3>2, <3>3 DEF HookInv
  <2>2. ASSUME NEW q \in Requests, Broadcast(q) PROVE HookInv'
    BY <2>1, <2>2 DEF Broadcast, HandlersType
  <2>3. ASSUME NEW q \in Requests, NEW p \in BOOLEAN, Update(q, p) PROVE HookInv'
    <3>1. CASE Affected(p)
      <4> DEFINE e == Event(IF p THEN "onPause" ELSE "onUnpause", q)
                 d == [event |-> e, played |-> played]
      <4>1. /\ handler[q] = "waiting" /\ Hook!Dispatch(e)
            /\ dispatched' = Append(dispatched, d)
            /\ handler' = [handler EXCEPT ![q] = "unlocked"]
        BY <2>3, <3>1 DEF Update
      <4>2. e \in Events /\ e.by = q
        BY DEF Event, Events, Fns
      <4>3. d \in [event : Events, played : 0 .. MaxTime] /\ d.event = e
        BY <4>2 DEF ClockInv
      <4> HIDE DEF d, e
      <4> QED
        BY <4>1, <4>2, <4>3, DispatchKeepsHooks
    <3>2. CASE ~Affected(p)
      BY <2>1, <2>3, <3>2 DEF Update, HandlersType
    <3> QED
      BY <3>1, <3>2
  <2>4. CASE HookTasks
    BY <2>4, TasksKeepHooks
  <2>5. CASE Tick
    BY <2>1, <2>5 DEF Tick, requests
  <2>6. CASE Restart
    <3>1. /\ dispatched' = <<>> /\ scripts_rx' = <<>> /\ webhooks_rx' = <<>> /\ posts' = {}
          /\ thread' = [e \in Events |-> 0] /\ posted' = [u \in Webhooks |-> <<>>]
      BY <2>6 DEF Restart, Hook!Renew
    <3> QED
      BY <3>1 DEF HookInv, OnceEach, EndsOf, ThreadsInv, PostsInv, PostedInOrder, Taken
  <2>7. CASE UNCHANGED vars
    BY <2>1, <2>7 DEF vars, requests
  <2> QED
    BY <2>2, <2>3, <2>4, <2>5, <2>6, <2>7 DEF Next, Handler
<1> QED
  BY <1>1, <1>2, ClockInvariant, DispatchInvariant, TypesInvariant, PTL DEF Spec

(* EventsAccounted: both handlers of the hooks work off the dispatched events *)
(* in their order and skip none (ServerEvent::dispatch under the lock).       *)
THEOREM HooksSkipNoEvent == Spec => []EventsAccounted
<1>1. HookInv => EventsAccounted
  BY HookInvStates
<1> QED
  BY <1>1, HookInvariant, PTL

(* PostedInOrder: a webhook hears of events in their order, of each at most   *)
(* once (EventWebhookHandler::start awaits the POSTs of one event).           *)
THEOREM WebhooksHearInOrder == Spec => []PostedInOrder
<1>1. HookInv => PostedInOrder
  BY HookInvStates
<1> QED
  BY <1>1, HookInvariant, PTL

-----------------------------------------------------------------------------
(* Broadcasts *)

(* What a change is broadcast as, and how often b is in a sequence, still to  *)
(* be broadcast, or among the changes.                                        *)
ToldAs(d) ==
    IF d.event.fn = "onPause"
    THEN [kind |-> "GamePaused", time_left |-> 0]
    ELSE [kind |-> "GameUnpaused",
          time_left |-> IF d.played > Limit THEN 0 ELSE Limit - d.played]
PlacesOf(s, b) == {i \in 1 .. Len(s) : s[i] = b}
HoldersOf(b) == {q \in Requests : broadcast[q] = b}
ChangesOf(b) == {i \in 1 .. Len(dispatched) : ToldAs(dispatched[i]) = b}

(* Each change was broadcast or is in the hands of one request; at any time   *)
(* only finitely many have one in hand.                                       *)
BroadcastInv ==
    /\ \A q \in Requests : broadcast[q] # Silence <=> handler[q] = "unlocked"
    /\ \A b \in Broadcasts :
        /\ IsFiniteSet(HoldersOf(b))
        /\ Cardinality(PlacesOf(aired, b)) + Cardinality(HoldersOf(b))
            = Cardinality(ChangesOf(b))

(* A condition on the places of a sequence picks a finite set of them, and    *)
(* one more place adds one to it if the condition holds there.                *)
LEMMA PlacesFinite ==
    ASSUME NEW n \in Nat, NEW A \in SUBSET (1 .. n)
    PROVE  IsFiniteSet(A) /\ Cardinality(A) \in Nat
<1>1. IsFiniteSet(1 .. n)
  BY FS_Interval
<1>2. IsFiniteSet(A)
  BY <1>1, FS_Subset
<1> QED
  BY <1>2, FS_CardinalityType

LEMMA OneMorePlace ==
    ASSUME NEW n \in Nat, NEW A \in SUBSET (1 .. n)
    PROVE  Cardinality(A \union {n + 1}) = Cardinality(A) + 1
<1>1. IsFiniteSet(A)
  BY PlacesFinite
<1>2. n + 1 \notin A
  OBVIOUS
<1> QED
  BY <1>1, <1>2, FS_AddElement

LEMMA AppendedPlaces ==
    ASSUME NEW S, NEW s \in Seq(S), NEW x \in S, NEW b
    PROVE  /\ Cardinality(PlacesOf(s, b)) \in Nat
           /\ Cardinality(PlacesOf(Append(s, x), b))
              = Cardinality(PlacesOf(s, b)) + IF x = b THEN 1 ELSE 0
<1> DEFINE n == Len(s)
<1>1. /\ n \in Nat /\ Len(Append(s, x)) = n + 1 /\ Append(s, x)[n + 1] = x
      /\ \A i \in 1 .. n : Append(s, x)[i] = s[i]
  OBVIOUS
<1>2. PlacesOf(s, b) \in SUBSET (1 .. n)
  BY DEF PlacesOf
<1>3. PlacesOf(Append(s, x), b) = PlacesOf(s, b) \union (IF x = b THEN {n + 1} ELSE {})
  BY <1>1 DEF PlacesOf
<1>4. Cardinality(PlacesOf(s, b)) \in Nat
  BY <1>1, <1>2, PlacesFinite
<1>5. CASE x = b
  BY <1>1, <1>2, <1>3, <1>5, OneMorePlace, <1>4
<1>6. CASE x # b
  BY <1>3, <1>4, <1>6
<1> QED
  BY <1>4, <1>5, <1>6

(* A change is dispatched and left to its request to broadcast.               *)
LEMMA UpdateKeepsBroadcasts ==
    ASSUME ClockInv, HandlersType, DispatchInv, BroadcastInv,
           NEW q \in Requests, NEW p \in BOOLEAN, Update(q, p), Affected(p)
    PROVE  BroadcastInv'
<1> DEFINE e == Event(IF p THEN "onPause" ELSE "onUnpause", q)
           d == [event |-> e, played |-> played]
           w == [kind |-> Paused(p), time_left |-> IF p THEN 0 ELSE TimeLeft(CurrentTime)]
           n == Len(dispatched)
<1>1. /\ handler[q] = "waiting" /\ handler' = [handler EXCEPT ![q] = "unlocked"]
      /\ dispatched' = Append(dispatched, d) /\ aired' = aired
      /\ broadcast' = [broadcast EXCEPT ![q] = w]
  BY DEF Update, Announce
<1>2. ToldAs(d) = w
  BY ShowsPlayed DEF ToldAs, Event, Paused, TimeIsPlayed, TimeLeft
<1>3. w # Silence /\ broadcast[q] = Silence
  BY <1>1 DEF Paused, Silence, BroadcastInv
<1>4. d \in [event : Events, played : 0 .. MaxTime]
  BY DEF Event, Events, Fns, ClockInv
<1> HIDE DEF e, d, w
<1>5. /\ n \in Nat /\ Len(dispatched') = n + 1 /\ dispatched'[n + 1] = d
      /\ \A i \in 1 .. n : dispatched'[i] = dispatched[i]
  BY <1>1, <1>4 DEF DispatchInv
<1> HIDE DEF n
<1>6. \A r \in Requests : broadcast'[r] # Silence <=> handler'[r] = "unlocked"
  BY <1>1, <1>3 DEF HandlersType, BroadcastInv
<1>7. ASSUME NEW b \in Broadcasts
      PROVE  /\ IsFiniteSet(HoldersOf(b)')
             /\ Cardinality(PlacesOf(aired, b)) + Cardinality(HoldersOf(b)')
                 = Cardinality(ChangesOf(b)')
  <2>1. b # Silence
    BY DEF Broadcasts, Silence
  <2>2. HoldersOf(b)' = IF b = w THEN HoldersOf(b) \union {q} ELSE HoldersOf(b)
    BY <1>1, <1>3, <2>1 DEF HoldersOf, HandlersType
  <2>3. q \notin HoldersOf(b)
    BY <1>3, <2>1 DEF HoldersOf
  <2>4. ChangesOf(b)' = IF b = w THEN ChangesOf(b) \union {n + 1} ELSE ChangesOf(b)
    BY <1>2, <1>5 DEF ChangesOf, n
  <2>5. ChangesOf(b) \in SUBSET (1 .. n)
    BY DEF ChangesOf, n
  <2>6. /\ IsFiniteSet(HoldersOf(b)) /\ Cardinality(HoldersOf(b)) \in Nat
        /\ Cardinality(PlacesOf(aired, b)) + Cardinality(HoldersOf(b)) = Cardinality(ChangesOf(b))
    BY FS_CardinalityType DEF BroadcastInv
  <2>7. Cardinality(PlacesOf(aired, b)) \in Nat
    <3>1. PlacesOf(aired, b) \in SUBSET (1 .. Len(aired)) /\ Len(aired) \in Nat
      BY DEF PlacesOf, HandlersType
    <3> QED
      BY <3>1, PlacesFinite
  <2>8. CASE b = w
    <3>1. /\ IsFiniteSet(HoldersOf(b)')
          /\ Cardinality(HoldersOf(b)') = Cardinality(HoldersOf(b)) + 1
      <4>1. PICK H : H = HoldersOf(b)
        OBVIOUS
      <4>2. IsFiniteSet(H) /\ q \notin H /\ HoldersOf(b)' = H \union {q}
        BY <2>2, <2>3, <2>6, <2>8, <4>1
      <4>3. IsFiniteSet(H \union {q}) /\ Cardinality(H \union {q}) = Cardinality(H) + 1
        BY <4>2, FS_AddElement
      <4> QED
        BY <4>1, <4>2, <4>3
    <3>2. Cardinality(ChangesOf(b)') = Cardinality(ChangesOf(b)) + 1
      BY <1>5, <2>4, <2>5, <2>8, OneMorePlace
    <3> QED
      BY <2>6, <2>7, <3>1, <3>2
  <2>9. CASE b # w
    BY <2>2, <2>4, <2>6, <2>9
  <2> QED
    BY <2>8, <2>9
<1> QED
  BY <1>1, <1>6, <1>7 DEF BroadcastInv, HoldersOf, ChangesOf

(* What a request had in hand is on the air.                                  *)
LEMMA BroadcastIsAired ==
    ASSUME HandlersType, BroadcastInv, NEW q \in Requests, Broadcast(q)
    PROVE  BroadcastInv'
<1> DEFINE w == broadcast[q]
<1>1. /\ handler[q] = "unlocked" /\ handler' = [handler EXCEPT ![q] = "done"]
      /\ aired' = Append(aired, w) /\ broadcast' = [broadcast EXCEPT ![q] = Silence]
      /\ dispatched' = dispatched
  BY DEF Broadcast
<1>2. w \in Broadcasts /\ aired \in Seq(Broadcasts)
  BY <1>1 DEF HandlersType
<1>3. \A r \in Requests : broadcast'[r] # Silence <=> handler'[r] = "unlocked"
  BY <1>1 DEF HandlersType, BroadcastInv
<1>4. ASSUME NEW b \in Broadcasts
      PROVE  /\ IsFiniteSet(HoldersOf(b)')
             /\ Cardinality(PlacesOf(aired', b)) + Cardinality(HoldersOf(b)')
                 = Cardinality(ChangesOf(b))
  <2>1. b # Silence
    BY DEF Broadcasts, Silence
  <2>2. HoldersOf(b)' = HoldersOf(b) \ {q} /\ (q \in HoldersOf(b) <=> w = b)
    BY <1>1, <2>1 DEF HoldersOf, HandlersType
  <2>3. /\ IsFiniteSet(HoldersOf(b)) /\ Cardinality(HoldersOf(b)) \in Nat
        /\ Cardinality(PlacesOf(aired, b)) + Cardinality(HoldersOf(b)) = Cardinality(ChangesOf(b))
    BY FS_CardinalityType DEF BroadcastInv
  <2>4. /\ IsFiniteSet(HoldersOf(b)')
        /\ Cardinality(HoldersOf(b)') = Cardinality(HoldersOf(b)) - IF w = b THEN 1 ELSE 0
    BY <2>2, <2>3, FS_RemoveElement
  <2>5. /\ Cardinality(PlacesOf(aired, b)) \in Nat
        /\ Cardinality(PlacesOf(aired', b))
            = Cardinality(PlacesOf(aired, b)) + IF w = b THEN 1 ELSE 0
    BY <1>1, <1>2, AppendedPlaces
  <2> HIDE DEF w
  <2> QED
    BY <2>3, <2>4, <2>5
<1> QED
  BY <1>1, <1>3, <1>4 DEF BroadcastInv, ChangesOf

(* A process without changes has nothing to tell.                             *)
LEMMA NothingToTell ==
    ASSUME handler \in [Requests -> {"waiting", "done"}],
           broadcast = [q \in Requests |-> Silence], aired = <<>>, dispatched = <<>>
    PROVE  BroadcastInv
<1>1. \A b \in Broadcasts : HoldersOf(b) = {} /\ PlacesOf(aired, b) = {} /\ ChangesOf(b) = {}
  BY DEF HoldersOf, PlacesOf, ChangesOf, Broadcasts, Silence
<1>2. \A q \in Requests : broadcast[q] = Silence /\ handler[q] # "unlocked"
  OBVIOUS
<1>3. IsFiniteSet({}) /\ Cardinality({}) = 0 /\ 0 + 0 = 0
  BY FS_EmptySet
<1> QED
  BY <1>1, <1>2, <1>3 DEF BroadcastInv

(* BroadcastInv holds in every state.                                         *)
LEMMA BroadcastInvariant == Spec => []BroadcastInv
<1>1. Init => BroadcastInv
  BY NothingToTell DEF Init
<1>2. ClockInv /\ HandlersType /\ DispatchInv /\ BroadcastInv /\ [Next]_vars => BroadcastInv'
  <2> SUFFICES ASSUME ClockInv, HandlersType, DispatchInv, BroadcastInv, [Next]_vars
               PROVE  BroadcastInv'
    OBVIOUS
  <2>1. ASSUME UNCHANGED <<broadcast, aired, dispatched>>,
               \A q \in Requests : handler'[q] = "unlocked" <=> handler[q] = "unlocked"
        PROVE  BroadcastInv'
    BY <2>1 DEF BroadcastInv, HoldersOf, PlacesOf, ChangesOf
  <2>2. ASSUME NEW q \in Requests, Broadcast(q) PROVE BroadcastInv'
    BY <2>2, BroadcastIsAired
  <2>3. ASSUME NEW q \in Requests, NEW p \in BOOLEAN, Update(q, p) PROVE BroadcastInv'
    <3>1. CASE Affected(p)
      BY <2>3, <3>1, UpdateKeepsBroadcasts
    <3>2. CASE ~Affected(p)
      BY <2>1, <2>3, <3>2 DEF Update, HandlersType
    <3> QED
      BY <3>1, <3>2
  <2>4. CASE HookTasks
    BY <2>1, <2>4 DEF HookTasks, requests
  <2>5. CASE Tick
    BY <2>1, <2>5 DEF Tick, requests
  <2>6. CASE Restart
    <3>1. /\ handler' \in [Requests -> {"waiting", "done"}]
          /\ broadcast' = [q \in Requests |-> Silence] /\ aired' = <<>> /\ dispatched' = <<>>
      BY <2>6 DEF Restart
    <3>2. \A b \in Broadcasts :
            HoldersOf(b)' = {} /\ PlacesOf(aired, b)' = {} /\ ChangesOf(b)' = {}
      BY <3>1 DEF HoldersOf, PlacesOf, ChangesOf, Broadcasts, Silence
    <3>3. \A q \in Requests : broadcast'[q] = Silence /\ handler'[q] # "unlocked"
      BY <3>1
    <3>4. IsFiniteSet({}) /\ Cardinality({}) = 0 /\ 0 + 0 = 0
      BY FS_EmptySet
    <3> QED
      BY <3>2, <3>3, <3>4 DEF BroadcastInv
  <2>7. CASE UNCHANGED vars
    BY <2>1, <2>7 DEF vars, requests
  <2> QED
    BY <2>2, <2>3, <2>4, <2>5, <2>6, <2>7 DEF Next, Handler
<1> QED
  BY <1>1, <1>2, ClockInvariant, DispatchInvariant, TypesInvariant, PTL DEF Spec

(* AiredMatchesEvents: of each change one broadcast is made or about to be    *)
(* made, with the time left at the change (patch_clock).                      *)
THEOREM EveryChangeIsBroadcast == Spec => []AiredMatchesEvents
<1>1. BroadcastInv => AiredMatchesEvents
  BY DEF BroadcastInv, HoldersOf, PlacesOf, ChangesOf, ToldAs, AiredMatchesEvents
<1> QED
  BY <1>1, BroadcastInvariant, PTL
=============================================================================
