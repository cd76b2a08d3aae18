------------------------------- MODULE Clock -------------------------------
(***************************************************************************)
(* The clock of the competition (server/clock.rs) and PATCH /clock         *)
(* (services/clock.rs).  A handler holds the write lock from the reading   *)
(* of the clock to the dispatch of the event and awaits nothing meanwhile, *)
(* so that part is one step; it broadcasts after the lock is gone, where   *)
(* other handlers may come in between.                                     *)
(***************************************************************************)
EXTENDS Naturals, Sequences, FiniteSets

CONSTANTS
    Requests,       \* PATCH requests of hosts
    Limit,          \* time_limit, in ticks
    EventHandlers, Webhooks,    \* see Hooks
    MaxTime,        \* bound of the model: ticks that may pass
    MaxRestarts     \* bound of the model: restarts that may happen

ASSUME ClockAssumption ==
    /\ Limit \in Nat /\ MaxTime \in Nat \ {0} /\ MaxRestarts \in Nat
    /\ EventHandlers \in Nat

VARIABLES
    now,                \* Instant::now(), in ticks
    start_time, pause_time, total_time_paused,  \* ClockInfo
    handler,            \* handler[q]: how far the request has come
    broadcast,          \* broadcast[q]: what q still has to broadcast
    aired,              \* the broadcasts, in the order of their sending
    scripts_rx, thread, webhooks_rx, posts, posted,     \* see Hooks
    dispatched,         \* history: the events of this process, and when they were
    played,             \* history: ticks that passed while the game was on
    restarts            \* history: how often the server has been restarted

Fns == {"onPause", "onUnpause"}
Event(f, q) == [fn |-> f, by |-> q]
Events == [fn : Fns, by : Requests]

Hook == INSTANCE Hooks

clock == <<start_time, pause_time, total_time_paused>>
hooks == <<scripts_rx, thread, webhooks_rx, posts, posted>>
requests == <<handler, broadcast, aired>>
vars == <<now, clock, requests, hooks, dispatched, played, restarts>>

NotPaused == MaxTime + 1        \* pause_time is None
is_paused == pause_time # NotPaused
Paused(p) == IF p THEN "GamePaused" ELSE "GameUnpaused"
Silence == [kind |-> "none", time_left |-> 0]
Broadcasts == [kind : {"GamePaused", "GameUnpaused"}, time_left : 0 .. Limit]

(* ClockInfo::default reads the time twice; a tick may come in between. *)
Default ==
    /\ start_time' = now
    /\ pause_time' = now'
    /\ total_time_paused' = 0
    /\ played' = now' - now

Init ==
    /\ now \in 0 .. 1
    /\ start_time = 0 /\ pause_time = now /\ total_time_paused = 0
    /\ handler = [q \in Requests |-> "waiting"]
    /\ broadcast = [q \in Requests |-> Silence]
    /\ aired = <<>>
    /\ Hook!Init
    /\ dispatched = <<>>
    /\ played = now
    /\ restarts = 0

-----------------------------------------------------------------------------
(* ClockInfo *)

Since(t) == IF now > t THEN now - t ELSE 0      \* Instant::elapsed

(* While the clock is paused, start_time is moved by the pause under way. *)
CurrentTimeRunning ==                                            \* faulty
    Since(start_time + total_time_paused)
CurrentTime ==
    Since(start_time + total_time_paused + IF is_paused THEN Since(pause_time) ELSE 0)

TimeLeft(d) == IF d > Limit THEN 0 ELSE Limit - d

PauseAgain ==                                                    \* faulty
    /\ pause_time' = now
    /\ UNCHANGED <<start_time, total_time_paused>>
Pause ==
    /\ pause_time' = IF is_paused THEN pause_time ELSE now
    /\ UNCHANGED <<start_time, total_time_paused>>

Unpause ==
    /\ total_time_paused' = total_time_paused + IF is_paused THEN Since(pause_time) ELSE 0
    /\ pause_time' = NotPaused
    /\ UNCHANGED start_time

-----------------------------------------------------------------------------
(* PATCH /clock *)

AffectedAlways(p) == TRUE                                        \* faulty
Affected(p) == ~(p <=> is_paused)

Announce(q, p) == broadcast' = [broadcast EXCEPT ![q] =
    [kind |-> Paused(p), time_left |-> IF p THEN 0 ELSE TimeLeft(CurrentTime)]]

(* patch_clock under the write lock: the time is read before the change. *)
Update(q, p) ==
    /\ handler[q] = "waiting"
    /\ IF p THEN Pause ELSE Unpause
    /\ IF Affected(p)
       THEN LET e == Event(IF p THEN "onPause" ELSE "onUnpause", q) IN
            /\ Hook!Dispatch(e)
            /\ dispatched' = Append(dispatched, [event |-> e, played |-> played])
            /\ Announce(q, p)
            /\ handler' = [handler EXCEPT ![q] = "unlocked"]
       ELSE /\ handler' = [handler EXCEPT ![q] = "done"]
            /\ UNCHANGED <<broadcast, hooks, dispatched>>
    /\ UNCHANGED <<now, aired, played, restarts>>

(* After the lock is released. *)
Broadcast(q) ==
    /\ handler[q] = "unlocked"
    /\ aired' = Append(aired, broadcast[q])
    /\ broadcast' = [broadcast EXCEPT ![q] = Silence]
    /\ handler' = [handler EXCEPT ![q] = "done"]
    /\ UNCHANGED <<now, clock, hooks, dispatched, played, restarts>>

-----------------------------------------------------------------------------
(* Time passes, and the server is restarted with a clock that starts over. *)

Tick ==
    /\ now < MaxTime
    /\ now' = now + 1
    /\ played' = IF is_paused THEN played ELSE played + 1
    /\ UNCHANGED <<clock, requests, hooks, dispatched, restarts>>

Restart ==
    /\ restarts < MaxRestarts
    /\ restarts' = restarts + 1
    /\ now' \in {now, now + 1} /\ now' <= MaxTime
    /\ Default
    /\ handler' = [q \in Requests |-> IF handler[q] = "waiting" THEN "waiting" ELSE "done"]
    /\ broadcast' = [q \in Requests |-> Silence]
    /\ aired' = <<>>
    /\ Hook!Renew
    /\ dispatched' = <<>>

Handler(q) == Broadcast(q) \/ \E p \in BOOLEAN : Update(q, p)

HookTasks == Hook!Next /\ UNCHANGED <<now, clock, requests, dispatched, played, restarts>>

Next ==
    \/ \E q \in Requests : Handler(q)
    \/ HookTasks
    \/ Tick
    \/ Restart

Spec == Init /\ [][Next]_vars

-----------------------------------------------------------------------------
(* Properties *)

TypeOK ==
    /\ now \in 0 .. MaxTime
    /\ start_time \in 0 .. MaxTime
    /\ pause_time \in 0 .. NotPaused
    /\ total_time_paused \in 0 .. MaxTime
    /\ handler \in [Requests -> {"waiting", "unlocked", "done"}]
    /\ broadcast \in [Requests -> Broadcasts \union {Silence}]
    /\ aired \in Seq(Broadcasts)
    /\ Hook!HooksType
    /\ dispatched \in Seq([event : Events, played : 0 .. MaxTime])
    /\ played \in 0 .. MaxTime
    /\ restarts \in 0 .. MaxRestarts

(* The time on the clock is the time the game has been on, whatever the      *)
(* order and number of the requests to pause and unpause it (ClockInfo).     *)
TimeIsPlayed == CurrentTime = played

(* Hooks hear of pauses and unpauses in turn, the first an unpause, and the  *)
(* last tells what the clock is now: the dispatch is under the lock.         *)
EventsAlternate ==
    /\ \A i \in 1 .. Len(dispatched) :
        dispatched[i].event.fn = IF i % 2 = 1 THEN "onUnpause" ELSE "onPause"
    /\ is_paused <=> Len(dispatched) % 2 = 0

(* Of each change one broadcast is made or about to be made, and an unpause  *)
(* comes with the time left at the change, 0 when the limit is over.         *)
(* Nothing keeps the broadcasts in the order of the changes (patch_clock).   *)
AiredMatchesEvents ==
    LET Of(d) == IF d.event.fn = "onPause"
                 THEN [kind |-> "GamePaused", time_left |-> 0]
                 ELSE [kind |-> "GameUnpaused",
                       time_left |-> IF d.played > Limit THEN 0 ELSE Limit - d.played]
        Count(s, b) == Cardinality({i \in 1 .. Len(s) : s[i] = b})
    IN  \A b \in Broadcasts :
            Count(aired, b) + Cardinality({q \in Requests : broadcast[q] = b})
            = Cardinality({i \in 1 .. Len(dispatched) : Of(dispatched[i]) = b})

(* A webhook hears of events in the order they happened, and of each at most *)
(* once: the handler waits for the POSTs of one before it takes the next.    *)
PostedInOrder == \A u \in Webhooks : \A i, j \in 1 .. Len(posted[u]) :
    i < j => \E k, l \in 1 .. Len(dispatched) :
        k < l /\ dispatched[k].event = posted[u][i] /\ dispatched[l].event = posted[u][j]

(* The handlers work off the same events in the same order, and skip none:   *)
(* what has not been taken is the end of what was dispatched.                *)
EventsAccounted ==
    LET Ends(rx) == Len(rx) <= Len(dispatched) /\ \A i \in 1 .. Len(rx) :
            rx[i] = dispatched[Len(dispatched) - Len(rx) + i].event
    IN  /\ Ends(scripts_rx) /\ Ends(webhooks_rx)
        /\ \A i \in 1 .. Len(dispatched) :
            thread[dispatched[i].event] # 0 <=> i <= Len(dispatched) - Len(scripts_rx)
=============================================================================
