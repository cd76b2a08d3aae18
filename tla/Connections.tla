----------------------------- MODULE Connections -----------------------------
(***************************************************************************)
(* WebSocketManager: the open websockets by key, the tasks that wait for a *)
(* user to connect, broadcasts, and the life of a socket task from         *)
(* add_connection to the deferred remove_connection.                       *)
(*                                                                         *)
(* The two maps are DashMaps without a common lock, so an operation that   *)
(* touches both is two steps.  What is sent on a socket is left to module  *)
(* Delivery; here a message is only a reason to look at the channel.       *)
(***************************************************************************)
EXTENDS Clients

CONSTANTS
    Waiters,     \* tasks that call wait_for_connection, over and over
    WaitsFor     \* the user each of them wants to reach

VARIABLES
    sock,        \* sock[s]: how far the task of socket s has got
    active,      \* active_connections: the sockets whose tx is in the map
    waiting,     \* waiting_connections: waiting[u] holds the tasks that registered
    wait,        \* wait[w]: where task w is in wait_for_connection
    client       \* client[w]: the ConnectedClient that w holds or has been given

table == <<sock, active>>
waiters == <<waiting, wait, client>>
connections == <<table, waiters>>

SockStates == {"new", "greeting", "writing", "open", "ended", "gone"}
WaitStates == {"idle", "checked", "waiting", "given", "have"}

Serves(s) == sock[s] \in {"writing", "open"}        \* handle_socket, after add_connection
Listens(s) == sock[s] = "greeting" \/ Serves(s)    \* rx has not been dropped
HasSender(s) == s \in active \/ \E w \in Waiters : client[w] = s

Init ==
    /\ sock = [s \in Sockets |-> "new"]
    /\ active = {}
    /\ waiting = [u \in Users |-> {}]
    /\ wait = [w \in Waiters |-> "idle"]
    /\ client = [w \in Waiters |-> NoSocket]

-----------------------------------------------------------------------------
(* Sockets *)

AnyoneWaiting(s) == {w \in Waiters : wait[w] = "waiting"}         \* faulty
Woken(s) == {w \in Waiters : /\ UserOf[s] # NoUser
                             /\ w \in waiting[UserOf[s]] /\ wait[w] = "waiting"}

(* add_connection, first half: the user's waiters are taken out of their map *)
(* and given the new client; those who have timed out no longer listen.      *)
Greet(s) ==
    /\ sock[s] = "new"
    /\ sock' = [sock EXCEPT ![s] = "greeting"]
    /\ wait' = [w \in Waiters |-> IF w \in Woken(s) THEN "given" ELSE wait[w]]
    /\ client' = [w \in Waiters |-> IF w \in Woken(s) THEN s ELSE client[w]]
    /\ waiting' = [u \in Users |-> IF u = UserOf[s] THEN {} ELSE waiting[u]]
    /\ UNCHANGED active

(* Second half: active_connections.insert, in place of what is at its key.   *)
(* The task goes on to write its first ping.                                 *)
Insert(s) ==
    /\ sock[s] = "greeting"
    /\ sock' = [sock EXCEPT ![s] = "writing"]
    /\ active' = (active \ SameKey(s)) \union {s}
    /\ UNCHANGED waiters

(* select! has a message for the peer, or a ping of the peer to answer: the  *)
(* task awaits ws.send inside the branch and looks at neither channel.       *)
Write(s) ==
    /\ sock[s] = "open"
    /\ sock' = [sock EXCEPT ![s] = "writing"]
    /\ UNCHANGED <<active, waiters>>

(* The write is over.  It may never be, if the peer does not read. *)
Written(s) ==
    /\ sock[s] = "writing"
    /\ sock' = [sock EXCEPT ![s] = "open"]
    /\ UNCHANGED <<active, waiters>>

(* handle_socket returns: the peer has gone, or a write fails. *)
Leave(s) ==
    /\ Serves(s)
    /\ sock' = [sock EXCEPT ![s] = "ended"]
    /\ UNCHANGED <<active, waiters>>

(* It ends also when rx.recv returns None: every clone of tx is gone. *)
Close(s) ==
    /\ sock[s] = "open"
    /\ ~HasSender(s)
    /\ sock' = [sock EXCEPT ![s] = "ended"]
    /\ UNCHANGED <<active, waiters>>

Forget(s) == UNCHANGED active                                    \* faulty
RemoveConnection(s) == active' = active \ SameKey(s)

(* The deferred remove_connection(&who). *)
Deferred(s) ==
    /\ sock[s] = "ended"
    /\ sock' = [sock EXCEPT ![s] = "gone"]
    /\ RemoveConnection(s)
    /\ UNCHANGED waiters

(* broadcast: entries whose task has dropped rx are taken out of the map. *)
Broadcast ==
    /\ active # {}
    /\ active' = {s \in active : Listens(s)}
    /\ UNCHANGED <<sock, waiters>>

-----------------------------------------------------------------------------
(* wait_for_connection *)

CheckActive(w) ==
    /\ wait[w] = "idle"
    /\ \/ \E s \in active :
            /\ UserOf[s] = WaitsFor[w]
            /\ wait' = [wait EXCEPT ![w] = "have"]
            /\ client' = [client EXCEPT ![w] = s]
       \/ /\ \A s \in active : UserOf[s] # WaitsFor[w]
          /\ wait' = [wait EXCEPT ![w] = "checked"]
          /\ UNCHANGED client
    /\ UNCHANGED <<table, waiting>>

Register(w) ==
    /\ wait[w] = "checked"
    /\ wait' = [wait EXCEPT ![w] = "waiting"]
    /\ waiting' = [waiting EXCEPT ![WaitsFor[w]] = @ \union {w}]
    /\ UNCHANGED <<table, client>>

(* The oneshot resolves. *)
Wake(w) ==
    /\ wait[w] = "given"
    /\ wait' = [wait EXCEPT ![w] = "have"]
    /\ UNCHANGED <<table, waiting, client>>

(* 30 seconds have passed; what was registered stays in the map. *)
TimeOut(w) ==
    /\ wait[w] = "waiting"
    /\ wait' = [wait EXCEPT ![w] = "idle"]
    /\ UNCHANGED <<table, waiting, client>>

KeepClient(w) == UNCHANGED client                                \* faulty
DropClient(w) == client' = [client EXCEPT ![w] = NoSocket]

(* The caller is done with the client it got. *)
Release(w) ==
    /\ wait[w] = "have"
    /\ wait' = [wait EXCEPT ![w] = "idle"]
    /\ DropClient(w)
    /\ UNCHANGED <<table, waiting>>

-----------------------------------------------------------------------------
Socket(s) ==
    \/ Greet(s) \/ Insert(s) \/ Write(s) \/ Written(s)
    \/ Leave(s) \/ Close(s) \/ Deferred(s)

Next ==
    \/ \E s \in Sockets : Socket(s)
    \/ Broadcast
    \/ \E w \in Waiters :
        CheckActive(w) \/ Register(w) \/ Wake(w) \/ TimeOut(w) \/ Release(w)

Spec == Init /\ [][Next]_connections

-----------------------------------------------------------------------------
ConnectionsType ==
    /\ sock \in [Sockets -> SockStates]
    /\ active \subseteq Sockets
    /\ waiting \in [Users -> SUBSET Waiters]
    /\ wait \in [Waiters -> WaitStates]
    /\ client \in [Waiters -> Sockets \union {NoSocket}]

(* Nobody is ever handed the connection of another user, or of a leaderboard *)
(* (the maps of add_connection and wait_for_connection).                     *)
RightUser == \A w \in Waiters :
    client[w] # NoSocket => UserOf[client[w]] = WaitsFor[w]

(* The table holds at most one socket for a key, never one whose task is     *)
(* over, and a socket is in it only from its insert to its deferred removal. *)
(* One in use is missing only where another of its user has been: one that   *)
(* took its place, or an older one whose deferred removal goes by the key    *)
(* and has hit the newer connection (connect.rs:62).                         *)
TableIsCurrent ==
    /\ \A s \in active :
        /\ Serves(s) \/ sock[s] = "ended"
        /\ \A t \in active : t \in SameKey(s) => t = s
    /\ \A s \in Sockets \ active : Serves(s) =>
        \E t \in SameKey(s) \ {s} : Serves(t) \/ sock[t] \in {"ended", "gone"}

(* websocket.rs:99 says of wait_for_connection: "If the websocket does not   *)
(* occur before `timeout` has elapsed, this function returns `None`".  It    *)
(* should then not return None to a task whose user is connected; but the    *)
(* user may connect between its look at one map and its entry in the other.  *)
TimeoutMeansAbsent == [][\A w \in Waiters :
    wait[w] = "waiting" /\ wait'[w] = "idle" =>
        \A s \in active : UserOf[s] # WaitsFor[w]]_connections
=============================================================================
