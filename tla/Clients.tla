------------------------------ MODULE Clients ------------------------------
(***************************************************************************)
(* Who may connect: the accounts, and the websockets opened in the life of *)
(* a server.  A socket's user is decided once, when the upgrade presents a *)
(* session (connect_websocket), so it is a constant of the socket.         *)
(***************************************************************************)
CONSTANTS
    Users,
    Sockets,     \* upgrades of GET /ws, each one a task of its own
    UserOf,      \* the user a socket authenticated as, or NoUser (a leaderboard)
    NoUser,
    NoSocket     \* no ConnectedClient at hand

ASSUME ClientsAssumption ==
    /\ NoUser \notin Users
    /\ UserOf \in [Sockets -> Users \union {NoUser}]
    /\ NoSocket \notin Sockets

(* The sockets under the key (ConnectionKind) of s: those of its user, and a *)
(* leaderboard's own, since each draws a LeaderboardId.                      *)
SameKey(s) == {s} \union {t \in Sockets : UserOf[t] = UserOf[s] /\ UserOf[s] # NoUser}
=============================================================================
