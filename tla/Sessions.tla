------------------------------ MODULE Sessions ------------------------------
(***************************************************************************)
(* Who is logged in: the tables users and sessions, the flags that         *)
(* TeamManagement keeps for each team, and the handlers that change them.  *)
(* A handler is cut into the parts between its awaits.  A statement and    *)
(* the part that follows it are two steps; a handler that is cut off at an *)
(* await (the client hangs up, a query fails) leaves its statement done or *)
(* undone, and the rest of it is not run.                                  *)
(*                                                                         *)
(* Left to a choice: whether a password fits, whether a username is taken. *)
(* The broadcasts at the end of the handlers are those of Connections.     *)
(***************************************************************************)
EXTENDS Naturals, FiniteSets

CONSTANTS
    Users, Hosts,       \* the ids drawn for accounts, and those with Role::Host
    Configured,         \* those ingested from the configuration
    Fields, Values,     \* of an account, as far as PATCH /teams/{id} changes it
    DefaultValue,
    Patches,            \* the patches that are sent: fields and their new values
    Requests,           \* HTTP requests; a login's session id is the login itself
    Earlier, OwnerOf,   \* sessions of earlier processes, and whose they are
    Nobody, NoSession,
    MaxRestarts         \* bound of the model: restarts that may happen

ASSUME SessionsAssumption ==
    /\ Hosts \subseteq Configured /\ Configured \subseteq Users
    /\ DefaultValue \in Values
    /\ Patches \subseteq UNION {[F -> Values] : F \in SUBSET Fields}
    /\ OwnerOf \in [Earlier -> Configured]
    /\ Requests \intersect Earlier = {}
    /\ Nobody \notin Users /\ NoSession \notin Requests \union Earlier
    /\ MaxRestarts \in Nat

VARIABLES
    users,      \* table users: the ids that have a row
    account,    \* the fields of each row
    sessions,   \* table sessions: the ids that have a row
    expired,    \* sessions whose expires_at has passed
    teams,      \* TeamManagement
    at,         \* at[q]: where the handler of request q is, or how it ended
    kind,       \* kind[q]: what an authenticated request asks for
    token,      \* token[q]: the session it presents
    who,        \* who[q]: the account that a login or a patch is about
    patch,      \* patch[q]: the fields a patch sets
    draft,      \* draft[q]: the account it is about to store
    batch,      \* batch[q]: the accounts add_team creates
    heard,      \* history: how often OnCheckIn was dispatched, by this process
    silent,     \* history: sessions that were opened without a check-in here
    stranded,   \* history: teams whose add_team was cut off after the commit
    excused,    \* history: teams whose last logout was not a clean one
    meant,      \* history: the accounts as the patches, one by one, mean them
    torn,       \* history: accounts with two patches at the same time
    restarts    \* history: how often the server has been restarted

tables == <<users, account, sessions, expired>>
request == <<kind, token, who, batch>>
patching == <<patch, draft, meant, torn>>
vars == <<tables, teams, at, request, patching, heard, silent,
          stranded, excused, restarts>>

Kinds == {"visit", "logout", "add", "patch"}
Ends == {"over", "logged_in", "added", "conflict"}
Awaits == {"verified", "opened", "checked", "found", "closing", "closed",
           "adding", "committed", "patching", "merged"}

Tokens == Requests \union Earlier
Owner(s) == IF s \in Earlier THEN OwnerOf[s] ELSE who[s]
InHand == Earlier \union {q \in Requests : at[q] = "logged_in"}  \* known to a client

NoTeam == [known |-> FALSE, checked_in |-> FALSE, disconnected |-> FALSE]
NewTeam == [NoTeam EXCEPT !.known = TRUE]

CompetingConfigured == Configured \ Hosts                        \* faulty
Competing == users \ Hosts      \* get_users_with_role(Competitor)

Init ==
    /\ users = Configured
    /\ account = [u \in Users |-> [f \in Fields |-> DefaultValue]]
    /\ sessions = Earlier
    /\ expired = {}
    /\ teams = [u \in Users |-> IF u \in Competing THEN NewTeam ELSE NoTeam]
    /\ at = [q \in Requests |-> "idle"]
    /\ kind = [q \in Requests |-> "visit"]
    /\ token = [q \in Requests |-> NoSession]
    /\ who = [q \in Requests |-> Nobody]
    /\ patch = [q \in Requests |-> <<>>]
    /\ draft = [q \in Requests |-> <<>>]
    /\ batch = [q \in Requests |-> {}]
    /\ heard = [u \in Users |-> 0]
    /\ silent = Earlier
    /\ stranded = {} /\ excused = {} /\ torn = {}
    /\ meant = account
    /\ restarts = 0

Goto(q, from, to) == at[q] = from /\ at' = [at EXCEPT ![q] = to]

-----------------------------------------------------------------------------
(* TeamManagement *)

EffectiveAlways(i) == i.known                                    \* faulty
Effective(i) == i.known /\ ~i.checked_in

CheckedIn(i) ==
    IF i.known THEN [i EXCEPT !.checked_in = TRUE, !.disconnected = FALSE] ELSE i

LeftToggling(i) ==                                               \* faulty
    IF i.known THEN [i EXCEPT !.disconnected = ~@] ELSE i
Left(i) == IF i.known THEN [i EXCEPT !.disconnected = TRUE] ELSE i

-----------------------------------------------------------------------------
(* POST /auth/login *)

(* login_user finds the account and the password fits, or 401. *)
Verify(q, u) ==
    /\ u \in users
    /\ \/ Goto(q, "idle", "verified") /\ who' = [who EXCEPT ![q] = u]
       \/ Goto(q, "idle", "over") /\ UNCHANGED who
    /\ UNCHANGED <<tables, teams, kind, token, batch, patching, heard,
                   silent, stranded, excused, restarts>>

CreateSession(q) ==
    /\ Goto(q, "verified", "opened")
    /\ sessions' = sessions \union {q}
    /\ UNCHANGED <<users, account, expired, teams, request, patching, heard,
                   silent, stranded, excused, restarts>>

(* After the score has been read: check_in, and the event if it had effect.  *)
LogIn(q) ==
    LET u == who[q] IN
    /\ Goto(q, "opened", "checked")
    /\ teams' = [teams EXCEPT ![u] = CheckedIn(@)]
    /\ heard' = [heard EXCEPT ![u] = IF Effective(teams[u]) THEN @ + 1 ELSE @]
    /\ silent' = IF teams[u].known THEN silent ELSE silent \union {q}
    /\ UNCHANGED <<tables, request, patching, stranded, excused, restarts>>

LoggedIn(q) ==
    /\ Goto(q, "checked", "logged_in")
    /\ UNCHANGED <<tables, teams, request, patching, heard, silent,
                   stranded, excused, restarts>>

-----------------------------------------------------------------------------
(* Requests with a session: extract in extractors/auth.rs *)

GetUserFromSession(q, s, k) ==
    /\ IF s \in sessions
       THEN /\ Goto(q, "idle", "found")
            /\ token' = [token EXCEPT ![q] = s]
            /\ kind' = [kind EXCEPT ![q] = k]
       ELSE Goto(q, "idle", "over") /\ UNCHANGED <<token, kind>>
    /\ UNCHANGED <<tables, teams, who, batch, patching, heard, silent, stranded,
                   excused, restarts>>

(* A session that has expired is deleted, and nobody is disconnected. *)
DeleteExpired(q) ==
    /\ token[q] \in expired
    /\ Goto(q, "found", "over")
    /\ sessions' = sessions \ {token[q]}
    /\ excused' = excused \union {Owner(token[q])}
    /\ kind' = [kind EXCEPT ![q] = "visit"] /\ token' = [token EXCEPT ![q] = NoSession]
    /\ UNCHANGED <<users, account, expired, teams, who, batch, patching, heard,
                   silent, stranded, restarts>>

Handler(q) ==
    CASE kind[q] = "logout" -> "closing"
      [] kind[q] = "add" /\ Owner(token[q]) \in Hosts -> "adding"
      [] kind[q] = "patch" /\ Owner(token[q]) \in Hosts -> "patching"
      [] OTHER -> "over"       \* it changes nothing here, or 403

(* Every authenticated request checks its team in, and no event tells of it. *)
Extract(q) ==
    LET u == Owner(token[q]) IN
    /\ token[q] \notin expired
    /\ Goto(q, "found", Handler(q))
    /\ teams' = [teams EXCEPT ![u] = CheckedIn(@)]
    /\ excused' = IF token[q] \in sessions THEN excused ELSE excused \union {u}
    /\ token' = IF Handler(q) = "closing" THEN token ELSE [token EXCEPT ![q] = NoSession]
    /\ kind' = [kind EXCEPT ![q] = "visit"]
    /\ UNCHANGED <<tables, who, batch, patching, heard, silent, stranded, restarts>>

-----------------------------------------------------------------------------
(* POST /auth/logout *)

CloseSession(q) ==
    /\ Goto(q, "closing", "closed")
    /\ sessions' = sessions \ {token[q]}
    /\ UNCHANGED <<users, account, expired, teams, request, patching, heard,
                   silent, stranded, excused, restarts>>

Disconnect(q) ==
    LET u == Owner(token[q]) IN
    /\ Goto(q, "closed", "over")
    /\ teams' = [teams EXCEPT ![u] = Left(@)]
    /\ excused' = excused \ {u}
    /\ token' = [token EXCEPT ![q] = NoSession]
    /\ UNCHANGED <<tables, kind, who, batch, patching, heard, silent, stranded,
                   restarts>>

-----------------------------------------------------------------------------
(* POST /teams: one transaction for all, which is given up at a conflict. *)

AcceptedOnly(new, conflicts) == new \ conflicts                  \* faulty
Accepted(new, conflicts) == IF conflicts = {} THEN new ELSE {}

Drawn == users \union UNION {batch[q] : q \in Requests}

Commit(q, new, conflicts) ==
    /\ IF conflicts = {} THEN Goto(q, "adding", "committed") ELSE Goto(q, "adding", "conflict")
    /\ batch' = [batch EXCEPT ![q] = new]
    /\ users' = users \union Accepted(new, conflicts)
    /\ UNCHANGED <<account, sessions, expired, teams, kind, token, who, patching,
                   heard, silent, stranded, excused, restarts>>

Insert(q) ==
    /\ Goto(q, "committed", "added")
    /\ teams' = [u \in Users |-> IF u \in batch[q] THEN NewTeam ELSE teams[u]]
    /\ UNCHANGED <<tables, request, patching, heard, silent, stranded,
                   excused, restarts>>

-----------------------------------------------------------------------------
(* PATCH /teams/{id} *)

(* The fields of p, and for the others what a has. *)
Over(p, a) == [f \in DOMAIN p \union DOMAIN a |-> IF f \in DOMAIN p THEN p[f] ELSE a[f]]

MergedUnder(p, a) == Over(a, p)                                  \* faulty
MergedAlone(p, a) == p                                           \* faulty
Merged(p, a) == Over(p, a)

ReadAccount(q, u, p) ==
    /\ u \in users
    /\ Goto(q, "patching", "merged")
    /\ who' = [who EXCEPT ![q] = u]
    /\ patch' = [patch EXCEPT ![q] = p]
    /\ draft' = [draft EXCEPT ![q] = Merged(p, account[u])]
    /\ UNCHANGED <<tables, teams, kind, token, batch, meant, torn, heard,
                   silent, stranded, excused, restarts>>

(* update_user writes every field; a taken username fails it with 500, which *)
(* is a case of CutOff.                                                      *)
UpdateUser(q) ==
    LET u == who[q] IN
    /\ Goto(q, "merged", "over")
    /\ account' = [account EXCEPT ![u] = draft[q]]
    /\ meant' = [meant EXCEPT ![u] = Over(patch[q], @)]
    /\ torn' = IF \E p \in Requests \ {q} : at[p] = "merged" /\ who[p] = u
               THEN torn \union {u} ELSE torn
    /\ who' = [who EXCEPT ![q] = Nobody]
    /\ patch' = [patch EXCEPT ![q] = <<>>] /\ draft' = [draft EXCEPT ![q] = <<>>]
    /\ UNCHANGED <<users, sessions, expired, teams, kind, token, batch, heard,
                   silent, stranded, excused, restarts>>

-----------------------------------------------------------------------------
(* The world around *)

CutOff(q) ==
    /\ at[q] \in Awaits
    /\ at' = [at EXCEPT ![q] = "over"]
    /\ stranded' = IF at[q] = "committed" THEN stranded \union batch[q] ELSE stranded
    /\ excused' = IF at[q] = "closed" THEN excused \union {Owner(token[q])} ELSE excused
    /\ kind' = [kind EXCEPT ![q] = "visit"] /\ token' = [token EXCEPT ![q] = NoSession]
    /\ who' = IF q \in sessions THEN who ELSE [who EXCEPT ![q] = Nobody]
    /\ patch' = [patch EXCEPT ![q] = <<>>] /\ draft' = [draft EXCEPT ![q] = <<>>]
    /\ UNCHANGED <<tables, teams, batch, meant, torn, heard, silent, restarts>>

Expire(s) ==
    /\ s \in (sessions \union {token[q] : q \in Requests}) \ expired
    /\ expired' = expired \union {s}
    /\ UNCHANGED <<users, account, sessions, teams, at, request, patching, heard,
                   silent, stranded, excused, restarts>>

(* The process is started again: AppState::init reads the competitors. *)
Restart ==
    /\ restarts < MaxRestarts
    /\ restarts' = restarts + 1
    /\ teams' = [u \in Users |-> IF u \in Competing THEN NewTeam ELSE NoTeam]
    /\ at' = [q \in Requests |-> IF at[q] \in Awaits THEN "over" ELSE at[q]]
    /\ kind' = [q \in Requests |-> "visit"] /\ token' = [q \in Requests |-> NoSession]
    /\ who' = [q \in Requests |-> IF q \in sessions THEN who[q] ELSE Nobody]
    /\ patch' = [q \in Requests |-> <<>>] /\ draft' = [q \in Requests |-> <<>>]
    /\ heard' = [u \in Users |-> 0]
    /\ silent' = sessions
    /\ stranded' = {} /\ excused' = {}
    /\ UNCHANGED <<tables, batch, meant, torn>>

Serve(q) ==
    \/ \E u \in Users : Verify(q, u)
    \/ CreateSession(q) \/ LogIn(q) \/ LoggedIn(q)
    \/ \E s \in InHand, k \in Kinds : GetUserFromSession(q, s, k)
    \/ DeleteExpired(q) \/ Extract(q)
    \/ CloseSession(q) \/ Disconnect(q)
    \/ \E new \in SUBSET (Users \ Drawn) : \E conflicts \in SUBSET new : Commit(q, new, conflicts)
    \/ Insert(q)
    \/ \E u \in Users, p \in Patches : ReadAccount(q, u, p)
    \/ UpdateUser(q)
    \/ CutOff(q)

Next ==
    \/ \E q \in Requests : Serve(q)
    \/ \E s \in Tokens : Expire(s)
    \/ Restart

Spec == Init /\ [][Next]_vars

-----------------------------------------------------------------------------
(* Properties *)

TypeOK ==
    /\ users \subseteq Users
    /\ account \in [Users -> [Fields -> Values]]
    /\ sessions \subseteq Tokens /\ expired \subseteq Tokens /\ silent \subseteq Tokens
    /\ teams \in [Users -> [known : BOOLEAN, checked_in : BOOLEAN, disconnected : BOOLEAN]]
    /\ at \in [Requests -> {"idle"} \union Awaits \union Ends]
    /\ kind \in [Requests -> Kinds]
    /\ token \in [Requests -> Tokens \union {NoSession}]
    /\ who \in [Requests -> Users \union {Nobody}]
    /\ patch \in [Requests -> Patches \union {<<>>}]
    /\ draft \in [Requests -> [Fields -> Values] \union {<<>>}]
    /\ batch \in [Requests -> SUBSET Users]
    /\ heard \in [Users -> Nat]
    /\ stranded \subseteq Users /\ excused \subseteq Users /\ torn \subseteq Users
    /\ meant \in [Users -> [Fields -> Values]]
    /\ restarts \in 0 .. MaxRestarts

(* Hooks hear of a team's check-in at most once, and of every one, but for a  *)
(* team that came with a session of an earlier process or logged in before    *)
(* add_team had registered it: then extract checks it in without an event.    *)
CheckInHeard == \A u \in Users :
    /\ heard[u] <= 1
    /\ heard[u] = 1 => teams[u].checked_in
    /\ teams[u].checked_in /\ heard[u] = 0 => \E s \in silent : Owner(s) = u

(* TeamManagement knows the competitors of the table and nobody else, but for *)
(* those that add_team is about to insert or was kept from inserting; these a *)
(* restart brings back (AppState::init).                                      *)
CreatedTeamsAreKnown == \A u \in Users :
    /\ teams[u].known => u \in users \ Hosts
    /\ u \in users \ Hosts =>
        \/ teams[u].known
        \/ u \in stranded
        \/ \E q \in Requests : at[q] = "committed" /\ u \in batch[q]

(* The teams of one POST are created together or not at all: all of them are  *)
(* there and known when it was answered OK, none when it was answered with a  *)
(* conflict, however it was cut off in between (add_team's transaction).      *)
AddedTogether == \A q \in Requests :
    /\ batch[q] \subseteq users \/ batch[q] \intersect users = {}
    /\ at[q] = "added" => \A u \in batch[q] : u \in users /\ teams[u].known
    /\ at[q] = "conflict" => batch[q] \intersect users = {}

(* A team that has closed its sessions and has no request under way is shown  *)
(* as disconnected, unless its last logout was cut off half way, a session of *)
(* it expired, or a request that was let in before checked it in again after. *)
Busy(u) == \E q \in Requests : token[q] # NoSession /\ Owner(token[q]) = u
LogoutHolds == \A u \in Users :
    /\ teams[u].checked_in /\ ~Busy(u)
    /\ \A s \in sessions : Owner(s) # u
    => teams[u].disconnected \/ u \in excused

(* An account is what the patches that succeeded make of it, one after the    *)
(* other, as long as no two were under way together; of two that were, the    *)
(* later writes back what it had read of the fields it does not set.          *)
PatchesKept == \A u \in Users : account[u] = meant[u] \/ u \in torn
=============================================================================
