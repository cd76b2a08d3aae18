------------------------------- MODULE Server -------------------------------
(***************************************************************************)
(* Processes that start on one database file (module Startup), and in the  *)
(* one that serves the announcements of hosts and the hooks that hear of   *)
(* them (modules Announcements and Hooks).  When that process ends, what   *)
(* it kept in memory is gone, and the next one starts from the tables.     *)
(***************************************************************************)
EXTENDS Naturals, Sequences

CONSTANTS
    Starts, Nobody, Configs, Accounts, Ingestible, Competitors,    \* see Startup
    Requests,                                               \* see Announcements
    EventHandlers, Webhooks                                 \* see Hooks

ASSUME ServerAssumption ==
    /\ Nobody \notin Starts
    /\ Ingestible \subseteq Configs
    /\ EventHandlers \in Nat

VARIABLES
    file, users, place, config, init, teams, creator,       \* see Startup
    announcements, at, removed, aired, listed,              \* see Announcements
    scripts_rx, thread, webhooks_rx, posts, posted          \* see Hooks

Start == INSTANCE Startup
News == INSTANCE Announcements

start == <<file, users, place, config, init, teams, creator>>
hooks == <<scripts_rx, thread, webhooks_rx, posts, posted>>
announced == <<announcements, at, removed, aired, listed, hooks>>
vars == <<start, announced>>

Init == Start!Init /\ News!Init

Serving == \E p \in Starts : place[p] = "serving"

(* HostUser lets in the account of a host only. *)
HostExists == users \ Competitors # {}

Starting(p) == Start!Step(p) /\ UNCHANGED announced

Ending(p) ==
    /\ Start!End(p)
    /\ IF place[p] = "serving" THEN News!Renew ELSE UNCHANGED announced

Within(A) == Serving /\ A /\ UNCHANGED start

Hooking(A) == Within(A /\ UNCHANGED <<announcements, at, removed, aired, listed>>)

Next ==
    \/ \E p \in Starts : Starting(p) \/ Ending(p)
    \/ Within(HostExists /\ \E q \in Requests : News!Ask(q))
    \/ Within(\E q \in Requests : News!Proceed(q) \/ News!CutOff(q))
    \/ Hooking(News!Hook!Next)

Spec == Init /\ [][Next]_vars

-----------------------------------------------------------------------------
(* Safety *)

(* The accounts are those the database was made with, all or none (ingest).  *)
AccountsWhole == Start!AccountsWhole

(* The team manager knows the teams of the table (AppState::init).           *)
TeamsOfTheTable == Start!TeamsOfTheTable

(* What clients show of the announcements is the table, with two exceptions  *)
(* (services/announcements.rs).                                              *)
ClientsShowTable == News!ClientsShowTable

-----------------------------------------------------------------------------
(* Liveness *)

(* Tasks are polled while their process serves.  Of scripts and POSTs nothing *)
(* is assumed: either may never end.                                          *)
LiveSpec ==
    /\ Spec
    /\ \A q \in Requests : WF_vars(Within(News!Proceed(q)))
    /\ WF_vars(Hooking(News!Hook!StartScripts))
    /\ WF_vars(Hooking(News!Hook!StartPosts))

(* Every announcement that was broadcast gets its evaluation, whatever other  *)
(* scripts and the webhooks do, unless the process ends                       *)
(* (EventHookHandler::start).                                                 *)
ScriptsHear == \A a \in Requests : at[a] = "aired" ~> thread[a] # 0 \/ ~Serving

PostsEnd(u) == \A e \in Requests : WF_vars(Hooking(News!Hook!PostEnds(u, e)))
Hears(u) == \A a \in Requests : at[a] = "aired" ~> <<u, a>> \in posts \/ ~Serving

(* webhooks.rs:22 says: "Each event is handled in a separate thread".  Then a *)
(* webhook that answers is POSTed every announcement; but the loop of         *)
(* EventWebhookHandler::start awaits all POSTs of an event before the next    *)
(* one, with a client that has no timeout, and another webhook may not answer. *)
WebhooksHear == \A u \in Webhooks : PostsEnd(u) => Hears(u)

(* Every webhook is POSTed every announcement if all of them answer.          *)
WebhooksHearInTheEnd == (\A u \in Webhooks : PostsEnd(u)) => \A u \in Webhooks : Hears(u)
=============================================================================
