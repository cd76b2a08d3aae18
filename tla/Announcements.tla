--------------------------- MODULE Announcements ---------------------------
(***************************************************************************)
(* POST and DELETE /announcements: a statement, a broadcast to websockets, *)
(* and for a new announcement an event for the hooks.  The handlers run    *)
(* beside each other, so between any two of their steps others may come;   *)
(* where a handler awaits its statement it may be dropped as well, and the *)
(* statement is executed all the same.                                     *)
(***************************************************************************)
EXTENDS Naturals, Sequences

CONSTANTS
    Requests,       \* each posts an announcement, which has its name, or deletes one
    EventHandlers, Webhooks     \* see Hooks

VARIABLES
    announcements,  \* the table
    at,             \* at[q]: how far the handler of request q has come
    removed,        \* removed[q]: the row that the DELETE of q has returned, or none
    aired,          \* the broadcasts, in the order in which a client gets them
    listed,         \* history: the table when this process began
    scripts_rx, thread, webhooks_rx, posts, posted      \* see Hooks

Events == Requests      \* OnAnnouncement
Hook == INSTANCE Hooks

hooks == <<scripts_rx, thread, webhooks_rx, posts, posted>>
announced == <<announcements, at, removed, aired, listed, hooks>>

New(a) == [kind |-> "NewAnnouncement", id |-> a]
Delete(a) == [kind |-> "DeleteAnnouncement", id |-> a]

Init ==
    /\ announcements = {} /\ listed = {}
    /\ at = [q \in Requests |-> "waiting"]
    /\ removed = [q \in Requests |-> {}]
    /\ aired = <<>>
    /\ Hook!Init

Goto(q, from, to) == at[q] = from /\ at' = [at EXCEPT ![q] = to]
Air(b) == aired' = Append(aired, b)

-----------------------------------------------------------------------------
(* create_announcement and delete_announcement: sqlite executes a statement, *)
(* or it fails and the answer is 500.                                        *)

Insert(q) ==
    /\ \/ Goto(q, "waiting", "inserted") /\ announcements' = announcements \union {q}
       \/ Goto(q, "waiting", "over") /\ UNCHANGED announcements
    /\ UNCHANGED <<removed, aired, listed, hooks>>

Remove(q, a) ==
    /\ \/ /\ Goto(q, "waiting", "deleted")
          /\ removed' = [removed EXCEPT ![q] = {a} \intersect announcements]
          /\ announcements' = announcements \ {a}
       \/ Goto(q, "waiting", "over") /\ UNCHANGED <<removed, announcements>>
    /\ UNCHANGED <<aired, listed, hooks>>

(* The client hangs up while the handler awaits its statement. *)
CutOff(q) ==
    /\ Goto(q, "inserted", "lost") \/ Goto(q, "deleted", "lost")
    /\ UNCHANGED <<announcements, removed, aired, listed, hooks>>

-----------------------------------------------------------------------------
(* The rest of the handlers *)

AirNew(q) ==
    /\ Goto(q, "inserted", "aired")
    /\ Air(New(q))
    /\ UNCHANGED <<announcements, removed, listed, hooks>>

TellScripts(q) ==
    /\ Goto(q, "aired", "half")
    /\ Hook!ToScripts(q)
    /\ UNCHANGED <<announcements, removed, aired, listed>>

TellWebhooks(q) ==
    /\ Goto(q, "half", "over")
    /\ Hook!ToWebhooks(q)
    /\ UNCHANGED <<announcements, removed, aired, listed>>

RowOrNot(q) == Requests \ {q}                                   \* faulty
Row(q) == removed[q]

(* 404, without a broadcast, if there was no row. *)
AirDelete(q) ==
    /\ Goto(q, "deleted", "over")
    /\ \/ \E a \in Row(q) : Air(Delete(a))
       \/ Row(q) = {} /\ UNCHANGED aired
    /\ UNCHANGED <<announcements, removed, listed, hooks>>

Ask(q) == Insert(q) \/ \E a \in Requests \ {q} : Remove(q, a)
Proceed(q) == AirNew(q) \/ TellScripts(q) \/ TellWebhooks(q) \/ AirDelete(q)

(* The process ends: the table stays, the handlers and hooks are gone. *)
Renew ==
    /\ at' = [q \in Requests |-> IF at[q] \in {"waiting", "over"} THEN at[q] ELSE "lost"]
    /\ aired' = <<>>
    /\ listed' = announcements
    /\ Hook!Renew
    /\ UNCHANGED <<announcements, removed>>

-----------------------------------------------------------------------------
(* What a client shows that has fetched the list at the start of the process *)
(* and follows the broadcasts.                                               *)
Shown == {a \in Requests :
    \/ \E i \in 1 .. Len(aired) :
        aired[i] = New(a) /\ \A j \in i .. Len(aired) : aired[j] # Delete(a)
    \/ a \in listed /\ \A j \in 1 .. Len(aired) : aired[j] # Delete(a)}

Overtaken == {a \in Requests : \E i, j \in 1 .. Len(aired) :
    i < j /\ aired[i] = Delete(a) /\ aired[j] = New(a)}

(* When no handler is under way, a client shows what the table holds, except *)
(* for what a dropped handler has kept to itself, and an announcement that   *)
(* was deleted between its INSERT and its broadcast: that one is shown for   *)
(* good (services/announcements.rs new, delete).                             *)
ClientsShowTable == (\A q \in Requests : at[q] \notin {"inserted", "deleted"}) =>
    /\ \A a \in announcements \ Shown : at[a] = "lost"
    /\ \A a \in Shown \ (announcements \union Overtaken) :
        \E q \in Requests : at[q] = "lost" /\ a \in removed[q]
=============================================================================
