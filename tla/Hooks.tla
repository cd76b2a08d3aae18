------------------------------- MODULE Hooks -------------------------------
(***************************************************************************)
(* server/hooks: an event goes into the channels of two handlers.  The one *)
(* for scripts starts a thread per event, which evaluates the configured   *)
(* scripts in their order until one fails.  The one for webhooks POSTs an  *)
(* event to all of them and awaits all answers before the next event.      *)
(***************************************************************************)
EXTENDS Naturals, Sequences

CONSTANTS
  Events,         \* the events a process may dispatch, each at most once
  EventHandlers,  \* how many scripts the configuration names
  Webhooks        \* the URLs the configuration names

VARIABLES
  scripts_rx,     \* the channel of EventHookHandler
  thread,         \* for every event, the script its thread evaluates; 0: no thread
  webhooks_rx,    \* the channel of EventWebhookHandler
  posts,          \* the POSTs that have not ended, as <<url, event>>
  posted          \* for every URL, the events that arrived there

hooks == <<scripts_rx, thread, webhooks_rx, posts, posted>>

(* The number of the script after the last one: the thread has ended. *)
Over == EventHandlers + 1

(* The types of the state above. *)
HooksType ==
  /\ scripts_rx \in Seq(Events)
  /\ thread \in [Events -> 0 .. Over]
  /\ webhooks_rx \in Seq(Events)
  /\ posts \in SUBSET (Webhooks \X Events)
  /\ posted \in [Webhooks -> Seq(Events)]

Init ==
  /\ scripts_rx = <<>>
  /\ thread = [e \in Events |-> 0]
  /\ webhooks_rx = <<>>
  /\ posts = {}
  /\ posted = [u \in Webhooks |-> <<>>]

(* init_hooks in a new process: tasks and threads are gone with their events. *)
Renew ==
  /\ scripts_rx' = <<>>
  /\ thread' = [e \in Events |-> 0]
  /\ webhooks_rx' = <<>>
  /\ posts' = {}
  /\ posted' = [u \in Webhooks |-> <<>>]

(* ServerEvent::dispatch: the event goes into one channel after the other; in *)
(* one step where a lock keeps other dispatches away.                         *)
ToScripts(e) ==
  /\ scripts_rx' = Append(scripts_rx, e)
  /\ UNCHANGED <<thread, webhooks_rx, posts, posted>>
ToWebhooks(e) ==
  /\ webhooks_rx' = Append(webhooks_rx, e)
  /\ UNCHANGED <<scripts_rx, thread, posts, posted>>
Dispatch(e) ==
  /\ scripts_rx' = Append(scripts_rx, e)
  /\ webhooks_rx' = Append(webhooks_rx, e)
  /\ UNCHANGED <<thread, posts, posted>>

HeadOnly == scripts_rx' = <<>>                                   \* faulty
Received == scripts_rx' = Tail(scripts_rx)

(* EventHookHandler::start receives an event and spawns its evaluation. *)
StartScripts ==
  /\ scripts_rx # <<>>
  /\ thread' = [thread EXCEPT ![Head(scripts_rx)] = 1]
  /\ Received
  /\ UNCHANGED <<webhooks_rx, posts, posted>>

(* A script has been evaluated: the thread goes on with the next one, or the *)
(* collect() it runs under stops at the script's error.                      *)
Evaluate(e) ==
  /\ thread[e] \in 1 .. EventHandlers
  /\ \E next \in {thread[e] + 1, Over} : thread' = [thread EXCEPT ![e] = next]
  /\ UNCHANGED <<scripts_rx, webhooks_rx, posts, posted>>

Overlapping == TRUE                                              \* faulty
Joined == posts = {}

(* EventWebhookHandler::start, after join_all of the POSTs of the event before. *)
StartPosts ==
  /\ Joined
  /\ webhooks_rx # <<>>
  /\ posts' = posts \union Webhooks \X {Head(webhooks_rx)}
  /\ webhooks_rx' = Tail(webhooks_rx)
  /\ UNCHANGED <<scripts_rx, thread, posted>>

(* A POST arrives, and a POST ends with an answer or an error, or never does: *)
(* the client has no timeout.                                                 *)
Arrive(u, e) ==
  /\ <<u, e>> \in posts
  /\ \A i \in 1 .. Len(posted[u]) : posted[u][i] # e
  /\ posted' = [posted EXCEPT ![u] = Append(@, e)]
  /\ UNCHANGED <<scripts_rx, thread, webhooks_rx, posts>>

RetriedPostEnds(u, e) ==                                         \* faulty
  /\ <<u, e>> \in posts
  /\ \E i \in 1 .. Len(posted[u]) : posted[u][i] = e
  /\ posts' = posts \ {<<u, e>>}
  /\ UNCHANGED <<scripts_rx, thread, webhooks_rx, posted>>
PostEnds(u, e) ==
  /\ <<u, e>> \in posts
  /\ posts' = posts \ {<<u, e>>}
  /\ UNCHANGED <<scripts_rx, thread, webhooks_rx, posted>>

Next ==
  \/ StartScripts
  \/ StartPosts
  \/ \E e \in Events :
       \/ Evaluate(e)
       \/ \E u \in Webhooks : Arrive(u, e) \/ PostEnds(u, e)

=============================================================================
