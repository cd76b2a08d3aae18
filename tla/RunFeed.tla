------------------------------ MODULE RunFeed ------------------------------
(***************************************************************************)
(* What the task that runs a submission promises to the task that reports  *)
(* on it: the order in which messages enter the result channel of a run    *)
(* (enum TestWsSend).  At most one Compiled, before everything else; each  *)
(* case's Result at most once; one closing message, after which the        *)
(* channel is silent; CompileFailed only when nothing has compiled;        *)
(* Complete only when every case of the run has been reported.             *)
(***************************************************************************)
EXTENDS Packet

VARIABLES
    compiled,   \* compiled[r]: Compiled has been sent on the channel of run r
    reported,   \* reported[r]: the cases whose Result has been sent
    final       \* final[r]: the closing message, or "none"

feed == <<compiled, reported, final>>

Finals == {"Complete", "CompileFailed", "Error", "Cancelled"}

FeedType ==
    /\ compiled \in [Runs -> BOOLEAN]
    /\ reported \in [Runs -> SUBSET Cases]
    /\ final \in [Runs -> Finals \union {"none"}]

Init ==
    /\ compiled = [r \in Runs |-> FALSE]
    /\ reported = [r \in Runs |-> {}]
    /\ final = [r \in Runs |-> "none"]

AtAnyTime(r) == TRUE                                             \* faulty
Fresh(r) == ~compiled[r] /\ reported[r] = {}

SayCompiled(r) ==
    /\ final[r] = "none" /\ Fresh(r)
    /\ compiled' = [compiled EXCEPT ![r] = TRUE]
    /\ UNCHANGED <<reported, final>>

SayResult(r, c) ==
    /\ final[r] = "none"
    /\ c \notin reported[r]
    /\ reported' = [reported EXCEPT ![r] = @ \union {c}]
    /\ UNCHANGED <<compiled, final>>

SayFinal(r, f) ==
    /\ final[r] = "none"
    /\ f = "CompileFailed" => Fresh(r)
    /\ f = "Complete" => reported[r] = CasesOf(r)
    /\ final' = [final EXCEPT ![r] = f]
    /\ UNCHANGED <<compiled, reported>>

Next == \E r \in Runs :
    \/ SayCompiled(r)
    \/ \E c \in CasesOf(r) : SayResult(r, c)
    \/ \E f \in Finals : SayFinal(r, f)

Spec == Init /\ [][Next]_feed
=============================================================================
