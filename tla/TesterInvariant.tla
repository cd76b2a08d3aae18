-------------------------- MODULE TesterInvariant --------------------------
(***************************************************************************)
(* The inductive invariant behind the safety properties of module Tester:  *)
(* what is known of a run at each place its task can be in, one run at a   *)
(* time (RunInv), and what is known of the DELETE requests (RequestInv).   *)
(***************************************************************************)
EXTENDS Tester

(* A task that stores a result has one: this is what makes the types of the  *)
(* tables inductive, since the statement is executed after the task took it. *)
CurrentKnown == \A r \in Runs :
    "record" \in {pc[r], stmt[r]} => current[r] \in Cases \X Verdicts

TypeInv == TypeOK /\ CurrentKnown

(* Where a task can be, given what has become of its statement: a statement is *)
(* outstanding either for the task that waits for it or for one that was       *)
(* aborted while it did.                                                       *)
PlaceOf(r) ==
    /\ req[r] \in {"idle", "rejected"} => pc[r] = "idle"
    /\ pc[r] \in {"idle", "compiling"} => stmt[r] = "none" /\ state[r] = "absent"
    /\ pc[r] = "testing" => stmt[r] = "ok"
    /\ pc[r] = "lost" => stmt[r] = "none"
    /\ pc[r] \in Statements => stmt[r] \in {pc[r], "ok", "err"}
    /\ stmt[r] \in Statements => pc[r] = stmt[r] \/ final[r] = "Cancelled"
    /\ stmt[r] \in {"insert", "insert_failed"} => pc[r] = stmt[r]
    /\ pc[r] \in Live \union {"idle"} => final[r] = "none"

(* What the row of a run looks like at each place, and while a statement of  *)
(* its task is outstanding: the score is written last or not at all.         *)
RowOf(r) ==
    /\ state[r] = "absent" =>
        /\ final[r] \in {"none", "Error"}
        /\ Recorded(r) = {}
        /\ ~score[r].set
    /\ pc[r] \in {"insert", "insert_failed"} /\ stmt[r] # "ok" => state[r] = "absent"
    /\ \/ pc[r] = "insert" /\ stmt[r] = "ok"
       \/ pc[r] \in {"testing", "record"}
       \/ pc[r] \in {"finish", "fail"} /\ stmt[r] # "ok"
       \/ stmt[r] \in {"record", "finish", "fail"}
       => state[r] \in {"started", "cancelled"} /\ ~score[r].set
    /\ pc[r] = "insert_failed" /\ stmt[r] = "ok" =>
        state[r] \in {"failed", "cancelled"} /\ ~score[r].set
    /\ pc[r] = "fail" => ~score[r].set
    /\ pc[r] = "finish" /\ stmt[r] = "ok" =>
        state[r] \in {"finished", "cancelled"} /\ score[r].set
    /\ state[r] \in {"started", "failed"} => ~score[r].set

(* The counters of a task follow the table, with the result it is storing    *)
(* ahead of it.                                                              *)
Counted(r) ==
    /\ tally[r]["pass"] = Cardinality(Stored(r, "pass"))
    /\ tally[r]["fail"] = Cardinality(Stored(r, "fail"))

CountedAhead(r, v) ==
    /\ tally[r]["pass"] = Cardinality(Stored(r, "pass")) + IF v = "pass" THEN 1 ELSE 0
    /\ tally[r]["fail"] = Cardinality(Stored(r, "fail")) + IF v = "fail" THEN 1 ELSE 0

CountOf(r) ==
    /\ yielded[r] \subseteq CasesOf(r)
    /\ pc[r] \in {"idle", "compiling", "insert", "insert_failed"} => Recorded(r) = {}
    /\ \/ pc[r] \in {"idle", "compiling", "insert", "insert_failed", "testing", "finish"}
       \/ stmt[r] = "finish"
       \/ pc[r] = "record" /\ stmt[r] = "ok"
       => yielded[r] = Recorded(r) /\ Counted(r)
    /\ stmt[r] = "record" =>
        /\ current[r][1] \notin Recorded(r)
        /\ yielded[r] = Recorded(r) \union {current[r][1]}
        /\ CountedAhead(r, current[r][2])
    /\ "finish" \in {pc[r], stmt[r]} => yielded[r] = CasesOf(r)

(* The channel has reported what is in the table, except for the result that *)
(* has been stored and not yet been announced.                               *)
ReportOf(r) ==
    /\ pc[r] \in {"idle", "compiling", "insert_failed"} => ~compiled[r]
    /\ \/ reported[r] = Recorded(r)
       \/ Recorded(r) = reported[r] \union {current[r][1]}
    /\ pc[r] = "record" /\ stmt[r] = "ok" =>
        /\ current[r][1] \notin reported[r]
        /\ Recorded(r) = reported[r] \union {current[r][1]}
    /\ \/ stmt[r] = "record"
       \/ pc[r] = "idle"
       \/ pc[r] \in Live /\ ~(pc[r] = "record" /\ stmt[r] = "ok")
       => reported[r] = Recorded(r)

(* What a closing message says, and that none but Cancelled is sent while a  *)
(* statement of the run is outstanding.                                      *)
CloseOf(r) ==
    /\ final[r] \in {"Complete", "CompileFailed", "Error"} => stmt[r] \notin Statements
    /\ final[r] = "Complete" => score[r].set /\ state[r] \in {"finished", "cancelled"}
    /\ final[r] = "CompileFailed" =>
        state[r] \in {"failed", "cancelled"} /\ Recorded(r) = {}
    /\ final[r] = "Error" => ~score[r].set
    /\ final[r] = "Cancelled" => r \in signalled

(* A handle is put into the map once, and is gone when it has been used;     *)
(* whoever used it has seen the row.                                         *)
HandleOf(r) ==
    /\ pc[r] = "idle" => r \notin abort_handles
    /\ r \in signalled => r \notin abort_handles /\ state[r] # "absent"
    /\ state[r] = "cancelled" => r \in signalled

ScoreOf(r) ==
    /\ state[r] = "finished" => score[r].set
    /\ score[r].set =>
        /\ Recorded(r) = CasesOf(r)
        /\ score[r].passed = Cardinality(Stored(r, "pass"))
        /\ score[r].failed = Cardinality(Stored(r, "fail"))
        /\ score[r].success <=> Stored(r, "fail") = {}

RunInv(r) ==
    /\ PlaceOf(r) /\ RowOf(r) /\ CountOf(r) /\ ReportOf(r) /\ CloseOf(r)
    /\ HandleOf(r) /\ ScoreOf(r)

(* How far a DELETE has got, and what it has seen and done by then.          *)
RequestInv ==
    /\ \A a \in Requests :
        /\ apc[a] \in {"found", "cancelling", "ok"} =>
            target[a] \in Runs /\ state[target[a]] # "absent"
        /\ apc[a] \in {"cancelling", "ok"} => target[a] \in signalled
        /\ apc[a] = "ok" => state[target[a]] # "started"
    /\ SingleAborter

(* All of it together.  Each part needs others: a score is right because the *)
(* counters are, these because a result is stored exactly once, and that     *)
(* because at most one statement of a run is outstanding (run_test's loop).  *)
IInv == TypeInv /\ (\A r \in Runs : RunInv(r)) /\ RequestInv
=============================================================================
