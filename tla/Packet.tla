------------------------------- MODULE Packet -------------------------------
(***************************************************************************)
(* What a configuration file fixes before the server starts, as far as the *)
(* testing of code depends on it: the submission ids the server may draw,  *)
(* which of them belong to "test" requests (only the visible cases are     *)
(* run) and the cases of the problem they are run against.                 *)
(*                                                                         *)
(* A submission id stands for the request it was drawn for: its submitter  *)
(* and its test_only flag never change after run_test, so they are         *)
(* constants of the id and not variables.                                  *)
(***************************************************************************)
EXTENDS FiniteSets

CONSTANTS
    Runs,       \* ids drawn by SubmissionId::new, one for each accepted request
    TestOnly,   \* the ids drawn for POST .../tests, the others for .../submissions
    Cases,      \* the test cases of the problem
    Visible     \* the cases the packet marks visible

ASSUME PacketAssumption ==
    /\ TestOnly \subseteq Runs
    /\ Visible \subseteq Cases
    /\ IsFiniteSet(Cases)

(* The filter that run_test counts the cases with and hands to the runner. *)
CasesOf(r) == IF r \in TestOnly THEN Visible ELSE Cases
=============================================================================
