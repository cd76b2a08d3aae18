------------------------------ MODULE Startup ------------------------------
(***************************************************************************)
(* From the command line to a server that serves: `run` finds or creates   *)
(* the database file, applies the migration, ingests the accounts of the   *)
(* configuration if the file is new, reads the teams and binds its port.   *)
(*                                                                         *)
(* All starts share a name, that is a file, and a port.  Covered: errors   *)
(* and kills at any step, a configuration that cannot be ingested, another *)
(* configuration at a later start, and starts that overlap.  Not covered:  *)
(* a file that somebody removes, and accounts that hosts add later (see    *)
(* module Sessions).                                                       *)
(***************************************************************************)
CONSTANTS
    Starts,         \* executions of `run`, each a process of its own
    Nobody,         \* no process
    Configs,        \* the configurations they are given
    Accounts,       \* the accounts that each of them names
    Ingestible,     \* those without a name that occurs twice
    Competitors     \* the accounts with Role::Competitor

VARIABLES
    file,       \* what is at the path: "absent", "empty", or "tables"
    users,      \* table users
    place,      \* place[p]: the last step of `handle` that p has completed
    config,     \* config[p]: the configuration that p has read
    init,       \* init[p]: p has found no file, and is to ingest
    teams,      \* teams[p]: the team manager that p has filled
    creator     \* history: the process that made the file

start == <<file, users, place, config, init, teams, creator>>

Places == {"none", "looked", "created", "migrated", "ingested", "learned", "serving", "gone"}

StartupType ==
    /\ file \in {"absent", "empty", "tables"}
    /\ users \subseteq UNION {Accounts[c] : c \in Configs}
    /\ place \in [Starts -> Places]
    /\ config \in [Starts -> Configs]
    /\ init \in [Starts -> BOOLEAN]
    /\ teams \in [Starts -> SUBSET Competitors]
    /\ creator \in Starts \union {Nobody}

Init ==
    /\ file = "absent"
    /\ users = {}
    /\ place = [p \in Starts |-> "none"]
    /\ config \in [Starts -> Configs]
    /\ init = [p \in Starts |-> FALSE]
    /\ teams = [p \in Starts |-> {}]
    /\ creator = Nobody

Reach(p, from, to) == place[p] = from /\ place' = [place EXCEPT ![p] = to]

(* !path.exists(): a process that finds a file leaves it as it is. *)
Look(p) ==
    /\ Reach(p, "none", IF file = "absent" THEN "looked" ELSE "created")
    /\ init' = [init EXCEPT ![p] = file = "absent"]
    /\ UNCHANGED <<file, users, config, teams, creator>>

(* File::create_new, which fails if there is a file by now (see End). *)
Create(p) ==
    /\ file = "absent"
    /\ Reach(p, "looked", "created")
    /\ file' = "empty"
    /\ users' = {}
    /\ creator' = p
    /\ UNCHANGED <<config, init, teams>>

(* init_db, whether the file is new or not: CREATE TABLE IF NOT EXISTS. *)
Migrate(p) ==
    /\ Reach(p, "created", "migrated")
    /\ file' = "tables"
    /\ UNCHANGED <<users, config, init, teams, creator>>

LeaveRows(p) == users' \in SUBSET Accounts[config[p]]            \* faulty
Rollback(p) == UNCHANGED users

(* ingest is one transaction: all accounts, or none and the start has failed. *)
Ingest(p) ==
    /\ init[p]
    /\ \/ /\ config[p] \in Ingestible
          /\ Reach(p, "migrated", "ingested")
          /\ users' = Accounts[config[p]]
       \/ /\ config[p] \notin Ingestible
          /\ Reach(p, "migrated", "gone")
          /\ Rollback(p)
    /\ UNCHANGED <<file, config, init, teams, creator>>

AfterIngestion(p) ==
    IF init[p] THEN Reach(p, "ingested", "learned") ELSE Reach(p, "migrated", "learned")

FromConfig(p) == Accounts[config[p]] \intersect Competitors      \* faulty
FromTable(p) == users \intersect Competitors

(* AppState::init *)
Learn(p) ==
    /\ AfterIngestion(p)
    /\ teams' = [teams EXCEPT ![p] = FromTable(p)]
    /\ UNCHANGED <<file, users, config, init, creator>>

(* init_hooks, TcpListener::bind and axum::serve *)
Bind(p) ==
    /\ \A q \in Starts : place[q] # "serving"
    /\ Reach(p, "learned", "serving")
    /\ UNCHANGED <<file, users, config, init, teams, creator>>

(* A step fails, or the process is killed; what it knew is gone with it. *)
End(p) ==
    /\ place[p] \notin {"none", "gone"}
    /\ place' = [place EXCEPT ![p] = "gone"]
    /\ teams' = [teams EXCEPT ![p] = {}]
    /\ UNCHANGED <<file, users, config, init, creator>>

Step(p) == Look(p) \/ Create(p) \/ Migrate(p) \/ Ingest(p) \/ Learn(p) \/ Bind(p)

Next == \E p \in Starts : Step(p) \/ End(p)

Spec == Init /\ [][Next]_start

-----------------------------------------------------------------------------
(* Properties *)

(* The accounts are those of the configuration that the database was made    *)
(* with, all or none, however starts fail, overlap and follow each other.    *)
(* Only a server whose database was made by a start that ended before the    *)
(* commit of its ingestion, or has not come to it, serves without any; no    *)
(* later start makes up for it (from_path, `if init`, ingest).               *)
AccountsWhole ==
    /\ users # {} => users = Accounts[config[creator]] /\ config[creator] \in Ingestible
    /\ \A p \in Starts : place[p] = "serving" =>
        \/ users = Accounts[config[creator]]
        \/ users = {} /\ place[creator] \in {"created", "migrated", "gone"}

(* A process knows the teams of the table, unless it has looked before the   *)
(* process that made the database committed them (AppState::init).           *)
TeamsOfTheTable == \A p \in Starts : place[p] \in {"learned", "serving"} =>
    \/ teams[p] = users \intersect Competitors
    \/ teams[p] = {} /\ p # creator
=============================================================================
