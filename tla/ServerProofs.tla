---------------------------- MODULE ServerProofs ----------------------------
(***************************************************************************)
(* For any number of starts, configurations and requests: which accounts   *)
(* and teams a server has (StartInv), and what clients show of the         *)
(* announcements (NewsInv).                                                *)
(***************************************************************************)
EXTENDS Server, TLAPS

(* The steps of `handle` after the file has been found or made. *)
Past == {"created", "migrated", "ingested", "learned", "serving"}
Filled == {"ingested", "learned", "serving"}

(* The process that made the file is the only one to ingest, once, and the   *)
(* accounts are there from its commit on.                                    *)
FileInv ==
    /\ file = "absent" <=> creator = Nobody
    /\ \A p \in Starts : place[p] \in Past => file # "absent"
    /\ \A p \in Starts : place[p] = "looked" => init[p]
    /\ \A p \in Starts : init[p] /\ place[p] \in Past => p = creator
    /\ creator \in Starts => init[creator] /\ place[creator] \in Past \union {"gone"}

UsersInv ==
    /\ users # {} =>
        /\ creator \in Starts
        /\ place[creator] \in Filled \union {"gone"}
        /\ config[creator] \in Ingestible
        /\ users = Accounts[config[creator]]
    /\ creator \in Starts /\ place[creator] \in Filled => users = Accounts[config[creator]]

StartInv == Start!StartupType /\ FileInv /\ UsersInv /\ TeamsOfTheTable

USE ServerAssumption DEF Start!Places, Past, Filled

LEMMA StartInit == Start!Init => StartInv
BY DEF Start!Init, StartInv, Start!StartupType, FileInv, UsersInv,
   TeamsOfTheTable, Start!TeamsOfTheTable

(* Each step of `run`, and the end of a process, keeps the invariant. *)
LEMMA LookKeeps == ASSUME StartInv, NEW p \in Starts, Start!Look(p) PROVE StartInv'
BY DEF StartInv, Start!StartupType, FileInv, UsersInv, TeamsOfTheTable,
   Start!TeamsOfTheTable, Start!Look, Start!Reach

LEMMA CreateKeeps == ASSUME StartInv, NEW p \in Starts, Start!Create(p) PROVE StartInv'
BY DEF StartInv, Start!StartupType, FileInv, UsersInv, TeamsOfTheTable,
   Start!TeamsOfTheTable, Start!Create, Start!Reach

LEMMA MigrateKeeps == ASSUME StartInv, NEW p \in Starts, Start!Migrate(p) PROVE StartInv'
BY DEF StartInv, Start!StartupType, FileInv, UsersInv, TeamsOfTheTable,
   Start!TeamsOfTheTable, Start!Migrate, Start!Reach

LEMMA IngestKeeps == ASSUME StartInv, NEW p \in Starts, Start!Ingest(p) PROVE StartInv'
BY DEF StartInv, Start!StartupType, FileInv, UsersInv, TeamsOfTheTable,
   Start!TeamsOfTheTable, Start!Ingest, Start!Reach, Start!Rollback

LEMMA LearnKeeps == ASSUME StartInv, NEW p \in Starts, Start!Learn(p) PROVE StartInv'
BY DEF StartInv, Start!StartupType, FileInv, UsersInv, TeamsOfTheTable,
   Start!TeamsOfTheTable, Start!Learn, Start!AfterIngestion, Start!FromTable, Start!Reach

LEMMA BindKeeps == ASSUME StartInv, NEW p \in Starts, Start!Bind(p) PROVE StartInv'
BY DEF StartInv, Start!StartupType, FileInv, UsersInv, TeamsOfTheTable,
   Start!TeamsOfTheTable, Start!Bind, Start!Reach

LEMMA EndKeeps == ASSUME StartInv, NEW p \in Starts, Start!End(p) PROVE StartInv'
BY DEF StartInv, Start!StartupType, FileInv, UsersInv, TeamsOfTheTable,
   Start!TeamsOfTheTable, Start!End

(* Handlers and hooks do not touch the accounts. *)
LEMMA ElsewhereKeeps == ASSUME StartInv, UNCHANGED start PROVE StartInv'
BY DEF StartInv, Start!StartupType, FileInv, UsersInv, TeamsOfTheTable,
   Start!TeamsOfTheTable, start

LEMMA StartNext == StartInv /\ [Next]_vars => StartInv'
<1>1. ASSUME StartInv, NEW p \in Starts, Starting(p) PROVE StartInv'
  BY <1>1, LookKeeps, CreateKeeps, MigrateKeeps, IngestKeeps, LearnKeeps, BindKeeps
     DEF Starting, Start!Step
<1>2. ASSUME StartInv, NEW p \in Starts, Ending(p) PROVE StartInv'
  BY <1>2, EndKeeps DEF Ending
<1>3. ASSUME StartInv, [Next]_vars, ~ \E p \in Starts : Starting(p) \/ Ending(p)
      PROVE UNCHANGED start
  BY <1>3 DEF Next, Within, Hooking, vars
<1>4. QED BY <1>1, <1>2, <1>3, ElsewhereKeeps DEF Next

(* The invariant of the file and the accounts, for any starts. *)
THEOREM StartInvariant == Spec => []StartInv
<1>1. Init => StartInv
  BY StartInit DEF Init
<1>2. QED BY <1>1, StartNext, PTL DEF Spec

(* A server has all accounts of the configuration its database was made      *)
(* with, or none because the start that made it has not committed them.      *)
THEOREM AccountsAreWhole == Spec => []AccountsWhole
<1>1. StartInv => AccountsWhole
  BY DEF StartInv, Start!StartupType, FileInv, UsersInv, AccountsWhole, Start!AccountsWhole
<1>2. QED BY <1>1, StartInvariant, PTL

(* A server knows the teams of its table, or none if it overlapped the start *)
(* that made the database.                                                   *)
THEOREM TeamsAreKnown == Spec => []TeamsOfTheTable
<1>1. StartInv => TeamsOfTheTable
  BY DEF StartInv
<1>2. QED BY <1>1, StartInvariant, PTL

-----------------------------------------------------------------------------
Places == {"waiting", "inserted", "deleted", "aired", "half", "over", "lost"}
Broadcasts == [kind : {"NewAnnouncement", "DeleteAnnouncement"}, id : Requests]

NewsType ==
    /\ announcements \subseteq Requests
    /\ at \in [Requests -> Places]
    /\ removed \in [Requests -> SUBSET Requests]
    /\ aired \in Seq(Broadcasts)
    /\ listed \subseteq Requests

(* A name is inserted once, and a row is returned to one DELETE. *)
TableInv ==
    /\ \A a \in announcements : at[a] # "waiting"
    /\ \A q \in Requests : \A a \in removed[q] :
        a \notin announcements /\ at[a] # "waiting" /\ at[q] # "waiting"
    /\ \A q \in Requests : \A a, b \in removed[q] : a = b

(* Their rows are with handlers that have not broadcast the removal. *)
Withheld == UNION {removed[q] : q \in {r \in Requests : at[r] \in {"deleted", "lost"}}}

AiredDelete == {a \in Requests : \E i \in 1 .. Len(aired) : aired[i] = News!Delete(a)}

ShownInv ==
    /\ \A a \in announcements \ News!Shown : at[a] \in {"inserted", "lost"}
    /\ \A a \in Requests : at[a] = "inserted" /\ a \notin announcements =>
        a \in AiredDelete \union Withheld
    /\ News!Shown \ announcements \subseteq News!Overtaken \union Withheld

NewsInv == NewsType /\ TableInv /\ ShownInv

-----------------------------------------------------------------------------
(* What one more broadcast changes for a client. *)

LEMMA OneMore ==
    ASSUME aired \in Seq(Broadcasts), NEW b \in Broadcasts, News!Air(b)
    PROVE  /\ aired' \in Seq(Broadcasts)
           /\ Len(aired') = Len(aired) + 1
           /\ \A i \in 1 .. Len(aired) : aired'[i] = aired[i]
           /\ aired'[Len(aired) + 1] = b
BY DEF News!Air

LEMMA AirShows ==
    ASSUME NewsType, NEW a \in Requests, News!Air(News!New(a)), UNCHANGED listed
    PROVE  News!Shown' = News!Shown \union {a}
<1> DEFINE n == Len(aired) + 1
<1>1. News!New(a) \in Broadcasts /\ \A x \in Requests : News!New(a) # News!Delete(x)
  BY DEF Broadcasts, News!New, News!Delete
<1>2. /\ Len(aired) \in Nat /\ Len(aired') = n /\ aired'[n] = News!New(a)
      /\ \A i \in 1 .. Len(aired) : aired'[i] = aired[i]
  BY <1>1, OneMore DEF NewsType
<1>3. \A x \in Requests : News!New(x) = News!New(a) => x = a
  BY DEF News!New
<1>4. ASSUME NEW x \in Requests, x \in News!Shown PROVE x \in News!Shown'
  <2>1. CASE x \in listed /\ \A j \in 1 .. Len(aired) : aired[j] # News!Delete(x)
    BY <1>1, <1>2, <2>1 DEF News!Shown
  <2>2. CASE \E i \in 1 .. Len(aired) : aired[i] = News!New(x)
                /\ \A j \in i .. Len(aired) : aired[j] # News!Delete(x)
    <3>1. PICK i \in 1 .. Len(aired) : aired[i] = News!New(x)
                /\ \A j \in i .. Len(aired) : aired[j] # News!Delete(x)
      BY <2>2
    <3>2. i \in 1 .. n /\ aired'[i] = News!New(x)
          /\ \A j \in i .. n : aired'[j] # News!Delete(x)
      BY <1>1, <1>2, <3>1
    <3>3. QED BY <1>2, <3>2 DEF News!Shown
  <2>3. QED BY <1>4, <2>1, <2>2 DEF News!Shown
<1>5. a \in News!Shown'
  <2>1. n \in 1 .. n /\ \A j \in n .. n : aired'[j] # News!Delete(a)
    BY <1>1, <1>2
  <2>2. QED BY <1>2, <2>1 DEF News!Shown
<1>6. ASSUME NEW x \in Requests, x \in News!Shown', x # a PROVE x \in News!Shown
  <2>1. CASE x \in listed /\ \A j \in 1 .. n : aired'[j] # News!Delete(x)
    BY <1>2, <2>1 DEF News!Shown
  <2>2. CASE \E i \in 1 .. n : aired'[i] = News!New(x)
                /\ \A j \in i .. n : aired'[j] # News!Delete(x)
    <3>1. PICK i \in 1 .. n : aired'[i] = News!New(x)
                /\ \A j \in i .. n : aired'[j] # News!Delete(x)
      BY <2>2
    <3>2. i \in 1 .. Len(aired) /\ aired[i] = News!New(x)
          /\ \A j \in i .. Len(aired) : aired[j] # News!Delete(x)
      BY <1>2, <1>3, <1>6, <3>1
    <3>3. QED BY <3>2 DEF News!Shown
  <2>3. QED BY <1>2, <1>6, <2>1, <2>2 DEF News!Shown
<1>7. QED BY <1>4, <1>5, <1>6 DEF News!Shown

LEMMA AirHides ==
    ASSUME NewsType, NEW a \in Requests, News!Air(News!Delete(a)), UNCHANGED listed
    PROVE  /\ News!Shown' = News!Shown \ {a}
           /\ a \in AiredDelete'
<1> DEFINE n == Len(aired) + 1
<1>1. News!Delete(a) \in Broadcasts /\ \A x \in Requests : News!Delete(a) # News!New(x)
  BY DEF Broadcasts, News!New, News!Delete
<1>2. /\ Len(aired) \in Nat /\ Len(aired') = n /\ aired'[n] = News!Delete(a)
      /\ \A i \in 1 .. Len(aired) : aired'[i] = aired[i]
  BY <1>1, OneMore DEF NewsType
<1>3. \A x \in Requests : News!Delete(x) = News!Delete(a) => x = a
  BY DEF News!Delete
<1>4. ASSUME NEW x \in Requests, x \in News!Shown, x # a PROVE x \in News!Shown'
  <2>1. CASE x \in listed /\ \A j \in 1 .. Len(aired) : aired[j] # News!Delete(x)
    BY <1>2, <1>3, <1>4, <2>1 DEF News!Shown
  <2>2. CASE \E i \in 1 .. Len(aired) : aired[i] = News!New(x)
                /\ \A j \in i .. Len(aired) : aired[j] # News!Delete(x)
    <3>1. PICK i \in 1 .. Len(aired) : aired[i] = News!New(x)
                /\ \A j \in i .. Len(aired) : aired[j] # News!Delete(x)
      BY <2>2
    <3>2. i \in 1 .. n /\ aired'[i] = News!New(x)
          /\ \A j \in i .. n : aired'[j] # News!Delete(x)
      BY <1>2, <1>3, <1>4, <3>1
    <3>3. QED BY <1>2, <3>2 DEF News!Shown
  <2>3. QED BY <1>4, <2>1, <2>2 DEF News!Shown
<1>5. a \notin News!Shown'
  BY <1>2, n \in 1 .. n, \A i \in 1 .. n : n \in i .. n DEF News!Shown
<1>6. ASSUME NEW x \in Requests, x \in News!Shown' PROVE x \in News!Shown
  <2>1. CASE x \in listed /\ \A j \in 1 .. n : aired'[j] # News!Delete(x)
    BY <1>2, <2>1 DEF News!Shown
  <2>2. CASE \E i \in 1 .. n : aired'[i] = News!New(x)
                /\ \A j \in i .. n : aired'[j] # News!Delete(x)
    <3>1. PICK i \in 1 .. n : aired'[i] = News!New(x)
                /\ \A j \in i .. n : aired'[j] # News!Delete(x)
      BY <2>2
    <3>2. i \in 1 .. Len(aired) /\ aired[i] = News!New(x)
          /\ \A j \in i .. Len(aired) : aired[j] # News!Delete(x)
      BY <1>1, <1>2, <3>1
    <3>3. QED BY <3>2 DEF News!Shown
  <2>3. QED BY <1>2, <1>6, <2>1, <2>2 DEF News!Shown
<1>7. a \in AiredDelete'
  BY <1>2, n \in 1 .. n DEF AiredDelete
<1>8. QED BY <1>4, <1>5, <1>6, <1>7 DEF News!Shown

(* What a deletion overtook, and that it was broadcast, is not forgotten.    *)
LEMMA AirRemembers ==
    ASSUME NewsType, NEW b \in Broadcasts, News!Air(b)
    PROVE  /\ News!Overtaken \subseteq News!Overtaken'
           /\ AiredDelete \subseteq AiredDelete'
           /\ \A a \in AiredDelete : b = News!New(a) => a \in News!Overtaken'
<1>1. /\ Len(aired) \in Nat /\ Len(aired') = Len(aired) + 1 /\ aired'[Len(aired) + 1] = b
      /\ \A i \in 1 .. Len(aired) : aired'[i] = aired[i]
  BY OneMore DEF NewsType
<1>2. News!Overtaken \subseteq News!Overtaken'
  BY <1>1 DEF News!Overtaken
<1>3. AiredDelete \subseteq AiredDelete'
  BY <1>1 DEF AiredDelete
<1>4. \A a \in AiredDelete : b = News!New(a) => a \in News!Overtaken'
  BY <1>1 DEF AiredDelete, News!Overtaken
<1>5. QED BY <1>2, <1>3, <1>4

(* A step without a broadcast shows a client nothing new. *)
LEMMA SilentShows ==
    ASSUME UNCHANGED <<aired, listed>>
    PROVE  /\ News!Shown' = News!Shown
           /\ AiredDelete' = AiredDelete
           /\ News!Overtaken' = News!Overtaken
BY DEF News!Shown, AiredDelete, News!Overtaken

LEMMA ShownAreRequests == News!Shown \subseteq Requests
BY DEF News!Shown

USE DEF Places

LEMMA NewsInit == News!Init => NewsInv
<1>1. News!Init => News!Shown = {}
  BY DEF News!Init, News!Shown
<1>2. News!Init => NewsType
  BY DEF News!Init, NewsType
<1>3. QED BY <1>1, <1>2 DEF News!Init, NewsInv, TableInv, ShownInv

LEMMA InsertKeeps == ASSUME NewsInv, NEW q \in Requests, News!Insert(q) PROVE NewsInv'
<1>1. UNCHANGED <<aired, listed, removed>>
  BY DEF News!Insert
<1>2. NewsType'
  BY <1>1 DEF NewsInv, NewsType, News!Insert, News!Goto
<1>3. TableInv'
  BY <1>1 DEF NewsInv, NewsType, TableInv, News!Insert, News!Goto
<1>4. ShownInv'
  BY <1>1, SilentShows, ShownAreRequests
     DEF NewsInv, NewsType, TableInv, ShownInv, Withheld, News!Insert, News!Goto
<1>5. QED BY <1>2, <1>3, <1>4 DEF NewsInv

LEMMA RemoveKeeps ==
    ASSUME NewsInv, NEW q \in Requests, NEW a \in Requests \ {q}, News!Remove(q, a)
    PROVE  NewsInv'
<1>1. UNCHANGED <<aired, listed>>
  BY DEF News!Remove
<1>2. NewsType'
  BY <1>1 DEF NewsInv, NewsType, News!Remove, News!Goto
<1>3. TableInv'
  BY <1>1 DEF NewsInv, NewsType, TableInv, News!Remove, News!Goto
<1>4. Withheld \subseteq Withheld'
  BY DEF NewsInv, NewsType, TableInv, Withheld, News!Remove, News!Goto
<1>5. announcements \ announcements' \subseteq Withheld'
  BY DEF NewsInv, NewsType, Withheld, News!Remove, News!Goto
<1>6. ShownInv'
  BY <1>1, <1>4, <1>5, SilentShows, ShownAreRequests
     DEF NewsInv, NewsType, TableInv, ShownInv, News!Remove, News!Goto
<1>7. QED BY <1>2, <1>3, <1>6 DEF NewsInv

LEMMA CutOffKeeps == ASSUME NewsInv, NEW q \in Requests, News!CutOff(q) PROVE NewsInv'
<1>1. UNCHANGED <<announcements, aired, listed, removed>>
  BY DEF News!CutOff
<1>2. NewsType' /\ TableInv'
  BY <1>1 DEF NewsInv, NewsType, TableInv, News!CutOff, News!Goto
<1>3. Withheld \subseteq Withheld'
  BY <1>1 DEF NewsInv, NewsType, Withheld, News!CutOff, News!Goto
<1>4. ShownInv'
  BY <1>1, <1>3, SilentShows, ShownAreRequests
     DEF NewsInv, NewsType, ShownInv, News!CutOff, News!Goto
<1>5. QED BY <1>2, <1>4 DEF NewsInv

(* The two sends of a dispatch: only the place of the handler changes. *)
LEMMA TellKeeps ==
    ASSUME NewsInv, NEW q \in Requests, News!TellScripts(q) \/ News!TellWebhooks(q)
    PROVE  NewsInv'
<1>1. /\ UNCHANGED <<announcements, aired, listed, removed>>
      /\ at[q] \in {"aired", "half"}
      /\ at' = [at EXCEPT ![q] = "half"] \/ at' = [at EXCEPT ![q] = "over"]
  BY DEF News!TellScripts, News!TellWebhooks, News!Goto
<1>2. NewsType' /\ TableInv'
  BY <1>1 DEF NewsInv, NewsType, TableInv
<1>3. Withheld \subseteq Withheld'
  BY <1>1 DEF NewsInv, NewsType, Withheld
<1>4. ShownInv'
  BY <1>1, <1>3, SilentShows, ShownAreRequests DEF NewsInv, NewsType, ShownInv
<1>5. QED BY <1>2, <1>4 DEF NewsInv

LEMMA AirNewKeeps == ASSUME NewsInv, NEW q \in Requests, News!AirNew(q) PROVE NewsInv'
<1>1. /\ UNCHANGED <<announcements, listed, removed>>
      /\ News!Air(News!New(q))
      /\ at[q] = "inserted" /\ at' = [at EXCEPT ![q] = "aired"]
  BY DEF News!AirNew, News!Goto
<1>2. News!New(q) \in Broadcasts
  BY DEF News!New, Broadcasts
<1>3. NewsType' /\ TableInv'
  BY <1>1, <1>2, OneMore DEF NewsInv, NewsType, TableInv
<1>4. News!Shown' = News!Shown \union {q}
  BY <1>1, AirShows DEF NewsInv
<1>5. Withheld \subseteq Withheld'
  BY <1>1 DEF NewsInv, NewsType, Withheld
<1>6. News!Overtaken \subseteq News!Overtaken' /\ AiredDelete \subseteq AiredDelete'
  BY <1>1, <1>2, AirRemembers DEF NewsInv
<1>7. q \in announcements \union News!Overtaken' \union Withheld'
  BY <1>1, <1>2, <1>5, AirRemembers DEF NewsInv, ShownInv
<1>8. ShownInv'
  BY <1>1, <1>4, <1>5, <1>6, <1>7, ShownAreRequests DEF NewsInv, NewsType, ShownInv
<1>9. QED BY <1>3, <1>8 DEF NewsInv

LEMMA AirDeleteKeeps == ASSUME NewsInv, NEW q \in Requests, News!AirDelete(q) PROVE NewsInv'
<1>1. /\ UNCHANGED <<announcements, listed, removed>>
      /\ at[q] = "deleted" /\ at' = [at EXCEPT ![q] = "over"]
  BY DEF News!AirDelete, News!Goto
<1>2. TableInv'
  BY <1>1 DEF NewsInv, NewsType, TableInv
<1>3. CASE removed[q] = {}
  <2>1. UNCHANGED aired
    BY <1>3 DEF News!AirDelete, News!Row
  <2>2. NewsType'
    BY <1>1, <2>1 DEF NewsInv, NewsType
  <2>3. Withheld \subseteq Withheld'
    BY <1>1, <1>3 DEF NewsInv, NewsType, Withheld
  <2>4. ShownInv'
    BY <1>1, <2>1, <2>3, SilentShows, ShownAreRequests DEF NewsInv, NewsType, ShownInv
  <2>5. QED BY <1>2, <2>2, <2>4 DEF NewsInv
<1>4. CASE removed[q] # {}
  <2>1. PICK a \in removed[q] : News!Air(News!Delete(a))
    BY <1>4 DEF News!AirDelete, News!Row
  <2>2. a \in Requests /\ a \notin announcements /\ News!Delete(a) \in Broadcasts
    BY <2>1 DEF NewsInv, NewsType, TableInv, News!Delete, Broadcasts
  <2>3. NewsType'
    BY <1>1, <2>1, <2>2, OneMore DEF NewsInv, NewsType
  <2>4. News!Shown' = News!Shown \ {a} /\ a \in AiredDelete'
    BY <1>1, <2>1, <2>2, AirHides DEF NewsInv
  <2>5. Withheld \ {a} \subseteq Withheld'
    BY <1>1, <2>1 DEF NewsInv, NewsType, TableInv, Withheld
  <2>6. News!Overtaken \subseteq News!Overtaken' /\ AiredDelete \subseteq AiredDelete'
    BY <2>1, <2>2, AirRemembers DEF NewsInv
  <2>7. ShownInv'
    BY <1>1, <2>2, <2>4, <2>5, <2>6, ShownAreRequests DEF NewsInv, NewsType, ShownInv
  <2>8. QED BY <1>2, <2>3, <2>7 DEF NewsInv
<1>5. QED BY <1>3, <1>4

LEMMA RenewKeeps == ASSUME NewsInv, News!Renew PROVE NewsInv'
<1>1. /\ aired' = <<>> /\ listed' = announcements /\ UNCHANGED <<announcements, removed>>
      /\ at' = [q \in Requests |-> IF at[q] \in {"waiting", "over"} THEN at[q] ELSE "lost"]
  BY DEF News!Renew
<1>2. NewsType' /\ TableInv'
  BY <1>1 DEF NewsInv, NewsType, TableInv
<1>3. News!Shown' = announcements
  BY <1>1, 1 .. 0 = {} DEF NewsInv, NewsType, News!Shown
<1>4. ShownInv'
  BY <1>1, <1>3 DEF NewsInv, NewsType, ShownInv
<1>5. QED BY <1>2, <1>4 DEF NewsInv

(* Starts and hooks do not touch the announcements. *)
LEMMA OthersKeep ==
    ASSUME NewsInv, UNCHANGED <<announcements, at, removed, aired, listed>> PROVE NewsInv'
<1>1. NewsType' /\ TableInv'
  BY DEF NewsInv, NewsType, TableInv
<1>2. ShownInv'
  BY SilentShows, ShownAreRequests DEF NewsInv, ShownInv, Withheld
<1>3. QED BY <1>1, <1>2 DEF NewsInv

LEMMA NewsNext == NewsInv /\ [Next]_vars => NewsInv'
<1> SUFFICES ASSUME NewsInv, [Next]_vars PROVE NewsInv'
  OBVIOUS
<1>1. CASE \E p \in Starts : Starting(p) \/ Ending(p)
  BY <1>1, RenewKeeps, OthersKeep DEF Starting, Ending, announced
<1>2. CASE Within(HostExists /\ \E q \in Requests : News!Ask(q))
  BY <1>2, InsertKeeps, RemoveKeeps DEF Within, News!Ask
<1>3. CASE Within(\E q \in Requests : News!Proceed(q) \/ News!CutOff(q))
  BY <1>3, AirNewKeeps, TellKeeps, AirDeleteKeeps, CutOffKeeps DEF Within, News!Proceed
<1>4. CASE Hooking(News!Hook!Next)
  BY <1>4, OthersKeep DEF Hooking, Within
<1>5. CASE UNCHANGED vars
  BY <1>5, OthersKeep DEF vars, announced
<1>6. QED BY <1>1, <1>2, <1>3, <1>4, <1>5 DEF Next

THEOREM NewsInvariant == Spec => []NewsInv
<1>1. Init => NewsInv
  BY NewsInit DEF Init
<1>2. QED BY <1>1, NewsNext, PTL DEF Spec

(* Clients who follow the broadcasts show the table, but for what a dropped  *)
(* handler kept to itself and for an announcement whose deletion was         *)
(* broadcast before it.                                                      *)
THEOREM TableIsShown == Spec => []ClientsShowTable
<1>1. NewsInv => ClientsShowTable
  BY ShownAreRequests DEF NewsInv, NewsType, ShownInv, Withheld,
     ClientsShowTable, News!ClientsShowTable
<1>2. QED BY <1>1, NewsInvariant, PTL
=============================================================================
