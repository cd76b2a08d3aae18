--------------------------- MODULE SessionsProofs ---------------------------
(***************************************************************************)
(* Theorems about module Sessions, for any number of accounts, requests,   *)
(* sessions and restarts: the types, and the safety properties of logins,  *)
(* logouts, new teams and patches.                                         *)
(***************************************************************************)
EXTENDS Sessions, TLAPS

-----------------------------------------------------------------------------
(* Invariants *)

(* How far a request has come, and what it then has: an account that is in    *)
(* the table, a session of its own, the session it presents, a patch.         *)
Standing(q) ==
    /\ at[q] \in {"verified", "opened", "checked", "merged"} => who[q] \in users
    /\ at[q] \in {"opened", "checked"} => q \in sessions
    /\ q \in sessions =>
        /\ who[q] \in users
        /\ at[q] \in {"opened", "checked", "logged_in", "over"}
    /\ q \in silent => at[q] \in {"checked", "logged_in", "over"}
    /\ at[q] = "merged" => patch[q] \in Patches /\ draft[q] \in [Fields -> Values]
    /\ token[q] # NoSession <=> at[q] \in {"found", "closing", "closed"}
    /\ token[q] \in Requests => at[token[q]] = "logged_in" /\ who[token[q]] \in users

WhoInv == Configured \subseteq users /\ \A q \in Requests : Standing(q)

(* The accounts of one POST are new, belong to no other POST, and are not     *)
(* known before it inserts them.                                              *)
BatchInv ==
    /\ \A p, q \in Requests : p # q => batch[p] \intersect batch[q] = {}
    /\ \A q \in Requests :
        /\ batch[q] \intersect Configured = {}
        /\ at[q] = "committed" =>
            /\ batch[q] \subseteq users
            /\ \A u \in batch[q] : ~teams[u].known
    /\ AddedTogether
    /\ CreatedTeamsAreKnown

(* The team of every session that a client may present has been heard of, or  *)
(* has come in silently.                                                      *)
Accounted(u) == heard[u] = 1 \/ \E s \in silent : Owner(s) = u

SessionsAccounted == \A s \in sessions :
    s \in Earlier \/ at[s] \in {"checked", "logged_in"} => Accounted(Owner(s))

TokensAccounted == \A q \in Requests :
    token[q] # NoSession => Accounted(Owner(token[q]))

TeamsAccounted == \A u \in Users :
    /\ ~teams[u].known => teams[u] = NoTeam /\ heard[u] = 0
    /\ heard[u] <= 1
    /\ heard[u] = 1 => teams[u].checked_in
    /\ teams[u].checked_in => Accounted(u)

HeardInv == TeamsAccounted /\ SessionsAccounted /\ TokensAccounted

(* A team without a session and without a logout between its two halves is    *)
(* disconnected or excused.                                                   *)
Away(u) ==
    /\ \A q \in Requests : at[q] = "closed" => Owner(token[q]) # u
    /\ \A s \in sessions : Owner(s) # u

LogoutInv == \A u \in Users :
    teams[u].checked_in /\ Away(u) => teams[u].disconnected \/ u \in excused

(* A draft is the account with the patch over it, unless the account has been *)
(* written since it was read.                                                 *)
PatchInv ==
    /\ PatchesKept
    /\ \A q \in Requests : at[q] = "merged" =>
        draft[q] = Over(patch[q], account[who[q]]) \/ who[q] \in torn

IInv == TypeOK /\ WhoInv /\ BatchInv /\ HeardInv /\ LogoutInv /\ PatchInv

-----------------------------------------------------------------------------
(* Types *)

Teams == [known : BOOLEAN, checked_in : BOOLEAN, disconnected : BOOLEAN]

(* What TeamManagement makes of a team is a team.                             *)
LEMMA TeamsTyped ==
    /\ NoTeam \in Teams /\ NewTeam \in Teams
    /\ \A i \in Teams : CheckedIn(i) \in Teams /\ Left(i) \in Teams
BY DEF Teams, NoTeam, NewTeam, CheckedIn, Left

(* A patch over an account is an account (patch_team in services/teams.rs).   *)
LEMMA OverTyped ==
    ASSUME NEW p \in Patches, NEW a \in [Fields -> Values]
    PROVE  Over(p, a) \in [Fields -> Values]
<1>1. PICK F \in SUBSET Fields : p \in [F -> Values]
  BY SessionsAssumption
<1>2. DOMAIN p = F /\ DOMAIN a = Fields /\ F \union Fields = Fields
  BY <1>1
<1>3. \A f \in Fields : (IF f \in F THEN p[f] ELSE a[f]) \in Values
  BY <1>1
<1> QED
  BY <1>2, <1>3 DEF Over

(* Whose a session is that is presented: an account of the table.             *)
LEMMA OwnerKnown ==
    ASSUME TypeOK, WhoInv, NEW q \in Requests, token[q] # NoSession
    PROVE  token[q] \in Tokens /\ Owner(token[q]) \in users /\ Owner(token[q]) \in Users
BY SessionsAssumption DEF TypeOK, WhoInv, Standing, Owner, Tokens

LEMMA InitTyped == Init => TypeOK /\ WhoInv
<1> SUFFICES ASSUME Init PROVE TypeOK /\ WhoInv
  OBVIOUS
<1>1. TypeOK
  BY SessionsAssumption, TeamsTyped
     DEF Init, TypeOK, Teams, Tokens, Kinds, Awaits, Ends
<1>2. WhoInv
  BY SessionsAssumption DEF Init, WhoInv, Standing
<1> QED
  BY <1>1, <1>2

(* Every step keeps the types and what a request has.                         *)
LEMMA TypesKept ==
    ASSUME TypeOK, WhoInv, Next
    PROVE  TypeOK' /\ WhoInv'
<1> USE SessionsAssumption
<1> USE DEF TypeOK, Goto, tables, request, patching
<1>1. ASSUME NEW q \in Requests, NEW u \in Users, Verify(q, u) PROVE TypeOK' /\ WhoInv'
  <2>1. TypeOK'
    <3>1. who' \in [Requests -> Users \union {Nobody}]
      BY <1>1 DEF Verify
    <3>2. at' \in [Requests -> {"idle"} \union Awaits \union Ends]
      <4>1. \E p \in {"verified", "over"} : at' = [at EXCEPT ![q] = p]
        BY <1>1 DEF Verify
      <4>2. {"verified", "over"} \subseteq Awaits \union Ends
        BY DEF Awaits, Ends
      <4> QED
        BY <4>1, <4>2
    <3> QED
      BY <1>1, <3>1, <3>2 DEF Verify
  <2>2. WhoInv'
    <3> SUFFICES ASSUME NEW r \in Requests PROVE Standing(r)'
      BY <1>1 DEF WhoInv, Verify
    <3>1. Standing(r) /\ Standing(q)
      BY DEF WhoInv
    <3>2. CASE r = q
      BY <3>1, <3>2, <1>1 DEF WhoInv, Standing, Verify
    <3>3. CASE r # q
      BY <3>1, <3>3, <1>1 DEF WhoInv, Standing, Verify
    <3> QED
      BY <3>2, <3>3
  <2> QED
    BY <2>1, <2>2
<1>2. ASSUME NEW q \in Requests, CreateSession(q) PROVE TypeOK' /\ WhoInv'
  <2>1. TypeOK'
    BY <1>2 DEF CreateSession, Awaits, Ends, Tokens
  <2>2. WhoInv'
    <3> SUFFICES ASSUME NEW r \in Requests PROVE Standing(r)'
      BY <1>2 DEF WhoInv, CreateSession
    <3>1. Standing(r) /\ Standing(q)
      BY DEF WhoInv
    <3>2. CASE r = q
      BY <3>1, <3>2, <1>2 DEF WhoInv, Standing, CreateSession
    <3>3. CASE r # q
      BY <3>1, <3>3, <1>2 DEF WhoInv, Standing, CreateSession
    <3> QED
      BY <3>2, <3>3
  <2> QED
    BY <2>1, <2>2
<1>3. ASSUME NEW q \in Requests, LogIn(q) PROVE TypeOK' /\ WhoInv'
  <2>1. CheckedIn(teams[who[q]]) \in Teams /\ who[q] \in Users
    BY <1>3, TeamsTyped DEF WhoInv, Standing, LogIn, Teams
  <2>2. TypeOK'
    BY <1>3, <2>1 DEF LogIn, Awaits, Ends, Tokens, Teams
  <2>3. WhoInv'
    BY <1>3 DEF WhoInv, Standing, LogIn
  <2> QED
    BY <2>2, <2>3
<1>4. ASSUME NEW q \in Requests, LoggedIn(q) PROVE TypeOK' /\ WhoInv'
  <2>1. TypeOK'
    BY <1>4 DEF LoggedIn, Awaits, Ends
  <2>2. WhoInv'
    BY <1>4 DEF WhoInv, Standing, LoggedIn
  <2> QED
    BY <2>1, <2>2
<1>5. ASSUME NEW q \in Requests, NEW s \in InHand, NEW k \in Kinds, GetUserFromSession(q, s, k)
      PROVE  TypeOK' /\ WhoInv'
  <2>1. s \in Tokens
    BY DEF InHand, Tokens
  <2>2. TypeOK'
    <3>1. CASE s \in sessions
      <4>1. at' = [at EXCEPT ![q] = "found"] /\ "found" \in Awaits
        BY <1>5, <3>1 DEF GetUserFromSession, Awaits
      <4>2. at' \in [Requests -> {"idle"} \union Awaits \union Ends]
        BY <4>1
      <4>3. token' \in [Requests -> Tokens \union {NoSession}] /\ kind' \in [Requests -> Kinds]
        <5>1. token' = [token EXCEPT ![q] = s] /\ kind' = [kind EXCEPT ![q] = k]
          BY <1>5, <3>1 DEF GetUserFromSession
        <5>2. token \in [Requests -> Tokens \union {NoSession}] /\ kind \in [Requests -> Kinds]
          OBVIOUS
        <5> HIDE DEF TypeOK
        <5> QED
          BY <5>1, <5>2, <2>1
      <4> QED
        BY <1>5, <4>2, <4>3 DEF GetUserFromSession
    <3>2. CASE s \notin sessions
      BY <1>5, <3>2 DEF GetUserFromSession, Awaits, Ends
    <3> QED
      BY <3>1, <3>2
  <2>3. WhoInv'
    <3> SUFFICES ASSUME NEW r \in Requests PROVE Standing(r)'
      BY <1>5, <2>1 DEF WhoInv, GetUserFromSession, InHand, Tokens
    <3>1. Standing(r) /\ Standing(q)
      BY DEF WhoInv
    <3>2. CASE r = q
      BY <3>1, <3>2, <1>5, <2>1 DEF WhoInv, Standing, GetUserFromSession, InHand, Tokens
    <3>3. CASE r # q
      BY <3>1, <3>3, <1>5, <2>1 DEF WhoInv, Standing, GetUserFromSession, InHand, Tokens
    <3> QED
      BY <3>2, <3>3
  <2> QED
    BY <2>2, <2>3
<1>6. ASSUME NEW q \in Requests, DeleteExpired(q) PROVE TypeOK' /\ WhoInv'
  <2>1. Owner(token[q]) \in Users
    BY <1>6, OwnerKnown DEF WhoInv, Standing, DeleteExpired
  <2>2. TypeOK'
    BY <1>6, <2>1 DEF DeleteExpired, Awaits, Ends, Kinds
  <2>3. WhoInv'
    BY <1>6 DEF WhoInv, Standing, DeleteExpired
  <2> QED
    BY <2>2, <2>3
<1>7. ASSUME NEW q \in Requests, Extract(q) PROVE TypeOK' /\ WhoInv'
  <2>1. Handler(q) \in {"closing", "adding", "patching", "over"}
    BY DEF Handler
  <2>2. Owner(token[q]) \in Users /\ CheckedIn(teams[Owner(token[q])]) \in Teams
    BY <1>7, OwnerKnown, TeamsTyped DEF WhoInv, Standing, Extract, Teams
  <2>3. TypeOK'
    BY <1>7, <2>1, <2>2 DEF Extract, Awaits, Ends, Kinds, Teams
  <2>4. WhoInv'
    BY <1>7, <2>1 DEF WhoInv, Standing, Extract
  <2> QED
    BY <2>3, <2>4
<1>8. ASSUME NEW q \in Requests, CloseSession(q) PROVE TypeOK' /\ WhoInv'
  <2>1. TypeOK'
    BY <1>8 DEF CloseSession, Awaits, Ends
  <2>2. WhoInv'
    BY <1>8 DEF WhoInv, Standing, CloseSession
  <2> QED
    BY <2>1, <2>2
<1>9. ASSUME NEW q \in Requests, Disconnect(q) PROVE TypeOK' /\ WhoInv'
  <2>1. Owner(token[q]) \in Users /\ Left(teams[Owner(token[q])]) \in Teams
    BY <1>9, OwnerKnown, TeamsTyped DEF WhoInv, Standing, Disconnect, Teams
  <2>2. TypeOK'
    BY <1>9, <2>1 DEF Disconnect, Awaits, Ends, Teams
  <2>3. WhoInv'
    <3> SUFFICES ASSUME NEW r \in Requests PROVE Standing(r)'
      BY <1>9 DEF WhoInv, Disconnect
    <3>1. Standing(r) /\ Standing(q) /\ at[q] = "closed"
      BY <1>9 DEF WhoInv, Disconnect
    <3>2. CASE r = q
      BY <1>9, <3>1, <3>2 DEF Standing, Disconnect
    <3>3. CASE r # q
      BY <1>9, <3>1, <3>3 DEF Standing, Disconnect
    <3> QED
      BY <3>2, <3>3
  <2> QED
    BY <2>2, <2>3
<1>10. ASSUME NEW q \in Requests, NEW new \in SUBSET (Users \ Drawn),
              NEW conflicts \in SUBSET new, Commit(q, new, conflicts)
       PROVE  TypeOK' /\ WhoInv'
  <2>1. TypeOK'
    <3>1. at' \in [Requests -> {"idle"} \union Awaits \union Ends]
      <4>1. \E p \in {"committed", "conflict"} : at' = [at EXCEPT ![q] = p]
        BY <1>10 DEF Commit
      <4>2. {"committed", "conflict"} \subseteq Awaits \union Ends
        BY DEF Awaits, Ends
      <4> QED
        BY <4>1, <4>2
    <3>2. users' \subseteq Users /\ batch' \in [Requests -> SUBSET Users]
      BY <1>10 DEF Commit, Accepted
    <3> QED
      BY <1>10, <3>1, <3>2 DEF Commit
  <2>2. WhoInv'
    <3> SUFFICES ASSUME NEW r \in Requests PROVE Standing(r)'
      BY <1>10 DEF WhoInv, Commit, Accepted
    <3>1. Standing(r) /\ Standing(q)
      BY DEF WhoInv
    <3>2. CASE r = q
      BY <3>1, <3>2, <1>10 DEF WhoInv, Standing, Commit, Accepted
    <3>3. CASE r # q
      BY <3>1, <3>3, <1>10 DEF WhoInv, Standing, Commit, Accepted
    <3> QED
      BY <3>2, <3>3
  <2> QED
    BY <2>1, <2>2
<1>11. ASSUME NEW q \in Requests, Insert(q) PROVE TypeOK' /\ WhoInv'
  <2>1. teams' \in [Users -> Teams]
    BY <1>11, TeamsTyped DEF Insert, Teams
  <2>2. TypeOK'
    BY <1>11, <2>1 DEF Insert, Awaits, Ends, Teams
  <2>3. WhoInv'
    <3> SUFFICES ASSUME NEW r \in Requests PROVE Standing(r)'
      BY <1>11 DEF WhoInv, Insert
    <3>1. Standing(r) /\ Standing(q)
      BY DEF WhoInv
    <3>2. CASE r = q
      BY <3>1, <3>2, <1>11 DEF WhoInv, Standing, Insert
    <3>3. CASE r # q
      BY <3>1, <3>3, <1>11 DEF WhoInv, Standing, Insert
    <3> QED
      BY <3>2, <3>3
  <2> QED
    BY <2>2, <2>3
<1>12. ASSUME NEW q \in Requests, NEW u \in Users, NEW p \in Patches, ReadAccount(q, u, p)
       PROVE  TypeOK' /\ WhoInv'
  <2>1. Merged(p, account[u]) \in [Fields -> Values]
    BY OverTyped DEF Merged
  <2>2. TypeOK'
    BY <1>12, <2>1 DEF ReadAccount, Awaits, Ends
  <2>3. WhoInv'
    <3> SUFFICES ASSUME NEW r \in Requests PROVE Standing(r)'
      BY <1>12, <2>1 DEF WhoInv, ReadAccount
    <3>1. Standing(r) /\ Standing(q)
      BY DEF WhoInv
    <3>2. CASE r = q
      BY <3>1, <3>2, <1>12, <2>1 DEF WhoInv, Standing, ReadAccount
    <3>3. CASE r # q
      BY <3>1, <3>3, <1>12, <2>1 DEF WhoInv, Standing, ReadAccount
    <3> QED
      BY <3>2, <3>3
  <2> QED
    BY <2>2, <2>3
<1>13. ASSUME NEW q \in Requests, UpdateUser(q) PROVE TypeOK' /\ WhoInv'
  <2>1. who[q] \in Users /\ draft[q] \in [Fields -> Values] /\ patch[q] \in Patches
    BY <1>13 DEF WhoInv, Standing, UpdateUser
  <2>2. Over(patch[q], meant[who[q]]) \in [Fields -> Values]
    BY <2>1, OverTyped
  <2>3. TypeOK'
    BY <1>13, <2>1, <2>2 DEF UpdateUser, Awaits, Ends
  <2>4. WhoInv'
    <3> SUFFICES ASSUME NEW r \in Requests PROVE Standing(r)'
      BY <1>13, <2>1 DEF WhoInv, UpdateUser
    <3>1. Standing(r) /\ Standing(q)
      BY DEF WhoInv
    <3>2. CASE r = q
      BY <3>1, <3>2, <1>13, <2>1 DEF WhoInv, Standing, UpdateUser
    <3>3. CASE r # q
      BY <3>1, <3>3, <1>13, <2>1 DEF WhoInv, Standing, UpdateUser
    <3> QED
      BY <3>2, <3>3
  <2> QED
    BY <2>3, <2>4
<1>14. ASSUME NEW q \in Requests, CutOff(q) PROVE TypeOK' /\ WhoInv'
  <2>1. at[q] = "closed" => Owner(token[q]) \in Users
    BY OwnerKnown DEF WhoInv, Standing
  <2>2. TypeOK'
    BY <1>14, <2>1 DEF CutOff, Awaits, Ends, Kinds
  <2>3. WhoInv'
    BY <1>14 DEF WhoInv, Standing, CutOff, Awaits
  <2> QED
    BY <2>2, <2>3
<1>15. ASSUME NEW s \in Tokens, Expire(s) PROVE TypeOK' /\ WhoInv'
  BY <1>15 DEF WhoInv, Standing, Expire
<1>16. CASE Restart
  <2>1. teams' \in [Users -> Teams]
    BY <1>16, TeamsTyped DEF Restart, Teams
  <2>2. TypeOK'
    BY <1>16, <2>1 DEF Restart, Awaits, Ends, Kinds, Teams
  <2>3. WhoInv'
    BY <1>16 DEF WhoInv, Standing, Restart, Awaits
  <2> QED
    BY <2>2, <2>3
<1> QED
  BY <1>1, <1>2, <1>3, <1>4, <1>5, <1>6, <1>7, <1>8, <1>9, <1>10, <1>11, <1>12,
     <1>13, <1>14, <1>15, <1>16 DEF Next, Serve

(* Nothing changes in a step that changes no variable.                        *)
LEMMA Stuttering == ASSUME IInv, UNCHANGED vars PROVE IInv'
<1> USE DEF vars, tables, request, patching, IInv
<1>1. TypeOK' /\ WhoInv'
  BY DEF TypeOK, WhoInv, Standing
<1>2. BatchInv'
  BY DEF BatchInv, AddedTogether, CreatedTeamsAreKnown
<1>3. HeardInv'
  BY DEF HeardInv, TeamsAccounted,
         SessionsAccounted, TokensAccounted, Accounted, Owner
<1>4. LogoutInv'
  BY DEF LogoutInv, Away, Owner
<1>5. PatchInv'
  BY DEF PatchInv, PatchesKept, Over
<1> QED
  BY <1>1, <1>2, <1>3, <1>4, <1>5

(* TypeCorrect: every variable of the sessions keeps its type.                *)
THEOREM TypeCorrect == Spec => []TypeOK
<1>1. ASSUME TypeOK, WhoInv, [Next]_vars PROVE TypeOK' /\ WhoInv'
  <2>1. CASE Next
    BY <1>1, <2>1, TypesKept
  <2>2. CASE UNCHANGED vars
    BY <1>1, <2>2 DEF vars, tables, request, patching, TypeOK, WhoInv, Standing
  <2> QED
    BY <1>1, <2>1, <2>2
<1> QED
  BY InitTyped, <1>1, PTL DEF Spec

-----------------------------------------------------------------------------
(* Whose a session is *)

(* A session in the table, one that came silently, or one that is presented.  *)
Held(s) ==
    s \in Earlier \union sessions \union silent
         \union {token[q] : q \in {r \in Requests : token[r] # NoSession}}

(* A session that is held belongs to the same account after the step of a     *)
(* request, and is that of a login which has come far enough.                 *)
LEMMA HeldByLogin ==
    ASSUME TypeOK, WhoInv, NEW s, Held(s)
    PROVE  /\ s \in Tokens
           /\ s \in Requests => at[s] \in {"opened", "checked", "logged_in", "over"}
           /\ s \in Requests /\ s \notin sessions => at[s] \notin Awaits
<1>1. CASE s \in Earlier
  BY <1>1, SessionsAssumption DEF Tokens
<1>2. CASE s \in sessions \union silent
  BY <1>2 DEF TypeOK, WhoInv, Standing, Tokens, Awaits
<1>3. ASSUME NEW q \in Requests, token[q] # NoSession, s = token[q]
      PROVE  s \in Tokens /\ (s \in Requests => at[s] = "logged_in")
  BY <1>3 DEF TypeOK, WhoInv, Standing
<1> QED
  BY <1>1, <1>2, <1>3 DEF Held, Awaits

LEMMA OwnerKept ==
    ASSUME TypeOK, WhoInv, NEW q \in Requests, Serve(q), NEW s, Held(s)
    PROVE  Owner(s)' = Owner(s)
<1>1. CASE s \in Earlier
  BY <1>1 DEF Owner
<1>2. CASE s \notin Earlier
  <2>1. /\ s \in Requests
        /\ at[s] \in {"opened", "checked", "logged_in", "over"}
        /\ s \notin sessions => at[s] \notin Awaits
    BY <1>2, HeldByLogin DEF Tokens
  <2>2. who'[s] = who[s]
    BY <2>1 DEF TypeOK, Serve, Goto, request, Verify, CreateSession, LogIn, LoggedIn,
                GetUserFromSession, DeleteExpired, Extract, CloseSession, Disconnect,
                Commit, Insert, ReadAccount, UpdateUser, CutOff
  <2> QED
    BY <1>2, <2>2 DEF Owner
<1> QED
  BY <1>1, <1>2

-----------------------------------------------------------------------------
(* New teams *)

(* A step that creates nothing and makes no team known.                       *)
LEMMA BatchUntouched ==
    ASSUME TypeOK, BatchInv, users' = users, batch' = batch, stranded' = stranded,
           \A u \in Users : teams'[u].known = teams[u].known,
           \A q \in Requests : \A e \in {"committed", "added", "conflict"} :
               at'[q] = e <=> at[q] = e
    PROVE  BatchInv'
<1>1. \A q \in Requests : batch[q] \subseteq Users
  BY DEF TypeOK
<1>2. AddedTogether'
  BY <1>1 DEF BatchInv, AddedTogether
<1>3. CreatedTeamsAreKnown'
  BY DEF BatchInv, CreatedTeamsAreKnown
<1> QED
  BY <1>1, <1>2, <1>3 DEF BatchInv

(* What check and disconnect leave alone.                                     *)
LEMMA KnownStays ==
    ASSUME NEW i \in Teams
    PROVE  CheckedIn(i).known = i.known /\ Left(i).known = i.known
BY DEF Teams, CheckedIn, Left

LEMMA BatchKept ==
    ASSUME TypeOK, WhoInv, BatchInv, Next
    PROVE  BatchInv'
<1> USE DEF Goto, tables, request, patching
<1>1. ASSUME NEW q \in Requests, NEW u \in Users, Verify(q, u) PROVE BatchInv'
  BY <1>1, BatchUntouched DEF TypeOK, Verify
<1>2. ASSUME NEW q \in Requests, CreateSession(q) \/ LoggedIn(q) \/ CloseSession(q)
      PROVE  BatchInv'
  BY <1>2, BatchUntouched DEF TypeOK, CreateSession, LoggedIn, CloseSession
<1>3. ASSUME NEW q \in Requests, LogIn(q) PROVE BatchInv'
  <2>1. \A u \in Users : teams'[u].known = teams[u].known
    BY <1>3, KnownStays DEF TypeOK, LogIn, Teams
  <2> QED
    BY <1>3, <2>1, BatchUntouched DEF TypeOK, LogIn
<1>4. ASSUME NEW q \in Requests, NEW s \in InHand, NEW k \in Kinds, GetUserFromSession(q, s, k)
      PROVE  BatchInv'
  <2>1. \/ at' = [at EXCEPT ![q] = "found"] /\ at[q] = "idle"
        \/ at' = [at EXCEPT ![q] = "over"] /\ at[q] = "idle"
    BY <1>4 DEF GetUserFromSession
  <2> QED
    BY <1>4, <2>1, BatchUntouched DEF TypeOK, GetUserFromSession
<1>5. ASSUME NEW q \in Requests, DeleteExpired(q) PROVE BatchInv'
  BY <1>5, BatchUntouched DEF TypeOK, DeleteExpired
<1>6. ASSUME NEW q \in Requests, Extract(q) PROVE BatchInv'
  <2>1. Handler(q) \in {"closing", "adding", "patching", "over"}
    BY DEF Handler
  <2>2. \A u \in Users : teams'[u].known = teams[u].known
    BY <1>6, KnownStays DEF TypeOK, Extract, Teams
  <2> QED
    BY <1>6, <2>1, <2>2, BatchUntouched DEF TypeOK, Extract
<1>7. ASSUME NEW q \in Requests, Disconnect(q) PROVE BatchInv'
  <2>1. \A u \in Users : teams'[u].known = teams[u].known
    BY <1>7, KnownStays DEF TypeOK, Disconnect, Teams
  <2> QED
    BY <1>7, <2>1, BatchUntouched DEF TypeOK, Disconnect
<1>8. ASSUME NEW q \in Requests, NEW new \in SUBSET (Users \ Drawn),
             NEW conflicts \in SUBSET new, Commit(q, new, conflicts)
      PROVE  BatchInv'
  <2>1. /\ new \intersect users = {}
        /\ \A p \in Requests : new \intersect batch[p] = {}
    BY DEF Drawn
  <2>2. \A u \in new : ~teams[u].known
    BY <2>1 DEF BatchInv, CreatedTeamsAreKnown
  <2>3. new \intersect Configured = {}
    BY <2>1 DEF WhoInv
  <2>4. \A p, r \in Requests : p # r => batch'[p] \intersect batch'[r] = {}
    BY <1>8, <2>1 DEF TypeOK, BatchInv, Commit
  <2>5. \/ at' = [at EXCEPT ![q] = "committed"] /\ users' = users \union new
        \/ at' = [at EXCEPT ![q] = "conflict"] /\ users' = users
    BY <1>8 DEF Commit, Accepted
  <2>6. at[q] = "adding" /\ batch' = [batch EXCEPT ![q] = new] /\ teams' = teams
        /\ stranded' = stranded
    BY <1>8 DEF Commit
  <2>7. AddedTogether'
    <3> SUFFICES ASSUME NEW r \in Requests
                 PROVE  /\ batch'[r] \subseteq users' \/ batch'[r] \intersect users' = {}
                        /\ at'[r] = "added" => \A u \in batch'[r] : u \in users' /\ teams'[u].known
                        /\ at'[r] = "conflict" => batch'[r] \intersect users' = {}
      BY DEF AddedTogether
    <3>1. CASE r = q
      BY <2>1, <2>5, <2>6, <3>1 DEF TypeOK
    <3>2. CASE r # q
      <4>1. batch'[r] = batch[r] /\ at'[r] = at[r] /\ new \intersect batch[r] = {}
        BY <2>1, <2>5, <2>6, <3>2 DEF TypeOK
      <4> QED
        BY <4>1, <2>5, <2>6 DEF BatchInv, AddedTogether
    <3> QED
      BY <3>1, <3>2
  <2>8. CreatedTeamsAreKnown'
    <3> SUFFICES ASSUME NEW u \in Users
                 PROVE  /\ teams'[u].known => u \in users' \ Hosts
                        /\ u \in users' \ Hosts =>
                            \/ teams'[u].known \/ u \in stranded'
                            \/ \E r \in Requests : at'[r] = "committed" /\ u \in batch'[r]
      BY DEF CreatedTeamsAreKnown
    <3>1. CASE u \in new
      BY <2>2, <2>5, <2>6, <2>1, <3>1 DEF TypeOK
    <3>2. CASE u \notin new
      BY <2>5, <2>6, <3>2 DEF TypeOK, BatchInv, CreatedTeamsAreKnown
    <3> QED
      BY <3>1, <3>2
  <2>9. \A r \in Requests :
          /\ batch'[r] \intersect Configured = {}
          /\ at'[r] = "committed" =>
              /\ batch'[r] \subseteq users'
              /\ \A u \in batch'[r] : ~teams'[u].known
    BY <2>2, <2>3, <2>5, <2>6 DEF TypeOK, BatchInv
  <2> QED
    BY <2>4, <2>7, <2>8, <2>9 DEF BatchInv
<1>9. ASSUME NEW q \in Requests, Insert(q) PROVE BatchInv'
  <2>1. /\ at[q] = "committed" /\ at' = [at EXCEPT ![q] = "added"]
        /\ teams' = [u \in Users |-> IF u \in batch[q] THEN NewTeam ELSE teams[u]]
        /\ users' = users /\ batch' = batch /\ stranded' = stranded
    BY <1>9 DEF Insert
  <2>2. \A u \in Users : teams'[u].known <=> teams[u].known \/ u \in batch[q]
    BY <2>1 DEF TypeOK, NewTeam, NoTeam
  <2>3. \A r \in Requests : batch[r] \subseteq Users
    BY DEF TypeOK
  <2>4. AddedTogether'
    <3> SUFFICES ASSUME NEW r \in Requests
                 PROVE  /\ batch[r] \subseteq users \/ batch[r] \intersect users = {}
                        /\ at'[r] = "added" => \A u \in batch[r] : u \in users /\ teams'[u].known
                        /\ at'[r] = "conflict" => batch[r] \intersect users = {}
      BY <2>1 DEF AddedTogether
    <3>1. CASE r = q
      BY <2>1, <2>2, <2>3, <3>1 DEF TypeOK, BatchInv
    <3>2. CASE r # q
      <4>1. at'[r] = at[r]
        BY <2>1, <3>2 DEF TypeOK
      <4>2. \A u \in batch[r] : teams[u].known => teams'[u].known
        BY <2>2, <2>3
      <4> QED
        BY <4>1, <4>2 DEF BatchInv, AddedTogether
    <3> QED
      BY <3>1, <3>2
  <2>5. CreatedTeamsAreKnown'
    BY <2>1, <2>2, SessionsAssumption DEF TypeOK, BatchInv, CreatedTeamsAreKnown
  <2>6. \A r \in Requests : at'[r] = "committed" =>
          r # q /\ at[r] = "committed" /\ \A u \in batch[r] : ~teams'[u].known
    BY <2>1, <2>2, <2>3 DEF TypeOK, BatchInv
  <2> QED
    BY <2>1, <2>4, <2>5, <2>6 DEF BatchInv
<1>10. ASSUME NEW q \in Requests, NEW u \in Users, NEW p \in Patches, ReadAccount(q, u, p)
       PROVE  BatchInv'
  BY <1>10, BatchUntouched DEF TypeOK, ReadAccount
<1>11. ASSUME NEW q \in Requests, UpdateUser(q) PROVE BatchInv'
  BY <1>11, BatchUntouched DEF TypeOK, UpdateUser
<1>12. ASSUME NEW q \in Requests, CutOff(q) PROVE BatchInv'
  <2>1. /\ at[q] \notin {"added", "conflict"} /\ at' = [at EXCEPT ![q] = "over"]
        /\ users' = users /\ batch' = batch /\ teams' = teams
        /\ stranded' = IF at[q] = "committed" THEN stranded \union batch[q] ELSE stranded
    BY <1>12 DEF CutOff, Awaits
  <2>2. AddedTogether'
    BY <2>1 DEF TypeOK, BatchInv, AddedTogether
  <2>3. CreatedTeamsAreKnown'
    BY <2>1 DEF TypeOK, BatchInv, CreatedTeamsAreKnown
  <2> QED
    BY <2>1, <2>2, <2>3 DEF TypeOK, BatchInv
<1>13. ASSUME NEW s \in Tokens, Expire(s) PROVE BatchInv'
  BY <1>13, BatchUntouched DEF TypeOK, Expire
<1>14. CASE Restart
  <2>1. /\ users' = users /\ batch' = batch
        /\ \A r \in Requests :
            at'[r] # "committed" /\ (at'[r] \in {"added", "conflict"} => at'[r] = at[r])
    BY <1>14 DEF Restart, Awaits
  <2>2. \A u \in Users : teams'[u].known <=> u \in users \ Hosts
    BY <1>14 DEF Restart, Competing, NewTeam, NoTeam
  <2>3. AddedTogether'
    BY <2>1, <2>2, SessionsAssumption DEF TypeOK, BatchInv, AddedTogether
  <2>4. CreatedTeamsAreKnown'
    BY <2>1, <2>2 DEF CreatedTeamsAreKnown
  <2> QED
    BY <2>1, <2>3, <2>4 DEF BatchInv
<1> QED
  BY <1>1, <1>2, <1>3, <1>4, <1>5, <1>6, <1>7, <1>8, <1>9, <1>10, <1>11, <1>12,
     <1>13, <1>14 DEF Next, Serve

-----------------------------------------------------------------------------
(* Check-ins *)

(* Who is accounted for stays so while the process runs.                      *)
LEMMA AccountedStays ==
    ASSUME TypeOK, WhoInv, NEW q \in Requests, Serve(q), silent \subseteq silent',
           NEW u \in Users, heard[u] = 1 => heard'[u] = 1, Accounted(u)
    PROVE  Accounted(u)'
<1>1. \A s \in silent : Owner(s)' = Owner(s)
  BY OwnerKept DEF Held
<1> QED
  BY <1>1 DEF Accounted

(* A step that brings no session or token but accounted ones.                 *)
LEMMA SessionsStay ==
    ASSUME TypeOK, WhoInv, HeardInv, NEW q \in Requests, Serve(q),
           silent \subseteq silent', \A u \in Users : heard[u] = 1 => heard'[u] = 1,
           \A s \in sessions' : s \in Earlier \/ at'[s] \in {"checked", "logged_in"} =>
               /\ s \in sessions
               /\ s \in Earlier \/ at[s] \in {"checked", "logged_in"} \/ Accounted(Owner(s))
    PROVE  SessionsAccounted'
<1> SUFFICES ASSUME NEW s \in sessions', s \in Earlier \/ at'[s] \in {"checked", "logged_in"}
             PROVE  Accounted(Owner(s))'
  BY DEF SessionsAccounted
<1>1. s \in sessions /\ Accounted(Owner(s))
  BY DEF HeardInv, SessionsAccounted
<1>0. Owner(s) \in Users
  BY <1>1, SessionsAssumption DEF TypeOK, WhoInv, Standing, Owner, Tokens
<1>2. Owner(s)' = Owner(s)
  BY <1>1, OwnerKept DEF Held
<1>3. \A t \in silent : Owner(t)' = Owner(t)
  BY OwnerKept DEF Held
<1> QED
  BY <1>0, <1>1, <1>2, <1>3 DEF Accounted

LEMMA TokensStay ==
    ASSUME TypeOK, WhoInv, HeardInv, NEW q \in Requests, Serve(q),
           silent \subseteq silent', \A u \in Users : heard[u] = 1 => heard'[u] = 1,
           \A p \in Requests : token'[p] # NoSession =>
               \/ token'[p] = token[p]
               \/ token'[p] \in sessions /\ Accounted(Owner(token'[p]))
    PROVE  TokensAccounted'
<1> SUFFICES ASSUME NEW p \in Requests, token'[p] # NoSession
             PROVE  Accounted(Owner(token[p]))'
  BY DEF TokensAccounted
<1>1. Held(token'[p]) /\ Accounted(Owner(token'[p]))
  BY DEF HeardInv, TokensAccounted, Held
<1>0. Owner(token'[p]) \in Users
  BY OwnerKnown, SessionsAssumption DEF TypeOK, WhoInv, Standing, Owner, Tokens
<1>2. \A t : Held(t) => Owner(t)' = Owner(t)
  BY OwnerKept
<1>3. \A t \in silent : Owner(t)' = Owner(t)
  BY <1>2 DEF Held
<1> DEFINE t == token'[p]
<1>4. Owner(token[p])' = (IF t \in Earlier THEN OwnerOf[t] ELSE who'[t])
  BY DEF Owner
<1>5. (IF t \in Earlier THEN OwnerOf[t] ELSE who'[t]) = Owner(t)
  <2> HIDE DEF t
  <2>1. Held(t)
    BY <1>1 DEF t
  <2> QED
    BY <2>1, <1>2 DEF Owner
<1>6. Accounted(Owner(t)) /\ Owner(token[p])' = Owner(t)
  BY <1>1, <1>4, <1>5
<1>7. Owner(t) \in Users
  BY <1>0
<1> HIDE DEF t
<1> QED
  BY <1>6, <1>7, <1>3 DEF Accounted

(* A step of a request that neither checks in nor disconnects anybody.        *)
LEMMA TeamsStay ==
    ASSUME TypeOK, WhoInv, HeardInv, NEW q \in Requests, Serve(q),
           teams' = teams, heard' = heard, silent' = silent
    PROVE  TeamsAccounted'
<1>1. \A u \in Users : Accounted(u) => Accounted(u)'
  BY AccountedStays
<1> QED
  BY <1>1 DEF HeardInv, TeamsAccounted

LEMMA HeardKept ==
    ASSUME TypeOK, WhoInv, BatchInv, HeardInv, Next
    PROVE  HeardInv'
<1> USE DEF Goto, tables, request, patching
<1>1. ASSUME NEW q \in Requests, Serve(q), teams' = teams, heard' = heard, silent' = silent,
             token' = token, sessions' \subseteq sessions,
             \A s \in sessions : s \in Earlier \/ at'[s] \in {"checked", "logged_in"} =>
                 s \in Earlier \/ at[s] \in {"checked", "logged_in"}
      PROVE  HeardInv'
  BY <1>1, TeamsStay, SessionsStay, TokensStay DEF HeardInv
<1>2. ASSUME NEW q \in Requests, NEW u \in Users, Verify(q, u) PROVE HeardInv'
  <2>1. Serve(q)
    BY <1>2 DEF Serve
  <2> QED
    BY <1>1, <1>2, <2>1 DEF TypeOK, Verify, Tokens
<1>3. ASSUME NEW q \in Requests, CreateSession(q) PROVE HeardInv'
  <2>1. Serve(q)
    BY <1>3 DEF Serve
  <2>2. at' = [at EXCEPT ![q] = "opened"] /\ sessions' = sessions \union {q} /\ q \notin Earlier
    BY <1>3, SessionsAssumption DEF CreateSession
  <2>3. SessionsAccounted'
    BY <1>3, <2>1, <2>2, SessionsStay DEF TypeOK, CreateSession, Tokens
  <2> QED
    BY <1>3, <2>1, <2>3, TeamsStay, TokensStay DEF HeardInv, CreateSession
<1>4. ASSUME NEW q \in Requests, LogIn(q) PROVE HeardInv'
  <2>0. PICK u \in Users : u = who[q]
    BY <1>4 DEF LogIn, TypeOK, WhoInv, Standing
  <2>1. Serve(q) /\ q \notin Earlier /\ q \in sessions
    BY <1>4, SessionsAssumption DEF Serve, LogIn, TypeOK, WhoInv, Standing
  <2>2. /\ teams' = [teams EXCEPT ![u] = CheckedIn(@)]
        /\ heard' = [heard EXCEPT ![u] = IF Effective(teams[u]) THEN @ + 1 ELSE @]
        /\ silent' = IF teams[u].known THEN silent ELSE silent \union {q}
        /\ at' = [at EXCEPT ![q] = "checked"]
        /\ token' = token /\ sessions' = sessions /\ who' = who
    BY <1>4, <2>0 DEF LogIn
  <2>3. heard[u] \in Nat /\ heard'[u] \in Nat
    BY <2>1, <2>2 DEF TypeOK
  <2>4. Effective(teams[u]) => heard[u] = 0 /\ heard'[u] = 1
    BY <2>1, <2>2, <2>3 DEF TypeOK, HeardInv, TeamsAccounted, Effective
  <2>5. \A v \in Users : heard[v] = 1 => heard'[v] = 1
    BY <2>1, <2>2, <2>4, <2>3 DEF TypeOK, HeardInv, TeamsAccounted, Effective
  <2>6. \A v \in Users : Accounted(v) => Accounted(v)'
    BY <2>1, <2>2, <2>5, AccountedStays
  <2>7. Accounted(u)'
    <3>1. CASE ~teams[u].known
      <4>1. q \in silent' /\ Owner(q)' = u
        BY <2>0, <2>1, <2>2, <3>1 DEF Owner
      <4> QED
        BY <4>1 DEF Accounted
    <3>2. CASE teams[u].known
      <4>1. CASE teams[u].checked_in
        BY <2>1, <2>6, <4>1 DEF HeardInv, TeamsAccounted
      <4>2. CASE ~teams[u].checked_in
        BY <2>4, <3>2, <4>2 DEF Effective, Accounted
      <4> QED
        BY <4>1, <4>2
    <3> QED
      BY <3>1, <3>2
  <2>8. TeamsAccounted'
    <3> SUFFICES ASSUME NEW v \in Users
                 PROVE  /\ ~teams'[v].known => teams'[v] = NoTeam /\ heard'[v] = 0
                        /\ heard'[v] <= 1
                        /\ heard'[v] = 1 => teams'[v].checked_in
                        /\ teams'[v].checked_in => Accounted(v)'
      BY DEF TeamsAccounted
    <3>1. CASE v # u
      BY <2>1, <2>2, <2>6, <3>1 DEF TypeOK, HeardInv, TeamsAccounted
    <3>2. CASE v = u /\ ~teams[u].known
      BY <2>1, <2>2, <2>7, <3>2 DEF TypeOK, HeardInv, TeamsAccounted, CheckedIn, Effective
    <3>3. CASE v = u /\ teams[u].known
      <4>1. teams'[u].known /\ teams'[u].checked_in
        BY <2>1, <2>2, <3>3 DEF TypeOK, CheckedIn
      <4>2. heard'[u] <= 1
        BY <2>1, <2>2, <2>3, <2>4 DEF TypeOK, HeardInv, TeamsAccounted
      <4> QED
        BY <2>7, <3>3, <4>1, <4>2
    <3> QED
      BY <3>1, <3>2, <3>3
  <2>9. SessionsAccounted'
    <3> SUFFICES ASSUME NEW s \in sessions, s \in Earlier \/ at'[s] \in {"checked", "logged_in"}
                 PROVE  Accounted(Owner(s))'
      BY <2>2 DEF SessionsAccounted
    <3>1. Owner(s)' = Owner(s) /\ Owner(s) \in Users
      BY <2>2, SessionsAssumption DEF Owner, TypeOK, WhoInv, Standing, Tokens
    <3>2. CASE s = q
      <4>1. Owner(s)' = u
        BY <2>0, <2>1, <2>2, <3>2 DEF Owner
      <4> QED
        BY <4>1, <2>7 DEF Accounted
    <3>3. CASE s # q
      <4>1. Accounted(Owner(s))
        BY <2>2, <3>3 DEF TypeOK, HeardInv, SessionsAccounted, Tokens
      <4> QED
        BY <4>1, <3>1, <2>6 DEF Accounted
    <3> QED
      BY <3>2, <3>3
  <2>10. TokensAccounted'
    BY <2>1, <2>2, <2>5, TokensStay
  <2> QED
    BY <2>8, <2>9, <2>10 DEF HeardInv
<1>5. ASSUME NEW q \in Requests, LoggedIn(q) PROVE HeardInv'
  <2>1. Serve(q)
    BY <1>5 DEF Serve
  <2> QED
    BY <1>1, <1>5, <2>1 DEF TypeOK, LoggedIn, Tokens
<1>6. ASSUME NEW q \in Requests, NEW s \in InHand, NEW k \in Kinds, GetUserFromSession(q, s, k)
      PROVE  HeardInv'
  <2>1. Serve(q) /\ teams' = teams /\ heard' = heard /\ silent' = silent /\ sessions' = sessions
    BY <1>6 DEF Serve, GetUserFromSession
  <2>2. \A t \in Requests : at'[t] \in {"checked", "logged_in"} => at[t] = at'[t]
    <3>1. at' = [at EXCEPT ![q] = "found"] \/ at' = [at EXCEPT ![q] = "over"]
      BY <1>6 DEF GetUserFromSession
    <3> QED
      BY <3>1 DEF TypeOK
  <2>3. SessionsAccounted'
    BY <2>1, <2>2, SessionsStay DEF TypeOK, Tokens
  <2>4. \A p \in Requests : token'[p] # NoSession =>
          token'[p] = token[p] \/ (token'[p] \in sessions /\ Accounted(Owner(token'[p])))
    <3>1. CASE s \notin sessions
      BY <1>6, <3>1 DEF GetUserFromSession
    <3>2. CASE s \in sessions
      <4>1. token' = [token EXCEPT ![q] = s]
        BY <1>6, <3>2 DEF GetUserFromSession
      <4>2. Accounted(Owner(s))
        BY <3>2 DEF HeardInv, SessionsAccounted, InHand
      <4> QED
        BY <3>2, <4>1, <4>2 DEF TypeOK
    <3> QED
      BY <3>1, <3>2
  <2> QED
    BY <2>1, <2>3, <2>4, TeamsStay, TokensStay DEF HeardInv
<1>7. ASSUME NEW q \in Requests, DeleteExpired(q) PROVE HeardInv'
  <2>1. /\ Serve(q) /\ teams' = teams /\ heard' = heard /\ silent' = silent
        /\ sessions' = sessions \ {token[q]} /\ at' = [at EXCEPT ![q] = "over"]
        /\ token' = [token EXCEPT ![q] = NoSession]
    BY <1>7 DEF Serve, DeleteExpired
  <2>2. SessionsAccounted'
    BY <2>1, SessionsStay DEF TypeOK, Tokens
  <2>3. TokensAccounted'
    BY <2>1, TokensStay DEF TypeOK
  <2> QED
    BY <2>1, <2>2, <2>3, TeamsStay DEF HeardInv
<1>8. ASSUME NEW q \in Requests, Extract(q) PROVE HeardInv'
  <2>5. token[q] # NoSession
    BY <1>8 DEF Extract, WhoInv, Standing
  <2>6. PICK u \in Users : u = Owner(token[q]) /\ Accounted(u)
    BY <2>5, OwnerKnown DEF HeardInv, TokensAccounted
  <2>1. /\ Serve(q) /\ teams' = [teams EXCEPT ![u] = CheckedIn(@)] /\ heard' = heard
        /\ silent' = silent /\ sessions' = sessions /\ at' = [at EXCEPT ![q] = Handler(q)]
        /\ token' = token \/ token' = [token EXCEPT ![q] = NoSession]
    BY <1>8, <2>6 DEF Serve, Extract
  <2>2. Handler(q) \in {"closing", "adding", "patching", "over"}
    BY DEF Handler
  <2>3. SessionsAccounted'
    BY <2>1, <2>2, SessionsStay DEF TypeOK, Tokens
  <2>4. TokensAccounted'
    BY <2>1, TokensStay DEF TypeOK
  <2>7. \A v \in Users : Accounted(v) => Accounted(v)'
    BY <2>1, AccountedStays
  <2>8. TeamsAccounted'
    <3> SUFFICES ASSUME NEW v \in Users
                 PROVE  /\ ~teams'[v].known => teams'[v] = NoTeam /\ heard[v] = 0
                        /\ heard[v] <= 1
                        /\ heard[v] = 1 => teams'[v].checked_in
                        /\ teams'[v].checked_in => Accounted(v)'
      BY <2>1 DEF TeamsAccounted
    <3>1. CASE v # u
      BY <2>1, <2>6, <2>7, <3>1 DEF TypeOK, HeardInv, TeamsAccounted
    <3>2. CASE v = u /\ ~teams[u].known
      BY <2>1, <2>6, <2>7, <3>2 DEF TypeOK, HeardInv, TeamsAccounted, CheckedIn
    <3>3. CASE v = u /\ teams[u].known
      BY <2>1, <2>6, <2>7, <3>3 DEF TypeOK, HeardInv, TeamsAccounted, CheckedIn
    <3> QED
      BY <3>1, <3>2, <3>3
  <2> QED
    BY <2>3, <2>4, <2>8 DEF HeardInv
<1>9. ASSUME NEW q \in Requests, CloseSession(q) PROVE HeardInv'
  <2>1. Serve(q)
    BY <1>9 DEF Serve
  <2> QED
    BY <1>1, <1>9, <2>1 DEF TypeOK, CloseSession, Tokens
<1>10. ASSUME NEW q \in Requests, Disconnect(q) PROVE HeardInv'
  <2>0. PICK u : u = Owner(token[q])
    OBVIOUS
  <2>1. /\ Serve(q) /\ teams' = [teams EXCEPT ![u] = Left(@)] /\ heard' = heard
        /\ silent' = silent /\ sessions' = sessions /\ at' = [at EXCEPT ![q] = "over"]
        /\ token' = [token EXCEPT ![q] = NoSession]
    BY <1>10, <2>0 DEF Serve, Disconnect
  <2>2. SessionsAccounted'
    BY <2>1, SessionsStay DEF TypeOK, Tokens
  <2>3. TokensAccounted'
    BY <2>1, TokensStay DEF TypeOK
  <2>4. \A v \in Users : Accounted(v) => Accounted(v)'
    BY <2>1, AccountedStays
  <2>5. TeamsAccounted'
    <3> SUFFICES ASSUME NEW v \in Users
                 PROVE  /\ ~teams'[v].known => teams'[v] = NoTeam /\ heard[v] = 0
                        /\ heard[v] <= 1
                        /\ heard[v] = 1 => teams'[v].checked_in
                        /\ teams'[v].checked_in => Accounted(v)'
      BY <2>1 DEF TeamsAccounted
    <3>1. CASE v # u
      BY <2>1, <2>4, <3>1 DEF TypeOK, HeardInv, TeamsAccounted
    <3>2. CASE v = u /\ ~teams[v].known
      BY <2>1, <2>4, <3>2 DEF TypeOK, HeardInv, TeamsAccounted, Left
    <3>3. CASE v = u /\ teams[v].known
      BY <2>1, <2>4, <3>3 DEF TypeOK, HeardInv, TeamsAccounted, Left
    <3> QED
      BY <3>1, <3>2, <3>3
  <2> QED
    BY <2>2, <2>3, <2>5 DEF HeardInv
<1>11. ASSUME NEW q \in Requests, NEW new \in SUBSET (Users \ Drawn),
              NEW conflicts \in SUBSET new, Commit(q, new, conflicts)
       PROVE  HeardInv'
  <2>1. Serve(q)
    BY <1>11 DEF Serve
  <2>2. at' = [at EXCEPT ![q] = "committed"] \/ at' = [at EXCEPT ![q] = "conflict"]
    BY <1>11 DEF Commit
  <2> QED
    BY <1>1, <1>11, <2>1, <2>2 DEF TypeOK, Commit, Tokens
<1>12. ASSUME NEW q \in Requests, Insert(q) PROVE HeardInv'
  <2>1. /\ Serve(q) /\ at[q] = "committed" /\ at' = [at EXCEPT ![q] = "added"]
        /\ teams' = [u \in Users |-> IF u \in batch[q] THEN NewTeam ELSE teams[u]]
        /\ heard' = heard /\ silent' = silent /\ sessions' = sessions /\ token' = token
    BY <1>12 DEF Serve, Insert
  <2>2. \A u \in batch[q] : u \in Users /\ ~teams[u].known
    BY <2>1 DEF TypeOK, BatchInv
  <2>3. \A v \in Users : Accounted(v) => Accounted(v)'
    BY <2>1, AccountedStays
  <2>4. TeamsAccounted'
    BY <2>1, <2>2, <2>3 DEF TypeOK, HeardInv, TeamsAccounted, NewTeam, NoTeam
  <2>5. SessionsAccounted'
    BY <2>1, SessionsStay DEF TypeOK, Tokens
  <2> QED
    BY <2>1, <2>4, <2>5, TokensStay DEF HeardInv
<1>13. ASSUME NEW q \in Requests, NEW u \in Users, NEW p \in Patches, ReadAccount(q, u, p)
       PROVE  HeardInv'
  <2>1. Serve(q)
    BY <1>13 DEF Serve
  <2> QED
    BY <1>1, <1>13, <2>1 DEF TypeOK, ReadAccount, Tokens
<1>14. ASSUME NEW q \in Requests, UpdateUser(q) PROVE HeardInv'
  <2>1. Serve(q)
    BY <1>14 DEF Serve
  <2> QED
    BY <1>1, <1>14, <2>1 DEF TypeOK, UpdateUser, Tokens
<1>15. ASSUME NEW q \in Requests, CutOff(q) PROVE HeardInv'
  <2>1. /\ Serve(q) /\ teams' = teams /\ heard' = heard /\ silent' = silent
        /\ sessions' = sessions /\ at' = [at EXCEPT ![q] = "over"]
        /\ token' = [token EXCEPT ![q] = NoSession]
    BY <1>15 DEF Serve, CutOff
  <2>2. SessionsAccounted'
    BY <2>1, SessionsStay DEF TypeOK, Tokens
  <2>3. TokensAccounted'
    BY <2>1, TokensStay DEF TypeOK
  <2> QED
    BY <2>1, <2>2, <2>3, TeamsStay DEF HeardInv
<1>16. ASSUME NEW s \in Tokens, Expire(s) PROVE HeardInv'
  BY <1>16 DEF Expire, HeardInv, TeamsAccounted,
         SessionsAccounted, TokensAccounted, Accounted, Owner
<1>17. CASE Restart
  <2>1. /\ \A u \in Users : heard'[u] = 0 /\ ~teams'[u].checked_in
        /\ \A u \in Users : ~teams'[u].known => teams'[u] = NoTeam
        /\ \A q \in Requests : token'[q] = NoSession
        /\ sessions' = sessions /\ silent' = sessions
    BY <1>17 DEF Restart, NewTeam, NoTeam
  <2>2. \A s \in sessions : Accounted(Owner(s))'
    BY <2>1 DEF Accounted
  <2> QED
    BY <2>1, <2>2 DEF HeardInv, TeamsAccounted,
         SessionsAccounted, TokensAccounted
<1> QED
  BY <1>2, <1>3, <1>4, <1>5, <1>6, <1>7, <1>8, <1>9, <1>10, <1>11, <1>12,
     <1>13, <1>14, <1>15, <1>16, <1>17 DEF Next, Serve

-----------------------------------------------------------------------------
(* Logouts *)

(* A team is away after a request's step only if it was away before, unless   *)
(* the step takes its session or ends its logout.                             *)
LEMMA AwayBefore ==
    ASSUME TypeOK, WhoInv, NEW q \in Requests, Serve(q), NEW u \in Users, Away(u)',
           \A s \in sessions : s \in sessions' \/ Owner(s) # u,
           \A p \in Requests : at[p] = "closed" =>
               (at'[p] = "closed" /\ token'[p] = token[p]) \/ Owner(token[p]) # u
    PROVE  Away(u)
<1>1. \A s : Held(s) => Owner(s)' = Owner(s)
  BY OwnerKept
<1>2. ASSUME NEW s \in sessions PROVE Owner(s) # u
  BY <1>1, <1>2 DEF Away, Held
<1>3. ASSUME NEW p \in Requests, at[p] = "closed" PROVE Owner(token[p]) # u
  <2>1. Held(token[p])
    BY <1>3 DEF Held, WhoInv, Standing
  <2>2. Owner(token[p])' = Owner(token[p]) \/ token'[p] # token[p]
    BY <2>1, <1>1 DEF Owner
  <2> QED
    BY <1>3, <2>2 DEF Away
<1> QED
  BY <1>2, <1>3 DEF Away

(* A step that leaves a team as it was, or excuses it.                        *)
LEMMA LogoutUntouched ==
    ASSUME TypeOK, WhoInv, LogoutInv, NEW q \in Requests, Serve(q), NEW u \in Users,
           teams'[u] = teams[u], u \in excused => u \in excused',
           \A s \in sessions : s \in sessions' \/ Owner(s) # u,
           \A p \in Requests : at[p] = "closed" =>
               (at'[p] = "closed" /\ token'[p] = token[p]) \/ Owner(token[p]) # u
    PROVE  teams'[u].checked_in /\ Away(u)' => teams'[u].disconnected \/ u \in excused'
BY AwayBefore DEF LogoutInv

LEMMA LogoutKept ==
    ASSUME TypeOK, WhoInv, HeardInv, LogoutInv, Next
    PROVE  LogoutInv'
<1> USE DEF Goto, tables, request, patching
<1>1. ASSUME NEW q \in Requests, Serve(q), teams' = teams, excused' = excused,
             sessions \subseteq sessions', token' = token,
             \A p \in Requests : at[p] = "closed" => at'[p] = "closed"
      PROVE  LogoutInv'
  BY <1>1, LogoutUntouched DEF LogoutInv
<1>2. ASSUME NEW q \in Requests, NEW u \in Users, Verify(q, u) PROVE LogoutInv'
  BY <1>1, <1>2 DEF TypeOK, Serve, Verify
<1>3. ASSUME NEW q \in Requests, CreateSession(q) PROVE LogoutInv'
  BY <1>1, <1>3 DEF TypeOK, Serve, CreateSession
<1>4. ASSUME NEW q \in Requests, LogIn(q) PROVE LogoutInv'
  <2>1. /\ Serve(q) /\ sessions' = sessions /\ excused' = excused /\ token' = token
        /\ at' = [at EXCEPT ![q] = "checked"] /\ at[q] = "opened" /\ who' = who
        /\ teams' = [teams EXCEPT ![who[q]] = CheckedIn(@)]
    BY <1>4 DEF Serve, LogIn
  <2>2. q \in sessions /\ Owner(q)' = who[q]
    BY <2>1, SessionsAssumption DEF WhoInv, Standing, Owner
  <2>3. ASSUME NEW v \in Users, Away(v)' PROVE teams'[v] = teams[v]
    BY <2>1, <2>2, <2>3 DEF TypeOK, Away
  <2>4. \A p \in Requests : at[p] = "closed" => at'[p] = "closed"
    BY <2>1 DEF TypeOK
  <2> QED
    BY <2>1, <2>3, <2>4, LogoutUntouched DEF LogoutInv
<1>5. ASSUME NEW q \in Requests, LoggedIn(q) PROVE LogoutInv'
  BY <1>1, <1>5 DEF TypeOK, Serve, LoggedIn
<1>6. ASSUME NEW q \in Requests, NEW s \in InHand, NEW k \in Kinds, GetUserFromSession(q, s, k)
      PROVE  LogoutInv'
  <2>1. /\ Serve(q) /\ teams' = teams /\ excused' = excused /\ sessions' = sessions
        /\ at[q] = "idle"
        /\ at' = [at EXCEPT ![q] = "found"] \/ at' = [at EXCEPT ![q] = "over"]
        /\ token' = token \/ token' = [token EXCEPT ![q] = s]
    BY <1>6 DEF Serve, GetUserFromSession
  <2>2. \A p \in Requests : at[p] = "closed" => at'[p] = "closed" /\ token'[p] = token[p]
    BY <2>1 DEF TypeOK
  <2> QED
    BY <2>1, <2>2, LogoutUntouched DEF LogoutInv
<1>7. ASSUME NEW q \in Requests, DeleteExpired(q) PROVE LogoutInv'
  <2>1. /\ Serve(q) /\ teams' = teams /\ excused' = excused \union {Owner(token[q])}
        /\ sessions' = sessions \ {token[q]} /\ at[q] = "found"
        /\ at' = [at EXCEPT ![q] = "over"] /\ token' = [token EXCEPT ![q] = NoSession]
    BY <1>7 DEF Serve, DeleteExpired
  <2>2. ASSUME NEW v \in Users, v # Owner(token[q])
        PROVE  teams'[v].checked_in /\ Away(v)' => teams'[v].disconnected \/ v \in excused'
    BY <2>1, <2>2, LogoutUntouched DEF TypeOK
  <2> QED
    BY <2>1, <2>2 DEF LogoutInv
<1>8. ASSUME NEW q \in Requests, Extract(q) PROVE LogoutInv'
  <2>1. PICK u : u = Owner(token[q])
    OBVIOUS
  <2>2. /\ Serve(q) /\ teams' = [teams EXCEPT ![u] = CheckedIn(@)] /\ sessions' = sessions
        /\ excused' = IF token[q] \in sessions THEN excused ELSE excused \union {u}
        /\ at[q] = "found" /\ at' = [at EXCEPT ![q] = Handler(q)]
        /\ token' = token \/ token' = [token EXCEPT ![q] = NoSession]
    BY <1>8, <2>1 DEF Serve, Extract
  <2>3. ASSUME NEW v \in Users, v # u
        PROVE  teams'[v].checked_in /\ Away(v)' => teams'[v].disconnected \/ v \in excused'
    BY <2>2, <2>3, LogoutUntouched DEF TypeOK
  <2>4. token[q] \in sessions => ~(Away(u)')
    <3> SUFFICES ASSUME token[q] \in sessions PROVE ~(Away(u)')
      OBVIOUS
    <3>1. PICK s \in sessions : s = token[q]
      OBVIOUS
    <3>2. Owner(s)' = u
      BY <2>1, <2>2, <3>1, OwnerKept DEF Held
    <3> QED
      BY <2>2, <3>2 DEF Away
  <2> QED
    BY <2>2, <2>3, <2>4 DEF LogoutInv
<1>9. ASSUME NEW q \in Requests, CloseSession(q) PROVE LogoutInv'
  <2>1. /\ Serve(q) /\ teams' = teams /\ excused' = excused /\ token' = token
        /\ sessions' = sessions \ {token[q]} /\ at[q] = "closing"
        /\ at' = [at EXCEPT ![q] = "closed"]
    BY <1>9 DEF Serve, CloseSession
  <2>2. ASSUME NEW v \in Users, v # Owner(token[q])
        PROVE  teams'[v].checked_in /\ Away(v)' => teams'[v].disconnected \/ v \in excused'
    BY <2>1, <2>2, LogoutUntouched DEF TypeOK
  <2>3. ASSUME NEW v \in Users, v = Owner(token[q]) PROVE ~(Away(v)')
    <3>1. Owner(token[q])' = Owner(token[q]) /\ at'[q] = "closed"
      BY <2>1, <1>9 DEF TypeOK, CloseSession, Owner
    <3> QED
      BY <2>3, <3>1 DEF Away
  <2> QED
    BY <2>2, <2>3 DEF LogoutInv
<1>10. ASSUME NEW q \in Requests, Disconnect(q) PROVE LogoutInv'
  <2>1. PICK u : u = Owner(token[q])
    OBVIOUS
  <2>2. /\ Serve(q) /\ teams' = [teams EXCEPT ![u] = Left(@)] /\ sessions' = sessions
        /\ excused' = excused \ {u} /\ at[q] = "closed" /\ at' = [at EXCEPT ![q] = "over"]
        /\ token' = [token EXCEPT ![q] = NoSession]
    BY <1>10, <2>1 DEF Serve, Disconnect
  <2>3. ASSUME NEW v \in Users, v # u
        PROVE  teams'[v].checked_in /\ Away(v)' => teams'[v].disconnected \/ v \in excused'
    BY <2>1, <2>2, <2>3, LogoutUntouched DEF TypeOK
  <2>4. ASSUME u \in Users PROVE teams'[u].checked_in => teams'[u].disconnected
    BY <2>2, <2>4 DEF TypeOK, HeardInv, TeamsAccounted, Left, NoTeam
  <2> QED
    BY <2>3, <2>4 DEF LogoutInv
<1>11. ASSUME NEW q \in Requests, NEW new \in SUBSET (Users \ Drawn),
              NEW conflicts \in SUBSET new, Commit(q, new, conflicts)
       PROVE  LogoutInv'
  <2>1. at' = [at EXCEPT ![q] = "committed"] \/ at' = [at EXCEPT ![q] = "conflict"]
    BY <1>11 DEF Commit
  <2>2. Serve(q) /\ at[q] = "adding"
    BY <1>11 DEF Serve, Commit
  <2> QED
    BY <1>1, <1>11, <2>1, <2>2 DEF TypeOK, Commit
<1>12. ASSUME NEW q \in Requests, Insert(q) PROVE LogoutInv'
  <2>1. /\ Serve(q) /\ at[q] = "committed" /\ at' = [at EXCEPT ![q] = "added"]
        /\ teams' = [u \in Users |-> IF u \in batch[q] THEN NewTeam ELSE teams[u]]
        /\ sessions' = sessions /\ excused' = excused /\ token' = token
    BY <1>12 DEF Serve, Insert
  <2>2. \A v \in Users : teams'[v].checked_in => teams'[v] = teams[v]
    BY <2>1 DEF NewTeam, NoTeam
  <2>3. \A p \in Requests : at[p] = "closed" => at'[p] = "closed"
    BY <2>1 DEF TypeOK
  <2> QED
    BY <2>1, <2>2, <2>3, LogoutUntouched DEF LogoutInv
<1>13. ASSUME NEW q \in Requests, NEW u \in Users, NEW p \in Patches, ReadAccount(q, u, p)
       PROVE  LogoutInv'
  BY <1>1, <1>13 DEF TypeOK, Serve, ReadAccount
<1>14. ASSUME NEW q \in Requests, UpdateUser(q) PROVE LogoutInv'
  BY <1>1, <1>14 DEF TypeOK, Serve, UpdateUser
<1>15. ASSUME NEW q \in Requests, CutOff(q) PROVE LogoutInv'
  <2>1. /\ Serve(q) /\ teams' = teams /\ sessions' = sessions
        /\ excused' = IF at[q] = "closed" THEN excused \union {Owner(token[q])} ELSE excused
        /\ at' = [at EXCEPT ![q] = "over"] /\ token' = [token EXCEPT ![q] = NoSession]
    BY <1>15 DEF Serve, CutOff
  <2>2. ASSUME NEW v \in Users, at[q] # "closed" \/ v # Owner(token[q])
        PROVE  teams'[v].checked_in /\ Away(v)' => teams'[v].disconnected \/ v \in excused'
    BY <2>1, <2>2, LogoutUntouched DEF TypeOK
  <2> QED
    BY <2>1, <2>2 DEF LogoutInv
<1>16. ASSUME NEW s \in Tokens, Expire(s) PROVE LogoutInv'
  BY <1>16 DEF Expire, LogoutInv, Away, Owner
<1>17. CASE Restart
  BY <1>17 DEF Restart, LogoutInv, NewTeam, NoTeam
<1> QED
  BY <1>2, <1>3, <1>4, <1>5, <1>6, <1>7, <1>8, <1>9, <1>10, <1>11, <1>12,
     <1>13, <1>14, <1>15, <1>16, <1>17 DEF Next, Serve

-----------------------------------------------------------------------------
(* Patches *)

(* A step that writes no account: what has been read of one is still so.      *)
LEMMA PatchUntouched ==
    ASSUME PatchInv, account' = account, meant' = meant, torn' = torn,
           \A p \in Requests : at'[p] = "merged" =>
               /\ at[p] = "merged"
               /\ patch'[p] = patch[p] /\ draft'[p] = draft[p] /\ who'[p] = who[p]
    PROVE  PatchInv'
BY DEF PatchInv, PatchesKept, Over

LEMMA PatchKept ==
    ASSUME TypeOK, WhoInv, PatchInv, Next
    PROVE  PatchInv'
<1> USE DEF Goto, tables, request, patching
<1>1. ASSUME NEW q \in Requests, NEW u \in Users, Verify(q, u) PROVE PatchInv'
  <2>1. /\ at' = [at EXCEPT ![q] = "verified"] \/ at' = [at EXCEPT ![q] = "over"]
        /\ who' = [who EXCEPT ![q] = u] \/ who' = who
        /\ at[q] = "idle"
    BY <1>1 DEF Verify
  <2> QED
    BY <1>1, <2>1, PatchUntouched DEF TypeOK, Verify
<1>2. ASSUME NEW q \in Requests,
             CreateSession(q) \/ LogIn(q) \/ LoggedIn(q)
               \/ CloseSession(q) \/ Disconnect(q) \/ Insert(q)
      PROVE  PatchInv'
  BY <1>2, PatchUntouched
     DEF TypeOK, CreateSession, LogIn, LoggedIn, CloseSession, Disconnect, Insert
<1>3. ASSUME NEW q \in Requests, NEW s \in InHand, NEW k \in Kinds, GetUserFromSession(q, s, k)
      PROVE  PatchInv'
  <2>1. at' = [at EXCEPT ![q] = "found"] \/ at' = [at EXCEPT ![q] = "over"]
    BY <1>3 DEF GetUserFromSession
  <2> QED
    BY <1>3, <2>1, PatchUntouched DEF TypeOK, GetUserFromSession
<1>4. ASSUME NEW q \in Requests, DeleteExpired(q) PROVE PatchInv'
  BY <1>4, PatchUntouched DEF TypeOK, DeleteExpired
<1>5. ASSUME NEW q \in Requests, Extract(q) PROVE PatchInv'
  <2>1. Handler(q) \in {"closing", "adding", "patching", "over"}
    BY DEF Handler
  <2> QED
    BY <1>5, <2>1, PatchUntouched DEF TypeOK, Extract
<1>6. ASSUME NEW q \in Requests, NEW new \in SUBSET (Users \ Drawn),
             NEW conflicts \in SUBSET new, Commit(q, new, conflicts)
      PROVE  PatchInv'
  <2>1. at' = [at EXCEPT ![q] = "committed"] \/ at' = [at EXCEPT ![q] = "conflict"]
    BY <1>6 DEF Commit
  <2> QED
    BY <1>6, <2>1, PatchUntouched DEF TypeOK, Commit
<1>7. ASSUME NEW q \in Requests, NEW u \in Users, NEW p \in Patches, ReadAccount(q, u, p)
      PROVE  PatchInv'
  <2>1. /\ at' = [at EXCEPT ![q] = "merged"] /\ who' = [who EXCEPT ![q] = u]
        /\ patch' = [patch EXCEPT ![q] = p]
        /\ draft' = [draft EXCEPT ![q] = Over(p, account[u])]
        /\ account' = account /\ meant' = meant /\ torn' = torn
    BY <1>7 DEF ReadAccount, Merged
  <2>2. draft'[q] = Over(patch'[q], account'[who'[q]])
    BY <2>1 DEF TypeOK
  <2>3. ASSUME NEW r \in Requests, at'[r] = "merged"
        PROVE  draft'[r] = Over(patch'[r], account'[who'[r]]) \/ who'[r] \in torn'
    <3>1. CASE r = q
      BY <2>2, <3>1
    <3>2. CASE r # q
      <4>1. /\ at[r] = "merged" /\ who'[r] = who[r]
            /\ patch'[r] = patch[r] /\ draft'[r] = draft[r]
        BY <2>1, <2>3, <3>2 DEF TypeOK
      <4> QED
        BY <2>1, <4>1 DEF PatchInv
    <3> QED
      BY <3>1, <3>2
  <2>4. PatchesKept'
    BY <2>1 DEF PatchInv, PatchesKept
  <2> QED
    BY <2>3, <2>4 DEF PatchInv, Over
<1>8. ASSUME NEW q \in Requests, UpdateUser(q) PROVE PatchInv'
  <2>1. PICK u \in Users : u = who[q]
    BY <1>8 DEF UpdateUser, TypeOK, WhoInv, Standing
  <2>2. /\ at[q] = "merged" /\ at' = [at EXCEPT ![q] = "over"]
        /\ account' = [account EXCEPT ![u] = draft[q]]
        /\ meant' = [meant EXCEPT ![u] = Over(patch[q], @)]
        /\ torn' = IF \E p \in Requests \ {q} : at[p] = "merged" /\ who[p] = u
                   THEN torn \union {u} ELSE torn
        /\ who' = [who EXCEPT ![q] = Nobody]
        /\ patch' = [patch EXCEPT ![q] = <<>>] /\ draft' = [draft EXCEPT ![q] = <<>>]
    BY <1>8, <2>1 DEF UpdateUser
  <2>3. account'[u] = meant'[u] \/ u \in torn'
    BY <2>1, <2>2 DEF TypeOK, PatchInv, PatchesKept
  <2>4. PatchesKept'
    BY <2>2, <2>3 DEF TypeOK, PatchInv, PatchesKept
  <2>5. ASSUME NEW r \in Requests, at'[r] = "merged"
        PROVE  draft'[r] = Over(patch'[r], account'[who'[r]]) \/ who'[r] \in torn'
    <3>1. /\ r # q /\ at[r] = "merged" /\ who'[r] = who[r]
          /\ patch'[r] = patch[r] /\ draft'[r] = draft[r]
      BY <2>2, <2>5 DEF TypeOK
    <3>2. CASE who[r] = u
      BY <2>2, <3>1, <3>2
    <3>3. CASE who[r] # u
      <4>1. account'[who[r]] = account[who[r]] /\ torn \subseteq torn'
        BY <2>2, <3>1, <3>3 DEF TypeOK, WhoInv, Standing
      <4> QED
        BY <3>1, <4>1 DEF PatchInv
    <3> QED
      BY <3>2, <3>3
  <2> QED
    BY <2>4, <2>5 DEF PatchInv, Over
<1>9. ASSUME NEW q \in Requests, CutOff(q) PROVE PatchInv'
  <2>1. /\ at' = [at EXCEPT ![q] = "over"] /\ account' = account /\ meant' = meant /\ torn' = torn
        /\ who' = who \/ who' = [who EXCEPT ![q] = Nobody]
        /\ patch' = [patch EXCEPT ![q] = <<>>] /\ draft' = [draft EXCEPT ![q] = <<>>]
    BY <1>9 DEF CutOff
  <2> QED
    BY <2>1, PatchUntouched DEF TypeOK
<1>10. ASSUME NEW s \in Tokens, Expire(s) PROVE PatchInv'
  BY <1>10, PatchUntouched DEF Expire
<1>11. CASE Restart
  <2>1. /\ account' = account /\ meant' = meant /\ torn' = torn
        /\ \A r \in Requests : at'[r] # "merged"
    BY <1>11 DEF Restart, Awaits
  <2> QED
    BY <2>1, PatchUntouched
<1> QED
  BY <1>1, <1>2, <1>3, <1>4, <1>5, <1>6, <1>7, <1>8, <1>9, <1>10, <1>11 DEF Next, Serve

-----------------------------------------------------------------------------
(* Theorems *)

LEMMA InitInv == Init => IInv
<1> SUFFICES ASSUME Init PROVE IInv
  OBVIOUS
<1>1. TypeOK /\ WhoInv
  BY InitTyped
<1>2. BatchInv
  BY DEF Init, BatchInv, AddedTogether, CreatedTeamsAreKnown, Competing, NewTeam, NoTeam
<1>3. HeardInv
  BY DEF Init, HeardInv, TeamsAccounted, SessionsAccounted, TokensAccounted, Accounted,
         NewTeam, NoTeam
<1>4. LogoutInv
  BY DEF Init, LogoutInv, NewTeam, NoTeam
<1>5. PatchInv
  BY DEF Init, PatchInv, PatchesKept
<1> QED
  BY <1>1, <1>2, <1>3, <1>4, <1>5 DEF IInv

(* Invariant: logins, sessions, teams and patches keep IInv, whatever the     *)
(* order of the parts of the handlers, with requests cut off and restarts.    *)
THEOREM Invariant == Spec => []IInv
<1>1. ASSUME IInv, [Next]_vars PROVE IInv'
  <2>1. CASE Next
    BY <1>1, <2>1, TypesKept, BatchKept, HeardKept, LogoutKept, PatchKept DEF IInv
  <2>2. CASE UNCHANGED vars
    BY <1>1, <2>2, Stuttering
  <2> QED
    BY <1>1, <2>1, <2>2
<1> QED
  BY InitInv, <1>1, PTL DEF Spec

(* CheckInHeard: hooks hear of a team's check-in at most once, and of every   *)
(* one but the silent ones (login in services/auth.rs, extract).              *)
THEOREM CheckInsAreHeard == Spec => []CheckInHeard
<1>1. IInv => CheckInHeard
  BY DEF IInv, TypeOK, HeardInv, TeamsAccounted, Accounted, CheckInHeard
<1> QED
  BY Invariant, <1>1, PTL

(* CreatedTeamsAreKnown: TeamManagement and the table know the same           *)
(* competitors, but for those of an add_team under way or cut off.            *)
THEOREM TeamsAreKnown == Spec => []CreatedTeamsAreKnown
<1>1. IInv => CreatedTeamsAreKnown
  BY DEF IInv, BatchInv
<1> QED
  BY Invariant, <1>1, PTL

(* AddedTogether: the teams of one POST are created together or not at all    *)
(* (add_team in services/teams.rs).                                           *)
THEOREM TeamsAreAddedTogether == Spec => []AddedTogether
<1>1. IInv => AddedTogether
  BY DEF IInv, BatchInv
<1> QED
  BY Invariant, <1>1, PTL

(* LogoutHolds: a team with no session and no request under way is shown as   *)
(* disconnected, but for the excuses the property names (logout).             *)
THEOREM LogoutsHold == Spec => []LogoutHolds
<1>1. IInv => LogoutHolds
  <2> SUFFICES ASSUME IInv PROVE LogoutHolds
    OBVIOUS
  <2>1. \A q \in Requests : at[q] = "closed" => token[q] # NoSession
    BY DEF IInv, WhoInv, Standing
  <2> QED
    BY <2>1 DEF IInv, LogoutInv, LogoutHolds, Away, Busy
<1> QED
  BY Invariant, <1>1, PTL

(* PatchesKept: no patch is lost unless two were under way for one account    *)
(* (patch_team in services/teams.rs, update_user).                            *)
THEOREM PatchesAreKept == Spec => []PatchesKept
<1>1. IInv => PatchesKept
  BY DEF IInv, PatchInv
<1> QED
  BY Invariant, <1>1, PTL
=============================================================================
