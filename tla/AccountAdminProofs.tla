------------------------- MODULE AccountAdminProofs -------------------------
(***************************************************************************)
(* Proofs about AccountAdmin, for any number of requests, browsers, names, *)
(* ids, characters and levels.                                             *)
(***************************************************************************)
EXTENDS AccountAdmin, TLAPS

-----------------------------------------------------------------------------
(* Types *)

KnowsId == {"insert_realm", "count", "delete_realm", "delete_account", "read", "update"}

\* What a request has found out by the step it has reached.
RequestsKnow ==
    \A r \in Requests :
        /\ request[r].at = "insert_account" => request[r].name \in Names
        /\ request[r].at \in KnowsId => request[r].id \in Ids
        /\ request[r].at \in {"read", "update"} => request[r].guid \in Guids

TypeIInv == TypeOK /\ RequestsKnow

LEMMA InitTypeIInv == Init => TypeIInv
  BY DEF Init, TypeIInv, TypeOK, RequestsKnow, KnowsId, Request, Steps, Ids

\* Replacing the record of one request by another that knows what it has to.
LEMMA RequestMoves ==
    ASSUME TypeIInv, NEW r \in Requests, NEW after \in Request,
           request' = [request EXCEPT ![r] = after],
           after.at = "insert_account" => after.name \in Names,
           after.at \in KnowsId => after.id \in Ids,
           after.at \in {"read", "update"} => after.guid \in Guids
    PROVE  request' \in [Requests -> Request] /\ RequestsKnow'
  BY DEF TypeIInv, TypeOK, RequestsKnow

\* A request that goes on with what it knows.
LEMMA RequestGoes ==
    ASSUME TypeIInv, NEW r \in Requests, NEW step \in Steps, Goes(r, step),
           step # "insert_account", step \in KnowsId => request[r].id \in Ids,
           step \in {"read", "update"} => request[r].guid \in Guids
    PROVE  request' \in [Requests -> Request] /\ RequestsKnow'
  BY DEF TypeIInv, TypeOK, RequestsKnow, Goes, Request

LEMMA CreateTypeIInv ==
    ASSUME TypeIInv, NEW r \in Requests,
           CreateAccount(r) \/ InsertAccount(r) \/ InsertRealmRow(r)
    PROVE  TypeIInv'
<1>1. CASE CreateAccount(r)
  <2> PICK name \in Names, step \in {"insert_account", "failed"} :
        request' = [request EXCEPT ![r].name = name, ![r].at = step]
    BY <1>1 DEF CreateAccount
  <2> DEFINE after == [request[r] EXCEPT !.name = name, !.at = step]
  <2>1. request' = [request EXCEPT ![r] = after]
    BY DEF TypeIInv, TypeOK
  <2>2. after \in Request /\ after.name = name /\ after.at = step
    BY DEF TypeIInv, TypeOK, Request, Steps
  <2> HIDE DEF after
  <2>3. request' \in [Requests -> Request] /\ RequestsKnow'
    BY <2>1, <2>2, RequestMoves DEF KnowsId
  <2> QED
    BY <1>1, <2>3 DEF CreateAccount, TypeIInv, TypeOK, settings, accountVars
<1>2. CASE InsertAccount(r)
  <2>1. CASE uniqueKey /\ AccountsOf(request[r].name) # {}
    BY <1>2, <2>1, RequestGoes
    DEF InsertAccount, TypeIInv, TypeOK, KnowsId, Steps, settings
  <2>2. CASE ~(uniqueKey /\ AccountsOf(request[r].name) # {})
    <3>1. /\ lastId + 1 \in Ids /\ lastId' = lastId + 1
          /\ account' = [account EXCEPT ![lastId + 1] = request[r].name]
          /\ request[r].name \in Names
          /\ request' = [request EXCEPT ![r].id = lastId + 1, ![r].at = "insert_realm"]
      BY <1>2, <2>2, IdAssumption DEF InsertAccount, TypeIInv, TypeOK, RequestsKnow, Ids
    <3>2. request' \in [Requests -> Request] /\ RequestsKnow'
      <4> DEFINE after == [request[r] EXCEPT !.id = lastId + 1, !.at = "insert_realm"]
      <4>1. request' = [request EXCEPT ![r] = after]
        BY <3>1 DEF TypeIInv, TypeOK
      <4>2. after \in Request /\ after.id = lastId + 1 /\ after.at = "insert_realm"
        BY <3>1 DEF TypeIInv, TypeOK, Request, Steps
      <4> HIDE DEF after
      <4> QED
        BY <3>1, <4>1, <4>2, RequestMoves
    <3>3. /\ account' \in [Ids -> Names \cup {None}]
          /\ lastId' \in 0..MaxId
      BY <3>1 DEF TypeIInv, TypeOK, Ids
    <3> QED
      BY <1>2, <3>2, <3>3 DEF InsertAccount, TypeIInv, TypeOK, settings
  <2> QED
    BY <2>1, <2>2
<1>3. CASE InsertRealmRow(r)
  BY <1>3, RequestGoes DEF InsertRealmRow, TypeIInv, TypeOK, RequestsKnow, KnowsId, Steps, settings
<1> QED
  BY <1>1, <1>2, <1>3

LEMMA DeleteTypeIInv ==
    ASSUME TypeIInv, NEW r \in Requests,
           \/ DeleteAccount(r) \/ CountCharacters(r)
           \/ DeleteRealmRow(r) \/ DeleteAccountRow(r)
    PROVE  TypeIInv'
<1>1. CASE DeleteAccount(r)
  <2>1. CASE Goes(r, "failed")
    BY <1>1, <2>1, RequestGoes DEF DeleteAccount, TypeIInv, TypeOK, KnowsId, Steps, settings,
                                   accountVars
  <2>2. CASE ~Goes(r, "failed")
    <3> PICK name \in Names, id \in Ids :
          request' = [request EXCEPT ![r].name = name, ![r].id = id, ![r].at = "count"]
      BY <1>1, <2>2 DEF DeleteAccount, AccountsOf
    <3> DEFINE after == [request[r] EXCEPT !.name = name, !.id = id, !.at = "count"]
    <3>1. request' = [request EXCEPT ![r] = after]
      BY DEF TypeIInv, TypeOK
    <3>2. after \in Request /\ after.id \in Ids /\ after.at = "count"
      BY DEF TypeIInv, TypeOK, Request, Steps
    <3> HIDE DEF after
    <3>3. request' \in [Requests -> Request] /\ RequestsKnow'
      BY <3>1, <3>2, RequestMoves
    <3> QED
      BY <1>1, <3>3 DEF DeleteAccount, TypeIInv, TypeOK, settings, accountVars
  <2> QED
    BY <2>1, <2>2
<1>2. CASE CountCharacters(r)
  BY <1>2, RequestGoes
  DEF CountCharacters, TypeIInv, TypeOK, RequestsKnow, KnowsId, Steps, settings, accountVars
<1>3. CASE DeleteRealmRow(r)
  BY <1>3, RequestGoes DEF DeleteRealmRow, TypeIInv, TypeOK, RequestsKnow, KnowsId, Steps, settings
<1>4. CASE DeleteAccountRow(r)
  BY <1>4, RequestGoes DEF DeleteAccountRow, TypeIInv, TypeOK, KnowsId, Steps, settings
<1> QED
  BY <1>1, <1>2, <1>3, <1>4

LEMMA PushTypeIInv ==
    ASSUME TypeIInv, NEW r \in Requests,
           PushLevel55(r) \/ ReadCharacter(r) \/ UpdateLevel(r) \/ RequestFails(r)
    PROVE  TypeIInv'
<1>1. CASE PushLevel55(r)
  <2>1. CASE Goes(r, "failed")
    BY <1>1, <2>1, RequestGoes DEF PushLevel55, TypeIInv, TypeOK, KnowsId, Steps, settings,
                                   accountVars
  <2>2. CASE ~Goes(r, "failed")
    <3> PICK name \in Names, g \in Guids, id \in Ids :
          request' = [request EXCEPT ![r].name = name, ![r].id = id, ![r].guid = g,
                                     ![r].at = "read"]
      BY <1>1, <2>2 DEF PushLevel55, AccountsOf
    <3> DEFINE after == [request[r] EXCEPT !.name = name, !.id = id, !.guid = g, !.at = "read"]
    <3>1. request' = [request EXCEPT ![r] = after]
      BY DEF TypeIInv, TypeOK
    <3>2. after \in Request /\ after.id \in Ids /\ after.guid \in Guids /\ after.at = "read"
      BY DEF TypeIInv, TypeOK, Request, Steps
    <3> HIDE DEF after
    <3>3. request' \in [Requests -> Request] /\ RequestsKnow'
      BY <3>1, <3>2, RequestMoves
    <3> QED
      BY <1>1, <3>3 DEF PushLevel55, TypeIInv, TypeOK, settings, accountVars
  <2> QED
    BY <2>1, <2>2
<1>2. CASE ReadCharacter(r)
  BY <1>2, RequestGoes
  DEF ReadCharacter, TypeIInv, TypeOK, RequestsKnow, KnowsId, Steps, settings, accountVars
<1>3. CASE UpdateLevel(r)
  <2>1. request' \in [Requests -> Request] /\ RequestsKnow'
    BY <1>3, RequestGoes DEF UpdateLevel, KnowsId, Steps
  <2>2. character' \in [Guids -> Character \cup {None}]
    BY <1>3, LevelAssumption
    DEF UpdateLevel, Updates, CharactersOf, TypeIInv, TypeOK, Character, Levels
  <2> QED
    BY <1>3, <2>1, <2>2 DEF UpdateLevel, TypeIInv, TypeOK, settings, accountVars
<1>4. CASE RequestFails(r)
  BY <1>4, RequestGoes DEF RequestFails, TypeIInv, TypeOK, KnowsId, Steps, settings, accountVars
<1> QED
  BY <1>1, <1>2, <1>3, <1>4

LEMMA ServerTypeIInv ==
    ASSUME TypeIInv, WorldServer
    PROVE  TypeIInv'
<1>1. /\ UNCHANGED <<settings, request, accountVars>>
      /\ running' \in BOOLEAN
  BY DEF WorldServer, CharacterAppears, CharacterDeleted, Login, LevelUp, SavePlayer, Logout,
         ServerCrashes, ServerStarts, TypeIInv, TypeOK
<1>2. character' \in [Guids -> Character \cup {None}]
  <2>1. ASSUME NEW g \in Guids, CharacterAppears(g)
        PROVE  character' \in [Guids -> Character \cup {None}]
    BY <2>1, IdAssumption DEF CharacterAppears, TypeIInv, TypeOK, Character, Ids
  <2>2. ASSUME NEW g \in Guids,
               CharacterDeleted(g) \/ Login(g) \/ SavePlayer(g) \/ Logout(g)
        PROVE  character' \in [Guids -> Character \cup {None}]
    <3>1. CASE CharacterDeleted(g)
      BY <3>1 DEF CharacterDeleted, TypeIInv, TypeOK
    <3>2. CASE Login(g) \/ SavePlayer(g) \/ Logout(g)
      <4>1. character[g] \in Character
        BY <3>2 DEF Login, SavePlayer, Logout, InMemory, TypeIInv, TypeOK
      <4>2. PICK after \in Character : character' = [character EXCEPT ![g] = after]
        <5>1. CASE Login(g)
          <6>1. [character[g] EXCEPT !.online = TRUE, !.played = character[g].level] \in Character
            BY <4>1 DEF Character
          <6> QED
            BY <5>1, <6>1 DEF Login, TypeIInv, TypeOK
        <5>2. CASE SavePlayer(g)
          <6>1. [character[g] EXCEPT !.level = character[g].played] \in Character
            BY <4>1 DEF Character
          <6> QED
            BY <5>2, <6>1 DEF SavePlayer, TypeIInv, TypeOK
        <5>3. CASE Logout(g)
          <6>1. [character[g] EXCEPT !.level = character[g].played, !.online = FALSE] \in Character
            BY <4>1 DEF Character
          <6> QED
            BY <5>3, <6>1 DEF Logout, TypeIInv, TypeOK
        <5> QED
          BY <3>2, <5>1, <5>2, <5>3
      <4> QED
        BY <4>2 DEF TypeIInv, TypeOK
    <3> QED
      BY <2>2, <3>1, <3>2
  <2>3. ASSUME NEW g \in Guids, LevelUp(g)
        PROVE  character' \in [Guids -> Character \cup {None}]
    BY <2>3, LevelAssumption DEF LevelUp, InMemory, TypeIInv, TypeOK, Character, Levels
  <2>4. CASE ServerCrashes
    BY <2>4 DEF ServerCrashes, TypeIInv, TypeOK
  <2>5. CASE ServerStarts
    BY <2>5 DEF ServerStarts, TypeIInv, TypeOK, Character
  <2> QED
    BY <2>1, <2>2, <2>3, <2>4, <2>5 DEF WorldServer
<1> QED
  BY <1>1, <1>2 DEF TypeIInv, TypeOK, RequestsKnow, settings, accountVars

LEMMA NextTypeIInv == TypeIInv /\ [Next]_vars => TypeIInv'
<1>1. CASE UNCHANGED vars
  BY <1>1 DEF vars, settings, accountVars, TypeIInv, TypeOK, RequestsKnow
<1> QED
  BY <1>1, CreateTypeIInv, DeleteTypeIInv, PushTypeIInv, ServerTypeIInv DEF Next, HandleRequest

LEMMA TypeInvariant == Spec => []TypeIInv
  BY InitTypeIInv, NextTypeIInv, PTL DEF Spec

\* The tables and the requests keep their types.
THEOREM TypeCorrect == Spec => []TypeOK
<1>1. TypeIInv => TypeOK
  BY DEF TypeIInv
<1> QED
  BY <1>1, TypeInvariant, PTL

-----------------------------------------------------------------------------
(* Pushed levels *)

\* What the world server would save is never below what the table holds.
SavesNoLess ==
    \A g \in Guids :
        character[g] # None /\ character[g].online => character[g].played >= character[g].level

\* What one step does to the row of a character.
RowStep(g) ==
    \/ character'[g] = character[g]
    \/ character'[g] = None
    \/ character[g] = None /\ ~character'[g].online
    \/ /\ character[g] # None /\ ~character[g].online
       /\ ~character'[g].online /\ character'[g].level = PushLevel
    \/ /\ character[g] # None /\ ~character[g].online
       /\ character'[g].level = character[g].level
       /\ character'[g].played = character[g].level
    \/ /\ character[g] # None /\ character[g].online
       /\ character'[g].level = character[g].level
       /\ character'[g].played = character[g].played + 1
    \/ /\ character[g] # None /\ character[g].online
       /\ character'[g].level = character[g].played
       /\ character'[g].played = character[g].played
    \/ /\ character[g] # None
       /\ ~character'[g].online
       /\ character'[g].level = character[g].level

LEMMA EveryRowStep ==
    ASSUME TypeIInv, [Next]_vars, NEW g \in Guids
    PROVE  RowStep(g)
<1>1. character \in [Guids -> Character \cup {None}]
  BY DEF TypeIInv, TypeOK
<1>2. CASE UNCHANGED character
  BY <1>2 DEF RowStep
<1>3. ASSUME NEW r \in Requests, UpdateLevel(r)  PROVE RowStep(g)
  BY <1>1, <1>3 DEF UpdateLevel, Updates, CharactersOf, Character, RowStep
<1>4. ASSUME NEW other \in Guids, CharacterAppears(other) \/ CharacterDeleted(other)
      PROVE  RowStep(g)
  BY <1>1, <1>4 DEF CharacterAppears, CharacterDeleted, RowStep
<1>5. ASSUME NEW other \in Guids, Login(other) \/ LevelUp(other)  PROVE RowStep(g)
  BY <1>1, <1>5 DEF Login, LevelUp, InMemory, Character, RowStep
<1>6. ASSUME NEW other \in Guids, SavePlayer(other) \/ Logout(other)  PROVE RowStep(g)
  BY <1>1, <1>6 DEF SavePlayer, Logout, InMemory, Character, RowStep
<1>7. CASE ServerStarts
  BY <1>1, <1>7 DEF ServerStarts, Character, RowStep
<1>8. \/ UNCHANGED character
      \/ \E r \in Requests : UpdateLevel(r)
      \/ \E other \in Guids : \/ CharacterAppears(other) \/ CharacterDeleted(other)
                              \/ Login(other) \/ LevelUp(other)
                              \/ SavePlayer(other) \/ Logout(other)
      \/ ServerStarts
  BY DEF Next, HandleRequest, WorldServer, vars, CreateAccount, InsertAccount, InsertRealmRow,
         DeleteAccount, CountCharacters, DeleteRealmRow, DeleteAccountRow, PushLevel55,
         ReadCharacter, RequestFails, ServerCrashes
<1> QED
  BY <1>2, <1>3, <1>4, <1>5, <1>6, <1>7, <1>8

LEMMA SavesNoLessStep ==
    ASSUME TypeIInv, SavesNoLess, [Next]_vars
    PROVE  SavesNoLess'
<1> SUFFICES ASSUME NEW g \in Guids, character'[g] # None, character'[g].online
             PROVE  character'[g].played >= character'[g].level
  BY DEF SavesNoLess
<1>1. RowStep(g)
  BY EveryRowStep
<1>2. ASSUME character[g] # None
      PROVE  character[g].level \in Int /\ character[g].played \in Int
  BY <1>2 DEF TypeIInv, TypeOK, Character, Levels
<1> QED
  BY <1>1, <1>2 DEF RowStep, SavesNoLess

\* index.php:417: because the UPDATE asks again whether the character is offline, no
\* level of 55 or more is ever lost to the world server.
THEOREM PushedLevelIsKept == Spec => PushedLevelKept
<1>1. Init => SavesNoLess
  BY DEF Init, SavesNoLess
<1>2. ASSUME TypeIInv, SavesNoLess, [Next]_vars, NEW g \in Guids,
             character[g] # None, character'[g] # None, character[g].level >= PushLevel
      PROVE  character'[g].level >= PushLevel
  <2>1. RowStep(g)
    BY <1>2, EveryRowStep
  <2>2. /\ character[g].level \in Int /\ character[g].played \in Int
        /\ PushLevel \in Int
    BY <1>2, LevelAssumption DEF TypeIInv, TypeOK, Character, Levels
  <2> QED
    BY <1>2, <2>1, <2>2 DEF RowStep, SavesNoLess
<1>3. TypeIInv /\ SavesNoLess /\ [Next]_vars =>
        [\A g \in Guids :
           character[g] # None /\ character'[g] # None /\ character[g].level >= PushLevel
             => character'[g].level >= PushLevel]_vars
  BY <1>2
<1> QED
  BY <1>1, <1>3, TypeInvariant, SavesNoLessStep, PTL DEF Spec, PushedLevelKept

-----------------------------------------------------------------------------
(* Accounts *)

\* The requests of one browser session do not overlap.
SessionLock ==
    \A r, other \in Requests :
        r # other /\ session[r] = session[other] => ~(Active(r) /\ Active(other))

\* What a request of the only browser relies on between its statements.
RequestsRely ==
    OneBrowser => \A r \in Requests :
        /\ request[r].at = "insert_account" => AccountsOf(request[r].name) = {}
        /\ request[r].at = "insert_realm" => account[request[r].id] # None
        /\ request[r].at = "delete_account" => request[r].id \notin realmRows

IdsGiven == \A id \in Ids : account[id] # None => id <= lastId

AccountIInv ==
    TypeIInv /\ SessionLock /\ RequestsRely /\ IdsGiven /\ OneAccountPerName /\ RealmRowsHaveAccount

\* A request that acts is under way or holds the lock now, and changes no other.
LEMMA RequestFrame ==
    ASSUME TypeIInv, NEW r \in Requests, HandleRequest(r)
    PROVE  /\ Active(r) \/ Begins(r)
           /\ UNCHANGED settings
           /\ \A other \in Requests : other # r => request'[other] = request[other]
<1> USE DEF TypeIInv, TypeOK, Goes, Active
<1>1. CASE CreateAccount(r) \/ DeleteAccount(r) \/ PushLevel55(r)
  BY <1>1 DEF CreateAccount, DeleteAccount, PushLevel55
<1>2. CASE InsertAccount(r) \/ InsertRealmRow(r)
  BY <1>2 DEF InsertAccount, InsertRealmRow
<1>3. CASE CountCharacters(r) \/ DeleteRealmRow(r) \/ DeleteAccountRow(r)
  BY <1>3 DEF CountCharacters, DeleteRealmRow, DeleteAccountRow
<1>4. CASE ReadCharacter(r) \/ UpdateLevel(r) \/ RequestFails(r)
  BY <1>4 DEF ReadCharacter, UpdateLevel, RequestFails
<1> QED
  BY <1>1, <1>2, <1>3, <1>4 DEF HandleRequest

LEMMA SessionLockStep ==
    ASSUME TypeIInv, SessionLock, NEW r \in Requests, HandleRequest(r)
    PROVE  SessionLock'
<1>1. ASSUME NEW other \in Requests, other # r, session[other] = session[r]
      PROVE  ~Active(other)
  BY <1>1, RequestFrame DEF SessionLock, Begins
<1>2. \A other \in Requests : other # r => Active(other)' = Active(other)
  BY RequestFrame DEF Active
<1>3. session' = session
  BY RequestFrame DEF settings
<1> QED
  BY <1>1, <1>2, <1>3 DEF SessionLock

\* With one browser the other requests rest while one acts.
LEMMA OthersRest ==
    ASSUME AccountIInv, OneBrowser, NEW r \in Requests, HandleRequest(r),
           NEW other \in Requests, other # r
    PROVE  request'[other].at \notin {"insert_account", "insert_realm", "delete_account"}
<1>1. ~Active(other)
  BY RequestFrame DEF AccountIInv, SessionLock, Begins, OneBrowser
<1> QED
  BY <1>1, RequestFrame DEF Active, AccountIInv

\* Statements that write neither table.
LEMMA ReadingRequest ==
    ASSUME AccountIInv, NEW r \in Requests, HandleRequest(r), UNCHANGED accountVars,
           request'[r].at = "insert_account" => AccountsOf(request'[r].name) = {},
           request'[r].at \notin {"insert_realm", "delete_account"}
    PROVE  AccountIInv'
<1>1. TypeIInv' /\ SessionLock'
  BY NextTypeIInv, SessionLockStep DEF AccountIInv, Next
<1>2. OneBrowser' = OneBrowser
  BY RequestFrame DEF OneBrowser, settings, AccountIInv
<1>3. \A name : AccountsOf(name)' = AccountsOf(name)
  BY DEF AccountsOf, accountVars
<1>4. RequestsRely'
  BY <1>2, <1>3, OthersRest DEF RequestsRely, AccountsOf, accountVars
<1> QED
  BY <1>1, <1>2, <1>4, RequestFrame
  DEF AccountIInv, IdsGiven, OneAccountPerName, RealmRowsHaveAccount, accountVars, settings

LEMMA WritingRequest ==
    ASSUME AccountIInv, NEW r \in Requests,
           \/ InsertAccount(r) \/ InsertRealmRow(r)
           \/ DeleteRealmRow(r) \/ DeleteAccountRow(r)
    PROVE  AccountIInv'
<1>1. HandleRequest(r)
  BY DEF HandleRequest
<1>2. TypeIInv' /\ SessionLock' /\ UNCHANGED settings
  BY <1>1, NextTypeIInv, SessionLockStep, RequestFrame DEF AccountIInv, Next
<1>3. OneBrowser' = OneBrowser
  BY <1>2 DEF OneBrowser, settings
<1>4. /\ request \in [Requests -> Request] /\ lastId \in Nat
      /\ account \in [Ids -> Names \cup {None}]
  BY IdAssumption DEF AccountIInv, TypeIInv, TypeOK
<1> DEFINE Rest == /\ IdsGiven' /\ OneAccountPerName' /\ RealmRowsHaveAccount'
                   /\ OneBrowser => /\ request'[r].at # "insert_account"
                                    /\ request'[r].at = "insert_realm"
                                         => account'[request'[r].id] # None
                                    /\ request'[r].at = "delete_account"
                                         => request'[r].id \notin realmRows'
<1>5. ASSUME InsertAccount(r)  PROVE Rest
  <2>1. CASE uniqueKey /\ AccountsOf(request[r].name) # {}
    <3>1. UNCHANGED accountVars /\ request'[r].at = "failed"
      BY <1>4, <1>5, <2>1 DEF InsertAccount, Goes, accountVars, Request
    <3> QED
      BY <1>2, <1>3, <3>1
      DEF AccountIInv, IdsGiven, OneAccountPerName, RealmRowsHaveAccount, accountVars, settings
  <2>2. CASE ~(uniqueKey /\ AccountsOf(request[r].name) # {})
    <3>1. /\ lastId + 1 \in Ids /\ lastId' = lastId + 1 /\ realmRows' = realmRows
          /\ account' = [account EXCEPT ![lastId + 1] = request[r].name]
          /\ request'[r].at = "insert_realm" /\ request'[r].id = lastId + 1
          /\ request[r].name \in Names /\ request[r].at = "insert_account"
      BY <1>4, <1>5, <2>2, IdAssumption
      DEF InsertAccount, AccountIInv, TypeIInv, TypeOK, RequestsKnow, Ids, Request
    <3>2. account[lastId + 1] = None
      BY <1>4, <3>1 DEF AccountIInv, IdsGiven
    <3>3. IdsGiven'
      BY <1>4, <3>1 DEF AccountIInv, IdsGiven, Ids
    <3>4. uniqueKey \/ OneBrowser => \A id \in Ids : account[id] # request[r].name
      BY <2>2, <3>1 DEF AccountIInv, RequestsRely, AccountsOf
    <3>5. OneAccountPerName'
      BY <1>2, <1>3, <1>4, <3>1, <3>4 DEF AccountIInv, OneAccountPerName, settings
    <3>6. RealmRowsHaveAccount'
      BY <1>3, <1>4, <3>1, NoneAssumption DEF AccountIInv, RealmRowsHaveAccount, TypeIInv, TypeOK
    <3> QED
      BY <1>4, <3>1, <3>3, <3>5, <3>6, NoneAssumption
  <2> QED
    BY <2>1, <2>2
<1>6. ASSUME InsertRealmRow(r)  PROVE Rest
  BY <1>2, <1>3, <1>4, <1>6
  DEF InsertRealmRow, Goes, Request, AccountIInv, RequestsRely, IdsGiven, OneAccountPerName,
      RealmRowsHaveAccount, settings
<1>7. ASSUME DeleteRealmRow(r)  PROVE Rest
  BY <1>2, <1>3, <1>4, <1>7
  DEF DeleteRealmRow, Goes, Request, AccountIInv, IdsGiven, OneAccountPerName, RealmRowsHaveAccount,
      settings
<1>8. ASSUME DeleteAccountRow(r)  PROVE Rest
  <2>1. /\ account' = [account EXCEPT ![request[r].id] = None]
        /\ realmRows' = realmRows /\ lastId' = lastId /\ request'[r].at = "done"
        /\ OneBrowser => request[r].id \notin realmRows
        /\ request[r].id \in Ids
    BY <1>4, <1>8 DEF DeleteAccountRow, Goes, Request, AccountIInv, RequestsRely, TypeIInv, RequestsKnow,
                      KnowsId
  <2>2. IdsGiven' /\ OneAccountPerName'
    BY <1>2, <1>3, <1>4, <2>1 DEF AccountIInv, IdsGiven, OneAccountPerName, settings
  <2>3. RealmRowsHaveAccount'
    BY <1>3, <1>4, <2>1 DEF AccountIInv, RealmRowsHaveAccount, TypeIInv, TypeOK
  <2> QED
    BY <2>1, <2>2, <2>3
<1>9. Rest
  BY <1>5, <1>6, <1>7, <1>8
<1>10. RequestsRely'
  BY <1>1, <1>3, <1>9, OthersRest DEF RequestsRely, AccountsOf
<1> QED
  BY <1>2, <1>9, <1>10 DEF AccountIInv

LEMMA NextAccountIInv == AccountIInv /\ [Next]_vars => AccountIInv'
<1> SUFFICES ASSUME AccountIInv, [Next]_vars  PROVE AccountIInv'
  OBVIOUS
<1>1. ASSUME UNCHANGED <<settings, request, accountVars>>  PROVE AccountIInv'
  <2>1. TypeIInv'
    BY NextTypeIInv DEF AccountIInv
  <2> QED
    BY <1>1, <2>1 DEF AccountIInv, SessionLock, RequestsRely, IdsGiven, OneAccountPerName,
                      RealmRowsHaveAccount, OneBrowser, Active, AccountsOf, settings, accountVars
<1>2. ASSUME NEW r \in Requests,
             \/ CreateAccount(r) \/ DeleteAccount(r) \/ CountCharacters(r)
             \/ PushLevel55(r) \/ ReadCharacter(r) \/ UpdateLevel(r) \/ RequestFails(r)
      PROVE  AccountIInv'
  <2>1. HandleRequest(r) /\ UNCHANGED accountVars
    BY <1>2 DEF HandleRequest, CreateAccount, DeleteAccount, CountCharacters, PushLevel55,
                ReadCharacter, UpdateLevel, RequestFails
  <2>2. request \in [Requests -> Request]
    BY DEF AccountIInv, TypeIInv, TypeOK
  <2>3. /\ request'[r].at \notin {"insert_realm", "delete_account"}
        /\ request'[r].at = "insert_account" => AccountsOf(request'[r].name) = {}
    <3>1. CASE CreateAccount(r)
      BY <2>2, <3>1 DEF CreateAccount, Request
    <3>2. CASE DeleteAccount(r)
      <4>1. request'[r].at \in {"failed", "count"}
        BY <2>2, <3>2 DEF DeleteAccount, Goes, Request
      <4> QED
        BY <4>1
    <3>3. CASE PushLevel55(r)
      <4>1. request'[r].at \in {"failed", "read"}
        BY <2>2, <3>3 DEF PushLevel55, Goes, Request
      <4> QED
        BY <4>1
    <3>4. CASE CountCharacters(r) \/ ReadCharacter(r) \/ UpdateLevel(r) \/ RequestFails(r)
      BY <2>2, <3>4 DEF CountCharacters, ReadCharacter, UpdateLevel, RequestFails, Goes, Request
    <3> QED
      BY <1>2, <3>1, <3>2, <3>3, <3>4
  <2> QED
    BY <2>1, <2>3, ReadingRequest
<1>3. CASE WorldServer
  BY <1>1, <1>3 DEF WorldServer, CharacterAppears, CharacterDeleted, Login, LevelUp, SavePlayer,
                    Logout, ServerCrashes, ServerStarts
<1>4. CASE UNCHANGED vars
  BY <1>1, <1>4 DEF vars
<1> QED
  BY <1>2, <1>3, <1>4, WritingRequest DEF Next, HandleRequest

LEMMA InitAccountIInv == Init => AccountIInv
<1> SUFFICES ASSUME Init  PROVE AccountIInv
  OBVIOUS
<1>1. TypeIInv
  BY InitTypeIInv
<1>2. SessionLock /\ RequestsRely
  BY DEF Init, SessionLock, RequestsRely, Active
<1>3. IdsGiven /\ OneAccountPerName /\ RealmRowsHaveAccount
  BY DEF Init, IdsGiven, OneAccountPerName, RealmRowsHaveAccount
<1> QED
  BY <1>1, <1>2, <1>3 DEF AccountIInv

LEMMA AccountInvariant == Spec => []AccountIInv
  BY InitAccountIInv, NextAccountIInv, PTL DEF Spec

\* create_account never gives a name twice, if the table forbids it or one browser
\* sends all the requests.
THEOREM OneAccountForEachName == Spec => []OneAccountPerName
<1>1. AccountIInv => OneAccountPerName
  BY DEF AccountIInv
<1> QED
  BY <1>1, AccountInvariant, PTL

\* With one browser, no failure between two statements leaves a row of
\* realmcharacters without its account.
THEOREM EveryRealmRowHasAccount == Spec => []RealmRowsHaveAccount
<1>1. AccountIInv => RealmRowsHaveAccount
  BY DEF AccountIInv
<1> QED
  BY <1>1, AccountInvariant, PTL
=============================================================================
