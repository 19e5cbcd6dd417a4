---------------------------- MODULE AccountAdmin ----------------------------
(***************************************************************************)
(* The account part of the administration page (Web/www/index.php):        *)
(* create_account, delete_account and push_level_55.  Each is a few SQL    *)
(* statements on two databases that share no transaction, logon and        *)
(* characters, which the world server uses at the same time.               *)
(*                                                                         *)
(* Every statement is a step, between which other requests and the world   *)
(* server may act, and after which the request may fail.  Requests of one  *)
(* browser session do not overlap.  logon.account is an InnoDB table,      *)
(* logon.realmcharacters and characters.characters are MyISAM: a rollback  *)
(* does not bring their rows back.  Whether account has a unique key on    *)
(* the name cannot be seen in the repository.                              *)
(***************************************************************************)
EXTENDS Integers

CONSTANTS
    Requests,       \* browser requests, each of which runs once
    Sessions,       \* which browser sessions the requests may belong to
    Names,          \* account names; ADMIN and AHBOT, which cannot be deleted, are left out
    MaxId,          \* bound of the account ids
    Guids,          \* characters
    PushLevel,      \* 55
    MaxLevel,       \* bound of the levels, 60
    None            \* no row, nothing known

Ids == 1..MaxId
Levels == 1..MaxLevel

ASSUME SessionAssumption == \A map \in Sessions : DOMAIN map = Requests
ASSUME IdAssumption == MaxId \in Nat
ASSUME LevelAssumption == MaxLevel \in Nat /\ PushLevel \in Levels
ASSUME NoneAssumption == None \notin Names /\ None \notin Ids

VARIABLES
    session,        \* the browser session of each request; chosen once
    uniqueKey,      \* external: may account hold a name only once; chosen once
    request,        \* what each request has done and knows
    account,        \* logon.account: the name each id stands for
    lastId,         \* the last id AUTO_INCREMENT has given
    realmRows,      \* logon.realmcharacters: the ids with a row
    character,      \* characters.characters
    running         \* external: is mangosd.exe running

settings == <<session, uniqueKey>>
accountVars == <<account, lastId, realmRows>>
vars == <<settings, request, accountVars, character, running>>

-----------------------------------------------------------------------------
(* Tables and requests *)

\* played: the level the world server keeps in memory while the character is
\* online, and saves from time to time.
Character == [account : Ids, level : Levels, online : BOOLEAN, played : Levels]

Steps == {"new", "insert_account", "insert_realm", "count", "delete_realm", "delete_account",
          "read", "update", "done", "failed"}

Request == [at : Steps, name : Names \cup {None}, id : Ids \cup {None},
            guid : Guids \cup {None}]

TypeOK ==
    /\ session \in Sessions
    /\ uniqueKey \in BOOLEAN
    /\ request \in [Requests -> Request]
    /\ account \in [Ids -> Names \cup {None}]
    /\ lastId \in 0..MaxId
    /\ realmRows \subseteq Ids
    /\ character \in [Guids -> Character \cup {None}]
    /\ running \in BOOLEAN

Active(r) == request[r].at \notin {"new", "done", "failed"}

\* PHP's lock on the session file is free.
Begins(r) ==
    /\ request[r].at = "new"
    /\ \A other \in Requests : session[other] = session[r] => ~Active(other)

Goes(r, step) == request' = [request EXCEPT ![r].at = step]

\* SELECT ... FROM account WHERE username = name
AccountsOf(name) == {id \in Ids : account[id] = name}

CharactersOf(id) == {g \in Guids : character[g] # None /\ character[g].account = id}

-----------------------------------------------------------------------------
(* create_account *)

\* A mutated form: the name is not looked up.
CreateAccountUnchecked(r) ==
    /\ Begins(r)
    /\ \E name \in Names :
         request' = [request EXCEPT ![r].name = name, ![r].at = "insert_account"]
    /\ UNCHANGED <<settings, accountVars, character, running>>

CreateAccount(r) ==
    /\ Begins(r)
    /\ \E name \in Names :
         request' = [request EXCEPT
           ![r].name = name,
           ![r].at = IF AccountsOf(name) = {} THEN "insert_account" ELSE "failed"]
    /\ UNCHANGED <<settings, accountVars, character, running>>

\* A mutated form: INSERT IGNORE, which leaves the request without an id.
InsertAccountIgnored(r) ==
    /\ request[r].at = "insert_account"
    /\ IF uniqueKey /\ AccountsOf(request[r].name) # {}
       THEN /\ Goes(r, "insert_realm")
            /\ UNCHANGED <<account, lastId>>
       ELSE /\ lastId < MaxId
            /\ lastId' = lastId + 1
            /\ account' = [account EXCEPT ![lastId + 1] = request[r].name]
            /\ request' = [request EXCEPT ![r].id = lastId + 1, ![r].at = "insert_realm"]
    /\ UNCHANGED <<settings, realmRows, character, running>>

\* The id is what AUTO_INCREMENT gives, never one given before.
InsertAccount(r) ==
    /\ request[r].at = "insert_account"
    /\ IF uniqueKey /\ AccountsOf(request[r].name) # {}
       THEN /\ Goes(r, "failed")
            /\ UNCHANGED <<account, lastId>>
       ELSE /\ lastId < MaxId
            /\ lastId' = lastId + 1
            /\ account' = [account EXCEPT ![lastId + 1] = request[r].name]
            /\ request' = [request EXCEPT ![r].id = lastId + 1, ![r].at = "insert_realm"]
    /\ UNCHANGED <<settings, realmRows, character, running>>

InsertRealmRow(r) ==
    /\ request[r].at = "insert_realm"
    /\ realmRows' = realmRows \cup {request[r].id}
    /\ Goes(r, "done")
    /\ UNCHANGED <<settings, account, lastId, character, running>>

-----------------------------------------------------------------------------
(* delete_account *)

DeleteAccount(r) ==
    /\ Begins(r)
    /\ \E name \in Names :
         \/ /\ AccountsOf(name) = {}
            /\ Goes(r, "failed")
         \/ \E id \in AccountsOf(name) :
              request' = [request EXCEPT ![r].name = name, ![r].id = id, ![r].at = "count"]
    /\ UNCHANGED <<settings, accountVars, character, running>>

CountCharacters(r) ==
    /\ request[r].at = "count"
    /\ Goes(r, IF CharactersOf(request[r].id) = {} THEN "delete_realm" ELSE "failed")
    /\ UNCHANGED <<settings, accountVars, character, running>>

\* A mutated form: the rows of the realm are forgotten.
DeleteNoRealmRow(r) ==
    /\ request[r].at = "delete_realm"
    /\ Goes(r, "delete_account")
    /\ UNCHANGED <<settings, accountVars, character, running>>

DeleteRealmRow(r) ==
    /\ request[r].at = "delete_realm"
    /\ realmRows' = realmRows \ {request[r].id}
    /\ Goes(r, "delete_account")
    /\ UNCHANGED <<settings, account, lastId, character, running>>

\* DELETE FROM account, and the commit.
DeleteAccountRow(r) ==
    /\ request[r].at = "delete_account"
    /\ account' = [account EXCEPT ![request[r].id] = None]
    /\ Goes(r, "done")
    /\ UNCHANGED <<settings, lastId, realmRows, character, running>>

-----------------------------------------------------------------------------
(* push_level_55 *)

PushLevel55(r) ==
    /\ Begins(r)
    /\ \E name \in Names, g \in Guids :
         \/ /\ AccountsOf(name) = {}
            /\ Goes(r, "failed")
         \/ \E id \in AccountsOf(name) :
              request' = [request EXCEPT ![r].name = name, ![r].id = id, ![r].guid = g,
                                         ![r].at = "read"]
    /\ UNCHANGED <<settings, accountVars, character, running>>

ReadCharacter(r) ==
    LET g == request[r].guid IN
    /\ request[r].at = "read"
    /\ Goes(r, IF /\ g \in CharactersOf(request[r].id)
                  /\ ~character[g].online
                  /\ character[g].level < PushLevel
               THEN "update" ELSE "failed")
    /\ UNCHANGED <<settings, accountVars, character, running>>

\* A mutated form: the UPDATE does not ask again whether the character is online.
UpdatesAnyOf(r) == request[r].guid \in CharactersOf(request[r].id)

\* The WHERE clause of the UPDATE finds the character.  The level is not asked again.
Updates(r) ==
    /\ request[r].guid \in CharactersOf(request[r].id)
    /\ ~character[request[r].guid].online

\* No row counts as changed either if all its values are what they were.
UpdateLevel(r) ==
    LET g == request[r].guid IN
    /\ request[r].at = "update"
    /\ IF Updates(r)
       THEN /\ character' = [character EXCEPT ![g].level = PushLevel]
            /\ \/ Goes(r, "done")
               \/ character' = character /\ Goes(r, "failed")
       ELSE /\ Goes(r, "failed")
            /\ UNCHANGED character
    /\ UNCHANGED <<settings, accountVars, running>>

-----------------------------------------------------------------------------

\* The databases do not answer, or PHP is stopped; an open transaction is rolled
\* back, which is nothing to account: its row is deleted with the commit.
RequestFails(r) ==
    /\ Active(r)
    /\ Goes(r, "failed")
    /\ UNCHANGED <<settings, accountVars, character, running>>

HandleRequest(r) ==
    \/ CreateAccount(r)
    \/ InsertAccount(r)
    \/ InsertRealmRow(r)
    \/ DeleteAccount(r)
    \/ CountCharacters(r)
    \/ DeleteRealmRow(r)
    \/ DeleteAccountRow(r)
    \/ PushLevel55(r)
    \/ ReadCharacter(r)
    \/ UpdateLevel(r)
    \/ RequestFails(r)

-----------------------------------------------------------------------------
(* The world server (external).  It marks a character online before it loads *)
(* it, and offline after it has saved it.  Two things it could do are assumed *)
(* away: it writes no row of realmcharacters, whose numchars nothing here     *)
(* reads, and nobody creates or deletes an account at its console.            *)

\* A new character of level 1, or one of any level from a dump; the client may
\* still be connected to an account that is deleted by now.
CharacterAppears(g) ==
    /\ running
    /\ character[g] = None
    /\ \E id \in 1..lastId, level \in Levels :
         character' = [character EXCEPT ![g] =
           [account |-> id, level |-> level, online |-> FALSE, played |-> level]]
    /\ UNCHANGED <<settings, request, accountVars, running>>

CharacterDeleted(g) ==
    /\ running
    /\ character[g] # None
    /\ ~character[g].online
    /\ character' = [character EXCEPT ![g] = None]
    /\ UNCHANGED <<settings, request, accountVars, running>>

Login(g) ==
    /\ running
    /\ character[g] # None
    /\ ~character[g].online
    /\ character' = [character EXCEPT ![g].online = TRUE, ![g].played = character[g].level]
    /\ UNCHANGED <<settings, request, accountVars, running>>

\* The world server has the character in memory.
InMemory(g) == running /\ character[g] # None /\ character[g].online

LevelUp(g) ==
    /\ InMemory(g)
    /\ character[g].played < MaxLevel
    /\ character' = [character EXCEPT ![g].played = @ + 1]
    /\ UNCHANGED <<settings, request, accountVars, running>>

SavePlayer(g) ==
    /\ InMemory(g)
    /\ character' = [character EXCEPT ![g].level = character[g].played]
    /\ UNCHANGED <<settings, request, accountVars, running>>

Logout(g) ==
    /\ InMemory(g)
    /\ character' = [character EXCEPT ![g].level = character[g].played, ![g].online = FALSE]
    /\ UNCHANGED <<settings, request, accountVars, running>>

\* A crash: what was not saved is lost, and the characters still count as online.
ServerCrashes ==
    /\ running
    /\ running' = FALSE
    /\ UNCHANGED <<settings, request, accountVars, character>>

\* At its start the world server marks every character offline.
ServerStarts ==
    /\ ~running
    /\ running' = TRUE
    /\ character' = [g \in Guids |->
         IF character[g] = None THEN None
         ELSE [character[g] EXCEPT !.online = FALSE, !.played = character[g].level]]
    /\ UNCHANGED <<settings, request, accountVars>>

WorldServer ==
    \/ \E g \in Guids :
         \/ CharacterAppears(g)
         \/ CharacterDeleted(g)
         \/ Login(g)
         \/ LevelUp(g)
         \/ SavePlayer(g)
         \/ Logout(g)
    \/ ServerCrashes
    \/ ServerStarts

-----------------------------------------------------------------------------

\* Accounts, with or without a row for the realm, and offline characters of theirs.
Init ==
    /\ session \in Sessions
    /\ uniqueKey \in BOOLEAN
    /\ request = [r \in Requests |-> [at |-> "new", name |-> None, id |-> None, guid |-> None]]
    /\ lastId \in 0..MaxId
    /\ account \in [Ids -> Names \cup {None}]
    /\ \A id \in Ids : account[id] # None =>
         id <= lastId /\ \A other \in Ids : account[other] = account[id] => other = id
    /\ realmRows \in SUBSET {id \in Ids : account[id] # None}
    /\ character \in [Guids -> Character \cup {None}]
    /\ \A g \in Guids : character[g] # None =>
         /\ account[character[g].account] # None
         /\ ~character[g].online
         /\ character[g].played = character[g].level
    /\ running \in BOOLEAN

Next == (\E r \in Requests : HandleRequest(r)) \/ WorldServer

Spec == Init /\ [][Next]_vars
-----------------------------------------------------------------------------
(* Properties *)

OneBrowser == \A r, other \in Requests : session[r] = session[other]

\* index.php:194 "This account name is already in use.": although the name is looked
\* up and inserted in two statements, no two accounts have one name if either the
\* table has a unique key or all requests come from one browser.
OneAccountPerName ==
    uniqueKey \/ OneBrowser =>
        \A id, other \in Ids : account[id] # None /\ account[other] = account[id] => other = id

\* A request may fail after any statement, and realmcharacters is not rolled back.
\* As long as all requests come from one browser, no row of it is left without its
\* account.  (With two, a deletion may come between the two inserts.)
RealmRowsHaveAccount ==
    OneBrowser => \A id \in realmRows : account[id] # None

\* index.php:512 "raise an offline character": a character that has level 55 or more
\* keeps it, whatever the world server saves or loses.  Were one raised while it
\* is played, the next save would put its old level back.
PushedLevelKept ==
    [][\A g \in Guids :
         character[g] # None /\ character'[g] # None /\ character[g].level >= PushLevel
             => character'[g].level >= PushLevel]_vars

\* index.php:524 "Only accounts without characters can be deleted here.": an account
\* that is deleted owns no character when its row goes.  (The code counts them in
\* an earlier statement, on the other database.)
OnlyEmptyAccountsDeleted ==
    [][\A id \in Ids :
         account[id] # None /\ account'[id] = None => CharactersOf(id) = {}]_vars
=============================================================================
