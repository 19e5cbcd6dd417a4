---------------------------- MODULE BackupAdmin ----------------------------
(***************************************************************************)
(* The backup part of the administration page (Web/www/index.php): browser *)
(* requests that create, restore, upload and delete character dumps, the   *)
(* files they share, and the world server they command through a pipe.     *)
(*                                                                         *)
(* A request runs in steps, between which the other requests, the world    *)
(* server and the clock may act.  Requests of one browser session do not   *)
(* overlap: PHP holds the lock of the session file while a request runs.   *)
(* The world server and the file system are external.  Windows refuses to  *)
(* rename a file another process has open; any other call on a file or on  *)
(* the pipe may fail too, and the request goes on as the code then does.    *)
(*                                                                         *)
(* A dump in an account's directory is named by its character and minute;  *)
(* accounts are not modelled apart from their characters.                  *)
(***************************************************************************)
EXTENDS Integers, Sequences

CONSTANTS
    Requests,           \* browser requests, each of which runs once
    Sessions,           \* which browser sessions the requests may belong to
    Kinds,              \* what they do: subset of "create", "restore", "upload", "delete"
    Characters,         \* names of characters
    MaxTime,            \* bound of the clock, in seconds
    SecondsPerMinute,   \* 60 in reality
    MaxPolls,           \* 20: how often a finished dump is looked for
    ServerStops,        \* may the world server stop and start again
    None                \* no file, nothing known

ASSUME RequestAssumption == \A map \in Sessions : DOMAIN map = Requests
ASSUME CharacterAssumption == Characters # {}
ASSUME KindAssumption == Kinds \subseteq {"create", "restore", "upload", "delete"}
ASSUME TimeAssumption ==
    /\ MaxTime \in Nat
    /\ SecondsPerMinute \in Nat \ {0}
    /\ MaxPolls \in Nat \ {0}
ASSUME StopAssumption == ServerStops \in BOOLEAN

VARIABLES
    session,    \* the browser session of each request; chosen once
    now,        \* time()
    request,    \* what each request has done and knows
    archive,    \* the dumps in the account directories
    dumpFile,   \* temp_dump_<guid>_<time>.pdump in the server directory
    loadFile,   \* temp_load_<time>.pdump in the server directory
    running,    \* external: is mangosd.exe running
    queue,      \* external: commands in the pipe nostalgia_console
    writing     \* external: the dump file the world server has open

serverVars == <<running, queue, writing, session>>
vars == <<session, now, request, archive, dumpFile, loadFile, running, queue, writing>>

-----------------------------------------------------------------------------
(* Files and requests *)

Times == 0..MaxTime

Minute(time) == time \div SecondsPerMinute

Names == Characters \X {Minute(time) : time \in Times}

\* The world server is writing a file, has written all of it, or stopped before.
States == {"open", "complete", "cut"}

\* A dump: whose it is, whether the world server wrote it or a user uploaded it,
\* and what state it was filed in.
Dump == [of : Characters, from : {"server", "user"}, state : States]

TempNames == Characters \X Times

\* "small": no more than 50 bytes written so far.
Size == {"small", "big"}

\* A file the world server writes.
Written == [of : Characters, size : Size, state : States]

Steps == {"new", "send_write", "poll", "rename", "glob", "unlink", "copy", "send_load",
          "sent", "move", "done", "failed"}

\* char, time: of the temporary file; name: of the dump in the archive; dump: what
\* is uploaded or was copied; old: the left-over files still to be deleted; polls,
\* and the size file system calls have cached.
Request ==
    [at : Steps, char : Characters, time : Times, name : Names,
     dump : Dump \cup {None}, old : SUBSET Times,
     polls : 0..MaxPolls - 1, size : Size \cup {None}]

\* A request that knows nothing.
Blank(step) ==
    [at |-> step, char |-> CHOOSE c \in Characters : TRUE, time |-> 0,
     name |-> CHOOSE name \in Names : TRUE, dump |-> None, old |-> {}, polls |-> 0,
     size |-> None]

\* pdump write <file> <character> and pdump load <file> <account>; wanted is the
\* dump the request copied.
Command ==
    [do : {"write"}, of : Characters, file : TempNames]
        \cup [do : {"load"}, file : Times, wanted : Dump]

ASSUME NilAssumption ==
    /\ None \notin Dump /\ None \notin Written
    /\ None \notin TempNames /\ None \notin Size

TypeOK ==
    /\ session \in Sessions
    /\ now \in Times
    /\ request \in [Requests -> Request]
    /\ archive \in [Names -> Dump \cup {None}]
    /\ dumpFile \in [TempNames -> Written \cup {None}]
    /\ loadFile \in [Times -> Dump \cup {None}]
    /\ running \in BOOLEAN
    /\ queue \in Seq(Command)
    /\ writing \in TempNames \cup {None}

-----------------------------------------------------------------------------
(* Requests *)

Active(r) == request[r].at \notin {"new", "done", "failed"}

\* The session lock is free.
Begins(r) ==
    /\ request[r].at = "new"
    /\ \A other \in Requests : session[other] = session[r] => ~Active(other)

Goes(r, step) == request' = [request EXCEPT ![r].at = step]

\* What a request knew goes with it.
Ends(r, step) == request' = [request EXCEPT ![r] = Blank(step)]

\* create_backup: the character is checked and the temporary file named after it
\* and the time.
CreateBackup(r) ==
    /\ "create" \in Kinds
    /\ Begins(r)
    /\ IF running
       THEN \E c \in Characters :
              request' = [request EXCEPT ![r].at = "send_write", ![r].char = c, ![r].time = now]
       ELSE Ends(r, "failed")
    /\ UNCHANGED <<now, archive, dumpFile, loadFile, serverVars>>

\* A mutated form: the file name lacks the character's guid.
TempNameByTime(r) == <<CHOOSE c \in Characters : TRUE, request[r].time>>

TempName(r) == <<request[r].char, request[r].time>>

\* Only a running server has the pipe, and even then opening it may fail.
SendWrite(r) ==
    /\ request[r].at = "send_write"
    /\ \/ /\ running
          /\ queue' = Append(queue,
               [do |-> "write", of |-> request[r].char, file |-> TempName(r)])
          /\ Goes(r, "poll")
       \/ /\ Ends(r, "failed")
          /\ UNCHANGED queue
    /\ UNCHANGED <<now, archive, dumpFile, loadFile, running, writing, session>>

\* filesize(): PHP answers from its cache once it has seen the file.
SizeSeen(r) ==
    IF request[r].size # None THEN request[r].size ELSE dumpFile[TempName(r)].size

\* What is known of the size after a look.
Seen(r) == IF dumpFile[TempName(r)] # None THEN SizeSeen(r) ELSE request[r].size

\* The file exists with more than 50 bytes.
Found(r) == dumpFile[TempName(r)] # None /\ SizeSeen(r) = "big"

\* A mutated form: no limit on the number of polls.
PollForever(r) ==
    /\ request[r].at = "poll"
    /\ IF Found(r)
       THEN Goes(r, "rename")
       ELSE request' = [request EXCEPT ![r].size = Seen(r)]
    /\ UNCHANGED <<now, archive, dumpFile, loadFile, serverVars>>

\* A mutated form: the last poll is counted but not acted on.
PollOnceMore(r) ==
    /\ request[r].at = "poll"
    /\ IF Found(r)
       THEN Goes(r, "rename")
       ELSE IF request[r].polls = MaxPolls
       THEN Ends(r, "failed")
       ELSE request' = [request EXCEPT ![r].size = Seen(r), ![r].polls = @ + 1]
    /\ UNCHANGED <<now, archive, dumpFile, loadFile, serverVars>>

\* Every 250 ms, a limited number of times.
Poll(r) ==
    /\ request[r].at = "poll"
    /\ IF Found(r)
       THEN Goes(r, "rename")
       ELSE IF request[r].polls + 1 = MaxPolls
       THEN Ends(r, "failed")
       ELSE request' = [request EXCEPT ![r].size = Seen(r), ![r].polls = @ + 1]
    /\ UNCHANGED <<now, archive, dumpFile, loadFile, serverVars>>

\* A mutated form: copy() for rename(), which an open file does not hinder.
CopyForRename(r) ==
    LET file == dumpFile[TempName(r)] IN
    /\ request[r].at = "rename"
    /\ IF file # None
       THEN /\ archive' = [archive EXCEPT ![<<request[r].char, Minute(now)>>] =
                 [of |-> file.of, from |-> "server", state |-> file.state]]
            /\ dumpFile' = IF writing = TempName(r) THEN dumpFile
                           ELSE [dumpFile EXCEPT ![TempName(r)] = None]
            /\ Ends(r, "done")
       ELSE /\ Ends(r, "failed")
            /\ UNCHANGED <<archive, dumpFile>>
    /\ UNCHANGED <<now, loadFile, serverVars>>

\* rename() replaces a dump of the same name, and fails if the file is gone or open.
RenameDump(r) ==
    LET file == dumpFile[TempName(r)] IN
    /\ request[r].at = "rename"
    /\ \/ /\ file # None /\ writing # TempName(r)
          /\ archive' = [archive EXCEPT ![<<request[r].char, Minute(now)>>] =
               [of |-> file.of, from |-> "server", state |-> file.state]]
          /\ dumpFile' = [dumpFile EXCEPT ![TempName(r)] = None]
          /\ Ends(r, "done")
       \/ /\ Ends(r, "failed")
          /\ UNCHANGED <<archive, dumpFile>>
    /\ UNCHANGED <<now, loadFile, serverVars>>

\* restore_backup
RestoreBackup(r) ==
    /\ "restore" \in Kinds
    /\ Begins(r)
    /\ \E name \in Names :
         IF running /\ archive[name] # None
         THEN request' = [request EXCEPT ![r].at = "glob", ![r].name = name]
         ELSE Ends(r, "failed")
    /\ UNCHANGED <<now, archive, dumpFile, loadFile, serverVars>>

AfterUnlinks(old) == IF old = {} THEN "copy" ELSE "unlink"

\* glob(): the temp_load files that are there, whoever made them.
ListLoadFiles(r) ==
    LET old == {time \in Times : loadFile[time] # None} IN
    /\ request[r].at = "glob"
    /\ request' = [request EXCEPT ![r].old = old, ![r].at = AfterUnlinks(old)]
    /\ UNCHANGED <<now, archive, dumpFile, loadFile, serverVars>>

\* They are deleted one by one in the order of their names; a failure is ignored.
UnlinkLoadFile(r) ==
    /\ request[r].at = "unlink"
    /\ \E time \in request[r].old :
         /\ \A later \in request[r].old : time <= later
         /\ loadFile' \in {loadFile, [loadFile EXCEPT ![time] = None]}
         /\ request' = [request EXCEPT
              ![r].old = @ \ {time},
              ![r].at = AfterUnlinks(request[r].old \ {time})]
    /\ UNCHANGED <<now, archive, dumpFile, serverVars>>

CopyDump(r) ==
    LET dump == archive[request[r].name] IN
    /\ request[r].at = "copy"
    /\ \/ /\ dump # None
          /\ loadFile' = [loadFile EXCEPT ![now] = dump]
          /\ request' = [request EXCEPT ![r].at = "send_load", ![r].time = now,
                                        ![r].dump = dump]
       \/ /\ Ends(r, "failed")
          /\ UNCHANGED loadFile
    /\ UNCHANGED <<now, archive, dumpFile, serverVars>>

SendLoad(r) ==
    /\ request[r].at = "send_load"
    /\ \/ /\ running
          /\ queue' = Append(queue,
               [do |-> "load", file |-> request[r].time, wanted |-> request[r].dump])
          /\ Goes(r, "sent")
          /\ UNCHANGED loadFile
       \/ /\ loadFile' \in {loadFile, [loadFile EXCEPT ![request[r].time] = None]}
          /\ Ends(r, "failed")
          /\ UNCHANGED queue
    /\ UNCHANGED <<now, archive, dumpFile, running, writing, session>>

\* usleep(): half a second with the session locked, whatever the server does in it.
EndRestore(r) ==
    /\ request[r].at = "sent"
    /\ Ends(r, "done")
    /\ UNCHANGED <<now, archive, dumpFile, loadFile, serverVars>>

\* A mutated form: file_exists is not asked.
UploadUnchecked(r) ==
    /\ "upload" \in Kinds
    /\ Begins(r)
    /\ \E name \in Names, c \in Characters :
         request' = [request EXCEPT
           ![r].name = name,
           ![r].dump = [of |-> c, from |-> "user", state |-> "complete"],
           ![r].at = "move"]
    /\ UNCHANGED <<now, archive, dumpFile, loadFile, serverVars>>

\* upload_dump: any dump may be uploaded under any name that is free.
Upload(r) ==
    /\ "upload" \in Kinds
    /\ Begins(r)
    /\ \E name \in Names, c \in Characters :
         IF archive[name] = None
         THEN request' = [request EXCEPT
                ![r].name = name,
                ![r].dump = [of |-> c, from |-> "user", state |-> "complete"],
                ![r].at = "move"]
         ELSE Ends(r, "failed")
    /\ UNCHANGED <<now, archive, dumpFile, loadFile, serverVars>>

MoveUpload(r) ==
    /\ request[r].at = "move"
    /\ \/ /\ archive' = [archive EXCEPT ![request[r].name] = request[r].dump]
          /\ Ends(r, "done")
       \/ /\ Ends(r, "failed")
          /\ UNCHANGED archive
    /\ UNCHANGED <<now, dumpFile, loadFile, serverVars>>

\* delete_dump: whether the file went is not asked.
DeleteDump(r) ==
    /\ "delete" \in Kinds
    /\ Begins(r)
    /\ \E name \in Names : archive' \in {archive, [archive EXCEPT ![name] = None]}
    /\ Ends(r, "done")
    /\ UNCHANGED <<now, dumpFile, loadFile, serverVars>>

Continue(r) ==
    \/ SendWrite(r)
    \/ Poll(r)
    \/ RenameDump(r)
    \/ ListLoadFiles(r)
    \/ UnlinkLoadFile(r)
    \/ CopyDump(r)
    \/ SendLoad(r)
    \/ EndRestore(r)
    \/ MoveUpload(r)

HandleRequest(r) ==
    \/ CreateBackup(r)
    \/ RestoreBackup(r)
    \/ Upload(r)
    \/ DeleteDump(r)
    \/ Continue(r)

-----------------------------------------------------------------------------
(* The world server (external) *)

\* It takes its next command when it has finished the last.
Takes(command) ==
    /\ running
    /\ writing = None
    /\ queue # << >>
    /\ Head(queue).do = command
    /\ queue' = Tail(queue)

\* pdump write opens the file, or refuses, for instance because the character is
\* gone by now.
ServerOpensDump ==
    /\ Takes("write")
    /\ LET file == Head(queue).file IN
       \/ /\ writing' = file
          /\ dumpFile' = [dumpFile EXCEPT ![file] =
                [of |-> Head(queue).of, size |-> "small", state |-> "open"]]
       \/ UNCHANGED <<writing, dumpFile>>
    /\ UNCHANGED <<session, now, request, archive, loadFile, running>>

ServerWrites ==
    /\ writing # None
    /\ dumpFile[writing].size = "small"
    /\ dumpFile' = [dumpFile EXCEPT ![writing].size = "big"]
    /\ UNCHANGED <<now, request, archive, loadFile, serverVars>>

ServerClosesDump ==
    /\ writing # None
    /\ dumpFile[writing].size = "big"
    /\ dumpFile' = [dumpFile EXCEPT ![writing].state = "complete"]
    /\ writing' = None
    /\ UNCHANGED <<session, now, request, archive, loadFile, running, queue>>

\* pdump load reads the file, if it is there.
ServerLoads ==
    /\ Takes("load")
    /\ UNCHANGED <<now, request, archive, dumpFile, loadFile, running, writing, session>>

ServerStopsOrStarts ==
    /\ ServerStops
    /\ running' = ~running
    /\ queue' = << >>
    /\ dumpFile' = IF writing = None THEN dumpFile
                   ELSE [dumpFile EXCEPT ![writing].state = "cut"]
    /\ writing' = None
    /\ UNCHANGED <<session, now, request, archive, loadFile>>

Tick ==
    /\ now < MaxTime
    /\ now' = now + 1
    /\ UNCHANGED <<request, archive, dumpFile, loadFile, serverVars>>

-----------------------------------------------------------------------------

\* Some dumps are there already; the world server may run or not.
Init ==
    /\ session \in Sessions
    /\ now = 0
    /\ request = [r \in Requests |-> Blank("new")]
    /\ archive \in [Names -> Dump \cup {None}]
    /\ \A name \in Names : archive[name] # None =>
         archive[name] = [of |-> name[1], from |-> "server", state |-> "complete"]
    /\ dumpFile = [file \in TempNames |-> None]
    /\ loadFile = [time \in Times |-> None]
    /\ running \in BOOLEAN
    /\ queue = << >>
    /\ writing = None

Next ==
    \/ \E r \in Requests : HandleRequest(r)
    \/ ServerOpensDump
    \/ ServerWrites
    \/ ServerClosesDump
    \/ ServerLoads
    \/ ServerStopsOrStarts
    \/ Tick

Spec == Init /\ [][Next]_vars

\* A request that has begun runs to its end, whatever the world server does.
Fairness == \A r \in Requests : WF_vars(Continue(r))

FairSpec == Spec /\ Fairness

-----------------------------------------------------------------------------
(* Properties *)

\* However requests overlap, a backup filed under a character's name is a dump
\* of that character: the temporary files of two characters never meet.
BackupOfRightCharacter ==
    \A name \in Names :
        archive[name] # None /\ archive[name].from = "server" => archive[name].of = name[1]

\* No request waits for the world server for ever.
RequestEnds == \A r \in Requests : Active(r) ~> ~Active(r)

\* index.php:264 "Backup {$targetName} already exists.": an upload never replaces
\* a dump, as long as all requests come from one browser.
UploadNeverOverwrites ==
    [][\A r \in Requests :
         (\A other \in Requests : session[other] = session[r])
           /\ request[r].at = "move" /\ request'[r].at = "done"
             => archive[request[r].name] = None]_vars

\* index.php:375 "Backup {$filename} is being restored to account ...": the world
\* server loads the dump the request copied for it.
RestoredIsRequested ==
    [][queue # << >> /\ queue' = Tail(queue) /\ Head(queue).do = "load" /\ running'
         => loadFile[Head(queue).file] = Head(queue).wanted]_vars

\* index.php:337 "Character '{$charName}' was backed up successfully.": although a
\* request takes 50 bytes for a finished dump, no dump is filed that the world
\* server was still writing; only a stop of the server can cut a dump short.
BackedUpIsComplete ==
    \A name \in Names : archive[name] # None => archive[name].state # "open"
=============================================================================
