--------------------------- MODULE BackupAdminProofs ---------------------------
(***************************************************************************)
(* Theorems about BackupAdmin for any number of requests, browsers and     *)
(* characters, and for any times.                                          *)
(***************************************************************************)
EXTENDS BackupAdmin, TLAPS

-----------------------------------------------------------------------------
(* The inductive invariant *)

\* A temporary dump, and every command to write one, is named after its character.
NamedByCharacter ==
    /\ \A file \in TempNames : dumpFile[file] # None => dumpFile[file].of = file[1]
    /\ \A i \in 1..Len(queue) : queue[i].do = "write" => queue[i].of = queue[i].file[1]

\* The world server has exactly the unfinished dump open.
OpenPart ==
    /\ \A file \in TempNames :
         dumpFile[file] # None /\ dumpFile[file].state = "open" => writing = file
    /\ writing # None => dumpFile[writing] # None /\ dumpFile[writing].state = "open"

\* One browser has at most one request under way, and the name an upload is about to
\* take is free.
OneBrowser == \A r, other \in Requests : session[other] = session[r]

UploadPart ==
    OneBrowser =>
        /\ \A r, other \in Requests : Active(r) /\ Active(other) => r = other
        /\ \A r \in Requests : request[r].at = "move" => archive[request[r].name] = None

\* A request has a dump to move or load.
Ready(q) ==
    /\ q.at = "move" => q.dump # None /\ q.dump.from = "user" /\ q.dump.state = "complete"
    /\ q.at = "send_load" => q.dump # None

RequestsReady == \A r \in Requests : Ready(request[r])

IInv ==
    /\ TypeOK
    /\ RequestsReady
    /\ NamedByCharacter
    /\ OpenPart
    /\ BackupOfRightCharacter
    /\ BackedUpIsComplete
    /\ UploadPart

LEMMA NamesFacts ==
    ASSUME NEW c \in Characters, NEW time \in Times
    PROVE  <<c, Minute(time)>> \in Names /\ <<c, time>> \in TempNames
  BY DEF Names, TempNames

LEMMA BlankFacts ==
    ASSUME NEW step \in Steps
    PROVE  Blank(step) \in Request /\ Blank(step).at = step
<1>1. (CHOOSE c \in Characters : TRUE) \in Characters
  BY CharacterAssumption
<1>2. 0 \in Times
  BY TimeAssumption DEF Times
<1>3. (CHOOSE name \in Names : TRUE) \in Names
  BY <1>1, <1>2, NamesFacts
<1> QED
  BY <1>1, <1>2, <1>3, TimeAssumption DEF Blank, Request

LEMMA InitIInv == Init => IInv
<1> SUFFICES ASSUME Init PROVE IInv
  OBVIOUS
<1>2. 0 \in Times
  BY TimeAssumption DEF Times
<1>3. Blank("new") \in Request /\ Blank("new").at = "new"
  BY BlankFacts DEF Steps
<1>4. request \in [Requests -> Request]
  BY <1>3 DEF Init
<1>5. archive \in [Names -> Dump \cup {None}]
  BY DEF Init
<1>6. TypeOK
  BY <1>2, <1>4, <1>5 DEF Init, TypeOK
<1>7. NamedByCharacter /\ OpenPart
  BY DEF Init, NamedByCharacter, OpenPart
<1>8. BackupOfRightCharacter /\ BackedUpIsComplete
  BY DEF Init, BackupOfRightCharacter, BackedUpIsComplete
<1>9. UploadPart
  BY <1>3 DEF Init, UploadPart, Active
<1>10. RequestsReady
  BY <1>3 DEF Init, RequestsReady, Ready
<1> QED
  BY <1>6, <1>7, <1>8, <1>9, <1>10 DEF IInv

-----------------------------------------------------------------------------
(* Requests *)

\* A step of one request leaves the uploads of the browser in order, if what it is
\* about to move has a free name.
LEMMA RequestKeepsUploads ==
    ASSUME IInv, NEW r \in Requests, Active(r) \/ Begins(r), UNCHANGED session,
           \A other \in Requests \ {r} : request'[other] = request[other],
           OneBrowser /\ request'[r].at = "move" => archive'[request'[r].name] = None
    PROVE  UploadPart'
<1> SUFFICES ASSUME OneBrowser
             PROVE  /\ \A a, b \in Requests : Active(a)' /\ Active(b)' => a = b
                    /\ \A a \in Requests :
                         request'[a].at = "move" => archive'[request'[a].name] = None
  BY DEF UploadPart, OneBrowser
<1>1. ASSUME NEW other \in Requests \ {r}  PROVE ~Active(other)
  BY DEF IInv, UploadPart, Begins, OneBrowser
<1>2. ASSUME NEW a \in Requests, Active(a)'  PROVE a = r
  BY <1>1, <1>2 DEF Active
<1>3. ASSUME NEW a \in Requests, request'[a].at = "move"  PROVE a = r
  BY <1>1, <1>3 DEF Active
<1> QED
  BY <1>2, <1>3

\* A step that touches neither dumps nor commands.
LEMMA DumpsKept ==
    ASSUME IInv, UNCHANGED <<archive, dumpFile, queue, writing>>
    PROVE  NamedByCharacter' /\ OpenPart' /\ BackupOfRightCharacter' /\ BackedUpIsComplete'
  BY DEF IInv, NamedByCharacter, OpenPart, BackupOfRightCharacter, BackedUpIsComplete

\* What a request may turn into.
Becomes(r, after) ==
    /\ after \in Request
    /\ Ready(after)
    /\ request' = [request EXCEPT ![r] = after]

LEMMA BecomesFacts ==
    ASSUME TypeOK, RequestsReady, NEW r \in Requests, NEW after, Becomes(r, after)
    PROVE  /\ request' \in [Requests -> Request]
           /\ RequestsReady'
           /\ request'[r] = after
           /\ \A other \in Requests \ {r} : request'[other] = request[other]
  BY DEF TypeOK, Becomes, RequestsReady, Ready

LEMMA EndsBecomes ==
    ASSUME NEW r \in Requests, NEW step \in {"done", "failed"}, Ends(r, step)
    PROVE  \E after : Becomes(r, after) /\ after.at = step
  BY BlankFacts DEF Ends, Becomes, Ready, Steps

LEMMA BeginsBecomes ==
    ASSUME IInv, NEW r \in Requests, CreateBackup(r) \/ RestoreBackup(r) \/ Upload(r)
    PROVE  \E after : Becomes(r, after)
                        /\ (after.at = "move" => archive[after.name] = None)
<1>1. CASE CreateBackup(r)
  <2>1. CASE Ends(r, "failed")
    BY <2>1, EndsBecomes
  <2>2. CASE ~Ends(r, "failed")
    <3> PICK c \in Characters :
          request' = [request EXCEPT ![r].at = "send_write", ![r].char = c, ![r].time = now]
      BY <1>1, <2>2 DEF CreateBackup
    <3> DEFINE after == [request[r] EXCEPT !.at = "send_write", !.char = c, !.time = now]
    <3>1. request' = [request EXCEPT ![r] = after]
      BY DEF IInv, TypeOK
    <3>2. after \in Request /\ after.at = "send_write"
      BY DEF IInv, TypeOK, Request, Steps
    <3> HIDE DEF after
    <3> QED
      BY <3>1, <3>2 DEF Becomes, Ready
  <2> QED
    BY <2>1, <2>2
<1>2. CASE RestoreBackup(r)
  <2>1. CASE Ends(r, "failed")
    BY <2>1, EndsBecomes
  <2>2. CASE ~Ends(r, "failed")
    <3> PICK name \in Names :
          request' = [request EXCEPT ![r].at = "glob", ![r].name = name]
      BY <1>2, <2>2 DEF RestoreBackup
    <3> DEFINE after == [request[r] EXCEPT !.at = "glob", !.name = name]
    <3>1. request' = [request EXCEPT ![r] = after]
      BY DEF IInv, TypeOK
    <3>2. after \in Request /\ after.at = "glob"
      BY DEF IInv, TypeOK, Request, Steps
    <3> HIDE DEF after
    <3> QED
      BY <3>1, <3>2 DEF Becomes, Ready
  <2> QED
    BY <2>1, <2>2
<1>3. CASE Upload(r)
  <2>1. CASE Ends(r, "failed")
    BY <2>1, EndsBecomes
  <2>2. CASE ~Ends(r, "failed")
    <3> PICK name \in Names, c \in Characters :
          /\ archive[name] = None
          /\ request' = [request EXCEPT
               ![r].name = name,
               ![r].dump = [of |-> c, from |-> "user", state |-> "complete"],
               ![r].at = "move"]
      BY <1>3, <2>2 DEF Upload
    <3> DEFINE dump == [of |-> c, from |-> "user", state |-> "complete"]
               after == [request[r] EXCEPT !.name = name, !.dump = dump, !.at = "move"]
    <3>1. dump \in Dump /\ dump # None /\ dump.from = "user" /\ dump.state = "complete"
      BY NilAssumption DEF Dump, States
    <3> HIDE DEF dump
    <3>2. request' = [request EXCEPT ![r] = after]
      BY DEF IInv, TypeOK, dump
    <3>3. request[r] \in Request
      BY DEF IInv, TypeOK
    <3>4. after \in Request /\ after.at = "move" /\ after.name = name /\ after.dump = dump
      BY <3>1, <3>3 DEF Request, Steps
    <3> HIDE DEF after
    <3> QED
      BY <3>1, <3>2, <3>4 DEF Becomes, Ready
  <2> QED
    BY <2>1, <2>2
<1> QED
  BY <1>1, <1>2, <1>3

\* A request that only moves on, and perhaps changes the files of the restores.
LEMMA MovesOnIInv ==
    ASSUME IInv, NEW r \in Requests, Active(r) \/ Begins(r),
           NEW after, Becomes(r, after),
           OneBrowser /\ after.at = "move" => archive'[after.name] = None,
           UNCHANGED <<session, now, archive, dumpFile, running, queue, writing>>,
           loadFile' \in [Times -> Dump \cup {None}]
    PROVE  IInv'
<1>1. TypeOK' /\ RequestsReady'
  BY BecomesFacts DEF IInv, TypeOK
<1>2. UploadPart'
  BY BecomesFacts, RequestKeepsUploads DEF IInv
<1> QED
  BY <1>1, <1>2, DumpsKept DEF IInv

LEMMA BeginsIInv ==
    ASSUME IInv, NEW r \in Requests, CreateBackup(r) \/ RestoreBackup(r) \/ Upload(r)
    PROVE  IInv'
<1>1. Begins(r) /\ UNCHANGED <<now, archive, dumpFile, loadFile, serverVars>>
  BY DEF CreateBackup, RestoreBackup, Upload
<1>2. PICK after : Becomes(r, after) /\ (after.at = "move" => archive[after.name] = None)
  BY BeginsBecomes
<1> QED
  BY <1>1, <1>2, MovesOnIInv DEF serverVars, IInv, TypeOK

LEMMA PollBecomes ==
    ASSUME IInv, NEW r \in Requests, Poll(r)
    PROVE  \E after : Becomes(r, after) /\ after.at # "move"
<1>1. request[r] \in Request
  BY DEF IInv, TypeOK
<1>2. CASE Ends(r, "failed")
  BY <1>2, EndsBecomes
<1>3. CASE Goes(r, "rename")
  <2> DEFINE after == [request[r] EXCEPT !.at = "rename"]
  <2>1. request' = [request EXCEPT ![r] = after]
    BY <1>3 DEF Goes, IInv, TypeOK
  <2>2. after \in Request /\ after.at = "rename"
    BY <1>1 DEF Request, Steps
  <2> HIDE DEF after
  <2> QED
    BY <2>1, <2>2 DEF Becomes, Ready
<1>4. CASE ~Ends(r, "failed") /\ ~Goes(r, "rename")
  <2> DEFINE seen == Seen(r)
             polls == request[r].polls + 1
             after == [request[r] EXCEPT !.size = seen, !.polls = polls]
  <2>1. request[r].at = "poll" /\ request' = [request EXCEPT ![r] = after]
    BY <1>4 DEF Poll, IInv, TypeOK
  <2>2. polls \in 0..MaxPolls - 1
    BY <1>1, <1>4, TimeAssumption DEF Poll, Request
  <2>3. TempName(r) \in TempNames
    BY <1>1 DEF TempName, TempNames, Request
  <2>4. seen \in Size \cup {None}
    BY <1>1, <2>3 DEF Seen, SizeSeen, Request, IInv, TypeOK, Written
  <2> HIDE DEF seen, polls
  <2>5. after \in Request /\ after.at = request[r].at
    BY <1>1, <2>2, <2>4 DEF Request
  <2> HIDE DEF after
  <2> QED
    BY <2>1, <2>5 DEF Becomes, Ready
<1> QED
  BY <1>2, <1>3, <1>4

\* SendWrite names the file after the character whose dump it asks for.
LEMMA SendWriteIInv ==
    ASSUME IInv, NEW r \in Requests, SendWrite(r)
    PROVE  IInv'
<1>1. Active(r)
  BY DEF SendWrite, Active
<1>2. CASE Ends(r, "failed") /\ UNCHANGED queue
  BY <1>1, <1>2, EndsBecomes, MovesOnIInv DEF SendWrite, IInv, TypeOK
<1>3. CASE ~(Ends(r, "failed") /\ UNCHANGED queue)
  <2> DEFINE command == [do |-> "write", of |-> request[r].char, file |-> TempName(r)]
             after == [request[r] EXCEPT !.at = "poll"]
  <2>1. request[r] \in Request
    BY DEF IInv, TypeOK
  <2>2. TempName(r) \in TempNames /\ request[r].char \in Characters
        /\ TempName(r)[1] = request[r].char
    BY <2>1 DEF TempName, TempNames, Request
  <2>3. command \in Command /\ command.of = command.file[1]
    BY <2>2 DEF Command
  <2>4. queue' = Append(queue, command)
    BY <1>3 DEF SendWrite
  <2>5. request' = [request EXCEPT ![r] = after]
    BY <1>3 DEF SendWrite, Goes, IInv, TypeOK
  <2>6. after \in Request /\ after.at = "poll"
    BY <2>1 DEF Request, Steps
  <2> HIDE DEF command, after
  <2>7. Becomes(r, after)
    BY <2>5, <2>6 DEF Becomes, Ready
  <2>8. UNCHANGED <<now, archive, dumpFile, loadFile, running, writing, session>>
    BY DEF SendWrite
  <2>9. TypeOK' /\ RequestsReady'
    BY <2>3, <2>4, <2>7, <2>8, BecomesFacts DEF IInv, TypeOK
  <2>10. UploadPart'
    BY <1>1, <2>6, <2>7, <2>8, BecomesFacts, RequestKeepsUploads DEF IInv
  <2>11. NamedByCharacter'
    BY <2>3, <2>4, <2>8 DEF IInv, TypeOK, NamedByCharacter
  <2> QED
    BY <2>8, <2>9, <2>10, <2>11 DEF IInv, OpenPart, BackupOfRightCharacter, BackedUpIsComplete
<1> QED
  BY <1>2, <1>3

\* The file that is filed is closed, and is a dump of the request's character.
LEMMA RenameDumpIInv ==
    ASSUME IInv, NEW r \in Requests, RenameDump(r)
    PROVE  IInv'
<1>1. Active(r)
  BY DEF RenameDump, Active
<1>2. CASE Ends(r, "failed") /\ UNCHANGED <<archive, dumpFile>>
  <2>1. UNCHANGED <<session, now, archive, dumpFile, running, queue, writing, loadFile>>
    BY <1>2 DEF RenameDump, serverVars
  <2>2. PICK after : Becomes(r, after) /\ after.at = "failed"
    BY <1>2, EndsBecomes
  <2> QED
    BY <1>1, <2>1, <2>2, MovesOnIInv DEF IInv, TypeOK
<1>3. CASE ~(Ends(r, "failed") /\ UNCHANGED <<archive, dumpFile>>)
  <2> DEFINE name == <<request[r].char, Minute(now)>>
             file == TempName(r)
             dump == [of |-> dumpFile[file].of, from |-> "server", state |-> dumpFile[file].state]
  <2>1. /\ dumpFile[file] # None /\ writing # file
        /\ archive' = [archive EXCEPT ![name] = dump]
        /\ dumpFile' = [dumpFile EXCEPT ![file] = None]
        /\ Ends(r, "done")
        /\ UNCHANGED <<session, now, loadFile, running, queue, writing>>
    BY <1>3 DEF RenameDump, serverVars
  <2>2. /\ request[r].char \in Characters /\ name \in Names /\ file \in TempNames
        /\ name[1] = request[r].char /\ file[1] = request[r].char
    BY NamesFacts DEF IInv, TypeOK, Request, TempName
  <2>3. dumpFile[file] \in Written /\ dumpFile[file].of = file[1] /\ dumpFile[file].state # "open"
    BY <2>1, <2>2 DEF IInv, TypeOK, NamedByCharacter, OpenPart
  <2>4. /\ dump \in Dump
        /\ dump.of = name[1] /\ dump.state # "open"
    BY <2>2, <2>3 DEF Dump, Written
  <2>5. PICK after : Becomes(r, after) /\ after.at = "done"
    BY <2>1, EndsBecomes
  <2> HIDE DEF name, file, dump
  <2>6. TypeOK' /\ RequestsReady'
    BY <2>1, <2>2, <2>4, <2>5, BecomesFacts DEF IInv, TypeOK
  <2>7. NamedByCharacter' /\ OpenPart'
    BY <2>1, <2>2 DEF IInv, TypeOK, NamedByCharacter, OpenPart
  <2>8. BackupOfRightCharacter' /\ BackedUpIsComplete'
    BY <2>1, <2>2, <2>4 DEF IInv, TypeOK, BackupOfRightCharacter, BackedUpIsComplete
  <2>9. UploadPart'
    BY <1>1, <2>1, <2>5, BecomesFacts, RequestKeepsUploads DEF IInv
  <2> QED
    BY <2>6, <2>7, <2>8, <2>9 DEF IInv
<1> QED
  BY <1>2, <1>3

\* A complete upload takes the name, and a deletion frees it.
LEMMA FilesIInv ==
    ASSUME IInv, NEW r \in Requests, Active(r) \/ Begins(r), Ends(r, "done"),
           NEW name \in Names, NEW dump \in Dump \cup {None},
           dump # None => dump.from = "user" /\ dump.state = "complete",
           archive' = [archive EXCEPT ![name] = dump],
           UNCHANGED <<now, dumpFile, loadFile, serverVars>>
    PROVE  IInv'
<1>1. PICK after : Becomes(r, after) /\ after.at = "done"
  BY EndsBecomes
<1>2. TypeOK' /\ RequestsReady'
  BY <1>1, BecomesFacts DEF IInv, TypeOK, serverVars
<1>3. BackupOfRightCharacter' /\ BackedUpIsComplete'
  BY DEF IInv, TypeOK, BackupOfRightCharacter, BackedUpIsComplete
<1>4. NamedByCharacter' /\ OpenPart'
  BY DEF IInv, NamedByCharacter, OpenPart, serverVars
<1>5. UploadPart'
  BY <1>1, BecomesFacts, RequestKeepsUploads DEF IInv, serverVars
<1> QED
  BY <1>2, <1>3, <1>4, <1>5 DEF IInv

LEMMA CopyDumpIInv ==
    ASSUME IInv, NEW r \in Requests, CopyDump(r)
    PROVE  IInv'
<1> DEFINE dump == archive[request[r].name]
<1>1. Active(r) /\ UNCHANGED <<session, now, archive, dumpFile, running, queue, writing>>
  BY DEF CopyDump, Active, serverVars
<1>2. CASE Ends(r, "failed") /\ UNCHANGED loadFile
  BY <1>1, <1>2, EndsBecomes, MovesOnIInv DEF CopyDump, IInv, TypeOK
<1>3. CASE ~(Ends(r, "failed") /\ UNCHANGED loadFile)
  <2> DEFINE after == [request[r] EXCEPT !.at = "send_load", !.time = now, !.dump = dump]
  <2>1. dump \in Dump /\ dump # None /\ now \in Times
    BY <1>3 DEF CopyDump, IInv, TypeOK, Request
  <2>2. request' = [request EXCEPT ![r] = after] /\ loadFile' = [loadFile EXCEPT ![now] = dump]
    BY <1>3 DEF CopyDump, IInv, TypeOK
  <2> HIDE DEF dump
  <2>3. after \in Request /\ after.at = "send_load" /\ after.dump = dump
    BY <2>1 DEF IInv, TypeOK, Request, Steps
  <2> HIDE DEF after
  <2>4. Becomes(r, after)
    BY <2>1, <2>2, <2>3 DEF Becomes, Ready
  <2>5. loadFile' \in [Times -> Dump \cup {None}]
    BY <2>1, <2>2 DEF IInv, TypeOK
  <2> QED
    BY <1>1, <2>3, <2>4, <2>5, MovesOnIInv
<1> QED
  BY <1>2, <1>3

LEMMA SendLoadIInv ==
    ASSUME IInv, NEW r \in Requests, SendLoad(r)
    PROVE  IInv'
<1>1. Active(r) /\ UNCHANGED <<session, now, archive, dumpFile, running, writing>>
  BY DEF SendLoad, Active
<1>2. request[r].time \in Times /\ request[r].dump \in Dump
  BY DEF SendLoad, IInv, TypeOK, Request, RequestsReady, Ready
<1>3. CASE Ends(r, "failed") /\ UNCHANGED queue
  <2>1. loadFile' \in [Times -> Dump \cup {None}]
    BY <1>2 DEF SendLoad, IInv, TypeOK
  <2>2. PICK after : Becomes(r, after) /\ after.at = "failed"
    BY <1>3, EndsBecomes
  <2>3. UNCHANGED queue
    BY <1>3
  <2> QED
    BY <1>1, <2>1, <2>2, <2>3, MovesOnIInv
<1>4. CASE ~(Ends(r, "failed") /\ UNCHANGED queue)
  <2> DEFINE command == [do |-> "load", file |-> request[r].time, wanted |-> request[r].dump]
             after == [request[r] EXCEPT !.at = "sent"]
  <2>1. command \in Command /\ command.do # "write"
    BY <1>2 DEF Command
  <2>2. queue' = Append(queue, command) /\ UNCHANGED loadFile
    BY <1>4 DEF SendLoad
  <2> HIDE DEF command
  <2>7. request' = [request EXCEPT ![r] = after]
    BY <1>4 DEF SendLoad, Goes, IInv, TypeOK
  <2>8. after \in Request /\ after.at = "sent"
    BY DEF IInv, TypeOK, Request, Steps
  <2> HIDE DEF after
  <2>3. Becomes(r, after)
    BY <2>7, <2>8 DEF Becomes, Ready
  <2>4. TypeOK' /\ RequestsReady'
    BY <1>1, <2>1, <2>2, <2>3, BecomesFacts DEF IInv, TypeOK
  <2>5. UploadPart'
    BY <1>1, <2>3, <2>8, BecomesFacts, RequestKeepsUploads DEF IInv
  <2>6. NamedByCharacter'
    BY <1>1, <2>1, <2>2 DEF IInv, TypeOK, NamedByCharacter
  <2> QED
    BY <1>1, <2>4, <2>5, <2>6 DEF IInv, OpenPart, BackupOfRightCharacter, BackedUpIsComplete
<1> QED
  BY <1>3, <1>4

\* Looking for left-over files and deleting one leave fewer of them to delete.
LEMMA CleanBecomes ==
    ASSUME IInv, NEW r \in Requests, ListLoadFiles(r) \/ UnlinkLoadFile(r)
    PROVE  \E after : Becomes(r, after) /\ after.at # "move"
<1>1. PICK old \in SUBSET Times :
        request' = [request EXCEPT ![r].old = old, ![r].at = AfterUnlinks(old)]
  <2>1. CASE ListLoadFiles(r)
    BY <2>1 DEF ListLoadFiles
  <2>2. CASE UnlinkLoadFile(r)
    <3>1. PICK time \in request[r].old :
            request' = [request EXCEPT
              ![r].old = @ \ {time}, ![r].at = AfterUnlinks(request[r].old \ {time})]
      BY <2>2 DEF UnlinkLoadFile
    <3>2. request[r].old \ {time} \in SUBSET Times
      BY DEF IInv, TypeOK, Request
    <3> QED
      BY <3>1, <3>2
  <2> QED
    BY <2>1, <2>2
<1> DEFINE step == AfterUnlinks(old)
           after == [request[r] EXCEPT !.old = old, !.at = step]
<1>2. step \in {"copy", "unlink"}
  BY DEF AfterUnlinks
<1>3. request' = [request EXCEPT ![r] = after]
  BY <1>1 DEF IInv, TypeOK
<1> HIDE DEF step
<1>4. after \in Request /\ after.at = step
  BY <1>2 DEF IInv, TypeOK, Request, Steps
<1> HIDE DEF after
<1> QED
  BY <1>2, <1>3, <1>4 DEF Becomes, Ready

LEMMA HandleRequestIInv ==
    ASSUME IInv, NEW r \in Requests, HandleRequest(r)
    PROVE  IInv'
<1>1. CASE CreateBackup(r) \/ RestoreBackup(r) \/ Upload(r)
  BY <1>1, BeginsIInv
<1>2. CASE SendWrite(r)
  BY <1>2, SendWriteIInv
<1>3. CASE Poll(r)
  <2>1. Active(r) /\ UNCHANGED <<now, archive, dumpFile, loadFile, serverVars>>
    BY <1>3 DEF Poll, Active
  <2>2. PICK after : Becomes(r, after) /\ after.at # "move"
    BY <1>3, PollBecomes
  <2> QED
    BY <2>1, <2>2, MovesOnIInv DEF serverVars, IInv, TypeOK
<1>4. CASE RenameDump(r)
  BY <1>4, RenameDumpIInv
<1>5. CASE ListLoadFiles(r) \/ UnlinkLoadFile(r)
  <2>1. /\ Active(r) /\ UNCHANGED <<now, archive, dumpFile, serverVars>>
        /\ loadFile' \in [Times -> Dump \cup {None}]
    BY <1>5 DEF ListLoadFiles, UnlinkLoadFile, Active, IInv, TypeOK
  <2>2. PICK after : Becomes(r, after) /\ after.at # "move"
    BY <1>5, CleanBecomes
  <2> QED
    BY <2>1, <2>2, MovesOnIInv DEF serverVars
<1>6. CASE CopyDump(r)
  BY <1>6, CopyDumpIInv
<1>7. CASE SendLoad(r)
  BY <1>7, SendLoadIInv
<1>8. CASE MoveUpload(r)
  <2>2. CASE Ends(r, "failed") /\ UNCHANGED archive
    <3>1. Active(r) /\ UNCHANGED <<now, archive, dumpFile, loadFile, serverVars>>
      BY <1>8, <2>2 DEF MoveUpload, Active
    <3>2. PICK after : Becomes(r, after) /\ after.at = "failed"
      BY <2>2, EndsBecomes
    <3> QED
      BY <3>1, <3>2, MovesOnIInv DEF serverVars, IInv, TypeOK
  <2>1. /\ request[r].name \in Names /\ request[r].dump \in Dump \cup {None}
        /\ request[r].dump.from = "user" /\ request[r].dump.state = "complete"
        /\ Active(r)
    BY <1>8 DEF MoveUpload, Active, IInv, TypeOK, Request, RequestsReady, Ready
  <2> QED
    BY <1>8, <2>1, <2>2, FilesIInv DEF MoveUpload
<1>9. CASE DeleteDump(r)
  <2>1. CASE UNCHANGED archive
    <3>1. PICK after : Becomes(r, after) /\ after.at = "done"
      BY <1>9, EndsBecomes DEF DeleteDump
    <3> QED
      BY <1>9, <2>1, <3>1, MovesOnIInv DEF DeleteDump, serverVars, IInv, TypeOK
  <2>2. CASE archive' # archive
    BY <1>9, <2>2, FilesIInv DEF DeleteDump
  <2> QED
    BY <2>1, <2>2
<1>10. CASE EndRestore(r)
  <2>1. Active(r) /\ UNCHANGED <<now, archive, dumpFile, loadFile, serverVars>>
    BY <1>10 DEF EndRestore, Active
  <2>2. PICK after : Becomes(r, after) /\ after.at = "done"
    BY <1>10, EndsBecomes DEF EndRestore
  <2> QED
    BY <2>1, <2>2, MovesOnIInv DEF serverVars, IInv, TypeOK
<1> QED
  BY <1>1, <1>2, <1>3, <1>4, <1>5, <1>6, <1>7, <1>8, <1>9, <1>10 DEF HandleRequest, Continue

-----------------------------------------------------------------------------
(* The world server and the clock *)

\* The archive and the requests are out of the world server's reach.
LEMMA ServerKeepsArchive ==
    ASSUME IInv, UNCHANGED <<session, request, archive>>
    PROVE  RequestsReady' /\ BackupOfRightCharacter' /\ BackedUpIsComplete' /\ UploadPart'
  BY DEF IInv, RequestsReady, BackupOfRightCharacter, BackedUpIsComplete, UploadPart,
    OneBrowser, Active

LEMMA TakesFacts ==
    ASSUME IInv, NEW command, Takes(command)
    PROVE  /\ Head(queue) \in Command
           /\ queue' \in Seq(Command)
           /\ \A i \in 1..Len(queue') : queue'[i].do = "write" => queue'[i].of = queue'[i].file[1]
           /\ Head(queue).do = "write" =>
                Head(queue).file \in TempNames /\ Head(queue).of = Head(queue).file[1]
                /\ Head(queue).of \in Characters
<1>1. queue \in Seq(Command) /\ queue # << >> /\ queue' = Tail(queue)
  BY DEF Takes, IInv, TypeOK
<1>2. Head(queue) \in Command /\ Head(queue) = queue[1] /\ 1 \in 1..Len(queue)
  BY <1>1
<1>3. queue' \in Seq(Command) /\ Len(queue') = Len(queue) - 1
      /\ \A i \in 1..Len(queue') : queue'[i] = queue[i + 1] /\ i + 1 \in 1..Len(queue)
  BY <1>1
<1>4. Head(queue).do = "write" => Head(queue).file \in TempNames /\ Head(queue).of \in Characters
  BY <1>2 DEF Command
<1> QED
  BY <1>2, <1>3, <1>4 DEF IInv, NamedByCharacter

LEMMA ServerOpensIInv ==
    ASSUME IInv, ServerOpensDump
    PROVE  IInv'
<1> DEFINE file == Head(queue).file
           opened == [of |-> Head(queue).of, size |-> "small", state |-> "open"]
<1>1. /\ Head(queue).do = "write" /\ writing = None
      /\ UNCHANGED <<session, now, request, archive, loadFile, running>>
      /\ \/ writing' = file /\ dumpFile' = [dumpFile EXCEPT ![file] = opened]
         \/ UNCHANGED <<writing, dumpFile>>
  BY DEF ServerOpensDump, Takes
<1>2. /\ queue' \in Seq(Command)
      /\ \A i \in 1..Len(queue') : queue'[i].do = "write" => queue'[i].of = queue'[i].file[1]
      /\ file \in TempNames /\ Head(queue).of = file[1] /\ Head(queue).of \in Characters
  BY <1>1, TakesFacts DEF ServerOpensDump
<1>3. opened \in Written /\ opened.of = file[1]
  BY <1>2 DEF Written, Size, States
<1> HIDE DEF file, opened
<1>4. TypeOK'
  BY <1>1, <1>2, <1>3 DEF IInv, TypeOK
<1>5. opened # None /\ opened.state = "open"
  BY <1>3, NilAssumption DEF opened
<1>6. NamedByCharacter'
  BY <1>1, <1>2, <1>3 DEF IInv, TypeOK, NamedByCharacter
<1>7. OpenPart'
  BY <1>1, <1>2, <1>5, NilAssumption DEF IInv, TypeOK, OpenPart
<1> QED
  BY <1>1, <1>4, <1>6, <1>7, ServerKeepsArchive DEF IInv

\* The server goes on with the file it has open, or leaves it.
LEMMA WritingIInv ==
    ASSUME IInv, writing # None, NEW after \in Written,
           dumpFile' = [dumpFile EXCEPT ![writing] = after],
           after.of = dumpFile[writing].of,
           \/ UNCHANGED writing /\ after.state = "open"
           \/ writing' = None /\ after.state # "open",
           queue' \in {queue, << >>}, running' \in BOOLEAN,
           UNCHANGED <<session, now, request, archive, loadFile>>
    PROVE  IInv'
<1>1. writing \in TempNames
  BY DEF IInv, TypeOK
<1>2. TypeOK'
  <2>1. queue' \in Seq(Command)
    <3>1. << >> \in Seq(Command) /\ queue \in Seq(Command)
      BY DEF IInv, TypeOK
    <3> QED
      BY <3>1
  <2>2. dumpFile' \in [TempNames -> Written \cup {None}] /\ writing' \in TempNames \cup {None}
    BY <1>1 DEF IInv, TypeOK
  <2> QED
    BY <2>1, <2>2 DEF IInv, TypeOK
<1>3. NamedByCharacter'
  BY <1>1 DEF IInv, TypeOK, NamedByCharacter, OpenPart
<1>4. OpenPart'
  BY <1>1, NilAssumption DEF IInv, TypeOK, OpenPart
<1> QED
  BY <1>2, <1>3, <1>4, ServerKeepsArchive DEF IInv

LEMMA NextIInv == IInv /\ [Next]_vars => IInv'
<1> SUFFICES ASSUME IInv, [Next]_vars
             PROVE  IInv'
  OBVIOUS
<1>1. ASSUME NEW r \in Requests, HandleRequest(r)  PROVE IInv'
  BY <1>1, HandleRequestIInv
<1>2. CASE ServerOpensDump
  BY <1>2, ServerOpensIInv
<1>4. CASE ServerWrites
  <2> DEFINE after == [dumpFile[writing] EXCEPT !.size = "big"]
  <2>1. writing \in TempNames /\ dumpFile[writing] \in Written /\ dumpFile[writing].state = "open"
    BY <1>4 DEF ServerWrites, IInv, TypeOK, OpenPart
  <2>2. dumpFile' = [dumpFile EXCEPT ![writing] = after]
    BY <1>4, <2>1 DEF ServerWrites, IInv, TypeOK
  <2>3. after \in Written /\ after.of = dumpFile[writing].of /\ after.state = "open"
    BY <2>1 DEF Written, Size
  <2> HIDE DEF after
  <2> QED
    BY <1>4, <2>2, <2>3, WritingIInv DEF ServerWrites, serverVars, IInv, TypeOK
<1>5. ASSUME NEW state \in {"complete", "cut"}, writing # None, writing' = None,
             dumpFile' = [dumpFile EXCEPT ![writing].state = state],
             queue' \in {queue, << >>}, running' \in BOOLEAN,
             UNCHANGED <<session, now, request, archive, loadFile>>
      PROVE  IInv'
  <2> DEFINE after == [dumpFile[writing] EXCEPT !.state = state]
  <2>1. writing \in TempNames /\ dumpFile[writing] \in Written
    BY <1>5 DEF IInv, TypeOK, OpenPart
  <2>2. dumpFile' = [dumpFile EXCEPT ![writing] = after]
    BY <1>5, <2>1 DEF IInv, TypeOK
  <2>3. after \in Written /\ after.of = dumpFile[writing].of /\ after.state # "open"
    BY <2>1 DEF Written, States
  <2> HIDE DEF after
  <2> QED
    BY <1>5, <2>2, <2>3, WritingIInv
<1>6. CASE ServerClosesDump
  BY <1>5, <1>6 DEF ServerClosesDump, IInv, TypeOK
<1>7. CASE ServerLoads
  <2>1. /\ queue' \in Seq(Command)
        /\ \A i \in 1..Len(queue') : queue'[i].do = "write" => queue'[i].of = queue'[i].file[1]
    BY <1>7, TakesFacts DEF ServerLoads
  <2>2. UNCHANGED <<now, request, archive, dumpFile, loadFile, running, writing, session>>
    BY <1>7 DEF ServerLoads
  <2>3. TypeOK' /\ NamedByCharacter' /\ OpenPart'
    BY <2>1, <2>2 DEF IInv, TypeOK, NamedByCharacter, OpenPart
  <2> QED
    BY <2>2, <2>3, ServerKeepsArchive DEF IInv
<1>8. CASE ServerStopsOrStarts
  <2>1. CASE writing # None
    BY <1>5, <1>8, <2>1 DEF ServerStopsOrStarts
  <2>2. CASE writing = None
    <3>1. /\ UNCHANGED <<session, now, request, archive, dumpFile, loadFile, writing>>
          /\ queue' = << >> /\ running' \in BOOLEAN
      BY <1>8, <2>2 DEF ServerStopsOrStarts
    <3>2. TypeOK' /\ NamedByCharacter' /\ OpenPart'
      BY <3>1 DEF IInv, TypeOK, NamedByCharacter, OpenPart
    <3> QED
      BY <3>1, <3>2, ServerKeepsArchive DEF IInv
  <2> QED
    BY <2>1, <2>2
<1>9. CASE Tick \/ UNCHANGED vars
  <2>1. /\ UNCHANGED <<request, archive, dumpFile, loadFile, serverVars>>
        /\ now' \in Times
    BY <1>9, TimeAssumption DEF Tick, vars, IInv, TypeOK, Times, serverVars
  <2>2. TypeOK' /\ NamedByCharacter' /\ OpenPart'
    BY <2>1 DEF IInv, TypeOK, NamedByCharacter, OpenPart, serverVars
  <2> QED
    BY <2>1, <2>2, ServerKeepsArchive DEF IInv, serverVars
<1> QED
  BY <1>1, <1>2, <1>4, <1>6, <1>7, <1>8, <1>9 DEF Next

LEMMA AlwaysIInv == Spec => []IInv
  BY InitIInv, NextIInv, PTL DEF Spec

-----------------------------------------------------------------------------

\* The requests, the files and the commands keep their types.
THEOREM TypeCorrect == Spec => []TypeOK
<1>1. IInv => TypeOK
  BY DEF IInv
<1> QED
  BY <1>1, AlwaysIInv, PTL

\* However many requests overlap, a backup made by the server is filed under the
\* character it is a dump of.
THEOREM BackupsOfRightCharacter == Spec => []BackupOfRightCharacter
<1>1. IInv => BackupOfRightCharacter
  BY DEF IInv
<1> QED
  BY <1>1, AlwaysIInv, PTL

\* No dump is filed while the world server still writes it.
THEOREM BackedUpAlwaysClosed == Spec => []BackedUpIsComplete
<1>1. IInv => BackedUpIsComplete
  BY DEF IInv
<1> QED
  BY <1>1, AlwaysIInv, PTL

\* With one browser an upload never replaces a dump.
THEOREM UploadsNeverOverwrite == Spec => UploadNeverOverwrites
<1>1. ASSUME IInv
      PROVE  \A r \in Requests :
               (\A other \in Requests : session[other] = session[r])
                 /\ request[r].at = "move" /\ request'[r].at = "done"
                   => archive[request[r].name] = None
  BY <1>1 DEF IInv, UploadPart, OneBrowser
<1> QED
  BY <1>1, AlwaysIInv, PTL DEF UploadNeverOverwrites
=============================================================================
