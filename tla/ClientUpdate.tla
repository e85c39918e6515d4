---------------------------- MODULE ClientUpdate ----------------------------
(***************************************************************************)
(* How a client gets a new program: process_version and decompress in the  *)
(* client, process_message_version in the proxy, and shp_client.sh, which  *)
(* starts the client over and over and installs new_binary before it does. *)
(*                                                                         *)
(* The proxy's directory is filled by an operator, who is external: a file *)
(* <r>.gz holds the program of revision r as a zlib stream.                *)
(***************************************************************************)
EXTENDS Integers, FiniteSets

CONSTANTS MaxRevision,      \* revisions are 1 .. MaxRevision
          Faults,           \* the kinds of fault that may occur
          MaxFaults         \* bound on their number

FaultKinds == {"exit", "exchange", "copy", "garbage", "withdraw", "stray",
               "write", "kill"}

ASSUME UpdateAssumption ==
  /\ MaxRevision \in Nat \ {0}
  /\ Faults \subseteq FaultKinds
  /\ MaxFaults \in Nat

Revisions == 1 .. MaxRevision

VARIABLES
  program,      \* the file shp_client: its revision and how much of it there is
  new_binary,   \* the file new_binary, likewise
  pc,           \* where the script or the client it runs is
  proxy,        \* where the proxy's working thread is with process_version
  version,      \* the proxy's version: the revision of the client it serves
  choice,       \* the proxy's update_version
  answer,       \* send_version_result: a revision and the contents of its file
  files,        \* files[r]: what the proxy's directory holds under <r>.gz
  strays,       \* r for which a name such as <r>.gz.old is in the directory
  newest,       \* history: the newest file present when the proxy last looked
  count,        \* how many faults have occurred
  kinds         \* history: their kinds

faults == <<count, kinds>>
vars == <<program, new_binary, pc, proxy, version, choice, answer, files,
          strays, newest, faults>>

disk == <<program, new_binary>>
folder == <<files, strays>>
server == <<proxy, version, choice, folder, newest>>

Part == {"whole", "part", "empty"}
Contents == {"stream", "prefix", "garbage"}

NoFile == [rev |-> 0, part |-> "absent"]
NoUpdate == [rev |-> 0, contents |-> "none"]

Init ==
  /\ program = [rev |-> 1, part |-> "whole"]
  /\ new_binary = NoFile
  /\ pc = "script"
  /\ proxy = "idle"
  /\ version = 0
  /\ choice = 0
  /\ answer = NoUpdate
  /\ files = [r \in Revisions |-> "absent"]
  /\ strays = {}
  /\ newest = 0
  /\ count = 0
  /\ kinds = {}

Fault(kind) ==
  /\ kind \in Faults
  /\ count < MaxFaults
  /\ count' = count + 1
  /\ kinds' = kinds \cup {kind}

Goto(label) == pc' = label

-----------------------------------------------------------------------------
(***************************************************************************)
(* shp_client.sh.                                                          *)
(***************************************************************************)
\* Fault: the program is started without a look at new_binary.
InstallSkipped ==
  /\ pc = "script"
  /\ Goto("exec")
  /\ UNCHANGED <<disk, answer, server, faults>>

\* if [ -f new_binary ] ... mv new_binary shp_client
Install ==
  /\ pc = "script"
  /\ IF new_binary = NoFile
     THEN UNCHANGED disk
     ELSE program' = new_binary /\ new_binary' = NoFile
  /\ Goto("exec")
  /\ UNCHANGED <<answer, server, faults>>

\* ./shp_client: a truncated program dies with a non-zero status, an empty one
\* is an empty shell script, whose status 0 ends the loop.
Execute ==
  /\ pc = "exec"
  /\ Goto(CASE program.part = "whole" -> "version"
            [] program.part = "part"  -> "script"
            [] program.part = "empty" -> "stopped")
  /\ UNCHANGED <<disk, answer, server, faults>>

\* The loop of the script has ended.
Stopped == pc = "stopped" /\ UNCHANGED vars

-----------------------------------------------------------------------------
(***************************************************************************)
(* The client: process_version, and everything after it as "process".      *)
(***************************************************************************)
Ask ==
  /\ pc = "version"
  /\ Goto("asked")
  /\ UNCHANGED <<disk, answer, server, faults>>

\* The client's end of the connection is closed.
HangUp ==
  /\ proxy' = IF proxy = "chosen" THEN "unheard" ELSE proxy
  /\ UNCHANGED <<version, choice, folder, newest>>

\* The exchange fails, at the latest when the answer was already on its way.
ExchangeFails ==
  /\ pc \in {"version", "asked"} /\ Fault("exchange")
  /\ Goto("script")
  /\ HangUp
  /\ UNCHANGED <<disk, answer>>

\* The proxy is dead and the connection is refused.
NoAnswer ==
  /\ pc \in {"version", "asked"} /\ proxy = "down"
  /\ Goto("script")
  /\ UNCHANGED <<disk, answer, server, faults>>

NotNeeded ==
  /\ pc = "answered" /\ answer = NoUpdate
  /\ Goto("process")
  /\ UNCHANGED <<disk, answer, server, faults>>

\* fopen (NEW_BINARY, "w")
Open ==
  /\ pc = "answered" /\ answer # NoUpdate
  /\ new_binary' = [rev |-> answer.rev, part |-> "empty"]
  /\ Goto("decompress")
  /\ UNCHANGED <<program, answer, server, faults>>

\* one of several rounds of the loop of decompress
WriteChunk ==
  /\ pc = "decompress" /\ new_binary.part = "empty"
  /\ new_binary' = [new_binary EXCEPT !.part = "part"]
  /\ UNCHANGED <<program, pc, answer, server, faults>>

\* Fault: only the first full buffer is written.
DecompressFirstChunk ==
  /\ pc = "decompress" /\ answer.contents = "stream"
  /\ new_binary' = [new_binary EXCEPT !.part = "part"]
  /\ Goto("restart")
  /\ UNCHANGED <<program, answer, server, faults>>

\* The stream ended (Z_STREAM_END) and everything was written.
DecompressDone ==
  /\ pc = "decompress" /\ answer.contents = "stream"
  /\ new_binary' = [new_binary EXCEPT !.part = "whole"]
  /\ Goto("restart")
  /\ UNCHANGED <<program, answer, server, faults>>

\* The input ended before the stream did: inflate returns Z_OK, the output
\* buffer is not full, and the loop ends with RESULT_OK.
DecompressShort ==
  /\ pc = "decompress" /\ answer.contents = "prefix"
  /\ Goto("restart")
  /\ UNCHANGED <<disk, answer, server, faults>>

\* inflate fails: garbage, or no input left when the buffer was just full.
InflateFails ==
  /\ pc = "decompress" /\ answer.contents # "stream"
  /\ Goto("script")
  /\ UNCHANGED <<disk, answer, server, faults>>

\* fwrite fails, or nobody notices that fclose did.
WriteFails ==
  /\ pc = "decompress" /\ Fault("write")
  /\ \E next \in {"script", "restart"} : Goto(next)
  /\ UNCHANGED <<disk, answer, server>>

\* sleep (3); exit (1);
Exit ==
  /\ pc = "restart"
  /\ Goto("script")
  /\ UNCHANGED <<disk, answer, server, faults>>

\* A later exchange of the client fails and main returns.
ProcessFails ==
  /\ pc = "process" /\ Fault("exit")
  /\ Goto("script")
  /\ UNCHANGED <<disk, answer, server>>

\* The later exchanges go well.
ProcessGoesOn == pc = "process" /\ UNCHANGED vars

\* The client is killed and the script goes on.
Killed ==
  /\ pc \notin {"script", "exec", "stopped"} /\ Fault("kill")
  /\ Goto("script")
  /\ HangUp
  /\ UNCHANGED <<disk, answer>>

-----------------------------------------------------------------------------
(***************************************************************************)
(* The proxy: process_message_version.                                     *)
(***************************************************************************)
Names == {r \in Revisions : files[r] # "absent"} \cup strays

Highest(S) == CHOOSE h \in S : \A r \in S : h >= r

\* Fault: the revision right after the client's is not looked at.
UpdateFileOffByOne(v) == Highest({v} \cup {r \in Names : r > v + 1})

\* Fault: highest_version starts out as (unsigned int) -1, a revision too high.
UpdateFileUnset(v) == MaxRevision + 1

\* get_update_file: the highest revision of a name, or the client's own.
UpdateFile(v) == Highest({v} \cup Names)

\* Fault: the client's own revision counts as an update.
NeededOrSame(v) == choice >= v

Needed(v) == choice > v

Choose ==
  /\ pc = "asked" /\ proxy = "idle"
  /\ version' = program.rev
  /\ choice' = UpdateFile(program.rev)
  /\ newest' = Highest({0} \cup Names)
  /\ proxy' = "chosen"
  /\ UNCHANGED <<disk, pc, answer, folder, faults>>

\* send_message; nobody listens if the client has given up.
Reply(result) ==
  /\ IF proxy = "chosen"
     THEN answer' = result /\ Goto("answered")
     ELSE UNCHANGED <<answer, pc>>
  /\ proxy' = "idle"
  /\ UNCHANGED <<disk, version, choice, folder, newest, faults>>

SendNothing ==
  /\ proxy \in {"chosen", "unheard"} /\ ~ Needed(version)
  /\ Reply(NoUpdate)

SendFile ==
  /\ proxy \in {"chosen", "unheard"} /\ Needed(version)
  /\ files[choice] # "absent"
  /\ Reply([rev |-> choice, contents |-> files[choice]])

\* fopen returns NULL and fseek brings the proxy down; the client sees its
\* connection closed.
OpenMissing ==
  /\ proxy \in {"chosen", "unheard"} /\ Needed(version)
  /\ files[choice] = "absent"
  /\ IF proxy = "chosen" THEN Goto("script") ELSE UNCHANGED pc
  /\ proxy' = "down"
  /\ UNCHANGED <<disk, version, choice, answer, folder, newest, faults>>

ProxyStart ==
  /\ proxy = "down"
  /\ proxy' = "idle"
  /\ UNCHANGED <<disk, pc, version, choice, answer, folder, newest, faults>>

-----------------------------------------------------------------------------
(***************************************************************************)
(* The operator, who fills the proxy's directory.                          *)
(***************************************************************************)
rest == <<disk, pc, proxy, version, choice, answer, newest>>

Put(r, contents) ==
  /\ files' = [files EXCEPT ![r] = contents]
  /\ UNCHANGED <<rest, strays>>

\* A finished file is moved into the directory.
Publish(r) ==
  files[r] = "absent" /\ Put(r, "stream") /\ UNCHANGED faults

\* It is copied there, and the proxy can see it before the copy is complete.
StartCopy(r) == files[r] = "absent" /\ Put(r, "prefix") /\ Fault("copy")

FinishCopy(r) ==
  files[r] = "prefix" /\ Put(r, "stream") /\ UNCHANGED faults

\* Not a zlib stream, such as the output of gzip.
PublishGarbage(r) == files[r] = "absent" /\ Put(r, "garbage") /\ Fault("garbage")

Withdraw(r) == files[r] # "absent" /\ Put(r, "absent") /\ Fault("withdraw")

\* Another name that begins with r and has ".gz" in it.
Leave(r) ==
  /\ strays' = strays \cup {r}
  /\ Fault("stray")
  /\ UNCHANGED <<rest, files>>

-----------------------------------------------------------------------------
Script == Install \/ Execute

Decompress == WriteChunk \/ DecompressDone \/ DecompressShort \/ InflateFails

Client == Ask \/ NoAnswer \/ NotNeeded \/ Open \/ Decompress \/ Exit

ProxyStep == Choose \/ SendNothing \/ SendFile \/ OpenMissing

Failure == ExchangeFails \/ WriteFails \/ ProcessFails \/ Killed

Operator ==
  \E r \in Revisions : \/ Publish(r) \/ StartCopy(r) \/ FinishCopy(r)
                        \/ PublishGarbage(r) \/ Withdraw(r) \/ Leave(r)

Next == \/ Script \/ Stopped \/ Client \/ ProcessGoesOn \/ ProxyStep
        \/ ProxyStart \/ Failure \/ Operator

Spec == Init /\ [][Next]_vars

\* The script, the client and the proxy go on with what they have to do.
FairSpec == Spec /\ WF_vars(Script) /\ WF_vars(Client) /\ WF_vars(ProxyStep)

-----------------------------------------------------------------------------
(***************************************************************************)
(* Properties.                                                             *)
(***************************************************************************)
ProgramFile == [rev : Revisions, part : Part]

TypeOK ==
  /\ program \in ProgramFile
  /\ new_binary \in ProgramFile \cup {NoFile}
  /\ pc \in {"script", "exec", "version", "asked", "answered", "decompress",
             "restart", "process", "stopped"}
  /\ proxy \in {"idle", "chosen", "unheard", "down"}
  /\ version \in 0 .. MaxRevision
  /\ choice \in 0 .. MaxRevision
  /\ answer \in [rev : Revisions, contents : Contents] \cup {NoUpdate}
  /\ files \in [Revisions -> Contents \cup {"absent"}]
  /\ strays \subseteq Revisions
  /\ newest \in 0 .. MaxRevision
  /\ count \in 0 .. MaxFaults
  /\ kinds \subseteq Faults

\* Whatever fails on the way, what the script installs is of a later revision
\* than what it replaces: no downgrade, and no endless circle of updates
\* (proxy_version.cpp: update_version > version; shp_client.sh: mv).
OnlyUpgrades == [][program' # program => program'.rev > program.rev]_vars

\* A client that has got past VERSION runs the newest revision that the proxy
\* had when it looked for it.
UpToDate == pc = "process" => program.rev >= newest

\* The client runs, and asks for updates, only when the update it got before
\* has been installed: two updates never meet in new_binary.
OneUpdateAtATime ==
  new_binary # NoFile => pc \in {"decompress", "restart", "script"}

\* The faults that leave something else than a whole program in a file.
Spoiling == {"copy", "garbage", "write", "kill"}

Unspoilt == kinds \cap Spoiling = {}

\* Until one of those has occurred, whatever else fails, what the script starts
\* is a whole program, and the script never ends (shp_client.sh).
SupervisorGoesOn ==
  Unspoilt => pc # "stopped" /\ program.part = "whole"

\* Whatever revision is published, a restart brings the client back to its work
\* with it or with a later one, unless more occurs than failing exchanges.
RestartBringsNewest ==
  \A r \in Revisions :
    (pc = "script" /\ files[r] = "stream")
      ~> \/ pc = "process" /\ program.rev >= r
         \/ ~ kinds \subseteq {"exit", "exchange"}

\* The client restarts for "new version" (client_process_version.cpp:108) when
\* new_binary is one.
RestartsForWholeProgram == pc = "restart" => new_binary.part = "whole"

\* What shp_client.sh takes for a "new version" (shp_client.sh:8) is one.
InstallsWholeProgram ==
  [][program' # program => program'.part = "whole"]_vars

\* It takes a copy that was not finished, or a write whose failure went
\* unnoticed, to make the client restart for less than a whole program: a kill,
\* garbage or a name without a file never do (decompress, process_version).
OnlyTwoFaultsFoolTheClient ==
  kinds \cap {"copy", "write"} = {} => RestartsForWholeProgram

\* Until one of the spoiling faults has occurred, each program that the script
\* installs is a whole one (shp_client.sh:8).
InstallsWholeUnlessSpoilt ==
  [][Unspoilt /\ program' # program => program'.part = "whole"]_vars

-----------------------------------------------------------------------------
(***************************************************************************)
(* The inductive invariant.                                                *)
(***************************************************************************)
\* While a client listens, the proxy works on that client's request.
Looking == proxy = "chosen" => pc = "asked" /\ version = program.rev

\* The proxy has looked at everything up to its choice.
Looked == proxy \in {"chosen", "unheard"} => choice >= version /\ choice >= newest

\* An answer with a file is about a later revision than the client's; one
\* without a file says that there was none.
Answered ==
  pc \in {"answered", "decompress"} =>
    IF answer = NoUpdate THEN pc = "answered" /\ program.rev >= newest
                         ELSE answer.rev > program.rev

\* new_binary waits for the script, and is of a later revision.
Waiting ==
  /\ new_binary # NoFile => new_binary.rev > program.rev
  /\ pc \in {"decompress", "restart"} => new_binary # NoFile

UpdateInv == /\ TypeOK /\ Looking /\ Looked /\ Answered /\ Waiting
             /\ UpToDate /\ OneUpdateAtATime

\* Without the faults that spoil a file there are only whole ones.
WholeFiles == Unspoilt =>
  /\ \A r \in Revisions : files[r] \in {"absent", "stream"}
  /\ answer # NoUpdate => answer.contents = "stream"
  /\ pc \in {"script", "restart"} /\ new_binary # NoFile
       => new_binary.part = "whole"

\* Without a copy in progress every stream is complete, and without a failing
\* write the client restarts for nothing but a complete one.
Uncut == kinds \cap {"copy", "write"} = {} =>
  /\ \A r \in Revisions : files[r] # "prefix"
  /\ answer.contents # "prefix"
  /\ RestartsForWholeProgram
=============================================================================
