---------------------------- MODULE UpdateProofs ----------------------------
(***************************************************************************)
(* What TLAPS proves of ClientUpdate, for any number of revisions and any  *)
(* kinds and number of faults.                                             *)
(***************************************************************************)
EXTENDS ClientUpdate, WellFoundedInduction, TLAPS

-----------------------------------------------------------------------------
(***************************************************************************)
(* get_update_file.                                                        *)
(***************************************************************************)
\* A nonempty set of numbers up to N has a highest one.
LEMMA HighestOfSet ==
  ASSUME NEW N \in Nat, NEW S, S \subseteq 0 .. N, S # {}
  PROVE  Highest(S) \in S /\ \A r \in S : Highest(S) >= r
<1> DEFINE Less == {ss \in Nat \X Nat : ss[1] < ss[2]}
           T == {n \in Nat : N - n \in S}
<1>1. OpToRel(<, Nat) = Less
  BY Zenon DEF OpToRel
<1>2. IsWellFoundedOn(Less, Nat)
  BY <1>1, NatLessThanWellFounded, Zenon
<1>3. PICK s \in S : TRUE
  OBVIOUS
<1>4. N - s \in T
  <2>1. s \in 0 .. N /\ N - (N - s) = s
    BY <1>3
  <2> QED  BY <2>1, <1>3
<1>5. PICK t \in T : \A j \in T : <<j, t>> \notin Less
  <2>1. T \subseteq Nat /\ T # {}
    BY <1>4
  <2> HIDE DEF Less, T
  <2> QED  BY <1>2, <2>1, WFMin
<1>6. ASSUME NEW r \in S PROVE N - t >= r
  <2>1. r \in 0 .. N /\ N - r \in Nat /\ N - (N - r) = r
    OBVIOUS
  <2>2. N - r \in T
    BY <2>1
  <2>3. ~ (N - r < t)
    BY <1>5, <2>1, <2>2
  <2> QED  BY <2>1, <2>3
<1>7. N - t \in S
  OBVIOUS
<1> QED  BY <1>6, <1>7 DEF Highest

LEMMA RevisionsAreNat == MaxRevision \in Nat /\ Revisions \subseteq 0 .. MaxRevision
BY UpdateAssumption DEF Revisions

\* update_version is the client's revision or that of a name, and no name is
\* of a higher one.
LEMMA UpdateFileIsHighest ==
  ASSUME NEW v \in 0 .. MaxRevision, strays \subseteq Revisions
  PROVE  /\ UpdateFile(v) \in 0 .. MaxRevision
         /\ UpdateFile(v) >= v
         /\ UpdateFile(v) >= Highest({0} \cup Names)
         /\ Highest({0} \cup Names) \in 0 .. MaxRevision
<1>1. Names \subseteq 0 .. MaxRevision
  BY RevisionsAreNat DEF Names
<1>2. /\ UpdateFile(v) \in {v} \cup Names
      /\ \A r \in {v} \cup Names : UpdateFile(v) >= r
  <2>1. {v} \cup Names \subseteq 0 .. MaxRevision
    BY <1>1
  <2> QED  BY <2>1, RevisionsAreNat, HighestOfSet DEF UpdateFile
<1>3. Highest({0} \cup Names) \in {0} \cup Names
  <2>1. {0} \cup Names \subseteq 0 .. MaxRevision
    BY <1>1, RevisionsAreNat
  <2> QED  BY <2>1, RevisionsAreNat, HighestOfSet
<1> HIDE DEF Names
<1>4. UpdateFile(v) \in 0 .. MaxRevision
  BY <1>1, <1>2
<1>5. CASE Highest({0} \cup Names) = 0
  BY <1>2, <1>4, <1>5, RevisionsAreNat
<1>6. CASE Highest({0} \cup Names) \in Names
  BY <1>1, <1>2, <1>4, <1>6
<1> QED  BY <1>3, <1>5, <1>6

-----------------------------------------------------------------------------
(***************************************************************************)
(* The inductive invariant.                                                *)
(***************************************************************************)
LEMMA InitInv == Init => UpdateInv
BY UpdateAssumption
   DEF Init, UpdateInv, TypeOK, Looking, Looked, Answered, Waiting, UpToDate,
       OneUpdateAtATime, ProgramFile, Part, Contents, Revisions, NoFile, NoUpdate
\* One step per action; each changes few of the variables, and no part of the
\* invariant has a quantifier.  Choose needs to know what get_update_file finds.
LEMMA NextInv == UpdateInv /\ [Next]_vars => UpdateInv'
<1> SUFFICES ASSUME UpdateInv, [Next]_vars
             PROVE  UpdateInv'
  OBVIOUS
<1> USE RevisionsAreNat
    DEF UpdateInv, TypeOK, Looking, Looked, Answered, Waiting, UpToDate,
        OneUpdateAtATime, ProgramFile, Part, Contents, NoFile, NoUpdate, disk,
        folder, server, faults, Goto
<1>0. MaxFaults \in Nat
  BY UpdateAssumption
<1>1. CASE Install
  BY <1>1 DEF Install
<1>2. CASE Execute
  BY <1>2 DEF Execute
<1>3. CASE UNCHANGED vars
  BY <1>3 DEF vars
<1>4. CASE Ask
  BY <1>4 DEF Ask
<1>5. CASE NoAnswer
  BY <1>5 DEF NoAnswer
<1>6. CASE NotNeeded
  BY <1>6 DEF NotNeeded
<1>7. CASE Open
  BY <1>7 DEF Open
<1>8. CASE WriteChunk
  BY <1>8 DEF WriteChunk
<1>9. CASE DecompressDone
  BY <1>9 DEF DecompressDone
<1>10. CASE DecompressShort
  BY <1>10 DEF DecompressShort
<1>11. CASE InflateFails
  BY <1>11 DEF InflateFails
<1>12. CASE Exit
  BY <1>12 DEF Exit
<1>13. CASE Choose
  <2>1. program.rev \in 0 .. MaxRevision
    OBVIOUS
  <2>2. /\ choice' \in 0 .. MaxRevision /\ choice' >= version'
        /\ newest' \in 0 .. MaxRevision /\ choice' >= newest'
    BY <1>13, <2>1, UpdateFileIsHighest DEF Choose
  <2> QED  BY <1>13, <2>2 DEF Choose
<1>14. CASE SendNothing
  BY <1>14 DEF SendNothing, Reply, Needed
<1>15. CASE SendFile
  <2>1. choice \in Revisions
    BY <1>15 DEF SendFile, Needed, Revisions
  <2>2. [rev |-> choice, contents |-> files[choice]]
           \in [rev : Revisions, contents : Contents]
    BY <1>15, <2>1 DEF SendFile
  <2> QED  BY <1>15, <2>1, <2>2 DEF SendFile, Reply, Needed
<1>16. CASE OpenMissing
  BY <1>16 DEF OpenMissing, Needed
<1>17. CASE ProxyStart
  BY <1>17 DEF ProxyStart
<1>18. CASE ExchangeFails
  BY <1>0, <1>18 DEF ExchangeFails, HangUp, Fault
<1>19. CASE WriteFails
  BY <1>0, <1>19 DEF WriteFails, Fault
<1>20. CASE ProcessFails
  BY <1>0, <1>20 DEF ProcessFails, Fault
<1>21. CASE Killed
  BY <1>0, <1>21 DEF Killed, HangUp, Fault
<1>22. ASSUME NEW r \in Revisions, Publish(r) \/ FinishCopy(r)
       PROVE  UpdateInv'
  <2>1. CASE Publish(r)
    BY <2>1 DEF Publish, Put, rest
  <2>2. CASE FinishCopy(r)
    BY <2>2 DEF FinishCopy, Put, rest
  <2> QED  BY <1>22, <2>1, <2>2
<1>23. ASSUME NEW r \in Revisions,
              StartCopy(r) \/ PublishGarbage(r) \/ Withdraw(r)
       PROVE  UpdateInv'
  <2>1. CASE StartCopy(r)
    BY <1>0, <2>1 DEF StartCopy, Put, rest, Fault
  <2>2. CASE PublishGarbage(r)
    BY <1>0, <2>2 DEF PublishGarbage, Put, rest, Fault
  <2>3. CASE Withdraw(r)
    BY <1>0, <2>3 DEF Withdraw, Put, rest, Fault
  <2> QED  BY <1>23, <2>1, <2>2, <2>3
<1>24. ASSUME NEW r \in Revisions, Leave(r)
       PROVE  UpdateInv'
  BY <1>0, <1>24 DEF Leave, rest, Fault
<1>25. Stopped \/ ProcessGoesOn => UNCHANGED vars
  BY DEF Stopped, ProcessGoesOn
<1> QED
  BY <1>1, <1>2, <1>3, <1>4, <1>5, <1>6, <1>7, <1>8, <1>9, <1>10, <1>11, <1>12,
     <1>13, <1>14, <1>15, <1>16, <1>17, <1>18, <1>19, <1>20, <1>21, <1>22, <1>23,
     <1>24, <1>25, Zenon
     DEF Next, Script, Client, Decompress, ProxyStep, Failure, Operator

\* Every reachable state satisfies the inductive invariant.
THEOREM UpdateInvariant == Spec => []UpdateInv
BY InitInv, NextInv, PTL DEF Spec
\* The type invariant.
THEOREM UpdateTypes == Spec => []TypeOK
BY UpdateInvariant, PTL DEF UpdateInv

\* A client past VERSION runs the newest revision the proxy had for it.
THEOREM ClientIsUpToDate == Spec => []UpToDate
BY UpdateInvariant, PTL DEF UpdateInv

\* An update that was received is installed before the client runs again.
THEOREM UpdatesDoNotMeet == Spec => []OneUpdateAtATime
BY UpdateInvariant, PTL DEF UpdateInv

-----------------------------------------------------------------------------
\* Nothing but the script changes the file shp_client.
LEMMA OnlyInstallChanges == Next /\ program' # program => Install
BY Zenon
   DEF Next, Script, Execute, Stopped, ProcessGoesOn, Client, Ask, NoAnswer,
       NotNeeded, Open, Decompress, WriteChunk, DecompressDone, DecompressShort,
       InflateFails, Exit, ProxyStep, Choose, SendNothing, SendFile, Reply,
       OpenMissing, ProxyStart, Failure, ExchangeFails, WriteFails,
       ProcessFails, Killed, Operator, Publish, StartCopy, FinishCopy,
       PublishGarbage, Withdraw, Leave, Put, rest, disk, vars

\* The script never replaces the program by an earlier revision or by the same.
THEOREM NeverDowngrades == Spec => OnlyUpgrades
<1>1. UpdateInv /\ [Next]_vars => [program' # program => program'.rev > program.rev]_vars
  <2> SUFFICES ASSUME UpdateInv, Next, program' # program
               PROVE  program'.rev > program.rev
    BY DEF vars
  <2>1. Install
    BY OnlyInstallChanges
  <2> QED  BY <2>1 DEF Install, disk, UpdateInv, Waiting
<1> QED  BY <1>1, UpdateInvariant, PTL DEF Spec, OnlyUpgrades

-----------------------------------------------------------------------------
(***************************************************************************)
(* Without the faults that spoil a file.                                   *)
(***************************************************************************)
WholeInv == UpdateInv /\ WholeFiles /\ SupervisorGoesOn

LEMMA InitWhole == Init => WholeInv
<1> SUFFICES ASSUME Init PROVE WholeFiles /\ SupervisorGoesOn
  BY InitInv DEF WholeInv
<1> QED  BY DEF Init, WholeFiles, SupervisorGoesOn

\* Kinds are never forgotten.
LEMMA KindsStay == [Next]_vars => kinds \subseteq kinds'
<1> SUFFICES ASSUME Next PROVE kinds \subseteq kinds'
  BY DEF vars, faults
<1> QED  BY Zenon
     DEF Next, Script, Install, Execute, Stopped, ProcessGoesOn, Client, Ask,
         NoAnswer, NotNeeded, Open, Decompress, WriteChunk, DecompressDone,
         DecompressShort, InflateFails, Exit, ProxyStep, Choose, SendNothing,
         SendFile, Reply, OpenMissing, ProxyStart, Failure, ExchangeFails,
         WriteFails, ProcessFails, Killed, Operator, Publish, StartCopy,
         FinishCopy, PublishGarbage, Withdraw, Leave, Fault, faults, vars

LEMMA NextWhole == WholeInv /\ [Next]_vars => WholeInv'
<1> SUFFICES ASSUME WholeInv, [Next]_vars, Unspoilt'
             PROVE  WholeFiles' /\ SupervisorGoesOn'
  BY NextInv DEF WholeInv, WholeFiles, SupervisorGoesOn
<1>a. UpdateInv /\ WholeFiles /\ SupervisorGoesOn /\ Unspoilt
  BY KindsStay DEF WholeInv, Unspoilt
<1>b. Fault("copy") = FALSE /\ Fault("garbage") = FALSE
      /\ Fault("write") = FALSE /\ Fault("kill") = FALSE
  BY DEF Fault, Spoiling, Unspoilt
<1> USE <1>a, <1>b
    DEF WholeFiles, SupervisorGoesOn, UpdateInv, TypeOK, ProgramFile, Part, Contents,
        Answered, Waiting, OneUpdateAtATime, NoFile, NoUpdate, disk, folder,
        server, Goto
<1>1. CASE Install
  BY <1>1 DEF Install
<1>2. CASE Execute
  BY <1>2 DEF Execute
<1>3. CASE UNCHANGED vars
  BY <1>3 DEF vars
<1>4. CASE Ask \/ NoAnswer \/ NotNeeded \/ Exit
  <2>1. CASE Ask \/ NotNeeded
    BY <2>1 DEF Ask, NotNeeded
  <2>2. CASE NoAnswer
    BY <2>2 DEF NoAnswer
  <2>3. CASE Exit
    BY <2>3 DEF Exit
  <2> QED  BY <1>4, <2>1, <2>2, <2>3
<1>5. CASE Open
  BY <1>5 DEF Open
<1>6. CASE WriteChunk
  BY <1>6 DEF WriteChunk
<1>7. CASE DecompressDone
  BY <1>7 DEF DecompressDone
<1>8. CASE DecompressShort \/ InflateFails \/ WriteFails \/ Killed
  BY <1>8 DEF DecompressShort, InflateFails, WriteFails, Killed
<1>9. CASE Choose \/ ProxyStart \/ OpenMissing
  <2>1. CASE Choose
    BY <2>1 DEF Choose
  <2>2. CASE ProxyStart
    BY <2>2 DEF ProxyStart
  <2>3. CASE OpenMissing
    BY <2>3 DEF OpenMissing, Looking
  <2> QED  BY <1>9, <2>1, <2>2, <2>3
<1>10. CASE SendNothing
  BY <1>10 DEF SendNothing, Reply
<1>11. CASE SendFile
  <2>1. choice \in Revisions
    BY <1>11, RevisionsAreNat DEF SendFile, Needed, Revisions
  <2> QED  BY <1>11, <2>1 DEF SendFile, Reply
<1>12. CASE ExchangeFails \/ ProcessFails
  <2>1. CASE ExchangeFails
    BY <2>1 DEF ExchangeFails, HangUp
  <2>2. CASE ProcessFails
    BY <2>2 DEF ProcessFails
  <2> QED  BY <1>12, <2>1, <2>2
<1>13. ASSUME NEW r \in Revisions,
              \/ Publish(r) \/ FinishCopy(r) \/ StartCopy(r)
              \/ PublishGarbage(r) \/ Withdraw(r) \/ Leave(r)
       PROVE  WholeFiles' /\ SupervisorGoesOn'
  <2>1. CASE Publish(r)
    BY <2>1 DEF Publish, Put, rest
  <2>2. CASE FinishCopy(r)
    BY <2>2 DEF FinishCopy, Put, rest
  <2>3. CASE Withdraw(r)
    BY <2>3 DEF Withdraw, Put, rest
  <2>4. CASE Leave(r)
    BY <2>4 DEF Leave, rest
  <2> QED  BY <1>13, <2>1, <2>2, <2>3, <2>4 DEF StartCopy, PublishGarbage
<1>14. Stopped \/ ProcessGoesOn => UNCHANGED vars
  BY DEF Stopped, ProcessGoesOn
<1> QED
  BY <1>1, <1>2, <1>3, <1>4, <1>5, <1>6, <1>7, <1>8, <1>9, <1>10, <1>11, <1>12,
     <1>13, <1>14, Zenon
     DEF Next, Script, Client, Decompress, ProxyStep, Failure, Operator

\* As long as files are moved into the proxy's directory in one step, are zlib
\* streams, and the client neither fails to write nor is killed, the script
\* starts nothing but a whole program and does not end.
THEOREM SupervisorNeverEnds == Spec => []SupervisorGoesOn
<1>1. WholeInv /\ [Next]_vars => WholeInv'
  BY NextWhole
<1>2. WholeInv => SupervisorGoesOn
  BY DEF WholeInv
<1> QED  BY <1>1, <1>2, InitWhole, PTL DEF Spec

\* The same condition on what the script installs: the step that changes the
\* program is Install, and new_binary is whole when the script finds one.
THEOREM InstallsAreWhole == Spec => InstallsWholeUnlessSpoilt
<1>1. WholeInv /\ [Next]_vars
        => [Unspoilt /\ program' # program => program'.part = "whole"]_vars
  <2> SUFFICES ASSUME WholeInv, Next, Unspoilt, program' # program
               PROVE  program'.part = "whole"
    BY DEF vars
  <2>1. Install
    BY OnlyInstallChanges
  <2> QED  BY <2>1 DEF Install, disk, WholeInv, WholeFiles
<1>2. WholeInv /\ [Next]_vars => WholeInv'
  BY NextWhole
<1> QED  BY <1>1, <1>2, InitWhole, PTL DEF Spec, InstallsWholeUnlessSpoilt

-----------------------------------------------------------------------------
(***************************************************************************)
(* What makes the client restart for less than a program.                  *)
(***************************************************************************)
CutInv == UpdateInv /\ Uncut

LEMMA InitCut == Init => CutInv
<1> SUFFICES ASSUME Init PROVE Uncut
  BY InitInv DEF CutInv
<1> QED  BY DEF Init, Uncut, RestartsForWholeProgram, NoUpdate

LEMMA NextCut == CutInv /\ [Next]_vars => CutInv'
<1> SUFFICES ASSUME CutInv, [Next]_vars, kinds' \cap {"copy", "write"} = {}
             PROVE  Uncut'
  BY NextInv DEF CutInv, Uncut
<1>a. UpdateInv /\ Uncut /\ kinds \cap {"copy", "write"} = {}
  BY KindsStay DEF CutInv
<1>b. Fault("copy") = FALSE /\ Fault("write") = FALSE
  BY DEF Fault
<1> USE <1>a, <1>b
    DEF Uncut, RestartsForWholeProgram, UpdateInv, TypeOK, ProgramFile, Part,
        Contents, NoFile, NoUpdate, disk, folder, server, Goto
<1>1. CASE Install \/ Execute
  <2>1. CASE Install
    BY <2>1 DEF Install
  <2>2. CASE Execute
    BY <2>2 DEF Execute
  <2> QED  BY <1>1, <2>1, <2>2
<1>2. CASE UNCHANGED vars
  BY <1>2 DEF vars
<1>3. CASE Ask \/ NoAnswer \/ NotNeeded \/ Exit
  <2>1. CASE Ask \/ NotNeeded
    BY <2>1 DEF Ask, NotNeeded
  <2>2. CASE NoAnswer
    BY <2>2 DEF NoAnswer
  <2>3. CASE Exit
    BY <2>3 DEF Exit
  <2> QED  BY <1>3, <2>1, <2>2, <2>3
<1>4. CASE Open
  BY <1>4 DEF Open
<1>5. CASE WriteChunk \/ InflateFails
  <2>1. CASE WriteChunk
    BY <2>1 DEF WriteChunk
  <2>2. CASE InflateFails
    BY <2>2 DEF InflateFails
  <2> QED  BY <1>5, <2>1, <2>2
<1>6. CASE DecompressDone
  BY <1>6 DEF DecompressDone, Waiting
<1>7. CASE DecompressShort \/ WriteFails
  BY <1>7 DEF DecompressShort, WriteFails
<1>8. CASE Choose \/ ProxyStart \/ OpenMissing
  <2>1. CASE Choose
    BY <2>1 DEF Choose
  <2>2. CASE ProxyStart
    BY <2>2 DEF ProxyStart
  <2>3. CASE OpenMissing
    BY <2>3 DEF OpenMissing
  <2> QED  BY <1>8, <2>1, <2>2, <2>3
<1>9. CASE SendNothing
  BY <1>9 DEF SendNothing, Reply
<1>10. CASE SendFile
  <2>1. choice \in Revisions
    BY <1>10, RevisionsAreNat DEF SendFile, Needed, Revisions
  <2> QED  BY <1>10, <2>1 DEF SendFile, Reply
<1>11. CASE ExchangeFails \/ ProcessFails \/ Killed
  <2>1. CASE ExchangeFails
    BY <2>1 DEF ExchangeFails, HangUp
  <2>2. CASE ProcessFails
    BY <2>2 DEF ProcessFails
  <2>3. CASE Killed
    BY <2>3 DEF Killed, HangUp
  <2> QED  BY <1>11, <2>1, <2>2, <2>3
<1>12. ASSUME NEW r \in Revisions,
              \/ Publish(r) \/ FinishCopy(r) \/ StartCopy(r)
              \/ PublishGarbage(r) \/ Withdraw(r) \/ Leave(r)
       PROVE  Uncut'
  <2>1. CASE Publish(r)
    BY <2>1 DEF Publish, Put, rest
  <2>2. CASE FinishCopy(r)
    BY <2>2 DEF FinishCopy, Put, rest
  <2>3. CASE PublishGarbage(r)
    BY <2>3 DEF PublishGarbage, Put, rest
  <2>4. CASE Withdraw(r)
    BY <2>4 DEF Withdraw, Put, rest
  <2>5. CASE Leave(r)
    BY <2>5 DEF Leave, rest
  <2> QED  BY <1>12, <2>1, <2>2, <2>3, <2>4, <2>5 DEF StartCopy
<1>13. Stopped \/ ProcessGoesOn => UNCHANGED vars
  BY DEF Stopped, ProcessGoesOn
<1> QED
  BY <1>1, <1>2, <1>3, <1>4, <1>5, <1>6, <1>7, <1>8, <1>9, <1>10, <1>11, <1>12,
     <1>13, Zenon
     DEF Next, Script, Client, Decompress, ProxyStep, Failure, Operator

\* A client restarts for less than a whole program only after a copy that was
\* read too early or a write that failed unnoticed: the two ways in which the
\* claim RestartsForWholeProgram is violated are the only two.
THEOREM OnlyTwoWaysToFoolTheClient == Spec => []OnlyTwoFaultsFoolTheClient
<1>1. CutInv => OnlyTwoFaultsFoolTheClient
  BY DEF CutInv, Uncut, OnlyTwoFaultsFoolTheClient
<1> QED  BY <1>1, InitCut, NextCut, PTL DEF Spec
=============================================================================
