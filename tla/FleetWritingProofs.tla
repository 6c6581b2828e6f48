-------------------------- MODULE FleetWritingProofs --------------------------
(***************************************************************************)
(* Theorems about FleetWriting, for every number of boards, rows and slots *)
(* and every policy.                                                       *)
(***************************************************************************)
EXTENDS MCFleetWriting, TLAPS, FiniteSetTheorems

-----------------------------------------------------------------------------
(* The call stack stays a stack of frames, whatever is pushed on it.       *)

\* What push and pop make of a stack is a stack: a tail, a prefix, two stacks.
LEMMA StackTyped ==
    ASSUME NEW s \in Seq(Frames)
    PROVE  /\ s # << >> => Head(s) \in Frames /\ Tail(s) \in Seq(Frames)
           /\ \A f \in Frames : <<f>> \o s \in Seq(Frames) /\ <<f>> \in Seq(Frames)
           /\ \A t \in Seq(Frames) : s \o t \in Seq(Frames)
  OBVIOUS

\* What the handlers build of sets of jobs are stacks of frames.
LEMMA FramesTyped ==
    /\ Fill \in Frames /\ MaybeFinish \in Frames
    /\ Frame("gateNext", {}) \in Frames /\ Frame("afterAnswers", {}) \in Frames
    /\ \A b \in Board : \A rd \in BOOLEAN : RequestCheck(b, rd) \in Frames
    /\ \A b \in Board : \A w \in Whats : EvaluateCheck(b, w) \in Frames /\ WhenGateFree(w, b) \in Frames
    /\ \A jobs \in SUBSET Job : \A c \in Calls : ForEach(c, jobs) \in Seq(Frames)
<1>1. \A c \in Calls : \A jobs \in SUBSET Job : Frame(c, jobs) \in Frames
  BY DEF Frame, Frames
<1>2. \A w \in Whats : \A b \in Board : {<<w, b>>} \in SUBSET Job
  BY DEF Job
<1>3. {} \in SUBSET Job
  OBVIOUS
<1>4. {"fill", "maybeFinishRun", "requestCheck", "evaluateCheck", "whenGateFree", "gateNext", "afterAnswers"} \subseteq Calls
  BY DEF Calls
<1>5. {"WL", "RD"} \subseteq Whats
  BY DEF Whats
<1>6. /\ Fill \in Frames /\ MaybeFinish \in Frames
      /\ Frame("gateNext", {}) \in Frames /\ Frame("afterAnswers", {}) \in Frames
  BY <1>1, <1>3, <1>4 DEF Fill, MaybeFinish
<1>7. \A b \in Board : \A rd \in BOOLEAN : RequestCheck(b, rd) \in Frames
  BY <1>1, <1>2, <1>4, <1>5 DEF RequestCheck
<1>8. \A b \in Board : \A w \in Whats : EvaluateCheck(b, w) \in Frames /\ WhenGateFree(w, b) \in Frames
  BY <1>1, <1>2, <1>4 DEF EvaluateCheck, WhenGateFree
<1>9. \A jobs \in SUBSET Job : \A c \in Calls : ForEach(c, jobs) \in Seq(Frames)
  BY <1>1 DEF ForEach
<1> QED
  BY <1>6, <1>7, <1>8, <1>9

-----------------------------------------------------------------------------
(* The type invariant.                                                     *)

\* Whatever an action does to the stack leaves frames on it.
LEMMA StackInv ==
    ASSUME TypeOK, Next
    PROVE  agenda' \in Seq(Frames)
<1> USE StackTyped, FramesTyped
<1>a. agenda \in Seq(Frames)
  BY DEF TypeOK
<1>b. ASSUME NEW b \in Board, NEW what \in Whats, NEW call \in Calls, Doing(call, what, b)
      PROVE  Done(what, b) \in Seq(Frames) /\ Return \in Seq(Frames)
  <2>1. agenda # << >> /\ Head(agenda) \in Frames /\ Tail(agenda) \in Seq(Frames)
    BY <1>a, <1>b DEF Doing, Running
  <2>2. Head(agenda).call \in Calls /\ Head(agenda).jobs \ {<<what, b>>} \in SUBSET Job
    BY <2>1 DEF Frames
  <2>3. ForEach(Head(agenda).call, Head(agenda).jobs \ {<<what, b>>}) \in Seq(Frames)
    BY <2>2
  <2> QED
    BY <2>1, <2>3 DEF Done, Return
<1>c. ASSUME NEW call \in Calls, Running(call) PROVE Return \in Seq(Frames)
  BY <1>a, <1>c DEF Running, Return
<1>d. Calls = {"fill", "maybeFinishRun", "requestCheck", "answer", "evaluateCheck", "whenGateFree", "afterAnswers", "gateNext"}
  BY DEF Calls
<1>e. Whats = {"WL", "RD", "listing", "port", "error", "checked", "verify", "undo"}
  BY DEF Whats
<1>1. ASSUME NEW b \in Board, StartBoard(b) PROVE agenda' \in Seq(Frames)
  BY <1>1, <1>a DEF StartBoard
<1>2. ASSUME FillEnds PROVE agenda' \in Seq(Frames)
  BY <1>2, <1>c, <1>d DEF FillEnds
<1>3. ASSUME NEW b \in Board, NEW what \in Whats, CheckNow(b, what) PROVE agenda' \in Seq(Frames)
  BY <1>3, <1>b, <1>d, <1>e DEF CheckNow
<1>4. ASSUME NEW b \in Board, NEW what \in Whats, QueueCheck(b, what) PROVE agenda' \in Seq(Frames)
  BY <1>4, <1>b, <1>d DEF QueueCheck
<1>5. ASSUME GateLdEnds PROVE agenda' \in Seq(Frames)
  BY <1>5, <1>d, <1>e DEF GateLdEnds, RunTyped, TypeOK, Job
<1>6. ASSUME NEW b \in Board, NEW what \in Whats, AnswerCheck(what, b) PROVE agenda' \in Seq(Frames)
  BY <1>6, <1>b, <1>d DEF AnswerCheck
<1>7. ASSUME AfterAnswers PROVE agenda' \in Seq(Frames)
  BY <1>7, <1>c, <1>d DEF AfterAnswers, TypeOK, RunTyped
<1>8. ASSUME StartNextGateLd PROVE agenda' \in Seq(Frames)
  BY <1>8, <1>c, <1>d DEF StartNextGateLd
<1>9. ASSUME NEW b \in Board, NEW what \in Whats, CheckPasses(b, what) PROVE agenda' \in Seq(Frames)
  BY <1>9, <1>b, <1>d, <1>e DEF CheckPasses, Evaluating
<1>10. ASSUME NEW b \in Board, CheckUnanswered(b) PROVE agenda' \in Seq(Frames)
  BY <1>10, <1>b, <1>d, <1>e DEF CheckUnanswered, Evaluating
<1>11. ASSUME NEW b \in Board, NEW what \in Whats, LeftBeforeWrite(b, what) PROVE agenda' \in Seq(Frames)
  BY <1>11, <1>b, <1>d DEF LeftBeforeWrite, Evaluating
<1>12. ASSUME NEW b \in Board, NEW what \in Whats, LeftBeforeReset(b, what) PROVE agenda' \in Seq(Frames)
  BY <1>12, <1>b, <1>d DEF LeftBeforeReset, Evaluating
<1>13. ASSUME NEW b \in Board, NEW what \in Whats, LaunchLater(what, b) PROVE agenda' \in Seq(Frames)
  BY <1>13, <1>b, <1>d DEF LaunchLater
<1>14. ASSUME NEW b \in Board, LaunchCancelled(b) PROVE agenda' \in Seq(Frames)
  BY <1>14, <1>b, <1>d, <1>e DEF LaunchCancelled, Launching
<1>15. ASSUME NEW b \in Board, StartWrite(b) PROVE agenda' \in Seq(Frames)
  BY <1>15, <1>b, <1>d, <1>e DEF StartWrite, Launching
<1>16. ASSUME NEW b \in Board, NEW what \in Whats, NoFolder(what, b) PROVE agenda' \in Seq(Frames)
  BY <1>16, <1>b, <1>d DEF NoFolder, Launching
<1>17. ASSUME NEW b \in Board, StartVerify(b) PROVE agenda' \in Seq(Frames)
  BY <1>17, <1>b, <1>d, <1>e DEF StartVerify, Launching
<1>18. ASSUME NEW b \in Board, StartReset(b) PROVE agenda' \in Seq(Frames)
  BY <1>18, <1>b, <1>d, <1>e DEF StartReset, Launching
<1>19. ASSUME NEW b \in Board, StartUndo(b) PROVE agenda' \in Seq(Frames)
  BY <1>19, <1>b, <1>d, <1>e DEF StartUndo, Launching
<1>f. ASSUME NEW b \in Board, RowDone(b) PROVE agenda' \in Seq(Frames)
  <2>1. RequestCheck(b, row[b] + 1 > NRows) \in Frames
    <3>1. RequestCheck(b, TRUE) \in Frames /\ RequestCheck(b, FALSE) \in Frames
      OBVIOUS
    <3>2. CASE row[b] + 1 > NRows
      BY <3>1, <3>2 DEF RequestCheck
    <3>3. CASE ~(row[b] + 1 > NRows)
      BY <3>1, <3>3 DEF RequestCheck
    <3> QED
      BY <3>2, <3>3
  <2>2. agenda' = <<RequestCheck(b, row[b] + 1 > NRows)>> \o <<Fill>>
    BY <1>f DEF RowDone
  <2> QED
    BY <2>1, <2>2
<1>20. ASSUME NEW b \in Board, ToolStep(b) PROVE agenda' \in Seq(Frames)
  <2>1. CASE WriteOk(b) \/ VerifyOk(b)
    <3>1. RowDone(b) \/ agenda' = <<WhenGateFree("verify", b)>>
      BY <2>1 DEF WriteOk, VerifyOk
    <3>2. CASE RowDone(b)
      BY <3>2, <1>f
    <3>3. CASE agenda' = <<WhenGateFree("verify", b)>>
      BY <3>3, <1>a, <1>e
    <3> QED
      BY <3>1, <3>2, <3>3
  <2>2. CASE \/ WriteFails(b) \/ WriteFindsNobody(b) \/ ResetOk(b) \/ ResetFails(b) \/ ResetFindsNobody(b)
             \/ UndoOk(b) \/ UndoFails(b) \/ UndoFindsNobody(b) \/ GetStateLate(b) \/ RfmcuEnds(b)
    <3>1. agenda' = <<Fill>>
      BY <2>2 DEF WriteFails, WriteFindsNobody, ResetOk, ResetFails, ResetFindsNobody, UndoOk, UndoFails,
             UndoFindsNobody, GetStateLate, RfmcuEnds
    <3> QED
      BY <3>1, <1>a
  <2>3. CASE GetStateNo(b) \/ GetStateDevice(b) \/ InfoEnds(b)
    BY <2>3, <1>a DEF GetStateNo, GetStateDevice, InfoEnds
  <2> QED
    BY <1>20, <2>1, <2>2, <2>3 DEF ToolStep
<1>21. ASSUME AdbTick PROVE agenda' \in Seq(Frames)
  BY <1>21, <1>a DEF AdbTick
<1>22. ASSUME Cancel PROVE agenda' \in Seq(Frames)
  BY <1>22, <1>d, <1>e DEF Cancel, Mapped, NotStarted, Job
<1>23. ASSUME MaybeFinishRun PROVE agenda' \in Seq(Frames)
  BY <1>23, <1>c, <1>d DEF MaybeFinishRun
<1>24. ASSUME (\E b \in Board : WaitElapses(b)) \/ DeviceStep \/ ListingAges \/ CloseStep \/ Finished PROVE agenda' \in Seq(Frames)
  BY <1>24, <1>a DEF DeviceStep, WaitElapses, BrownOut, ComesBack, StrangerArrives, ListingAges, CloseStep, CloseRun, CloseBlind, Finished, vars
<1> QED
  BY <1>1, <1>2, <1>3, <1>4, <1>5, <1>6, <1>7, <1>8, <1>9, <1>10, <1>11, <1>12, <1>13, <1>14, <1>15, <1>16, <1>17, <1>18, <1>19, <1>20, <1>21, <1>22, <1>23, <1>24 DEF Next, CallStep

\* The LocationIDs the closing picture lists are LocationIDs of ports.
LEMMA IdsTyped ==
    ASSUME DevicesTyped
    PROVE  /\ \A d \in Board \cup {Stranger} : DeviceId(d) \in Id
           /\ LoaderIds \subseteq Id /\ ListedIds \subseteq Id
  BY DEF DevicesTyped, DeviceId, Id, LoaderIds, ListedIds, InDownload

\* A device that moves or re-enumerates stays a device.
LEMMA DevicesInv ==
    ASSUME TypeOK, Next
    PROVE  DevicesTyped'
<1> USE FleetAssumption DEF FleetAssumption
<1>a. DevicesTyped
  BY DEF TypeOK
<1>b. ASSUME UNCHANGED bus PROVE DevicesTyped'
  BY <1>a, <1>b DEF DevicesTyped, bus
<1>c. ASSUME Fault, UNCHANGED <<dev, gen>> PROVE DevicesTyped'
  BY <1>a, <1>c DEF DevicesTyped, Fault
<1>1. ASSUME NEW b \in Board, BrownOut(b) PROVE DevicesTyped'
  BY <1>1, <1>a DEF BrownOut, DevicesTyped, Fault
<1>2. ASSUME NEW b \in Board, ComesBack(b) PROVE DevicesTyped'
  BY <1>2, <1>a DEF ComesBack, DevicesTyped
<1>3. ASSUME StrangerArrives PROVE DevicesTyped'
  BY <1>3, <1>a DEF StrangerArrives, DevicesTyped
<1>4. ASSUME NEW b \in Board, FailsByItself(b), UNCHANGED <<dev, gen>> PROVE DevicesTyped'
  BY <1>4, <1>b, <1>c DEF FailsByItself, bus
<1>5. ASSUME NEW b \in Board, ResetTakes(b) PROVE DevicesTyped'
  BY <1>5, <1>a, <1>c DEF ResetTakes, DevicesTyped
<1>6. ASSUME NEW b \in Board, ToolStep(b) PROVE DevicesTyped'
  <2>1. CASE WriteFails(b) \/ ResetFails(b) \/ UndoFails(b)
    BY <2>1, <1>4 DEF WriteFails, ResetFails, UndoFails
  <2>2. CASE ResetOk(b) \/ UndoOk(b)
    BY <2>2, <1>5 DEF ResetOk, UndoOk
  <2>3. CASE UNCHANGED bus
    BY <2>3, <1>b
  <2> QED
    BY <1>6, <2>1, <2>2, <2>3 DEF ToolStep, WriteOk, VerifyOk, WriteFindsNobody, ResetFindsNobody,
       UndoFindsNobody, GetStateNo, GetStateDevice, GetStateLate, InfoEnds, RfmcuEnds
<1>7. ASSUME GateLdEnds PROVE DevicesTyped'
  BY <1>7, <1>b, <1>c DEF GateLdEnds, bus
<1>8. ASSUME CallStep PROVE DevicesTyped'
  <2>1. ASSUME NEW b \in Board, NEW what \in Whats, NoFolder(what, b) PROVE DevicesTyped'
    BY <2>1, <1>c DEF NoFolder
  <2>2. CASE UNCHANGED bus
    BY <2>2, <1>b
  <2> QED
    BY ZenonT(60), <1>8, <2>1, <2>2 DEF CallStep, StartBoard, FillEnds, CheckNow, QueueCheck, AnswerCheck,
       AfterAnswers, StartNextGateLd, CheckPasses, CheckUnanswered, LeftBeforeWrite, LeftBeforeReset,
       LaunchLater, LaunchCancelled, StartWrite, StartVerify, StartReset, StartUndo, MaybeFinishRun
<1>9. ASSUME CloseStep PROVE DevicesTyped'
  BY <1>9, <1>b, <1>c DEF CloseStep, CloseRun, CloseBlind
<1>10. ASSUME ListingAges \/ AdbTick \/ Cancel \/ Finished \/ \E b \in Board : WaitElapses(b)
       PROVE  DevicesTyped'
  BY <1>10, <1>b DEF ListingAges, AdbTick, Cancel, Finished, vars, WaitElapses
<1> QED
  BY <1>1, <1>2, <1>3, <1>6, <1>7, <1>8, <1>9, <1>10 DEF Next, DeviceStep

\* A board that ends, and boards that leave their slots, keep their types.
LEMMA EndTyped ==
    ASSUME BoardsTyped, NEW B, NEW res \in Results
    PROVE  /\ Release(B) => /\ inSlot' \in [Board -> BOOLEAN] /\ checkQueued' \in [Board -> BOOLEAN]
                            /\ gateWaiting' \subseteq gateWaiting /\ gateNext' \subseteq gateNext
           /\ EndBoards(B, res) => stage' \in [Board -> Stages] /\ result' \in [Board -> Results] /\ Release(B)
<1>1. ASSUME Release(B) PROVE inSlot' \in [Board -> BOOLEAN] /\ checkQueued' \in [Board -> BOOLEAN]
  <2>1. inSlot' = [b \in Board |-> b \notin B /\ inSlot[b]]
    BY <1>1 DEF Release
  <2>2. checkQueued' = [b \in Board |-> b \notin B /\ checkQueued[b]]
    BY <1>1 DEF Release
  <2> QED
    BY <2>1, <2>2
<1>2. ASSUME Release(B) PROVE gateWaiting' \subseteq gateWaiting /\ gateNext' \subseteq gateNext
  BY <1>2 DEF Release
<1>3. ASSUME EndBoards(B, res) PROVE stage' \in [Board -> Stages] /\ result' \in [Board -> Results] /\ Release(B)
  BY <1>3 DEF EndBoards, BoardsTyped, Stages
<1> QED
  BY <1>1, <1>2, <1>3

\* What a step does to the boards keeps their stages, rows and attempts.
LEMMA BoardsInv ==
    ASSUME TypeOK, Next
    PROVE  BoardsTyped'
<1> USE DEF Stages, Results, UpgradeTools, AdbTools
<1>a. BoardsTyped
  BY DEF TypeOK
<1>b. ASSUME UNCHANGED <<progress, stage, result, inSlot, checkQueued, waitOver, process>>
      PROVE  BoardsTyped'
  BY <1>a, <1>b DEF BoardsTyped, progress
<1>c. ASSUME NEW B, NEW res \in Results, EndBoards(B, res),
             UNCHANGED <<row, written, started, checkBeforeRd, waitOver>>,
             leftBeforeReset' \in [Board -> BOOLEAN],
             process' \in [Board -> UpgradeTools \cup AdbTools \cup {"none"}]
      PROVE  BoardsTyped'
  BY <1>a, <1>c, EndTyped DEF BoardsTyped
<1>d. ASSUME NEW b \in Board, EnterAdbWait(b), Release({b}),
             UNCHANGED <<row, written, started, checkBeforeRd>>,
             leftBeforeReset' \in [Board -> BOOLEAN],
             process' \in [Board -> UpgradeTools \cup AdbTools \cup {"none"}]
      PROVE  BoardsTyped'
  BY <1>a, <1>d, EndTyped DEF BoardsTyped, EnterAdbWait
<1>e. leftBeforeReset \in [Board -> BOOLEAN] /\ process \in [Board -> UpgradeTools \cup AdbTools \cup {"none"}]
  BY <1>a DEF BoardsTyped
<1>f. ASSUME NEW b \in Board, NEW tool \in UpgradeTools, EndTool(b) \/ StartTool(b, tool)
      PROVE  process' \in [Board -> UpgradeTools \cup AdbTools \cup {"none"}]
  BY <1>e, <1>f DEF EndTool, StartTool
<1>1. ASSUME NEW b \in Board, NEW what \in Whats, CheckNow(b, what) \/ QueueCheck(b, what) \/ AnswerCheck(what, b)
      PROVE  BoardsTyped'
  <2>1. UNCHANGED <<stage, result, inSlot, tools, waitOver, row, written, started, leftBeforeReset>>
    BY <1>1 DEF CheckNow, QueueCheck, AnswerCheck, ending, progress
  <2>2. checkBeforeRd' \in [Board -> BOOLEAN]
    <3>1. CASE checkBeforeRd' = [checkBeforeRd EXCEPT ![b] = what = "RD"]
      <4>1. (what = "RD") \in BOOLEAN
        OBVIOUS
      <4> QED
        BY <3>1, <4>1, <1>a DEF BoardsTyped
    <3>2. CASE checkBeforeRd' = checkBeforeRd
      BY <3>2, <1>a DEF BoardsTyped
    <3> QED
      BY <3>1, <3>2, <1>1 DEF CheckNow, QueueCheck, AnswerCheck, progress
  <2>3. checkQueued' \in [Board -> BOOLEAN]
    BY <1>1, <1>a DEF CheckNow, QueueCheck, AnswerCheck, BoardsTyped, ending
  <2> QED
    BY <2>1, <2>2, <2>3, <1>a DEF BoardsTyped, tools
<1>2. ASSUME NEW b \in Board, StartBoard(b) PROVE BoardsTyped'
  BY <1>2, <1>a DEF StartBoard, BoardsTyped, tools
<1>3. ASSUME NEW b \in Board, CheckUnanswered(b) PROVE BoardsTyped'
  BY <1>3, <1>c, <1>e DEF CheckUnanswered, FailInLoader, EndBoard, progress, tools
<1>4. ASSUME NEW b \in Board, NEW what \in Whats, NoFolder(what, b) \/ LeftBeforeWrite(b, what) PROVE BoardsTyped'
  BY <1>4, <1>c, <1>e DEF NoFolder, LeftBeforeWrite, FailInLoader, EndBoard, progress, tools
<1>5. ASSUME NEW b \in Board, NEW what \in Whats, LeftBeforeReset(b, what) PROVE BoardsTyped'
  BY <1>5, <1>c, <1>d, <1>e DEF LeftBeforeReset, EndBoard, tools
<1>6. ASSUME NEW b \in Board, LaunchCancelled(b) PROVE BoardsTyped'
  BY <1>6, <1>a, EndTyped DEF LaunchCancelled, BoardsTyped, progress, tools
<1>7. ASSUME NEW b \in Board, StartWrite(b) PROVE BoardsTyped'
  BY <1>7, <1>a, <1>f DEF StartWrite, BoardsTyped, ending
<1>8. ASSUME NEW b \in Board, StartReset(b) PROVE BoardsTyped'
  BY <1>8, <1>a, <1>f DEF StartReset, BoardsTyped, progress
<1>9. ASSUME NEW b \in Board, StartVerify(b) \/ StartUndo(b) PROVE BoardsTyped'
  BY <1>9, <1>a, <1>f DEF StartVerify, StartUndo, BoardsTyped, progress, ending
<1>10. ASSUME CallStep PROVE BoardsTyped'
  <2>1. CASE UNCHANGED <<progress, ending, tools, waitOver>>
    BY <2>1, <1>b DEF ending, tools
  <2>2. ASSUME StartNextGateLd PROVE BoardsTyped'
    BY <2>2, <1>b DEF StartNextGateLd, tools
  <2> QED
    BY <1>10, <2>1, <2>2, <1>1, <1>2, <1>3, <1>4, <1>5, <1>6, <1>7, <1>8, <1>9
       DEF CallStep, FillEnds, AfterAnswers, CheckPasses, LaunchLater, MaybeFinishRun
<1>11. ASSUME NEW b \in Board, RowDone(b), EndTool(b), UNCHANGED <<ending, waitOver>> PROVE BoardsTyped'
  BY <1>11, <1>a, <1>f DEF RowDone, BoardsTyped, ending
<1>12. ASSUME NEW b \in Board, ToolStep(b) PROVE BoardsTyped'
  <2>1. CASE WriteOk(b)
    <3>1. CASE Verify
      BY <3>1, <2>1, <1>a, <1>f DEF WriteOk, Ends, BoardsTyped, progress, ending
    <3>2. CASE ~Verify
      BY <3>2, <2>1, <1>11 DEF WriteOk, Ends
    <3> QED
      BY <3>1, <3>2
  <2>2. CASE VerifyOk(b)
    BY <2>2, <1>11 DEF VerifyOk, Ends
  <2>3. CASE WriteFails(b) \/ WriteFindsNobody(b)
    BY <2>3, <1>c, <1>e, <1>f DEF WriteFails, WriteFindsNobody, FailInLoader, FailGone, EndBoard, Ends, progress
  <2>4. CASE ResetOk(b)
    <3>1. process' \in [Board -> UpgradeTools \cup AdbTools \cup {"none"}]
      BY <2>4, <1>f DEF ResetOk, Ends
    <3>2. UNCHANGED progress
      BY <2>4 DEF ResetOk
    <3>3. CASE EndBoards({b}, "Done") /\ UNCHANGED waitOver
      BY <3>1, <3>2, <3>3, <1>c, <1>e DEF progress
    <3>4. CASE EnterAdbWait(b) /\ Release({b})
      BY <3>1, <3>2, <3>4, <1>d, <1>e DEF progress
    <3> QED
      BY <2>4, <3>3, <3>4 DEF ResetOk, EndBoard
  <2>5. CASE ResetFails(b) \/ ResetFindsNobody(b) \/ UndoOk(b) \/ UndoFails(b) \/ UndoFindsNobody(b)
    <3>1. process' \in [Board -> UpgradeTools \cup AdbTools \cup {"none"}]
      BY <2>5, <1>f DEF ResetFails, ResetFindsNobody, UndoOk, UndoFails, UndoFindsNobody, Ends
    <3>2. UNCHANGED <<progress, waitOver>> /\ (EndBoards({b}, "Failed") \/ EndBoards({b}, "Skipped"))
      BY <2>5 DEF ResetFails, ResetFindsNobody, UndoOk, UndoFails, UndoFindsNobody, EndBoard, FailGone
    <3> QED
      BY <3>1, <3>2, <1>c, <1>e DEF progress
  <2>6. CASE GetStateNo(b) \/ GetStateDevice(b) \/ GetStateLate(b) \/ InfoEnds(b)
    BY <2>6, <1>a DEF GetStateNo, GetStateDevice, GetStateLate, InfoEnds, AdbEnds, BoardsTyped, progress, ending
  <2>7. CASE RfmcuEnds(b)
    <3>1. process' \in [Board -> UpgradeTools \cup AdbTools \cup {"none"}]
      BY <2>7, <1>e DEF RfmcuEnds, AdbEnds
    <3> QED
      BY <3>1, <2>7, <1>c, <1>e DEF RfmcuEnds, EndBoard, progress
  <2> QED
    BY <1>12, <2>1, <2>2, <2>3, <2>4, <2>5, <2>6, <2>7 DEF ToolStep
<1>13. ASSUME AdbTick PROVE BoardsTyped'
  <2>1. PICK over : EndBoards(over, "NotBack")
    BY <1>13 DEF AdbTick
  <2>2. process' \in [Board -> UpgradeTools \cup AdbTools \cup {"none"}]
    BY <1>13, <1>e DEF AdbTick
  <2> QED
    BY <2>1, <2>2, <1>13, <1>c, <1>e DEF AdbTick, progress
<1>14. ASSUME Cancel PROVE BoardsTyped'
  <2>1. PICK B : Release(B)
    BY <1>14 DEF Cancel
  <2>2. stage' \in [Board -> Stages] /\ result' \in [Board -> Results]
    BY <1>14, <1>a DEF Cancel, BoardsTyped
  <2> QED
    BY <2>1, <2>2, <1>14, <1>a, EndTyped DEF Cancel, BoardsTyped, progress, tools
<1>15. ASSUME GateLdEnds PROVE BoardsTyped'
  BY <1>15, <1>b DEF GateLdEnds, tools
<1>16. ASSUME NEW b \in Board, WaitElapses(b) PROVE BoardsTyped'
  BY <1>16, <1>a DEF WaitElapses, BoardsTyped, progress, ending, tools
<1>17. ASSUME DeviceStep \/ ListingAges \/ CloseStep \/ Finished PROVE BoardsTyped'
  BY <1>17, <1>b DEF DeviceStep, BrownOut, ComesBack, StrangerArrives, ListingAges, CloseStep, CloseRun,
     CloseBlind, Finished, vars, ending, tools
<1> QED
  BY <1>10, <1>12, <1>13, <1>14, <1>15, <1>16, <1>17 DEF Next

-----------------------------------------------------------------------------
(* The counters.                                                           *)

SlotHolders == {b \in Board : inSlot[b]}
ResetBoards == {b \in Board : resetOk[b]}

\* The gate's counter covers every upgrade_tool process, resetCount every board
\* still counted as reset.
CountersCover ==
    /\ Cardinality(Writers) <= inFlight
    /\ Cardinality(ResetBoards) <= resetCount

\* The sets of boards behind the two counters are finite and of known size.
LEMMA BoardSets ==
    ASSUME NEW S \in SUBSET Board
    PROVE  /\ IsFiniteSet(S) /\ Cardinality(S) \in Nat
           /\ \A T \in SUBSET S : IsFiniteSet(T) /\ Cardinality(T) \in Nat /\ Cardinality(T) <= Cardinality(S)
           /\ \A b : IsFiniteSet(S \cup {b}) /\ Cardinality(S \cup {b}) <= Cardinality(S) + 1
           /\ \A b \in S : Cardinality(S \ {b}) = Cardinality(S) - 1 /\ Cardinality(S) > 0
<1>1. IsFiniteSet(Board)
  BY FleetAssumption, FS_Interval DEF FleetAssumption, Board
<1>2. IsFiniteSet(S) /\ Cardinality(S) \in Nat
  BY <1>1, FS_Subset, FS_CardinalityType
<1>3. \A T \in SUBSET S : IsFiniteSet(T) /\ Cardinality(T) \in Nat /\ Cardinality(T) <= Cardinality(S)
  BY <1>2, FS_Subset, FS_CardinalityType
<1>4. \A b : IsFiniteSet(S \cup {b}) /\ Cardinality(S \cup {b}) <= Cardinality(S) + 1
  BY SMTT(20), <1>2, FS_AddElement
<1>5. \A b \in S : Cardinality(S \ {b}) = Cardinality(S) - 1 /\ Cardinality(S) > 0
  <2> TAKE b \in S
  <2>1. Cardinality(S \ {b}) = Cardinality(S) - 1
    BY <1>2, FS_RemoveElement
  <2>2. Cardinality(S \ {b}) \in Nat
    BY <1>3
  <2> QED
    BY <1>2, <2>1, <2>2
<1> QED
  BY <1>2, <1>3, <1>4, <1>5

\* A tool that starts is counted before it runs, one that ended is not counted.
LEMMA StartToolCounted ==
    ASSUME BoardsTyped, inFlight \in Nat, CountersCover, NEW b \in Board, NEW tool, StartTool(b, tool)
    PROVE  inFlight' \in Nat /\ Cardinality(Writers') <= inFlight'
<1>1. Writers' \in SUBSET (Writers \cup {b})
  BY DEF StartTool, Writers, BoardsTyped
<1>2. Writers \in SUBSET Board /\ Writers \cup {b} \in SUBSET Board
  BY DEF Writers
<1>3. Cardinality(Writers') <= Cardinality(Writers \cup {b}) /\ Cardinality(Writers') \in Nat
      /\ Cardinality(Writers \cup {b}) \in Nat
  BY <1>1, <1>2, BoardSets
<1>4. Cardinality(Writers \cup {b}) <= Cardinality(Writers) + 1 /\ Cardinality(Writers) \in Nat
  BY <1>2, BoardSets
<1> QED
  BY <1>3, <1>4 DEF StartTool, CountersCover

\* A tool that ends leaves both counters covering the tools that still run.
LEMMA EndToolCounted ==
    ASSUME BoardsTyped, inFlight \in Nat, CountersCover, NEW b \in Board, process[b] \in UpgradeTools, EndTool(b)
    PROVE  inFlight' \in Nat /\ Cardinality(Writers') <= inFlight'
<1>1. Writers' = Writers \ {b}
  BY DEF EndTool, Writers, BoardsTyped, UpgradeTools
<1>2. Writers \in SUBSET Board /\ b \in Writers
  BY DEF Writers
<1>3. Cardinality(Writers') = Cardinality(Writers) - 1 /\ Cardinality(Writers) > 0 /\ Cardinality(Writers) \in Nat
  BY <1>1, <1>2, BoardSets
<1> QED
  BY <1>3 DEF EndTool, CountersCover

\* Every step keeps the counters covering the boards that run a tool.
LEMMA WritersCounted ==
    ASSUME TypeOK, CountersCover, Next
    PROVE  inFlight' \in Nat /\ Cardinality(Writers') <= inFlight'
<1>a. BoardsTyped /\ inFlight \in Nat
  BY DEF TypeOK, RunTyped
<1>b. ASSUME UNCHANGED inFlight, Writers' = Writers PROVE inFlight' \in Nat /\ Cardinality(Writers') <= inFlight'
  BY <1>a, <1>b DEF CountersCover
<1>c. ASSUME UNCHANGED tools PROVE inFlight' \in Nat /\ Cardinality(Writers') <= inFlight'
  BY <1>b, <1>c DEF tools, Writers
<1>1. ASSUME NEW b \in Board, StartWrite(b) \/ StartVerify(b) \/ StartReset(b) \/ StartUndo(b)
      PROVE  inFlight' \in Nat /\ Cardinality(Writers') <= inFlight'
  <2>1. PICK tool : StartTool(b, tool)
    BY <1>1 DEF StartWrite, StartVerify, StartReset, StartUndo
  <2> QED
    BY <2>1, <1>a, StartToolCounted
<1>2. ASSUME CallStep PROVE inFlight' \in Nat /\ Cardinality(Writers') <= inFlight'
  <2>1. CASE UNCHANGED tools
    BY <2>1, <1>c
  <2> QED
    BY ZenonT(60), <1>2, <1>1, <2>1 DEF CallStep, StartBoard, CheckUnanswered, LaunchCancelled, CheckNow, QueueCheck,
       AnswerCheck, CheckPasses, LeftBeforeWrite, LeftBeforeReset, LaunchLater, NoFolder, FillEnds,
       AfterAnswers, StartNextGateLd, MaybeFinishRun
<1>3. ASSUME NEW b \in Board, ToolStep(b) PROVE inFlight' \in Nat /\ Cardinality(Writers') <= inFlight'
  <2>1. CASE process[b] \in UpgradeTools /\ EndTool(b)
    BY <2>1, <1>a, EndToolCounted
  <2>2. CASE \E tool \in AdbTools : \E next \in AdbTools \cup {"none"} : AdbEnds(b, tool, next)
    <3>1. Writers' = Writers
      BY <2>2, <1>a DEF AdbEnds, Writers, BoardsTyped, UpgradeTools, AdbTools
    <3> QED
      BY <3>1, <2>2, <1>b DEF AdbEnds
  <2>3. ASSUME NEW tool \in UpgradeTools, Ends(b, tool) PROVE process[b] \in UpgradeTools /\ EndTool(b)
    BY <2>3 DEF Ends
  <2>4. CASE \/ WriteOk(b) \/ VerifyOk(b) \/ WriteFails(b) \/ WriteFindsNobody(b) \/ ResetOk(b) \/ ResetFails(b)
             \/ ResetFindsNobody(b) \/ UndoOk(b) \/ UndoFails(b) \/ UndoFindsNobody(b)
    BY <2>4, <2>1, <2>3 DEF WriteOk, VerifyOk, WriteFails, WriteFindsNobody, ResetOk, ResetFails,
       ResetFindsNobody, UndoOk, UndoFails, UndoFindsNobody, UpgradeTools
  <2>5. CASE GetStateNo(b) \/ GetStateDevice(b) \/ GetStateLate(b) \/ InfoEnds(b) \/ RfmcuEnds(b)
    BY <2>5, <2>2 DEF GetStateNo, GetStateDevice, GetStateLate, InfoEnds, RfmcuEnds, AdbTools
  <2> QED
    BY <1>3, <2>4, <2>5 DEF ToolStep
<1>4. ASSUME AdbTick PROVE inFlight' \in Nat /\ Cardinality(Writers') <= inFlight'
  <2> DEFINE free == {b \in Waiting : process[b] = "none"}
             over == {b \in free : waitOver[b]}
  <2>0. process' = [b \in Board |-> IF b \in free \ over THEN "getState" ELSE process[b]]
    BY <1>4 DEF AdbTick
  <2>1. \A b \in Board : process'[b] = process[b] \/ (process[b] = "none" /\ process'[b] = "getState")
    BY <2>0
  <2>2. Writers' = Writers
    BY <2>1 DEF Writers, UpgradeTools
  <2> QED
    BY <2>2, <1>4, <1>b DEF AdbTick
<1>5. ASSUME \/ DeviceStep \/ GateLdEnds \/ ListingAges \/ Cancel \/ CloseStep \/ Finished
             \/ \E b \in Board : WaitElapses(b)
      PROVE  inFlight' \in Nat /\ Cardinality(Writers') <= inFlight'
  BY <1>5, <1>c DEF DeviceStep, BrownOut, ComesBack, StrangerArrives, GateLdEnds, ListingAges, Cancel,
     CloseStep, CloseRun, CloseBlind, Finished, vars, WaitElapses
<1> QED
  BY <1>2, <1>3, <1>4, <1>5 DEF Next

\* The count of the boards reset back to ADB, and the rest of the report.
LEMMA ReportInv ==
    ASSUME TypeOK, CountersCover, Next
    PROVE  ReportTyped' /\ Cardinality(ResetBoards') <= resetCount'
<1> USE DEF Results
<1>a. ReportTyped /\ BoardsTyped /\ DevicesTyped /\ Cardinality(ResetBoards) <= resetCount /\ resetCount \in Nat
  BY DEF TypeOK, ReportTyped, CountersCover
<1>r. \A b \in Board : RetryLines(b) \in SUBSET (Row \cup {RDLine}) /\ {RDLine} \in SUBSET (Row \cup {RDLine})
  BY DEF RetryLines
<1>b. ASSUME UNCHANGED report PROVE ReportTyped' /\ Cardinality(ResetBoards') <= resetCount'
  BY <1>a, <1>b DEF report, ReportTyped, ResetBoards
<1>c. ASSUME NEW b \in Board, NEW inLoader \in BOOLEAN, NEW lines \in SUBSET (Row \cup {RDLine}), Left(b, inLoader, lines)
      PROVE  ReportTyped' /\ Cardinality(ResetBoards') <= resetCount'
  BY <1>a, <1>c DEF Left, ReportTyped, ResetBoards
<1>d. ASSUME NEW b \in Board, FailInLoader(b) PROVE ReportTyped' /\ Cardinality(ResetBoards') <= resetCount'
  BY <1>d, <1>c, <1>r DEF FailInLoader
<1>e. ASSUME NEW b \in Board, FailGone(b) \/ Left(b, ShowsLoader(b), {})
      PROVE  ReportTyped' /\ Cardinality(ResetBoards') <= resetCount'
  BY <1>e, <1>c DEF FailGone, ShowsLoader
<1>1. ASSUME CallStep PROVE ReportTyped' /\ Cardinality(ResetBoards') <= resetCount'
  <2>1. \/ \E b \in Board : CheckUnanswered(b) \/ \E what \in Whats : NoFolder(what, b)
        \/ UNCHANGED report
    <3>1. ASSUME NEW b \in Board,
                 StartBoard(b) \/ LaunchCancelled(b) \/ StartWrite(b) \/ StartVerify(b) \/ StartReset(b) \/ StartUndo(b)
          PROVE  UNCHANGED report
      BY <3>1 DEF StartBoard, LaunchCancelled, StartWrite, StartVerify, StartReset, StartUndo
    <3>2. ASSUME NEW b \in Board, NEW what \in Whats,
                 \/ CheckNow(b, what) \/ QueueCheck(b, what) \/ AnswerCheck(what, b)
                 \/ CheckPasses(b, what) \/ LeftBeforeWrite(b, what) \/ LeftBeforeReset(b, what)
                 \/ LaunchLater(what, b)
          PROVE  UNCHANGED report
      BY <3>2 DEF CheckNow, QueueCheck, AnswerCheck, CheckPasses, LeftBeforeWrite, LeftBeforeReset, LaunchLater
    <3>3. ASSUME FillEnds \/ AfterAnswers \/ StartNextGateLd \/ MaybeFinishRun PROVE UNCHANGED report
      BY <3>3 DEF FillEnds, AfterAnswers, StartNextGateLd, MaybeFinishRun
    <3> QED
      BY <1>1, <3>1, <3>2, <3>3 DEF CallStep
  <2>2. ASSUME NEW b \in Board, CheckUnanswered(b) \/ \E what \in Whats : NoFolder(what, b)
        PROVE  FailInLoader(b)
    BY <2>2 DEF CheckUnanswered, NoFolder
  <2> QED
    BY <2>1, <2>2, <1>b, <1>d
<1>2. ASSUME NEW b \in Board, UndoOk(b) PROVE ReportTyped' /\ Cardinality(ResetBoards') <= resetCount'
  <2>1. ResetBoards' = ResetBoards \cup {b}
    BY <1>2, <1>a DEF UndoOk, ResetBoards, ReportTyped
  <2>2. ResetBoards \in SUBSET Board
    BY DEF ResetBoards
  <2>3. Cardinality(ResetBoards') <= Cardinality(ResetBoards) + 1 /\ Cardinality(ResetBoards) \in Nat
    BY <2>1, <2>2, BoardSets
  <2>4. ResetBoards' \in SUBSET Board
    BY <2>1, <2>2
  <2>5. Cardinality(ResetBoards') \in Nat
    BY <2>4, BoardSets
  <2> QED
    BY <1>2, <1>a, <2>3, <2>5 DEF UndoOk, ReportTyped
<1>3. ASSUME NEW b \in Board, ToolStep(b) PROVE ReportTyped' /\ Cardinality(ResetBoards') <= resetCount'
  <2>1. CASE UNCHANGED report
    BY <2>1, <1>b
  <2>2. CASE UndoFails(b)
    BY <2>2, <1>c, <1>r DEF UndoFails
  <2> QED
    BY <1>3, <1>2, <1>d, <1>e, <2>1, <2>2 DEF ToolStep, WriteOk, VerifyOk, WriteFails, WriteFindsNobody,
       ResetOk, ResetFails, ResetFindsNobody, UndoFindsNobody, GetStateNo, GetStateDevice,
       GetStateLate, InfoEnds, RfmcuEnds
<1>4. ASSUME CloseRun PROVE ReportTyped' /\ Cardinality(ResetBoards') <= resetCount'
  <2>2. ResetBoards' = ResetBoards \ TakenBack
    BY <1>4 DEF CloseRun, ResetBoards, TakenBack
  <2>3. ResetBoards \in SUBSET Board /\ TakenBack \in SUBSET ResetBoards
    BY DEF ResetBoards, TakenBack
  <2>4. IsFiniteSet(ResetBoards) /\ Cardinality(ResetBoards) \in Nat /\ Cardinality(TakenBack) \in Nat
        /\ Cardinality(TakenBack) <= Cardinality(ResetBoards)
    BY <2>3, BoardSets
  <2>5. ResetBoards \cap TakenBack = TakenBack
    BY <2>3
  <2>6. Cardinality(ResetBoards') = Cardinality(ResetBoards) - Cardinality(TakenBack)
    <3>1. Cardinality(ResetBoards \ TakenBack) = Cardinality(ResetBoards) - Cardinality(ResetBoards \cap TakenBack)
      BY <2>4, FS_Difference
    <3> QED
      BY <3>1, <2>2, <2>5
  <2>7. resetCount' = resetCount - Cardinality(TakenBack)
    BY <1>4 DEF CloseRun
  <2>8. Cardinality(ResetBoards') <= resetCount' /\ resetCount' \in Nat
    BY <2>4, <2>6, <2>7, <1>a
  <2>9. \A b \in Board : NewId(b) \in Id
    <3> SUFFICES ASSUME NEW b \in Board PROVE NewId(b) \in Id
      OBVIOUS
    <3>1. LoaderIds \subseteq Id /\ locationId[b] \in Id
      BY <1>a, IdsTyped DEF ReportTyped
    <3>2. CASE Paired
      <4>1. StrayIds # {} /\ StrayIds \subseteq LoaderIds
        BY <3>2, FS_EmptySet DEF Paired
      <4> QED
        BY <4>1, <3>1 DEF NewId
    <3>3. CASE ~Paired
      BY <3>3, <3>1 DEF NewId
    <3> QED
      BY <3>2, <3>3
  <2>10. \A b \in Board : LinesAfter(b) \in SUBSET (Row \cup {RDLine})
    BY <1>a, <1>r DEF LinesAfter, ReportTyped
  <2>11. locationId' \in [Board -> Id] /\ retry' \in [Board -> SUBSET (Row \cup {RDLine})]
    BY <1>4, <1>a, <2>9, <2>10 DEF CloseRun, ReportTyped
  <2>12. leftInLoader' \in [Board -> BOOLEAN]
    <3>1. leftInLoader' = [b \in Board |-> leftInLoader[b] \/ Corrected(b)]
      BY <1>4 DEF CloseRun
    <3> QED
      BY <3>1
  <2>13. resetOk' \in [Board -> BOOLEAN]
    <3>1. resetOk' = [b \in Board |-> resetOk[b] /\ ~Corrected(b)]
      BY <1>4 DEF CloseRun
    <3> QED
      BY <3>1
  <2>14. unattributed' \subseteq Id
    BY <1>4, <1>a, IdsTyped DEF CloseRun, StrayIds
  <2> QED
    BY <2>8, <2>11, <2>12, <2>13, <2>14 DEF ReportTyped
<1>5. ASSUME \/ DeviceStep \/ GateLdEnds \/ ListingAges \/ Cancel \/ CloseBlind \/ AdbTick \/ Finished
             \/ \E b \in Board : WaitElapses(b)
      PROVE  ReportTyped' /\ Cardinality(ResetBoards') <= resetCount'
  BY <1>5, <1>b DEF DeviceStep, BrownOut, ComesBack, StrangerArrives, GateLdEnds, ListingAges, Cancel,
     CloseBlind, AdbTick, Finished, vars, WaitElapses
<1> QED
  BY <1>1, <1>3, <1>4, <1>5 DEF Next, CloseStep

-----------------------------------------------------------------------------
(* The gate and the slots.                                                 *)

\* What keeps LD and the tools apart: under the Gate policy an LD starts only
\* while the counter is 0, a tool only while no LD runs, and no check ever
\* waits for an LD after the one running.
GateApart == ~EveryWrite => gateNext = {} /\ (gateLdBusy => inFlight = 0)

\* The phase and the flags of the run keep their types, and the default gate is kept apart.
LEMMA RunInv ==
    ASSUME TypeOK, CountersCover, Next
    PROVE  RunTyped'
<1>a. RunTyped /\ BoardsTyped /\ DevicesTyped /\ LoaderIds \subseteq Id
  BY IdsTyped DEF TypeOK
<1>b. inFlight' \in Nat
  BY WritersCounted
<1>c. ASSUME UNCHANGED <<gate, run, gateWaiting, gateNext, afterGateLd>> PROVE RunTyped'
  BY <1>a, <1>b, <1>c DEF RunTyped, gate, run
<1>d. ASSUME NEW B, Release(B), UNCHANGED <<gate, afterGateLd>>,
             UNCHANGED run \/ \E b \in Board : EnterAdbWait(b) PROVE RunTyped'
  <2>1. gateWaiting' \subseteq Board /\ gateNext' \subseteq Board
    BY <1>a, <1>d DEF Release, RunTyped
  <2>2. phase' = phase /\ draining' = draining /\ closing' = closing /\ adbTimer' \in BOOLEAN
        /\ snapshotRunning' = snapshotRunning
    BY <1>a, <1>d DEF EnterAdbWait, run, RunTyped
  <2> QED
    BY <2>1, <2>2, <1>a, <1>b, <1>d DEF RunTyped, gate
<1>1. ASSUME NEW b \in Board, NEW what \in Whats, QueueCheck(b, what) PROVE RunTyped'
  <2>1. gateWaiting' \subseteq Board /\ gateNext' \subseteq Board
    BY <1>1, <1>a DEF QueueCheck, RunTyped
  <2> QED
    BY <2>1, <1>1, <1>a, <1>b DEF QueueCheck, StartGateLd, RunTyped, run
<1>2. ASSUME GateLdEnds PROVE RunTyped'
  BY <1>2, <1>a, <1>b DEF GateLdEnds, RunTyped, run
<1>3. ASSUME NEW b \in Board, NEW what \in Whats, LaunchLater(what, b) PROVE RunTyped'
  BY <1>3, <1>a, <1>b DEF LaunchLater, RunTyped, run, gate, ending, Job
<1>4. ASSUME AfterAnswers PROVE RunTyped'
  BY <1>4, <1>a, <1>b DEF AfterAnswers, RunTyped, run, gate, ending
<1>5. ASSUME StartNextGateLd PROVE RunTyped'
  BY <1>5, <1>a, <1>b DEF StartNextGateLd, StartGateLd, RunTyped, run, gate
<1>6. ASSUME NEW b \in Board, NEW what \in Whats,
             \/ CheckUnanswered(b) \/ LeftBeforeWrite(b, what) \/ LeftBeforeReset(b, what) \/ NoFolder(what, b)
             \/ LaunchCancelled(b)
      PROVE  RunTyped'
  BY <1>6, <1>d DEF CheckUnanswered, LeftBeforeWrite, LeftBeforeReset, NoFolder, LaunchCancelled,
     FailInLoader, EndBoard, EndBoards
<1>7. ASSUME MaybeFinishRun PROVE RunTyped'
  BY <1>7, <1>a, <1>b DEF MaybeFinishRun, RunTyped, gate, ending
<1>8. ASSUME CallStep PROVE RunTyped'
  <2>1. CASE UNCHANGED <<gate, run, gateWaiting, gateNext, afterGateLd>>
    BY <2>1, <1>c
  <2> QED
    <3>1. ASSUME NEW b \in Board, \/ StartBoard(b) \/ StartWrite(b) \/ StartVerify(b) \/ StartReset(b) \/ StartUndo(b)
          PROVE  UNCHANGED <<gate, run, gateWaiting, gateNext, afterGateLd>>
      BY <3>1 DEF StartBoard, StartWrite, StartVerify, StartReset, StartUndo, ending
    <3>2. ASSUME NEW b \in Board, NEW what \in Whats,
                 CheckNow(b, what) \/ AnswerCheck(what, b) \/ CheckPasses(b, what)
          PROVE  UNCHANGED <<gate, run, gateWaiting, gateNext, afterGateLd>>
      BY <3>2 DEF CheckNow, AnswerCheck, CheckPasses, ending
    <3>3. ASSUME FillEnds PROVE UNCHANGED <<gate, run, gateWaiting, gateNext, afterGateLd>>
      BY <3>3 DEF FillEnds, ending
    <3>4. ASSUME NEW b \in Board, CheckUnanswered(b) \/ LaunchCancelled(b) PROVE RunTyped'
      <4>1. "listing" \in Whats
        BY DEF Whats
      <4> QED
        BY <3>4, <4>1, <1>6
    <3> QED
      BY <1>8, <1>1, <1>3, <1>4, <1>5, <1>6, <1>7, <2>1, <3>1, <3>2, <3>3, <3>4 DEF CallStep
<1>9. ASSUME NEW b \in Board, ToolStep(b) PROVE RunTyped'
  <2>1. CASE UNCHANGED <<gate, run, gateWaiting, gateNext, afterGateLd>>
    BY <2>1, <1>c
  <2>2. CASE UNCHANGED <<gate, run, afterGateLd>> /\ \E B : Release(B)
    BY <2>2, <1>d
  <2>3. CASE ResetOk(b)
    BY <2>3, <1>d DEF ResetOk, EndBoard, EndBoards
  <2> QED
    BY <1>9, <2>1, <2>2, <2>3 DEF ToolStep, WriteOk, VerifyOk, WriteFails, WriteFindsNobody,
       ResetFails, ResetFindsNobody, UndoOk, UndoFails, UndoFindsNobody, GetStateNo, GetStateDevice,
       GetStateLate, InfoEnds, RfmcuEnds, FailInLoader, FailGone, EndBoard, EndBoards, ending
<1>10. ASSUME AdbTick PROVE RunTyped'
  <2>1. gateWaiting' \subseteq Board /\ gateNext' \subseteq Board /\ adbTimer' \in BOOLEAN
    BY <1>10, <1>a DEF AdbTick, EndBoards, Release, RunTyped
  <2> QED
    BY <2>1, <1>10, <1>a, <1>b DEF AdbTick, RunTyped, gate
<1>11. ASSUME Cancel PROVE RunTyped'
  <2>1. gateWaiting' \subseteq Board /\ gateNext' \subseteq Board
    BY <1>11, <1>a DEF Cancel, Release, RunTyped
  <2> QED
    BY <2>1, <1>11, <1>a, <1>b DEF Cancel, RunTyped, gate
<1>12. ASSUME ListingAges \/ CloseStep PROVE RunTyped'
  BY <1>12, <1>a, <1>b DEF ListingAges, CloseStep, CloseRun, CloseBlind, FinishRun, RunTyped, run, gate, ending
<1>13. ASSUME DeviceStep \/ Finished \/ \E b \in Board : WaitElapses(b) PROVE RunTyped'
  BY <1>13, <1>c DEF DeviceStep, BrownOut, ComesBack, StrangerArrives, Finished, vars, WaitElapses, ending
<1> QED
  BY <1>2, <1>8, <1>9, <1>10, <1>11, <1>12, <1>13 DEF Next

\* The queues of the gate hold jobs, and only the policy BeforeEveryWrite fills the next one.
LEMMA GateInv ==
    ASSUME TypeOK, CountersCover, GateApart, ~EveryWrite, Next
    PROVE  gateNext' = {} /\ (gateLdBusy' => inFlight' = 0)
<1>a. gateNext = {} /\ (gateLdBusy => inFlight = 0) /\ inFlight \in Nat /\ BoardsTyped
  BY DEF GateApart, TypeOK, RunTyped
<1>b. ASSUME gateNext' \subseteq gateNext, ~gateLdBusy' \/ UNCHANGED <<gateLdBusy, inFlight>>
      PROVE  gateNext' = {} /\ (gateLdBusy' => inFlight' = 0)
  BY <1>a, <1>b
<1>1. ASSUME NEW b \in Board, NEW what \in Whats, QueueCheck(b, what)
      PROVE  gateNext' = {} /\ (gateLdBusy' => inFlight' = 0)
  BY <1>1, <1>a DEF QueueCheck, AskNextLd, StartGateLd, tools
<1>2. ASSUME StartNextGateLd PROVE gateNext' = {} /\ (gateLdBusy' => inFlight' = 0)
  BY <1>2, <1>a DEF StartNextGateLd, gate, tools
<1>3. ASSUME NEW b \in Board, StartWrite(b) \/ StartVerify(b) \/ StartReset(b) \/ StartUndo(b)
      PROVE  gateNext' = {} /\ (gateLdBusy' => inFlight' = 0)
  BY <1>3, <1>a DEF StartWrite, StartVerify, StartReset, StartUndo, Launching, gate, ending
<1>4. ASSUME NEW b \in Board, \/ StartBoard(b) \/ CheckUnanswered(b) \/ LaunchCancelled(b)
      PROVE  gateNext' = {} /\ (gateLdBusy' => inFlight' = 0)
  BY <1>4, <1>b DEF StartBoard, CheckUnanswered, LaunchCancelled, FailInLoader, EndBoard, EndBoards, Release,
     gate, tools
<1>5. ASSUME NEW b \in Board, NEW what \in Whats,
             \/ CheckNow(b, what) \/ AnswerCheck(what, b) \/ CheckPasses(b, what)
             \/ LaunchLater(what, b)
      PROVE  gateNext' = {} /\ (gateLdBusy' => inFlight' = 0)
  BY <1>5, <1>b DEF CheckNow, AnswerCheck, CheckPasses, LaunchLater, gate, tools, ending
<1>6. ASSUME NEW b \in Board, NEW what \in Whats,
             LeftBeforeWrite(b, what) \/ LeftBeforeReset(b, what) \/ NoFolder(what, b)
      PROVE  gateNext' = {} /\ (gateLdBusy' => inFlight' = 0)
  BY <1>6, <1>b DEF LeftBeforeWrite, LeftBeforeReset, NoFolder, FailInLoader, EndBoard, EndBoards, Release,
     gate, tools
<1>7. ASSUME FillEnds \/ AfterAnswers \/ MaybeFinishRun
      PROVE  gateNext' = {} /\ (gateLdBusy' => inFlight' = 0)
  BY <1>7, <1>b DEF FillEnds, AfterAnswers, MaybeFinishRun, gate, tools, ending
<1>8. ASSUME NEW b \in Board, ToolStep(b) PROVE gateNext' = {} /\ (gateLdBusy' => inFlight' = 0)
  <2>1. UNCHANGED gateLdBusy /\ gateNext' \subseteq gateNext
    BY <1>8 DEF ToolStep, WriteOk, VerifyOk, WriteFails, WriteFindsNobody, ResetOk,
       ResetFails, ResetFindsNobody, UndoOk, UndoFails, UndoFindsNobody, GetStateNo, GetStateDevice,
       GetStateLate, InfoEnds, RfmcuEnds, FailInLoader, FailGone, EndBoard, EndBoards, Release, gate, ending
  <2>2. CASE UNCHANGED inFlight
    BY <2>1, <2>2, <1>b
  <2>3. CASE process[b] \in UpgradeTools
    <3>1. Cardinality(Writers) > 0
      <4>1. Writers \in SUBSET Board /\ b \in Writers
        BY <2>3 DEF Writers
      <4> QED
        BY <4>1, BoardSets
    <3>2. Cardinality(Writers) \in Nat
      <4>1. Writers \in SUBSET Board
        BY DEF Writers
      <4> QED
        BY <4>1, BoardSets
    <3>3. inFlight # 0
      BY <3>1, <3>2, <1>a DEF CountersCover
    <3> QED
      BY <3>3, <2>1, <1>a
  <2> QED
    BY <1>8, <2>2, <2>3 DEF ToolStep, WriteOk, VerifyOk, WriteFails, WriteFindsNobody, ResetOk,
       ResetFails, ResetFindsNobody, UndoOk, UndoFails, UndoFindsNobody, GetStateNo, GetStateDevice,
       GetStateLate, InfoEnds, RfmcuEnds, AdbEnds, Ends, UpgradeTools
<1>9. ASSUME \/ DeviceStep \/ ListingAges \/ CloseStep \/ Finished \/ Cancel
             \/ \E b \in Board : WaitElapses(b)
      PROVE  gateNext' = {} /\ (gateLdBusy' => inFlight' = 0)
  BY <1>9, <1>b DEF DeviceStep, BrownOut, ComesBack, StrangerArrives, ListingAges, CloseStep, CloseRun,
     CloseBlind, Finished, vars, WaitElapses, Cancel, Release, gate, tools, ending
<1>10. ASSUME AdbTick PROVE gateNext' = {} /\ (gateLdBusy' => inFlight' = 0)
  <2>1. gateNext' \subseteq gateNext
    BY <1>10 DEF AdbTick, EndBoards, Release
  <2> QED
    BY <2>1, <1>10, <1>b DEF AdbTick, gate
<1>11. ASSUME GateLdEnds PROVE gateNext' = {} /\ (gateLdBusy' => inFlight' = 0)
  BY <1>11, <1>b DEF GateLdEnds
<1>12. ASSUME CallStep PROVE gateNext' = {} /\ (gateLdBusy' => inFlight' = 0)
  BY <1>12, <1>1, <1>2, <1>3, <1>4, <1>5, <1>6, <1>7 DEF CallStep
<1> QED
  BY <1>8, <1>9, <1>10, <1>11, <1>12 DEF Next

\* Only fill() gives a slot, and only a free one.
LEMMA SlotInv ==
    ASSUME TypeOK, SlotLimit, Next
    PROVE  SlotLimit'
<1>a. BoardsTyped /\ MaxParallel \in Nat
  BY FleetAssumption DEF TypeOK, FleetAssumption
<1>s. SlotHolders \in SUBSET Board /\ Cardinality(SlotHolders) \in Nat /\ SlotsInUse = Cardinality(SlotHolders)
  BY BoardSets DEF SlotHolders, SlotsInUse
<1>b. ASSUME SlotHolders' \subseteq SlotHolders PROVE SlotLimit'
  <2>1. Cardinality(SlotHolders') <= Cardinality(SlotHolders) /\ Cardinality(SlotHolders') \in Nat
    BY <1>b, <1>s, BoardSets
  <2>2. SlotsInUse' = Cardinality(SlotHolders')
    BY DEF SlotHolders, SlotsInUse
  <2> QED
    BY <2>1, <2>2, <1>s, <1>a DEF SlotLimit
<1>c. ASSUME UNCHANGED inSlot PROVE SlotLimit'
  BY <1>b, <1>c DEF SlotHolders
<1>d. ASSUME NEW B, Release(B) PROVE SlotLimit'
  BY <1>b, <1>d DEF Release, SlotHolders
<1>1. ASSUME NEW b \in Board, StartBoard(b) PROVE SlotLimit'
  <2>1. SlotHolders' = SlotHolders \cup {b}
    BY <1>1, <1>a DEF StartBoard, SlotHolders, BoardsTyped
  <2>2. SlotHolders' \in SUBSET Board
    BY <2>1, <1>s
  <2>3. Cardinality(SlotHolders') <= Cardinality(SlotHolders) + 1 /\ Cardinality(SlotHolders') \in Nat
    BY <2>1, <2>2, <1>s, BoardSets
  <2>4. MaxParallel # 0 => Cardinality(SlotHolders) < MaxParallel
    BY <1>1, <1>s DEF StartBoard, MayStart, SlotFree
  <2>5. SlotsInUse' = Cardinality(SlotHolders')
    BY DEF SlotHolders, SlotsInUse
  <2> QED
    BY <2>3, <2>4, <2>5, <1>s, <1>a DEF SlotLimit
<1>2. ASSUME NEW b \in Board, CheckUnanswered(b) \/ LaunchCancelled(b) PROVE SlotLimit'
  BY <1>2, <1>d DEF CheckUnanswered, LaunchCancelled, FailInLoader, EndBoard, EndBoards
<1>3. ASSUME NEW b \in Board, NEW what \in Whats,
             LeftBeforeWrite(b, what) \/ LeftBeforeReset(b, what) \/ NoFolder(what, b)
      PROVE  SlotLimit'
  BY <1>3, <1>d DEF LeftBeforeWrite, LeftBeforeReset, NoFolder, FailInLoader, EndBoard, EndBoards
<1>4. ASSUME NEW b \in Board, NEW what \in Whats,
             \/ CheckNow(b, what) \/ QueueCheck(b, what) \/ AnswerCheck(what, b) \/ CheckPasses(b, what)
             \/ LaunchLater(what, b)
      PROVE  SlotLimit'
  BY <1>4, <1>c DEF CheckNow, QueueCheck, AnswerCheck, CheckPasses, LaunchLater, ending
<1>5. ASSUME NEW b \in Board, StartWrite(b) \/ StartVerify(b) \/ StartReset(b) \/ StartUndo(b) PROVE SlotLimit'
  BY <1>5, <1>c DEF StartWrite, StartVerify, StartReset, StartUndo, ending
<1>6. ASSUME FillEnds \/ AfterAnswers \/ StartNextGateLd \/ MaybeFinishRun PROVE SlotLimit'
  BY <1>6, <1>c DEF FillEnds, AfterAnswers, StartNextGateLd, MaybeFinishRun, ending
<1>7. ASSUME CallStep PROVE SlotLimit'
  BY <1>7, <1>1, <1>2, <1>3, <1>4, <1>5, <1>6 DEF CallStep
<1>8. ASSUME NEW b \in Board, ToolStep(b) PROVE SlotLimit'
  BY <1>8, <1>c, <1>d DEF ToolStep, WriteOk, VerifyOk, WriteFails, WriteFindsNobody, ResetOk, ResetFails,
     ResetFindsNobody, UndoOk, UndoFails, UndoFindsNobody, GetStateNo, GetStateDevice,
     GetStateLate, InfoEnds, RfmcuEnds, FailInLoader, FailGone, EndBoard, EndBoards, ending
<1>9. ASSUME AdbTick PROVE SlotLimit'
  <2>1. PICK over : EndBoards(over, "NotBack")
    BY <1>9 DEF AdbTick
  <2> QED
    BY <2>1, <1>d DEF EndBoards
<1>10. ASSUME Cancel PROVE SlotLimit'
  <2>1. PICK B : Release(B)
    BY <1>10 DEF Cancel
  <2> QED
    BY <2>1, <1>d
<1>11. ASSUME \/ DeviceStep \/ ListingAges \/ CloseStep \/ Finished \/ GateLdEnds
              \/ \E b \in Board : WaitElapses(b)
       PROVE  SlotLimit'
  BY <1>11, <1>c DEF DeviceStep, BrownOut, ComesBack, StrangerArrives, ListingAges, CloseStep, CloseRun,
     CloseBlind, Finished, vars, WaitElapses, GateLdEnds, ending
<1> QED
  BY <1>7, <1>8, <1>9, <1>10, <1>11 DEF Next

-----------------------------------------------------------------------------
(* Only complete writes are reset.                                         *)

Complete(b) == Row \subseteq written[b]

\* The boards a frame of stack s asks the check before the RD for.
RdAsked(s) == {b \in Board : \E i \in DOMAIN s : s[i].call = "requestCheck" /\ <<"RD", b>> \in s[i].jobs}

\* Pushing and popping frames asks the RD check for no board the frames do not name.
LEMMA RdAskedStack ==
    ASSUME NEW s \in Seq(Frames), NEW t \in Seq(Frames), NEW f \in Frames
    PROVE  /\ RdAsked(<< >>) = {}
           /\ s # << >> => RdAsked(Tail(s)) \subseteq RdAsked(s)
           /\ RdAsked(s \o t) \subseteq RdAsked(s) \cup RdAsked(t)
           /\ f.call # "requestCheck" => RdAsked(<<f>>) = {}
<1>1. RdAsked(<< >>) = {}
  BY DEF RdAsked
<1>2. ASSUME s # << >> PROVE RdAsked(Tail(s)) \subseteq RdAsked(s)
  <2> SUFFICES ASSUME NEW b \in RdAsked(Tail(s)) PROVE b \in RdAsked(s)
    OBVIOUS
  <2>1. PICK i \in DOMAIN Tail(s) : Tail(s)[i].call = "requestCheck" /\ <<"RD", b>> \in Tail(s)[i].jobs
    BY DEF RdAsked
  <2>2. i + 1 \in DOMAIN s /\ Tail(s)[i] = s[i + 1]
    BY <1>2, <2>1
  <2> QED
    BY <2>1, <2>2 DEF RdAsked
<1>3. RdAsked(s \o t) \subseteq RdAsked(s) \cup RdAsked(t)
  <2> SUFFICES ASSUME NEW b \in RdAsked(s \o t) PROVE b \in RdAsked(s) \cup RdAsked(t)
    OBVIOUS
  <2>1. PICK i \in DOMAIN (s \o t) : (s \o t)[i].call = "requestCheck" /\ <<"RD", b>> \in (s \o t)[i].jobs
    BY DEF RdAsked
  <2>2. CASE i \in DOMAIN s
    <3>1. (s \o t)[i] = s[i]
      BY <2>2
    <3> QED
      BY <3>1, <2>1, <2>2 DEF RdAsked
  <2>3. CASE i \notin DOMAIN s
    <3>1. i - Len(s) \in DOMAIN t /\ (s \o t)[i] = t[i - Len(s)]
      BY <2>1, <2>3
    <3> QED
      BY <3>1, <2>1 DEF RdAsked
  <2> QED
    BY <2>2, <2>3
<1>4. ASSUME f.call # "requestCheck" PROVE RdAsked(<<f>>) = {}
  BY <1>4 DEF RdAsked
<1> QED
  BY <1>1, <1>2, <1>3, <1>4

\* Only a row that is done asks for the check before the RD.
LEMMA RdAskedInv ==
    ASSUME TypeOK, Next
    PROVE  \/ RdAsked(agenda') \subseteq RdAsked(agenda)
           \/ \E b \in Board : /\ RowDone(b) /\ agenda = << >>
                              /\ RdAsked(agenda') \subseteq {x \in {b} : row[x] + 1 > NRows}
<1> DEFINE Kept == RdAsked(agenda') \subseteq RdAsked(agenda)
<1>a. agenda \in Seq(Frames) /\ RdAsked(<< >>) = {}
  BY RdAskedStack, FramesTyped DEF TypeOK
<1>b. ASSUME NEW call, Running(call) PROVE Return \in Seq(Frames) /\ RdAsked(Return) \subseteq RdAsked(agenda)
  BY <1>a, <1>b, StackTyped, RdAskedStack, FramesTyped DEF Running, Return
<1>c. ASSUME NEW f \in Frames, f.call # "requestCheck", NEW t \in Seq(Frames)
      PROVE  RdAsked(<<f>> \o t) \subseteq RdAsked(t)
  <2>1. <<f>> \in Seq(Frames)
    BY StackTyped
  <2> QED
    BY <2>1, <1>c, RdAskedStack
<1>d. ASSUME NEW call \in Calls \ {"requestCheck"}, NEW jobs \in SUBSET Job, NEW t \in Seq(Frames)
      PROVE  RdAsked(ForEach(call, jobs) \o t) \subseteq RdAsked(t) /\ ForEach(call, jobs) \o t \in Seq(Frames)
  <2>1. Frame(call, jobs) \in Frames /\ Frame(call, jobs).call # "requestCheck"
    BY DEF Frame, Frames
  <2>2. CASE jobs = {}
    <3>1. ForEach(call, jobs) \o t = t
      BY <2>2 DEF ForEach
    <3> QED
      BY <3>1
  <2>3. CASE jobs # {}
    <3>1. ForEach(call, jobs) \o t = <<Frame(call, jobs)>> \o t
      BY <2>3 DEF ForEach
    <3> QED
      BY <3>1, <2>1, <1>c, StackTyped
  <2> QED
    BY <2>2, <2>3
<1>e. ASSUME NEW call \in Calls \ {"requestCheck"}, NEW what \in Whats, NEW b \in Board, Doing(call, what, b)
      PROVE  RdAsked(Done(what, b)) \subseteq RdAsked(agenda) /\ Done(what, b) \in Seq(Frames)
  <2>1. Head(agenda) \in Frames /\ Return \in Seq(Frames) /\ RdAsked(Return) \subseteq RdAsked(agenda)
    BY <1>a, <1>b, <1>e, StackTyped DEF Doing, Running
  <2>2. Head(agenda).jobs \ {<<what, b>>} \in SUBSET Job /\ Head(agenda).call = call
    BY <2>1, <1>e DEF Frames, Doing, Running
  <2>3. Done(what, b) = ForEach(call, Head(agenda).jobs \ {<<what, b>>}) \o Return
    BY <2>2 DEF Done, Return
  <2>4. /\ RdAsked(ForEach(call, Head(agenda).jobs \ {<<what, b>>}) \o Return) \subseteq RdAsked(Return)
        /\ ForEach(call, Head(agenda).jobs \ {<<what, b>>}) \o Return \in Seq(Frames)
    BY <2>1, <2>2, <1>d
  <2> QED
    BY <2>1, <2>3, <2>4
<1>f. /\ \A b \in Board : \A w \in Whats : /\ EvaluateCheck(b, w).call # "requestCheck"
                                          /\ WhenGateFree(w, b).call # "requestCheck"
      /\ Fill.call # "requestCheck" /\ MaybeFinish.call # "requestCheck"
      /\ Frame("gateNext", {}).call # "requestCheck" /\ Frame("afterAnswers", {}).call # "requestCheck"
  BY DEF EvaluateCheck, WhenGateFree, Fill, MaybeFinish, Frame
<1>g. /\ {"fill", "maybeFinishRun", "answer", "evaluateCheck", "whenGateFree", "afterAnswers", "gateNext"}
             \subseteq Calls \ {"requestCheck"}
      /\ {"WL", "RD", "listing", "port", "error", "checked", "verify", "undo"} \subseteq Whats
  BY DEF Calls, Whats
<1>h. ASSUME agenda' = <<Fill>> PROVE Kept
  <2>1. RdAsked(<<Fill>>) = {}
    BY <1>a, <1>f, RdAskedStack, FramesTyped
  <2> QED
    BY <2>1, <1>h
<1>1. ASSUME NEW b \in Board, StartBoard(b) PROVE Kept
  <2>1. RdAsked(<<RequestCheck(b, FALSE)>>) = {}
    BY DEF RdAsked, RequestCheck, Frame
  <2>2. <<RequestCheck(b, FALSE)>> \in Seq(Frames)
    BY FramesTyped, StackTyped, <1>a
  <2>3. RdAsked(<<RequestCheck(b, FALSE)>> \o agenda) \subseteq RdAsked(<<RequestCheck(b, FALSE)>>) \cup RdAsked(agenda)
    BY <2>2, <1>a, RdAskedStack, FramesTyped
  <2> QED
    BY <1>1, <2>1, <2>3 DEF StartBoard
<1>2. ASSUME FillEnds \/ StartNextGateLd \/ MaybeFinishRun PROVE Kept
  BY <1>2, <1>b, <1>c, <1>f, FramesTyped DEF FillEnds, StartNextGateLd, MaybeFinishRun
<1>3. ASSUME AfterAnswers PROVE Kept
  <2>1. Return \in Seq(Frames) /\ RdAsked(Return) \subseteq RdAsked(agenda) /\ afterGateLd \in SUBSET Job
    BY <1>3, <1>b DEF AfterAnswers, TypeOK, RunTyped
  <2>2. <<MaybeFinish>> \o Return \in Seq(Frames) /\ RdAsked(<<MaybeFinish>> \o Return) \subseteq RdAsked(Return)
    BY <2>1, <1>c, <1>f, FramesTyped, StackTyped
  <2>3. LET t == <<Frame("gateNext", {})>> \o (<<MaybeFinish>> \o Return)
        IN  t \in Seq(Frames) /\ RdAsked(t) \subseteq RdAsked(Return)
    BY <2>2, <1>c, <1>f, FramesTyped, StackTyped
  <2>4. agenda' = ForEach("whenGateFree", afterGateLd) \o (<<Frame("gateNext", {})>> \o (<<MaybeFinish>> \o Return))
    <3>1. /\ ForEach("whenGateFree", afterGateLd) \in Seq(Frames)
          /\ Frame("gateNext", {}) \in Frames /\ MaybeFinish \in Frames
      BY <2>1, <1>g, FramesTyped
    <3>2. agenda' = ForEach("whenGateFree", afterGateLd) \o <<Frame("gateNext", {}), MaybeFinish>> \o Return
      BY <1>3 DEF AfterAnswers
    <3> HIDE DEF Return
    <3> QED
      BY <3>1, <3>2, <2>1
  <2> QED
    BY <2>1, <2>3, <2>4, <1>d, <1>g
<1>4. ASSUME NEW b \in Board, NEW what \in Whats, CheckNow(b, what) \/ QueueCheck(b, what) PROVE Kept
  <2>1. Return \in Seq(Frames) /\ RdAsked(Return) \subseteq RdAsked(agenda)
    BY <1>4, <1>b DEF CheckNow, QueueCheck, Doing
  <2> QED
    BY <2>1, <1>4, <1>c, <1>f, <1>g, FramesTyped DEF CheckNow, QueueCheck
<1>5. ASSUME NEW b \in Board, NEW what \in Whats,
             CheckPasses(b, what) \/ LeftBeforeWrite(b, what) \/ LeftBeforeReset(b, what)
      PROVE  Kept
  <2>1. Return \in Seq(Frames) /\ RdAsked(Return) \subseteq RdAsked(agenda)
    BY <1>5, <1>b DEF CheckPasses, LeftBeforeWrite, LeftBeforeReset, Evaluating, Doing
  <2> QED
    BY <2>1, <1>5, <1>c, <1>f, <1>g, FramesTyped DEF CheckPasses, LeftBeforeWrite, LeftBeforeReset
<1>6. ASSUME NEW b \in Board, CheckUnanswered(b) PROVE Kept
  <2>1. Return \in Seq(Frames) /\ RdAsked(Return) \subseteq RdAsked(agenda)
    BY <1>6, <1>b DEF CheckUnanswered, Evaluating, Doing
  <2> QED
    BY <2>1, <1>6, <1>c, <1>f, FramesTyped DEF CheckUnanswered
<1>7. ASSUME NEW b \in Board, NEW what \in Whats, AnswerCheck(what, b) \/ LaunchLater(what, b) \/ NoFolder(what, b)
      PROVE  Kept
  <2>1. RdAsked(Done(what, b)) \subseteq RdAsked(agenda) /\ Done(what, b) \in Seq(Frames)
    BY <1>7, <1>e, <1>g DEF AnswerCheck, LaunchLater, NoFolder, Launching
  <2> QED
    BY <2>1, <1>7, <1>c, <1>f, <1>g, FramesTyped DEF AnswerCheck, LaunchLater, NoFolder
<1>8. ASSUME NEW b \in Board, LaunchCancelled(b) \/ StartWrite(b) \/ StartReset(b) PROVE Kept
  <2>1. RdAsked(Done("checked", b)) \subseteq RdAsked(agenda) /\ Done("checked", b) \in Seq(Frames)
    BY <1>8, <1>e, <1>g DEF LaunchCancelled, StartWrite, StartReset, Launching
  <2> QED
    BY <2>1, <1>8, <1>c, <1>f, <1>g, FramesTyped DEF LaunchCancelled, StartWrite, StartReset
<1>9. ASSUME NEW b \in Board, StartVerify(b) \/ StartUndo(b) PROVE Kept
  BY <1>9, <1>e, <1>g DEF StartVerify, StartUndo, Launching
<1>10. ASSUME NEW b \in Board, RowDone(b) PROVE RdAsked(agenda') \subseteq {x \in {b} : row[x] + 1 > NRows}
  BY <1>10 DEF RowDone, RdAsked, RequestCheck, Fill, Frame
<1>11. ASSUME NEW b \in Board, ToolStep(b) PROVE (RowDone(b) /\ agenda = << >>) \/ Kept
  <2>1. CASE agenda' = <<WhenGateFree("verify", b)>>
    <3>1. RdAsked(<<WhenGateFree("verify", b)>>) = {}
      BY <1>a, <1>f, <1>g, RdAskedStack, FramesTyped
    <3> QED
      BY <3>1, <2>1
  <2>2. CASE WriteOk(b)
    BY <2>1, <2>2 DEF WriteOk, Ends, Idle
  <2>3. CASE VerifyOk(b)
    BY <2>3 DEF VerifyOk, Ends, Idle
  <2>4. CASE \/ WriteFails(b) \/ WriteFindsNobody(b) \/ ResetOk(b) \/ ResetFails(b) \/ ResetFindsNobody(b)
             \/ UndoOk(b) \/ UndoFails(b) \/ UndoFindsNobody(b) \/ GetStateLate(b) \/ RfmcuEnds(b)
    <3>1. agenda' = <<Fill>>
      BY <2>4 DEF WriteFails, WriteFindsNobody, ResetOk, ResetFails, ResetFindsNobody, UndoOk, UndoFails,
             UndoFindsNobody, GetStateLate, RfmcuEnds
    <3> QED
      BY <3>1, <1>h
  <2>5. CASE GetStateNo(b) \/ GetStateDevice(b) \/ InfoEnds(b)
    BY <2>5 DEF GetStateNo, GetStateDevice, InfoEnds
  <2> QED
    BY <1>11, <2>2, <2>3, <2>4, <2>5 DEF ToolStep
<1>12. ASSUME AdbTick PROVE Kept
  BY <1>12, <1>a, <1>h DEF AdbTick
<1>13. ASSUME Cancel PROVE Kept
  <2>1. PICK B \in SUBSET Board : agenda' = ForEach("whenGateFree", {"undo"} \X B) \o <<MaybeFinish>>
    BY <1>13 DEF Cancel, Mapped, NotStarted
  <2>2. {"undo"} \X B \in SUBSET Job
    BY <1>g DEF Job
  <2>3. <<MaybeFinish>> \in Seq(Frames) /\ RdAsked(<<MaybeFinish>>) = {}
    BY <1>a, <1>f, RdAskedStack, StackTyped, FramesTyped
  <2> QED
    BY ZenonT(60), <2>1, <2>2, <2>3, <1>d, <1>g
<1>14. ASSUME GateLdEnds PROVE Kept
  <2>1. PICK e \in {"listing", "error"} :
           agenda' = ForEach("answer", {e} \X gateWaiting) \o <<Frame("afterAnswers", {})>>
    BY <1>14 DEF GateLdEnds
  <2>2. {e} \X gateWaiting \in SUBSET Job
    BY <1>g DEF Job, TypeOK, RunTyped
  <2>3. <<Frame("afterAnswers", {})>> \in Seq(Frames) /\ RdAsked(<<Frame("afterAnswers", {})>>) = {}
    BY <1>a, <1>f, RdAskedStack, StackTyped, FramesTyped
  <2> QED
    BY ZenonT(60), <2>1, <2>2, <2>3, <1>d, <1>g
<1>15. ASSUME DeviceStep \/ ListingAges \/ CloseStep \/ Finished \/ \E b \in Board : WaitElapses(b) PROVE Kept
  BY <1>15 DEF DeviceStep, BrownOut, ComesBack, StrangerArrives, ListingAges, CloseStep, CloseRun,
     CloseBlind, Finished, vars, WaitElapses
<1>16. ASSUME CallStep PROVE Kept
  BY <1>16, <1>1, <1>2, <1>3, <1>4, <1>5, <1>6, <1>7, <1>8, <1>9 DEF CallStep
<1> QED
  BY <1>10, <1>11, <1>12, <1>13, <1>14, <1>15, <1>16 DEF Next

\* Whatever leads to the RD, or follows it, happens to complete boards only.
CompleteInv ==
    \A b \in Board :
        /\ 1..(row[b] - 1) \subseteq written[b]
        /\ \/ checkBeforeRd[b]
           \/ process[b] \in {"RD", "getState", "info", "rfmcu"}
           \/ stage[b] = "WaitingForAdb"
           \/ result[b] \in {"Done", "NotBack"}
           \/ b \in RdAsked(agenda)
           => Complete(b)

\* No row is taken back, so what is complete stays complete.
LEMMA WrittenGrows ==
    ASSUME TypeOK, Next
    PROVE  \A b \in Board : written[b] \subseteq written'[b]
<1>a. ASSUME CallStep PROVE UNCHANGED written
  <2>1. ASSUME NEW b \in Board, NEW what \in Whats,
               \/ CheckNow(b, what) \/ QueueCheck(b, what) \/ AnswerCheck(what, b) \/ CheckPasses(b, what)
               \/ LeftBeforeWrite(b, what) \/ LeftBeforeReset(b, what) \/ LaunchLater(what, b) \/ NoFolder(what, b)
        PROVE  UNCHANGED written
    BY <2>1 DEF CheckNow, QueueCheck, AnswerCheck, CheckPasses, LeftBeforeWrite, LeftBeforeReset, LaunchLater,
       NoFolder, progress
  <2> QED
    BY ZenonT(60), <1>a, <2>1 DEF CallStep, StartBoard, CheckUnanswered, LaunchCancelled, StartWrite, StartVerify,
       StartReset, StartUndo, FillEnds, AfterAnswers, StartNextGateLd, MaybeFinishRun, progress
<1>b. ASSUME NEW b \in Board, ToolStep(b) PROVE UNCHANGED written \/ RowDone(b)
  BY <1>b DEF ToolStep, WriteOk, VerifyOk, WriteFails, WriteFindsNobody, ResetOk, ResetFails,
     ResetFindsNobody, UndoOk, UndoFails, UndoFindsNobody, GetStateNo, GetStateDevice, GetStateLate,
     InfoEnds, RfmcuEnds, progress
<1>1. UNCHANGED written \/ \E b \in Board : RowDone(b)
  BY <1>a, <1>b DEF Next, DeviceStep, BrownOut, ComesBack, StrangerArrives, WaitElapses, GateLdEnds, ListingAges,
     AdbTick, Cancel, CloseStep, CloseRun, CloseBlind, Finished, vars, progress
<1>2. written \in [Board -> SUBSET (Nat \ {0})]
  BY DEF TypeOK, BoardsTyped
<1> QED
  BY <1>1, <1>2 DEF RowDone

\* Every stage and every frame that leads to the RD carries a complete board.
LEMMA CompleteStep ==
    ASSUME TypeOK, CompleteInv, Next
    PROVE  CompleteInv'
<1>a. BoardsTyped
  BY DEF TypeOK
<1>1. ASSUME UNCHANGED row, RdAsked(agenda') \subseteq RdAsked(agenda),
             \A b \in Board : \/ checkBeforeRd'[b] /\ ~checkBeforeRd[b]
                              \/ process'[b] \in {"RD", "getState", "info", "rfmcu"} /\ process'[b] # process[b]
                              \/ stage'[b] = "WaitingForAdb" /\ stage'[b] # stage[b]
                              \/ result'[b] \in {"Done", "NotBack"} /\ result'[b] # result[b]
                              => Complete(b)
      PROVE  CompleteInv'
  <2> SUFFICES ASSUME NEW b \in Board
               PROVE  /\ 1..(row'[b] - 1) \subseteq written'[b]
                      /\ \/ checkBeforeRd'[b]
                         \/ process'[b] \in {"RD", "getState", "info", "rfmcu"}
                         \/ stage'[b] = "WaitingForAdb"
                         \/ result'[b] \in {"Done", "NotBack"}
                         \/ b \in RdAsked(agenda')
                         => Complete(b)'
    BY DEF CompleteInv
  <2>0. written[b] \subseteq written'[b] /\ (Complete(b) => Complete(b)')
    <3>1. written[b] \subseteq written'[b]
      BY WrittenGrows
    <3> QED
      BY <3>1 DEF Complete
  <2>1. 1..(row'[b] - 1) \subseteq written'[b]
    <3>1. 1..(row[b] - 1) \subseteq written[b]
      BY DEF CompleteInv
    <3>2. row'[b] = row[b]
      BY <1>1
    <3> QED
      BY <2>0, <3>1, <3>2
  <2>2. CASE checkBeforeRd'[b]
    BY <2>0, <2>1, <2>2, <1>1 DEF CompleteInv
  <2>3. CASE process'[b] \in {"RD", "getState", "info", "rfmcu"}
    BY <2>0, <2>1, <2>3, <1>1 DEF CompleteInv
  <2>4. CASE stage'[b] = "WaitingForAdb"
    BY <2>0, <2>1, <2>4, <1>1 DEF CompleteInv
  <2>5. CASE result'[b] \in {"Done", "NotBack"}
    BY <2>0, <2>1, <2>5, <1>1 DEF CompleteInv
  <2>6. CASE b \in RdAsked(agenda')
    BY <2>0, <2>1, <2>6, <1>1 DEF CompleteInv
  <2> QED
    BY <2>1, <2>2, <2>3, <2>4, <2>5, <2>6
<1>2. ASSUME NEW b \in Board, RowDone(b), Ends(b, "WL") \/ Ends(b, "RL"), UNCHANGED <<ending, report>> PROVE CompleteInv'
  <2>1. RdAsked(agenda') \subseteq {x \in {b} : row[x] + 1 > NRows}
    BY <1>2 DEF RowDone, RdAsked, RequestCheck, Fill, Frame
  <2>2. /\ written' = [written EXCEPT ![b] = @ \cup {row[b]}] /\ row' = [row EXCEPT ![b] = @ + 1]
        /\ UNCHANGED <<checkBeforeRd, stage, result>> /\ process' = [process EXCEPT ![b] = "none"]
    BY <1>2 DEF RowDone, Ends, EndTool, ending
  <2>3. row[b] \in Nat /\ NRows \in Nat
    BY <1>a, FleetAssumption DEF BoardsTyped, FleetAssumption
  <2>4. \A x \in Board : 1..(row'[x] - 1) \subseteq written'[x]
    BY <2>2, <2>3, <1>a DEF CompleteInv, BoardsTyped
  <2>5. row[b] + 1 > NRows => Row \subseteq written'[b]
    BY <2>2, <2>3, <2>4, <1>a DEF Row, BoardsTyped
  <2>6. \A x \in Board : Complete(x) => Row \subseteq written'[x]
    BY <2>2, <1>a DEF Complete, BoardsTyped
  <2> SUFFICES ASSUME NEW x \in Board,
                      \/ checkBeforeRd'[x]
                      \/ process'[x] \in {"RD", "getState", "info", "rfmcu"}
                      \/ stage'[x] = "WaitingForAdb"
                      \/ result'[x] \in {"Done", "NotBack"}
                      \/ x \in RdAsked(agenda')
               PROVE  Row \subseteq written'[x]
    BY <2>4 DEF CompleteInv, Complete
  <2>7. CASE x \in RdAsked(agenda')
    BY <2>1, <2>5, <2>7
  <2>8. CASE x \notin RdAsked(agenda')
    <3>1. Complete(x)
      BY <2>2, <2>8, <1>a DEF CompleteInv, BoardsTyped
    <3> QED
      BY <3>1, <2>6
  <2> QED
    BY <2>7, <2>8
<1>3. ASSUME UNCHANGED row \/ agenda # << >> PROVE RdAsked(agenda') \subseteq RdAsked(agenda)
  <2>1. ASSUME NEW b \in Board, RowDone(b), agenda = << >> PROVE FALSE
    <3>1. row'[b] # row[b]
      BY <2>1, <1>a DEF RowDone, BoardsTyped
    <3> QED
      BY <3>1, <2>1, <1>3
  <2> QED
    BY <2>1, RdAskedInv
<1>4. ASSUME UNCHANGED <<row, checkBeforeRd, process, stage, result>> PROVE CompleteInv'
  BY <1>4, <1>1, <1>3
<1>5. ASSUME NEW b \in Board, StartBoard(b) PROVE CompleteInv'
  <2>1. RdAsked(agenda') \subseteq RdAsked(agenda)
    BY <1>5, <1>3 DEF StartBoard, Running
  <2>2. \A x \in Board : 1..(row'[x] - 1) \subseteq written'[x] /\ (Complete(x) => Complete(x)')
    <3>1. UNCHANGED written /\ row' = [row EXCEPT ![b] = 1]
      BY <1>5 DEF StartBoard
    <3> QED
      BY <3>1, <1>a DEF CompleteInv, BoardsTyped, Complete
  <2>3. \A x \in Board : stage'[x] = stage[x] \/ stage'[x] = "Writing"
    BY <1>5, <1>a DEF StartBoard, BoardsTyped
  <2> QED
    BY <2>1, <2>2, <2>3, <1>5 DEF StartBoard, CompleteInv, tools
<1>6. ASSUME NEW b \in Board, NEW what \in Whats, CheckNow(b, what) \/ QueueCheck(b, what) PROVE CompleteInv'
  <2>1. UNCHANGED <<row, stage, result, process>> /\ checkBeforeRd' = [checkBeforeRd EXCEPT ![b] = what = "RD"]
    BY <1>6 DEF CheckNow, QueueCheck, ending, tools
  <2>2. what = "RD" => b \in RdAsked(agenda)
    <3>1. agenda # << >> /\ Head(agenda).call = "requestCheck" /\ <<what, b>> \in Head(agenda).jobs
      BY <1>6 DEF CheckNow, QueueCheck, Doing, Running
    <3>2. 1 \in DOMAIN agenda /\ Head(agenda) = agenda[1]
      BY <3>1 DEF TypeOK
    <3> QED
      BY <3>1, <3>2 DEF RdAsked
  <2>3. \A x \in Board : checkBeforeRd'[x] /\ ~checkBeforeRd[x] => Complete(x)
    BY <2>1, <2>2, <1>a DEF CompleteInv, BoardsTyped
  <2> QED
    BY <2>1, <2>3, <1>1, <1>3
<1>7. ASSUME NEW b \in Board, NEW B, NEW res \in Results \ {"Done", "NotBack"}, EndBoards(B, res),
             UNCHANGED <<row, checkBeforeRd>>,
             \A x \in Board : process'[x] \in {process[x], "none", "WL", "RL", "undo"}
      PROVE  CompleteInv'
  <2>1. \A x \in Board : /\ result'[x] \in {"Done", "NotBack"} => result'[x] = result[x]
                         /\ stage'[x] = "WaitingForAdb" => stage'[x] = stage[x]
                         /\ process'[x] \in {"RD", "getState", "info", "rfmcu"} => process'[x] = process[x]
    BY <1>7 DEF EndBoards
  <2> QED
    BY <2>1, <1>7, <1>1, <1>3
<1>8. ASSUME NEW b \in Board, CheckUnanswered(b) PROVE CompleteInv'
  BY <1>8, <1>7 DEF CheckUnanswered, FailInLoader, EndBoard, progress, tools, Results
<1>9. ASSUME NEW b \in Board, NEW what \in Whats, LeftBeforeWrite(b, what) \/ NoFolder(what, b) PROVE CompleteInv'
  BY <1>9, <1>7 DEF LeftBeforeWrite, NoFolder, FailInLoader, EndBoard, progress, tools, Results
<1>10. ASSUME NEW b \in Board, Complete(b), UNCHANGED <<row, checkBeforeRd>>,
              EndBoards({b}, "Done") \/ EndBoards({b}, "NotBack") \/ EnterAdbWait(b),
              \A x \in Board : process'[x] \in {process[x], "none"} \/ x = b
       PROVE  CompleteInv'
  <2>1. \A x \in Board : /\ result'[x] = result[x] \/ x = b
                         /\ stage'[x] = "WaitingForAdb" => stage'[x] = stage[x] \/ x = b
    BY <1>10, <1>a DEF EndBoards, EnterAdbWait, BoardsTyped
  <2> QED
    BY <2>1, <1>10, <1>1, <1>3
<1>11. ASSUME NEW b \in Board, NEW what \in Whats, LeftBeforeReset(b, what) PROVE CompleteInv'
  BY <1>11, <1>10 DEF LeftBeforeReset, EndBoard, CompleteInv, tools
<1>12. ASSUME NEW b \in Board, LaunchCancelled(b) PROVE CompleteInv'
  <2>1. \A x \in Board : stage'[x] = "WaitingForAdb" => stage'[x] = stage[x]
    BY <1>12, <1>a DEF LaunchCancelled, BoardsTyped
  <2> QED
    BY <2>1, <1>12, <1>1, <1>3 DEF LaunchCancelled, progress, tools
<1>13. ASSUME NEW b \in Board, StartWrite(b) \/ StartVerify(b) \/ StartUndo(b) PROVE CompleteInv'
  <2>1. \A x \in Board : process'[x] \in {"RD", "getState", "info", "rfmcu"} => process'[x] = process[x]
    BY <1>13, <1>a DEF StartWrite, StartVerify, StartUndo, StartTool, BoardsTyped
  <2> QED
    BY <2>1, <1>13, <1>1, <1>3 DEF StartWrite, StartVerify, StartUndo, progress, ending
<1>14. ASSUME NEW b \in Board, StartReset(b) PROVE CompleteInv'
  <2>1. \A x \in Board : /\ process'[x] = process[x] \/ x = b
                         /\ stage'[x] = "WaitingForAdb" => stage'[x] = stage[x]
    BY <1>14, <1>a DEF StartReset, StartTool, BoardsTyped
  <2>2. Complete(b)
    BY <1>14 DEF StartReset, CompleteInv
  <2> QED
    BY <2>1, <2>2, <1>14, <1>1, <1>3 DEF StartReset, progress
<1>15. ASSUME NEW b \in Board, NEW what \in Whats,
              AnswerCheck(what, b) \/ CheckPasses(b, what) \/ LaunchLater(what, b) PROVE CompleteInv'
  BY <1>15, <1>4 DEF AnswerCheck, CheckPasses, LaunchLater, progress, tools, ending
<1>16. ASSUME FillEnds \/ AfterAnswers \/ StartNextGateLd \/ MaybeFinishRun PROVE CompleteInv'
  BY <1>16, <1>4 DEF FillEnds, AfterAnswers, StartNextGateLd, MaybeFinishRun, progress, tools, ending
<1>17. ASSUME CallStep PROVE CompleteInv'
  BY <1>17, <1>5, <1>6, <1>8, <1>9, <1>11, <1>12, <1>13, <1>14, <1>15, <1>16 DEF CallStep
<1>18. ASSUME NEW b \in Board, ToolStep(b) PROVE CompleteInv'
  <2>1. ASSUME NEW tool, EndTool(b) \/ AdbEnds(b, tool, "none")
        PROVE  \A x \in Board : process'[x] \in {process[x], "none"}
    BY <2>1, <1>a DEF EndTool, AdbEnds, BoardsTyped
  <2>2. CASE WriteOk(b)
    <3>1. CASE Verify
      BY <3>1, <2>1, <2>2, <1>1, <1>3 DEF WriteOk, Ends, progress, ending
    <3>2. CASE ~Verify
      BY <3>2, <2>2, <1>2 DEF WriteOk
    <3> QED
      BY <3>1, <3>2
  <2>3. CASE VerifyOk(b)
    BY <2>3, <1>2 DEF VerifyOk
  <2>4. CASE \/ WriteFails(b) \/ WriteFindsNobody(b) \/ ResetFails(b) \/ ResetFindsNobody(b)
             \/ UndoOk(b) \/ UndoFails(b) \/ UndoFindsNobody(b)
    <3>1. UNCHANGED progress /\ EndTool(b) /\ (EndBoards({b}, "Failed") \/ EndBoards({b}, "Skipped"))
      BY <2>4 DEF WriteFails, WriteFindsNobody, ResetFails, ResetFindsNobody, UndoOk, UndoFails,
         UndoFindsNobody, FailInLoader, FailGone, EndBoard, Ends
    <3>2. \A x \in Board : process'[x] \in {process[x], "none"}
      BY <3>1, <2>1
    <3> QED
      BY <3>1, <3>2, <1>7 DEF progress, Results
  <2>5. CASE ResetOk(b)
    <3>1. Complete(b) /\ UNCHANGED progress /\ EndTool(b)
      BY <2>5 DEF ResetOk, Ends, CompleteInv
    <3>2. EndBoards({b}, "Done") \/ EnterAdbWait(b)
      BY <2>5 DEF ResetOk, EndBoard
    <3> QED
      BY <3>1, <3>2, <2>1, <1>10 DEF progress
  <2>6. CASE GetStateNo(b) \/ GetStateLate(b)
    <3>1. \A x \in Board : process'[x] \in {process[x], "none"}
      BY <2>6, <2>1 DEF GetStateNo, GetStateLate
    <3> QED
      BY <2>6, <3>1, <1>1, <1>3 DEF GetStateNo, GetStateLate, progress, ending
  <2>7. CASE GetStateDevice(b) \/ InfoEnds(b)
    <3>1. \A x \in Board : (process'[x] = process[x] \/ x = b) /\ (stage'[x] = "WaitingForAdb" => stage'[x] = stage[x])
      BY <2>7, <1>a DEF GetStateDevice, InfoEnds, AdbEnds, ending, BoardsTyped
    <3>2. Complete(b)
      BY <2>7 DEF GetStateDevice, InfoEnds, AdbEnds, CompleteInv
    <3> QED
      BY <2>7, <3>1, <3>2, <1>1, <1>3 DEF GetStateDevice, InfoEnds, progress, ending
  <2>8. CASE RfmcuEnds(b)
    <3>1. Complete(b)
      BY <2>8 DEF RfmcuEnds, AdbEnds, CompleteInv
    <3>2. \A x \in Board : process'[x] \in {process[x], "none"}
      BY <2>8, <2>1 DEF RfmcuEnds
    <3> QED
      BY <2>8, <3>1, <3>2, <1>10 DEF RfmcuEnds, EndBoard, progress
  <2> QED
    BY <1>18, <2>2, <2>3, <2>4, <2>5, <2>6, <2>7, <2>8 DEF ToolStep
<1>19. ASSUME AdbTick PROVE CompleteInv'
  <2> DEFINE free == {b \in Waiting : process[b] = "none"}
             over == {b \in free : waitOver[b]}
  <2>1. process' = [b \in Board |-> IF b \in free \ over THEN "getState" ELSE process[b]] /\ EndBoards(over, "NotBack")
    BY <1>19 DEF AdbTick
  <2>2. \A b \in Waiting : Complete(b)
    BY DEF Waiting, CompleteInv
  <2>3. \A b \in Board : /\ process'[b] # process[b] => b \in Waiting
                         /\ result'[b] # result[b] => b \in Waiting
                         /\ stage'[b] = "WaitingForAdb" => stage'[b] = stage[b]
    BY <2>1, <1>a DEF EndBoards, BoardsTyped
  <2> QED
    BY <1>19, <2>2, <2>3, <1>1, <1>3 DEF AdbTick, progress
<1>20. ASSUME Cancel PROVE CompleteInv'
  <2>1. \A b \in Waiting : Complete(b)
    BY DEF Waiting, CompleteInv
  <2>2. \A b \in Board : /\ result'[b] # result[b] => b \in Waiting
                         /\ stage'[b] = "WaitingForAdb" => stage'[b] = stage[b]
    BY <1>20, <1>a DEF Cancel, BoardsTyped
  <2> QED
    BY <1>20, <2>1, <2>2, <1>1, <1>3 DEF Cancel, progress, tools
<1>21. ASSUME \/ DeviceStep \/ ListingAges \/ CloseStep \/ Finished \/ GateLdEnds
              \/ \E b \in Board : WaitElapses(b)
       PROVE  CompleteInv'
  BY <1>21, <1>4 DEF DeviceStep, BrownOut, ComesBack, StrangerArrives, ListingAges, CloseStep, CloseRun,
     CloseBlind, Finished, vars, WaitElapses, GateLdEnds, progress, ending, tools
<1> QED
  BY <1>17, <1>18, <1>19, <1>20, <1>21 DEF Next

-----------------------------------------------------------------------------
(* A check is answered by an LD of its own, and a drain starts no board.   *)

\* Under BeforeEveryWrite a check asked while an LD runs waits for the next one.
LEMMA FreshStep ==
    ASSUME TypeOK, Next, EveryWrite, gateLdBusy, gateLdBusy'
    PROVE  gateWaiting' \subseteq gateWaiting
<1>1. ASSUME NEW b \in Board, NEW what \in Whats, QueueCheck(b, what) PROVE gateWaiting' \subseteq gateWaiting
  BY <1>1 DEF QueueCheck, AskNextLd
<1>2. ASSUME NEW b \in Board, NEW what \in Whats,
             \/ CheckNow(b, what) \/ AnswerCheck(what, b) \/ CheckPasses(b, what)
             \/ LaunchLater(what, b)
      PROVE  gateWaiting' \subseteq gateWaiting
  BY <1>2 DEF CheckNow, AnswerCheck, CheckPasses, LaunchLater, ending
<1>3. ASSUME NEW b \in Board, NEW what \in Whats,
             LeftBeforeWrite(b, what) \/ LeftBeforeReset(b, what) \/ NoFolder(what, b)
      PROVE  gateWaiting' \subseteq gateWaiting
  BY <1>3 DEF LeftBeforeWrite, LeftBeforeReset, NoFolder, FailInLoader, EndBoard, EndBoards, Release
<1>4. ASSUME NEW b \in Board,
             \/ StartBoard(b) \/ CheckUnanswered(b) \/ LaunchCancelled(b)
             \/ StartWrite(b) \/ StartVerify(b) \/ StartReset(b) \/ StartUndo(b)
      PROVE  gateWaiting' \subseteq gateWaiting
  BY <1>4 DEF StartBoard, CheckUnanswered, LaunchCancelled, StartWrite, StartVerify, StartReset, StartUndo,
     FailInLoader, EndBoard, EndBoards, Release, ending
<1>5. ASSUME FillEnds \/ AfterAnswers \/ StartNextGateLd \/ MaybeFinishRun PROVE gateWaiting' \subseteq gateWaiting
  BY <1>5 DEF FillEnds, AfterAnswers, StartNextGateLd, MaybeFinishRun, ending
<1>6. ASSUME NEW b \in Board, ToolStep(b) PROVE gateWaiting' \subseteq gateWaiting
  BY <1>6 DEF ToolStep, WriteOk, VerifyOk, WriteFails, WriteFindsNobody, ResetOk, ResetFails,
     ResetFindsNobody, UndoOk, UndoFails, UndoFindsNobody, GetStateNo, GetStateDevice,
     GetStateLate, InfoEnds, RfmcuEnds, FailInLoader, FailGone, EndBoard, EndBoards, Release, ending
<1>7. ASSUME AdbTick \/ Cancel \/ GateLdEnds PROVE gateWaiting' \subseteq gateWaiting
  BY <1>7 DEF AdbTick, Cancel, GateLdEnds, EndBoards, Release
<1>8. ASSUME DeviceStep \/ ListingAges \/ CloseStep \/ Finished \/ \E b \in Board : WaitElapses(b)
      PROVE  gateWaiting' \subseteq gateWaiting
  BY <1>8 DEF DeviceStep, BrownOut, ComesBack, StrangerArrives, ListingAges, CloseStep, CloseRun,
     CloseBlind, Finished, vars, WaitElapses, ending
<1>9. ASSUME CallStep PROVE gateWaiting' \subseteq gateWaiting
  BY <1>9, <1>1, <1>2, <1>3, <1>4, <1>5 DEF CallStep
<1> QED
  BY <1>6, <1>7, <1>8, <1>9 DEF Next

\* A board starts with its first WL, and a drain launches none.
LEMMA DrainStep ==
    ASSUME TypeOK, Next, NEW b \in Board, draining, ~started[b]
    PROVE  ~started'[b]
<1>a. started \in [Board -> BOOLEAN]
  BY DEF TypeOK, BoardsTyped
<1>1. ASSUME NEW x \in Board, StartWrite(x) PROVE ~started'[b]
  BY <1>1, <1>a DEF StartWrite, Revoked
<1>2. ASSUME CallStep, ~\E x \in Board : StartWrite(x) PROVE UNCHANGED started
  <2>1. ASSUME NEW x \in Board, NEW what \in Whats,
               \/ CheckNow(x, what) \/ QueueCheck(x, what) \/ AnswerCheck(what, x) \/ CheckPasses(x, what)
               \/ LeftBeforeWrite(x, what) \/ LeftBeforeReset(x, what) \/ LaunchLater(what, x) \/ NoFolder(what, x)
        PROVE  UNCHANGED started
    BY <2>1 DEF CheckNow, QueueCheck, AnswerCheck, CheckPasses, LeftBeforeWrite, LeftBeforeReset, LaunchLater,
       NoFolder, progress
  <2> QED
    BY ZenonT(60), <1>2, <2>1 DEF CallStep, StartBoard, CheckUnanswered, LaunchCancelled, StartVerify,
       StartReset, StartUndo, FillEnds, AfterAnswers, StartNextGateLd, MaybeFinishRun, progress
<1>3. ASSUME NEW x \in Board, ToolStep(x) PROVE UNCHANGED started
  BY <1>3 DEF ToolStep, WriteOk, VerifyOk, WriteFails, WriteFindsNobody, ResetOk, ResetFails, ResetFindsNobody,
     UndoOk, UndoFails, UndoFindsNobody, GetStateNo, GetStateDevice, GetStateLate, InfoEnds, RfmcuEnds, RowDone,
     progress
<1>4. ASSUME Next, ~CallStep, ~\E x \in Board : ToolStep(x) PROVE UNCHANGED started
  BY <1>4 DEF Next, DeviceStep, BrownOut, ComesBack, StrangerArrives, WaitElapses, GateLdEnds, ListingAges,
     AdbTick, Cancel, CloseStep, CloseRun, CloseBlind, Finished, vars, progress
<1> QED
  BY <1>1, <1>2, <1>3, <1>4

-----------------------------------------------------------------------------
(* The lines of a board name it.                                           *)

\* The one id that the closing picture lists and no board owns is that of the one
\* board that is there under an id of its own.
LEMMA NewIdNames ==
    ASSUME TypeOK, LinesNameTheBoard, NEW b \in Board
    PROVE  NewId(b)[1] = b
<1>1. CASE ~(Paired /\ ShowsLoader(b) /\ locationId[b] \notin ListedIds)
  BY <1>1 DEF NewId, LinesNameTheBoard
<1>2. CASE Paired /\ ShowsLoader(b) /\ locationId[b] \notin ListedIds
  <2>1. b \in InDownload /\ DeviceId(b) \in ListedIds /\ DeviceId(b)[1] = b
    BY <1>2 DEF TypeOK, DevicesTyped, ShowsLoader, InDownload, ListedIds, DeviceId
  <2>2. DeviceId(b) \in StrayIds
    BY <1>2, <2>1 DEF StrayIds, LinesNameTheBoard
  <2>3. \A id \in StrayIds : id = DeviceId(b)
    <3>1. StrayIds \subseteq Id /\ IsFiniteSet(StrayIds)
      <4>1. IsFiniteSet(Id)
        <5>1. 0 \in Int /\ 1 \in Int /\ NBoards \in Int /\ MaxGen \in Int
          BY FleetAssumption DEF FleetAssumption
        <5>2. IsFiniteSet(Board) /\ IsFiniteSet(0..MaxGen)
          BY <5>1, FS_Interval DEF Board
        <5>3. IsFiniteSet(Board \cup {Stranger})
          BY <5>2, FS_AddElement
        <5> QED
          BY <5>2, <5>3, FS_Product DEF Id
      <4>2. StrayIds \subseteq Id
        BY IdsTyped DEF StrayIds, TypeOK
      <4> QED
        BY <4>1, <4>2, FS_Subset
    <3>2. Cardinality(StrayIds) = 1
      BY <1>2 DEF Paired
    <3> QED
      BY <2>2, <3>1, <3>2, FS_Singleton
  <2>4. NewId(b) = DeviceId(b)
    BY <1>2, <2>2, <2>3 DEF NewId
  <2> QED
    BY <2>1, <2>4
<1> QED
  BY <1>1, <1>2

\* Only the closing picture changes the id of a board.
LEMMA NamesStep ==
    ASSUME TypeOK, LinesNameTheBoard, Next
    PROVE  LinesNameTheBoard'
<1>1. ASSUME CloseRun PROVE LinesNameTheBoard'
  BY <1>1, NewIdNames DEF CloseRun, LinesNameTheBoard
<1>2. ASSUME CallStep PROVE UNCHANGED locationId
  <2>1. ASSUME NEW x \in Board, NEW what \in Whats,
               \/ CheckNow(x, what) \/ QueueCheck(x, what) \/ AnswerCheck(what, x) \/ CheckPasses(x, what)
               \/ LeftBeforeWrite(x, what) \/ LeftBeforeReset(x, what) \/ LaunchLater(what, x) \/ NoFolder(what, x)
        PROVE  UNCHANGED locationId
    BY <2>1 DEF CheckNow, QueueCheck, AnswerCheck, CheckPasses, LeftBeforeWrite, LeftBeforeReset, LaunchLater,
       NoFolder, FailInLoader, Left, report
  <2> QED
    BY ZenonT(60), <1>2, <2>1 DEF CallStep, StartBoard, CheckUnanswered, LaunchCancelled, StartWrite, StartVerify,
       StartReset, StartUndo, FillEnds, AfterAnswers, StartNextGateLd, MaybeFinishRun, FailInLoader, Left, report
<1>3. ASSUME NEW x \in Board, ToolStep(x) PROVE UNCHANGED locationId
  BY <1>3 DEF ToolStep, WriteOk, VerifyOk, WriteFails, WriteFindsNobody, ResetOk, ResetFails, ResetFindsNobody,
     UndoOk, UndoFails, UndoFindsNobody, GetStateNo, GetStateDevice, GetStateLate, InfoEnds, RfmcuEnds,
     FailInLoader, FailGone, Left, report
<1>4. ASSUME Next, ~CallStep, ~CloseRun, ~\E x \in Board : ToolStep(x) PROVE UNCHANGED locationId
  BY <1>4 DEF Next, DeviceStep, BrownOut, ComesBack, StrangerArrives, WaitElapses, GateLdEnds, ListingAges,
     AdbTick, Cancel, CloseStep, CloseBlind, Finished, vars, report
<1> QED
  BY <1>1, <1>2, <1>3, <1>4 DEF LinesNameTheBoard

-----------------------------------------------------------------------------
(* What the call stack holds.                                              *)

\* Stack s has a call to make for board b, and it is this one.
CallsFor(s, call, what, b) == \E i \in DOMAIN s : s[i].call = call /\ <<what, b>> \in s[i].jobs

Names(s, b) == \E i \in DOMAIN s : \E what \in Whats : <<what, b>> \in s[i].jobs

\* No board has two calls on the stack.
Apart(s) ==
    \A i, j \in DOMAIN s : \A b \in Board : \A w, v \in Whats :
        <<w, b>> \in s[i].jobs /\ <<v, b>> \in s[j].jobs => i = j /\ w = v

Single(jobs) == \A b \in Board : \A w, v \in Whats : <<w, b>> \in jobs /\ <<v, b>> \in jobs => w = v
NamedIn(jobs, b) == \E what \in Whats : <<what, b>> \in jobs

\* A stack of one frame more, or less.
LEMMA StackCons ==
    ASSUME NEW f \in Frames, NEW s \in Seq(Frames)
    PROVE  LET t == <<f>> \o s
           IN  /\ t \in Seq(Frames)
               /\ \A call, what, b :
                      CallsFor(t, call, what, b) <=> (f.call = call /\ <<what, b>> \in f.jobs) \/ CallsFor(s, call, what, b)
               /\ \A b : Names(t, b) <=> NamedIn(f.jobs, b) \/ Names(s, b)
               /\ Apart(t) <=> Apart(s) /\ Single(f.jobs) /\ \A b \in Board : NamedIn(f.jobs, b) => ~Names(s, b)
<1> DEFINE t == <<f>> \o s
           n == Len(s)
<1>1. /\ n \in Nat /\ DOMAIN s = 1..n /\ DOMAIN t = 1..(n + 1)
      /\ t \in Seq(Frames) /\ t[1] = f /\ \A i \in 1..n : t[i + 1] = s[i]
  OBVIOUS
<1> HIDE DEF t, n
<1>2. \A i \in DOMAIN t : i = 1 \/ (i - 1 \in 1..n /\ t[i] = s[i - 1])
  BY <1>1
<1>3. 1 \in DOMAIN t /\ \A i \in 1..n : i + 1 \in DOMAIN t /\ i + 1 # 1
  BY <1>1
<1>4. ASSUME NEW call, NEW what, NEW b
      PROVE  CallsFor(t, call, what, b) <=> (f.call = call /\ <<what, b>> \in f.jobs) \/ CallsFor(s, call, what, b)
  <2>1. ASSUME CallsFor(t, call, what, b)
        PROVE  (f.call = call /\ <<what, b>> \in f.jobs) \/ CallsFor(s, call, what, b)
    BY <2>1, <1>1, <1>2 DEF CallsFor
  <2>2. ASSUME (f.call = call /\ <<what, b>> \in f.jobs) \/ CallsFor(s, call, what, b)
        PROVE  CallsFor(t, call, what, b)
    BY <2>2, <1>1, <1>3 DEF CallsFor
  <2> QED
    BY <2>1, <2>2
<1>5. ASSUME NEW b
      PROVE  Names(t, b) <=> NamedIn(f.jobs, b) \/ Names(s, b)
  <2>1. ASSUME Names(t, b) PROVE NamedIn(f.jobs, b) \/ Names(s, b)
    BY <2>1, <1>1, <1>2 DEF Names, NamedIn
  <2>2. ASSUME NamedIn(f.jobs, b) \/ Names(s, b) PROVE Names(t, b)
    BY <2>2, <1>1, <1>3 DEF Names, NamedIn
  <2> QED
    BY <2>1, <2>2
<1>6. ASSUME Apart(t) PROVE Apart(s) /\ Single(f.jobs) /\ \A b \in Board : NamedIn(f.jobs, b) => ~Names(s, b)
  <2>1. Apart(s)
    <3> SUFFICES ASSUME NEW i \in DOMAIN s, NEW j \in DOMAIN s, NEW b \in Board, NEW w \in Whats, NEW v \in Whats,
                        <<w, b>> \in s[i].jobs, <<v, b>> \in s[j].jobs
                 PROVE  i = j /\ w = v
      BY DEF Apart
    <3>1. i + 1 \in DOMAIN t /\ j + 1 \in DOMAIN t /\ t[i + 1] = s[i] /\ t[j + 1] = s[j] /\ i \in Nat /\ j \in Nat
      BY <1>1, <1>3
    <3>2. i + 1 = j + 1 /\ w = v
      BY <1>6, <3>1 DEF Apart
    <3> QED
      BY <3>1, <3>2
  <2>2. Single(f.jobs)
    <3> SUFFICES ASSUME NEW b \in Board, NEW w \in Whats, NEW v \in Whats, <<w, b>> \in f.jobs, <<v, b>> \in f.jobs
                 PROVE  w = v
      BY DEF Single
    <3>1. <<w, b>> \in t[1].jobs /\ <<v, b>> \in t[1].jobs
      BY <1>1
    <3> QED
      BY <3>1, <1>3, <1>6 DEF Apart
  <2>3. ASSUME NEW b \in Board, NamedIn(f.jobs, b), Names(s, b) PROVE FALSE
    <3>1. PICK w \in Whats : <<w, b>> \in t[1].jobs
      BY <2>3, <1>1 DEF NamedIn
    <3>2. PICK i \in 1..n : \E v \in Whats : <<v, b>> \in s[i].jobs
      BY <2>3, <1>1 DEF Names
    <3>3. PICK v \in Whats : <<v, b>> \in t[i + 1].jobs
      BY <3>2, <1>1
    <3>4. 1 = i + 1
      BY <3>1, <3>3, <1>3, <1>6 DEF Apart
    <3> QED
      BY <3>4, <1>3
  <2> QED
    BY <2>1, <2>2, <2>3
<1>7. ASSUME Apart(s), Single(f.jobs), \A b \in Board : NamedIn(f.jobs, b) => ~Names(s, b) PROVE Apart(t)
  <2> SUFFICES ASSUME NEW i \in DOMAIN t, NEW j \in DOMAIN t, NEW b \in Board, NEW w \in Whats, NEW v \in Whats,
                      <<w, b>> \in t[i].jobs, <<v, b>> \in t[j].jobs
               PROVE  i = j /\ w = v
    BY DEF Apart
  <2>0. i \in Nat /\ j \in Nat
    BY <1>1
  <2>1. CASE i = 1 /\ j = 1
    BY <2>1, <1>1, <1>7 DEF Single
  <2>2. CASE i = 1 /\ j # 1
    BY <2>2, <1>1, <1>2, <1>7 DEF NamedIn, Names
  <2>3. CASE i # 1 /\ j = 1
    BY <2>3, <1>1, <1>2, <1>7 DEF NamedIn, Names
  <2>4. CASE i # 1 /\ j # 1
    <3>1. i - 1 = j - 1 /\ w = v
      BY <2>4, <1>1, <1>2, <1>7 DEF Apart
    <3> QED
      BY <3>1, <2>0
  <2> QED
    BY <2>1, <2>2, <2>3, <2>4
<1> QED
  BY <1>1, <1>4, <1>5, <1>6, <1>7 DEF t

LEMMA EmptyStack ==
    /\ << >> \in Seq(Frames) /\ Apart(<< >>)
    /\ \A b : ~Names(<< >>, b)
    /\ \A call, what, b : ~CallsFor(<< >>, call, what, b)
  BY DEF Apart, Names, CallsFor

\* The frames that name no board.
NoJobs == {Fill, MaybeFinish, Frame("gateNext", {}), Frame("afterAnswers", {})}

\* A frame without jobs, put on the stack, names nobody.
LEMMA PushPlain ==
    ASSUME NEW f \in NoJobs, NEW s \in Seq(Frames)
    PROVE  LET t == <<f>> \o s
           IN  /\ t \in Seq(Frames)
               /\ \A call, what, b : CallsFor(t, call, what, b) <=> CallsFor(s, call, what, b)
               /\ \A b : Names(t, b) <=> Names(s, b)
               /\ Apart(t) <=> Apart(s)
<1>1. f \in Frames /\ f.jobs = {}
  <2>1. f \in Frames
    BY FramesTyped DEF NoJobs
  <2> QED
    BY <2>1 DEF NoJobs, Fill, MaybeFinish, Frame
<1>2. Single(f.jobs) /\ \A b : ~NamedIn(f.jobs, b)
  BY <1>1 DEF Single, NamedIn
<1> QED
  BY <1>1, <1>2, StackCons

\* A call for one board, put on a stack that does not name it.
LEMMA PushCall ==
    ASSUME NEW c \in Calls, NEW w \in Whats, NEW x \in Board, NEW s \in Seq(Frames), ~Names(s, x)
    PROVE  LET t == <<Frame(c, {<<w, x>>})>> \o s
           IN  /\ t \in Seq(Frames)
               /\ \A call, what, b :
                      CallsFor(t, call, what, b) <=> (call = c /\ what = w /\ b = x) \/ CallsFor(s, call, what, b)
               /\ \A b : Names(t, b) <=> b = x \/ Names(s, b)
               /\ Apart(s) => Apart(t)
<1> DEFINE f == Frame(c, {<<w, x>>})
<1>1. f \in Frames /\ f.call = c /\ f.jobs = {<<w, x>>}
  BY DEF Frame, Frames, Job
<1> HIDE DEF f
<1>2. \A what, b : <<what, b>> \in f.jobs <=> what = w /\ b = x
  BY <1>1
<1>3. Single(f.jobs)
  BY <1>2 DEF Single
<1>4. \A b : NamedIn(f.jobs, b) <=> b = x
  <2>1. NamedIn(f.jobs, x)
    BY <1>1 DEF NamedIn
  <2>2. ASSUME NEW b, NamedIn(f.jobs, b) PROVE b = x
    BY <2>2, <1>2 DEF NamedIn
  <2> QED
    BY <2>1, <2>2
<1> QED
  BY <1>1, <1>2, <1>3, <1>4, StackCons DEF f

\* A list of calls, put on a stack that names none of their boards.
LEMMA PushEach ==
    ASSUME NEW c \in Calls, NEW jobs \in SUBSET Job, NEW s \in Seq(Frames),
           \A b \in Board : NamedIn(jobs, b) => ~Names(s, b)
    PROVE  LET t == ForEach(c, jobs) \o s
           IN  /\ t \in Seq(Frames)
               /\ \A call, what, b :
                      CallsFor(t, call, what, b) <=> (call = c /\ <<what, b>> \in jobs) \/ CallsFor(s, call, what, b)
               /\ \A b : Names(t, b) <=> NamedIn(jobs, b) \/ Names(s, b)
               /\ Apart(s) /\ Single(jobs) => Apart(t)
<1>1. CASE jobs = {}
  <2>1. ForEach(c, jobs) \o s = s
    BY <1>1 DEF ForEach
  <2>2. \A b : ~NamedIn(jobs, b)
    BY <1>1 DEF NamedIn
  <2> QED
    BY <2>1, <2>2, <1>1
<1>2. CASE jobs # {}
  <2> DEFINE f == Frame(c, jobs)
  <2>1. f \in Frames /\ f.call = c /\ f.jobs = jobs
    BY DEF Frame, Frames
  <2>2. ForEach(c, jobs) = <<f>>
    BY <1>2 DEF ForEach
  <2> HIDE DEF f
  <2> QED
    BY <2>1, <2>2, StackCons
<1> QED
  BY <1>1, <1>2

\* The head of the stack, and what is under it.
LEMMA StackHead ==
    ASSUME agenda \in Seq(Frames), agenda # << >>
    PROVE  LET f == Head(agenda)
           IN  /\ f \in Frames /\ Return \in Seq(Frames)
               /\ \A call, what, b :
                      CallsFor(agenda, call, what, b)
                          <=> (f.call = call /\ <<what, b>> \in f.jobs) \/ CallsFor(Return, call, what, b)
               /\ \A b : Names(agenda, b) <=> NamedIn(f.jobs, b) \/ Names(Return, b)
               /\ Apart(agenda) <=> /\ Apart(Return) /\ Single(f.jobs)
                                    /\ \A b \in Board : NamedIn(f.jobs, b) => ~Names(Return, b)
<1>1. Head(agenda) \in Frames /\ Return \in Seq(Frames) /\ agenda = <<Head(agenda)>> \o Return
  BY DEF Return
<1> QED
  BY <1>1, StackCons

\* A call that returns, with what else it had to do.
LEMMA Returns ==
    ASSUME agenda \in Seq(Frames), Apart(agenda), NEW c \in Calls, Running(c)
    PROVE  /\ Return \in Seq(Frames) /\ Apart(Return)
           /\ \A call, what, b : CallsFor(Return, call, what, b) => CallsFor(agenda, call, what, b)
           /\ \A call, what, b : CallsFor(agenda, call, what, b) /\ call # c => CallsFor(Return, call, what, b)
           /\ \A b : Names(Return, b) => Names(agenda, b)
           /\ \A w \in Whats, x \in Board : Doing(c, w, x) => ~Names(Return, x)
  BY StackHead DEF Running, Doing, NamedIn

\* A call that has done its work for one board.
LEMMA DoneFor ==
    ASSUME agenda \in Seq(Frames), Apart(agenda),
           NEW c \in Calls, NEW w \in Whats, NEW x \in Board, Doing(c, w, x)
    PROVE  /\ Done(w, x) \in Seq(Frames) /\ Apart(Done(w, x)) /\ ~Names(Done(w, x), x)
           /\ \A call, what, b : CallsFor(Done(w, x), call, what, b) => CallsFor(agenda, call, what, b)
           /\ \A call, what, b : CallsFor(agenda, call, what, b) /\ b # x => CallsFor(Done(w, x), call, what, b)
           /\ \A b : Names(Done(w, x), b) => Names(agenda, b)
<1> DEFINE f == Head(agenda)
           rest == f.jobs \ {<<w, x>>}
<1>1. agenda # << >> /\ f.call = c /\ <<w, x>> \in f.jobs
  BY DEF Doing, Running
<1>2. f \in Frames /\ rest \in SUBSET Job
  BY <1>1, StackHead DEF Frames
<1>3. Single(f.jobs) /\ Apart(Return) /\ \A b \in Board : NamedIn(f.jobs, b) => ~Names(Return, b)
  BY <1>1, StackHead
<1>4. ~NamedIn(rest, x) /\ \A b : NamedIn(rest, b) => NamedIn(f.jobs, b)
  BY <1>1, <1>3 DEF NamedIn, Single
<1>5. NamedIn(f.jobs, x) /\ ~Names(Return, x) /\ Single(rest)
  BY <1>1, <1>3 DEF NamedIn, Single
<1>6. Done(w, x) = ForEach(c, rest) \o Return
  BY <1>1 DEF Done, Return
<1>7. Return \in Seq(Frames)
  BY <1>1, StackHead
<1>8. \A what, b : b # x => (<<what, b>> \in rest <=> <<what, b>> \in f.jobs)
  OBVIOUS
<1>9. \A what, b : <<what, b>> \in rest => <<what, b>> \in f.jobs
  OBVIOUS
<1> HIDE DEF f, rest
<1>12. \A b \in Board : NamedIn(rest, b) => ~Names(Return, b)
  BY <1>3, <1>4
<1> DEFINE t == ForEach(c, rest) \o Return
<1>13. /\ t \in Seq(Frames) /\ Apart(t)
       /\ \A call, what, b : CallsFor(t, call, what, b)
                                 <=> (call = c /\ <<what, b>> \in rest) \/ CallsFor(Return, call, what, b)
       /\ \A b : Names(t, b) <=> NamedIn(rest, b) \/ Names(Return, b)
  BY <1>2, <1>3, <1>5, <1>7, <1>12, PushEach
<1> HIDE DEF t
<1>10. /\ Done(w, x) \in Seq(Frames) /\ Apart(Done(w, x))
       /\ \A call, what, b : CallsFor(Done(w, x), call, what, b)
                                 <=> (call = c /\ <<what, b>> \in rest) \/ CallsFor(Return, call, what, b)
       /\ \A b : Names(Done(w, x), b) <=> NamedIn(rest, b) \/ Names(Return, b)
  BY <1>6, <1>13 DEF t
<1>11. /\ \A call, what, b : CallsFor(agenda, call, what, b)
                                 <=> (call = c /\ <<what, b>> \in f.jobs) \/ CallsFor(Return, call, what, b)
       /\ \A b : Names(agenda, b) <=> NamedIn(f.jobs, b) \/ Names(Return, b)
  BY <1>1, StackHead DEF f
<1> QED
  BY <1>4, <1>5, <1>8, <1>9, <1>10, <1>11

-----------------------------------------------------------------------------
(* A board is at one thing at a time.                                      *)

Launches(what, b) == CallsFor(agenda, "whenGateFree", what, b) \/ <<what, b>> \in afterGateLd
Later(b) == NamedIn(afterGateLd, b)
Queued(b) == b \in gateWaiting \cup gateNext
AnswerDue(b) == \E evidence \in Whats : CallsFor(agenda, "answer", evidence, b)
UnderCheck(b) ==
    \/ Queued(b) \/ AnswerDue(b) \/ Launches("checked", b)
    \/ \E evidence \in Whats : CallsFor(agenda, "evaluateCheck", evidence, b)

\* A call that is still to be made, a launch that waits for the gate, a check that
\* waits for an LD, or a tool that runs: a board has at most one of them, and none
\* before it has started or once it has ended.
OneThing(b) ==
    /\ Names(agenda, b) => ~Later(b) /\ ~Queued(b) /\ process[b] = "none"
    /\ Later(b) => ~Queued(b) /\ process[b] = "none"
    /\ Queued(b) => process[b] = "none"
    /\ Names(agenda, b) \/ Later(b) \/ Queued(b) \/ process[b] \in UpgradeTools
           => stage[b] \in {"Writing", "Resetting"}
    /\ stage[b] = "Loader" => process[b] = "none"
    /\ checkQueued[b] => Queued(b) \/ AnswerDue(b)

\* What is written to a board are its rows, by a board that has started; what a
\* cancel takes back has not.
RowsFit(b) ==
    /\ written[b] \subseteq Row
    /\ ~started[b] => written[b] = {}
    /\ stage[b] = "Loader" => ~started[b]
    /\ result[b] = "Skipped" => Ended(b)
    /\ process[b] = "undo" \/ Launches("undo", b) \/ result[b] = "Skipped" => ~started[b]
    /\ process[b] \in {"WL", "RL"} \/ Launches("verify", b) => started[b] /\ row[b] \in Row
    /\ \A before \in Whats \ {"RD"} : CallsFor(agenda, "requestCheck", before, b) => row[b] \in Row
    /\ UnderCheck(b) /\ ~checkBeforeRd[b] => row[b] \in Row

QueuesFit ==
    /\ Apart(agenda) /\ Single(afterGateLd)
    /\ gateWaiting # {} => gateLdBusy
    /\ gateWaiting \cap gateNext = {}

OneThingInv == QueuesFit /\ \A b \in Board : OneThing(b) /\ RowsFit(b)

\* The closing picture finds every board at rest.
RestInv == snapshotRunning => ~gateLdBusy /\ \A b \in Board : Ended(b) /\ process[b] = "none"

-----------------------------------------------------------------------------
(* What a step does to the boards it is not about.                         *)

\* The stack asks nothing new of the boards other than those of B.
StackKeeps(B) ==
    /\ Apart(agenda')
    /\ \A x \in Board \ B :
           /\ \A call, what : CallsFor(agenda', call, what, x) => CallsFor(agenda, call, what, x)
           /\ \A what : CallsFor(agenda, "answer", what, x) => CallsFor(agenda', "answer", what, x)
           /\ Names(agenda', x) => Names(agenda, x)

RestKeeps(B) ==
    \A x \in Board \ B :
        /\ \A what : <<what, x>> \in afterGateLd' => <<what, x>> \in afterGateLd
        /\ x \in gateWaiting' \cup gateNext' <=> x \in gateWaiting \cup gateNext
        /\ stage'[x] = stage[x] /\ result'[x] = result[x] /\ process'[x] = process[x]
        /\ row'[x] = row[x] /\ written'[x] = written[x] /\ started'[x] = started[x]
        /\ checkBeforeRd'[x] = checkBeforeRd[x] /\ checkQueued'[x] = checkQueued[x]

\* The stack asks nothing, or at most this call, of board b.
NoCall(s, b) == ~Names(s, b) /\ \A call, what : ~CallsFor(s, call, what, b)
OnlyCall(s, c, w, b) == \A call, what : CallsFor(s, call, what, b) => call = c /\ what = w

\* A stack that does not name a board has no call for it.
LEMMA NotNamed ==
    ASSUME NEW s \in Seq(Frames), NEW b, ~Names(s, b)
    PROVE  NoCall(s, b)
<1> SUFFICES ASSUME NEW call, NEW what, CallsFor(s, call, what, b) PROVE FALSE
  BY DEF NoCall
<1>1. PICK i \in DOMAIN s : s[i].call = call /\ <<what, b>> \in s[i].jobs
  BY DEF CallsFor
<1>2. s[i] \in Frames
  OBVIOUS
<1>3. what \in Whats
  BY <1>1, <1>2 DEF Frames, Job
<1> QED
  BY <1>1, <1>3 DEF Names

\* The step keeps the invariant if it does for the boards that it is about.
LEMMA Elsewhere ==
    ASSUME OneThingInv, NEW B \in SUBSET Board, StackKeeps(B), RestKeeps(B),
           Single(afterGateLd'), gateWaiting' # {} => gateLdBusy', gateWaiting' \cap gateNext' = {},
           \A b \in B : OneThing(b)' /\ RowsFit(b)'
    PROVE  OneThingInv'
<1>1. ASSUME NEW x \in Board \ B PROVE OneThing(x)' /\ RowsFit(x)'
  <2>1. OneThing(x) /\ RowsFit(x)
    BY DEF OneThingInv
  <2>2. /\ \A call, what : CallsFor(agenda', call, what, x) => CallsFor(agenda, call, what, x)
        /\ \A what : CallsFor(agenda, "answer", what, x) => CallsFor(agenda', "answer", what, x)
        /\ Names(agenda', x) => Names(agenda, x)
    BY DEF StackKeeps
  <2>3. /\ \A what : <<what, x>> \in afterGateLd' => <<what, x>> \in afterGateLd
        /\ x \in gateWaiting' \cup gateNext' <=> x \in gateWaiting \cup gateNext
        /\ stage'[x] = stage[x] /\ result'[x] = result[x] /\ process'[x] = process[x]
        /\ row'[x] = row[x] /\ written'[x] = written[x] /\ started'[x] = started[x]
        /\ checkBeforeRd'[x] = checkBeforeRd[x] /\ checkQueued'[x] = checkQueued[x]
    BY DEF RestKeeps
  <2>4. /\ Later(x)' => Later(x)
        /\ \A what : Launches(what, x)' => Launches(what, x)
        /\ Queued(x)' <=> Queued(x)
        /\ AnswerDue(x)' <=> AnswerDue(x)
    BY <2>2, <2>3 DEF Later, NamedIn, Launches, Queued, AnswerDue
  <2>5. UnderCheck(x)' => UnderCheck(x)
    BY <2>2, <2>4 DEF UnderCheck
  <2>6. OneThing(x)'
    BY <2>1, <2>2, <2>3, <2>4 DEF OneThing
  <2>7. RowsFit(x)'
    BY <2>1, <2>2, <2>3, <2>4, <2>5 DEF RowsFit, Ended
  <2> QED
    BY <2>6, <2>7
<1>2. QueuesFit'
  BY DEF QueuesFit, StackKeeps
<1> QED
  BY <1>1, <1>2 DEF OneThingInv

-----------------------------------------------------------------------------
(* What the handlers do to the stack.                                      *)

\* A call for board b is done, and a frame without jobs may be put in its place.
LEMMA StackPops ==
    ASSUME agenda \in Seq(Frames), Apart(agenda),
           NEW c \in Calls \ {"answer"}, NEW w \in Whats, NEW b \in Board, Doing(c, w, b),
           agenda' = Return \/ \E f \in NoJobs : agenda' = <<f>> \o Return
    PROVE  StackKeeps({b}) /\ NoCall(agenda', b) /\ agenda' \in Seq(Frames)
<1>1. /\ Return \in Seq(Frames) /\ Apart(Return) /\ ~Names(Return, b)
      /\ \A call, what, x : CallsFor(Return, call, what, x) => CallsFor(agenda, call, what, x)
      /\ \A call, what, x : CallsFor(agenda, call, what, x) /\ call # c => CallsFor(Return, call, what, x)
      /\ \A x : Names(Return, x) => Names(agenda, x)
  BY Returns DEF Doing
<1>2. /\ agenda' \in Seq(Frames) /\ (Apart(agenda') <=> Apart(Return))
      /\ \A call, what, x : CallsFor(agenda', call, what, x) <=> CallsFor(Return, call, what, x)
      /\ \A x : Names(agenda', x) <=> Names(Return, x)
  BY <1>1, PushPlain
<1>3. NoCall(agenda', b)
  BY <1>1, <1>2, NotNamed
<1> QED
  BY <1>1, <1>2, <1>3 DEF StackKeeps

\* A call for board b leads to another one for it.
LEMMA StackTurns ==
    ASSUME agenda \in Seq(Frames), Apart(agenda),
           NEW c \in Calls \ {"answer"}, NEW w \in Whats, NEW b \in Board, Doing(c, w, b),
           NEW d \in Calls, NEW v \in Whats, agenda' = <<Frame(d, {<<v, b>>})>> \o Return
    PROVE  StackKeeps({b}) /\ OnlyCall(agenda', d, v, b) /\ agenda' \in Seq(Frames)
<1>1. /\ Return \in Seq(Frames) /\ Apart(Return) /\ ~Names(Return, b)
      /\ \A call, what, x : CallsFor(Return, call, what, x) => CallsFor(agenda, call, what, x)
      /\ \A call, what, x : CallsFor(agenda, call, what, x) /\ call # c => CallsFor(Return, call, what, x)
      /\ \A x : Names(Return, x) => Names(agenda, x)
  BY Returns DEF Doing
<1>2. /\ agenda' \in Seq(Frames) /\ Apart(agenda')
      /\ \A call, what, x : CallsFor(agenda', call, what, x)
                                <=> (call = d /\ what = v /\ x = b) \/ CallsFor(Return, call, what, x)
      /\ \A x : Names(agenda', x) <=> x = b \/ Names(Return, x)
  BY <1>1, PushCall
<1>3. NoCall(Return, b)
  BY <1>1, NotNamed
<1> QED
  BY <1>1, <1>2, <1>3 DEF StackKeeps, OnlyCall, NoCall

\* One of a list of calls is done, that for board b.
LEMMA StackDoes ==
    ASSUME agenda \in Seq(Frames), Apart(agenda),
           NEW c \in Calls, NEW w \in Whats, NEW b \in Board, Doing(c, w, b),
           agenda' = Done(w, b) \/ \E f \in NoJobs : agenda' = <<f>> \o Done(w, b)
    PROVE  StackKeeps({b}) /\ NoCall(agenda', b) /\ agenda' \in Seq(Frames)
<1> DEFINE rest == Done(w, b)
<1>1. /\ rest \in Seq(Frames) /\ Apart(rest) /\ ~Names(rest, b)
      /\ \A call, what, x : CallsFor(rest, call, what, x) => CallsFor(agenda, call, what, x)
      /\ \A call, what, x : CallsFor(agenda, call, what, x) /\ x # b => CallsFor(rest, call, what, x)
      /\ \A x : Names(rest, x) => Names(agenda, x)
  BY DoneFor
<1>0. agenda' = rest \/ \E f \in NoJobs : agenda' = <<f>> \o rest
  OBVIOUS
<1> HIDE DEF rest
<1>2. /\ agenda' \in Seq(Frames) /\ (Apart(agenda') <=> Apart(rest))
      /\ \A call, what, x : CallsFor(agenda', call, what, x) <=> CallsFor(rest, call, what, x)
      /\ \A x : Names(agenda', x) <=> Names(rest, x)
  BY <1>0, <1>1, PushPlain
<1>3. NoCall(agenda', b)
  BY <1>1, <1>2, NotNamed
<1> QED
  BY <1>1, <1>2, <1>3 DEF StackKeeps

LEMMA StackDoesTurn ==
    ASSUME agenda \in Seq(Frames), Apart(agenda),
           NEW c \in Calls, NEW w \in Whats, NEW b \in Board, Doing(c, w, b),
           NEW d \in Calls, NEW v \in Whats, agenda' = <<Frame(d, {<<v, b>>})>> \o Done(w, b)
    PROVE  StackKeeps({b}) /\ OnlyCall(agenda', d, v, b) /\ agenda' \in Seq(Frames)
<1> DEFINE rest == Done(w, b)
<1>1. /\ rest \in Seq(Frames) /\ Apart(rest) /\ ~Names(rest, b)
      /\ \A call, what, x : CallsFor(rest, call, what, x) => CallsFor(agenda, call, what, x)
      /\ \A call, what, x : CallsFor(agenda, call, what, x) /\ x # b => CallsFor(rest, call, what, x)
      /\ \A x : Names(rest, x) => Names(agenda, x)
  BY DoneFor
<1>0. agenda' = <<Frame(d, {<<v, b>>})>> \o rest
  OBVIOUS
<1> HIDE DEF rest
<1>2. /\ agenda' \in Seq(Frames) /\ Apart(agenda')
      /\ \A call, what, x : CallsFor(agenda', call, what, x)
                                <=> (call = d /\ what = v /\ x = b) \/ CallsFor(rest, call, what, x)
      /\ \A x : Names(agenda', x) <=> x = b \/ Names(rest, x)
  <2>1. LET t == <<Frame(d, {<<v, b>>})>> \o rest
        IN  /\ t \in Seq(Frames) /\ Apart(t)
            /\ \A call, what, x :
                   CallsFor(t, call, what, x) <=> (call = d /\ what = v /\ x = b) \/ CallsFor(rest, call, what, x)
            /\ \A x : Names(t, x) <=> x = b \/ Names(rest, x)
    BY <1>1, PushCall
  <2> QED
    BY <1>0, <2>1
<1>3. NoCall(rest, b)
  BY <1>1, NotNamed
<1> QED
  BY <1>1, <1>2, <1>3 DEF StackKeeps, OnlyCall, NoCall

\* A handler that is no call for a board goes on to another one.
LEMMA StackGoesOn ==
    ASSUME agenda \in Seq(Frames), Apart(agenda), NEW c \in Calls \ {"answer"}, Running(c),
           agenda' = Return \/ \E f \in NoJobs : agenda' = <<f>> \o Return
    PROVE  StackKeeps({}) /\ agenda' \in Seq(Frames)
<1>1. /\ Return \in Seq(Frames) /\ Apart(Return)
      /\ \A call, what, x : CallsFor(Return, call, what, x) => CallsFor(agenda, call, what, x)
      /\ \A call, what, x : CallsFor(agenda, call, what, x) /\ call # c => CallsFor(Return, call, what, x)
      /\ \A x : Names(Return, x) => Names(agenda, x)
  BY Returns
<1>2. /\ agenda' \in Seq(Frames) /\ (Apart(agenda') <=> Apart(Return))
      /\ \A call, what, x : CallsFor(agenda', call, what, x) <=> CallsFor(Return, call, what, x)
      /\ \A x : Names(agenda', x) <=> Names(Return, x)
  BY <1>1, PushPlain
<1> QED
  BY <1>1, <1>2 DEF StackKeeps

\* An event begins with a call for board b, or with one that names no board.
LEMMA StackBegins ==
    ASSUME agenda = << >>, NEW b \in Board, NEW d \in Calls, NEW v \in Whats
    PROVE  /\ agenda' = <<Frame(d, {<<v, b>>})>> \/ (\E f \in NoJobs : agenda' = <<Frame(d, {<<v, b>>}), f>>)
                  => StackKeeps({b}) /\ OnlyCall(agenda', d, v, b)
           /\ agenda' = << >> \/ (\E f \in NoJobs : agenda' = <<f>>)
                  => StackKeeps({b}) /\ StackKeeps({}) /\ NoCall(agenda', b)
<1>0. << >> \in Seq(Frames) /\ Apart(<< >>) /\ (\A x : ~Names(<< >>, x)) /\ NoCall(<< >>, b)
      /\ \A call, what, x : ~CallsFor(<< >>, call, what, x)
  BY EmptyStack, NotNamed
<1>1. ASSUME NEW s \in Seq(Frames), Apart(s), \A x : ~Names(s, x), agenda' = <<Frame(d, {<<v, b>>})>> \o s
      PROVE  StackKeeps({b}) /\ OnlyCall(agenda', d, v, b)
  <2>1. /\ Apart(agenda')
        /\ \A call, what, x : CallsFor(agenda', call, what, x)
                                  <=> (call = d /\ what = v /\ x = b) \/ CallsFor(s, call, what, x)
        /\ \A x : Names(agenda', x) <=> x = b \/ Names(s, x)
    BY <1>1, PushCall
  <2>2. \A x, call, what : ~CallsFor(s, call, what, x)
    BY <1>1, NotNamed DEF NoCall
  <2> QED
    BY <1>0, <1>1, <2>1, <2>2 DEF StackKeeps, OnlyCall
<1>2. ASSUME NEW f \in NoJobs
      PROVE  LET s == <<f>> IN s \in Seq(Frames) /\ Apart(s) /\ \A x : ~Names(s, x)
  <2> DEFINE t == <<f>> \o << >>
  <2>1. t \in Seq(Frames) /\ (Apart(t) <=> Apart(<< >>)) /\ \A x : Names(t, x) <=> Names(<< >>, x)
    BY <1>0, PushPlain
  <2>2. t = <<f>>
    BY FramesTyped DEF NoJobs
  <2> HIDE DEF t
  <2> QED
    BY <1>0, <2>1, <2>2
<1>3. ASSUME agenda' = <<Frame(d, {<<v, b>>})>> PROVE StackKeeps({b}) /\ OnlyCall(agenda', d, v, b)
  <2>1. agenda' = <<Frame(d, {<<v, b>>})>> \o << >>
    BY <1>3
  <2> QED
    BY <2>1, <1>0, <1>1
<1>4. ASSUME NEW f \in NoJobs, agenda' = <<Frame(d, {<<v, b>>}), f>>
      PROVE  StackKeeps({b}) /\ OnlyCall(agenda', d, v, b)
  <2>1. agenda' = <<Frame(d, {<<v, b>>})>> \o <<f>>
    BY <1>4
  <2> QED
    BY <2>1, <1>1, <1>2
<1>5. ASSUME NEW s \in Seq(Frames), Apart(s), \A x : ~Names(s, x), agenda' = s
      PROVE  StackKeeps({b}) /\ StackKeeps({}) /\ NoCall(agenda', b)
  <2>1. \A x : NoCall(agenda', x)
    BY <1>5, NotNamed
  <2> QED
    BY <1>0, <1>5, <2>1 DEF StackKeeps, NoCall
<1> QED
  BY <1>0, <1>2, <1>3, <1>4, <1>5

-----------------------------------------------------------------------------
(* The steps that are about one board.                                     *)

\* A board that a call or a tool works on waits for nothing else.
LEMMA AtWork ==
    ASSUME TypeOK, OneThingInv, NEW b \in Board, Names(agenda, b) \/ process[b] # "none"
    PROVE  ~Later(b) /\ ~Queued(b) /\ \A what \in Whats : <<what, b>> \notin afterGateLd
<1>1. OneThing(b)
  BY DEF OneThingInv
<1>2. ~Later(b) /\ ~Queued(b)
  BY <1>1 DEF OneThing
<1> QED
  BY <1>2 DEF Later, NamedIn

\* A call names its board.
LEMMA DoingNames ==
    ASSUME TypeOK, NEW c \in Calls, NEW w \in Whats, NEW b \in Board, Doing(c, w, b)
    PROVE  /\ CallsFor(agenda, c, w, b) /\ Names(agenda, b)
           /\ agenda \in Seq(Frames) /\ agenda # << >>
<1>1. /\ agenda \in Seq(Frames) /\ agenda # << >> /\ Head(agenda).call = c
      /\ <<w, b>> \in Head(agenda).jobs
  BY DEF TypeOK, Doing, Running
<1>2. Head(agenda) \in Frames
  BY <1>1
<1> QED
  BY <1>1, <1>2, StackHead DEF NamedIn

\* A board ends, or starts to wait for its ADB device, and has nothing left to do.
LEMMA Settles ==
    ASSUME TypeOK, OneThingInv, NEW b \in Board, StackKeeps({b}), NoCall(agenda', b),
           Names(agenda, b) \/ process[b] # "none",
           Release({b}), UNCHANGED <<row, written, started, checkBeforeRd, afterGateLd, gateLdBusy>>,
           \A x \in Board \ {b} : stage'[x] = stage[x] /\ result'[x] = result[x] /\ process'[x] = process[x],
           stage'[b] \in {"Finished", "WaitingForAdb"}, process'[b] = "none",
           result'[b] = "Skipped" => stage'[b] = "Finished" /\ ~started[b]
    PROVE  OneThingInv'
<1>1. OneThing(b) /\ RowsFit(b) /\ QueuesFit
  BY DEF OneThingInv
<1>2. ~Later(b) /\ \A what \in Whats : <<what, b>> \notin afterGateLd
  BY AtWork
<1>3. ~Later(b)' /\ ~Queued(b)' /\ ~AnswerDue(b)' /\ ~Names(agenda, b)'
  BY <1>2 DEF Later, Queued, AnswerDue, Release, NoCall
<1>4. checkQueued'[b] = FALSE /\ \A x \in Board \ {b} : checkQueued'[x] = checkQueued[x] /\ inSlot'[x] = inSlot[x]
  BY DEF Release, TypeOK, BoardsTyped
<1>5. OneThing(b)'
  BY <1>3, <1>4 DEF OneThing, UpgradeTools
<1>6. \A what \in Whats : ~Launches(what, b)'
  BY <1>2 DEF Launches, NoCall
<1>7. RowsFit(b)'
  <2>1. ~UnderCheck(b)'
    BY <1>3, <1>6 DEF UnderCheck, NoCall, Whats
  <2>2. {"undo", "verify"} \subseteq Whats
    BY DEF Whats
  <2> QED
    BY <1>1, <1>6, <2>1, <2>2 DEF RowsFit, NoCall, Ended
<1>8. RestKeeps({b})
  BY <1>4 DEF RestKeeps, Release
<1> QED
  BY <1>1, <1>5, <1>7, <1>8, Elsewhere DEF QueuesFit, Release

\* A board goes on with one call.
LEMMA GoesOn ==
    ASSUME TypeOK, OneThingInv, NEW b \in Board, StackKeeps({b}),
           NEW c \in Calls, NEW w \in Whats, OnlyCall(agenda', c, w, b), c # "answer",
           ~Later(b)', ~Queued(b)', process'[b] = "none", stage'[b] \in {"Writing", "Resetting"},
           ~checkQueued'[b], RestKeeps({b}), afterGateLd' \subseteq afterGateLd,
           gateWaiting' # {} => gateLdBusy', gateWaiting' \cap gateNext' = {},
           result'[b] # "Skipped", written'[b] \subseteq Row, ~started'[b] => written'[b] = {},
           c = "requestCheck" /\ w # "RD" => row'[b] \in Row,
           c = "evaluateCheck" \/ w = "checked" => checkBeforeRd'[b] \/ row'[b] \in Row,
           c = "whenGateFree" /\ w = "verify" => started'[b] /\ row'[b] \in Row,
           c = "whenGateFree" /\ w = "undo" => ~started'[b]
    PROVE  OneThingInv'
<1>1. QueuesFit
  BY DEF OneThingInv
<1>2. \A what \in Whats : <<what, b>> \notin afterGateLd'
  BY DEF Later, NamedIn
<1>3. OneThing(b)'
  BY DEF OneThing, UpgradeTools
<1>4. \A what \in Whats : Launches(what, b)' => c = "whenGateFree" /\ w = what
  BY <1>2 DEF Launches, OnlyCall
<1>5. UnderCheck(b)' => c = "evaluateCheck" \/ w = "checked"
  BY <1>4 DEF UnderCheck, AnswerDue, OnlyCall, Whats
<1>6. RowsFit(b)'
  BY <1>4, <1>5 DEF RowsFit, OnlyCall, Whats
<1>7. Single(afterGateLd')
  BY <1>1 DEF QueuesFit, Single
<1> QED
  BY <1>1, <1>3, <1>6, <1>7, Elsewhere

\* A board's tool runs, and nothing else is asked of it.
LEMMA Works ==
    ASSUME TypeOK, OneThingInv, NEW b \in Board, StackKeeps({b}), NoCall(agenda', b),
           Names(agenda, b) \/ process[b] # "none",
           process'[b] \in UpgradeTools \cup AdbTools \cup {"none"},
           process'[b] \in UpgradeTools => stage'[b] \in {"Writing", "Resetting"},
           RestKeeps({b}), UNCHANGED <<afterGateLd, gateWaiting, gateNext, gateLdBusy>>, ~checkQueued'[b],
           written'[b] \subseteq Row, ~started'[b] => written'[b] = {},
           stage'[b] # "Loader",
           result'[b] = "Skipped" => stage'[b] = "Finished",
           process'[b] = "undo" \/ result'[b] = "Skipped" => ~started'[b],
           process'[b] \in {"WL", "RL"} => started'[b] /\ row'[b] \in Row
    PROVE  OneThingInv'
<1>1. QueuesFit
  BY DEF OneThingInv
<1>2. ~Later(b) /\ ~Queued(b) /\ \A what \in Whats : <<what, b>> \notin afterGateLd
  BY AtWork
<1>3. ~Later(b)' /\ ~Queued(b)' /\ ~AnswerDue(b)' /\ ~Names(agenda, b)'
  BY <1>2 DEF Later, Queued, AnswerDue, NoCall
<1>4. OneThing(b)'
  BY <1>3 DEF OneThing
<1>5. \A what \in Whats : ~Launches(what, b)'
  BY <1>2 DEF Launches, NoCall
<1>6. ~UnderCheck(b)'
  BY <1>3, <1>5 DEF UnderCheck, NoCall, Whats
<1>7. {"undo", "verify"} \subseteq Whats
  BY DEF Whats
<1>8. RowsFit(b)'
  BY <1>5, <1>6, <1>7 DEF RowsFit, NoCall, Ended
<1> QED
  BY <1>1, <1>4, <1>8, Elsewhere DEF QueuesFit

\* A step that the boards do not see.
LEMMA Unseen ==
    ASSUME OneThingInv, StackKeeps({}),
           UNCHANGED <<stage, result, process, row, written, started, checkBeforeRd, checkQueued, afterGateLd,
                       gateWaiting, gateNext>>,
           gateWaiting # {} => gateLdBusy'
    PROVE  OneThingInv'
<1>1. RestKeeps({})
  BY DEF RestKeeps
<1>2. {} \in SUBSET Board /\ \A b \in {} : OneThing(b)' /\ RowsFit(b)'
  OBVIOUS
<1> QED
  BY <1>1, <1>2, Elsewhere DEF OneThingInv, QueuesFit

\* What is known of a board that a call is made for.
LEMMA Called ==
    ASSUME TypeOK, OneThingInv, NEW c \in Calls, NEW w \in Whats, NEW b \in Board, Doing(c, w, b)
    PROVE  /\ agenda \in Seq(Frames) /\ Apart(agenda)
           /\ CallsFor(agenda, c, w, b) /\ Names(agenda, b)
           /\ stage[b] \in {"Writing", "Resetting"} /\ process[b] = "none" /\ result[b] # "Skipped"
           /\ ~Later(b) /\ ~Queued(b) /\ (c # "answer" => ~checkQueued[b])
           /\ RowsFit(b) /\ QueuesFit
<1>1. CallsFor(agenda, c, w, b) /\ Names(agenda, b) /\ agenda \in Seq(Frames)
  BY DoingNames
<1>2. QueuesFit /\ OneThing(b) /\ RowsFit(b)
  BY DEF OneThingInv
<1>3. stage[b] \in {"Writing", "Resetting"} /\ process[b] = "none" /\ ~Later(b) /\ ~Queued(b)
  BY <1>1, <1>2 DEF OneThing
<1>4. result[b] # "Skipped"
  BY <1>2, <1>3 DEF RowsFit, Ended
<1>5. c # "answer" => ~AnswerDue(b)
  BY <1>1, <1>2 DEF QueuesFit, Apart, AnswerDue, CallsFor
<1>6. c # "answer" => ~checkQueued[b]
  BY <1>2, <1>3, <1>5 DEF OneThing
<1> QED
  BY <1>1, <1>2, <1>3, <1>4, <1>6 DEF QueuesFit

\* A board that has the check in hand has rows to write, or has them all.
LEMMA CheckedRow ==
    ASSUME OneThingInv, NEW b \in Board, NEW w \in Whats,
           \/ CallsFor(agenda, "evaluateCheck", w, b) \/ CallsFor(agenda, "answer", w, b)
           \/ CallsFor(agenda, "whenGateFree", w, b) /\ w = "checked"
    PROVE  checkBeforeRd[b] \/ row[b] \in Row
<1>1. UnderCheck(b)
  BY DEF UnderCheck, AnswerDue, Launches
<1> QED
  BY <1>1 DEF OneThingInv, RowsFit

\* fill() starts a board, which is at nothing yet.
LEMMA StartKeeps ==
    ASSUME TypeOK, OneThingInv, NEW b \in Board, StartBoard(b)
    PROVE  OneThingInv'
<1>1. OneThing(b) /\ RowsFit(b) /\ QueuesFit /\ stage[b] = "Loader"
  BY DEF OneThingInv, StartBoard, Mapped
<1>2. ~Names(agenda, b) /\ ~Later(b) /\ ~Queued(b) /\ process[b] \notin UpgradeTools
  BY <1>1 DEF OneThing
<1>3. agenda \in Seq(Frames) /\ Apart(agenda) /\ "requestCheck" \in Calls /\ "WL" \in Whats
  BY <1>1 DEF TypeOK, QueuesFit, Calls, Whats
<1>4. agenda' = <<Frame("requestCheck", {<<"WL", b>>})>> \o agenda
  BY DEF StartBoard, RequestCheck
<1>5. /\ agenda' \in Seq(Frames) /\ Apart(agenda')
      /\ \A call, what, x : CallsFor(agenda', call, what, x)
                                <=> (call = "requestCheck" /\ what = "WL" /\ x = b) \/ CallsFor(agenda, call, what, x)
      /\ \A x : Names(agenda', x) <=> x = b \/ Names(agenda, x)
  BY <1>2, <1>3, <1>4, PushCall
<1>6. NoCall(agenda, b)
  BY <1>2, <1>3, NotNamed
<1>7. StackKeeps({b}) /\ OnlyCall(agenda', "requestCheck", "WL", b)
  BY <1>5, <1>6 DEF StackKeeps, OnlyCall, NoCall
<1>8. ~AnswerDue(b) /\ ~checkQueued[b]
  BY <1>1, <1>2, <1>6 DEF OneThing, AnswerDue, NoCall
<1>9. process[b] = "none"
  BY <1>1 DEF OneThing
<1>10. /\ row' = [row EXCEPT ![b] = 1] /\ stage' = [stage EXCEPT ![b] = "Writing"]
       /\ UNCHANGED <<written, started, checkBeforeRd, result, process, checkQueued, gateWaiting, gateNext,
                      gateLdBusy, afterGateLd>>
  BY DEF StartBoard, report, gate, run, tools
<1>11. row'[b] \in Row /\ stage'[b] = "Writing" /\ RestKeeps({b})
  BY <1>10, FleetAssumption DEF TypeOK, BoardsTyped, Row, FleetAssumption, RestKeeps
<1>12. ~Later(b)' /\ ~Queued(b)'
  BY <1>2, <1>10 DEF Later, Queued
<1>13. result'[b] # "Skipped"
  BY <1>1, <1>10 DEF RowsFit, Ended
<1>14. /\ process'[b] = "none" /\ ~checkQueued'[b] /\ afterGateLd' \subseteq afterGateLd
       /\ gateWaiting' # {} => gateLdBusy'
       /\ gateWaiting' \cap gateNext' = {} /\ written'[b] \subseteq Row /\ (~started'[b] => written'[b] = {})
  BY <1>1, <1>8, <1>9, <1>10 DEF RowsFit, QueuesFit
<1> QED
  BY <1>3, <1>7, <1>11, <1>12, <1>13, <1>14, GoesOn

\* requestCheck() judges at once, or asks the LD.
LEMMA CheckKeeps ==
    ASSUME TypeOK, OneThingInv, NEW b \in Board, NEW before \in Whats, CheckNow(b, before) \/ QueueCheck(b, before)
    PROVE  OneThingInv'
<1>1. Doing("requestCheck", before, b) /\ "requestCheck" \in Calls \ {"answer"}
  BY DEF CheckNow, QueueCheck, Calls
<1>2. /\ agenda \in Seq(Frames) /\ Apart(agenda)
      /\ CallsFor(agenda, "requestCheck", before, b) /\ Names(agenda, b)
      /\ stage[b] \in {"Writing", "Resetting"} /\ process[b] = "none" /\ result[b] # "Skipped"
      /\ ~Later(b) /\ ~Queued(b) /\ ~checkQueued[b]
      /\ RowsFit(b) /\ QueuesFit
  BY <1>1, Called
<1>3. /\ checkBeforeRd' = [checkBeforeRd EXCEPT ![b] = before = "RD"]
      /\ UNCHANGED <<row, written, started, stage, result, process, afterGateLd>>
  BY DEF CheckNow, QueueCheck, tools, ending
<1>4. checkBeforeRd'[b] \/ row'[b] \in Row
  BY <1>2, <1>3 DEF RowsFit, TypeOK, BoardsTyped
<1>5. CASE CheckNow(b, before)
  <2>1. PICK e \in {"port", "listing"} : agenda' = <<Frame("evaluateCheck", {<<e, b>>})>> \o Return
    BY <1>5 DEF CheckNow, EvaluateCheck
  <2>2. e \in Whats /\ "evaluateCheck" \in Calls /\ e # "checked"
    BY DEF Whats, Calls
  <2>3. StackKeeps({b}) /\ OnlyCall(agenda', "evaluateCheck", e, b)
    BY <1>1, <1>2, <2>1, <2>2, StackTurns
  <2>4. UNCHANGED <<checkQueued, gateWaiting, gateNext, gateLdBusy>>
    BY <1>5 DEF CheckNow, ending, gate
  <2>5. RestKeeps({b})
    BY <1>3, <2>4 DEF RestKeeps, TypeOK, BoardsTyped
  <2>6. ~Later(b)' /\ ~Queued(b)' /\ ~checkQueued'[b]
    BY <1>2, <1>3, <2>4 DEF Later, Queued
  <2>7. /\ process'[b] = "none" /\ afterGateLd' \subseteq afterGateLd /\ (gateWaiting' # {} => gateLdBusy')
        /\ gateWaiting' \cap gateNext' = {} /\ written'[b] \subseteq Row /\ (~started'[b] => written'[b] = {})
        /\ stage'[b] \in {"Writing", "Resetting"} /\ result'[b] # "Skipped"
    BY <1>2, <1>3, <2>4 DEF RowsFit, QueuesFit
  <2> QED
    BY <1>4, <2>2, <2>3, <2>5, <2>6, <2>7, GoesOn
<1>6. CASE QueueCheck(b, before)
  <2>1. StackKeeps({b}) /\ NoCall(agenda', b)
    BY <1>1, <1>2, <1>6, StackPops DEF QueueCheck
  <2>2. /\ gateWaiting' \cup gateNext' = gateWaiting \cup gateNext \cup {b}
        /\ gateWaiting' \cap gateNext' = {} /\ gateLdBusy' = TRUE
        /\ checkQueued' = [checkQueued EXCEPT ![b] = TRUE]
    BY <1>2, <1>6 DEF QueueCheck, StartGateLd, QueuesFit, Queued
  <2>3. RestKeeps({b})
    BY <1>3, <2>2 DEF RestKeeps, TypeOK, BoardsTyped
  <2>4. Queued(b)' /\ ~Later(b)' /\ ~Names(agenda, b)'
    BY <1>2, <1>3, <2>1, <2>2 DEF Queued, Later, NoCall
  <2>5. OneThing(b)'
    BY <1>2, <1>3, <2>4 DEF OneThing
  <2>6. \A what \in Whats : ~Launches(what, b)'
    BY <2>1, <2>4 DEF Launches, NoCall, Later, NamedIn
  <2>7. {"undo", "verify"} \subseteq Whats
    BY DEF Whats
  <2>8. RowsFit(b)'
    BY <1>2, <1>3, <1>4, <2>1, <2>6, <2>7 DEF RowsFit, NoCall, Ended
  <2> QED
    BY <1>2, <1>3, <2>1, <2>2, <2>3, <2>5, <2>8, Elsewhere DEF QueuesFit
<1> QED
  BY <1>5, <1>6

\* A check that waited is judged.
LEMMA AnswerKeeps ==
    ASSUME TypeOK, OneThingInv, NEW b \in Board, NEW e \in Whats, AnswerCheck(e, b)
    PROVE  OneThingInv'
<1>1. Doing("answer", e, b) /\ "answer" \in Calls /\ "evaluateCheck" \in Calls
  BY DEF AnswerCheck, Calls
<1>2. /\ agenda \in Seq(Frames) /\ Apart(agenda)
      /\ CallsFor(agenda, "answer", e, b)
      /\ stage[b] \in {"Writing", "Resetting"} /\ process[b] = "none" /\ result[b] # "Skipped"
      /\ ~Later(b) /\ ~Queued(b)
      /\ RowsFit(b) /\ QueuesFit
  BY <1>1, Called
<1>3. checkBeforeRd[b] \/ row[b] \in Row
  BY <1>2, CheckedRow
<1>4. agenda' = <<Frame("evaluateCheck", {<<e, b>>})>> \o Done(e, b)
  BY DEF AnswerCheck, EvaluateCheck
<1>5. StackKeeps({b}) /\ OnlyCall(agenda', "evaluateCheck", e, b)
  BY <1>1, <1>2, <1>4, StackDoesTurn
<1>6. /\ checkQueued' = [checkQueued EXCEPT ![b] = FALSE]
      /\ UNCHANGED <<row, written, started, stage, result, process, afterGateLd, checkBeforeRd,
                     gateWaiting, gateNext, gateLdBusy>>
  BY DEF AnswerCheck, progress, tools, gate
<1>7. RestKeeps({b}) /\ ~checkQueued'[b] /\ ~Later(b)' /\ ~Queued(b)'
  BY <1>2, <1>6 DEF RestKeeps, TypeOK, BoardsTyped, Later, Queued
<1>8. /\ process'[b] = "none" /\ afterGateLd' \subseteq afterGateLd /\ (gateWaiting' # {} => gateLdBusy')
      /\ gateWaiting' \cap gateNext' = {} /\ written'[b] \subseteq Row /\ (~started'[b] => written'[b] = {})
      /\ stage'[b] \in {"Writing", "Resetting"} /\ result'[b] # "Skipped"
      /\ checkBeforeRd'[b] \/ row'[b] \in Row
  BY <1>2, <1>3, <1>6 DEF RowsFit, QueuesFit
<1> QED
  BY <1>1, <1>5, <1>7, <1>8, GoesOn

\* A check that passes asks for the gate.
LEMMA PassKeeps ==
    ASSUME TypeOK, OneThingInv, NEW b \in Board, NEW e \in Whats, CheckPasses(b, e)
    PROVE  OneThingInv'
<1>1. Doing("evaluateCheck", e, b) /\ {"evaluateCheck", "whenGateFree"} \subseteq Calls \ {"answer"} /\ "checked" \in Whats
  BY DEF CheckPasses, Evaluating, Calls, Whats
<1>2. /\ agenda \in Seq(Frames) /\ Apart(agenda)
      /\ CallsFor(agenda, "evaluateCheck", e, b)
      /\ stage[b] \in {"Writing", "Resetting"} /\ process[b] = "none" /\ result[b] # "Skipped"
      /\ ~Later(b) /\ ~Queued(b) /\ ~checkQueued[b]
      /\ RowsFit(b) /\ QueuesFit
  BY <1>1, Called
<1>3. checkBeforeRd[b] \/ row[b] \in Row
  BY <1>2, CheckedRow
<1>4. agenda' = <<Frame("whenGateFree", {<<"checked", b>>})>> \o Return
  BY DEF CheckPasses, WhenGateFree
<1>5. StackKeeps({b}) /\ OnlyCall(agenda', "whenGateFree", "checked", b)
  BY <1>1, <1>2, <1>4, StackTurns
<1>6. UNCHANGED <<row, written, started, stage, result, process, afterGateLd, checkBeforeRd,
                  checkQueued, gateWaiting, gateNext, gateLdBusy>>
  BY DEF CheckPasses, progress, tools, gate, ending
<1>7. RestKeeps({b}) /\ ~checkQueued'[b] /\ ~Later(b)' /\ ~Queued(b)'
  BY <1>2, <1>6 DEF RestKeeps, Later, Queued
<1>8. /\ process'[b] = "none" /\ afterGateLd' \subseteq afterGateLd /\ (gateWaiting' # {} => gateLdBusy')
      /\ gateWaiting' \cap gateNext' = {} /\ written'[b] \subseteq Row /\ (~started'[b] => written'[b] = {})
      /\ stage'[b] \in {"Writing", "Resetting"} /\ result'[b] # "Skipped"
      /\ checkBeforeRd'[b] \/ row'[b] \in Row
  BY <1>2, <1>3, <1>6 DEF RowsFit, QueuesFit
<1> QED
  BY <1>1, <1>5, <1>7, <1>8, GoesOn

\* A check that finds the board gone, or no answer, ends its writing.
LEMMA LeavesKeep ==
    ASSUME TypeOK, OneThingInv, NEW b \in Board, NEW e \in Whats,
           \/ LeftBeforeWrite(b, e) \/ LeftBeforeReset(b, e)
           \/ CheckUnanswered(b) /\ e = "error"
    PROVE  OneThingInv'
<1>1. Doing("evaluateCheck", e, b) /\ "evaluateCheck" \in Calls \ {"answer"} /\ Fill \in NoJobs
  BY DEF LeftBeforeWrite, LeftBeforeReset, CheckUnanswered, Evaluating, Calls, NoJobs
<1>2. /\ agenda \in Seq(Frames) /\ Apart(agenda) /\ Names(agenda, b)
      /\ process[b] = "none" /\ result[b] # "Skipped"
  BY <1>1, Called
<1>3. agenda' = <<Fill>> \o Return
  BY DEF LeftBeforeWrite, LeftBeforeReset, CheckUnanswered
<1>4. StackKeeps({b}) /\ NoCall(agenda', b)
  BY <1>1, <1>2, <1>3, StackPops
<1>5. UNCHANGED <<row, written, started, checkBeforeRd, afterGateLd, gateLdBusy, process>>
  BY DEF LeftBeforeWrite, LeftBeforeReset, CheckUnanswered, progress, tools, gate
<1>6. EndBoards({b}, "Failed") \/ EndBoards({b}, "NotBack") \/ (EnterAdbWait(b) /\ Release({b}))
  BY DEF LeftBeforeWrite, LeftBeforeReset, CheckUnanswered, FailInLoader, EndBoard
<1>7. /\ Release({b}) /\ stage'[b] \in {"Finished", "WaitingForAdb"} /\ result'[b] # "Skipped"
      /\ \A x \in Board \ {b} : stage'[x] = stage[x] /\ result'[x] = result[x]
  BY <1>2, <1>6 DEF EndBoards, EnterAdbWait, TypeOK, BoardsTyped
<1> QED
  BY <1>2, <1>4, <1>5, <1>7, Settles

\* A launch that meets a gate LD waits for it.
LEMMA LaunchLaterKeeps ==
    ASSUME TypeOK, OneThingInv, NEW b \in Board, NEW what \in Whats, LaunchLater(what, b)
    PROVE  OneThingInv'
<1>1. Doing("whenGateFree", what, b) /\ "whenGateFree" \in Calls \ {"answer"}
  BY DEF LaunchLater, Calls
<1>2. /\ agenda \in Seq(Frames) /\ Apart(agenda)
      /\ CallsFor(agenda, "whenGateFree", what, b)
      /\ stage[b] \in {"Writing", "Resetting"} /\ process[b] = "none" /\ result[b] # "Skipped"
      /\ ~Later(b) /\ ~Queued(b) /\ ~checkQueued[b]
      /\ RowsFit(b) /\ QueuesFit
  BY <1>1, Called
<1>3. StackKeeps({b}) /\ NoCall(agenda', b)
  BY <1>1, <1>2, StackDoes DEF LaunchLater
<1>4. /\ afterGateLd' = afterGateLd \cup {<<what, b>>}
      /\ UNCHANGED <<row, written, started, stage, result, process, checkBeforeRd,
                     checkQueued, gateWaiting, gateNext, gateLdBusy>>
  BY DEF LaunchLater, progress, tools, gate, ending
<1>5. RestKeeps({b})
  BY <1>4 DEF RestKeeps
<1>6. \A v \in Whats : <<v, b>> \in afterGateLd' <=> v = what
  BY <1>2, <1>4 DEF Later, NamedIn
<1>7. Single(afterGateLd')
  BY <1>2, <1>4, <1>6 DEF QueuesFit, Single
<1>8. OneThing(b)'
  BY <1>2, <1>3, <1>4 DEF OneThing, NoCall, Queued
<1>9. \A v \in Whats : Launches(v, b)' => v = what /\ Launches(v, b)
  BY <1>2, <1>3, <1>6 DEF Launches, NoCall
<1>10. UnderCheck(b)' => UnderCheck(b)
  BY <1>3, <1>4, <1>9 DEF UnderCheck, Queued, AnswerDue, NoCall, Whats
<1>11. {"undo", "verify"} \subseteq Whats
  BY DEF Whats
<1>12. RowsFit(b)'
  BY <1>2, <1>3, <1>4, <1>9, <1>10, <1>11 DEF RowsFit, NoCall, Ended
<1> QED
  BY <1>2, <1>3, <1>4, <1>5, <1>7, <1>8, <1>12, Elsewhere DEF QueuesFit

\* A check answered after the cancel leads to the reset of a board never written.
LEMMA LaunchCancelledKeeps ==
    ASSUME TypeOK, OneThingInv, NEW b \in Board, LaunchCancelled(b)
    PROVE  OneThingInv'
<1>1. /\ Doing("whenGateFree", "checked", b) /\ "whenGateFree" \in Calls \ {"answer"}
      /\ {"checked", "undo"} \subseteq Whats /\ ~started[b]
  BY DEF LaunchCancelled, Launching, Calls, Whats, Revoked
<1>2. /\ agenda \in Seq(Frames) /\ Apart(agenda)
      /\ process[b] = "none" /\ result[b] # "Skipped"
      /\ ~Later(b) /\ ~Queued(b) /\ ~checkQueued[b]
      /\ RowsFit(b) /\ QueuesFit
  BY <1>1, Called
<1>3. agenda' = <<Frame("whenGateFree", {<<"undo", b>>})>> \o Done("checked", b)
  BY DEF LaunchCancelled, WhenGateFree
<1>4. StackKeeps({b}) /\ OnlyCall(agenda', "whenGateFree", "undo", b)
  BY <1>1, <1>2, <1>3, StackDoesTurn
<1>5. /\ stage' = [stage EXCEPT ![b] = "Resetting"] /\ Release({b})
      /\ UNCHANGED <<row, written, started, result, process, checkBeforeRd, afterGateLd, gateLdBusy>>
  BY DEF LaunchCancelled, progress, tools, gate
<1>6. RestKeeps({b}) /\ ~Later(b)' /\ ~Queued(b)' /\ ~checkQueued'[b]
  BY <1>2, <1>5 DEF RestKeeps, Release, TypeOK, BoardsTyped, Later, Queued
<1>7. /\ process'[b] = "none" /\ afterGateLd' \subseteq afterGateLd /\ (gateWaiting' # {} => gateLdBusy')
      /\ gateWaiting' \cap gateNext' = {} /\ written'[b] \subseteq Row /\ (~started'[b] => written'[b] = {})
      /\ stage'[b] \in {"Writing", "Resetting"} /\ result'[b] # "Skipped" /\ ~started'[b]
  BY <1>1, <1>2, <1>5 DEF RowsFit, QueuesFit, Release, TypeOK, BoardsTyped
<1> QED
  BY <1>1, <1>4, <1>6, <1>7, GoesOn

\* A launch starts the tool that it is for.
LEMMA LaunchKeeps ==
    ASSUME TypeOK, OneThingInv, NEW b \in Board, StartWrite(b) \/ StartVerify(b) \/ StartReset(b) \/ StartUndo(b)
    PROVE  OneThingInv'
<1>1. PICK what \in {"checked", "verify", "undo"} :
          /\ Launching(what, b) /\ agenda' = Done(what, b)
          /\ \/ what = "checked" /\ (StartWrite(b) \/ StartReset(b))
             \/ what = "verify" /\ StartVerify(b)
             \/ what = "undo" /\ StartUndo(b)
  BY DEF StartWrite, StartVerify, StartReset, StartUndo
<1>2. Doing("whenGateFree", what, b) /\ "whenGateFree" \in Calls \ {"answer"} /\ what \in Whats
  BY <1>1 DEF Launching, Calls, Whats
<1>3. /\ agenda \in Seq(Frames) /\ Apart(agenda)
      /\ CallsFor(agenda, "whenGateFree", what, b) /\ Names(agenda, b)
      /\ stage[b] \in {"Writing", "Resetting"} /\ process[b] = "none" /\ result[b] # "Skipped"
      /\ ~Later(b) /\ ~Queued(b) /\ ~checkQueued[b]
      /\ RowsFit(b) /\ QueuesFit
  BY <1>2, Called
<1>4. StackKeeps({b}) /\ NoCall(agenda', b)
  BY <1>1, <1>2, <1>3, StackDoes
<1>5. Launches(what, b)
  BY <1>3 DEF Launches
<1>6. UNCHANGED <<row, written, result, checkBeforeRd, afterGateLd, gateLdBusy, gateWaiting, gateNext, checkQueued>>
  BY DEF StartWrite, StartVerify, StartReset, StartUndo, progress, ending, gate
<1>7. CASE what = "checked" /\ StartWrite(b)
  <2>1. started' = [started EXCEPT ![b] = TRUE] /\ process' = [process EXCEPT ![b] = "WL"] /\ UNCHANGED stage
    BY <1>7 DEF StartWrite, StartTool, ending
  <2>2. row[b] \in Row
    BY <1>1, <1>3, <1>7, <1>2, CheckedRow DEF StartWrite
  <2>3. /\ RestKeeps({b}) /\ process'[b] = "WL" /\ stage'[b] \in {"Writing", "Resetting"} /\ started'[b]
        /\ ~checkQueued'[b] /\ written'[b] \subseteq Row /\ result'[b] # "Skipped" /\ row'[b] \in Row
    BY <1>3, <1>6, <2>1, <2>2 DEF RestKeeps, RowsFit, TypeOK, BoardsTyped
  <2> QED
    BY <1>3, <1>4, <1>6, <2>3, Works DEF UpgradeTools
<1>8. CASE what = "verify" /\ StartVerify(b)
  <2>1. process' = [process EXCEPT ![b] = "RL"] /\ UNCHANGED <<stage, started>>
    BY <1>8 DEF StartVerify, StartTool, ending, progress
  <2>2. row[b] \in Row /\ started[b]
    BY <1>1, <1>3, <1>5, <1>8 DEF RowsFit
  <2>3. /\ RestKeeps({b}) /\ process'[b] = "RL" /\ stage'[b] \in {"Writing", "Resetting"} /\ started'[b]
        /\ ~checkQueued'[b] /\ written'[b] \subseteq Row /\ result'[b] # "Skipped" /\ row'[b] \in Row
    BY <1>3, <1>6, <2>1, <2>2 DEF RestKeeps, RowsFit, TypeOK, BoardsTyped
  <2> QED
    BY <1>3, <1>4, <1>6, <2>3, Works DEF UpgradeTools
<1>9. CASE what = "checked" /\ StartReset(b)
  <2>1. /\ process' = [process EXCEPT ![b] = "RD"] /\ stage' = [stage EXCEPT ![b] = "Resetting"]
        /\ UNCHANGED started
    BY <1>9 DEF StartReset, StartTool, progress
  <2>2. /\ RestKeeps({b}) /\ process'[b] = "RD" /\ stage'[b] = "Resetting" /\ started' = started
        /\ ~checkQueued'[b] /\ written'[b] \subseteq Row /\ result'[b] # "Skipped"
        /\ ~started'[b] => written'[b] = {}
    BY <1>3, <1>6, <2>1 DEF RestKeeps, RowsFit, TypeOK, BoardsTyped
  <2> QED
    BY <1>3, <1>4, <1>6, <2>2, Works DEF UpgradeTools
<1>10. CASE what = "undo" /\ StartUndo(b)
  <2>1. process' = [process EXCEPT ![b] = "undo"] /\ UNCHANGED <<stage, started>>
    BY <1>10 DEF StartUndo, StartTool, ending, progress
  <2>2. ~started[b]
    BY <1>1, <1>5, <1>3, <1>10 DEF RowsFit
  <2>3. /\ RestKeeps({b}) /\ process'[b] = "undo" /\ stage'[b] \in {"Writing", "Resetting"} /\ ~started'[b]
        /\ ~checkQueued'[b] /\ written'[b] \subseteq Row /\ result'[b] # "Skipped" /\ written'[b] = {}
    BY <1>3, <1>6, <2>1, <2>2 DEF RestKeeps, RowsFit, TypeOK, BoardsTyped
  <2> QED
    BY <1>3, <1>4, <1>6, <2>3, Works DEF UpgradeTools
<1> QED
  BY <1>1, <1>7, <1>8, <1>9, <1>10

\* A launch whose working folder cannot be used ends the board.
LEMMA NoFolderKeeps ==
    ASSUME TypeOK, OneThingInv, NEW b \in Board, NEW what \in Whats, NoFolder(what, b)
    PROVE  OneThingInv'
<1>1. Doing("whenGateFree", what, b) /\ "whenGateFree" \in Calls /\ Fill \in NoJobs
  BY DEF NoFolder, Launching, Calls, NoJobs
<1>2. /\ agenda \in Seq(Frames) /\ Apart(agenda) /\ Names(agenda, b)
      /\ process[b] = "none" /\ result[b] # "Skipped"
  BY <1>1, Called
<1>3. StackKeeps({b}) /\ NoCall(agenda', b)
  BY <1>1, <1>2, StackDoes DEF NoFolder
<1>4. UNCHANGED <<row, written, started, checkBeforeRd, afterGateLd, gateLdBusy, process>> /\ EndBoards({b}, "Failed")
  BY DEF NoFolder, progress, tools, gate, FailInLoader, EndBoard
<1>5. /\ Release({b}) /\ stage'[b] = "Finished" /\ result'[b] # "Skipped"
      /\ \A x \in Board \ {b} : stage'[x] = stage[x] /\ result'[x] = result[x]
  BY <1>4 DEF EndBoards
<1> QED
  BY <1>2, <1>3, <1>4, <1>5, Settles

\* A handler that is no call for a board leaves the boards alone.
LEMMA HandlersKeep ==
    ASSUME TypeOK, OneThingInv, FillEnds \/ StartNextGateLd \/ MaybeFinishRun
    PROVE  OneThingInv'
<1>1. QueuesFit /\ agenda \in Seq(Frames) /\ Apart(agenda)
  BY DEF OneThingInv, QueuesFit, TypeOK
<1>2. StackKeeps({})
  <2>1. {"fill", "gateNext", "maybeFinishRun"} \subseteq Calls \ {"answer"} /\ MaybeFinish \in NoJobs
    BY DEF Calls, NoJobs
  <2> QED
    BY <1>1, <2>1, StackGoesOn DEF FillEnds, StartNextGateLd, MaybeFinishRun
<1>3. UNCHANGED <<stage, result, process, row, written, started, checkBeforeRd, checkQueued, afterGateLd>>
  BY DEF FillEnds, StartNextGateLd, MaybeFinishRun, progress, tools, ending
<1>4. CASE UNCHANGED <<gateWaiting, gateNext, gateLdBusy>>
  BY <1>1, <1>2, <1>3, <1>4, Unseen DEF QueuesFit
<1>5. CASE StartNextGateLd /\ gateNext # {} /\ ~gateLdBusy
  <2>1. gateWaiting = {} /\ gateWaiting' = gateNext /\ gateNext' = {} /\ gateLdBusy' = TRUE
    BY <1>1, <1>5 DEF StartNextGateLd, StartGateLd, QueuesFit
  <2>2. RestKeeps({})
    BY <1>3, <2>1 DEF RestKeeps
  <2>3. Single(afterGateLd')
    BY <1>1, <1>3 DEF QueuesFit
  <2>4. {} \in SUBSET Board /\ \A x \in {} : OneThing(x)' /\ RowsFit(x)'
    OBVIOUS
  <2> QED
    BY <1>2, <2>1, <2>2, <2>3, <2>4, Elsewhere
<1> QED
  BY <1>4, <1>5 DEF FillEnds, StartNextGateLd, MaybeFinishRun, gate, ending

\* The launches that waited for the LD are called for.
LEMMA AfterAnswersKeeps ==
    ASSUME TypeOK, OneThingInv, AfterAnswers
    PROVE  OneThingInv'
<1> DEFINE B == {b \in Board : Later(b)}
           s == <<Frame("gateNext", {})>> \o (<<MaybeFinish>> \o Return)
<1>1. /\ QueuesFit /\ agenda \in Seq(Frames) /\ Apart(agenda) /\ afterGateLd \in SUBSET Job
      /\ {"afterAnswers", "whenGateFree"} \subseteq Calls \ {"answer"} /\ Running("afterAnswers")
  BY DEF OneThingInv, QueuesFit, TypeOK, RunTyped, Calls, AfterAnswers
<1>2. /\ Return \in Seq(Frames) /\ Apart(Return)
      /\ \A call, what, x : CallsFor(Return, call, what, x) => CallsFor(agenda, call, what, x)
      /\ \A call, what, x : CallsFor(agenda, call, what, x) /\ call # "afterAnswers" => CallsFor(Return, call, what, x)
      /\ \A x : Names(Return, x) => Names(agenda, x)
  BY <1>1, Returns
<1>3. /\ s \in Seq(Frames) /\ Apart(s)
      /\ \A call, what, x : CallsFor(s, call, what, x) <=> CallsFor(Return, call, what, x)
      /\ \A x : Names(s, x) <=> Names(Return, x)
  <2>1. LET t == <<MaybeFinish>> \o Return
        IN  /\ t \in Seq(Frames) /\ Apart(t)
            /\ \A call, what, x : CallsFor(t, call, what, x) <=> CallsFor(Return, call, what, x)
            /\ \A x : Names(t, x) <=> Names(Return, x)
    BY <1>2, PushPlain DEF NoJobs
  <2>2. Frame("gateNext", {}) \in NoJobs
    BY DEF NoJobs
  <2> QED
    BY <2>1, <2>2, PushPlain
<1>4. agenda' = ForEach("whenGateFree", afterGateLd) \o s
  <2>1. /\ ForEach("whenGateFree", afterGateLd) \in Seq(Frames)
        /\ Frame("gateNext", {}) \in Frames /\ MaybeFinish \in Frames
    BY <1>1, FramesTyped
  <2>2. agenda' = ForEach("whenGateFree", afterGateLd) \o <<Frame("gateNext", {}), MaybeFinish>> \o Return
    BY DEF AfterAnswers
  <2> HIDE DEF Return
  <2> QED
    BY <2>1, <2>2, <1>2
<1> HIDE DEF s
<1>5. \A b \in B : ~Names(agenda, b) /\ ~Queued(b) /\ process[b] = "none" /\ stage[b] \in {"Writing", "Resetting"}
  BY DEF OneThingInv, OneThing
<1>6. \A b \in Board : NamedIn(afterGateLd, b) => ~Names(s, b)
  BY <1>2, <1>3, <1>5 DEF Later
<1>7. /\ Apart(agenda')
      /\ \A call, what, x : CallsFor(agenda', call, what, x)
                                <=> (call = "whenGateFree" /\ <<what, x>> \in afterGateLd) \/ CallsFor(s, call, what, x)
      /\ \A x : Names(agenda', x) <=> NamedIn(afterGateLd, x) \/ Names(s, x)
  BY <1>1, <1>3, <1>4, <1>6, PushEach DEF QueuesFit
<1>8. \A x, what : <<what, x>> \in afterGateLd => NamedIn(afterGateLd, x)
  BY <1>1 DEF NamedIn, Job
<1>9. StackKeeps(B)
  BY <1>2, <1>3, <1>7, <1>8 DEF StackKeeps, Later
<1>10. /\ afterGateLd' = {}
       /\ UNCHANGED <<row, written, started, stage, result, process, checkBeforeRd,
                      checkQueued, gateWaiting, gateNext, gateLdBusy>>
  BY DEF AfterAnswers, progress, tools, gate, ending
<1>11. RestKeeps(B) /\ Single(afterGateLd')
  BY <1>10 DEF RestKeeps, Single
<1>12. ASSUME NEW b \in B PROVE OneThing(b)' /\ RowsFit(b)'
  <2>1. OneThing(b) /\ RowsFit(b) /\ NoCall(agenda, b)
    BY <1>1, <1>5, NotNamed DEF OneThingInv
  <2>2. ~Later(b)' /\ ~Queued(b)' /\ ~checkQueued'[b]
    BY <1>5, <1>10, <2>1 DEF Later, NamedIn, Queued, OneThing, AnswerDue, NoCall
  <2>3. OneThing(b)'
    BY <1>5, <1>10, <2>2 DEF OneThing, UpgradeTools
  <2>4. \A call, what : CallsFor(agenda', call, what, b) <=> call = "whenGateFree" /\ <<what, b>> \in afterGateLd
    BY <1>2, <1>3, <1>7, <2>1 DEF NoCall
  <2>5. \A v \in Whats : Launches(v, b)' => Launches(v, b)
    BY <1>10, <2>4 DEF Launches
  <2>6. UnderCheck(b)' => UnderCheck(b)
    BY <2>2, <2>4, <2>5 DEF UnderCheck, AnswerDue, Whats
  <2>7. {"undo", "verify"} \subseteq Whats
    BY DEF Whats
  <2>8. RowsFit(b)'
    BY <1>10, <2>1, <2>4, <2>5, <2>6, <2>7 DEF RowsFit, Ended
  <2> QED
    BY <2>3, <2>8
<1>13. B \in SUBSET Board
  OBVIOUS
<1> HIDE DEF B
<1> QED
  BY <1>1, <1>9, <1>10, <1>11, <1>12, <1>13, Elsewhere DEF QueuesFit


-----------------------------------------------------------------------------
(* The steps that begin with an event.                                     *)

\* What is known of a board whose tool ends.
LEMMA ToolOver ==
    ASSUME TypeOK, OneThingInv, NEW b \in Board, NEW tool \in UpgradeTools, Ends(b, tool)
    PROVE  /\ agenda = << >> /\ process[b] = tool /\ process'[b] = "none"
           /\ \A x \in Board \ {b} : process'[x] = process[x]
           /\ stage[b] \in {"Writing", "Resetting"} /\ result[b] # "Skipped"
           /\ ~Later(b) /\ ~Queued(b) /\ ~checkQueued[b]
           /\ RowsFit(b) /\ QueuesFit
<1>1. agenda = << >> /\ process[b] = tool /\ process' = [process EXCEPT ![b] = "none"]
  BY DEF Ends, Idle, EndTool
<1>2. OneThing(b) /\ RowsFit(b) /\ QueuesFit
  BY DEF OneThingInv
<1>3. stage[b] \in {"Writing", "Resetting"} /\ ~Later(b) /\ ~Queued(b)
  BY <1>1, <1>2 DEF OneThing, UpgradeTools
<1>4. ~AnswerDue(b)
  BY <1>1, EmptyStack DEF AnswerDue
<1>5. ~checkQueued[b]
  BY <1>2, <1>3, <1>4 DEF OneThing
<1>6. result[b] # "Skipped"
  BY <1>2, <1>3 DEF RowsFit, Ended
<1> QED
  BY <1>1, <1>2, <1>3, <1>5, <1>6 DEF TypeOK, BoardsTyped

\* A clean WL is read back; a row that is on the board leads to the next one.
LEMMA RowKeeps ==
    ASSUME TypeOK, OneThingInv, NEW b \in Board, WriteOk(b) \/ VerifyOk(b)
    PROVE  OneThingInv'
<1>1. PICK tool \in {"WL", "RL"} : Ends(b, tool)
  BY DEF WriteOk, VerifyOk
<1>2. tool \in UpgradeTools
  BY DEF UpgradeTools
<1>3. /\ agenda = << >> /\ process[b] = tool /\ process'[b] = "none"
      /\ \A x \in Board \ {b} : process'[x] = process[x]
      /\ stage[b] \in {"Writing", "Resetting"} /\ result[b] # "Skipped"
      /\ ~Later(b) /\ ~Queued(b) /\ ~checkQueued[b]
      /\ RowsFit(b) /\ QueuesFit
  BY <1>1, <1>2, ToolOver
<1>4. started[b] /\ row[b] \in Row /\ written[b] \subseteq Row
  BY <1>3 DEF RowsFit
<1>5. UNCHANGED <<stage, result, started, checkBeforeRd, checkQueued, afterGateLd, gateWaiting, gateNext, gateLdBusy>>
  BY DEF WriteOk, VerifyOk, RowDone, ending, gate, progress
<1>6. /\ ~Later(b)' /\ ~Queued(b)' /\ stage'[b] \in {"Writing", "Resetting"} /\ result'[b] # "Skipped"
      /\ ~checkQueued'[b] /\ started'[b] /\ afterGateLd' \subseteq afterGateLd
      /\ (gateWaiting' # {} => gateLdBusy') /\ gateWaiting' \cap gateNext' = {}
  BY <1>3, <1>4, <1>5 DEF Later, Queued, QueuesFit
<1>7. CASE WriteOk(b) /\ Verify
  <2>1. agenda' = <<Frame("whenGateFree", {<<"verify", b>>})>> /\ UNCHANGED <<row, written>>
    BY <1>7 DEF WriteOk, WhenGateFree, progress
  <2>2. "whenGateFree" \in Calls /\ "verify" \in Whats
    BY DEF Calls, Whats
  <2>3. StackKeeps({b}) /\ OnlyCall(agenda', "whenGateFree", "verify", b)
    BY <1>3, <2>1, <2>2, StackBegins
  <2>4. RestKeeps({b}) /\ row'[b] \in Row /\ written'[b] \subseteq Row
    BY <1>3, <1>4, <1>5, <2>1 DEF RestKeeps
  <2> QED
    BY <1>3, <1>6, <2>2, <2>3, <2>4, GoesOn
<1>8. CASE RowDone(b)
  <2> DEFINE w == IF row[b] + 1 > NRows THEN "RD" ELSE "WL"
  <2>1. /\ written' = [written EXCEPT ![b] = @ \cup {row[b]}] /\ row' = [row EXCEPT ![b] = @ + 1]
        /\ agenda' = <<Frame("requestCheck", {<<w, b>>}), Fill>>
    BY <1>8 DEF RowDone, RequestCheck
  <2>2. row \in [Board -> Nat \ {0}] /\ written \in [Board -> SUBSET (Nat \ {0})]
    BY DEF TypeOK, BoardsTyped
  <2>3. /\ row'[b] = row[b] + 1 /\ written'[b] = written[b] \cup {row[b]}
        /\ \A x \in Board \ {b} : row'[x] = row[x] /\ written'[x] = written[x]
    BY <2>1, <2>2
  <2>4. w # "RD" => row'[b] \in Row
    BY <1>4, <2>3, FleetAssumption DEF Row, FleetAssumption
  <2>5. "requestCheck" \in Calls /\ w \in Whats /\ Fill \in NoJobs /\ w # "checked"
    BY DEF Calls, Whats, NoJobs
  <2> HIDE DEF w
  <2>6. StackKeeps({b}) /\ OnlyCall(agenda', "requestCheck", w, b)
    BY <1>3, <2>1, <2>5, StackBegins
  <2>7. RestKeeps({b}) /\ written'[b] \subseteq Row
    BY <1>3, <1>4, <1>5, <2>3 DEF RestKeeps
  <2> QED
    BY <1>3, <1>6, <2>4, <2>5, <2>6, <2>7, GoesOn
<1> QED
  BY <1>7, <1>8 DEF WriteOk, VerifyOk

\* A tool whose end is the end of its board, or the begin of its ADB wait.
LEMMA ToolSettles ==
    ASSUME TypeOK, OneThingInv, NEW b \in Board,
           \/ WriteFails(b) \/ WriteFindsNobody(b) \/ ResetOk(b) \/ ResetFails(b) \/ ResetFindsNobody(b)
           \/ UndoOk(b) \/ UndoFails(b) \/ UndoFindsNobody(b)
    PROVE  OneThingInv'
<1>1. PICK tool \in UpgradeTools :
          Ends(b, tool) /\ (UndoOk(b) \/ UndoFails(b) \/ UndoFindsNobody(b) => tool = "undo")
  <2>1. UndoOk(b) \/ UndoFails(b) \/ UndoFindsNobody(b) => Ends(b, "undo")
    BY DEF UndoOk, UndoFails, UndoFindsNobody
  <2>2. CASE WriteFails(b) \/ WriteFindsNobody(b) \/ ResetOk(b) \/ ResetFails(b) \/ ResetFindsNobody(b)
    <3>1. PICK tool \in {"WL", "RL", "RD"} : Ends(b, tool)
      BY <2>2 DEF WriteFails, WriteFindsNobody, ResetOk, ResetFails, ResetFindsNobody
    <3>2. UndoOk(b) \/ UndoFails(b) \/ UndoFindsNobody(b) => tool = "undo"
      BY <2>1, <3>1 DEF Ends
    <3> QED
      BY <3>1, <3>2 DEF UpgradeTools
  <2> QED
    BY <2>1, <2>2 DEF UpgradeTools
<1>2. /\ agenda = << >> /\ process[b] = tool /\ process'[b] = "none"
      /\ \A x \in Board \ {b} : process'[x] = process[x]
      /\ stage[b] \in {"Writing", "Resetting"} /\ result[b] # "Skipped"
      /\ RowsFit(b)
  BY <1>1, ToolOver
<1>3. agenda' = <<Fill>> /\ UNCHANGED <<row, written, started, checkBeforeRd, afterGateLd, gateLdBusy>>
  BY DEF WriteFails, WriteFindsNobody, ResetOk, ResetFails, ResetFindsNobody, UndoOk, UndoFails, UndoFindsNobody,
         progress, gate
<1>4. process[b] # "none"
  BY <1>2 DEF UpgradeTools
<1>5. Fill \in NoJobs /\ "fill" \in Calls /\ "WL" \in Whats
  BY DEF NoJobs, Calls, Whats
<1>6. StackKeeps({b}) /\ NoCall(agenda', b)
  BY <1>2, <1>3, <1>5, StackBegins
<1>7. CASE \E res \in {"Failed", "Done"} : EndBoard(b, res)
  <2>1. /\ Release({b}) /\ stage'[b] = "Finished" /\ result'[b] # "Skipped"
        /\ \A x \in Board \ {b} : stage'[x] = stage[x] /\ result'[x] = result[x]
    BY <1>7 DEF EndBoard, EndBoards
  <2> QED
    BY <1>2, <1>3, <1>4, <1>6, <2>1, Settles
<1>8. CASE tool = "undo" /\ EndBoard(b, "Skipped")
  <2>1. ~started[b]
    BY <1>2, <1>8 DEF RowsFit
  <2>2. /\ Release({b}) /\ stage'[b] = "Finished"
        /\ \A x \in Board \ {b} : stage'[x] = stage[x] /\ result'[x] = result[x]
    BY <1>8 DEF EndBoard, EndBoards
  <2> QED
    BY <1>2, <1>3, <1>4, <1>6, <2>1, <2>2, Settles
<1>9. CASE EnterAdbWait(b) /\ Release({b})
  <2>1. /\ stage'[b] = "WaitingForAdb" /\ result'[b] # "Skipped"
        /\ \A x \in Board \ {b} : stage'[x] = stage[x] /\ result'[x] = result[x]
    BY <1>2, <1>9 DEF EnterAdbWait, TypeOK, BoardsTyped
  <2> QED
    BY <1>2, <1>3, <1>4, <1>6, <1>9, <2>1, Settles
<1>10. CASE WriteFails(b) \/ WriteFindsNobody(b) \/ ResetFails(b) \/ ResetFindsNobody(b)
  BY <1>7, <1>10 DEF WriteFails, WriteFindsNobody, ResetFails, ResetFindsNobody, FailInLoader, FailGone
<1>11. CASE ResetOk(b)
  BY <1>7, <1>9, <1>11 DEF ResetOk
<1>12. CASE UndoOk(b) \/ UndoFails(b) \/ UndoFindsNobody(b)
  BY <1>1, <1>8, <1>12 DEF UndoOk, UndoFails, UndoFindsNobody
<1> QED
  BY <1>10, <1>11, <1>12

\* An answer of adb about one board.
LEMMA AdbKeeps ==
    ASSUME TypeOK, OneThingInv, NEW b \in Board,
           GetStateNo(b) \/ GetStateDevice(b) \/ GetStateLate(b) \/ InfoEnds(b) \/ RfmcuEnds(b)
    PROVE  OneThingInv'
<1>1. PICK tool \in AdbTools, next \in AdbTools \cup {"none"} : AdbEnds(b, tool, next)
  BY DEF GetStateNo, GetStateDevice, GetStateLate, InfoEnds, RfmcuEnds, AdbTools
<1>2. agenda = << >> /\ process[b] = tool /\ process' = [process EXCEPT ![b] = next]
  BY <1>1 DEF AdbEnds, Idle
<1>3. process[b] # "none" /\ process[b] \notin UpgradeTools
  BY <1>2 DEF AdbTools, UpgradeTools
<1>4. process'[b] = next /\ \A x \in Board \ {b} : process'[x] = process[x]
  BY <1>2 DEF TypeOK, BoardsTyped
<1>5. OneThing(b) /\ RowsFit(b) /\ stage[b] # "Loader" /\ ~Queued(b) /\ ~AnswerDue(b)
  BY <1>2, <1>3, EmptyStack DEF OneThingInv, OneThing, AnswerDue
<1>6. ~checkQueued[b]
  BY <1>5 DEF OneThing
<1>7. UNCHANGED <<row, written, started, checkBeforeRd, afterGateLd, gateLdBusy>>
  BY DEF GetStateNo, GetStateDevice, GetStateLate, InfoEnds, RfmcuEnds, progress, gate
<1>8. Fill \in NoJobs /\ "fill" \in Calls /\ "WL" \in Whats
  BY DEF NoJobs, Calls, Whats
<1>9. agenda' = << >> \/ agenda' = <<Fill>>
  BY <1>2 DEF GetStateNo, GetStateDevice, GetStateLate, InfoEnds, RfmcuEnds
<1>10. StackKeeps({b}) /\ NoCall(agenda', b)
  BY <1>2, <1>8, <1>9, StackBegins
<1>11. CASE RfmcuEnds(b)
  <2>1. /\ Release({b}) /\ stage'[b] = "Finished" /\ result'[b] # "Skipped"
        /\ \A x \in Board \ {b} : stage'[x] = stage[x] /\ result'[x] = result[x]
    BY <1>11 DEF RfmcuEnds, EndBoard, EndBoards
  <2>2. process'[b] = "none"
    BY <1>11 DEF RfmcuEnds, AdbEnds, TypeOK, BoardsTyped
  <2> QED
    BY <1>3, <1>4, <1>7, <1>10, <2>1, <2>2, Settles
<1>12. CASE GetStateNo(b) \/ GetStateDevice(b) \/ GetStateLate(b) \/ InfoEnds(b)
  <2>1. UNCHANGED <<result, checkQueued, gateWaiting, gateNext>>
    BY <1>12 DEF GetStateNo, GetStateDevice, GetStateLate, InfoEnds, ending
  <2>2. /\ stage'[b] # "Loader" /\ (result'[b] = "Skipped" => stage'[b] = "Finished")
        /\ \A x \in Board \ {b} : stage'[x] = stage[x]
    <3>1. CASE GetStateDevice(b)
      <4>1. stage[b] = "WaitingForAdb" /\ stage' = [stage EXCEPT ![b] = "ReadingInfo"]
        BY <3>1 DEF GetStateDevice, Waiting
      <4>2. result[b] # "Skipped"
        BY <1>5, <4>1 DEF RowsFit, Ended
      <4> QED
        BY <2>1, <4>1, <4>2 DEF TypeOK, BoardsTyped
    <3>2. CASE UNCHANGED stage
      BY <1>5, <2>1, <3>2 DEF RowsFit, Ended
    <3> QED
      BY <1>12, <3>1, <3>2 DEF GetStateNo, GetStateLate, InfoEnds, ending
  <2>3. RestKeeps({b})
    BY <1>4, <1>7, <2>1, <2>2 DEF RestKeeps
  <2>4. process'[b] \in AdbTools \cup {"none"} /\ process'[b] \notin UpgradeTools
    BY <1>4 DEF AdbTools, UpgradeTools
  <2>5. /\ ~checkQueued'[b] /\ written'[b] \subseteq Row /\ (~started'[b] => written'[b] = {})
        /\ (result'[b] = "Skipped" => ~started'[b])
    BY <1>5, <1>6, <1>7, <2>1 DEF RowsFit
  <2> QED
    BY <1>3, <1>7, <1>10, <2>1, <2>2, <2>3, <2>4, <2>5, Works DEF UpgradeTools
<1> QED
  BY <1>11, <1>12

\* A board that is neither written nor reset, between two events, waits for no call.
LEMMA AtEase ==
    ASSUME OneThingInv, agenda = << >>, NEW b \in Board, stage[b] \notin {"Writing", "Resetting"}
    PROVE  ~Later(b) /\ ~Queued(b) /\ ~checkQueued[b] /\ process[b] \notin UpgradeTools
<1>1. OneThing(b) /\ ~AnswerDue(b)
  BY EmptyStack DEF OneThingInv, AnswerDue
<1> QED
  BY <1>1 DEF OneThing

\* An event that only turns to the scheduler, or to none.
LEMMA PlainBegins ==
    ASSUME agenda = << >>, agenda' = << >> \/ \E f \in NoJobs : agenda' = <<f>>
    PROVE  StackKeeps({}) /\ \A b \in Board : NoCall(agenda', b)
<1>1. 1 \in Board /\ "fill" \in Calls /\ "WL" \in Whats
  BY FleetAssumption DEF FleetAssumption, Board, Calls, Whats
<1>2. StackKeeps({})
  BY <1>1, StackBegins
<1>3. \A b \in Board : NoCall(agenda', b)
  BY <1>1, StackBegins
<1> QED
  BY <1>2, <1>3

\* The LD ends: the checks that waited for it are to be answered.
LEMMA GateLdKeeps ==
    ASSUME TypeOK, OneThingInv, GateLdEnds
    PROVE  OneThingInv'
<1> DEFINE s == <<Frame("afterAnswers", {})>>
<1>1. PICK e \in {"listing", "error"} : agenda' = ForEach("answer", {e} \X gateWaiting) \o s
  BY DEF GateLdEnds
<1>2. /\ agenda = << >> /\ gateWaiting \in SUBSET Board /\ QueuesFit /\ e \in Whats /\ "answer" \in Calls
      /\ Frame("afterAnswers", {}) \in NoJobs
  BY DEF GateLdEnds, Idle, TypeOK, RunTyped, OneThingInv, Whats, Calls, NoJobs
<1>3. s \in Seq(Frames) /\ Apart(s) /\ (\A x : ~Names(s, x)) /\ \A call, what, x : ~CallsFor(s, call, what, x)
  <2>1. LET t == <<Frame("afterAnswers", {})>> \o << >>
        IN  /\ t \in Seq(Frames) /\ Apart(t)
            /\ (\A x : ~Names(t, x)) /\ \A call, what, x : ~CallsFor(t, call, what, x)
    BY <1>2, EmptyStack, PushPlain
  <2>2. s = <<Frame("afterAnswers", {})>> \o << >>
    BY <1>2, FramesTyped
  <2> QED
    BY <2>1, <2>2
<1> HIDE DEF s
<1> DEFINE jobs == {e} \X gateWaiting
<1>4. jobs \in SUBSET Job /\ Single(jobs) /\ \A x : NamedIn(jobs, x) <=> x \in gateWaiting
  BY <1>2 DEF Job, Single, NamedIn
<1>5. agenda' = ForEach("answer", jobs) \o s /\ \A what, x : <<what, x>> \in jobs <=> what = e /\ x \in gateWaiting
  BY <1>1
<1> HIDE DEF jobs
<1>6. /\ agenda' \in Seq(Frames) /\ Apart(agenda')
      /\ \A call, what, x : CallsFor(agenda', call, what, x) <=> call = "answer" /\ <<what, x>> \in jobs
      /\ \A x : Names(agenda', x) <=> x \in gateWaiting
  BY <1>2, <1>3, <1>4, <1>5, PushEach
<1>7. StackKeeps(gateWaiting)
  BY <1>2, <1>5, <1>6, EmptyStack DEF StackKeeps
<1>8. /\ gateWaiting' = {}
      /\ UNCHANGED <<row, written, started, checkBeforeRd, stage, result, process, checkQueued, gateNext, afterGateLd>>
  BY DEF GateLdEnds, progress, tools
<1>9. RestKeeps(gateWaiting) /\ Single(afterGateLd') /\ gateWaiting' \cap gateNext' = {}
  BY <1>2, <1>8 DEF RestKeeps, QueuesFit
<1>10. ASSUME NEW b \in gateWaiting PROVE OneThing(b)' /\ RowsFit(b)'
  <2>1. OneThing(b) /\ RowsFit(b) /\ Queued(b) /\ b \notin gateNext /\ b \in Board
    BY <1>2 DEF OneThingInv, QueuesFit, Queued
  <2>2. ~Later(b) /\ process[b] = "none" /\ stage[b] \in {"Writing", "Resetting"}
    BY <2>1 DEF OneThing
  <2>3. ~Later(b)' /\ ~Queued(b)' /\ AnswerDue(b)'
    BY <1>2, <1>5, <1>6, <1>8, <2>1, <2>2 DEF Later, Queued, AnswerDue
  <2>4. OneThing(b)'
    BY <1>8, <2>2, <2>3 DEF OneThing
  <2>5. \A call, what : CallsFor(agenda', call, what, b) => call = "answer"
    BY <1>6
  <2>6. \A what \in Whats : Launches(what, b)' => Launches(what, b)
    BY <1>8, <2>5 DEF Launches
  <2>7. UnderCheck(b) /\ {"undo", "verify"} \subseteq Whats
    BY <2>1 DEF UnderCheck, Whats
  <2>8. RowsFit(b)'
    BY <1>8, <2>1, <2>5, <2>6, <2>7 DEF RowsFit, Ended
  <2> QED
    BY <2>4, <2>8
<1> QED
  BY <1>2, <1>7, <1>8, <1>9, <1>10, Elsewhere

\* One tick for all the waits.
LEMMA TickKeeps ==
    ASSUME TypeOK, OneThingInv, AdbTick
    PROVE  OneThingInv'
<1> DEFINE over == {b \in Waiting : process[b] = "none" /\ waitOver[b]}
<1>1. /\ agenda = << >> /\ Waiting \in SUBSET Board /\ over \subseteq Waiting /\ QueuesFit
      /\ Fill \in NoJobs
  BY DEF AdbTick, Idle, Waiting, OneThingInv, NoJobs
<1>2. /\ EndBoards(over, "NotBack")
      /\ \A x \in Board \ Waiting : process'[x] = process[x]
      /\ \A x \in Waiting : process'[x] = process[x] \/ process'[x] = "getState"
      /\ agenda' = << >> \/ agenda' = <<Fill>>
  <2>1. over = {b \in {x \in Waiting : process[x] = "none"} : waitOver[b]}
    OBVIOUS
  <2>2. process' = [b \in Board |-> IF b \in {x \in Waiting : process[x] = "none"} \ over THEN "getState" ELSE process[b]]
    BY <2>1 DEF AdbTick
  <2>3. EndBoards(over, "NotBack") /\ (agenda' = << >> \/ agenda' = <<Fill>>)
    BY <2>1 DEF AdbTick
  <2> HIDE DEF over
  <2> QED
    BY <1>1, <2>2, <2>3
<1> HIDE DEF over
<1>3. StackKeeps({}) /\ \A b \in Board : NoCall(agenda', b)
  BY <1>1, <1>2, PlainBegins
<1>4. StackKeeps(Waiting)
  BY <1>1, <1>3 DEF StackKeeps
<1>5. UNCHANGED <<row, written, started, checkBeforeRd, afterGateLd, gateLdBusy>>
  BY DEF AdbTick, progress, gate
<1>6. /\ \A x \in Board : stage'[x] = (IF x \in over THEN "Finished" ELSE stage[x])
      /\ \A x \in Board : result'[x] = (IF x \in over THEN "NotBack" ELSE result[x])
      /\ \A x \in Board : checkQueued'[x] = (x \notin over /\ checkQueued[x])
      /\ gateWaiting' = gateWaiting \ over /\ gateNext' = gateNext \ over
  BY <1>2 DEF EndBoards, Release
<1>7. \A x \in Board \ Waiting : checkQueued'[x] = checkQueued[x]
  BY <1>1, <1>6 DEF TypeOK, BoardsTyped
<1>8. RestKeeps(Waiting)
  BY <1>1, <1>2, <1>5, <1>6, <1>7 DEF RestKeeps
<1>9. ASSUME NEW b \in Waiting PROVE OneThing(b)' /\ RowsFit(b)'
  <2>1. b \in Board /\ stage[b] = "WaitingForAdb" /\ RowsFit(b)
    BY DEF Waiting, OneThingInv
  <2>2. ~Later(b) /\ ~Queued(b) /\ ~checkQueued[b] /\ process[b] \notin UpgradeTools
    BY <1>1, <2>1, AtEase
  <2>3. stage'[b] \in {"WaitingForAdb", "Finished"} /\ result'[b] # "Skipped" /\ ~checkQueued'[b]
    BY <1>6, <2>1, <2>2 DEF RowsFit, Ended
  <2>4. ~Later(b)' /\ ~Queued(b)' /\ ~Names(agenda, b)' /\ ~AnswerDue(b)'
    BY <1>3, <1>5, <1>6, <2>1, <2>2 DEF Later, Queued, NoCall, AnswerDue
  <2>5. process'[b] \notin UpgradeTools
    BY <1>2, <2>2 DEF UpgradeTools
  <2>6. OneThing(b)'
    BY <2>3, <2>4, <2>5 DEF OneThing
  <2>7. \A what \in Whats : ~Launches(what, b)'
    BY <1>3, <2>1, <2>4 DEF Launches, NoCall, Later, NamedIn
  <2>8. ~UnderCheck(b)' /\ {"undo", "verify"} \subseteq Whats
    BY <1>3, <2>1, <2>4, <2>7 DEF UnderCheck, NoCall, Whats
  <2>9. RowsFit(b)'
    BY <1>3, <1>5, <2>1, <2>3, <2>5, <2>7, <2>8 DEF RowsFit, NoCall, UpgradeTools
  <2> QED
    BY <2>6, <2>9
<1> QED
  BY <1>1, <1>4, <1>5, <1>6, <1>8, <1>9, Elsewhere DEF QueuesFit

\* The cancel ends the waits, and takes back the boards that were not started.
LEMMA CancelKeeps ==
    ASSUME TypeOK, OneThingInv, Cancel
    PROVE  OneThingInv'
<1> DEFINE B == Waiting \cup NotStarted
           jobs == {"undo"} \X NotStarted
           s == <<MaybeFinish>>
<1>1. /\ agenda = << >> /\ B \in SUBSET Board /\ NotStarted \in SUBSET Board /\ QueuesFit
      /\ MaybeFinish \in NoJobs /\ "whenGateFree" \in Calls /\ {"undo", "verify"} \subseteq Whats
  BY DEF Cancel, Idle, Waiting, NotStarted, Mapped, OneThingInv, NoJobs, Calls, Whats
<1>2. s \in Seq(Frames) /\ Apart(s) /\ (\A x : ~Names(s, x)) /\ \A call, what, x : ~CallsFor(s, call, what, x)
  <2>1. LET t == <<MaybeFinish>> \o << >>
        IN  /\ t \in Seq(Frames) /\ Apart(t)
            /\ (\A x : ~Names(t, x)) /\ \A call, what, x : ~CallsFor(t, call, what, x)
    BY <1>1, EmptyStack, PushPlain
  <2>2. s = <<MaybeFinish>> \o << >>
    BY FramesTyped
  <2> QED
    BY <2>1, <2>2
<1>3. agenda' = ForEach("whenGateFree", jobs) \o s
  BY DEF Cancel
<1>4. jobs \in SUBSET Job /\ Single(jobs) /\ \A x : NamedIn(jobs, x) <=> x \in NotStarted
  BY <1>1 DEF Job, Single, NamedIn
<1>5. \A what, x : <<what, x>> \in jobs <=> what = "undo" /\ x \in NotStarted
  OBVIOUS
<1> HIDE DEF s, jobs
<1>6. /\ agenda' \in Seq(Frames) /\ Apart(agenda')
      /\ \A call, what, x : CallsFor(agenda', call, what, x) <=> call = "whenGateFree" /\ <<what, x>> \in jobs
      /\ \A x : Names(agenda', x) <=> x \in NotStarted
  BY <1>1, <1>2, <1>3, <1>4, PushEach
<1>7. StackKeeps(B)
  BY <1>1, <1>5, <1>6, EmptyStack DEF StackKeeps
<1>8. /\ \A x \in Board : stage'[x] = (IF x \in Waiting THEN "Finished" ELSE
                                       IF x \in NotStarted THEN "Resetting" ELSE stage[x])
      /\ \A x \in Board : result'[x] = (IF x \in Waiting THEN "NotBack" ELSE result[x])
      /\ \A x \in Board : checkQueued'[x] = (x \notin B /\ checkQueued[x])
      /\ gateWaiting' = gateWaiting \ B /\ gateNext' = gateNext \ B
      /\ UNCHANGED <<row, written, started, checkBeforeRd, process, afterGateLd, gateLdBusy>>
  BY DEF Cancel, Release, progress, tools, gate
<1>9. \A x \in Board \ B : checkQueued'[x] = checkQueued[x]
  BY <1>8 DEF TypeOK, BoardsTyped
<1>10. RestKeeps(B)
  BY <1>8, <1>9 DEF RestKeeps
<1>11. ASSUME NEW b \in B PROVE OneThing(b)' /\ RowsFit(b)'
  <2>1. b \in Board /\ OneThing(b) /\ RowsFit(b) /\ ~AnswerDue(b)
    BY <1>1, EmptyStack DEF OneThingInv, AnswerDue
  <2>2. ~Queued(b)' /\ checkQueued'[b] = FALSE
    BY <1>8, <2>1 DEF Queued
  <2>3. CASE b \in Waiting
    <3>1. stage[b] = "WaitingForAdb"
      BY <2>3 DEF Waiting
    <3>2. ~Later(b) /\ ~checkQueued[b] /\ process[b] \notin UpgradeTools
      BY <1>1, <2>1, <3>1, AtEase
    <3>3. b \notin NotStarted
      BY <3>1, <3>2 DEF NotStarted, Mapped
    <3>4. NoCall(agenda', b)
      BY <1>5, <1>6, <3>3 DEF NoCall
    <3>5. stage'[b] = "Finished" /\ result'[b] = "NotBack" /\ ~Later(b)' /\ ~AnswerDue(b)' /\ ~Names(agenda, b)'
      BY <1>8, <2>1, <2>3, <3>2, <3>4 DEF Later, AnswerDue, NoCall
    <3>6. OneThing(b)'
      BY <1>8, <2>2, <3>2, <3>5 DEF OneThing
    <3>7. \A what \in Whats : ~Launches(what, b)'
      BY <3>4, <3>5 DEF Launches, NoCall, Later, NamedIn
    <3>8. ~UnderCheck(b)'
      BY <2>2, <3>4, <3>5, <3>7 DEF UnderCheck, NoCall, Whats
    <3>9. RowsFit(b)'
      BY <1>1, <1>8, <2>1, <3>2, <3>4, <3>5, <3>7, <3>8 DEF RowsFit, NoCall, UpgradeTools
    <3> QED
      BY <3>6, <3>9
  <2>4. CASE b \in NotStarted
    <3>1. ~started[b] /\ (stage[b] = "Loader" \/ Queued(b))
      BY <2>1, <2>4 DEF NotStarted, Mapped, RowsFit, OneThing
    <3>2. process[b] = "none" /\ ~Later(b) /\ stage[b] \in {"Loader", "Writing", "Resetting"}
      BY <2>1, <3>1 DEF OneThing
    <3>3. b \notin Waiting /\ result[b] # "Skipped"
      BY <2>1, <3>2 DEF RowsFit, Waiting, Ended
    <3>4. stage'[b] = "Resetting" /\ result'[b] # "Skipped" /\ process'[b] = "none" /\ ~Later(b)'
      BY <1>8, <2>1, <2>4, <3>2, <3>3 DEF Later
    <3>5. OneThing(b)'
      BY <2>2, <3>4 DEF OneThing
    <3>6. \A call, what : CallsFor(agenda', call, what, b) => call = "whenGateFree" /\ what = "undo"
      BY <1>5, <1>6
    <3>7. ~Launches("verify", b)' /\ ~Launches("checked", b)'
      BY <3>4, <3>6 DEF Launches, Later, NamedIn, Whats
    <3>8. ~UnderCheck(b)'
      BY <2>2, <3>6, <3>7 DEF UnderCheck, AnswerDue
    <3>9. RowsFit(b)'
      BY <1>8, <2>1, <3>1, <3>4, <3>6, <3>7, <3>8 DEF RowsFit
    <3> QED
      BY <3>5, <3>9
  <2> QED
    BY <2>3, <2>4
<1> HIDE DEF B
<1>12. Single(afterGateLd') /\ (gateWaiting' # {} => gateLdBusy') /\ gateWaiting' \cap gateNext' = {}
  BY <1>1, <1>8 DEF QueuesFit
<1> QED
  BY <1>1, <1>7, <1>10, <1>11, <1>12, Elsewhere

\* The devices, the timers and the closing picture leave the boards alone.
LEMMA EventsKeep ==
    ASSUME TypeOK, OneThingInv,
           \/ DeviceStep \/ (\E b \in Board : WaitElapses(b)) \/ ListingAges \/ CloseStep \/ UNCHANGED vars
    PROVE  OneThingInv'
<1>1. UNCHANGED <<agenda, stage, result, process, row, written, started, checkBeforeRd, checkQueued, afterGateLd,
                  gateWaiting, gateNext, gateLdBusy>>
  BY DEF DeviceStep, BrownOut, ComesBack, StrangerArrives, WaitElapses, ListingAges, CloseStep, CloseRun, CloseBlind,
         vars, progress, tools, ending, gate
<1>2. QueuesFit
  BY DEF OneThingInv
<1>3. StackKeeps({})
  BY <1>1, <1>2 DEF StackKeeps, QueuesFit
<1> QED
  BY <1>1, <1>2, <1>3, Unseen DEF QueuesFit

\* Every step leaves each board at one thing at a time.
LEMMA OneThingStep ==
    ASSUME TypeOK, OneThingInv, Next
    PROVE  OneThingInv'
<1>1. ASSUME NEW b \in Board, NEW what \in Whats,
             \/ CheckNow(b, what) \/ QueueCheck(b, what) \/ AnswerCheck(what, b)
             \/ CheckPasses(b, what) \/ LeftBeforeWrite(b, what) \/ LeftBeforeReset(b, what)
             \/ LaunchLater(what, b) \/ NoFolder(what, b)
      PROVE  OneThingInv'
  BY <1>1, CheckKeeps, AnswerKeeps, PassKeeps, LeavesKeep, LaunchLaterKeeps, NoFolderKeeps
<1>2. ASSUME NEW b \in Board,
             \/ StartBoard(b) \/ CheckUnanswered(b) \/ LaunchCancelled(b)
             \/ StartWrite(b) \/ StartVerify(b) \/ StartReset(b) \/ StartUndo(b)
      PROVE  OneThingInv'
  <2>1. "error" \in Whats
    BY DEF Whats
  <2> QED
    BY <1>2, <2>1, StartKeeps, LeavesKeep, LaunchCancelledKeeps, LaunchKeeps
<1>3. CASE CallStep
  BY <1>1, <1>2, <1>3, HandlersKeep, AfterAnswersKeeps, ZenonT(60) DEF CallStep
<1>4. ASSUME NEW b \in Board, ToolStep(b) PROVE OneThingInv'
  BY <1>4, RowKeeps, ToolSettles, AdbKeeps, ZenonT(60) DEF ToolStep
<1>5. CASE Finished
  BY <1>5, EventsKeep DEF Finished
<1>6. CASE DeviceStep \/ (\E b \in Board : WaitElapses(b)) \/ ListingAges \/ CloseStep
  BY <1>6, EventsKeep
<1> QED
  BY <1>3, <1>4, <1>5, <1>6, GateLdKeeps, TickKeeps, CancelKeeps, ZenonT(60) DEF Next

-----------------------------------------------------------------------------
(* The closing picture.                                                    *)

\* While it is taken no call, no tool and no queue concerns a board.
LEMMA AllAtRest ==
    ASSUME TypeOK, OneThingInv, RestInv, snapshotRunning, NEW b \in Board
    PROVE  /\ Ended(b) /\ process[b] = "none" /\ ~Names(agenda, b) /\ ~Queued(b) /\ ~checkQueued[b]
           /\ \A c \in Calls, w \in Whats : ~Doing(c, w, b)
<1>1. Ended(b) /\ process[b] = "none" /\ OneThing(b)
  BY DEF RestInv, OneThingInv
<1>2. ~Names(agenda, b) /\ ~Queued(b)
  BY <1>1 DEF OneThing, Ended
<1>3. ~AnswerDue(b)
  BY <1>2, NotNamed DEF AnswerDue, NoCall, TypeOK
<1>4. \A c \in Calls, w \in Whats : ~Doing(c, w, b)
  BY <1>2, DoingNames
<1> QED
  BY <1>1, <1>2, <1>3, <1>4 DEF OneThing

\* Two handlers begin and end it.
LEMMA PictureSteps ==
    ASSUME Next
    PROVE  MaybeFinishRun \/ CloseStep \/ snapshotRunning' = snapshotRunning
<1>1. ASSUME NEW b \in Board, NEW what \in Whats,
             \/ CheckNow(b, what) \/ QueueCheck(b, what) \/ AnswerCheck(what, b)
             \/ CheckPasses(b, what) \/ LeftBeforeWrite(b, what) \/ LeftBeforeReset(b, what)
             \/ LaunchLater(what, b) \/ NoFolder(what, b)
      PROVE  snapshotRunning' = snapshotRunning
  BY <1>1 DEF CheckNow, QueueCheck, AnswerCheck, CheckPasses, LeftBeforeWrite, LeftBeforeReset, LaunchLater,
              NoFolder, EnterAdbWait, run
<1>2. ASSUME NEW b \in Board,
             \/ StartBoard(b) \/ CheckUnanswered(b) \/ LaunchCancelled(b)
             \/ StartWrite(b) \/ StartVerify(b) \/ StartReset(b) \/ StartUndo(b)
      PROVE  snapshotRunning' = snapshotRunning
  BY <1>2 DEF StartBoard, CheckUnanswered, LaunchCancelled, StartWrite, StartVerify, StartReset, StartUndo, run
<1>3. FillEnds \/ AfterAnswers \/ StartNextGateLd => snapshotRunning' = snapshotRunning
  BY DEF FillEnds, AfterAnswers, StartNextGateLd, run
<1>4. CallStep => MaybeFinishRun \/ snapshotRunning' = snapshotRunning
  BY <1>1, <1>2, <1>3, ZenonT(60) DEF CallStep
<1>5. ASSUME NEW b \in Board, ToolStep(b) \/ WaitElapses(b) PROVE snapshotRunning' = snapshotRunning
  BY <1>5 DEF ToolStep, WriteOk, VerifyOk, WriteFails, WriteFindsNobody, ResetOk, ResetFails, ResetFindsNobody,
              UndoOk, UndoFails, UndoFindsNobody, GetStateNo, GetStateDevice, GetStateLate, InfoEnds, RfmcuEnds,
              WaitElapses, EnterAdbWait, run
<1>6. DeviceStep \/ GateLdEnds \/ ListingAges \/ AdbTick \/ Cancel \/ Finished => snapshotRunning' = snapshotRunning
  BY DEF DeviceStep, BrownOut, ComesBack, StrangerArrives, GateLdEnds, ListingAges, AdbTick, Cancel, Finished,
         vars, run
<1> QED
  BY <1>4, <1>5, <1>6, ZenonT(60) DEF Next

\* It is begun when every board has ended, and no board moves until it is taken.
LEMMA RestStep ==
    ASSUME TypeOK, OneThingInv, RestInv, Next
    PROVE  RestInv'
<1> SUFFICES ASSUME snapshotRunning'
             PROVE  ~gateLdBusy' /\ \A b \in Board : Ended(b)' /\ process'[b] = "none"
  BY DEF RestInv
<1>1. CASE ~snapshotRunning
  <2>1. MaybeFinishRun
    BY <1>1, PictureSteps DEF CloseStep, CloseRun, CloseBlind
  <2>2. Quiescent /\ UNCHANGED <<stage, process, gateLdBusy>>
    BY <1>1, <2>1 DEF MaybeFinishRun, ending, tools, gate
  <2> QED
    BY <2>2 DEF Quiescent, Ended
<1>2. CASE snapshotRunning
  <2>1. ~gateLdBusy /\ \A b \in Board : Ended(b) /\ process[b] = "none" /\ ~Queued(b) /\ ~checkQueued[b]
    BY <1>2, AllAtRest DEF RestInv
  <2>2. \A b \in Board, c \in Calls, w \in Whats : ~Doing(c, w, b)
    BY <1>2, AllAtRest
  <2>3. UNCHANGED <<gateLdBusy, stage, process>>
    <3>1. ASSUME NEW b \in Board, NEW what \in Whats PROVE
                 /\ ~CheckNow(b, what) /\ ~QueueCheck(b, what) /\ ~AnswerCheck(what, b)
                 /\ ~CheckPasses(b, what) /\ ~LeftBeforeWrite(b, what) /\ ~LeftBeforeReset(b, what)
                 /\ ~LaunchLater(what, b) /\ ~NoFolder(what, b)
      BY <2>2 DEF CheckNow, QueueCheck, AnswerCheck, CheckPasses, LeftBeforeWrite, LeftBeforeReset, LaunchLater,
                  NoFolder, Evaluating, Launching, Calls
    <3>2. ASSUME NEW b \in Board PROVE
                 /\ ~StartBoard(b) /\ ~CheckUnanswered(b) /\ ~LaunchCancelled(b)
                 /\ ~StartWrite(b) /\ ~StartVerify(b) /\ ~StartReset(b) /\ ~StartUndo(b)
      BY <2>1, <2>2 DEF StartBoard, Mapped, Ended, CheckUnanswered, LaunchCancelled, StartWrite, StartVerify,
                        StartReset, StartUndo, Evaluating, Launching, Calls, Whats
    <3>3. gateNext = {}
      BY <2>1 DEF Queued, TypeOK, RunTyped
    <3>4. FillEnds \/ AfterAnswers \/ StartNextGateLd \/ MaybeFinishRun => UNCHANGED <<gateLdBusy, stage, process>>
      BY <3>3 DEF FillEnds, AfterAnswers, StartNextGateLd, MaybeFinishRun, gate, ending, tools
    <3>5. CallStep => UNCHANGED <<gateLdBusy, stage, process>>
      BY <3>1, <3>2, <3>4, ZenonT(60) DEF CallStep
    <3>6. ASSUME NEW b \in Board PROVE ~ToolStep(b)
      BY <2>1 DEF ToolStep, WriteOk, VerifyOk, WriteFails, WriteFindsNobody, ResetOk, ResetFails, ResetFindsNobody,
                  UndoOk, UndoFails, UndoFindsNobody, GetStateNo, GetStateDevice, GetStateLate, InfoEnds, RfmcuEnds,
                  Ends, AdbEnds
    <3>7. ASSUME NEW b \in Board PROVE ~WaitElapses(b)
      BY <2>1 DEF WaitElapses, Waiting, Ended
    <3>8. DeviceStep \/ ListingAges \/ Finished => UNCHANGED <<gateLdBusy, stage, process>>
      BY DEF DeviceStep, BrownOut, ComesBack, StrangerArrives, ListingAges, Finished, vars, gate, ending, tools
    <3>9. ~GateLdEnds
      BY <2>1 DEF GateLdEnds
    <3>10. stage \in [Board -> Stages] /\ process \in [Board -> UpgradeTools \cup AdbTools \cup {"none"}] /\ Waiting = {}
      BY <2>1 DEF Waiting, Ended, TypeOK, BoardsTyped
    <3>11. AdbTick => UNCHANGED <<gateLdBusy, stage, process>>
      BY <3>10 DEF AdbTick, EndBoards, gate
    <3>12. NotStarted = {}
      BY <2>1 DEF NotStarted, Mapped, Ended
    <3>13. Cancel => UNCHANGED <<gateLdBusy, stage, process>>
      BY <3>10, <3>12 DEF Cancel, gate, tools
    <3>14. CloseStep => UNCHANGED <<gateLdBusy, stage, process>>
      BY DEF CloseStep, CloseRun, CloseBlind, gate, ending, tools
    <3> QED
      BY <3>5, <3>6, <3>7, <3>8, <3>9, <3>11, <3>13, <3>14, ZenonT(60) DEF Next
  <2> QED
    BY <2>1, <2>3 DEF Ended
<1> QED
  BY <1>1, <1>2 DEF TypeOK, RunTyped

-----------------------------------------------------------------------------
(* What the report says of the boards that ended.                          *)

\* The lines that finish board b: what was not written to it, and the RD.
FinishingLines(b) == IF result[b] = "Skipped" THEN {RDLine} ELSE RetryLines(b)

\* A board that is reported in Loader mode has those lines, or has left the LocationID
\* they would address for good.  What is reported of a board is what it ended with.
ReportFits(b) ==
    /\ locationId[b][2] \in Nat /\ locationId[b][2] <= gen[b]
    /\ Ended(b) => result[b] # "Pending"
    /\ resetOk[b] => result[b] = "Skipped" /\ Ended(b)
    /\ leftInLoader[b] => ~resetOk[b] /\ Ended(b) /\ result[b] \in {"Failed", "Skipped"}
    /\ leftInLoader[b] => locationId[b][2] < gen[b] \/ retry[b] = FinishingLines(b)
    /\ process[b] \in {"info", "rfmcu"} => stage[b] = "ReadingInfo"

\* The run, up to its closing picture.
ToldInv == phase \in {"Writing", "Returning"} => \A b \in Board : ReportFits(b)

\* The step reports nothing new of board b.
SameReport(b) ==
    /\ locationId'[b] = locationId[b] /\ retry'[b] = retry[b]
    /\ leftInLoader'[b] = leftInLoader[b] /\ resetOk'[b] = resetOk[b]

OthersStay(B) ==
    /\ \A x \in Board : gen'[x] \in Nat /\ gen[x] <= gen'[x]
    /\ \A x \in Board \ B : /\ SameReport(x)
                            /\ stage'[x] = stage[x] /\ result'[x] = result[x]
                            /\ written'[x] = written[x] /\ process'[x] = process[x]

\* A board the step is not about is still reported as it was.
LEMMA ReportStays ==
    ASSUME TypeOK, NEW B \in SUBSET Board, \A b \in Board : ReportFits(b), OthersStay(B),
           \A b \in B : ReportFits(b)'
    PROVE  \A b \in Board : ReportFits(b)'
<1> SUFFICES ASSUME NEW b \in Board \ B PROVE ReportFits(b)'
  OBVIOUS
<1>1. /\ ReportFits(b) /\ SameReport(b) /\ gen'[b] \in Nat /\ gen[b] <= gen'[b]
      /\ stage'[b] = stage[b] /\ result'[b] = result[b] /\ written'[b] = written[b] /\ process'[b] = process[b]
  BY DEF OthersStay
<1>2. gen[b] \in Nat
  BY DEF TypeOK, DevicesTyped
<1>3. locationId'[b][2] \in Nat /\ locationId'[b][2] <= gen'[b] /\ (locationId[b][2] < gen[b] => locationId'[b][2] < gen'[b])
  BY <1>1, <1>2 DEF ReportFits, SameReport
<1>4. FinishingLines(b)' = FinishingLines(b)
  BY <1>1 DEF FinishingLines, RetryLines
<1> QED
  BY <1>1, <1>3, <1>4 DEF ReportFits, SameReport, Ended

\* A board that goes on has nothing reported of it yet.
LEMMA GoesOnUntold ==
    ASSUME TypeOK, NEW b \in Board, ReportFits(b), ~Ended(b), SameReport(b), gen' = gen, ~Ended(b)',
           process'[b] \in {"info", "rfmcu"} => stage'[b] = "ReadingInfo"
    PROVE  ReportFits(b)'
<1>1. ~resetOk[b] /\ ~leftInLoader[b]
  BY DEF ReportFits
<1> QED
  BY <1>1 DEF ReportFits, SameReport

\* A board that ends, and is not reported to be in Loader mode.
LEMMA EndsUntold ==
    ASSUME TypeOK, NEW b \in Board, ReportFits(b), ~Ended(b), locationId' = locationId, gen' = gen,
           stage'[b] = "Finished", result'[b] # "Pending", process'[b] \notin {"info", "rfmcu"},
           leftInLoader'[b] = leftInLoader[b], resetOk'[b] => resetOk[b] \/ result'[b] = "Skipped"
    PROVE  ReportFits(b)'
<1>1. ~resetOk[b] /\ ~leftInLoader[b]
  BY DEF ReportFits
<1> QED
  BY <1>1 DEF ReportFits, Ended

\* A board that ends in Loader mode keeps the lines that finish it; one that answers to its
\* LocationID no more has another one.
LEMMA EndsTold ==
    ASSUME TypeOK, LinesNameTheBoard, NEW b \in Board, ReportFits(b), ~Ended(b), UNCHANGED <<gen, written>>,
           stage'[b] = "Finished", result'[b] \in {"Failed", "Skipped"}, process'[b] \notin {"info", "rfmcu"},
           \/ Left(b, TRUE, IF result'[b] = "Skipped" THEN {RDLine} ELSE RetryLines(b))
           \/ ~Answers(b) /\ Left(b, ShowsLoader(b), {})
    PROVE  ReportFits(b)'
<1>1. ~resetOk[b] /\ locationId[b][1] = b
  BY DEF ReportFits, LinesNameTheBoard
<1>2. UNCHANGED <<locationId, resetOk>> /\ leftInLoader \in [Board -> BOOLEAN]
      /\ retry \in [Board -> SUBSET (Row \cup {RDLine})]
  BY DEF Left, TypeOK, ReportTyped
<1>3. CASE Left(b, TRUE, IF result'[b] = "Skipped" THEN {RDLine} ELSE RetryLines(b))
  <2>1. retry'[b] = IF result'[b] = "Skipped" THEN {RDLine} ELSE RetryLines(b)
    BY <1>2, <1>3 DEF Left
  <2>2. retry'[b] = FinishingLines(b)'
    BY <2>1 DEF FinishingLines, RetryLines
  <2> QED
    BY <1>1, <1>2, <2>2 DEF ReportFits, Ended
<1>4. CASE ~Answers(b) /\ Left(b, ShowsLoader(b), {})
  <2>1. leftInLoader'[b] = ShowsLoader(b)
    BY <1>2, <1>4 DEF Left
  <2>2. ASSUME ShowsLoader(b) PROVE locationId[b][2] < gen[b]
    <3>1. b \in DOMAIN dev /\ gen[b] \in Nat /\ locationId[b] \in Id
      BY DEF TypeOK, DevicesTyped, ReportTyped
    <3>2. DeviceId(b) \in LoaderIds
      BY <2>2, <3>1 DEF LoaderIds, ShowsLoader
    <3>3. locationId[b] = <<locationId[b][1], locationId[b][2]>>
      BY <3>1 DEF Id
    <3>4. locationId[b][2] # gen[b]
      BY <1>1, <1>4, <3>2, <3>3 DEF Answers, DeviceId
    <3> QED
      BY <3>1, <3>4 DEF ReportFits
  <2> QED
    BY <1>1, <1>2, <2>1, <2>2 DEF ReportFits, Ended
<1> QED
  BY <1>3, <1>4

\* The run ends with its closing picture, and is not taken up again.
LEMMA PhaseStays ==
    ASSUME TypeOK, Next, phase' \in {"Writing", "Returning"}
    PROVE  phase \in {"Writing", "Returning"} /\ ~CloseStep
<1>1. ~CloseStep
  BY DEF CloseStep, CloseRun, CloseBlind, FinishRun
<1>2. ASSUME NEW b \in Board, NEW what \in Whats,
             \/ CheckNow(b, what) \/ QueueCheck(b, what) \/ AnswerCheck(what, b)
             \/ CheckPasses(b, what) \/ LeftBeforeWrite(b, what) \/ LeftBeforeReset(b, what)
             \/ LaunchLater(what, b) \/ NoFolder(what, b)
      PROVE  phase' = phase
  BY <1>2 DEF CheckNow, QueueCheck, AnswerCheck, CheckPasses, LeftBeforeWrite, LeftBeforeReset, LaunchLater,
              NoFolder, EnterAdbWait, run
<1>3. ASSUME NEW b \in Board,
             \/ StartBoard(b) \/ CheckUnanswered(b) \/ LaunchCancelled(b)
             \/ StartWrite(b) \/ StartVerify(b) \/ StartReset(b) \/ StartUndo(b)
      PROVE  phase' = phase
  BY <1>3 DEF StartBoard, CheckUnanswered, LaunchCancelled, StartWrite, StartVerify, StartReset, StartUndo, run
<1>4. FillEnds \/ AfterAnswers \/ StartNextGateLd => phase' = phase
  BY DEF FillEnds, AfterAnswers, StartNextGateLd, run
<1>5. MaybeFinishRun => phase \in {"Writing", "Returning"}
  BY DEF MaybeFinishRun
<1>6. CallStep => phase \in {"Writing", "Returning"}
  BY <1>2, <1>3, <1>4, <1>5, ZenonT(60) DEF CallStep
<1>7. ASSUME NEW b \in Board, ToolStep(b) \/ WaitElapses(b) PROVE phase' = phase
  BY <1>7 DEF ToolStep, WriteOk, VerifyOk, WriteFails, WriteFindsNobody, ResetOk, ResetFails, ResetFindsNobody,
              UndoOk, UndoFails, UndoFindsNobody, GetStateNo, GetStateDevice, GetStateLate, InfoEnds, RfmcuEnds,
              WaitElapses, EnterAdbWait, run
<1>8. DeviceStep \/ GateLdEnds \/ ListingAges \/ AdbTick \/ Cancel \/ Finished => phase' = phase
  BY DEF DeviceStep, BrownOut, ComesBack, StrangerArrives, GateLdEnds, ListingAges, AdbTick, Cancel, Finished,
         vars, run
<1> QED
  BY <1>1, <1>6, <1>7, <1>8, ZenonT(60) DEF Next

\* A call for a board: the board goes on, or ends with what is reported of it.
LEMMA CallTold ==
    ASSUME TypeOK, OneThingInv, LinesNameTheBoard, \A b \in Board : ReportFits(b), CallStep
    PROVE  \A b \in Board : ReportFits(b)'
<1>g. /\ gen \in [Board \cup {Stranger} -> 0..MaxGen] /\ \A x \in Board : gen[x] \in Nat
      /\ process \in [Board -> UpgradeTools \cup AdbTools \cup {"none"}] /\ stage \in [Board -> Stages]
      /\ leftInLoader \in [Board -> BOOLEAN] /\ retry \in [Board -> SUBSET (Row \cup {RDLine})]
  BY FleetAssumption DEF TypeOK, DevicesTyped, BoardsTyped, ReportTyped, FleetAssumption
<1>1. ASSUME NEW b \in Board, NEW c \in Calls, NEW w \in Whats, Doing(c, w, b)
      PROVE  process[b] = "none" /\ ~Ended(b)
  BY <1>1, Called DEF Ended
<1>w. {"error", "checked", "verify", "undo"} \subseteq Whats /\ {"evaluateCheck", "whenGateFree"} \subseteq Calls
  BY DEF Whats, Calls
<1>2. ASSUME UNCHANGED <<gen, stage, result, written, process, locationId, retry, leftInLoader, resetOk>>
      PROVE  \A b \in Board : ReportFits(b)'
  <2>1. OthersStay({})
    BY <1>2, <1>g DEF OthersStay, SameReport
  <2> QED
    BY <2>1, ReportStays
<1>3. ASSUME NEW b \in Board, NEW what \in Whats,
             CheckNow(b, what) \/ QueueCheck(b, what) \/ AnswerCheck(what, b)
             \/ CheckPasses(b, what) \/ LaunchLater(what, b)
      PROVE  \A x \in Board : ReportFits(x)'
  <2>1. UNCHANGED <<gen, stage, result, written, process, locationId, retry, leftInLoader, resetOk>>
    BY <1>3 DEF CheckNow, QueueCheck, AnswerCheck, CheckPasses, LaunchLater, bus, ending, tools, progress, report
  <2> QED
    BY <2>1, <1>2
<1>4. FillEnds \/ AfterAnswers \/ StartNextGateLd \/ MaybeFinishRun => \A x \in Board : ReportFits(x)'
  <2>1. FillEnds \/ AfterAnswers \/ StartNextGateLd \/ MaybeFinishRun =>
            UNCHANGED <<gen, stage, result, written, process, locationId, retry, leftInLoader, resetOk>>
    BY DEF FillEnds, AfterAnswers, StartNextGateLd, MaybeFinishRun, bus, ending, tools, progress, report
  <2> QED
    BY <2>1, <1>2
\* The calls after which the board goes on.
<1>5. ASSUME NEW b \in Board, StartBoard(b) \/ LaunchCancelled(b) \/ StartWrite(b) \/ StartVerify(b)
                              \/ StartReset(b) \/ StartUndo(b)
      PROVE  \A x \in Board : ReportFits(x)'
  <2>1. ~Ended(b) /\ process[b] \notin {"info", "rfmcu"}
    <3>1. CASE StartBoard(b)
      <4>1. stage[b] = "Loader"
        BY <3>1 DEF StartBoard, Mapped
      <4> QED
        BY <4>1 DEF ReportFits, Ended
    <3>2. CASE LaunchCancelled(b) \/ StartWrite(b) \/ StartVerify(b) \/ StartReset(b) \/ StartUndo(b)
      BY <3>2, <1>1, <1>w DEF LaunchCancelled, StartWrite, StartVerify, StartReset, StartUndo, Launching
    <3> QED
      BY <1>5, <3>1, <3>2
  <2>2. /\ UNCHANGED <<gen, result, written, locationId, retry, leftInLoader, resetOk>>
        /\ \/ UNCHANGED stage
           \/ \E s \in {"Writing", "Resetting"} : stage' = [stage EXCEPT ![b] = s]
        /\ \/ UNCHANGED process
           \/ \E t \in UpgradeTools : process' = [process EXCEPT ![b] = t]
    BY <1>5 DEF StartBoard, LaunchCancelled, StartWrite, StartVerify, StartReset, StartUndo, StartTool, UpgradeTools,
                bus, progress, report, ending, tools
  <2>3. /\ \A x \in Board \ {b} : stage'[x] = stage[x] /\ process'[x] = process[x]
        /\ stage'[b] # "Finished" /\ process'[b] \notin {"info", "rfmcu"}
    BY <1>g, <2>1, <2>2 DEF Ended, UpgradeTools
  <2>4. OthersStay({b}) /\ SameReport(b)
    BY <1>g, <2>2, <2>3 DEF OthersStay, SameReport
  <2>5. ReportFits(b)'
    BY <2>1, <2>2, <2>3, <2>4, GoesOnUntold DEF Ended
  <2> QED
    BY <2>4, <2>5, ReportStays
\* The board ends, or waits for its ADB device.
<1>6. ASSUME NEW b \in Board, NEW what \in Whats, LeftBeforeWrite(b, what) \/ LeftBeforeReset(b, what)
      PROVE  \A x \in Board : ReportFits(x)'
  <2>1. ~Ended(b) /\ process[b] = "none"
    BY <1>6, <1>1, <1>w DEF LeftBeforeWrite, LeftBeforeReset, Evaluating
  <2>2. UNCHANGED <<gen, written, process, locationId, retry, leftInLoader, resetOk>>
    BY <1>6 DEF LeftBeforeWrite, LeftBeforeReset, bus, progress, report, tools
  <2>3. EndBoard(b, "Failed") \/ EndBoard(b, "NotBack") \/ EnterAdbWait(b)
    BY <1>6 DEF LeftBeforeWrite, LeftBeforeReset
  <2>4. \A x \in Board \ {b} : stage'[x] = stage[x] /\ result'[x] = result[x]
    BY <2>3, <1>g DEF EndBoard, EndBoards, EnterAdbWait
  <2>5. OthersStay({b}) /\ SameReport(b)
    BY <1>g, <2>2, <2>4 DEF OthersStay, SameReport
  <2>6. CASE EnterAdbWait(b)
    <3>1. stage'[b] = "WaitingForAdb"
      BY <2>6, <1>g DEF EnterAdbWait
    <3>2. ReportFits(b)'
      BY <2>1, <2>2, <2>5, <3>1, GoesOnUntold DEF Ended
    <3> QED
      BY <2>5, <3>2, ReportStays
  <2>7. CASE EndBoard(b, "Failed") \/ EndBoard(b, "NotBack")
    <3>1. stage'[b] = "Finished" /\ result'[b] # "Pending"
      BY <2>7 DEF EndBoard, EndBoards
    <3>2. ReportFits(b)'
      BY <2>1, <2>2, <3>1, EndsUntold
    <3> QED
      BY <2>5, <3>2, ReportStays
  <2> QED
    BY <2>3, <2>6, <2>7
<1>7. ASSUME NEW b \in Board, CheckUnanswered(b) \/ \E what \in Whats : NoFolder(what, b)
      PROVE  \A x \in Board : ReportFits(x)'
  <2>1. ~Ended(b) /\ process[b] = "none"
    BY <1>7, <1>1, <1>w DEF CheckUnanswered, NoFolder, Evaluating, Launching
  <2>2. UNCHANGED <<gen, written, process>> /\ FailInLoader(b)
    BY <1>7 DEF CheckUnanswered, NoFolder, bus, progress, tools
  <2>3. /\ stage'[b] = "Finished" /\ result'[b] = "Failed" /\ Left(b, TRUE, RetryLines(b))
        /\ \A x \in Board \ {b} : stage'[x] = stage[x] /\ result'[x] = result[x]
    BY <2>2 DEF FailInLoader, EndBoard, EndBoards
  <2>4. OthersStay({b})
    BY <1>g, <2>2, <2>3 DEF OthersStay, SameReport, Left
  <2>5. ReportFits(b)'
    BY <2>1, <2>2, <2>3, EndsTold
  <2> QED
    BY <2>4, <2>5, ReportStays
<1> QED
  BY <1>3, <1>4, <1>5, <1>6, <1>7, ZenonT(60) DEF CallStep

\* A tool that ended.
LEMMA ToolTold ==
    ASSUME TypeOK, OneThingInv, LinesNameTheBoard, \A x \in Board : ReportFits(x), NEW b \in Board, ToolStep(b)
    PROVE  \A x \in Board : ReportFits(x)'
<1>g. /\ gen \in [Board \cup {Stranger} -> 0..MaxGen] /\ \A x \in Board : gen[x] \in Nat
      /\ process \in [Board -> UpgradeTools \cup AdbTools \cup {"none"}] /\ stage \in [Board -> Stages]
      /\ written \in [Board -> SUBSET (Nat \ {0})]
      /\ resetOk \in [Board -> BOOLEAN]
      /\ leftInLoader \in [Board -> BOOLEAN] /\ retry \in [Board -> SUBSET (Row \cup {RDLine})]
  BY FleetAssumption DEF TypeOK, DevicesTyped, BoardsTyped, ReportTyped, FleetAssumption
<1>1. ASSUME NEW tool \in UpgradeTools, Ends(b, tool)
      PROVE  ~Ended(b) /\ process'[b] = "none" /\ \A x \in Board \ {b} : process'[x] = process[x]
  BY <1>1, ToolOver DEF Ended
<1>u. UpgradeTools = {"WL", "RL", "RD", "undo"}
  BY DEF UpgradeTools
<1>2. ASSUME WriteOk(b) \/ VerifyOk(b) PROVE \A x \in Board : ReportFits(x)'
  <2>1. ~Ended(b) /\ process'[b] = "none" /\ \A x \in Board \ {b} : process'[x] = process[x]
    BY <1>2, <1>1, <1>u DEF WriteOk, VerifyOk
  <2>2. /\ UNCHANGED <<gen, stage, result, locationId, retry, leftInLoader, resetOk>>
        /\ UNCHANGED written \/ written' = [written EXCEPT ![b] = @ \cup {row[b]}]
    BY <1>2 DEF WriteOk, VerifyOk, RowDone, bus, report, ending, progress
  <2>3. OthersStay({b}) /\ SameReport(b)
    BY <1>g, <2>1, <2>2 DEF OthersStay, SameReport
  <2>4. ReportFits(b)'
    BY <2>1, <2>2, <2>3, GoesOnUntold DEF Ended
  <2> QED
    BY <2>3, <2>4, ReportStays
<1>3. ASSUME WriteFails(b) \/ WriteFindsNobody(b) \/ ResetFindsNobody(b) \/ UndoFails(b) \/ UndoFindsNobody(b)
      PROVE  \A x \in Board : ReportFits(x)'
  <2>1. ~Ended(b) /\ process'[b] = "none" /\ \A x \in Board \ {b} : process'[x] = process[x]
    BY <1>3, <1>1, <1>u DEF WriteFails, WriteFindsNobody, ResetFindsNobody, UndoFails, UndoFindsNobody
  <2>2. UNCHANGED <<gen, written>>
    BY <1>3 DEF WriteFails, WriteFindsNobody, ResetFindsNobody, UndoFails, UndoFindsNobody, bus, progress
  <2>3. PICK res \in {"Failed", "Skipped"} :
            /\ EndBoards({b}, res)
            /\ \/ Left(b, TRUE, IF res = "Skipped" THEN {RDLine} ELSE RetryLines(b))
               \/ ~Answers(b) /\ Left(b, ShowsLoader(b), {})
    BY <1>3 DEF WriteFails, WriteFindsNobody, ResetFindsNobody, UndoFails, UndoFindsNobody, FailInLoader, FailGone,
                EndBoard
  <2>4. /\ stage'[b] = "Finished" /\ result'[b] = res
        /\ \A x \in Board \ {b} : stage'[x] = stage[x] /\ result'[x] = result[x]
    BY <2>3 DEF EndBoards
  <2>5. OthersStay({b})
    BY <1>g, <2>1, <2>2, <2>3, <2>4 DEF OthersStay, SameReport, Left
  <2>6. ReportFits(b)'
    BY <2>1, <2>2, <2>3, <2>4, EndsTold
  <2> QED
    BY <2>5, <2>6, ReportStays
<1>4. ASSUME ResetOk(b) \/ ResetFails(b) \/ UndoOk(b)
      PROVE  \A x \in Board : ReportFits(x)'
  <2>1. ~Ended(b) /\ process'[b] = "none" /\ \A x \in Board \ {b} : process'[x] = process[x]
    BY <1>4, <1>1, <1>u DEF ResetOk, ResetFails, UndoOk
  <2>2. UNCHANGED <<gen, written, locationId, retry, leftInLoader>>
    BY <1>4 DEF ResetOk, ResetFails, UndoOk, ResetTakes, bus, progress, report
  <2>3. \/ EnterAdbWait(b) /\ UNCHANGED resetOk
        \/ EndBoard(b, "Done") /\ UNCHANGED resetOk
        \/ EndBoard(b, "Failed") /\ UNCHANGED resetOk
        \/ EndBoard(b, "Skipped") /\ resetOk' = [resetOk EXCEPT ![b] = TRUE]
    BY <1>4 DEF ResetOk, ResetFails, UndoOk, report
  <2>4. \A x \in Board \ {b} : stage'[x] = stage[x] /\ result'[x] = result[x] /\ resetOk'[x] = resetOk[x]
    BY <2>3, <1>g DEF EndBoard, EndBoards, EnterAdbWait
  <2>5. OthersStay({b})
    BY <1>g, <2>1, <2>2, <2>4 DEF OthersStay, SameReport
  <2>6. CASE EnterAdbWait(b) /\ UNCHANGED resetOk
    <3>1. stage'[b] = "WaitingForAdb"
      BY <2>6, <1>g DEF EnterAdbWait
    <3>2. SameReport(b)
      BY <2>2, <2>6 DEF SameReport
    <3>3. ReportFits(b)'
      BY <2>1, <2>2, <3>1, <3>2, GoesOnUntold DEF Ended
    <3> QED
      BY <2>5, <3>3, ReportStays
  <2>7. CASE \/ EndBoard(b, "Done") /\ UNCHANGED resetOk
             \/ EndBoard(b, "Failed") /\ UNCHANGED resetOk
             \/ EndBoard(b, "Skipped") /\ resetOk' = [resetOk EXCEPT ![b] = TRUE]
    <3>1. stage'[b] = "Finished" /\ result'[b] # "Pending"
      BY <2>7 DEF EndBoard, EndBoards
    <3>2. resetOk'[b] => resetOk[b] \/ result'[b] = "Skipped"
      BY <2>7 DEF EndBoard, EndBoards
    <3>3. ReportFits(b)'
      BY <2>1, <2>2, <3>1, <3>2, EndsUntold
    <3> QED
      BY <2>5, <3>3, ReportStays
  <2> QED
    BY <2>3, <2>6, <2>7
<1>5. ASSUME GetStateNo(b) \/ GetStateDevice(b) \/ GetStateLate(b) \/ InfoEnds(b)
      PROVE  \A x \in Board : ReportFits(x)'
  <2>1. UNCHANGED <<gen, written, result, locationId, retry, leftInLoader, resetOk>>
    BY <1>5 DEF GetStateNo, GetStateDevice, GetStateLate, InfoEnds, bus, progress, report, ending
  <2>2. SameReport(b)
    BY <2>1 DEF SameReport
  <2>3. CASE GetStateNo(b) \/ GetStateLate(b)
    <3>1. process' = [process EXCEPT ![b] = "none"] /\ UNCHANGED stage
      BY <2>3 DEF GetStateNo, GetStateLate, AdbEnds, ending
    <3>2. OthersStay({b})
      BY <1>g, <2>1, <3>1 DEF OthersStay, SameReport
    <3>3. ReportFits(b) /\ FinishingLines(b)' = FinishingLines(b)
      BY <2>1 DEF FinishingLines, RetryLines
    <3>4. ReportFits(b)'
      BY <1>g, <2>1, <3>1, <3>3 DEF ReportFits, Ended
    <3> QED
      BY <3>2, <3>4, ReportStays
  <2>4. CASE GetStateDevice(b) \/ InfoEnds(b)
    <3>1. /\ stage[b] \in {"WaitingForAdb", "ReadingInfo"}
          /\ stage'[b] = "ReadingInfo"
          /\ \A x \in Board \ {b} : stage'[x] = stage[x] /\ process'[x] = process[x]
      <4>1. CASE GetStateDevice(b)
        BY <1>g, <4>1 DEF GetStateDevice, AdbEnds, Waiting
      <4>2. CASE InfoEnds(b)
        <5>1. process[b] = "info" /\ process' = [process EXCEPT ![b] = "rfmcu"] /\ UNCHANGED stage
          BY <4>2 DEF InfoEnds, AdbEnds, ending
        <5>2. stage[b] = "ReadingInfo"
          BY <5>1 DEF ReportFits
        <5> QED
          BY <1>g, <5>1, <5>2
      <4> QED
        BY <2>4, <4>1, <4>2
    <3>2. OthersStay({b})
      BY <1>g, <2>1, <3>1 DEF OthersStay, SameReport
    <3>3. ReportFits(b)'
      BY <2>1, <2>2, <3>1, GoesOnUntold DEF Ended
    <3> QED
      BY <3>2, <3>3, ReportStays
  <2> QED
    BY <1>5, <2>3, <2>4
<1>6. ASSUME RfmcuEnds(b) PROVE \A x \in Board : ReportFits(x)'
  <2>1. /\ UNCHANGED <<gen, written, locationId, retry, leftInLoader, resetOk>>
        /\ process[b] = "rfmcu" /\ process' = [process EXCEPT ![b] = "none"] /\ EndBoards({b}, "Done")
    BY <1>6 DEF RfmcuEnds, AdbEnds, EndBoard, bus, progress, report
  <2>2. ~Ended(b)
    BY <2>1 DEF ReportFits, Ended
  <2>3. /\ stage'[b] = "Finished" /\ result'[b] = "Done" /\ process'[b] = "none"
        /\ \A x \in Board \ {b} : stage'[x] = stage[x] /\ result'[x] = result[x] /\ process'[x] = process[x]
    BY <1>g, <2>1 DEF EndBoards
  <2>4. OthersStay({b})
    BY <1>g, <2>1, <2>3 DEF OthersStay, SameReport
  <2>5. ReportFits(b)'
    BY <2>1, <2>2, <2>3, EndsUntold
  <2> QED
    BY <2>4, <2>5, ReportStays
<1> QED
  BY <1>2, <1>3, <1>4, <1>5, <1>6, ZenonT(60) DEF ToolStep

\* The devices, the timers and the cancel.
LEMMA EventTold ==
    ASSUME TypeOK, OneThingInv, \A x \in Board : ReportFits(x),
           \/ DeviceStep \/ (\E b \in Board : WaitElapses(b)) \/ GateLdEnds \/ ListingAges \/ AdbTick \/ Cancel
           \/ UNCHANGED vars
    PROVE  \A x \in Board : ReportFits(x)'
<1>g. /\ gen \in [Board \cup {Stranger} -> 0..MaxGen] /\ \A x \in Board : gen[x] \in Nat
      /\ process \in [Board -> UpgradeTools \cup AdbTools \cup {"none"}] /\ stage \in [Board -> Stages]
  BY FleetAssumption DEF TypeOK, DevicesTyped, BoardsTyped, FleetAssumption
<1>1. ASSUME DeviceStep PROVE \A x \in Board : ReportFits(x)'
  <2>1. UNCHANGED <<stage, result, written, process, locationId, retry, leftInLoader, resetOk>>
    BY <1>1 DEF DeviceStep, BrownOut, ComesBack, StrangerArrives, progress, report, ending, tools
  <2>2. \A x \in Board : gen'[x] \in Nat /\ gen[x] <= gen'[x]
    <3>1. ASSUME NEW b \in Board, ComesBack(b) PROVE \A x \in Board : gen'[x] \in Nat /\ gen[x] <= gen'[x]
      <4>1. PICK g \in {gen[b], gen[b] + 1} : gen' = [gen EXCEPT ![b] = g]
        BY <3>1 DEF ComesBack
      <4> QED
        BY <1>g, <4>1
    <3> QED
      BY <1>1, <1>g, <3>1 DEF DeviceStep, BrownOut, StrangerArrives
  <2>3. OthersStay({})
    BY <2>1, <2>2 DEF OthersStay, SameReport
  <2> QED
    BY <2>3, ReportStays
<1>2. ASSUME (\E b \in Board : WaitElapses(b)) \/ GateLdEnds \/ ListingAges \/ UNCHANGED vars
      PROVE  \A x \in Board : ReportFits(x)'
  <2>1. UNCHANGED <<gen, stage, result, written, process, locationId, retry, leftInLoader, resetOk>>
    BY <1>2 DEF WaitElapses, GateLdEnds, ListingAges, vars, bus, progress, report, ending, tools
  <2>2. OthersStay({})
    BY <1>g, <2>1 DEF OthersStay, SameReport
  <2> QED
    BY <2>2, ReportStays
<1>3. ASSUME AdbTick PROVE \A x \in Board : ReportFits(x)'
  <2> DEFINE over == {b \in Waiting : process[b] = "none" /\ waitOver[b]}
  <2>1. over = {b \in {x \in Waiting : process[x] = "none"} : waitOver[b]} /\ over \subseteq Waiting
        /\ Waiting \in SUBSET Board
    BY DEF Waiting
  <2>2. /\ EndBoards(over, "NotBack") /\ UNCHANGED <<gen, written, locationId, retry, leftInLoader, resetOk>>
        /\ process' = [b \in Board |-> IF b \in {x \in Waiting : process[x] = "none"} \ over
                                       THEN "getState" ELSE process[b]]
    BY <1>3, <2>1 DEF AdbTick, bus, progress, report
  <2> HIDE DEF over
  <2>3. /\ \A x \in Board : stage'[x] = (IF x \in over THEN "Finished" ELSE stage[x])
        /\ \A x \in Board : result'[x] = (IF x \in over THEN "NotBack" ELSE result[x])
        /\ \A x \in Board : process'[x] \in {process[x], "getState"}
        /\ \A x \in Board \ Waiting : process'[x] = process[x]
    BY <2>1, <2>2 DEF EndBoards
  <2>4. OthersStay(Waiting)
    BY <1>g, <2>1, <2>2, <2>3 DEF OthersStay, SameReport
  <2>5. ASSUME NEW b \in Waiting PROVE ReportFits(b)'
    <3>1. b \in Board /\ ReportFits(b) /\ stage[b] = "WaitingForAdb" /\ SameReport(b)
      BY <2>2 DEF Waiting, SameReport
    <3>2. ~Ended(b) /\ process'[b] \notin {"info", "rfmcu"}
      BY <2>3, <3>1 DEF ReportFits, Ended
    <3>3. CASE b \in over
      BY <2>2, <2>3, <3>1, <3>2, <3>3, EndsUntold
    <3>4. CASE b \notin over
      BY <2>2, <2>3, <3>1, <3>2, <3>4, GoesOnUntold DEF Ended
    <3> QED
      BY <3>3, <3>4
  <2> QED
    BY <2>1, <2>4, <2>5, ReportStays
<1>4. ASSUME Cancel PROVE \A x \in Board : ReportFits(x)'
  <2> DEFINE B == Waiting \cup NotStarted
  <2>1. /\ \A x \in Board : stage'[x] = (IF x \in Waiting THEN "Finished" ELSE
                                         IF x \in NotStarted THEN "Resetting" ELSE stage[x])
        /\ \A x \in Board : result'[x] = (IF x \in Waiting THEN "NotBack" ELSE result[x])
        /\ UNCHANGED <<gen, written, process, locationId, retry, leftInLoader, resetOk>> /\ agenda = << >>
    BY <1>4 DEF Cancel, Idle, bus, progress, report, tools
  <2>2. B \in SUBSET Board
    BY DEF Waiting, NotStarted, Mapped
  <2>3. OthersStay(B)
    BY <1>g, <2>1 DEF OthersStay, SameReport
  <2>4. ASSUME NEW b \in B PROVE ReportFits(b)'
    <3>1. b \in Board /\ ReportFits(b) /\ SameReport(b) /\ OneThing(b) /\ ~AnswerDue(b)
      BY <2>1, <2>2, EmptyStack DEF SameReport, OneThingInv, AnswerDue
    <3>2. CASE b \in Waiting
      <4>1. ~Ended(b) /\ process[b] \notin {"info", "rfmcu"}
        BY <3>1, <3>2 DEF ReportFits, Ended, Waiting
      <4> QED
        BY <2>1, <3>1, <3>2, <4>1, EndsUntold
    <3>3. CASE b \in NotStarted /\ b \notin Waiting
      <4>1. stage[b] \in {"Loader", "Writing", "Resetting"}
        BY <3>1, <3>3 DEF NotStarted, Mapped, OneThing
      <4>2. ~Ended(b) /\ process[b] \notin {"info", "rfmcu"} /\ stage'[b] = "Resetting"
        BY <2>1, <3>1, <3>3, <4>1 DEF ReportFits, Ended
      <4> QED
        BY <2>1, <3>1, <4>2, GoesOnUntold DEF Ended
    <3> QED
      BY <3>2, <3>3
  <2> HIDE DEF B
  <2> QED
    BY <2>2, <2>3, <2>4, ReportStays
<1> QED
  BY <1>1, <1>2, <1>3, <1>4

LEMMA ToldStep ==
    ASSUME TypeOK, OneThingInv, LinesNameTheBoard, ToldInv, Next
    PROVE  ToldInv'
<1> SUFFICES ASSUME phase' \in {"Writing", "Returning"} PROVE \A b \in Board : ReportFits(b)'
  BY DEF ToldInv
<1>1. ~CloseStep /\ \A b \in Board : ReportFits(b)
  BY PhaseStays DEF ToldInv
<1>2. Finished => UNCHANGED vars
  BY DEF Finished
<1> QED
  BY <1>1, <1>2, CallTold, ToolTold, EventTold, ZenonT(60) DEF Next

\* What the closing picture makes of a board's record.
LEMMA ClosingLines ==
    ASSUME TypeOK, LinesNameTheBoard, ToldInv, CloseRun, NEW b \in Board, leftInLoader'[b], locationId'[b] \in LoaderIds
    PROVE  /\ retry'[b] \ {RDLine} = (IF result[b] = "Skipped" THEN {} ELSE Row \ written[b])
           /\ RDLine \in retry'[b]
<1>1. ReportFits(b) /\ snapshotRunning /\ RDLine \notin Row
  BY DEF CloseRun, Idle, ToldInv, RDLine, Row
<1>2. /\ locationId'[b] = (IF result[b] # "Done" THEN NewId(b) ELSE locationId[b])
      /\ leftInLoader'[b] = (leftInLoader[b] \/ Corrected(b))
      /\ retry'[b] = LinesAfter(b)
  BY DEF CloseRun
<1>3. CASE Corrected(b)
  <2>1. result[b] # "Done" /\ NewId(b) \in LoaderIds
    BY <1>2, <1>3 DEF Corrected
  <2>2. retry'[b] = IF result[b] = "Skipped" THEN {RDLine} ELSE RetryLines(b)
    BY <1>2, <1>3, <2>1 DEF LinesAfter
  <2> QED
    BY <1>1, <2>2 DEF RetryLines
<1>4. CASE ~Corrected(b)
  <2>1. leftInLoader[b] /\ result[b] \in {"Failed", "Skipped"} /\ ~resetOk[b] /\ retry'[b] = retry[b]
    BY <1>1, <1>2, <1>4 DEF ReportFits, LinesAfter
  <2>2. NewId(b) \in LoaderIds
    BY <1>2, <2>1
  <2>3. NewId(b) = locationId[b]
    BY <1>4, <2>1, <2>2 DEF Corrected
  <2>4. locationId[b][2] = gen[b]
    <3>1. PICK d \in DOMAIN dev : locationId[b] = <<d, gen[d]>>
      BY <2>2, <2>3 DEF LoaderIds, DeviceId
    <3>2. d = b
      BY <3>1 DEF LinesNameTheBoard
    <3> QED
      BY <3>1, <3>2
  <2>5. retry[b] = FinishingLines(b)
    BY <1>1, <2>1, <2>4 DEF ReportFits, TypeOK, DevicesTyped
  <2> QED
    BY <1>1, <2>1, <2>5 DEF FinishingLines, RetryLines
<1> QED
  BY <1>3, <1>4

\* The ids that LD lists are finitely many.
LEMMA ListedFinite ==
    ASSUME TypeOK
    PROVE  \A S \in SUBSET ListedIds : IsFiniteSet(S) /\ Cardinality(S) \in Nat
<1>1. IsFiniteSet(Board \cup {Stranger})
  <2>1. IsFiniteSet(Board)
    BY FleetAssumption, FS_Interval DEF FleetAssumption, Board
  <2> QED
    BY <2>1, FS_AddElement
<1>2. gen \in [Board \cup {Stranger} -> 0..MaxGen] /\ InDownload \in SUBSET (Board \cup {Stranger})
  BY DEF TypeOK, DevicesTyped, InDownload
<1>3. IsFiniteSet(0..MaxGen)
  BY FleetAssumption, FS_Interval DEF FleetAssumption
<1>4. IsFiniteSet(InDownload)
  BY <1>1, <1>2, FS_Subset
<1> DEFINE f == [d \in InDownload |-> DeviceId(d)]
<1>5. f \in Surjection(InDownload, ListedIds)
  BY DEF Surjection, ListedIds
<1>6. IsFiniteSet(ListedIds)
  BY <1>4, <1>5, FS_Surjection
<1> QED
  BY <1>6, FS_Subset, FS_CardinalityType

\* The closing picture tells of every device in Loader mode that is no exception.
LEMMA ClosingRunTells ==
    ASSUME TypeOK, LinesNameTheBoard, RestInv, ToldInv, CloseRun, NEW d \in DOMAIN dev,
           ShowsLoader(d), d \in Board => result[d] # "Done", ~TakenForReset(d)
    PROVE  (d \in Board /\ leftInLoader'[d]) \/ DeviceId(d) \in unattributed'
<1>1. /\ DeviceId(d) \in LoaderIds /\ DeviceId(d) \in ListedIds /\ d \in InDownload
      /\ LoaderIds \subseteq ListedIds /\ d \in Board \cup {Stranger} /\ Stranger \notin Board
  BY DEF LoaderIds, ListedIds, InDownload, ShowsLoader, TypeOK, DevicesTyped, Stranger, Board
<1>2. unattributed' = IF StrayPorts = {} /\ Cardinality(StrayIds) <= Cardinality(Renumbered) THEN {} ELSE StrayIds
  BY DEF CloseRun
<1>3. \A b \in Board : locationId[b] = DeviceId(d) => b = d
  BY DEF LinesNameTheBoard, DeviceId
<1>4. CASE d = Stranger
  <2>1. DeviceId(d) \in StrayIds
    BY <1>1, <1>3, <1>4 DEF StrayIds
  <2>2. d \in StrayPorts
    BY <1>1, <1>4 DEF StrayPorts
  <2> QED
    BY <1>2, <2>1, <2>2
<1>5. CASE d \in Board
  <2> SUFFICES ASSUME ~leftInLoader'[d], DeviceId(d) \notin unattributed' PROVE FALSE
    BY <1>5
  <2>1. ReportFits(d) /\ Ended(d)
    BY <1>5 DEF CloseRun, Idle, ToldInv, RestInv
  <2>2. ~leftInLoader[d] /\ ~Corrected(d)
    BY <1>5 DEF CloseRun
  <2>3. result[d] \in {"Failed", "NotBack", "Skipped"}
    BY <1>5, <2>1 DEF ReportFits, TypeOK, BoardsTyped, Results
  <2>4. NewId(d) \notin LoaderIds
    BY <2>2, <2>3 DEF Corrected
  <2>5. locationId[d] # DeviceId(d)
    BY <1>1, <2>4 DEF NewId
  <2>6. locationId[d] \notin ListedIds
    <3> SUFFICES ASSUME NEW x \in InDownload, locationId[d] = DeviceId(x) PROVE FALSE
      BY DEF ListedIds
    <3>1. x = d
      BY <1>5 DEF LinesNameTheBoard, DeviceId
    <3> QED
      BY <2>5, <3>1
  <2>7. d \in Renumbered /\ Renumbered \in SUBSET Board
    BY <1>1, <1>5, <2>6 DEF Renumbered
  <2>8. DeviceId(d) \in StrayIds /\ StrayIds \in SUBSET ListedIds
    BY <1>1, <1>3, <2>5 DEF StrayIds
  <2>9. StrayPorts = {} /\ Cardinality(StrayIds) <= Cardinality(Renumbered)
    BY <1>2, <2>8
  <2>10. /\ IsFiniteSet(StrayIds) /\ Cardinality(StrayIds) \in Nat /\ Cardinality(StrayIds) # 0
         /\ Cardinality(Renumbered) \in Nat
    BY <2>7, <2>8, ListedFinite, BoardSets, FS_EmptySet
  <2>15. resetOk[d]
    BY <1>5, <2>2, <2>3, <2>4 DEF Corrected
  <2>11. Cardinality(StrayIds) = 1 /\ Cardinality(Renumbered) = 1
    BY <1>5, <2>7, <2>9, <2>10, <2>15 DEF TakenForReset
  <2>12. StrayIds = {DeviceId(d)}
    BY <2>8, <2>10, <2>11, FS_Singleton
  <2>13. Paired
    BY <1>1, <2>9, <2>11, <2>12 DEF Paired
  <2>14. NewId(d) = DeviceId(d)
    BY <2>6, <2>12, <2>13 DEF NewId
  <2> QED
    BY <1>1, <2>4, <2>14
<1> QED
  BY <1>1, <1>4, <1>5

-----------------------------------------------------------------------------
(* The theorems.                                                           *)

\* The counters and the slots; and board for board: one thing at a time, the rows, and what
\* is reported of it.
IInv ==
    /\ TypeOK /\ CountersCover /\ GateApart /\ SlotLimit /\ CompleteInv
    /\ OneThingInv /\ RestInv /\ LinesNameTheBoard /\ ToldInv

\* At the hand-over no board has been touched.
LEMMA InitBoards ==
    Init => OneThingInv /\ RestInv /\ LinesNameTheBoard /\ ToldInv
<1> SUFFICES ASSUME Init PROVE OneThingInv /\ RestInv /\ LinesNameTheBoard /\ ToldInv
  OBVIOUS
<1>1. Apart(agenda) /\ (\A b : ~Names(agenda, b)) /\ \A call, what, b : ~CallsFor(agenda, call, what, b)
  <2>1. agenda = <<Fill>> /\ Fill.jobs = {}
    BY DEF Init, Fill, Frame
  <2>2. DOMAIN agenda = {1} /\ agenda[1].jobs = {}
    BY <2>1
  <2> QED
    BY <2>2 DEF Apart, Names, CallsFor
<1>2. gateWaiting = {} /\ gateNext = {} /\ afterGateLd = {} /\ gateLdBusy = FALSE
  BY DEF Init
<1>3. QueuesFit
  BY <1>1, <1>2 DEF QueuesFit, Single
<1>4. ASSUME NEW b \in Board
      PROVE  OneThing(b) /\ RowsFit(b) /\ ReportFits(b) /\ locationId[b][1] = b
  <2>1. /\ stage[b] = "Loader" /\ result[b] = "Pending" /\ process[b] = "none" /\ row[b] = 1
        /\ written[b] = {} /\ started[b] = FALSE /\ checkQueued[b] = FALSE /\ resetOk[b] = FALSE
        /\ leftInLoader[b] = FALSE /\ locationId[b] = <<b, 0>> /\ gen[b] = 0
    BY <1>4 DEF Init
  <2>2. ~Later(b) /\ ~Queued(b) /\ ~AnswerDue(b) /\ ~UnderCheck(b) /\ \A what : ~Launches(what, b)
    BY <1>1, <1>2 DEF Later, NamedIn, Queued, AnswerDue, UnderCheck, Launches
  <2>3. OneThing(b)
    BY <1>1, <2>1, <2>2 DEF OneThing, UpgradeTools
  <2>4. RowsFit(b)
    BY <1>1, <2>1, <2>2 DEF RowsFit
  <2>5. ReportFits(b)
    BY <2>1 DEF ReportFits, Ended
  <2> QED
    BY <2>1, <2>3, <2>4, <2>5
<1>5. RestInv
  BY DEF Init, RestInv
<1> QED
  BY <1>3, <1>4, <1>5 DEF OneThingInv, LinesNameTheBoard, ToldInv

\* The inductive invariant holds when the reconciliation hands over.
LEMMA InitIInv ==
    Init => IInv
<1> SUFFICES ASSUME Init PROVE IInv
  OBVIOUS
<1> USE FleetAssumption DEF FleetAssumption
<1>1. DevicesTyped /\ BoardsTyped
  BY DEF Init, DevicesTyped, BoardsTyped, Stages, Results, Stranger, Board
<1>2. ReportTyped /\ RunTyped
  <2>1. \A b \in Board : <<b, 0>> \in Id
    BY DEF Id
  <2>2. ReportTyped
    BY <2>1 DEF Init, ReportTyped
  <2>3. RunTyped
    BY DEF Init, RunTyped
  <2> QED
    BY <2>2, <2>3
<1>3. agenda \in Seq(Frames)
  BY FramesTyped DEF Init
<1>4. Writers = {} /\ ResetBoards = {} /\ SlotHolders = {}
  BY DEF Init, Writers, ResetBoards, SlotHolders, UpgradeTools
<1>5. CountersCover
  BY <1>4, FS_EmptySet DEF Init, CountersCover
<1>6. SlotsInUse = 0
  BY <1>4, FS_EmptySet DEF SlotsInUse, SlotHolders
<1>7. GateApart /\ SlotLimit
  BY <1>6 DEF Init, GateApart, SlotLimit
<1>8. RdAsked(agenda) = {}
  BY DEF Init, RdAsked, Fill, Frame
<1>9. CompleteInv
  BY <1>8 DEF Init, CompleteInv
<1> QED
  BY <1>1, <1>2, <1>3, <1>5, <1>7, <1>9, InitBoards DEF IInv, TypeOK

\* Every step preserves the inductive invariant.
LEMMA NextIInv ==
    IInv /\ [Next]_vars => IInv'
<1> SUFFICES ASSUME IInv, [Next]_vars PROVE IInv'
  OBVIOUS
<1>1. CASE Next
  <2>1. TypeOK'
    BY <1>1, DevicesInv, BoardsInv, ReportInv, RunInv, StackInv DEF TypeOK, IInv
  <2>2. CountersCover'
    BY <1>1, WritersCounted, ReportInv DEF CountersCover, IInv
  <2>3. GateApart'
    BY <1>1, GateInv DEF GateApart, IInv
  <2>4. SlotLimit' /\ CompleteInv'
    BY <1>1, SlotInv, CompleteStep DEF IInv
  <2>5. OneThingInv' /\ RestInv'
    BY <1>1, OneThingStep, RestStep DEF IInv
  <2>6. LinesNameTheBoard' /\ ToldInv'
    BY <1>1, NamesStep, ToldStep DEF IInv
  <2> QED
    BY <2>1, <2>2, <2>3, <2>4, <2>5, <2>6 DEF IInv
<1>2. CASE UNCHANGED vars
  <2>1. TypeOK'
    BY <1>2 DEF vars, bus, progress, report, ending, gate, run, tools, IInv, TypeOK, DevicesTyped, BoardsTyped,
       ReportTyped, RunTyped
  <2>2. CountersCover' /\ GateApart' /\ SlotLimit'
    BY <1>2 DEF vars, progress, report, ending, gate, run, tools, IInv, CountersCover, Writers, ResetBoards,
       GateApart, SlotLimit, SlotsInUse
  <2>3. CompleteInv'
    BY <1>2 DEF vars, progress, ending, tools, IInv, CompleteInv, Complete, RdAsked
  <2>4. OneThingInv'
    BY <1>2, EventsKeep DEF IInv
  <2>5. RestInv' /\ LinesNameTheBoard'
    BY <1>2 DEF vars, run, gate, ending, tools, report, IInv, RestInv, Ended, LinesNameTheBoard
  <2>6. ToldInv'
    <3> SUFFICES ASSUME phase' \in {"Writing", "Returning"} PROVE \A b \in Board : ReportFits(b)'
      BY DEF ToldInv
    <3>1. \A b \in Board : ReportFits(b)
      BY <1>2 DEF vars, run, IInv, ToldInv
    <3> QED
      BY <1>2, <3>1, EventTold DEF IInv
  <2> QED
    BY <2>1, <2>2, <2>3, <2>4, <2>5, <2>6 DEF IInv
<1> QED
  BY <1>1, <1>2

THEOREM Invariance == Spec => []IInv
  BY InitIInv, NextIInv, PTL DEF Spec

\* Every variable keeps its type, the call stack included.
THEOREM TypeCorrect == Spec => []TypeOK
  BY Invariance, PTL DEF IInv

\* Under the Gate policy no gate LD ever runs next to a WL, an RL or an RD,
\* however many boards are written at once.
THEOREM GateLdStaysApart == Spec => []GateLdApart
<1>1. IInv => GateLdApart
  <2> SUFFICES ASSUME IInv, ~EveryWrite, gateLdBusy PROVE Writers = {}
    BY DEF GateLdApart
  <2>1. inFlight = 0
    BY DEF IInv, GateApart
  <2>2. Writers \in SUBSET Board
    BY DEF Writers
  <2>3. IsFiniteSet(Writers) /\ Cardinality(Writers) \in Nat /\ Cardinality(Writers) <= 0
    BY <2>1, <2>2, BoardSets DEF IInv, CountersCover
  <2> QED
    BY <2>3, FS_EmptySet
<1> QED
  BY <1>1, Invariance, PTL

\* maxParallel() holds at every moment of the run.
THEOREM SlotLimitHolds == Spec => []SlotLimit
  BY Invariance, PTL DEF IInv

\* No board with a partition still missing is ever reset as written, or
\* reported Done or NotBack, whatever fails and whenever the owner cancels.
THEOREM OnlyCompleteBoardsAreReset == Spec => []OnlyCompleteReset
<1>1. IInv => OnlyCompleteReset
  BY DEF IInv, CompleteInv, OnlyCompleteReset, Complete
<1> QED
  BY <1>1, Invariance, PTL

\* What was written to a board are rows of its own, and a board the owner is told nothing
\* was written to has never been started (fill(), startWrite(), resetUnwritten()).
THEOREM WritesStayMeant == Spec => []WritesAreMeant
<1>1. IInv => WritesAreMeant
  <2> SUFFICES ASSUME IInv, NEW b \in Board
               PROVE  /\ process[b] = "undo" \/ result[b] = "Skipped" => ~started[b] /\ written[b] = {}
                      /\ written[b] \subseteq Row
    BY DEF IInv, WritesAreMeant, SkippedUntouched
  <2>1. RowsFit(b)
    BY DEF IInv, OneThingInv
  <2> QED
    BY <2>1 DEF RowsFit
<1> QED
  BY <1>1, Invariance, PTL

\* The closing picture is taken next to no tool, and a line that it leaves names no other
\* board than its own (closeRun(), correctEndedBoards()).
THEOREM ClosingStaysTrue == Spec => []ClosingIsTrue
<1>1. IInv => ClosingIsTrue
  <2> SUFFICES ASSUME IInv, snapshotRunning PROVE Writers = {} /\ ~gateLdBusy
    BY DEF IInv, ClosingIsTrue, ClosingLdApart
  <2>1. ~gateLdBusy /\ \A b \in Board : process[b] = "none"
    BY DEF IInv, RestInv
  <2> QED
    BY <2>1 DEF Writers, UpgradeTools
<1> QED
  BY <1>1, Invariance, PTL

\* No check is answered by an LD that began before it was asked, under the policy that has
\* one before every write; a cancel starts no board (requestCheck(), drain()).
THEOREM ChecksAreFresh == Spec => ChecksHold
<1>1. IInv /\ [Next]_vars => [EveryWrite /\ gateLdBusy /\ gateLdBusy' => gateWaiting' \subseteq gateWaiting]_vars
  BY FreshStep DEF IInv
<1>2. IInv /\ [Next]_vars => [\A b \in Board : draining /\ ~started[b] => ~started'[b]]_vars
  BY DrainStep DEF IInv
<1>3. Spec => ChecksGetFreshLd
  BY <1>1, Invariance, PTL DEF Spec, ChecksGetFreshLd
<1>4. Spec => DrainStartsNothing
  BY <1>2, Invariance, PTL DEF Spec, DrainStartsNothing
<1> QED
  BY <1>3, <1>4 DEF ChecksHold

\* A step that takes the picture is closeRun(), when no fault stops it.
LEMMA PictureTaken ==
    ASSUME IInv, [Next]_vars, snapshotRunning, ~snapshotRunning', faults' = faults
    PROVE  CloseRun
<1>1. ~CloseBlind
  <2>1. faults \in Nat
    BY FleetAssumption DEF IInv, TypeOK, DevicesTyped, FleetAssumption
  <2> QED
    BY <2>1 DEF CloseBlind, Fault
<1>2. UNCHANGED vars => snapshotRunning' = snapshotRunning
  BY DEF vars, run
<1> QED
  BY <1>1, <1>2, PictureSteps DEF CloseStep, MaybeFinishRun

\* A board that the report leaves in Loader mode, where LD lists it, has exactly the lines that
\* finish it: a WL for each row it has not got and the RD (retryLines(), correctEndedBoards()).
THEOREM LinesFinish == Spec => LinesFinishTheBoard
<1>1. IInv /\ [Next]_vars =>
        [snapshotRunning /\ ~snapshotRunning' /\ faults' = faults =>
           \A b \in Board : leftInLoader'[b] /\ locationId'[b] \in LoaderIds =>
               retry'[b] \ {RDLine} = (IF result[b] = "Skipped" THEN {} ELSE Row \ written[b])
               /\ RDLine \in retry'[b]]_vars
  BY PictureTaken, ClosingLines DEF IInv
<1> QED
  BY <1>1, Invariance, PTL DEF Spec, LinesFinishTheBoard

\* Every device the closing picture sees in Loader mode is told of, but for a board that is
\* Done and for two or more that were reset unwritten and renumbered (closeRun()).
THEOREM TellsOfAll == Spec => ClosingTells
<1>1. IInv /\ [Next]_vars =>
        [snapshotRunning /\ ~snapshotRunning' /\ faults' = faults =>
           \A d \in DOMAIN dev :
               ShowsLoader(d) /\ (d \in Board => result[d] # "Done") /\ ~TakenForReset(d) => ToldOf(d)]_vars
  BY PictureTaken, ClosingRunTells DEF IInv, ToldOf
<1> QED
  BY <1>1, Invariance, PTL DEF Spec, ClosingTells

\* What the report of a run leaves to its owner: the lines that finish a board, and word of
\* every device in Loader mode, the two exceptions apart (correctEndedBoards(), closeRun()).
THEOREM LinesTell == Spec => LinesTellAll
BY LinesFinish, TellsOfAll DEF LinesTellAll

=============================================================================
