--------------------------- MODULE CoverageProofs ---------------------------
(***************************************************************************)
(* Theorems about Coverage, for any number of commands, whatever the       *)
(* measured code starts and whoever is killed: TypeCorrect, ClaimsBacked   *)
(* and RecordsTell, from the invariant IInv.                               *)
(***************************************************************************)
EXTENDS Coverage, TLAPS

(* The places of a command after it has cleared the scratch files, and those    *)
(* of a command that has a result.                                              *)
Cleared == CommandPc \ {"clear", "openUnmeasured", "writeUnmeasured", "recordUnmeasured"}
Measuring == {"copyNatives", "openMeasured", "writeMeasured", "recordMeasured"}

\* The ranges of the variables, in parts; a command that is under way has a number.
ControlType ==
  /\ sandbox \in BOOLEAN /\ run \in 0..MaxRuns /\ timedOut \in BOOLEAN
  /\ pc \in {"idle"} \cup CommandPc
  /\ ended \in [Run -> {"none", "reported", "error", "killed"}]
  /\ \A n \in Run : ended[n] = "none" <=> n > run \/ (n = run /\ pc # "idle")
  /\ pc # "idle" => run \in Run
PlaceRange == {"none", "killed", "gone"} \cup Places \cup Exited
ProcessType ==
  /\ at \in [Run -> [Process -> PlaceRange]]
  /\ group \in [Run -> SUBSET Process] /\ piped \in [Run -> SUBSET Process]
FileType ==
  /\ result \in Results /\ read \in Results
  /\ native \subseteq Writer /\ shown \subseteq Writer
  /\ summary \in [state : {"absent", "torn", "whole"}, measured : BOOLEAN,
                  by : 0..MaxRuns, from : Writer]
RecordType == recorded \in [Run -> {"none", "blocked_by_policy", "timeout", "succeeded", "failed"}]
TypeInv == ControlType /\ ProcessType /\ FileType /\ RecordType

Past(n) == n < run \/ (n = run /\ pc = "idle")

\* A process that is alive is one that the running command waits for, or could
\* not wait for, or one that an earlier command left behind.
AliveInv ==
  \A n \in Run, q \in Process : Alive(n, q) =>
    /\ Past(n) => LeftBehind(n, q)
    /\ n = run /\ pc \notin {"idle", "communicate", "drain"} => q \notin piped[n]
    /\ n = run /\ pc # "idle" /\ timedOut => q \notin group[n]

\* A process that has not been started is nowhere.
UnstartedInv ==
  \A n \in Run, q \in Started : at[n][q] = "none" => q \notin group[n] /\ q \notin piped[n]

\* What the running command knows of its child.
ChildInv ==
  /\ \A n \in Run : n > run \/ (n = run /\ pc \in {"clear", "launch"}) =>
       \A q \in Process : at[n][q] = "none"
  /\ \A n \in Run : "child" \in piped[n] /\ "child" \in group[n]
  /\ pc = "communicate" => at[run]["child"] \in Places \cup Exited
  /\ pc = "drain" => timedOut
  /\ pc \in {"log", "judge"} => timedOut \/ at[run]["child"] \in Exited
  /\ pc \in Measuring => ~timedOut /\ at[run]["child"] \in Exited
  /\ pc \in {"clear", "launch", "communicate"} => ~timedOut

\* Without a sandbox no code runs.
PolicyInv ==
  ~sandbox => /\ \A n \in Run, q \in Process : at[n][q] = "none"
              /\ pc \in {"idle", "openUnmeasured", "writeUnmeasured", "recordUnmeasured"}

ProcessInv == AliveInv /\ UnstartedInv /\ ChildInv /\ PolicyInv

\* Whoever is named as the writer of something has been started.
Wrote(writer) == writer[1] \in Run => at[writer[1]][writer[2]] # "none"
WriterInv ==
  /\ Wrote(result.by) /\ Wrote(read.by) /\ Wrote(summary.from)
  /\ \A writer \in native \cup shown : Wrote(writer)

\* What the scratch files hold is by a process of this command, or by one that an
\* earlier command left behind.
ScratchInv ==
  /\ pc \in Cleared => /\ result.state = "absent" \/ Mixed(run, result.by)
                       /\ \A writer \in native : Mixed(run, writer)
  /\ pc \in Measuring => Mixed(run, read.by)
  /\ pc \in Measuring \ {"copyNatives"} => \A writer \in shown : Mixed(run, writer)

\* What is written is written by a command that has been started, once.
WrittenInv ==
  /\ summary.by <= run /\ (summary.measured => summary.by \in Run)
  /\ pc \notin {"idle", "recordMeasured", "recordUnmeasured"} => summary.by < run
  /\ pc = "recordUnmeasured" => ~summary.measured
  /\ \A n \in Run : n > run \/ (n = run /\ pc # "idle") => recorded[n] = "none"
  /\ \A n \in Run : recorded[n] = "blocked_by_policy" => ~sandbox

IInv ==
  /\ TypeInv /\ ProcessInv /\ WriterInv /\ ScratchInv /\ WrittenInv
  /\ ClaimBacked /\ RecordTells
-----------------------------------------------------------------------------
\* The parts make up TypeOK.
LEMMA TypeParts == TypeInv <=> TypeOK /\ (pc # "idle" => run \in Run)
<1> QED
  BY DEF TypeInv, ControlType, ProcessType, PlaceRange, FileType, RecordType, TypeOK

\* The commands are numbered.
LEMMA RunIs == Run \subseteq Nat /\ (ControlType => run \in Nat)
BY RunsAssumption DEF Run, ControlType

\* A step of one process, and of no other.
LEMMA Stepped ==
  ASSUME ProcessType, NEW n \in Run, NEW q \in Process, NEW place \in PlaceRange, Step(n, q, place)
  PROVE  /\ at' \in [Run -> [Process -> PlaceRange]]
         /\ at'[n][q] = place
         /\ \A m \in Run, x \in Process : m # n \/ x # q => at'[m][x] = at[m][x]
BY DEF ProcessType, Step

\* The kill of the process group of the running command.
LEMMA Killing ==
  ASSUME ProcessType, run \in Run, Kill(group[run])
  PROVE  /\ at' \in [Run -> [Process -> PlaceRange]]
         /\ \A m \in Run, x \in Process :
              IF m = run /\ Alive(m, x) /\ x \in group[m] THEN at'[m][x] = "killed"
                                                          ELSE at'[m][x] = at[m][x]
<1> USE DEF ProcessType, Kill
<1>1. "killed" \in PlaceRange
  BY DEF PlaceRange
<1> DEFINE row == [q \in Process |->
                     IF Alive(run, q) /\ q \in group[run] THEN "killed" ELSE at[run][q]]
<1>2. at' = [at EXCEPT ![run] = row]
  OBVIOUS
<1>3. row \in [Process -> PlaceRange]
  BY <1>1
<1>4. at' \in [Run -> [Process -> PlaceRange]]
  BY <1>2, <1>3
<1>5. ASSUME NEW m \in Run, NEW x \in Process
      PROVE  IF m = run /\ Alive(m, x) /\ x \in group[m] THEN at'[m][x] = "killed"
                                                         ELSE at'[m][x] = at[m][x]
  BY <1>2
<1> QED
  BY <1>4, <1>5

\* Every step keeps the ranges of a command's own state.
LEMMA ControlStep ==
  ASSUME ControlType, [Next]_vars
  PROVE  ControlType'
<1> USE RunIs DEF ControlType, CommandPc, GoTo, EndAs, scratch, packet, processes
<1>1. CASE Start
  <2>1. run + 1 \in Run /\ run' = run + 1 /\ pc = "idle" /\ pc' # "idle" /\ run' \in 0..MaxRuns
    BY <1>1, RunsAssumption DEF Start, Run
  <2>2. \A n \in Run : n > run <=> n > run' \/ n = run'
    BY <2>1
  <2> QED
    BY <1>1, <2>1, <2>2 DEF Start
<1>2. CASE Clear
  BY <1>2 DEF Clear
<1>3. CASE Fail
  BY <1>3 DEF Fail
<1>4. CASE Launch
  BY <1>4 DEF Launch
<1>5. CASE Communicate
  BY <1>5 DEF Communicate
<1>6. CASE Timeout
  BY <1>6 DEF Timeout
<1>7. CASE Drain
  BY <1>7 DEF Drain
<1>8. CASE WriteLog
  BY <1>8 DEF WriteLog
<1>9. CASE Judge
  BY <1>9 DEF Judge
<1>10. CASE CopyNatives
  BY <1>10 DEF CopyNatives
<1>11. CASE OpenSummary
  BY <1>11 DEF OpenSummary
<1>12. CASE WriteSummary
  BY <1>12 DEF WriteSummary
<1>13. CASE Record
  BY <1>13 DEF Record, Status
<1>14. CASE Killed
  BY <1>14 DEF Killed
<1>15. ASSUME NEW n \in Run, NEW q \in Process, TargetEnds(n, q) PROVE ControlType'
  BY <1>15 DEF TargetEnds
<1>16. ASSUME NEW n \in Run, NEW q \in Process, WriteNatives(n, q) PROVE ControlType'
  BY <1>16 DEF WriteNatives
<1>17. ASSUME NEW n \in Run, NEW q \in Process, OpenResult(n, q) PROVE ControlType'
  BY <1>17 DEF OpenResult
<1>18. ASSUME NEW n \in Run, NEW q \in Process, WriteResult(n, q) PROVE ControlType'
  BY <1>18 DEF WriteResult
<1>19. ASSUME NEW n \in Run, NEW q \in Process, Dies(n, q) PROVE ControlType'
  BY <1>19 DEF Dies
<1>20. ASSUME NEW n \in Run, NEW p \in Process, NEW q \in Process, Spawn(n, p, q)
      PROVE  ControlType'
  BY <1>20 DEF Spawn
<1>21. CASE UNCHANGED vars
  BY <1>21 DEF vars
<1> QED
  BY <1>1, <1>2, <1>3, <1>4, <1>5, <1>6, <1>7, <1>8, <1>9, <1>10, <1>11, <1>12, <1>13,
    <1>14, <1>15, <1>16, <1>17, <1>18, <1>19, <1>20, <1>21 DEF Next, Proceed, ProcessStep

\* Every step keeps the ranges of the processes' state.
LEMMA ProcessTypeStep ==
  ASSUME ControlType, ProcessType, [Next]_vars
  PROVE  ProcessType'
<1> USE DEF processes
<1>1. CASE Start
  BY <1>1 DEF Start, ProcessType
<1>2. CASE Clear
  BY <1>2 DEF Clear, ProcessType
<1>3. CASE Fail
  BY <1>3 DEF Fail, ProcessType
<1>4. CASE Launch
  <2>1. run \in Run /\ "child" \in Process /\ "target" \in PlaceRange
    BY <1>4 DEF Launch, ControlType, Process, PlaceRange, Places
  <2> QED
    BY <1>4, <2>1, Stepped DEF Launch, ProcessType
<1>5. CASE Communicate
  BY <1>5 DEF Communicate, ProcessType
<1>6. CASE Timeout
  <2>1. run \in Run
    BY <1>6 DEF Timeout, ControlType
  <2> QED
    BY <1>6, <2>1, Killing DEF Timeout, ProcessType
<1>7. CASE Drain
  BY <1>7 DEF Drain, ProcessType
<1>8. CASE WriteLog
  BY <1>8 DEF WriteLog, ProcessType
<1>9. CASE Judge
  BY <1>9 DEF Judge, ProcessType
<1>10. CASE CopyNatives
  BY <1>10 DEF CopyNatives, ProcessType
<1>11. CASE OpenSummary
  BY <1>11 DEF OpenSummary, ProcessType
<1>12. CASE WriteSummary
  BY <1>12 DEF WriteSummary, ProcessType
<1>13. CASE Record
  BY <1>13 DEF Record, ProcessType
<1>14. CASE Killed
  BY <1>14 DEF Killed, ProcessType
<1>15. ASSUME NEW n \in Run, NEW q \in Process, TargetEnds(n, q) PROVE ProcessType'
  <2>1. PICK place \in PlaceRange : Step(n, q, place)
    BY <1>15 DEF TargetEnds, PlaceRange, Places, Exited, Codes
  <2> QED
    BY <1>15, <2>1, Stepped DEF TargetEnds, ProcessType
<1>16. ASSUME NEW n \in Run, NEW q \in Process, WriteNatives(n, q) PROVE ProcessType'
  <2>1. PICK place \in PlaceRange : Step(n, q, place)
    BY <1>16 DEF WriteNatives, PlaceRange, Places, Exited, Codes
  <2> QED
    BY <1>16, <2>1, Stepped DEF WriteNatives, ProcessType
<1>17. ASSUME NEW n \in Run, NEW q \in Process, OpenResult(n, q) PROVE ProcessType'
  <2>1. PICK place \in PlaceRange : Step(n, q, place)
    BY <1>17 DEF OpenResult, PlaceRange, Places, Exited, Codes
  <2> QED
    BY <1>17, <2>1, Stepped DEF OpenResult, ProcessType
<1>18. ASSUME NEW n \in Run, NEW q \in Process, WriteResult(n, q) PROVE ProcessType'
  <2>1. PICK place \in PlaceRange : Step(n, q, place)
    BY <1>18 DEF WriteResult, PlaceRange, Places, Exited, Codes
  <2> QED
    BY <1>18, <2>1, Stepped DEF WriteResult, ProcessType
<1>19. ASSUME NEW n \in Run, NEW q \in Process, Dies(n, q) PROVE ProcessType'
  <2>1. PICK place \in PlaceRange : Step(n, q, place)
    BY <1>19 DEF Dies, PlaceRange, Places, Exited, Codes
  <2> QED
    BY <1>19, <2>1, Stepped DEF Dies, ProcessType
<1>20. ASSUME NEW n \in Run, NEW p \in Process, NEW q \in Process, Spawn(n, p, q)
      PROVE  ProcessType'
  <2>1. Step(n, q, "target") /\ "target" \in PlaceRange
    BY <1>20 DEF Spawn, PlaceRange, Places
  <2>2. group' \in [Run -> SUBSET Process] /\ piped' \in [Run -> SUBSET Process]
    <3>1. group' = [group EXCEPT ![n] = @ \cup {q}] \/ group' = group
      BY <1>20 DEF Spawn
    <3>2. piped' = [piped EXCEPT ![n] = @ \cup {q}] \/ piped' = piped
      BY <1>20 DEF Spawn
    <3> QED
      BY <3>1, <3>2 DEF ProcessType
  <2> QED
    BY <2>1, <2>2, Stepped DEF ProcessType
<1>21. CASE UNCHANGED vars
  BY <1>21 DEF vars, ProcessType
<1> QED
  BY <1>1, <1>2, <1>3, <1>4, <1>5, <1>6, <1>7, <1>8, <1>9, <1>10, <1>11, <1>12, <1>13,
    <1>14, <1>15, <1>16, <1>17, <1>18, <1>19, <1>20, <1>21 DEF Next, Proceed, ProcessStep

\* Who can write a result.
LEMMA WriterIs == \A n \in Run, q \in Process : <<n, q>> \in Writer
BY RunsAssumption DEF Run, Writer

\* An absent result is a result, by nobody.
LEMMA NoResultIs == NoResult \in Results /\ Nobody \in Writer
<1>1. 0 \in 0..MaxRuns
  BY RunsAssumption
<1>2. Nobody \in Writer
  BY <1>1 DEF Nobody, Writer, Process
<1> QED
  BY <1>2 DEF NoResult, Results

\* Every step keeps the ranges of the files.
LEMMA FileTypeStep ==
  ASSUME ControlType, FileType, [Next]_vars
  PROVE  FileType'
<1> USE DEF scratch, packet
<1>1. CASE Start
  BY <1>1, NoResultIs DEF Start, FileType
<1>2. CASE Clear
  BY <1>2, NoResultIs DEF Clear, FileType
<1>3. CASE Fail
  BY <1>3 DEF Fail, FileType
<1>4. CASE Launch
  BY <1>4 DEF Launch, FileType
<1>5. CASE Communicate
  BY <1>5 DEF Communicate, FileType
<1>6. CASE Timeout
  BY <1>6 DEF Timeout, FileType
<1>7. CASE Drain
  BY <1>7 DEF Drain, FileType
<1>8. CASE WriteLog
  BY <1>8 DEF WriteLog, FileType
<1>9. CASE Judge
  BY <1>9 DEF Judge, FileType
<1>10. CASE CopyNatives
  BY <1>10 DEF CopyNatives, FileType
<1>11. CASE OpenSummary
  <2>1. summary' = [summary EXCEPT !.state = "torn"]
    BY <1>11 DEF OpenSummary
  <2> QED
    BY <1>11, <2>1 DEF OpenSummary, FileType
<1>12. CASE WriteSummary
  <2>1. run \in 0..MaxRuns /\ read.by \in Writer /\ Nobody \in Writer
    BY NoResultIs DEF ControlType, FileType, Results
  <2> QED
    BY <1>12, <2>1 DEF WriteSummary, FileType
<1>13. CASE Record
  BY <1>13 DEF Record, FileType
<1>14. CASE Killed
  BY <1>14 DEF Killed, FileType
<1>15. ASSUME NEW n \in Run, NEW q \in Process, TargetEnds(n, q) PROVE FileType'
  BY <1>15 DEF TargetEnds, FileType
<1>16. ASSUME NEW n \in Run, NEW q \in Process, WriteNatives(n, q) PROVE FileType'
  <2>1. <<n, q>> \in Writer
    BY WriterIs
  <2> QED
    BY <1>16, <2>1 DEF WriteNatives, FileType
<1>17. ASSUME NEW n \in Run, NEW q \in Process, OpenResult(n, q) PROVE FileType'
  <2>1. <<n, q>> \in Writer
    BY WriterIs
  <2>2. result' \in Results
    BY <1>17, <2>1 DEF OpenResult, Results
  <2> QED
    BY <1>17, <2>2 DEF OpenResult, FileType
<1>18. ASSUME NEW n \in Run, NEW q \in Process, WriteResult(n, q) PROVE FileType'
  <2>1. <<n, q>> \in Writer
    BY WriterIs
  <2>2. ASSUME NEW lines \in BOOLEAN, result' = [state |-> "whole", by |-> <<n, q>>, lines |-> lines]
        PROVE  result' \in Results
    BY <2>1, <2>2 DEF Results
  <2>3. ASSUME result' = [result EXCEPT !.state = "torn"]
        PROVE  result' \in Results
    BY <2>3 DEF FileType, Results
  <2>4. result' \in Results
    BY <1>18, <2>2, <2>3 DEF WriteResult
  <2> QED
    BY <1>18, <2>4 DEF WriteResult, FileType
<1>19. ASSUME NEW n \in Run, NEW q \in Process, Dies(n, q) PROVE FileType'
  BY <1>19 DEF Dies, FileType
<1>20. ASSUME NEW n \in Run, NEW p \in Process, NEW q \in Process, Spawn(n, p, q)
      PROVE  FileType'
  BY <1>20 DEF Spawn, FileType
<1>21. CASE UNCHANGED vars
  BY <1>21 DEF vars, FileType
<1> QED
  BY <1>1, <1>2, <1>3, <1>4, <1>5, <1>6, <1>7, <1>8, <1>9, <1>10, <1>11, <1>12, <1>13,
    <1>14, <1>15, <1>16, <1>17, <1>18, <1>19, <1>20, <1>21 DEF Next, Proceed, ProcessStep

\* Every step keeps the range of the records.
LEMMA RecordTypeStep ==
  ASSUME RecordType, [Next]_vars
  PROVE  RecordType'
<1> USE DEF RecordType, packet
<1>1. CASE Start
  BY <1>1 DEF Start
<1>2. CASE Clear
  BY <1>2 DEF Clear
<1>3. CASE Fail
  BY <1>3 DEF Fail
<1>4. CASE Launch
  BY <1>4 DEF Launch
<1>5. CASE Communicate
  BY <1>5 DEF Communicate
<1>6. CASE Timeout
  BY <1>6 DEF Timeout
<1>7. CASE Drain
  BY <1>7 DEF Drain
<1>8. CASE WriteLog
  BY <1>8 DEF WriteLog
<1>9. CASE Judge
  BY <1>9 DEF Judge
<1>10. CASE CopyNatives
  BY <1>10 DEF CopyNatives
<1>11. CASE OpenSummary
  BY <1>11 DEF OpenSummary
<1>12. CASE WriteSummary
  BY <1>12 DEF WriteSummary
<1>13. CASE Record
  <2>1. Status \in {"blocked_by_policy", "timeout", "succeeded", "failed"}
    BY DEF Status
  <2> QED
    BY <1>13, <2>1 DEF Record
<1>14. CASE Killed
  BY <1>14 DEF Killed
<1>15. ASSUME NEW n \in Run, NEW q \in Process, TargetEnds(n, q) PROVE RecordType'
  BY <1>15 DEF TargetEnds
<1>16. ASSUME NEW n \in Run, NEW q \in Process, WriteNatives(n, q) PROVE RecordType'
  BY <1>16 DEF WriteNatives
<1>17. ASSUME NEW n \in Run, NEW q \in Process, OpenResult(n, q) PROVE RecordType'
  BY <1>17 DEF OpenResult
<1>18. ASSUME NEW n \in Run, NEW q \in Process, WriteResult(n, q) PROVE RecordType'
  BY <1>18 DEF WriteResult
<1>19. ASSUME NEW n \in Run, NEW q \in Process, Dies(n, q) PROVE RecordType'
  BY <1>19 DEF Dies
<1>20. ASSUME NEW n \in Run, NEW p \in Process, NEW q \in Process, Spawn(n, p, q)
      PROVE  RecordType'
  BY <1>20 DEF Spawn
<1>21. CASE UNCHANGED vars
  BY <1>21 DEF vars
<1> QED
  BY <1>1, <1>2, <1>3, <1>4, <1>5, <1>6, <1>7, <1>8, <1>9, <1>10, <1>11, <1>12, <1>13,
    <1>14, <1>15, <1>16, <1>17, <1>18, <1>19, <1>20, <1>21 DEF Next, Proceed, ProcessStep

\* No step changes what is said of an earlier command, nor where a process that has
\* been started belongs.
Kept ==
  /\ \A m \in Run : m # run => ended'[m] = ended[m] /\ recorded'[m] = recorded[m]
  /\ \A m \in Run, x \in Process : at[m][x] # "none" =>
       /\ at'[m][x] # "none"
       /\ x \in piped'[m] <=> x \in piped[m]
       /\ x \in group'[m] <=> x \in group[m]

\* Every step keeps what Kept says.
LEMMA Keeps ==
  ASSUME ControlType, ProcessType, RecordType, [Next]_vars
  PROVE  Kept
<1> USE DEF Kept, ControlType, RecordType, GoTo, EndAs, scratch, packet, processes
<1>1. CASE Start
  BY <1>1 DEF Start
<1>2. CASE Clear
  BY <1>2 DEF Clear
<1>3. CASE Fail
  BY <1>3 DEF Fail
<1>4. CASE Launch
  <2>1. run \in Run /\ "child" \in Process /\ "target" \in PlaceRange
    BY <1>4 DEF Launch, ControlType, Process, PlaceRange, Places
  <2>2. \A m \in Run, x \in Process : at[m][x] # "none" => at'[m][x] # "none"
    BY <1>4, <2>1, Stepped DEF Launch
  <2> QED
    BY <1>4, <2>2 DEF Launch
<1>5. CASE Communicate
  BY <1>5 DEF Communicate
<1>6. CASE Timeout
  <2>1. \A m \in Run, x \in Process : at[m][x] # "none" => at'[m][x] # "none"
    BY <1>6, Killing DEF Timeout
  <2> QED
    BY <1>6, <2>1 DEF Timeout
<1>7. CASE Drain
  BY <1>7 DEF Drain
<1>8. CASE WriteLog
  BY <1>8 DEF WriteLog
<1>9. CASE Judge
  BY <1>9 DEF Judge
<1>10. CASE CopyNatives
  BY <1>10 DEF CopyNatives
<1>11. CASE OpenSummary
  BY <1>11 DEF OpenSummary
<1>12. CASE WriteSummary
  BY <1>12 DEF WriteSummary
<1>13. CASE Record
  BY <1>13 DEF Record, Status
<1>14. CASE Killed
  BY <1>14 DEF Killed
<1>15. ASSUME NEW n \in Run, NEW q \in Process, TargetEnds(n, q) PROVE Kept
  <2>1. PICK place \in PlaceRange : Step(n, q, place) /\ place # "none"
    BY <1>15 DEF TargetEnds, PlaceRange, Places, Exited, Codes
  <2>2. \A m \in Run, x \in Process : at[m][x] # "none" => at'[m][x] # "none"
    BY <2>1, Stepped
  <2> QED
    BY <1>15, <2>2 DEF TargetEnds
<1>16. ASSUME NEW n \in Run, NEW q \in Process, WriteNatives(n, q) PROVE Kept
  <2>1. PICK place \in PlaceRange : Step(n, q, place) /\ place # "none"
    BY <1>16 DEF WriteNatives, PlaceRange, Places, Exited, Codes
  <2>2. \A m \in Run, x \in Process : at[m][x] # "none" => at'[m][x] # "none"
    BY <2>1, Stepped
  <2> QED
    BY <1>16, <2>2 DEF WriteNatives
<1>17. ASSUME NEW n \in Run, NEW q \in Process, OpenResult(n, q) PROVE Kept
  <2>1. PICK place \in PlaceRange : Step(n, q, place) /\ place # "none"
    BY <1>17 DEF OpenResult, PlaceRange, Places, Exited, Codes
  <2>2. \A m \in Run, x \in Process : at[m][x] # "none" => at'[m][x] # "none"
    BY <2>1, Stepped
  <2> QED
    BY <1>17, <2>2 DEF OpenResult
<1>18. ASSUME NEW n \in Run, NEW q \in Process, WriteResult(n, q) PROVE Kept
  <2>1. PICK place \in PlaceRange : Step(n, q, place) /\ place # "none"
    BY <1>18 DEF WriteResult, PlaceRange, Places, Exited, Codes
  <2>2. \A m \in Run, x \in Process : at[m][x] # "none" => at'[m][x] # "none"
    BY <2>1, Stepped
  <2> QED
    BY <1>18, <2>2 DEF WriteResult
<1>19. ASSUME NEW n \in Run, NEW q \in Process, Dies(n, q) PROVE Kept
  <2>1. PICK place \in PlaceRange : Step(n, q, place) /\ place # "none"
    BY <1>19 DEF Dies, PlaceRange, Places, Exited, Codes
  <2>2. \A m \in Run, x \in Process : at[m][x] # "none" => at'[m][x] # "none"
    BY <2>1, Stepped
  <2> QED
    BY <1>19, <2>2 DEF Dies
<1>20. ASSUME NEW n \in Run, NEW p \in Process, NEW q \in Process, Spawn(n, p, q)
      PROVE  Kept
  <2>1. Step(n, q, "target") /\ "target" \in PlaceRange /\ at[n][q] = "none"
    BY <1>20 DEF Spawn, PlaceRange, Places
  <2>2. \A m \in Run, x \in Process : at[m][x] # "none" => at'[m][x] # "none" /\ (m # n \/ x # q)
    BY <2>1, Stepped
  <2>3. group' = [group EXCEPT ![n] = @ \cup {q}] \/ group' = group
    BY <1>20 DEF Spawn
  <2>4. piped' = [piped EXCEPT ![n] = @ \cup {q}] \/ piped' = piped
    BY <1>20 DEF Spawn
  <2>5. ASSUME NEW m \in Run, NEW x \in Process, at[m][x] # "none"
        PROVE  (x \in piped'[m] <=> x \in piped[m]) /\ (x \in group'[m] <=> x \in group[m])
    BY <2>2, <2>3, <2>4, <2>5 DEF ProcessType
  <2> QED
    BY <1>20, <2>2, <2>5 DEF Spawn
<1>21. CASE UNCHANGED vars
  BY <1>21 DEF vars
<1> QED
  BY <1>1, <1>2, <1>3, <1>4, <1>5, <1>6, <1>7, <1>8, <1>9, <1>10, <1>11, <1>12, <1>13,
    <1>14, <1>15, <1>16, <1>17, <1>18, <1>19, <1>20, <1>21 DEF Next, Proceed, ProcessStep

\* A step of a process that does not start another one: what it changes.
LEMMA Moves ==
  ASSUME ProcessType, NEW n \in Run, NEW q \in Process, ProcessStep(n, q)
  PROVE  /\ UNCHANGED <<sandbox, run, pc, timedOut, read, packet, group, piped, ended>>
         /\ Alive(n, q) /\ at'[n][q] # "none"
         /\ q = "child" => at'[n][q] \in Places \cup Exited
         /\ \A m \in Run, x \in Process : m # n \/ x # q => at'[m][x] = at[m][x]
         /\ \/ result' = result \/ result'.by = <<n, q>>
            \/ result.state # "absent" /\ result'.by = result.by
         /\ native' \subseteq native \cup {<<n, q>>}
<1> DEFINE Frame == /\ UNCHANGED <<sandbox, run, pc, timedOut, read, packet, group, piped, ended>>
                    /\ Alive(n, q)
                    /\ native' \subseteq native \cup {<<n, q>>}
<1>1. Frame
  BY DEF ProcessStep, TargetEnds, WriteNatives, OpenResult, WriteResult, Dies, Alive, Places,
    scratch
<1>2. PICK place \in PlaceRange :
        Step(n, q, place) /\ place # "none" /\ (q = "child" => place \in Places \cup Exited)
  BY DEF ProcessStep, TargetEnds, WriteNatives, OpenResult, WriteResult, Dies, PlaceRange,
    Places, Exited, Codes
<1>3. result' = result \/ result'.by = <<n, q>> \/ (result.state # "absent" /\ result'.by = result.by)
  <2>1. CASE WriteResult(n, q)
    <3>1. ASSUME NEW lines \in BOOLEAN,
                 result' = [state |-> "whole", by |-> <<n, q>>, lines |-> lines]
          PROVE  result'.by = <<n, q>>
      BY <3>1
    <3>2. ASSUME result' = [result EXCEPT !.state = "torn"], result.state = "whole"
          PROVE  result.state # "absent" /\ result'.by = result.by
      BY <3>2
    <3> QED
      BY <2>1, <3>1, <3>2 DEF WriteResult
  <2>2. CASE ~WriteResult(n, q)
    BY <2>2 DEF ProcessStep, TargetEnds, WriteNatives, OpenResult, Dies, scratch
  <2> QED
    BY <2>1, <2>2
<1> QED
  BY <1>1, <1>2, <1>3, Stepped

\* The start of process q by p: what it changes.
LEMMA Spawned ==
  ASSUME ProcessType, NEW n \in Run, NEW p \in Process, NEW q \in Process, Spawn(n, p, q)
  PROVE  /\ UNCHANGED <<sandbox, run, pc, timedOut, read, scratch, packet, ended>>
         /\ Alive(n, p) /\ at[n][q] = "none" /\ q \in Started
         /\ at'[n][q] = "target"
         /\ \A m \in Run, x \in Process : m # n \/ x # q =>
              /\ at'[m][x] = at[m][x]
              /\ x \in piped'[m] <=> x \in piped[m]
              /\ x \in group'[m] <=> x \in group[m]
         /\ q \in piped'[n] => p \in piped[n] \/ q \in piped[n]
         /\ q \in group'[n] => p \in group[n] \/ q \in group[n]
<1>1. Step(n, q, "target") /\ "target" \in PlaceRange
  BY DEF Spawn, PlaceRange, Places
<1>2. group' = group \/ (p \in group[n] /\ group' = [group EXCEPT ![n] = @ \cup {q}])
  BY DEF Spawn
<1>3. piped' = piped \/ (p \in piped[n] /\ piped' = [piped EXCEPT ![n] = @ \cup {q}])
  BY DEF Spawn
<1>4. \A m \in Run, x \in Process : m # n \/ x # q =>
        (x \in piped'[m] <=> x \in piped[m]) /\ (x \in group'[m] <=> x \in group[m])
  BY <1>2, <1>3 DEF ProcessType
<1>5. /\ q \in piped'[n] => p \in piped[n] \/ q \in piped[n]
      /\ q \in group'[n] => p \in group[n] \/ q \in group[n]
  BY <1>2, <1>3 DEF ProcessType
<1> QED
  BY <1>1, <1>4, <1>5, Stepped DEF Spawn, Alive, Places

\* The start of the child.
LEMMA Launched ==
  ASSUME ControlType, ProcessType, Launch
  PROVE  /\ UNCHANGED <<sandbox, run, timedOut, read, scratch, packet, group, piped, ended>>
         /\ run \in Run /\ pc = "launch" /\ pc' = "communicate"
         /\ at'[run]["child"] = "target"
         /\ \A m \in Run, x \in Process : m # run \/ x # "child" => at'[m][x] = at[m][x]
<1>1. run \in Run /\ "child" \in Process /\ "target" \in PlaceRange
  BY DEF Launch, ControlType, Process, PlaceRange, Places
<1>2. Step(run, "child", "target")
  BY DEF Launch
<1>3. /\ at'[run]["child"] = "target"
      /\ \A m \in Run, x \in Process : m # run \/ x # "child" => at'[m][x] = at[m][x]
  BY <1>1, <1>2, Stepped
<1> QED
  BY <1>1, <1>3 DEF Launch, GoTo

\* The end of the timeout.
LEMMA TimedOut ==
  ASSUME ControlType, ProcessType, Timeout
  PROVE  /\ UNCHANGED <<sandbox, run, read, scratch, packet, group, piped, ended>>
         /\ run \in Run /\ pc = "communicate" /\ pc' = "drain" /\ timedOut'
         /\ \A m \in Run, x \in Process :
              IF m = run /\ Alive(m, x) /\ x \in group[m] THEN at'[m][x] = "killed"
                                                          ELSE at'[m][x] = at[m][x]
BY Killing DEF Timeout, GoTo, ControlType

\* Every step keeps what is known of the processes that are alive.
LEMMA AliveStep ==
  ASSUME TypeInv, ProcessInv, WrittenInv, [Next]_vars
  PROVE  AliveInv'
<1> USE RunIs DEF TypeInv, ControlType, ProcessInv, WrittenInv, RecordType, GoTo, EndAs, scratch, packet, processes
<1>1. CASE Start
  <2> SUFFICES ASSUME NEW m \in Run, NEW x \in Process, Alive(m, x)'
               PROVE  /\ Past(m)' => LeftBehind(m, x)'
                      /\ m = run' /\ pc' \notin {"idle", "communicate", "drain"} => x \notin piped'[m]
                      /\ m = run' /\ pc' # "idle" /\ timedOut' => x \notin group'[m]
    BY DEF AliveInv
  <2> QED
    BY <1>1 DEF Start, AliveInv, Past, LeftBehind, Alive, ChildInv, Places
<1>2. CASE Clear
  <2> SUFFICES ASSUME NEW m \in Run, NEW x \in Process, Alive(m, x)'
               PROVE  /\ Past(m)' => LeftBehind(m, x)'
                      /\ m = run' /\ pc' \notin {"idle", "communicate", "drain"} => x \notin piped'[m]
                      /\ m = run' /\ pc' # "idle" /\ timedOut' => x \notin group'[m]
    BY DEF AliveInv
  <2> QED
    BY <1>2 DEF Clear, AliveInv, Past, LeftBehind, Alive, ChildInv
<1>3. CASE Fail
  <2> SUFFICES ASSUME NEW m \in Run, NEW x \in Process, Alive(m, x)'
               PROVE  /\ Past(m)' => LeftBehind(m, x)'
                      /\ m = run' /\ pc' \notin {"idle", "communicate", "drain"} => x \notin piped'[m]
                      /\ m = run' /\ pc' # "idle" /\ timedOut' => x \notin group'[m]
    BY DEF AliveInv
  <2> QED
    BY <1>3 DEF Fail, AliveInv, Past, LeftBehind, Alive, ChildInv
<1>4. CASE Launch
  <2> SUFFICES ASSUME NEW m \in Run, NEW x \in Process, Alive(m, x)'
               PROVE  /\ Past(m)' => LeftBehind(m, x)'
                      /\ m = run' /\ pc' \notin {"idle", "communicate", "drain"} => x \notin piped'[m]
                      /\ m = run' /\ pc' # "idle" /\ timedOut' => x \notin group'[m]
    BY DEF AliveInv
  <2> QED
    BY <1>4, Launched DEF AliveInv, Past, LeftBehind, Alive, ChildInv, Places
<1>5. CASE Communicate
  <2> SUFFICES ASSUME NEW m \in Run, NEW x \in Process, Alive(m, x)'
               PROVE  /\ Past(m)' => LeftBehind(m, x)'
                      /\ m = run' /\ pc' \notin {"idle", "communicate", "drain"} => x \notin piped'[m]
                      /\ m = run' /\ pc' # "idle" /\ timedOut' => x \notin group'[m]
    BY DEF AliveInv
  <2> QED
    BY <1>5 DEF Communicate, PipeClosed, AliveInv, Past, LeftBehind, Alive, ChildInv
<1>6. CASE Timeout
  <2> SUFFICES ASSUME NEW m \in Run, NEW x \in Process, Alive(m, x)'
               PROVE  /\ Past(m)' => LeftBehind(m, x)'
                      /\ m = run' /\ pc' \notin {"idle", "communicate", "drain"} => x \notin piped'[m]
                      /\ m = run' /\ pc' # "idle" /\ timedOut' => x \notin group'[m]
    BY DEF AliveInv
  <2> QED
    BY <1>6, TimedOut DEF AliveInv, Past, LeftBehind, Alive, ChildInv, Places
<1>7. CASE Drain
  <2> SUFFICES ASSUME NEW m \in Run, NEW x \in Process, Alive(m, x)'
               PROVE  /\ Past(m)' => LeftBehind(m, x)'
                      /\ m = run' /\ pc' \notin {"idle", "communicate", "drain"} => x \notin piped'[m]
                      /\ m = run' /\ pc' # "idle" /\ timedOut' => x \notin group'[m]
    BY DEF AliveInv
  <2> QED
    BY <1>7 DEF Drain, PipeClosed, AliveInv, Past, LeftBehind, Alive, ChildInv
<1>8. CASE WriteLog
  <2> SUFFICES ASSUME NEW m \in Run, NEW x \in Process, Alive(m, x)'
               PROVE  /\ Past(m)' => LeftBehind(m, x)'
                      /\ m = run' /\ pc' \notin {"idle", "communicate", "drain"} => x \notin piped'[m]
                      /\ m = run' /\ pc' # "idle" /\ timedOut' => x \notin group'[m]
    BY DEF AliveInv
  <2> QED
    BY <1>8 DEF WriteLog, AliveInv, Past, LeftBehind, Alive, ChildInv
<1>9. CASE Judge
  <2> SUFFICES ASSUME NEW m \in Run, NEW x \in Process, Alive(m, x)'
               PROVE  /\ Past(m)' => LeftBehind(m, x)'
                      /\ m = run' /\ pc' \notin {"idle", "communicate", "drain"} => x \notin piped'[m]
                      /\ m = run' /\ pc' # "idle" /\ timedOut' => x \notin group'[m]
    BY DEF AliveInv
  <2> QED
    BY <1>9 DEF Judge, AliveInv, Past, LeftBehind, Alive, ChildInv
<1>10. CASE CopyNatives
  <2> SUFFICES ASSUME NEW m \in Run, NEW x \in Process, Alive(m, x)'
               PROVE  /\ Past(m)' => LeftBehind(m, x)'
                      /\ m = run' /\ pc' \notin {"idle", "communicate", "drain"} => x \notin piped'[m]
                      /\ m = run' /\ pc' # "idle" /\ timedOut' => x \notin group'[m]
    BY DEF AliveInv
  <2> QED
    BY <1>10 DEF CopyNatives, AliveInv, Past, LeftBehind, Alive, ChildInv
<1>11. CASE OpenSummary
  <2> SUFFICES ASSUME NEW m \in Run, NEW x \in Process, Alive(m, x)'
               PROVE  /\ Past(m)' => LeftBehind(m, x)'
                      /\ m = run' /\ pc' \notin {"idle", "communicate", "drain"} => x \notin piped'[m]
                      /\ m = run' /\ pc' # "idle" /\ timedOut' => x \notin group'[m]
    BY DEF AliveInv
  <2> QED
    BY <1>11 DEF OpenSummary, AliveInv, Past, LeftBehind, Alive, ChildInv
<1>12. CASE WriteSummary
  <2> SUFFICES ASSUME NEW m \in Run, NEW x \in Process, Alive(m, x)'
               PROVE  /\ Past(m)' => LeftBehind(m, x)'
                      /\ m = run' /\ pc' \notin {"idle", "communicate", "drain"} => x \notin piped'[m]
                      /\ m = run' /\ pc' # "idle" /\ timedOut' => x \notin group'[m]
    BY DEF AliveInv
  <2> QED
    BY <1>12 DEF WriteSummary, AliveInv, Past, LeftBehind, Alive, ChildInv
<1>13. CASE Record
  <2> SUFFICES ASSUME NEW m \in Run, NEW x \in Process, Alive(m, x)'
               PROVE  /\ Past(m)' => LeftBehind(m, x)'
                      /\ m = run' /\ pc' \notin {"idle", "communicate", "drain"} => x \notin piped'[m]
                      /\ m = run' /\ pc' # "idle" /\ timedOut' => x \notin group'[m]
    BY DEF AliveInv
  <2> QED
    BY <1>13 DEF Record, Status, AliveInv, Past, LeftBehind, Alive, ChildInv
<1>14. CASE Killed
  <2> SUFFICES ASSUME NEW m \in Run, NEW x \in Process, Alive(m, x)'
               PROVE  /\ Past(m)' => LeftBehind(m, x)'
                      /\ m = run' /\ pc' \notin {"idle", "communicate", "drain"} => x \notin piped'[m]
                      /\ m = run' /\ pc' # "idle" /\ timedOut' => x \notin group'[m]
    BY DEF AliveInv
  <2> QED
    BY <1>14 DEF Killed, AliveInv, Past, LeftBehind, Alive, ChildInv
<1>15. ASSUME NEW n \in Run, NEW q \in Process, ProcessStep(n, q)
      PROVE  AliveInv'
  <2> SUFFICES ASSUME NEW m \in Run, NEW x \in Process, Alive(m, x)'
               PROVE  /\ Past(m)' => LeftBehind(m, x)'
                      /\ m = run' /\ pc' \notin {"idle", "communicate", "drain"} => x \notin piped'[m]
                      /\ m = run' /\ pc' # "idle" /\ timedOut' => x \notin group'[m]
    BY DEF AliveInv
  <2> QED
    BY <1>15, Moves DEF AliveInv, Past, LeftBehind, Alive
<1>16. ASSUME NEW n \in Run, NEW p \in Process, NEW q \in Process, Spawn(n, p, q)
      PROVE  AliveInv'
  <2> SUFFICES ASSUME NEW m \in Run, NEW x \in Process, Alive(m, x)'
               PROVE  /\ Past(m)' => LeftBehind(m, x)'
                      /\ m = run' /\ pc' \notin {"idle", "communicate", "drain"} => x \notin piped'[m]
                      /\ m = run' /\ pc' # "idle" /\ timedOut' => x \notin group'[m]
    BY DEF AliveInv
  <2> QED
    BY <1>16, Spawned DEF AliveInv, Past, LeftBehind, Alive, UnstartedInv
<1>17. CASE UNCHANGED vars
  <2> SUFFICES ASSUME NEW m \in Run, NEW x \in Process, Alive(m, x)'
               PROVE  /\ Past(m)' => LeftBehind(m, x)'
                      /\ m = run' /\ pc' \notin {"idle", "communicate", "drain"} => x \notin piped'[m]
                      /\ m = run' /\ pc' # "idle" /\ timedOut' => x \notin group'[m]
    BY DEF AliveInv
  <2> QED
    BY <1>17 DEF vars, AliveInv, Past, LeftBehind, Alive
<1> QED
  BY <1>1, <1>2, <1>3, <1>4, <1>5, <1>6, <1>7, <1>8, <1>9, <1>10, <1>11, <1>12, <1>13,
    <1>14, <1>15, <1>16, <1>17 DEF Next, Proceed

\* A process belongs nowhere until it is started.
LEMMA UnstartedStep ==
  ASSUME TypeInv, UnstartedInv, [Next]_vars
  PROVE  UnstartedInv'
<1> USE DEF TypeInv, processes
<1>1. CASE Start
  BY <1>1 DEF Start, UnstartedInv
<1>2. CASE Clear
  BY <1>2 DEF Clear, UnstartedInv
<1>3. CASE Fail
  BY <1>3 DEF Fail, UnstartedInv
<1>4. CASE Launch
  BY <1>4, Launched, StartedAssumption DEF UnstartedInv, Process
<1>5. CASE Communicate
  BY <1>5 DEF Communicate, UnstartedInv
<1>6. CASE Timeout
  BY <1>6, TimedOut DEF UnstartedInv, Process
<1>7. CASE Drain
  BY <1>7 DEF Drain, UnstartedInv
<1>8. CASE WriteLog
  BY <1>8 DEF WriteLog, UnstartedInv
<1>9. CASE Judge
  BY <1>9 DEF Judge, UnstartedInv
<1>10. CASE CopyNatives
  BY <1>10 DEF CopyNatives, UnstartedInv
<1>11. CASE OpenSummary
  BY <1>11 DEF OpenSummary, UnstartedInv
<1>12. CASE WriteSummary
  BY <1>12 DEF WriteSummary, UnstartedInv
<1>13. CASE Record
  BY <1>13 DEF Record, Status, UnstartedInv
<1>14. CASE Killed
  BY <1>14 DEF Killed, UnstartedInv
<1>15. ASSUME NEW n \in Run, NEW q \in Process, ProcessStep(n, q)
      PROVE  UnstartedInv'
  <2>1. ASSUME NEW m \in Run, NEW x \in Started, at'[m][x] = "none"
        PROVE  at[m][x] = "none" /\ group' = group /\ piped' = piped
    BY <1>15, <2>1, Moves DEF Process
  <2> QED
    BY <2>1 DEF UnstartedInv
<1>16. ASSUME NEW n \in Run, NEW p \in Process, NEW q \in Process, Spawn(n, p, q)
      PROVE  UnstartedInv'
  <2>1. ASSUME NEW m \in Run, NEW x \in Started, at'[m][x] = "none"
        PROVE  x \notin group'[m] /\ x \notin piped'[m]
    <3>1. m # n \/ x # q
      BY <1>16, <2>1, Spawned
    <3>2. x \in Process
      BY DEF Process
    <3>3. /\ at[m][x] = "none"
          /\ x \in piped'[m] <=> x \in piped[m]
          /\ x \in group'[m] <=> x \in group[m]
      BY <1>16, <2>1, <3>1, <3>2, Spawned
    <3> QED
      BY <3>3 DEF UnstartedInv
  <2> QED
    BY <2>1 DEF UnstartedInv
<1>17. CASE UNCHANGED vars
  BY <1>17 DEF vars, UnstartedInv
<1> QED
  BY <1>1, <1>2, <1>3, <1>4, <1>5, <1>6, <1>7, <1>8, <1>9, <1>10, <1>11, <1>12, <1>13,
    <1>14, <1>15, <1>16, <1>17 DEF Next, Proceed

\* Every step keeps what a command knows of its child.
LEMMA ChildStep ==
  ASSUME TypeInv, TypeInv', ProcessInv, [Next]_vars
  PROVE  ChildInv'
<1> USE RunIs DEF TypeInv, ControlType, ProcessInv, Measuring, GoTo, EndAs, scratch, packet, processes
<1>1. CASE Start
  BY <1>1 DEF Start, ChildInv, PolicyInv
<1>2. CASE Clear
  BY <1>2 DEF Clear, ChildInv
<1>3. CASE Fail
  BY <1>3 DEF Fail, ChildInv
<1>4. CASE Launch
  <2>1. "child" \in Process /\ "target" \in Places
    BY DEF Process, Places
  <2> QED
    BY <1>4, <2>1, Launched DEF ChildInv
<1>5. CASE Communicate
  BY <1>5 DEF Communicate, Alive, ChildInv
<1>6. CASE Timeout
  <2>1. \A m \in Run, x \in Process : at[m][x] = "none" => at'[m][x] = "none"
    BY <1>6, TimedOut DEF Alive, Places
  <2> QED
    BY <1>6, <2>1, TimedOut DEF ChildInv
<1>7. CASE Drain
  BY <1>7 DEF Drain, ChildInv
<1>8. CASE WriteLog
  BY <1>8 DEF WriteLog, ChildInv
<1>9. CASE Judge
  BY <1>9 DEF Judge, ChildInv
<1>10. CASE CopyNatives
  BY <1>10 DEF CopyNatives, ChildInv
<1>11. CASE OpenSummary
  BY <1>11 DEF OpenSummary, ChildInv
<1>12. CASE WriteSummary
  BY <1>12 DEF WriteSummary, ChildInv
<1>13. CASE Record
  BY <1>13 DEF Record, Status, ChildInv
<1>14. CASE Killed
  BY <1>14 DEF Killed, ChildInv
<1>15. ASSUME NEW n \in Run, NEW q \in Process, ProcessStep(n, q)
      PROVE  ChildInv'
  <2>1. "child" \in Process /\ ~("none" \in Places) /\ \A x \in Exited : x \notin Places
    BY DEF Process, Places, Exited
  <2>2. /\ UNCHANGED <<run, pc, timedOut, group, piped>> /\ Alive(n, q)
        /\ q = "child" => at'[n][q] \in Places \cup Exited
        /\ \A m \in Run, x \in Process : m # n \/ x # q => at'[m][x] = at[m][x]
    BY <1>15, Moves
  <2> QED
    BY <2>1, <2>2 DEF ChildInv, Alive
<1>16. ASSUME NEW n \in Run, NEW p \in Process, NEW q \in Process, Spawn(n, p, q)
      PROVE  ChildInv'
  <2>1. "child" \in Process /\ q # "child" /\ ~("none" \in Places)
    BY <1>16, Spawned, StartedAssumption DEF Process, Places
  <2> QED
    BY <1>16, <2>1, Spawned DEF ChildInv, Alive
<1>17. CASE UNCHANGED vars
  BY <1>17 DEF vars, ChildInv
<1> QED
  BY <1>1, <1>2, <1>3, <1>4, <1>5, <1>6, <1>7, <1>8, <1>9, <1>10, <1>11, <1>12, <1>13,
    <1>14, <1>15, <1>16, <1>17 DEF Next, Proceed

\* Without a sandbox no step runs any code.
LEMMA PolicyStep ==
  ASSUME TypeInv, ProcessInv, [Next]_vars
  PROVE  PolicyInv'
<1> USE DEF TypeInv, ProcessInv, GoTo, EndAs, scratch, packet, processes
<1>1. CASE Start
  BY <1>1 DEF Start, PolicyInv
<1>2. CASE Clear
  BY <1>2 DEF Clear, PolicyInv
<1>3. CASE Fail
  BY <1>3 DEF Fail, PolicyInv
<1>4. CASE Launch
  BY <1>4, Launched DEF PolicyInv
<1>5. CASE Communicate
  BY <1>5 DEF Communicate, PolicyInv
<1>6. CASE Timeout
  BY <1>6, TimedOut DEF PolicyInv
<1>7. CASE Drain
  BY <1>7 DEF Drain, PolicyInv
<1>8. CASE WriteLog
  BY <1>8 DEF WriteLog, PolicyInv
<1>9. CASE Judge
  BY <1>9 DEF Judge, PolicyInv
<1>10. CASE CopyNatives
  BY <1>10 DEF CopyNatives, PolicyInv
<1>11. CASE OpenSummary
  BY <1>11 DEF OpenSummary, PolicyInv
<1>12. CASE WriteSummary
  BY <1>12 DEF WriteSummary, PolicyInv
<1>13. CASE Record
  BY <1>13 DEF Record, Status, PolicyInv
<1>14. CASE Killed
  BY <1>14 DEF Killed, PolicyInv
<1>15. ASSUME NEW n \in Run, NEW q \in Process, ProcessStep(n, q)
      PROVE  PolicyInv'
  BY <1>15, Moves DEF PolicyInv, Alive, Places
<1>16. ASSUME NEW n \in Run, NEW p \in Process, NEW q \in Process, Spawn(n, p, q)
      PROVE  PolicyInv'
  BY <1>16, Spawned DEF PolicyInv, Alive, Places
<1>17. CASE UNCHANGED vars
  BY <1>17 DEF vars, PolicyInv
<1> QED
  BY <1>1, <1>2, <1>3, <1>4, <1>5, <1>6, <1>7, <1>8, <1>9, <1>10, <1>11, <1>12, <1>13,
    <1>14, <1>15, <1>16, <1>17 DEF Next, Proceed

\* Every step keeps what is known of the processes.
LEMMA ProcessesStep ==
  ASSUME TypeInv, TypeInv', ProcessInv, WrittenInv, [Next]_vars
  PROVE  ProcessInv'
BY AliveStep, UnstartedStep, ChildStep, PolicyStep DEF ProcessInv
-----------------------------------------------------------------------------
\* Who has written something stays one who was started.
LEMMA WroteKept ==
  ASSUME Kept, NEW writer \in Writer, Wrote(writer)
  PROVE  Wrote(writer)'
BY DEF Kept, Wrote, Writer

\* What is by a process of a command, or left behind by an earlier one, stays so.
LEMMA MixedKept ==
  ASSUME ControlType, Kept, NEW n \in Run, n <= run, NEW writer \in Writer, Wrote(writer),
         Mixed(n, writer)
  PROVE  Mixed(n, writer)'
<1>1. CASE writer[1] = n
  BY <1>1 DEF Mixed
<1>2. CASE writer[1] \in 1 .. n - 1 /\ LeftBehind(writer[1], writer[2])
  <2>1. writer[1] \in Run /\ writer[1] # run /\ writer[2] \in Process
    BY <1>2, RunIs, RunsAssumption DEF Run, Writer
  <2> QED
    BY <1>2, <2>1 DEF Mixed, LeftBehind, Kept, Wrote
<1> QED
  BY <1>1, <1>2 DEF Mixed

\* A process that is alive is one of the running command, or left behind.
LEMMA AliveMixed ==
  ASSUME ControlType, AliveInv, ChildInv, pc # "idle",
         NEW n \in Run, NEW q \in Process, Alive(n, q)
  PROVE  Mixed(run, <<n, q>>)
<1>1. n <= run
  BY RunIs DEF ChildInv, Alive, Places
<1>2. n < run => n \in 1 .. run - 1
  BY RunIs, RunsAssumption DEF Run
<1> QED
  BY <1>1, <1>2, RunIs DEF AliveInv, Past, Mixed

\* Whoever the running command finds rightly in the scratch files, it still may.
LEMMA RunMixedKept ==
  ASSUME ControlType, Kept, run' = run, pc # "idle", NEW writer \in Writer, Wrote(writer),
         Mixed(run, writer)
  PROVE  Mixed(run, writer)'
<1>1. PICK n \in Run : n = run
  BY DEF ControlType
<1>2. n <= run /\ Mixed(n, writer)
  BY <1>1, RunIs
<1>3. Mixed(n, writer)'
  BY <1>1, <1>2, MixedKept
<1> QED
  BY <1>1, <1>3 DEF Mixed

\* Every step keeps the writers among those that were started.
LEMMA WriterStep ==
  ASSUME TypeInv, TypeInv', WriterInv, [Next]_vars
  PROVE  WriterInv'
<1> USE DEF GoTo, EndAs, scratch, packet, processes
<1>a. Kept
  BY Keeps DEF TypeInv
<1>b. /\ result.by \in Writer /\ read.by \in Writer /\ summary.from \in Writer
      /\ \A writer \in native \cup shown : writer \in Writer
  BY DEF TypeInv, FileType, Results
<1>c. \A writer \in Writer : Wrote(writer) => Wrote(writer)'
  BY <1>a, WroteKept
<1>d. /\ Wrote(result.by)' \/ result'.by # result.by
      /\ Wrote(read.by)' \/ read'.by # read.by
      /\ Wrote(summary.from)' \/ summary'.from # summary.from
      /\ \A writer \in native \cup shown : Wrote(writer)'
  BY <1>b, <1>c DEF WriterInv, Wrote
<1>1. CASE Start
  <2>1. NoResult.by = Nobody /\ Nobody[1] \notin Run
    BY RunIs, RunsAssumption DEF NoResult, Nobody, Run
  <2> QED
    BY <1>1, <1>d, <2>1 DEF Start, WriterInv, Wrote
<1>2. CASE Clear
  <2>1. NoResult.by = Nobody /\ Nobody[1] \notin Run
    BY RunIs, RunsAssumption DEF NoResult, Nobody, Run
  <2> QED
    BY <1>2, <1>d, <2>1 DEF Clear, WriterInv, Wrote
<1>3. CASE Fail
  BY <1>3, <1>d DEF Fail, WriterInv, Wrote
<1>4. CASE Launch
  BY <1>4, <1>d DEF Launch, WriterInv, Wrote
<1>5. CASE Communicate
  BY <1>5, <1>d DEF Communicate, WriterInv, Wrote
<1>6. CASE Timeout
  BY <1>6, <1>d DEF Timeout, WriterInv, Wrote
<1>7. CASE Drain
  BY <1>7, <1>d DEF Drain, WriterInv, Wrote
<1>8. CASE WriteLog
  BY <1>8, <1>d DEF WriteLog, WriterInv, Wrote
<1>9. CASE Judge
  BY <1>9, <1>b, <1>c, <1>d DEF Judge, WriterInv, Wrote
<1>10. CASE CopyNatives
  BY <1>10, <1>d DEF CopyNatives, WriterInv, Wrote
<1>11. CASE OpenSummary
  <2>1. summary'.from = summary.from
    BY <1>11 DEF OpenSummary, TypeInv, FileType
  <2> QED
    BY <1>11, <1>d, <2>1 DEF OpenSummary, WriterInv, Wrote
<1>12. CASE WriteSummary
  <2>1. NoResult.by = Nobody /\ Nobody[1] \notin Run
    BY RunIs, RunsAssumption DEF NoResult, Nobody, Run
  <2>2. summary'.from = read.by \/ summary'.from = Nobody
    BY <1>12 DEF WriteSummary
  <2> QED
    BY <1>12, <1>d, <2>1, <2>2 DEF WriteSummary, WriterInv, Wrote
<1>13. CASE Record
  BY <1>13, <1>d DEF Record, Status, WriterInv, Wrote
<1>14. CASE Killed
  BY <1>14, <1>d DEF Killed, WriterInv, Wrote
<1>15. ASSUME NEW n \in Run, NEW q \in Process, ProcessStep(n, q)
      PROVE  WriterInv'
  <2>1. \A writer \in {<<n, q>>} : Wrote(writer)'
    BY <1>15, Moves DEF TypeInv, Wrote
  <2>2. /\ UNCHANGED <<read, shown, summary>>
        /\ \/ result' = result \/ result'.by = <<n, q>>
           \/ result.state # "absent" /\ result'.by = result.by
        /\ native' \subseteq native \cup {<<n, q>>}
    BY <1>15, Moves DEF TypeInv
  <2> QED
    BY <1>d, <2>1, <2>2 DEF WriterInv, Wrote
<1>16. ASSUME NEW n \in Run, NEW p \in Process, NEW q \in Process, Spawn(n, p, q)
      PROVE  WriterInv'
  <2>1. UNCHANGED <<read, shown, summary, result, native>>
    BY <1>16, Spawned DEF TypeInv
  <2> QED
    BY <1>d, <2>1 DEF WriterInv, Wrote
<1>17. CASE UNCHANGED vars
  BY <1>17 DEF vars, WriterInv, Wrote
<1> QED
  BY <1>1, <1>2, <1>3, <1>4, <1>5, <1>6, <1>7, <1>8, <1>9, <1>10, <1>11, <1>12, <1>13,
    <1>14, <1>15, <1>16, <1>17 DEF Next, Proceed

\* Every step keeps what is known of the scratch files.
LEMMA ScratchStep ==
  ASSUME TypeInv, TypeInv', ProcessInv, WriterInv, ScratchInv, [Next]_vars
  PROVE  ScratchInv'
<1> USE DEF Cleared, Measuring, CommandPc, GoTo, EndAs, scratch, packet, processes
<1>a. Kept
  BY Keeps DEF TypeInv
<1>b. /\ result.by \in Writer /\ read.by \in Writer
      /\ \A writer \in native \cup shown : writer \in Writer
  BY DEF TypeInv, FileType, Results
<1>c. run' = run /\ pc # "idle" =>
        /\ Mixed(run, result.by) => Mixed(run, result.by)' \/ result'.by # result.by
        /\ Mixed(run, read.by) => Mixed(run, read.by)' \/ read'.by # read.by
        /\ \A writer \in native \cup shown : Mixed(run, writer) => Mixed(run, writer)'
  <2>1. ASSUME run' = run, pc # "idle", NEW writer \in Writer, Wrote(writer), Mixed(run, writer)
        PROVE  Mixed(run, writer)'
    BY <1>a, <2>1, RunMixedKept DEF TypeInv
  <2> QED
    BY <1>b, <2>1 DEF WriterInv, Mixed
<1>1. CASE Start
  BY <1>1 DEF Start, ScratchInv
<1>2. CASE Clear
  BY <1>2 DEF Clear, ScratchInv, NoResult
<1>3. CASE Fail
  BY <1>3 DEF Fail, ScratchInv
<1>4. CASE Launch
  BY <1>4, <1>c, Launched DEF ScratchInv, Mixed, TypeInv
<1>5. CASE Communicate
  BY <1>5, <1>c DEF Communicate, ScratchInv, Mixed
<1>6. CASE Timeout
  BY <1>6, <1>c, TimedOut DEF ScratchInv, Mixed, TypeInv
<1>7. CASE Drain
  BY <1>7, <1>c DEF Drain, ScratchInv, Mixed
<1>8. CASE WriteLog
  BY <1>8, <1>c DEF WriteLog, ScratchInv, Mixed
<1>9. CASE Judge
  BY <1>9, <1>c DEF Judge, ScratchInv, Mixed
<1>10. CASE CopyNatives
  BY <1>10, <1>c DEF CopyNatives, ScratchInv, Mixed
<1>11. CASE OpenSummary
  BY <1>11, <1>c DEF OpenSummary, ScratchInv, Mixed
<1>12. CASE WriteSummary
  BY <1>12, <1>c DEF WriteSummary, ScratchInv, Mixed
<1>13. CASE Record
  BY <1>13 DEF Record, ScratchInv
<1>14. CASE Killed
  BY <1>14 DEF Killed, ScratchInv
<1>15. ASSUME NEW n \in Run, NEW q \in Process, ProcessStep(n, q)
      PROVE  ScratchInv'
  <2> SUFFICES ASSUME pc # "idle"
               PROVE  ScratchInv'
    BY <1>15, Moves DEF ScratchInv, TypeInv
  <2>1. Mixed(run, <<n, q>>)
    BY <1>15, Moves, AliveMixed DEF TypeInv, ProcessInv
  <2>2. \A writer \in {<<n, q>>} : Mixed(run, writer)'
    <3>1. <<n, q>> \in Writer /\ Wrote(<<n, q>>)
      BY <1>15, WriterIs, Moves DEF Wrote, Alive, Places, TypeInv
    <3>2. run' = run
      BY <1>15, Moves DEF TypeInv
    <3> QED
      BY <1>a, <2>1, <3>1, <3>2, RunMixedKept DEF TypeInv, Mixed
  <2>3. /\ UNCHANGED <<run, pc, read, shown>>
        /\ \/ result' = result \/ result'.by = <<n, q>>
           \/ result.state # "absent" /\ result'.by = result.by
        /\ native' \subseteq native \cup {<<n, q>>}
    BY <1>15, Moves DEF TypeInv
  <2>4. pc \in Cleared => \A writer \in native' : Mixed(run, writer)'
    BY <1>c, <2>2, <2>3 DEF ScratchInv, Mixed
  <2>5. pc \in Cleared => result'.state = "absent" \/ Mixed(run, result.by)'
    BY <1>c, <2>2, <2>3 DEF ScratchInv, Mixed
  <2> QED
    BY <1>c, <2>3, <2>4, <2>5 DEF ScratchInv, Mixed
<1>16. ASSUME NEW n \in Run, NEW p \in Process, NEW q \in Process, Spawn(n, p, q)
      PROVE  ScratchInv'
  <2>1. UNCHANGED <<run, pc, read, shown, summary, result, native>>
    BY <1>16, Spawned DEF TypeInv
  <2> QED
    BY <1>c, <2>1 DEF ScratchInv, Mixed
<1>17. CASE UNCHANGED vars
  <2>1. UNCHANGED <<run, pc, read, shown, summary, result, native, ended, recorded, group, piped>>
    BY <1>17 DEF vars
  <2> QED
    BY <2>1 DEF ScratchInv, Mixed, LeftBehind
<1> QED
  BY <1>1, <1>2, <1>3, <1>4, <1>5, <1>6, <1>7, <1>8, <1>9, <1>10, <1>11, <1>12, <1>13,
    <1>14, <1>15, <1>16, <1>17 DEF Next, Proceed

-----------------------------------------------------------------------------
\* Every step keeps what is known of what is written.
LEMMA WrittenStep ==
  ASSUME TypeInv, TypeInv', WrittenInv, [Next]_vars
  PROVE  WrittenInv'
<1> USE RunIs DEF TypeInv, ControlType, RecordType, CommandPc, GoTo, EndAs, scratch, packet, processes
<1>1. CASE Start
  <2>1. summary.by \in Nat /\ run' = run + 1 /\ pc = "idle"
    BY <1>1, RunsAssumption DEF Start, FileType
  <2> QED
    BY <1>1, <2>1 DEF Start, WrittenInv
<1>2. CASE Clear
  BY <1>2 DEF Clear, WrittenInv
<1>3. CASE Fail
  BY <1>3 DEF Fail, WrittenInv
<1>4. CASE Launch
  BY <1>4 DEF Launch, WrittenInv
<1>5. CASE Communicate
  BY <1>5 DEF Communicate, WrittenInv
<1>6. CASE Timeout
  BY <1>6 DEF Timeout, WrittenInv
<1>7. CASE Drain
  BY <1>7 DEF Drain, WrittenInv
<1>8. CASE WriteLog
  BY <1>8 DEF WriteLog, WrittenInv
<1>9. CASE Judge
  BY <1>9 DEF Judge, WrittenInv
<1>10. CASE CopyNatives
  BY <1>10 DEF CopyNatives, WrittenInv
<1>11. CASE OpenSummary
  <2>1. summary'.by = summary.by /\ summary'.measured = summary.measured
    BY <1>11 DEF OpenSummary, FileType
  <2> QED
    BY <1>11, <2>1 DEF OpenSummary, WrittenInv
<1>12. CASE WriteSummary
  <2>1. summary'.by = run /\ (pc = "writeUnmeasured" => ~summary'.measured)
    BY <1>12 DEF WriteSummary
  <2> QED
    BY <1>12, <2>1 DEF WriteSummary, WrittenInv
<1>13. CASE Record
  BY <1>13 DEF Record, Status, WrittenInv
<1>14. CASE Killed
  BY <1>14 DEF Killed, WrittenInv
<1>15. ASSUME NEW n \in Run, NEW q \in Process, ProcessStep(n, q)
      PROVE  WrittenInv'
  BY <1>15, Moves DEF WrittenInv
<1>16. ASSUME NEW n \in Run, NEW p \in Process, NEW q \in Process, Spawn(n, p, q)
      PROVE  WrittenInv'
  BY <1>16, Spawned DEF WrittenInv
<1>17. CASE UNCHANGED vars
  BY <1>17 DEF vars, WrittenInv
<1> QED
  BY <1>1, <1>2, <1>3, <1>4, <1>5, <1>6, <1>7, <1>8, <1>9, <1>10, <1>11, <1>12, <1>13,
    <1>14, <1>15, <1>16, <1>17 DEF Next, Proceed

\* Every step keeps a claim backed.
LEMMA ClaimStep ==
  ASSUME TypeInv, TypeInv', ProcessInv, WriterInv, ScratchInv, WrittenInv, ClaimBacked, [Next]_vars
  PROVE  ClaimBacked'
<1> USE RunIs DEF GoTo, EndAs, scratch, packet, processes
<1>a. Kept
  BY Keeps DEF TypeInv
<1>b. ASSUME run' = run, summary'.state = "whole", summary'.measured,
             summary'.by = summary.by, summary'.from = summary.from, summary.state = "whole",
             summary.measured
      PROVE  /\ Mixed(summary.by, summary.from)'
             /\ run = summary.by => \A writer \in shown : Mixed(summary.by, writer)'
  <2>1. PICK n \in Run : n = summary.by /\ n <= run
    BY <1>b DEF WrittenInv
  <2>2. ASSUME NEW writer \in Writer, Wrote(writer), Mixed(n, writer)
        PROVE  Mixed(n, writer)'
    BY <1>a, <2>1, <2>2, MixedKept DEF TypeInv
  <2>3. summary.from \in Writer /\ Wrote(summary.from)
        /\ \A writer \in shown : writer \in Writer /\ Wrote(writer)
    BY DEF TypeInv, FileType, WriterInv
  <2>4. Mixed(n, summary.from) /\ (run = n => \A writer \in shown : Mixed(n, writer))
    BY <1>b, <2>1 DEF ClaimBacked
  <2> QED
    BY <1>b, <2>1, <2>2, <2>3, <2>4 DEF Mixed
<1>c. summary.measured => summary.by \in Run /\ summary.by <= run
  BY DEF WrittenInv
<1>d. "child" \in Process /\ (pc # "idle" => run \in Run)
  BY DEF Process, TypeInv, ControlType
<1>1. CASE Start
  <2> SUFFICES ASSUME summary'.state = "whole", summary'.measured
               PROVE  ClaimBacked'
    BY DEF ClaimBacked
  <2>1. run' # summary.by /\ UNCHANGED <<summary, at, group, piped, ended, recorded>>
    BY <1>1, <1>c DEF Start, TypeInv
  <2> QED
    BY <2>1 DEF ClaimBacked, Mixed, LeftBehind
<1>2. CASE Clear
  <2> SUFFICES ASSUME summary'.state = "whole", summary'.measured
               PROVE  ClaimBacked'
    BY DEF ClaimBacked
  <2> QED
    BY <1>2, <1>b, <1>c DEF Clear, ClaimBacked
<1>3. CASE Fail
  <2> SUFFICES ASSUME summary'.state = "whole", summary'.measured
               PROVE  ClaimBacked'
    BY DEF ClaimBacked
  <2> QED
    BY <1>3, <1>b, <1>c DEF Fail, ClaimBacked
<1>4. CASE Launch
  <2> SUFFICES ASSUME summary'.state = "whole", summary'.measured
               PROVE  ClaimBacked'
    BY DEF ClaimBacked
  <2>1. UNCHANGED <<run, summary, shown, recorded>> /\ at'[summary.by]["child"] \in Exited
    BY <1>4, <1>c, <1>d, Launched DEF TypeInv, ProcessInv, ChildInv, ClaimBacked, Alive, Places, Exited
  <2> QED
    BY <1>b, <2>1 DEF ClaimBacked
<1>5. CASE Communicate
  <2> SUFFICES ASSUME summary'.state = "whole", summary'.measured
               PROVE  ClaimBacked'
    BY DEF ClaimBacked
  <2> QED
    BY <1>5, <1>b, <1>c DEF Communicate, ClaimBacked
<1>6. CASE Timeout
  <2> SUFFICES ASSUME summary'.state = "whole", summary'.measured
               PROVE  ClaimBacked'
    BY DEF ClaimBacked
  <2>1. UNCHANGED <<run, summary, shown, recorded>> /\ at'[summary.by]["child"] \in Exited
    BY <1>6, <1>c, <1>d, TimedOut DEF TypeInv, ProcessInv, ChildInv, ClaimBacked, Alive, Places, Exited
  <2> QED
    BY <1>b, <2>1 DEF ClaimBacked
<1>7. CASE Drain
  <2> SUFFICES ASSUME summary'.state = "whole", summary'.measured
               PROVE  ClaimBacked'
    BY DEF ClaimBacked
  <2> QED
    BY <1>7, <1>b, <1>c DEF Drain, ClaimBacked
<1>8. CASE WriteLog
  <2> SUFFICES ASSUME summary'.state = "whole", summary'.measured
               PROVE  ClaimBacked'
    BY DEF ClaimBacked
  <2> QED
    BY <1>8, <1>b, <1>c DEF WriteLog, ClaimBacked
<1>9. CASE Judge
  <2> SUFFICES ASSUME summary'.state = "whole", summary'.measured
               PROVE  ClaimBacked'
    BY DEF ClaimBacked
  <2> QED
    BY <1>9, <1>b, <1>c DEF Judge, ClaimBacked
<1>10. CASE CopyNatives
  <2> SUFFICES ASSUME summary'.state = "whole", summary'.measured
               PROVE  ClaimBacked'
    BY DEF ClaimBacked
  <2>1. UNCHANGED <<run, summary, recorded, at>> /\ pc = "copyNatives"
    BY <1>10 DEF CopyNatives
  <2>2. summary.by < run /\ summary.by \in Nat /\ run \in Nat
    BY <1>c, <2>1 DEF WrittenInv, TypeInv
  <2>3. summary.by # run
    BY <2>2
  <2> QED
    BY <1>b, <2>1, <2>3 DEF ClaimBacked
<1>11. CASE OpenSummary
  <2> SUFFICES ASSUME summary'.state = "whole", summary'.measured
               PROVE  ClaimBacked'
    BY DEF ClaimBacked
  <2> QED
    BY <1>11, <1>b, <1>c DEF OpenSummary, ClaimBacked
<1>12. CASE WriteSummary
  <2> SUFFICES ASSUME summary'.state = "whole", summary'.measured
               PROVE  ClaimBacked'
    BY DEF ClaimBacked
  <2>1. /\ pc = "writeMeasured" /\ summary'.by = run /\ summary'.from = read.by
        /\ UNCHANGED <<run, shown, recorded, ended, at, group, piped>>
    BY <1>12 DEF WriteSummary
  <2>2. at[run]["child"] \in Exited /\ recorded[run] # "timeout"
    BY <1>d, <2>1 DEF ProcessInv, ChildInv, Measuring, WrittenInv
  <2>3. Mixed(run, read.by) /\ \A writer \in shown : Mixed(run, writer)
    BY <2>1 DEF ScratchInv, Measuring
  <2> QED
    BY <2>1, <2>2, <2>3 DEF ClaimBacked, Mixed, LeftBehind
<1>13. CASE Record
  <2> SUFFICES ASSUME summary'.state = "whole", summary'.measured
               PROVE  ClaimBacked'
    BY DEF ClaimBacked
  <2>1. UNCHANGED <<run, shown, summary, at>> /\ pc \in {"recordMeasured", "recordUnmeasured"}
    BY <1>13 DEF Record
  <2>2. recorded'[summary.by] # "timeout"
    <3>1. CASE summary.by = run
      <4>1. pc = "recordMeasured" /\ ~timedOut /\ recorded[run] # "timeout"
        BY <1>d, <2>1, <3>1 DEF WrittenInv, ProcessInv, ChildInv, Measuring
      <4> QED
        BY <1>13, <1>d, <3>1, <4>1 DEF Record, Status, TypeInv, RecordType
    <3>2. CASE summary.by # run
      BY <1>13, <1>a, <1>c, <2>1, <3>2 DEF Kept, ClaimBacked
    <3> QED
      BY <3>1, <3>2
  <2> QED
    BY <1>b, <2>1, <2>2 DEF ClaimBacked
<1>14. CASE Killed
  <2> SUFFICES ASSUME summary'.state = "whole", summary'.measured
               PROVE  ClaimBacked'
    BY DEF ClaimBacked
  <2> QED
    BY <1>14, <1>b, <1>c DEF Killed, ClaimBacked
<1>15. ASSUME NEW n \in Run, NEW q \in Process, ProcessStep(n, q)
      PROVE  ClaimBacked'
  <2> SUFFICES ASSUME summary'.state = "whole", summary'.measured
               PROVE  ClaimBacked'
    BY DEF ClaimBacked
  <2>1. /\ UNCHANGED <<run, summary, shown, recorded>> /\ at[n][q] \in Places
        /\ \A y \in Run, x \in Process : y # n \/ x # q => at'[y][x] = at[y][x]
    BY <1>15, Moves DEF Alive, TypeInv
  <2>2. at[summary.by]["child"] \in Exited /\ \A x \in Exited : x \notin Places
    BY <2>1 DEF ClaimBacked, Exited, Places
  <2>3. at'[summary.by]["child"] \in Exited
    BY <1>c, <1>d, <2>1, <2>2
  <2> QED
    BY <1>b, <2>1, <2>3 DEF ClaimBacked
<1>16. ASSUME NEW n \in Run, NEW p \in Process, NEW q \in Process, Spawn(n, p, q)
      PROVE  ClaimBacked'
  <2> SUFFICES ASSUME summary'.state = "whole", summary'.measured
               PROVE  ClaimBacked'
    BY DEF ClaimBacked
  <2>1. /\ UNCHANGED <<run, summary, shown, recorded>> /\ q # "child"
        /\ \A y \in Run, x \in Process : y # n \/ x # q => at'[y][x] = at[y][x]
    BY <1>16, Spawned, StartedAssumption DEF TypeInv
  <2>2. at[summary.by]["child"] \in Exited
    BY <2>1 DEF ClaimBacked
  <2>3. at'[summary.by]["child"] \in Exited
    BY <1>c, <1>d, <2>1, <2>2
  <2> QED
    BY <1>b, <2>1, <2>3 DEF ClaimBacked
<1>17. CASE UNCHANGED vars
  <2> SUFFICES ASSUME summary'.state = "whole", summary'.measured
               PROVE  ClaimBacked'
    BY DEF ClaimBacked
  <2> QED
    BY <1>17, <1>b, <1>c DEF vars, ClaimBacked
<1> QED
  BY <1>1, <1>2, <1>3, <1>4, <1>5, <1>6, <1>7, <1>8, <1>9, <1>10, <1>11, <1>12, <1>13,
    <1>14, <1>15, <1>16, <1>17 DEF Next, Proceed

\* Every step keeps what the records tell.
LEMMA RecordStep ==
  ASSUME TypeInv, TypeInv', ProcessInv, WrittenInv, RecordTells, [Next]_vars
  PROVE  RecordTells'
<1> USE RunIs DEF TypeInv, ControlType, RecordType, CommandPc, GoTo, EndAs, scratch, packet, processes
<1>1. CASE Start
  BY <1>1 DEF Start, RecordTells, Alive
<1>2. CASE Clear
  BY <1>2 DEF Clear, RecordTells, Alive
<1>3. CASE Fail
  BY <1>3 DEF Fail, RecordTells, Alive
<1>4. CASE Launch
  <2>1. recorded[run] = "none" /\ "child" \in Process
    BY <1>4, Launched DEF WrittenInv, Process
  <2>2. /\ UNCHANGED <<group, recorded, ended>> /\ \A m \in Run : group[m] \subseteq Process
        /\ \A m \in Run, x \in Process : m # run => at'[m][x] = at[m][x]
    BY <1>4, Launched DEF ProcessType
  <2>3. ended[run] = "none"
    BY <1>4, Launched
  <2> QED
    BY <2>1, <2>2, <2>3 DEF RecordTells, Alive
<1>5. CASE Communicate
  BY <1>5 DEF Communicate, RecordTells, Alive
<1>6. CASE Timeout
  <2>1. recorded[run] = "none" /\ "child" \in Process
    BY <1>6, TimedOut DEF WrittenInv, Process
  <2> QED
    BY <1>6, <2>1, TimedOut DEF RecordTells, Alive, ProcessType
<1>7. CASE Drain
  BY <1>7 DEF Drain, RecordTells, Alive
<1>8. CASE WriteLog
  BY <1>8 DEF WriteLog, RecordTells, Alive
<1>9. CASE Judge
  BY <1>9 DEF Judge, RecordTells, Alive
<1>10. CASE CopyNatives
  BY <1>10 DEF CopyNatives, RecordTells, Alive
<1>11. CASE OpenSummary
  BY <1>11 DEF OpenSummary, RecordTells, Alive
<1>12. CASE WriteSummary
  BY <1>12 DEF WriteSummary, RecordTells, Alive
<1>13. CASE Record
  <2> SUFFICES ASSUME NEW m \in Run
               PROVE  /\ recorded'[m] = "succeeded" => at'[m]["child"] = "exit0"
                      /\ recorded'[m] = "timeout" => \A x \in group'[m] : ~Alive(m, x)'
                      /\ recorded'[m] = "blocked_by_policy" => \A x \in Process : at'[m][x] = "none"
                      /\ ended'[m] = "reported" => recorded'[m] # "none"
    BY DEF RecordTells
  <2>1. CASE m = run
    <3>1. /\ UNCHANGED <<run, at, group>> /\ pc \in {"recordMeasured", "recordUnmeasured"}
          /\ run \in Run
      BY <1>13 DEF Record
    <3>2. recorded[run] = "none"
      BY <3>1 DEF WrittenInv
    <3>3. \/ recorded'[run] = Status /\ ended'[run] = "reported"
          \/ recorded'[run] = "none" /\ ended'[run] = "error"
      BY <1>13, <3>1, <3>2 DEF Record
    <3>4. Status = "succeeded" => at[run]["child"] = "exit0"
      BY DEF Status
    <3>5. Status = "timeout" => \A x \in group[run] : ~Alive(run, x)
      <4>1. Status = "timeout" => timedOut
        BY DEF Status
      <4> QED
        BY <3>1, <4>1 DEF ProcessInv, AliveInv, ProcessType
    <3>6. Status = "blocked_by_policy" => \A x \in Process : at[run][x] = "none"
      BY <3>1 DEF Status, ProcessInv, PolicyInv
    <3>7. Status # "none"
      BY DEF Status
    <3> QED
      BY <2>1, <3>1, <3>3, <3>4, <3>5, <3>6, <3>7 DEF Alive
  <2>2. CASE m # run
    <3>1. recorded'[m] = recorded[m] /\ ended'[m] = ended[m] /\ at' = at /\ group' = group
      BY <1>13, <2>2 DEF Record
    <3> QED
      BY <3>1 DEF RecordTells, Alive
  <2> QED
    BY <2>1, <2>2
<1>14. CASE Killed
  BY <1>14 DEF Killed, RecordTells, Alive
<1>15. ASSUME NEW n \in Run, NEW q \in Process, ProcessStep(n, q)
      PROVE  RecordTells'
  <2> SUFFICES ASSUME NEW m \in Run
               PROVE  /\ recorded'[m] = "succeeded" => at'[m]["child"] = "exit0"
                      /\ recorded'[m] = "timeout" => \A x \in group'[m] : ~Alive(m, x)'
                      /\ recorded'[m] = "blocked_by_policy" => \A x \in Process : at'[m][x] = "none"
                      /\ ended'[m] = "reported" => recorded'[m] # "none"
    BY DEF RecordTells
  <2>1. /\ UNCHANGED <<recorded, ended, group>> /\ at[n][q] \in Places
        /\ \A y \in Run, x \in Process : y # n \/ x # q => at'[y][x] = at[y][x]
    BY <1>15, Moves DEF Alive
  <2>2. "child" \in Process /\ ~("none" \in Places) /\ ~("exit0" \in Places) /\ group[m] \subseteq Process
    BY DEF Process, Places, ProcessType
  <2> QED
    BY <2>1, <2>2 DEF RecordTells, Alive
<1>16. ASSUME NEW n \in Run, NEW p \in Process, NEW q \in Process, Spawn(n, p, q)
      PROVE  RecordTells'
  <2> SUFFICES ASSUME NEW m \in Run
               PROVE  /\ recorded'[m] = "succeeded" => at'[m]["child"] = "exit0"
                      /\ recorded'[m] = "timeout" => \A x \in group'[m] : ~Alive(m, x)'
                      /\ recorded'[m] = "blocked_by_policy" => \A x \in Process : at'[m][x] = "none"
                      /\ ended'[m] = "reported" => recorded'[m] # "none"
    BY DEF RecordTells
  <2>1. /\ UNCHANGED <<recorded, ended>> /\ at[n][p] \in Places /\ at[n][q] = "none" /\ q # "child"
        /\ \A y \in Run, x \in Process : y # n \/ x # q =>
              at'[y][x] = at[y][x] /\ (x \in group'[y] <=> x \in group[y])
        /\ q \in group'[n] => p \in group[n]
    BY <1>16, Spawned, StartedAssumption DEF Alive, ProcessInv, UnstartedInv
  <2>2. "child" \in Process /\ ~("none" \in Places) /\ group'[m] \subseteq Process
    BY DEF Process, Places, ProcessType
  <2> QED
    BY <2>1, <2>2 DEF RecordTells, Alive
<1>17. CASE UNCHANGED vars
  BY <1>17 DEF vars, RecordTells, Alive
<1> QED
  BY <1>1, <1>2, <1>3, <1>4, <1>5, <1>6, <1>7, <1>8, <1>9, <1>10, <1>11, <1>12, <1>13,
    <1>14, <1>15, <1>16, <1>17 DEF Next, Proceed

-----------------------------------------------------------------------------
\* At first nothing has been started and nothing is written.
LEMMA InitInv ==
  ASSUME Init
  PROVE  IInv
<1>1. \A n \in Run : n > 0
  BY RunsAssumption DEF Run
<1>2. ControlType /\ RecordType
  <2>1. 0 \in 0..MaxRuns /\ Run \subseteq Nat
    BY RunsAssumption DEF Run
  <2>2. \A n \in Run : ended[n] = "none" /\ n > run
    BY <1>1 DEF Init
  <2>3. /\ ended \in [Run -> {"none", "reported", "error", "killed"}]
        /\ recorded \in [Run -> {"none", "blocked_by_policy", "timeout", "succeeded", "failed"}]
    BY DEF Init
  <2> QED
    BY <2>1, <2>2, <2>3 DEF Init, ControlType, RecordType
<1>3. ProcessType
  BY DEF Init, ProcessType, PlaceRange, Process
<1>4. FileType
  <2>1. 0 \in 0..MaxRuns
    BY RunsAssumption
  <2> QED
    BY <2>1, NoResultIs DEF Init, FileType
<1>5. ProcessInv
  BY <1>1, StartedAssumption DEF Init, ProcessInv, AliveInv, UnstartedInv, ChildInv, PolicyInv, Alive,
    Places, Process, Measuring
<1>6. ScratchInv /\ WrittenInv
  BY <1>1 DEF Init, ScratchInv, WrittenInv, Cleared, CommandPc, Measuring
<1>7. WriterInv
  <2>1. NoResult.by = Nobody /\ Nobody[1] \notin Run
    BY <1>1 DEF NoResult, Nobody
  <2> QED
    BY <2>1 DEF Init, WriterInv, Wrote
<1>8. ClaimBacked /\ RecordTells
  BY DEF Init, ClaimBacked, RecordTells
<1> QED
  BY <1>2, <1>3, <1>4, <1>5, <1>6, <1>7, <1>8 DEF IInv, TypeInv

\* The invariant holds of every behaviour.
THEOREM Invariance == Spec => []IInv
<1>1. ASSUME IInv, [Next]_vars PROVE IInv'
  <2> USE <1>1 DEF IInv
  <2>1. TypeInv'
    BY ControlStep, ProcessTypeStep, FileTypeStep, RecordTypeStep DEF TypeInv
  <2>2. ProcessInv'
    BY <2>1, ProcessesStep
  <2>3. WriterInv'
    BY <2>1, WriterStep
  <2>4. ScratchInv'
    BY <2>1, ScratchStep
  <2>5. WrittenInv'
    BY <2>1, WrittenStep
  <2>6. ClaimBacked'
    BY <2>1, ClaimStep
  <2>7. RecordTells'
    BY <2>1, RecordStep
  <2> QED
    BY <2>1, <2>2, <2>3, <2>4, <2>5, <2>6, <2>7
<1> QED
  BY <1>1, InitInv, PTL DEF Spec

\* The variables keep their ranges, and exactly the commands that were started and
\* are not running have ended.
THEOREM TypeCorrect == Spec => []TypeOK
BY Invariance, TypeParts, PTL DEF IInv

\* Numeric coverage has a measurement behind it, whatever earlier commands have
\* left in the scratch files and in the packet, and whatever their processes still
\* write there.
THEOREM ClaimsBacked == Spec => []ClaimBacked
BY Invariance, PTL DEF IInv

\* The action manifest says of no run what is not so.
THEOREM RecordsTell == Spec => []RecordTells
BY Invariance, PTL DEF IInv
=============================================================================
