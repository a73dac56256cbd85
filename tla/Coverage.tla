------------------------------ MODULE Coverage ------------------------------
(***************************************************************************)
(* `coverage` (cmd_coverage, coverage.measure and the child _child_main):  *)
(* the repository's own code is run in a copy, under a timeout, by a child *)
(* process that leaves its counts in a scratch file; the command turns     *)
(* them into tests/coverage-summary.json and records the action.           *)
(*                                                                         *)
(* The commands of one artifact root use the same scratch files.  The code *)
(* that is measured may start processes, in the process group of the child *)
(* or in a session of their own, that keep the child's output pipe or do   *)
(* not.  A process made by os.fork() is a copy of the child: when the      *)
(* target returns, exits or raises in it, it goes on as the child does and *)
(* writes the scratch files too.                                           *)
(***************************************************************************)
EXTENDS Naturals, FiniteSets

CONSTANTS
  MaxRuns,    \* bound: commands started
  Starting,   \* bound: the commands whose measured code may start processes
  Started,    \* bound: the processes that it may start
  Detaching   \* TRUE: also in a session of their own

ASSUME RunsAssumption == MaxRuns \in Nat
ASSUME StartedAssumption == "child" \notin Started
ASSUME DetachingAssumption == Detaching \in BOOLEAN

VARIABLES
  sandbox,   \* the declaration of `init`: FALSE is 'none'
  run,       \* the number of the running or latest command
  pc,        \* where it is
  timedOut,  \* _run_process: the timeout expired
  result,    \* coverage-run-result.json: absent, torn or whole; written by which
             \* process of which command; whether it counts any executable line
  read,      \* measure's runner_data, from that file
  native,    \* scratch/coverage-native: who wrote there
  shown,     \* tests/coverage in the packet: by whom are the files copied there
  summary,   \* coverage-summary.json: absent, torn or whole; whether it claims a
             \* measurement; written by which command, from whose counts
  at,        \* where each process of each command is
  group,     \* the processes that are or were in the process group of the child
  piped,     \* the processes that hold its output pipe while they live
  recorded,  \* the status recorded for each command in the action manifest
  ended      \* how each command ended

Run == 1..MaxRuns
Process == {"child"} \cup Started
Writer == (0..MaxRuns) \X Process
Nobody == <<0, "child">>
scratch == <<result, native>>
packet == <<shown, summary, recorded>>
processes == <<at, group, piped>>
vars == <<sandbox, run, pc, timedOut, read, result, native, shown, summary, at, group, piped,
          recorded, ended>>

\* The measured code, and what _child_main does after it.
Places == {"target", "natives", "open", "write"}
Alive(n, q) == at[n][q] \in Places
NoResult == [state |-> "absent", by |-> Nobody, lines |-> FALSE]

Init ==
  /\ sandbox \in BOOLEAN
  /\ run = 0 /\ pc = "idle" /\ timedOut = FALSE /\ read = NoResult
  /\ result = NoResult /\ native = {} /\ shown = {}
  /\ summary = [state |-> "absent", measured |-> FALSE, by |-> 0, from |-> Nobody]
  /\ at = [n \in Run |-> [q \in Process |-> "none"]]
  /\ group = [n \in Run |-> {"child"}] /\ piped = [n \in Run |-> {"child"}]
  /\ recorded = [n \in Run |-> "none"] /\ ended = [n \in Run |-> "none"]

\* Mutant: the end goes unnoticed.
EndSilently(how) == pc' = "idle" /\ UNCHANGED ended

EndAs(how) == pc' = "idle" /\ ended' = [ended EXCEPT ![run] = how]
-----------------------------------------------------------------------------
(* The child and what it starts                                            *)

\* The child has an exit code that is looked at.
Codes(q) == IF q = "child" THEN {"exit0", "exit1"} ELSE {"gone"}

Step(n, q, place) == at' = [at EXCEPT ![n][q] = place]

\* The measured code starts another process, by a fork of process p.  One that
\* runs a program of its own never comes to the end of the target.
Spawn(n, p, q) ==
  /\ n \in Starting /\ q \in Started
  /\ at[n][p] = "target" /\ at[n][q] = "none"
  /\ Step(n, q, "target")
  /\ \/ p \in group[n] /\ group' = [group EXCEPT ![n] = @ \cup {q}]
     \/ Detaching /\ UNCHANGED group
  /\ \/ p \in piped[n] /\ piped' = [piped EXCEPT ![n] = @ \cup {q}]
     \/ UNCHANGED piped
  /\ UNCHANGED <<sandbox, run, pc, timedOut, read, scratch, packet, ended>>

\* The target returns, exits or raises: all of these are caught.
TargetEnds(n, q) ==
  /\ at[n][q] = "target"
  /\ Step(n, q, "natives")
  /\ UNCHANGED <<sandbox, run, pc, timedOut, read, scratch, packet, group, piped, ended>>

WriteNatives(n, q) ==
  /\ at[n][q] = "natives"
  /\ native' \in {native, native \cup {<<n, q>>}}
  /\ Step(n, q, "open")
  /\ UNCHANGED <<sandbox, run, pc, timedOut, read, result, packet, group, piped, ended>>

OpenResult(n, q) ==
  /\ at[n][q] = "open"
  /\ result' = [state |-> "torn", by |-> <<n, q>>, lines |-> FALSE]
  /\ Step(n, q, "write")
  /\ UNCHANGED <<sandbox, run, pc, timedOut, read, native, packet, group, piped, ended>>

\* A file that another process has written since it was opened may be left mixed.
WriteResult(n, q) ==
  /\ at[n][q] = "write"
  /\ \/ \E lines \in BOOLEAN : result' = [state |-> "whole", by |-> <<n, q>>, lines |-> lines]
     \/ result.state = "whole" /\ result' = [result EXCEPT !.state = "torn"]
  /\ \E code \in Codes(q) : Step(n, q, code)
  /\ UNCHANGED <<sandbox, run, pc, timedOut, read, native, packet, group, piped, ended>>

\* A process ends early: os._exit, a program's own end, a signal, no memory or no space.
Dies(n, q) ==
  /\ Alive(n, q)
  /\ \E code \in Codes(q) : Step(n, q, code)
  /\ UNCHANGED <<sandbox, run, pc, timedOut, read, scratch, packet, group, piped, ended>>
-----------------------------------------------------------------------------
(* cmd_coverage and measure                                                *)

\* The command goes on to another place and keeps the rest of its state.
GoTo(place) == pc' = place /\ UNCHANGED ended

Start ==
  /\ pc = "idle"
  /\ run < MaxRuns /\ run' = run + 1
  /\ GoTo(IF sandbox THEN "clear" ELSE "openUnmeasured")
  /\ timedOut' = FALSE /\ read' = NoResult
  /\ UNCHANGED <<sandbox, scratch, packet, processes>>

\* Mutant: the result of an earlier command stays.
ClearAllButResult ==
  /\ pc = "clear"
  /\ native' = {} /\ shown' = {}
  /\ UNCHANGED result
  /\ GoTo("launch")
  /\ UNCHANGED <<sandbox, run, timedOut, read, summary, recorded, processes>>

\* What earlier commands left in scratch and in tests/coverage goes.
Clear ==
  /\ pc = "clear"
  /\ native' = {} /\ shown' = {}
  /\ result' = NoResult
  /\ GoTo("launch")
  /\ UNCHANGED <<sandbox, run, timedOut, read, summary, recorded, processes>>

\* An OdinError or another exception: an option out of range, no copy of the
\* repository, no such target, no space for the log or for the native files.
Fail ==
  /\ pc \in {"clear", "launch", "log", "copyNatives"}
  /\ EndAs("error")
  /\ UNCHANGED <<sandbox, run, timedOut, read, scratch, packet, processes>>

\* Popen, in a session of its own.
Launch ==
  /\ pc = "launch"
  /\ Step(run, "child", "target")
  /\ GoTo("communicate")
  /\ UNCHANGED <<sandbox, run, timedOut, read, scratch, packet, group, piped>>

PipeClosed == \A q \in piped[run] : ~Alive(run, q)

\* communicate returns when the child has ended and its pipe is closed.
Communicate ==
  /\ pc = "communicate"
  /\ ~Alive(run, "child") /\ PipeClosed
  /\ GoTo("log")
  /\ UNCHANGED <<sandbox, run, timedOut, read, scratch, packet, processes>>

Kill(victims) ==
  at' = [at EXCEPT ![run] =
           [q \in Process |-> IF Alive(run, q) /\ q \in victims THEN "killed" ELSE @[q]]]

\* Mutant: the child alone is killed.
TimeoutKillsChildOnly ==
  /\ pc = "communicate"
  /\ Kill({"child"})
  /\ timedOut' = TRUE
  /\ GoTo("drain")
  /\ UNCHANGED <<sandbox, run, read, scratch, packet, group, piped>>

\* TimeoutExpired: killpg.
Timeout ==
  /\ pc = "communicate"
  /\ Kill(group[run])
  /\ timedOut' = TRUE
  /\ GoTo("drain")
  /\ UNCHANGED <<sandbox, run, read, scratch, packet, group, piped>>

\* The second communicate has no timeout: it waits for the end of the pipe.
Drain ==
  /\ pc = "drain"
  /\ PipeClosed
  /\ GoTo("log")
  /\ UNCHANGED <<sandbox, run, timedOut, read, scratch, packet, processes>>

WriteLog ==
  /\ pc = "log"
  /\ GoTo("judge")
  /\ UNCHANGED <<sandbox, run, timedOut, read, scratch, packet, processes>>

\* Without time or result the run is unmeasured; a result that does not parse
\* is an OdinError, and nothing is written or recorded.
Judge ==
  /\ pc = "judge"
  /\ \/ /\ timedOut \/ result.state = "absent"
        /\ GoTo("openUnmeasured") /\ UNCHANGED read
     \/ /\ ~timedOut /\ result.state = "torn"
        /\ EndAs("error") /\ UNCHANGED read
     \/ /\ ~timedOut /\ result.state = "whole"
        /\ GoTo("copyNatives") /\ read' = result
  /\ UNCHANGED <<sandbox, run, timedOut, scratch, packet, processes>>

CopyNatives ==
  /\ pc = "copyNatives"
  /\ shown' = native
  /\ GoTo(IF read.lines THEN "openMeasured" ELSE "openUnmeasured")
  /\ UNCHANGED <<sandbox, run, timedOut, read, scratch, summary, recorded, processes>>

OpenSummary ==
  /\ pc \in {"openUnmeasured", "openMeasured"}
  /\ summary' = [summary EXCEPT !.state = "torn"]
  /\ GoTo(IF pc = "openMeasured" THEN "writeMeasured" ELSE "writeUnmeasured")
  /\ UNCHANGED <<sandbox, run, timedOut, read, scratch, shown, recorded, processes>>

WriteSummary ==
  /\ pc \in {"writeUnmeasured", "writeMeasured"}
  /\ summary' = [state |-> "whole", measured |-> pc = "writeMeasured", by |-> run,
                 from |-> IF pc = "writeMeasured" THEN read.by ELSE Nobody]
  /\ GoTo(IF pc = "writeMeasured" THEN "recordMeasured" ELSE "recordUnmeasured")
  /\ UNCHANGED <<sandbox, run, timedOut, read, scratch, shown, recorded, processes>>

Status ==
  IF ~sandbox THEN "blocked_by_policy"
  ELSE IF timedOut THEN "timeout"
  ELSE IF pc = "recordMeasured" /\ at[run]["child"] = "exit0" THEN "succeeded" ELSE "failed"

\* _append_actions, which fails if the state or the manifest cannot be read.
Record ==
  /\ pc \in {"recordUnmeasured", "recordMeasured"}
  /\ \/ /\ recorded' = [recorded EXCEPT ![run] = Status]
        /\ EndAs("reported")
     \/ UNCHANGED recorded /\ EndAs("error")
  /\ UNCHANGED <<sandbox, run, timedOut, read, scratch, shown, summary, processes>>

\* The command is killed.  Its child, in another session, lives on.
Killed ==
  /\ pc # "idle"
  /\ EndAs("killed")
  /\ UNCHANGED <<sandbox, run, timedOut, read, scratch, packet, processes>>
-----------------------------------------------------------------------------
ProcessStep(n, q) ==
  TargetEnds(n, q) \/ WriteNatives(n, q) \/ OpenResult(n, q) \/ WriteResult(n, q) \/ Dies(n, q)

Proceed ==
  \/ Clear \/ Fail \/ Launch \/ Communicate \/ Drain \/ WriteLog \/ Judge \/ CopyNatives
  \/ OpenSummary \/ WriteSummary \/ Record

Next ==
  \/ Start \/ Proceed \/ Timeout \/ Killed
  \/ \E n \in Run, q \in Process : ProcessStep(n, q) \/ \E p \in Process : Spawn(n, p, q)

\* The command runs when it can, and time passes.  Nothing is assumed of the
\* code that is measured, which may run forever.
Fairness == WF_vars(Proceed) /\ WF_vars(Timeout)

Spec == Init /\ [][Next]_vars /\ Fairness
-----------------------------------------------------------------------------
(* Properties                                                              *)

CommandPc ==
  {"clear", "launch", "communicate", "drain", "log", "judge", "copyNatives", "openUnmeasured",
   "openMeasured", "writeUnmeasured", "writeMeasured", "recordUnmeasured", "recordMeasured"}
Exited == {"exit0", "exit1"}
Results == [state : {"absent", "torn", "whole"}, by : Writer, lines : BOOLEAN]

\* Every variable keeps its range, and exactly the commands that were started
\* and are not running have ended.
TypeOK ==
  /\ sandbox \in BOOLEAN /\ run \in 0..MaxRuns /\ timedOut \in BOOLEAN
  /\ pc \in {"idle"} \cup CommandPc
  /\ result \in Results /\ read \in Results
  /\ native \subseteq Writer /\ shown \subseteq Writer
  /\ summary \in [state : {"absent", "torn", "whole"}, measured : BOOLEAN,
                  by : 0..MaxRuns, from : Writer]
  /\ at \in [Run -> [Process -> {"none", "killed", "gone"} \cup Places \cup Exited]]
  /\ group \in [Run -> SUBSET Process] /\ piped \in [Run -> SUBSET Process]
  /\ recorded \in [Run -> {"none", "blocked_by_policy", "timeout", "succeeded", "failed"}]
  /\ ended \in [Run -> {"none", "reported", "error", "killed"}]
  /\ \A n \in Run : ended[n] = "none" <=> n > run \/ (n = run /\ pc # "idle")

\* Process q can have outlived command m: the command was killed, or q did not
\* hold the pipe; and after a timeout it was in no reach of the kill.
LeftBehind(m, q) ==
  /\ ended[m] = "killed" \/ q \notin piped[m]
  /\ recorded[m] = "timeout" => q \notin group[m]

\* What command n finds in the scratch files after clearing them is by a process
\* of its own, or by one that an earlier command can have left behind.
Mixed(n, writer) ==
  \/ writer[1] = n
  \/ writer[1] \in 1 .. n - 1 /\ LeftBehind(writer[1], writer[2])

\* Numeric coverage has a measurement behind it: a child of this very command
\* came to its end in time, and the counts and the annotated files are by a
\* process of this command.  Only a process that an earlier command left behind
\* can put its own in their place: the child, or another that held the pipe, of a
\* command that was killed, or one that let go of the pipe and, after a timeout,
\* was outside of the process group.
ClaimBacked ==
  (summary.state = "whole" /\ summary.measured) =>
    LET n == summary.by
    IN  /\ Mixed(n, summary.from)
        /\ at[n]["child"] \in Exited
        /\ recorded[n] # "timeout"
        /\ run = n => \A writer \in shown : Mixed(n, writer)

\* What the action manifest says of a run is so: a success ended well, after a
\* timeout nothing of the process group is left, a blocked run started nothing,
\* and a command that reports to its caller has recorded something.
RecordTells ==
  \A n \in Run :
    /\ recorded[n] = "succeeded" => at[n]["child"] = "exit0"
    /\ recorded[n] = "timeout" => \A q \in group[n] : ~Alive(n, q)
    /\ recorded[n] = "blocked_by_policy" => \A q \in Process : at[n][q] = "none"
    /\ ended[n] = "reported" => recorded[n] # "none"

\* A command comes to its end, whatever the measured code does, unless a process
\* it has detached keeps the output pipe open for ever.
Held == \E q \in piped[run] \ group[run] : Alive(run, q)
Ends == [](pc # "idle" => <>(pc = "idle" \/ []Held))

\* After its timeout the command ends: "kills its process tree".
EndsAfterTimeout == pc = "drain" ~> pc # "drain"
=============================================================================
