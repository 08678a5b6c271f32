-------------------------------- MODULE Pipeline -------------------------------
(***************************************************************************)
(* The build pipeline: a runner takes the steps of a component in order,   *)
(* skips those its state file has as passed, runs the others, and writes   *)
(* the state file after each of them.  An agent step is tried again up to  *)
(* MaxAttempts times.  A failed step ends the run; the user starts another *)
(* run later, and redoes a step by deleting its line of the state file, at *)
(* any time.  The runner may be killed anywhere; Path.write_text truncates *)
(* the file before it fills it, and an empty file reads as no state.       *)
(***************************************************************************)
EXTENDS Naturals, Sequences

CONSTANTS Pipe,         \* the steps: Pipe[i].agent says whether an agent does it
          MaxAttempts,
          MaxRuns,      \* bound on the runs of the pipeline
          MaxEdits      \* bound on the lines deleted

ASSUME PipelineAssumption ==
  /\ Pipe \in Seq([agent : BOOLEAN])
  /\ MaxAttempts \in Nat \ {0} /\ MaxRuns \in Nat /\ MaxEdits \in Nat

VARIABLES file,      \* file[i]: what state.yaml has of step i
          state,     \* state[i]: what the runner has in memory
          pc,        \* what the runner does next, "idle" if none runs
          at,        \* the step it is at
          attempt,   \* the attempt of an agent step
          work,      \* work[i]: how the last execution of step i went
          recorded,  \* steps written as passed whose line nobody deleted since
          torn,      \* a runner was killed between the two halves of a write
          runs, edits

pipeVars == <<file, state, pc, at, attempt, work, recorded, torn, runs, edits>>

StepIndex == 1 .. Len(Pipe)

Status == {"missing", "passed", "failed"}

NoState == [i \in StepIndex |-> "missing"]

TypeOK == /\ file \in [StepIndex -> Status] /\ state \in [StepIndex -> Status]
          /\ pc \in {"idle", "loop", "do", "checks", "retry", "write", "fill"}
          /\ at \in 1 .. Len(Pipe) + 1
          /\ pc \in {"do", "checks", "retry", "write", "fill"} => at \in StepIndex
          /\ attempt \in 1 .. MaxAttempts
          /\ work \in [StepIndex -> {"none", "begun", "good", "bad"}]
          /\ recorded \subseteq StepIndex /\ torn \in BOOLEAN
          /\ runs \in 0 .. MaxRuns /\ edits \in 0 .. MaxEdits

Init == /\ file = NoState /\ state = NoState
        /\ pc = "idle" /\ at = 1 /\ attempt = 1
        /\ work = [i \in StepIndex |-> "none"]
        /\ recorded = {} /\ torn = FALSE
        /\ runs = 0 /\ edits = 0

-----------------------------------------------------------------------------
\* main reads the state file and enters its loop.
Start == /\ pc = "idle" /\ runs < MaxRuns
         /\ runs' = runs + 1
         /\ state' = file
         /\ pc' = "loop" /\ at' = 1
         /\ UNCHANGED <<file, attempt, work, recorded, torn, edits>>

SkipPassed == /\ pc = "loop" /\ at \in StepIndex
              /\ state[at] = "passed"
              /\ at' = at + 1
              /\ UNCHANGED <<file, state, pc, attempt, work, recorded, torn, runs, edits>>

Begin == /\ pc = "loop" /\ at \in StepIndex
         /\ state[at] # "passed"
         /\ pc' = "do" /\ attempt' = 1
         /\ work' = [work EXCEPT ![at] = "begun"]
         /\ UNCHANGED <<file, state, at, recorded, torn, runs, edits>>

\* An agent step with a permission profile that does not exist.
UnknownProfile ==
  /\ pc = "loop" /\ at \in StepIndex
  /\ state[at] # "passed" /\ Pipe[at].agent
  /\ pc' = "idle"
  /\ UNCHANGED <<file, state, at, attempt, work, recorded, torn, runs, edits>>

Done == /\ pc = "loop" /\ at = Len(Pipe) + 1
        /\ pc' = "idle"
        /\ UNCHANGED <<file, state, at, attempt, work, recorded, torn, runs, edits>>

\* What comes after a command or a check that failed: another attempt of an
\* agent, or the end of the step.
AfterFailure == IF Pipe[at].agent /\ attempt < MaxAttempts THEN "retry" ELSE "write"

\* The command of the step, or one attempt of the agent.
Do(ok) == /\ pc = "do"
          /\ pc' = IF ok THEN "checks" ELSE AfterFailure
          /\ work' = [work EXCEPT ![at] = IF ok THEN "begun" ELSE "bad"]
          /\ UNCHANGED <<file, state, at, attempt, recorded, torn, runs, edits>>

\* run_checks: all pass, or one fails.
Checks(ok) == /\ pc = "checks"
              /\ pc' = IF ok THEN "write" ELSE AfterFailure
              /\ work' = [work EXCEPT ![at] = IF ok THEN "good" ELSE "bad"]
              /\ UNCHANGED <<file, state, at, attempt, recorded, torn, runs, edits>>

\* Mutant: the attempts are not counted.
RetryUncounted == /\ pc = "retry"
                  /\ pc' = "do"
                  /\ work' = [work EXCEPT ![at] = "begun"]
                  /\ UNCHANGED <<file, state, at, attempt, recorded, torn, runs, edits>>

Retry == /\ pc = "retry"
         /\ pc' = "do" /\ attempt' = attempt + 1
         /\ work' = [work EXCEPT ![at] = "begun"]
         /\ UNCHANGED <<file, state, at, recorded, torn, runs, edits>>

\* Mutant: a step whose commands ran is taken for passed.
OutcomeOfDo == IF work[at] \in {"good", "bad"} THEN "passed" ELSE "failed"

Outcome == IF work[at] = "good" THEN "passed" ELSE "failed"

\* The result goes to memory; write_text opens the file and truncates it ...
Truncate == /\ pc = "write"
            /\ state' = [state EXCEPT ![at] = Outcome]
            /\ file' = NoState
            /\ pc' = "fill"
            /\ UNCHANGED <<at, attempt, work, recorded, torn, runs, edits>>

\* Mutant: only the result of this step is written.
FillOne == /\ pc = "fill"
           /\ file' = [NoState EXCEPT ![at] = state[at]]
           /\ recorded' = {i \in StepIndex : state[i] = "passed"}
           /\ IF state[at] = "passed" THEN pc' = "loop" /\ at' = at + 1
              ELSE pc' = "idle" /\ UNCHANGED at
           /\ UNCHANGED <<state, attempt, work, torn, runs, edits>>

\* ... and writes all of the state, also over what was edited meanwhile.
Fill == /\ pc = "fill"
        /\ file' = state
        /\ recorded' = {i \in StepIndex : state[i] = "passed"}
        /\ IF state[at] = "passed" THEN pc' = "loop" /\ at' = at + 1
           ELSE pc' = "idle" /\ UNCHANGED at
        /\ UNCHANGED <<state, attempt, work, torn, runs, edits>>

Kill == /\ pc # "idle"
        /\ pc' = "idle"
        /\ torn' = (torn \/ pc = "fill")
        /\ UNCHANGED <<file, state, at, attempt, work, recorded, runs, edits>>

\* The user deletes the line of a step.
DeleteLine(i) == /\ file[i] # "missing" /\ edits < MaxEdits
                 /\ edits' = edits + 1
                 /\ file' = [file EXCEPT ![i] = "missing"]
                 /\ recorded' = recorded \ {i}
                 /\ UNCHANGED <<state, pc, at, attempt, work, torn, runs>>

Runner == \/ SkipPassed \/ Begin \/ UnknownProfile \/ Done
          \/ \E ok \in BOOLEAN : Do(ok) \/ Checks(ok)
          \/ Retry \/ Truncate \/ Fill

Next == Start \/ Runner \/ Kill \/ \E i \in StepIndex : DeleteLine(i)

\* The commands end, and the runner goes on.
Spec == Init /\ [][Next]_pipeVars /\ WF_pipeVars(Runner)

-----------------------------------------------------------------------------
\* Whatever is killed, retried, redone or edited while the runner works: what the
\* state file calls passed is a step whose last execution passed its checks.
FileTruthful == \A i \in StepIndex : file[i] = "passed" => work[i] = "good"

\* A step is only executed on top of earlier steps whose last executions passed.
BuildsOnPassed ==
  pc \in {"do", "checks", "retry"} => \A i \in 1 .. at - 1 : work[i] = "good"

\* A step that was recorded as passed, and whose line nobody has deleted, is not
\* executed again, unless a runner was killed in the middle of a write.
PassedNotRepeated ==
  [][\A i \in recorded : Begin /\ at = i => torn]_pipeVars

\* Every run ends.
RunEnds == pc # "idle" ~> pc = "idle"
=============================================================================
