----------------------------- MODULE PipelineProofs ----------------------------
(***************************************************************************)
(* Theorems about Pipeline, for any number of steps, attempts, runs and    *)
(* edits.  The state file is right because the runner's memory is, and the *)
(* memory is right because the step being executed is never one it has as  *)
(* passed: that is what the inductive invariant adds.                      *)
(***************************************************************************)
EXTENDS Pipeline, TLAPS

Busy == pc # "idle"

\* What the runner remembers as passed was executed well last, and everything
\* before the step it is at is remembered as passed.
MemoryOK ==
  Busy => /\ \A i \in StepIndex : state[i] = "passed" => work[i] = "good"
          /\ \A i \in StepIndex : file[i] = "passed" => state[i] = "passed"
          /\ \A i \in StepIndex : i < at => state[i] = "passed"
          /\ pc \in {"do", "checks", "retry", "write"} => state[at] # "passed"
          /\ pc = "fill" => state[at] = Outcome

\* The lines that were recorded are still there, in memory while a runner works
\* and in the file while it does not write.
RecordedOK ==
  torn \/ \A i \in recorded : /\ Busy => state[i] = "passed"
                              /\ pc # "fill" => file[i] = "passed"

RetryOK == pc = "retry" => attempt < MaxAttempts

IInv == TypeOK /\ FileTruthful /\ MemoryOK /\ RecordedOK /\ RetryOK

-----------------------------------------------------------------------------
LEMMA LenPipe == Len(Pipe) \in Nat
BY PipelineAssumption

LEMMA InitInv == Init => IInv
<1> SUFFICES ASSUME Init PROVE IInv
  OBVIOUS
<1>0. file \in [StepIndex -> Status] /\ state \in [StepIndex -> Status]
  BY DEF Init, NoState, Status
<1>a. at \in 1 .. Len(Pipe) + 1 /\ attempt \in 1 .. MaxAttempts
  BY PipelineAssumption, LenPipe DEF Init
<1>b. runs \in 0 .. MaxRuns /\ edits \in 0 .. MaxEdits
  BY PipelineAssumption DEF Init
<1>c. work \in [StepIndex -> {"none", "begun", "good", "bad"}]
  BY DEF Init
<1>d. recorded \subseteq StepIndex /\ torn \in BOOLEAN
  BY DEF Init
<1>1. TypeOK
  BY <1>0, <1>a, <1>b, <1>c, <1>d DEF Init, TypeOK
<1>2. FileTruthful
  BY DEF Init, FileTruthful, NoState
<1>3. MemoryOK /\ RecordedOK /\ RetryOK
  BY DEF Init, MemoryOK, RecordedOK, RetryOK, Busy
<1> QED
  BY <1>1, <1>2, <1>3 DEF IInv

\* The steps that only move the runner.
LEMMA MoveInv ==
  ASSUME IInv, Start \/ SkipPassed \/ UnknownProfile \/ Done \/ Kill
  PROVE  IInv'
<1> USE PipelineAssumption, LenPipe
    DEF IInv, TypeOK, FileTruthful, MemoryOK, RecordedOK, RetryOK, Busy,
        StepIndex, Status, Outcome
<1>1. CASE Start
  BY <1>1 DEF Start
<1>2. CASE SkipPassed
  BY <1>2 DEF SkipPassed
<1>3. CASE UnknownProfile
  BY <1>3 DEF UnknownProfile
<1>4. CASE Done
  BY <1>4 DEF Done
<1>5. CASE Kill
  BY <1>5 DEF Kill
<1> QED
  BY <1>1, <1>2, <1>3, <1>4, <1>5

\* The execution of a step.
LEMMA ExecuteInv ==
  ASSUME IInv, \/ Begin \/ Retry
               \/ \E ok \in BOOLEAN : Do(ok) \/ Checks(ok)
  PROVE  IInv'
<1> USE PipelineAssumption, LenPipe
    DEF IInv, TypeOK, FileTruthful, MemoryOK, RecordedOK, RetryOK, Busy,
        StepIndex, Status, Outcome
<1>1. CASE Begin
  BY <1>1 DEF Begin
<1>2. CASE Retry
  BY <1>2 DEF Retry
<1>3. ASSUME NEW ok \in BOOLEAN, Do(ok) PROVE IInv'
  BY <1>3 DEF Do, AfterFailure
<1>4. ASSUME NEW ok \in BOOLEAN, Checks(ok) PROVE IInv'
  BY <1>4 DEF Checks, AfterFailure
<1> QED
  BY <1>1, <1>2, <1>3, <1>4

\* The two halves of a write, and an edit.
LEMMA WriteInv ==
  ASSUME IInv, Truncate \/ Fill \/ \E i \in StepIndex : DeleteLine(i)
  PROVE  IInv'
<1> USE PipelineAssumption, LenPipe
    DEF IInv, TypeOK, FileTruthful, MemoryOK, RecordedOK, RetryOK, Busy,
        StepIndex, Status, Outcome
<1>1. CASE Truncate
  BY <1>1 DEF Truncate, NoState
<1>2. CASE Fill
  BY <1>2 DEF Fill
<1>3. ASSUME NEW i \in StepIndex, DeleteLine(i) PROVE IInv'
  BY <1>3 DEF DeleteLine
<1> QED
  BY <1>1, <1>2, <1>3

LEMMA StutterInv == ASSUME IInv, UNCHANGED pipeVars PROVE IInv'
BY DEF IInv, TypeOK, FileTruthful, MemoryOK, RecordedOK, RetryOK, Busy, Outcome, pipeVars

\* The inductive invariant holds in every state the pipeline reaches.
THEOREM Invariant == Spec => []IInv
<1>1. IInv /\ [Next]_pipeVars => IInv'
  BY MoveInv, ExecuteInv, WriteInv, StutterInv DEF Next, Runner
<1> QED
  BY <1>1, InitInv, PTL DEF Spec

\* The runner's state, its file and its counters have their types (main and
\* run_agent_step of pipeline.py).
THEOREM TypeCorrect == Spec => []TypeOK
<1>1. IInv => TypeOK
  BY DEF IInv
<1> QED
  BY <1>1, Invariant, PTL

\* What state.yaml calls passed is a step whose last execution passed its
\* checks, whatever was killed or edited (the writes at pipeline.py:272).
THEOREM FileIsTruthful == Spec => []FileTruthful
<1>1. IInv => FileTruthful
  BY DEF IInv
<1> QED
  BY <1>1, Invariant, PTL

\* A step is executed on top of steps that passed (the loop of main, which a
\* failure ends).
THEOREM StepsBuildOnPassed == Spec => []BuildsOnPassed
<1>1. IInv => BuildsOnPassed
  BY LenPipe DEF IInv, TypeOK, MemoryOK, BuildsOnPassed, Busy, StepIndex
<1> QED
  BY <1>1, Invariant, PTL

\* A recorded step is not executed again unless a write was cut in two (the
\* skip of passed steps in main).
THEOREM RecordedNotRepeated == Spec => PassedNotRepeated
<1>1. IInv /\ [Next]_pipeVars
        => [\A i \in recorded : Begin /\ at = i => torn]_pipeVars
  BY DEF IInv, RecordedOK, Begin, Busy
<1> QED
  BY <1>1, Invariant, PTL DEF Spec, PassedNotRepeated
=============================================================================
