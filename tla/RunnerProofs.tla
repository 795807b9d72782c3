---------------------------- MODULE RunnerProofs ----------------------------
(***************************************************************************)
(* Whatever the timeouts are and however the child, those it has started   *)
(* and the one who cancels the task behave, a command is awaited for a     *)
(* bounded time and its child is not left alone.  The first follows from   *)
(* where `run` waits and since when: each wait begins within the bounds of *)
(* those before it.  The second follows from who has been killed: a wait   *)
(* that only ends in a result is entered with a child that has been, or    *)
(* is dead.                                                                *)
(***************************************************************************)
EXTENDS Runner, TLAPS

-----------------------------------------------------------------------------
LEMMA TypeInit == Init => TypeOK
<1> SUFFICES ASSUME Init PROVE TypeOK
  OBVIOUS
<1>1. now \in 0..MaxTime /\ began \in 0..now /\ since \in 0..now
  BY RunnerAssumption DEF Init
<1> QED
  BY <1>1, Zenon DEF Init, TypeOK

LEMMA TypeStep == TypeOK /\ [Next]_vars => TypeOK'
<1> SUFFICES ASSUME TypeOK, [Next]_vars PROVE TypeOK'
  OBVIOUS
<1> USE DEF TypeOK, Awaiting, Starting, Await, End
<1>1. CASE Start
  <2>1. (now \in 0..MaxTime /\ began \in 0..now /\ since \in 0..now)'
    BY <1>1, RunnerAssumption DEF Start
  <2>2. (pc \in Awaiting \cup {"start", "ended"} /\ child \in {"none", "running", "exited", "killed"})'
    BY <1>1 DEF Start
  <2>3. (holders \subseteq {"child", "grandchild"})'
    BY <1>1 DEF Start
  <2>4. (result \in {"none", "startup_error", "returncode", "timeout", "cancelled"})'
    BY <1>1 DEF Start
  <2>5. (stuck \in BOOLEAN /\ noticed \in BOOLEAN /\ signalled \in BOOLEAN /\ cancelled \in BOOLEAN)'
    BY <1>1 DEF Start
  <2> QED
    BY <2>1, <2>2, <2>3, <2>4, <2>5, Zenon
<1>2. CASE CommunicateReturns
  BY <1>2 DEF CommunicateReturns, envVars
<1>3. CASE TimesOut
  BY <1>3, RunnerAssumption DEF TimesOut, Kill, envVars
<1>4. CASE Cancel
  <2>1. (signalled \in BOOLEAN /\ cancelled \in BOOLEAN)'
    BY <1>4 DEF Cancel, CancelStart, Kill
  <2>2. (pc \in Awaiting \cup {"start", "ended"} /\ since \in 0..now)'
    BY <1>4, RunnerAssumption DEF Cancel, CancelStart
  <2>3. (result \in {"none", "startup_error", "returncode", "timeout", "cancelled"})'
    BY <1>4 DEF Cancel, CancelStart
  <2> QED
    BY <1>4, <2>1, <2>2, <2>3 DEF Cancel, envVars
<1>5. CASE DrainReturns
  BY <1>5 DEF DrainReturns, AfterDrain, envVars
<1>6. CASE DrainTimesOut
  BY <1>6, RunnerAssumption DEF DrainTimesOut, envVars
<1>7. CASE ChildEnds
  BY <1>7 DEF ChildEnds
<1>8. CASE ChildChanges
  BY <1>8 DEF ChildChanges
<1>9. CASE GrandchildCloses
  BY <1>9 DEF GrandchildCloses
<1>10. CASE Notice
  BY <1>10 DEF Notice
<1>11. CASE Tick
  BY <1>11, RunnerAssumption DEF Tick, envVars
<1>12. CASE Spawned
  BY <1>12, RunnerAssumption DEF Spawned, envVars
<1>13. CASE Closed
  BY <1>13 DEF Closed, envVars
<1>14. CASE UNCHANGED vars
  BY <1>14 DEF vars, envVars
<1> QED
  BY <1>1, <1>2, <1>3, <1>4, <1>5, <1>6, <1>7, <1>8, <1>9, <1>10, <1>11, <1>12, <1>13, <1>14 DEF Next

(* Every variable has its type, whatever the timeouts (process.py:57-98).  *)
THEOREM TypeCorrect == Spec => []TypeOK
BY TypeInit, TypeStep, PTL DEF Spec

-----------------------------------------------------------------------------
Times == now \in Nat /\ began \in Nat /\ since \in Nat

Waits ==
  /\ pc = "communicate" => since = began /\ now <= since + CommandTimeout
  /\ pc = "drain" => since <= began + CommandTimeout /\ now <= since + DrainTimeout
  /\ pc = "wait" => /\ since <= began + CommandTimeout + DrainTimeout
                    /\ now <= since + DrainTimeout

TimeInv == Times /\ Waits

LEMMA TimeInit == Init => TimeInv
BY RunnerAssumption DEF Init, TimeInv, Times, Waits

LEMMA TimeStep == TimeInv /\ [Next]_vars => TimeInv'
<1> SUFFICES ASSUME TimeInv, [Next]_vars PROVE TimeInv'
  OBVIOUS
<1> USE RunnerAssumption DEF TimeInv, Times, Waits, Awaiting, Starting
<1>1. CASE Start
  BY <1>1 DEF Start, Await, End
<1>2. CASE CommunicateReturns
  BY <1>2 DEF CommunicateReturns, End
<1>3. CASE TimesOut
  BY <1>3 DEF TimesOut, Await
<1>4. CASE Cancel
  <2>1. CASE pc \in {"spawn", "communicate"}
    BY <1>4, <2>1 DEF Cancel, CancelStart, Await
  <2>2. CASE pc \notin {"spawn", "communicate"}
    BY <1>4, <2>2 DEF Cancel, CancelStart, End
  <2> QED
    BY <2>1, <2>2
<1>5. CASE DrainReturns
  BY <1>5 DEF DrainReturns, AfterDrain, End
<1>6. CASE DrainTimesOut
  BY <1>6 DEF DrainTimesOut, Await
<1>7. CASE ChildEnds \/ ChildChanges \/ GrandchildCloses \/ Notice
  BY <1>7 DEF ChildEnds, ChildChanges, GrandchildCloses, Notice
<1>8. CASE Tick
  BY <1>8 DEF Tick, Due
<1>9. CASE Spawned \/ Closed
  BY <1>9 DEF Spawned, Closed, Await, End
<1>10. CASE UNCHANGED vars
  BY <1>10 DEF vars
<1> QED
  BY <1>1, <1>2, <1>3, <1>4, <1>5, <1>6, <1>7, <1>8, <1>9, <1>10 DEF Next

(* For every command timeout and drain timeout, no command that has been   *)
(* started is awaited for longer than the one and twice the other          *)
(* (process.py:13-28).                                                     *)
THEOREM AwaitedBoundedly == Spec => []Bounded
<1>1. TimeInv => Bounded
  BY RunnerAssumption DEF TimeInv, Times, Waits, Bounded, Awaiting, Starting
<1> QED
  BY <1>1, TimeInit, TimeStep, PTL DEF Spec

-----------------------------------------------------------------------------
KillInv ==
  /\ child \in {"none", "running", "exited", "killed"}
  /\ child = "none" => pc \in {"start", "ended"}
  /\ pc = "start" => child = "none"
  /\ noticed => Dead
  /\ child = "killed" => signalled
  /\ pc \in {"start", "spawn", "communicate"} => ~signalled /\ ~cancelled
  /\ pc = "close" => cancelled /\ (signalled \/ Dead)
  /\ pc \in {"drain", "wait"} => signalled \/ noticed
  /\ pc = "ended" <=> result # "none"

ReturnInv ==
  result = "returncode" => child = "exited" /\ holders = {} /\ ~signalled /\ ~cancelled

SafeInv == KillInv /\ NoneLeftAlone /\ ReturnInv

LEMMA SafeInit == Init => SafeInv
BY DEF Init, SafeInv, KillInv, NoneLeftAlone, ReturnInv, Dead

LEMMA SafeStep == SafeInv /\ [Next]_vars => SafeInv'
<1> SUFFICES ASSUME SafeInv, [Next]_vars PROVE SafeInv'
  OBVIOUS
<1> USE DEF SafeInv, KillInv, NoneLeftAlone, ReturnInv, Dead
<1>1. CASE Start
  BY <1>1 DEF Start, Await, End
<1>2. CASE CommunicateReturns
  BY <1>2 DEF CommunicateReturns, Drained, End, envVars
<1>3. CASE TimesOut
  BY <1>3 DEF TimesOut, Kill, Await, envVars
<1>4. CASE Cancel
  <2>1. CASE pc = "communicate"
    BY <1>4, <2>1 DEF Cancel, CancelStart, Kill, Await, envVars
  <2>2. CASE pc = "spawn"
    BY <1>4, <2>2 DEF Cancel, CancelStart, Await, envVars
  <2>3. CASE pc \notin {"communicate", "spawn"}
    BY <1>4, <2>3 DEF Cancel, CancelStart, Awaiting, Starting, End, envVars
  <2> QED
    BY <2>1, <2>2, <2>3
<1>5. CASE DrainReturns
  BY <1>5 DEF DrainReturns, Drained, AfterDrain, End, envVars
<1>6. CASE DrainTimesOut
  BY <1>6 DEF DrainTimesOut, Await, envVars
<1>7. CASE ChildEnds
  BY <1>7 DEF ChildEnds
<1>8. CASE ChildChanges
  BY <1>8 DEF ChildChanges
<1>9. CASE GrandchildCloses
  BY <1>9 DEF GrandchildCloses
<1>10. CASE Notice
  BY <1>10 DEF Notice
<1>11. CASE Tick
  BY <1>11 DEF Tick, envVars
<1>12. CASE Spawned
  BY <1>12 DEF Spawned, Await, envVars
<1>13. CASE Closed
  BY <1>13 DEF Closed, End, envVars
<1>14. CASE UNCHANGED vars
  BY <1>14 DEF vars, envVars
<1> QED
  BY <1>1, <1>2, <1>3, <1>4, <1>5, <1>6, <1>7, <1>8, <1>9, <1>10, <1>11, <1>12, <1>13, <1>14 DEF Next

(* Whenever `run` ends, cancelled or not and at any await, that of the     *)
(* start included, a child that still runs has been sent SIGKILL           *)
(* (process.py:66-71, 80-81, 89-90).                                       *)
THEOREM NeverLeftAlone == Spec => []NoneLeftAlone
BY SafeInit, SafeStep, PTL DEF Spec, SafeInv

-----------------------------------------------------------------------------
(* A drain that no cancellation led to began with the time used up.        *)
TruthInv ==
  /\ pc \in {"drain", "wait"} => cancelled \/ now >= began + CommandTimeout
  /\ result = "timeout" => now >= began + CommandTimeout /\ ~cancelled
  /\ result # "none" /\ cancelled => result = "cancelled"

Inv == TimeInv /\ SafeInv /\ TruthInv

LEMMA TruthStep == Inv /\ [Next]_vars => TruthInv'
<1> SUFFICES ASSUME TimeInv, SafeInv, TruthInv, [Next]_vars PROVE TruthInv'
  BY DEF Inv
<1> USE RunnerAssumption DEF TruthInv, TimeInv, Times
<1>1. CASE Start
  BY <1>1 DEF Start, Await, End, SafeInv, KillInv
<1>2. CASE CommunicateReturns
  BY <1>2 DEF CommunicateReturns, End, SafeInv, KillInv
<1>3. CASE TimesOut
  BY <1>3 DEF TimesOut, Await, SafeInv, KillInv, Waits
<1>4. CASE Cancel
  <2>1. CASE pc \in {"spawn", "communicate"}
    BY <1>4, <2>1 DEF Cancel, CancelStart, Await, SafeInv, KillInv
  <2>2. CASE pc \notin {"spawn", "communicate"}
    BY <1>4, <2>2 DEF Cancel, CancelStart, End
  <2> QED
    BY <2>1, <2>2
<1>5. CASE DrainReturns
  <2>1. pc \in {"drain", "wait"}
    BY <1>5 DEF DrainReturns
  <2> QED
    BY <1>5, <2>1 DEF DrainReturns, AfterDrain, End
<1>6. CASE DrainTimesOut
  BY <1>6 DEF DrainTimesOut, Await
<1>7. CASE ChildEnds \/ ChildChanges \/ GrandchildCloses \/ Notice
  BY <1>7 DEF ChildEnds, ChildChanges, GrandchildCloses, Notice
<1>8. CASE Tick
  BY <1>8 DEF Tick
<1>9. CASE Spawned
  BY <1>9 DEF Spawned, Await, SafeInv, KillInv
<1>10. CASE Closed
  BY <1>10 DEF Closed, End, SafeInv, KillInv
<1>11. CASE UNCHANGED vars
  BY <1>11 DEF vars
<1> QED
  BY <1>1, <1>2, <1>3, <1>4, <1>5, <1>6, <1>7, <1>8, <1>9, <1>10, <1>11 DEF Next

(* A return code is the child's own, with all of its output, and no        *)
(* timeout is reported early or to one who has cancelled                   *)
(* (process.py:74-98).                                                     *)
THEOREM ReportsTruth == Spec => []ResultTruthful
<1>1. Init => Inv
  <2>1. Init => TruthInv
    BY DEF Init, TruthInv
  <2> QED
    BY <2>1, TimeInit, SafeInit DEF Inv
<1>2. Inv /\ [Next]_vars => Inv'
  BY TimeStep, SafeStep, TruthStep DEF Inv
<1>3. Inv => ResultTruthful
  BY DEF Inv, TruthInv, SafeInv, ReturnInv, ResultTruthful
<1> QED
  BY <1>1, <1>2, <1>3, PTL DEF Spec
=============================================================================
