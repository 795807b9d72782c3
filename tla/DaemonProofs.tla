---------------------------- MODULE DaemonProofs ----------------------------
(***************************************************************************)
(* The polling loop is prompt and gentle whatever its interval, its panic  *)
(* window and the length of its probes.  An outage of `fastSleeps` fast    *)
(* sleeps has lasted at least as many panic intervals, and no fast sleep   *)
(* begins once it has lasted PanicMax.                                     *)
(***************************************************************************)
EXTENDS Daemon, TLAPS

-----------------------------------------------------------------------------
(* The fast sleeps since the receiver was first missed, those that are     *)
(* over, fit into the time since then.                                     *)
FitsBefore(n, t) == panicStarted + n * PanicInterval <= t

FastAsleep ==
  /\ fastSleeps > 0
  /\ FitsBefore(fastSleeps - 1, since)
  /\ since < panicStarted + PanicMax

SlowAsleep ==
  /\ FitsBefore(fastSleeps, since)
  /\ since >= panicStarted + PanicMax

OutageInv ==
  /\ reachable => fastSleeps = 0
  /\ ~reachable => missedAt = panicStarted
  /\ mode = "pass" /\ ~reachable => FitsBefore(fastSleeps, since)
  /\ mode = "sleep" /\ ~reachable =>
       \/ currentInterval = PanicInterval /\ FastAsleep
       \/ currentInterval = Interval /\ SlowAsleep

(* The pass before this sleep missed a receiver that is up: it cannot have *)
(* ended more than a probe after the receiver came up.                     *)
MissedLately == mode = "sleep" /\ up /\ ~reachable => since <= changedAt + ProbeMax

DaemonInv == TypeOK /\ OutageInv /\ MissedLately /\ HammeringBounded

-----------------------------------------------------------------------------
LEMMA InitDaemonInv == Init => DaemonInv
BY DaemonAssumption
   DEF Init, DaemonInv, TypeOK, OutageInv, MissedLately, HammeringBounded, FitsBefore

(* One more fast sleep takes one more panic interval.                      *)
LEMMA OneMore ==
  ASSUME NEW n \in Nat
  PROVE  /\ n * PanicInterval \in Nat
         /\ (n + 1) * PanicInterval = n * PanicInterval + PanicInterval
         /\ n > 0 => /\ (n - 1) * PanicInterval \in Nat
                     /\ n * PanicInterval = (n - 1) * PanicInterval + PanicInterval
BY DaemonAssumption

(* A pass that misses the receiver, and the sleep it chooses.              *)
LEMMA UnreachableStep ==
  ASSUME DaemonInv, PassUnreachable
  PROVE  DaemonInv'
<1> DEFINE spent == fastSleeps * PanicInterval
<1>1. /\ now \in Nat /\ since \in Nat /\ since <= now
      /\ panicStarted \in Nat /\ panicStarted <= now
      /\ fastSleeps \in Nat /\ reachable \in BOOLEAN
      /\ spent \in Nat
  BY OneMore DEF DaemonInv, TypeOK
<1>2. PanicWindow \in Nat /\ PanicWindow <= now /\ PanicWindow + spent <= now
  <2>1. CASE reachable
    <3>1. PanicWindow = now /\ fastSleeps = 0
      BY <2>1 DEF PanicWindow, DaemonInv, OutageInv
    <3> QED
      BY <1>1, <3>1, DaemonAssumption
  <2>2. CASE ~reachable
    <3>1. PanicWindow = panicStarted /\ panicStarted + spent <= since
      BY <2>2 DEF PanicWindow, PassUnreachable, DaemonInv, OutageInv, FitsBefore
    <3> HIDE DEF spent
    <3> QED
      BY <1>1, <3>1
  <2> QED
    BY <1>1, <2>1, <2>2
<1>3. panicStarted' = PanicWindow /\ missedAt' = PanicWindow
  BY DEF PassUnreachable, PanicWindow, DaemonInv, OutageInv
<1>4. now' = now /\ since' = now /\ mode' = "sleep" /\ reachable' = FALSE
      /\ up' = up /\ changedAt' = changedAt
  BY DEF PassUnreachable, Sleep
<1>5. TypeOK'
  <2>1. PanicWindow \in 0..now
    BY <1>1, <1>2
  <2>2. currentInterval' \in {Interval, PanicInterval} /\ fastSleeps' \in Nat
    BY <1>1 DEF PassUnreachable, Sleep
  <2>3. now \in 0..MaxTime /\ changedAt \in 0..now /\ up \in BOOLEAN /\ now \in 0..now
    BY <1>1 DEF DaemonInv, TypeOK
  <2> QED
    BY <1>3, <1>4, <2>1, <2>2, <2>3 DEF TypeOK
<1>6. MissedLately'
  <2>1. up => now <= changedAt + ProbeMax
    BY <1>1, DaemonAssumption
       DEF PassUnreachable, DaemonInv, TypeOK, UpThroughout, Unchanged
  <2> QED
    BY <1>4, <2>1 DEF MissedLately
<1>7. CASE now - PanicWindow < PanicMax
  <2>1. fastSleeps' = fastSleeps + 1 /\ currentInterval' = PanicInterval
    BY <1>3, <1>7 DEF PassUnreachable, Sleep
  <2>2. fastSleeps' - 1 = fastSleeps /\ fastSleeps' > 0
    BY <1>1, <2>1
  <2>3. spent < PanicMax /\ now < PanicWindow + PanicMax
    <3> HIDE DEF spent
    <3> QED
      BY <1>1, <1>2, <1>7, DaemonAssumption
  <2>4. HammeringBounded'
    BY <2>2, <2>3 DEF HammeringBounded
  <2>5. FastAsleep'
    BY <1>2, <1>3, <1>4, <2>2, <2>3 DEF FastAsleep, FitsBefore
  <2> QED
    BY <1>3, <1>4, <1>5, <1>6, <2>1, <2>4, <2>5 DEF DaemonInv, OutageInv
<1>8. CASE ~(now - PanicWindow < PanicMax)
  <2>1. fastSleeps' = fastSleeps /\ currentInterval' = Interval
    BY <1>3, <1>8 DEF PassUnreachable, Sleep
  <2>2. now >= PanicWindow + PanicMax
    BY <1>1, <1>2, <1>8, DaemonAssumption
  <2>3. SlowAsleep'
    BY <1>2, <1>3, <1>4, <2>1, <2>2 DEF SlowAsleep, FitsBefore
  <2>4. HammeringBounded'
    BY <2>1 DEF DaemonInv, HammeringBounded
  <2> QED
    BY <1>3, <1>4, <1>5, <1>6, <2>1, <2>3, <2>4 DEF DaemonInv, OutageInv
<1> QED
  BY <1>7, <1>8

LEMMA WakeStep ==
  ASSUME DaemonInv, Wake
  PROVE  DaemonInv'
<1> USE DaemonAssumption
<1>1. TypeOK' /\ MissedLately' /\ HammeringBounded'
  BY DEF Wake, loopVars, DaemonInv, TypeOK, MissedLately, HammeringBounded
<1>2. ASSUME ~reachable
      PROVE  FitsBefore(fastSleeps, since)'
  <2>1. panicStarted + fastSleeps * PanicInterval <= since + currentInterval
    BY <1>2, OneMore
       DEF Wake, DaemonInv, OutageInv, TypeOK, FastAsleep, SlowAsleep, FitsBefore
  <2> QED
    BY <2>1 DEF Wake, loopVars, FitsBefore
<1> QED
  BY <1>1, <1>2 DEF Wake, loopVars, DaemonInv, OutageInv

LEMMA DaemonInvInductive == DaemonInv /\ [Next]_vars => DaemonInv'
<1> SUFFICES ASSUME DaemonInv, [Next]_vars
             PROVE  DaemonInv'
  OBVIOUS
<1> USE DaemonAssumption
<1>1. CASE PassReached
  BY <1>1, OneMore
     DEF PassReached, Sleep, DaemonInv, TypeOK, OutageInv, MissedLately, HammeringBounded
<1>2. CASE Interrupt
  BY <1>2 DEF Interrupt, loopVars, DaemonInv, TypeOK, OutageInv, MissedLately, HammeringBounded
<1>3. CASE Tick
  BY <1>3 DEF Tick, loopVars, DaemonInv, TypeOK, OutageInv, MissedLately, HammeringBounded,
              FastAsleep, SlowAsleep, FitsBefore
<1>4. CASE ReceiverChanges
  BY <1>4 DEF ReceiverChanges, loopVars, DaemonInv, TypeOK, OutageInv, MissedLately,
              HammeringBounded, FastAsleep, SlowAsleep, FitsBefore
<1>5. CASE UNCHANGED vars
  BY <1>5 DEF vars, loopVars, DaemonInv, TypeOK, OutageInv, MissedLately,
              HammeringBounded, FastAsleep, SlowAsleep, FitsBefore
<1> QED
  BY <1>1, <1>2, <1>3, <1>4, <1>5, UnreachableStep, WakeStep DEF Next

-----------------------------------------------------------------------------
(* Every variable of the loop has its type, whatever the intervals         *)
(* (cli.py:101-147).                                                       *)
THEOREM TypeCorrect == Spec => []TypeOK
<1>1. DaemonInv => TypeOK
  BY DEF DaemonInv
<1> QED
  BY <1>1, InitDaemonInv, DaemonInvInductive, PTL DEF Spec

(* An outage costs a bounded number of fast polls (cli.py:106-115).        *)
THEOREM GentleInOutages == Spec => []HammeringBounded
<1>1. DaemonInv => HammeringBounded
  BY DEF DaemonInv
<1> QED
  BY <1>1, InitDaemonInv, DaemonInvInductive, PTL DEF Spec

(* A receiver that comes back is soon asked again (cli.py:104-109).        *)
THEOREM PromptAfterOutages == Spec => []Prompt
<1>1. DaemonInv => Prompt
  BY DaemonAssumption
     DEF DaemonInv, TypeOK, OutageInv, MissedLately, Prompt, FastAsleep, SlowAsleep
<1> QED
  BY <1>1, InitDaemonInv, DaemonInvInductive, PTL DEF Spec
=============================================================================
