---------------------------- MODULE ClientProofs ----------------------------
(***************************************************************************)
(* For any number of datasets, and whatever the host, the receivers and    *)
(* the network do meanwhile, a pass forgets no dataset and speaks of an    *)
(* unreachable receiver only when it has not touched any.  The argument is *)
(* where the loop stands: what it has passed and wanted is attempted.      *)
(***************************************************************************)
EXTENDS Client, TLAPS

(* What is_locked may come to.                                             *)
Reports ==
  {Known("yes", FALSE), Known("no", FALSE), Known("no", TRUE), Unknown(FALSE), Unknown(TRUE)}

Checks == {"none", "answered", "refused", "raised", "unreached"}

(* The datasets and the commands that may move them.                       *)
HostInv ==
  /\ state \in [Selected -> States]
  /\ was \in [Selected -> SUBSET States]
  /\ late \subseteq ((AllVerbs \ {"status"}) \X Selected)
  /\ faults \in 0..MaxFaults

PassInv ==
  /\ verb \in Verbs
  /\ phase \in {"idle", "asking", "acting", "waiting", "done", "crashed"}
  /\ statuses \in [Selected -> Reports \cup {Pending}]
  /\ attempted \subseteq Selected
  /\ next \in 1..(N + 1)
  /\ outcome \in {"none", "ok", "failed", "unreachable"}
  /\ phase \in {"idle", "asking"} => next = 1 /\ attempted = {}
  /\ failed \in BOOLEAN
  /\ phase # "done" => outcome = "none"
  /\ checks \in [Selected -> Checks]
  /\ \A i \in Selected : statuses[i].connection_error => checks[i] = "unreached"

LoopInv ==
  /\ phase = "waiting" => next \in attempted /\ next \in Selected /\ verb # "status"
  /\ phase \in {"acting", "waiting"} =>
       \A i \in Selected : i < next /\ Wanted(i) => i \in attempted

ClientInv == HostInv /\ PassInv /\ LoopInv /\ EveryLockedAttempted /\ UnreachableMeansSilent

-----------------------------------------------------------------------------
LEMMA AnswerReports ==
  ASSUME NEW s \in States
  PROVE  FromAnswer(s) \in Reports
BY DEF States, FromAnswer, Reports

LEMMA ConnectionErrors ==
  ASSUME NEW r \in Reports \cup {Pending}, r.connection_error
  PROVE  r = Unknown(TRUE)
BY DEF Reports, Pending, Known, Unknown

LEMMA MovesInStates ==
  ASSUME NEW v \in AllVerbs \ {"status"}, NEW s \in States
  PROVE  Moves(v, s) \subseteq States
BY DEF AllVerbs, States, Moves

LEMMA CarryInStates ==
  ASSUME HostInv, NEW v \in AllVerbs \ {"status"}, NEW i \in Selected, Carry(v, i)
  PROVE  state' \in [Selected -> States]
<1>1. PICK s \in Moves(v, state[i]) : state' = [state EXCEPT ![i] = s]
  BY DEF Carry
<1>2. s \in States
  BY <1>1, MovesInStates DEF HostInv
<1> QED
  BY <1>1, <1>2 DEF HostInv

-----------------------------------------------------------------------------
LEMMA ClientInit == Init => ClientInv
<1> SUFFICES ASSUME Init PROVE ClientInv
  OBVIOUS
<1>1. HostInv
  BY FaultsAssumption DEF Init, HostInv
<1>2. PassInv
  <2>1. next \in 1..(N + 1)
    BY SelectedAssumption DEF Init
  <2>2. /\ checks \in [Selected -> Checks]
        /\ \A i \in Selected : ~statuses[i].connection_error
    BY DEF Init, Checks, Pending
  <2> QED
    BY <2>1, <2>2, Zenon DEF Init, PassInv
<1> QED
  BY <1>1, <1>2 DEF Init, ClientInv, LoopInv, EveryLockedAttempted, UnreachableMeansSilent

LEMMA HostStep == ClientInv /\ [Next]_vars => HostInv'
<1> SUFFICES ASSUME ClientInv, [Next]_vars PROVE HostInv'
  OBVIOUS
<1> USE DEF ClientInv
<1>1. CASE UNCHANGED vars
  BY <1>1 DEF HostInv, vars, hostVars
<1>2. CASE Next
  <2>1. state' \in [Selected -> States] /\ late' \subseteq ((AllVerbs \ {"status"}) \X Selected)
    <3>1. CASE (\E v \in Verbs : Begin(v)) \/ Leave
      BY <3>1 DEF HostInv, Begin, Leave, hostVars
    <3>2. CASE PassStep
      <4>1. CASE CommandLost
        <5>1. verb \in AllVerbs \ {"status"} /\ next \in Selected
          BY <4>1, VerbsAssumption DEF CommandLost, LoopInv, PassInv
        <5>2. <<verb, next>> \in (AllVerbs \ {"status"}) \X Selected
          BY <5>1
        <5> QED
          BY <4>1, <5>2 DEF CommandLost, HostInv, hostVars
      <4>2. CASE ~CommandLost
        BY <3>2, <4>2 DEF HostInv, PassStep, StatusAnswered, StatusRefused, StatusRaised, StatusUnreached,
              Learn, Gathered, Skip, Command, CommandReturns, Finish, hostVars
      <4> QED
        BY <4>1, <4>2
    <3>3. CASE Execute
      <4>1. verb \in AllVerbs \ {"status"} /\ next \in Selected
        BY <3>3, VerbsAssumption DEF Execute, LoopInv, PassInv
      <4> QED
        BY <3>3, <4>1, CarryInStates DEF Execute, HostInv
    <3>4. CASE \E v \in AllVerbs, i \in Selected : CommandLate(v, i)
      <4>1. PICK v \in AllVerbs, i \in Selected : CommandLate(v, i)
        BY <3>4
      <4>2. v \in AllVerbs \ {"status"}
        BY <4>1 DEF CommandLate, HostInv
      <4>3. state' \in [Selected -> States]
        BY <4>1, <4>2, CarryInStates DEF CommandLate, HostInv
      <4> QED
        BY <4>1, <4>3 DEF CommandLate, HostInv
    <3>5. CASE HostChanges
      BY <3>5 DEF HostChanges, Reboot, OtherClient, HostInv, States
    <3> QED
      BY <1>2, <3>1, <3>2, <3>3, <3>4, <3>5 DEF Next
  <2>2. was' \in [Selected -> SUBSET States]
    BY <1>2, <2>1 DEF Next, Remember, HostInv
  <2>3. faults' \in 0..MaxFaults
    <3>1. CASE HostChanges
      BY <3>1, FaultsAssumption DEF HostChanges, HostInv
    <3>2. CASE ~HostChanges
      BY <1>2, <3>2 DEF Next, Begin, Leave, Execute, CommandLate, PassStep, StatusAnswered,
            StatusRefused, StatusRaised, StatusUnreached, Learn, Gathered, Skip, Command,
            CommandReturns, CommandLost, Finish, hostVars, HostInv
    <3> QED
      BY <3>1, <3>2
  <2> QED
    BY <2>1, <2>2, <2>3 DEF HostInv
<1> QED
  BY <1>1, <1>2

-----------------------------------------------------------------------------
LEMMA LearnStep ==
  ASSUME ClientInv, NEW i \in Selected, NEW how \in Checks, NEW r \in Reports, Learn(i, how, r),
         r = Unknown(TRUE) => how = "unreached"
  PROVE  (PassInv /\ LoopInv /\ EveryLockedAttempted /\ UnreachableMeansSilent)'
<1>1. statuses' \in [Selected -> Reports \cup {Pending}] /\ checks' \in [Selected -> Checks]
  BY DEF ClientInv, Learn, PassInv
<1>2. \A j \in Selected : statuses'[j].connection_error => checks'[j] = "unreached"
  <2> SUFFICES ASSUME NEW j \in Selected, statuses'[j].connection_error
               PROVE  checks'[j] = "unreached"
    OBVIOUS
  <2>1. CASE j = i
    <3>1. statuses'[i] = r /\ checks'[i] = how
      BY DEF ClientInv, Learn, PassInv
    <3>2. r = Unknown(TRUE)
      BY <2>1, <3>1, ConnectionErrors
    <3> QED
      BY <2>1, <3>1, <3>2
  <2>2. CASE j # i
    BY <2>2 DEF ClientInv, Learn, PassInv
  <2> QED
    BY <2>1, <2>2
<1>3. PassInv'
  BY <1>1, <1>2 DEF ClientInv, Learn, PassInv
<1> QED
  BY <1>3 DEF ClientInv, Learn, PassInv, LoopInv, EveryLockedAttempted, UnreachableMeansSilent

LEMMA PassOnlyStep ==
  ASSUME ClientInv, UNCHANGED passVars
  PROVE  (PassInv /\ LoopInv /\ EveryLockedAttempted /\ UnreachableMeansSilent)'
BY DEF ClientInv, passVars, PassInv, LoopInv, EveryLockedAttempted, UnreachableMeansSilent,
       AllWantedAttempted, Wanted

(* The loop has done with one more dataset.                                *)
LEMMA AdvanceStep ==
  ASSUME ClientInv, NEW ok \in BOOLEAN, Advance(ok), phase \in {"acting", "waiting"},
         next \in Selected, Wanted(next) => next \in attempted',
         attempted' \in {attempted, attempted \cup {next}},
         UNCHANGED <<verb, statuses, outcome, checks>>
  PROVE  (PassInv /\ LoopInv /\ EveryLockedAttempted /\ UnreachableMeansSilent)'
<1>1. PassInv'
  BY SelectedAssumption DEF ClientInv, Advance, PassInv, Selected
<1>2. LoopInv'
  <2> SUFFICES ASSUME NEW i \in Selected, i < next + 1, Wanted(i) PROVE i \in attempted'
    BY DEF ClientInv, Advance, LoopInv, Wanted
  <2> QED
    BY SelectedAssumption DEF ClientInv, LoopInv, Selected
<1> QED
  BY <1>1, <1>2 DEF ClientInv, Advance, PassInv, EveryLockedAttempted, UnreachableMeansSilent

LEMMA GatheredStep ==
  ASSUME ClientInv, Gathered
  PROVE  (PassInv /\ LoopInv /\ EveryLockedAttempted /\ UnreachableMeansSilent)'
<1> USE DEF ClientInv
<1>1. CASE verb = "status" /\ End(StatusResult)
  BY <1>1 DEF Gathered, End, StatusResult, PassInv, LoopInv, EveryLockedAttempted,
       UnreachableMeansSilent, AllWantedAttempted, Wanted
<1>2. CASE verb = "unlock" /\ NoneReached /\ End("unreachable")
  <2>1. attempted = {} /\ \A i \in Selected : checks[i] = "unreached"
    BY <1>2 DEF Gathered, NoneReached, PassInv
  <2> QED
    BY <1>2, <2>1 DEF Gathered, End, PassInv, LoopInv, EveryLockedAttempted, UnreachableMeansSilent
<1>3. CASE phase' = "acting" /\ UNCHANGED <<verb, statuses, next, outcome, checks, attempted>>
  <2>1. failed' \in BOOLEAN
    BY <1>3 DEF Gathered, End, AnyUnknown, PassInv
  <2>2. PassInv'
    BY <1>3, <2>1 DEF Gathered, PassInv
  <2>3. LoopInv'
    BY <1>3 DEF Gathered, PassInv, LoopInv, Selected
  <2> QED
    BY <1>3, <2>2, <2>3 DEF Gathered, PassInv, EveryLockedAttempted, UnreachableMeansSilent
<1> QED
  BY <1>1, <1>2, <1>3 DEF Gathered

LEMMA FinishStep ==
  ASSUME ClientInv, Finish
  PROVE  (PassInv /\ LoopInv /\ EveryLockedAttempted /\ UnreachableMeansSilent)'
<1>1. AllWantedAttempted
  BY SelectedAssumption DEF ClientInv, Finish, LoopInv, AllWantedAttempted, Selected
<1> QED
  BY <1>1 DEF ClientInv, Finish, End, PassInv, LoopInv, EveryLockedAttempted,
       UnreachableMeansSilent, AllWantedAttempted, Wanted

LEMMA PassStepInv ==
  ASSUME ClientInv, [Next]_vars
  PROVE  (PassInv /\ LoopInv /\ EveryLockedAttempted /\ UnreachableMeansSilent)'
<1>1. CASE \E v \in Verbs : Begin(v)
  BY <1>1 DEF ClientInv, Begin, PassInv, LoopInv, EveryLockedAttempted, UnreachableMeansSilent
<1>2. CASE \E i \in Selected :
             StatusAnswered(i) \/ StatusRefused(i) \/ StatusRaised(i) \/ StatusUnreached(i)
  <2>1. PICK i \in Selected :
               StatusAnswered(i) \/ StatusRefused(i) \/ StatusRaised(i) \/ StatusUnreached(i)
    BY <1>2
  <2>2. PICK how \in Checks, r \in Reports :
               Learn(i, how, r) /\ (r = Unknown(TRUE) => how = "unreached")
    <3>1. CASE StatusAnswered(i)
      <4>1. PICK s \in was[i] : Learn(i, "answered", FromAnswer(s))
        BY <3>1 DEF StatusAnswered
      <4>2. s \in States
        BY <4>1 DEF ClientInv, HostInv
      <4>3. FromAnswer(s) \in Reports /\ FromAnswer(s) # Unknown(TRUE)
        BY <4>2, AnswerReports DEF States, FromAnswer, Known, Unknown
      <4> QED
        BY <4>1, <4>3 DEF Checks
    <3>2. CASE StatusRefused(i) \/ StatusRaised(i)
      <4>1. Unknown(FALSE) # Unknown(TRUE)
        BY DEF Unknown
      <4> QED
        BY <3>2, <4>1 DEF StatusRefused, StatusRaised, Checks, Reports
    <3>3. CASE StatusUnreached(i)
      BY <3>3 DEF StatusUnreached, Checks, Reports
    <3> QED
      BY <2>1, <3>1, <3>2, <3>3
  <2> QED
    BY <2>2, LearnStep
<1>3. CASE Skip
  BY <1>3, AdvanceStep DEF Skip
<1>4. CASE Command
  <2>1. attempted' = attempted \cup {next} /\ phase = "acting" /\ next \in Selected /\ Wanted(next)
    BY <1>4 DEF Command
  <2>2. CASE Advance(FALSE)
    BY <1>4, <2>1, <2>2, AdvanceStep DEF Command
  <2>3. CASE phase' \in {"waiting", "crashed"} /\ UNCHANGED <<next, failed>>
    <3>1. verb # "status"
      BY <2>1 DEF Wanted
    <3>2. UNCHANGED <<verb, statuses, outcome, checks>>
      BY <1>4 DEF Command
    <3> QED
      BY <2>1, <2>3, <3>1, <3>2 DEF ClientInv, PassInv, LoopInv, EveryLockedAttempted,
            UnreachableMeansSilent, Wanted
  <2> QED
    BY <1>4, <2>2, <2>3 DEF Command
<1>5. CASE CommandReturns
  <2>1. PICK answer \in Answers : Advance(answer = "succeeded")
    BY <1>5 DEF CommandReturns
  <2> QED
    BY <1>5, <2>1, AdvanceStep DEF CommandReturns, ClientInv, LoopInv
<1>6. CASE CommandLost
  BY <1>6, AdvanceStep DEF CommandLost, ClientInv, LoopInv
<1>7. CASE Leave
  <2>1. (next \in 1..(N + 1))'
    BY <1>7, SelectedAssumption DEF Leave
  <2>2. checks' \in [Selected -> Checks] /\ \A i \in Selected : ~statuses'[i].connection_error
    BY <1>7 DEF Leave, Checks, Pending
  <2>3. PassInv'
    BY <1>7, <2>1, <2>2, Zenon DEF Leave, ClientInv, PassInv
  <2> QED
    BY <1>7, <2>3 DEF Leave, LoopInv, EveryLockedAttempted, UnreachableMeansSilent
<1>8. CASE UNCHANGED passVars
  BY <1>8, PassOnlyStep
<1> QED
  BY <1>1, <1>2, <1>3, <1>4, <1>5, <1>6, <1>7, <1>8, GatheredStep, FinishStep
     DEF Next, PassStep, Execute, CommandLate, HostChanges, vars, passVars

-----------------------------------------------------------------------------
LEMMA ClientSafe == Spec => []ClientInv
<1>1. ClientInv /\ [Next]_vars => ClientInv'
  BY HostStep, PassStepInv DEF ClientInv
<1> QED
  BY <1>1, ClientInit, PTL DEF Spec

(* Every variable of a client and its abstract receiver has its type, for  *)
(* any number of datasets (client.py:91-275).                              *)
THEOREM TypeCorrect == Spec => []TypeOK
<1>1. ClientInv => TypeOK
  <2> SUFFICES ASSUME HostInv, PassInv PROVE TypeOK
    BY DEF ClientInv
  <2>1. Reports \subseteq DatasetStatus
    BY DEF Reports, DatasetStatus, Known, Unknown
  <2> QED
    BY <2>1 DEF HostInv, PassInv, Checks, TypeOK
<1> QED
  BY <1>1, ClientSafe, PTL

(* A pass with a result has attempted every dataset it found locked or     *)
(* unmounted, for any number of them and any failures (client.py:194-222). *)
THEOREM NoneForgotten == Spec => []EveryLockedAttempted
<1>1. ClientInv => EveryLockedAttempted
  BY DEF ClientInv
<1> QED
  BY <1>1, ClientSafe, PTL

(* When a pass reports "unreachable", each of its status checks had ended  *)
(* at the connection, none with an answer, a refusal or an exception, and  *)
(* nothing was attempted (client.py:94-100, 181-183, 213-214).             *)
THEOREM SilentIfUnreachable == Spec => []UnreachableMeansSilent
<1>1. ClientInv => UnreachableMeansSilent
  BY DEF ClientInv
<1> QED
  BY <1>1, ClientSafe, PTL

-----------------------------------------------------------------------------
(* The truth of a pass that reports success (SuccessTruthful).  A status   *)
(* that is known was so during the pass; and as long as nothing has failed *)
(* all statuses are known, and each dataset the loop has passed was, at    *)
(* some instant, what the verb promises.                                   *)

StatusesTrue ==
  \A i \in Selected :
    /\ statuses[i] = Known("yes", FALSE) => "locked" \in was[i]
    /\ statuses[i] = Known("no", FALSE) => "open" \in was[i]

Kept(i) == was[i] \cap Promised # {}

SoFarSoGood ==
  /\ \A i \in Selected : statuses[i].locked # "unknown"
  /\ \A i \in Selected : i < next => Kept(i)

TruthInv ==
  /\ phase = "idle" => \A i \in Selected : statuses[i] = Pending
  /\ StatusesTrue
  /\ phase \in {"acting", "waiting"} =>
       /\ verb # "status"
       /\ \A i \in Selected : statuses[i] # Pending
       /\ ~failed => SoFarSoGood
  /\ SuccessTruthful

LEMMA KnownReports ==
  ASSUME NEW r \in Reports, r.locked # "unknown"
  PROVE  \/ r = Known("yes", FALSE) /\ r.locked = "yes"
         \/ r = Known("no", FALSE) /\ r.locked = "no"
         \/ r = Known("no", TRUE) /\ r.locked = "no" /\ r.needs_mount
BY DEF Reports, Known, Unknown

(* Within a pass nothing that was seen is forgotten.                       *)
LEMMA WasGrows ==
  ASSUME Next, phase' # "idle", NEW i \in Selected
  PROVE  was[i] \subseteq was'[i]
BY DEF Next, Remember

LEMMA StaysTrue ==
  ASSUME TruthInv, Next, phase' # "idle", verb' = verb, NEW i \in Selected
  PROVE  /\ Kept(i) => Kept(i)'
         /\ statuses'[i] = statuses[i] =>
              /\ statuses'[i] = Known("yes", FALSE) => "locked" \in was'[i]
              /\ statuses'[i] = Known("no", FALSE) => "open" \in was'[i]
<1>1. was[i] \subseteq was'[i] /\ Promised' = Promised
  BY WasGrows DEF Promised
<1>2. Known("yes", FALSE)' = Known("yes", FALSE) /\ Known("no", FALSE)' = Known("no", FALSE)
  OBVIOUS
<1> QED
  BY <1>1, <1>2 DEF Kept, TruthInv, StatusesTrue

LEMMA TruthInit == Init => TruthInv
BY DEF Init, TruthInv, StatusesTrue, SuccessTruthful, Pending, Known

(* A pass that has not ended, and whose loop does not move.                *)
LEMMA SamePassTruth ==
  ASSUME ClientInv, TruthInv, Next, UNCHANGED passVars
  PROVE  TruthInv'
<1>1. CASE phase = "idle"
  <2>1. \A i \in Selected : statuses'[i] = Pending
    BY <1>1 DEF TruthInv, passVars
  <2>2. StatusesTrue'
    BY <2>1 DEF StatusesTrue, Pending, Known
  <2>3. outcome' = "none"
    <3>1. outcome = "none"
      BY <1>1 DEF ClientInv, PassInv
    <3> QED
      BY <3>1 DEF passVars
  <2> QED
    BY <1>1, <2>1, <2>2, <2>3 DEF TruthInv, SuccessTruthful, Promised, passVars
<1>2. CASE phase # "idle"
  <2>1. StatusesTrue' /\ \A i \in Selected : Kept(i) => Kept(i)'
    BY <1>2, StaysTrue DEF passVars, StatusesTrue
  <2> QED
    BY <1>2, <2>1 DEF TruthInv, passVars, SoFarSoGood, SuccessTruthful, Kept
<1> QED
  BY <1>1, <1>2

LEMMA LearnTruth ==
  ASSUME ClientInv, TruthInv, Next, NEW i \in Selected, NEW how \in Checks, NEW r \in Reports,
         Learn(i, how, r),
         r = Known("yes", FALSE) => "locked" \in was[i],
         r = Known("no", FALSE) => "open" \in was[i]
  PROVE  TruthInv'
<1>1. phase' = "asking" /\ verb' = verb /\ outcome' = outcome /\ outcome = "none"
  BY DEF Learn, ClientInv, PassInv
<1>2. StatusesTrue'
  <2> SUFFICES ASSUME NEW j \in Selected
               PROVE  /\ statuses'[j] = Known("yes", FALSE) => "locked" \in was'[j]
                      /\ statuses'[j] = Known("no", FALSE) => "open" \in was'[j]
    BY DEF StatusesTrue
  <2>1. CASE j = i
    BY <1>1, <2>1, WasGrows DEF Learn, ClientInv, PassInv
  <2>2. CASE j # i
    BY <1>1, <2>2, StaysTrue DEF Learn, ClientInv, PassInv
  <2> QED
    BY <2>1, <2>2
<1> QED
  BY <1>1, <1>2 DEF TruthInv, SuccessTruthful

(* One more dataset is passed, as promised or as a failure.                *)
LEMMA AdvanceTruth ==
  ASSUME ClientInv, TruthInv, Next, NEW good \in BOOLEAN, Advance(good),
         phase \in {"acting", "waiting"}, next \in Selected,
         UNCHANGED <<verb, statuses, outcome>>,
         good /\ ~failed => Kept(next)
  PROVE  TruthInv'
<1>1. phase' = "acting" /\ outcome = "none"
  BY DEF Advance, ClientInv, PassInv
<1>2. StatusesTrue' /\ \A i \in Selected : Kept(i) => Kept(i)'
  BY <1>1, StaysTrue DEF StatusesTrue
<1>3. ASSUME ~failed' PROVE SoFarSoGood'
  <2>1. good /\ ~failed
    BY <1>3 DEF Advance
  <2>2. SoFarSoGood /\ Kept(next)
    BY <2>1 DEF TruthInv
  <2>3. ASSUME NEW i \in Selected, i < next + 1
        PROVE  Kept(i)
    BY <2>2, <2>3, SelectedAssumption DEF SoFarSoGood, Selected
  <2> QED
    BY <1>2, <2>2, <2>3 DEF SoFarSoGood, Advance
<1> QED
  BY <1>1, <1>2, <1>3 DEF TruthInv, SuccessTruthful

(* A known status that the verb does not want shows what it promises.      *)
LEMMA UnwantedKept ==
  ASSUME ClientInv, TruthInv, NEW i \in Selected, ~Wanted(i),
         statuses[i] # Pending, statuses[i].locked # "unknown", verb # "status"
  PROVE  Kept(i)
<1>0. statuses[i] \in Reports
  BY DEF ClientInv, PassInv
<1>1. \/ statuses[i] = Known("yes", FALSE) /\ statuses[i].locked = "yes"
      \/ statuses[i] = Known("no", FALSE) /\ statuses[i].locked = "no"
      \/ statuses[i].locked = "no" /\ statuses[i].needs_mount
  BY <1>0, KnownReports
<1>2. verb \in {"unlock", "lock", "force"}
  BY VerbsAssumption DEF ClientInv, PassInv, AllVerbs
<1>3. CASE verb = "unlock"
  <2>1. statuses[i] = Known("no", FALSE)
    BY <1>1, <1>3 DEF Wanted
  <2> QED
    BY <1>3, <2>1 DEF TruthInv, StatusesTrue, Kept, Promised
<1>4. CASE verb \in {"lock", "force"}
  <2>1. statuses[i] = Known("yes", FALSE)
    BY <1>1, <1>4 DEF Wanted
  <2> QED
    BY <1>4, <2>1 DEF TruthInv, StatusesTrue, Kept, Promised
<1> QED
  BY <1>2, <1>3, <1>4

LEMMA GatheredTruth ==
  ASSUME ClientInv, TruthInv, Next, Gathered
  PROVE  TruthInv'
<1>1. /\ phase' \in {"done", "acting"} /\ UNCHANGED <<verb, statuses, next>>
      /\ \A i \in Selected : statuses[i] # Pending
      /\ next = 1 /\ outcome = "none"
  BY DEF Gathered, End, ClientInv, PassInv
<1>2. StatusesTrue' /\ \A i \in Selected : Kept(i) => Kept(i)'
  BY <1>1, StaysTrue DEF StatusesTrue
<1>3. CASE verb = "status" /\ End(StatusResult)
  <2>1. ASSUME outcome' = "ok", NEW i \in Selected PROVE Kept(i)
    <3>1. statuses[i].locked # "unknown" /\ ~statuses[i].needs_mount
      BY <1>3, <2>1 DEF End, StatusResult, AnyUnknown, AnyUnmounted
    <3>2. statuses[i] \in {Known("yes", FALSE), Known("no", FALSE)}
      BY <1>1, <3>1 DEF ClientInv, PassInv, Reports, Known, Unknown
    <3> QED
      BY <1>3, <3>2 DEF TruthInv, StatusesTrue, Kept, Promised
  <2> QED
    BY <1>1, <1>2, <1>3, <2>1 DEF End, TruthInv, SuccessTruthful, Kept
<1>4. CASE End("unreachable")
  BY <1>1, <1>2, <1>4 DEF End, TruthInv, SuccessTruthful
<1>5. CASE verb # "status" /\ phase' = "acting" /\ failed' = AnyUnknown /\ UNCHANGED outcome
  <2>1. ~failed' => SoFarSoGood'
    BY <1>1, <1>5, SelectedAssumption DEF SoFarSoGood, AnyUnknown, Selected
  <2> QED
    BY <1>1, <1>2, <1>5, <2>1 DEF TruthInv, SuccessTruthful
<1> QED
  BY <1>3, <1>4, <1>5 DEF Gathered

LEMMA TruthInductive == ClientInv /\ TruthInv /\ [Next]_vars => TruthInv'
<1> SUFFICES ASSUME ClientInv, TruthInv, [Next]_vars PROVE TruthInv'
  OBVIOUS
<1>0. CASE UNCHANGED vars
  BY <1>0 DEF vars, passVars, TruthInv, StatusesTrue, SoFarSoGood, SuccessTruthful, Kept, Promised
<1> SUFFICES ASSUME Next PROVE TruthInv'
  BY <1>0
<1>1. ASSUME NEW v \in Verbs, Begin(v) PROVE TruthInv'
  <2>1. /\ phase' = "asking" /\ outcome' = "none"
        /\ \A i \in Selected : statuses'[i] = Pending
    BY <1>1 DEF Begin, TruthInv, ClientInv, PassInv
  <2> QED
    BY <2>1 DEF TruthInv, StatusesTrue, SuccessTruthful, Pending, Known
<1>2. ASSUME NEW i \in Selected,
             StatusAnswered(i) \/ StatusRefused(i) \/ StatusRaised(i) \/ StatusUnreached(i)
      PROVE  TruthInv'
  <2>1. CASE StatusAnswered(i)
    <3>1. PICK s \in was[i] : Learn(i, "answered", FromAnswer(s))
      BY <2>1 DEF StatusAnswered
    <3>2. s \in States
      BY DEF ClientInv, HostInv
    <3>3. /\ FromAnswer(s) = Known("yes", FALSE) => s = "locked"
          /\ FromAnswer(s) = Known("no", FALSE) => s = "open"
      BY <3>2 DEF States, FromAnswer, Known, Unknown
    <3> QED
      BY <3>1, <3>2, <3>3, AnswerReports, LearnTruth DEF Checks
  <2>2. CASE StatusRefused(i) \/ StatusRaised(i) \/ StatusUnreached(i)
    <3>1. PICK c \in BOOLEAN, how \in Checks : Learn(i, how, Unknown(c))
      BY <2>2 DEF StatusRefused, StatusRaised, StatusUnreached, Checks
    <3>2. /\ Unknown(c) \in Reports
          /\ Unknown(c) # Known("yes", FALSE) /\ Unknown(c) # Known("no", FALSE)
      BY DEF Reports, Known, Unknown
    <3> QED
      BY <3>1, <3>2, LearnTruth
  <2> QED
    BY <1>2, <2>1, <2>2
<1>3. CASE Skip
  <2>1. ~failed => Kept(next)
    BY <1>3, UnwantedKept DEF Skip, TruthInv, SoFarSoGood
  <2> QED
    BY <1>3, <2>1, AdvanceTruth DEF Skip
<1>4. CASE Command
  <2>1. CASE Advance(FALSE)
    BY <1>4, <2>1, AdvanceTruth DEF Command
  <2>2. CASE phase' \in {"waiting", "crashed"} /\ UNCHANGED <<next, failed>>
    <3>1. phase = "acting" /\ UNCHANGED <<verb, statuses, outcome>> /\ outcome = "none"
      BY <1>4 DEF Command, ClientInv, PassInv
    <3>2. StatusesTrue' /\ \A i \in Selected : Kept(i) => Kept(i)'
      BY <2>2, <3>1, StaysTrue DEF StatusesTrue
    <3> QED
      BY <2>2, <3>1, <3>2 DEF TruthInv, SoFarSoGood, SuccessTruthful
  <2> QED
    BY <1>4, <2>1, <2>2 DEF Command
<1>5. CASE CommandReturns
  <2>1. PICK answer \in Answers : Advance(answer = "succeeded")
    BY <1>5 DEF CommandReturns
  <2>2. verb \in {"unlock", "lock", "force"}
    BY <1>5, VerbsAssumption DEF CommandReturns, ClientInv, LoopInv, PassInv, AllVerbs
  <2>3. answer = "succeeded" => Kept(next)
    BY <2>2 DEF Answers, Goal, Kept, Promised
  <2> QED
    BY <1>5, <2>1, <2>3, AdvanceTruth DEF CommandReturns, ClientInv, LoopInv
<1>6. CASE CommandLost
  BY <1>6, AdvanceTruth DEF CommandLost, ClientInv, LoopInv
<1>7. CASE Finish
  <2>1. /\ phase = "acting" /\ next = N + 1 /\ phase' = "done"
        /\ UNCHANGED <<verb, statuses>> /\ (outcome' = "ok" => ~failed)
    BY <1>7 DEF Finish, End
  <2>2. StatusesTrue' /\ \A i \in Selected : Kept(i) => Kept(i)'
    BY <2>1, StaysTrue DEF StatusesTrue
  <2>3. ASSUME ~failed, NEW i \in Selected PROVE Kept(i)
    BY <2>1, <2>3, SelectedAssumption DEF TruthInv, SoFarSoGood, Selected
  <2> QED
    BY <2>1, <2>2, <2>3 DEF TruthInv, SuccessTruthful, Kept
<1>8. CASE Leave
  BY <1>8 DEF Leave, TruthInv, StatusesTrue, SuccessTruthful, Pending, Known
<1>9. CASE UNCHANGED passVars
  BY <1>9, SamePassTruth
<1> QED
  BY <1>1, <1>2, <1>3, <1>4, <1>5, <1>6, <1>7, <1>8, <1>9, GatheredTruth
     DEF Next, PassStep, Execute, CommandLate, HostChanges

(* A pass that reports success was right about every dataset at some       *)
(* instant of the pass, for any number of datasets and commands given up   *)
(* on, and whatever else changes the host (client.py:186-275).             *)
THEOREM SuccessTells == Spec => []SuccessTruthful
<1>1. TruthInv => SuccessTruthful
  BY DEF TruthInv
<1> QED
  BY <1>1, ClientSafe, TruthInit, TruthInductive, PTL DEF Spec
=============================================================================
