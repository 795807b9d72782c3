------------------------------- MODULE Client -------------------------------
(***************************************************************************)
(* One client process (zfs_unlock/client.py): passes of `unlock`, `lock`   *)
(* and `status` over the selected datasets.  A pass asks for all statuses  *)
(* at once and then, from the answers, commands one dataset at a time.     *)
(* Between the two, and while a command is under way, the host may change: *)
(* it reboots, another client acts, or a command this client gave up       *)
(* waiting for is carried out after all, since killing the local ssh       *)
(* (process.py:79-87) does not stop the receiver.                          *)
(*                                                                         *)
(* The receiver is abstracted to what it promises: a command moves its     *)
(* dataset, one step after another, between the states the status words    *)
(* name, and what an answer says was so at some instant of the pass.       *)
(* Module System shows that the receiver of module Receiver is like that.  *)
(***************************************************************************)
EXTENDS Integers, FiniteSets

CONSTANTS
  N,            \* the selected datasets are 1..N, in configuration order
  Verbs,        \* the commands the user runs, a subset of AllVerbs
  Secret,       \* what reading each dataset's secret may come to
  MaxFaults     \* how often something else changes a dataset (bound)

VARIABLES
  state,        \* the datasets on the host
  verb, phase,  \* the running pass
  statuses,     \* what the status checks returned
  next,         \* the dataset the loop has come to
  failed,       \* the flag `failed` (run_unlock), ~success (run_lock)
  outcome,      \* the result of the pass
  late,         \* commands given up on that the receiver may still carry out
  checks,       \* history: how each status check of the pass has ended
  attempted,    \* history: datasets client.unlock or client.lock was called for
  was,          \* the states each dataset has had during the pass
  faults

hostVars == <<state, faults>>
passVars == <<verb, phase, statuses, next, failed, outcome, checks, attempted>>
vars == <<hostVars, passVars, late, was>>

AllVerbs == {"unlock", "lock", "force", "status"}
States   == {"locked", "unmounted", "open", "plain"}
Selected == 1..N

(* "unresolvable": reading raises neither OSError nor UnicodeDecodeError,  *)
(* as expanduser does with RuntimeError for "~user" without such a user.   *)
SecretOutcomes == {"readable", "unreadable", "unresolvable"}

ASSUME SelectedAssumption == N \in Nat \ {0}
ASSUME VerbsAssumption == Verbs \subseteq AllVerbs
ASSUME SecretAssumption == Secret \in [Selected -> SUBSET SecretOutcomes]
ASSUME FaultsAssumption == MaxFaults \in Nat

(* DatasetStatus: locked is None when unknown, here "unknown".             *)
DatasetStatus ==
  [locked : {"yes", "no", "unknown"}, connection_error : BOOLEAN, needs_mount : BOOLEAN]
Known(locked, needs_mount) ==
  [locked |-> locked, connection_error |-> FALSE, needs_mount |-> needs_mount]
Unknown(connection_error) ==
  [locked |-> "unknown", connection_error |-> connection_error, needs_mount |-> FALSE]
Pending == [locked |-> "pending", connection_error |-> FALSE, needs_mount |-> FALSE]

TypeOK ==
  /\ state \in [Selected -> States]
  /\ verb \in Verbs
  /\ phase \in {"idle", "asking", "acting", "waiting", "done", "crashed"}
  /\ statuses \in [Selected -> DatasetStatus \cup {Pending}]
  /\ next \in 1..(N + 1)
  /\ failed \in BOOLEAN
  /\ outcome \in {"none", "ok", "failed", "unreachable"}
  /\ late \subseteq (AllVerbs \X Selected)
  /\ checks \in [Selected -> {"none", "answered", "refused", "raised", "unreached"}]
  /\ attempted \subseteq Selected
  /\ was \in [Selected -> SUBSET States]
  /\ faults \in 0..MaxFaults

Init ==
  /\ state \in [Selected -> States]
  /\ verb \in Verbs
  /\ phase = "idle"
  /\ statuses = [i \in Selected |-> Pending]
  /\ next = 1
  /\ failed = FALSE
  /\ outcome = "none"
  /\ late = {}
  /\ checks = [i \in Selected |-> "none"]
  /\ attempted = {}
  /\ was = [i \in Selected |-> {}]
  /\ faults = 0

-----------------------------------------------------------------------------
(* The status checks, under way at the same time (_lock_statuses).         *)

Begin(v) ==
  /\ phase = "idle"
  /\ phase' = "asking"
  /\ verb' = v
  /\ UNCHANGED <<statuses, next, failed, outcome, checks, attempted, late, hostVars>>

(* A variant that keeps the word, whatever it is.                          *)
FromAnswerVerbatim(s) == Known(s, FALSE)

(* is_locked, for each word the receiver may answer.                       *)
FromAnswer(s) ==
  CASE s = "locked"    -> Known("yes", FALSE)
    [] s = "open"      -> Known("no", FALSE)
    [] s = "unmounted" -> Known("no", TRUE)
    [] s = "plain"     -> Unknown(FALSE)

(* A check ends, in the way `how`, and is recorded as `status`.            *)
Learn(i, how, status) ==
  /\ phase = "asking"
  /\ statuses[i] = Pending
  /\ statuses' = [statuses EXCEPT ![i] = status]
  /\ checks' = [checks EXCEPT ![i] = how]
  /\ UNCHANGED <<verb, phase, next, failed, outcome, attempted, late, hostVars>>

StatusAnswered(i) == \E s \in was[i] : Learn(i, "answered", FromAnswer(s))

(* The receiver exits with a return code of its own.                       *)
StatusRefused(i) == Learn(i, "refused", Unknown(FALSE))

(* A variant that takes whatever went wrong for the connection.            *)
StatusRaisedUnreached(i) == Learn(i, "raised", Unknown(TRUE))

(* gather hands back an exception: the check was cancelled, or expanduser  *)
(* found no home for the ssh key's path.  Not a connection error.          *)
StatusRaised(i) == Learn(i, "raised", Unknown(FALSE))

(* ssh exits with 255, the command times out, or ssh cannot be started.    *)
StatusUnreached(i) == Learn(i, "unreached", Unknown(TRUE))

-----------------------------------------------------------------------------
(* What a pass makes of the statuses once it has them all.                 *)

End(result) ==
  /\ phase' = "done"
  /\ outcome' = result
  /\ UNCHANGED <<verb, statuses, next, failed, checks, attempted>>

AnyUnknown == \E i \in Selected : statuses[i].locked = "unknown"
AnyUnmounted == \E i \in Selected : statuses[i].needs_mount

NoneReached == \A i \in Selected : statuses[i].connection_error

StatusResult == IF AnyUnknown \/ AnyUnmounted THEN "failed" ELSE "ok"

Gathered ==
  /\ phase = "asking"
  /\ \A i \in Selected : statuses[i] # Pending
  /\ \/ verb = "status" /\ End(StatusResult)
     \/ verb = "unlock" /\ NoneReached /\ End("unreachable")
     \/ /\ verb \in {"lock", "force"} \/ (verb = "unlock" /\ ~NoneReached)
        /\ phase' = "acting"
        /\ failed' = AnyUnknown
        /\ UNCHANGED <<verb, statuses, next, outcome, checks, attempted>>
  /\ UNCHANGED <<late, hostVars>>

(* A variant that leaves an unlocked dataset unmounted.                    *)
WantedLockedOnly(i) == statuses[i].locked = (IF verb = "unlock" THEN "yes" ELSE "no")

(* A dataset the pass commands: for run_unlock a locked or an unmounted    *)
(* one, for run_lock an unlocked one.                                      *)
Wanted(i) ==
  \/ verb = "unlock" /\ (statuses[i].locked = "yes" \/ statuses[i].needs_mount)
  \/ verb \in {"lock", "force"} /\ statuses[i].locked = "no"

(* A variant that gives up after the first failure.                        *)
AdvanceUnlessFailed(ok) ==
  /\ phase' = "acting"
  /\ next' = IF ok THEN next + 1 ELSE N + 1
  /\ failed' = (failed \/ ~ok)

Advance(ok) ==
  /\ phase' = "acting"
  /\ next' = next + 1
  /\ failed' = (failed \/ ~ok)

Skip ==
  /\ phase = "acting"
  /\ next \in Selected
  /\ ~Wanted(next)
  /\ Advance(TRUE)
  /\ UNCHANGED <<verb, statuses, outcome, checks, attempted, late, hostVars>>

(* unlock reads the secret first; only two kinds of error are handled.     *)
Command ==
  /\ phase = "acting"
  /\ next \in Selected
  /\ Wanted(next)
  /\ attempted' = attempted \cup {next}
  /\ \E secret \in (IF verb = "unlock" THEN Secret[next] ELSE {"readable"}) :
       \/ secret = "readable" /\ phase' = "waiting" /\ UNCHANGED <<next, failed>>
       \/ secret = "unreadable" /\ Advance(FALSE)
       \/ secret = "unresolvable" /\ phase' = "crashed" /\ UNCHANGED <<next, failed>>
  /\ UNCHANGED <<verb, statuses, outcome, checks, late, hostVars>>

-----------------------------------------------------------------------------
(* What the receiver does with a command, and the state it has reached     *)
(* when it answers that it succeeded.                                      *)
Moves(v, s) ==
  CASE s = "plain"     -> {}
    [] s = "locked"    -> IF v = "unlock" THEN {"unmounted", "open"} ELSE {}
    [] s = "unmounted" -> IF v = "unlock" THEN {"open"} ELSE {"locked"}
    [] s = "open"      -> CASE v = "unlock" -> {}
                            [] v = "lock"   -> {"locked"}
                            [] v = "force"  -> {"unmounted", "locked"}

Goal(v) == IF v = "unlock" THEN "open" ELSE "locked"

Carry(v, i) == \E s \in Moves(v, state[i]) : state' = [state EXCEPT ![i] = s]

Execute ==
  /\ phase = "waiting"
  /\ Carry(verb, next)
  /\ UNCHANGED <<passVars, late, faults>>

Answers == {"refused"} \cup (IF Goal(verb) \in was[next] THEN {"succeeded"} ELSE {})

(* A variant that takes any answer for success.                            *)
CommandReturnsUnchecked ==
  /\ phase = "waiting"
  /\ \E answer \in Answers : Advance(TRUE)
  /\ UNCHANGED <<verb, statuses, outcome, checks, attempted, late, hostVars>>

CommandReturns ==
  /\ phase = "waiting"
  /\ \E answer \in Answers : Advance(answer = "succeeded")
  /\ UNCHANGED <<verb, statuses, outcome, checks, attempted, late, hostVars>>

(* The connection breaks or command_timeout runs out.  The receiver may    *)
(* have finished, have never begun, or still be at work on the command.    *)
CommandLost ==
  /\ phase = "waiting"
  /\ Advance(FALSE)
  /\ late' \in {late, late \cup {<<verb, next>>}}
  /\ UNCHANGED <<verb, statuses, outcome, checks, attempted, hostVars>>

CommandLate(v, i) ==
  /\ <<v, i>> \in late
  /\ late' \in {late, late \ {<<v, i>>}}
  /\ Carry(v, i) \/ UNCHANGED state
  /\ UNCHANGED <<passVars, faults>>

Finish ==
  /\ phase = "acting"
  /\ next = N + 1
  /\ End(IF failed THEN "failed" ELSE "ok")
  /\ UNCHANGED <<late, hostVars>>

(* The next command of the user, or the daemon's next pass; after an       *)
(* uncaught exception, by the service manager's restart.                   *)
Leave ==
  /\ phase \in {"done", "crashed"}
  /\ phase' = "idle"
  /\ statuses' = [i \in Selected |-> Pending]
  /\ next' = 1
  /\ failed' = FALSE
  /\ outcome' = "none"
  /\ checks' = [i \in Selected |-> "none"]
  /\ attempted' = {}
  /\ UNCHANGED <<verb, late, hostVars>>

(* A reboot locks every encrypted dataset and ends the receivers; another  *)
(* client moves one dataset.                                               *)
Reboot ==
  /\ state' = [i \in Selected |-> IF state[i] = "plain" THEN "plain" ELSE "locked"]
  /\ late' = {}

OtherClient(i) ==
  /\ state[i] # "plain"
  /\ \E s \in States \ {"plain"} : state' = [state EXCEPT ![i] = s]
  /\ UNCHANGED late

HostChanges ==
  /\ faults < MaxFaults
  /\ faults' = faults + 1
  /\ Reboot \/ \E i \in Selected : OtherClient(i)
  /\ UNCHANGED passVars

-----------------------------------------------------------------------------
Remember ==
  was' = [i \in Selected |-> IF phase' = "idle" THEN {} ELSE was[i] \cup {state[i], state'[i]}]

PassStep ==
  \/ \E i \in Selected :
       StatusAnswered(i) \/ StatusRefused(i) \/ StatusRaised(i) \/ StatusUnreached(i)
  \/ Gathered
  \/ Skip
  \/ Command
  \/ CommandReturns
  \/ CommandLost
  \/ Finish

Next ==
  /\ \/ \E v \in Verbs : Begin(v)
     \/ PassStep
     \/ Execute
     \/ \E v \in AllVerbs, i \in Selected : CommandLate(v, i)
     \/ Leave
     \/ HostChanges
  /\ Remember

Spec == Init /\ [][Next]_vars

-----------------------------------------------------------------------------
Promised ==
  CASE verb = "unlock" -> {"open"}
    [] verb \in {"lock", "force"} -> {"locked"}
    [] verb = "status" -> {"open", "locked"}

(* A pass that reports success tells the truth about every dataset at some *)
(* instant of the pass: open after `unlock`, locked after `lock`, and one  *)
(* of the two, never unmounted, for `status` (client.py:186-275).          *)
SuccessTruthful ==
  outcome = "ok" => \A i \in Selected : was[i] \cap Promised # {}

AllWantedAttempted == \A i \in Selected : Wanted(i) => i \in attempted

(* A pass that ends has attempted every dataset it found locked, or        *)
(* unlocked but unmounted, whatever became of the others                   *)
(* (client.py:194-200); likewise for `lock`.                               *)
EveryLockedAttempted ==
  phase = "done" /\ outcome # "unreachable" => AllWantedAttempted

(* "Every locked dataset gets an unlock attempt even when others fail"     *)
(* (client.py:196), also when one fails with an exception.                 *)
AttemptedWhenOthersFail == phase = "crashed" => AllWantedAttempted

(* "unreachable" is reported only when every status check ended at the     *)
(* connection, none with an answer, a refusal or an exception, and then    *)
(* nothing was attempted (client.py:181-183, 194-214): the daemon polls    *)
(* fast for a receiver that is down, and not because a pass was cancelled. *)
UnreachableMeansSilent ==
  outcome = "unreachable" =>
    attempted = {} /\ \A i \in Selected : checks[i] = "unreached"
=============================================================================
