------------------------------- MODULE Daemon -------------------------------
(***************************************************************************)
(* The polling loop of `zfs-unlock unlock --daemon` (cli.py:101-147), in   *)
(* discrete time.  A pass is an interval of time at whose end its outcome  *)
(* is known; it is "unreachable" only if the receiver could not be reached *)
(* at some point of the pass, and otherwise only if it could.  The loop    *)
(* reads the monotonic clock, and sleeps.                                  *)
(***************************************************************************)
EXTENDS Integers

CONSTANTS
  Interval,         \* --interval
  PanicInterval,    \* PANIC_INTERVAL_SECONDS
  PanicMax,         \* PANIC_MODE_MAX_SECONDS
  ProbeMax,         \* the longest an unreachable pass lasts
  PassMax,          \* the longest any pass lasts
  MaxTime           \* how far the clock runs (bound)

VARIABLES
  now,              \* time.monotonic()
  up,               \* the receiver can be reached
  changedAt,        \* when `up` last changed
  mode,             \* in a pass, asleep, or stopped by KeyboardInterrupt
  since,            \* when that began
  currentInterval, reachable, panicStarted,   \* the loop's variables
  fastSleeps,       \* history: fast sleeps since the receiver was last reached
  missedAt          \* history: when it was first missed after that

loopVars == <<currentInterval, reachable, panicStarted, fastSleeps, missedAt>>
vars == <<now, up, changedAt, mode, since, loopVars>>

ASSUME DaemonAssumption ==
  /\ Interval \in Nat /\ PanicInterval \in Nat \ {0} /\ PanicMax \in Nat
  /\ ProbeMax \in Nat /\ PassMax \in Nat /\ MaxTime \in Nat
  /\ PanicInterval <= Interval
  /\ ProbeMax <= PassMax

TypeOK ==
  /\ now \in 0..MaxTime
  /\ up \in BOOLEAN
  /\ changedAt \in 0..now
  /\ mode \in {"pass", "sleep", "stopped"}
  /\ since \in 0..now
  /\ currentInterval \in {Interval, PanicInterval}
  /\ reachable \in BOOLEAN
  /\ panicStarted \in 0..now
  /\ fastSleeps \in Nat
  /\ missedAt \in 0..now

Init ==
  /\ now = 0
  /\ up \in BOOLEAN
  /\ changedAt = 0
  /\ mode = "pass"
  /\ since = 0
  /\ currentInterval = Interval
  /\ reachable = TRUE
  /\ panicStarted = 0
  /\ fastSleeps = 0
  /\ missedAt = 0

-----------------------------------------------------------------------------
(* What a pass that began at `since` and ends now can have found.          *)
Unchanged      == changedAt < since \/ changedAt = 0
UpThroughout   == up /\ Unchanged
DownThroughout == ~up /\ Unchanged

(* A variant that takes the time of the pass off the sleep.                *)
SleepNetOfPass(interval) ==
  /\ currentInterval' = interval - (now - since)
  /\ mode' = "sleep"
  /\ since' = now

Sleep(interval) ==
  /\ currentInterval' = interval
  /\ mode' = "sleep"
  /\ since' = now

(* Variants: one starts the panic window again at every unreachable pass,  *)
(* one starts it only once.                                                *)
PanicWindowRenewed == now
PanicWindowStale == panicStarted

(* panic_started, set by the first unreachable pass after a reached one.   *)
PanicWindow == IF reachable THEN now ELSE panicStarted

PassUnreachable ==
  /\ mode = "pass"
  /\ ~UpThroughout
  /\ now - since <= ProbeMax
  /\ panicStarted' = PanicWindow
  /\ reachable' = FALSE
  /\ missedAt' = IF reachable THEN now ELSE missedAt
  /\ IF now - panicStarted' < PanicMax
     THEN Sleep(PanicInterval) /\ fastSleeps' = fastSleeps + 1
     ELSE Sleep(Interval) /\ UNCHANGED fastSleeps
  /\ UNCHANGED <<now, up, changedAt>>

(* The outcomes ok and failed differ in what is printed only.              *)
PassReached ==
  /\ mode = "pass"
  /\ ~DownThroughout
  /\ reachable' = TRUE
  /\ Sleep(Interval)
  /\ fastSleeps' = 0
  /\ UNCHANGED <<now, up, changedAt, panicStarted, missedAt>>

Wake ==
  /\ mode = "sleep"
  /\ now = since + currentInterval
  /\ mode' = "pass"
  /\ since' = now
  /\ UNCHANGED <<now, up, changedAt, loopVars>>

(* KeyboardInterrupt, in the pass or in the sleep.                         *)
Interrupt ==
  /\ mode \in {"pass", "sleep"}
  /\ mode' = "stopped"
  /\ since' = now
  /\ UNCHANGED <<now, up, changedAt, loopVars>>

(* Time does not pass the end of a sleep, nor of the longest pass.         *)
Tick ==
  /\ now < MaxTime
  /\ mode = "sleep" => now < since + currentInterval
  /\ mode = "pass" => now < since + (IF DownThroughout THEN ProbeMax ELSE PassMax)
  /\ now' = now + 1
  /\ UNCHANGED <<up, changedAt, mode, since, loopVars>>

ReceiverChanges ==
  /\ up' = ~up
  /\ changedAt' = now
  /\ changedAt < now
  /\ UNCHANGED <<now, mode, since, loopVars>>

Next ==
  \/ PassUnreachable
  \/ PassReached
  \/ Wake
  \/ Interrupt
  \/ Tick
  \/ ReceiverChanges

Spec == Init /\ [][Next]_vars

-----------------------------------------------------------------------------
(* A receiver that comes back is soon asked again (cli.py:104-109,         *)
(* constants.py:27-30): asleep, with the receiver up and not yet known to  *)
(* be, the daemon wakes at most a probe and a sleep after it came up, and  *)
(* the sleep is a fast one while the outage is younger than PanicMax.      *)
Prompt ==
  mode = "sleep" /\ up /\ ~reachable =>
    /\ since + currentInterval <= changedAt + ProbeMax + Interval
    /\ changedAt + ProbeMax < missedAt + PanicMax =>
         since + currentInterval <= changedAt + ProbeMax + PanicInterval

(* An outage, however long, costs a bounded number of fast polls: they     *)
(* begin at most PanicMax after the receiver was first missed              *)
(* (cli.py:106-115).                                                       *)
HammeringBounded ==
  fastSleeps > 0 => (fastSleeps - 1) * PanicInterval < PanicMax
=============================================================================
