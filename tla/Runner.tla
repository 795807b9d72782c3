------------------------------- MODULE Runner -------------------------------
(***************************************************************************)
(* SubprocessRunner.run (process.py:19-98): one command, in discrete time. *)
(* communicate() returns when the child has exited and nobody holds its    *)
(* pipes any more; a grandchild may hold them longer than the child lives, *)
(* and a child in an uninterruptible sleep does not die of SIGKILL.        *)
(***************************************************************************)
EXTENDS Integers

CONSTANTS
  CommandTimeout,   \* command_timeout
  DrainTimeout,     \* _KILL_DRAIN_TIMEOUT
  MaxTime           \* how far the clock runs (bound)

VARIABLES
  now, began,       \* the clock; when `run` had its child started
  pc, since,        \* what `run` awaits, and since when
  child,            \* the process; "exited" by itself, "killed" by SIGKILL
  stuck,            \* it sleeps uninterruptibly
  holders,          \* who holds the write ends of its pipes
  noticed,          \* process.returncode is not None
  signalled,        \* kill() was called
  cancelled,        \* the task was cancelled
  result            \* what `run` returned or raised

envVars == <<stuck, holders, noticed>>
vars == <<now, began, pc, since, child, envVars, signalled, cancelled, result>>

ASSUME RunnerAssumption ==
  CommandTimeout \in Nat \ {0} /\ DrainTimeout \in Nat \ {0} /\ MaxTime \in Nat

(* What `run` awaits: create_subprocess_exec, or its end when cancelled,   *)
(* before it holds the process, and three waits of its own after.          *)
Starting == {"spawn", "close"}
Awaiting == Starting \cup {"communicate", "drain", "wait"}
Dead == child \in {"exited", "killed"}

TypeOK ==
  /\ now \in 0..MaxTime /\ began \in 0..now /\ since \in 0..now
  /\ pc \in Awaiting \cup {"start", "ended"}
  /\ child \in {"none", "running", "exited", "killed"}
  /\ stuck \in BOOLEAN /\ noticed \in BOOLEAN
  /\ signalled \in BOOLEAN /\ cancelled \in BOOLEAN
  /\ holders \subseteq {"child", "grandchild"}
  /\ result \in {"none", "startup_error", "returncode", "timeout", "cancelled"}

Init ==
  /\ now = 0 /\ began = 0 /\ since = 0
  /\ pc = "start"
  /\ child = "none"
  /\ stuck = FALSE /\ noticed = FALSE /\ signalled = FALSE /\ cancelled = FALSE
  /\ holders = {}
  /\ result = "none"

(* A variant that keeps the deadline of a wait instead of its start.       *)
AwaitDeadline(what) == pc' = what /\ since' = now + DrainTimeout /\ UNCHANGED result

Await(what) == pc' = what /\ since' = now /\ UNCHANGED result
End(what)   == pc' = "ended" /\ result' = what /\ UNCHANGED since

-----------------------------------------------------------------------------
(* The child runs before create_subprocess_exec has returned.              *)
Start ==
  /\ pc = "start"
  /\ \/ Await("spawn") /\ child' = "running" /\ holders' = {"child"}
     \/ End("startup_error") /\ UNCHANGED <<child, holders>>
  /\ UNCHANGED <<now, began, stuck, noticed, signalled, cancelled>>

Spawned ==
  /\ pc = "spawn"
  /\ began' = now
  /\ Await("communicate")
  /\ UNCHANGED <<now, child, envVars, signalled, cancelled>>

Drained == Dead /\ noticed /\ holders = {}

CommunicateReturns ==
  /\ pc = "communicate"
  /\ Drained
  /\ End("returncode")
  /\ UNCHANGED <<now, began, child, envVars, signalled, cancelled>>

(* TimeoutError or CancelledError: kill, unless it is known to be dead.    *)
Kill == signalled' = (signalled \/ ~noticed)

TimesOut ==
  /\ pc = "communicate"
  /\ now = since + CommandTimeout
  /\ Kill
  /\ Await("drain")
  /\ UNCHANGED <<now, began, child, envVars, cancelled>>

(* Cancelled in create_subprocess_exec: asyncio kills a child that still   *)
(* runs and waits, for as long as it takes, to learn that it is dead.      *)
CancelStart ==
  /\ pc = "spawn"
  /\ signalled' = (signalled \/ child = "running")
  /\ Await("close")

Closed ==
  /\ pc = "close"
  /\ Dead /\ noticed
  /\ End("cancelled")
  /\ UNCHANGED <<now, began, child, envVars, signalled, cancelled>>

(* A variant that leaves the child of a cancelled task alone.              *)
CancelWithoutKill ==
  /\ pc \in Awaiting
  /\ cancelled' = TRUE
  /\ CancelStart \/ (pc # "spawn" /\ End("cancelled") /\ UNCHANGED signalled)
  /\ UNCHANGED <<now, began, child, envVars>>

(* Cancelled once, `run` drains before it raises; in that wait, it raises. *)
Cancel ==
  /\ pc \in Awaiting
  /\ cancelled' = TRUE
  /\ \/ CancelStart
     \/ pc = "communicate" /\ Kill /\ Await("drain")
     \/ pc \in {"close", "drain", "wait"} /\ End("cancelled") /\ UNCHANGED signalled
  /\ UNCHANGED <<now, began, child, envVars>>

(* A variant that returns what the child exited with after all.            *)
AfterDrainReturncode ==
  End(IF child = "exited" THEN "returncode" ELSE IF cancelled THEN "cancelled" ELSE "timeout")

AfterDrain == End(IF cancelled THEN "cancelled" ELSE "timeout")

(* _drain_killed_process: communicate again, then only wait for the child. *)
DrainReturns ==
  /\ \/ pc = "drain" /\ Drained
     \/ pc = "wait" /\ Dead /\ noticed
     \/ pc = "wait" /\ now = since + DrainTimeout
  /\ AfterDrain
  /\ UNCHANGED <<now, began, child, envVars, signalled, cancelled>>

DrainTimesOut ==
  /\ pc = "drain"
  /\ now = since + DrainTimeout
  /\ Await("wait")
  /\ UNCHANGED <<now, began, child, envVars, signalled, cancelled>>

-----------------------------------------------------------------------------
(* The child, its grandchild, and the event loop that learns of its end.   *)
ChildEnds ==
  /\ child = "running" /\ ~stuck
  /\ child' \in {"exited"} \cup (IF signalled THEN {"killed"} ELSE {})
  /\ holders' = holders \ {"child"}
  /\ UNCHANGED <<now, began, pc, since, stuck, noticed, signalled, cancelled, result>>

ChildChanges ==
  /\ child = "running"
  /\ \/ holders' = holders \cup {"grandchild"} /\ UNCHANGED stuck
     \/ stuck' = ~stuck /\ UNCHANGED holders
  /\ UNCHANGED <<now, began, pc, since, child, noticed, signalled, cancelled, result>>

GrandchildCloses ==
  /\ "grandchild" \in holders
  /\ holders' = holders \ {"grandchild"}
  /\ UNCHANGED <<now, began, pc, since, child, stuck, noticed, signalled, cancelled, result>>

Notice ==
  /\ Dead /\ ~noticed
  /\ noticed' = TRUE
  /\ UNCHANGED <<now, began, pc, since, child, stuck, holders, signalled, cancelled, result>>

(* A variant whose last wait is not bounded.                               *)
DueUnlessWaiting ==
  /\ pc = "communicate" => now < since + CommandTimeout
  /\ pc = "drain" => now < since + DrainTimeout

(* Time does not pass the end of a wait, nor linger over a SIGKILL.        *)
Due ==
  /\ pc = "communicate" => now < since + CommandTimeout
  /\ pc \in {"drain", "wait"} => now < since + DrainTimeout

Tick ==
  /\ now < MaxTime
  /\ Due
  /\ ~(signalled /\ child = "running" /\ ~stuck)
  /\ now' = now + 1
  /\ UNCHANGED <<began, pc, since, child, envVars, signalled, cancelled, result>>

Next ==
  \/ Start \/ Spawned \/ Closed \/ CommunicateReturns \/ TimesOut \/ Cancel \/ DrainReturns \/ DrainTimesOut
  \/ ChildEnds \/ ChildChanges \/ GrandchildCloses \/ Notice
  \/ Tick

Spec == Init /\ [][Next]_vars

-----------------------------------------------------------------------------
(* A command that has been started is never awaited for longer than its    *)
(* timeout and two drains, whatever the child and those who inherited its  *)
(* pipes do (process.py:13-16, 24-28).                                     *)
Bounded ==
  pc \in Awaiting \ Starting => now <= began + CommandTimeout + 2 * DrainTimeout

(* When `run` has ended, in whichever way and cancelled at whichever of    *)
(* its awaits, the start included, a child still running has been sent     *)
(* SIGKILL (process.py:66-71, 80-81, 89-90).                               *)
NoneLeftAlone ==
  pc = "ended" /\ child = "running" => signalled

(* A return code is the child's own, come in time and with all its output; *)
(* a timeout is never reported early; and a cancelled task never returns a *)
(* result (process.py:74-98).                                              *)
ResultTruthful ==
  /\ result = "returncode" => child = "exited" /\ holders = {} /\ ~signalled /\ ~cancelled
  /\ result = "timeout" => now >= began + CommandTimeout /\ ~cancelled
  /\ result # "none" /\ cancelled => result = "cancelled"
=============================================================================
