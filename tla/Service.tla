------------------------------ MODULE Service ------------------------------
(***************************************************************************)
(* `zfs-unlock service` (service.py:21-30, 84-226) against the service     *)
(* managers of Linux (systemd) and macOS (launchd), whose commands may     *)
(* fail.  Four things must come to agree: the unit file, what the manager  *)
(* has loaded, what the next boot starts, and the daemon that runs.        *)
(***************************************************************************)
EXTENDS Integers

CONSTANTS
  Executable,   \* the executables `zfs-unlock` may resolve to
  Platforms,    \* a subset of AllPlatforms
  MaxFaults     \* how often a command fails or is cut off (bound)

VARIABLES
  platform, onPath,   \* the system; what `zfs-unlock` on PATH resolves to
  unit,         \* the executable the unit file or plist names
  loaded,       \* the definition the manager has loaded
  enabled,      \* the unit is wanted at boot (systemd)
  running,      \* the executable of the running daemon
  pc, argv,     \* the `service` command under way
  reported,     \* what the last one to end has reported
  faults

managerVars == <<loaded, enabled, running>>
vars == <<platform, onPath, unit, managerVars, pc, argv, reported, faults>>

AllPlatforms == {"Linux", "Darwin"}
None    == "none"
Partial == "partial"    \* a truncated unit file

ASSUME ServiceAssumption ==
  /\ Platforms \subseteq AllPlatforms /\ MaxFaults \in Nat
  /\ {None, Partial} \cap Executable = {}

TypeOK ==
  /\ platform \in Platforms /\ onPath \in Executable \cup {None}
  /\ unit \in Executable \cup {None, Partial}
  /\ loaded \in Executable \cup {None} /\ running \in Executable \cup {None}
  /\ enabled \in BOOLEAN
  /\ pc \in {"idle", "write", "reload", "start", "load", "stop", "disable", "unload",
             "unlink", "reload_gone"}
  /\ argv \in Executable \cup {None}
  /\ reported \in {"nothing", "failed", "installed", "uninstalled", "not_installed", "ACTIVE", "INACTIVE"}
  /\ faults \in 0..MaxFaults

Init ==
  /\ platform \in Platforms /\ onPath \in Executable
  /\ unit = None /\ loaded = None /\ enabled = FALSE /\ running = None
  /\ pc = "idle" /\ argv = None /\ reported = "nothing"
  /\ faults = 0

Fault == faults < MaxFaults /\ faults' = faults + 1
Report(word) == pc' = "idle" /\ reported' = word /\ UNCHANGED argv
Goto(label)  == pc' = label /\ UNCHANGED <<argv, reported>>

-----------------------------------------------------------------------------
(* The managers' commands.  One that fails does nothing, but an enable     *)
(* --now may have got as far as enabling the unit.                         *)
ReloadVerbatim == loaded' = unit    \* a variant: a truncated unit is loaded too

Reload == loaded' = IF unit \in Executable THEN unit ELSE None

(* enable --now and load start what does not run yet, and restart nothing. *)
(* Launchd refuses to load what is loaded, with or without an exit status. *)
EnableNow ==
  /\ enabled' = TRUE
  /\ running' = IF running = None THEN loaded ELSE running
Load ==
  IF loaded = None THEN loaded' = unit /\ running' = unit ELSE UNCHANGED <<loaded, running>>

(* run_process with check=True: an exit status is an exception.            *)
Required(Effect, after) ==
  \/ Effect /\ after /\ UNCHANGED faults
  \/ Fault /\ Report("failed") /\ UNCHANGED managerVars

(* run_process with check=False.                                           *)
Tried(Effect, after) ==
  /\ after
  /\ (Effect /\ UNCHANGED faults) \/ (Fault /\ UNCHANGED managerVars)

-----------------------------------------------------------------------------
(* install: _daemon_argv, the unit file, the manager.                      *)
Install ==
  /\ pc = "idle"
  /\ IF onPath = None
     THEN Report("failed") /\ UNCHANGED unit
     ELSE /\ argv' = onPath
          /\ pc' = "write"
          /\ reported' = "nothing"
          /\ unit' = Partial
  /\ UNCHANGED <<platform, onPath, managerVars, faults>>

Write ==
  /\ pc = "write"
  /\ unit' = argv
  /\ Goto(IF platform = "Linux" THEN "reload" ELSE "load")
  /\ UNCHANGED <<platform, onPath, managerVars, faults>>

LinuxReload ==
  /\ pc = "reload"
  /\ Required(Reload /\ UNCHANGED <<enabled, running>>, Goto("start"))
  /\ UNCHANGED <<platform, onPath, unit>>

(* A variant that does not look at the exit status.                        *)
LinuxStartUnchecked ==
  /\ pc = "start"
  /\ Tried(EnableNow /\ UNCHANGED loaded, Report("installed"))
  /\ UNCHANGED <<platform, onPath, unit>>

LinuxStart ==
  /\ pc = "start"
  /\ \/ Required(EnableNow /\ UNCHANGED loaded, Report("installed"))
     \/ enabled' = TRUE /\ Fault /\ Report("failed") /\ UNCHANGED <<loaded, running>>
  /\ UNCHANGED <<platform, onPath, unit>>

DarwinLoad ==
  /\ pc = "load"
  /\ Required(Load /\ UNCHANGED enabled, Report("installed"))
  /\ UNCHANGED <<platform, onPath, unit>>

-----------------------------------------------------------------------------
Uninstall ==
  /\ pc = "idle"
  /\ IF unit = None THEN Report("not_installed")
     ELSE /\ pc' = IF platform = "Linux" THEN "stop" ELSE "unload"
          /\ reported' = "nothing"
          /\ UNCHANGED argv
  /\ UNCHANGED <<platform, onPath, unit, managerVars, faults>>

(* A variant that disables the unit, which stops nothing.                  *)
LinuxStopDisables ==
  /\ pc = "stop" /\ Tried(enabled' = FALSE /\ UNCHANGED <<loaded, running>>, Goto("unlink"))
  /\ UNCHANGED <<platform, onPath, unit>>

LinuxStop ==
  /\ \/ pc = "stop" /\ Tried(running' = None /\ UNCHANGED <<loaded, enabled>>, Goto("disable"))
     \/ pc = "disable" /\ Tried(enabled' = FALSE /\ UNCHANGED <<loaded, running>>, Goto("unlink"))
  /\ UNCHANGED <<platform, onPath, unit>>

DarwinUnload ==
  /\ pc = "unload"
  /\ Tried(loaded' = None /\ running' = None /\ UNCHANGED enabled, Goto("unlink"))
  /\ UNCHANGED <<platform, onPath, unit>>

Unlink ==
  /\ pc = "unlink"
  /\ unit' = None
  /\ IF platform = "Linux" THEN Goto("reload_gone") ELSE Report("uninstalled")
  /\ UNCHANGED <<platform, onPath, managerVars, faults>>

LinuxReloadGone ==
  /\ pc = "reload_gone"
  /\ Required(Reload /\ UNCHANGED <<enabled, running>>, Report("uninstalled"))
  /\ UNCHANGED <<platform, onPath, unit>>

(* service status: is-active, or the label among those launchctl lists.    *)
Active == IF platform = "Linux" THEN running # None ELSE loaded # None

Status ==
  /\ pc = "idle"
  /\ \/ Report(IF Active THEN "ACTIVE" ELSE "INACTIVE") /\ UNCHANGED faults
     \/ Report("INACTIVE") /\ Fault
  /\ UNCHANGED <<platform, onPath, unit, managerVars>>

-----------------------------------------------------------------------------
(* What happens meanwhile: the command is cut off, the daemon ends and is  *)
(* restarted unless it ended well, the user installs or removes an         *)
(* executable, the system boots.                                           *)
CutOff ==
  /\ pc # "idle"
  /\ Fault
  /\ Report("failed")
  /\ UNCHANGED <<platform, onPath, unit, managerVars>>

DaemonEnds ==
  /\ running # None
  /\ running' \in {None, loaded}
  /\ UNCHANGED <<platform, onPath, unit, loaded, enabled, pc, argv, reported, faults>>

PathChanges ==
  /\ onPath' \in (Executable \cup {None}) \ {onPath}
  /\ UNCHANGED <<platform, unit, managerVars, pc, argv, reported, faults>>

AtBoot == IF unit \in Executable /\ (platform = "Linux" => enabled) THEN unit ELSE None

Boot ==
  /\ pc = "idle"
  /\ Reload
  /\ running' = AtBoot
  /\ UNCHANGED <<platform, onPath, unit, enabled, pc, argv, reported, faults>>

Next ==
  \/ Install \/ Write \/ LinuxReload \/ LinuxStart \/ DarwinLoad
  \/ Uninstall \/ LinuxStop \/ DarwinUnload \/ Unlink \/ LinuxReloadGone
  \/ Status
  \/ CutOff \/ DaemonEnds \/ PathChanges \/ Boot

Spec == Init /\ [][Next]_vars

-----------------------------------------------------------------------------
(* What the last `install` or `uninstall` reported is what the next boot   *)
(* does, whatever failed or was cut off before it: it starts the daemon    *)
(* pinned by that install, or none (service.py:140, 163, 191, 205).        *)
ReportedAtBoot ==
  /\ reported = "installed" => AtBoot = argv
  /\ reported \in {"uninstalled", "not_installed"} => AtBoot = None

(* An uninstall in whose history nothing failed leaves no daemon and no    *)
(* definition of one behind, on either platform, though the executable     *)
(* moved or the daemon ended and was restarted (service.py:189-191,        *)
(* 201-205).                                                               *)
CleanUninstall ==
  faults = 0 /\ reported \in {"uninstalled", "not_installed"} => running = None /\ loaded = None

(* After `install` has reported success, a daemon that runs is the one it  *)
(* pinned: "so the daemon always runs the same version you installed"      *)
(* (README.md:286).                                                        *)
RunsInstalled ==
  reported = "installed" => running \in {None, argv}
=============================================================================
