--------------------------- MODULE ServiceProofs ---------------------------
(***************************************************************************)
(* What `service` reports is what the next boot does, on either platform   *)
(* and however often its commands fail or are cut off.  The argument is    *)
(* which of its steps a command has come to, and what the unit file says   *)
(* there; what the manager has loaded plays no part in it.                 *)
(***************************************************************************)
EXTENDS Service, TLAPS

LinuxSteps  == {"reload", "start", "stop", "disable", "reload_gone"}
DarwinSteps == {"load", "unload"}

(* Nothing is reported while a command is under way, and its steps are     *)
(* those of its platform.                                                  *)
StepInv ==
  /\ onPath \in Executable \cup {None}
  /\ platform \in {"Linux", "Darwin"}
  /\ pc # "idle" => reported = "nothing"
  /\ pc \in LinuxSteps => platform = "Linux"
  /\ pc \in DarwinSteps => platform = "Darwin"

UnitInv ==
  /\ pc \in {"write", "reload", "start", "load"} => argv \in Executable
  /\ pc \in {"reload", "start", "load"} => unit = argv
  /\ pc = "reload_gone" => unit = None

BootInv == StepInv /\ UnitInv /\ ReportedAtBoot

USE DEF LinuxSteps, DarwinSteps

LEMMA BootInit == Init => BootInv
BY ServiceAssumption DEF Init, BootInv, StepInv, UnitInv, ReportedAtBoot, AtBoot, AllPlatforms

LEMMA BootStep == BootInv /\ [Next]_vars => BootInv'
<1> SUFFICES ASSUME BootInv, [Next]_vars PROVE BootInv'
  OBVIOUS
<1> USE ServiceAssumption DEF BootInv, StepInv, UnitInv, ReportedAtBoot, AtBoot, Report, Goto
<1>1. CASE Install
  BY <1>1 DEF Install, managerVars
<1>2. CASE Write
  BY <1>2 DEF Write, managerVars
<1>3. CASE LinuxReload
  BY <1>3 DEF LinuxReload, Required, Fault, managerVars
<1>4. CASE LinuxStart
  BY <1>4 DEF LinuxStart, Required, EnableNow, Fault, managerVars
<1>5. CASE DarwinLoad
  BY <1>5 DEF DarwinLoad, Required, Fault, managerVars
<1>6. CASE Uninstall
  BY <1>6 DEF Uninstall, managerVars
<1>7. CASE LinuxStop
  BY <1>7 DEF LinuxStop, Tried, Fault, managerVars
<1>8. CASE DarwinUnload
  BY <1>8 DEF DarwinUnload, Tried, Fault, managerVars
<1>9. CASE Unlink
  BY <1>9 DEF Unlink, managerVars
<1>10. CASE LinuxReloadGone
  BY <1>10 DEF LinuxReloadGone, Required, Fault, managerVars
<1>11. CASE Status
  BY <1>11 DEF Status, managerVars
<1>12. CASE CutOff
  BY <1>12 DEF CutOff, managerVars
<1>13. CASE DaemonEnds \/ Boot
  BY <1>13 DEF DaemonEnds, Boot
<1>14. CASE PathChanges
  BY <1>14 DEF PathChanges, managerVars
<1>15. CASE UNCHANGED vars
  BY <1>15 DEF vars, managerVars
<1> QED
  BY <1>1, <1>2, <1>3, <1>4, <1>5, <1>6, <1>7, <1>8, <1>9, <1>10, <1>11, <1>12, <1>13, <1>14, <1>15
     DEF Next

(* After "installed" the next boot starts the executable that install has  *)
(* pinned, and after "uninstalled" or "not installed" none, whatever       *)
(* failed or was cut off before (service.py:121-205).                      *)
THEOREM BootAsReported == Spec => []ReportedAtBoot
<1>1. BootInv => ReportedAtBoot
  BY DEF BootInv
<1> QED
  BY <1>1, BootInit, BootStep, PTL DEF Spec

-----------------------------------------------------------------------------
(* While nothing has failed, what has been stopped stays so, and without a *)
(* unit file nothing is loaded or runs.                                    *)
CleanInv ==
  /\ faults \in Nat
  /\ reported \in {"uninstalled", "not_installed"} => unit = None
  /\ faults = 0 =>
       /\ unit = None /\ pc # "reload_gone" => loaded = None /\ running = None
       /\ pc \in {"disable", "unlink", "reload_gone"} => running = None
       /\ pc = "unlink" /\ platform = "Darwin" => loaded = None

LEMMA CleanStep == BootInv /\ CleanInv /\ [Next]_vars => CleanInv'
<1> SUFFICES ASSUME StepInv, UnitInv, CleanInv, [Next]_vars PROVE CleanInv'
  BY DEF BootInv
<1> USE ServiceAssumption DEF StepInv, UnitInv, CleanInv, Report, Goto, Fault
<1>1. CASE Install
  BY <1>1 DEF Install, None, Partial, managerVars
<1>2. CASE Write
  BY <1>2 DEF Write, managerVars
<1>3. CASE LinuxReload
  BY <1>3 DEF LinuxReload, Required, managerVars
<1>4. CASE LinuxStart
  BY <1>4 DEF LinuxStart, Required, managerVars
<1>5. CASE DarwinLoad
  BY <1>5 DEF DarwinLoad, Required, managerVars
<1>6. CASE Uninstall
  BY <1>6 DEF Uninstall, managerVars
<1>7. CASE LinuxStop
  BY <1>7 DEF LinuxStop, Tried, managerVars
<1>8. CASE DarwinUnload
  BY <1>8 DEF DarwinUnload, Tried, managerVars
<1>9. CASE Unlink
  BY <1>9 DEF Unlink, managerVars
<1>10. CASE LinuxReloadGone
  BY <1>10 DEF LinuxReloadGone, Required, Reload, managerVars
<1>11. CASE Status
  BY <1>11 DEF Status, managerVars
<1>12. CASE CutOff
  BY <1>12 DEF CutOff, managerVars
<1>13. CASE DaemonEnds
  BY <1>13 DEF DaemonEnds
<1>14. CASE Boot
  BY <1>14 DEF Boot, Reload, AtBoot
<1>15. CASE PathChanges
  BY <1>15 DEF PathChanges, managerVars
<1>16. CASE UNCHANGED vars
  BY <1>16 DEF vars, managerVars
<1> QED
  BY <1>1, <1>2, <1>3, <1>4, <1>5, <1>6, <1>7, <1>8, <1>9, <1>10, <1>11, <1>12, <1>13, <1>14,
     <1>15, <1>16 DEF Next

(* On either platform an uninstall in whose history nothing failed leaves  *)
(* nothing running and nothing loaded (service.py:189-191, 201-205).       *)
THEOREM UninstallLeavesNothing == Spec => []CleanUninstall
<1>1. Init => CleanInv
  BY DEF Init, CleanInv
<1>2. CleanInv /\ BootInv => CleanUninstall
  BY DEF CleanInv, CleanUninstall, BootInv, StepInv
<1> QED
  BY <1>1, <1>2, BootInit, BootStep, CleanStep, PTL DEF Spec
=============================================================================
