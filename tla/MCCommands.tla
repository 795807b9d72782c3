----------------------------- MODULE MCCommands -----------------------------
(***************************************************************************)
(* What the client's machine does by itself: `service`, `keygen` and       *)
(* `doctor`, and the handling of a passphrase.  They share no state, so a  *)
(* behaviour is one of one of them, with the variables of the others idle. *)
(***************************************************************************)
EXTENDS Service

CONSTANTS MaxKeys, Limit, MaxLength, N

ASSUME SizesAssumption == {MaxKeys, Limit, MaxLength, N} \subseteq Nat

VARIABLES
  part,                                                           \* which of them
  file, complete, made, key, overwrite, outcome,                  \* Keygen
  typed, ending, mode, value, stage, text,                        \* Secrets
  identity, secret, ssh, resolves, connects, filtered, selected,  \* Doctor
  next, ok, answers, exit

Parts == {"service", "keygen", "secrets", "doctor"}

Keygen  == INSTANCE Keygen
Secrets == INSTANCE Secrets
Doctor  == INSTANCE Doctor

serviceVars == <<platform, onPath, unit, loaded, enabled, running, argv, reported>>
keygenVars  == <<file, complete, made, key, overwrite, outcome>>
secretVars  == <<typed, ending, value, stage, text>>
doctorVars  == <<identity, secret, ssh, resolves, connects, filtered, selected,
                 next, ok, answers, exit>>
shared      == <<pc, faults, mode>>

Idle(component) ==
  CASE component = "service" ->
         /\ platform = None /\ onPath = None /\ unit = None /\ loaded = None /\ enabled = FALSE
         /\ running = None /\ argv = None /\ reported = "nothing"
    [] component = "keygen" ->
         /\ file = None /\ complete = None /\ made = None
         /\ key = None /\ overwrite = None /\ outcome = None
    [] component = "secrets" ->
         typed = None /\ ending = None /\ value = None /\ stage = None /\ text = None
    [] component = "doctor" ->
         /\ identity = None /\ secret = None /\ ssh = None /\ resolves = None /\ connects = None
         /\ filtered = None /\ selected = None /\ next = None /\ ok = None /\ answers = None /\ exit = None

PartInit ==
  /\ part \in Parts
  /\ \A other \in Parts \ {part} : Idle(other)
  /\ CASE part = "service" -> Init /\ mode = None
       [] part = "keygen"  -> Keygen!Init /\ mode = None
       [] part = "secrets" -> Secrets!Init /\ pc = None /\ faults = 0
       [] part = "doctor"  -> Doctor!Init /\ faults = 0

PartNext ==
  /\ UNCHANGED part
  /\ \/ part = "service" /\ Next /\ UNCHANGED <<keygenVars, secretVars, doctorVars, mode>>
     \/ part = "keygen" /\ Keygen!Next /\ UNCHANGED <<serviceVars, secretVars, doctorVars, mode>>
     \/ part = "secrets" /\ Secrets!Next /\ UNCHANGED <<serviceVars, keygenVars, doctorVars, pc, faults>>
     \/ part = "doctor" /\ Doctor!Next /\ UNCHANGED <<serviceVars, keygenVars, secretVars, faults>>

PartSpec == PartInit /\ [][PartNext]_<<part, serviceVars, keygenVars, secretVars, doctorVars, shared>>

-----------------------------------------------------------------------------
(* Each part's variables have their types.                                 *)
PartTypeOK ==
  CASE part = "service" -> TypeOK
    [] part = "keygen"  -> Keygen!TypeOK
    [] part = "secrets" -> Secrets!TypeOK
    [] part = "doctor"  -> Doctor!TypeOK

(* The properties of modules Keygen, Secrets and Doctor, as they are       *)
(* stated there; those of Service hold of its idle variables.              *)

(* An installed key file goes only for the run's new one, written to its   *)
(* end (keygen.py:33-55).                                                  *)
PairChanges == [][part = "keygen" => Keygen!PairChangesStep]_<<keygenVars, shared>>

(* On a partial install the private key wins (keygen.py:57-59).            *)
PrivateWins == part = "keygen" => Keygen!PrivateWins

(* What is reported as created is a whole pair (keygen.py:46-67).          *)
CreatedIsPair == part = "keygen" => Keygen!CreatedIsPair

(* A passphrase arrives as it was typed (config.py:54-58, cli.py:178-181). *)
RoundTrip == part = "secrets" => Secrets!RoundTrip

(* A passphrase is refused exactly if it is too long (cli.py:178-186).     *)
CapExact == part = "secrets" => Secrets!CapExact

(* Exit code 0 of doctor stands for all it checks: files, ssh, host,       *)
(* filters and statuses (diagnostics.py:161-178).                          *)
CleanBill == part = "doctor" => Doctor!CleanBill

(* Doctor finds nothing wrong where nothing is (diagnostics.py:38-153).    *)
NoFalseAlarm == part = "doctor" => Doctor!NoFalseAlarm
=============================================================================
