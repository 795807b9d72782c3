------------------------------- MODULE Keygen -------------------------------
(***************************************************************************)
(* `zfs-unlock keygen` (keygen.py:17-69): ssh-keygen writes a new pair     *)
(* under temporary names, which two renames then install.  A run may fail  *)
(* at any step and be cut off, by a crash, between any two; runs follow    *)
(* one another and find what the earlier ones have left.                   *)
(***************************************************************************)
EXTENDS Integers

CONSTANTS
  MaxKeys,     \* how many pairs are generated (bound)
  MaxFaults    \* how often something fails or crashes (bound)

VARIABLES
  file,        \* the pair each path belongs to, None if there is no file
  complete,    \* the files ssh-keygen has written to their end
  made,        \* the pairs generated so far
  pc, key, overwrite, outcome,   \* the run; `key` is the pair it makes
  faults

vars == <<file, complete, made, pc, key, overwrite, outcome, faults>>

None == 0
Keys == 1..MaxKeys
Installed == {"identity", "public"}
Temporary == {"tmp_identity", "tmp_public"}

TypeOK ==
  /\ file \in [Installed \cup Temporary -> Keys \cup {None}]
  /\ complete \subseteq (Temporary \X Keys)
  /\ made \in Keys \cup {None} /\ key \in Keys \cup {None}
  /\ pc \in {"idle", "clear", "generate", "identity", "public", "replace_identity",
             "replace_public", "cleanup", "done"}
  /\ overwrite \in BOOLEAN
  /\ outcome \in {"none", "created", "refused", "not_generated", "not_installed"}
  /\ faults \in 0..MaxFaults

Init ==
  /\ file = [f \in Installed \cup Temporary |-> None]
  /\ complete = {} /\ made = 0 /\ faults = 0
  /\ pc = "idle" /\ key = None /\ overwrite = FALSE /\ outcome = "none"

Continue(label) == pc' = label /\ UNCHANGED <<key, overwrite, outcome>>
Finish(result, label) == pc' = label /\ outcome' = result /\ UNCHANGED <<key, overwrite>>
Fault == faults < MaxFaults /\ faults' = faults + 1

-----------------------------------------------------------------------------
Taken == \E f \in Installed : file[f] # None

Begin(force) ==
  /\ pc = "idle"
  /\ overwrite' = force
  /\ \/ Taken /\ ~force /\ pc' = "done" /\ outcome' = "refused"
     \/ (~Taken \/ force) /\ pc' = "clear" /\ UNCHANGED outcome
  /\ UNCHANGED <<file, complete, made, key, faults>>

Unlinked(files) == [f \in DOMAIN file |-> IF f \in files THEN None ELSE file[f]]

(* A leftover in its way would make ssh-keygen ask, and so fail.           *)
Clear ==
  /\ pc = "clear"
  /\ file' = Unlinked(Temporary)
  /\ Continue("generate")
  /\ UNCHANGED <<complete, made, faults>>

(* ssh-keygen opens and writes one file, then the other.                   *)
Generate ==
  /\ pc = "generate"
  /\ made < MaxKeys
  /\ file["tmp_identity"] = None
  /\ made' = made + 1
  /\ key' = made'
  /\ file' = [file EXCEPT !["tmp_identity"] = made']
  /\ pc' = "identity"
  /\ UNCHANGED <<complete, overwrite, outcome, faults>>

WriteIdentity ==
  /\ pc = "identity"
  /\ complete' = complete \cup {<<"tmp_identity", key>>}
  /\ file' = [file EXCEPT !["tmp_public"] = key]
  /\ Continue("public")
  /\ UNCHANGED <<made, faults>>

WritePublic ==
  /\ pc = "public"
  /\ complete' = complete \cup {<<"tmp_public", key>>}
  /\ Continue("replace_identity")
  /\ UNCHANGED <<file, made, faults>>

(* A variant that does not look at ssh-keygen's exit status.               *)
GenerateFailsUnchecked ==
  /\ pc \in {"generate", "identity", "public"}
  /\ Fault
  /\ Continue("replace_identity")
  /\ UNCHANGED <<file, complete, made>>

GenerateFails ==
  /\ pc \in {"generate", "identity", "public"}
  /\ Fault
  /\ Finish("not_generated", "cleanup")
  /\ UNCHANGED <<file, complete, made>>

-----------------------------------------------------------------------------
(* A variant that installs the public key first.                           *)
ReplacePublicFirst ==
  [replace_identity |-> <<"tmp_public", "public">>, replace_public |-> <<"tmp_identity", "identity">>]

Replace ==
  [replace_identity |-> <<"tmp_identity", "identity">>, replace_public |-> <<"tmp_public", "public">>]

(* The renames.  The first, with the chmod of both files before it, and    *)
(* the second may each fail with an OSError.                               *)
Install ==
  /\ pc \in DOMAIN Replace
  /\ LET from == Replace[pc][1]
         to   == Replace[pc][2]
     IN \/ /\ file[from] # None
           /\ file' = [file EXCEPT ![to] = file[from], ![from] = None]
           /\ \/ pc = "replace_identity" /\ Continue("replace_public")
              \/ pc = "replace_public" /\ Finish("created", "cleanup")
           /\ UNCHANGED faults
        \/ Fault /\ Finish("not_installed", "cleanup") /\ UNCHANGED file
  /\ UNCHANGED <<complete, made>>

(* The `finally` clause, and the exit with what the run came to.           *)
Cleanup ==
  /\ pc = "cleanup"
  /\ file' = Unlinked(Temporary)
  /\ Continue("done")
  /\ UNCHANGED <<complete, made, faults>>

Leave ==
  /\ pc' = "idle" /\ key' = None /\ outcome' = "none"
  /\ UNCHANGED <<file, complete, made, overwrite>>

Exit  == pc = "done" /\ Leave /\ UNCHANGED faults
Crash == pc \notin {"idle", "done"} /\ Fault /\ Leave

Next ==
  \/ \E force \in BOOLEAN : Begin(force)
  \/ Clear
  \/ Generate
  \/ WriteIdentity
  \/ WritePublic
  \/ GenerateFails
  \/ Install
  \/ Cleanup
  \/ Exit
  \/ Crash

Spec == Init /\ [][Next]_vars

-----------------------------------------------------------------------------
(* Whatever fails and wherever a run is cut off, an installed file goes    *)
(* only when the run's own new key, written to its end, takes its place,   *)
(* and without --overwrite not even then (keygen.py:33-35, 38-55).         *)
Origin == [identity |-> "tmp_identity", public |-> "tmp_public"]

PairChangesStep ==
  \A f \in Installed : file'[f] # file[f] =>
    /\ pc \in DOMAIN Replace
    /\ file'[f] = key /\ key # None
    /\ <<Origin[f], key>> \in complete
    /\ overwrite \/ file[f] = None

PairChanges == [][PairChangesStep]_vars

(* On a partial install, a crash between the renames included, the private *)
(* key wins: the public key is never one whose private key is still to     *)
(* come (keygen.py:57-59).                                                 *)
PrivateWins == file["public"] <= file["identity"]

(* What is reported as created is the whole pair this run has generated    *)
(* (keygen.py:46-67).                                                      *)
CreatedIsPair ==
  outcome = "created" =>
    /\ \A f \in Installed : file[f] = key
    /\ \A f \in Temporary : <<f, key>> \in complete
=============================================================================
