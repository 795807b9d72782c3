------------------------------ MODULE ZfsHost ------------------------------
(***************************************************************************)
(* The OpenZFS host as the receiver uses it: the `zfs` commands of         *)
(* receiver.py, each an action on the loaded keys and the mounted datasets *)
(* with a result `ok` (exit status 0).  Nothing here is code of the        *)
(* repository; it is what that code relies on.                             *)
(*                                                                         *)
(* A dataset name is the sequence of its "/"-separated segments, so the    *)
(* subtree of a dataset is the set of names it is a prefix of.             *)
(***************************************************************************)
EXTENDS Integers, Sequences, FiniteSets, SequencesExt

CONSTANTS
  Segment,      \* the segments dataset names are made of
  SafeSegment,  \* those is_safe_dataset_name accepts
  Dataset,      \* the datasets of the host
  EncRoot,      \* the encryption root of each dataset, NoRoot if unencrypted
  CanMount,     \* its canmount property
  MountPoint,   \* its mountpoint: a path, or the words none and legacy
  MaxFaults     \* how many faults a behaviour may have (bound)

VARIABLES
  keyLoaded,    \* the encryption roots whose key is loaded
  mounted,      \* the mounted datasets
  shadows,      \* <<p, c>>: p was mounted over c's mount point, hiding c
  faults        \* faults so far

hostVars == <<keyLoaded, mounted, shadows, faults>>

NoRoot == << >>

(* zfs list -r: a dataset and everything below it.                         *)
Subtree(d) == {n \in Dataset : IsPrefix(d, n)}
Below(d)   == Subtree(d) \ {d}

ASSUME DatasetAssumption ==
  \A d \in Dataset : d \in Seq(Segment) /\ d # NoRoot

(* A dataset takes its key from itself or from an ancestor that has one.   *)
ASSUME EncRootAssumption ==
  /\ EncRoot \in [Dataset -> Dataset \cup {NoRoot}]
  /\ \A n \in Dataset : EncRoot[n] # NoRoot =>
       /\ n \in Subtree(EncRoot[n])
       /\ EncRoot[EncRoot[n]] = EncRoot[n]

ASSUME PropertyAssumption ==
  /\ CanMount \in [Dataset -> {"on", "off", "noauto"}]
  /\ MountPoint \in [Dataset -> {"path", "none", "legacy"}]

ASSUME MaxFaultsAssumption == MaxFaults \in Nat

Roots == {r \in Dataset : EncRoot[r] = r}

(* zfs get keystatus: "-" for an unencrypted dataset.                      *)
Keystatus(n) ==
  CASE EncRoot[n] = NoRoot       -> "-"
    [] EncRoot[n] \in keyLoaded  -> "available"
    [] OTHER                     -> "unavailable"

(* What `zfs mount -a` mounts, once the key is there.                      *)
AutoMount(n) == CanMount[n] = "on" /\ MountPoint[n] = "path"

(* The boot mounts the unencrypted datasets; no key survives it.           *)
BootMounts == {n \in Dataset : AutoMount(n) /\ EncRoot[n] = NoRoot}

HostTypeOK ==
  /\ keyLoaded \subseteq Roots
  /\ mounted \subseteq Dataset
  /\ shadows \subseteq Dataset \X Dataset
  /\ faults \in 0..MaxFaults

HostInit ==
  /\ keyLoaded = {}
  /\ mounted = BootMounts
  /\ shadows = {}
  /\ faults = 0

Fault == faults < MaxFaults /\ faults' = faults + 1

(* A command that cannot work fails; one that can fails only by a fault.   *)
Outcome(ok, possible) ==
  \/ ok = possible /\ UNCHANGED faults
  \/ ~ok /\ possible /\ Fault

ZfsRead(ok) == Outcome(ok, TRUE) /\ UNCHANGED <<keyLoaded, mounted, shadows>>

(* A listing has the rows of the subtree; by a fault it fails, or holds a  *)
(* row that does not belong to it.                                         *)
ZfsList(d, rows, ok) ==
  /\ \/ ok /\ rows = Subtree(d) /\ UNCHANGED faults
     \/ ok /\ Fault /\ \E x \in Dataset : rows = Subtree(d) \cup {x}
     \/ ~ok /\ rows = {} /\ Fault
  /\ UNCHANGED <<keyLoaded, mounted, shadows>>

(* load-key -L prompt: for an encryption root, with its own passphrase.    *)
ZfsLoadKey(n, right, ok) ==
  /\ Outcome(ok, n \in Roots \ keyLoaded /\ right)
  /\ keyLoaded' = IF ok THEN keyLoaded \cup {n} ELSE keyLoaded
  /\ UNCHANGED <<mounted, shadows>>

(* A dataset mounted over mount points of its descendants hides them.      *)
ZfsMount(n, ok) ==
  /\ Outcome(ok, /\ n \in Dataset \ mounted
                 /\ Keystatus(n) # "unavailable"
                 /\ CanMount[n] # "off"
                 /\ MountPoint[n] = "path")
  /\ mounted' = IF ok THEN mounted \cup {n} ELSE mounted
  /\ shadows' = IF ok THEN shadows \cup ({n} \X (mounted \cap Below(n)))
                      ELSE shadows
  /\ UNCHANGED keyLoaded

(* unmount -f: refused while another file system is mounted inside, and    *)
(* for a hidden one, whose path leads elsewhere.                           *)
ZfsUnmount(n, ok) ==
  /\ Outcome(ok, /\ n \in mounted
                 /\ \A c \in mounted \cap Below(n) : <<n, c>> \in shadows
                 /\ \A p \in Dataset : <<p, n>> \notin shadows)
  /\ mounted' = IF ok THEN mounted \ {n} ELSE mounted
  /\ shadows' = IF ok THEN {e \in shadows : e[1] # n /\ e[2] # n} ELSE shadows
  /\ UNCHANGED keyLoaded

Busy(r) == \E n \in mounted : EncRoot[n] = r

(* unload-key -r: tries every loaded key of the subtree, keeps those in    *)
(* use, and succeeds when it kept none, having found none included.        *)
ZfsUnloadKeys(d, ok) ==
  LET loaded == keyLoaded \cap Subtree(d)
      busy   == {r \in loaded : Busy(r)}
  IN /\ \E kept \in SUBSET loaded :
          /\ busy \subseteq kept
          /\ IF kept = busy THEN UNCHANGED faults ELSE Fault
          /\ ok = (kept = {})
          /\ keyLoaded' = (keyLoaded \ loaded) \cup kept
     /\ UNCHANGED <<mounted, shadows>>

HostReboot ==
  /\ Fault
  /\ keyLoaded' = {}
  /\ mounted' = BootMounts
  /\ shadows' = {}
=============================================================================
