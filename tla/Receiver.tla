------------------------------ MODULE Receiver ------------------------------
(***************************************************************************)
(* The restricted receiver (zfs_unlock/receiver.py and the `receiver`      *)
(* command of cli.py).  sshd starts one process, a session here, for each  *)
(* request; sessions share the host and the allowlist file and nothing     *)
(* else, and no lock orders them.  Each session is a straight line of      *)
(* `zfs` commands, one action per command, so that the commands of other   *)
(* sessions fall between them.                                             *)
(***************************************************************************)
EXTENDS ZfsHost

CONSTANTS
  Session,      \* the receiver processes that may run at the same time
  Commands,     \* the argument lists each session may be started with
  Passphrases,  \* what may arrive on the stdin of each
  AllowLists    \* the contents the allowlist file may have

VARIABLES
  allow,        \* the allowlist file
  pc,           \* what a session does next
  req,          \* its validated request
  allowed,      \* its cached copy of the allowlist
  stdin,        \* its stdin_text
  todo,         \* the datasets its mount or unmount loop has left
  resp          \* its answer

sessionVars == <<pc, req, allowed, stdin, todo, resp>>
vars == <<hostVars, allow, sessionVars>>

Actions == {"status", "unlock", "lock"}
Stdin == {"right", "wrong", "empty", "refused"}
Request == [action : Actions, dataset : Dataset, force : BOOLEAN]
NoRequest == [action |-> "none", dataset |-> NoRoot, force |-> FALSE]
Words == {"locked", "unlocked", "unlocked-unmounted", "unknown"}
Labels == {"idle", "stdin", "keystatus", "loadkey", "list", "mount",
           "listmounted", "unload", "done"}

ASSUME AllowListsAssumption == AllowLists \subseteq SUBSET Dataset /\ AllowLists # {}
ASSUME PassphrasesAssumption == \A s \in Session : Passphrases[s] \subseteq Stdin
ASSUME CommandsAssumption ==
  \A s \in Session : \A args \in Commands[s] :
    Len(args) \in 0..3 /\ (Len(args) >= 2 => args[2] \in Dataset)

TypeOK ==
  /\ HostTypeOK
  /\ allow \in AllowLists
  /\ pc \in [Session -> Labels]
  /\ req \in [Session -> Request \cup {NoRequest}]
  /\ allowed \in [Session -> SUBSET Dataset]
  /\ stdin \in [Session -> Stdin \cup {"none"}]
  /\ todo \in [Session -> SUBSET Dataset]
  /\ resp \in [Session -> Words \cup {"none", "error"}]

Init ==
  /\ HostInit
  /\ allow \in AllowLists
  /\ pc = [s \in Session |-> "idle"]
  /\ req = [s \in Session |-> NoRequest]
  /\ allowed = [s \in Session |-> {}]
  /\ stdin = [s \in Session |-> "none"]
  /\ todo = [s \in Session |-> {}]
  /\ resp = [s \in Session |-> "none"]

-----------------------------------------------------------------------------
(* parse: the shape of the arguments, then the name, then the allowlist.   *)

Safe(n) == \A i \in DOMAIN n : n[i] \in SafeSegment

WellFormed(args) ==
  /\ Len(args) >= 2
  /\ \/ args[1] \in {"status", "unlock"} /\ Len(args) = 2
     \/ args[1] = "lock" /\ (Len(args) = 3 => args[3] = "--force")

Validated(args, list) == WellFormed(args) /\ Safe(args[2]) /\ args[2] \in list

RequestOf(args) ==
  [action |-> args[1], dataset |-> args[2], force |-> Len(args) = 3]

FirstStep(r) ==
  CASE r.action = "unlock" -> "stdin"
    [] r.action = "status" -> "keystatus"
    [] r.action = "lock" /\ r.force  -> "listmounted"
    [] r.action = "lock" /\ ~r.force -> "unload"

Goto(s, label) == pc' = [pc EXCEPT ![s] = label]

(* The process prints its answer and has nothing left to do on the host.   *)
Reply(s, word) ==
  /\ Goto(s, "done")
  /\ resp' = [resp EXCEPT ![s] = word]
  /\ todo' = [todo EXCEPT ![s] = {}]
  /\ stdin' = [stdin EXCEPT ![s] = "none"]
  /\ UNCHANGED <<req, allowed>>

Continue(s, label) ==
  Goto(s, label) /\ UNCHANGED <<req, allowed, stdin, todo, resp>>

ContinueWith(s, label, datasets) ==
  /\ Goto(s, label)
  /\ todo' = [todo EXCEPT ![s] = datasets]
  /\ UNCHANGED <<req, allowed, stdin, resp>>

-----------------------------------------------------------------------------
(* sshd starts the forced command; the arguments are validated, and the    *)
(* allowlist is read and cached, before any stdin is.                      *)
Accept(s, args) ==
  /\ pc[s] = "idle"
  /\ allowed' = [allowed EXCEPT ![s] = allow]
  /\ IF Validated(args, allow)
     THEN /\ req' = [req EXCEPT ![s] = RequestOf(args)]
          /\ Goto(s, FirstStep(RequestOf(args)))
          /\ UNCHANGED resp
     ELSE /\ resp' = [resp EXCEPT ![s] = "error"]
          /\ Goto(s, "done")
          /\ UNCHANGED req
  /\ UNCHANGED <<hostVars, allow, stdin, todo>>

(* _read_passphrase: refused when too long or not UTF-8.                   *)
ReadStdin(s, text) ==
  /\ pc[s] = "stdin"
  /\ IF text = "refused"
     THEN Reply(s, "error")
     ELSE /\ stdin' = [stdin EXCEPT ![s] = text]
          /\ Goto(s, "keystatus")
          /\ UNCHANGED <<req, allowed, todo, resp>>
  /\ UNCHANGED <<hostVars, allow>>

(* A variant that answers a status request with the words of zfs.          *)
AfterKeystatusVerbatim(s, status) ==
  CASE req[s].action = "status" -> Reply(s, status)
    [] req[s].action # "status" -> Continue(s, "list")

(* The keystatus read that _status and _unlock begin with.                 *)
AfterKeystatus(s, status) ==
  CASE status = "available" -> Continue(s, "list")
    [] status # "available" /\ req[s].action = "status" ->
         Reply(s, IF status = "unavailable" THEN "locked" ELSE "unknown")
    [] status # "available" /\ req[s].action = "unlock" ->
         IF stdin[s] = "empty" THEN Reply(s, "error") ELSE Continue(s, "loadkey")

ReadKeystatus(s) ==
  /\ pc[s] = "keystatus"
  /\ \E ok \in BOOLEAN :
       /\ ZfsRead(ok)
       /\ IF ok THEN AfterKeystatus(s, Keystatus(req[s].dataset))
                ELSE Reply(s, "error")
  /\ UNCHANGED allow

LoadKey(s) ==
  /\ pc[s] = "loadkey"
  /\ \E ok \in BOOLEAN :
       /\ ZfsLoadKey(req[s].dataset, stdin[s] = "right", ok)
       /\ IF ok THEN Continue(s, "list") ELSE Reply(s, "error")
  /\ UNCHANGED allow

-----------------------------------------------------------------------------
(* A variant that trusts the listing to stay inside the subtree.           *)
RowsAcceptedAnywhere(d, rows) == \A n \in rows : Safe(n)

(* _subtree_rows refuses a listing with a name it would not have accepted  *)
(* or that lies outside the target.                                        *)
RowsAccepted(d, rows) == \A n \in rows : Safe(n) /\ IsPrefix(d, n)

Unmounted(n) ==
  /\ CanMount[n] = "on"
  /\ n \notin mounted
  /\ Keystatus(n) # "unavailable"
  /\ MountPoint[n] \notin {"none", "legacy"}

UnmountedMountable(rows) == {n \in rows : Unmounted(n)}

(* _unmounted_mountable: one listing, then the mountpoint of each          *)
(* candidate.  The mountpoint is a constant of the host, so the reads are  *)
(* one step with the listing; ~ok is a failure of any of them.             *)
ListUnmounted(s) ==
  /\ pc[s] = "list"
  /\ LET d == req[s].dataset IN
     \E ok \in BOOLEAN : \E rows \in {{}} \cup {Subtree(d) \cup {x} : x \in Dataset} :
       /\ ZfsList(d, rows, ok)
       /\ IF ~ok \/ ~RowsAccepted(d, rows)
          THEN Reply(s, "error")
          ELSE LET pending == UnmountedMountable(rows) IN
               IF req[s].action = "unlock"
               THEN ContinueWith(s, "mount", pending)
               ELSE Reply(s, IF pending = {} THEN "unlocked" ELSE "unlocked-unmounted")
  /\ UNCHANGED allow

(* A variant that mounts in any order.                                     *)
AnyOf(S) == S

Shallowest(S) == {n \in S : \A m \in S : Len(n) <= Len(m)}
Deepest(S) == {n \in S : \A m \in S : Len(n) >= Len(m)}

(* A variant that goes on to the next dataset when a mount fails.          *)
MountNextRegardless(s) ==
  /\ pc[s] = "mount"
  /\ \E n \in Shallowest(todo[s]), ok \in BOOLEAN :
       /\ ZfsMount(n, ok)
       /\ ContinueWith(s, "mount", todo[s] \ {n})
  /\ UNCHANGED allow

(* _mount_subtree: parents first, stops at the first failure.              *)
MountNext(s) ==
  /\ pc[s] = "mount"
  /\ \E n \in Shallowest(todo[s]), ok \in BOOLEAN :
       /\ ZfsMount(n, ok)
       /\ IF ok THEN ContinueWith(s, "mount", todo[s] \ {n}) ELSE Reply(s, "error")
  /\ UNCHANGED allow

MountsDone(s) ==
  /\ pc[s] = "mount"
  /\ todo[s] = {}
  /\ Reply(s, "unlocked")
  /\ UNCHANGED <<hostVars, allow>>

-----------------------------------------------------------------------------
(* _mounted_datasets, for lock --force.                                    *)
ListMounted(s) ==
  /\ pc[s] = "listmounted"
  /\ LET d == req[s].dataset IN
     \E ok \in BOOLEAN : \E rows \in {{}} \cup {Subtree(d) \cup {x} : x \in Dataset} :
       /\ ZfsList(d, rows, ok)
       /\ IF ok /\ RowsAccepted(d, rows)
          THEN ContinueWith(s, "unload", rows \cap mounted)
          ELSE Reply(s, "error")
  /\ UNCHANGED allow

(* Children first, stops at the first failure and then keeps the key.      *)
UnmountNext(s) ==
  /\ pc[s] = "unload"
  /\ \E n \in Deepest(todo[s]), ok \in BOOLEAN :
       /\ ZfsUnmount(n, ok)
       /\ IF ok THEN ContinueWith(s, "unload", todo[s] \ {n}) ELSE Reply(s, "error")
  /\ UNCHANGED allow

(* A variant that does not look at the exit status of unload-key.          *)
UnloadKeysUnchecked(s) ==
  /\ pc[s] = "unload"
  /\ todo[s] = {}
  /\ \E ok \in BOOLEAN : ZfsUnloadKeys(req[s].dataset, ok)
  /\ Reply(s, "locked")
  /\ UNCHANGED allow

UnloadKeys(s) ==
  /\ pc[s] = "unload"
  /\ todo[s] = {}
  /\ \E ok \in BOOLEAN :
       /\ ZfsUnloadKeys(req[s].dataset, ok)
       /\ Reply(s, IF ok THEN "locked" ELSE "error")
  /\ UNCHANGED allow

-----------------------------------------------------------------------------
EndSession(s) ==
  /\ Goto(s, "idle")
  /\ req' = [req EXCEPT ![s] = NoRequest]
  /\ allowed' = [allowed EXCEPT ![s] = {}]
  /\ stdin' = [stdin EXCEPT ![s] = "none"]
  /\ todo' = [todo EXCEPT ![s] = {}]
  /\ resp' = [resp EXCEPT ![s] = "none"]

(* The process exits with its answer written.                              *)
Exit(s) == pc[s] = "done" /\ EndSession(s) /\ UNCHANGED <<hostVars, allow>>

(* The process is killed between two of its commands.                      *)
Die(s) ==
  /\ pc[s] # "idle"
  /\ Fault
  /\ EndSession(s)
  /\ UNCHANGED <<keyLoaded, mounted, shadows, allow>>

(* The administrator, or a configuration switch, rewrites the allowlist.   *)
EditAllowlist ==
  /\ allow' \in AllowLists \ {allow}
  /\ UNCHANGED <<hostVars, sessionVars>>

Reboot ==
  /\ HostReboot
  /\ pc' = [s \in Session |-> "idle"]
  /\ req' = [s \in Session |-> NoRequest]
  /\ allowed' = [s \in Session |-> {}]
  /\ stdin' = [s \in Session |-> "none"]
  /\ todo' = [s \in Session |-> {}]
  /\ resp' = [s \in Session |-> "none"]
  /\ UNCHANGED allow

HandleStep(s) ==
  \/ ReadKeystatus(s)
  \/ LoadKey(s)
  \/ ListUnmounted(s)
  \/ MountNext(s)
  \/ MountsDone(s)
  \/ ListMounted(s)
  \/ UnmountNext(s)
  \/ UnloadKeys(s)

SessionStep(s) ==
  \/ \E text \in Passphrases[s] : ReadStdin(s, text)
  \/ HandleStep(s)
  \/ Exit(s)

Next ==
  \/ \E s \in Session : \E args \in Commands[s] : Accept(s, args)
  \/ \E s \in Session : SessionStep(s) \/ Die(s)
  \/ EditAllowlist
  \/ Reboot

Spec == Init /\ [][Next]_vars

-----------------------------------------------------------------------------
(* The status words as the receiver documents them, taken at one instant   *)
(* (receiver.py:145-173): with its key loaded, a dataset is unlocked when  *)
(* nothing mountable in its subtree is left unmounted.                     *)
TrueStatus(d) ==
  CASE Keystatus(d) = "-" -> "unknown"
    [] Keystatus(d) = "unavailable" -> "locked"
    [] Keystatus(d) = "available" ->
         IF UnmountedMountable(Subtree(d)) = {} THEN "unlocked" ELSE "unlocked-unmounted"

(* Every change to the host is made by a running session, inside the       *)
(* subtree of the dataset it was asked for, which its allowlist names: only *)
(* an unlock loads keys and mounts, only a lock unloads keys, and only a    *)
(* forced lock unmounts (receiver.py:200-218, 255-301).                    *)
Serves(s, action, n) ==
  /\ <<pc[s], todo[s]>>' # <<pc[s], todo[s]>>
  /\ req[s].action = action
  /\ req[s].dataset \in allowed[s]
  /\ n \in Subtree(req[s].dataset)

AuthorisedStep ==
  \/ Reboot
  \/ /\ \A r \in keyLoaded' \ keyLoaded : \E s \in Session : Serves(s, "unlock", r)
     /\ \A r \in keyLoaded \ keyLoaded' : \E s \in Session : Serves(s, "lock", r)
     /\ \A n \in mounted' \ mounted : \E s \in Session : Serves(s, "unlock", n)
     /\ \A n \in mounted \ mounted' :
          \E s \in Session : Serves(s, "lock", n) /\ req[s].force

Authorised == [][AuthorisedStep]_vars

(* No dataset is mounted over a mounted descendant, which would hide the   *)
(* descendant's files: what "parents first" is for (receiver.py:255-269).  *)
(* It is about all sessions together, each of which orders only its own    *)
(* mounts.                                                                 *)
NothingHidden == shadows = {}

(* Conditions under which NothingHidden holds: no allowlisted dataset lies *)
(* below another, no client forces a lock, and an unencrypted dataset has  *)
(* no encrypted ancestor.                                                  *)
Antichain(S) == \A d, e \in S : IsPrefix(d, e) => d = e
AsksForce(args) == Len(args) = 3 /\ args[1] = "lock"
Prudent ==
  /\ Antichain(UNION AllowLists)
  /\ \A s \in Session : \A args \in Commands[s] : ~AsksForce(args)
  /\ \A p, c \in Dataset : EncRoot[c] = NoRoot /\ c \in Subtree(p) => EncRoot[p] = NoRoot
=============================================================================
