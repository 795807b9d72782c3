------------------------------- MODULE Doctor -------------------------------
(***************************************************************************)
(* `zfs-unlock doctor` (diagnostics.py): checks on this machine, one after *)
(* the other, each ending the command if it fails; then the host; then the *)
(* status of the selected datasets, asked for all at once.                 *)
(***************************************************************************)
EXTENDS Integers

CONSTANT N      \* the configured datasets are 1..N, in order

VARIABLES
  mode, identity, secret,   \* the configuration and the files it names
  ssh, resolves, connects,  \* ssh is on PATH; the name resolves; TCP connects
  filtered,     \* there are -D filters
  selected,     \* the datasets they match, all without filters
  pc,           \* the check that comes next
  next,         \* the dataset the secrets check has come to
  ok,           \* the flag `ok` of the check under way
  answers,      \* what the status checks returned
  exit          \* the exit code

world == <<mode, identity, secret, ssh, resolves, connects, filtered, selected>>
vars == <<world, pc, next, ok, answers, exit>>

Dataset == 1..N
Modes   == {"auto", "files", "inline"}
Files    == {"private", "open", "missing", "tilde"}   \* "tilde": an unknown ~user
Words    == {"locked", "unlocked", "unlocked-unmounted", "unknown"}
Results  == Words \cup {"failed", "raised"}

TypeOK ==
  /\ mode \in Modes
  /\ identity \in Files \cup {"none"}
  /\ secret \in [Dataset -> Files]
  /\ ssh \in BOOLEAN /\ resolves \in BOOLEAN /\ connects \in BOOLEAN
  /\ filtered \in BOOLEAN
  /\ selected \subseteq Dataset
  /\ pc \in {"identity", "secrets", "ssh", "host", "select", "statuses", "ended"}
  /\ next \in 1..(N + 1)
  /\ ok \in BOOLEAN
  /\ answers \in [Dataset -> Results \cup {"none"}]
  /\ exit \in {"none", "0", "1", "crashed"}

Init ==
  /\ mode \in Modes
  /\ identity \in Files \cup {"none"}
  /\ secret \in [Dataset -> Files]
  /\ ssh \in BOOLEAN /\ resolves \in BOOLEAN /\ connects \in BOOLEAN
  /\ filtered \in BOOLEAN
  /\ selected \in IF filtered THEN SUBSET Dataset ELSE {Dataset}
  /\ pc = "identity" /\ next = 1 /\ ok = TRUE
  /\ answers = [i \in Dataset |-> "none"]
  /\ exit = "none"

Goto(check) == pc' = check /\ UNCHANGED exit

End(code) == pc' = "ended" /\ exit' = code

-----------------------------------------------------------------------------
(* _check_identity_file: without one, ssh has its defaults.                *)
CheckIdentity ==
  /\ pc = "identity"
  /\ CASE identity \in {"none", "private"} -> Goto("secrets")
       [] identity \in {"open", "missing"} -> End("1")
       [] identity = "tilde"               -> End("crashed")
  /\ UNCHANGED <<world, next, ok, answers>>

(* Variants: one forgets the datasets before the last, one looks for files *)
(* in inline mode too.                                                     *)
SecretOkLast(i) == mode = "inline" \/ secret[i] = "private" \/ (mode = "auto" /\ secret[i] = "missing")
SecretOkInline(i) == ok /\ (secret[i] = "private" \/ (mode = "auto" /\ secret[i] = "missing"))

SecretOk(i) ==
  /\ ok
  /\ mode = "inline" \/ secret[i] = "private" \/ (mode = "auto" /\ secret[i] = "missing")

(* _check_secret_file_permissions, over all datasets, selected or not.     *)
CheckSecret ==
  /\ pc = "secrets"
  /\ next \in Dataset
  /\ IF secret[next] = "tilde"
     THEN End("crashed") /\ UNCHANGED <<next, ok>>
     ELSE /\ ok' = SecretOk(next)
          /\ next' = next + 1
          /\ UNCHANGED <<pc, exit>>
  /\ UNCHANGED <<world, answers>>

CheckedSecrets ==
  /\ pc = "secrets"
  /\ next = N + 1
  /\ IF ok THEN Goto("ssh") ELSE End("1")
  /\ UNCHANGED <<world, next, ok, answers>>

CheckSsh ==
  /\ pc = "ssh"
  /\ IF ssh THEN Goto("host") ELSE End("1")
  /\ UNCHANGED <<world, next, ok, answers>>

CheckHost ==
  /\ pc = "host"
  /\ ok' = (resolves /\ connects)
  /\ Goto("select")
  /\ UNCHANGED <<world, next, answers>>

(* _select_doctor_datasets: filters that match nothing are an error; a     *)
(* configuration without datasets is not.                                  *)
Select ==
  /\ pc = "select"
  /\ \/ filtered /\ selected = {} /\ End("1")
     \/ ok /\ selected # {} /\ Goto("statuses")
     \/ /\ ~(filtered /\ selected = {}) /\ ~(ok /\ selected # {})
        /\ End(IF ok THEN "0" ELSE "1")
  /\ UNCHANGED <<world, next, ok, answers>>

(* One check returns, or raises.                                           *)
Answered(i) ==
  /\ pc = "statuses"
  /\ i \in selected /\ answers[i] = "none"
  /\ \E result \in Results : answers' = [answers EXCEPT ![i] = result]
  /\ UNCHANGED <<world, pc, next, ok, exit>>

Healthy(result) == result \in {"locked", "unlocked"}

Gathered ==
  /\ pc = "statuses"
  /\ \A i \in selected : answers[i] # "none"
  /\ End(IF \A i \in selected : Healthy(answers[i]) THEN "0" ELSE "1")
  /\ UNCHANGED <<world, next, ok, answers>>

Next ==
  \/ CheckIdentity \/ CheckSecret \/ CheckedSecrets \/ CheckSsh \/ CheckHost \/ Select
  \/ \E i \in Dataset : Answered(i)
  \/ Gathered

Spec == Init /\ [][Next]_vars

-----------------------------------------------------------------------------
(* Exit code 0 stands for all of it: no file that is named is missing or   *)
(* open to others, ssh is there, the host can be reached, the filters      *)
(* match something, and every selected dataset answered that it is locked  *)
(* or unlocked, so that a `status` with these answers succeeds             *)
(* (diagnostics.py:161-178, client.py:263-275).                            *)
CleanBill ==
  exit = "0" =>
    /\ identity \in {"none", "private"}
    /\ \A i \in Dataset : mode # "inline" => secret[i] \in {"private", "missing"}
    /\ mode = "files" => \A i \in Dataset : secret[i] = "private"
    /\ ssh /\ resolves /\ connects
    /\ filtered => selected # {}
    /\ \A i \in selected : answers[i] \in {"locked", "unlocked"}

(* With nothing wrong, doctor reports nothing wrong: a check of one thing  *)
(* does not fail for another (diagnostics.py:38-153).                      *)
NoFalseAlarm ==
  exit = "1" =>
    \/ identity \in {"open", "missing"} \/ ~ssh \/ ~resolves \/ ~connects
    \/ mode # "inline" /\ \E i \in Dataset : secret[i] = "open" \/ (mode = "files" /\ secret[i] = "missing")
    \/ filtered /\ selected = {}
    \/ \E i \in selected : answers[i] \in Results \ {"locked", "unlocked"}
=============================================================================
