---------------------------- MODULE SystemProofs ----------------------------
(***************************************************************************)
(* The receivers are what module Client takes them to be, for every host,  *)
(* set of sessions, number of faults and list of names of which none lies  *)
(* below another, as long as nobody locks: every behaviour of System is    *)
(* one of Client, with the status of the datasets on the host for Client's *)
(* `state` and the unlocks nobody waits for for its `late`.                *)
(***************************************************************************)
EXTENDS System, ReceiverProofs

(* The host and the requests nobody waits for, as Client sees them.        *)
HostState == [i \in Selected |-> StateOf(TrueStatus(Names[i]))]
AtWork(i) == \E s \in Session : Unlocking(s, i)
Late == {c \in {"unlock"} \X Selected : AtWork(c[2])}

(* A session serves one of the client's datasets.  Once it has found the   *)
(* key loaded it stays so, and what is not mounted it has in its list: an  *)
(* unlock has one answer other than an error.                              *)
Serving(s) ==
  /\ pc[s] = "idle" => req[s] = NoRequest
  /\ req[s] # NoRequest =>
       /\ req[s].action \in {"status", "unlock"}
       /\ \E i \in Selected : req[s].dataset = Names[i]
  /\ pc[s] \in {"list", "mount"} => Keystatus(req[s].dataset) = "available"
  /\ pc[s] = "mount" => UnmountedMountable(Subtree(req[s].dataset)) \subseteq todo[s]
  /\ pc[s] = "done" /\ req[s].action = "unlock" => resp[s] \in {"error", "unlocked"}

(* A request is out for a dataset the pass waits for, and what its session *)
(* has answered was so during the pass.                                    *)
Asked(i, s) ==
  /\ pc[s] # "idle"
  /\ \/ req[s] = NoRequest /\ pc[s] = "done" /\ resp[s] = "error"
     \/ /\ req[s] # NoRequest
        /\ req[s].dataset = Names[i]
        /\ req[s].action = IF phase = "asking" THEN "status" ELSE "unlock"
  /\ pc[s] = "done" /\ resp[s] # "error" => StateOf(resp[s]) \in was[i]

Calling(i) ==
  /\ call[i] # NoCall => Requesting(i)
  /\ call[i] \in Session => Asked(i, call[i])

OneCaller == \A i, j \in Selected : call[i] \in Session /\ call[j] = call[i] => j = i

PassInv ==
  /\ verb \in Verbs
  /\ phase = "waiting" => verb = "unlock" /\ next \in Selected
  /\ statuses = [i \in Selected |-> statuses[i]]
  /\ was = [i \in Selected |-> was[i]]
  /\ phase = "idle" => \A i \in Selected : was[i] = {}
  /\ phase # "idle" => \A i \in Selected : HostState[i] \in was[i]
  /\ reboots \in Nat /\ reboots <= faults

SysInv ==
  /\ TypeInv
  /\ \A s \in Session : Serving(s)
  /\ PassInv
  /\ call \in [Selected -> Session \cup {NoCall, Broken}]
  /\ OneCaller
  /\ \A i \in Selected : Calling(i)

-----------------------------------------------------------------------------
(* The datasets of the client keep out of each other's way: nothing below  *)
(* one of them takes its key from another.                                 *)
LEMMA NamesApart ==
  /\ N \in Nat \ {0}
  /\ \A i \in Selected : Names[i] \in Dataset /\ Names[i] \in Subtree(Names[i])
  /\ \A i, j \in Selected : i # j =>
       /\ Names[i] # Names[j] /\ Subtree(Names[i]) \cap Subtree(Names[j]) = {}
       /\ \A n \in Subtree(Names[i]) : EncRoot[n] # Names[j]
<1>1. N \in Nat \ {0} /\ \A i \in Selected : Names[i] \in Dataset
  BY NamesAssumption DEF N, Selected
<1>2. \A i \in Selected : Names[i] \in Subtree(Names[i])
  BY <1>1, SubtreeSelf
<1>3. ASSUME NEW i \in Selected, NEW j \in Selected, i # j
      PROVE  /\ Names[i] # Names[j] /\ Subtree(Names[i]) \cap Subtree(Names[j]) = {}
             /\ \A n \in Subtree(Names[i]) : EncRoot[n] # Names[j]
  <2>1. ~IsPrefix(Names[i], Names[j]) /\ ~IsPrefix(Names[j], Names[i])
    BY <1>3, NamesAssumption
  <2>2. Names[i] \notin Subtree(Names[j]) /\ Names[j] \notin Subtree(Names[i])
    BY <2>1 DEF Subtree
  <2>3. ASSUME NEW n \in Subtree(Names[i]) \cap Subtree(Names[j]) PROVE FALSE
    BY <1>1, <2>2, AncestorsComparable
  <2>4. ASSUME NEW n \in Subtree(Names[i]), EncRoot[n] = Names[j] PROVE FALSE
    <3>1. n \in Dataset /\ Names[j] # NoRoot
      BY <1>1, DatasetAssumption DEF Subtree
    <3>2. n \in Subtree(Names[j])
      BY <2>4, <3>1, EncRootAssumption
    <3> QED
      BY <2>3, <3>2
  <2> QED
    BY <1>2, <2>2, <2>3, <2>4
<1> QED
  BY <1>1, <1>2, <1>3

(* What a status says, in terms of the key and the mounts.                 *)
Locked(i) == EncRoot[Names[i]] # NoRoot /\ EncRoot[Names[i]] \notin keyLoaded
Ready(i)  == EncRoot[Names[i]] # NoRoot /\ EncRoot[Names[i]] \in keyLoaded
AllUp(i)  == UnmountedMountable(Subtree(Names[i])) = {}

Meaning ==
  \A i \in Selected :
    /\ HostState[i] = StateOf(TrueStatus(Names[i]))
    /\ HostState[i] = "plain" <=> EncRoot[Names[i]] = NoRoot
    /\ HostState[i] = "locked" <=> Locked(i)
    /\ HostState[i] = "open" <=> Ready(i) /\ AllUp(i)
    /\ HostState[i] = "unmounted" <=> Ready(i) /\ ~AllUp(i)
    /\ Ready(i) <=> Keystatus(Names[i]) = "available"
    /\ Locked(i) <=> Keystatus(Names[i]) = "unavailable"
    /\ HostState[i] \in {"locked", "unmounted", "open", "plain"}

LEMMA Means == HostTypeOK => Meaning
<1> SUFFICES ASSUME HostTypeOK, NEW i \in Selected
    PROVE  /\ HostState[i] = StateOf(TrueStatus(Names[i]))
           /\ HostState[i] = "plain" <=> EncRoot[Names[i]] = NoRoot
           /\ HostState[i] = "locked" <=> Locked(i)
           /\ HostState[i] = "open" <=> Ready(i) /\ AllUp(i)
           /\ HostState[i] = "unmounted" <=> Ready(i) /\ ~AllUp(i)
           /\ Ready(i) <=> Keystatus(Names[i]) = "available"
           /\ Locked(i) <=> Keystatus(Names[i]) = "unavailable"
           /\ HostState[i] \in {"locked", "unmounted", "open", "plain"}
  BY DEF Meaning
<1>0. NoRoot \notin keyLoaded
  BY DatasetAssumption DEF HostTypeOK, Roots
<1>1. HostState[i] = StateOf(TrueStatus(Names[i]))
  BY DEF HostState
<1>2. /\ Ready(i) <=> Keystatus(Names[i]) = "available"
      /\ Locked(i) <=> Keystatus(Names[i]) = "unavailable"
      /\ EncRoot[Names[i]] = NoRoot <=> Keystatus(Names[i]) = "-"
      /\ Ready(i) \/ Locked(i) \/ EncRoot[Names[i]] = NoRoot
  BY <1>0 DEF Keystatus, Ready, Locked
<1>3. CASE Ready(i)
  <2>1. TrueStatus(Names[i]) = IF AllUp(i) THEN "unlocked" ELSE "unlocked-unmounted"
    BY <1>2, <1>3 DEF TrueStatus, AllUp
  <2> QED
    BY <1>1, <1>2, <1>3, <2>1 DEF StateOf, Ready, Locked
<1>4. CASE Locked(i)
  <2>1. TrueStatus(Names[i]) = "locked"
    BY <1>2, <1>4 DEF TrueStatus
  <2> QED
    BY <1>1, <1>2, <1>4, <2>1 DEF StateOf, Ready, Locked
<1>5. CASE EncRoot[Names[i]] = NoRoot
  <2>1. TrueStatus(Names[i]) = "unknown"
    BY <1>2, <1>5 DEF TrueStatus
  <2> QED
    BY <1>1, <1>2, <1>5, <2>1 DEF StateOf, Ready, Locked
<1> QED
  BY <1>2, <1>3, <1>4, <1>5

LEMMA MeansNext == HostTypeOK' => Meaning'
BY Means, PTL

-----------------------------------------------------------------------------
(* What a step of a session does to the host.                              *)
Kept == UNCHANGED <<keyLoaded, mounted>>
Opens(i) ==
  /\ Locked(i) /\ EncRoot[Names[i]] = Names[i]
  /\ keyLoaded' = keyLoaded \cup {Names[i]} /\ mounted' = mounted
Mounts(i) ==
  /\ Ready(i)
  /\ keyLoaded' = keyLoaded /\ \E n \in Subtree(Names[i]) : mounted' = mounted \cup {n}

(* Keys and mounts only come, and each dataset goes forward on its own.    *)
Forward(i) ==
  /\ HostState'[i] # HostState[i] =>
       \/ HostState[i] = "locked" /\ HostState'[i] \in {"unmounted", "open"}
       \/ HostState[i] = "unmounted" /\ HostState'[i] = "open"
  /\ \A j \in Selected : j # i => HostState'[j] = HostState[j]
  /\ \A j \in Selected : Ready(j) =>
       Ready(j)' /\ UnmountedMountable(Subtree(Names[j]))' \subseteq UnmountedMountable(Subtree(Names[j]))

(* The mounts missing below a dataset stay the same as long as nothing     *)
(* below it is mounted and no key of a dataset below it is loaded.         *)
LEMMA SameMissing ==
  ASSUME NEW j \in Selected,
         \A n \in Subtree(Names[j]) :
           (EncRoot[n] \in keyLoaded' <=> EncRoot[n] \in keyLoaded) /\ (n \in mounted' <=> n \in mounted)
  PROVE  /\ HostState'[j] = HostState[j]
         /\ Ready(j)' <=> Ready(j)
         /\ UnmountedMountable(Subtree(Names[j]))' = UnmountedMountable(Subtree(Names[j]))
<1>1. \A n \in Subtree(Names[j]) : Keystatus(n)' = Keystatus(n) /\ (Unmounted(n)' <=> Unmounted(n))
  BY DEF Keystatus, Unmounted
<1>2. UnmountedMountable(Subtree(Names[j]))' = UnmountedMountable(Subtree(Names[j]))
  BY <1>1 DEF UnmountedMountable
<1>3. Names[j] \in Subtree(Names[j])
  BY NamesApart
<1>4. TrueStatus(Names[j])' = TrueStatus(Names[j])
  BY <1>1, <1>2, <1>3 DEF TrueStatus
<1>5. HostState'[j] = HostState[j]
  BY <1>4 DEF HostState
<1>6. Ready(j)' <=> Ready(j)
  BY <1>3 DEF Ready
<1> QED
  BY <1>2, <1>5, <1>6

LEMMA GoesForward ==
  ASSUME HostTypeOK, HostTypeOK', NEW i \in Selected, Kept \/ Opens(i) \/ Mounts(i)
  PROVE  Forward(i)
<1>1. Meaning /\ Meaning'
  BY Means, MeansNext
<1>2. CASE Kept
  BY <1>2, SameMissing DEF Forward, Kept
<1>3. CASE Opens(i)
  <2>1. ASSUME NEW j \in Selected, j # i
        PROVE  /\ HostState'[j] = HostState[j]
               /\ Ready(j)' <=> Ready(j)
               /\ UnmountedMountable(Subtree(Names[j]))' = UnmountedMountable(Subtree(Names[j]))
    <3>1. \A n \in Subtree(Names[j]) : EncRoot[n] # Names[i]
      BY <2>1, NamesApart
    <3> QED
      BY <1>3, <3>1, SameMissing DEF Opens
  <2>2. Ready(i)' /\ ~Locked(i)' /\ ~Ready(i)
    BY <1>3 DEF Opens, Ready, Locked
  <2>3. HostState[i] = "locked" /\ HostState'[i] \in {"unmounted", "open"}
    BY <1>1, <1>3, <2>2 DEF Meaning, Opens
  <2> QED
    BY <2>1, <2>2, <2>3 DEF Forward
<1>4. CASE Mounts(i)
  <2>1. PICK n \in Subtree(Names[i]) : mounted' = mounted \cup {n}
    BY <1>4 DEF Mounts
  <2>2. ASSUME NEW j \in Selected, j # i
        PROVE  HostState'[j] = HostState[j]
    <3>1. n \notin Subtree(Names[j])
      BY <2>2, NamesApart
    <3> QED
      BY <1>4, <2>1, <3>1, SameMissing DEF Mounts
  <2>3. \A j \in Selected :
          /\ Locked(j)' <=> Locked(j)
          /\ Ready(j)' <=> Ready(j)
          /\ UnmountedMountable(Subtree(Names[j]))' \subseteq UnmountedMountable(Subtree(Names[j]))
    BY <1>4, <2>1 DEF Mounts, Locked, Ready, UnmountedMountable, Unmounted, Keystatus
  <2>4. Ready(i) /\ (AllUp(i) => AllUp(i)')
    BY <1>4, <2>3 DEF Mounts, AllUp
  <2>5. HostState'[i] # HostState[i] => HostState[i] = "unmounted" /\ HostState'[i] = "open"
    BY <1>1, <2>3, <2>4 DEF Meaning
  <2> QED
    BY <2>2, <2>3, <2>5 DEF Forward
<1> QED
  BY <1>2, <1>3, <1>4

(* A handler's step leaves the host as it is, loads the key of its dataset *)
(* or mounts a dataset below it.                                           *)
LEMMA HandleEffect ==
  ASSUME TypeInv, NEW s \in Session, NEW i \in Selected, Serving(s), HandleStep(s),
         req[s].dataset = Names[i], req[s].action \in {"status", "unlock"}
  PROVE  /\ pc[s] \notin {"idle", "done", "stdin"}
         /\ Kept \/ (req[s].action = "unlock" /\ (Opens(i) \/ Mounts(i)))
<1>0. /\ pc[s] \notin {"idle", "done", "stdin"}
      /\ Stage(pc[s], req[s], allowed[s], todo[s])
  <2>1. pc[s] \notin {"idle", "done", "stdin"}
    BY DEF HandleStep, ReadKeystatus, LoadKey, ListUnmounted, MountNext, MountsDone,
           ListMounted, UnmountNext, UnloadKeys
  <2> QED
    BY <2>1 DEF TypeInv, SessionTypeOK, Running
<1>1. CASE ReadKeystatus(s) \/ ListUnmounted(s) \/ MountsDone(s)
  BY <1>0, <1>1 DEF ReadKeystatus, ListUnmounted, MountsDone, ZfsRead, ZfsList, hostVars, Kept
<1>2. CASE LoadKey(s)
  <2>1. PICK ok \in BOOLEAN : ZfsLoadKey(Names[i], stdin[s] = "right", ok)
    BY <1>2 DEF LoadKey
  <2>2. CASE ok
    <3>1. /\ Names[i] \in Roots \ keyLoaded
          /\ keyLoaded' = keyLoaded \cup {Names[i]} /\ mounted' = mounted
      BY <2>1, <2>2 DEF ZfsLoadKey, Outcome
    <3>2. EncRoot[Names[i]] = Names[i] /\ Names[i] # NoRoot
      BY <3>1, DatasetAssumption DEF Roots
    <3>3. Opens(i)
      BY <3>1, <3>2 DEF Opens, Locked
    <3> QED
      BY <1>0, <1>2, <3>3 DEF LoadKey, Stage
  <2>3. CASE ~ok
    BY <1>0, <2>1, <2>3 DEF ZfsLoadKey, Kept
  <2> QED
    BY <2>2, <2>3
<1>3. CASE MountNext(s)
  <2>1. PICK n \in Shallowest(todo[s]), ok \in BOOLEAN : ZfsMount(n, ok)
    BY <1>3 DEF MountNext
  <2>2. /\ pc[s] = "mount" /\ req[s].action = "unlock"
        /\ n \in Subtree(Names[i]) /\ Keystatus(Names[i]) = "available"
    BY <1>0, <1>3 DEF MountNext, Stage, Shallowest, Serving
  <2>3. Ready(i)
    BY <2>2, Means DEF Meaning, TypeInv
  <2> QED
    BY <1>0, <2>1, <2>2, <2>3 DEF ZfsMount, Kept, Mounts
<1>4. CASE ListMounted(s) \/ UnmountNext(s) \/ UnloadKeys(s)
  BY <1>0, <1>4 DEF ListMounted, UnmountNext, UnloadKeys, Stage
<1> QED
  BY <1>1, <1>2, <1>3, <1>4 DEF HandleStep

-----------------------------------------------------------------------------
(* One session moves at a time, and leaves the others what they had.       *)
Own(s) ==
  \A t \in Session : t # s =>
    pc'[t] = pc[t] /\ req'[t] = req[t] /\ todo'[t] = todo[t] /\ resp'[t] = resp[t]

LEMMA AcceptOwn ==
  ASSUME TypeInv, NEW s \in Session, NEW args, Accept(s, args)
  PROVE  Own(s)
BY DEF Own, Accept, Goto, TypeInv, SessionTypeOK

LEMMA ReadStdinOwn ==
  ASSUME TypeInv, NEW s \in Session, NEW text, ReadStdin(s, text)
  PROVE  Own(s)
BY DEF Own, ReadStdin, Reply, Goto, TypeInv, SessionTypeOK

LEMMA EndOwn ==
  ASSUME TypeInv, NEW s \in Session, EndSession(s)
  PROVE  /\ Own(s)
         /\ pc'[s] = "idle" /\ req'[s] = NoRequest
BY DEF Own, EndSession, Goto, TypeInv, SessionTypeOK

LEMMA HandleOwn ==
  ASSUME TypeInv, NEW s \in Session, HandleStep(s)
  PROVE  Own(s) /\ req' = req /\ allow' = allow /\ pc'[s] # "idle"
<1>1. /\ \/ \E word : Reply(s, word)
         \/ \E label : Continue(s, label)
         \/ \E label, work : ContinueWith(s, label, work)
      /\ req' = req
  BY HandleOutcome DEF Reply, Continue, ContinueWith
<1>2. Own(s)
  BY <1>1 DEF Own, Reply, Continue, ContinueWith, Goto, TypeInv, SessionTypeOK
<1>3. allow' = allow
  BY DEF HandleStep, ReadKeystatus, LoadKey, ListUnmounted, MountNext, MountsDone,
         ListMounted, UnmountNext, UnloadKeys
<1>4. pc' = [pc EXCEPT ![s] = pc'[s]] /\ pc'[s] # "idle"
  <2>1. /\ req[s].action \in {"status", "unlock", "lock"}
        /\ pc[s] = "keystatus" => req[s].action # "lock"
    BY DEF HandleStep, ReadKeystatus, LoadKey, ListUnmounted, MountNext, MountsDone,
           ListMounted, UnmountNext, UnloadKeys, TypeInv, SessionTypeOK, Running, Stage,
           Request, Actions
  <2>2. \/ \E word : Reply(s, word)
        \/ \E label : /\ label # "idle"
                      /\ Continue(s, label) \/ \E work : ContinueWith(s, label, work)
    <3>1. CASE ReadKeystatus(s)
      BY <2>1, <3>1 DEF ReadKeystatus, AfterKeystatus
    <3>2. CASE LoadKey(s)
      BY <3>2 DEF LoadKey
    <3>3. CASE ListUnmounted(s)
      BY <3>3 DEF ListUnmounted
    <3>4. CASE MountNext(s)
      BY <3>4 DEF MountNext
    <3>5. CASE MountsDone(s) \/ UnloadKeys(s)
      BY <3>5 DEF MountsDone, UnloadKeys
    <3>6. CASE ListMounted(s)
      BY <3>6 DEF ListMounted
    <3>7. CASE UnmountNext(s)
      BY <3>7 DEF UnmountNext
    <3> QED
      BY <3>1, <3>2, <3>3, <3>4, <3>5, <3>6, <3>7 DEF HandleStep
  <2> QED
    BY <2>2 DEF Reply, Continue, ContinueWith, Goto, TypeInv, SessionTypeOK
<1> QED
  BY <1>1, <1>2, <1>3, <1>4

(* Whatever one session does to its dataset, the others are served well.   *)
LEMMA OthersServe ==
  ASSUME TypeInv, TypeInv', NEW s \in Session, NEW t \in Session, t # s, Serving(t), Own(s),
         NEW i \in Selected, Forward(i)
  PROVE  Serving(t)'
<1>1. pc'[t] = pc[t] /\ req'[t] = req[t] /\ todo'[t] = todo[t] /\ resp'[t] = resp[t]
  BY DEF Own
<1>2. ASSUME pc[t] \in {"list", "mount"}
      PROVE  /\ Keystatus(req[t].dataset)' = "available"
             /\ UnmountedMountable(Subtree(req[t].dataset))' \subseteq
                  UnmountedMountable(Subtree(req[t].dataset))
  <2>1. Keystatus(req[t].dataset) = "available" /\ req[t] # NoRequest
    BY <1>2 DEF Serving, TypeInv, SessionTypeOK, Running, Stage, NoRequest, Request, Actions
  <2>2. PICK j \in Selected : req[t].dataset = Names[j]
    BY <2>1 DEF Serving
  <2>3. Ready(j)
    BY <2>1, <2>2, Means DEF Meaning, TypeInv
  <2>4. /\ Ready(j)'
        /\ UnmountedMountable(Subtree(Names[j]))' \subseteq UnmountedMountable(Subtree(Names[j]))
    BY <2>3 DEF Forward
  <2>5. Keystatus(Names[j])' = "available"
    BY <2>4, MeansNext DEF Meaning, TypeInv
  <2>6. req'[t].dataset = Names[j]
    BY <1>1, <2>2
  <2> QED
    BY <2>2, <2>4, <2>5, <2>6
<1>3. pc[t] \in {"list", "mount"} => Keystatus(req[t].dataset)' = "available"
  BY <1>2
<1>4. pc[t] = "mount" => UnmountedMountable(Subtree(req[t].dataset))' \subseteq todo[t]
  BY <1>2 DEF Serving
<1> QED
  BY <1>1, <1>3, <1>4 DEF Serving

(* A session with nothing to do or with its answer, or on its way to the   *)
(* first look at the host, serves whatever the host is like.               *)
LEMMA EarlyServes ==
  ASSUME NEW s \in Session, pc'[s] \in {"stdin", "keystatus", "loadkey", "done", "idle"},
         pc'[s] = "idle" => req'[s] = NoRequest,
         req'[s] # NoRequest => /\ req'[s].action \in {"status", "unlock"}
                                /\ \E i \in Selected : req'[s].dataset = Names[i],
         pc'[s] = "done" /\ req'[s].action = "unlock" => resp'[s] \in {"error", "unlocked"}
  PROVE  Serving(s)'
BY DEF Serving

(* A handler of the client's requests finds the key loaded before it looks *)
(* at the mounts, keeps track of those it has to make, and answers with    *)
(* the status of its dataset as it is at that moment.                      *)
LEMMA HandleServes ==
  ASSUME TypeInv, TypeInv', NEW s \in Session, NEW i \in Selected, Serving(s), HandleStep(s),
         req[s].dataset = Names[i], req[s].action \in {"status", "unlock"}, Forward(i)
  PROVE  /\ Serving(s)'
         /\ pc'[s] = "done" /\ resp'[s] # "error" => StateOf(resp'[s]) = HostState[i]
<1>0. /\ req' = req /\ req[s] # NoRequest /\ req'[s].dataset = Names[i]
      /\ Stage(pc[s], req[s], allowed[s], todo[s]) /\ Names[i] \in Dataset
      /\ Meaning /\ Meaning'
  <2>1. req' = req /\ req[s] # NoRequest
    BY HandleOwn DEF NoRequest
  <2>2. pc[s] \notin {"idle", "done"}
    BY HandleEffect
  <2> QED
    BY <2>1, <2>2, Means, MeansNext, NamesApart DEF TypeInv, SessionTypeOK, Running
<1>1. ASSUME NEW word, Reply(s, word),
             word # "error" => StateOf(word) = HostState[i],
             word # "error" /\ req[s].action = "unlock" => word = "unlocked"
      PROVE  /\ Serving(s)'
             /\ pc'[s] = "done" /\ resp'[s] # "error" => StateOf(resp'[s]) = HostState[i]
  <2>1. pc'[s] = "done" /\ resp'[s] = word
    BY <1>1 DEF Reply, Goto, TypeInv, SessionTypeOK
  <2>2. Serving(s)'
    BY <1>0, <1>1, <2>1, EarlyServes
  <2> QED
    BY <1>1, <2>1, <2>2
<1>2. ASSUME NEW label \in {"list", "loadkey"}, Continue(s, label),
             label = "list" => Ready(i)'
      PROVE  Serving(s)' /\ pc'[s] # "done"
  <2>1. pc'[s] = label
    BY <1>2 DEF Continue, Goto, TypeInv, SessionTypeOK
  <2>2. label = "list" => Keystatus(Names[i])' = "available"
    BY <1>0, <1>2 DEF Meaning
  <2> QED
    BY <1>0, <2>1, <2>2 DEF Serving
<1>3. ASSUME NEW work, ContinueWith(s, "mount", work), Ready(i)',
             UnmountedMountable(Subtree(Names[i]))' \subseteq work
      PROVE  Serving(s)' /\ pc'[s] # "done"
  <2>1. pc'[s] = "mount" /\ todo'[s] = work
    BY <1>3 DEF ContinueWith, Goto, TypeInv, SessionTypeOK
  <2>2. Keystatus(Names[i])' = "available"
    BY <1>0, <1>3 DEF Meaning
  <2> QED
    BY <1>0, <1>3, <2>1, <2>2 DEF Serving
<1>4. CASE ReadKeystatus(s)
  <2>1. PICK ok \in BOOLEAN :
          /\ ZfsRead(ok)
          /\ IF ok THEN AfterKeystatus(s, Keystatus(req[s].dataset)) ELSE Reply(s, "error")
    BY <1>4 DEF ReadKeystatus
  <2>2. CASE Reply(s, "error")
    BY <1>1, <2>2
  <2>3. CASE ok /\ Ready(i)
    <3>1. Continue(s, "list")
      BY <1>0, <2>1, <2>3 DEF AfterKeystatus, Meaning
    <3>2. Ready(i)'
      BY <2>3 DEF Forward
    <3> QED
      BY <1>2, <3>1, <3>2
  <2>4. CASE ok /\ ~Ready(i)
    <3>1. Keystatus(Names[i]) # "available"
      BY <1>0, <2>4 DEF Meaning
    <3>2. CASE req[s].action = "status"
      <4> DEFINE word == IF Keystatus(Names[i]) = "unavailable" THEN "locked" ELSE "unknown"
      <4>1. Reply(s, word)
        BY <2>1, <2>4, <3>1, <3>2 DEF AfterKeystatus
      <4>2. StateOf(word) = HostState[i]
        BY <1>0, <2>4, <3>1 DEF Meaning, StateOf, Ready, Locked
      <4>3. req[s].action # "unlock"
        BY <3>2
      <4> HIDE DEF word
      <4> QED
        BY <1>1, <4>1, <4>2, <4>3
    <3>3. CASE req[s].action = "unlock"
      <4>1. Reply(s, "error") \/ Continue(s, "loadkey")
        BY <2>1, <2>4, <3>1, <3>3 DEF AfterKeystatus
      <4> QED
        BY <1>1, <1>2, <4>1
    <3> QED
      BY <3>2, <3>3
  <2> QED
    BY <2>1, <2>2, <2>3, <2>4
<1>5. CASE LoadKey(s)
  <2>1. PICK ok \in BOOLEAN :
          /\ ZfsLoadKey(Names[i], stdin[s] = "right", ok)
          /\ IF ok THEN Continue(s, "list") ELSE Reply(s, "error")
    BY <1>5 DEF LoadKey
  <2>2. CASE ok
    <3>1. Names[i] \in Roots /\ keyLoaded' = keyLoaded \cup {Names[i]}
      BY <2>1, <2>2 DEF ZfsLoadKey, Outcome
    <3>2. Ready(i)'
      BY <1>0, <3>1, DatasetAssumption DEF Ready, Roots
    <3> QED
      BY <1>2, <2>1, <2>2, <3>2
  <2> QED
    BY <1>1, <2>1, <2>2
<1>6. CASE ListUnmounted(s)
  <2> DEFINE d == Names[i]
  <2>1. PICK ok \in BOOLEAN, rows \in {{}} \cup {Subtree(d) \cup {x} : x \in Dataset} :
          /\ ZfsList(d, rows, ok)
          /\ IF ~ok \/ ~RowsAccepted(d, rows)
             THEN Reply(s, "error")
             ELSE IF req[s].action = "unlock"
                  THEN ContinueWith(s, "mount", UnmountedMountable(rows))
                  ELSE Reply(s, IF UnmountedMountable(rows) = {}
                                THEN "unlocked" ELSE "unlocked-unmounted")
    BY <1>6 DEF ListUnmounted
  <2>2. Ready(i)
    BY <1>0, <1>6 DEF ListUnmounted, Serving, Meaning
  <2>3. CASE ~ok \/ ~RowsAccepted(d, rows)
    BY <1>1, <2>1, <2>3
  <2>4. CASE ok /\ RowsAccepted(d, rows)
    <3>1. rows = Subtree(d)
      BY <2>1, <2>4 DEF ZfsList, RowsAccepted, Subtree
    <3>2. CASE req[s].action = "unlock"
      <4>1. /\ ContinueWith(s, "mount", UnmountedMountable(Subtree(Names[i])))
            /\ Ready(i)'
            /\ UnmountedMountable(Subtree(Names[i]))' \subseteq UnmountedMountable(Subtree(Names[i]))
        BY <2>1, <2>2, <2>4, <3>1, <3>2 DEF Forward
      <4> QED
        BY <1>3, <4>1
    <3>3. CASE req[s].action # "unlock"
      <4> DEFINE word == IF AllUp(i) THEN "unlocked" ELSE "unlocked-unmounted"
      <4>1. Reply(s, word)
        BY <2>1, <2>4, <3>1, <3>3 DEF AllUp
      <4>2. StateOf(word) = HostState[i]
        BY <1>0, <2>2 DEF Meaning, StateOf
      <4> HIDE DEF word
      <4> QED
        BY <1>1, <3>3, <4>1, <4>2
    <3> QED
      BY <3>2, <3>3
  <2> QED
    BY <2>3, <2>4
<1>7. CASE MountNext(s)
  <2>1. PICK n \in Shallowest(todo[s]), ok \in BOOLEAN :
          /\ ZfsMount(n, ok)
          /\ IF ok THEN ContinueWith(s, "mount", todo[s] \ {n}) ELSE Reply(s, "error")
    BY <1>7 DEF MountNext
  <2>2. CASE ok
    <3>1. Ready(i) /\ UnmountedMountable(Subtree(Names[i])) \subseteq todo[s]
      BY <1>0, <1>7 DEF MountNext, Serving, Meaning
    <3>2. Ready(i)' /\ UnmountedMountable(Subtree(Names[i]))' \subseteq todo[s]
      BY <3>1 DEF Forward
    <3>3. n \in mounted'
      BY <2>1, <2>2 DEF ZfsMount
    <3>4. n \notin UnmountedMountable(Subtree(Names[i]))'
      BY <3>3 DEF UnmountedMountable, Unmounted
    <3> QED
      BY <1>3, <2>1, <2>2, <3>2, <3>4
  <2> QED
    BY <1>1, <2>1, <2>2
<1>8. CASE MountsDone(s)
  <2>1. Ready(i) /\ AllUp(i)
    BY <1>0, <1>8 DEF MountsDone, Serving, Meaning, AllUp
  <2>2. StateOf("unlocked") = HostState[i]
    BY <1>0, <2>1 DEF Meaning, StateOf
  <2> QED
    BY <1>1, <1>8, <2>2 DEF MountsDone
<1>9. ~ListMounted(s) /\ ~UnmountNext(s) /\ ~UnloadKeys(s)
  BY <1>0 DEF ListMounted, UnmountNext, UnloadKeys, Stage
<1> QED
  BY <1>4, <1>5, <1>6, <1>7, <1>8, <1>9 DEF HandleStep

-----------------------------------------------------------------------------
(* What the client remembers of a pass.                                    *)
LEMMA Remembers ==
  ASSUME SysInv, TypeInv', Client!Remember
  PROVE  /\ was' = [i \in Selected |-> was'[i]]
         /\ phase' = "idle" => \A i \in Selected : was'[i] = {}
         /\ phase' # "idle" => \A i \in Selected : /\ HostState[i] \in was'[i]
                                                   /\ HostState'[i] \in was'[i]
                                                   /\ was[i] \subseteq was'[i]
         /\ phase' = phase /\ HostState' = HostState => was' = was
<1>1. was' = [i \in Selected |->
                IF phase' = "idle" THEN {} ELSE was[i] \cup {HostState[i], HostState'[i]}]
  BY DEF Client!Remember, Client!Selected, Selected, HostState
<1>2. ASSUME phase' = phase, HostState' = HostState
      PROVE  was' = was
  <2>1. \A i \in Selected :
          (IF phase = "idle" THEN {} ELSE was[i] \cup {HostState[i], HostState[i]}) = was[i]
    BY DEF SysInv, PassInv
  <2>2. was' = [i \in Selected |-> was[i]]
    BY <1>1, <1>2, <2>1
  <2> QED
    BY <2>2 DEF SysInv, PassInv
<1> QED
  BY <1>1, <1>2

LEMMA PassGoesOn ==
  ASSUME SysInv, TypeInv', Client!Remember,
         verb' \in Verbs, phase' = "waiting" => verb' = "unlock" /\ next' \in Selected,
         statuses' = [i \in Selected |-> statuses'[i]],
         reboots' \in Nat, reboots' <= faults'
  PROVE  PassInv'
<1>1. /\ was' = [i \in Selected |-> was'[i]]
      /\ phase' = "idle" => \A i \in Selected : was'[i] = {}
      /\ phase' # "idle" => \A i \in Selected : HostState'[i] \in was'[i]
  BY Remembers
<1> QED
  BY <1>1 DEF PassInv

(* A step of the host or the sessions leaves the client's variables alone. *)
LEMMA PassStays ==
  ASSUME SysInv, TypeInv', Client!Remember, UNCHANGED clientVars,
         reboots' \in Nat, reboots' <= faults'
  PROVE  PassInv'
BY PassGoesOn DEF clientVars, SysInv, PassInv, Selected, N

(* A request stays as it is while its session and the pass do.             *)
LEMMA AskedStays ==
  ASSUME NEW i \in Selected, NEW s \in Session, Asked(i, s), phase' = phase,
         was[i] \subseteq was'[i],
         pc'[s] = pc[s], req'[s] = req[s], resp'[s] = resp[s]
  PROVE  Asked(i, s)'
BY DEF Asked

(* The pass is one that has requests out.                                  *)
LEMMA CallingPhase ==
  ASSUME SysInv, NEW i \in Selected, call[i] # NoCall
  PROVE  /\ Requesting(i)
         /\ phase \in {"asking", "waiting"}
         /\ phase = "waiting" => next = i /\ verb = "unlock"
         /\ phase = "asking" => statuses[i] = Client!Pending
BY DEF SysInv, Calling, Requesting, PassInv

(* The session of a call serves the dataset it is for.                     *)
LEMMA CalledServes ==
  ASSUME SysInv, NEW i \in Selected, NEW j \in Selected, NEW s \in Session,
         call[j] = s, req[s] # NoRequest, req[s].dataset = Names[i]
  PROVE  /\ i = j
         /\ req[s].action = IF phase = "asking" THEN "status" ELSE "unlock"
BY NamesApart DEF SysInv, Calling, Asked

(* Which commands are under way with nobody waiting, after a step that     *)
(* concerns one session.                                                   *)
LEMMA OthersUnlocking ==
  ASSUME NEW s \in Session, NEW t \in Session, t # s, Own(s), Called(t)' <=> Called(t),
         NEW j \in Selected
  PROVE  Unlocking(t, j)' <=> Unlocking(t, j)
BY DEF Own, Unlocking

LEMMA LateStays ==
  ASSUME \A s \in Session, j \in Selected : Unlocking(s, j)' <=> Unlocking(s, j)
  PROVE  Late' = Late
BY DEF Late, AtWork

LEMMA LateLoses ==
  ASSUME NEW s \in Session, NEW i \in Selected,
         \A t \in Session, j \in Selected : t # s => (Unlocking(t, j)' <=> Unlocking(t, j)),
         \A j \in Selected : Unlocking(s, j)' => Unlocking(s, j),
         \A j \in Selected : Unlocking(s, j) => j = i
  PROVE  Late' \in {Late, Late \ {<<"unlock", i>>}}
<1>1. \A j \in Selected : j # i => (AtWork(j)' <=> AtWork(j))
  BY DEF AtWork
<1>2. AtWork(i)' => AtWork(i)
  BY DEF AtWork
<1>3. CASE AtWork(i)' <=> AtWork(i)
  BY <1>1, <1>3 DEF Late
<1>4. CASE AtWork(i) /\ ~AtWork(i)'
  <2>1. Late' = Late \ {<<"unlock", i>>}
    BY <1>1, <1>4 DEF Late
  <2> QED
    BY <2>1
<1> QED
  BY <1>2, <1>3, <1>4

LEMMA LateGains ==
  ASSUME NEW s \in Session, NEW i \in Selected,
         \A t \in Session, j \in Selected : t # s => (Unlocking(t, j)' <=> Unlocking(t, j)),
         \A j \in Selected : Unlocking(s, j) => Unlocking(s, j)',
         \A j \in Selected : Unlocking(s, j)' => j = i
  PROVE  Late' \in {Late, Late \cup {<<"unlock", i>>}}
<1>1. \A j \in Selected : j # i => (AtWork(j)' <=> AtWork(j))
  BY DEF AtWork
<1>2. AtWork(i) => AtWork(i)'
  BY DEF AtWork
<1>3. CASE AtWork(i)' <=> AtWork(i)
  BY <1>1, <1>3 DEF Late
<1>4. CASE AtWork(i)' /\ ~AtWork(i)
  <2>1. Late' = Late \cup {<<"unlock", i>>}
    BY <1>1, <1>4 DEF Late
  <2> QED
    BY <2>1
<1> QED
  BY <1>2, <1>3, <1>4

(* The host and the late commands stay: for Client nothing happens.        *)
LEMMA Stutters ==
  ASSUME SysInv, TypeInv', Client!Remember, UNCHANGED <<clientVars, reboots>>,
         HostState' = HostState, Late' = Late
  PROVE  UNCHANGED Client!vars
<1>1. was' = was /\ UNCHANGED <<verb, phase, statuses, next, failed, outcome, checks, attempted>>
  BY Remembers DEF clientVars
<1> QED
  BY <1>1 DEF Client!vars, Client!hostVars, Client!passVars, HostState, Late, AtWork

(* A dataset an unlock moves goes the way Client says.                     *)
LEMMA Carries ==
  ASSUME HostTypeOK, HostTypeOK', NEW i \in Selected, Forward(i), HostState' # HostState
  PROVE  Client!Carry("unlock", i)
<1>1. HostState = [j \in Selected |-> HostState[j]] /\ HostState' = [j \in Selected |-> HostState'[j]]
  BY DEF HostState
<1>2. HostState'[i] # HostState[i]
  BY <1>1 DEF Forward
<1>3. HostState'[i] \in Client!Moves("unlock", HostState[i])
  BY <1>2 DEF Forward, Client!Moves
<1>4. HostState' = [HostState EXCEPT ![i] = HostState'[i]]
  BY <1>1 DEF Forward
<1> QED
  BY <1>3, <1>4 DEF Client!Carry, HostState

(* A call stays as it is while its session and the pass do.                *)
LEMMA CallingStays ==
  ASSUME SysInv, TypeInv', Client!Remember, NEW j \in Selected, call'[j] = call[j],
         phase' = phase, next' = next, statuses'[j] = statuses[j],
         \A s \in Session : call[j] = s => pc'[s] = pc[s] /\ req'[s] = req[s] /\ resp'[s] = resp[s]
  PROVE  Calling(j)'
<1>1. CASE call[j] = NoCall
  BY <1>1, SessionAssumption DEF Calling
<1>2. CASE call[j] # NoCall
  <2>1. Requesting(j) /\ phase # "idle"
    BY <1>2, CallingPhase
  <2>2. was[j] \subseteq was'[j]
    BY <2>1, Remembers
  <2>3. Requesting(j)'
    BY <2>1 DEF Requesting
  <2>4. ASSUME NEW s \in Session, call[j] = s
        PROVE  Asked(j, s)'
    BY <2>2, <2>4, AskedStays DEF SysInv, Calling
  <2> QED
    BY <2>3, <2>4 DEF Calling
<1> QED
  BY <1>1, <1>2

LEMMA SessionsStay ==
  ASSUME SysInv, TypeInv', UNCHANGED <<keyLoaded, mounted, pc, req, todo, resp>>
  PROVE  HostState' = HostState /\ \A s \in Session : Serving(s)'
<1>1. \A n \in Dataset : Keystatus(n)' = Keystatus(n)
  BY DEF Keystatus
<1>2. HostState' = HostState
  BY DEF HostState, TrueStatus, Keystatus, UnmountedMountable, Unmounted
<1>3. ASSUME NEW s \in Session
      PROVE  Serving(s)'
  BY DEF SysInv, Serving, Keystatus, UnmountedMountable, Unmounted
<1> QED
  BY <1>2, <1>3

-----------------------------------------------------------------------------
(* Each action of System keeps the invariant, and is a step of Client or   *)
(* none.                                                                   *)
Maps == Client!Next \/ UNCHANGED Client!vars

LEMMA ThinkStep ==
  ASSUME SysInv, Think, Client!Remember
  PROVE  SysInv' /\ Maps
<1> DEFINE Acts == \/ \E v \in Verbs : Client!Begin(v)
                   \/ Client!Gathered \/ Client!Skip \/ Client!Command
                   \/ Client!Finish \/ Client!Leave
<1>0. UNCHANGED <<vars, call, reboots>> /\ Acts
  BY DEF Think
<1>1. \A i \in Selected : call[i] = NoCall
  <2> SUFFICES ASSUME NEW i \in Selected, call[i] # NoCall PROVE FALSE
    OBVIOUS
  <2>1. phase \in {"asking", "waiting"} /\ (phase = "asking" => statuses[i] = Client!Pending)
    BY CallingPhase
  <2> QED
    BY <1>0, <2>1 DEF Client!Begin, Client!Gathered, Client!Skip, Client!Command,
                      Client!Finish, Client!Leave, Client!Selected, Selected
<1>2. TypeInv'
  BY <1>0, TypeInvInductive DEF SysInv
<1>3. \A s \in Session : Serving(s)'
  BY <1>0, <1>2, SessionsStay DEF vars, hostVars, sessionVars
<1>4. /\ verb' \in Verbs
      /\ phase' = "waiting" => verb' = "unlock" /\ next' \in Selected
      /\ statuses' = [i \in Selected |-> statuses'[i]]
  <2>1. CASE \E v \in Verbs : Client!Begin(v)
    BY <2>1 DEF Client!Begin, SysInv, PassInv
  <2>2. CASE Client!Gathered \/ Client!Skip \/ Client!Finish
    BY <2>2 DEF Client!Gathered, Client!Skip, Client!Finish, Client!End, Client!Advance,
                SysInv, PassInv
  <2>3. CASE Client!Command
    <3>1. verb = "unlock" /\ next \in Selected
      BY <2>3, SystemVerbsAssumption
         DEF Client!Command, Client!Wanted, Client!Selected, Selected, SysInv, PassInv
    <3> QED
      BY <2>3, <3>1 DEF Client!Command, Client!Advance, SysInv, PassInv
  <2>4. CASE Client!Leave
    BY <2>4 DEF Client!Leave, Client!Selected, Selected, SysInv, PassInv
  <2> QED
    BY <1>0, <2>1, <2>2, <2>3, <2>4
<1>5. PassInv'
  <2>1. reboots' \in Nat /\ reboots' <= faults'
    BY <1>0 DEF vars, hostVars, SysInv, PassInv
  <2> QED
    BY <1>2, <1>4, <2>1, PassGoesOn
<1>6. SysInv'
  BY <1>0, <1>1, <1>2, <1>3, <1>5, SessionAssumption DEF SysInv, Calling, OneCaller
<1>7. Client!Next
  BY <1>0 DEF Client!Next, Client!PassStep
<1> QED
  BY <1>6, <1>7 DEF Maps

LEMMA ConnectStep ==
  ASSUME SysInv, NEW i \in Selected, NEW s \in Session, Connect(i, s), Client!Remember
  PROVE  SysInv' /\ Maps
<1>0. PICK a \in {"status", "unlock"} :
        /\ Accept(s, <<a, Names[i]>>)
        /\ a = IF phase = "asking" THEN "status" ELSE "unlock"
  BY DEF Connect, Requesting, SysInv, PassInv
<1>1. /\ Requesting(i) /\ call[i] = NoCall /\ ~Called(s) /\ pc[s] = "idle" /\ req[s] = NoRequest
      /\ call' = [call EXCEPT ![i] = s]
      /\ UNCHANGED <<clientVars, reboots>> /\ UNCHANGED hostVars
      /\ call \in [Selected -> Session \cup {NoCall, Broken}]
      /\ Names[i] \in Dataset
  BY <1>0, NamesApart DEF Connect, Accept, SysInv, Serving
<1>2. TypeInv'
  BY <1>0, <1>1, AcceptType DEF SysInv
<1>3. Kept /\ Forward(i)
  BY <1>1, <1>2, GoesForward DEF hostVars, Kept, SysInv, TypeInv
<1>4. HostState' = HostState
  BY <1>1 DEF hostVars, HostState, TrueStatus, Keystatus, UnmountedMountable, Unmounted
<1>5. \/ /\ req'[s] = [action |-> a, dataset |-> Names[i], force |-> FALSE]
         /\ pc'[s] = IF a = "unlock" THEN "stdin" ELSE "keystatus"
      \/ req'[s] = NoRequest /\ pc'[s] = "done" /\ resp'[s] = "error"
  <2>1. RequestOf(<<a, Names[i]>>) = [action |-> a, dataset |-> Names[i], force |-> FALSE]
    <3>1. ASSUME NEW n PROVE Len(<<a, n>>) = 2 /\ <<a, n>>[1] = a /\ <<a, n>>[2] = n
      OBVIOUS
    <3>2. (Len(<<a, Names[i]>>) = 3) = FALSE
      BY <3>1
    <3> QED
      BY <3>1, <3>2, Zenon DEF RequestOf
  <2>2. FirstStep([action |-> a, dataset |-> Names[i], force |-> FALSE]) =
          IF a = "unlock" THEN "stdin" ELSE "keystatus"
    BY DEF FirstStep
  <2> QED
    BY <1>0, <1>1, <2>1, <2>2 DEF Accept, Goto, SysInv, TypeInv, SessionTypeOK
<1>6. Own(s)
  BY <1>0, AcceptOwn DEF SysInv
<1>7. \A t \in Session : Serving(t)'
  <2>1. Serving(s)'
    <3>1. CASE req'[s] = NoRequest /\ pc'[s] = "done" /\ resp'[s] = "error"
      BY <3>1, EarlyServes DEF NoRequest
    <3>2. CASE /\ req'[s] = [action |-> a, dataset |-> Names[i], force |-> FALSE]
               /\ pc'[s] \in {"stdin", "keystatus"}
      <4>1. req'[s].action \in {"status", "unlock"} /\ req'[s].dataset = Names[i]
        BY <3>2
      <4> QED
        BY <3>2, <4>1, EarlyServes
    <3> QED
      BY <1>5, <3>1, <3>2
  <2>2. ASSUME NEW t \in Session, t # s
        PROVE  Serving(t)'
    BY <1>2, <1>3, <1>6, <2>2, OthersServe DEF SysInv
  <2> QED
    BY <2>1, <2>2
<1>8. PassInv'
  BY <1>1, <1>2, PassStays DEF hostVars, SysInv, PassInv
<1>9. /\ call' \in [Selected -> Session \cup {NoCall, Broken}]
      /\ OneCaller'
      /\ \A t \in Session : t # s => (Called(t)' <=> Called(t))
      /\ Called(s)'
  BY <1>1, SessionAssumption DEF SysInv, OneCaller, Called
<1>10. \A j \in Selected : Calling(j)'
  <2>1. ASSUME NEW j \in Selected, j # i
        PROVE  Calling(j)'
    <3>1. call'[j] = call[j] /\ call[j] # s
      BY <1>1, <2>1 DEF Called
    <3> QED
      BY <1>1, <1>2, <1>6, <3>1, CallingStays DEF clientVars, Own
  <2>2. Asked(i, s)'
    BY <1>0, <1>1, <1>5 DEF Asked, clientVars, NoRequest
  <2>3. Calling(i)'
    BY <1>1, <2>2 DEF Calling, Requesting, clientVars
  <2> QED
    BY <2>1, <2>3
<1>11. Late' = Late
  <2>1. \A j \in Selected : ~Unlocking(s, j) /\ ~Unlocking(s, j)'
    BY <1>1, <1>9 DEF Unlocking
  <2> QED
    BY <1>6, <1>9, <2>1, OthersUnlocking, LateStays
<1>12. SysInv'
  BY <1>2, <1>7, <1>8, <1>9, <1>10 DEF SysInv
<1> QED
  BY <1>1, <1>2, <1>4, <1>11, <1>12, Stutters DEF Maps

LEMMA HandleFaults ==
  ASSUME TypeInv, NEW s \in Session, HandleStep(s)
  PROVE  faults' \in {faults, faults + 1}
<1>1. CASE ReadKeystatus(s)
  BY <1>1 DEF ReadKeystatus, ZfsRead, Outcome, Fault
<1>2. CASE LoadKey(s)
  BY <1>2 DEF LoadKey, ZfsLoadKey, Outcome, Fault
<1>3. CASE ListUnmounted(s)
  BY <1>3 DEF ListUnmounted, ZfsList, Fault
<1>4. CASE MountNext(s)
  BY <1>4 DEF MountNext, ZfsMount, Outcome, Fault
<1>5. CASE MountsDone(s)
  BY <1>5 DEF MountsDone, hostVars
<1>6. CASE ListMounted(s)
  BY <1>6 DEF ListMounted, ZfsList, Fault
<1>7. CASE UnmountNext(s)
  BY <1>7 DEF UnmountNext, ZfsUnmount, Outcome, Fault
<1>8. CASE UnloadKeys(s)
  BY <1>8 DEF UnloadKeys, ZfsUnloadKeys, Fault
<1> QED
  BY <1>1, <1>2, <1>3, <1>4, <1>5, <1>6, <1>7, <1>8 DEF HandleStep

(* What the session of a call does is the command being executed, and what *)
(* one that nobody waits for does is a late command.                       *)
LEMMA SessionWorks ==
  ASSUME SysInv, TypeInv', Client!Remember, UNCHANGED <<clientVars, call, reboots>>,
         NEW s \in Session, NEW i \in Selected, Own(s), Forward(i),
         pc[s] \notin {"idle", "done"}, req[s] # NoRequest, req[s].dataset = Names[i],
         req'[s] = req[s],
         HostState' = HostState \/ req[s].action = "unlock"
  PROVE  Maps
<1>1. /\ \A t \in Session : Called(t)' <=> Called(t)
      /\ \A j \in Selected : Unlocking(s, j) => j = i /\ req[s].action = "unlock"
      /\ \A j \in Selected : Unlocking(s, j)' => Unlocking(s, j)
  BY NamesApart DEF Called, Unlocking
<1>2. \A t \in Session, j \in Selected : t # s => (Unlocking(t, j)' <=> Unlocking(t, j))
  BY <1>1, OthersUnlocking
<1>3. HostTypeOK /\ HostTypeOK'
  BY DEF SysInv, TypeInv
<1>4. CASE Called(s)
  <2>1. Late' = Late
    BY <1>1, <1>2, <1>4, LateStays DEF Unlocking
  <2>2. CASE HostState' = HostState
    BY <2>1, <2>2, Stutters DEF Maps
  <2>3. CASE HostState' # HostState
    <3>1. PICK j \in Selected : call[j] = s
      BY <1>4 DEF Called
    <3>2. i = j /\ phase # "asking"
      BY <2>3, <3>1, CalledServes
    <3>3. phase = "waiting" /\ next = i /\ verb = "unlock"
      BY <3>1, <3>2, CallingPhase, SessionAssumption
    <3>4. Client!Carry("unlock", i)
      BY <1>3, <2>3, Carries
    <3>5. Client!Execute
      BY <2>1, <3>3, <3>4 DEF Client!Execute, Client!passVars, clientVars, Late, AtWork
    <3> QED
      BY <3>5 DEF Maps, Client!Next
  <2> QED
    BY <2>2, <2>3
<1>5. CASE ~Called(s) /\ req[s].action # "unlock"
  <2>1. Late' = Late
    BY <1>1, <1>2, <1>5, LateStays
  <2> QED
    BY <1>5, <2>1, Stutters DEF Maps
<1>6. CASE ~Called(s) /\ req[s].action = "unlock"
  <2>1. Late' \in {Late, Late \ {<<"unlock", i>>}}
    BY <1>1, <1>2, LateLoses
  <2>2. <<"unlock", i>> \in Late
    BY <1>6 DEF Late, AtWork, Unlocking
  <2>3. Client!Carry("unlock", i) \/ HostState' = HostState
    BY <1>3, Carries
  <2>4. Client!CommandLate("unlock", i)
    BY <2>1, <2>2, <2>3
       DEF Client!CommandLate, Client!passVars, clientVars, Late, AtWork, HostState
  <2> QED
    BY <2>4 DEF Maps, Client!Next, Client!AllVerbs, Client!Selected, Selected
<1> QED
  BY <1>4, <1>5, <1>6

(* A session whose answer is awaited no more, or not yet given, may end.   *)
LEMMA WorkInv ==
  ASSUME SysInv, TypeInv', Client!Remember, UNCHANGED <<clientVars, call, reboots>>,
         NEW s \in Session, NEW i \in Selected, Own(s), Forward(i), faults' \in {faults, faults + 1},
         Serving(s)', Called(s) => \A j \in Selected : call[j] = s => Asked(j, s)'
  PROVE  SysInv'
<1>1. \A t \in Session : Serving(t)'
  BY OthersServe DEF SysInv
<1>2. PassInv'
  <2>1. reboots' \in Nat /\ reboots' <= faults'
    BY DEF SysInv, PassInv, TypeInv, HostTypeOK
  <2> QED
    BY <2>1, PassStays
<1>3. ASSUME NEW j \in Selected
      PROVE  Calling(j)'
  <2>1. CASE call[j] = s
    <3>1. Asked(j, s)' /\ Requesting(j)'
      BY <2>1, CallingPhase, SessionAssumption DEF Called, Requesting, clientVars
    <3> QED
      BY <2>1, <3>1 DEF Calling
  <2>2. CASE call[j] # s
    BY <2>2, CallingStays DEF Own, clientVars
  <2> QED
    BY <2>1, <2>2
<1> QED
  BY <1>1, <1>2, <1>3 DEF SysInv, OneCaller

LEMMA SendStep ==
  ASSUME SysInv, NEW s \in Session, Send(s), UNCHANGED <<clientVars, call, reboots>>, Client!Remember
  PROVE  SysInv' /\ Maps
<1>0. PICK text \in Stdin : ReadStdin(s, text)
  BY PassphrasesAssumption DEF Send, Stdin
<1>1. /\ pc[s] = "stdin" /\ UNCHANGED hostVars
      /\ \/ pc'[s] = "keystatus"
         \/ pc'[s] = "done" /\ resp'[s] = "error"
      /\ req' = req
  BY <1>0 DEF ReadStdin, Reply, Goto, SysInv, TypeInv, SessionTypeOK
<1>2. TypeInv' /\ Own(s)
  BY <1>0, ReadStdinType, ReadStdinOwn DEF SysInv
<1>3. req[s] # NoRequest /\ req[s].action = "unlock"
  BY <1>1 DEF SysInv, TypeInv, SessionTypeOK, Running, Stage, NoRequest, Request, Actions
<1>4. PICK i \in Selected : req[s].dataset = Names[i]
  BY <1>3 DEF SysInv, Serving
<1>5. Forward(i) /\ HostState' = HostState
  <2>1. Kept
    BY <1>1 DEF hostVars, Kept
  <2>2. Forward(i)
    BY <1>2, <2>1, GoesForward DEF SysInv, TypeInv
  <2>3. HostState' = HostState
    BY <2>1 DEF Kept, HostState, TrueStatus, Keystatus, UnmountedMountable, Unmounted
  <2> QED
    BY <2>2, <2>3
<1>6. Serving(s)'
  BY <1>1, <1>3, <1>4, EarlyServes
<1>7. \A j \in Selected : call[j] = s => Asked(j, s)'
  <2> SUFFICES ASSUME NEW j \in Selected, call[j] = s PROVE Asked(j, s)'
    OBVIOUS
  <2>1. Asked(j, s)
    BY DEF SysInv, Calling
  <2> QED
    BY <1>1, <1>3, <2>1 DEF Asked, clientVars
<1>8. SysInv'
  BY <1>1, <1>2, <1>5, <1>6, <1>7, WorkInv DEF hostVars
<1>9. Maps
  BY <1>1, <1>2, <1>3, <1>4, <1>5, SessionWorks
<1> QED
  BY <1>8, <1>9

LEMMA HandleMaps ==
  ASSUME SysInv, NEW s \in Session, HandleStep(s), UNCHANGED <<clientVars, call, reboots>>,
         Client!Remember
  PROVE  SysInv' /\ Maps
<1>1. TypeInv' /\ Own(s) /\ req' = req /\ pc'[s] # "idle" /\ faults' \in {faults, faults + 1}
  BY HandleType, HandleOwn, HandleFaults DEF SysInv
<1>2. pc[s] \notin {"idle", "done"} /\ req[s] # NoRequest /\ Serving(s)
  <2>1. pc[s] \notin {"idle", "done"}
    BY DEF HandleStep, ReadKeystatus, LoadKey, ListUnmounted, MountNext, MountsDone,
           ListMounted, UnmountNext, UnloadKeys
  <2> QED
    BY <2>1 DEF SysInv, TypeInv, SessionTypeOK, Running, Stage, NoRequest, Request, Actions
<1>3. PICK i \in Selected : req[s].dataset = Names[i]
  BY <1>2 DEF Serving
<1>4. req[s].action \in {"status", "unlock"}
  BY <1>2 DEF Serving
<1>5. Kept \/ (req[s].action = "unlock" /\ (Opens(i) \/ Mounts(i)))
  BY <1>2, <1>3, <1>4, HandleEffect DEF SysInv
<1>6. Forward(i)
  BY <1>1, <1>5, GoesForward DEF SysInv, TypeInv
<1>7. HostState' = HostState \/ req[s].action = "unlock"
  BY <1>5 DEF Kept, HostState, TrueStatus, Keystatus, UnmountedMountable, Unmounted
<1>8. /\ Serving(s)'
      /\ pc'[s] = "done" /\ resp'[s] # "error" => StateOf(resp'[s]) = HostState[i]
  BY <1>1, <1>2, <1>3, <1>4, <1>6, HandleServes DEF SysInv
<1>9. \A j \in Selected : call[j] = s => Asked(j, s)'
  <2> SUFFICES ASSUME NEW j \in Selected, call[j] = s PROVE Asked(j, s)'
    OBVIOUS
  <2>1. Asked(j, s) /\ i = j
    BY <1>2, <1>3, CalledServes DEF SysInv, Calling
  <2>2. phase # "idle" /\ phase' = phase
    BY CallingPhase, SessionAssumption DEF clientVars
  <2>3. HostState[j] \in was'[j]
    BY <1>1, <2>2, Remembers
  <2> QED
    BY <1>1, <1>2, <1>8, <2>1, <2>2, <2>3 DEF Asked
<1>10. SysInv'
  BY <1>1, <1>6, <1>8, <1>9, WorkInv
<1>11. Maps
  BY <1>1, <1>2, <1>3, <1>6, <1>7, SessionWorks
<1> QED
  BY <1>10, <1>11

LEMMA ExitStep ==
  ASSUME SysInv, NEW s \in Session, ~Called(s), Exit(s), UNCHANGED <<clientVars, call, reboots>>,
         Client!Remember
  PROVE  SysInv' /\ Maps
<1>1. /\ pc[s] = "done" /\ EndSession(s) /\ UNCHANGED hostVars /\ Kept
      /\ pc'[s] = "idle" /\ req'[s] = NoRequest /\ Own(s)
  BY EndOwn DEF Exit, Kept, hostVars, SysInv
<1>2. TypeInv'
  BY <1>1, EndType DEF Exit, hostVars, SysInv, TypeInv, HostTypeOK
<1>3. PICK i \in Selected : TRUE
  BY NamesApart DEF Selected
<1>4. Forward(i)
  BY <1>1, <1>2, GoesForward DEF SysInv, TypeInv
<1>5. HostState' = HostState
  BY <1>1 DEF Kept, HostState, TrueStatus, Keystatus, UnmountedMountable, Unmounted
<1>6. Serving(s)'
  BY <1>1, EarlyServes DEF NoRequest
<1>7. SysInv'
  BY <1>1, <1>2, <1>4, <1>6, WorkInv DEF hostVars
<1>8. Late' = Late
  <2>1. \A t \in Session : Called(t)' <=> Called(t)
    BY DEF Called
  <2>2. \A j \in Selected : ~Unlocking(s, j) /\ ~Unlocking(s, j)'
    BY <1>1 DEF Unlocking
  <2> QED
    BY <1>1, <2>1, <2>2, OthersUnlocking, LateStays
<1> QED
  BY <1>2, <1>5, <1>7, <1>8, Stutters DEF Maps

LEMMA WorkStep ==
  ASSUME SysInv, NEW s \in Session, Work(s), Client!Remember
  PROVE  SysInv' /\ Maps
BY SendStep, HandleMaps, ExitStep DEF Work

(* When a request is over, one way or the other, no other is left without  *)
(* its pass.                                                               *)
LEMMA CallOver ==
  ASSUME SysInv, TypeInv', Client!Remember, NEW i \in Selected, Requesting(i),
         call' = [call EXCEPT ![i] = NoCall],
         \A t \in Session : t # call[i] => pc'[t] = pc[t] /\ req'[t] = req[t] /\ resp'[t] = resp[t],
         phase = "asking" => /\ phase' = phase /\ next' = next
                             /\ \A j \in Selected : j # i => statuses'[j] = statuses[j]
  PROVE  /\ call' \in [Selected -> Session \cup {NoCall, Broken}]
         /\ OneCaller'
         /\ \A j \in Selected : Calling(j)'
         /\ \A t \in Session : t # call[i] => (Called(t)' <=> Called(t))
         /\ \A t \in Session : t = call[i] => ~Called(t)'
<1>1. /\ call \in [Selected -> Session \cup {NoCall, Broken}]
      /\ call' \in [Selected -> Session \cup {NoCall, Broken}]
      /\ call'[i] = NoCall
      /\ \A j \in Selected : j # i => call'[j] = call[j]
  BY DEF SysInv
<1>2. OneCaller'
  BY <1>1, SessionAssumption DEF SysInv, OneCaller
<1>3. \A t \in Session : t # call[i] => (Called(t)' <=> Called(t))
  BY <1>1, SessionAssumption DEF Called
<1>4. \A t \in Session : t = call[i] => ~Called(t)'
  BY <1>1, SessionAssumption DEF SysInv, OneCaller, Called
<1>5. ASSUME NEW j \in Selected
      PROVE  Calling(j)'
  <2>1. CASE call'[j] = NoCall
    BY <2>1, SessionAssumption DEF Calling
  <2>2. CASE call'[j] # NoCall
    <3>1. j # i /\ call'[j] = call[j] /\ call[j] # NoCall
      BY <1>1, <2>2
    <3>2. phase = "asking"
      BY <3>1, CallingPhase DEF Requesting
    <3>3. \A t \in Session : call[j] = t => t # call[i]
      BY <3>1 DEF SysInv, OneCaller
    <3> QED
      BY <3>1, <3>2, <3>3, CallingStays
  <2> QED
    BY <2>1, <2>2
<1> QED
  BY <1>1, <1>2, <1>3, <1>4, <1>5

LEMMA DeliverStep ==
  ASSUME SysInv, NEW i \in Selected, Deliver(i), Client!Remember
  PROVE  SysInv' /\ Maps
<1>1. PICK s \in Session : call[i] = s
  BY DEF Deliver
<1> DEFINE word == resp[s]
<1>2. /\ Exit(s) /\ pc[s] = "done" /\ EndSession(s) /\ UNCHANGED hostVars /\ Kept
      /\ pc'[s] = "idle" /\ req'[s] = NoRequest /\ Own(s)
      /\ call' = [call EXCEPT ![i] = NoCall] /\ UNCHANGED reboots
  BY <1>1, EndOwn DEF Deliver, Exit, Kept, hostVars, SysInv
<1>3. TypeInv'
  BY <1>2, EndType DEF Exit, hostVars, SysInv, TypeInv, HostTypeOK
<1>4. /\ Requesting(i)
      /\ phase \in {"asking", "waiting"}
      /\ phase = "waiting" => next = i /\ verb = "unlock"
      /\ Asked(i, s) /\ Serving(s)
  BY <1>1, CallingPhase, SessionAssumption DEF SysInv, Calling
<1>5. /\ phase = "asking" /\ word = "error" => Client!StatusRefused(i)
      /\ phase = "asking" /\ word # "error" => Client!Learn(i, "answered", Client!FromAnswer(StateOf(word)))
      /\ phase = "waiting" => /\ Client!Advance(word # "error")
                              /\ UNCHANGED <<verb, statuses, outcome, checks, attempted>>
  BY <1>1, <1>4 DEF Deliver
<1>6. Forward(i) /\ HostState' = HostState
  <2>1. Forward(i)
    BY <1>2, <1>3, GoesForward DEF SysInv, TypeInv
  <2>2. HostState' = HostState
    BY <1>2 DEF Kept, HostState, TrueStatus, Keystatus, UnmountedMountable, Unmounted
  <2> QED
    BY <2>1, <2>2
<1>7. /\ verb' = verb /\ phase' \in {"asking", "acting"}
      /\ statuses' = [j \in Selected |-> statuses'[j]]
      /\ phase = "asking" => /\ phase' = phase /\ next' = next
                             /\ \A j \in Selected : j # i => statuses'[j] = statuses[j]
  BY <1>4, <1>5 DEF Client!StatusRefused, Client!Learn, Client!Advance, SysInv, PassInv
<1>8. /\ call' \in [Selected -> Session \cup {NoCall, Broken}]
      /\ OneCaller'
      /\ \A j \in Selected : Calling(j)'
      /\ \A t \in Session : t # s => (Called(t)' <=> Called(t))
  BY <1>1, <1>2, <1>3, <1>4, <1>7, CallOver DEF Own
<1>9. \A t \in Session : Serving(t)'
  <2>1. Serving(s)'
    BY <1>2, EarlyServes DEF NoRequest
  <2> QED
    BY <1>2, <1>3, <1>6, <2>1, OthersServe DEF SysInv
<1>10. PassInv'
  <2>1. verb' \in Verbs /\ reboots' \in Nat /\ reboots' <= faults'
    BY <1>2, <1>7 DEF hostVars, SysInv, PassInv
  <2> QED
    BY <1>3, <1>7, <2>1, PassGoesOn
<1>11. SysInv'
  BY <1>3, <1>8, <1>9, <1>10 DEF SysInv
<1>12. Late' = Late
  <2>1. \A j \in Selected : ~Unlocking(s, j) /\ ~Unlocking(s, j)'
    BY <1>2 DEF Unlocking
  <2> QED
    BY <1>2, <1>8, <2>1, OthersUnlocking, LateStays
<1>13. Client!Next
  <2>1. CASE phase = "asking" /\ word = "error"
    BY <1>5, <2>1 DEF Client!Next, Client!PassStep, Client!Selected, Selected
  <2>2. CASE phase = "asking" /\ word # "error"
    <3>1. StateOf(word) \in was[i]
      BY <1>2, <1>4, <2>2 DEF Asked
    <3>2. Client!StatusAnswered(i)
      BY <1>5, <2>2, <3>1 DEF Client!StatusAnswered
    <3> QED
      BY <3>2 DEF Client!Next, Client!PassStep, Client!Selected, Selected
  <2>3. CASE phase = "waiting"
    <3>1. /\ phase' = "acting" /\ next' = next + 1
          /\ failed' = (failed \/ ~(word # "error"))
          /\ UNCHANGED <<verb, statuses, outcome, checks, attempted>>
      BY <1>5, <2>3 DEF Client!Advance
    <3>2. UNCHANGED <<HostState, Late, reboots>>
      BY <1>2, <1>6, <1>12
    <3>3. PICK answer \in Client!Answers : (answer = "succeeded") <=> (word # "error")
      <4>1. CASE word = "error"
        BY <4>1 DEF Client!Answers
      <4>2. CASE word # "error"
        <5>1. word = "unlocked" /\ StateOf(word) \in was[i]
          BY <1>2, <1>4, <2>3, <4>2 DEF Asked, Serving
        <5>2. "open" \in was[next]
          BY <1>4, <2>3, <5>1 DEF StateOf
        <5>3. "succeeded" \in Client!Answers
          BY <1>4, <2>3, <5>2 DEF Client!Answers, Client!Goal
        <5> QED
          BY <4>2, <5>3
      <4> QED
        BY <4>1, <4>2
    <3>4. Client!Advance(answer = "succeeded")
      BY <3>1, <3>3 DEF Client!Advance
    <3>5. Client!CommandReturns
      BY <2>3, <3>1, <3>2, <3>3, <3>4
         DEF Client!CommandReturns, Client!hostVars, HostState, Late, AtWork
    <3> QED
      BY <3>5 DEF Client!Next, Client!PassStep
  <2> QED
    BY <1>4, <2>1, <2>2, <2>3
<1> QED
  BY <1>11, <1>13 DEF Maps

(* A command the client gives up on becomes a late one, or was none: what  *)
(* GiveUp takes from Client restricts nothing.                             *)
LEMMA GivesUp ==
  ASSUME SysInv, NEW i \in Selected, Requesting(i), call' = [call EXCEPT ![i] = NoCall],
         UNCHANGED <<pc, req>>
  PROVE  /\ phase = "asking" => Late' = Late
         /\ phase = "waiting" => Late' \in {Late, Late \cup {<<"unlock", next>>}}
<1>1. /\ call \in [Selected -> Session \cup {NoCall, Broken}]
      /\ call'[i] = NoCall
      /\ \A j \in Selected : j # i => call'[j] = call[j]
  BY DEF SysInv
<1>2. \A t \in Session : t # call[i] => (Called(t)' <=> Called(t))
  BY <1>1, SessionAssumption DEF Called
<1>3. \A t \in Session, j \in Selected : t # call[i] => (Unlocking(t, j)' <=> Unlocking(t, j))
  BY <1>2 DEF Unlocking
<1>4. CASE call[i] \notin Session
  BY <1>3, <1>4, LateStays DEF Requesting
<1>5. CASE call[i] \in Session
  <2>1. PICK s \in Session : call[i] = s
    BY <1>5
  <2>2. \A j \in Selected : ~Unlocking(s, j)
    BY <2>1 DEF Unlocking, Called
  <2>3. ASSUME NEW j \in Selected, Unlocking(s, j)'
        PROVE  j = i /\ phase # "asking"
    <3>1. req[s] # NoRequest /\ req[s].action = "unlock" /\ req[s].dataset = Names[j]
      BY <2>3 DEF Unlocking, NoRequest
    <3> QED
      BY <2>1, <3>1, CalledServes
  <2>4. CASE phase = "asking"
    BY <1>3, <2>1, <2>2, <2>3, <2>4, LateStays
  <2>5. CASE phase = "waiting"
    <3>1. Late' \in {Late, Late \cup {<<"unlock", i>>}}
      BY <1>3, <2>1, <2>2, <2>3, LateGains
    <3> QED
      BY <2>5, <3>1 DEF Requesting
  <2> QED
    BY <2>4, <2>5 DEF Requesting
<1> QED
  BY <1>4, <1>5

LEMMA GiveUpStep ==
  ASSUME SysInv, NEW i \in Selected, GiveUp(i), Client!Remember
  PROVE  SysInv' /\ Maps
<1>1. /\ Requesting(i) /\ call' = [call EXCEPT ![i] = NoCall]
      /\ Fault \/ UNCHANGED faults
      /\ UNCHANGED <<keyLoaded, mounted, shadows, allow, pc, req, allowed, stdin, todo, resp, reboots>>
      /\ phase = "asking" => Client!StatusUnreached(i) \/ Client!StatusRaised(i)
      /\ phase # "asking" => Client!CommandLost
  BY DEF GiveUp, sessionVars
<1>2. TypeInv'
  <2>1. faults' \in 0..MaxFaults
    BY <1>1, FaultType DEF SysInv, TypeInv, HostTypeOK
  <2> QED
    BY <1>1, <2>1 DEF SysInv, TypeInv, HostTypeOK, SessionTypeOK, Running
<1>3. \A s \in Session : Serving(s)'
  BY <1>1, <1>2, SessionsStay
<1>4. /\ verb' = verb /\ phase' \in {"asking", "acting"}
      /\ statuses' = [j \in Selected |-> statuses'[j]]
      /\ phase = "asking" => /\ phase' = phase /\ next' = next
                             /\ \A j \in Selected : j # i => statuses'[j] = statuses[j]
  <2>1. CASE phase = "asking"
    BY <1>1, <2>1 DEF Client!StatusUnreached, Client!StatusRaised, Client!Learn, SysInv, PassInv
  <2>2. CASE phase # "asking"
    BY <1>1, <2>2 DEF Client!CommandLost, Client!Advance, SysInv, PassInv
  <2> QED
    BY <2>1, <2>2
<1>5. /\ call' \in [Selected -> Session \cup {NoCall, Broken}]
      /\ OneCaller'
      /\ \A j \in Selected : Calling(j)'
  BY <1>1, <1>2, <1>4, CallOver
<1>6. PassInv'
  <2>1. verb' \in Verbs /\ reboots' \in Nat /\ reboots' <= faults'
    BY <1>1, <1>4 DEF Fault, SysInv, PassInv, TypeInv, HostTypeOK
  <2> QED
    BY <1>2, <1>4, <2>1, PassGoesOn
<1>7. SysInv'
  BY <1>2, <1>3, <1>5, <1>6 DEF SysInv
<1>8. Client!Next
  <2>1. CASE phase = "asking"
    BY <1>1, <2>1 DEF Client!Next, Client!PassStep, Client!Selected, Selected
  <2>2. CASE phase # "asking"
    BY <1>1, <2>2 DEF Client!Next, Client!PassStep
  <2> QED
    BY <2>1, <2>2
<1> QED
  BY <1>7, <1>8 DEF Maps

LEMMA SessionDiesStep ==
  ASSUME SysInv, NEW s \in Session, SessionDies(s), Client!Remember
  PROVE  SysInv' /\ Maps
<1>1. /\ pc[s] # "idle" /\ Fault /\ EndSession(s) /\ Kept
      /\ UNCHANGED <<keyLoaded, mounted, shadows, allow>>
      /\ pc'[s] = "idle" /\ req'[s] = NoRequest /\ Own(s)
      /\ UNCHANGED <<clientVars, reboots>>
      /\ call \in [Selected -> Session \cup {NoCall, Broken}]
      /\ call' = [i \in Selected |-> IF call[i] = s THEN Broken ELSE call[i]]
  BY EndOwn DEF SessionDies, Die, Kept, SysInv
<1>2. TypeInv'
  <2>1. faults' \in 0..MaxFaults
    BY <1>1, FaultType DEF SysInv, TypeInv, HostTypeOK
  <2> QED
    BY <1>1, <2>1, EndType DEF SysInv, TypeInv, HostTypeOK
<1>3. \A i \in Selected : Forward(i)
  BY <1>1, <1>2, GoesForward DEF SysInv, TypeInv
<1>4. HostState' = HostState
  BY <1>1 DEF HostState, TrueStatus, Keystatus, UnmountedMountable, Unmounted
<1>5. \A t \in Session : Serving(t)'
  <2>1. Serving(s)'
    BY <1>1, EarlyServes DEF NoRequest
  <2>2. PICK i \in Selected : TRUE
    BY NamesApart DEF Selected
  <2> QED
    BY <1>1, <1>2, <1>3, <2>1, <2>2, OthersServe DEF SysInv
<1>6. PassInv'
  <2>1. reboots' \in Nat /\ reboots' <= faults'
    BY <1>1 DEF Fault, SysInv, PassInv, TypeInv, HostTypeOK
  <2> QED
    BY <1>1, <1>2, <2>1, PassStays
<1>7. /\ call' \in [Selected -> Session \cup {NoCall, Broken}]
      /\ OneCaller'
      /\ \A t \in Session : t # s => (Called(t)' <=> Called(t))
  BY <1>1, SessionAssumption DEF SysInv, OneCaller, Called
<1>8. ASSUME NEW i \in Selected
      PROVE  Calling(i)'
  <2>1. CASE call[i] = s
    <3>1. Requesting(i)' /\ call'[i] = Broken
      BY <1>1, <2>1, CallingPhase, SessionAssumption DEF Requesting, clientVars
    <3> QED
      BY <3>1, SessionAssumption DEF Calling
  <2>2. CASE call[i] # s
    BY <1>1, <1>2, <2>2, CallingStays DEF Own, clientVars
  <2> QED
    BY <2>1, <2>2
<1>9. SysInv'
  BY <1>2, <1>5, <1>6, <1>7, <1>8 DEF SysInv
<1>10. Maps
  <2>1. /\ \A t \in Session, j \in Selected : t # s => (Unlocking(t, j)' <=> Unlocking(t, j))
        /\ \A j \in Selected : ~Unlocking(s, j)'
    BY <1>1, <1>7, OthersUnlocking DEF Unlocking
  <2>2. CASE \A j \in Selected : ~Unlocking(s, j)
    <3>1. Late' = Late
      BY <2>1, <2>2, LateStays
    <3> QED
      BY <1>1, <1>2, <1>4, <3>1, Stutters DEF Maps
  <2>3. ASSUME NEW i \in Selected, Unlocking(s, i)
        PROVE  Maps
    <3>1. Late' \in {Late, Late \ {<<"unlock", i>>}}
      BY <2>1, <2>3, LateLoses, NamesApart DEF Unlocking
    <3>2. <<"unlock", i>> \in Late
      BY <2>3 DEF Late, AtWork
    <3>3. Client!CommandLate("unlock", i)
      BY <1>1, <1>4, <3>1, <3>2
         DEF Client!CommandLate, Client!passVars, clientVars, Late, AtWork, HostState
    <3> QED
      BY <3>3 DEF Maps, Client!Next, Client!AllVerbs, Client!Selected, Selected
  <2> QED
    BY <2>2, <2>3
<1> QED
  BY <1>9, <1>10

LEMMA RebootStep ==
  ASSUME SysInv, HostReboots, Client!Remember
  PROVE  SysInv' /\ Maps
<1>1. /\ HostReboot /\ Fault /\ keyLoaded' = {} /\ allow' = allow
      /\ pc' = [s \in Session |-> "idle"] /\ req' = [s \in Session |-> NoRequest]
      /\ reboots' = reboots + 1 /\ UNCHANGED clientVars
      /\ call \in [Selected -> Session \cup {NoCall, Broken}]
      /\ call' = [i \in Selected |-> IF call[i] \in Session THEN Broken ELSE call[i]]
  BY DEF HostReboots, Reboot, HostReboot, SysInv
<1>2. TypeInv'
  <2>1. HostTypeOK' /\ allow' \in AllowLists
    BY <1>1, RebootType DEF SysInv, TypeInv
  <2>2. SessionTypeOK'
    BY DEF HostReboots, Reboot, SessionTypeOK, Running, Labels
  <2> QED
    BY <2>1, <2>2 DEF TypeInv
<1>3. \A s \in Session : Serving(s)'
  BY <1>1, EarlyServes DEF NoRequest
<1>4. PassInv'
  <2>1. reboots' \in Nat /\ reboots' <= faults'
    BY <1>1 DEF Fault, SysInv, PassInv, TypeInv, HostTypeOK
  <2> QED
    BY <1>1, <1>2, <2>1, PassStays
<1>5. /\ call' \in [Selected -> Session \cup {NoCall, Broken}]
      /\ \A i \in Selected : call'[i] \notin Session
  BY <1>1, SessionAssumption
<1>6. ASSUME NEW i \in Selected
      PROVE  Calling(i)'
  <2>1. call'[i] # NoCall => Requesting(i)
    BY <1>1, CallingPhase, SessionAssumption
  <2>2. call'[i] # NoCall => Requesting(i)'
    BY <1>1, <2>1 DEF Requesting, clientVars
  <2> QED
    BY <1>5, <2>2 DEF Calling
<1>7. SysInv'
  BY <1>2, <1>3, <1>4, <1>5, <1>6 DEF SysInv, OneCaller
<1>8. Late' = {}
  BY <1>1 DEF Late, AtWork, Unlocking
<1>9. HostState' = [i \in Selected |-> IF HostState[i] = "plain" THEN "plain" ELSE "locked"]
  <2>1. \A i \in Selected : HostState'[i] = IF HostState[i] = "plain" THEN "plain" ELSE "locked"
    <3>1. Meaning /\ Meaning'
      BY <1>2, Means, MeansNext DEF SysInv, TypeInv
    <3>2. \A i \in Selected : EncRoot[Names[i]] # NoRoot => Locked(i)'
      BY <1>1 DEF Locked
    <3> QED
      BY <3>1, <3>2 DEF Meaning
  <2>2. HostState' = [i \in Selected |-> HostState'[i]]
    BY DEF HostState
  <2> QED
    BY <2>1, <2>2
<1>10. Client!Reboot
  BY <1>8, <1>9 DEF Client!Reboot, Client!Selected, Selected, HostState, Late, AtWork
<1>11. reboots < MaxFaults
  BY <1>1, MaxFaultsAssumption DEF Fault, SysInv, PassInv, TypeInv, HostTypeOK
<1>12. Client!HostChanges
  BY <1>1, <1>10, <1>11 DEF Client!HostChanges, Client!passVars, clientVars
<1> QED
  BY <1>7, <1>12 DEF Maps, Client!Next

-----------------------------------------------------------------------------
LEMMA SysInitial == SystemInit => SysInv /\ Client!Init
<1> SUFFICES ASSUME SystemInit PROVE SysInv /\ Client!Init
  OBVIOUS
<1>1. Init /\ Client!Init /\ call = [i \in Selected |-> NoCall] /\ reboots = 0
  BY DEF SystemInit
<1>2. TypeInv
  BY <1>1, TypeInvInductive
<1>3. \A s \in Session : Serving(s)
  BY <1>1 DEF Init, Serving, NoRequest
<1>4. PassInv
  BY <1>1 DEF Init, HostInit, Client!Init, Client!Selected, Selected, PassInv
<1> QED
  BY <1>1, <1>2, <1>3, <1>4, SessionAssumption DEF SysInv, Calling, OneCaller

LEMMA SysStep ==
  SysInv /\ [SystemNext]_svars => SysInv' /\ [Client!Next]_Client!vars
<1> SUFFICES ASSUME SysInv, [SystemNext]_svars
             PROVE  SysInv' /\ Maps
  BY DEF Maps
<1>1. CASE UNCHANGED svars
  <2>1. UNCHANGED <<vars, clientVars, was, call, reboots>>
    BY <1>1 DEF svars
  <2>2. TypeInv'
    BY <2>1, TypeInvInductive DEF SysInv
  <2>3. HostState' = HostState /\ \A s \in Session : Serving(s)'
    BY <2>1, <2>2, SessionsStay DEF vars, hostVars, sessionVars
  <2>4. SysInv'
    BY <2>1, <2>2, <2>3 DEF vars, hostVars, sessionVars, clientVars, SysInv, PassInv, OneCaller,
                            Calling, Requesting, Asked
  <2>5. Late' = Late
    BY <2>1 DEF Late, AtWork, Unlocking, Called, vars, sessionVars
  <2>6. UNCHANGED Client!vars
    BY <2>1, <2>3, <2>5
       DEF Client!vars, Client!hostVars, Client!passVars, clientVars, HostState, Late, AtWork
  <2> QED
    BY <2>4, <2>6 DEF Maps
<1>2. CASE SystemNext
  BY <1>2, ThinkStep, ConnectStep, DeliverStep, GiveUpStep, WorkStep, SessionDiesStep, RebootStep
     DEF SystemNext
<1> QED
  BY <1>1, <1>2

(* The receivers implement what the client takes them for, if no configured*)
(* dataset lies below another and the client only unlocks and asks: under  *)
(* every interleaving of any number of sessions, with failing commands,    *)
(* killed sessions, lost answers, time-outs and reboots, every behaviour   *)
(* is one of Client, so that what holds of Client holds of the whole       *)
(* (client.py:91-145 against receiver.py:145-269).                         *)
THEOREM Implements == SystemSpec => ImplementsClient
BY SysInitial, SysStep, PTL DEF SystemSpec, ImplementsClient, Client!Spec

-----------------------------------------------------------------------------
(* What is proved of Client is so proved of the whole.  Passes is Client   *)
(* once more, with its theorems.                                           *)
Passes == INSTANCE ClientProofs WITH
       state  <- [i \in Selected |-> StateOf(TrueStatus(Names[i]))],
       late   <- {c \in {"unlock"} \X Selected : \E s \in Session : Unlocking(s, c[2])},
       faults <- reboots

LEMMA PassesAssumptions ==
  /\ N \in Nat \ {0} /\ Verbs \subseteq Passes!AllVerbs /\ MaxFaults \in Nat
  /\ Secret \in [Passes!Selected -> SUBSET Passes!SecretOutcomes]
BY NamesApart, SystemVerbsAssumption, SystemSecretAssumption, MaxFaultsAssumption
   DEF Passes!AllVerbs, Passes!SecretOutcomes, Client!SecretOutcomes, Passes!Selected, Selected

LEMMA PassesIsClient ==
  /\ Passes!Init <=> Client!Init
  /\ Passes!Next <=> Client!Next
  /\ UNCHANGED Passes!vars <=> UNCHANGED Client!vars
  /\ Passes!SuccessTruthful <=> Client!SuccessTruthful
  /\ Passes!EveryLockedAttempted <=> Client!EveryLockedAttempted
  /\ Passes!UnreachableMeansSilent <=> Client!UnreachableMeansSilent
<1>1. Passes!Init <=> Client!Init
  BY Zenon DEF Passes!Selected, Client!Selected, Passes!Pending, Client!Pending, Passes!States,
               Client!States, Passes!Init, Client!Init
<1>2. Passes!Next <=> Client!Next
  BY Zenon DEF Passes!Selected, Client!Selected, Passes!hostVars, Client!hostVars,
               Passes!Pending, Client!Pending, Passes!States,
               Client!States, Passes!AllVerbs, Client!AllVerbs, Passes!passVars,
               Client!passVars, Passes!Begin, Client!Begin, Passes!FromAnswer,
               Client!FromAnswer, Passes!Known, Client!Known, Passes!Unknown, Client!Unknown,
               Passes!Learn, Client!Learn, Passes!StatusAnswered, Client!StatusAnswered,
               Passes!StatusRefused, Client!StatusRefused, Passes!StatusRaised,
               Client!StatusRaised, Passes!StatusUnreached, Client!StatusUnreached,
               Passes!End, Client!End, Passes!AnyUnknown, Client!AnyUnknown,
               Passes!AnyUnmounted, Client!AnyUnmounted, Passes!NoneReached, Client!NoneReached,
               Passes!StatusResult, Client!StatusResult, Passes!Gathered,
               Client!Gathered, Passes!Wanted, Client!Wanted, Passes!Advance, Client!Advance,
               Passes!Skip, Client!Skip, Passes!Command, Client!Command, Passes!Moves,
               Client!Moves, Passes!Carry, Client!Carry, Passes!Execute, Client!Execute,
               Passes!Goal, Client!Goal, Passes!Answers, Client!Answers, Passes!CommandReturns,
               Client!CommandReturns, Passes!CommandLost, Client!CommandLost,
               Passes!CommandLate, Client!CommandLate, Passes!Finish, Client!Finish,
               Passes!Leave, Client!Leave, Passes!Reboot, Client!Reboot, Passes!OtherClient,
               Client!OtherClient, Passes!HostChanges, Client!HostChanges, Passes!Remember,
               Client!Remember, Passes!PassStep, Client!PassStep, Passes!Next, Client!Next
<1>3. UNCHANGED Passes!vars <=> UNCHANGED Client!vars
  BY Zenon DEF Passes!hostVars, Client!hostVars, Passes!passVars, Client!passVars, Passes!vars,
               Client!vars
<1>4. /\ Passes!SuccessTruthful <=> Client!SuccessTruthful
      /\ Passes!EveryLockedAttempted <=> Client!EveryLockedAttempted
      /\ Passes!UnreachableMeansSilent <=> Client!UnreachableMeansSilent
  BY Zenon DEF Passes!Selected, Client!Selected, Passes!Promised, Client!Promised,
               Passes!SuccessTruthful, Client!SuccessTruthful, Passes!EveryLockedAttempted,
               Client!EveryLockedAttempted, Passes!AllWantedAttempted,
               Client!AllWantedAttempted, Passes!Wanted, Client!Wanted,
               Passes!UnreachableMeansSilent, Client!UnreachableMeansSilent, Passes!Unknown,
               Client!Unknown
<1> QED
  BY <1>1, <1>2, <1>3, <1>4

(* With real receivers, under the same two conditions, and however their   *)
(* steps fall between the client's and each other's and whatever fails     *)
(* meanwhile: a pass that reports success tells the truth about every      *)
(* dataset at some instant of the pass, a pass with a result leaves out    *)
(* none it found locked, and it calls the receiver unreachable only when   *)
(* every status check ended at the connection and nothing was attempted    *)
(* (client.py:181-275, receiver.py:145-269).                               *)
THEOREM WholeTells ==
  SystemSpec => [](/\ Client!SuccessTruthful
                   /\ Client!EveryLockedAttempted
                   /\ Client!UnreachableMeansSilent)
<1>1. Passes!Spec => []Passes!SuccessTruthful
  BY PassesAssumptions, Passes!SuccessTells
<1>2. Passes!Spec => []Passes!EveryLockedAttempted
  BY PassesAssumptions, Passes!NoneForgotten
<1>3. Passes!Spec => []Passes!UnreachableMeansSilent
  BY PassesAssumptions, Passes!SilentIfUnreachable
<1>4. SysInv /\ [SystemNext]_svars => SysInv' /\ [Passes!Next]_Passes!vars
  BY SysStep, PassesIsClient
<1>5. SystemInit => SysInv /\ Passes!Init
  BY SysInitial, PassesIsClient
<1> QED
  BY <1>1, <1>2, <1>3, <1>4, <1>5, PassesIsClient, PTL DEF SystemSpec, Passes!Spec
=============================================================================
