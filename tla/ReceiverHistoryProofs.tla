----------------------- MODULE ReceiverHistoryProofs -----------------------
(***************************************************************************)
(* The truth of the receiver's answers, for every host, set of sessions,   *)
(* set of requests and number of faults.  A history records what was true  *)
(* of the dataset of each session while it ran; the invariants say what a  *)
(* session that has come to a certain point must have seen by then.        *)
(***************************************************************************)
EXTENDS ReceiverHistory, ReceiverProofs

(* The keys the client unloads are those of encryption roots.  (Of another *)
(* dataset `zfs unload-key -r` finds no key, and succeeds.)                *)
LocksRoots ==
  \A s \in Session : \A args \in Commands[s] :
    Len(args) >= 2 /\ args[1] = "lock" /\ args[2] \in Allowable => args[2] \in Roots

UnlockedWords == {"unlocked", "unlocked-unmounted"}
KeySeen(s) == seen[s] \cap UnlockedWords # {}

Recorded(s) ==
  /\ req[s] = NoRequest => seen[s] = {}
  /\ req[s] # NoRequest =>
       /\ TrueStatus(req[s].dataset) \in seen[s]
       /\ LockUnderWay => "locking" \in seen[s]

Requested(s) ==
  req[s] # NoRequest =>
    /\ req[s].dataset \in Allowable
    /\ req[s].action = "lock" => req[s].dataset \in Roots

(* A session has a request between its validation and its exit.            *)
Served(s) ==
  /\ pc[s] = "idle" => req[s] = NoRequest
  /\ Answered(s, Words) => req[s] # NoRequest

(* From the listing on, a session has seen the key loaded.                 *)
KeyKnown(s) ==
  /\ pc[s] \in {"list", "mount"} => KeySeen(s)
  /\ Answered(s, {"locked"}) => "locked" \in seen[s]
  /\ Answered(s, UnlockedWords) => KeySeen(s)

KeyInv ==
  /\ TypeInv
  /\ \A s \in Session : Recorded(s) /\ Requested(s) /\ Served(s) /\ KeyKnown(s)

-----------------------------------------------------------------------------
(* The words of TrueStatus, and the key they stand for.                    *)
LEMMA StatusWords ==
  ASSUME NEW d
  PROVE  /\ TrueStatus(d) \in UnlockedWords <=> Keystatus(d) = "available"
         /\ TrueStatus(d) = "locked" <=> Keystatus(d) = "unavailable"
         /\ TrueStatus(d) = "unknown" <=> Keystatus(d) = "-"
         /\ TrueStatus(d) \in Words
         /\ Keystatus(d) \in {"-", "available", "unavailable"}
BY DEF TrueStatus, Keystatus, UnlockedWords, Words

LEMMA StatusWordsNext ==
  ASSUME NEW d
  PROVE  /\ TrueStatus(d)' \in UnlockedWords <=> Keystatus(d)' = "available"
         /\ TrueStatus(d)' = "locked" <=> Keystatus(d)' = "unavailable"
BY DEF TrueStatus, Keystatus, UnlockedWords

(* What the history variable records in a step.                            *)
LEMMA WitnessStep ==
  ASSUME Witness, NEW s \in Session
  PROVE  /\ req'[s] = NoRequest => seen'[s] = {}
         /\ req'[s] # NoRequest =>
              /\ seen[s] \subseteq seen'[s]
              /\ TrueStatus(req[s].dataset)' \in seen'[s]
              /\ LockUnderWay' => "locking" \in seen'[s]
              /\ seen'[s] \subseteq seen[s] \cup {TrueStatus(req[s].dataset)', "locking"}
<1>1. CASE req'[s] = NoRequest
  BY <1>1 DEF Witness
<1>2. CASE req'[s] # NoRequest
  <2>1. seen'[s] = seen[s] \cup {TrueStatus(req[s].dataset)'} \cup (IF LockUnderWay' THEN {"locking"} ELSE {})
    BY <1>2 DEF Witness
  <2> QED
    BY <1>2, <2>1
<1> QED
  BY <1>1, <1>2

LEMMA RecordedStep ==
  ASSUME Witness, NEW s \in Session
  PROVE  Recorded(s)'
BY WitnessStep DEF Recorded

(* The steps of one session leave the others alone.                        *)
Steady(s) == UNCHANGED <<pc[s], req[s], resp[s], todo[s]>>

SessionMoves(s) ==
  \/ \E args \in Commands[s] : Accept(s, args)
  \/ SessionStep(s)
  \/ Die(s)

LEMMA OthersSteady ==
  ASSUME TypeInv, NEW s \in Session, SessionMoves(s), NEW t \in Session, t # s
  PROVE  Steady(t)
<1> USE DEF TypeInv, SessionTypeOK, Steady
<1>1. CASE \E args \in Commands[s] : Accept(s, args)
  BY <1>1 DEF Accept, Goto
<1>2. CASE \E text \in Passphrases[s] : ReadStdin(s, text)
  BY <1>2 DEF ReadStdin, Reply, Goto
<1>3. CASE HandleStep(s)
  BY <1>3, HandleOutcome DEF Reply, Continue, ContinueWith, Goto
<1>4. CASE Exit(s) \/ Die(s)
  BY <1>4 DEF Exit, Die, EndSession, Goto
<1> QED
  BY <1>1, <1>2, <1>3, <1>4 DEF SessionMoves, SessionStep

(* A session begins with an allowlisted dataset, and a lock with a root.   *)
LEMMA RequestedStep ==
  ASSUME LocksRoots, TypeInv, NEW s \in Session, Requested(s), SessionMoves(s)
  PROVE  Requested(s)'
<1> USE DEF TypeInv, SessionTypeOK
<1>1. ASSUME NEW args \in Commands[s], Accept(s, args), req'[s] # req[s]
      PROVE  Requested(s)'
  <2>1. Validated(args, allow) /\ req'[s] = RequestOf(args)
    BY <1>1 DEF Accept
  <2>2. args[2] \in Allowable /\ Len(args) >= 2
    BY <2>1 DEF Validated, WellFormed, Allowable
  <2>3. args[1] = "lock" => args[2] \in Roots
    BY <2>2 DEF LocksRoots
  <2> QED
    BY <2>1, <2>2, <2>3 DEF Requested, RequestOf
<1>2. CASE req'[s] \in {req[s], NoRequest}
  BY <1>2 DEF Requested
<1>3. CASE SessionStep(s) \/ Die(s)
  <2>1. req'[s] \in {req[s], NoRequest}
    <3>1. CASE (\E text \in Passphrases[s] : ReadStdin(s, text)) \/ Exit(s) \/ Die(s)
      BY <3>1 DEF ReadStdin, Reply, Exit, Die, EndSession
    <3>2. CASE HandleStep(s)
      <4>1. UNCHANGED req
        BY <3>2, HandleOutcome DEF Reply, Continue, ContinueWith
      <4> QED
        BY <4>1
    <3> QED
      BY <1>3, <3>1, <3>2 DEF SessionStep
  <2> QED
    BY <1>2, <2>1
<1> QED
  BY <1>1, <1>2, <1>3 DEF SessionMoves

LEMMA ServedStep ==
  ASSUME TypeInv, NEW s \in Session, SessionMoves(s)
  PROVE  Served(s)'
<1> USE DEF TypeInv, SessionTypeOK
<1>1. ASSUME NEW args \in Commands[s], Accept(s, args)
      PROVE  Served(s)'
  <2>1. CASE Validated(args, allow)
    <3>1. FirstStep(RequestOf(args)) \notin {"idle", "done"}
      BY <2>1, RequestType DEF Steps
    <3> QED
      BY <1>1, <2>1, <3>1 DEF Accept, Goto, Served, Answered
  <2>2. CASE ~Validated(args, allow)
    BY <1>1, <2>2 DEF Accept, Goto, Served, Answered, Words
  <2> QED
    BY <2>1, <2>2
<1>2. ASSUME NEW text \in Passphrases[s], ReadStdin(s, text)
      PROVE  Served(s)'
  BY <1>2 DEF ReadStdin, Reply, Goto, Served, Answered, Words
<1>3. CASE Exit(s) \/ Die(s)
  BY <1>3 DEF Exit, Die, EndSession, Goto, Served, Answered
<1>4. CASE HandleStep(s)
  <2>1. pc[s] \notin {"idle", "done"}
    BY <1>4 DEF HandleStep, ReadKeystatus, LoadKey, ListUnmounted, MountNext, MountsDone,
           ListMounted, UnmountNext, UnloadKeys
  <2>2. req'[s] = req[s] /\ req[s] # NoRequest
    BY <1>4, <2>1, HandleOutcome
       DEF Reply, Continue, ContinueWith, Running, Stage, Request, NoRequest, Actions
  <2>3. pc'[s] # "idle"
    BY <1>4 DEF HandleStep, ReadKeystatus, AfterKeystatus, LoadKey, ListUnmounted, MountNext,
         MountsDone, ListMounted, UnmountNext, UnloadKeys, Reply, Continue, ContinueWith, Goto,
         Running, Stage
  <2> QED
    BY <2>2, <2>3 DEF Served
<1> QED
  BY <1>1, <1>2, <1>3, <1>4 DEF SessionMoves, SessionStep

-----------------------------------------------------------------------------
(* What a session has seen of the key, by the time it has come to a point. *)

LEMMA ReplySeen ==
  ASSUME TypeInv, NEW s \in Session, NEW word, Reply(s, word),
         word = "locked" => "locked" \in seen'[s],
         word \in UnlockedWords => KeySeen(s)'
  PROVE  KeyKnown(s)'
BY DEF Reply, Goto, TypeInv, SessionTypeOK, KeyKnown, Answered

LEMMA ContinueSeen ==
  ASSUME TypeInv, NEW s \in Session, NEW label \in Steps, Goto(s, label),
         label \in {"list", "mount"} => KeySeen(s)'
  PROVE  KeyKnown(s)'
BY DEF Goto, TypeInv, SessionTypeOK, KeyKnown, Answered, Steps

LEMMA HandleKey ==
  ASSUME KeyInv, Witness, NEW s \in Session, HandleStep(s)
  PROVE  KeyKnown(s)'
<1> DEFINE d == req[s].dataset
<1> USE DEF KeyInv
<1>0. /\ Stage(pc[s], req[s], allowed[s], todo[s])
      /\ req[s] # NoRequest /\ d \in Dataset
  <2>1. pc[s] \notin {"idle", "done"}
    BY DEF HandleStep, ReadKeystatus, LoadKey, ListUnmounted, MountNext, MountsDone,
           ListMounted, UnmountNext, UnloadKeys
  <2>2. Stage(pc[s], req[s], allowed[s], todo[s])
    BY <2>1 DEF TypeInv, SessionTypeOK, Running
  <2> QED
    BY <2>2 DEF Stage, Request, NoRequest, Actions
<1>1. req' = req
  BY HandleOutcome DEF Reply, Continue, ContinueWith
<1>2. /\ seen[s] \subseteq seen'[s]
      /\ TrueStatus(d) \in seen[s]
      /\ TrueStatus(d)' \in seen'[s]
  BY <1>0, <1>1, WitnessStep DEF Recorded
<1>3. KeySeen(s) => KeySeen(s)'
  BY <1>2 DEF KeySeen
<1>4. CASE ReadKeystatus(s)
  <2>1. PICK ok \in BOOLEAN :
          IF ok THEN AfterKeystatus(s, Keystatus(d)) ELSE Reply(s, "error")
    BY <1>4 DEF ReadKeystatus
  <2>2. req[s].action \in {"status", "unlock"}
    BY <1>0, <1>4 DEF ReadKeystatus, Stage
  <2>3. CASE Keystatus(d) = "available" /\ Continue(s, "list")
    <3>1. KeySeen(s)
      BY <1>2, <2>3, StatusWords DEF KeySeen
    <3> QED
      BY <1>3, <2>3, <3>1, ContinueSeen DEF Continue, Steps, Labels
  <2>4. CASE Reply(s, "locked") /\ Keystatus(d) = "unavailable"
    <3>1. "locked" \in seen'[s]
      BY <1>2, <2>4, StatusWords
    <3> QED
      BY <2>4, <3>1, ReplySeen DEF UnlockedWords
  <2>5. CASE Reply(s, "unknown") \/ Reply(s, "error")
    BY <2>5, ReplySeen DEF UnlockedWords
  <2>6. CASE Continue(s, "loadkey")
    BY <2>6, ContinueSeen DEF Continue, Steps, Labels
  <2> QED
    BY <2>1, <2>2, <2>3, <2>4, <2>5, <2>6 DEF AfterKeystatus
<1>5. CASE LoadKey(s)
  <2>1. PICK ok \in BOOLEAN :
          /\ ZfsLoadKey(d, stdin[s] = "right", ok)
          /\ IF ok THEN Continue(s, "list") ELSE Reply(s, "error")
    BY <1>5 DEF LoadKey
  <2>2. CASE ok
    <3>1. EncRoot[d] = d /\ d \in keyLoaded' /\ d # NoRoot
      BY <1>0, <2>1, <2>2, DatasetAssumption DEF ZfsLoadKey, Outcome, Roots
    <3>2. Keystatus(d)' = "available"
      BY <1>1, <3>1 DEF Keystatus
    <3>3. KeySeen(s)'
      BY <1>2, <3>2, StatusWordsNext DEF KeySeen
    <3> QED
      BY <2>1, <2>2, <3>3, ContinueSeen DEF Continue, Steps, Labels
  <2>3. CASE ~ok
    BY <2>1, <2>3, ReplySeen DEF UnlockedWords
  <2> QED
    BY <2>2, <2>3
<1>6. CASE ListUnmounted(s) \/ MountNext(s) \/ MountsDone(s)
  <2>1. KeySeen(s)'
    BY <1>3, <1>6 DEF ListUnmounted, MountNext, MountsDone, KeyKnown
  <2>2. \/ \E word \in UnlockedWords \cup {"error"} : Reply(s, word)
        \/ \E work : ContinueWith(s, "mount", work)
    BY <1>6 DEF ListUnmounted, MountNext, MountsDone, UnlockedWords
  <2> QED
    BY <2>1, <2>2, ReplySeen, ContinueSeen DEF ContinueWith, Steps, Labels, UnlockedWords
<1>7. CASE ListMounted(s) \/ UnmountNext(s)
  <2>1. Reply(s, "error") \/ \E work : ContinueWith(s, "unload", work)
    BY <1>7 DEF ListMounted, UnmountNext
  <2> QED
    BY <2>1, ReplySeen, ContinueSeen DEF ContinueWith, Steps, Labels, UnlockedWords
<1>8. CASE UnloadKeys(s)
  <2>1. PICK ok \in BOOLEAN : ZfsUnloadKeys(d, ok) /\ Reply(s, IF ok THEN "locked" ELSE "error")
    BY <1>8 DEF UnloadKeys
  <2>2. CASE ok
    <3>1. d \in Roots
      BY <1>0, <1>8 DEF UnloadKeys, Stage, Requested
    <3>2. EncRoot[d] = d /\ d # NoRoot /\ d \notin keyLoaded'
      BY <1>0, <2>1, <2>2, <3>1, SubtreeSelf, DatasetAssumption DEF ZfsUnloadKeys, Roots
    <3>3. Keystatus(d)' = "unavailable"
      BY <1>1, <3>2 DEF Keystatus
    <3> QED
      BY <1>2, <2>1, <2>2, <3>3, StatusWordsNext, ReplySeen DEF UnlockedWords
  <2>3. CASE ~ok
    BY <2>1, <2>3, ReplySeen DEF UnlockedWords
  <2> QED
    BY <2>2, <2>3
<1> QED
  BY <1>4, <1>5, <1>6, <1>7, <1>8 DEF HandleStep

LEMMA OwnKey ==
  ASSUME KeyInv, Witness, NEW s \in Session, SessionMoves(s)
  PROVE  KeyKnown(s)'
<1>1. ASSUME NEW args \in Commands[s], Accept(s, args)
      PROVE  KeyKnown(s)'
  <2>1. CASE Validated(args, allow)
    <3>1. FirstStep(RequestOf(args)) \notin {"list", "mount", "done"}
      BY <2>1, RequestType DEF Stage, FirstStep, Request, Actions
    <3> QED
      BY <1>1, <2>1, <3>1 DEF Accept, Goto, KeyInv, TypeInv, SessionTypeOK, KeyKnown, Answered
  <2>2. CASE ~Validated(args, allow)
    BY <1>1, <2>2 DEF Accept, Goto, KeyInv, TypeInv, SessionTypeOK, KeyKnown, Answered, UnlockedWords
  <2> QED
    BY <2>1, <2>2
<1>2. ASSUME NEW text \in Passphrases[s], ReadStdin(s, text)
      PROVE  KeyKnown(s)'
  BY <1>2 DEF ReadStdin, Reply, Goto, KeyInv, TypeInv, SessionTypeOK, KeyKnown, Answered, UnlockedWords
<1>3. CASE Exit(s) \/ Die(s)
  BY <1>3 DEF Exit, Die, EndSession, Goto, KeyInv, TypeInv, SessionTypeOK, KeyKnown, Answered
<1> QED
  BY <1>1, <1>2, <1>3, HandleKey DEF SessionMoves, SessionStep

(* What a session has seen it has seen, whatever the others do.            *)
LEMMA SteadyKey ==
  ASSUME KeyInv, Witness, NEW t \in Session, Steady(t)
  PROVE  Requested(t)' /\ Served(t)' /\ KeyKnown(t)'
<1>1. Requested(t)' /\ Served(t)'
  BY DEF KeyInv, Steady, Requested, Served, Answered
<1>2. req[t] = NoRequest => pc[t] \notin {"list", "mount"} /\ ~KeySeen(t) /\ "locked" \notin seen[t]
  BY DEF KeyInv, Recorded, KeySeen, KeyKnown
<1>3. req[t] # NoRequest => seen[t] \subseteq seen'[t]
  BY WitnessStep DEF Steady
<1> QED
  BY <1>1, <1>2, <1>3 DEF KeyInv, Steady, KeyKnown, KeySeen, Answered

LEMMA KeyInductive ==
  ASSUME LocksRoots
  PROVE  /\ HInit => KeyInv
         /\ KeyInv /\ [HNext]_hvars => KeyInv'
<1>1. HInit => KeyInv
  BY TypeInvInductive
     DEF HInit, Init, KeyInv, Recorded, Requested, Served, KeyKnown, Answered
<1>2. ASSUME KeyInv, [HNext]_hvars
      PROVE  KeyInv'
  <2>0. TypeInv'
    BY <1>2, TypeInvInductive DEF KeyInv, HNext, hvars
  <2>1. CASE UNCHANGED hvars
    <3>1. ASSUME NEW s \in Session PROVE Recorded(s)' /\ Requested(s)' /\ Served(s)' /\ KeyKnown(s)'
      BY <1>2, <2>1 DEF KeyInv, hvars, vars, hostVars, sessionVars, Recorded, Requested, Served, KeyKnown,
           Answered, KeySeen, TrueStatus, Keystatus, UnmountedMountable, Unmounted, LockUnderWay
    <3> QED
      BY <2>0, <3>1 DEF KeyInv
  <2>2. CASE HNext
    <3>0. Next /\ Witness
      BY <2>2 DEF HNext
    <3>1. \A s \in Session : Recorded(s)'
      BY <3>0, RecordedStep
    <3>2. ASSUME NEW s \in Session, SessionMoves(s), NEW t \in Session
          PROVE  Requested(t)' /\ Served(t)' /\ KeyKnown(t)'
      <4>1. CASE t = s
        BY <1>2, <3>0, <3>2, <4>1, RequestedStep, ServedStep, OwnKey DEF KeyInv
      <4>2. CASE t # s
        BY <1>2, <3>0, <3>2, <4>2, OthersSteady, SteadyKey DEF KeyInv
      <4> QED
        BY <4>1, <4>2
    <3>3. ASSUME EditAllowlist, NEW t \in Session
          PROVE  Requested(t)' /\ Served(t)' /\ KeyKnown(t)'
      BY <1>2, <3>0, <3>3, SteadyKey DEF EditAllowlist, sessionVars, Steady
    <3>4. ASSUME Reboot, NEW t \in Session
          PROVE  Requested(t)' /\ Served(t)' /\ KeyKnown(t)'
      BY <3>4 DEF Reboot, Requested, Served, KeyKnown, Answered
    <3> QED
      BY <2>0, <3>0, <3>1, <3>2, <3>3, <3>4 DEF KeyInv, Next, SessionMoves
  <2> QED
    BY <1>2, <2>1, <2>2
<1> QED
  BY <1>1, <1>2

(* What an answer says about the key was so at some instant of its         *)
(* session, whatever the other sessions do, locks included                 *)
(* (receiver.py:145-198): for any host, and locks of encryption roots.     *)
THEOREM KeyRepliesTell ==
  ASSUME LocksRoots
  PROVE  HSpec => []KeyRepliesTruthful
<1>1. KeyInv => KeyRepliesTruthful
  BY DEF KeyInv, KeyKnown, KeyRepliesTruthful, KeySeen, UnlockedWords
<1> QED
  BY <1>1, KeyInductive, PTL DEF HSpec

-----------------------------------------------------------------------------
(* The whole answer (RepliesTruthful).  As long as no lock is under way,   *)
(* keys stay loaded and datasets mounted; then the key a session has seen  *)
(* is still there, and what is unmounted of its subtree is on the list its *)
(* mount loop works through.  For this no two allowlisted datasets may lie *)
(* one below the other: otherwise another session's unlock can put more to *)
(* mount into the subtree after the listing.                               *)

KeysAllowed == keyLoaded \subseteq Allowable

Left(s) == UnmountedMountable(Subtree(req[s].dataset))

Undisturbed(s) ==
  req[s] # NoRequest /\ "locking" \notin seen[s] =>
    /\ KeySeen(s) => Keystatus(req[s].dataset) = "available"
    /\ pc[s] = "mount" => Left(s) \subseteq todo[s]
    /\ Answered(s, Words) => resp[s] \in seen[s]

ReplyInv == KeyInv /\ KeysAllowed /\ \A s \in Session : Undisturbed(s)

(* What any step does to the keys and the mounts, locks apart.             *)
LEMMA QuietHost ==
  ASSUME KeyInv, NEW s \in Session, SessionMoves(s)
  PROVE  /\ keyLoaded' \subseteq keyLoaded \cup Allowable
         /\ ~LockUnderWay => keyLoaded \subseteq keyLoaded' /\ mounted \subseteq mounted'
<1> USE DEF KeyInv
<1>1. CASE UNCHANGED <<keyLoaded, mounted>>
  BY <1>1
<1>2. CASE LoadKey(s)
  <2>1. req[s] # NoRequest
    BY <1>2 DEF LoadKey, TypeInv, SessionTypeOK, Running, Stage, Request, NoRequest, Actions
  <2> QED
    BY <1>2, <2>1 DEF LoadKey, ZfsLoadKey, Requested
<1>3. CASE MountNext(s)
  BY <1>3 DEF MountNext, ZfsMount
<1>4. CASE UnmountNext(s) \/ UnloadKeys(s)
  <2>1. pc[s] = "unload" /\ keyLoaded' \subseteq keyLoaded
    BY <1>4 DEF UnmountNext, UnloadKeys, ZfsUnmount, ZfsUnloadKeys
  <2>2. LockUnderWay
    BY <2>1 DEF LockUnderWay, TypeInv, SessionTypeOK, Running, Stage
  <2> QED
    BY <2>1, <2>2
<1> QED
  BY <1>1, <1>2, <1>3, <1>4
     DEF SessionMoves, SessionStep, HandleStep, Accept, ReadStdin, ReadKeystatus, ListUnmounted,
         MountsDone, ListMounted, Exit, Die, ZfsRead, ZfsList, hostVars

(* A session with its key has in its subtree no other loaded root, now or  *)
(* later: nothing becomes mountable that was not.                          *)
LEMMA NothingNew ==
  ASSUME Antichain(Allowable), KeysAllowed, KeysAllowed', keyLoaded \subseteq keyLoaded',
         mounted \subseteq mounted',
         NEW d \in Allowable, Keystatus(d) = "available",
         NEW n \in UnmountedMountable(Subtree(d))'
  PROVE  n \in UnmountedMountable(Subtree(d))
<1>1. /\ n \in Subtree(d) /\ n \in Dataset /\ d \in Dataset
      /\ CanMount[n] = "on" /\ n \notin mounted /\ MountPoint[n] \notin {"none", "legacy"}
      /\ Keystatus(n)' # "unavailable"
  BY AllowListsAssumption DEF UnmountedMountable, Unmounted, Subtree, Allowable
<1>2. ASSUME NEW e \in Allowable, NEW m \in Subtree(e), m \in Subtree(d)
      PROVE  e = d
  BY <1>1, <1>2, AllowListsAssumption, AncestorsComparable DEF Antichain, Allowable, Subtree
<1>3. EncRoot[d] = d /\ d \in keyLoaded
  <2>0. NoRoot \notin keyLoaded
    BY AllowListsAssumption, DatasetAssumption DEF KeysAllowed, Allowable
  <2>1. EncRoot[d] \in keyLoaded /\ EncRoot[d] # NoRoot
    BY <2>0 DEF Keystatus
  <2>2. d \in Subtree(EncRoot[d]) /\ EncRoot[d] \in Allowable
    BY <1>1, <2>1, EncRootAssumption DEF KeysAllowed
  <2> QED
    BY <1>1, <1>2, <2>1, <2>2, SubtreeSelf
<1>4. Keystatus(n) # "unavailable"
  <2> SUFFICES ASSUME EncRoot[n] # NoRoot, EncRoot[n] \in keyLoaded'
               PROVE  EncRoot[n] \in keyLoaded
    BY <1>1 DEF Keystatus
  <2>1. n \in Subtree(EncRoot[n]) /\ EncRoot[n] \in Allowable
    BY <1>1, EncRootAssumption DEF KeysAllowed
  <2> QED
    BY <1>1, <1>2, <1>3, <2>1
<1> QED
  BY <1>1, <1>4 DEF UnmountedMountable, Unmounted

(* The key part of Undisturbed, for every session and step.                *)
LEMMA KeyStays ==
  ASSUME ReplyInv, Witness, NEW t \in Session, req'[t] # NoRequest, "locking" \notin seen'[t],
         req'[t] = req[t] \/ req[t] = NoRequest,
         ~LockUnderWay => keyLoaded \subseteq keyLoaded',
         KeySeen(t)'
  PROVE  Keystatus(req[t].dataset)' = "available"
<1>1. /\ seen[t] \subseteq seen'[t]
      /\ seen'[t] \subseteq seen[t] \cup {TrueStatus(req[t].dataset)', "locking"}
  BY WitnessStep
<1>2. CASE KeySeen(t)
  <2>1. req[t] # NoRequest
    BY <1>2 DEF ReplyInv, KeyInv, Recorded, KeySeen
  <2>2. ~LockUnderWay
    BY <1>1, <2>1 DEF ReplyInv, KeyInv, Recorded
  <2>3. Keystatus(req[t].dataset) = "available"
    BY <1>1, <1>2, <2>1 DEF ReplyInv, Undisturbed
  <2> QED
    BY <2>1, <2>2, <2>3 DEF Keystatus
<1>3. CASE ~KeySeen(t)
  <2>1. TrueStatus(req[t].dataset)' \in UnlockedWords
    BY <1>1, <1>3 DEF KeySeen, UnlockedWords
  <2> QED
    BY <2>1, StatusWordsNext
<1> QED
  BY <1>2, <1>3

(* The mount loop of a session that goes on as it was.                     *)
LEMMA LeftShrinks ==
  ASSUME Antichain(Allowable), ReplyInv, KeysAllowed', Witness, NEW t \in Session,
         pc[t] = "mount", req'[t] = req[t], "locking" \notin seen'[t],
         ~LockUnderWay => keyLoaded \subseteq keyLoaded' /\ mounted \subseteq mounted'
  PROVE  Left(t)' \subseteq Left(t) /\ Left(t) \subseteq todo[t]
<1>1. req[t] \in Request /\ req[t] # NoRequest
  BY DEF ReplyInv, KeyInv, TypeInv, SessionTypeOK, Running, Stage, Request, NoRequest, Actions
<1>2. "locking" \notin seen[t] /\ ~LockUnderWay
  BY <1>1, WitnessStep DEF ReplyInv, KeyInv, Recorded
<1>3. /\ Keystatus(req[t].dataset) = "available" /\ req[t].dataset \in Allowable
      /\ Left(t) \subseteq todo[t]
  BY <1>1, <1>2 DEF ReplyInv, KeyInv, KeyKnown, Requested, Undisturbed
<1>4. PICK d \in Allowable : d = req[t].dataset /\ d = req'[t].dataset
  BY <1>3
<1>5. ASSUME NEW n \in Left(t)' PROVE n \in UnmountedMountable(Subtree(d))'
  BY <1>4, <1>5 DEF Left, UnmountedMountable, Subtree
<1> QED
  BY <1>2, <1>3, <1>4, <1>5, NothingNew DEF ReplyInv, Left

Truthful(s) == Answered(s, Words) => resp[s] \in seen[s]
Listed(s) == pc[s] = "mount" => Left(s) \subseteq todo[s]

LEMMA ReplyTruthful ==
  ASSUME TypeInv, NEW s \in Session, NEW word, Reply(s, word), word \in Words => word \in seen'[s]
  PROVE  Listed(s)' /\ Truthful(s)'
BY DEF Reply, Goto, TypeInv, SessionTypeOK, Listed, Truthful, Answered

LEMMA GotoTruthful ==
  ASSUME TypeInv, NEW s \in Session, NEW label \in Steps \ {"mount"}, Goto(s, label)
  PROVE  Listed(s)' /\ Truthful(s)'
BY DEF Goto, TypeInv, SessionTypeOK, Listed, Truthful, Answered, Steps

(* A listing that is accepted is the subtree.                              *)
LEMMA ListingIsSubtree ==
  ASSUME NEW d, NEW rows, ZfsList(d, rows, TRUE), RowsAccepted(d, rows)
  PROVE  rows = Subtree(d)
BY DEF ZfsList, RowsAccepted, Subtree

LEMMA HandleTruthful ==
  ASSUME Antichain(Allowable), ReplyInv, KeysAllowed', Witness, NEW s \in Session, HandleStep(s),
         "locking" \notin seen'[s],
         ~LockUnderWay => keyLoaded \subseteq keyLoaded' /\ mounted \subseteq mounted'
  PROVE  Listed(s)' /\ Truthful(s)'
<1> DEFINE d == req[s].dataset
<1> USE DEF ReplyInv, KeyInv
<1>0. /\ Stage(pc[s], req[s], allowed[s], todo[s])
      /\ req[s] # NoRequest /\ d \in Dataset
  <2>1. pc[s] \notin {"idle", "done"}
    BY DEF HandleStep, ReadKeystatus, LoadKey, ListUnmounted, MountNext, MountsDone,
           ListMounted, UnmountNext, UnloadKeys
  <2>2. Stage(pc[s], req[s], allowed[s], todo[s])
    BY <2>1 DEF TypeInv, SessionTypeOK, Running
  <2> QED
    BY <2>2 DEF Stage, Request, NoRequest, Actions
<1>1. req' = req
  BY HandleOutcome DEF Reply, Continue, ContinueWith
<1>2. /\ seen[s] \subseteq seen'[s] /\ "locking" \notin seen[s]
      /\ TrueStatus(d) \in seen[s] /\ TrueStatus(d) \in seen'[s]
      /\ TrueStatus(d)' \in seen'[s]
  BY <1>0, <1>1, WitnessStep DEF Recorded
<1>3. CASE ReadKeystatus(s)
  <2>1. PICK ok \in BOOLEAN :
          IF ok THEN AfterKeystatus(s, Keystatus(d)) ELSE Reply(s, "error")
    BY <1>3 DEF ReadKeystatus
  <2>2. req[s].action \in {"status", "unlock"}
    BY <1>0, <1>3 DEF ReadKeystatus, Stage
  <2>3. CASE Continue(s, "list") \/ Continue(s, "loadkey")
    BY <2>3, GotoTruthful DEF Continue, Steps, Labels
  <2>4. CASE Reply(s, "locked") /\ Keystatus(d) = "unavailable"
    BY <1>2, <2>4, StatusWords, ReplyTruthful
  <2>5. CASE Reply(s, "unknown") /\ Keystatus(d) \notin {"available", "unavailable"}
    BY <1>2, <2>5, StatusWords, ReplyTruthful
  <2>6. CASE Reply(s, "error")
    BY <2>6, ReplyTruthful DEF Words
  <2> QED
    BY <2>1, <2>2, <2>3, <2>4, <2>5, <2>6 DEF AfterKeystatus
<1>4. CASE LoadKey(s)
  <2>1. Continue(s, "list") \/ Reply(s, "error")
    BY <1>4 DEF LoadKey
  <2> QED
    BY <2>1, GotoTruthful, ReplyTruthful DEF Continue, Steps, Labels, Words
<1>5. CASE ListUnmounted(s)
  <2>1. PICK ok \in BOOLEAN, rows \in {{}} \cup {Subtree(d) \cup {x} : x \in Dataset} :
          /\ ZfsList(d, rows, ok)
          /\ IF ~ok \/ ~RowsAccepted(d, rows)
             THEN Reply(s, "error")
             ELSE IF req[s].action = "unlock"
                  THEN ContinueWith(s, "mount", UnmountedMountable(rows))
                  ELSE Reply(s, IF UnmountedMountable(rows) = {}
                                THEN "unlocked" ELSE "unlocked-unmounted")
    BY <1>5 DEF ListUnmounted
  <2>2. CASE Reply(s, "error")
    BY <2>2, ReplyTruthful DEF Words
  <2>3. CASE ok /\ RowsAccepted(d, rows)
    <3>1. rows = Subtree(d) /\ UNCHANGED <<keyLoaded, mounted>>
      BY <2>1, <2>3, ListingIsSubtree DEF ZfsList
    <3>2. CASE req[s].action = "unlock"
      <4>1. pc'[s] = "mount" /\ todo'[s] = UnmountedMountable(Subtree(d))
        BY <2>1, <2>3, <3>1, <3>2 DEF ContinueWith, Goto, TypeInv, SessionTypeOK
      <4>2. Left(s)' = UnmountedMountable(Subtree(d))
        BY <1>1, <3>1 DEF Left, UnmountedMountable, Unmounted, Keystatus, Subtree
      <4> QED
        BY <4>1, <4>2 DEF Listed, Truthful, Answered
    <3>3. CASE req[s].action # "unlock"
      <4>1. Keystatus(d) = "available"
        BY <1>0, <1>2, <1>5 DEF ListUnmounted, KeyKnown, Undisturbed
      <4>2. TrueStatus(d) = IF UnmountedMountable(Subtree(d)) = {} THEN "unlocked" ELSE "unlocked-unmounted"
        BY <4>1 DEF TrueStatus
      <4> QED
        BY <1>2, <2>1, <2>3, <3>1, <3>3, <4>2, ReplyTruthful
    <3> QED
      BY <3>2, <3>3
  <2> QED
    BY <2>1, <2>2, <2>3
<1>6. CASE MountNext(s)
  <2>1. PICK n \in Shallowest(todo[s]), ok \in BOOLEAN :
          /\ ZfsMount(n, ok)
          /\ IF ok THEN ContinueWith(s, "mount", todo[s] \ {n}) ELSE Reply(s, "error")
    BY <1>6 DEF MountNext
  <2>2. CASE ok
    <3>1. pc[s] = "mount" /\ pc'[s] = "mount" /\ todo'[s] = todo[s] \ {n} /\ n \in mounted'
      BY <1>6, <2>1, <2>2 DEF MountNext, ContinueWith, Goto, TypeInv, SessionTypeOK, ZfsMount
    <3>2. Left(s)' \subseteq Left(s) /\ Left(s) \subseteq todo[s]
      BY <1>1, <3>1, LeftShrinks
    <3>3. n \notin Left(s)'
      BY <3>1 DEF Left, UnmountedMountable, Unmounted
    <3> QED
      BY <3>1, <3>2, <3>3 DEF Listed, Truthful, Answered
  <2>3. CASE ~ok
    BY <2>1, <2>3, ReplyTruthful DEF Words
  <2> QED
    BY <2>2, <2>3
<1>7. CASE MountsDone(s)
  <2>1. pc[s] = "mount" /\ todo[s] = {} /\ Reply(s, "unlocked")
    BY <1>7 DEF MountsDone
  <2>2. Keystatus(d) = "available" /\ Left(s) = {}
    BY <1>0, <1>2, <2>1 DEF KeyKnown, Undisturbed
  <2>3. TrueStatus(d) = "unlocked"
    BY <2>2 DEF TrueStatus, Left
  <2> QED
    BY <1>2, <2>1, <2>3, ReplyTruthful
<1>8. CASE ListMounted(s) \/ UnmountNext(s)
  <2>1. Reply(s, "error") \/ \E work : ContinueWith(s, "unload", work)
    BY <1>8 DEF ListMounted, UnmountNext
  <2> QED
    BY <2>1, ReplyTruthful, GotoTruthful DEF ContinueWith, Steps, Labels, Words
<1>9. ~UnloadKeys(s)
  BY <1>0, <1>2 DEF UnloadKeys, Stage, LockUnderWay, Recorded
<1> QED
  BY <1>3, <1>4, <1>5, <1>6, <1>7, <1>8, <1>9 DEF HandleStep

(* The steps of a session that are no command of its handler.              *)
LEMMA OwnTruthful ==
  ASSUME Antichain(Allowable), ReplyInv, KeysAllowed', Witness, NEW s \in Session, SessionMoves(s),
         req'[s] # NoRequest, "locking" \notin seen'[s],
         ~LockUnderWay => keyLoaded \subseteq keyLoaded' /\ mounted \subseteq mounted'
  PROVE  Listed(s)' /\ Truthful(s)'
<1> USE DEF ReplyInv, KeyInv, TypeInv, SessionTypeOK
<1>1. ASSUME NEW args \in Commands[s], Accept(s, args)
      PROVE  Listed(s)' /\ Truthful(s)'
  <2>1. CASE Validated(args, allow)
    <3>1. FirstStep(RequestOf(args)) \notin {"mount", "done"}
      BY <2>1, RequestType DEF Stage, FirstStep, Request, Actions
    <3> QED
      BY <1>1, <2>1, <3>1 DEF Accept, Goto, Listed, Truthful, Answered
  <2>2. CASE ~Validated(args, allow)
    BY <1>1, <2>2 DEF Accept, Goto, Listed, Truthful, Answered, Words
  <2> QED
    BY <2>1, <2>2
<1>2. ASSUME NEW text \in Passphrases[s], ReadStdin(s, text)
      PROVE  Listed(s)' /\ Truthful(s)'
  BY <1>2 DEF ReadStdin, Reply, Goto, Listed, Truthful, Answered, Words
<1>3. CASE Exit(s) \/ Die(s)
  BY <1>3 DEF Exit, Die, EndSession, Goto, Listed, Truthful, Answered
<1> QED
  BY <1>1, <1>2, <1>3, HandleTruthful DEF SessionMoves, SessionStep

LEMMA SteadyTruthful ==
  ASSUME Antichain(Allowable), ReplyInv, KeysAllowed', Witness, NEW t \in Session, Steady(t),
         req'[t] # NoRequest, "locking" \notin seen'[t],
         ~LockUnderWay => keyLoaded \subseteq keyLoaded' /\ mounted \subseteq mounted'
  PROVE  Listed(t)' /\ Truthful(t)'
<1>1. /\ seen[t] \subseteq seen'[t]
      /\ req'[t] = req[t] /\ pc'[t] = pc[t] /\ todo'[t] = todo[t] /\ resp'[t] = resp[t]
  BY WitnessStep DEF Steady
<1>2. Listed(t)'
  BY <1>1, LeftShrinks DEF Listed
<1>3. Truthful(t)'
  BY <1>1 DEF Steady, Truthful, Answered, ReplyInv, Undisturbed
<1> QED
  BY <1>2, <1>3

LEMMA RequestKept ==
  ASSUME TypeInv, NEW s \in Session, SessionMoves(s), Requested(s), NEW t \in Session,
         pc[s] = "idle" => req[s] = NoRequest
  PROVE  req'[t] \in {req[t], NoRequest} \/ req[t] = NoRequest
<1>1. CASE t # s
  BY <1>1, OthersSteady DEF Steady
<1>2. CASE t = s
  <2>1. CASE \E args \in Commands[s] : Accept(s, args)
    BY <1>2, <2>1 DEF Accept
  <2>2. CASE (\E text \in Passphrases[s] : ReadStdin(s, text)) \/ Exit(s) \/ Die(s)
    BY <1>2, <2>2 DEF ReadStdin, Reply, Exit, Die, EndSession, TypeInv, SessionTypeOK
  <2>3. CASE HandleStep(s)
    BY <1>2, <2>3, HandleOutcome DEF Reply, Continue, ContinueWith
  <2> QED
    BY <2>1, <2>2, <2>3 DEF SessionMoves, SessionStep
<1> QED
  BY <1>1, <1>2

LEMMA ReplyInductive ==
  ASSUME LocksRoots, Antichain(Allowable)
  PROVE  /\ HInit => ReplyInv
         /\ ReplyInv /\ [HNext]_hvars => ReplyInv'
<1>1. HInit => ReplyInv
  BY KeyInductive DEF HInit, Init, HostInit, ReplyInv, KeysAllowed, Undisturbed
<1>2. ASSUME ReplyInv, [HNext]_hvars
      PROVE  ReplyInv'
  <2>0. KeyInv'
    BY <1>2, KeyInductive DEF ReplyInv
  <2>1. CASE UNCHANGED hvars
    <3>1. ASSUME NEW s \in Session PROVE Undisturbed(s)'
      BY <1>2, <2>1 DEF ReplyInv, hvars, vars, hostVars, sessionVars, Undisturbed, Left,
           Answered, KeySeen, Keystatus, UnmountedMountable, Unmounted
    <3> QED
      BY <1>2, <2>0, <2>1, <3>1 DEF ReplyInv, KeysAllowed, hvars, vars, hostVars
  <2>2. ASSUME Next, Witness, NEW s \in Session, SessionMoves(s)
        PROVE  ReplyInv'
    <3>1. /\ KeysAllowed'
          /\ ~LockUnderWay => keyLoaded \subseteq keyLoaded' /\ mounted \subseteq mounted'
      BY <1>2, <2>2, QuietHost DEF ReplyInv, KeysAllowed
    <3>2. ASSUME NEW t \in Session, req'[t] # NoRequest, "locking" \notin seen'[t]
          PROVE  /\ KeySeen(t)' => Keystatus(req[t].dataset)' = "available"
                 /\ Listed(t)' /\ Truthful(t)'
      <4>1. req'[t] = req[t] \/ req[t] = NoRequest
        BY <1>2, <2>2, <3>2, RequestKept DEF ReplyInv, KeyInv, Served
      <4>2. KeySeen(t)' => Keystatus(req[t].dataset)' = "available"
        BY <1>2, <2>2, <3>1, <3>2, <4>1, KeyStays
      <4>3. Listed(t)' /\ Truthful(t)'
        BY <1>2, <2>2, <3>1, <3>2, OwnTruthful, SteadyTruthful, OthersSteady DEF ReplyInv, KeyInv
      <4> QED
        BY <4>2, <4>3
    <3>3. \A t \in Session : Undisturbed(t)'
      BY <3>2 DEF Undisturbed, Listed, Truthful
    <3> QED
      BY <2>0, <3>1, <3>3 DEF ReplyInv
  <2>3. CASE EditAllowlist /\ Witness
    <3>1. /\ UNCHANGED <<keyLoaded, mounted>>
          /\ \A t \in Session : Steady(t)
      BY <2>3 DEF EditAllowlist, hostVars, sessionVars, Steady
    <3>2. KeysAllowed'
      BY <1>2, <3>1 DEF ReplyInv, KeysAllowed
    <3>3. ASSUME NEW t \in Session, req'[t] # NoRequest, "locking" \notin seen'[t]
          PROVE  /\ KeySeen(t)' => Keystatus(req[t].dataset)' = "available"
                 /\ Listed(t)' /\ Truthful(t)'
      BY <1>2, <2>3, <3>1, <3>2, <3>3, KeyStays, SteadyTruthful DEF Steady
    <3> QED
      BY <2>0, <3>2, <3>3 DEF ReplyInv, Undisturbed, Listed, Truthful
  <2>4. CASE Reboot
    BY <2>0, <2>4 DEF Reboot, HostReboot, ReplyInv, KeysAllowed, Undisturbed
  <2> QED
    BY <1>2, <2>1, <2>2, <2>3, <2>4 DEF HNext, Next, SessionMoves
<1> QED
  BY <1>1, <1>2

(* Every status the receiver answers, and the success of an unlock, was    *)
(* true at some instant of its session unless a lock was under way         *)
(* meanwhile, put together from several `zfs` commands though it is, and   *)
(* with any number of other sessions between these (receiver.py:145-198).  *)
THEOREM RepliesTell ==
  ASSUME LocksRoots, Antichain(Allowable)
  PROVE  HSpec => []RepliesTruthful
<1>1. ReplyInv => RepliesTruthful
  <2> SUFFICES ASSUME ReplyInv, NEW s \in Session, Answered(s, Words), "locking" \notin seen[s]
               PROVE  resp[s] \in seen[s]
    BY DEF RepliesTruthful
  <2>1. CASE req[s] # NoRequest
    BY <2>1 DEF ReplyInv, Undisturbed
  <2>2. CASE req[s] = NoRequest
    BY <2>2 DEF ReplyInv, KeyInv, Served
  <2> QED
    BY <2>1, <2>2
<1> QED
  BY <1>1, ReplyInductive, PTL DEF HSpec
=============================================================================
