--------------------------- MODULE ReceiverProofs ---------------------------
(***************************************************************************)
(* Theorems about the receiver, for every host, set of sessions, set of    *)
(* requests and number of faults the assumptions allow.                    *)
(***************************************************************************)
EXTENDS Receiver, TLAPS

-----------------------------------------------------------------------------
(* The host: the tree of dataset names, and the types of the zfs commands. *)

SQ == INSTANCE SequenceTheorems

(* A prefix, element by element.                                           *)
LEMMA PrefixPointwise ==
  ASSUME NEW S, NEW s \in Seq(S), NEW t \in Seq(S)
  PROVE  IsPrefix(s, t) <=> Len(s) <= Len(t) /\ \A i \in 1..Len(s) : s[i] = t[i]
<1>1. SubSeq(s, 1, Len(s)) = s
  BY SQ!SubSeqFull
<1> SUFFICES ASSUME Len(s) <= Len(t)
             PROVE  s = SubSeq(t, 1, Len(s)) <=> \A i \in 1..Len(s) : s[i] = t[i]
  BY <1>1 DEF IsPrefix
<1>2. /\ SubSeq(t, 1, Len(s)) \in Seq(S)
      /\ Len(SubSeq(t, 1, Len(s))) = Len(s)
      /\ \A i \in 1..Len(s) : SubSeq(t, 1, Len(s))[i] = t[i]
  OBVIOUS
<1> QED
  BY <1>2, SQ!SeqEqual

LEMMA SubtreeSelf ==
  ASSUME NEW d \in Dataset
  PROVE  d \in Subtree(d)
BY DatasetAssumption, PrefixPointwise DEF Subtree

LEMMA SubtreeTransitive ==
  ASSUME NEW d \in Dataset, NEW m \in Subtree(d), NEW n \in Subtree(m)
  PROVE  n \in Subtree(d)
<1>1. m \in Dataset /\ n \in Dataset /\ IsPrefix(d, m) /\ IsPrefix(m, n)
  BY DEF Subtree
<1>2. IsPrefix(d, n)
  BY <1>1, DatasetAssumption, PrefixPointwise
<1> QED
  BY <1>1, <1>2 DEF Subtree

(* Two ancestors of a dataset lie on one path.                             *)
LEMMA AncestorsComparable ==
  ASSUME NEW d \in Dataset, NEW e \in Dataset, NEW n \in Subtree(d) \cap Subtree(e)
  PROVE  d \in Subtree(e) \/ e \in Subtree(d)
<1>1. n \in Dataset /\ IsPrefix(d, n) /\ IsPrefix(e, n)
  BY DEF Subtree
<1>2. IsPrefix(d, e) \/ IsPrefix(e, d)
  BY <1>1, DatasetAssumption, PrefixPointwise
<1> QED
  BY <1>2 DEF Subtree

LEMMA BelowDeeper ==
  ASSUME NEW p \in Dataset, NEW c \in Below(p)
  PROVE  Len(p) < Len(c)
<1>1. c \in Dataset /\ IsPrefix(p, c) /\ p # c
  BY DEF Below, Subtree
<1>2. /\ Len(p) <= Len(c)
      /\ \A i \in 1..Len(p) : p[i] = c[i]
  BY <1>1, DatasetAssumption, PrefixPointwise
<1> QED
  BY <1>1, <1>2, DatasetAssumption, SQ!SeqEqual

-----------------------------------------------------------------------------
(* Every zfs command keeps the host's types.                               *)

LEMMA FaultType ==
  ASSUME faults \in 0..MaxFaults, Fault \/ UNCHANGED faults
  PROVE  faults' \in 0..MaxFaults
BY MaxFaultsAssumption DEF Fault

LEMMA OutcomeType ==
  ASSUME faults \in 0..MaxFaults, NEW ok, NEW possible, Outcome(ok, possible)
  PROVE  faults' \in 0..MaxFaults
BY FaultType DEF Outcome

LEMMA ReadType ==
  ASSUME HostTypeOK, NEW ok, ZfsRead(ok)
  PROVE  HostTypeOK'
BY OutcomeType DEF ZfsRead, HostTypeOK

LEMMA ListType ==
  ASSUME HostTypeOK, NEW d, NEW rows, NEW ok, ZfsList(d, rows, ok)
  PROVE  HostTypeOK' /\ (d \in Dataset => rows \subseteq Dataset)
<1>1. faults' \in 0..MaxFaults
  BY FaultType DEF ZfsList, HostTypeOK
<1> QED
  BY <1>1 DEF ZfsList, HostTypeOK, Subtree

LEMMA LoadKeyType ==
  ASSUME HostTypeOK, NEW n \in Dataset, NEW right, NEW ok \in BOOLEAN,
         ZfsLoadKey(n, right, ok)
  PROVE  HostTypeOK'
<1>1. faults' \in 0..MaxFaults
  BY OutcomeType DEF ZfsLoadKey, HostTypeOK
<1>2. ok => n \in Roots
  BY DEF ZfsLoadKey, Outcome
<1> QED
  BY <1>1, <1>2 DEF ZfsLoadKey, HostTypeOK

LEMMA MountType ==
  ASSUME HostTypeOK, NEW n \in Dataset, NEW ok \in BOOLEAN, ZfsMount(n, ok)
  PROVE  HostTypeOK'
<1>1. faults' \in 0..MaxFaults
  BY OutcomeType DEF ZfsMount, HostTypeOK
<1> QED
  BY <1>1 DEF ZfsMount, HostTypeOK, Below, Subtree

LEMMA UnmountType ==
  ASSUME HostTypeOK, NEW n \in Dataset, NEW ok \in BOOLEAN, ZfsUnmount(n, ok)
  PROVE  HostTypeOK'
<1>1. faults' \in 0..MaxFaults
  BY OutcomeType DEF ZfsUnmount, HostTypeOK
<1> QED
  BY <1>1 DEF ZfsUnmount, HostTypeOK

LEMMA UnloadType ==
  ASSUME HostTypeOK, NEW d \in Dataset, NEW ok \in BOOLEAN, ZfsUnloadKeys(d, ok)
  PROVE  HostTypeOK'
<1>1. faults' \in 0..MaxFaults
  BY FaultType DEF ZfsUnloadKeys, HostTypeOK
<1>2. keyLoaded' \subseteq keyLoaded
  BY DEF ZfsUnloadKeys
<1> QED
  BY <1>1, <1>2 DEF ZfsUnloadKeys, HostTypeOK

LEMMA RebootType ==
  ASSUME HostTypeOK, HostReboot
  PROVE  HostTypeOK'
BY FaultType DEF HostReboot, HostTypeOK, BootMounts

-----------------------------------------------------------------------------
(* What a handler knows at each point: it has a validated request for a    *)
(* dataset of its allowlist, of the kind that leads there, and the         *)
(* datasets left to mount or unmount are in that dataset's subtree.        *)
Stage(label, r, list, work) ==
  /\ r \in Request
  /\ r.dataset \in list
  /\ work \subseteq Subtree(r.dataset)
  /\ label \notin {"mount", "unload"} => work = {}
  /\ label \in {"stdin", "loadkey", "mount"} => r.action = "unlock"
  /\ label \in {"keystatus", "list"} => r.action \in {"status", "unlock"}
  /\ label \in {"listmounted", "unload"} => r.action = "lock"
  /\ label = "listmounted" => r.force
  /\ label = "unload" /\ work # {} => r.force

Steps == Labels \ {"idle", "done"}

Running(s) ==
  IF pc[s] \in {"idle", "done"}
  THEN todo[s] = {}
  ELSE Stage(pc[s], req[s], allowed[s], todo[s])

SessionTypeOK ==
  /\ pc \in [Session -> Labels]
  /\ req \in [Session -> Request \cup {NoRequest}]
  /\ allowed \in [Session -> SUBSET Dataset]
  /\ stdin \in [Session -> Stdin \cup {"none"}]
  /\ todo \in [Session -> SUBSET Dataset]
  /\ resp \in [Session -> Words \cup {"none", "error"}]
  /\ \A s \in Session : Running(s)

TypeInv == HostTypeOK /\ allow \in AllowLists /\ SessionTypeOK

LEMMA ReplyType ==
  ASSUME SessionTypeOK, NEW s \in Session, NEW word \in Words \cup {"error"}, Reply(s, word)
  PROVE  SessionTypeOK'
BY DEF SessionTypeOK, Running, Reply, Goto, Labels

LEMMA ContinueType ==
  ASSUME SessionTypeOK, NEW s \in Session, NEW label \in Steps, Continue(s, label),
         Stage(label, req[s], allowed[s], todo[s])
  PROVE  SessionTypeOK'
BY DEF SessionTypeOK, Running, Continue, Goto, Steps

LEMMA ContinueWithType ==
  ASSUME SessionTypeOK, NEW s \in Session, NEW label \in Steps,
         NEW datasets \in SUBSET Dataset, ContinueWith(s, label, datasets),
         Stage(label, req[s], allowed[s], datasets)
  PROVE  SessionTypeOK'
BY DEF SessionTypeOK, Running, ContinueWith, Goto, Steps

LEMMA EndType ==
  ASSUME SessionTypeOK, NEW s \in Session, EndSession(s)
  PROVE  SessionTypeOK'
BY DEF SessionTypeOK, Running, EndSession, Goto, Labels, Stdin, Words

(* A request that passes validation is well typed.                         *)
LEMMA NamedRequestType ==
  ASSUME NEW args, args[2] \in Dataset, NEW list, Validated(args, list)
  PROVE  /\ FirstStep(RequestOf(args)) \in Steps
         /\ Stage(FirstStep(RequestOf(args)), RequestOf(args), list, {})
<1>1. args[1] \in Actions /\ args[2] \in list
  BY DEF Validated, WellFormed, Actions
<1>2. RequestOf(args) \in Request /\ RequestOf(args).dataset \in list
  BY <1>1 DEF RequestOf, Request
<1>3. ASSUME NEW r \in Request, r.dataset \in list
      PROVE  FirstStep(r) \in Steps /\ Stage(FirstStep(r), r, list, {})
  BY <1>3 DEF Request, FirstStep, Steps, Labels, Actions, Stage
<1> QED
  BY <1>2, <1>3

LEMMA RequestType ==
  ASSUME NEW s \in Session, NEW args \in Commands[s], NEW list, Validated(args, list)
  PROVE  /\ FirstStep(RequestOf(args)) \in Steps
         /\ Stage(FirstStep(RequestOf(args)), RequestOf(args), list, {})
<1>1. args[2] \in Dataset
  BY CommandsAssumption DEF Validated, WellFormed
<1> QED
  BY <1>1, NamedRequestType

LEMMA AcceptType ==
  ASSUME TypeInv, NEW s \in Session, NEW args, Accept(s, args),
         Validated(args, allow) => args[2] \in Dataset
  PROVE  TypeInv'
<1>1. HostTypeOK' /\ allow' \in AllowLists
  BY DEF TypeInv, Accept, HostTypeOK, hostVars
<1>2. allow \in SUBSET Dataset
  BY AllowListsAssumption DEF TypeInv
<1>3. SessionTypeOK'
  <2>1. CASE Validated(args, allow)
    <3> DEFINE r == RequestOf(args)
    <3>1. FirstStep(r) \in Steps /\ Stage(FirstStep(r), r, allow, {}) /\ r \in Request
      BY <2>1, NamedRequestType DEF Stage
    <3>2. todo[s] = {}
      BY DEF TypeInv, SessionTypeOK, Running, Accept
    <3> HIDE DEF r
    <3> QED
      BY <1>2, <2>1, <3>1, <3>2
         DEF TypeInv, SessionTypeOK, Running, Accept, Goto, Steps, r
  <2>2. CASE ~Validated(args, allow)
    BY <1>2, <2>2 DEF TypeInv, SessionTypeOK, Running, Accept, Goto, Labels
  <2> QED
    BY <2>1, <2>2
<1> QED
  BY <1>1, <1>3 DEF TypeInv

(* Each step of a handler keeps the type invariant.                        *)
LEMMA HandleType ==
  ASSUME TypeInv, NEW s \in Session, HandleStep(s)
  PROVE  TypeInv'
<1> USE DEF TypeInv
<1>0. /\ Stage(pc[s], req[s], allowed[s], todo[s])
      /\ req[s] \in Request
      /\ req[s].dataset \in Dataset
      /\ allow' = allow
  <2>1. allow' = allow
    BY DEF HandleStep, ReadKeystatus, LoadKey, ListUnmounted, MountNext, MountsDone,
           ListMounted, UnmountNext, UnloadKeys
  <2>2. pc[s] \notin {"idle", "done"}
    BY DEF HandleStep, ReadKeystatus, LoadKey, ListUnmounted, MountNext, MountsDone,
           ListMounted, UnmountNext, UnloadKeys
  <2> QED
    BY <2>1, <2>2 DEF SessionTypeOK, Running, Stage, Request
<1>1. CASE ReadKeystatus(s)
  <2>1. PICK ok \in BOOLEAN :
          /\ ZfsRead(ok)
          /\ IF ok THEN AfterKeystatus(s, Keystatus(req[s].dataset)) ELSE Reply(s, "error")
    BY <1>1 DEF ReadKeystatus
  <2>2. HostTypeOK'
    BY <2>1, ReadType
  <2>3. SessionTypeOK'
    <3>1. pc[s] = "keystatus" /\ req[s].action \in {"status", "unlock"}
      BY <1>0, <1>1 DEF ReadKeystatus, Stage
    <3>2. CASE \E word \in Words \cup {"error"} : Reply(s, word)
      BY <3>2, ReplyType
    <3>3. CASE Continue(s, "list")
      BY <3>1, <3>3, <1>0, ContinueType DEF Steps, Labels, Stage
    <3>4. CASE req[s].action = "unlock" /\ Continue(s, "loadkey")
      BY <3>1, <3>4, <1>0, ContinueType DEF Steps, Labels, Stage
    <3> QED
      BY <2>1, <3>1, <3>2, <3>3, <3>4 DEF AfterKeystatus, Words
  <2> QED
    BY <1>0, <2>2, <2>3
<1>2. CASE LoadKey(s)
  <2>1. PICK ok \in BOOLEAN :
          /\ ZfsLoadKey(req[s].dataset, stdin[s] = "right", ok)
          /\ IF ok THEN Continue(s, "list") ELSE Reply(s, "error")
    BY <1>2 DEF LoadKey
  <2>2. HostTypeOK'
    BY <1>0, <2>1, LoadKeyType
  <2>3. Stage("list", req[s], allowed[s], todo[s])
    BY <1>0, <1>2 DEF LoadKey, Stage
  <2>4. SessionTypeOK'
    BY <2>1, <2>3, ContinueType, ReplyType DEF Steps, Labels
  <2> QED
    BY <1>0, <2>2, <2>4
<1>3. CASE ListUnmounted(s)
  <2> DEFINE d == req[s].dataset
  <2>1. PICK ok \in BOOLEAN, rows \in {{}} \cup {Subtree(d) \cup {x} : x \in Dataset} :
          /\ ZfsList(d, rows, ok)
          /\ IF ~ok \/ ~RowsAccepted(d, rows)
             THEN Reply(s, "error")
             ELSE IF req[s].action = "unlock"
                  THEN ContinueWith(s, "mount", UnmountedMountable(rows))
                  ELSE Reply(s, IF UnmountedMountable(rows) = {}
                                THEN "unlocked" ELSE "unlocked-unmounted")
    BY <1>3 DEF ListUnmounted
  <2>2. HostTypeOK' /\ UnmountedMountable(rows) \in SUBSET Dataset
    BY <1>0, <2>1, ListType DEF UnmountedMountable
  <2>3. SessionTypeOK'
    <3>1. CASE \E word \in Words \cup {"error"} : Reply(s, word)
      BY <3>1, ReplyType
    <3>2. CASE /\ req[s].action = "unlock"
               /\ RowsAccepted(d, rows)
               /\ ContinueWith(s, "mount", UnmountedMountable(rows))
      <4>1. UnmountedMountable(rows) \subseteq Subtree(d)
        BY <2>2, <3>2 DEF RowsAccepted, UnmountedMountable, Subtree
      <4>2. Stage("mount", req[s], allowed[s], UnmountedMountable(rows))
        BY <1>0, <3>2, <4>1 DEF Stage
      <4> QED
        BY <2>2, <3>2, <4>2, ContinueWithType DEF Steps, Labels
    <3> QED
      BY <2>1, <3>1, <3>2 DEF Words
  <2> QED
    BY <1>0, <2>2, <2>3
<1>4. CASE MountNext(s)
  <2>1. PICK n \in Shallowest(todo[s]), ok \in BOOLEAN :
          /\ ZfsMount(n, ok)
          /\ IF ok THEN ContinueWith(s, "mount", todo[s] \ {n}) ELSE Reply(s, "error")
    BY <1>4 DEF MountNext
  <2>2. n \in Dataset /\ todo[s] \ {n} \in SUBSET Dataset
    BY DEF Shallowest, SessionTypeOK
  <2>3. HostTypeOK'
    BY <2>1, <2>2, MountType
  <2>4. SessionTypeOK'
    <3>1. Stage("mount", req[s], allowed[s], todo[s] \ {n})
      BY <1>0, <1>4 DEF MountNext, Stage
    <3> QED
      BY <2>1, <2>2, <3>1, ContinueWithType, ReplyType DEF Steps, Labels
  <2> QED
    BY <1>0, <2>3, <2>4
<1>5. CASE MountsDone(s)
  <2>1. HostTypeOK'
    BY <1>5 DEF MountsDone, hostVars, HostTypeOK
  <2>2. SessionTypeOK'
    BY <1>5, ReplyType DEF MountsDone, Words
  <2> QED
    BY <1>0, <2>1, <2>2
<1>6. CASE ListMounted(s)
  <2> DEFINE d == req[s].dataset
  <2>1. PICK ok \in BOOLEAN, rows \in {{}} \cup {Subtree(d) \cup {x} : x \in Dataset} :
          /\ ZfsList(d, rows, ok)
          /\ IF ok /\ RowsAccepted(d, rows)
             THEN ContinueWith(s, "unload", rows \cap mounted)
             ELSE Reply(s, "error")
    BY <1>6 DEF ListMounted
  <2>2. HostTypeOK' /\ rows \cap mounted \in SUBSET Dataset
    BY <1>0, <2>1, ListType
  <2>3. SessionTypeOK'
    <3>1. ASSUME RowsAccepted(d, rows)
          PROVE  Stage("unload", req[s], allowed[s], rows \cap mounted)
      <4>1. rows \cap mounted \subseteq Subtree(d)
        BY <2>2, <3>1 DEF RowsAccepted, Subtree
      <4> QED
        BY <1>0, <1>6, <4>1 DEF ListMounted, Stage
    <3> QED
      BY <2>1, <2>2, <3>1, ContinueWithType, ReplyType DEF Steps, Labels
  <2> QED
    BY <1>0, <2>2, <2>3
<1>7. CASE UnmountNext(s)
  <2>1. PICK n \in Deepest(todo[s]), ok \in BOOLEAN :
          /\ ZfsUnmount(n, ok)
          /\ IF ok THEN ContinueWith(s, "unload", todo[s] \ {n}) ELSE Reply(s, "error")
    BY <1>7 DEF UnmountNext
  <2>2. n \in Dataset /\ todo[s] \ {n} \in SUBSET Dataset
    BY DEF Deepest, SessionTypeOK
  <2>3. HostTypeOK'
    BY <2>1, <2>2, UnmountType
  <2>4. SessionTypeOK'
    <3>1. Stage("unload", req[s], allowed[s], todo[s] \ {n})
      BY <1>0, <1>7 DEF UnmountNext, Stage, Deepest
    <3> QED
      BY <2>1, <2>2, <3>1, ContinueWithType, ReplyType DEF Steps, Labels
  <2> QED
    BY <1>0, <2>3, <2>4
<1>8. CASE UnloadKeys(s)
  <2>1. PICK ok \in BOOLEAN :
          ZfsUnloadKeys(req[s].dataset, ok) /\ Reply(s, IF ok THEN "locked" ELSE "error")
    BY <1>8 DEF UnloadKeys
  <2>2. HostTypeOK'
    BY <1>0, <2>1, UnloadType
  <2>3. SessionTypeOK'
    BY <2>1, ReplyType DEF Words
  <2> QED
    BY <1>0, <2>2, <2>3
<1> QED
  BY <1>1, <1>2, <1>3, <1>4, <1>5, <1>6, <1>7, <1>8 DEF HandleStep

LEMMA ReadStdinType ==
  ASSUME TypeInv, NEW s \in Session, NEW text \in Stdin, ReadStdin(s, text)
  PROVE  TypeInv'
<1>1. HostTypeOK' /\ allow' \in AllowLists
  BY DEF ReadStdin, hostVars, TypeInv, HostTypeOK
<1>2. SessionTypeOK'
  <2>1. CASE text = "refused"
    BY <2>1, ReplyType DEF ReadStdin, TypeInv
  <2>2. CASE text # "refused"
    <3>1. Stage("keystatus", req[s], allowed[s], todo[s])
      BY DEF ReadStdin, TypeInv, SessionTypeOK, Running, Stage
    <3> QED
      BY <2>2, <3>1 DEF ReadStdin, Goto, TypeInv, SessionTypeOK, Running, Labels
  <2> QED
    BY <2>1, <2>2
<1> QED
  BY <1>1, <1>2 DEF TypeInv

(* A step of a handler replies or goes on.                                 *)
LEMMA HandleOutcome ==
  ASSUME TypeInv, NEW s \in Session, HandleStep(s)
  PROVE  \/ \E word : Reply(s, word)
         \/ \E label : Continue(s, label)
         \/ \E label, work : ContinueWith(s, label, work)
<1>1. CASE ReadKeystatus(s)
  <2>1. req[s].action \in {"status", "unlock"}
    BY <1>1 DEF ReadKeystatus, TypeInv, SessionTypeOK, Running, Stage
  <2> QED
    BY <1>1, <2>1 DEF ReadKeystatus, AfterKeystatus
<1>2. CASE LoadKey(s) \/ MountNext(s) \/ MountsDone(s) \/ ListMounted(s)
  BY <1>2 DEF LoadKey, MountNext, MountsDone, ListMounted
<1>3. CASE UnmountNext(s) \/ UnloadKeys(s)
  BY <1>3 DEF UnmountNext, UnloadKeys
<1>4. CASE ListUnmounted(s)
  BY <1>4 DEF ListUnmounted
<1> QED
  BY <1>1, <1>2, <1>3, <1>4 DEF HandleStep

LEMMA TypeInvInductive ==
  /\ Init => TypeInv
  /\ TypeInv /\ [Next]_vars => TypeInv'
<1>1. Init => TypeInv
  <2> SUFFICES ASSUME Init PROVE TypeInv
    OBVIOUS
  <2>1. HostTypeOK
    BY MaxFaultsAssumption DEF Init, HostInit, HostTypeOK, BootMounts
  <2>2. SessionTypeOK
    BY DEF Init, SessionTypeOK, Running, Labels
  <2> QED
    BY <2>1, <2>2 DEF Init, TypeInv
<1>2. TypeInv /\ [Next]_vars => TypeInv'
  <2> SUFFICES ASSUME TypeInv, [Next]_vars PROVE TypeInv'
    OBVIOUS
  <2>1. CASE UNCHANGED vars
    BY <2>1 DEF vars, hostVars, sessionVars, TypeInv, HostTypeOK, SessionTypeOK, Running
  <2>2. ASSUME NEW s \in Session, NEW args \in Commands[s], Accept(s, args)
        PROVE  TypeInv'
    <3>1. Validated(args, allow) => args[2] \in Dataset
      BY CommandsAssumption DEF Validated, WellFormed
    <3> QED
      BY <2>2, <3>1, AcceptType
  <2>3. ASSUME NEW s \in Session, NEW text \in Passphrases[s], ReadStdin(s, text)
        PROVE  TypeInv'
    BY <2>3, PassphrasesAssumption, ReadStdinType
  <2>4. ASSUME NEW s \in Session, HandleStep(s)
        PROVE  TypeInv'
    BY <2>4, HandleType
  <2>5. ASSUME NEW s \in Session, Exit(s)
        PROVE  TypeInv'
    BY <2>5, EndType DEF Exit, hostVars, TypeInv, HostTypeOK
  <2>6. ASSUME NEW s \in Session, Die(s)
        PROVE  TypeInv'
    BY <2>6, EndType, FaultType DEF Die, TypeInv, HostTypeOK
  <2>7. CASE EditAllowlist
    BY <2>7 DEF EditAllowlist, hostVars, sessionVars, TypeInv, HostTypeOK, SessionTypeOK, Running
  <2>8. CASE Reboot
    <3>1. HostTypeOK' /\ allow' \in AllowLists
      BY <2>8, RebootType DEF Reboot, TypeInv
    <3>2. SessionTypeOK'
      BY <2>8 DEF Reboot, SessionTypeOK, Running, Labels
    <3> QED
      BY <3>1, <3>2 DEF TypeInv
  <2> QED
    BY <2>1, <2>2, <2>3, <2>4, <2>5, <2>6, <2>7, <2>8 DEF Next, SessionStep
<1> QED
  BY <1>1, <1>2

-----------------------------------------------------------------------------
(* Who may change what (Authorised).                                       *)

LEMMA ServesOwn ==
  ASSUME TypeInv, NEW s \in Session, pc[s] \notin {"idle", "done"},
         <<pc[s], todo[s]>>' # <<pc[s], todo[s]>>,
         NEW n \in Subtree(req[s].dataset)
  PROVE  Serves(s, req[s].action, n)
BY DEF TypeInv, SessionTypeOK, Running, Stage, Serves

LEMMA AuthorisedLemma ==
  ASSUME TypeInv, Next
  PROVE  AuthorisedStep
<1> USE DEF TypeInv
<1>1. CASE UNCHANGED <<keyLoaded, mounted>>
  BY <1>1 DEF AuthorisedStep
<1>2. CASE Reboot
  BY <1>2 DEF AuthorisedStep
<1>3. ASSUME NEW s \in Session, LoadKey(s)
      PROVE  AuthorisedStep
  <2>1. /\ mounted' = mounted
        /\ keyLoaded' \ keyLoaded \subseteq {req[s].dataset}
        /\ keyLoaded \subseteq keyLoaded'
    BY <1>3 DEF LoadKey, ZfsLoadKey
  <2>2. pc[s] = "loadkey" /\ pc'[s] # pc[s]
    BY <1>3 DEF LoadKey, Continue, Reply, Goto, SessionTypeOK
  <2>3. req[s].action = "unlock" /\ req[s].dataset \in Dataset
    BY <2>2 DEF SessionTypeOK, Running, Stage, Request
  <2>4. Serves(s, "unlock", req[s].dataset)
    BY <2>2, <2>3, ServesOwn, SubtreeSelf
  <2> QED
    BY <2>1, <2>4 DEF AuthorisedStep
<1>4. ASSUME NEW s \in Session, MountNext(s)
      PROVE  AuthorisedStep
  <2>1. PICK n \in Shallowest(todo[s]), ok \in BOOLEAN :
          /\ ZfsMount(n, ok)
          /\ IF ok THEN ContinueWith(s, "mount", todo[s] \ {n}) ELSE Reply(s, "error")
    BY <1>4 DEF MountNext
  <2>2. /\ keyLoaded' = keyLoaded
        /\ mounted' \ mounted \subseteq {n}
        /\ mounted \subseteq mounted'
    BY <2>1 DEF ZfsMount
  <2>3. pc[s] = "mount" /\ n \in todo[s]
    BY <1>4 DEF MountNext, Shallowest
  <2>4. <<pc[s], todo[s]>>' # <<pc[s], todo[s]>>
    BY <2>1, <2>3 DEF ContinueWith, Reply, Goto, SessionTypeOK
  <2>5. req[s].action = "unlock" /\ n \in Subtree(req[s].dataset)
    BY <2>3 DEF SessionTypeOK, Running, Stage
  <2>6. Serves(s, "unlock", n)
    BY <2>3, <2>4, <2>5, ServesOwn
  <2> QED
    BY <2>2, <2>6 DEF AuthorisedStep
<1>5. ASSUME NEW s \in Session, UnmountNext(s)
      PROVE  AuthorisedStep
  <2>1. PICK n \in Deepest(todo[s]), ok \in BOOLEAN :
          /\ ZfsUnmount(n, ok)
          /\ IF ok THEN ContinueWith(s, "unload", todo[s] \ {n}) ELSE Reply(s, "error")
    BY <1>5 DEF UnmountNext
  <2>2. /\ keyLoaded' = keyLoaded
        /\ mounted \ mounted' \subseteq {n}
        /\ mounted' \subseteq mounted
    BY <2>1 DEF ZfsUnmount
  <2>3. pc[s] = "unload" /\ n \in todo[s]
    BY <1>5 DEF UnmountNext, Deepest
  <2>4. <<pc[s], todo[s]>>' # <<pc[s], todo[s]>>
    BY <2>1, <2>3 DEF ContinueWith, Reply, Goto, SessionTypeOK
  <2>5. req[s].action = "lock" /\ req[s].force /\ n \in Subtree(req[s].dataset)
    BY <2>3 DEF SessionTypeOK, Running, Stage
  <2>6. Serves(s, "lock", n)
    BY <2>3, <2>4, <2>5, ServesOwn
  <2> QED
    BY <2>2, <2>5, <2>6 DEF AuthorisedStep
<1>6. ASSUME NEW s \in Session, UnloadKeys(s)
      PROVE  AuthorisedStep
  <2>1. /\ mounted' = mounted
        /\ keyLoaded \ keyLoaded' \subseteq Subtree(req[s].dataset)
        /\ keyLoaded' \subseteq keyLoaded
    BY <1>6 DEF UnloadKeys, ZfsUnloadKeys
  <2>2. pc[s] = "unload" /\ pc'[s] # pc[s]
    BY <1>6 DEF UnloadKeys, Reply, Goto, SessionTypeOK
  <2>3. req[s].action = "lock"
    BY <2>2 DEF SessionTypeOK, Running, Stage
  <2>4. ASSUME NEW r \in keyLoaded \ keyLoaded'
        PROVE  Serves(s, "lock", r)
    BY <2>1, <2>2, <2>3, <2>4, ServesOwn
  <2> QED
    BY <2>1, <2>4 DEF AuthorisedStep
<1> QED
  BY <1>1, <1>2, <1>3, <1>4, <1>5, <1>6
     DEF Next, SessionStep, HandleStep, Accept, ReadStdin, ReadKeystatus, ListUnmounted,
         MountsDone, ListMounted, Exit, Die, EditAllowlist, ZfsRead, ZfsList, hostVars

(* Every change to the host is made by a session within its request and    *)
(* its allowlist (receiver.py:200-218, 255-301).                           *)
THEOREM ChangesAuthorised == Spec => Authorised
<1>1. TypeInv /\ [Next]_vars => [AuthorisedStep]_vars
  BY AuthorisedLemma
<1> QED
  BY <1>1, TypeInvInductive, PTL DEF Spec, Authorised

(* Type correctness, and that a handler past its validation always has a   *)
(* request to serve (receiver.py:37-48, 66-121).                           *)
THEOREM TypeCorrect == Spec => []TypeOK
<1>1. Spec => []TypeInv
  BY TypeInvInductive, PTL DEF Spec
<1>2. TypeInv => TypeOK
  BY DEF TypeInv, TypeOK, SessionTypeOK
<1> QED
  BY <1>1, <1>2, PTL

-----------------------------------------------------------------------------
(* Nothing is ever hidden (NothingHidden), under Prudent.  The invariant   *)
(* says why: only keys of allowlisted roots are loaded, and since none of  *)
(* these lies below another, all that an unlock mounts belongs to its own  *)
(* root; of one root, a dataset is mounted only after its ancestors; and   *)
(* an ancestor a mount loop has not mounted is still on its list.          *)

Allowable == UNION AllowLists

(* p is an ancestor of c, of the same root, that the receiver would mount. *)
MountsBefore(p, c) == c \in Below(p) /\ AutoMount(p) /\ EncRoot[p] = EncRoot[c]

NoForce == \A s \in Session : allowed[s] \subseteq Allowable /\ ~req[s].force
KeysAllowable == keyLoaded \subseteq Allowable
MountedKeyed == \A n \in mounted : EncRoot[n] = NoRoot \/ EncRoot[n] \in keyLoaded
BootStays == BootMounts \subseteq mounted
ParentsMounted ==
  \A c \in mounted, p \in Dataset : MountsBefore(p, c) => p \in mounted
ListComplete(s) ==
  pc[s] = "mount" =>
    \A c \in todo[s] :
      /\ AutoMount(c)
      /\ EncRoot[c] = req[s].dataset
      /\ \A p \in Dataset : MountsBefore(p, c) => p \in mounted \cup todo[s]

CalmInv ==
  /\ TypeInv
  /\ NoForce
  /\ KeysAllowable
  /\ MountedKeyed
  /\ BootStays
  /\ ParentsMounted
  /\ \A s \in Session : ListComplete(s)
  /\ NothingHidden

(* The host part of the invariant holds of a host that has just booted.    *)
LEMMA BootCalm ==
  ASSUME keyLoaded = {}, mounted = BootMounts, shadows = {}
  PROVE  KeysAllowable /\ MountedKeyed /\ BootStays /\ ParentsMounted /\ NothingHidden
BY DEF KeysAllowable, MountedKeyed, BootStays, ParentsMounted, NothingHidden, BootMounts,
       MountsBefore

(* Two allowlisted datasets with a common descendant are one.              *)
LEMMA OneRoot ==
  ASSUME Prudent, NEW d \in Allowable, NEW e \in Allowable, NEW n \in Subtree(d) \cap Subtree(e)
  PROVE  d = e
<1>1. d \in Dataset /\ e \in Dataset
  BY AllowListsAssumption DEF Allowable
<1> QED
  BY <1>1, AncestorsComparable DEF Prudent, Antichain, Allowable, Subtree

(* A dataset whose key is loaded, in the subtree of an allowlisted one,    *)
(* takes its key from that one.                                            *)
LEMMA LoadedRoot ==
  ASSUME Prudent, TypeInv, KeysAllowable, NEW d \in Allowable, NEW n \in Subtree(d),
         EncRoot[n] \in keyLoaded
  PROVE  EncRoot[n] = d
<1>1. n \in Dataset /\ EncRoot[n] \in Allowable /\ EncRoot[n] \in Dataset
  BY AllowListsAssumption DEF Subtree, KeysAllowable, Allowable
<1>2. EncRoot[n] # NoRoot
  BY <1>1, DatasetAssumption
<1>3. n \in Subtree(EncRoot[n])
  BY <1>1, <1>2, EncRootAssumption
<1> QED
  BY <1>1, <1>3, OneRoot

LEMMA ListingComplete ==
  ASSUME Prudent, CalmInv, NEW d \in Allowable, NEW rows, Subtree(d) \subseteq rows,
         RowsAccepted(d, rows), rows \subseteq Dataset,
         NEW c \in UnmountedMountable(rows)
  PROVE  /\ AutoMount(c)
         /\ EncRoot[c] = d
         /\ \A p \in Dataset : MountsBefore(p, c) => p \in mounted \cup UnmountedMountable(rows)
<1>0. d \in Dataset
  BY AllowListsAssumption DEF Allowable
<1>1. c \in Subtree(d) /\ c \in Dataset /\ Unmounted(c)
  BY DEF UnmountedMountable, RowsAccepted, Subtree
<1>2. AutoMount(c) /\ c \notin mounted /\ Keystatus(c) # "unavailable"
  BY <1>1, PropertyAssumption DEF Unmounted, AutoMount
<1>3. EncRoot[c] # NoRoot
  BY <1>1, <1>2 DEF CalmInv, BootStays, BootMounts
<1>4. EncRoot[c] \in keyLoaded
  BY <1>2, <1>3 DEF Keystatus
<1>5. EncRoot[c] = d
  BY <1>1, <1>4, LoadedRoot DEF CalmInv
<1>6. ASSUME NEW p \in Dataset, MountsBefore(p, c), p \notin mounted
      PROVE  p \in UnmountedMountable(rows)
  <2>1. EncRoot[p] = d /\ d # NoRoot /\ EncRoot[p] \in keyLoaded
    BY <1>3, <1>4, <1>5, <1>6 DEF MountsBefore
  <2>2. p \in Subtree(d)
    BY <2>1, EncRootAssumption
  <2>3. Keystatus(p) = "available"
    BY <2>1 DEF Keystatus
  <2> QED
    BY <1>6, <2>2, <2>3 DEF UnmountedMountable, Unmounted, MountsBefore, AutoMount
<1> QED
  BY <1>2, <1>5, <1>6

(* The dataset an unlock mounts next has no mounted descendant, and all    *)
(* its ancestors of the same root are mounted.                             *)
LEMMA MountIsSafe ==
  ASSUME Prudent, CalmInv, NEW s \in Session, pc[s] = "mount",
         NEW n \in Shallowest(todo[s]), n \notin mounted
  PROVE  /\ mounted \cap Below(n) = {}
         /\ \A p \in Dataset : MountsBefore(p, n) => p \in mounted
<1>1. n \in todo[s] /\ \A m \in todo[s] : Len(n) <= Len(m)
  BY DEF Shallowest
<1>2. Stage("mount", req[s], allowed[s], todo[s])
  BY DEF CalmInv, TypeInv, SessionTypeOK, Running
<1> DEFINE d == req[s].dataset
<1>3. /\ d \in Allowable /\ d \in Dataset
      /\ n \in Subtree(d) /\ n \in Dataset
      /\ EncRoot[n] = d /\ d # NoRoot
  BY <1>1, <1>2, DatasetAssumption
     DEF Stage, Request, CalmInv, NoForce, ListComplete, Subtree
<1>4. \A p \in Dataset : MountsBefore(p, n) => p \in mounted
  <2> SUFFICES ASSUME NEW p \in Dataset, MountsBefore(p, n), p \in todo[s]
               PROVE  FALSE
    BY <1>1 DEF CalmInv, ListComplete
  <2>1. Len(p) < Len(n)
    BY BelowDeeper DEF MountsBefore
  <2>2. Len(n) <= Len(p)
    BY <1>1
  <2>3. Len(n) \in Nat /\ Len(p) \in Nat
    BY <1>3, DatasetAssumption
  <2> QED
    BY <2>1, <2>2, <2>3
<1>5. ASSUME NEW c \in mounted \cap Below(n)
      PROVE  FALSE
  <2>1. c \in Subtree(n) /\ c \in Dataset /\ c \in Subtree(d)
    BY <1>3, SubtreeTransitive DEF Below, Subtree
  <2>2. EncRoot[c] # NoRoot
    BY <1>3, <2>1 DEF Prudent
  <2>3. EncRoot[c] = d
    BY <1>3, <2>1, <2>2, LoadedRoot DEF CalmInv, MountedKeyed
  <2>4. AutoMount(n)
    BY <1>1 DEF CalmInv, ListComplete
  <2> QED
    BY <1>3, <2>3, <2>4 DEF CalmInv, ParentsMounted, MountsBefore
<1> QED
  BY <1>4, <1>5

(* Steps of a session that leave the mount loops of the others alone.      *)
LEMMA OthersCalm ==
  ASSUME CalmInv, NEW s \in Session, mounted \subseteq mounted',
         UNCHANGED <<req, allowed>>,
         pc' = [pc EXCEPT ![s] = pc'[s]], todo' = [todo EXCEPT ![s] = todo'[s]],
         pc'[s] = "mount" => ListComplete(s)'
  PROVE  NoForce' /\ \A t \in Session : ListComplete(t)'
<1>1. ASSUME NEW t \in Session, t # s
      PROVE  ListComplete(t)'
  <2>1. pc'[t] = pc[t] /\ todo'[t] = todo[t]
    BY <1>1 DEF CalmInv, TypeInv, SessionTypeOK
  <2> QED
    BY <2>1 DEF CalmInv, ListComplete
<1>2. ListComplete(s)'
  BY DEF ListComplete
<1> QED
  BY <1>1, <1>2 DEF CalmInv, NoForce

LEMMA ReplyCalm ==
  ASSUME CalmInv, NEW s \in Session, NEW word, Reply(s, word), mounted \subseteq mounted'
  PROVE  NoForce' /\ \A t \in Session : ListComplete(t)'
<1>1. pc'[s] = "done"
  BY DEF Reply, Goto, CalmInv, TypeInv, SessionTypeOK
<1> QED
  BY <1>1, OthersCalm DEF Reply, Goto, CalmInv, TypeInv, SessionTypeOK

LEMMA ContinueCalm ==
  ASSUME CalmInv, NEW s \in Session, NEW label, label # "mount", Continue(s, label),
         mounted \subseteq mounted'
  PROVE  NoForce' /\ \A t \in Session : ListComplete(t)'
<1>1. pc'[s] = label /\ todo'[s] = todo[s]
  BY DEF Continue, Goto, CalmInv, TypeInv, SessionTypeOK
<1> QED
  BY <1>1, OthersCalm DEF Continue, Goto, CalmInv, TypeInv, SessionTypeOK

(* The host part, while neither keys nor mounts change.                    *)
HostCalm == KeysAllowable /\ MountedKeyed /\ BootStays /\ ParentsMounted /\ NothingHidden

LEMMA SameHostCalm ==
  ASSUME CalmInv, UNCHANGED <<keyLoaded, mounted, shadows>>
  PROVE  HostCalm'
BY DEF CalmInv, HostCalm, KeysAllowable, MountedKeyed, BootStays, ParentsMounted, NothingHidden

LEMMA CalmHandle ==
  ASSUME Prudent, CalmInv, NEW s \in Session, HandleStep(s)
  PROVE  HostCalm' /\ NoForce' /\ \A t \in Session : ListComplete(t)'
<1> DEFINE d == req[s].dataset
<1>0. /\ Stage(pc[s], req[s], allowed[s], todo[s])
      /\ d \in Dataset /\ d \in Allowable /\ ~req[s].force
  <2>1. pc[s] \notin {"idle", "done"}
    BY DEF HandleStep, ReadKeystatus, LoadKey, ListUnmounted, MountNext, MountsDone,
           ListMounted, UnmountNext, UnloadKeys
  <2> QED
    BY <2>1 DEF CalmInv, TypeInv, SessionTypeOK, Running, Stage, Request, NoForce
<1>1. CASE ReadKeystatus(s)
  <2>1. PICK ok \in BOOLEAN :
          /\ ZfsRead(ok)
          /\ IF ok THEN AfterKeystatus(s, Keystatus(req[s].dataset)) ELSE Reply(s, "error")
    BY <1>1 DEF ReadKeystatus
  <2>2. UNCHANGED <<keyLoaded, mounted, shadows>>
    BY <2>1 DEF ZfsRead
  <2>3. req[s].action \in {"status", "unlock"}
    BY <1>0, <1>1 DEF ReadKeystatus, Stage
  <2>4. (\E word : Reply(s, word)) \/ Continue(s, "list") \/ Continue(s, "loadkey")
    BY <2>1, <2>3 DEF AfterKeystatus
  <2> QED
    BY <2>2, <2>4, SameHostCalm, ReplyCalm, ContinueCalm
<1>2. CASE LoadKey(s)
  <2>1. PICK ok \in BOOLEAN :
          /\ ZfsLoadKey(d, stdin[s] = "right", ok)
          /\ IF ok THEN Continue(s, "list") ELSE Reply(s, "error")
    BY <1>2 DEF LoadKey
  <2>2. /\ UNCHANGED <<mounted, shadows>>
        /\ keyLoaded \subseteq keyLoaded'
        /\ keyLoaded' \subseteq keyLoaded \cup {d}
    BY <2>1 DEF ZfsLoadKey
  <2>3. HostCalm'
    BY <1>0, <2>2 DEF CalmInv, HostCalm, KeysAllowable, MountedKeyed, BootStays,
                      ParentsMounted, NothingHidden
  <2> QED
    BY <2>1, <2>2, <2>3, ReplyCalm, ContinueCalm
<1>3. CASE ListUnmounted(s)
  <2>1. PICK ok \in BOOLEAN, rows \in {{}} \cup {Subtree(d) \cup {x} : x \in Dataset} :
          /\ ZfsList(d, rows, ok)
          /\ IF ~ok \/ ~RowsAccepted(d, rows)
             THEN Reply(s, "error")
             ELSE IF req[s].action = "unlock"
                  THEN ContinueWith(s, "mount", UnmountedMountable(rows))
                  ELSE Reply(s, IF UnmountedMountable(rows) = {}
                                THEN "unlocked" ELSE "unlocked-unmounted")
    BY <1>3 DEF ListUnmounted
  <2>2. UNCHANGED <<keyLoaded, mounted, shadows>>
    BY <2>1 DEF ZfsList
  <2>3. CASE \E word : Reply(s, word)
    BY <2>2, <2>3, SameHostCalm, ReplyCalm
  <2>4. CASE ok /\ RowsAccepted(d, rows) /\ ContinueWith(s, "mount", UnmountedMountable(rows))
    <3>1. Subtree(d) \subseteq rows /\ rows \subseteq Dataset
      BY <2>1, <2>4 DEF ZfsList, Subtree
    <3>2. todo'[s] = UnmountedMountable(rows) /\ UNCHANGED <<req, allowed>>
      BY <2>4 DEF ContinueWith, CalmInv, TypeInv, SessionTypeOK
    <3>3. ASSUME NEW c \in UnmountedMountable(rows)
          PROVE  /\ AutoMount(c)
                 /\ EncRoot[c] = d
                 /\ \A p \in Dataset : MountsBefore(p, c) => p \in mounted \cup UnmountedMountable(rows)
      BY <1>0, <2>4, <3>1, ListingComplete
    <3>4. ListComplete(s)'
      BY <2>2, <3>2, <3>3 DEF ListComplete
    <3> QED
      BY <2>2, <2>4, <3>4, SameHostCalm, OthersCalm
         DEF ContinueWith, Goto, CalmInv, TypeInv, SessionTypeOK
  <2> QED
    BY <2>1, <2>3, <2>4
<1>4. CASE MountNext(s)
  <2>1. PICK n \in Shallowest(todo[s]), ok \in BOOLEAN :
          /\ ZfsMount(n, ok)
          /\ IF ok THEN ContinueWith(s, "mount", todo[s] \ {n}) ELSE Reply(s, "error")
    BY <1>4 DEF MountNext
  <2>2. CASE ~ok
    BY <2>1, <2>2, SameHostCalm, ReplyCalm DEF ZfsMount
  <2>3. CASE ok
    <3>1. /\ n \in Dataset \ mounted /\ Keystatus(n) # "unavailable"
          /\ mounted' = mounted \cup {n} /\ keyLoaded' = keyLoaded
          /\ shadows' = shadows \cup ({n} \X (mounted \cap Below(n)))
      BY <2>1, <2>3 DEF ZfsMount, Outcome
    <3>2. /\ mounted \cap Below(n) = {}
          /\ \A p \in Dataset : MountsBefore(p, n) => p \in mounted
      BY <1>4, <3>1, MountIsSafe DEF MountNext
    <3>3. EncRoot[n] = NoRoot \/ EncRoot[n] \in keyLoaded
      BY <3>1 DEF Keystatus
    <3>4. HostCalm'
      BY <3>1, <3>2, <3>3 DEF CalmInv, HostCalm, KeysAllowable, MountedKeyed, BootStays,
                              ParentsMounted, NothingHidden
    <3>5. pc[s] = "mount" /\ todo'[s] = todo[s] \ {n} /\ UNCHANGED <<req, allowed>>
      BY <1>4, <2>1, <2>3 DEF MountNext, ContinueWith, CalmInv, TypeInv, SessionTypeOK
    <3>6. ListComplete(s)'
      BY <3>1, <3>5 DEF CalmInv, ListComplete
    <3> QED
      BY <2>1, <2>3, <3>1, <3>4, <3>6, OthersCalm
         DEF ContinueWith, Goto, CalmInv, TypeInv, SessionTypeOK
  <2> QED
    BY <2>2, <2>3
<1>5. CASE MountsDone(s)
  BY <1>5, SameHostCalm, ReplyCalm DEF MountsDone, hostVars
<1>6. ~ListMounted(s)
  BY <1>0 DEF ListMounted, Stage
<1>7. ~UnmountNext(s)
  BY <1>0 DEF UnmountNext, Deepest, Stage
<1>8. CASE UnloadKeys(s)
  <2>1. PICK ok \in BOOLEAN :
          ZfsUnloadKeys(req[s].dataset, ok) /\ Reply(s, IF ok THEN "locked" ELSE "error")
    BY <1>8 DEF UnloadKeys
  <2>2. /\ UNCHANGED <<mounted, shadows>>
        /\ keyLoaded' \subseteq keyLoaded
        /\ \A r \in keyLoaded : Busy(r) => r \in keyLoaded'
    BY <2>1 DEF ZfsUnloadKeys
  <2>3. HostCalm'
    BY <2>2 DEF CalmInv, HostCalm, KeysAllowable, MountedKeyed, BootStays,
                ParentsMounted, NothingHidden, Busy
  <2> QED
    BY <2>1, <2>2, <2>3, ReplyCalm
<1> QED
  BY <1>1, <1>2, <1>3, <1>4, <1>5, <1>6, <1>7, <1>8 DEF HandleStep

LEMMA CalmInductive ==
  ASSUME Prudent
  PROVE  /\ Init => CalmInv
         /\ CalmInv /\ [Next]_vars => CalmInv'
<1>1. Init => CalmInv
  BY TypeInvInductive, BootCalm
     DEF Init, HostInit, CalmInv, NoForce, NoRequest, ListComplete
<1>2. ASSUME CalmInv, [Next]_vars
      PROVE  CalmInv'
  <2> USE <1>2
  <2>0. TypeInv'
    BY TypeInvInductive DEF CalmInv
  <2> SUFFICES HostCalm' /\ NoForce' /\ \A t \in Session : ListComplete(t)'
    BY <2>0 DEF CalmInv, HostCalm
  <2>1. CASE UNCHANGED <<hostVars, sessionVars>>
    BY <2>1, SameHostCalm DEF hostVars, sessionVars, CalmInv, NoForce, ListComplete
  <2>2. ASSUME NEW s \in Session, NEW args \in Commands[s], Accept(s, args)
        PROVE  HostCalm' /\ NoForce' /\ \A t \in Session : ListComplete(t)'
    <3>1. HostCalm'
      BY <2>2, SameHostCalm DEF Accept, hostVars
    <3>2. allow \subseteq Allowable
      BY DEF CalmInv, TypeInv, Allowable
    <3>3. Validated(args, allow) => ~RequestOf(args).force
      <4>1. ~(Len(args) = 3 /\ args[1] = "lock")
        BY DEF Prudent, AsksForce
      <4>2. Validated(args, allow) => ~(Len(args) = 3)
        BY <4>1, CommandsAssumption DEF Validated, WellFormed
      <4> QED
        BY <4>2 DEF RequestOf
    <3>4. NoForce'
      BY <2>2, <3>2, <3>3 DEF Accept, CalmInv, NoForce, TypeInv, SessionTypeOK
    <3>5. ASSUME NEW t \in Session
          PROVE  ListComplete(t)'
      <4>1. pc'[s] # "mount"
        BY <2>2, RequestType DEF Accept, Goto, CalmInv, TypeInv, SessionTypeOK, FirstStep,
                                 Stage, Request, Actions
      <4> QED
        BY <2>2, <4>1 DEF Accept, Goto, hostVars, CalmInv, TypeInv, SessionTypeOK, ListComplete
    <3> QED
      BY <3>1, <3>4, <3>5
  <2>3. ASSUME NEW s \in Session, NEW text \in Passphrases[s], ReadStdin(s, text)
        PROVE  HostCalm' /\ NoForce' /\ \A t \in Session : ListComplete(t)'
    <3>1. UNCHANGED <<keyLoaded, mounted, shadows, req, allowed>>
      BY <2>3 DEF ReadStdin, Reply, hostVars
    <3>2. pc'[s] # "mount" /\ pc' = [pc EXCEPT ![s] = pc'[s]] /\ todo' = [todo EXCEPT ![s] = todo'[s]]
      BY <2>3 DEF ReadStdin, Reply, Goto, CalmInv, TypeInv, SessionTypeOK
    <3> QED
      BY <3>1, <3>2, SameHostCalm, OthersCalm
  <2>4. ASSUME NEW s \in Session, HandleStep(s)
        PROVE  HostCalm' /\ NoForce' /\ \A t \in Session : ListComplete(t)'
    BY <2>4, CalmHandle
  <2>5. ASSUME NEW s \in Session, EndSession(s), UNCHANGED <<keyLoaded, mounted, shadows>>
        PROVE  HostCalm' /\ NoForce' /\ \A t \in Session : ListComplete(t)'
    <3>1. NoForce'
      BY <2>5 DEF EndSession, NoRequest, CalmInv, NoForce, TypeInv, SessionTypeOK
    <3>2. \A t \in Session : ListComplete(t)'
      BY <2>5 DEF EndSession, Goto, CalmInv, ListComplete, TypeInv, SessionTypeOK
    <3> QED
      BY <2>5, <3>1, <3>2, SameHostCalm
  <2>6. CASE Reboot
    <3>1. HostCalm'
      <4>1. keyLoaded' = {} /\ mounted' = BootMounts /\ shadows' = {}
        BY <2>6 DEF Reboot, HostReboot
      <4>2. KeysAllowable' /\ BootStays' /\ NothingHidden'
        BY <4>1 DEF KeysAllowable, BootStays, NothingHidden
      <4>3. MountedKeyed' /\ ParentsMounted'
        BY <4>1 DEF MountedKeyed, ParentsMounted, BootMounts, MountsBefore
      <4> QED
        BY <4>2, <4>3 DEF HostCalm
    <3> QED
      BY <2>6, <3>1 DEF Reboot, NoForce, NoRequest, ListComplete
  <2> QED
    BY <2>1, <2>2, <2>3, <2>4, <2>5, <2>6
       DEF Next, SessionStep, Exit, Die, EditAllowlist, vars, hostVars
<1> QED
  BY <1>1, <1>2

(* Parents first, over all sessions, requests, failures and reboots: no    *)
(* mount ever hides a mounted dataset (receiver.py:220-269).               *)
THEOREM MountsHideNothing ==
  ASSUME Prudent
  PROVE  Spec => []NothingHidden
<1>1. CalmInv => NothingHidden
  BY DEF CalmInv
<1> QED
  BY <1>1, CalmInductive, PTL DEF Spec
=============================================================================
