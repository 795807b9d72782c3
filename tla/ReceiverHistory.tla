-------------------------- MODULE ReceiverHistory --------------------------
(***************************************************************************)
(* The receiver with a history variable: what was true of each session's   *)
(* dataset at the instants of the session.  An answer put together from    *)
(* several `zfs` commands is right when it was true at one of them.        *)
(***************************************************************************)
EXTENDS Receiver

VARIABLE seen   \* the true states of each session's dataset since it began,
                \* and "locking" if a lock has been under way meanwhile

hvars == <<vars, seen>>

HInit == Init /\ seen = [s \in Session |-> {}]

LockUnderWay == \E s \in Session : pc[s] \notin {"idle", "done"} /\ req[s].action = "lock"

Witness ==
  seen' = [s \in Session |->
             CASE req'[s] = NoRequest -> {}
               [] req'[s] # NoRequest ->
                  seen[s] \cup {TrueStatus(req[s].dataset)'} \cup (IF LockUnderWay' THEN {"locking"} ELSE {})]

HNext == Next /\ Witness

HSpec == HInit /\ [][HNext]_hvars

Answered(s, words) == pc[s] = "done" /\ resp[s] \in words

(* Every status word the receiver answers, and the success of an unlock,   *)
(* was true at some instant of the session, unless a lock was under way    *)
(* meanwhile (receiver.py:145-198).                                        *)
RepliesTruthful ==
  \A s \in Session : Answered(s, Words) /\ "locking" \notin seen[s] => resp[s] \in seen[s]

(* The same of the answers to status requests alone: "unlocked" is         *)
(* reported of a dataset that had its key loaded and everything mounted at *)
(* some instant of the session, "unlocked-unmounted" of one that had not   *)
(* (receiver.py:160-173).                                                  *)
StatusTruthful ==
  \A s \in Session :
    req[s].action = "status" /\ Answered(s, Words) => resp[s] \in seen[s]

(* As far as the key goes: "locked" is answered only if the key was        *)
(* unavailable at some instant of the session, and an unlocked status or a *)
(* successful unlock only if it was available.                             *)
KeyRepliesTruthful ==
  \A s \in Session :
    /\ Answered(s, {"locked"}) => "locked" \in seen[s]
    /\ Answered(s, {"unlocked", "unlocked-unmounted"}) =>
         seen[s] \cap {"unlocked", "unlocked-unmounted"} # {}
=============================================================================
