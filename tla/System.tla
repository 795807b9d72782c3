------------------------------- MODULE System -------------------------------
(***************************************************************************)
(* The whole of it: one client process (module Client) whose requests are  *)
(* served by receiver sessions (module Receiver) on one host.  The client  *)
(* starts an ssh for each status check and each command; a session that    *)
(* has nobody left to answer to, because its client timed out, runs on.    *)
(*                                                                         *)
(* Client is the client with this host and these sessions for its abstract *)
(* receiver: its steps are taken from there, and Client!Spec is what the   *)
(* system is shown to implement.                                           *)
(***************************************************************************)
EXTENDS Receiver

CONSTANTS
  Names,        \* the configured datasets, in order
  Verbs,        \* the commands the user or the daemon runs
  Secret        \* what reading each secret may come to

VARIABLES
  verb, phase, statuses, next, failed, outcome, checks, attempted, was,   \* as in Client
  call,         \* the session that serves the request for each dataset
  reboots       \* faults that were reboots

clientVars == <<verb, phase, statuses, next, failed, outcome, checks, attempted>>
svars == <<vars, clientVars, was, call, reboots>>

N == Len(Names)
Selected == 1..N
NoCall == "none"     \* no ssh, or not connected yet
Broken == "broken"   \* its receiver is gone

(* No configured dataset lies below another: the unlock of a nested one    *)
(* would move the status of the outer one too.  What lies below them is as *)
(* it may be, encryption roots nobody configured and unencrypted datasets. *)
ASSUME NamesAssumption ==
  /\ Names \in Seq(Dataset) /\ N > 0
  /\ \A i, j \in Selected : IsPrefix(Names[i], Names[j]) => i = j

(* With locks a status answer may never have been true (StatusTruthful).   *)
ASSUME SystemVerbsAssumption == Verbs \subseteq {"unlock", "status"}
ASSUME SessionAssumption == {NoCall, Broken} \cap Session = {}

StateOf(word) ==
  CASE word = "locked"             -> "locked"
    [] word = "unlocked"           -> "open"
    [] word = "unlocked-unmounted" -> "unmounted"
    [] word = "unknown"            -> "plain"

Called(s) == \E i \in Selected : call[i] = s

Unlocking(s, i) ==
  /\ pc[s] \notin {"idle", "done"}
  /\ ~Called(s)
  /\ req[s].action = "unlock" /\ req[s].dataset = Names[i]

Client == INSTANCE Client WITH
       state  <- [i \in Selected |-> StateOf(TrueStatus(Names[i]))],
       late   <- {c \in {"unlock"} \X Selected : \E s \in Session : Unlocking(s, c[2])},
       faults <- reboots

ASSUME SystemSecretAssumption == Secret \in [Selected -> SUBSET Client!SecretOutcomes]

SystemInit ==
  /\ Init
  /\ Client!Init
  /\ call = [i \in Selected |-> NoCall]
  /\ reboots = 0

-----------------------------------------------------------------------------
(* Steps of the client alone.                                              *)
Think ==
  /\ UNCHANGED <<vars, call, reboots>>
  /\ \/ \E v \in Verbs : Client!Begin(v)
     \/ Client!Gathered
     \/ Client!Skip
     \/ Client!Command
     \/ Client!Finish
     \/ Client!Leave

Requesting(i) ==
  \/ phase = "asking" /\ statuses[i] = Client!Pending
  \/ phase = "waiting" /\ next = i

(* ssh reaches the host and sshd starts a receiver.                        *)
Connect(i, s) ==
  /\ Requesting(i)
  /\ call[i] = NoCall
  /\ ~Called(s)
  /\ call' = [call EXCEPT ![i] = s]
  /\ Accept(s, <<IF phase = "asking" THEN "status" ELSE verb, Names[i]>>)
  /\ UNCHANGED <<clientVars, reboots>>

(* The passphrase is written at once; a killed ssh may leave an empty text.*)
Send(s) ==
  \E text \in Passphrases[s] \cup (IF Called(s) THEN {} ELSE {"empty"}) : ReadStdin(s, text)

Work(s) ==
  /\ Send(s) \/ HandleStep(s) \/ (~Called(s) /\ Exit(s))
  /\ UNCHANGED <<clientVars, call, reboots>>

(* The session exits and ssh hands its answer to the client.               *)
Deliver(i) ==
  /\ call[i] \in Session
  /\ Exit(call[i])
  /\ call' = [call EXCEPT ![i] = NoCall]
  /\ UNCHANGED reboots
  /\ LET word == resp[call[i]] IN
     CASE phase = "asking" /\ word = "error" -> Client!StatusRefused(i)
       [] phase = "asking" /\ word # "error" ->
            Client!Learn(i, "answered", Client!FromAnswer(StateOf(word)))
       [] phase = "waiting" ->
            Client!Advance(word # "error") /\ UNCHANGED <<verb, statuses, outcome, checks, attempted>>

(* The connection breaks or the command times out, or a status check       *)
(* raises, with or without a session, whose work goes on.                  *)
GiveUp(i) ==
  /\ Requesting(i)
  /\ call' = [call EXCEPT ![i] = NoCall]
  /\ IF call[i] = Broken THEN UNCHANGED faults ELSE Fault
  /\ UNCHANGED <<keyLoaded, mounted, shadows, allow, sessionVars, reboots>>
  /\ \/ phase = "asking" /\ Client!StatusUnreached(i)
     \/ phase = "asking" /\ call[i] # Broken /\ Client!StatusRaised(i)
     \/ phase # "asking" /\ Client!CommandLost

SessionDies(s) ==
  /\ Die(s)
  /\ call' = [i \in Selected |-> IF call[i] = s THEN Broken ELSE call[i]]
  /\ UNCHANGED <<clientVars, reboots>>

HostReboots ==
  /\ Reboot
  /\ reboots' = reboots + 1
  /\ call' = [i \in Selected |-> IF call[i] \in Session THEN Broken ELSE call[i]]
  /\ UNCHANGED clientVars

SystemNext ==
  /\ \/ Think
     \/ \E i \in Selected : Deliver(i) \/ GiveUp(i) \/ \E s \in Session : Connect(i, s)
     \/ \E s \in Session : Work(s) \/ SessionDies(s)
     \/ HostReboots
  /\ Client!Remember

SystemSpec == SystemInit /\ [][SystemNext]_svars

(* The client's event loop runs, sshd accepts, a receiver runs on, and a   *)
(* broken connection is noticed.  Everything else that goes wrong, a lost  *)
(* answer or a time-out included, is one of at most MaxFaults faults.      *)
SystemLive ==
  /\ SystemSpec
  /\ WF_svars(Think /\ Client!Remember)
  /\ \A i \in Selected :
       /\ WF_svars(Deliver(i) /\ Client!Remember)
       /\ WF_svars(call[i] = Broken /\ GiveUp(i) /\ Client!Remember)
       /\ WF_svars((\E s \in Session : Connect(i, s)) /\ Client!Remember)
  /\ \A s \in Session : WF_svars(Work(s) /\ Client!Remember)

-----------------------------------------------------------------------------
(* For configured datasets of which none lies below another, and a client  *)
(* that unlocks and asks, the receivers are what module Client takes them  *)
(* to be: whatever the interleaving of sessions, late ones included, a     *)
(* status answer and the success of an unlock were true at some instant of *)
(* the client's pass, a command moves only its own dataset, and each step  *)
(* of the client is one Client allows (client.py:91-145 against            *)
(* receiver.py:145-269).                                                   *)
ImplementsClient == Client!Spec

(* Whatever reboots, kills, failing `zfs` commands and time-outs there     *)
(* are, once they stop the daemon's passes open every dataset for good     *)
(* (client.py:217-221, cli.py:117-144): what zfs-unlock is for.            *)
AllOpen == <>[](\A i \in Selected : TrueStatus(Names[i]) = "unlocked")
=============================================================================
