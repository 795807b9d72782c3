----------------------------- MODULE MCReceiver -----------------------------
(***************************************************************************)
(* Small hosts for TLC: a pool with an encrypted dataset A that has a      *)
(* child B, a nested encryption root N and an unencrypted child, an        *)
(* encrypted sibling C, and an unencrypted sibling P with a child U whose  *)
(* name has a space in it.                                                 *)
(***************************************************************************)
EXTENDS Receiver

CONSTANTS s1, s2, s3

Tank == <<"tank">>
A    == <<"tank", "a">>
AB   == <<"tank", "a", "b">>
AN   == <<"tank", "a", "n">>
AU   == <<"tank", "a", "p">>
C    == <<"tank", "c">>
P    == <<"tank", "p">>
PU   == <<"tank", "p", "u x">>

MCSafe    == {"tank", "a", "b", "n", "c", "p"}
MCSegment == MCSafe \cup {"u x"}

MCEncRoot ==
  [d \in Dataset |->
     CASE d \in {Tank, AU, P, PU} -> NoRoot
       [] d \in {A, AB} -> A
       [] d \in {AN, C} -> d]

AllOn == [d \in Dataset |-> "on"]
AllPaths == [d \in Dataset |-> "path"]
(* The pool is only a container, and P's child has a legacy mountpoint.    *)
PoolUnmountable == [d \in Dataset |-> IF d = Tank THEN "off" ELSE "on"]
ChildLegacy == [d \in Dataset |-> IF d = PU THEN "legacy" ELSE "path"]

WideHost   == {Tank, A, AB, AN, P, PU}
NestedHost == {Tank, A, AB, AN}
ReplyHost  == {Tank, A, AB, AN, P}
FlatHost   == {A, AB, C}
MixedHost  == {A, AB, AN, AU, C}

Status(d) == <<"status", d>>
Unlock(d) == <<"unlock", d>>
Lock(d)   == <<"lock", d>>
Force(d)  == <<"lock", d, "--force">>

(* Requests parse refuses, one for each reason it has.                     *)
Malformed == {<<>>, <<"unlock">>, <<"destroy", A>>, <<"status", A, "--force">>,
              <<"lock", A, "--yes">>, <<"status", PU>>, <<"status", AB>>}

Everyone(sends) == [s \in Session |-> sends]

OnA == {Status(A), Unlock(A), Lock(A), Force(A)}
ReplyCommands == Everyone(OnA \cup {Status(P), Unlock(P)})
AllCommands  == Everyone(OnA \cup Malformed \cup {Unlock(AN), Force(P)})
LockCommands == Everyone(OnA)
CalmCommands == Everyone({Unlock(A), Lock(A), Unlock(C), Lock(C)})

RightOrWrong   == Everyone({"right", "wrong"})
RightOrEmpty   == Everyone({"right", "empty"})

WithNested == {{A, P, PU}, {A, AN}}
OnlyA      == {{A}}
AandP      == {{A, P}}
AandC      == {{A, C}, {A}}

AnySession == Permutations(Session)
=============================================================================
