------------------------------ MODULE MCSystem ------------------------------
(* The client of two datasets of a host of MCReceiver, one of which has    *)
(* children that follow its key, have one of their own, or have none.      *)
EXTENDS MCReceiver, System

TwoNames == <<A, C>>
NoCommands == Everyone({})   \* all requests come from the client
BothNames  == {{A, C}}
RightOnly  == Everyone({"right"})
AnyRead    == [i \in Selected |-> {"readable", "unreadable"}]
Readable   == [i \in Selected |-> {"readable"}]
=============================================================================
