-------------------------- MODULE MCReceiverHistory --------------------------
(* The hosts of MCReceiver for the receiver with its history variable.     *)
EXTENDS MCReceiver, ReceiverHistory
=============================================================================
