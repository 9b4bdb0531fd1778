-------------------------- MODULE MCMessageFollowers --------------------------
(* MessageFollowers on the instances of MCMessageDelivery. *)
EXTENDS MessageFollowers, MCMessageDelivery

===============================================================================
