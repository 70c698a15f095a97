---------------------------- MODULE MCAmqpAccrual ----------------------------
(***************************************************************************)
(* Instances of AmqpAccrual for TLC: the rows are those of the requests.   *)
(***************************************************************************)
EXTENDS AmqpAccrual, TLC

MCRows == Ingests \cup Deletes
===============================================================================
