------------------------------ MODULE MCAssessor ------------------------------
(***************************************************************************)
(* Instances of Assessor for TLC.                                          *)
(***************************************************************************)
EXTENDS Assessor

\* LIMIT 10 and LIMIT 5, scaled: small elements go together, medium ones not.
MCGroupLimit == [small |-> 2, medium |-> 1]
===============================================================================
