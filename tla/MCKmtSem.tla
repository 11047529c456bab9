------------------------------ MODULE MCKmtSem ------------------------------
(* Two producers and two consumers on two CPUs; producer1 and the two      *)
(* consumer1 of os_init on two CPUs and on one.                            *)
EXTENDS KmtSem, TLC

CONSTANTS c1, c2, p1, p2, q1, q2

TwoCpus == (c1 :> <<Idle, p1, q1>>) @@ (c2 :> <<Idle, p2, q2>>)
OneCpu  == (c1 :> <<Idle, p1, q1, q2>>)
=============================================================================
