---------------------------- MODULE MCSteerQueue ----------------------------
(* Instances of SteerQueue for TLC: two threads of one bot. *)
EXTENDS SteerQueue, TLC

CONSTANTS t1, t2, s1, s2, s3, r1, r2

MCThreads == {t1, t2}
\* Two sends for the first thread, one for the second.
MCSends == {s1, s2, s3}
MCHome == s1 :> t1 @@ s2 :> t1 @@ s3 :> t2
=============================================================================
