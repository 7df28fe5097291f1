----------------------------- MODULE MCSessions -----------------------------
(* Two threads, two sessions of the same user, envelopes of two updates.   *)
EXTENDS Sessions, TLC

CONSTANTS t1, t2, s1, s2, k1

MCThreads  == {t1, t2}
MCSession  == {s1, s2}
MCSession1 == {s1}
MCKeyOf    == (s1 :> k1) @@ (s2 :> k1)
MCKeyOf1   == (s1 :> k1)
=============================================================================
