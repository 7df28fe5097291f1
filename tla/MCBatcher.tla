------------------------------ MODULE MCBatcher ------------------------------
(* Two threads, three items, batches of two.                               *)
EXTENDS Batcher

CONSTANTS t1, t2, i1, i2, i3

MCThreads == {t1, t2}
MCItems   == {i1, i2, i3}
=============================================================================
