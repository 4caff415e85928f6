--------------------------- MODULE MCWakeupWorker ---------------------------
(* Two worker processes, two messages, two handlers at a time.             *)
EXTENDS WakeupWorker, TLC
CONSTANTS w1, w2, h1, h2, m1, m2
=============================================================================
