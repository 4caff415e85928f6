----------------------------- MODULE MCLocalBus -----------------------------
(* Two goroutines that pop and two that push; two topics; one-slot         *)
(* subscriber buffers so that messages are dropped.                        *)
EXTENDS LocalBus
CONSTANTS w1, w2, w3, w4
=============================================================================
