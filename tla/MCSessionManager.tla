-------------------------- MODULE MCSessionManager --------------------------
(***************************************************************************)
(* TLC instances of SessionManager.                                        *)
(***************************************************************************)
EXTENDS SessionManager, TLC

CONSTANTS t1, t2, t3, s1, s2, shared, own, plain, v1, v2

\* One turn, watched by two viewers.
OneSession == (t1 :> s1) @@ (v1 :> s1) @@ (v2 :> s1)
OneAgent == (t1 :> shared)

\* One turn, one viewer, and a call of Run with an agent that does not stream.
WatchedSession == (t1 :> s1) @@ (v1 :> s1) @@ (t2 :> s1)
WatchedAgent == OneAgent @@ (t2 :> plain)

\* Turns that share an agent (t1, t2) and a session (t1, t3), so that t2 waits
\* for t1's agent while t3 waits for t1's session.
CrossSession == (t1 :> s1) @@ (t2 :> s2) @@ (t3 :> s1)
CrossAgent == (t1 :> shared) @@ (t2 :> shared) @@ (t3 :> own)

\* Two sessions whose turns share one agent instance.
SharedSession == (t1 :> s1) @@ (t2 :> s2)
SharedAgent == (t1 :> shared) @@ (t2 :> shared)
=============================================================================
