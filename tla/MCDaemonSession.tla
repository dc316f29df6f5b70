-------------------------- MODULE MCDaemonSession --------------------------
(***************************************************************************)
(* Instances of DaemonSession for TLC.                                     *)
(***************************************************************************)
EXTENDS DaemonSession, TLC

CONSTANTS h1, h2, s1, s2, u1, u2

OneHandler  == {h1}
TwoHandlers == {h1, h2}
TwoSessions == {s1, s2}
TwoSpeeches == {u1, u2}
OneSpeech   == {u1}

TwoKinds == {"command", "agent"}
OneKind  == {"command"}
VoiceKind == {"agent"}

\* A streaming backend only: the batch path is in the serial run.
StreamingInit == Init /\ streaming = TRUE
StreamingSpec == StreamingInit /\ [][Next]_vars

\* A batch backend only, whose daemon runs every task that can go on.
BatchInit == Init /\ streaming = FALSE
BatchFairSpec == BatchInit /\ [][Next]_vars /\ Fairness

\* Recordings, read-alouds and handlers are interchangeable (safety only).
Symmetry == Permutations(Handlers) \cup Permutations(Sessions)
              \cup Permutations(Speeches)
============================================================================
