-------------------------- MODULE MCSessionManager --------------------------
(***************************************************************************)
(* Instances of SessionManager for TLC.                                    *)
(***************************************************************************)
EXTENDS SessionManager

CONSTANTS t1, t2, s1, s2

TwoThreads == {t1, t2}
OneId == {s1}
TwoIds == {s1, s2}
=============================================================================
