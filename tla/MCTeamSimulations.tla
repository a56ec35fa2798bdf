------------------------- MODULE MCTeamSimulations -------------------------
(***************************************************************************)
(* A small instance of TeamSimulations.                                    *)
(***************************************************************************)
EXTENDS TeamSimulations, TLC

CONSTANTS r1, r2, w1, u1

TwoRequests == {r1, r2}

OneWorker == {w1}

TeamClients == TwoRequests \cup OneWorker

OneMember == {u1}

Symmetric == Permutations(TwoRequests)

EveryRoute == TeamRoutes
==============================================================================
