--------------------------- MODULE MCAccountRaces ---------------------------
(***************************************************************************)
(* Small instances of AccountRaces: two callers that debit, refund, read,  *)
(* override caps, change roles and delete the account around a month roll. *)
(***************************************************************************)
EXTENDS AccountRaces, TLC

CONSTANTS c1, c2

OneClient == {c1}

MCClients == {c1, c2}

Symmetric == Permutations(MCClients)

\* what users and workers do to the account, and what administrators do that
\* does not lower its token limit
Concurrent ==
    {GetOrCreate("member"), GetOrCreate("admin"), Debit(1), Debit(2), Credit(1), DeletePrefix,
     UpdateLimits([monthly_token_limit |-> Unlimited]),
     UpdateLimits([simulation_limit |-> 0])}

\* and all that they may do
Everything ==
    Concurrent \cup
    {Credit(2), UpdateLimits([monthly_token_limit |-> 1]),
     ResetToRole("member"), ResetToRole("admin")}
==============================================================================
