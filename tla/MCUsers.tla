------------------------------- MODULE MCUsers -------------------------------
(***************************************************************************)
(* Small instances of UserAdministration.                                  *)
(***************************************************************************)
EXTENDS UserAdministration, TLC

CONSTANTS s, a, r1, r2, m1, m2, m3

BothUsers == {s, a}

TwoRequests == {r1, r2}

ThreeMotors == {m1, m2, m3}

\* an override that limits an administrator's motors
MotorOverrides == {[motor_limit |-> 1]}

OneToken == {1}

AccountOperations ==
    {GetOrCreate("member"), GetOrCreate("admin"), ResetToRole("member"), ResetToRole("admin")}
        \cup {UpdateLimits(updates) : updates \in MotorOverrides}
        \cup Charges

Symmetric == Permutations(TwoRequests)
==============================================================================
