------------------------------- MODULE Accounts -------------------------------
(* Whose requests they are: what the limits on a user have in common.      *)
CONSTANTS
    Requests,
    Users,
    Owner      \* Owner[r]: the user who makes, and pays for, request r

ASSUME AccountsAssumption == Owner \in [Requests -> Users]
=============================================================================
