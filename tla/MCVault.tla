------------------------------ MODULE MCVault ------------------------------
EXTENDS Vault, TLC

CONSTANTS p1, p2, k1, k2

OneJob == [j \in Jobs |-> p1]
AllKeys == [j \in Jobs |-> Keys]

Issue(role, project, expires) ==
    [kind |-> "issue", role |-> role, project |-> project, expires |-> expires]

Asked ==
    {Issue("owner", p1, TRUE), Issue("owner", p2, FALSE), Issue("admin", None, FALSE)}
    \cup {[kind |-> "revoke", token |-> t] : t \in Tokens}
    \cup {[kind |-> "put", project |-> p1, key |-> k] : k \in Keys}
    \cup {[kind |-> "put", project |-> p2, key |-> k1],
          [kind |-> "delete", project |-> p1, key |-> k1]}

Symmetry == Permutations(Tokens) \cup Permutations(Calls)
=============================================================================
