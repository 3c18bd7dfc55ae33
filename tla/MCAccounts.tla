----------------------------- MODULE MCAccounts -----------------------------
\* Two administrators and two handlers.
EXTENDS Accounts, TLC

CONSTANTS t1, t2, u1, u2

MCHandlerIds == {t1, t2}
MCPeople == {u1, u2}
MCMaxFailures == [s \in MCPeople \cup {ClientAddress} |-> 2]
MCSymmetry == Permutations(MCHandlerIds) \cup Permutations(MCPeople)
=============================================================================
