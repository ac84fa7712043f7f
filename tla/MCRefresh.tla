----------------------------- MODULE MCRefresh -----------------------------
EXTENDS Refresh

CONSTANT o1

\* Every client and every page belong to the one organization.
OneOrg == {o1}
ClientsOfOne == [c \in Clients |-> o1]
PagesOfOne == [g \in Pages |-> o1]

============================================================================
