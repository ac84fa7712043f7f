----------------------------- MODULE MCEventBus -----------------------------
EXTENDS EventBus

CONSTANTS o1, o2

\* Two organizations; every client belongs to the first.
AllOfOne == [c \in Clients |-> o1]

=============================================================================
