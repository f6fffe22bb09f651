----------------------------- MODULE MCTcpServer -----------------------------
EXTENDS TcpServer, TLC
Symmetry == Permutations(Conns) \cup Permutations(Fds)

\* More than the code gives: even if every armed idle timer is taken in the end,
\* whatever events arm it anew, a silent client is not timed out.
TimersExpire ==
  \A c \in Conns :
    SF_vars(~fault /\ \E D \in SUBSET Conns : c \in D /\ Tick(loopOf[c], D))

TimerSpec == FairSpec /\ TimersExpire
=============================================================================
