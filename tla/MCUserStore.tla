----------------------------- MODULE MCUserStore -----------------------------
EXTENDS UserStore, TLC

RequestSymmetry == Permutations(Requests) \cup Permutations(Conns)

\* hashtext may send two users to one advisory lock.
MCOwnLock == [u \in Users |-> u]
MCOneLock == [u \in Users |-> 0]

=============================================================================
