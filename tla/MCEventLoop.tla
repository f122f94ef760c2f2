----------------------------- MODULE MCEventLoop -----------------------------
(* A loop of one or two slots; three descriptors for sockets and files.    *)
EXTENDS EventLoop, TLC

MCTwoSids == 1 .. 2
MCSids == 1 .. 3
MCFourSids == 1 .. 4
MCFiveSids == 1 .. 5
\* A descriptor is nothing but different from the others: any of those that are
\* free may be the next.
AnyFd == Permutations(Fds)

\* The histories of Timer are in no guard and in no invariant of these runs.
WithoutAges == <<structVars, inserting, checking, keys, loopVars>>
=============================================================================
