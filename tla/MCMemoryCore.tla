----------------------------- MODULE MCMemoryCore -----------------------------
(* Instances of MemoryCore for TLC.                                        *)
EXTENDS MemoryCore, TLC

CONSTANTS t1, t2, r1, r2, r3, b1, b2

OneThread == {t1}
TwoThreads == {t1, t2}
TwoIds == {r1, r2}
ThreeIds == {r1, r2, r3}
OneBody == {b1}
TwoBodies == {b1, b2}
NoNear == {}
AllNear == {<<b1, b2>>, <<b2, b1>>}

\* Ids, bodies and threads are only compared for equality (AllNear is symmetric).
EmbeddedSymmetry == Permutations(Ids) \cup Permutations(Bodies)
DaemonSymmetry == Permutations(Ids) \cup Permutations(Bodies) \cup Permutations(Threads)
===============================================================================
