---------------------------- MODULE MCRedisQueue ----------------------------
(***************************************************************************)
(* Instances of RedisQueue for TLC.                                        *)
(***************************************************************************)
EXTENDS RedisQueue, TLC

CONSTANTS j1, j2, w1, w2, h1, h2, c1, c2   \* model values

\* Two worker processes of one goroutine each.
TwoProcesses == w1 :> h1 @@ w2 :> h2
OneWorker == w1 :> h1

\* The clients are alike; sound for the runs without liveness.
ClientSymmetry == Permutations({c1, c2})

AllButLiveLock == DisruptionKinds \ {"liveLockExpires"}
SurvivedFaults ==
    {"crash", "stop", "postgres", "client", "orphanLockExpires", "liveLockExpires"}
=============================================================================
