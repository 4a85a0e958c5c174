------------------------------ MODULE TryLock ------------------------------
(***************************************************************************)
(* What the pipeline lock promises to the jobs that ask for it: an answer  *)
(* at once, and yes to at most one job at a time.                          *)
(***************************************************************************)
CONSTANT Jobs

VARIABLE job  \* [Jobs -> {"idle", "holding", "refused"}]

Init == job = [j \in Jobs |-> "idle"]

\* A job gets the lock that nobody holds,
Take(j) ==
  /\ job[j] = "idle" /\ \A k \in Jobs : job[k] # "holding"
  /\ job' = [job EXCEPT ![j] = "holding"]

\* is refused the lock that somebody holds,
Refuse(j) ==
  /\ job[j] = "idle" /\ \E k \in Jobs : job[k] = "holding"
  /\ job' = [job EXCEPT ![j] = "refused"]

\* and ends, with others when they are the tasks of one process.
End(S) == job' = [j \in Jobs |-> IF j \in S THEN "idle" ELSE job[j]]

Next ==
  \/ \E j \in Jobs : Take(j) \/ Refuse(j)
  \/ \E S \in SUBSET Jobs : End(S)

Spec == Init /\ [][Next]_job
=============================================================================
