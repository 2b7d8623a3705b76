---------------------------- MODULE MCScheduler ----------------------------
(* Instances of SchedulerLock for TLC.                                     *)
EXTENDS SchedulerLock, TLC

TheJobs == {"pipeline", "history"}

(* One hash for every process, and a hash salted in each of them.          *)
SharedKeys == [i \in Instances |-> [j \in Jobs |-> j]]
SaltedKeys == [i \in Instances |-> [j \in Jobs |-> <<i, j>>]]
AllSaltedKeys == Instances \X Jobs
=============================================================================
