----------------------------- MODULE MCThreads -----------------------------
(* A small instance of Threads for TLC: four CPUs, two threads next to main. *)
EXTENDS Threads

nworkers(n) == [name |-> "nworkers", data |-> n]
cpuset(cpus) == [name |-> "cpuset", data |-> cpus]

\* A CPU the process has not and entries that do not count; more workers than CPUs;
\* no CPU of this process in the entry that counts, and no pinning.
MCEnvironments ==
    {[pin |-> 0, settings |-> {<<cpuset(<<5>>), nworkers(1), cpuset(<<0, 1, 3>>), nworkers(2)>>}],
     [pin |-> 2, settings |-> {<<cpuset(<<2, 3>>), nworkers(3)>>}],
     [pin |-> 3, settings |-> {<<cpuset(<<0>>), cpuset(<<4>>), nworkers(1)>>}]}

\* Two CPUs are offline.
MCCpus == {0, 2, 3, 5}
=============================================================================
