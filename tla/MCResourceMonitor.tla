-------------------------- MODULE MCResourceMonitor --------------------------
(***************************************************************************)
(* A small instance of ResourceMonitor for TLC.                            *)
(***************************************************************************)
EXTENDS ResourceMonitor, TLC

Idle == [cpu |-> 0, time |-> 0, read |-> 0, write |-> 0, net |-> 0, rss |-> 0, mem |-> 10,
         conns |-> 1, fds |-> 10, threads |-> 5, state |-> "sleep", readable |-> TRUE]

\* Doing nothing, only writing, and working with little memory left while the
\* counters of CPU time, I/O and memory cannot be read.
Behaviours ==
  {Idle, [Idle EXCEPT !.write = 2],
   [Idle EXCEPT !.cpu = 2500, !.time = 2, !.read = 2, !.mem = 99, !.readable = FALSE]}
=============================================================================
