---------------------------- MODULE MCSimulator ----------------------------
(* A small instance of Simulator for TLC. *)
EXTENDS Simulator

\* No file, a file in order, and files of which some have records older than
\* the first: by the distance from which on an offset rounds to 2^64, and more
ServedFiles == {<< >>, <<1, 2>>}
MCFiles == ServedFiles \cup {<<1, 0>>} \cup [1 .. 3 -> {0, 4, 11}]

\* The speed that clients are served at, the normal speed, three times it, and
\* one that is not positive
ServedSpeed == <<1, 2>>
MCSpeeds == {ServedSpeed, <<1, 1>>, <<3, 1>>, <<0, 1>>}

\* Clients connect when one of the first two files is replayed slowly.
MCNext ==
  /\ Next
  /\ (records \in ServedFiles /\ replaySpeed = ServedSpeed) \/ arrived' = 0

MCSpec ==
  /\ Init /\ [][MCNext]_vars
  /\ WF_vars(MainThread) /\ WF_vars(AcceptThread) /\ WF_vars(DataThread)
  /\ WF_vars(Tick)
=============================================================================
