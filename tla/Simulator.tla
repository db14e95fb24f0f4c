----------------------------- MODULE Simulator -----------------------------
(***************************************************************************)
(* MarketDataSimulator (include/simulator.h, src/simulator.cpp) and its    *)
(* program (src/simulator_main.cpp): the main thread, the thread that      *)
(* accepts clients and the thread that broadcasts market data.             *)
(*                                                                         *)
(* A critical section of clientSocketsMutex is one step: nothing in it     *)
(* blocks.  A client socket is its descriptor, with the connection it was  *)
(* for; the kernel hands out the lowest free descriptor, so that a closed  *)
(* one comes back for another connection.  Client sockets are blocking:    *)
(* send waits as long as the peer does not read.  Messages are counted,    *)
(* not built: the prices are random, and the records of a CSV file pass    *)
(* through.  records is empty in every scenario but the replay of a file,  *)
(* and when the file could not be loaded.                                  *)
(***************************************************************************)
EXTENDS CsvReplay, FiniteSetsExt

CONSTANTS Descriptors,   \* the numbers accept may return
          Connections    \* clients that may connect, in this order

ASSUME DescriptorsAssumption == Descriptors \subseteq Nat
ASSUME ConnectionsAssumption == Connections \in Nat

VARIABLES
  shouldExit, shouldStop, running,
  mainPc,         \* loop, join, done
  acceptPc,       \* accept, push, prune, done
  dataPc,         \* check, copy, send, done
  clientSockets,  \* sequence of sockets
  hand,           \* what accept returned, not yet in the list: at most one
  socketsCopy,    \* what broadcastMessage has still to serve
  failedSockets,
  broadcasts,     \* messages of this turn still to be broadcast
  open,           \* the connection of a descriptor; 0: it is closed
  arrived,        \* connections so far
  hungUp, full,   \* connections whose peer has closed, or does not read
  \* Auxiliary: no action of the code depends on these.
  pruned,         \* open sockets that acceptClients has forgotten
  owed            \* connections the current message has not been sent to

threadVars == <<mainPc, acceptPc, dataPc>>
flagVars == <<shouldExit, shouldStop, running>>
listVars == <<clientSockets, hand, pruned>>
sendVars == <<socketsCopy, failedSockets, broadcasts, owed>>
netVars == <<open, arrived, hungUp, full>>
vars == <<replayVars, threadVars, flagVars, listVars, sendVars, netVars>>

Socket(fd, conn) == [fd |-> fd, conn |-> conn]
Sockets(s) == {s[i] : i \in DOMAIN s}
HasReplay == records # << >>

(* erase and remove: the sockets of s that are not in gone, in their order *)
Erase(s, gone) ==
  LET kept[i \in 0 .. Len(s)] ==
        IF i = 0 THEN << >>
        ELSE IF s[i] \in gone THEN kept[i-1] ELSE Append(kept[i-1], s[i])
  IN  kept[Len(s)]

(* close of every descriptor in S *)
Closed(S) ==
  [fd \in Descriptors |-> IF \E s \in S : s.fd = fd THEN 0 ELSE open[fd]]

(* start has set up the server socket and begun the threads. *)
Init ==
  /\ ReplayInit
  /\ shouldExit = FALSE /\ shouldStop = FALSE /\ running = TRUE
  /\ mainPc = "loop" /\ acceptPc = "accept" /\ dataPc = "check"
  /\ clientSockets = << >> /\ hand = << >> /\ pruned = {}
  /\ socketsCopy = << >> /\ failedSockets = {} /\ broadcasts = 0 /\ owed = {}
  /\ open = [fd \in Descriptors |-> 0]
  /\ arrived = 0 /\ hungUp = {} /\ full = {}

-----------------------------------------------------------------------------
(* acceptClients *)
Free == {fd \in Descriptors : open[fd] = 0}

AcceptClient ==
  /\ acceptPc = "accept" /\ ~ shouldStop
  /\ arrived < Connections /\ Free # {}
  /\ arrived' = arrived + 1
  /\ open' = [open EXCEPT ![Min(Free)] = arrived']
  /\ hand' = <<Socket(Min(Free), arrived')>>
  /\ acceptPc' = "push"
  /\ UNCHANGED <<replayVars, mainPc, dataPc, flagVars, clientSockets, pruned,
                 sendVars, hungUp, full>>

AcceptNobody ==
  /\ acceptPc = "accept" /\ ~ shouldStop
  /\ acceptPc' = "prune"
  /\ UNCHANGED <<replayVars, mainPc, dataPc, flagVars, listVars, sendVars,
                 netVars>>

PushClient ==
  /\ acceptPc = "push" /\ acceptPc' = "prune"
  /\ clientSockets' = clientSockets \o hand
  /\ hand' = << >>
  /\ UNCHANGED <<replayVars, mainPc, dataPc, flagVars, pruned, sendVars,
                 netVars>>

(* Mutant of PruneClients: the descriptors are closed as well. *)
PruneAndClose ==
  /\ acceptPc = "prune" /\ acceptPc' = "accept"
  /\ \E gone \in SUBSET {s \in Sockets(clientSockets) : s.conn \in hungUp} :
       /\ clientSockets' = Erase(clientSockets, gone)
       /\ open' = Closed(gone)
  /\ UNCHANGED <<replayVars, mainPc, dataPc, flagVars, hand, pruned, sendVars,
                 arrived, hungUp, full>>

(* A peek that returns 0 takes the socket off the list and leaves it open. *)
(* After a reset the peek is an error, and the socket stays on the list.   *)
PruneClients ==
  /\ acceptPc = "prune" /\ acceptPc' = "accept"
  /\ \E gone \in SUBSET {s \in Sockets(clientSockets) : s.conn \in hungUp} :
       /\ clientSockets' = Erase(clientSockets, gone)
       /\ pruned' = pruned \cup gone
  /\ UNCHANGED <<replayVars, mainPc, dataPc, flagVars, hand, sendVars, netVars>>

AcceptEnds ==
  /\ acceptPc = "accept" /\ shouldStop
  /\ acceptPc' = "done"
  /\ UNCHANGED <<replayVars, mainPc, dataPc, flagVars, listVars, sendVars,
                 netVars>>

AcceptThread ==
  AcceptClient \/ AcceptNobody \/ PushClient \/ PruneClients \/ AcceptEnds

-----------------------------------------------------------------------------
(* generateMarketData: the head of the loop *)
DataEnds ==
  /\ dataPc = "check" /\ shouldStop
  /\ dataPc' = "done"
  /\ UNCHANGED <<replayVars, mainPc, acceptPc, flagVars, listVars, sendVars,
                 netVars>>

(* The duration is over: the threads are stopped, running is left alone. *)
DurationEnds ==
  /\ dataPc = "check" /\ ~ shouldStop
  /\ dataPc' = "done" /\ shouldStop' = TRUE
  /\ UNCHANGED <<replayVars, mainPc, acceptPc, shouldExit, running,
                 listVars, sendVars, netVars>>

(* Mutant of ReplayFromCsv: the end of the file is the end. *)
ReplayOnce ==
  \/ MayEmit /\ EmitMessage /\ broadcasts' = 2
  \/ (MayHold \/ AtEnd) /\ UNCHANGED replayVars /\ broadcasts' = 1

(* replayFromCSV, and after it the synthetic message of every turn: a      *)
(* record that is due is one more message.                                 *)
ReplayFromCsv ==
  \/ MayEmit /\ EmitMessage /\ broadcasts' = 2
  \/ MayHold /\ UNCHANGED replayVars /\ broadcasts' = 1
  \/ AtEnd /\ Restart /\ broadcasts' = 1

(* The message interval has passed. *)
GenerateMessage ==
  /\ dataPc = "check" /\ ~ shouldStop
  /\ dataPc' = "copy"
  /\ IF HasReplay THEN ReplayFromCsv
     ELSE broadcasts' = 1 /\ UNCHANGED replayVars
  /\ UNCHANGED <<mainPc, acceptPc, flagVars, listVars, socketsCopy,
                 failedSockets, owed, netVars>>

(* broadcastMessage *)
CopySockets ==
  /\ dataPc = "copy" /\ dataPc' = "send"
  /\ socketsCopy' = clientSockets
  /\ owed' = {s.conn : s \in Sockets(clientSockets)}
  /\ UNCHANGED <<replayVars, mainPc, acceptPc, flagVars, listVars,
                 failedSockets, broadcasts, netVars>>

Blocked == /\ dataPc = "send" /\ socketsCopy # << >>
           /\ LET conn == open[Head(socketsCopy).fd]
              IN  conn \in full

(* Mutant of SendFails: the first error ends the loop. *)
SendFailsForAll ==
  /\ failedSockets' = failedSockets \cup {Head(socketsCopy)}
  /\ socketsCopy' = << >>

(* send returned -1. *)
SendFails ==
  /\ failedSockets' = failedSockets \cup {Head(socketsCopy)}
  /\ socketsCopy' = Tail(socketsCopy)

(* send to the next socket: a closed descriptor is an error, a peer that   *)
(* has hung up is one at the second attempt at the latest, and a full      *)
(* buffer blocks.                                                          *)
SendNext ==
  /\ dataPc = "send" /\ socketsCopy # << >> /\ ~ Blocked
  /\ LET conn == open[Head(socketsCopy).fd]
     IN  \/ /\ conn # 0
            /\ socketsCopy' = Tail(socketsCopy)
            /\ full' \in {full, full \cup ({conn} \ hungUp)}
            /\ owed' = owed \ {conn}
            /\ UNCHANGED failedSockets
         \/ /\ conn \in hungUp \cup {0}
            /\ SendFails
            /\ owed' = owed \ {Head(socketsCopy).conn}
            /\ UNCHANGED full
  /\ UNCHANGED <<replayVars, threadVars, flagVars, listVars, broadcasts, open,
                 arrived, hungUp>>

(* The code knows a socket by its number alone. *)
SameNumber(S) ==
  {s \in Sockets(clientSockets) \cup pruned : \E f \in S : f.fd = s.fd}

(* Mutant of CloseFailed: the sockets are only taken off the list. *)
ForgetFailed ==
  /\ clientSockets' = Erase(clientSockets, SameNumber(failedSockets))
  /\ UNCHANGED <<open, pruned>>

(* The failed sockets are closed and taken off the list, by number. *)
CloseFailed ==
  /\ open' = Closed(failedSockets)
  /\ clientSockets' = Erase(clientSockets, SameNumber(failedSockets))
  /\ pruned' = pruned \ SameNumber(failedSockets)

FinishBroadcast ==
  /\ dataPc = "send" /\ socketsCopy = << >>
  /\ CloseFailed
  /\ failedSockets' = {}
  /\ broadcasts' = broadcasts - 1
  /\ dataPc' = IF broadcasts = 1 THEN "check" ELSE "copy"
  /\ UNCHANGED <<replayVars, mainPc, acceptPc, flagVars, hand, socketsCopy,
                 owed, arrived, hungUp, full>>

DataThread ==
  \/ DataEnds \/ GenerateMessage
  \/ CopySockets \/ SendNext \/ FinishBroadcast

-----------------------------------------------------------------------------
(* Mutant of LeaveLoop: the threads are not told. *)
LeaveLoopQuietly ==
  /\ mainPc = "loop" /\ (shouldExit \/ ~ running)
  /\ mainPc' = "join"
  /\ UNCHANGED <<replayVars, acceptPc, dataPc, flagVars, listVars, sendVars,
                 netVars>>

(* The loop of simulator_main, and stop() up to the join *)
LeaveLoop ==
  /\ mainPc = "loop" /\ (shouldExit \/ ~ running)
  /\ mainPc' = "join" /\ shouldStop' = TRUE
  /\ UNCHANGED <<replayVars, acceptPc, dataPc, shouldExit, running,
                 listVars, sendVars, netVars>>

Cleanup ==
  /\ open' = Closed(Sockets(clientSockets))
  /\ clientSockets' = << >>

(* The rest of stop(), when the threads have ended *)
JoinAndCleanup ==
  /\ mainPc = "join" /\ acceptPc = "done" /\ dataPc = "done"
  /\ Cleanup
  /\ mainPc' = "done" /\ running' = FALSE
  /\ UNCHANGED <<replayVars, acceptPc, dataPc, shouldExit, shouldStop, hand,
                 pruned, sendVars, arrived, hungUp, full>>

MainThread == LeaveLoop \/ JoinAndCleanup

(* SIGINT or SIGTERM.  The handler may run on any thread; on the data      *)
(* thread it may cut a send that waits short, which counts as a success.   *)
Signal ==
  /\ mainPc # "done" /\ shouldExit' = TRUE
  /\ \/ UNCHANGED <<socketsCopy, owed>>
     \/ /\ Blocked
        /\ socketsCopy' = Tail(socketsCopy)
        /\ owed' = owed \ {Head(socketsCopy).conn}
  /\ UNCHANGED <<replayVars, threadVars, shouldStop, running,
                 listVars, failedSockets, broadcasts, netVars>>

(* The peers: one reads what is buffered, or hangs up, after which a send  *)
(* to it does not wait.                                                    *)
PeerReads(conn) ==
  /\ conn \in full /\ full' = full \ {conn}
  /\ UNCHANGED <<replayVars, threadVars, flagVars, listVars, sendVars, open,
                 arrived, hungUp>>

PeerHangsUp(conn) ==
  /\ \E fd \in Descriptors : open[fd] = conn
  /\ conn \notin hungUp /\ hungUp' = hungUp \cup {conn}
  /\ full' = full \ {conn}
  /\ UNCHANGED <<replayVars, threadVars, flagVars, listVars, sendVars, open,
                 arrived>>

Tick ==
  /\ HasReplay /\ ReplayTick
  /\ UNCHANGED <<threadVars, flagVars, listVars, sendVars, netVars>>

Next ==
  \/ MainThread \/ AcceptThread \/ DataThread \/ DurationEnds
  \/ Signal \/ Tick
  \/ \E conn \in 1 .. Connections : PeerReads(conn) \/ PeerHangsUp(conn)

(* Every thread runs and time passes.  Whether there is a duration, a      *)
(* signal, or a peer that reads or hangs up is up to the environment.      *)
Spec ==
  /\ Init /\ [][Next]_vars
  /\ WF_vars(MainThread) /\ WF_vars(AcceptThread) /\ WF_vars(DataThread)
  /\ WF_vars(Tick)

-----------------------------------------------------------------------------
(* The descriptors the data thread works with outside the lock still       *)
(* belong to the connections they were copied for, although the accept     *)
(* thread takes sockets off the list meanwhile: no send and no close hits  *)
(* the connection of another client (acceptClients, broadcastMessage).     *)
NoStaleDescriptor ==
  \A s \in Sockets(clientSockets) \cup Sockets(socketsCopy) \cup failedSockets :
    open[s.fd] = s.conn

(* Every open client descriptor is on the list, on its way to it, or one   *)
(* that acceptClients pruned: that is the only leak, up to and including   *)
(* cleanup at the end.                                                     *)
OpenAccounted ==
  {Socket(fd, open[fd]) : fd \in Descriptors \ Free} =
    Sockets(clientSockets) \cup Sockets(hand) \cup pruned

(* A client that fails costs the others nothing: at the end of a broadcast *)
(* every client that was on the list has been sent the message or failed.  *)
EveryoneServed == dataPc \in {"check", "copy", "done"} => owed = {}

(* A signal ends the program, unless a client that neither reads nor hangs *)
(* up holds the data thread in send for ever (stop, runServer).            *)
StopCompletes == [](shouldExit => <>(mainPc = "done" \/ []Blocked))

(* Every record comes due within the range of the clock. *)
WithinReach ==
  \A i \in DOMAIN records :
    \/ replaySpeed[1] = 0
    \/ /\ records[i] >= baseTimestamp
       /\ (records[i] - baseTimestamp) * replaySpeed[2]
            <= ClockMax * replaySpeed[1]

(* A replay of a file with every record within the clock's reach always    *)
(* goes on, from the last record to the first again, until the threads are *)
(* stopped or a client holds the data thread (replayFromCSV).              *)
ReplayGoesOn ==
  \A k \in 0 .. Max({Len(f) : f \in Files}) :
    HasReplay /\ WithinReach /\ currentPosition = k
      ~> currentPosition # k \/ shouldStop \/ Blocked

-----------------------------------------------------------------------------
(* A claim that the code does not meet *)

(* "Run duration, 0 for infinite" (src/simulator.cpp:505): when the        *)
(* duration has ended the threads, the program ends.                       *)
RunEndsWithDuration ==
  acceptPc = "done" /\ dataPc = "done" ~> mainPc = "done"
=============================================================================
