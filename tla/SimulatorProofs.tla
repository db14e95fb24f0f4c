--------------------------- MODULE SimulatorProofs ---------------------------
(***************************************************************************)
(* The descriptors of the simulator, between the thread that accepts, the  *)
(* one that sends and the main thread, for any number of descriptors and   *)
(* connections; and the replay of a file with a record older than the      *)
(* first.                                                                  *)
(***************************************************************************)
EXTENDS Simulator, SumTheorems

(* What a step of any thread leaves true of the sockets.  A descriptor is  *)
(* open for one connection, and the socket is in exactly one place: on the *)
(* list, with the accept thread on its way there, or pruned.               *)
SocketSet == [fd : Descriptors, conn : 1 .. Connections]
InUse(o) == {s \in SocketSet : o[s.fd] = s.conn}

SimTypeOK ==
  /\ mainPc \in {"loop", "join", "done"}
  /\ acceptPc \in {"accept", "push", "prune", "done"}
  /\ dataPc \in {"check", "copy", "send", "done"}
  /\ clientSockets \in Seq(SocketSet) /\ hand \in Seq(SocketSet)
  /\ socketsCopy \in Seq(SocketSet)
  /\ pruned \subseteq SocketSet /\ failedSockets \subseteq SocketSet
  /\ open \in [Descriptors -> 0 .. Connections]
  /\ arrived \in 0 .. Connections
  /\ hungUp \subseteq 1 .. Connections /\ full \subseteq 1 .. Connections
  /\ owed \subseteq 1 .. Connections
  /\ broadcasts \in IF dataPc \in {"copy", "send"} THEN 1 .. 2 ELSE {0}

Accounted ==
  InUse(open) = Sockets(clientSockets) \cup Sockets(hand) \cup pruned

Apart ==
  /\ Sockets(clientSockets) \cap Sockets(hand) = {}
  /\ Sockets(clientSockets) \cap pruned = {}
  /\ Sockets(hand) \cap pruned = {}

HandInv == acceptPc # "push" => hand = << >>

(* The data thread works outside the lock with sockets that the list, or   *)
(* what was pruned from it, still has.                                     *)
WorkInv ==
  Sockets(socketsCopy) \cup failedSockets \subseteq
    Sockets(clientSockets) \cup pruned

TurnInv == dataPc # "send" => socketsCopy = << >> /\ failedSockets = {}

(* Whoever the message is owed to is still to be served. *)
OwedInv == owed \subseteq {s.conn : s \in Sockets(socketsCopy)}

SimInv == /\ SimTypeOK
          /\ Accounted /\ Apart /\ HandInv
          /\ WorkInv /\ TurnInv /\ OwedInv

-----------------------------------------------------------------------------
(* Erase *)

EraseRule(f, s, gone, n) ==
  f = [i \in 0 .. n |->
         IF i = 0 THEN << >>
         ELSE IF s[i] \in gone THEN f[i-1] ELSE Append(f[i-1], s[i])]

(* The value at n has those of the first n elements that are not in gone.  *)
EraseSolution(f, T, s, gone, n) ==
  /\ f \in [0 .. n -> Seq(T)]
  /\ EraseRule(f, s, gone, n)
  /\ \A k \in 0 .. n : Sockets(f[k]) = {s[i] : i \in 1 .. k} \ gone

(* Some function satisfies the recurrence that defines Erase. *)
LEMMA EraseHasSolution ==
  ASSUME NEW T, NEW s \in Seq(T), NEW gone
  PROVE  \E f : EraseSolution(f, T, s, gone, Len(s))
<1> DEFINE S == {n \in Nat : n <= Len(s) =>
                   \E f : EraseSolution(f, T, s, gone, n)}
<1>1. 0 \in S
  <2> DEFINE f == [i \in 0 .. 0 |-> << >>]
  <2>1. f \in [0 .. 0 -> Seq(T)]
    OBVIOUS
  <2>2. EraseRule(f, s, gone, 0)
    BY DEF EraseRule
  <2>3. Sockets(f[0]) = {}
    BY DEF Sockets
  <2>4. {s[i] : i \in 1 .. 0} = {}
    OBVIOUS
  <2>5. \A k \in 0 .. 0 : Sockets(f[k]) = {s[i] : i \in 1 .. k} \ gone
    BY <2>3, <2>4
  <2>6. EraseSolution(f, T, s, gone, 0)
    BY <2>1, <2>2, <2>5 DEF EraseSolution
  <2> QED BY <2>6
<1>2. ASSUME NEW n \in Nat, n \in S PROVE n + 1 \in S
  <2>1. SUFFICES ASSUME n + 1 <= Len(s) 
                 PROVE  \E f : EraseSolution(f, T, s, gone, n + 1)
    OBVIOUS
  <2>2. PICK g : EraseSolution(g, T, s, gone, n)
    BY <1>2, <2>1
  <2>3. g \in [0 .. n -> Seq(T)] /\ g[n] \in Seq(T) /\ s[n+1] \in T
    BY <2>1, <2>2 DEF EraseSolution
  <2> DEFINE new == IF s[n+1] \in gone THEN g[n] ELSE Append(g[n], s[n+1])
             h == [i \in 0 .. n+1 |-> IF i = n+1 THEN new ELSE g[i]]
  <2>4. new \in Seq(T)
    BY <2>3
  <2>5. Sockets(new) = {s[i] : i \in 1 .. n+1} \ gone
    <3>1. Sockets(g[n]) = {s[i] : i \in 1 .. n} \ gone
      BY <2>2 DEF EraseSolution
    <3>2. {s[i] : i \in 1 .. n+1} = {s[i] : i \in 1 .. n} \cup {s[n+1]}
      OBVIOUS
    <3>3. Sockets(Append(g[n], s[n+1])) = Sockets(g[n]) \cup {s[n+1]}
      <4>1. /\ DOMAIN Append(g[n], s[n+1]) = 1 .. Len(g[n]) + 1
            /\ DOMAIN g[n] = 1 .. Len(g[n]) /\ Len(g[n]) \in Nat
            /\ \A i \in 1 .. Len(g[n]) : Append(g[n], s[n+1])[i] = g[n][i]
            /\ Append(g[n], s[n+1])[Len(g[n]) + 1] = s[n+1]
        BY <2>3
      <4>2. /\ Sockets(g[n]) = {g[n][i] : i \in 1 .. Len(g[n])}
            /\ Sockets(Append(g[n], s[n+1])) =
                 {Append(g[n], s[n+1])[i] : i \in 1 .. Len(g[n]) + 1}
        BY <4>1 DEF Sockets
      <4> QED BY ONLY <4>1, <4>2
    <3>4. CASE s[n+1] \in gone
      BY <3>1, <3>2, <3>4
    <3>5. CASE s[n+1] \notin gone
      BY <3>1, <3>2, <3>3, <3>5
    <3> QED BY <3>4, <3>5
  <2> HIDE DEF new
  <2>6. h \in [0 .. n+1 -> Seq(T)]
    BY <2>3, <2>4
  <2>7. ASSUME NEW i \in 0 .. n+1
        PROVE  h[i] = IF i = 0 THEN << >>
                      ELSE IF s[i] \in gone THEN h[i-1]
                      ELSE Append(h[i-1], s[i])
    <3>1. \A j \in 0 .. n : g[j] = IF j = 0 THEN << >>
                                  ELSE IF s[j] \in gone THEN g[j-1]
                                  ELSE Append(g[j-1], s[j])
      BY <2>2 DEF EraseSolution, EraseRule
    <3>2. CASE i = n+1
      <4>1. h[i] = new /\ h[i-1] = g[n]
        BY <3>2
      <4> QED BY <3>2, <4>1 DEF new
    <3>3. CASE i \in 1 .. n
      <4>1. h[i] = g[i] /\ h[i-1] = g[i-1]
        BY <3>3
      <4> QED BY <3>1, <3>3, <4>1
    <3>4. CASE i = 0
      BY <3>1, <3>4
    <3> QED BY <3>2, <3>3, <3>4
  <2>8. EraseRule(h, s, gone, n + 1)
    BY <2>7 DEF EraseRule
  <2>9. ASSUME NEW k \in 0 .. n+1
        PROVE  Sockets(h[k]) = {s[i] : i \in 1 .. k} \ gone
    <3>1. CASE k = n+1
      BY <2>5, <3>1
    <3>2. CASE k \in 0 .. n
      <4>1. h[k] = g[k]
        BY <3>2
      <4> QED BY <2>2, <3>2, <4>1 DEF EraseSolution
    <3> QED BY <3>1, <3>2
  <2>10. EraseSolution(h, T, s, gone, n + 1)
    BY <2>6, <2>8, <2>9 DEF EraseSolution
  <2> QED BY <2>10
<1>3. \A n \in Nat : n \in S
  <2> HIDE DEF S
  <2> QED BY <1>1, <1>2, NatInd
<1>4. Len(s) \in Nat
  OBVIOUS
<1> QED BY <1>3, <1>4

(* Two functions that satisfy the recurrence agree: what CHOOSE picks for  *)
(* Erase is the function of EraseHasSolution.                              *)
LEMMA EraseUnique ==
  ASSUME NEW s, NEW gone, NEW n \in Nat, NEW f, NEW g,
         EraseRule(f, s, gone, n), EraseRule(g, s, gone, n)
  PROVE  f = g
<1> DEFINE S == {k \in Nat : k <= n => f[k] = g[k]}
<1>1. /\ \A i \in 0 .. n : f[i] = IF i = 0 THEN << >>
                                 ELSE IF s[i] \in gone THEN f[i-1]
                                 ELSE Append(f[i-1], s[i])
      /\ \A i \in 0 .. n : g[i] = IF i = 0 THEN << >>
                                 ELSE IF s[i] \in gone THEN g[i-1]
                                 ELSE Append(g[i-1], s[i])
  BY DEF EraseRule
<1>2. 0 \in S
  BY <1>1
<1>3. ASSUME NEW k \in Nat, k \in S PROVE k + 1 \in S
  BY <1>1, <1>3
<1>4. \A k \in Nat : k \in S
  <2> HIDE DEF S
  <2> QED BY <1>2, <1>3, NatInd
<1>5. \A k \in 0 .. n : f[k] = g[k]
  BY <1>4
<1>6. f = [i \in 0 .. n |-> f[i]] /\ g = [i \in 0 .. n |-> g[i]]
  BY DEF EraseRule
<1> QED BY <1>5, <1>6

(* What erase and remove leave: the elements that were not to go. *)
LEMMA EraseElements ==
  ASSUME NEW T, NEW s \in Seq(T), NEW gone
  PROVE  /\ Erase(s, gone) \in Seq(T)
         /\ Sockets(Erase(s, gone)) = Sockets(s) \ gone
<1>1. PICK f : EraseSolution(f, T, s, gone, Len(s))
  BY EraseHasSolution
<1> DEFINE kept == CHOOSE g : EraseRule(g, s, gone, Len(s))
<1>2. Erase(s, gone) = kept[Len(s)]
  BY DEF Erase, EraseRule
<1>3. EraseRule(kept, s, gone, Len(s))
  BY <1>1 DEF EraseSolution
<1> HIDE DEF kept
<1>4. Len(s) \in Nat /\ DOMAIN s = 1 .. Len(s)
  OBVIOUS
<1>5. kept = f
  BY <1>1, <1>3, <1>4, EraseUnique DEF EraseSolution
<1>6. Sockets(s) = {s[i] : i \in 1 .. Len(s)}
  BY <1>4 DEF Sockets
<1>7. /\ f[Len(s)] \in Seq(T)
      /\ Sockets(f[Len(s)]) = {s[i] : i \in 1 .. Len(s)} \ gone
  BY <1>1, <1>4 DEF EraseSolution
<1> QED BY <1>2, <1>5, <1>6, <1>7

-----------------------------------------------------------------------------
(* Sockets *)

(* The sockets of a sequence are those of its pieces. *)
LEMMA SocketsOf ==
  ASSUME NEW T, NEW s \in Seq(T)
  PROVE  /\ Sockets(s) \subseteq T
         /\ \A t \in Seq(T) : Sockets(s \o t) = Sockets(s) \cup Sockets(t)
         /\ s # << >> => /\ Head(s) \in T /\ Tail(s) \in Seq(T)
                         /\ Sockets(s) = {Head(s)} \cup Sockets(Tail(s))
<1>1. Sockets(s) \subseteq T
  BY DEF Sockets
<1>2. ASSUME NEW t \in Seq(T)
      PROVE  Sockets(s \o t) = Sockets(s) \cup Sockets(t)
  <2>1. /\ Len(s) \in Nat /\ Len(t) \in Nat /\ Len(s \o t) = Len(s) + Len(t)
        /\ DOMAIN s = 1 .. Len(s) /\ DOMAIN t = 1 .. Len(t)
        /\ DOMAIN (s \o t) = 1 .. Len(s) + Len(t)
        /\ \A i \in 1 .. Len(s) : (s \o t)[i] = s[i]
        /\ \A i \in 1 .. Len(t) : (s \o t)[Len(s) + i] = t[i]
    OBVIOUS
  <2>2. ASSUME NEW x \in Sockets(s \o t) PROVE x \in Sockets(s) \cup Sockets(t)
    <3>1. PICK i \in 1 .. Len(s) + Len(t) : x = (s \o t)[i]
      BY <2>1 DEF Sockets
    <3>2. CASE i <= Len(s)
      BY <2>1, <3>1, <3>2 DEF Sockets
    <3>3. CASE i > Len(s)
      <4>1. i - Len(s) \in 1 .. Len(t) /\ x = t[i - Len(s)]
        BY <2>1, <3>1, <3>3
      <4> QED BY <2>1, <4>1 DEF Sockets
    <3> QED BY <2>1, <3>1, <3>2, <3>3
  <2>3. ASSUME NEW x \in Sockets(s) PROVE x \in Sockets(s \o t)
    BY <2>1 DEF Sockets
  <2>4. ASSUME NEW x \in Sockets(t) PROVE x \in Sockets(s \o t)
    <3>1. PICK i \in 1 .. Len(t) : x = t[i]
      BY <2>1 DEF Sockets
    <3>2. Len(s) + i \in 1 .. Len(s) + Len(t) /\ x = (s \o t)[Len(s) + i]
      BY <2>1, <3>1
    <3> QED BY <2>1, <3>2 DEF Sockets
  <2> QED BY <2>2, <2>3, <2>4
<1>3. ASSUME s # << >>
      PROVE  /\ Head(s) \in T /\ Tail(s) \in Seq(T)
             /\ Sockets(s) = {Head(s)} \cup Sockets(Tail(s))
  <2>1. /\ Len(s) \in Nat \ {0} /\ DOMAIN s = 1 .. Len(s)
        /\ Head(s) = s[1] /\ Head(s) \in T /\ Tail(s) \in Seq(T)
        /\ DOMAIN Tail(s) = 1 .. Len(s) - 1
        /\ \A i \in 1 .. Len(s) - 1 : Tail(s)[i] = s[i + 1]
    BY <1>3
  <2>2. ASSUME NEW x \in Sockets(s) PROVE x \in {Head(s)} \cup Sockets(Tail(s))
    <3>1. PICK i \in 1 .. Len(s) : x = s[i]
      BY <2>1 DEF Sockets
    <3>2. CASE i = 1
      BY <2>1, <3>1, <3>2
    <3>3. CASE i # 1
      <4>1. i - 1 \in 1 .. Len(s) - 1 /\ x = Tail(s)[i - 1]
        BY <2>1, <3>1, <3>3
      <4> QED BY <2>1, <4>1 DEF Sockets
    <3> QED BY <3>2, <3>3
  <2>3. ASSUME NEW x \in {Head(s)} \cup Sockets(Tail(s)) PROVE x \in Sockets(s)
    BY <2>1 DEF Sockets
  <2> QED BY <2>1, <2>2, <2>3
<1> QED BY <1>1, <1>2, <1>3

(* The empty sequence, and the sequence of one socket. *)
LEMMA SocketsFew ==
  /\ Sockets(<< >>) = {}
  /\ \A x : Sockets(<<x>>) = {x}
BY DEF Sockets

(* A descriptor is in use for one connection. *)
LEMMA OnePerDescriptor ==
  ASSUME NEW o, NEW s \in InUse(o), NEW t \in InUse(o), s.fd = t.fd
  PROVE  s = t
<1>1. s \in SocketSet /\ t \in SocketSet /\ s.conn = t.conn
  BY DEF InUse
<1> QED BY <1>1 DEF SocketSet

(* The sockets that OpenAccounted speaks of are those in use. *)
LEMMA OpenSockets ==
  ASSUME open \in [Descriptors -> 0 .. Connections]
  PROVE  {Socket(fd, open[fd]) : fd \in Descriptors \ Free} = InUse(open)
<1>1. ASSUME NEW fd \in Descriptors \ Free PROVE Socket(fd, open[fd]) \in InUse(open)
  <2>1. fd \in Descriptors /\ open[fd] \in 1 .. Connections
    BY <1>1, ConnectionsAssumption DEF Free
  <2> QED BY <2>1 DEF InUse, SocketSet, Socket
<1>2. ASSUME NEW s \in InUse(open)
      PROVE  s.fd \in Descriptors \ Free /\ s = Socket(s.fd, open[s.fd])
  <2>1. s \in SocketSet /\ open[s.fd] = s.conn
    BY DEF InUse
  <2>2. s.fd \in Descriptors /\ s.conn \in 1 .. Connections
        /\ s = [fd |-> s.fd, conn |-> s.conn]
    BY <2>1 DEF SocketSet
  <2> QED BY <2>1, <2>2, ConnectionsAssumption DEF Free, Socket
<1> QED BY <1>1, <1>2

(* close of sockets in use frees their descriptors and no other. *)
LEMMA ClosedSockets ==
  ASSUME open \in [Descriptors -> 0 .. Connections],
         NEW S, S \subseteq InUse(open)
  PROVE  /\ Closed(S) \in [Descriptors -> 0 .. Connections]
         /\ InUse(Closed(S)) = InUse(open) \ S
<1>1. Closed(S) \in [Descriptors -> 0 .. Connections]
  BY ConnectionsAssumption DEF Closed
<1>2. ASSUME NEW s \in SocketSet
      PROVE  s \in InUse(Closed(S)) <=> s \in InUse(open) \ S
  <2>1. s.fd \in Descriptors /\ s.conn \in 1 .. Connections
    BY DEF SocketSet
  <2>2. Closed(S)[s.fd] = IF \E t \in S : t.fd = s.fd THEN 0 ELSE open[s.fd]
    BY <2>1 DEF Closed
  <2>3. CASE \E t \in S : t.fd = s.fd
    <3>1. PICK t \in S : t.fd = s.fd
      BY <2>3
    <3>2. s \in InUse(open) => s = t
      BY <3>1, OnePerDescriptor
    <3>3. Closed(S)[s.fd] = 0 /\ s.conn # 0
      BY <2>1, <2>2, <2>3
    <3>4. s \notin InUse(Closed(S))
      BY <3>3 DEF InUse
    <3> QED BY <3>1, <3>2, <3>4
  <2>4. CASE ~ \E t \in S : t.fd = s.fd
    <3>1. Closed(S)[s.fd] = open[s.fd] /\ s \notin S
      BY <2>2, <2>4
    <3> QED BY <3>1 DEF InUse
  <2> QED BY <2>3, <2>4
<1>3. InUse(Closed(S)) \subseteq SocketSet /\ InUse(open) \subseteq SocketSet
  BY DEF InUse
<1> QED BY <1>1, <1>2, <1>3

(* A number stands for one socket: erasing by number takes no other along. *)
LEMMA SameNumberIsSame ==
  ASSUME Sockets(clientSockets) \cup pruned \subseteq InUse(open),
         NEW S, S \subseteq Sockets(clientSockets) \cup pruned
  PROVE  SameNumber(S) = S
<1>1. ASSUME NEW s \in SameNumber(S) PROVE s \in S
  <2>1. PICK f \in S : f.fd = s.fd
    BY <1>1 DEF SameNumber
  <2>2. s \in InUse(open) /\ f \in InUse(open)
    BY <1>1, <2>1 DEF SameNumber
  <2>3. s = f
    BY <2>1, <2>2, OnePerDescriptor
  <2> QED BY <2>1, <2>3
<1>2. ASSUME NEW s \in S PROVE s \in SameNumber(S)
  BY DEF SameNumber
<1> QED BY <1>1, <1>2

(* What the data thread works with is in use, for the connection it was    *)
(* copied for.                                                             *)
LEMMA WorkInUse ==
  ASSUME SimInv
  PROVE  /\ Sockets(clientSockets) \cup pruned \subseteq InUse(open)
         /\ Sockets(socketsCopy) \cup failedSockets \subseteq InUse(open)
         /\ NoStaleDescriptor
<1>1. /\ Sockets(clientSockets) \cup pruned \subseteq InUse(open)
      /\ Sockets(socketsCopy) \cup failedSockets \subseteq InUse(open)
  BY DEF SimInv, Accounted, WorkInv
<1>2. \A s \in InUse(open) : open[s.fd] = s.conn
  BY DEF InUse
<1> QED BY <1>1, <1>2 DEF NoStaleDescriptor

-----------------------------------------------------------------------------
(* The steps that leave the sockets alone *)

socketVars == <<clientSockets, hand, pruned, open, socketsCopy, failedSockets,
                owed, arrived>>

(* Such a step need only keep the threads at places that agree with what   *)
(* they hold.                                                              *)
LEMMA SocketsUntouched ==
  ASSUME SimInv, SimTypeOK', UNCHANGED socketVars,
         acceptPc' = "push" \/ acceptPc # "push",
         dataPc' = "send" \/ dataPc # "send"
  PROVE  SimInv'
<1>1. Accounted' /\ Apart' /\ WorkInv' /\ OwedInv'
  BY DEF SimInv, Accounted, Apart, WorkInv, OwedInv, socketVars
<1>2. HandInv' /\ TurnInv'
  BY DEF SimInv, HandInv, TurnInv, socketVars
<1> QED BY <1>1, <1>2 DEF SimInv

FlagTypeOK == /\ shouldExit \in BOOLEAN /\ shouldStop \in BOOLEAN
              /\ running \in BOOLEAN

(* The flags stay flags. *)
LEMMA FlagStep ==
  ASSUME FlagTypeOK, [Next]_vars
  PROVE  FlagTypeOK'
<1> USE DEF FlagTypeOK
<1>1. CASE Next
  <2>1. CASE MainThread
    BY <2>1, Zenon DEF MainThread, LeaveLoop, JoinAndCleanup, flagVars
  <2>2. CASE AcceptThread
    BY <2>2 DEF AcceptThread, AcceptClient, AcceptNobody, PushClient,
                PruneClients, AcceptEnds, flagVars
  <2>3. CASE DataThread
    BY <2>3 DEF DataThread, DataEnds, GenerateMessage, CopySockets, SendNext,
                FinishBroadcast, flagVars
  <2>4. CASE DurationEnds
    BY <2>4, Zenon DEF DurationEnds
  <2>5. CASE Signal
    BY <2>5, Zenon DEF Signal
  <2>6. CASE Tick
    BY <2>6 DEF Tick, flagVars
  <2>7. CASE \E conn \in 1 .. Connections : PeerReads(conn) \/ PeerHangsUp(conn)
    BY <2>7 DEF PeerReads, PeerHangsUp, flagVars
  <2> QED BY <1>1, <2>1, <2>2, <2>3, <2>4, <2>5, <2>6, <2>7 DEF Next
<1>2. CASE UNCHANGED vars
  BY <1>2 DEF vars, flagVars
<1> QED BY <1>1, <1>2

(* The steps of the threads, of the peers and of the clock that change     *)
(* neither the lists nor a descriptor.                                     *)
LEMMA QuietStep ==
  ASSUME SimInv,
         \/ AcceptNobody \/ AcceptEnds \/ DataEnds \/ DurationEnds
         \/ GenerateMessage \/ LeaveLoop \/ Tick \/ UNCHANGED vars
         \/ \E conn \in 1 .. Connections : PeerReads(conn) \/ PeerHangsUp(conn)
  PROVE  SimInv'
<1> USE DEF listVars, sendVars, netVars, threadVars, flagVars, socketVars
<1>0. SimTypeOK
  BY DEF SimInv
<1>1. CASE AcceptNobody
  BY <1>0, <1>1, SocketsUntouched DEF AcceptNobody, SimTypeOK
<1>2. CASE AcceptEnds
  BY <1>0, <1>2, SocketsUntouched DEF AcceptEnds, SimTypeOK
<1>3. CASE DataEnds
  BY <1>0, <1>3, SocketsUntouched DEF DataEnds, SimTypeOK
<1>4. CASE DurationEnds
  BY <1>0, <1>4, SocketsUntouched DEF DurationEnds, SimTypeOK
<1>5. CASE GenerateMessage
  <2>1. /\ UNCHANGED <<mainPc, acceptPc, clientSockets, hand, pruned,
                       socketsCopy, failedSockets, owed, open, arrived,
                       hungUp, full>>
        /\ dataPc = "check" /\ dataPc' = "copy" /\ broadcasts' \in 1 .. 2
    BY <1>5 DEF GenerateMessage, ReplayFromCsv
  <2> QED BY <1>0, <2>1, SocketsUntouched DEF SimTypeOK
<1>6. CASE LeaveLoop
  BY <1>0, <1>6, SocketsUntouched DEF LeaveLoop, SimTypeOK
<1>7. CASE Tick
  BY <1>0, <1>7, SocketsUntouched DEF Tick, SimTypeOK
<1>8. CASE UNCHANGED vars
  BY <1>0, <1>8, SocketsUntouched DEF vars, SimTypeOK
<1>9. ASSUME NEW conn \in 1 .. Connections, PeerReads(conn) \/ PeerHangsUp(conn)
      PROVE  SimInv'
  <2>1. /\ UNCHANGED <<mainPc, acceptPc, dataPc, broadcasts, clientSockets,
                       hand, pruned, socketsCopy, failedSockets, owed, open,
                       arrived>>
        /\ hungUp' \subseteq hungUp \cup {conn} /\ full' \subseteq full
    BY <1>9 DEF PeerReads, PeerHangsUp
  <2> QED BY <1>0, <2>1, SocketsUntouched DEF SimTypeOK
<1> QED BY <1>1, <1>2, <1>3, <1>4, <1>5, <1>6, <1>7, <1>8, <1>9

-----------------------------------------------------------------------------
(* acceptClients *)

(* The kernel hands out a descriptor that is closed. *)
LEMMA LowestIsFree ==
  ASSUME Free # {}
  PROVE  Min(Free) \in Free
<1>1. Free \subseteq Nat
  BY DescriptorsAssumption DEF Free
<1>2. \E m \in Free : \A y \in Free : m <= y
  BY <1>1, NatMin
<1> QED BY <1>2 DEF Min

(* accept: the new socket is on no list yet. *)
LEMMA AcceptStep ==
  ASSUME SimInv, AcceptClient
  PROVE  SimInv'
<1> DEFINE fd == Min(Free)
           new == Socket(fd, arrived')
<1>0. SimTypeOK
  BY DEF SimInv
<1>1. /\ acceptPc = "accept" /\ acceptPc' = "push" /\ arrived < Connections
      /\ arrived' = arrived + 1 /\ open' = [open EXCEPT ![fd] = arrived']
      /\ hand' = <<new>>
      /\ UNCHANGED <<mainPc, dataPc, clientSockets, pruned, socketsCopy,
                     failedSockets, broadcasts, owed, hungUp, full>>
  BY DEF AcceptClient, sendVars
<1>2. fd \in Descriptors /\ open[fd] = 0
  BY LowestIsFree DEF AcceptClient, Free
<1> HIDE DEF fd
<1>3. arrived' \in 1 .. Connections
  BY <1>0, <1>1, ConnectionsAssumption DEF SimTypeOK
<1>4. new \in SocketSet /\ new.fd = fd /\ new.conn = arrived'
  BY <1>2, <1>3 DEF SocketSet, Socket
<1> HIDE DEF new
<1>5. SimTypeOK'
  <2>1. open' \in [Descriptors -> 0 .. Connections]
    <3>1. open \in [Descriptors -> 0 .. Connections] /\ arrived' \in 0 .. Connections
      BY <1>0, <1>3, ConnectionsAssumption DEF SimTypeOK
    <3>2. open' = [open EXCEPT ![fd] = arrived']
      BY <1>1
    <3> QED BY ONLY <3>1, <3>2
  <2>2. hand' \in Seq(SocketSet)
    BY <1>1, <1>4
  <2> QED BY <1>0, <1>1, <1>3, <2>1, <2>2 DEF SimTypeOK
<1>6. Sockets(hand) = {} /\ Sockets(hand') = {new}
  BY <1>1, SocketsFew DEF SimInv, HandInv
<1>7. InUse(open') = InUse(open) \cup {new}
  <2>1. ASSUME NEW s \in SocketSet
        PROVE  s \in InUse(open') <=> s \in InUse(open) \cup {new}
    <3>1. s.fd \in Descriptors /\ s.conn \in 1 .. Connections
          /\ s = [fd |-> s.fd, conn |-> s.conn]
      BY DEF SocketSet
    <3>2. CASE s.fd = fd
      <4>1. open'[s.fd] = arrived' /\ open[s.fd] = 0
        BY <1>0, <1>1, <1>2, <3>2 DEF SimTypeOK
      <4>2. s \notin InUse(open)
        BY <3>1, <4>1 DEF InUse
      <4>3. s \in InUse(open') <=> s.conn = arrived'
        BY <4>1 DEF InUse
      <4>4. s.conn = arrived' <=> s = new
        BY <1>4, <3>2 DEF SocketSet
      <4> QED BY <4>2, <4>3, <4>4
    <3>3. CASE s.fd # fd
      <4>1. open'[s.fd] = open[s.fd] /\ s # new
        BY <1>0, <1>1, <1>4, <3>1, <3>3 DEF SimTypeOK
      <4> QED BY <4>1 DEF InUse
    <3> QED BY <3>2, <3>3
  <2> QED BY <1>4, <2>1 DEF InUse
<1>8. new \notin InUse(open)
  BY <1>2, <1>3, <1>4 DEF InUse
<1>9. Accounted'
  BY <1>1, <1>6, <1>7 DEF SimInv, Accounted
<1>10. Apart'
  BY <1>1, <1>6, <1>8 DEF SimInv, Accounted, Apart
<1>11. HandInv' /\ WorkInv' /\ TurnInv' /\ OwedInv'
  BY <1>1 DEF SimInv, HandInv, WorkInv, TurnInv, OwedInv
<1> QED BY <1>5, <1>9, <1>10, <1>11 DEF SimInv

(* push_back: from the hand to the list. *)
LEMMA PushStep ==
  ASSUME SimInv, PushClient
  PROVE  SimInv'
<1>0. SimTypeOK
  BY DEF SimInv
<1>1. /\ acceptPc' = "prune" /\ clientSockets' = clientSockets \o hand
      /\ hand' = << >>
      /\ UNCHANGED <<mainPc, dataPc, pruned, socketsCopy, failedSockets,
                     broadcasts, owed, open, arrived, hungUp, full>>
  BY DEF PushClient, sendVars, netVars
<1>2. /\ Sockets(clientSockets') = Sockets(clientSockets) \cup Sockets(hand)
      /\ Sockets(hand') = {}
  BY <1>0, <1>1, SocketsOf, SocketsFew DEF SimTypeOK
<1>3. SimTypeOK'
  BY <1>0, <1>1 DEF SimTypeOK
<1>4. Accounted' /\ Apart' /\ WorkInv'
  BY <1>1, <1>2 DEF SimInv, Accounted, Apart, WorkInv
<1>5. HandInv' /\ TurnInv' /\ OwedInv'
  BY <1>1 DEF SimInv, HandInv, TurnInv, OwedInv
<1> QED BY <1>3, <1>4, <1>5 DEF SimInv

(* The sockets whose peer has closed go from the list to the pruned ones,  *)
(* where the copy of the data thread still finds them.                     *)
LEMMA PruneStep ==
  ASSUME SimInv, PruneClients
  PROVE  SimInv'
<1>0. SimTypeOK
  BY DEF SimInv
<1>1. PICK gone \in SUBSET Sockets(clientSockets) :
        /\ clientSockets' = Erase(clientSockets, gone)
        /\ pruned' = pruned \cup gone
  BY DEF PruneClients
<1>2. /\ acceptPc = "prune" /\ acceptPc' = "accept"
      /\ UNCHANGED <<mainPc, dataPc, hand, socketsCopy, failedSockets,
                     broadcasts, owed, open, arrived, hungUp, full>>
  BY DEF PruneClients, sendVars, netVars
<1>3. /\ clientSockets' \in Seq(SocketSet)
      /\ Sockets(clientSockets') = Sockets(clientSockets) \ gone
  BY <1>0, <1>1, EraseElements DEF SimTypeOK
<1>4. Sockets(clientSockets) \subseteq SocketSet
  BY <1>0, SocketsOf DEF SimTypeOK
<1>5. SimTypeOK'
  BY <1>0, <1>1, <1>2, <1>3, <1>4 DEF SimTypeOK
<1>6. Accounted' /\ Apart' /\ WorkInv'
  BY <1>1, <1>2, <1>3 DEF SimInv, Accounted, Apart, WorkInv
<1>7. HandInv' /\ TurnInv' /\ OwedInv'
  BY <1>2 DEF SimInv, HandInv, TurnInv, OwedInv
<1> QED BY <1>5, <1>6, <1>7 DEF SimInv

-----------------------------------------------------------------------------
(* broadcastMessage *)

(* The copy is taken under the lock. *)
LEMMA CopyStep ==
  ASSUME SimInv, CopySockets
  PROVE  SimInv'
<1>0. SimTypeOK
  BY DEF SimInv
<1>1. /\ dataPc = "copy" /\ dataPc' = "send" /\ socketsCopy' = clientSockets
      /\ owed' = {s.conn : s \in Sockets(clientSockets)}
      /\ UNCHANGED <<mainPc, acceptPc, clientSockets, hand, pruned,
                     failedSockets, broadcasts, open, arrived, hungUp, full>>
  BY DEF CopySockets, listVars, netVars
<1>2. owed' \subseteq 1 .. Connections
  <2>1. Sockets(clientSockets) \subseteq SocketSet
    BY <1>0, SocketsOf DEF SimTypeOK
  <2> QED BY <1>1, <2>1 DEF SocketSet
<1>3. SimTypeOK'
  BY <1>0, <1>1, <1>2 DEF SimTypeOK
<1>4. Accounted' /\ Apart' /\ HandInv'
  BY <1>1 DEF SimInv, Accounted, Apart, HandInv
<1>5. WorkInv' /\ TurnInv' /\ OwedInv'
  BY <1>1 DEF SimInv, WorkInv, TurnInv, OwedInv
<1> QED BY <1>3, <1>4, <1>5 DEF SimInv

(* The data thread goes on to the next socket of its copy, with the one it *)
(* has served added to the failed ones or not.                             *)
LEMMA ServeStep ==
  ASSUME SimInv, dataPc = "send", socketsCopy # << >>,
         socketsCopy' = Tail(socketsCopy),
         failedSockets' \in {failedSockets,
                             failedSockets \cup {Head(socketsCopy)}},
         owed' = owed \ {Head(socketsCopy).conn},
         full' \subseteq 1 .. Connections,
         UNCHANGED <<threadVars, listVars, broadcasts, open, arrived, hungUp>>
  PROVE  SimInv'
<1>0. SimTypeOK
  BY DEF SimInv
<1>1. UNCHANGED <<mainPc, acceptPc, dataPc, clientSockets, hand, pruned>>
  BY DEF threadVars, listVars
<1>2. /\ Head(socketsCopy) \in SocketSet /\ socketsCopy' \in Seq(SocketSet)
      /\ Sockets(socketsCopy) = {Head(socketsCopy)} \cup Sockets(socketsCopy')
  BY <1>0, SocketsOf DEF SimTypeOK
<1>3. SimTypeOK'
  BY <1>0, <1>1, <1>2 DEF SimTypeOK
<1>4. Accounted' /\ Apart' /\ HandInv'
  BY <1>1 DEF SimInv, Accounted, Apart, HandInv
<1>5. WorkInv'
  BY <1>1, <1>2 DEF SimInv, WorkInv
<1>6. TurnInv'
  BY <1>1 DEF SimInv, TurnInv
<1>7. OwedInv'
  BY <1>2 DEF SimInv, OwedInv
<1> QED BY <1>3, <1>4, <1>5, <1>6, <1>7 DEF SimInv

(* send: the descriptor is still that of the socket's connection, so that  *)
(* the connection that is served is the one that was owed.                 *)
LEMMA SendStep ==
  ASSUME SimInv, SendNext
  PROVE  SimInv'
<1>0. SimTypeOK
  BY DEF SimInv
<1>1. dataPc = "send" /\ socketsCopy # << >>
  BY DEF SendNext
<1>2. Head(socketsCopy) \in Sockets(socketsCopy)
  BY <1>0, <1>1, SocketsOf DEF SimTypeOK
<1>3. open[Head(socketsCopy).fd] = Head(socketsCopy).conn
  BY <1>2, WorkInUse DEF NoStaleDescriptor
<1>4. Head(socketsCopy).conn \in 1 .. Connections
  <2>1. Head(socketsCopy) \in SocketSet
    BY <1>0, <1>1, SocketsOf DEF SimTypeOK
  <2> QED BY <2>1 DEF SocketSet
<1>5. UNCHANGED <<threadVars, listVars, broadcasts, open, arrived, hungUp>>
  BY DEF SendNext
<1>6. full \subseteq 1 .. Connections
  BY <1>0 DEF SimTypeOK
<1>7. /\ socketsCopy' = Tail(socketsCopy)
      /\ failedSockets' \in {failedSockets,
                             failedSockets \cup {Head(socketsCopy)}}
      /\ owed' = owed \ {Head(socketsCopy).conn}
      /\ full' \subseteq 1 .. Connections
  BY <1>3, <1>4, <1>6 DEF SendNext, SendFails
<1> QED BY <1>1, <1>5, <1>7, ServeStep

(* A signal may end a send that waits. *)
LEMMA SignalStep ==
  ASSUME SimInv, Signal
  PROVE  SimInv'
<1>0. SimTypeOK
  BY DEF SimInv
<1>1. UNCHANGED <<threadVars, listVars, failedSockets, broadcasts, netVars>>
  BY DEF Signal
<1>2. UNCHANGED <<open, arrived, hungUp, full>>
  BY <1>1 DEF netVars
<1>3. CASE UNCHANGED <<socketsCopy, owed>>
  BY <1>0, <1>1, <1>2, <1>3, SocketsUntouched
     DEF SimTypeOK, threadVars, listVars, socketVars
<1>4. CASE /\ Blocked /\ socketsCopy' = Tail(socketsCopy)
           /\ owed' = owed \ {Head(socketsCopy).conn}
  <2>1. dataPc = "send" /\ socketsCopy # << >>
    BY <1>4 DEF Blocked
  <2>2. full' \subseteq 1 .. Connections
    BY <1>0, <1>2 DEF SimTypeOK
  <2> QED BY <1>1, <1>2, <1>4, <2>1, <2>2, ServeStep
<1> QED BY <1>3, <1>4 DEF Signal

(* What is closed at the end of a broadcast is on the list or was pruned   *)
(* from it: closing by number hits no socket that the accept thread holds. *)
LEMMA FinishStep ==
  ASSUME SimInv, FinishBroadcast
  PROVE  SimInv'
<1>0. SimTypeOK
  BY DEF SimInv
<1>1. /\ dataPc = "send" /\ socketsCopy = << >> /\ failedSockets' = {}
      /\ broadcasts' = broadcasts - 1
      /\ dataPc' = IF broadcasts = 1 THEN "check" ELSE "copy"
      /\ UNCHANGED <<mainPc, acceptPc, hand, socketsCopy, owed, arrived,
                     hungUp, full>>
  BY DEF FinishBroadcast
<1>2. SameNumber(failedSockets) = failedSockets
  BY SameNumberIsSame, WorkInUse DEF SimInv, WorkInv
<1>3. /\ open' = Closed(failedSockets)
      /\ clientSockets' = Erase(clientSockets, failedSockets)
      /\ pruned' = pruned \ failedSockets
  BY <1>2 DEF FinishBroadcast, CloseFailed
<1>4. /\ open' \in [Descriptors -> 0 .. Connections]
      /\ InUse(open') = InUse(open) \ failedSockets
  BY <1>0, <1>3, WorkInUse, ClosedSockets DEF SimTypeOK
<1>5. /\ clientSockets' \in Seq(SocketSet)
      /\ Sockets(clientSockets') = Sockets(clientSockets) \ failedSockets
  BY <1>0, <1>3, EraseElements DEF SimTypeOK
<1>6. SimTypeOK'
  <2>1. broadcasts' \in IF dataPc' \in {"copy", "send"} THEN 1 .. 2 ELSE {0}
    BY <1>0, <1>1 DEF SimTypeOK
  <2> QED BY <1>0, <1>1, <1>3, <1>4, <1>5, <2>1 DEF SimTypeOK
<1>7. Sockets(hand) \cap failedSockets = {}
  BY DEF SimInv, Apart, WorkInv
<1>8. Accounted'
  BY <1>1, <1>3, <1>4, <1>5, <1>7 DEF SimInv, Accounted
<1>9. Apart'
  BY <1>1, <1>3, <1>5 DEF SimInv, Apart
<1>10. WorkInv' /\ TurnInv'
  BY <1>1, SocketsFew DEF WorkInv, TurnInv
<1>11. HandInv' /\ OwedInv'
  BY <1>1 DEF SimInv, HandInv, OwedInv
<1> QED BY <1>6, <1>8, <1>9, <1>10, <1>11 DEF SimInv

-----------------------------------------------------------------------------
(* stop *)

(* cleanup closes the list when the data thread holds no copy any more. *)
LEMMA CleanupStep ==
  ASSUME SimInv, JoinAndCleanup
  PROVE  SimInv'
<1>0. SimTypeOK
  BY DEF SimInv
<1>1. /\ dataPc = "done" /\ mainPc' = "done"
      /\ open' = Closed(Sockets(clientSockets)) /\ clientSockets' = << >>
      /\ UNCHANGED <<acceptPc, dataPc, hand, pruned, socketsCopy,
                     failedSockets, broadcasts, owed, arrived, hungUp, full>>
  BY DEF JoinAndCleanup, Cleanup, sendVars
<1>2. /\ open' \in [Descriptors -> 0 .. Connections]
      /\ InUse(open') = InUse(open) \ Sockets(clientSockets)
  BY <1>0, <1>1, WorkInUse, ClosedSockets DEF SimTypeOK
<1>3. Sockets(clientSockets') = {}
  BY <1>1, SocketsFew
<1>4. SimTypeOK'
  BY <1>0, <1>1, <1>2 DEF SimTypeOK
<1>5. Accounted' /\ Apart'
  BY <1>1, <1>2, <1>3 DEF SimInv, Accounted, Apart
<1>6. WorkInv'
  BY <1>1, SocketsFew DEF SimInv, TurnInv, WorkInv
<1>7. HandInv' /\ TurnInv' /\ OwedInv'
  BY <1>1 DEF SimInv, HandInv, TurnInv, OwedInv
<1> QED BY <1>4, <1>5, <1>6, <1>7 DEF SimInv

-----------------------------------------------------------------------------
(* The theorems about the sockets *)

(* Every step of every thread, peer or signal keeps the sockets in order.  *)
LEMMA SimStep ==
  ASSUME SimInv, [Next]_vars
  PROVE  SimInv'
<1>1. CASE MainThread
  BY <1>1, QuietStep, CleanupStep DEF MainThread
<1>2. CASE AcceptThread
  BY <1>2, QuietStep, AcceptStep, PushStep, PruneStep DEF AcceptThread
<1>3. CASE DataThread
  BY <1>3, QuietStep, CopyStep, SendStep, FinishStep DEF DataThread
<1>4. CASE \/ DurationEnds \/ Tick \/ UNCHANGED vars
           \/ \E conn \in 1 .. Connections : PeerReads(conn) \/ PeerHangsUp(conn)
  BY <1>4, QuietStep
<1>5. CASE Signal
  BY <1>5, SignalStep
<1> QED BY <1>1, <1>2, <1>3, <1>4, <1>5 DEF Next

(* start leaves them in order. *)
LEMMA SimStarts ==
  ASSUME Init
  PROVE  SimInv /\ FlagTypeOK
<1>1. SimTypeOK
  BY ConnectionsAssumption DEF Init, SimTypeOK
<1>2. /\ Sockets(clientSockets) = {} /\ Sockets(hand) = {}
      /\ Sockets(socketsCopy) = {} /\ pruned = {} /\ failedSockets = {}
      /\ owed = {}
  BY SocketsFew DEF Init
<1>3. InUse(open) = {}
  BY DEF Init, InUse, SocketSet
<1>4. Accounted /\ Apart /\ WorkInv /\ OwedInv
  BY <1>2, <1>3 DEF Accounted, Apart, WorkInv, OwedInv
<1>5. HandInv /\ TurnInv
  BY DEF Init, HandInv, TurnInv
<1>6. FlagTypeOK
  BY DEF Init, FlagTypeOK
<1> QED BY <1>1, <1>4, <1>5, <1>6 DEF SimInv

(* The inductive invariant of the three threads: every descriptor in use   *)
(* has one owner, and the data thread works outside the lock with sockets  *)
(* that nobody else closes.                                                *)
THEOREM SimulatorInvariance == Spec => []SimInv
<1>1. Init => SimInv
  BY SimStarts
<1>2. SimInv /\ [Next]_vars => SimInv'
  BY SimStep
<1> QED BY <1>1, <1>2, PTL DEF Spec

(* The variables keep their types: in particular there are never more than *)
(* two messages to broadcast in a turn, and none between turns.            *)
THEOREM SimulatorTypeCorrect == Spec => [](SimTypeOK /\ FlagTypeOK)
<1>1. Init => FlagTypeOK
  BY SimStarts
<1>2. FlagTypeOK /\ [Next]_vars => FlagTypeOK'
  BY FlagStep
<1>3. SimInv => SimTypeOK
  BY DEF SimInv
<1> QED BY <1>1, <1>2, <1>3, SimulatorInvariance, PTL DEF Spec

(* No send and no close of the data thread hits the connection of another  *)
(* client, for any number of descriptors that the kernel reuses.           *)
THEOREM DescriptorsNeverStale == Spec => []NoStaleDescriptor
<1>1. SimInv => NoStaleDescriptor
  BY WorkInUse
<1> QED BY <1>1, SimulatorInvariance, PTL

(* Every descriptor that is open is on the list, on its way to it or one   *)
(* that acceptClients pruned without closing it.                           *)
THEOREM OpenAlwaysAccounted == Spec => []OpenAccounted
<1>1. SimInv => OpenAccounted
  BY OpenSockets DEF SimInv, SimTypeOK, Accounted, OpenAccounted
<1> QED BY <1>1, SimulatorInvariance, PTL

(* When a broadcast is over, every client that was on the list has been    *)
(* served or has failed.                                                   *)
THEOREM EveryoneAlwaysServed == Spec => []EveryoneServed
<1>1. SimInv => EveryoneServed
  <2> SUFFICES ASSUME SimInv, dataPc \in {"check", "copy", "done"}
               PROVE  owed = {}
    BY DEF EveryoneServed
  <2>1. socketsCopy = << >>
    BY DEF SimInv, TurnInv
  <2>2. Sockets(socketsCopy) = {}
    BY <2>1, SocketsFew
  <2> QED BY <2>2 DEF SimInv, OwedInv
<1> QED BY <1>1, SimulatorInvariance, PTL

(* When the program has stopped, its threads have, and the list is empty;  *)
(* what was pruned had been closed by its peer.                            *)
StoppedInv == mainPc = "done" => /\ acceptPc = "done" /\ dataPc = "done"
                                 /\ clientSockets = << >>
PrunedInv == \A s \in pruned : s.conn \in hungUp

(* What stop leaves open *)
OnlyPrunedLeak ==
  mainPc = "done" =>
    \A fd \in Descriptors \ Free :
      Socket(fd, open[fd]) \in pruned /\ open[fd] \in hungUp

(* Nothing runs after the end, and a hang-up is for good. *)
LEMMA StoppedStep ==
  ASSUME StoppedInv, PrunedInv, [Next]_vars
  PROVE  StoppedInv' /\ PrunedInv'
<1> USE DEF StoppedInv, PrunedInv, listVars, sendVars, netVars, threadVars
<1>1. CASE MainThread
  BY <1>1 DEF MainThread, LeaveLoop, JoinAndCleanup, Cleanup
<1>2. CASE AcceptThread
  <2>1. CASE PruneClients
    <3>1. PICK gone \in SUBSET {s \in Sockets(clientSockets) : s.conn \in hungUp} :
            pruned' = pruned \cup gone
      BY <2>1 DEF PruneClients
    <3>2. acceptPc = "prune" /\ UNCHANGED <<mainPc, hungUp>>
      BY <2>1 DEF PruneClients
    <3> QED BY <3>1, <3>2
  <2>2. CASE AcceptClient \/ AcceptNobody \/ PushClient \/ AcceptEnds
    BY <2>2 DEF AcceptClient, AcceptNobody, PushClient, AcceptEnds
  <2> QED BY <1>2, <2>1, <2>2 DEF AcceptThread
<1>3. CASE DataThread \/ DurationEnds
  <2>1. dataPc # "done" /\ UNCHANGED <<mainPc, hungUp>>
    BY <1>3 DEF DataThread, DurationEnds, DataEnds, GenerateMessage,
                CopySockets, SendNext, FinishBroadcast
  <2>2. pruned' \subseteq pruned
    BY <1>3 DEF DataThread, DurationEnds, DataEnds, GenerateMessage,
                CopySockets, SendNext, FinishBroadcast, CloseFailed
  <2> QED BY <2>1, <2>2
<1>4. CASE Signal \/ Tick \/ UNCHANGED vars
  BY <1>4 DEF Signal, Tick, vars
<1>5. ASSUME NEW conn \in 1 .. Connections, PeerReads(conn) \/ PeerHangsUp(conn)
      PROVE  StoppedInv' /\ PrunedInv'
  BY <1>5 DEF PeerReads, PeerHangsUp
<1> QED BY <1>1, <1>2, <1>3, <1>4, <1>5 DEF Next

(* After stop the only descriptors left open are those that acceptClients  *)
(* took off the list without closing them, each of a client that had hung  *)
(* up: cleanup and the broadcasts close all others.                        *)
THEOREM StopLeaksOnlyPruned == Spec => []OnlyPrunedLeak
<1>1. Init => StoppedInv /\ PrunedInv
  BY DEF Init, StoppedInv, PrunedInv
<1>2. StoppedInv /\ PrunedInv /\ [Next]_vars => StoppedInv' /\ PrunedInv'
  BY StoppedStep
<1>3. SimInv /\ StoppedInv /\ PrunedInv => OnlyPrunedLeak
  <2> SUFFICES ASSUME SimInv, StoppedInv, PrunedInv, mainPc = "done",
                      NEW fd \in Descriptors \ Free
               PROVE  Socket(fd, open[fd]) \in pruned /\ open[fd] \in hungUp
    BY DEF OnlyPrunedLeak
  <2>1. Socket(fd, open[fd]) \in InUse(open)
    BY OpenSockets DEF SimInv, SimTypeOK
  <2>2. Sockets(clientSockets) = {} /\ Sockets(hand) = {}
    BY SocketsFew DEF StoppedInv, SimInv, HandInv
  <2>3. Socket(fd, open[fd]) \in pruned
    BY <2>1, <2>2 DEF SimInv, Accounted
  <2>4. Socket(fd, open[fd]).conn = open[fd]
    BY DEF Socket
  <2> QED BY <2>3, <2>4 DEF PrunedInv
<1> QED BY <1>1, <1>2, <1>3, SimulatorInvariance, PTL DEF Spec

-----------------------------------------------------------------------------
(* The replay *)

ReplayInv ==
  /\ records \in Files /\ replaySpeed \in Speeds
  /\ currentPosition \in 0 .. Len(records)
  /\ sinceStart \in 0 .. ClockMax
  /\ sinceEmit \in 0 .. MIN_INTERVAL

(* The threads use the replay only as ReplayNext says. *)
LEMMA StepOfReplay ==
  ASSUME [Next]_vars
  PROVE  [ReplayNext]_replayVars
BY DEF Next, MainThread, LeaveLoop, JoinAndCleanup, AcceptThread,
       AcceptClient, AcceptNobody, PushClient, PruneClients, AcceptEnds,
       DataThread, DataEnds, GenerateMessage, ReplayFromCsv, ReplayNext,
       CopySockets, SendNext, FinishBroadcast, DurationEnds, Signal, Tick,
       PeerReads, PeerHangsUp, vars

(* The replay keeps its position in the file and its clocks in range.  *)
LEMMA ReplayStep ==
  ASSUME ReplayInv, [ReplayNext]_replayVars
  PROVE  ReplayInv'
<1>1. /\ ClockMax \in Nat /\ Len(records) \in Nat /\ MIN_INTERVAL \in Nat
      /\ currentPosition \in Nat /\ sinceStart \in Nat /\ sinceEmit \in Nat
  <2>1. records \in Seq(U64)
    BY FilesAssumption DEF ReplayInv
  <2> QED BY <2>1, ClockAssumption, IntervalAssumption DEF ReplayInv, U64
<1>2. CASE UNCHANGED replayVars
  BY <1>2 DEF ReplayInv, replayVars
<1>3. CASE MayEmit /\ EmitMessage
  BY <1>1, <1>3 DEF ReplayInv, MayEmit, EmitMessage, AtEnd
<1>4. CASE AtEnd /\ Restart
  BY <1>1, <1>4 DEF ReplayInv, Restart
<1>5. CASE ReplayTick
  BY <1>1, <1>5 DEF ReplayInv, ReplayTick
<1> QED BY <1>2, <1>3, <1>4, <1>5 DEF ReplayNext

-----------------------------------------------------------------------------
(* Rounding to the nearest double never crosses a double: what is at least *)
(* a double stays at least that double, and the same from above.           *)
LEMMA NearestAbove ==
  ASSUME NEW a \in Nat, NEW b \in Nat \ {0}, NEW x \in Nearest(a, b),
         NEW y \in Doubles, y * b <= a
  PROVE  y <= x
<1>1. x \in Int /\ y \in Int /\ Distance(x * b, a) <= Distance(y * b, a)
  BY DEF Nearest, Doubles
<1>2. SUFFICES ASSUME x < y PROVE FALSE
  BY <1>1
<1>3. x * b < y * b /\ x * b \in Int /\ y * b \in Int
  BY <1>1, <1>2
<1> QED BY <1>1, <1>3 DEF Distance

LEMMA NearestBelow ==
  ASSUME NEW a \in Nat, NEW b \in Nat \ {0}, NEW x \in Nearest(a, b),
         NEW y \in Doubles, a <= y * b
  PROVE  x <= y
<1>1. x \in Int /\ y \in Int /\ Distance(x * b, a) <= Distance(y * b, a)
  BY DEF Nearest, Doubles
<1>2. SUFFICES ASSUME y < x PROVE FALSE
  BY <1>1
<1>3. y * b < x * b /\ x * b \in Int /\ y * b \in Int
  BY <1>1, <1>2
<1> QED BY <1>1, <1>3 DEF Distance

(* Truncation of a number that is at least h + 1 units *)
LEMMA TruncatedBeyond ==
  ASSUME NEW h \in Nat, NEW v \in Nat \ {0}, NEW x \in Nat, (h + 1) * v <= x
  PROVE  x \div v \in Int /\ h < x \div v
<1> DEFINE q == x \div v
<1>1. x = v * q + (x % v) /\ x % v \in 0 .. v - 1 /\ q \in Int
  OBVIOUS
<1> HIDE DEF q
<1>2. SUFFICES ASSUME q <= h PROVE FALSE
  BY <1>1 DEF q
<1>3. v * q <= v * h
  BY <1>1, <1>2
<1>4. (h + 1) * v = v * h + v
  OBVIOUS
<1>5. v * h \in Int /\ v * q \in Int
  BY <1>1
<1> QED BY <1>1, <1>3, <1>4, <1>5

(* The cast of a record that is never due is in range, and later than any  *)
(* time on the clock.                                                      *)
LEMMA ScaledBeyondClock ==
  ASSUME NEW ts \in U64, baseTimestamp \in U64, replaySpeed \in Speeds,
         NeverDue(ts), NEW offset \in ScaledOffsets(ts)
  PROVE  offset \in Int /\ ClockMax < offset
<1> DEFINE n == replaySpeed[1]
           d == replaySpeed[2]
           wrapped == (U64Max + 1 - (baseTimestamp - ts)) * Significands
<1>1. /\ n \in Nat \ {0} /\ d \in Nat \ {0}
      /\ U64Max \in Nat /\ Significands \in Nat \ {0} /\ ClockMax \in Nat
  BY SpeedsAssumption, U64Assumption, DoublesAssumption, ClockAssumption
  DEF NeverDue, U64
<1>2. PICK low \in Doubles, high \in Doubles, top \in Doubles :
        /\ low <= wrapped /\ wrapped <= high
        /\ (ClockMax + 1) * Significands * n <= low * d
        /\ high * d <= top * n /\ top < Limit
  BY DEF NeverDue
<1>3. RecordOffset(ts) * Significands = wrapped /\ wrapped \in Nat
  <2>1. /\ ts \in Int /\ baseTimestamp \in Int
        /\ U64Max + 1 - (baseTimestamp - ts) \in Nat
    BY <1>1 DEF U64
  <2>2. RecordOffset(ts) = U64Max + 1 - (baseTimestamp - ts)
    BY <1>1, <2>1 DEF NeverDue, RecordOffset, Minus64
  <2> QED BY <1>1, <2>1, <2>2
<1>4. PICK x \in Nearest(wrapped, 1) : \E y \in Nearest(x * d, n) :
        offset \in ToUint64(y)
  BY <1>3 DEF ScaledOffsets
<1>5. PICK y \in Nearest(x * d, n) : offset \in ToUint64(y)
  BY <1>4
<1>6. /\ x \in Nat /\ y \in Nat /\ low \in Nat /\ high \in Nat /\ top \in Nat
  BY DEF Nearest, Doubles
<1> HIDE DEF n, d, wrapped
<1>7. low <= x /\ x <= high
  <2>1. low * 1 <= wrapped /\ wrapped <= high * 1
    BY <1>2, <1>6
  <2> QED BY <1>2, <1>3, <1>4, <2>1, NearestAbove, NearestBelow
<1>8. low * d <= x * d /\ x * d <= high * d /\ x * d \in Nat
  BY <1>1, <1>6, <1>7
<1>9. (ClockMax + 1) * Significands <= y /\ y <= top
  <2>1. low * d \in Int /\ high * d \in Int /\ top * n \in Int
    BY <1>1, <1>6
  <2>2. (ClockMax + 1) * Significands * n \in Int
    BY <1>1
  <2>3. ((ClockMax + 1) * Significands) * n <= x * d /\ x * d <= top * n
    BY <1>2, <1>8, <2>1, <2>2
  <2>4. (ClockMax + 1) * Significands \in Doubles
    BY ClockAssumption
  <2> QED BY <1>1, <1>2, <1>5, <1>8, <2>3, <2>4, NearestAbove, NearestBelow
<1>10. y < Limit
  <2>1. Limit \in Int
    BY <1>1 DEF Limit
  <2> QED BY <1>2, <1>6, <1>9, <2>1
<1>11. offset = y \div Significands
  BY <1>5, <1>10 DEF ToUint64
<1> QED BY <1>1, <1>6, <1>9, <1>11, TruncatedBeyond

(* shouldEmitNow refuses such a record at every time of the clock. *)
LEMMA NeverDueNotEmitted ==
  ASSUME ReplayInv, ~ AtEnd, NeverDue(NextRecord)
  PROVE  ~ MayEmit
<1>1. records \in Seq(U64) /\ Len(records) \in Nat
  BY FilesAssumption DEF ReplayInv
<1>2. currentPosition + 1 \in DOMAIN records /\ 1 \in DOMAIN records
  BY <1>1 DEF ReplayInv, AtEnd
<1>3. NextRecord \in U64 /\ baseTimestamp \in U64
  BY <1>1, <1>2 DEF NextRecord, baseTimestamp
<1>4. \A offset \in ScaledOffsets(NextRecord) : ~ (sinceStart >= offset)
  <2> SUFFICES ASSUME NEW offset \in ScaledOffsets(NextRecord)
               PROVE  ~ (sinceStart >= offset)
    OBVIOUS
  <2>1. offset \in Int /\ ClockMax < offset
    BY <1>3, ScaledBeyondClock DEF ReplayInv
  <2>2. sinceStart \in 0 .. ClockMax /\ ClockMax \in Int
    BY ClockAssumption DEF ReplayInv, U64
  <2> QED BY <2>1, <2>2
<1>5. replaySpeed[1] # 0
  BY DEF NeverDue
<1>6. TRUE \notin ShouldEmitNow(NextRecord)
  BY <1>4, <1>5 DEF ShouldEmitNow
<1> QED BY <1>6 DEF MayEmit

(* A step of the replay at such a record leaves the position alone. *)
LEMMA NeverDueStays ==
  ASSUME ReplayInv, [ReplayNext]_replayVars, ~ AtEnd, NeverDue(NextRecord)
  PROVE  currentPosition' = currentPosition
BY NeverDueNotEmitted DEF ReplayNext, ReplayTick, replayVars

(* Position and clocks of the replay stay in range, whatever the file. *)
THEOREM ReplayInvariance == Spec => []ReplayInv
<1>1. Init => ReplayInv
  <2> SUFFICES ASSUME Init PROVE ReplayInv
    OBVIOUS
  <2>1. records \in Files /\ records \in Seq(U64)
    BY FilesAssumption DEF Init, ReplayInit
  <2> QED BY <2>1, IntervalAssumption, ClockAssumption
          DEF Init, ReplayInit, ReplayInv, U64
<1>2. ReplayInv /\ [Next]_vars => ReplayInv'
  BY ReplayStep, StepOfReplay
<1> QED BY <1>1, <1>2, PTL DEF Spec

(* A record older than the first stops the replay for good, for every file *)
(* and speed that make its wrapped offset later than the clock can reach   *)
(* and leave it in the range of uint64_t, however the doubles are rounded. *)
THEOREM OlderRecordAlwaysBlocks == Spec => OlderRecordBlocks
<1>1. ReplayInv /\ [Next]_vars
        => [~ AtEnd /\ NeverDue(NextRecord)
              => currentPosition' = currentPosition]_replayVars
  BY StepOfReplay, NeverDueStays
<1> QED BY <1>1, ReplayInvariance, PTL DEF Spec, OlderRecordBlocks
=============================================================================
