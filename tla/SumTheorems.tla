---------------------------- MODULE SumTheorems ----------------------------
(***************************************************************************)
(* Facts about running totals, the prefix arrays that hold them, and       *)
(* sequences that are put together and cut.  The totals need induction     *)
(* over the natural numbers; NatInd states it for a set instead of a       *)
(* predicate, so that a proof can instantiate it, and rests on the         *)
(* well-foundedness of < on Nat.                                           *)
(***************************************************************************)
EXTENDS Sums, BoundedDeque, SequenceTheorems, WellFoundedInduction, TLAPS

(* Every nonempty set of natural numbers has a least element. *)
LEMMA NatMin ==
  ASSUME NEW T, T \subseteq Nat, T # {}
  PROVE  \E m \in T : \A y \in T : m <= y
<1> DEFINE R == OpToRel(<, Nat)
<1>1. IsWellFoundedOn(R, Nat)
  BY NatLessThanWellFounded
<1> HIDE DEF R
<1>2. PICK m \in T : \A y \in T : ~ (<<y, m>> \in R)
  BY <1>1, WFMin
<1>3. ASSUME NEW y \in T PROVE m <= y
  <2>1. m \in Nat /\ y \in Nat /\ ~ (<<y, m>> \in R)
    BY <1>2
  <2>2. ~ (y < m)
    BY <2>1 DEF R, OpToRel
  <2> QED BY <2>1, <2>2
<1> QED BY <1>3

(* Induction: a set that holds 0 and n + 1 with every n holds Nat. *)
LEMMA NatInd ==
  ASSUME NEW S, 0 \in S, \A n \in Nat : n \in S => n + 1 \in S
  PROVE  \A n \in Nat : n \in S
<1> DEFINE T == {n \in Nat : n \notin S}
<1>1. SUFFICES ASSUME T # {} PROVE FALSE
  OBVIOUS
<1>2. PICK m \in T : \A y \in T : m <= y
  <2>1. T \subseteq Nat
    OBVIOUS
  <2> HIDE DEF T
  <2> QED BY <1>1, <2>1, NatMin
<1>3. m \in Nat /\ m # 0 /\ m - 1 \in Nat
  OBVIOUS
<1>4. m - 1 \in S
  BY <1>2, <1>3
<1> QED BY <1>3, <1>4

-----------------------------------------------------------------------------
Recurrence(f, s, n) ==
  f = [i \in 0 .. n |-> IF i = 0 THEN 0 ELSE f[i-1] + s[i]]

(* Some function satisfies the recurrence that defines RunningTotal. *)
LEMMA RecurrenceHasSolution ==
  ASSUME NEW s \in Seq(Nat)
  PROVE  \E f \in [0 .. Len(s) -> Nat] : Recurrence(f, s, Len(s))
<1> DEFINE S == {n \in Nat : n <= Len(s) =>
                   \E f \in [0 .. n -> Nat] : Recurrence(f, s, n)}
<1>1. 0 \in S
  <2>1. [i \in 0 .. 0 |-> 0] \in [0 .. 0 -> Nat]
    OBVIOUS
  <2>2. Recurrence([i \in 0 .. 0 |-> 0], s, 0)
    BY DEF Recurrence
  <2> QED BY <2>1, <2>2
<1>2. ASSUME NEW n \in Nat, n \in S PROVE n + 1 \in S
  <2>1. SUFFICES ASSUME n + 1 <= Len(s)
                 PROVE  \E f \in [0 .. n+1 -> Nat] : Recurrence(f, s, n+1)
    OBVIOUS
  <2>2. PICK g \in [0 .. n -> Nat] : Recurrence(g, s, n)
    BY <1>2, <2>1
  <2>3. s[n+1] \in Nat
    BY <2>1
  <2> DEFINE h == [i \in 0 .. n+1 |-> IF i = n+1 THEN g[n] + s[n+1] ELSE g[i]]
  <2>4. h \in [0 .. n+1 -> Nat]
    BY <2>3
  <2>5. \A i \in 0 .. n : g[i] = IF i = 0 THEN 0 ELSE g[i-1] + s[i]
    BY <2>2 DEF Recurrence
  <2>6. ASSUME NEW i \in 0 .. n+1
        PROVE  h[i] = IF i = 0 THEN 0 ELSE h[i-1] + s[i]
    <3>1. CASE i = n+1
      <4>1. h[i] = g[n] + s[n+1] /\ h[i-1] = g[n]
        BY <3>1
      <4> QED BY <3>1, <4>1
    <3>2. CASE i \in 1 .. n
      <4>1. h[i] = g[i] /\ h[i-1] = g[i-1]
        BY <3>2
      <4> QED BY <3>2, <4>1, <2>5
    <3>3. CASE i = 0
      BY <3>3, <2>5
    <3> QED BY <3>1, <3>2, <3>3
  <2>7. Recurrence(h, s, n+1)
    BY <2>6 DEF Recurrence
  <2> QED BY <2>4, <2>7
<1> HIDE DEF S
<1>3. \A n \in Nat : n \in S
  BY ONLY <1>1, <1>2, NatInd
<1>4. Len(s) \in Nat
  OBVIOUS
<1> QED BY <1>3, <1>4 DEF S

(* The defining equation of RunningTotal. *)
LEMMA RunningTotalDef ==
  ASSUME NEW s \in Seq(Nat)
  PROVE  \A i \in 0 .. Len(s) :
           RunningTotal(s)[i] = IF i = 0 THEN 0
                                ELSE RunningTotal(s)[i-1] + s[i]
<1>1. PICK f : Recurrence(f, s, Len(s))
  BY RecurrenceHasSolution
<1>2. f = [i \in 0 .. Len(s) |-> IF i = 0 THEN 0 ELSE f[i-1] + s[i]]
  BY <1>1 DEF Recurrence
<1>3. RunningTotal(s) =
        CHOOSE g : g = [i \in 0 .. Len(s) |-> IF i = 0 THEN 0
                                              ELSE g[i-1] + s[i]]
  BY DEF RunningTotal
<1>4. RunningTotal(s) =
        [i \in 0 .. Len(s) |-> IF i = 0 THEN 0
                               ELSE RunningTotal(s)[i-1] + s[i]]
  BY <1>2, <1>3
<1> QED BY <1>4

(* Running totals of natural numbers are natural numbers. *)
LEMMA RunningTotalType ==
  ASSUME NEW s \in Seq(Nat)
  PROVE  \A i \in 0 .. Len(s) : RunningTotal(s)[i] \in Nat
<1> DEFINE S == {n \in Nat : n <= Len(s) => RunningTotal(s)[n] \in Nat}
<1>1. 0 \in S
  BY RunningTotalDef
<1>2. ASSUME NEW n \in Nat, n \in S PROVE n + 1 \in S
  <2>1. SUFFICES ASSUME n + 1 <= Len(s) PROVE RunningTotal(s)[n+1] \in Nat
    OBVIOUS
  <2>2. RunningTotal(s)[n] \in Nat /\ s[n+1] \in Nat
    BY <1>2, <2>1
  <2>3. RunningTotal(s)[n+1] = RunningTotal(s)[n] + s[n+1]
    BY <2>1, RunningTotalDef
  <2> QED BY <2>2, <2>3
<1> HIDE DEF S
<1>3. \A n \in Nat : n \in S
  BY <1>1, <1>2, NatInd
<1> QED BY <1>3 DEF S

(* The two cases of RunningTotalDef, to cite by name. *)
LEMMA RunningTotalZero ==
  ASSUME NEW s \in Seq(Nat)
  PROVE  RunningTotal(s)[0] = 0
BY RunningTotalDef

(* A running total adds one element per step. *)
LEMMA RunningTotalStep ==
  ASSUME NEW s \in Seq(Nat), NEW n \in Nat, n + 1 <= Len(s)
  PROVE  RunningTotal(s)[n+1] = RunningTotal(s)[n] + s[n+1]
<1>1. n+1 \in 0 .. Len(s) /\ n+1 # 0 /\ n+1-1 = n
  OBVIOUS
<1>2. \A i \in 0 .. Len(s) :
        RunningTotal(s)[i] = IF i = 0 THEN 0 ELSE RunningTotal(s)[i-1] + s[i]
  BY RunningTotalDef
<1> QED BY <1>1, <1>2

(* A running total depends only on the elements summed. *)
LEMMA RunningTotalPrefix ==
  ASSUME NEW s \in Seq(Nat), NEW t \in Seq(Nat), NEW m \in Nat,
         m <= Len(s), m <= Len(t), \A i \in 1 .. m : s[i] = t[i]
  PROVE  \A i \in 0 .. m : RunningTotal(s)[i] = RunningTotal(t)[i]
<1> DEFINE S == {n \in Nat : n <= m =>
                              RunningTotal(s)[n] = RunningTotal(t)[n]}
<1>1. 0 \in S
  <2>1. RunningTotal(s)[0] = 0
    BY RunningTotalZero
  <2>2. RunningTotal(t)[0] = 0
    BY RunningTotalZero
  <2> QED BY <2>1, <2>2
<1>2. ASSUME NEW n \in Nat, n \in S PROVE n + 1 \in S
  <2>1. SUFFICES ASSUME n + 1 <= m
                 PROVE  RunningTotal(s)[n+1] = RunningTotal(t)[n+1]
    OBVIOUS
  <2>2. RunningTotal(s)[n+1] = RunningTotal(s)[n] + s[n+1]
    BY <2>1, RunningTotalStep
  <2>3. RunningTotal(t)[n+1] = RunningTotal(t)[n] + t[n+1]
    BY <2>1, RunningTotalStep
  <2>4. RunningTotal(s)[n] = RunningTotal(t)[n] /\ s[n+1] = t[n+1]
    BY <1>2, <2>1
  <2> QED BY <2>2, <2>3, <2>4
<1> HIDE DEF S
<1>3. \A n \in Nat : n \in S
  BY <1>1, <1>2, NatInd
<1> QED BY <1>3 DEF S

(* t is s without its first k elements. *)
IsDrop(t, s, k) ==
  Len(t) = Len(s) - k /\ \A i \in 1 .. Len(t) : t[i] = s[i + k]

(* Dropping the first k elements lowers every total by theirs. *)
LEMMA RunningTotalShift ==
  ASSUME NEW s \in Seq(Nat), NEW k \in 0 .. Len(s), NEW t \in Seq(Nat),
         IsDrop(t, s, k)
  PROVE  \A i \in 0 .. Len(t) :
           RunningTotal(s)[i + k] = RunningTotal(t)[i] + RunningTotal(s)[k]
<1> DEFINE S == {n \in Nat : n <= Len(t) =>
             RunningTotal(s)[n + k] = RunningTotal(t)[n] + RunningTotal(s)[k]}
<1>0. /\ \A i \in 0 .. Len(s) : RunningTotal(s)[i] \in Nat
      /\ \A i \in 0 .. Len(t) : RunningTotal(t)[i] \in Nat
  BY RunningTotalType
<1>1. 0 \in S
  <2>1. RunningTotal(t)[0] = 0
    BY RunningTotalZero
  <2>2. RunningTotal(s)[k] \in Nat
    BY <1>0
  <2> QED BY <2>1, <2>2
<1>2. ASSUME NEW n \in Nat, n \in S PROVE n + 1 \in S
  <2>1. SUFFICES ASSUME n + 1 <= Len(t)
                 PROVE  RunningTotal(s)[n+1+k] =
                          RunningTotal(t)[n+1] + RunningTotal(s)[k]
    OBVIOUS
  <2>a. n+k \in Nat /\ n+k+1 = n+1+k /\ n+k+1 <= Len(s) /\ n <= Len(t)
    BY <2>1 DEF IsDrop
  <2>2. RunningTotal(t)[n+1] = RunningTotal(t)[n] + t[n+1]
    BY <2>1, RunningTotalStep
  <2>3. RunningTotal(s)[n+k+1] = RunningTotal(s)[n+k] + s[n+k+1]
    BY <2>a, RunningTotalStep
  <2>4. RunningTotal(s)[n+k] = RunningTotal(t)[n] + RunningTotal(s)[k]
    BY <1>2, <2>a
  <2>5. t[n+1] = s[n+k+1]
    <3>1. n+1 \in 1 .. Len(t)
      BY <2>1
    <3>2. t[n+1] = s[(n+1)+k]
      BY <3>1 DEF IsDrop
    <3> QED BY <3>2, <2>a
  <2>6. RunningTotal(t)[n] \in Nat /\ RunningTotal(s)[k] \in Nat
    BY <1>0, <2>a
  <2>7. t[n+1] \in Nat
    BY <2>1
  <2> QED BY <2>a, <2>2, <2>3, <2>4, <2>5, <2>6, <2>7
<1> HIDE DEF S
<1>3. \A n \in Nat : n \in S
  BY <1>1, <1>2, NatInd
<1> QED BY <1>3 DEF S

(* The same for the total. *)
LEMMA TotalShift ==
  ASSUME NEW s \in Seq(Nat), NEW k \in 0 .. Len(s), NEW t \in Seq(Nat),
         IsDrop(t, s, k)
  PROVE  Total(s) = Total(t) + RunningTotal(s)[k]
<1>1. \A i \in 0 .. Len(t) :
        RunningTotal(s)[i + k] = RunningTotal(t)[i] + RunningTotal(s)[k]
  BY RunningTotalShift
<1>2. Len(t) \in 0 .. Len(t) /\ Len(t) + k = Len(s)
  BY DEF IsDrop
<1> QED BY <1>1, <1>2 DEF Total

(* The total of natural numbers, and what bounds every running total. *)
LEMMA TotalType ==
  ASSUME NEW s \in Seq(Nat)
  PROVE  Total(s) \in Nat
BY RunningTotalType DEF Total

(* No running total exceeds the total. *)
LEMMA RunningTotalBounded ==
  ASSUME NEW s \in Seq(Nat), NEW k \in 0 .. Len(s)
  PROVE  RunningTotal(s)[k] <= Total(s)
<1> DEFINE t == [i \in 1 .. Len(s) - k |-> s[i + k]]
<1>1. t \in Seq(Nat) /\ Len(t) = Len(s) - k
  OBVIOUS
<1>2. IsDrop(t, s, k)
  BY <1>1 DEF IsDrop
<1> HIDE DEF t
<1>3. Total(s) = Total(t) + RunningTotal(s)[k]
  BY <1>1, <1>2, TotalShift
<1>4. Total(t) \in Nat /\ RunningTotal(s)[k] \in Nat
  BY <1>1, TotalType, RunningTotalType
<1> QED BY <1>3, <1>4

(* The totals of a sequence extended by one element. *)
LEMMA TotalAppend ==
  ASSUME NEW s \in Seq(Nat), NEW x \in Nat
  PROVE  /\ Total(Append(s, x)) = Total(s) + x
         /\ \A i \in 0 .. Len(s) :
              RunningTotal(Append(s, x))[i] = RunningTotal(s)[i]
<1> DEFINE t == Append(s, x)
<1>1. /\ t \in Seq(Nat) /\ Len(t) = Len(s) + 1 /\ t[Len(s) + 1] = x
      /\ \A i \in 1 .. Len(s) : s[i] = t[i]
  OBVIOUS
<1> HIDE DEF t
<1>2. \A i \in 0 .. Len(s) : RunningTotal(s)[i] = RunningTotal(t)[i]
  <2>1. Len(s) \in Nat /\ Len(s) <= Len(s) /\ Len(s) <= Len(t)
    BY <1>1
  <2> QED BY <1>1, <2>1, RunningTotalPrefix
<1>3. RunningTotal(t)[Len(s) + 1] = RunningTotal(t)[Len(s)] + x
  <2>1. Len(s) \in Nat /\ Len(s) + 1 <= Len(t)
    BY <1>1
  <2> QED BY <1>1, <2>1, RunningTotalStep
<1>4. Total(t) = Total(s) + x
  BY <1>1, <1>2, <1>3 DEF Total
<1> QED BY <1>2, <1>4 DEF t

-----------------------------------------------------------------------------
(* What addTrade and removeExpiredTrades do to one prefix array.  The two  *)
(* prefix arrays of VwapCalculator are kept by the same code, so that the  *)
(* argument is made once, for a sequence s of natural numbers with its     *)
(* prefix array, its running sum and what was overwritten (ArrayInv).      *)

(* A prefix array that is due for a rebuild is stale, but no entry of it   *)
(* exceeds the sum.                                                        *)
ArrayInv(s, prefix, sum, lst, pending) ==
  /\ s \in Seq(Nat) /\ lst \in Nat
  /\ prefix \in Seq(Nat) /\ Len(prefix) = Len(s)
  /\ sum = Total(s) + lst
  /\ \A i \in 1 .. Len(s) : prefix[i] <= sum
  /\ ~ pending => prefix = RebuildPrefix(s)

(* What a push on s overwrites *)
Dropped(s, capacity) == IF Len(s) = capacity THEN s[1] ELSE 0

(* A function on 1..n with values in S is a sequence over S of length n. *)
LEMMA FunctionIsSeq ==
  ASSUME NEW S, NEW n \in Nat, NEW f \in [1 .. n -> S]
  PROVE  f \in Seq(S) /\ Len(f) = n
BY SeqDef, LenProperties

(* A push adds the new element to the total and loses what it overwrites. *)
PushTotals(s, n, x) ==
  /\ PushBack(s, n, x) \in Seq(Nat)
  /\ Len(PushBack(s, n, x)) = IF Len(s) = n THEN n ELSE Len(s) + 1
  /\ Dropped(s, n) \in Nat
  /\ Total(PushBack(s, n, x)) + Dropped(s, n) = Total(s) + x

(* What push_back does to the total: it adds the new element, and takes    *)
(* the overwritten one away when the buffer was full.                      *)
LEMMA PushBackTotal ==
  ASSUME NEW s \in Seq(Nat), NEW n \in Nat, n > 0, Len(s) <= n, NEW x \in Nat
  PROVE  PushTotals(s, n, x)
<1>1. CASE Len(s) # n
  <2>1. PushBack(s, n, x) = Append(s, x) /\ Dropped(s, n) = 0
    BY <1>1 DEF PushBack, Dropped
  <2>2. Total(Append(s, x)) = Total(s) + x /\ Total(s) \in Nat
    BY TotalAppend, TotalType
  <2>3. Append(s, x) \in Seq(Nat) /\ Len(Append(s, x)) = Len(s) + 1
    OBVIOUS
  <2> QED BY <1>1, <2>1, <2>2, <2>3 DEF PushTotals
<1>2. CASE Len(s) = n
  <2> DEFINE t == Tail(s)
  <2>1. PushBack(s, n, x) = Append(t, x) /\ Dropped(s, n) = s[1]
    BY <1>2 DEF PushBack, Dropped
  <2>2. /\ t \in Seq(Nat) /\ Len(t) = n - 1 /\ s[1] \in Nat
        /\ IsDrop(t, s, 1) /\ 1 \in 0 .. Len(s)
    BY <1>2 DEF IsDrop
  <2> HIDE DEF t
  <2>3. Total(s) = Total(t) + RunningTotal(s)[1]
    BY <2>2, TotalShift
  <2>4. RunningTotal(s)[1] = s[1]
    <3>1. RunningTotal(s)[0+1] = RunningTotal(s)[0] + s[0+1]
      BY <2>2, RunningTotalStep
    <3>2. RunningTotal(s)[0] = 0
      BY RunningTotalZero
    <3> QED BY <2>2, <3>1, <3>2
  <2>5. Total(Append(t, x)) = Total(t) + x /\ Total(t) \in Nat
    BY <2>2, TotalAppend, TotalType
  <2>6. Append(t, x) \in Seq(Nat) /\ Len(Append(t, x)) = n
    BY <2>2
  <2> QED BY <1>2, <2>1, <2>2, <2>3, <2>4, <2>5, <2>6 DEF PushTotals
<1> QED BY <1>1, <1>2

(* A rebuilt prefix array has the right type, and nothing in it exceeds    *)
(* the total.                                                              *)
LEMMA RebuildPrefixType ==
  ASSUME NEW s \in Seq(Nat)
  PROVE  /\ RebuildPrefix(s) \in Seq(Nat) /\ Len(RebuildPrefix(s)) = Len(s)
         /\ \A i \in 1 .. Len(s) : /\ RebuildPrefix(s)[i] = RunningTotal(s)[i]
                                   /\ RebuildPrefix(s)[i] <= Total(s)
<1>1. \A i \in 1 .. Len(s) : RunningTotal(s)[i] \in Nat
  BY RunningTotalType
<1>2. \A i \in 1 .. Len(s) : RunningTotal(s)[i] <= Total(s)
  BY RunningTotalBounded
<1>3. RebuildPrefix(s) \in Seq(Nat) /\ Len(RebuildPrefix(s)) = Len(s)
  BY <1>1 DEF RebuildPrefix
<1>4. \A i \in 1 .. Len(s) : RebuildPrefix(s)[i] = RunningTotal(s)[i]
  BY DEF RebuildPrefix
<1> QED BY <1>2, <1>3, <1>4

(* On an array that is up to date appendPrefix does what a rebuild would. *)
LEMMA AppendPrefixRebuilds ==
  ASSUME NEW s \in Seq(Nat), NEW x \in Nat
  PROVE  AppendPrefix(RebuildPrefix(s), Len(s) + 1, x)
           = RebuildPrefix(Append(s, x))
<1> DEFINE t == Append(s, x)
           n == Len(s) + 1
<1>1. t \in Seq(Nat) /\ Len(t) = n /\ n \in Nat /\ t[n] = x
  OBVIOUS
<1>2. \A i \in 0 .. Len(s) : RunningTotal(t)[i] = RunningTotal(s)[i]
  BY TotalAppend
<1>3. \A i \in 1 .. Len(s) : RebuildPrefix(s)[i] = RunningTotal(s)[i]
  BY RebuildPrefixType
<1>4. RunningTotal(t)[n] = RunningTotal(s)[Len(s)] + x
  <2>1. Total(t) = Total(s) + x
    BY TotalAppend
  <2> QED BY <1>1, <2>1 DEF Total
<1>5. RunningTotal(s)[0] = 0
  BY RunningTotalZero
<1>6. RunningTotal(s)[Len(s)] \in Nat
  BY TotalType DEF Total
<1> HIDE DEF t
<1>7. ASSUME NEW i \in 1 .. n
      PROVE  AppendPrefix(RebuildPrefix(s), n, x)[i] = RunningTotal(t)[i]
  <2>1. CASE i < n
    BY <1>2, <1>3, <2>1 DEF AppendPrefix
  <2>2. CASE i = n /\ n > 1
    <3>1. AppendPrefix(RebuildPrefix(s), n, x)[i] = x + RebuildPrefix(s)[n-1]
      BY <2>2 DEF AppendPrefix
    <3>2. n - 1 = Len(s) /\ n - 1 \in 1 .. Len(s)
      BY <2>2
    <3>3. RebuildPrefix(s)[n-1] = RunningTotal(s)[Len(s)]
      BY <1>3, <3>2
    <3> QED BY <1>4, <1>6, <2>2, <3>1, <3>3
  <2>3. CASE i = n /\ n = 1
    <3>1. AppendPrefix(RebuildPrefix(s), n, x)[i] = x + 0
      BY <2>3 DEF AppendPrefix
    <3>2. Len(s) = 0
      BY <2>3
    <3> QED BY <1>4, <1>5, <2>3, <3>1, <3>2
  <2> QED BY <1>1, <2>1, <2>2, <2>3
<1>8. /\ AppendPrefix(RebuildPrefix(s), n, x) =
           [i \in 1 .. n |-> AppendPrefix(RebuildPrefix(s), n, x)[i]]
      /\ RebuildPrefix(t) = [i \in 1 .. n |-> RunningTotal(t)[i]]
  BY <1>1 DEF AppendPrefix, RebuildPrefix
<1> QED BY <1>7, <1>8 DEF t

(* Shifting a prefix array that is up to date is the rebuild of what is    *)
(* left, and the entry subtracted from the sum is what was removed.        *)
LEMMA ShiftPrefixRebuilds ==
  ASSUME NEW s \in Seq(Nat), NEW k \in 1 .. Len(s)
  PROVE  /\ PopFrontN(s, k) \in Seq(Nat)
         /\ Len(PopFrontN(s, k)) = Len(s) - k
         /\ ShiftPrefix(RebuildPrefix(s), k) = RebuildPrefix(PopFrontN(s, k))
         /\ RebuildPrefix(s)[k] \in Nat
         /\ Total(s) = Total(PopFrontN(s, k)) + RebuildPrefix(s)[k]
<1> DEFINE t == PopFrontN(s, k)
<1>1. t \in Seq(Nat) /\ Len(t) = Len(s) - k
  BY DEF PopFrontN
<1>2. IsDrop(t, s, k)
  BY <1>1 DEF PopFrontN, IsDrop
<1> HIDE DEF t
<1>3. \A i \in 0 .. Len(t) :
        RunningTotal(s)[i + k] = RunningTotal(t)[i] + RunningTotal(s)[k]
  BY <1>1, <1>2, RunningTotalShift
<1>4. /\ Len(RebuildPrefix(s)) = Len(s)
      /\ \A i \in 1 .. Len(s) : RebuildPrefix(s)[i] = RunningTotal(s)[i]
  BY RebuildPrefixType
<1>5. /\ RunningTotal(s)[k] \in Nat
      /\ \A i \in 0 .. Len(t) : RunningTotal(t)[i] \in Nat
  BY <1>1, RunningTotalType
<1>6. ASSUME NEW i \in 1 .. Len(t)
      PROVE  RebuildPrefix(s)[i+k] - RebuildPrefix(s)[k] = RunningTotal(t)[i]
  <2>1. i + k \in 1 .. Len(s) /\ i \in 0 .. Len(t)
    BY <1>1
  <2>2. RebuildPrefix(s)[i+k] = RunningTotal(s)[i+k]
    BY <1>4, <2>1
  <2>3. RebuildPrefix(s)[k] = RunningTotal(s)[k]
    BY <1>4
  <2>4. RunningTotal(s)[i + k] = RunningTotal(t)[i] + RunningTotal(s)[k]
    BY <1>3, <2>1
  <2>5. RunningTotal(t)[i] \in Nat
    BY <1>5, <2>1
  <2> QED BY <1>5, <2>2, <2>3, <2>4, <2>5
<1>7. ShiftPrefix(RebuildPrefix(s), k) =
        [i \in 1 .. Len(t) |-> RebuildPrefix(s)[i+k] - RebuildPrefix(s)[k]]
  BY <1>1, <1>4 DEF ShiftPrefix
<1>8. ShiftPrefix(RebuildPrefix(s), k) = RebuildPrefix(t)
  BY <1>6, <1>7 DEF RebuildPrefix
<1>9. Total(s) = Total(t) + RunningTotal(s)[k]
  BY <1>1, <1>2, TotalShift
<1> QED BY <1>1, <1>4, <1>5, <1>8, <1>9 DEF t

(* appendPrefix, also on a stale array: nothing exceeds the new sum. *)
BoundedPrefix(a, n, sum) ==
  a \in Seq(Nat) /\ Len(a) = n /\ \A i \in 1 .. n : a[i] <= sum

(* Appending a total below a bound to a prefix array below it keeps the    *)
(* bound.                                                                  *)
LEMMA AppendPrefixBounded ==
  ASSUME NEW prefix \in Seq(Nat), NEW sum \in Nat, NEW x \in Nat,
         NEW n \in Nat, n > 0, n - 1 <= Len(prefix),
         \A i \in 1 .. Len(prefix) : prefix[i] <= sum
  PROVE  BoundedPrefix(AppendPrefix(prefix, n, x), n, sum + x)
<1> DEFINE a == AppendPrefix(prefix, n, x)
<1>1. ASSUME NEW i \in 1 .. n PROVE a[i] \in Nat /\ a[i] <= sum + x
  <2>1. CASE i < n
    <3>1. a[i] = prefix[i] /\ i \in 1 .. Len(prefix)
      BY <2>1 DEF AppendPrefix
    <3>2. prefix[i] \in Nat /\ prefix[i] <= sum
      BY <3>1
    <3> QED BY <3>1, <3>2
  <2>2. CASE i = n /\ n > 1
    <3>1. a[i] = x + prefix[n-1] /\ n-1 \in 1 .. Len(prefix)
      BY <2>2 DEF AppendPrefix
    <3>2. prefix[n-1] \in Nat /\ prefix[n-1] <= sum
      BY <3>1
    <3> QED BY <3>1, <3>2
  <2>3. CASE i = n /\ n = 1
    <3>1. a[i] = x + 0
      BY <2>3 DEF AppendPrefix
    <3> QED BY <3>1
  <2> QED BY <2>1, <2>2, <2>3
<1>2. a \in [1 .. n -> Nat]
  <2>1. \A i \in 1 .. n : a[i] \in Nat
    BY <1>1
  <2> QED BY <2>1, Zenon DEF AppendPrefix
<1> HIDE DEF a
<1>3. a \in Seq(Nat) /\ Len(a) = n
  BY <1>2, FunctionIsSeq
<1>4. BoundedPrefix(a, n, sum + x)
  BY <1>1, <1>3 DEF BoundedPrefix
<1> QED BY <1>4 DEF a

(* addTrade up to the expiry keeps ArrayInv.  A push that fills the        *)
(* window or overwrites leaves a rebuild pending.                          *)
LEMMA ArrayPush ==
  ASSUME NEW s \in Seq(Nat), NEW prefix \in Seq(Nat), NEW sum \in Nat,
         NEW lst \in Nat, NEW pending \in BOOLEAN,
         ArrayInv(s, prefix, sum, lst, pending),
         NEW n \in Nat, n > 0, Len(s) <= n, NEW x \in Nat
  PROVE  ArrayInv(PushBack(s, n, x),
                  AppendPrefix(prefix, Len(PushBack(s, n, x)), x),
                  sum + x, lst + Dropped(s, n),
                  pending \/ Len(PushBack(s, n, x)) = n)
<1> DEFINE w == PushBack(s, n, x)
           d == Dropped(s, n)
           a == AppendPrefix(prefix, Len(w), x)
<1>1. /\ Len(prefix) = Len(s) /\ sum = Total(s) + lst
      /\ \A i \in 1 .. Len(prefix) : prefix[i] <= sum
  BY DEF ArrayInv
<1>2. /\ w \in Seq(Nat) /\ d \in Nat
      /\ Len(w) = (IF Len(s) = n THEN n ELSE Len(s) + 1)
      /\ Total(w) + d = Total(s) + x
  <2>1. PushTotals(s, n, x)
    BY PushBackTotal
  <2> QED BY <2>1 DEF PushTotals
<1>3. Total(s) \in Nat /\ Total(w) \in Nat
  BY <1>2, TotalType
<1>4. sum + x = Total(w) + (lst + d)
  <2> DEFINE ts == Total(s)
             tw == Total(w)
  <2>1. sum = ts + lst
    BY <1>1
  <2>2. tw + d = ts + x /\ d \in Nat
    BY <1>2
  <2>3. ts \in Nat /\ tw \in Nat
    BY <1>3
  <2> HIDE DEF ts, tw, w, d
  <2>4. sum + x = tw + (lst + d)
    BY <2>1, <2>2, <2>3
  <2> QED BY <2>4 DEF tw
<1>5. Len(w) \in Nat /\ Len(w) > 0 /\ Len(w) - 1 <= Len(prefix)
  BY <1>1, <1>2
<1>6. /\ a \in Seq(Nat) /\ Len(a) = Len(w)
      /\ \A i \in 1 .. Len(w) : a[i] <= sum + x
  <2> DEFINE m == Len(w)
  <2>1. m \in Nat /\ m > 0 /\ m - 1 <= Len(prefix)
    BY <1>5
  <2> HIDE DEF m
  <2>2. BoundedPrefix(AppendPrefix(prefix, m, x), m, sum + x)
    BY <1>1, <2>1, AppendPrefixBounded
  <2> QED BY <2>2 DEF m, BoundedPrefix
<1>7. ASSUME ~ (pending \/ Len(w) = n) PROVE a = RebuildPrefix(w)
  <2>1. Len(s) # n /\ w = Append(s, x) /\ Len(w) = Len(s) + 1
    BY <1>1, <1>2, <1>7 DEF PushBack
  <2>2. prefix = RebuildPrefix(s)
    BY <1>7 DEF ArrayInv
  <2> HIDE DEF w
  <2> QED BY <1>1, <2>1, <2>2, AppendPrefixRebuilds
<1>8. lst + d \in Nat
  BY <1>1, <1>2
<1> HIDE DEF w, d, a
<1>9. ArrayInv(w, a, sum + x, lst + d, pending \/ Len(w) = n)
  BY <1>2, <1>4, <1>6, <1>7, <1>8 DEF ArrayInv
<1> QED BY <1>9 DEF w, d, a

(* The array removeExpiredTrades works on, after the rebuild if one is due *)
UpToDate(s, prefix, pending) == IF pending THEN RebuildPrefix(s) ELSE prefix

(* removeExpiredTrades keeps ArrayInv and leaves no rebuild pending. *)
LEMMA ArrayRemove ==
  ASSUME NEW s, NEW prefix, NEW sum, NEW lst, NEW pending \in BOOLEAN,
         ArrayInv(s, prefix, sum, lst, pending), NEW k \in 1 .. Len(s)
  PROVE  /\ ArrayInv(PopFrontN(s, k),
                     ShiftPrefix(UpToDate(s, prefix, pending), k),
                     sum - UpToDate(s, prefix, pending)[k], lst, FALSE)
         /\ UpToDate(s, prefix, pending)[k] \in Nat
<1> DEFINE t == PopFrontN(s, k)
<1>1. UpToDate(s, prefix, pending) = RebuildPrefix(s)
  BY DEF UpToDate, ArrayInv
<1>2. s \in Seq(Nat) /\ lst \in Nat /\ sum = Total(s) + lst
  BY DEF ArrayInv
<1>3. /\ t \in Seq(Nat) /\ Len(t) = Len(s) - k
      /\ ShiftPrefix(RebuildPrefix(s), k) = RebuildPrefix(t)
      /\ RebuildPrefix(s)[k] \in Nat
      /\ Total(s) = Total(t) + RebuildPrefix(s)[k]
  BY <1>2, ShiftPrefixRebuilds
<1> HIDE DEF t
<1>4. Total(t) \in Nat
  BY <1>3, TotalType
<1>5. sum - RebuildPrefix(s)[k] = Total(t) + lst
  <2> DEFINE x == RebuildPrefix(s)[k]
             ts == Total(s)
             tt == Total(t)
  <2>1. x \in Nat /\ tt \in Nat /\ lst \in Nat /\ ts = tt + x /\ sum = ts + lst
    BY <1>2, <1>3, <1>4
  <2> HIDE DEF x, ts, tt
  <2>2. sum - x = tt + lst
    BY <2>1
  <2> QED BY <2>2 DEF x, tt
<1>6. /\ RebuildPrefix(t) \in Seq(Nat) /\ Len(RebuildPrefix(t)) = Len(t)
      /\ \A i \in 1 .. Len(t) : RebuildPrefix(t)[i] <= Total(t)
  BY <1>3, RebuildPrefixType
<1>7. \A i \in 1 .. Len(t) : RebuildPrefix(t)[i] <= Total(t) + lst
  <2>1. ASSUME NEW i \in 1 .. Len(t) PROVE RebuildPrefix(t)[i] <= Total(t) + lst
    <3> DEFINE x == RebuildPrefix(t)[i]
               tt == Total(t)
    <3>1. x \in Nat
      <4>1. RebuildPrefix(t) \in Seq(Nat) /\ i \in 1 .. Len(RebuildPrefix(t))
        BY <1>6
      <4> QED BY ONLY <4>1
    <3>2. x <= tt /\ tt \in Nat /\ lst \in Nat
      BY <1>2, <1>4, <1>6
    <3> HIDE DEF x, tt
    <3>3. x <= tt + lst
      BY ONLY <3>1, <3>2
    <3> QED BY <3>3 DEF x, tt
  <2> QED BY <2>1
<1>8. ArrayInv(t, RebuildPrefix(t), Total(t) + lst, lst, FALSE)
  BY <1>2, <1>3, <1>6, <1>7 DEF ArrayInv
<1> QED BY <1>1, <1>3, <1>5, <1>8 DEF t

-----------------------------------------------------------------------------
(* The elements of w after a push of x on s that overwrote d of them *)
ElementsAfterPush(w, s, d, x) ==
  /\ Len(w) = Len(s) - d + 1
  /\ \A i \in 1 .. Len(s) - d : w[i] = s[i + d]
  /\ w[Len(s) - d + 1] = x

(* push_back leaves a sequence over the element set. *)
LEMMA PushBackElements ==
  ASSUME NEW S, NEW s \in Seq(S), NEW n \in Nat, n > 0, Len(s) <= n, NEW x \in S
  PROVE  /\ PushBack(s, n, x) \in Seq(S)
         /\ Len(s) = n => ElementsAfterPush(PushBack(s, n, x), s, 1, x)
         /\ Len(s) # n => ElementsAfterPush(PushBack(s, n, x), s, 0, x)
BY DEF PushBack, ElementsAfterPush

(* Popping the expired trades leaves a sequence over the element set. *)
LEMMA PopFrontNElements ==
  ASSUME NEW S, NEW s \in Seq(S), NEW k \in 1 .. Len(s)
  PROVE  /\ PopFrontN(s, k) \in Seq(S) /\ Len(PopFrontN(s, k)) = Len(s) - k
         /\ \A i \in 1 .. Len(s) - k : PopFrontN(s, k)[i] = s[i + k]
BY DEF PopFrontN

-----------------------------------------------------------------------------
(* Sequences put together and cut *)

(* The elements of a sequence that is put together *)
LEMMA JoinElements ==
  ASSUME NEW S, NEW s \in Seq(S), NEW t \in Seq(S)
  PROVE  /\ s \o t \in Seq(S) /\ Len(s \o t) = Len(s) + Len(t)
         /\ Len(s) \in Nat /\ Len(t) \in Nat
         /\ DOMAIN s = 1 .. Len(s) /\ DOMAIN t = 1 .. Len(t)
         /\ DOMAIN (s \o t) = 1 .. Len(s) + Len(t)
         /\ \A i \in 1 .. Len(s) : (s \o t)[i] = s[i]
         /\ \A i \in 1 .. Len(t) : (s \o t)[Len(s) + i] = t[i]
         /\ \A i \in Len(s) + 1 .. Len(s) + Len(t) : (s \o t)[i] = t[i - Len(s)]
OBVIOUS

(* The first n elements, the others, and the whole *)
LEMMA SplitAt ==
  ASSUME NEW S, NEW s \in Seq(S), NEW n \in 0 .. Len(s)
  PROVE  /\ SubSeq(s, 1, n) \in Seq(S) /\ Len(SubSeq(s, 1, n)) = n
         /\ SubSeq(s, n + 1, Len(s)) \in Seq(S)
         /\ Len(SubSeq(s, n + 1, Len(s))) = Len(s) - n
         /\ \A i \in 1 .. n : SubSeq(s, 1, n)[i] = s[i]
         /\ \A i \in 1 .. Len(s) - n : SubSeq(s, n + 1, Len(s))[i] = s[n + i]
         /\ SubSeq(s, 1, n) \o SubSeq(s, n + 1, Len(s)) = s
<1>1. /\ SubSeq(s, 1, n) \in Seq(S) /\ Len(SubSeq(s, 1, n)) = n
      /\ \A i \in 1 .. n : SubSeq(s, 1, n)[i] = s[i]
  OBVIOUS
<1>2. /\ SubSeq(s, n + 1, Len(s)) \in Seq(S)
      /\ Len(SubSeq(s, n + 1, Len(s))) = Len(s) - n
      /\ \A i \in 1 .. Len(s) - n : SubSeq(s, n + 1, Len(s))[i] = s[n + i]
  OBVIOUS
<1> DEFINE a == SubSeq(s, 1, n)
           b == SubSeq(s, n + 1, Len(s))
<1>3. a \o b = s
  <2>1. /\ a \in Seq(S) /\ b \in Seq(S) /\ Len(a) = n /\ Len(b) = Len(s) - n
        /\ \A i \in 1 .. n : a[i] = s[i]
        /\ \A i \in 1 .. Len(s) - n : b[i] = s[n + i]
    BY <1>1, <1>2
  <2> HIDE DEF a, b
  <2>2. /\ a \o b \in Seq(S) /\ Len(a \o b) = Len(s) /\ Len(s) \in Nat
        /\ \A i \in 1 .. n : (a \o b)[i] = a[i]
        /\ \A i \in n + 1 .. Len(s) : (a \o b)[i] = b[i - n]
    <3>1. Len(s) \in Nat /\ Len(a) + Len(b) = Len(s)
      BY <2>1
    <3> QED BY <2>1, <3>1, JoinElements
  <2>3. ASSUME NEW i \in 1 .. Len(s) PROVE (a \o b)[i] = s[i]
    <3>1. CASE i <= n
      BY <2>1, <2>2, <3>1
    <3>2. CASE i > n
      <4>1. i \in n + 1 .. Len(s) /\ i - n \in 1 .. Len(s) - n /\ n + (i - n) = i
        BY <2>2, <3>2
      <4> QED BY <2>1, <2>2, <4>1
    <3> QED BY <2>2, <3>1, <3>2
  <2> QED BY <2>2, <2>3, SeqEqual
<1> QED BY <1>1, <1>2, <1>3
=============================================================================
