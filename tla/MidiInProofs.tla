--------------------------- MODULE MidiInProofs ---------------------------
(***************************************************************************)
(* Proofs about MidiIn, for every session of well-formed messages, every   *)
(* bound on what is sent and lost, every size of the sysex buffer that     *)
(* holds a command, and every period of the clock; after them about        *)
(* RecallIn, the Select Bus parser on the same wire, and last about        *)
(* SelectBus, which keeps the module's own messages away from that parser. *)
(***************************************************************************)
EXTENDS MidiIn, RecallIn, SelectBus, FiniteSetTheorems, WellFoundedInduction, TLAPS

Byte == 0 .. 255
-----------------------------------------------------------------------------
(* Sequences.                                                              *)

LEMMA TailOf ==
  ASSUME NEW S, NEW s \in Seq(S), s # << >>
  PROVE  /\ Head(s) \in S /\ Head(s) = s[1]
         /\ Tail(s) \in Seq(S) /\ Len(Tail(s)) = Len(s) - 1
         /\ \A k \in 1 .. Len(s) - 1 : Tail(s)[k] = s[k + 1]
         /\ Len(s) \in Nat \ {0}
OBVIOUS

LEMMA AppendTo ==
  ASSUME NEW S, NEW s \in Seq(S), NEW e \in S
  PROVE  /\ Append(s, e) \in Seq(S) /\ Len(Append(s, e)) = Len(s) + 1
         /\ \A k \in 1 .. Len(s) : Append(s, e)[k] = s[k]
         /\ Append(s, e)[Len(s) + 1] = e
         /\ Len(s) \in Nat
OBVIOUS

\* A function on 1 .. n is a sequence.
LEMMA FunctionIsSeq ==
  ASSUME NEW S, NEW n \in Nat, NEW f \in [1 .. n -> S]
  PROVE  f \in Seq(S) /\ Len(f) = n
OBVIOUS

LEMMA Joined ==
  ASSUME NEW S, NEW s \in Seq(S), NEW u \in Seq(S)
  PROVE  /\ s \o u \in Seq(S) /\ Len(s \o u) = Len(s) + Len(u)
         /\ \A k \in 1 .. Len(s) : (s \o u)[k] = s[k]
         /\ \A k \in 1 .. Len(u) : (s \o u)[Len(s) + k] = u[k]
         /\ Len(s) \in Nat /\ Len(u) \in Nat
         /\ << >> \o s = s /\ s \o << >> = s
OBVIOUS

\* The first elements of a sequence.
LEMMA FirstOf ==
  ASSUME NEW S, NEW s \in Seq(S), NEW n \in 0 .. Len(s)
  PROVE  /\ SubSeq(s, 1, n) \in Seq(S) /\ Len(SubSeq(s, 1, n)) = n
         /\ \A k \in 1 .. n : SubSeq(s, 1, n)[k] = s[k]
OBVIOUS

LEMMA SeqEqual ==
  ASSUME NEW S, NEW s \in Seq(S), NEW u \in Seq(S), Len(s) = Len(u),
         \A k \in 1 .. Len(s) : s[k] = u[k]
  PROVE  s = u
OBVIOUS

LEMMA LongerPart ==
  ASSUME NEW S, NEW s \in Seq(S), NEW n \in 0 .. Len(s), n + 1 \in 0 .. Len(s)
  PROVE  /\ SubSeq(s, 1, n) \in Seq(S) /\ Len(SubSeq(s, 1, n)) = n
         /\ SubSeq(s, 1, n + 1) = Append(SubSeq(s, 1, n), s[n + 1])
<1>1. /\ SubSeq(s, 1, n) \in Seq(S) /\ Len(SubSeq(s, 1, n)) = n
      /\ \A k \in 1 .. n : SubSeq(s, 1, n)[k] = s[k]
  BY FirstOf
<1>2. /\ SubSeq(s, 1, n + 1) \in Seq(S) /\ Len(SubSeq(s, 1, n + 1)) = n + 1
      /\ \A k \in 1 .. n + 1 : SubSeq(s, 1, n + 1)[k] = s[k]
  <2>1. PICK m \in 0 .. Len(s) : m = n + 1
    OBVIOUS
  <2> QED
    BY <2>1, FirstOf
<1>3. s[n + 1] \in S
  OBVIOUS
<1>4. PICK u \in Seq(S) : u = Append(SubSeq(s, 1, n), s[n + 1])
  BY <1>1, <1>3, AppendTo
<1>5. /\ Len(u) = n + 1 /\ u[n + 1] = s[n + 1]
      /\ \A k \in 1 .. n : u[k] = s[k]
  BY <1>1, <1>3, <1>4, AppendTo
<1>6. \A k \in 1 .. n + 1 : SubSeq(s, 1, n + 1)[k] = u[k]
  BY <1>2, <1>5
<1> QED
  BY <1>1, <1>2, <1>4, <1>5, <1>6, SeqEqual

LEMMA TailOfTwo ==
  ASSUME NEW S, NEW s \in Seq(S), Len(s) = 2
  PROVE  Tail(s) \in Seq(S) /\ Len(Tail(s)) = 1 /\ Tail(s)[1] = s[2]
<1>1. s # << >>
  OBVIOUS
<1>2. Tail(s) \in Seq(S) /\ Len(Tail(s)) = 1
  BY <1>1
<1>3. Tail(s)[1] = s[1 + 1]
  BY <1>1
<1> QED
  BY <1>2, <1>3

LEMMA OneEqual ==
  ASSUME NEW S, NEW s \in Seq(S), NEW u \in Seq(S), Len(s) = 1, Len(u) = 1,
         s[1] = u[1]
  PROVE  s = u
OBVIOUS

LEMMA TwoEqual ==
  ASSUME NEW S, NEW s \in Seq(S), NEW u \in Seq(S), Len(s) = 2, Len(u) = 2,
         s[1] = u[1], s[2] = u[2]
  PROVE  s = u
OBVIOUS
-----------------------------------------------------------------------------
(* Induction.  The theorem of the library takes the formula to be proved   *)
(* as a parameter; this takes the set of the numbers it holds for.         *)

LEMMA LeastOf ==
  ASSUME NEW H \in SUBSET Nat, H # {}
  PROVE  \E n \in H : \A k \in H : n <= k
<1> DEFINE R == OpToRel(<, Nat)
<1>1. IsWellFoundedOn(R, Nat)
  BY NatLessThanWellFounded
<1>2. R = {ss \in Nat \X Nat : ss[1] < ss[2]}
  BY DEF OpToRel
<1> HIDE DEF R
<1>3. PICK n \in H : \A k \in H : <<k, n>> \notin R
  BY <1>1, WFMin
<1>4. ASSUME NEW k \in H PROVE ~(k < n)
  <2>1. <<k, n>> \in Nat \X Nat /\ <<k, n>> \notin R
    BY <1>3
  <2> QED
    BY <1>2, <2>1
<1>5. ASSUME NEW k \in H PROVE n <= k
  BY <1>4
<1> QED
  BY <1>5

LEMMA InductionOnNat ==
  ASSUME NEW H \in SUBSET Nat, 0 \in H, \A n \in H : n + 1 \in H
  PROVE  H = Nat
<1> SUFFICES ASSUME Nat \ H # {} PROVE FALSE
  OBVIOUS
<1>1. PICK n \in Nat \ H : \A k \in Nat \ H : n <= k
  BY LeastOf
<1>2. n - 1 \in Nat /\ n - 1 \notin Nat \ H
  BY <1>1
<1>3. (n - 1) + 1 \in H
  BY <1>2
<1> QED
  BY <1>1, <1>3

-----------------------------------------------------------------------------
(* Sequences joined one after the other, which the library defines by      *)
(* recursion on how many of them there are.                                *)

Joint(f, s, i) == IF i = 1 THEN s[i] ELSE f[i - 1] \o s[i]
AreJoints(f, s, n) == f = [i \in 1 .. n |-> Joint(f, s, i)]
Joints(s, n) == CHOOSE f : AreJoints(f, s, n)

LEMMA FlattenIsLast ==
  ASSUME NEW s, Len(s) # 0
  PROVE  FlattenSeq(s) = Joints(s, Len(s))[Len(s)]
BY Zenon DEF FlattenSeq, Joints, AreJoints, Joint

LEMMA JointsExist ==
  ASSUME NEW s, NEW k \in Nat
  PROVE  \E f : AreJoints(f, s, k)
<1> DEFINE H == {n \in Nat : \E f : AreJoints(f, s, n)}
<1>1. 0 \in H
  <2> DEFINE f == [i \in 1 .. 0 |-> s]
  <2>1. f = [i \in 1 .. 0 |-> Joint(f, s, i)]
    OBVIOUS
  <2> HIDE DEF f
  <2> QED
    BY <2>1 DEF AreJoints
<1>2. ASSUME NEW n \in H PROVE n + 1 \in H
  <2>1. PICK f : f = [i \in 1 .. n |-> Joint(f, s, i)]
    BY DEF AreJoints
  <2>0. n \in Nat
    OBVIOUS
  <2> DEFINE next == [i \in 1 .. n + 1 |-> Joint(f, s, i)]
  <2>2. ASSUME NEW i \in 1 .. n PROVE next[i] = f[i]
    <3>1. i \in 1 .. n + 1
      BY <2>0
    <3>2. f[i] = Joint(f, s, i)
      BY <2>1, Zenon
    <3> QED
      BY <3>1, <3>2, Zenon
  <2>3. ASSUME NEW i \in 1 .. n + 1 PROVE Joint(next, s, i) = Joint(f, s, i)
    <3> HIDE DEF next
    <3>1. CASE i = 1
      BY <3>1 DEF Joint
    <3>2. CASE i # 1
      <4>1. i - 1 \in 1 .. n
        BY <2>0, <3>2
      <4> QED
        BY <2>2, <4>1, Zenon DEF Joint
    <3> QED
      BY <3>1, <3>2
  <2>4. next = [i \in 1 .. n + 1 |-> Joint(next, s, i)]
    BY <2>3, Zenon
  <2> HIDE DEF next
  <2>5. \E g : AreJoints(g, s, n + 1)
    BY <2>4, Zenon DEF AreJoints
  <2> QED
    BY <2>0, <2>5
<1>3. H = Nat
  <2> HIDE DEF H
  <2>1. H \in SUBSET Nat
    BY DEF H
  <2> QED
    BY <1>1, <1>2, <2>1, InductionOnNat
<1> QED
  BY <1>3

LEMMA JointsUnfold ==
  ASSUME NEW s, NEW n \in Nat, NEW i \in 1 .. n
  PROVE  Joints(s, n)[i] = IF i = 1 THEN s[i] ELSE Joints(s, n)[i - 1] \o s[i]
<1>1. AreJoints(Joints(s, n), s, n)
  BY JointsExist, Zenon DEF Joints
<1>2. Joints(s, n) = [j \in 1 .. n |-> Joint(Joints(s, n), s, j)]
  BY <1>1, Zenon DEF AreJoints
<1> QED
  BY <1>2, Zenon DEF Joint

\* They are sequences, and the same for all that begin alike.
BeginAlike(S, n, s, t) == \A i \in 1 .. n : s[i] \in Seq(S) /\ t[i] = s[i]

LEMMA JointsAgree ==
  ASSUME NEW S, NEW n \in Nat, NEW m \in Nat, n <= m, NEW s, NEW t,
         BeginAlike(S, n, s, t), NEW k \in 1 .. n
  PROVE  Joints(s, n)[k] \in Seq(S) /\ Joints(t, m)[k] = Joints(s, n)[k]
<1> DEFINE Good(i) == /\ Joints(s, n)[i] \in Seq(S)
                      /\ Joints(t, m)[i] = Joints(s, n)[i]
           H == {i \in Nat : i + 1 \in 1 .. n => Good(i + 1)}
<1>1. 0 \in H
  <2> SUFFICES ASSUME 1 \in 1 .. n PROVE Good(1)
    OBVIOUS
  <2>1. 1 \in 1 .. m
    OBVIOUS
  <2> QED
    BY <2>1, JointsUnfold DEF BeginAlike
<1>2. ASSUME NEW i \in H PROVE i + 1 \in H
  <2> SUFFICES ASSUME i + 2 \in 1 .. n PROVE Good(i + 2)
    OBVIOUS
  <2>1. i \in Nat /\ i + 1 \in 1 .. n /\ i + 2 \in 1 .. m /\ i + 2 # 1
        /\ (i + 2) - 1 = i + 1
    OBVIOUS
  <2>2. Good(i + 1)
    BY <2>1
  <2>3. /\ Joints(s, n)[i + 2] = Joints(s, n)[i + 1] \o s[i + 2]
        /\ Joints(t, m)[i + 2] = Joints(t, m)[i + 1] \o t[i + 2]
    <3>1. PICK j \in 1 .. n : j = i + 2 /\ j \in 1 .. m
      BY <2>1
    <3>2. /\ Joints(s, n)[j] = IF j = 1 THEN s[j] ELSE Joints(s, n)[j - 1] \o s[j]
          /\ Joints(t, m)[j] = IF j = 1 THEN t[j] ELSE Joints(t, m)[j - 1] \o t[j]
      BY <3>1, JointsUnfold
    <3> QED
      BY <2>1, <3>1, <3>2
  <2>4. s[i + 2] \in Seq(S) /\ t[i + 2] = s[i + 2]
    BY DEF BeginAlike
  <2> QED
    BY <2>2, <2>3, <2>4, Joined
<1>3. H = Nat
  <2> HIDE DEF H
  <2>1. H \in SUBSET Nat
    BY DEF H
  <2> QED
    BY <1>1, <1>2, <2>1, InductionOnNat
<1>4. PICK i \in Nat : k = i + 1
  <2>1. k - 1 \in Nat /\ k = (k - 1) + 1
    OBVIOUS
  <2> QED
    BY <2>1
<1>5. i \in H
  BY <1>3
<1> QED
  BY <1>4, <1>5

\* One more sequence is joined at the end.
LEMMA FlattenNext ==
  ASSUME NEW S, NEW n \in Nat, NEW s \in [1 .. n -> Seq(S)],
         NEW t \in [1 .. n + 1 -> Seq(S)], \A i \in 1 .. n : t[i] = s[i]
  PROVE  /\ FlattenSeq(s) \in Seq(S)
         /\ FlattenSeq(t) = FlattenSeq(s) \o t[n + 1]
<1>1. Len(s) = n /\ Len(t) = n + 1
  BY FunctionIsSeq
<1>2. t[n + 1] \in Seq(S)
  OBVIOUS
<1>3. FlattenSeq(t) = Joints(t, n + 1)[n + 1]
  BY <1>1, FlattenIsLast
<1>4. Joints(t, n + 1)[n + 1]
        = IF n + 1 = 1 THEN t[n + 1] ELSE Joints(t, n + 1)[(n + 1) - 1] \o t[n + 1]
  <2>1. n + 1 \in Nat /\ n + 1 \in 1 .. n + 1
    OBVIOUS
  <2> QED
    BY <2>1, JointsUnfold
<1>5. CASE n = 0
  <2>1. FlattenSeq(s) = s /\ s = << >>
    BY <1>1, <1>5 DEF FlattenSeq
  <2> QED
    BY <1>2, <1>3, <1>4, <1>5, <2>1, Joined
<1>6. CASE n # 0
  <2>1. FlattenSeq(s) = Joints(s, n)[n]
    BY <1>1, <1>6, FlattenIsLast
  <2>2. n \in 1 .. n /\ n + 1 # 1 /\ (n + 1) - 1 = n /\ n <= n + 1 /\ n + 1 \in Nat
    BY <1>6
  <2>3. Joints(s, n)[n] \in Seq(S) /\ Joints(t, n + 1)[n] = Joints(s, n)[n]
    <3>1. BeginAlike(S, n, s, t)
      BY DEF BeginAlike
    <3>2. PICK m \in Nat : m = n + 1 /\ n <= m
      BY <2>2
    <3>3. n \in Nat /\ n \in 1 .. n
      BY <2>2
    <3>5. n <= m /\ m \in Nat
      BY <3>2
    <3>4. Joints(s, n)[n] \in Seq(S) /\ Joints(t, m)[n] = Joints(s, n)[n]
      <4>1. Joints(s, n)[n] \in Seq(S)
        BY <3>1, <3>3, <3>5, JointsAgree
      <4>2. Joints(t, m)[n] = Joints(s, n)[n]
        BY <3>1, <3>3, <3>5, JointsAgree
      <4> QED
        BY <4>1, <4>2
    <3> QED
      BY <3>2, <3>4
  <2> QED
    BY <1>3, <1>4, <2>1, <2>2, <2>3
<1> QED
  BY <1>5, <1>6
-----------------------------------------------------------------------------
(* Arithmetic of the remainder.                                            *)

LEMMA Remainder ==
  ASSUME NEW P \in Nat, P > 0, NEW x \in Int, NEW q \in Int, NEW r \in Int,
         x = P * q + r, 0 <= r, r < P
  PROVE  x % P = r
BY Z3

LEMMA NextRemainder ==
  ASSUME NEW P \in Nat, P > 0, NEW x \in Int, NEW y \in Int, y = x + 1,
         NEW q \in Int, NEW r \in Int, x = P * q + r, 0 <= r, r < P
  PROVE  y % P = IF r + 1 = P THEN 0 ELSE r + 1
<1>1. CASE r + 1 = P
  <2>1. PICK t \in Int, z \in Int : t = q + 1 /\ z = 0
    OBVIOUS
  <2>2. y = P * t + z /\ 0 <= z /\ z < P
    BY <1>1, <2>1
  <2>3. y % P = z
    BY ONLY P \in Nat, P > 0, y \in Int, t \in Int, z \in Int, <2>2, Remainder
  <2> QED
    BY <1>1, <2>1, <2>3
<1>2. CASE r + 1 # P
  <2>1. PICK t \in Int : t = r + 1
    OBVIOUS
  <2>2. y = P * q + t /\ 0 <= t /\ t < P
    BY <1>2, <2>1
  <2>3. y % P = t
    BY ONLY P \in Nat, P > 0, y \in Int, q \in Int, t \in Int, <2>2, Remainder
  <2> QED
    BY <1>2, <2>1, <2>3
<1> QED
  BY <1>1, <1>2

\* A counter that wraps counts modulo its cycle.
LEMMA CountModulo ==
  ASSUME NEW P \in Nat, P > 0, NEW x \in Nat
  PROVE  /\ (x + 1) % P = ((x % P) + 1) % P
         /\ 0 % P = 0
<1>1. x \div P \in Int /\ x = (P * (x \div P)) + (x % P) /\ x % P \in 0 .. P - 1
  OBVIOUS
<1>2. PICK q \in Int, r \in 0 .. P - 1, y \in Int, z \in Int :
        x = (P * q) + r /\ r = x % P /\ y = x + 1 /\ z = r + 1
  BY <1>1
<1>3. y % P = IF r + 1 = P THEN 0 ELSE r + 1
  BY <1>2, NextRemainder
<1>4. z % P = IF r + 1 = P THEN 0 ELSE r + 1
  <2>1. r = (P * 0) + r
    BY <1>2
  <2> QED
    BY <1>2, <2>1, NextRemainder
<1> QED
  BY <1>2, <1>3, <1>4
-----------------------------------------------------------------------------
(* The clock.                                                              *)

\* What ClocksSince counts, of any real-time bytes.
ClocksIn(rt, i) == Cardinality({j \in i .. Len(rt) : rt[j] = ClockByte})

LEMMA ClocksCounted ==
  ASSUME NEW rt \in Seq(Byte), NEW i \in 1 .. Len(rt) + 1, NEW b \in Byte
  PROVE  /\ ClocksIn(rt, i) \in Nat
         /\ ClocksIn(Append(rt, b), i)
              = IF b = ClockByte THEN ClocksIn(rt, i) + 1 ELSE ClocksIn(rt, i)
<1> DEFINE n == Len(rt)
           now == {j \in i .. n : rt[j] = ClockByte}
           then == {j \in i .. Len(Append(rt, b)) : Append(rt, b)[j] = ClockByte}
<1>1. n \in Nat /\ Len(Append(rt, b)) = n + 1 /\ Append(rt, b)[n + 1] = b
      /\ \A j \in 1 .. n : Append(rt, b)[j] = rt[j]
  BY AppendTo
<1>2. IsFiniteSet(now) /\ n + 1 \notin now
  <2>1. IsFiniteSet(i .. n) /\ now \in SUBSET (i .. n)
    BY <1>1, FS_Interval
  <2> QED
    BY <1>1, <2>1, FS_Subset
<1>3. then = IF b = ClockByte THEN now \cup {n + 1} ELSE now
  BY <1>1
<1> HIDE DEF now, then
<1>4. Cardinality(now) \in Nat
  BY <1>2, FS_CardinalityType
<1>5. Cardinality(now \cup {n + 1}) = Cardinality(now) + 1
  BY <1>2, FS_AddElement
<1> QED
  BY <1>3, <1>4, <1>5 DEF ClocksIn, now, then

\* The counter, and the flag that the next clock is to be the first one,
\* by the last Start there has been.
LastStart(m) ==
  /\ realTime[m] = StartByte
  /\ \A j \in m + 1 .. Len(realTime) : realTime[j] # StartByte

ClockInv ==
  \/ /\ \A j \in 1 .. Len(realTime) : realTime[j] # StartByte
     /\ firstMidiClock = FALSE
     /\ masterMIDIClockCounter = ClocksIn(realTime, 1) % ClockPeriod
  \/ \E m \in 1 .. Len(realTime) :
       /\ LastStart(m)
       /\ firstMidiClock = (ClocksIn(realTime, m) = 0)
       /\ ClocksIn(realTime, m) > 0 =>
            masterMIDIClockCounter = (ClocksIn(realTime, m) - 1) % ClockPeriod

RealTimeOK ==
  /\ session \in Session
  /\ realTime \in Seq(Byte)
  /\ masterMIDIClockCounter \in Nat

LEMMA ClockTold ==
  ASSUME RealTimeOK, ClockInv
  PROVE  ClockInStep
<1> DEFINE starts == {i \in 1 .. Len(realTime) : realTime[i] = StartByte}
<1>1. \A i : ClocksSince(i) = ClocksIn(realTime, i)
  BY DEF ClocksSince, ClocksIn
<1>2. CASE starts = {}
  <2>1. ~ \E m \in 1 .. Len(realTime) : LastStart(m)
    BY <1>2 DEF LastStart
  <2> QED
    BY <1>1, <1>2, <2>1 DEF ClockInv, ClockInStep
<1>3. CASE starts # {}
  <2>1. PICK m \in 1 .. Len(realTime) :
          /\ LastStart(m)
          /\ ClocksIn(realTime, m) > 0 =>
               masterMIDIClockCounter = (ClocksIn(realTime, m) - 1) % ClockPeriod
    BY <1>3 DEF ClockInv
  <2>2. m \in starts /\ \A j \in starts : m >= j
    BY <2>1 DEF LastStart, RealTimeOK
  <2>3. Max(starts) \in starts /\ \A j \in starts : Max(starts) >= j
    BY <2>2, Zenon DEF Max
  <2>4. Max(starts) = m
    BY <2>2, <2>3
  <2> HIDE DEF starts
  <2> QED
    BY <1>1, <1>3, <2>1, <2>4, Zenon DEF ClockInStep, starts
<1> QED
  BY <1>2, <1>3

\* The counter is told of each of the sender's real-time bytes.
LEMMA ClockStep ==
  ASSUME NEW b, b \in session.realTime, RealTimeOK, ClockInv, ReceiveRealTime(b)
  PROVE  RealTimeOK' /\ ClockInv'
<1>0. PICK n \in Nat : n = Len(realTime)
  BY DEF RealTimeOK
<1>b. b \in Byte /\ StartByte \in Byte /\ ClockByte \in Byte /\ StartByte # ClockByte
  <2>1. session \in Session
    BY DEF RealTimeOK
  <2> QED
    BY <2>1, SessionAssumption DEF StartByte, ClockByte, Byte
<1>p. ClockPeriod \in Nat /\ ClockPeriod > 0
  BY MidiInAssumption
<1>1. /\ realTime' = Append(realTime, b) /\ session' = session
      /\ realTime \in Seq(Byte)
  BY DEF ReceiveRealTime, RealTimeSent, RealTimeOK
<1>2. /\ n \in Nat /\ Len(realTime') = n + 1 /\ realTime'[n + 1] = b
      /\ \A j \in 1 .. n : realTime'[j] = realTime[j]
      /\ realTime' \in Seq(Byte)
  BY <1>0, <1>b, <1>1, AppendTo
<1>3. \A i \in 1 .. n + 1 :
        /\ ClocksIn(realTime, i) \in Nat
        /\ ClocksIn(realTime', i)
             = IF b = ClockByte THEN ClocksIn(realTime, i) + 1 ELSE ClocksIn(realTime, i)
  BY <1>0, <1>b, <1>1, ClocksCounted
<1>4. \A x \in Nat : (x + 1) % ClockPeriod = ((x % ClockPeriod) + 1) % ClockPeriod
                    /\ 0 % ClockPeriod = 0 /\ x % ClockPeriod \in Nat
  BY <1>p, CountModulo
<1>5. RealTimeHandler(b)
  BY DEF ReceiveRealTime
<1>6. CASE b = StartByte
  <2>1. firstMidiClock' = TRUE /\ masterMIDIClockCounter' = masterMIDIClockCounter
    BY <1>b, <1>5, <1>6 DEF RealTimeHandler
  <2>2. ClocksIn(realTime', n + 1) = 0
    <3>1. {j \in n + 1 .. Len(realTime') : realTime'[j] = ClockByte} = {}
      BY <1>0, <1>b, <1>2, <1>6
    <3> QED
      BY <3>1, FS_EmptySet DEF ClocksIn
  <2>3. LastStart(n + 1)'
    BY <1>0, <1>b, <1>2, <1>6 DEF LastStart
  <2>4. firstMidiClock' = (ClocksIn(realTime', n + 1) = 0)
    BY <2>1, <2>2, Zenon
  <2>7. ~(ClocksIn(realTime', n + 1) > 0)
    BY <2>2
  <2>5. n + 1 \in 1 .. Len(realTime')
    BY <1>2
  <2>6. ClockInv'
    BY <2>3, <2>4, <2>5, <2>7, Zenon DEF ClockInv
  <2> QED
    BY <1>1, <1>2, <2>1, <2>6 DEF RealTimeOK
<1>7. CASE b # StartByte
  <2>1. \A m \in 1 .. n : LastStart(m) => LastStart(m)'
    BY <1>0, <1>2, <1>7 DEF LastStart
  <2>2. CASE b # ClockByte
    <3>1. UNCHANGED clock
      BY <1>5, <1>7, <2>2 DEF RealTimeHandler
    <3> QED
      BY <1>0, <1>1, <1>2, <1>3, <1>7, <2>1, <2>2, <3>1 DEF ClockInv, RealTimeOK, clock
  <2>3. CASE b = ClockByte
    <3>1. CASE \A j \in 1 .. n : realTime[j] # StartByte
      <4>1. /\ firstMidiClock = FALSE
            /\ masterMIDIClockCounter = ClocksIn(realTime, 1) % ClockPeriod
        BY <1>0, <1>2, <3>1 DEF ClockInv, LastStart
      <4>2. /\ firstMidiClock' = FALSE
            /\ masterMIDIClockCounter' = (masterMIDIClockCounter + 1) % ClockPeriod
        BY <1>0, <1>b, <1>5, <2>3, <4>1 DEF RealTimeHandler
      <4>3. ClocksIn(realTime, 1) \in Nat
            /\ ClocksIn(realTime', 1) = ClocksIn(realTime, 1) + 1
        BY <1>2, <1>3, <2>3
      <4>4. masterMIDIClockCounter' = ClocksIn(realTime', 1) % ClockPeriod
            /\ masterMIDIClockCounter' \in Nat
        BY <1>4, <4>1, <4>2, <4>3
      <4>5. \A j \in 1 .. n + 1 : realTime'[j] # StartByte
        BY <1>0, <1>2, <1>7, <3>1
      <4> QED
        BY <1>0, <1>1, <1>2, <4>2, <4>4, <4>5 DEF ClockInv, RealTimeOK
    <3>2. CASE \E m \in 1 .. n : realTime[m] = StartByte
      <4>1. PICK m \in 1 .. n :
              /\ LastStart(m)
              /\ firstMidiClock = (ClocksIn(realTime, m) = 0)
              /\ ClocksIn(realTime, m) > 0 =>
                   masterMIDIClockCounter = (ClocksIn(realTime, m) - 1) % ClockPeriod
        BY <1>0, <3>2 DEF ClockInv
      <4>2. ClocksIn(realTime, m) \in Nat
            /\ ClocksIn(realTime', m) = ClocksIn(realTime, m) + 1
        BY <1>2, <1>3, <2>3
      <4>3. firstMidiClock' = FALSE
        BY <1>0, <1>b, <1>5, <2>3, <4>1 DEF RealTimeHandler, clock
      <4>4. masterMIDIClockCounter' = ClocksIn(realTime, m) % ClockPeriod
            /\ masterMIDIClockCounter' \in Nat
        <5>1. CASE ClocksIn(realTime, m) = 0
          <6>1. masterMIDIClockCounter' = 0
            BY <1>0, <1>b, <1>5, <2>3, <4>1, <5>1 DEF RealTimeHandler
          <6> QED
            BY <1>4, <5>1, <6>1
        <5>2. CASE ClocksIn(realTime, m) # 0
          <6>1. masterMIDIClockCounter' = (masterMIDIClockCounter + 1) % ClockPeriod
            BY <1>0, <1>b, <1>5, <2>3, <4>1, <5>2 DEF RealTimeHandler
          <6>2. PICK x \in Nat : ClocksIn(realTime, m) = x + 1
            <7>1. PICK c \in Nat : c = ClocksIn(realTime, m) /\ c # 0
              BY <4>2, <5>2
            <7>2. c - 1 \in Nat /\ c = (c - 1) + 1
              BY <7>1
            <7> QED
              BY <7>1, <7>2
          <6>3. masterMIDIClockCounter = x % ClockPeriod
            BY <4>1, <6>2
          <6> QED
            BY <1>4, <6>1, <6>2, <6>3
        <5> QED
          BY <5>1, <5>2
      <4>5. m \in 1 .. n + 1 /\ LastStart(m)'
        BY <1>0, <1>2, <2>1, <4>1
      <4>6. ClocksIn(realTime', m) - 1 = ClocksIn(realTime, m)
            /\ ClocksIn(realTime', m) # 0
        BY <4>2
      <4> QED
        BY <1>0, <1>1, <1>2, <4>3, <4>4, <4>5, <4>6 DEF ClockInv, RealTimeOK
    <3> QED
      BY <3>1, <3>2
  <2> QED
    BY <2>2, <2>3
<1> QED
  BY <1>6, <1>7

\* The master clock is in step with the sender's (ClockInStep), whatever
\* messages it interrupts and whatever the line loses of them: what is
\* inductive is where the clocks since the last Start have brought the
\* counter, and that the flag is up as long as there have been none.
THEOREM ClockFollows == Spec => []ClockInStep
<1>1. Init => RealTimeOK /\ ClockInv
  <2> SUFFICES ASSUME Init PROVE RealTimeOK /\ ClockInv
    OBVIOUS
  <2>1. /\ session \in Session /\ realTime = << >>
        /\ firstMidiClock = FALSE /\ masterMIDIClockCounter = 0
    BY DEF Init, WireInit
  <2>2. realTime \in Seq(Byte) /\ Len(realTime) = 0
    BY <2>1
  <2>3. ClocksIn(realTime, 1) = 0
    <3>1. {j \in 1 .. Len(realTime) : realTime[j] = ClockByte} = {}
      BY <2>2
    <3> QED
      BY <3>1, FS_EmptySet DEF ClocksIn
  <2>4. 0 % ClockPeriod = 0
    BY MidiInAssumption
  <2> QED
    BY <2>1, <2>2, <2>3, <2>4 DEF RealTimeOK, ClockInv
<1>2. RealTimeOK /\ ClockInv /\ [Next]_vars => RealTimeOK' /\ ClockInv'
  <2> SUFFICES ASSUME RealTimeOK, ClockInv, [Next]_vars
               PROVE  RealTimeOK' /\ ClockInv'
    OBVIOUS
  <2>1. CASE \E b \in session.realTime : ReceiveRealTime(b)
    BY <2>1, ClockStep
  <2>2. CASE UNCHANGED <<session, realTime, clock>>
    BY <2>2 DEF RealTimeOK, ClockInv, ClocksIn, LastStart, clock
  <2>3. \A m : Begin(m) /\ UNCHANGED clock => UNCHANGED <<session, realTime, clock>>
    BY DEF Begin
  <2>4. ByteLost /\ UNCHANGED clock => UNCHANGED <<session, realTime, clock>>
    BY DEF ByteLost, NextByte
  <2>5. Receive => UNCHANGED <<session, realTime, clock>>
    BY DEF Receive, ByteSent, NextByte
  <2>6. UNCHANGED vars => UNCHANGED <<session, realTime, clock>>
    BY DEF vars, wireVars
  <2> QED
    BY <2>1, <2>2, <2>3, <2>4, <2>5, <2>6 DEF Next
<1> QED
  BY <1>1, <1>2, ClockTold, PTL DEF Spec
-----------------------------------------------------------------------------
(* The parser and the message on the wire.                                 *)

States == {"idle", "want1of1", "want1of2", "want2", "sysex"}
Channel == 0 .. 15
Message == [1 .. 2 -> Byte]
Data == Seq(Byte) \ {<< >>}
CallType == [status : Byte, channel : Channel, message : Data]
NoCall == {<< >>}
ParserType(Done) ==
  [state : States, sStatus : Byte, sChannel : Channel, sMessage : Message,
   sysex : Seq(Byte), done : Done]

\* It only waits for data that the status it remembers has.
Coherent(p) ==
  /\ p \in ParserType(NoCall)
  /\ p.state = "want1of1" => p.sStatus \in OneByteStatus
  /\ p.state \in {"want1of2", "want2"} => p.sStatus \in TwoByteStatus

Current == sent[Len(sent)]
Read == Len(Current) - Len(todo)

WireOK ==
  /\ session \in Session
  /\ sent \in Seq(Seq(Byte)) /\ \A i \in 1 .. Len(sent) : WellFormed(sent[i])
  /\ todo \in Seq(Byte)
  /\ todo # << >> =>
       /\ sent # << >> /\ Len(todo) <= Len(Current)
       /\ \A i \in 1 .. Len(todo) : todo[i] = Current[Read + i]
  /\ running = IF sent # << >> /\ Voice(Current) THEN Current[1] ELSE 0
  /\ ranOn \in BOOLEAN /\ lost \in Nat /\ steadied \in Nat \cup {-1}

\* A status byte is not taken for data.
Fresh(p) == p.state \in {"idle", "sysex"}

Remembers(p, b) ==
  p.state = "idle" /\ p.sStatus = HighNibble(b) /\ p.sChannel = LowNibble(b)

\* It has read the first k bytes of m, not all, and taken them for that; it
\* may know the status from the message before.
InPlace(p, m, k) ==
  CASE Voice(m) ->
         /\ p.sStatus = HighNibble(m[1]) /\ p.sChannel = LowNibble(m[1])
         /\ IF k = 1 THEN p.state \in {"idle", Wanted(p)}
            ELSE p.state = "want2" /\ p.sMessage[1] = m[2]
    [] m[1] = SysExStart ->
         /\ p.state = "sysex"
         /\ p.sysex = SubSeq(m, 1, IF k < kMaxSysex THEN k ELSE kMaxSysex)
    [] OTHER -> p.state = "idle" /\ p.sStatus = \hF0 /\ p.sChannel # 0

\* What the message on the wire is still to lead to.
Owed == IF todo = << >> THEN << >> ELSE Expected(Current)

DeliveredInv ==
  lost = 0 =>
    /\ MadeCalls \o Owed = ExpectedCalls
    /\ IF todo = << >>
       THEN Fresh(parser) /\ (running # 0 => Remembers(parser, running))
       ELSE IF Read = 0 THEN Fresh(parser) ELSE InPlace(parser, Current, Read)

\* How far from a status the parser may be between two messages, when n of
\* two data bytes have been received whole since a byte was lost.
NotFar(p, n) ==
  /\ n = 1 => p.state # "want1of2"
  /\ n > 1 => Fresh(p)

\* It takes the bytes of m, of which it has read k, for data of another
\* message.
OutOfPlace(p, m, k, n) ==
  /\ n \in {0, 1}
  /\ p.state \in {"idle", "want2"}
  /\ p.sStatus \in OneByteStatus \cup TwoByteStatus
  /\ TwoData(m) /\ n = 1 =>
       /\ k = 1 => p.state = "idle"
       /\ k = 2 => p.state = "want2" \/ p.sStatus \in OneByteStatus

BackInv ==
  ~ranOn /\ steadied >= 0 =>
    IF todo = << >> \/ Read = 0 THEN NotFar(parser, steadied)
    ELSE \/ InPlace(parser, Current, Read)
         \/ OutOfPlace(parser, Current, Read, steadied)

Inv ==
  /\ WireOK /\ Coherent(parser) /\ calls \in Seq(CallType)
  /\ DeliveredInv /\ BackInv /\ DeliversAgain
-----------------------------------------------------------------------------
(* What each state of the parser makes of a byte.                          *)

\* A record that is changed keeps its other fields.
LEMMA SetState ==
  ASSUME NEW D, NEW p \in ParserType(D), NEW st \in States
  PROVE  LET q == [p EXCEPT !.state = st]
         IN  /\ q \in ParserType(D)
             /\ q.state = st /\ q.sysex = p.sysex /\ q.done = p.done
             /\ q.sStatus = p.sStatus /\ q.sChannel = p.sChannel /\ q.sMessage = p.sMessage
BY DEF ParserType

LEMMA SetSysex ==
  ASSUME NEW D, NEW p \in ParserType(D), NEW sx \in Seq(Byte)
  PROVE  LET q == [p EXCEPT !.sysex = sx]
         IN  /\ q \in ParserType(D)
             /\ q.state = p.state /\ q.sysex = sx /\ q.done = p.done
             /\ q.sStatus = p.sStatus /\ q.sChannel = p.sChannel /\ q.sMessage = p.sMessage
BY DEF ParserType

LEMMA SetStateSysex ==
  ASSUME NEW D, NEW p \in ParserType(D), NEW st \in States,
         NEW sx \in Seq(Byte)
  PROVE  LET q == [p EXCEPT !.state = st, !.sysex = sx]
         IN  /\ q \in ParserType(D)
             /\ q.state = st /\ q.sysex = sx /\ q.done = p.done
             /\ q.sStatus = p.sStatus /\ q.sChannel = p.sChannel /\ q.sMessage = p.sMessage
BY DEF ParserType

\* A message with one byte changed.
LEMMA MessageSet ==
  ASSUME NEW D, NEW p \in ParserType(D), NEW b \in Byte, NEW i \in {1, 2}
  PROVE  LET m == [p.sMessage EXCEPT ![i] = b]
         IN  /\ m \in Message /\ m[i] = b /\ m[3 - i] = p.sMessage[3 - i]
             /\ [p EXCEPT !.sMessage[i] = b] = [p EXCEPT !.sMessage = m]
             /\ \A st \in States :
                  [p EXCEPT !.sMessage[i] = b, !.state = st]
                    = [p EXCEPT !.sMessage = m, !.state = st]
<1>1. p.sMessage \in [1 .. 2 -> Byte]
  BY DEF ParserType, Message
<1>2. [p.sMessage EXCEPT ![i] = b] \in [1 .. 2 -> Byte]
      /\ [p.sMessage EXCEPT ![i] = b][i] = b
      /\ [p.sMessage EXCEPT ![i] = b][3 - i] = p.sMessage[3 - i]
  BY <1>1
<1> QED
  BY <1>2 DEF ParserType, Message

LEMMA Nibbles ==
  ASSUME NEW b \in Byte
  PROVE  /\ HighNibble(b) \in Byte /\ LowNibble(b) \in Channel
         /\ HighNibble(b) + LowNibble(b) = b
         /\ b >= \h80 => HighNibble(b) \in {\h80, \h90, \hA0, \hB0, \hC0, \hD0, \hE0, \hF0}
         /\ b >= \hF0 => HighNibble(b) = \hF0 /\ LowNibble(b) = b - \hF0
         /\ b < \hF0 => HighNibble(b) # \hF0
         /\ b < \h80 => HighNibble(b) < \h80
BY DEF Byte, Channel, HighNibble, LowNibble

\* What a status, which its two nibbles make, has the parser wait for.
After(s, c) ==
  IF s \in TwoByteStatus THEN "want1of2"
  ELSE IF s \in OneByteStatus THEN "want1of1"
  ELSE IF s = \hF0 /\ c = 0 THEN "sysex"
  ELSE "idle"

LEMMA StatusTaken ==
  ASSUME NEW p, Coherent(p), NEW b \in Byte, IsStatus(b),
         p.state = "idle" \/ (p.state = "sysex" /\ b # SysExEnd)
  PROVE  LET q == Parser!ProcessMIDI(p, b)
             s == HighNibble(b)
             c == LowNibble(b)
         IN  /\ q \in ParserType(NoCall)
             /\ q.state = After(s, c) /\ q.sStatus = s /\ q.sChannel = c
             /\ q.state = "sysex" => q.sysex = <<b>>
<1> DEFINE s == HighNibble(b)
           c == LowNibble(b)
<1>1. s \in Byte /\ c \in Channel
  BY Nibbles
<1>2. ASSUME NEW r \in ParserType(NoCall)
      PROVE  LET q == Enter([r EXCEPT !.sStatus = s, !.sChannel = c], b)
             IN  /\ q \in ParserType(NoCall)
                 /\ q.state = After(s, c) /\ q.sStatus = s /\ q.sChannel = c
                 /\ q.state = "sysex" => q.sysex = <<b>>
  <2> DEFINE u == [r EXCEPT !.sStatus = s, !.sChannel = c]
  <2>1. u \in ParserType(NoCall) /\ u.sStatus = s /\ u.sChannel = c
    BY <1>1, <1>2 DEF ParserType
  <2>2. Wanted(u) = After(s, c) /\ Wanted(u) \in States
    BY <2>1 DEF Wanted, After, States
  <2>3. <<b>> \in Seq(Byte)
    OBVIOUS
  <2> HIDE DEF u, s, c
  <2>4. Enter(u, b) = [u EXCEPT !.state = After(s, c),
                                !.sysex = IF After(s, c) = "sysex" THEN <<b>> ELSE @]
    BY <2>2 DEF Enter
  <2>5. PICK sx \in Seq(Byte) : sx = IF After(s, c) = "sysex" THEN <<b>> ELSE u.sysex
    BY <2>1, <2>3 DEF ParserType
  <2>6. PICK st \in States : st = After(s, c)
    BY <2>2
  <2>7. Enter(u, b) = [u EXCEPT !.state = st, !.sysex = sx]
    BY <2>4, <2>5, <2>6
  <2>8. LET q == [u EXCEPT !.state = st, !.sysex = sx]
        IN  /\ q \in ParserType(NoCall)
            /\ q.state = st /\ q.sysex = sx /\ q.sStatus = u.sStatus /\ q.sChannel = u.sChannel
    BY <2>1, SetStateSysex DEF ParserType
  <2>9. LET q == Enter(u, b)
        IN  /\ q \in ParserType(NoCall)
            /\ q.state = After(s, c) /\ q.sStatus = s /\ q.sChannel = c
            /\ q.state = "sysex" => q.sysex = <<b>>
    BY <2>1, <2>5, <2>6, <2>7, <2>8
  <2> QED
    BY <2>9 DEF u
<1>3. CASE p.state = "idle"
  <2>1. Parser!ProcessMIDI(p, b) = Enter([p EXCEPT !.sStatus = s, !.sChannel = c], b)
    BY <1>3 DEF Parser!ProcessMIDI, Parser!ProcessStatus, Parser!StatusByte,
         Parser!IsStatus, IsStatus, Parser!HighNibble, HighNibble,
         Parser!LowNibble, LowNibble
  <2> QED
    BY <1>2, <2>1 DEF Coherent
<1>4. CASE p.state = "sysex" /\ b # SysExEnd
  <2> DEFINE kept == Parser!Keep(p, b)
             over == [kept EXCEPT !.state = "idle"]
  <2>1. kept \in ParserType(NoCall)
    <3>1. p \in ParserType(NoCall) /\ p.sysex \in Seq(Byte)
      BY DEF Coherent, ParserType
    <3>2. PICK sx \in Seq(Byte) :
            sx = IF Len(p.sysex) < kMaxSysex THEN Append(p.sysex, b) ELSE p.sysex
      BY <3>1, AppendTo
    <3>3. kept = [p EXCEPT !.sysex = sx]
      BY <3>1, <3>2 DEF Parser!Keep
    <3> QED
      BY <3>1, <3>3, SetSysex
  <2>2. over \in ParserType(NoCall)
    BY <2>1, SetState DEF States
  <2>3. Parser!ProcessMIDI(p, b) = Enter([over EXCEPT !.sStatus = s, !.sChannel = c], b)
    BY <1>4 DEF Parser!ProcessMIDI, Parser!Collect, Parser!StatusByte,
         Parser!IsStatus, IsStatus, Parser!HighNibble, HighNibble,
         Parser!LowNibble, LowNibble, Parser!SysExEnd, SysExEnd
  <2> QED
    BY <1>2, <2>2, <2>3
<1> QED
  BY <1>3, <1>4

\* The first data byte of two, waited for or met by running status.
LEMMA FirstTaken ==
  ASSUME NEW p, Coherent(p), NEW b \in Byte,
         \/ p.state = "want1of2"
         \/ p.state = "idle" /\ ~IsStatus(b) /\ p.sStatus \in TwoByteStatus
  PROVE  LET q == Parser!ProcessMIDI(p, b)
         IN  /\ q \in ParserType(NoCall)
             /\ q.state = "want2" /\ q.sMessage[1] = b
             /\ q.sStatus = p.sStatus /\ q.sChannel = p.sChannel
<1>0. "want2" \in States /\ 1 \in {1, 2}
  BY DEF States
<1>1. p \in ParserType(NoCall)
  BY DEF Coherent
<1>2. CASE p.state = "want1of2"
  <2>1. Parser!ProcessMIDI(p, b) = [p EXCEPT !.sMessage[1] = b, !.state = "want2"]
    BY <1>2 DEF Parser!ProcessMIDI, Parser!Collect
  <2>2. PICK m \in Message : /\ m[1] = b
                             /\ Parser!ProcessMIDI(p, b) = [p EXCEPT !.sMessage = m, !.state = "want2"]
    BY <1>0, <1>1, <2>1, MessageSet
  <2> QED
    BY <1>0, <1>1, <2>2 DEF ParserType
<1>3. CASE p.state = "idle" /\ ~IsStatus(b) /\ p.sStatus \in TwoByteStatus
  <2>1. Enter(p, b) = [p EXCEPT !.state = "want1of2", !.sysex = @]
    BY <1>3 DEF Enter, Wanted
  <2>2. PICK u \in ParserType(NoCall) :
          /\ u = Enter(p, b) /\ u.state = "want1of2"
          /\ u.sStatus = p.sStatus /\ u.sChannel = p.sChannel
    BY <1>1, <2>1 DEF ParserType, States
  <2>3. Parser!ProcessMIDI(p, b) = [u EXCEPT !.sMessage[1] = b, !.state = "want2"]
    BY <1>3, <2>2 DEF Parser!ProcessMIDI, Parser!ProcessStatus, Parser!RunOn,
         Parser!Collect, Parser!IsStatus, IsStatus
  <2>4. PICK m \in Message :
          /\ m[1] = b
          /\ [u EXCEPT !.sMessage[1] = b, !.state = "want2"]
               = [u EXCEPT !.sMessage = m, !.state = "want2"]
    BY <1>0, MessageSet
  <2>5. Parser!ProcessMIDI(p, b) = [u EXCEPT !.sMessage = m, !.state = "want2"]
    BY <2>3, <2>4
  <2> QED
    BY <1>0, <2>2, <2>4, <2>5 DEF ParserType
<1> QED
  BY <1>2, <1>3

\* The call of a voice message has its status, channel and data.
Called(q, p, message) == q.done = << Call(p.sStatus, p.sChannel, message) >>

\* What Deliver leaves, of a parser it has just put the last byte into.
Delivers(q, p, m) ==
  /\ q \in ParserType(Seq(CallType)) /\ q.state = "idle"
  /\ q.sStatus = p.sStatus /\ q.sChannel = p.sChannel
  /\ Called(q, p, m)

LEMMA Delivered ==
  ASSUME NEW p \in ParserType(NoCall), NEW b \in Byte, NEW i \in {1, 2}
  PROVE  \E m \in Message :
           /\ m[i] = b /\ m[3 - i] = p.sMessage[3 - i]
           /\ Delivers(Parser!Deliver([p EXCEPT !.sMessage[i] = b]), p, m)
<1>1. PICK m \in Message : /\ m[i] = b /\ m[3 - i] = p.sMessage[3 - i]
                          /\ [p EXCEPT !.sMessage[i] = b] = [p EXCEPT !.sMessage = m]
  BY MessageSet
<1>2. PICK u \in ParserType(NoCall) :
        /\ u = [p EXCEPT !.sMessage = m] /\ u.sMessage = m
        /\ u.sStatus = p.sStatus /\ u.sChannel = p.sChannel
  <2>1. LET u == [p EXCEPT !.sMessage = m]
        IN  /\ u \in ParserType(NoCall) /\ u.sMessage = m
            /\ u.sStatus = p.sStatus /\ u.sChannel = p.sChannel
    BY DEF ParserType
  <2> QED
    BY <2>1, Zenon
<1>3. PICK d \in Seq(CallType) : d = << Call(p.sStatus, p.sChannel, m) >>
  <2>1. m \in Data
    <3>1. m \in Seq(Byte) /\ Len(m) = 2
      BY FunctionIsSeq DEF Message
    <3>2. Len(<< >>) # 2
      OBVIOUS
    <3> QED
      BY <3>1, <3>2, Zenon DEF Data
  <2>2. p.sStatus \in Byte /\ p.sChannel \in Channel
    BY DEF ParserType
  <2>3. PICK c \in CallType : c = Call(p.sStatus, p.sChannel, m)
    BY <2>1, <2>2 DEF Call, CallType
  <2>4. << c >> \in Seq(CallType)
    OBVIOUS
  <2> QED
    BY <2>3, <2>4, Zenon
<1>4. Parser!Deliver(u) = [u EXCEPT !.state = "idle", !.done = d]
  BY <1>2, <1>3 DEF Parser!Deliver, Parser!Call, Call
<1>5. "idle" \in States
  BY DEF States
<1>6. Delivers([u EXCEPT !.state = "idle", !.done = d], p, m)
  BY <1>2, <1>3, <1>5 DEF ParserType, Delivers, Called
<1> QED
  BY <1>1, <1>2, <1>4, <1>6

\* The byte that completes a message of two data bytes, or of one.
LEMMA SecondTaken ==
  ASSUME NEW p, Coherent(p), NEW b \in Byte, p.state = "want2"
  PROVE  \E m \in Message : /\ m[1] = p.sMessage[1] /\ m[2] = b
                            /\ Delivers(Parser!ProcessMIDI(p, b), p, m)
<1>1. Parser!ProcessMIDI(p, b) = Parser!Deliver([p EXCEPT !.sMessage[2] = b])
  BY DEF Parser!ProcessMIDI, Parser!Collect
<1>2. p \in ParserType(NoCall) /\ 2 \in {1, 2} /\ 3 - 2 = 1
  BY DEF Coherent
<1> QED
  BY <1>1, <1>2, Delivered

LEMMA OnlyTaken ==
  ASSUME NEW p, Coherent(p), NEW b \in Byte,
         \/ p.state = "want1of1"
         \/ p.state = "idle" /\ ~IsStatus(b) /\ p.sStatus \in OneByteStatus
  PROVE  \E m \in Message :
           m[1] = b /\ Delivers(Parser!ProcessMIDI(p, b), p, m)
<1>0. p \in ParserType(NoCall) /\ 1 \in {1, 2} /\ "want1of1" \in States
  BY DEF Coherent, States
<1>1. CASE p.state = "want1of1"
  <2>1. Parser!ProcessMIDI(p, b) = Parser!Deliver([p EXCEPT !.sMessage[1] = b])
    BY <1>1 DEF Parser!ProcessMIDI, Parser!Collect
  <2> QED
    BY <1>0, <2>1, Delivered
<1>2. CASE p.state = "idle" /\ ~IsStatus(b) /\ p.sStatus \in OneByteStatus
  <2>0. Wanted(p) = "want1of1"
    <3>1. p.sStatus \notin TwoByteStatus
      BY <1>2 DEF OneByteStatus, TwoByteStatus
    <3> QED
      BY <1>2, <3>1 DEF Wanted
  <2>1. Enter(p, b) = [p EXCEPT !.state = "want1of1", !.sysex = @]
    BY <2>0 DEF Enter
  <2>2. PICK u \in ParserType(NoCall) :
          /\ u = Enter(p, b) /\ u.state = "want1of1"
          /\ u.sStatus = p.sStatus /\ u.sChannel = p.sChannel
    BY <1>0, <2>1 DEF ParserType
  <2>3. Parser!ProcessMIDI(p, b) = Parser!Deliver([u EXCEPT !.sMessage[1] = b])
    BY <1>2, <2>2 DEF Parser!ProcessMIDI, Parser!ProcessStatus, Parser!RunOn,
         Parser!Collect, Parser!IsStatus, IsStatus
  <2>4. PICK m \in Message :
          m[1] = b /\ Delivers(Parser!Deliver([u EXCEPT !.sMessage[1] = b]), u, m)
    BY <1>0, Delivered
  <2> QED
    BY <2>2, <2>3, <2>4 DEF Delivers, Called
<1> QED
  BY <1>1, <1>2

\* Data of a sysex is kept as long as there is room.
LEMMA DataKept ==
  ASSUME NEW p, Coherent(p), NEW b \in Byte, p.state = "sysex", ~IsStatus(b)
  PROVE  LET q == Parser!ProcessMIDI(p, b)
         IN  /\ q \in ParserType(NoCall) /\ q.state = "sysex"
             /\ q.sysex = IF Len(p.sysex) < kMaxSysex THEN Append(p.sysex, b) ELSE p.sysex
<1>1. p \in ParserType(NoCall) /\ p.sysex \in Seq(Byte)
  BY DEF Coherent, ParserType
<1>2. PICK sx \in Seq(Byte) :
        sx = IF Len(p.sysex) < kMaxSysex THEN Append(p.sysex, b) ELSE p.sysex
  BY <1>1, AppendTo
<1>3. Parser!ProcessMIDI(p, b) = [p EXCEPT !.sysex = sx]
  BY <1>1, <1>2 DEF Parser!ProcessMIDI, Parser!Collect, Parser!Keep,
       Parser!IsStatus, IsStatus
<1> QED
  BY <1>1, <1>2, <1>3 DEF ParserType

\* The call of a sysex that is the module's own.
Acted(sx) == IF IsNative(sx) THEN NativeCommand(sx) ELSE << >>

LEMMA EndTaken ==
  ASSUME NEW p, Coherent(p), p.state = "sysex"
  PROVE  LET q == Parser!ProcessMIDI(p, SysExEnd)
             sx == IF Len(p.sysex) < kMaxSysex THEN Append(p.sysex, SysExEnd) ELSE p.sysex
         IN  /\ q \in ParserType(Seq(CallType)) /\ q.state = "idle"
             /\ q.done = Acted(sx)
<1>1. p \in ParserType(NoCall) /\ p.sysex \in Seq(Byte) /\ p.done = << >>
  BY DEF Coherent, ParserType, NoCall
<1>0. SysExEnd \in Byte /\ IsStatus(SysExEnd)
  BY DEF SysExEnd, Byte, IsStatus
<1>2. PICK sx \in Seq(Byte) :
        sx = IF Len(p.sysex) < kMaxSysex THEN Append(p.sysex, SysExEnd) ELSE p.sysex
  BY <1>0, <1>1, AppendTo
<1>i. "idle" \in States
  BY DEF States
<1>3. PICK u \in ParserType(NoCall) :
        /\ u = [p EXCEPT !.sysex = sx, !.state = "idle"]
        /\ u.state = "idle" /\ u.sysex = sx /\ u.done = p.done
  <2>1. LET u == [p EXCEPT !.sysex = sx, !.state = "idle"]
        IN  /\ u \in ParserType(NoCall)
            /\ u.state = "idle" /\ u.sysex = sx /\ u.done = p.done
    BY <1>1, <1>i DEF ParserType
  <2> QED
    BY <2>1, Zenon
<1>4. Parser!ProcessMIDI(p, SysExEnd) = Parser!EndOfSysex(u)
  BY <1>0, <1>1, <1>2, <1>3 DEF Parser!ProcessMIDI, Parser!Collect, Parser!Keep,
       Parser!IsStatus, IsStatus, Parser!SysExEnd, SysExEnd
<1>5. Acted(sx) \in Seq(CallType)
  <2>1. CASE Len(sx) > 7
    <3>1. sx[7] \in Byte
      BY <1>2, <2>1
    <3>2. <<sx[7]>> \in Data
      <4>1. <<sx[7]>> \in Seq(Byte) /\ <<sx[7]>> # << >>
        BY <3>1
      <4> QED
        BY <4>1 DEF Data
    <3>3. Call(\hF0, 0, <<sx[7]>>) \in CallType
      BY <3>2 DEF Call, CallType, Byte, Channel
    <3> QED
      BY <3>3 DEF Acted, NativeCommand
  <2>2. CASE ~(Len(sx) > 7)
    BY <2>2 DEF Acted, NativeCommand
  <2> QED
    BY <2>1, <2>2
<1>6. PICK d \in Seq(CallType) : d = Acted(sx)
  BY <1>5
<1>7. Parser!EndOfSysex(u) = IF IsNative(sx) THEN [u EXCEPT !.done = d] ELSE u
  BY <1>3, <1>6 DEF Parser!EndOfSysex, Parser!IsNative, IsNative, Parser!sysExIDES,
       sysExIDES, Parser!NativeCommand, NativeCommand, Parser!Call, Call, Acted
<1>8. CASE IsNative(sx)
  <2>1. LET q == [u EXCEPT !.done = d]
        IN  q \in ParserType(Seq(CallType)) /\ q.state = "idle" /\ q.done = d
    BY <1>3 DEF ParserType
  <2> QED
    BY <1>2, <1>4, <1>6, <1>7, <1>8, <2>1
<1>9. CASE ~IsNative(sx)
  <2>1. u.done = << >> /\ << >> \in Seq(CallType)
    BY <1>1, <1>3
  <2>2. u \in ParserType(Seq(CallType))
    BY <1>3, <2>1 DEF ParserType
  <2> QED
    BY <1>2, <1>3, <1>4, <1>7, <1>9, <2>1, <2>2 DEF Acted
<1> QED
  BY <1>8, <1>9

\* A data byte that nothing waits for.
LEMMA DataIgnored ==
  ASSUME NEW p, Coherent(p), NEW b \in Byte, p.state = "idle", ~IsStatus(b),
         p.sStatus \notin OneByteStatus, p.sStatus \notin TwoByteStatus
  PROVE  LET q == Parser!ProcessMIDI(p, b)
         IN  /\ q \in ParserType(NoCall)
             /\ q.state = IF p.sStatus = \hF0 /\ p.sChannel = 0 THEN "sysex" ELSE "idle"
             /\ q.sStatus = p.sStatus /\ q.sChannel = p.sChannel
<1>1. p \in ParserType(NoCall) /\ "idle" \in States /\ "sysex" \in States
      /\ <<b>> \in Seq(Byte) /\ p.sysex \in Seq(Byte)
  BY DEF Coherent, States, ParserType
<1>2. CASE p.sStatus = \hF0 /\ p.sChannel = 0
  <2>1. Wanted(p) = "sysex"
    BY <1>2 DEF Wanted
  <2>2. PICK u \in ParserType(NoCall) :
          /\ u = Enter(p, b) /\ u.state = "sysex" /\ u.sysex = <<b>>
          /\ u.sStatus = p.sStatus /\ u.sChannel = p.sChannel
    <3>1. Enter(p, b) = [p EXCEPT !.state = "sysex", !.sysex = <<b>>]
      BY <2>1 DEF Enter
    <3>2. LET u == [p EXCEPT !.state = "sysex", !.sysex = <<b>>]
          IN  /\ u \in ParserType(NoCall) /\ u.state = "sysex" /\ u.sysex = <<b>>
              /\ u.sStatus = p.sStatus /\ u.sChannel = p.sChannel
      BY <1>1 DEF ParserType
    <3> QED
      BY <3>1, <3>2, Zenon
  <2>3. PICK sx \in Seq(Byte) :
          sx = IF Len(u.sysex) < kMaxSysex THEN Append(u.sysex, b) ELSE u.sysex
    BY <1>1, <2>2, AppendTo
  <2>4. Parser!ProcessMIDI(p, b) = [u EXCEPT !.sysex = sx]
    BY <2>2, <2>3 DEF Parser!ProcessMIDI, Parser!ProcessStatus, Parser!RunOn,
         Parser!Collect, Parser!Keep, Parser!IsStatus, IsStatus
  <2> QED
    BY <1>2, <2>2, <2>3, <2>4 DEF ParserType
<1>3. CASE ~(p.sStatus = \hF0 /\ p.sChannel = 0)
  <2>1. Wanted(p) = "idle"
    BY <1>3 DEF Wanted
  <2>2. Enter(p, b) = [p EXCEPT !.state = "idle", !.sysex = p.sysex]
    BY <2>1 DEF Enter
  <2>3. LET u == [p EXCEPT !.state = "idle", !.sysex = p.sysex]
        IN  /\ u \in ParserType(NoCall) /\ u.state = "idle"
            /\ u.sStatus = p.sStatus /\ u.sChannel = p.sChannel
    BY <1>1 DEF ParserType
  <2>4. Parser!ProcessMIDI(p, b) = Enter(p, b)
    BY <2>2, <2>3 DEF Parser!ProcessMIDI, Parser!ProcessStatus, Parser!RunOn,
         Parser!IsStatus, IsStatus
  <2> QED
    BY <1>3, <2>2, <2>3, <2>4
<1> QED
  BY <1>2, <1>3

\* The parser that is kept from one byte to the next.
Kept(q) == [q EXCEPT !.done = << >>]

LEMMA KeptIs ==
  ASSUME NEW D, NEW q \in ParserType(D)
  PROVE  /\ Kept(q) \in ParserType(NoCall) /\ Kept(q).state = q.state
         /\ Kept(q).sStatus = q.sStatus /\ Kept(q).sChannel = q.sChannel
         /\ Kept(q).sMessage = q.sMessage /\ Kept(q).sysex = q.sysex
         /\ q.done \in D
BY DEF ParserType, Kept, NoCall

\* Whatever comes, the parser stays coherent.
LEMMA StaysCoherent ==
  ASSUME NEW p, Coherent(p), NEW b \in Byte
  PROVE  LET q == Parser!ProcessMIDI(p, b)
         IN  Coherent(Kept(q)) /\ q.done \in Seq(CallType)
<1> DEFINE q == Parser!ProcessMIDI(p, b)
<1>0. p.state \in States /\ \A D : \A d \in ParserType(NoCall) : d.done = << >>
  BY DEF Coherent, ParserType, NoCall
<1>a. << >> \in Seq(CallType)
  OBVIOUS
<1> HIDE DEF q
<1>1. CASE \E m : Delivers(q, p, m)
  <2>1. q \in ParserType(Seq(CallType)) /\ q.state = "idle"
    BY <1>1 DEF Delivers
  <2> QED
    BY <2>1, KeptIs DEF Coherent, q
<1>2. ASSUME q \in ParserType(NoCall),
             q.state = "want1of1" => q.sStatus \in OneByteStatus,
             q.state \in {"want1of2", "want2"} => q.sStatus \in TwoByteStatus
      PROVE  Coherent(Kept(q)) /\ q.done \in Seq(CallType)
  BY <1>0, <1>a, <1>2, KeptIs DEF Coherent
<1>3. CASE p.state = "want1of1"
  BY <1>1, <1>3, OnlyTaken DEF q
<1>4. CASE p.state = "want2"
  BY <1>1, <1>4, SecondTaken DEF q
<1>5. CASE p.state = "want1of2"
  <2>1. /\ q \in ParserType(NoCall) /\ q.state = "want2" /\ q.sStatus = p.sStatus
        /\ p.sStatus \in TwoByteStatus
    BY <1>5, FirstTaken DEF q, Coherent
  <2> QED
    BY <1>2, <2>1 DEF q
<1>6. ASSUME p.state = "idle" \/ (p.state = "sysex" /\ b # SysExEnd), IsStatus(b)
      PROVE  Coherent(Kept(q)) /\ q.done \in Seq(CallType)
  <2>1. /\ q \in ParserType(NoCall) /\ q.state = After(HighNibble(b), LowNibble(b))
        /\ q.sStatus = HighNibble(b)
    BY <1>6, StatusTaken DEF q
  <2>2. /\ q.state = "want1of1" => q.sStatus \in OneByteStatus
        /\ q.state \in {"want1of2", "want2"} => q.sStatus \in TwoByteStatus
    BY <2>1 DEF After
  <2> QED
    BY <1>2, <2>1, <2>2
<1>7. CASE p.state = "sysex"
  <2>1. CASE ~IsStatus(b)
    <3>1. q \in ParserType(NoCall) /\ q.state = "sysex"
      BY <1>7, <2>1, DataKept DEF q
    <3> QED
      BY <1>2, <3>1 DEF q
  <2>2. CASE b = SysExEnd
    <3>1. q \in ParserType(Seq(CallType)) /\ q.state = "idle"
      BY <1>7, <2>2, EndTaken DEF q
    <3> QED
      BY <3>1, KeptIs DEF Coherent, q
  <2> QED
    BY <1>6, <1>7, <2>1, <2>2 DEF q
<1>8. CASE p.state = "idle"
  <2>1. CASE IsStatus(b)
    BY <1>6, <1>8, <2>1 DEF q
  <2>2. CASE ~IsStatus(b) /\ p.sStatus \in OneByteStatus
    BY <1>1, <1>8, <2>2, OnlyTaken DEF q
  <2>3. CASE ~IsStatus(b) /\ p.sStatus \in TwoByteStatus
    <3>1. q \in ParserType(NoCall) /\ q.state = "want2" /\ q.sStatus = p.sStatus
      BY <1>8, <2>3, FirstTaken DEF q
    <3> QED
      BY <1>2, <2>3, <3>1 DEF q
  <2>4. CASE ~IsStatus(b) /\ p.sStatus \notin OneByteStatus /\ p.sStatus \notin TwoByteStatus
    <3>1. q \in ParserType(NoCall) /\ q.state \in {"idle", "sysex"}
      BY <1>8, <2>4, DataIgnored DEF q
    <3> QED
      BY <1>2, <3>1 DEF q
  <2> QED
    BY <2>1, <2>2, <2>3, <2>4
<1> QED
  BY <1>0, <1>3, <1>4, <1>5, <1>7, <1>8 DEF States
-----------------------------------------------------------------------------
(* A parser in place reads a message to its end.                           *)

LEMMA Forms ==
  ASSUME NEW m \in Seq(Byte), WellFormed(m)
  PROVE  /\ Len(m) \in Nat /\ Len(m) >= 1 /\ m[1] \in Byte
         /\ IsStatus(m[1]) /\ m[1] # SysExEnd
         /\ Voice(m) => IF TwoData(m) THEN Len(m) = 3
                        ELSE Len(m) = 2 /\ HighNibble(m[1]) \in OneByteStatus
         /\ ~Voice(m) => /\ HighNibble(m[1]) = \hF0 /\ ~TwoData(m)
                         /\ LowNibble(m[1]) = 0 <=> m[1] = SysExStart
         /\ \A i \in 2 .. Len(m) :
              /\ m[i] \in Byte
              /\ IsStatus(m[i]) => m[1] = SysExStart /\ m[i] = SysExEnd /\ i = Len(m)
<1>1. Len(m) \in Nat /\ Len(m) >= 1 /\ \A i \in 1 .. Len(m) : m[i] \in Byte
  BY DEF WellFormed
<1>2. m[1] \in Byte /\ m[1] >= \h80 /\ m[1] < \hF7
  BY <1>1 DEF WellFormed, IsStatus, SysExEnd
<1>3. Voice(m) <=> m[1] < \hF0
  BY DEF Voice, SysExStart
<1>4. CASE Voice(m)
  <2>1. HighNibble(m[1]) \in OneByteStatus \cup TwoByteStatus
    BY <1>2, <1>3, <1>4, Nibbles DEF OneByteStatus, TwoByteStatus
  <2> QED
    BY <1>1, <1>2, <1>4, <2>1 DEF WellFormed, TwoData, IsStatus, SysExEnd
<1>5. CASE ~Voice(m)
  <2>1. HighNibble(m[1]) = \hF0 /\ LowNibble(m[1]) = m[1] - \hF0
    <3>1. m[1] >= \hF0
      <4>1. PICK x \in Byte : x = m[1]
        BY <1>2
      <4>2. ~(x < \hF0)
        BY <1>3, <1>5, <4>1
      <4> QED
        BY <4>1, <4>2 DEF Byte
    <3> QED
      BY <1>2, <3>1, Nibbles
  <2> QED
    BY <1>1, <1>2, <1>5, <2>1
       DEF WellFormed, TwoData, TwoByteStatus, IsStatus, SysExEnd, SysExStart
<1> QED
  BY <1>4, <1>5

\* The calls as the sender would know them.
Sent(d) == [i \in 1 .. Len(d) |-> AsSent(d[i])]

\* The whole message has been read.
Ended(q, m) ==
  /\ Fresh(q) /\ (Voice(m) => Remembers(q, m[1]))
  /\ Sent(q.done) = Expected(m)

Goes(p, m, k) ==
  LET q == Parser!ProcessMIDI(p, m[k + 1])
  IN  /\ k + 1 < Len(m) => q.done = << >> /\ InPlace(Kept(q), m, k + 1)
      /\ k + 1 = Len(m) => Ended(q, m)

LEMMA NothingSent == Sent(<< >>) = << >>
BY DEF Sent

LEMMA OneSent ==
  ASSUME NEW c
  PROVE  Sent(<< c >>) = << AsSent(c) >>
BY DEF Sent

\* The three kinds of message.
LEMMA InPlaceIs ==
  ASSUME NEW p, NEW m, NEW k
  PROVE  /\ Voice(m) =>
              (InPlace(p, m, k) <=>
                /\ p.sStatus = HighNibble(m[1]) /\ p.sChannel = LowNibble(m[1])
                /\ IF k = 1 THEN p.state \in {"idle", Wanted(p)}
                   ELSE p.state = "want2" /\ p.sMessage[1] = m[2])
         /\ m[1] = SysExStart =>
              (InPlace(p, m, k) <=>
                /\ p.state = "sysex"
                /\ p.sysex = SubSeq(m, 1, IF k < kMaxSysex THEN k ELSE kMaxSysex))
         /\ ~Voice(m) /\ m[1] # SysExStart =>
              (InPlace(p, m, k)
                 <=> p.state = "idle" /\ p.sStatus = \hF0 /\ p.sChannel # 0)
<1>1. Voice(m) => m[1] # SysExStart
  BY DEF Voice, SysExStart
<1>2. CASE Voice(m)
  BY <1>1, <1>2 DEF InPlace
<1>3. CASE m[1] = SysExStart
  BY <1>1, <1>3 DEF InPlace
<1>4. CASE ~Voice(m) /\ m[1] # SysExStart
  BY <1>4 DEF InPlace
<1> QED
  BY <1>2, <1>3, <1>4

LEMMA VoiceGoes ==
  ASSUME NEW p, Coherent(p), NEW m \in Seq(Byte), WellFormed(m), Voice(m),
         NEW k \in 1 .. Len(m) - 1, InPlace(p, m, k)
  PROVE  Goes(p, m, k)
<1> DEFINE q == Parser!ProcessMIDI(p, m[k + 1])
<1>1. /\ p.sStatus = HighNibble(m[1]) /\ p.sChannel = LowNibble(m[1])
      /\ IF k = 1 THEN p.state \in {"idle", Wanted(p)}
         ELSE p.state = "want2" /\ p.sMessage[1] = m[2]
  BY InPlaceIs
<1>2. m[k + 1] \in Byte /\ ~IsStatus(m[k + 1]) /\ m[1] \in Byte
      /\ Len(m) \in Nat /\ k \in Nat
  <2>1. Len(m) \in Nat /\ m[1] # SysExStart /\ m[1] \in Byte
    BY Forms DEF Voice, SysExStart
  <2>2. k + 1 \in 2 .. Len(m)
    BY <2>1
  <2> QED
    BY <2>1, <2>2, Forms
<1>3. HighNibble(m[1]) + LowNibble(m[1]) = m[1]
  BY <1>2, Nibbles
<1> HIDE DEF q
<1>4. CASE TwoData(m) /\ k = 1
  <2>1. p.sStatus \in TwoByteStatus /\ Wanted(p) = "want1of2" /\ Len(m) = 3
    BY <1>1, <1>4, Forms DEF TwoData, Wanted
  <2>2. /\ q \in ParserType(NoCall) /\ q.state = "want2" /\ q.sMessage[1] = m[2]
        /\ q.sStatus = p.sStatus /\ q.sChannel = p.sChannel
    BY <1>1, <1>2, <1>4, <2>1, FirstTaken DEF q
  <2>3. InPlace(Kept(q), m, 2) /\ q.done = << >>
    <3>1. /\ Kept(q).state = "want2" /\ Kept(q).sMessage[1] = m[2]
          /\ Kept(q).sStatus = p.sStatus /\ Kept(q).sChannel = p.sChannel
          /\ q.done \in NoCall
      BY <2>2, KeptIs
    <3>2. InPlace(Kept(q), m, 2)
      BY <1>1, <3>1, InPlaceIs
    <3> QED
      BY <3>1, <3>2 DEF NoCall
  <2> QED
    BY <1>4, <2>1, <2>3 DEF Goes, q
<1>5. CASE TwoData(m) /\ k # 1
  <2>1. Len(m) = 3 /\ k = 2 /\ p.state = "want2" /\ p.sMessage[1] = m[2]
        /\ p.sStatus \notin OneByteStatus
    BY <1>1, <1>2, <1>5, Forms DEF TwoData, OneByteStatus, TwoByteStatus
  <2>2. PICK msg \in Message : /\ msg[1] = m[2] /\ msg[2] = m[3] /\ Delivers(q, p, msg)
    BY <1>2, <2>1, SecondTaken DEF q
  <2>3. msg = Tail(m)
    <3>1. msg \in Seq(Byte) /\ Len(msg) = 2
      BY FunctionIsSeq DEF Message
    <3>2. /\ Tail(m) \in Seq(Byte) /\ Len(Tail(m)) = 2
          /\ Tail(m)[1] = m[2] /\ Tail(m)[2] = m[3]
      <4>1. m # << >>
        BY DEF WellFormed
      <4> QED
        BY <2>1, <4>1, TailOf
    <3> QED
      BY <2>2, <3>1, <3>2, TwoEqual
  <2>4. Sent(q.done) = << <<m[1], Tail(m)>> >>
    <3>1. q.done = << Call(p.sStatus, p.sChannel, msg) >>
      BY <2>2 DEF Delivers, Called
    <3>2. AsSent(Call(p.sStatus, p.sChannel, msg)) = <<m[1], Tail(m)>>
      BY <1>1, <1>3, <2>1, <2>3 DEF AsSent, Call
    <3> QED
      BY <3>1, <3>2, OneSent
  <2>5. Ended(q, m)
    BY <1>1, <2>2, <2>4 DEF Ended, Fresh, Remembers, Expected, Delivers
  <2> QED
    BY <2>1, <2>5 DEF Goes, q
<1>6. CASE ~TwoData(m)
  <2>1. Len(m) = 2 /\ k = 1 /\ p.sStatus \in OneByteStatus
    BY <1>1, <1>2, <1>6, Forms
  <2>2. p.state = "idle" \/ p.state = "want1of1"
    <3>1. p.sStatus \notin TwoByteStatus
      BY <2>1 DEF OneByteStatus, TwoByteStatus
    <3> QED
      BY <1>1, <2>1, <3>1 DEF Wanted
  <2>3. PICK msg \in Message : msg[1] = m[2] /\ Delivers(q, p, msg)
    BY <1>2, <2>1, <2>2, OnlyTaken DEF q
  <2>4. SubSeq(msg, 1, 1) = Tail(m)
    <3>1. msg \in Seq(Byte) /\ Len(msg) = 2
      BY FunctionIsSeq DEF Message
    <3>2. /\ SubSeq(msg, 1, 1) \in Seq(Byte) /\ Len(SubSeq(msg, 1, 1)) = 1
          /\ SubSeq(msg, 1, 1)[1] = m[2]
      BY <2>3, <3>1, FirstOf
    <3>3. Tail(m) \in Seq(Byte) /\ Len(Tail(m)) = 1 /\ Tail(m)[1] = m[2]
      BY <2>1, TailOfTwo
    <3> QED
      BY <3>2, <3>3, OneEqual
  <2>5. Sent(q.done) = << <<m[1], Tail(m)>> >>
    <3>1. q.done = << Call(p.sStatus, p.sChannel, msg) >>
      BY <2>3 DEF Delivers, Called
    <3>2. AsSent(Call(p.sStatus, p.sChannel, msg)) = <<m[1], Tail(m)>>
      BY <1>1, <1>3, <2>1, <2>4 DEF AsSent, Call
    <3> QED
      BY <3>1, <3>2, OneSent
  <2>6. Ended(q, m)
    BY <1>1, <2>3, <2>5 DEF Ended, Fresh, Remembers, Expected, Delivers
  <2> QED
    BY <2>1, <2>6 DEF Goes, q
<1> QED
  BY <1>4, <1>5, <1>6

\* What is kept of a sysex, and that it tells of it all that matters.
Part(m, k) == SubSeq(m, 1, IF k < kMaxSysex THEN k ELSE kMaxSysex)

LEMMA PartGrows ==
  ASSUME NEW m \in Seq(Byte), NEW k \in 1 .. Len(m) - 1
  PROVE  /\ Part(m, k) \in Seq(Byte)
         /\ Part(m, k + 1) = IF Len(Part(m, k)) < kMaxSysex
                             THEN Append(Part(m, k), m[k + 1]) ELSE Part(m, k)
<1>1. Len(m) \in Nat /\ kMaxSysex \in Nat
  BY SysexAssumption
<1>2. CASE k < kMaxSysex
  <2>1. k \in 0 .. Len(m) /\ k + 1 \in 0 .. Len(m)
    BY <1>1
  <2>2. Part(m, k) = SubSeq(m, 1, k) /\ Part(m, k + 1) = SubSeq(m, 1, k + 1)
    BY <1>1, <1>2 DEF Part
  <2>3. /\ SubSeq(m, 1, k) \in Seq(Byte) /\ Len(SubSeq(m, 1, k)) = k
        /\ SubSeq(m, 1, k + 1) = Append(SubSeq(m, 1, k), m[k + 1])
    BY <2>1, LongerPart
  <2> QED
    BY <1>2, <2>2, <2>3
<1>3. CASE ~(k < kMaxSysex)
  <2>1. kMaxSysex \in 0 .. Len(m)
    BY <1>1, <1>3
  <2>2. Part(m, k) = SubSeq(m, 1, kMaxSysex) /\ Part(m, k + 1) = SubSeq(m, 1, kMaxSysex)
    BY <1>1, <1>3 DEF Part
  <2>3. SubSeq(m, 1, kMaxSysex) \in Seq(Byte) /\ Len(SubSeq(m, 1, kMaxSysex)) = kMaxSysex
    BY <2>1, FirstOf
  <2>4. Len(Part(m, k)) = kMaxSysex /\ ~(kMaxSysex < kMaxSysex)
    BY <1>1, <2>2, <2>3
  <2> QED
    BY <2>2, <2>3, <2>4, Zenon
<1> QED
  BY <1>2, <1>3

LEMMA PartTells ==
  ASSUME NEW m \in Seq(Byte), m # << >>
  PROVE  Acted(Part(m, Len(m))) = Acted(m)
<1>1. Len(m) \in Nat /\ kMaxSysex \in Nat /\ kMaxSysex > 7
  BY SysexAssumption
<1>2. CASE Len(m) <= kMaxSysex
  <2>1. Part(m, Len(m)) = SubSeq(m, 1, Len(m))
    BY <1>1, <1>2 DEF Part
  <2>2. SubSeq(m, 1, Len(m)) = m
    OBVIOUS
  <2> QED
    BY <2>1, <2>2
<1>3. CASE Len(m) > kMaxSysex
  <2> DEFINE s == SubSeq(m, 1, kMaxSysex)
  <2>1. Part(m, Len(m)) = s
    BY <1>1, <1>3 DEF Part
  <2>2. /\ s \in Seq(Byte) /\ Len(s) = kMaxSysex
        /\ \A i \in 1 .. kMaxSysex : s[i] = m[i]
    <3>1. kMaxSysex \in 0 .. Len(m)
      BY <1>1, <1>3
    <3> QED
      BY <3>1, FirstOf
  <2> HIDE DEF s
  <2>3. s[5] = m[5] /\ s[6] = m[6] /\ s[7] = m[7]
    BY <1>1, <2>2
  <2>4. SubSeq(s, 1, 4) = SubSeq(m, 1, 4)
    <3>1. 4 \in 0 .. Len(s) /\ 4 \in 0 .. Len(m)
      BY <1>1, <1>3, <2>2
    <3>2. \A i \in 1 .. 4 : s[i] = m[i]
      BY <1>1, <2>2
    <3>3. /\ SubSeq(s, 1, 4) \in Seq(Byte) /\ Len(SubSeq(s, 1, 4)) = 4
          /\ \A i \in 1 .. 4 : SubSeq(s, 1, 4)[i] = s[i]
      BY <2>2, <3>1, FirstOf
    <3>4. /\ SubSeq(m, 1, 4) \in Seq(Byte) /\ Len(SubSeq(m, 1, 4)) = 4
          /\ \A i \in 1 .. 4 : SubSeq(m, 1, 4)[i] = m[i]
      BY <3>1, FirstOf
    <3>5. \A i \in 1 .. 4 : SubSeq(s, 1, 4)[i] = SubSeq(m, 1, 4)[i]
      BY <3>2, <3>3, <3>4
    <3> QED
      BY <3>3, <3>4, <3>5, SeqEqual
  <2>5. Len(s) > 7 /\ Len(m) > 7 /\ Len(s) > 4 /\ Len(m) > 4
    BY <1>1, <1>3, <2>2
  <2>6. IsNative(s) = IsNative(m)
    BY <2>4, <2>5 DEF IsNative
  <2>7. NativeCommand(s) = NativeCommand(m)
    BY <2>3, <2>5 DEF NativeCommand
  <2> QED
    BY <2>1, <2>6, <2>7 DEF Acted
<1> QED
  BY <1>1, <1>2, <1>3

LEMMA SysExGoes ==
  ASSUME NEW p, Coherent(p), NEW m \in Seq(Byte), WellFormed(m), m[1] = SysExStart,
         NEW k \in 1 .. Len(m) - 1, InPlace(p, m, k)
  PROVE  Goes(p, m, k)
<1> DEFINE b == m[k + 1]
           q == Parser!ProcessMIDI(p, b)
<1>1. p.state = "sysex" /\ p.sysex = Part(m, k)
  BY InPlaceIs DEF Part
<1>2. /\ b \in Byte /\ Len(m) \in Nat /\ k + 1 \in 2 .. Len(m)
      /\ IsStatus(b) => b = SysExEnd /\ k + 1 = Len(m)
      /\ ~Voice(m) /\ m # << >>
  <2>1. Len(m) \in Nat /\ ~Voice(m) /\ m # << >>
    BY Forms DEF Voice, SysExStart
  <2>2. k + 1 \in 2 .. Len(m)
    BY <2>1
  <2> QED
    BY <2>1, <2>2, Forms
<1>3. Part(m, k + 1) = IF Len(p.sysex) < kMaxSysex THEN Append(p.sysex, b) ELSE p.sysex
  BY <1>1, PartGrows
<1> HIDE DEF b, q
<1>4. CASE ~IsStatus(b)
  <2>1. q \in ParserType(NoCall) /\ q.state = "sysex" /\ q.sysex = Part(m, k + 1)
    BY <1>1, <1>2, <1>3, <1>4, DataKept DEF q
  <2>2. InPlace(Kept(q), m, k + 1) /\ q.done = << >>
    <3>1. Kept(q).state = "sysex" /\ Kept(q).sysex = Part(m, k + 1) /\ q.done \in NoCall
      BY <2>1, KeptIs
    <3> QED
      BY <3>1, InPlaceIs DEF Part, NoCall
  <2>3. ASSUME k + 1 = Len(m) PROVE Ended(q, m)
    <3>1. m[Len(m)] # SysExEnd
      BY <1>4, <2>3 DEF b, IsStatus, SysExEnd
    <3>2. Expected(m) = << >>
      BY <1>2, <3>1 DEF Expected
    <3> QED
      BY <1>2, <2>1, <2>2, <3>2, NothingSent DEF Ended, Fresh
  <2> QED
    BY <2>2, <2>3 DEF Goes, q, b
<1>5. CASE IsStatus(b)
  <2>1. b = SysExEnd /\ k + 1 = Len(m)
    BY <1>2, <1>5
  <2>2. q.state = "idle" /\ q.done = Acted(Part(m, Len(m)))
    BY <1>1, <1>3, <2>1, EndTaken DEF q
  <2>3. q.done = Acted(m)
    BY <1>2, <2>2, PartTells
  <2>4. Sent(q.done) = Expected(m)
    <3>1. CASE IsNative(m) /\ NativeCommand(m) # << >>
      <4>1. NativeCommand(m) = << Call(\hF0, 0, <<m[7]>>) >>
        BY <3>1 DEF NativeCommand
      <4>2. AsSent(Call(\hF0, 0, <<m[7]>>)) = <<\hF0, <<m[7]>> >>
        BY DEF AsSent, Call, OneByteStatus
      <4>3. NativeCommand(m)[1].message = <<m[7]>>
        BY <4>1 DEF Call
      <4>4. Expected(m) = << <<\hF0, <<m[7]>> >> >>
        BY <1>2, <2>1, <3>1, <4>3 DEF Expected, b
      <4> QED
        BY <2>3, <3>1, <4>1, <4>2, <4>4, OneSent DEF Acted
    <3>2. CASE ~(IsNative(m) /\ NativeCommand(m) # << >>)
      <4>1. Acted(m) = << >>
        BY <3>2 DEF Acted
      <4>2. Expected(m) = << >>
        BY <1>2, <3>2 DEF Expected
      <4> QED
        BY <2>3, <4>1, <4>2, NothingSent
    <3> QED
      BY <3>1, <3>2
  <2>5. Ended(q, m)
    BY <1>2, <2>2, <2>4 DEF Ended, Fresh
  <2> QED
    BY <1>2, <2>1, <2>5 DEF Goes, q, b
<1> QED
  BY <1>4, <1>5

LEMMA OtherGoes ==
  ASSUME NEW p, Coherent(p), NEW m \in Seq(Byte), WellFormed(m),
         ~Voice(m), m[1] # SysExStart,
         NEW k \in 1 .. Len(m) - 1, InPlace(p, m, k)
  PROVE  Goes(p, m, k)
<1> DEFINE b == m[k + 1]
           q == Parser!ProcessMIDI(p, b)
<1>1. p.state = "idle" /\ p.sStatus = \hF0 /\ p.sChannel # 0
  BY InPlaceIs
<1>2. b \in Byte /\ ~IsStatus(b)
  <2>1. Len(m) \in Nat
    OBVIOUS
  <2>2. k + 1 \in 2 .. Len(m)
    BY <2>1
  <2> QED
    BY <2>2, Forms
<1> HIDE DEF b, q
<1>3. /\ q \in ParserType(NoCall) /\ q.state = "idle"
      /\ q.sStatus = \hF0 /\ q.sChannel # 0
  BY <1>1, <1>2, DataIgnored DEF q, OneByteStatus, TwoByteStatus
<1>4. InPlace(Kept(q), m, k + 1) /\ q.done = << >>
  <2>1. /\ Kept(q).state = "idle" /\ Kept(q).sStatus = \hF0 /\ Kept(q).sChannel # 0
        /\ q.done \in NoCall
    BY <1>3, KeptIs
  <2> QED
    BY <2>1, InPlaceIs DEF NoCall
<1>5. Ended(q, m)
  BY <1>3, <1>4, NothingSent DEF Ended, Fresh, Expected
<1> QED
  BY <1>4, <1>5 DEF Goes, q, b

\* Every byte after the first.
LEMMA NextGoes ==
  ASSUME NEW p, Coherent(p), NEW m \in Seq(Byte), WellFormed(m),
         NEW k \in 1 .. Len(m) - 1, InPlace(p, m, k)
  PROVE  Goes(p, m, k)
BY VoiceGoes, SysExGoes, OtherGoes DEF Voice, SysExStart

\* The first one, which finds its way from wherever a status is not data.
LEMMA FirstGoes ==
  ASSUME NEW p, Coherent(p), NEW m \in Seq(Byte), WellFormed(m), Fresh(p)
  PROVE  Goes(p, m, 0)
<1> DEFINE b == m[1]
           q == Parser!ProcessMIDI(p, b)
<1>1. b \in Byte /\ IsStatus(b) /\ b # SysExEnd /\ Len(m) \in Nat /\ Len(m) >= 1
  BY Forms
<1>2. p.state = "idle" \/ (p.state = "sysex" /\ b # SysExEnd)
  BY <1>1 DEF Fresh
<1> HIDE DEF b, q
<1>3. /\ q \in ParserType(NoCall)
      /\ q.state = After(HighNibble(b), LowNibble(b))
      /\ q.sStatus = HighNibble(b) /\ q.sChannel = LowNibble(b)
      /\ q.state = "sysex" => q.sysex = <<b>>
  BY <1>1, <1>2, StatusTaken DEF q
<1>4. /\ Kept(q).state = q.state /\ Kept(q).sysex = q.sysex
      /\ Kept(q).sStatus = q.sStatus /\ Kept(q).sChannel = q.sChannel
      /\ q.done = << >>
  BY <1>3, KeptIs DEF NoCall
<1>5. CASE Voice(m)
  <2>1. Len(m) # 1
    BY <1>5, Forms
  <2>2. InPlace(Kept(q), m, 1)
    <3>1. Kept(q).state = Wanted(Kept(q))
      <4>1. b # SysExStart /\ HighNibble(b) # \hF0
        BY <1>1, <1>5, Nibbles DEF Voice, SysExStart, b
      <4> QED
        BY <1>3, <1>4, <4>1 DEF Wanted, After
    <3> QED
      BY <1>3, <1>4, <1>5, <3>1, InPlaceIs DEF b
  <2> QED
    BY <1>4, <2>1, <2>2 DEF Goes, q, b
<1>6. CASE m[1] = SysExStart
  <2>1. ~Voice(m) /\ HighNibble(b) = \hF0 /\ LowNibble(b) = 0
    BY <1>1, <1>6, Nibbles DEF Voice, SysExStart, b
  <2>2. q.state = "sysex" /\ q.sysex = <<b>>
    BY <1>3, <2>1 DEF After, TwoByteStatus, OneByteStatus
  <2>3. Part(m, 1) = <<b>>
    <3>1. Part(m, 1) = SubSeq(m, 1, 1)
      BY SysexAssumption DEF Part
    <3>2. /\ SubSeq(m, 1, 1) \in Seq(Byte) /\ Len(SubSeq(m, 1, 1)) = 1
          /\ SubSeq(m, 1, 1)[1] = b
      BY <1>1, FirstOf DEF b
    <3>3. <<b>> \in Seq(Byte) /\ Len(<<b>>) = 1 /\ <<b>>[1] = b
      BY <1>1
    <3> QED
      BY <3>1, <3>2, <3>3, OneEqual
  <2>4. InPlace(Kept(q), m, 1)
    BY <1>4, <1>6, <2>2, <2>3, InPlaceIs DEF Part
  <2>5. ASSUME Len(m) = 1 PROVE Ended(q, m)
    <3>1. m[Len(m)] # SysExEnd
      BY <1>1, <2>5 DEF b
    <3> QED
      BY <1>4, <2>1, <2>2, <3>1, NothingSent DEF Ended, Fresh, Expected
  <2> QED
    BY <1>4, <2>4, <2>5 DEF Goes, q, b
<1>7. CASE ~Voice(m) /\ m[1] # SysExStart
  <2>1. HighNibble(b) = \hF0 /\ LowNibble(b) # 0
    BY <1>7, Forms DEF b
  <2>2. q.state = "idle"
    BY <1>3, <2>1 DEF After, TwoByteStatus, OneByteStatus
  <2>3. InPlace(Kept(q), m, 1)
    BY <1>3, <1>4, <1>7, <2>1, <2>2, InPlaceIs
  <2>4. Ended(q, m)
    BY <1>4, <1>7, <2>2, NothingSent DEF Ended, Fresh, Expected
  <2> QED
    BY <1>4, <2>3, <2>4 DEF Goes, q, b
<1> QED
  BY <1>5, <1>6, <1>7
-----------------------------------------------------------------------------
(* A parser out of place finds its way back.                               *)

\* What a byte of m leads to, read by a parser that takes it for data of
\* another message, when n of two data bytes have been received whole.
Strays(p, m, k, n) ==
  LET q == Kept(Parser!ProcessMIDI(p, m[k + 1]))
  IN  /\ k + 1 < Len(m) => OutOfPlace(q, m, k + 1, n)
      /\ k + 1 = Len(m) => NotFar(q, IF TwoData(m) THEN n + 1 ELSE n)

LEMMA FirstStrays ==
  ASSUME NEW p, Coherent(p), NEW m \in Seq(Byte), WellFormed(m), ~Fresh(p),
         NEW n \in Nat, NotFar(p, n)
  PROVE  Strays(p, m, 0, n)
<1> DEFINE q == Parser!ProcessMIDI(p, m[1])
<1>1. m[1] \in Byte /\ Len(m) \in Nat
  BY Forms
<1>2. n \in {0, 1} /\ (n = 1 => p.state # "want1of2")
  BY DEF NotFar
<1>3. p.state \in {"want1of1", "want1of2", "want2"}
  BY DEF Fresh, Coherent, ParserType, States
<1>4. Len(m) = 1 => ~TwoData(m)
  BY Forms
<1>5. /\ Kept(q).state \in {"idle", "want2"} /\ (n = 1 => Kept(q).state = "idle")
      /\ Kept(q).sStatus \in OneByteStatus \cup TwoByteStatus
  <2>1. CASE p.state = "want1of1"
    <3>1. \E msg : Delivers(q, p, msg)
      BY <1>1, <2>1, OnlyTaken
    <3>2. q \in ParserType(Seq(CallType)) /\ q.state = "idle" /\ q.sStatus = p.sStatus
      BY <3>1 DEF Delivers
    <3> QED
      BY <2>1, <3>2, KeptIs DEF Coherent
  <2>2. CASE p.state = "want1of2"
    <3>1. q \in ParserType(NoCall) /\ q.state = "want2" /\ q.sStatus = p.sStatus
      BY <1>1, <2>2, FirstTaken
    <3> QED
      BY <1>2, <2>2, <3>1, KeptIs DEF Coherent
  <2>3. CASE p.state = "want2"
    <3>1. \E msg : Delivers(q, p, msg)
      BY <1>1, <2>3, SecondTaken
    <3>2. q \in ParserType(Seq(CallType)) /\ q.state = "idle" /\ q.sStatus = p.sStatus
      BY <3>1 DEF Delivers
    <3> QED
      BY <2>3, <3>2, KeptIs DEF Coherent
  <2> QED
    BY <1>3, <2>1, <2>2, <2>3
<1> HIDE DEF q
<1>6. OutOfPlace(Kept(q), m, 1, n)
  BY <1>2, <1>5 DEF OutOfPlace
<1>7. Len(m) = 1 => NotFar(Kept(q), n)
  BY <1>2, <1>5 DEF NotFar
<1> QED
  BY <1>4, <1>6, <1>7 DEF Strays, q

LEMMA NextStrays ==
  ASSUME NEW p, Coherent(p), NEW m \in Seq(Byte), WellFormed(m),
         NEW k \in 1 .. Len(m) - 1, NEW n \in Nat, OutOfPlace(p, m, k, n)
  PROVE  Strays(p, m, k, n)
<1> DEFINE b == m[k + 1]
           q == Parser!ProcessMIDI(p, b)
<1>1. /\ b \in Byte /\ Len(m) \in Nat /\ k \in Nat
      /\ IsStatus(b) => b = SysExEnd /\ k + 1 = Len(m) /\ ~Voice(m)
  <2>1. Len(m) \in Nat
    BY Forms
  <2>2. k + 1 \in 2 .. Len(m)
    BY <2>1
  <2> QED
    BY <2>1, <2>2, Forms DEF Voice, SysExStart
<1>2. /\ n \in {0, 1} /\ p.state \in {"idle", "want2"}
      /\ p.sStatus \in OneByteStatus \cup TwoByteStatus
      /\ TwoData(m) /\ n = 1 =>
           /\ k = 1 => p.state = "idle"
           /\ k = 2 => p.state = "want2" \/ p.sStatus \in OneByteStatus
  BY DEF OutOfPlace
<1>3. TwoData(m) => Len(m) = 3 /\ Voice(m)
  BY Forms
<1> HIDE DEF b, q
<1>4. CASE IsStatus(b) /\ p.state = "idle"
  <2>1. q \in ParserType(NoCall) /\ q.state = After(HighNibble(b), LowNibble(b))
    BY <1>1, <1>4, StatusTaken DEF q
  <2>2. q.state = "idle"
    BY <1>1, <1>4, <2>1
       DEF After, SysExEnd, HighNibble, LowNibble, TwoByteStatus, OneByteStatus
  <2>3. Kept(q).state = "idle"
    BY <2>1, <2>2, KeptIs
  <2>4. NotFar(Kept(q), n)
    BY <1>2, <2>3 DEF NotFar
  <2> QED
    BY <1>1, <1>3, <1>4, <2>4 DEF Strays, q, b
<1>5. CASE ~IsStatus(b) \/ p.state = "want2"
  <2>1. /\ Kept(q).state \in {"idle", "want2"}
        /\ Kept(q).sStatus = p.sStatus
        /\ p.state = "want2" \/ p.sStatus \in OneByteStatus => Kept(q).state = "idle"
        /\ p.state = "idle" /\ p.sStatus \in TwoByteStatus => Kept(q).state = "want2"
    <3>0. OneByteStatus \cap TwoByteStatus = {}
      BY DEF OneByteStatus, TwoByteStatus
    <3>1. CASE p.state = "want2"
      <4>1. \E msg : Delivers(q, p, msg)
        BY <1>1, <3>1, SecondTaken DEF q
      <4>2. q \in ParserType(Seq(CallType)) /\ q.state = "idle" /\ q.sStatus = p.sStatus
        BY <4>1 DEF Delivers
      <4> QED
        BY <3>1, <4>2, KeptIs
    <3>2. CASE p.state = "idle" /\ p.sStatus \in OneByteStatus
      <4>1. \E msg : Delivers(q, p, msg)
        BY <1>1, <1>5, <3>2, OnlyTaken DEF q
      <4>2. q \in ParserType(Seq(CallType)) /\ q.state = "idle" /\ q.sStatus = p.sStatus
        BY <4>1 DEF Delivers
      <4> QED
        BY <3>0, <3>2, <4>2, KeptIs
    <3>3. CASE p.state = "idle" /\ p.sStatus \in TwoByteStatus
      <4>1. q \in ParserType(NoCall) /\ q.state = "want2" /\ q.sStatus = p.sStatus
        BY <1>1, <1>5, <3>3, FirstTaken DEF q
      <4> QED
        BY <3>0, <3>3, <4>1, KeptIs
    <3> QED
      BY <1>2, <3>1, <3>2, <3>3
  <2>2. OutOfPlace(Kept(q), m, k + 1, n)
    BY <1>1, <1>2, <2>1 DEF OutOfPlace
  <2>3. ~TwoData(m) => NotFar(Kept(q), n)
    BY <1>2, <2>1 DEF NotFar
  <2>4. TwoData(m) /\ k + 1 = Len(m) => NotFar(Kept(q), n + 1)
    <3> SUFFICES ASSUME TwoData(m), k + 1 = Len(m) PROVE NotFar(Kept(q), n + 1)
      OBVIOUS
    <3>0. k = 2
      <4>1. k + 1 = 3 /\ k \in Nat
        BY <1>1, <1>3
      <4> QED
        BY <4>1
    <3>1. n = 0 => NotFar(Kept(q), n + 1)
      BY <2>1 DEF NotFar
    <3>2. n = 1 => Kept(q).state = "idle"
      BY <1>2, <2>1, <3>0
    <3> QED
      BY <1>2, <3>1, <3>2 DEF NotFar, Fresh
  <2> QED
    BY <2>2, <2>3, <2>4 DEF Strays, q, b
<1> QED
  BY <1>2, <1>4, <1>5
-----------------------------------------------------------------------------
(* What has been asked of the handler, and what ought to have been.        *)

Told == Nat \X Seq(Byte)

LEMMA ToldIs ==
  ASSUME NEW c \in CallType
  PROVE  AsSent(c) \in Told
<1>1. c.status \in Byte /\ c.channel \in Channel /\ c.message \in Data
  BY DEF CallType
<1>3. c.status + c.channel \in Nat
  BY <1>1 DEF Byte, Channel
<1>2. SubSeq(c.message, 1, 1) \in Seq(Byte) /\ c.message \in Seq(Byte)
  <2>1. PICK s \in Seq(Byte) : s = c.message /\ s # << >>
    BY <1>1 DEF Data
  <2>2. 1 \in 0 .. Len(s)
    BY <2>1
  <2> QED
    BY <2>1, <2>2, FirstOf
<1> QED
  BY <1>2, <1>3 DEF AsSent, Told

LEMMA SentIs ==
  ASSUME NEW d \in Seq(CallType)
  PROVE  /\ Sent(d) \in Seq(Told) /\ Len(Sent(d)) = Len(d) /\ Len(d) \in Nat
         /\ \A i \in 1 .. Len(d) : Sent(d)[i] = AsSent(d[i])
<1>1. Len(d) \in Nat /\ \A i \in 1 .. Len(d) : d[i] \in CallType
  OBVIOUS
<1>2. Sent(d) \in [1 .. Len(d) -> Told]
  BY <1>1, ToldIs DEF Sent
<1>3. \A i \in 1 .. Len(d) : Sent(d)[i] = AsSent(d[i])
  BY DEF Sent
<1> QED
  BY <1>1, <1>2, <1>3, FunctionIsSeq

LEMMA SentJoined ==
  ASSUME NEW d \in Seq(CallType), NEW e \in Seq(CallType)
  PROVE  Sent(d \o e) = Sent(d) \o Sent(e)
<1>1. /\ d \o e \in Seq(CallType) /\ Len(d \o e) = Len(d) + Len(e)
      /\ \A i \in 1 .. Len(d) : (d \o e)[i] = d[i]
      /\ \A i \in 1 .. Len(e) : (d \o e)[Len(d) + i] = e[i]
  BY Joined
<1>2. PICK f \in Seq(CallType) : f = d \o e
  BY <1>1
<1>3. PICK a \in Seq(Told), b \in Seq(Told), c \in Seq(Told) :
        a = Sent(d) /\ b = Sent(e) /\ c = Sent(f)
  BY SentIs
<1>4. /\ Len(a) = Len(d) /\ Len(b) = Len(e) /\ Len(c) = Len(d) + Len(e)
      /\ Len(d) \in Nat /\ Len(e) \in Nat
  BY <1>1, <1>2, <1>3, SentIs
<1>5. /\ a \o b \in Seq(Told) /\ Len(a \o b) = Len(a) + Len(b)
      /\ \A i \in 1 .. Len(a) : (a \o b)[i] = a[i]
      /\ \A i \in 1 .. Len(b) : (a \o b)[Len(a) + i] = b[i]
  BY Joined
<1>6. ASSUME NEW i \in 1 .. Len(c) PROVE c[i] = (a \o b)[i]
  <2>0. c[i] = AsSent(f[i])
    BY <1>1, <1>2, <1>3, <1>4, SentIs
  <2>1. CASE i <= Len(d)
    <3>1. i \in 1 .. Len(d)
      BY <1>4, <2>1
    <3>2. f[i] = d[i] /\ (a \o b)[i] = a[i] /\ a[i] = AsSent(d[i])
      BY <1>1, <1>2, <1>3, <1>4, <1>5, <3>1, SentIs
    <3> QED
      BY <2>0, <3>2
  <2>2. CASE ~(i <= Len(d))
    <3>1. PICK j \in 1 .. Len(e) : i = Len(d) + j
      <4>1. i - Len(d) \in 1 .. Len(e) /\ i = Len(d) + (i - Len(d))
        BY <1>4, <2>2
      <4> QED
        BY <4>1
    <3>2. f[i] = e[j] /\ (a \o b)[i] = b[j] /\ b[j] = AsSent(e[j])
      BY <1>1, <1>2, <1>3, <1>4, <1>5, <3>1, SentIs
    <3> QED
      BY <2>0, <3>2
  <2> QED
    BY <2>1, <2>2
<1>7. c = a \o b
  BY <1>4, <1>5, <1>6, SeqEqual
<1> QED
  BY <1>2, <1>3, <1>7

LEMMA ExpectedIs ==
  ASSUME NEW m \in Seq(Byte), WellFormed(m)
  PROVE  Expected(m) \in Seq(Told)
<1>1. m[1] \in Nat /\ Tail(m) \in Seq(Byte)
  <2>1. m # << >> /\ m[1] \in Byte
    BY Forms DEF WellFormed
  <2>2. Tail(m) \in Seq(Byte)
    BY <2>1, TailOf
  <2>4. Byte \subseteq Nat
    BY DEF Byte
  <2>3. m[1] \in Nat
    BY <2>1, <2>4
  <2> QED
    BY <2>2, <2>3
<1>2. Voice(m) => Expected(m) \in Seq(Told)
  <2>1. PICK c \in Told : c = <<m[1], Tail(m)>>
    BY <1>1 DEF Told
  <2>2. << c >> \in Seq(Told)
    OBVIOUS
  <2> QED
    BY <2>1, <2>2 DEF Expected
<1>3. IsNative(m) /\ NativeCommand(m) # << >> =>
        << <<\hF0, NativeCommand(m)[1].message>> >> \in Seq(Told)
  <2> SUFFICES ASSUME NativeCommand(m) # << >>
               PROVE  << <<\hF0, NativeCommand(m)[1].message>> >> \in Seq(Told)
    OBVIOUS
  <2>1. NativeCommand(m) = << Call(\hF0, 0, <<m[7]>>) >> /\ Len(m) > 7
    BY DEF NativeCommand
  <2>2. m[7] \in Byte
    BY <2>1
  <2>3. <<m[7]>> \in Seq(Byte)
    BY <2>2
  <2>4. NativeCommand(m)[1].message = <<m[7]>>
    BY <2>1 DEF Call
  <2>5. PICK c \in Told : c = <<\hF0, <<m[7]>> >>
    BY <2>3 DEF Told
  <2>6. << c >> \in Seq(Told)
    OBVIOUS
  <2> QED
    BY <2>4, <2>5, <2>6
<1>4. << >> \in Seq(Told)
  OBVIOUS
<1> QED
  BY <1>2, <1>3, <1>4 DEF Expected

\* What ExpectedCalls joins, of any messages.
AllExpected(ms) == FlattenSeq([i \in 1 .. Len(ms) |-> Expected(ms[i])])

LEMMA ExpectedNext ==
  ASSUME NEW ms \in Seq(Seq(Byte)), \A i \in 1 .. Len(ms) : WellFormed(ms[i]),
         NEW m \in Seq(Byte), WellFormed(m)
  PROVE  /\ AllExpected(ms) \in Seq(Told)
         /\ AllExpected(Append(ms, m)) = AllExpected(ms) \o Expected(m)
<1>1. PICK n \in Nat : n = Len(ms)
  OBVIOUS
<1>2. PICK ns \in Seq(Seq(Byte)) :
        /\ ns = Append(ms, m) /\ Len(ns) = n + 1 /\ ns[n + 1] = m
        /\ \A i \in 1 .. n : ns[i] = ms[i]
  <2>1. /\ Append(ms, m) \in Seq(Seq(Byte)) /\ Len(Append(ms, m)) = Len(ms) + 1
        /\ \A i \in 1 .. Len(ms) : Append(ms, m)[i] = ms[i]
        /\ Append(ms, m)[Len(ms) + 1] = m
    BY AppendTo
  <2> QED
    BY <1>1, <2>1
<1>3. \A i \in 1 .. n : ms[i] \in Seq(Byte) /\ WellFormed(ms[i])
  BY <1>1
<1>4. \A i \in 1 .. n + 1 : ns[i] \in Seq(Byte) /\ WellFormed(ns[i])
  BY <1>1, <1>2, <1>3
<1> DEFINE s == [i \in 1 .. n |-> Expected(ms[i])]
           t == [i \in 1 .. n + 1 |-> Expected(ns[i])]
<1>5. s \in [1 .. n -> Seq(Told)] /\ t \in [1 .. n + 1 -> Seq(Told)]
  BY <1>3, <1>4, ExpectedIs
<1>6. t[n + 1] = Expected(m) /\ \A i \in 1 .. n : t[i] = s[i]
  BY <1>2
<1>7. AllExpected(ms) = FlattenSeq(s) /\ AllExpected(ns) = FlattenSeq(t)
  BY <1>1, <1>2 DEF AllExpected
<1> HIDE DEF s, t
<1>8. FlattenSeq(s) \in Seq(Told)
  BY <1>5, <1>6, FlattenNext
<1>9. FlattenSeq(t) = FlattenSeq(s) \o t[n + 1]
  BY <1>5, <1>6, FlattenNext
<1> QED
  BY <1>2, <1>6, <1>7, <1>8, <1>9
-----------------------------------------------------------------------------
(* The wire.                                                               *)

LEMMA Begins ==
  ASSUME WireOK, NEW m, m \in session.message, Begin(m)
  PROVE  /\ m \in Seq(Byte) /\ WellFormed(m) /\ sent' = Append(sent, m)
         /\ WireOK' /\ Current' = m /\ todo' # << >>
         /\ \/ Read' = 0 /\ ranOn' = ranOn
            \/ /\ Read' = 1 /\ ranOn' = TRUE /\ running = m[1] /\ running # 0
               /\ Voice(m)
<1>1. m \in Seq(Byte) /\ WellFormed(m) /\ m # << >>
  <2>1. session \in Session
    BY DEF WireOK
  <2>2. WellFormed(m)
    BY <2>1, SessionAssumption
  <2> QED
    BY <2>2 DEF WellFormed, Byte
<1>2. /\ Len(m) \in Nat /\ Len(m) >= 1 /\ Len(Tail(m)) = Len(m) - 1
      /\ Tail(m) \in Seq(Byte) /\ \A i \in 1 .. Len(m) - 1 : Tail(m)[i] = m[i + 1]
  BY <1>1, TailOf
<1>3. /\ sent' \in Seq(Seq(Byte)) /\ Len(sent') = Len(sent) + 1
      /\ \A i \in 1 .. Len(sent) : sent'[i] = sent[i]
      /\ sent'[Len(sent) + 1] = m /\ Len(sent) \in Nat
  <2>1. sent' = Append(sent, m) /\ sent \in Seq(Seq(Byte))
    BY DEF Begin, WireOK
  <2> QED
    BY <1>1, <2>1, AppendTo
<1>4. Current' = m /\ sent' # << >> /\ sent' = Append(sent, m)
  BY <1>3 DEF Current, Begin
<1>5. \A i \in 1 .. Len(sent') : WellFormed(sent'[i])
  <2>1. \A i \in 1 .. Len(sent) : WellFormed(sent'[i])
    BY <1>3 DEF WireOK
  <2>2. ASSUME NEW i \in 1 .. Len(sent') PROVE i \in 1 .. Len(sent) \/ i = Len(sent) + 1
    BY <1>3
  <2> QED
    BY <1>1, <1>3, <2>1, <2>2
<1>6. running' = IF sent' # << >> /\ Voice(Current') THEN Current'[1] ELSE 0
  BY <1>4 DEF Begin
<1>7. /\ session' \in Session /\ ranOn' \in BOOLEAN /\ lost' \in Nat
      /\ steadied' \in Nat \cup {-1}
  BY DEF Begin, WireOK
<1>8. ASSUME todo' = m, ranOn' = ranOn
      PROVE  WireOK' /\ Read' = 0
  <2>1. Read' = 0
    BY <1>2, <1>4, <1>8 DEF Read
  <2>2. /\ todo' \in Seq(Byte)
        /\ todo' # << >> =>
             /\ sent' # << >> /\ Len(todo') <= Len(Current')
             /\ \A i \in 1 .. Len(todo') : todo'[i] = Current'[Read' + i]
    BY <1>1, <1>2, <1>4, <1>8, <2>1
  <2> QED
    BY <1>3, <1>5, <1>6, <1>7, <2>1, <2>2 DEF WireOK
<1>9. ASSUME todo' = Tail(m), Len(m) > 1
      PROVE  WireOK' /\ Read' = 1
  <2>1. Read' = 1
    BY <1>2, <1>4, <1>9 DEF Read
  <2>2. /\ todo' \in Seq(Byte)
        /\ todo' # << >> =>
             /\ sent' # << >> /\ Len(todo') <= Len(Current')
             /\ \A i \in 1 .. Len(todo') : todo'[i] = Current'[Read' + i]
    BY <1>1, <1>2, <1>4, <1>9, <2>1
  <2> QED
    BY <1>3, <1>5, <1>6, <1>7, <2>1, <2>2 DEF WireOK
<1>10. CASE todo' = m /\ ranOn' = ranOn
  BY <1>1, <1>4, <1>8, <1>10
<1>11. CASE running = m[1] /\ Len(m) > 1 /\ todo' = Tail(m) /\ ranOn' = TRUE
  <2>1. m[1] # 0
    BY <1>1 DEF WellFormed, IsStatus
  <2>2. Voice(m)
    BY <1>11, <2>1 DEF WireOK, Voice
  <2>3. todo' # << >>
    <3>1. Len(todo') # 0 /\ Len(<< >>) = 0
      BY <1>2, <1>11
    <3> QED
      BY <3>1
  <2> QED
    BY <1>1, <1>4, <1>9, <1>11, <2>1, <2>2, <2>3
<1> QED
  BY <1>10, <1>11 DEF Begin

LEMMA GoesOn ==
  ASSUME WireOK, NextByte, lost' \in Nat, steadied' \in Nat \cup {-1}
  PROVE  /\ WireOK' /\ Current \in Seq(Byte) /\ WellFormed(Current)
         /\ Read \in 0 .. Len(Current) - 1 /\ Head(todo) = Current[Read + 1]
         /\ Current' = Current /\ Read' = Read + 1 /\ sent' = sent
         /\ (todo' = << >>) <=> Read + 1 = Len(Current)
         /\ (Len(todo) = 1) <=> Read + 1 = Len(Current)
<1>1. /\ todo # << >> /\ todo' = Tail(todo) /\ todo \in Seq(Byte)
      /\ UNCHANGED <<session, running, sent, ranOn>>
  BY DEF NextByte, WireOK
<1>2. /\ sent # << >> /\ sent \in Seq(Seq(Byte)) /\ Len(todo) <= Len(Current)
      /\ \A i \in 1 .. Len(todo) : todo[i] = Current[Read + i]
      /\ \A i \in 1 .. Len(sent) : WellFormed(sent[i])
  BY <1>1 DEF WireOK
<1>3. Current \in Seq(Byte) /\ WellFormed(Current)
  <2>1. Len(sent) \in 1 .. Len(sent)
    BY <1>2
  <2> QED
    BY <1>2, <2>1 DEF Current
<1>4. /\ Head(todo) = todo[1] /\ todo' \in Seq(Byte) /\ Len(todo') = Len(todo) - 1
      /\ \A i \in 1 .. Len(todo) - 1 : todo'[i] = todo[i + 1]
      /\ Len(todo) \in Nat \ {0}
  BY <1>1, TailOf
<1>5. Current' = Current /\ sent' = sent
  BY <1>1 DEF Current
<1>6. Len(Current) \in Nat
  BY <1>3
<1>7. Read \in 0 .. Len(Current) - 1 /\ Read' = Read + 1
  BY <1>2, <1>4, <1>5, <1>6 DEF Read
<1>8. Head(todo) = Current[Read + 1]
  BY <1>2, <1>4
<1>9. (Len(todo) = 1) <=> Read + 1 = Len(Current)
  BY <1>4, <1>6 DEF Read
<1>10. (todo' = << >>) <=> Len(todo) = 1
  BY <1>4
<1>11. ASSUME NEW i \in 1 .. Len(todo') PROVE todo'[i] = Current[Read' + i]
  <2>1. PICK j \in 1 .. Len(todo) : j = i + 1 /\ i \in 1 .. Len(todo) - 1
    BY <1>4
  <2>2. Read' + i = Read + j
    BY <1>7, <2>1
  <2> QED
    BY <1>2, <1>4, <2>1, <2>2
<1>12. WireOK'
  <2>1. Len(todo') <= Len(Current)
    BY <1>2, <1>4, <1>6
  <2> QED
    BY <1>1, <1>2, <1>4, <1>5, <1>11, <2>1 DEF WireOK
<1> QED
  BY <1>3, <1>5, <1>7, <1>8, <1>9, <1>10, <1>12
-----------------------------------------------------------------------------
(* The steps.                                                              *)

LEMMA CallsOf ==
  ASSUME calls \in Seq(CallType)
  PROVE  MadeCalls = Sent(calls) /\ MadeCalls \in Seq(Told)
BY SentIs DEF MadeCalls, Sent

LEMMA MessageBegun ==
  ASSUME Inv, NEW m, m \in session.message, Begin(m), UNCHANGED <<parser, calls>>
  PROVE  Inv'
<1>1. /\ WireOK /\ Coherent(parser) /\ calls \in Seq(CallType)
      /\ DeliveredInv /\ BackInv
  BY DEF Inv
<1>2. /\ m \in Seq(Byte) /\ WellFormed(m) /\ sent' = Append(sent, m)
      /\ WireOK' /\ Current' = m /\ todo' # << >>
      /\ \/ Read' = 0 /\ ranOn' = ranOn
         \/ /\ Read' = 1 /\ ranOn' = TRUE /\ running = m[1] /\ running # 0
            /\ Voice(m)
  BY <1>1, Begins
<1>3. todo = << >> /\ lost' = lost /\ steadied' = steadied
      /\ parser' = parser /\ calls' = calls
  BY DEF Begin
<1>4. MadeCalls' = MadeCalls /\ MadeCalls \in Seq(Told)
  BY <1>1, <1>3, CallsOf DEF MadeCalls
<1>5. ExpectedCalls' = ExpectedCalls \o Expected(m)
  <2>1. sent \in Seq(Seq(Byte)) /\ \A i \in 1 .. Len(sent) : WellFormed(sent[i])
    BY <1>1 DEF WireOK
  <2>2. AllExpected(sent') = AllExpected(sent) \o Expected(m)
    BY <1>2, <2>1, ExpectedNext
  <2> QED
    BY <2>2 DEF ExpectedCalls, AllExpected
<1>6. DeliveredInv'
  <2> SUFFICES ASSUME lost = 0 PROVE DeliveredInv'
    BY <1>3 DEF DeliveredInv
  <2>1. /\ MadeCalls \o << >> = ExpectedCalls
        /\ Fresh(parser) /\ (running # 0 => Remembers(parser, running))
    BY <1>1, <1>3 DEF DeliveredInv, Owed
  <2>2. Owed' = Expected(m)
    BY <1>2 DEF Owed
  <2>3. MadeCalls' \o Owed' = ExpectedCalls'
    BY <1>4, <1>5, <2>1, <2>2, Joined
  <2>4. IF Read' = 0 THEN Fresh(parser') ELSE InPlace(parser', Current', Read')
    <3>1. CASE Read' = 0
      BY <1>3, <2>1, <3>1
    <3>2. CASE Read' = 1 /\ running = m[1] /\ running # 0 /\ Voice(m)
      <4>1. Remembers(parser, m[1])
        BY <2>1, <3>2
      <4>2. InPlace(parser, m, 1)
        BY <3>2, <4>1, InPlaceIs DEF Remembers
      <4> QED
        BY <1>2, <1>3, <3>2, <4>2
    <3> QED
      BY <1>2, <3>1, <3>2
  <2> QED
    BY <1>2, <2>3, <2>4 DEF DeliveredInv
<1>7. BackInv'
  <2>1. CASE Read' = 0 /\ ranOn' = ranOn
    BY <1>1, <1>3, <2>1 DEF BackInv
  <2>2. CASE ranOn' = TRUE
    BY <2>2 DEF BackInv
  <2> QED
    BY <1>2, <2>1, <2>2
<1>8. DeliversAgain'
  BY <1>2 DEF DeliversAgain
<1> QED
  BY <1>1, <1>2, <1>3, <1>6, <1>7, <1>8 DEF Inv

LEMMA ByteGone ==
  ASSUME Inv, ByteLost, UNCHANGED <<parser, calls>>
  PROVE  Inv'
<1>1. /\ WireOK /\ Coherent(parser) /\ calls \in Seq(CallType)
      /\ lost \in Nat
  BY DEF Inv, WireOK
<1>2. /\ NextByte /\ lost' = lost + 1 /\ parser' = parser /\ calls' = calls
      /\ steadied' = IF Len(todo) = 1 THEN 0 ELSE -1
  BY DEF ByteLost
<1>3. lost' \in Nat /\ lost' # 0 /\ steadied' \in Nat \cup {-1} /\ ~(steadied' >= 3)
      /\ (steadied' >= 0 => steadied' = 0 /\ Len(todo) = 1)
  BY <1>1, <1>2
<1>4. WireOK' /\ ((todo' = << >>) <=> Len(todo) = 1)
  BY <1>1, <1>2, <1>3, GoesOn
<1>5. DeliveredInv' /\ DeliversAgain'
  BY <1>3 DEF DeliveredInv, DeliversAgain
<1>6. BackInv'
  <2> SUFFICES ASSUME steadied' >= 0 PROVE BackInv'
    BY DEF BackInv
  <2>1. steadied' = 0 /\ todo' = << >>
    BY <1>3, <1>4
  <2>2. NotFar(parser', steadied')
    BY <2>1 DEF NotFar
  <2> QED
    BY <2>1, <2>2 DEF BackInv
<1> QED
  BY <1>1, <1>2, <1>4, <1>5, <1>6 DEF Inv

LEMMA ByteRead ==
  ASSUME Inv, Receive
  PROVE  Inv'
<1>1. /\ WireOK /\ Coherent(parser) /\ calls \in Seq(CallType)
      /\ DeliveredInv /\ BackInv
      /\ steadied \in Nat \cup {-1} /\ lost \in Nat
  BY DEF Inv, WireOK
<1>2. /\ NextByte /\ lost' = lost /\ ranOn' = ranOn /\ running' = running
      /\ steadied' = IF Len(todo) = 1 /\ (steadied = -1 \/ TwoData(Current))
                     THEN steadied + 1 ELSE steadied
      /\ todo # << >>
  BY DEF Receive, ByteSent, NextByte, Current
<1>3. lost' \in Nat /\ steadied' \in Nat \cup {-1}
  BY <1>1, <1>2
<1>4. /\ WireOK' /\ Current \in Seq(Byte) /\ WellFormed(Current)
      /\ Read \in 0 .. Len(Current) - 1 /\ Head(todo) = Current[Read + 1]
      /\ Current' = Current /\ Read' = Read + 1 /\ sent' = sent
      /\ (todo' = << >>) <=> Read + 1 = Len(Current)
      /\ (Len(todo) = 1) <=> Read + 1 = Len(Current)
  BY <1>1, <1>2, <1>3, GoesOn
<1>5. PICK m \in Seq(Byte), k \in Nat, b \in Byte :
        /\ m = Current /\ k = Read /\ b = Head(todo) /\ b = m[k + 1]
        /\ k \in 0 .. Len(m) - 1
        /\ WellFormed(m) /\ Len(m) \in Nat
  <2>1. Len(Current) \in Nat
    BY <1>4
  <2>2. Read + 1 \in 1 .. Len(Current)
    BY <1>4, <2>1
  <2>3. Current[Read + 1] \in Byte
    BY <1>4, <2>2
  <2> QED
    BY <1>4, <2>1, <2>3
<1>6. PICK q : q = Parser!ProcessMIDI(parser, b)
  OBVIOUS
<1>7. parser' = Kept(q) /\ calls' = calls \o q.done
  BY <1>5, <1>6 DEF Receive, Kept
<1>8. Coherent(parser') /\ q.done \in Seq(CallType)
  BY <1>1, <1>6, <1>7, StaysCoherent
<1>9. /\ calls' \in Seq(CallType) /\ MadeCalls' = MadeCalls \o Sent(q.done)
      /\ MadeCalls \in Seq(Told) /\ Sent(q.done) \in Seq(Told)
  <2>1. calls' \in Seq(CallType)
    BY <1>1, <1>7, <1>8, Joined
  <2>2. MadeCalls' = Sent(calls')
    BY DEF MadeCalls, Sent
  <2>3. MadeCalls = Sent(calls) /\ MadeCalls \in Seq(Told)
    BY <1>1, CallsOf
  <2> QED
    BY <1>1, <1>7, <1>8, <2>1, <2>2, <2>3, SentJoined, SentIs
<1>10. ASSUME IF k = 0 THEN Fresh(parser) ELSE InPlace(parser, m, k)
       PROVE  Goes(parser, m, k)
  <2>1. CASE k = 0
    BY <1>1, <1>5, <1>10, <2>1, FirstGoes
  <2>2. CASE k # 0
    <3>1. k \in 1 .. Len(m) - 1
      BY <1>5, <2>2
    <3> QED
      BY <1>1, <1>5, <1>10, <2>2, <3>1, NextGoes
  <2> QED
    BY <2>1, <2>2
<1>11. ASSUME Goes(parser, m, k)
       PROVE  /\ k + 1 < Len(m) => q.done = << >> /\ InPlace(parser', m, k + 1)
              /\ k + 1 = Len(m) =>
                   /\ Ended(q, m) /\ Fresh(parser')
                   /\ Voice(m) => Remembers(parser', m[1])
  <2>1. parser'.state = q.state /\ parser'.sStatus = q.sStatus
        /\ parser'.sChannel = q.sChannel
    BY <1>7 DEF Kept
  <2> QED
    BY <1>5, <1>6, <1>7, <1>11, <2>1 DEF Goes, Ended, Fresh, Remembers
<1>12. /\ Current' = m /\ Read' = k + 1
       /\ (todo' = << >>) <=> k + 1 = Len(m)
       /\ todo' # << >> <=> k + 1 < Len(m)
       /\ k + 1 # 0
  BY <1>4, <1>5
<1>13. DeliveredInv'
  <2> SUFFICES ASSUME lost = 0 PROVE DeliveredInv'
    BY <1>2 DEF DeliveredInv
  <2>1. /\ MadeCalls \o Expected(m) = ExpectedCalls
        /\ IF k = 0 THEN Fresh(parser) ELSE InPlace(parser, m, k)
    BY <1>1, <1>2, <1>5 DEF DeliveredInv, Owed
  <2>2. Goes(parser, m, k)
    BY <1>10, <2>1
  <2>3. ExpectedCalls' = ExpectedCalls
    BY <1>4 DEF ExpectedCalls
  <2>4. CASE k + 1 < Len(m)
    <3>1. q.done = << >> /\ InPlace(parser', m, k + 1)
      BY <1>11, <2>2, <2>4
    <3>2. MadeCalls' = MadeCalls
      BY <1>9, <3>1, NothingSent, Joined
    <3>3. todo' # << >> /\ Owed' = Expected(m)
      BY <1>12, <2>4 DEF Owed
    <3> QED
      BY <1>12, <2>1, <2>3, <3>1, <3>2, <3>3 DEF DeliveredInv
  <2>5. CASE k + 1 = Len(m)
    <3>1. /\ Sent(q.done) = Expected(m) /\ Fresh(parser')
          /\ Voice(m) => Remembers(parser', m[1])
      BY <1>11, <2>2, <2>5 DEF Ended
    <3>2. todo' = << >> /\ Owed' = << >>
      BY <1>12, <2>5 DEF Owed
    <3>3. MadeCalls' = ExpectedCalls
      BY <1>9, <2>1, <3>1
    <3>4. MadeCalls' \o Owed' = ExpectedCalls'
      <4>1. MadeCalls' \in Seq(Told)
        BY <1>9, Joined
      <4> QED
        BY <2>3, <3>2, <3>3, <4>1, Joined
    <3>5. running' # 0 => Remembers(parser', running')
      <4>1. running' # 0 => Voice(m) /\ running' = m[1]
        BY <1>4, <1>12 DEF WireOK
      <4> QED
        BY <3>1, <4>1
    <3> QED
      BY <3>1, <3>2, <3>4, <3>5 DEF DeliveredInv
  <2> QED
    BY <1>5, <2>4, <2>5
<1>14. ASSUME ~ranOn, steadied >= 0
       PROVE  /\ k + 1 < Len(m) =>
                   InPlace(parser', m, k + 1) \/ OutOfPlace(parser', m, k + 1, steadied)
              /\ k + 1 = Len(m) =>
                   NotFar(parser', IF TwoData(m) THEN steadied + 1 ELSE steadied)
              /\ steadied > 1 /\ k > 0 => Goes(parser, m, k)
  <2>0. PICK n \in Nat : n = steadied
    BY <1>1, <1>14
  <2>1. IF k = 0 THEN NotFar(parser, n)
        ELSE InPlace(parser, m, k) \/ OutOfPlace(parser, m, k, n)
    BY <1>1, <1>2, <1>5, <1>14, <2>0 DEF BackInv
  <2>2. Goes(parser, m, k) \/ Strays(parser, m, k, n)
    <3>1. CASE k = 0 /\ Fresh(parser)
      BY <1>10, <3>1
    <3>2. CASE k = 0 /\ ~Fresh(parser)
      BY <1>1, <1>5, <2>1, <3>2, FirstStrays
    <3>3. CASE k # 0 /\ InPlace(parser, m, k)
      BY <1>10, <3>3
    <3>4. CASE k # 0 /\ OutOfPlace(parser, m, k, n)
      <4>1. k \in 1 .. Len(m) - 1
        BY <1>5, <3>4
      <4> QED
        BY <1>1, <1>5, <3>4, <4>1, NextStrays
    <3> QED
      BY <2>1, <3>1, <3>2, <3>3, <3>4
  <2>3. n > 1 /\ k > 0 => Goes(parser, m, k)
    <3> SUFFICES ASSUME n > 1, k > 0 PROVE Goes(parser, m, k)
      OBVIOUS
    <3>1. k # 0 /\ n \notin {0, 1}
      OBVIOUS
    <3>2. InPlace(parser, m, k)
      BY <2>1, <3>1 DEF OutOfPlace
    <3> QED
      BY <1>10, <3>1, <3>2
  <2>4. CASE Goes(parser, m, k)
    <3>1. Fresh(parser') => \A i : NotFar(parser', i)
      BY DEF NotFar, Fresh
    <3> QED
      BY <1>11, <2>0, <2>3, <2>4, <3>1
  <2>5. CASE Strays(parser, m, k, n)
    BY <1>5, <1>6, <1>7, <2>0, <2>3, <2>5 DEF Strays
  <2> QED
    BY <2>2, <2>4, <2>5
<1>15. BackInv'
  <2> SUFFICES ASSUME ~ranOn, steadied' >= 0 PROVE BackInv'
    BY <1>2 DEF BackInv
  <2>1. CASE k + 1 < Len(m)
    <3>1. steadied' = steadied /\ todo' # << >>
      BY <1>2, <1>4, <1>5, <1>12, <2>1
    <3>2. InPlace(parser', m, k + 1) \/ OutOfPlace(parser', m, k + 1, steadied)
      BY <1>14, <2>1, <3>1
    <3> QED
      BY <1>12, <3>1, <3>2 DEF BackInv
  <2>2. CASE k + 1 = Len(m)
    <3>1. todo' = << >> /\ Len(todo) = 1
      BY <1>4, <1>5, <2>2
    <3>2. CASE steadied = -1
      <4>1. steadied' = 0
        BY <1>2, <3>1, <3>2
      <4> QED
        BY <3>1, <4>1 DEF BackInv, NotFar
    <3>3. CASE steadied # -1
      <4>1. steadied >= 0 /\ steadied' = IF TwoData(m) THEN steadied + 1 ELSE steadied
        BY <1>1, <1>2, <1>5, <3>1, <3>3
      <4>2. NotFar(parser', steadied')
        BY <1>14, <2>2, <4>1
      <4> QED
        BY <3>1, <4>2 DEF BackInv
    <3> QED
      BY <3>2, <3>3
  <2> QED
    BY <1>5, <2>1, <2>2
<1>16. DeliversAgain'
  <2> SUFFICES ASSUME ~ranOn, steadied' >= 3, todo' = << >>, TwoData(m)
               PROVE  Last(MadeCalls)' = <<m[1], Tail(m)>>
    <3>1. sent'[Len(sent')] = m /\ Last(sent') = m
      BY <1>12 DEF Current, Last
    <3> QED
      BY <1>2, <3>1 DEF DeliversAgain
  <2>1. k + 1 = Len(m) /\ Voice(m) /\ Len(m) = 3 /\ k > 0
    <3>1. Voice(m) /\ Len(m) = 3
      BY <1>5, Forms
    <3> QED
      BY <1>12, <3>1
  <2>2. steadied > 1 /\ steadied >= 0
    BY <1>1, <1>2
  <2>3. Ended(q, m)
    BY <1>11, <1>14, <2>1, <2>2
  <2>4. Sent(q.done) = << <<m[1], Tail(m)>> >>
    BY <2>1, <2>3 DEF Ended, Expected
  <2>5. Last(MadeCalls \o << <<m[1], Tail(m)>> >>) = <<m[1], Tail(m)>>
    <3>1. PICK s \in Seq(Told), u \in Seq(Told) :
            s = MadeCalls /\ u = << <<m[1], Tail(m)>> >>
      BY <1>9, <2>4
    <3>2. Len(u) = 1 /\ u[1] = <<m[1], Tail(m)>>
      BY <3>1
    <3>3. Len(s \o u) = Len(s) + 1 /\ (s \o u)[Len(s) + 1] = u[1]
      <4>1. 1 \in 1 .. Len(u)
        BY <3>2
      <4>2. /\ Len(s \o u) = Len(s) + Len(u)
            /\ \A i \in 1 .. Len(u) : (s \o u)[Len(s) + i] = u[i]
        BY Joined
      <4> QED
        BY <3>2, <4>1, <4>2
    <3> QED
      BY <3>1, <3>2, <3>3 DEF Last
  <2> QED
    BY <1>9, <2>4, <2>5
<1> QED
  BY <1>4, <1>8, <1>9, <1>13, <1>15, <1>16 DEF Inv
-----------------------------------------------------------------------------
(* The theorems.                                                           *)

LEMMA InvAtFirst == Init => Inv
<1> SUFFICES ASSUME Init PROVE Inv
  OBVIOUS
<1>1. /\ session \in Session /\ todo = << >> /\ running = 0 /\ sent = << >>
      /\ ranOn = FALSE /\ lost = 0 /\ steadied = 0
      /\ parser = Parser!Reset /\ calls = << >>
  BY DEF Init, WireInit
<1>2. sent \in Seq(Seq(Byte)) /\ todo \in Seq(Byte) /\ calls \in Seq(CallType)
      /\ Len(sent) = 0 /\ Len(calls) = 0
  BY <1>1
<1>3. WireOK
  <2>1. ~(todo # << >>) /\ ~(sent # << >>)
    BY <1>1
  <2>2. \A i \in 1 .. Len(sent) : WellFormed(sent[i])
    BY <1>2
  <2>3. /\ ranOn \in BOOLEAN /\ lost \in Nat /\ steadied \in Nat \cup {-1}
        /\ running = IF sent # << >> /\ Voice(Current) THEN Current[1] ELSE 0
    BY <1>1, <2>1
  <2> QED
    BY <1>1, <1>2, <2>1, <2>2, <2>3, Zenon DEF WireOK
<1>4. Coherent(parser) /\ parser.state = "idle"
  <2>0. << >> \in Seq(Byte)
    OBVIOUS
  <2>1. PICK e \in Seq(Byte) : e = << >>
    BY <2>0, Zenon
  <2>2. parser = [state |-> "idle", sStatus |-> 0, sChannel |-> 0,
                  sMessage |-> <<0, 0>>, sysex |-> e, done |-> << >>]
    BY <1>1, <2>1 DEF Parser!Reset
  <2>3. <<0, 0>> \in Message
    BY DEF Message, Byte
  <2>4. "idle" \in States /\ 0 \in Byte /\ 0 \in Channel /\ << >> \in NoCall
    BY DEF States, Byte, Channel, NoCall
  <2>5. parser \in ParserType(NoCall)
    BY <2>2, <2>3, <2>4 DEF ParserType
  <2> QED
    BY <2>2, <2>5 DEF Coherent
<1>5. MadeCalls = << >>
  <2>1. MadeCalls = Sent(calls)
    BY <1>2, CallsOf
  <2> QED
    BY <1>1, <2>1, NothingSent
<1>6. ExpectedCalls = << >>
  <2>1. [i \in 1 .. Len(sent) |-> Expected(sent[i])] = << >>
    BY <1>2
  <2>2. FlattenSeq(<< >>) = << >>
    BY DEF FlattenSeq
  <2> QED
    BY <2>1, <2>2 DEF ExpectedCalls
<1>7. DeliveredInv
  <2>1. << >> \o << >> = << >>
    OBVIOUS
  <2> QED
    BY <1>1, <1>4, <1>5, <1>6, <2>1 DEF DeliveredInv, Owed, Fresh
<1>8. BackInv /\ DeliversAgain
  BY <1>1, <1>4 DEF BackInv, NotFar, DeliversAgain
<1> QED
  BY <1>2, <1>3, <1>4, <1>7, <1>8 DEF Inv

LEMMA InvAlways == Inv /\ [Next]_vars => Inv'
<1> SUFFICES ASSUME Inv, [Next]_vars PROVE Inv'
  OBVIOUS
<1>1. ASSUME NEW m \in session.message, Begin(m), UNCHANGED <<parser, calls, clock>>
      PROVE  Inv'
  BY <1>1, MessageBegun
<1>2. CASE ByteLost /\ UNCHANGED <<parser, calls, clock>>
  BY <1>2, ByteGone
<1>3. CASE Receive
  BY <1>3, ByteRead
<1>4. ASSUME UNCHANGED <<session, todo, running, sent, ranOn, lost, steadied, parser, calls>>
      PROVE  Inv'
  <2>1. WireOK' /\ Current' = Current /\ Read' = Read
    BY <1>4 DEF Inv, WireOK, Current, Read
  <2>2. MadeCalls' = MadeCalls /\ ExpectedCalls' = ExpectedCalls
    BY <1>4 DEF MadeCalls, ExpectedCalls
  <2>3. DeliveredInv' /\ BackInv' /\ DeliversAgain'
    BY <1>4, <2>1, <2>2 DEF Inv, DeliveredInv, BackInv, DeliversAgain, Owed
  <2> QED
    BY <1>4, <2>1, <2>3 DEF Inv
<1>5. CASE \E b \in session.realTime : ReceiveRealTime(b)
  BY <1>4, <1>5 DEF ReceiveRealTime, RealTimeSent
<1>6. CASE UNCHANGED vars
  BY <1>4, <1>6 DEF vars, wireVars
<1> QED
  BY <1>1, <1>2, <1>3, <1>5, <1>6 DEF Next

LEMMA InvTells == Inv => DeliveredAsSent /\ DeliversAgain
<1> SUFFICES ASSUME Inv PROVE DeliveredAsSent
  BY DEF Inv
<1> SUFFICES ASSUME lost = 0
             PROVE  /\ IsPrefix(MadeCalls, ExpectedCalls)
                    /\ todo = << >> => MadeCalls = ExpectedCalls
  BY DEF DeliveredAsSent
<1>1. MadeCalls \in Seq(Told) /\ MadeCalls \o Owed = ExpectedCalls
  BY CallsOf DEF Inv, DeliveredInv
<1>2. Owed \in Seq(Told)
  <2>1. CASE todo = << >>
    BY <2>1 DEF Owed
  <2>2. CASE todo # << >>
    <3>1. sent # << >> /\ sent \in Seq(Seq(Byte))
          /\ \A i \in 1 .. Len(sent) : WellFormed(sent[i])
      BY <2>2 DEF Inv, WireOK
    <3>2. Len(sent) \in 1 .. Len(sent)
      BY <3>1
    <3>3. Current \in Seq(Byte) /\ WellFormed(Current)
      BY <3>1, <3>2 DEF Current
    <3> QED
      BY <2>2, <3>3, ExpectedIs DEF Owed
  <2> QED
    BY <2>1, <2>2
<1>3. PICK s \in Seq(Told), u \in Seq(Told) :
        s = MadeCalls /\ u = Owed /\ ExpectedCalls = s \o u
  BY <1>1, <1>2
<1>4. /\ Len(s \o u) = Len(s) + Len(u) /\ Len(s) \in Nat /\ Len(u) \in Nat
      /\ \A k \in 1 .. Len(s) : (s \o u)[k] = s[k]
      /\ s \o u \in Seq(Told) /\ s \o << >> = s
  BY Joined
<1>5. IsPrefix(s, s \o u)
  <2>1. Len(s) <= Len(s \o u) /\ Len(s) \in 0 .. Len(s \o u)
    BY <1>4
  <2>2. /\ SubSeq(s \o u, 1, Len(s)) \in Seq(Told)
        /\ Len(SubSeq(s \o u, 1, Len(s))) = Len(s)
        /\ \A k \in 1 .. Len(s) : SubSeq(s \o u, 1, Len(s))[k] = (s \o u)[k]
    BY <1>4, <2>1, FirstOf
  <2>3. s = SubSeq(s \o u, 1, Len(s))
    BY <1>4, <2>2, SeqEqual
  <2> QED
    BY <2>1, <2>3 DEF IsPrefix
<1>6. todo = << >> => MadeCalls = ExpectedCalls
  BY <1>3, <1>4 DEF Owed
<1> QED
  BY <1>3, <1>5, <1>6

\* The parser is always a parser of midi.c: one of its states, that waits
\* for data only of a status that has it, with two message bytes; and the
\* handler is only called with a status, a channel of 0 .. 15 and data.
THEOREM TypeCorrect == Spec => [](Coherent(parser) /\ calls \in Seq(CallType))
<1>1. Inv => Coherent(parser) /\ calls \in Seq(CallType)
  BY DEF Inv
<1> QED
  BY <1>1, InvAtFirst, InvAlways, PTL DEF Spec

\* Over a line that loses nothing the handler is called for the messages
\* as they were sent, each once and in order, by running status, cut short
\* or interrupted by real-time bytes as they may be (DeliveredAsSent).  The
\* invariant is that the parser is in place in the message on the wire, and
\* that the calls made and the one that message owes are those expected.
THEOREM MessagesDelivered == Spec => []DeliveredAsSent
BY InvAtFirst, InvAlways, InvTells, PTL DEF Spec

\* After a byte was lost, the third message of two data bytes received
\* whole is delivered as it was sent (DeliversAgain): the first leaves the
\* parser anywhere but at the start of a message's data, the second where a
\* status is taken for a status, and no other message undoes that.
THEOREM BackAfterTwo == Spec => []DeliversAgain
BY InvAtFirst, InvAlways, InvTells, PTL DEF Spec
-----------------------------------------------------------------------------
(***************************************************************************)
(* The Select Bus parser, on the same wire.                                *)
(***************************************************************************)
\* What one byte makes of the parser.
Recalls(p, b) == RecallParser!ProcessMIDI(p, b)

\* The parser waits for one data byte after a status of one, and after F4.
OneWanted(p) ==
  p.sStatus \in OneByteStatus \/ (p.sStatus = \hF0 /\ p.sChannel = 4)

CoherentRecall(p) ==
  /\ p \in ParserType(NoCall)
  /\ p.state = "want1of1" => OneWanted(p)
  /\ p.state \in {"want1of2", "want2"} => p.sStatus \in TwoByteStatus

\* At most one call, and one that Recall_ProcessMessage only hands on.
OneCall == {<< >>} \cup {<<c>> : c \in CallType}
HandedOn == {e \in CallType : e.status = \hF0 /\ e.channel # 4}
Quiet == {<< >>} \cup {<<c>> : c \in HandedOn}

AfterRecall(s, c) ==
  IF s \in TwoByteStatus THEN "want1of2"
  ELSE IF s \in OneByteStatus \/ (s = \hF0 /\ c = 4) THEN "want1of1"
  ELSE IF s = \hF0 /\ c = 0 THEN "sysex"
  ELSE "idle"

LEMMA CallIs ==
  ASSUME NEW s \in Byte, NEW c \in Channel, NEW m \in Message
  PROVE  Call(s, c, m) \in CallType /\ Len(m) = 2
<1>1. m \in Seq(Byte) /\ Len(m) = 2
  BY FunctionIsSeq DEF Message
<1>2. Len(<< >>) # 2
  OBVIOUS
<1>3. m \in Data
  BY <1>1, <1>2, Zenon DEF Data
<1> QED
  BY <1>1, <1>3 DEF Call, CallType

LEMMA QuietOne ==
  ASSUME NEW e \in CallType, e.status = \hF0, e.channel # 4
  PROVE  << e >> \in Quiet
<1>1. e \in HandedOn
  BY DEF HandedOn
<1>2. \E c \in HandedOn : << e >> = << c >>
  BY <1>1
<1> QED
  BY <1>2, Zenon DEF Quiet

LEMMA SystemCall ==
  ASSUME NEW c \in Channel, NEW m \in Message, c # 4
  PROVE  << Call(\hF0, c, m) >> \in Quiet /\ Quiet \subseteq OneCall
<1>1. \hF0 \in Byte
  BY DEF Byte
<1>2. PICK e \in CallType : e = Call(\hF0, c, m)
  BY <1>1, CallIs
<1>3. e.status = \hF0 /\ e.channel # 4
  BY <1>2 DEF Call
<1>4. << e >> \in Quiet
  BY <1>3, QuietOne
<1>5. Quiet \subseteq OneCall
  <2>1. HandedOn \subseteq CallType
    BY DEF HandedOn
  <2> QED
    BY <2>1, Zenon DEF Quiet, OneCall
<1> QED
  BY <1>2, <1>4, <1>5

\* What Recall_ProcessStatus makes of a status, and of a data byte that
\* comes after one.
LEMMA EnterRecall ==
  ASSUME NEW p \in ParserType(NoCall), NEW b \in Byte
  PROVE  LET q == RecallEnter(p, b)
             st == AfterRecall(p.sStatus, p.sChannel)
         IN  /\ q \in ParserType(Quiet) /\ q.state = st
             /\ q.sStatus = p.sStatus /\ q.sChannel = p.sChannel
             /\ q.sMessage = p.sMessage
             /\ st # "idle" => q \in ParserType(NoCall)
<1>1. PICK st \in States :
        st = AfterRecall(p.sStatus, p.sChannel) /\ RecallWanted(p) = st
  BY DEF RecallWanted, AfterRecall, States, TwoByteStatus,
         OneByteStatus
<1>2. p.sysex \in Seq(Byte) /\ <<b>> \in Seq(Byte) /\ p.done = << >>
      /\ p.sChannel \in Channel /\ p.sMessage \in Message /\ p.sStatus \in Byte
  BY DEF ParserType, NoCall
<1>3. PICK sx \in Seq(Byte) : sx = IF st = "sysex" THEN <<b>> ELSE p.sysex
  BY <1>2
<1>4. << >> \in Quiet /\ << >> \in NoCall
  BY DEF Quiet, NoCall
<1>5. PICK d \in Quiet :
        /\ d = IF st = "idle" /\ p.sStatus = \hF0
               THEN << Call(p.sStatus, p.sChannel, p.sMessage) >> ELSE p.done
        /\ st # "idle" => d = << >>
  <2>1. CASE st = "idle" /\ p.sStatus = \hF0
    <3>1. p.sChannel # 4
      BY <1>1, <2>1 DEF AfterRecall
    <3>2. << Call(p.sStatus, p.sChannel, p.sMessage) >> \in Quiet
      BY <1>2, <2>1, <3>1, SystemCall
    <3> QED
      BY <2>1, <3>2, Zenon
  <2>2. CASE ~(st = "idle" /\ p.sStatus = \hF0)
    BY <1>2, <1>4, <2>2, Zenon
  <2> QED
    BY <2>1, <2>2, Zenon
<1>6. RecallEnter(p, b) = [p EXCEPT !.state = st, !.sysex = sx, !.done = d]
  BY <1>1, <1>3, <1>5 DEF RecallEnter, Call
<1>7. LET q == [p EXCEPT !.state = st, !.sysex = sx, !.done = d]
      IN  /\ q \in ParserType(Quiet) /\ q.state = st
          /\ q.sStatus = p.sStatus /\ q.sChannel = p.sChannel
          /\ q.sMessage = p.sMessage /\ q.done = d
          /\ d \in NoCall => q \in ParserType(NoCall)
  BY DEF ParserType
<1> QED
  BY <1>1, <1>4, <1>5, <1>6, <1>7, Zenon

\* With a status of a channel message remembered, or within a sysex, the
\* parser does what that of midi.c does.
LEMMA SameStep ==
  ASSUME NEW p, CoherentRecall(p), NEW b \in Byte,
         \/ p.state \in {"want1of1", "want1of2", "want2"}
         \/ /\ p.state = "idle" /\ ~IsStatus(b)
            /\ p.sStatus \in OneByteStatus \cup TwoByteStatus
         \/ p.state = "sysex" /\ (~IsStatus(b) \/ b = SysExEnd)
  PROVE  Recalls(p, b) = Parser!ProcessMIDI(p, b)
<1>1. CASE p.state \in {"want1of1", "want1of2", "want2"}
  BY <1>1 DEF Recalls, RecallParser!ProcessMIDI, Parser!ProcessMIDI,
       RecallParser!Collect, Parser!Collect, RecallParser!Deliver, Parser!Deliver,
       RecallParser!Call, Parser!Call
<1>2. CASE p.state = "sysex" /\ (~IsStatus(b) \/ b = SysExEnd)
  <2>1. RecallParser!Keep(p, b) = Parser!Keep(p, b)
    BY Zenon DEF RecallParser!Keep, Parser!Keep
  <2>2. PICK kept : kept = Parser!Keep(p, b)
    OBVIOUS
  <2>3. \A r : RecallParser!EndOfSysex(r) = Parser!EndOfSysex(r)
    BY Zenon DEF RecallParser!EndOfSysex, Parser!EndOfSysex,
         RecallParser!IsNative, Parser!IsNative,
         RecallParser!sysExIDES, Parser!sysExIDES,
         RecallParser!NativeCommand, Parser!NativeCommand,
         RecallParser!Call, Parser!Call
  <2>4. /\ Recalls(p, b) = IF ~IsStatus(b) THEN kept
                           ELSE Parser!EndOfSysex([kept EXCEPT !.state = "idle"])
        /\ Parser!ProcessMIDI(p, b) = IF ~IsStatus(b) THEN kept
                           ELSE Parser!EndOfSysex([kept EXCEPT !.state = "idle"])
    BY <1>2, <2>1, <2>2, <2>3
       DEF Recalls, RecallParser!ProcessMIDI, Parser!ProcessMIDI,
           RecallParser!Collect, Parser!Collect,
           RecallParser!IsStatus, Parser!IsStatus, IsStatus,
           RecallParser!SysExEnd, Parser!SysExEnd, SysExEnd
  <2> QED
    BY <2>4
<1>3. CASE /\ p.state = "idle" /\ ~IsStatus(b)
           /\ p.sStatus \in OneByteStatus \cup TwoByteStatus
  <2>1. p.sStatus # \hF0
    BY <1>3 DEF OneByteStatus, TwoByteStatus
  <2>2. PICK st : st = Wanted(p) /\ st = RecallWanted(p) /\ st # "sysex" /\ st # "idle"
    BY <1>3, <2>1 DEF Wanted, RecallWanted, OneByteStatus,
         TwoByteStatus
  <2>3. p.sysex \in Seq(Byte) /\ p.done = << >> /\ p \in ParserType(NoCall)
    BY DEF CoherentRecall, ParserType, NoCall
  <2>4. PICK u : u = [p EXCEPT !.state = st, !.sysex = @, !.done = @]
                 /\ u = [p EXCEPT !.state = st, !.sysex = @]
    BY <2>3 DEF ParserType
  <2>5. RecallEnter(p, b) = u
    BY <2>1, <2>2, <2>4 DEF RecallEnter
  <2>6. Enter(p, b) = u
    BY <2>2, <2>4 DEF Enter
  <2>7. u.state \in {"want1of1", "want1of2"}
    BY <1>3, <2>2, <2>3, <2>4 DEF ParserType, Wanted
  <2> QED
    BY <1>3, <2>5, <2>6, <2>7 DEF Recalls, RecallParser!ProcessMIDI,
         Parser!ProcessMIDI, RecallParser!ProcessStatus, Parser!ProcessStatus,
         RecallParser!RunOn, Parser!RunOn, RecallParser!IsStatus, Parser!IsStatus,
         IsStatus, RecallParser!Collect, Parser!Collect,
         RecallParser!Deliver, Parser!Deliver, RecallParser!Call, Parser!Call
<1> QED
  BY <1>1, <1>2, <1>3

LEMMA RecallStatus ==
  ASSUME NEW p, CoherentRecall(p), NEW b \in Byte, IsStatus(b),
         p.state = "idle" \/ (p.state = "sysex" /\ b # SysExEnd)
  PROVE  LET q == Recalls(p, b)
             s == HighNibble(b)
             c == LowNibble(b)
         IN  /\ q \in ParserType(Quiet) /\ q.state = AfterRecall(s, c)
             /\ q.sStatus = s /\ q.sChannel = c
             /\ q.state # "idle" => q.done = << >>
<1>1. PICK s \in Byte, c \in Channel : s = HighNibble(b) /\ c = LowNibble(b)
  BY Nibbles
<1>2. ASSUME NEW r \in ParserType(NoCall)
      PROVE  LET q == RecallEnter([r EXCEPT !.sStatus = s, !.sChannel = c], b)
             IN  /\ q \in ParserType(Quiet) /\ q.state = AfterRecall(s, c)
                 /\ q.sStatus = s /\ q.sChannel = c
                 /\ q.state # "idle" => q.done = << >>
  <2>1. PICK u \in ParserType(NoCall) :
          /\ u = [r EXCEPT !.sStatus = s, !.sChannel = c]
          /\ u.sStatus = s /\ u.sChannel = c
    <3>1. LET u == [r EXCEPT !.sStatus = s, !.sChannel = c]
          IN  u \in ParserType(NoCall) /\ u.sStatus = s /\ u.sChannel = c
      BY DEF ParserType
    <3> QED
      BY <3>1, Zenon
  <2>2. PICK q : q = RecallEnter(u, b)
    OBVIOUS
  <2>3. /\ q \in ParserType(Quiet) /\ q.state = AfterRecall(s, c)
        /\ q.sStatus = s /\ q.sChannel = c
        /\ q.state # "idle" => q \in ParserType(NoCall)
    BY <2>1, <2>2, EnterRecall
  <2>4. q.state # "idle" => q.done = << >>
    BY <2>3 DEF ParserType, NoCall
  <2> QED
    BY <2>1, <2>2, <2>3, <2>4
<1>3. CASE p.state = "idle"
  <2>1. Recalls(p, b) = RecallEnter([p EXCEPT !.sStatus = s, !.sChannel = c], b)
    BY <1>1, <1>3 DEF Recalls, RecallParser!ProcessMIDI, RecallParser!ProcessStatus,
         RecallParser!StatusByte, RecallParser!IsStatus, IsStatus,
         RecallParser!HighNibble, HighNibble, RecallParser!LowNibble, LowNibble
  <2> QED
    BY <1>1, <1>2, <2>1 DEF CoherentRecall
<1>4. CASE p.state = "sysex" /\ b # SysExEnd
  <2> DEFINE kept == RecallParser!Keep(p, b)
             over == [kept EXCEPT !.state = "idle"]
  <2>1. kept \in ParserType(NoCall)
    <3>1. p \in ParserType(NoCall) /\ p.sysex \in Seq(Byte)
      BY DEF CoherentRecall, ParserType
    <3>2. PICK sx \in Seq(Byte) :
            sx = IF Len(p.sysex) < kMaxSysex THEN Append(p.sysex, b) ELSE p.sysex
      BY <3>1, AppendTo
    <3>3. kept = [p EXCEPT !.sysex = sx]
      BY <3>1, <3>2 DEF RecallParser!Keep
    <3> QED
      BY <3>1, <3>3, SetSysex
  <2>2. over \in ParserType(NoCall)
    BY <2>1, SetState DEF States
  <2>3. Recalls(p, b) = RecallEnter([over EXCEPT !.sStatus = s, !.sChannel = c], b)
    BY <1>1, <1>4 DEF Recalls, RecallParser!ProcessMIDI, RecallParser!Collect,
         RecallParser!StatusByte, RecallParser!IsStatus, IsStatus,
         RecallParser!HighNibble, HighNibble, RecallParser!LowNibble, LowNibble,
         RecallParser!SysExEnd, SysExEnd
  <2> QED
    BY <1>1, <1>2, <2>2, <2>3
<1> QED
  BY <1>3, <1>4

\* A complete message is one call.
LEMMA DeliversOne ==
  ASSUME NEW p \in ParserType(NoCall), NEW m \in Message, NEW q, Delivers(q, p, m)
  PROVE  q.done \in OneCall /\ q.state = "idle" /\ Kept(q) \in ParserType(NoCall)
         /\ Kept(q).state = "idle" /\ Kept(q).sStatus = p.sStatus
         /\ Kept(q).sChannel = p.sChannel
<1>1. PICK e \in CallType : q.done = << e >>
  <2>1. p.sStatus \in Byte /\ p.sChannel \in Channel
    BY DEF ParserType
  <2> QED
    BY <2>1, CallIs DEF Delivers, Called
<1>2. q.done \in OneCall
  BY <1>1, Zenon DEF OneCall
<1> QED
  BY <1>2, KeptIs DEF Delivers

\* A byte of data met in idle: it runs on the status F4 as on any status of
\* one data byte, opens a sysex again, or is handed on.
LEMMA RecallRunsOn ==
  ASSUME NEW p, CoherentRecall(p), NEW b \in Byte, p.state = "idle", ~IsStatus(b),
         p.sStatus \notin OneByteStatus \cup TwoByteStatus
  PROVE  LET q == Recalls(p, b)
         IN  /\ p.sStatus = \hF0 /\ p.sChannel = 4 =>
                  \E m \in Message : m[1] = b /\ Delivers(q, p, m)
             /\ p.sStatus = \hF0 /\ p.sChannel = 0 =>
                  q \in ParserType(NoCall) /\ q.state = "sysex"
             /\ ~(p.sStatus = \hF0 /\ p.sChannel \in {0, 4}) =>
                  /\ q \in ParserType(Quiet) /\ q.state = "idle"
                  /\ q.sStatus = p.sStatus /\ q.sChannel = p.sChannel
<1>1. p \in ParserType(NoCall)
  BY DEF CoherentRecall
<1>2. PICK u : u = RecallEnter(p, b)
  OBVIOUS
<1>3. /\ u \in ParserType(Quiet) /\ u.state = AfterRecall(p.sStatus, p.sChannel)
      /\ u.sStatus = p.sStatus /\ u.sChannel = p.sChannel
      /\ u.state # "idle" => u \in ParserType(NoCall)
  BY <1>1, <1>2, EnterRecall
<1>4. Recalls(p, b) = IF u.state = "idle" THEN u ELSE RecallParser!Collect(u, b)
  BY <1>2 DEF Recalls, RecallParser!ProcessMIDI, RecallParser!ProcessStatus,
       RecallParser!RunOn, RecallParser!IsStatus, IsStatus
<1>5. ASSUME p.sStatus = \hF0, p.sChannel = 4
      PROVE  \E m \in Message : m[1] = b /\ Delivers(Recalls(p, b), p, m)
  <2>1. u.state = "want1of1"
    BY <1>3, <1>5 DEF AfterRecall, OneByteStatus, TwoByteStatus
  <2>2. Recalls(p, b) = Parser!Deliver([u EXCEPT !.sMessage[1] = b])
    BY <1>4, <2>1 DEF RecallParser!Collect, RecallParser!Deliver, Parser!Deliver,
         RecallParser!Call, Parser!Call
  <2>3. PICK m \in Message :
          m[1] = b /\ Delivers(Parser!Deliver([u EXCEPT !.sMessage[1] = b]), u, m)
    BY <1>3, <2>1, Delivered
  <2> QED
    BY <1>3, <2>2, <2>3 DEF Delivers, Called
<1>6. ASSUME p.sStatus = \hF0, p.sChannel = 0
      PROVE  Recalls(p, b) \in ParserType(NoCall) /\ Recalls(p, b).state = "sysex"
  <2>1. u.state = "sysex" /\ u \in ParserType(NoCall) /\ u.sysex \in Seq(Byte)
    BY <1>3, <1>6 DEF AfterRecall, OneByteStatus, TwoByteStatus, ParserType
  <2>2. PICK sx \in Seq(Byte) :
          sx = IF Len(u.sysex) < kMaxSysex THEN Append(u.sysex, b) ELSE u.sysex
    BY <2>1, AppendTo
  <2>3. Recalls(p, b) = [u EXCEPT !.sysex = sx]
    BY <1>4, <2>1, <2>2 DEF RecallParser!Collect, RecallParser!Keep,
         RecallParser!IsStatus, IsStatus
  <2> QED
    BY <2>1, <2>3, SetSysex
<1>7. ASSUME ~(p.sStatus = \hF0 /\ p.sChannel \in {0, 4})
      PROVE  u.state = "idle" /\ Recalls(p, b) = u
  BY <1>3, <1>4, <1>7 DEF AfterRecall
<1> QED
  BY <1>3, <1>5, <1>6, <1>7

\* The data byte a status of one waits for, F4 among them.
LEMMA RecallOnly ==
  ASSUME NEW p, CoherentRecall(p), NEW b \in Byte,
         p.state = "want1of1" \/ (p.state = "idle" /\ ~IsStatus(b) /\ OneWanted(p))
  PROVE  \E m \in Message : m[1] = b /\ Delivers(Recalls(p, b), p, m)
<1>1. CASE p.state = "want1of1"
  <2>1. Recalls(p, b) = Parser!Deliver([p EXCEPT !.sMessage[1] = b])
    BY <1>1 DEF Recalls, RecallParser!ProcessMIDI, RecallParser!Collect,
         RecallParser!Deliver, Parser!Deliver, RecallParser!Call, Parser!Call
  <2> QED
    BY <2>1, Delivered DEF CoherentRecall
<1>2. CASE p.state = "idle" /\ ~IsStatus(b) /\ p.sStatus \in OneByteStatus
  <2>1. Coherent(p)
    BY <1>2 DEF Coherent, CoherentRecall
  <2>2. Recalls(p, b) = Parser!ProcessMIDI(p, b)
    BY <1>2, SameStep
  <2> QED
    BY <1>2, <2>1, <2>2, OnlyTaken
<1>3. CASE p.state = "idle" /\ ~IsStatus(b) /\ p.sStatus = \hF0 /\ p.sChannel = 4
  BY <1>3, RecallRunsOn DEF OneByteStatus, TwoByteStatus
<1> QED
  BY <1>1, <1>2, <1>3 DEF OneWanted

\* The first data byte of two, and the second.
LEMMA RecallFirst ==
  ASSUME NEW p, CoherentRecall(p), NEW b \in Byte,
         \/ p.state = "want1of2"
         \/ p.state = "idle" /\ ~IsStatus(b) /\ p.sStatus \in TwoByteStatus
  PROVE  LET q == Recalls(p, b)
         IN  /\ q \in ParserType(NoCall)
             /\ q.state = "want2" /\ q.sMessage[1] = b
             /\ q.sStatus = p.sStatus /\ q.sChannel = p.sChannel
<1>1. Coherent(p)
  BY DEF Coherent, CoherentRecall
<1>2. Recalls(p, b) = Parser!ProcessMIDI(p, b)
  BY SameStep
<1> QED
  BY <1>1, <1>2, FirstTaken

LEMMA RecallSecond ==
  ASSUME NEW p, CoherentRecall(p), NEW b \in Byte, p.state = "want2"
  PROVE  \E m \in Message : /\ m[1] = p.sMessage[1] /\ m[2] = b
                            /\ Delivers(Recalls(p, b), p, m)
<1>1. Coherent(p)
  BY DEF Coherent, CoherentRecall
<1>2. Recalls(p, b) = Parser!ProcessMIDI(p, b)
  BY SameStep
<1> QED
  BY <1>1, <1>2, SecondTaken

\* Within a sysex.
LEMMA RecallSysEx ==
  ASSUME NEW p, CoherentRecall(p), NEW b \in Byte, p.state = "sysex",
         ~IsStatus(b) \/ b = SysExEnd
  PROVE  LET q == Recalls(p, b)
         IN  /\ q \in ParserType(Quiet)
             /\ IsStatus(b) => q.state = "idle"
             /\ ~IsStatus(b) => q.state = "sysex" /\ q.done = << >>
<1>1. Coherent(p)
  BY DEF Coherent, CoherentRecall
<1>2. PICK q : q = Recalls(p, b) /\ q = Parser!ProcessMIDI(p, b)
  BY SameStep
<1>3. CASE ~IsStatus(b)
  <2>1. q \in ParserType(NoCall) /\ q.state = "sysex"
    BY <1>1, <1>2, <1>3, DataKept
  <2>2. q.done = << >> /\ q \in ParserType(Quiet)
    BY <2>1 DEF ParserType, NoCall, Quiet
  <2> QED
    BY <1>2, <1>3, <2>1, <2>2
<1>4. CASE b = SysExEnd
  <2>1. IsStatus(b)
    BY <1>4 DEF SysExEnd, IsStatus
  <2>2. PICK sx : /\ q \in ParserType(Seq(CallType)) /\ q.state = "idle"
                  /\ q.done = Acted(sx)
    BY <1>1, <1>2, <1>4, EndTaken
  <2>3. q.done \in Seq(CallType)
    BY <2>2 DEF ParserType
  <2>4. q.done \in Quiet
    <3>1. CASE IsNative(sx) /\ Len(sx) > 7 /\ sx[5] = \h5D /\ sx[6] \in {\h7F, 0}
      <4>1. q.done = << Call(\hF0, 0, <<sx[7]>>) >>
        BY <2>2, <3>1 DEF Acted, NativeCommand
      <4>2. PICK e \in CallType : e = Call(\hF0, 0, <<sx[7]>>)
        <5>1. PICK s \in Seq(CallType) : s = << Call(\hF0, 0, <<sx[7]>>) >>
          BY <2>3, <4>1
        <5>2. 1 \in 1 .. Len(s) /\ s[1] = Call(\hF0, 0, <<sx[7]>>)
          BY <5>1
        <5>3. s[1] \in CallType
          BY <5>2
        <5> QED
          BY <5>2, <5>3
      <4>3. e.status = \hF0 /\ e.channel # 4
        BY <4>2 DEF Call
      <4> QED
        BY <4>1, <4>2, <4>3, QuietOne
    <3>2. CASE ~(IsNative(sx) /\ Len(sx) > 7 /\ sx[5] = \h5D /\ sx[6] \in {\h7F, 0})
      <4>1. q.done = << >>
        BY <2>2, <3>2 DEF Acted, NativeCommand
      <4> QED
        BY <4>1, Zenon DEF Quiet
    <3> QED
      BY <3>1, <3>2
  <2>5. q \in ParserType(Quiet)
    BY <2>2, <2>4 DEF ParserType
  <2> QED
    BY <1>2, <2>1, <2>2, <2>5
<1> QED
  BY <1>3, <1>4

\* Whatever comes, a real-time byte too, the parser stays coherent and makes
\* at most one call.
LEMMA RecallCoherent ==
  ASSUME NEW p, CoherentRecall(p), NEW b \in Byte
  PROVE  LET q == Recalls(p, b)
         IN  CoherentRecall(Kept(q)) /\ q.done \in OneCall
<1>1. PICK q : q = Recalls(p, b)
  OBVIOUS
<1>2. p \in ParserType(NoCall) /\ p.state \in States
  BY DEF CoherentRecall, ParserType
<1>3. Quiet \subseteq OneCall /\ NoCall \subseteq OneCall
  <2>1. HandedOn \subseteq CallType
    BY DEF HandedOn
  <2> QED
    BY <2>1, Zenon DEF Quiet, OneCall, NoCall
<1>4. ASSUME NEW m \in Message, Delivers(q, p, m)
      PROVE  CoherentRecall(Kept(q)) /\ q.done \in OneCall
  BY <1>2, <1>4, DeliversOne DEF CoherentRecall
<1>5. ASSUME q \in ParserType(Quiet) \/ q \in ParserType(NoCall),
             q.state = "want1of1" => OneWanted(q),
             q.state \in {"want1of2", "want2"} => q.sStatus \in TwoByteStatus
      PROVE  CoherentRecall(Kept(q)) /\ q.done \in OneCall
  <2>1. /\ Kept(q) \in ParserType(NoCall) /\ Kept(q).state = q.state
        /\ Kept(q).sStatus = q.sStatus /\ Kept(q).sChannel = q.sChannel
        /\ q.done \in OneCall
    BY <1>3, <1>5, KeptIs
  <2> QED
    BY <1>1, <1>5, <2>1 DEF CoherentRecall, OneWanted
<1>6. CASE IsStatus(b) /\ (p.state = "idle" \/ (p.state = "sysex" /\ b # SysExEnd))
  <2>1. /\ q \in ParserType(Quiet)
        /\ q.state = AfterRecall(HighNibble(b), LowNibble(b))
        /\ q.sStatus = HighNibble(b) /\ q.sChannel = LowNibble(b)
    BY <1>1, <1>6, RecallStatus
  <2>2. /\ q.state = "want1of1" => OneWanted(q)
        /\ q.state \in {"want1of2", "want2"} => q.sStatus \in TwoByteStatus
    BY <2>1 DEF AfterRecall, OneWanted
  <2> QED
    BY <1>1, <1>5, <2>1, <2>2
<1>7. CASE p.state = "sysex" /\ (~IsStatus(b) \/ b = SysExEnd)
  <2>1. q \in ParserType(Quiet) /\ q.state \in {"idle", "sysex"}
    BY <1>1, <1>7, RecallSysEx
  <2> QED
    BY <1>1, <1>5, <2>1
<1>8. CASE p.state = "want1of1" \/ (p.state = "idle" /\ ~IsStatus(b) /\ OneWanted(p))
  BY <1>1, <1>4, <1>8, RecallOnly
<1>9. CASE p.state = "want2"
  BY <1>1, <1>4, <1>9, RecallSecond
<1>10. CASE \/ p.state = "want1of2"
            \/ p.state = "idle" /\ ~IsStatus(b) /\ p.sStatus \in TwoByteStatus
  <2>1. /\ q \in ParserType(NoCall) /\ q.state = "want2" /\ q.sStatus = p.sStatus
        /\ p.sStatus \in TwoByteStatus
    BY <1>1, <1>10, RecallFirst DEF CoherentRecall
  <2> QED
    BY <1>1, <1>5, <2>1
<1>11. CASE /\ p.state = "idle" /\ ~IsStatus(b)
            /\ p.sStatus \notin TwoByteStatus /\ ~OneWanted(p)
  <2>1. q \in ParserType(Quiet) \/ q \in ParserType(NoCall)
    BY <1>1, <1>11, RecallRunsOn DEF OneWanted
  <2>2. q.state \in {"idle", "sysex"}
    BY <1>1, <1>11, RecallRunsOn DEF OneWanted
  <2> QED
    BY <1>1, <1>5, <2>1, <2>2
<1> QED
  BY <1>1, <1>2, <1>6, <1>7, <1>8, <1>9, <1>10, <1>11 DEF States
-----------------------------------------------------------------------------
(* It reads a message to its end, and does what that asks.                 *)


\* As InPlace: what the first k bytes of m have made of the parser.
RecallInPlace(p, m, k) ==
  CASE Voice(m) ->
         /\ p.sStatus = HighNibble(m[1]) /\ p.sChannel = LowNibble(m[1])
         /\ IF k = 1 THEN p.state \in {"idle", IF TwoData(m) THEN "want1of2"
                                                             ELSE "want1of1"}
            ELSE p.state = "want2" /\ p.sMessage[1] = m[2]
    [] m[1] = SysExStart -> p.state = "sysex"
    [] m[1] = SelectSave ->
         p.state = "want1of1" /\ p.sStatus = \hF0 /\ p.sChannel = 4
    [] OTHER -> p.state = "idle" /\ p.sStatus = \hF0 /\ p.sChannel \notin {0, 4}

\* The calls of a message that has been read.
CallsFor(m, d) ==
  IF Voice(m) \/ m[1] = SelectSave
  THEN \E msg \in Message :
         /\ d = << Call(HighNibble(m[1]), LowNibble(m[1]), msg) >>
         /\ msg[1] = m[2] /\ (TwoData(m) => msg[2] = m[3])
  ELSE d \in Quiet

RecallGoes(p, m, k) ==
  LET q == Recalls(p, m[k + 1])
  IN  /\ k + 1 < Len(m) => q.done \in Quiet /\ RecallInPlace(Kept(q), m, k + 1)
      /\ k + 1 = Len(m) => /\ Fresh(q) /\ (Voice(m) => Remembers(q, m[1]))
                           /\ CallsFor(m, q.done)

LEMMA RecallInPlaceIs ==
  ASSUME NEW p, NEW m, NEW k
  PROVE  /\ Voice(m) =>
              (RecallInPlace(p, m, k) <=>
                /\ p.sStatus = HighNibble(m[1]) /\ p.sChannel = LowNibble(m[1])
                /\ IF k = 1
                   THEN p.state \in {"idle", IF TwoData(m) THEN "want1of2" ELSE "want1of1"}
                   ELSE p.state = "want2" /\ p.sMessage[1] = m[2])
         /\ m[1] = SysExStart => (RecallInPlace(p, m, k) <=> p.state = "sysex")
         /\ m[1] = SelectSave =>
              (RecallInPlace(p, m, k)
                 <=> p.state = "want1of1" /\ p.sStatus = \hF0 /\ p.sChannel = 4)
         /\ ~Voice(m) /\ m[1] # SysExStart /\ m[1] # SelectSave =>
              (RecallInPlace(p, m, k)
                 <=> p.state = "idle" /\ p.sStatus = \hF0 /\ p.sChannel \notin {0, 4})
<1>1. /\ Voice(m) => m[1] # SysExStart /\ m[1] # SelectSave
      /\ m[1] = SysExStart => m[1] # SelectSave
  BY DEF Voice, SysExStart, SelectSave
<1>2. CASE Voice(m)
  BY <1>1, <1>2 DEF RecallInPlace
<1>3. CASE m[1] = SysExStart
  BY <1>1, <1>3 DEF RecallInPlace
<1>4. CASE m[1] = SelectSave
  BY <1>1, <1>4 DEF RecallInPlace
<1>5. CASE ~Voice(m) /\ m[1] # SysExStart /\ m[1] # SelectSave
  BY <1>5 DEF RecallInPlace
<1> QED
  BY <1>2, <1>3, <1>4, <1>5

\* What Deliver leaves has called for m, when the status is m's.
LEMMA CallsForIs ==
  ASSUME NEW p \in ParserType(NoCall), NEW q, NEW m, NEW msg \in Message,
         Delivers(q, p, msg), Voice(m) \/ m[1] = SelectSave,
         p.sStatus = HighNibble(m[1]), p.sChannel = LowNibble(m[1]),
         msg[1] = m[2], TwoData(m) => msg[2] = m[3]
  PROVE  /\ Fresh(q) /\ Remembers(q, m[1]) /\ CallsFor(m, q.done)
BY DEF Delivers, Called, Fresh, Remembers, CallsFor

LEMMA RecallVoiceGoes ==
  ASSUME NEW p, CoherentRecall(p), NEW m \in Seq(Byte), WellFormed(m), Voice(m),
         NEW k \in 1 .. Len(m) - 1, RecallInPlace(p, m, k)
  PROVE  RecallGoes(p, m, k)
<1>1. PICK q, b : q = Recalls(p, b) /\ b = m[k + 1]
  OBVIOUS
<1>2. /\ p.sStatus = HighNibble(m[1]) /\ p.sChannel = LowNibble(m[1])
      /\ IF k = 1
         THEN p.state \in {"idle", IF TwoData(m) THEN "want1of2" ELSE "want1of1"}
         ELSE p.state = "want2" /\ p.sMessage[1] = m[2]
  BY RecallInPlaceIs
<1>3. b \in Byte /\ ~IsStatus(b) /\ Len(m) \in Nat /\ k \in Nat
  <2>1. Len(m) \in Nat /\ m[1] # SysExStart
    BY Forms DEF Voice, SysExStart
  <2>2. k + 1 \in 2 .. Len(m)
    BY <2>1
  <2> QED
    BY <1>1, <2>1, <2>2, Forms
<1>4. /\ TwoData(m) => Len(m) = 3 /\ p.sStatus \in TwoByteStatus
      /\ ~TwoData(m) => Len(m) = 2 /\ p.sStatus \in OneByteStatus
  BY <1>2, Forms DEF TwoData
<1>5. p \in ParserType(NoCall)
  BY DEF CoherentRecall
<1>6. CASE TwoData(m) /\ k = 1
  <2>1. /\ q \in ParserType(NoCall) /\ q.state = "want2" /\ q.sMessage[1] = m[2]
        /\ q.sStatus = p.sStatus /\ q.sChannel = p.sChannel
    BY <1>1, <1>2, <1>3, <1>4, <1>6, RecallFirst
  <2>2. /\ Kept(q).state = "want2" /\ Kept(q).sMessage[1] = m[2]
        /\ Kept(q).sStatus = p.sStatus /\ Kept(q).sChannel = p.sChannel
        /\ q.done \in NoCall
    BY <2>1, KeptIs
  <2>3. RecallInPlace(Kept(q), m, 2)
    BY <1>2, <2>2, RecallInPlaceIs
  <2>4. q.done \in Quiet
    BY <2>2 DEF NoCall, Quiet
  <2> QED
    BY <1>1, <1>4, <1>6, <2>3, <2>4 DEF RecallGoes
<1>7. CASE TwoData(m) /\ k # 1
  <2>1. Len(m) = 3 /\ k = 2 /\ p.state = "want2" /\ p.sMessage[1] = m[2]
    <3>1. Len(m) = 3 /\ k = 2
      <4>1. Len(m) = 3
        BY <1>4, <1>7
      <4> QED
        BY <1>3, <1>7, <4>1
    <3> QED
      BY <1>2, <3>1
  <2>2. PICK msg \in Message : msg[1] = m[2] /\ msg[2] = m[3] /\ Delivers(q, p, msg)
    BY <1>1, <1>3, <2>1, RecallSecond
  <2>3. Fresh(q) /\ Remembers(q, m[1]) /\ CallsFor(m, q.done)
    BY <1>2, <1>5, <2>2, CallsForIs
  <2> QED
    BY <1>1, <2>1, <2>3 DEF RecallGoes
<1>8. CASE ~TwoData(m)
  <2>1. Len(m) = 2 /\ k = 1 /\ p.state \in {"idle", "want1of1"}
    <3>1. Len(m) = 2 /\ k = 1
      <4>1. Len(m) = 2
        BY <1>4, <1>8
      <4> QED
        BY <1>3, <4>1
    <3> QED
      BY <1>2, <1>8, <3>1
  <2>2. PICK msg \in Message : msg[1] = m[2] /\ Delivers(q, p, msg)
    BY <1>1, <1>3, <1>4, <1>8, <2>1, RecallOnly DEF OneWanted
  <2>3. Fresh(q) /\ Remembers(q, m[1]) /\ CallsFor(m, q.done)
    BY <1>2, <1>5, <1>8, <2>2, CallsForIs
  <2> QED
    BY <1>1, <2>1, <2>3 DEF RecallGoes
<1> QED
  BY <1>6, <1>7, <1>8

LEMMA RecallOtherGoes ==
  ASSUME NEW p, CoherentRecall(p), NEW m \in Seq(Byte), WellFormed(m), ~Voice(m),
         m[1] = SelectSave => Len(m) = 2,
         NEW k \in 1 .. Len(m) - 1, RecallInPlace(p, m, k)
  PROVE  RecallGoes(p, m, k)
<1>1. PICK q, b : q = Recalls(p, b) /\ b = m[k + 1]
  OBVIOUS
<1>2. /\ b \in Byte /\ Len(m) \in Nat /\ k \in Nat /\ ~TwoData(m)
      /\ IsStatus(b) => m[1] = SysExStart /\ b = SysExEnd /\ k + 1 = Len(m)
  <2>1. Len(m) \in Nat /\ ~TwoData(m)
    BY Forms
  <2>2. k + 1 \in 2 .. Len(m)
    BY <2>1
  <2> QED
    BY <1>1, <2>1, <2>2, Forms
<1>3. p \in ParserType(NoCall) /\ SysExStart # SelectSave
  BY DEF CoherentRecall, SysExStart, SelectSave
<1>4. CASE m[1] = SysExStart
  <2>1. p.state = "sysex"
    BY <1>4, RecallInPlaceIs
  <2>2. /\ q \in ParserType(Quiet)
        /\ IsStatus(b) => q.state = "idle"
        /\ ~IsStatus(b) => q.state = "sysex"
    BY <1>1, <1>2, <2>1, RecallSysEx
  <2>3. q.done \in Quiet /\ Kept(q).state = q.state
    BY <2>2, KeptIs
  <2>4. k + 1 < Len(m) => RecallInPlace(Kept(q), m, k + 1)
    BY <1>2, <1>4, <2>2, <2>3, RecallInPlaceIs
  <2>5. Fresh(q) /\ CallsFor(m, q.done)
    BY <1>3, <1>4, <2>2, <2>3 DEF Fresh, CallsFor
  <2> QED
    BY <1>1, <2>3, <2>4, <2>5 DEF RecallGoes
<1>5. CASE m[1] = SelectSave
  <2>1. /\ p.state = "want1of1" /\ p.sStatus = \hF0 /\ p.sChannel = 4
        /\ Len(m) = 2 /\ k = 1
    <3>1. Len(m) = 2
      BY <1>5
    <3>2. k = 1
      BY <1>2, <3>1
    <3> QED
      BY <1>5, <3>1, <3>2, RecallInPlaceIs
  <2>2. PICK msg \in Message : msg[1] = m[2] /\ Delivers(q, p, msg)
    BY <1>1, <1>2, <2>1, RecallOnly
  <2>3. HighNibble(m[1]) = \hF0 /\ LowNibble(m[1]) = 4
    BY <1>5 DEF SelectSave, HighNibble, LowNibble
  <2>4. Fresh(q) /\ CallsFor(m, q.done)
    BY <1>2, <1>3, <1>5, <2>1, <2>2, <2>3, CallsForIs
  <2> QED
    BY <1>1, <2>1, <2>4 DEF RecallGoes
<1>6. CASE m[1] # SysExStart /\ m[1] # SelectSave
  <2>1. p.state = "idle" /\ p.sStatus = \hF0 /\ p.sChannel \notin {0, 4}
    BY <1>6, RecallInPlaceIs
  <2>2. /\ q \in ParserType(Quiet) /\ q.state = "idle"
        /\ q.sStatus = \hF0 /\ q.sChannel \notin {0, 4}
    BY <1>1, <1>2, <1>6, <2>1, RecallRunsOn DEF OneByteStatus, TwoByteStatus
  <2>3. /\ q.done \in Quiet /\ Kept(q).state = "idle"
        /\ Kept(q).sStatus = \hF0 /\ Kept(q).sChannel \notin {0, 4}
    BY <2>2, KeptIs
  <2>4. RecallInPlace(Kept(q), m, k + 1)
    BY <1>6, <2>3, RecallInPlaceIs
  <2>5. Fresh(q) /\ CallsFor(m, q.done)
    BY <1>6, <2>2, <2>3 DEF Fresh, CallsFor
  <2> QED
    BY <1>1, <2>3, <2>4, <2>5 DEF RecallGoes
<1> QED
  BY <1>4, <1>5, <1>6

LEMMA RecallFirstGoes ==
  ASSUME NEW p, CoherentRecall(p), NEW m \in Seq(Byte), WellFormed(m),
         m[1] = SelectSave => Len(m) = 2, Fresh(p)
  PROVE  RecallGoes(p, m, 0)
<1>1. PICK q, b : q = Recalls(p, b) /\ b = m[1]
  OBVIOUS
<1>2. b \in Byte /\ IsStatus(b) /\ b # SysExEnd /\ Len(m) \in Nat /\ Len(m) >= 1
  BY <1>1, Forms
<1>3. /\ q \in ParserType(Quiet)
      /\ q.state = AfterRecall(HighNibble(b), LowNibble(b))
      /\ q.sStatus = HighNibble(b) /\ q.sChannel = LowNibble(b)
  BY <1>1, <1>2, RecallStatus DEF Fresh
<1>4. /\ Kept(q).state = q.state /\ q.done \in Quiet
      /\ Kept(q).sStatus = q.sStatus /\ Kept(q).sChannel = q.sChannel
  BY <1>3, KeptIs
<1>5. CASE Voice(m)
  <2>1. Len(m) # 1 /\ (~TwoData(m) => HighNibble(b) \in OneByteStatus)
    BY <1>1, <1>5, Forms
  <2>2. q.state = IF TwoData(m) THEN "want1of2" ELSE "want1of1"
    BY <1>1, <1>3, <2>1 DEF AfterRecall, TwoData
  <2>3. RecallInPlace(Kept(q), m, 1)
    BY <1>1, <1>3, <1>4, <1>5, <2>2, RecallInPlaceIs
  <2> QED
    BY <1>1, <1>4, <2>1, <2>3 DEF RecallGoes
<1>6. CASE ~Voice(m)
  <2>1. HighNibble(b) = \hF0 /\ LowNibble(b) = b - \hF0
    <3>1. b >= \hF0
      BY <1>1, <1>2, <1>6 DEF Voice, SysExStart, Byte
    <3> QED
      BY <1>2, <3>1, Nibbles
  <2>2. q.state = IF b = SysExStart THEN "sysex"
                  ELSE IF b = SelectSave THEN "want1of1" ELSE "idle"
    BY <1>2, <1>3, <2>1 DEF AfterRecall, OneByteStatus, TwoByteStatus, SysExStart,
         SelectSave, Byte
  <2>3. RecallInPlace(Kept(q), m, 1)
    <3>1. b # SysExStart /\ b # SelectSave => LowNibble(b) \notin {0, 4}
      BY <1>2, <2>1 DEF SysExStart, SelectSave, Byte
    <3>2. b = SelectSave => LowNibble(b) = 4
      BY <2>1 DEF SelectSave
    <3>3. SysExStart # SelectSave
      BY DEF SysExStart, SelectSave
    <3>4. CASE b = SysExStart
      <4>1. Kept(q).state = "sysex"
        BY <1>4, <2>2, <3>4
      <4> QED
        BY <1>1, <1>6, <3>3, <3>4, <4>1 DEF RecallInPlace
    <3>5. CASE b = SelectSave
      BY <1>1, <1>3, <1>4, <2>1, <2>2, <3>2, <3>3, <3>5, RecallInPlaceIs
    <3>6. CASE b # SysExStart /\ b # SelectSave
      <4>1. /\ Kept(q).state = "idle" /\ Kept(q).sStatus = \hF0
            /\ Kept(q).sChannel \notin {0, 4}
        BY <1>3, <1>4, <2>1, <2>2, <3>1, <3>6
      <4> QED
        BY <1>1, <1>6, <3>6, <4>1, RecallInPlaceIs
    <3> QED
      BY <3>4, <3>5, <3>6
  <2>4. ASSUME Len(m) = 1 PROVE Fresh(q) /\ CallsFor(m, q.done)
    <3>1. b # SelectSave
      BY <1>1, <2>4
    <3> QED
      BY <1>1, <1>4, <1>6, <2>2, <3>1 DEF Fresh, CallsFor
  <2> QED
    BY <1>1, <1>4, <1>6, <2>3, <2>4 DEF RecallGoes
<1> QED
  BY <1>5, <1>6

\* Every byte of a message, by a parser in place.
LEMMA RecallInPlaceGoes ==
  ASSUME NEW p, CoherentRecall(p), NEW m \in Seq(Byte), WellFormed(m),
         m[1] = SelectSave => Len(m) = 2,
         NEW k \in 0 .. Len(m) - 1,
         IF k = 0 THEN Fresh(p) ELSE RecallInPlace(p, m, k)
  PROVE  RecallGoes(p, m, k)
<1>1. CASE k = 0
  BY <1>1, RecallFirstGoes
<1>2. CASE k # 0
  <2>1. k \in 1 .. Len(m) - 1
    BY <1>2
  <2>2. RecallInPlace(p, m, k)
    BY <1>2
  <2> QED
    BY <2>1, <2>2, RecallVoiceGoes, RecallOtherGoes
<1> QED
  BY <1>1, <1>2
-----------------------------------------------------------------------------
(* Out of place, it finds its way back as that of midi.c does.             *)

RecallOutOfPlace(p, m, k, n) ==
  /\ n \in {0, 1}
  /\ p.state \in {"idle", "want2"}
  /\ OneWanted(p) \/ p.sStatus \in TwoByteStatus
  /\ TwoData(m) /\ n = 1 =>
       /\ k = 1 => p.state = "idle"
       /\ k = 2 => p.state = "want2" \/ OneWanted(p)

RecallStrays(p, m, k, n) ==
  LET q == Kept(Recalls(p, m[k + 1]))
  IN  /\ k + 1 < Len(m) => RecallOutOfPlace(q, m, k + 1, n)
      /\ k + 1 = Len(m) => NotFar(q, IF TwoData(m) THEN n + 1 ELSE n)

LEMMA RecallFirstStrays ==
  ASSUME NEW p, CoherentRecall(p), NEW m \in Seq(Byte), WellFormed(m), ~Fresh(p),
         NEW n \in Nat, NotFar(p, n)
  PROVE  RecallStrays(p, m, 0, n)
<1>1. PICK q : q = Kept(Recalls(p, m[1]))
  OBVIOUS
<1>2. m[1] \in Byte /\ Len(m) \in Nat /\ p \in ParserType(NoCall)
  BY Forms DEF CoherentRecall
<1>3. n \in {0, 1} /\ (n = 1 => p.state # "want1of2")
  BY DEF NotFar
<1>4. p.state \in {"want1of1", "want1of2", "want2"}
  BY <1>2 DEF Fresh, ParserType, States
<1>5. Len(m) = 1 => ~TwoData(m)
  BY Forms
<1>6. /\ q.state \in {"idle", "want2"} /\ (n = 1 => q.state = "idle")
      /\ OneWanted(q) \/ q.sStatus \in TwoByteStatus
  <2>1. CASE p.state = "want1of1"
    <3>1. PICK msg \in Message : Delivers(Recalls(p, m[1]), p, msg)
      BY <1>2, <2>1, RecallOnly
    <3>2. q.state = "idle" /\ q.sStatus = p.sStatus /\ q.sChannel = p.sChannel
      BY <1>1, <1>2, <3>1, DeliversOne
    <3> QED
      BY <2>1, <3>2 DEF CoherentRecall, OneWanted
  <2>2. CASE p.state = "want1of2"
    <3>1. LET r == Recalls(p, m[1])
          IN  r \in ParserType(NoCall) /\ r.state = "want2" /\ r.sStatus = p.sStatus
      BY <1>2, <2>2, RecallFirst
    <3>2. q.state = "want2" /\ q.sStatus = p.sStatus
      BY <1>1, <3>1, KeptIs
    <3> QED
      BY <1>3, <2>2, <3>2 DEF CoherentRecall
  <2>3. CASE p.state = "want2"
    <3>1. PICK msg \in Message : Delivers(Recalls(p, m[1]), p, msg)
      BY <1>2, <2>3, RecallSecond
    <3>2. q.state = "idle" /\ q.sStatus = p.sStatus /\ q.sChannel = p.sChannel
      BY <1>1, <1>2, <3>1, DeliversOne
    <3> QED
      BY <2>3, <3>2 DEF CoherentRecall
  <2> QED
    BY <1>4, <2>1, <2>2, <2>3
<1>7. RecallOutOfPlace(q, m, 1, n)
  BY <1>3, <1>6 DEF RecallOutOfPlace
<1>8. Len(m) = 1 => NotFar(q, n)
  BY <1>3, <1>6 DEF NotFar
<1> QED
  BY <1>1, <1>5, <1>7, <1>8 DEF RecallStrays

LEMMA RecallNextStrays ==
  ASSUME NEW p, CoherentRecall(p), NEW m \in Seq(Byte), WellFormed(m),
         NEW k \in 1 .. Len(m) - 1, NEW n \in Nat, RecallOutOfPlace(p, m, k, n)
  PROVE  RecallStrays(p, m, k, n)
<1>1. PICK q, b : b = m[k + 1] /\ q = Kept(Recalls(p, b))
  OBVIOUS
<1>2. /\ b \in Byte /\ Len(m) \in Nat /\ k \in Nat
      /\ IsStatus(b) => b = SysExEnd /\ k + 1 = Len(m) /\ ~Voice(m)
  <2>1. Len(m) \in Nat
    BY Forms
  <2>2. k + 1 \in 2 .. Len(m)
    BY <2>1
  <2> QED
    BY <1>1, <2>1, <2>2, Forms DEF Voice, SysExStart
<1>3. /\ n \in {0, 1} /\ p.state \in {"idle", "want2"}
      /\ OneWanted(p) \/ p.sStatus \in TwoByteStatus
      /\ TwoData(m) /\ n = 1 =>
           /\ k = 1 => p.state = "idle"
           /\ k = 2 => p.state = "want2" \/ OneWanted(p)
  BY DEF RecallOutOfPlace
<1>4. /\ TwoData(m) => Len(m) = 3 /\ Voice(m)
      /\ p \in ParserType(NoCall)
  BY Forms DEF CoherentRecall
<1>5. OneWanted(p) => p.sStatus \notin TwoByteStatus
  BY DEF OneWanted, OneByteStatus, TwoByteStatus
<1>6. CASE IsStatus(b) /\ p.state = "idle"
  <2>1. LET r == Recalls(p, b)
        IN  r \in ParserType(Quiet)
            /\ r.state = AfterRecall(HighNibble(b), LowNibble(b))
    BY <1>2, <1>6, RecallStatus
  <2>2. AfterRecall(HighNibble(b), LowNibble(b)) = "idle"
    BY <1>2, <1>6
       DEF AfterRecall, SysExEnd, HighNibble, LowNibble, TwoByteStatus, OneByteStatus
  <2>3. q.state = "idle"
    BY <1>1, <2>1, <2>2, KeptIs
  <2>4. NotFar(q, n)
    BY <1>3, <2>3 DEF NotFar
  <2> QED
    BY <1>1, <1>2, <1>4, <1>6, <2>4 DEF RecallStrays
<1>7. CASE ~IsStatus(b) \/ p.state = "want2"
  <2>1. /\ q.state \in {"idle", "want2"}
        /\ q.sStatus = p.sStatus /\ q.sChannel = p.sChannel
        /\ p.state = "want2" \/ OneWanted(p) => q.state = "idle"
        /\ p.state = "idle" /\ p.sStatus \in TwoByteStatus => q.state = "want2"
    <3>1. CASE p.state = "want2" \/ OneWanted(p)
      <4>1. PICK msg \in Message : Delivers(Recalls(p, b), p, msg)
        BY <1>2, <1>3, <1>7, <3>1, RecallOnly, RecallSecond
      <4>2. q.state = "idle" /\ q.sStatus = p.sStatus /\ q.sChannel = p.sChannel
        BY <1>1, <1>4, <4>1, DeliversOne
      <4> QED
        BY <1>5, <3>1, <4>2
    <3>2. CASE p.state = "idle" /\ p.sStatus \in TwoByteStatus
      <4>1. LET r == Recalls(p, b)
            IN  /\ r \in ParserType(NoCall) /\ r.state = "want2"
                /\ r.sStatus = p.sStatus /\ r.sChannel = p.sChannel
        BY <1>2, <1>7, <3>2, RecallFirst
      <4>2. q.state = "want2" /\ q.sStatus = p.sStatus /\ q.sChannel = p.sChannel
        BY <1>1, <4>1, KeptIs
      <4> QED
        BY <1>5, <3>2, <4>2
    <3> QED
      BY <1>3, <3>1, <3>2
  <2>2. RecallOutOfPlace(q, m, k + 1, n)
    BY <1>2, <1>3, <2>1 DEF RecallOutOfPlace, OneWanted
  <2>3. ~TwoData(m) => NotFar(q, n)
    BY <1>3, <2>1 DEF NotFar
  <2>4. TwoData(m) /\ k + 1 = Len(m) => NotFar(q, n + 1)
    <3> SUFFICES ASSUME TwoData(m), k + 1 = Len(m) PROVE NotFar(q, n + 1)
      OBVIOUS
    <3>1. k = 2
      <4>1. k + 1 = 3 /\ k \in Nat
        BY <1>2, <1>4
      <4> QED
        BY <4>1
    <3>2. n = 0 => NotFar(q, n + 1)
      BY <2>1 DEF NotFar
    <3>3. n = 1 => q.state = "idle"
      BY <1>3, <2>1, <3>1
    <3> QED
      BY <1>3, <3>2, <3>3 DEF NotFar, Fresh
  <2> QED
    BY <1>1, <2>2, <2>3, <2>4 DEF RecallStrays
<1> QED
  BY <1>3, <1>6, <1>7
-----------------------------------------------------------------------------
(* What is done, and what was asked for.                                   *)

Preset == [kind : {"save", "load"}, slot : 0 .. 63]
Deed == Preset \cup [kind : {"handle"}, call : CallType]

\* What SavesAndLoads joins, of any deeds.
SaveOrLoad(e) == IF e.kind = "handle" THEN << >> ELSE <<e>>
AllDone(ds) == FlattenSeq([i \in 1 .. Len(ds) |-> SaveOrLoad(ds[i])])

\* What a message asks for, and whether it is the controller of the save mode.
AskedOf(m, armed) ==
  CASE m[1] = \hC0 ->
         << IF armed THEN Saved(m[2]) ELSE Loaded(m[2]) >>
    [] m[1] = SelectSave /\ m[2] < \h40 -> <<Saved(m[2])>>
    [] OTHER -> << >>
Arms(m) == Len(m) = 3 /\ m[1] = \hB0 /\ m[2] = SaveModeController

LEMMA SavesAndLoadsAre == SavesAndLoads = AllDone(deeds)
BY Zenon DEF SavesAndLoads, AllDone, SaveOrLoad

LEMMA DoneNext ==
  ASSUME NEW ds \in Seq(Deed), NEW e \in Deed
  PROVE  /\ AllDone(ds) \in Seq(Deed)
         /\ AllDone(Append(ds, e)) = AllDone(ds) \o SaveOrLoad(e)
<1>1. PICK n \in Nat : n = Len(ds)
  OBVIOUS
<1>2. PICK es \in Seq(Deed) :
        /\ es = Append(ds, e) /\ Len(es) = n + 1 /\ es[n + 1] = e
        /\ \A i \in 1 .. n : es[i] = ds[i]
  <2>1. /\ Append(ds, e) \in Seq(Deed) /\ Len(Append(ds, e)) = Len(ds) + 1
        /\ \A i \in 1 .. Len(ds) : Append(ds, e)[i] = ds[i]
        /\ Append(ds, e)[Len(ds) + 1] = e
    BY AppendTo
  <2> QED
    BY <1>1, <2>1
<1>3. ASSUME NEW x \in Deed PROVE SaveOrLoad(x) \in Seq(Deed)
  <2>1. << >> \in Seq(Deed) /\ << x >> \in Seq(Deed)
    OBVIOUS
  <2> QED
    BY <2>1, Zenon DEF SaveOrLoad
<1> DEFINE s == [i \in 1 .. n |-> SaveOrLoad(ds[i])]
           t == [i \in 1 .. n + 1 |-> SaveOrLoad(es[i])]
<1>4. \A i \in 1 .. n : ds[i] \in Deed
  BY <1>1
<1>5. \A i \in 1 .. n + 1 : es[i] \in Deed
  BY <1>2
<1>6. s \in [1 .. n -> Seq(Deed)] /\ t \in [1 .. n + 1 -> Seq(Deed)]
  BY <1>3, <1>4, <1>5
<1>7. t[n + 1] = SaveOrLoad(e) /\ \A i \in 1 .. n : t[i] = s[i]
  BY <1>2
<1>8. AllDone(ds) = FlattenSeq(s) /\ AllDone(es) = FlattenSeq(t)
  BY <1>1, <1>2 DEF AllDone
<1> HIDE DEF s, t
<1>9. FlattenSeq(s) \in Seq(Deed)
  BY <1>6, <1>7, FlattenNext
<1>10. FlattenSeq(t) = FlattenSeq(s) \o t[n + 1]
  BY <1>6, <1>7, FlattenNext
<1> QED
  BY <1>2, <1>7, <1>8, <1>9, <1>10

\* What the calls of a byte lead to, all there is of Recall_ProcessMIDI
\* besides the parser.
Does(d) ==
  /\ deeds' = deeds \o FlattenSeq([i \in 1 .. Len(d) |-> Do(d[i])])
  /\ saveMode' = IF \E i \in 1 .. Len(d) : ArmsSave(d[i])
                 THEN d[1].message[2] = 127 ELSE saveMode

LEMMA DoesNothing ==
  ASSUME deeds \in Seq(Deed), Does(<< >>)
  PROVE  deeds' = deeds /\ saveMode' = saveMode
<1>1. Len(<< >>) = 0
  OBVIOUS
<1>2. [i \in 1 .. Len(<< >>) |-> Do(<< >>[i])] = << >>
  BY <1>1
<1>3. FlattenSeq(<< >>) = << >>
  BY DEF FlattenSeq
<1>4. deeds \o << >> = deeds
  OBVIOUS
<1>5. ~ \E i \in 1 .. Len(<< >>) : ArmsSave(<< >>[i])
  BY <1>1
<1> QED
  BY <1>2, <1>3, <1>4, <1>5, Zenon DEF Does

LEMMA FlattenOne ==
  ASSUME NEW S, NEW e \in Seq(S)
  PROVE  FlattenSeq(<< e >>) = e
<1> DEFINE s == [i \in 1 .. 0 |-> e]
           t == [i \in 1 .. 0 + 1 |-> e]
<1>1. s \in [1 .. 0 -> Seq(S)] /\ t \in [1 .. 0 + 1 -> Seq(S)] /\ t[0 + 1] = e
      /\ \A i \in 1 .. 0 : t[i] = s[i]
  OBVIOUS
<1>2. s = << >> /\ t = << e >>
  OBVIOUS
<1> HIDE DEF s, t
<1>3. FlattenSeq(t) = FlattenSeq(s) \o t[0 + 1]
  BY <1>1, FlattenNext
<1>4. FlattenSeq(<< >>) = << >>
  BY DEF FlattenSeq
<1>5. << >> \o e = e
  BY Joined
<1> QED
  BY <1>1, <1>2, <1>3, <1>4, <1>5

\* What is done for a message that is complete.
LEMMA DoneFor ==
  ASSUME NEW c \in CallType, Complete(c)
  PROVE  /\ ArmsSave(c) => Do(c) = << >>
         /\ IsProgram(c) =>
              Do(c) = << IF saveMode THEN Saved(c.message[1])
                                            ELSE Loaded(c.message[1]) >>
         /\ IsSelectSave(c) =>
              Do(c) = IF c.message[1] < \h40
                             THEN <<Saved(c.message[1])>> ELSE << >>
         /\ ~(ArmsSave(c) \/ IsProgram(c) \/ IsSelectSave(c)) =>
              Do(c) = <<Handled(c)>>
<1>1. Do(c) = ProcessMessage(c)
  BY Zenon DEF Do
<1>2. /\ ArmsSave(c) => ~IsProgram(c) /\ ~IsSelectSave(c)
      /\ IsProgram(c) => ~IsSelectSave(c)
  BY DEF ArmsSave, IsProgram, IsSelectSave, SelectSave
<1>3. PICK h, l, s : /\ h = <<Handled(c)>>
                     /\ s = << IF saveMode THEN Saved(c.message[1])
                                           ELSE Loaded(c.message[1]) >>
                     /\ l = IF c.message[1] < \h40
                            THEN <<Saved(c.message[1])>> ELSE << >>
  OBVIOUS
<1>4. ProcessMessage(c) =
        CASE ArmsSave(c) -> << >>
          [] IsProgram(c) -> s
          [] IsSelectSave(c) -> l
          [] OTHER -> h
  BY <1>3, Zenon DEF ProcessMessage
<1>5. /\ ArmsSave(c) => ProcessMessage(c) = << >>
      /\ IsProgram(c) => ProcessMessage(c) = s
      /\ IsSelectSave(c) => ProcessMessage(c) = l
      /\ ~(ArmsSave(c) \/ IsProgram(c) \/ IsSelectSave(c)) =>
           ProcessMessage(c) = h
  BY <1>2, <1>4
<1> QED
  BY <1>1, <1>3, <1>5, Zenon

\* A call leads to one deed or to none.
LEMMA DoIs ==
  ASSUME NEW c \in CallType
  PROVE  Do(c) = << >> \/ \E e \in Deed : Do(c) = << e >>
<1>1. Handled(c) \in Deed
  BY DEF Handled, Deed
<1>2. ASSUME Complete(c)
      PROVE  Saved(c.message[1]) \in Deed /\ Loaded(c.message[1]) \in Deed
  <2>1. c.message \in Seq(Byte) /\ Len(c.message) = 2
    BY <1>2 DEF Complete, CallType, Data
  <2>2. c.message[1] \in Byte
    BY <2>1
  <2>3. c.message[1] % 64 \in 0 .. 63
    BY <2>2 DEF Byte
  <2> QED
    BY <2>3 DEF Saved, Loaded, Deed, Preset
<1>3. Complete(c) =>
        \/ Do(c) = << >>
        \/ Do(c) = <<Saved(c.message[1])>>
        \/ Do(c) = <<Loaded(c.message[1])>>
        \/ Do(c) = <<Handled(c)>>
  <2> SUFFICES ASSUME Complete(c)
               PROVE  \/ Do(c) = << >>
                      \/ Do(c) = <<Saved(c.message[1])>>
                      \/ Do(c) = <<Loaded(c.message[1])>>
                      \/ Do(c) = <<Handled(c)>>
    OBVIOUS
  <2>1. /\ ArmsSave(c) => Do(c) = << >>
        /\ IsProgram(c) =>
             Do(c) = << IF saveMode THEN Saved(c.message[1])
                                           ELSE Loaded(c.message[1]) >>
        /\ IsSelectSave(c) =>
             Do(c) = IF c.message[1] < \h40
                            THEN <<Saved(c.message[1])>> ELSE << >>
        /\ ~(ArmsSave(c) \/ IsProgram(c) \/ IsSelectSave(c)) =>
             Do(c) = <<Handled(c)>>
    BY DoneFor
  <2> QED
    BY <2>1, Zenon
<1>4. ~Complete(c) => Do(c) = <<Handled(c)>>
  BY Zenon DEF Do
<1> QED
  BY <1>1, <1>2, <1>3, <1>4, Zenon

LEMMA DoesOne ==
  ASSUME deeds \in Seq(Deed), NEW c \in CallType, Does(<< c >>)
  PROVE  /\ deeds' \in Seq(Deed)
         /\ Do(c) = << >> => AllDone(deeds') = AllDone(deeds)
         /\ \A e \in Deed : Do(c) = << e >> =>
              AllDone(deeds') = AllDone(deeds) \o SaveOrLoad(e)
         /\ saveMode' = IF ArmsSave(c) THEN c.message[2] = 127 ELSE saveMode
<1>1. Len(<< c >>) = 1 /\ << c >>[1] = c
  OBVIOUS
<1>2. [i \in 1 .. Len(<< c >>) |-> Do(<< c >>[i])] = << Do(c) >>
  BY <1>1
<1>3. << >> \in Seq(Deed) /\ \A e \in Deed : << e >> \in Seq(Deed)
  OBVIOUS
<1>4. Do(c) \in Seq(Deed)
  BY <1>3, DoIs
<1>5. deeds' = deeds \o Do(c)
  BY <1>2, <1>4, FlattenOne DEF Does
<1>6. Do(c) = << >> => deeds' = deeds
  BY <1>5, Joined
<1>7. ASSUME NEW e \in Deed, Do(c) = << e >>
      PROVE  deeds' = Append(deeds, e)
  BY <1>5, <1>7
<1>8. deeds' \in Seq(Deed)
  BY <1>4, <1>5, Joined
<1>9. saveMode' = IF ArmsSave(c) THEN c.message[2] = 127 ELSE saveMode
  <2>1. (\E i \in 1 .. Len(<< c >>) : ArmsSave(<< c >>[i])) <=> ArmsSave(c)
    BY <1>1
  <2> QED
    BY <1>1, <2>1 DEF Does
<1> QED
  BY <1>6, <1>7, <1>8, <1>9, DoneNext

\* What is handed on saves and loads nothing, and does not arm.
LEMMA QuietDoes ==
  ASSUME deeds \in Seq(Deed), NEW d \in Quiet, Does(d)
  PROVE  deeds' \in Seq(Deed) /\ AllDone(deeds') = AllDone(deeds) /\ saveMode' = saveMode
<1>1. CASE d = << >>
  BY <1>1, DoesNothing
<1>2. CASE d # << >>
  <2>1. PICK c \in HandedOn : d = << c >>
    BY <1>2, Zenon DEF Quiet
  <2>2. c \in CallType /\ c.status = \hF0 /\ c.channel # 4
    BY DEF HandedOn
  <2>3. Do(c) = << Handled(c) >>
    BY <2>2, Zenon DEF Do, Complete
  <2>4. Handled(c) \in Deed /\ SaveOrLoad(Handled(c)) = << >>
    BY <2>2 DEF Handled, Deed, SaveOrLoad
  <2>5. ~ArmsSave(c)
    BY <2>2 DEF ArmsSave
  <2>6. /\ deeds' \in Seq(Deed) /\ saveMode' = saveMode
        /\ AllDone(deeds') = AllDone(deeds) \o << >>
    <3>1. PICK e \in Deed : e = Handled(c) /\ SaveOrLoad(e) = << >>
      BY <2>4
    <3>2. Does(<< c >>) /\ c \in CallType
      BY <2>1, <2>2, Zenon
    <3>3. /\ deeds' \in Seq(Deed)
          /\ \A x \in Deed : Do(c) = << x >> =>
               AllDone(deeds') = AllDone(deeds) \o SaveOrLoad(x)
          /\ saveMode' = IF ArmsSave(c) THEN c.message[2] = 127 ELSE saveMode
      BY <3>2, DoesOne
    <3> QED
      BY <2>3, <2>5, <3>1, <3>3, Zenon
  <2>7. AllDone(deeds) \in Seq(Deed)
    BY <2>4, DoneNext
  <2> QED
    BY <2>6, <2>7, Joined
<1> QED
  BY <1>1, <1>2

LEMMA AnyDoes ==
  ASSUME deeds \in Seq(Deed), saveMode \in BOOLEAN, NEW d \in OneCall, Does(d)
  PROVE  deeds' \in Seq(Deed) /\ saveMode' \in BOOLEAN
<1>1. CASE d = << >>
  BY <1>1, DoesNothing
<1>2. CASE d # << >>
  <2>1. PICK c \in CallType : d = << c >>
    BY <1>2, Zenon DEF OneCall
  <2> QED
    BY <2>1, DoesOne
<1> QED
  BY <1>1, <1>2

\* A message that has been read does what it asks.
LEMMA DoesAsAsked ==
  ASSUME deeds \in Seq(Deed), saveMode \in BOOLEAN, NEW m \in Seq(Byte),
         WellFormed(m), m[1] = SelectSave => Len(m) = 2,
         NEW d, CallsFor(m, d), Does(d)
  PROVE  /\ AllDone(deeds) \in Seq(Deed)
         /\ AllDone(deeds') = AllDone(deeds) \o AskedOf(m, saveMode)
         /\ saveMode' = IF Arms(m) THEN m[3] = 127 ELSE saveMode
<1>1. AllDone(deeds) \in Seq(Deed)
  <2>1. [kind |-> "save", slot |-> 0] \in Deed
    BY DEF Deed, Preset
  <2> QED
    BY <2>1, DoneNext
<1>2. m[1] \in Byte /\ Len(m) \in Nat
  BY Forms
<1>3. AskedOf(m, saveMode) =
        IF m[1] = \hC0
        THEN << IF saveMode THEN Saved(m[2]) ELSE Loaded(m[2]) >>
        ELSE IF m[1] = SelectSave /\ m[2] < \h40 THEN <<Saved(m[2])>>
        ELSE << >>
  <2>1. \hC0 # SelectSave
    BY DEF SelectSave
  <2>2. PICK a, b : /\ a = << IF saveMode THEN Saved(m[2]) ELSE Loaded(m[2]) >>
                    /\ b = <<Saved(m[2])>>
    OBVIOUS
  <2>3. AskedOf(m, saveMode) = CASE m[1] = \hC0 -> a
                                 [] m[1] = SelectSave /\ m[2] < \h40 -> b
                                 [] OTHER -> << >>
    BY <2>2, Zenon DEF AskedOf
  <2>4. AskedOf(m, saveMode) = IF m[1] = \hC0 THEN a
                              ELSE IF m[1] = SelectSave /\ m[2] < \h40 THEN b
                              ELSE << >>
    BY <2>1, <2>3
  <2> QED
    BY <2>2, <2>4, Zenon
<1>4. CASE ~Voice(m) /\ m[1] # SelectSave
  <2>1. m[1] # \hC0 /\ ~Arms(m)
    BY <1>2, <1>4 DEF Voice, SysExStart, Arms
  <2>2. d \in Quiet
    BY <1>4 DEF CallsFor
  <2>3. AllDone(deeds') = AllDone(deeds) /\ saveMode' = saveMode
    BY <2>2, QuietDoes
  <2>4. AllDone(deeds) \o << >> = AllDone(deeds)
    BY <1>1, Joined
  <2> QED
    BY <1>1, <1>3, <1>4, <2>1, <2>3, <2>4
<1>5. CASE Voice(m) \/ m[1] = SelectSave
  <2>1. PICK msg \in Message :
          /\ d = << Call(HighNibble(m[1]), LowNibble(m[1]), msg) >>
          /\ msg[1] = m[2] /\ (TwoData(m) => msg[2] = m[3])
    BY <1>5 DEF CallsFor
  <2>2. PICK h \in Byte, l \in Channel :
          /\ h = HighNibble(m[1]) /\ l = LowNibble(m[1]) /\ h + l = m[1]
    BY <1>2, Nibbles
  <2>3. PICK c \in CallType :
          /\ c = Call(h, l, msg) /\ c.status = h /\ c.channel = l
          /\ c.message = msg /\ Len(c.message) = 2
    <3>1. Call(h, l, msg) \in CallType /\ Len(msg) = 2
      BY CallIs
    <3>2. LET c == Call(h, l, msg)
          IN  c.status = h /\ c.channel = l /\ c.message = msg
      BY DEF Call
    <3> QED
      BY <3>1, <3>2, Zenon
  <2>4. Does(<< c >>)
    BY <2>1, <2>2, <2>3, Zenon
  <2>5. Complete(c)
    <3>1. h = \hF0 => l = 4
      <4>1. Voice(m) => h # \hF0
        BY <1>2, <2>2, Nibbles DEF Voice, SysExStart
      <4>2. m[1] = SelectSave => h = \hF0 /\ l = 4
        BY <2>2 DEF SelectSave, HighNibble, LowNibble
      <4> QED
        BY <1>5, <4>1, <4>2
    <3> QED
      BY <2>3, <3>1 DEF Complete
  <2>6. /\ IsProgram(c) <=> m[1] = \hC0
        /\ IsSelectSave(c) <=> m[1] = SelectSave
        /\ (h = \hB0 /\ l = 0) <=> m[1] = \hB0
    <3>1. PICK x \in 0 .. 255 : x = m[1]
      BY <1>2 DEF Byte
    <3>2. h = x - (x % 16) /\ l = x % 16
      BY <2>2, <3>1 DEF HighNibble, LowNibble
    <3>3. /\ (h = \hC0 /\ l = 0) <=> x = \hC0
          /\ (h = \hB0 /\ l = 0) <=> x = \hB0
      BY <3>2
    <3> QED
      BY <2>2, <2>3, <3>1, <3>3 DEF IsProgram, IsSelectSave, SelectSave
  <2>7. m[1] = \hB0 => TwoData(m) /\ Len(m) = 3
    <3>1. m[1] = \hB0 => TwoData(m) /\ Voice(m)
      BY DEF TwoData, HighNibble, TwoByteStatus, Voice, SysExStart
    <3> QED
      BY <3>1, Forms
  <2>8. /\ ArmsSave(c) <=> Arms(m)
        /\ Arms(m) => c.message[2] = m[3] /\ m[1] = \hB0
    BY <2>1, <2>3, <2>6, <2>7 DEF ArmsSave, Arms
  <2>9. saveMode' = IF Arms(m) THEN m[3] = 127 ELSE saveMode
    BY <2>4, <2>8, DoesOne
  <2>10. /\ Do(c) = << >> => AllDone(deeds') = AllDone(deeds)
         /\ \A e \in Deed : Do(c) = << e >> =>
              AllDone(deeds') = AllDone(deeds) \o SaveOrLoad(e)
    BY <2>4, DoesOne
  <2>11. /\ ArmsSave(c) => Do(c) = << >>
         /\ IsProgram(c) =>
              Do(c) = << IF saveMode THEN Saved(c.message[1])
                                            ELSE Loaded(c.message[1]) >>
         /\ IsSelectSave(c) =>
              Do(c) = IF c.message[1] < \h40
                             THEN <<Saved(c.message[1])>> ELSE << >>
         /\ ~(ArmsSave(c) \/ IsProgram(c) \/ IsSelectSave(c)) =>
              Do(c) = <<Handled(c)>>
    BY <2>5, DoneFor
  <2>12. AllDone(deeds) \o << >> = AllDone(deeds)
    BY <1>1, Joined
  <2>13. c.message[1] = m[2] /\ m[2] \in Byte
    <3>1. msg[1] \in Byte
      BY DEF Message
    <3> QED
      BY <2>1, <2>3, <3>1
  <2>14. /\ Saved(m[2]) \in Deed /\ Loaded(m[2]) \in Deed
         /\ SaveOrLoad(Saved(m[2])) = << Saved(m[2]) >>
         /\ SaveOrLoad(Loaded(m[2])) = << Loaded(m[2]) >>
    <3>1. m[2] % 64 \in 0 .. 63
      <4>1. PICK x \in 0 .. 255 : x = m[2]
        BY <2>13 DEF Byte
      <4>2. x % 64 \in 0 .. 63
        OBVIOUS
      <4> QED
        BY <4>1, <4>2
    <3> QED
      BY <3>1 DEF Saved, Loaded, Deed, Preset, SaveOrLoad
  <2>15. Handled(c) \in Deed /\ SaveOrLoad(Handled(c)) = << >>
    BY DEF Handled, Deed, SaveOrLoad
  <2>16. AllDone(deeds') = AllDone(deeds) \o AskedOf(m, saveMode)
    <3>1. CASE Arms(m)
      <4>1. AskedOf(m, saveMode) = << >>
        BY <1>3, <2>8, <3>1 DEF SelectSave
      <4> QED
        BY <2>8, <2>10, <2>11, <2>12, <3>1, <4>1
    <3>2. CASE m[1] = \hC0
      <4>1. AskedOf(m, saveMode)
              = << IF saveMode THEN Saved(m[2]) ELSE Loaded(m[2]) >>
        BY <1>3, <3>2
      <4>2. Do(c) = << IF saveMode THEN Saved(m[2]) ELSE Loaded(m[2]) >>
        BY <2>6, <2>11, <2>13, <3>2, Zenon
      <4> QED
        BY <2>10, <2>14, <4>1, <4>2, Zenon
    <3>3. CASE m[1] = SelectSave
      <4>1. m[1] # \hC0
        BY <3>3 DEF SelectSave
      <4>2. AskedOf(m, saveMode) = IF m[2] < \h40 THEN <<Saved(m[2])>> ELSE << >>
        BY <1>3, <3>3, <4>1
      <4>3. Do(c) = IF m[2] < \h40 THEN <<Saved(m[2])>> ELSE << >>
        BY <2>6, <2>11, <2>13, <3>3, Zenon
      <4> QED
        BY <2>10, <2>12, <2>14, <4>2, <4>3, Zenon
    <3>4. CASE ~Arms(m) /\ m[1] # \hC0 /\ m[1] # SelectSave
      <4>1. AskedOf(m, saveMode) = << >>
        BY <1>3, <3>4
      <4>2. Do(c) = <<Handled(c)>>
        BY <2>6, <2>8, <2>11, <3>4, Zenon
      <4> QED
        BY <2>10, <2>12, <2>15, <4>1, <4>2, Zenon
    <3> QED
      BY <3>1, <3>2, <3>3, <3>4
  <2> QED
    BY <1>1, <2>9, <2>16
<1> QED
  BY <1>4, <1>5

\* The save mode before the i-th of some messages, and all they ask for.
ArmedIn(ms, i) ==
  LET arming == {j \in 1 .. i - 1 : Arms(ms[j])}
  IN  arming # {} /\ ms[Max(arming)][3] = 127
AllAsked(ms) ==
  FlattenSeq([i \in 1 .. Len(ms) |-> AskedOf(ms[i], ArmedIn(ms, i))])

LEMMA ArmedSame ==
  ASSUME NEW i
  PROVE  Armed(i) = ArmedIn(sent, i)
BY Zenon DEF Armed, ArmedIn, Arms

LEMMA AskedForAre == AskedFor = AllAsked(sent)
<1>1. ASSUME NEW i PROVE Asked(i) = AskedOf(sent[i], ArmedIn(sent, i))
  BY ArmedSame, Zenon DEF Asked, AskedOf, SelectSave
<1> QED
  BY <1>1, Zenon DEF AskedFor, AllAsked

LEMMA MaxIs ==
  ASSUME NEW n \in Nat, NEW S \in SUBSET (1 .. n), S # {}
  PROVE  Max(S) \in S /\ \A j \in S : Max(S) >= j
<1> DEFINE H == {n - j : j \in S}
<1>1. H \in SUBSET Nat /\ H # {}
  <2>1. ASSUME NEW j \in S PROVE n - j \in Nat
    OBVIOUS
  <2> QED
    BY <2>1
<1> HIDE DEF H
<1>2. PICK h \in H : \A k \in H : h <= k
  BY <1>1, LeastOf
<1>3. PICK x \in S : h = n - x
  BY DEF H
<1>4. ASSUME NEW j \in S PROVE x >= j
  <2>1. n - j \in H
    BY DEF H
  <2>2. n - x <= n - j
    BY <1>2, <1>3, <2>1
  <2> QED
    BY <2>2
<1> QED
  BY <1>4, Zenon DEF Max

\* It is that of the last controller among them.
LEMMA ArmedStays ==
  ASSUME NEW ms \in Seq(Seq(Byte)), NEW m \in Seq(Byte), NEW i \in 1 .. Len(ms) + 1
  PROVE  ArmedIn(ms, i) \in BOOLEAN /\ ArmedIn(Append(ms, m), i) = ArmedIn(ms, i)
<1>1. PICK n \in Nat, ns \in Seq(Seq(Byte)) :
        n = Len(ms) /\ ns = Append(ms, m) /\ \A j \in 1 .. n : ns[j] = ms[j]
  <2>1. /\ Append(ms, m) \in Seq(Seq(Byte)) /\ Len(ms) \in Nat
        /\ \A j \in 1 .. Len(ms) : Append(ms, m)[j] = ms[j]
    BY AppendTo
  <2> QED
    BY <2>1
<1>2. PICK S \in SUBSET (1 .. n) : /\ S = {j \in 1 .. i - 1 : Arms(ms[j])}
                                  /\ S = {j \in 1 .. i - 1 : Arms(ns[j])}
  <2>1. 1 .. i - 1 \subseteq 1 .. n
    BY <1>1
  <2> QED
    BY <1>1, <2>1
<1>3. ArmedIn(ms, i) = (S # {} /\ ms[Max(S)][3] = 127)
  BY <1>2, Zenon DEF ArmedIn
<1>4. ArmedIn(ns, i) = (S # {} /\ ns[Max(S)][3] = 127)
  BY <1>2, Zenon DEF ArmedIn
<1>5. S # {} => ns[Max(S)] = ms[Max(S)]
  BY <1>1, MaxIs
<1> QED
  BY <1>1, <1>3, <1>4, <1>5, Zenon

LEMMA ArmedAfter ==
  ASSUME NEW ms \in Seq(Seq(Byte)), NEW n \in Nat, n = Len(ms), n # 0
  PROVE  ArmedIn(ms, n + 1) = IF Arms(ms[n]) THEN ms[n][3] = 127 ELSE ArmedIn(ms, n)
<1>1. PICK S \in SUBSET (1 .. n) : S = {j \in 1 .. (n + 1) - 1 : Arms(ms[j])}
  <2>1. (n + 1) - 1 = n
    OBVIOUS
  <2> QED
    BY <2>1
<1>2. ArmedIn(ms, n + 1) = (S # {} /\ ms[Max(S)][3] = 127)
  BY <1>1, Zenon DEF ArmedIn
<1>3. CASE Arms(ms[n])
  <2>1. n \in S
    BY <1>1, <1>3
  <2>2. Max(S) \in S /\ Max(S) >= n
    BY <2>1, MaxIs
  <2>3. Max(S) = n
    <3>1. PICK x \in 1 .. n : x = Max(S) /\ x >= n
      BY <2>2
    <3>2. x = n
      BY <3>1
    <3> QED
      BY <3>1, <3>2
  <2> QED
    BY <1>2, <1>3, <2>1, <2>3, Zenon
<1>4. CASE ~Arms(ms[n])
  <2>1. S = {j \in 1 .. n - 1 : Arms(ms[j])}
    BY <1>1, <1>4
  <2>2. ArmedIn(ms, n) = (S # {} /\ ms[Max(S)][3] = 127)
    BY <2>1, Zenon DEF ArmedIn
  <2> QED
    BY <1>2, <1>4, <2>2, Zenon
<1> QED
  BY <1>3, <1>4

\* A message that can be sent.
Sendable(m) ==
  m \in Seq(Byte) /\ WellFormed(m) /\ (m[1] = SelectSave => Len(m) = 2)

LEMMA AskedIs ==
  ASSUME NEW m, Sendable(m), NEW armed \in BOOLEAN
  PROVE  AskedOf(m, armed) \in Seq(Deed)
<1>1. m[1] = \hC0 \/ m[1] = SelectSave => m[2] \in Byte
  <2>1. m[1] = \hC0 => Len(m) = 2
    <3>1. m[1] = \hC0 => Voice(m) /\ ~TwoData(m)
      BY DEF TwoData, HighNibble, TwoByteStatus, Voice, SysExStart
    <3> QED
      BY <3>1, Forms DEF Sendable
  <2> QED
    BY <2>1 DEF Sendable
<1>2. ASSUME m[2] \in Byte
      PROVE  Saved(m[2]) \in Deed /\ Loaded(m[2]) \in Deed
  <2>1. m[2] % 64 \in 0 .. 63
    <3>1. PICK x \in 0 .. 255 : x = m[2]
      BY <1>2 DEF Byte
    <3>2. x % 64 \in 0 .. 63
      OBVIOUS
    <3> QED
      BY <3>1, <3>2
  <2> QED
    BY <2>1 DEF Saved, Loaded, Deed, Preset
<1>3. << >> \in Seq(Deed) /\ \A e \in Deed : << e >> \in Seq(Deed)
  OBVIOUS
<1>4. \/ AskedOf(m, armed) = << >>
      \/ m[1] = \hC0 /\ AskedOf(m, armed)
                          = << IF armed THEN Saved(m[2]) ELSE Loaded(m[2]) >>
      \/ m[1] = SelectSave /\ AskedOf(m, armed) = << Saved(m[2]) >>
  <2>1. PICK a, b : /\ a = << IF armed THEN Saved(m[2]) ELSE Loaded(m[2]) >>
                    /\ b = <<Saved(m[2])>>
    OBVIOUS
  <2>2. AskedOf(m, armed) = CASE m[1] = \hC0 -> a
                              [] m[1] = SelectSave /\ m[2] < \h40 -> b
                              [] OTHER -> << >>
    BY <2>1, Zenon DEF AskedOf
  <2>3. \/ AskedOf(m, armed) = << >>
        \/ m[1] = \hC0 /\ AskedOf(m, armed) = a
        \/ m[1] = SelectSave /\ AskedOf(m, armed) = b
    BY <2>2
  <2> QED
    BY <2>1, <2>3, Zenon
<1> QED
  BY <1>1, <1>2, <1>3, <1>4, Zenon

LEMMA AskedNext ==
  ASSUME NEW ms \in Seq(Seq(Byte)), \A i \in 1 .. Len(ms) : Sendable(ms[i]),
         NEW m \in Seq(Byte), Sendable(m)
  PROVE  /\ AllAsked(ms) \in Seq(Deed)
         /\ AllAsked(Append(ms, m)) = AllAsked(ms) \o AskedOf(m, ArmedIn(ms, Len(ms) + 1))
<1>1. PICK n \in Nat : n = Len(ms)
  OBVIOUS
<1>2. PICK ns \in Seq(Seq(Byte)) :
        /\ ns = Append(ms, m) /\ Len(ns) = n + 1 /\ ns[n + 1] = m
        /\ \A i \in 1 .. n : ns[i] = ms[i]
  <2>1. /\ Append(ms, m) \in Seq(Seq(Byte)) /\ Len(Append(ms, m)) = Len(ms) + 1
        /\ \A i \in 1 .. Len(ms) : Append(ms, m)[i] = ms[i]
        /\ Append(ms, m)[Len(ms) + 1] = m
    BY AppendTo
  <2> QED
    BY <1>1, <2>1
<1>3. \A i \in 1 .. n + 1 : /\ ArmedIn(ms, i) \in BOOLEAN
                            /\ ArmedIn(ns, i) = ArmedIn(ms, i)
  BY <1>1, <1>2, ArmedStays
<1>4. \A i \in 1 .. n : Sendable(ms[i]) /\ Sendable(ns[i])
  BY <1>1, <1>2
<1>5. \A i \in 1 .. n + 1 : Sendable(ns[i])
  BY <1>2, <1>4
<1> DEFINE s == [i \in 1 .. n |-> AskedOf(ms[i], ArmedIn(ms, i))]
           t == [i \in 1 .. n + 1 |-> AskedOf(ns[i], ArmedIn(ns, i))]
<1>6. s \in [1 .. n -> Seq(Deed)] /\ t \in [1 .. n + 1 -> Seq(Deed)]
  <2>1. ASSUME NEW i \in 1 .. n PROVE AskedOf(ms[i], ArmedIn(ms, i)) \in Seq(Deed)
    <3>1. ArmedIn(ms, i) \in BOOLEAN
      BY <1>3
    <3> QED
      BY <1>4, <3>1, AskedIs
  <2>2. ASSUME NEW i \in 1 .. n + 1 PROVE AskedOf(ns[i], ArmedIn(ns, i)) \in Seq(Deed)
    <3>1. ArmedIn(ns, i) \in BOOLEAN
      BY <1>3, Zenon
    <3> QED
      BY <1>5, <3>1, AskedIs
  <2> QED
    BY <2>1, <2>2
<1>7. t[n + 1] = AskedOf(m, ArmedIn(ms, n + 1)) /\ \A i \in 1 .. n : t[i] = s[i]
  <2>1. n + 1 \in 1 .. n + 1 /\ \A i \in 1 .. n : i \in 1 .. n + 1
    OBVIOUS
  <2>2. t[n + 1] = AskedOf(ns[n + 1], ArmedIn(ns, n + 1))
    BY <2>1, Zenon
  <2>3. ASSUME NEW i \in 1 .. n PROVE t[i] = s[i]
    <3>1. t[i] = AskedOf(ns[i], ArmedIn(ns, i)) /\ s[i] = AskedOf(ms[i], ArmedIn(ms, i))
      BY <2>1, Zenon
    <3> QED
      BY <1>2, <1>3, <2>1, <3>1, Zenon
  <2> QED
    BY <1>2, <1>3, <2>1, <2>2, <2>3, Zenon
<1>8. AllAsked(ms) = FlattenSeq(s) /\ AllAsked(ns) = FlattenSeq(t)
  BY <1>1, <1>2, Zenon DEF AllAsked
<1> HIDE DEF s, t
<1>9. FlattenSeq(s) \in Seq(Deed)
  BY <1>6, <1>7, FlattenNext
<1>10. FlattenSeq(t) = FlattenSeq(s) \o t[n + 1]
  BY <1>6, <1>7, FlattenNext
<1> QED
  BY <1>1, <1>2, <1>7, <1>8, <1>9, <1>10, Zenon
-----------------------------------------------------------------------------
(* The invariant of the Select Bus parser, and its steps.                  *)

RecallOwed ==
  IF todo = << >> THEN << >> ELSE AskedOf(Current, ArmedIn(sent, Len(sent)))

SavesInv ==
  Undisturbed =>
    /\ AllDone(deeds) \o RecallOwed = AllAsked(sent)
    /\ saveMode = ArmedIn(sent, IF todo = << >> THEN Len(sent) + 1 ELSE Len(sent))
    /\ IF todo = << >>
       THEN Fresh(parser) /\ (running # 0 /\ realTime = << >> => Remembers(parser, running))
       ELSE IF Read = 0 THEN Fresh(parser) ELSE RecallInPlace(parser, Current, Read)

RecallBackInv ==
  ~ranOn /\ realTime = << >> /\ steadied >= 0 =>
    IF todo = << >> \/ Read = 0 THEN NotFar(parser, steadied)
    ELSE \/ RecallInPlace(parser, Current, Read)
         \/ RecallOutOfPlace(parser, Current, Read, steadied)

RecallInv ==
  /\ WireOK /\ \A i \in 1 .. Len(sent) : Sendable(sent[i])
  /\ CoherentRecall(parser) /\ deeds \in Seq(Deed) /\ saveMode \in BOOLEAN
  /\ realTime \in Seq(Byte) /\ SavesInv /\ RecallBackInv

LEMMA RecallBegun ==
  ASSUME RecallInv, NEW m \in session.message, Begin(m),
         UNCHANGED <<parser, saveMode, deeds>>
  PROVE  RecallInv'
<1>1. /\ WireOK /\ CoherentRecall(parser) /\ deeds \in Seq(Deed)
      /\ saveMode \in BOOLEAN /\ realTime \in Seq(Byte) /\ SavesInv /\ RecallBackInv
      /\ sent \in Seq(Seq(Byte)) /\ \A i \in 1 .. Len(sent) : Sendable(sent[i])
  BY DEF RecallInv, WireOK
<1>2. /\ m \in Seq(Byte) /\ WellFormed(m) /\ sent' = Append(sent, m)
      /\ WireOK' /\ Current' = m /\ todo' # << >>
      /\ \/ Read' = 0 /\ ranOn' = ranOn
         \/ /\ Read' = 1 /\ ranOn' = TRUE /\ running = m[1] /\ running # 0
            /\ Voice(m)
  BY <1>1, Begins
<1>3. /\ todo = << >> /\ UNCHANGED <<lost, steadied, realTime, cutIn>>
      /\ UNCHANGED <<parser, saveMode, deeds>>
  BY DEF Begin
<1>4. Sendable(m)
  <2>1. m[1] = SelectSave => Len(m) = 2
    BY <1>1, RecallAssumption DEF WireOK, SavesNameASlot, SelectSave
  <2> QED
    BY <1>2, <2>1 DEF Sendable
<1>5. PICK n \in Nat : /\ n = Len(sent) /\ Len(sent') = n + 1 /\ sent'[n + 1] = m
                       /\ \A i \in 1 .. n : sent'[i] = sent[i]
  <2>1. /\ Len(Append(sent, m)) = Len(sent) + 1 /\ Append(sent, m)[Len(sent) + 1] = m
        /\ \A i \in 1 .. Len(sent) : Append(sent, m)[i] = sent[i]
        /\ Len(sent) \in Nat
    BY <1>1, <1>2, AppendTo
  <2> QED
    BY <1>2, <2>1
<1>6. \A i \in 1 .. Len(sent') : Sendable(sent'[i])
  BY <1>1, <1>4, <1>5
<1>7. /\ AllAsked(sent) \in Seq(Deed)
      /\ AllAsked(sent') = AllAsked(sent) \o AskedOf(m, ArmedIn(sent, n + 1))
  BY <1>1, <1>2, <1>4, <1>5, AskedNext
<1>8. ArmedIn(sent', n + 1) = ArmedIn(sent, n + 1)
  <2>1. n + 1 \in 1 .. Len(sent) + 1
    BY <1>5
  <2> QED
    BY <1>1, <1>2, <2>1, ArmedStays
<1>9. SavesInv'
  <2> SUFFICES ASSUME Undisturbed' PROVE SavesInv'
    BY DEF SavesInv
  <2>1. Undisturbed /\ (ranOn' => realTime = << >>)
    BY <1>2, <1>3 DEF Undisturbed, WireOK
  <2>2. /\ AllDone(deeds) \o << >> = AllAsked(sent)
        /\ saveMode = ArmedIn(sent, n + 1)
        /\ Fresh(parser) /\ (running # 0 /\ realTime = << >> => Remembers(parser, running))
    BY <1>1, <1>3, <1>5, <2>1 DEF SavesInv, RecallOwed
  <2>3. RecallOwed' = AskedOf(m, ArmedIn(sent, n + 1))
    BY <1>2, <1>5, <1>8 DEF RecallOwed
  <2>4. AllDone(deeds)' \o RecallOwed' = AllAsked(sent)'
    <3>1. AllDone(deeds) = AllAsked(sent)
      <4>1. AllDone(deeds) \in Seq(Deed)
        <5>1. [kind |-> "save", slot |-> 0] \in Deed
          BY DEF Deed, Preset
        <5> QED
          BY <1>1, <5>1, DoneNext
      <4> QED
        BY <2>2, <4>1, Joined
    <3>2. AllDone(deeds)' = AllDone(deeds)
      BY <1>3
    <3>3. AllAsked(sent)' = AllAsked(sent')
      BY DEF AllAsked, ArmedIn, Max
    <3> QED
      BY <1>7, <2>3, <3>1, <3>2, <3>3
  <2>5. saveMode' = ArmedIn(sent, IF todo = << >> THEN Len(sent) + 1 ELSE Len(sent))'
    BY <1>2, <1>3, <1>5, <1>8, <2>2
  <2>6. IF Read' = 0 THEN Fresh(parser') ELSE RecallInPlace(parser', Current', Read')
    <3>1. CASE Read' = 0
      BY <1>3, <2>2, <3>1
    <3>2. CASE Read' = 1 /\ ranOn' = TRUE /\ running = m[1] /\ running # 0 /\ Voice(m)
      <4>1. Remembers(parser, m[1])
        BY <2>1, <2>2, <3>2
      <4>2. RecallInPlace(parser, m, 1)
        BY <3>2, <4>1, RecallInPlaceIs DEF Remembers
      <4> QED
        BY <1>2, <1>3, <3>2, <4>2
    <3> QED
      BY <1>2, <3>1, <3>2
  <2> QED
    BY <1>2, <2>4, <2>5, <2>6 DEF SavesInv
<1>10. RecallBackInv'
  <2>1. CASE Read' = 0 /\ ranOn' = ranOn
    BY <1>1, <1>3, <2>1 DEF RecallBackInv
  <2>2. CASE ranOn' = TRUE
    BY <2>2 DEF RecallBackInv
  <2> QED
    BY <1>2, <2>1, <2>2
<1> QED
  BY <1>1, <1>2, <1>3, <1>6, <1>9, <1>10 DEF RecallInv

LEMMA RecallByteGone ==
  ASSUME RecallInv, ByteLost, UNCHANGED <<parser, saveMode, deeds>>
  PROVE  RecallInv'
<1>1. /\ WireOK /\ CoherentRecall(parser) /\ deeds \in Seq(Deed)
      /\ saveMode \in BOOLEAN /\ lost \in Nat /\ realTime \in Seq(Byte)
      /\ \A i \in 1 .. Len(sent) : Sendable(sent[i])
  BY DEF RecallInv, WireOK
<1>2. /\ NextByte /\ lost' = lost + 1 /\ sent' = sent
      /\ UNCHANGED <<parser, saveMode, deeds, realTime>>
      /\ steadied' = IF Len(todo) = 1 THEN 0 ELSE -1
  BY DEF ByteLost, NextByte
<1>3. lost' \in Nat /\ lost' # 0 /\ steadied' \in Nat \cup {-1}
      /\ (steadied' >= 0 => steadied' = 0 /\ Len(todo) = 1)
  BY <1>1, <1>2
<1>4. WireOK' /\ ((todo' = << >>) <=> Len(todo) = 1)
  BY <1>1, <1>2, <1>3, GoesOn
<1>5. SavesInv'
  BY <1>3 DEF SavesInv, Undisturbed
<1>6. RecallBackInv'
  <2> SUFFICES ASSUME steadied' >= 0 PROVE RecallBackInv'
    BY DEF RecallBackInv
  <2>1. steadied' = 0 /\ todo' = << >>
    BY <1>3, <1>4
  <2>2. NotFar(parser', steadied')
    BY <2>1 DEF NotFar
  <2> QED
    BY <2>1, <2>2 DEF RecallBackInv
<1> QED
  BY <1>1, <1>2, <1>4, <1>5, <1>6 DEF RecallInv

\* Recall_ProcessMIDI, in terms of what it makes of the parser and does.
LEMMA RecallProcess ==
  ASSUME NEW b, Recall_ProcessMIDI(b)
  PROVE  parser' = Kept(Recalls(parser, b)) /\ Does(Recalls(parser, b).done)
BY Zenon DEF Recall_ProcessMIDI, Recalls, Kept, Does

LEMMA RecallTick ==
  ASSUME RecallInv, NEW b \in session.realTime, RealTimeSent(b),
         Recall_ProcessMIDI(b)
  PROVE  RecallInv'
<1>1. /\ WireOK /\ CoherentRecall(parser) /\ deeds \in Seq(Deed)
      /\ saveMode \in BOOLEAN /\ SavesInv /\ session \in Session
      /\ realTime \in Seq(Byte)
      /\ \A i \in 1 .. Len(sent) : Sendable(sent[i])
  BY DEF RecallInv, WireOK
<1>2. b \in Byte /\ IsRealTime(b)
  BY <1>1, SessionAssumption DEF Byte
<1>3. PICK q : q = Recalls(parser, b) /\ parser' = Kept(q) /\ Does(q.done)
  BY RecallProcess
<1>4. CoherentRecall(parser') /\ q.done \in OneCall
  BY <1>1, <1>2, <1>3, RecallCoherent
<1>5. deeds' \in Seq(Deed) /\ saveMode' \in BOOLEAN
  BY <1>1, <1>3, <1>4, AnyDoes
<1>6. /\ UNCHANGED <<session, todo, running, sent, ranOn, lost, steadied>>
      /\ cutIn' = (cutIn \/ todo # << >>)
      /\ realTime' # << >> /\ realTime' \in Seq(Byte)
  <2>1. /\ UNCHANGED <<session, todo, running, sent, ranOn, lost, steadied>>
        /\ cutIn' = (cutIn \/ todo # << >>) /\ realTime' = Append(realTime, b)
    BY DEF RealTimeSent
  <2>2. Append(realTime, b) # << >> /\ Append(realTime, b) \in Seq(Byte)
    BY <1>1, <1>2
  <2> QED
    BY <2>1, <2>2
<1>7. WireOK' /\ \A i \in 1 .. Len(sent') : Sendable(sent'[i])
  BY <1>1, <1>6 DEF WireOK, Current, Read
<1>8. SavesInv'
  <2> SUFFICES ASSUME Undisturbed' PROVE SavesInv'
    BY DEF SavesInv
  <2>1. Undisturbed /\ todo = << >>
    BY <1>6 DEF Undisturbed
  <2>2. /\ AllDone(deeds) \o << >> = AllAsked(sent)
        /\ saveMode = ArmedIn(sent, Len(sent) + 1) /\ Fresh(parser)
    BY <1>1, <2>1 DEF SavesInv, RecallOwed
  <2>3. /\ b >= \hF8 /\ IsStatus(b) /\ b # SysExEnd
    BY <1>2 DEF IsRealTime, IsStatus, SysExEnd, Byte
  <2>4. q \in ParserType(Quiet) /\ q.state = AfterRecall(HighNibble(b), LowNibble(b))
    BY <1>1, <1>2, <1>3, <2>2, <2>3, RecallStatus DEF Fresh
  <2>5. AfterRecall(HighNibble(b), LowNibble(b)) = "idle"
    <3>1. HighNibble(b) = \hF0 /\ LowNibble(b) \notin {0, 4}
      <4>1. b \in 0 .. 255 /\ b >= \hF0
        BY <1>2, <2>3 DEF Byte
      <4>2. HighNibble(b) = \hF0 /\ LowNibble(b) = b - \hF0
        BY <1>2, <4>1, Nibbles
      <4> QED
        BY <2>3, <4>1, <4>2
    <3> QED
      BY <3>1 DEF AfterRecall, OneByteStatus, TwoByteStatus
  <2>6. q.done \in Quiet /\ parser'.state = "idle"
    BY <1>3, <2>4, <2>5, KeptIs
  <2>7. AllDone(deeds') = AllDone(deeds) /\ saveMode' = saveMode
    BY <1>1, <1>3, <2>6, QuietDoes
  <2>8. AllDone(deeds)' = AllDone(deeds')
    BY DEF AllDone, SaveOrLoad
  <2>9. AllDone(deeds)' \o RecallOwed' = AllAsked(sent)'
    BY <1>6, <2>1, <2>2, <2>7, <2>8 DEF RecallOwed
  <2>10. saveMode' = ArmedIn(sent, IF todo = << >> THEN Len(sent) + 1 ELSE Len(sent))'
    BY <1>6, <2>1, <2>2, <2>7
  <2>11. Fresh(parser')
    BY <2>6 DEF Fresh
  <2> QED
    BY <1>6, <2>1, <2>9, <2>10, <2>11 DEF SavesInv
<1>9. RecallBackInv'
  BY <1>6 DEF RecallBackInv
<1> QED
  BY <1>4, <1>5, <1>6, <1>7, <1>8, <1>9 DEF RecallInv

LEMMA RecallByteRead ==
  ASSUME RecallInv, ByteSent, Recall_ProcessMIDI(Head(todo))
  PROVE  RecallInv'
<1>1. /\ WireOK /\ CoherentRecall(parser) /\ deeds \in Seq(Deed)
      /\ saveMode \in BOOLEAN /\ realTime \in Seq(Byte) /\ SavesInv /\ RecallBackInv
      /\ sent \in Seq(Seq(Byte)) /\ \A i \in 1 .. Len(sent) : Sendable(sent[i])
      /\ steadied \in Nat \cup {-1} /\ lost \in Nat
  BY DEF RecallInv, WireOK
<1>2. /\ NextByte /\ UNCHANGED <<lost, ranOn, running, sent, realTime, cutIn>>
      /\ steadied' = IF Len(todo) = 1 /\ (steadied = -1 \/ TwoData(Current))
                     THEN steadied + 1 ELSE steadied
      /\ todo # << >>
  BY DEF ByteSent, NextByte, Current
<1>3. lost' \in Nat /\ steadied' \in Nat \cup {-1}
  BY <1>1, <1>2
<1>4. /\ WireOK' /\ Current \in Seq(Byte) /\ WellFormed(Current)
      /\ Read \in 0 .. Len(Current) - 1 /\ Head(todo) = Current[Read + 1]
      /\ Current' = Current /\ Read' = Read + 1
      /\ (todo' = << >>) <=> Read + 1 = Len(Current)
      /\ (Len(todo) = 1) <=> Read + 1 = Len(Current)
  BY <1>1, <1>2, <1>3, GoesOn
<1>5. PICK m \in Seq(Byte), k \in Nat, b \in Byte :
        /\ m = Current /\ k = Read /\ b = Head(todo) /\ b = m[k + 1]
        /\ k \in 0 .. Len(m) - 1
        /\ WellFormed(m) /\ Len(m) \in Nat
  <2>1. Len(Current) \in Nat
    BY <1>4
  <2>2. Read + 1 \in 1 .. Len(Current)
    BY <1>4, <2>1
  <2>3. Current[Read + 1] \in Byte
    BY <1>4, <2>2
  <2> QED
    BY <1>4, <2>1, <2>3
<1>6. PICK n \in Nat : n = Len(sent) /\ n # 0 /\ m = sent[n]
  <2>1. sent # << >>
    BY <1>1, <1>2 DEF WireOK
  <2>2. Len(sent) \in Nat /\ Len(sent) # 0
    BY <1>1, <2>1
  <2> QED
    BY <1>5, <2>2 DEF Current
<1>7. m[1] = SelectSave => Len(m) = 2
  <2>1. n \in 1 .. Len(sent)
    BY <1>6
  <2> QED
    BY <1>1, <1>6, <2>1 DEF Sendable
<1>8. PICK q : q = Recalls(parser, b) /\ parser' = Kept(q) /\ Does(q.done)
  BY <1>5, RecallProcess
<1>9. CoherentRecall(parser') /\ q.done \in OneCall
  BY <1>1, <1>5, <1>8, RecallCoherent
<1>10. deeds' \in Seq(Deed) /\ saveMode' \in BOOLEAN
  BY <1>1, <1>8, <1>9, AnyDoes
<1>11. ASSUME IF k = 0 THEN Fresh(parser) ELSE RecallInPlace(parser, m, k)
       PROVE  RecallGoes(parser, m, k)
  BY <1>1, <1>5, <1>7, <1>11, RecallInPlaceGoes
<1>12. ASSUME RecallGoes(parser, m, k)
       PROVE  /\ k + 1 < Len(m) =>
                   q.done \in Quiet /\ RecallInPlace(parser', m, k + 1)
              /\ k + 1 = Len(m) =>
                   /\ CallsFor(m, q.done) /\ Fresh(parser')
                   /\ Voice(m) => Remembers(parser', m[1])
  <2>1. parser'.state = q.state /\ parser'.sStatus = q.sStatus
        /\ parser'.sChannel = q.sChannel
    BY <1>8 DEF Kept
  <2> QED
    BY <1>5, <1>8, <1>12, <2>1 DEF RecallGoes, Fresh, Remembers
<1>13. /\ Current' = m /\ Read' = k + 1
       /\ (todo' = << >>) <=> k + 1 = Len(m)
       /\ todo' # << >> <=> k + 1 < Len(m)
       /\ k + 1 # 0
  BY <1>4, <1>5
<1>14. /\ AllDone(deeds)' = AllDone(deeds') /\ AllAsked(sent)' = AllAsked(sent)
       /\ \A i : ArmedIn(sent, i)' = ArmedIn(sent, i)
  BY <1>2 DEF AllDone, SaveOrLoad, AllAsked, ArmedIn, Max
<1>15. SavesInv'
  <2> SUFFICES ASSUME Undisturbed' PROVE SavesInv'
    BY DEF SavesInv
  <2>1. /\ AllDone(deeds) \o AskedOf(m, ArmedIn(sent, n)) = AllAsked(sent)
        /\ saveMode = ArmedIn(sent, n)
        /\ IF k = 0 THEN Fresh(parser) ELSE RecallInPlace(parser, m, k)
    <3>1. Undisturbed
      BY <1>2 DEF Undisturbed
    <3> QED
      BY <1>1, <1>2, <1>5, <1>6, <3>1 DEF SavesInv, RecallOwed
  <2>2. RecallGoes(parser, m, k)
    BY <1>11, <2>1
  <2>3. CASE k + 1 < Len(m)
    <3>1. q.done \in Quiet /\ RecallInPlace(parser', m, k + 1)
      BY <1>12, <2>2, <2>3
    <3>2. AllDone(deeds') = AllDone(deeds) /\ saveMode' = saveMode
      BY <1>1, <1>8, <3>1, QuietDoes
    <3>3. todo' # << >> /\ Len(sent') = n
      BY <1>2, <1>6, <1>13, <2>3
    <3>4. RecallOwed' = AskedOf(m, ArmedIn(sent, n))
      BY <1>2, <1>13, <1>14, <3>3 DEF RecallOwed
    <3>5. AllDone(deeds)' \o RecallOwed' = AllAsked(sent)'
      BY <1>14, <2>1, <3>2, <3>4
    <3>6. saveMode' = ArmedIn(sent, IF todo = << >> THEN Len(sent) + 1 ELSE Len(sent))'
      BY <1>2, <1>6, <1>14, <2>1, <3>2, <3>3
    <3> QED
      BY <1>13, <3>1, <3>3, <3>5, <3>6 DEF SavesInv
  <2>4. CASE k + 1 = Len(m)
    <3>1. /\ CallsFor(m, q.done) /\ Fresh(parser')
          /\ Voice(m) => Remembers(parser', m[1])
      BY <1>12, <2>2, <2>4
    <3>2. /\ AllDone(deeds) \in Seq(Deed)
          /\ AllDone(deeds') = AllDone(deeds) \o AskedOf(m, saveMode)
          /\ saveMode' = IF Arms(m) THEN m[3] = 127 ELSE saveMode
      BY <1>1, <1>5, <1>7, <1>8, <3>1, DoesAsAsked
    <3>3. todo' = << >> /\ RecallOwed' = << >> /\ Len(sent') = n
      BY <1>2, <1>6, <1>13, <2>4 DEF RecallOwed
    <3>4. AllDone(deeds') = AllAsked(sent)
      BY <2>1, <3>2
    <3>5. AllDone(deeds)' \o RecallOwed' = AllAsked(sent)'
      <4>1. AllDone(deeds') \in Seq(Deed)
        <5>1. [kind |-> "save", slot |-> 0] \in Deed
          BY DEF Deed, Preset
        <5> QED
          BY <1>10, <5>1, DoneNext
      <4> QED
        BY <1>14, <3>3, <3>4, <4>1, Joined
    <3>6. saveMode' = ArmedIn(sent, n + 1)
      <4>1. ArmedIn(sent, n + 1) = IF Arms(m) THEN m[3] = 127 ELSE ArmedIn(sent, n)
        BY <1>1, <1>6, ArmedAfter
      <4> QED
        BY <2>1, <3>2, <4>1
    <3>7. saveMode' = ArmedIn(sent, IF todo = << >> THEN Len(sent) + 1 ELSE Len(sent))'
      BY <1>2, <1>6, <1>14, <3>3, <3>6
    <3>8. running' # 0 => Remembers(parser', running')
      <4>1. running' # 0 => Voice(m) /\ running' = m[1]
        BY <1>4, <1>13 DEF WireOK
      <4> QED
        BY <3>1, <4>1
    <3> QED
      BY <3>1, <3>3, <3>5, <3>7, <3>8 DEF SavesInv
  <2> QED
    BY <1>5, <2>3, <2>4
<1>16. ASSUME ~ranOn, realTime = << >>, steadied >= 0
       PROVE  /\ k + 1 < Len(m) =>
                   \/ RecallInPlace(parser', m, k + 1)
                   \/ RecallOutOfPlace(parser', m, k + 1, steadied)
              /\ k + 1 = Len(m) =>
                   NotFar(parser', IF TwoData(m) THEN steadied + 1 ELSE steadied)
  <2>0. PICK i \in Nat : i = steadied
    BY <1>1, <1>16
  <2>1. IF k = 0 THEN NotFar(parser, i)
        ELSE RecallInPlace(parser, m, k) \/ RecallOutOfPlace(parser, m, k, i)
    BY <1>1, <1>2, <1>5, <1>16, <2>0 DEF RecallBackInv
  <2>2. RecallGoes(parser, m, k) \/ RecallStrays(parser, m, k, i)
    <3>1. CASE k = 0 /\ Fresh(parser)
      BY <1>11, <3>1
    <3>2. CASE k = 0 /\ ~Fresh(parser)
      BY <1>1, <1>5, <2>1, <3>2, RecallFirstStrays
    <3>3. CASE k # 0 /\ RecallInPlace(parser, m, k)
      BY <1>11, <3>3
    <3>4. CASE k # 0 /\ RecallOutOfPlace(parser, m, k, i)
      <4>1. k \in 1 .. Len(m) - 1
        BY <1>5, <3>4
      <4> QED
        BY <1>1, <1>5, <3>4, <4>1, RecallNextStrays
    <3> QED
      BY <2>1, <3>1, <3>2, <3>3, <3>4
  <2>3. CASE RecallGoes(parser, m, k)
    <3>1. Fresh(parser') => \A j : NotFar(parser', j)
      BY DEF NotFar, Fresh
    <3> QED
      BY <1>12, <2>3, <3>1
  <2>4. CASE RecallStrays(parser, m, k, i)
    BY <1>5, <1>8, <2>0, <2>4 DEF RecallStrays
  <2> QED
    BY <2>2, <2>3, <2>4
<1>17. RecallBackInv'
  <2> SUFFICES ASSUME ~ranOn, realTime = << >>, steadied' >= 0 PROVE RecallBackInv'
    BY <1>2 DEF RecallBackInv
  <2>1. CASE k + 1 < Len(m)
    <3>1. steadied' = steadied /\ todo' # << >>
      BY <1>2, <1>4, <1>5, <1>13, <2>1
    <3>2. \/ RecallInPlace(parser', m, k + 1)
          \/ RecallOutOfPlace(parser', m, k + 1, steadied)
      BY <1>16, <2>1, <3>1
    <3> QED
      BY <1>13, <3>1, <3>2 DEF RecallBackInv
  <2>2. CASE k + 1 = Len(m)
    <3>1. todo' = << >> /\ Len(todo) = 1
      BY <1>4, <1>5, <2>2
    <3>2. CASE steadied = -1
      <4>1. steadied' = 0
        BY <1>2, <3>1, <3>2
      <4> QED
        BY <3>1, <4>1 DEF RecallBackInv, NotFar
    <3>3. CASE steadied # -1
      <4>1. steadied >= 0 /\ steadied' = IF TwoData(m) THEN steadied + 1 ELSE steadied
        BY <1>1, <1>2, <1>5, <3>1, <3>3
      <4>2. NotFar(parser', steadied')
        BY <1>16, <2>2, <4>1
      <4> QED
        BY <3>1, <4>2 DEF RecallBackInv
    <3> QED
      BY <3>2, <3>3
  <2> QED
    BY <1>5, <2>1, <2>2
<1> QED
  BY <1>1, <1>2, <1>4, <1>9, <1>10, <1>15, <1>17 DEF RecallInv

LEMMA RecallInvAlways ==
  RecallInv /\ [RecallNext]_recallVars => RecallInv'
<1> SUFFICES ASSUME RecallInv, [RecallNext]_recallVars
             PROVE  RecallInv'
  OBVIOUS
<1>1. CASE UNCHANGED recallVars
  <2>1. UNCHANGED <<session, todo, running, sent, ranOn, realTime, cutIn, lost, steadied,
                    parser, saveMode, deeds>>
    BY <1>1 DEF recallVars, wireVars
  <2>2. WireOK' /\ Current' = Current /\ Read' = Read
    BY <2>1 DEF RecallInv, WireOK, Current, Read
  <2>3. SavesInv'
    <3>1. /\ AllDone(deeds)' = AllDone(deeds) /\ AllAsked(sent)' = AllAsked(sent)
          /\ \A i : ArmedIn(sent, i)' = ArmedIn(sent, i)
      BY <2>1 DEF AllDone, SaveOrLoad, AllAsked, ArmedIn, Max
    <3>2. Undisturbed' = Undisturbed /\ RecallOwed' = RecallOwed
      BY <2>1, <2>2, <3>1 DEF Undisturbed, RecallOwed
    <3>3. SavesInv
      BY DEF RecallInv
    <3> QED
      BY <2>1, <2>2, <3>1, <3>2, <3>3 DEF SavesInv
  <2>4. RecallBackInv'
    BY <2>1, <2>2 DEF RecallInv, RecallBackInv
  <2> QED
    BY <2>1, <2>2, <2>3, <2>4 DEF RecallInv
<1>2. CASE RecallNext
  BY <1>2, RecallBegun, RecallByteGone, RecallByteRead, RecallTick DEF RecallNext
<1> QED
  BY <1>1, <1>2

LEMMA RecallInvAtFirst == RecallInit => RecallInv
<1> SUFFICES ASSUME RecallInit PROVE RecallInv
  OBVIOUS
<1>1. /\ session \in Session /\ todo = << >> /\ running = 0 /\ sent = << >>
      /\ ranOn = FALSE /\ realTime = << >> /\ cutIn = FALSE /\ lost = 0 /\ steadied = 0
      /\ parser = RecallParser!Reset /\ saveMode = FALSE /\ deeds = << >>
  BY DEF RecallInit, WireInit
<1>2. sent \in Seq(Seq(Byte)) /\ todo \in Seq(Byte) /\ deeds \in Seq(Deed)
      /\ realTime \in Seq(Byte) /\ Len(sent) = 0 /\ Len(deeds) = 0
  BY <1>1
<1>3. WireOK
  <2>1. ~(todo # << >>) /\ ~(sent # << >>)
    BY <1>1
  <2>2. \A i \in 1 .. Len(sent) : WellFormed(sent[i])
    BY <1>2
  <2>3. /\ ranOn \in BOOLEAN /\ lost \in Nat /\ steadied \in Nat \cup {-1}
        /\ running = IF sent # << >> /\ Voice(Current) THEN Current[1] ELSE 0
    BY <1>1, <2>1
  <2> QED
    BY <1>1, <1>2, <2>1, <2>2, <2>3, Zenon DEF WireOK
<1>4. CoherentRecall(parser) /\ parser.state = "idle"
  <2>0. << >> \in Seq(Byte)
    OBVIOUS
  <2>1. PICK e \in Seq(Byte) : e = << >>
    BY <2>0, Zenon
  <2>2. parser = [state |-> "idle", sStatus |-> 0, sChannel |-> 0,
                  sMessage |-> <<0, 0>>, sysex |-> e, done |-> << >>]
    BY <1>1, <2>1 DEF RecallParser!Reset
  <2>3. <<0, 0>> \in Message
    BY DEF Message, Byte
  <2>4. "idle" \in States /\ 0 \in Byte /\ 0 \in Channel /\ << >> \in NoCall
    BY DEF States, Byte, Channel, NoCall
  <2>5. parser \in ParserType(NoCall)
    BY <2>2, <2>3, <2>4 DEF ParserType
  <2> QED
    BY <2>2, <2>5 DEF CoherentRecall
<1>5. AllDone(deeds) = << >> /\ AllAsked(sent) = << >>
  <2>1. /\ [i \in 1 .. Len(deeds) |-> SaveOrLoad(deeds[i])] = << >>
        /\ [i \in 1 .. Len(sent) |-> AskedOf(sent[i], ArmedIn(sent, i))] = << >>
    BY <1>2
  <2>2. FlattenSeq(<< >>) = << >>
    BY DEF FlattenSeq
  <2> QED
    BY <2>1, <2>2 DEF AllDone, AllAsked
<1>6. ArmedIn(sent, 1) = FALSE
  <2>1. {j \in 1 .. 1 - 1 : Arms(sent[j])} = {}
    OBVIOUS
  <2> QED
    BY <2>1 DEF ArmedIn
<1>7. SavesInv
  <2>1. << >> \o << >> = << >>
    OBVIOUS
  <2>2. saveMode = ArmedIn(sent, IF todo = << >> THEN Len(sent) + 1 ELSE Len(sent))
    <3>1. (IF todo = << >> THEN Len(sent) + 1 ELSE Len(sent)) = 1
      BY <1>1, <1>2
    <3> QED
      BY <1>1, <1>6, <3>1, Zenon
  <2> QED
    BY <1>1, <1>4, <1>5, <2>1, <2>2 DEF SavesInv, RecallOwed, Fresh
<1>8. RecallBackInv
  BY <1>1 DEF RecallBackInv, NotFar
<1>9. \A i \in 1 .. Len(sent) : Sendable(sent[i])
  BY <1>2
<1> QED
  BY <1>1, <1>2, <1>3, <1>4, <1>7, <1>8, <1>9 DEF RecallInv

LEMMA Prefixed ==
  ASSUME NEW A, NEW s \in Seq(A), NEW u \in Seq(A)
  PROVE  IsPrefix(s, s \o u) /\ s \o << >> = s
<1>1. /\ Len(s \o u) = Len(s) + Len(u) /\ Len(s) \in Nat /\ Len(u) \in Nat
      /\ \A k \in 1 .. Len(s) : (s \o u)[k] = s[k]
      /\ s \o u \in Seq(A) /\ s \o << >> = s
  BY Joined
<1>2. Len(s) <= Len(s \o u) /\ Len(s) \in 0 .. Len(s \o u)
  BY <1>1
<1>3. /\ SubSeq(s \o u, 1, Len(s)) \in Seq(A)
      /\ Len(SubSeq(s \o u, 1, Len(s))) = Len(s)
      /\ \A k \in 1 .. Len(s) : SubSeq(s \o u, 1, Len(s))[k] = (s \o u)[k]
  BY <1>1, <1>2, FirstOf
<1>4. s = SubSeq(s \o u, 1, Len(s))
  BY <1>1, <1>3, SeqEqual
<1> QED
  BY <1>1, <1>2, <1>4 DEF IsPrefix

\* What the invariant says of the two properties.
LEMMA RecallTells == RecallInv => SavesAsAsked /\ BackInStep
<1> SUFFICES ASSUME RecallInv PROVE SavesAsAsked /\ BackInStep
  OBVIOUS
<1>1. /\ WireOK /\ sent \in Seq(Seq(Byte)) /\ deeds \in Seq(Deed)
      /\ \A i \in 1 .. Len(sent) : Sendable(sent[i])
  BY DEF RecallInv, WireOK
<1>2. SavesAsAsked
  <2> SUFFICES ASSUME Undisturbed
               PROVE  /\ IsPrefix(SavesAndLoads, AskedFor)
                      /\ todo = << >> => SavesAndLoads = AskedFor
    BY DEF SavesAsAsked
  <2>1. SavesAndLoads = AllDone(deeds) /\ AskedFor = AllAsked(sent)
    BY SavesAndLoadsAre, AskedForAre
  <2>2. AllDone(deeds) \o RecallOwed = AllAsked(sent)
    BY DEF RecallInv, SavesInv
  <2>3. AllDone(deeds) \in Seq(Deed)
    <3>1. [kind |-> "save", slot |-> 0] \in Deed
      BY DEF Deed, Preset
    <3> QED
      BY <1>1, <3>1, DoneNext
  <2>4. RecallOwed \in Seq(Deed)
    <3>1. CASE todo = << >>
      BY <3>1 DEF RecallOwed
    <3>2. CASE todo # << >>
      <4>1. Len(sent) \in 1 .. Len(sent) /\ Sendable(Current)
        <5>1. sent # << >>
          BY <1>1, <3>2 DEF WireOK
        <5>2. Len(sent) \in 1 .. Len(sent)
          BY <1>1, <5>1
        <5> QED
          BY <1>1, <5>2 DEF Current
      <4>2. ArmedIn(sent, Len(sent)) \in BOOLEAN
        BY Zenon DEF ArmedIn
      <4> QED
        BY <3>2, <4>1, <4>2, AskedIs DEF RecallOwed
    <3> QED
      BY <3>1, <3>2
  <2>5. IsPrefix(AllDone(deeds), AllDone(deeds) \o RecallOwed)
    BY <2>3, <2>4, Prefixed
  <2>6. todo = << >> => AllDone(deeds) \o RecallOwed = AllDone(deeds)
    BY <2>3, <2>4, Prefixed DEF RecallOwed
  <2> QED
    BY <2>1, <2>2, <2>5, <2>6
<1>3. BackInStep
  <2> SUFFICES ASSUME ~ranOn, realTime = << >>, steadied >= 2, todo = << >>
               PROVE  parser.state \in {"idle", "sysex"}
    BY DEF BackInStep
  <2>1. steadied \in Nat
    BY <1>1 DEF WireOK
  <2>2. NotFar(parser, steadied)
    BY <2>1 DEF RecallInv, RecallBackInv
  <2> QED
    BY <2>1, <2>2 DEF NotFar, Fresh
<1> QED
  BY <1>2, <1>3

(***************************************************************************)
(* After any bytes, lost ones included, the parser of recall.c waits for   *)
(* data only of a status that has it, and what it saves and loads are      *)
(* presets 0 .. 63 (Recall_Save and Recall_Load mask the slot).            *)
(***************************************************************************)
THEOREM RecallTypeCorrect ==
  RecallSpec => [](CoherentRecall(parser) /\ saveMode \in BOOLEAN /\ deeds \in Seq(Deed))
<1>1. RecallInv => CoherentRecall(parser) /\ saveMode \in BOOLEAN /\ deeds \in Seq(Deed)
  BY DEF RecallInv
<1> QED
  BY <1>1, RecallInvAtFirst, RecallInvAlways, PTL DEF RecallSpec

(***************************************************************************)
(* Presets are saved and loaded as the sender's messages ask, in order: a  *)
(* program change saves exactly when the last save-mode controller before  *)
(* it said so, for messages of any bytes on a line that nothing disturbs   *)
(* (recall.c, Recall_ProcessMessage).                                      *)
(***************************************************************************)
THEOREM SavedAsAsked == RecallSpec => []SavesAsAsked
BY RecallInvAtFirst, RecallInvAlways, RecallTells, PTL DEF RecallSpec

(***************************************************************************)
(* Whatever bytes were lost, two messages of two data bytes received whole *)
(* bring the parser of recall.c back in step: Recall_ProcessMIDI is then   *)
(* not owed data it would take a status for.                               *)
(***************************************************************************)
THEOREM RecallInStepAgain == RecallSpec => []BackInStep
BY RecallInvAtFirst, RecallInvAlways, RecallTells, PTL DEF RecallSpec
-----------------------------------------------------------------------------
(***************************************************************************)
(* The Select Bus on its way out (SelectBus), for every depth of the       *)
(* transmitter from two up, and any number of messages, as long as         *)
(* recallIgnoreBytes has room to count the decrements overwritten: echoes  *)
(* never reach the parser above, and other devices lose at most one byte   *)
(* for every message sent.                                                 *)
(*                                                                         *)
(* What carries the proof is Ahead: when a byte of the line may be back,   *)
(* every byte of the message not yet counted is still behind it, in the    *)
(* transmitter.                                                            *)
(***************************************************************************)

\* Where the main loop can be in its message.
Control ==
  /\ pc = "write" => left >= 1
  /\ pc \in {"load", "store"} => left = 0 /\ numBytes >= 1

\* Where the uncounted bytes are.
Ahead ==
  /\ shift = "none" => fifo = 0 /\ Uncounted = 0
  /\ shift = "old"  => Uncounted <= fifo
  /\ shift = "new"  => Uncounted <= fifo + 1 /\ pc # "idle"

\* Between the read and the write of the addition at most one echo is back,
\* as the byte that follows it on the line is new.
OneRace ==
  pc = "store" =>
    \/ loaded = recallIgnoreBytes
    \/ loaded = recallIgnoreBytes + 1 /\ shift = "new"

Races ==
  /\ swallowed <= undone
  /\ undone <= messages
  /\ pc # "idle" => undone < messages
  /\ undone <= swallowed + MaxOwed
  /\ pc # "idle" => undone < swallowed + MaxOwed

BusInv ==
  TypeOK /\ Control /\ Ahead /\ Ledger /\ OneRace /\ Races /\ EchoNeverParsed

\* Sums told with numbers only.
LEMMA MoreTakenAway ==
  ASSUME NEW a \in Nat, NEW b \in Nat, NEW c \in Nat, NEW m \in Nat, b <= c
  PROVE  /\ a <= b + m => a <= c + m
         /\ a < b + m => a < c + m
OBVIOUS

LEMMA OneByteBack ==
  ASSUME NEW r \in Int, NEW f \in Int, NEW u \in Int, NEW d \in Int, NEW f2, NEW l2,
         r = f + 1 - u + d,
         \/ f = 0 /\ f2 = 0 /\ l2 = 0
         \/ f2 = f - 1 /\ l2 = 1
  PROVE  r - 1 = f2 + l2 - u + d
<1>1. CASE f = 0 /\ f2 = 0 /\ l2 = 0
  BY <1>1
<1>2. CASE f2 = f - 1 /\ l2 = 1
  BY <1>2
<1> QED
  BY <1>1, <1>2

USE DepthAssumption, WidthAssumption

LEMMA BusInvAtFirst == BusInit => BusInv
<1>1. BusInit => TypeOK
  <2> SUFFICES ASSUME BusInit PROVE TypeOK
    OBVIOUS
  <2>1. echoParsed \in BOOLEAN
    BY Zenon DEF BusInit
  <2>2. undone \in Nat /\ swallowed \in 0 .. foreign /\ messages \in 0 .. MaxMessages
    BY DEF BusInit
  <2> QED
    BY <2>1, <2>2 DEF BusInit, TypeOK
<1>3. BusInit => Control /\ Ahead /\ Ledger /\ OneRace /\ Races
  BY DEF BusInit, Control, Ahead, Ledger, OneRace, Races, Uncounted, OnLine
<1>2. BusInit => EchoNeverParsed
  BY Zenon DEF BusInit, EchoNeverParsed
<1> QED
  BY <1>1, <1>2, <1>3 DEF BusInv

LEMMA BusCounts ==
  /\ TypeOK => OnLine \in 0 .. 1 /\ Uncounted \in -3 .. 3
  /\ TypeOK' => OnLine' \in 0 .. 1 /\ Uncounted' \in -3 .. 3
BY DEF TypeOK, OnLine, Uncounted

LEMMA BusInvCommand ==
  ASSUME BusInv, NEW n \in 1 .. 3, Command(n)
  PROVE  BusInv'
BY DEF BusInv, TypeOK, Control, Ahead, Ledger, OneRace, Races, EchoNeverParsed,
       Uncounted, OnLine, Command, transmitter

\* A byte written goes behind those on their way, and is not counted yet.
LEMMA BusInvWrite ==
  ASSUME BusInv, Write
  PROVE  BusInv'
<1>1. UNCHANGED <<numBytes, loaded, recallIgnoreBytes, messages, undone, foreign,
                  swallowed, echoParsed>>
  BY DEF Write, history
<1>2. Uncounted' = Uncounted + 1
  BY <1>1 DEF Write, Uncounted, BusInv, TypeOK, Control
<1>3. fifo' + OnLine' = fifo + OnLine + 1
  BY DEF Write, OnLine, BusInv, TypeOK, Ahead
<1>4. TypeOK' /\ Control'
  BY <1>1 DEF Write, UTXBF, BusInv, TypeOK, Control
<1>5. Ahead'
  BY <1>2 DEF Write, BusInv, Ahead, TypeOK, Uncounted
<1>6. Ledger'
  BY <1>1, <1>2, <1>3, <1>4, BusCounts DEF BusInv, Ledger, TypeOK
<1> QED
  BY <1>1, <1>4, <1>5, <1>6 DEF BusInv, OneRace, Races, EchoNeverParsed, Write

LEMMA BusInvLoad ==
  ASSUME BusInv, Load
  PROVE  BusInv'
BY DEF BusInv, TypeOK, Control, Ahead, Ledger, OneRace, Races, EchoNeverParsed,
       Uncounted, OnLine, Load, transmitter, history

\* The addition does not wrap, and overwrites at most one decrement.
LEMMA BusInvStore ==
  ASSUME BusInv, Store
  PROVE  BusInv'
<1>1. /\ pc = "store" /\ pc' = "idle" /\ left = 0 /\ numBytes \in 1 .. 3
      /\ UNCHANGED <<numBytes, left, loaded, fifo, messages, foreign, swallowed,
                     echoParsed>>
  BY DEF Store, BusInv, TypeOK, Control
<1>2. loaded - recallIgnoreBytes \in 0 .. 1
  BY <1>1 DEF BusInv, OneRace, TypeOK
<1>3. recallIgnoreBytes = fifo + OnLine - numBytes + (undone - swallowed)
  BY <1>1 DEF BusInv, Ledger, Uncounted, TypeOK
<1>4. loaded + numBytes \in 0 .. Width - 1
  BY <1>1, <1>2, <1>3 DEF BusInv, TypeOK, Races, OnLine
<1>5. recallIgnoreBytes' = loaded + numBytes
  BY <1>4 DEF Store
<1>6. undone' = undone + (loaded - recallIgnoreBytes)
  BY DEF Store
<1>7. OnLine' = OnLine /\ Uncounted' = 0 /\ Uncounted = numBytes
  BY <1>1 DEF Store, OnLine, Uncounted, BusInv, TypeOK
<1>8. TypeOK'
  BY <1>1, <1>2, <1>4, <1>5, <1>6 DEF BusInv, TypeOK, Store
<1>9. Ahead' /\ Control'
  BY <1>1, <1>7 DEF BusInv, Ahead, Control, Store, TypeOK
<1>10. Ledger'
  BY <1>1, <1>2, <1>3, <1>5, <1>6, <1>7, <1>8 DEF Ledger, BusInv, TypeOK, OnLine
<1>11. Races'
  BY <1>1, <1>2, <1>6 DEF BusInv, Races, TypeOK
<1> QED
  BY <1>1, <1>8, <1>9, <1>10, <1>11 DEF BusInv, OneRace, EchoNeverParsed

\* The echo that is back has been counted.
LEMMA BusInvEcho ==
  ASSUME BusInv, EchoArrives
  PROVE  BusInv'
<1>1. UNCHANGED <<pc, numBytes, left, loaded, messages, undone, foreign, swallowed>>
  BY DEF EchoArrives, main
<1>2. Uncounted' = Uncounted /\ Uncounted \in 0 .. 3
  BY <1>1 DEF Uncounted, BusInv, TypeOK
<1>3. Uncounted <= fifo
  <2>1. CASE shift = "old"
    BY <2>1 DEF BusInv, Ahead
  <2>2. CASE Blocked
    BY <2>2 DEF Blocked, UTXBF, Uncounted, BusInv, TypeOK, Control
  <2> QED
    BY <2>1, <2>2 DEF EchoArrives
<1>4. /\ OnLine = 1
      /\ \/ fifo = 0 /\ fifo' = 0 /\ OnLine' = 0
         \/ fifo > 0 /\ fifo' = fifo - 1 /\ OnLine' = 1
  BY DEF EchoArrives, OnLine, BusInv, TypeOK
<1>5. recallIgnoreBytes > 0
  BY <1>3, <1>4, <1>2 DEF BusInv, Ledger, TypeOK, Races
<1>6. recallIgnoreBytes' = recallIgnoreBytes - 1
  BY <1>5 DEF EchoArrives, Ignore, Ignored
<1>11. echoParsed' = echoParsed
  BY <1>5 DEF EchoArrives, Ignored, BusInv, TypeOK
<1>7. TypeOK' /\ Control'
  BY <1>1, <1>5, <1>6, <1>11 DEF BusInv, TypeOK, Control, EchoArrives
<1>8. Ahead'
  BY <1>1, <1>2, <1>3 DEF Ahead, EchoArrives, BusInv, TypeOK, Uncounted
<1>9. Ledger'
  <2>1. PICK d \in Int : d = undone - swallowed
    BY DEF BusInv, TypeOK
  <2>2. undone' - swallowed' = d
    BY <1>1, <2>1
  <2>3. PICK f \in Int, u \in Int, r \in Int :
          f = fifo /\ u = Uncounted /\ r = recallIgnoreBytes
    BY <1>2 DEF BusInv, TypeOK
  <2>4. PICK f2, l2 : f2 = fifo' /\ l2 = OnLine'
    OBVIOUS
  <2>5. r = f + 1 - u + d
    BY <1>4, <2>1, <2>3 DEF BusInv, Ledger
  <2>7. (f = 0 /\ f2 = 0 /\ l2 = 0) \/ (f2 = f - 1 /\ l2 = 1)
    BY <1>4, <2>3, <2>4
  <2>8. r - 1 = f2 + l2 - u + d
    BY <2>5, <2>7, OneByteBack
  <2>6. recallIgnoreBytes - 1 = fifo' + OnLine' - Uncounted + d
    BY <2>3, <2>4, <2>8
  <2> QED
    BY <1>2, <1>6, <2>2, <2>6 DEF Ledger
<1>10. OneRace'
  <2> SUFFICES ASSUME pc = "store"
               PROVE  loaded = recallIgnoreBytes' + 1 /\ shift' = "new"
    BY <1>1 DEF OneRace
  <2>1. shift = "old"
    BY DEF EchoArrives, Blocked
  <2>2. fifo # 0
    BY <1>3 DEF Uncounted, BusInv, TypeOK, Control
  <2> QED
    BY <1>6, <2>1, <2>2 DEF BusInv, OneRace, TypeOK, EchoArrives
<1> QED
  BY <1>1, <1>6, <1>7, <1>8, <1>9, <1>10, <1>11 DEF BusInv, Races, EchoNeverParsed

\* Another device's byte finds recallIgnoreBytes above zero only if an
\* overwritten decrement is still in it.
LEMMA BusInvForeign ==
  ASSUME BusInv, ForeignArrives
  PROVE  BusInv'
<1>1. UNCHANGED <<pc, numBytes, left, loaded, fifo, shift, messages, undone, echoParsed>>
  BY DEF ForeignArrives, main, transmitter
<1>2. shift = "none" /\ fifo = 0 /\ Uncounted = 0 /\ OnLine = 0
  BY DEF ForeignArrives, BusInv, Ahead, OnLine
<1>3. recallIgnoreBytes = undone - swallowed
  BY <1>2 DEF BusInv, Ledger, TypeOK
<1>4. /\ swallowed' <= undone /\ swallowed <= swallowed'
      /\ recallIgnoreBytes' = undone - swallowed'
      /\ swallowed' \in 0 .. foreign' /\ foreign' \in 0 .. MaxForeign
  BY <1>3 DEF ForeignArrives, Ignore, Ignored, BusInv, TypeOK, Races
<1>5. pc # "store"
  BY <1>2 DEF Uncounted, BusInv, Control, TypeOK
<1>6. Uncounted' = 0 /\ OnLine' = 0
  BY <1>1, <1>2 DEF Uncounted, OnLine
<1>7. TypeOK'
  <2>1. recallIgnoreBytes' \in 0 .. Width - 1
    BY DEF BusInv, TypeOK, ForeignArrives, Ignore, Ignored
  <2>2. swallowed' \in 0 .. foreign' /\ foreign' \in 0 .. MaxForeign
    BY <1>4
  <2> QED
    BY <1>1, <2>1, <2>2 DEF BusInv, TypeOK
<1>8. Control' /\ Ahead' /\ OneRace'
  BY <1>1, <1>2, <1>5, <1>6 DEF BusInv, Control, Ahead, OneRace
<1>9. Ledger'
  BY <1>1, <1>2, <1>4, <1>6, <1>7 DEF Ledger, TypeOK
<1>11. Races'
  <2>1. /\ undone \in Nat /\ swallowed \in Nat /\ swallowed' \in Nat /\ MaxOwed \in Nat
        /\ swallowed <= swallowed' /\ swallowed' <= undone
    BY <1>1, <1>4, WidthAssumption DEF BusInv, TypeOK
  <2>2. /\ undone <= swallowed + MaxOwed => undone <= swallowed' + MaxOwed
        /\ undone < swallowed + MaxOwed => undone < swallowed' + MaxOwed
    BY <2>1, MoreTakenAway
  <2>3. Races
    BY DEF BusInv
  <2> QED
    BY <1>1, <2>1, <2>2, <2>3 DEF Races
<1>10. EchoNeverParsed'
  BY <1>1 DEF BusInv, EchoNeverParsed
<1> QED
  BY <1>7, <1>8, <1>9, <1>10, <1>11 DEF BusInv

LEMMA BusInvKept == BusInv /\ [BusNext]_busVars => BusInv'
<1> SUFFICES ASSUME BusInv, [BusNext]_busVars PROVE BusInv'
  OBVIOUS
<1>1. ASSUME NEW n \in 1 .. 3, Command(n) PROVE BusInv'
  BY <1>1, BusInvCommand
<1>2. CASE UNCHANGED busVars
  BY <1>2 DEF busVars, main, transmitter, history, BusInv, TypeOK, Control, Ahead, Ledger,
              OneRace, Races, EchoNeverParsed, Uncounted, OnLine
<1> QED
  BY <1>1, <1>2, BusInvWrite, BusInvLoad, BusInvStore, BusInvEcho, BusInvForeign DEF BusNext

LEMMA BusInvAlways == BusSpec => []BusInv
BY BusInvAtFirst, BusInvKept, PTL DEF BusSpec

\* The count of echoes to come is right at every moment, whatever is between
\* the transmitter and the addition (i2c.c, ProcessI2CMIDICommand).
THEOREM LedgerCorrect == BusSpec => []Ledger
<1>1. BusInv => Ledger
  BY DEF BusInv
<1> QED
  BY BusInvAlways, <1>1, PTL

\* No echo is ever handed to the Select Bus parser.
THEOREM EchoesIgnored == BusSpec => []EchoNeverParsed
<1>1. BusInv => EchoNeverParsed
  BY DEF BusInv
<1> QED
  BY BusInvAlways, <1>1, PTL

\* Another device's bytes are lost to overwritten decrements only, of which
\* there is at most one for every message.
THEOREM FewForeignLost == BusSpec => []ForeignLostToRaces
<1>1. BusInv => ForeignLostToRaces
  BY DEF BusInv, Races, ForeignLostToRaces
<1> QED
  BY BusInvAlways, <1>1, PTL
=============================================================================
