---------------------------- MODULE BridgeProofs ----------------------------
(***************************************************************************)
(* Proofs about the I2C slave, for every set of transfers and every size   *)
(* of the ring, and about the bridge, which is the slave with its outputs: *)
(* what it passes on is what the transfers asked for, where both are bytes *)
(* of commands joined one after the other.                                 *)
(***************************************************************************)
EXTENDS Bridge, TLAPS, WellFoundedInduction

Event == Byte \cup {Address, ReadMark}
Reading == {None, 0, 1}
States == {"idle", "1", "2of2", "2of3", "3of3", "2of4", "3of4", "4of4", "2ofN"}

TypeOK ==
  /\ todo \in Seq(Event)
  /\ rx \in Seq(Event \X (1 .. Len(transfers)))
  /\ i2cState \in States /\ i2cMsg \in [1 .. 4 -> Byte]
  /\ pc \in {"loop", "bytes", "index", "size"}
  /\ answer \in {<< >>, <<0, 0>>, << 1 >>}
  /\ i2cResponse \in [1 .. 2 -> {0, 1}]
  /\ i2cResponseIndex \in 0 .. 2 /\ i2cResponseSize \in 0 .. 2
  /\ transfers \in Seq(Seq(Byte)) /\ cut \subseteq Nat
  /\ executed \in Seq(Seq(Seq(Byte))) /\ Len(executed) = Len(transfers)
  /\ given \in Seq(Reading) /\ torn \in BOOLEAN
  /\ todo # << >> => Len(transfers) > 0

\* What i2cResponse holds, by the stores still due in preparing it.
Prepared ==
  /\ pc # "bytes" => \A k \in 1 .. Len(answer) : i2cResponse[k] = answer[k]
  /\ pc = "loop" => i2cResponseSize = Len(answer)
  /\ pc = "size" /\ ~torn => given = << >> /\ i2cResponseIndex = 0
  /\ pc = "loop" /\ ~torn =>
       i2cResponseIndex =
         IF Len(given) <= Len(answer) THEN Len(given) ELSE Len(answer)

ReadInv == TypeOK /\ Prepared /\ ReadsTheResponse
-----------------------------------------------------------------------------
(* Sequences. *)

\* Removing the first element, and adding one.
LEMMA TailOf ==
  ASSUME NEW S, NEW s \in Seq(S), s # << >>
  PROVE  /\ Head(s) \in S /\ Head(s) = s[1]
         /\ Tail(s) \in Seq(S) /\ Len(Tail(s)) = Len(s) - 1
         /\ \A k \in 1 .. Len(s) - 1 : Tail(s)[k] = s[k + 1]
         /\ Len(s) \in Nat \ {0}
OBVIOUS

LEMMA AppendTo ==
  ASSUME NEW S, NEW s \in Seq(S), NEW e \in S
  PROVE  /\ Append(s, e) \in Seq(S) /\ Len(Append(s, e)) = Len(s) + 1
         /\ \A k \in 1 .. Len(s) : Append(s, e)[k] = s[k]
         /\ Append(s, e)[Len(s) + 1] = e
         /\ Len(s) \in Nat
OBVIOUS

\* A function on 1 .. n is a sequence.
LEMMA FunctionIsSeq ==
  ASSUME NEW S, NEW n \in Nat, NEW f \in [1 .. n -> S]
  PROVE  f \in Seq(S) /\ Len(f) = n
OBVIOUS

LEMMA SeqIsFunction ==
  ASSUME NEW S, NEW s \in Seq(S)
  PROVE  s \in [1 .. Len(s) -> S] /\ Len(s) \in Nat
OBVIOUS

\* Replacing an element.
LEMMA Replaced ==
  ASSUME NEW S, NEW s \in Seq(S), NEW i \in 1 .. Len(s), NEW e \in S
  PROVE  /\ [s EXCEPT ![i] = e] \in Seq(S) /\ Len([s EXCEPT ![i] = e]) = Len(s)
         /\ [s EXCEPT ![i] = e][i] = e
         /\ \A k \in 1 .. Len(s) : k # i => [s EXCEPT ![i] = e][k] = s[k]
<1>1. [s EXCEPT ![i] = e] \in [1 .. Len(s) -> S] /\ Len(s) \in Nat
  OBVIOUS
<1>2. [s EXCEPT ![i] = e] \in Seq(S) /\ Len([s EXCEPT ![i] = e]) = Len(s)
  BY <1>1, FunctionIsSeq
<1> QED
  BY <1>2

LEMMA Joined ==
  ASSUME NEW S, NEW s \in Seq(S), NEW u \in Seq(S)
  PROVE  /\ s \o u \in Seq(S) /\ Len(s \o u) = Len(s) + Len(u)
         /\ \A k \in 1 .. Len(s) : (s \o u)[k] = s[k]
         /\ \A k \in 1 .. Len(u) : (s \o u)[Len(s) + k] = u[k]
         /\ Len(s) \in Nat /\ Len(u) \in Nat
OBVIOUS

\* The first elements of a sequence.
LEMMA FirstOf ==
  ASSUME NEW S, NEW s \in Seq(S), NEW n \in 0 .. Len(s)
  PROVE  /\ SubSeq(s, 1, n) \in Seq(S) /\ Len(SubSeq(s, 1, n)) = n
         /\ \A k \in 1 .. n : SubSeq(s, 1, n)[k] = s[k]
OBVIOUS

-----------------------------------------------------------------------------
(* The parser's tables. *)

\* A command has its length by its first byte.
LEMMA Disjoint ==
  /\ OneByte \cap (TwoBytes \cup ThreeBytes \cup FourBytes \cup Message) = {}
  /\ TwoBytes \cap (ThreeBytes \cup FourBytes \cup Message) = {}
  /\ ThreeBytes \cap (FourBytes \cup Message) = {}
  /\ FourBytes \cap Message = {}
BY DEF OneByte, TwoBytes, ThreeBytes, FourBytes, Message

LEMMA NumBytesType == \A b \in Byte : NumBytes(b) \in 0 .. 3
BY DEF NumBytes

LEMMA PositionType ==
  /\ Position \in [States \ {"idle"} -> 1 .. 4]
  /\ Position["1"] = 1 
  /\ Position["2of2"] = 2 /\ Position["2of3"] = 2 /\ Position["2of4"] = 2
  /\ Position["2ofN"] = 2
  /\ Position["3of3"] = 3 /\ Position["3of4"] = 3 /\ Position["4of4"] = 4
BY DEF Position, States

LEMMA AfterType ==
  ASSUME NEW b \in Byte, i2cState \in States, i2cState # "idle"
  PROVE  After(b) \in States
BY DEF After, States

LEMMA UpTo2 ==
  /\ \A n \in Nat : n <= 2 => n \in 0 .. 2
  /\ \A n \in 0 .. 2 : n \in Nat /\ n <= 2
OBVIOUS

LEMMA AnswerLength ==
  ASSUME NEW a \in {<< >>, <<0, 0>>, << 1 >>}
  PROVE  a \in Seq({0, 1}) /\ Len(a) \in Nat /\ Len(a) <= 2
<1>1. CASE a = << >>
  BY <1>1
<1>2. CASE a = <<0, 0>>
  BY <1>2
<1>3. CASE a = << 1 >>
  BY <1>3
<1> QED
  BY <1>1, <1>2, <1>3

LEMMA AnswerType == \A c : Answer(c) \in {<< >>, <<0, 0>>, << 1 >>}
BY DEF Answer

LEMMA FirstOfFour ==
  ASSUME NEW m \in [1 .. 4 -> Byte], NEW n \in 0 .. 4
  PROVE  /\ m \in Seq(Byte) /\ Len(m) = 4
         /\ SubSeq(m, 1, n) \in Seq(Byte) /\ Len(SubSeq(m, 1, n)) = n
         /\ \A k \in 1 .. n : SubSeq(m, 1, n)[k] = m[k]
<1>1. m \in Seq(Byte) /\ Len(m) = 4
  BY FunctionIsSeq
<1> QED
  BY <1>1, FirstOf

LEMMA CommandType ==
  ASSUME NEW msg \in [1 .. 4 -> Byte], i2cState \in States, i2cState # "idle"
  PROVE  Command(msg) \in Seq(Byte)
<1>1. msg \in Seq(Byte) /\ Len(msg) = 4
  BY FirstOfFour
<1>2. 1 + NumBytes(msg[2]) \in 0 .. 4 /\ Position[i2cState] \in 0 .. 4
  BY NumBytesType, PositionType
<1> QED
  BY <1>1, <1>2, FirstOf DEF Command
-----------------------------------------------------------------------------
(* The slave's types. *)

LEMMA TypeInit == Init => TypeOK
<1> SUFFICES ASSUME Init PROVE TypeOK
  OBVIOUS
<1>1. /\ \A S : << >> \in Seq(S)
      /\ Len(<< >>) = 0
  OBVIOUS
<1>2. i2cMsg \in [1 .. 4 -> Byte] /\ i2cResponse \in [1 .. 2 -> {0, 1}]
  BY DEF Init, Byte
<1>3. /\ todo \in Seq(Event) /\ transfers \in Seq(Seq(Byte))
      /\ executed \in Seq(Seq(Seq(Byte))) /\ given \in Seq(Reading)
      /\ rx \in Seq(Event \X (1 .. Len(transfers)))
      /\ Len(executed) = Len(transfers)
  BY <1>1 DEF Init
<1>4. i2cState \in States /\ torn \in BOOLEAN /\ cut \subseteq Nat
  BY DEF Init, States
<1>5. /\ pc \in {"loop", "bytes", "index", "size"}
      /\ answer \in {<< >>, <<0, 0>>, << 1 >>}
      /\ i2cResponseIndex \in 0 .. 2 /\ i2cResponseSize \in 0 .. 2
      /\ todo = << >>
  BY DEF Init
<1> QED
  BY <1>2, <1>3, <1>4, <1>5 DEF TypeOK

LEMMA WriteEvents ==
  ASSUME NEW t \in Seq(Byte)
  PROVE  /\ <<Address>> \o t \in Seq(Event)
         /\ Len(<<Address>> \o t) = Len(t) + 1
         /\ (<<Address>> \o t)[1] = Address
         /\ \A k \in 1 .. Len(t) : (<<Address>> \o t)[k + 1] = t[k]
<1>1. t \in Seq(Event) /\ <<Address>> \in Seq(Event)
  BY DEF Event
<1> QED
  BY <1>1

LEMMA ReadEvents ==
  ASSUME NEW n \in Nat
  PROVE  /\ [i \in 1 .. n |-> ReadMark] \in Seq(Event)
         /\ Len([i \in 1 .. n |-> ReadMark]) = n
BY FunctionIsSeq DEF Event

LEMMA TypeStart ==
  ASSUME TypeOK, NEW what \in Seq(Byte), NEW events \in Seq(Event),
         Start(what, events)
  PROVE  TypeOK'
<1>1. /\ todo' = events /\ transfers' = Append(transfers, what)
      /\ executed' = Append(executed, << >>)
      /\ rx' = rx /\ i2cState' = i2cState /\ i2cMsg' = i2cMsg /\ pc' = pc
      /\ answer' = answer /\ i2cResponse' = i2cResponse
      /\ i2cResponseIndex' = i2cResponseIndex
      /\ i2cResponseSize' = i2cResponseSize
      /\ cut' = cut /\ given' = given /\ torn' = torn
  BY DEF Start, parser, response
<1>2. /\ transfers' \in Seq(Seq(Byte)) /\ Len(transfers') = Len(transfers) + 1
      /\ Len(transfers) \in Nat
  BY <1>1 DEF TypeOK
<1>3. executed' \in Seq(Seq(Seq(Byte))) /\ Len(executed') = Len(transfers')
  <2>1. << >> \in Seq(Seq(Byte))
    OBVIOUS
  <2>2. /\ executed \in Seq(Seq(Seq(Byte))) /\ Len(executed) = Len(transfers)
        /\ executed' = Append(executed, << >>)
    BY <1>1 DEF TypeOK
  <2>3. /\ executed' \in Seq(Seq(Seq(Byte)))
        /\ Len(executed') = Len(executed) + 1
    BY <2>1, <2>2, AppendTo
  <2> QED
    BY <1>2, <2>2, <2>3
<1>4. rx' \in Seq(Event \X (1 .. Len(transfers')))
  <2>1. 1 .. Len(transfers) \subseteq 1 .. Len(transfers')
    BY <1>2
  <2>2. Event \X (1 .. Len(transfers)) \subseteq Event \X (1 .. Len(transfers'))
    BY <2>1
  <2> HIDE DEF Event
  <2> QED
    BY <1>1, <2>2 DEF TypeOK
<1> QED
  BY <1>1, <1>2, <1>3, <1>4 DEF TypeOK

\* The handler's step: an entry joins the ring or is lost, and a read is
\* answered.
LEMMA TypeInterrupt == TypeOK /\ Interrupt => TypeOK'
<1> SUFFICES ASSUME TypeOK, Interrupt PROVE TypeOK'
  OBVIOUS
<1>1. /\ todo # << >> /\ todo' = Tail(todo) /\ Enqueue(Head(todo))
      /\ i2cState' = i2cState /\ i2cMsg' = i2cMsg /\ pc' = pc
      /\ answer' = answer /\ transfers' = transfers /\ executed' = executed
  BY DEF Interrupt, parser
<1>2. Head(todo) \in Event /\ todo' \in Seq(Event) /\ Len(transfers) \in Nat \ {0}
  BY <1>1, TailOf DEF TypeOK
<1>3. rx' \in Seq(Event \X (1 .. Len(transfers))) /\ cut' \subseteq Nat
  <2>1. CASE rx' = rx /\ cut' = cut \cup {Len(transfers)}
    BY <1>2, <2>1 DEF TypeOK
  <2>2. CASE rx' = Append(rx, <<Head(todo), Len(transfers)>>)
             /\ cut' = cut
    <3>1. <<Head(todo), Len(transfers)>> \in Event \X (1 .. Len(transfers))
      BY <1>2
    <3> QED
      BY <2>2, <3>1, AppendTo DEF TypeOK
  <2> QED
    BY <1>1, <2>1, <2>2 DEF Enqueue
<1>4. /\ i2cResponse' = i2cResponse /\ i2cResponseSize' = i2cResponseSize
      /\ i2cResponseIndex' \in 0 .. 2
      /\ given' \in Seq(Reading) /\ torn' \in BOOLEAN
  <2>1. CASE UNCHANGED <<response, given, torn>>
    BY <2>1 DEF response, TypeOK
  <2>2. CASE Respond
    <3>1. CASE i2cResponseIndex < i2cResponseSize
      <4>1. i2cResponseIndex + 1 \in 1 .. 2
        BY <3>1 DEF TypeOK
      <4>2. i2cResponse[i2cResponseIndex + 1] \in Reading
        BY <4>1 DEF TypeOK, Reading
      <4>3. given' \in Seq(Reading)
        <5>1. given \in Seq(Reading)
          BY DEF TypeOK
        <5>2. given' = Append(given, i2cResponse[i2cResponseIndex + 1])
          BY <2>2, <3>1 DEF Respond
        <5> QED
          BY <4>2, <5>1, <5>2, AppendTo
      <4>4. torn' \in BOOLEAN
        BY <2>2 DEF Respond, TypeOK
      <4> QED
        BY <2>2, <3>1, <4>1, <4>3, <4>4 DEF Respond
    <3>2. CASE ~(i2cResponseIndex < i2cResponseSize)
      <4>1. given' \in Seq(Reading)
        <5>1. None \in Reading
          BY DEF Reading
        <5>2. given \in Seq(Reading)
          BY DEF TypeOK
        <5>3. given' = Append(given, None)
          BY <2>2, <3>2 DEF Respond
        <5> QED
          BY <5>1, <5>2, <5>3, AppendTo
      <4>2. torn' \in BOOLEAN
        BY <2>2 DEF Respond, TypeOK
      <4> QED
        BY <2>2, <3>2, <4>1, <4>2 DEF Respond, TypeOK
    <3> QED
      BY <3>1, <3>2
  <2> QED
    BY <2>1, <2>2 DEF Interrupt
<1> QED
  BY <1>1, <1>2, <1>3, <1>4 DEF TypeOK

\* The main loop's step: an entry of the ring.
LEMMA TypeProcess == TypeOK /\ ProcessI2CIn => TypeOK'
<1> SUFFICES ASSUME TypeOK, ProcessI2CIn PROVE TypeOK'
  OBVIOUS
<1>1. /\ rx # << >> /\ rx' = Tail(rx)
      /\ todo' = todo /\ i2cResponse' = i2cResponse
      /\ i2cResponseIndex' = i2cResponseIndex
      /\ i2cResponseSize' = i2cResponseSize
      /\ transfers' = transfers /\ cut' = cut /\ given' = given /\ torn' = torn
  BY DEF ProcessI2CIn, response
<1>2. /\ rx' \in Seq(Event \X (1 .. Len(transfers)))
      /\ Head(rx) \in Event \X (1 .. Len(transfers))
  <2> HIDE DEF Event
  <2> DEFINE E == Event \X (1 .. Len(transfers))
  <2>1. rx \in Seq(E)
    BY DEF TypeOK
  <2> HIDE DEF E
  <2>2. Tail(rx) \in Seq(E) /\ Head(rx) \in E
    BY <1>1, <2>1, TailOf
  <2> QED
    BY <1>1, <2>2 DEF E
<1>3. CASE Framed
  BY <1>1, <1>2, <1>3 DEF Framed, TypeOK, States
<1>4. CASE Ignored
  BY <1>1, <1>2, <1>4 DEF Ignored, parser, TypeOK
<1>5. CASE Taken
  <2> DEFINE b == Head(rx)[1]
             i == Head(rx)[2]
             msg == [i2cMsg EXCEPT ![Position[i2cState]] = b]
  <2>1. /\ b \in Event /\ b >= 0 /\ i2cState # "idle" /\ i \in 1 .. Len(transfers)
        /\ i2cMsg' = msg /\ i2cState' = After(b)
    BY <1>2, <1>5 DEF Taken
  <2>2. b \in Byte
    BY <2>1 DEF Event, Address, ReadMark
  <2>3. msg \in [1 .. 4 -> Byte] /\ i2cState' \in States
    BY <2>1, <2>2, PositionType, AfterType DEF TypeOK
  <2>4. Command(msg) \in Seq(Byte)
    BY <2>1, <2>3, CommandType DEF TypeOK
  <2>5. executed' \in Seq(Seq(Seq(Byte))) /\ Len(executed') = Len(transfers)
    <3> DEFINE more == Append(executed[i], Command(msg))
    <3>1. executed[i] \in Seq(Seq(Byte)) /\ i \in 1 .. Len(executed)
      BY <2>1 DEF TypeOK
    <3>2. more \in Seq(Seq(Byte))
      BY <2>4, <3>1, AppendTo
    <3>3. executed' = executed \/ executed' = [executed EXCEPT ![i] = more]
      BY <1>5 DEF Taken
    <3>4. executed \in Seq(Seq(Seq(Byte))) /\ Len(executed) = Len(transfers)
      BY DEF TypeOK
    <3> HIDE DEF more, i, b, msg
    <3>5. [executed EXCEPT ![i] = more] \in Seq(Seq(Seq(Byte)))
          /\ Len([executed EXCEPT ![i] = more]) = Len(executed)
      BY <3>1, <3>2, <3>4, Replaced
    <3> QED
      BY <3>3, <3>4, <3>5
  <2>6. /\ answer' \in {<< >>, <<0, 0>>, << 1 >>}
        /\ pc' \in {"loop", "bytes", "index", "size"}
    BY <1>5, AnswerType DEF Taken, TypeOK
  <2> QED
    BY <1>1, <1>2, <2>1, <2>3, <2>5, <2>6 DEF TypeOK
<1> QED
  BY <1>3, <1>4, <1>5 DEF ProcessI2CIn

\* The response's bytes, stored over the earlier one's.
LEMMA Stored ==
  ASSUME NEW S, NEW a \in Seq(S), Len(a) <= 2, NEW r \in [1 .. 2 -> S]
  PROVE  /\ a \o SubSeq(r, Len(a) + 1, 2) \in [1 .. 2 -> S]
         /\ \A k \in 1 .. Len(a) : (a \o SubSeq(r, Len(a) + 1, 2))[k] = a[k]
<1>1. r \in Seq(S) /\ Len(r) = 2 /\ Len(a) \in Nat
  <2>1. 2 \in Nat
    OBVIOUS
  <2>2. r \in Seq(S) /\ Len(r) = 2
    BY <2>1, FunctionIsSeq, Zenon
  <2>3. Len(a) \in Nat
    BY SeqIsFunction, Zenon
  <2> QED
    BY <2>2, <2>3
<1> DEFINE rest == SubSeq(r, Len(a) + 1, 2)
<1>2. rest \in Seq(S) /\ Len(rest) = 2 - Len(a)
  BY <1>1
<1> HIDE DEF rest
<1>3. a \o rest \in Seq(S) /\ Len(a \o rest) = 2
  BY <1>1, <1>2, Joined
<1>4. a \o rest \in [1 .. 2 -> S]
  BY <1>3, SeqIsFunction
<1> QED
  BY <1>1, <1>2, <1>4, Joined DEF rest

LEMMA TypePrepare == TypeOK /\ Prepare => TypeOK'
<1> SUFFICES ASSUME TypeOK, Prepare PROVE TypeOK'
  OBVIOUS
<1>1. /\ todo' = todo /\ rx' = rx /\ i2cState' = i2cState /\ i2cMsg' = i2cMsg
      /\ answer' = answer /\ transfers' = transfers /\ cut' = cut
      /\ executed' = executed
  BY DEF Prepare, parser
<1>2. pc' \in {"loop", "bytes", "index", "size"}
  BY DEF Prepare
<1>3. i2cResponse' \in [1 .. 2 -> {0, 1}]
  <2>1. i2cResponse \in [1 .. 2 -> {0, 1}]
        /\ answer \in Seq({0, 1}) /\ Len(answer) <= 2
    BY AnswerLength DEF TypeOK
  <2>2. \/ i2cResponse' = answer \o SubSeq(i2cResponse, Len(answer) + 1, 2)
        \/ i2cResponse' = i2cResponse
    BY DEF Prepare
  <2> QED
    BY <2>1, <2>2, Stored
<1>4. i2cResponseIndex' \in 0 .. 2 /\ i2cResponseSize' \in 0 .. 2
  <2>1. Len(answer) \in 0 .. 2
    BY AnswerLength, UpTo2 DEF TypeOK
  <2>2. /\ i2cResponseIndex' = i2cResponseIndex \/ i2cResponseIndex' = 0
        /\ \/ i2cResponseSize' = i2cResponseSize
           \/ i2cResponseSize' = Len(answer)
    BY DEF Prepare
  <2>3. i2cResponseIndex \in 0 .. 2 /\ i2cResponseSize \in 0 .. 2 /\ 0 \in 0 .. 2
    BY DEF TypeOK
  <2> QED
    BY <2>1, <2>2, <2>3
<1>5. given' \in Seq(Reading) /\ torn' \in BOOLEAN
  <2>1. given' \in {given, << >>} /\ torn' \in {torn, FALSE}
    BY DEF Prepare
  <2>2. << >> \in Seq(Reading)
    OBVIOUS
  <2> QED
    BY <2>1, <2>2 DEF TypeOK
<1> QED
  BY <1>1, <1>2, <1>3, <1>4, <1>5 DEF TypeOK
-----------------------------------------------------------------------------
(* ReadsTheResponse is inductive with Prepared. *)

LEMMA ReadInit == Init => ReadInv
<1> SUFFICES ASSUME Init PROVE ReadInv
  OBVIOUS
<1>1. TypeOK
  BY TypeInit
<1>2. Prepared
  BY DEF Init, Prepared
<1>3. ReadsTheResponse
  BY DEF Init, ReadsTheResponse
<1> QED
  BY <1>1, <1>2, <1>3 DEF ReadInv

\* A step that leaves the response and what was read alone.
LEMMA ReadKept ==
  ASSUME ReadInv,
         UNCHANGED <<i2cResponse, i2cResponseIndex, i2cResponseSize>>,
         UNCHANGED <<given, torn>>,
         UNCHANGED <<pc, answer>> \/ pc' = "bytes"
  PROVE  Prepared' /\ ReadsTheResponse'
BY DEF ReadInv, Prepared, ReadsTheResponse

LEMMA ReadInterrupt == ReadInv /\ Interrupt => Prepared' /\ ReadsTheResponse'
<1> SUFFICES ASSUME ReadInv, Interrupt PROVE Prepared' /\ ReadsTheResponse'
  OBVIOUS
<1>1. CASE UNCHANGED <<response, given, torn>>
  BY <1>1, ReadKept DEF Interrupt, response
<1>2. CASE Respond
  <2>1. /\ i2cResponse' = i2cResponse /\ i2cResponseSize' = i2cResponseSize
        /\ pc' = pc /\ answer' = answer
        /\ torn' = (torn \/ pc # "loop")
    BY <1>2 DEF Respond, Interrupt
  <2>2. /\ i2cResponse \in [1 .. 2 -> {0, 1}] /\ Len(i2cResponse) = 2
        /\ i2cResponseIndex \in 0 .. 2 /\ i2cResponseSize \in 0 .. 2
        /\ torn \in BOOLEAN /\ given \in Seq(Reading) /\ Len(answer) \in Nat
    BY FunctionIsSeq, AnswerLength DEF ReadInv, TypeOK
  <2>3. i2cResponseIndex' <= Len(i2cResponse')
    BY <1>2, <2>1, <2>2 DEF Respond
  <2>4. CASE pc # "loop"
    BY <2>1, <2>3, <2>4 DEF ReadInv, Prepared, ReadsTheResponse
  <2>5. CASE pc = "loop" /\ torn
    BY <2>1, <2>2, <2>3, <2>5 DEF ReadInv, Prepared, ReadsTheResponse
  <2>6. CASE pc = "loop" /\ ~torn
    <3> DEFINE new == given'[Len(given) + 1]
    <3>1. /\ \A k \in 1 .. Len(answer) : i2cResponse[k] = answer[k]
          /\ i2cResponseSize = Len(answer)
          /\ i2cResponseIndex =
               IF Len(given) <= Len(answer) THEN Len(given) ELSE Len(answer)
          /\ \A k \in 1 .. Len(given) :
               given[k] = IF k <= Len(answer) THEN answer[k] ELSE None
      BY <2>6 DEF ReadInv, Prepared, ReadsTheResponse
    <3>2. /\ Len(given') = Len(given) + 1 /\ Len(given) \in Nat
          /\ \A k \in 1 .. Len(given) : given'[k] = given[k]
      BY <1>2, <2>2 DEF Respond
    <3>3. CASE Len(given) < Len(answer)
      <4>1. i2cResponseIndex < i2cResponseSize /\ i2cResponseIndex = Len(given)
        BY <2>2, <3>1, <3>2, <3>3
      <4>2. /\ i2cResponseIndex' = Len(given) + 1
            /\ given' = Append(given, i2cResponse[Len(given) + 1])
        BY <1>2, <4>1 DEF Respond
      <4>3. new = i2cResponse[Len(given) + 1]
        BY <2>2, <4>2
      <4>4. new = answer[Len(given) + 1]
        BY <2>2, <3>1, <3>2, <3>3, <4>3
      <4> HIDE DEF new
      <4>5. \A k \in 1 .. Len(given') :
              given'[k] = IF k <= Len(answer) THEN answer[k] ELSE None
        BY <2>2, <3>1, <3>2, <3>3, <4>4 DEF new
      <4> QED
        BY <2>1, <2>2, <2>3, <2>6, <3>1, <3>2, <3>3, <4>2, <4>5
           DEF Prepared, ReadsTheResponse
    <3>4. CASE ~(Len(given) < Len(answer))
      <4>1. ~(i2cResponseIndex < i2cResponseSize) /\ i2cResponseIndex = Len(answer)
        BY <2>2, <3>1, <3>2, <3>4
      <4>2. /\ i2cResponseIndex' = Len(answer)
            /\ given' = Append(given, None)
        BY <1>2, <4>1 DEF Respond
      <4>3. new = None
        BY <2>2, <4>2
      <4> HIDE DEF new
      <4>5. \A k \in 1 .. Len(given') :
              given'[k] = IF k <= Len(answer) THEN answer[k] ELSE None
        BY <2>2, <3>1, <3>2, <3>4, <4>3 DEF new
      <4> QED
        BY <2>1, <2>2, <2>3, <2>6, <3>1, <3>2, <3>4, <4>2, <4>5
           DEF Prepared, ReadsTheResponse
    <3> QED
      BY <3>3, <3>4
  <2> QED
    BY <2>2, <2>4, <2>5, <2>6
<1> QED
  BY <1>1, <1>2 DEF Interrupt

LEMMA ReadProcess == ReadInv /\ ProcessI2CIn => Prepared' /\ ReadsTheResponse'
<1> SUFFICES ASSUME ReadInv, ProcessI2CIn PROVE Prepared' /\ ReadsTheResponse'
  OBVIOUS
<1>1. UNCHANGED <<pc, answer>> \/ pc' = "bytes"
  BY DEF ProcessI2CIn, Framed, Ignored, Taken
<1> QED
  BY <1>1, ReadKept DEF ProcessI2CIn, response

LEMMA ReadPrepare == ReadInv /\ Prepare => Prepared' /\ ReadsTheResponse'
<1> SUFFICES ASSUME ReadInv, Prepare PROVE Prepared' /\ ReadsTheResponse'
  OBVIOUS
<1>1. /\ i2cResponse \in [1 .. 2 -> {0, 1}]
      /\ answer \in Seq({0, 1}) /\ Len(answer) <= 2 /\ answer' = answer
      /\ i2cResponseIndex \in 0 .. 2 /\ Len(answer) \in Nat
  BY AnswerLength DEF ReadInv, TypeOK, Prepare
<1>2. CASE pc = "bytes"
  <2>1. /\ i2cResponse' = answer \o SubSeq(i2cResponse, Len(answer) + 1, 2)
        /\ pc' = "index" /\ i2cResponseIndex' = i2cResponseIndex
    BY <1>2 DEF Prepare
  <2>2. /\ i2cResponse' \in [1 .. 2 -> {0, 1}]
        /\ \A k \in 1 .. Len(answer) : i2cResponse'[k] = answer[k]
    BY <1>1, <2>1, Stored
  <2>3. Len(i2cResponse') = 2
    BY <2>2, FunctionIsSeq
  <2> QED
    BY <1>1, <2>1, <2>2, <2>3 DEF Prepared, ReadsTheResponse
<1>3. CASE pc = "index"
  <2>1. /\ pc' = "size" /\ i2cResponseIndex' = 0 /\ i2cResponse' = i2cResponse
        /\ given' = << >>
    BY <1>3 DEF Prepare
  <2>2. Len(i2cResponse) = 2
    BY <1>1, FunctionIsSeq
  <2> QED
    BY <1>1, <1>3, <2>1, <2>2 DEF ReadInv, Prepared, ReadsTheResponse
<1>4. CASE pc = "size"
  <2>1. /\ pc' = "loop" /\ i2cResponseSize' = Len(answer)
        /\ i2cResponse' = i2cResponse /\ i2cResponseIndex' = i2cResponseIndex
        /\ given' = given /\ torn' = torn
    BY <1>4 DEF Prepare
  <2>2. ~torn => Len(given) = 0
    BY <1>4 DEF ReadInv, Prepared
  <2> QED
    BY <1>1, <1>4, <2>1, <2>2 DEF ReadInv, Prepared, ReadsTheResponse
<1> QED
  BY <1>2, <1>3, <1>4 DEF Prepare

LEMMA ReadNext == ReadInv /\ [Next]_vars => ReadInv'
<1> SUFFICES ASSUME ReadInv, [Next]_vars PROVE ReadInv'
  OBVIOUS
<1> USE DEF ReadInv
<1>1. ASSUME NEW t \in Transfer, MasterWrites(t) PROVE ReadInv'
  <2>1. t \in Seq(Byte)
    BY I2CAssumption DEF Byte
  <2>2. TypeOK'
    BY <1>1, <2>1, WriteEvents, TypeStart DEF MasterWrites
  <2> QED
    BY <1>1, <2>2, ReadKept DEF MasterWrites, Start, response
<1>2. ASSUME NEW n \in 1 .. MaxRead, MasterReads(n) PROVE ReadInv'
  <2>1. n \in Nat /\ << >> \in Seq(Byte)
    BY I2CAssumption
  <2>2. TypeOK'
    BY <1>2, <2>1, ReadEvents, TypeStart DEF MasterReads
  <2> QED
    BY <1>2, <2>2, ReadKept DEF MasterReads, Start, response
<1>3. CASE Interrupt
  BY <1>3, TypeInterrupt, ReadInterrupt
<1>4. CASE ProcessI2CIn
  BY <1>4, TypeProcess, ReadProcess
<1>5. CASE Prepare
  BY <1>5, TypePrepare, ReadPrepare
<1>6. CASE UNCHANGED vars
  <2>1. TypeOK'
    BY <1>6 DEF vars, parser, response, history, TypeOK
  <2> QED
    BY <1>6, <2>1, ReadKept DEF vars, response, history
<1> QED
  BY <1>1, <1>2, <1>3, <1>4, <1>5, <1>6 DEF Next

\* Every step of the bridge is one of the slave's, or none of its business.
LEMMA BridgeStep == [BridgeNext]_bridgeVars => [Next]_vars
BY DEF BridgeNext, bridgeVars, Meanwhile, Process, PrepareResponse, PassOn, Sent, Next
-----------------------------------------------------------------------------
(* What the parser makes of a transfer, byte by byte.                      *)

\* The state the first j bytes of transfer t lead to.
Expected(t, j) ==
  CASE j = 0 -> "1"
    [] j = 1 -> (CASE t[1] \in TwoBytes   -> "2of2"
                   [] t[1] \in ThreeBytes -> "2of3"
                   [] t[1] \in FourBytes  -> "2of4"
                   [] t[1] \in Message    -> "2ofN"
                   [] OTHER               -> "idle")
    [] j > 1 /\ Size(t) = 3 -> "3of3"
    [] j = 2 /\ Size(t) = 4 -> "3of4"
    [] j = 3 /\ Size(t) = 4 -> "4of4"
    [] OTHER -> "idle"

\* The commands they make.
Count(t, j) ==
  CASE Size(t) = 0 \/ j < Size(t) -> 0
    [] Size(t) = 3 /\ j >= 3      -> j - 2
    [] OTHER                      -> 1
Commands(t, j) ==
  [k \in 1 .. Count(t, j) |-> Append(SubSeq(t, 1, Size(t) - 1), t[Size(t) + k - 1])]

\* What is still to come to the parser: the ring, then the events the master
\* has not produced yet.
Ahead == Len(rx) + Len(todo)
Coming(k) ==
  IF k <= Len(rx) THEN rx[k] ELSE <<todo[k - Len(rx)], Len(transfers)>>

\* The events of a transfer: its address and its bytes.
Total(i) == Len(transfers[i]) + 1
EventOf(i, p) == IF p = 1 THEN Address ELSE transfers[i][p - 1]

\* Of transfer i the parser has had the first c events, and the others come
\* after o events of other transfers, one behind the other.
Place(i, c, o) ==
  /\ o + Total(i) - c <= Ahead
  /\ \A k \in 1 .. Ahead : Coming(k)[2] = i <=> k \in o + 1 .. o + Total(i) - c
  /\ \A k \in o + 1 .. o + Total(i) - c : Coming(k)[1] = EventOf(i, c + k - o)

\* ... and has made of them what it should.
Parsed(i, c) ==
  /\ c = 0 => executed[i] = << >>
  /\ c > 0 => executed[i] = Commands(transfers[i], c - 1)
  /\ c > 0 /\ c < Total(i) =>
       /\ i2cState = Expected(transfers[i], c - 1)
       /\ i2cState # "idle" =>
            \A k \in 1 .. Position[i2cState] - 1 : i2cMsg[k] = transfers[i][k]

InStep(i) ==
  \E c \in 0 .. Total(i), o \in 0 .. Ahead :
    /\ Place(i, c, o) /\ Parsed(i, c)
    /\ c > 0 => o = 0

ExecInv ==
  /\ TypeOK
  /\ \A i \in 1 .. Len(transfers) :
       transfers[i] # << >> /\ i \notin cut => InStep(i)
-----------------------------------------------------------------------------
(* The parser, one byte further. *)

\* The size of a transfer's commands, by its first byte, or its first two.
LEMMA SizeIs ==
  ASSUME NEW t \in Seq(Byte), t # << >>
  PROVE  /\ t[1] \in OneByte => Size(t) = 1
         /\ t[1] \in TwoBytes => Size(t) = 2
         /\ t[1] \in ThreeBytes => Size(t) = 3
         /\ t[1] \in FourBytes => Size(t) = 4
         /\ t[1] \in Message =>
              Size(t) = IF Len(t) = 1 \/ NumBytes(t[2]) = 0 THEN 0
                        ELSE 1 + NumBytes(t[2])
         /\ t[1] \notin OneByte \cup TwoBytes \cup ThreeBytes \cup FourBytes \cup Message
              => Size(t) = 0
         /\ t[1] \in Message => Size(t) \in {0, 2, 3, 4}
         /\ Size(t) \in 0 .. 4
<1>1. Len(t) \in Nat \ {0} /\ (Len(t) > 1 => NumBytes(t[2]) \in 0 .. 3)
  BY NumBytesType
<1>2. CASE t[1] \in OneByte
  BY <1>2, Disjoint DEF Size
<1>3. CASE t[1] \in TwoBytes
  BY <1>3, Disjoint DEF Size
<1>4. CASE t[1] \in ThreeBytes
  BY <1>4, Disjoint DEF Size
<1>5. CASE t[1] \in FourBytes
  BY <1>5, Disjoint DEF Size
<1>6. CASE t[1] \in Message
  <2>1. Size(t) = IF Len(t) = 1 \/ NumBytes(t[2]) = 0 THEN 0 ELSE 1 + NumBytes(t[2])
    BY <1>6 DEF Size
  <2>2. Size(t) \in {0, 2, 3, 4}
    <3>1. \/ Size(t) = 0
          \/ NumBytes(t[2]) \in 1 .. 3 /\ Size(t) = 1 + NumBytes(t[2])
      <4>1. \A n \in Nat \ {0} : n = 1 \/ n > 1
        OBVIOUS
      <4>2. \A n \in 0 .. 3 : n = 0 \/ n \in 1 .. 3
        OBVIOUS
      <4>3. Len(t) = 1 \/ NumBytes(t[2]) = 0 \/ NumBytes(t[2]) \in 1 .. 3
        BY <1>1, <4>1, <4>2
      <4> QED
        BY <2>1, <4>3
    <3>2. \A n \in 1 .. 3 : 1 + n \in {0, 2, 3, 4}
      OBVIOUS
    <3> QED
      BY <3>1, <3>2
  <2>3. t[1] \notin OneByte \cup TwoBytes \cup ThreeBytes \cup FourBytes
    BY <1>6, Disjoint
  <2> QED
    BY <1>6, <2>1, <2>2, <2>3
<1>7. CASE t[1] \notin OneByte \cup TwoBytes \cup ThreeBytes \cup FourBytes \cup Message
  BY <1>7 DEF Size
<1> QED
  BY <1>2, <1>3, <1>4, <1>5, <1>6, <1>7

LEMMA CountIs ==
  ASSUME NEW t, NEW j \in Nat, Size(t) \in 0 .. 4
  PROVE  Count(t, j) = IF Size(t) = 0 \/ j < Size(t) THEN 0
                       ELSE IF Size(t) = 3 THEN j - 2 ELSE 1
BY DEF Count

LEMMA ExpectedIs ==
  ASSUME NEW t
  PROVE  /\ Expected(t, 0) = "1"
         /\ t[1] \in TwoBytes => Expected(t, 1) = "2of2"
         /\ t[1] \in ThreeBytes => Expected(t, 1) = "2of3"
         /\ t[1] \in FourBytes => Expected(t, 1) = "2of4"
         /\ t[1] \in Message => Expected(t, 1) = "2ofN"
         /\ t[1] \notin TwoBytes \cup ThreeBytes \cup FourBytes \cup Message =>
              Expected(t, 1) = "idle"
         /\ \A j \in Nat : j > 1 =>
              Expected(t, j) =
                IF Size(t) = 3 THEN "3of3"
                ELSE IF Size(t) = 4 /\ j = 2 THEN "3of4"
                ELSE IF Size(t) = 4 /\ j = 3 THEN "4of4" ELSE "idle"
BY Disjoint DEF Expected

\* A byte that finds the parser idle changes nothing.
LEMMA IdleStep ==
  ASSUME NEW t \in Seq(Byte), NEW j \in Nat, j < Len(t), Expected(t, j) = "idle"
  PROVE  Expected(t, j + 1) = "idle" /\ Count(t, j + 1) = Count(t, j)
<1>1. t # << >> /\ Len(t) \in Nat
  OBVIOUS
<1>2. j # 0
  BY ExpectedIs
<1>3. CASE j = 1
  <2>1. t[1] \notin TwoBytes \cup ThreeBytes \cup FourBytes \cup Message
    BY <1>3, ExpectedIs
  <2>2. Size(t) = 0 \/ Size(t) = 1
    BY <1>1, <2>1, SizeIs
  <2> QED
    BY <1>3, <2>2, ExpectedIs, CountIs
<1>4. CASE j > 1
  <2>1. Size(t) \in 0 .. 4
    BY <1>1, SizeIs
  <2>2. Size(t) # 3 /\ (Size(t) = 4 => j > 3)
    BY <1>4, ExpectedIs
  <2>3. Expected(t, j + 1) = "idle"
    BY <1>4, <2>2, ExpectedIs
  <2> QED
    BY <1>4, <2>1, <2>2, <2>3, CountIs
<1> QED
  BY <1>2, <1>3, <1>4

\* Byte j + 1 of a transfer leads to the state it should.
LEMMA StateStep ==
  ASSUME NEW t \in Seq(Byte), NEW j \in Nat, j < Len(t),
         i2cState = Expected(t, j), i2cState # "idle"
  PROVE  /\ After(t[j + 1]) = Expected(t, j + 1)
         /\ Position[i2cState] = IF j < 3 THEN j + 1 ELSE IF Size(t) = 3 THEN 3 ELSE 4
         /\ j > 2 => Size(t) = 3 \/ (Size(t) = 4 /\ j = 3)
         /\ Completes(t[j + 1]) <=> Count(t, j + 1) = Count(t, j) + 1
         /\ ~Completes(t[j + 1]) => Count(t, j + 1) = Count(t, j)
         /\ Completes(t[j + 1]) => /\ Size(t) > 0
                                   /\ Size(t) + Count(t, j + 1) - 1 = j + 1
                                   /\ Position[i2cState] = Size(t)
<1>1. t # << >> /\ Len(t) \in Nat
  OBVIOUS
<1>2. CASE j = 0
  <2>1. i2cState = "1"
    BY <1>2, ExpectedIs
  <2>2. After(t[1]) = Expected(t, 1)
    BY <2>1 DEF After, Expected
  <2>3. Completes(t[1]) <=> t[1] \in OneByte
    BY <2>1 DEF Completes
  <2>4. Size(t) = 1 <=> t[1] \in OneByte
    BY <1>1, SizeIs
  <2>5. Position[i2cState] = 1
    BY <2>1, PositionType
  <2>6. Size(t) \in 0 .. 4
    BY <1>1, SizeIs
  <2> QED
    BY <1>2, <2>2, <2>3, <2>4, <2>5, <2>6, CountIs
<1>3. CASE j = 1
  <2>1. t[2] \in Byte /\ NumBytes(t[2]) \in 0 .. 3
    BY <1>1, <1>3, NumBytesType
  <2>2. CASE t[1] \in TwoBytes
    BY <1>1, <1>3, <2>2, SizeIs, ExpectedIs, CountIs, PositionType
       DEF After, Completes
  <2>3. CASE t[1] \in ThreeBytes
    BY <1>1, <1>3, <2>3, SizeIs, ExpectedIs, CountIs, PositionType
       DEF After, Completes
  <2>4. CASE t[1] \in FourBytes
    BY <1>1, <1>3, <2>4, SizeIs, ExpectedIs, CountIs, PositionType
       DEF After, Completes
  <2>5. CASE t[1] \in Message
    BY <1>1, <1>3, <2>1, <2>5, SizeIs, ExpectedIs, CountIs, PositionType
       DEF After, Completes
  <2> QED
    BY <1>3, <2>2, <2>3, <2>4, <2>5, ExpectedIs
<1>4. CASE j > 1
  <2>1. CASE Size(t) = 3
    <3>1. i2cState = "3of3" /\ Expected(t, j + 1) = "3of3" /\ Position[i2cState] = 3
      BY <1>4, <2>1, ExpectedIs, PositionType
    <3>2. After(t[j + 1]) = "3of3" /\ Completes(t[j + 1])
      BY <3>1 DEF After, Completes
    <3>3. /\ Count(t, j) = IF j < 3 THEN 0 ELSE j - 2
          /\ Count(t, j + 1) = IF j + 1 < 3 THEN 0 ELSE j + 1 - 2
      BY <2>1, CountIs
    <3>4. Count(t, j + 1) = Count(t, j) + 1 /\ Count(t, j + 1) = j - 1
      BY <1>4, <3>3
    <3>5. Position[i2cState] = IF j < 3 THEN j + 1 ELSE IF Size(t) = 3 THEN 3 ELSE 4
      BY <1>4, <2>1, <3>1
    <3>6. Size(t) > 0 /\ Size(t) + Count(t, j + 1) - 1 = j + 1
      BY <2>1, <3>4
    <3>7. After(t[j + 1]) = Expected(t, j + 1)
      BY <3>1, <3>2, Zenon
    <3>8. Position[i2cState] = Size(t)
      BY <2>1, <3>1, Zenon
    <3>9. Completes(t[j + 1]) <=> Count(t, j + 1) = Count(t, j) + 1
      BY <3>2, <3>4, Zenon
    <3> QED
      BY <2>1, <3>2, <3>5, <3>6, <3>7, <3>8, <3>9
  <2>2. CASE Size(t) = 4 /\ j = 2
    BY <1>4, <2>2, ExpectedIs, CountIs, PositionType DEF After, Completes
  <2>3. CASE Size(t) = 4 /\ j = 3
    BY <1>4, <2>3, ExpectedIs, CountIs, PositionType DEF After, Completes
  <2> QED
    BY <1>4, <2>1, <2>2, <2>3, ExpectedIs
<1> QED
  BY <1>2, <1>3, <1>4

LEMMA PositionIs ==
  ASSUME NEW t \in Seq(Byte), NEW j \in Nat, t # << >>, Expected(t, j) # "idle"
  PROVE  /\ Position[Expected(t, j)] =
              IF j < 3 THEN j + 1 ELSE IF Size(t) = 3 THEN 3 ELSE 4
         /\ j > 2 => Size(t) = 3 \/ (Size(t) = 4 /\ j = 3)
         /\ j = 2 => Size(t) = 3 \/ Size(t) = 4
<1>1. CASE j = 0
  BY <1>1, ExpectedIs, PositionType
<1>2. CASE j = 1
  BY <1>2, ExpectedIs, PositionType
<1>3. CASE j > 1
  <2>1. CASE Size(t) = 3
    BY <1>3, <2>1, ExpectedIs, PositionType
  <2>2. CASE Size(t) = 4 /\ j = 2
    BY <1>3, <2>2, ExpectedIs, PositionType
  <2>3. CASE Size(t) = 4 /\ j = 3
    BY <1>3, <2>3, ExpectedIs, PositionType
  <2> QED
    BY <1>3, <2>1, <2>2, <2>3, ExpectedIs
<1> QED
  BY <1>1, <1>2, <1>3

\* i2cMsg with one more byte.
Msg(b) == [i2cMsg EXCEPT ![Position[i2cState]] = b]

\* i2cMsg holds the transfer's own bytes up to the one wanted.
LEMMA MsgStep ==
  ASSUME NEW t \in Seq(Byte), NEW j \in Nat, j < Len(t),
         i2cState = Expected(t, j), i2cState # "idle",
         i2cMsg \in [1 .. 4 -> Byte],
         \A k \in 1 .. Position[i2cState] - 1 : i2cMsg[k] = t[k]
  PROVE  Expected(t, j + 1) # "idle" =>
           \A k \in 1 .. Position[Expected(t, j + 1)] - 1 : Msg(t[j + 1])[k] = t[k]
<1> DEFINE msg == Msg(t[j + 1])
<1>0. msg = [i2cMsg EXCEPT ![Position[i2cState]] = t[j + 1]]
  BY DEF Msg
<1> HIDE DEF msg
<1> SUFFICES ASSUME Expected(t, j + 1) # "idle",
                    NEW k \in 1 .. Position[Expected(t, j + 1)] - 1
             PROVE  msg[k] = t[k]
  BY DEF msg
<1>1. t # << >> /\ Len(t) \in Nat
  OBVIOUS
<1> DEFINE p == Position[i2cState]
           q == Position[Expected(t, j + 1)]
<1>2. /\ p = IF j < 3 THEN j + 1 ELSE IF Size(t) = 3 THEN 3 ELSE 4
      /\ j > 2 => Size(t) = 3 \/ (Size(t) = 4 /\ j = 3)
  BY <1>1, PositionIs
<1>3. /\ q = IF j + 1 < 3 THEN j + 2 ELSE IF Size(t) = 3 THEN 3 ELSE 4
      /\ j + 1 > 2 => Size(t) = 3 \/ (Size(t) = 4 /\ j + 1 = 3)
  BY <1>1, PositionIs
<1>4. p \in 1 .. 4 /\ k \in 1 .. 3
  BY <1>2, <1>3
<1>5. k < p \/ (k = p /\ k = j + 1)
  BY <1>2, <1>3
<1>6. CASE k < p
  <2>1. msg[k] = i2cMsg[k]
    BY <1>0, <1>4, <1>6
  <2> QED
    BY <1>4, <1>6, <2>1
<1>7. CASE k = p /\ k = j + 1
  BY <1>0, <1>4, <1>7
<1> QED
  BY <1>5, <1>6, <1>7

LEMMA SeqEqual ==
  ASSUME NEW S, NEW s \in Seq(S), NEW u \in Seq(S), Len(s) = Len(u),
         \A k \in 1 .. Len(s) : s[k] = u[k]
  PROVE  s = u
OBVIOUS

\* A complete command is the transfer's first bytes and the one just taken.
LEMMA CommandStep ==
  ASSUME NEW t \in Seq(Byte), NEW j \in Nat, j < Len(t),
         i2cState = Expected(t, j), i2cState # "idle", Completes(t[j + 1]),
         i2cMsg \in [1 .. 4 -> Byte],
         \A k \in 1 .. Position[i2cState] - 1 : i2cMsg[k] = t[k]
  PROVE  /\ Command(Msg(t[j + 1])) = Append(SubSeq(t, 1, Size(t) - 1), t[j + 1])
         /\ Msg(t[j + 1])[1] = t[1]
<1> DEFINE msg == Msg(t[j + 1])
<1>0. msg = [i2cMsg EXCEPT ![Position[i2cState]] = t[j + 1]]
  BY DEF Msg
<1> HIDE DEF msg
<1> DEFINE n == Size(t)
<1>1. t # << >> /\ Len(t) \in Nat /\ t[j + 1] \in Byte
  OBVIOUS
<1>2. n > 0 /\ Position[i2cState] = n /\ n \in 1 .. 4
  BY <1>1, StateStep, SizeIs
<1>3. j + 1 >= n /\ (n # 3 => j + 1 = n)
  <2>1. Count(t, j + 1) = Count(t, j) + 1 
    BY StateStep
  <2>2. n + Count(t, j + 1) - 1 = j + 1
    BY StateStep
  <2>3. Count(t, j + 1) = IF n = 0 \/ j + 1 < n THEN 0 ELSE IF n = 3 THEN j + 1 - 2 ELSE 1
    BY <1>2, CountIs
  <2>4. Count(t, j) \in Nat
    <3>1. Count(t, j) = IF n = 0 \/ j < n THEN 0 ELSE IF n = 3 THEN j - 2 ELSE 1
      BY <1>2, CountIs
    <3> QED
      BY <1>2, <3>1
  <2> HIDE DEF n
  <2> QED
    BY <1>2, <2>1, <2>2, <2>3, <2>4
<1>4. /\ msg \in [1 .. 4 -> Byte] /\ msg[n] = t[j + 1]
      /\ \A k \in 1 .. n - 1 : msg[k] = t[k]
  <2> HIDE DEF n
  <2> QED
    BY <1>0, <1>1, <1>2
<1>5. n - 1 \in 0 .. Len(t) /\ n \in 0 .. 4
  <2> HIDE DEF n
  <2> QED
    BY <1>1, <1>2, <1>3
<1>6. msg[1] = t[1]
  <2>1. CASE n = 1
    BY <1>3, <1>4, <2>1
  <2>2. CASE n > 1
    <3>1. 1 \in 1 .. n - 1
      BY <1>2, <2>2
    <3> QED
      BY <1>4, <3>1, Zenon
  <2> QED
    BY <1>2, <2>1, <2>2
<1>7. t[1] \in Message => 1 + NumBytes(msg[2]) = n
  <2> SUFFICES ASSUME t[1] \in Message PROVE 1 + NumBytes(msg[2]) = n
    OBVIOUS
  <2>1. n \in {2, 3, 4} /\ n = 1 + NumBytes(t[2])
    BY <1>1, <1>2, SizeIs
  <2>2. msg[2] = t[2]
    <3> HIDE DEF n
    <3>1. CASE n = 2
      BY <1>3, <1>4, <3>1
    <3>2. CASE n > 2
      <4>1. 2 \in 1 .. n - 1
        BY <1>2, <3>2
      <4> QED
        BY <1>4, <4>1, Zenon
    <3> QED
      BY <2>1, <3>1, <3>2
  <2> QED
    BY <2>1, <2>2
<1>8. Command(msg) = SubSeq(msg, 1, n)
  BY <1>2, <1>6, <1>7 DEF Command
<1>9. /\ SubSeq(msg, 1, n) \in Seq(Byte) /\ Len(SubSeq(msg, 1, n)) = n
      /\ \A k \in 1 .. n : SubSeq(msg, 1, n)[k] = msg[k]
  <2> HIDE DEF n
  <2>1. msg \in [1 .. 4 -> Byte]
    BY <1>4
  <2> QED
    BY <1>5, <2>1, FirstOfFour, Zenon
<1> DEFINE first == SubSeq(t, 1, n - 1)
<1>10. /\ first \in Seq(Byte) /\ Len(first) = n - 1
       /\ \A k \in 1 .. n - 1 : first[k] = t[k]
  BY <1>5, FirstOf
<1> HIDE DEF first, n
<1>11. /\ Append(first, t[j + 1]) \in Seq(Byte)
       /\ Len(Append(first, t[j + 1])) = n
       /\ \A k \in 1 .. n - 1 : Append(first, t[j + 1])[k] = t[k]
       /\ Append(first, t[j + 1])[n] = t[j + 1]
  BY <1>1, <1>2, <1>10, AppendTo
<1>12. \A k \in 1 .. n : SubSeq(msg, 1, n)[k] = Append(first, t[j + 1])[k]
  BY <1>2, <1>4, <1>9, <1>11
<1>13. SubSeq(msg, 1, n) = Append(first, t[j + 1])
  BY <1>9, <1>11, <1>12, SeqEqual
<1> QED
  BY <1>6, <1>8, <1>13 DEF first, n, msg
-----------------------------------------------------------------------------
(* The commands of a transfer.                                             *)

LEMMA CommandsAre ==
  ASSUME NEW t \in Seq(Byte), t # << >>, NEW j \in Nat, j <= Len(t)
  PROVE  /\ Commands(t, j) \in Seq(Seq(Byte))
         /\ Len(Commands(t, j)) = Count(t, j) /\ Count(t, j) \in Nat
         /\ \A k \in 1 .. Count(t, j) :
              Commands(t, j)[k] = Append(SubSeq(t, 1, Size(t) - 1), t[Size(t) + k - 1])
<1> DEFINE n == Size(t)
<1>1. n \in 0 .. 4 /\ Len(t) \in Nat
  BY SizeIs
<1>2. /\ Count(t, j) = IF n = 0 \/ j < n THEN 0 ELSE IF n = 3 THEN j - 2 ELSE 1
  BY <1>1, CountIs
<1> HIDE DEF n
<1>3. Count(t, j) \in Nat
  BY <1>1, <1>2
<1>4. \A k \in 1 .. Count(t, j) : n > 0 /\ n - 1 \in 0 .. Len(t) /\ n + k - 1 \in 1 .. Len(t)
  BY <1>1, <1>2
<1>5. \A k \in 1 .. Count(t, j) : Append(SubSeq(t, 1, n - 1), t[n + k - 1]) \in Seq(Byte)
  <2> TAKE k \in 1 .. Count(t, j)
  <2>1. t[n + k - 1] \in Byte
    BY <1>4
  <2>2. SubSeq(t, 1, n - 1) \in Seq(Byte)
    BY <1>4, FirstOf
  <2> QED
    BY <2>1, <2>2, AppendTo
<1> DEFINE f == [k \in 1 .. Count(t, j) |-> Append(SubSeq(t, 1, n - 1), t[n + k - 1])]
<1>6. f \in [1 .. Count(t, j) -> Seq(Byte)]
  BY <1>5
<1>7. \A k \in 1 .. Count(t, j) : f[k] = Append(SubSeq(t, 1, n - 1), t[n + k - 1])
  OBVIOUS
<1>8. f = Commands(t, j)
  BY DEF Commands, n
<1> HIDE DEF f
<1>9. f \in Seq(Seq(Byte)) /\ Len(f) = Count(t, j)
  BY <1>3, <1>6, FunctionIsSeq
<1> QED
  BY <1>3, <1>7, <1>8, <1>9 DEF n

\* With the byte that completes it, a command joins the transfer's.
LEMMA CommandsStep ==
  ASSUME NEW t \in Seq(Byte), NEW j \in Nat, j < Len(t),
         Count(t, j + 1) = Count(t, j) + 1,
         Size(t) + Count(t, j + 1) - 1 = j + 1
  PROVE  Commands(t, j + 1) =
           Append(Commands(t, j), Append(SubSeq(t, 1, Size(t) - 1), t[j + 1]))
<1> DEFINE a == Commands(t, j)
           b == Commands(t, j + 1)
           e == Append(SubSeq(t, 1, Size(t) - 1), t[j + 1])
           n == Count(t, j)
<1>1. t # << >> /\ j + 1 \in Nat /\ j <= Len(t) /\ j + 1 <= Len(t)
  OBVIOUS
<1>2. /\ a \in Seq(Seq(Byte)) /\ Len(a) = n /\ n \in Nat
      /\ \A k \in 1 .. n :
           a[k] = Append(SubSeq(t, 1, Size(t) - 1), t[Size(t) + k - 1])
  BY <1>1, CommandsAre
<1>3. /\ b \in Seq(Seq(Byte)) /\ Len(b) = n + 1
      /\ \A k \in 1 .. n + 1 :
           b[k] = Append(SubSeq(t, 1, Size(t) - 1), t[Size(t) + k - 1])
  BY <1>1, CommandsAre
<1>4. b[n + 1] = e
  <2>1. n + 1 \in 1 .. n + 1 /\ Size(t) + (n + 1) - 1 = j + 1
    BY <1>2
  <2> QED
    BY <1>3, <2>1
<1>5. e \in Seq(Byte)
  <2>1. b[n + 1] \in Seq(Byte)
    BY <1>2, <1>3
  <2> QED
    BY <1>4, <2>1
<1> HIDE DEF a, b, e, n
<1>6. \A k \in 1 .. n : a[k] = b[k]
  <2>1. \A k \in 1 .. n : k \in 1 .. n + 1
    BY <1>2
  <2> QED
    BY <1>2, <1>3, <2>1
<1>7. /\ Append(a, e) \in Seq(Seq(Byte)) /\ Len(Append(a, e)) = n + 1
      /\ \A k \in 1 .. n : Append(a, e)[k] = a[k]
      /\ Append(a, e)[n + 1] = e
  BY <1>2, <1>5, AppendTo
<1>8. \A k \in 1 .. n + 1 : b[k] = Append(a, e)[k]
  BY <1>2, <1>4, <1>6, <1>7
<1>9. b = Append(a, e)
  BY <1>3, <1>7, <1>8, SeqEqual
<1> QED
  BY <1>9 DEF a, b, e

\* What the invariant says of a transfer, with nothing left of it.
LEMMA InStepMeans ==
  ASSUME NEW t \in Seq(Byte), t # << >>, NEW j \in Nat, j <= Len(t)
  PROVE  /\ Commands(t, Len(t)) = Meant(t)
         /\ IsPrefix(Commands(t, j), Meant(t))
         /\ IsPrefix(<< >>, Meant(t))
         /\ Commands(t, 0) = << >>
<1> DEFINE n == Size(t)
<1>1. n \in 0 .. 4 /\ Len(t) \in Nat
  BY SizeIs
<1>2. \A i \in Nat : Count(t, i) = IF n = 0 \/ i < n THEN 0
                                   ELSE IF n = 3 THEN i - 2 ELSE 1
  BY <1>1, CountIs
<1>3. Commands(t, Len(t)) = Meant(t)
  <2>1. CASE n = 0 \/ Len(t) < n
    <3>1. Count(t, Len(t)) = 0
      BY <1>1, <1>2, <2>1
    <3>2. Len(Commands(t, Len(t))) = 0 /\ Commands(t, Len(t)) \in Seq(Seq(Byte))
      BY <1>1, <3>1, CommandsAre
    <3>3. Commands(t, Len(t)) = << >>
      BY <3>2
    <3> QED
      BY <2>1, <3>3 DEF Meant
  <2>2. CASE ~(n = 0 \/ Len(t) < n)
    <3>1. Count(t, Len(t)) = IF n = 3 THEN Len(t) - 2 ELSE 1
      BY <1>1, <1>2, <2>2
    <3> QED
      BY <2>2, <3>1 DEF Meant, Commands
  <2> QED
    BY <2>1, <2>2
<1> DEFINE a == Commands(t, j)
           b == Commands(t, Len(t))
<1> HIDE DEF n
<1>9. Len(t) <= Len(t)
  BY <1>1
<1>4. /\ a \in Seq(Seq(Byte)) /\ Len(a) = Count(t, j)
      /\ b \in Seq(Seq(Byte)) /\ Len(b) = Count(t, Len(t))
      /\ Count(t, j) \in Nat /\ Count(t, Len(t)) \in Nat
      /\ \A k \in 1 .. Count(t, j) :
           a[k] = Append(SubSeq(t, 1, Size(t) - 1), t[Size(t) + k - 1])
      /\ \A k \in 1 .. Count(t, Len(t)) :
           b[k] = Append(SubSeq(t, 1, Size(t) - 1), t[Size(t) + k - 1])
  <2>1. Len(t) \in Nat
    BY <1>1
  <2> QED
    BY <1>9, <2>1, CommandsAre
<1>5. Count(t, j) <= Count(t, Len(t))
  BY <1>1, <1>2
<1>6. IsPrefix(a, b)
  <2>1. Len(a) <= Len(b) /\ \A k \in 1 .. Len(a) : a[k] = b[k]
    <3>1. \A k \in 1 .. Count(t, j) : k \in 1 .. Count(t, Len(t))
      BY <1>4, <1>5
    <3> HIDE DEF a, b
    <3> QED
      BY <1>4, <1>5, <3>1
  <2> HIDE DEF a, b
  <2>2. SubSeq(a, 1, Len(a)) = SubSeq(b, 1, Len(a))
    BY <1>4, <2>1
  <2> QED
    BY <2>1, <2>2 DEF IsPrefix
<1>7. IsPrefix(<< >>, b)
  <2> HIDE DEF b
  <2>1. Len(<< >>) = 0 /\ SubSeq(<< >>, 1, 0) = << >>
    OBVIOUS
  <2>2. SubSeq(b, 1, 0) = << >> /\ Len(b) \in Nat
    BY <1>4
  <2> QED
    BY <2>1, <2>2 DEF IsPrefix
<1>8. Commands(t, 0) = << >>
  <2>1. Count(t, 0) = 0 /\ 0 <= Len(t)
    BY <1>1, <1>2
  <2>2. Len(Commands(t, 0)) = 0 /\ Commands(t, 0) \in Seq(Seq(Byte))
    BY <2>1, CommandsAre
  <2> QED
    BY <2>2
<1> QED
  BY <1>3, <1>6, <1>7, <1>8
-----------------------------------------------------------------------------
(* Every transfer stays in step.                                           *)

\* The numbers the invariant is about.
LEMMA AheadType ==
  ASSUME TypeOK
  PROVE  /\ Len(rx) \in Nat /\ Len(todo) \in Nat /\ Len(transfers) \in Nat
         /\ Ahead = Len(rx) + Len(todo) /\ Ahead \in Nat
         /\ \A i \in 1 .. Len(transfers) :
              transfers[i] \in Seq(Byte) /\ Total(i) \in Nat \ {0}
<1>1. /\ Len(rx) \in Nat /\ Len(todo) \in Nat /\ Len(transfers) \in Nat
      /\ \A i \in 1 .. Len(transfers) : transfers[i] \in Seq(Byte)
  <2> HIDE DEF Event
  <2> DEFINE E == Event \X (1 .. Len(transfers))
  <2>1. rx \in Seq(E) /\ todo \in Seq(Event) /\ transfers \in Seq(Seq(Byte))
    BY DEF TypeOK
  <2> HIDE DEF E
  <2> QED
    BY <2>1, SeqIsFunction
<1>2. \A i \in 1 .. Len(transfers) : Total(i) \in Nat \ {0}
  BY <1>1 DEF Total
<1> QED
  BY <1>1, <1>2 DEF Ahead

\* The master's next transfer comes behind everything.
LEMMA ExecStart ==
  ASSUME ExecInv, NEW what \in Seq(Byte), NEW events \in Seq(Event),
         Start(what, events),
         what # << >> =>
           /\ Len(events) = Len(what) + 1
           /\ \A p \in 1 .. Len(what) + 1 :
                events[p] = IF p = 1 THEN Address ELSE what[p - 1],
         NEW i \in 1 .. Len(transfers'), transfers'[i] # << >>, i \notin cut'
  PROVE  InStep(i)'
<1> DEFINE n == Len(transfers)
           r == Len(rx)
<1>1. /\ todo = << >> /\ Len(todo) = 0 /\ todo' = events
      /\ transfers' = Append(transfers, what)
      /\ executed' = Append(executed, << >>)
      /\ rx' = rx /\ i2cState' = i2cState /\ i2cMsg' = i2cMsg /\ cut' = cut
  BY DEF Start, parser
<1>2. /\ n \in Nat /\ r \in Nat /\ Ahead = r
      /\ \A m \in 1 .. n : Total(m) \in Nat \ {0}
  BY <1>1, AheadType DEF ExecInv
<1>3. /\ Len(transfers') = n + 1 /\ transfers'[n + 1] = what
      /\ \A m \in 1 .. n : transfers'[m] = transfers[m]
  BY <1>1, AppendTo DEF ExecInv, TypeOK
<1>4. /\ executed'[n + 1] = << >>
      /\ \A m \in 1 .. n : executed'[m] = executed[m]
  <2>1. executed \in Seq(Seq(Seq(Byte))) /\ Len(executed) = n
    BY DEF ExecInv, TypeOK
  <2>2. << >> \in Seq(Seq(Byte))
    OBVIOUS
  <2> QED
    BY <1>1, <2>1, <2>2, AppendTo
<1>5. Len(events) \in Nat /\ Ahead' = r + Len(events)
  <2>1. Len(events) \in Nat
    BY SeqIsFunction
  <2> QED
    BY <1>1, <2>1 DEF Ahead
<1>6. /\ \A k \in 1 .. r : Coming(k)' = Coming(k)
      /\ \A k \in r + 1 .. r + Len(events) :
           Coming(k)' = <<events[k - r], n + 1>>
  BY <1>1, <1>2, <1>3, <1>5 DEF Coming
<1>7. \A k \in 1 .. r : Coming(k)[2] \in 1 .. n
  <2> HIDE DEF Event
  <2>1. \A k \in 1 .. r : rx[k] \in Event \X (1 .. n)
    BY DEF ExecInv, TypeOK
  <2> QED
    BY <1>2, <2>1 DEF Coming
<1>8. CASE i \in 1 .. n
  <2>1. InStep(i)
    BY <1>1, <1>3, <1>8 DEF ExecInv
  <2>2. PICK c \in 0 .. Total(i), o \in 0 .. Ahead :
          Place(i, c, o) /\ Parsed(i, c) /\ (c > 0 => o = 0)
    BY <2>1 DEF InStep
  <2>3. Total(i)' = Total(i) /\ \A p : EventOf(i, p)' = EventOf(i, p)
    BY <1>3, <1>8 DEF Total, EventOf
  <2>4. Place(i, c, o)'
    <3>1. o + Total(i) - c <= Ahead'
      BY <1>2, <1>5, <1>8, <2>2 DEF Place
    <3>2. \A k \in 1 .. Ahead' : Coming(k)'[2] = i <=> k \in o + 1 .. o + Total(i) - c
      <4> TAKE k \in 1 .. Ahead'
      <4>1. CASE k \in 1 .. r
        BY <1>2, <1>6, <2>2, <4>1 DEF Place
      <4>2. CASE k \in r + 1 .. r + Len(events)
        <5>1. Coming(k)'[2] = n + 1
          BY <1>6, <4>2
        <5>2. o + Total(i) - c <= r
          BY <1>2, <2>2 DEF Place
        <5>3. k \notin o + 1 .. o + Total(i) - c
          BY <1>2, <1>5, <1>8, <2>2, <4>2, <5>2
        <5> QED
          BY <1>2, <1>8, <5>1, <5>3
      <4> QED
        BY <1>2, <1>5, <4>1, <4>2
    <3>3. \A k \in o + 1 .. o + Total(i) - c : Coming(k)'[1] = EventOf(i, c + k - o)
      <4> TAKE k \in o + 1 .. o + Total(i) - c
      <4>1. k \in 1 .. r
        BY <1>2, <1>8, <2>2 DEF Place
      <4> QED
        BY <1>6, <2>2, <4>1 DEF Place
    <3> QED
      BY <2>3, <3>1, <3>2, <3>3 DEF Place
  <2>5. Parsed(i, c)'
    BY <1>1, <1>3, <1>4, <1>8, <2>2, <2>3 DEF Parsed
  <2>6. c \in 0 .. Total(i)' /\ o \in 0 .. Ahead'
    BY <1>2, <1>5, <2>2, <2>3
  <2> QED
    BY <2>2, <2>4, <2>5, <2>6 DEF InStep
<1>9. CASE i = n + 1
  <2>1. /\ what # << >> /\ Len(events) = Len(what) + 1 /\ Len(what) \in Nat
        /\ \A p \in 1 .. Len(what) + 1 :
             events[p] = IF p = 1 THEN Address ELSE what[p - 1]
    BY <1>3, <1>9
  <2>2. /\ Total(i)' = Len(what) + 1
        /\ \A p : EventOf(i, p)' = IF p = 1 THEN Address ELSE what[p - 1]
    BY <1>3, <1>9 DEF Total, EventOf
  <2>3. Place(i, 0, r)'
    <3>1. \A k \in 1 .. Ahead' : Coming(k)'[2] = i <=> k \in r + 1 .. r + Total(i)' - 0
      <4> TAKE k \in 1 .. Ahead'
      <4>1. CASE k \in 1 .. r
        <5>1. Coming(k)'[2] \in 1 .. n
          BY <1>6, <1>7, <4>1
        <5> QED
          BY <1>2, <1>9, <4>1, <5>1
      <4>2. CASE k \in r + 1 .. r + Len(events)
        <5>1. Coming(k)'[2] = n + 1
          BY <1>6, <4>2
        <5> QED
          BY <1>2, <1>9, <2>1, <2>2, <4>2, <5>1
      <4> QED
        BY <1>2, <1>5, <4>1, <4>2
    <3>2. \A k \in r + 1 .. r + Total(i)' - 0 :
            Coming(k)'[1] = EventOf(i, 0 + k - r)'
      <4> TAKE k \in r + 1 .. r + Total(i)' - 0
      <4>1. k \in r + 1 .. r + Len(events) /\ k - r \in 1 .. Len(what) + 1
        BY <1>2, <2>1, <2>2
      <4>2. Coming(k)'[1] = events[k - r]
        BY <1>6, <4>1
      <4>3. EventOf(i, 0 + k - r)' = events[k - r]
        <5>1. 0 + k - r \in 1 .. Len(what) + 1 /\ 0 + k - r = k - r
          BY <1>2, <4>1
        <5>2. r' = r /\ transfers'[i] = what
          BY <1>1, <1>3, <1>9
        <5>3. EventOf(i, 0 + k - r)' =
                IF 0 + k - r' = 1 THEN Address ELSE transfers'[i][0 + k - r' - 1]
          BY DEF EventOf
        <5> HIDE DEF r
        <5>4. EventOf(i, 0 + k - r)' =
                IF k - r = 1 THEN Address ELSE what[k - r - 1]
          BY <5>1, <5>2, <5>3
        <5> QED
          BY <2>1, <5>1, <5>4
      <4> QED
        BY <4>2, <4>3
    <3>3. r + Total(i)' - 0 <= Ahead'
      BY <1>2, <1>5, <2>1, <2>2
    <3> QED
      BY <1>1, <3>1, <3>2, <3>3 DEF Place
  <2>4. Parsed(i, 0)'
    BY <1>4, <1>9 DEF Parsed
  <2>5. 0 \in 0 .. Total(i)' /\ r \in 0 .. Ahead'
    BY <1>2, <1>5, <2>1, <2>2
  <2> QED
    BY <1>1, <2>3, <2>4, <2>5 DEF InStep
<1> QED
  BY <1>2, <1>3, <1>8, <1>9

\* An event that joins the ring is as far ahead as it was.
LEMMA ExecStored ==
  ASSUME ExecInv, Interrupt,
         rx' = Append(rx, <<Head(todo), Len(transfers)>>), UNCHANGED cut,
         NEW i \in 1 .. Len(transfers'), transfers'[i] # << >>, i \notin cut'
  PROVE  InStep(i)'
<1> DEFINE r == Len(rx)
<1>1. /\ todo # << >> /\ todo' = Tail(todo) /\ transfers' = transfers
      /\ executed' = executed /\ i2cState' = i2cState /\ i2cMsg' = i2cMsg
      /\ cut' = cut
  BY DEF Interrupt, parser
<1>2. /\ r \in Nat /\ Len(todo) \in Nat \ {0} /\ Ahead = r + Len(todo)
      /\ Len(todo') = Len(todo) - 1 /\ Head(todo) = todo[1]
      /\ \A k \in 1 .. Len(todo) - 1 : todo'[k] = todo[k + 1]
  BY <1>1, AheadType, TailOf DEF ExecInv, TypeOK
<1>3. /\ Len(rx') = r + 1 /\ rx'[r + 1] = <<todo[1], Len(transfers)>>
      /\ \A k \in 1 .. r : rx'[k] = rx[k]
  <2> HIDE DEF Event
  <2> DEFINE E == Event \X (1 .. Len(transfers))
             e == <<Head(todo), Len(transfers)>>
  <2>1. rx \in Seq(E)
    BY DEF ExecInv, TypeOK
  <2>2. Head(todo) \in Event /\ Len(transfers) \in 1 .. Len(transfers)
    <3>1. Len(transfers) > 0 /\ todo \in Seq(Event)
      BY <1>1 DEF ExecInv, TypeOK
    <3>2. Len(transfers) \in Nat
      BY AheadType DEF ExecInv
    <3> QED
      BY <1>1, <3>1, <3>2, TailOf
  <2>3. e \in E
    BY <2>2
  <2>4. rx' = Append(rx, e)
    OBVIOUS
  <2> HIDE DEF E, e
  <2>5. Len(rx') = r + 1 /\ rx'[r + 1] = e /\ \A k \in 1 .. r : rx'[k] = rx[k]
    <3> HIDE DEF r
    <3>1. /\ Append(rx, e) \in Seq(E) /\ Len(Append(rx, e)) = Len(rx) + 1
          /\ \A k \in 1 .. Len(rx) : Append(rx, e)[k] = rx[k]
          /\ Append(rx, e)[Len(rx) + 1] = e
      BY <2>1, <2>3, AppendTo
    <3> QED
      BY <2>4, <3>1, Zenon DEF r
  <2> QED
    BY <1>2, <2>5 DEF e
<1>4. Ahead' = Ahead
  BY <1>2, <1>3 DEF Ahead
<1>5. \A k \in 1 .. Ahead : Coming(k)' = Coming(k)
  <2> TAKE k \in 1 .. Ahead
  <2>1. Coming(k)' = IF k <= r + 1 THEN rx'[k]
                     ELSE <<todo'[k - (r + 1)], Len(transfers)>>
    BY <1>1, <1>3 DEF Coming
  <2>2. CASE k \in 1 .. r
    BY <1>2, <1>3, <2>1, <2>2 DEF Coming
  <2>3. CASE k = r + 1
    <3>1. Coming(k) = <<todo[k - r], Len(transfers)>> /\ k - r = 1
      BY <1>2, <2>3 DEF Coming
    <3> QED
      BY <1>2, <1>3, <2>1, <2>3, <3>1
  <2>4. CASE k > r + 1
    <3>1. Coming(k) = <<todo[k - r], Len(transfers)>>
      BY <1>2, <2>4 DEF Coming
    <3>2. Coming(k)' = <<todo'[k - (r + 1)], Len(transfers)>>
      BY <1>2, <2>1, <2>4
    <3>3. k - (r + 1) \in 1 .. Len(todo) - 1 /\ k - (r + 1) + 1 = k - r
      BY <1>2, <2>4
    <3> QED
      BY <1>2, <3>1, <3>2, <3>3
  <2> QED
    BY <1>2, <2>2, <2>3, <2>4
<1>6. PICK c \in 0 .. Total(i), o \in 0 .. Ahead :
        Place(i, c, o) /\ Parsed(i, c) /\ (c > 0 => o = 0)
  BY <1>1 DEF ExecInv, InStep
<1>7. Total(i)' = Total(i) /\ \A p : EventOf(i, p)' = EventOf(i, p)
  BY <1>1 DEF Total, EventOf
<1>8. Place(i, c, o)'
  <2>1. \A k \in o + 1 .. o + Total(i) - c : k \in 1 .. Ahead
    <3>1. Total(i) \in Nat /\ Ahead \in Nat
      BY <1>1, AheadType DEF ExecInv
    <3> QED
      BY <1>6, <3>1 DEF Place
  <2> QED
    BY <1>4, <1>5, <1>6, <1>7, <2>1 DEF Place
<1>9. Parsed(i, c)'
  BY <1>1, <1>6, <1>7 DEF Parsed
<1> QED
  BY <1>4, <1>6, <1>7, <1>8, <1>9 DEF InStep

\* One that is lost was of the transfer being sent, which is cut; the others
\* have all of theirs in the ring.
LEMMA ExecLost ==
  ASSUME ExecInv, Interrupt, rx' = rx, cut' = cut \cup {Len(transfers)},
         NEW i \in 1 .. Len(transfers'), transfers'[i] # << >>, i \notin cut'
  PROVE  InStep(i)'
<1> DEFINE r == Len(rx)
<1>1. /\ todo # << >> /\ todo' = Tail(todo) /\ transfers' = transfers
      /\ executed' = executed /\ i2cState' = i2cState /\ i2cMsg' = i2cMsg
      /\ i \notin cut /\ i # Len(transfers)
  BY DEF Interrupt, parser
<1>2. /\ r \in Nat /\ Len(todo) \in Nat \ {0} /\ Ahead = r + Len(todo)
      /\ Len(todo') = Len(todo) - 1 /\ Total(i) \in Nat
  BY <1>1, AheadType, TailOf DEF ExecInv, TypeOK
<1>3. Ahead' = Ahead - 1
  BY <1>2 DEF Ahead
<1>4. /\ \A k \in 1 .. r : Coming(k)' = Coming(k)
      /\ \A k \in r + 1 .. Ahead : Coming(k)[2] # i
      /\ \A k \in r + 1 .. Ahead' : Coming(k)'[2] # i
  BY <1>1, <1>2, <1>3 DEF Coming
<1>5. PICK c \in 0 .. Total(i), o \in 0 .. Ahead :
        Place(i, c, o) /\ Parsed(i, c) /\ (c > 0 => o = 0)
  BY <1>1 DEF ExecInv, InStep
<1>6. Total(i)' = Total(i) /\ \A p : EventOf(i, p)' = EventOf(i, p)
  BY <1>1 DEF Total, EventOf
<1>7. o + Total(i) - c <= r
  <2>1. CASE c = Total(i)
    <3>1. Total(i) > 0
      BY <1>1, AheadType DEF ExecInv
    <3> QED
      BY <1>2, <1>5, <2>1, <3>1
  <2>2. CASE c < Total(i)
    <3> DEFINE k == o + Total(i) - c
    <3>1. k \in 1 .. Ahead /\ k \in o + 1 .. o + Total(i) - c
      BY <1>2, <1>5, <2>2 DEF Place
    <3>2. Coming(k)[2] = i
      BY <1>5, <3>1 DEF Place
    <3>3. k \notin r + 1 .. Ahead
      BY <1>4, <3>2
    <3> QED
      BY <1>2, <3>1, <3>3
  <2> QED
    BY <1>2, <1>5, <2>1, <2>2
<1>8. \A k \in o + 1 .. o + Total(i) - c : k \in 1 .. r
  BY <1>2, <1>5, <1>7
<1>9. Place(i, c, o)'
  <2>1. o + Total(i) - c <= Ahead'
    BY <1>2, <1>3, <1>5, <1>7
  <2>2. \A k \in 1 .. Ahead' : Coming(k)'[2] = i <=> k \in o + 1 .. o + Total(i) - c
    <3> TAKE k \in 1 .. Ahead'
    <3>1. CASE k \in 1 .. r
      <4>1. k \in 1 .. Ahead
        BY <1>2, <3>1
      <4> QED
        BY <1>4, <1>5, <3>1, <4>1 DEF Place
    <3>2. CASE k \in r + 1 .. Ahead'
      BY <1>2, <1>4, <1>8, <3>2
    <3> QED
      BY <1>2, <1>3, <3>1, <3>2
  <2>3. \A k \in o + 1 .. o + Total(i) - c : Coming(k)'[1] = EventOf(i, c + k - o)
    BY <1>4, <1>5, <1>8 DEF Place
  <2> QED
    BY <1>6, <2>1, <2>2, <2>3 DEF Place
<1>10. Parsed(i, c)'
  BY <1>1, <1>5, <1>6 DEF Parsed
<1>11. c \in 0 .. Total(i)' /\ o \in 0 .. Ahead'
  <2>1. Total(i) - c >= 0
    BY <1>2, <1>5
  <2> QED
    BY <1>2, <1>3, <1>5, <1>6, <1>7, <2>1
<1> QED
  BY <1>5, <1>9, <1>10, <1>11 DEF InStep

LEMMA ExecInterrupt ==
  ASSUME ExecInv, Interrupt,
         NEW i \in 1 .. Len(transfers'), transfers'[i] # << >>, i \notin cut'
  PROVE  InStep(i)'
BY ExecStored, ExecLost DEF Interrupt, Enqueue

\* A step that leaves the transfers, what is to come and the parser alone.
LEMMA ExecKept ==
  ASSUME ExecInv, UNCHANGED <<todo, rx, i2cState, i2cMsg>>,
         UNCHANGED <<transfers, cut, executed>>,
         NEW i \in 1 .. Len(transfers'), transfers'[i] # << >>, i \notin cut'
  PROVE  InStep(i)'
<1>1. PICK c \in 0 .. Total(i), o \in 0 .. Ahead :
        Place(i, c, o) /\ Parsed(i, c) /\ (c > 0 => o = 0)
  BY DEF ExecInv, InStep
<1>2. /\ Ahead' = Ahead /\ \A k : Coming(k)' = Coming(k)
      /\ Total(i)' = Total(i) /\ \A p : EventOf(i, p)' = EventOf(i, p)
  BY DEF Ahead, Coming, Total, EventOf
<1>3. Place(i, c, o)'
  BY <1>1, <1>2 DEF Place
<1>4. Parsed(i, c)'
  BY <1>1, <1>2 DEF Parsed
<1> QED
  BY <1>1, <1>2, <1>3, <1>4 DEF InStep

\* What the main loop takes is what comes next.
LEMMA ComingNext ==
  ASSUME TypeOK, ProcessI2CIn
  PROVE  /\ Coming(1) = Head(rx) /\ Ahead > 0 /\ Ahead' = Ahead - 1
         /\ \A k \in 1 .. Ahead - 1 : Coming(k)' = Coming(k + 1)
         /\ Head(rx)[1] \in Event /\ Head(rx)[2] \in 1 .. Len(transfers)
<1> DEFINE r == Len(rx)
<1>1. rx # << >> /\ rx' = Tail(rx) /\ todo' = todo /\ transfers' = transfers
  BY DEF ProcessI2CIn
<1>2. /\ r \in Nat \ {0} /\ Len(rx') = r - 1 /\ Head(rx) = rx[1]
      /\ \A k \in 1 .. r - 1 : rx'[k] = rx[k + 1]
      /\ Head(rx) \in Event \X (1 .. Len(transfers))
  <2> HIDE DEF Event
  <2> DEFINE E == Event \X (1 .. Len(transfers))
  <2>1. rx \in Seq(E)
    BY DEF TypeOK
  <2> HIDE DEF E
  <2>2. /\ r \in Nat \ {0} /\ Len(rx') = r - 1 /\ Head(rx) = rx[1]
        /\ \A k \in 1 .. r - 1 : rx'[k] = rx[k + 1]
        /\ Head(rx) \in E
    BY <1>1, <2>1, TailOf
  <2> QED
    BY <2>2 DEF E
<1>3. Len(todo) \in Nat /\ Ahead = r + Len(todo)
  BY AheadType
<1>4. Ahead' = Ahead - 1 /\ Ahead > 0
  BY <1>1, <1>2, <1>3 DEF Ahead
<1>5. Coming(1) = Head(rx)
  BY <1>2 DEF Coming
<1>6. \A k \in 1 .. Ahead - 1 : Coming(k)' = Coming(k + 1)
  <2> TAKE k \in 1 .. Ahead - 1
  <2>1. Coming(k)' = IF k <= r - 1 THEN rx'[k]
                     ELSE <<todo[k - (r - 1)], Len(transfers)>>
    BY <1>1, <1>2 DEF Coming
  <2>2. CASE k <= r - 1
    BY <1>2, <1>3, <2>1, <2>2 DEF Coming
  <2>3. CASE k > r - 1
    <3>1. Coming(k + 1) = <<todo[k + 1 - r], Len(transfers)>>
      BY <1>2, <1>3, <2>3 DEF Coming
    <3>2. k + 1 - r = k - (r - 1)
      BY <1>2, <1>3
    <3>3. Coming(k)' = <<todo[k - (r - 1)], Len(transfers)>>
      BY <1>2, <1>3, <2>1, <2>3
    <3> QED
      BY <3>1, <3>2, <3>3
  <2> QED
    BY <1>2, <1>3, <2>2, <2>3
<1>7. Head(rx)[1] \in Event /\ Head(rx)[2] \in 1 .. Len(transfers)
  <2> HIDE DEF Event
  <2> QED
    BY <1>2
<1> QED
  BY <1>4, <1>5, <1>6, <1>7

\* The other transfers' events come one earlier; none of them is half taken.
LEMMA ExecOthers ==
  ASSUME ExecInv, ProcessI2CIn,
         NEW i \in 1 .. Len(transfers'), transfers'[i] # << >>, i \notin cut',
         i # Head(rx)[2]
  PROVE  InStep(i)'
<1>1. transfers' = transfers /\ cut' = cut
  BY DEF ProcessI2CIn
<1>2. executed'[i] = executed[i]
  <2>1. executed' = executed
        \/ \E e : executed' = [executed EXCEPT ![Head(rx)[2]] = e]
    BY DEF ProcessI2CIn, Framed, Ignored, Taken
  <2>2. executed \in Seq(Seq(Seq(Byte))) /\ i \in 1 .. Len(executed)
    BY <1>1 DEF ExecInv, TypeOK
  <2> QED
    BY <2>1, <2>2
<1>3. PICK c \in 0 .. Total(i), o \in 0 .. Ahead :
        Place(i, c, o) /\ Parsed(i, c) /\ (c > 0 => o = 0)
  BY <1>1 DEF ExecInv, InStep
<1>4. Total(i)' = Total(i) /\ \A p : EventOf(i, p)' = EventOf(i, p)
  BY <1>1 DEF Total, EventOf
<1>5. Total(i) \in Nat \ {0} /\ Ahead \in Nat
  BY <1>1, AheadType DEF ExecInv
<1>6. /\ Coming(1)[2] # i /\ Ahead > 0 /\ Ahead' = Ahead - 1
      /\ \A k \in 1 .. Ahead - 1 : Coming(k)' = Coming(k + 1)
  BY ComingNext DEF ExecInv
<1>7. 1 \notin o + 1 .. o + Total(i) - c
  BY <1>3, <1>5, <1>6 DEF Place
<1>8. CASE c > 0
  <2>1. o = 0 /\ c = Total(i)
    BY <1>3, <1>5, <1>7, <1>8
  <2>2. \A k \in 1 .. Ahead : Coming(k)[2] # i
    <3>1. \A k \in 1 .. Ahead : Coming(k)[2] = i <=> k \in o + 1 .. o + Total(i) - c
      BY <1>3 DEF Place
    <3>2. \A k \in 1 .. Ahead : k \notin o + 1 .. o + Total(i) - c
      BY <1>5, <2>1
    <3> QED
      BY <3>1, <3>2, Zenon
  <2>3. \A k \in 1 .. Ahead - 1 : Coming(k)'[2] # i
    BY <1>5, <1>6, <2>2
  <2>4. Place(i, c, 0)'
    BY <1>4, <1>5, <1>6, <2>1, <2>3 DEF Place
  <2>5. Parsed(i, c)'
    BY <1>2, <1>3, <1>4, <1>1, <1>5, <1>8, <2>1 DEF Parsed
  <2> QED
    BY <1>3, <1>4, <1>5, <1>6, <2>4, <2>5 DEF InStep
<1>9. CASE c = 0
  <2>1. o > 0 /\ o + Total(i) <= Ahead
    BY <1>3, <1>5, <1>7, <1>9 DEF Place
  <2>2. Place(i, c, o - 1)'
    <3>1. \A k \in 1 .. Ahead - 1 :
            Coming(k)'[2] = i <=> k \in (o - 1) + 1 .. (o - 1) + Total(i) - c
      <4> TAKE k \in 1 .. Ahead - 1
      <4>1. k + 1 \in 1 .. Ahead
        BY <1>5
      <4>2. Coming(k + 1)[2] = i <=> k + 1 \in o + 1 .. o + Total(i) - c
        BY <1>3, <4>1 DEF Place
      <4>3. k + 1 \in o + 1 .. o + Total(i) - c
              <=> k \in (o - 1) + 1 .. (o - 1) + Total(i) - c
        BY <1>3, <1>5, <1>9
      <4> QED
        BY <1>6, <4>2, <4>3
    <3>2. \A k \in (o - 1) + 1 .. (o - 1) + Total(i) - c :
            Coming(k)'[1] = EventOf(i, c + k - (o - 1))
      <4> TAKE k \in (o - 1) + 1 .. (o - 1) + Total(i) - c
      <4>1. /\ k + 1 \in o + 1 .. o + Total(i) - c /\ k \in 1 .. Ahead - 1
            /\ c + (k + 1) - o = c + k - (o - 1)
        BY <1>3, <1>5, <1>9, <2>1
      <4>2. Coming(k + 1)[1] = EventOf(i, c + (k + 1) - o)
        BY <1>3, <4>1 DEF Place
      <4> QED
        BY <1>6, <4>1, <4>2
    <3>3. (o - 1) + Total(i) - c <= Ahead - 1
      BY <1>3, <1>5, <1>9, <2>1
    <3> QED
      BY <1>4, <1>6, <3>1, <3>2, <3>3 DEF Place
  <2>3. Parsed(i, c)'
    BY <1>2, <1>3, <1>4, <1>9 DEF Parsed
  <2>4. c \in 0 .. Total(i)' /\ o - 1 \in 0 .. Ahead' /\ ~(c > 0)
    BY <1>3, <1>4, <1>5, <1>6, <1>9, <2>1
  <2> QED
    BY <2>2, <2>3, <2>4 DEF InStep
<1> QED
  BY <1>3, <1>8, <1>9

\* The transfer whose event is taken: the address makes the parser ready for
\* it whatever it was doing, and a byte moves it as StateStep says.
LEMMA ExecThis ==
  ASSUME ExecInv, ProcessI2CIn,
         NEW i \in 1 .. Len(transfers'), transfers'[i] # << >>, i \notin cut',
         i = Head(rx)[2]
  PROVE  InStep(i)'
<1> DEFINE t == transfers[i]
           b == Head(rx)[1]
<1>1. transfers' = transfers /\ cut' = cut
  BY DEF ProcessI2CIn
<1>2. t \in Seq(Byte) /\ t # << >> /\ Len(t) \in Nat /\ i \in 1 .. Len(transfers)
  <2>1. transfers[i] \in Seq(Byte)
    BY <1>1, AheadType DEF ExecInv
  <2> QED
    BY <1>1, <2>1, SeqIsFunction
<1>3. PICK c \in 0 .. Total(i), o \in 0 .. Ahead :
        Place(i, c, o) /\ Parsed(i, c) /\ (c > 0 => o = 0)
  BY <1>1 DEF ExecInv, InStep
<1>4. /\ Total(i)' = Total(i) /\ \A p : EventOf(i, p)' = EventOf(i, p)
      /\ Total(i) = Len(t) + 1
  BY <1>1 DEF Total, EventOf
<1>5. Total(i) \in Nat \ {0} /\ Ahead \in Nat
  BY <1>1, AheadType DEF ExecInv
<1>6. /\ Coming(1) = Head(rx) /\ Ahead > 0 /\ Ahead' = Ahead - 1
      /\ \A k \in 1 .. Ahead - 1 : Coming(k)' = Coming(k + 1)
  BY ComingNext DEF ExecInv
<1>7. 1 \in o + 1 .. o + Total(i) - c
  <2>1. 1 \in 1 .. Ahead /\ Coming(1)[2] = i
    BY <1>5, <1>6
  <2> QED
    BY <1>3, <2>1 DEF Place
<1>8. o = 0 /\ c < Total(i)
  BY <1>3, <1>5, <1>7
<1>9. b = EventOf(i, c + 1)
  <2>1. Coming(1)[1] = EventOf(i, c + 1 - o)
    BY <1>3, <1>7 DEF Place
  <2>2. c + 1 - o = c + 1
    BY <1>3, <1>8
  <2> QED
    BY <1>6, <2>1, <2>2
<1>10. Place(i, c + 1, 0)'
  <2>1. \A k \in 1 .. Ahead - 1 : Coming(k)'[2] = i <=> k \in 1 .. Total(i) - (c + 1)
    <3> TAKE k \in 1 .. Ahead - 1
    <3>1. k + 1 \in 1 .. Ahead
      BY <1>5
    <3>2. Coming(k + 1)[2] = i <=> k + 1 \in o + 1 .. o + Total(i) - c
      BY <1>3, <3>1 DEF Place
    <3>3. k + 1 \in o + 1 .. o + Total(i) - c <=> k \in 1 .. Total(i) - (c + 1)
      BY <1>3, <1>5, <1>8
    <3> QED
      BY <1>6, <3>2, <3>3
  <2>2. \A k \in 1 .. Total(i) - (c + 1) : Coming(k)'[1] = EventOf(i, c + 1 + k)
    <3> TAKE k \in 1 .. Total(i) - (c + 1)
    <3>1. /\ k + 1 \in o + 1 .. o + Total(i) - c /\ k \in 1 .. Ahead - 1
          /\ c + (k + 1) - o = c + 1 + k
      BY <1>3, <1>5, <1>8 DEF Place
    <3>2. Coming(k + 1)[1] = EventOf(i, c + (k + 1) - o)
      BY <1>3, <3>1 DEF Place
    <3> QED
      BY <1>6, <3>1, <3>2
  <2>3. Total(i) - (c + 1) <= Ahead - 1
    BY <1>3, <1>5, <1>8 DEF Place
  <2>4. /\ \A k \in 1 .. Ahead' :
             Coming(k)'[2] = i <=> k \in 0 + 1 .. 0 + Total(i)' - (c + 1)
        /\ 0 + Total(i)' - (c + 1) <= Ahead'
    BY <1>3, <1>4, <1>5, <1>6, <2>1, <2>3
  <2>5. \A k \in 0 + 1 .. 0 + Total(i)' - (c + 1) :
          Coming(k)'[1] = EventOf(i, (c + 1) + k - 0)'
    <3> TAKE k \in 0 + 1 .. 0 + Total(i)' - (c + 1)
    <3>1. k \in 1 .. Total(i) - (c + 1) /\ (c + 1) + k - 0 = c + 1 + k
      BY <1>3, <1>4, <1>5
    <3> QED
      BY <1>4, <2>2, <3>1
  <2> QED
    BY <2>4, <2>5 DEF Place
<1>11. CASE c = 0
  <2>1. b = Address
    BY <1>9, <1>11 DEF EventOf
  <2>2. i2cState' = "1" /\ i2cMsg' = i2cMsg /\ executed' = executed
    BY <2>1 DEF ProcessI2CIn, Framed, Ignored, Taken, Address
  <2>3. executed[i] = << >>
    BY <1>3, <1>11 DEF Parsed
  <2>4. executed'[i] = Commands(t, 0) /\ i2cState' = Expected(t, 0)
    <3>1. 0 <= Len(t)
      BY <1>2
    <3>2. Commands(t, 0) = << >>
      BY <1>2, <3>1, InStepMeans
    <3> QED
      BY <2>2, <2>3, <3>2, ExpectedIs
  <2>5. \A k \in 1 .. Position[i2cState'] - 1 : i2cMsg'[k] = t[k]
    BY <2>2, PositionType
  <2>6. Parsed(i, c + 1)'
    <3>1. c + 1 > 0 /\ c + 1 - 1 = 0
      BY <1>11
    <3> QED
      BY <1>1, <1>11, <2>4, <2>5, <3>1 DEF Parsed
  <2> QED
    BY <1>3, <1>4, <1>5, <1>6, <1>8, <1>10, <2>6 DEF InStep
<1>12. CASE c > 0
  <2> DEFINE j == c - 1
  <2>1. /\ j \in Nat /\ j < Len(t) /\ j + 1 = c /\ j <= Len(t)
    BY <1>2, <1>3, <1>4, <1>8, <1>12
  <2>2. b = t[j + 1] /\ b \in Byte /\ ~(b < 0)
    <3>1. b = t[j + 1]
      BY <1>3, <1>9, <1>12, <2>1 DEF EventOf
    <3>2. t[j + 1] \in Byte
      BY <1>2, <2>1
    <3>3. \A x \in Byte : ~(x < 0)
      BY DEF Byte
    <3> HIDE DEF b, t
    <3> QED
      BY <3>1, <3>2, <3>3
  <2>3. /\ executed[i] = Commands(t, j) /\ i2cState = Expected(t, j)
        /\ i2cState # "idle" =>
             \A k \in 1 .. Position[i2cState] - 1 : i2cMsg[k] = t[k]
    BY <1>3, <1>8, <1>12 DEF Parsed
  <2> HIDE DEF j
  <2>4. SUFFICES /\ executed'[i] = Commands(t, j + 1)
                 /\ i2cState' = Expected(t, j + 1)
                 /\ i2cState' # "idle" =>
                      \A k \in 1 .. Position[i2cState'] - 1 : i2cMsg'[k] = t[k]
    <3>1. Parsed(i, c + 1)'
      <4>1. c + 1 > 0 /\ c + 1 - 1 = j + 1 /\ c + 1 # 0
        BY <1>3, <1>12, <2>1
      <4> QED
        BY <1>1, <2>4, <4>1 DEF Parsed
    <3> QED
      BY <1>3, <1>4, <1>5, <1>6, <1>8, <1>10, <3>1 DEF InStep
  <2>5. CASE Ignored
    <3>1. /\ i2cState = "idle" /\ i2cState' = i2cState /\ executed' = executed
      BY <2>5 DEF Ignored, parser
    <3>2. Expected(t, j + 1) = "idle" /\ Count(t, j + 1) = Count(t, j)
      BY <1>2, <2>1, <2>3, <3>1, IdleStep
    <3>3. Commands(t, j + 1) = Commands(t, j)
      BY <3>2 DEF Commands
    <3> QED
      BY <2>3, <3>1, <3>2, <3>3
  <2>6. CASE Taken
    <3> DEFINE msg == Msg(b)
    <3>1. /\ i2cState # "idle" /\ i2cMsg' = msg /\ i2cState' = After(b)
          /\ IF Completes(b)
             THEN executed' = [executed EXCEPT ![i] = Append(@, Command(msg))]
             ELSE executed' = executed
      BY <2>6 DEF Taken, Msg
    <3>2. i2cMsg \in [1 .. 4 -> Byte]
      BY DEF ExecInv, TypeOK
    <3>3. msg = Msg(t[j + 1])
      BY <2>2
    <3> HIDE DEF msg, t, b
    <3>4. i2cState' = Expected(t, j + 1)
      BY <1>2, <2>1, <2>2, <2>3, <3>1, StateStep
    <3>7. \A k \in 1 .. Position[i2cState] - 1 : i2cMsg[k] = t[k]
      BY <2>3, <3>1
    <3>5. i2cState' # "idle" =>
            \A k \in 1 .. Position[i2cState'] - 1 : i2cMsg'[k] = t[k]
      <4>1. Expected(t, j + 1) # "idle" =>
              \A k \in 1 .. Position[Expected(t, j + 1)] - 1 : msg[k] = t[k]
        BY <1>2, <2>1, <2>3, <3>1, <3>2, <3>3, <3>7, MsgStep
      <4> QED
        BY <3>1, <3>4, <4>1
    <3>6. executed'[i] = Commands(t, j + 1)
      <4>1. CASE Completes(b)
        <5>1. Command(msg) = Append(SubSeq(t, 1, Size(t) - 1), t[j + 1])
          <6>1. Completes(t[j + 1])
            BY <2>2, <4>1
          <6> QED
            BY <1>2, <2>1, <2>3, <3>1, <3>2, <3>3, <3>7, <6>1, CommandStep
        <5>2. /\ Count(t, j + 1) = Count(t, j) + 1
              /\ Size(t) + Count(t, j + 1) - 1 = j + 1
          BY <1>2, <2>1, <2>2, <2>3, <3>1, <4>1, StateStep
        <5>3. Commands(t, j + 1) = Append(Commands(t, j), Command(msg))
          BY <1>2, <2>1, <5>1, <5>2, CommandsStep
        <5>4. executed'[i] = Append(executed[i], Command(msg))
          <6>1. executed \in Seq(Seq(Seq(Byte))) /\ i \in 1 .. Len(executed)
            BY <1>2 DEF ExecInv, TypeOK
          <6> QED
            BY <3>1, <4>1, <6>1
        <5> QED
          BY <2>3, <5>3, <5>4
      <4>2. CASE ~Completes(b)
        <5>1. Count(t, j + 1) = Count(t, j)
          BY <1>2, <2>1, <2>2, <2>3, <3>1, <4>2, StateStep
        <5>2. Commands(t, j + 1) = Commands(t, j)
          BY <5>1 DEF Commands
        <5> QED
          BY <2>3, <3>1, <4>2, <5>2
      <4> QED
        BY <4>1, <4>2
    <3> QED
      BY <3>4, <3>5, <3>6
  <2> QED
    <3>1. ~Framed
      BY <2>2 DEF Framed
    <3> QED
      BY <2>5, <2>6, <3>1 DEF ProcessI2CIn
<1> QED
  BY <1>3, <1>11, <1>12

LEMMA ExecNext == ExecInv /\ ReadInv /\ [Next]_vars => ExecInv'
<1> SUFFICES ASSUME ExecInv, ReadInv, [Next]_vars PROVE ExecInv'
  OBVIOUS
<1>0. TypeOK'
  BY ReadNext DEF ReadInv
<1> SUFFICES ASSUME NEW i \in 1 .. Len(transfers'), transfers'[i] # << >>, i \notin cut'
             PROVE  InStep(i)'
  BY <1>0 DEF ExecInv
<1>1. ASSUME NEW t \in Transfer, MasterWrites(t) PROVE InStep(i)'
  <2> DEFINE events == <<Address>> \o t
  <2>1. t \in Seq(Byte)
    BY I2CAssumption DEF Byte
  <2>2. /\ events \in Seq(Event) /\ Len(events) = Len(t) + 1
        /\ events[1] = Address
        /\ \A k \in 1 .. Len(t) : events[k + 1] = t[k]
    BY <2>1, WriteEvents
  <2>3. Start(t, events)
    BY <1>1 DEF MasterWrites
  <2> HIDE DEF events
  <2>4. \A p \in 1 .. Len(t) + 1 : events[p] = IF p = 1 THEN Address ELSE t[p - 1]
    <3>1. Len(t) \in Nat
      BY <2>1, SeqIsFunction
    <3> TAKE p \in 1 .. Len(t) + 1
    <3>2. CASE p = 1
      BY <2>2, <3>2
    <3>3. CASE p # 1
      <4>1. p - 1 \in 1 .. Len(t) /\ (p - 1) + 1 = p
        BY <3>1, <3>3
      <4>2. events[(p - 1) + 1] = t[p - 1]
        BY <2>2, <4>1
      <4> QED
        BY <3>3, <4>1, <4>2
    <3> QED
      BY <3>2, <3>3
  <2> QED
    BY <2>1, <2>2, <2>3, <2>4, ExecStart
<1>2. ASSUME NEW n \in 1 .. MaxRead, MasterReads(n) PROVE InStep(i)'
  <2>1. n \in Nat /\ << >> \in Seq(Byte)
    BY I2CAssumption
  <2> DEFINE events == [k \in 1 .. n |-> ReadMark]
  <2>2. events \in Seq(Event)
    BY <2>1, ReadEvents
  <2>3. Start(<< >>, events)
    BY <1>2 DEF MasterReads
  <2> HIDE DEF events
  <2> QED
    BY <2>1, <2>2, <2>3, ExecStart
<1>3. CASE Interrupt
  BY <1>3, ExecInterrupt
<1>4. CASE ProcessI2CIn
  BY <1>4, ExecOthers, ExecThis
<1>5. CASE Prepare
  BY <1>5, ExecKept DEF Prepare, parser
<1>6. CASE UNCHANGED vars
  BY <1>6, ExecKept DEF vars, parser, history
<1> QED
  BY <1>1, <1>2, <1>3, <1>4, <1>5, <1>6 DEF Next

LEMMA ExecInit == Init => ExecInv
<1> SUFFICES ASSUME Init PROVE ExecInv
  OBVIOUS
<1>1. TypeOK
  BY TypeInit
<1>2. Len(transfers) = 0
  BY DEF Init
<1> QED
  BY <1>1, <1>2 DEF ExecInv

\* What is over has nothing ahead, and was executed whole.
LEMMA ExecMeans == ExecInv => ExecutedAsMeant
<1> SUFFICES ASSUME ExecInv,
                    NEW i \in 1 .. Len(transfers), transfers[i] # << >>, i \notin cut
             PROVE  /\ IsPrefix(executed[i], Meant(transfers[i]))
                    /\ Over(i) => executed[i] = Meant(transfers[i])
  BY DEF ExecutedAsMeant
<1> DEFINE t == transfers[i]
<1>1. PICK c \in 0 .. Total(i), o \in 0 .. Ahead :
        Place(i, c, o) /\ Parsed(i, c) /\ (c > 0 => o = 0)
  BY DEF ExecInv, InStep
<1>2. /\ t \in Seq(Byte) /\ t # << >> /\ Len(t) \in Nat
      /\ Total(i) = Len(t) + 1 /\ Ahead \in Nat /\ Len(transfers) \in Nat
      /\ Len(rx) \in Nat /\ Len(todo) \in Nat /\ Ahead = Len(rx) + Len(todo)
  <2>1. transfers[i] \in Seq(Byte)
    BY AheadType DEF ExecInv
  <2>2. Len(t) \in Nat
    BY <2>1, SeqIsFunction
  <2> QED
    BY <2>1, <2>2, AheadType DEF ExecInv, Total
<1>3. executed[i] = << >> \/ (c > 0 /\ executed[i] = Commands(t, c - 1))
  BY <1>1 DEF Parsed
<1>4. IsPrefix(executed[i], Meant(t))
  <2>1. CASE executed[i] = << >>
    <3>1. 0 \in Nat /\ 0 <= Len(t)
      BY <1>2
    <3> QED
      BY <1>2, <2>1, <3>1, InStepMeans
  <2>2. CASE c > 0 /\ executed[i] = Commands(t, c - 1)
    <3>1. c - 1 \in Nat /\ c - 1 <= Len(t)
      BY <1>1, <1>2, <2>2
    <3> HIDE DEF t
    <3> QED
      BY <1>2, <2>2, <3>1, InStepMeans
  <2> QED
    BY <1>3, <2>1, <2>2
<1>5. ASSUME Over(i) PROVE executed[i] = Meant(t)
  <2>1. c = Total(i)
    <3> SUFFICES ASSUME c < Total(i) PROVE FALSE
      BY <1>1, <1>2
    <3>1. o + 1 \in 1 .. Ahead /\ o + 1 \in o + 1 .. o + Total(i) - c
      BY <1>1, <1>2 DEF Place
    <3>2. Coming(o + 1)[2] = i
      BY <1>1, <3>1 DEF Place
    <3>3. CASE o + 1 <= Len(rx)
      <4>1. rx[o + 1][2] = i /\ o + 1 \in 1 .. Len(rx)
        BY <1>2, <3>1, <3>2, <3>3 DEF Coming
      <4> QED
        BY <1>5, <4>1 DEF Over
    <3>4. CASE ~(o + 1 <= Len(rx))
      <4>1. i = Len(transfers) /\ Len(todo) > 0
        BY <1>1, <1>2, <3>1, <3>2, <3>4 DEF Coming
      <4>2. todo # << >>
        BY <4>1
      <4> QED
        BY <1>2, <1>5, <4>1, <4>2 DEF Over
    <3> QED
      BY <3>3, <3>4
  <2>2. executed[i] = Commands(t, Len(t))
    <3>1. c > 0 /\ c - 1 = Len(t)
      BY <1>2, <2>1
    <3>2. executed[i] = Commands(t, c - 1)
      BY <1>1, <3>1 DEF Parsed
    <3> QED
      BY <3>1, <3>2
  <2>3. Len(t) <= Len(t)
    BY <1>2
  <2> HIDE DEF t
  <2> QED
    BY <1>2, <2>2, <2>3, InStepMeans
<1> QED
  BY <1>4, <1>5
-----------------------------------------------------------------------------
(* Sequences one after the other.                                          *)

LEMMA Joins ==
  ASSUME NEW S, NEW s \in Seq(S), NEW u \in Seq(S), NEW v \in Seq(S)
  PROVE  /\ (s \o u) \o v = s \o (u \o v)
         /\ s \o << >> = s /\ << >> \o s = s
         /\ s \o u \in Seq(S) /\ u \o v \in Seq(S)
<1>1. /\ s \o u \in Seq(S) /\ u \o v \in Seq(S)
      /\ (s \o u) \o v \in Seq(S) /\ s \o (u \o v) \in Seq(S)
  BY Joined
<1>2. PICK l \in Nat, m \in Nat, n \in Nat : l = Len(s) /\ m = Len(u) /\ n = Len(v)
  BY SeqIsFunction
<1>3. /\ Len((s \o u) \o v) = l + m + n /\ Len(s \o (u \o v)) = l + m + n
      /\ Len(s \o u) = l + m /\ Len(u \o v) = m + n
  BY <1>1, <1>2, Joined
<1>4. ASSUME NEW k \in 1 .. l + m + n
      PROVE  ((s \o u) \o v)[k] = (s \o (u \o v))[k]
  <2>1. CASE k <= l
    BY <1>1, <1>2, <1>3, <2>1
  <2>2. CASE k > l /\ k <= l + m
    BY <1>1, <1>2, <1>3, <2>2
  <2>3. CASE k > l + m
    BY <1>1, <1>2, <1>3, <2>3
  <2> QED
    BY <1>2, <2>1, <2>2, <2>3
<1>5. (s \o u) \o v = s \o (u \o v)
  BY <1>1, <1>2, <1>3, <1>4, SeqEqual
<1> QED
  BY <1>1, <1>5

\* What a prefix is.
LEMMA PrefixIs ==
  ASSUME NEW S, NEW s \in Seq(S), NEW u \in Seq(S)
  PROVE  IsPrefix(s, u) <=> \E v \in Seq(S) : u = s \o v
<1>1. PICK l \in Nat, m \in Nat : l = Len(s) /\ m = Len(u)
  BY SeqIsFunction
<1>2. ASSUME NEW v \in Seq(S), u = s \o v PROVE IsPrefix(s, u)
  <2>1. l <= m /\ \A k \in 1 .. l : u[k] = s[k]
    BY <1>1, <1>2, Joined
  <2>2. /\ SubSeq(u, 1, l) \in Seq(S) /\ Len(SubSeq(u, 1, l)) = l
        /\ \A k \in 1 .. l : SubSeq(u, 1, l)[k] = u[k]
    <3>1. l \in 0 .. Len(u)
      BY <1>1, <2>1
    <3> QED
      BY <3>1, FirstOf
  <2>3. s = SubSeq(u, 1, l)
    BY <1>1, <2>1, <2>2, SeqEqual
  <2> QED
    BY <1>1, <2>1, <2>3 DEF IsPrefix
<1>3. ASSUME IsPrefix(s, u) PROVE \E v \in Seq(S) : u = s \o v
  <2>1. l <= m /\ s = SubSeq(u, 1, l)
    BY <1>1, <1>3 DEF IsPrefix
  <2> DEFINE v == [k \in 1 .. m - l |-> u[l + k]]
  <2>2. v \in [1 .. m - l -> S] /\ \A k \in 1 .. m - l : v[k] = u[l + k]
    BY <1>1, <2>1
  <2> HIDE DEF v
  <2>3. v \in Seq(S) /\ Len(v) = m - l
    <3>1. m - l \in Nat
      BY <1>1, <2>1
    <3> QED
      BY <2>2, <3>1, FunctionIsSeq
  <2>4. \A k \in 1 .. l : u[k] = s[k]
    <3>1. l \in 0 .. Len(u)
      BY <1>1, <2>1
    <3>2. \A k \in 1 .. l : SubSeq(u, 1, l)[k] = u[k]
      BY <3>1, FirstOf
    <3> QED
      BY <2>1, <3>2
  <2>5. s \o v \in Seq(S) /\ Len(s \o v) = m
    BY <1>1, <2>1, <2>3, Joined
  <2>6. ASSUME NEW k \in 1 .. m PROVE u[k] = (s \o v)[k]
    <3>1. CASE k <= l
      BY <1>1, <2>3, <2>4, <3>1, Joined
    <3>2. CASE k > l
      <4>1. k - l \in 1 .. m - l /\ l + (k - l) = k
        BY <1>1, <3>2
      <4>2. (s \o v)[l + (k - l)] = v[k - l] /\ v[k - l] = u[l + (k - l)]
        BY <1>1, <2>2, <2>3, <4>1, Joined
      <4> QED
        BY <4>1, <4>2
    <3>3. k <= l \/ k > l
      OBVIOUS
    <3> QED
      BY <3>1, <3>2, <3>3
  <2>7. u = s \o v
    BY <1>1, <2>5, <2>6, SeqEqual
  <2> QED
    BY <2>3, <2>7
<1> QED
  BY <1>2, <1>3

\* The first element of a sequence goes behind another.
LEMMA HeadMoves ==
  ASSUME NEW S, NEW s \in Seq(S), NEW u \in Seq(S), u # << >>
  PROVE  s \o u = Append(s, Head(u)) \o Tail(u)
<1>1. PICK l \in Nat, m \in Nat : l = Len(s) /\ m = Len(u) /\ m > 0
  BY SeqIsFunction
<1>2. /\ Head(u) \in S /\ Head(u) = u[1] /\ Tail(u) \in Seq(S) /\ Len(Tail(u)) = m - 1
      /\ \A k \in 1 .. m - 1 : Tail(u)[k] = u[k + 1]
  BY <1>1, TailOf
<1>3. PICK a \in Seq(S) : /\ a = Append(s, Head(u)) /\ Len(a) = l + 1 /\ a[l + 1] = u[1]
                          /\ \A k \in 1 .. l : a[k] = s[k]
  <2>1. /\ Append(s, Head(u)) \in Seq(S) /\ Len(Append(s, Head(u))) = Len(s) + 1
        /\ \A k \in 1 .. Len(s) : Append(s, Head(u))[k] = s[k]
        /\ Append(s, Head(u))[Len(s) + 1] = Head(u)
    BY <1>2, AppendTo
  <2> QED
    BY <1>1, <1>2, <2>1
<1>4. /\ s \o u \in Seq(S) /\ Len(s \o u) = l + m
      /\ a \o Tail(u) \in Seq(S) /\ Len(a \o Tail(u)) = l + m
  BY <1>1, <1>2, <1>3, Joined
<1>5. ASSUME NEW k \in 1 .. l + m PROVE (s \o u)[k] = (a \o Tail(u))[k]
  <2>1. CASE k <= l
    BY <1>1, <1>2, <1>3, <2>1
  <2>2. CASE k = l + 1
    BY <1>1, <1>2, <1>3, <2>2
  <2>3. CASE k > l + 1
    <3>1. k - l - 1 \in 1 .. m - 1 /\ k - l \in 1 .. m /\ (k - l - 1) + 1 = k - l
          /\ (l + 1) + (k - l - 1) = k /\ l + (k - l) = k
      BY <1>1, <2>3
    <3>2. (a \o Tail(u))[(l + 1) + (k - l - 1)] = Tail(u)[k - l - 1]
      BY <1>2, <1>3, <3>1, Joined
    <3>3. (s \o u)[l + (k - l)] = u[k - l]
      <4>1. PICK i \in 1 .. Len(u) : i = k - l
        BY <1>1, <3>1
      <4>2. (s \o u)[Len(s) + i] = u[i]
        BY Joined
      <4> QED
        BY <1>1, <4>1, <4>2
    <3>4. Tail(u)[k - l - 1] = u[(k - l - 1) + 1]
      BY <1>2, <3>1
    <3> QED
      BY <3>1, <3>2, <3>3, <3>4
  <2>4. k <= l \/ k = l + 1 \/ k > l + 1
    OBVIOUS
  <2> QED
    BY <2>1, <2>2, <2>3, <2>4
<1>6. s \o u = a \o Tail(u)
  BY <1>1, <1>4, <1>5, SeqEqual
<1> QED
  BY <1>3, <1>6
-----------------------------------------------------------------------------
(* Induction.  The theorem of the library takes the formula to be proved   *)
(* as a parameter; this takes the set of the numbers it holds for.         *)

LEMMA LeastOf ==
  ASSUME NEW H \in SUBSET Nat, H # {}
  PROVE  \E n \in H : \A k \in H : n <= k
<1> DEFINE R == OpToRel(<, Nat)
<1>1. IsWellFoundedOn(R, Nat)
  BY NatLessThanWellFounded
<1>2. R = {ss \in Nat \X Nat : ss[1] < ss[2]}
  BY DEF OpToRel
<1> HIDE DEF R
<1>3. PICK n \in H : \A k \in H : <<k, n>> \notin R
  BY <1>1, WFMin
<1>4. ASSUME NEW k \in H PROVE ~(k < n)
  <2>1. <<k, n>> \in Nat \X Nat /\ <<k, n>> \notin R
    BY <1>3
  <2> QED
    BY <1>2, <2>1
<1>5. ASSUME NEW k \in H PROVE n <= k
  BY <1>4
<1> QED
  BY <1>5

LEMMA InductionOnNat ==
  ASSUME NEW H \in SUBSET Nat, 0 \in H, \A n \in H : n + 1 \in H
  PROVE  H = Nat
<1> SUFFICES ASSUME Nat \ H # {} PROVE FALSE
  OBVIOUS
<1>1. PICK n \in Nat \ H : \A k \in Nat \ H : n <= k
  BY LeastOf
<1>2. n - 1 \in Nat /\ n - 1 \notin Nat \ H
  BY <1>1
<1>3. (n - 1) + 1 \in H
  BY <1>2
<1> QED
  BY <1>1, <1>3

-----------------------------------------------------------------------------
(* Sequences joined one after the other, which the library defines by      *)
(* recursion on how many of them there are.                                *)

Joint(f, s, i) == IF i = 1 THEN s[i] ELSE f[i - 1] \o s[i]
AreJoints(f, s, n) == f = [i \in 1 .. n |-> Joint(f, s, i)]
Joints(s, n) == CHOOSE f : AreJoints(f, s, n)

LEMMA FlattenIsLast ==
  ASSUME NEW s, Len(s) # 0
  PROVE  FlattenSeq(s) = Joints(s, Len(s))[Len(s)]
BY Zenon DEF FlattenSeq, Joints, AreJoints, Joint

LEMMA JointsExist ==
  ASSUME NEW s, NEW k \in Nat
  PROVE  \E f : AreJoints(f, s, k)
<1> DEFINE H == {n \in Nat : \E f : AreJoints(f, s, n)}
<1>1. 0 \in H
  <2> DEFINE f == [i \in 1 .. 0 |-> s]
  <2>1. f = [i \in 1 .. 0 |-> Joint(f, s, i)]
    OBVIOUS
  <2> HIDE DEF f
  <2> QED
    BY <2>1 DEF AreJoints
<1>2. ASSUME NEW n \in H PROVE n + 1 \in H
  <2>1. PICK f : f = [i \in 1 .. n |-> Joint(f, s, i)]
    BY DEF AreJoints
  <2>0. n \in Nat
    OBVIOUS
  <2> DEFINE next == [i \in 1 .. n + 1 |-> Joint(f, s, i)]
  <2>2. ASSUME NEW i \in 1 .. n PROVE next[i] = f[i]
    <3>1. i \in 1 .. n + 1
      BY <2>0
    <3>2. f[i] = Joint(f, s, i)
      BY <2>1, Zenon
    <3> QED
      BY <3>1, <3>2, Zenon
  <2>3. ASSUME NEW i \in 1 .. n + 1 PROVE Joint(next, s, i) = Joint(f, s, i)
    <3> HIDE DEF next
    <3>1. CASE i = 1
      BY <3>1 DEF Joint
    <3>2. CASE i # 1
      <4>1. i - 1 \in 1 .. n
        BY <2>0, <3>2
      <4> QED
        BY <2>2, <4>1, Zenon DEF Joint
    <3> QED
      BY <3>1, <3>2
  <2>4. next = [i \in 1 .. n + 1 |-> Joint(next, s, i)]
    BY <2>3, Zenon
  <2> HIDE DEF next
  <2>5. \E g : AreJoints(g, s, n + 1)
    BY <2>4, Zenon DEF AreJoints
  <2> QED
    BY <2>0, <2>5
<1>3. H = Nat
  <2> HIDE DEF H
  <2>1. H \in SUBSET Nat
    BY DEF H
  <2> QED
    BY <1>1, <1>2, <2>1, InductionOnNat
<1> QED
  BY <1>3

LEMMA JointsUnfold ==
  ASSUME NEW s, NEW n \in Nat, NEW i \in 1 .. n
  PROVE  Joints(s, n)[i] = IF i = 1 THEN s[i] ELSE Joints(s, n)[i - 1] \o s[i]
<1>1. AreJoints(Joints(s, n), s, n)
  BY JointsExist, Zenon DEF Joints
<1>2. Joints(s, n) = [j \in 1 .. n |-> Joint(Joints(s, n), s, j)]
  BY <1>1, Zenon DEF AreJoints
<1> QED
  BY <1>2, Zenon DEF Joint

\* They are sequences, and the same for all that begin alike.
BeginAlike(S, n, s, t) == \A i \in 1 .. n : s[i] \in Seq(S) /\ t[i] = s[i]

LEMMA JointsAgree ==
  ASSUME NEW S, NEW n \in Nat, NEW m \in Nat, n <= m, NEW s, NEW t,
         BeginAlike(S, n, s, t), NEW k \in 1 .. n
  PROVE  Joints(s, n)[k] \in Seq(S) /\ Joints(t, m)[k] = Joints(s, n)[k]
<1> DEFINE Good(i) == /\ Joints(s, n)[i] \in Seq(S)
                      /\ Joints(t, m)[i] = Joints(s, n)[i]
           H == {i \in Nat : i + 1 \in 1 .. n => Good(i + 1)}
<1>1. 0 \in H
  <2> SUFFICES ASSUME 1 \in 1 .. n PROVE Good(1)
    OBVIOUS
  <2>1. 1 \in 1 .. m
    OBVIOUS
  <2> QED
    BY <2>1, JointsUnfold DEF BeginAlike
<1>2. ASSUME NEW i \in H PROVE i + 1 \in H
  <2> SUFFICES ASSUME i + 2 \in 1 .. n PROVE Good(i + 2)
    OBVIOUS
  <2>1. i \in Nat /\ i + 1 \in 1 .. n /\ i + 2 \in 1 .. m /\ i + 2 # 1
        /\ (i + 2) - 1 = i + 1
    OBVIOUS
  <2>2. Good(i + 1)
    BY <2>1
  <2>3. /\ Joints(s, n)[i + 2] = Joints(s, n)[i + 1] \o s[i + 2]
        /\ Joints(t, m)[i + 2] = Joints(t, m)[i + 1] \o t[i + 2]
    <3>1. PICK j \in 1 .. n : j = i + 2 /\ j \in 1 .. m
      BY <2>1
    <3>2. /\ Joints(s, n)[j] = IF j = 1 THEN s[j] ELSE Joints(s, n)[j - 1] \o s[j]
          /\ Joints(t, m)[j] = IF j = 1 THEN t[j] ELSE Joints(t, m)[j - 1] \o t[j]
      BY <3>1, JointsUnfold
    <3> QED
      BY <2>1, <3>1, <3>2
  <2>4. s[i + 2] \in Seq(S) /\ t[i + 2] = s[i + 2]
    BY DEF BeginAlike
  <2> QED
    BY <2>2, <2>3, <2>4, Joined
<1>3. H = Nat
  <2> HIDE DEF H
  <2>1. H \in SUBSET Nat
    BY DEF H
  <2> QED
    BY <1>1, <1>2, <2>1, InductionOnNat
<1>4. PICK i \in Nat : k = i + 1
  <2>1. k - 1 \in Nat /\ k = (k - 1) + 1
    OBVIOUS
  <2> QED
    BY <2>1
<1>5. i \in H
  BY <1>3
<1> QED
  BY <1>4, <1>5

\* One more sequence is joined at the end.
LEMMA FlattenNext ==
  ASSUME NEW S, NEW n \in Nat, NEW s \in [1 .. n -> Seq(S)],
         NEW t \in [1 .. n + 1 -> Seq(S)], \A i \in 1 .. n : t[i] = s[i]
  PROVE  /\ FlattenSeq(s) \in Seq(S)
         /\ FlattenSeq(t) = FlattenSeq(s) \o t[n + 1]
<1>1. Len(s) = n /\ Len(t) = n + 1
  BY FunctionIsSeq
<1>2. t[n + 1] \in Seq(S)
  OBVIOUS
<1>3. FlattenSeq(t) = Joints(t, n + 1)[n + 1]
  BY <1>1, FlattenIsLast
<1>4. Joints(t, n + 1)[n + 1]
        = IF n + 1 = 1 THEN t[n + 1] ELSE Joints(t, n + 1)[(n + 1) - 1] \o t[n + 1]
  <2>1. n + 1 \in Nat /\ n + 1 \in 1 .. n + 1
    OBVIOUS
  <2> QED
    BY <2>1, JointsUnfold
<1>5. CASE n = 0
  <2>1. FlattenSeq(s) = s /\ s = << >>
    BY <1>1, <1>5 DEF FlattenSeq
  <2> QED
    BY <1>2, <1>3, <1>4, <1>5, <2>1, Joined
<1>6. CASE n # 0
  <2>1. FlattenSeq(s) = Joints(s, n)[n]
    BY <1>1, <1>6, FlattenIsLast
  <2>2. n \in 1 .. n /\ n + 1 # 1 /\ (n + 1) - 1 = n /\ n <= n + 1 /\ n + 1 \in Nat
    BY <1>6
  <2>3. Joints(s, n)[n] \in Seq(S) /\ Joints(t, n + 1)[n] = Joints(s, n)[n]
    <3>1. BeginAlike(S, n, s, t)
      BY DEF BeginAlike
    <3>2. PICK m \in Nat : m = n + 1 /\ n <= m
      BY <2>2
    <3>3. n \in Nat /\ n \in 1 .. n
      BY <2>2
    <3>5. n <= m /\ m \in Nat
      BY <3>2
    <3>4. Joints(s, n)[n] \in Seq(S) /\ Joints(t, m)[n] = Joints(s, n)[n]
      <4>1. Joints(s, n)[n] \in Seq(S)
        BY <3>1, <3>3, <3>5, JointsAgree
      <4>2. Joints(t, m)[n] = Joints(s, n)[n]
        BY <3>1, <3>3, <3>5, JointsAgree
      <4> QED
        BY <4>1, <4>2
    <3> QED
      BY <3>2, <3>4
  <2> QED
    BY <1>3, <1>4, <2>1, <2>2, <2>3
<1> QED
  BY <1>5, <1>6

LEMMA NothingJoined == FlattenSeq(<< >>) = << >>
BY DEF FlattenSeq

LEMMA FlattenIs ==
  ASSUME NEW S, NEW n \in Nat, NEW s \in [1 .. n -> Seq(S)]
  PROVE  /\ n = 0 => FlattenSeq(s) = << >>
         /\ n > 0 => FlattenSeq(s) = Joints(s, n)[n]
         /\ FlattenSeq(s) \in Seq(S)
         /\ \A k \in 1 .. n : Joints(s, n)[k] \in Seq(S)
<1>1. s \in Seq(Seq(S)) /\ Len(s) = n
  BY FunctionIsSeq
<1>2. \A k \in 1 .. n : Joints(s, n)[k] \in Seq(S)
  <2>1. BeginAlike(S, n, s, s) /\ n <= n
    BY DEF BeginAlike
  <2> QED
    BY <2>1, JointsAgree
<1>3. n = 0 => FlattenSeq(s) = << >>
  <2>1. n = 0 => s = << >>
    BY <1>1
  <2> QED
    BY <2>1, NothingJoined
<1>4. n > 0 => FlattenSeq(s) = Joints(s, n)[n]
  BY <1>1, FlattenIsLast
<1>5. FlattenSeq(s) \in Seq(S)
  <2>1. << >> \in Seq(S)
    OBVIOUS
  <2>2. n > 0 => n \in 1 .. n
    OBVIOUS
  <2> QED
    BY <1>2, <1>3, <1>4, <2>1, <2>2
<1> QED
  BY <1>2, <1>3, <1>4, <1>5

LEMMA JointsNext ==
  ASSUME NEW S, NEW n \in Nat, NEW s \in [1 .. n -> Seq(S)], NEW k \in 1 .. n
  PROVE  /\ k = 1 => Joints(s, n)[k] = s[k]
         /\ \A i \in 1 .. n : k = i + 1 => Joints(s, n)[k] = Joints(s, n)[i] \o s[k]
<1>1. Joints(s, n)[k] = IF k = 1 THEN s[k] ELSE Joints(s, n)[k - 1] \o s[k]
  BY JointsUnfold
<1>2. ASSUME NEW i \in 1 .. n, k = i + 1 PROVE k # 1 /\ k - 1 = i
  BY <1>2
<1> QED
  BY <1>1, <1>2

\* What holds of the first, and of the next of any it holds of, holds of all.
LEMMA InductionUpTo ==
  ASSUME NEW n \in Nat, NEW H \in SUBSET (1 .. n),
         \A k \in 1 .. n : k = 1 => k \in H,
         \A i \in H : \A k \in 1 .. n : k = i + 1 => k \in H
  PROVE  \A k \in 1 .. n : k \in H
<1> DEFINE N == {i \in Nat : i + 1 \in 1 .. n => i + 1 \in H}
<1>1. 0 \in N
  OBVIOUS
<1>2. ASSUME NEW i \in N PROVE i + 1 \in N
  <2> SUFFICES ASSUME (i + 1) + 1 \in 1 .. n PROVE (i + 1) + 1 \in H
    OBVIOUS
  <2>1. PICK j \in 1 .. n : j = i + 1
    OBVIOUS
  <2>2. PICK k \in 1 .. n : k = (i + 1) + 1
    OBVIOUS
  <2>3. j \in H /\ k = j + 1
    BY <2>1, <2>2
  <2> QED
    BY <2>2, <2>3
<1>3. N = Nat
  <2>1. N \in SUBSET Nat
    OBVIOUS
  <2> HIDE DEF N
  <2> QED
    BY <1>1, <1>2, <2>1, InductionOnNat
<1>4. ASSUME NEW k \in 1 .. n PROVE k \in H
  <2>1. PICK i \in Nat : k = i + 1
    <3>1. k - 1 \in Nat /\ k = (k - 1) + 1
      OBVIOUS
    <3> QED
      BY <3>1
  <2> QED
    BY <1>3, <2>1
<1> QED
  BY <1>4

\* The last of the sequences that are not empty is continued.
Grown(S, n, f, g, j, x) ==
  /\ n \in Nat /\ j \in 1 .. n /\ x \in Seq(S)
  /\ f \in [1 .. n -> Seq(S)] /\ g \in [1 .. n -> Seq(S)]
  /\ g[j] = f[j] \o x
  /\ \A i \in 1 .. n : i < j => g[i] = f[i]
  /\ \A i \in 1 .. n : i > j => f[i] = << >> /\ g[i] = << >>

LEMMA FlattenGrows ==
  ASSUME NEW S, NEW n, NEW f, NEW g, NEW j, NEW x, Grown(S, n, f, g, j, x)
  PROVE  FlattenSeq(g) = FlattenSeq(f) \o x
<1>0. n \in Nat /\ j \in 1 .. n /\ x \in Seq(S)
  BY DEF Grown
<1> SUFFICES ASSUME n \in Nat, j \in 1 .. n, x \in Seq(S)
             PROVE  FlattenSeq(g) = FlattenSeq(f) \o x
  BY <1>0
<1>9. ASSUME NEW a \in Seq(S), NEW b \in Seq(S)
      PROVE  (a \o b) \o x = a \o (b \o x)
  BY Joins
<1>10. f \in [1 .. n -> Seq(S)] /\ g \in [1 .. n -> Seq(S)]
  BY DEF Grown
<1>11. g[j] = f[j] \o x
  BY DEF Grown
<1>12. \A i \in 1 .. n : /\ i < j => g[i] = f[i]
                         /\ i > j => f[i] = << >> /\ g[i] = << >>
  BY DEF Grown
<1> DEFINE F == Joints(f, n)
           G == Joints(g, n)
           H == {k \in 1 .. n :
                   (k < j => G[k] = F[k]) /\ (~(k < j) => G[k] = F[k] \o x)}
<1>1. \A k \in 1 .. n : F[k] \in Seq(S) /\ G[k] \in Seq(S)
  BY <1>10, FlattenIs
<1>2. \A k \in 1 .. n : /\ k = 1 => F[k] = f[k] /\ G[k] = g[k]
                        /\ \A i \in 1 .. n : k = i + 1 =>
                              F[k] = F[i] \o f[k] /\ G[k] = G[i] \o g[k]
  BY <1>10, JointsNext
<1>3. \A k \in 1 .. n : f[k] \in Seq(S) /\ g[k] \in Seq(S)
  BY <1>10
<1>4. FlattenSeq(f) = F[n] /\ FlattenSeq(g) = G[n] /\ n \in 1 .. n /\ ~(n < j)
  <2>1. n > 0 /\ n \in 1 .. n /\ ~(n < j)
    OBVIOUS
  <2> QED
    BY <1>10, <2>1, FlattenIs
<1> DEFINE Good(k) == (k < j => G[k] = F[k]) /\ (~(k < j) => G[k] = F[k] \o x)
<1>8. H \in SUBSET (1 .. n) /\ \A k \in 1 .. n : k \in H <=> Good(k)
  BY Zenon
<1> HIDE DEF F, G, H
<1>5. ASSUME NEW k \in 1 .. n, k = 1 PROVE Good(k)
  <2>1. F[k] = f[k] /\ G[k] = g[k]
    BY <1>2, <1>5
  <2>2. k < j \/ k = j
    BY <1>5
  <2>3. CASE k < j
    BY <1>12, <2>1, <2>3
  <2>4. CASE k = j
    BY <1>11, <2>1, <2>4
  <2> QED
    BY <2>2, <2>3, <2>4
<1>6. ASSUME NEW i \in H, NEW k \in 1 .. n, k = i + 1 PROVE Good(k)
  <2>1. F[k] = F[i] \o f[k] /\ G[k] = G[i] \o g[k] /\ i \in 1 .. n
    BY <1>2, <1>6, <1>8
  <2>2. (i < j => G[i] = F[i]) /\ (~(i < j) => G[i] = F[i] \o x)
    BY <1>8, <2>1
  <2>3. PICK a \in Seq(S), b \in Seq(S) : a = F[i] /\ b = f[k]
    BY <1>1, <1>3, <2>1
  <2>4. CASE k < j
    <3>1. i < j /\ g[k] = f[k]
      BY <1>6, <1>12, <2>1, <2>4
    <3> QED
      BY <2>1, <2>2, <2>4, <3>1
  <2>5. CASE k = j
    <3>1. i < j /\ g[k] = b \o x /\ ~(k < j)
      <4>1. g[k] = f[k] \o x
        BY <1>11, <2>5, Zenon
      <4>2. i < j /\ ~(k < j)
        BY <1>6, <2>1, <2>5
      <4> QED
        BY <2>3, <4>1, <4>2, Zenon
    <3>2. G[k] = a \o (b \o x) /\ F[k] = a \o b
      BY <2>1, <2>2, <2>3, <3>1, Zenon
    <3>3. G[k] = F[k] \o x
      <4>1. (a \o b) \o x = a \o (b \o x)
        BY <1>9
      <4> QED
        BY <3>2, <4>1, Zenon
    <3> QED
      BY <3>1, <3>3
  <2>6. CASE k > j
    <3>1. ~(i < j) /\ f[k] = << >> /\ g[k] = << >> /\ ~(k < j)
      BY <1>6, <1>12, <2>1, <2>6
    <3>2. G[k] = (a \o x) \o << >> /\ F[k] = a \o << >>
      BY <2>1, <2>2, <2>3, <3>1, Zenon
    <3>3. G[k] = F[k] \o x
      <4>1. a \o << >> = a
        BY Joins
      <4>2. a \o x \in Seq(S)
        BY Joins
      <4>3. (a \o x) \o << >> = a \o x
        BY <4>2, Joins
      <4> QED
        BY <3>2, <4>1, <4>3, Zenon
    <3> QED
      BY <3>1, <3>3
  <2>7. k < j \/ k = j \/ k > j
    OBVIOUS
  <2> QED
    BY <2>4, <2>5, <2>6, <2>7
<1>7. n \in H
  <2> HIDE DEF Good
  <2>1. /\ \A k \in 1 .. n : k = 1 => k \in H
        /\ \A i \in H : \A k \in 1 .. n : k = i + 1 => k \in H
    BY <1>5, <1>6, <1>8
  <2> QED
    BY <1>4, <1>8, <2>1, InductionUpTo
<1> QED
  BY <1>4, <1>7, <1>8

\* Sequences that are those of a longer list up to the j-th, of which they have
\* the beginning, and are empty after it.
Starts(S, s, t) == \E v \in Seq(S) : t = s \o v
Beginning(S, n, m, f, g, j) ==
  /\ n \in Nat /\ m \in Nat /\ n <= m /\ j \in Nat
  /\ f \in [1 .. n -> Seq(S)] /\ g \in [1 .. m -> Seq(S)]
  /\ \A i \in 1 .. n : /\ i < j => f[i] = g[i]
                       /\ i = j => Starts(S, f[i], g[i])
                       /\ i > j => f[i] = << >>

LEMMA FlattenBegins ==
  ASSUME NEW S, NEW n, NEW m, NEW f, NEW g, NEW j, Beginning(S, n, m, f, g, j)
  PROVE  Starts(S, FlattenSeq(f), FlattenSeq(g))
<1>18. /\ n \in Nat /\ m \in Nat /\ n <= m /\ j \in Nat
       /\ f \in [1 .. n -> Seq(S)] /\ g \in [1 .. m -> Seq(S)]
  BY DEF Beginning
<1> SUFFICES ASSUME n \in Nat, m \in Nat, n <= m, j \in Nat,
                    f \in [1 .. n -> Seq(S)], g \in [1 .. m -> Seq(S)]
             PROVE  \E v \in Seq(S) : FlattenSeq(g) = FlattenSeq(f) \o v
  BY <1>18 DEF Starts
<1> DEFINE h == [i \in 1 .. m |-> IF i <= n THEN f[i] ELSE << >>]
           F == Joints(h, m)
           G == Joints(g, m)
           Begun(k) == \E v \in Seq(S) : G[k] = F[k] \o v
           Good(k) == /\ k < j /\ k <= n => G[k] = F[k]
                      /\ Begun(k)
                      /\ k >= n /\ n > 0 => F[k] = FlattenSeq(f)
                      /\ n = 0 => F[k] = << >>
           H == {k \in 1 .. m : Good(k)}
<1>15. \A i \in 1 .. n : /\ i < j => f[i] = g[i]
                         /\ i = j => \E v \in Seq(S) : g[i] = f[i] \o v
                         /\ i > j => f[i] = << >>
  BY DEF Beginning, Starts
<1>16. \A i \in 1 .. n : i < j => f[i] = g[i]
  BY DEF Beginning
<1>17. ASSUME NEW a \in Seq(S), NEW b \in Seq(S), NEW c \in Seq(S)
       PROVE  (a \o b) \o c = a \o (b \o c)
  BY Joins
<1>0. << >> \in Seq(S)
  OBVIOUS
<1>1. /\ h \in [1 .. m -> Seq(S)]
      /\ \A i \in 1 .. m : (i <= n => h[i] = f[i]) /\ (i > n => h[i] = << >>)
  BY <1>0
<1> HIDE DEF h
<1>2. \A k \in 1 .. m : F[k] \in Seq(S) /\ G[k] \in Seq(S)
  BY <1>1, FlattenIs
<1>3. \A k \in 1 .. m : /\ k = 1 => F[k] = h[k] /\ G[k] = g[k]
                        /\ \A i \in 1 .. m : k = i + 1 =>
                              F[k] = F[i] \o h[k] /\ G[k] = G[i] \o g[k]
  <2>1. \A k \in 1 .. m : /\ k = 1 => F[k] = h[k]
                          /\ \A i \in 1 .. m : k = i + 1 => F[k] = F[i] \o h[k]
    BY <1>1, JointsNext
  <2>2. \A k \in 1 .. m : /\ k = 1 => G[k] = g[k]
                          /\ \A i \in 1 .. m : k = i + 1 => G[k] = G[i] \o g[k]
    BY JointsNext
  <2> HIDE DEF F, G
  <2> QED
    BY <2>1, <2>2
<1>4. \A k \in 1 .. m : h[k] \in Seq(S) /\ g[k] \in Seq(S)
  BY <1>1
<1>5. n > 0 => FlattenSeq(f) = F[n]
  <2> SUFFICES ASSUME n > 0 PROVE FlattenSeq(f) = F[n]
    OBVIOUS
  <2>1. BeginAlike(S, n, f, h)
    BY <1>1 DEF BeginAlike
  <2>2. n \in 1 .. n
    OBVIOUS
  <2>3. Joints(h, m)[n] = Joints(f, n)[n]
    BY <2>1, <2>2, JointsAgree
  <2> QED
    BY <2>3, FlattenIs
<1>6. FlattenSeq(f) \in Seq(S) /\ (n = 0 => FlattenSeq(f) = << >>)
  BY FlattenIs
<1>7. /\ m > 0 => FlattenSeq(g) = G[m]
      /\ m = 0 => FlattenSeq(g) = << >>
  BY FlattenIs
<1>13. H \in SUBSET (1 .. m) /\ \A k \in 1 .. m : k \in H <=> Good(k)
  <2> HIDE DEF Good
  <2> QED
    OBVIOUS
<1> HIDE DEF F, G, H, Begun
<1>8. ASSUME NEW k \in 1 .. m, k = 1 PROVE Good(k)
  <2>1. F[k] = h[k] /\ G[k] = g[k]
    BY <1>3, <1>8
  <2>2. PICK b \in Seq(S) : b = g[k]
    BY <1>4
  <2>3. << >> \o b = b /\ b \o << >> = b
    BY Joins
  <2>4. CASE n = 0
    <3>1. h[k] = << >>
      BY <1>1, <1>8, <2>4
    <3>2. Begun(k)
      BY <2>1, <2>2, <2>3, <3>1, Zenon DEF Begun
    <3> QED
      BY <2>1, <2>4, <3>1, <3>2
  <2>5. CASE n > 0
    <3>1. h[k] = f[k] /\ k \in 1 .. n
      BY <1>1, <1>8, <2>5
    <3>2. Begun(k)
      <4>1. CASE k < j
        <5>1. G[k] = b /\ F[k] = b
          BY <1>15, <2>1, <2>2, <3>1, <4>1
        <5> QED
          BY <1>0, <2>3, <5>1, Zenon DEF Begun
      <4>2. CASE k = j
        BY <1>15, <2>1, <3>1, <4>2 DEF Begun
      <4>3. CASE k > j
        <5>1. G[k] = b /\ F[k] = << >>
          BY <1>15, <2>1, <2>2, <3>1, <4>3
        <5> QED
          BY <2>3, <5>1, Zenon DEF Begun
      <4>4. k < j \/ k = j \/ k > j
        OBVIOUS
      <4> QED
        BY <4>1, <4>2, <4>3, <4>4, Zenon
    <3>3. k < j => G[k] = F[k]
      BY <1>15, <2>1, <3>1
    <3>4. k >= n => F[k] = FlattenSeq(f)
      <4>1. k >= n => k = n
        BY <1>8, <2>5
      <4> QED
        BY <1>5, <2>5, <4>1
    <3> QED
      BY <2>5, <3>2, <3>3, <3>4
  <2> QED
    BY <2>4, <2>5
<1>9. ASSUME NEW i \in H, NEW k \in 1 .. m, k = i + 1 PROVE Good(k)
  <2>1. F[k] = F[i] \o h[k] /\ G[k] = G[i] \o g[k] /\ i \in 1 .. m
    BY <1>3, <1>9, <1>13
  <2>2. PICK a \in Seq(S), b \in Seq(S), c \in Seq(S), d \in Seq(S) :
          a = F[i] /\ b = h[k] /\ c = g[k] /\ G[i] = a \o d /\ d = d
    <3>1. PICK v \in Seq(S) : G[i] = F[i] \o v
      <4>1. Begun(i)
        BY <1>13, <2>1
      <4> QED
        BY <4>1 DEF Begun
    <3>2. F[i] \in Seq(S) /\ h[k] \in Seq(S) /\ g[k] \in Seq(S)
      BY <1>2, <1>4, <2>1
    <3> QED
      BY <3>1, <3>2, Zenon
  <2>3. F[k] = a \o b /\ G[k] = (a \o d) \o c
    BY <2>1, <2>2, Zenon
  <2>4. /\ i < j /\ i <= n => a = G[i]
        /\ i >= n /\ n > 0 => a = FlattenSeq(f)
        /\ n = 0 => a = << >>
    BY <1>13, <2>1, <2>2
  <2>9. b = << >> => F[k] = a /\ G[k] = a \o (d \o c) /\ Begun(k)
    <3>1. a \o << >> = a
      BY Joins
    <3>2. (a \o d) \o c = a \o (d \o c) /\ d \o c \in Seq(S)
      BY Joins
    <3> QED
      BY <2>3, <3>1, <3>2, Zenon DEF Begun
  <2>5. CASE k > n
    <3>1. b = << >>
      BY <1>1, <2>2, <2>5
    <3>2. F[k] = a /\ G[k] = a \o (d \o c) /\ Begun(k)
      BY <2>3, <3>1, <2>9
    <3>3. i >= n /\ ~(k <= n)
      BY <1>9, <2>1, <2>5
    <3> QED
      BY <2>4, <2>5, <3>2, <3>3
  <2>6. CASE k <= n
    <3>1. b = f[k] /\ k \in 1 .. n /\ i <= n /\ n > 0 /\ i < n
      BY <1>1, <1>9, <2>1, <2>2, <2>6
    <3>2. k >= n => F[k] = FlattenSeq(f)
      <4>1. k >= n => k = n
        BY <2>6
      <4> QED
        BY <1>5, <3>1, <4>1
    <3>3. CASE k < j
      <4>1. i < j /\ g[k] = f[k]
        BY <1>9, <1>16, <2>1, <3>1, <3>3
      <4>2. G[k] = a \o b /\ F[k] = a \o b
        BY <2>1, <2>2, <2>4, <3>1, <4>1
      <4>3. a \o b \in Seq(S) /\ (a \o b) \o << >> = a \o b
        <5>1. a \o b \in Seq(S)
          BY Joins
        <5> QED
          BY <5>1, Joins
      <4>4. Begun(k)
        BY <1>0, <4>2, <4>3, Zenon DEF Begun
      <4> QED
        BY <3>1, <3>2, <4>2, <4>4
    <3>4. CASE k = j
      <4>1. i < j /\ ~(k < j)
        BY <1>9, <2>1, <3>4
      <4>2. PICK u \in Seq(S) : c = b \o u
        BY <1>15, <2>2, <3>1, <3>4
      <4>3. G[k] = a \o (b \o u)
        BY <2>1, <2>2, <2>4, <3>1, <4>1, <4>2
      <4>4. Begun(k)
        <5>1. (a \o b) \o u = a \o (b \o u)
          BY <1>17
        <5> QED
          BY <2>3, <4>3, <5>1, Zenon DEF Begun
      <4> QED
        BY <3>1, <3>2, <4>1, <4>4
    <3>5. CASE k > j
      <4>1. b = << >> /\ ~(k < j)
        BY <1>15, <3>1, <3>5
      <4>2. F[k] = a /\ G[k] = a \o (d \o c) /\ Begun(k)
        BY <2>3, <4>1, <2>9
      <4> QED
        BY <3>1, <3>2, <4>1, <4>2
    <3>6. k < j \/ k = j \/ k > j
      OBVIOUS
    <3> QED
      BY <3>3, <3>4, <3>5, <3>6
  <2> QED
    BY <2>5, <2>6
<1>10. \A k \in 1 .. m : k \in H
  <2> HIDE DEF Good
  <2>1. /\ \A k \in 1 .. m : k = 1 => k \in H
        /\ \A i \in H : \A k \in 1 .. m : k = i + 1 => k \in H
    BY <1>8, <1>9, <1>13
  <2> QED
    BY <1>13, <2>1, InductionUpTo
<1>11. CASE m = 0
  <2>1. n = 0 /\ FlattenSeq(f) = << >> /\ FlattenSeq(g) = << >>
    BY <1>6, <1>7, <1>11
  <2>2. << >> \o << >> = << >>
    OBVIOUS
  <2> QED
    BY <1>0, <2>1, <2>2, Zenon
<1>12. CASE m > 0
  <2>1. Good(m)
    <3>1. m \in 1 .. m
      BY <1>12
    <3> HIDE DEF Good
    <3> QED
      BY <1>10, <1>13, <3>1
  <2>2. F[m] = FlattenSeq(f)
    BY <1>6, <2>1
  <2>3. \E v \in Seq(S) : G[m] = F[m] \o v
    BY <2>1 DEF Begun
  <2> QED
    BY <1>7, <1>12, <2>2, <2>3
<1>14. m = 0 \/ m > 0
  OBVIOUS
<1> QED
  BY <1>11, <1>12, <1>14
-----------------------------------------------------------------------------
(* What the bridge has been told to pass on.                               *)

Given(d) ==
  IF d = kI2C_send_MIDI_message THEN midiSent \o midi ELSE busSent \o bus
Left(d) == IF passing # << >> /\ Head(passing) = d THEN Tail(passing) ELSE << >>

\* The bytes of commands, without the first, and those executed of transfer i
\* for destination d; then of all transfers, executed and asked for.
Bytes(cs) == FlattenSeq([k \in DOMAIN cs |-> Tail(cs[k])])
Part(d, i, cs) ==
  IF transfers[i] # << >> /\ transfers[i][1] = d THEN Bytes(cs) ELSE << >>
Parts(d) == [i \in DOMAIN transfers |-> Part(d, i, executed[i])]
Wants(d) == [i \in DOMAIN transfers |-> Part(d, i, Meant(transfers[i]))]

\* Transfers come in the order they were sent; one without bytes brings none;
\* nothing of one behind another was executed.
InOrder ==
  /\ \A k \in 1 .. Ahead : \A l \in 1 .. Ahead : k <= l => Coming(k)[2] <= Coming(l)[2]
  /\ \A k \in 1 .. Ahead : transfers[Coming(k)[2]] = << >> => Coming(k)[1] < 0
  /\ \A k \in 1 .. Ahead : \A i \in 1 .. Len(transfers) :
       i > Coming(k)[2] => executed[i] = << >>

Lines ==
  /\ midi \in Seq(Byte) /\ midiSent \in Seq(Byte)
  /\ bus \in Seq(Byte) /\ busSent \in Seq(Byte) /\ passing \in Seq(Byte)
  /\ passing # << >> => Len(passing) > 1 /\ Head(passing) \in Message

\* What was executed was given, but for what is still being passed on.
Owed == \A d \in Message : Given(d) \o Left(d) = FlattenSeq(Parts(d))

PassInv == cut = {} => InOrder /\ Lines /\ Owed

Full == Seq(Byte) \ {<< >>}

LEMMA BytesType ==
  ASSUME NEW cs \in Seq(Full)
  PROVE  /\ DOMAIN cs = 1 .. Len(cs) /\ Len(cs) \in Nat
         /\ [k \in DOMAIN cs |-> Tail(cs[k])] \in [1 .. Len(cs) -> Seq(Byte)]
         /\ Bytes(cs) \in Seq(Byte)
<1>1. cs \in [1 .. Len(cs) -> Full] /\ Len(cs) \in Nat /\ DOMAIN cs = 1 .. Len(cs)
  BY SeqIsFunction
<1>2. \A c \in Full : Tail(c) \in Seq(Byte)
  BY TailOf DEF Full
<1>3. [k \in DOMAIN cs |-> Tail(cs[k])] \in [1 .. Len(cs) -> Seq(Byte)]
  BY <1>1, <1>2
<1>4. Bytes(cs) \in Seq(Byte)
  <2> DEFINE f == [k \in DOMAIN cs |-> Tail(cs[k])]
             n == Len(cs)
  <2>1. f \in [1 .. n -> Seq(Byte)] /\ n \in Nat
    BY <1>1, <1>3
  <2> HIDE DEF f, n
  <2>2. FlattenSeq(f) \in Seq(Byte)
    BY <2>1, FlattenIs
  <2> QED
    BY <2>2 DEF Bytes, f
<1> QED
  BY <1>1, <1>3, <1>4

LEMMA NoBytes == Bytes(<< >>) = << >>
<1>1. [k \in DOMAIN << >> |-> Tail(<< >>[k])] = << >>
  OBVIOUS
<1> QED
  BY <1>1, NothingJoined DEF Bytes

\* One more command.
LEMMA BytesAppend ==
  ASSUME NEW cs \in Seq(Full), NEW c \in Full
  PROVE  /\ Append(cs, c) \in Seq(Full)
         /\ Bytes(Append(cs, c)) = Bytes(cs) \o Tail(c)
<1> DEFINE n == Len(cs)
           ds == Append(cs, c)
           f == [k \in DOMAIN cs |-> Tail(cs[k])]
           g == [k \in DOMAIN ds |-> Tail(ds[k])]
<1>1. /\ ds \in Seq(Full) /\ Len(ds) = n + 1 /\ ds[n + 1] = c /\ n \in Nat
      /\ \A k \in 1 .. n : ds[k] = cs[k]
  BY AppendTo
<1>2. f \in [1 .. n -> Seq(Byte)] /\ DOMAIN cs = 1 .. n
  BY BytesType
<1> HIDE DEF ds
<1>3. g \in [1 .. n + 1 -> Seq(Byte)] /\ DOMAIN ds = 1 .. n + 1
  BY <1>1, BytesType
<1>4. n + 1 \in 1 .. n + 1 /\ \A k \in 1 .. n : k \in 1 .. n + 1
  BY <1>1
<1>5. g[n + 1] = Tail(c) /\ \A k \in 1 .. n : g[k] = f[k]
  <2>1. g[n + 1] = Tail(c)
    BY <1>1, <1>3, <1>4, Zenon
  <2>2. \A k \in 1 .. n : g[k] = f[k]
    BY <1>1, <1>2, <1>3, <1>4, Zenon
  <2> QED
    BY <2>1, <2>2
<1>6. Bytes(cs) = FlattenSeq(f) /\ Bytes(ds) = FlattenSeq(g)
  BY DEF Bytes
<1> HIDE DEF f, g, n
<1>7. FlattenSeq(g) = FlattenSeq(f) \o g[n + 1]
  BY <1>1, <1>2, <1>3, <1>5, FlattenNext
<1> QED
  BY <1>1, <1>5, <1>6, <1>7 DEF ds

\* The first of some commands.
LEMMA BytesBegin ==
  ASSUME NEW cs \in Seq(Full), NEW ds \in Seq(Full), IsPrefix(cs, ds)
  PROVE  Starts(Byte, Bytes(cs), Bytes(ds))
<1> DEFINE n == Len(cs)
           m == Len(ds)
           f == [k \in DOMAIN cs |-> Tail(cs[k])]
           g == [k \in DOMAIN ds |-> Tail(ds[k])]
<1>1. /\ f \in [1 .. n -> Seq(Byte)] /\ DOMAIN cs = 1 .. n /\ n \in Nat
      /\ g \in [1 .. m -> Seq(Byte)] /\ DOMAIN ds = 1 .. m /\ m \in Nat
  BY BytesType
<1>2. PICK v \in Seq(Full) : ds = cs \o v
  BY PrefixIs
<1>3. n <= m /\ \A k \in 1 .. n : ds[k] = cs[k]
  BY <1>2, Joined
<1>4. \A k \in 1 .. n : f[k] = g[k]
  <2>1. \A k \in 1 .. n : k \in 1 .. m
    BY <1>1, <1>3
  <2> QED
    BY <1>1, <1>3, <2>1, Zenon
<1>5. Bytes(cs) = FlattenSeq(f) /\ Bytes(ds) = FlattenSeq(g)
  BY DEF Bytes
<1> HIDE DEF f, g, n, m
<1>6. PICK j \in Nat : j = n + 1
  BY <1>1
<1>7. Beginning(Byte, n, m, f, g, j)
  BY <1>1, <1>3, <1>4, <1>6 DEF Beginning
<1>8. Starts(Byte, FlattenSeq(f), FlattenSeq(g))
  BY <1>7, FlattenBegins
<1> QED
  BY <1>5, <1>8

\* What was executed of a transfer the ring took whole, and what was meant.
LEMMA CommandsFull ==
  ASSUME NEW t \in Seq(Byte), t # << >>, NEW j \in Nat, j <= Len(t)
  PROVE  Commands(t, j) \in Seq(Full) /\ Meant(t) \in Seq(Full)
<1>1. ASSUME NEW i \in Nat, i <= Len(t) PROVE Commands(t, i) \in Seq(Full)
  <2> DEFINE c == Commands(t, i)
             n == Count(t, i)
  <2>1. c \in Seq(Seq(Byte)) /\ Len(c) = n /\ n \in Nat
    BY <1>1, CommandsAre
  <2>2. \A k \in 1 .. n :
          c[k] = Append(SubSeq(t, 1, Size(t) - 1), t[Size(t) + k - 1])
    BY <1>1, CommandsAre
  <2>3. \A a, e : Append(a, e) # << >>
    OBVIOUS
  <2> HIDE DEF c, n
  <2>4. c \in [1 .. n -> Full]
    <3>1. c \in [1 .. n -> Seq(Byte)]
      BY <2>1, SeqIsFunction
    <3>2. \A k \in 1 .. n : c[k] # << >>
      BY <2>2, <2>3, Zenon
    <3> QED
      BY <3>1, <3>2 DEF Full
  <2>5. c \in Seq(Full)
    BY <2>1, <2>4, FunctionIsSeq
  <2> QED
    BY <2>5 DEF c
<1>2. Len(t) \in Nat /\ Len(t) <= Len(t)
  OBVIOUS
<1>3. Meant(t) = Commands(t, Len(t))
  BY <1>2, InStepMeans
<1> QED
  BY <1>1, <1>2, <1>3

LEMMA ExecutedFull ==
  ASSUME ExecInv, NEW i \in 1 .. Len(transfers), transfers[i] # << >>, i \notin cut
  PROVE  /\ executed[i] \in Seq(Full) /\ Meant(transfers[i]) \in Seq(Full)
         /\ transfers[i] \in Seq(Byte) /\ transfers[i][1] \in Byte
<1> DEFINE t == transfers[i]
<1>1. PICK c \in 0 .. Total(i), o \in 0 .. Ahead :
        Place(i, c, o) /\ Parsed(i, c) /\ (c > 0 => o = 0)
  BY DEF ExecInv, InStep
<1>2. t \in Seq(Byte) /\ t # << >> /\ Len(t) \in Nat /\ Total(i) = Len(t) + 1
  <2>1. transfers[i] \in Seq(Byte)
    BY AheadType DEF ExecInv
  <2> QED
    BY <2>1, SeqIsFunction DEF Total
<1>3. executed[i] = << >> \/ (c > 0 /\ executed[i] = Commands(t, c - 1))
  BY <1>1 DEF Parsed
<1>4. c > 0 => c - 1 \in Nat /\ c - 1 <= Len(t)
  BY <1>1, <1>2
<1>5. 0 \in Nat /\ 0 <= Len(t) /\ << >> \in Seq(Full)
  BY <1>2
<1>6. t[1] \in Byte
  BY <1>2
<1> HIDE DEF t
<1>7. executed[i] \in Seq(Full) /\ Meant(t) \in Seq(Full)
  BY <1>2, <1>3, <1>4, <1>5, CommandsFull
<1> QED
  BY <1>2, <1>6, <1>7 DEF t

\* The bytes of a transfer's commands are bytes.
LEMMA PartType ==
  ASSUME ExecInv, cut = {}, NEW d, NEW i \in 1 .. Len(transfers)
  PROVE  /\ Part(d, i, executed[i]) \in Seq(Byte)
         /\ Part(d, i, Meant(transfers[i])) \in Seq(Byte)
<1>1. CASE transfers[i] = << >>
  <2>1. << >> \in Seq(Byte)
    OBVIOUS
  <2> QED
    BY <1>1, <2>1 DEF Part
<1>2. CASE transfers[i] # << >>
  <2>1. executed[i] \in Seq(Full) /\ Meant(transfers[i]) \in Seq(Full)
    BY <1>2, ExecutedFull
  <2>2. Bytes(executed[i]) \in Seq(Byte) /\ Bytes(Meant(transfers[i])) \in Seq(Byte)
    BY <2>1, BytesType
  <2>3. << >> \in Seq(Byte)
    OBVIOUS
  <2> QED
    BY <2>2, <2>3 DEF Part
<1> QED
  BY <1>1, <1>2

LEMMA PartsType ==
  ASSUME ExecInv, cut = {}, NEW d
  PROVE  /\ Len(transfers) \in Nat /\ DOMAIN transfers = 1 .. Len(transfers)
         /\ Parts(d) \in [1 .. Len(transfers) -> Seq(Byte)]
         /\ Wants(d) \in [1 .. Len(transfers) -> Seq(Byte)]
         /\ FlattenSeq(Parts(d)) \in Seq(Byte)
         /\ FlattenSeq(Wants(d)) \in Seq(Byte)
         /\ \A i \in 1 .. Len(transfers) :
              /\ Parts(d)[i] = Part(d, i, executed[i])
              /\ Wants(d)[i] = Part(d, i, Meant(transfers[i]))
<1>1. Len(transfers) \in Nat /\ DOMAIN transfers = 1 .. Len(transfers)
  BY SeqIsFunction DEF ExecInv, TypeOK
<1>2. /\ Parts(d) \in [1 .. Len(transfers) -> Seq(Byte)]
      /\ Wants(d) \in [1 .. Len(transfers) -> Seq(Byte)]
      /\ \A i \in 1 .. Len(transfers) :
           /\ Parts(d)[i] = Part(d, i, executed[i])
           /\ Wants(d)[i] = Part(d, i, Meant(transfers[i]))
  BY <1>1, PartType, Zenon DEF Parts, Wants
<1>3. FlattenSeq(Parts(d)) \in Seq(Byte) /\ FlattenSeq(Wants(d)) \in Seq(Byte)
  BY <1>1, <1>2, FlattenIs
<1> QED
  BY <1>1, <1>2, <1>3

\* Nothing is lost by a step after which nothing was lost.
LEMMA CutGrows == TypeOK /\ [Next]_vars /\ cut' = {} => cut = {}
BY DEF Next, MasterWrites, MasterReads, Start, Interrupt, Enqueue, ProcessI2CIn,
       Prepare, vars, history

LEMMA ComingType ==
  ASSUME TypeOK, NEW k \in 1 .. Ahead
  PROVE  Coming(k)[2] \in 1 .. Len(transfers)
<1>1. Len(rx) \in Nat /\ Len(todo) \in Nat /\ Len(transfers) \in Nat
      /\ Ahead = Len(rx) + Len(todo)
  BY AheadType
<1>2. CASE k <= Len(rx)
  <2> HIDE DEF Event
  <2>1. k \in 1 .. Len(rx)
    BY <1>1, <1>2
  <2>2. rx[k] \in Event \X (1 .. Len(transfers))
    BY <2>1 DEF TypeOK
  <2> QED
    BY <1>2, <2>2 DEF Coming
<1>3. CASE ~(k <= Len(rx))
  <2>1. Len(todo) > 0
    BY <1>1, <1>3
  <2>2. todo # << >>
    BY <2>1
  <2>3. Len(transfers) > 0
    BY <2>2 DEF TypeOK
  <2> QED
    BY <1>1, <1>3, <2>3 DEF Coming
<1> QED
  BY <1>2, <1>3
-----------------------------------------------------------------------------
(* The order of what is to come.                                           *)

LEMMA OrderStart ==
  ASSUME TypeOK, InOrder, NEW what \in Seq(Byte), NEW events \in Seq(Event),
         Start(what, events),
         what = << >> => \A p \in 1 .. Len(events) : events[p] < 0
  PROVE  InOrder'
<1> DEFINE n == Len(transfers)
           r == Len(rx)
<1>1. /\ todo = << >> /\ Len(todo) = 0 /\ todo' = events
      /\ transfers' = Append(transfers, what)
      /\ executed' = Append(executed, << >>) /\ rx' = rx
  BY DEF Start
<1>2. n \in Nat /\ r \in Nat /\ Ahead = r
  BY <1>1, AheadType
<1>3. /\ Len(transfers') = n + 1 /\ transfers'[n + 1] = what
      /\ \A m \in 1 .. n : transfers'[m] = transfers[m]
  BY <1>1, AppendTo DEF TypeOK
<1>4. /\ executed'[n + 1] = << >>
      /\ \A m \in 1 .. n : executed'[m] = executed[m]
  <2>1. executed \in Seq(Seq(Seq(Byte))) /\ Len(executed) = n
    BY DEF TypeOK
  <2>2. << >> \in Seq(Seq(Byte))
    OBVIOUS
  <2> QED
    BY <1>1, <2>1, <2>2, AppendTo
<1>5. Len(events) \in Nat /\ Ahead' = r + Len(events)
  <2>1. Len(events) \in Nat
    BY SeqIsFunction
  <2> QED
    BY <1>1, <2>1 DEF Ahead
<1>6. /\ \A k \in 1 .. r : Coming(k)' = Coming(k)
      /\ \A k \in r + 1 .. r + Len(events) :
           Coming(k)' = <<events[k - r], n + 1>>
  BY <1>1, <1>2, <1>3, <1>5 DEF Coming
<1>7. \A k \in 1 .. r : Coming(k)[2] \in 1 .. n
  BY <1>2, ComingType
<1>8. \A k \in 1 .. Ahead' : k \in 1 .. r \/ k \in r + 1 .. r + Len(events)
  BY <1>2, <1>5
<1>9. ASSUME NEW k \in 1 .. Ahead', NEW l \in 1 .. Ahead', k <= l
      PROVE  Coming(k)'[2] <= Coming(l)'[2]
  <2>1. CASE l \in 1 .. r
    <3>1. k \in 1 .. r
      BY <1>2, <1>9, <2>1
    <3>2. Coming(k)[2] <= Coming(l)[2]
      BY <1>2, <1>9, <2>1, <3>1 DEF InOrder
    <3> QED
      BY <1>6, <2>1, <3>1, <3>2
  <2>2. CASE l \in r + 1 .. r + Len(events)
    <3>1. Coming(l)'[2] = n + 1
      BY <1>6, <2>2
    <3>2. Coming(k)'[2] \in 1 .. n + 1
      <4>1. CASE k \in 1 .. r
        BY <1>2, <1>6, <1>7, <4>1
      <4>2. CASE k \in r + 1 .. r + Len(events)
        BY <1>2, <1>6, <4>2
      <4> QED
        BY <1>8, <4>1, <4>2
    <3> QED
      BY <1>2, <3>1, <3>2
  <2> QED
    BY <1>8, <2>1, <2>2
<1>10. ASSUME NEW k \in 1 .. Ahead', transfers'[Coming(k)'[2]] = << >>
       PROVE  Coming(k)'[1] < 0
  <2>1. CASE k \in 1 .. r
    <3>1. Coming(k)' = Coming(k) /\ Coming(k)[2] \in 1 .. n
      BY <1>6, <1>7, <2>1
    <3>2. transfers[Coming(k)[2]] = << >>
      BY <1>3, <1>10, <3>1
    <3> QED
      BY <1>2, <2>1, <3>1, <3>2 DEF InOrder
  <2>2. CASE k \in r + 1 .. r + Len(events)
    <3>1. Coming(k)' = <<events[k - r], n + 1>> /\ k - r \in 1 .. Len(events)
      BY <1>2, <1>5, <1>6, <2>2
    <3>2. what = << >>
      BY <1>3, <1>10, <3>1
    <3> QED
      BY <3>1, <3>2
  <2> QED
    BY <1>8, <2>1, <2>2
<1>11. ASSUME NEW k \in 1 .. Ahead', NEW i \in 1 .. Len(transfers'), i > Coming(k)'[2]
       PROVE  executed'[i] = << >>
  <2>1. CASE i = n + 1
    BY <1>4, <2>1
  <2>2. CASE i \in 1 .. n
    <3>1. k \in 1 .. r
      <4>1. k \in r + 1 .. r + Len(events) => Coming(k)'[2] = n + 1
        BY <1>6
      <4> QED
        BY <1>2, <1>8, <1>11, <2>2, <4>1
    <3>2. i > Coming(k)[2]
      BY <1>6, <1>11, <3>1
    <3> QED
      BY <1>2, <1>4, <2>2, <3>1, <3>2 DEF InOrder
  <2>3. i = n + 1 \/ i \in 1 .. n
    BY <1>2, <1>3
  <2> QED
    BY <2>1, <2>2, <2>3
<1> QED
  BY <1>9, <1>10, <1>11 DEF InOrder

\* An event moves from the master to the ring.
LEMMA OrderInterrupt ==
  ASSUME TypeOK, InOrder, Interrupt, cut' = {}
  PROVE  InOrder'
<1>1. /\ todo # << >> /\ todo' = Tail(todo) /\ transfers' = transfers
      /\ executed' = executed /\ rx' = Append(rx, <<Head(todo), Len(transfers)>>)
  BY DEF Interrupt, Enqueue
<1>2. Len(rx) \in Nat /\ Len(todo) \in Nat /\ Ahead = Len(rx) + Len(todo)
  BY AheadType
<1>3. /\ Len(todo') = Len(todo) - 1 /\ Head(todo) = todo[1] /\ Len(todo) > 0
      /\ \A k \in 1 .. Len(todo) - 1 : todo'[k] = todo[k + 1]
      /\ Head(todo) \in Event
  <2> HIDE DEF Event
  <2>1. todo \in Seq(Event)
    BY DEF TypeOK
  <2> QED
    BY <1>1, <2>1, TailOf
<1>4. /\ Len(rx') = Len(rx) + 1 /\ rx'[Len(rx) + 1] = <<Head(todo), Len(transfers)>>
      /\ \A k \in 1 .. Len(rx) : rx'[k] = rx[k]
  <2> HIDE DEF Event
  <2> DEFINE E == Event \X (1 .. Len(transfers))
  <2>1. Len(transfers) \in 1 .. Len(transfers)
    BY <1>1, AheadType DEF TypeOK
  <2>2. rx \in Seq(E) /\ <<Head(todo), Len(transfers)>> \in E
    BY <1>3, <2>1 DEF TypeOK
  <2> HIDE DEF E
  <2> QED
    BY <1>1, <2>2, AppendTo
<1>5. Ahead' = Ahead
  BY <1>2, <1>3, <1>4 DEF Ahead
<1>6. ASSUME NEW k \in 1 .. Ahead PROVE Coming(k)' = Coming(k)
  <2>1. CASE k <= Len(rx)
    BY <1>2, <1>4, <2>1 DEF Coming
  <2>2. CASE k = Len(rx) + 1
    BY <1>2, <1>3, <1>4, <2>2 DEF Coming
  <2>3. CASE k > Len(rx) + 1
    <3>1. PICK q \in 1 .. Len(todo) - 1 : q = k - (Len(rx) + 1) /\ q + 1 = k - Len(rx)
      BY <1>2, <2>3
    <3>2. Coming(k)' = <<todo'[q], Len(transfers)>>
      BY <1>1, <1>2, <1>4, <2>3, <3>1 DEF Coming
    <3>3. Coming(k) = <<todo[q + 1], Len(transfers)>>
      BY <1>2, <2>3, <3>1 DEF Coming
    <3> QED
      BY <1>3, <3>2, <3>3
  <2> QED
    BY <1>2, <2>1, <2>2, <2>3
<1> QED
  BY <1>1, <1>5, <1>6 DEF InOrder

\* The main loop takes the first; what it executes is of that transfer.
LEMMA OrderProcess ==
  ASSUME TypeOK, InOrder, ProcessI2CIn
  PROVE  InOrder'
<1>1. /\ Coming(1) = Head(rx) /\ Ahead > 0 /\ Ahead' = Ahead - 1
      /\ \A k \in 1 .. Ahead - 1 : Coming(k)' = Coming(k + 1)
      /\ Head(rx)[2] \in 1 .. Len(transfers)
  BY ComingNext
<1>2. transfers' = transfers
  BY DEF ProcessI2CIn
<1>3. Ahead \in Nat /\ Len(transfers) \in Nat
  BY AheadType
<1>4. \A i \in 1 .. Len(transfers) : i # Coming(1)[2] => executed'[i] = executed[i]
  <2>1. executed' = executed
        \/ \E e : executed' = [executed EXCEPT ![Head(rx)[2]] = e]
    BY DEF ProcessI2CIn, Framed, Ignored, Taken
  <2>2. executed \in Seq(Seq(Seq(Byte))) /\ Len(executed) = Len(transfers)
    BY DEF TypeOK
  <2> QED
    BY <1>1, <2>1, <2>2
<1>5. \A k \in 1 .. Ahead - 1 : k + 1 \in 1 .. Ahead /\ 1 \in 1 .. Ahead /\ 1 <= k + 1
  BY <1>3
<1>6. ASSUME NEW k \in 1 .. Ahead', NEW l \in 1 .. Ahead', k <= l
      PROVE  Coming(k)'[2] <= Coming(l)'[2]
  <2>1. k + 1 <= l + 1 /\ k + 1 \in 1 .. Ahead /\ l + 1 \in 1 .. Ahead
    BY <1>1, <1>3, <1>6
  <2>2. Coming(k + 1)[2] <= Coming(l + 1)[2]
    BY <2>1 DEF InOrder
  <2> QED
    BY <1>1, <2>2
<1>7. ASSUME NEW k \in 1 .. Ahead', transfers'[Coming(k)'[2]] = << >>
      PROVE  Coming(k)'[1] < 0
  <2>1. Coming(k)' = Coming(k + 1) /\ k + 1 \in 1 .. Ahead
    BY <1>1, <1>5
  <2> QED
    BY <1>2, <1>7, <2>1 DEF InOrder
<1>8. ASSUME NEW k \in 1 .. Ahead', NEW i \in 1 .. Len(transfers'), i > Coming(k)'[2]
      PROVE  executed'[i] = << >>
  <2>1. Coming(k)' = Coming(k + 1) /\ k + 1 \in 1 .. Ahead /\ 1 \in 1 .. Ahead
        /\ 1 <= k + 1
    BY <1>1, <1>5
  <2>2. Coming(1)[2] <= Coming(k + 1)[2]
    BY <2>1 DEF InOrder
  <2>3. /\ Coming(1)[2] \in 1 .. Len(transfers) /\ Coming(k + 1)[2] \in 1 .. Len(transfers)
    BY <2>1, ComingType
  <2>4. i # Coming(1)[2] /\ i \in 1 .. Len(transfers)
    BY <1>2, <1>3, <1>8, <2>1, <2>2, <2>3
  <2>5. executed[i] = << >>
    BY <1>8, <2>1, <2>4 DEF InOrder
  <2> QED
    BY <1>4, <2>4, <2>5
<1> QED
  BY <1>6, <1>7, <1>8 DEF InOrder

LEMMA OrderKept ==
  ASSUME InOrder, UNCHANGED <<todo, rx, transfers, executed>>
  PROVE  InOrder'
<1>1. Ahead' = Ahead /\ \A k : Coming(k)' = Coming(k)
  BY DEF Ahead, Coming
<1> QED
  BY <1>1 DEF InOrder

LEMMA OrderNext == TypeOK /\ InOrder /\ [Next]_vars /\ cut' = {} => InOrder'
<1> SUFFICES ASSUME TypeOK, InOrder, [Next]_vars, cut' = {} PROVE InOrder'
  OBVIOUS
<1>1. ASSUME NEW t \in Transfer, MasterWrites(t) PROVE InOrder'
  <2> DEFINE events == <<Address>> \o t
  <2>1. t \in Seq(Byte)
    BY I2CAssumption DEF Byte
  <2>2. events \in Seq(Event) /\ Len(events) = Len(t) + 1 /\ events[1] = Address
    BY <2>1, WriteEvents
  <2>3. Start(t, events)
    BY <1>1 DEF MasterWrites
  <2> HIDE DEF events
  <2>4. t = << >> => \A p \in 1 .. Len(events) : events[p] < 0
    <3>1. t = << >> => \A p \in 1 .. Len(events) : p = 1
      BY <2>2
    <3> QED
      BY <2>2, <3>1 DEF Address
  <2> QED
    BY <2>1, <2>2, <2>3, <2>4, OrderStart
<1>2. ASSUME NEW n \in 1 .. MaxRead, MasterReads(n) PROVE InOrder'
  <2>1. n \in Nat /\ << >> \in Seq(Byte)
    BY I2CAssumption
  <2> DEFINE events == [k \in 1 .. n |-> ReadMark]
  <2>2. events \in Seq(Event) /\ Len(events) = n
    BY <2>1, ReadEvents
  <2>3. Start(<< >>, events)
    BY <1>2 DEF MasterReads
  <2>4. \A p \in 1 .. n : events[p] < 0
    BY DEF ReadMark
  <2> HIDE DEF events
  <2> QED
    BY <2>1, <2>2, <2>3, <2>4, OrderStart
<1>3. CASE Interrupt
  BY <1>3, OrderInterrupt
<1>4. CASE ProcessI2CIn
  BY <1>4, OrderProcess
<1>5. CASE Prepare
  BY <1>5, OrderKept DEF Prepare
<1>6. CASE UNCHANGED vars
  BY <1>6, OrderKept DEF vars, history
<1> QED
  BY <1>1, <1>2, <1>3, <1>4, <1>5, <1>6 DEF Next
-----------------------------------------------------------------------------
(* What is executed is passed on.                                          *)

\* The command that is executed, when one is: it begins with the first byte of
\* its transfer, and a message has more than that.
LEMMA TakenIs ==
  ASSUME ExecInv, cut = {}, InOrder, ProcessI2CIn, executed' # executed
  PROVE  LET j == Coming(1)[2] IN
         /\ j \in 1 .. Len(transfers) /\ transfers[j] # << >> /\ j = Head(rx)[2]
         /\ i2cMsg'[1] = transfers[j][1]
         /\ \E cmd \in Full :
              /\ executed' = [executed EXCEPT ![j] = Append(executed[j], cmd)]
              /\ transfers[j][1] \in Message =>
                   Len(cmd) > 1 /\ Head(cmd) = transfers[j][1]
<1> DEFINE j == Coming(1)[2]
           t == transfers[j]
           b == Head(rx)[1]
<1>1. /\ Coming(1) = Head(rx) /\ Ahead > 0
      /\ j \in 1 .. Len(transfers) /\ 1 \in 1 .. Ahead /\ Ahead \in Nat
  BY ComingNext, AheadType DEF ExecInv
<1>2. /\ Taken /\ b >= 0 /\ i2cState # "idle" /\ Completes(b)
      /\ i2cMsg' = Msg(b)
      /\ executed' = [executed EXCEPT ![j] = Append(executed[j], Command(Msg(b)))]
  BY <1>1 DEF ProcessI2CIn, Framed, Ignored, Taken, parser, Msg
<1>3. b \in Event /\ b \in Byte
  <2>1. b \in Event
    BY ComingNext DEF ExecInv
  <2> QED
    BY <1>2, <2>1 DEF Event, Address, ReadMark
<1>4. t # << >>
  <2>1. t = << >> => Coming(1)[1] < 0
    BY <1>1 DEF InOrder
  <2>2. ~(Coming(1)[1] < 0)
    <3>1. \A e \in Byte : ~(e < 0)
      BY DEF Byte
    <3>2. Coming(1)[1] \in Byte
      BY <1>1, <1>3, Zenon
    <3> QED
      BY <3>1, <3>2, Zenon
  <2> QED
    BY <2>1, <2>2
<1>5. PICK c \in 0 .. Total(j), o \in 0 .. Ahead :
        Place(j, c, o) /\ Parsed(j, c) /\ (c > 0 => o = 0)
  BY <1>1, <1>4 DEF ExecInv, InStep
<1>6. /\ t \in Seq(Byte) /\ Len(t) \in Nat /\ Total(j) = Len(t) + 1
  <2>1. transfers[j] \in Seq(Byte)
    BY <1>1, AheadType DEF ExecInv
  <2> QED
    BY <2>1, SeqIsFunction DEF Total
<1>7. 1 \in o + 1 .. o + Total(j) - c
  BY <1>1, <1>5 DEF Place
<1>8. o = 0 /\ c < Total(j)
  BY <1>5, <1>6, <1>7
<1>9. b = EventOf(j, c + 1)
  <2>1. Coming(1)[1] = EventOf(j, c + 1 - o)
    BY <1>5, <1>7 DEF Place
  <2>2. c + 1 - o = c + 1
    BY <1>5, <1>8
  <2> QED
    BY <1>1, <2>1, <2>2
<1>10. c > 0
  <2>1. c = 0 => b = Address
    BY <1>9 DEF EventOf
  <2> QED
    BY <1>2, <1>5, <1>6, <2>1 DEF Address
<1>11. PICK q \in Nat : c = q + 1 /\ q = c - 1 /\ q < Len(t)
  <2>1. c - 1 \in Nat /\ c = (c - 1) + 1 /\ c - 1 < Len(t)
    BY <1>5, <1>6, <1>8, <1>10
  <2> QED
    BY <2>1
<1>12. b = t[q + 1]
  <2>1. c + 1 # 1 /\ (c + 1) - 1 = q + 1
    BY <1>5, <1>6, <1>10, <1>11
  <2> QED
    BY <1>9, <2>1 DEF EventOf
<1>13. /\ i2cState = Expected(t, q)
       /\ \A k \in 1 .. Position[i2cState] - 1 : i2cMsg[k] = t[k]
  <2>1. /\ i2cState = Expected(t, c - 1)
        /\ i2cState # "idle" =>
             \A k \in 1 .. Position[i2cState] - 1 : i2cMsg[k] = t[k]
    BY <1>5, <1>8, <1>10 DEF Parsed
  <2> QED
    BY <1>2, <1>11, <2>1
<1>14. i2cMsg \in [1 .. 4 -> Byte]
  BY DEF ExecInv, TypeOK
<1> HIDE DEF j, t, b
<1>15. /\ Command(Msg(b)) = Append(SubSeq(t, 1, Size(t) - 1), b)
       /\ Msg(b)[1] = t[1]
  BY <1>2, <1>6, <1>11, <1>12, <1>13, <1>14, CommandStep
<1>16. /\ Size(t) > 0 /\ Size(t) \in 1 .. 4 /\ q + 1 >= Size(t)
       /\ t[1] \in Message => Size(t) > 1
  <2>1. Size(t) > 0 /\ Size(t) + Count(t, q + 1) - 1 = q + 1
        /\ Count(t, q + 1) = Count(t, q) + 1
    BY <1>2, <1>4, <1>6, <1>11, <1>12, <1>13, StateStep
  <2>2. Size(t) \in 0 .. 4 /\ (t[1] \in Message => Size(t) \in {0, 2, 3, 4})
    BY <1>4, <1>6, SizeIs
  <2>3. Count(t, q) \in Nat
    BY <1>4, <1>6, <1>11, CommandsAre
  <2> QED
    BY <1>11, <2>1, <2>2, <2>3
<1> DEFINE first == SubSeq(t, 1, Size(t) - 1)
<1>17. /\ first \in Seq(Byte) /\ Len(first) = Size(t) - 1
       /\ \A k \in 1 .. Size(t) - 1 : first[k] = t[k]
  <2>1. Size(t) - 1 \in 0 .. Len(t)
    BY <1>6, <1>11, <1>16
  <2> QED
    BY <1>6, <2>1, FirstOf
<1> HIDE DEF first
<1>18. /\ Append(first, b) \in Seq(Byte) /\ Len(Append(first, b)) = Size(t)
       /\ Append(first, b) # << >>
       /\ \A k \in 1 .. Size(t) - 1 : Append(first, b)[k] = t[k]
  <2>1. /\ Append(first, b) \in Seq(Byte) /\ Len(Append(first, b)) = Len(first) + 1
        /\ \A k \in 1 .. Len(first) : Append(first, b)[k] = first[k]
    BY <1>3, <1>17, AppendTo
  <2>2. Len(Append(first, b)) = Size(t)
    BY <1>16, <1>17, <2>1
  <2>3. Append(first, b) # << >>
    OBVIOUS
  <2> QED
    BY <1>17, <2>1, <2>2, <2>3
<1>19. Append(first, b) \in Full
  BY <1>18 DEF Full
<1>20. t[1] \in Message =>
         Len(Append(first, b)) > 1 /\ Head(Append(first, b)) = t[1]
  <2> SUFFICES ASSUME t[1] \in Message
               PROVE  Len(Append(first, b)) > 1 /\ Head(Append(first, b)) = t[1]
    OBVIOUS
  <2>1. 1 \in 1 .. Size(t) - 1
    BY <1>16
  <2>2. Append(first, b)[1] = t[1]
    BY <1>18, <2>1
  <2>3. Head(Append(first, b)) = Append(first, b)[1]
    BY <1>18, TailOf
  <2> QED
    BY <1>16, <1>18, <2>2, <2>3
<1>21. \E cmd \in Full :
         /\ executed' = [executed EXCEPT ![j] = Append(executed[j], cmd)]
         /\ t[1] \in Message => Len(cmd) > 1 /\ Head(cmd) = t[1]
  BY <1>2, <1>15, <1>19, <1>20 DEF first
<1>22. j = Head(rx)[2] /\ i2cMsg'[1] = t[1]
  <2>1. j = Head(rx)[2]
    BY <1>1 DEF j
  <2> QED
    BY <1>2, <1>15, <2>1
<1> QED
  BY <1>1, <1>4, <1>21, <1>22 DEF j, t

\* Types in the next state.
LEMMA PartsTypeNext ==
  ( ExecInv /\ cut = {} =>
      \A d : /\ Parts(d) \in [1 .. Len(transfers) -> Seq(Byte)]
             /\ DOMAIN transfers = 1 .. Len(transfers) )'
<1>1. ExecInv /\ cut = {} =>
        \A d : /\ Parts(d) \in [1 .. Len(transfers) -> Seq(Byte)]
               /\ DOMAIN transfers = 1 .. Len(transfers)
  BY PartsType
<1> QED
  BY <1>1, PTL

\* One command more for a transfer that nothing was executed behind.
LEMMA PartsGrow ==
  ASSUME ExecInv, cut = {}, InOrder, ExecInv', cut' = {}, transfers' = transfers,
         NEW j \in 1 .. Len(transfers), transfers[j] # << >>,
         \A i \in 1 .. Len(transfers) : i > j => executed[i] = << >>,
         NEW cmd \in Full,
         executed' = [executed EXCEPT ![j] = Append(executed[j], cmd)], NEW d
  PROVE  FlattenSeq(Parts(d)') =
           FlattenSeq(Parts(d)) \o (IF transfers[j][1] = d THEN Tail(cmd) ELSE << >>)
<1> DEFINE n == Len(transfers)
           f == Parts(d)
           g == Parts(d)'
           x == IF transfers[j][1] = d THEN Tail(cmd) ELSE << >>
<1>1. /\ f \in [1 .. n -> Seq(Byte)] /\ n \in Nat
      /\ \A i \in 1 .. n : f[i] = Part(d, i, executed[i])
  BY PartsType
<1>2. g \in [1 .. n -> Seq(Byte)]
  <2>1. Parts(d)' \in [1 .. Len(transfers') -> Seq(Byte)]
    BY PartsTypeNext
  <2> QED
    BY <2>1
<1>3. \A i \in 1 .. n : g[i] = Part(d, i, executed'[i])
  <2>1. Parts(d)' = [i \in DOMAIN transfers |-> Part(d, i, executed'[i])]
    BY DEF Parts, Part
  <2>2. DOMAIN transfers = 1 .. n
    BY PartsType
  <2> QED
    BY <2>1, <2>2, Zenon
<1>4. /\ executed'[j] = Append(executed[j], cmd)
      /\ \A i \in 1 .. n : i # j => executed'[i] = executed[i]
  <2>1. executed \in Seq(Seq(Seq(Byte))) /\ Len(executed) = n
    BY DEF ExecInv, TypeOK
  <2>2. DOMAIN executed = 1 .. n
    BY <2>1
  <2> QED
    BY <2>2
<1>5. x \in Seq(Byte)
  <2>1. Tail(cmd) \in Seq(Byte) /\ << >> \in Seq(Byte)
    BY TailOf DEF Full
  <2> QED
    BY <2>1
<1>6. g[j] = f[j] \o x
  <2>1. executed[j] \in Seq(Full)
    BY ExecutedFull
  <2>2. Bytes(Append(executed[j], cmd)) = Bytes(executed[j]) \o Tail(cmd)
    BY <2>1, BytesAppend
  <2>3. CASE transfers[j][1] = d
    <3>1. f[j] = Bytes(executed[j]) /\ g[j] = Bytes(Append(executed[j], cmd))
      BY <1>1, <1>3, <1>4, <2>3 DEF Part
    <3> QED
      BY <2>2, <2>3, <3>1
  <2>4. CASE transfers[j][1] # d
    <3>1. f[j] = << >> /\ g[j] = << >>
      BY <1>1, <1>3, <2>4 DEF Part
    <3>2. << >> \o << >> = << >>
      OBVIOUS
    <3> QED
      BY <2>4, <3>1, <3>2
  <2> QED
    BY <2>3, <2>4
<1>7. \A i \in 1 .. n : i < j => g[i] = f[i]
  <2>1. \A i \in 1 .. n : i < j => i # j
    BY <1>1
  <2> QED
    BY <1>1, <1>3, <1>4, <2>1, Zenon
<1>8. \A i \in 1 .. n : i > j => f[i] = << >> /\ g[i] = << >>
  <2>1. \A i : Part(d, i, << >>) = << >>
    BY NoBytes DEF Part
  <2>2. \A i \in 1 .. n : i > j => i # j
    BY <1>1
  <2>3. \A i \in 1 .. n : i > j => executed[i] = << >>
    OBVIOUS
  <2> HIDE DEF f, g, n, x
  <2> TAKE i \in 1 .. n
  <2>4. i > j => executed[i] = << >> /\ executed'[i] = << >>
    <3>1. i > j => executed'[i] = executed[i]
      BY <1>4, <2>2
    <3> QED
      BY <2>3, <3>1
  <2>5. f[i] = Part(d, i, executed[i]) /\ g[i] = Part(d, i, executed'[i])
    BY <1>1, <1>3
  <2> QED
    BY <2>1, <2>4, <2>5, Zenon
<1> HIDE DEF n, f, g, x
<1>9. j \in 1 .. n
  BY DEF n
<1>10. Grown(Byte, n, f, g, j, x)
  BY <1>1, <1>2, <1>5, <1>6, <1>7, <1>8, <1>9 DEF Grown
<1>11. FlattenSeq(g) = FlattenSeq(f) \o x
  BY <1>10, FlattenGrows
<1> QED
  BY <1>11 DEF f, g, x

LEMMA PartsStart ==
  ASSUME ExecInv, cut = {}, ExecInv', cut' = {}, NEW what, NEW events,
         Start(what, events), NEW d
  PROVE  FlattenSeq(Parts(d)') = FlattenSeq(Parts(d))
<1> DEFINE n == Len(transfers)
           f == Parts(d)
           g == Parts(d)'
<1>1. /\ f \in [1 .. n -> Seq(Byte)] /\ n \in Nat /\ FlattenSeq(f) \in Seq(Byte)
      /\ \A i \in 1 .. n : f[i] = Part(d, i, executed[i])
  BY PartsType
<1>2. /\ transfers' = Append(transfers, what) /\ executed' = Append(executed, << >>)
  BY DEF Start
<1>3. /\ Len(transfers') = n + 1
      /\ \A i \in 1 .. n : transfers'[i] = transfers[i]
  BY <1>1, <1>2 DEF ExecInv, TypeOK
<1>4. /\ executed'[n + 1] = << >>
      /\ \A m \in 1 .. n : executed'[m] = executed[m]
  <2>1. executed \in Seq(Seq(Seq(Byte))) /\ Len(executed) = n
    BY DEF ExecInv, TypeOK
  <2>2. << >> \in Seq(Seq(Byte))
    OBVIOUS
  <2> QED
    BY <1>2, <2>1, <2>2, AppendTo
<1>5. g \in [1 .. n + 1 -> Seq(Byte)] /\ DOMAIN transfers' = 1 .. n + 1
  <2>1. /\ Parts(d)' \in [1 .. Len(transfers') -> Seq(Byte)]
        /\ DOMAIN transfers' = 1 .. Len(transfers')
    BY PartsTypeNext
  <2> QED
    BY <1>3, <2>1
<1>6. \A i \in 1 .. n + 1 : g[i] = Part(d, i, executed[i])'
  <2>1. Parts(d)' = [i \in DOMAIN transfers' |-> Part(d, i, executed[i])']
    BY DEF Parts
  <2> QED
    BY <1>5, <2>1, Zenon
<1>7. \A i \in 1 .. n : g[i] = f[i]
  <2> TAKE i \in 1 .. n
  <2>1. i \in 1 .. n + 1
    BY <1>1
  <2>2. Part(d, i, executed[i])' = Part(d, i, executed[i])
    BY <1>3, <1>4 DEF Part
  <2> QED
    BY <1>1, <1>6, <2>1, <2>2
<1>8. g[n + 1] = << >>
  <2>1. n + 1 \in 1 .. n + 1
    BY <1>1
  <2>2. PICK i \in 1 .. n + 1 : i = n + 1
    BY <2>1
  <2>3. executed'[i] = << >>
    BY <1>4, <2>2
  <2>6. Part(d, i, executed[i])' =
          IF transfers'[i] # << >> /\ transfers'[i][1] = d
          THEN Bytes(executed'[i]) ELSE << >>
    BY DEF Part, Bytes
  <2>7. Part(d, i, executed[i])' = << >>
    BY <2>3, <2>6, NoBytes
  <2> HIDE DEF g, n
  <2> QED
    BY <1>6, <2>2, <2>7
<1> HIDE DEF n, f, g
<1>9. FlattenSeq(g) = FlattenSeq(f) \o g[n + 1]
  BY <1>1, <1>5, <1>7, FlattenNext
<1>10. FlattenSeq(g) = FlattenSeq(f)
  BY <1>1, <1>8, <1>9, Joins
<1> QED
  BY <1>10 DEF f, g

\* Steps that leave what was executed alone.
LEMMA PartsKept ==
  ASSUME UNCHANGED <<transfers, executed>>, NEW d
  PROVE  FlattenSeq(Parts(d)') = FlattenSeq(Parts(d))
<1>1. Parts(d)' = Parts(d)
  BY DEF Parts, Part, Bytes
<1> QED
  BY <1>1, Zenon

\* What was executed, after a step of the slave that executes nothing.
LEMMA PartsMeanwhile ==
  ASSUME ExecInv, cut = {}, ExecInv', cut' = {}, [Next]_vars,
         executed' = executed \/ ~ProcessI2CIn, NEW d
  PROVE  FlattenSeq(Parts(d)') = FlattenSeq(Parts(d))
<1>1. ASSUME NEW t \in Transfer, MasterWrites(t)
      PROVE  FlattenSeq(Parts(d)') = FlattenSeq(Parts(d))
  BY <1>1, PartsStart DEF MasterWrites
<1>2. ASSUME NEW n \in 1 .. MaxRead, MasterReads(n)
      PROVE  FlattenSeq(Parts(d)') = FlattenSeq(Parts(d))
  BY <1>2, PartsStart DEF MasterReads
<1>3. CASE Interrupt
  BY <1>3, PartsKept DEF Interrupt
<1>4. CASE ProcessI2CIn
  BY <1>4, PartsKept DEF ProcessI2CIn
<1>5. CASE Prepare
  BY <1>5, PartsKept DEF Prepare
<1>6. CASE UNCHANGED vars
  BY <1>6, PartsKept DEF vars, history
<1> QED
  BY <1>1, <1>2, <1>3, <1>4, <1>5, <1>6 DEF Next

\* One element and some more.
LEMMA OneMore ==
  ASSUME NEW a \in Seq(Byte), NEW r \in Seq(Byte)
  PROVE  Len(a) = 1 /\ Len(r) > 0 =>
           /\ a \o r \in Seq(Byte) /\ Len(a \o r) > 1 /\ a \o r # << >>
           /\ Head(a \o r) = a[1] /\ Tail(a \o r) = r
<1>0. /\ a \o r \in Seq(Byte) /\ Len(a \o r) = Len(a) + Len(r) /\ Len(r) \in Nat
      /\ \A k \in 1 .. Len(a) : (a \o r)[k] = a[k]
      /\ \A k \in 1 .. Len(r) : (a \o r)[Len(a) + k] = r[k]
  BY Joined
<1> SUFFICES ASSUME Len(a) = 1, Len(r) > 0
             PROVE  /\ a \o r \in Seq(Byte) /\ Len(a \o r) > 1 /\ a \o r # << >>
                    /\ Head(a \o r) = a[1] /\ Tail(a \o r) = r
  OBVIOUS
<1>1. PICK q \in Seq(Byte), m \in Nat :
        /\ q = a \o r /\ m = Len(r) /\ Len(q) = 1 + m /\ q[1] = a[1]
        /\ \A k \in 1 .. m : q[1 + k] = r[k]
  <2>1. 1 \in 1 .. Len(a)
    OBVIOUS
  <2>2. /\ a \o r \in Seq(Byte) /\ Len(a \o r) = 1 + Len(r) /\ Len(r) \in Nat
        /\ (a \o r)[1] = a[1] /\ \A k \in 1 .. Len(r) : (a \o r)[1 + k] = r[k]
    BY <1>0, <2>1, Zenon
  <2> QED
    BY <2>2, Zenon
<1>2. m > 0 /\ q # << >>
  BY <1>1
<1>3. /\ Head(q) = q[1] /\ Tail(q) \in Seq(Byte) /\ Len(Tail(q)) = m
      /\ \A k \in 1 .. m : Tail(q)[k] = q[k + 1]
  <2>1. /\ Head(q) = q[1] /\ Tail(q) \in Seq(Byte) /\ Len(Tail(q)) = Len(q) - 1
        /\ \A k \in 1 .. Len(q) - 1 : Tail(q)[k] = q[k + 1]
    BY <1>2, TailOf
  <2>2. Len(q) - 1 = m
    BY <1>1
  <2> QED
    BY <2>1, <2>2
<1>4. \A k \in 1 .. m : Tail(q)[k] = r[k]
  <2> TAKE k \in 1 .. m
  <2>1. 1 + k = k + 1
    OBVIOUS
  <2> QED
    BY <1>1, <1>3, <2>1
<1>5. Tail(q) = r
  BY <1>1, <1>3, <1>4, SeqEqual
<1> QED
  BY <1>1, <1>2, <1>3, <1>5

\* The message being passed on, with its second byte gone.
LEMMA PassingNext ==
  ASSUME NEW p \in Seq(Byte), Len(p) > 1, NEW q,
         q = IF Len(p) = 2 THEN << >> ELSE RemoveAt(p, 2)
  PROVE  /\ q \in Seq(Byte) /\ p[2] \in Byte /\ p # << >>
         /\ q # << >> => Len(q) > 1 /\ Head(q) = Head(p)
         /\ \E rest \in Seq(Byte) :
              /\ Tail(p) = <<p[2]>> \o rest
              /\ rest = IF q = << >> THEN << >> ELSE Tail(q)
<1> DEFINE n == Len(p)
           u == Tail(p)
           a == SubSeq(p, 1, 1)
           r == Tail(u)
<1>1. /\ n \in Nat /\ n > 1 /\ p # << >> /\ p[2] \in Byte /\ Head(p) = p[1]
      /\ u \in Seq(Byte) /\ Len(u) = n - 1 /\ \A k \in 1 .. n - 1 : u[k] = p[k + 1]
  <2>1. p # << >> /\ n \in Nat /\ n > 1 /\ p[2] \in Byte
    OBVIOUS
  <2> QED
    BY <2>1, TailOf
<1>2. /\ u # << >> /\ Head(u) = p[2]
      /\ r \in Seq(Byte) /\ Len(r) = n - 2 /\ \A k \in 1 .. n - 2 : r[k] = p[k + 2]
  <2> HIDE DEF u, n
  <2>1. u # << >>
    BY <1>1
  <2>2. /\ Head(u) = u[1] /\ r \in Seq(Byte) /\ Len(r) = Len(u) - 1
        /\ \A k \in 1 .. Len(u) - 1 : r[k] = u[k + 1]
    BY <1>1, <2>1, TailOf
  <2>3. Head(u) = p[2]
    BY <1>1, <2>2
  <2>4. \A k \in 1 .. n - 2 : r[k] = p[k + 2]
    <3> TAKE k \in 1 .. n - 2
    <3>1. k \in 1 .. Len(u) - 1 /\ k + 1 \in 1 .. n - 1 /\ (k + 1) + 1 = k + 2
      BY <1>1
    <3>2. r[k] = u[k + 1] /\ u[k + 1] = p[(k + 1) + 1]
      BY <1>1, <2>2, <3>1
    <3> QED
      BY <3>1, <3>2
  <2> QED
    BY <1>1, <2>1, <2>2, <2>3, <2>4
<1>3. u = <<p[2]>> \o r
  <2> HIDE DEF u, r
  <2>1. << >> \in Seq(Byte) /\ Append(<< >>, p[2]) = <<p[2]>> /\ << >> \o u = u
    BY <1>1
  <2>2. << >> \o u = Append(<< >>, Head(u)) \o Tail(u)
    BY <1>1, <1>2, <2>1, HeadMoves
  <2> QED
    BY <1>2, <2>1, <2>2 DEF r
<1>4. CASE n = 2
  <2>1. q = << >> /\ r = << >>
    <3>1. q = << >>
      BY <1>4
    <3> HIDE DEF r
    <3>2. r = << >>
      BY <1>2, <1>4
    <3> QED
      BY <3>1, <3>2
  <2>2. q \in Seq(Byte)
    <3>1. << >> \in Seq(Byte)
      OBVIOUS
    <3> QED
      BY <2>1, <3>1, Zenon
  <2> QED
    BY <1>1, <1>2, <1>3, <2>1, <2>2
<1>5. CASE n # 2
  <2>1. q = a \o r
    <3>1. q = SubSeq(p, 1, 2 - 1) \o SubSeq(p, 2 + 1, Len(p))
      BY <1>5 DEF RemoveAt
    <3>2. SubSeq(p, 2 + 1, Len(p)) = r
      <4> DEFINE z == SubSeq(p, 2 + 1, Len(p))
      <4>1. /\ z \in Seq(Byte) /\ Len(z) = n - 2
            /\ \A k \in 1 .. n - 2 : z[k] = p[k + 2]
        BY <1>1, <1>5
      <4> HIDE DEF z, r, n
      <4>2. z = r
        BY <1>1, <1>2, <4>1, SeqEqual
      <4> QED
        BY <4>2 DEF z
    <3> QED
      BY <3>1, <3>2
  <2>2. a \in Seq(Byte) /\ Len(a) = 1 /\ a[1] = p[1]
    <3>1. 1 \in 0 .. Len(p) /\ 1 \in 1 .. 1
      BY <1>1
    <3> QED
      BY <3>1, FirstOf
  <2> HIDE DEF a, r
  <2>3. /\ a \o r \in Seq(Byte) /\ Len(a \o r) > 1
        /\ Head(a \o r) = a[1] /\ Tail(a \o r) = r /\ a \o r # << >>
    <3>1. Len(r) \in Nat /\ Len(r) > 0
      BY <1>1, <1>2, <1>5
    <3> QED
      BY <1>2, <2>2, <3>1, OneMore
  <2> QED
    BY <1>1, <1>2, <1>3, <2>1, <2>2, <2>3, Zenon
<1> QED
  BY <1>4, <1>5

LEMMA TwoMessages == kI2C_send_MIDI_message # kI2C_send_Select_Bus_message
                     /\ Message = {kI2C_send_MIDI_message, kI2C_send_Select_Bus_message}
BY DEF kI2C_send_MIDI_message, kI2C_send_Select_Bus_message, Message

\* The main loop's step.
LEMMA PassProcess ==
  ASSUME ExecInv, cut = {}, InOrder, Lines, Owed, Process, ExecInv', cut' = {},
         [Next]_vars
  PROVE  Lines' /\ Owed'
<1>1. /\ passing = << >> /\ ProcessI2CIn
      /\ midi' = midi /\ midiSent' = midiSent /\ bus' = bus /\ busSent' = busSent
      /\ passing' = IF executed' # executed /\ i2cMsg'[1] \in Message
                    THEN Last(executed'[Head(rx)[2]]) ELSE << >>
  BY DEF Process, lines
<1>2. ASSUME NEW d PROVE Given(d)' = Given(d) /\ Given(d) \in Seq(Byte)
  BY <1>1, Joined DEF Given, Lines
<1>3. ASSUME NEW d \in Message PROVE Given(d) = FlattenSeq(Parts(d))
  <2>1. Given(d) \o << >> = FlattenSeq(Parts(d))
    BY <1>1 DEF Owed, Left
  <2>2. Given(d) \o << >> = Given(d)
    BY <1>2, Joins
  <2> QED
    BY <2>1, <2>2
<1>4. CASE executed' = executed
  <2>1. passing' = << >>
    BY <1>1, <1>4
  <2>2. Lines'
    <3>1. << >> \in Seq(Byte)
      OBVIOUS
    <3> QED
      BY <1>1, <2>1, <3>1 DEF Lines
  <2>3. ASSUME NEW d \in Message PROVE (Given(d) \o Left(d) = FlattenSeq(Parts(d)))'
    <3>1. Left(d)' = << >>
      BY <2>1 DEF Left
    <3>2. FlattenSeq(Parts(d)') = FlattenSeq(Parts(d))
      BY <1>4, PartsMeanwhile
    <3>3. Given(d) \o << >> = Given(d)
      BY <1>2, Joins
    <3>4. Given(d)' = Given(d) /\ Given(d) = FlattenSeq(Parts(d))
      BY <1>2, <1>3
    <3>5. FlattenSeq(Parts(d))' = FlattenSeq(Parts(d)')
      BY DEF FlattenSeq
    <3> QED
      BY <3>1, <3>2, <3>3, <3>4, <3>5, Zenon
  <2> QED
    BY <2>2, <2>3 DEF Owed
<1>5. CASE executed' # executed
  <2> DEFINE j == Coming(1)[2]
             t == transfers[j]
  <2>1. /\ j \in 1 .. Len(transfers) /\ t # << >> /\ j = Head(rx)[2]
        /\ i2cMsg'[1] = t[1]
    BY <1>1, <1>5, TakenIs
  <2>2. PICK cmd \in Full :
          /\ executed' = [executed EXCEPT ![j] = Append(executed[j], cmd)]
          /\ t[1] \in Message => Len(cmd) > 1 /\ Head(cmd) = t[1]
    BY <1>1, <1>5, TakenIs
  <2>3. \A i \in 1 .. Len(transfers) : i > j => executed[i] = << >>
    <3>1. 1 \in 1 .. Ahead
      BY <1>1, ComingNext, AheadType DEF ExecInv
    <3> QED
      BY <3>1 DEF InOrder
  <2>4. transfers' = transfers
    BY <1>1 DEF ProcessI2CIn
  <2>5. Last(executed'[j]) = cmd
    <3>1. executed[j] \in Seq(Full)
      BY <2>1, ExecutedFull
    <3>2. executed'[j] = Append(executed[j], cmd)
      <4>1. executed \in Seq(Seq(Seq(Byte))) /\ Len(executed) = Len(transfers)
        BY DEF ExecInv, TypeOK
      <4>2. j \in DOMAIN executed
        BY <2>1, <4>1
      <4> HIDE DEF j
      <4> QED
        BY <2>2, <4>2
    <3>3. PICK s \in Seq(Full), l \in Nat : s = executed[j] /\ l = Len(s)
      BY <3>1, SeqIsFunction
    <3>4. Len(Append(s, cmd)) = l + 1 /\ Append(s, cmd)[l + 1] = cmd
      BY <3>3, AppendTo
    <3> QED
      BY <3>2, <3>3, <3>4 DEF Last
  <2>6. passing' = IF t[1] \in Message THEN cmd ELSE << >>
    <3>1. executed'[Head(rx)[2]] = executed'[j]
      BY <2>1, Zenon
    <3> HIDE DEF j, t
    <3> QED
      BY <1>1, <1>5, <2>1, <2>5, <3>1, Zenon
  <2>7. cmd \in Seq(Byte) /\ cmd # << >> /\ Tail(cmd) \in Seq(Byte)
    BY TailOf DEF Full
  <2>8. Lines'
    <3>1. << >> \in Seq(Byte)
      OBVIOUS
    <3>2. passing' \in Seq(Byte)
      BY <2>6, <2>7, <3>1
    <3>3. passing' # << >> => Len(passing') > 1 /\ Head(passing') \in Message
      BY <2>2, <2>6
    <3> HIDE DEF t, j
    <3> QED
      BY <1>1, <3>2, <3>3 DEF Lines
  <2> HIDE DEF j
  <2>9. ASSUME NEW d \in Message PROVE (Given(d) \o Left(d) = FlattenSeq(Parts(d)))'
    <3>1. FlattenSeq(Parts(d)') =
            FlattenSeq(Parts(d)) \o (IF t[1] = d THEN Tail(cmd) ELSE << >>)
      BY <2>1, <2>2, <2>3, <2>4, PartsGrow
    <3>2. Left(d)' = IF t[1] = d THEN Tail(cmd) ELSE << >>
      <4> HIDE DEF t
      <4>1. CASE t[1] = d
        <5>1. passing' = cmd /\ Head(cmd) = d
          BY <2>2, <2>6, <4>1
        <5> QED
          BY <2>7, <4>1, <5>1 DEF Left
      <4>2. CASE t[1] # d
        <5>1. passing' # << >> => Head(passing') = t[1]
          BY <2>2, <2>6
        <5> QED
          BY <4>2, <5>1 DEF Left
      <4> QED
        BY <4>1, <4>2
    <3>3. Given(d)' = Given(d) /\ Given(d) = FlattenSeq(Parts(d))
      BY <1>2, <1>3
    <3>4. FlattenSeq(Parts(d))' = FlattenSeq(Parts(d)')
      BY DEF FlattenSeq
    <3> QED
      BY <3>1, <3>2, <3>3, <3>4, Zenon
  <2> QED
    BY <2>8, <2>9 DEF Owed
<1> QED
  BY <1>4, <1>5

LEMMA JoinsBytes ==
  \A s \in Seq(Byte) : \A u \in Seq(Byte) : \A v \in Seq(Byte) :
    (s \o u) \o v = s \o (u \o v) /\ u \o v \in Seq(Byte)
BY Joins

Regroups(s, u, v, w) == (s \o u) \o (v \o w) = (s \o (u \o v)) \o w

LEMMA JoinsFour ==
  ASSUME NEW s \in Seq(Byte), NEW u \in Seq(Byte), NEW v \in Seq(Byte), NEW w \in Seq(Byte)
  PROVE  Regroups(s, u, v, w)
<1>1. (s \o u) \o v = s \o (u \o v)
  BY JoinsBytes
<1>2. s \o u \in Seq(Byte)
  BY JoinsBytes
<1>3. ASSUME NEW x \in Seq(Byte) PROVE x \o (v \o w) = (x \o v) \o w
  BY JoinsBytes
<1> QED
  BY <1>1, <1>2, <1>3, Zenon DEF Regroups

\* The next byte of the message goes to one of the outputs.
LEMMA PassPassOn ==
  ASSUME ExecInv, cut = {}, Lines, Owed, PassOn
  PROVE  Lines' /\ Owed'
<1>1. /\ PassOnMIDI \/ PassOnBus
      /\ passing' = IF Len(passing) = 2 THEN << >> ELSE RemoveAt(passing, 2)
      /\ UNCHANGED vars
  BY DEF PassOn
<1>2. Len(passing) > 1 /\ passing \in Seq(Byte) /\ passing[2] \in Byte
  <2>1. Len(passing) > 1 /\ passing \in Seq(Byte)
    BY <1>1 DEF PassOnMIDI, PassOnBus, Lines
  <2> QED
    BY <2>1
<1>3. /\ passing' \in Seq(Byte) /\ passing # << >>
      /\ passing' # << >> => Len(passing') > 1 /\ Head(passing') = Head(passing)
  BY <1>1, <1>2, PassingNext
<1>4. PICK rest \in Seq(Byte) :
        /\ Tail(passing) = <<passing[2]>> \o rest
        /\ rest = IF passing' = << >> THEN << >> ELSE Tail(passing')
  BY <1>1, <1>2, PassingNext
<1>5. PICK b \in Byte, one \in Seq(Byte) : b = passing[2] /\ one = <<b>>
  <2>1. \A e \in Byte : <<e>> \in Seq(Byte)
    OBVIOUS
  <2> QED
    BY <1>2, <2>1, Zenon
<1>6. Tail(passing) = one \o rest
  BY <1>4, <1>5, Zenon
<1>7. ASSUME NEW d PROVE FlattenSeq(Parts(d))' = FlattenSeq(Parts(d))
  <2>1. FlattenSeq(Parts(d)') = FlattenSeq(Parts(d))
    BY <1>1, PartsKept DEF vars, history
  <2>2. FlattenSeq(Parts(d))' = FlattenSeq(Parts(d)')
    BY DEF FlattenSeq
  <2> QED
    BY <2>1, <2>2, Zenon
<1>8. ASSUME NEW d, Head(passing) = d
      PROVE  Left(d) = one \o rest /\ Left(d)' = rest
  <2>1. Left(d) = one \o rest
    BY <1>3, <1>6, <1>8, Zenon DEF Left
  <2>2. Left(d)' = rest
    <3>1. Left(d)' = IF passing' # << >> /\ Head(passing') = d
                     THEN Tail(passing') ELSE << >>
      BY DEF Left
    <3> QED
      BY <1>3, <1>4, <1>8, <3>1, Zenon
  <2> QED
    BY <2>1, <2>2
<1>9. ASSUME NEW d, Head(passing) # d
      PROVE  Left(d) = << >> /\ Left(d)' = << >>
  <2>1. Left(d)' = IF passing' # << >> /\ Head(passing') = d
                   THEN Tail(passing') ELSE << >>
    BY DEF Left
  <2>2. Left(d) = << >>
    BY <1>9, Zenon DEF Left
  <2> QED
    BY <1>3, <1>9, <2>1, <2>2, Zenon
<1>10. ASSUME NEW d \in Message, NEW sent \in Seq(Byte), NEW line \in Seq(Byte),
              Head(passing) = d, Given(d) = sent \o line,
              Given(d)' = sent \o (line \o one)
       PROVE  (Given(d) \o Left(d) = FlattenSeq(Parts(d)))'
  <2>1. (sent \o line) \o (one \o rest) = FlattenSeq(Parts(d))
    BY <1>8, <1>10, Zenon DEF Owed
  <2>2. (sent \o line) \o (one \o rest) = (sent \o (line \o one)) \o rest
    <3>1. Regroups(sent, line, one, rest)
      BY JoinsFour
    <3> QED
      BY <3>1 DEF Regroups
  <2>3. Left(d)' = rest
    BY <1>8, <1>10
  <2>4. FlattenSeq(Parts(d))' = FlattenSeq(Parts(d))
    BY <1>7
  <2> QED
    BY <1>10, <2>1, <2>2, <2>3, <2>4, Zenon
<1>11. ASSUME NEW d \in Message, Head(passing) # d, Given(d)' = Given(d)
       PROVE  (Given(d) \o Left(d) = FlattenSeq(Parts(d)))'
  <2>1. Given(d) \o << >> = FlattenSeq(Parts(d))
    BY <1>9, <1>11, Zenon DEF Owed
  <2>2. Left(d)' = << >>
    BY <1>9, <1>11
  <2>3. FlattenSeq(Parts(d))' = FlattenSeq(Parts(d))
    BY <1>7
  <2> QED
    BY <1>11, <2>1, <2>2, <2>3, Zenon
<1>12. CASE PassOnMIDI
  <2>1. /\ Head(passing) = kI2C_send_MIDI_message
        /\ midi' = midi \o <<passing[2]>> /\ midiSent' = midiSent
        /\ bus' = bus /\ busSent' = busSent
    BY <1>12 DEF PassOnMIDI, MidiLine!Join
  <2>2. midi' = midi \o one
    BY <1>5, <2>1, Zenon
  <2>3. Lines'
    <3>1. midi' \in Seq(Byte)
      BY <2>2, Joined DEF Lines
    <3>2. passing' # << >> => Len(passing') > 1 /\ Head(passing') \in Message
      BY <1>3, <2>1, TwoMessages
    <3> QED
      BY <1>3, <2>1, <3>1, <3>2 DEF Lines
  <2>4. ASSUME NEW d \in Message
        PROVE  (Given(d) \o Left(d) = FlattenSeq(Parts(d)))'
    <3>1. CASE d = kI2C_send_MIDI_message
      <4>1. Given(d) = midiSent \o midi /\ Given(d)' = midiSent \o (midi \o one)
        BY <2>1, <2>2, <3>1, Zenon DEF Given
      <4>2. midiSent \in Seq(Byte) /\ midi \in Seq(Byte) /\ Head(passing) = d
        BY <2>1, <3>1 DEF Lines
      <4> QED
        BY <1>10, <4>1, <4>2
    <3>2. CASE d # kI2C_send_MIDI_message
      <4>1. Head(passing) # d /\ Given(d)' = Given(d)
        BY <2>1, <3>2, Zenon DEF Given
      <4> QED
        BY <1>11, <4>1
    <3> QED
      BY <3>1, <3>2
  <2> QED
    BY <2>3, <2>4 DEF Owed
<1>13. CASE PassOnBus
  <2>1. /\ Head(passing) = kI2C_send_Select_Bus_message
        /\ bus' = bus \o <<passing[2]>> /\ busSent' = busSent
        /\ midi' = midi /\ midiSent' = midiSent
    BY <1>13 DEF PassOnBus, BusLine!Join
  <2>2. bus' = bus \o one
    BY <1>5, <2>1, Zenon
  <2>3. Lines'
    <3>1. bus' \in Seq(Byte)
      BY <2>2, Joined DEF Lines
    <3>2. passing' # << >> => Len(passing') > 1 /\ Head(passing') \in Message
      BY <1>3, <2>1, TwoMessages
    <3> QED
      BY <1>3, <2>1, <3>1, <3>2 DEF Lines
  <2>4. ASSUME NEW d \in Message
        PROVE  (Given(d) \o Left(d) = FlattenSeq(Parts(d)))'
    <3>1. CASE d = kI2C_send_Select_Bus_message
      <4>1. Given(d) = busSent \o bus /\ Given(d)' = busSent \o (bus \o one)
        BY <2>1, <2>2, <3>1, TwoMessages, Zenon DEF Given
      <4>2. busSent \in Seq(Byte) /\ bus \in Seq(Byte) /\ Head(passing) = d
        BY <2>1, <3>1 DEF Lines
      <4> QED
        BY <1>10, <4>1, <4>2
    <3>2. CASE d # kI2C_send_Select_Bus_message
      <4>1. Head(passing) # d /\ d = kI2C_send_MIDI_message
        BY <2>1, <3>2, TwoMessages
      <4>2. Given(d)' = Given(d)
        BY <2>1, <4>1, Zenon DEF Given
      <4> QED
        BY <1>11, <4>1, <4>2
    <3> QED
      BY <3>1, <3>2
  <2> QED
    BY <2>3, <2>4 DEF Owed
<1> QED
  BY <1>1, <1>12, <1>13

\* A byte leaves an output.
LEMMA PassSent ==
  ASSUME ExecInv, cut = {}, Lines, Owed, Sent
  PROVE  Lines' /\ Owed'
<1>1. UNCHANGED <<vars, passing>>
  BY DEF Sent
<1>2. \/ /\ midi # << >> /\ midiSent' = Append(midiSent, Head(midi))
         /\ midi' = Tail(midi) /\ bus' = bus /\ busSent' = busSent
      \/ /\ bus # << >> /\ busSent' = Append(busSent, Head(bus))
         /\ bus' = Tail(bus) /\ midi' = midi /\ midiSent' = midiSent
  BY DEF Sent, MidiLine!Take, BusLine!Take
<1>3. /\ midi' \in Seq(Byte) /\ midiSent' \in Seq(Byte)
      /\ bus' \in Seq(Byte) /\ busSent' \in Seq(Byte)
      /\ midiSent' \o midi' = midiSent \o midi
      /\ busSent' \o bus' = busSent \o bus
  <2>1. /\ midi \in Seq(Byte) /\ midiSent \in Seq(Byte)
        /\ bus \in Seq(Byte) /\ busSent \in Seq(Byte)
    BY DEF Lines
  <2>2. ASSUME NEW s \in Seq(Byte), NEW u \in Seq(Byte), u # << >>
        PROVE  /\ Append(s, Head(u)) \in Seq(Byte) /\ Tail(u) \in Seq(Byte)
               /\ Append(s, Head(u)) \o Tail(u) = s \o u
    <3>1. Head(u) \in Byte /\ Tail(u) \in Seq(Byte)
      BY <2>2, TailOf
    <3> QED
      BY <2>2, <3>1, AppendTo, HeadMoves
  <2> QED
    BY <1>2, <2>1, <2>2, Zenon
<1>4. Lines'
  BY <1>1, <1>3 DEF Lines
<1>5. ASSUME NEW d \in Message PROVE (Given(d) \o Left(d) = FlattenSeq(Parts(d)))'
  <2>1. Given(d)' = Given(d)
    BY <1>3, Zenon DEF Given
  <2>2. Left(d)' = Left(d)
    BY <1>1 DEF Left
  <2>3. FlattenSeq(Parts(d)') = FlattenSeq(Parts(d))
    BY <1>1, PartsKept DEF vars, history
  <2>4. FlattenSeq(Parts(d))' = FlattenSeq(Parts(d)')
    BY DEF FlattenSeq
  <2> QED
    BY <2>1, <2>2, <2>3, <2>4, Zenon DEF Owed
<1> QED
  BY <1>4, <1>5 DEF Owed

\* Any other step.
LEMMA PassMeanwhile ==
  ASSUME ExecInv, cut = {}, Lines, Owed, ExecInv', cut' = {}, [Next]_vars,
         UNCHANGED <<passing, lines>>, executed' = executed \/ ~ProcessI2CIn
  PROVE  Lines' /\ Owed'
<1>1. Lines'
  BY DEF Lines, lines
<1>2. ASSUME NEW d \in Message PROVE (Given(d) \o Left(d) = FlattenSeq(Parts(d)))'
  <2>1. Given(d)' = Given(d) /\ Left(d)' = Left(d)
    BY DEF Given, Left, lines
  <2>2. FlattenSeq(Parts(d)') = FlattenSeq(Parts(d))
    BY PartsMeanwhile
  <2>3. FlattenSeq(Parts(d))' = FlattenSeq(Parts(d)')
    BY DEF FlattenSeq
  <2> QED
    BY <2>1, <2>2, <2>3, Zenon DEF Owed
<1> QED
  BY <1>1, <1>2 DEF Owed

LEMMA PassNext == ExecInv /\ ReadInv /\ PassInv /\ [BridgeNext]_bridgeVars => PassInv'
<1> SUFFICES ASSUME ExecInv, ReadInv, PassInv, [BridgeNext]_bridgeVars, cut' = {}
             PROVE  InOrder' /\ Lines' /\ Owed'
  BY DEF PassInv
<1>1. [Next]_vars /\ TypeOK
  BY BridgeStep DEF ExecInv
<1>2. cut = {} /\ ExecInv'
  BY <1>1, CutGrows, ExecNext
<1>3. InOrder /\ Lines /\ Owed
  BY <1>2 DEF PassInv
<1>4. InOrder'
  BY <1>1, <1>3, OrderNext
<1>5. Lines' /\ Owed'
  <2>1. CASE Meanwhile
    <3>1. UNCHANGED <<passing, lines>> /\ (executed' = executed \/ ~ProcessI2CIn)
      <4>1. ~ProcessI2CIn
        <5>1. transfers' # transfers \/ todo' # todo
          <6>1. ASSUME NEW what \in Seq(Byte), NEW events, Start(what, events)
                PROVE  transfers' # transfers
            <7>1. transfers \in Seq(Seq(Byte)) /\ transfers' = Append(transfers, what)
              BY <1>1, <6>1 DEF Start, TypeOK
            <7>2. Len(transfers') = Len(transfers) + 1 /\ Len(transfers) \in Nat
              BY <7>1, AppendTo
            <7> QED
              BY <7>2
          <6>2. Interrupt => todo' # todo
            <7> SUFFICES ASSUME Interrupt PROVE todo' # todo
              OBVIOUS
            <7>1. todo' = Tail(todo) /\ todo # << >> /\ todo \in Seq(Event)
              BY <1>1 DEF Interrupt, TypeOK
            <7> HIDE DEF Event
            <7>2. Len(todo') = Len(todo) - 1 /\ Len(todo) \in Nat
              BY <7>1, TailOf
            <7> QED
              BY <7>2
          <6>3. << >> \in Seq(Byte) /\ \A t \in Transfer : t \in Seq(Byte)
            BY I2CAssumption DEF Byte
          <6> QED
            BY <2>1, <6>1, <6>2, <6>3 DEF Meanwhile, MasterWrites, MasterReads
        <5> QED
          BY <5>1 DEF ProcessI2CIn
      <4> QED
        BY <2>1, <4>1 DEF Meanwhile
    <3> QED
      BY <1>1, <1>2, <1>3, <3>1, PassMeanwhile
  <2>2. CASE Process
    BY <1>1, <1>2, <1>3, <2>2, PassProcess
  <2>3. CASE PrepareResponse
    <3>1. UNCHANGED <<passing, lines>> /\ executed' = executed
      BY <2>3 DEF PrepareResponse, Prepare
    <3> QED
      BY <1>1, <1>2, <1>3, <3>1, PassMeanwhile
  <2>4. CASE PassOn
    BY <1>2, <1>3, <2>4, PassPassOn
  <2>5. CASE Sent
    BY <1>2, <1>3, <2>5, PassSent
  <2>6. CASE UNCHANGED bridgeVars
    <3>1. UNCHANGED <<passing, lines>> /\ executed' = executed
      BY <2>6 DEF bridgeVars, vars, history
    <3> QED
      BY <1>1, <1>2, <1>3, <3>1, PassMeanwhile
  <2> QED
    BY <2>1, <2>2, <2>3, <2>4, <2>5, <2>6 DEF BridgeNext
<1> QED
  BY <1>4, <1>5

LEMMA PassInit == BridgeInit => PassInv
<1> SUFFICES ASSUME BridgeInit PROVE InOrder /\ Lines /\ Owed
  BY DEF PassInv
<1>1. /\ todo = << >> /\ rx = << >> /\ transfers = << >> /\ passing = << >>
      /\ midi = << >> /\ midiSent = << >> /\ bus = << >> /\ busSent = << >>
  BY DEF BridgeInit, Init, MidiLine!Init, BusLine!Init
<1>2. InOrder
  <2>1. Ahead = 0
    BY <1>1 DEF Ahead
  <2> QED
    BY <2>1 DEF InOrder
<1>3. Lines
  <2>1. << >> \in Seq(Byte)
    OBVIOUS
  <2> QED
    BY <1>1, <2>1 DEF Lines
<1>4. ASSUME NEW d \in Message PROVE Given(d) \o Left(d) = FlattenSeq(Parts(d))
  <2>1. Parts(d) = << >>
    BY <1>1 DEF Parts
  <2>2. Left(d) = << >>
    BY <1>1 DEF Left
  <2>3. << >> \o << >> = << >>
    OBVIOUS
  <2>4. Given(d) = << >>
    BY <1>1, <2>3 DEF Given
  <2>5. FlattenSeq(Parts(d)) = << >>
    BY <2>1, NothingJoined
  <2> QED
    BY <2>2, <2>3, <2>4, <2>5
<1> QED
  BY <1>2, <1>3, <1>4 DEF Owed
-----------------------------------------------------------------------------
(* What was asked for is what the transfers meant.                         *)

LEMMA AskedIs ==
  ASSUME NEW d
  PROVE  Asked(d) = FlattenSeq(Wants(d))
BY Zenon DEF Asked, Wants, Part, Bytes

\* What was executed is the beginning of that, and all of it when nothing is
\* still to come.
LEMMA ExecutedOfAsked ==
  ASSUME ExecInv, cut = {}, InOrder, NEW d
  PROVE  /\ Starts(Byte, FlattenSeq(Parts(d)), FlattenSeq(Wants(d)))
         /\ todo = << >> /\ rx = << >> => FlattenSeq(Parts(d)) = FlattenSeq(Wants(d))
<1> DEFINE n == Len(transfers)
           f == Parts(d)
           g == Wants(d)
<1>1. /\ n \in Nat /\ f \in [1 .. n -> Seq(Byte)] /\ g \in [1 .. n -> Seq(Byte)]
      /\ \A i \in 1 .. n : /\ f[i] = Part(d, i, executed[i])
                           /\ g[i] = Part(d, i, Meant(transfers[i]))
  BY PartsType
<1>2. /\ Ahead \in Nat /\ Len(rx) \in Nat /\ Len(todo) \in Nat
      /\ Ahead = Len(rx) + Len(todo)
  BY AheadType DEF ExecInv
<1>3. ASSUME NEW i \in 1 .. n, Over(i) PROVE f[i] = g[i]
  <2>1. CASE transfers[i] = << >>
    BY <1>1, <2>1 DEF Part
  <2>2. CASE transfers[i] # << >>
    <3>1. executed[i] = Meant(transfers[i])
      BY <1>3, <2>2, ExecMeans DEF ExecutedAsMeant
    <3> QED
      BY <1>1, <3>1
  <2> QED
    BY <2>1, <2>2
<1>4. todo = << >> /\ rx = << >> => \A i \in 1 .. n : Over(i)
  BY DEF Over
<1>5. ASSUME todo = << >>, rx = << >> PROVE f = g
  <2>1. \A i \in 1 .. n : f[i] = g[i]
    BY <1>3, <1>4, <1>5
  <2> HIDE DEF f, g, n
  <2> QED
    BY <1>1, <2>1
<1>6. CASE Ahead = 0
  <2>1. todo = << >> /\ rx = << >>
    <3>1. Len(rx) = 0 /\ Len(todo) = 0
      BY <1>2, <1>6
    <3> QED
      BY <3>1 DEF ExecInv, TypeOK
  <2>2. f = g
    BY <1>5, <2>1
  <2>3. FlattenSeq(f) \in Seq(Byte) /\ << >> \in Seq(Byte)
    BY PartsType
  <2>4. FlattenSeq(f) \o << >> = FlattenSeq(f)
    BY <2>3, Joins
  <2>5. Starts(Byte, FlattenSeq(f), FlattenSeq(g))
    BY <2>2, <2>3, <2>4, Zenon DEF Starts
  <2> QED
    BY <2>2, <2>5, Zenon
<1>7. CASE Ahead > 0
  <2>0. 1 \in 1 .. Ahead
    BY <1>2, <1>7
  <2>1. PICK j \in 1 .. n : j = Coming(1)[2]
    BY <2>0, ComingType DEF ExecInv
  <2>2. ASSUME NEW i \in 1 .. n, i < j PROVE Over(i)
    <3>1. todo # << >> => i < Len(transfers)
      BY <1>1, <2>1, <2>2
    <3>2. ASSUME NEW k \in 1 .. Len(rx) PROVE rx[k][2] # i
      <4>1. k \in 1 .. Ahead /\ 1 <= k
        BY <1>2
      <4>2. Coming(k) = rx[k]
        BY <1>2 DEF Coming
      <4>3. Coming(1)[2] <= Coming(k)[2] /\ Coming(k)[2] \in 1 .. n
        BY <2>0, <4>1, ComingType DEF InOrder, ExecInv
      <4> QED
        BY <1>1, <2>1, <2>2, <4>2, <4>3
    <3> QED
      BY <3>1, <3>2 DEF Over
  <2>3. \A i \in 1 .. n : i < j => f[i] = g[i]
    BY <1>3, <2>2
  <2>4. \A i \in 1 .. n : i > j => f[i] = << >>
    <3>1. \A i \in 1 .. n : i > j => executed[i] = << >>
      BY <2>0, <2>1 DEF InOrder
    <3>2. \A i : Part(d, i, << >>) = << >>
      BY NoBytes DEF Part
    <3> QED
      BY <1>1, <3>1, <3>2
  <2>5. Starts(Byte, f[j], g[j])
    <3>1. CASE transfers[j] # << >> /\ transfers[j][1] = d
      <4>1. executed[j] \in Seq(Full) /\ Meant(transfers[j]) \in Seq(Full)
        BY <3>1, ExecutedFull
      <4>2. IsPrefix(executed[j], Meant(transfers[j]))
        BY <3>1, ExecMeans DEF ExecutedAsMeant
      <4>3. Starts(Byte, Bytes(executed[j]), Bytes(Meant(transfers[j])))
        BY <4>1, <4>2, BytesBegin
      <4> QED
        BY <1>1, <3>1, <4>3 DEF Part
    <3>2. CASE ~(transfers[j] # << >> /\ transfers[j][1] = d)
      <4>1. f[j] = << >> /\ g[j] = << >>
        BY <1>1, <3>2 DEF Part
      <4>2. << >> \in Seq(Byte) /\ << >> \o << >> = << >>
        OBVIOUS
      <4> QED
        BY <4>1, <4>2 DEF Starts
    <3> QED
      BY <3>1, <3>2
  <2> HIDE DEF f, g, n
  <2>6. n <= n /\ j \in Nat
    BY <1>1
  <2>7. Beginning(Byte, n, n, f, g, j)
    BY <1>1, <2>3, <2>4, <2>5, <2>6 DEF Beginning
  <2>8. Starts(Byte, FlattenSeq(f), FlattenSeq(g))
    BY <2>7, FlattenBegins
  <2>9. ~(todo = << >> /\ rx = << >>)
    BY <1>2, <1>7
  <2> QED
    BY <2>8, <2>9 DEF f, g
<1> QED
  BY <1>2, <1>6, <1>7

LEMMA PassMeans == ExecInv /\ PassInv => PassedOn
<1> SUFFICES ASSUME ExecInv, PassInv, cut = {}
             PROVE  \A d \in Message : /\ IsPrefix(Given(d), Asked(d))
                                       /\ AtRest => Given(d) = Asked(d)
  BY TwoMessages, Zenon DEF PassedOn, Given
<1>1. InOrder /\ Lines /\ Owed
  BY DEF PassInv
<1> TAKE d \in Message
<1>2. PICK a \in Seq(Byte), e \in Seq(Byte) :
        a = Asked(d) /\ a = FlattenSeq(Wants(d)) /\ e = FlattenSeq(Parts(d))
  BY PartsType, AskedIs
<1>3. /\ Starts(Byte, e, a)
      /\ todo = << >> /\ rx = << >> => e = a
  BY <1>1, <1>2, ExecutedOfAsked, Zenon
<1>4. PICK v \in Seq(Byte) : a = e \o v
  BY <1>3 DEF Starts
<1>5. PICK s \in Seq(Byte), u \in Seq(Byte) : s = Given(d) /\ u = Left(d) /\ s \o u = e
  <2>1. Given(d) \in Seq(Byte)
    <3>1. midiSent \o midi \in Seq(Byte) /\ busSent \o bus \in Seq(Byte)
      BY <1>1, Joined DEF Lines
    <3> QED
      BY <3>1 DEF Given
  <2>2. Left(d) \in Seq(Byte)
    <3>1. passing # << >> => Tail(passing) \in Seq(Byte)
      BY <1>1, TailOf DEF Lines
    <3>2. << >> \in Seq(Byte)
      OBVIOUS
    <3> QED
      BY <3>1, <3>2 DEF Left
  <2> QED
    BY <1>1, <1>2, <2>1, <2>2, Zenon DEF Owed
<1>6. IsPrefix(s, a)
  <2>1. (s \o u) \o v = s \o (u \o v) /\ u \o v \in Seq(Byte)
    BY JoinsBytes, Zenon
  <2>2. \E w \in Seq(Byte) : a = s \o w
    BY <1>4, <1>5, <2>1, Zenon
  <2> QED
    BY <2>2, PrefixIs
<1>7. ASSUME AtRest PROVE s = a
  <2>1. u = << >> /\ e = a
    BY <1>3, <1>5, <1>7 DEF AtRest, Left
  <2>2. s \o << >> = s
    BY Joins
  <2> QED
    BY <1>5, <2>1, <2>2
<1> QED
  BY <1>2, <1>5, <1>6, <1>7
-----------------------------------------------------------------------------
(* The theorems.                                                           *)

LEMMA SlaveInvariant == Spec => [](ReadInv /\ ExecInv)
<1>1. Init => ReadInv /\ ExecInv
  BY ReadInit, ExecInit
<1>2. ReadInv /\ ExecInv /\ [Next]_vars => (ReadInv /\ ExecInv)'
  BY ReadNext, ExecNext
<1> QED
  BY <1>1, <1>2, PTL DEF Spec

\* The bridge is a slave: what its master, its handler and its main loop do is
\* what they do without the outputs, however long those are waited for.
THEOREM BridgeImplementsSlave == BridgeSpec => Spec
<1>1. BridgeInit => Init
  BY DEF BridgeInit
<1>2. [BridgeNext]_bridgeVars => [Next]_vars
  BY BridgeStep
<1> QED
  BY <1>1, <1>2, PTL DEF BridgeSpec, Spec

\* The type invariant, of the slave and so of the bridge.
THEOREM TypeCorrect == BridgeSpec => []TypeOK
<1>1. ReadInv /\ ExecInv => TypeOK
  BY DEF ReadInv
<1> QED
  BY <1>1, BridgeImplementsSlave, SlaveInvariant, PTL

\* Whatever the master reads and whenever, the index stays inside the response
\* and a response that was ready is given byte after byte.
THEOREM AnswersRead == BridgeSpec => []ReadsTheResponse
<1>1. ReadInv /\ ExecInv => ReadsTheResponse
  BY DEF ReadInv
<1> QED
  BY <1>1, BridgeImplementsSlave, SlaveInvariant, PTL

\* A transfer the ring took whole is executed as it was meant, whatever came
\* before it and whatever the ring lost of others, for a ring of any size.
THEOREM MeantAndDone == BridgeSpec => []ExecutedAsMeant
<1>1. ReadInv /\ ExecInv => ExecutedAsMeant
  BY ExecMeans
<1> QED
  BY <1>1, BridgeImplementsSlave, SlaveInvariant, PTL

\* As long as the ring takes everything, each output is given what the master
\* asked for, whole and in order, and all of it once the module has caught up,
\* for queues of any size and any messages.
THEOREM AllPassedOn == BridgeSpec => []PassedOn
<1>1. BridgeInit => ReadInv /\ ExecInv /\ PassInv
  BY ReadInit, ExecInit, PassInit DEF BridgeInit
<1>2. ReadInv /\ ExecInv /\ PassInv /\ [BridgeNext]_bridgeVars
        => (ReadInv /\ ExecInv /\ PassInv)'
  BY BridgeStep, ReadNext, ExecNext, PassNext
<1>3. ReadInv /\ ExecInv /\ PassInv => PassedOn
  BY PassMeans
<1> QED
  BY <1>1, <1>2, <1>3, PTL DEF BridgeSpec
=============================================================================
