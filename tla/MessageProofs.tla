--------------------------- MODULE MessageProofs ---------------------------
(***************************************************************************)
(* Theorems about a message on its way: Reader, which takes it from the    *)
(* connection (its types, the limit and what is read, for any limit,       *)
(* buffer and number of units), and Data, which keeps it in the envelope   *)
(* (where it is cut into header and body, for any messages and fields).    *)
(***************************************************************************)
EXTENDS Reader, Data, TLAPS, WellFoundedInduction, SequenceTheorems

\* Every unit that was read since the last reset was paid for out of the limit
\* or was read ahead of the reset.
Accounts == since + Len(line) + Len(buf) = (MaxSize - left) + ahead

\* The beginning of a line is kept only while a command is read.
LineOfCommand == mode \in {"data", "tls"} => line = <<>>

\* What waits on the wire was sent in the layer that reads it.
WireLayer == \A j \in DOMAIN wire : wire[j].layer = layer

Inv == TypeOK /\ Accounts /\ LineOfCommand /\ WireLayer /\ TLSReadsTLS

---------------------------------------------------------------------------
(* Lemmas about sequences.                                                 *)

\* A part of a sequence from some place on has elements of the sequence.
LEMMA Rest ==
  ASSUME NEW S, NEW s \in Seq(S), NEW n \in 0 .. Len(s)
  PROVE  /\ SubSeq(s, n + 1, Len(s)) \in Seq(S)
         /\ Len(SubSeq(s, n + 1, Len(s))) = Len(s) - n
         /\ \A j \in DOMAIN SubSeq(s, n + 1, Len(s)) :
               n + j \in DOMAIN s /\ SubSeq(s, n + 1, Len(s))[j] = s[n + j]
  OBVIOUS

\* The same of the first elements.
LEMMA First ==
  ASSUME NEW S, NEW s \in Seq(S), NEW n \in 0 .. Len(s)
  PROVE  /\ SubSeq(s, 1, n) \in Seq(S)
         /\ Len(SubSeq(s, 1, n)) = n
         /\ \A j \in DOMAIN SubSeq(s, 1, n) :
               j \in DOMAIN s /\ SubSeq(s, 1, n)[j] = s[j]
  OBVIOUS

---------------------------------------------------------------------------
(* The invariant of Reader.                                                *)

LEMMA InitInv == Init => Inv
  BY MaxSizeAssumption, BufSizeAssumption, MaxLayersAssumption
  DEF Init, Inv, TypeOK, Accounts, LineOfCommand, WireLayer, TLSReadsTLS, Units

LEMMA ClientStep == Inv /\ (ClientSends \/ ClientCloses) => Inv'
  <1>1. ASSUME Inv, ClientSends PROVE Inv'
    <2>1. PICK k \in {"text", "nl", "dot"} :
             wire' = Append(wire, [id |-> sent + 1, kind |-> k, layer |-> layer])
      BY <1>1 DEF ClientSends
    <2>2. UNCHANGED <<client, readerVars, mode, layer, countVars>> /\ sent' = sent + 1
      BY <1>1 DEF ClientSends
    <2>3. [id |-> sent + 1, kind |-> k, layer |-> layer] \in Units
      BY <1>1 DEF Inv, TypeOK, Units
    <2>4. wire' \in Seq(Units) /\ \A j \in DOMAIN wire' : wire'[j].layer = layer
      BY <1>1, <2>1, <2>3 DEF Inv, TypeOK, WireLayer
    <2> QED
      BY <1>1, <2>2, <2>4
      DEF Inv, TypeOK, Accounts, LineOfCommand, WireLayer, TLSReadsTLS, readerVars, countVars
  <1>2. ASSUME Inv, ClientCloses PROVE Inv'
    BY <1>2 DEF ClientCloses, Inv, TypeOK, Accounts, LineOfCommand, WireLayer, TLSReadsTLS,
                readerVars, countVars
  <1> QED
    BY <1>1, <1>2

LEMMA FillStep == Inv /\ Fill => Inv'
  <1> SUFFICES ASSUME Inv, Fill PROVE Inv'
    OBVIOUS
  <1>1. PICK n \in 1 .. Len(wire) :
           /\ n <= left /\ n <= BufSize - Len(buf)
           /\ buf' = buf \o SubSeq(wire, 1, n)
           /\ wire' = SubSeq(wire, n + 1, Len(wire))
           /\ left' = left - n
    BY DEF Fill
  <1>2. UNCHANGED <<client, sent, line, mode, layer, countVars>>
    BY DEF Fill
  <1>3. wire \in Seq(Units) /\ buf \in Seq(Units) /\ n \in 0 .. Len(wire)
    BY DEF Inv, TypeOK
  <1>4. /\ SubSeq(wire, 1, n) \in Seq(Units) /\ Len(SubSeq(wire, 1, n)) = n
        /\ \A j \in DOMAIN SubSeq(wire, 1, n) : SubSeq(wire, 1, n)[j].layer = layer
    BY <1>3, First DEF Inv, WireLayer
  <1>5. wire' \in Seq(Units) /\ \A j \in DOMAIN wire' : wire'[j].layer = layer
    BY <1>1, <1>3, Rest DEF Inv, WireLayer
  <1>6. buf' \in Seq(Units) /\ Len(buf') = Len(buf) + n
    BY <1>1, <1>3, <1>4
  <1>7. \A j \in DOMAIN buf' : buf'[j].layer = layer
    BY <1>1, <1>3, <1>4 DEF Inv, TLSReadsTLS
  <1>8. TypeOK'
    BY <1>1, <1>2, <1>5, <1>6, MaxSizeAssumption, BufSizeAssumption DEF Inv, TypeOK, countVars
  <1>9. Accounts'
    <2>1. UNCHANGED <<since, line, ahead>> /\ left' = left - n /\ Len(buf') = Len(buf) + n
      BY <1>1, <1>2, <1>6 DEF countVars
    <2>2. /\ since \in Nat /\ ahead \in Nat /\ left \in Nat /\ n \in Nat
          /\ Len(line) \in Nat /\ Len(buf) \in Nat
      BY BufSizeAssumption, MaxSizeAssumption DEF Inv, TypeOK
    <2> QED
      BY <2>1, <2>2, MaxSizeAssumption DEF Inv, Accounts
  <1> QED
    BY <1>2, <1>5, <1>7, <1>8, <1>9 DEF Inv, LineOfCommand, WireLayer, TLSReadsTLS

LEMMA TakePartStep == Inv /\ TakePart => Inv'
  <1> SUFFICES ASSUME Inv, TakePart PROVE Inv'
    OBVIOUS
  <1>1. /\ UNCHANGED <<wire, client, sent, left, mode, layer, consumed, since, ahead>>
        /\ mode = "cmd" /\ line' = line \o buf /\ buf' = <<>>
    BY DEF TakePart, countVars
  <1>2. line \in Seq(Units) /\ buf \in Seq(Units)
    BY DEF Inv, TypeOK
  <1>3. /\ line' \in Seq(Units) /\ Len(line') = Len(line) + Len(buf)
        /\ Len(buf') = 0 /\ buf' \in Seq(Units)
    BY <1>1, <1>2
  <1>4. TypeOK'
    BY <1>1, <1>3, BufSizeAssumption DEF Inv, TypeOK
  <1>5. Accounts'
    <2>1. since \in Nat /\ Len(line) \in Nat /\ Len(buf) \in Nat
      BY <1>2 DEF Inv, TypeOK
    <2> QED
      BY <1>1, <1>3, <2>1 DEF Inv, Accounts
  <1> QED
    BY <1>1, <1>4, <1>5 DEF Inv, LineOfCommand, WireLayer, TLSReadsTLS

\* A command takes the first n units of the buffer.
LEMMA CommandStep ==
  ASSUME Inv, mode = "cmd", NEW n \in 0 .. Len(buf), NEW rest,
         rest = SubSeq(buf, n + 1, Len(buf)),
         consumed' \in Nat, buf' = rest, CommandDone(Len(line) + n, rest),
         UNCHANGED <<wire, client, sent, layer>>
  PROVE  Inv'
  <1>1. /\ buf \in Seq(Units) /\ Len(buf) \in Nat /\ Len(line) \in Nat
        /\ since \in Nat /\ ahead \in Nat /\ left \in 0 .. MaxSize
    BY BufSizeAssumption DEF Inv, TypeOK
  <1>2. /\ rest \in Seq(Units) /\ Len(rest) = Len(buf) - n
        /\ \A j \in DOMAIN rest : rest[j].layer = layer
    BY <1>1, Rest DEF Inv, TLSReadsTLS
  <1>3. line' = <<>> /\ Len(line') = 0 /\ Len(buf') = Len(buf) - n
    BY <1>2 DEF CommandDone
  <1>4. TypeOK' /\ LineOfCommand' /\ WireLayer' /\ TLSReadsTLS'
    <2>1. CASE ResetLimit /\ ConsumeAndReset(rest) /\ UNCHANGED mode
      BY <1>1, <1>2, <1>3, <2>1, MaxSizeAssumption, BufSizeAssumption
      DEF Inv, TypeOK, LineOfCommand, WireLayer, TLSReadsTLS, ResetLimit, ConsumeAndReset
    <2>2. CASE /\ mode' \in {"cmd", "data"} \cup {"tls"}
               /\ Consume(Len(line) + n) /\ UNCHANGED left
      <3>1. mode' \in {"cmd", "data", "tls", "dead"}
        BY <2>2
      <3> QED
        BY <1>1, <1>2, <1>3, <2>2, <3>1, MaxSizeAssumption, BufSizeAssumption
        DEF Inv, TypeOK, LineOfCommand, WireLayer, TLSReadsTLS, Consume
    <2> QED
      BY <2>1, <2>2 DEF CommandDone
  <1>5. Accounts'
    <2>1. CASE ResetLimit /\ ConsumeAndReset(rest)
      BY <1>2, <1>3, <2>1, MaxSizeAssumption DEF Accounts, ResetLimit, ConsumeAndReset
    <2>2. CASE Consume(Len(line) + n) /\ UNCHANGED left
      <3>1. n \in Nat /\ n <= Len(buf)
        BY <1>1
      <3>2. since' = since + (Len(line) + n) /\ ahead' = ahead /\ left' = left
        BY <2>2 DEF Consume
      <3>3. since + Len(line) + Len(buf) = (MaxSize - left) + ahead
        BY DEF Inv, Accounts
      <3>4. since' + Len(line') + Len(buf') = since + Len(line) + Len(buf)
        BY ONLY <1>1, <1>3, <3>1, <3>2
      <3> QED
        BY ONLY <3>2, <3>3, <3>4 DEF Accounts
    <2> QED
      BY <2>1, <2>2 DEF CommandDone
  <1> QED
    BY <1>4, <1>5 DEF Inv

\* The place that ReadLine and ReadMessage look for.
LEMMA FirstEnd ==
  ASSUME buf \in Seq(Units), EndsIn(buf) # {}
  PROVE  (CHOOSE i \in EndsIn(buf) : \A k \in EndsIn(buf) : i <= k) \in 1 .. Len(buf)
  <1>1. EndsIn(buf) \subseteq Nat /\ EndsIn(buf) \subseteq 1 .. Len(buf)
    BY DEF EndsIn
  <1>2. PICK i \in EndsIn(buf) : \A k \in EndsIn(buf) : i <= k
    <2>1. PICK i \in EndsIn(buf) : \A k \in EndsIn(buf) : <<k, i>> \notin OpToRel(<, Nat)
      BY <1>1, WFMin, NatLessThanWellFounded, Zenon
    <2>2. \A k \in EndsIn(buf) : ~(k < i)
      BY <1>1, <2>1 DEF OpToRel
    <2> QED
      BY <1>1, <2>2
  <1> QED
    BY <1>1, <1>2

LEMMA ReadLineStep == Inv /\ ReadLine => Inv'
  <1> SUFFICES ASSUME Inv, ReadLine PROVE Inv'
    OBVIOUS
  <1> DEFINE j == CHOOSE i \in EndsIn(buf) : \A k \in EndsIn(buf) : i <= k
  <1>1. buf \in Seq(Units) /\ j \in 1 .. Len(buf)
    BY FirstEnd DEF ReadLine, Inv, TypeOK
  <1>2. /\ consumed' = buf[j].id /\ buf' = SubSeq(buf, j + 1, Len(buf))
        /\ CommandDone(Len(line) + j, SubSeq(buf, j + 1, Len(buf)))
        /\ mode = "cmd" /\ UNCHANGED <<wire, client, sent, layer>>
    BY DEF ReadLine
  <1>3. consumed' \in Nat
    <2>1. buf[j] \in Units
      BY <1>1
    <2> QED
      BY <1>2, <2>1 DEF Units
  <1>4. j \in 0 .. Len(buf)
    BY <1>1
  <1> HIDE DEF j
  <1> QED
    BY <1>2, <1>3, <1>4, CommandStep

LEMMA ReadCutLineStep == Inv /\ ReadCutLine => Inv'
  <1> SUFFICES ASSUME Inv, ReadCutLine PROVE Inv'
    OBVIOUS
  <1>1. buf \in Seq(Units) /\ buf # <<>>
    BY DEF ReadCutLine, Inv, TypeOK
  <1>2. /\ Len(buf) \in 0 .. Len(buf) /\ Len(buf) \in DOMAIN buf
        /\ SubSeq(buf, Len(buf) + 1, Len(buf)) = <<>>
    BY <1>1
  <1>3. /\ consumed' = buf[Len(buf)].id /\ buf' = <<>>
        /\ CommandDone(Len(line) + Len(buf), <<>>)
        /\ mode = "cmd" /\ UNCHANGED <<wire, client, sent, layer>>
    BY DEF ReadCutLine
  <1>4. consumed' \in Nat
    <2>1. buf[Len(buf)] \in Units
      BY <1>1, <1>2
    <2> QED
      BY <1>3, <2>1 DEF Units
  <1> QED
    BY <1>2, <1>3, <1>4, CommandStep

\* The end of the message and what is read ahead of the next command.
LEMMA ReadMessageStep == Inv /\ ReadMessage => Inv'
  <1> SUFFICES ASSUME Inv, ReadMessage PROVE Inv'
    OBVIOUS
  <1> DEFINE j == CHOOSE i \in EndsIn(buf) : \A k \in EndsIn(buf) : i <= k
             rest == SubSeq(buf, j + 1, Len(buf))
  <1>1. buf \in Seq(Units) /\ j \in 1 .. Len(buf) /\ line = <<>>
    BY FirstEnd DEF ReadMessage, Inv, TypeOK, LineOfCommand
  <1>2. /\ consumed' = buf[j].id /\ buf' = rest
        /\ since' = 0 /\ ahead' = Len(rest) /\ left' = MaxSize /\ mode' = "cmd"
        /\ UNCHANGED <<wire, client, sent, line, layer>>
    BY DEF ReadMessage, ConsumeAndReset, ResetLimit
  <1>3. consumed' \in Nat
    <2>1. buf[j] \in Units
      BY <1>1
    <2> QED
      BY <1>2, <2>1 DEF Units
  <1>4. j \in 0 .. Len(buf) /\ Len(buf) \in Nat
    BY <1>1
  <1> HIDE DEF j
  <1>5. /\ rest \in Seq(Units) /\ Len(rest) = Len(buf) - j
        /\ \A k \in DOMAIN rest : rest[k].layer = layer
    BY <1>1, <1>4, Rest DEF Inv, TLSReadsTLS
  <1> HIDE DEF rest
  <1>6. TypeOK'
    BY <1>1, <1>2, <1>3, <1>4, <1>5, MaxSizeAssumption, BufSizeAssumption DEF Inv, TypeOK
  <1>7. Accounts'
    BY <1>1, <1>2, <1>4, <1>5, MaxSizeAssumption DEF Accounts
  <1> QED
    BY <1>1, <1>2, <1>5, <1>6, <1>7 DEF Inv, LineOfCommand, WireLayer, TLSReadsTLS

LEMMA CopyMessageStep == Inv /\ CopyMessage => Inv'
  <1> SUFFICES ASSUME Inv, CopyMessage PROVE Inv'
    OBVIOUS
  <1>1. buf \in Seq(Units) /\ buf # <<>> /\ line = <<>> /\ since \in Nat
    BY DEF CopyMessage, Inv, TypeOK, LineOfCommand
  <1>2. Len(buf) \in DOMAIN buf /\ Len(buf) \in Nat /\ Len(line) = 0
    BY <1>1
  <1>3. /\ consumed' = buf[Len(buf)].id /\ buf' = <<>>
        /\ since' = since + Len(buf)
        /\ UNCHANGED <<wire, client, sent, left, line, mode, layer, ahead>>
    BY DEF CopyMessage, Consume
  <1>4. consumed' \in Nat
    <2>1. buf[Len(buf)] \in Units
      BY <1>1, <1>2
    <2> QED
      BY <1>3, <2>1 DEF Units
  <1>5. TypeOK'
    BY <1>1, <1>2, <1>3, <1>4, BufSizeAssumption DEF Inv, TypeOK
  <1>6. Accounts'
    BY <1>1, <1>2, <1>3 DEF Inv, Accounts
  <1> QED
    BY <1>3, <1>5, <1>6 DEF Inv, LineOfCommand, WireLayer, TLSReadsTLS

LEMMA HandshakeStep == Inv /\ (Handshake \/ HandshakeFails) => Inv'
  <1>1. ASSUME Inv, Handshake PROVE Inv'
    <2>1. layer' \in 0 .. MaxLayers
      <3>1. layer \in 0 .. MaxLayers /\ layer < MaxLayers /\ layer' = layer + 1
        BY <1>1 DEF Inv, TypeOK, Handshake
      <3> QED
        BY ONLY <3>1, MaxLayersAssumption
    <2>2. /\ buf' = <<>> /\ wire' = <<>> /\ wire = <<>> /\ left' = MaxSize /\ mode' = "cmd"
          /\ since' = 0 /\ ahead' = 0 /\ consumed' = sent /\ UNCHANGED <<client, sent, line>>
          /\ line = <<>>
      BY <1>1 DEF Handshake, ResetLimit, Inv, LineOfCommand
    <2> QED
      BY <1>1, <2>1, <2>2, MaxSizeAssumption, BufSizeAssumption
      DEF Inv, TypeOK, Accounts, LineOfCommand, WireLayer, TLSReadsTLS
  <1>2. ASSUME Inv, HandshakeFails PROVE Inv'
    <2>1. PICK n \in 0 .. Len(wire) : wire' = SubSeq(wire, n + 1, Len(wire))
      BY <1>2 DEF HandshakeFails
    <2>2. wire' \in Seq(Units) /\ \A j \in DOMAIN wire' : wire'[j].layer = layer
      BY <1>2, <2>1, Rest DEF Inv, TypeOK, WireLayer
    <2> QED
      BY <1>2, <2>2
      DEF HandshakeFails, Inv, TypeOK, Accounts, LineOfCommand, WireLayer, TLSReadsTLS,
          readerVars, countVars
  <1> QED
    BY <1>1, <1>2

LEMMA ReadFailsStep == Inv /\ ReadFails => Inv'
  BY DEF ReadFails, Inv, TypeOK, Accounts, LineOfCommand, WireLayer, TLSReadsTLS,
         readerVars, countVars

LEMMA StutterStep == Inv /\ UNCHANGED vars => Inv'
  BY DEF vars, Inv, TypeOK, Accounts, LineOfCommand, WireLayer, TLSReadsTLS,
         readerVars, countVars

LEMMA NextInv == Inv /\ [Next]_vars => Inv'
  BY ClientStep, FillStep, TakePartStep, ReadLineStep, ReadCutLineStep, ReadFailsStep,
     ReadMessageStep, CopyMessageStep, HandshakeStep, StutterStep
  DEF Next, ServerStep

LEMMA InvHolds == Spec => []Inv
  BY InitInv, NextInv, PTL DEF Spec

---------------------------------------------------------------------------
(* Nothing is lost.                                                        *)

\* Concatenation under a name, so that its instances are found.
Cat(s, t) == s \o t

LEMMA CatType ==
    ASSUME NEW S, NEW s \in Seq(S), NEW t \in Seq(S)
    PROVE  /\ Cat(s, t) \in Seq(S)
           /\ Len(Cat(s, t)) = Len(s) + Len(t)
BY DEF Cat

LEMMA CatAssociative ==
    ASSUME NEW S, NEW s \in Seq(S), NEW t \in Seq(S), NEW u \in Seq(S)
    PROVE  Cat(Cat(s, t), u) = Cat(s, Cat(t, u))
BY ConcatAssociative DEF Cat

\* Two sequences cut apart and put together.
LEMMA Rejoined ==
  ASSUME NEW S, NEW s \in Seq(S), NEW t \in Seq(S), NEW u \in Seq(S), NEW n \in 0 .. Len(u)
  PROVE  Cat(Cat(s, Cat(t, SubSeq(u, 1, n))), SubSeq(u, n + 1, Len(u))) = Cat(Cat(s, t), u)
  <1> DEFINE a == SubSeq(u, 1, n)
             b == SubSeq(u, n + 1, Len(u))
  <1>1. a \in Seq(S) /\ b \in Seq(S)
    BY First, Rest
  <1>2. Cat(a, b) = u
    <2>1. /\ Len(u) \in Nat /\ 1 \in 1 .. Len(u) + 1
          /\ n \in 1 - 1 .. Len(u) /\ Len(u) \in n .. Len(u)
      OBVIOUS
    <2>2. a \o b = SubSeq(u, 1, Len(u))
      BY ONLY <2>1, ConcatAdjacentSubSeq, u \in Seq(S)
    <2> QED
      BY <2>2, SubSeqFull DEF Cat
  <1> HIDE DEF a, b
  <1>3. Cat(s, t) \in Seq(S) /\ Cat(Cat(s, t), a) = Cat(s, Cat(t, a))
    BY <1>1, CatType, CatAssociative
  <1>4. Cat(Cat(Cat(s, t), a), b) = Cat(Cat(s, t), Cat(a, b))
    BY <1>1, <1>3, CatAssociative
  <1> QED
    BY <1>2, <1>3, <1>4 DEF a, b

\* What is left of s, t and u when s and the first n elements of t are taken.
LEMMA Taken ==
  ASSUME NEW S, NEW s \in Seq(S), NEW t \in Seq(S), NEW u \in Seq(S), NEW n \in 1 .. Len(t)
  PROVE  LET p == Cat(Cat(s, t), u)
             m == Len(s) + n
         IN  /\ m \in 1 .. Len(p) /\ p[m] = t[n]
             /\ SubSeq(p, m + 1, Len(p)) = Cat(Cat(<<>>, SubSeq(t, n + 1, Len(t))), u)
  <1> DEFINE p == (s \o t) \o u
             m == Len(s) + n
             r == SubSeq(t, n + 1, Len(t))
             q == SubSeq(p, m + 1, Len(p))
  <1>1. /\ s \o t \in Seq(S) /\ Len(s \o t) = Len(s) + Len(t)
        /\ \A i \in 1 .. Len(s) + Len(t) : (s \o t)[i] = IF i <= Len(s) THEN s[i] ELSE t[i - Len(s)]
    BY ConcatProperties
  <1>2. /\ p \in Seq(S) /\ Len(p) = (Len(s) + Len(t)) + Len(u)
        /\ \A i \in 1 .. (Len(s) + Len(t)) + Len(u) :
              p[i] = IF i <= Len(s) + Len(t) THEN (s \o t)[i] ELSE u[i - (Len(s) + Len(t))]
    BY <1>1, ConcatProperties
  <1>3. Len(s) \in Nat /\ Len(t) \in Nat /\ Len(u) \in Nat /\ n \in Nat /\ n >= 1 /\ n <= Len(t)
    OBVIOUS
  <1>4. m \in 1 .. Len(p) /\ m \in 0 .. Len(p) /\ n \in 0 .. Len(t)
    BY <1>2, <1>3
  <1>5. p[m] = t[n]
    BY <1>1, <1>2, <1>3
  <1>6. /\ r \in Seq(S) /\ Len(r) = Len(t) - n
        /\ \A i \in 1 .. Len(t) - n : r[i] = t[n + i]
    BY <1>3, <1>4
  <1>7. /\ q \in Seq(S) /\ Len(q) = Len(p) - m
        /\ \A i \in 1 .. Len(p) - m : q[i] = p[m + i]
    <2> HIDE DEF p, m
    <2> QED
      BY <1>2, <1>4
  <1>8. <<>> \o r = r
    BY <1>6, ConcatEmptySeq
  <1>9. /\ r \o u \in Seq(S) /\ Len(r \o u) = (Len(t) - n) + Len(u)
        /\ \A i \in 1 .. (Len(t) - n) + Len(u) :
              (r \o u)[i] = IF i <= Len(t) - n THEN r[i] ELSE u[i - (Len(t) - n)]
    <2> HIDE DEF r
    <2>1. /\ r \o u \in Seq(S) /\ Len(r \o u) = Len(r) + Len(u)
          /\ \A i \in 1 .. Len(r) + Len(u) :
                (r \o u)[i] = IF i <= Len(r) THEN r[i] ELSE u[i - Len(r)]
      BY ONLY <1>6, ConcatProperties, u \in Seq(S), Zenon
    <2> QED
      BY <1>6, <2>1
  <1>10. Len(q) = Len(r \o u) /\ Len(p) - m = (Len(t) - n) + Len(u)
    BY <1>2, <1>3, <1>7, <1>9
  <1>11. ASSUME NEW i \in 1 .. (Len(t) - n) + Len(u) PROVE q[i] = (r \o u)[i]
    <2>0. i \in 1 .. Len(p) - m
      BY ONLY <1>10, i \in 1 .. (Len(t) - n) + Len(u)
    <2>1. q[i] = p[m + i] /\ m + i \in 1 .. (Len(s) + Len(t)) + Len(u) /\ i \in Nat
      <3>1. q[i] = p[m + i]
        BY ONLY <1>7, <2>0
      <3>2. i \in Nat /\ 1 <= i /\ i <= (Len(t) - n) + Len(u)
        BY ONLY <1>3, i \in 1 .. (Len(t) - n) + Len(u)
      <3>3. m + i \in 1 .. (Len(s) + Len(t)) + Len(u)
        BY ONLY <1>3, <3>2
      <3> QED
        BY ONLY <3>1, <3>2, <3>3
    <2>2. CASE i <= Len(t) - n
      <3>1. p[m + i] = (s \o t)[m + i] /\ (s \o t)[m + i] = t[n + i]
        BY <1>1, <1>2, <1>3, <2>1, <2>2
      <3>2. (r \o u)[i] = t[n + i]
        <4>1. i \in 1 .. Len(t) - n
          BY <1>3, <2>1, <2>2
        <4> HIDE DEF r
        <4>2. (r \o u)[i] = r[i]
          BY <1>9, <2>2
        <4> QED
          BY <1>6, <4>1, <4>2
      <3> QED
        BY <2>1, <3>1, <3>2
    <2>3. CASE ~(i <= Len(t) - n)
      <3>1. p[m + i] = u[(m + i) - (Len(s) + Len(t))]
        BY <1>2, <1>3, <2>1, <2>3
      <3>2. (m + i) - (Len(s) + Len(t)) = i - (Len(t) - n)
        BY <1>3, <2>1
      <3>3. (r \o u)[i] = u[i - (Len(t) - n)]
        BY <1>9, <2>3
      <3> QED
        BY <2>1, <3>1, <3>2, <3>3
    <2> QED
      BY <2>2, <2>3
  <1>12. q = r \o u
    <2> HIDE DEF q, r, p, m
    <2> QED
      BY <1>7, <1>9, <1>10, <1>11, SeqEqual
  <1> QED
    BY <1>4, <1>5, <1>8, <1>12 DEF Cat

NoneLost ==
  \/ Pending' = Pending
  \/ sent' = sent + 1 /\ Pending' = Append(Pending, wire'[Len(wire')])
  \/ \E n \in 1 .. Len(Pending) :
        /\ consumed' = Pending[n].id
        /\ Pending' = SubSeq(Pending, n + 1, Len(Pending))

\* A command or a message that ends with unit j of the buffer.
LEMMA TakenFromBuffer ==
  ASSUME Inv, NEW j \in 1 .. Len(buf),
         consumed' = buf[j].id, buf' = SubSeq(buf, j + 1, Len(buf)),
         line' = <<>>, wire' = wire
  PROVE  NoneLost
  <1>1. line \in Seq(Units) /\ buf \in Seq(Units) /\ wire \in Seq(Units)
    BY DEF Inv, TypeOK
  <1> DEFINE p == Cat(Cat(line, buf), wire)
  <1>2. /\ Len(line) + j \in 1 .. Len(p) /\ p[Len(line) + j] = buf[j]
        /\ SubSeq(p, (Len(line) + j) + 1, Len(p))
             = Cat(Cat(<<>>, SubSeq(buf, j + 1, Len(buf))), wire)
    BY ONLY <1>1, Taken, j \in 1 .. Len(buf)
  <1>3. Pending = p /\ Pending' = Cat(Cat(<<>>, SubSeq(buf, j + 1, Len(buf))), wire)
    BY DEF Pending, Cat
  <1> HIDE DEF p
  <1> QED
    BY <1>2, <1>3 DEF NoneLost

LEMMA NoneLostStep == Inv /\ [Next]_vars /\ mode # "tls" => NoneLost \/ UNCHANGED vars
  <1> SUFFICES ASSUME Inv, Next, mode # "tls" PROVE NoneLost
    OBVIOUS
  <1>0. line \in Seq(Units) /\ buf \in Seq(Units) /\ wire \in Seq(Units)
    BY DEF Inv, TypeOK
  <1>1. CASE ClientSends
    <2>1. PICK k \in {"text", "nl", "dot"} :
             wire' = Append(wire, [id |-> sent + 1, kind |-> k, layer |-> layer])
      BY <1>1 DEF ClientSends
    <2> DEFINE u == [id |-> sent + 1, kind |-> k, layer |-> layer]
    <2>2. u \in Units
      BY DEF Inv, TypeOK, Units
    <2> HIDE DEF u
    <2>3. wire' = Append(wire, u)
      BY <2>1 DEF u
    <2>4. wire' = wire \o <<u>> /\ wire'[Len(wire')] = u /\ <<u>> \in Seq(Units)
      BY <1>0, <2>2, <2>3, AppendIsConcat
    <2>5. line \o buf \in Seq(Units)
      BY <1>0, ConcatProperties
    <2>6. Pending \in Seq(Units)
      BY <1>0, <2>5, ConcatProperties DEF Pending
    <2>7. (line \o buf) \o (wire \o <<u>>) = ((line \o buf) \o wire) \o <<u>>
      BY ONLY <1>0, <2>4, <2>5, ConcatAssociative
    <2>8. Pending' = (line \o buf) \o wire'
      BY <1>1 DEF Pending, ClientSends, readerVars
    <2>9. Append(Pending, u) = Pending \o <<u>>
      BY <2>2, <2>6, AppendIsConcat
    <2>10. Pending' = Append(Pending, wire'[Len(wire')])
      BY <2>4, <2>7, <2>8, <2>9 DEF Pending
    <2> QED
      BY <1>1, <2>10 DEF ClientSends, NoneLost
  <1>2. CASE ClientCloses \/ ReadFails
    BY <1>2 DEF ClientCloses, ReadFails, readerVars, NoneLost, Pending
  <1>3. CASE Fill
    <2>1. PICK n \in 1 .. Len(wire) :
             /\ buf' = buf \o SubSeq(wire, 1, n)
             /\ wire' = SubSeq(wire, n + 1, Len(wire))
      BY <1>3 DEF Fill
    <2>2. n \in 0 .. Len(wire) /\ line' = line
      BY <1>0, <1>3 DEF Fill
    <2>3. Cat(Cat(line, Cat(buf, SubSeq(wire, 1, n))), SubSeq(wire, n + 1, Len(wire)))
            = Cat(Cat(line, buf), wire)
      BY ONLY <1>0, <2>2, Rejoined
    <2>4. /\ Pending = Cat(Cat(line, buf), wire)
          /\ Pending' = Cat(Cat(line, Cat(buf, SubSeq(wire, 1, n))), SubSeq(wire, n + 1, Len(wire)))
      BY <2>1, <2>2 DEF Pending, Cat
    <2> QED
      BY <2>3, <2>4 DEF NoneLost
  <1>4. CASE TakePart
    <2>1. (line \o buf) \o <<>> = line \o buf
      BY <1>0, ConcatProperties, ConcatEmptySeq
    <2> QED
      BY <1>4, <2>1 DEF TakePart, NoneLost, Pending
  <1>5. CASE ReadLine
    <2> DEFINE j == CHOOSE i \in EndsIn(buf) : \A k \in EndsIn(buf) : i <= k
    <2>1. j \in 1 .. Len(buf)
      BY <1>0, <1>5, FirstEnd DEF ReadLine
    <2>2. /\ consumed' = buf[j].id /\ buf' = SubSeq(buf, j + 1, Len(buf))
          /\ line' = <<>> /\ wire' = wire
      BY <1>5 DEF ReadLine, CommandDone
    <2> HIDE DEF j
    <2> QED
      BY <2>1, <2>2, TakenFromBuffer
  <1>6. CASE ReadMessage
    <2> DEFINE j == CHOOSE i \in EndsIn(buf) : \A k \in EndsIn(buf) : i <= k
    <2>1. j \in 1 .. Len(buf)
      BY <1>0, <1>6, FirstEnd DEF ReadMessage
    <2>2. /\ consumed' = buf[j].id /\ buf' = SubSeq(buf, j + 1, Len(buf))
          /\ line' = <<>> /\ wire' = wire
      BY <1>6 DEF ReadMessage, Inv, LineOfCommand
    <2> HIDE DEF j
    <2> QED
      BY <2>1, <2>2, TakenFromBuffer
  <1>7. CASE ReadCutLine \/ CopyMessage
    <2>1. buf # <<>> /\ consumed' = buf[Len(buf)].id /\ buf' = <<>> /\ line' = <<>> /\ wire' = wire
      BY <1>7 DEF ReadCutLine, CommandDone, CopyMessage, Inv, LineOfCommand
    <2>2. Len(buf) \in 1 .. Len(buf) /\ SubSeq(buf, Len(buf) + 1, Len(buf)) = <<>>
      BY <1>0, <2>1
    <2> QED
      BY <2>1, <2>2, TakenFromBuffer
  <1> QED
    BY <1>1, <1>2, <1>3, <1>4, <1>5, <1>6, <1>7
    DEF Next, ServerStep, Handshake, HandshakeFails

---------------------------------------------------------------------------
(* The theorems about Reader.                                              *)

\* The types of Reader hold in every behaviour.
THEOREM Types == Spec => []TypeOK
  <1>1. Inv => TypeOK
    BY DEF Inv
  <1> QED
    BY <1>1, InvHolds, PTL

\* Between two resets the connection reads no more than the limit and what
\* was read ahead, and it refuses nobody before (limitedReader, reader.go:66).
THEOREM LimitIsKept == Spec => []LimitHolds
  <1>1. Inv => LimitHolds
    <2> SUFFICES ASSUME Inv PROVE LimitHolds
      OBVIOUS
    <2> DEFINE sinceReset == since + Len(line) + Len(buf)
    <2>1. sinceReset = (MaxSize - left) + ahead
      BY DEF Inv, Accounts
    <2>2. left \in 0 .. MaxSize /\ ahead \in Nat
      BY BufSizeAssumption DEF Inv, TypeOK
    <2> HIDE DEF sinceReset
    <2>3. sinceReset <= MaxSize + ahead /\ (left = 0 => sinceReset >= MaxSize)
      BY ONLY <2>1, <2>2, MaxSizeAssumption
    <2> QED
      BY <2>3 DEF sinceReset, LimitHolds, AtLimit
  <1> QED
    BY <1>1, InvHolds, PTL

\* Nothing that was sent in plain text is read as if it came over TLS
\* (upgradeTLS, connection.go:183).
THEOREM TLSIsRead == Spec => []TLSReadsTLS
  <1>1. Inv => TLSReadsTLS
    BY DEF Inv
  <1> QED
    BY <1>1, InvHolds, PTL

\* Bytes read ahead are neither lost nor read twice (connection.go:131-183,
\* reader.go:29-61): outside a handshake, what was sent and not read yet
\* changes at its end by what is sent and at its beginning by what is read.
THEOREM NothingIsLost == Spec => NothingLost
  <1>1. Inv /\ [Next]_vars => [mode # "tls" => NoneLost]_vars
    BY NoneLostStep
  <1> QED
    BY <1>1, InvHolds, PTL DEF Spec, NothingLost, NoneLost

---------------------------------------------------------------------------
(* From here on, Data.  Induction over naturals.                           *)

\* A set of naturals that is not empty has a least element.
LEMMA LeastNat ==
    ASSUME NEW T, T \subseteq Nat, T # {}
    PROVE  \E x \in T : \A y \in T : x <= y
<1>1. PICK x \in T : \A y \in T : ~ (<<y, x>> \in OpToRel(<, Nat))
  BY NatLessThanWellFounded, WFMin
<1>2. ASSUME NEW y \in T PROVE x <= y
  <2>1. x \in Nat /\ y \in Nat
    OBVIOUS
  <2>2. y < x => <<y, x>> \in OpToRel(<, Nat)
    BY <2>1 DEF OpToRel
  <2>3. ~ (y < x)
    BY <1>1, <2>2
  <2> QED
    BY ONLY <2>1, <2>3
<1> QED
  BY <1>2

\* Induction, with a set for what is to be shown.
LEMMA SetInduction ==
    ASSUME NEW S, 0 \in S, \A n \in Nat : n \in S => n + 1 \in S
    PROVE  Nat \subseteq S
<1> SUFFICES ASSUME NEW m \in Nat, m \notin S PROVE FALSE
  OBVIOUS
<1> DEFINE T == {n \in Nat : n \notin S}
<1>1. T \subseteq Nat /\ T # {}
  OBVIOUS
<1>2. PICK x \in T : \A y \in T : x <= y
  <2> HIDE DEF T
  <2> QED
    BY <1>1, LeastNat
<1>3. x \in Nat /\ x # 0
  OBVIOUS
<1>4. x - 1 \in Nat /\ (x - 1) + 1 = x /\ ~ (x <= x - 1)
  BY ONLY <1>3
<1>5. x - 1 \in S
  BY <1>2, <1>4
<1> QED
  BY <1>4, <1>5

\* The same up to n.
LEMMA BoundedInduction ==
    ASSUME NEW n \in Nat, NEW S, 0 \in S, \A k \in 0 .. n - 1 : k \in S => k + 1 \in S
    PROVE  n \in S /\ \A k \in 0 .. n : k \in S
<1> DEFINE T == {k \in Nat : k <= n => k \in S}
<1>1. 0 \in T
  OBVIOUS
<1>2. ASSUME NEW k \in Nat, k \in T PROVE k + 1 \in T
  <2> SUFFICES ASSUME k + 1 <= n PROVE k + 1 \in S
    OBVIOUS
  <2>1. k \in 0 .. n - 1 /\ k <= n
    OBVIOUS
  <2> QED
    BY <1>2, <2>1
<1>3. Nat \subseteq T
  <2> HIDE DEF T
  <2> QED
    BY <1>1, <1>2, SetInduction
<1> QED
  BY <1>3

---------------------------------------------------------------------------
(* Going through a sequence.                                               *)

\* The states in which a machine with these steps, begun in d, goes through s.
IsRun(D, A, step, d, s, r) ==
    /\ step \in [D -> [A -> D]] /\ s \in Seq(A) /\ r \in [0 .. Len(s) -> D]
    /\ r[0] = d
    /\ \A k \in 1 .. Len(s) : r[k] = step[r[k - 1]][s[k]]

LEMMA RunExists ==
    ASSUME NEW D, NEW A, NEW step \in [D -> [A -> D]], NEW d \in D, NEW s \in Seq(A)
    PROVE  \E r : IsRun(D, A, step, d, s, r)
<1> DEFINE Upto(n, r) == r[0] = d /\ \A k \in 1 .. n : r[k] = step[r[k - 1]][s[k]]
           S == {n \in 0 .. Len(s) : \E r \in [0 .. n -> D] : Upto(n, r)}
<1>0. Len(s) \in Nat
  OBVIOUS
<1>1. 0 \in S
  <2> DEFINE r == [k \in 0 .. 0 |-> d]
  <2>1. r \in [0 .. 0 -> D] /\ Upto(0, r)
    OBVIOUS
  <2> HIDE DEF r, Upto
  <2>2. 0 \in 0 .. Len(s)
    BY <1>0
  <2> QED
    BY <2>1, <2>2
<1>2. ASSUME NEW n \in 0 .. Len(s) - 1, n \in S PROVE n + 1 \in S
  <2>0. n \in Nat /\ n + 1 \in 0 .. Len(s) /\ n + 1 \in 1 .. Len(s)
    BY <1>0
  <2>1. PICK q \in [0 .. n -> D] : Upto(n, q)
    BY <1>2
  <2> DEFINE r == [k \in 0 .. n + 1 |-> IF k <= n THEN q[k] ELSE step[q[n]][s[n + 1]]]
  <2>2. q[n] \in D /\ s[n + 1] \in A
    BY <2>0
  <2>3. r \in [0 .. n + 1 -> D]
    <3>1. step[q[n]][s[n + 1]] \in D
      BY <2>2
    <3>2. \A k \in 0 .. n + 1 : k <= n => q[k] \in D
      BY <2>0
    <3> QED
      BY <3>1, <3>2
  <2>4. \A k \in 0 .. n : r[k] = q[k]
    BY <2>0
  <2>5. r[n + 1] = step[r[n]][s[n + 1]]
    BY <2>0
  <2> HIDE DEF r
  <2>6. r[0] = d
    BY <2>0, <2>1, <2>4
  <2>7. ASSUME NEW k \in 1 .. n + 1 PROVE r[k] = step[r[k - 1]][s[k]]
    <3>1. CASE k = n + 1
      <4>1. k - 1 = n
        BY <2>0, <3>1
      <4> QED
        BY <2>5, <3>1, <4>1
    <3>2. CASE k # n + 1
      <4>1. k \in 0 .. n /\ k - 1 \in 0 .. n /\ k \in 1 .. n
        BY ONLY <2>0, <3>2, k \in 1 .. n + 1
      <4> QED
        BY <2>1, <2>4, <4>1
    <3> QED
      BY <3>1, <3>2
  <2> QED
    BY <2>0, <2>3, <2>6, <2>7
<1>3. Len(s) \in S
  <2> HIDE DEF S
  <2> QED
    BY ONLY <1>0, <1>1, <1>2, BoundedInduction
<1> QED
  BY <1>3 DEF IsRun

\* Whatever takes the steps of a machine, from where it begins, is its run.
StepsIn(D, step, d, s, f) ==
    /\ f[0] = d
    /\ \A k \in 1 .. Len(s) : f[k - 1] \in D => f[k] = step[f[k - 1]][s[k]]

LEMMA RunUnique ==
    ASSUME NEW D, NEW A, NEW step, NEW d, NEW s, NEW r, NEW f,
           IsRun(D, A, step, d, s, r), StepsIn(D, step, d, s, f)
    PROVE  f[Len(s)] = r[Len(s)]
<1> USE DEF IsRun
<1> DEFINE S == {n \in 0 .. Len(s) : f[n] = r[n]}
<1>0. Len(s) \in Nat
  OBVIOUS
<1>1. 0 \in S
  BY <1>0 DEF IsRun, StepsIn
<1>2. ASSUME NEW n \in 0 .. Len(s) - 1, n \in S PROVE n + 1 \in S
  <2>1. n + 1 \in 1 .. Len(s) /\ (n + 1) - 1 = n /\ n \in 0 .. Len(s) /\ n + 1 \in 0 .. Len(s)
    BY ONLY <1>0, n \in 0 .. Len(s) - 1
  <2>2. r[n] \in D
    BY ONLY <2>1, r \in [0 .. Len(s) -> D]
  <2>3. r[n + 1] = step[r[n]][s[n + 1]]
    BY <2>1 DEF IsRun
  <2>4. f[n] = r[n]
    BY <1>2
  <2>5. f[n + 1] = step[f[n]][s[n + 1]]
    BY <2>1, <2>2, <2>4 DEF StepsIn
  <2> QED
    BY <2>1, <2>3, <2>4, <2>5
<1>3. Len(s) \in S
  <2> HIDE DEF S
  <2> QED
    BY ONLY <1>0, <1>1, <1>2, BoundedInduction
<1> QED
  BY <1>3

\* Where a machine is that went through s.
Runs(D, A, step, d, s, v) == \E r : IsRun(D, A, step, d, s, r) /\ v = r[Len(s)]

LEMMA RunOfNothing ==
    ASSUME NEW D, NEW A, NEW step, NEW d, NEW v, Runs(D, A, step, d, <<>>, v)
    PROVE  v = d
<1>1. Len(<<>>) = 0
  OBVIOUS
<1> QED
  BY <1>1 DEF Runs, IsRun

\* One through s, and one through s with x at its end.
TwoRuns(D, A, step, d, s, x, v, w) ==
    x \in A /\ Runs(D, A, step, d, s, v) /\ Runs(D, A, step, d, Append(s, x), w)

LEMMA RunAppend ==
    ASSUME NEW D, NEW A, NEW step, NEW d, NEW s, NEW x, NEW v, NEW w,
           TwoRuns(D, A, step, d, s, x, v, w)
    PROVE  v \in D /\ w = step[v][x] /\ w \in D
<1>0. x \in A
  BY DEF TwoRuns
<1>1. PICK r : IsRun(D, A, step, d, s, r) /\ v = r[Len(s)]
  BY DEF Runs, TwoRuns
<1>2. PICK q : IsRun(D, A, step, d, Append(s, x), q) /\ w = q[Len(Append(s, x))]
  BY DEF Runs, TwoRuns
<1>3. /\ s \in Seq(A) /\ Len(s) \in Nat /\ Len(Append(s, x)) = Len(s) + 1
      /\ Append(s, x)[Len(s) + 1] = x /\ \A k \in 1 .. Len(s) : Append(s, x)[k] = s[k]
  BY <1>0, <1>1 DEF IsRun
<1>4. StepsIn(D, step, d, s, q)
  <2>1. q[0] = d
    BY <1>2 DEF IsRun
  <2>2. \A k \in 1 .. Len(s) : k \in 1 .. Len(Append(s, x))
    BY <1>3
  <2> QED
    BY <1>2, <1>3, <2>1, <2>2 DEF StepsIn, IsRun
<1>5. q[Len(s)] = v
  BY <1>1, <1>4, RunUnique
<1>6. v \in D
  <2>1. Len(s) \in 0 .. Len(s) /\ r \in [0 .. Len(s) -> D]
    BY <1>1, <1>3 DEF IsRun
  <2> QED
    BY ONLY <1>1, <2>1
<1>7. Len(s) + 1 \in 1 .. Len(Append(s, x)) /\ (Len(s) + 1) - 1 = Len(s)
  BY ONLY <1>3
<1>8. w = step[v][x]
  BY <1>2, <1>3, <1>5, <1>7 DEF IsRun
<1>9. w \in D
  BY <1>0, <1>1, <1>6, <1>8 DEF IsRun
<1> QED
  BY <1>6, <1>8, <1>9

\* Induction on a sequence that grows at its end.
LEMMA SeqInduction ==
    ASSUME NEW A, NEW P, <<>> \in P, \A s \in Seq(A) : \A x \in A : s \in P => Append(s, x) \in P
    PROVE  Seq(A) \subseteq P
<1> DEFINE S == {n \in Nat : \A s \in Seq(A) : Len(s) = n => s \in P}
<1>1. 0 \in S
  <2>1. \A s \in Seq(A) : Len(s) = 0 => s = <<>>
    OBVIOUS
  <2> QED
    BY <2>1
<1>2. ASSUME NEW n \in Nat, n \in S PROVE n + 1 \in S
  <2>1. ASSUME NEW s \in Seq(A), Len(s) = n + 1 PROVE s \in P
    <3>1. n + 1 \in 1 .. Len(s) /\ 1 \in 1 .. Len(s) /\ (n + 1) - 1 = n /\ n + 1 \in Nat
      BY <2>1
    <3>2. s = SubSeq(s, 1, n) \o <<s[n + 1]>>
      BY <2>1, <3>1, SubSeqRecursiveSecond, SubSeqFull
    <3>3. SubSeq(s, 1, n) \in Seq(A) /\ Len(SubSeq(s, 1, n)) = n /\ s[n + 1] \in A
      BY <2>1, <3>1
    <3>4. SubSeq(s, 1, n) \in P
      BY <1>2, <3>3
    <3>5. s = Append(SubSeq(s, 1, n), s[n + 1])
      BY <3>2, <3>3, AppendIsConcat
    <3> QED
      BY <3>3, <3>4, <3>5
  <2> QED
    BY <2>1
<1>3. Nat \subseteq S
  <2> HIDE DEF S
  <2> QED
    BY <1>1, <1>2, SetInduction
<1> QED
  BY <1>3

---------------------------------------------------------------------------
(* Sequences.                                                              *)

LEMMA CatEmpty ==
    ASSUME NEW S, NEW s \in Seq(S) PROVE Cat(s, <<>>) = s /\ Cat(<<>>, s) = s
BY ConcatEmptySeq DEF Cat

LEMMA CatAt ==
    ASSUME NEW S, NEW s \in Seq(S), NEW t \in Seq(S)
    PROVE  /\ Len(s) \in Nat /\ Len(t) \in Nat
           /\ \A i \in 1 .. Len(s) : Cat(s, t)[i] = s[i]
           /\ \A i \in 1 .. Len(t) : Cat(s, t)[Len(s) + i] = t[i]
BY DEF Cat

Joined(s, t, c) ==
    /\ Len(s) \in Nat /\ Len(t) \in Nat
    /\ \A i \in 1 .. Len(s) : c[i] = s[i]
    /\ \A i \in 1 .. Len(t) : c[Len(s) + i] = t[i]

LEMMA CatJoined == ASSUME NEW S, NEW s \in Seq(S), NEW t \in Seq(S) PROVE Joined(s, t, Cat(s, t))
BY CatAt DEF Joined

LEMMA CatAppend ==
    ASSUME NEW S, NEW s \in Seq(S), NEW t \in Seq(S), NEW x \in S
    PROVE  Cat(s, Append(t, x)) = Append(Cat(s, t), x)
<1> DEFINE one == <<x>>
<1>1. one \in Seq(S) /\ \A u \in Seq(S) : Append(u, x) = u \o one
  BY AppendIsConcat
<1> HIDE DEF one
<1>2. s \o (t \o one) = (s \o t) \o one
  BY <1>1, ConcatAssociative
<1>3. s \o t \in Seq(S)
  OBVIOUS
<1> QED
  BY <1>1, <1>2, <1>3 DEF Cat, one

---------------------------------------------------------------------------
(* The operators of Data, token by token.                                  *)

Tok == Tokens \cup {CR, LF}

FlatStep == [s \in Seq(Tok) |-> [p \in Seq(Tok) |-> Cat(s, p)]]

LEMMA FlatStepType == FlatStep \in [Seq(Tok) -> [Seq(Tok) -> Seq(Tok)]]
BY CatType DEF FlatStep

FlatRuns(ss, v) == Runs(Seq(Tok), Seq(Tok), FlatStep, <<>>, ss, v)

LEMMA FlatRun == ASSUME NEW ss \in Seq(Seq(Tok)) PROVE FlatRuns(ss, FlattenSeq(ss))
<1>0. Len(ss) \in Nat /\ <<>> \in Seq(Tok)
  OBVIOUS
<1>1. PICK r : IsRun(Seq(Tok), Seq(Tok), FlatStep, <<>>, ss, r)
  BY <1>0, RunExists, FlatStepType
<1>2. CASE Len(ss) = 0
  <2>1. FlattenSeq(ss) = <<>>
    BY <1>2 DEF FlattenSeq
  <2> QED
    BY <1>1, <1>2, <2>1 DEF IsRun, FlatRuns, Runs
<1>3. CASE Len(ss) # 0
  <2> DEFINE Def(f) == f = [i \in 1 .. Len(ss) |-> IF i = 1 THEN ss[i] ELSE f[i - 1] \o ss[i]]
             f == CHOOSE g : Def(g)
             q == [i \in 1 .. Len(ss) |-> r[i]]
  <2>0. /\ r \in [0 .. Len(ss) -> Seq(Tok)] /\ r[0] = <<>>
        /\ \A k \in 1 .. Len(ss) : r[k] = FlatStep[r[k - 1]][ss[k]]
    BY <1>1 DEF IsRun
  <2>1. \A k \in 1 .. Len(ss) : ss[k] \in Seq(Tok) /\ r[k] \in Seq(Tok) /\ r[k - 1] \in Seq(Tok)
    <3>1. \A k \in 1 .. Len(ss) : k \in 0 .. Len(ss) /\ k - 1 \in 0 .. Len(ss)
      BY <1>0
    <3>2. \A k \in 1 .. Len(ss) : ss[k] \in Seq(Tok)
      OBVIOUS
    <3> QED
      BY ONLY <2>0, <3>1, <3>2
  <2>2. \A k \in 1 .. Len(ss) : r[k] = r[k - 1] \o ss[k]
    BY <2>0, <2>1 DEF FlatStep, Cat
  <2>3. Def(q)
    <3>1. ASSUME NEW i \in 1 .. Len(ss)
          PROVE  q[i] = IF i = 1 THEN ss[i] ELSE q[i - 1] \o ss[i]
      <4>1. CASE i = 1
        <5>1. r[1] = <<>> \o ss[1] /\ ss[1] \in Seq(Tok)
          <6>1. 1 - 1 = 0
            OBVIOUS
          <6> QED
            BY <2>0, <2>1, <2>2, <4>1, <6>1
        <5>2. <<>> \o ss[1] = ss[1]
          BY <5>1, ConcatEmptySeq
        <5> QED
          BY <4>1, <5>1, <5>2
      <4>2. CASE i # 1
        <5>1. i - 1 \in 1 .. Len(ss)
          BY <1>0, <4>2
        <5> QED
          BY <2>2, <4>2, <5>1
      <4> QED
        BY <4>1, <4>2
    <3> QED
      BY <3>1
  <2>4. Def(f)
    <3> HIDE DEF Def, q
    <3> QED
      BY <2>3
  <2>5. FlattenSeq(ss) = f[Len(ss)]
    BY <1>3 DEF FlattenSeq
  <2> DEFINE g == [k \in 0 .. Len(ss) |-> IF k = 0 THEN <<>> ELSE f[k]]
  <2>6. ASSUME NEW k \in 1 .. Len(ss), g[k - 1] \in Seq(Tok) PROVE g[k] = FlatStep[g[k - 1]][ss[k]]
    <3>1. g[k] = f[k] /\ f[k] = IF k = 1 THEN ss[k] ELSE f[k - 1] \o ss[k]
      <4>1. k \in 0 .. Len(ss) /\ k # 0
        BY <1>0
      <4> HIDE DEF f
      <4> QED
        BY <2>4, <4>1
    <3> HIDE DEF f
    <3>2. g[k] = Cat(g[k - 1], ss[k])
      <4>1. CASE k = 1
        <5>1. g[k - 1] = <<>>
          BY <1>0, <4>1
        <5> HIDE DEF g
        <5> QED
          BY <2>1, <3>1, <4>1, <5>1, CatEmpty
      <4>2. CASE k # 1
        <5>1. k - 1 \in 0 .. Len(ss) /\ k - 1 # 0
          BY <1>0, <4>2
        <5> QED
          BY <3>1, <4>2, <5>1 DEF Cat
      <4> QED
        BY <4>1, <4>2
    <3> HIDE DEF g
    <3> QED
      BY <2>1, <2>6, <3>2 DEF FlatStep
  <2>7. g[0] = <<>> /\ g[Len(ss)] = f[Len(ss)]
    BY <1>0, <1>3
  <2> HIDE DEF f, g
  <2>8. g[Len(ss)] = r[Len(ss)]
    <3>1. StepsIn(Seq(Tok), FlatStep, <<>>, ss, g)
      BY <2>6, <2>7 DEF StepsIn
    <3> QED
      BY ONLY <1>1, <3>1, RunUnique
  <2> QED
    BY <1>1, <2>5, <2>7, <2>8 DEF FlatRuns, Runs
<1> QED
  BY <1>2, <1>3

LEMMA FlatEmpty == FlattenSeq(<<>>) = <<>>
BY DEF FlattenSeq

LEMMA FlatAppend ==
    ASSUME NEW ss \in Seq(Seq(Tok)), NEW p \in Seq(Tok)
    PROVE  /\ FlattenSeq(ss) \in Seq(Tok)
           /\ FlattenSeq(Append(ss, p)) = Cat(FlattenSeq(ss), p)
<1>1. FlatRuns(ss, FlattenSeq(ss)) /\ FlatRuns(Append(ss, p), FlattenSeq(Append(ss, p)))
  <2>1. Append(ss, p) \in Seq(Seq(Tok))
    OBVIOUS
  <2> QED
    BY <2>1, FlatRun
<1> DEFINE D == Seq(Tok)
           v == FlattenSeq(ss)
           w == FlattenSeq(Append(ss, p))
<1>2. TwoRuns(D, D, FlatStep, <<>>, ss, p, v, w)
  BY <1>1 DEF FlatRuns, TwoRuns
<1>3. v \in D /\ w = FlatStep[v][p]
  <2> HIDE DEF D, v, w
  <2> QED
    BY ONLY <1>2, RunAppend
<1> QED
  BY <1>3 DEF FlatStep

\* Texts that follow each other flatten to texts that follow each other.
LEMMA FlatCat ==
    ASSUME NEW ss \in Seq(Seq(Tok)), NEW tt \in Seq(Seq(Tok))
    PROVE  FlattenSeq(ss \o tt) = Cat(FlattenSeq(ss), FlattenSeq(tt))
<1> DEFINE A == Seq(Tok)
           P == {u \in Seq(A) : FlattenSeq(ss \o u) = Cat(FlattenSeq(ss), FlattenSeq(u))}
<1>1. <<>> \in P
  <2>1. ss \o <<>> = ss
    BY ConcatEmptySeq
  <2>3. FlattenSeq(ss) \in Seq(Tok)
    <3>1. <<>> \in Seq(Tok)
      OBVIOUS
    <3> QED
      BY <3>1, FlatAppend
  <2>2. Cat(FlattenSeq(ss), <<>>) = FlattenSeq(ss)
    BY ONLY <2>3, CatEmpty
  <2> QED
    BY <2>1, <2>2, FlatEmpty
<1>2. ASSUME NEW u \in Seq(A), NEW p \in A, u \in P PROVE Append(u, p) \in P
  <2>1. ss \o u \in Seq(A) /\ Append(u, p) \in Seq(A)
    OBVIOUS
  <2>2. ss \o Append(u, p) = Append(ss \o u, p)
    <3>1. ss \in Seq(A)
      OBVIOUS
    <3> HIDE DEF A
    <3>2. Cat(ss, Append(u, p)) = Append(Cat(ss, u), p)
      BY ONLY <3>1, u \in Seq(A), p \in A, CatAppend
    <3> QED
      BY <3>2 DEF Cat
  <2>3. /\ FlattenSeq(Append(ss \o u, p)) = Cat(FlattenSeq(ss \o u), p)
        /\ FlattenSeq(Append(u, p)) = Cat(FlattenSeq(u), p)
        /\ FlattenSeq(u) \in Seq(Tok) /\ FlattenSeq(ss) \in Seq(Tok)
    BY <2>1, FlatAppend
  <2>4. FlattenSeq(ss \o u) = Cat(FlattenSeq(ss), FlattenSeq(u))
    BY <1>2
  <2>5. Cat(Cat(FlattenSeq(ss), FlattenSeq(u)), p) = Cat(FlattenSeq(ss), Cat(FlattenSeq(u), p))
    <3>1. p \in Seq(Tok)
      OBVIOUS
    <3> QED
      BY ONLY <2>3, <3>1, CatAssociative
  <2> QED
    BY <2>1, <2>2, <2>3, <2>4, <2>5
<1> HIDE DEF P
<1>3. Seq(A) \subseteq P
  BY <1>1, <1>2, SeqInduction
<1> QED
  BY <1>3 DEF P

LEMMA FlatOne ==
    ASSUME NEW p \in Seq(Tok)
    PROVE  <<p>> \in Seq(Seq(Tok)) /\ FlattenSeq(<<p>>) = p
<1>1. <<>> \in Seq(Seq(Tok)) /\ <<p>> = Append(<<>>, p)
  OBVIOUS
<1>2. FlattenSeq(<<p>>) = Cat(FlattenSeq(<<>>), p)
  BY <1>1, FlatAppend
<1>3. Cat(<<>>, p) = p
  BY CatEmpty
<1> QED
  BY <1>1, <1>2, <1>3, FlatEmpty

\* Every sequence that is not empty has a last element.
LEMMA LastOf ==
    ASSUME NEW A, NEW s \in Seq(A), s # <<>>
    PROVE  \E u \in Seq(A) : \E x \in A : s = Append(u, x)
<1>1. Len(s) \in Nat /\ Len(s) # 0
  OBVIOUS
<1>2. 1 \in 1 .. Len(s) /\ Len(s) \in 1 .. Len(s) /\ Len(s) - 1 \in 0 .. Len(s)
  BY ONLY <1>1
<1>3. s = SubSeq(s, 1, Len(s) - 1) \o <<s[Len(s)]>>
  BY <1>2, SubSeqRecursiveSecond, SubSeqFull
<1>4. SubSeq(s, 1, Len(s) - 1) \in Seq(A) /\ s[Len(s)] \in A
  BY <1>1
<1>5. s = Append(SubSeq(s, 1, Len(s) - 1), s[Len(s)])
  BY <1>3, <1>4, AppendIsConcat
<1> QED
  BY <1>4, <1>5

\* What Write does to the buffers is seen in their text as an addition at its end.
LEMMA TailWrites ==
    ASSUME bufs \in Seq(Seq(Tok)), NEW p \in Seq(Tok)
    PROVE  tail(p) \in Seq(Seq(Tok)) /\ FlattenSeq(tail(p)) = Cat(FlattenSeq(bufs), p)
<1>1. CASE bufs = <<>>
  <2>1. Cat(<<>>, p) = p
    BY CatEmpty
  <2> QED
    BY <1>1, <2>1, FlatOne, FlatEmpty DEF tail
<1>2. CASE bufs # <<>>
  <2> DEFINE A == Seq(Tok)
  <2>1. PICK u \in Seq(A) : \E x \in A : bufs = Append(u, x)
    BY <1>2, LastOf
  <2>2. PICK x \in A : bufs = Append(u, x)
    BY <2>1
  <2>3. x \o p = Cat(x, p) /\ x \in Seq(Tok) /\ Cat(x, p) \in Seq(Tok)
    BY DEF Cat
  <2>4. tail(p) = Append(u, Cat(x, p))
    <3> DEFINE y == Cat(x, p)
    <3>1. /\ Len(u) \in Nat /\ bufs \in Seq(A) /\ Len(bufs) = Len(u) + 1 /\ bufs[Len(u) + 1] = x
          /\ \A i \in 1 .. Len(u) : bufs[i] = u[i]
      BY <2>2
    <3>2. tail(p) = [bufs EXCEPT ![Len(u) + 1] = y]
      BY <1>2, <2>3, <3>1 DEF tail
    <3>0. y \in A
      BY <2>3
    <3> HIDE DEF y, A
    <3>3. y \in A /\ Append(u, y) \in Seq(A) /\ Len(Append(u, y)) = Len(u) + 1
      BY <3>0
    <3>4. tail(p) \in Seq(A) /\ Len(tail(p)) = Len(u) + 1
      BY <3>1, <3>2, <3>3
    <3>5. ASSUME NEW i \in 1 .. Len(u) + 1 PROVE tail(p)[i] = Append(u, y)[i]
      BY <3>1, <3>2
    <3>6. tail(p) = Append(u, y)
      BY <3>3, <3>4, <3>5, SeqEqual
    <3> QED
      BY <3>6 DEF y
  <2>5. FlattenSeq(tail(p)) = Cat(FlattenSeq(u), Cat(x, p)) /\ FlattenSeq(u) \in Seq(Tok)
    BY <2>3, <2>4, FlatAppend
  <2>6. FlattenSeq(bufs) = Cat(FlattenSeq(u), x)
    BY <2>2, <2>3, FlatAppend
  <2>7. Cat(Cat(FlattenSeq(u), x), p) = Cat(FlattenSeq(u), Cat(x, p))
    BY ONLY <2>3, <2>5, p \in Seq(Tok), CatAssociative
  <2> QED
    BY <2>3, <2>4, <2>5, <2>6, <2>7
<1> QED
  BY <1>1, <1>2

\* What PrependHeader does, as one at its front.
LEMMA HeadPrepends ==
    ASSUME bufs \in Seq(Seq(Tok)), NEW p \in Seq(Tok)
    PROVE  head(p) \in Seq(Seq(Tok)) /\ FlattenSeq(head(p)) = Cat(p, FlattenSeq(bufs))
<1> DEFINE one == <<p>>
<1>1. one \in Seq(Seq(Tok)) /\ FlattenSeq(one) = p
  BY FlatOne
<1>2. head(p) = one \o bufs
  BY DEF head
<1> HIDE DEF one
<1>3. FlattenSeq(one \o bufs) = Cat(FlattenSeq(one), FlattenSeq(bufs)) /\ one \o bufs \in Seq(Seq(Tok))
  BY <1>1, FlatCat
<1> QED
  BY <1>1, <1>2, <1>3

---------------------------------------------------------------------------
(* The recursive operators of Data, as machines.                           *)

LineStates == [lines : Seq(Seq(Tok)), line : Seq(Tok)]

DotStates == [out : Seq(Tok), held : {<<>>, <<CR>>}]

UncrStep == [s \in Seq(Tok) |-> [x \in Tok |-> DropCR(s, x)]]

LEMMA UncrStepType == UncrStep \in [Seq(Tok) -> [Tok -> Seq(Tok)]]
BY DEF UncrStep, DropCR

UncrRuns(data, v) == Runs(Seq(Tok), Tok, UncrStep, <<>>, data, v)

LEMMA UncrRun == ASSUME NEW data \in Seq(Tok) PROVE UncrRuns(data, WithoutCR(data))
<1> DEFINE D == Seq(Tok)
           d == <<>>
<1>0. Len(data) \in Nat /\ d \in D /\ UncrStep \in [D -> [Tok -> D]]
  <2>1. d \in D
    BY DEF D, d
  <2>2. Len(data) \in Nat
    OBVIOUS
  <2> QED
    BY <2>1, <2>2, UncrStepType
<1> DEFINE Def(g) == g = [n \in 0 .. Len(data) |-> IF n = 0 THEN <<>> ELSE DropCR(g[n - 1], data[n])]
           f == CHOOSE g : Def(g)
<1>1. PICK r : IsRun(D, Tok, UncrStep, d, data, r)
  <2> HIDE DEF D, d
  <2> QED
    BY ONLY <1>0, data \in Seq(Tok), RunExists
<1>2. /\ r \in [0 .. Len(data) -> D] /\ r[0] = d
      /\ \A k \in 1 .. Len(data) : r[k] = UncrStep[r[k - 1]][data[k]]
  BY <1>1 DEF IsRun
<1>3. ASSUME NEW k \in 1 .. Len(data)
      PROVE  k \in 0 .. Len(data) /\ k # 0 /\ k - 1 \in 0 .. Len(data) /\ data[k] \in Tok
  <2>0. Len(data) \in Nat
    BY <1>0
  <2>1. k \in 0 .. Len(data) /\ k # 0 /\ k - 1 \in 0 .. Len(data)
    BY ONLY <2>0, k \in 1 .. Len(data)
  <2>2. data[k] \in Tok
    BY ONLY k \in 1 .. Len(data), data \in Seq(Tok)
  <2> QED
    BY <2>1, <2>2
<1>4. ASSUME NEW s \in D, NEW x \in Tok PROVE UncrStep[s][x] = DropCR(s, x)
  BY DEF UncrStep
<1>5. ASSUME NEW n \in 0 .. Len(data) PROVE r[n] = IF n = 0 THEN d ELSE DropCR(r[n - 1], data[n])
  <2>1. CASE n = 0
    BY <1>2, <2>1
  <2>2. CASE n # 0
    <3>1. n \in 1 .. Len(data)
      BY ONLY <1>0, <2>2, n \in 0 .. Len(data)
    <3>2. r[n - 1] \in D /\ data[n] \in Tok
      BY <1>2, <1>3, <3>1
    <3> QED
      BY <1>2, <1>4, <2>2, <3>1, <3>2
  <2> QED
    BY <2>1, <2>2
<1>6. Def(r)
  <2>1. r = [n \in 0 .. Len(data) |-> r[n]]
    BY <1>2
  <2> QED
    BY <1>5, <2>1
<1>7. Def(f)
  <2> HIDE DEF Def
  <2> QED
    BY <1>6
<1>8. WithoutCR(data) = f[Len(data)]
  BY DEF WithoutCR
<1> HIDE DEF f
<1>9. StepsIn(D, UncrStep, d, data, f)
  <2>1. f[0] = d
    BY <1>0, <1>7
  <2>2. ASSUME NEW k \in 1 .. Len(data), f[k - 1] \in D PROVE f[k] = UncrStep[f[k - 1]][data[k]]
    BY <1>3, <1>4, <1>7, <2>2
  <2> QED
    BY <2>1, <2>2 DEF StepsIn
<1>10. f[Len(data)] = r[Len(data)]
  BY ONLY <1>1, <1>9, RunUnique
<1> QED
  BY <1>1, <1>8, <1>10 DEF UncrRuns, Runs

\* WithoutCR, one token at a time.
LEMMA WithoutCRAppend ==
    ASSUME NEW data \in Seq(Tok), NEW x \in Tok
    PROVE  /\ WithoutCR(data) \in Seq(Tok)
           /\ WithoutCR(Append(data, x)) = DropCR(WithoutCR(data), x)
<1> DEFINE D == Seq(Tok)
           d == <<>>
           v == WithoutCR(data)
           w == WithoutCR(Append(data, x))
<1>1. Append(data, x) \in Seq(Tok)
  OBVIOUS
<1>2. TwoRuns(D, Tok, UncrStep, d, data, x, v, w)
  BY <1>1, UncrRun DEF UncrRuns, TwoRuns
<1>3. v \in D /\ w = UncrStep[v][x]
  <2> HIDE DEF D, d, v, w
  <2> QED
    BY ONLY <1>2, RunAppend
<1> QED
  BY <1>3 DEF UncrStep

LEMMA WithoutCREmpty == WithoutCR(<<>>) = <<>>
<1> DEFINE D == Seq(Tok)
           d == <<>>
           v == WithoutCR(<<>>)
<1>1. <<>> \in Seq(Tok)
  OBVIOUS
<1>2. Runs(D, Tok, UncrStep, d, <<>>, v)
  BY <1>1, UncrRun DEF UncrRuns
<1> HIDE DEF D, d, v
<1>3. v = d
  BY ONLY <1>2, RunOfNothing
<1> QED
  BY <1>3 DEF d, v

LineStep == [s \in LineStates |-> [x \in Tok |-> LineByte(s, x)]]

LEMMA LineStepType == LineStep \in [LineStates -> [Tok -> LineStates]]
<1>1. ASSUME NEW s \in LineStates, NEW x \in Tok PROVE LineByte(s, x) \in LineStates
  <2>1. s.lines \in Seq(Seq(Tok)) /\ s.line \in Seq(Tok) /\ s = [lines |-> s.lines, line |-> s.line]
    BY DEF LineStates
  <2> DEFINE ls == s.lines
             l == s.line
  <2> HIDE DEF ls, l
  <2>2. ls \in Seq(Seq(Tok)) /\ l \in Seq(Tok) /\ s = [lines |-> ls, line |-> l]
    BY <2>1 DEF ls, l
  <2>3. Append(ls, l) \in Seq(Seq(Tok))
    BY ONLY <2>2
  <2>4. Append(l, x) \in Seq(Tok) /\ <<>> \in Seq(Tok)
    BY ONLY <2>2, x \in Tok
  <2> QED
    BY <2>2, <2>3, <2>4 DEF LineByte, LineStates
<1> QED
  BY <1>1 DEF LineStep

LineRuns(data, v) == Runs(LineStates, Tok, LineStep, [lines |-> <<>>, line |-> <<>>], data, v)

LEMMA LineRun == ASSUME NEW data \in Seq(Tok) PROVE LineRuns(data, LineState(data))
<1> DEFINE D == LineStates
           d == [lines |-> <<>>, line |-> <<>>]
<1>0. Len(data) \in Nat /\ d \in D /\ LineStep \in [D -> [Tok -> D]]
  <2>1. d \in D
    BY DEF LineStates
  <2>2. Len(data) \in Nat
    OBVIOUS
  <2> QED
    BY <2>1, <2>2, LineStepType
<1> DEFINE Def(g) == g = [n \in 0 .. Len(data) |-> IF n = 0 THEN [lines |-> <<>>, line |-> <<>>] ELSE LineByte(g[n - 1], data[n])]
           f == CHOOSE g : Def(g)
<1>1. PICK r : IsRun(D, Tok, LineStep, d, data, r)
  <2> HIDE DEF D, d
  <2> QED
    BY ONLY <1>0, data \in Seq(Tok), RunExists
<1>2. /\ r \in [0 .. Len(data) -> D] /\ r[0] = d
      /\ \A k \in 1 .. Len(data) : r[k] = LineStep[r[k - 1]][data[k]]
  BY <1>1 DEF IsRun
<1>3. ASSUME NEW k \in 1 .. Len(data)
      PROVE  k \in 0 .. Len(data) /\ k # 0 /\ k - 1 \in 0 .. Len(data) /\ data[k] \in Tok
  <2>0. Len(data) \in Nat
    BY <1>0
  <2>1. k \in 0 .. Len(data) /\ k # 0 /\ k - 1 \in 0 .. Len(data)
    BY ONLY <2>0, k \in 1 .. Len(data)
  <2>2. data[k] \in Tok
    BY ONLY k \in 1 .. Len(data), data \in Seq(Tok)
  <2> QED
    BY <2>1, <2>2
<1>4. ASSUME NEW s \in D, NEW x \in Tok PROVE LineStep[s][x] = LineByte(s, x)
  BY DEF LineStep
<1>5. ASSUME NEW n \in 0 .. Len(data) PROVE r[n] = IF n = 0 THEN d ELSE LineByte(r[n - 1], data[n])
  <2>1. CASE n = 0
    BY <1>2, <2>1
  <2>2. CASE n # 0
    <3>1. n \in 1 .. Len(data)
      BY ONLY <1>0, <2>2, n \in 0 .. Len(data)
    <3>2. r[n - 1] \in D /\ data[n] \in Tok
      BY <1>2, <1>3, <3>1
    <3> QED
      BY <1>2, <1>4, <2>2, <3>1, <3>2
  <2> QED
    BY <2>1, <2>2
<1>6. Def(r)
  <2>1. r = [n \in 0 .. Len(data) |-> r[n]]
    BY <1>2
  <2> QED
    BY <1>5, <2>1
<1>7. Def(f)
  <2> HIDE DEF Def
  <2> QED
    BY <1>6
<1>8. LineState(data) = f[Len(data)]
  BY DEF LineState
<1> HIDE DEF f
<1>9. StepsIn(D, LineStep, d, data, f)
  <2>1. f[0] = d
    BY <1>0, <1>7
  <2>2. ASSUME NEW k \in 1 .. Len(data), f[k - 1] \in D PROVE f[k] = LineStep[f[k - 1]][data[k]]
    BY <1>3, <1>4, <1>7, <2>2
  <2> QED
    BY <2>1, <2>2 DEF StepsIn
<1>10. f[Len(data)] = r[Len(data)]
  BY ONLY <1>1, <1>9, RunUnique
<1> QED
  BY <1>1, <1>8, <1>10 DEF LineRuns, Runs

\* ReadLine, one token at a time.
LEMMA LineStateAppend ==
    ASSUME NEW data \in Seq(Tok), NEW x \in Tok
    PROVE  /\ LineState(data) \in LineStates
           /\ LineState(Append(data, x)) = LineByte(LineState(data), x)
<1> DEFINE D == LineStates
           d == [lines |-> <<>>, line |-> <<>>]
           v == LineState(data)
           w == LineState(Append(data, x))
<1>1. Append(data, x) \in Seq(Tok)
  OBVIOUS
<1>2. TwoRuns(D, Tok, LineStep, d, data, x, v, w)
  BY <1>1, LineRun DEF LineRuns, TwoRuns
<1>3. v \in D /\ w = LineStep[v][x]
  <2> HIDE DEF D, d, v, w
  <2> QED
    BY ONLY <1>2, RunAppend
<1> QED
  BY <1>3 DEF LineStep

LEMMA LineStateEmpty == LineState(<<>>) = [lines |-> <<>>, line |-> <<>>]
<1> DEFINE D == LineStates
           d == [lines |-> <<>>, line |-> <<>>]
           v == LineState(<<>>)
<1>1. <<>> \in Seq(Tok)
  OBVIOUS
<1>2. Runs(D, Tok, LineStep, d, <<>>, v)
  BY <1>1, LineRun DEF LineRuns
<1> HIDE DEF D, d, v
<1>3. v = d
  BY ONLY <1>2, RunOfNothing
<1> QED
  BY <1>3 DEF d, v

DotStep == [s \in DotStates |-> [x \in Tok |-> DotByte(s, x)]]

LEMMA DotStepType == DotStep \in [DotStates -> [Tok -> DotStates]]
<1>1. ASSUME NEW s \in DotStates, NEW x \in Tok PROVE DotByte(s, x) \in DotStates
  <2> DEFINE o == s.out
             h == s.held
  <2>1. o \in Seq(Tok) /\ h \in Seq(Tok) /\ h \in {<<>>, <<CR>>}
    <3>1. o \in Seq(Tok) /\ h \in {<<>>, <<CR>>}
      BY DEF DotStates
    <3>2. <<>> \in Seq(Tok) /\ <<CR>> \in Seq(Tok)
      BY DEF Tok
    <3> QED
      BY ONLY <3>1, <3>2
  <2> HIDE DEF o, h
  <2>2. o \o h \in Seq(Tok) /\ o \o <<LF>> \in Seq(Tok) /\ (o \o h) \o <<x>> \in Seq(Tok)
    <3>1. <<LF>> \in Seq(Tok) /\ <<x>> \in Seq(Tok)
      BY DEF Tok
    <3>2. o \o h \in Seq(Tok)
      BY ONLY <2>1
    <3>3. \A a, b \in Seq(Tok) : a \o b \in Seq(Tok)
      OBVIOUS
    <3> QED
      BY ONLY <2>1, <3>1, <3>2, <3>3
  <2>3. DotByte(s, x) = CASE x = CR -> [out |-> o \o h, held |-> <<CR>>]
                          [] x = LF -> [out |-> o \o <<LF>>, held |-> <<>>]
                          [] OTHER  -> [out |-> (o \o h) \o <<x>>, held |-> <<>>]
    BY DEF DotByte, o, h
  <2> QED
    BY <2>2, <2>3 DEF DotStates
<1> QED
  BY <1>1 DEF DotStep

DotRuns(data, v) == Runs(DotStates, Tok, DotStep, [out |-> <<>>, held |-> <<>>], data, v)

LEMMA DotRun == ASSUME NEW data \in Seq(Tok) PROVE DotRuns(data, DotState(data))
<1> DEFINE D == DotStates
           d == [out |-> <<>>, held |-> <<>>]
<1>0. Len(data) \in Nat /\ d \in D /\ DotStep \in [D -> [Tok -> D]]
  <2>1. d \in D
    BY DEF DotStates
  <2>2. Len(data) \in Nat
    OBVIOUS
  <2> QED
    BY <2>1, <2>2, DotStepType
<1> DEFINE Def(g) == g = [n \in 0 .. Len(data) |-> IF n = 0 THEN [out |-> <<>>, held |-> <<>>] ELSE DotByte(g[n - 1], data[n])]
           f == CHOOSE g : Def(g)
<1>1. PICK r : IsRun(D, Tok, DotStep, d, data, r)
  <2> HIDE DEF D, d
  <2> QED
    BY ONLY <1>0, data \in Seq(Tok), RunExists
<1>2. /\ r \in [0 .. Len(data) -> D] /\ r[0] = d
      /\ \A k \in 1 .. Len(data) : r[k] = DotStep[r[k - 1]][data[k]]
  BY <1>1 DEF IsRun
<1>3. ASSUME NEW k \in 1 .. Len(data)
      PROVE  k \in 0 .. Len(data) /\ k # 0 /\ k - 1 \in 0 .. Len(data) /\ data[k] \in Tok
  <2>0. Len(data) \in Nat
    BY <1>0
  <2>1. k \in 0 .. Len(data) /\ k # 0 /\ k - 1 \in 0 .. Len(data)
    BY ONLY <2>0, k \in 1 .. Len(data)
  <2>2. data[k] \in Tok
    BY ONLY k \in 1 .. Len(data), data \in Seq(Tok)
  <2> QED
    BY <2>1, <2>2
<1>4. ASSUME NEW s \in D, NEW x \in Tok PROVE DotStep[s][x] = DotByte(s, x)
  BY DEF DotStep
<1>5. ASSUME NEW n \in 0 .. Len(data) PROVE r[n] = IF n = 0 THEN d ELSE DotByte(r[n - 1], data[n])
  <2>1. CASE n = 0
    BY <1>2, <2>1
  <2>2. CASE n # 0
    <3>1. n \in 1 .. Len(data)
      BY ONLY <1>0, <2>2, n \in 0 .. Len(data)
    <3>2. r[n - 1] \in D /\ data[n] \in Tok
      BY <1>2, <1>3, <3>1
    <3> QED
      BY <1>2, <1>4, <2>2, <3>1, <3>2
  <2> QED
    BY <2>1, <2>2
<1>6. Def(r)
  <2>1. r = [n \in 0 .. Len(data) |-> r[n]]
    BY <1>2
  <2> QED
    BY <1>5, <2>1
<1>7. Def(f)
  <2> HIDE DEF Def
  <2> QED
    BY <1>6
<1>8. DotState(data) = f[Len(data)]
  BY DEF DotState
<1> HIDE DEF f
<1>9. StepsIn(D, DotStep, d, data, f)
  <2>1. f[0] = d
    BY <1>0, <1>7
  <2>2. ASSUME NEW k \in 1 .. Len(data), f[k - 1] \in D PROVE f[k] = DotStep[f[k - 1]][data[k]]
    BY <1>3, <1>4, <1>7, <2>2
  <2> QED
    BY <2>1, <2>2 DEF StepsIn
<1>10. f[Len(data)] = r[Len(data)]
  BY ONLY <1>1, <1>9, RunUnique
<1> QED
  BY <1>1, <1>8, <1>10 DEF DotRuns, Runs

\* The DotReader, one token at a time.
LEMMA DotStateAppend ==
    ASSUME NEW data \in Seq(Tok), NEW x \in Tok
    PROVE  /\ DotState(data) \in DotStates
           /\ DotState(Append(data, x)) = DotByte(DotState(data), x)
<1> DEFINE D == DotStates
           d == [out |-> <<>>, held |-> <<>>]
           v == DotState(data)
           w == DotState(Append(data, x))
<1>1. Append(data, x) \in Seq(Tok)
  OBVIOUS
<1>2. TwoRuns(D, Tok, DotStep, d, data, x, v, w)
  BY <1>1, DotRun DEF DotRuns, TwoRuns
<1>3. v \in D /\ w = DotStep[v][x]
  <2> HIDE DEF D, d, v, w
  <2> QED
    BY ONLY <1>2, RunAppend
<1> QED
  BY <1>3 DEF DotStep

LEMMA DotStateEmpty == DotState(<<>>) = [out |-> <<>>, held |-> <<>>]
<1> DEFINE D == DotStates
           d == [out |-> <<>>, held |-> <<>>]
           v == DotState(<<>>)
<1>1. <<>> \in Seq(Tok)
  OBVIOUS
<1>2. Runs(D, Tok, DotStep, d, <<>>, v)
  BY <1>1, DotRun DEF DotRuns
<1> HIDE DEF D, d, v
<1>3. v = d
  BY ONLY <1>2, RunOfNothing
<1> QED
  BY <1>3 DEF d, v

---------------------------------------------------------------------------
(* Lines and their texts.                                                  *)

LEMMA EndsDiffer == CR # LF
BY DEF CR, LF

Line == Seq(Tokens \cup {CR})

LEMMA SeqMonotone == ASSUME NEW S, NEW R, S \subseteq R PROVE Seq(S) \subseteq Seq(R)
OBVIOUS

LEMMA LineIsText == Line \subseteq Seq(Tok) /\ Seq(Tokens) \subseteq Line /\ Seq(Line) \subseteq Seq(Seq(Tok))
<1>1. Line \subseteq Seq(Tok)
  <2>1. Tokens \cup {CR} \subseteq Tok
    BY DEF Tok
  <2> QED
    BY ONLY <2>1, SeqMonotone DEF Line
<1>2. Seq(Tokens) \subseteq Line
  <2>1. Tokens \subseteq Tokens \cup {CR}
    OBVIOUS
  <2> QED
    BY ONLY <2>1, SeqMonotone DEF Line
<1>3. Seq(Line) \subseteq Seq(Seq(Tok))
  BY ONLY <1>1, SeqMonotone
<1> QED
  BY <1>1, <1>2, <1>3

Each(f, K) == [i \in DOMAIN K |-> f[K[i]]]

Maps(A, B, f, K) == f \in [A -> B] /\ K \in Seq(A)

LEMMA EachType ==
    ASSUME NEW A, NEW B, NEW f, NEW K, Maps(A, B, f, K)
    PROVE  Each(f, K) \in Seq(B) /\ Len(Each(f, K)) = Len(K)
BY DEF Each, Maps

LEMMA EachEmpty == ASSUME NEW f PROVE Each(f, <<>>) = <<>>
BY DEF Each

LEMMA EachAppend ==
    ASSUME NEW A, NEW B, NEW f, NEW K, Maps(A, B, f, K), NEW l \in A
    PROVE  Each(f, Append(K, l)) = Append(Each(f, K), f[l])
<1>0. f \in [A -> B] /\ K \in Seq(A)
  BY DEF Maps
<1> DEFINE L == Each(f, Append(K, l))
           R == Append(Each(f, K), f[l])
<1>1. f[l] \in B /\ Each(f, K) \in Seq(B) /\ Len(Each(f, K)) = Len(K)
  BY <1>0, EachType
<1>2. R \in Seq(B) /\ Len(R) = Len(K) + 1
  BY <1>1
<1>3. L \in Seq(B) /\ Len(L) = Len(K) + 1
  <2>1. Append(K, l) \in Seq(A) /\ Len(Append(K, l)) = Len(K) + 1
    BY <1>0
  <2> DEFINE KL == Append(K, l)
  <2>2. KL \in Seq(A) /\ Len(KL) = Len(K) + 1
    BY <2>1
  <2> HIDE DEF KL
  <2>3. Maps(A, B, f, KL)
    BY <1>0, <2>2 DEF Maps
  <2>4. Each(f, KL) \in Seq(B) /\ Len(Each(f, KL)) = Len(KL)
    BY ONLY <2>3, EachType
  <2> QED
    BY <2>2, <2>4 DEF KL
<1>4. ASSUME NEW i \in 1 .. Len(K) + 1 PROVE L[i] = R[i]
  <2>0. Len(K) \in Nat /\ DOMAIN K = 1 .. Len(K) /\ DOMAIN Append(K, l) = 1 .. Len(K) + 1
    BY <1>0
  <2>1. CASE i = Len(K) + 1
    BY <1>0, <1>1, <2>0, <2>1 DEF Each
  <2>2. CASE i # Len(K) + 1
    <3>1. i \in 1 .. Len(K)
      BY <2>0, <2>2
    <3>2. R[i] = Each(f, K)[i] /\ Append(K, l)[i] = K[i]
      BY <1>0, <1>1, <3>1
    <3> QED
      BY <2>0, <3>1, <3>2 DEF Each
  <2> QED
    BY <2>1, <2>2
<1> HIDE DEF L, R
<1>5. L = R
  BY <1>2, <1>3, <1>4, SeqEqual
<1> QED
  BY <1>5 DEF L, R

LEMMA EachCat ==
    ASSUME NEW A, NEW B, NEW f, NEW K, NEW M, Maps(A, B, f, K), Maps(A, B, f, M)
    PROVE  Each(f, Cat(K, M)) = Cat(Each(f, K), Each(f, M))
<1> DEFINE U == Each(f, K)
           V == Each(f, M)
           KM == Cat(K, M)
           L == Each(f, KM)
           R == Cat(U, V)
<1>0. f \in [A -> B] /\ K \in Seq(A) /\ M \in Seq(A)
  BY DEF Maps
<1>1. U \in Seq(B) /\ Len(U) = Len(K) /\ V \in Seq(B) /\ Len(V) = Len(M)
  BY EachType
<1>2. Len(K) \in Nat /\ Len(M) \in Nat /\ DOMAIN K = 1 .. Len(K) /\ DOMAIN M = 1 .. Len(M)
  BY <1>0
<1>3. KM \in Seq(A) /\ Len(KM) = Len(K) + Len(M)
  BY <1>0, CatType
<1>4. L \in Seq(B) /\ Len(L) = Len(K) + Len(M)
  <2>1. Maps(A, B, f, KM)
    BY <1>0, <1>3 DEF Maps
  <2>2. L \in Seq(B) /\ Len(L) = Len(KM)
    BY ONLY <2>1, EachType
  <2> QED
    BY ONLY <1>3, <2>2
<1>5. /\ \A i \in 1 .. Len(K) : U[i] = f[K[i]]
      /\ \A i \in 1 .. Len(M) : V[i] = f[M[i]]
      /\ \A i \in 1 .. Len(K) + Len(M) : L[i] = f[KM[i]]
  <2>1. DOMAIN KM = 1 .. Len(K) + Len(M)
    BY ONLY <1>3
  <2> HIDE DEF KM
  <2> QED
    BY <1>2, <2>1 DEF Each
<1> HIDE DEF U, V
<1>6. R \in Seq(B) /\ Len(R) = Len(K) + Len(M)
  <2>1. Cat(U, V) \in Seq(B) /\ Len(Cat(U, V)) = Len(U) + Len(V)
    BY ONLY <1>1, CatType
  <2> QED
    BY ONLY <1>1, <2>1
<1>7. ASSUME NEW i \in 1 .. Len(K) + Len(M) PROVE L[i] = R[i]
  <2>1. CASE i \in 1 .. Len(K)
    <3>1. R[i] = U[i] /\ KM[i] = K[i]
      BY <1>0, <1>1, <2>1, CatAt
    <3> QED
      BY <1>5, <2>1, <3>1
  <2>2. CASE i \notin 1 .. Len(K)
    <3>1. PICK j \in 1 .. Len(M) : i = Len(K) + j
      <4>1. i - Len(K) \in 1 .. Len(M) /\ i = Len(K) + (i - Len(K))
        BY ONLY <1>2, <2>2, i \in 1 .. Len(K) + Len(M)
      <4> QED
        BY ONLY <4>1
    <3>2. R[i] = V[j]
      <4>1. U \in Seq(B) /\ V \in Seq(B) /\ j \in 1 .. Len(V)
        BY <1>1
      <4>2. Cat(U, V)[Len(U) + j] = V[j]
        BY ONLY <4>1, CatAt
      <4> QED
        BY <1>1, <3>1, <4>2
    <3>3. KM[i] = M[j]
      BY <1>0, <3>1, CatAt
    <3> QED
      BY <1>5, <3>1, <3>2, <3>3
  <2> QED
    BY <2>1, <2>2
<1> HIDE DEF L, R
<1>8. L = R
  BY <1>2, <1>4, <1>6, <1>7, SeqEqual
<1> QED
  BY <1>8 DEF L, R, U, V

\* The text of lines that end with LF.
Ended == [l \in Seq(Tok) |-> Append(l, LF)]

TextOf(K) == FlattenSeq(Each(Ended, K))

LEMMA EndedType == Ended \in [Seq(Tok) -> Seq(Tok)]
<1>1. \A l \in Seq(Tok) : Append(l, LF) \in Seq(Tok)
  BY DEF Tok
<1> QED
  BY <1>1 DEF Ended

LEMMA EndedMaps == ASSUME NEW K \in Seq(Seq(Tok)) PROVE Maps(Seq(Tok), Seq(Tok), Ended, K)
BY EndedType DEF Maps

LEMMA TextEmpty == TextOf(<<>>) = <<>>
BY EachEmpty, FlatEmpty DEF TextOf

LEMMA TextType == ASSUME NEW K \in Seq(Seq(Tok)) PROVE TextOf(K) \in Seq(Tok)
<1>1. Each(Ended, K) \in Seq(Seq(Tok)) /\ <<>> \in Seq(Tok)
  BY EndedMaps, EachType
<1> QED
  BY <1>1, FlatAppend DEF TextOf

LEMMA TextAppend ==
    ASSUME NEW K \in Seq(Seq(Tok)), NEW l \in Seq(Tok)
    PROVE  TextOf(Append(K, l)) = Cat(TextOf(K), Append(l, LF))
<1>1. Each(Ended, K) \in Seq(Seq(Tok)) /\ Ended[l] \in Seq(Tok) /\ Ended[l] = Append(l, LF)
  <2>1. Ended[l] \in Seq(Tok) /\ Ended[l] = Append(l, LF)
    BY EndedType DEF Ended
  <2> QED
    BY <2>1, EndedMaps, EachType
<1>2. Each(Ended, Append(K, l)) = Append(Each(Ended, K), Ended[l])
  BY EndedMaps, EachAppend
<1> QED
  BY <1>1, <1>2, FlatAppend DEF TextOf

LEMMA TextCat ==
    ASSUME NEW K \in Seq(Seq(Tok)), NEW M \in Seq(Seq(Tok))
    PROVE  TextOf(K \o M) = Cat(TextOf(K), TextOf(M))
<1>1. Each(Ended, K) \in Seq(Seq(Tok)) /\ Each(Ended, M) \in Seq(Seq(Tok))
  BY EndedMaps, EachType
<1>2. Each(Ended, Cat(K, M)) = Cat(Each(Ended, K), Each(Ended, M))
  BY EndedMaps, EachCat
<1>3. Each(Ended, K \o M) = Each(Ended, K) \o Each(Ended, M)
  BY <1>2 DEF Cat
<1> QED
  BY <1>1, <1>3, FlatCat DEF TextOf

---------------------------------------------------------------------------
(* What Lines reads.                                                       *)

LEMMA CRIsTok == CR \in Tok /\ LF \in Tok /\ Tokens \subseteq Tok
BY DEF Tok

\* A line of the header is as it is without its CRs: it has none.
LEMMA NoCRInside == ASSUME NEW l \in Seq(Tokens) PROVE WithoutCR(l) = l
<1> DEFINE P == {u \in Seq(Tokens) : WithoutCR(u) = u}
<1>1. <<>> \in P
  BY WithoutCREmpty
<1>2. ASSUME NEW u \in Seq(Tokens), NEW x \in Tokens, u \in P PROVE Append(u, x) \in P
  <2>1. u \in Seq(Tok) /\ x \in Tok /\ x # CR
    BY LineIsText, CRIsTok, LinesAssumption
  <2>2. WithoutCR(Append(u, x)) = DropCR(WithoutCR(u), x)
    BY <2>1, WithoutCRAppend
  <2>3. WithoutCR(Append(u, x)) = Append(u, x)
    BY <1>2, <2>1, <2>2 DEF DropCR
  <2>4. Append(u, x) \in Seq(Tokens)
    OBVIOUS
  <2> QED
    BY <2>3, <2>4
<1> HIDE DEF P
<1>3. Seq(Tokens) \subseteq P
  BY <1>1, <1>2, SeqInduction
<1> QED
  BY <1>3 DEF P

\* It does not matter for it whether a CR is at the end of a line.
LEMMA NoCRAtEnd ==
    ASSUME NEW l \in Seq(Tok)
    PROVE  WithoutCR(Append(l, CR)) = WithoutCR(l) /\ WithoutCR(l) \in Seq(Tok)
BY WithoutCRAppend, CRIsTok DEF DropCR

\* What a line adds to what Lines has read.
LEMMA LineOver ==
    ASSUME NEW data \in Seq(Tok), NEW l \in Line
    PROVE  LineState(Cat(data, l)) =
             [lines |-> LineState(data).lines, line |-> Cat(LineState(data).line, WithoutCR(l))]
<1> DEFINE A == Tokens \cup {CR}
           ls == LineState(data).lines
           b == LineState(data).line
           P == {u \in Seq(A) : LineState(Cat(data, u)) = [lines |-> ls, line |-> Cat(b, WithoutCR(u))]}
<1>0. ls \in Seq(Seq(Tok)) /\ b \in Seq(Tok) /\ LineState(data) = [lines |-> ls, line |-> b]
  <2>1. CR \in Tok /\ LineState(data) \in LineStates
    BY CRIsTok, LineStateAppend
  <2> QED
    BY <2>1 DEF LineStates
<1>1. <<>> \in P
  <2>1. Cat(data, <<>>) = data
    BY CatEmpty
  <2>2. Cat(b, <<>>) = b
    BY <1>0, CatEmpty
  <2>3. LineState(Cat(data, <<>>)) = [lines |-> ls, line |-> Cat(b, WithoutCR(<<>>))]
    BY <1>0, <2>1, <2>2, WithoutCREmpty
  <2>4. <<>> \in Seq(A)
    OBVIOUS
  <2> QED
    BY <2>3, <2>4
<1> HIDE DEF ls, b
<1>2. ASSUME NEW u \in Seq(A), NEW x \in A, u \in P PROVE Append(u, x) \in P
  <2>1. u \in Seq(Tok) /\ x \in Tok /\ x # LF /\ Cat(data, u) \in Seq(Tok)
    <3>1. u \in Seq(Tok) /\ x \in Tok /\ x # LF
      BY LineIsText, CRIsTok, EndsDiffer, LinesAssumption DEF Line
    <3> QED
      BY <3>1, CatType
  <2>2. Cat(data, Append(u, x)) = Append(Cat(data, u), x)
    BY <2>1, CatAppend
  <2> DEFINE s == LineState(Cat(data, u))
             w == WithoutCR(u)
  <2>3. LineState(Append(Cat(data, u), x)) = LineByte(s, x)
    BY <2>1, LineStateAppend
  <2>4. s = [lines |-> ls, line |-> Cat(b, w)]
    BY <1>2
  <2>5. WithoutCR(Append(u, x)) = DropCR(w, x) /\ w \in Seq(Tok)
    BY <2>1, WithoutCRAppend
  <2> HIDE DEF s, w
  <2>6. LineByte(s, x) = [lines |-> ls, line |-> Cat(b, DropCR(w, x))]
    <3>1. CASE x = CR
      <4>1. LineByte(s, x) = s
        BY <2>1, <3>1 DEF LineByte
      <4>2. DropCR(w, x) = w
        BY <3>1 DEF DropCR
      <4> QED
        BY <2>4, <4>1, <4>2
    <3>2. CASE x # CR
      <4>1. LineByte(s, x) = [s EXCEPT !.line = Append(@, x)]
        BY <2>1, <3>2 DEF LineByte
      <4>2. Append(Cat(b, w), x) = Cat(b, Append(w, x))
        BY <1>0, <2>1, <2>5, CatAppend
      <4> QED
        BY <2>4, <3>2, <4>1, <4>2 DEF DropCR
    <3> QED
      BY <3>1, <3>2
  <2>7. Append(u, x) \in Seq(A)
    OBVIOUS
  <2> QED
    BY <2>2, <2>3, <2>5, <2>6, <2>7
<1> HIDE DEF P, A
<1>3. Seq(A) \subseteq P
  BY <1>1, <1>2, SeqInduction
<1>4. l \in P
  BY <1>3 DEF A, Line
<1> QED
  BY <1>4 DEF P, ls, b

noCR == [l \in Line |-> WithoutCR(l)]

LEMMA NoCRMaps ==
    ASSUME NEW K \in Seq(Line) PROVE Maps(Line, Seq(Tok), noCR, K) /\ NoCR(K) = Each(noCR, K)
<1>1. \A l \in Line : WithoutCR(l) \in Seq(Tok)
  BY NoCRAtEnd, LineIsText
<1>2. noCR \in [Line -> Seq(Tok)]
  BY <1>1 DEF noCR
<1>3. \A i \in DOMAIN K : noCR[K[i]] = WithoutCR(K[i])
  BY DEF noCR
<1>4. NoCR(K) = Each(noCR, K)
  BY <1>3 DEF NoCR, Each
<1> QED
  BY <1>2, <1>4 DEF Maps

LEMMA NoCRAppend ==
    ASSUME NEW K \in Seq(Line), NEW l \in Line
    PROVE  /\ NoCR(Append(K, l)) = Append(NoCR(K), WithoutCR(l))
           /\ NoCR(K) \in Seq(Seq(Tok)) /\ WithoutCR(l) \in Seq(Tok)
<1> DEFINE KL == Append(K, l)
<1>1. KL \in Seq(Line) /\ noCR[l] = WithoutCR(l) /\ WithoutCR(l) \in Seq(Tok)
  BY NoCRAtEnd, LineIsText DEF noCR
<1>2. Maps(Line, Seq(Tok), noCR, K) /\ NoCR(K) = Each(noCR, K)
  BY NoCRMaps
<1>3. NoCR(KL) = Each(noCR, KL)
  <2> HIDE DEF KL
  <2> QED
    BY <1>1, NoCRMaps
<1>4. Each(noCR, Append(K, l)) = Append(Each(noCR, K), noCR[l])
  BY <1>2, EachAppend
<1>5. Each(noCR, K) \in Seq(Seq(Tok))
  BY <1>2, EachType
<1> QED
  BY <1>1, <1>2, <1>3, <1>4, <1>5

\* Lines reads the lines of a text, without their CRs.
LEMMA LinesOver ==
    ASSUME NEW K \in Seq(Line)
    PROVE  LineState(TextOf(K)) = [lines |-> NoCR(K), line |-> <<>>]
<1> DEFINE P == {M \in Seq(Line) : LineState(TextOf(M)) = [lines |-> NoCR(M), line |-> <<>>]}
<1>1. <<>> \in P
  <2>1. NoCR(<<>>) = <<>>
    BY DEF NoCR
  <2> QED
    BY <2>1, TextEmpty, LineStateEmpty
<1>2. ASSUME NEW M \in Seq(Line), NEW l \in Line, M \in P PROVE Append(M, l) \in P
  <2>1. M \in Seq(Seq(Tok)) /\ l \in Seq(Tok)
    BY LineIsText
  <2>2. TextOf(Append(M, l)) = Cat(TextOf(M), Append(l, LF)) /\ TextOf(M) \in Seq(Tok)
    BY <2>1, TextAppend, TextType
  <2> DEFINE t == TextOf(M)
             w == WithoutCR(l)
             ls == NoCR(M)
  <2>3. Cat(t, Append(l, LF)) = Append(Cat(t, l), LF)
    BY <2>1, <2>2, CRIsTok, CatAppend
  <2>4. LineState(t) = [lines |-> ls, line |-> <<>>]
    BY <1>2
  <2>5. ls \in Seq(Seq(Tok)) /\ w \in Seq(Tok) /\ NoCR(Append(M, l)) = Append(ls, w)
    BY NoCRAppend
  <2>6. LineState(Cat(t, l)) = [lines |-> LineState(t).lines, line |-> Cat(LineState(t).line, w)]
    BY <2>2, LineOver
  <2> HIDE DEF t, w, ls
  <2>7. LineState(Cat(t, l)) = [lines |-> ls, line |-> w]
    <3>1. Cat(<<>>, w) = w
      BY <2>5, CatEmpty
    <3> QED
      BY <2>4, <2>6, <3>1
  <2>8. LineState(Append(Cat(t, l), LF)) = LineByte(LineState(Cat(t, l)), LF)
    <3>1. Cat(t, l) \in Seq(Tok)
      BY <2>1, <2>2, CatType DEF t
    <3> QED
      BY <3>1, CRIsTok, LineStateAppend
  <2>9. LineByte(LineState(Cat(t, l)), LF) = [lines |-> Append(ls, w), line |-> <<>>]
    BY <2>7, EndsDiffer DEF LineByte
  <2>10. Append(M, l) \in Seq(Line)
    OBVIOUS
  <2> QED
    BY <2>2, <2>3, <2>5, <2>8, <2>9, <2>10 DEF t
<1> HIDE DEF P
<1>3. Seq(Line) \subseteq P
  BY <1>1, <1>2, SeqInduction
<1> QED
  BY <1>3 DEF P

LEMMA LinesOfText == ASSUME NEW K \in Seq(Line) PROVE Lines(TextOf(K)) = NoCR(K)
BY LinesOver DEF Lines

\* The same where the last line has no LF, and is not empty.
LEMMA LinesOfCut ==
    ASSUME NEW K \in Seq(Line), NEW l \in Line, WithoutCR(l) # <<>>
    PROVE  Lines(Cat(TextOf(K), l)) = Append(NoCR(K), WithoutCR(l))
<1>1. TextOf(K) \in Seq(Tok) /\ WithoutCR(l) \in Seq(Tok)
  BY LineIsText, TextType, NoCRAppend
<1>2. Cat(<<>>, WithoutCR(l)) = WithoutCR(l)
  BY <1>1, CatEmpty
<1>3. LineState(Cat(TextOf(K), l)) =
        [lines |-> LineState(TextOf(K)).lines, line |-> Cat(LineState(TextOf(K)).line, WithoutCR(l))]
  BY <1>1, LineOver
<1>4. LineState(Cat(TextOf(K), l)) = [lines |-> NoCR(K), line |-> WithoutCR(l)]
  BY <1>2, <1>3, LinesOver
<1> QED
  BY <1>4 DEF Lines

---------------------------------------------------------------------------
(* What the DotReader makes of a text.                                     *)

\* A line without the CR at its end, and that CR.
Chomp(l) == IF l # <<>> /\ l[Len(l)] = CR THEN SubSeq(l, 1, Len(l) - 1) ELSE l

Held(l) == IF l # <<>> /\ l[Len(l)] = CR THEN <<CR>> ELSE <<>>

LEMMA ChompAppend ==
    ASSUME NEW l \in Seq(Tok), NEW x \in Tok
    PROVE  /\ Chomp(Append(l, x)) = IF x = CR THEN l ELSE Append(l, x)
           /\ Held(Append(l, x)) = IF x = CR THEN <<CR>> ELSE <<>>
<1> DEFINE m == Append(l, x)
<1>1. Len(l) \in Nat /\ Len(m) = Len(l) + 1 /\ m[Len(m)] = x /\ m # <<>> /\ (Len(l) + 1) - 1 = Len(l)
  OBVIOUS
<1>2. SubSeq(m, 1, Len(l)) = l
  OBVIOUS
<1> HIDE DEF m
<1>3. Chomp(m) = IF x = CR THEN l ELSE m
  BY <1>1, <1>2 DEF Chomp
<1>4. Held(m) = IF x = CR THEN <<CR>> ELSE <<>>
  BY <1>1 DEF Held
<1> QED
  BY <1>3, <1>4 DEF m

LEMMA ChompType ==
    ASSUME NEW l \in Line
    PROVE  Chomp(l) \in Line /\ Held(l) \in Line /\ Cat(Chomp(l), Held(l)) = l
<1> DEFINE A == Tokens \cup {CR}
<1>1. CASE l = <<>>
  <2>1. Chomp(l) = <<>> /\ Held(l) = <<>> /\ <<>> \in Line
    BY <1>1 DEF Chomp, Held, Line
  <2>2. Cat(<<>>, <<>>) = <<>>
    BY <2>1, CatEmpty DEF Line
  <2> QED
    BY <1>1, <2>1, <2>2
<1>2. CASE l # <<>>
  <2>1. PICK u \in Seq(A) : \E x \in A : l = Append(u, x)
    BY <1>2, LastOf DEF Line
  <2>2. PICK x \in A : l = Append(u, x)
    BY <2>1
  <2>3. u \in Seq(Tok) /\ x \in Tok /\ u \in Line
    BY LineIsText, CRIsTok DEF Line
  <2>4. /\ Chomp(l) = IF x = CR THEN u ELSE l
        /\ Held(l) = IF x = CR THEN <<CR>> ELSE <<>>
    BY <2>2, <2>3, ChompAppend
  <2>5. <<>> \in Line /\ <<CR>> \in Line
    BY DEF Line
  <2>6. Cat(u, <<CR>>) = Append(u, CR) /\ Cat(l, <<>>) = l
    <3>1. Cat(l, <<>>) = l
      BY CatEmpty DEF Line
    <3>2. Append(u, CR) = u \o <<CR>>
      BY AppendIsConcat
    <3> QED
      BY <3>1, <3>2 DEF Cat
  <2> QED
    BY <2>2, <2>3, <2>4, <2>5, <2>6
<1> QED
  BY <1>1, <1>2

\* A CR that ends a line is the only one that is lost.
LEMMA NoCRChomp == ASSUME NEW l \in Line PROVE WithoutCR(Chomp(l)) = WithoutCR(l)
<1> DEFINE A == Tokens \cup {CR}
<1>1. CASE l = <<>>
  BY <1>1 DEF Chomp
<1>2. CASE l # <<>>
  <2>1. PICK u \in Seq(A) : \E x \in A : l = Append(u, x)
    BY <1>2, LastOf DEF Line
  <2>2. PICK x \in A : l = Append(u, x)
    BY <2>1
  <2>3. u \in Seq(Tok) /\ x \in Tok
    BY LineIsText, CRIsTok DEF Line
  <2>4. Chomp(l) = IF x = CR THEN u ELSE l
    BY <2>2, <2>3, ChompAppend
  <2>5. WithoutCR(Append(u, CR)) = WithoutCR(u)
    BY <2>3, NoCRAtEnd
  <2> QED
    BY <2>2, <2>4, <2>5
<1> QED
  BY <1>1, <1>2

LEMMA ChompPlain == ASSUME NEW l \in Seq(Tokens) PROVE Chomp(l) = l
<1>1. ASSUME l # <<>> PROVE l[Len(l)] \in Tokens
  BY <1>1
<1> QED
  BY <1>1, LinesAssumption DEF Chomp

LEMMA ChompEnded == ASSUME NEW l \in Seq(Tok) PROVE Chomp(Append(l, CR)) = l
BY ChompAppend, CRIsTok

\* A line that follows what the DotReader has let through.
LEMMA DotOver ==
    ASSUME NEW data \in Seq(Tok), DotState(data).held = <<>>, NEW l \in Line
    PROVE  DotState(Cat(data, l)) = [out |-> Cat(DotState(data).out, Chomp(l)), held |-> Held(l)]
<1> DEFINE A == Tokens \cup {CR}
           o == DotState(data).out
           P == {u \in Seq(A) : DotState(Cat(data, u)) = [out |-> Cat(o, Chomp(u)), held |-> Held(u)]}
<1>0. o \in Seq(Tok) /\ DotState(data) = [out |-> o, held |-> <<>>]
  <2>1. DotState(data) \in DotStates
    BY CRIsTok, DotStateAppend
  <2> QED
    BY <2>1 DEF DotStates
<1>1. <<>> \in P
  <2>1. Cat(data, <<>>) = data
    BY CatEmpty
  <2>2. Cat(o, <<>>) = o
    BY <1>0, CatEmpty
  <2>3. Chomp(<<>>) = <<>> /\ Held(<<>>) = <<>>
    BY DEF Chomp, Held
  <2>4. DotState(Cat(data, <<>>)) = [out |-> Cat(o, Chomp(<<>>)), held |-> Held(<<>>)]
    BY <1>0, <2>1, <2>2, <2>3
  <2>5. <<>> \in Seq(A)
    OBVIOUS
  <2> QED
    BY <2>4, <2>5
<1> HIDE DEF o
<1>2. ASSUME NEW u \in Seq(A), NEW x \in A, u \in P PROVE Append(u, x) \in P
  <2>1. u \in Seq(Tok) /\ x \in Tok /\ x # LF /\ u \in Line /\ Cat(data, u) \in Seq(Tok)
    <3>1. u \in Seq(Tok) /\ x \in Tok /\ x # LF
      BY LineIsText, CRIsTok, EndsDiffer, LinesAssumption DEF Line
    <3> QED
      BY <3>1, CatType DEF Line
  <2>2. Cat(data, Append(u, x)) = Append(Cat(data, u), x)
    BY <2>1, CatAppend
  <2> DEFINE s == DotState(Cat(data, u))
             c == Chomp(u)
             h == Held(u)
  <2>3. DotState(Append(Cat(data, u), x)) = DotByte(s, x)
    BY <2>1, DotStateAppend
  <2>4. s = [out |-> Cat(o, c), held |-> h]
    BY <1>2
  <2>5. c \in Seq(Tok) /\ h \in Seq(Tok) /\ Cat(c, h) = u
    BY <2>1, ChompType, LineIsText
  <2> HIDE DEF s, c, h
  <2>6. Cat(o, c) \o h = Cat(o, u) /\ Cat(o, u) \in Seq(Tok)
    <3>1. Cat(Cat(o, c), h) = Cat(o, Cat(c, h))
      BY <1>0, <2>5, CatAssociative
    <3>2. Cat(o, u) \in Seq(Tok)
      BY <1>0, <2>1, CatType
    <3> QED
      BY <2>5, <3>1, <3>2 DEF Cat
  <2>7. DotByte(s, x) = [out |-> Cat(o, Chomp(Append(u, x))), held |-> Held(Append(u, x))]
    <3>1. CASE x = CR
      <4>1. DotByte(s, x) = [out |-> s.out \o s.held, held |-> <<CR>>]
        BY <2>1, <3>1 DEF DotByte
      <4>2. Chomp(Append(u, x)) = u /\ Held(Append(u, x)) = <<CR>>
        BY <2>1, <3>1, ChompAppend
      <4> QED
        BY <2>4, <2>6, <4>1, <4>2
    <3>2. CASE x # CR
      <4>1. DotByte(s, x) = [out |-> s.out \o s.held \o <<x>>, held |-> <<>>]
        BY <2>1, <3>2 DEF DotByte
      <4>2. Chomp(Append(u, x)) = Append(u, x) /\ Held(Append(u, x)) = <<>>
        BY <2>1, <3>2, ChompAppend
      <4>3. Cat(o, u) \o <<x>> = Append(Cat(o, u), x)
        BY <2>1, <2>6, AppendIsConcat
      <4>4. Append(Cat(o, u), x) = Cat(o, Append(u, x))
        BY <1>0, <2>1, CatAppend
      <4> QED
        BY <2>4, <2>6, <4>1, <4>2, <4>3, <4>4
    <3> QED
      BY <3>1, <3>2
  <2>8. Append(u, x) \in Seq(A)
    OBVIOUS
  <2> QED
    BY <2>2, <2>3, <2>7, <2>8
<1> HIDE DEF P, A
<1>3. Seq(A) \subseteq P
  BY <1>1, <1>2, SeqInduction
<1>4. l \in P
  BY <1>3 DEF A, Line
<1> QED
  BY <1>4 DEF P, o

chomped == [l \in Line |-> Chomp(l)]

Chomped(K) == Each(chomped, K)

LEMMA ChompedMaps == ASSUME NEW K \in Seq(Line) PROVE Maps(Line, Line, chomped, K) /\ Chomped(K) \in Seq(Line)
<1>1. \A l \in Line : Chomp(l) \in Line
  BY ChompType
<1>2. chomped \in [Line -> Line]
  BY <1>1 DEF chomped
<1>3. Maps(Line, Line, chomped, K)
  BY <1>2 DEF Maps
<1> QED
  BY <1>3, EachType DEF Chomped

LEMMA ChompedAppend ==
    ASSUME NEW K \in Seq(Line), NEW l \in Line PROVE Chomped(Append(K, l)) = Append(Chomped(K), Chomp(l))
<1>1. chomped[l] = Chomp(l) /\ Maps(Line, Line, chomped, K)
  BY ChompedMaps DEF chomped
<1>2. Each(chomped, Append(K, l)) = Append(Each(chomped, K), chomped[l])
  BY <1>1, EachAppend
<1> QED
  BY <1>1, <1>2 DEF Chomped

\* The DotReader takes the CR from the end of each line.
LEMMA DotReaderOver ==
    ASSUME NEW K \in Seq(Line)
    PROVE  DotState(TextOf(K)) = [out |-> TextOf(Chomped(K)), held |-> <<>>]
<1> DEFINE P == {M \in Seq(Line) : DotState(TextOf(M)) = [out |-> TextOf(Chomped(M)), held |-> <<>>]}
<1>1. <<>> \in P
  <2>1. Chomped(<<>>) = <<>>
    BY EachEmpty DEF Chomped
  <2> QED
    BY <2>1, TextEmpty, DotStateEmpty
<1>2. ASSUME NEW M \in Seq(Line), NEW l \in Line, M \in P PROVE Append(M, l) \in P
  <2>1. M \in Seq(Seq(Tok)) /\ l \in Seq(Tok) /\ Chomped(M) \in Seq(Seq(Tok)) /\ Chomp(l) \in Seq(Tok)
    BY LineIsText, ChompedMaps, ChompType
  <2>2. TextOf(Append(M, l)) = Cat(TextOf(M), Append(l, LF)) /\ TextOf(M) \in Seq(Tok)
    BY <2>1, TextAppend, TextType
  <2>3. /\ TextOf(Append(Chomped(M), Chomp(l))) = Cat(TextOf(Chomped(M)), Append(Chomp(l), LF))
        /\ TextOf(Chomped(M)) \in Seq(Tok)
    BY <2>1, TextAppend, TextType
  <2>4. Chomped(Append(M, l)) = Append(Chomped(M), Chomp(l))
    BY ChompedAppend
  <2> DEFINE t == TextOf(M)
             o == TextOf(Chomped(M))
             c == Chomp(l)
  <2>5. Cat(t, Append(l, LF)) = Append(Cat(t, l), LF)
    BY <2>1, <2>2, CRIsTok, CatAppend
  <2>6. DotState(t) = [out |-> o, held |-> <<>>]
    BY <1>2
  <2>7. DotState(Cat(t, l)) = [out |-> Cat(DotState(t).out, c), held |-> Held(l)]
    BY <2>2, <2>6, DotOver
  <2>8. DotState(Append(Cat(t, l), LF)) = DotByte(DotState(Cat(t, l)), LF)
    <3>1. Cat(t, l) \in Seq(Tok)
      BY <2>1, <2>2, CatType
    <3> QED
      BY <3>1, CRIsTok, DotStateAppend
  <2>9. Cat(o, c) \o <<LF>> = Cat(o, Append(c, LF))
    <3>1. Cat(o, c) \in Seq(Tok)
      BY <2>1, <2>3, CatType
    <3>2. Cat(o, c) \o <<LF>> = Append(Cat(o, c), LF)
      BY <3>1, CRIsTok, AppendIsConcat
    <3>3. Cat(o, Append(c, LF)) = Append(Cat(o, c), LF)
      BY <2>1, <2>3, CRIsTok, CatAppend
    <3> QED
      BY <3>2, <3>3
  <2> HIDE DEF t, o, c
  <2>10. DotByte(DotState(Cat(t, l)), LF) = [out |-> Cat(o, Append(c, LF)), held |-> <<>>]
    <3>1. DotByte(DotState(Cat(t, l)), LF) = [out |-> DotState(Cat(t, l)).out \o <<LF>>, held |-> <<>>]
      BY EndsDiffer DEF DotByte
    <3>2. DotState(t).out = o
      BY <2>6
    <3>3. DotState(Cat(t, l)).out = Cat(o, c)
      BY <2>7, <3>2
    <3> QED
      BY <2>9, <3>1, <3>3
  <2>11. Append(M, l) \in Seq(Line)
    OBVIOUS
  <2> QED
    BY <2>2, <2>3, <2>4, <2>5, <2>8, <2>10, <2>11 DEF t, o, c
<1> HIDE DEF P
<1>3. Seq(Line) \subseteq P
  BY <1>1, <1>2, SeqInduction
<1> QED
  BY <1>3 DEF P

LEMMA DotReaderChomps == ASSUME NEW K \in Seq(Line) PROVE DotReader(TextOf(K)) = TextOf(Chomped(K))
<1>1. TextOf(Chomped(K)) \in Seq(Tok)
  BY ChompedMaps, LineIsText, TextType
<1>2. TextOf(Chomped(K)) \o <<>> = TextOf(Chomped(K))
  BY <1>1, ConcatEmptySeq
<1>3. DotState(TextOf(K)).out = TextOf(Chomped(K)) /\ DotState(TextOf(K)).held = <<>>
  BY DotReaderOver
<1> QED
  BY <1>2, <1>3 DEF DotReader

---------------------------------------------------------------------------
(* The lines of a message, and its text.                                   *)

LEMMA NoCRCat ==
    ASSUME NEW K \in Seq(Line), NEW M \in Seq(Line)
    PROVE  NoCR(Cat(K, M)) = Cat(NoCR(K), NoCR(M))
<1> DEFINE KM == Cat(K, M)
<1>1. KM \in Seq(Line)
  BY CatType
<1>2. /\ Maps(Line, Seq(Tok), noCR, K) /\ NoCR(K) = Each(noCR, K)
      /\ Maps(Line, Seq(Tok), noCR, M) /\ NoCR(M) = Each(noCR, M)
  BY NoCRMaps
<1>3. NoCR(KM) = Each(noCR, KM)
  <2> HIDE DEF KM
  <2> QED
    BY <1>1, NoCRMaps
<1>4. Each(noCR, KM) = Cat(Each(noCR, K), Each(noCR, M))
  BY <1>2, EachCat
<1> QED
  BY <1>2, <1>3, <1>4

LEMMA NoCRPlain == ASSUME NEW K \in Seq(Seq(Tokens)) PROVE NoCR(K) = K
<1>1. \A i \in DOMAIN K : WithoutCR(K[i]) = K[i]
  <2>1. \A i \in DOMAIN K : K[i] \in Seq(Tokens)
    OBVIOUS
  <2> QED
    BY <2>1, NoCRInside
<1>2. K = [i \in DOMAIN K |-> K[i]]
  OBVIOUS
<1> QED
  BY <1>1, <1>2 DEF NoCR

LEMMA NoCRChomped == ASSUME NEW K \in Seq(Line) PROVE NoCR(Chomped(K)) = NoCR(K)
<1>1. \A i \in DOMAIN K : K[i] \in Line
  OBVIOUS
<1>2. DOMAIN Chomped(K) = DOMAIN K /\ \A i \in DOMAIN K : Chomped(K)[i] = Chomp(K[i])
  BY <1>1 DEF Chomped, Each, chomped
<1>3. \A i \in DOMAIN K : WithoutCR(Chomped(K)[i]) = WithoutCR(K[i])
  BY <1>1, <1>2, NoCRChomp
<1> QED
  BY <1>2, <1>3 DEF NoCR

\* Lines with a CR at their end.
ended == [l \in Line |-> Append(l, CR)]

WithCR(K) == Each(ended, K)

LEMMA WithCRMaps == ASSUME NEW K \in Seq(Line) PROVE Maps(Line, Line, ended, K) /\ WithCR(K) \in Seq(Line)
<1>1. \A l \in Line : Append(l, CR) \in Line
  BY DEF Line
<1>2. ended \in [Line -> Line]
  BY <1>1 DEF ended
<1>3. Maps(Line, Line, ended, K)
  BY <1>2 DEF Maps
<1> QED
  BY <1>3, EachType DEF WithCR

LEMMA WithCRCat ==
    ASSUME NEW K \in Seq(Line), NEW M \in Seq(Line)
    PROVE  WithCR(Cat(K, M)) = Cat(WithCR(K), WithCR(M))
<1>1. Maps(Line, Line, ended, K) /\ Maps(Line, Line, ended, M)
  BY WithCRMaps
<1> QED
  BY <1>1, EachCat DEF WithCR

LEMMA WithCRAppend ==
    ASSUME NEW K \in Seq(Line), NEW l \in Line PROVE WithCR(Append(K, l)) = Append(WithCR(K), Append(l, CR))
<1>1. ended[l] = Append(l, CR) /\ Maps(Line, Line, ended, K)
  BY WithCRMaps DEF ended
<1>2. Each(ended, Append(K, l)) = Append(Each(ended, K), ended[l])
  BY <1>1, EachAppend
<1> QED
  BY <1>1, <1>2 DEF WithCR

LEMMA WithCRAt ==
    ASSUME NEW K \in Seq(Line)
    PROVE  /\ DOMAIN WithCR(K) = DOMAIN K
           /\ \A i \in DOMAIN K : K[i] \in Line /\ WithCR(K)[i] = Append(K[i], CR)
<1>1. \A i \in DOMAIN K : K[i] \in Line
  OBVIOUS
<1> QED
  BY <1>1 DEF WithCR, Each, ended

LEMMA NoCRWithCR == ASSUME NEW K \in Seq(Line) PROVE NoCR(WithCR(K)) = NoCR(K)
<1>1. \A i \in DOMAIN K : WithoutCR(WithCR(K)[i]) = WithoutCR(K[i])
  BY WithCRAt, NoCRAtEnd, LineIsText
<1> QED
  BY <1>1, WithCRAt DEF NoCR

\* Chomping a line that was written with CR LF gives it back.
LEMMA ChompedWithCR == ASSUME NEW K \in Seq(Line) PROVE Chomped(WithCR(K)) = K
<1>1. WithCR(K) \in Seq(Line) /\ DOMAIN WithCR(K) = DOMAIN K
  BY WithCRMaps, WithCRAt
<1>2. \A i \in DOMAIN K : Chomp(WithCR(K)[i]) = K[i] /\ WithCR(K)[i] \in Line
  <2>1. \A i \in DOMAIN K : WithCR(K)[i] \in Line
    BY <1>1
  <2> QED
    BY <2>1, WithCRAt, ChompEnded, LineIsText
<1>3. Chomped(WithCR(K)) = [i \in DOMAIN K |-> K[i]]
  BY <1>1, <1>2 DEF Chomped, Each, chomped
<1> QED
  BY <1>3

LEMMA ChompedPlain == ASSUME NEW K \in Seq(Seq(Tokens)) PROVE Chomped(K) = K
<1>1. \A i \in DOMAIN K : K[i] \in Seq(Tokens)
  OBVIOUS
<1>2. \A i \in DOMAIN K : Chomp(K[i]) = K[i] /\ K[i] \in Line
  BY <1>1, ChompPlain, LineIsText
<1>3. Chomped(K) = [i \in DOMAIN K |-> K[i]]
  BY <1>2 DEF Chomped, Each, chomped
<1> QED
  BY <1>3

LEMMA ChompedCat ==
    ASSUME NEW K \in Seq(Line), NEW M \in Seq(Line)
    PROVE  Chomped(Cat(K, M)) = Cat(Chomped(K), Chomped(M))
<1>1. Maps(Line, Line, chomped, K) /\ Maps(Line, Line, chomped, M)
  BY ChompedMaps
<1> QED
  BY <1>1, EachCat DEF Chomped

\* The lines of a message: its header, an empty line, its body.
PlainLine == Seq(Tokens) \ {<<>>}

AllLines == Cat(Cat(msg.header, << <<>> >>), msg.body)

LEMMA MessageLines ==
    ASSUME msg \in Messages
    PROVE  /\ msg.header \in Seq(PlainLine) /\ msg.header \in Seq(Seq(Tokens)) /\ msg.header \in Seq(Line)
           /\ msg.body \in Seq(Line) /\ << <<>> >> \in Seq(Line)
           /\ AllLines \in Seq(Line) /\ msg.eol \in {<<CR, LF>>, <<LF>>}
<1>1. msg.header \in Seq(PlainLine) /\ msg.body \in Seq(Line) /\ msg.eol \in {<<CR, LF>>, <<LF>>}
  BY LinesAssumption DEF PlainLine, Line
<1>2. msg.header \in Seq(Seq(Tokens))
  <2>1. PlainLine \subseteq Seq(Tokens)
    BY DEF PlainLine
  <2> QED
    BY <1>1, <2>1, SeqMonotone
<1>3. msg.header \in Seq(Line)
  BY <1>2, LineIsText, SeqMonotone
<1>4. << <<>> >> \in Seq(Line)
  <2>1. <<>> \in Line
    BY DEF Line
  <2> QED
    BY <2>1
<1>5. Cat(msg.header, << <<>> >>) \in Seq(Line)
  BY <1>3, <1>4, CatType
<1>6. AllLines \in Seq(Line)
  BY <1>1, <1>5, CatType DEF AllLines
<1> QED
  BY <1>1, <1>2, <1>3, <1>4, <1>6

LEMMA WrittenText ==
    ASSUME msg \in Messages
    PROVE  /\ msg.eol = <<LF>> => Written = TextOf(AllLines)
           /\ msg.eol = <<CR, LF>> => Written = TextOf(WithCR(AllLines))
<1> DEFINE K == AllLines
<1>1. K \in Seq(Line) /\ K \in Seq(Seq(Tok))
  BY MessageLines, LineIsText
<1>2. Written = FlattenSeq([i \in DOMAIN K |-> K[i] \o msg.eol])
  BY DEF Written, AllLines, Cat
<1> HIDE DEF K
<1>3. \A i \in DOMAIN K : K[i] \in Line /\ K[i] \in Seq(Tok)
  BY <1>1, LineIsText
<1>4. ASSUME msg.eol = <<LF>> PROVE Written = TextOf(K)
  <2>1. \A i \in DOMAIN K : K[i] \o <<LF>> = Ended[K[i]]
    <3>1. \A l \in Seq(Tok) : l \o <<LF>> = Append(l, LF)
      BY CRIsTok, AppendIsConcat
    <3> QED
      BY <1>3, <3>1 DEF Ended
  <2>2. [i \in DOMAIN K |-> K[i] \o msg.eol] = Each(Ended, K)
    BY <1>4, <2>1 DEF Each
  <2> QED
    BY <1>2, <2>2 DEF TextOf
<1>5. ASSUME msg.eol = <<CR, LF>> PROVE Written = TextOf(WithCR(K))
  <2>1. \A i \in DOMAIN K : K[i] \o <<CR, LF>> = Ended[WithCR(K)[i]]
    <3>1. ASSUME NEW l \in Seq(Tok) PROVE Append(l, CR) \in Seq(Tok) /\ l \o <<CR, LF>> = Append(Append(l, CR), LF)
      <4>1. Append(l, CR) \in Seq(Tok)
        BY CRIsTok
      <4>2. l \o <<CR, LF>> = Append(Append(l, CR), LF)
        OBVIOUS
      <4> QED
        BY <4>1, <4>2
    <3> QED
      BY <1>1, <1>3, <3>1, WithCRAt DEF Ended
  <2>2. [i \in DOMAIN K |-> K[i] \o msg.eol] = Each(Ended, WithCR(K))
    BY <1>1, <1>5, <2>1, WithCRAt DEF Each
  <2> QED
    BY <1>2, <2>2 DEF TextOf
<1> QED
  BY <1>4, <1>5 DEF K

---------------------------------------------------------------------------
(* Where a text is cut.                                                    *)

LEMMA CatSubSeq ==
    ASSUME NEW S, NEW s \in Seq(S), NEW t \in Seq(S)
    PROVE  /\ SubSeq(Cat(s, t), 1, Len(s)) = s
           /\ SubSeq(Cat(s, t), Len(s) + 1, Len(s) + Len(t)) = t
<1> DEFINE c == Cat(s, t)
           a == SubSeq(c, 1, Len(s))
           b == SubSeq(c, Len(s) + 1, Len(s) + Len(t))
<1>0. Cat(s, t) \in Seq(S) /\ Len(Cat(s, t)) = Len(s) + Len(t)
  BY CatType
<1>1. Len(s) \in Nat /\ Len(t) \in Nat /\ c \in Seq(S) /\ Len(c) = Len(s) + Len(t)
  BY <1>0
<1>2. /\ \A i \in 1 .. Len(s) : c[i] = s[i]
      /\ \A i \in 1 .. Len(t) : c[Len(s) + i] = t[i]
  BY CatAt
<1> HIDE DEF c
<1>3. a \in Seq(S) /\ Len(a) = Len(s) /\ \A i \in 1 .. Len(s) : a[i] = s[i]
  BY <1>1, <1>2
<1>4. b \in Seq(S) /\ Len(b) = Len(t) /\ \A i \in 1 .. Len(t) : b[i] = c[Len(s) + i]
  BY <1>1
<1> HIDE DEF a, b
<1>5. a = s
  BY <1>3, SeqEqual
<1>6. b = t
  BY <1>2, <1>4, SeqEqual
<1> QED
  BY <1>5, <1>6 DEF a, b, c

IsAt(data, sep, j) ==
    /\ j \in Nat /\ j + Len(sep) <= Len(data)
    /\ \A i \in 1 .. Len(sep) : data[j + i] = sep[i]

LEMMA CutsAt ==
    ASSUME NEW data \in Seq(Tok), NEW sep \in Seq(Tok), NEW j \in Cuts(data, sep)
    PROVE  IsAt(data, sep, j)
<1> DEFINE n == Len(sep)
           b == SubSeq(data, j + 1, j + n)
<1>1. n \in Nat /\ Len(data) \in Nat /\ j \in 0 .. Len(data) - n /\ b = sep
  BY DEF Cuts
<1>2. j \in Nat /\ j + n <= Len(data)
  BY ONLY <1>1
<1>3. ASSUME NEW i \in 1 .. n PROVE data[j + i] = sep[i]
  <2>1. b[i] = data[j + i]
    BY <1>1, <1>2
  <2> QED
    BY <1>1, <2>1
<1> QED
  BY <1>2, <1>3 DEF IsAt

LEMMA CutsFrom ==
    ASSUME NEW data \in Seq(Tok), NEW sep \in Seq(Tok), NEW j \in Nat, j + Len(sep) <= Len(data),
           \A i \in 1 .. Len(sep) : data[j + i] = sep[i]
    PROVE  j \in Cuts(data, sep)
<1> DEFINE n == Len(sep)
           b == SubSeq(data, j + 1, j + n)
<1>1. n \in Nat /\ Len(data) \in Nat /\ j \in 0 .. Len(data) - n
  OBVIOUS
<1>2. b \in Seq(Tok) /\ Len(b) = n /\ \A i \in 1 .. n : b[i] = data[j + i]
  BY <1>1
<1>3. \A i \in 1 .. n : b[i] = sep[i]
  BY <1>2
<1> HIDE DEF b
<1>4. b = sep
  BY <1>2, <1>3, SeqEqual
<1> QED
  BY <1>1, <1>4 DEF Cuts, b

\* A text is cut between what precedes and follows the separator that comes first.
LEMMA CutBetween ==
    ASSUME NEW h \in Seq(Tok), NEW sep \in Seq(Tok), NEW b \in Seq(Tok), NEW data,
           data = Cat(Cat(h, sep), b), \A j \in Cuts(data, sep) : Len(h) <= j
    PROVE  /\ Cuts(data, sep) # {}
           /\ CutAt(data, sep) = [err |-> "none", header |-> h, body |-> b]
<1> DEFINE hs == Cat(h, sep)
           sb == Cat(sep, b)
           C == Cuts(data, sep)
<1>1. hs \in Seq(Tok) /\ Len(hs) = Len(h) + Len(sep) /\ sb \in Seq(Tok) /\ Len(sb) = Len(sep) + Len(b)
  BY CatType
<1>2. data = Cat(h, sb)
  BY CatAssociative
<1>3. Len(h) \in Nat /\ Len(sep) \in Nat /\ Len(b) \in Nat
  OBVIOUS
<1>4. \A i \in 1 .. Len(sep) : sb[i] = sep[i] /\ i \in 1 .. Len(sb)
  <2>1. \A i \in 1 .. Len(sep) : sb[i] = sep[i]
    BY CatAt
  <2>2. \A i \in 1 .. Len(sep) : i \in 1 .. Len(sb)
    BY <1>1, <1>3
  <2> QED
    BY <2>1, <2>2
<1>5. data = Cat(hs, b)
  OBVIOUS
<1> HIDE DEF hs, sb, C
<1>6. data \in Seq(Tok) /\ Len(data) = Len(h) + Len(sep) + Len(b)
  <2>1. data \in Seq(Tok) /\ Len(data) = Len(hs) + Len(b)
    BY <1>1, <1>5, CatType
  <2> QED
    BY <1>1, <2>1
<1>7. Len(h) \in C
  <2>1. \A i \in 1 .. Len(sep) : data[Len(h) + i] = sep[i]
    <3>1. ASSUME NEW i \in 1 .. Len(sb) PROVE data[Len(h) + i] = sb[i]
      <4>0. h \in Seq(Tok) /\ sb \in Seq(Tok) /\ i \in 1 .. Len(sb)
        BY <1>1
      <4>1. Cat(h, sb)[Len(h) + i] = sb[i]
        BY ONLY <4>0, CatAt
      <4> QED
        BY <1>2, <4>1
    <3> QED
      BY <1>4, <3>1
  <2>2. Len(h) + Len(sep) <= Len(data)
    BY <1>3, <1>6
  <2> QED
    BY <1>3, <1>6, <2>1, <2>2, CutsFrom DEF C
<1>8. \A j \in C : j \in Nat
  BY <1>6, CutsAt DEF C, IsAt
<1> DEFINE i == CHOOSE i \in C : \A j \in C : i <= j
<1>9. i = Len(h)
  <2>1. \A j \in C : Len(h) <= j
    BY DEF C
  <2>2. i \in C /\ \A j \in C : i <= j
    BY <1>7, <2>1
  <2>3. i <= Len(h) /\ Len(h) <= i /\ i \in Nat
    BY <1>7, <1>8, <2>1, <2>2
  <2> HIDE DEF i
  <2> QED
    BY ONLY <1>3, <2>3
<1>10. CutAt(data, sep) =
         [err |-> "none", header |-> SubSeq(data, 1, i), body |-> SubSeq(data, i + Len(sep) + 1, Len(data))]
  BY DEF CutAt, C
<1> HIDE DEF i
<1>11. SubSeq(data, 1, Len(h)) = h
  BY <1>1, <1>2, CatSubSeq
<1>12. SubSeq(data, Len(h) + Len(sep) + 1, Len(data)) = b
  <2>1. SubSeq(Cat(hs, b), Len(hs) + 1, Len(hs) + Len(b)) = b
    BY <1>1, CatSubSeq
  <2>2. Len(hs) + 1 = Len(h) + Len(sep) + 1 /\ Len(hs) + Len(b) = Len(data)
    BY <1>1, <1>3, <1>6
  <2> QED
    BY <1>5, <2>1, <2>2
<1> QED
  BY <1>7, <1>9, <1>10, <1>11, <1>12 DEF C

\* A line that may be in a header.
HeaderLine == {l \in Line : l # <<>> /\ l[1] \in Tokens /\ WithoutCR(l) # <<>>}

\* A text that is lines of a header: none of them is empty.
HeaderText(X) ==
    /\ X \in Seq(Tok)
    /\ X # <<>> => X[Len(X)] = LF
    /\ \A p \in 1 .. Len(X) - 1 : X[p] = LF => X[p + 1] \in Tokens

LEMMA TextIsHeader == ASSUME NEW Z \in Seq(HeaderLine) PROVE HeaderText(TextOf(Z))
<1> DEFINE P == {K \in Seq(HeaderLine) : HeaderText(TextOf(K))}
<1>1. <<>> \in P
  <2>1. HeaderText(<<>>)
    <3>1. <<>> \in Seq(Tok) /\ Len(<<>>) = 0
      OBVIOUS
    <3> QED
      BY <3>1 DEF HeaderText
  <2> QED
    BY <2>1, TextEmpty
<1>2. ASSUME NEW K \in Seq(HeaderLine), NEW l \in HeaderLine, K \in P PROVE Append(K, l) \in P
  <2> DEFINE X == TextOf(K)
             e == Append(l, LF)
             Y == Cat(X, e)
  <2>0. K \in Seq(Seq(Tok)) /\ l \in Seq(Tok) /\ l \in Line /\ l # <<>> /\ l[1] \in Tokens
    <3>1. HeaderLine \subseteq Seq(Tok)
      BY LineIsText DEF HeaderLine
    <3>2. K \in Seq(Seq(Tok))
      BY <3>1, SeqMonotone
    <3> QED
      BY <3>1, <3>2 DEF HeaderLine
  <2>1. TextOf(Append(K, l)) = Y
    BY <2>0, TextAppend
  <2>2. HeaderText(X) /\ X \in Seq(Tok) /\ Len(X) \in Nat
    BY <1>2 DEF HeaderText
  <2>3. /\ e \in Seq(Tok) /\ Len(e) = Len(l) + 1 /\ Len(l) \in Nat /\ Len(l) # 0
        /\ e[Len(l) + 1] = LF /\ e[1] = l[1] /\ \A i \in 1 .. Len(l) : e[i] = l[i] /\ l[i] # LF
    <3>1. e \in Seq(Tok) /\ Len(e) = Len(l) + 1 /\ Len(l) \in Nat /\ Len(l) # 0
      BY <2>0, CRIsTok
    <3>2. e[Len(l) + 1] = LF /\ \A i \in 1 .. Len(l) : e[i] = l[i]
      BY <2>0
    <3>3. \A i \in 1 .. Len(l) : l[i] \in Tokens \cup {CR}
      BY <2>0 DEF Line
    <3>4. \A i \in 1 .. Len(l) : l[i] # LF
      BY <3>3, EndsDiffer, LinesAssumption
    <3>5. 1 \in 1 .. Len(l)
      BY ONLY <3>1
    <3> HIDE DEF e
    <3> QED
      BY <3>1, <3>2, <3>4, <3>5
  <2> HIDE DEF X, e
  <2>4. Y \in Seq(Tok) /\ Len(Y) = Len(X) + Len(e)
    BY <2>2, <2>3, CatType
  <2>5. /\ \A i \in 1 .. Len(X) : Y[i] = X[i]
        /\ \A i \in 1 .. Len(e) : Y[Len(X) + i] = e[i]
    BY <2>2, <2>3, CatAt
  <2> HIDE DEF Y
  <2>6. Y[Len(Y)] = LF
    <3>1. Len(e) \in 1 .. Len(e) /\ Len(e) = Len(l) + 1
      BY <2>3
    <3> QED
      BY <2>3, <2>4, <2>5, <3>1
  <2>7. ASSUME NEW p \in 1 .. Len(Y) - 1, Y[p] = LF PROVE Y[p + 1] \in Tokens
    <3>1. CASE p + 1 <= Len(X)
      <4>1. p \in 1 .. Len(X) - 1 /\ p \in 1 .. Len(X) /\ p + 1 \in 1 .. Len(X)
        BY ONLY <2>2, <3>1, p \in 1 .. Len(Y) - 1
      <4> QED
        BY <2>2, <2>5, <2>7, <4>1 DEF HeaderText
    <3>2. CASE p = Len(X)
      <4>1. 1 \in 1 .. Len(e)
        BY <2>3
      <4>2. Y[Len(X) + 1] = e[1]
        BY <2>5, <4>1
      <4> QED
        BY <2>0, <2>3, <3>2, <4>2
    <3>3. CASE p > Len(X)
      <4>1. PICK q \in 1 .. Len(l) : p = Len(X) + q
        <5>1. p - Len(X) \in 1 .. Len(l) /\ p = Len(X) + (p - Len(X))
          BY <2>2, <2>3, <2>4, <3>3
        <5> QED
          BY ONLY <5>1
      <4>2. q \in 1 .. Len(e)
        BY <2>3
      <4>3. Y[p] = l[q]
        BY <2>3, <2>5, <4>1, <4>2
      <4> QED
        BY <2>3, <2>7, <4>3
    <3> QED
      BY <2>2, <2>4, <3>1, <3>2, <3>3
  <2>8. HeaderText(Y)
    BY <2>4, <2>6, <2>7 DEF HeaderText
  <2>9. Append(K, l) \in Seq(HeaderLine)
    OBVIOUS
  <2> QED
    BY <2>1, <2>8, <2>9
<1> HIDE DEF P
<1>3. Seq(HeaderLine) \subseteq P
  BY <1>1, <1>2, SeqInduction
<1> QED
  BY <1>3 DEF P

\* In a header there is no empty line, whichever way lines end.
LEMMA NoEmptyLineBefore ==
    ASSUME NEW X, HeaderText(X), NEW b \in Seq(Tok), NEW data, data = Cat(X, b),
           NEW j \in Cuts(data, EmptyLine)
    PROVE  Len(X) <= j + 2
<1>1. X \in Seq(Tok) /\ Len(X) \in Nat /\ data \in Seq(Tok) /\ EmptyLine \in Seq(Tok) /\ Len(EmptyLine) = 4
  <2>1. X \in Seq(Tok)
    BY DEF HeaderText
  <2>2. data \in Seq(Tok)
    BY <2>1, CatType
  <2>3. EmptyLine \in Seq(Tok) /\ Len(EmptyLine) = 4
    BY CRIsTok DEF EmptyLine
  <2> QED
    BY <2>1, <2>2, <2>3
<1>2. j \in Nat /\ data[j + 2] = LF /\ data[j + 3] = CR
  <2>0. IsAt(data, EmptyLine, j)
    BY <1>1, CutsAt
  <2>1. j \in Nat /\ \A i \in 1 .. 4 : data[j + i] = EmptyLine[i]
    BY <1>1, <2>0 DEF IsAt
  <2>2. EmptyLine[2] = LF /\ EmptyLine[3] = CR
    BY DEF EmptyLine
  <2> QED
    BY <2>1, <2>2
<1> SUFFICES ASSUME j + 3 <= Len(X) PROVE FALSE
  BY <1>1, <1>2
<1>3. j + 2 \in 1 .. Len(X) - 1 /\ j + 2 \in 1 .. Len(X) /\ j + 3 \in 1 .. Len(X) /\ (j + 2) + 1 = j + 3
  BY <1>1, <1>2
<1>4. X[j + 2] = LF /\ X[j + 3] = CR
  <2>1. ASSUME NEW i \in 1 .. Len(X) PROVE data[i] = X[i]
    BY <1>1, CatAt
  <2> QED
    BY <1>2, <1>3, <2>1
<1>5. X[j + 3] \in Tokens
  BY <1>3, <1>4 DEF HeaderText
<1> QED
  BY <1>4, <1>5, LinesAssumption

LEMMA NoLFLFBefore ==
    ASSUME NEW X, HeaderText(X), NEW b \in Seq(Tok), NEW data, data = Cat(X, b),
           NEW j \in Cuts(data, <<LF, LF>>)
    PROVE  Len(X) <= j + 1
<1> DEFINE sep == <<LF, LF>>
<1>1. X \in Seq(Tok) /\ Len(X) \in Nat /\ data \in Seq(Tok) /\ sep \in Seq(Tok) /\ Len(sep) = 2
  <2>1. X \in Seq(Tok)
    BY DEF HeaderText
  <2>2. data \in Seq(Tok)
    BY <2>1, CatType
  <2>3. sep \in Seq(Tok) /\ Len(sep) = 2
    BY CRIsTok
  <2> QED
    BY <2>1, <2>2, <2>3
<1>2. j \in Nat /\ data[j + 1] = LF /\ data[j + 2] = LF
  <2>1. sep[1] = LF /\ sep[2] = LF /\ j \in Cuts(data, sep)
    OBVIOUS
  <2> HIDE DEF sep
  <2>0. IsAt(data, sep, j)
    BY <1>1, <2>1, CutsAt
  <2>2. j \in Nat /\ \A i \in 1 .. 2 : data[j + i] = sep[i]
    BY <1>1, <2>0 DEF IsAt
  <2> QED
    BY <2>1, <2>2
<1> SUFFICES ASSUME j + 2 <= Len(X) PROVE FALSE
  BY <1>1, <1>2
<1>3. j + 1 \in 1 .. Len(X) - 1 /\ j + 1 \in 1 .. Len(X) /\ j + 2 \in 1 .. Len(X) /\ (j + 1) + 1 = j + 2
  BY <1>1, <1>2
<1>4. X[j + 1] = LF /\ X[j + 2] = LF
  <2>1. ASSUME NEW i \in 1 .. Len(X) PROVE data[i] = X[i]
    BY <1>1, CatAt
  <2> QED
    BY <1>2, <1>3, <2>1
<1>5. X[j + 2] \in Tokens
  BY <1>3, <1>4 DEF HeaderText
<1> QED
  BY <1>4, <1>5, LinesAssumption

\* Fields in front of a header do not make an empty line.
LEMMA NoEmptyLineAdded ==
    ASSUME NEW F, HeaderText(F), NEW H \in Seq(Tok), HeaderText(Cat(F, H)),
           NEW b \in Seq(Tok), b # <<>>, b[1] = LF, Cuts(Cat(H, b), EmptyLine) = {}
    PROVE  Cuts(Cat(F, Cat(H, b)), EmptyLine) = {}
<1> DEFINE X == Cat(F, H)
           t == Cat(H, b)
           data == Cat(F, t)
<1>1. /\ F \in Seq(Tok) /\ Len(F) \in Nat /\ Len(H) \in Nat /\ X \in Seq(Tok) /\ Len(X) = Len(F) + Len(H)
      /\ t \in Seq(Tok) /\ data \in Seq(Tok) /\ Len(data) = Len(F) + Len(t)
      /\ EmptyLine \in Seq(Tok) /\ Len(EmptyLine) = 4
  <2>1. F \in Seq(Tok)
    BY DEF HeaderText
  <2>2. X \in Seq(Tok) /\ Len(X) = Len(F) + Len(H)
    BY <2>1, CatType
  <2>3. t \in Seq(Tok)
    BY CatType
  <2> HIDE DEF t, X
  <2>4. data \in Seq(Tok) /\ Len(data) = Len(F) + Len(t)
    BY <2>1, <2>3, CatType
  <2>5. EmptyLine \in Seq(Tok) /\ Len(EmptyLine) = 4
    BY CRIsTok DEF EmptyLine
  <2> QED
    BY <2>1, <2>2, <2>3, <2>4, <2>5
<1>2. data = Cat(X, b)
  BY <1>1, CatAssociative
<1>3. HeaderText(X) /\ Cuts(t, EmptyLine) = {}
  OBVIOUS
<1> HIDE DEF X, t, data
<1>4. /\ \A i \in 1 .. Len(F) : data[i] = F[i]
      /\ \A i \in 1 .. Len(t) : data[Len(F) + i] = t[i]
  <2>1. Joined(F, t, data)
    BY <1>1, CatJoined DEF data
  <2> QED
    BY <2>1 DEF Joined
<1>5. data[Len(X) + 1] = LF
  <2>1. 1 \in 1 .. Len(b)
    OBVIOUS
  <2>2. Joined(X, b, data)
    BY <1>1, <1>2, CatJoined
  <2> QED
    BY <2>1, <2>2 DEF Joined
<1> SUFFICES ASSUME NEW j \in Cuts(data, EmptyLine) PROVE FALSE
  BY DEF data, t
<1>6. /\ j \in Nat /\ j + 4 <= Len(data)
      /\ \A i \in 1 .. 4 : data[j + i] = EmptyLine[i]
  <2>1. IsAt(data, EmptyLine, j)
    BY <1>1, CutsAt
  <2> QED
    BY <1>1, <2>1 DEF IsAt
<1>7. data[j + 1] = CR /\ data[j + 3] = CR
  <2>1. EmptyLine[1] = CR /\ EmptyLine[3] = CR
    BY DEF EmptyLine
  <2> QED
    BY <1>6, <2>1
<1>8. Len(X) <= j + 2
  BY <1>2, <1>3, NoEmptyLineBefore
<1>9. Len(X) # j + 2
  <2>1. ASSUME Len(X) = j + 2 PROVE Len(X) + 1 = j + 3
    BY <1>6, <2>1
  <2> QED
    BY <1>5, <1>7, <2>1, EndsDiffer
<1>10. CASE j < Len(F)
  <2>1. Len(F) = j + 1 /\ Len(F) \in 1 .. Len(F) /\ F # <<>>
    <3>1. Len(F) = j + 1 /\ Len(F) # 0
      BY <1>1, <1>6, <1>8, <1>9, <1>10
    <3> QED
      BY <1>1, <3>1
  <2>2. F[Len(F)] = LF
    BY <2>1 DEF HeaderText
  <2> QED
    BY <1>4, <1>7, <2>1, <2>2, EndsDiffer
<1>11. CASE ~ (j < Len(F))
  <2> DEFINE k == j - Len(F)
  <2>1. k \in Nat /\ j = Len(F) + k /\ k + 4 <= Len(t) /\ Len(t) \in Nat
    BY <1>1, <1>6, <1>11
  <2> HIDE DEF k
  <2>2. ASSUME NEW i \in 1 .. 4 PROVE t[k + i] = EmptyLine[i]
    <3>1. k + i \in 1 .. Len(t) /\ j + i = Len(F) + (k + i)
      BY <1>1, <2>1
    <3> QED
      BY <1>4, <1>6, <3>1
  <2>3. k \in Cuts(t, EmptyLine)
    BY <1>1, <2>1, <2>2, CutsFrom
  <2> QED
    BY <1>3, <2>3
<1> QED
  BY <1>10, <1>11

---------------------------------------------------------------------------
(* Where NewMail cuts a message.                                           *)

LEMMA PlainIsHeader ==
    ASSUME NEW K \in Seq(PlainLine)
    PROVE  /\ K \in Seq(HeaderLine) /\ K \in Seq(Line) /\ K \in Seq(Seq(Tokens))
           /\ WithCR(K) \in Seq(HeaderLine)
<1>1. ASSUME NEW l \in PlainLine PROVE l \in HeaderLine /\ Append(l, CR) \in HeaderLine /\ l \in Seq(Tokens)
  <2>1. l \in Seq(Tokens) /\ l # <<>> /\ l \in Line /\ l \in Seq(Tok) /\ WithoutCR(l) = l
    BY LineIsText, NoCRInside DEF PlainLine
  <2>2. Append(l, CR) \in Line /\ Append(l, CR) # <<>> /\ Append(l, CR)[1] = l[1] /\ l[1] \in Tokens
    <3>1. 1 \in 1 .. Len(l)
      BY <2>1
    <3>2. Append(l, CR)[1] = l[1] /\ l[1] \in Tokens
      BY <2>1, <3>1
    <3>3. Append(l, CR) \in Line /\ Append(l, CR) # <<>>
      BY <2>1 DEF Line
    <3> QED
      BY <3>2, <3>3
  <2>3. WithoutCR(Append(l, CR)) = l
    BY <2>1, NoCRAtEnd
  <2> QED
    BY <2>1, <2>2, <2>3 DEF HeaderLine
<1>2. PlainLine \subseteq HeaderLine /\ PlainLine \subseteq Line /\ PlainLine \subseteq Seq(Tokens)
  BY <1>1 DEF HeaderLine
<1>3. K \in Seq(HeaderLine) /\ K \in Seq(Line) /\ K \in Seq(Seq(Tokens))
  BY <1>2, SeqMonotone
<1>4. WithCR(K) \in Seq(HeaderLine)
  <2>1. \A i \in DOMAIN K : K[i] \in PlainLine
    OBVIOUS
  <2>2. \A i \in DOMAIN K : WithCR(K)[i] \in HeaderLine
    BY <1>1, <1>3, <2>1, WithCRAt
  <2>3. WithCR(K) \in Seq(Line) /\ DOMAIN WithCR(K) = DOMAIN K
    BY <1>3, WithCRMaps, WithCRAt
  <2>4. \A s \in Seq(Line) : (\A i \in DOMAIN s : s[i] \in HeaderLine) => s \in Seq(HeaderLine)
    OBVIOUS
  <2> QED
    BY <2>2, <2>3, <2>4
<1> QED
  BY <1>3, <1>4

ReadAs(data, h, b) ==
    LET m == NewMail(data)
    IN  m.err = "none" /\ Lines(m.header) = h /\ Lines(m.body) = b

LEMMA HeaderTexts ==
    ASSUME NEW Z \in Seq(HeaderLine)
    PROVE  Z \in Seq(Line) /\ Z \in Seq(Seq(Tok)) /\ TextOf(Z) \in Seq(Tok)
<1>1. HeaderLine \subseteq Line
  BY DEF HeaderLine
<1>2. Z \in Seq(Line)
  BY <1>1, SeqMonotone
<1> QED
  BY <1>2, LineIsText, TextType

\* A header and a body with CR LF are told apart by the empty line between them.
LEMMA SplitAtCRLF ==
    ASSUME NEW Y \in Seq(PlainLine), Y # <<>>, NEW B \in Seq(Line), NEW data,
           data = Cat(TextOf(WithCR(Y)), Cat(<<CR, LF>>, TextOf(WithCR(B))))
    PROVE  ReadAs(data, Y, NoCR(B))
<1> DEFINE end == <<CR, LF>>
           b == TextOf(WithCR(B))
           X == TextOf(WithCR(Y))
<1>1. end \in Seq(Tok) /\ b \in Seq(Tok) /\ Len(end) = 2
  BY CRIsTok, WithCRMaps, LineIsText, TextType
<1>2. PICK K \in Seq(PlainLine) : \E y \in PlainLine : Y = Append(K, y)
  BY LastOf
<1>3. PICK y \in PlainLine : Y = Append(K, y)
  BY <1>2
<1>4. /\ K \in Seq(Line) /\ y \in Line /\ y \in Seq(Tok) /\ WithoutCR(y) = y /\ y # <<>>
      /\ K \in Seq(Seq(Tokens)) /\ Y \in Seq(Seq(Tokens))
  <2>1. y \in Seq(Tokens) /\ y # <<>>
    BY DEF PlainLine
  <2> QED
    BY <2>1, PlainIsHeader, LineIsText, NoCRInside
<1> DEFINE a == TextOf(WithCR(K))
           h == Cat(a, y)
<1>5. a \in Seq(Tok) /\ h \in Seq(Tok) /\ WithCR(K) \in Seq(Line)
  <2>1. a \in Seq(Tok) /\ WithCR(K) \in Seq(Line)
    BY <1>4, WithCRMaps, LineIsText, TextType
  <2> QED
    BY <1>4, <2>1, CatType
<1>6. X = Cat(h, end)
  <2>1. WithCR(Y) = Append(WithCR(K), Append(y, CR))
    BY <1>3, <1>4, WithCRAppend
  <2>2. Append(y, CR) \in Seq(Tok) /\ WithCR(K) \in Seq(Seq(Tok))
    BY <1>4, <1>5, CRIsTok, LineIsText
  <2>3. X = Cat(a, Append(Append(y, CR), LF))
    BY <2>1, <2>2, TextAppend
  <2>4. Append(Append(y, CR), LF) = Cat(y, end)
    BY <1>4 DEF Cat
  <2>5. Cat(Cat(a, y), end) = Cat(a, Cat(y, end))
    <3> HIDE DEF a, end
    <3> QED
      BY <1>1, <1>4, <1>5, CatAssociative
  <2> QED
    BY <2>3, <2>4, <2>5
<1>7. HeaderText(X)
  BY PlainIsHeader, TextIsHeader
<1>8. EmptyLine = Cat(end, end) /\ EmptyLine \in Seq(Tok)
  BY CRIsTok DEF EmptyLine, Cat
<1>9. data = Cat(X, Cat(end, b))
  OBVIOUS
<1>10. Lines(h) = Y
  <2>1. Lines(Cat(TextOf(WithCR(K)), y)) = Append(NoCR(WithCR(K)), WithoutCR(y))
    BY <1>4, <1>5, LinesOfCut
  <2>2. NoCR(WithCR(K)) = K
    BY <1>4, NoCRWithCR, NoCRPlain
  <2> QED
    BY <1>3, <1>4, <2>1, <2>2
<1>11. Lines(b) = NoCR(B)
  <2>1. WithCR(B) \in Seq(Line)
    BY WithCRMaps
  <2> QED
    BY <2>1, LinesOfText, NoCRWithCR
<1> HIDE DEF end, b, X, a, h
<1>12. data = Cat(Cat(h, EmptyLine), b)
  <2>1. Cat(end, b) \in Seq(Tok)
    BY <1>1, CatType
  <2>2. data = Cat(h, Cat(end, Cat(end, b)))
    BY <1>1, <1>5, <1>6, <1>9, <2>1, CatAssociative
  <2>3. Cat(end, Cat(end, b)) = Cat(EmptyLine, b)
    BY <1>1, <1>8, CatAssociative
  <2>4. Cat(Cat(h, EmptyLine), b) = Cat(h, Cat(EmptyLine, b))
    BY <1>1, <1>5, <1>8, CatAssociative
  <2> QED
    BY <2>2, <2>3, <2>4
<1>13. \A j \in Cuts(data, EmptyLine) : Len(h) <= j
  <2>1. Len(X) = Len(h) + 2 /\ Len(h) \in Nat
    <3>1. Len(Cat(h, end)) = Len(h) + Len(end)
      BY <1>1, <1>5, CatType
    <3>2. Len(h) \in Nat
      BY <1>5
    <3> QED
      BY <1>1, <1>6, <3>1, <3>2
  <2>2. ASSUME NEW j \in Cuts(data, EmptyLine) PROVE Len(h) <= j
    <3>1. Cat(end, b) \in Seq(Tok)
      BY <1>1, CatType
    <3>2. Len(X) <= j + 2
      BY <1>7, <1>9, <3>1, NoEmptyLineBefore
    <3>3. data \in Seq(Tok)
      <4>1. Cat(h, EmptyLine) \in Seq(Tok)
        BY <1>5, <1>8, CatType
      <4> QED
        BY <1>1, <1>12, <4>1, CatType
    <3>4. j \in Nat
      <4>1. IsAt(data, EmptyLine, j)
        BY <1>8, <3>3, CutsAt
      <4> QED
        BY <4>1 DEF IsAt
    <3> QED
      BY ONLY <2>1, <3>2, <3>4
  <2> QED
    BY <2>2
<1>14. /\ Cuts(data, EmptyLine) # {}
       /\ CutAt(data, EmptyLine) = [err |-> "none", header |-> h, body |-> b]
  BY <1>1, <1>5, <1>8, <1>12, <1>13, CutBetween
<1>15. NewMail(data) = [err |-> "none", header |-> h, body |-> b]
  BY <1>14 DEF NewMail
<1> QED
  BY <1>10, <1>11, <1>15 DEF ReadAs

\* With LF, where no CR LF CR LF is in the way.
LEMMA SplitAtLF ==
    ASSUME NEW Z \in Seq(HeaderLine), Z # <<>>, NEW M \in Seq(Line), NEW data,
           data = Cat(TextOf(Z), Cat(<<LF>>, TextOf(M))), Cuts(data, EmptyLine) = {}
    PROVE  ReadAs(data, NoCR(Z), NoCR(M))
<1> DEFINE end == <<LF>>
           sep == <<LF, LF>>
           b == TextOf(M)
           X == TextOf(Z)
<1>1. end \in Seq(Tok) /\ b \in Seq(Tok) /\ Len(end) = 1 /\ sep \in Seq(Tok)
  BY CRIsTok, LineIsText, TextType
<1>2. PICK K \in Seq(HeaderLine) : \E z \in HeaderLine : Z = Append(K, z)
  BY LastOf
<1>3. PICK z \in HeaderLine : Z = Append(K, z)
  BY <1>2
<1>4. z \in Line /\ z \in Seq(Tok) /\ WithoutCR(z) # <<>> /\ K \in Seq(Line) /\ K \in Seq(Seq(Tok))
  <2>1. z \in Line /\ WithoutCR(z) # <<>>
    BY DEF HeaderLine
  <2> QED
    BY <2>1, HeaderTexts, LineIsText
<1> DEFINE a == TextOf(K)
           h == Cat(a, z)
<1>5. a \in Seq(Tok) /\ h \in Seq(Tok)
  <2>1. a \in Seq(Tok)
    BY <1>4, TextType
  <2> QED
    BY <1>4, <2>1, CatType
<1>6. X = Cat(h, end)
  <2>1. X = Cat(a, Append(z, LF))
    BY <1>3, <1>4, TextAppend
  <2>2. Append(z, LF) = Cat(z, end)
    BY <1>4 DEF Cat
  <2>3. Cat(Cat(a, z), end) = Cat(a, Cat(z, end))
    <3> HIDE DEF a, end
    <3> QED
      BY <1>1, <1>4, <1>5, CatAssociative
  <2> QED
    BY <2>1, <2>2, <2>3
<1>7. HeaderText(X)
  BY TextIsHeader
<1>8. sep = Cat(end, end)
  BY DEF Cat
<1>9. data = Cat(X, Cat(end, b))
  OBVIOUS
<1>10. Lines(h) = NoCR(Z)
  <2>1. Lines(Cat(TextOf(K), z)) = Append(NoCR(K), WithoutCR(z))
    BY <1>4, LinesOfCut
  <2> QED
    BY <1>3, <1>4, <2>1, NoCRAppend
<1>11. Lines(b) = NoCR(M)
  BY LinesOfText
<1>20. \A j \in Cuts(data, sep) : Len(X) <= j + 1
  <2>1. Cat(end, b) \in Seq(Tok)
    <3> HIDE DEF end, b
    <3> QED
      BY <1>1, CatType
  <2>2. data = Cat(X, Cat(end, b)) /\ HeaderText(X)
    BY <1>7
  <2> HIDE DEF end, b, X
  <2> QED
    BY <2>1, <2>2, NoLFLFBefore
<1> HIDE DEF end, b, X, a, h, sep
<1>12. data = Cat(Cat(h, sep), b)
  <2>1. Cat(end, b) \in Seq(Tok)
    BY <1>1, CatType
  <2>2. data = Cat(h, Cat(end, Cat(end, b)))
    BY <1>1, <1>5, <1>6, <1>9, <2>1, CatAssociative
  <2>3. Cat(end, Cat(end, b)) = Cat(sep, b)
    BY <1>1, <1>8, CatAssociative
  <2>4. Cat(Cat(h, sep), b) = Cat(h, Cat(sep, b))
    BY <1>1, <1>5, <1>8, CatAssociative
  <2> QED
    BY <2>2, <2>3, <2>4
<1>13. \A j \in Cuts(data, sep) : Len(h) <= j
  <2>1. Len(X) = Len(h) + 1 /\ Len(h) \in Nat
    <3>1. Len(Cat(h, end)) = Len(h) + Len(end)
      BY <1>1, <1>5, CatType
    <3>2. Len(h) \in Nat
      BY <1>5
    <3> QED
      BY <1>1, <1>6, <3>1, <3>2
  <2>2. ASSUME NEW j \in Cuts(data, sep) PROVE Len(h) <= j
    <3>1. Len(X) <= j + 1
      BY <1>20
    <3>2. data \in Seq(Tok)
      <4>1. Cat(h, sep) \in Seq(Tok)
        BY <1>1, <1>5, CatType
      <4> QED
        BY <1>1, <1>12, <4>1, CatType
    <3>3. j \in Nat
      <4>1. IsAt(data, sep, j)
        BY <1>1, <3>2, CutsAt
      <4> QED
        BY <4>1 DEF IsAt
    <3> QED
      BY ONLY <2>1, <3>1, <3>3
  <2> QED
    BY <2>2
<1>14. /\ Cuts(data, sep) # {}
       /\ CutAt(data, sep) = [err |-> "none", header |-> h, body |-> b]
  BY <1>1, <1>5, <1>12, <1>13, CutBetween
<1>15. NewMail(data) = [err |-> "none", header |-> h, body |-> b]
  BY <1>14 DEF NewMail, sep
<1> QED
  BY <1>10, <1>11, <1>15 DEF ReadAs

---------------------------------------------------------------------------
(* What Data holds.                                                        *)

LEMMA TextOfThree ==
    ASSUME NEW K \in Seq(Line), NEW e \in Line, NEW M \in Seq(Line)
    PROVE  TextOf(Cat(Cat(K, <<e>>), M)) = Cat(TextOf(K), Cat(Append(e, LF), TextOf(M)))
<1> DEFINE one == <<e>>
           Ke == Cat(K, one)
           l == Append(e, LF)
<1>1. one \in Seq(Line) /\ Ke = Append(K, e)
  <2>1. one \in Seq(Line)
    OBVIOUS
  <2> QED
    BY <2>1, AppendIsConcat DEF Cat
<1>2. Ke \in Seq(Line) /\ l \in Seq(Tok) /\ e \in Seq(Tok)
  <2>1. Append(K, e) \in Seq(Line)
    OBVIOUS
  <2>2. e \in Seq(Tok)
    BY LineIsText
  <2>3. Append(e, LF) \in Seq(Tok)
    BY <2>2, CRIsTok
  <2> QED
    BY <1>1, <2>1, <2>2, <2>3
<1>3. /\ K \in Seq(Seq(Tok)) /\ Ke \in Seq(Seq(Tok)) /\ M \in Seq(Seq(Tok))
      /\ TextOf(K) \in Seq(Tok) /\ TextOf(M) \in Seq(Tok)
  BY <1>2, LineIsText, TextType
<1> HIDE DEF one, Ke, l
<1>4. TextOf(Ke) = Cat(TextOf(K), l)
  BY <1>1, <1>2, <1>3, TextAppend DEF l
<1>5. TextOf(Ke \o M) = Cat(TextOf(Ke), TextOf(M))
  BY <1>3, TextCat
<1>6. Cat(Cat(TextOf(K), l), TextOf(M)) = Cat(TextOf(K), Cat(l, TextOf(M)))
  BY <1>2, <1>3, CatAssociative
<1>7. TextOf(Cat(Ke, M)) = Cat(TextOf(K), Cat(l, TextOf(M)))
  BY <1>4, <1>5, <1>6 DEF Cat
<1> QED
  BY <1>7 DEF one, Ke, l

\* The text as it was written with CR LF, and as it is with LF.
LEMMA TextWritten ==
    ASSUME msg \in Messages, text = Written, msg.eol = <<CR, LF>>
    PROVE  text = Cat(TextOf(WithCR(msg.header)), Cat(<<CR, LF>>, TextOf(WithCR(msg.body))))
<1> DEFINE H == msg.header
           B == msg.body
           e == <<>>
           E == <<e>>
<1>1. H \in Seq(Line) /\ B \in Seq(Line) /\ E \in Seq(Line) /\ text = TextOf(WithCR(Cat(Cat(H, E), B)))
  BY MessageLines, WrittenText DEF AllLines
<1> DEFINE c == Append(e, CR)
<1>2. WithCR(E) = <<c>> /\ c \in Line /\ Append(c, LF) = <<CR, LF>>
  <2>1. e \in Line /\ c \in Line /\ e \in Seq(Tok) /\ <<>> \in Seq(Line)
    BY DEF Line
  <2>2. WithCR(<<>>) = <<>>
    BY EachEmpty DEF WithCR
  <2>3. E = Append(<<>>, e)
    OBVIOUS
  <2>4. e \o <<CR, LF>> = Append(Append(e, CR), LF) /\ e \o <<CR, LF>> = <<CR, LF>>
    OBVIOUS
  <2> HIDE DEF e, E
  <2>5. WithCR(Append(<<>>, e)) = Append(WithCR(<<>>), Append(e, CR))
    BY <2>1, WithCRAppend
  <2>6. Append(<<>>, c) = <<c>>
    OBVIOUS
  <2> QED
    BY <2>1, <2>2, <2>3, <2>4, <2>5, <2>6
<1>3. Cat(H, E) \in Seq(Line) /\ WithCR(H) \in Seq(Line) /\ WithCR(B) \in Seq(Line)
  <2> HIDE DEF H, E, B
  <2> QED
    BY <1>1, CatType, WithCRMaps
<1> HIDE DEF H, B, E, e, c
<1>4. WithCR(Cat(Cat(H, E), B)) = Cat(Cat(WithCR(H), <<c>>), WithCR(B))
  <2>1. WithCR(Cat(Cat(H, E), B)) = Cat(WithCR(Cat(H, E)), WithCR(B))
    BY <1>1, <1>3, WithCRCat
  <2>2. WithCR(Cat(H, E)) = Cat(WithCR(H), WithCR(E))
    BY <1>1, WithCRCat
  <2> QED
    BY <1>2, <2>1, <2>2
<1>5. TextOf(Cat(Cat(WithCR(H), <<c>>), WithCR(B))) = Cat(TextOf(WithCR(H)), Cat(Append(c, LF), TextOf(WithCR(B))))
  BY <1>2, <1>3, TextOfThree
<1> QED
  BY <1>1, <1>2, <1>4, <1>5 DEF H, B

WithLF(M) == M \in Seq(Line) /\ text = Cat(TextOf(msg.header), Cat(<<LF>>, TextOf(M)))

LEMMA TextWithLF ==
    ASSUME msg \in Messages, text \in {DotReader(Written), Written},
           ~ (text = Written /\ msg.eol = <<CR, LF>>)
    PROVE  \E M : WithLF(M) /\ NoCR(M) = NoCR(msg.body)
<1> DEFINE H == msg.header
           B == msg.body
           e == <<>>
           E == <<e>>
<1>1. /\ H \in Seq(Line) /\ H \in Seq(Seq(Tokens)) /\ B \in Seq(Line) /\ E \in Seq(Line) /\ e \in Line
      /\ AllLines = Cat(Cat(H, E), B) /\ AllLines \in Seq(Line)
  <2>1. e \in Line
    BY DEF Line
  <2> QED
    BY <2>1, MessageLines DEF AllLines
<1>2. Append(e, LF) = <<LF>>
  OBVIOUS
<1>3. E \in Seq(Seq(Tokens))
  <2>1. e \in Seq(Tokens)
    OBVIOUS
  <2> HIDE DEF e
  <2> QED
    BY <2>1
<1> HIDE DEF H, B, e
<1>4. ASSUME NEW M \in Seq(Line), text = TextOf(Cat(Cat(H, E), M)) PROVE WithLF(M)
  <2>1. TextOf(Cat(Cat(H, <<e>>), M)) = Cat(TextOf(H), Cat(Append(e, LF), TextOf(M)))
    BY <1>1, TextOfThree
  <2> QED
    BY <1>2, <1>4, <2>1 DEF WithLF, H
<1> HIDE DEF E
<1>5. CASE text = Written /\ msg.eol = <<LF>>
  <2>1. WithLF(B)
    BY <1>1, <1>4, <1>5, WrittenText
  <2> QED
    BY <2>1 DEF B
<1>6. CASE text = DotReader(Written) /\ msg.eol = <<LF>>
  <2>1. text = TextOf(Chomped(AllLines))
    BY <1>1, <1>6, WrittenText, DotReaderChomps
  <2>2. Cat(H, E) \in Seq(Line) /\ Cat(H, E) \in Seq(Seq(Tokens))
    BY <1>1, <1>3, CatType
  <2>3. Chomped(AllLines) = Cat(Chomped(Cat(H, E)), Chomped(B))
    BY <1>1, <2>2, ChompedCat
  <2>4. Chomped(Cat(H, E)) = Cat(H, E)
    BY <2>2, ChompedPlain
  <2>5. Chomped(B) \in Seq(Line) /\ NoCR(Chomped(B)) = NoCR(B)
    BY <1>1, ChompedMaps, NoCRChomped
  <2>6. WithLF(Chomped(B))
    BY <1>4, <2>1, <2>3, <2>4, <2>5
  <2> QED
    BY <2>5, <2>6 DEF B
<1>7. CASE text = DotReader(Written) /\ msg.eol = <<CR, LF>>
  <2>1. WithCR(AllLines) \in Seq(Line)
    BY <1>1, WithCRMaps
  <2>2. text = TextOf(Chomped(WithCR(AllLines)))
    BY <1>7, <2>1, WrittenText, DotReaderChomps
  <2>3. Chomped(WithCR(AllLines)) = AllLines
    BY <1>1, ChompedWithCR
  <2>4. WithLF(B)
    BY <1>1, <1>4, <2>2, <2>3
  <2> QED
    BY <2>4 DEF B
<1> QED
  BY <1>5, <1>6, <1>7, MessageLines

single == [f \in NewFields |-> <<f>>]

FieldLines(s) == Each(single, s)

LEMMA SingleType == single \in [NewFields -> PlainLine]
<1>1. ASSUME NEW f \in NewFields PROVE <<f>> \in PlainLine
  BY LinesAssumption DEF PlainLine
<1> QED
  BY <1>1 DEF single

LEMMA FieldLinesType == ASSUME NEW s \in Seq(NewFields) PROVE FieldLines(s) \in Seq(PlainLine)
<1>1. Maps(NewFields, PlainLine, single, s)
  BY SingleType DEF Maps
<1> QED
  BY <1>1, EachType DEF FieldLines

\* The inductive invariant: what has been written follows the fields, and what
\* is still to be written follows that.
DataInv ==
    /\ msg \in Messages
    /\ text \in {DotReader(Written), Written}
    /\ added \in Seq(NewFields)
    /\ bufs \in Seq(Seq(Tok))
    /\ todo \in Seq(Tok)
    /\ Cat(Bytes, todo) = Cat(TextOf(WithCR(FieldLines(added))), text)

LEMMA DataInvSplits == DataInv => SplitRight
<1> SUFFICES ASSUME DataInv, Splits PROVE SplitRight
  BY DEF SplitRight
<1> DEFINE F == FieldLines(added)
           H == msg.header
           B == msg.body
           Y == Cat(F, H)
           f == TextOf(WithCR(F))
<1>1. /\ msg \in Messages /\ text \in {DotReader(Written), Written} /\ added \in Seq(NewFields)
      /\ bufs \in Seq(Seq(Tok)) /\ todo = <<>>
  BY DEF DataInv, Splits
<1>2. /\ F \in Seq(PlainLine) /\ F \in Seq(Line) /\ F \in Seq(Seq(Tokens)) /\ WithCR(F) \in Seq(HeaderLine)
      /\ H \in Seq(PlainLine) /\ H \in Seq(Line) /\ H \in Seq(HeaderLine) /\ WithCR(H) \in Seq(HeaderLine)
      /\ H \in Seq(Seq(Tokens)) /\ B \in Seq(Line)
  BY <1>1, FieldLinesType, MessageLines, PlainIsHeader
<1>3. Y \in Seq(PlainLine) /\ Y \in Seq(Line) /\ Y = [i \in DOMAIN added |-> <<added[i]>>] \o msg.header
  <2>1. F = [i \in DOMAIN added |-> <<added[i]>>]
    <3>1. \A i \in DOMAIN added : added[i] \in NewFields
      BY <1>1
    <3> QED
      BY <3>1 DEF FieldLines, Each, single
  <2>2. Y = F \o msg.header
    BY DEF Cat
  <2> HIDE DEF F, H
  <2>3. Y \in Seq(PlainLine)
    BY <1>2, CatType
  <2>4. Y \in Seq(Line)
    BY <1>2, CatType
  <2> QED
    BY <2>1, <2>2, <2>3, <2>4
<1>4. Y # <<>>
  <2>1. Len(F) = Len(added) /\ Len(Y) = Len(F) + Len(H)
    <3>1. Maps(NewFields, PlainLine, single, added)
      BY <1>1, SingleType DEF Maps
    <3>2. Len(F) = Len(added)
      BY <3>1, EachType DEF FieldLines
    <3>3. Len(Y) = Len(F) + Len(H)
      <4> HIDE DEF F, H
      <4> QED
        BY <1>2, CatType
    <3> QED
      BY <3>2, <3>3
  <2>2. msg.header # <<>> \/ added # <<>>
    BY DEF Splits
  <2>3. Len(added) \in Nat /\ Len(H) \in Nat /\ (Len(added) # 0 \/ Len(H) # 0)
    BY <1>1, <1>2, <2>2
  <2> HIDE DEF F, H, Y
  <2>4. Len(Y) # 0
    BY <2>1, <2>3
  <2> QED
    BY <2>4
<1>5. Bytes = Cat(f, text) /\ f \in Seq(Tok)
  <2>1. Cat(Bytes, <<>>) = Cat(f, text)
    BY <1>1 DEF DataInv
  <2>2. Bytes \in Seq(Tok)
    <3>1. <<>> \in Seq(Tok)
      OBVIOUS
    <3> QED
      BY <1>1, <3>1, FlatAppend DEF Bytes
  <2>3. Cat(Bytes, <<>>) = Bytes
    BY <2>2, CatEmpty
  <2>4. f \in Seq(Tok)
    BY <1>2, HeaderTexts
  <2> QED
    BY <2>1, <2>3, <2>4
<1> HIDE DEF F, H, B, Y, f
<1>6. ReadAs(Bytes, Y, NoCR(B))
  <2>1. CASE text = Written /\ msg.eol = <<CR, LF>>
    <3> DEFINE h == TextOf(WithCR(H))
               b == TextOf(WithCR(B))
               end == <<CR, LF>>
    <3>1. text = Cat(h, Cat(end, b))
      BY <1>1, <2>1, TextWritten DEF H, B
    <3>2. h \in Seq(Tok) /\ b \in Seq(Tok) /\ end \in Seq(Tok)
      BY <1>2, HeaderTexts, WithCRMaps, LineIsText, TextType, CRIsTok
    <3>3. TextOf(WithCR(Y)) = Cat(f, h)
      <4>1. WithCR(Y) = Cat(WithCR(F), WithCR(H))
        BY <1>2, WithCRCat DEF Y
      <4>2. TextOf(WithCR(F) \o WithCR(H)) = Cat(TextOf(WithCR(F)), TextOf(WithCR(H)))
        BY <1>2, HeaderTexts, TextCat
      <4> QED
        BY <4>1, <4>2 DEF Cat, f
    <3> HIDE DEF h, b, end
    <3>4. Cat(end, b) \in Seq(Tok)
      BY <3>2, CatType
    <3>5. Bytes = Cat(Cat(f, h), Cat(end, b))
      BY <1>5, <3>1, <3>2, <3>4, CatAssociative
    <3>6. Bytes = Cat(TextOf(WithCR(Y)), Cat(<<CR, LF>>, TextOf(WithCR(B))))
      BY <3>3, <3>5 DEF end, b
    <3> QED
      BY <1>2, <1>3, <1>4, <3>6, SplitAtCRLF
  <2>2. CASE ~ (text = Written /\ msg.eol = <<CR, LF>>)
    <3>1. PICK M : WithLF(M) /\ NoCR(M) = NoCR(B)
      BY <1>1, <2>2, TextWithLF DEF B
    <3> DEFINE h == TextOf(H)
               m == TextOf(M)
               end == <<LF>>
               b == Cat(end, m)
               Z == Cat(WithCR(F), H)
    <3>2. M \in Seq(Line) /\ text = Cat(h, b)
      BY <3>1 DEF WithLF, H
    <3>3. h \in Seq(Tok) /\ m \in Seq(Tok) /\ end \in Seq(Tok)
      BY <1>2, <3>2, HeaderTexts, LineIsText, TextType, CRIsTok
    <3>4. b \in Seq(Tok) /\ b # <<>> /\ b[1] = LF
      <4>1. Len(end) = 1 /\ end[1] = LF /\ 1 \in 1 .. Len(end)
        OBVIOUS
      <4> HIDE DEF end, m
      <4>2. Cat(end, m) \in Seq(Tok) /\ Len(Cat(end, m)) = Len(end) + Len(m)
        BY <3>3, CatType
      <4>3. Cat(end, m)[1] = end[1]
        BY <3>3, <4>1, CatAt
      <4>4. Len(m) \in Nat
        BY <3>3
      <4>5. Len(Cat(end, m)) # 0
        BY <4>1, <4>2, <4>4
      <4> QED
        BY <4>1, <4>2, <4>3, <4>5
    <3>5. Z \in Seq(HeaderLine) /\ TextOf(Z) = Cat(f, h)
      <4>1. Z \in Seq(HeaderLine)
        BY <1>2, CatType
      <4>2. TextOf(WithCR(F) \o H) = Cat(TextOf(WithCR(F)), TextOf(H))
        BY <1>2, HeaderTexts, TextCat
      <4> QED
        BY <4>1, <4>2 DEF Cat, f
    <3>6. NoCR(Z) = Y
      <4>1. WithCR(F) \in Seq(Line)
        BY <1>2, HeaderTexts
      <4>2. NoCR(Z) = Cat(NoCR(WithCR(F)), NoCR(H))
        BY <1>2, <4>1, NoCRCat
      <4>3. NoCR(WithCR(F)) = F /\ NoCR(H) = H
        BY <1>2, NoCRWithCR, NoCRPlain
      <4> QED
        BY <4>2, <4>3 DEF Y
    <3>7. Z # <<>>
      <4>1. NoCR(<<>>) = <<>>
        BY DEF NoCR
      <4> QED
        BY <1>4, <3>6, <4>1
    <3>8. HeaderText(f) /\ HeaderText(Cat(f, h))
      <4>1. HeaderText(f)
        BY <1>2, TextIsHeader DEF f
      <4>2. HeaderText(TextOf(Z))
        <5> HIDE DEF Z
        <5> QED
          BY <3>5, TextIsHeader
      <4> QED
        BY <3>5, <4>1, <4>2
    <3>9. Cuts(Cat(h, b), EmptyLine) = {}
      BY <2>2, <3>2 DEF Splits
    <3>10. Bytes = Cat(TextOf(Z), Cat(<<LF>>, TextOf(M)))
      <4> HIDE DEF h, b, Z
      <4>1. Cat(f, Cat(h, b)) = Cat(Cat(f, h), b)
        BY <1>5, <3>3, <3>4, CatAssociative
      <4>2. Bytes = Cat(TextOf(Z), b)
        BY <1>5, <3>2, <3>5, <4>1
      <4> QED
        BY <4>2 DEF b
    <3>11. Cuts(Bytes, EmptyLine) = {}
      <4> HIDE DEF h, b
      <4>1. Cuts(Cat(f, Cat(h, b)), EmptyLine) = {}
        BY <3>3, <3>4, <3>8, <3>9, NoEmptyLineAdded
      <4> QED
        BY <1>5, <3>2, <4>1
    <3> HIDE DEF Z
    <3>12. ReadAs(Bytes, NoCR(Z), NoCR(M))
      BY <3>2, <3>5, <3>7, <3>10, <3>11, SplitAtLF
    <3> QED
      BY <3>1, <3>6, <3>12
  <2> QED
    BY <2>1, <2>2
<1> QED
  BY <1>3, <1>6 DEF ReadAs, SplitRight, B

LEMMA WrittenType ==
    ASSUME msg \in Messages PROVE Written \in Seq(Tok) /\ DotReader(Written) \in Seq(Tok)
<1>1. /\ AllLines \in Seq(Line) /\ WithCR(AllLines) \in Seq(Line)
      /\ Chomped(AllLines) \in Seq(Line) /\ Chomped(WithCR(AllLines)) \in Seq(Line)
  BY MessageLines, WithCRMaps, ChompedMaps
<1>2. Written \in {TextOf(AllLines), TextOf(WithCR(AllLines))}
  BY MessageLines, WrittenText
<1>3. DotReader(Written) \in {TextOf(Chomped(AllLines)), TextOf(Chomped(WithCR(AllLines)))}
  BY <1>1, <1>2, DotReaderChomps
<1>4. \A K \in Seq(Line) : TextOf(K) \in Seq(Tok)
  BY LineIsText, TextType
<1> QED
  BY <1>1, <1>2, <1>3, <1>4

LEMMA DataInitInv == DataInit => DataInv
<1> SUFFICES ASSUME DataInit PROVE DataInv
  OBVIOUS
<1>1. msg \in Messages /\ text \in {DotReader(Written), Written} /\ todo = text /\ bufs = <<>> /\ added = <<>>
  BY DEF DataInit
<1>2. text \in Seq(Tok)
  BY <1>1, WrittenType
<1>3. TextOf(WithCR(FieldLines(added))) = <<>> /\ Bytes = <<>>
  BY <1>1, EachEmpty, TextEmpty, FlatEmpty DEF FieldLines, WithCR, Bytes
<1>4. added \in Seq(NewFields) /\ bufs \in Seq(Seq(Tok))
  BY <1>1
<1> QED
  BY <1>1, <1>2, <1>3, <1>4 DEF DataInv

LEMMA DataWriteInv == ASSUME DataInv, NEW n \in DOMAIN todo, Write(n) PROVE DataInv'
<1> DEFINE F == TextOf(WithCR(FieldLines(added)))
           a == SubSeq(todo, 1, n)
           b == SubSeq(todo, n + 1, Len(todo))
<1>1. /\ bufs \in Seq(Seq(Tok)) /\ todo \in Seq(Tok) /\ Cat(FlattenSeq(bufs), todo) = Cat(F, text)
      /\ msg \in Messages /\ text \in {DotReader(Written), Written} /\ added \in Seq(NewFields)
  BY DEF DataInv, Bytes
<1>2. bufs' = tail(a) /\ todo' = b /\ msg' = msg /\ text' = text /\ added' = added
  BY DEF Write
<1>3. a \in Seq(Tok) /\ b \in Seq(Tok) /\ Cat(a, b) = todo
  <2>1. n \in 1 .. Len(todo) /\ Len(todo) \in Nat
    BY <1>1
  <2>2. a \in Seq(Tok) /\ Len(a) = n /\ \A i \in 1 .. n : a[i] = todo[i]
    BY <1>1, <2>1
  <2>3. b \in Seq(Tok) /\ Len(b) = Len(todo) - n /\ \A i \in 1 .. Len(todo) - n : b[i] = todo[n + i]
    BY <1>1, <2>1
  <2> HIDE DEF a, b
  <2>4. Cat(a, b) \in Seq(Tok) /\ Len(Cat(a, b)) = Len(todo)
    <3>1. Cat(a, b) \in Seq(Tok) /\ Len(Cat(a, b)) = Len(a) + Len(b)
      BY <2>2, <2>3, CatType
    <3> QED
      BY <2>1, <2>2, <2>3, <3>1
  <2>5. Joined(a, b, Cat(a, b))
    BY <2>2, <2>3, CatJoined
  <2>6. ASSUME NEW i \in 1 .. Len(todo) PROVE Cat(a, b)[i] = todo[i]
    <3>1. CASE i <= n
      <4>1. i \in 1 .. n
        BY <2>1, <3>1
      <4> QED
        BY <2>2, <2>5, <4>1 DEF Joined
    <3>2. CASE ~ (i <= n)
      <4>1. PICK k \in 1 .. Len(todo) - n : i = n + k
        <5>1. i - n \in 1 .. Len(todo) - n /\ i = n + (i - n)
          BY <2>1, <3>2
        <5> QED
          BY ONLY <5>1
      <4>2. Cat(a, b)[n + k] = b[k]
        <5>1. Len(a) = n /\ Len(b) = Len(todo) - n
          BY <2>2, <2>3
        <5> QED
          BY <2>5, <5>1 DEF Joined
      <4> QED
        BY <2>3, <4>1, <4>2
    <3> QED
      BY <3>1, <3>2
  <2>7. Cat(a, b) = todo
    BY <1>1, <2>4, <2>6, SeqEqual
  <2> QED
    BY <2>2, <2>3, <2>7
<1> HIDE DEF a, b
<1>4. tail(a) \in Seq(Seq(Tok)) /\ FlattenSeq(tail(a)) = Cat(FlattenSeq(bufs), a)
  BY <1>1, <1>3, TailWrites
<1>5. FlattenSeq(bufs) \in Seq(Tok)
  BY <1>1, <1>3, FlatAppend
<1>6. Cat(FlattenSeq(tail(a)), b) = Cat(F, text)
  BY <1>1, <1>3, <1>4, <1>5, CatAssociative
<1>7. F' = F /\ Written' = Written /\ DotReader(Written)' = DotReader(Written)
  BY <1>2 DEF Written
<1>8. Bytes' = FlattenSeq(tail(a))
  BY <1>2 DEF Bytes
<1> HIDE DEF F
<1> QED
  BY <1>1, <1>2, <1>3, <1>4, <1>6, <1>7, <1>8 DEF DataInv, F

LEMMA AppendAt ==
    ASSUME NEW A, NEW s \in Seq(A), NEW z \in A
    PROVE  /\ Append(s, z) \in Seq(A) /\ Len(Append(s, z)) = Len(s) + 1
           /\ Append(s, z)[Len(s) + 1] = z
OBVIOUS

LEMMA AppendBefore ==
    ASSUME NEW A, NEW s \in Seq(A), NEW z \in A, NEW i \in 1 .. Len(s) PROVE Append(s, z)[i] = s[i]
OBVIOUS

LEMMA ThreeTokens ==
    ASSUME NEW A, NEW x \in A, NEW y \in A, NEW z \in A PROVE Append(Append(<<x>>, y), z) = <<x, y, z>>
<1> DEFINE u == Append(<<x>>, y)
           q == Append(u, z)
           t == <<x, y, z>>
<1>1. u \in Seq(A) /\ Len(u) = 2 /\ u[1] = x /\ u[2] = y
  OBVIOUS
<1>2. t \in Seq(A) /\ Len(t) = 3 /\ t[1] = x /\ t[2] = y /\ t[3] = z
  OBVIOUS
<1> HIDE DEF u
<1>3. 1 \in 1 .. Len(u) /\ 2 \in 1 .. Len(u) /\ Len(u) + 1 = 3
  BY <1>1
<1>4. q \in Seq(A) /\ Len(q) = Len(u) + 1 /\ q[Len(u) + 1] = z
  BY <1>1, AppendAt
<1>5. \A i \in 1 .. Len(u) : q[i] = u[i]
  BY <1>1, AppendBefore
<1> HIDE DEF q, t
<1>6. \A i \in 1 .. 3 : i = 1 \/ i = 2 \/ i = 3
  OBVIOUS
<1>7. \A i \in 1 .. 3 : q[i] = t[i]
  BY <1>1, <1>2, <1>3, <1>4, <1>5, <1>6
<1>8. q = t
  BY <1>2, <1>3, <1>4, <1>7, SeqEqual
<1> QED
  BY <1>8 DEF q, t, u

\* The lines of one more field.
LEMMA FieldInFront ==
    ASSUME NEW s \in Seq(NewFields), NEW f \in NewFields
    PROVE  /\ <<f, CR, LF>> \in Seq(Tok) /\ TextOf(WithCR(FieldLines(s))) \in Seq(Tok)
           /\ TextOf(WithCR(FieldLines(Cat(<<f>>, s)))) = Cat(<<f, CR, LF>>, TextOf(WithCR(FieldLines(s))))
<1> DEFINE one == <<f>>
           l == <<f>>
           t == <<f, CR, LF>>
<1>1. one \in Seq(NewFields) /\ l \in PlainLine /\ l \in Line /\ l \in Seq(Tok) /\ t \in Seq(Tok)
  <2>1. f \in Tokens /\ f \in Tok
    BY LinesAssumption, CRIsTok
  <2>2. t \in Seq(Tok) /\ l \in Seq(Tok) /\ l \in Seq(Tokens) /\ one \in Seq(NewFields)
    BY <2>1, CRIsTok
  <2> QED
    BY <2>2, LineIsText DEF PlainLine
<1>2. FieldLines(one) = <<l>>
  BY DEF FieldLines, Each, single
<1>3. WithCR(<<l>>) = <<Append(l, CR)>>
  <2>1. WithCR(<<>>) = <<>> /\ <<>> \in Seq(Line)
    BY EachEmpty DEF WithCR
  <2> HIDE DEF l
  <2>2. WithCR(Append(<<>>, l)) = Append(WithCR(<<>>), Append(l, CR))
    BY <1>1, <2>1, WithCRAppend
  <2>3. <<l>> = Append(<<>>, l) /\ Append(<<>>, Append(l, CR)) = <<Append(l, CR)>>
    OBVIOUS
  <2> QED
    BY <2>1, <2>2, <2>3
<1> DEFINE c == Append(l, CR)
<1>4. c \in Seq(Tok) /\ c \in Line /\ Append(c, LF) = t
  <2>1. c \in Line
    <3>1. \A u \in Line : Append(u, CR) \in Line
      BY DEF Line
    <3> QED
      BY <1>1, <3>1
  <2>2. Append(Append(l, CR), LF) = t
    <3>1. f \in Tok
      BY LinesAssumption, CRIsTok
    <3> QED
      BY <3>1, CRIsTok, ThreeTokens
  <2> QED
    BY <2>1, <2>2, LineIsText
<1> HIDE DEF t, c, l
<1>5. TextOf(<<c>>) = t
  <2>1. <<>> \in Seq(Seq(Tok)) /\ <<c>> = Append(<<>>, c)
    OBVIOUS
  <2>2. TextOf(Append(<<>>, c)) = Cat(TextOf(<<>>), Append(c, LF))
    BY <1>4, <2>1, TextAppend
  <2>3. Cat(<<>>, t) = t
    BY <1>1, CatEmpty
  <2> QED
    BY <1>4, <2>1, <2>2, <2>3, TextEmpty
<1> HIDE DEF one
<1>6. FieldLines(Cat(one, s)) = Cat(FieldLines(one), FieldLines(s))
  <2>1. Maps(NewFields, PlainLine, single, one) /\ Maps(NewFields, PlainLine, single, s)
    BY <1>1, SingleType DEF Maps
  <2> QED
    BY <2>1, EachCat DEF FieldLines
<1>7. FieldLines(one) \in Seq(Line) /\ FieldLines(s) \in Seq(Line)
  BY <1>1, FieldLinesType, PlainIsHeader
<1>8. WithCR(FieldLines(Cat(one, s))) = Cat(<<c>>, WithCR(FieldLines(s)))
  BY <1>2, <1>3, <1>6, <1>7, WithCRCat DEF c
<1> DEFINE K == WithCR(FieldLines(s))
           C == <<c>>
<1>9. K \in Seq(Seq(Tok)) /\ C \in Seq(Seq(Tok)) /\ TextOf(K) \in Seq(Tok)
  <2>1. K \in Seq(Seq(Tok))
    BY <1>7, WithCRMaps, LineIsText
  <2>2. C \in Seq(Seq(Tok))
    BY <1>4
  <2> QED
    BY <2>1, <2>2, TextType
<1> HIDE DEF K, C
<1>10. TextOf(C \o K) = Cat(TextOf(C), TextOf(K))
  BY <1>9, TextCat
<1> QED
  BY <1>1, <1>5, <1>8, <1>9, <1>10 DEF Cat, K, C, one, t

LEMMA DataPrependInv == ASSUME DataInv, NEW f \in NewFields, PrependHeader(f) PROVE DataInv'
<1> DEFINE F == TextOf(WithCR(FieldLines(added)))
           G == TextOf(WithCR(FieldLines(Cat(<<f>>, added))))
           p == <<f, CR, LF>>
<1>1. /\ bufs \in Seq(Seq(Tok)) /\ todo \in Seq(Tok) /\ Cat(FlattenSeq(bufs), todo) = Cat(F, text)
      /\ msg \in Messages /\ text \in {DotReader(Written), Written} /\ added \in Seq(NewFields)
  BY DEF DataInv, Bytes
<1>2. bufs' = head(p) /\ todo' = todo /\ msg' = msg /\ text' = text /\ added' = <<f>> \o added
  BY DEF PrependHeader
<1>3. p \in Seq(Tok) /\ F \in Seq(Tok) /\ G = Cat(p, F) /\ text \in Seq(Tok)
  BY <1>1, FieldInFront, WrittenType
<1>4. G = F' /\ Written' = Written /\ DotReader(Written)' = DotReader(Written)
  BY <1>2 DEF Written, Cat
<1>5. added' \in Seq(NewFields)
  <2>1. <<f>> \in Seq(NewFields)
    OBVIOUS
  <2> QED
    BY <1>1, <1>2, <2>1
<1> HIDE DEF F, G, p
<1>6. head(p) \in Seq(Seq(Tok)) /\ FlattenSeq(head(p)) = Cat(p, FlattenSeq(bufs)) /\ FlattenSeq(bufs) \in Seq(Tok)
  BY <1>1, <1>3, HeadPrepends, FlatAppend
<1>7. Cat(FlattenSeq(head(p)), todo) = Cat(G, text)
  <2>1. Cat(Cat(p, FlattenSeq(bufs)), todo) = Cat(p, Cat(FlattenSeq(bufs), todo))
    BY <1>1, <1>3, <1>6, CatAssociative
  <2>2. Cat(Cat(p, F), text) = Cat(p, Cat(F, text))
    BY <1>3, CatAssociative
  <2> QED
    BY <1>1, <1>3, <1>6, <2>1, <2>2
<1>8. Bytes' = FlattenSeq(head(p))
  BY <1>2 DEF Bytes
<1> QED
  BY <1>1, <1>2, <1>4, <1>5, <1>6, <1>7, <1>8 DEF DataInv, F

LEMMA DataNextInv == DataInv /\ [DataNext]_dataVars => DataInv'
<1> SUFFICES ASSUME DataInv, [DataNext]_dataVars PROVE DataInv'
  OBVIOUS
<1>1. CASE \E n \in DOMAIN todo : Write(n)
  BY <1>1, DataWriteInv
<1>2. CASE \E field \in NewFields : PrependHeader(field)
  BY <1>2, DataPrependInv
<1>3. CASE UNCHANGED dataVars
  BY <1>3 DEF dataVars, DataInv, Written, Bytes
<1> QED
  BY <1>1, <1>2, <1>3 DEF DataNext

\* Whatever a message is, however it is written and whatever fields are put in
\* front of it, NewMail and ReadLine give back its header, with the newest field
\* on top, and its body (data.go:11-22, mail.go:40-49).
THEOREM HeaderAndBodySplitRight == DataSpec => []SplitRight
<1>1. DataInv => SplitRight
  BY DataInvSplits
<1> QED
  BY DataInitInv, DataNextInv, <1>1, PTL DEF DataSpec

=============================================================================
