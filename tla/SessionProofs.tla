--------------------------- MODULE SessionProofs ---------------------------
(***************************************************************************)
(* Theorems about Session, for every configuration of the server and any   *)
(* sets of addresses: what it hands over, what a connection tells and      *)
(* counts, and that it implements ConnLifecycle and Transaction.           *)
(***************************************************************************)
EXTENDS Session, SequenceTheorems, FiniteSetTheorems, TLAPS

---------------------------------------------------------------------------
(* Envelopes and the heap.                                                 *)

Greetings == [helo : Hosts \cup {NoHost}, esmtp : BOOLEAN, over : SUBSET (0 .. MaxLayers)]

LEMMA NewEnvelopeType ==
    ASSUME NEW addr \in Peers PROVE NewEnvelope(addr) \in Envelope
<1> <<>> \in Seq(Addrs)
  OBVIOUS
<1> QED
  BY DEF NewEnvelope, Envelope

\* The envelope resetTransaction makes.
Renewed(h, g) == [NewEnvelope(h[Len(h)].remoteAddr)
                    EXCEPT !.helo = g.helo, !.esmtp = g.esmtp, !.over = g.over]

LEMMA RenewedType ==
    ASSUME NEW h \in Seq(Envelope), h # <<>>, NEW g \in Greetings
    PROVE  /\ Renewed(h, g) \in Envelope
           /\ Renewed(h, g).mailFrom = NoAddr
           /\ Renewed(h, g).rcptTo = <<>>
           /\ Renewed(h, g).bodies = 0
           /\ Renewed(h, g).remoteAddr = h[Len(h)].remoteAddr
           /\ Renewed(h, g).over = g.over
<1>1. h[Len(h)] \in Envelope
  OBVIOUS
<1>2. h[Len(h)].remoteAddr \in Peers
  BY <1>1 DEF Envelope
<1>3. NewEnvelope(h[Len(h)].remoteAddr) \in Envelope
  BY <1>2, NewEnvelopeType
<1> QED
  BY <1>3 DEF Renewed, NewEnvelope, Envelope, Greetings

\* After resetTransaction the heap r has what d points to in h, and a new last
\* envelope that d does not point to.
Keeps(h, d, g, r) ==
    /\ r \in Seq(Envelope) /\ r # <<>>
    /\ r[Len(r)] = Renewed(h, g)
    /\ \A i \in DOMAIN d : /\ d[i].ref \in 1 .. Len(r)
                           /\ d[i].ref # Len(r)
                           /\ r[d[i].ref] = h[d[i].ref]

\* resetTransaction leaves every envelope but the current one alone, and that
\* one too when it was handed over; the current one is then new.
LEMMA ResetKeeps ==
    ASSUME NEW h \in Seq(Envelope), h # <<>>, NEW g \in Greetings,
           NEW d \in Seq(Delivery),
           \A i \in DOMAIN d : d[i].ref \in 1 .. Len(h),
           NEW r, r = resetTransaction(h, d, g)
    PROVE  Keeps(h, d, g, r)
<1> DEFINE e == Renewed(h, g)
<1>1. e \in Envelope /\ Len(h) \in Nat /\ Len(h) > 0
  <2>1. e \in Envelope
    BY RenewedType
  <2>2. Len(h) \in Nat /\ Len(h) > 0
    OBVIOUS
  <2> QED
    BY <2>1, <2>2
<1>2. CASE \E i \in DOMAIN d : d[i].ref = Len(h)
  <2>1. r = Append(h, e)
    BY <1>2 DEF resetTransaction, Renewed
  <2> HIDE DEF e
  <2>2. r \in Seq(Envelope) /\ Len(r) = Len(h) + 1 /\ r[Len(r)] = e
        /\ \A i \in 1 .. Len(h) : r[i] = h[i]
    BY <1>1, <2>1
  <2>3. \A i \in DOMAIN d : /\ d[i].ref \in 1 .. Len(r)
                             /\ d[i].ref # Len(r)
                             /\ r[d[i].ref] = h[d[i].ref]
    BY <1>1, <2>2
  <2> QED
    BY <1>1, <2>2, <2>3 DEF e, Keeps
<1>3. CASE ~ \E i \in DOMAIN d : d[i].ref = Len(h)
  <2>1. r = [h EXCEPT ![Len(h)] = e]
    BY <1>3 DEF resetTransaction, Renewed
  <2> HIDE DEF e
  <2>2. r \in Seq(Envelope) /\ Len(r) = Len(h) /\ r[Len(r)] = e
        /\ \A i \in 1 .. Len(h) : i # Len(h) => r[i] = h[i]
    BY <1>1, <2>1
  <2> QED
    BY <1>1, <1>3, <2>2 DEF e, Keeps
<1> QED
  BY <1>2, <1>3

LEMMA WriteKeeps ==
    ASSUME NEW h \in Seq(Envelope), h # <<>>, NEW e \in Envelope
    PROVE  LET r == [h EXCEPT ![Len(h)] = e]
           IN  /\ r \in Seq(Envelope) /\ r # <<>> /\ Len(r) = Len(h)
               /\ r[Len(r)] = e
               /\ \A i \in 1 .. Len(h) : i # Len(h) => r[i] = h[i]
OBVIOUS

---------------------------------------------------------------------------
(* The invariant.  A step changes the heap in one of three ways: it writes *)
(* to the current envelope, which nobody was given (WriteOwn); it replaces *)
(* it (Replace); or it hands it over.                                      *)

\* Nobody was given the envelope a living connection writes to.
Owned ==
    /\ \A i \in DOMAIN delivered : delivered[i].ref \in 1 .. Len(heap)
    /\ phase # "returned" => \A i \in DOMAIN delivered : delivered[i].ref # Len(heap)

\* The current envelope on its way to the handler.
Filling ==
    phase # "returned" /\ isAlive =>
        /\ env.bodies = 0
        /\ env.over \subseteq {layers}
        /\ phase = "start" => env.over = {}
        /\ state = "Data" => env.rcptTo # <<>>

\* A message as it was handed over.
WholeEnvelope(e) ==
    e.rcptTo # <<>> /\ e.bodies = 1 /\ \E n \in 0 .. MaxLayers : e.over = {n}

DeliveredWhole == \A i \in DOMAIN delivered : WholeEnvelope(heap[delivered[i].ref])

Inv == TypeOK /\ Owned /\ Filling /\ DeliveredWhole

LEMMA InvInit == Init => Inv
<1> SUFFICES ASSUME Init PROVE Inv
  OBVIOUS
<1> USE DEF Init
<1>1. NewEnvelope(Client) \in Envelope
  BY NewEnvelopeType, NilAssumption
<1>2. heap \in Seq(Envelope) /\ heap # <<>> /\ Len(heap) = 1 /\ env = NewEnvelope(Client)
  BY <1>1 DEF env, cur
<1>3. TypeOK
  BY <1>2, NilAssumption, BoundAssumption DEF TypeOK
<1>4. Owned /\ DeliveredWhole
  BY DEF Owned, DeliveredWhole
<1>5. Filling
  BY <1>2, LimitAssumption DEF Filling, NewEnvelope
<1> QED
  BY <1>3, <1>4, <1>5 DEF Inv

\* The types of all variables but the heap and the deliveries.
Plain ==
    /\ phase \in {"start", "loop", "returned"}
    /\ state \in {"Greeting", "Cmd", "Data", "StartTLS", "Shutdown"}
    /\ killedAt \in {"zero", "set"}
    /\ bufErr \in {"nil", "err"}
    /\ errors \in Nat /\ messagesSent \in Nat
    /\ extTLS \in {"", "STARTTLS"}
    /\ layers \in 0 .. MaxLayers
    /\ closedListener \in {"open", "closed"}
    /\ acks \in Nat /\ unrecognized \in Nat
    /\ peer \in Peers

LEMMA TypeParts ==
    TypeOK <=> /\ Plain /\ heap \in Seq(Envelope) /\ heap # <<>>
               /\ delivered \in Seq(Delivery)
BY DEF TypeOK, Plain

LEMMA EnvType ==
    ASSUME TypeOK
    PROVE  /\ env \in Envelope /\ Len(heap) \in Nat /\ Len(heap) > 0
           /\ env.rcptTo \in Seq(Addrs) /\ Len(env.rcptTo) \in Nat
           /\ env.remoteAddr \in Peers
<1>1. heap \in Seq(Envelope) /\ heap # <<>>
  BY DEF TypeOK
<1>2. Len(heap) \in Nat /\ Len(heap) > 0
  BY <1>1
<1>3. env \in Envelope
  BY <1>1, <1>2 DEF env, cur
<1>4. env.rcptTo \in Seq(Addrs) /\ env.remoteAddr \in Peers
  BY <1>3 DEF Envelope
<1> QED
  BY <1>2, <1>3, <1>4

LEMMA SilentType == Silent \in Greetings
BY DEF Silent, Greetings

\* What HELO and EHLO write into the envelope.
LEMMA GreetedType ==
    ASSUME TypeOK, NEW h \in Hosts \cup {NoHost}, NEW b \in BOOLEAN
    PROVE  [helo |-> h, esmtp |-> b, over |-> {layers}] \in Greetings
BY DEF TypeOK, Greetings

\* Sets of layers.
LEMMA OverType ==
    ASSUME TypeOK, NEW e \in Envelope
    PROVE  /\ e.over \cup {layers} \in SUBSET (0 .. MaxLayers)
           /\ e.over \subseteq {layers} => e.over \cup {layers} \subseteq {layers}
BY DEF TypeOK, Envelope

\* What was handed over stays as it is.
Stable == \A i \in DOMAIN delivered :
             heap'[delivered[i].ref] = heap[delivered[i].ref]

\* A step that leaves the envelopes alone.
LEMMA QuietStep ==
    ASSUME Inv, Plain', heap' = heap, delivered' = delivered,
           phase' # "returned" => phase # "returned",
           killedAt' = "zero" => killedAt = "zero",
           layers' = layers, phase' = "start" => phase = "start",
           state' = "Data" => state = "Data" \/ env.rcptTo # <<>>
    PROVE  Inv' /\ Stable
<1>1. TypeOK'
  BY TypeParts DEF Inv, TypeOK, Plain
<1>2. Owned' /\ DeliveredWhole'
  BY DEF Inv, Owned, DeliveredWhole
<1>3. Filling'
  BY DEF Inv, Filling, env, cur, isAlive
<1> QED
  BY <1>1, <1>2, <1>3 DEF Inv, Stable

\* A step that writes to the current envelope.
LEMMA WriteStep ==
    ASSUME Inv, Plain', phase # "returned", delivered' = delivered,
           NEW e \in Envelope, SetEnvelope(e),
           phase' # "start",
           phase' # "returned" /\ killedAt' = "zero" =>
              /\ e.bodies = 0
              /\ e.over \subseteq {layers'}
              /\ state' = "Data" => e.rcptTo # <<>>
    PROVE  Inv' /\ Stable /\ env' = e
<1> TypeOK /\ heap \in Seq(Envelope) /\ heap # <<>> /\ delivered \in Seq(Delivery)
  BY DEF Inv, TypeOK
<1>1. /\ heap' \in Seq(Envelope) /\ heap' # <<>> /\ Len(heap') = Len(heap)
      /\ heap'[Len(heap')] = e
      /\ \A i \in 1 .. Len(heap) : i # Len(heap) => heap'[i] = heap[i]
  BY WriteKeeps DEF SetEnvelope, cur
<1>2. Stable
  BY <1>1 DEF Inv, Owned, Stable
<1>3. TypeOK'
  BY <1>1 DEF TypeOK, Plain
<1>4. Owned'
  BY <1>1 DEF Inv, Owned
<1>5. DeliveredWhole'
  BY <1>2 DEF Inv, DeliveredWhole, Stable
<1>6. Filling' /\ env' = e
  BY <1>1 DEF Filling, env, cur, isAlive
<1> QED
  BY <1>2, <1>3, <1>4, <1>5, <1>6 DEF Inv

\* A step that replaces the current envelope, whatever is written to it first.
LEMMA ReplaceStep ==
    ASSUME Inv, Plain', phase # "returned", delivered' = delivered,
           NEW h \in Seq(Envelope), h # <<>>, Len(h) = Len(heap),
           \A i \in 1 .. Len(heap) : i # Len(heap) => h[i] = heap[i],
           NEW g \in Greetings,
           heap' = resetTransaction(h, delivered, g),
           state' # "Data", phase' # "start", g.over \subseteq {layers'}
    PROVE  Inv' /\ Stable /\ env' = Renewed(h, g)
<1> TypeOK /\ heap \in Seq(Envelope) /\ heap # <<>> /\ delivered \in Seq(Delivery)
  BY DEF Inv, TypeOK
<1>1. /\ heap' \in Seq(Envelope) /\ heap' # <<>>
      /\ heap'[Len(heap')] = Renewed(h, g)
      /\ \A i \in DOMAIN delivered : /\ delivered[i].ref \in 1 .. Len(heap')
                                     /\ delivered[i].ref # Len(heap')
                                     /\ heap'[delivered[i].ref] = h[delivered[i].ref]
  <2>1. \A i \in DOMAIN delivered : delivered[i].ref \in 1 .. Len(h)
    BY DEF Inv, Owned
  <2>2. Keeps(h, delivered, g, heap')
    BY <2>1, ResetKeeps
  <2> QED
    BY <2>2 DEF Keeps
<1>2. Stable
  BY <1>1 DEF Inv, Owned, Stable
<1>3. TypeOK'
  BY <1>1 DEF TypeOK, Plain
<1>4. Owned'
  BY <1>1 DEF Owned
<1>5. DeliveredWhole'
  BY <1>2 DEF Inv, DeliveredWhole, Stable
<1>6. Filling'
  <2>1. Renewed(h, g).bodies = 0 /\ Renewed(h, g).over = g.over
    BY RenewedType
  <2> QED
    BY <1>1, <2>1 DEF Filling, env, cur
<1>7. env' = Renewed(h, g)
  BY <1>1 DEF env, cur
<1> QED
  BY <1>2, <1>3, <1>4, <1>5, <1>6, <1>7 DEF Inv

\* The same when nothing is written first.
LEMMA ResetStep ==
    ASSUME Inv, Plain', phase # "returned", delivered' = delivered,
           NEW g \in Greetings, heap' = resetTransaction(heap, delivered, g),
           state' # "Data", phase' # "start", g.over \subseteq {layers'}
    PROVE  Inv' /\ Stable /\ env' = Renewed(heap, g)
<1> heap \in Seq(Envelope) /\ heap # <<>>
  BY DEF Inv, TypeOK
<1> QED
  BY ReplaceStep

\* The handler is given the current envelope with its body.
FilledEnv == [env EXCEPT !.bodies = @ + 1, !.over = @ \cup {layers}]

LEMMA FilledIs ==
    ASSUME Inv, Turn("Data")
    PROVE  /\ Filled = [heap EXCEPT ![cur] = FilledEnv]
           /\ FilledEnv \in Envelope
           /\ WholeEnvelope(FilledEnv)
           /\ FilledEnv.rcptTo = env.rcptTo
           /\ FilledEnv.mailFrom = env.mailFrom
           /\ env.rcptTo # <<>>
<1>0. env \in Envelope /\ Len(heap) \in Nat /\ Len(heap) > 0
      /\ env.rcptTo \in Seq(Addrs) /\ Len(env.rcptTo) \in Nat
  BY EnvType DEF Inv
<1>1. env.bodies = 0 /\ env.over \subseteq {layers} /\ env.rcptTo # <<>>
      /\ layers \in 0 .. MaxLayers
  BY DEF Inv, TypeOK, Filling, Turn, isAlive
<1>2. Filled = [heap EXCEPT ![cur] = FilledEnv]
  BY <1>0 DEF Filled, FilledEnv, env, cur
<1>3. /\ FilledEnv \in Envelope
      /\ FilledEnv.bodies = 1 /\ FilledEnv.over = {layers}
      /\ FilledEnv.rcptTo = env.rcptTo
      /\ FilledEnv.mailFrom = env.mailFrom
  <2> DEFINE o == env.over \cup {layers}
  <2>1. o \in SUBSET (0 .. MaxLayers) /\ o = {layers}
    BY <1>0, <1>1, OverType DEF Inv
  <2>2. FilledEnv = [env EXCEPT !.bodies = env.bodies + 1, !.over = o]
    BY DEF FilledEnv
  <2> HIDE DEF o
  <2>3. FilledEnv.rcptTo = env.rcptTo /\ FilledEnv.mailFrom = env.mailFrom
        /\ FilledEnv.over = o /\ FilledEnv.bodies = env.bodies + 1
    BY ONLY <1>0, <2>2 DEF Envelope
  <2>4. env.bodies + 1 = 1 /\ 1 \in Nat
    BY ONLY <1>1
  <2>5. FilledEnv \in Envelope
    BY ONLY <1>0, <2>1, <2>2, <2>4 DEF Envelope
  <2> QED
    BY <2>1, <2>3, <2>4, <2>5
<1> QED
  BY <1>1, <1>2, <1>3 DEF WholeEnvelope

\* The heap between the body and the reset: the last envelope is the full one.
LEMMA FilledHeap ==
    ASSUME Inv, Turn("Data")
    PROVE  /\ Filled \in Seq(Envelope) /\ Filled # <<>> /\ Len(Filled) = Len(heap)
           /\ Filled[Len(heap)] = FilledEnv
           /\ \A i \in 1 .. Len(heap) : i # Len(heap) => Filled[i] = heap[i]
<1>1. heap \in Seq(Envelope) /\ heap # <<>>
  BY DEF Inv, TypeOK
<1> QED
  BY <1>1, FilledIs, WriteKeeps DEF cur

\* What is then in the list of deliveries, and where it points to.
LEMMA HandedType ==
    ASSUME Inv, NEW b \in BOOLEAN,
           delivered' = Append(delivered, [ref |-> cur, accepted |-> b])
    PROVE  /\ delivered' \in Seq(Delivery)
           /\ Len(delivered') = Len(delivered) + 1
           /\ delivered'[Len(delivered')].ref = Len(heap)
           /\ \A i \in DOMAIN delivered : i \in DOMAIN delivered' /\ delivered'[i] = delivered[i]
           /\ \A i \in DOMAIN delivered' : i \in DOMAIN delivered \/ i = Len(delivered')
           /\ \A i \in DOMAIN delivered' : delivered'[i].ref \in 1 .. Len(heap)
<1> DEFINE x == [ref |-> cur, accepted |-> b]
<1>1. delivered \in Seq(Delivery) /\ Len(heap) \in Nat /\ Len(heap) > 0
  BY EnvType DEF Inv, TypeOK
<1>2. x \in Delivery /\ x.ref = Len(heap)
  BY <1>1 DEF Delivery, cur
<1>3. \A i \in DOMAIN delivered : delivered[i].ref \in 1 .. Len(heap)
  BY DEF Inv, Owned
<1> HIDE DEF x
<1>4. delivered' = Append(delivered, x)
  BY DEF x
<1>5. /\ delivered' \in Seq(Delivery)
      /\ Len(delivered') = Len(delivered) + 1
      /\ delivered'[Len(delivered')] = x
      /\ \A i \in DOMAIN delivered : i \in DOMAIN delivered' /\ delivered'[i] = delivered[i]
      /\ \A i \in DOMAIN delivered' : i \in DOMAIN delivered \/ i = Len(delivered')
  BY <1>1, <1>2, <1>4
<1> QED
  BY <1>1, <1>2, <1>3, <1>5

\* The handler answers: the full envelope stays, and a new one is current.
LEMMA BodyStep ==
    ASSUME Inv, Turn("Data"), Plain', state' # "Data", phase' # "start", NEW b \in BOOLEAN,
           delivered' = Append(delivered, [ref |-> cur, accepted |-> b]),
           heap' = resetTransaction(Filled, delivered', Silent)
    PROVE  /\ Inv' /\ Stable
           /\ heap'[Len(heap)] = FilledEnv
           /\ env' = Renewed(Filled, Silent)
<1>1. phase # "returned" /\ Silent \in Greetings
  BY SilentType DEF Turn
<1>2. Filled \in Seq(Envelope) /\ Filled # <<>>
  BY FilledHeap
<1>3. delivered' \in Seq(Delivery)
      /\ \A i \in DOMAIN delivered' : delivered'[i].ref \in 1 .. Len(Filled)
  BY HandedType, FilledHeap
<1>0. Keeps(Filled, delivered', Silent, heap')
  BY <1>1, <1>2, <1>3, ResetKeeps
<1>4. heap'[Len(heap)] = FilledEnv
  <2>1. Len(delivered') \in DOMAIN delivered' /\ delivered'[Len(delivered')].ref = Len(heap)
    BY HandedType
  <2>2. heap'[Len(heap)] = Filled[Len(heap)]
    BY ONLY <1>0, <2>1 DEF Keeps
  <2> QED
    BY <2>2, FilledHeap
<1>5. Stable
  BY <1>1, <1>0, HandedType, FilledHeap DEF Keeps, Inv, Owned, Stable
<1>6. TypeOK'
  BY <1>0, HandedType DEF Keeps, TypeOK, Plain
<1>7. Owned'
  BY <1>0 DEF Keeps, Owned
<1>8. DeliveredWhole'
  <2> SUFFICES ASSUME NEW i \in DOMAIN delivered'
               PROVE  WholeEnvelope(heap'[delivered'[i].ref])
    BY DEF DeliveredWhole
  <2>1. CASE i \in DOMAIN delivered
    BY <2>1, <1>5, HandedType DEF Inv, DeliveredWhole, Stable
  <2>2. CASE i = Len(delivered')
    BY <2>2, <1>4, HandedType, FilledIs
  <2> QED
    BY <2>1, <2>2, HandedType
<1>9. Filling'
  <2>1. Renewed(Filled, Silent).bodies = 0 /\ Renewed(Filled, Silent).over = {}
    BY <1>1, FilledHeap, RenewedType DEF Silent
  <2> QED
    BY <1>0, <2>1 DEF Keeps, Filling, env, cur
<1> QED
  BY <1>0, <1>4, <1>5, <1>6, <1>7, <1>8, <1>9 DEF Keeps, Inv, env, cur

\* The handler panics: the full envelope stays current, of a dead connection.
LEMMA PanicStep ==
    ASSUME Inv, Turn("Data"), Plain', phase' = "returned", NEW b \in BOOLEAN,
           delivered' = Append(delivered, [ref |-> cur, accepted |-> b]),
           heap' = Filled
    PROVE  Inv' /\ Stable /\ heap'[Len(heap)] = FilledEnv
<1>1. phase # "returned"
  BY DEF Turn
<1>2. TypeOK'
  BY HandedType, FilledHeap DEF TypeOK, Plain
<1>3. Stable
  BY <1>1, FilledHeap DEF Inv, Owned, Stable
<1>4. Owned'
  BY HandedType, FilledHeap DEF Owned
<1>5. DeliveredWhole'
  <2> SUFFICES ASSUME NEW i \in DOMAIN delivered'
               PROVE  WholeEnvelope(heap'[delivered'[i].ref])
    BY DEF DeliveredWhole
  <2>1. CASE i \in DOMAIN delivered
    BY <2>1, <1>3, HandedType DEF Inv, DeliveredWhole, Stable
  <2>2. CASE i = Len(delivered')
    BY <2>2, HandedType, FilledHeap, FilledIs
  <2> QED
    BY <2>1, <2>2, HandedType
<1>6. Filling'
  BY DEF Filling
<1> QED
  BY <1>2, <1>3, <1>4, <1>5, <1>6, FilledHeap DEF Inv

---------------------------------------------------------------------------
(* Every step keeps the invariant and what was delivered.                  *)

\* The steps that leave the envelopes alone, with how they leave the loop.
Quiet ==
    \/ EnterPlain \/ EnterTLSFails
    \/ LeaveLoop \/ Greeting \/ ReadFails \/ LineTooLong \/ ToldToStop
    \/ Answered \/ NestedMAIL \/ RefusedRCPT
    \/ QUIT \/ DATA \/ STARTTLS \/ Unrecognized
    \/ AlreadyTLS \/ HandshakeFails \/ Shutdown

\* The counters stay numbers, and the TLS layers within their bound.
LEMMA ErrorType ==
    ASSUME errors \in Nat, Error PROVE errors' \in Nat
BY DEF Error

LEMMA LayersType ==
    ASSUME layers \in 0 .. MaxLayers, upgradeTLS PROVE layers' \in 0 .. MaxLayers
BY BoundAssumption DEF upgradeTLS

LEMMA QuietPlain ==
    ASSUME TypeOK, Quiet
    PROVE  /\ Plain' /\ heap' = heap /\ delivered' = delivered
           /\ phase' # "returned" => phase # "returned"
           /\ killedAt' = "zero" => killedAt = "zero"
           /\ layers' = layers /\ phase' # "start"
           /\ state' = "Data" => state = "Data" \/ env.rcptTo # <<>>
<1> Plain
  BY TypeParts
<1> USE DEF Plain, connVars, history
<1>1. CASE EnterPlain
  BY <1>1 DEF EnterPlain
<1>2. CASE EnterTLSFails
  BY <1>2 DEF EnterTLSFails, kill
<1>3. CASE LeaveLoop \/ Greeting
  BY <1>3 DEF LeaveLoop, Greeting, Turn, sendResponse
<1>4. CASE ReadFails \/ LineTooLong
  BY <1>4 DEF ReadFails, LineTooLong, Turn, sendResponse, kill
<1>5. CASE ToldToStop \/ Shutdown
  BY <1>5 DEF ToldToStop, Shutdown, Turn, sendResponse, kill
<1>6. CASE Answered \/ NestedMAIL \/ RefusedRCPT
  BY <1>6, ErrorType DEF Answered, NestedMAIL, RefusedRCPT, Refused, Command, Stays,
        Turn, sendResponse
<1>7. CASE QUIT \/ DATA \/ STARTTLS
  BY <1>7 DEF QUIT, DATA, STARTTLS, Command, Turn, sendResponse, kill
<1>8. CASE Unrecognized
  <2>n. unrecognized \in Nat /\ errors \in Nat
    BY DEF Plain
  <2>0. unrecognized' = unrecognized + 1 /\ Error
    BY <1>8 DEF Unrecognized
  <2>1. unrecognized' \in Nat
    BY ONLY <2>n, <2>0
  <2>2. errors' \in Nat
    BY ONLY <2>n, <2>0, ErrorType
  <2>3. killedAt' \in {killedAt, "set"}
    BY <1>8 DEF Unrecognized, kill
  <2> QED
    BY <1>8, <2>1, <2>2, <2>3 DEF Unrecognized, Command, Turn, sendResponse
<1>9. CASE AlreadyTLS \/ HandshakeFails
  BY <1>9 DEF AlreadyTLS, HandshakeFails, Turn
<1> QED
  BY <1>1, <1>2, <1>3, <1>4, <1>5, <1>6, <1>7, <1>8, <1>9 DEF Quiet

LEMMA QuietKeeps == Inv /\ Quiet => Inv' /\ Stable
BY QuietPlain, QuietStep DEF Inv

LEMMA EnterTLSKeeps == Inv /\ EnterTLS => Inv' /\ Stable
<1> SUFFICES ASSUME Inv, EnterTLS PROVE Inv' /\ Stable
  OBVIOUS
<1> DEFINE e == [env EXCEPT !.tls = TRUE]
<1>1. env \in Envelope
  BY EnvType DEF Inv
<1>2. e \in Envelope /\ e.bodies = env.bodies /\ e.rcptTo = env.rcptTo /\ e.over = env.over
  BY <1>1 DEF Envelope
<1>3. Plain' /\ phase = "start" /\ phase' = "loop" /\ delivered' = delivered /\ killedAt' = killedAt
      /\ state' = state
  BY TypeParts, LayersType DEF Inv, EnterTLS, Plain, history
<1>4. SetEnvelope(e)
  BY DEF EnterTLS
<1> HIDE DEF e
<1> QED
  BY <1>2, <1>3, <1>4, WriteStep DEF Inv, Filling, isAlive

\* What the commands have in common.
LEMMA CommandPlain ==
    ASSUME TypeOK, Command, Stays, errors' \in Nat, unrecognized' \in Nat, peer' \in Peers
    PROVE  /\ Plain' /\ phase = "loop" /\ phase' = phase /\ delivered' = delivered
           /\ layers' = layers
           /\ killedAt' = killedAt /\ state = "Cmd" /\ state' = "Cmd"
           /\ killedAt = "zero"
BY TypeParts DEF Plain, Command, Stays, Turn, sendResponse, isAlive

LEMMA GreetingKeeps ==
    ASSUME Inv, NEW h \in Hosts \cup {NoHost}, HELO(h) \/ EHLO(h)
    PROVE  Inv' /\ Stable
<1>1. PICK g \in Greetings : /\ heap' = resetTransaction(heap, delivered, g)
                             /\ g.over = {layers}
  BY GreetedType DEF HELO, EHLO, Inv
<1>2. /\ Plain' /\ phase = "loop" /\ delivered' = delivered /\ state' = "Cmd"
      /\ phase' = phase /\ layers' = layers
  BY CommandPlain DEF HELO, EHLO, Inv, TypeOK
<1> QED
  BY <1>1, <1>2, ResetStep

LEMMA RSETKeeps == Inv /\ RSET => Inv' /\ Stable
<1> SUFFICES ASSUME Inv, RSET PROVE Inv' /\ Stable
  OBVIOUS
<1>1. /\ Plain' /\ phase = "loop" /\ delivered' = delivered /\ state' = "Cmd"
      /\ phase' = phase
  BY CommandPlain DEF RSET, Inv, TypeOK
<1> QED
  BY <1>1, SilentType, ResetStep DEF RSET, Silent

LEMMA PeerKeeps ==
    ASSUME Inv, NEW addr \in Peers, NEW h \in Hosts \cup {env.helo},
           XCLIENT(addr, h) \/ PROXY(addr)
    PROVE  Inv' /\ Stable
<1>1. env \in Envelope
  BY EnvType DEF Inv
<1>2. PICK e \in Envelope : /\ SetEnvelope(e)
                            /\ e.bodies = env.bodies /\ e.rcptTo = env.rcptTo
                            /\ e.over \in {env.over, env.over \cup {layers}}
  <2> DEFINE told == [env EXCEPT !.remoteAddr = addr]
             both == [env EXCEPT !.remoteAddr = addr, !.helo = h, !.over = @ \cup {layers}]
  <2>1. env.helo \in Hosts \cup {NoHost} /\ env.over \cup {layers} \in SUBSET (0 .. MaxLayers)
    BY <1>1, OverType DEF Envelope, Inv
  <2>2. told \in Envelope /\ told.bodies = env.bodies /\ told.rcptTo = env.rcptTo
        /\ told.over = env.over
    BY <1>1 DEF Envelope
  <2>3. both \in Envelope /\ both.bodies = env.bodies /\ both.rcptTo = env.rcptTo
        /\ both.over = env.over \cup {layers}
    BY <1>1, <2>1 DEF Envelope
  <2>4. SetEnvelope(told) \/ SetEnvelope(both)
    BY DEF XCLIENT, PROXY
  <2> QED
    BY <2>2, <2>3, <2>4
<1>3. /\ Plain' /\ phase = "loop" /\ delivered' = delivered /\ state' = "Cmd"
      /\ killedAt' = killedAt /\ phase' = "loop" /\ layers' = layers
  BY CommandPlain DEF XCLIENT, PROXY, Inv, TypeOK
<1>4. killedAt = "zero" => /\ e.bodies = 0
                           /\ e.over \subseteq {layers}
  BY <1>2, <1>3 DEF Inv, Filling, isAlive
<1> QED
  BY <1>2, <1>3, <1>4, WriteStep

LEMMA MAILKeeps ==
    ASSUME Inv, NEW a \in Addrs \cup {NoAddr}, NEW utf8 \in BOOLEAN, MAIL(a, utf8)
    PROVE  Inv' /\ Stable
<1> DEFINE e == [env EXCEPT !.mailFrom = a, !.utf8 = @ \/ utf8, !.over = @ \cup {layers}]
<1>1. env \in Envelope /\ env.over \cup {layers} \in SUBSET (0 .. MaxLayers)
  BY EnvType, OverType DEF Inv
<1>2. e \in Envelope /\ e.bodies = env.bodies /\ e.rcptTo = env.rcptTo
      /\ e.over = env.over \cup {layers}
  BY <1>1 DEF Envelope
<1>3. /\ Plain' /\ phase = "loop" /\ delivered' = delivered /\ state' = "Cmd"
      /\ killedAt' = killedAt /\ phase' = "loop" /\ layers' = layers
  BY CommandPlain, ErrorType DEF MAIL, Inv, TypeOK
<1>4. SetEnvelope(e)
  BY DEF MAIL
<1> HIDE DEF e
<1>5. killedAt = "zero" => /\ e.bodies = 0
                           /\ e.over \subseteq {layers}
  BY <1>2, <1>3 DEF Inv, Filling, isAlive
<1> QED
  BY <1>2, <1>3, <1>4, <1>5, WriteStep

LEMMA RCPTKeeps ==
    ASSUME Inv, NEW a \in Addrs, RCPT(a)
    PROVE  Inv' /\ Stable
<1> DEFINE e == [env EXCEPT !.rcptTo = Append(@, a), !.over = @ \cup {layers}]
<1>1. env \in Envelope /\ env.over \cup {layers} \in SUBSET (0 .. MaxLayers)
      /\ env.rcptTo \in Seq(Addrs)
  BY EnvType, OverType DEF Inv
<1>2. Append(env.rcptTo, a) \in Seq(Addrs)
  BY <1>1
<1>3. e \in Envelope /\ e.bodies = env.bodies /\ e.over = env.over \cup {layers}
  BY <1>1, <1>2 DEF Envelope
<1>4. /\ Plain' /\ phase = "loop" /\ delivered' = delivered /\ state' = "Cmd"
      /\ killedAt' = killedAt /\ phase' = "loop" /\ layers' = layers
  BY CommandPlain DEF RCPT, Inv, TypeOK
<1>5. SetEnvelope(e)
  BY DEF RCPT
<1> HIDE DEF e
<1>6. killedAt = "zero" => /\ e.bodies = 0
                           /\ e.over \subseteq {layers}
  BY <1>3, <1>4 DEF Inv, Filling, isAlive
<1> QED
  BY <1>3, <1>4, <1>5, <1>6, WriteStep

LEMMA BodyFailsKeeps == Inv /\ BodyFails => Inv' /\ Stable
<1> SUFFICES ASSUME Inv, BodyFails PROVE Inv' /\ Stable
  OBVIOUS
<1>1. Turn("Data")
  BY DEF BodyFails
<1>2. FilledEnv \in Envelope
  BY <1>1, FilledIs
<1>3. SetEnvelope(FilledEnv)
  BY DEF BodyFails, FilledEnv
<1>4. /\ Plain' /\ phase # "returned" /\ delivered' = delivered /\ killedAt' = "set"
      /\ phase' # "start"
  BY TypeParts DEF Inv, BodyFails, Plain, Turn, sendResponse, kill, history
<1> QED
  BY <1>2, <1>3, <1>4, WriteStep

LEMMA HandshakeKeeps == Inv /\ Handshake => Inv' /\ Stable
<1> SUFFICES ASSUME Inv, Handshake PROVE Inv' /\ Stable
  OBVIOUS
<1> DEFINE e == [env EXCEPT !.tls = TRUE]
           h == [heap EXCEPT ![cur].tls = TRUE]
<1>1. env \in Envelope /\ heap \in Seq(Envelope) /\ heap # <<>>
  BY EnvType DEF Inv, TypeOK
<1>2. e \in Envelope
  BY <1>1 DEF Envelope
<1>3. h = [heap EXCEPT ![Len(heap)] = e]
  BY DEF env, cur
<1>4. heap' = resetTransaction(h, delivered, Silent)
  BY DEF Handshake
<1>5. /\ Plain' /\ phase # "returned" /\ delivered' = delivered /\ state' = "Cmd"
      /\ phase' # "start" /\ Silent.over = {}
  BY TypeParts, LayersType DEF Inv, Handshake, Plain, Turn, Silent
<1> HIDE DEF e, h
<1>6. /\ h \in Seq(Envelope) /\ h # <<>> /\ Len(h) = Len(heap)
      /\ \A i \in 1 .. Len(heap) : i # Len(heap) => h[i] = heap[i]
  BY <1>1, <1>2, <1>3, WriteKeeps
<1> QED
  BY <1>4, <1>5, <1>6, SilentType, ReplaceStep

LEMMA BodyKeeps ==
    ASSUME Inv, NEW class \in {2, 4, 5}, Body(class)
    PROVE  Inv' /\ Stable
<1>1. Turn("Data") /\ state' # "Data" /\ phase' # "start"
  BY DEF Body, Handed, Turn
<1>2. Plain'
  <2>0. Plain
    BY TypeParts DEF Inv
  <2>n. errors \in Nat /\ messagesSent \in Nat /\ acks \in Nat
    BY <2>0 DEF Plain
  <2>a. UNCHANGED errors \/ Error
    BY DEF Body
  <2>b. /\ messagesSent' \in {messagesSent, messagesSent + 1}
        /\ acks' \in {acks, acks + 1}
    BY DEF Body
  <2>1. errors' \in Nat
    BY <2>n, <2>a, ErrorType
  <2>2. messagesSent' \in Nat /\ acks' \in Nat
    BY <2>n, <2>b
  <2>3. state' \in {"Shutdown", "Cmd"}
    BY DEF Body
  <2>4. phase' = phase /\ bufErr' \in {"nil", "err"}
    BY DEF Body, sendResponse
  <2>5. UNCHANGED <<killedAt, layers, extTLS, unrecognized, peer, closedListener>>
    BY DEF Body, Handed, Turn
  <2> QED
    BY <2>0, <2>1, <2>2, <2>3, <2>4, <2>5 DEF Plain
<1>3. PICK b \in BOOLEAN : delivered' = Append(delivered, [ref |-> cur, accepted |-> b])
  BY DEF Body, Handed
<1>4. heap' = resetTransaction(Filled, delivered', Silent)
  BY DEF Body
<1> QED
  BY <1>1, <1>2, <1>3, <1>4, BodyStep

LEMMA PanicKeeps == Inv /\ HandlerPanics => Inv' /\ Stable
<1> SUFFICES ASSUME Inv, HandlerPanics PROVE Inv' /\ Stable
  OBVIOUS
<1>1. Turn("Data") /\ phase' = "returned" /\ heap' = Filled
  BY DEF HandlerPanics, Handed
<1>2. Plain'
  BY TypeParts DEF Inv, HandlerPanics, Handed, Plain, Turn
<1>3. delivered' = Append(delivered, [ref |-> cur, accepted |-> FALSE])
  BY DEF HandlerPanics, Handed
<1> QED
  BY <1>1, <1>2, <1>3, PanicStep

LEMMA InvNext == Inv /\ [Next]_vars => Inv' /\ Stable
<1> SUFFICES ASSUME Inv, [Next]_vars PROVE Inv' /\ Stable
  OBVIOUS
<1>1. CASE UNCHANGED vars
  <2>1. Plain' /\ heap' = heap /\ delivered' = delivered /\ phase' = phase
        /\ killedAt' = killedAt /\ state' = state /\ layers' = layers
    BY <1>1, TypeParts DEF Inv, vars, connVars, history, Plain
  <2> QED
    BY <2>1, QuietStep
<1>2. CASE Next
  BY <1>2, QuietKeeps, EnterTLSKeeps, GreetingKeeps, RSETKeeps, PeerKeeps,
     MAILKeeps, RCPTKeeps, BodyFailsKeeps, HandshakeKeeps, BodyKeeps, PanicKeeps
     DEF Next, Quiet
<1> QED
  BY <1>1, <1>2

\* A message that reaches the handler has a recipient and one body, whatever
\* the client sent before (server.go:517-525, 552, 609).
THEOREM DeliveriesAreComplete == Spec => [](TypeOK /\ DeliveredComplete)
<1>1. Inv => TypeOK /\ DeliveredComplete
  BY DEF Inv, DeliveredWhole, WholeEnvelope, DeliveredComplete
<1> QED
  BY <1>1, InvInit, InvNext, PTL DEF Spec

\* A delivered message was told over the same TLS layers from its first command
\* to its body: none of it was said before a handshake that came in between
\* (server.go:614-635, connection.go:130).
THEOREM DeliveriesAreOverOneLayer == Spec => []ToldOverOneLayer
<1>1. Inv => ToldOverOneLayer
  BY DEF Inv, DeliveredWhole, WholeEnvelope, ToldOverOneLayer
<1> QED
  BY <1>1, InvInit, InvNext, PTL DEF Spec

\* The connection never writes to an envelope it has handed over
\* (connection.go:129-131, server.go:609).
THEOREM DeliveriesAreStable == Spec => DeliveredStable
<1>1. Inv /\ [Next]_vars
        => [\A i \in DOMAIN delivered :
              heap'[delivered[i].ref] = heap[delivered[i].ref]]_vars
  BY InvNext DEF Stable
<1> QED
  BY <1>1, InvInit, InvNext, PTL DEF Spec, DeliveredStable

---------------------------------------------------------------------------
(* Unrecognized commands.                                                  *)

\* The limit holds from the start, for every connection that goes on.
Bounded ==
    /\ unrecognized <= errors
    /\ phase # "returned" /\ killedAt = "zero" => unrecognized < MaxUnrecognizedCommands

\* A step that is no unrecognized command.
Recognized ==
    /\ unrecognized' = unrecognized
    /\ errors' \in {errors, errors + 1}
    /\ phase' # "returned" => phase # "returned"
    /\ killedAt' = "zero" => killedAt = "zero"

LEMMA RecognizedSteps == [Next]_vars => Unrecognized \/ Recognized
<1> SUFFICES ASSUME [Next]_vars PROVE Unrecognized \/ Recognized
  OBVIOUS
<1> USE DEF Recognized, connVars, history
<1>1. CASE UNCHANGED vars
  BY <1>1 DEF vars
<1>2. CASE EnterPlain \/ EnterTLS \/ EnterTLSFails \/ LeaveLoop
  BY <1>2 DEF EnterPlain, EnterTLS, EnterTLSFails, LeaveLoop, kill
<1>3. CASE Greeting \/ ReadFails \/ LineTooLong \/ ToldToStop \/ Shutdown
  BY <1>3 DEF Greeting, ReadFails, LineTooLong, ToldToStop, Shutdown, Turn, kill, isAlive
<1>4. CASE \/ \E h \in Hosts \cup {NoHost} : HELO(h) \/ EHLO(h)
           \/ Answered
           \/ \E addr \in Peers, h \in Hosts \cup {env.helo} : XCLIENT(addr, h)
           \/ \E addr \in Peers : PROXY(addr)
  BY <1>4 DEF HELO, EHLO, Answered, XCLIENT, PROXY, Command, Stays, Turn
<1>5. CASE \/ \E a \in Addrs \cup {NoAddr}, utf8 \in BOOLEAN : MAIL(a, utf8)
           \/ \E a \in Addrs : RCPT(a)
           \/ NestedMAIL \/ RefusedRCPT
  BY <1>5 DEF MAIL, RCPT, NestedMAIL, RefusedRCPT, Refused, Error, Command, Stays, Turn
<1>6. CASE RSET \/ QUIT \/ DATA \/ STARTTLS
  BY <1>6 DEF RSET, QUIT, DATA, STARTTLS, Command, Stays, Turn, kill
<1>7. CASE BodyFails \/ HandlerPanics \/ \E class \in {2, 4, 5} : Body(class)
  BY <1>7 DEF BodyFails, HandlerPanics, Body, Handed, Turn, Error, kill
<1>8. CASE AlreadyTLS \/ Handshake \/ HandshakeFails
  BY <1>8 DEF AlreadyTLS, Handshake, HandshakeFails, Turn
<1> QED
  BY <1>1, <1>2, <1>3, <1>4, <1>5, <1>6, <1>7, <1>8 DEF Next

LEMMA BoundedNext == Inv /\ Bounded /\ [Next]_vars => Bounded'
<1> SUFFICES ASSUME Inv, Bounded, [Next]_vars PROVE Bounded'
  OBVIOUS
<1>0. errors \in Nat /\ unrecognized \in Nat /\ MaxUnrecognizedCommands \in Nat
  BY LimitAssumption DEF Inv, TypeOK
<1>1. CASE Unrecognized
  <2>1. /\ errors' = errors + 1 /\ unrecognized' = unrecognized + 1
        /\ errors' >= MaxUnrecognizedCommands => killedAt' = "set"
    BY <1>1 DEF Unrecognized, Error, kill
  <2>2. unrecognized <= errors
    BY DEF Bounded
  <2>3. unrecognized' <= errors'
        /\ (~(errors' >= MaxUnrecognizedCommands) => unrecognized' < MaxUnrecognizedCommands)
    BY ONLY <1>0, <2>1, <2>2
  <2> QED
    BY <2>1, <2>3 DEF Bounded
<1>2. CASE Recognized
  <2>1. unrecognized <= errors /\ unrecognized' = unrecognized /\ errors' \in {errors, errors + 1}
    BY <1>2 DEF Bounded, Recognized
  <2>2. unrecognized' <= errors'
    BY ONLY <1>0, <2>1
  <2> QED
    BY <1>2, <2>2 DEF Bounded, Recognized
<1> QED
  BY <1>1, <1>2, RecognizedSteps

\* A connection that is served has sent fewer unrecognized commands than the
\* limit (server.go:540-547).
THEOREM UnrecognizedAreBounded == Spec => []UnrecognizedBounded
<1>1. Init => Bounded
  BY LimitAssumption DEF Init, Bounded
<1>2. Bounded => UnrecognizedBounded
  BY DEF Bounded, UnrecognizedBounded, isAlive
<1> QED
  BY <1>1, <1>2, InvInit, InvNext, BoundedNext, PTL DEF Spec

---------------------------------------------------------------------------
(* The peer's address.                                                     *)

LEMMA PeerInit == Init => EnvelopeTellsPeer
BY DEF Init, EnvelopeTellsPeer, NewEnvelope, env, cur

\* What the current envelope is after it was written to, and replaced.
LEMMA Written ==
    ASSUME Inv, NEW e \in Envelope, SetEnvelope(e)
    PROVE  env' = e
<1>1. heap \in Seq(Envelope) /\ heap # <<>>
  BY DEF Inv, TypeOK
<1> QED
  BY <1>1, WriteKeeps DEF SetEnvelope, env, cur

LEMMA Renews ==
    ASSUME NEW h \in Seq(Envelope), h # <<>>, NEW g \in Greetings,
           NEW d \in Seq(Delivery), \A i \in DOMAIN d : d[i].ref \in 1 .. Len(h),
           heap' = resetTransaction(h, d, g)
    PROVE  env'.remoteAddr = h[Len(h)].remoteAddr
<1>1. Keeps(h, d, g, heap')
  BY ResetKeeps
<1>2. env' = Renewed(h, g)
  BY <1>1 DEF Keeps, env, cur
<1> QED
  BY <1>2, RenewedType

\* The list of deliveries points into the heap.
LEMMA DeliveredPoints ==
    ASSUME Inv
    PROVE  /\ heap \in Seq(Envelope) /\ heap # <<>> /\ delivered \in Seq(Delivery)
           /\ \A i \in DOMAIN delivered : delivered[i].ref \in 1 .. Len(heap)
BY DEF Inv, TypeOK, Owned

LEMMA PeerNext == Inv /\ EnvelopeTellsPeer /\ [Next]_vars => EnvelopeTellsPeer'
<1> SUFFICES ASSUME Inv, EnvelopeTellsPeer, [Next]_vars PROVE EnvelopeTellsPeer'
  OBVIOUS
<1>0. env \in Envelope /\ env = heap[Len(heap)] /\ env.remoteAddr = peer
  BY EnvType DEF Inv, env, cur, EnvelopeTellsPeer
<1>1. CASE UNCHANGED vars \/ Quiet
  <2>1. heap' = heap /\ peer' = peer
    BY <1>1 DEF vars, history, Quiet, EnterPlain, EnterTLSFails, LeaveLoop, Greeting, ReadFails,
       LineTooLong, ToldToStop, Answered, NestedMAIL, RefusedRCPT, Refused, QUIT, DATA,
       STARTTLS, Unrecognized, AlreadyTLS, HandshakeFails, Shutdown
  <2> QED
    BY <2>1 DEF EnvelopeTellsPeer, env, cur
<1>2. CASE EnterTLS \/ BodyFails
  <2>1. PICK e : SetEnvelope(e) /\ e \in Envelope /\ e.remoteAddr = env.remoteAddr
    <3>1. CASE EnterTLS
      <4>1. [env EXCEPT !.tls = TRUE] \in Envelope
            /\ [env EXCEPT !.tls = TRUE].remoteAddr = env.remoteAddr
        BY <1>0 DEF Envelope
      <4> QED
        BY <3>1, <4>1 DEF EnterTLS
    <3>2. CASE BodyFails
      <4>1. FilledEnv \in Envelope
        BY <3>2, FilledIs DEF BodyFails
      <4>2. FilledEnv.remoteAddr = env.remoteAddr
        BY <1>0 DEF FilledEnv, Envelope
      <4> QED
        BY <3>2, <4>1, <4>2 DEF BodyFails, FilledEnv
    <3> QED
      BY <1>2, <3>1, <3>2
  <2>2. peer' = peer
    BY <1>2 DEF EnterTLS, BodyFails, history
  <2> QED
    BY <1>0, <2>1, <2>2, Written DEF EnvelopeTellsPeer
<1>3. ASSUME NEW addr \in Peers, NEW h \in Hosts \cup {env.helo}, XCLIENT(addr, h) \/ PROXY(addr)
      PROVE  EnvelopeTellsPeer'
  <2>1. env.helo \in Hosts \cup {NoHost}
    BY <1>0 DEF Envelope
  <2>2. /\ [env EXCEPT !.remoteAddr = addr] \in Envelope
        /\ [env EXCEPT !.remoteAddr = addr].remoteAddr = addr
    BY <1>0 DEF Envelope
  <2> DEFINE both == [env EXCEPT !.remoteAddr = addr, !.helo = h, !.over = @ \cup {layers}]
  <2>3. both \in Envelope /\ both.remoteAddr = addr
    BY <1>0, <2>1, OverType DEF Envelope, Inv
  <2>4. PICK e : SetEnvelope(e) /\ e \in Envelope /\ e.remoteAddr = addr /\ peer' = addr
    BY <1>3, <2>2, <2>3 DEF XCLIENT, PROXY
  <2> QED
    BY <2>4, Written DEF EnvelopeTellsPeer
<1>4. ASSUME NEW a \in Addrs \cup {NoAddr}, NEW utf8 \in BOOLEAN, MAIL(a, utf8)
      PROVE  EnvelopeTellsPeer'
  <2> DEFINE e == [env EXCEPT !.mailFrom = a, !.utf8 = @ \/ utf8, !.over = @ \cup {layers}]
  <2>1. e \in Envelope /\ e.remoteAddr = env.remoteAddr
    BY <1>0, OverType DEF Envelope, Inv
  <2>2. SetEnvelope(e) /\ peer' = peer
    BY <1>4 DEF MAIL
  <2> HIDE DEF e
  <2> QED
    BY <1>0, <2>1, <2>2, Written DEF EnvelopeTellsPeer
<1>5. ASSUME NEW a \in Addrs, RCPT(a)
      PROVE  EnvelopeTellsPeer'
  <2> DEFINE e == [env EXCEPT !.rcptTo = Append(@, a), !.over = @ \cup {layers}]
  <2>0. env.rcptTo \in Seq(Addrs)
    BY <1>0 DEF Envelope
  <2>1. Append(env.rcptTo, a) \in Seq(Addrs)
    BY <2>0
  <2>2. e \in Envelope /\ e.remoteAddr = env.remoteAddr
    BY <1>0, <2>1, OverType DEF Envelope, Inv
  <2>3. SetEnvelope(e) /\ peer' = peer
    BY <1>5 DEF RCPT
  <2> HIDE DEF e
  <2> QED
    BY <1>0, <2>2, <2>3, Written DEF EnvelopeTellsPeer
<1>6. CASE RSET \/ \E h \in Hosts \cup {NoHost} : HELO(h) \/ EHLO(h)
  <2>1. PICK g \in Greetings : heap' = resetTransaction(heap, delivered, g)
    BY <1>6, SilentType, GreetedType DEF RSET, HELO, EHLO, Inv
  <2>2. peer' = peer
    BY <1>6 DEF RSET, HELO, EHLO
  <2> QED
    BY <1>0, <2>1, <2>2, DeliveredPoints, Renews DEF EnvelopeTellsPeer
<1>7. CASE Handshake
  <2> DEFINE e == [env EXCEPT !.tls = TRUE]
             h == [heap EXCEPT ![cur].tls = TRUE]
  <2>1. e \in Envelope /\ e.remoteAddr = env.remoteAddr
    BY <1>0 DEF Envelope
  <2>2. h = [heap EXCEPT ![Len(heap)] = e]
    BY DEF env, cur
  <2>3. heap' = resetTransaction(h, delivered, Silent) /\ peer' = peer
    BY <1>7 DEF Handshake
  <2> HIDE DEF e, h
  <2>4. h \in Seq(Envelope) /\ h # <<>> /\ Len(h) = Len(heap) /\ h[Len(h)] = e
    BY <2>1, <2>2, DeliveredPoints, WriteKeeps
  <2> QED
    BY <1>0, <2>1, <2>3, <2>4, DeliveredPoints, SilentType, Renews DEF EnvelopeTellsPeer
<1>8. ASSUME NEW class \in {2, 4, 5}, Body(class) PROVE EnvelopeTellsPeer'
  <2>1. Turn("Data") /\ peer' = peer /\ heap' = resetTransaction(Filled, delivered', Silent)
    BY <1>8 DEF Body, Handed
  <2>2. PICK b \in BOOLEAN : delivered' = Append(delivered, [ref |-> cur, accepted |-> b])
    BY <1>8 DEF Body, Handed
  <2>3. /\ delivered' \in Seq(Delivery)
        /\ \A i \in DOMAIN delivered' : delivered'[i].ref \in 1 .. Len(heap)
    BY <2>2, HandedType
  <2>4. /\ Filled \in Seq(Envelope) /\ Filled # <<>> /\ Len(Filled) = Len(heap)
        /\ Filled[Len(heap)] = FilledEnv
    BY <2>1, FilledHeap
  <2>5. FilledEnv.remoteAddr = env.remoteAddr
    BY <1>0 DEF FilledEnv, Envelope
  <2> QED
    BY <1>0, <2>1, <2>3, <2>4, <2>5, SilentType, Renews DEF EnvelopeTellsPeer
<1>9. CASE HandlerPanics
  <2>1. Turn("Data") /\ peer' = peer /\ heap' = Filled
    BY <1>9 DEF HandlerPanics, Handed
  <2>2. Len(Filled) = Len(heap) /\ Filled[Len(heap)] = FilledEnv
    BY <2>1, FilledHeap
  <2>3. FilledEnv.remoteAddr = env.remoteAddr
    BY <1>0 DEF FilledEnv, Envelope
  <2> QED
    BY <1>0, <2>1, <2>2, <2>3 DEF EnvelopeTellsPeer, env, cur
<1> QED
  BY <1>1, <1>2, <1>3, <1>4, <1>5, <1>6, <1>7, <1>8, <1>9 DEF Next, Quiet

\* The address XCLIENT or PROXY told last is in the current envelope
\* (server.go:394-434, connection.go:130).
THEOREM EnvelopesTellThePeer == Spec => []EnvelopeTellsPeer
BY PeerInit, PeerNext, InvInit, InvNext, PTL DEF Spec

---------------------------------------------------------------------------
(* Acknowledgements.                                                       *)

\* How many of the messages in d were accepted.
Accepted(d) == {i \in DOMAIN d : d[i].accepted}

LEMMA OneMore ==
    ASSUME NEW d \in Seq(Delivery), NEW x \in Delivery
    PROVE  /\ Cardinality(Accepted(d)) \in Nat
           /\ Cardinality(Accepted(Append(d, x)))
                = IF x.accepted THEN Cardinality(Accepted(d)) + 1 ELSE Cardinality(Accepted(d))
<1> DEFINE n == Len(d) + 1
<1>1. /\ Len(d) \in Nat /\ DOMAIN d = 1 .. Len(d) /\ DOMAIN Append(d, x) = 1 .. n
      /\ \A i \in 1 .. Len(d) : Append(d, x)[i] = d[i]
      /\ Append(d, x)[n] = x
  OBVIOUS
<1>2. IsFiniteSet(Accepted(d)) /\ n \notin Accepted(d)
  <2>1. IsFiniteSet(1 .. Len(d))
    BY <1>1, FS_Interval
  <2>2. Accepted(d) \subseteq 1 .. Len(d)
    BY <1>1 DEF Accepted
  <2> QED
    BY <1>1, <2>1, <2>2, FS_Subset
<1>3. Cardinality(Accepted(d)) \in Nat
  BY <1>2, FS_CardinalityType
<1>4. 1 .. n = (1 .. Len(d)) \cup {n} /\ n \notin 1 .. Len(d)
  BY <1>1
<1> HIDE DEF n
<1>5. CASE x.accepted
  <2>1. Accepted(Append(d, x)) = Accepted(d) \cup {n}
    BY <1>1, <1>4, <1>5, Zenon DEF Accepted
  <2> QED
    BY <1>2, <1>3, <1>5, <2>1, FS_AddElement
<1>6. CASE ~x.accepted
  <2>1. Accepted(Append(d, x)) = Accepted(d)
    BY <1>1, <1>4, <1>6, Zenon DEF Accepted
  <2> QED
    BY <1>3, <1>6, <2>1
<1> QED
  BY <1>3, <1>5, <1>6

LEMMA AcksInit == Init => AcksMatch
<1> SUFFICES ASSUME Init PROVE AcksMatch
  OBVIOUS
<1>1. {i \in DOMAIN delivered : delivered[i].accepted} = {}
  BY DEF Init
<1> QED
  BY <1>1, FS_EmptySet DEF Init, AcksMatch

\* Every step but the two that end in the handler.
LEMMA NoMessage ==
    ASSUME [Next]_vars, ~HandlerPanics, ~ \E class \in {2, 4, 5} : Body(class)
    PROVE  /\ UNCHANGED <<messagesSent, delivered, acks>>
           /\ bufErr' = bufErr \/ bufErr = "nil"
<1> USE DEF connVars, history
<1>1. CASE UNCHANGED vars
  BY <1>1 DEF vars
<1>2. CASE EnterPlain \/ EnterTLS \/ EnterTLSFails \/ LeaveLoop
  BY <1>2 DEF EnterPlain, EnterTLS, EnterTLSFails, LeaveLoop
<1>3. CASE Greeting \/ ReadFails \/ LineTooLong \/ ToldToStop \/ Shutdown \/ BodyFails
  BY <1>3 DEF Greeting, ReadFails, LineTooLong, ToldToStop, Shutdown, BodyFails, Turn
<1>4. CASE \/ \E h \in Hosts \cup {NoHost} : HELO(h) \/ EHLO(h)
           \/ Answered
           \/ \E addr \in Peers, h \in Hosts \cup {env.helo} : XCLIENT(addr, h)
           \/ \E addr \in Peers : PROXY(addr)
  BY <1>4 DEF HELO, EHLO, Answered, XCLIENT, PROXY, Command, Turn
<1>5. CASE \/ \E a \in Addrs \cup {NoAddr}, utf8 \in BOOLEAN : MAIL(a, utf8)
           \/ \E a \in Addrs : RCPT(a)
           \/ NestedMAIL \/ RefusedRCPT
  BY <1>5 DEF MAIL, RCPT, NestedMAIL, RefusedRCPT, Refused, Command, Turn
<1>6. CASE RSET \/ QUIT \/ DATA \/ STARTTLS \/ Unrecognized
  BY <1>6 DEF RSET, QUIT, DATA, STARTTLS, Unrecognized, Command, Turn
<1>7. CASE AlreadyTLS \/ Handshake \/ HandshakeFails
  BY <1>7 DEF AlreadyTLS, Handshake, HandshakeFails, Turn
<1> QED
  BY <1>1, <1>2, <1>3, <1>4, <1>5, <1>6, <1>7 DEF Next

LEMMA AcksNext == Inv /\ AcksMatch /\ [Next]_vars => AcksMatch'
<1> SUFFICES ASSUME Inv, AcksMatch, [Next]_vars PROVE AcksMatch'
  OBVIOUS
<1>0. /\ delivered \in Seq(Delivery) /\ messagesSent \in Nat /\ acks \in Nat
      /\ bufErr \in {"nil", "err"}
  BY DEF Inv, TypeOK
<1>1. /\ messagesSent = Cardinality(Accepted(delivered))
      /\ acks <= messagesSent /\ messagesSent <= acks + 1
      /\ messagesSent # acks => bufErr = "err"
  BY DEF AcksMatch, Accepted
<1>2. ASSUME NEW b \in BOOLEAN,
             delivered' = Append(delivered, [ref |-> cur, accepted |-> b])
      PROVE  Cardinality(Accepted(delivered')) = IF b THEN messagesSent + 1 ELSE messagesSent
  <2> DEFINE x == [ref |-> cur, accepted |-> b]
  <2>1. Len(heap) \in Nat
    BY EnvType DEF Inv
  <2>2. x \in Delivery /\ x.accepted = b
    BY <2>1 DEF Delivery, cur
  <2> HIDE DEF x
  <2>3. delivered' = Append(delivered, x)
    BY <1>2 DEF x
  <2> QED
    BY <1>0, <1>1, <2>2, <2>3, OneMore
<1>3. ASSUME NEW class \in {2, 4, 5}, Body(class) PROVE AcksMatch'
  <2>1. bufErr = "nil" /\ bufErr' \in {"nil", "err"}
    BY <1>3 DEF Body, Handed, Turn, sendResponse
  <2>2. messagesSent = acks
    BY <1>1, <2>1
  <2>3. CASE class = 2
    <3>1. Cardinality(Accepted(delivered')) = messagesSent + 1
      BY <1>2, <1>3, <2>3 DEF Body, Handed
    <3>2. /\ messagesSent' = messagesSent + 1
          /\ acks' = IF bufErr' = "nil" THEN acks + 1 ELSE acks
      BY <1>3, <2>3 DEF Body
    <3>3. /\ acks' <= messagesSent' /\ messagesSent' <= acks' + 1
          /\ messagesSent' # acks' => bufErr' = "err"
      BY ONLY <1>0, <2>1, <2>2, <3>2
    <3> QED
      BY ONLY <3>1, <3>2, <3>3 DEF AcksMatch, Accepted
  <2>4. CASE class # 2
    <3>1. Cardinality(Accepted(delivered')) = messagesSent
      BY <1>2, <1>3, <2>4 DEF Body, Handed
    <3>2. messagesSent' = messagesSent /\ acks' = acks
      BY <1>3, <2>4 DEF Body
    <3> QED
      BY <1>0, <2>2, <3>1, <3>2 DEF AcksMatch, Accepted
  <2> QED
    BY <2>3, <2>4
<1>4. CASE HandlerPanics
  <2>1. Cardinality(Accepted(delivered')) = messagesSent
    BY <1>2, <1>4 DEF HandlerPanics, Handed
  <2>2. messagesSent' = messagesSent /\ acks' = acks /\ bufErr' = bufErr
    BY <1>4 DEF HandlerPanics
  <2> QED
    BY <1>1, <2>1, <2>2 DEF AcksMatch, Accepted
<1>5. CASE ~HandlerPanics /\ ~ \E class \in {2, 4, 5} : Body(class)
  <2>1. UNCHANGED <<messagesSent, delivered, acks>> /\ (bufErr' = bufErr \/ bufErr = "nil")
    BY <1>5, NoMessage
  <2> QED
    BY <1>1, <2>1 DEF AcksMatch, Accepted
<1> QED
  BY <1>3, <1>4, <1>5

\* Acknowledged messages were accepted, and an accepted one without its
\* acknowledgement is the connection's last (server.go:590-609, 278).
THEOREM AcksAreMatched == Spec => []AcksMatch
BY AcksInit, AcksNext, InvInit, InvNext, PTL DEF Spec

---------------------------------------------------------------------------
(* The connection implements ConnLifecycle.                                *)

\* Before the loop the connection is where it is created.
Fresh == phase = "start" => state = "Greeting"

\* Where the connection is, seen from outside.
Place == CASE phase = "start" -> "Greeting"
           [] phase = "loop" -> state
           [] phase = "returned" -> "ended"

LifeStep == CL!Next \/ UNCHANGED CL!vars

Moved(from, to) == Place \in from /\ Place' \in to

LEMMA LifeMoves ==
    ASSUME closedListener' = closedListener,
           \/ Place' = Place
           \/ Moved({"Greeting", "StartTLS"}, {"Cmd"})
           \/ ~isShuttingDown /\ Moved({"Cmd"}, {"Data", "StartTLS"})
           \/ ~isShuttingDown /\ Moved({"Data"}, {"Cmd"})
           \/ isShuttingDown /\ Moved({"Cmd", "Data"}, {"Shutdown"})
           \/ Moved(CL!Serving, {"ended"})
    PROVE  LifeStep
BY DEF LifeStep, Moved, Place, isShuttingDown, CL!Next, CL!vars, CL!Accepted, CL!Greeted,
       CL!Began, CL!Secured, CL!Delivered, CL!TurnedAway, CL!Ended, CL!Move, CL!Serving

LEMMA LifeInit == Init => Fresh /\ CL!Init
BY DEF Init, Fresh, CL!Init

LEMMA LifeNext == Inv /\ Fresh /\ [Next]_vars => Fresh' /\ LifeStep
<1> SUFFICES ASSUME Inv, Fresh, [Next]_vars PROVE Fresh' /\ LifeStep
  OBVIOUS
<1>0. /\ phase \in {"start", "loop", "returned"}
      /\ state \in {"Greeting", "Cmd", "Data", "StartTLS", "Shutdown"}
  BY DEF Inv, TypeOK
<1>s. closedListener' = closedListener
  BY DEF Next, vars, EnterPlain, EnterTLS, EnterTLSFails, LeaveLoop, Greeting, ReadFails,
        LineTooLong, ToldToStop, HELO, EHLO, Answered, XCLIENT, PROXY, MAIL, RCPT,
        NestedMAIL, RefusedRCPT, Refused, RSET, QUIT, DATA, STARTTLS, Unrecognized,
        Command, BodyFails, Body, HandlerPanics, Handed, AlreadyTLS, Handshake,
        HandshakeFails, Shutdown, Turn
<1> USE <1>0 DEF Fresh, Place, Moved, CL!Serving
<1>1. CASE UNCHANGED vars \/ EnterPlain \/ EnterTLS
  <2>1. Place' = Place /\ Fresh'
    BY <1>1 DEF vars, EnterPlain, EnterTLS
  <2> QED
    BY <2>1, <1>s, LifeMoves
<1>2. CASE EnterTLSFails \/ LeaveLoop \/ ReadFails \/ LineTooLong \/ QUIT \/ HandlerPanics
  <2>1. Moved(CL!Serving, {"ended"}) /\ Fresh'
    BY <1>2 DEF EnterTLSFails, LeaveLoop, ReadFails, LineTooLong, QUIT, HandlerPanics,
          Handed, Command, Turn
  <2> QED
    BY <2>1, <1>s, LifeMoves
<1>3. CASE Greeting \/ AlreadyTLS \/ Handshake \/ HandshakeFails
  <2>1. Moved({"Greeting", "StartTLS"}, {"Cmd"}) /\ Fresh'
    BY <1>3 DEF Greeting, AlreadyTLS, Handshake, HandshakeFails, Turn
  <2> QED
    BY <2>1, <1>s, LifeMoves
<1>4. CASE ToldToStop
  <2>1. isShuttingDown /\ Moved({"Cmd", "Data"}, {"Shutdown"}) /\ Fresh'
    BY <1>4 DEF ToldToStop, Turn
  <2> QED
    BY <2>1, <1>s, LifeMoves
<1>5. CASE DATA \/ STARTTLS
  <2>1. /\ Place' = Place \/ (~isShuttingDown /\ Moved({"Cmd"}, {"Data", "StartTLS"}))
        /\ Fresh'
    BY <1>5 DEF DATA, STARTTLS, Command, Turn
  <2> QED
    BY <2>1, <1>s, LifeMoves
<1>6. CASE \E class \in {2, 4, 5} : Body(class)
  <2>1. /\ \/ ~isShuttingDown /\ Moved({"Data"}, {"Cmd"})
           \/ isShuttingDown /\ Moved({"Cmd", "Data"}, {"Shutdown"})
        /\ Fresh'
    BY <1>6 DEF Body, Handed, Turn
  <2> QED
    BY <2>1, <1>s, LifeMoves
<1>7. CASE \/ \E h \in Hosts \cup {NoHost} : HELO(h) \/ EHLO(h)
           \/ Answered
           \/ \E addr \in Peers, h \in Hosts \cup {env.helo} : XCLIENT(addr, h)
           \/ \E addr \in Peers : PROXY(addr)
  <2>1. Place' = Place /\ Fresh'
    BY <1>7 DEF HELO, EHLO, Answered, XCLIENT, PROXY, Command, Stays, Turn
  <2> QED
    BY <2>1, <1>s, LifeMoves
<1>8. CASE \/ \E a \in Addrs \cup {NoAddr}, utf8 \in BOOLEAN : MAIL(a, utf8)
           \/ \E a \in Addrs : RCPT(a)
           \/ NestedMAIL \/ RefusedRCPT \/ RSET
  <2>1. Place' = Place /\ Fresh'
    BY <1>8 DEF MAIL, RCPT, NestedMAIL, RefusedRCPT, Refused, RSET, Command, Stays, Turn
  <2> QED
    BY <2>1, <1>s, LifeMoves
<1>9. CASE Unrecognized \/ BodyFails \/ Shutdown
  <2>1. Place' = Place /\ Fresh'
    BY <1>9 DEF Unrecognized, Command, BodyFails, Shutdown, Turn
  <2> QED
    BY <2>1, <1>s, LifeMoves
<1> QED
  BY <1>1, <1>2, <1>3, <1>4, <1>5, <1>6, <1>7, <1>8, <1>9 DEF Next

\* The loop of handleConn goes through the states that ConnLifecycle promises,
\* whatever the client sends (server.go:277-644).
THEOREM SessionImplementsLifecycle == Spec => LifecycleImplemented
<1>1. Init => Inv
  BY InvInit
<1>2. Inv /\ [Next]_vars => Inv'
  BY InvNext
<1>3. Inv /\ Fresh /\ [Next]_vars => [CL!Next]_(CL!vars)
  BY LifeNext DEF LifeStep
<1>4. Inv /\ Fresh /\ [Next]_vars => Fresh'
  BY LifeNext
<1> QED
  BY <1>1, <1>2, <1>3, <1>4, LifeInit, PTL DEF Spec, LifecycleImplemented, CL!Spec

---------------------------------------------------------------------------
(* The connection implements Transaction.                                  *)

\* The transaction as Transaction sees it.
Sender == IF Gone THEN NoAddr ELSE env.mailFrom
Rcpts == IF Gone THEN <<>> ELSE env.rcptTo
Outbox == [i \in DOMAIN delivered |-> Mail(heap[delivered[i].ref])]

Mails == [sender : Addrs \cup {NoAddr}, rcpts : Seq(Addrs)]

TXStep == TX!Next \/ UNCHANGED TX!vars

\* A living connection holds an envelope that nobody was given.
LEMMA NotGone == Inv /\ phase # "returned" => ~Gone
BY DEF Inv, Owned, Gone, cur

LEMMA OutboxKept ==
    ASSUME Stable, delivered' = delivered PROVE Outbox' = Outbox
BY DEF Stable, Outbox, Mail

LEMMA TXStays ==
    ASSUME Sender' = Sender, Rcpts' = Rcpts, Outbox' = Outbox PROVE TXStep
BY DEF TXStep, TX!vars, Sender, Rcpts, Outbox

\* The current envelope is written to, but for its sender and recipients.
LEMMA TXWritten ==
    ASSUME Inv, Stable, phase # "returned", delivered' = delivered,
           NEW e \in Envelope, SetEnvelope(e),
           e.mailFrom = env.mailFrom, e.rcptTo = env.rcptTo
    PROVE  TXStep
<1>1. /\ heap \in Seq(Envelope) /\ heap # <<>>
      /\ Len(heap') = Len(heap)
  BY WriteKeeps DEF Inv, TypeOK, SetEnvelope, cur
<1>2. ~Gone /\ ~Gone'
  BY <1>1, NotGone DEF Gone, cur
<1>3. env' = e
  BY Written
<1> QED
  BY <1>2, <1>3, OutboxKept, TXStays DEF Sender, Rcpts

\* It is replaced, and nothing was handed over.
LEMMA TXGivenUp ==
    ASSUME Stable, delivered' = delivered,
           NEW h \in Seq(Envelope), h # <<>>, NEW g \in Greetings,
           env' = Renewed(h, g)
    PROVE  TXStep
<1>1. env'.mailFrom = NoAddr /\ env'.rcptTo = <<>>
  BY RenewedType
<1>2. Sender' = NoAddr /\ Rcpts' = <<>> /\ Outbox' = Outbox
  BY <1>1, OutboxKept DEF Sender, Rcpts
<1> QED
  BY <1>2 DEF TXStep, TX!Next, TX!GiveUp, TX!Empty, Sender, Rcpts, Outbox

LEMMA Appended ==
    ASSUME NEW S, NEW s \in Seq(S), NEW t \in Seq(S), NEW x \in S,
           Len(t) = Len(s) + 1, t[Len(t)] = x,
           \A i \in 1 .. Len(s) : t[i] = s[i]
    PROVE  t = Append(s, x)
OBVIOUS

OutboxTyped == Outbox \in Seq(Mails) /\ Len(Outbox) = Len(delivered)

LEMMA OutboxType == Inv => OutboxTyped
<1> SUFFICES ASSUME Inv PROVE OutboxTyped
  OBVIOUS
<1>1. ASSUME NEW i \in DOMAIN delivered
      PROVE  Mail(heap[delivered[i].ref]) \in Mails
  <2>1. heap[delivered[i].ref] \in Envelope
    BY DeliveredPoints
  <2> QED
    BY <2>1 DEF Mail, Mails, Envelope
<1>2. Len(delivered) \in Nat /\ DOMAIN delivered = 1 .. Len(delivered)
  BY DeliveredPoints
<1> QED
  BY <1>1, <1>2 DEF Outbox, OutboxTyped

\* It is handed over as it was.
LEMMA OutboxGrows ==
    ASSUME Inv, Inv', Stable, Turn("Data"), NEW b \in BOOLEAN,
           delivered' = Append(delivered, [ref |-> cur, accepted |-> b]),
           heap'[Len(heap)] = FilledEnv
    PROVE  Outbox' = Append(Outbox, [sender |-> Sender, rcpts |-> Rcpts])
<1> DEFINE x == [sender |-> Sender, rcpts |-> Rcpts]
<1>1. ~Gone
  BY NotGone DEF Turn
<1>2. x = Mail(FilledEnv) /\ x \in Mails
  <2>1. x = Mail(FilledEnv)
    BY <1>1, FilledIs DEF Sender, Rcpts, Mail
  <2>2. FilledEnv \in Envelope
    BY FilledIs
  <2> QED
    BY <2>1, <2>2 DEF Mail, Mails, Envelope
<1>3. /\ Len(delivered') = Len(delivered) + 1
      /\ delivered'[Len(delivered')].ref = Len(heap)
      /\ \A i \in DOMAIN delivered : i \in DOMAIN delivered' /\ delivered'[i] = delivered[i]
  BY HandedType
<1>4. /\ Outbox \in Seq(Mails) /\ Len(Outbox) = Len(delivered)
      /\ Outbox' \in Seq(Mails) /\ Len(Outbox') = Len(delivered')
  <2>1. Inv' => OutboxTyped'
    BY OutboxType, PTL
  <2> QED
    BY <2>1, OutboxType DEF OutboxTyped
<1>5. \A i \in 1 .. Len(Outbox) : Outbox'[i] = Outbox[i]
  BY <1>3, <1>4 DEF Outbox, Stable
<1>6. Outbox'[Len(Outbox')] = x
  <2>1. Len(delivered') \in DOMAIN delivered'
    BY DeliveredPoints, <1>3, <1>4
  <2> QED
    BY <2>1, <1>2, <1>3, <1>4 DEF Outbox
<1> HIDE DEF x
<1>7. Outbox' = Append(Outbox, x)
  BY <1>2, <1>3, <1>4, <1>5, <1>6, Appended
<1> QED
  BY <1>7 DEF x

LEMMA TXHandedOver ==
    ASSUME Inv, Inv', Stable, Turn("Data"), NEW b \in BOOLEAN,
           delivered' = Append(delivered, [ref |-> cur, accepted |-> b]),
           heap'[Len(heap)] = FilledEnv,
           Sender' = NoAddr, Rcpts' = <<>>
    PROVE  TXStep
<1>1. Outbox' = Append(Outbox, [sender |-> Sender, rcpts |-> Rcpts])
  BY OutboxGrows
<1>2. Rcpts # <<>>
  BY NotGone, FilledIs DEF Turn, Rcpts
<1>3. TX!HandOver
  BY <1>1, <1>2 DEF TX!HandOver, TX!Empty, Sender, Rcpts, Outbox
<1> QED
  BY <1>3 DEF TXStep, TX!Next

LEMMA TXInit == Init => TX!Init
<1> SUFFICES ASSUME Init PROVE TX!Init
  OBVIOUS
<1>1. delivered = <<>> /\ env = NewEnvelope(Client)
  BY DEF Init, env, cur
<1>2. Sender = NoAddr /\ Rcpts = <<>> /\ Outbox = <<>>
  BY <1>1 DEF Sender, Rcpts, Outbox, Gone, NewEnvelope
<1> QED
  BY <1>2 DEF TX!Init, Sender, Rcpts, Outbox

LEMMA TXNext == Inv /\ [Next]_vars => TXStep
<1> SUFFICES ASSUME Inv, [Next]_vars PROVE TXStep
  OBVIOUS
<1>0. /\ Inv' /\ Stable
      /\ env \in Envelope /\ env = heap[Len(heap)]
      /\ heap \in Seq(Envelope) /\ heap # <<>>
  BY InvNext, EnvType DEF Inv, TypeOK, env, cur
<1>1. CASE UNCHANGED vars \/ Quiet
  <2>1. heap' = heap /\ delivered' = delivered
    BY <1>1, QuietPlain DEF Inv, vars, history
  <2> QED
    BY <2>1, TXStays DEF Sender, Rcpts, Outbox, Gone, env, cur
<1>2. CASE EnterTLS
  <2> DEFINE e == [env EXCEPT !.tls = TRUE]
  <2>1. e \in Envelope /\ e.mailFrom = env.mailFrom /\ e.rcptTo = env.rcptTo
    BY <1>0 DEF Envelope
  <2>2. SetEnvelope(e) /\ phase # "returned" /\ delivered' = delivered
    BY <1>2 DEF EnterTLS, history
  <2> HIDE DEF e
  <2> QED
    BY <1>0, <2>1, <2>2, TXWritten
<1>3. CASE BodyFails
  <2>1. /\ FilledEnv \in Envelope
        /\ FilledEnv.mailFrom = env.mailFrom /\ FilledEnv.rcptTo = env.rcptTo
    BY <1>3, FilledIs DEF BodyFails
  <2>2. SetEnvelope(FilledEnv) /\ phase # "returned" /\ delivered' = delivered
    BY <1>3 DEF BodyFails, FilledEnv, history, Turn
  <2> QED
    BY <1>0, <2>1, <2>2, TXWritten
<1>4. ASSUME NEW addr \in Peers, NEW h \in Hosts \cup {env.helo}, XCLIENT(addr, h) \/ PROXY(addr)
      PROVE  TXStep
  <2> DEFINE told == [env EXCEPT !.remoteAddr = addr]
             both == [env EXCEPT !.remoteAddr = addr, !.helo = h, !.over = @ \cup {layers}]
  <2>1. env.helo \in Hosts \cup {NoHost} /\ env.over \cup {layers} \in SUBSET (0 .. MaxLayers)
    BY <1>0, OverType DEF Envelope, Inv
  <2>2. told \in Envelope /\ told.mailFrom = env.mailFrom /\ told.rcptTo = env.rcptTo
    BY <1>0 DEF Envelope
  <2>3. both \in Envelope /\ both.mailFrom = env.mailFrom /\ both.rcptTo = env.rcptTo
    BY <1>0, <2>1 DEF Envelope
  <2>4. PICK e \in Envelope : SetEnvelope(e) /\ e.mailFrom = env.mailFrom /\ e.rcptTo = env.rcptTo
    BY <1>4, <2>2, <2>3 DEF XCLIENT, PROXY
  <2>5. phase # "returned" /\ delivered' = delivered
    BY <1>4 DEF XCLIENT, PROXY, Command, Turn
  <2> QED
    BY <1>0, <2>4, <2>5, TXWritten
<1>5. ASSUME NEW a \in Addrs \cup {NoAddr}, NEW utf8 \in BOOLEAN, MAIL(a, utf8)
      PROVE  TXStep
  <2> DEFINE e == [env EXCEPT !.mailFrom = a, !.utf8 = @ \/ utf8, !.over = @ \cup {layers}]
  <2>1. e \in Envelope /\ e.mailFrom = a /\ e.rcptTo = env.rcptTo
    BY <1>0, OverType DEF Envelope, Inv
  <2>2. SetEnvelope(e) /\ phase # "returned" /\ delivered' = delivered
    BY <1>5 DEF MAIL, Command, Turn
  <2>3. env.mailFrom = NoAddr
    BY <1>5 DEF MAIL, isInTransaction
  <2> HIDE DEF e
  <2>4. CASE a = NoAddr
    BY <1>0, <2>1, <2>2, <2>3, <2>4, TXWritten
  <2>5. CASE a \in Addrs
    <3>1. env' = e /\ Len(heap') = Len(heap)
      BY <1>0, <2>1, <2>2, Written, WriteKeeps DEF SetEnvelope, cur
    <3>2. ~Gone /\ ~Gone'
      BY <2>2, <3>1, NotGone DEF Gone, cur
    <3>3. Sender = NoAddr /\ Sender' = a /\ Rcpts' = Rcpts /\ Outbox' = Outbox
      BY <1>0, <2>1, <2>2, <2>3, <3>1, <3>2, OutboxKept DEF Sender, Rcpts
    <3> QED
      BY <2>5, <3>3 DEF TXStep, TX!Next, TX!Begin, Sender, Rcpts, Outbox
  <2> QED
    BY <2>4, <2>5
<1>6. ASSUME NEW a \in Addrs, RCPT(a)
      PROVE  TXStep
  <2> DEFINE e == [env EXCEPT !.rcptTo = Append(@, a), !.over = @ \cup {layers}]
  <2>0. env.rcptTo \in Seq(Addrs) /\ Len(env.rcptTo) \in Nat
    BY <1>0 DEF Envelope
  <2>1. Append(env.rcptTo, a) \in Seq(Addrs)
    BY <2>0
  <2>2. e \in Envelope /\ e.mailFrom = env.mailFrom /\ e.rcptTo = Append(env.rcptTo, a)
    BY <1>0, <2>1, OverType DEF Envelope, Inv
  <2>3. SetEnvelope(e) /\ phase # "returned" /\ delivered' = delivered
    BY <1>6 DEF RCPT, Command, Turn
  <2>4. Len(env.rcptTo) < MaxRecipients + 1
    BY <1>6, <2>0, LimitAssumption DEF RCPT, TooManyRecipients
  <2> HIDE DEF e
  <2>5. env' = e /\ Len(heap') = Len(heap)
    BY <1>0, <2>2, <2>3, Written, WriteKeeps DEF SetEnvelope, cur
  <2>6. ~Gone /\ ~Gone'
    BY <2>3, <2>5, NotGone DEF Gone, cur
  <2>7. /\ Sender' = Sender /\ Rcpts' = Append(Rcpts, a) /\ Outbox' = Outbox
        /\ Len(Rcpts) < MaxRecipients + 1
    BY <1>0, <2>2, <2>3, <2>4, <2>5, <2>6, OutboxKept DEF Sender, Rcpts
  <2> QED
    BY <2>7 DEF TXStep, TX!Next, TX!AddRcpt, Sender, Rcpts, Outbox
<1>7. CASE RSET \/ \E h \in Hosts \cup {NoHost} : HELO(h) \/ EHLO(h)
  <2>1. PICK g \in Greetings : heap' = resetTransaction(heap, delivered, g)
    BY <1>7, SilentType, GreetedType DEF RSET, HELO, EHLO, Inv
  <2>2. delivered' = delivered
    BY <1>7 DEF RSET, HELO, EHLO, Command
  <2>3. env' = Renewed(heap, g)
    <3>1. Keeps(heap, delivered, g, heap')
      BY <2>1, DeliveredPoints, ResetKeeps
    <3> QED
      BY <3>1 DEF Keeps, env, cur
  <2> QED
    BY <1>0, <2>2, <2>3, TXGivenUp
<1>8. CASE Handshake
  <2> DEFINE e == [env EXCEPT !.tls = TRUE]
             h == [heap EXCEPT ![cur].tls = TRUE]
  <2>1. e \in Envelope
    BY <1>0 DEF Envelope
  <2>2. h = [heap EXCEPT ![Len(heap)] = e]
    BY DEF env, cur
  <2>3. heap' = resetTransaction(h, delivered, Silent) /\ delivered' = delivered
    BY <1>8 DEF Handshake
  <2> HIDE DEF e, h
  <2>4. h \in Seq(Envelope) /\ h # <<>> /\ Len(h) = Len(heap)
    BY <2>1, <2>2, DeliveredPoints, WriteKeeps
  <2>5. env' = Renewed(h, Silent)
    <3>1. Keeps(h, delivered, Silent, heap')
      BY <2>3, <2>4, DeliveredPoints, SilentType, ResetKeeps
    <3> QED
      BY <3>1 DEF Keeps, env, cur
  <2> QED
    BY <1>0, <2>3, <2>4, <2>5, SilentType, TXGivenUp
<1>9. ASSUME NEW class \in {2, 4, 5}, Body(class) PROVE TXStep
  <2>1. /\ Turn("Data") /\ state' # "Data" /\ phase' # "start"
        /\ heap' = resetTransaction(Filled, delivered', Silent)
    BY <1>9 DEF Body, Handed, Turn
  <2>2. PICK b \in BOOLEAN : delivered' = Append(delivered, [ref |-> cur, accepted |-> b])
    BY <1>9 DEF Body, Handed
  <2>3. Plain'
    BY <1>0 DEF Inv, TypeOK, Plain
  <2>4. heap'[Len(heap)] = FilledEnv /\ env' = Renewed(Filled, Silent)
    BY <2>1, <2>2, <2>3, BodyStep
  <2>5. env'.mailFrom = NoAddr /\ env'.rcptTo = <<>>
    BY <2>1, <2>4, FilledHeap, SilentType, RenewedType
  <2>6. Sender' = NoAddr /\ Rcpts' = <<>>
    BY <2>5 DEF Sender, Rcpts
  <2> QED
    BY <1>0, <2>1, <2>2, <2>4, <2>6, TXHandedOver
<1>10. CASE HandlerPanics
  <2>1. Turn("Data") /\ heap' = Filled
    BY <1>10 DEF HandlerPanics, Handed
  <2>2. delivered' = Append(delivered, [ref |-> cur, accepted |-> FALSE])
    BY <1>10 DEF HandlerPanics, Handed
  <2>3. Len(Filled) = Len(heap) /\ heap'[Len(heap)] = FilledEnv
    BY <2>1, FilledHeap
  <2>4. Gone'
    <3>1. /\ Len(delivered') = Len(delivered) + 1
          /\ delivered'[Len(delivered')].ref = Len(heap)
      BY <2>2, HandedType
    <3>2. Len(delivered') \in DOMAIN delivered'
      BY <3>1, <1>0, DeliveredPoints
    <3> QED
      BY <2>1, <2>3, <3>1, <3>2 DEF Gone, cur
  <2>5. Sender' = NoAddr /\ Rcpts' = <<>>
    BY <2>4 DEF Sender, Rcpts
  <2> QED
    BY <1>0, <2>1, <2>2, <2>3, <2>5, TXHandedOver
<1> QED
  BY <1>1, <1>2, <1>3, <1>4, <1>5, <1>6, <1>7, <1>8, <1>9, <1>10 DEF Next, Quiet

\* Mail is collected, given up as a whole, or handed over as a whole, once; and
\* what was handed over never changes (server.go:440-531, 588-609).
THEOREM SessionImplementsTransaction == Spec => TransactionImplemented
<1>1. Init => Inv
  BY InvInit
<1>2. Inv /\ [Next]_vars => Inv'
  BY InvNext
<1>3. Inv /\ [Next]_vars => [TX!Next]_(TX!vars)
  BY TXNext DEF TXStep
<1> QED
  BY <1>1, <1>2, <1>3, TXInit, PTL DEF Spec, TransactionImplemented, TX!Spec
=============================================================================
