--------------------------- MODULE PipelineProofs ---------------------------
(***************************************************************************)
(* Theorems about Pipeline: for any chain of middlewares, in any order, and *)
(* any number of recipients.                                               *)
(***************************************************************************)
EXTENDS Pipeline, FiniteSetTheorems, SequenceTheorems, TLAPS

---------------------------------------------------------------------------
(* The layers are the middlewares that are wrapped, in their order, and    *)
(* the handler behind them.                                                *)

Typed ==
    /\ chain \in Seq(Middlewares)
    /\ rest \in 0 .. Len(chain)
    /\ layers \in Seq(0 .. Len(chain))
    /\ entered \in Seq(0 .. Len(chain))

Layered ==
    /\ Len(layers) > 0 /\ layers[Len(layers)] = 0
    /\ \A k \in 1 .. Len(layers) - 1 : layers[k] > rest /\ chain[layers[k]].kind # "nil"
    /\ \A k, l \in 1 .. Len(layers) - 1 : k < l => layers[k] < layers[l]
    /\ \A m \in rest + 1 .. Len(chain) :
          chain[m].kind # "nil" => \E k \in 1 .. Len(layers) - 1 : layers[k] = m

\* The layers that have run are the first of all.
Running ==
    /\ Len(entered) <= Len(layers)
    /\ \A k \in 1 .. Len(entered) : entered[k] = layers[k]
    /\ phase = "compose" => entered = <<>> 
    /\ phase # "compose" => rest = 0 
    /\ phase = "in" => depth = Len(entered) + 1 /\ depth <= Len(layers)
    /\ phase # "in" => depth \in 0 .. Len(entered)

Ordered == Typed /\ Layered /\ Running

\* What the steps do to the layers: wrap, enter the next, or leave alone.
Enters ==
    /\ phase = "in"
    /\ entered' = Append(entered, Here)
    /\ UNCHANGED composed
    /\ \/ phase' = "in" /\ depth' = depth + 1 /\ Here # 0
       \/ phase' \in {"out", "panic"} /\ depth' = depth

Goes ==
    /\ phase # "in" /\ phase # "compose" /\ phase' # "in" /\ phase' # "compose"
    /\ UNCHANGED <<composed, entered>>
    /\ depth' \in {depth, depth - 1} /\ (depth = 0 => depth' = 0)

LEMMA Steps ==
    [Next]_vars => UNCHANGED vars \/ Wrap \/ Start \/ Enters \/ Goes
<1> SUFFICES ASSUME Next PROVE Wrap \/ Start \/ Enters \/ Goes
  OBVIOUS
<1> USE DEF composed, Enters
<1>1. CASE \/ Recover \/ AddReturnPath \/ AddDeliveredHeaders \/ AddReceivedHeaders
           \/ Logger \/ AddAuthenticationResult
  BY <1>1 DEF Recover, AddReturnPath, AddDeliveredHeaders, AddReceivedHeaders, Logger,
        AddAuthenticationResult, Entering, WithSender, CallNext, Panic
<1>2. CASE \/ FilterRecipientDomains \/ FilterRecipient \/ RecipientDomainsWhitelist
           \/ SenderDomainsWhitelist
  BY <1>2 DEF FilterRecipientDomains, FilterRecipient, RecipientDomainsWhitelist,
        SenderDomainsWhitelist, KeepRecipients, Entering, CallNext, Answer
<1>3. CASE Handle
  BY <1>3 DEF Handle, Panic, Answer
<1>4. CASE Leave \/ Respond \/ Unwind
  BY <1>4 DEF Leave, Respond, Unwind, Goes, envelope
<1> QED
  BY <1>1, <1>2, <1>3, <1>4 DEF Next

LEMMA OrderedInit == Init => Ordered
<1> SUFFICES ASSUME Init PROVE Ordered
  OBVIOUS
<1>1. chain \in Seq(Middlewares)
  BY DEF Init
<1>2. /\ rest = Len(chain) /\ layers = <<0>> /\ entered = <<>> /\ depth = 0
      /\ phase = "compose"
  BY DEF Init
<1> QED
  BY <1>1, <1>2 DEF Ordered, Typed, Layered, Running

\* A sequence with one element more in front.
Cons1(m, s) == <<m>> \o s

LEMMA Cons1Is ==
    ASSUME NEW S, NEW s \in Seq(S), NEW m \in S
    PROVE  /\ Cons1(m, s) \in Seq(S) /\ Len(Cons1(m, s)) = Len(s) + 1
           /\ Cons1(m, s)[1] = m
           /\ \A k \in 2 .. Len(s) + 1 : Cons1(m, s)[k] = s[k - 1]
BY DEF Cons1

LEMMA WrapOrdered == Ordered /\ Wrap => Ordered'
<1> SUFFICES ASSUME Ordered, Wrap PROVE Ordered'
  OBVIOUS
<1>0. /\ Len(chain) \in Nat /\ Len(layers) \in Nat /\ rest \in 1 .. Len(chain)
      /\ rest' = rest - 1 /\ chain' = chain /\ entered' = <<>> /\ entered = <<>>
      /\ phase = "compose" /\ phase' = phase /\ depth' = depth /\ depth = 0
      /\ layers \in Seq(0 .. Len(chain))
  BY DEF Ordered, Typed, Running, Wrap
<1>a. /\ Len(layers) > 0 /\ layers[Len(layers)] = 0
      /\ \A k \in 1 .. Len(layers) - 1 :
            layers[k] \in Int /\ layers[k] > rest /\ chain[layers[k]].kind # "nil"
      /\ \A k, l \in 1 .. Len(layers) - 1 : k < l => layers[k] < layers[l]
      /\ \A m \in rest + 1 .. Len(chain) :
            chain[m].kind # "nil" => \E k \in 1 .. Len(layers) - 1 : layers[k] = m
  <2>1. \A k \in 1 .. Len(layers) - 1 : layers[k] \in Int
    BY <1>0
  <2> QED
    BY <2>1 DEF Ordered, Layered
<1>1. CASE chain[rest].kind = "nil"
  <2>1. layers' = layers
    BY <1>1 DEF Wrap
  <2>2. Typed' /\ Running'
    BY <1>0, <2>1 DEF Ordered, Typed, Running
  <2>3. \A k \in 1 .. Len(layers) - 1 : layers[k] > rest'
    BY ONLY <1>0, <1>a
  <2>4. ASSUME NEW m \in rest' + 1 .. Len(chain), chain[m].kind # "nil"
        PROVE  \E k \in 1 .. Len(layers) - 1 : layers[k] = m
    <3>1. m \in rest + 1 .. Len(chain)
      BY <1>0, <1>1, <2>4
    <3> QED
      BY <1>a, <2>4, <3>1
  <2>5. Layered'
    BY <1>0, <1>a, <2>1, <2>3, <2>4 DEF Layered
  <2> QED
    BY <2>2, <2>5 DEF Ordered
<1>2. CASE chain[rest].kind # "nil"
  <2>0. layers' = Cons1(rest, layers)
    BY <1>2 DEF Wrap, Cons1
  <2>1. /\ layers' \in Seq(0 .. Len(chain)) /\ Len(layers') = Len(layers) + 1
        /\ layers'[1] = rest
        /\ \A k \in 2 .. Len(layers) + 1 : layers'[k] = layers[k - 1]
    <3> DEFINE S == 0 .. Len(chain)
    <3>1. rest \in S /\ layers \in Seq(S)
      BY <1>0
    <3> HIDE DEF S
    <3>2. /\ Cons1(rest, layers) \in Seq(S) /\ Len(Cons1(rest, layers)) = Len(layers) + 1
          /\ Cons1(rest, layers)[1] = rest
          /\ \A k \in 2 .. Len(layers) + 1 : Cons1(rest, layers)[k] = layers[k - 1]
      BY ONLY <3>1, Cons1Is
    <3> QED
      BY ONLY <2>0, <3>2 DEF S
  <2>2. Typed' /\ Running'
    BY <1>0, <2>1 DEF Ordered, Typed, Running
  <2>3. Layered'
    <3>0. \A k \in 1 .. Len(layers') - 1 :
             k = 1 \/ (k - 1 \in 1 .. Len(layers) - 1 /\ layers'[k] = layers[k - 1])
      BY ONLY <1>0, <2>1
    <3>1. Len(layers') > 0 /\ layers'[Len(layers')] = 0
      <4>1. Len(layers') \in 2 .. Len(layers) + 1 /\ Len(layers') - 1 = Len(layers)
        BY ONLY <1>0, <1>a, <2>1
      <4>2. layers'[Len(layers')] = layers[Len(layers)]
        BY ONLY <2>1, <4>1
      <4>3. Len(layers') > 0
        BY ONLY <4>1, <1>0
      <4> QED
        BY ONLY <1>a, <4>2, <4>3
    <3>2. ASSUME NEW k \in 1 .. Len(layers') - 1
          PROVE  layers'[k] > rest' /\ chain'[layers'[k]].kind # "nil"
      <4>1. CASE k = 1
        BY <1>0, <1>2, <2>1, <4>1
      <4>2. CASE k - 1 \in 1 .. Len(layers) - 1 /\ layers'[k] = layers[k - 1]
        <5>1. layers[k - 1] \in Int /\ layers[k - 1] > rest /\ chain[layers[k - 1]].kind # "nil"
          BY <1>a, <4>2
        <5>2. layers[k - 1] > rest'
          BY ONLY <5>1, <1>0
        <5> QED
          BY <1>0, <4>2, <5>1, <5>2
      <4> QED
        BY <3>0, <4>1, <4>2
    <3>3. ASSUME NEW k \in 1 .. Len(layers') - 1, NEW l \in 1 .. Len(layers') - 1, k < l
          PROVE  layers'[k] < layers'[l]
      <4>1. l - 1 \in 1 .. Len(layers) - 1 /\ layers'[l] = layers[l - 1]
        <5>1. l # 1
          BY <3>3
        <5> QED
          BY <3>0, <5>1
      <4>2. CASE k = 1
        <5>1. layers[l - 1] > rest
          BY <1>a, <4>1
        <5> QED
          BY <2>1, <4>1, <4>2, <5>1
      <4>3. CASE k - 1 \in 1 .. Len(layers) - 1 /\ layers'[k] = layers[k - 1]
        <5>1. k - 1 < l - 1
          BY <3>3
        <5> QED
          BY <1>a, <4>1, <4>3, <5>1
      <4> QED
        BY <3>0, <4>2, <4>3
    <3>4. ASSUME NEW m \in rest' + 1 .. Len(chain'), chain'[m].kind # "nil"
          PROVE  \E k \in 1 .. Len(layers') - 1 : layers'[k] = m
      <4>1. CASE m = rest
        <5>1. 1 \in 1 .. Len(layers') - 1
          BY <1>0, <1>a, <2>1
        <5> QED
          BY <2>1, <4>1, <5>1
      <4>2. CASE m # rest
        <5>0. m \in rest + 1 .. Len(chain) /\ chain[m].kind # "nil"
          BY <1>0, <3>4, <4>2
        <5>1. PICK k \in 1 .. Len(layers) - 1 : layers[k] = m
          BY <1>a, <5>0
        <5>2. /\ k + 1 \in 1 .. Len(layers') - 1 /\ k + 1 \in 2 .. Len(layers) + 1
              /\ (k + 1) - 1 = k
          BY ONLY <1>0, <2>1, k \in 1 .. Len(layers) - 1
        <5> QED
          BY <2>1, <5>1, <5>2
      <4> QED
        BY <4>1, <4>2
    <3> QED
      BY <3>1, <3>2, <3>3, <3>4 DEF Layered
  <2> QED
    BY <2>2, <2>3 DEF Ordered
<1> QED
  BY <1>1, <1>2

LEMMA EntersOrdered == Ordered /\ Enters => Ordered'
<1> SUFFICES ASSUME Ordered, Enters PROVE Ordered'
  OBVIOUS
<1>0. /\ Len(layers) \in Nat /\ Len(entered) \in Nat
      /\ chain' = chain /\ rest' = rest /\ layers' = layers
      /\ depth = Len(entered) + 1 /\ depth <= Len(layers) /\ rest = 0
      /\ entered \in Seq(0 .. Len(chain)) /\ layers \in Seq(0 .. Len(chain))
      /\ Here = layers[depth]
  BY DEF Ordered, Typed, Running, Enters, composed, Here
<1>1. Here \in 0 .. Len(chain)
  BY <1>0
<1>2. /\ entered' \in Seq(0 .. Len(chain)) /\ Len(entered') = Len(entered) + 1
      /\ entered'[Len(entered) + 1] = Here
      /\ \A k \in 1 .. Len(entered) : entered'[k] = entered[k]
  BY <1>0, <1>1 DEF Enters
<1>3. Typed' /\ Layered'
  BY <1>0, <1>2 DEF Ordered, Typed, Layered
<1>4. Running'
  <2>1. \A k \in 1 .. Len(entered') : entered'[k] = layers'[k]
    <3>1. \A k \in 1 .. Len(entered) : entered[k] = layers[k]
      BY DEF Ordered, Running
    <3>2. \A k \in 1 .. Len(entered') : k \in 1 .. Len(entered) \/ k = Len(entered) + 1
      BY ONLY <1>0, <1>2
    <3> QED
      BY <1>0, <1>2, <3>1, <3>2
  <2>2. phase' = "in" => depth' = Len(entered') + 1 /\ depth' <= Len(layers')
    BY <1>0, <1>2 DEF Enters, Ordered, Layered
  <2>3. phase' # "in" => depth' \in 0 .. Len(entered')
    BY <1>0, <1>2 DEF Enters
  <2>4. phase' # "compose"
    BY DEF Enters
  <2> QED
    BY <1>0, <1>2, <2>1, <2>2, <2>3, <2>4 DEF Running
<1> QED
  BY <1>3, <1>4 DEF Ordered

LEMMA OrderedNext == Ordered /\ [Next]_vars => Ordered'
<1> SUFFICES ASSUME Ordered, [Next]_vars PROVE Ordered'
  OBVIOUS
<1>1. CASE UNCHANGED vars
  BY <1>1 DEF vars, composed, Ordered, Typed, Layered, Running
<1>2. CASE Start
  <2>1. /\ chain' = chain /\ rest' = rest /\ layers' = layers /\ entered' = entered
        /\ rest = 0 /\ depth' = 1 /\ phase' = "in" /\ entered = <<>>
    BY <1>2 DEF Start, composed, Ordered, Running
  <2>2. Len(layers) \in Nat
    BY DEF Ordered, Typed
  <2> QED
    BY <2>1, <2>2 DEF Ordered, Typed, Layered, Running
<1>3. CASE Goes
  <2>1. /\ chain' = chain /\ rest' = rest /\ layers' = layers /\ entered' = entered
        /\ phase' # "in" /\ phase' # "compose" /\ rest = 0
    BY <1>3 DEF Goes, composed, Ordered, Running
  <2>2. depth \in 0 .. Len(entered) /\ Len(entered) \in Nat
    BY <1>3 DEF Goes, Ordered, Running, Typed
  <2>3. depth' \in 0 .. Len(entered)
    BY <1>3, <2>2 DEF Goes
  <2> QED
    BY <2>1, <2>3 DEF Ordered, Typed, Layered, Running
<1> QED
  BY <1>1, <1>2, <1>3, WrapOrdered, EntersOrdered, Steps

\* The handler is the last of the layers: when it has been called, all have run.
LEMMA AllEntered ==
    ASSUME Ordered
    PROVE  /\ HandlerCalled => Len(entered) = Len(layers) /\ rest = 0 /\ phase # "compose"
           /\ phase \in {"compose", "in"} => ~HandlerCalled
<1>0. /\ Len(layers) \in Nat /\ Len(entered) \in Nat /\ rest \in Nat
      /\ Len(entered) <= Len(layers) /\ DOMAIN entered = 1 .. Len(entered)
      /\ \A k \in 1 .. Len(entered) : entered[k] = layers[k]
      /\ \A k \in 1 .. Len(layers) - 1 : layers[k] > rest
  BY DEF Ordered, Typed, Layered, Running
<1>1. ASSUME HandlerCalled
      PROVE  Len(entered) = Len(layers) /\ Len(entered) > 0
  <2>1. PICK k \in 1 .. Len(entered) : entered[k] = 0
    BY <1>0, <1>1 DEF HandlerCalled, Range
  <2>2. ~(k \in 1 .. Len(layers) - 1)
    <3>1. ~(0 > rest)
      BY ONLY <1>0
    <3> QED
      BY <1>0, <2>1, <3>1
  <2> QED
    BY ONLY <1>0, <2>2, k \in 1 .. Len(entered)
<1>2. HandlerCalled => phase # "compose" /\ phase # "in"
  <2>1. phase = "compose" => Len(entered) = 0
    BY DEF Ordered, Running
  <2>2. phase = "in" => Len(entered) < Len(layers)
    BY <1>0 DEF Ordered, Running
  <2> QED
    BY <1>0, <1>1, <2>1, <2>2
<1> QED
  BY <1>1, <1>2 DEF Ordered, Running

---------------------------------------------------------------------------
(* Who the handler sees.                                                   *)

\* The recipients that the handler was called with, or would be.
Seen == IF HandlerCalled THEN handled ELSE rcpts

OnTheWay == phase \in {"compose", "in"} \/ HandlerCalled

Sifted ==
    /\ IsFiniteSet(rcpts)
    /\ \A x, y \in from : x = y
    /\ OnTheWay =>
          /\ Seen # {}
          /\ \A k \in 1 .. Len(entered) : entered[k] # 0 => LetsThrough(entered[k], Seen)

\* A field names the only recipient there is, or nobody.
Named ==
    /\ data \in Seq([by : 0 .. Len(chain), rcpt : SUBSET DOMAIN to])
    /\ rcpts \subseteq DOMAIN to
    /\ OnTheWay =>
          \A i \in DOMAIN data :
             data[i].rcpt # {} => data[i].rcpt = Seen /\ Cardinality(Seen) = 1

\* A layer that is no handler runs.
Sifts ==
    /\ phase = "in" /\ Here # 0 /\ phase' \in {"in", "out", "panic"}
    /\ entered' = Append(entered, Here)
    /\ UNCHANGED <<chain, to, from, handled>>
    /\ rcpts' \subseteq rcpts
    /\ phase' = "in" => rcpts' # {} /\ LetsThrough(Here, rcpts')

\* It adds a field or none.
Adds(R) == data' = Cons1(Piece(Here, R), data) /\ rcpts' = rcpts

Marks == data' = data \/ Adds({}) \/ Adds(OnlyRecipient)

\* Only filters hold anyone back.
LEMMA OthersLetThrough ==
    ASSUME NEW R, chain[Here].kind \notin Filters PROVE LetsThrough(Here, R)
BY DEF LetsThrough, Filters

LEMMA EnteringPlain ==
    ASSUME rcpts # {}, NEW kind \in Plain, Entering(kind),
           phase' \in {"in", "panic"}, UNCHANGED <<from, rcpts>>
    PROVE  Sifts
<1>1. chain[Here].kind \notin Filters
  BY DEF Entering, Plain, Filters
<1>2. LetsThrough(Here, rcpts)
  BY <1>1, OthersLetThrough
<1> QED
  BY <1>2 DEF Entering, Sifts, composed

LEMMA EnteringSifts ==
    ASSUME rcpts # {}, \A x, y \in from : x = y,
           \/ Recover \/ AddReturnPath \/ AddDeliveredHeaders \/ AddReceivedHeaders
           \/ Logger \/ AddAuthenticationResult
           \/ FilterRecipientDomains \/ FilterRecipient \/ RecipientDomainsWhitelist
           \/ SenderDomainsWhitelist
    PROVE  Sifts /\ Marks
<1> USE DEF Marks, Adds, Cons1
<1>1. CASE Recover
  <2>1. Entering("Recover") /\ phase' = phase /\ UNCHANGED <<from, rcpts, data>>
    BY <1>1 DEF Recover, CallNext
  <2> QED
    BY <2>1, EnteringPlain DEF Plain, Entering
<1>2. CASE AddReturnPath
  <2>1. Entering("ReturnPath") /\ phase' \in {phase, "panic"} /\ UNCHANGED <<from, rcpts>>
    BY <1>2 DEF AddReturnPath, WithSender, CallNext, Panic
  <2>2. Marks
    BY <1>2 DEF AddReturnPath, WithSender, PrependHeader
  <2> QED
    BY <2>1, <2>2, EnteringPlain DEF Plain, Entering
<1>3. CASE AddDeliveredHeaders
  <2>1. Entering("Delivered") /\ phase' = phase /\ UNCHANGED <<from, rcpts>>
    BY <1>3 DEF AddDeliveredHeaders, CallNext
  <2>2. Marks
    BY <1>3 DEF AddDeliveredHeaders, PrependHeader
  <2> QED
    BY <2>1, <2>2, EnteringPlain DEF Plain, Entering
<1>4. CASE AddReceivedHeaders
  <2>1. Entering("Received") /\ phase' = phase /\ UNCHANGED <<from, rcpts>>
    BY <1>4 DEF AddReceivedHeaders, CallNext
  <2>2. Marks
    BY <1>4 DEF AddReceivedHeaders, PrependHeader
  <2> QED
    BY <2>1, <2>2, EnteringPlain DEF Plain, Entering
<1>5. CASE Logger
  <2>1. /\ Entering("Logger") /\ phase' \in {phase, "panic"}
        /\ UNCHANGED <<from, rcpts, data>>
    BY <1>5 DEF Logger, WithSender, CallNext, Panic
  <2> QED
    BY <2>1, EnteringPlain DEF Plain, Entering
<1>6. CASE AddAuthenticationResult
  <2>1. Entering("AuthResults") /\ phase' \in {phase, "panic"} /\ UNCHANGED <<from, rcpts>>
    BY <1>6 DEF AddAuthenticationResult, WithSender, CallNext, Panic
  <2>2. Marks
    BY <1>6 DEF AddAuthenticationResult, WithSender, PrependHeader
  <2> QED
    BY <2>1, <2>2, EnteringPlain DEF Plain, Entering
<1>7. CASE FilterRecipientDomains
  <2>1. /\ Entering("FilterRecipientDomains") /\ UNCHANGED <<from, data>>
        /\ \/ allowed = {} /\ rcpts' = rcpts /\ phase' = phase
           \/ /\ rcpts' = AllowedRecipients
              /\ phase' = "out" \/ (phase' = phase /\ rcpts' # {})
    BY <1>7 DEF FilterRecipientDomains, KeepRecipients, CallNext, Answer
  <2> QED
    BY <2>1 DEF Sifts, Entering, composed, LetsThrough, allowed, AllowedRecipients
<1>8. CASE FilterRecipient
  <2>1. /\ Entering("FilterRecipient") /\ UNCHANGED <<from, data>>
        /\ rcpts' = AllowedRecipients
        /\ phase' = "out" \/ (phase' = phase /\ rcpts' # {})
    BY <1>8 DEF FilterRecipient, KeepRecipients, CallNext, Answer
  <2> QED
    BY <2>1 DEF Sifts, Entering, composed, LetsThrough, allowed, AllowedRecipients
<1>9. CASE RecipientDomainsWhitelist
  <2>1. /\ Entering("RecipientDomainsWhitelist") /\ UNCHANGED <<from, rcpts, data>>
        /\ phase' \in {phase, "out"}
    BY <1>9 DEF RecipientDomainsWhitelist, CallNext, Answer
  <2> QED
    BY <2>1 DEF Sifts, Entering, composed, LetsThrough
<1>10. CASE SenderDomainsWhitelist
  <2>1. /\ Entering("SenderDomainsWhitelist") /\ UNCHANGED <<from, rcpts, data>>
        /\ \/ phase' = phase /\ (allowed = {} \/ from \cap allowed # {})
           \/ phase' = "out"
    BY <1>10 DEF SenderDomainsWhitelist, CallNext, Answer
  <2>2. from \cap allowed # {} => from # {} /\ from \subseteq allowed
    OBVIOUS
  <2> QED
    BY <2>1, <2>2 DEF Sifts, Entering, composed, LetsThrough, allowed
<1> QED
  BY <1>1, <1>2, <1>3, <1>4, <1>5, <1>6, <1>7, <1>8, <1>9, <1>10

\* The steps that neither run a layer nor call the handler.
Between ==
    /\ UNCHANGED <<chain, from, to, rcpts, data, entered, handled>>
    /\ phase' \in {"compose", "in"} => phase \in {"compose", "in"}

LEMMA Kinds ==
    ASSUME rcpts # {} \/ phase # "in", \A x, y \in from : x = y, [Next]_vars
    PROVE  (Sifts /\ Marks) \/ Handle \/ Between
<1>1. CASE UNCHANGED vars \/ Wrap \/ Start
  BY <1>1 DEF vars, composed, envelope, Wrap, Start, Between
<1>2. CASE Leave \/ Respond \/ Unwind
  BY <1>2 DEF Leave, Respond, Unwind, composed, envelope, Between
<1>3. CASE \/ Recover \/ AddReturnPath \/ AddDeliveredHeaders \/ AddReceivedHeaders
           \/ Logger \/ AddAuthenticationResult
           \/ FilterRecipientDomains \/ FilterRecipient \/ RecipientDomainsWhitelist
           \/ SenderDomainsWhitelist
  <2>1. phase = "in"
    BY <1>3 DEF Recover, AddReturnPath, AddDeliveredHeaders, AddReceivedHeaders, Logger,
          AddAuthenticationResult, FilterRecipientDomains, FilterRecipient,
          RecipientDomainsWhitelist, SenderDomainsWhitelist, Entering
  <2> QED
    BY <1>3, <2>1, EnteringSifts
<1> QED
  BY <1>1, <1>2, <1>3 DEF Next

\* A filter that lets some through lets fewer through.
LEMMA FewerPass ==
    ASSUME NEW m, NEW Q, NEW R \in SUBSET Q, LetsThrough(m, Q) PROVE LetsThrough(m, R)
BY DEF LetsThrough

\* What the steps do to the handler's being called.
LEMMA Calls ==
    ASSUME Ordered
    PROVE  /\ Sifts => ~HandlerCalled /\ ~HandlerCalled'
           /\ Handle => ~HandlerCalled /\ HandlerCalled'
           /\ Between => HandlerCalled' = HandlerCalled
<1>0. entered \in Seq(0 .. Len(chain)) /\ Len(entered) \in Nat
  BY DEF Ordered, Typed
<1>1. ASSUME NEW x, entered' = Append(entered, x)
      PROVE  Range(entered') = Range(entered) \cup {x}
  <2>1. /\ DOMAIN entered = 1 .. Len(entered)
        /\ DOMAIN entered' = 1 .. Len(entered) + 1
        /\ \A k \in 1 .. Len(entered) : entered'[k] = entered[k]
        /\ entered'[Len(entered) + 1] = x
    BY ONLY <1>0, <1>1
  <2>2. DOMAIN entered' = DOMAIN entered \cup {Len(entered) + 1}
    BY ONLY <1>0, <2>1
  <2> QED
    BY ONLY <2>1, <2>2 DEF Range
<1>2. Sifts \/ Handle => ~HandlerCalled
  BY AllEntered DEF Sifts, Handle
<1>3. Sifts => ~HandlerCalled'
  <2> SUFFICES ASSUME Sifts PROVE ~HandlerCalled'
    OBVIOUS
  <2>1. entered' = Append(entered, Here) /\ Here # 0
    BY DEF Sifts
  <2> QED
    BY <1>1, <1>2, <2>1 DEF HandlerCalled
<1>4. Handle => HandlerCalled'
  <2> SUFFICES ASSUME Handle PROVE HandlerCalled'
    OBVIOUS
  <2>1. entered' = Append(entered, 0)
    BY DEF Handle
  <2> QED
    BY <1>1, <2>1 DEF HandlerCalled
<1>5. Between => HandlerCalled' = HandlerCalled
  BY DEF Between, HandlerCalled
<1> QED
  BY <1>2, <1>3, <1>4, <1>5

LEMMA SiftedInit == Init => Sifted
<1> SUFFICES ASSUME Init PROVE Sifted
  OBVIOUS
<1>1. PICK n \in 1 .. MaxRcpts : to \in [1 .. n -> Domains]
  BY DEF Init
<1>2. rcpts = 1 .. n /\ n \in Int /\ n >= 1
  BY <1>1, BoundsAssumption DEF Init
<1>3. IsFiniteSet(rcpts) /\ rcpts # {}
  <2>1. IsFiniteSet(1 .. n)
    BY <1>2, 1 \in Int, FS_Interval
  <2>2. 1 \in rcpts
    BY <1>2
  <2> QED
    BY <1>2, <2>1, <2>2
<1>4. entered = <<>> /\ ~HandlerCalled
  BY DEF Init, HandlerCalled, Range
<1>5. \A x, y \in from : x = y
  BY DEF Init
<1> QED
  BY <1>3, <1>4, <1>5 DEF Sifted, Seen

LEMMA SiftedNext == Ordered /\ Sifted /\ [Next]_vars => Sifted'
<1> SUFFICES ASSUME Ordered, Sifted, [Next]_vars PROVE Sifted'
  OBVIOUS
<1>0. entered \in Seq(0 .. Len(chain)) /\ Len(entered) \in Nat
  BY DEF Ordered, Typed
<1>1. CASE Sifts
  <2>1. ~HandlerCalled /\ ~HandlerCalled' /\ OnTheWay /\ Seen = rcpts /\ Seen' = rcpts'
    BY <1>1, Calls DEF Sifts, OnTheWay, Seen
  <2>2. IsFiniteSet(rcpts') /\ UNCHANGED <<chain, to, from>>
    BY <1>1, FS_Subset DEF Sifted, Sifts
  <2>3. ASSUME OnTheWay'
        PROVE  /\ Seen' # {}
               /\ (\A k \in 1 .. Len(entered) :
                      entered[k] # 0 => LetsThrough(entered[k], Seen))'
    <3>1. rcpts' # {} /\ LetsThrough(Here, rcpts') /\ rcpts' \subseteq rcpts
      BY <1>1, <2>1, <2>3 DEF Sifts, OnTheWay
    <3>2. \A k \in 1 .. Len(entered') :
             entered'[k] # 0 => LetsThrough(entered'[k], rcpts')
      <4> SUFFICES ASSUME NEW k \in 1 .. Len(entered'), entered'[k] # 0
                   PROVE  LetsThrough(entered'[k], rcpts')
        OBVIOUS
      <4>1. (k \in 1 .. Len(entered) /\ entered'[k] = entered[k]) \/ entered'[k] = Here
        BY <1>0, <1>1 DEF Sifts
      <4>2. CASE k \in 1 .. Len(entered) /\ entered'[k] = entered[k]
        <5>1. LetsThrough(entered[k], rcpts)
          BY <2>1, <4>2 DEF Sifted
        <5> QED
          BY <3>1, <4>2, <5>1, FewerPass
      <4> QED
        BY <3>1, <4>1, <4>2
    <3> QED
      BY <2>1, <2>2, <3>1, <3>2 DEF LetsThrough
  <2> QED
    BY <2>2, <2>3 DEF Sifted
<1>2. CASE Handle
  <2>1. /\ ~HandlerCalled /\ HandlerCalled' /\ OnTheWay
        /\ Seen = rcpts /\ Seen' = rcpts /\ UNCHANGED <<chain, to, from, rcpts>>
    BY <1>2, Calls DEF Handle, OnTheWay, Seen, composed, envelope
  <2>2. \A k \in 1 .. Len(entered') :
           entered'[k] # 0 => k \in 1 .. Len(entered) /\ entered'[k] = entered[k]
    BY <1>0, <1>2 DEF Handle
  <2> QED
    BY <2>1, <2>2 DEF Sifted, LetsThrough
<1>3. CASE Between
  <2>1. /\ UNCHANGED <<chain, from, to, rcpts, entered, Seen>>
        /\ OnTheWay' => OnTheWay
    BY <1>3, Calls DEF Between, OnTheWay, Seen
  <2> QED
    BY <2>1 DEF Sifted, LetsThrough
<1>4. rcpts # {} \/ phase # "in"
  BY AllEntered DEF Sifted, OnTheWay, Seen
<1> QED
  BY <1>1, <1>2, <1>3, <1>4, Kinds DEF Sifted

\* The handler is called with some recipients, and with none and from none that
\* a filter anywhere in the chain takes out (domains.go:17-95, email.go:10-28).
THEOREM FiltersHold == Spec => []HandlerSeesAllowed
<1>1. Ordered /\ Sifted => HandlerSeesAllowed
  <2> SUFFICES ASSUME Ordered, Sifted, HandlerCalled
               PROVE  handled # {} /\ \A m \in DOMAIN chain : LetsThrough(m, handled)
    BY DEF HandlerSeesAllowed
  <2>1. Seen = handled /\ OnTheWay
    BY DEF Seen, OnTheWay
  <2>2. ASSUME NEW m \in DOMAIN chain PROVE LetsThrough(m, handled)
    <3>1. CASE chain[m].kind = "nil"
      BY <3>1 DEF LetsThrough
    <3>2. CASE chain[m].kind # "nil"
      <4>1. m \in rest + 1 .. Len(chain) /\ m # 0
        BY AllEntered DEF Ordered, Typed
      <4>2. PICK k \in 1 .. Len(layers) - 1 : layers[k] = m
        BY <3>2, <4>1 DEF Ordered, Layered
      <4>3. k \in 1 .. Len(entered) /\ entered[k] = m
        BY <4>2, AllEntered DEF Ordered, Typed, Running
      <4> QED
        BY <2>1, <4>1, <4>3 DEF Sifted
    <3> QED
      BY <3>1, <3>2
  <2> QED
    BY <2>1, <2>2 DEF Sifted
<1> QED
  BY <1>1, OrderedInit, OrderedNext, SiftedInit, SiftedNext, PTL DEF Spec

---------------------------------------------------------------------------
(* What the fields name.                                                   *)

LEMMA NamedInit == Init => Named
<1> SUFFICES ASSUME Init PROVE Named
  OBVIOUS
<1>1. Len(chain) \in Nat /\ data = <<Body>> /\ rcpts = DOMAIN to
  BY DEF Init
<1>2. Body \in [by : 0 .. Len(chain), rcpt : SUBSET DOMAIN to] /\ Body.rcpt = {}
  BY <1>1 DEF Body, Piece
<1> QED
  BY <1>1, <1>2 DEF Named

\* A field that is added on the way.
LEMMA NamedAdded ==
    ASSUME Ordered, Named, NEW R \in SUBSET rcpts, phase = "in", Adds(R)
    PROVE  /\ data' \in Seq([by : 0 .. Len(chain), rcpt : SUBSET DOMAIN to])
           /\ Len(data') = Len(data) + 1 /\ data'[1] = Piece(Here, R)
           /\ \A i \in 2 .. Len(data) + 1 : data'[i] = data[i - 1]
<1> DEFINE S == [by : 0 .. Len(chain), rcpt : SUBSET DOMAIN to]
<1>1. Here \in 0 .. Len(chain)
  BY DEF Ordered, Typed, Running, Here
<1>2. Piece(Here, R) \in S
  BY <1>1 DEF Piece, Named
<1>3. data \in Seq(S) /\ data' = Cons1(Piece(Here, R), data)
  BY DEF Named, Adds
<1> HIDE DEF S
<1>4. PICK p \in S : p = Piece(Here, R)
  BY ONLY <1>2
<1>5. /\ Cons1(p, data) \in Seq(S) /\ Len(Cons1(p, data)) = Len(data) + 1
      /\ Cons1(p, data)[1] = p
      /\ \A i \in 2 .. Len(data) + 1 : Cons1(p, data)[i] = data[i - 1]
  <2>1. data \in Seq(S)
    BY ONLY <1>3
  <2>2. Cons1(p, data) \in Seq(S) /\ Len(Cons1(p, data)) = Len(data) + 1
    BY ONLY Cons1Is, <2>1
  <2>3. Cons1(p, data)[1] = p
    BY ONLY Cons1Is, <2>1
  <2>4. \A i \in 2 .. Len(data) + 1 : Cons1(p, data)[i] = data[i - 1]
    BY ONLY Cons1Is, <2>1
  <2> QED
    BY ONLY <2>2, <2>3, <2>4
<1>6. data' = Cons1(p, data)
  BY ONLY <1>3, <1>4
<1>7. data' \in Seq([by : 0 .. Len(chain), rcpt : SUBSET DOMAIN to])
  BY ONLY <1>5, <1>6 DEF S
<1> QED
  BY ONLY <1>4, <1>5, <1>6, <1>7

LEMMA NamedNext == Ordered /\ Sifted /\ Named /\ [Next]_vars => Named'
<1> SUFFICES ASSUME Ordered, Sifted, Named, [Next]_vars PROVE Named'
  OBVIOUS
<1>0. Len(data) \in Nat /\ DOMAIN data = 1 .. Len(data)
  BY DEF Named
<1>1. CASE Sifts /\ Marks
  <2>1. /\ ~HandlerCalled /\ ~HandlerCalled' /\ OnTheWay /\ Seen = rcpts /\ Seen' = rcpts'
        /\ UNCHANGED <<chain, to>> /\ rcpts' \subseteq rcpts /\ phase = "in"
    BY <1>1, Calls DEF Sifts, OnTheWay, Seen
  <2>2. \A i \in DOMAIN data :
           data[i].rcpt # {} => data[i].rcpt = rcpts /\ Cardinality(rcpts) = 1
    BY <2>1 DEF Named
  <2>3. OnTheWay' /\ Cardinality(rcpts) = 1 => rcpts' = rcpts
    <3> SUFFICES ASSUME OnTheWay', Cardinality(rcpts) = 1 PROVE rcpts' = rcpts
      OBVIOUS
    <3>1. PICK x : rcpts = {x}
      BY FS_Singleton DEF Sifted
    <3>2. rcpts' # {}
      BY <1>1, <2>1 DEF Sifts, OnTheWay
    <3> QED
      BY <2>1, <3>1, <3>2
  <2>4. CASE data' = data
    BY <2>1, <2>2, <2>3, <2>4 DEF Named
  <2>5. ASSUME NEW R \in {{}, OnlyRecipient}, Adds(R)
        PROVE  Named'
    <3>1. R \in SUBSET rcpts /\ (R # {} => R = rcpts /\ Cardinality(rcpts) = 1)
      BY DEF OnlyRecipient
    <3>2. /\ data' \in Seq([by : 0 .. Len(chain), rcpt : SUBSET DOMAIN to])
          /\ Len(data') = Len(data) + 1 /\ data'[1] = Piece(Here, R)
          /\ \A i \in 2 .. Len(data) + 1 : data'[i] = data[i - 1]
      BY <2>1, <2>5, <3>1, NamedAdded
    <3>3. rcpts' = rcpts
      BY <2>5 DEF Adds
    <3>4. ASSUME NEW i \in DOMAIN data', data'[i].rcpt # {}
          PROVE  data'[i].rcpt = rcpts /\ Cardinality(rcpts) = 1
      <4>1. i \in 1 .. Len(data) + 1
        BY <1>0, <3>2
      <4>2. CASE i = 1
        BY <3>1, <3>2, <3>4, <4>2 DEF Piece
      <4>3. CASE i # 1
        <5>1. i - 1 \in DOMAIN data /\ data'[i] = data[i - 1]
          BY <1>0, <3>2, <4>1, <4>3
        <5> QED
          BY <2>2, <3>4, <5>1
      <4> QED
        BY <4>2, <4>3
    <3> QED
      BY <2>1, <3>2, <3>3, <3>4 DEF Named
  <2> QED
    BY <1>1, <2>4, <2>5 DEF Marks
<1>2. CASE Handle
  <2>1. OnTheWay /\ Seen = rcpts /\ Seen' = rcpts /\ UNCHANGED <<chain, to, rcpts, data>>
    BY <1>2, Calls DEF Handle, OnTheWay, Seen, composed, envelope
  <2> QED
    BY <2>1 DEF Named
<1>3. CASE Between
  <2>1. /\ UNCHANGED <<chain, to, rcpts, data, Seen>>
        /\ OnTheWay' => OnTheWay
    BY <1>3, Calls DEF Between, OnTheWay, Seen
  <2> QED
    BY <2>1 DEF Named
<1>4. rcpts # {} \/ phase # "in"
  BY AllEntered DEF Sifted, OnTheWay, Seen
<1> QED
  BY <1>1, <1>2, <1>3, <1>4, Kinds DEF Sifted

\* A field that names a recipient names the one the handler is called for
\* (middleware.go:21, 46, domains.go:27-33).
THEOREM NamesAreHandled == Spec => []NamedRecipientIsHandled
<1>1. Named => NamedRecipientIsHandled
  BY DEF Named, NamedRecipientIsHandled, OnTheWay, Seen
<1> QED
  BY <1>1, OrderedInit, OrderedNext, SiftedInit, SiftedNext, NamedInit, NamedNext, PTL DEF Spec

---------------------------------------------------------------------------
(* The order of the fields.                                                *)

\* Every field comes from a layer that has run.
Stacked ==
    /\ NewestOnTop /\ Len(data) > 0
    /\ \A i \in DOMAIN data :
          data[i].by = 0 \/ \E k \in 1 .. Len(entered) : data[i].by = entered[k]

LEMMA StackedInit == Init => Stacked
<1> SUFFICES ASSUME Init PROVE Stacked
  OBVIOUS
<1>1. data = <<Body>> /\ Body.by = 0
  BY DEF Init, Body, Piece
<1> QED
  BY <1>1 DEF Stacked, NewestOnTop

LEMMA StackedNext == Ordered /\ Sifted /\ Named /\ Stacked /\ [Next]_vars => Stacked'
<1> SUFFICES ASSUME Ordered, Sifted, Named, Stacked, [Next]_vars PROVE Stacked'
  OBVIOUS
<1>0. /\ Len(data) \in Nat /\ DOMAIN data = 1 .. Len(data) /\ Len(data) > 0
      /\ entered \in Seq(0 .. Len(chain)) /\ Len(entered) \in Nat
      /\ \A i \in DOMAIN data : data[i].by \in 0 .. Len(chain)
  <2>1. data \in Seq([by : 0 .. Len(chain), rcpt : SUBSET DOMAIN to])
    BY DEF Named
  <2>2. Len(data) \in Nat /\ DOMAIN data = 1 .. Len(data)
    BY ONLY <2>1
  <2> DEFINE S == [by : 0 .. Len(chain), rcpt : SUBSET DOMAIN to]
  <2>3. \A i \in DOMAIN data : data[i] \in S
    <3> HIDE DEF S
    <3>1. data \in Seq(S)
      BY <2>1 DEF S
    <3> QED
      BY ONLY <3>1
  <2>4. entered \in Seq(0 .. Len(chain)) /\ Len(data) > 0
    BY DEF Ordered, Typed, Stacked
  <2>5. \A i \in DOMAIN data : data[i].by \in 0 .. Len(chain)
    BY ONLY <2>3
  <2> QED
    BY ONLY <2>2, <2>4, <2>5
<1>a. /\ \A i, j \in DOMAIN data : i < j => data[i].by > data[j].by
      /\ data[Len(data)] = Body
  BY DEF Stacked, NewestOnTop
<1>1. ASSUME NEW x, entered' = Append(entered, x)
      PROVE  /\ \A k \in 1 .. Len(entered) :
                   k \in 1 .. Len(entered') /\ entered'[k] = entered[k]
             /\ Len(entered) + 1 \in 1 .. Len(entered') /\ entered'[Len(entered) + 1] = x
  BY <1>0, <1>1
<1>2. CASE data' = data /\ (entered' = entered \/ \E x : entered' = Append(entered, x))
  <2>1. \A i \in DOMAIN data :
           data[i].by = 0 \/ \E k \in 1 .. Len(entered') : data[i].by = entered'[k]
    BY <1>1, <1>2 DEF Stacked
  <2> QED
    BY <1>0, <1>2, <1>a, <2>1 DEF Stacked, NewestOnTop
<1>3. ASSUME Sifts, NEW R \in {{}, OnlyRecipient}, Adds(R)
      PROVE  Stacked'
  <2>1. R \in SUBSET rcpts /\ phase = "in" /\ entered' = Append(entered, Here) /\ Here # 0
    BY <1>3 DEF OnlyRecipient, Sifts
  <2>2. /\ Len(data') = Len(data) + 1 /\ data'[1] = Piece(Here, R)
        /\ DOMAIN data' = 1 .. Len(data')
        /\ \A i \in 2 .. Len(data) + 1 : data'[i] = data[i - 1]
    BY <1>3, <2>1, NamedAdded
  <2>3. ASSUME NEW i \in DOMAIN data PROVE Here > data[i].by
    <3>1. depth = Len(entered) + 1 /\ depth <= Len(layers) /\ layers[depth] # 0
          /\ Len(layers) \in Nat /\ Here = layers[depth] /\ Here \in 0 .. Len(chain)
      BY <2>1 DEF Ordered, Typed, Running, Here
    <3>2. CASE data[i].by = 0
      <4>1. Here > 0
        BY ONLY <2>1, <3>1, Len(chain) \in Nat
      <4> QED
        BY <3>2, <4>1
    <3>3. ASSUME NEW k \in 1 .. Len(entered), data[i].by = entered[k]
          PROVE  Here > data[i].by
      <4>1. depth # Len(layers)
        BY <3>1 DEF Ordered, Layered
      <4>2. k \in 1 .. Len(layers) - 1 /\ depth \in 1 .. Len(layers) - 1 /\ k < depth
        BY ONLY <1>0, <3>1, <4>1, k \in 1 .. Len(entered)
      <4>3. layers[k] < layers[depth]
        BY <4>2 DEF Ordered, Layered
      <4>4. data[i].by = layers[k] /\ layers[k] \in Int
        BY <1>0, <3>3 DEF Ordered, Running
      <4> QED
        BY ONLY <3>1, <4>3, <4>4
    <3> QED
      BY <3>2, <3>3 DEF Stacked
  <2>4. data'[Len(data')] = Body
    <3>1. Len(data') \in 2 .. Len(data) + 1 /\ Len(data') - 1 = Len(data)
      BY ONLY <1>0, <2>2
    <3> QED
      BY <1>a, <2>2, <3>1
  <2>5. \A i \in DOMAIN data' :
           i = 1 \/ (i - 1 \in DOMAIN data /\ data'[i] = data[i - 1])
    BY ONLY <1>0, <2>2
  <2>6. ASSUME NEW i \in DOMAIN data', NEW j \in DOMAIN data', i < j
        PROVE  data'[i].by > data'[j].by
    <3>1. j - 1 \in DOMAIN data /\ data'[j] = data[j - 1]
      <4>1. j # 1
        BY <2>2, <2>6
      <4> QED
        BY <2>5, <4>1
    <3>2. CASE i = 1
      BY <2>2, <2>3, <3>1, <3>2 DEF Piece
    <3>3. CASE i - 1 \in DOMAIN data /\ data'[i] = data[i - 1]
      <4>1. i - 1 < j - 1
        BY <2>2, <2>6
      <4> QED
        BY <1>a, <3>1, <3>3, <4>1
    <3> QED
      BY <2>5, <3>2, <3>3
  <2>7. ASSUME NEW i \in DOMAIN data'
        PROVE  data'[i].by = 0 \/ \E k \in 1 .. Len(entered') : data'[i].by = entered'[k]
    <3>1. CASE i = 1
      BY <1>1, <2>1, <2>2, <3>1 DEF Piece
    <3>2. CASE i - 1 \in DOMAIN data /\ data'[i] = data[i - 1]
      BY <1>1, <2>1, <3>2 DEF Stacked
    <3> QED
      BY <2>5, <3>1, <3>2
  <2>8. Len(data') > 0
    BY ONLY <1>0, <2>2
  <2> QED
    BY <2>4, <2>6, <2>7, <2>8 DEF Stacked, NewestOnTop
<1>4. CASE Sifts /\ Marks
  BY <1>2, <1>3, <1>4 DEF Sifts, Marks
<1>5. CASE Handle \/ Between
  BY <1>2, <1>5 DEF Handle, Between, envelope
<1>6. rcpts # {} \/ phase # "in"
  BY AllEntered DEF Sifted, OnTheWay, Seen
<1> QED
  BY <1>4, <1>5, <1>6, Kinds DEF Sifted

\* Data is the fields that were added, the newest on top, and below them the
\* message as it came (envelope.go:84, server.go:581-589).
THEOREM FieldsAreStacked == Spec => []NewestOnTop
<1>1. Stacked => NewestOnTop
  BY DEF Stacked
<1> QED
  BY <1>1, OrderedInit, OrderedNext, SiftedInit, SiftedNext, NamedInit, NamedNext,
     StackedInit, StackedNext, PTL DEF Spec

---------------------------------------------------------------------------
(* What the client is told.                                                *)

Told ==
    /\ phase \in {"compose", "in", "panic"} => resp = "nil"
    /\ phase \in {"out", "done"} =>
          /\ resp = "success" => HandlerCalled
          /\ resp = "550" => ~HandlerCalled
          /\ resp = "nil" => HandlerCalled /\ phase = "out" /\ depth > 0

LEMMA ToldInit == Init => Told
BY DEF Init, Told

LEMMA ToldNext == Ordered /\ Sifted /\ Told /\ [Next]_vars => Told'
<1> SUFFICES ASSUME Ordered, Sifted, Told, [Next]_vars PROVE Told'
  OBVIOUS
<1>0. depth \in Nat /\ (phase = "in" => depth > 0)
  BY DEF Ordered, Typed, Running
<1>1. CASE UNCHANGED vars \/ Wrap \/ Start
  BY <1>1 DEF vars, Wrap, Start, Told, HandlerCalled
<1>2. CASE Leave
  BY <1>0, <1>2 DEF Leave, nil2success, Told, HandlerCalled
<1>3. CASE Respond \/ Unwind
  BY <1>3 DEF Respond, Unwind, Told, HandlerCalled
<1>4. CASE Handle
  BY <1>0, <1>4, Calls DEF Handle, Panic, Answer, Told
<1>5. CASE \/ Recover \/ AddReturnPath \/ AddDeliveredHeaders \/ AddReceivedHeaders
           \/ Logger \/ AddAuthenticationResult
  <2>1. phase = "in" /\ phase' \in {"in", "panic"} /\ resp' = resp
    BY <1>5 DEF Recover, AddReturnPath, AddDeliveredHeaders, AddReceivedHeaders, Logger,
          AddAuthenticationResult, Entering, WithSender, CallNext, Panic
  <2> QED
    BY <2>1 DEF Told
<1>6. CASE \/ FilterRecipientDomains \/ FilterRecipient \/ RecipientDomainsWhitelist
           \/ SenderDomainsWhitelist
  <2>1. /\ phase = "in"
        /\ (phase' = "in" /\ resp' = resp) \/ (phase' = "out" /\ resp' = "550")
    BY <1>6 DEF FilterRecipientDomains, FilterRecipient, RecipientDomainsWhitelist,
          SenderDomainsWhitelist, KeepRecipients, Entering, CallNext, Answer
  <2>2. rcpts # {} /\ \A x, y \in from : x = y
    BY <2>1, AllEntered DEF Sifted, OnTheWay, Seen
  <2>3. ~HandlerCalled'
    BY <1>6, <2>2, EnteringSifts, Calls
  <2> QED
    BY <2>1, <2>3 DEF Told
<1> QED
  BY <1>1, <1>2, <1>3, <1>4, <1>5, <1>6 DEF Next

\* A client is told that its message was accepted only if the handler got it,
\* and told that it was filtered only if it did not (server.go:569-595).
THEOREM AnswersAreTrue == Spec => []AcceptedIsHandled
<1>1. Told => AcceptedIsHandled
  BY DEF Told, AcceptedIsHandled
<1> QED
  BY <1>1, OrderedInit, OrderedNext, SiftedInit, SiftedNext, ToldInit, ToldNext, PTL DEF Spec

---------------------------------------------------------------------------
(* Panics.                                                                 *)

\* A panic has passed no Recover, and only Recover answers 500.
Passed ==
    /\ phase \in {"panic", "crashed"} =>
          \A k \in 1 .. Len(entered) :
             k >= depth /\ entered[k] # 0 => chain[entered[k]].kind # "Recover"
    /\ phase = "crashed" => depth = 0
    /\ phase \in {"compose", "in", "panic"} => resp = "nil"
    /\ resp = "500" <=> err = "recovered"

LEMMA PassedInit == Init => Passed
BY DEF Init, Passed

\* A layer that may panic.
LEMMA PassedEntering ==
    ASSUME Ordered, Passed, phase = "in", entered' = Append(entered, Here),
           Here # 0 => chain[Here].kind # "Recover",
           phase' = "panic", depth' = depth, UNCHANGED <<chain, err, resp>>
    PROVE  Passed'
<1>1. /\ Len(entered) \in Nat /\ entered \in Seq(0 .. Len(chain)) /\ depth = Len(entered) + 1
  BY DEF Ordered, Typed, Running
<1>2. \A k \in 1 .. Len(entered') : k >= depth => entered'[k] = Here
  BY <1>1
<1> QED
  BY <1>2 DEF Passed

LEMMA PassedUnwind == Ordered /\ Passed /\ Unwind => Passed'
<1> SUFFICES ASSUME Ordered, Passed, Unwind PROVE Passed'
  OBVIOUS
<1>0. /\ Len(entered) \in Nat /\ depth \in 0 .. Len(entered) /\ phase = "panic"
      /\ UNCHANGED <<chain, entered, layers>>
  BY DEF Ordered, Typed, Running, Unwind, composed
<1>1. CASE depth = 0
  BY <1>0, <1>1 DEF Unwind, Passed
<1>2. CASE depth # 0 /\ phase' = "out"
  BY <1>0, <1>2 DEF Unwind, Passed
<1>3. CASE depth # 0 /\ phase' # "out"
  <2>1. /\ depth' = depth - 1 /\ phase' = "panic" /\ UNCHANGED <<resp, err>>
        /\ depth > 1 => layers[depth - 1] = 0 \/ chain[layers[depth - 1]].kind # "Recover"
    BY <1>0, <1>3 DEF Unwind
  <2>2. ASSUME NEW k \in 1 .. Len(entered), k >= depth', entered[k] # 0
        PROVE  chain[entered[k]].kind # "Recover"
    <3>1. CASE k >= depth
      BY <1>0, <2>2, <3>1 DEF Passed
    <3>2. CASE ~(k >= depth)
      <4>1. k = depth - 1 /\ depth > 1
        BY ONLY <1>0, <2>1, <2>2, <3>2, k \in 1 .. Len(entered)
      <4>2. entered[k] = layers[k]
        BY DEF Ordered, Running
      <4> QED
        BY <2>1, <2>2, <4>1, <4>2
    <3> QED
      BY <3>1, <3>2
  <2> QED
    BY <1>0, <2>1, <2>2 DEF Passed
<1> QED
  BY <1>1, <1>2, <1>3

LEMMA PassedNext == Ordered /\ Passed /\ [Next]_vars => Passed'
<1> SUFFICES ASSUME Ordered, Passed, [Next]_vars PROVE Passed'
  OBVIOUS
<1>1. CASE UNCHANGED vars \/ Wrap \/ Start
  BY <1>1 DEF vars, composed, envelope, Wrap, Start, Passed
<1>2. CASE Leave \/ Respond
  BY <1>2 DEF Leave, Respond, nil2success, envelope, Passed
<1>3. CASE Recover \/ AddDeliveredHeaders \/ AddReceivedHeaders
  BY <1>3 DEF Recover, AddDeliveredHeaders, AddReceivedHeaders, Entering, CallNext, Passed
<1>4. CASE AddReturnPath \/ Logger \/ AddAuthenticationResult
  <2>1. /\ phase = "in" /\ entered' = Append(entered, Here) /\ UNCHANGED <<chain, err, resp>>
        /\ chain[Here].kind # "Recover"
        /\ phase' = "in" \/ (phase' = "panic" /\ depth' = depth)
    BY <1>4 DEF AddReturnPath, Logger, AddAuthenticationResult, Entering, composed, WithSender,
          CallNext, Panic
  <2>2. CASE phase' = "in"
    BY <2>1, <2>2 DEF Passed
  <2> QED
    BY <2>1, <2>2, PassedEntering
<1>5. CASE \/ FilterRecipientDomains \/ FilterRecipient \/ RecipientDomainsWhitelist
           \/ SenderDomainsWhitelist
  <2>1. /\ phase = "in" /\ UNCHANGED err
        /\ (phase' = "in" /\ resp' = resp) \/ (phase' = "out" /\ resp' = "550")
    BY <1>5 DEF FilterRecipientDomains, FilterRecipient, RecipientDomainsWhitelist,
          SenderDomainsWhitelist, KeepRecipients, Entering, CallNext, Answer
  <2> QED
    BY <2>1 DEF Passed
<1>6. CASE Handle
  <2>1. /\ phase = "in" /\ entered' = Append(entered, Here) /\ Here = 0
        /\ UNCHANGED <<chain, err>>
        /\ \/ phase' = "panic" /\ UNCHANGED <<depth, resp>>
           \/ phase' = "out" /\ resp' \in {"nil", "success", "failure"}
    BY <1>6 DEF Handle, composed, envelope, Panic, Answer
  <2>2. CASE phase' = "out"
    BY <2>1, <2>2 DEF Passed
  <2> QED
    BY <2>1, <2>2, PassedEntering
<1> QED
  BY <1>1, <1>2, <1>3, <1>4, <1>5, <1>6, PassedUnwind DEF Next

\* Recover stops every panic that begins further in, and the client gets a 500
\* (recover.go:10-22).
THEOREM PanicsAreContained == Spec => []RecoverContains
<1>1. Ordered /\ Passed => RecoverContains
  <2> SUFFICES ASSUME Ordered, Passed PROVE RecoverContains
    OBVIOUS
  <2>1. DOMAIN entered = 1 .. Len(entered) /\ Len(entered) \in Nat
    BY DEF Ordered, Typed
  <2>2. phase = "crashed" =>
           \A k \in 1 .. Len(entered) : entered[k] # 0 => chain[entered[k]].kind # "Recover"
    BY <2>1 DEF Passed
  <2> QED
    BY <2>1, <2>2 DEF RecoverContains, Range, Passed
<1> QED
  BY <1>1, OrderedInit, OrderedNext, PassedInit, PassedNext, PTL DEF Spec

=============================================================================
