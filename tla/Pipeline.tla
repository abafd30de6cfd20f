------------------------------ MODULE Pipeline ------------------------------
(***************************************************************************)
(* A message on its way through the middlewares to the handler, and the    *)
(* response on its way back (server.go:568-595, middleware/*.go).  A       *)
(* middleware is an index into the chain it was registered in, a recipient *)
(* its place in the RcptTo that the session hands over; of both there is   *)
(* the order they come in, of RcptTo later only who is left.               *)
(***************************************************************************)
EXTENDS Integers, Sequences, FiniteSets, Functions

CONSTANTS
    Domains,   \* of senders and recipients
    Allowed,   \* the sets of domains that filters are made with
    MaxChain,  \* bound: the middlewares registered
    MaxRcpts   \* bound: the recipients of a message

ASSUME AllowedAssumption == \A A \in Allowed : A \subseteq Domains
ASSUME BoundsAssumption == MaxChain \in Nat /\ MaxRcpts \in Nat \ {0}

Plain == {"nil", "Recover", "ReturnPath", "Delivered", "Received", "Logger",
          "AuthResults"}
Filters == {"FilterRecipientDomains", "RecipientDomainsWhitelist",
            "SenderDomainsWhitelist", "FilterRecipient"}

Middlewares == [kind : Plain, allowed : {{}}] \cup [kind : Filters, allowed : Allowed]

VARIABLES
    chain,    \* s.Middlewares
    rest,     \* how many of them are not wrapped yet
    layers,   \* the composed function: indices into chain, then 0, the handler
    depth,    \* the layer that is running, counted from outside
    phase,    \* "compose", "in", "out", "panic", "done" or "crashed"
    from,     \* MailFrom, a set with its domain, {} for nil
    to,       \* the domains of the recipients
    rcpts,    \* RcptTo
    data,     \* Data: a header field in each place, the message in the last
    err,      \* GetError: "nil" or "recovered"
    resp,     \* the response on its way out
    entered,  \* the layers that have run, in their order
    handled   \* the recipients the handler was called with, {} if it was not

composed == <<chain, rest, layers>>
envelope == <<from, to, rcpts, data, err>>
vars == <<composed, depth, phase, envelope, resp, entered, handled>>

\* A piece of the data was put there by a layer and may name a recipient.
Piece(m, R) == [by |-> m, rcpt |-> R]

Body == Piece(0, {})

\* A message as the session hands it over: with recipients, perhaps without
\* a sender, and with its text in one buffer.
Init ==
    /\ chain \in UNION {[1 .. n -> Middlewares] : n \in 0 .. MaxChain}
    /\ to \in UNION {[1 .. n -> Domains] : n \in 1 .. MaxRcpts}
    /\ rcpts = DOMAIN to
    /\ from \in {{}} \cup {{d} : d \in Domains}
    /\ data = <<Body>> /\ err = "nil"
    /\ rest = Len(chain) /\ layers = <<0>> /\ depth = 0 /\ phase = "compose"
    /\ resp = "nil" /\ entered = <<>> /\ handled = {}

---------------------------------------------------------------------------
(* The chain is wrapped around the handler from the last to the first.     *)

Wrap ==
    /\ phase = "compose" /\ rest > 0
    /\ layers' = IF chain[rest].kind = "nil" THEN layers ELSE <<rest>> \o layers
    /\ rest' = rest - 1
    /\ UNCHANGED <<chain, depth, phase, envelope, resp, entered, handled>>

Start ==
    /\ phase = "compose" /\ rest = 0
    /\ depth' = 1 /\ phase' = "in"
    /\ UNCHANGED <<composed, envelope, resp, entered, handled>>

---------------------------------------------------------------------------
(* On the way in.                                                          *)

Here == layers[depth]

Entering(kind) ==
    /\ phase = "in" /\ Here # 0 /\ chain[Here].kind = kind
    /\ entered' = Append(entered, Here)
    /\ UNCHANGED <<composed, to, err, handled>>

\* The layer calls the next one.
CallNext == depth' = depth + 1 /\ UNCHANGED <<phase, resp>>

\* The layer answers itself.
Answer(r) == phase' = "out" /\ resp' = r /\ UNCHANGED depth

\* A nil pointer is dereferenced, or the handler panics.
Panic == phase' = "panic" /\ UNCHANGED <<depth, resp>>

\* Mutant: the field goes to the end of the data.
PrependHeaderAtTail(R) == data' = data \o <<Piece(Here, R)>>

\* Envelope.PrependHeader and Data.head.
PrependHeader(R) == data' = <<Piece(Here, R)>> \o data

\* Middlewares that use MailFrom.Address.
WithSender(A) == IF from = {} THEN Panic /\ UNCHANGED data ELSE A

Recover ==
    /\ Entering("Recover")
    /\ CallNext
    /\ UNCHANGED <<from, rcpts, data>>

AddReturnPath ==
    /\ Entering("ReturnPath")
    /\ WithSender(PrependHeader({}) /\ CallNext)
    /\ UNCHANGED <<from, rcpts>>

\* The only recipient, if there is one only.
OnlyRecipient == IF Cardinality(rcpts) = 1 THEN rcpts ELSE {}

\* Mutant: the first of several recipients is named.
AddDeliveredHeadersFirst ==
    /\ Entering("Delivered")
    /\ PrependHeader({CHOOSE r \in rcpts : \A s \in rcpts : r <= s})
    /\ CallNext
    /\ UNCHANGED <<from, rcpts>>

AddDeliveredHeaders ==
    /\ Entering("Delivered")
    /\ IF OnlyRecipient # {} THEN PrependHeader(OnlyRecipient) ELSE UNCHANGED data
    /\ CallNext
    /\ UNCHANGED <<from, rcpts>>

AddReceivedHeaders ==
    /\ Entering("Received")
    /\ PrependHeader(OnlyRecipient)
    /\ CallNext
    /\ UNCHANGED <<from, rcpts>>

\* Its fields are computed before the next layer is called.
Logger ==
    /\ Entering("Logger")
    /\ WithSender(CallNext /\ UNCHANGED data)
    /\ UNCHANGED <<from, rcpts>>

\* spfCheck wants a sender; what the verdicts are is not looked at here.
AddAuthenticationResult ==
    /\ Entering("AuthResults")
    /\ WithSender(PrependHeader({}) /\ CallNext)
    /\ UNCHANGED <<from, rcpts>>

allowed == chain[Here].allowed

\* Mutant: the next layer is called with no recipients.
KeepRecipientsAnyway(keep) ==
    /\ rcpts' = keep
    /\ CallNext

\* What a filter leaves of the recipients is kept, and passed on if it is
\* something.
KeepRecipients(keep) ==
    /\ rcpts' = keep
    /\ IF keep # {} THEN CallNext ELSE Answer("550")

AllowedRecipients == {r \in rcpts : to[r] \in allowed}

FilterRecipientDomains ==
    /\ Entering("FilterRecipientDomains")
    /\ IF allowed = {}
       THEN CallNext /\ UNCHANGED rcpts
       ELSE KeepRecipients(AllowedRecipients)
    /\ UNCHANGED <<from, data>>

\* Here allowed stands for the addresses that include accepts.
FilterRecipient ==
    /\ Entering("FilterRecipient")
    /\ KeepRecipients(AllowedRecipients)
    /\ UNCHANGED <<from, data>>

\* Mutant: a refusal without a response.
RecipientDomainsWhitelistNil ==
    /\ Entering("RecipientDomainsWhitelist")
    /\ IF allowed = {} \/ AllowedRecipients # {} THEN CallNext ELSE Answer("nil")
    /\ UNCHANGED <<from, rcpts, data>>

RecipientDomainsWhitelist ==
    /\ Entering("RecipientDomainsWhitelist")
    /\ IF allowed = {} \/ AllowedRecipients # {} THEN CallNext ELSE Answer("550")
    /\ UNCHANGED <<from, rcpts, data>>

SenderDomainsWhitelist ==
    /\ Entering("SenderDomainsWhitelist")
    /\ IF allowed = {} \/ from \cap allowed # {} THEN CallNext ELSE Answer("550")
    /\ UNCHANGED <<from, rcpts, data>>

\* s.Handler.Data: any response, nil too, or a panic.
Handle ==
    /\ phase = "in" /\ Here = 0
    /\ entered' = Append(entered, 0)
    /\ handled' = rcpts
    /\ Panic \/ \E r \in {"nil", "success", "failure"} : Answer(r)
    /\ UNCHANGED <<composed, envelope>>

---------------------------------------------------------------------------
(* On the way out.                                                         *)

\* Every layer is wrapped in nil2success.
nil2success(r) == IF r = "nil" THEN "success" ELSE r

Leave ==
    /\ phase = "out" /\ depth # 0
    /\ resp' = nil2success(resp)
    /\ depth' = depth - 1
    /\ UNCHANGED <<composed, phase, envelope, entered, handled>>

\* The outermost layer has returned: the session gets the response.
Respond ==
    /\ phase = "out" /\ depth = 0
    /\ phase' = "done"
    /\ UNCHANGED <<composed, depth, envelope, resp, entered, handled>>

\* Mutant: a Recover catches its own panics and none of the next layer.
UnwindInside ==
    /\ phase = "panic"
    /\ IF depth = 0
       THEN phase' = "crashed" /\ UNCHANGED <<depth, err, resp>>
       ELSE /\ depth' = depth - 1
            /\ IF layers[depth] # 0 /\ chain[layers[depth]].kind = "Recover"
                  /\ depth = Len(entered)
               THEN phase' = "out" /\ resp' = "500" /\ err' = "recovered"
               ELSE UNCHANGED <<phase, resp, err>>
    /\ UNCHANGED <<composed, from, to, rcpts, data, entered, handled>>

\* A panic leaves the layer it is in, and ends the process outside of all.
Unwind ==
    /\ phase = "panic"
    /\ IF depth = 0
       THEN phase' = "crashed" /\ UNCHANGED <<depth, err, resp>>
       ELSE /\ depth' = depth - 1
            /\ IF depth > 1 /\ layers[depth - 1] # 0 /\ chain[layers[depth - 1]].kind = "Recover"
               THEN phase' = "out" /\ resp' = "500" /\ err' = "recovered"
               ELSE UNCHANGED <<phase, resp, err>>
    /\ UNCHANGED <<composed, from, to, rcpts, data, entered, handled>>

Next ==
    \/ Wrap \/ Start \/ Recover \/ AddReturnPath \/ AddDeliveredHeaders
    \/ AddReceivedHeaders \/ Logger \/ AddAuthenticationResult
    \/ FilterRecipientDomains \/ FilterRecipient \/ RecipientDomainsWhitelist
    \/ SenderDomainsWhitelist \/ Handle \/ Leave \/ Respond \/ Unwind

Spec == Init /\ [][Next]_vars

---------------------------------------------------------------------------
(* Properties.                                                             *)

HandlerCalled == 0 \in Range(entered)

\* The filter m, if it is one, lets the sender and the recipients R through.
LetsThrough(m, R) ==
    LET A == chain[m].allowed
        inside == \A r \in R : to[r] \in A
    IN  /\ chain[m].kind = "FilterRecipient" => inside
        /\ chain[m].kind = "FilterRecipientDomains" /\ A # {} => inside
        /\ chain[m].kind = "SenderDomainsWhitelist" /\ A # {} => from # {} /\ from \subseteq A

\* The handler is called with some recipients, and with none and from none that
\* a filter anywhere in the chain takes out, wherever it was registered
\* (domains.go:16, "will only contain emails with allowed domains").
HandlerSeesAllowed ==
    HandlerCalled => handled # {} /\ \A m \in DOMAIN chain : LetsThrough(m, handled)

\* A client is told that its message was accepted only if the handler got it,
\* and told that it was filtered only if the handler did not (server.go:569-595).
AcceptedIsHandled ==
    phase = "done" =>
       /\ resp = "success" => HandlerCalled
       /\ resp = "550" => ~HandlerCalled
       /\ resp # "nil"

\* Recover stops every panic that begins further in: the process ends only if
\* no Recover was entered before.  The client gets a 500, the envelope the error
\* (recover.go:10-22).
RecoverContains ==
    /\ phase = "crashed" => \A m \in Range(entered) \ {0} : chain[m].kind # "Recover"
    /\ resp = "500" <=> err = "recovered"

\* Data is the fields that were added, the newest on top, and below them the
\* message as it came (envelope.go:84, server.go:581-589).
NewestOnTop ==
    /\ \A i, j \in DOMAIN data : i < j => data[i].by > data[j].by
    /\ data[Len(data)] = Body

\* A field that names a recipient names the one the handler is called for,
\* though filters may run before and after the field was made
\* (middleware.go:21, 46, domains.go:27-33).
NamedRecipientIsHandled ==
    HandlerCalled =>
       \A i \in DOMAIN data :
          data[i].rcpt # {} => Cardinality(handled) = 1 /\ data[i].rcpt = handled
=============================================================================
