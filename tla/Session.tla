------------------------------ MODULE Session ------------------------------
(***************************************************************************)
(* One connection: Server.handleConn (server.go) with the connection it    *)
(* works on (connection.go) and the envelope it fills (envelope.go).  The  *)
(* client may send any command at any time and may leave at any time; any  *)
(* reply may fail to be written.  Each action is one turn of the loop.     *)
(***************************************************************************)
EXTENDS Naturals, Sequences, FiniteSets

CONSTANTS
    TLSMode,                 \* "off", "starttls" or "always": TLSConfig, TLSAlwaysOn
    XClientOn, ProxyOn,      \* Server.XClientOn, Server.ProxyOn
    MaxRecipients,           \* Server.MaxRecipients
    MaxUnrecognizedCommands, \* Server.MaxUnrecognizedCommands
    Addrs, NoAddr,           \* mail addresses, and the nil *mail.Address
    Hosts, NoHost,           \* arguments of HELO, and the empty string
    Peers, Client,           \* remote addresses, and the socket's own
    MaxMessages,             \* bound: bodies handed to the handler
    MaxErrors,               \* bound: conn.errors
    MaxLayers                \* bound: TLS handshakes that succeed

ASSUME SwitchAssumption == TLSMode \in {"off", "starttls", "always"}
                             /\ XClientOn \in BOOLEAN /\ ProxyOn \in BOOLEAN
ASSUME LimitAssumption == MaxRecipients \in Nat /\ MaxUnrecognizedCommands \in Nat \ {0}
ASSUME NilAssumption == NoAddr \notin Addrs /\ NoHost \notin Hosts /\ Client \in Peers
ASSUME BoundAssumption == MaxMessages \in Nat /\ MaxErrors \in Nat /\ MaxLayers \in Nat \ {0}

VARIABLES
    phase,          \* before the loop of handleConn, in it, after it
    state,          \* conn.state
    killedAt,       \* conn.KilledAt: "zero" or "set"
    bufErr,         \* conn.bufErr: "nil" or "err"
    errors,         \* conn.errors
    messagesSent,   \* conn.messagesSent
    extTLS,         \* the STARTTLS line of the EHLO reply: "" or "STARTTLS"
    layers,         \* TLS layers around conn.conn
    heap,           \* the envelopes still reachable; conn.Envelope is the last
    closedListener, \* Server.closedListener: "open" or "closed"
    delivered,      \* history: what the handler was given, and if it accepted
    acks,           \* history: 2xx replies to bodies that were written
    unrecognized,   \* history: commands the default case answered
    peer            \* history: the address XCLIENT or PROXY told last

connVars == <<killedAt, bufErr, errors, messagesSent, layers>>
history == <<delivered, acks, unrecognized, peer>>
vars == <<phase, state, connVars, extTLS, heap, closedListener, history>>

---------------------------------------------------------------------------
(* Envelopes.  The handler may keep the pointer it is given for ever, so a *)
(* delivered envelope stays reachable; any other is garbage once replaced. *)

Envelope ==
    [remoteAddr : Peers, helo : Hosts \cup {NoHost}, tls : BOOLEAN,
     utf8 : BOOLEAN, esmtp : BOOLEAN, mailFrom : Addrs \cup {NoAddr},
     rcptTo : Seq(Addrs), bodies : Nat,
     over : SUBSET (0 .. MaxLayers)]  \* history: the TLS layers around the socket
                                      \* when its name, mail and body were told

NewEnvelope(addr) ==
    [remoteAddr |-> addr, helo |-> NoHost, tls |-> FALSE, utf8 |-> FALSE,
     esmtp |-> FALSE, mailFrom |-> NoAddr, rcptTo |-> <<>>, bodies |-> 0,
     over |-> {}]

cur == Len(heap)

env == heap[cur]

SetEnvelope(e) == heap' = [heap EXCEPT ![cur] = e]

\* Mutant: conn.Envelope is emptied in place.
resetInPlace(h, handedOver, greeting) ==
    [h EXCEPT ![Len(h)] = [NewEnvelope(@.remoteAddr)
                             EXCEPT !.helo = greeting.helo, !.esmtp = greeting.esmtp,
                                    !.over = greeting.over]]

\* Mutant: the new envelope has the socket's address.
resetToSocket(h, handedOver, greeting) == Append(h, NewEnvelope(Client))

\* The envelopes after conn.Envelope, in h, was replaced: by a new one that
\* has only the remote address of the old.  `greeting' is what HELO and EHLO
\* then write into it.
resetTransaction(h, handedOver, greeting) ==
    LET last == Len(h)
        new == [NewEnvelope(h[last].remoteAddr)
                  EXCEPT !.helo = greeting.helo, !.esmtp = greeting.esmtp,
                         !.over = greeting.over]
    IN  IF \E i \in DOMAIN handedOver : handedOver[i].ref = last
        THEN Append(h, new)
        ELSE [h EXCEPT ![last] = new]

Silent == [helo |-> NoHost, esmtp |-> FALSE, over |-> {}]

isInTransaction == env.mailFrom # NoAddr

---------------------------------------------------------------------------

Delivery == [ref : Nat, accepted : BOOLEAN]

TypeOK ==
    /\ phase \in {"start", "loop", "returned"}
    /\ state \in {"Greeting", "Cmd", "Data", "StartTLS", "Shutdown"}
    /\ killedAt \in {"zero", "set"}
    /\ bufErr \in {"nil", "err"}
    /\ errors \in Nat /\ messagesSent \in Nat
    /\ extTLS \in {"", "STARTTLS"}
    /\ layers \in 0 .. MaxLayers
    /\ heap \in Seq(Envelope) /\ heap # <<>>
    /\ closedListener \in {"open", "closed"}
    /\ delivered \in Seq(Delivery)
    /\ acks \in Nat /\ unrecognized \in Nat
    /\ peer \in Peers

\* The channel is closed before a connection is served, in a server started
\* again, or after its last connection is gone: never in between (Server).
Init ==
    /\ phase = "start" /\ state = "Greeting"
    /\ killedAt = "zero" /\ bufErr = "nil"
    /\ errors = 0 /\ messagesSent = 0
    /\ extTLS = "STARTTLS" /\ layers = 0
    /\ heap = <<NewEnvelope(Client)>>
    /\ closedListener \in {"open", "closed"}
    /\ delivered = <<>> /\ acks = 0 /\ unrecognized = 0
    /\ peer = Client

isShuttingDown == closedListener = "closed"

isAlive == killedAt = "zero"

kill == killedAt' = "set"

\* sendResponse: clears bufErr, writes, and keeps the error of the write.
sendResponse == bufErr' \in {"nil", "err"}

upgradeTLS == layers < MaxLayers /\ layers' = layers + 1

---------------------------------------------------------------------------
(* Before the loop.                                                        *)

EnterPlain ==
    /\ phase = "start"
    /\ TLSMode # "always"
    /\ phase' = "loop"
    /\ extTLS' = IF TLSMode = "off" THEN "" ELSE extTLS
    /\ UNCHANGED <<state, connVars, heap, closedListener, history>>

EnterTLS ==
    /\ phase = "start"
    /\ TLSMode = "always"
    /\ upgradeTLS
    /\ SetEnvelope([env EXCEPT !.tls = TRUE])
    /\ phase' = "loop"
    /\ extTLS' = ""
    /\ UNCHANGED <<state, killedAt, bufErr, errors, messagesSent, closedListener, history>>

EnterTLSFails ==
    /\ phase = "start"
    /\ TLSMode = "always"
    /\ kill
    /\ phase' = "returned"
    /\ UNCHANGED <<state, bufErr, errors, messagesSent, layers, extTLS, heap,
                   closedListener, history>>

---------------------------------------------------------------------------
(* A turn of the loop.                                                     *)

Turn(s) ==
    /\ phase = "loop" /\ isAlive /\ bufErr = "nil"
    /\ state = s
    /\ UNCHANGED closedListener

\* The loop's condition fails, or the last reply could not be written.
LeaveLoop ==
    /\ phase = "loop"
    /\ ~isAlive \/ bufErr = "err"
    /\ phase' = "returned"
    /\ UNCHANGED <<state, connVars, extTLS, heap, closedListener, history>>

Greeting ==
    /\ Turn("Greeting")
    /\ sendResponse
    /\ state' = "Cmd"
    /\ UNCHANGED <<phase, killedAt, errors, messagesSent, layers, extTLS, heap, history>>

\* The client is gone, or the read fails for another reason.
ReadFails ==
    /\ Turn("Cmd")
    /\ killedAt' \in {killedAt, "set"}
    /\ phase' = "returned"
    /\ UNCHANGED <<state, bufErr, errors, messagesSent, layers, extTLS, heap, history>>

LineTooLong ==
    /\ Turn("Cmd")
    /\ sendResponse
    /\ kill
    /\ phase' = "returned"
    /\ UNCHANGED <<state, errors, messagesSent, layers, extTLS, heap, history>>

ToldToStop ==
    /\ Turn("Cmd")
    /\ isShuttingDown
    /\ state' = "Shutdown"
    /\ UNCHANGED <<phase, connVars, extTLS, heap, history>>

---------------------------------------------------------------------------
(* The commands.  Every one is answered once.                              *)

\* Mutant: the channel is not looked at.
CommandAnyway ==
    /\ Turn("Cmd")
    /\ sendResponse
    /\ UNCHANGED <<layers, extTLS, messagesSent, delivered, acks>>

Command ==
    /\ Turn("Cmd")
    /\ ~isShuttingDown
    /\ sendResponse
    /\ UNCHANGED <<layers, extTLS, messagesSent, delivered, acks>>

\* A command after which the loop goes on in the same state.
Stays == UNCHANGED <<phase, state, killedAt>>

Error == errors < MaxErrors /\ errors' = errors + 1

HELO(h) ==
    /\ Command /\ Stays
    /\ heap' = resetTransaction(heap, delivered, [helo |-> h, esmtp |-> FALSE, over |-> {layers}])
    /\ UNCHANGED <<errors, unrecognized, peer>>

EHLO(h) ==
    /\ Command /\ Stays
    /\ heap' = resetTransaction(heap, delivered, [helo |-> h, esmtp |-> TRUE, over |-> {layers}])
    /\ UNCHANGED <<errors, unrecognized, peer>>

\* HELP, VRFY and NOOP only answer, and PROXY when its parts do not count up.
Answered ==
    /\ Command /\ Stays
    /\ UNCHANGED <<errors, heap, unrecognized, peer>>

\* ADDR and HELO are each given or not.
XCLIENT(addr, h) ==
    /\ XClientOn
    /\ Command /\ Stays
    /\ SetEnvelope([env EXCEPT !.remoteAddr = addr, !.helo = h, !.over = @ \cup {layers}])
    /\ peer' = addr
    /\ UNCHANGED <<errors, unrecognized>>

PROXY(addr) ==
    /\ ProxyOn
    /\ Command /\ Stays
    /\ SetEnvelope([env EXCEPT !.remoteAddr = addr])
    /\ peer' = addr
    /\ UNCHANGED <<errors, unrecognized>>

\* Mutant: a second MAIL replaces the sender.
MAILAgain(a, utf8) ==
    /\ Command /\ Stays
    /\ SetEnvelope([env EXCEPT !.mailFrom = a, !.utf8 = @ \/ utf8, !.over = @ \cup {layers}])
    /\ IF a = NoAddr THEN Error ELSE UNCHANGED errors
    /\ UNCHANGED <<unrecognized, peer>>

\* `utf8': the address is followed by exactly SMTPUTF8.  NoAddr stands for an
\* address that does not parse; the flag is set before that is known.
MAIL(a, utf8) ==
    /\ Command /\ Stays
    /\ ~isInTransaction
    /\ SetEnvelope([env EXCEPT !.mailFrom = a, !.utf8 = @ \/ utf8, !.over = @ \cup {layers}])
    /\ IF a = NoAddr THEN Error ELSE UNCHANGED errors
    /\ UNCHANGED <<unrecognized, peer>>

\* A second sender, one recipient too many, or one that does not parse.
Refused ==
    /\ Command /\ Stays
    /\ Error
    /\ UNCHANGED <<heap, unrecognized, peer>>

NestedMAIL == isInTransaction /\ Refused

TooManyRecipients == Len(env.rcptTo) > MaxRecipients

RCPT(a) ==
    /\ Command /\ Stays
    /\ ~TooManyRecipients
    /\ SetEnvelope([env EXCEPT !.rcptTo = Append(@, a), !.over = @ \cup {layers}])
    /\ UNCHANGED <<errors, unrecognized, peer>>

RefusedRCPT == Refused

RSET ==
    /\ Command /\ Stays
    /\ heap' = resetTransaction(heap, delivered, Silent)
    /\ UNCHANGED <<errors, unrecognized, peer>>

QUIT ==
    /\ Command
    /\ kill
    /\ phase' = "returned"
    /\ UNCHANGED <<state, errors, heap, unrecognized, peer>>

\* Mutant: DATA asks for nothing.
DATAUnchecked ==
    /\ Command
    /\ state' = "Data"
    /\ UNCHANGED <<phase, killedAt, errors, heap, unrecognized, peer>>

\* Without a recipient the state does not change; a sender is not asked for.
DATA ==
    /\ Command
    /\ state' = IF env.rcptTo = <<>> THEN "Cmd" ELSE "Data"
    /\ UNCHANGED <<phase, killedAt, errors, heap, unrecognized, peer>>

STARTTLS ==
    /\ Command
    /\ state' = IF TLSMode = "off" THEN "Cmd" ELSE "StartTLS"
    /\ UNCHANGED <<phase, killedAt, errors, heap, unrecognized, peer>>

\* Mutant: one more than the limit.
UnrecognizedOneMore ==
    /\ Command
    /\ Error
    /\ IF errors' > MaxUnrecognizedCommands THEN kill ELSE UNCHANGED killedAt
    /\ unrecognized' = unrecognized + 1
    /\ UNCHANGED <<phase, state, heap, peer>>

\* Also XCLIENT and PROXY when they are off.
Unrecognized ==
    /\ Command
    /\ Error
    /\ IF errors' >= MaxUnrecognizedCommands THEN kill ELSE UNCHANGED killedAt
    /\ unrecognized' = unrecognized + 1
    /\ UNCHANGED <<phase, state, heap, peer>>

---------------------------------------------------------------------------
(* The body, the handshake, the end.                                       *)

\* The body cannot be read, or is too long.
BodyFails ==
    /\ Turn("Data")
    /\ SetEnvelope([env EXCEPT !.bodies = @ + 1, !.over = @ \cup {layers}])
    /\ sendResponse
    /\ kill
    /\ UNCHANGED <<phase, state, errors, messagesSent, layers, extTLS, history>>

\* The handler chain is given the envelope with its body.
Handed(ok) ==
    /\ Turn("Data")
    /\ Len(delivered) < MaxMessages
    /\ delivered' = Append(delivered, [ref |-> cur, accepted |-> ok])
    /\ UNCHANGED <<killedAt, layers, extTLS, unrecognized, peer>>

Filled == [heap EXCEPT ![cur].bodies = @ + 1, ![cur].over = @ \cup {layers}]

\* Mutant: a message counts as sent whatever the handler answers.
BodyCountsAll(class) ==
    /\ Handed(class = 2)
    /\ messagesSent' = messagesSent + 1 /\ UNCHANGED errors
    /\ sendResponse
    /\ acks' = IF class = 2 /\ bufErr' = "nil" THEN acks + 1 ELSE acks
    /\ state' = IF isShuttingDown THEN "Shutdown" ELSE "Cmd"
    /\ heap' = resetTransaction(Filled, delivered', Silent)
    /\ UNCHANGED phase

\* It answers `class'; the connection gets a new envelope whatever the answer.
Body(class) ==
    /\ Handed(class = 2)
    /\ IF class = 2 THEN messagesSent' = messagesSent + 1 /\ UNCHANGED errors
                    ELSE UNCHANGED messagesSent /\ Error
    /\ sendResponse
    /\ acks' = IF class = 2 /\ bufErr' = "nil" THEN acks + 1 ELSE acks
    /\ state' = IF isShuttingDown THEN "Shutdown" ELSE "Cmd"
    /\ heap' = resetTransaction(Filled, delivered', Silent)
    /\ UNCHANGED phase

\* It panics with no Recover around it.
HandlerPanics ==
    /\ Handed(FALSE)
    /\ heap' = Filled
    /\ phase' = "returned"
    /\ UNCHANGED <<state, bufErr, errors, messagesSent, acks>>

\* conn.TLS is the flag of the current envelope.  (The other test of this
\* state, TLSConfig == nil, repeats the one of STARTTLS and never holds.)
AlreadyTLS ==
    /\ Turn("StartTLS")
    /\ env.tls
    /\ state' = "Cmd"
    /\ UNCHANGED <<phase, connVars, extTLS, heap, history>>

\* Mutant: the envelope is kept, and its flag with it.
HandshakeKeepsMail ==
    /\ Turn("StartTLS")
    /\ ~env.tls
    /\ upgradeTLS
    /\ extTLS' = ""
    /\ heap' = [heap EXCEPT ![cur].tls = TRUE]
    /\ state' = "Cmd"
    /\ UNCHANGED <<phase, killedAt, bufErr, errors, messagesSent,
                   delivered, acks, unrecognized, peer>>

\* The flag upgradeTLS sets is on the envelope that resetTransaction replaces.
Handshake ==
    /\ Turn("StartTLS")
    /\ ~env.tls
    /\ upgradeTLS
    /\ extTLS' = ""
    /\ heap' = resetTransaction([heap EXCEPT ![cur].tls = TRUE], delivered, Silent)
    /\ state' = "Cmd"
    /\ UNCHANGED <<phase, killedAt, bufErr, errors, messagesSent,
                   delivered, acks, unrecognized, peer>>

HandshakeFails ==
    /\ Turn("StartTLS")
    /\ ~env.tls
    /\ state' = "Cmd"
    /\ UNCHANGED <<phase, connVars, extTLS, heap, history>>

Shutdown ==
    /\ Turn("Shutdown")
    /\ sendResponse
    /\ kill
    /\ UNCHANGED <<phase, state, errors, messagesSent, layers, extTLS, heap, history>>

---------------------------------------------------------------------------

Next ==
    \/ EnterPlain \/ EnterTLS \/ EnterTLSFails
    \/ LeaveLoop \/ Greeting \/ ReadFails \/ LineTooLong \/ ToldToStop
    \/ \E h \in Hosts \cup {NoHost} : HELO(h) \/ EHLO(h)
    \/ Answered
    \/ \E addr \in Peers, h \in Hosts \cup {env.helo} : XCLIENT(addr, h)
    \/ \E addr \in Peers : PROXY(addr)
    \/ \E a \in Addrs \cup {NoAddr}, utf8 \in BOOLEAN : MAIL(a, utf8)
    \/ \E a \in Addrs : RCPT(a)
    \/ NestedMAIL \/ RefusedRCPT
    \/ RSET \/ QUIT \/ DATA \/ STARTTLS \/ Unrecognized
    \/ BodyFails
    \/ \E class \in {2, 4, 5} : Body(class)
    \/ HandlerPanics
    \/ AlreadyTLS \/ Handshake \/ HandshakeFails
    \/ Shutdown

Spec == Init /\ [][Next]_vars

---------------------------------------------------------------------------
(* Properties.                                                             *)

\* What the handler was given stays as it was when the handler answered: the
\* connection never writes to it again (connection.go:129-131, server.go:609).
DeliveredStable ==
    [][\A i \in DOMAIN delivered :
         heap'[delivered[i].ref] = heap[delivered[i].ref]]_vars

\* A message that reaches the handler has a recipient and one body, in whatever
\* order the client sends its commands: DATA needs a recipient, none of the
\* resets comes between it and the body, and a body never meets an envelope that
\* already has one (server.go:517-525, 552, 609).  How many recipients it may
\* have is not said here: RCPT lets one more through than MaxRecipients.
DeliveredComplete ==
    \A i \in DOMAIN delivered :
        LET e == heap[delivered[i].ref]
        IN  e.rcptTo # <<>> /\ e.bodies = 1

\* The address XCLIENT or PROXY told last is the address in the envelope of
\* every later message, whatever resets come between (server.go:394-434,
\* connection.go:130).
EnvelopeTellsPeer ==
    env.remoteAddr = peer

\* A positive answer to a body is preceded by a handler that accepted it; a
\* message accepted but not acknowledged is the connection's last, so a client
\* that tries again duplicates one message at most (server.go:590-609, 278).
AcksMatch ==
    /\ messagesSent = Cardinality({i \in DOMAIN delivered : delivered[i].accepted})
    /\ acks <= messagesSent /\ messagesSent <= acks + 1
    /\ messagesSent # acks => bufErr = "err"

\* The client's name, the sender, the recipients and the body of a delivered
\* message were told over the same TLS layers: nothing said before a handshake,
\* in plain text too, is delivered with what is said after it, as RFC 3207 asks
\* (server.go:614-635, connection.go:130).
ToldOverOneLayer ==
    \A i \in DOMAIN delivered :
        \E n \in 0 .. MaxLayers : heap[delivered[i].ref].over = {n}

\* A connection that is served has sent fewer unrecognized commands than the
\* limit, whatever else went wrong on it (server.go:540-547).
UnrecognizedBounded ==
    /\ unrecognized <= errors
    /\ phase = "loop" /\ isAlive => unrecognized < MaxUnrecognizedCommands

Mail(e) == [sender |-> e.mailFrom, rcpts |-> e.rcptTo]

\* conn.Envelope was handed over and not replaced: its handler panicked.
Gone == \E i \in DOMAIN delivered : delivered[i].ref = cur

TX == INSTANCE Transaction WITH
        MostRcpts <- MaxRecipients + 1,
        sender <- IF Gone THEN NoAddr ELSE env.mailFrom,
        rcpts <- IF Gone THEN <<>> ELSE env.rcptTo,
        outbox <- [i \in DOMAIN delivered |-> Mail(heap[delivered[i].ref])]

\* Mail is collected, given up and handed over as Transaction promises.
TransactionImplemented == TX!Spec

CL == INSTANCE ConnLifecycle WITH
        st <- CASE phase = "start" -> "Greeting"
                [] phase = "loop" -> state
                [] phase = "returned" -> "ended",
        stopping <- closedListener = "closed"

\* The loop of handleConn goes through the states of ConnLifecycle.
LifecycleImplemented == CL!Spec

---------------------------------------------------------------------------
(* What the documentation says and the code does not do.                   *)

\* envelope.go:22, "TLS is true if the email was received using a TLS
\* connection".
TLSFlagTrue == state = "Data" /\ layers > 0 => env.tls
=============================================================================
