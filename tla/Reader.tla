------------------------------- MODULE Reader -------------------------------
(***************************************************************************)
(* What a connection reads (reader.go): a limitedReader below a bufio      *)
(* reader below a textproto reader.  The client sends lines and messages   *)
(* when it likes; the connection takes commands with ReadLine and a        *)
(* message with DotReader, resets the limit, and replaces the whole reader *)
(* after a TLS handshake.  A unit stands for a run of bytes that is not    *)
(* cut further: some text, a line end, or the line end, dot, line end that *)
(* closes a message.                                                       *)
(***************************************************************************)
EXTENDS Integers, Sequences

CONSTANTS
    MaxSize,  \* the limit, n of NewSMTPReader
    BufSize,  \* the size of the bufio reader
    MaxSent,  \* bound: the units the client sends
    MaxLayers \* bound: TLS handshakes that succeed

ASSUME MaxSizeAssumption == MaxSize \in Nat \ {0}
ASSUME BufSizeAssumption == BufSize \in Nat \ {0}
ASSUME MaxSentAssumption == MaxSent \in Nat
ASSUME MaxLayersAssumption == MaxLayers \in Nat

VARIABLES
    wire,     \* units on their way: [id, kind, layer]
    client,   \* "open", or "closed": it sends nothing more
    sent,     \* how many units were sent
    left,     \* limitedReader.N
    buf,      \* the bytes that bufio holds
    line,     \* the beginning of a line that did not fit into buf
    mode,     \* "cmd", "data", "tls" (before a handshake) or "dead"
    layer,    \* the TLS layers around the socket
    consumed, \* the last unit that was part of a command or a message
    since,    \* units of commands and messages since the last reset
    ahead     \* units that were read ahead when the limit was reset last

readerVars == <<left, buf, line>>
countVars == <<consumed, since, ahead>>
vars == <<wire, client, sent, readerVars, mode, layer, countVars>>

Units == [id : Nat, kind : {"text", "nl", "dot"}, layer : Nat]

TypeOK ==
    /\ wire \in Seq(Units) /\ buf \in Seq(Units)
    /\ client \in {"open", "closed"}
    /\ sent \in Nat /\ consumed \in Nat /\ since \in Nat
    /\ left \in 0 .. MaxSize /\ line \in Seq(Units)
    /\ Len(buf) <= BufSize /\ ahead \in 0 .. BufSize
    /\ mode \in {"cmd", "data", "tls", "dead"}
    /\ layer \in 0 .. MaxLayers

Init ==
    /\ wire = <<>> /\ client = "open" /\ sent = 0
    /\ left = MaxSize /\ buf = <<>> /\ line = <<>>
    /\ mode = "cmd" /\ layer = 0
    /\ consumed = 0 /\ since = 0 /\ ahead = 0

---------------------------------------------------------------------------
(* The client.  It may send before it is answered, plain text before a     *)
(* handshake too.                                                          *)

ClientSends ==
    /\ client = "open" /\ sent < MaxSent
    /\ \E k \in {"text", "nl", "dot"} :
          wire' = Append(wire, [id |-> sent + 1, kind |-> k, layer |-> layer])
    /\ sent' = sent + 1
    /\ UNCHANGED <<client, readerVars, mode, layer, countVars>>

ClientCloses ==
    /\ client = "open"
    /\ client' = "closed"
    /\ UNCHANGED <<wire, sent, readerVars, mode, layer, countVars>>

---------------------------------------------------------------------------
(* Reading.                                                                *)

\* A line ends with any line end, a message with its dot.
Ends == IF mode = "cmd" THEN {"nl", "dot"} ELSE {"dot"}

EndsIn(s) == {j \in DOMAIN s : s[j].kind \in Ends}

\* The reader asks for more: ReadLine when it has no whole line, DotReader
\* when it has nothing.
Wants ==
    \/ mode = "cmd" /\ EndsIn(buf) = {}
    \/ mode = "data" /\ buf = <<>>

\* limitedReader.Read cuts the request down to what is left.
Fill ==
    /\ Wants
    /\ \E n \in 1 .. Len(wire) :
          /\ n <= left /\ n <= BufSize - Len(buf)
          /\ buf' = buf \o SubSeq(wire, 1, n)
          /\ wire' = SubSeq(wire, n + 1, Len(wire))
          /\ left' = left - n
    /\ UNCHANGED <<client, sent, line, mode, layer, countVars>>

\* ReadLine of bufio returns a full buffer as a part of a line; readLineSlice
\* of textproto keeps it and goes on.
TakePart ==
    /\ mode = "cmd" /\ EndsIn(buf) = {} /\ Len(buf) = BufSize
    /\ line' = line \o buf
    /\ buf' = <<>>
    /\ UNCHANGED <<wire, client, sent, left, mode, layer, countVars>>

\* Read gives an error: the limit is reached, or the client has gone.
AtLimit == left = 0

\* Mutant: at the limit Read gives no bytes and no error.
NoMoreWithoutLimit == Wants /\ Len(buf) < BufSize /\ wire = <<>> /\ client = "closed"

NoMore == Wants /\ Len(buf) < BufSize /\ (AtLimit \/ (wire = <<>> /\ client = "closed"))

ResetLimit == left' = MaxSize

\* What a command or a message of n units more does to the counts, when the
\* transaction is reset and when it is not.
Consume(n) == since' = since + n /\ UNCHANGED ahead
ConsumeAndReset(rest) == since' = 0 /\ ahead' = Len(rest)

\* The effect of a command is another module's (Session): most change
\* nothing here, some reset the transaction, DATA and STARTTLS change what
\* is read next.  STARTTLS is obeyed inside TLS as well.
CommandDone(n, rest) ==
    /\ line' = <<>>
    /\ \/ /\ ResetLimit /\ ConsumeAndReset(rest)
          /\ UNCHANGED mode
       \/ /\ mode' \in {"cmd", "data", "tls"}
          /\ Consume(n)
          /\ UNCHANGED left

ReadLine ==
    /\ mode = "cmd" /\ EndsIn(buf) # {}
    /\ LET j == CHOOSE i \in EndsIn(buf) : \A k \in EndsIn(buf) : i <= k
           rest == SubSeq(buf, j + 1, Len(buf))
       IN /\ consumed' = buf[j].id
          /\ buf' = rest
          /\ CommandDone(Len(line) + j, rest)
    /\ UNCHANGED <<wire, client, sent, layer>>

\* ReadLine of bufio drops an error when it has some bytes: they are a command.
ReadCutLine ==
    /\ mode = "cmd" /\ NoMore /\ buf # <<>>
    /\ consumed' = buf[Len(buf)].id
    /\ buf' = <<>>
    /\ CommandDone(Len(line) + Len(buf), <<>>)
    /\ UNCHANGED <<wire, client, sent, layer>>

\* Without any bytes the error ends the connection, a part of a line too.
ReadFails ==
    /\ NoMore /\ buf = <<>>
    /\ mode' = "dead"
    /\ UNCHANGED <<wire, client, sent, readerVars, layer, countVars>>

\* Mutant: the reset after a message makes a new reader.
ReadMessageNewReader ==
    /\ mode = "data" /\ EndsIn(buf) # {}
    /\ LET j == CHOOSE i \in EndsIn(buf) : \A k \in EndsIn(buf) : i <= k
       IN consumed' = buf[j].id
    /\ buf' = <<>>
    /\ ConsumeAndReset(<<>>)
    /\ ResetLimit
    /\ mode' = "cmd"
    /\ UNCHANGED <<wire, client, sent, line, layer>>

\* Mutant: the limit is not reset after a message.
ReadMessageNoReset ==
    /\ mode = "data" /\ EndsIn(buf) # {}
    /\ LET j == CHOOSE i \in EndsIn(buf) : \A k \in EndsIn(buf) : i <= k
           rest == SubSeq(buf, j + 1, Len(buf))
       IN /\ consumed' = buf[j].id
          /\ buf' = rest
          /\ ConsumeAndReset(rest)
    /\ mode' = "cmd"
    /\ UNCHANGED <<wire, client, sent, left, line, layer>>

\* The copy of a message into Envelope.Data takes what is buffered up to the
\* dot; after it the handler runs and the transaction is reset.
ReadMessage ==
    /\ mode = "data" /\ EndsIn(buf) # {}
    /\ LET j == CHOOSE i \in EndsIn(buf) : \A k \in EndsIn(buf) : i <= k
           rest == SubSeq(buf, j + 1, Len(buf))
       IN /\ consumed' = buf[j].id
          /\ buf' = rest
          /\ ConsumeAndReset(rest)
    /\ ResetLimit
    /\ mode' = "cmd"
    /\ UNCHANGED <<wire, client, sent, line, layer>>

CopyMessage ==
    /\ mode = "data" /\ buf # <<>> /\ EndsIn(buf) = {}
    /\ consumed' = buf[Len(buf)].id
    /\ Consume(Len(buf))
    /\ buf' = <<>>
    /\ UNCHANGED <<wire, client, sent, left, line, mode, layer>>

---------------------------------------------------------------------------
(* upgradeTLS.                                                             *)

\* Mutant: the old reader is kept, with what it holds.
HandshakeKeepsBuffer ==
    /\ mode = "tls" /\ wire = <<>> /\ client = "open"
    /\ ResetLimit
    /\ layer < MaxLayers /\ layer' = layer + 1
    /\ mode' = "cmd"
    /\ since' = 0 /\ ahead' = Len(buf)
    /\ UNCHANGED <<wire, client, sent, buf, line, consumed>>

\* The handshake reads from the connection, below the buffer.  Plain text
\* that waits there is no handshake; a new reader begins with nothing.
Handshake ==
    /\ mode = "tls" /\ wire = <<>> /\ client = "open"
    /\ buf' = <<>> /\ ResetLimit
    /\ layer < MaxLayers /\ layer' = layer + 1
    /\ mode' = "cmd"
    /\ consumed' = sent /\ since' = 0 /\ ahead' = 0
    /\ UNCHANGED <<wire, client, sent, line>>

\* It has taken some of what waits; the session goes on in plain text with
\* the old reader, whose buffer comes from before.
HandshakeFails ==
    /\ mode = "tls" /\ (wire # <<>> \/ client = "closed")
    /\ \E n \in 0 .. Len(wire) : wire' = SubSeq(wire, n + 1, Len(wire))
    /\ mode' = "cmd"
    /\ UNCHANGED <<client, sent, readerVars, layer, countVars>>

ServerStep ==
    \/ Fill \/ TakePart \/ ReadLine \/ ReadCutLine \/ ReadFails
    \/ ReadMessage \/ CopyMessage \/ Handshake \/ HandshakeFails

Next == ClientSends \/ ClientCloses \/ ServerStep

(* The connection's goroutine runs; a client need not send anything.       *)
Spec == Init /\ [][Next]_vars /\ WF_vars(ServerStep)

---------------------------------------------------------------------------
\* What was sent and is neither part of a command nor of a message yet.
Pending == line \o buf \o wire

(* Bytes read ahead are not lost and not read twice, over commands, resets *)
(* and the end of a message: what is pending changes only at its end, by   *)
(* what the client sends, and at its beginning, by what is consumed.       *)
NothingLost ==
    [][mode # "tls" =>
          \/ Pending' = Pending
          \/ sent' = sent + 1 /\ Pending' = Append(Pending, wire'[Len(wire')])
          \/ \E n \in 1 .. Len(Pending) :
                /\ consumed' = Pending[n].id
                /\ Pending' = SubSeq(Pending, n + 1, Len(Pending))]_vars

(* The limit holds from reset to reset, but not to the byte: what was read *)
(* ahead at the reset, at most a buffer, was charged to the transaction    *)
(* before (connection.go:131, reader.go:66).  And nobody is cut off who    *)
(* has not sent as much as the limit since the reset.                      *)
LimitHolds ==
    LET sinceReset == since + Len(line) + Len(buf) IN
    /\ sinceReset <= MaxSize + ahead
    /\ AtLimit => sinceReset >= MaxSize

(* What is read as a command or message over TLS was sent over the same    *)
(* TLS layers: plain text, and what an outer layer has, that was read      *)
(* ahead of a handshake is gone with the old reader (connection.go:183).   *)
TLSReadsTLS == \A j \in DOMAIN buf : buf[j].layer = layer

(* A line or a message that is complete is read: a full buffer, a long     *)
(* line or the limit never leave the connection waiting for bytes it will  *)
(* not ask for.                                                            *)
LineWaits == \E j \in DOMAIN Pending : Pending[j].kind # "text"
ReadsOn == LineWaits ~> (~LineWaits \/ mode \in {"tls", "dead"})
=============================================================================
