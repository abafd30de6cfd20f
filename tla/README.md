# A verification project for smtpx

smtpx is an SMTP server library in Go. A program gives a `Server` a handler and
middlewares; the server accepts connections, speaks SMTP with each, and calls
the handler with an *envelope* for every message. These TLA+ modules model the
server's own logic, TLC checks them on small instances, and TLAPS proves the
properties that matter most for all instances.

## Inventory

| Part | State | Operations | Source |
|---|---|---|---|
| Server life cycle | `listener`, `closedListener`, `wgConnections`, `countConnections`, `state` | `ListenAndServe`, `Shutdown`, `isShuttingDown`, one goroutine per connection | `server.go` |
| SMTP session | the `connection`: `state`, `KilledAt`, `bufErr`, `errors`, `messagesSent`, the TLS layers, the current `Envelope` | `handleConn` and its commands, `sendResponse`, `resetTransaction`, `upgradeTLS`, `kill` | `server.go`, `connection.go` |
| Line reader | bytes left of `MaxSize`, the read-ahead of `bufio` | `ReadLine`, `DotReader`, `ResetLimit` | `reader.go` |
| Envelope and data | sender, recipients, flags, context; a list of buffers | `NewEnvelope`, `PrependHeader`, `Data.Write`, `Prepend`, `ReadFrom`, `Bytes`, `Reader` | `envelope/envelope.go`, `envelope/data.go` |
| Mail parser | raw header and body | `Headers`, `Body`, `Decode`, `Walk`, `Flatten` | `envelope/mail.go`, `envelope/charsets.go` |
| Middleware chain | the response on its way out, the envelope on its way in | `nil2success`, `Recover`, the domain filters, added headers, `Logger` | `server.go:568-601`, `middleware/*.go` |
| Authentication results | SPF, DKIM and DMARC verdicts | `spfCheck`, `dkimCheck`, `dmarcCheck`, alignment | `middleware/authentication.go` |
| DKIM verification | one goroutine and one pipe per signature | `Verify`, `parallelVerify`, `verify`, key query | `authres/dkim/verify.go`, `query.go` |
| DKIM signing | a pipe, a goroutine, the channel `done` | `NewSigner`, `Write`, `Close`, `Signature`, `Sign` | `authres/dkim/sign.go` |
| Canonicalization | the CRLFs held back between writes | `CanonicalizeHeader`, `CanonicalizeBody` | `authres/dkim/canonical.go` |
| DKIM header fields | the fields, the number picked of each name | `readHeader`, `Pick`, `parseHeaderParams` | `authres/dkim/header.go` |
| DMARC record | none | `Lookup`, `Parse` | `authres/dmarc` |
| Authentication-Results header | none | `Format`, `Parse` | `authres/format.go`, `parse.go` |
| Responses | canned responses, a status code filled in on first use | `StatusCode`, `String`, `Class` | `responses`, `response.go` |
| Ids and domains | a 32-bit counter | `XID`, `DomainOfEmail` | `utils` |

**How they interact.** `ListenAndServe` starts one goroutine per accepted
connection; the goroutine runs `handleConn`, and its deferred calls lower the
counter and the wait group. `Shutdown` runs in goroutines of the program: it
reads `s.listener` unsynchronized, closes it, and waits for the channel
`closedListener`, which `ListenAndServe` closes after the wait group has come
down to zero. `handleConn` looks at the same channel after each command and
after each message. Within a connection everything is sequential: reader,
session, middlewares, handler. The handler gets the pointer `conn.Envelope` and
may keep it; `resetTransaction` therefore replaces the envelope. A TLS handshake
replaces the reader. The DKIM middlewares start goroutines of their own and
talk to them over pipes.

**What is hard.** The order of waiting, closing and releasing in a shutdown,
with clients that accept, talk, panic and leave in between, several callers,
contexts that expire, and a server started again; a session in which any command
may come at any time, any reply may fail to be written, and each of five ways to
reset the transaction must keep and drop the right things; a read limit below a
buffer that reads ahead; goroutines joined by pipes where one side stops early.

**What makes each part correct.**
- *Life cycle*: the counters are the goroutines; a Shutdown that returned nil
  left nothing running; nobody is cut off; every Shutdown that closed a listener
  returns if clients leave.
- *Session*: a delivered message is complete and never changes; an
  acknowledgement means acceptance, and acceptance without acknowledgement
  happens to the last message only; what was told before a handshake is not
  delivered with what is told after it; the told peer address is kept; errors end the connection; the states follow the promised
  life.
- *Reader*: no more than `MaxSize` bytes are taken from the socket between
  resets; a message that fits is read; bytes read ahead are the commands that
  follow.
- *Envelope data*: `Bytes`, `Reader` and `Len` agree after any writes and
  prepends.
- *Middlewares*: they run in order, each once; a panic under Recover becomes a
  500; a nil response becomes success; a filter lets through what it should.
- *DKIM verification and signing*: every goroutine ends, nobody waits for ever,
  each verdict is that of its own signature, a signature exists only after a
  successful Close.
- *Canonicalization*: the result does not depend on how the body was cut into
  writes. *Picker*: each field is picked once, from the bottom.
- *DMARC*: pass only with an aligned pass, fail only without one; no error and no
  record that asks for nothing makes a verdict.
- *Authentication-Results*: what `Format` writes `Parse` reads.
- *Mail*: header, parts and texts are those that were sent, and a message that was
  cut off is an error.

## Modules

| Module | Models | How it corresponds to the code |
|---|---|---|
| `ConnLifecycle` | the promise: the states of one connection and its moves | `ConnGreeting` ... `ConnShutdown`, with `none` before and `ended` after |
| `Server` | the life cycle | `main` is the program counter of `ListenAndServe`, one action per statement that another goroutine can notice; `goroutine[c]` is where a connection's goroutine is among `handleConn` and its deferred calls; `caller[k]` is where a `Shutdown` is |
| `Transaction` | the promise about mail: collect, give up, hand over as a whole | |
| `Session` | one connection | one action per `case` of `handleConn`'s switches; `heap` is the envelopes somebody still points to, the last one is `conn.Envelope`; `delivered` holds the pointers handlers were given |
| `Reader` | what a connection reads | `left` is `limitedReader.N`, `buf` the bytes of `bufio`, `line` what `textproto` holds of a long line; `wire` is the network; `mode` says what the connection is doing |
| `Pipeline` | a message on its way through the middlewares | `rest` and `layers` are the loop that wraps the handler, a step per middleware; `depth` is the layer that runs; one action per middleware on the way in, `Leave` (with `nil2success`) and `Unwind` (a panic) on the way out; `data` is the list of `Data`'s pieces |
| `DkimSigner` | a `Signer`: pipe, goroutine, channel `done` | `goroutine` is the program counter of the function started in `NewSigner`; `client` is the call the other side is in |
| `DkimSign` | the function `Sign`, a client of a `Signer` | `step` is its program counter, deferred `Close` included; with step `off` the client is any other program |
| `DkimVerify` | one call of `VerifyWithOptions` | `main` is where the caller is, on the path for one signature or in `parallelVerify`; `worker[i]` is goroutine i; `turn` is the pipe `io.MultiWriter` writes to; a signature is the set of checks it fails |
| `Canonical` | the body canonicalizers and the header picker, as operators | a record is the struct `simpleBodyCanonicalizer` or `relaxedBodyCanonicalizer`: `out` is what it has written (so `written` is that `out` is not empty), `before` the flag of its `crlfFixer`; `CanonicalBody` is the reference definition on whole bodies |
| `DkimHash` | a message hashed by the signer, changed on its way, hashed by the verifier | writes cut the body anywhere; `PickKey` is one key of the tag h |
| `Text` | the functions of Go's `strings` that the next modules use | texts are sequences of tokens |
| `Dmarc` | `dmarc.Lookup` and `Parse`, as operators | an answer of the name server to a record or an error |
| `AuthField` | `authres.Format` and `Parse`, as operators | a list of results to a text and back |
| `Authentication` | the middleware `AddAuthenticationResult` on one message | one action for each of `spfCheck`, `dkimCheck`, `dmarcCheck` and the field; their results are variables |
| `Data` | `Data` while a message is written and fields are put in front, and where `NewMail` cuts it | `bufs` is `Data.bufs`; one action for a write, one for `PrependHeader`; `DotReader`, `NewMail` and the lines of `bufio` are operators |
| `Mail` | `Headers`, `Body`, `Walk`, `Flatten`, `Decode` on what `Data` holds | extends `Data`, whose variables it moves as `Data` does; the readers are operators, evaluated in every state |
| `ServerProofs`, `SessionProofs`, `MessageProofs`, `PipelineProofs`, `AuthenticationProofs`, `DkimSignProofs`, `DkimVerifyProofs`, `DkimHashProofs` | theorems | |
| `MCSession`, `MCPipeline`, `MCDkimSign`, `MCDkimVerify`, `MCDkimHash`, `MCAuthentication`, `MCMail` | values of the constants for TLC | |

`Server` and `Session` meet in two places. `ConnLifecycle` is implemented by
both, so the coarse turns of `Server` are those of `Session`. And `Session` keeps
`closedListener` constant after its first state: `ChannelClosesDrained`, a theorem of
`Server`, says that the channel closes only when no connection is active, so a
connection sees it open for its whole life or (in a server that is started
again) closed for its whole life.

`Session` abstracts from `Reader` and `Pipeline`: each read of `Session` may
fail, end early or exceed the limit, which is what `Reader` does in detail; and
its handler answers anything or panics, which is what `Pipeline` gives back, with
`depth = 0` and a response or a panic. What `Pipeline` starts from, recipients
but perhaps no sender, is what `Session` delivers (`DeliveredComplete`).
`Authentication` is what `Pipeline`'s step `AddAuthenticationResult` does in detail;
both panic without a sender and else add one field and go on. `Pipeline` knows the
pieces of an envelope's data as fields, the module `Data` as the buffers they are kept
in; `Mail` adds the parser to it, which changes nothing of `Data`.

`DkimSign` extends `DkimSigner` and adds Sign's variables. `DkimSigner` and
`DkimVerify` are about who waits for whom; `DkimHash` about what is hashed. A line
or piece in the former is a stretch of the bytes of the latter.

### What is abstracted

Addresses, hosts and peers are members of small sets; an address that does not
parse is `NoAddr`. A body is a count of bodies read into the envelope. Reply
texts are left out except the STARTTLS line of EHLO, which is a variable of
`handleConn` (`extTLS`). The field `over` of an envelope is history: the numbers of
TLS layers over which what it holds was told. The race between the write of `s.listener` and the read in `Shutdown` is
modelled as the outcomes an interface value torn in two words can give
(`ShutdownLoad`). `conn.charset` is written and never read, `setTimeout` is never
called, `MaxClients` and `Timeout` are never used: they are not in the model, and
no deadline ever ends a read.

In `Reader` a unit is a run of bytes that is not cut further; a socket does not
return nothing without an error, as a pipe does for an empty write: that
`bufio` gives up after a hundred of these (`io.ErrNoProgress`) is in
`DkimSigner`. In `Pipeline`
a recipient is its place in the `RcptTo` that the session handed over, with a domain;
filters keep the order of the recipients, so a set of places is enough. A piece of the
data is the layer that put it there and the recipient it names. `Logger` is the
one with a logger and without a Skipper. In `DkimVerify` a check is
a name; the key query is four of them, and what a check looks at is data. In
`Canonical` there are four bytes: CR, LF, white space, and the rest; a header
field is its name and whether it is in canonical form. `limitedWriter`
(`canonical.go`) is used by nothing and left out.

A text in `Text` and the modules above it is a sequence of tokens: words, and the
characters the code cuts at. Lower case is a function on words (`Lower`). A
number above 9 does not occur in the field. In
`Authentication` the SPF library answers anything, signatures have any verdict and
any d=, and the list of public suffixes has suffixes of one label. In `AuthField`
results of sender-id and results of unknown methods are left out, and no value
holds a quote. In `Mail` a line is a token or two; how a word is encoded is
written in its token, so that decoding in a wrong order or twice shows; an encoded
word in a field (`=?`) is a mark on it. The library below (`net/mail`, `mime`,
`mime/multipart`, `textproto`) is modelled as far as `mail.go` depends on it.

## Runs

| Run | Shows |
|---|---|
| `server` | two connections, two callers, two starts, one failure: the counters are the goroutines, a drained shutdown, a stop that is final also for a server started again, each connection's life; under fairness a stopped server returns and its callers are released |
| `server_early` | *violated*: a Shutdown before `s.listener` is set is lost (`server.go:161`, 210) |
| `session_mail` | two messages, STARTTLS, TLS inside TLS: completeness and stability of deliveries, no delivery told partly before and partly after a handshake, refinement of `Transaction` |
| `session_proxy` | TLS from the start, XCLIENT and PROXY: peer address, acknowledgements, errors, lost replies, refinement of `ConnLifecycle` |
| `session_tlsflag` | *violated*: the TLS flag is lost with the envelope (`envelope.go:22`, `server.go:633`) |
| `reader` | a client that sends in any rhythm and starts TLS, within TLS too: no byte is lost or read twice, the limit holds up to what was read ahead, plain text is never read as TLS, a complete line or message is read |
| `pipeline` | every chain of up to three middlewares: filters hold wherever they stand, success means the handler was called, Recover contains panics, new fields are on top and name the recipient that is handled |
| `dkim_sign` | Sign, or any client, and the Signer's goroutine: a signature is over the whole message, calls say what happened, Sign writes a signed message or nothing, everybody ends |
| `dkim_verify` | up to three signatures, a limit, a reader that fails: verdicts are deserved and in order, Verify returns, its goroutines are over |
| `authres` | a sender, a From field, two signatures and a DMARC record in every relation of their domains: DMARC's verdict is deserved, needs a policy somebody published, and the field reads back as the verdicts, and with the parameters that no later word overwrites |
| `mail` | messages of every shape, written in any pieces with fields put in front in between: header, parts and texts are read back unless a malformed line hides the encoding, and a cut is noticed |
| `dkim_hash` | all short bodies in all cuts, all short headers and tags h: signer and verifier hash the same after a forgivable change |

**Bounds.** *Server*: two connections are enough for one to be drained while the
other is served; two callers for one to have returned while the other closes;
two starts for the channel of the first to be met by the second; one failure for
Accept to fail with the listener open. *Session*: two messages are enough for a
delivered envelope to meet another one; `MaxRecipients = 1` for the limit to be
reached and passed; `MaxUnrecognizedCommands = 2` for the counter to be below and
at the limit; `MaxErrors` (1 or 3) bounds `conn.errors`, `MaxLayers = 2` allows the
second handshake. *Reader*: a limit of three units with a buffer of two lets the
buffer fill within the limit, and the limit fall inside a line, inside a message
and at a line end; six units are two commands and a message that passes it; `MaxLayers = 2` is TLS and TLS
within it.
*Pipeline*: three layers are one before and one behind any; two recipients can be
told apart by one filter. *DkimSign*: four lines are a header, an empty line and
a body, or a message without its empty line; three calls of Close are the two of
Sign and one more; with `MaxEmptyReads = 2` for the 100 of `bufio` the body fails at the
second empty write in a row and the header at the second or the fourth. *DkimVerify*: three signatures are one before, at and behind a limit of two;
two pieces let a goroutine stop between them; the four kinds are a good
signature, two that fail before the body (the first of their failing checks
counts), and one that fails after it. *DkimHash*: five bytes hold an empty line with a CR cut off on either
side, and white space between two line ends; headers and tags of three names
hold a name twice and one it has not. *Authentication*: two signatures are an aligned
one behind one that is not; the domains are an organisation, its host, a name
that ends with its text, the same in capitals, a suffix and a stranger; the answers
are each kind of failure, records that say each thing the verdict depends on, two
records of which either, both or neither can be read alone, a record in two pieces, and one
with a text behind it that is no record; two senders have a local part that `Parse` takes
apart, at a ";" before an ARC result it cannot read, and at white space before a word
with "=". *Mail*: multiparts nested
once, each encoding and charset by itself and within a part, headers with a malformed line
in every place, each line end; one field put in front, at any moment of the writing.

`MaxMessages`, `MaxErrors`, `MaxLayers`, `MaxStarts`, `MaxFaults`, `MaxSent`,
`MaxChain`, `MaxRcpts`, `MaxLines`, `MaxChunk`, `MaxCloses`, `MaxSignatures`,
`MaxBody`, `MaxAdded` and `MaxPrepends` are bounds of the model, not of the program: they disable
the step that would pass them or limit the input, and the theorems hold for all
their values. Deadlock is not checked: a stopped server, an ended connection and a
call that has returned have nothing left to do. In its place the liveness properties
say who must get where. The types of the modules that have proofs are theorems and not
invariants of their runs.

**Fairness.** Weak fairness for what the Go scheduler owes every goroutine that
can run.
- `Server`: the statements of `ListenAndServe` (Accept only when its listener is
  closed), the deferred calls, the steps of a `Shutdown`. `Return` is fair too, which
  is an assumption on clients and handlers: a client leaves sometime, a handler
  returns. The code has no deadline that would force it (`server.go:188` says so). A
  context need not ever be done.
- `Reader`: the server's step. The client sends what it likes, or nothing.
- `DkimSigner`: the goroutine, and a blocked Write or Close whose wait is over; no
  client has to make a call. `DkimSign` adds Sign itself, whose reader comes to an
  end.
- `DkimVerify`: the caller and each goroutine; the reader and the key query answer.
- `Session`, `Pipeline`, `DkimHash`, `Authentication` and `Mail` are sequential; their runs
  check safety only.

## What is proved

`ServerProofs`, for any finite set of connections, any callers, starts and
failures, from `ConnsAssumption`, `StartsAssumption` and `FaultsAssumption`:
- `CountersCorrect` from the invariant `Counting`: the wait group is the number of
  active connections. It is inductive with the types: each deferred call moves one
  connection and one counter.
- `ChannelClosesDrained`, `ShutdownNilIsDrained` and `NobodyIsTurnedAway`
  from the invariant `Draining`, which says for each place
  of `main` whether connections can be active and whether the channel can be
  closed: after `Wait` nobody is active and nobody is accepted.
- `AStopIsFinal` by an induction of its own over `Counting` and `Draining`.
- `ServerImplementsLifecycle`: initial states map to initial states, and each step
  of each connection is a step of `ConnLifecycle` or a stutter; a connection is never
  active when the channel is being closed.

`SessionProofs`, for any configuration, addresses and bounds:
- `DeliveriesAreComplete` and `DeliveriesAreStable` from `Inv`: the types; `Owned`: no
  delivered pointer is the current envelope while the connection lives;
  `Filling`: the current envelope has no body yet, what it holds was told over the
  layers there are now, and in state Data it has a recipient; and what is to be shown.
  `DeliveriesAreOverOneLayer` is from the same invariant. Every action writes
  to the current envelope (`WriteStep`), replaces it (`ReplaceStep`, `ResetStep`), hands it
  over (`BodyStep`, `PanicStep`) or leaves it alone (`QuietStep`).

and from the types alone:
- `UnrecognizedAreBounded`: the errors counted bound the unrecognized commands, and a
  connection at the limit has left the loop.
- `EnvelopesTellThePeer`: every new envelope is made from the told address or, where none
  was told, from the socket's.
- `AcksAreMatched`: between acceptance and the reply there is one message at most, and a
  reply that failed ends the connection.

and the refinements:
- `SessionImplementsLifecycle`: the place a connection is in maps to a state of
  `ConnLifecycle`, and each step moves as the life allows or stays (`LifeMoves`); before
  the loop the state is Greeting (`Fresh`).
- `SessionImplementsTransaction`: the abstract sender, recipients and outbox are read off
  the current envelope and the delivered ones; each step is one of Begin, AddRcpt,
  GiveUp and HandOver, or a stutter. It rests on `Owned`: the current envelope is none of
  the delivered ones while it is written to.

`MessageProofs`, of `Reader` for any limit, buffer and client:
- `LimitIsKept`, `NothingIsLost`, `TLSIsRead` and the types from `Inv`. `Accounts` is an
  equation: what was read since the reset, with the line and the buffer, is what the
  limit has lost and what was read ahead. `WireLayer`: what is on the wire after a handshake was sent
  over TLS.

and of `Data` for messages with any number of lines of any length and either line end, with
the `DotReader` in between or not, any cut into writes and any number of fields:
- `HeaderAndBodySplitRight` from `DataInv`, an equation: what `Data` holds and what is
  still to be written are together the text of the fields put in front, the newest
  first, and the text of the message. So wherever a field comes between two writes,
  `head` and `tail` keep its place (`DataPrependInv`, `DataWriteInv`).
- Then, of a message that is whole, `NewMail` and reading lines give back what was written
  (`DataInvSplits`). A text is what its lines say, each with its end (`TextOf`), and the
  `DotReader`, which holds a CR back until it sees what follows, takes one off the end of each
  line (`Chomp`). A line of the header is not empty and holds no CR, so within the
  text of the header no line end is followed by another: the first place where `bytes.Cut`
  finds its separator is the end of the header, even if the body begins with an empty line
  or has CRs of its own.
- It assumes of the constants only that lines of the header are not empty and have no CR, and
  that lines have no LF (`LinesAssumption`). A behaviour of `Mail` is one of `Data` (`Init` and
  `Next` are `DataInit` and `DataNext` with another variable), so the property that the run
  checks on `Mail` is the one that is proved; it is proved of `Data` because `Mail` has RECURSIVE
  operators.
- Every recursive function in it is a machine that goes through a sequence; that it is a
  run of the machine (`IsRun`), and what runs have in common, is shown once, by induction over
  a set of numbers (`SetInduction`).

`PipelineProofs`, for any chain, recipients and filters:
- The key is `Ordered`: the layers are indices in increasing order, hold every
  middleware that is not nil, and end with the handler; the layers that have run are
  the first of them. So when the handler runs every filter has run (`AllEntered`).
- `FiltersHold` from `Sifted`: each filter that ran lets the recipients that are left
  through, and later filters only take away (`FewerPass`).
- `NamesAreHandled` from `Named`: a name was given to the only recipient, and a message
  that goes on keeps at least one.
- `FieldsAreStacked` from `Stacked`: a field's layer has run, and layers only run in increasing order.
- `AnswersAreTrue` from `Told` and `PanicsAreContained` from `Passed`: a panic
  has passed none of the layers behind it that recover.

`DkimSignProofs`, for messages, writes and calls of Close of any number:
- `SignaturesAreWhole`, `CallsTellTheTruth`, `SignsOrWritesNothing` and the types, from
  one invariant. `Piped`: the goroutine reads to the end of the pipe before it closes
  the read end, unless too many Reads took nothing, so no other Write meets a closed reader. `Signed`: from there on there is a
  signature exactly if it has no error to report. `Reported`: the report is in the
  channel until the first Close takes it. `Progress`: what Sign has written at each
  of its places.

`DkimVerifyProofs`, for any signatures, limit and body:
- `VerdictsAreDeserved`, `NoGoroutineIsLeft` and the types. The key is `Works`: a
  goroutine that has not decided was given exactly the pieces it was offered
  (`Offered`: one less while the current piece is still to reach it), and one that
  has decided holds what its signature deserves. It is inductive with `Serving`: the
  pipes are closed only when the whole body went through them; and `Collecting`: what
  was received so far comes, in order, from goroutines that have ended.

`DkimHashProofs`, for messages with any header, body and tag h, any cut into writes and
any number of fields added:
- `WritesDoNotMatterHolds` from `BodyInv`: the writer is where it is after the bytes it
  was fed, however they came (`WriterAt`). For simple that is an equation: what it wrote
  and what it holds back are together the fixed body, cut where its last CRLFs, without a
  CR at the end, begin (`SimpleAt`). For relaxed it is the state that byte after byte
  leads to, since a run over two pieces is a run over both (`RelaxedAt`). Then closing adds
  what the reference definition says; for relaxed, what was written and what is
  owed grow by the bytes that count (`Owed`).
- `VerifierHashesTheSameHolds` from `BodyInv`, which also says that a forgivable change
  of the body keeps its canonical form, and from `HeaderInv`: `Shape`, the fields added
  are those on top; `Progress`, what was hashed is what the keys so far choose, and of each
  name as many fields were picked as were asked for, or all there are; and while the
  message is on its way the canonical fields below the added ones do not change. Then the
  two sides choose the same fields if below the added ones there are enough of each added
  name (`SamePieces`), and otherwise the verifier hashes more fields than the signer did.
- What a recursive function computes is shown by induction over a set of numbers
  (`SetInduction`), once, for the states of any machine that goes through a
  sequence (`RunExists`, `RunUnique`, `RunMaps`).

`AuthenticationProofs`, for any senders, From domains, answers and signatures, and for
public suffixes of exactly one label, which `Org` has built in:
- `VerdictsAreDeserved` and `VerdictsNeedAPolicy`. `Inv`: the results of SPF and
  DKIM are what the checks were given to compare, and there is no verdict before
  `dmarcCheck`. `Judged`: a verdict is one on a record that was read (`LookupFindsRecord`) and
  on the alignment of these results. A signature that passed and is aligned speaks for
  the From domain (`AlignedSpeaks`), and one that speaks for it without being aligned is
  hidden by the way it is compared (`SpeaksAligned`); both rest on a domain having one
  organisation however it is written (`LowerCaseOrg`). It assumes of the constants that
  domains are sequences of strings, that an answer is of one of the four kinds, and of
  `Lower` that a word in lower case stays as it is and that dots neither come nor go.

`NobodyIsTurnedAway` (that the 421 of a server started once is dead code) and the types
are proved and not among the runs' properties. Only model-checked:
- the liveness properties, `Reader`'s `ReadsOn` among them: they are out of TLAPS's reach,
  as are fairness and ENABLED;
- `FieldReadsBack` of `Authentication`. A parameter that a word of a later one takes the place
  of is left out by name (`Overwritten`, see below). The field is cut and joined by operators
  that take another one (`SelectSeq`, `FoldLeftDomain`), of which no lemma can be stated for
  all operators: each of the dozen uses would need an induction of its own;
- `TreeReadBack`, `PartsDecode` and `CutTold` of `Mail`: the parser goes through trees with
  RECURSIVE operators.

## What the models showed about the code

Besides the runs that are expected to be violated, writing the models brought
out these facts, which the models contain as they are.

*Server and session*
- `MaxRecipients + 1` recipients are accepted (`server.go:467` tests with > before the append),
  one more than line 67 documents. No run shows this: `DeliveredComplete` says nothing of the
  number, and the bound of `Transaction` is what the code enforces, not what it documents.
- After the first message of a session `ESMTP` and `Helo` are empty, because the
  reset makes a new envelope (`server.go:609`).
- STARTTLS inside TLS is obeyed: the flag tested at `server.go:614` was reset at 633.
- The 421 of `server.go:311` and 606 is dead code in a server started once
  (`NobodyIsTurnedAway`): the channel is closed only after the last connection has gone.
- A server started again keeps the closed channel: it answers 421 to every
  connection, and panics when it closes the channel a second time.
- A DATA without MAIL is accepted: the test is for recipients, and RCPT is allowed after
  EHLO (`connection.go:21`, `server.go:520`). The handler gets an envelope without a
  sender.
- The first unrecognized command may end a connection that had other errors,
  for they share one counter (`server.go:541`).

*Reader*
- The limit counts what was read ahead, and the bytes of commands: a message of
  exactly the advertised SIZE may be refused, and up to a buffer more than
  `MaxSize` may be taken between two resets (`LimitHolds` says exactly this).
- A command cut off at the limit is run; if it is one that resets the limit, the
  rest of its line is read as the next command. The comment of `readCommand` has it
  read up to a line end (`connection.go:81`); `ReadLine` (87) also returns what there is
  before the end of the input.

*Middlewares*
- `AddReturnPath`, `Logger` and `AddAuthenticationResult` dereference `MailFrom` and panic
  for a message without MAIL. A `Recover` registered before them contains the
  panic; without one it ends the process.

*Authentication results*
- Relaxed SPF alignment is a suffix of the text: a sender at `longexample.com` is
  aligned with a From at `example.com` (`authentication.go:119`).
- d= of a signature is compared as it was written, against a domain in lower case; a
  From domain of one label is never aligned by DKIM.
- `header.from` of the DMARC result is the domain of the envelope sender, not of From.
- Several TXT records at the name are joined: of a parameter that occurs twice the last
  counts, and a record that does not end with ";" spoils the one behind it, which
  gives none (`lookup.go:59`). A text that is no record of its own counts as well: behind
  a record `v=DMARC1; p=none;` the text `p=quarantine` makes the policy quarantine.
- The reason of an `AuthResult` is not written, and an `ARCResult` has no name, so that
  `Format` writes "=pass", which `Parse` reads as a result without a method.
- `Parse` cuts at ";" also within quotes, and keeps the quotes of a value. What
  follows the ";" is read as a result of its own, or, if its first word has no "=", ends
  the list with an error. White space within quotes cuts as well: a word with "=" in it is
  read as a parameter, and of two with one name the last counts (`parse.go`, `parseResult`).

*Mail*
- A malformed line of the header is an error, unless an address field before it is decoded,
  which sets the error back to nil (`mail.go:126`); the fields behind the line are
  lost without notice. If one of them is Content-Transfer-Encoding, `Decode` returns the text
  still encoded, without an error (`EncodingLost`).
- Header and body are cut at the first CR LF CR LF anywhere, and only without one at LF
  LF: a message with LF that has the former in its body is cut there. A message
  without header fields is cut at its first empty line, if it has one.
- A body that ends in the header of a part of the outermost multipart is taken for
  complete: `NextPart` returns `io.EOF` there, which ends the loop (`mail.go:206`).
- `Walk` and `Flatten` look for "multipart/" in the field as it was written, so an empty
  multipart spelled with a capital is a leaf. Names of encodings count in lower case
  only, except quoted-printable in a part, where the library undoes it. A charset that
  is not known is left as it is without an error.

*DKIM*
- A hundred empty writes in a row end the Signer's goroutine with an error, and writes fail
  before Close; Close reports it (`sign.go:174-186`).
- After a Close that failed a second Close returns nil, and `Signature` then
  panics (`sign.go`); Sign is not affected, since it gives up at the first.
- When its reader fails, `parallelVerify` returns without closing its pipes and its
  goroutines stay blocked for ever; hence the condition of `NoGoroutineLeft`.
- A name put more often into the tag h than the message has it is noticed only
  when a field of that name is added on the way. A tag that oversigns `DKIM-Signature` itself makes
  every verification fail, because the signer's own field is such an addition.

## Not modelled

- The *responses*: constants and their formatting. One of them is lazy: `StatusCode`
  fills `basicCode` of a canned response on first use, unsynchronized, and canned responses are
  shared by all connections (`enhanced.go:41`). Every writer writes the same value
  to a word that is either empty or has it, so no order of steps can be told apart.
- *Ids*: `XID` is a time, a host and a counter that is raised atomically. Of the counter
  24 bits are kept (`id.go:53`), so ids repeat after 2^24 messages in one second;
  a model of a counter would say no more.
- A *handler that calls Shutdown* waits for itself: `Shutdown` waits for
  `ListenAndServe`, which waits for the handlers (`server.go:189`, 217). In `Server` the callers are goroutines
  of the program, and `Return`'s fairness assumes that handlers return.
- The *peer of an IPv6 client* is cut at its first colon for SPF
  (`authentication.go:252`), after which nothing can be parsed: to the model the
  library's answer is any anyway.
- Of the *mail parser* dispositions, file names, forms, the layout of addresses, and the
  tables that map the bytes of a charset; `Data.Reader` and `Data.String`, which nothing
  in the server uses.
- Of *DKIM* the folding and parsing of tags and keys, and the arithmetic of signatures.
- *Logging*, the *backend interface*, the *example*, tests and mocks: no behaviour of
  their own.

## Plan

Done: `Server`, `Session` and their promises; `DkimSigner`, `DkimSign` and
`DkimVerify`; `Reader`; `Pipeline`; `Canonical` and `DkimHash`; `Dmarc`, `AuthField` and
`Authentication`; `Data` and `Mail`; the theorems about `Server`, `Session` with both refinements,
`Reader`, `Data`, `Pipeline`, `DkimSign`, `DkimVerify`, `DkimHash` and `Authentication`'s
verdicts. Left:
1. `FieldReadsBack`, with cutting and joining written as recursive functions of one
   separator, for which `SetInduction` serves as it does for `Canonical`.
2. The composition of `DkimSign` with `DkimHash`, so that a signature is of the bytes.
