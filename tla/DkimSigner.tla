----------------------------- MODULE DkimSigner -----------------------------
(***************************************************************************)
(* A Signer (authres/dkim/sign.go) and the one goroutine that uses it.     *)
(* The client writes the message into a pipe; a goroutine of the Signer    *)
(* reads it, hashes, signs, and reports on the channel done.  A message is *)
(* a number of lines, the first empty one ends its header.                 *)
(***************************************************************************)
EXTENDS Naturals, Sequences

CONSTANTS
    Options,    \* the SignOptions a caller may pass, as records (see Valid)
    MaxLines,   \* bound: the lines of a message
    MaxChunk,   \* bound: the lines of one Write
    MaxCloses,  \* bound: the calls of Close
    MaxEmptyReads \* bufio's maxConsecutiveEmptyReads

ASSUME LinesAssumption == MaxLines \in Nat
ASSUME ChunkAssumption == MaxChunk \in Nat
ASSUME ClosesAssumption == MaxCloses \in Nat
ASSUME EmptyReadsAssumption == MaxEmptyReads \in Nat \ {0}

VARIABLES
    blank,      \* which line of the message is the empty one, if it comes
    sent,       \* lines handed to pw.Write
    read,       \* lines the goroutine has taken out of the pipe
    empties,    \* Reads in a row that took nothing, each from an empty Write
    writer,     \* "open" or "closed": the pipe's write end
    reader,     \* "open" or "closed": its read end
    goroutine,  \* where the Signer's goroutine is
    result,     \* the error it is about to report, "nil" or "error"
    done,       \* the values in the channel, whose capacity is one
    doneClosed, \* "no" or "yes"
    sigParams,  \* s.sigParams: how many lines were signed, 0 for nil
    client,     \* where the client is
    lastWrite,  \* what the last Write returned
    closes      \* what each Close returned

pipeVars == <<sent, read, empties, writer, reader>>
doneVars == <<done, doneClosed>>
goVars == <<goroutine, result, sigParams>>
clientVars == <<client, lastWrite, closes>>
vars == <<blank, pipeVars, doneVars, goVars, clientVars>>

TypeOK ==
    /\ blank \in Nat \ {0}
    /\ sent \in Nat /\ read \in 0 .. sent
    /\ empties \in 0 .. 2 * MaxEmptyReads
    /\ writer \in {"open", "closed"} /\ reader \in {"open", "closed"}
    /\ goroutine \in {"none", "header", "body", "sign", "stop", "report",
                      "leave", "ended"}
    /\ result \in {"nil", "error"}
    /\ done \in Seq({"nil", "error"}) /\ Len(done) <= 1
    /\ doneClosed \in {"no", "yes"}
    /\ sigParams \in 0 .. sent
    /\ client \in {"new", "refused", "idle", "writing", "offering", "closing",
                   "panicked"}
    /\ lastWrite \in {"none", "nil", "error"}
    /\ closes \in Seq({"nil", "error"})

Init ==
    /\ blank \in 1 .. MaxLines + 1
    /\ sent = 0 /\ read = 0 /\ empties = 0
    /\ writer = "open" /\ reader = "open"
    /\ goroutine = "none" /\ result = "nil" /\ sigParams = 0
    /\ done = <<>> /\ doneClosed = "no"
    /\ client = "new" /\ lastWrite = "none" /\ closes = <<>>

---------------------------------------------------------------------------
(* The client.                                                             *)

\* The checks of NewSigner, in its order; "" is the field left out.
Valid(o) ==
    /\ o.given /\ o.domain # "" /\ o.selector # "" /\ o.key # ""
    /\ {o.headerCan, o.bodyCan} \subseteq {"", "simple", "relaxed"}
    /\ o.key \in {"rsa", "ed25519"}
    /\ o.hash \in {"", "sha256"}
    /\ o.headerKeys \in {"", "with From"}

NewSigner ==
    /\ client = "new"
    /\ \E o \in Options :
          IF Valid(o)
          THEN client' = "idle" /\ goroutine' = "header"
          ELSE client' = "refused" /\ UNCHANGED goroutine
    /\ UNCHANGED <<blank, pipeVars, doneVars, result, sigParams, lastWrite, closes>>

\* io.Pipe: either end closed makes a Write fail at once.  A Write of
\* nothing waits as well, for a Read to take nothing.
Write(n) ==
    /\ client = "idle"
    /\ sent + n <= MaxLines
    /\ IF writer = "closed" \/ reader = "closed"
       THEN lastWrite' = "error" /\ UNCHANGED <<sent, client>>
       ELSE /\ sent' = sent + n
            /\ client' = IF n = 0 THEN "offering" ELSE "writing"
            /\ UNCHANGED lastWrite
    /\ UNCHANGED <<blank, read, empties, writer, reader, doneVars, goVars, closes>>

WriteReturns ==
    /\ \/ client = "writing" /\ read = sent /\ lastWrite' = "nil"
       \/ client = "writing" /\ read # sent /\ reader = "closed" /\ lastWrite' = "error"
       \/ client = "offering" /\ reader = "closed" /\ lastWrite' = "error"
    /\ client' = "idle"
    /\ UNCHANGED <<blank, pipeVars, doneVars, goVars, closes>>

\* pw.Close never fails; the receive from done may block.
Close ==
    /\ client = "idle"
    /\ Len(closes) < MaxCloses
    /\ writer' = "closed"
    /\ client' = "closing"
    /\ UNCHANGED <<blank, sent, read, empties, reader, doneVars, goVars, lastWrite, closes>>

\* A receive from a closed and empty channel gives nil.
CloseReturns ==
    /\ client = "closing"
    /\ \/ done # <<>> /\ closes' = Append(closes, Head(done)) /\ done' = Tail(done)
       \/ done = <<>> /\ doneClosed = "yes" /\ closes' = Append(closes, "nil")
          /\ UNCHANGED done
    /\ client' = "idle"
    /\ UNCHANGED <<blank, pipeVars, doneClosed, goVars, lastWrite>>

\* Signature panics without sigParams, and changes nothing with them.
Signature ==
    /\ client = "idle"
    /\ sigParams = 0
    /\ client' = "panicked"
    /\ UNCHANGED <<blank, pipeVars, doneVars, goVars, lastWrite, closes>>

---------------------------------------------------------------------------
(* The goroutine.  closeReadWithError is the places "stop" and "report",   *)
(* the deferred close of done is "leave".                                  *)

\* A Read takes some of what the blocked Write offers.
Read ==
    /\ \E n \in 1 .. sent - read : read' = read + n
    /\ empties' = 0

AtEOF == read = sent /\ writer = "closed"

Fail ==
    /\ goroutine' = "stop"
    /\ result' = "error"

\* A Read takes nothing, and the empty Write will return.  After
\* MaxEmptyReads of them bufio reports io.ErrNoProgress: the body's copy
\* fails; bufio.ReadLine in the header fails too unless it holds the
\* beginning of a line, which it then takes for a line, once.
ReadNothing ==
    /\ goroutine \in {"header", "body"}
    /\ client = "offering" /\ client' = "writing"
    /\ empties' = empties + 1
    /\ \/ /\ empties' < MaxEmptyReads \/ goroutine = "header"
          /\ empties' < 2 * MaxEmptyReads
          /\ UNCHANGED <<goroutine, result>>
       \/ empties' \in {MaxEmptyReads, 2 * MaxEmptyReads} /\ Fail
    /\ UNCHANGED <<blank, sent, read, writer, reader, doneVars, sigParams,
                   lastWrite, closes>>

\* readHeader; bufio may have read past the empty line, which is kept.
ReadHeader ==
    /\ goroutine = "header"
    /\ Read
    /\ goroutine' = IF read' >= blank THEN "body" ELSE "header"
    /\ UNCHANGED <<blank, sent, writer, reader, doneVars, result, sigParams, clientVars>>

\* Mutant: the end of the pipe within the header is read again and again.
HeaderRetries ==
    /\ goroutine = "header"
    /\ AtEOF
    /\ UNCHANGED vars

HeaderFails ==
    /\ goroutine = "header"
    /\ AtEOF
    /\ Fail
    /\ UNCHANGED <<blank, pipeVars, doneVars, sigParams, clientVars>>

\* Mutant: a pause of the client is taken for the end of the message.
CopyBodyEager ==
    /\ goroutine = "body"
    /\ \/ Read /\ UNCHANGED goroutine
       \/ read = sent /\ goroutine' = "sign" /\ UNCHANGED <<read, empties>>
    /\ UNCHANGED <<blank, sent, writer, reader, doneVars, result, sigParams, clientVars>>

\* io.Copy into the canonicalizer, and at EOF the body's hash.
CopyBody ==
    /\ goroutine = "body"
    /\ \/ Read /\ UNCHANGED goroutine
       \/ AtEOF /\ goroutine' = "sign" /\ UNCHANGED <<read, empties>>
    /\ UNCHANGED <<blank, sent, writer, reader, doneVars, result, sigParams, clientVars>>

\* Mutant: the error of options.Signer.Sign is lost.
SignShadowsError ==
    /\ goroutine = "sign"
    /\ goroutine' = "stop" /\ result' = "nil"
    /\ sigParams' \in {0, read}
    /\ UNCHANGED <<blank, pipeVars, doneVars, clientVars>>

\* options.Signer.Sign may fail; what is signed is all that was read.
Sign ==
    /\ goroutine = "sign"
    /\ \/ Fail /\ UNCHANGED sigParams
       \/ sigParams' = read /\ goroutine' = "stop" /\ result' = "nil"
    /\ UNCHANGED <<blank, pipeVars, doneVars, clientVars>>

CloseReader ==
    /\ goroutine = "stop"
    /\ reader' = "closed"
    /\ goroutine' = "report"
    /\ UNCHANGED <<blank, sent, read, empties, writer, doneVars, result, sigParams, clientVars>>

Report ==
    /\ goroutine = "report"
    /\ Len(done) < 1
    /\ done' = Append(done, result)
    /\ goroutine' = "leave"
    /\ UNCHANGED <<blank, pipeVars, doneClosed, result, sigParams, clientVars>>

CloseDone ==
    /\ goroutine = "leave"
    /\ doneClosed' = "yes"
    /\ goroutine' = "ended"
    /\ UNCHANGED <<blank, pipeVars, done, result, sigParams, clientVars>>

GoroutineStep ==
    \/ ReadNothing \/ ReadHeader \/ HeaderFails \/ CopyBody \/ Sign
    \/ CloseReader \/ Report \/ CloseDone

ClientStep ==
    \/ NewSigner
    \/ \E n \in 0 .. MaxChunk : Write(n)
    \/ WriteReturns
    \/ Close
    \/ CloseReturns
    \/ Signature

Next == GoroutineStep \/ ClientStep

(* The scheduler runs the goroutine, and a call whose wait is over.  No    *)
(* client need ever make another call.                                     *)
Fairness ==
    /\ WF_vars(GoroutineStep)
    /\ WF_vars(WriteReturns)
    /\ WF_vars(CloseReturns)

Spec == Init /\ [][Next]_vars /\ Fairness

---------------------------------------------------------------------------
(* A signature covers the whole message, header and body, and is made only *)
(* when the writer has said that nothing more comes.                       *)
SignatureCoversMessage ==
    sigParams # 0 => sigParams = sent /\ blank <= sent /\ writer = "closed"

(* The client is told the truth.  No Write before Close fails: the         *)
(* goroutine reads on to the end, unless MaxEmptyReads empty Writes came   *)
(* in a row.  The first Close gives nil exactly when there is a signature  *)
(* (sign.go:80, "After a successful Close, Signature can be called"): the  *)
(* goroutine's error is reported.  A later Close gives nil whatever the    *)
(* first said.                                                             *)
CallsTruthful ==
    /\ writer = "open" /\ empties < MaxEmptyReads =>
          lastWrite # "error" /\ reader = "open"
    /\ closes # <<>> => (closes[1] = "nil" <=> sigParams # 0)

(* A Signer that was closed leaves no goroutine behind.                    *)
NoGoroutineLeft == writer = "closed" ~> goroutine = "ended"
=============================================================================
