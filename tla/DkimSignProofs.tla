--------------------------- MODULE DkimSignProofs ---------------------------
(***************************************************************************)
(* Safety of the DKIM signer, for messages, writes and calls of Close      *)
(* without a bound on their number.  The invariant says for each place of  *)
(* the goroutine what the pipe and the channel can be, and for each place  *)
(* of Sign what has been closed and written.                               *)
(***************************************************************************)
EXTENDS DkimSign, TLAPS

\* The goroutine reads to the end before it stops, unless too many Reads
\* took nothing, and stops before the reader is closed.
Piped ==
    /\ reader = "closed" <=> goroutine \in {"report", "leave", "ended"}
    /\ goroutine = "body" => blank <= read
    /\ goroutine = "sign" => blank <= read /\ read = sent /\ writer = "closed"
    /\ goroutine \in {"stop", "report", "leave", "ended"} =>
          writer = "closed" \/ empties >= MaxEmptyReads
    /\ client \in {"writing", "offering"} => writer = "open"
    /\ client = "new" => writer = "open" /\ goroutine = "none"
    /\ writer = "open" /\ lastWrite = "error" => reader = "closed"

\* There is a signature when the goroutine has no error to report.
Signed ==
    /\ goroutine \in {"none", "header", "body", "sign"} => sigParams = 0
    /\ goroutine \in {"stop", "report", "leave", "ended"} =>
          \/ result = "error" /\ sigParams = 0
          \/ result = "nil" /\ sigParams = sent /\ blank <= sent /\ writer = "closed"

\* The one report is in the channel until the first Close takes it.
Reported ==
    /\ goroutine \notin {"leave", "ended"} => done = <<>> /\ closes = <<>>
    /\ goroutine \in {"leave", "ended"} =>
          \/ closes = <<>> /\ done = <<result>>
          \/ closes # <<>> /\ done = <<>> /\ closes[1] = result
    /\ doneClosed = "yes" => goroutine = "ended"

\* What Sign has done by each of its places.
Progress ==
    /\ step \in {"start", "off"} => copied = 0 /\ field = "no"
    /\ step \in {"copy", "close", "emit"} => copied = 0 /\ field = "no"
    /\ step = "flush" => copied = 0 /\ field = "yes"
    /\ step = "copy" => closes = <<>> /\ client # "closing"
    /\ step = "close" => client = "closing" \/ (client = "idle" /\ closes # <<>>)
    /\ step \in {"emit", "flush"} => closes # <<>> /\ closes[1] = "nil"
    /\ field # "yes" => copied = 0
    /\ field # "no" => sigParams # 0
    /\ step \in {"defer", "closing", "returned"} /\ ret = "nil" =>
          field = "yes" /\ copied = sent

Inv == SignTypeOK /\ Piped /\ Signed /\ Reported /\ Progress

USE LinesAssumption, ChunkAssumption, ClosesAssumption, EmptyReadsAssumption

LEMMA InitInv == SignInit => Inv
BY DEF SignInit, Init, Inv, SignTypeOK, TypeOK, Piped, Signed, Reported, Progress

(* The steps of the goroutine and of blocked calls, under any client.      *)
LEMMA GoroutineInv ==
    ASSUME Inv, GoroutineStep, UNCHANGED signVars
    PROVE  Inv'
<1> USE DEF Inv, signVars, vars, pipeVars, doneVars, goVars, clientVars
<1>0. CASE ReadNothing
  BY <1>0 DEF ReadNothing, Fail, SignTypeOK, TypeOK, Piped, Signed, Reported, Progress
<1>1. CASE ReadHeader
  BY <1>1 DEF ReadHeader, Read, SignTypeOK, TypeOK, Piped, Signed, Reported, Progress
<1>2. CASE HeaderFails
  BY <1>2 DEF HeaderFails, Fail, AtEOF, SignTypeOK, TypeOK, Piped, Signed, Reported, Progress
<1>3. CASE CopyBody
  BY <1>3 DEF CopyBody, Read, AtEOF, SignTypeOK, TypeOK, Piped, Signed, Reported, Progress
<1>4. CASE Sign
  BY <1>4 DEF Sign, Fail, SignTypeOK, TypeOK, Piped, Signed, Reported, Progress
<1>5. CASE CloseReader
  BY <1>5 DEF CloseReader, SignTypeOK, TypeOK, Piped, Signed, Reported, Progress
<1>6. CASE Report
  BY <1>6 DEF Report, SignTypeOK, TypeOK, Piped, Signed, Reported, Progress
<1>7. CASE CloseDone
  BY <1>7 DEF CloseDone, SignTypeOK, TypeOK, Piped, Signed, Reported, Progress
<1> QED BY <1>0, <1>1, <1>2, <1>3, <1>4, <1>5, <1>6, <1>7 DEF GoroutineStep

LEMMA AnswerInv ==
    ASSUME Inv, WriteReturns \/ CloseReturns, UNCHANGED signVars
    PROVE  Inv'
<1> USE DEF Inv, signVars, vars, pipeVars, doneVars, goVars, clientVars
<1>1. CASE WriteReturns
  BY <1>1 DEF WriteReturns, SignTypeOK, TypeOK, Piped, Signed, Reported, Progress
<1>2. CASE CloseReturns
  <2>1. closes \in Seq({"nil", "error"}) /\ result \in {"nil", "error"}
    BY DEF SignTypeOK, TypeOK
  <2>2. CASE done # <<>> /\ closes' = Append(closes, Head(done)) /\ done' = Tail(done)
    <3>1. goroutine \in {"leave", "ended"} /\ closes = <<>> /\ done = <<result>>
      BY <2>2 DEF Reported, SignTypeOK, TypeOK
    <3>2. closes' = <<result>> /\ done' = <<>>
      BY <2>1, <2>2, <3>1
    <3>3. /\ closes' \in Seq({"nil", "error"}) /\ closes' # <<>> /\ closes'[1] = result
          /\ done' \in Seq({"nil", "error"}) /\ Len(done') <= 1
      BY <2>1, <3>2
    <3>4. /\ client = "closing" /\ client' = "idle"
          /\ UNCHANGED <<blank, pipeVars, doneClosed, goVars, lastWrite>>
      BY <1>2 DEF CloseReturns
    <3>5. SignTypeOK' /\ Piped' /\ Signed'
      BY ONLY Inv, UNCHANGED signVars, <3>3, <3>4
         DEF Inv, signVars, pipeVars, goVars, SignTypeOK, TypeOK, Piped, Signed
    <3>6. Reported'
      <4>1. goroutine' = goroutine /\ result' = result /\ doneClosed' = doneClosed
        BY <3>4 DEF goVars
      <4>2. doneClosed = "yes" => goroutine = "ended"
        BY DEF Reported
      <4> QED
        BY ONLY <3>1, <3>2, <3>3, <4>1, <4>2 DEF Reported
    <3>7. Progress'
      BY ONLY Inv, UNCHANGED signVars, <3>1, <3>3, <3>4
         DEF Inv, signVars, pipeVars, goVars, Progress
    <3> QED
      BY <3>5, <3>6, <3>7
  <2>3. CASE done = <<>> /\ doneClosed = "yes" /\ closes' = Append(closes, "nil") /\ done' = <<>>
    <3>1. closes # <<>> /\ goroutine = "ended" /\ closes[1] = result
      BY <2>3 DEF Reported
    <3>2. closes' \in Seq({"nil", "error"}) /\ closes' # <<>> /\ closes'[1] = closes[1]
      BY <2>1, <2>3, <3>1
    <3> QED
      BY <1>2, <2>3, <3>1, <3>2 DEF CloseReturns, SignTypeOK, TypeOK, Piped, Signed, Reported, Progress
  <2> QED BY <1>2, <2>2, <2>3 DEF CloseReturns
<1> QED BY <1>1, <1>2

(* A client that is not Sign.                                              *)
LEMMA ClientInv ==
    ASSUME Inv, step = "off", ClientStep, UNCHANGED signVars
    PROVE  Inv'
<1> USE DEF Inv, signVars, vars, pipeVars, doneVars, goVars, clientVars
<1>1. CASE NewSigner
  BY <1>1 DEF NewSigner, SignTypeOK, TypeOK, Piped, Signed, Reported, Progress
<1>2. CASE \E n \in 0 .. MaxChunk : Write(n)
  BY <1>2 DEF Write, SignTypeOK, TypeOK, Piped, Signed, Reported, Progress
<1>3. CASE Close
  BY <1>3 DEF Close, SignTypeOK, TypeOK, Piped, Signed, Reported, Progress
<1>4. CASE Signature
  BY <1>4 DEF Signature, SignTypeOK, TypeOK, Piped, Signed, Reported, Progress
<1>5. CASE WriteReturns \/ CloseReturns
  BY <1>5, AnswerInv
<1> QED BY <1>1, <1>2, <1>3, <1>4, <1>5 DEF ClientStep

(* Sign as the client.                                                     *)
LEMMA SignStepInv ==
    ASSUME Inv, SignStep
    PROVE  Inv'
<1> USE DEF Inv, signVars, vars, pipeVars, doneVars, goVars, clientVars
<1>1. CASE SignNew
  BY <1>1 DEF SignNew, NewSigner, SignTypeOK, TypeOK, Piped, Signed, Reported, Progress
<1>2. CASE SignCopy
  <2>1. CASE lastWrite # "error" /\ (\E n \in 0 .. MaxChunk : Write(n)) /\ UNCHANGED <<step, ret>>
    BY <1>2, <2>1 DEF SignCopy, Write, SignTypeOK, TypeOK, Piped, Signed, Reported, Progress
  <2>2. CASE lastWrite # "error" /\ Close /\ step' = "close" /\ UNCHANGED ret
    <3>1. step = "copy" /\ closes = <<>> /\ UNCHANGED <<field, copied>>
      BY <1>2 DEF SignCopy, Progress
    <3> QED
      BY <2>2, <3>1 DEF Close, SignTypeOK, TypeOK, Piped, Signed, Reported, Progress
  <2>3. CASE client = "idle" /\ GiveUp /\ UNCHANGED vars
    BY <1>2, <2>3 DEF SignCopy, GiveUp, SignTypeOK, TypeOK, Piped, Signed, Reported, Progress
  <2> QED BY <1>2, <2>1, <2>2, <2>3 DEF SignCopy
<1>3. CASE SignClosed
  BY <1>3 DEF SignClosed, GiveUp, SignTypeOK, TypeOK, Piped, Signed, Reported, Progress
<1>4. CASE SignEmit
  BY <1>4 DEF SignEmit, GiveUp, SignTypeOK, TypeOK, Piped, Signed, Reported, Progress
<1>5. CASE SignFlush
  BY <1>5 DEF SignFlush, SignTypeOK, TypeOK, Piped, Signed, Reported, Progress
<1>6. CASE SignDefer
  BY <1>6 DEF SignDefer, Close, SignTypeOK, TypeOK, Piped, Signed, Reported, Progress
<1>7. CASE SignReturns
  BY <1>7 DEF SignReturns, SignTypeOK, TypeOK, Piped, Signed, Reported, Progress
<1> QED BY <1>1, <1>2, <1>3, <1>4, <1>5, <1>6, <1>7 DEF SignStep

LEMMA NextInv == Inv /\ [SignNext]_allVars => Inv'
<1> SUFFICES ASSUME Inv, [SignNext]_allVars PROVE Inv'
  OBVIOUS
<1>1. CASE UNCHANGED allVars
  BY <1>1 DEF allVars, signVars, vars, pipeVars, doneVars, goVars, clientVars, Inv,
     SignTypeOK, TypeOK, Piped, Signed, Reported, Progress
<1>2. CASE SignNext
  BY <1>2, GoroutineInv, AnswerInv, ClientInv, SignStepInv DEF SignNext
<1> QED BY <1>1, <1>2

THEOREM Invariance == SignSpec => []Inv
BY InitInv, NextInv, PTL DEF SignSpec

---------------------------------------------------------------------------
(* Types, for any number of lines, chunks and calls of Close.              *)
THEOREM Types == SignSpec => []SignTypeOK
<1>1. Inv => SignTypeOK
  BY DEF Inv
<1> QED BY <1>1, Invariance, PTL

(* A signature is over the whole message (sign.go:185-277), whoever uses   *)
(* the Signer.                                                             *)
THEOREM SignaturesAreWhole == SignSpec => []SignatureCoversMessage
<1>1. Inv => SignatureCoversMessage
  BY DEF Inv, SignTypeOK, TypeOK, Piped, Signed, SignatureCoversMessage
<1> QED BY <1>1, Invariance, PTL

(* No Write before Close fails unless MaxEmptyReads empty ones came in a   *)
(* row, and the first Close says whether there is a signature              *)
(* (sign.go:284-294).                                                      *)
THEOREM CallsTellTheTruth == SignSpec => []CallsTruthful
<1>1. Inv => CallsTruthful
  BY DEF Inv, SignTypeOK, TypeOK, Piped, Signed, Reported, CallsTruthful
<1> QED BY <1>1, Invariance, PTL

(* What Sign writes is nothing or a signed message, all of it when Sign    *)
(* returns nil, and Signature does not panic in Sign (sign.go:309-333).    *)
THEOREM SignsOrWritesNothing == SignSpec => []SignedOrNothing
<1>1. Inv => SignedOrNothing
  BY DEF Inv, SignTypeOK, TypeOK, Piped, Signed, Reported, Progress, SignedOrNothing
<1> QED BY <1>1, Invariance, PTL
=============================================================================
