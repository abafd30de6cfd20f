------------------------------ MODULE DkimSign ------------------------------
(***************************************************************************)
(* The function Sign (authres/dkim/sign.go) as a client of a Signer: it    *)
(* copies the message from a reader into a buffer and into the Signer,     *)
(* closes the Signer, and writes the signature and the buffer to w.  Its   *)
(* deferred Close makes a second Close the normal case.  With step "off"   *)
(* the Signer has a client of any other kind.                              *)
(***************************************************************************)
EXTENDS DkimSigner

VARIABLES
    step,   \* where Sign is, "off" when the client is another one
    ret,    \* what Sign will return
    field,  \* "no", "part" or "yes": of the DKIM-Signature field, what is in w
    copied  \* lines of the buffer written to w

signVars == <<step, ret, field, copied>>
allVars == <<vars, signVars>>

SignTypeOK ==
    /\ TypeOK
    /\ step \in {"off", "start", "copy", "close", "emit", "flush", "defer",
                 "closing", "returned"}
    /\ ret \in {"nil", "error"}
    /\ field \in {"no", "part", "yes"}
    /\ copied \in 0 .. sent

SignInit ==
    /\ Init
    /\ step \in {"off", "start"} /\ ret = "nil"
    /\ field = "no" /\ copied = 0

\* Sign goes to its deferred Close with an error.
GiveUp == ret' = "error" /\ step' = "defer"

SignNew ==
    /\ step = "start"
    /\ NewSigner
    /\ IF client' = "idle"
       THEN step' = "copy" /\ UNCHANGED ret
       ELSE step' = "returned" /\ ret' = "error"
    /\ UNCHANGED <<field, copied>>

\* io.Copy: r has more, is at its end, or fails, or the Signer has failed.
SignCopy ==
    /\ step = "copy"
    /\ \/ lastWrite # "error" /\ (\E n \in 0 .. MaxChunk : Write(n))
          /\ UNCHANGED <<step, ret>>
       \/ lastWrite # "error" /\ Close /\ step' = "close" /\ UNCHANGED ret
       \/ client = "idle" /\ GiveUp /\ UNCHANGED vars
    /\ UNCHANGED <<field, copied>>

\* Mutant: the error of Close is not looked at.
SignClosedUnchecked ==
    /\ step = "close" /\ client = "idle"
    /\ step' = "emit"
    /\ UNCHANGED <<vars, ret, field, copied>>

SignClosed ==
    /\ step = "close" /\ client = "idle"
    /\ IF closes[1] = "nil" THEN step' = "emit" /\ UNCHANGED ret ELSE GiveUp
    /\ UNCHANGED <<vars, field, copied>>

\* s.Signature, which would panic without sigParams, and the write to w,
\* which may fail after a part of the field or all of it.
SignEmit ==
    /\ step = "emit"
    /\ sigParams # 0
    /\ \/ field' = "yes" /\ step' = "flush" /\ UNCHANGED ret
       \/ GiveUp /\ field' \in {"no", "part", "yes"}
    /\ UNCHANGED <<vars, copied>>

SignFlush ==
    /\ step = "flush"
    /\ copied' \in 0 .. sent
    /\ step' = "defer"
    /\ ret' = "error" \/ (copied' = sent /\ ret' = "nil")
    /\ UNCHANGED <<vars, field>>

\* Mutant: Sign returns an error without closing the Signer.
SignDeferForgotten ==
    /\ step = "defer"
    /\ step' = "returned"
    /\ UNCHANGED <<vars, ret, field, copied>>

SignDefer ==
    /\ step = "defer"
    /\ Close
    /\ step' = "closing"
    /\ UNCHANGED <<ret, field, copied>>

SignReturns ==
    /\ step = "closing" /\ client = "idle"
    /\ step' = "returned"
    /\ UNCHANGED <<vars, ret, field, copied>>

SignStep ==
    \/ SignNew \/ SignCopy \/ SignClosed \/ SignEmit
    \/ SignFlush \/ SignDefer \/ SignReturns

SignNext ==
    \/ (GoroutineStep \/ WriteReturns \/ CloseReturns) /\ UNCHANGED signVars
    \/ step = "off" /\ ClientStep /\ UNCHANGED signVars
    \/ SignStep

(* Sign runs, and its reader comes to an end.                              *)
SignSpec ==
    /\ SignInit /\ [][SignNext]_allVars
    /\ Fairness
    /\ WF_allVars(SignStep)

---------------------------------------------------------------------------
(* What Sign has written to w is a beginning of the signed message: the    *)
(* field, of a signature over the whole message, and after all of it that  *)
(* message.  When Sign returns nil, it is all there.  Signature is called  *)
(* only when there is one.                                                 *)
SignedOrNothing ==
    /\ step = "emit" => sigParams # 0
    /\ copied # 0 => field = "yes"
    /\ field # "no" => sigParams = sent /\ sent # 0
    /\ step = "returned" /\ ret = "nil" => field = "yes" /\ copied = sent

(* Sign returns, and whichever way it returned, the goroutine it started   *)
(* comes to its end: the deferred Close is what an early return needs.     *)
SignTerminates ==
    step = "start" ~> step = "returned" /\ goroutine \in {"none", "ended"}
=============================================================================
