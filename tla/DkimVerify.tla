----------------------------- MODULE DkimVerify -----------------------------
(***************************************************************************)
(* One call of VerifyWithOptions (authres/dkim/verify.go).  One signature  *)
(* is verified by the caller itself, straight from its reader r.  Several  *)
(* are verified by a goroutine each; the caller copies the body of the     *)
(* message into a pipe of each goroutine and collects a verdict from a     *)
(* channel of each.  A signature is the set of the checks it fails.        *)
(***************************************************************************)
EXTENDS Integers, Sequences

CONSTANTS
    Kinds,          \* the signatures a message may bear
    MaxSignatures,  \* bound: how many of them
    MaxBody,        \* bound: the pieces in which r delivers the body
    Limits          \* the values of options.MaxVerifications, 0 for no limit

\* The checks of verify that come before it reads the body, in its order;
\* "unavailable" to "short" are those of the key query (query.go), which is not
\* made when there is no method that is supported.
Checks == <<"tags", "version", "required", "identity", "from", "time",
            "expired", "method", "unavailable", "no key", "key count",
            "key syntax", "revoked", "short", "algorithm", "hash", "key",
            "service", "canonicalization", "length", "base64">>

\* The checks of verify that need the whole body.
BodyChecks == {"body hash", "signature"}

ASSUME KindsAssumption ==
    \A k \in Kinds : k \subseteq {Checks[j] : j \in DOMAIN Checks} \cup BodyChecks
ASSUME LimitsAssumption == Limits \subseteq Nat
ASSUME BoundsAssumption == MaxSignatures \in Nat /\ MaxBody \in Nat

VARIABLES
    header,   \* the signatures in the header, from the top
    readable, \* "yes", or "no" when r fails within the header
    limit,    \* options.MaxVerifications
    body,     \* how many pieces the body has
    ending,   \* how r ends: "eof" or "error"
    main,     \* where the caller is
    copied,   \* pieces the caller has taken from r
    turn,     \* the pipe io.MultiWriter writes to, 0 between two pieces
    pipes,    \* "open" or "closed": the write ends of the pipes
    worker,   \* of a signature: where the goroutine that verifies it is
    seen,     \* of a signature: the pieces its hasher was given
    verdict,  \* of a signature: what verify returned
    chans,    \* of a signature: the verdict in its channel
    verifs,   \* the verdicts collected
    err       \* the error returned: "none", "read", "too many"

input == <<header, readable, limit, body, ending>>
workVars == <<worker, seen, verdict, chans>>
vars == <<input, main, copied, turn, pipes, workVars, verifs, err>>

TooMany == limit > 0 /\ Len(header) > limit

\* The signatures to verify.
signatures == IF TooMany THEN SubSeq(header, 1, limit) ELSE header

Ids == 1 .. Len(signatures)

Verdicts == {"valid", "fail", "perm", "temp"}

TypeOK ==
    /\ header \in Seq(Kinds) /\ readable \in {"yes", "no"}
    /\ limit \in Nat /\ body \in Nat /\ ending \in {"eof", "error"}
    /\ main \in {"scan", "single", "copy", "collect", "returned"}
    /\ copied \in 0 .. body
    /\ pipes \in {"open", "closed"}
    /\ turn \in 0 .. Len(signatures)
    /\ worker \in [Ids -> {"none", "check", "hash", "drain", "send", "ended"}]
    /\ seen \in [Ids -> 0 .. body]
    /\ verdict \in [Ids -> Verdicts \cup {"none"}]
    /\ chans \in [Ids -> Verdicts \cup {"none"}]
    /\ verifs \in Seq(Verdicts)
    /\ err \in {"none", "read", "too many"}

Init ==
    /\ header \in UNION {[1 .. n -> Kinds] : n \in 0 .. MaxSignatures}
    /\ readable \in {"yes", "no"}
    /\ limit \in Limits /\ body \in 0 .. MaxBody /\ ending \in {"eof", "error"}
    /\ main = "scan" /\ copied = 0 /\ turn = 0 /\ pipes = "open"
    /\ worker = [i \in Ids |-> "none"] /\ seen = [i \in Ids |-> 0]
    /\ verdict = [i \in Ids |-> "none"] /\ chans = [i \in Ids |-> "none"]
    /\ verifs = <<>> /\ err = "none"

---------------------------------------------------------------------------
(* verify.                                                                 *)

Class(check) ==
    CASE check = "unavailable" -> "temp"
      [] check = "length"      -> "fail"
      [] OTHER                 -> "perm"

Failing(sig) == {j \in DOMAIN Checks : Checks[j] \in sig}

\* What the first check that fails makes of a signature.
EarlyVerdict(sig) ==
    Class(Checks[CHOOSE j \in Failing(sig) : \A k \in Failing(sig) : j <= k])

\* What verify makes of a signature after it has hashed n pieces.
BodyVerdict(sig, n) ==
    IF n # body \/ sig \cap BodyChecks # {} THEN "fail" ELSE "valid"

---------------------------------------------------------------------------
(* The caller.                                                             *)

Return(v, e) == main' = "returned" /\ verifs' = v /\ err' = e

LimitError == IF TooMany THEN "too many" ELSE "none"

\* readHeader fails.
HeaderFails ==
    /\ main = "scan" /\ readable = "no"
    /\ Return(<<>>, "read")
    /\ UNCHANGED <<input, copied, turn, pipes, workVars>>

\* The header is scanned; parallelVerify starts its goroutines.
Scan ==
    /\ main = "scan" /\ readable = "yes"
    /\ IF Len(signatures) = 1
       THEN main' = "single" /\ UNCHANGED worker
       ELSE main' = "copy" /\ worker' = [i \in Ids |-> "check"]
    /\ UNCHANGED <<input, copied, turn, pipes, seen, verdict, chans, verifs, err>>

\* The only signature fails before the body is read, which stays in r.
SingleEarly ==
    /\ main = "single" /\ Failing(signatures[1]) # {}
    /\ Return(<<EarlyVerdict(signatures[1])>>, LimitError)
    /\ UNCHANGED <<input, copied, turn, pipes, workVars>>

SingleRead ==
    /\ main = "single" /\ Failing(signatures[1]) = {}
    /\ copied < body
    /\ copied' = copied + 1
    /\ seen' = [seen EXCEPT ![1] = @ + 1]
    /\ UNCHANGED <<input, main, turn, pipes, worker, verdict, chans, verifs, err>>

\* An error of r is not one of the three kinds verify makes: it is returned.
SingleEnd ==
    /\ main = "single" /\ Failing(signatures[1]) = {}
    /\ copied = body
    /\ IF ending = "error"
       THEN Return(<<>>, "read")
       ELSE Return(<<BodyVerdict(signatures[1], seen[1])>>, LimitError)
    /\ UNCHANGED <<input, copied, turn, pipes, workVars>>

\* io.Copy takes a piece from r, for every pipe in turn.
CopyRead ==
    /\ main = "copy" /\ turn = 0
    /\ copied < body
    /\ copied' = copied + 1
    /\ turn' = IF Ids = {} THEN 0 ELSE 1
    /\ UNCHANGED <<input, main, pipes, workVars, verifs, err>>

\* A write to a pipe returns when its goroutine has read the piece, to hash
\* it or to discard it.
Handover(i) ==
    /\ main = "copy" /\ turn = i
    /\ worker[i] \in {"hash", "drain"}
    /\ turn' = IF i = Len(signatures) THEN 0 ELSE i + 1
    /\ seen' = IF worker[i] = "hash" THEN [seen EXCEPT ![i] = @ + 1] ELSE seen
    /\ UNCHANGED <<input, main, copied, pipes, worker, verdict, chans, verifs, err>>

\* io.Copy ends: with r, and the pipes are closed; or with an error of r, and
\* they are not.
CopyEnds ==
    /\ main = "copy" /\ turn = 0
    /\ copied = body
    /\ IF ending = "error"
       THEN Return(<<>>, "read") /\ UNCHANGED pipes
       ELSE pipes' = "closed" /\ main' = "collect" /\ UNCHANGED <<verifs, err>>
    /\ UNCHANGED <<input, copied, turn, workVars>>

\* One receive per channel, in the order of the signatures.
Collect ==
    /\ main = "collect" /\ Len(verifs) < Len(signatures)
    /\ LET i == Len(verifs) + 1
       IN /\ chans[i] # "none"
          /\ verifs' = Append(verifs, chans[i])
          /\ chans' = [chans EXCEPT ![i] = "none"]
    /\ UNCHANGED <<input, main, copied, turn, pipes, worker, seen, verdict, err>>

\* Mutant: the first bad verdict ends the call.
CollectedEarly ==
    /\ main = "collect"
    /\ Len(verifs) = Len(signatures) \/ \E i \in DOMAIN verifs : verifs[i] # "valid"
    /\ Return(verifs, LimitError)
    /\ UNCHANGED <<input, copied, turn, pipes, workVars>>

Collected ==
    /\ main = "collect" /\ Len(verifs) = Len(signatures)
    /\ Return(verifs, LimitError)
    /\ UNCHANGED <<input, copied, turn, pipes, workVars>>

---------------------------------------------------------------------------
(* The goroutine of signature i.                                           *)

\* Mutant: a goroutine that has its verdict does not consume the rest.
DecideWithoutDrain(i, v) ==
    /\ verdict' = [verdict EXCEPT ![i] = v]
    /\ worker' = [worker EXCEPT ![i] = "send"]
    /\ UNCHANGED <<input, main, copied, turn, pipes, seen, chans, verifs, err>>

Decide(i, v) ==
    /\ verdict' = [verdict EXCEPT ![i] = v]
    /\ worker' = [worker EXCEPT ![i] = "drain"]
    /\ UNCHANGED <<input, main, copied, turn, pipes, seen, chans, verifs, err>>

\* Mutant: the goroutines share the loop variable, which is at the last signature.
CheckEarlyOfLast(i) ==
    /\ worker[i] = "check" /\ Failing(signatures[Len(signatures)]) # {}
    /\ Decide(i, EarlyVerdict(signatures[Len(signatures)]))

CheckEarly(i) ==
    /\ worker[i] = "check" /\ Failing(signatures[i]) # {}
    /\ Decide(i, EarlyVerdict(signatures[i]))

CheckPasses(i) ==
    /\ worker[i] = "check" /\ Failing(signatures[i]) = {}
    /\ worker' = [worker EXCEPT ![i] = "hash"]
    /\ UNCHANGED <<input, main, copied, turn, pipes, seen, verdict, chans, verifs, err>>

HashEnds(i) ==
    /\ worker[i] = "hash" /\ pipes = "closed"
    /\ Decide(i, BodyVerdict(signatures[i], seen[i]))

DrainEnds(i) ==
    /\ worker[i] = "drain" /\ pipes = "closed"
    /\ worker' = [worker EXCEPT ![i] = "send"]
    /\ UNCHANGED <<input, main, copied, turn, pipes, seen, verdict, chans, verifs, err>>

Send(i) ==
    /\ worker[i] = "send"
    /\ chans[i] = "none"
    /\ chans' = [chans EXCEPT ![i] = verdict[i]]
    /\ worker' = [worker EXCEPT ![i] = "ended"]
    /\ UNCHANGED <<input, main, copied, turn, pipes, seen, verdict, verifs, err>>

Caller ==
    \/ HeaderFails \/ Scan \/ SingleEarly \/ SingleRead \/ SingleEnd
    \/ CopyRead \/ (\E i \in Ids : Handover(i)) \/ CopyEnds
    \/ Collect \/ Collected

Worker(i) ==
    CheckEarly(i) \/ CheckPasses(i) \/ HashEnds(i) \/ DrainEnds(i) \/ Send(i)

Next == Caller \/ \E i \in Ids : Worker(i)

(* Whoever can run runs: the caller's reader always answers.               *)
Spec ==
    /\ Init /\ [][Next]_vars
    /\ WF_vars(Caller)
    /\ \A i \in 1 .. MaxSignatures : WF_vars(i \in Ids /\ Worker(i))

---------------------------------------------------------------------------
(* The verdict a signature deserves.                                       *)
Deserved(sig) ==
    IF Failing(sig) # {} THEN EarlyVerdict(sig) ELSE BodyVerdict(sig, body)

(* Verify returns one verdict per signature, in their order, each the one  *)
(* its own signature deserves, however the goroutines were scheduled; no   *)
(* verdict is about a body that was not read to its end.  With too many    *)
(* signatures the first ones are judged and the others are an error.       *)
VerdictsDeserved ==
    main = "returned" /\ err # "read" =>
       /\ err = "too many" <=> Len(verifs) < Len(header)
       /\ Len(verifs) = Len(signatures)
       /\ \A i \in DOMAIN verifs : verifs[i] = Deserved(signatures[i])
       /\ (\E i \in DOMAIN verifs : verifs[i] = "valid") => ending = "eof"

(* Every goroutine is over when Verify returns, unless r failed: then the  *)
(* pipes stay open and the goroutines wait in them for ever.               *)
NoGoroutineLeft ==
    main = "returned" /\ err # "read" => \A i \in Ids : worker[i] \in {"none", "ended"}

(* Verify returns: no goroutine waits for the caller while the caller      *)
(* waits for it, also when some goroutines do not want the body.           *)
VerifyReturns == <>(main = "returned")
=============================================================================
