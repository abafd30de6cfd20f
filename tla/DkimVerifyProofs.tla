-------------------------- MODULE DkimVerifyProofs --------------------------
(***************************************************************************)
(* Safety of one call of Verify, for any signatures, limits and bodies.    *)
(* A goroutine that has not decided was handed exactly the pieces whose    *)
(* turn has passed it; when the pipes are closed these are all.  So what a *)
(* goroutine decides is what its signature deserves, and what the caller   *)
(* collects is what the goroutines decided.                                *)
(***************************************************************************)
EXTENDS DkimVerify, TLAPS

\* What depends on the input of the call only.
deserved == [i \in Ids |-> Deserved(signatures[i])]
passing == {i \in Ids : Failing(signatures[i]) = {}}

LEMMA InputKept ==
    ASSUME UNCHANGED input
    PROVE  /\ Ids' = Ids /\ Len(signatures)' = Len(signatures) /\ Len(header)' = Len(header)
           /\ deserved' = deserved /\ passing' = passing
           /\ LimitError' = LimitError /\ TooMany' = TooMany
BY DEF input, Ids, signatures, TooMany, LimitError, deserved, passing,
       Deserved, Failing, EarlyVerdict, BodyVerdict

\* The numbers and verdicts of a message.
Judged ==
    /\ Ids = 1 .. Len(signatures) /\ Len(signatures) \in Nat
    /\ Len(signatures) < Len(header) <=> TooMany
    /\ deserved \in [Ids -> Verdicts]
    /\ \A i \in Ids :
          /\ deserved[i] = "valid" => i \in passing
          /\ i \in passing <=> Failing(signatures[i]) = {}
          /\ i \in passing => deserved[i] = BodyVerdict(signatures[i], body)
          /\ i \notin passing => deserved[i] = EarlyVerdict(signatures[i])

LEMMA Judging ==
    ASSUME header \in Seq(Kinds), limit \in Nat
    PROVE  Judged
<1>1. \A s : EarlyVerdict(s) \in {"temp", "fail", "perm"}
  BY DEF EarlyVerdict, Class
<1>2. \A s, n : BodyVerdict(s, n) \in {"fail", "valid"}
  BY DEF BodyVerdict
<1>3. /\ \A i \in Ids : i \notin passing => deserved[i] = EarlyVerdict(signatures[i])
      /\ \A i \in Ids : i \in passing => deserved[i] = BodyVerdict(signatures[i], body)
  BY DEF deserved, passing, Deserved
<1>4. \A i \in Ids : deserved[i] \in Verdicts /\ (deserved[i] = "valid" => i \in passing)
  BY <1>1, <1>2, <1>3 DEF Verdicts
<1>5. deserved \in [Ids -> Verdicts]
  BY <1>4 DEF deserved
<1>6. Len(signatures) \in Nat /\ (Len(signatures) < Len(header) <=> TooMany)
  <2>1. CASE TooMany
    <3>1. signatures = SubSeq(header, 1, limit) /\ limit < Len(header) /\ limit > 0
      BY <2>1 DEF signatures, TooMany
    <3>2. Len(signatures) = limit
      BY <3>1
    <3> QED BY <2>1, <3>1, <3>2
  <2>2. CASE ~TooMany
    BY <2>2 DEF signatures
  <2> QED BY <2>1, <2>2
<1>7. \A i \in Ids : i \in passing <=> Failing(signatures[i]) = {}
  BY DEF passing
<1> QED BY <1>3, <1>4, <1>5, <1>6, <1>7 DEF Judged, Ids

---------------------------------------------------------------------------
\* TypeOK without the input.
Numbers == body \in Nat /\ copied \in 0 .. body /\ turn \in 0 .. Len(signatures)

Goroutines ==
    /\ worker \in [Ids -> {"none", "check", "hash", "drain", "send", "ended"}]
    /\ seen \in [Ids -> 0 .. body]
    /\ verdict \in [Ids -> Verdicts \cup {"none"}]
    /\ chans \in [Ids -> Verdicts \cup {"none"}]

Results ==
    /\ verifs \in Seq(Verdicts)
    /\ pipes \in {"open", "closed"}
    /\ main \in {"scan", "single", "copy", "collect", "returned"}
    /\ err \in {"none", "read", "too many"}

Typed == Numbers /\ Goroutines /\ Results

\* The pieces goroutine i was offered.
Offered(i) == IF turn = 0 \/ i < turn THEN copied ELSE copied - 1

Works(i) ==
    /\ worker[i] \in {"check", "hash"} => seen[i] = Offered(i)
    /\ worker[i] = "hash" => i \in passing
    /\ worker[i] \in {"drain", "send", "ended"} => verdict[i] = deserved[i]
    /\ worker[i] # "ended" => chans[i] = "none"
    /\ chans[i] \in {"none", verdict[i]}

\* Where the caller is, without and with goroutines.
Alone ==
    /\ main = "scan" => copied = 0 /\ \A i \in Ids : seen[i] = 0
    /\ main \in {"scan", "single"} => \A i \in Ids : worker[i] = "none"
    /\ main = "single" => Len(signatures) = 1 /\ seen[1] = copied
    /\ main \in {"scan", "single", "copy"} => verifs = <<>> /\ pipes = "open"

Serving ==
    /\ turn # 0 => main = "copy" /\ copied > 0
    /\ pipes = "closed" => copied = body /\ ending = "eof"
    /\ main = "collect" => pipes = "closed"

\* What was collected is from goroutines that are over.
Collecting ==
    main = "collect" =>
       /\ Len(verifs) <= Len(signatures)
       /\ \A i \in Ids : i <= Len(verifs) => verifs[i] = deserved[i] /\ worker[i] = "ended"

Returned ==
    main = "returned" /\ err # "read" =>
       /\ err = LimitError
       /\ Len(verifs) = Len(signatures)
       /\ \A i \in Ids : verifs[i] = deserved[i] /\ worker[i] \in {"none", "ended"}
       /\ (\E i \in Ids : deserved[i] = "valid") => ending = "eof"

Calling == Alone /\ Serving /\ Collecting /\ Returned

Inv == TypeOK /\ Calling /\ \A i \in Ids : Works(i)

USE KindsAssumption, LimitsAssumption, BoundsAssumption

LEMMA TypeSplit == TypeOK <=> /\ header \in Seq(Kinds) /\ readable \in {"yes", "no"}
                              /\ limit \in Nat /\ ending \in {"eof", "error"} /\ Typed
BY DEF TypeOK, Typed, Numbers, Goroutines, Results

LEMMA InitInv == Init => Inv
<1> SUFFICES ASSUME Init PROVE Inv
  OBVIOUS
<1>1. header \in Seq(Kinds) /\ limit \in Nat
  BY DEF Init
<1>2. Judged
  BY <1>1, Judging
<1>3. TypeOK
  BY <1>1, <1>2 DEF Init, Judged, TypeOK
<1>4. Calling
  BY <1>2 DEF Init, Calling, Alone, Serving, Collecting, Returned
<1>5. \A i \in Ids : Works(i)
  BY <1>2 DEF Init, Works, Offered
<1> QED
  BY <1>3, <1>4, <1>5 DEF Inv

\* What a step leaves of the input and what depends on it.
Kept ==
    /\ Ids' = Ids /\ Len(signatures)' = Len(signatures) /\ Len(header)' = Len(header)
    /\ deserved' = deserved /\ passing' = passing /\ LimitError' = LimitError
    /\ UNCHANGED <<header, readable, limit, body, ending>>

LEMMA InvJudged == Inv => Judged
BY Judging DEF Inv, TypeOK

LEMMA NextKept == Next => Kept
<1>1. Next => UNCHANGED input
  BY DEF Next, Caller, Worker, HeaderFails, Scan, SingleEarly, SingleRead, SingleEnd,
     CopyRead, Handover, CopyEnds, Collect, Collected, CheckEarly, CheckPasses,
     HashEnds, DrainEnds, Send, Decide, Return
<1> QED
  BY <1>1, InputKept DEF input, Kept

(* The caller's steps.                                                     *)
LEMMA CallerInv == ASSUME Inv, Caller PROVE Inv'
<1> USE DEF workVars
<1>0. Kept /\ Judged /\ Typed /\ Calling /\ \A j \in Ids : Works(j)
  BY InvJudged, NextKept, TypeSplit DEF Next, Inv
<1>a. Typed' => TypeOK'
  BY <1>0, TypeSplit DEF Inv, Kept, TypeOK, Typed, Numbers, Goroutines, Results
<1>b. \A j \in Ids : j \in Nat /\ 1 <= j /\ j <= Len(signatures)
  BY ONLY <1>0 DEF Judged
<1>c. Len(signatures) = 1 => Ids = {1}
  BY DEF Ids
<1>d. LimitError \in {"none", "too many"}
  BY DEF LimitError
<1>1. CASE HeaderFails
  <2>1. Numbers' /\ Goroutines' /\ Results'
    BY ONLY <1>0, <1>1 DEF Kept, Typed, Numbers, HeaderFails, Return, Goroutines, Calling, Alone, Results
  <2>2. ASSUME NEW j \in Ids PROVE Works(j)'
    BY ONLY <1>0, <1>1 DEF Calling, Alone, Works, HeaderFails
  <2>3. Alone' /\ Serving' /\ Collecting' /\ Returned'
    BY ONLY <1>0, <1>1 DEF Calling, Alone, Serving, HeaderFails, Return, Collecting, Returned
  <2> QED BY <1>0, <1>a, <2>1, <2>2, <2>3 DEF Inv, Calling, Kept, Typed
<1>2. CASE Scan
  <2>1. Numbers' /\ Goroutines' /\ Results'
    BY ONLY <1>0, <1>2 DEF Kept, Typed, Numbers, Scan, Goroutines, Results
  <2>2. ASSUME NEW j \in Ids PROVE Works(j)'
    BY ONLY <1>0, <1>2 DEF Calling, Alone, Serving, Works, Offered, Scan
  <2>3. Alone'
    <3>1. UNCHANGED <<copied, seen, verifs, pipes>> /\ main = "scan"
          /\ main' \in {"single", "copy"}
      BY ONLY <1>2 DEF Scan
    <3>2. main' = "single" => Len(signatures) = 1 /\ UNCHANGED worker
      BY ONLY <1>2 DEF Scan
    <3> QED
      BY ONLY <1>0, <3>1, <3>2 DEF Kept, Judged, Calling, Alone
  <2>4. Serving' /\ Collecting' /\ Returned'
    BY ONLY <1>0, <1>2 DEF Calling, Serving, Alone, Scan, Collecting, Returned
  <2> QED BY <1>0, <1>a, <2>1, <2>2, <2>3, <2>4 DEF Inv, Calling, Kept, Typed
<1>3. CASE SingleEarly
  <2>1. Ids = {1} /\ Len(signatures) = 1
    BY ONLY <1>0, <1>c, <1>3 DEF Calling, Alone, SingleEarly
  <2>2. 1 \notin passing
    BY ONLY <1>0, <1>3, <2>1 DEF Judged, SingleEarly
  <2>3. verifs' = <<deserved[1]>> /\ err' = LimitError /\ main' = "returned"
    BY ONLY <1>0, <1>3, <2>1, <2>2 DEF Judged, SingleEarly, Return
  <2>4. Numbers' /\ Goroutines'
    BY ONLY <1>0, <1>3 DEF Kept, Typed, Numbers, SingleEarly, Goroutines
  <2>5. Results'
    <3>1. deserved[1] \in Verdicts
      BY ONLY <1>0, <2>1 DEF Judged
    <3>2. <<deserved[1]>> \in Seq(Verdicts)
      BY ONLY <3>1
    <3>3. UNCHANGED pipes
      BY ONLY <1>3 DEF SingleEarly
    <3> QED BY ONLY <1>0, <1>d, <2>3, <3>2, <3>3 DEF Typed, Results
  <2>6. ASSUME NEW j \in Ids PROVE Works(j)'
    BY ONLY <1>0, <1>3 DEF Calling, Alone, Works, SingleEarly
  <2>7. Alone' /\ Serving' /\ Collecting'
    BY ONLY <1>0, <1>3 DEF Calling, Alone, Serving, SingleEarly, Return, Collecting
  <2>8. Returned'
    <3>1. Len(verifs') = 1 /\ verifs'[1] = deserved[1]
      BY ONLY <2>3
    <3>2. worker'[1] = "none" /\ deserved[1] # "valid"
      BY ONLY <1>0, <1>3, <2>1, <2>2 DEF Judged, Calling, Alone, SingleEarly, workVars
    <3> QED BY ONLY <1>0, <2>1, <2>3, <3>1, <3>2 DEF Kept, Returned
  <2> QED BY <1>0, <1>a, <2>4, <2>5, <2>6, <2>7, <2>8 DEF Inv, Calling, Kept, Typed
<1>4. CASE SingleRead
  <2>1. Numbers'
    BY ONLY <1>0, <1>4 DEF Kept, Typed, Numbers, SingleRead
  <2>2. Results'
    BY ONLY <1>0, <1>4 DEF Typed, Results, SingleRead
  <2>3. Goroutines'
    BY ONLY <1>0, <1>4 DEF Kept, Judged, Typed, Numbers, Goroutines, Calling, Alone, SingleRead
  <2>4. ASSUME NEW j \in Ids PROVE Works(j)'
    BY ONLY <1>0, <1>4 DEF Calling, Alone, Works, SingleRead
  <2>5. Alone'
    <3>1. Ids = {1} /\ Len(signatures) = 1 /\ seen[1] = copied /\ main = "single"
      BY ONLY <1>0, <1>c, <1>4 DEF Calling, Alone, SingleRead
    <3>2. seen'[1] = copied'
      BY ONLY <1>0, <1>4, <3>1 DEF Typed, Goroutines, SingleRead
    <3>3. UNCHANGED <<main, worker, verifs, pipes>>
      BY ONLY <1>4 DEF SingleRead
    <3> QED
      BY ONLY <1>0, <3>1, <3>2, <3>3 DEF Kept, Calling, Alone
  <2>6. Serving' /\ Collecting' /\ Returned'
    BY ONLY <1>0, <1>4 DEF Calling, Serving, Alone, SingleRead, Collecting, Returned
  <2> QED BY <1>0, <1>a, <2>1, <2>2, <2>3, <2>4, <2>5, <2>6 DEF Inv, Calling, Kept, Typed
<1>5. CASE SingleEnd
  <2>1. Ids = {1} /\ Len(signatures) = 1 /\ seen[1] = body
    BY ONLY <1>0, <1>c, <1>5 DEF Calling, Alone, SingleEnd
  <2>2. 1 \in passing
    BY ONLY <1>0, <1>5, <2>1 DEF Judged, SingleEnd
  <2>3. /\ main' = "returned"
        /\ \/ ending = "error" /\ verifs' = <<>> /\ err' = "read"
           \/ ending # "error" /\ verifs' = <<deserved[1]>> /\ err' = LimitError
    BY ONLY <1>0, <1>5, <2>1, <2>2 DEF Judged, SingleEnd, Return
  <2>4. Numbers' /\ Goroutines'
    BY ONLY <1>0, <1>5 DEF Kept, Typed, Numbers, SingleEnd, Goroutines
  <2>5. Results'
    <3>1. deserved[1] \in Verdicts
      BY ONLY <1>0, <2>1 DEF Judged
    <3>2. <<deserved[1]>> \in Seq(Verdicts) /\ <<>> \in Seq(Verdicts)
      BY ONLY <3>1
    <3>3. UNCHANGED pipes
      BY ONLY <1>5 DEF SingleEnd
    <3> QED BY ONLY <1>0, <1>d, <2>3, <3>2, <3>3 DEF Typed, Results
  <2>6. ASSUME NEW j \in Ids PROVE Works(j)'
    BY ONLY <1>0, <1>5 DEF Calling, Alone, Works, SingleEnd
  <2>7. Alone' /\ Serving' /\ Collecting'
    BY ONLY <1>0, <1>5 DEF Calling, Alone, Serving, SingleEnd, Return, Collecting
  <2>8. Returned'
    <3>1. err' # "read" => Len(verifs') = 1 /\ verifs'[1] = deserved[1] /\ err' = LimitError
      BY ONLY <2>3
    <3>2. ending # "error" => ending' = "eof"
      BY <1>0 DEF Kept, Inv, TypeOK
    <3>3. err' # "read" => ending # "error"
      BY ONLY <2>3
    <3>4. worker'[1] = "none"
      BY ONLY <1>0, <1>5, <2>1 DEF Calling, Alone, SingleEnd, workVars
    <3> QED BY ONLY <1>0, <2>1, <2>3, <3>1, <3>2, <3>3, <3>4 DEF Kept, Returned
  <2> QED BY <1>0, <1>a, <2>4, <2>5, <2>6, <2>7, <2>8 DEF Inv, Calling, Kept, Typed
<1>6. CASE CopyRead
  <2>1. Numbers'
    BY ONLY <1>0, <1>6 DEF Kept, Judged, Typed, Numbers, CopyRead
  <2>2. Results'
    BY ONLY <1>0, <1>6 DEF Typed, Results, CopyRead
  <2>3. Goroutines'
    BY ONLY <1>0, <1>6 DEF Kept, Typed, Goroutines, CopyRead
  <2>4. ASSUME NEW j \in Ids PROVE Works(j)'
    <3>1. turn = 0 /\ copied' = copied + 1 /\ turn' = 1
          /\ UNCHANGED <<worker, seen, verdict, chans>>
      BY ONLY <1>6, <2>4 DEF CopyRead, workVars
    <3>2. copied \in Nat
      BY ONLY <1>0 DEF Typed, Numbers
    <3>3. ~(j < turn') /\ turn' # 0 /\ copied' - 1 = copied
      BY ONLY <1>b, <2>4, <3>1, <3>2
    <3>4. worker[j] \in {"check", "hash"} => seen[j] = copied
      BY ONLY <1>0, <2>4, <3>1 DEF Works, Offered
    <3>5. (worker[j] \in {"check", "hash"} => seen[j] = Offered(j))'
      BY ONLY <3>1, <3>3, <3>4 DEF Offered
    <3> QED
      BY ONLY <1>0, <2>4, <3>1, <3>5 DEF Kept, Works
  <2>5. Alone'
    BY ONLY <1>0, <1>6 DEF Calling, Alone, CopyRead
  <2>6. Serving'
    <3>1. copied \in Nat /\ copied < body /\ copied' = copied + 1
      BY ONLY <1>0, <1>6 DEF Typed, Numbers, CopyRead
    <3>2. copied' > 0
      BY ONLY <3>1
    <3>3. main = "copy" /\ UNCHANGED <<main, pipes>> /\ pipes = "open"
      BY ONLY <1>0, <1>6 DEF CopyRead, Calling, Alone
    <3> QED BY ONLY <3>2, <3>3 DEF Serving
  <2>7. Collecting' /\ Returned'
    BY ONLY <1>0, <1>6 DEF Collecting, CopyRead, Returned
  <2> QED BY <1>0, <1>a, <2>1, <2>2, <2>3, <2>4, <2>5, <2>6, <2>7 DEF Inv, Calling, Kept, Typed
<1>7. CASE \E i \in Ids : Handover(i)
  <2>1. PICK i \in Ids : Handover(i)
    BY ONLY <1>7
  <2>2. main = "copy" /\ turn = i /\ i # 0 /\ pipes = "open" /\ copied > 0
        /\ UNCHANGED <<main, pipes, copied, worker, verdict, chans, verifs, err>>
    BY ONLY <1>0, <1>b, <2>1 DEF Handover, Calling, Alone, Serving
  <2>3. seen' = IF worker[i] = "hash" THEN [seen EXCEPT ![i] = @ + 1] ELSE seen
    BY ONLY <2>1 DEF Handover
  <2>4. Numbers'
    BY ONLY <1>0, <1>7 DEF Kept, Typed, Numbers, Handover
  <2>5. Goroutines'
    <3>1. worker[i] = "hash" => seen[i] = copied - 1
      BY ONLY <1>0, <1>b, <2>2 DEF Works, Offered
    <3>2. seen[i] \in 0 .. body /\ copied \in 0 .. body /\ body \in Nat
      BY ONLY <1>0 DEF Typed, Numbers, Goroutines
    <3>3. worker[i] = "hash" => seen[i] + 1 \in 0 .. body
      BY ONLY <2>2, <3>1, <3>2
    <3>4. seen' \in [Ids -> 0 .. body]
      BY ONLY <1>0, <2>3, <3>3 DEF Typed, Goroutines
    <3> QED BY ONLY <1>0, <2>2, <3>4 DEF Kept, Typed, Goroutines
  <2>6. Results'
    BY ONLY <1>0, <1>7 DEF Typed, Results, Handover
  <2>7. ASSUME NEW j \in Ids PROVE Works(j)'
    BY ONLY <1>0, <1>7 DEF Kept, Judged, Typed, Numbers, Goroutines, Works, Offered, Handover
  <2>8. Alone'
    BY ONLY <1>0, <1>7 DEF Calling, Alone, Handover
  <2>9. Serving'
    BY ONLY <2>2 DEF Serving
  <2>10. Collecting' /\ Returned'
    BY ONLY <1>0, <1>7 DEF Collecting, Handover, Returned
  <2> QED BY <1>0, <1>a, <2>4, <2>5, <2>6, <2>7, <2>8, <2>9, <2>10 DEF Inv, Calling, Kept, Typed
<1>8. CASE CopyEnds
  <2>1. Numbers' /\ Goroutines' /\ Results'
    BY ONLY <1>0, <1>8 DEF Kept, Typed, Numbers, CopyEnds, Return, Goroutines, Calling, Alone, Results
  <2>2. ASSUME NEW j \in Ids PROVE Works(j)'
    BY ONLY <1>0, <1>8 DEF Kept, Works, Offered, CopyEnds
  <2>3. Alone'
    BY ONLY <1>0, <1>8 DEF Alone, CopyEnds, Return
  <2>4. Serving'
    <3>1. main = "copy" /\ turn = 0 /\ copied = body /\ pipes = "open"
          /\ UNCHANGED <<copied, turn>>
      BY ONLY <1>0, <1>8 DEF CopyEnds, Calling, Alone
    <3>2. \/ main' = "returned" /\ UNCHANGED pipes
          \/ main' = "collect" /\ pipes' = "closed" /\ ending # "error"
      BY ONLY <1>8 DEF CopyEnds, Return
    <3>3. ending \in {"eof", "error"}
      BY DEF Inv, TypeOK
    <3> QED BY ONLY <1>0, <3>1, <3>2, <3>3 DEF Kept, Serving
  <2>5. Collecting'
    <3>1. main' = "collect" => verifs' = <<>>
      BY ONLY <1>0, <1>8 DEF CopyEnds, Return, Calling, Alone
    <3> QED BY ONLY <1>0, <1>b, <3>1 DEF Kept, Judged, Collecting
  <2>6. Returned'
    BY ONLY <1>0, <1>8 DEF Returned, CopyEnds, Return
  <2> QED BY <1>0, <1>a, <2>1, <2>2, <2>3, <2>4, <2>5, <2>6 DEF Inv, Calling, Kept, Typed
<1>9. CASE Collect
  <2>1. verifs \in Seq(Verdicts)
    BY ONLY <1>0 DEF Typed, Results
  <2> DEFINE k == Len(verifs) + 1
  <2>2. main = "collect" /\ k \in Ids /\ k \in Nat
    <3>1. Len(verifs) \in Nat /\ Len(verifs) < Len(signatures) /\ main = "collect"
      BY ONLY <1>9, <2>1 DEF Collect
    <3>2. Ids = 1 .. Len(signatures) /\ Len(signatures) \in Nat
      BY ONLY <1>0 DEF Judged
    <3> QED BY ONLY <3>1, <3>2
  <2>3. k \in Ids /\ chans[k] # "none" /\ verifs' = Append(verifs, chans[k])
        /\ chans' = [chans EXCEPT ![k] = "none"]
        /\ UNCHANGED <<main, copied, turn, pipes, worker, seen, verdict, err>>
    BY ONLY <1>9, <2>2 DEF Collect
  <2>4. worker[k] = "ended" /\ chans[k] = deserved[k]
    BY ONLY <1>0, <2>3 DEF Works, Typed, Goroutines
  <2>5. deserved[k] \in Verdicts
    BY ONLY <1>0, <2>3 DEF Judged
  <2> HIDE DEF k
  <2>6. Numbers' /\ Goroutines'
    BY ONLY <1>0, <1>9 DEF Kept, Typed, Numbers, Collect, Goroutines
  <2>7. Results'
    <3>1. chans[k] \in Verdicts
      BY ONLY <2>4, <2>5
    <3>2. Append(verifs, chans[k]) \in Seq(Verdicts)
      BY ONLY <2>1, <3>1
    <3> QED BY ONLY <1>0, <2>3, <3>2 DEF Typed, Results
  <2>8. ASSUME NEW j \in Ids PROVE Works(j)'
    BY ONLY <1>0, <1>9 DEF Kept, Works, Offered, Collect
  <2>9. Alone' /\ Serving'
    BY ONLY <1>0, <1>9 DEF Kept, Calling, Alone, Serving, Collect
  <2>10. Collecting'
    <3>1. Len(verifs') = k
      BY ONLY <2>1, <2>3 DEF k
    <3>0. k <= Len(signatures) /\ Len(verifs) \in Nat
      BY ONLY <1>b, <2>1, <2>2
    <3>2. ASSUME NEW j \in Ids, j <= k PROVE verifs'[j] = deserved[j] /\ worker'[j] = "ended"
      <4>1. j \in Nat /\ j >= 1
        BY ONLY <1>b
      <4>2. CASE j = k
        BY ONLY <2>1, <2>3, <2>4, <4>2 DEF k
      <4>3. CASE j <= Len(verifs)
        <5>1. verifs'[j] = verifs[j]
          BY ONLY <2>1, <2>3, <4>1, <4>3
        <5> QED BY ONLY <1>0, <2>2, <2>3, <4>3, <5>1 DEF Calling, Collecting
      <4>4. j = k \/ j <= Len(verifs)
        BY ONLY <3>0, <3>2, <4>1 DEF k
      <4> QED BY <4>2, <4>3, <4>4
    <3> QED BY ONLY <1>0, <3>0, <3>1, <3>2 DEF Kept, Collecting
  <2>11. Returned'
    BY ONLY <1>0, <1>9 DEF Returned, Collect
  <2> QED BY <1>0, <1>a, <2>6, <2>7, <2>8, <2>9, <2>10, <2>11 DEF Inv, Calling, Kept, Typed
<1>10. CASE Collected
  <2>1. main = "collect" /\ main' = "returned" /\ err' = LimitError
        /\ Len(verifs) = Len(signatures) /\ UNCHANGED <<verifs, pipes, worker>>
    BY ONLY <1>10 DEF Collected, Return, workVars
  <2>2. Numbers' /\ Goroutines'
    BY ONLY <1>0, <1>10 DEF Kept, Typed, Numbers, Collected, Goroutines
  <2>3. Results'
    BY ONLY <1>0, <1>d, <2>1 DEF Typed, Results
  <2>4. ASSUME NEW j \in Ids PROVE Works(j)'
    BY ONLY <1>0, <1>10 DEF Kept, Works, Offered, Collected
  <2>5. Alone' /\ Serving' /\ Collecting'
    BY ONLY <1>0, <1>10 DEF Kept, Calling, Alone, Serving, Collected, Return, Collecting
  <2>6. Returned'
    <3>2. \A j \in Ids : verifs[j] = deserved[j] /\ worker[j] = "ended"
      BY ONLY <1>0, <1>b, <2>1 DEF Calling, Collecting
    <3>3. ending = "eof"
      BY ONLY <1>0, <2>1 DEF Calling, Serving
    <3> QED BY ONLY <1>0, <2>1, <3>2, <3>3 DEF Kept, Returned
  <2> QED BY <1>0, <1>a, <2>2, <2>3, <2>4, <2>5, <2>6 DEF Inv, Calling, Kept, Typed
<1> QED
  BY <1>1, <1>2, <1>3, <1>4, <1>5, <1>6, <1>7, <1>8, <1>9, <1>10 DEF Caller

(* The steps of a goroutine.                                               *)
LEMMA WorkerInv == ASSUME Inv, NEW i \in Ids, Worker(i) PROVE Inv'
<1>0. Kept /\ Judged /\ Typed /\ Calling /\ \A j \in Ids : Works(j)
  BY InvJudged, NextKept, TypeSplit DEF Next, Inv
<1>a. Typed' => TypeOK'
  BY <1>0, TypeSplit DEF Inv, Kept, TypeOK, Typed, Numbers, Goroutines, Results
<1>1. CASE CheckEarly(i)
  <2>1. Numbers' /\ Goroutines' /\ Results'
    BY ONLY <1>0, <1>1 DEF Kept, Judged, Typed, Numbers, CheckEarly, Decide, Goroutines, Results
  <2>2. ASSUME NEW j \in Ids PROVE Works(j)'
    BY ONLY <1>0, <1>1 DEF Kept, Judged, Typed, Goroutines, Works, Offered, CheckEarly, Decide
  <2>3. Alone' /\ Serving' /\ Collecting' /\ Returned'
    BY ONLY <1>0, <1>1 DEF Kept, Calling, Alone, Serving, CheckEarly, Decide, Collecting, Returned
  <2> QED BY <1>0, <1>a, <2>1, <2>2, <2>3 DEF Inv, Calling, Kept, Typed
<1>2. CASE CheckPasses(i)
  <2>1. Numbers' /\ Goroutines' /\ Results'
    BY ONLY <1>0, <1>2 DEF Kept, Typed, Numbers, CheckPasses, Goroutines, Results
  <2>2. ASSUME NEW j \in Ids PROVE Works(j)'
    BY ONLY <1>0, <1>2 DEF Kept, Judged, Works, Offered, CheckPasses
  <2>3. Alone' /\ Serving' /\ Collecting' /\ Returned'
    BY ONLY <1>0, <1>2 DEF Kept, Calling, Alone, Serving, CheckPasses, Collecting, Returned
  <2> QED BY <1>0, <1>a, <2>1, <2>2, <2>3 DEF Inv, Calling, Kept, Typed
<1>3. CASE HashEnds(i)
  <2>1. Numbers'
    BY ONLY <1>0, <1>3 DEF Kept, Typed, Numbers, HashEnds, Decide
  <2>2. Goroutines'
    <3>1. BodyVerdict(signatures[i], seen[i]) \in Verdicts
      BY ONLY DEF BodyVerdict, Verdicts
    <3> QED
      BY ONLY <1>0, <1>3, <3>1 DEF Kept, Typed, Goroutines, HashEnds, Decide
  <2>3. Results'
    BY ONLY <1>0, <1>3 DEF Typed, Results, HashEnds, Decide
  <2>4. ASSUME NEW j \in Ids PROVE Works(j)'
    BY ONLY <1>0, <1>3 DEF Kept, Judged, Typed, Goroutines, Calling, Alone, Serving, Works, Offered, HashEnds, Decide
  <2>5. Alone' /\ Serving' /\ Collecting' /\ Returned'
    BY ONLY <1>0, <1>3 DEF Kept, Calling, Alone, Serving, HashEnds, Decide, Collecting, Returned
  <2> QED BY <1>0, <1>a, <2>1, <2>2, <2>3, <2>4, <2>5 DEF Inv, Calling, Kept, Typed
<1>4. CASE DrainEnds(i)
  <2>1. Numbers' /\ Goroutines' /\ Results'
    BY ONLY <1>0, <1>4 DEF Kept, Typed, Numbers, DrainEnds, Goroutines, Results
  <2>2. ASSUME NEW j \in Ids PROVE Works(j)'
    BY ONLY <1>0, <1>4 DEF Kept, Works, Offered, DrainEnds
  <2>3. Alone' /\ Serving' /\ Collecting' /\ Returned'
    BY ONLY <1>0, <1>4 DEF Kept, Calling, Alone, Serving, DrainEnds, Collecting, Returned
  <2> QED BY <1>0, <1>a, <2>1, <2>2, <2>3 DEF Inv, Calling, Kept, Typed
<1>5. CASE Send(i)
  <2>1. Numbers' /\ Goroutines' /\ Results'
    BY ONLY <1>0, <1>5 DEF Kept, Typed, Numbers, Send, Goroutines, Results
  <2>2. ASSUME NEW j \in Ids PROVE Works(j)'
    BY ONLY <1>0, <1>5 DEF Kept, Typed, Goroutines, Works, Offered, Send
  <2>3. Alone' /\ Serving' /\ Collecting' /\ Returned'
    BY ONLY <1>0, <1>5 DEF Kept, Calling, Alone, Serving, Send, Collecting, Returned
  <2> QED BY <1>0, <1>a, <2>1, <2>2, <2>3 DEF Inv, Calling, Kept, Typed
<1> QED
  BY <1>1, <1>2, <1>3, <1>4, <1>5 DEF Worker

THEOREM Invariance == Spec => []Inv
<1>1. Inv /\ [Next]_vars => Inv'
  <2> SUFFICES ASSUME Inv, [Next]_vars PROVE Inv'
    OBVIOUS
  <2>1. CASE Caller
    BY <2>1, CallerInv
  <2>2. CASE \E i \in Ids : Worker(i)
    BY <2>2, WorkerInv
  <2>3. CASE UNCHANGED vars
    <3>1. UNCHANGED <<main, copied, turn, pipes, worker, seen, verdict, chans, verifs, err>>
      BY <2>3 DEF vars, workVars
    <3>2. Kept
      BY <2>3, InputKept DEF vars, input, Kept
    <3>3. \A i \in Ids : Works(i) => Works(i)'
      BY <3>1, <3>2 DEF Kept, Works, Offered
    <3>4. Calling => Calling'
      BY <3>1, <3>2 DEF Kept, Calling, Alone, Serving, Collecting, Returned
    <3>5. TypeOK => TypeOK'
      BY <3>1, <3>2 DEF Kept, TypeOK
    <3> QED BY <3>2, <3>3, <3>4, <3>5 DEF Inv, Kept
  <2> QED BY <2>1, <2>2, <2>3 DEF Next
<1> QED
  BY <1>1, InitInv, PTL DEF Spec

(* What the variables hold is always of its type: a goroutine is never     *)
(* given more pieces than the body has.                                    *)
THEOREM Types == Spec => []TypeOK
<1>1. Inv => TypeOK
  BY DEF Inv
<1> QED
  BY <1>1, Invariance, PTL

(* Verify returns what each signature deserves, in the signatures' order.  *)
THEOREM VerdictsAreDeserved == Spec => []VerdictsDeserved
<1>1. Inv => VerdictsDeserved
  <2> SUFFICES ASSUME Inv, main = "returned", err # "read"
               PROVE  /\ err = "too many" <=> Len(verifs) < Len(header)
                      /\ Len(verifs) = Len(signatures)
                      /\ \A i \in DOMAIN verifs : verifs[i] = Deserved(signatures[i])
                      /\ (\E i \in DOMAIN verifs : verifs[i] = "valid") => ending = "eof"
    BY DEF VerdictsDeserved
  <2>1. /\ err = LimitError /\ Len(verifs) = Len(signatures)
        /\ \A i \in Ids : verifs[i] = deserved[i]
        /\ (\E i \in Ids : deserved[i] = "valid") => ending = "eof"
    BY DEF Inv, Calling, Returned
  <2>2. DOMAIN verifs = Ids
    <3>1. verifs \in Seq(Verdicts)
      BY DEF Inv, TypeOK
    <3> QED BY <2>1, <3>1 DEF Ids
  <2>3. \A i \in Ids : deserved[i] = Deserved(signatures[i])
    BY DEF deserved
  <2>4. TooMany <=> err = "too many"
    BY <2>1 DEF LimitError
  <2>5. TooMany <=> Len(signatures) < Len(header)
    BY InvJudged DEF Judged
  <2> QED BY <2>1, <2>2, <2>3, <2>4, <2>5
<1> QED
  BY <1>1, Invariance, PTL

(* Verify leaves no goroutine behind unless its reader failed.             *)
THEOREM NoGoroutineIsLeft == Spec => []NoGoroutineLeft
<1>1. Inv => NoGoroutineLeft
  BY DEF Inv, Calling, Returned, NoGoroutineLeft
<1> QED
  BY <1>1, Invariance, PTL
=============================================================================
