------------------------ MODULE AuthenticationProofs ------------------------
(***************************************************************************)
(* Theorems about Authentication, for any senders, From domains, answers   *)
(* and number of signatures.                                               *)
(***************************************************************************)
EXTENDS Authentication, SequenceTheorems, WellFoundedInduction, TLAPS

---------------------------------------------------------------------------
(* Domains.                                                                *)

Domains == Seq(STRING)

\* A set of naturals with a bound has a maximum.
LEMMA MaxOfBounded ==
    ASSUME NEW n \in Nat, NEW S \in SUBSET (0 .. n), S # {}
    PROVE  Max(S) \in S /\ \A y \in S : Max(S) >= y
<1> DEFINE Gaps == {n - x : x \in S}
<1>1. Gaps \subseteq Nat /\ Gaps # {}
  <2>1. \A x \in S : x \in 0 .. n /\ n - x \in Nat
    OBVIOUS
  <2> QED
    BY <2>1
<1>2. PICK g \in Gaps : \A y \in Gaps : ~ (<<y, g>> \in OpToRel(<, Nat))
  <2> HIDE DEF Gaps
  <2> QED
    BY <1>1, NatLessThanWellFounded, WFMin
<1>3. PICK x \in S : g = n - x
  BY <1>2
<1>4. ASSUME NEW y \in S PROVE x >= y
  <2>1. n - y \in Gaps /\ n - y \in Nat /\ g \in Nat /\ x \in Nat /\ y \in Nat
    BY <1>1, <1>3
  <2>2. ~ (n - y < g)
    <3> SUFFICES ASSUME n - y < g PROVE FALSE
      OBVIOUS
    <3> <<n - y, g>> \in OpToRel(<, Nat)
      BY <2>1 DEF OpToRel
    <3> QED
      BY <1>2, <2>1
  <2> QED
    BY ONLY <1>3, <2>1, <2>2, n \in Nat
<1> QED
  BY <1>4 DEF Max

LEMMA LowerCaseType ==
    ASSUME NEW d \in Domains
    PROVE  /\ LowerCase(d) \in Domains
           /\ Len(LowerCase(d)) = Len(d) /\ DOMAIN LowerCase(d) = DOMAIN d
BY LowerAssumption DEF LowerCase, Domains

LEMMA LowerCaseTwice ==
    ASSUME NEW d \in Domains PROVE LowerCase(LowerCase(d)) = LowerCase(d)
<1>1. \A i \in DOMAIN d : LowerCase(LowerCase(d))[i] = LowerCase(d)[i]
  BY LowerAssumption DEF LowerCase, Domains
<1> QED
  BY <1>1, LowerCaseType DEF Domains, LowerCase

LEMMA LowerCaseDots ==
    ASSUME NEW d \in Domains PROVE Dots(LowerCase(d)) = Dots(d)
BY LowerAssumption DEF LowerCase, Dots, Domains

\* What follows the last dot but one begins within the domain.
LEMMA OrgStartType ==
    ASSUME NEW d \in Domains PROVE OrgStart(Dots(d)) \in 0 .. Len(d)
<1> DEFINE S == {0} \cup (Dots(d) \ {Max(Dots(d))})
<1>1. Len(d) \in Nat /\ S \in SUBSET (0 .. Len(d)) /\ S # {}
  BY DEF Dots, Domains
<1>2. Max(S) \in S
  <2> HIDE DEF S
  <2> QED
    BY <1>1, MaxOfBounded
<1> QED
  BY <1>1, <1>2 DEF OrgStart

\* The organisation of a domain does not depend on how it is written.
LEMMA LowerCaseOrg ==
    ASSUME NEW d \in Domains
    PROVE  Org(d) \in Domains /\ Org(LowerCase(d)) = LowerCase(Org(d))
<1> DEFINE n == OrgStart(Dots(d))
<1>1. n \in 0 .. Len(d) /\ Len(d) \in Nat
  BY OrgStartType DEF Domains
<1>2. Org(d) = SubSeq(d, n + 1, Len(d)) /\ Org(LowerCase(d)) = SubSeq(LowerCase(d), n + 1, Len(d))
  BY LowerCaseDots, LowerCaseType DEF Org
<1> HIDE DEF n
<1>3. Org(d) \in Domains /\ Len(Org(d)) = Len(d) - n
      /\ \A i \in 1 .. Len(d) - n : Org(d)[i] = d[n + i]
  BY <1>1, <1>2, SubSeqProperties DEF Domains
<1>4. Org(LowerCase(d)) \in Domains /\ Len(Org(LowerCase(d))) = Len(d) - n
      /\ \A i \in 1 .. Len(d) - n : Org(LowerCase(d))[i] = LowerCase(d)[n + i]
  BY <1>1, <1>2, SubSeqProperties, LowerCaseType DEF Domains
<1>5. LowerCase(Org(d)) \in Domains /\ Len(LowerCase(Org(d))) = Len(d) - n
  BY <1>3, LowerCaseType
<1>6. ASSUME NEW i \in 1 .. Len(d) - n
      PROVE  Org(LowerCase(d))[i] = LowerCase(Org(d))[i]
  <2>1. n + i \in DOMAIN d /\ i \in DOMAIN Org(d)
    BY <1>1, <1>3 DEF Domains
  <2>2. LowerCase(d)[n + i] = (IF d[n + i] \in DOMAIN Lower THEN Lower[d[n + i]] ELSE d[n + i])
    BY <2>1 DEF LowerCase
  <2>3. LowerCase(Org(d))[i] = (IF Org(d)[i] \in DOMAIN Lower THEN Lower[Org(d)[i]] ELSE Org(d)[i])
    BY <2>1 DEF LowerCase
  <2> QED
    BY <1>3, <1>4, <2>2, <2>3
<1> QED
  BY <1>3, <1>4, <1>5, <1>6, SeqEqual DEF Domains

\* A domain written otherwise is of the same organisation.
LEMMA SameOrgLowerCase ==
    ASSUME NEW d1 \in Domains, NEW d2 \in Domains, LowerCase(d2) = d2, SameOrg(d1, d2)
    PROVE  SameOrg(LowerCase(d1), d2)
<1>1. HasOrg(LowerCase(d1))
  BY LowerCaseDots DEF SameOrg, HasOrg
<1>2. Org(LowerCase(d1)) = LowerCase(Org(d1)) /\ Org(d2) = LowerCase(Org(d2))
  BY LowerCaseOrg
<1> QED
  BY <1>1, <1>2 DEF SameOrg

LEMMA SuffixOfItself ==
    ASSUME NEW d PROVE IsSuffix(d, d)
BY DEF IsSuffix, IsPrefix

---------------------------------------------------------------------------
(* Records.                                                                *)

\* A record that was read has a policy and two alignment modes.
LEMMA RecordType ==
    ASSUME NEW txt, Parse(txt).err = "none"
    PROVE  /\ Parse(txt).policy \in Policies
           /\ Parse(txt).adkim \in AlignmentModes /\ Parse(txt).aspf \in AlignmentModes
<1> DEFINE params == parseParams(txt)
<1>1. /\ <<"p">> \in DOMAIN params
      /\ \A k \in DOMAIN params : Acceptable(k, params[k])
      /\ Parse(txt) = [err |-> "none", policy |-> params[<<"p">>],
                       adkim |-> AlignmentOf(params, <<"adkim">>),
                       aspf |-> AlignmentOf(params, <<"aspf">>)]
  BY DEF Parse, NoRecord
<1> HIDE DEF params
<1>2. \A v : Acceptable(<<"p">>, v) => v \in Policies
  BY DEF Acceptable
<1>3. \A v : Acceptable(<<"adkim">>, v) => v \in AlignmentModes
  BY DEF Acceptable
<1>4. \A v : Acceptable(<<"aspf">>, v) => v \in AlignmentModes
  BY DEF Acceptable
<1> QED
  BY <1>1, <1>2, <1>3, <1>4 DEF AlignmentOf, AlignmentModes

LEMMA LookupFindsRecord ==
    ASSUME NEW a \in Answers, LookupRecord(a).err = "none"
    PROVE  /\ a.kind = "found" /\ a.txts # <<>>
           /\ LookupRecord(a) = Parse(Joined(a.txts, <<>>))
<1>1. a.kind = "found" /\ a.txts # <<>>
  <2>1. CASE a.kind = "temporary"
    BY <2>1 DEF LookupRecord
  <2>2. CASE a.kind = "failed"
    BY <2>2 DEF LookupRecord
  <2>3. CASE a.kind \notin {"temporary", "failed"} /\ (a.kind = "not found" \/ a.txts = <<>>)
    BY <2>3 DEF LookupRecord
  <2> QED
    BY <2>1, <2>2, <2>3, AnswersAssumption
<1> QED
  BY <1>1 DEF LookupRecord

---------------------------------------------------------------------------
(* The verdict.                                                            *)

\* What the checks compare, and that there is no verdict before dmarcCheck.
Inv ==
    /\ sender.domain \in Domains /\ from \in Domains /\ answer \in Answers
    /\ \A i \in DOMAIN dkims : dkims[i].params["header.d"] \in Domains
    /\ step \in {"spf", "dkim", "dmarc"} => dmarc = NotYet

Signers == {dkims[i].params["header.d"] : i \in {j \in DOMAIN dkims : dkims[j].value = "pass"}}

\* A verdict for the record rec says what it should: VerdictDeserved, of a
\* verdict and a record.
Deserved(verdict, rec) ==
    LET sent == spf.value = "pass" /\ SpeaksFor(sender.domain, rec.aspf)
    IN  /\ verdict = "pass" =>
             \/ sent
             \/ spf.value = "pass" /\ Tells(rec)
             \/ \E d \in Signers : SpeaksFor(d, rec.adkim)
        /\ verdict = "fail" =>
             /\ ~sent
             /\ \A d \in Signers : SpeaksFor(d, rec.adkim) => Hides(d, rec.adkim)

LEMMA DmarcValue == \A v, r : Dmarc(v, r).value = v
BY DEF Dmarc

LEMMA FromDomainLowerCase ==
    ASSUME from \in Domains
    PROVE  fromDomain \in Domains /\ LowerCase(fromDomain) = fromDomain
BY LowerCaseType, LowerCaseTwice DEF fromDomain, DomainOfEmail

\* An aligned signature speaks for the From domain.
LEMMA AlignedSpeaks ==
    ASSUME Inv, NEW rec, rec.adkim \in AlignmentModes, checkDKIMAlignment(rec)
    PROVE  \E d \in Signers : SpeaksFor(d, rec.adkim)
<1>1. PICK d \in Signers :
         IF rec.adkim = <<"s">> THEN d = fromDomain ELSE SameOrg(d, fromDomain)
  BY DEF checkDKIMAlignment, Signers
<1>2. d \in Domains
  BY DEF Inv, Signers
<1>3. from \in Domains
  BY DEF Inv
<1>4. CASE rec.adkim = <<"s">>
  BY <1>1, <1>3, <1>4, FromDomainLowerCase DEF SpeaksFor
<1>5. CASE rec.adkim # <<"s">>
  <2>1. rec.adkim = <<"r">>
    BY <1>5 DEF AlignmentModes
  <2>2. SameOrg(LowerCase(d), fromDomain)
    BY <1>1, <1>2, <1>3, <1>5, FromDomainLowerCase, SameOrgLowerCase
  <2> QED
    BY <2>1, <2>2 DEF SpeaksFor
<1> QED
  BY <1>4, <1>5

\* A verified signature that speaks for the From domain is aligned with it,
\* when it is written in lower case and there is an organisation to compare.
LEMMA SpeaksAligned ==
    ASSUME NEW rec, rec.adkim \in AlignmentModes, ~checkDKIMAlignment(rec),
           NEW d \in Signers, SpeaksFor(d, rec.adkim)
    PROVE  Hides(d, rec.adkim)
<1> SUFFICES ASSUME LowerCase(d) = d, ~(rec.adkim = <<"r">> /\ ~HasOrg(fromDomain))
             PROVE  FALSE
  BY DEF Hides
<1>1. ~(IF rec.adkim = <<"s">> THEN d = fromDomain ELSE SameOrg(d, fromDomain))
  BY DEF checkDKIMAlignment, Signers
<1>2. d = fromDomain \/ SameOrg(d, fromDomain)
  BY DEF SpeaksFor
<1>3. rec.adkim # <<"s">> => rec.adkim = <<"r">>
  BY DEF AlignmentModes
<1>4. CASE rec.adkim = <<"s">>
  <2>1. SpeaksFor(d, rec.adkim) => LowerCase(d) = fromDomain
    BY <1>4 DEF SpeaksFor
  <2> QED
    BY <1>1, <1>4, <2>1
<1>5. CASE rec.adkim = <<"r">>
  <2>1. ~SameOrg(d, fromDomain) /\ HasOrg(fromDomain)
    BY <1>1, <1>5
  <2> QED
    BY <1>2, <2>1 DEF SameOrg
<1> QED
  BY <1>3, <1>4, <1>5

LEMMA SenderAligned ==
    ASSUME NEW rec, rec.aspf \in AlignmentModes
    PROVE  /\ checkSPFAlignment(rec) =>
                spf.value = "pass" /\ (SpeaksFor(sender.domain, rec.aspf) \/ Tells(rec))
           /\ spf.value = "pass" /\ SpeaksFor(sender.domain, rec.aspf) => checkSPFAlignment(rec)
<1>1. CASE rec.aspf = <<"s">>
  BY <1>1 DEF checkSPFAlignment, SpeaksFor, Tells, DomainOfEmail
<1>2. CASE rec.aspf = <<"r">>
  BY <1>2, SuffixOfItself DEF checkSPFAlignment, SpeaksFor, Tells, DomainOfEmail
<1> QED
  BY <1>1, <1>2 DEF AlignmentModes

LEMMA ResultDeserved ==
    ASSUME Inv, NEW rec, rec.policy \in Policies,
           rec.aspf \in AlignmentModes, rec.adkim \in AlignmentModes,
           NEW verdict, verdict = determineDMARCResult(rec).value
    PROVE  /\ Deserved(verdict, rec)
           /\ verdict \in {"pass", "fail"} => rec.policy \in {<<"quarantine">>, <<"reject">>}
<1>1. CASE rec.policy = <<"none">>
  <2>1. verdict = "none"
    BY <1>1, DmarcValue DEF determineDMARCResult
  <2> QED
    BY <2>1 DEF Deserved
<1>2. CASE rec.policy # <<"none">>
  <2>1. rec.policy \in {<<"quarantine">>, <<"reject">>}
    BY <1>2 DEF Policies
  <2>2. CASE checkSPFAlignment(rec) \/ checkDKIMAlignment(rec)
    <3>1. verdict = "pass"
      BY <1>2, <2>2, DmarcValue DEF determineDMARCResult
    <3>2. \/ spf.value = "pass" /\ (SpeaksFor(sender.domain, rec.aspf) \/ Tells(rec))
          \/ \E d \in Signers : SpeaksFor(d, rec.adkim)
      BY <2>2, SenderAligned, AlignedSpeaks
    <3> QED
      BY <2>1, <3>1, <3>2 DEF Deserved
  <2>3. CASE ~(checkSPFAlignment(rec) \/ checkDKIMAlignment(rec))
    <3>1. verdict = "fail"
      BY <1>2, <2>3, DmarcValue DEF determineDMARCResult
    <3>2. ~(spf.value = "pass" /\ SpeaksFor(sender.domain, rec.aspf))
      BY <2>3, SenderAligned
    <3>3. \A d \in Signers : SpeaksFor(d, rec.adkim) => Hides(d, rec.adkim)
      BY <2>3, SpeaksAligned
    <3> QED
      BY <2>1, <3>1, <3>2, <3>3 DEF Deserved
  <2> QED
    BY <2>2, <2>3
<1> QED
  BY <1>1, <1>2

\* The two properties, said of the record that was found.
Judged ==
    /\ answer \in Answers
    /\ LET rec == LookupRecord(answer)
       IN  Decided => /\ Deserved(dmarc.value, rec)
                      /\ mail = "ok" /\ from # <<>> /\ rec.err = "none"
                      /\ rec.policy \in {<<"quarantine">>, <<"reject">>}

LEMMA JudgedProperties == Judged => VerdictDeserved /\ VerdictNeedsPolicy
BY LookupFindsRecord DEF Judged, VerdictDeserved, VerdictNeedsPolicy, Deserved, Signers

LEMMA DkimDomain == \A v, d, r : DkimResult(v, d, r).params["header.d"] = d
BY DEF DkimResult

LEMMA InvInit == Init => Inv /\ VerdictDeserved /\ VerdictNeedsPolicy
<1> SUFFICES ASSUME Init PROVE Inv /\ VerdictDeserved /\ VerdictNeedsPolicy
  OBVIOUS
<1>1. <<>> \in Domains
  BY DEF Domains
<1>2. ~Decided
  BY DEF Init, NotYet, Decided
<1>3. VerdictDeserved /\ VerdictNeedsPolicy
  BY <1>2 DEF VerdictDeserved, VerdictNeedsPolicy
<1>4. sender.domain \in Domains
  <2>1. CASE sender \in Senders
    BY <2>1, DomainsAssumption DEF Domains
  <2>2. CASE sender = NoSender
    BY <2>2, <1>1 DEF NoSender
  <2> QED
    BY <2>1, <2>2 DEF Init
<1>5. from \in Domains /\ answer \in Answers
  <2>1. from \in FromDomains \cup {<<>>} /\ answer \in Answers
    BY DEF Init
  <2> QED
    BY <2>1, <1>1, DomainsAssumption DEF Domains
<1>6. dkims = <<>> /\ dmarc = NotYet
  BY DEF Init
<1> QED
  BY <1>3, <1>4, <1>5, <1>6 DEF Inv

LEMMA InvNext == Inv /\ [Next]_vars => Inv'
<1> SUFFICES ASSUME Inv, [Next]_vars PROVE Inv'
  OBVIOUS
<1> USE DEF message
<1>1. CASE SpfPanics
  BY <1>1 DEF SpfPanics, Inv
<1>2. CASE SpfCheck
  BY <1>2 DEF SpfCheck, Inv
<1>3. CASE DkimCheck
  <2>1. PICK n \in 0 .. MaxSignatures :
          \E vs \in [1 .. n -> {"pass", "fail"}], ds \in [1 .. n -> SignDomains] :
            dkims' = [i \in 1 .. n |->
                        DkimResult(vs[i], ds[i],
                                   IF vs[i] = "pass" THEN <<>> ELSE <<"bad", " ", "body">>)]
    BY <1>3 DEF DkimCheck
  <2>2. PICK vs \in [1 .. n -> {"pass", "fail"}] :
          \E ds \in [1 .. n -> SignDomains] :
            dkims' = [i \in 1 .. n |->
                        DkimResult(vs[i], ds[i],
                                   IF vs[i] = "pass" THEN <<>> ELSE <<"bad", " ", "body">>)]
    BY <2>1
  <2>3. \A i \in DOMAIN dkims' : dkims'[i].params["header.d"] \in Domains
    <3>1. PICK ds \in [1 .. n -> SignDomains] :
            dkims' = [i \in 1 .. n |->
                        DkimResult(vs[i], ds[i],
                                   IF vs[i] = "pass" THEN <<>> ELSE <<"bad", " ", "body">>)]
      BY <2>2
    <3> SUFFICES ASSUME NEW i \in 1 .. n PROVE dkims'[i].params["header.d"] \in Domains
      BY <3>1
    <3>2. PICK r : dkims'[i] = DkimResult(vs[i], ds[i], r)
      BY <3>1
    <3>3. dkims'[i].params["header.d"] = ds[i]
      BY <3>2, DkimDomain
    <3> QED
      BY <3>3, DomainsAssumption DEF Domains
  <2> QED
    BY <1>3, <2>3 DEF DkimCheck, Inv
<1>4. CASE DmarcCheck
  BY <1>4 DEF DmarcCheck, Inv
<1>5. CASE AddField
  BY <1>5 DEF AddField, Inv
<1>6. CASE UNCHANGED vars
  BY <1>6 DEF vars, Inv
<1> QED
  BY <1>1, <1>2, <1>3, <1>4, <1>5, <1>6 DEF Next

LEMMA VerdictNext ==
    Inv /\ VerdictDeserved /\ VerdictNeedsPolicy /\ [Next]_vars
      => VerdictDeserved' /\ VerdictNeedsPolicy'
<1> SUFFICES ASSUME Inv, VerdictDeserved, VerdictNeedsPolicy, [Next]_vars
             PROVE  VerdictDeserved' /\ VerdictNeedsPolicy'
  OBVIOUS
<1> USE DEF message
<1>1. CASE SpfPanics \/ SpfCheck \/ DkimCheck
  <2>1. dmarc' = NotYet
    BY <1>1 DEF SpfPanics, SpfCheck, DkimCheck, Inv
  <2> QED
    BY <2>1 DEF NotYet, Decided, VerdictDeserved, VerdictNeedsPolicy
<1>2. CASE DmarcCheck
  <2> DEFINE rec == LookupRecord(answer)
  <2>1. CASE NoMail \/ rec.err # "none" \/ ~Reparsed
    <3>1. dmarc'.value = "none"
      BY <1>2, <2>1, DmarcValue DEF DmarcCheck
    <3> QED
      BY <3>1 DEF Decided, VerdictDeserved, VerdictNeedsPolicy
  <2>2. CASE ~NoMail /\ rec.err = "none" /\ Reparsed
    <3>1. dmarc' = determineDMARCResult(rec) /\ mail = "ok" /\ from # <<>>
      BY <1>2, <2>2 DEF DmarcCheck, NoMail
    <3>2. /\ rec.policy \in Policies
          /\ rec.aspf \in AlignmentModes /\ rec.adkim \in AlignmentModes
      BY <2>2, LookupFindsRecord, RecordType DEF Inv
    <3>3. /\ Deserved(dmarc'.value, rec)
          /\ dmarc'.value \in {"pass", "fail"} => rec.policy \in {<<"quarantine">>, <<"reject">>}
      BY <3>1, <3>2, ResultDeserved
    <3>4. /\ answer' = answer /\ mail' = mail /\ from' = from
          /\ sender' = sender /\ spf' = spf /\ dkims' = dkims
      BY <1>2 DEF DmarcCheck
    <3>5. Deserved(dmarc.value, rec)' <=> Deserved(dmarc'.value, rec)
      BY <3>4 DEF Deserved, Signers, SpeaksFor, Tells, Hides, fromDomain, DomainOfEmail
    <3>6. LookupRecord(answer') = rec /\ answer' \in Answers
      BY <3>4 DEF Inv
    <3>7. Judged'
      BY <2>2, <3>1, <3>3, <3>4, <3>5, <3>6 DEF Judged, Decided
    <3> QED
      BY <3>7, JudgedProperties, PTL
  <2> QED
    BY <2>1, <2>2
<1>3. CASE AddField \/ UNCHANGED vars
  <2>1. UNCHANGED <<message, spf, dkims, dmarc>>
    BY <1>3 DEF AddField, vars
  <2> QED
    BY <2>1 DEF VerdictDeserved, VerdictNeedsPolicy, Decided, SpeaksFor, Tells, Hides,
                fromDomain, DomainOfEmail
<1> QED
  BY <1>1, <1>2, <1>3 DEF Next

\* A DMARC verdict is deserved: what passed speaks for the From field, and what
\* failed has nothing that does, but for the ways of comparing that Tells and
\* Hides name (authentication.go:106-200).
THEOREM VerdictsAreDeserved == Spec => []VerdictDeserved
<1> DEFINE All == Inv /\ VerdictDeserved /\ VerdictNeedsPolicy
<1>1. Init => All
  BY InvInit
<1>2. All /\ [Next]_vars => All'
  BY InvNext, VerdictNext
<1>3. All => VerdictDeserved
  OBVIOUS
<1> QED
  BY <1>1, <1>2, <1>3, PTL DEF Spec

\* No verdict without a readable message and a record that, taken together, asks
\* for quarantine or rejection (authentication.go:60-90, lookup.go:46-60).
THEOREM VerdictsNeedAPolicy == Spec => []VerdictNeedsPolicy
<1> DEFINE All == Inv /\ VerdictDeserved /\ VerdictNeedsPolicy
<1>1. Init => All
  BY InvInit
<1>2. All /\ [Next]_vars => All'
  BY InvNext, VerdictNext
<1>3. All => VerdictNeedsPolicy
  OBVIOUS
<1> QED
  BY <1>1, <1>2, <1>3, PTL DEF Spec
=============================================================================
