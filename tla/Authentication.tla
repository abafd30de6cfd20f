--------------------------- MODULE Authentication ---------------------------
(***************************************************************************)
(* The middleware AddAuthenticationResult (middleware/authentication.go)   *)
(* at work on one message: SPF, DKIM, DMARC, and the field that reports    *)
(* them to the handler.  SPF itself, the DNS and the list of public        *)
(* suffixes are outside: they answer anything.  A domain is a text with    *)
(* "." between the labels, so that one can end with another's text.        *)
(***************************************************************************)
EXTENDS AuthField, Dmarc

CONSTANTS
    Senders,       \* [local, domain]: envelope senders
    FromDomains,   \* domains a From field may name; <<>>: no usable From field
    SignDomains,   \* d= of signatures
    SpfAnswers,    \* [value, reason]: what the SPF library may say
    MaxSignatures, \* bound: verifications of one message
    Answers        \* answers of the name server to the DMARC query

ASSUME DomainsAssumption ==
    /\ \A s \in Senders : s.domain \in Seq(STRING)
    /\ FromDomains \subseteq Seq(STRING) /\ SignDomains \subseteq Seq(STRING)

ASSUME AnswersAssumption ==
    \A a \in Answers : a.kind \in {"found", "not found", "temporary", "failed"}

NoSender == [local |-> <<>>, domain |-> <<>>]
Identity == <<"mx">>

VARIABLES
    step,     \* the next thing the middleware does; "panicked"
    sender,   \* e.MailFrom, NoSender for nil
    mail,     \* what e.Mail and Headers say: "ok", "no body", "bad headers"
    from,     \* the domain of the From field, as written
    answer,   \* of the DMARC query
    spf,      \* spfres
    dkims,    \* the verdicts of dkimCheck
    dmarc,    \* of dmarcCheck
    field     \* the value of the field, <<>> until it is prepended

message == <<sender, mail, from, answer>>
vars == <<step, message, spf, dkims, dmarc, field>>

DomainOfEmail(domain) == LowerCase(domain)

\* publicsuffix.EffectiveTLDPlusOne, for suffixes of one label: what follows the
\* last dot but one, and an error for a domain of one label.
Dots(domain) == {i \in DOMAIN domain : domain[i] = "."}
HasOrg(domain) == Dots(domain) # {}
OrgStart(dots) == Max({0} \cup (dots \ {Max(dots)}))
Org(domain) == SubSeq(domain, OrgStart(Dots(domain)) + 1, Len(domain))

SameOrg(d1, d2) == HasOrg(d1) /\ HasOrg(d2) /\ Org(d1) = Org(d2)

NotYet == [method |-> "none", value |-> "none"]

Init ==
    /\ step = "spf"
    /\ sender \in Senders \cup {NoSender}
    /\ mail \in {"ok", "no body", "bad headers"}
    /\ from \in FromDomains \cup {<<>>}
    /\ answer \in Answers
    /\ spf = NotYet /\ dkims = <<>> /\ dmarc = NotYet /\ field = <<>>

---------------------------------------------------------------------------
\* e.MailFrom.Address of no sender.
SpfPanics ==
    /\ step = "spf" /\ sender = NoSender
    /\ step' = "panicked"
    /\ UNCHANGED <<message, spf, dkims, dmarc, field>>

Address == sender.local \o <<"@">> \o sender.domain

\* The library answers as it likes, also for a nil address: of an IPv6 peer
\* nothing is left before the first colon that net.ParseIP could read.
SpfCheck ==
    /\ step = "spf" /\ sender # NoSender
    /\ \E a \in SpfAnswers :
         spf' = [method |-> "spf", value |-> a.value,
                 params |-> [k \in {"reason", "smtp.helo", "smtp.mailfrom"} |->
                               CASE k = "reason"        -> a.reason
                                 [] k = "smtp.helo"     -> <<"client">>
                                 [] k = "smtp.mailfrom" -> Address]]
    /\ step' = "dkim"
    /\ UNCHANGED <<message, dkims, dmarc, field>>

DkimResult(v, d, reason) ==
    [method |-> "dkim", value |-> v,
     params |-> [k \in {"reason", "header.b", "header.d", "header.i", "header.s"} |->
                   CASE k = "reason"   -> reason
                     [] k = "header.b" -> <<"b">>
                     [] k = "header.d" -> d
                     [] k = "header.i" -> <<>>
                     [] k = "header.s" -> <<"s">>]]

\* An error of dkim.Verify leaves no verdict, not even of those it judged.
DkimCheck ==
    /\ step = "dkim"
    /\ \E n \in 0 .. MaxSignatures :
         \E vs \in [1 .. n -> {"pass", "fail"}], ds \in [1 .. n -> SignDomains] :
            dkims' = [i \in 1 .. n |->
                        DkimResult(vs[i], ds[i],
                                   IF vs[i] = "pass" THEN <<>> ELSE <<"bad", " ", "body">>)]
    /\ step' = "dmarc"
    /\ UNCHANGED <<message, spf, dmarc, field>>

---------------------------------------------------------------------------
(* dmarcCheck.                                                             *)

Dmarc(v, reason) ==
    [method |-> "dmarc", value |-> v,
     params |-> [k \in {"reason", "header.from"} |->
                   IF k = "reason" THEN reason ELSE DomainOfEmail(sender.domain)]]

\* mail.ParseAddress(spf.From): Address is without the quotes that a local part
\* of more than a word needs.
Reparsed == Len(sender.local) = 1

fromDomain == DomainOfEmail(from)

checkSPFAlignment(rec) ==
    /\ spf.value = "pass"
    /\ IF rec.aspf = <<"s">> THEN DomainOfEmail(sender.domain) = fromDomain
       ELSE \/ IsSuffix(fromDomain, DomainOfEmail(sender.domain))
            \/ SameOrg(DomainOfEmail(sender.domain), fromDomain)

\* Mutant: only the first signature counts.
FirstDKIMAligned(rec) ==
    dkims # <<>> /\ dkims[1].value = "pass"
    /\ IF rec.adkim = <<"s">> THEN dkims[1].params["header.d"] = fromDomain
       ELSE SameOrg(dkims[1].params["header.d"], fromDomain)

checkDKIMAlignment(rec) ==
    \E i \in DOMAIN dkims :
        /\ dkims[i].value = "pass"
        /\ IF rec.adkim = <<"s">> THEN dkims[i].params["header.d"] = fromDomain
           ELSE SameOrg(dkims[i].params["header.d"], fromDomain)

\* Mutant: the policy none does not override.
determineAnyPolicy(rec) ==
    IF checkSPFAlignment(rec) \/ checkDKIMAlignment(rec)
    THEN Dmarc("pass", <<"check", " ", "passed">>)
    ELSE Dmarc("fail", <<"check", " ", "failed">>)

\* The policy none comes last and overrides.
determineDMARCResult(rec) ==
    IF rec.policy = <<"none">> THEN Dmarc("none", <<"policy", " ", "is", " ", "none">>)
    ELSE IF checkSPFAlignment(rec) \/ checkDKIMAlignment(rec)
         THEN Dmarc("pass", <<"check", " ", "passed">>)
         ELSE Dmarc("fail", <<"check", " ", "failed", " ">> \o
                       IF spf.value = "pass" THEN <<>> ELSE spf.params["reason"])

NoMail == mail # "ok" \/ from = <<>>

DmarcCheck ==
    /\ step = "dmarc"
    /\ dmarc' = IF NoMail THEN Dmarc("none", <<"unable">>)
                ELSE IF LookupRecord(answer).err # "none" \/ ~Reparsed
                     THEN Dmarc("none", <<"lookup", " ", "failed">>)
                     ELSE determineDMARCResult(LookupRecord(answer))
    /\ step' = "field"
    /\ UNCHANGED <<message, spf, dkims, field>>

Results == <<spf, dmarc>> \o dkims

AddField ==
    /\ step = "field"
    /\ field' = Format(Identity, Results)
    /\ step' = "next"
    /\ UNCHANGED <<message, spf, dkims, dmarc>>

Next == SpfPanics \/ SpfCheck \/ DkimCheck \/ DmarcCheck \/ AddField

Spec == Init /\ [][Next]_vars

---------------------------------------------------------------------------
(* Properties.  Domains are compared by their labels and without regard to *)
(* case here; Tells and Hides name where the code compares otherwise.      *)

\* A verified domain speaks for the From field: the same domain, or with
\* relaxed alignment one of the same organisation.
SpeaksFor(d, mode) ==
    \/ LowerCase(d) = fromDomain
    \/ mode = <<"r">> /\ SameOrg(LowerCase(d), fromDomain)

\* The text of the sender's domain ends with the From domain, no matter where
\* its labels begin.
Tells(rec) == rec.aspf = <<"r">> /\ IsSuffix(fromDomain, DomainOfEmail(sender.domain))

\* d= is compared as it was written, and a From domain of one label has no
\* organisation to compare.
Hides(d, mode) == LowerCase(d) # d \/ (mode = <<"r">> /\ ~HasOrg(fromDomain))

Decided == dmarc.value \in {"pass", "fail"}

\* DMARC passes only for a sender or a signature that was verified and speaks
\* for the From field, and fails only when none does, but for the two ways of
\* comparing named above (authentication.go:106-200).
VerdictDeserved ==
    Decided =>
        LET rec == LookupRecord(answer)
            sent == spf.value = "pass" /\ SpeaksFor(sender.domain, rec.aspf)
            signers == {dkims[i].params["header.d"] :
                          i \in {j \in DOMAIN dkims : dkims[j].value = "pass"}}
        IN  /\ dmarc.value = "pass" =>
                 \/ sent
                 \/ spf.value = "pass" /\ Tells(rec)
                 \/ \E d \in signers : SpeaksFor(d, rec.adkim)
            /\ dmarc.value = "fail" =>
                 /\ ~sent
                 /\ \A d \in signers : SpeaksFor(d, rec.adkim) => Hides(d, rec.adkim)

\* A verdict other than none is about a message that could be read and that
\* names a From domain, and rests on the records found there being, taken
\* together, a record that asks for quarantine or rejection: no failure before, and
\* no policy of none, leaves one (authentication.go:60-90, 203, lookup.go:46-60).
VerdictNeedsPolicy ==
    Decided =>
        /\ mail = "ok" /\ from # <<>> /\ answer.kind = "found" /\ answer.txts # <<>>
        /\ LET rec == Parse(Joined(answer.txts, <<>>))
           IN  rec.err = "none" /\ rec.policy \in {<<"quarantine">>, <<"reject">>}

\* A parameter written behind k has a word in it that is read as another k.
Overwritten(r, k) ==
    LET keys == ParamKeys[r.method]
    IN  \E i, j \in DOMAIN keys :
            /\ i < j /\ keys[i] = k
            /\ LET words == FieldsOf(r.params[keys[j]])
               IN  \E n \in 2 .. Len(words) :
                      Cut(words[n], "=").found /\ LowerCase(Cut(words[n], "=").before) = <<k>>

\* A list of results as Parse reads it in the field that Format made: the
\* same methods and verdicts in the same order, and every parameter of one word
\* that needs no quotes and is not overwritten by a later one; of all results
\* when no parameter holds a ";", and else of those up to the first that does.
ReadsBack(got, results) ==
    LET Word(t) == Len(t) > 0 /\ ToSet(t) \cap Specials = {}
        cut == {i \in DOMAIN results :
                  \E k \in DOMAIN results[i].params : Contains(results[i].params[k], ";")}
        n == IF cut = {} THEN Len(results) ELSE CHOOSE i \in cut : \A j \in cut : i <= j
    IN  /\ got.identity = Identity
        /\ cut = {} => got.err = "none" /\ Len(got.results) = n
        /\ Len(got.results) >= n
        /\ \A i \in 1 .. n :
             /\ got.results[i].method = <<results[i].method>>
             /\ got.results[i].value = <<results[i].value>>
             /\ i \notin cut => \A k \in DOMAIN results[i].params :
                  Word(results[i].params[k]) /\ ~Overwritten(results[i], k) =>
                    got.results[i].params[<<k>>] = results[i].params[k]

\* The results of every type Format has a name for, with parameters of a word,
\* but for one that is empty or has two words, the last of which reads as a
\* parameter.
AnyResult ==
    UNION {{[method |-> m, value |-> "pass",
             params |-> [k \in ToSet(ParamKeys[m]) |-> IF k = other THEN text ELSE <<"word">>]] :
              other \in ToSet(ParamKeys[m]),
              text \in {<<>>, <<"two", " ", "header.d", "=", "words">>}} :
           m \in Methods \ {"arc"}}

EveryTypeReadsBack == \A r \in AnyResult : ReadsBack(ParseField(Format(Identity, <<r>>)), <<r>>)

\* What the handler can read in the field, with the Parse that comes with the
\* Format, are the verdicts of the checks (authentication.go:33-39); and so it
\* is for every type of AuthField but the ARC result, which Format has no name
\* for (format.go:28-49, parse.go:280-358).  Their parameters are not always
\* read as written: a sender whose local part is the words a and smtp.helo=x
\* takes the place of the client's name, since Parse ignores quotes and lets the
\* last word with a key count; such a parameter is left out (Overwritten).
FieldReadsBack ==
    /\ EveryTypeReadsBack
    /\ step = "next" => ReadsBack(ParseField(field), Results)
=============================================================================
