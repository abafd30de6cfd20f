------------------------------- MODULE Dmarc -------------------------------
(***************************************************************************)
(* The lookup of a DMARC record (authres/dmarc/lookup.go).  An answer of   *)
(* the name server is "found" with the TXT records at the name, each a     *)
(* text of tokens, or a kind of failure.                                   *)
(***************************************************************************)
EXTENDS Text, Integers

\* parseParams: of two parameters with the same name the last one counts, and
\* a part without "=" is an error unless it is blank.
Malformed(txt) ==
    \E i \in DOMAIN Split(txt, ";") :
        LET part == Split(txt, ";")[i] IN ~Cut(part, "=").found /\ Trim(part) # <<>>

parseParams(txt) ==
    LET pairs == SelectSeq(Split(txt, ";"), LAMBDA part : Cut(part, "=").found)
        key(i) == Trim(Cut(pairs[i], "=").before)
        last(k) == CHOOSE i \in DOMAIN pairs :
                       key(i) = k /\ \A j \in DOMAIN pairs : key(j) = k => j <= i
    IN  [k \in {key(i) : i \in DOMAIN pairs} |-> Trim(Cut(pairs[last(k)], "=").after)]

Policies == {<<"none">>, <<"quarantine">>, <<"reject">>}
AlignmentModes == {<<"r">>, <<"s">>}

\* strconv.Atoi, of the numbers that occur.
Atoi(text) ==
    CASE text = <<"0">> -> 0 [] text = <<"100">> -> 100
      [] text = <<"101">> -> 101 [] OTHER -> -1

ListOf(text, items) ==
    \A i \in DOMAIN Split(text, ":") : Trim(Split(text, ":")[i]) \in items

\* What the parameters Parse looks at may be; rua and ruf may be anything.
Acceptable(k, v) ==
    CASE k \in {<<"p">>, <<"sp">>}         -> v \in Policies
      [] k \in {<<"adkim">>, <<"aspf">>}   -> v \in AlignmentModes
      [] k = <<"fo">>                      -> ListOf(v, {<<"0">>, <<"1">>, <<"d">>, <<"s">>})
      [] k = <<"rf">>                      -> Split(v, ":") \in Seq({<<"afrf">>})
      [] k = <<"pct">>                     -> Atoi(v) \in 0 .. 100
      [] k = <<"ri">>                      -> Atoi(v) > 0
      [] OTHER                             -> TRUE

\* Alignment is relaxed when the record does not say.
AlignmentOf(params, k) == IF k \in DOMAIN params THEN params[k] ELSE <<"r">>

NoRecord == [err |-> "invalid"]

Parse(txt) ==
    LET params == parseParams(txt)
    IN  IF /\ ~Malformed(txt)
           /\ <<"v">> \in DOMAIN params /\ params[<<"v">>] = <<"DMARC1">>
           /\ <<"p">> \in DOMAIN params
           /\ \A k \in DOMAIN params : Acceptable(k, params[k])
        THEN [err |-> "none", policy |-> params[<<"p">>],
              adkim |-> AlignmentOf(params, <<"adkim">>),
              aspf |-> AlignmentOf(params, <<"aspf">>)]
        ELSE NoRecord

\* LookupWithOptions: the records at the name are joined into one text.
LookupRecord(answer) ==
    CASE answer.kind = "temporary" -> [err |-> "temp"]
      [] answer.kind = "failed"    -> [err |-> "failed"]
      [] answer.kind = "not found" \/ answer.txts = <<>> -> [err |-> "no policy"]
      [] OTHER                     -> Parse(Joined(answer.txts, <<>>))
=============================================================================
