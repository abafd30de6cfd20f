----------------------------- MODULE AuthField -----------------------------
(***************************************************************************)
(* The Authentication-Results field: Format (authres/format.go) and Parse  *)
(* (authres/parse.go).  A result has a type, a value and parameters that   *)
(* are texts of tokens, the empty text where the Go field is "".           *)
(***************************************************************************)
EXTENDS Text, FiniteSets, TLC

CONSTANT Lower  \* strings.ToLower, of the words that it changes

\* What is lower case stays, and a dot is no letter.
ASSUME LowerAssumption ==
    /\ Lower \in [DOMAIN Lower -> STRING \ {"."}]
    /\ "." \notin DOMAIN Lower
    /\ \A w \in DOMAIN Lower : Lower[w] \notin DOMAIN Lower

LowerCase(text) == [i \in DOMAIN text |-> IF text[i] \in DOMAIN Lower THEN Lower[text[i]] ELSE text[i]]

\* The parameters each type writes, as sort.Strings orders them.  Sender-id, with
\* a parameter that it names itself, and generic results are left out.
ParamKeys ==
    [auth       |-> <<"smtp.auth">>,
     dkim       |-> <<"reason", "header.b", "header.d", "header.i", "header.s">>,
     domainkeys |-> <<"reason", "header.d", "header.from", "header.sender">>,
     iprev      |-> <<"reason", "policy.iprev">>,
     spf        |-> <<"reason", "smtp.helo", "smtp.mailfrom">>,
     dmarc      |-> <<"reason", "header.from">>,
     arc        |-> <<"header.oldest-pass", "smtp.remote-ip">>]

Methods == DOMAIN ParamKeys

\* resultMethod has no case for ARCResult.
resultMethod(r) == IF r.method = "arc" THEN <<>> ELSE <<r.method>>

Specials == {" ", ";", ":", "=", "@", "/"}   \* formatValue quotes for these
NotAddress == {" ", ";", ":", "="}           \* formatPvalue, for these

formatValue(k, text) ==
    IF ToSet(text) \cap (IF k = "reason" THEN Specials ELSE NotAddress) = {}
    THEN text ELSE <<"\"">> \o text \o <<"\"">>

\* The reason comes first; empty parameters are left out.
formatParams(r) ==
    LET keys == SelectSeq(ParamKeys[r.method], LAMBDA k : r.params[k] # <<>>)
    IN  Joined([i \in DOMAIN keys |-> <<keys[i], "=">> \o formatValue(keys[i], r.params[keys[i]])],
               <<" ">>)

Format(identity, results) ==
    identity \o
    IF results = <<>> THEN <<";", " ", "none">>
    ELSE FlattenSeq([i \in DOMAIN results |->
             <<";", " ">> \o resultMethod(results[i]) \o <<"=", results[i].value, " ">>
               \o formatParams(results[i])])

---------------------------------------------------------------------------
\* Of the words of a result the first is the method and its value; of the others
\* those without "=" are skipped, and of several with one key the last counts.
MethodOf(words) == LowerCase(Cut(words[1], "=").before)

ParamsOf(words) ==
    FoldLeft(LAMBDA ps, w : IF Cut(w, "=").found
                            THEN (LowerCase(Cut(w, "=").before) :> Cut(w, "=").after) @@ ps
                            ELSE ps,
             <<>>, Tail(words))

\* ARCResult.parse: the number of a pass, if there is one, is at least 1.
PassFails(r) ==
    /\ r.method = <<"arc">> /\ <<"header.oldest-pass">> \in DOMAIN r.params
    /\ ~ \E n \in 1 .. 9 : r.params[<<"header.oldest-pass">>] = <<ToString(n)>>

\* Mutant: an error leaves no result.
ParsedAllOrNothing(read, r, found) ==
    IF found /\ ~PassFails(r) THEN [read EXCEPT !.results = Append(@, r)]
    ELSE [results |-> <<>>, err |-> "malformed"]

\* parseResult adds a result to those that were read, or fails.  Between two ";"
\* there may be nothing, or the word none, as well.
ParsedResult(read, r, found) ==
    IF found /\ ~PassFails(r) THEN [read EXCEPT !.results = Append(@, r)]
    ELSE [read EXCEPT !.err = "malformed"]

parseResult(read, words) ==
    IF read.err # "none" \/ words = <<>> \/ words[1] = <<"none">> THEN read
    ELSE ParsedResult(read,
             [method |-> MethodOf(words), value |-> LowerCase(Cut(words[1], "=").after),
              params |-> ParamsOf(words)],
             Cut(words[1], "=").found)

\* Parse returns the results before the first it cannot read, with an error.
ParseResults(name, parts) ==
    IF Len(name) > 1 /\ Tail(name) # <<<<"1">>>>
    THEN [identity |-> <<>>, results |-> <<>>, err |-> "version"]
    ELSE [identity |-> IF name = <<>> THEN <<>> ELSE name[1]] @@
         FoldLeft(LAMBDA read, part : parseResult(read, FieldsOf(part)),
                  [results |-> <<>>, err |-> "none"], parts)

ParseField(text) == ParseResults(FieldsOf(Split(text, ";")[1]), Tail(Split(text, ";")))
=============================================================================
