-------------------------------- MODULE Text --------------------------------
(***************************************************************************)
(* Texts as sequences of tokens: words, and the few characters the code    *)
(* looks for.  The operators are the functions of Go's strings package     *)
(* that it uses; " " is the only white space.                              *)
(***************************************************************************)
EXTENDS SequencesExt

\* strings.Split.
Between(text, at) == [k \in 1 .. Len(at) - 1 |-> SubSeq(text, at[k] + 1, at[k + 1] - 1)]

Split(text, sep) ==
    Between(text, <<0>> \o SelectSeq([i \in DOMAIN text |-> i], LAMBDA i : text[i] = sep)
                       \o <<Len(text) + 1>>)

\* strings.Fields.
FieldsOf(text) == SelectSeq(Split(text, " "), LAMBDA part : part # <<>>)

\* strings.TrimSpace.
Trim(text) ==
    LET words == {i \in DOMAIN text : text[i] # " "}
    IN  IF words = {} THEN <<>>
        ELSE SubSeq(text, CHOOSE i \in words : \A j \in words : i <= j,
                          CHOOSE i \in words : \A j \in words : i >= j)

\* strings.Cut at one token.
Halves(text, at) ==
    [found  |-> at # 0,
     before |-> IF at = 0 THEN text ELSE SubSeq(text, 1, at - 1),
     after  |-> IF at = 0 THEN <<>> ELSE SubSeq(text, at + 1, Len(text))]

Cut(text, sep) == Halves(text, SelectInSeq(text, LAMBDA tok : tok = sep))

\* strings.Join with a separator, as a text.
Joined(parts, sep) ==
    FoldLeftDomain(LAMBDA text, i : text \o (IF i = 1 THEN <<>> ELSE sep) \o parts[i],
                   <<>>, parts)
=============================================================================
