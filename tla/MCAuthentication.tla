-------------------------- MODULE MCAuthentication --------------------------
(* Authentication for TLC: an organisation, one of its hosts, a domain that *)
(* only ends with its text, one in capitals, a public suffix, a stranger.   *)
EXTENDS Authentication

Example == <<"example", ".", "com">>
Host == <<"mx", ".", "example", ".", "com">>
Longer == <<"long", "example", ".", "com">>
Capital == <<"EXAMPLE", ".", "com">>
Suffix == <<"com">>
Other == <<"other", ".", "com">>

MCLower == "EXAMPLE" :> "example" @@ "SMTP.HELO" :> "smtp.helo"
MCSenders == {[local |-> <<"a">>, domain |-> d] : d \in {Capital, Host, Longer, Suffix}}
               \cup {[local |-> l, domain |-> Example] :
                      l \in {<<"a", " ", "SMTP.HELO", "=", "x">>,
                             <<"a", ";", "arc", "=", "fail", " ", "header.oldest-pass", "=", "0", " ", "b">>}}
MCFromDomains == {Capital, Suffix}
MCSignDomains == {Host, Capital, Other}
MCSpfAnswers == [value : {"pass"}, reason : {<<>>, <<"matched", " ", "ip">>}]
                  \cup [value : {"softfail"}, reason : {<<"no", " ", "match", "=">>}]

V == <<"v", "=", "DMARC1", ";">>
P(policy) == <<" ", "p", "=", policy>>
Found(txts) == [kind |-> "found", txts |-> txts]
Failed(kind) == [kind |-> kind, txts |-> <<>>]

\* One record; two of which the last, the first, both or neither can be read; a
\* record in two pieces, and one with a text behind it that is none.
MCAnswers ==
    {Failed("temporary"), Failed("failed"), Failed("not found"), Found(<<>>),
     Found(<<V \o P("none")>>), Found(<<V \o P("reject")>>),
     Found(<<V \o P("reject") \o <<";", "adkim", "=", "s", ";", "aspf", "=", "s">>>>),
     Found(<<V \o P("reject") \o <<";", "pct", "=", "101">>>>),
     Found(<<V \o P("reject") \o <<";", "fo", "=", "d", ":", "s", ";", "junk">>>>),
     Found(<<V \o P("reject") \o <<";">>, V \o P("none")>>),
     Found(<<V \o P("none") \o <<";">>, V \o P("reject")>>),
     Found(<<<<"v", "=", "spf1">>, V \o P("reject")>>),
     Found(<<V \o P("reject") \o <<";">>, <<"v", "=", "spf1">>>>),
     Found(<<V, P("reject")>>), Found(<<V \o P("none") \o <<";">>, P("quarantine")>>)}
=============================================================================
