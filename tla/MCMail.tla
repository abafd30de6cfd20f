------------------------------- MODULE MCMail -------------------------------
(* Mail for TLC: contents of every kind, nested, and messages that are not  *)
(* quite well formed.                                                       *)
EXTENDS Mail

Text(charset, enc, lines) == [type |-> <<"text/", charset>>, enc |-> enc, body |-> lines, children |-> <<>>]
Multi(kind, b, children) == [type |-> <<kind, b>>, enc |-> "", body |-> <<>>, children |-> children]
Plain == Text("", "", << <<<<"a">>>>, <<>>, <<<<"b">>>> >>)
NoType == [Plain EXCEPT !.type = <<>>]
Stray == Text("", "", << <<<<"a">>, CR>>, <<CR>> >>)

\* Text in each encoding and charset, the words encoded as the fields say.
Coded ==
    {Text("utf-8", e, << <<<<"quoted-printable", "a">>>> >>) : e \in QuotedPrintable}
      \cup {Text("utf-8", e, << <<<<"base64", "a">>>> >>) : e \in {"base64", "Base64"}}
      \cup {Text(c, "base64", << <<<<"base64", c, "a">>>>, <<<<"base64", c, "b">>>> >>) :
              c \in {"iso-8859-1", "x-unknown"}}
      \cup {Text("iso-8859-1", e, << <<<<"iso-8859-1", "a">>>> >>) : e \in {"8bit", "x-unknown"}}

Inner == Multi("multipart/", "inner", <<Plain, Text("iso-8859-1", "", << <<<<"iso-8859-1", "c">>>> >>)>>)

Trees ==
    {Plain, NoType, Stray, Inner, Multi("Multipart/", "outer", <<>>), Multi("multipart/", "outer", <<>>),
     Multi("Multipart/", "outer", <<Inner, Plain>>), Multi("multipart/", "outer", <<Plain, Inner>>),
     Multi("multipart/", "outer", <<Plain, NoType>>), Multi("multipart/", "", <<Plain>>),
     Multi("multipart/", "outer", <<Multi("Multipart/", "inner", <<>>), Plain>>)}
      \cup Coded \cup {Multi("multipart/", "outer", <<c, Plain>>) : c \in Coded}

From == <<Field("From", <<"plain">>)>>
Coding == <<Field("From", <<"=?">>)>>
Subject == <<Field("Subject", <<"=?">>)>>

Message(before, tree, after, eol) ==
    [header |-> before \o Fields(tree) \o after, body |-> Rendered(tree), tree |-> tree, eol |-> eol]

\* A malformed line between the type and the encoding of a content.
Broken(before, tree, after) ==
    [Message(before, tree, after, <<CR, LF>>) EXCEPT
        !.header = before \o <<Fields(tree)[1], <<Junk>>>> \o Tail(Fields(tree)) \o after]

MCMessages ==
    {Message(before, tree, <<>>, eol) :
       before \in {<<>>, <<From>>}, tree \in Trees, eol \in {<<CR, LF>>, <<LF>>}}
      \cup {Message(before, tree, <<>>, <<CR, LF>>) :
              before \in {<< <<Junk>> >>, <<From, <<Junk>> >>}, tree \in {Plain, Inner}}
      \cup {Message(before, tree, << <<Junk>> >>, <<CR, LF>>) :
              before \in {<<Coding>>, <<>>}, tree \in {Plain, Inner}}
      \cup {Broken(<<From>>, tree, after) : tree \in Coded \cup {Plain}, after \in {<<>>, <<Subject>>}}
      \cup {Broken(<<Coding>>, tree, <<>>) : tree \in Coded}

MCNewFields == {Field(name, <<"plain">>) : name \in {"Received", "From"}}

MCTokens ==
    LET Of(lines) == UNION {Range(lines[i]) : i \in DOMAIN lines}
    IN  (MCNewFields \cup UNION {Of(m.header) \cup Of(m.body) : m \in MCMessages}) \ {CR, LF}
=============================================================================
