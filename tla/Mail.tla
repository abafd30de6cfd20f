-------------------------------- MODULE Mail --------------------------------
(***************************************************************************)
(* What is read out of a message: Mail and Content (envelope/mail.go),     *)
(* which take the header and body of Data apart into fields and parts, and *)
(* decode these.  The token of a line of the header is a field; that of a  *)
(* body line names its word last, and before it how that is encoded.       *)
(***************************************************************************)
EXTENDS Data

CONSTANT Charsets \* charsetEncodings and charsetAliases

VARIABLE utf8     \* e.UTF8

Field(name, value) == <<"field", name, value>>
Junk == <<"junk">>                  \* a header line without a colon
Delimiter(b) == <<"delimiter", b>>
Closing(b) == <<"closing", b>>

---------------------------------------------------------------------------
(* A message has a content, [type, enc, body, children]: a type, an        *)
(* encoding, the lines of a body and children.  A type is <<>>,            *)
(* <<"text/", charset>> or one of the multipart types with its boundary;   *)
(* "" is an absent parameter or field.                                     *)

Multiparts == {"multipart/", "Multipart/"}
Multipart(c) == c.type # <<>> /\ c.type[1] \in Multiparts

Fields(c) ==
    (IF c.type = <<>> THEN <<>> ELSE << <<Field("Content-Type", c.type)>> >>)
      \o (IF c.enc = "" THEN <<>> ELSE << <<Field("Content-Transfer-Encoding", <<c.enc>>)>> >>)

RECURSIVE Rendered(_)
Rendered(c) ==
    IF ~Multipart(c) THEN c.body
    ELSE FlattenSeq([i \in DOMAIN c.children |->
                       << <<Delimiter(c.type[2])>> >> \o Fields(c.children[i])
                         \o << <<>> >> \o Rendered(c.children[i])])
           \o << <<Closing(c.type[2])>> >>

\* The messages of Data are those whose lines are a content's.
ASSUME ContentAssumption ==
    \A m \in Messages :
        /\ m.body = Rendered(m.tree)
        /\ \A i \in DOMAIN Fields(m.tree) : Contains(m.header, Fields(m.tree)[i])

vars == <<dataVars, utf8>>

Init == DataInit /\ utf8 \in BOOLEAN

Next == DataNext /\ UNCHANGED utf8

Spec == Init /\ [][Next]_vars

---------------------------------------------------------------------------
(* Reading a message.                                                      *)

\* textproto's ReadMIMEHeader: the fields before an empty line, the end of the
\* data, or a line that is no field.
ReadMIMEHeader(lines) ==
    LET end == SelectInSeq(lines, LAMBDA l : l = <<>> \/ l[1][1] # "field")
        n == IF end = 0 THEN Len(lines) ELSE end - 1
    IN  [fields |-> [i \in 1 .. n |-> lines[i][1]], rest |-> n + 2,
         err |-> IF end = 0 THEN "EOF" ELSE IF lines[end] = <<>> THEN "none" ELSE "malformed"]

Get(fields, name) ==
    LET i == SelectInSeq(fields, LAMBDA f : f[2] = name)
    IN  IF i = 0 THEN <<>> ELSE fields[i][3]

AddressFields == {"From", "To", "Cc", "Bcc", "Reply-To", "Sender"}

\* The bytes of the header are looked through for an encoded word, those behind
\* a malformed line too.
Marked(lines) ==
    \E i \in DOMAIN lines :
        lines[i] # <<>> /\ lines[i][1][1] = "field" /\ lines[i][1][3][1] = "=?"

\* Decoding an address field sets err again, to nil.
DecodedAddress(lines, fields) ==
    /\ ~utf8 \/ Marked(lines)
    /\ \E i \in DOMAIN fields : fields[i][2] \in AddressFields

Decoded(lines, read) ==
    [fields |-> read.fields,
     err |-> IF read.err = "EOF" \/ DecodedAddress(lines, read.fields) THEN "none" ELSE read.err]

Headers(m) == Decoded(Lines(m.header), ReadMIMEHeader(Lines(m.header)))

Error == [type |-> <<"error">>, enc |-> "", body |-> <<>>, children |-> <<>>]

Strip(tok, layer) == IF Len(tok) > 1 /\ tok[1] = layer THEN Tail(tok) ELSE tok
Peel(lines, layer) ==
    [i \in DOMAIN lines |-> [j \in DOMAIN lines[i] |-> Strip(lines[i][j], layer)]]

QuotedPrintable == {"quoted-printable", "Quoted-Printable"}

EncodingField(fields) ==
    LET f == Get(fields, "Content-Transfer-Encoding") IN IF f = <<>> THEN "" ELSE f[1]

RECURSIVE parseContent(_, _, _)

\* The parts between the boundaries, up to the closing one, and whether a
\* boundary ends them.
PartsOf(lines, b) ==
    LET at == SelectSeq([i \in DOMAIN lines |-> i],
                        LAMBDA i : lines[i] \in {<<Delimiter(b)>>, <<Closing(b)>>})
        end == SelectInSeq(at, LAMBDA i : lines[i] = <<Closing(b)>>)
    IN  [k \in 1 .. IF end = 0 THEN Len(at) ELSE end - 1 |->
            [lines |-> SubSeq(lines, at[k] + 1, IF k = Len(at) THEN Len(lines) ELSE at[k + 1] - 1),
             ended |-> k # Len(at)]]

\* NextPart of mime/multipart undoes quoted-printable and takes that field away.
PartContent(fields, lines) ==
    IF EncodingField(fields) \in QuotedPrintable
    THEN parseContent(fields, "", Peel(lines, "quoted-printable"))
    ELSE parseContent(fields, EncodingField(fields), lines)

\* Mutant: a body that ends within a part is taken for complete.
NextPartUntilEnd(h, part) ==
    IF h.err = "EOF" /\ ~part.ended THEN <<>>
    ELSE IF h.err # "none" THEN <<Error>>
    ELSE <<PartContent(h.fields, SubSeq(part.lines, h.rest, Len(part.lines)))>>

\* A header that the end of the body cuts is io.EOF, which parseContent takes
\* for the end of the parts; other ends within a part are errors.
NextPart(h, part) ==
    IF h.err = "EOF" /\ ~part.ended THEN <<>>
    ELSE IF h.err # "none" \/ ~part.ended THEN <<Error>>
    ELSE <<PartContent(h.fields, SubSeq(part.lines, h.rest, Len(part.lines)))>>

Single(type, enc, lines) == [type |-> type, enc |-> enc, body |-> lines, children |-> <<>>]

Nested(type, children) ==
    IF \E i \in DOMAIN children : children[i] = Error THEN Error
    ELSE [type |-> type, enc |-> "", body |-> <<>>, children |-> children]

Parts(type, lines) ==
    IF type[2] = "" \/ \A i \in DOMAIN lines : lines[i] \notin {<<Delimiter(type[2])>>, <<Closing(type[2])>>}
    THEN Error
    ELSE LET parts == PartsOf(lines, type[2])
         IN  Nested(type, FlattenSeq([k \in DOMAIN parts |-> NextPart(ReadMIMEHeader(parts[k].lines), parts[k])]))

\* Mutant: the prefix of the type is looked for in the field as it is.
parseContentRaw(fields, enc, lines) ==
    LET type == Get(fields, "Content-Type")
    IN  IF type = <<>> THEN Error
        ELSE IF type[1] = "multipart/" THEN Parts(type, lines) ELSE Single(type, enc, lines)

\* mime.ParseMediaType lowers the case.
parseContent(fields, enc, lines) ==
    LET type == Get(fields, "Content-Type")
    IN  IF type = <<>> THEN Error
        ELSE IF type[1] \in Multiparts THEN Parts(type, lines) ELSE Single(type, enc, lines)

BodyOf(h, lines) ==
    IF h.err # "none" THEN Error ELSE parseContent(h.fields, EncodingField(h.fields), lines)

\* The content of e.Mail: NewMail, then Body.
Body(data) ==
    LET m == NewMail(data)
    IN  IF m.err # "none" THEN Error ELSE BodyOf(Headers(m), Lines(m.body))

---------------------------------------------------------------------------
(* Reading a content.                                                      *)

\* The field is looked at as it is here: the case of "multipart/" counts.
Leaf(c) == c.children = <<>> /\ c.type[1] # "multipart/"

RECURSIVE Flatten(_), Walk(_, _)

Flatten(c) ==
    IF Leaf(c) THEN <<c>> ELSE FlattenSeq([i \in DOMAIN c.children |-> Flatten(c.children[i])])

\* The nodes and levels fn is called with, while it returns no error.
Walk(c, level) ==
    << [node |-> c, level |-> level] >>
      \o FlattenSeq([i \in DOMAIN c.children |-> Walk(c.children[i], level + 1)])

Encoding(c) == IF c.enc = "" THEN "7bit" ELSE c.enc

toUTF8(c, lines) == IF c.type[2] \in Charsets THEN Peel(lines, c.type[2]) ELSE lines

IsBase64(lines) == \A i \in DOMAIN lines : lines[i] # <<>> => lines[i][1][1] = "base64"

\* Mutant: the charset first, then the encoding.
DecodeCharsetFirst(c) ==
    CASE Encoding(c) \in {"7bit", "8bit", "binary"} -> [err |-> "none", text |-> toUTF8(c, c.body)]
      [] Encoding(c) = "quoted-printable" ->
             [err |-> "none", text |-> Peel(toUTF8(c, c.body), "quoted-printable")]
      [] Encoding(c) = "base64" /\ IsBase64(c.body) ->
             [err |-> "none", text |-> Peel(toUTF8(c, c.body), "base64")]
      [] OTHER -> [err |-> "encoding"]

Decode(c) ==
    CASE Encoding(c) \in {"7bit", "8bit", "binary"} -> [err |-> "none", text |-> toUTF8(c, c.body)]
      [] Encoding(c) = "quoted-printable" ->
             [err |-> "none", text |-> toUTF8(c, Peel(c.body, "quoted-printable"))]
      [] Encoding(c) = "base64" /\ IsBase64(c.body) ->
             [err |-> "none", text |-> toUTF8(c, Peel(c.body, "base64"))]
      [] OTHER -> [err |-> "encoding"]

---------------------------------------------------------------------------
(* Properties, of a message that is written, with any fields in front.     *)

Outline(c) ==
    LET nodes == Walk(c, 0) IN [i \in DOMAIN nodes |-> <<nodes[i].level, nodes[i].node.type>>]

RECURSIVE WellFormed(_)
WellFormed(c) ==
    /\ c.type # <<>> /\ (Multipart(c) => c.type[2] # "")
    /\ \A i \in DOMAIN c.children : WellFormed(c.children[i])

\* Body gives the parts the sender nested, or an error: never another tree,
\* and never an error for a message without a fault, except that a malformed
\* line in the header may go unnoticed (mail.go:165-224).
TreeReadBack ==
    Splits =>
        LET c == Body(Bytes)
        IN  /\ c # Error => Outline(c) = Outline(msg.tree)
            /\ WellFormed(msg.tree) /\ ~Contains(msg.header, <<Junk>>) => c # Error

\* The words that the sender encoded, and whether Decode knows the encoding.
Words(lines) == [j \in DOMAIN lines |-> [k \in DOMAIN lines[j] |-> <<Last(lines[j][k])>>]]

Named(c) ==
    \/ Encoding(c) \in {"7bit", "8bit", "binary", "quoted-printable", "base64"}
    \/ c # msg.tree /\ Encoding(c) = "Quoted-Printable"

DecodesAs(d, c) ==
    /\ (d.err = "none") = Named(c)
    /\ Named(c) /\ c.type[2] \in Charsets \cup {"", "utf-8"} => d.text = Words(NoCR(c.body))

LeavesDecode(c, sent) ==
    c # Error =>
        /\ Len(Flatten(c)) = Len(sent)
        /\ \A i \in DOMAIN sent : Multipart(sent[i]) \/ DecodesAs(Decode(Flatten(c)[i]), sent[i])

\* The header names the encoding only behind a malformed line.
EncodingLost ==
    \E i, j \in DOMAIN msg.header :
        i < j /\ msg.header[i] = <<Junk>> /\ msg.header[j][1][2] = "Content-Transfer-Encoding"

\* Every leaf that Flatten finds decodes to the words its sender encoded, each
\* encoding undone once and the charset last (mail.go:279-340).  The name of an
\* encoding must be in lower case, but for quoted-printable in a part, and a
\* charset that is not known is left as it is, without an error.  Left out is a
\* message whose encoding is named behind a malformed line: decoding an address
\* field erases the error (mail.go:126), the field is lost, and Decode returns
\* the text still encoded, without an error.
PartsDecode == Splits /\ ~EncodingLost => LeavesDecode(Body(Bytes), Flatten(msg.tree))

\* A multipart message that is cut after any line is an error, and so no part is
\* ever cut short; but where the cut is in the header of a part of the outermost
\* level the parts before it are all there is, without an error: mime/multipart
\* returns io.EOF there (mail.go:204-212).
CutTold ==
    LET whole == Body(Bytes)
        b == whole.type[2]
        InHeader(lines) ==
            LET start == SelectLastInSeq(lines, LAMBDA l : l = <<Delimiter(b)>>)
            IN  start # 0 /\ \A i \in start + 1 .. Len(lines) : lines[i] # <<>> /\ lines[i][1][1] = "field"
        Parted(k) == Cardinality({i \in 1 .. k : Bytes[i] = Delimiter(b)}) - 1
    IN  Splits /\ whole.children # <<>> =>
            \A k \in {i \in 1 .. Len(Bytes) - 1 - Len(msg.eol) : Bytes[i] = LF} :
                Body(SubSeq(Bytes, 1, k)) =
                    IF InHeader(Lines(SubSeq(Bytes, 1, k)))
                    THEN [whole EXCEPT !.children = SubSeq(@, 1, Parted(k))] ELSE Error
=============================================================================
