-------------------------------- MODULE Data --------------------------------
(***************************************************************************)
(* The text of a message in the envelope: Data (envelope/data.go), which   *)
(* is written at the end and extended at the front, and NewMail            *)
(* (envelope/mail.go), which cuts it into header and body.  A text is a    *)
(* sequence of tokens: CR, LF, and whatever else lines are made of.        *)
(***************************************************************************)
EXTENDS Integers, Sequences, SequencesExt

CR == <<"CR">>
LF == <<"LF">>

CONSTANTS
    Messages,   \* [header, body, eol]: the lines of a message and their end
    Tokens,     \* what lines are made of, CR and LF apart
    NewFields,  \* the fields that may be put in front
    MaxPrepends \* bound: how many are

\* A CR within a line of the body is just a byte.  A line of the header has no CR,
\* and is not empty, or the header would end there.
ASSUME LinesAssumption ==
    /\ CR \notin Tokens /\ LF \notin Tokens /\ NewFields \subseteq Tokens
    /\ \A m \in Messages :
          /\ m.header \in Seq(Seq(Tokens) \ {<<>>})
          /\ m.body \in Seq(Seq(Tokens \cup {CR}))
          /\ m.eol \in {<<CR, LF>>, <<LF>>}

VARIABLES
    msg,    \* the message that is written
    bufs,   \* Data.bufs
    todo,   \* what is still to be written
    text,   \* history: the text of the message
    added   \* history: the fields prepended, the last one first

dataVars == <<msg, bufs, todo, text, added>>

---------------------------------------------------------------------------
(* Writing a message.                                                      *)

Written ==
    LET lines == msg.header \o << <<>> >> \o msg.body
    IN  FlattenSeq([i \in DOMAIN lines |-> lines[i] \o msg.eol])

\* textproto's DotReader makes LF of CR LF: it holds a CR back until it has seen
\* what follows.
DotByte(r, tok) ==
    CASE tok = CR -> [out |-> r.out \o r.held, held |-> <<CR>>]
      [] tok = LF -> [out |-> r.out \o <<LF>>, held |-> <<>>]
      [] OTHER    -> [out |-> r.out \o r.held \o <<tok>>, held |-> <<>>]

DotState(data) ==
    LET r[n \in 0 .. Len(data)] ==
          IF n = 0 THEN [out |-> <<>>, held |-> <<>>] ELSE DotByte(r[n - 1], data[n])
    IN  r[Len(data)]

DotReader(data) == DotState(data).out \o DotState(data).held

\* Over SMTP the DotReader stands in between; a program may also write itself.
DataInit ==
    /\ msg \in Messages
    /\ text \in {DotReader(Written), Written} /\ todo = text
    /\ bufs = <<>> /\ added = <<>>

Bytes == FlattenSeq(bufs)

\* Mutant: a field is put into the first buffer there is.
headInPlace(p) == IF bufs = <<>> THEN <<p>> ELSE [bufs EXCEPT ![1] = @ \o p]

head(p) == <<p>> \o bufs

tail(p) == IF bufs = <<>> THEN <<p>> ELSE [bufs EXCEPT ![Len(bufs)] = @ \o p]

\* Write and ReadFrom.
Write(n) ==
    /\ bufs' = tail(SubSeq(todo, 1, n))
    /\ todo' = SubSeq(todo, n + 1, Len(todo))
    /\ UNCHANGED <<msg, text, added>>

PrependHeader(field) ==
    /\ Len(added) < MaxPrepends
    /\ bufs' = head(<<field, CR, LF>>)
    /\ added' = <<field>> \o added
    /\ UNCHANGED <<msg, todo, text>>

DataNext ==
    \/ \E n \in DOMAIN todo : Write(n)
    \/ \E field \in NewFields : PrependHeader(field)

DataSpec == DataInit /\ [][DataNext]_dataVars

---------------------------------------------------------------------------
(* Reading a message.                                                      *)

Cuts(data, sep) ==
    {i \in 0 .. Len(data) - Len(sep) : SubSeq(data, i + 1, i + Len(sep)) = sep}

\* bytes.Cut.
CutAt(data, sep) ==
    LET i == CHOOSE i \in Cuts(data, sep) : \A j \in Cuts(data, sep) : i <= j
    IN  [err |-> "none", header |-> SubSeq(data, 1, i),
         body |-> SubSeq(data, i + Len(sep) + 1, Len(data))]

EmptyLine == <<CR, LF, CR, LF>>

NewMail(data) ==
    IF Cuts(data, EmptyLine) # {} THEN CutAt(data, EmptyLine)
    ELSE IF Cuts(data, <<LF, LF>>) # {} THEN CutAt(data, <<LF, LF>>)
    ELSE [err |-> "no body"]

\* textproto's ReadLine, over and over: the lines so far, and one that has begun.
LineByte(r, tok) ==
    CASE tok = CR -> r
      [] tok = LF -> [lines |-> Append(r.lines, r.line), line |-> <<>>]
      [] OTHER    -> [r EXCEPT !.line = Append(@, tok)]

LineState(data) ==
    LET r[n \in 0 .. Len(data)] ==
          IF n = 0 THEN [lines |-> <<>>, line |-> <<>>] ELSE LineByte(r[n - 1], data[n])
    IN  r[Len(data)]

Lines(data) ==
    LET end == LineState(data)
    IN  IF end.line = <<>> THEN end.lines ELSE Append(end.lines, end.line)

---------------------------------------------------------------------------
\* A text with LF that has CR LF CR LF in its body (over SMTP, CR CR LF twice)
\* is cut there, and one without a header needs a field in front.
Splits ==
    /\ todo = <<>>
    /\ msg.header # <<>> \/ added # <<>>
    /\ Cuts(text, EmptyLine) = {} \/ (text = Written /\ msg.eol = <<CR, LF>>)

\* A line without the CRs in it.
DropCR(line, tok) == IF tok = CR THEN line ELSE Append(line, tok)

WithoutCR(line) ==
    LET r[n \in 0 .. Len(line)] == IF n = 0 THEN <<>> ELSE DropCR(r[n - 1], line[n])
    IN  r[Len(line)]

NoCR(lines) == [i \in DOMAIN lines |-> WithoutCR(lines[i])]

\* Header and body are what was written, with the newest field on top, however
\* the message came into Data and whatever its line ends: nothing of one gets
\* into the other (data.go:11-22, envelope.go:84, mail.go:40-49).
SplitRight ==
    Splits =>
        LET m == NewMail(Bytes)
        IN  /\ m.err = "none"
            /\ Lines(m.header) = [i \in DOMAIN added |-> <<added[i]>>] \o msg.header
            /\ Lines(m.body) = NoCR(msg.body)
=============================================================================
