----------------------------- MODULE Canonical ------------------------------
(***************************************************************************)
(* What DKIM hashes (authres/dkim/canonical.go, header.go): the body as    *)
(* the canonicalizers leave it, in as many writes as it comes, and the     *)
(* header fields in the order in which a headerPicker picks them.  Of the  *)
(* bytes only CR, LF, white space and the rest are told apart; of a field  *)
(* its name and the form it is written in.                                 *)
(***************************************************************************)
EXTENDS Integers, Sequences, FiniteSets, SequencesExt

CRLF == <<"CR", "LF">>
Bytes == {"CR", "LF", "SP", "x"}

Canonicalizers == {"simple", "relaxed"}

\* A body canonicalizer: what it has written, and what it holds back: line ends,
\* and white space as one space.  Of the byte before, the code keeps whether it
\* was a CR; its flag written says that out is not empty.
NewCanonicalizer == [out |-> <<>>, crlfBuf |-> <<>>, wsp |-> <<>>, before |-> "none"]

---------------------------------------------------------------------------
(* crlfFixer.                                                              *)

FixedByte(before, ch) == IF ch = "LF" /\ before # "CR" THEN CRLF ELSE <<ch>>
FixByte(f, ch) == [before |-> ch, out |-> f.out \o FixedByte(f.before, ch)]

\* The bytes b, that follow the byte before, with a CR before every LF.
Fix(before, b) ==
    LET f[n \in 0 .. Len(b)] ==
          IF n = 0 THEN [before |-> before, out |-> <<>>] ELSE FixByte(f[n - 1], b[n])
    IN f[Len(b)]

---------------------------------------------------------------------------
(* simple                                                                  *)

\* From e on, the first n bytes of b are CRLFs only.
OnlyCRLFs(b, e, n) ==
    \E m \in 0 .. n :
        /\ e + 2 * m = n
        /\ \A k \in 1 .. m : b[e + 2 * k - 1] = "CR" /\ b[e + 2 * k] = "LF"

\* Where the CRLFs at the end of the first n bytes of b begin.
Stripped(b, n) == Min({e \in 0 .. n : OnlyCRLFs(b, e, n)})

\* Mutant: a CR at the end of a write is not held back.
SimpleWriteNoCR(c, b) ==
    LET f   == Fix(c.before, c.crlfBuf \o b)
        end == Stripped(f.out, Len(f.out))
    IN [c EXCEPT !.out = @ \o SubSeq(f.out, 1, end), !.before = f.before,
                 !.crlfBuf = SubSeq(f.out, end + 1, Len(f.out))]

SimpleWrite(c, b) ==
    LET f   == Fix(c.before, c.crlfBuf \o b)
        n   == IF f.out # <<>> /\ Last(f.out) = "CR" THEN Len(f.out) - 1 ELSE Len(f.out)
        end == Stripped(f.out, n)
    IN [c EXCEPT !.out = @ \o SubSeq(f.out, 1, end), !.before = f.before,
                 !.crlfBuf = SubSeq(f.out, end + 1, Len(f.out))]

SimpleClose(c) ==
    c.out \o (IF c.crlfBuf # <<>> /\ Last(c.crlfBuf) = "CR" THEN c.crlfBuf ELSE <<>>) \o CRLF

---------------------------------------------------------------------------
(* relaxed                                                                 *)

RelaxedByte(c, ch) ==
    CASE ch = "SP"           -> [c EXCEPT !.wsp = <<"SP">>]
      [] ch \in {"CR", "LF"} -> [c EXCEPT !.wsp = <<>>, !.crlfBuf = Append(@, ch)]
      [] OTHER -> [c EXCEPT !.out = @ \o c.crlfBuf \o c.wsp \o <<ch>>,
                            !.crlfBuf = <<>>, !.wsp = <<>>]

RelaxedBytes(c, b) ==
    LET r[n \in 0 .. Len(b)] == IF n = 0 THEN c ELSE RelaxedByte(r[n - 1], b[n])
    IN r[Len(b)]

RelaxedWrite(c, b) ==
    LET f == Fix(c.before, b) IN [RelaxedBytes(c, f.out) EXCEPT !.before = f.before]

RelaxedClose(c) == c.out \o (IF c.out # <<>> THEN CRLF ELSE <<>>)

Write(kind, c, b) == IF kind = "simple" THEN SimpleWrite(c, b) ELSE RelaxedWrite(c, b)
Close(kind, c) == IF kind = "simple" THEN SimpleClose(c) ELSE RelaxedClose(c)

---------------------------------------------------------------------------
(* Header fields.                                                          *)

\* relaxed writes every field in one way, simple leaves it as it is.
Forms == {"canonical", "folded"}
CanonicalizeHeader(kind, kv) == IF kind = "simple" THEN kv ELSE [kv EXCEPT !.form = "canonical"]

\* The fields of h with a name, as positions.
Named(h, key) == {i \in DOMAIN h : h[i].name = key}

\* Mutant: the fields are picked from the top.
PickFromTop(h, key, at) ==
    LET F == {i \in Named(h, key) : Cardinality({j \in Named(h, key) : j < i}) = at}
    IN IF F = {} THEN 0 ELSE CHOOSE i \in F : TRUE

\* headerPicker.Pick, when the name was picked at times before: the field
\* with so many of its name below it, or 0 for the empty string.
Pick(h, key, at) ==
    LET F == {i \in Named(h, key) : Cardinality({j \in Named(h, key) : j > i}) = at}
    IN IF F = {} THEN 0 ELSE CHOOSE i \in F : TRUE

---------------------------------------------------------------------------
(* The two algorithms said at once, of a whole body: what a body is when   *)
(* its empty lines at the end, and for relaxed its white space at the end  *)
(* of lines and in rows, do not count.                                     *)

Fixed(b) == Fix("none", b).out

SimpleBody(b) == SubSeq(Fixed(b), 1, Stripped(Fixed(b), Len(Fixed(b)))) \o CRLF

\* The bytes of f that count: text, a space before text, and the line ends that
\* text follows.
Counting(f) ==
    {i \in DOMAIN f :
       CASE f[i] = "SP" -> i < Len(f) /\ f[i + 1] = "x"
         [] f[i] = "x"  -> TRUE
         [] OTHER       -> \E j \in DOMAIN f : j > i /\ f[j] = "x"}

RelaxedBody(b) ==
    LET f == Fixed(b)
        kept[n \in 0 .. Len(f)] ==
          IF n = 0 THEN <<>> ELSE IF n \in Counting(f) THEN Append(kept[n - 1], f[n]) ELSE kept[n - 1]
    IN IF Counting(f) = {} THEN <<>> ELSE kept[Len(f)] \o CRLF

CanonicalBody(kind, b) == IF kind = "simple" THEN SimpleBody(b) ELSE RelaxedBody(b)
=============================================================================
