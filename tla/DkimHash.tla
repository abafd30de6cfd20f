------------------------------ MODULE DkimHash ------------------------------
(***************************************************************************)
(* The hashing that signer and verifier have in common (sign.go:181-261,   *)
(* verify.go:385-421), and what happens to a message between them.  Each   *)
(* side writes the body to a canonicalizer in whatever pieces it comes,    *)
(* then picks the fields that the tag h names.  On its way the message     *)
(* gets fields on top, its own DKIM-Signature first, and may change in the *)
(* ways its canonicalization is meant to forgive.                          *)
(***************************************************************************)
EXTENDS Canonical

CONSTANTS
    Messages, \* the messages signed: [h, body, keys], keys being the tag h
    Names,    \* the names of fields that are added on the way
    MaxAdded  \* bound: how many

ASSUME MessagesAssumption ==
    \A m \in Messages :
        /\ m.h \in Seq([name : Names, form : Forms, from : {"author"}])
        /\ m.body \in Seq(Bytes) /\ m.keys \in Seq(Names)

VARIABLES
    h,        \* the header as it is now
    body,     \* the body as it is now
    keys,     \* the names to pick, in their order
    can,      \* the canonicalizations, [header, body]
    side,     \* "sign", "transit", "verify" or "done"
    fed,      \* bytes of the body that were written
    writer,   \* the body canonicalizer
    picked,   \* headerPicker.picked
    hashed,   \* the fields hashed, one per key that named one
    asked,    \* keys that were looked up
    signed,   \* what the signer hashed, [body, fields]
    verified, \* what the verifier hashed
    added     \* the names of the fields added on the way

hashVars == <<fed, writer, picked, hashed, asked>>
vars == <<h, body, keys, can, side, hashVars, signed, verified, added>>

Nothing == [body |-> <<>>, fields |-> <<>>]

StartHashing ==
    /\ fed' = 0 /\ writer' = NewCanonicalizer
    /\ picked' = [n \in Names |-> 0] /\ hashed' = <<>> /\ asked' = 0

Init ==
    /\ \E m \in Messages : h = m.h /\ body = m.body /\ keys = m.keys
    /\ can \in [header : Canonicalizers, body : Canonicalizers]
    /\ side = "sign"
    /\ fed = 0 /\ writer = NewCanonicalizer
    /\ picked = [n \in Names |-> 0] /\ hashed = <<>> /\ asked = 0
    /\ signed = Nothing /\ verified = Nothing /\ added = <<>>

---------------------------------------------------------------------------
(* Both sides.                                                             *)

Hashing == side \in {"sign", "verify"}

\* io.Copy gives the canonicalizer some of the body.
WriteBody ==
    /\ Hashing
    /\ \E n \in 1 .. Len(body) - fed :
          /\ writer' = Write(can.body, writer, SubSeq(body, fed + 1, fed + n))
          /\ fed' = fed + n
    /\ UNCHANGED <<h, body, keys, can, side, picked, hashed, asked, signed, verified, added>>

\* The next key of the tag h; a name that no field bears is passed over.
PickKey ==
    /\ Hashing /\ fed = Len(body) /\ asked < Len(keys)
    /\ LET key == keys[asked + 1]
           i   == Pick(h, key, picked[key])
       IN IF i = 0
          THEN UNCHANGED <<picked, hashed>>
          ELSE /\ picked' = [picked EXCEPT ![key] = @ + 1]
               /\ hashed' = Append(hashed, CanonicalizeHeader(can.header, h[i]))
    /\ asked' = asked + 1
    /\ UNCHANGED <<h, body, keys, can, side, fed, writer, signed, verified, added>>

Hashes == [body |-> Close(can.body, writer), fields |-> hashed]

Complete == fed = Len(body) /\ asked = Len(keys)

\* The signature is over what was hashed; its field goes on top.
SignHash ==
    /\ side = "sign" /\ Complete
    /\ signed' = Hashes
    /\ h' = <<[name |-> "dkim-signature", form |-> "canonical", from |-> "hop"]>> \o h
    /\ added' = <<"dkim-signature">>
    /\ side' = "transit"
    /\ StartHashing
    /\ UNCHANGED <<body, keys, can, verified>>

CompareHash ==
    /\ side = "verify" /\ Complete
    /\ verified' = Hashes
    /\ side' = "done"
    /\ UNCHANGED <<h, body, keys, can, hashVars, signed, added>>

---------------------------------------------------------------------------
(* On the way.                                                             *)

InTransit == side = "transit" /\ UNCHANGED <<keys, can, hashVars, signed, verified>>

AddField ==
    /\ InTransit /\ Len(added) < MaxAdded
    /\ \E n \in Names :
          /\ h' = <<[name |-> n, form |-> "canonical", from |-> "hop"]>> \o h
          /\ added' = Append(added, n)
    /\ UNCHANGED <<body, side>>

\* Empty lines come or go at the end of the body.
ChangeEnd ==
    /\ InTransit
    /\ \/ body' = body \o CRLF
       \/ Len(body) > 2 /\ IsSuffix(CRLF \o CRLF, body)
          /\ body' = SubSeq(body, 1, Len(body) - 2)
    /\ side' = "verify"
    /\ UNCHANGED <<h, added>>

\* Relaxed forgives white space at the end of a line and lines folded anew.
ChangeSpace ==
    /\ InTransit
    /\ \/ can.body = "relaxed" /\ UNCHANGED h
          /\ \E i \in DOMAIN body :
                /\ body[i] = "SP" \/ body[i] = "CR"
                /\ body' = SubSeq(body, 1, i - 1) \o <<"SP">> \o SubSeq(body, i, Len(body))
       \/ can.header = "relaxed" /\ UNCHANGED body
          /\ \E i \in DOMAIN h, form \in Forms : h' = [h EXCEPT ![i].form = form]
    /\ side' = "verify"
    /\ UNCHANGED added

Arrive ==
    /\ InTransit
    /\ side' = "verify"
    /\ UNCHANGED <<h, body, added>>

Next ==
    \/ WriteBody \/ PickKey \/ SignHash \/ CompareHash
    \/ AddField \/ ChangeEnd \/ ChangeSpace \/ Arrive

Spec == Init /\ [][Next]_vars

---------------------------------------------------------------------------
(* However a body was cut into writes, between CR and LF too, the          *)
(* canonicalizer would, if closed now, have written what the algorithm     *)
(* makes of the bytes so far (canonical.go:61-174).                        *)
WritesDoNotMatter ==
    Close(can.body, writer) = CanonicalBody(can.body, SubSeq(body, 1, fed))

\* A name was put into the tag h more often than the message had it, and the
\* message got a field of that name afterwards.
Oversigned ==
    \E n \in Range(added) :
       Cardinality({i \in DOMAIN keys : keys[i] = n})
          > Cardinality({i \in Named(h, n) : h[i].from = "author"})

(* What the verifier hashes is what the signer hashed, for every message   *)
(* that was changed only in forgivable ways, except that a field added     *)
(* under an oversigned name is noticed (sign.go:239).                      *)
VerifierHashesTheSame ==
    side = "done" =>
       /\ verified.body = signed.body
       /\ verified.fields = signed.fields <=> ~Oversigned
=============================================================================
