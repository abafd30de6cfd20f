----------------------------- MODULE MCDkimHash -----------------------------
EXTENDS DkimHash

MCNames == {"from", "received", "dkim-signature"}

Field(n, f) == [name |-> n, form |-> f, from |-> "author"]

SeqsUpTo(S, n) == UNION {[1 .. k -> S] : k \in 0 .. n}

\* All short bodies under one header, and all short headers over one body.
MCMessages ==
    [h : {<<Field("from", "canonical")>>}, body : SeqsUpTo(Bytes, 5), keys : {<<"from">>}]
    \cup
    [h : SeqsUpTo({Field("from", "canonical"), Field("received", "folded")}, 3),
     body : {<<"x">>}, keys : SeqsUpTo(MCNames, 3)]
=============================================================================
