----------------------------- MODULE MCDkimSign -----------------------------
EXTENDS DkimSign

Good == [given |-> TRUE, domain |-> "d", selector |-> "s", key |-> "rsa",
         headerCan |-> "", bodyCan |-> "relaxed", hash |-> "",
         headerKeys |-> ""]

MCOptions ==
    {Good, [Good EXCEPT !.headerKeys = "without From"],
     [Good EXCEPT !.key = "ed25519", !.headerKeys = "with From"]}
=============================================================================
