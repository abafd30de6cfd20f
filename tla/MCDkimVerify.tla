---------------------------- MODULE MCDkimVerify ----------------------------
EXTENDS DkimVerify

MCKinds == {{}, {"method", "unavailable", "body hash"}, {"unavailable", "length"}, {"signature"}}
MCLimits == {0, 1, 2}
=============================================================================
