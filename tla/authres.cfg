SPECIFICATION Spec
CONSTANTS
    Senders <- MCSenders
    FromDomains <- MCFromDomains
    SignDomains <- MCSignDomains
    SpfAnswers <- MCSpfAnswers
    MaxSignatures = 2
    Answers <- MCAnswers
    Lower <- MCLower
INVARIANTS
    VerdictDeserved
    VerdictNeedsPolicy
    FieldReadsBack
CHECK_DEADLOCK FALSE
