SPECIFICATION Spec
CONSTANT Words <- MCWords
INVARIANTS
    TypeOK
    CallsAreCalls
    TargetIsRight
PROPERTY
    PlainCallsAreSeen
