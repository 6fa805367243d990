SPECIFICATION Spec
CONSTANTS
    Datagrams <- MCDatagrams
    Answers <- MCAnswers
    MaxNested = 6
INVARIANTS
    TypeOK
    OptionsAsSent
    NestedAsSent
    ReplyReadsBack
PROPERTIES
    WalkEnds
