SPECIFICATION Spec
INVARIANTS
    LevelsWithin
    EscapesStayOut
    ReportTellsOneStory
    FiguresReconcile
    RowsReadBack
    OriginalsOnce
    RolesDivideTheWork
CHECK_DEADLOCK FALSE
