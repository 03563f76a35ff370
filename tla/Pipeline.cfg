\* Any request to any route, with any verdicts and a panic wherever one can begin.
SPECIFICATION Spec
CONSTANTS
    Org = {o1, o2}
    None = None
INVARIANTS
    TypeOK
    RecordedIsSent
    OriginsCanReadAnswers
    HandlersAreGuarded
    PreflightsAreFree
    PanicsAreAnswered
    CountedByPattern
