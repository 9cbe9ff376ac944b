SPECIFICATION AllSpec
CONSTANTS
    Ways = {"log", "download", "phases"}
    FoldNames <- McFolds
    Readings = {1}
    Phases = {p1, p2}
    Named = {"f1", "log aggregate"}
    ChangeLimit = 3
    Payloads <- McPayloads
    NoiseTexts <- McNoise
    MaxPayload = 9
    MaxLine = 12
    MaxLog = 30
    MaxLines = 3
    None = None
    Refused = Refused
INVARIANT LogIsRead
INVARIANT AcceptedIsTrue
INVARIANT TruthIsAccepted
INVARIANT ShownIsDerived
SYMMETRY Interchangeable
