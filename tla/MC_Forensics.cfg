SPECIFICATION Spec
CONSTANTS
    a = a
    b = b
    c = c
    Keys = {a, b, c}
    Event <- MCEvent
    Risks = {"NONE", "HIGH"}
    RiskAt <- MCRiskAt
    Lag <- MCLag
    Zones <- MCZones
    Day = 2
    MaxNow = 5
    NoRow = NoRow
    None = None
    Agents = {"host1", "host2"}
    Window = 1
INVARIANTS TypeOK HistoryIsComplete ReportAgrees StatisticsAgree GoneAfterTwoDays
PROPERTIES KeptADay
CONSTRAINT RequestsWhenSettled
CHECK_DEADLOCK FALSE
