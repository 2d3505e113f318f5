SPECIFICATION NaiveSpec
CONSTANTS
    Calls = {c1}
    Replays = {r1}
    Events = {286, 287, 500, 983}
    Dates = {250, 288, 984, 1008}
    Tiers = {"kafka", "cold", "warm"}
    KafkaDays = 1
    ClickHouseMonths = 1
    StartNow = 1007
    MaxNow = 1008
INVARIANTS
    NaiveTypeOK
    AnswersAreTrue
    ReplayAsksEachInstantOnce
    MissedRowsAgedMeanwhile
CHECK_DEADLOCK FALSE
