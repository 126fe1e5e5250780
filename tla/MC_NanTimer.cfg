CONSTANTS
    Boot = 204800
    Horizon = 800000
    Latencies = {1024}
    SendTimes = {0, 15360, 20480}
    RxGaps = {1000}
    Skews <- MCSkews
    MaxRx = 1
    Roles = {"master", "sync"}
SPECIFICATION Spec
INVARIANT TypeOK
PROPERTY DwEndFollowsEveryDw
CHECK_DEADLOCK FALSE
