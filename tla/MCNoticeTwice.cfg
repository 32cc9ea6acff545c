SPECIFICATION NoticeSpec
CONSTANTS
    Processes = {p1, p2}
    Copies = {a}
    Releases = {1, 2}
    Day = 2
    MaxTime = 3
    Nil = Nil
CHECK_DEADLOCK FALSE
PROPERTY OneCheckADay
