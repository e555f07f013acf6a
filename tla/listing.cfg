SPECIFICATION Spec
CONSTANTS
    r1 = r1
    r2 = r2
    r3 = r3
    draft = draft
    live = live
    ann = ann
    bob = bob
    Rows = {r1, r2, r3}
    Times = {1, 2, 3}
    States = {draft, live}
    Names = {ann, bob}
    Contents <- SomeContents
    MaxLimit = 2
    Absent = Absent
INVARIANTS PagesPartition InsertsHideNothing DeletesRepeatNothing
CHECK_DEADLOCK FALSE
