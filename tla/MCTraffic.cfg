SPECIFICATION TrafficSpec
CONSTANTS
    LinkId = {l1}
    None = None
    Flaky = {l1}
    MaxBytes = 2
INVARIANTS TrafficTypeOK BaselinesAreAccountedFor
PROPERTIES NoMoreThanCrossed NoByteIsSkipped
