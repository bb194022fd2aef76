SPECIFICATION Spec
CONSTANTS
    Number <- SomeNumbers
    Absent = Absent
    Fraction = Fraction
    Text = Text
    MaxPublishers = 2
INVARIANTS
    RetriesByDefault
CHECK_DEADLOCK FALSE
