SPECIFICATION Spec
CONSTANTS
    module = module
    old = old
    new = new
    Paths = {module}
    Texts = {old, new}
    Broken = Broken
    Unreadable = Unreadable
    Absent = Absent
    Husk = Husk
    None = None
    MaxEdits = 2
    MaxQueue = 0
    MaxCrashes = 1
PROPERTY
    SeenEditsReachIndex
