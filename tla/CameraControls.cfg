SPECIFICATION Spec
CONSTANTS
    Phones = {i, a}
    IPhones = {i}
    None = None
    MaxEdits = 2
    MaxSelects = 2
    MaxFaults = 1
INVARIANTS OwnPhoneOnly ConfigAsChosen PictureAsChosen
CHECK_DEADLOCK FALSE
