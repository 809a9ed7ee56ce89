SPECIFICATION Spec
CONSTANTS
    Settings = {closeFactor, oracle}
    FirstAtOnce = {oracle}
    Code = code
    Values = {a, b, c}
    Unset = Unset
    None = None
    Delay = 2
PROPERTIES GivesNotice
