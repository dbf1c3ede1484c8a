\* One call and one edit, which may fall between a restore's check and its write.
CONSTANTS
    File = {f1}
    Text = {t1}
    Foreign = {p1}
    Missing = Missing
    Partial = Partial
    Restorer = {r1}
    Nobody = Nobody
    MaxCalls = 1
    MaxEdits = 1
SPECIFICATION Spec
PROPERTIES
    ChangedTargetsAreSkipped
