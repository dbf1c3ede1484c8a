\* Three calls that write two texts to one file; one edit or loss of a
\* backup, at any moment.
CONSTANTS
    File = {f1}
    Text = {t1, t2}
    Foreign = {p1}
    Missing = Missing
    Partial = Partial
    Restorer = {r1}
    Nobody = Nobody
    MaxCalls = 3
    MaxEdits = 1
SYMMETRY Symmetry
SPECIFICATION Spec
INVARIANTS
    TypeOK
    NothingGovernedRemains
PROPERTIES
    RestoredContentIsGenuine
    EditsSurvive
