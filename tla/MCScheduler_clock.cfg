SPECIFICATION Spec
CONSTANTS
    Datasets = {d1, d2}
    Specs <- Edits
    Tick = 1
    Cycle = 2
    Editors = {h1}
    Events = {"delete", "fail", "stop", "crash"}
SYMMETRY AnyOrder
VIEW WithoutErrors
PROPERTIES
    OnceAPeriod
