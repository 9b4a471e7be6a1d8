SPECIFICATION MCSpec
CONSTANTS
    Absent = Absent
    MaxLen = 3
    MaxLines = 5
    MaxCells = 4
    h = h
    Hash = {h}
    Selections <- SomeSelections
    Bodies <- SomeBodies
    Tools = {"rect", "select"}
    Grid <- SomePoints
    MaxPictures = 2
    MaxTyped = 1
    MaxShapes = 1
    MaxBoards = 2
    MaxCrashes = 1
    MaxActs = 3
INVARIANTS
    FormatsSound
    EditorSound
CHECK_DEADLOCK FALSE
