\* Every sequence of pushes, shifts and holes on a download of five bytes.
SPECIFICATION Spec
CONSTANT
    MaxSize = 5
INVARIANTS
    Canonical
    FiguresAreRight
PROPERTY
    ImplementsMap
