SPECIFICATION Spec
CONSTANTS
    WordBits = 4
    MaxSeq = 9
    WindowRequests <- MCBelowWord
INVARIANTS
    TypeOK
    BitmapIsHistory
PROPERTIES
    PythonImplementsPromise
    CImplementsPromise
