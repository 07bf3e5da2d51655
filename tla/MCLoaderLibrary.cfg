SPECIFICATION Spec
CONSTANTS
    Programs <- Apart
    Dlls <- Blobs
    NPROCS = 3
    Starts <- Fitting
    MAX_MODULES = 4
    MaxReg = 3
    Pages = 17
    HeapBase = 10
    HeapMax = 12
    StackOff = 3
INVARIANT LibraryMapped
CHECK_DEADLOCK FALSE
