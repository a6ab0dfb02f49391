CONSTANTS
    Int32Args  <- MCInt32Args
    Uint32Args <- MCUint32Args
    Int64Args  <- MCInt64Args
    DoubleArgs <- MCDoubleArgs
    PtrArgs    <- MCPtrArgs
    JunkWords  <- MCJunkWords
    CvtOverflow <- MCCvtOverflow
INIT Init
NEXT Next
INVARIANTS
    TypeOK
    RoundTrip
    RefCountClassSound
    LayoutsAgree
    
