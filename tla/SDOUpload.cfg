SPECIFICATION Spec
CONSTANTS
    num = num
    dom = dom
    ro = ro
    wo = wo
    nosub = nosub
    zero = zero
    Mux = {num, dom, wo, zero}
    Zero = zero
    Byte <- MCByte
    Pad = 0
    Access <- MCAccess
    Size <- MCSize
    MaxSeq = 2
    Faults = {"read", "abort", "release"}
    DownloadCallback = {"none"}
    MaxData = 21
    UploadCallback = {"none", "handler", "raise"}
    Served <- Strings
    Frames <- MCUploadFrames
    Written <- Writes
INVARIANTS
    SourceLedger
PROPERTIES
    AbortEndsTransfer
VIEW
    Fields
