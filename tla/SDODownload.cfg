SPECIFICATION Spec
CONSTANTS
    num = num
    dom = dom
    ro = ro
    wo = wo
    nosub = nosub
    zero = zero
    Mux = {dom, ro, nosub, zero}
    Zero = zero
    Byte <- MCByte
    Pad = 0
    Access <- MCAccess
    Size <- MCSize
    MaxSeq = 2
    Faults = {"validate", "on_receive", "on_finish", "on_abort"}
    DownloadCallback = {"none", "handler"}
    MaxData = 21
    UploadCallback = {"none"}
    Served = {}
    Frames <- MCDownloadFrames
    Written <- NoWrites
INVARIANTS
    TypeOK
    SinkLedger
    IdleIsClean
    BlockBuffer
    ChecksumCoversData
PROPERTIES
    ChecksumGuardsData
    AbortEndsTransfer
VIEW
    Fields
