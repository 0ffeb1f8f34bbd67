SPECIFICATION Spec
CONSTANTS
    num = num
    dom = dom
    ro = ro
    wo = wo
    nosub = nosub
    zero = zero
    Mux = {num, dom, zero}
    Zero = zero
    Byte <- MCByte
    Pad = 0
    Access <- MCAccess
    Size <- MCSize
    MaxSeq = 1
    Faults = {"validate", "on_receive", "on_finish", "on_abort",
              "read", "on_read", "abort", "release"}
    DownloadCallback = {"none", "handler", "raise"}
    MaxData = 7
    UploadCallback = {"none", "handler", "raise"}
    Served <- FewStrings
    Frames <- MCMixedFrames
    Written <- NoWrites
INVARIANTS
    StreamAvailable
PROPERTIES
    StoredIsConfirmed
VIEW
    Fields
