SPECIFICATION FairSession
CONSTANTS
    num = num
    dom = dom
    zero = zero
    Mux = {dom, num, zero}
    Zero = zero
    Byte <- MCByte
    Pad = 0
    Access <- MCAccess
    Size <- MCSize
    MaxSeq = 2
    Faults = {}
    DownloadCallback = {"none"}
    MaxData = 21
    UploadCallback = {"none"}
    Served = {}
    Frames = {}
    Written <- MCWritten
    Request <- MCRequest
    Window = 2
    Named <- MCNamed
    MaxLoss = 2
PROPERTIES
    ImplementsTransfer
    RequestsSettle
