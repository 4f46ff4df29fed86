\* A PDCP entity, SNs 0..5, COUNTs 0..11 (the SN wraps once): alone, and at
\* the end of a lossy, reordering, duplicating channel.
CONSTANTS
    Window = 3
    HfnMod = 2
    MaxTx = 1
    EarlyPdu = FALSE
SPECIFICATION PdcpSpec
INVARIANTS
    RxOrdered
    
    DecodeExact
PROPERTIES
    InOrderDelivery
    SkipOnlyOnExpiry
    
