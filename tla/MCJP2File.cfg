CONSTANTS
    BufferSize = 3
    Zero <- MCZero
    MaxRLvls <- MCMaxRLvls
    MaxLayers <- MCMaxLayers
    MaxPocs <- MCMaxPocs
    MaxTLM <- MCMaxTLM
    StepTable <- MCStepTable
    Jobs <- MCJobs

SPECIFICATION Spec

INVARIANTS
    LengthsTell
    PartsAnnounced
    
    ReadsBack
    PackedMerged
    ChannelsInOrder

PROPERTIES
    ImplementsSink
