CONSTANTS
    MaxSize <- MCMaxSize
    MaxBuffer <- MCMaxBuffer
    MaxAsk <- MCMaxAsk

SPECIFICATION FairSpec

INVARIANTS
    StreamInv

PROPERTIES
    ImplementsSource
    ReadReturns
