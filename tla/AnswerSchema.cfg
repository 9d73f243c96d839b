SPECIFICATION ReportSpec
CONSTANTS
    Calls <- MCCalls
    Outputs <- MCOutputs
    Numbers <- MCNumbers
    Unit <- MCUnit
    Tolerance <- MCTolerance
    MaxEnclosing <- MCMaxEnclosing
    MaxValueDepth <- MCMaxValueDepth
    Exchanges <- MCExchanges
    MaxEmbedDepth <- MCMaxEmbedDepth
    MaxNesting <- MCMaxNesting
    MaxInt <- MCMaxInt
INVARIANT ValidatesAsMeant
INVARIANT SchemaAgrees
INVARIANT ReplyFollows
INVARIANT AsksWhatItMay
INVARIANT ReportReadsBack
INVARIANT ReplyDecodes
