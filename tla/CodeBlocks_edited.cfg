\* One code step; the stored source of its block is edited in the table.
SPECIFICATION BlockSpec
CONSTANTS
    Ref = {f1}
    Source = {src1, src2}
    Capability = {net}
    CodeStep = {k1}
    NoBlock = NoBlock
    NoSource = NoSource
INVARIANTS
    PinStopsEdits
