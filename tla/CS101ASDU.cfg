CONSTANTS
    Types <- SoundTypes
    Sequenced <- SoundInSequence
    Endless = {"M_SP_NA_1"}
    MaxObjects = 3
    Parameters <- ParametersDef
    Given <- GivenDef
    Offered <- OfferedDef
    Causes = {6, 37}
    Addresses <- AddressesDef
    Originator = 5
SPECIFICATION Spec
INVARIANT AddedIsRead
INVARIANT FitsInTheASDU
PROPERTY RefusedLeavesNoTrace
