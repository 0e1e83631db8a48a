SPECIFICATION DevicesSpec
CONSTANTS
    Calls = {c1, c2}
    I2C = {i1, i2}
    SPI = {s1}
    Slaves = {a1, a2}
    I2COps = {"read_words"}
    SpiOps = {"read", "wr"}
    MaxLen = 2
    Values = {258}
    Byte = 256
    Speeds = {0}
    Modes = {0}
SYMMETRY Symmetry
INVARIANTS
    OneSlave
    DescriptorsHeld
    ToldAsMade
\* undefined behaviour ends what is claimed
CHECK_DEADLOCK FALSE
