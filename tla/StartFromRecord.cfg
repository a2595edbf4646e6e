SPECIFICATION DevSpec
CONSTANTS
    Datasets = {"a", "b", "c"}
    UsbDevs = {"u1", "u2"}
    PciDevs = {"p1"}
    MaxDisks = 2
    MaxUsb = 1
    MaxGib = 2
    DevReqs = {1}
    MaxDevOps = 3
    MaxDevFaults = 1
PROPERTIES
    StartsFromRecord
CHECK_DEADLOCK FALSE
