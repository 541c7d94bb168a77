SPECIFICATION Spec
CONSTANTS
    Upload = {u1}
    Object = {1}
    Request = {r1}
    Reader = {}
    Worker = {w1}
    Nil = Nil
    Length = 1
    Retention = 1
    Transfer = 2
    PinTime = 1
    MaxTemporary = 2
    MaxUploads = 1
    Page = 1
    Lag = 1
    Backends = {"volume"}
    MaxTime = 3
INVARIANTS
    CatalogIsConsumable
CHECK_DEADLOCK FALSE
