SPECIFICATION Spec
CONSTANTS
    Upload = {u1}
    Object = {o1,o2,o3}
    Request = {r1}
    Reader = {d1}
    Worker = {w1}
    Nil = Nil
    Length = 2
    Retention = 1
    Transfer = 2
    PinTime = 1
    MaxTemporary = 4
    MaxUploads = 1
    Page = 1
    Lag = 1
    Backends = {"volume","s3"}
    MaxTime = 2
CONSTRAINT ThirdObjectIsTemporary
SYMMETRY ObjectSymmetry
INVARIANTS
    ReadyIsStored
    FrontierIsStored
    PinnedIsStored
    DeletedIsGone
    TemporaryIsBounded
    CollectionCanContinue
PROPERTIES
    KeptWhileNeeded
