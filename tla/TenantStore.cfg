\* Three requests of two tenants over two connections; one application to start
\* with.
SPECIFICATION Spec
CONSTANTS
    Request = {q1, q2, q3}
    Conn = {c1, c2}
    Tenant = {t1, t2}
    Table = {"lots", "applications"}
    Seed = {s}
    None = none
INVARIANTS
    TypeOK
    NoContextNoRows
    OwnRowsOnly
    NeverAllWaiting
PROPERTIES
    KeepsPromise
SYMMETRY Symmetry
CHECK_DEADLOCK FALSE
