CONSTANTS
    Workers = {w1, w2}
    u1 = u1
    t1 = t1
    Users = {u1}
    Tokens = {t1, t2}
    Issued = {t1}
    Owner <- OneOwner
    None = None
SPECIFICATION Spec
CHECK_DEADLOCK FALSE
INVARIANTS OnlyIssuedTokens RegionIsUsers BreakNoticedAtOnce
PROPERTIES RevokedRefused
