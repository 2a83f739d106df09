CONSTANTS
    m = m
    d1 = d1
    d2 = d2
    d3 = d3
    bBool = bBool
    cTrue = cTrue
    Files = {m, d1, d2, d3}
    Main = m
    BaseProto = BaseProto
    BaseIds = {bBool}
    ConstIds = {cTrue}
    Deps <- MCDeps
    Package <- MCPackage
    Messages <- MCMessages
    Enums <- MCEnums
    Services <- MCServices
    Queries <- MCQueries
SPECIFICATION Spec
INVARIANTS
    TypeOK
    RoundTrip
PROPERTIES
    ExportIsExactlyUsed
