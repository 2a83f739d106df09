CONSTANTS
    m = m
    d1 = d1
    d2 = d2
    d3 = d3
    bBool = bBool
    cTrue = cTrue
    Files = {m, d1}
    Main = m
    BaseProto = BaseProto
    BaseIds = {bBool}
    ConstIds = {cTrue}
    Deps <- SmallDeps
    Package <- EmptyPackage
    Messages <- EmptyMessages
    Enums <- SmallEnums
    Services <- SmallServices
    Queries <- SmallQueries
SPECIFICATION Spec
INVARIANTS
    RoundTrip
