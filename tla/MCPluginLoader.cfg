SPECIFICATION Spec
CONSTANTS
    pathA = pathA  linkA = linkA  pathB = pathB  pathC = pathC
    soA = soA  soB = soB  soC = soC  p1 = p1  p2 = p2  p3 = p3
    Path <- MCPath
    So <- MCSo
    so_of <- MCSoOf
    Protos <- MCProtos
    HasUnregister <- MCComplete
    HasUninit <- MCComplete
    ProtoId <- MCProtoId
    Null = Null
    End = End
    Dead = Dead
    MaxList = 2
    MaxLeaks = 1
    MaxInits = 2
INVARIANTS NoDanglingHandler PluginsMatchProtocols ObjectsBalance
