SPECIFICATION CallSpec
CONSTANTS Hosts <- AllHosts
INVARIANT TrueMeansClosed
PROPERTIES StreamQuiescent ReturnsIfKept
