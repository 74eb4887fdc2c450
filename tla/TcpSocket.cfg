SPECIFICATION Spec
CONSTANTS
  Tasks = {t1, t2, t3}
  Ops = {"read", "async_read", "peek", "write", "async_write", "connect",
         "async_connect", "accept", "async_accept", "close", "shutdown",
         "connect_ssl", "async_connect_ssl", "safe_shutdown"}
SYMMETRY Symmetry
INVARIANTS
  TypeOK ReservationsBalance OwnerExcludes TransportCurrent TlsCoherent
  ShutdownComplete
PROPERTIES IoKeepsTransport ImplementsGate
