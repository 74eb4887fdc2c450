SPECIFICATION TrustSpec
CONSTANTS
  Sockets = {k1, k2}
  EnvSources = {"SSL_CERT_FILE"}
  CaSources = {"ca_file", "ca_path"}
  Platform = {"linux:file"}
SYMMETRY SocketSymmetry
INVARIANTS Authenticated ReportMatches
