------------------------------ MODULE TlsTrust ------------------------------
(***************************************************************************)
(* Which certificates a TLS client accepts: the options a script passes to *)
(* connect_ssl (parse_ssl_options, network.cpp), the trust anchors loaded  *)
(* for them and the verification set on the stream (network.hpp, detail),  *)
(* and the report of it that the socket keeps.                             *)
(*                                                                         *)
(* Sockets of one script thread; an asynchronous handshake ends while      *)
(* other sockets go on.  Which files can be loaded is decided anew at each *)
(* attempt, the certificate of a peer at each handshake.  That handshakes  *)
(* and I/O of one socket exclude each other is shown in TcpSocket.         *)
(***************************************************************************)
EXTENDS Naturals, FiniteSets

CONSTANTS
  Sockets,     \* tcp::socket objects
  EnvSources,  \* the variables SSL_CERT_FILE and SSL_CERT_DIR
  CaSources,   \* the options ca_file and ca_path
  Platform     \* file and directory candidates of the platform (or Windows stores)

Default == "openssl:default_verify_paths"
Sources == {Default} \cup EnvSources \cup CaSources \cup Platform
Unknown == "unknown issuer"
Unread  == {"unread"}

ASSUME TrustAssumption ==
  /\ {Default, Unknown, "unread"} \cap (EnvSources \cup CaSources \cup Platform) = {}
  /\ EnvSources \cap CaSources = {} /\ Platform \cap (EnvSources \cup CaSources) = {}

None == [mode |-> "none"]

VARIABLES
  open,       \* the descriptor is open
  stream,     \* tls_stream with tls_ctx: anchors and verification, or None
  secured,    \* the handshake has succeeded
  asked,      \* the options of the call that made the stream
  peer,       \* the certificate the peer presented in the handshake
  report,     \* last_tls_trust_report of each socket
  lastReport, \* the thread's last report, and the socket it came from
  environ,    \* which of the two variables the process has set
  cached      \* their values at the first use, "unread" before it

trustVars == <<open, stream, secured, asked, peer, report, lastReport, environ, cached>>

Unset == [mode |-> "unset", loaded |-> {}]

TrustInit ==
  /\ open = {} /\ secured = {}
  /\ stream = [k \in Sockets |-> None] /\ asked = [k \in Sockets |-> None]
  /\ peer = [k \in Sockets |-> None] /\ report = [k \in Sockets |-> Unset]
  /\ lastReport = [by |-> "none", text |-> Unset]
  /\ environ \in SUBSET EnvSources /\ cached = Unread

(***************************************************************************)
(* parse_ssl_options.  A call: the value under "trust_mode" ("absent",     *)
(* "other" for anything unsupported), the non-empty "ca_*" entries, and    *)
(* whether there is an entry no call may have (verify_peer, verify_host,   *)
(* an unknown key or a value of the wrong type).                           *)
(***************************************************************************)
Calls == [mode : {"absent", "auto", "openssl", "custom", "insecure", "other"},
          ca : SUBSET CaSources, extra : BOOLEAN]

Accepted(call) ==
  /\ call.mode # "other" /\ ~call.extra
  /\ call.ca # {} => call.mode = "custom"
  /\ call.mode = "custom" => call.ca # {}

Options(call) ==
  [mode |-> IF call.mode = "absent" THEN "auto" ELSE call.mode,
   ca |-> call.ca, verifyPeer |-> call.mode # "insecure",
   verifyHost |-> call.mode # "insecure"]

(***************************************************************************)
(* configure_client_context and configure_client_stream.                   *)
(***************************************************************************)
\* mutant: "custom" adds its files to the default anchors
TriedWithDefault(opt, env) ==
  CASE opt.mode = "auto"     -> {Default} \cup env \cup Platform
    [] opt.mode = "openssl"  -> {Default} \cup env
    [] opt.mode = "custom"   -> opt.ca \cup {Default}
    [] opt.mode = "insecure" -> {}

\* the sources tried in the order of the code; env is the cached environment
Tried(opt, env) ==
  CASE opt.mode = "auto"     -> {Default} \cup env \cup Platform
    [] opt.mode = "openssl"  -> {Default} \cup env
    [] opt.mode = "custom"   -> opt.ca
    [] opt.mode = "insecure" -> {}

NewStream(opt, loaded) ==
  [mode |-> "client", anchors |-> loaded,
   peerVerified |-> ~(opt.mode = "insecure" \/ ~opt.verifyPeer),
   hostVerified |-> opt.mode # "insecure" /\ opt.verifyHost]

\* mutant: only the thread's report is written
SetReportThread(k, r) == lastReport' = [by |-> k, text |-> r] /\ UNCHANGED report

SetReport(k, r) ==
  /\ report' = [report EXCEPT ![k] = r]
  /\ lastReport' = [by |-> k, text |-> r]

(***************************************************************************)
(* connect_ssl of a socket.  A call that throws before init_ssl has        *)
(* configured a context changes nothing but the cached environment.        *)
(***************************************************************************)
InitSsl(k, call) ==
  LET opt == Options(call)
      env == IF cached = Unread /\ opt.mode \in {"auto", "openssl"}
             THEN environ ELSE cached
  IN
  /\ Accepted(call) /\ k \in open /\ stream[k] = None
  /\ cached' = env
  /\ \E loaded \in SUBSET Tried(opt, env) :
       \/ /\ loaded # {} \/ opt.mode = "insecure"
          /\ SetReport(k, [mode |-> opt.mode, loaded |-> loaded])
          /\ \/ /\ stream' = [stream EXCEPT ![k] = NewStream(opt, loaded)]
                /\ asked' = [asked EXCEPT ![k] = call]
             \/ UNCHANGED <<stream, asked>>    \* the host name is refused as SNI
       \/ /\ loaded = {} /\ opt.mode # "insecure"
          /\ SetReport(k, [mode |-> "error", loaded |-> {}])
          /\ UNCHANGED <<stream, asked>>
  /\ UNCHANGED <<open, secured, peer, environ>>

\* The library accepts the peer: what asio and OpenSSL do with the stream.
HandshakeOk(k, issuer, hostMatches) ==
  /\ stream[k] # None /\ k \notin secured
  /\ stream[k].peerVerified => issuer \in stream[k].anchors
  /\ stream[k].hostVerified => hostMatches
  /\ secured' = secured \cup {k}
  /\ peer' = [peer EXCEPT ![k] = [mode |-> "peer", issuer |-> issuer,
                                  host |-> hostMatches]]
  /\ UNCHANGED <<open, stream, asked, report, lastReport, environ, cached>>

ClearSsl(k, clearReport) ==
  /\ stream' = [stream EXCEPT ![k] = None]
  /\ asked' = [asked EXCEPT ![k] = None] /\ peer' = [peer EXCEPT ![k] = None]
  /\ secured' = secured \ {k}
  /\ report' = IF clearReport THEN [report EXCEPT ![k] = Unset] ELSE report
  /\ UNCHANGED <<lastReport, environ, cached>>

HandshakeFails(k) ==
  /\ stream[k] # None /\ k \notin secured
  /\ ClearSsl(k, FALSE)
  /\ UNCHANGED open

\* connect and accept open the descriptor; safe_shutdown closes it and resets
\* the stream but keeps the report, shutdown clears stream and report and keeps
\* the descriptor, close ends all three.  While a handshake is pending they are
\* refused, or time out, and change nothing.
Connect(k) ==
  /\ k \notin open
  /\ open' = open \cup {k}
  /\ UNCHANGED <<stream, secured, asked, peer, report, lastReport, environ, cached>>

Idle(k) == stream[k] = None \/ k \in secured

SafeShutdown(k) ==
  /\ k \in open /\ Idle(k)
  /\ open' = open \ {k}
  /\ ClearSsl(k, FALSE)

Shutdown(k) ==
  /\ k \in open /\ Idle(k) /\ stream[k] # None
  /\ ClearSsl(k, TRUE)
  /\ UNCHANGED open

Close(k) ==
  /\ k \in open /\ Idle(k)
  /\ open' = open \ {k}
  /\ ClearSsl(k, stream[k] # None)

\* setenv by something else in the process
Setenv ==
  /\ environ' \in SUBSET EnvSources
  /\ UNCHANGED <<open, stream, secured, asked, peer, report, lastReport, cached>>

TrustNext ==
  \/ Setenv
  \/ \E k \in Sockets :
       \/ Connect(k) \/ HandshakeFails(k)
       \/ SafeShutdown(k) \/ Shutdown(k) \/ Close(k)
       \/ \E call \in Calls : InitSsl(k, call)
       \/ \E issuer \in Sources \cup {Unknown}, h \in BOOLEAN : HandshakeOk(k, issuer, h)

TrustSpec == TrustInit /\ [][TrustNext]_trustVars

-----------------------------------------------------------------------------
\* The issuers a script agrees to, in the words of CNI_API.md:25-38.
Allowed(call) ==
  CASE call.mode = "custom"  -> call.ca
    [] call.mode = "openssl" -> {Default} \cup EnvSources
    [] OTHER                 -> {Default} \cup EnvSources \cup Platform

\* However often a socket was used before, with whatever options, and
\* whichever files could be read (network.hpp:296-362, 500-532): a stream that
\* carries data was authenticated by an issuer its own call agreed to, for the
\* host it named, unless that call said "insecure".
Authenticated ==
  \A k \in secured :
    asked[k].mode = "insecure" \/
      (peer[k].host /\ peer[k].issuer \in Allowed(asked[k]))

\* A socket's report is about the stream it has (network.hpp:513-516, 534-542),
\* not about an earlier or a refused attempt or another socket; the thread's
\* report is the one of the last socket that made one.
ReportMatches ==
  \A k \in Sockets : stream[k] # None =>
    /\ report[k] = [mode |-> Options(asked[k]).mode, loaded |-> stream[k].anchors]
    /\ lastReport.by = k => lastReport.text = report[k]

=============================================================================
