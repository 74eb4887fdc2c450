----------------------------- MODULE SocketGate -----------------------------
(***************************************************************************)
(* What the admission protocol of tcp::socket (include/network.hpp)        *)
(* promises to the code that runs behind it, without any of the atomics    *)
(* that implement it: a task reads or writes only while it has been let    *)
(* in, one task per direction, and the transport underneath (the file      *)
(* descriptor and the TLS stream) is replaced only by a task that has the  *)
(* socket to itself.                                                       *)
(***************************************************************************)
CONSTANT Tasks          \* activities that use the socket

VARIABLES
  role,                 \* what each task is currently allowed to do
  transport             \* [open, tls]: the raw socket and the TLS stream

gateVars == <<role, transport>>

Directions == {"read", "write"}
Roles      == Directions \cup {"none", "owner"}
Transports == [open : BOOLEAN, tls : BOOLEAN]

GateInit ==
  /\ role = [t \in Tasks |-> "none"]
  /\ transport = [open |-> FALSE, tls |-> FALSE]

(* A task is let in for one direction: nobody owns the socket and nobody   *)
(* else is using that direction.                                           *)
Admit(t, d) ==
  /\ role[t] = "none"
  /\ \A u \in Tasks : role[u] \notin {d, "owner"}
  /\ role' = [role EXCEPT ![t] = d]
  /\ UNCHANGED transport

(* A task takes the socket for itself: nobody is inside.                   *)
Own(t) ==
  /\ \A u \in Tasks : role[u] = "none"
  /\ role' = [role EXCEPT ![t] = "owner"]
  /\ UNCHANGED transport

Leave(t) ==
  /\ role[t] # "none"
  /\ role' = [role EXCEPT ![t] = "none"]
  /\ UNCHANGED transport

(* Only the owner opens, closes or secures the transport.                  *)
Replace(t) ==
  /\ role[t] = "owner"
  /\ transport' \in Transports
  /\ UNCHANGED role

GateNext ==
  \E t \in Tasks :
    \/ \E d \in Directions : Admit(t, d)
    \/ Own(t)
    \/ Leave(t)
    \/ Replace(t)

GateSpec == GateInit /\ [][GateNext]_gateVars
=============================================================================
