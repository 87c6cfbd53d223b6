------------------------------- MODULE PortPool -------------------------------
(***************************************************************************)
(* What the portal's port reservation promises to the Creates that run at  *)
(* the same time: a port is leased to at most one of them, a Create leases *)
(* at most one port, and a lease ends only by being released.  How a free  *)
(* port is found is left to PortReservation, which implements this.        *)
(***************************************************************************)

CONSTANTS Clients, Ports, NoPort

VARIABLE lease    \* the port each client holds, or NoPort

Init == lease = [c \in Clients |-> NoPort]

Acquire(c, p) ==
  /\ lease[c] = NoPort
  /\ \A d \in Clients : lease[d] # p
  /\ lease' = [lease EXCEPT ![c] = p]

\* One client gives its port back, or the process dies and all of them do.
Release(gone) ==
  lease' = [c \in Clients |-> IF c \in gone THEN NoPort ELSE lease[c]]

Next ==
  \/ \E c \in Clients, p \in Ports : Acquire(c, p)
  \/ \E gone \in {Clients} \cup {{c} : c \in Clients} : Release(gone)

Spec == Init /\ [][Next]_lease

=============================================================================
