------------------------------- MODULE Tunnel -------------------------------
(***************************************************************************)
(* What a caller of pkg/kube's StartPortForward may rely on: a local       *)
(* address that never moves, served on and off by one listener, until      *)
(* Close has returned; after that nothing listens there any more.          *)
(***************************************************************************)
EXTENDS Naturals

CONSTANT Ports          \* local ports a listener can get

NoPort == 0

VARIABLES
    phase,      \* "opening", "open", "closing", "closed" or "refused"
    address,    \* the port the Forward stands for, NoPort before it is known
    up          \* a listener is bound to the address

vars == <<phase, address, up>>

Init ==
    /\ phase = "opening"
    /\ address = NoPort
    /\ up = FALSE

\* The first listener chooses the address; later ones reuse it.
Listen ==
    /\ ~up
    /\ phase \in {"opening", "open", "closing"}
    /\ up' = TRUE
    /\ address' \in IF phase = "opening" THEN Ports ELSE {address}
    /\ UNCHANGED phase

Drop ==
    /\ up
    /\ up' = FALSE
    /\ UNCHANGED <<phase, address>>

\* StartPortForward returns a Forward; the tunnel may have dropped already.
Open ==
    /\ phase = "opening"
    /\ address # NoPort
    /\ phase' = "open"
    /\ UNCHANGED <<address, up>>

\* StartPortForward returns an error.
Refuse ==
    /\ phase = "opening"
    /\ ~up
    /\ phase' = "refused"
    /\ UNCHANGED <<address, up>>

RequestClose ==
    /\ phase = "open"
    /\ phase' = "closing"
    /\ UNCHANGED <<address, up>>

Closed ==
    /\ phase = "closing"
    /\ ~up
    /\ phase' = "closed"
    /\ UNCHANGED <<address, up>>

Next == Listen \/ Drop \/ Open \/ Refuse \/ RequestClose \/ Closed

Spec == Init /\ [][Next]_vars
=============================================================================
