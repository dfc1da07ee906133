----------------------------- MODULE FlowTable -----------------------------
(***************************************************************************)
(* What the UDP gateway's session memory promises: a client has no flow, a *)
(* flow without a source, or a flow with the one source it declared first. *)
(* Only a client that may declare gets a source, and it keeps it until the *)
(* flow ends.                                                              *)
(***************************************************************************)
CONSTANTS Clients, Declared, MayDeclare, Absent, Fresh
VARIABLE flow

Init == flow = [k \in Clients |-> Absent]

Open(k) == flow[k] = Absent /\ flow' = [flow EXCEPT ![k] = Fresh]

Learn(k, d) ==
    /\ flow[k] = Fresh /\ k \in MayDeclare
    /\ flow' = [flow EXCEPT ![k] = d]

Expire(k) == flow[k] # Absent /\ flow' = [flow EXCEPT ![k] = Absent]

Next ==
    \E k \in Clients : Open(k) \/ Expire(k) \/ \E d \in Declared : Learn(k, d)

Spec == Init /\ [][Next]_flow

=============================================================================
