---------------------------- MODULE LinkLifecycle ----------------------------
(***************************************************************************)
(* What the NAT traversal engine promises about each peer's direct link,   *)
(* abstracted from the entity table of spec section 2 (PunchSocket,        *)
(* PendingLink, ActiveLink) and the operations of spec section 4.3.  Each  *)
(* address holds a set of stages:                                          *)
(*   "punch"    a punch socket exists (StartPunch);                        *)
(*   "pending"  a direct socket is being tried (ProcessP2PAck);            *)
(*   "active"   a direct link is in use (P2PSuccess).                      *)
(* The engine may tear down any stage at any time (expiry, exhausted tries,*)
(* silence, peer-offline notice, reset).  A stage is only entered in the   *)
(* order the protocol gives, and only for a unicast peer:                  *)
(*   - a punch starts only while no link is pending or active;             *)
(*   - a pending link needs the punch socket whose address it reuses;      *)
(*   - a pending link is promoted to active, or a link becomes active      *)
(*     directly when a peer's probe arrives and nothing is pending.        *)
(* Mutual exclusion of pending and active links (spec section 2) is not    *)
(* part of this specification.                                             *)
(***************************************************************************)

CONSTANTS
  Peers,      \* unicast addresses of the other group members
  GroupMacs   \* broadcast and multicast addresses

VARIABLE stages   \* address -> the stages its link is in

Macs == Peers \cup GroupMacs
Stage == {"punch", "pending", "active"}

TypeOK == stages \in [Macs -> SUBSET Stage]

(* A traversal attempt: TryForwardMessage or a relayed trigger.            *)
OpenPunch(old, new) ==
  /\ old \cap {"pending", "active"} = {}
  /\ new = old \cup {"punch"}

(* The server's valid ack opens a pending link from the punch socket.      *)
OpenPending(old, new) ==
  /\ "punch" \in old
  /\ new = old \cup {"pending"}

(* P2PSuccess: promotion of the pending link, or direct activation.        *)
Activate(old, new) ==
  \/ /\ "pending" \in old
     /\ new = (old \ {"pending"}) \cup {"active"}
  \/ /\ "pending" \notin old
     /\ new = old \cup {"active"}

(* One address's change in one step: some stages torn down, or one stage   *)
(* entered.                                                                *)
Step(m, old, new) ==
  \/ new \subseteq old
  \/ /\ m \in Peers
     /\ OpenPunch(old, new) \/ OpenPending(old, new) \/ Activate(old, new)

Init == stages = [m \in Macs |-> {}]

(* Several addresses may change at once (a stateCheck pass, a reset).      *)
Next == \A m \in Macs : Step(m, stages[m], stages'[m])

Spec == Init /\ [][Next]_stages
=============================================================================
