--------------------------- MODULE ConfigRequest ---------------------------
(***************************************************************************)
(* The remote configuration round trip of RuntimeService                   *)
(* (src/service/runtime_service.go): UpdateConfig, called from the UI, and *)
(* sendConfig send a MsgConfig to a destination peer through the server    *)
(* and wait up to two seconds on an unbuffered channel registered in       *)
(* configSend under the destination's MAC; ProcessConfigAck, on the server *)
(* socket's read loop, sends the answer into the channel registered under  *)
(* the answering peer's MAC.  The destination answers with ProcessConfig.  *)
(*                                                                         *)
(* Several UI calls may run at once.  The network may lose or duplicate    *)
(* datagrams, within the budget MaxFaults.  A channel is named by its call, *)
(* <<caller, call number>>; an ack records, for counterexamples only, the *)
(* call that caused it, while the code matches by MAC.                     *)
(***************************************************************************)
EXTENDS Naturals

CONSTANTS
  Callers,    \* concurrent UI calls of UpdateConfig
  Dsts,       \* destination peer MACs
  None,       \* no channel registered / reader not blocked
  MaxCalls,   \* calls per caller in one behaviour: model bound
  MaxFaults   \* lost or duplicated datagrams: model bound

ASSUME None \notin Callers /\ MaxCalls \in Nat /\ MaxFaults \in Nat

VARIABLES
  pc,          \* each call: "idle", "sent" (sendConfig forwarded), "wait" (in select), "done"
  dst,         \* the MAC each call addresses
  got,         \* what each call returned: an ack (and the call that caused it), a timeout, a refusal
  calls,       \* calls made per caller
  configSend,  \* RuntimeService.configSend: MAC -> channel (its caller)
  reqs,        \* MsgConfig in flight to destinations
  acks,        \* MsgConfigAck in flight back
  reader,      \* the channel the read loop is blocked sending on, or None
  carried,     \* the call whose ack the read loop is delivering
  faults

vars == <<pc, dst, got, calls, configSend, reqs, acks, reader, carried, faults>>

Chan == Callers \X (1 .. MaxCalls)
Req == [call : Chan, dst : Dsts]
Ack == [call : Chan, src : Dsts]
Result(r) == [res |-> r, call |-> None]

TypeOK ==
  /\ pc \in [Callers -> {"idle", "sent", "wait", "done"}]
  /\ dst \in [Callers -> Dsts]
  /\ got \in [Callers -> [res : {"none", "ack", "timeout", "refused"}, call : Chan \cup {None}]]
  /\ calls \in [Callers -> 0 .. MaxCalls]
  /\ configSend \in [Dsts -> Chan \cup {None}]
  /\ reqs \subseteq Req /\ acks \subseteq Ack
  /\ reader \in Chan \cup {None} /\ carried \in Chan \cup {None}
  /\ faults \in 0 .. MaxFaults

-----------------------------------------------------------------------------
(* UpdateConfig with a valid MAC and address makes a channel and calls     *)
(* sendConfig, which either returns early (session below ConnOk, no server *)
(* handler) or forwards the MsgConfig; the call returns "refused" on the   *)
(* early return.                                                           *)
UpdateConfig(c, d) ==
  /\ pc[c] = "idle" /\ calls[c] < MaxCalls
  /\ calls' = [calls EXCEPT ![c] = @ + 1]
  /\ dst' = [dst EXCEPT ![c] = d]
  /\ \/ /\ pc' = [pc EXCEPT ![c] = "done"]
        /\ got' = [got EXCEPT ![c] = Result("refused")]
        /\ UNCHANGED reqs
     \/ /\ pc' = [pc EXCEPT ![c] = "sent"]
        /\ got' = [got EXCEPT ![c] = Result("none")]
        /\ reqs' = reqs \cup {[call |-> <<c, calls[c] + 1>>, dst |-> d]}
  /\ UNCHANGED <<configSend, acks, reader, carried, faults>>

(* The rest of sendConfig: configSend[DstMac] = result, after the message  *)
(* is already on its way; UpdateConfig then enters its select.             *)
Register(c) ==
  /\ pc[c] = "sent"
  /\ configSend' = [configSend EXCEPT ![dst[c]] = <<c, calls[c]>>]
  /\ pc' = [pc EXCEPT ![c] = "wait"]
  /\ UNCHANGED <<dst, got, calls, reqs, acks, reader, carried, faults>>

(* The select takes the result from the read loop: delete(configSend, mac) *)
(* and return.                                                             *)
Receive(c) ==
  /\ pc[c] = "wait" /\ reader = <<c, calls[c]>>
  /\ configSend' = [configSend EXCEPT ![dst[c]] = None]
  /\ pc' = [pc EXCEPT ![c] = "done"]
  /\ got' = [got EXCEPT ![c] = [res |-> "ack", call |-> carried]]
  /\ reader' = None /\ carried' = None
  /\ UNCHANGED <<dst, calls, reqs, acks, faults>>

(* The select's two-second timer fires: delete(configSend, mac), return.   *)
Timeout(c) ==
  /\ pc[c] = "wait"
  /\ configSend' = [configSend EXCEPT ![dst[c]] = None]
  /\ pc' = [pc EXCEPT ![c] = "done"]
  /\ got' = [got EXCEPT ![c] = Result("timeout")]
  /\ UNCHANGED <<dst, calls, reqs, acks, reader, carried, faults>>

(* The UI makes its next call.                                             *)
Finish(c) ==
  /\ pc[c] = "done"
  /\ pc' = [pc EXCEPT ![c] = "idle"]
  /\ UNCHANGED <<dst, got, calls, configSend, reqs, acks, reader, carried, faults>>

(* ProcessConfig at the destination: the answer is a MsgConfigAck whose    *)
(* SrcMac is the destination's MAC.                                        *)
ProcessConfig(r) ==
  /\ r \in reqs
  /\ reqs' = reqs \ {r}
  /\ acks' = acks \cup {[call |-> r.call, src |-> r.dst]}
  /\ UNCHANGED <<pc, dst, got, calls, configSend, reader, carried, faults>>

(* ProcessConfigAck on the read loop: if configSend has a channel for      *)
(* SrcMac, send the result into it, blocking until someone receives.  A    *)
(* duplicated datagram stays in flight.                                    *)
ProcessConfigAck(a) ==
  /\ reader = None /\ a \in acks
  /\ \/ acks' = acks \ {a} /\ UNCHANGED faults
     \/ faults < MaxFaults /\ faults' = faults + 1 /\ UNCHANGED acks
  /\ IF configSend[a.src] # None
     THEN reader' = configSend[a.src] /\ carried' = a.call
     ELSE UNCHANGED <<reader, carried>>
  /\ UNCHANGED <<pc, dst, got, calls, configSend, reqs>>

(* A request or an ack is lost.                                            *)
Lose(m) ==
  /\ faults < MaxFaults /\ faults' = faults + 1
  /\ \/ m \in reqs /\ reqs' = reqs \ {m} /\ UNCHANGED acks
     \/ m \in acks /\ acks' = acks \ {m} /\ UNCHANGED reqs
  /\ UNCHANGED <<pc, dst, got, calls, configSend, reader, carried>>

-----------------------------------------------------------------------------
(* RuntimeService.Init: configSend empty; no call made yet.                *)
Init ==
  /\ pc = [c \in Callers |-> "idle"]
  /\ dst \in [Callers -> Dsts]
  /\ got = [c \in Callers |-> Result("none")]
  /\ calls = [c \in Callers |-> 0]
  /\ configSend = [d \in Dsts |-> None]
  /\ reqs = {} /\ acks = {}
  /\ reader = None /\ carried = None
  /\ faults = 0

Next ==
  \/ \E c \in Callers, d \in Dsts : UpdateConfig(c, d)
  \/ \E c \in Callers : Register(c) \/ Receive(c) \/ Timeout(c) \/ Finish(c)
  \/ \E r \in reqs : ProcessConfig(r)
  \/ \E a \in acks : ProcessConfigAck(a)
  \/ \E m \in reqs \cup acks : Lose(m)

(* Goroutines run, the two-second timer fires, and the server relays what  *)
(* reaches it.  The UI's next call is its own choice.                      *)
Fairness ==
  /\ \A c \in Callers : WF_vars(Register(c)) /\ WF_vars(Receive(c)) /\ WF_vars(Timeout(c))
  /\ WF_vars(\E r \in reqs : ProcessConfig(r))
  /\ WF_vars(\E a \in acks : ProcessConfigAck(a))

Spec == Init /\ [][Next]_vars /\ Fairness

-----------------------------------------------------------------------------
(* Spec section 9: a response that arrives after the waiter timed out must *)
(* be handled safely.  The read loop only ever blocks sending a result to  *)
(* the call that is still waiting on that channel; ProcessConfigAck sends  *)
(* on the unbuffered channel of a call that may have returned.             *)
ReaderNeverStranded ==
  reader # None => pc[reader[1]] = "wait" /\ calls[reader[1]] = reader[2]
====
