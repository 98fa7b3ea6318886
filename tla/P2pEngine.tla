------------------------------ MODULE P2pEngine ------------------------------
(***************************************************************************)
(* The NAT traversal engine of vilan-peer: service.P2pService              *)
(* (src/service/p2p_service.go) together with the socket callbacks that    *)
(* drive it: DataHandler (data_handler.go) on direct peer sockets and the  *)
(* punch branch of MessageHandler (msg_handler.go) on punch sockets.       *)
(*                                                                         *)
(* One local peer is modelled.  The rendezvous server and the remote peers *)
(* are the environment: they relay triggers, answer our triggers with      *)
(* acks that UDP may duplicate, and send frames to our direct sockets.     *)
(*                                                                         *)
(* The four sync.Map registries are functions from hardware address to a  *)
(* socket identity.  A socket identity stands for one Bootstrap and the    *)
(* context object that owns it (PunchSockContext or PeerSockContext), so a *)
(* context moved from p2pTrySocks to p2pSocks keeps its identity and its   *)
(* fields, as the pointer does in the code.                                *)
(*                                                                         *)
(* Time: every timestamp of the code (StartTime, LastReceive, FailedTime)  *)
(* is kept as an age that Tick advances and that saturates at a cap at or  *)
(* above every threshold that kind of timestamp is compared with, so every *)
(* comparison of the code has the same outcome as with the real clock.     *)
(***************************************************************************)
EXTENDS Naturals, FiniteSets

CONSTANTS
  Peers,            \* unicast hardware addresses of the other group members
  GroupMacs,        \* common.MacBroadcast and common.MacMulticast
  None,             \* an absent map entry
  MaxSock,          \* sockets (Bootstraps) created in one behaviour: model bound
  P2pTryCount,      \* config.AppConfig.P2pTryCount
  P2pRetryInterval, \* config.AppConfig.P2pRetryInterval
  FailCeiling,      \* failure count that stops retries (literal 10 in isNeedP2P)
  PunchTimeout,     \* p2pFailedTime = config.AppConfig.Heartbeat
  LinkHeartbeat,    \* PeerSockContext.Heartbeat (literal 5 in ProcessP2PAck)
  Offline,          \* config.AppConfig.Offline
  MaxPingTry,       \* unanswered pings tolerated (literal 3 in stateCheck)
  MaxDup            \* server answers UDP may duplicate: model bound

ASSUME Peers # {} /\ Peers \cap GroupMacs = {} /\ None \notin Peers \cup GroupMacs
ASSUME MaxSock \in Nat \ {0} /\ MaxDup \in Nat
ASSUME {P2pTryCount, FailCeiling, MaxPingTry} \subseteq Nat \ {0}
ASSUME {P2pRetryInterval, PunchTimeout, LinkHeartbeat, Offline} \subseteq Nat
ASSUME Offline >= LinkHeartbeat + 2   \* as in every configuration of config_app.go

Macs  == Peers \cup GroupMacs
Socks == 1 .. MaxSock
MaxOf(T) == CHOOSE t \in T : \A u \in T : t >= u
(* Each kind of timestamp saturates just above the thresholds it meets.    *)
PunchAgeCap == PunchTimeout
LinkAgeCap  == MaxOf({LinkHeartbeat + 3, Offline + 1})
FailAgeCap  == P2pRetryInterval
AgeCap      == MaxOf({PunchAgeCap, LinkAgeCap, FailAgeCap})

VARIABLES
  running,         \* P2pService.running
  punchSocks,      \* mac -> punch socket        (PunchSockContext)
  p2pTrySocks,     \* mac -> pending direct link (PeerSockContext)
  p2pSocks,        \* mac -> active direct link  (PeerSockContext)
  hisP2PFailInfo,  \* mac -> [count, age] of the last failure (PunchFailInfo)
  sock,            \* socket -> its Bootstrap state and context fields
  known,           \* peers RuntimeService.FindPeer returns (groupPeers)
  trig,            \* peers whose trigger the server has not answered yet
  acks,            \* MsgP2PAck messages in flight from the server
  dups,            \* duplicated deliveries so far
  inflight         \* socket -> progress of a P2PSuccess call on its reader

vars == <<running, punchSocks, p2pTrySocks, p2pSocks, hisP2PFailInfo, sock,
          known, trig, acks, dups, inflight>>

Ack == [peer : Macs, valid : BOOLEAN]

(* A socket record: st is "free" until the Bootstrap is created, "up" while *)
(* it runs and "down" once Stop was called or Connect failed.               *)
SockRec == [st : {"free", "up", "down"}, kind : {"none", "punch", "data"},
            peer : Macs \cup {None}, handler : BOOLEAN, age : 0 .. AgeCap,
            tries : Nat, pings : 0 .. MaxPingTry]
FreeSock == [st |-> "free", kind |-> "none", peer |-> None, handler |-> FALSE,
             age |-> 0, tries |-> 0, pings |-> 0]
NewSock(kind, m, st, age) ==
  [st |-> st, kind |-> kind, peer |-> m, handler |-> FALSE, age |-> age,
   tries |-> 0, pings |-> 0]

Idle == [pc |-> "idle", ctx |-> None]

TypeOK ==
  /\ running \in BOOLEAN
  /\ punchSocks \in [Macs -> Socks \cup {None}]
  /\ p2pTrySocks \in [Macs -> Socks \cup {None}]
  /\ p2pSocks \in [Macs -> Socks \cup {None}]
  /\ hisP2PFailInfo \in [Macs -> [count : 1 .. FailCeiling, age : 0 .. AgeCap] \cup {None}]
  /\ sock \in [Socks -> SockRec]
  /\ known \subseteq Peers
  /\ trig \subseteq Macs
  /\ acks \subseteq Ack
  /\ dups \in 0 .. MaxDup
  /\ inflight \in [Socks -> {Idle} \cup [pc : {"loaded", "stored"}, ctx : Socks \cup {None}]]

-----------------------------------------------------------------------------
(* Helpers of the code.                                                     *)

IsUniCast(m) == m \notin GroupMacs

Older(a, cap) == IF a < cap THEN a + 1 ELSE cap

FailCount(f, m) == IF f[m] = None THEN 0 ELSE f[m].count

(* Mutant of Failed: a repeated failure keeps the first failure's time.   *)
FailedKeepTime(f, m) ==
  [f EXCEPT ![m] = [count |-> IF FailCount(f, m) < FailCeiling
                              THEN FailCount(f, m) + 1 ELSE FailCeiling,
                    age   |-> IF f[m] = None THEN 0 ELSE f[m].age]]

(* saveFailPunchInfo's update of hisP2PFailInfo: count + 1 and a fresh time. *)
(* Counts saturate at FailCeiling, where every guard on them is already set. *)
Failed(f, m) ==
  [f EXCEPT ![m] = [count |-> IF FailCount(f, m) < FailCeiling
                              THEN FailCount(f, m) + 1 ELSE FailCeiling,
                    age   |-> 0]]

FailedAll(f, M) == [m \in Macs |-> IF m \in M THEN Failed(f, m)[m] ELSE f[m]]

(* Bootstrap.Stop on every socket of S. *)
StopSocks(sk, S) ==
  [s \in Socks |-> IF s \in S /\ sk[s].st = "up"
                   THEN [sk[s] EXCEPT !.st = "down"] ELSE sk[s]]

Entries(reg) == {reg[m] : m \in Macs} \ {None}

NoEntries == [m \in Macs |-> None]

HasFree == \E s \in Socks : sock[s].st = "free"
NextFree == CHOOSE s \in Socks : sock[s].st = "free"

(* isNeedP2P: no back-off in force, a known peer, no pending link.          *)
isNeedP2P(m) ==
  /\ IsUniCast(m)
  /\ ~ /\ hisP2PFailInfo[m] # None
       /\ \/ hisP2PFailInfo[m].count >= FailCeiling
          \/ hisP2PFailInfo[m].age < P2pRetryInterval
  /\ m \in known
  /\ p2pTrySocks[m] = None

(* saveFailPunchInfo: record the failure, stop and drop the punch socket.   *)
saveFailPunchInfo(m) ==
  /\ hisP2PFailInfo' = Failed(hisP2PFailInfo, m)
  /\ sock' = StopSocks(sock, {punchSocks[m]})
  /\ punchSocks' = [punchSocks EXCEPT ![m] = None]

(* SendP2PTrigger on the socket table sk: an expired punch socket is       *)
(* stopped and dropped; a live one that became active writes the trigger.   *)
SendP2PTrigger(sk, m) ==
  LET p == punchSocks[m] IN
  \/ /\ p = None
     /\ sock' = sk
     /\ UNCHANGED <<punchSocks, trig>>
  \/ /\ p # None
     /\ sk[p].age >= PunchTimeout
     /\ sock' = StopSocks(sk, {p})
     /\ punchSocks' = [punchSocks EXCEPT ![m] = None]
     /\ UNCHANGED trig
  \/ /\ p # None
     /\ sk[p].age < PunchTimeout
     /\ sock' = sk
     /\ trig' = IF sk[p].handler THEN trig \cup {m} ELSE trig
     /\ UNCHANGED punchSocks

(* newPunchSock: store a fresh punch socket, then Connect it to the server; *)
(* a failed Connect goes through saveFailPunchInfo.                         *)
newPunchSock(m) ==
  /\ HasFree
  /\ LET s == NextFree IN
     \/ /\ sock' = [sock EXCEPT ![s] = NewSock("punch", m, "up", 0)]
        /\ punchSocks' = [punchSocks EXCEPT ![m] = s]
        /\ UNCHANGED hisP2PFailInfo
     \/ /\ sock' = [sock EXCEPT ![s] = NewSock("punch", m, "down", 0)]
        /\ hisP2PFailInfo' = Failed(hisP2PFailInfo, m)
        /\ UNCHANGED punchSocks
  /\ UNCHANGED trig

(* StartPunch: reuse a live punch socket (re-sending the trigger when a     *)
(* peer's trigger asked for it), drop an expired one, or create one.        *)
StartPunch(m, trigger) ==
  LET p == punchSocks[m] IN
  \/ /\ p # None
     /\ sock[p].age < PunchTimeout
     /\ IF trigger THEN SendP2PTrigger(sock, m) ELSE UNCHANGED <<punchSocks, sock, trig>>
     /\ UNCHANGED hisP2PFailInfo
  \/ /\ p # None
     /\ sock[p].age >= PunchTimeout
     /\ sock' = StopSocks(sock, {p})
     /\ punchSocks' = [punchSocks EXCEPT ![m] = None]
     /\ UNCHANGED <<hisP2PFailInfo, trig>>
  \/ /\ p = None
     /\ newPunchSock(m)

-----------------------------------------------------------------------------
(* Operations of P2pService, each called from a tap, server or socket      *)
(* callback and run as one step, except P2PSuccess (three steps below).    *)

(* TryForwardMessage, called by PostTunTapData for every frame read from    *)
(* the tap device: a frame to a peer without an active link may start a    *)
(* punch attempt (the frame itself is relayed by the caller).              *)
TryForwardMessage(m) ==
  /\ running
  /\ IsUniCast(m)
  /\ p2pSocks[m] = None
  /\ isNeedP2P(m)
  /\ StartPunch(m, FALSE)
  /\ UNCHANGED <<running, p2pTrySocks, p2pSocks, known, acks, dups, inflight>>

(* Mutant of TriggerAccepted: no IsUniCast test.                          *)
TriggerAcceptedAnyMac(m) == p2pTrySocks[m] = None /\ p2pSocks[m] = None

(* ProcessP2PTrigger's guard: a unicast peer with no pending or active link.*)
TriggerAccepted(m) ==
  /\ IsUniCast(m)
  /\ p2pTrySocks[m] = None
  /\ p2pSocks[m] = None

(* ProcessP2PTrigger: the server relays a peer's trigger.                  *)
ProcessP2PTrigger(m) ==
  /\ TriggerAccepted(m)
  /\ StartPunch(m, TRUE)
  /\ UNCHANGED <<running, p2pTrySocks, p2pSocks, known, acks, dups, inflight>>

(* ProcessP2PAck's test on the punch context: one is stored and its       *)
(* LocalSock is set.  newPunchSock sets LocalSock when Connect returns,   *)
(* which the model merges with the Connect (ExtractAddrFromStr does not  *)
(* fail on the IPv4 address of a socket bound to 0.0.0.0), so a stored     *)
(* punch context has its LocalSock here.                                   *)
HasLocalSock(m) == punchSocks[m] # None

(* ProcessP2PAck: an invalid ack records a failure; a valid one for a peer  *)
(* with a punch socket and its LocalSock stores a new pending link (over   *)
(* any previous one, which is neither stopped nor deleted)                *)
(* and connects it from the punch socket's local address to the peer.      *)
ProcessP2PAck(a) ==
  \/ /\ ~a.valid
     /\ saveFailPunchInfo(a.peer)
     /\ UNCHANGED p2pTrySocks
  \/ /\ a.valid
     /\ HasLocalSock(a.peer)
     /\ HasFree
     /\ LET s == NextFree IN
        \/ /\ sock' = [sock EXCEPT ![s] = NewSock("data", a.peer, "up", LinkAgeCap)]
           /\ p2pTrySocks' = [p2pTrySocks EXCEPT ![a.peer] = s]
        \/ /\ sock' = [sock EXCEPT ![s] = NewSock("data", a.peer, "down", LinkAgeCap)]
           /\ p2pTrySocks' = [p2pTrySocks EXCEPT ![a.peer] = None]
     /\ UNCHANGED <<punchSocks, hisP2PFailInfo>>

(* MessageHandler.HandleActive on a punch socket: keep the handler, then  *)
(* SendP2PTrigger for the socket's peer.                                   *)
PunchHandleActive(s) ==
  /\ sock[s].kind = "punch" /\ sock[s].st = "up" /\ ~sock[s].handler
  /\ SendP2PTrigger([sock EXCEPT ![s].handler = TRUE], sock[s].peer)
  /\ UNCHANGED <<running, p2pTrySocks, p2pSocks, hisP2PFailInfo, known, acks,
                 dups, inflight>>

(* DataHandler.HandleActive on a direct socket: keep the handler (and ping).*)
DataHandleActive(s) ==
  /\ sock[s].kind = "data" /\ sock[s].st = "up" /\ ~sock[s].handler
  /\ sock' = [sock EXCEPT ![s].handler = TRUE]
  /\ UNCHANGED <<running, punchSocks, p2pTrySocks, p2pSocks, hisP2PFailInfo,
                 known, trig, acks, dups, inflight>>

(* Mutant of Ping: the count grows past the value it is compared with.   *)
PingUnsaturated(n) == n + 1

(* PingTryCount++.  The count is only compared with >= MaxPingTry, so it   *)
(* saturates there.                                                        *)
Ping(n) == IF n < MaxPingTry THEN n + 1 ELSE n

(* What DataHandler.HandleRead does for every MsgDataFrame it reads.       *)
Heard(sk, s) == [sk EXCEPT ![s].handler = TRUE, ![s].age = 0, ![s].pings = 0]

(* DataHandler.HandleRead of a Ping, Pong or Packet frame from the peer.   *)
DataHandleRead(s) ==
  /\ sock[s].kind = "data" /\ sock[s].st = "up" /\ inflight[s] = Idle
  /\ sock' = Heard(sock, s)
  /\ UNCHANGED <<running, punchSocks, p2pTrySocks, p2pSocks, hisP2PFailInfo,
                 known, trig, acks, dups, inflight>>

(* DataHandler.HandleEvent on a read-idle timeout: count a ping.           *)
DataHandleEvent(s) ==
  /\ sock[s].kind = "data" /\ sock[s].st = "up" /\ sock[s].handler
  /\ sock[s].age >= LinkHeartbeat
  /\ sock' = [sock EXCEPT ![s].pings = Ping(@)]
  /\ UNCHANGED <<running, punchSocks, p2pTrySocks, p2pSocks, hisP2PFailInfo,
                 known, trig, acks, dups, inflight>>

(* DataHandler.HandleRead of a P2PTry frame calls P2PSuccess, whose map    *)
(* operations are separate steps: Load the pending link ...                *)
P2PSuccessLoad(s) ==
  /\ sock[s].kind = "data" /\ sock[s].st = "up" /\ inflight[s] = Idle
  /\ sock' = Heard(sock, s)
  /\ inflight' = [inflight EXCEPT ![s] = [pc |-> "loaded",
                                          ctx |-> p2pTrySocks[sock[s].peer]]]
  /\ UNCHANGED <<running, punchSocks, p2pTrySocks, p2pSocks, hisP2PFailInfo,
                 known, trig, acks, dups>>

(* ... Store it, or the receiving socket when none was pending, as active ...*)
P2PSuccessStore(s) ==
  /\ inflight[s].pc = "loaded"
  /\ LET m == sock[s].peer
         c == inflight[s].ctx
     IN /\ p2pSocks' = [p2pSocks EXCEPT ![m] = IF c = None THEN s ELSE c]
        /\ inflight' = [inflight EXCEPT ![s] = IF c = None THEN Idle
                                               ELSE [@ EXCEPT !.pc = "stored"]]
  /\ UNCHANGED <<running, punchSocks, p2pTrySocks, hisP2PFailInfo, sock, known,
                 trig, acks, dups>>

(* ... and Delete the pending entry.                                       *)
P2PSuccessDelete(s) ==
  /\ inflight[s].pc = "stored"
  /\ p2pTrySocks' = [p2pTrySocks EXCEPT ![sock[s].peer] = None]
  /\ inflight' = [inflight EXCEPT ![s] = Idle]
  /\ UNCHANGED <<running, punchSocks, p2pSocks, hisP2PFailInfo, sock, known,
                 trig, acks, dups>>

(* RuntimeService.ProcessPeerStateChanged: update the directory, then      *)
(* P2pService.PeerStateChanged forgets the failures and stops and drops    *)
(* the pending and active links of that peer (its punch socket stays).     *)
(* Its Delete and its two Load/Stop/Delete runs are one step here: P2PSuccess *)
(* interleaves with it whole, not between its map calls.                   *)
ProcessPeerStateChanged(m, online) ==
  /\ known' = IF online THEN known \cup {m} ELSE known
  /\ hisP2PFailInfo' = [hisP2PFailInfo EXCEPT ![m] = None]
  /\ sock' = StopSocks(sock, {p2pTrySocks[m], p2pSocks[m]})
  /\ p2pTrySocks' = [p2pTrySocks EXCEPT ![m] = None]
  /\ p2pSocks' = [p2pSocks EXCEPT ![m] = None]
  /\ UNCHANGED <<running, punchSocks, trig, acks, dups, inflight>>

(* ResetP2PSocks, called on every successful registration: clear all four  *)
(* maps; only pending and active sockets are stopped.                      *)
ResetP2PSocks ==
  /\ punchSocks' = NoEntries
  /\ hisP2PFailInfo' = NoEntries
  /\ sock' = StopSocks(sock, Entries(p2pTrySocks) \cup Entries(p2pSocks))
  /\ p2pTrySocks' = NoEntries
  /\ p2pSocks' = NoEntries
  /\ UNCHANGED <<running, known, trig, acks, dups, inflight>>

(* Start: new empty maps and a new stateCheck loop.                        *)
Start ==
  /\ ~running
  /\ running' = TRUE
  /\ punchSocks' = NoEntries
  /\ p2pTrySocks' = NoEntries
  /\ p2pSocks' = NoEntries
  /\ hisP2PFailInfo' = NoEntries
  /\ UNCHANGED <<sock, known, trig, acks, dups, inflight>>

(* The punch sockets stopP2pSockets visits: its type switch matches the    *)
(* value type PunchSockContext, but the map holds *PunchSockContext.       *)
TeardownPunch == {}

(* Stop cancels stateCheck, whose exit runs stopP2pSockets.                *)
Stop ==
  /\ running
  /\ running' = FALSE
  /\ sock' = StopSocks(sock, TeardownPunch \cup Entries(p2pTrySocks)
                                            \cup Entries(p2pSocks))
  /\ p2pTrySocks' = NoEntries
  /\ p2pSocks' = NoEntries
  /\ UNCHANGED <<punchSocks, hisP2PFailInfo, known, trig, acks, dups, inflight>>

-----------------------------------------------------------------------------
(* The stateCheck loop, one pass every 3 seconds while running.            *)

(* Mutants of the tests below: a silent link with a handler is pinged     *)
(* forever; the try budget is checked with >; the try count never grows.  *)
LinkDeadNoPings(s)  == ~sock[s].handler
TryExhaustedLate(s) == sock[s].tries > P2pTryCount
NextTryStuck(n)     == n

(* The tests stateCheck applies to an active link and to a pending one.    *)
LinkSilent(s)   == sock[s].age > LinkHeartbeat + 2
LinkDead(s)     == sock[s].pings >= MaxPingTry \/ ~sock[s].handler
EvictLink(s)    == IF LinkSilent(s) THEN LinkDead(s) ELSE sock[s].age > Offline
TryExhausted(s) == sock[s].tries >= P2pTryCount
NextTry(n)      == n + 1

(* One pass: ping or evict every silent active link; fail every exhausted  *)
(* pending link (saveFailPunchInfo), SendP2PTry on every other one, which  *)
(* drops a pending link whose socket never became active.                  *)
stateCheck ==
  /\ running
  /\ LET act      == {m \in Macs : p2pSocks[m] # None}
         pend     == {m \in Macs : p2pTrySocks[m] # None}
         evicted  == {m \in act : EvictLink(p2pSocks[m])}
         pinged   == {p2pSocks[m] : m \in {n \in act \ evicted : LinkSilent(p2pSocks[n])}}
         failed   == {m \in pend : TryExhausted(p2pTrySocks[m])}
         probed   == {p2pTrySocks[m] : m \in pend \ failed}
         orphaned == {m \in pend \ failed : ~sock[p2pTrySocks[m]].handler}
         counted  == [s \in Socks |-> [sock[s] EXCEPT
                        !.pings = IF s \in pinged THEN Ping(@) ELSE @,
                        !.tries = IF s \in probed THEN NextTry(@) ELSE @]]
     IN /\ sock' = StopSocks(counted, {p2pSocks[m] : m \in evicted}
                                      \cup {p2pTrySocks[m] : m \in failed}
                                      \cup {punchSocks[m] : m \in failed})
        /\ p2pSocks' = [m \in Macs |-> IF m \in evicted THEN None ELSE p2pSocks[m]]
        /\ p2pTrySocks' = [m \in Macs |-> IF m \in failed \cup orphaned
                                          THEN None ELSE p2pTrySocks[m]]
        /\ hisP2PFailInfo' = FailedAll(hisP2PFailInfo, failed)
        /\ punchSocks' = [m \in Macs |-> IF m \in failed THEN None ELSE punchSocks[m]]
  /\ UNCHANGED <<running, known, trig, acks, dups, inflight>>

(* The sockets whose timestamps some code may still read: running ones and *)
(* stopped ones a registry or a P2PSuccess call still holds.               *)
Referenced == Entries(punchSocks) \cup Entries(p2pTrySocks) \cup Entries(p2pSocks)
              \cup {inflight[s].ctx : s \in Socks} \cup {s \in Socks : sock[s].st = "up"}

(* Time passes: every timestamp grows older.                               *)
Tick ==
  /\ sock' = [s \in Socks |->
               IF s \in Referenced
               THEN [sock[s] EXCEPT !.age = Older(@, IF sock[s].kind = "punch"
                                                    THEN PunchAgeCap ELSE LinkAgeCap)]
               ELSE sock[s]]
  /\ hisP2PFailInfo' = [m \in Macs |-> IF hisP2PFailInfo[m] = None THEN None
                                       ELSE [hisP2PFailInfo[m] EXCEPT !.age = Older(@, FailAgeCap)]]
  /\ sock' # sock \/ hisP2PFailInfo' # hisP2PFailInfo
  /\ UNCHANGED <<running, punchSocks, p2pTrySocks, p2pSocks, known, trig, acks,
                 dups, inflight>>

-----------------------------------------------------------------------------
(* The server: it answers a trigger with a valid or an invalid ack, and    *)
(* UDP may deliver an ack twice.                                           *)

ServerAnswer(m, valid) ==
  /\ m \in trig
  /\ trig' = trig \ {m}
  /\ acks' = acks \cup {[peer |-> m, valid |-> valid]}
  /\ UNCHANGED <<running, punchSocks, p2pTrySocks, p2pSocks, hisP2PFailInfo,
                 sock, known, dups, inflight>>

DeliverAck(a) ==
  /\ acks' = acks \ {a}
  /\ ProcessP2PAck(a)
  /\ UNCHANGED <<running, p2pSocks, known, trig, dups, inflight>>

DuplicateAck(a) ==
  /\ dups < MaxDup
  /\ dups' = dups + 1
  /\ ProcessP2PAck(a)
  /\ UNCHANGED <<running, p2pSocks, known, trig, acks, inflight>>

-----------------------------------------------------------------------------
(* The state right after P2pService.Start; the directory holds any set of  *)
(* peers a group response may have delivered.                              *)
Init ==
  /\ running = TRUE
  /\ punchSocks = NoEntries
  /\ p2pTrySocks = NoEntries
  /\ p2pSocks = NoEntries
  /\ hisP2PFailInfo = NoEntries
  /\ sock = [s \in Socks |-> FreeSock]
  /\ known \in SUBSET Peers
  /\ trig = {}
  /\ acks = {}
  /\ dups = 0
  /\ inflight = [s \in Socks |-> Idle]

Next ==
  \/ \E m \in Macs : TryForwardMessage(m)
  \/ \E m \in Macs : ProcessP2PTrigger(m)
  \/ \E m \in Peers, online \in BOOLEAN : ProcessPeerStateChanged(m, online)
  \/ \E m \in Macs, valid \in BOOLEAN : ServerAnswer(m, valid)
  \/ \E a \in acks : DeliverAck(a)
  \/ \E a \in acks : DuplicateAck(a)
  \/ \E s \in Socks : PunchHandleActive(s)
  \/ \E s \in Socks : DataHandleActive(s)
  \/ \E s \in Socks : DataHandleRead(s)
  \/ \E s \in Socks : DataHandleEvent(s)
  \/ \E s \in Socks : P2PSuccessLoad(s)
  \/ \E s \in Socks : P2PSuccessStore(s)
  \/ \E s \in Socks : P2PSuccessDelete(s)
  \/ ResetP2PSocks
  \/ Start
  \/ Stop
  \/ stateCheck
  \/ Tick

(* stateCheck is a timer loop that runs while the service runs; time      *)
(* passes; a reader goroutine inside P2PSuccess finishes the call.        *)
Fairness ==
  /\ WF_vars(stateCheck)
  /\ WF_vars(Tick)
  /\ \A s \in Socks : WF_vars(P2PSuccessStore(s)) /\ WF_vars(P2PSuccessDelete(s))

Spec == Init /\ [][Next]_vars /\ Fairness

-----------------------------------------------------------------------------
(* Properties.                                                             *)

(* Broadcast and multicast frames are always relayed: no punch socket,     *)
(* pending link or active link ever exists for a group address, whatever  *)
(* frames TryForwardMessage sees and whatever triggers the server relays.  *)
GroupMacsNeverLinked ==
  \A g \in GroupMacs :
    punchSocks[g] = None /\ p2pTrySocks[g] = None /\ p2pSocks[g] = None

(* Every traversal failure backs the peer off: in the state right after a  *)
(* step that raised a peer's failure count (invalid ack, failed connect,  *)
(* exhausted tries), isNeedP2P is false for it, so the next frame to that  *)
(* peer does not start another punch at once.                              *)
FailureBacksOff ==
  [][\A m \in Peers :
       FailCount(hisP2PFailInfo', m) > FailCount(hisP2PFailInfo, m) =>
         ~isNeedP2P(m)']_vars

(* stateCheck sends a pending link at most P2pTryCount probes.             *)
ProbeBudget ==
  \A m \in Macs : p2pTrySocks[m] # None => sock[p2pTrySocks[m]].tries <= P2pTryCount

(* While the service runs, every pending link is eventually resolved:      *)
(* promoted by P2PSuccess, or dropped by stateCheck.                       *)
PendingResolves ==
  \A m \in Peers : (running /\ p2pTrySocks[m] # None) ~> p2pTrySocks[m] = None

(* While the service runs, an active link over which nothing arrives any   *)
(* more is eventually evicted by stateCheck's pings.                       *)
SilentLinkEvicted ==
  \A s \in Socks :
    (running /\ s \in Entries(p2pSocks) /\ sock[s].age = LinkAgeCap)
      ~> (s \notin Entries(p2pSocks) \/ sock[s].age < LinkAgeCap)

(* Frames TryForwardMessage writes to an active link reach a running      *)
(* socket: no active link is a stopped Bootstrap (spec section 5 requires *)
(* promotion to be atomic with respect to teardown).                      *)
ActiveLinksLive ==
  \A m \in Macs : p2pSocks[m] # None => sock[p2pSocks[m]].st = "up"

(* The stages of each address's link (LinkLifecycle), read off the        *)
(* registries.  A pending entry that a P2PSuccess call has already stored  *)
(* as the active link, and will Delete next, counts as promoted.           *)
Promoted(c) == \E s \in Socks : inflight[s] = [pc |-> "stored", ctx |-> c]

LinkStages ==
  [m \in Macs |->
     {st \in {"punch", "pending", "active"} :
        CASE st = "punch"   -> punchSocks[m] # None
          [] st = "pending" -> p2pTrySocks[m] # None /\ ~Promoted(p2pTrySocks[m])
          [] st = "active"  -> p2pSocks[m] # None}]

Lifecycle == INSTANCE LinkLifecycle WITH stages <- LinkStages

(* The engine implements the per-peer link lifecycle of spec sections 2    *)
(* and 4.3: across every interleaving of TryForwardMessage, relayed       *)
(* triggers, acks, P2PSuccess's three map steps, stateCheck, peer state    *)
(* changes, resets and Stop/Start, a punch starts only while no link is   *)
(* pending or active, a pending link only from a live punch socket, and a *)
(* link becomes active only by promotion or, with nothing pending, by a   *)
(* peer's probe.  ProcessP2PAck stores a second pending link over the     *)
(* first when the server's ack arrives twice, and P2PSuccess on the first *)
(* link then promotes it while the second is still pending.                *)
LifecycleRefined == Lifecycle!Spec

=============================================================================
