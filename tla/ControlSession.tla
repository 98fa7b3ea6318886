--------------------------- MODULE ControlSession ---------------------------
(***************************************************************************)
(* The control session of vilan-peer: the registration state machine of    *)
(* service.RuntimeService (src/service/runtime_service.go) and the server  *)
(* branch of MessageHandler (src/service/msg_handler.go) on the socket to  *)
(* the rendezvous server.                                                  *)
(*                                                                         *)
(* The server and the network are the environment.  The server answers an *)
(* auth request with an accepting or a rejecting AuthAck and a ping with a *)
(* pong.  The network may lose datagrams, duplicate them, become           *)
(* unreachable, or raise an exception on the socket.  Every such fault     *)
(* spends one unit of a budget, MaxFaults, so the liveness property says   *)
(* the session recovers from any finite run of faults.                     *)
(*                                                                         *)
(* TunTapService (src/service/tuntap_service.go), which ProcessAuthResponse *)
(* and Restart start and Stop stops, is modelled here with its readTap     *)
(* goroutines.  ResetP2PSocks and SendGroupPeersRequest are left to        *)
(* P2pEngine and Directory.                                                *)
(***************************************************************************)
EXTENDS Naturals

CONSTANTS
  Heartbeat,   \* ServerSockContext.Heartbeat = config Heartbeat
  Offline,     \* ServerSockContext.Offline = config Offline
  Verdicts,    \* the AuthAck outcomes the server may send
  MaxStarts,   \* RuntimeService.Start calls (boot and restarts): model bound
  Static,      \* TapConfig.IpMode = Static with a MAC: boot and Restart start the interface
  MaxReaders,  \* live readTap goroutines: model bound (a Start beyond it is not explored)
  MaxFaults    \* faults of the environment in one behaviour: model bound

ASSUME Heartbeat \in Nat /\ Offline \in Nat /\ Offline > Heartbeat + 3
ASSUME Verdicts \subseteq {"ackOk", "ackFail", "ackBad"} /\ "ackOk" \in Verdicts
ASSUME MaxFaults \in Nat /\ MaxStarts \in Nat \ {0} /\ Static \in BOOLEAN
ASSUME MaxReaders \in Nat \ {0}

(* model.PeerState, with the code's numbering: the code compares states.   *)
UnInit == 0
InitError == 1
InitOk == 2
UnConn == 3
ConnOk == 4
UnAck == 5
AuthFail == 6
Ok == 7

(* now - LastReceive saturates at Offline, the largest value it meets.     *)
AgeCap == Offline

ToServer   == {"auth", "ping", "unauth"}
FromServer == {"ackOk", "ackFail", "ackBad", "pong"}

VARIABLES
  running,    \* RuntimeService.running
  cancelled,  \* r.cancelContext is done
  loops,      \* stateCheck goroutines by place: "first" (before the loop), "loop", "exit" (deferred)
  starts,     \* RuntimeService.Start calls that launched a stateCheck
  ui,         \* the UI goroutine: "boot", "idle", or inside Restart ("tap", "start")
  peerState,  \* RuntimeService.peerState
  srv,        \* the server socket: Bootstrap running, Connected, Handler, age
  tap,        \* TunTapService: state, t.tapper, readTap goroutines
  net,        \* pings succeed: to ServerIp in initServerSocket, to a public host in isNetOk
  toSrv,      \* datagrams in flight to the server
  fromSrv,    \* datagrams in flight to the current server socket
  rx,         \* the message the socket's reader has read and is handling
  faults      \* environment faults so far

ctl == <<running, cancelled, loops, starts, ui>>
vars == <<running, cancelled, loops, starts, ui, peerState, srv, tap, net, toSrv, fromSrv, rx, faults>>

(* Handler is "nil" before the first connection, "live" once the current   *)
(* socket's HandleActive or HandleRead stored it, and "stale" after a      *)
(* reconnect, which keeps the old socket's context in serverSock.Handler.  *)
(* The stateCheck goroutines are alike: they read running, cancelContext  *)
(* and serverSock through r, so a multiset of their places is exact.       *)
LoopPlace == {"first", "loop", "exit"}

(* model.TunTapState.  Every use of the device goes through t.tapper, so *)
(* only its state matters: "nil", an "open" device or a "closed" one.  The *)
(* readTap goroutines are alike (they read t.tapper and t.state), so a     *)
(* multiset of their places is exact.                                       *)
TunTapState == {"UnInit", "InitFailed", "InitOk", "Running", "Stop"}
ReaderPlace == {"start", "loop", "exit"}
TapRec == [st : TunTapState, fd : {"nil", "open", "closed"},
           rd : [ReaderPlace -> 0 .. MaxReaders]]

SrvRec == [up : BOOLEAN, connected : BOOLEAN, handler : {"nil", "stale", "live"},
           age : 0 .. AgeCap]

TypeOK ==
  /\ running \in BOOLEAN
  /\ cancelled \in BOOLEAN
  /\ loops \in [LoopPlace -> 0 .. MaxStarts] /\ starts \in 0 .. MaxStarts
  /\ ui \in {"boot", "idle", "tap", "start"}
  /\ peerState \in UnInit .. Ok
  /\ srv \in SrvRec
  /\ tap \in TapRec /\ net \in BOOLEAN
  /\ toSrv \subseteq ToServer /\ fromSrv \subseteq FromServer
  /\ rx \in FromServer \cup {"none"}
  /\ faults \in 0 .. MaxFaults

-----------------------------------------------------------------------------
(* Helpers of the code.                                                     *)

(* ServerSockContext.IsConnected: connected, heard from within Offline, and *)
(* past Heartbeat + 3 only if isNetOk's ping succeeds.                     *)
IsConnected ==
  /\ srv.connected
  /\ srv.age < Offline
  /\ srv.age > Heartbeat + 3 => net

(* The guard every Send* method starts with.                                *)
AuthAllowedLate(s) == s > UnAck
AuthAllowed(s) == s >= ConnOk

(* forwardMessage through serverSock.Handler: only a live handler reaches  *)
(* the server; a stale one writes to a closed channel.                     *)
Send(m) == IF running /\ srv.handler = "live" THEN toSrv \cup {m} ELSE toSrv

(* SendAuthRequest: send the request and enter UnAck, or fail early.       *)
SendAuthRequest ==
  IF AuthAllowed(peerState) /\ srv.handler # "nil"
  THEN /\ toSrv' = Send("auth")
       /\ peerState' = UnAck
  ELSE UNCHANGED <<toSrv, peerState>>

(* SendUnAuth and SendPing: the same guards, then forwardMessage.           *)
SendUnAuth == IF AuthAllowed(peerState) /\ srv.handler # "nil" THEN Send("unauth") ELSE toSrv
SendPing == IF AuthAllowed(peerState) /\ srv.handler # "nil" THEN Send("ping") ELSE toSrv

(* stopAllSockets: stop the Bootstrap, clear Connected, enter UnConn.      *)
(* Datagrams addressed to the closed socket are gone.                      *)
stopAllSockets ==
  /\ srv' = [srv EXCEPT !.up = FALSE, !.connected = FALSE]
  /\ peerState' = UnConn
  /\ fromSrv' = {}

(* stopAllSockets followed by initServerSocket: when the server answers a  *)
(* ping, a new socket is connected and the state is UnAck; the Handler and *)
(* LastReceive of serverSock are not reset.                                 *)
Reconnect ==
  /\ fromSrv' = {}
  /\ toSrv' = {}
  /\ IF net
     THEN /\ srv' = [up |-> TRUE, connected |-> TRUE, age |-> srv.age,
                     handler |-> IF srv.handler = "nil" THEN "nil" ELSE "stale"]
          /\ peerState' = UnAck
     ELSE /\ srv' = [srv EXCEPT !.up = FALSE, !.connected = FALSE]
          /\ peerState' = UnConn

-----------------------------------------------------------------------------
(* TunTapService (src/service/tuntap_service.go).  An outcome is the       *)
(* service after the call, whether it returned without error, and the      *)
(* faults of the device it met.                                             *)

(* A fault of the environment is spent from the budget.                    *)
Spend(f) == faults + f <= MaxFaults /\ faults' = faults + f

MoveR(rd, p, q) ==
  IF q = "gone" THEN [rd EXCEPT ![p] = @ - 1] ELSE [rd EXCEPT ![p] = @ - 1, ![q] = @ + 1]

(* createTap, with a valid configuration (Static carries a MAC and an     *)
(* address, and an AuthAck assigns them): t.tapper is overwritten, without *)
(* closing what it held, by the new device (InitOk) or by nil when the    *)
(* device cannot be created (InitFailed, a fault).                         *)
CreateTap(t) ==
  {[t |-> [t EXCEPT !.fd = "nil", !.st = "InitFailed"], ok |-> FALSE, f |-> 1],
   [t |-> [t EXCEPT !.fd = "open", !.st = "InitOk"], ok |-> TRUE, f |-> 0]}

(* The readTap goroutines alive.                                          *)
Readers(t) == t.rd["start"] + t.rd["loop"] + t.rd["exit"]

(* Start: nothing when Running; otherwise createTap, then the MAC, address *)
(* and MTU are set (a failure there returns an error and leaves the device *)
(* open in InitOk) and a readTap goroutine is launched.  Outcomes with     *)
(* more than MaxReaders goroutines alive are cut off.                      *)
TapStart(t) ==
  IF t.st = "Running" THEN {[t |-> t, ok |-> TRUE, f |-> 0]}
  ELSE {c \in UNION {IF ~c.ok THEN {c}
                     ELSE {[c EXCEPT !.t.rd["start"] = @ + 1], [c EXCEPT !.ok = FALSE, !.f = 1]}
                     : c \in CreateTap(t)} : Readers(c.t) <= MaxReaders}

(* Stop: the state becomes Stop and t.tapper is closed and cleared; Close  *)
(* of a descriptor already closed fails, and Stop returns that error with  *)
(* t.tapper kept.                                                           *)
TapStop(t) ==
  LET u == [t EXCEPT !.st = "Stop"]
  IN CASE t.fd = "nil"    -> [t |-> u, ok |-> TRUE, f |-> 0]
       [] t.fd = "open"   -> [t |-> [u EXCEPT !.fd = "nil"], ok |-> TRUE, f |-> 0]
       [] t.fd = "closed" -> [t |-> u, ok |-> FALSE, f |-> 0]

(* readTap: the goroutine first sets Running.                              *)
ReaderStart ==
  /\ tap.rd["start"] > 0
  /\ tap' = [tap EXCEPT !.st = "Running", !.rd = MoveR(@, "start", "loop")]
  /\ UNCHANGED <<ctl, peerState, srv, net, toSrv, fromSrv, rx, faults>>

(* One pass of readTap's loop.  It leaves when the state is not Running,   *)
(* and through a recovered panic when t.tapper is nil.  A read that fails  *)
(* (a device error, a fault, or a closed descriptor) while Running runs   *)
(* Stop, ignoring its error, and createTap: a new device is brought up and *)
(* the state set to Running, or the goroutine returns.  A read that        *)
(* succeeds hands the frame to PostTunTapData (no change here).            *)
ReaderLoop ==
  /\ tap.rd["loop"] > 0
  /\ IF tap.st # "Running" \/ tap.fd = "nil"
     THEN tap' = [tap EXCEPT !.rd = MoveR(@, "loop", "exit")] /\ UNCHANGED faults
     ELSE LET e == IF tap.fd = "open" THEN 1 ELSE 0
          IN \E c \in CreateTap(TapStop(tap).t) :
              /\ Spend(e + c.f)
              /\ tap' = IF c.ok THEN [c.t EXCEPT !.st = "Running"]
                        ELSE [c.t EXCEPT !.rd = MoveR(@, "loop", "exit")]
  /\ UNCHANGED <<ctl, peerState, srv, net, toSrv, fromSrv, rx>>

(* readTap's deferred function: close t.tapper unless nil (the field is   *)
(* not cleared) and set the state to Stop.                                  *)
ReaderExit ==
  /\ tap.rd["exit"] > 0
  /\ tap' = [tap EXCEPT !.fd = IF @ = "nil" THEN "nil" ELSE "closed",
                        !.st = "Stop", !.rd = MoveR(@, "exit", "gone")]
  /\ UNCHANGED <<ctl, peerState, srv, net, toSrv, fromSrv, rx, faults>>

-----------------------------------------------------------------------------
(* Operations.                                                              *)

(* Move one stateCheck goroutine from place p to place q ("gone": ended). *)
Move(p, q) ==
  IF q = "gone" THEN [loops EXCEPT ![p] = @ - 1]
  ELSE [loops EXCEPT ![p] = @ - 1, ![q] = @ + 1]

(* Start: unless running, set running, make a new cancelContext and launch *)
(* a stateCheck goroutine; returns at once when already running.          *)
StartService ==
  IF running THEN UNCHANGED <<running, cancelled, loops, starts>>
  ELSE /\ running' = TRUE /\ cancelled' = FALSE
       /\ loops' = [loops EXCEPT !["first"] = @ + 1]
       /\ starts' = starts + 1

(* Stop: SendUnAuth, CleanRoutes (the route is not modelled), clear       *)
(* running, cancel the context, enter UnConn.                              *)
StopService ==
  /\ toSrv' = SendUnAuth
  /\ running' = FALSE /\ cancelled' = TRUE
  /\ peerState' = UnConn

(* The app starts the virtual interface when Static (its error is only    *)
(* logged), then RuntimeService, once (wails-app.go).                      *)
Boot ==
  /\ ui = "boot"
  /\ ui' = "idle"
  /\ IF Static THEN \E c \in TapStart(tap) : Spend(c.f) /\ tap' = c.t
     ELSE UNCHANGED <<tap, faults>>
  /\ StartService
  /\ UNCHANGED <<peerState, srv, net, toSrv, fromSrv, rx>>

(* Restart, called when the user saves a changed configuration: first     *)
(* P2pService.Stop (module P2pEngine) and r.Stop.                           *)
RestartStop ==
  /\ ui = "idle" /\ starts < MaxStarts
  /\ ui' = "tap"
  /\ StopService
  /\ UNCHANGED <<loops, starts, srv, tap, net, fromSrv, rx, faults>>

(* Restart goes on with TunTapService.Stop, returning its error at once,  *)
(* then, when Static, TunTapService.Start (its error only logged), then   *)
(* r.Start.                                                                 *)
RestartTap ==
  /\ ui = "tap"
  /\ LET s == TapStop(tap)
     IN IF ~s.ok THEN ui' = "idle" /\ tap' = s.t /\ UNCHANGED faults
        ELSE /\ ui' = "start"
             /\ IF Static THEN \E c \in TapStart(s.t) : Spend(c.f) /\ tap' = c.t
                ELSE tap' = s.t /\ UNCHANGED faults
  /\ UNCHANGED <<running, cancelled, loops, starts, peerState, srv, net, toSrv, fromSrv, rx>>

RestartStart ==
  /\ ui = "start"
  /\ ui' = "idle"
  /\ StartService
  /\ UNCHANGED <<peerState, srv, tap, net, toSrv, fromSrv, rx, faults>>

(* stateCheck before its loop: reconnect unless connected.                  *)
StateCheckFirst ==
  /\ loops["first"] > 0
  /\ loops' = Move("first", "loop")
  /\ IF IsConnected THEN UNCHANGED <<srv, peerState, toSrv, fromSrv>> ELSE Reconnect
  /\ UNCHANGED <<running, cancelled, starts, ui, tap, net, rx, faults>>

(* One pass of the stateCheck loop, which re-reads r.running and          *)
(* r.cancelContext: while running and not cancelled, the three-second     *)
(* timer fires and the pass reconnects unless connected, otherwise resends *)
(* the registration unless the state is Ok.                               *)
StateCheck ==
  /\ loops["loop"] > 0 /\ running /\ ~cancelled
  /\ \/ /\ ~IsConnected
        /\ Reconnect
     \/ /\ IsConnected
        /\ peerState # Ok
        /\ SendAuthRequest
        /\ UNCHANGED <<srv, fromSrv>>
  /\ UNCHANGED <<ctl, tap, net, rx, faults>>

(* The loop ends, when running is clear or the context is cancelled,       *)
(* through stopAllSockets; the deferred running = false follows.           *)
LoopExit ==
  /\ loops["loop"] > 0 /\ (~running \/ cancelled)
  /\ loops' = Move("loop", "exit")
  /\ stopAllSockets
  /\ UNCHANGED <<running, cancelled, starts, ui, tap, net, toSrv, rx, faults>>

LoopDefer ==
  /\ loops["exit"] > 0
  /\ loops' = Move("exit", "gone")
  /\ running' = FALSE
  /\ UNCHANGED <<cancelled, starts, ui, peerState, srv, tap, net, toSrv, fromSrv, rx, faults>>

(* MessageHandler.HandleActive on the server socket: store the handler,    *)
(* mark connected and heard, enter UnAck and SendAuthRequest.              *)
ServerHandleActive ==
  /\ srv.up /\ srv.handler # "live"
  /\ srv' = [srv EXCEPT !.handler = "live", !.connected = TRUE, !.age = 0]
  /\ toSrv' = IF running /\ AuthAllowed(UnAck) THEN toSrv \cup {"auth"} ELSE toSrv
  /\ peerState' = UnAck
  /\ UNCHANGED <<ctl, tap, net, fromSrv, rx, faults>>

(* MessageHandler.HandleRead on the server socket: note LastReceive and the *)
(* handler, and take the frame.  A datagram the network duplicated stays   *)
(* in flight.                                                               *)
ServerRead(m) ==
  /\ srv.up /\ rx = "none" /\ m \in fromSrv
  /\ srv' = [srv EXCEPT !.handler = "live", !.age = 0]
  /\ rx' = m
  /\ \/ fromSrv' = fromSrv \ {m} /\ UNCHANGED faults
     \/ faults < MaxFaults /\ faults' = faults + 1 /\ UNCHANGED fromSrv
  /\ UNCHANGED <<ctl, peerState, tap, net, toSrv>>

(* ProcessAuthResponse with AuthRes >= 0 and a valid assignment: enter Ok  *)
(* and start the virtual interface if it is not running; a failed start   *)
(* leaves InitError.  The trailing SendGroupPeersRequest changes only the  *)
(* directory (module Directory); ResetP2PSocks is P2pEngine's.             *)
AuthAccepted ==
  \E c \in TapStart(tap) :
    /\ Spend(c.f)
    /\ tap' = c.t
    /\ peerState' = IF c.ok THEN Ok ELSE InitError

(* processMsg for the frame taken by the reader, whether or not the socket *)
(* is still open: AuthAck accepted, rejected (AuthRes < 0) or carrying an  *)
(* invalid MAC or IP; a Pong only updates externSock.                      *)
ServerProcess ==
  /\ rx # "none"
  /\ rx' = "none"
  /\ CASE rx = "ackOk" -> AuthAccepted
       [] rx \in {"ackFail", "ackBad"} -> peerState' = AuthFail /\ UNCHANGED <<tap, faults>>
       [] rx = "pong" -> UNCHANGED <<peerState, tap, faults>>
  /\ UNCHANGED <<ctl, srv, net, toSrv, fromSrv>>

(* HandleEvent(ReadIdle): after Heartbeat seconds without a read, SendPing *)
(* when the state is Ok.                                                    *)
ServerIdle ==
  /\ srv.up /\ srv.age >= Heartbeat
  /\ peerState = Ok
  /\ toSrv' = SendPing
  /\ toSrv' # toSrv
  /\ UNCHANGED <<ctl, peerState, srv, tap, net, fromSrv, rx, faults>>

(* HandleException / HandleInactive: clear Connected.                      *)
ServerInactive ==
  /\ srv.up /\ srv.connected /\ faults < MaxFaults
  /\ srv' = [srv EXCEPT !.connected = FALSE]
  /\ faults' = faults + 1
  /\ UNCHANGED <<ctl, peerState, tap, net, toSrv, fromSrv, rx>>

-----------------------------------------------------------------------------
(* The environment.                                                         *)

(* The server answers an auth request with an AuthAck of any verdict (a    *)
(* rejection is a fault) and a ping with a pong; an unauth needs no reply. *)
ServerReply(m, v) ==
  /\ m \in toSrv
  /\ toSrv' = toSrv \ {m}
  /\ \/ m = "auth" /\ v \in Verdicts /\ srv.up /\ fromSrv' = fromSrv \cup {v}
        /\ IF v = "ackOk" THEN UNCHANGED faults
           ELSE faults < MaxFaults /\ faults' = faults + 1
     \/ m = "ping" /\ v = "pong" /\ srv.up /\ fromSrv' = fromSrv \cup {v}
        /\ UNCHANGED faults
     \/ m = "unauth" /\ v = "none" /\ UNCHANGED <<fromSrv, faults>>
  /\ UNCHANGED <<ctl, peerState, srv, tap, net, rx>>

(* A datagram is lost in either direction.                                 *)
Lose(m) ==
  /\ faults < MaxFaults /\ faults' = faults + 1
  /\ \/ m \in toSrv /\ toSrv' = toSrv \ {m} /\ UNCHANGED fromSrv
     \/ m \in fromSrv /\ fromSrv' = fromSrv \ {m} /\ UNCHANGED toSrv
  /\ UNCHANGED <<ctl, peerState, srv, tap, net, rx>>

(* The network stops or resumes carrying pings.                            *)
NetDown ==
  /\ net /\ faults < MaxFaults
  /\ net' = FALSE /\ faults' = faults + 1
  /\ UNCHANGED <<ctl, peerState, srv, tap, toSrv, fromSrv, rx>>

NetUp ==
  /\ ~net /\ net' = TRUE
  /\ UNCHANGED <<ctl, peerState, srv, tap, toSrv, fromSrv, rx, faults>>

(* A second passes without a read on the server socket.  Datagrams and    *)
(* handler callbacks take milliseconds, so a second passes only when none  *)
(* is pending; a slow datagram is a lost one.                              *)
Tick ==
  /\ srv.age < AgeCap
  /\ toSrv = {} /\ fromSrv = {} /\ rx = "none"
  /\ ~(srv.up /\ srv.handler # "live")
  /\ srv' = [srv EXCEPT !.age = @ + 1]
  /\ UNCHANGED <<ctl, peerState, tap, net, toSrv, fromSrv, rx, faults>>

-----------------------------------------------------------------------------
(* RuntimeService after Init: InitOk, not running, no socket yet.          *)
Init ==
  /\ running = FALSE /\ cancelled = FALSE
  /\ loops = [p \in LoopPlace |-> 0] /\ starts = 0
  /\ ui = "boot"
  /\ peerState = InitOk
  /\ srv = [up |-> FALSE, connected |-> FALSE, handler |-> "nil", age |-> 0]
  /\ tap = [st |-> "UnInit", fd |-> "nil", rd |-> [p \in ReaderPlace |-> 0]]
  /\ net = TRUE
  /\ toSrv = {} /\ fromSrv = {} /\ rx = "none"
  /\ faults = 0

Messages == ToServer \cup FromServer \cup {"none"}

Next ==
  \/ Boot \/ RestartStop \/ RestartTap \/ RestartStart
  \/ StateCheckFirst \/ StateCheck \/ LoopExit \/ LoopDefer
  \/ ReaderStart \/ ReaderLoop \/ ReaderExit
  \/ ServerHandleActive \/ \E m \in FromServer : ServerRead(m)
  \/ ServerProcess \/ ServerIdle \/ ServerInactive
  \/ \E m \in ToServer, v \in Messages : ServerReply(m, v)
  \/ \E m \in ToServer \cup FromServer : Lose(m)
  \/ NetDown \/ NetUp \/ Tick

(* The goroutines of the code run whenever they can, the server answers    *)
(* what reaches it, and time passes.  The app boots, and a Restart once  *)
(* begun runs to its end; whether the user restarts is the user's choice. *)
Fairness ==
  /\ WF_vars(Boot) /\ WF_vars(RestartTap) /\ WF_vars(RestartStart)
  /\ WF_vars(StateCheckFirst) /\ WF_vars(StateCheck) /\ WF_vars(LoopExit)
  /\ WF_vars(LoopDefer)
  /\ WF_vars(ReaderStart) /\ WF_vars(ReaderLoop) /\ WF_vars(ReaderExit)
  /\ WF_vars(ServerHandleActive) /\ WF_vars(ServerProcess) /\ WF_vars(ServerIdle)
  /\ WF_vars(\E m \in FromServer : ServerRead(m))
  /\ WF_vars(\E m \in ToServer, v \in Messages : ServerReply(m, v))
  /\ WF_vars(NetUp) /\ WF_vars(Tick)

Spec == Init /\ [][Next]_vars /\ Fairness

-----------------------------------------------------------------------------
(* Properties.                                                              *)

(* Once faults stop, a running session that is not registered becomes Ok   *)
(* (or is stopped): stateCheck reconnects a silent socket and resends the  *)
(* registration, HandleActive registers a new socket, ProcessAuthResponse  *)
(* enters Ok.                                                               *)
SessionRecovers == (running /\ peerState # Ok) ~> (peerState = Ok \/ ~running)

(* Spec section 5: one maintenance task per component, with a single       *)
(* cancellation signal made at Start and fired at Stop.  Restart's r.Start *)
(* must not launch a stateCheck while the one of the previous Start is     *)
(* still alive: that one re-reads r.running and r.cancelContext, so it     *)
(* either keeps looping on the new context or, through its deferred        *)
(* running = false, stops the new one.                                      *)
SingleStateCheck == loops["first"] + loops["loop"] + loops["exit"] <= 1

====
