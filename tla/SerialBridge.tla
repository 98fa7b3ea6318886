---------------------------- MODULE SerialBridge ----------------------------
(***************************************************************************)
(* The serial-port tunnel of src/serial: the local PortService's client    *)
(* side (clientCtx, ClientContext, ClientHandler) talking over TCP to the *)
(* remote PortService's server side (serverCtx, ServerContext,             *)
(* ServerHandler) of one peer.                                             *)
(*                                                                         *)
(* A ClientContext and the ServerContext made for it are named by the TCP  *)
(* connection k that ClientContext.Start opened; 0 is "none".  Each        *)
(* connection is two FIFO queues whose ends close separately.  One UI      *)
(* goroutine calls PortService operations one at a time; the two read      *)
(* loops, both stateCheck goroutines, the command timers and the network   *)
(* interleave with it.  Connections may break within the budget MaxFaults. *)
(***************************************************************************)
EXTENDS Naturals, Sequences

CONSTANTS
  Ports,      \* the remote peer's serial port names
  Saved,      \* the ports with a saved configuration at the remote peer at start
  None,       \* no port / no blocked send
  MaxConn,    \* connections opened in one behaviour: model bound
  MaxOps,     \* UI calls in one behaviour: model bound
  MaxFaults   \* broken connections and failed connects: model bound

ASSUME Saved \subseteq Ports /\ None \notin Ports
ASSUME MaxOps \in Nat /\ MaxConn \in Nat /\ MaxConn >= MaxOps /\ MaxFaults \in Nat

Conns == 1 .. MaxConn
Ops == {"connect", "disconnect", "open", "close", "cfg", "list", "setcfg", "ports"}

(* A msgResult key: the command type and the port name it is keyed by.     *)
Keys == {<<"auth", None>>, <<"list", None>>} \cup ({"open", "close", "cfg"} \X Ports)

(* MsgClientFrame and MsgServerFrame, reduced to type, port and Result.    *)
ClientMsg == [t : {"Auth", "UnAuth", "Open", "Close", "Cfg", "List"}, p : Ports \cup {None}]
ServerMsg == [t : {"AuthAck", "OpenAck", "CloseAck", "CfgAck", "ListAck"}, p : Ports \cup {None}, ok : BOOLEAN]

VARIABLES
  cli,        \* local clientCtx[peer]: the current ClientContext, or 0
  hnd,        \* ClientContext.handler: the connection it writes to, or 0 (nil)
  cports,     \* ClientContext.portCtx: remote ports paired with a local port
  msgResult,  \* ClientContext.msgResult: key -> the UI call whose channel it holds, 0 if none
  cauth,      \* ClientHandler.auth, per connection
  reader,     \* client read loop: the send it is blocked in, or None
  srvMap,     \* remote serverCtx[local id]: the current ServerContext, or 0
  sports,     \* ServerContext.portCtx: serial ports it holds open
  sauth,      \* ServerHandler.auth, per connection
  saved,      \* ports with a configuration saved at the remote peer (serial2.SaveConfig)
  cOpen,      \* client end of each connection open
  sOpen,      \* server end of each connection open
  c2s, s2c,   \* bytes in flight on each connection, as frames
  ui,         \* the UI call in progress
  conns,      \* connections opened
  ops,        \* UI calls made
  faults

vars == <<cli, hnd, cports, msgResult, cauth, reader, srvMap, sports, sauth, saved,
          cOpen, sOpen, c2s, s2c, ui, conns, ops, faults>>

Blocked == [ctx : Conns, key : Keys, ok : BOOLEAN, call : 1 .. MaxOps]
Steps == {"idle", "cmd", "reg", "wait", "ret", "connect", "authreg", "authwait", "authret"}
Idle == [op |-> "idle", p |-> None, ctx |-> 0, step |-> "idle", att |-> 1, out |-> "none"]

TypeOK ==
  /\ cli \in 0 .. MaxConn /\ srvMap \in 0 .. MaxConn
  /\ hnd \in [Conns -> 0 .. MaxConn]
  /\ cports \in [Conns -> SUBSET Ports] /\ sports \in [Conns -> SUBSET Ports]
  /\ saved \subseteq Ports
  /\ msgResult \in [Conns -> [Keys -> 0 .. MaxOps]]
  /\ reader \in [Conns -> Blocked \cup {None}]
  /\ cauth \in [Conns -> BOOLEAN] /\ sauth \in [Conns -> BOOLEAN]
  /\ cOpen \in [Conns -> BOOLEAN] /\ sOpen \in [Conns -> BOOLEAN]
  /\ c2s \in [Conns -> Seq(ClientMsg)] /\ s2c \in [Conns -> Seq(ServerMsg)]
  /\ ui \in [op : Ops \cup {"idle"}, p : Ports \cup {None}, ctx : 0 .. MaxConn,
             step : Steps, att : {1, 2}, out : {"none", "ok", "fail", "timeout"}]
  /\ conns \in 0 .. MaxConn /\ ops \in 0 .. MaxOps /\ faults \in 0 .. MaxFaults

-----------------------------------------------------------------------------
(* Writes.  handler.Write on a connection whose far end is gone is lost;  *)
(* write2Net recovers from it.                                             *)
Up(k) == k # 0 /\ cOpen[k] /\ sOpen[k]
Write(q, k, m) == IF Up(k) THEN [q EXCEPT ![k] = Append(@, m)] ELSE q

(* The msgResult key of a UI command, and of a server answer.              *)
CmdKey(op, p) == CASE op = "open" \/ op = "setcfg" -> <<"open", p>>
                   [] op = "list" -> <<"list", None>>
                   [] OTHER -> <<op, p>>
CmdMsg(op, p) == CASE op = "open" \/ op = "setcfg" -> [t |-> "Open", p |-> p]
                   [] op = "close" -> [t |-> "Close", p |-> p]
                   [] op = "cfg" -> [t |-> "Cfg", p |-> p]
                   [] OTHER -> [t |-> "List", p |-> None]
AckKey(m) == CASE m.t = "AuthAck" -> <<"auth", None>>
               [] m.t = "OpenAck" -> <<"open", m.p>>
               [] m.t = "CloseAck" -> <<"close", m.p>>
               [] m.t = "CfgAck" -> <<"cfg", m.p>>
               [] OTHER -> <<"list", None>>

(* ClientContext.Stop on context x: UnAuth through the handler, every      *)
(* paired port closed and portCtx emptied, the channel and the handler     *)
(* closed.  Applied to the queues, the ends and the port map.              *)
ClientStopQ(x) == IF hnd[x] # 0 THEN Write(c2s, hnd[x], [t |-> "UnAuth", p |-> None]) ELSE c2s
ClientStopEnds(x) == [j \in Conns |-> IF j = x \/ j = hnd[x] THEN FALSE ELSE cOpen[j]]

(* ServerContext.Stop on context i: its ports closed, the handler closed.  *)
ServerStopPorts(i) == [sports EXCEPT ![i] = {}]
ServerStopEnds(i) == [sOpen EXCEPT ![i] = FALSE]

(* ClientHandler.HandleActive: the first frame on a new connection.        *)
HandleActiveAuth == [t |-> "Auth", p |-> None]

(* ClientHandler.processMsg and ServerHandler.processMsg: until the        *)
(* handler of connection j has seen an AuthAck (a MsgAuth on the server   *)
(* side), every other frame is dropped.                                    *)
ClientAdmits(j, m) == m.t = "AuthAck" \/ cauth[j]
ServerAdmits(j, m) == m.t = "Auth" \/ sauth[j]

(* SetServerHandle: a new ServerContext on connection j, whose Start       *)
(* always succeeds, stored over the one stored before, which is not        *)
(* stopped.                                                                 *)
SetServerHandle(j) == srvMap' = j

(* RemoveServerHandler: the stored ServerContext stopped and deleted.      *)
RemoveServerHandler ==
  /\ sports' = ServerStopPorts(srvMap) /\ sOpen' = ServerStopEnds(srvMap)
  /\ srvMap' = 0

-----------------------------------------------------------------------------
(* The UI goroutine.  A call starts from the PortService method.           *)

AuthKey == <<"auth", None>>
UiKey == IF ui.step \in {"authreg", "authwait", "authret"} THEN AuthKey ELSE CmdKey(ui.op, ui.p)

(* DisConnectRemote: Stop the current context and delete it.               *)
DisConnectRemote ==
  /\ ui.step = "idle" /\ ops < MaxOps /\ ops' = ops + 1
  /\ IF cli # 0
     THEN /\ c2s' = ClientStopQ(cli) /\ cOpen' = ClientStopEnds(cli)
          /\ cports' = [cports EXCEPT ![cli] = {}] /\ cli' = 0
     ELSE UNCHANGED <<c2s, cOpen, cports, cli>>
  /\ UNCHANGED <<hnd, msgResult, cauth, reader, srvMap, sports, sauth, saved, sOpen, s2c, ui, conns, faults>>

(* OpenPort, GetPortConfig, SetPortConfig, GetRemotePortList: the command *)
(* on the stored context, or ConnectRemote first when there is none (the  *)
(* retry after a timed-out first attempt is CmdReturn's).                  *)
CommandCall(op, p) ==
  IF cli # 0 THEN [Idle EXCEPT !.op = op, !.p = p, !.ctx = cli, !.step = "cmd"]
  ELSE [Idle EXCEPT !.op = op, !.p = p, !.step = "connect", !.att = 2]

(* ClosePort: ctx.ClosePort on the stored context, or a failure at once.   *)
ClosePortCall(p) ==
  IF cli # 0 THEN [Idle EXCEPT !.op = "close", !.p = p, !.ctx = cli, !.step = "cmd"]
  ELSE Idle

(* GetConnectedPorts: the stored context's local port list, which never   *)
(* times out; with no context, ConnectRemote first (AuthReturn then reads *)
(* the list of the context it stored).                                     *)
ConnectedPortsCall ==
  IF cli # 0 THEN Idle
  ELSE [Idle EXCEPT !.op = "ports", !.step = "connect", !.att = 2]

(* One call of the UI goroutine; ConnectRemote is also a call of its own.  *)
Call(op, p) ==
  /\ ui.step = "idle" /\ ops < MaxOps /\ ops' = ops + 1
  /\ (p = None) = (op \in {"connect", "list", "ports"})
  /\ ui' = CASE op = "connect" -> [Idle EXCEPT !.op = op, !.step = "connect", !.att = 2]
              [] op = "close"   -> ClosePortCall(p)
              [] op = "ports"   -> ConnectedPortsCall
              [] OTHER          -> CommandCall(op, p)
  /\ UNCHANGED <<cli, hnd, cports, msgResult, cauth, reader, srvMap, sports, sauth, saved,
                 cOpen, sOpen, c2s, s2c, conns, faults>>

(* ClientContext.OpenPort / SetPortConfig / ClosePort / GetPortConfig /    *)
(* GetPortList up to the write: OpenPort and SetPortConfig refuse a port   *)
(* already paired; write2Net fails on a nil handler, and a ClosePort that *)
(* fails so still returns through PortService.ClosePort's portCtx test.   *)
CmdSend ==
  LET x == ui.ctx IN
  /\ ui.step = "cmd"
  /\ CASE ui.op \in {"open", "setcfg"} /\ ui.p \in cports[x] ->
            ui' = Idle /\ UNCHANGED c2s
       [] hnd[x] = 0 ->
            /\ ui' = IF ui.op = "close" THEN [ui EXCEPT !.step = "ret", !.out = "fail"]
                     ELSE Idle
            /\ UNCHANGED c2s
       [] OTHER ->
            ui' = [ui EXCEPT !.step = "reg"] /\ c2s' = Write(c2s, hnd[x], CmdMsg(ui.op, ui.p))
  /\ UNCHANGED <<cli, hnd, cports, msgResult, cauth, reader, srvMap, sports, sauth, saved,
                 cOpen, sOpen, s2c, conns, ops, faults>>

(* The result channel stored in msgResult after the write; ClosePort then  *)
(* closes the local port and deletes it from portCtx before it waits.      *)
CmdRegister ==
  LET x == ui.ctx IN
  /\ ui.step = "reg"
  /\ msgResult' = [msgResult EXCEPT ![x][CmdKey(ui.op, ui.p)] = ops]
  /\ cports' = IF ui.op = "close" THEN [cports EXCEPT ![x] = @ \ {ui.p}] ELSE cports
  /\ ui' = [ui EXCEPT !.step = "wait"]
  /\ UNCHANGED <<cli, hnd, cauth, reader, srvMap, sports, sauth, saved, cOpen, sOpen, c2s, s2c, conns, ops, faults>>

(* The select takes the result the read loop of connection j sends.  A     *)
(* successful OpenPort opens the local port and stores it in portCtx.      *)
Receive(j) ==
  /\ ui.step \in {"wait", "authwait"}
  /\ reader[j] # None
  /\ reader[j].ctx = ui.ctx /\ reader[j].key = UiKey /\ reader[j].call = ops
  /\ reader' = [reader EXCEPT ![j] = None]
  /\ cports' = IF ui.op = "open" /\ ui.step = "wait" /\ reader[j].ok
               THEN [cports EXCEPT ![ui.ctx] = @ \cup {ui.p}] ELSE cports
  /\ ui' = [ui EXCEPT !.step = IF @ = "wait" THEN "ret" ELSE "authret",
                      !.out = IF reader[j].ok THEN "ok" ELSE "fail"]
  /\ UNCHANGED <<cli, hnd, msgResult, cauth, srvMap, sports, sauth, saved, cOpen, sOpen, c2s, s2c, conns, ops, faults>>

(* The select's cmdTimeout (1.2 s) fires.                                  *)
Timeout ==
  /\ ui.step \in {"wait", "authwait"}
  /\ ui' = [ui EXCEPT !.step = IF @ = "wait" THEN "ret" ELSE "authret", !.out = "timeout"]
  /\ UNCHANGED <<cli, hnd, cports, msgResult, cauth, reader, srvMap, sports, sauth, saved,
                 cOpen, sOpen, c2s, s2c, conns, ops, faults>>

(* deleteContext on the client side: handler.Close, then Stop, whose       *)
(* UnAuth goes to the closed handler and is lost; the entry is deleted.    *)
DeleteContextEnds(x) == ClientStopEnds(x)

(* The command returns; the deferred delete empties its msgResult entry.   *)
(* ClosePort with no paired port left disconnects; a timed-out first       *)
(* attempt of the other commands deletes the context and goes on to       *)
(* ConnectRemote.                                                          *)
CmdReturn ==
  LET x == ui.ctx IN
  /\ ui.step = "ret"
  /\ msgResult' = [msgResult EXCEPT ![x][CmdKey(ui.op, ui.p)] = 0]
  /\ CASE ui.op = "close" /\ cports[x] = {} /\ cli # 0 ->
            /\ c2s' = ClientStopQ(cli) /\ cOpen' = ClientStopEnds(cli)
            /\ cports' = [cports EXCEPT ![cli] = {}] /\ cli' = 0 /\ ui' = Idle
       [] ui.op # "close" /\ ui.out = "timeout" /\ ui.att = 1 ->
            /\ IF cli # 0
               THEN /\ cOpen' = DeleteContextEnds(cli)
                    /\ cports' = [cports EXCEPT ![cli] = {}] /\ cli' = 0
               ELSE UNCHANGED <<cOpen, cports, cli>>
            /\ UNCHANGED c2s
            /\ ui' = [ui EXCEPT !.step = "connect", !.att = 2, !.ctx = 0, !.out = "none"]
       [] OTHER -> ui' = Idle /\ UNCHANGED <<c2s, cOpen, cports, cli>>
  /\ UNCHANGED <<hnd, cauth, reader, srvMap, sports, sauth, saved, sOpen, s2c, conns, ops, faults>>

(* ClientContext.Start: the dial opens connection k at both ends, with    *)
(* the client ends e of the other connections.                             *)
ClientStart(e, k) == cOpen' = [e EXCEPT ![k] = TRUE] /\ sOpen' = [sOpen EXCEPT ![k] = TRUE]

(* ConnectRemote: ClientContext.Start dials a new connection, on which     *)
(* ClientHandler.HandleActive writes MsgAuth; a failed dial returns.  The *)
(* context already stored is stopped and replaced by the new one.         *)
ConnectRemote ==
  /\ ui.step = "connect"
  /\ \/ /\ faults < MaxFaults /\ faults' = faults + 1
        /\ ui' = Idle
        /\ UNCHANGED <<cli, cports, cOpen, sOpen, c2s, conns>>
     \/ /\ conns < MaxConn
        /\ LET k == conns + 1
               q == IF cli # 0 THEN ClientStopQ(cli) ELSE c2s
               e == IF cli # 0 THEN ClientStopEnds(cli) ELSE cOpen
           IN /\ conns' = k /\ cli' = k
              /\ c2s' = [q EXCEPT ![k] = <<HandleActiveAuth>>]
              /\ ClientStart(e, k)
              /\ cports' = IF cli # 0 THEN [cports EXCEPT ![cli] = {}] ELSE cports
              /\ ui' = [ui EXCEPT !.ctx = k, !.step = "authreg"]
        /\ UNCHANGED faults
  /\ UNCHANGED <<hnd, msgResult, cauth, reader, srvMap, sports, sauth, saved, s2c, ops>>

(* WaitAuth stores its channel after Start has returned.                   *)
AuthRegister ==
  /\ ui.step = "authreg"
  /\ msgResult' = [msgResult EXCEPT ![ui.ctx][AuthKey] = ops]
  /\ ui' = [ui EXCEPT !.step = "authwait"]
  /\ UNCHANGED <<cli, hnd, cports, cauth, reader, srvMap, sports, sauth, saved, cOpen, sOpen, c2s, s2c, conns, ops, faults>>

(* WaitAuth returns.  ConnectRemote deletes the clientCtx entry when the   *)
(* registration failed, without stopping the context; on success a port  *)
(* command runs on the context then stored, and GetConnectedPorts reads   *)
(* its local list.                                                         *)
AuthReturn ==
  /\ ui.step = "authret"
  /\ msgResult' = [msgResult EXCEPT ![ui.ctx][AuthKey] = 0]
  /\ IF ui.out = "ok"
     THEN /\ ui' = IF ui.op \in {"connect", "ports"} \/ cli = 0 THEN Idle
                   ELSE [ui EXCEPT !.ctx = cli, !.step = "cmd", !.out = "none"]
          /\ UNCHANGED cli
     ELSE ui' = Idle /\ cli' = 0
  /\ UNCHANGED <<hnd, cports, cauth, reader, srvMap, sports, sauth, saved, cOpen, sOpen, c2s, s2c, conns, ops, faults>>

-----------------------------------------------------------------------------
(* The client read loop of connection j: ClientHandler.processMsg, then    *)
(* PortService.ProcessServerMessage, which looks up the context stored in *)
(* clientCtx whatever connection the frame came on.  An AuthAck also makes *)
(* this connection that context's handler.  A result is sent on the       *)
(* unbuffered channel msgResult holds, and the loop blocks until taken.    *)
ClientRead(j) ==
  LET m == Head(s2c[j])
      Hit == cli # 0 /\ msgResult[cli][AckKey(m)] # 0
  IN /\ cOpen[j] /\ reader[j] = None /\ s2c[j] # <<>>
     /\ s2c' = [s2c EXCEPT ![j] = Tail(@)]
     /\ IF ClientAdmits(j, m)
        THEN /\ cauth' = [cauth EXCEPT ![j] = @ \/ m.t = "AuthAck"]
             /\ hnd' = IF m.t = "AuthAck" /\ cli # 0 THEN [hnd EXCEPT ![cli] = j] ELSE hnd
             /\ reader' = IF Hit
                          THEN [reader EXCEPT ![j] = [ctx |-> cli, key |-> AckKey(m), ok |-> m.ok,
                                                      call |-> msgResult[cli][AckKey(m)]]]
                          ELSE reader
        ELSE UNCHANGED <<cauth, hnd, reader>>
     /\ UNCHANGED <<cli, cports, msgResult, srvMap, sports, sauth, saved, cOpen, sOpen, c2s, ui, conns, ops, faults>>

(* The client end sees the server end closed: HandleInactive closes it.    *)
ClientInactive(j) ==
  /\ cOpen[j] /\ ~sOpen[j] /\ s2c[j] = <<>> /\ reader[j] = None
  /\ cOpen' = [cOpen EXCEPT ![j] = FALSE]
  /\ UNCHANGED <<cli, hnd, cports, msgResult, cauth, reader, srvMap, sports, sauth, saved, sOpen, c2s, s2c, ui, conns, ops, faults>>

(* The client stateCheck: a context that has received nothing for 65 s is *)
(* stopped and deleted.  ProcessServerMessage refreshes clientCtx[peer]'s  *)
(* LastReceive for a frame from any connection to the peer, so the context *)
(* is silent only when its own connection is down or its read loop blocked *)
(* and no other connection whose ClientHandler has auth (it and the server *)
(* end ping each other on ReadIdle) is up with a free read loop.           *)
ClientSilent(x) ==
  \A j \in Conns : ~Up(j) \/ reader[j] # None \/ (j # x /\ ~cauth[j])

ClientStateCheck ==
  /\ cli # 0 /\ ClientSilent(cli)
  /\ c2s' = ClientStopQ(cli) /\ cOpen' = ClientStopEnds(cli)
  /\ cports' = [cports EXCEPT ![cli] = {}] /\ cli' = 0
  /\ UNCHANGED <<hnd, msgResult, cauth, reader, srvMap, sports, sauth, saved, sOpen, s2c, ui, conns, ops, faults>>

(* RuntimeService reports the peer on- or offline: deleteContext.          *)
PeerStateChanged ==
  /\ cli # 0
  /\ cOpen' = DeleteContextEnds(cli)
  /\ cports' = [cports EXCEPT ![cli] = {}] /\ cli' = 0
  /\ UNCHANGED <<hnd, msgResult, cauth, reader, srvMap, sports, sauth, saved, sOpen, c2s, s2c, ui, conns, ops, faults>>

-----------------------------------------------------------------------------
(* The server read loop of connection j: ServerHandler.processMsg, then    *)
(* ProcessClientMessage.  MsgAuth answers AuthAck and stores a new         *)
(* ServerContext over the one stored before; MsgUnAuth stops and removes   *)
(* the stored one; other frames go to the stored one, which answers on its *)
(* own handler.  Open saves the port's configuration whether or not the    *)
(* port opened (needSave: the configuration was sent or none was saved).  *)
ServerPortCmd(i, m) ==
  LET Held == \E i2 \in Conns \ {i} : m.p \in sports[i2]
  IN CASE m.t = "Open" ->
            /\ sports' = [sports EXCEPT ![i] = IF Held THEN @ \ {m.p} ELSE @ \cup {m.p}]
            /\ s2c' = Write(s2c, i, [t |-> "OpenAck", p |-> m.p, ok |-> ~Held])
            /\ saved' = saved \cup {m.p}
       [] m.t = "Close" ->
            /\ sports' = [sports EXCEPT ![i] = @ \ {m.p}]
            /\ s2c' = Write(s2c, i, [t |-> "CloseAck", p |-> m.p, ok |-> TRUE])
            /\ UNCHANGED saved
       [] m.t = "Cfg" ->
            /\ s2c' = IF m.p \in sports[i] \cup saved
                      THEN Write(s2c, i, [t |-> "CfgAck", p |-> m.p, ok |-> TRUE])
                      ELSE s2c
            /\ UNCHANGED <<sports, saved>>
       [] OTHER ->
            /\ s2c' = Write(s2c, i, [t |-> "ListAck", p |-> None, ok |-> TRUE])
            /\ UNCHANGED <<sports, saved>>

ServerRead(j) ==
  LET m == Head(c2s[j]) IN
  /\ sOpen[j] /\ c2s[j] # <<>>
  /\ c2s' = [c2s EXCEPT ![j] = Tail(@)]
  /\ IF m.t = "Auth"
     THEN /\ sauth' = [sauth EXCEPT ![j] = TRUE] /\ SetServerHandle(j)
          /\ s2c' = Write(s2c, j, [t |-> "AuthAck", p |-> None, ok |-> TRUE])
          /\ UNCHANGED <<sports, sOpen, saved>>
     ELSE IF ~ServerAdmits(j, m) \/ srvMap = 0 THEN UNCHANGED <<sauth, saved, srvMap, s2c, sports, sOpen>>
     ELSE IF m.t = "UnAuth"
     THEN RemoveServerHandler /\ UNCHANGED <<sauth, saved, s2c>>
     ELSE ServerPortCmd(srvMap, m) /\ UNCHANGED <<sauth, srvMap, sOpen>>
  /\ UNCHANGED <<cli, hnd, cports, msgResult, cauth, reader, cOpen, ui, conns, ops, faults>>

(* The server end sees the client end closed: HandleInactive closes it;    *)
(* the ServerContext stays in serverCtx.                                   *)
ServerInactive(j) ==
  /\ sOpen[j] /\ ~cOpen[j] /\ c2s[j] = <<>>
  /\ sOpen' = [sOpen EXCEPT ![j] = FALSE]
  /\ UNCHANGED <<cli, hnd, cports, msgResult, cauth, reader, srvMap, sports, sauth, saved, cOpen, c2s, s2c, ui, conns, ops, faults>>

(* The server stateCheck: the stored context has received nothing for 65 s *)
(* (ProcessClientMessage refreshes serverCtx[peer]'s LastReceive for a     *)
(* frame from any authorised connection of the peer, and both ends of an   *)
(* authorised connection ping on ReadIdle): Stop and delete.               *)
ServerSilent == \A j \in Conns : ~(Up(j) /\ sauth[j])

ServerStateCheck ==
  /\ srvMap # 0 /\ ServerSilent
  /\ sports' = ServerStopPorts(srvMap) /\ sOpen' = ServerStopEnds(srvMap)
  /\ srvMap' = 0
  /\ UNCHANGED <<cli, hnd, cports, msgResult, cauth, reader, sauth, saved, cOpen, c2s, s2c, ui, conns, ops, faults>>

(* A connection breaks: both ends see it closed, bytes in flight are lost. *)
Break(j) ==
  /\ Up(j) /\ faults < MaxFaults /\ faults' = faults + 1
  /\ cOpen' = [cOpen EXCEPT ![j] = FALSE] /\ sOpen' = [sOpen EXCEPT ![j] = FALSE]
  /\ c2s' = [c2s EXCEPT ![j] = <<>>] /\ s2c' = [s2c EXCEPT ![j] = <<>>]
  /\ UNCHANGED <<cli, hnd, cports, msgResult, cauth, reader, srvMap, sports, sauth, saved, ui, conns, ops>>

-----------------------------------------------------------------------------
(* Both PortServices started: no context, no connection, no call yet.      *)
Init ==
  /\ cli = 0 /\ srvMap = 0
  /\ hnd = [j \in Conns |-> 0]
  /\ cports = [j \in Conns |-> {}] /\ sports = [j \in Conns |-> {}]
  /\ saved = Saved
  /\ msgResult = [j \in Conns |-> [key \in Keys |-> 0]]
  /\ reader = [j \in Conns |-> None]
  /\ cauth = [j \in Conns |-> FALSE] /\ sauth = [j \in Conns |-> FALSE]
  /\ cOpen = [j \in Conns |-> FALSE] /\ sOpen = [j \in Conns |-> FALSE]
  /\ c2s = [j \in Conns |-> <<>>] /\ s2c = [j \in Conns |-> <<>>]
  /\ ui = Idle /\ conns = 0 /\ ops = 0 /\ faults = 0

UiStep ==
  \/ CmdSend \/ CmdRegister \/ CmdReturn \/ Timeout
  \/ ConnectRemote \/ AuthRegister \/ AuthReturn
  \/ \E j \in Conns : Receive(j)

Next ==
  \/ DisConnectRemote
  \/ \E op \in Ops \ {"disconnect"}, p \in Ports \cup {None} : Call(op, p)
  \/ UiStep
  \/ \E j \in Conns : ClientRead(j) \/ ClientInactive(j) \/ ServerRead(j) \/ ServerInactive(j) \/ Break(j)
  \/ ClientStateCheck \/ ServerStateCheck \/ PeerStateChanged

(* The UI goroutine, the timers, both read loops and both stateCheck       *)
(* loops run; what the user calls, the peer directory and the network do  *)
(* is not assumed.                                                         *)
Fairness ==
  /\ WF_vars(UiStep)
  /\ \A j \in Conns : WF_vars(ClientRead(j)) /\ WF_vars(ServerRead(j))
                      /\ WF_vars(ClientInactive(j)) /\ WF_vars(ServerInactive(j))
  /\ WF_vars(ClientStateCheck) /\ WF_vars(ServerStateCheck)

Spec == Init /\ [][Next]_vars /\ Fairness

-----------------------------------------------------------------------------
(* A remote port the local ClientContext has paired with a local serial   *)
(* port (portCtx after an OpenPortAck) is, or eventually becomes, held     *)
(* open by the ServerContext the remote PortService has stored, unless the *)
(* local side gives the pairing up (ClosePort, or the context stopped by   *)
(* stateCheck, deleteContext, ConnectRemote or DisConnectRemote): serial   *)
(* data the user sends reaches the port it opened.  ProcessClientMessage  *)
(* stores the ServerContext of whichever connection's MsgAuth it read      *)
(* last, and both stateCheck loops count a ping from any connection of the *)
(* peer as life, so a late MsgAuth on a connection the client already      *)
(* closed can leave the stored context and the one holding the port apart *)
(* for good.                                                               *)
PairedPortsHeld ==
  \A p \in Ports :
    (cli # 0 /\ p \in cports[cli])
      ~> (cli = 0 \/ p \notin cports[cli] \/ (srvMap # 0 /\ p \in sports[srvMap]))

(* Every serial port the remote PortService holds open belongs to the      *)
(* ServerContext stored in serverCtx, so stateCheck, UnAuth or a later     *)
(* deleteContext can still close it.                                       *)
OrphanFree == \A k \in Conns : sports[k] # {} => srvMap = k

====
