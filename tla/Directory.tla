----------------------------- MODULE Directory -----------------------------
(***************************************************************************)
(* The peer directory of RuntimeService (src/service/runtime_service.go): *)
(* groupPeers and groupPeerCookie, refreshed by SendGroupPeersRequest and  *)
(* ProcessGroupPeersResponse and updated by ProcessPeerStateChanged; and   *)
(* the link-info cache of one queried peer: GetLinkInfos, the peer's       *)
(* ProcessPeerLinksRequest and ProcessPeerLinksResponse.                   *)
(*                                                                         *)
(* The server keeps the truth (which member is online), answers every      *)
(* request with one page per member tagged with a fresh cookie, and sends  *)
(* StateChanged when a member goes on- or offline.  Datagrams from the     *)
(* server travel in order unless Reorder is TRUE, and may be lost within   *)
(* the budget MaxFaults.                                                   *)
(***************************************************************************)
EXTENDS Naturals, Sequences, SequencesExt

CONSTANTS
  Peers,       \* the other members of the group
  MaxReq,      \* directory requests in one behaviour: model bound
  MaxChanges,  \* presence changes at the server: model bound
  MaxFaults,   \* lost datagrams: model bound
  Reorder,     \* whether the server's datagrams may overtake each other
  Pages,       \* pages of 50 entries in the queried peer's link listing
  MaxPolls,    \* GetLinkInfos' 15 polls of 100 ms, scaled down
  MaxLinkReq,  \* GetLinkInfos calls in one behaviour: model bound
  MaxSec       \* seconds that pass in one behaviour: model bound

ASSUME MaxReq \in Nat /\ MaxChanges \in Nat /\ MaxFaults \in Nat /\ Reorder \in BOOLEAN
ASSUME Pages \in Nat \ {0} /\ MaxPolls \in Nat \ {0} /\ MaxLinkReq \in Nat /\ MaxSec \in Nat

VARIABLES
  groupPeers,       \* RuntimeService.groupPeers: peer -> "absent", "online", "offline"
  groupPeerCookie,  \* RuntimeService.groupPeerCookie (0 before the first response)
  truth,            \* the server's view: peer -> online?
  reqs,             \* requests in flight to the server (by cookie)
  down,             \* datagrams from the server, in sending order
  sent,             \* requests made
  changes,          \* presence changes made
  faults,
  linkInfos,        \* r.linkInfos[mac]: the cached pages (<<>> when deleted)
  linkCookie,       \* r.linkInfoReqCookie[mac] (0 before any page)
  sec,              \* the wall clock's seconds, which seed the responder's cookie
  lq,               \* the UI's GetLinkInfos call: place, polls, last length, result
  lreqs,            \* PeerLinksRequests in flight to the queried peer
  ldown             \* PeerLinksResponse pages in flight back, in sending order

dir == <<groupPeers, groupPeerCookie, truth, reqs, down, sent, changes>>
link == <<linkInfos, linkCookie, sec, lq, lreqs, ldown>>
vars == <<groupPeers, groupPeerCookie, truth, reqs, down, sent, changes, faults,
          linkInfos, linkCookie, sec, lq, lreqs, ldown>>

Entry == {"absent", "online", "offline"}
Status(on) == IF on THEN "online" ELSE "offline"

(* A GroupPeersResponse page with one PeerInfo, or a StateChanged (cookie 0). *)
Msg == [kind : {"page", "state"}, cookie : 0 .. MaxReq, peer : Peers, on : BOOLEAN]

(* A PeerLinksResponse page: its cookie and its place in the listing.     *)
Page == [ck : 1 .. MaxSec + 1, pg : 1 .. Pages]
LinkCall == [pc : {"idle", "poll", "done"}, count : 0 .. MaxPolls, last : 0 .. Pages * MaxLinkReq,
             res : Seq(Page), n : 0 .. MaxLinkReq]

TypeOK ==
  /\ groupPeers \in [Peers -> Entry]
  /\ groupPeerCookie \in 0 .. MaxReq
  /\ truth \in [Peers -> BOOLEAN]
  /\ reqs \subseteq 1 .. MaxReq
  /\ down \in Seq(Msg)
  /\ sent \in 0 .. MaxReq /\ changes \in 0 .. MaxChanges /\ faults \in 0 .. MaxFaults
  /\ linkInfos \in Seq(Page) /\ linkCookie \in 0 .. MaxSec + 1 /\ sec \in 0 .. MaxSec
  /\ lq \in LinkCall /\ lreqs \in 0 .. MaxLinkReq /\ ldown \in Seq(Page)

(* The positions of a queue from the server the client may read next.     *)
Deliverable(q) == IF Reorder THEN DOMAIN q ELSE (IF q = <<>> THEN {} ELSE {1})

-----------------------------------------------------------------------------
(* common.ClearMap: every entry deleted.                                    *)
ClearMap == [p \in Peers |-> "absent"]

(* SendGroupPeersRequest, with the session at ConnOk or above and a server *)
(* handler: ClearMap(groupPeers), then send the request.                   *)
SendGroupPeersRequest ==
  /\ sent < MaxReq
  /\ sent' = sent + 1
  /\ groupPeers' = ClearMap
  /\ reqs' = reqs \cup {sent + 1}
  /\ UNCHANGED <<groupPeerCookie, truth, down, changes, faults>>
  /\ UNCHANGED link

(* The server answers a request with its current view, one page per peer, *)
(* all pages carrying the request's cookie.                                *)
ServerRespond(k) ==
  /\ k \in reqs
  /\ reqs' = reqs \ {k}
  /\ \E order \in SetToSeqs(Peers) :
       down' = down \o [i \in 1 .. Len(order) |->
                          [kind |-> "page", cookie |-> k, peer |-> order[i], on |-> truth[order[i]]]]
  /\ UNCHANGED <<groupPeers, groupPeerCookie, truth, sent, changes, faults>>
  /\ UNCHANGED link

(* A member goes on- or offline; the server tells the group.               *)
ServerPeerChange(p) ==
  /\ changes < MaxChanges
  /\ changes' = changes + 1
  /\ truth' = [truth EXCEPT ![p] = ~@]
  /\ down' = Append(down, [kind |-> "state", cookie |-> 0, peer |-> p, on |-> ~truth[p]])
  /\ UNCHANGED <<groupPeers, groupPeerCookie, reqs, sent, faults>>
  /\ UNCHANGED link

(* Mutant: the cookie test dropped, every page starts a new directory.     *)
NewCookieAlways(c) == TRUE

(* ProcessGroupPeersResponse's test: the cookie differs from the last one. *)
NewCookie(c) == c # groupPeerCookie

(* ProcessGroupPeersResponse: a new cookie clears the directory and is     *)
(* adopted; the page's PeerInfo is stored.                                 *)
ProcessGroupPeersResponse(m) ==
  LET base == IF NewCookie(m.cookie) THEN ClearMap ELSE groupPeers
  IN /\ groupPeers' = [base EXCEPT ![m.peer] = Status(m.on)]
     /\ groupPeerCookie' = m.cookie

(* ProcessPeerStateChanged: online stores the PeerInfo; offline marks a    *)
(* known entry offline and leaves an unknown one absent.                   *)
ProcessPeerStateChanged(m) ==
  /\ groupPeers' =
       IF m.on THEN [groupPeers EXCEPT ![m.peer] = "online"]
       ELSE IF groupPeers[m.peer] = "absent" THEN groupPeers
       ELSE [groupPeers EXCEPT ![m.peer] = "offline"]
  /\ UNCHANGED groupPeerCookie

(* HandleRead dispatches the next datagram to its processMsg branch.       *)
Receive(i) ==
  /\ i \in Deliverable(down)
  /\ down' = RemoveAt(down, i)
  /\ IF down[i].kind = "page" THEN ProcessGroupPeersResponse(down[i])
     ELSE ProcessPeerStateChanged(down[i])
  /\ UNCHANGED <<truth, reqs, sent, changes, faults>>
  /\ UNCHANGED link

(* A datagram is lost.                                                     *)
Lose(i) ==
  /\ i \in DOMAIN down /\ faults < MaxFaults
  /\ faults' = faults + 1
  /\ down' = RemoveAt(down, i)
  /\ UNCHANGED <<groupPeers, groupPeerCookie, truth, reqs, sent, changes>>
  /\ UNCHANGED link

(* SendPeerLinksRequest, with the session at ConnOk or above and a server *)
(* handler: the request goes to the queried peer through the server.       *)
SendPeerLinksRequest == lreqs' = lreqs + 1

(* GetLinkInfos: delete(r.linkInfos, mac) under linkMutex, then            *)
(* SendPeerLinksRequest; the UI call then polls.  The UI makes its next call once the  *)
(* previous one returned.                                                  *)
GetLinkInfos ==
  /\ lq.pc # "poll" /\ lq.n < MaxLinkReq
  /\ linkInfos' = <<>>
  /\ SendPeerLinksRequest
  /\ lq' = [pc |-> "poll", count |-> 0, last |-> 0, res |-> <<>>, n |-> lq.n + 1]
  /\ UNCHANGED <<dir, faults, linkCookie, sec, ldown>>

(* One pass of GetLinkInfos' loop: sleep, count, read len(r.linkInfos[mac]) *)
(* without the lock; return the cached listing when a nonzero length is    *)
(* the one the previous pass saw, and nil after the last pass.             *)
LinkPoll ==
  /\ lq.pc = "poll"
  /\ LET cur == Len(linkInfos)
         c == lq.count + 1
     IN lq' = IF cur > 0 /\ lq.last = cur
              THEN [lq EXCEPT !.pc = "done", !.count = c, !.res = linkInfos]
              ELSE IF c = MaxPolls
              THEN [lq EXCEPT !.pc = "done", !.count = c, !.res = <<>>]
              ELSE [lq EXCEPT !.count = c, !.last = IF cur > 0 THEN cur ELSE @]
  /\ UNCHANGED <<dir, faults, linkInfos, linkCookie, sec, lreqs, ldown>>

(* ProcessPeerLinksRequest at the queried peer: rand.Seed(now in seconds) *)
(* then cookie = rand.Uint32() + 1, so responses made within one second    *)
(* share their cookie; the ARP entries of its segment go back in pages of  *)
(* 50, each a PeerLinksResponse with that cookie.                           *)
ProcessPeerLinksRequest ==
  /\ lreqs > 0
  /\ lreqs' = lreqs - 1
  /\ ldown' = ldown \o [i \in 1 .. Pages |-> [ck |-> sec + 1, pg |-> i]]
  /\ UNCHANGED <<dir, faults, linkInfos, linkCookie, sec, lq>>

(* A second passes.                                                         *)
Tick ==
  /\ sec < MaxSec
  /\ sec' = sec + 1
  /\ UNCHANGED <<dir, faults, linkInfos, linkCookie, lq, lreqs, ldown>>

(* ProcessPeerLinksResponse under linkMutex: a cookie other than the one  *)
(* stored (or none stored) is stored and the page replaces the listing;   *)
(* the same cookie appends the page.                                       *)
ProcessPeerLinksResponse(m) ==
  IF m.ck # linkCookie
  THEN linkCookie' = m.ck /\ linkInfos' = <<m>>
  ELSE linkInfos' = Append(linkInfos, m) /\ UNCHANGED linkCookie

(* HandleRead dispatches the next link page to ProcessPeerLinksResponse.   *)
ReceiveLinks(i) ==
  /\ i \in Deliverable(ldown)
  /\ ldown' = RemoveAt(ldown, i)
  /\ ProcessPeerLinksResponse(ldown[i])
  /\ UNCHANGED <<dir, faults, sec, lq, lreqs>>

(* A link page is lost.                                                     *)
LoseLink(i) ==
  /\ i \in DOMAIN ldown /\ faults < MaxFaults
  /\ faults' = faults + 1
  /\ ldown' = RemoveAt(ldown, i)
  /\ UNCHANGED <<dir, linkInfos, linkCookie, sec, lq, lreqs>>

-----------------------------------------------------------------------------
Init ==
  /\ groupPeers = [p \in Peers |-> "absent"]
  /\ groupPeerCookie = 0
  /\ truth \in [Peers -> BOOLEAN]
  /\ reqs = {} /\ down = <<>>
  /\ sent = 0 /\ changes = 0 /\ faults = 0
  /\ linkInfos = <<>> /\ linkCookie = 0 /\ sec = 0
  /\ lq = [pc |-> "idle", count |-> 0, last |-> 0, res |-> <<>>, n |-> 0]
  /\ lreqs = 0 /\ ldown = <<>>

Next ==
  \/ SendGroupPeersRequest
  \/ \E k \in reqs : ServerRespond(k)
  \/ \E p \in Peers : ServerPeerChange(p)
  \/ \E i \in DOMAIN down : Receive(i) \/ Lose(i)
  \/ GetLinkInfos \/ LinkPoll \/ ProcessPeerLinksRequest \/ Tick
  \/ \E i \in DOMAIN ldown : ReceiveLinks(i) \/ LoseLink(i)

Spec == Init /\ [][Next]_vars

-----------------------------------------------------------------------------
(* Spec section 4.2: the cookie prevents stale partial merges, so once     *)
(* every request is answered and every datagram read without loss, the     *)
(* directory shows each member as the server does.  Several pages of one  *)
(* response must merge (same cookie), a newer response must replace an     *)
(* older one, and StateChanged must apply on top.                          *)
DirectoryCurrent ==
  (sent > 0 /\ reqs = {} /\ down = <<>> /\ faults = 0)
    => \A p \in Peers : groupPeers[p] = Status(truth[p])
====
