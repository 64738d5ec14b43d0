-------------------------- MODULE OrderMatchProofs --------------------------
(***************************************************************************)
(* The properties of OrderMatch for every set of orders, offers, requests  *)
(* and nodes: the inductive invariant of OrderMatchLemmas is kept by every *)
(* step, and implies them.                                                 *)
(***************************************************************************)
EXTENDS OrderMatchLemmas

-----------------------------------------------------------------------------
(* Requests and answers.                                                    *)

\* The answers stay the same, the walks get shorter.
LEMMA AnswersKept ==
    ASSUME AnswerInv, Answers' = Answers,
           \A n \in Nodes, t \in Takers : walk'[n][t] \subseteq walk[n][t],
           \A n \in Nodes : seen[n] \subseteq seen'[n],
           \A t \in Takers : \A r \in pending'[t] : r \in pending[t] \/ (r \in Answers /\ r.taker = t),
           TypeOK
    PROVE  AnswerInv'
<1>1. ASSUME NEW n \in Nodes, NEW t \in Takers, NEW o \in walk'[n][t]
      PROVE  NodeOf[o] = n /\ RequestMsg(t) \in seen'[n]
  <2>1. o \in walk[n][t]
    BY Zenon
  <2>2. NodeOf[o] = n /\ RequestMsg(t) \in seen[n]
    BY Zenon, <2>1 DEF AnswerInv, WalkInv
  <2>3. QED
    BY Zenon, <2>2
<1>2. \A r \in Answers : RequestMsg(r.taker) \in seen'[NodeOf[r.order]] /\ walk'[NodeOf[r.order]][r.taker] = {}
  <2>1. ASSUME NEW r \in Answers
        PROVE  RequestMsg(r.taker) \in seen'[NodeOf[r.order]] /\ walk'[NodeOf[r.order]][r.taker] = {}
    <3>1. r.taker \in Takers /\ NodeOf[r.order] \in Nodes
      BY Zenon, AnswerTypes, Homes
    <3>2. RequestMsg(r.taker) \in seen[NodeOf[r.order]] /\ walk[NodeOf[r.order]][r.taker] = {}
      BY Zenon DEF AnswerInv, WalkedInv
    <3>3. QED
      BY Zenon, <3>1, <3>2
  <2>2. QED
    BY Zenon, <2>1
<1>3. \A t \in Takers : \A r \in pending'[t] : r \in Answers /\ r.taker = t
  BY Zenon DEF AnswerInv, PendingInv
<1>4. WalkInv' /\ WalkedInv' /\ PendingInv'
  BY Zenon, <1>1, <1>2, <1>3 DEF WalkInv, WalkedInv, PendingInv
<1>5. OneAnswer'
  BY Zenon DEF AnswerInv, OneAnswer
<1>6. QED
  BY Zenon, <1>4, <1>5 DEF AnswerInv

\* The answers that are pending.
LEMMA PendingEffect ==
    ASSUME TypeOK, NEW t \in Takers, TakerOnly(t)
    PROVE  \A u \in Takers : \A r \in pending'[u] : r \in pending[u] \/ (r \in Answers /\ r.taker = u)
<1>1. ASSUME NEW msg \in sent, ProcessMakerReserved(t, msg)
      PROVE  \A u \in Takers : \A r \in pending'[u] : r \in pending[u] \/ (r \in Answers /\ r.taker = u)
  <2>1. pending' = [pending EXCEPT ![t] = @ \union {msg}] /\ msg \in Answers /\ msg.taker = t
    BY Zenon, <1>1 DEF ProcessMakerReserved, Answers
  <2>2. QED
    BY Zenon, <2>1 DEF TypeOK
<1>2. CASE pending' = pending
  BY Zenon, <1>2
<1>3. CASE pending' = [pending EXCEPT ![t] = {}]
  BY Zenon, <1>3 DEF TypeOK
<1>4. QED
  BY Zenon, <1>1, <1>2, <1>3 DEF TakerOnly, LpAutoBuy, SelectReserved, ProcessMakerConnected, TimedOutTakerOrder,
     CancelTakerOrder

\* A request is answered: the walk it ends is over, and there was no answer before.
LEMMA AnswersGrow ==
    ASSUME AnswerInv, TypeOK, NEW t \in Takers, NEW o \in AllOrders, NEW msg,
           o \in walk[NodeOf[o]][t], walk' = [walk EXCEPT ![NodeOf[o]][t] = {}],
           Answers' = Answers \union {msg}, msg.order = o, msg.taker = t, UNCHANGED <<seen, pending>>
    PROVE  AnswerInv'
<1>0. NodeOf[o] \in Nodes
  BY Zenon, Homes
<1>1. walk'[NodeOf[o]][t] = {} /\ \A n \in Nodes, u \in Takers : walk'[n][u] \subseteq walk[n][u]
  BY Zenon, <1>0 DEF TypeOK
<1>2. RequestMsg(t) \in seen[NodeOf[o]]
  BY Zenon, <1>0 DEF AnswerInv, WalkInv
<1>3. \A r \in Answers : ~(r.taker = t /\ NodeOf[r.order] = NodeOf[o])
  BY Zenon DEF AnswerInv, WalkedInv
<1>4. \A n \in Nodes, u \in Takers : \A p \in walk'[n][u] : NodeOf[p] = n /\ RequestMsg(u) \in seen[n]
  BY Zenon, <1>1 DEF AnswerInv, WalkInv
<1>5. \A r \in Answers : RequestMsg(r.taker) \in seen[NodeOf[r.order]] /\ walk'[NodeOf[r.order]][r.taker] = {}
  <2>1. ASSUME NEW r \in Answers PROVE walk'[NodeOf[r.order]][r.taker] = {}
    <3>1. r.taker \in Takers /\ NodeOf[r.order] \in Nodes
      BY Zenon, AnswerTypes, Homes
    <3>2. walk[NodeOf[r.order]][r.taker] = {}
      BY Zenon DEF AnswerInv, WalkedInv
    <3>3. QED
      BY Zenon, <1>1, <3>1, <3>2
  <2>2. QED
    BY Zenon, <2>1 DEF AnswerInv, WalkedInv
<1>6. \A r, q \in Answers' : r.taker = q.taker /\ NodeOf[r.order] = NodeOf[q.order] => r = q
  <2>1. \A r \in Answers' : r \in Answers \/ r = msg
    BY Zenon
  <2>2. QED
    BY ZenonT(40), <1>3, <2>1 DEF AnswerInv, OneAnswer
<1>7. \A r \in Answers' : RequestMsg(r.taker) \in seen'[NodeOf[r.order]] /\ walk'[NodeOf[r.order]][r.taker] = {}
  BY Zenon, <1>1, <1>2, <1>5
<1>8. \A u \in Takers : \A r \in pending'[u] : r \in Answers' /\ r.taker = u
  BY Zenon DEF AnswerInv, PendingInv
<1>9. \A n \in Nodes, u \in Takers : \A p \in walk'[n][u] : NodeOf[p] = n /\ RequestMsg(u) \in seen'[n]
  BY Zenon, <1>4
<1>10. WalkInv' /\ WalkedInv' /\ PendingInv' /\ OneAnswer'
  BY Zenon, <1>6, <1>7, <1>8, <1>9 DEF WalkInv, WalkedInv, PendingInv, OneAnswer
<1>11. QED
  BY Zenon, <1>10 DEF AnswerInv

\* A node takes the orders of a request it sees for the first time.
LEMMA WalkBegins ==
    ASSUME AnswerInv, TypeOK, NEW n \in Nodes, NEW t \in Takers, TakeOrders(n, t)
    PROVE  AnswerInv'
<1>1. PICK own : /\ own = {o \in request[t].by : NodeOf[o] = n /\ order[o].live}
                 /\ walk' = [walk EXCEPT ![n][t] = own]
  BY Zenon DEF TakeOrders
<1>2. \A o \in own : NodeOf[o] = n
  BY Zenon, <1>1
<1>3. walk'[n][t] = own /\ \A k \in Nodes, u \in Takers : k # n \/ u # t => walk'[k][u] = walk[k][u]
  BY Zenon, <1>1 DEF TypeOK
<1>4. /\ \A k \in Nodes : seen[k] \subseteq seen'[k]
      /\ RequestMsg(t) \in seen'[n] /\ RequestMsg(t) \notin seen[n]
  BY Zenon, HandleType DEF TakeOrders
<1>5. Answers' = Answers /\ pending' = pending
  BY Zenon DEF TakeOrders, Answers, takerVars
<1>6. ASSUME NEW k \in Nodes, NEW u \in Takers, NEW p \in walk'[k][u]
      PROVE  NodeOf[p] = k /\ RequestMsg(u) \in seen'[k]
  <2>1. CASE k = n /\ u = t
    BY Zenon, <1>2, <1>3, <1>4, <2>1
  <2>2. CASE k # n \/ u # t
    <3>1. p \in walk[k][u]
      BY Zenon, <1>3, <2>2
    <3>2. NodeOf[p] = k /\ RequestMsg(u) \in seen[k]
      BY Zenon, <3>1 DEF AnswerInv, WalkInv
    <3>3. QED
      BY Zenon, <1>4, <3>2
  <2>3. QED
    BY Zenon, <2>1, <2>2
<1>7. ASSUME NEW r \in Answers
      PROVE  RequestMsg(r.taker) \in seen'[NodeOf[r.order]] /\ walk'[NodeOf[r.order]][r.taker] = {}
  <2>1. r.taker \in Takers /\ NodeOf[r.order] \in Nodes
    BY Zenon, AnswerTypes, Homes
  <2>2. RequestMsg(r.taker) \in seen[NodeOf[r.order]] /\ walk[NodeOf[r.order]][r.taker] = {}
    BY Zenon DEF AnswerInv, WalkedInv
  <2>3. QED
    BY Zenon, <1>3, <1>4, <2>1, <2>2
<1>8. WalkInv' /\ WalkedInv'
  BY Zenon, <1>5, <1>6, <1>7 DEF WalkInv, WalkedInv
<1>9. OneAnswer' /\ PendingInv'
  BY Zenon, <1>5 DEF AnswerInv, OneAnswer, PendingInv
<1>10. QED
  BY Zenon, <1>8, <1>9 DEF AnswerInv

\* process_taker_request answers a request once.
LEMMA AnswerStep == ASSUME TypeOK, AnswerInv, Next PROVE AnswerInv'
<1>0. \A n \in Nodes : seen[n] \subseteq seen[n]
  BY Zenon
<1>1. ASSUME NEW t \in Takers, TakerOnly(t) PROVE AnswerInv'
  <2>1. Answers' = Answers /\ walk' = walk /\ \A k \in Nodes : seen[k] \subseteq seen'[k]
    BY Zenon, <1>1, TakerFrame, TakerEffect
  <2>2. \A u \in Takers : \A r \in pending'[u] : r \in pending[u] \/ (r \in Answers /\ r.taker = u)
    BY Zenon, <1>1, PendingEffect
  <2>3. QED
    BY Zenon, <2>1, <2>2, AnswersKept
<1>2. CASE (\E t \in Takers : Stores(t)) \/ (\E o \in AllOrders : OrderOnlyStep(o))
  <2>1. UNCHANGED <<walk, pending, sent, seen>>
    BY Zenon, <1>2, OrderFrame, StoresFrame DEF netVars, takerVars
  <2>2. Answers' = Answers
    BY Zenon, <2>1 DEF Answers
  <2>3. (\A n \in Nodes, t \in Takers : walk'[n][t] \subseteq walk[n][t])
        /\ (\A n \in Nodes : seen[n] \subseteq seen'[n])
        /\ \A t \in Takers : \A r \in pending'[t] : r \in pending[t]
    BY Zenon, <2>1
  <2>4. QED
    BY Zenon, <2>2, <2>3, AnswersKept
<1>3. ASSUME NEW t \in Takers, NEW o \in AllOrders, PassOver(NodeOf[o], t, o) PROVE AnswerInv'
  <2>1. walk' = [walk EXCEPT ![NodeOf[o]][t] = @ \ {o}] /\ UNCHANGED <<sent, seen, pending>>
    BY Zenon, <1>3 DEF PassOver, netVars, takerVars
  <2>2. \A n \in Nodes, u \in Takers : walk'[n][u] \subseteq walk[n][u]
    BY Zenon, <2>1, Homes DEF TypeOK
  <2>3. QED
    BY Zenon, <1>0, <2>1, <2>2, AnswersKept DEF Answers
<1>4. ASSUME NEW t \in Takers, NEW o \in AllOrders, ProcessTakerRequest(NodeOf[o], t, o) PROVE AnswerInv'
  <2>1. /\ o \in walk[NodeOf[o]][t] /\ walk' = [walk EXCEPT ![NodeOf[o]][t] = {}] /\ UNCHANGED <<seen, pending>>
    BY Zenon, <1>4 DEF ProcessTakerRequest, takerVars
  <2>2. CASE UNCHANGED sent
    <3>1. \A n \in Nodes, u \in Takers : walk'[n][u] \subseteq walk[n][u]
      BY Zenon, <2>1, Homes DEF TypeOK
    <3>2. QED
      BY Zenon, <1>0, <2>1, <2>2, <3>1, AnswersKept DEF Answers
  <2>3. ASSUME NEW m \in Match, NEW msg \in Message, Reserves(NodeOf[o], t, o, m, msg) PROVE AnswerInv'
    BY Zenon, <2>1, <2>3, AnswersGrow DEF Reserves
  <2>4. QED
    BY Zenon, <1>4, <2>2, <2>3, RequestEffect
<1>5. ASSUME NEW t \in Takers, NEW o \in AllOrders, TakeOrder(t, o) PROVE AnswerInv'
  <2>1. UNCHANGED <<walk, pending, sent>>
    BY Zenon, <1>5 DEF TakeOrder, takerVars
  <2>2. \A n \in Nodes : seen[n] \subseteq seen'[n]
    BY Zenon, <1>5, Homes, HandleType DEF TakeOrder
  <2>3. QED
    BY Zenon, <2>1, <2>2, AnswersKept DEF Answers
<1>6. ASSUME NEW t \in Takers, NEW o \in AllOrders, ProcessTakerConnect(t, o) PROVE AnswerInv'
  <2>1. UNCHANGED <<walk, pending, seen>>
    BY Zenon, <1>6 DEF ProcessTakerConnect, takerVars
  <2>2. QED
    BY Zenon, <1>0, <1>6, <2>1, ConnectEffect, AnswersKept
<1>7. ASSUME NEW n \in Nodes, CrashRestart(n) PROVE AnswerInv'
  <2>1. \A k \in Nodes, t \in Takers : walk'[k][t] \subseteq walk[k][t]
    BY Zenon, <1>7 DEF CrashRestart, TypeOK
  <2>2. \A t \in Takers : \A r \in pending'[t] : r \in pending[t]
    BY Zenon, <1>7 DEF CrashRestart, TypeOK
  <2>3. UNCHANGED <<sent, seen>>
    BY Zenon, <1>7 DEF CrashRestart, netVars
  <2>4. QED
    BY Zenon, <1>0, <2>1, <2>2, <2>3, AnswersKept DEF Answers
<1>8. QED
  BY Zenon, <1>1, <1>2, <1>3, <1>4, <1>5, <1>6, <1>7, NextCases, WalkBegins
-----------------------------------------------------------------------------
(* What is sent, and who starts a swap.                                     *)

\* The taker connects to answer r: what process_maker_reserved leaves behind.
Selects(t, r) ==
    /\ taker[t].live /\ taker[t].matches = {} /\ r \in pending[t] /\ match_reserved(request[t], r)
    /\ sent' = sent \union {ConnectMsg(t, r.order)}
    /\ taker' = [taker EXCEPT ![t].matches = @ \union {Swap(r.order, t, r)}]
    /\ takerBusy' = [takerBusy EXCEPT ![t] = "save"]
    /\ takerSwaps' = takerSwaps /\ budget' = budget

\* process_maker_reserved connects to one answer or to none.
LEMMA SelectEffect ==
    ASSUME NEW t \in Takers, SelectReserved(t)
    PROVE  UNCHANGED <<taker, takerBusy, sent, takerSwaps, budget, seen>> \/ \E r \in pending[t] : Selects(t, r)
<1>1. UNCHANGED <<takerSwaps, budget, seen>>
  BY Zenon DEF SelectReserved, history
<1>2. ASSUME NEW r \in Acceptable(t) PROVE r \in pending[t] /\ match_reserved(request[t], r) /\ taker[t].matches = {}
  BY Zenon DEF Acceptable
<1>3. QED
  BY Zenon, <1>1, <1>2 DEF SelectReserved, Selects

\* Who broadcasts what.
LEMMA SentEffect ==
    ASSUME TypeOK, AnswerInv, Next
    PROVE  \/ sent' = sent /\ makerSwaps' = makerSwaps
           \/ \E t \in Takers : sent' = sent \union {RequestMsg(t)} /\ makerSwaps' = makerSwaps
           \/ \E t \in Takers : \E r \in pending[t] : Selects(t, r) /\ makerSwaps' = makerSwaps /\ connecting' = connecting
           \/ \E msg : msg.kind = "reserved" /\ sent' = sent \union {msg} /\ makerSwaps' = makerSwaps
           \/ \E t \in Takers, o \in AllOrders, m \in Match : Connects(t, o, m) /\ <<t, o>> \in connecting
<1>1. ASSUME NEW t \in Takers, TakerOnly(t)
      PROVE  \/ sent' = sent /\ makerSwaps' = makerSwaps
             \/ sent' = sent \union {RequestMsg(t)} /\ makerSwaps' = makerSwaps
             \/ \E r \in pending[t] : Selects(t, r) /\ makerSwaps' = makerSwaps /\ connecting' = connecting
  <2>1. makerSwaps' = makerSwaps /\ connecting' = connecting
    BY Zenon, <1>1, TakerFrame
  <2>2. CASE LpAutoBuy(t)
    BY Zenon, <2>1, <2>2 DEF LpAutoBuy
  <2>3. CASE SelectReserved(t)
    BY Zenon, <2>1, <2>3, SelectEffect
  <2>4. CASE ~LpAutoBuy(t) /\ ~SelectReserved(t)
    BY Zenon, <1>1, <2>1, <2>4 DEF TakerOnly, ProcessMakerReserved, ProcessMakerConnected, TimedOutTakerOrder,
       CancelTakerOrder, netVars
  <2>5. QED
    BY Zenon, <2>2, <2>3, <2>4
<1>2. CASE \/ \E t \in Takers : Stores(t)
           \/ \E t \in Takers, n \in Nodes : TakeOrders(n, t)
           \/ \E t \in Takers, o \in AllOrders : PassOver(NodeOf[o], t, o)
           \/ \E t \in Takers, o \in AllOrders : TakeOrder(t, o)
           \/ \E n \in Nodes : CrashRestart(n)
  BY Zenon, <1>2, StoresFrame DEF TakeOrders, PassOver, TakeOrder, CrashRestart, netVars, history
<1>3. CASE \E o \in AllOrders : OrderOnlyStep(o)
  BY Zenon, <1>3, OrderFrame DEF netVars
<1>4. ASSUME NEW t \in Takers, NEW o \in AllOrders, ProcessTakerRequest(NodeOf[o], t, o)
      PROVE  \/ sent' = sent /\ makerSwaps' = makerSwaps
             \/ \E msg : msg.kind = "reserved" /\ sent' = sent \union {msg} /\ makerSwaps' = makerSwaps
  <2>1. makerSwaps' = makerSwaps
    BY Zenon, <1>4 DEF ProcessTakerRequest, history
  <2>2. QED
    BY Zenon, <1>4, <2>1, RequestEffect DEF Reserves
<1>5. ASSUME NEW t \in Takers, NEW o \in AllOrders, ProcessTakerConnect(t, o)
      PROVE  \/ sent' = sent /\ makerSwaps' = makerSwaps
             \/ \E m \in Match : Connects(t, o, m) /\ <<t, o>> \in connecting
  BY Zenon, <1>5, ConnectEffect DEF ProcessTakerConnect
<1>6. QED
  BY Zenon, <1>1, <1>2, <1>3, <1>4, <1>5, NextCases

\* Nothing is unsaid; what is new says who sent it.
LEMMA SentGrows ==
    ASSUME TypeOK, AnswerInv, Next
    PROVE  /\ sent \subseteq sent' /\ Answers \subseteq Answers'
           /\ \A t \in Takers, o \in AllOrders : ConnectMsg(t, o) \in sent' =>
                ConnectMsg(t, o) \in sent \/ \E r \in pending[t] : r.order = o /\ Selects(t, r)
           /\ \A t \in Takers, o \in AllOrders : ConnectedMsg(o, t) \in sent' =>
                ConnectedMsg(o, t) \in sent \/ \E m \in Match : Connects(t, o, m)
<1>0. /\ "connect" # "request" /\ "connect" # "reserved"
      /\ "connected" # "request" /\ "connected" # "reserved"
  BY Zenon
<1>1. \/ sent' = sent
      \/ \E msg : sent' = sent \union {msg} /\ (msg.kind = "request" \/ msg.kind = "reserved")
      \/ \E t \in Takers : \E r \in pending[t] : Selects(t, r)
      \/ \E t \in Takers, o \in AllOrders, m \in Match : Connects(t, o, m)
  <2>1. \A t : RequestMsg(t).kind = "request"
    BY Zenon DEF RequestMsg
  <2>2. QED
    BY Zenon, SentEffect, <2>1
<1>2. sent \subseteq sent'
  BY ZenonT(40), <1>1 DEF Selects, Connects
<1>3. Answers \subseteq Answers'
  BY Zenon, <1>2 DEF Answers
<1>4. ASSUME NEW t \in Takers, NEW o \in AllOrders
      PROVE  /\ ConnectMsg(t, o) \in sent' =>
                  ConnectMsg(t, o) \in sent \/ \E r \in pending[t] : r.order = o /\ Selects(t, r)
             /\ ConnectedMsg(o, t) \in sent' =>
                  ConnectedMsg(o, t) \in sent \/ \E m \in Match : Connects(t, o, m)
  <2>1. CASE sent' = sent
    BY Zenon, <2>1
  <2>2. ASSUME NEW msg, sent' = sent \union {msg}, msg.kind = "request" \/ msg.kind = "reserved"
        PROVE  /\ ConnectMsg(t, o) \in sent' => ConnectMsg(t, o) \in sent
               /\ ConnectedMsg(o, t) \in sent' => ConnectedMsg(o, t) \in sent
    <3>1. ConnectMsg(t, o).kind = "connect" /\ ConnectedMsg(o, t).kind = "connected"
      BY Zenon DEF ConnectMsg, ConnectedMsg
    <3>2. QED
      BY Zenon, <1>0, <2>2, <3>1
  <2>3. ASSUME NEW u \in Takers, NEW r \in pending[u], Selects(u, r)
        PROVE  /\ ConnectMsg(t, o) \in sent' => ConnectMsg(t, o) \in sent \/ (t = u /\ r.order = o)
               /\ ConnectedMsg(o, t) \in sent' => ConnectedMsg(o, t) \in sent
    <3>1. sent' = sent \union {ConnectMsg(u, r.order)}
      BY Zenon, <2>3 DEF Selects
    <3>2. ConnectMsg(t, o) = ConnectMsg(u, r.order) => t = u /\ r.order = o
      BY Zenon DEF ConnectMsg
    <3>3. ConnectedMsg(o, t) # ConnectMsg(u, r.order)
      BY Zenon DEF ConnectMsg, ConnectedMsg
    <3>4. QED
      BY Zenon, <3>1, <3>2, <3>3
  <2>4. ASSUME NEW u \in Takers, NEW p \in AllOrders, NEW m \in Match, Connects(u, p, m)
        PROVE  /\ ConnectMsg(t, o) \in sent' => ConnectMsg(t, o) \in sent
               /\ ConnectedMsg(o, t) \in sent' => ConnectedMsg(o, t) \in sent \/ (t = u /\ o = p)
    <3>1. sent' = sent \union {ConnectedMsg(p, u)}
      BY Zenon, <2>4 DEF Connects
    <3>2. ConnectedMsg(o, t) = ConnectedMsg(p, u) => t = u /\ o = p
      BY Zenon DEF ConnectedMsg
    <3>3. ConnectMsg(t, o) # ConnectedMsg(p, u)
      BY Zenon DEF ConnectMsg, ConnectedMsg
    <3>4. QED
      BY Zenon, <3>1, <3>2, <3>3
  <2>5. QED
    BY Zenon, <1>1, <2>1, <2>2, <2>3, <2>4
<1>5. QED
  BY Zenon, <1>2, <1>3, <1>4

\* A handler takes an order that is in the container.
LEMMA ConnectingGrows ==
    ASSUME TypeOK, AnswerInv, Next
    PROVE  \/ connecting' \subseteq connecting
           \/ \E t \in Takers, o \in AllOrders :
                /\ connecting' = connecting \union {<<t, o>>} /\ order[o].live /\ ConnectMsg(t, o) \in sent
<1>1. CASE \/ \E t \in Takers : Stores(t)
           \/ \E t \in Takers, n \in Nodes : TakeOrders(n, t)
           \/ \E t \in Takers, o \in AllOrders : PassOver(NodeOf[o], t, o)
           \/ \E t \in Takers, o \in AllOrders : ProcessTakerRequest(NodeOf[o], t, o)
           \/ \E t \in Takers, o \in AllOrders : ProcessTakerConnect(t, o)
           \/ \E n \in Nodes : CrashRestart(n)
  BY Zenon, <1>1, StoresFrame DEF TakeOrders, PassOver, ProcessTakerRequest, ProcessTakerConnect, CrashRestart
<1>2. ASSUME NEW t \in Takers, NEW o \in AllOrders, TakeOrder(t, o)
      PROVE  connecting' = connecting \union {<<t, o>>} /\ order[o].live /\ ConnectMsg(t, o) \in sent
  BY Zenon, <1>2 DEF TakeOrder, Handle
<1>3. QED
  BY Zenon, <1>1, <1>2, NextCases, TakerFrame, OrderFrame

\* process_taker_connect holds orders for connections that were sent.
LEMMA ConnectStep == ASSUME TypeOK, AnswerInv, ConnectInv, Next PROVE ConnectInv'
<1>1. ASSUME NEW t \in Takers, NEW o \in AllOrders, ConnectMsg(t, o) \in sent'
      PROVE  \E r \in Answers' : r.order = o /\ r.taker = t
  <2>0. Answers \subseteq Answers'
    BY Zenon, SentGrows
  <2>1. CASE ConnectMsg(t, o) \in sent
    BY ZenonT(40), <2>0, <2>1 DEF ConnectInv, ConnectAnswered
  <2>2. ASSUME NEW r \in pending[t], r.order = o PROVE \E q \in Answers' : q.order = o /\ q.taker = t
    BY Zenon, <2>0, <2>2 DEF AnswerInv, PendingInv
  <2>3. QED
    BY Zenon, <1>1, <2>1, <2>2, SentGrows
<1>2. ASSUME NEW c \in connecting' PROVE ConnectMsg(c[1], c[2]) \in sent'
  <2>1. CASE c \in connecting
    BY Zenon, <2>1, SentGrows DEF ConnectInv
  <2>2. ASSUME NEW t \in Takers, NEW o \in AllOrders, c = <<t, o>>, ConnectMsg(t, o) \in sent
        PROVE  ConnectMsg(c[1], c[2]) \in sent'
    BY Zenon, <2>2, SentGrows
  <2>3. c \in connecting \/ \E t \in Takers, o \in AllOrders : c = <<t, o>> /\ ConnectMsg(t, o) \in sent
    BY Zenon, <1>2, ConnectingGrows
  <2>4. QED
    BY Zenon, <2>1, <2>2, <2>3
<1>3. QED
  BY Zenon, <1>1, <1>2 DEF ConnectInv, ConnectAnswered
-----------------------------------------------------------------------------
(* What a step does to one maker order.                                     *)

EntrySame(o) ==
    /\ order'[o] = order[o] /\ saved'[o] = saved[o] /\ busy'[o] = busy[o] /\ update'[o] = update[o]
    /\ o \in cancelled' => o \in cancelled

\* It is taken out of the container by a handler.
EntryOut(o) ==
    /\ order[o].live /\ busy[o].how # "locked"
    /\ ~order'[o].live /\ order'[o].vol = order[o].vol /\ order'[o].matches = order[o].matches
    /\ saved'[o] = saved[o] /\ busy'[o] = Deletion /\ update'[o] = update[o]
    /\ o \in cancelled' => o \in cancelled

\* Its match with taker order t becomes m.
EntryMatch(o, t, m) ==
    /\ order'[o] = WithMatch(order[o], t, m) /\ Replaced(order[o], t, m, WithMatch(order[o], t, m))
    /\ saved'[o] = saved[o] /\ update'[o] = update[o]
    /\ busy'[o] = busy[o] \/ (order[o].live /\ busy'[o] = [how |-> "locked", state |-> WithMatch(order[o], t, m)])
    /\ o \in cancelled' => o \in cancelled

\* A taker order is issued as a maker order.
EntryNew(o) ==
    /\ o \in Takers /\ takerBusy[o] = "toMaker"
    /\ takerBusy'[o] = "saveMaker" /\ taker'[o] = taker[o] /\ savedTaker'[o] = NoTaker
    /\ order'[o] = FromTakerOrder(request[o]) /\ busy'[o] = busy[o]
    /\ saved'[o] = saved[o] /\ update'[o] = update[o]
    /\ o \in cancelled' => o \in cancelled

\* A taker order that was issued as a maker order is saved.
EntrySaved(o) ==
    /\ o \in Takers /\ takerBusy[o] = "saveMaker"
    /\ takerBusy'[o] = "no" /\ taker'[o] = taker[o] /\ savedTaker'[o] = savedTaker[o]
    /\ order'[o] = order[o] /\ busy'[o] = busy[o] /\ saved'[o] = FromTakerOrder(request[o])
    /\ update'[o] = update[o]
    /\ o \in cancelled' => o \in cancelled

\* It is restored after a crash of its node.
EntryRestored(o) ==
    /\ order'[o] = saved'[o] /\ saved'[o] = (IF o \in removals THEN NoOrder ELSE saved[o])
    /\ busy'[o] = Idle /\ update'[o] = NoUpdate
    /\ o \in cancelled' => o \in cancelled /\ busy[o].how # "delete"
    /\ NodeOf[o] \in crashed' /\ \A t \in Takers : <<t, o>> \notin connecting'

\* The order o changes as an order that nothing else concerns, or it is taken
\* out, reserved, connected, created, saved or restored.
LEMMA EntryCases ==
    ASSUME TypeOK, AnswerInv, Next, NEW o \in AllOrders
    PROVE  \/ EntrySame(o)
           \/ OrderOnlyStep(o) /\ OrderEffect(o)
           \/ EntryOut(o)
           \/ \E t \in Takers, m \in Match, msg \in Message :
                ProcessTakerRequest(NodeOf[o], t, o) /\ Reserves(NodeOf[o], t, o, m, msg) /\ EntryMatch(o, t, m)
           \/ \E t \in Takers, m \in Match :
                ProcessTakerConnect(t, o) /\ Connects(t, o, m) /\ EntryMatch(o, t, m)
           \/ EntryNew(o)
           \/ EntrySaved(o)
           \/ EntryRestored(o)
<1>1. CASE \E t \in Takers : TakerOnly(t)
  BY Zenon, <1>1, TakerFrame DEF EntrySame, orderVars
<1>2. CASE \/ \E t \in Takers, n \in Nodes : TakeOrders(n, t)
           \/ \E t \in Takers, p \in AllOrders : PassOver(NodeOf[p], t, p)
           \/ \E t \in Takers, p \in AllOrders : TakeOrder(t, p)
  BY Zenon, <1>2 DEF TakeOrders, PassOver, TakeOrder, orderVars, history, EntrySame
<1>3. ASSUME NEW p \in AllOrders, OrderOnlyStep(p) PROVE EntrySame(o) \/ (OrderOnlyStep(o) /\ OrderEffect(o))
  <2>1. OrderEffect(p)
    BY ZenonT(40), <1>3, OrderStepEffect
  <2>2. CASE o # p
    BY <2>1, <2>2 DEF OrderEffect, EntrySame, TypeOK
  <2>3. QED
    BY Zenon, <1>3, <2>1, <2>2
<1>4. ASSUME NEW t \in Takers, Stores(t) PROVE EntrySame(o) \/ EntryNew(o) \/ EntrySaved(o)
  <2>0. t \in AllOrders
    BY Zenon DEF AllOrders
  <2>1. UNCHANGED <<busy, update, cancelled, taker>>
    BY Zenon, <1>4, StoresFrame
  <2>2. CASE StoreTakerOrder(t) /\ takerBusy[t] = "toMaker"
    <3>1. /\ order' = [order EXCEPT ![t] = FromTakerOrder(request[t])] /\ saved' = saved
          /\ takerBusy' = [takerBusy EXCEPT ![t] = "saveMaker"]
      BY Zenon, <2>2 DEF StoreTakerOrder
    <3>2. savedTaker' = [savedTaker EXCEPT ![t] = NoTaker]
      <4>1. "toMaker" # "save"
        BY Zenon
      <4>2. QED
        BY Zenon, <2>2, <4>1 DEF StoreTakerOrder
    <3>3. CASE o = t
      <4>1. takerBusy'[o] = "saveMaker" /\ savedTaker'[o] = NoTaker /\ order'[o] = FromTakerOrder(request[o])
        BY Zenon, <2>0, <3>1, <3>2, <3>3 DEF TypeOK
      <4>2. QED
        BY ZenonT(40), <2>1, <2>2, <3>1, <3>3, <4>1 DEF EntryNew
    <3>4. CASE o # t
      BY ZenonT(40), <2>1, <3>1, <3>4 DEF TypeOK, EntrySame
    <3>5. QED
      BY Zenon, <3>3, <3>4
  <2>3. CASE SaveConverted(t)
    <3>1. /\ saved' = [saved EXCEPT ![t] = FromTakerOrder(request[t])] /\ takerBusy[t] = "saveMaker"
          /\ takerBusy' = [takerBusy EXCEPT ![t] = "no"] /\ UNCHANGED <<order, savedTaker>>
      BY Zenon, <2>3 DEF SaveConverted
    <3>2. CASE o = t
      <4>1. takerBusy'[o] = "no" /\ saved'[o] = FromTakerOrder(request[o])
        BY Zenon, <2>0, <3>1, <3>2 DEF TypeOK
      <4>2. QED
        BY ZenonT(40), <2>1, <3>1, <3>2, <4>1 DEF EntrySaved
    <3>3. CASE o # t
      BY ZenonT(40), <2>1, <3>1, <3>3 DEF TypeOK, EntrySame
    <3>4. QED
      BY Zenon, <3>2, <3>3
  <2>4. CASE StoreTakerOrder(t) /\ takerBusy[t] # "toMaker"
    BY Zenon, <2>1, <2>4 DEF StoreTakerOrder, EntrySame
  <2>5. QED
    BY Zenon, <1>4, <2>2, <2>3, <2>4 DEF Stores
<1>5. ASSUME NEW t \in Takers, NEW p \in AllOrders, NEW m \in Match, UNCHANGED <<saved, update, cancelled>>,
             order' = [order EXCEPT ![p] = WithMatch(order[p], t, m)],
             busy' = IF order[p].live
                     THEN [busy EXCEPT ![p] = [how |-> "locked", state |-> WithMatch(order[p], t, m)]] ELSE busy,
             Replaced(order[p], t, m, WithMatch(order[p], t, m))
      PROVE  IF o = p THEN EntryMatch(o, t, m) ELSE EntrySame(o)
  <2>1. CASE o = p
    <3>1. order'[o] = WithMatch(order[o], t, m)
      BY Zenon, <1>5, <2>1 DEF TypeOK
    <3>2. busy'[o] = busy[o] \/ (order[o].live /\ busy'[o] = [how |-> "locked", state |-> WithMatch(order[o], t, m)])
      BY Zenon, <1>5, <2>1 DEF TypeOK
    <3>3. QED
      BY Zenon, <1>5, <2>1, <3>1, <3>2 DEF EntryMatch
  <2>2. CASE o # p
    BY ZenonT(40), <1>5, <2>2 DEF TypeOK, EntrySame
  <2>3. QED
    BY Zenon, <2>1, <2>2
<1>6. ASSUME NEW t \in Takers, NEW p \in AllOrders, ProcessTakerRequest(NodeOf[p], t, p)
      PROVE  \/ EntrySame(o) \/ EntryOut(o)
             \/ \E m \in Match, msg \in Message :
                  p = o /\ Reserves(NodeOf[o], t, o, m, msg) /\ EntryMatch(o, t, m)
  <2>1. UNCHANGED <<saved, update, cancelled>>
    BY Zenon, <1>6 DEF ProcessTakerRequest, history
  <2>2. CASE UNCHANGED <<order, busy>>
    BY Zenon, <2>1, <2>2 DEF EntrySame
  <2>3. CASE /\ order[p].live /\ Free(p) /\ order' = [order EXCEPT ![p].live = FALSE]
             /\ busy' = [busy EXCEPT ![p] = Deletion]
    <3>1. CASE o # p
      BY ZenonT(40), <2>1, <2>3, <3>1 DEF TypeOK, EntrySame
    <3>2. CASE o = p
      <4>1. order'[o] = [order[o] EXCEPT !.live = FALSE] /\ busy'[o] = Deletion
        BY ZenonT(40), <2>3, <3>2 DEF TypeOK
      <4>2. order[o] \in Order
        BY Zenon, OrderState
      <4>3. ~order'[o].live /\ order'[o].vol = order[o].vol /\ order'[o].matches = order[o].matches
        BY Zenon, <4>1, <4>2 DEF Order
      <4>4. QED
        BY ZenonT(40), <2>1, <2>3, <3>2, <4>1, <4>3 DEF EntryOut, Free
    <3>3. QED
      BY Zenon, <3>1, <3>2
  <2>4. ASSUME NEW m \in Match, NEW msg \in Message, Reserves(NodeOf[p], t, p, m, msg)
        PROVE  EntrySame(o) \/ (p = o /\ EntryMatch(o, t, m))
    BY Zenon, <1>5, <2>1, <2>4 DEF Reserves
  <2>5. QED
    BY ZenonT(40), <1>6, <2>2, <2>3, <2>4, RequestEffect
<1>7. ASSUME NEW t \in Takers, NEW p \in AllOrders, ProcessTakerConnect(t, p)
      PROVE  EntrySame(o) \/ \E m \in Match : p = o /\ Connects(t, o, m) /\ EntryMatch(o, t, m)
  <2>1. UNCHANGED <<saved, update, cancelled>>
    BY Zenon, <1>7 DEF ProcessTakerConnect
  <2>2. CASE UNCHANGED <<order, busy>>
    BY Zenon, <2>1, <2>2 DEF EntrySame
  <2>3. ASSUME NEW m \in Match, Connects(t, p, m) PROVE EntrySame(o) \/ (p = o /\ EntryMatch(o, t, m))
    BY Zenon, <1>5, <2>1, <2>3 DEF Connects
  <2>4. QED
    BY Zenon, <1>7, <2>2, <2>3, ConnectEffect
<1>8. ASSUME NEW n \in Nodes, CrashRestart(n) PROVE EntrySame(o) \/ EntryRestored(o)
  <2>1. /\ saved'[o] = IF NodeOf[o] = n /\ o \in removals THEN NoOrder ELSE saved[o]
        /\ n \in crashed'
    BY Zenon, <1>8 DEF CrashRestart
  <2>2. /\ order'[o] = IF NodeOf[o] = n THEN saved'[o] ELSE order[o]
        /\ busy'[o] = IF NodeOf[o] = n THEN Idle ELSE busy[o]
        /\ update'[o] = IF NodeOf[o] = n THEN NoUpdate ELSE update[o]
    BY Zenon, <1>8 DEF CrashRestart
  <2>3. o \in cancelled' => o \in cancelled /\ ~(NodeOf[o] = n /\ busy[o].how = "delete")
    BY Zenon, <1>8 DEF CrashRestart
  <2>4. NodeOf[o] = n => \A t \in Takers : <<t, o>> \notin connecting'
    BY Zenon, <1>8 DEF CrashRestart
  <2>5. QED
    BY Zenon, <2>1, <2>2, <2>3, <2>4 DEF EntrySame, EntryRestored
<1>9. QED
  BY ZenonT(40), <1>1, <1>2, <1>3, <1>4, <1>6, <1>7, <1>8, NextCases
-----------------------------------------------------------------------------
(* The matches of the maker orders, and the swaps the makers start.         *)

\* An answer once given stays given.
LEMMA MatchesStay ==
    ASSUME NEW A, NEW B, A \subseteq B
    PROVE  /\ \A o, t, base, rel : Answered(A, o, t, base, rel) => Answered(B, o, t, base, rel)
           /\ \A o, ord : MatchesAnswered(A, o, ord) => MatchesAnswered(B, o, ord)
<1>1. \A o, t, base, rel : Answered(A, o, t, base, rel) => Answered(B, o, t, base, rel)
  BY Zenon DEF Answered
<1>2. QED
  BY Zenon, <1>1 DEF MatchesAnswered

\* An order that nobody has matched.
LEMMA NoMatchesAnswered ==
    ASSUME NEW A, NEW o
    PROVE  MatchesAnswered(A, o, NoOrder) /\ \A r : MatchesAnswered(A, o, FromTakerOrder(r))
<1>1. \A t \in Takers : ~Matched(NoOrder, t)
  BY DEF Matched, NoOrder, NoMatch
<1>2. ASSUME NEW r, NEW t \in Takers PROVE ~Matched(FromTakerOrder(r), t)
  BY DEF Matched, FromTakerOrder, NoOrder, NoMatch
<1>3. QED
  BY Zenon, <1>1, <1>2 DEF MatchesAnswered

\* A changed match is answered when it is.
LEMMA MatchAnswered ==
    ASSUME NEW A, NEW o, NEW ord, NEW t \in Takers, NEW m, NEW new, Replaced(ord, t, m, new),
           MatchesAnswered(A, o, ord), Answered(A, o, t, m.base, m.rel)
    PROVE  MatchesAnswered(A, o, new)
BY Zenon DEF Replaced, MatchesAnswered, Matched

\* Every match of a maker order is one the order has answered with.
LEMMA MatchStep == ASSUME TypeOK, AnswerInv, MatchInv, Next PROVE MatchInv'
<1>0. SUFFICES ASSUME NEW o \in AllOrders
               PROVE  /\ MatchesAnswered(Answers', o, order'[o]) /\ MatchesAnswered(Answers', o, saved'[o])
                      /\ MatchesAnswered(Answers', o, busy'[o].state)
                      /\ busy'[o].how = "delete" => busy'[o].state = NoOrder
  BY Zenon DEF MatchInv
<1>1. /\ MatchesAnswered(Answers', o, order[o]) /\ MatchesAnswered(Answers', o, saved[o])
      /\ MatchesAnswered(Answers', o, busy[o].state)
      /\ busy[o].how = "delete" => busy[o].state = NoOrder
  BY Zenon, SentGrows, MatchesStay DEF MatchInv
<1>2. Idle.state = NoOrder /\ Deletion.state = NoOrder
  BY Zenon DEF Idle, Deletion
<1>3. CASE EntrySame(o) \/ EntrySaved(o) \/ EntryRestored(o)
  BY Zenon, <1>1, <1>2, <1>3, NoMatchesAnswered DEF EntrySame, EntrySaved, EntryRestored
<1>4. CASE EntryOut(o)
  BY Zenon, <1>1, <1>2, <1>4, NoMatchesAnswered DEF EntryOut, MatchesAnswered, Matched
<1>5. CASE EntryNew(o)
  BY Zenon, <1>1, <1>5, NoMatchesAnswered DEF EntryNew
<1>6. ASSUME NEW t \in Takers, NEW m \in Match, EntryMatch(o, t, m), Answered(Answers', o, t, m.base, m.rel)
      PROVE  /\ MatchesAnswered(Answers', o, order'[o]) /\ MatchesAnswered(Answers', o, saved'[o])
             /\ MatchesAnswered(Answers', o, busy'[o].state)
             /\ busy'[o].how = "delete" => busy'[o].state = NoOrder
  <2>1. PICK new : new = WithMatch(order[o], t, m)
    BY Zenon
  <2>2. MatchesAnswered(Answers', o, new)
    BY Zenon, <1>1, <1>6, <2>1, MatchAnswered DEF EntryMatch
  <2>3. [how |-> "locked", state |-> new].state = new /\ [how |-> "locked", state |-> new].how # "delete"
    BY Zenon
  <2>4. QED
    BY Zenon, <1>1, <1>6, <2>1, <2>2, <2>3 DEF EntryMatch
<1>7. ASSUME NEW t \in Takers, NEW m \in Match, NEW msg, Reserves(NodeOf[o], t, o, m, msg)
      PROVE  Answered(Answers', o, t, m.base, m.rel)
  BY Zenon, <1>7 DEF Reserves, Answered
<1>8. ASSUME NEW t \in Takers, NEW m \in Match, Connects(t, o, m)
      PROVE  Answered(Answers', o, t, m.base, m.rel)
  BY Zenon, <1>1, <1>8 DEF Connects, Ongoing, MatchesAnswered
<1>9. CASE OrderEffect(o)
  <2>1. MatchesAnswered(Answers', o, order'[o])
    <3>1. \A t \in Takers : \/ order'[o].matches[t] = order[o].matches[t]
                            \/ order'[o].matches[t] = NoMatch
      BY Zenon, <1>9 DEF OrderEffect
    <3>2. ~(NoMatch.base > 0)
      BY DEF NoMatch
    <3>3. QED
      BY Zenon, <1>1, <3>1, <3>2 DEF MatchesAnswered, Matched
  <2>2. MatchesAnswered(Answers', o, saved'[o])
    BY Zenon, <1>1, <1>9 DEF OrderEffect
  <2>3. [how |-> "open", state |-> order'[o]].state = order'[o] /\ [how |-> "open", state |-> order'[o]].how # "delete"
    BY Zenon
  <2>4. busy'[o] \in {busy[o], Idle, Deletion} \/ busy'[o] = [how |-> "open", state |-> order'[o]]
    BY Zenon, <1>9 DEF OrderEffect
  <2>5. MatchesAnswered(Answers', o, busy'[o].state) /\ (busy'[o].how = "delete" => busy'[o].state = NoOrder)
    BY ZenonT(40), <1>1, <1>2, <2>1, <2>3, <2>4, NoMatchesAnswered
  <2>6. QED
    BY Zenon, <2>1, <2>2, <2>5
<1>10. QED
  BY ZenonT(40), <1>3, <1>4, <1>5, <1>6, <1>7, <1>8, <1>9, EntryCases

\* A maker's swap has the amounts of its answer, and answers a connection.
LEMMA BobStep == ASSUME TypeOK, AnswerInv, ConnectInv, MatchInv, BobInv, Next PROVE BobInv'
<1>1. sent \subseteq sent' /\ Answers \subseteq Answers'
  BY Zenon, SentGrows
<1>2. \/ makerSwaps' = makerSwaps
      \/ \E t \in Takers, o \in AllOrders, m \in Match :
           makerSwaps' = makerSwaps \union {Swap(o, t, m)} /\ Connects(t, o, m) /\ <<t, o>> \in connecting
  <2>1. \A t \in Takers, o \in AllOrders, m \in Match :
          Connects(t, o, m) => makerSwaps' = makerSwaps \union {Swap(o, t, m)}
    BY ZenonT(40) DEF Connects
  <2>2. \/ makerSwaps' = makerSwaps
        \/ \E t \in Takers, o \in AllOrders, m \in Match : Connects(t, o, m) /\ <<t, o>> \in connecting
    BY Zenon, SentEffect
  <2>3. QED
    BY Zenon, <2>1, <2>2
<1>3. ASSUME NEW s \in makerSwaps
      PROVE  s.base > 0 /\ Answered(Answers', s.order, s.taker, s.base, s.rel) /\ ConnectMsg(s.taker, s.order) \in sent'
  BY Zenon, <1>1, MatchesStay DEF BobInv, MakerSwapInv
<1>4. ASSUME NEW t \in Takers, NEW o \in AllOrders, NEW m \in Match, Connects(t, o, m), <<t, o>> \in connecting
      PROVE  /\ Swap(o, t, m).base > 0
             /\ Answered(Answers', Swap(o, t, m).order, Swap(o, t, m).taker, Swap(o, t, m).base, Swap(o, t, m).rel)
             /\ ConnectMsg(Swap(o, t, m).taker, Swap(o, t, m).order) \in sent'
  <2>1. /\ Swap(o, t, m).base = m.base /\ Swap(o, t, m).rel = m.rel
        /\ Swap(o, t, m).order = o /\ Swap(o, t, m).taker = t
    BY Zenon DEF Swap
  <2>2. m.base > 0 /\ Answered(Answers, o, t, m.base, m.rel)
    BY Zenon, <1>4 DEF Connects, Ongoing, Matched, MatchInv, MatchesAnswered
  <2>3. Answered(Answers', o, t, m.base, m.rel)
    BY Zenon, <1>1, <2>2, MatchesStay
  <2>4. ConnectMsg(<<t, o>>[1], <<t, o>>[2]) \in sent
    BY Zenon, <1>4 DEF ConnectInv
  <2>5. ConnectMsg(t, o) \in sent
    BY Zenon, <2>4
  <2>6. QED
    BY Zenon, <1>1, <2>1, <2>2, <2>3, <2>5
<1>5. MakerSwapInv'
  <2>1. ASSUME NEW s \in makerSwaps' PROVE s \in makerSwaps \/
              \E t \in Takers, o \in AllOrders, m \in Match : Connects(t, o, m) /\ <<t, o>> \in connecting /\ s = Swap(o, t, m)
    <3>1. CASE makerSwaps' = makerSwaps
      BY Zenon, <3>1
    <3>2. ASSUME NEW t \in Takers, NEW o \in AllOrders, NEW m \in Match,
                 makerSwaps' = makerSwaps \union {Swap(o, t, m)}
          PROVE  s \in makerSwaps \/ s = Swap(o, t, m)
      BY Zenon, <3>2
    <3>3. QED
      BY Zenon, <1>2, <3>1, <3>2
  <2>2. QED
    BY ZenonT(40), <1>3, <1>4, <2>1 DEF MakerSwapInv
<1>6. ASSUME NEW t \in Takers, NEW o \in AllOrders, ConnectedMsg(o, t) \in sent'
      PROVE  \E s \in makerSwaps' : s.order = o /\ s.taker = t
  <2>1. CASE ConnectedMsg(o, t) \in sent
    BY ZenonT(40), <1>2, <2>1 DEF BobInv, ConnectedInv
  <2>2. ASSUME NEW m \in Match, Connects(t, o, m) PROVE \E s \in makerSwaps' : s.order = o /\ s.taker = t
    <3>1. Swap(o, t, m) \in makerSwaps'
      BY Zenon, <2>2 DEF Connects
    <3>2. Swap(o, t, m).order = o /\ Swap(o, t, m).taker = t
      BY Zenon DEF Swap
    <3>3. QED
      BY Zenon, <3>1, <3>2
  <2>3. QED
    BY Zenon, <1>6, <2>1, <2>2, SentGrows
<1>7. QED
  BY Zenon, <1>5, <1>6 DEF BobInv, ConnectedInv
-----------------------------------------------------------------------------
(* What a step does to one taker order.                                     *)

TakerSame(t) == taker'[t] = taker[t] /\ savedTaker'[t] = savedTaker[t] /\ takerBusy'[t] = takerBusy[t]

\* It is placed by lp_auto_buy.
TakerPlaced(t) ==
    /\ t \in budget.takers /\ t \notin budget'.takers
    /\ taker'[t].matches = taker[t].matches /\ savedTaker'[t] = savedTaker[t] /\ takerBusy'[t] = "save"

\* It is matched with answer r.
TakerMatched(t, r) ==
    /\ Selects(t, r)
    /\ taker'[t].live /\ taker'[t].matches = {Swap(r.order, t, r)}
    /\ savedTaker'[t] = savedTaker[t] /\ takerBusy'[t] = "save"

\* It ends, with a swap, without one, or to become a maker order.
TakerEnded(t) ==
    /\ taker[t].live /\ takerBusy[t] = "no"
    /\ ~taker'[t].live /\ taker'[t].matches = taker[t].matches /\ savedTaker'[t] = savedTaker[t]
    /\ takerBusy'[t] \in {"delete", "toMaker"} /\ (takerBusy'[t] = "toMaker" => taker[t].matches = {})

\* Its record is written or deleted.
TakerStored(t) ==
    /\ takerBusy[t] \in {"save", "delete", "toMaker"} /\ taker'[t] = taker[t]
    /\ takerBusy'[t] = IF takerBusy[t] = "toMaker" THEN "saveMaker" ELSE "no"
    /\ savedTaker'[t] = IF takerBusy[t] = "save" THEN taker[t] ELSE NoTaker

\* The maker order it has become is saved.
TakerConverted(t) ==
    /\ takerBusy[t] = "saveMaker" /\ takerBusy'[t] = "no"
    /\ taker'[t] = taker[t] /\ savedTaker'[t] = savedTaker[t]

\* It is restored after a crash of its node.
TakerRestored(t) ==
    /\ taker'[t] = savedTaker[t] /\ savedTaker'[t] = savedTaker[t] /\ takerBusy'[t] = "no"
    /\ NodeOf[t] \in crashed'

\* What all the steps leave alone.
LEMMA CommonFrame ==
    ASSUME TypeOK, AnswerInv, Next
    PROVE  /\ request' = request /\ crashed \subseteq crashed' /\ budget'.takers \subseteq budget.takers
           /\ removals \subseteq removals'
           /\ \A n \in Nodes : seen[n] \subseteq seen'[n]
           /\ \/ takerSwaps' = takerSwaps
              \/ \E t \in Takers, o \in AllOrders : ProcessMakerConnected(t, o)
<1>1. ASSUME NEW t \in Takers, TakerOnly(t)
      PROVE  /\ request' = request /\ crashed \subseteq crashed' /\ budget'.takers \subseteq budget.takers
             /\ removals' = removals
             /\ \A n \in Nodes : seen[n] \subseteq seen'[n]
             /\ \/ takerSwaps' = takerSwaps
                \/ \E o \in AllOrders : ProcessMakerConnected(t, o)
  <2>1. /\ request' = request /\ crashed' = crashed /\ removals' = removals
        /\ \A n \in Nodes : seen[n] \subseteq seen'[n]
    BY Zenon, <1>1, TakerFrame, TakerEffect DEF rest
  <2>2. CASE LpAutoBuy(t)
    <3>1. budget'.takers \subseteq budget.takers
      BY Zenon, <2>2 DEF LpAutoBuy, TypeOK, Budget
    <3>2. takerSwaps' = takerSwaps
      BY Zenon, <2>2 DEF LpAutoBuy, history
    <3>3. QED
      BY Zenon, <2>1, <3>1, <3>2
  <2>3. CASE ~LpAutoBuy(t)
    <3>1. budget' = budget
      BY Zenon, <1>1, <2>3 DEF TakerOnly, ProcessMakerReserved, SelectReserved, ProcessMakerConnected,
         TimedOutTakerOrder, CancelTakerOrder
    <3>2. takerSwaps' = takerSwaps \/ \E o \in AllOrders : ProcessMakerConnected(t, o)
      BY Zenon, <1>1, <2>3 DEF TakerOnly, ProcessMakerReserved, SelectReserved, TimedOutTakerOrder,
         CancelTakerOrder, history
    <3>3. QED
      BY Zenon, <2>1, <3>1, <3>2
  <2>4. QED
    BY Zenon, <2>2, <2>3
<1>2. CASE \/ \E t \in Takers : Stores(t)
           \/ \E t \in Takers, o \in AllOrders : PassOver(NodeOf[o], t, o)
           \/ \E t \in Takers, o \in AllOrders : ProcessTakerRequest(NodeOf[o], t, o)
           \/ \E t \in Takers, o \in AllOrders : ProcessTakerConnect(t, o)
  BY Zenon, <1>2, StoresFrame DEF PassOver, ProcessTakerRequest, ProcessTakerConnect, netVars, history, rest
<1>3. ASSUME NEW t \in Takers, NEW n \in Nodes, TakeOrders(n, t)
      PROVE  /\ UNCHANGED <<request, crashed, removals, budget, takerSwaps>>
             /\ \A k \in Nodes : seen[k] \subseteq seen'[k]
  BY Zenon, <1>3, HandleType DEF TakeOrders, history, rest
<1>4. ASSUME NEW t \in Takers, NEW o \in AllOrders, TakeOrder(t, o)
      PROVE  /\ UNCHANGED <<request, crashed, removals, budget, takerSwaps>>
             /\ \A k \in Nodes : seen[k] \subseteq seen'[k]
  BY Zenon, <1>4, Homes, HandleType DEF TakeOrder, history, rest
<1>5. CASE \E o \in AllOrders : OrderOnlyStep(o)
  BY Zenon, <1>5, OrderFrame DEF netVars, rest
<1>6. ASSUME NEW n \in Nodes, CrashRestart(n)
      PROVE  /\ UNCHANGED <<request, seen, takerSwaps, removals>>
             /\ crashed \subseteq crashed' /\ budget'.takers = budget.takers
  <2>1. UNCHANGED <<request, seen, takerSwaps, removals>> /\ crashed \subseteq crashed'
    BY Zenon, <1>6 DEF CrashRestart, netVars
  <2>2. budget'.takers = budget.takers
    BY Zenon, <1>6 DEF CrashRestart, TypeOK, Budget
  <2>3. QED
    BY Zenon, <2>1, <2>2
<1>7. QED
  BY ZenonT(40), <1>1, <1>2, <1>3, <1>4, <1>5, <1>6, NextCases

\* The taker order stays, is placed, matched, ended, stored, converted or restored.
LEMMA TakerCases ==
    ASSUME TypeOK, AnswerInv, Next, NEW t \in Takers
    PROVE  \/ TakerSame(t) \/ TakerPlaced(t) \/ (\E r \in pending[t] : TakerMatched(t, r))
           \/ TakerEnded(t) \/ TakerStored(t) \/ TakerConverted(t) \/ TakerRestored(t)
<1>0. taker[t] \in TakerState
  BY Zenon DEF TypeOK
<1>1. ASSUME NEW u \in Takers, TakerOnly(u)
      PROVE  \/ TakerSame(t) \/ TakerPlaced(t) \/ (\E r \in pending[t] : TakerMatched(t, r)) \/ TakerEnded(t)
  <2>1. savedTaker' = savedTaker
    BY Zenon, <1>1, TakerFrame
  <2>2. CASE u # t
    <3>1. taker'[t] = taker[t] /\ takerBusy'[t] = takerBusy[t]
      BY <1>1, <2>2, TakerEffect DEF TypeOK
    <3>2. QED
      BY ZenonT(40), <2>1, <3>1 DEF TakerSame
  <2>3. CASE LpAutoBuy(t)
    <3>1. /\ taker'[t] = [taker[t] EXCEPT !.live = TRUE] /\ takerBusy'[t] = "save"
          /\ t \in budget.takers /\ budget' = [budget EXCEPT !.takers = @ \ {t}]
      BY Zenon, <2>3 DEF LpAutoBuy, TypeOK
    <3>2. taker'[t].matches = taker[t].matches
      BY Zenon, <1>0, <3>1 DEF TakerState
    <3>3. t \notin budget'.takers
      BY Zenon, <3>1 DEF TypeOK, Budget
    <3>4. QED
      BY ZenonT(40), <2>1, <3>1, <3>2, <3>3 DEF TakerPlaced
  <2>4. CASE \E msg \in sent : ProcessMakerReserved(t, msg)
    BY Zenon, <2>1, <2>4 DEF ProcessMakerReserved, TakerSame
  <2>5. CASE SelectReserved(t)
    <3>1. ASSUME NEW r \in pending[t], Selects(t, r) PROVE TakerMatched(t, r)
      <4>1. taker'[t] = [taker[t] EXCEPT !.matches = @ \union {Swap(r.order, t, r)}] /\ takerBusy'[t] = "save"
        BY Zenon, <3>1 DEF Selects, TypeOK
      <4>2. taker'[t].live = taker[t].live /\ taker'[t].matches = taker[t].matches \union {Swap(r.order, t, r)}
        BY Zenon, <1>0, <4>1 DEF TakerState
      <4>3. taker[t].live /\ taker[t].matches = {}
        BY Zenon, <3>1 DEF Selects
      <4>4. taker'[t].matches = {Swap(r.order, t, r)}
        BY Zenon, <4>2, <4>3
      <4>5. QED
        BY ZenonT(40), <2>1, <3>1, <4>1, <4>2, <4>3, <4>4 DEF TakerMatched
    <3>2. QED
      BY Zenon, <2>1, <2>5, <3>1, SelectEffect DEF TakerSame
  <2>6. CASE (\E o \in AllOrders : ProcessMakerConnected(t, o)) \/ TimedOutTakerOrder(t) \/ CancelTakerOrder(t)
    <3>1. /\ taker[t].live /\ TakerFree(t) /\ taker' = [taker EXCEPT ![t].live = FALSE]
          /\ \/ takerBusy' = [takerBusy EXCEPT ![t] = "delete"]
             \/ taker[t].matches = {} /\ takerBusy' = [takerBusy EXCEPT ![t] = "toMaker"]
      BY Zenon, <2>6 DEF ProcessMakerConnected, TimedOutTakerOrder, MayTimeOut, CancelTakerOrder
    <3>2. taker'[t] = [taker[t] EXCEPT !.live = FALSE]
      BY Zenon, <3>1 DEF TypeOK
    <3>3. taker'[t].live = FALSE /\ taker'[t].matches = taker[t].matches
      BY Zenon, <1>0, <3>2 DEF TakerState
    <3>4. takerBusy'[t] = "delete" \/ (taker[t].matches = {} /\ takerBusy'[t] = "toMaker")
      BY Zenon, <3>1 DEF TypeOK
    <3>5. takerBusy[t] = "no"
      BY Zenon, <3>1 DEF TakerFree
    <3>6. "delete" # "toMaker"
      BY Zenon
    <3>7. QED
      BY ZenonT(40), <2>1, <3>1, <3>3, <3>4, <3>5, <3>6 DEF TakerEnded
  <2>7. QED
    BY ZenonT(40), <1>1, <2>2, <2>3, <2>4, <2>5, <2>6 DEF TakerOnly
<1>2. CASE \/ \E n \in Nodes, u \in Takers : TakeOrders(n, u)
           \/ \E u \in Takers, o \in AllOrders : PassOver(NodeOf[o], u, o)
           \/ \E u \in Takers, o \in AllOrders : ProcessTakerRequest(NodeOf[o], u, o)
           \/ \E u \in Takers, o \in AllOrders : TakeOrder(u, o)
           \/ \E u \in Takers, o \in AllOrders : ProcessTakerConnect(u, o)
  BY ZenonT(40), <1>2 DEF TakeOrders, PassOver, ProcessTakerRequest, TakeOrder, ProcessTakerConnect, takerVars, TakerSame
<1>3. CASE \E o \in AllOrders : OrderOnlyStep(o)
  BY Zenon, <1>3, OrderFrame DEF takerVars, TakerSame
<1>4. ASSUME NEW u \in Takers, Stores(u) PROVE TakerSame(t) \/ TakerStored(t) \/ TakerConverted(t)
  <2>0. taker' = taker
    BY Zenon, <1>4, StoresFrame
  <2>1. CASE StoreTakerOrder(u)
    <3>1. /\ takerBusy[u] \in {"save", "delete", "toMaker"}
          /\ savedTaker' = [savedTaker EXCEPT ![u] = IF takerBusy[u] = "save" THEN taker[u] ELSE NoTaker]
          /\ takerBusy' = [takerBusy EXCEPT ![u] = IF takerBusy[u] = "toMaker" THEN "saveMaker" ELSE "no"]
      BY Zenon, <2>1 DEF StoreTakerOrder
    <3>2. CASE u = t
      BY ZenonT(40), <2>0, <3>1, <3>2 DEF TypeOK, TakerStored
    <3>3. CASE u # t
      BY ZenonT(40), <2>0, <3>1, <3>3 DEF TypeOK, TakerSame
    <3>4. QED
      BY Zenon, <3>2, <3>3
  <2>2. CASE SaveConverted(u)
    <3>1. /\ takerBusy[u] = "saveMaker" /\ savedTaker' = savedTaker
          /\ takerBusy' = [takerBusy EXCEPT ![u] = "no"]
      BY Zenon, <2>2 DEF SaveConverted
    <3>2. CASE u = t
      BY Zenon, <2>0, <3>1, <3>2 DEF TypeOK, TakerConverted
    <3>3. CASE u # t
      BY Zenon, <2>0, <3>1, <3>3 DEF TypeOK, TakerSame
    <3>4. QED
      BY Zenon, <3>2, <3>3
  <2>3. QED
    BY Zenon, <1>4, <2>1, <2>2 DEF Stores
<1>5. ASSUME NEW n \in Nodes, CrashRestart(n) PROVE TakerSame(t) \/ TakerRestored(t)
  <2>0. t \in AllOrders
    BY Zenon DEF AllOrders
  <2>1. /\ taker'[t] = IF NodeOf[t] = n THEN savedTaker[t] ELSE taker[t]
        /\ takerBusy'[t] = IF NodeOf[t] = n THEN "no" ELSE takerBusy[t]
    BY Zenon, <1>5, <2>0 DEF CrashRestart
  <2>2. savedTaker' = savedTaker /\ n \in crashed'
    BY Zenon, <1>5 DEF CrashRestart
  <2>3. QED
    BY Zenon, <2>1, <2>2 DEF TakerSame, TakerRestored
<1>6. QED
  BY ZenonT(40), <1>1, <1>2, <1>3, <1>4, <1>5, NextCases
-----------------------------------------------------------------------------
(* The matches of the taker orders, and the swaps the takers start.         *)

\* The answer that process_maker_reserved chooses is within the taker's limit.
LEMMA Chosen ==
    ASSUME TypeOK, AnswerInv, NEW t \in Takers, NEW r \in pending[t], match_reserved(request[t], r)
    PROVE  OneMatch(Answers, request[t], t, {Swap(r.order, t, r)})
<1>1. PICK s : s = Swap(r.order, t, r)
  BY Zenon
<1>2. s.order = r.order /\ s.taker = t /\ s.base = r.base /\ s.rel = r.rel
  BY Zenon, <1>1 DEF Swap
<1>3. r \in Answers /\ r.taker = t
  BY Zenon DEF AnswerInv, PendingInv
<1>4. Answered(Answers, s.order, t, s.base, s.rel)
  BY Zenon, <1>2, <1>3 DEF Answered
<1>5. Within(s, request[t])
  BY Zenon, <1>2 DEF match_reserved, Within
<1>6. \A m \in {s} : m.taker = t /\ Answered(Answers, m.order, t, m.base, m.rel) /\ Within(m, request[t])
  BY Zenon, <1>2, <1>4, <1>5
<1>7. QED
  BY Zenon, <1>1, <1>6 DEF OneMatch

\* A match stays answered.
LEMMA OneMatchStays ==
    ASSUME NEW A, NEW B, A \subseteq B, NEW q, NEW t, NEW matches, OneMatch(A, q, t, matches)
    PROVE  OneMatch(B, q, t, matches)
BY Zenon, MatchesStay DEF OneMatch

\* A taker order has one match at most, within its limit.
LEMMA TakerMatchStep == ASSUME TypeOK, AnswerInv, TakerMatchInv, Next PROVE TakerMatchInv'
<1>0. SUFFICES ASSUME NEW t \in Takers
               PROVE  /\ OneMatch(Answers', request'[t], t, taker'[t].matches)
                      /\ OneMatch(Answers', request'[t], t, savedTaker'[t].matches)
  BY Zenon DEF TakerMatchInv
<1>1. request' = request /\ Answers \subseteq Answers'
  BY Zenon, CommonFrame, SentGrows
<1>2. OneMatch(Answers', request[t], t, taker[t].matches) /\ OneMatch(Answers', request[t], t, savedTaker[t].matches)
  BY Zenon, <1>1, OneMatchStays DEF TakerMatchInv
<1>3. OneMatch(Answers', request[t], t, NoTaker.matches)
  <2>1. NoTaker.matches = {}
    BY Zenon DEF NoTaker
  <2>2. OneMatch(Answers', request[t], t, {})
    BY Zenon DEF OneMatch
  <2>3. QED
    BY Zenon, <2>1, <2>2
<1>4. ASSUME NEW r \in pending[t], TakerMatched(t, r)
      PROVE  OneMatch(Answers', request[t], t, taker'[t].matches) /\ savedTaker'[t] = savedTaker[t]
  <2>1. match_reserved(request[t], r)
    BY Zenon, <1>4 DEF TakerMatched, Selects
  <2>2. OneMatch(Answers', request[t], t, {Swap(r.order, t, r)})
    BY Zenon, <1>1, <2>1, Chosen, OneMatchStays
  <2>3. QED
    BY Zenon, <1>4, <2>2 DEF TakerMatched
<1>5. /\ OneMatch(Answers', request[t], t, taker'[t].matches)
      /\ OneMatch(Answers', request[t], t, savedTaker'[t].matches)
  <2>1. CASE TakerSame(t) \/ TakerPlaced(t) \/ TakerEnded(t) \/ TakerConverted(t)
    BY Zenon, <1>2, <2>1 DEF TakerSame, TakerPlaced, TakerEnded, TakerConverted
  <2>2. CASE TakerStored(t) \/ TakerRestored(t)
    BY Zenon, <1>2, <1>3, <2>2 DEF TakerStored, TakerRestored
  <2>3. QED
    BY Zenon, <1>2, <1>4, <2>1, <2>2, TakerCases
<1>6. QED
  BY Zenon, <1>1, <1>5

\* What is stored of a taker order is what it was when its storage work began.
LEMMA TakerRecordStep == ASSUME TypeOK, AnswerInv, TakerRecordInv, Next PROVE TakerRecordInv'
<1>0. SUFFICES ASSUME NEW t \in Takers
               PROVE  /\ taker'[t].live /\ takerBusy'[t] # "save" => savedTaker'[t] = taker'[t]
                      /\ takerBusy'[t] \in {"delete", "toMaker", "saveMaker"} => ~taker'[t].live
                      /\ takerBusy'[t] = "saveMaker" => ~savedTaker'[t].live
                      /\ t \in budget'.takers => ~taker'[t].live /\ ~savedTaker'[t].live /\ takerBusy'[t] = "no"
  BY Zenon DEF TakerRecordInv
<1>1. t \in budget'.takers => t \in budget.takers
  BY Zenon, CommonFrame
<1>2. /\ taker[t].live /\ takerBusy[t] # "save" => savedTaker[t] = taker[t]
      /\ takerBusy[t] \in {"delete", "toMaker", "saveMaker"} => ~taker[t].live
      /\ takerBusy[t] = "saveMaker" => ~savedTaker[t].live
      /\ t \in budget.takers => ~taker[t].live /\ ~savedTaker[t].live /\ takerBusy[t] = "no"
      /\ takerBusy[t] \in {"no", "save", "delete", "toMaker", "saveMaker"} /\ ~NoTaker.live
  BY Zenon DEF TakerRecordInv, TypeOK, NoTaker
<1>3. CASE TakerSame(t)
  BY Zenon, <1>1, <1>2, <1>3 DEF TakerSame
<1>4. CASE TakerPlaced(t)
  BY Zenon, <1>1, <1>2, <1>4 DEF TakerPlaced
<1>5. ASSUME NEW r \in pending[t], TakerMatched(t, r)
      PROVE  /\ taker'[t].live /\ takerBusy'[t] # "save" => savedTaker'[t] = taker'[t]
             /\ takerBusy'[t] \in {"delete", "toMaker", "saveMaker"} => ~taker'[t].live
             /\ takerBusy'[t] = "saveMaker" => ~savedTaker'[t].live
             /\ t \in budget'.takers => ~taker'[t].live /\ ~savedTaker'[t].live /\ takerBusy'[t] = "no"
  <2>1. takerBusy'[t] = "save" /\ taker[t].live
    BY Zenon, <1>5 DEF TakerMatched, Selects
  <2>2. QED
    BY Zenon, <1>1, <1>2, <2>1
<1>6. CASE TakerEnded(t)
  BY Zenon, <1>1, <1>2, <1>6 DEF TakerEnded
<1>7. CASE TakerStored(t)
  <2>1. t \notin budget'.takers
    BY Zenon, <1>1, <1>2, <1>7 DEF TakerStored
  <2>2. CASE takerBusy[t] = "save"
    <3>1. takerBusy'[t] = "no" /\ savedTaker'[t] = taker'[t]
      BY Zenon, <1>7, <2>2 DEF TakerStored
    <3>2. QED
      BY Zenon, <2>1, <3>1
  <2>3. CASE takerBusy[t] \in {"delete", "toMaker"}
    <3>1. ~taker'[t].live /\ savedTaker'[t] = NoTaker
      BY Zenon, <1>2, <1>7, <2>3 DEF TakerStored
    <3>2. QED
      BY Zenon, <1>2, <2>1, <3>1
  <2>4. QED
    BY Zenon, <1>7, <2>2, <2>3 DEF TakerStored
<1>8. CASE TakerRestored(t) \/ TakerConverted(t)
  BY Zenon, <1>1, <1>2, <1>8 DEF TakerRestored, TakerConverted
<1>9. QED
  BY Zenon, <1>3, <1>4, <1>5, <1>6, <1>7, <1>8, TakerCases

\* A taker order has the match it connected to, unless its node crashed.
LEMMA TakerConnectStep == ASSUME TypeOK, AnswerInv, TakerConnectInv, Next PROVE TakerConnectInv'
<1>0. SUFFICES ASSUME NEW t \in Takers, NEW o \in AllOrders, ConnectMsg(t, o) \in sent', NodeOf[t] \notin crashed'
               PROVE  \E m \in taker'[t].matches : m.order = o
  BY Zenon DEF TakerConnectInv
<1>1. NodeOf[t] \notin crashed
  BY Zenon, <1>0, CommonFrame
<1>2. CASE ConnectMsg(t, o) \in sent
  <2>1. PICK m \in taker[t].matches : m.order = o
    BY Zenon, <1>1, <1>2 DEF TakerConnectInv
  <2>2. ~\E r \in pending[t] : TakerMatched(t, r)
    BY Zenon, <2>1 DEF TakerMatched, Selects
  <2>3. ~TakerRestored(t)
    BY Zenon, <1>0 DEF TakerRestored
  <2>4. taker'[t].matches = taker[t].matches
    BY Zenon, <2>2, <2>3, TakerCases DEF TakerSame, TakerPlaced, TakerEnded, TakerStored,
       TakerConverted
  <2>5. QED
    BY Zenon, <2>1, <2>4
<1>3. ASSUME NEW r \in pending[t], r.order = o, Selects(t, r) PROVE \E m \in taker'[t].matches : m.order = o
  <2>1. taker' = [taker EXCEPT ![t].matches = @ \union {Swap(r.order, t, r)}]
    BY Zenon, <1>3 DEF Selects
  <2>2. taker'[t].matches = taker[t].matches \union {Swap(r.order, t, r)}
    BY <2>1 DEF TypeOK, TakerState
  <2>3. Swap(r.order, t, r).order = o
    BY Zenon, <1>3 DEF Swap
  <2>4. QED
    BY Zenon, <2>2, <2>3
<1>4. QED
  BY Zenon, <1>0, <1>2, <1>3, SentGrows

\* A taker order keeps its one match, and its record with it.
LEMMA AliceStep == ASSUME TypeOK, AnswerInv, AliceInv, Next PROVE AliceInv'
BY Zenon, TakerMatchStep, TakerRecordStep, TakerConnectStep DEF AliceInv

\* Two swaps with the same answer are the same swap.
LEMMA SameSwap ==
    ASSUME TypeOK, AnswerInv, NEW s \in SwapRecord, NEW u \in SwapRecord,
           s.order = u.order, s.taker = u.taker,
           Answered(Answers, s.order, s.taker, s.base, s.rel), Answered(Answers, u.order, u.taker, u.base, u.rel)
    PROVE  s = u
<1>1. PICK r \in Answers : r.order = s.order /\ r.taker = s.taker /\ r.base = s.base /\ r.rel = s.rel
  BY Zenon DEF Answered
<1>2. PICK q \in Answers : q.order = u.order /\ q.taker = u.taker /\ q.base = u.base /\ q.rel = u.rel
  BY Zenon DEF Answered
<1>3. r = q
  BY Zenon, <1>1, <1>2 DEF AnswerInv, OneAnswer
<1>4. s.base = u.base /\ s.rel = u.rel
  BY Zenon, <1>1, <1>2, <1>3
<1>5. QED
  BY <1>4 DEF SwapRecord

\* The swaps the makers have started stay, and one more is started at a time.
LEMMA MakerSwapsGrow ==
    ASSUME TypeOK, AnswerInv, Next
    PROVE  /\ makerSwaps \subseteq makerSwaps'
           /\ \A s \in makerSwaps' : s \in makerSwaps \/
                \E t \in Takers, o \in AllOrders, m \in Match :
                   Connects(t, o, m) /\ <<t, o>> \in connecting /\ s = Swap(o, t, m)
<1>1. CASE makerSwaps' = makerSwaps
  BY Zenon, <1>1
<1>2. ASSUME NEW t \in Takers, NEW o \in AllOrders, NEW m \in Match, Connects(t, o, m), <<t, o>> \in connecting
      PROVE  /\ makerSwaps \subseteq makerSwaps'
             /\ \A s \in makerSwaps' : s \in makerSwaps \/
                  \E u \in Takers, p \in AllOrders, k \in Match :
                     Connects(u, p, k) /\ <<u, p>> \in connecting /\ s = Swap(p, u, k)
  <2>1. makerSwaps' = makerSwaps \union {Swap(o, t, m)}
    BY Zenon, <1>2 DEF Connects
  <2>2. makerSwaps \subseteq makerSwaps' /\ \A s \in makerSwaps' : s \in makerSwaps \/ s = Swap(o, t, m)
    BY Zenon, <2>1
  <2>3. QED
    BY Zenon, <1>2, <2>2
<1>3. \/ makerSwaps' = makerSwaps
      \/ \E t \in Takers, o \in AllOrders, m \in Match : Connects(t, o, m) /\ <<t, o>> \in connecting
  BY Zenon, SentEffect
<1>4. QED
  BY Zenon, <1>1, <1>2, <1>3

\* What process_maker_connected starts is the swap of the taker's match, which
\* the maker has started.
LEMMA SwapStarts ==
    ASSUME TypeOK, AnswerInv, BobInv, AliceInv, NEW t \in Takers, NEW o \in AllOrders, ProcessMakerConnected(t, o)
    PROVE  \E m \in taker[t].matches :
             /\ takerSwaps' = takerSwaps \union {m} /\ m \in makerSwaps /\ m.taker = t
             /\ Within(m, request[t]) /\ taker[t].matches = {m} /\ taker[t].live
             /\ ~taker'[t].live /\ savedTaker'[t] = taker[t] /\ takerBusy'[t] = "delete"
             /\ t \notin budget'.takers
<1>1. PICK m \in taker[t].matches : m.order = o /\ takerSwaps' = takerSwaps \union {m}
  BY Zenon DEF ProcessMakerConnected, MatchWith
<1>2. m \in SwapRecord /\ taker[t] \in TakerState
  BY Zenon DEF TypeOK, TakerState
<1>3. m.taker = t /\ Answered(Answers, m.order, t, m.base, m.rel) /\ Within(m, request[t]) /\ taker[t].matches = {m}
  <2>1. OneMatch(Answers, request[t], t, taker[t].matches)
    BY Zenon DEF AliceInv, TakerMatchInv
  <2>2. m.taker = t /\ Answered(Answers, m.order, t, m.base, m.rel) /\ Within(m, request[t])
    BY Zenon, <2>1 DEF OneMatch
  <2>3. \A k \in taker[t].matches : k = m
    BY Zenon, <2>1 DEF OneMatch
  <2>4. QED
    BY Zenon, <2>2, <2>3
<1>4. PICK s \in makerSwaps : s.order = o /\ s.taker = t
  <2>1. ConnectedMsg(o, t) \in sent
    BY Zenon DEF ProcessMakerConnected, Handle
  <2>2. QED
    BY Zenon, <2>1 DEF BobInv, ConnectedInv
<1>5. s \in SwapRecord /\ Answered(Answers, s.order, s.taker, s.base, s.rel)
  BY Zenon DEF BobInv, MakerSwapInv, TypeOK
<1>6. m = s
  BY ZenonT(40), <1>1, <1>2, <1>3, <1>4, <1>5, SameSwap
<1>7. taker[t].live /\ takerBusy[t] = "no"
  BY Zenon DEF ProcessMakerConnected, TakerFree
<1>8. savedTaker[t] = taker[t] /\ t \notin budget.takers
  <2>1. takerBusy[t] # "save"
    BY Zenon, <1>7
  <2>2. QED
    BY Zenon, <1>7, <2>1 DEF AliceInv, TakerRecordInv
<1>9. savedTaker' = savedTaker /\ budget' = budget
  BY Zenon DEF ProcessMakerConnected
<1>10. ~taker'[t].live /\ takerBusy'[t] = "delete"
  <2>1. taker' = [taker EXCEPT ![t].live = FALSE] /\ takerBusy' = [takerBusy EXCEPT ![t] = "delete"]
    BY Zenon DEF ProcessMakerConnected
  <2>2. taker'[t] = [taker[t] EXCEPT !.live = FALSE] /\ takerBusy'[t] = "delete"
    BY Zenon, <2>1 DEF TypeOK
  <2>3. taker'[t].live = FALSE
    BY Zenon, <1>2, <2>2 DEF TakerState
  <2>4. QED
    BY Zenon, <2>2, <2>3
<1>11. QED
  BY ZenonT(40), <1>1, <1>3, <1>4, <1>6, <1>7, <1>8, <1>9, <1>10

\* A swap that a taker order has started stays its only one.
LEMMA SwappedStays ==
    ASSUME TypeOK, AnswerInv, AliceInv, Next, NEW s \in SwapRecord, Swapped(s)
    PROVE  Swapped(s)'
<1>0. PICK t \in Takers : t = s.taker
  BY Zenon DEF SwapRecord
<1>1. s \in makerSwaps' /\ request' = request /\ t \notin budget'.takers
  BY ZenonT(40), <1>0, MakerSwapsGrow, CommonFrame DEF Swapped
<1>2. /\ taker[t].live => taker[t].matches = {s}
      /\ savedTaker[t].live => savedTaker[t].matches = {s}
      /\ takerBusy[t] \notin {"toMaker", "saveMaker"} /\ t \notin budget.takers /\ Within(s, request[t])
  BY Zenon, <1>0 DEF Swapped
<1>3. /\ taker'[t].live => taker'[t].matches = {s}
      /\ savedTaker'[t].live => savedTaker'[t].matches = {s}
      /\ takerBusy'[t] \notin {"toMaker", "saveMaker"}
  <2>0. "no" \notin {"toMaker", "saveMaker"} /\ "save" \notin {"toMaker", "saveMaker"} /\ ~NoTaker.live
    BY Zenon DEF NoTaker
  <2>1. ~TakerPlaced(t)
    BY Zenon, <1>2 DEF TakerPlaced
  <2>2. ~\E r \in pending[t] : TakerMatched(t, r)
    BY Zenon, <1>2 DEF TakerMatched, Selects
  <2>3. CASE TakerSame(t)
    BY Zenon, <1>2, <2>3 DEF TakerSame
  <2>4. CASE TakerEnded(t)
    BY Zenon, <1>2, <2>4 DEF TakerEnded
  <2>5. CASE TakerStored(t)
    BY Zenon, <1>2, <2>0, <2>5 DEF TakerStored
  <2>6. CASE TakerRestored(t)
    BY Zenon, <1>2, <2>0, <2>6 DEF TakerRestored
  <2>7. ~TakerConverted(t)
    BY Zenon, <1>2 DEF TakerConverted
  <2>8. QED
    BY ZenonT(40), <2>1, <2>2, <2>3, <2>4, <2>5, <2>6, <2>7, TakerCases
<1>4. QED
  BY ZenonT(40), <1>0, <1>1, <1>2, <1>3 DEF Swapped

\* When the taker starts its swap, the maker has started the same.
LEMMA AliceSwapStep ==
    ASSUME TypeOK, AnswerInv, BobInv, AliceInv, AliceSwapInv, Next
    PROVE  AliceSwapInv'
<1>1. \A s \in takerSwaps : Swapped(s)'
  BY Zenon, SwappedStays DEF AliceSwapInv, TypeOK
<1>2. CASE takerSwaps' = takerSwaps
  BY Zenon, <1>1, <1>2 DEF AliceSwapInv
<1>3. ASSUME NEW t \in Takers, NEW o \in AllOrders, ProcessMakerConnected(t, o) PROVE AliceSwapInv'
  <2>1. PICK m \in taker[t].matches :
             /\ takerSwaps' = takerSwaps \union {m} /\ m \in makerSwaps /\ m.taker = t
             /\ Within(m, request[t]) /\ taker[t].matches = {m} /\ taker[t].live
             /\ ~taker'[t].live /\ savedTaker'[t] = taker[t] /\ takerBusy'[t] = "delete"
             /\ t \notin budget'.takers
    BY Zenon, <1>3, SwapStarts
  <2>2. Swapped(m)'
    <3>1. m \in makerSwaps' /\ request' = request
      BY Zenon, <2>1, MakerSwapsGrow, CommonFrame
    <3>2. "delete" # "toMaker"
      BY Zenon
    <3>3. QED
      BY Zenon, <2>1, <3>1, <3>2 DEF Swapped
  <2>3. \A s \in takerSwaps : s.taker = t => s = m
    BY Zenon, <2>1 DEF AliceSwapInv, Swapped
  <2>4. \A s \in takerSwaps' : s \in takerSwaps \/ s = m
    BY Zenon, <2>1
  <2>5. \A s \in takerSwaps' : Swapped(s)'
    BY Zenon, <1>1, <2>2, <2>4
  <2>6. \A s, u \in takerSwaps' : s.taker = u.taker => s = u
    BY Zenon, <2>1, <2>3, <2>4 DEF AliceSwapInv
  <2>7. QED
    BY Zenon, <2>5, <2>6 DEF AliceSwapInv
<1>4. QED
  BY Zenon, <1>2, <1>3, CommonFrame
-----------------------------------------------------------------------------
(* Conversions, cancellations, volumes and started swaps.                   *)

\* A walk begins with live orders, and an answer comes from an order of a walk.
LEMMA WalkEffect ==
    ASSUME TypeOK, AnswerInv, Next
    PROVE  /\ \A n \in Nodes, u \in Takers : \A o \in walk'[n][u] : o \in walk[n][u] \/ order[o].live
           /\ \A r \in Answers' : r \in Answers \/ \E t \in Takers, o \in AllOrders : r.order = o /\ o \in walk[NodeOf[o]][t]
<1>1. CASE \E t \in Takers : TakerOnly(t)
  BY Zenon, <1>1, TakerFrame
<1>2. CASE (\E t \in Takers : Stores(t)) \/ (\E o \in AllOrders : OrderOnlyStep(o))
  <2>1. UNCHANGED <<walk, sent>>
    BY Zenon, <1>2, OrderFrame, StoresFrame DEF netVars
  <2>2. QED
    BY Zenon, <2>1 DEF Answers
<1>3. ASSUME NEW n \in Nodes, NEW t \in Takers, TakeOrders(n, t)
      PROVE  /\ \A k \in Nodes, u \in Takers : \A o \in walk'[k][u] : o \in walk[k][u] \/ order[o].live
             /\ Answers' = Answers
  <2>1. PICK own : /\ own = {o \in request[t].by : NodeOf[o] = n /\ order[o].live}
                   /\ walk' = [walk EXCEPT ![n][t] = own]
    BY Zenon, <1>3 DEF TakeOrders
  <2>2. \A o \in own : order[o].live
    BY Zenon, <2>1
  <2>3. walk'[n][t] = own /\ \A k \in Nodes, u \in Takers : k # n \/ u # t => walk'[k][u] = walk[k][u]
    BY Zenon, <2>1 DEF TypeOK
  <2>4. ASSUME NEW k \in Nodes, NEW u \in Takers, NEW o \in walk'[k][u] PROVE o \in walk[k][u] \/ order[o].live
    BY Zenon, <2>2, <2>3
  <2>5. Answers' = Answers
    BY Zenon, <1>3 DEF TakeOrders, Answers
  <2>6. QED
    BY Zenon, <2>4, <2>5
<1>4. ASSUME NEW t \in Takers, NEW o \in AllOrders, PassOver(NodeOf[o], t, o)
      PROVE  (\A k \in Nodes, u \in Takers : walk'[k][u] \subseteq walk[k][u]) /\ Answers' = Answers
  <2>1. walk' = [walk EXCEPT ![NodeOf[o]][t] = @ \ {o}] /\ sent' = sent
    BY Zenon, <1>4 DEF PassOver, netVars
  <2>2. \A n \in Nodes, u \in Takers : walk'[n][u] \subseteq walk[n][u]
    BY Zenon, <2>1, Homes DEF TypeOK
  <2>3. QED
    BY Zenon, <2>1, <2>2 DEF Answers
<1>5. ASSUME NEW t \in Takers, NEW o \in AllOrders, ProcessTakerRequest(NodeOf[o], t, o)
      PROVE  /\ \A k \in Nodes, u \in Takers : walk'[k][u] \subseteq walk[k][u]
             /\ \A r \in Answers' : r \in Answers \/ (r.order = o /\ o \in walk[NodeOf[o]][t])
  <2>1. o \in walk[NodeOf[o]][t] /\ walk' = [walk EXCEPT ![NodeOf[o]][t] = {}]
    BY Zenon, <1>5 DEF ProcessTakerRequest
  <2>2. \A n \in Nodes, u \in Takers : walk'[n][u] \subseteq walk[n][u]
    BY <2>1, Homes DEF TypeOK
  <2>3. CASE sent' = sent
    BY Zenon, <2>2, <2>3 DEF Answers
  <2>4. ASSUME NEW m \in Match, NEW msg \in Message, Reserves(NodeOf[o], t, o, m, msg)
        PROVE  \A r \in Answers' : r \in Answers \/ r.order = o
    BY Zenon, <2>4 DEF Reserves
  <2>5. QED
    BY ZenonT(40), <1>5, <2>1, <2>2, <2>3, <2>4, RequestEffect
<1>6. CASE \E t \in Takers, o \in AllOrders : TakeOrder(t, o)
  <2>1. UNCHANGED <<walk, sent>>
    BY Zenon, <1>6 DEF TakeOrder
  <2>2. QED
    BY Zenon, <2>1 DEF Answers
<1>7. ASSUME NEW t \in Takers, NEW o \in AllOrders, ProcessTakerConnect(t, o) PROVE walk' = walk /\ Answers' = Answers
  BY Zenon, <1>7, ConnectEffect DEF ProcessTakerConnect
<1>8. ASSUME NEW n \in Nodes, CrashRestart(n)
      PROVE  (\A k \in Nodes, u \in Takers : walk'[k][u] \subseteq walk[k][u]) /\ Answers' = Answers
  <2>1. \A k \in Nodes, u \in Takers : walk'[k][u] \subseteq walk[k][u]
    BY <1>8 DEF CrashRestart, TypeOK
  <2>2. sent' = sent
    BY Zenon, <1>8 DEF CrashRestart, netVars
  <2>3. QED
    BY Zenon, <2>1, <2>2 DEF Answers
<1>9. CASE \/ \E t \in Takers, o \in AllOrders : PassOver(NodeOf[o], t, o) \/ ProcessTakerConnect(t, o)
           \/ \E n \in Nodes : CrashRestart(n)
  <2>1. (\A k \in Nodes, u \in Takers : walk'[k][u] \subseteq walk[k][u]) /\ Answers' = Answers
    BY ZenonT(40), <1>4, <1>7, <1>8, <1>9
  <2>2. QED
    BY Zenon, <2>1
<1>10. CASE \E n \in Nodes, t \in Takers : TakeOrders(n, t)
  BY Zenon, <1>3, <1>10
<1>11. CASE \E t \in Takers, o \in AllOrders : ProcessTakerRequest(NodeOf[o], t, o)
  <2>1. PICK t \in Takers, o \in AllOrders : ProcessTakerRequest(NodeOf[o], t, o)
    BY Zenon, <1>11
  <2>2. /\ \A k \in Nodes, u \in Takers : walk'[k][u] \subseteq walk[k][u]
        /\ \A r \in Answers' : r \in Answers \/ (r.order = o /\ o \in walk[NodeOf[o]][t])
    BY Zenon, <1>5, <2>1
  <2>3. QED
    BY Zenon, <2>2
<1>12. QED
  BY ZenonT(40), <1>1, <1>2, <1>6, <1>9, <1>10, <1>11, NextCases

\* A taker order that may still trade could trade before.
LEMMA UnconvertedBefore ==
    ASSUME TypeOK, AnswerInv, BobInv, AliceInv, AliceSwapInv, Next, NEW t \in Takers, Unconverted(t)'
    PROVE  Unconverted(t) /\ ~EntryNew(t) /\ ~EntrySaved(t)
<1>0. /\ ~NoTaker.live /\ "toMaker" \notin {"no", "saveMaker", "save"} /\ "saveMaker" # "no"
      /\ "save" \notin {"no", "saveMaker"} /\ "delete" \notin {"no", "saveMaker"}
  BY Zenon DEF NoTaker
<1>1. CASE \E s \in takerSwaps' : s.taker = t /\ s \notin takerSwaps
  <2>1. taker[t].live
    <3>1. ASSUME NEW u \in Takers, NEW o \in AllOrders, ProcessMakerConnected(u, o) PROVE taker[t].live
      <4>1. PICK m \in taker[u].matches :
                 /\ takerSwaps' = takerSwaps \union {m} /\ m \in makerSwaps /\ m.taker = u
                 /\ Within(m, request[u]) /\ taker[u].matches = {m} /\ taker[u].live
                 /\ ~taker'[u].live /\ savedTaker'[u] = taker[u] /\ takerBusy'[u] = "delete"
                 /\ u \notin budget'.takers
        BY Zenon, <3>1, SwapStarts
      <4>2. QED
        BY Zenon, <1>1, <4>1
    <3>2. QED
      BY Zenon, <1>1, <3>1, CommonFrame
  <2>2. takerBusy[t] \notin {"toMaker", "saveMaker"}
    BY Zenon, <2>1 DEF AliceInv, TakerRecordInv
  <2>3. QED
    BY Zenon, <2>1, <2>2 DEF Unconverted, EntryNew, EntrySaved
<1>2. CASE \E s \in takerSwaps : s.taker = t
  <2>1. takerBusy[t] \notin {"toMaker", "saveMaker"}
    BY Zenon, <1>2 DEF AliceSwapInv, Swapped
  <2>2. QED
    BY Zenon, <1>2, <2>1 DEF Unconverted, EntryNew, EntrySaved
<1>3. CASE ~\E s \in takerSwaps' : s.taker = t
  <2>1. t \in budget'.takers \/ taker'[t].live \/ savedTaker'[t].live \/ takerBusy'[t] \notin {"no", "saveMaker"}
    BY Zenon, <1>3 DEF Unconverted
  <2>2. t \in budget'.takers => t \in budget.takers
    BY Zenon, CommonFrame
  <2>3. Unconverted(t)
    <3>1. CASE TakerSame(t)
      BY Zenon, <2>1, <2>2, <3>1 DEF TakerSame, Unconverted
    <3>2. CASE TakerPlaced(t) \/ TakerEnded(t) \/ TakerStored(t)
      BY Zenon, <1>0, <3>2 DEF TakerPlaced, TakerEnded, TakerStored, Unconverted
    <3>3. CASE \E r \in pending[t] : TakerMatched(t, r)
      BY Zenon, <3>3 DEF TakerMatched, Selects, Unconverted
    <3>4. CASE TakerRestored(t) \/ TakerConverted(t)
      BY Zenon, <2>1, <2>2, <3>4 DEF TakerRestored, TakerConverted, Unconverted
    <3>5. QED
      BY ZenonT(40), <3>1, <3>2, <3>3, <3>4, TakerCases
  <2>4. CASE EntryNew(t)
    <3>1. takerBusy[t] = "toMaker"
      BY Zenon, <2>4 DEF EntryNew
    <3>2. ~taker[t].live /\ t \notin budget.takers
      BY Zenon, <1>0, <3>1 DEF AliceInv, TakerRecordInv
    <3>3. takerBusy'[t] = "saveMaker" /\ taker'[t] = taker[t] /\ savedTaker'[t] = NoTaker
      BY Zenon, <2>4 DEF EntryNew
    <3>4. QED
      BY ZenonT(40), <1>0, <2>1, <2>2, <3>2, <3>3
  <2>5. CASE EntrySaved(t)
    <3>1. takerBusy[t] = "saveMaker"
      BY Zenon, <2>5 DEF EntrySaved
    <3>2. ~taker[t].live /\ ~savedTaker[t].live /\ t \notin budget.takers
      BY Zenon, <1>0, <3>1 DEF AliceInv, TakerRecordInv
    <3>3. takerBusy'[t] = "no" /\ taker'[t] = taker[t] /\ savedTaker'[t] = savedTaker[t]
      BY Zenon, <2>5 DEF EntrySaved
    <3>4. QED
      BY ZenonT(40), <2>1, <2>2, <3>2, <3>3
  <2>6. QED
    BY Zenon, <2>3, <2>4, <2>5
<1>4. QED
  BY Zenon, <1>1, <1>2, <1>3

\* A taker order is traded as a taker order or as a maker order, never as both.
LEMMA ConvertStep ==
    ASSUME TypeOK, AnswerInv, BobInv, AliceInv, AliceSwapInv, ConvertInv, Next
    PROVE  ConvertInv'
<1>0. SUFFICES ASSUME NEW t \in Takers, Unconverted(t)'
               PROVE  /\ order'[t] = NoOrder /\ saved'[t] = NoOrder /\ busy'[t] = Idle /\ t \notin cancelled'
                      /\ \A n \in Nodes, u \in Takers : t \notin walk'[n][u]
                      /\ \A r \in Answers' : r.order # t
  BY Zenon DEF ConvertInv
<1>1. t \in AllOrders /\ NodeOf[t] \in Nodes
  BY Zenon, Homes DEF AllOrders
<1>2. ~EntryNew(t) /\ ~EntrySaved(t) /\ order[t] = NoOrder /\ saved[t] = NoOrder /\ busy[t] = Idle /\ t \notin cancelled
  BY Zenon, <1>0, UnconvertedBefore DEF ConvertInv
<1>3. (\A n \in Nodes, u \in Takers : t \notin walk[n][u]) /\ \A r \in Answers : r.order # t
  BY Zenon, <1>0, UnconvertedBefore DEF ConvertInv
<1>4. ~NoOrder.live /\ Idle.how = "no" /\ \A u \in Takers : ~Ongoing(NoOrder, u)
  BY DEF NoOrder, NoMatch, Idle, Ongoing, Matched
<1>5. \A n \in Nodes, u \in Takers : t \notin walk'[n][u]
  BY ZenonT(40), <1>2, <1>3, <1>4, WalkEffect
<1>6. \A r \in Answers' : r.order # t
  BY Zenon, <1>1, <1>3, WalkEffect
<1>7. order'[t] = NoOrder /\ saved'[t] = NoOrder /\ busy'[t] = Idle /\ t \notin cancelled'
  <2>1. CASE EntrySame(t) \/ EntryRestored(t)
    BY Zenon, <1>2, <2>1 DEF EntrySame, EntryRestored
  <2>2. CASE OrderEffect(t)
    BY ZenonT(40), <1>2, <1>4, <2>2 DEF OrderEffect
  <2>3. ~EntryOut(t)
    BY Zenon, <1>2, <1>4 DEF EntryOut
  <2>4. \A u \in Takers : ~ProcessTakerRequest(NodeOf[t], u, t)
    BY Zenon, <1>1, <1>3 DEF ProcessTakerRequest
  <2>5. \A u \in Takers, m \in Match : ~Connects(u, t, m)
    BY Zenon, <1>2, <1>4 DEF Connects
  <2>6. QED
    BY ZenonT(40), <1>1, <1>2, <2>1, <2>2, <2>3, <2>4, <2>5, EntryCases
<1>8. QED
  BY Zenon, <1>5, <1>6, <1>7

\* A cancelled order starts no swap, not even for a handler that holds it.
LEMMA CancelStep ==
    ASSUME TypeOK, AnswerInv, ConnectInv, MatchInv, ConvertInv, CancelInv, Next
    PROVE  CancelInv'
<1>0. SUFFICES ASSUME NEW o \in cancelled', ~Restorable(o)'
               PROVE  /\ ~order'[o].live
                      /\ busy'[o].how = "delete" \/ (busy'[o].how = "no" /\ Gone(o)')
                      /\ \A t \in Takers : <<t, o>> \in connecting' => ~Ongoing(order'[o], t)
  BY Zenon DEF CancelInv, Ended
<1>1. o \in AllOrders
  BY ZenonT(40), TypeStep DEF TypeOK
<1>2. Idle.how = "no" /\ Deletion.how = "delete" /\ ~NoOrder.live /\ "toMaker" \notin {"no", "saveMaker"}
  BY Zenon DEF Idle, Deletion, NoOrder
<1>3. ASSUME NEW t \in Takers, <<t, o>> \in connecting', <<t, o>> \notin connecting PROVE order[o].live
  <2>1. PICK u \in Takers, p \in AllOrders : connecting' = connecting \union {<<u, p>>} /\ order[p].live
    BY Zenon, <1>3, ConnectingGrows
  <2>2. o = p
    BY Zenon, <1>3, <2>1
  <2>3. QED
    BY Zenon, <2>1, <2>2
<1>a. ASSUME o \in cancelled
      PROVE  /\ ~order[o].live /\ (busy[o].how = "delete" \/ (busy[o].how = "no" /\ Gone(o)))
             /\ \A t \in Takers : <<t, o>> \in connecting => ~Ongoing(order[o], t)
  <2>1. ~Restorable(o)
    BY Zenon, <1>0, CommonFrame DEF Restorable
  <2>2. QED
    BY Zenon, <1>a, <2>1 DEF CancelInv, Ended
<1>b. ASSUME Gone(o), saved'[o] = saved[o] \/ o \in Takers PROVE Gone(o)'
  BY Zenon, <1>b, CommonFrame, OrderMatchAssumption DEF Gone
<1>4. CASE EntrySame(o)
  BY Zenon, <1>0, <1>3, <1>4, <1>a, <1>b DEF EntrySame
<1>5. CASE OrderOnlyStep(o) /\ OrderEffect(o)
  <2>1. connecting' = connecting
    BY Zenon, <1>1, <1>5, OrderFrame
  <2>2. CASE o \notin cancelled
    BY Zenon, <1>0, <1>2, <1>5, <2>2 DEF OrderEffect
  <2>3. CASE o \in cancelled
    <3>1. /\ ~order[o].live /\ (busy[o].how = "delete" \/ (busy[o].how = "no" /\ Gone(o)))
          /\ \A t \in Takers : <<t, o>> \in connecting => ~Ongoing(order[o], t)
      BY Zenon, <1>a, <2>3
    <3>2. order'[o] = order[o]
      BY Zenon, <1>5, <3>1 DEF OrderEffect
    <3>3. CASE saved'[o] = saved[o] /\ busy'[o] = busy[o]
      BY Zenon, <1>b, <2>1, <3>1, <3>2, <3>3
    <3>4. CASE /\ busy[o].how # "no" /\ saved'[o] = busy[o].state /\ busy'[o] \in {Idle, Deletion}
               /\ busy[o].how = "delete" /\ o \in Kept => o \in removals'
      <4>1. busy[o].how = "delete" /\ busy[o].state = NoOrder
        BY Zenon, <1>1, <3>1, <3>4 DEF MatchInv
      <4>2. ~saved'[o].live /\ (o \in Kept => o \in removals')
        BY Zenon, <1>2, <3>4, <4>1
      <4>3. Gone(o)'
        BY Zenon, <1>1, <4>2 DEF Gone, AllOrders
      <4>4. busy'[o].how = "delete" \/ busy'[o].how = "no"
        BY Zenon, <1>2, <3>4
      <4>5. QED
        BY Zenon, <2>1, <3>1, <3>2, <4>3, <4>4
    <3>5. QED
      BY Zenon, <1>5, <3>1, <3>3, <3>4 DEF OrderEffect
  <2>4. QED
    BY Zenon, <2>2, <2>3
<1>6. ~EntryOut(o)
  BY Zenon, <1>0, <1>a DEF EntryOut
<1>7. ASSUME NEW t \in Takers, NEW m \in Match, NEW msg, ProcessTakerRequest(NodeOf[o], t, o), EntryMatch(o, t, m)
      PROVE  /\ ~order'[o].live
             /\ busy'[o].how = "delete" \/ (busy'[o].how = "no" /\ Gone(o)')
             /\ \A u \in Takers : <<u, o>> \in connecting' => ~Ongoing(order'[o], u)
  <2>1. o \in walk[NodeOf[o]][t] /\ connecting' = connecting
    BY Zenon, <1>7 DEF ProcessTakerRequest
  <2>2. o \in cancelled
    BY Zenon, <1>0, <1>7 DEF EntryMatch
  <2>3. /\ ~order[o].live /\ (busy[o].how = "delete" \/ (busy[o].how = "no" /\ Gone(o)))
        /\ \A u \in Takers : <<u, o>> \in connecting => ~Ongoing(order[o], u)
    BY Zenon, <1>a, <2>2
  <2>4. <<t, o>> \notin connecting
    <3>1. <<t, o>> \in connecting => ConnectMsg(<<t, o>>[1], <<t, o>>[2]) \in sent
      BY Zenon DEF ConnectInv
    <3>2. <<t, o>> \in connecting => ConnectMsg(t, o) \in sent
      BY Zenon, <3>1
    <3>3. ASSUME NEW r \in Answers, r.order = o, r.taker = t PROVE FALSE
      BY Zenon, <2>1, <3>3 DEF AnswerInv, WalkedInv
    <3>4. QED
      BY Zenon, <1>1, <3>2, <3>3 DEF ConnectInv, ConnectAnswered
  <2>5. /\ order'[o].live = order[o].live /\ \A u \in Takers : u # t => order'[o].matches[u] = order[o].matches[u]
    BY Zenon, <1>7 DEF EntryMatch, Replaced
  <2>6. \A u \in Takers : u # t /\ ~Ongoing(order[o], u) => ~Ongoing(order'[o], u)
    BY Zenon, <2>5 DEF Ongoing, Matched
  <2>7. saved'[o] = saved[o] /\ busy'[o] = busy[o]
    BY Zenon, <1>7, <2>3 DEF EntryMatch
  <2>8. busy'[o].how = "delete" \/ (busy'[o].how = "no" /\ Gone(o)')
    BY Zenon, <1>b, <2>3, <2>7
  <2>9. QED
    BY ZenonT(40), <2>1, <2>3, <2>4, <2>5, <2>6, <2>8
<1>8. ASSUME NEW t \in Takers, NEW m \in Match, ProcessTakerConnect(t, o), Connects(t, o, m), EntryMatch(o, t, m)
      PROVE  FALSE
  BY Zenon, <1>0, <1>8, <1>a DEF EntryMatch, ProcessTakerConnect, Connects
<1>9. ~EntryNew(o)
  BY Zenon, <1>0, <1>2 DEF EntryNew, ConvertInv, Unconverted
<1>10. CASE EntrySaved(o)
  <2>1. o \in Takers /\ o \in cancelled /\ order'[o] = order[o] /\ busy'[o] = busy[o]
    BY Zenon, <1>0, <1>10 DEF EntrySaved
  <2>2. QED
    BY Zenon, <1>3, <1>a, <1>b, <2>1
<1>11. CASE EntryRestored(o)
  <2>1. /\ o \in cancelled /\ busy[o].how # "delete" /\ busy'[o] = Idle /\ order'[o] = saved'[o]
        /\ saved'[o] = (IF o \in removals THEN NoOrder ELSE saved[o])
        /\ NodeOf[o] \in crashed' /\ \A t \in Takers : <<t, o>> \notin connecting'
    BY Zenon, <1>0, <1>11 DEF EntryRestored
  <2>2. Gone(o) /\ o \notin Takers \ Kept
    BY Zenon, <1>0, <1>a, <2>1 DEF Restorable
  <2>3. ~saved'[o].live
    BY Zenon, <1>2, <2>1, <2>2 DEF Gone
  <2>4. Gone(o)'
    BY Zenon, <2>2, <2>3, CommonFrame DEF Gone
  <2>5. QED
    BY Zenon, <1>2, <2>1, <2>3, <2>4
<1>12. QED
  BY ZenonT(40), <1>1, <1>4, <1>5, <1>6, <1>7, <1>8, <1>9, <1>10, <1>11, EntryCases

\* An order that is created has answered nobody.
LEMMA NewIsUnanswered ==
    ASSUME ConvertInv, NEW o, EntryNew(o)
    PROVE  \A t, base, rel : ~Answered(Answers, o, t, base, rel)
<1>1. "toMaker" \notin {"no", "saveMaker"}
  BY Zenon
<1>2. o \in Takers /\ Unconverted(o)
  BY Zenon, <1>1 DEF EntryNew, Unconverted
<1>3. \A r \in Answers : r.order # o
  BY Zenon, <1>2 DEF ConvertInv
<1>4. QED
  BY Zenon, <1>3 DEF Answered

\* An order without matches holds nothing.
LEMMA NothingHeld ==
    /\ \A ord \in Order : (\A t \in Takers : ord.matches[t].base = 0) => Covered(ord)
    /\ Covered(NoOrder)
    /\ \A r \in Request : Covered(FromTakerOrder(r))
<1>1. ASSUME NEW ord \in Order, \A t \in Takers : ord.matches[t].base = 0 PROVE Covered(ord)
  <2>1. Summable(ord.matches) /\ ord.vol \in Nat
    BY Zenon DEF Order, Match, Summable
  <2>2. reserved_amount(ord) = 0
    BY ZenonT(40), <1>1, <2>1, ReservedIs, SumIsZero
  <2>3. QED
    BY <2>1, <2>2 DEF Covered
<1>2. \A t \in Takers : NoOrder.matches[t].base = 0
  BY Zenon DEF NoOrder, NoMatch
<1>3. ASSUME NEW r \in Request PROVE \A t \in Takers : FromTakerOrder(r).matches[t].base = 0
  BY Zenon DEF FromTakerOrder, NoOrder, NoMatch
<1>4. QED
  BY Zenon, <1>1, <1>2, <1>3, ConstantTypes, FromTakerType

\* No order holds more than its volume, wherever its state is kept.
LEMMA VolumeStep == ASSUME TypeOK, AnswerInv, VolumeInv, Next PROVE VolumeInv'
<1>0. SUFFICES ASSUME NEW o \in AllOrders
               PROVE  /\ Covered(order'[o]) /\ Covered(saved'[o]) /\ Covered(busy'[o].state)
                      /\ update'[o].active => reserved_amount(update'[o].before) <= update'[o].vol
  BY Zenon DEF VolumeInv, Covered
<1>1. /\ Covered(order[o]) /\ Covered(saved[o]) /\ Covered(busy[o].state)
      /\ update[o].active => reserved_amount(update[o].before) <= update[o].vol
  BY Zenon DEF VolumeInv
<1>2. Covered(Idle.state) /\ Covered(Deletion.state) /\ ~NoUpdate.active
  BY Zenon, NothingHeld DEF Idle, Deletion, NoUpdate
<1>3. CASE EntrySame(o) \/ EntryRestored(o)
  BY Zenon, <1>1, <1>2, <1>3, NothingHeld DEF EntrySame, EntryRestored
<1>4. CASE EntryOut(o)
  <2>1. reserved_amount(order'[o]) = reserved_amount(order[o]) /\ order'[o].vol = order[o].vol
    BY Zenon, <1>4, ReservedIs DEF EntryOut
  <2>2. Covered(order'[o])
    BY Zenon, <1>1, <2>1 DEF Covered
  <2>3. QED
    BY ZenonT(40), <1>1, <1>2, <1>4, <2>2 DEF EntryOut
<1>5. CASE EntryNew(o) \/ EntrySaved(o)
  <2>1. Covered(FromTakerOrder(request[o]))
    BY ZenonT(40), <1>5, NothingHeld DEF EntryNew, EntrySaved, TypeOK
  <2>2. QED
    BY ZenonT(40), <1>1, <1>5, <2>1 DEF EntryNew, EntrySaved
<1>6. ASSUME NEW t \in Takers, NEW m \in Match, EntryMatch(o, t, m), Covered(WithMatch(order[o], t, m))
      PROVE  /\ Covered(order'[o]) /\ Covered(saved'[o]) /\ Covered(busy'[o].state)
             /\ update'[o].active => reserved_amount(update'[o].before) <= update'[o].vol
  <2>1. PICK new : new = WithMatch(order[o], t, m)
    BY Zenon
  <2>2. [how |-> "locked", state |-> new].state = new
    BY Zenon
  <2>3. QED
    BY ZenonT(40), <1>1, <1>6, <2>1, <2>2 DEF EntryMatch
<1>7. CASE OrderEffect(o)
  <2>1. Covered(order'[o]) /\ (update'[o].active => reserved_amount(update'[o].before) <= update'[o].vol)
    BY Zenon, <1>7 DEF OrderEffect
  <2>2. [how |-> "open", state |-> order'[o]].state = order'[o]
    BY Zenon
  <2>3. busy'[o] \in {busy[o], Idle, Deletion} \/ busy'[o] = [how |-> "open", state |-> order'[o]]
    BY Zenon, <1>7 DEF OrderEffect
  <2>4. Covered(busy'[o].state)
    BY Zenon, <1>1, <1>2, <2>1, <2>2, <2>3
  <2>5. Covered(saved'[o])
    BY Zenon, <1>1, <1>7 DEF OrderEffect
  <2>6. QED
    BY Zenon, <2>1, <2>4, <2>5
<1>8. \A t \in Takers, m \in Match, msg \in Message : Reserves(NodeOf[o], t, o, m, msg) => Covered(WithMatch(order[o], t, m))
  BY ZenonT(40) DEF Reserves
<1>9. \A t \in Takers, m \in Match : Connects(t, o, m) => Covered(WithMatch(order[o], t, m))
  BY Zenon, <1>1 DEF Connects
<1>10. QED
  BY ZenonT(40), <1>3, <1>4, <1>5, <1>6, <1>7, <1>8, <1>9, EntryCases

\* A swap that was started is connected in its order while the order stands.
LEMMA StartedStep ==
    ASSUME TypeOK, AnswerInv, BobInv, ConvertInv, StartedStaysReserved, Next
    PROVE  StartedStaysReserved'
<1>0. SUFFICES ASSUME NEW s \in makerSwaps', order'[s.order].live, NodeOf[s.order] \notin crashed'
               PROVE  order'[s.order].matches[s.taker] = [base |-> s.base, rel |-> s.rel, connected |-> TRUE]
  BY Zenon DEF StartedStaysReserved
<1>1. ASSUME NEW t \in Takers, NEW o \in AllOrders, NEW m \in Match, Connects(t, o, m), s = Swap(o, t, m)
      PROVE  order'[s.order].matches[s.taker] = [base |-> s.base, rel |-> s.rel, connected |-> TRUE]
  <2>1. s.order = o /\ s.taker = t /\ s.base = m.base /\ s.rel = m.rel
    BY Zenon, <1>1 DEF Swap
  <2>2. order' = [order EXCEPT ![o] = WithMatch(order[o], t, m)] /\ WithMatch(order[o], t, m).matches[t] = m /\ m.connected
    BY Zenon, <1>1 DEF Connects, Replaced
  <2>3. order'[o].matches[t] = m
    BY ZenonT(40), <2>2 DEF TypeOK
  <2>4. m = [base |-> m.base, rel |-> m.rel, connected |-> TRUE]
    BY Zenon, <2>2 DEF Match
  <2>5. QED
    BY Zenon, <2>1, <2>3, <2>4
<1>2. ASSUME s \in makerSwaps
      PROVE  order'[s.order].matches[s.taker] = [base |-> s.base, rel |-> s.rel, connected |-> TRUE]
  <2>0. PICK o \in AllOrders, t \in Takers : o = s.order /\ t = s.taker
    BY Zenon, <1>2 DEF TypeOK, SwapRecord
  <2>1. NodeOf[o] \notin crashed /\ s.base > 0 /\ Answered(Answers, o, t, s.base, s.rel)
    BY Zenon, <1>0, <1>2, <2>0, CommonFrame DEF BobInv, MakerSwapInv
  <2>2. ~EntryNew(o)
    BY Zenon, <2>1, NewIsUnanswered
  <2>3. ~EntryRestored(o) /\ ~EntryOut(o)
    BY Zenon, <1>0, <2>0 DEF EntryRestored, EntryOut
  <2>4. order[o].live
    <3>1. \A u \in Takers, m \in Match : EntryMatch(o, u, m) => order'[o].live = order[o].live
      BY Zenon DEF EntryMatch, Replaced
    <3>2. EntrySame(o) \/ EntrySaved(o) => order'[o].live = order[o].live
      BY Zenon DEF EntrySame, EntrySaved
    <3>3. OrderEffect(o) => order[o].live
      BY Zenon, <1>0, <2>0 DEF OrderEffect
    <3>4. QED
      BY ZenonT(40), <1>0, <2>0, <2>2, <2>3, <3>1, <3>2, <3>3, EntryCases
  <2>5. order[o].matches[t] = [base |-> s.base, rel |-> s.rel, connected |-> TRUE]
    BY ZenonT(40), <1>2, <2>0, <2>1, <2>4 DEF StartedStaysReserved
  <2>6. Matched(order[o], t) /\ ~Ongoing(order[o], t)
    BY <2>1, <2>5 DEF Matched, Ongoing
  <2>7. order'[o].matches[t] = order[o].matches[t]
    <3>1. ASSUME NEW u \in Takers, NEW m \in Match, NEW msg, Reserves(NodeOf[o], u, o, m, msg), EntryMatch(o, u, m)
          PROVE  order'[o].matches[t] = order[o].matches[t]
      <4>1. u # t
        BY Zenon, <2>6, <3>1 DEF Reserves
      <4>2. QED
        BY Zenon, <3>1, <4>1 DEF EntryMatch, Replaced
    <3>2. ASSUME NEW u \in Takers, NEW m \in Match, Connects(u, o, m), EntryMatch(o, u, m)
          PROVE  order'[o].matches[t] = order[o].matches[t]
      <4>1. u # t
        BY Zenon, <2>6, <3>2 DEF Connects
      <4>2. QED
        BY Zenon, <3>2, <4>1 DEF EntryMatch, Replaced
    <3>3. EntrySame(o) \/ EntrySaved(o) => order'[o].matches[t] = order[o].matches[t]
      BY Zenon DEF EntrySame, EntrySaved
    <3>4. OrderEffect(o) => order'[o].matches[t] = order[o].matches[t]
      BY Zenon, <2>6 DEF OrderEffect
    <3>5. QED
      BY ZenonT(40), <2>2, <2>3, <3>1, <3>2, <3>3, <3>4, EntryCases
  <2>8. QED
    BY ZenonT(40), <2>0, <2>5, <2>7
<1>3. QED
  BY ZenonT(40), <1>0, <1>1, <1>2, MakerSwapsGrow
-----------------------------------------------------------------------------
(* The invariant, and what it implies.                                      *)

OrderMatchInv ==
    /\ TypeOK /\ AnswerInv /\ ConnectInv /\ MatchInv /\ BobInv /\ AliceInv /\ AliceSwapInv
    /\ ConvertInv /\ CancelInv /\ VolumeInv /\ StartedStaysReserved

\* It holds before the first request.
LEMMA InvInit == ASSUME Init PROVE OrderMatchInv
<1>1. TypeOK
  BY Zenon, TypeInit
<1>2. Answers = {}
  BY Zenon DEF Init, Answers
<1>3. AnswerInv
  <2>1. /\ \A n \in Nodes, t \in Takers : walk[n][t] = {}
        /\ \A t \in Takers : pending[t] = {}
    BY Zenon DEF Init
  <2>2. QED
    BY Zenon, <1>2, <2>1 DEF AnswerInv, WalkInv, WalkedInv, OneAnswer, PendingInv
<1>4. ConnectInv /\ BobInv /\ CancelInv /\ StartedStaysReserved /\ TakerConnectInv
  <2>1. sent = {} /\ connecting = {} /\ makerSwaps = {} /\ cancelled = {}
    BY Zenon DEF Init
  <2>2. QED
    BY Zenon, <2>1 DEF ConnectInv, ConnectAnswered, BobInv, MakerSwapInv, ConnectedInv, CancelInv,
       StartedStaysReserved, TakerConnectInv
<1>5. ASSUME NEW o \in AllOrders
      PROVE  /\ saved[o] = order[o] /\ busy[o] = Idle /\ update[o] = NoUpdate
             /\ order[o].matches = NoOrder.matches /\ (o \in Takers => order[o] = NoOrder)
  <2>1. saved[o] = order[o] /\ busy[o] = Idle /\ update[o] = NoUpdate
    BY Zenon DEF Init
  <2>2. PICK sc \in Scenarios :
          order = [p \in AllOrders |-> IF p \in Orders /\ sc.offer[p].vol > 0
                                       THEN [NoOrder EXCEPT !.live = TRUE, !.vol = sc.offer[p].vol,
                                                            !.min = sc.offer[p].min, !.price = sc.offer[p].price]
                                       ELSE NoOrder]
    BY Zenon DEF Init
  <2>3. o \in Takers => o \notin Orders
    BY Zenon, OrderMatchAssumption
  <2>4. order[o] = IF o \in Orders /\ sc.offer[o].vol > 0
                   THEN [NoOrder EXCEPT !.live = TRUE, !.vol = sc.offer[o].vol,
                                        !.min = sc.offer[o].min, !.price = sc.offer[o].price]
                   ELSE NoOrder
    BY Zenon, <2>2
  <2>5. order[o].matches = NoOrder.matches
    BY Zenon, <2>4 DEF NoOrder
  <2>6. QED
    BY Zenon, <2>1, <2>3, <2>4, <2>5
<1>6. /\ Idle.state = NoOrder /\ Idle.how # "delete" /\ ~NoUpdate.active
      /\ \A t \in Takers : NoOrder.matches[t].base = 0
  BY Zenon DEF Idle, NoUpdate, NoOrder, NoMatch
<1>7. MatchInv
  <2>1. \A o \in AllOrders : MatchesAnswered(Answers, o, order[o])
    <3>1. \A o \in AllOrders : MatchesAnswered(Answers, o, NoOrder)
      BY Zenon, NoMatchesAnswered
    <3>2. QED
      BY Zenon, <1>5, <3>1 DEF MatchesAnswered, Matched
  <2>2. QED
    BY Zenon, <1>5, <1>6, <2>1, NoMatchesAnswered DEF MatchInv
<1>8. VolumeInv
  <2>1. ASSUME NEW o \in AllOrders PROVE Covered(order[o])
    <3>1. order[o] \in Order
      BY Zenon, <1>1 DEF TypeOK
    <3>2. \A t \in Takers : order[o].matches[t].base = 0
      BY Zenon, <1>5, <1>6
    <3>3. QED
      BY ZenonT(40), <3>1, <3>2, NothingHeld
  <2>2. QED
    BY Zenon, <1>5, <1>6, <2>1, NothingHeld DEF VolumeInv
<1>9. \A t \in Takers : /\ taker[t] = NoTaker /\ savedTaker[t] = NoTaker /\ takerBusy[t] = "no"
                        /\ ~NoTaker.live /\ NoTaker.matches = {}
  BY Zenon DEF Init, NoTaker
<1>10. AliceInv
  <2>1. TakerMatchInv
    BY Zenon, <1>9 DEF TakerMatchInv, OneMatch
  <2>2. TakerRecordInv
    BY Zenon, <1>9 DEF TakerRecordInv
  <2>3. QED
    BY Zenon, <1>4, <2>1, <2>2 DEF AliceInv
<1>11. AliceSwapInv
  BY Zenon DEF Init, AliceSwapInv
<1>12. ConvertInv
  <2>1. \A t \in Takers : t \in AllOrders /\ t \notin cancelled /\ \A n \in Nodes, u \in Takers : t \notin walk[n][u]
    BY Zenon DEF Init, AllOrders
  <2>2. \A t \in Takers : order[t] = NoOrder /\ saved[t] = NoOrder /\ busy[t] = Idle
    BY Zenon, <1>5, <2>1
  <2>3. QED
    BY Zenon, <1>2, <2>1, <2>2 DEF ConvertInv
<1>13. QED
  BY ZenonT(40), <1>1, <1>3, <1>4, <1>7, <1>8, <1>10, <1>11, <1>12 DEF OrderMatchInv

\* Every step keeps it.
LEMMA InvStep == ASSUME OrderMatchInv, [Next]_vars PROVE OrderMatchInv'
<1>1. CASE Next
  <2>1. TypeOK' /\ AnswerInv' /\ ConnectInv' /\ MatchInv'
    BY ZenonT(40), <1>1, TypeStep, AnswerStep, ConnectStep, MatchStep DEF OrderMatchInv
  <2>2. BobInv' /\ AliceInv' /\ AliceSwapInv'
    BY ZenonT(40), <1>1, BobStep, AliceStep, AliceSwapStep DEF OrderMatchInv
  <2>3. ConvertInv' /\ CancelInv' /\ VolumeInv' /\ StartedStaysReserved'
    BY ZenonT(40), <1>1, ConvertStep, CancelStep, VolumeStep, StartedStep DEF OrderMatchInv
  <2>4. QED
    BY Zenon, <2>1, <2>2, <2>3 DEF OrderMatchInv
<1>2. CASE UNCHANGED vars
  <2>1. UNCHANGED <<request, order, saved, busy, update, walk, connecting, taker, savedTaker, takerBusy, pending,
                    sent, seen, makerSwaps, takerSwaps, cancelled, crashed, budget, removals>>
    BY Zenon, <1>2 DEF vars, orderVars, takerVars, netVars, history, rest
  <2>2. TypeOK'
    BY ZenonT(40), <1>2, TypeStep DEF OrderMatchInv
  <2>3. AnswerInv' /\ ConnectInv'
    BY <2>1 DEF OrderMatchInv, AnswerInv, WalkInv, WalkedInv, OneAnswer, PendingInv, ConnectInv, ConnectAnswered, Answers
  <2>4. MatchInv' /\ BobInv'
    BY Zenon, <2>1 DEF OrderMatchInv, MatchInv, BobInv, MakerSwapInv, ConnectedInv, Answers
  <2>5. AliceInv' /\ AliceSwapInv'
    BY ZenonT(40), <2>1 DEF OrderMatchInv, AliceInv, TakerMatchInv, TakerRecordInv, TakerConnectInv, AliceSwapInv, Swapped, Answers
  <2>6. ConvertInv' /\ CancelInv' /\ VolumeInv' /\ StartedStaysReserved'
    BY Zenon, <2>1 DEF OrderMatchInv, ConvertInv, Unconverted, CancelInv, Restorable, Ended, Gone, VolumeInv, Covered,
       StartedStaysReserved, Answers
  <2>7. QED
    BY ZenonT(40), <2>2, <2>3, <2>4, <2>5, <2>6 DEF OrderMatchInv
<1>3. QED
  BY Zenon, <1>1, <1>2

\* The invariant holds of every behaviour of the two sides of the negotiation.
THEOREM OrderMatchInvariant == Spec => []OrderMatchInv
<1>1. Init => OrderMatchInv
  BY Zenon, InvInit
<1>2. OrderMatchInv /\ [Next]_vars => OrderMatchInv'
  BY Zenon, InvStep
<1>3. QED
  BY <1>1, <1>2, PTL DEF Spec

\* Every variable has its type: in particular the volume that balance_updated
\* leaves an order is a natural number.
THEOREM OrderMatchTypes == Spec => []TypeOK
<1>1. OrderMatchInv => TypeOK
  BY Zenon DEF OrderMatchInv
<1>2. QED
  BY <1>1, OrderMatchInvariant, PTL

\* The matches of a maker order never hold more than its volume.
THEOREM VolumeKept == Spec => []NeverOverReserved
<1>1. OrderMatchInv => NeverOverReserved
  BY Zenon DEF OrderMatchInv, VolumeInv, Covered, NeverOverReserved
<1>2. QED
  BY <1>1, OrderMatchInvariant, PTL

\* The swap lp_connected_alice starts is the one lp_connect_start_bob has
\* started, within the limit of the taker's request.
THEOREM TheSwapsAgree == Spec => []SwapsAgree
<1>1. OrderMatchInv => SwapsAgree
  BY Zenon DEF OrderMatchInv, AliceSwapInv, Swapped, Within, SwapsAgree
<1>2. QED
  BY <1>1, OrderMatchInvariant, PTL

\* A taker's node starts one swap for its order; the maker order it becomes is
\* another trade; and two makers start swaps only if the taker's node crashed.
THEOREM SwappedOnce == Spec => []AmountSwappedOnce
<1>1. ASSUME OrderMatchInv PROVE AmountSwappedOnce
  <2>0. TypeOK /\ AnswerInv /\ BobInv /\ AliceInv /\ AliceSwapInv /\ ConvertInv
    BY Zenon, <1>1 DEF OrderMatchInv
  <2>1. \A s, u \in takerSwaps : s.taker = u.taker => s = u
    BY Zenon, <2>0 DEF AliceSwapInv
  <2>2. ASSUME NEW s \in takerSwaps, NEW u \in makerSwaps PROVE s.taker # u.order
    <3>1. s.taker \in Takers
      BY Zenon, <2>0 DEF TypeOK, SwapRecord
    <3>2. \A r \in Answers : r.order # s.taker
      BY Zenon, <2>0, <3>1 DEF ConvertInv, Unconverted
    <3>3. \E r \in Answers : r.order = u.order
      BY Zenon, <2>0 DEF BobInv, MakerSwapInv, Answered
    <3>4. QED
      BY Zenon, <3>2, <3>3
  <2>3. ASSUME NEW s \in makerSwaps, NEW u \in makerSwaps, s.taker = u.taker, NodeOf[s.taker] \notin crashed
        PROVE  s = u
    <3>1. /\ s \in SwapRecord /\ u \in SwapRecord
          /\ s.taker \in Takers /\ s.order \in AllOrders /\ u.order \in AllOrders
      BY Zenon, <2>0 DEF TypeOK, SwapRecord
    <3>2. /\ Answered(Answers, s.order, s.taker, s.base, s.rel) /\ Answered(Answers, u.order, u.taker, u.base, u.rel)
          /\ ConnectMsg(s.taker, s.order) \in sent /\ ConnectMsg(s.taker, u.order) \in sent
      BY Zenon, <2>0, <2>3 DEF BobInv, MakerSwapInv
    <3>3. PICK m \in taker[s.taker].matches : m.order = s.order
      BY Zenon, <2>0, <2>3, <3>1, <3>2 DEF AliceInv, TakerConnectInv
    <3>4. PICK k \in taker[s.taker].matches : k.order = u.order
      BY Zenon, <2>0, <2>3, <3>1, <3>2 DEF AliceInv, TakerConnectInv
    <3>5. m = k
      <4>1. OneMatch(Answers, request[s.taker], s.taker, taker[s.taker].matches)
        BY Zenon, <2>0, <3>1 DEF AliceInv, TakerMatchInv
      <4>2. QED
        BY Zenon, <4>1 DEF OneMatch
    <3>6. QED
      BY ZenonT(40), <2>0, <2>3, <3>1, <3>2, <3>3, <3>4, <3>5, SameSwap
  <2>4. QED
    BY Zenon, <2>1, <2>2, <2>3 DEF AmountSwappedOnce
<1>2. OrderMatchInv => AmountSwappedOnce
  BY Zenon, <1>1
<1>3. QED
  BY <1>2, OrderMatchInvariant, PTL

\* A started swap keeps its volume while its order stands: the timeout pass
\* drops unconnected matches only.
THEOREM StartedKept == Spec => []StartedStaysReserved
<1>1. OrderMatchInv => StartedStaysReserved
  BY Zenon DEF OrderMatchInv
<1>2. QED
  BY <1>1, OrderMatchInvariant, PTL

\* process_taker_connect starts no swap for an order the user has cancelled,
\* although it may have taken the order before and the save of a converted
\* taker order may have followed the deletion.
THEOREM NoSwapOnceCancelled == Spec => CancelledStartsNoSwap
<1>1. ASSUME OrderMatchInv, Next
      PROVE  \A s \in makerSwaps' \ makerSwaps : s.order \in cancelled => Restorable(s.order)
  <2>1. TypeOK /\ AnswerInv /\ CancelInv
    BY Zenon, <1>1 DEF OrderMatchInv
  <2>2. ASSUME NEW s \in makerSwaps', s \notin makerSwaps, s.order \in cancelled PROVE Restorable(s.order)
    <3>1. PICK t \in Takers, o \in AllOrders, m \in Match :
            Connects(t, o, m) /\ <<t, o>> \in connecting /\ s = Swap(o, t, m)
      BY Zenon, <1>1, <2>1, <2>2, MakerSwapsGrow
    <3>2. Ongoing(order[o], t) /\ s.order = o
      BY Zenon, <3>1 DEF Connects, Swap
    <3>3. QED
      BY Zenon, <2>1, <2>2, <3>1, <3>2 DEF CancelInv, Ended
  <2>3. QED
    BY Zenon, <2>2
<1>2. OrderMatchInv /\ [Next]_vars
        => [\A s \in makerSwaps' \ makerSwaps : s.order \in cancelled => Restorable(s.order)]_vars
  BY Zenon, <1>1
<1>3. QED
  BY <1>2, OrderMatchInvariant, PTL DEF Spec, CancelledStartsNoSwap
=============================================================================
