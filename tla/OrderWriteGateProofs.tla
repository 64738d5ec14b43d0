------------------------ MODULE OrderWriteGateProofs ------------------------
(***************************************************************************)
(* The storage order of a maker order, for any number of callers and of    *)
(* changes, with and without failing storage.                              *)
(***************************************************************************)
EXTENDS OrderWriteGate, TLAPS

(* The empty slot of the gate is a pending write like any other. *)
LEMMA NoPendingType == NoPending \in PendingWrite
BY Zenon DEF NoPending, PendingWrite, Absent

(* No step of a caller, of a write or of the removal leaves the types. *)
LEMMA GateTypeStep == ASSUME GateTypeOK, [Next]_vars PROVE GateTypeOK'
<1> USE DEF GateTypeOK, OrderState, States, Absent, Tasks, Locations, PendingWrite, Conversions, goto, gate, store, carried
<1>1. ASSUME NEW w \in Writers, GetOrder(w) PROVE GateTypeOK'
  BY <1>1 DEF GetOrder
<1>2. ASSUME NEW w \in Writers, LockAndLeave(w) PROVE GateTypeOK'
  BY Zenon, <1>2 DEF LockAndLeave
<1>3. ASSUME NEW w \in Writers, LockAndChange(w) PROVE GateTypeOK'
  BY <1>3 DEF LockAndChange, InMemoryOnly
<1>4. ASSUME NEW w \in Writers, PublishState(w) PROVE GateTypeOK'
  <2>1. CASE removed
    BY <1>4, <2>1 DEF PublishState
  <2>2. CASE ~removed
    <3> DEFINE flag == kind[w] = "update" \/ pending.with_history
    <3>1. flag \in BOOLEAN
      BY Zenon
    <3>2. pending' = [ticket |-> last_ticket + 1, v |-> order.v, with_history |-> flag]
      BY Zenon, <1>4, <2>2 DEF PublishState, Publish
    <3> HIDE DEF flag
    <3>3. pending' \in PendingWrite
      BY <3>1, <3>2
    <3>4. last_ticket' \in Nat
      BY <1>4, <2>2 DEF PublishState, Publish
    <3>5. ticket' \in [Tasks -> Nat] /\ pc' \in [Tasks -> Locations]
      <4>1. last_ticket' = last_ticket + 1 /\ ticket' = [ticket EXCEPT ![w] = last_ticket + 1]
        BY <1>4, <2>2, Zenon DEF PublishState, Publish
      <4>2. ticket' = [ticket EXCEPT ![w] = last_ticket']
        BY Zenon, <4>1
      <4>3. ticket' \in [Tasks -> Nat]
        BY Zenon, <3>4, <4>2
      <4>4. pc' = [pc EXCEPT ![w] = "published"]
        BY <1>4, <2>2, Zenon DEF PublishState
      <4>5. pc' \in [Tasks -> Locations]
        BY Zenon, <4>4
      <4> QED
        BY Zenon, <4>3, <4>5
    <3> QED
      BY <1>4, <2>2, <3>3, <3>4, <3>5, Zenon DEF PublishState
  <2> QED
    BY Zenon, <2>1, <2>2
<1>5. ASSUME NEW w \in Writers, CompleteOk(w) PROVE GateTypeOK'
  BY Zenon, <1>5 DEF CompleteOk, Return
<1>6. ASSUME NEW w \in Writers, CompleteFailed(w) PROVE GateTypeOK'
  BY Zenon, <1>6 DEF CompleteFailed, Return
<1>7. ASSUME NEW w \in Writers, CompleteWrites(w) PROVE GateTypeOK'
  BY Zenon, <1>7 DEF CompleteWrites
<1>8. ASSUME NEW t \in Tasks, WriteActive(t) PROVE GateTypeOK'
  <2>1. writing[t].ticket \in Nat /\ writing[t].v \in Nat
    BY Zenon
  <2>2. pending' \in PendingWrite /\ written_upto' \in Nat /\ failed_upto' \in Nat
    BY <1>8, <2>1, NoPendingType, Zenon DEF WriteActive, WriteEnds, Record
  <2>3. active' \in Nat /\ row' \in Nat /\ io' \in Tasks \cup {Free}
    BY <1>8, <2>1, Zenon DEF WriteActive, WriteEnds
  <2>7. conversion' \in Conversions
    BY <1>8, Zenon DEF WriteActive
  <2>5. writing' \in [Tasks -> PendingWrite]
    BY <1>8, NoPendingType, ZenonT(40) DEF WriteActive, WriteEnds
  <2>4. pc' \in [Tasks -> Locations] /\ lock' \in Writers \cup {Free}
    BY <1>8, ZenonT(40) DEF WriteActive, WriteEnds, Return
  <2>6. ok' \in [Tasks -> BOOLEAN]
    BY <1>8, Zenon DEF WriteActive, WriteEnds, Return
  <2> QED
    BY Zenon, <1>8, <2>2, <2>3, <2>4, <2>5, <2>6, <2>7 DEF WriteActive
<1>9. ASSUME NEW t \in Tasks, WriteRow(t) PROVE GateTypeOK'
  <2>1. writing[t].ticket \in Nat /\ writing[t].v \in Nat
    OBVIOUS
  <2>2. pending' \in PendingWrite /\ written_upto' \in Nat /\ failed_upto' \in Nat
    BY Zenon, <1>9, <2>1, NoPendingType DEF WriteRow, WriteEnds, Record
  <2>3. active' \in Nat /\ row' \in Nat /\ io' \in Tasks \cup {Free}
    BY <1>9, <2>1, Zenon DEF WriteRow, WriteEnds
  <2>5. writing' \in [Tasks -> PendingWrite]
    BY Zenon, <1>9, NoPendingType DEF WriteRow, WriteEnds
  <2>4. pc' \in [Tasks -> Locations] /\ lock' \in Writers \cup {Free}
    BY <1>9 DEF WriteRow, WriteEnds, Return
  <2>6. ok' \in [Tasks -> BOOLEAN]
    BY <1>9, Zenon DEF WriteRow, WriteEnds, Return
  <2> QED
    BY Zenon, <1>9, <2>2, <2>3, <2>4, <2>5, <2>6 DEF WriteRow
<1>10. ASSUME NEW t \in Tasks, WriteFails(t) PROVE GateTypeOK'
  <2>1. writing[t].ticket \in Nat /\ writing[t].v \in Nat
    OBVIOUS
  <2>2. pending' \in PendingWrite /\ written_upto' \in Nat /\ failed_upto' \in Nat
    BY Zenon, <1>10, <2>1, NoPendingType DEF WriteFails, WriteEnds, Record
  <2>3. row' \in Nat /\ io' \in Tasks \cup {Free}
    BY <1>10, <2>1, Zenon DEF WriteFails, WriteEnds
  <2>7. active' \in Nat
    <3>1. active' \in {0, active} /\ active \in Nat
      BY Zenon, <1>10 DEF WriteFails
    <3> QED
      BY ONLY <3>1
  <2>5. writing' \in [Tasks -> PendingWrite]
    BY Zenon, <1>10, NoPendingType DEF WriteFails, WriteEnds
  <2>4. pc' \in [Tasks -> Locations] /\ lock' \in Writers \cup {Free}
    BY <1>10 DEF WriteFails, WriteEnds, Return
  <2>6. ok' \in [Tasks -> BOOLEAN]
    BY <1>10, Zenon DEF WriteFails, WriteEnds, Return
  <2> QED
    BY Zenon, <1>10, <2>2, <2>3, <2>4, <2>5, <2>6, <2>7 DEF WriteFails
<1>11. ASSUME NEW w \in Writers, RollBack(w) PROVE GateTypeOK'
  BY Zenon, <1>11 DEF RollBack
<1>12. CASE TakeOut
  BY Zenon, <1>12 DEF TakeOut, mark_removed
<1>13. CASE DropExpired
  BY Zenon, <1>13 DEF DropExpired, mark_removed
<1>14. CASE AlreadyDropped
  BY Zenon, <1>14 DEF AlreadyDropped
<1>15. CASE DeleteBegins
  BY Zenon, <1>15 DEF DeleteBegins
<1>16. CASE DeleteActive
  BY <1>16 DEF DeleteActive, OrderToSave
<1>17. CASE SaveEntry
  BY <1>17 DEF SaveEntry
<1>19. CASE SaveInTime \/ SaveLate
  <2>1. active' \in {0, 1, active} /\ active \in Nat
    BY <1>19, Zenon DEF SaveInTime, SaveLate, Created
  <2>2. active' \in Nat
    BY ONLY <2>1
  <2>3. conversion' \in Conversions
    BY <1>19, Zenon DEF SaveInTime, SaveLate
  <2>4. UNCHANGED <<order, changes, lock, last_ticket, pending, written_upto, failed_upto, removed, io, row, entry, pc,
                    kind, before, state, ticket, writing, ok>>
    BY <1>19, Zenon DEF SaveInTime, SaveLate
  <2> QED
    BY <2>2, <2>3, <2>4, Zenon
<1>18. CASE UNCHANGED vars
  BY Zenon, <1>18 DEF vars
<1> QED
  BY <1>1, <1>2, <1>3, <1>4, <1>5, <1>6, <1>7, <1>8, <1>9, <1>10, <1>11, <1>12, <1>13, <1>14, <1>15,
     <1>16, <1>17, <1>18, <1>19, Zenon
  DEF Next, Steps, Removal

(* The gate's types are kept by every step of its callers. *)
THEOREM GateTypeCorrect == Spec => []GateTypeOK
<1>1. Init => GateTypeOK
  <2> SUFFICES ASSUME Init PROVE GateTypeOK
    BY Zenon
  <2>2. order \in OrderState
    BY DEF Init, OrderState, States, Created, Absent
  <2>3. /\ pc \in [Tasks -> Locations] /\ kind \in [Tasks -> Kinds] /\ before \in [Tasks -> OrderState]
        /\ ticket \in [Tasks -> Nat] /\ writing \in [Tasks -> PendingWrite]
    BY Zenon, <2>2, NoPendingType DEF Init, Kinds, Locations
  <2>4. state \in [Tasks -> States] /\ ok \in [Tasks -> BOOLEAN]
    BY DEF Init, States, Created, Absent
  <2>5. /\ changes \in States /\ active \in Nat /\ row \in Nat /\ entry \in Nat
        /\ last_ticket \in Nat /\ written_upto \in Nat /\ failed_upto \in Nat
        /\ conversion \in Conversions
    BY DEF Init, FirstRecord, States, Absent, Created, Conversions
  <2>6. pending \in PendingWrite /\ removed \in BOOLEAN /\ lock \in Writers \cup {Free} /\ io \in Tasks \cup {Free}
    BY NoPendingType, Zenon DEF Init
  <2> QED
    BY Zenon, <2>2, <2>3, <2>4, <2>5, <2>6 DEF GateTypeOK
<1> QED
  BY <1>1, GateTypeStep, PTL DEF Spec

(* What the types say, with the sets of records left closed *)
Facts ==
    /\ changes \in Nat /\ order.v \in Nat
    /\ last_ticket \in Nat /\ written_upto \in Nat /\ failed_upto \in Nat
    /\ pending.ticket \in Nat /\ pending.v \in Nat
    /\ active \in Nat /\ row \in Nat
    /\ pc \in [Tasks -> Locations] /\ ok \in [Tasks -> BOOLEAN]
    /\ state \in [Tasks -> Nat] /\ ticket \in [Tasks -> Nat]
    /\ writing \in [Tasks -> PendingWrite] /\ before \in [Tasks -> OrderState]
    /\ \A t \in Tasks : writing[t].ticket \in Nat /\ writing[t].v \in Nat /\ before[t].v \in Nat

(* The states, tickets and counters of the gate are numbers. *)
LEMMA TypeFacts == ASSUME GateTypeOK PROVE Facts
<1>1. /\ state \in [Tasks -> Nat]
      /\ \A t \in Tasks : writing[t].ticket \in Nat /\ writing[t].v \in Nat /\ before[t].v \in Nat
  BY Zenon DEF GateTypeOK, States, OrderState, PendingWrite
<1> QED
  BY Zenon, <1>1 DEF GateTypeOK, Facts, States, OrderState, PendingWrite

(* The remover is no writer, and no task is the mark of a free lock. *)
LEMMA TaskFacts ==
    /\ Remover \in Tasks /\ Remover # Free
    /\ \A w \in Writers : w \in Tasks /\ w # Remover /\ w # Free
    /\ \A t \in Tasks : t \in Writers \/ t = Remover
BY Zenon, GateAssumption DEF Tasks

(* A new change under the order's lock is the newest state and no caller waits for it yet. *)
LEMMA ChangeKeeps ==
    ASSUME GateTypeOK, GateInv, NEW w \in Writers, LockAndChange(w)
    PROVE  GateInv'
<1>0. Facts
  BY Zenon, TypeFacts
<1>1. /\ pc[w] = "has_order" /\ pc'[w] \in {"idle", "changed"} /\ lock = Free
      /\ pc'[w] = "changed" => lock' = w
      /\ \A u \in Tasks : u # w => pc'[u] = pc[u] /\ state'[u] = state[u]
  BY Zenon, <1>0, TaskFacts DEF Facts, LockAndChange, InMemoryOnly, goto
<1>2. /\ changes' = changes + 1 /\ order'.v = changes + 1 /\ state'[w] = changes + 1
      /\ UNCHANGED <<last_ticket, pending, written_upto, failed_upto, removed, io, active, row, conversion, before,
                     ticket, writing, ok>>
  BY Zenon, <1>0, TaskFacts DEF Facts, LockAndChange, gate, store
<1>3. LockInv'
  BY <1>1, <1>2, TaskFacts DEF GateInv, LockInv, Writing
<1>4. NewestInv'
  BY <1>0, <1>1, <1>2, TaskFacts DEF Facts, GateInv, NewestInv
<1>5. \A u \in Tasks : (Writing(u)' <=> Writing(u)) /\ (Waiting(u)' <=> Waiting(u))
  BY Zenon, <1>1 DEF Writing, Waiting
<1>6. TicketInv'
  BY <1>2, <1>5, TaskFacts, Zenon DEF GateInv, TicketInv, Unwritten
<1>7. WriteInv'
  BY Zenon, <1>1, <1>2, <1>5 DEF GateInv, WriteInv, Unwritten, Writing, Late
<1>8. ~ok[w] /\ ~Waiting(w)
  BY Zenon, <1>1 DEF GateInv, LockInv, Waiting, Writing
<1>9. CallerInv'
  <2> SUFFICES ASSUME NEW u \in Writers, Waiting(u)' \/ Ok(u)'
               PROVE  u # w /\ state'[u] = state[u] /\ (Waiting(u)' <=> Waiting(u)) /\ (Ok(u)' <=> Ok(u))
    BY Zenon, <1>2, <1>5, TaskFacts DEF GateInv, CallerInv, Told, Unwritten, Emptied, Late
  <2> QED
    BY <1>1, <1>2, <1>5, <1>8, TaskFacts, Zenon DEF Ok
<1> QED
  BY Zenon, <1>3, <1>4, <1>6, <1>7, <1>9 DEF GateInv

(* A published state is the newest one, and its ticket is past every ticket given, written or failed. *)
LEMMA PublishKeeps ==
    ASSUME GateTypeOK, GateInv, NEW w \in Writers, PublishState(w), ~removed
    PROVE  GateInv'
<1>0. Facts
  BY Zenon, TypeFacts
<1>1. /\ pc[w] = "changed" /\ pc'[w] = "published" /\ ticket'[w] = last_ticket + 1
      /\ \A u \in Tasks : u # w => pc'[u] = pc[u] /\ ticket'[u] = ticket[u]
  BY Zenon, <1>0, TaskFacts DEF Facts, PublishState, goto
<1>2. /\ last_ticket' = last_ticket + 1
      /\ UNCHANGED <<order, changes, written_upto, failed_upto, removed, io, active, row, conversion, before, state,
                     writing, ok>>
  BY Zenon DEF PublishState, Publish, store
<1>3. pending'.ticket = last_ticket + 1 /\ pending'.v = order.v
  <2>1. pending' = [ticket |-> last_ticket + 1, v |-> order.v,
                    with_history |-> kind[w] = "update" \/ pending.with_history]
    BY Zenon DEF PublishState, Publish
  <2> QED
    BY ONLY Zenon, <2>1
<1>4. lock = w /\ state[w] = order.v /\ order.v = changes
  BY Zenon, <1>1 DEF GateInv, LockInv
<1>5. \A u \in Tasks : Writing(u)' <=> Writing(u)
  BY Zenon, <1>1 DEF Writing
<1>6. \A u \in Writers : u # w => pc[u] # "changed"
  BY Zenon, <1>4 DEF GateInv, LockInv
<1>7. LockInv'
  <2>1. \A u \in Tasks : io' = u <=> pc'[u] \in {"write", "write_row", "delete", "save_entry"}
    BY <1>1, <1>2, Zenon DEF GateInv, LockInv
  <2>2. ASSUME NEW u \in Writers
        PROVE  /\ pc'[u] \notin {"changed", "dropped", "taken", "delete", "save_entry", "gone"}
               /\ ok'[u] => pc'[u] = "idle"
    BY <1>1, <1>2, <1>6, TaskFacts DEF GateInv, LockInv
  <2>3. pc'[Remover] = pc[Remover]
    BY Zenon, <1>1, TaskFacts
  <2> QED
    BY <1>2, <1>5, <2>1, <2>2, <2>3, Zenon DEF GateInv, LockInv
<1>8. NewestInv'
  BY Zenon, <1>0, <1>2, <1>3, <1>4 DEF Facts, GateInv, NewestInv
<1>9. written_upto <= last_ticket /\ failed_upto <= last_ticket /\ active <= changes /\ row <= changes
  BY Zenon DEF GateInv, TicketInv, NewestInv
<1>10. order.v # Absent
  BY Zenon DEF GateTypeOK, OrderState, States
<1>11. TicketInv'
  <2>1. Waiting(w)' /\ ticket'[w] = last_ticket'
    BY Zenon, <1>1, <1>2 DEF Waiting
  <2> QED
    BY <1>0, <1>2, <1>3, <1>4, <1>9, <1>10, <2>1 DEF Facts, TicketInv, Unwritten
<1>12. WriteInv'
  <2> SUFFICES ASSUME NEW t \in Tasks, Writing(t)
               PROVE  /\ Unwritten'
                      /\ writing[t].ticket <= last_ticket'
                      /\ writing[t].v # Absent /\ writing[t].v <= pending'.v
                      /\ active <= writing[t].v /\ row <= writing[t].v
                      /\ pc'[t] = "write_row" => active = writing[t].v \/ Late
                      /\ writing[t].ticket > written_upto
                      /\ t \in Writers => ticket'[t] <= writing[t].ticket
    BY Zenon, <1>2, <1>5 DEF WriteInv, Late
  <2>1. t # w /\ pc'[t] = pc[t] /\ ticket'[t] = ticket[t]
    BY Zenon, <1>1 DEF Writing
  <2>2. pending.v <= changes
    BY Zenon DEF GateInv, NewestInv
  <2>3. /\ writing[t].ticket <= last_ticket
        /\ writing[t].v # Absent /\ writing[t].v <= pending.v
        /\ active <= writing[t].v /\ row <= writing[t].v
        /\ pc[t] = "write_row" => active = writing[t].v \/ Late
        /\ writing[t].ticket > written_upto
        /\ t \in Writers => ticket[t] <= writing[t].ticket
    BY Zenon DEF GateInv, WriteInv
  <2>4. /\ writing[t].ticket \in Nat /\ writing[t].v \in Nat
        /\ last_ticket \in Nat /\ changes \in Nat /\ pending.v \in Nat
    BY Zenon, <1>0 DEF Facts
  <2>5. writing[t].ticket <= last_ticket' /\ writing[t].v <= pending'.v
    BY <1>2, <1>3, <1>4, <2>2, <2>3, <2>4
  <2>6. Unwritten'
    BY <1>3, <2>4 DEF Unwritten
  <2> QED
    BY <2>1, <2>3, <2>5, <2>6, Zenon
<1>13. CallerInv'
  <2>0. ASSUME NEW u \in Writers PROVE last_ticket' > 0 /\ state'[u] <= pending'.v
    <3>1. state[u] <= changes
      BY Zenon, TaskFacts DEF GateInv, NewestInv
    <3> QED
      BY <1>0, <1>2, <1>3, <1>4, <3>1 DEF Facts
  <2>1. ASSUME NEW u \in Writers, Waiting(u)'
        PROVE  /\ ticket'[u] > 0 /\ ticket'[u] <= last_ticket'
               /\ \A t \in Tasks : Writing(t)' /\ ticket'[u] <= writing'[t].ticket => state'[u] <= writing'[t].v
               /\ ticket'[u] <= written_upto' => removed' \/ state'[u] <= active' \/ Emptied' \/ Late'
    <3>1. CASE u = w
      <4>1. \A t \in Tasks : Writing(t) => writing[t].ticket <= last_ticket
        BY Zenon DEF GateInv, WriteInv
      <4> QED
        BY <1>0, <1>1, <1>2, <1>5, <1>9, <3>1, <4>1 DEF Facts
    <3>2. CASE u # w
      <4>1. Waiting(u) /\ ticket'[u] = ticket[u] /\ u \in Tasks
        BY <1>1, <1>5, <2>1, <3>2, TaskFacts, Zenon DEF Waiting
      <4>2. /\ ticket[u] > 0 /\ ticket[u] <= last_ticket
            /\ \A t \in Tasks : Writing(t) /\ ticket[u] <= writing[t].ticket => state[u] <= writing[t].v
            /\ ticket[u] <= written_upto => removed \/ state[u] <= active \/ Emptied \/ Late
        BY <4>1, Zenon DEF GateInv, CallerInv
      <4>3. ticket[u] <= last_ticket'
        BY <1>0, <1>2, <4>1, <4>2 DEF Facts
      <4> QED
        BY <1>2, <1>5, <4>1, <4>2, <4>3, Zenon DEF Emptied, Late
    <3> QED
      BY Zenon, <3>1, <3>2
  <2>2. ASSUME NEW u \in Writers, Ok(u)' PROVE Ok(u)
    BY <1>1, <1>2, <2>2, TaskFacts, Zenon DEF Ok
  <2>3. ASSUME NEW u \in Writers, Ok(u)'
        PROVE  /\ \A t \in Tasks : Writing(t)' => state'[u] <= writing'[t].v
               /\ ~removed' => written_upto' > 0 /\ (state'[u] <= active' \/ Emptied' \/ Late')
    BY <1>2, <1>5, <2>2, <2>3, Zenon DEF GateInv, CallerInv, Emptied, Late
  <2> QED
    BY Zenon, <2>0, <2>1, <2>3 DEF CallerInv
<1> QED
  BY Zenon, <1>7, <1>8, <1>11, <1>12, <1>13 DEF GateInv

(* What the other tasks took out of the gate stays with them. *)
OtherWritesKept(t) == \A u \in Tasks : u # t => writing'[u] = writing[u]

(* Steps that touch neither the gate's tickets nor the storage: getting the order, leaving it, taking an update back, *)
(* the steps of a removal up to its deletion, and its end.                                                            *)
LEMMA QuietKeeps ==
    ASSUME GateTypeOK, GateInv, NEW t \in Tasks, ~Waiting(t), ~Waiting(t)',
           \A u \in Tasks : u # t => pc'[u] = pc[u],
           UNCHANGED <<last_ticket, pending, written_upto, failed_upto, active, row, conversion, state, ticket>>,
           OtherWritesKept(t), removed => removed', \A w \in Writers : Ok(w)' => Ok(w),
           LockInv', NewestInv'
    PROVE  GateInv'
<1>1. \A u \in Tasks : /\ Writing(u)' => Writing(u) /\ pc'[u] = pc[u] /\ writing'[u] = writing[u]
                       /\ Waiting(u)' <=> Waiting(u)
  BY Zenon DEF OtherWritesKept, Writing, Waiting
<1>2. TicketInv'
  BY <1>1, TaskFacts, Zenon DEF GateInv, TicketInv, Unwritten
<1>3. WriteInv'
  BY <1>1, Zenon DEF GateInv, WriteInv, Unwritten, Late
<1>4. CallerInv'
  BY <1>1, TaskFacts, Zenon DEF GateInv, CallerInv, Told, Unwritten, Emptied, Late
<1> QED
  BY <1>2, <1>3, <1>4, Zenon DEF GateInv

(* A caller gets its answer with nothing written: nobody depends on it, and an Ok is true. *)
LEMMA AnswerKeeps ==
    ASSUME GateTypeOK, GateInv, NEW w \in Writers, NEW res \in BOOLEAN, pc[w] = "published", Return(w, res),
           Unwritten => removed \/ ticket[w] # last_ticket,
           res => removed \/ (written_upto > 0 /\ (state[w] <= active \/ Emptied \/ Late)), io = Free,
           UNCHANGED <<order, changes, gate, io, active, row, conversion, before, state, ticket, writing>>
    PROVE  GateInv'
<1>0. Facts
  BY Zenon, TypeFacts
<1>1. pc'[w] \in {"idle", "failed"} /\ (res => pc'[w] = "idle") /\ ok'[w] = res
  BY Zenon, <1>0, TaskFacts DEF Facts, Return, goto
<1>2. /\ \A u \in Tasks : u # w => pc'[u] = pc[u] /\ ok'[u] = ok[u]
      /\ \A u \in Tasks : u # w /\ lock = u => lock' = u
  BY Zenon, <1>0, TaskFacts DEF Facts, Return, goto
<1>3. UNCHANGED <<last_ticket, pending, written_upto, failed_upto, removed>>
  BY Zenon DEF gate
<1>4. /\ \A u \in Tasks : Writing(u)' <=> Writing(u) 
      /\ \A u \in Tasks : u # w => (Waiting(u)' <=> Waiting(u))
      /\ ~Waiting(w)'
  BY Zenon, <1>1, <1>2 DEF Writing, Waiting
<1>5. LockInv'
  <2>1. \A t \in Tasks : io' = t <=> pc'[t] \in {"write", "write_row", "delete", "save_entry"}
    BY <1>1, <1>2, Zenon DEF GateInv, LockInv
  <2>2. ASSUME NEW u \in Writers
        PROVE  /\ pc'[u] \notin {"dropped", "taken", "delete", "save_entry", "gone"}
               /\ pc'[u] = "changed" => lock' = u /\ state'[u] = order'.v /\ order'.v = changes'
               /\ ok'[u] => pc'[u] = "idle"
    BY <1>1, <1>2, TaskFacts, Zenon DEF GateInv, LockInv
  <2>3. pc'[Remover] = pc[Remover]
    BY Zenon, <1>2, TaskFacts
  <2> QED
    BY <1>3, <1>4, <2>1, <2>2, <2>3, Zenon DEF GateInv, LockInv
<1>6. NewestInv'
  BY <1>3, Zenon DEF GateInv, NewestInv
<1>7. TicketInv'
  BY <1>3, <1>4, TaskFacts, Zenon DEF GateInv, TicketInv, Unwritten
<1>8. WriteInv'
  BY <1>2, <1>3, <1>4, Zenon DEF GateInv, WriteInv, Unwritten, Writing, Waiting, Late
<1>9. CallerInv'
  <2>1. ASSUME NEW u \in Writers, Waiting(u)' PROVE Waiting(u) /\ u # w
    BY <1>4, <2>1, TaskFacts, Zenon
  <2>2. ASSUME NEW u \in Writers, Ok(u)' PROVE Ok(u) \/ (u = w /\ res)
    BY <1>1, <1>2, <2>2, TaskFacts, Zenon DEF Ok
  <2>3. \A t \in Tasks : ~Writing(t)'
    BY <1>4, TaskFacts, Zenon DEF GateInv, LockInv, Writing
  <2>4. ASSUME NEW u \in Writers, Told(u)' PROVE last_ticket' > 0 /\ (Unwritten' => state'[u] <= pending'.v)
    <3>1. Told(u)
      BY <2>1, <2>2, <2>4, Zenon DEF Told, Waiting
    <3> QED
      BY <1>3, <3>1, Zenon DEF GateInv, CallerInv, Unwritten
  <2>5. ASSUME NEW u \in Writers, Waiting(u)'
        PROVE  /\ ticket'[u] > 0 /\ ticket'[u] <= last_ticket'
               /\ ticket'[u] <= written_upto' => removed' \/ state'[u] <= active' \/ Emptied' \/ Late'
    BY <1>3, <2>1, <2>5, Zenon DEF GateInv, CallerInv, Emptied, Late
  <2>6. ASSUME NEW u \in Writers, Ok(u)', ~removed'
        PROVE  written_upto' > 0 /\ (state'[u] <= active' \/ Emptied' \/ Late')
    BY <1>3, <2>2, <2>6, Zenon DEF GateInv, CallerInv, Emptied, Late
  <2> QED
    BY <2>3, <2>4, <2>5, <2>6, Zenon DEF CallerInv
<1> QED
  BY <1>5, <1>6, <1>7, <1>8, <1>9, Zenon DEF GateInv

(* A task takes the newest state out of the gate to write it, under the I/O lock. *)
LEMMA TakeKeeps ==
    ASSUME GateTypeOK, GateInv, NEW t \in Tasks, pending # NoPending, io = Free,
           pc[t] \in {"published", "taken"}, t = Remover \/ ~removed, io' = t, goto(t, "write"),
           writing' = [writing EXCEPT ![t] = pending],
           UNCHANGED <<order, changes, lock, gate, active, row, conversion, before, state, ticket, ok>>
    PROVE  GateInv'
<1>0. Facts
  BY Zenon, TypeFacts
<1>1. pc'[t] = "write" /\ \A u \in Tasks : u # t => pc'[u] = pc[u]
  BY Zenon, <1>0 DEF Facts, goto
<1>2. writing'[t] = pending /\ \A u \in Tasks : u # t => writing'[u] = writing[u]
  BY Zenon, <1>0 DEF Facts
<1>3. UNCHANGED <<last_ticket, pending, written_upto, failed_upto, removed>>
  BY Zenon DEF gate
<1>4. \A u \in Tasks : pc[u] \notin {"write", "write_row", "delete", "save_entry"}
  BY Zenon, TaskFacts DEF GateInv, LockInv
<1>5. /\ t = Remover => pc[t] = "taken"
      /\ t \in Writers => pc[t] = "published" /\ ~ok[t]
  BY Zenon, TaskFacts DEF GateInv, LockInv
<1>6. pc[Remover] # "gone"
  BY Zenon, <1>4, <1>5, TaskFacts DEF GateInv, LockInv
<1>7. Unwritten
  BY Zenon DEF GateInv, TicketInv
<1>8. /\ \A u \in Tasks : Writing(u)' <=> u = t
      /\ \A u \in Writers : Waiting(u)' <=> Waiting(u)
  BY Zenon, <1>1, <1>4, <1>5, TaskFacts DEF Writing, Waiting
<1>9. LockInv'
  <2>1. \A u \in Tasks : io' = u <=> pc'[u] \in {"write", "write_row", "delete", "save_entry"}
    BY <1>1, <1>4, Zenon
  <2>2. ASSUME NEW u \in Writers
        PROVE  /\ pc'[u] \notin {"dropped", "taken", "delete", "save_entry", "gone"}
               /\ pc'[u] = "changed" => lock' = u /\ state'[u] = order'.v /\ order'.v = changes'
               /\ ok'[u] => pc'[u] = "idle"
    BY Zenon, <1>1, <1>5, TaskFacts DEF GateInv, LockInv
  <2>3. /\ pc'[Remover] \in {"idle", "dropped", "taken", "write"}
        /\ removed' <=> pc'[Remover] # "idle"
    BY <1>1, <1>3, <1>4, <1>5, <1>6, TaskFacts, Zenon DEF GateInv, LockInv
  <2> QED
    BY <1>6, <2>1, <2>2, <2>3, Zenon DEF LockInv
<1>10. NewestInv'
  BY <1>3, Zenon DEF GateInv, NewestInv
<1>11. TicketInv'
  BY Zenon, <1>3, <1>8 DEF GateInv, TicketInv, Unwritten
<1>12. WriteInv'
  <2>1. t \in Writers => ticket[t] <= last_ticket
    BY <1>5, Zenon DEF GateInv, CallerInv, Waiting
  <2>2. /\ pending.ticket = last_ticket /\ written_upto < last_ticket
        /\ pending.v # Absent /\ active <= pending.v /\ row <= pending.v
    BY Zenon, <1>7 DEF GateInv, TicketInv
  <2>3. last_ticket \in Nat /\ written_upto \in Nat /\ pending.v \in Nat
    BY Zenon, <1>0 DEF Facts
  <2>4. pending.ticket <= last_ticket /\ pending.ticket > written_upto /\ pending.v <= pending.v
    BY ONLY <2>2, <2>3
  <2> SUFFICES /\ Unwritten'
               /\ pending.ticket <= last_ticket /\ pending.ticket > written_upto
               /\ pending.v # Absent /\ pending.v <= pending.v
               /\ active <= pending.v /\ row <= pending.v
               /\ t \in Writers => ticket[t] <= pending.ticket
    BY <1>1, <1>2, <1>3, <1>8, Zenon DEF WriteInv
  <2> QED
    BY <1>3, <1>7, <2>1, <2>2, <2>4, Zenon DEF Unwritten
<1>13. CallerInv'
  <2>1. \A u \in Writers : Ok(u)' => Ok(u)
    BY Zenon, <1>1, TaskFacts DEF Ok
  <2> QED
    BY <1>2, <1>3, <1>7, <1>8, <2>1, Zenon DEF GateInv, CallerInv, Told, Unwritten, Emptied, Late
<1> QED
  BY Zenon, <1>9, <1>10, <1>11, <1>12, <1>13 DEF GateInv

(* The end of a write, successful or not: its caller is answered, or the removal goes on to delete. *)
LEMMA WriteEndKeeps ==
    ASSUME GateTypeOK, GateInv, NEW t \in Tasks, NEW res \in BOOLEAN, Writing(t), WriteEnds(t, res),
           row' \in {row, writing[t].v},
           \/ res /\ active' = writing[t].v
           \/ res /\ active' = active /\ Late'
           \/ ~res /\ active' \in {active, Absent} /\ conversion' = conversion,
           UNCHANGED <<order, changes, last_ticket, removed, before, state, ticket>>
    PROVE  GateInv'
<1>0. Facts
  BY Zenon, TypeFacts
<1>1. /\ \A u \in Tasks : u # t => pc'[u] = pc[u] /\ ok'[u] = ok[u]
      /\ t = Remover => pc'[t] = "delete" /\ io' = io /\ ok' = ok /\ lock' = lock
      /\ t # Remover => pc'[t] \in {"idle", "failed"} /\ io' = Free /\ ok'[t] = res /\ (res => pc'[t] = "idle")
  BY Zenon, <1>0 DEF Facts, WriteEnds, Return, goto
<1>2. \A u \in Tasks : u # t /\ lock = u => lock' = u
  BY Zenon, TaskFacts DEF WriteEnds, Return
<1>3. /\ written_upto' = IF res THEN writing[t].ticket ELSE written_upto
      /\ failed_upto' = IF res THEN failed_upto ELSE writing[t].ticket
      /\ pending' = IF pending.ticket = writing[t].ticket THEN NoPending ELSE pending
  BY Zenon DEF WriteEnds, Record
<1>4. io = t /\ \A u \in Tasks : Writing(u) => u = t
  BY Zenon DEF GateInv, LockInv, Writing
<1>5. /\ Unwritten /\ pending.ticket = last_ticket
      /\ writing[t].ticket <= last_ticket /\ writing[t].ticket > written_upto
      /\ writing[t].v # Absent /\ writing[t].v <= pending.v
      /\ active <= writing[t].v /\ row <= writing[t].v
      /\ t \in Writers => ticket[t] <= writing[t].ticket
  BY Zenon DEF GateInv, WriteInv, TicketInv
<1>6. /\ \A u \in Tasks : ~Writing(u)'
      /\ \A u \in Writers : u # t => (Waiting(u)' <=> Waiting(u))
      /\ ~Waiting(t)'
  BY <1>1, <1>4, TaskFacts, Zenon DEF Writing, Waiting
<1>7. active' \in Nat /\ active' <= writing[t].v
  <2>1. active' \in {active, writing[t].v, 0} /\ active \in Nat /\ writing[t].v \in Nat
    BY Zenon, <1>0 DEF Facts, Absent
  <2> QED
    BY ONLY <1>5, <2>1
<1>8. LockInv'
  <2>1. \A u \in Tasks : u # t => pc[u] \notin {"write", "write_row", "delete", "save_entry"}
    BY Zenon, <1>4 DEF GateInv, LockInv
  <2>2. \A u \in Tasks : io' = u <=> pc'[u] \in {"write", "write_row", "delete", "save_entry"}
    BY <1>1, <1>4, <2>1, TaskFacts, Zenon
  <2>3. ASSUME NEW u \in Writers
        PROVE  /\ pc'[u] \notin {"dropped", "taken", "delete", "save_entry", "gone"}
               /\ pc'[u] = "changed" => lock' = u /\ state'[u] = order'.v /\ order'.v = changes'
               /\ ok'[u] => pc'[u] = "idle"
    <3>1. CASE u = t
      BY Zenon, <1>1, <3>1, TaskFacts
    <3>2. CASE u # t
      BY <1>1, <1>2, <3>2, TaskFacts, ZenonT(40) DEF GateInv, LockInv
    <3> QED
      BY Zenon, <3>1, <3>2
  <2>4. /\ pc'[Remover] \in {"idle", "dropped", "taken", "write", "write_row", "delete", "save_entry", "gone"}
        /\ removed' <=> pc'[Remover] # "idle"
    BY Zenon, <1>1, TaskFacts DEF GateInv, LockInv, Writing
  <2> QED
    BY <1>6, <2>2, <2>3, <2>4, Zenon DEF LockInv
<1>9. NewestInv'
  <2>1. pending'.v <= changes
    BY <1>0, <1>3 DEF Facts, GateInv, NewestInv, NoPending, Absent
  <2>2. writing[t].v <= changes
    BY <1>0, <1>5 DEF Facts, GateInv, NewestInv
  <2> QED
    <3>1. row' <= changes
      BY <2>2, Zenon DEF GateInv, NewestInv
    <3>2. active' <= changes
      <4>1. changes \in Nat /\ writing[t].v \in Nat
        BY Zenon, <1>0 DEF Facts
      <4> QED
        BY ONLY <1>7, <2>2, <4>1
    <3> QED
      BY <2>1, <3>1, <3>2, Zenon DEF GateInv, NewestInv
<1>10. TicketInv'
  <2>1. CASE writing[t].ticket = last_ticket
    <3>1. pending' = NoPending /\ ~Unwritten'
      BY <1>3, <1>5, <2>1, Zenon DEF Unwritten, NoPending
    <3>2. /\ written_upto' <= last_ticket /\ failed_upto' <= last_ticket
          /\ last_ticket \in {written_upto', failed_upto'}
      BY <1>0, <1>3, <2>1 DEF Facts, GateInv, TicketInv
    <3> QED
      BY <3>1, <3>2, Zenon DEF TicketInv
  <2>2. CASE writing[t].ticket # last_ticket
    <3>1. /\ writing[t].ticket \in Nat /\ last_ticket \in Nat /\ written_upto \in Nat /\ failed_upto \in Nat
          /\ t \in Writers => ticket[t] \in Nat
      BY Zenon, <1>0, TaskFacts DEF Facts
    <3>2. writing[t].ticket < last_ticket
      BY ONLY <1>5, <2>2, <3>1
    <3>3. pending' = pending /\ Unwritten'
      BY <1>3, <1>5, <2>2, Zenon DEF Unwritten
    <3>4. /\ written_upto' < last_ticket /\ failed_upto' < last_ticket
          /\ written_upto' \in Nat /\ failed_upto' \in Nat
      <4>1. written_upto < last_ticket /\ failed_upto < last_ticket
        BY <1>5, Zenon DEF GateInv, TicketInv
      <4> QED
        BY Zenon, <1>3, <3>1, <3>2, <4>1
    <3>5. active' <= pending.v /\ row' <= pending.v /\ pending.v # Absent
      <4>1. row' <= pending.v /\ pending.v # Absent
        BY <1>5, Zenon DEF GateInv, TicketInv
      <4>2. writing[t].v \in Nat /\ pending.v \in Nat /\ writing[t].v <= pending.v
        BY Zenon, <1>0, <1>5 DEF Facts
      <4>3. active' <= pending.v
        BY ONLY <1>7, <4>2
      <4> QED
        BY Zenon, <4>1, <4>3
    <3>6. ~removed => \E w \in Writers : Waiting(w)' /\ ticket[w] = last_ticket
      <4>1. t \in Writers => ticket[t] # last_ticket
        BY ONLY <1>5, <3>1, <3>2
      <4> QED
        BY <1>5, <1>6, <4>1, Zenon DEF GateInv, TicketInv
    <3>7. written_upto' <= last_ticket /\ failed_upto' <= last_ticket
      BY <3>1, <3>4
    <3> QED
      BY <1>5, <3>3, <3>4, <3>5, <3>6, <3>7, Zenon DEF TicketInv
  <2> QED
    BY Zenon, <2>1, <2>2
<1>11. WriteInv'
  BY <1>6, Zenon DEF WriteInv
<1>12. CallerInv'
  <2>1. \A u \in Writers : (Waiting(u)' => Waiting(u) /\ u # t) /\ (Ok(u)' => Ok(u) \/ (u = t /\ res))
    BY <1>1, <1>6, TaskFacts, Zenon DEF Ok
  <2>2. ASSUME NEW u \in Writers, Told(u)' PROVE last_ticket' > 0 /\ (Unwritten' => state'[u] <= pending'.v)
    <3>1. Told(u)
      BY <2>1, <2>2, Zenon DEF Told, Waiting
    <3>2. Unwritten' => pending' = pending
      BY <1>3, Zenon DEF Unwritten, NoPending
    <3> QED
      BY <1>5, <3>1, <3>2, Zenon DEF GateInv, CallerInv
  <2>3. ASSUME ~res PROVE Emptied => Emptied'
    <3>1. failed_upto' > written_upto' /\ (active = Absent => active' = Absent)
      BY <1>3, <1>5, <2>3, Zenon
    <3> QED
      BY <1>0, <1>3, <2>3, <3>1 DEF Facts, Emptied
  <2>4. ASSUME ~res, active' = Absent PROVE Emptied'
    BY <1>0, <1>3, <1>5, <2>4 DEF Facts, Emptied
  <2>5. ASSUME NEW u \in Writers, res => state[u] <= writing[t].v, ~res => state[u] <= active \/ Emptied \/ Late
        PROVE  state'[u] <= active' \/ Emptied' \/ Late'
    BY <2>3, <2>4, <2>5, Zenon DEF Late
  <2>6. ASSUME NEW u \in Writers, Waiting(u)'
        PROVE  /\ ticket'[u] > 0 /\ ticket'[u] <= last_ticket'
               /\ ticket'[u] <= written_upto' => removed' \/ state'[u] <= active' \/ Emptied' \/ Late'
    <3>1. Waiting(u)
      BY Zenon, <2>1, <2>6
    <3>2. /\ ticket[u] > 0 /\ ticket[u] <= last_ticket
          /\ ticket[u] <= writing[t].ticket => state[u] <= writing[t].v
          /\ ticket[u] <= written_upto => removed \/ state[u] <= active \/ Emptied \/ Late
      BY <3>1, Zenon DEF GateInv, CallerInv
    <3> QED
      BY <1>3, <2>5, <3>2, Zenon
  <2>7. ASSUME NEW u \in Writers, Ok(u)', ~removed'
        PROVE  written_upto' > 0 /\ (state'[u] <= active' \/ Emptied' \/ Late')
    <3>1. res => written_upto' > 0
      BY <1>0, <1>3, <1>5 DEF Facts
    <3>2. CASE u = t /\ res
      <4>1. state[t] <= writing[t].v
        BY Zenon, <1>5, <3>2 DEF GateInv, CallerInv, Waiting
      <4> QED
        BY <2>5, <3>1, <3>2, <4>1, Zenon
    <3>3. CASE Ok(u)
      <4>1. written_upto > 0 /\ (state[u] <= active \/ Emptied \/ Late) /\ state[u] <= writing[t].v
        BY <2>7, <3>3, Zenon DEF GateInv, CallerInv
      <4> QED
        BY <1>3, <2>5, <3>1, <4>1, Zenon
    <3> QED
      BY Zenon, <2>1, <2>7, <3>2, <3>3
  <2> QED
    BY <1>6, <2>2, <2>6, <2>7, Zenon DEF CallerInv
<1> QED
  BY Zenon, <1>8, <1>9, <1>10, <1>11, <1>12 DEF GateInv

(* The first half of a write that also updates the history row *)
LEMMA ActiveWrittenKeeps ==
    ASSUME GateTypeOK, GateInv, NEW t \in Tasks, WriteActive(t), writing[t].with_history
    PROVE  GateInv'
<1>0. Facts
  BY Zenon, TypeFacts
<1>1. /\ pc[t] = "write" /\ pc'[t] = "write_row" /\ active' = writing[t].v
      /\ \A u \in Tasks : u # t => pc'[u] = pc[u]
  BY Zenon, <1>0 DEF Facts, WriteActive, goto
<1>2. UNCHANGED <<order, changes, lock, last_ticket, pending, written_upto, failed_upto, removed, io, row, before,
                  state, ticket, writing, ok>>
  BY Zenon DEF WriteActive
<1>3. io = t /\ \A u \in Tasks : Writing(u) => u = t
  BY <1>1, ZenonT(40) DEF GateInv, LockInv, Writing
<1>4. /\ Unwritten /\ writing[t].v # Absent /\ writing[t].v <= pending.v
      /\ active <= writing[t].v /\ row <= writing[t].v
  BY <1>1, Zenon DEF GateInv, WriteInv, Writing
<1>5. /\ \A u \in Tasks : Writing(u)' <=> Writing(u)
      /\ \A u \in Tasks : Waiting(u)' <=> Waiting(u)
  BY Zenon, <1>1 DEF Writing, Waiting
<1>6. LockInv'
  <2>1. \A u \in Tasks : io' = u <=> pc'[u] \in {"write", "write_row", "delete", "save_entry"}
    BY <1>1, <1>2, Zenon DEF GateInv, LockInv
  <2>2. ASSUME NEW u \in Writers
        PROVE  /\ pc'[u] \notin {"dropped", "taken", "delete", "save_entry", "gone"}
               /\ pc'[u] = "changed" => lock' = u /\ state'[u] = order'.v /\ order'.v = changes'
               /\ ok'[u] => pc'[u] = "idle"
    BY <1>1, <1>2, TaskFacts, Zenon DEF GateInv, LockInv
  <2>3. /\ pc'[Remover] \in {"idle", "dropped", "taken", "write", "write_row", "delete", "save_entry", "gone"}
        /\ removed' <=> pc'[Remover] # "idle"
        /\ pc'[Remover] = "gone" => pc[Remover] = "gone"
    BY <1>1, <1>2, TaskFacts, Zenon DEF GateInv, LockInv
  <2> QED
    BY <1>5, <2>1, <2>2, <2>3, Zenon DEF GateInv, LockInv
<1>7. NewestInv'
  BY <1>0, <1>1, <1>2, <1>4 DEF Facts, GateInv, NewestInv
<1>8. TicketInv'
  BY <1>1, <1>2, <1>4, <1>5, TaskFacts, Zenon DEF GateInv, TicketInv, Unwritten
<1>9. WriteInv'
  <2>1. /\ writing[t].v \in Nat /\ active' <= writing[t].v /\ row' <= writing[t].v
        /\ writing[t].ticket <= last_ticket /\ writing[t].ticket > written_upto
        /\ t \in Writers => ticket[t] <= writing[t].ticket
    <3>1. writing[t].v \in Nat /\ Writing(t)
      BY Zenon, <1>0, <1>1 DEF Facts, Writing
    <3>2. active' = writing[t].v
      BY <1>1, Zenon
    <3>3. active' <= writing[t].v
      BY ONLY <3>1, <3>2
    <3> QED
      BY <1>2, <1>4, <3>1, <3>3, Zenon DEF GateInv, WriteInv
  <2>2. Unwritten'
    BY <1>2, <1>4, Zenon DEF Unwritten
  <2> QED
    BY <1>1, <1>2, <1>3, <1>4, <1>5, <2>1, <2>2, Zenon DEF WriteInv
<1>10. CallerInv'
  <2>1. \A u \in Writers : Ok(u)' => Ok(u)
    BY <1>1, <1>2, TaskFacts, Zenon DEF Ok
  <2>2. writing[t].ticket > written_upto /\ Writing(t)
    BY <1>1, Zenon DEF GateInv, WriteInv, Writing
  <2>3. ASSUME NEW u \in Writers, Waiting(u), ticket[u] <= written_upto PROVE state[u] <= active'
    <3>1. ticket[u] <= writing[t].ticket
      BY <1>0, <2>2, <2>3, TaskFacts DEF Facts
    <3> QED
      BY <1>1, <2>2, <2>3, <3>1, Zenon DEF GateInv, CallerInv
  <2>4. ASSUME NEW u \in Writers, Ok(u) PROVE state[u] <= active'
    BY <1>1, <2>2, <2>4, Zenon DEF GateInv, CallerInv
  <2> QED
    BY <1>2, <1>5, <2>1, <2>3, <2>4, TaskFacts, Zenon DEF GateInv, CallerInv, Told, Unwritten
<1> QED
  BY Zenon, <1>6, <1>7, <1>8, <1>9, <1>10 DEF GateInv

(* The deletion of the active record: the order is removed, so that no caller is promised anything of it. *)
LEMMA DeleteKeeps ==
    ASSUME GateTypeOK, GateInv, DeleteActive
    PROVE  GateInv'
<1>0. Facts
  BY Zenon, TypeFacts
<1>1. /\ pc[Remover] = "delete" /\ pc'[Remover] = "save_entry" /\ active' \in {Absent, active}
      /\ \A u \in Tasks : u # Remover => pc'[u] = pc[u] /\ state'[u] = state[u]
  BY Zenon, <1>0, TaskFacts DEF Facts, DeleteActive, goto
<1>2. UNCHANGED <<order, changes, lock, last_ticket, pending, written_upto, failed_upto, removed, io, row, conversion,
                  before, ticket, writing, ok>>
  BY Zenon DEF DeleteActive, gate
<1>3. state'[Remover] <= changes
  BY Zenon, <1>0, TaskFacts DEF Facts, DeleteActive, OrderToSave, GateInv, NewestInv
<1>4. removed /\ \A u \in Tasks : ~Writing(u) /\ ~Writing(u)'
  BY Zenon, <1>1, TaskFacts DEF GateInv, LockInv, Writing
<1>5. LockInv'
  BY <1>1, <1>2, <1>4, TaskFacts, ZenonT(40) DEF GateInv, LockInv
<1>6. NewestInv'
  <2>1. active' <= changes
    <3>1. active' \in {0, active} /\ active <= changes /\ changes \in Nat
      BY <1>0, <1>1, Zenon DEF Facts, Absent, GateInv, NewestInv
    <3> QED
      BY ONLY <3>1
  <2>2. \A u \in Tasks : state'[u] <= changes
    BY <1>1, <1>3, Zenon DEF GateInv, NewestInv
  <2> QED
    BY <1>2, <2>1, <2>2, Zenon DEF GateInv, NewestInv
<1>7. TicketInv'
  <2>1. Unwritten => active' <= pending.v
    <3>1. active' \in {0, active} /\ (Unwritten => active <= pending.v) /\ pending.v \in Nat
      BY <1>0, <1>1, Zenon DEF Facts, Absent, GateInv, TicketInv
    <3> QED
      BY ONLY <3>1
  <2> QED
    BY Zenon, <1>2, <1>4, <2>1 DEF GateInv, TicketInv, Unwritten
<1>8. WriteInv'
  BY <1>4, Zenon DEF WriteInv
<1>9. CallerInv'
  <2>1. \A u \in Writers : (Waiting(u)' => Waiting(u)) /\ (Ok(u)' => Ok(u)) /\ state'[u] = state[u]
    BY Zenon, <1>1, <1>2, TaskFacts DEF Waiting, Writing, Ok
  <2> QED
    BY <1>2, <1>4, <2>1, Zenon DEF GateInv, CallerInv, Told, Unwritten
<1> QED
  BY Zenon, <1>5, <1>6, <1>7, <1>8, <1>9 DEF GateInv

(* The save of a converted order outside the gate: in time, nobody was promised anything of the record yet; late, *)
(* the record is the first state, which no write under way is older than.                                         *)
LEMMA SaveKeeps ==
    ASSUME GateTypeOK, GateInv, SaveInTime \/ SaveLate
    PROVE  GateInv'
<1>0. Facts
  BY Zenon, TypeFacts
<1>1. UNCHANGED <<order, changes, lock, last_ticket, pending, written_upto, failed_upto, removed, io, row, pc, before,
                  state, ticket, writing, ok>>
  BY Zenon DEF SaveInTime, SaveLate, gate, carried
<1>2. active' \in {0, 1, active}
  BY Zenon DEF SaveInTime, SaveLate, Created, Absent
<1>3. \A v \in Nat : v # 0 /\ active <= v => active' <= v
  BY ONLY <1>0, <1>2 DEF Facts
<1>4. \A t \in Tasks : (Writing(t)' <=> Writing(t)) /\ (Waiting(t)' <=> Waiting(t)) /\ (Ok(t)' <=> Ok(t))
  BY Zenon, <1>1 DEF Writing, Waiting, Ok
<1>5. LockInv'
  BY <1>1, <1>4, Zenon DEF GateInv, LockInv
<1>6. NewestInv'
  <2>1. changes \in Nat /\ changes # 0
    BY Zenon DEF GateTypeOK, States, Absent
  <2>2. active' <= changes
    BY <1>3, <2>1, Zenon DEF GateInv, NewestInv
  <2> QED
    BY <1>1, <2>2, Zenon DEF GateInv, NewestInv
<1>7. TicketInv'
  <2>1. Unwritten => active' <= pending.v
    BY <1>0, <1>3, Zenon DEF Facts, GateInv, TicketInv, Absent
  <2> QED
    BY <1>1, <1>4, <2>1, TaskFacts, Zenon DEF GateInv, TicketInv, Unwritten
<1>8. \/ Late'
      \/ written_upto = 0 /\ \A t \in Tasks : ~Writing(t)
  <2>1. ASSUME SaveInTime PROVE written_upto = 0 /\ \A t \in Tasks : ~Writing(t)
    BY <2>1, TaskFacts, Zenon DEF SaveInTime, InTime, GateInv, LockInv, Writing
  <2> QED
    BY <2>1, Zenon DEF SaveLate, Late
<1>9. WriteInv'
  <2> SUFFICES ASSUME NEW t \in Tasks, Writing(t), Late'
               PROVE  active' <= writing[t].v
    BY <1>1, <1>4, <1>8, Zenon DEF GateInv, WriteInv, Unwritten
  <2> QED
    BY <1>0, <1>3, Zenon DEF Facts, GateInv, WriteInv, Absent
<1>10. CallerInv'
  <2>1. ASSUME NEW w \in Writers, Waiting(w), ticket[w] <= written_upto PROVE Late'
    <3>1. ticket[w] > 0 /\ ticket[w] \in Nat
      BY <1>0, <2>1, TaskFacts, Zenon DEF Facts, GateInv, CallerInv
    <3>2. written_upto # 0
      BY ONLY <1>0, <2>1, <3>1 DEF Facts
    <3> QED
      BY Zenon, <1>8, <3>2
  <2>2. ASSUME NEW w \in Writers, Ok(w), ~removed PROVE Late'
    <3>1. written_upto > 0
      BY <2>2, Zenon DEF GateInv, CallerInv
    <3>2. written_upto # 0
      BY ONLY <1>0, <3>1 DEF Facts
    <3> QED
      BY Zenon, <1>8, <3>2
  <2> QED
    BY <1>1, <1>4, <2>1, <2>2, TaskFacts, Zenon DEF GateInv, CallerInv, Told, Unwritten
<1> QED
  BY Zenon, <1>5, <1>6, <1>7, <1>9, <1>10 DEF GateInv

(* Every step of a caller, of a write and of the removal keeps the order between tickets, states and storage. *)
LEMMA GateInvStep == ASSUME GateTypeOK, GateInv, [Next]_vars PROVE GateInv'
<1>0. Facts
  BY Zenon, TypeFacts
<1>1. ASSUME NEW w \in Writers, GetOrder(w) PROVE GateInv'
  <2>1. /\ pc[w] = "idle" /\ pc'[w] = "has_order" /\ ok'[w] = FALSE
        /\ \A u \in Tasks : u # w => pc'[u] = pc[u] /\ ok'[u] = ok[u] /\ before'[u] = before[u]
        /\ before'[w] = order
    BY Zenon, <1>0, <1>1, TaskFacts DEF Facts, GetOrder, goto
  <2>2. UNCHANGED <<order, changes, lock, last_ticket, pending, written_upto, failed_upto, removed, io, active, row,
                    conversion, state, ticket, writing>>
    BY Zenon, <1>1 DEF GetOrder, gate, store
  <2>3. LockInv'
    <3>1. \A u \in Tasks : /\ io' = u <=> pc'[u] \in {"write", "write_row", "delete", "save_entry"}
                           /\ Writing(u)' <=> Writing(u)
      BY <2>1, <2>2, Zenon DEF GateInv, LockInv, Writing
    <3>2. ASSUME NEW u \in Writers
          PROVE  /\ pc'[u] \notin {"dropped", "taken", "delete", "save_entry", "gone"}
                 /\ pc'[u] = "changed" => lock' = u /\ state'[u] = order'.v /\ order'.v = changes'
                 /\ ok'[u] => pc'[u] = "idle"
      BY <2>1, <2>2, TaskFacts DEF GateInv, LockInv
    <3>3. pc'[Remover] = pc[Remover]
      BY Zenon, <2>1, TaskFacts
    <3> QED
      BY <2>2, <3>1, <3>2, <3>3, Zenon DEF GateInv, LockInv
  <2>4. NewestInv'
    BY <2>1, <2>2, TaskFacts, Zenon DEF GateInv, NewestInv
  <2>5. ~Waiting(w) /\ ~Waiting(w)' /\ \A u \in Writers : Ok(u)' => Ok(u)
    BY <2>1, TaskFacts, Zenon DEF Waiting, Writing, Ok
  <2> QED
    BY <2>1, <2>2, <2>3, <2>4, <2>5, QuietKeeps, TaskFacts, Zenon DEF OtherWritesKept
<1>2. ASSUME NEW w \in Writers, pc[w] \in {"has_order", "changed", "failed"}, goto(w, "idle"),
             order' = order \/ (order' = before[w] /\ lock = Free), lock' = lock \/ lock = w,
             UNCHANGED <<changes, gate, io, active, row, conversion, carried>>
      PROVE  GateInv'
  <2>1. pc'[w] = "idle" /\ \A u \in Tasks : u # w => pc'[u] = pc[u]
    BY Zenon, <1>0, <1>2, TaskFacts DEF Facts, goto
  <2>2. UNCHANGED <<changes, last_ticket, pending, written_upto, failed_upto, removed, io, active, row,
                    conversion, before, state, ticket, writing, ok>>
    BY Zenon, <1>2 DEF gate, carried
  <2>3. \A u \in Writers : u # w /\ pc[u] = "changed" => lock' = u /\ order' = order
    BY <1>2, TaskFacts, Zenon DEF GateInv, LockInv
  <2>4. ~ok[w]
    BY Zenon, <1>2 DEF GateInv, LockInv
  <2>5. LockInv'
    BY <1>2, <2>1, <2>2, <2>3, <2>4, TaskFacts, ZenonT(40) DEF GateInv, LockInv, Writing
  <2>6. NewestInv'
    BY <1>2, <2>2, TaskFacts, Zenon DEF GateInv, NewestInv
  <2>7. ~Waiting(w) /\ ~Waiting(w)' /\ \A u \in Writers : Ok(u)' => Ok(u)
    BY <1>2, <2>1, <2>2, <2>4, TaskFacts, Zenon DEF Waiting, Writing, Ok
  <2> QED
    BY <2>1, <2>2, <2>5, <2>6, <2>7, QuietKeeps, TaskFacts, Zenon DEF OtherWritesKept
<1>3. ASSUME NEW w \in Writers, LockAndLeave(w) \/ RollBack(w) \/ (PublishState(w) /\ removed) PROVE GateInv'
  <2>1. PublishState(w) => lock = w
    BY Zenon DEF PublishState, GateInv, LockInv
  <2>2. CASE LockAndLeave(w)
    BY <1>2, <2>2, Zenon DEF LockAndLeave, store
  <2>3. CASE RollBack(w)
    BY <1>2, <2>3, Zenon DEF RollBack, store
  <2>4. CASE PublishState(w) /\ removed
    BY <1>2, <2>1, <2>4, Zenon DEF PublishState, store, gate, carried
  <2> QED
    BY Zenon, <1>3, <2>2, <2>3, <2>4
<1>4. ASSUME NEW w \in Writers, CompleteOk(w) PROVE GateInv'
  <2>1. pc[w] = "published" /\ (Covered(w) \/ NothingWaits(w))
    BY Zenon, <1>4 DEF CompleteOk
  <2>2. /\ ticket[w] > 0 /\ ticket[w] <= last_ticket
        /\ ticket[w] <= written_upto => removed \/ state[w] <= active \/ Emptied \/ Late
    BY <2>1, Zenon DEF GateInv, CallerInv, Waiting
  <2>3. NothingWaits(w) => ~Unwritten /\ last_ticket = written_upto
    BY <1>0, <2>2, TaskFacts DEF Facts, NothingWaits, GateInv, TicketInv, Unwritten, NoPending
  <2>4. removed \/ (written_upto > 0 /\ (state[w] <= active \/ Emptied \/ Late))
    <3>1. removed \/ ticket[w] <= written_upto
      BY <1>0, <2>1, <2>2, <2>3, TaskFacts DEF Facts, Covered
    <3>2. ticket[w] <= written_upto => written_upto > 0
      BY <1>0, <2>2, TaskFacts DEF Facts
    <3> QED
      BY Zenon, <2>2, <3>1, <3>2
  <2>5. Unwritten => removed \/ ticket[w] # last_ticket
    BY <1>0, <2>1, <2>3, TaskFacts DEF Facts, Covered, GateInv, TicketInv
  <2> QED
    BY <1>4, <2>1, <2>4, <2>5, AnswerKeeps, Zenon DEF CompleteOk, store
<1>5. ASSUME NEW w \in Writers, CompleteFailed(w) PROVE GateInv'
  <2>1. Unwritten => ticket[w] # last_ticket
    BY <1>0, <1>5, TaskFacts DEF Facts, CompleteFailed, GateInv, TicketInv
  <2> QED
    BY <1>5, <2>1, AnswerKeeps, Zenon DEF CompleteFailed, store
<1>6. ASSUME NEW w \in Writers, CompleteWrites(w) PROVE GateInv'
  BY <1>6, TakeKeeps, TaskFacts, Zenon DEF CompleteWrites, Covered, store
<1>7. ASSUME NEW t \in Tasks, WriteActive(t), ~writing[t].with_history PROVE GateInv'
  BY <1>7, WriteEndKeeps, Zenon DEF WriteActive, Writing
<1>8. ASSUME NEW t \in Tasks, WriteRow(t) PROVE GateInv'
  <2>1. active = writing[t].v \/ Late'
    BY <1>8, Zenon DEF WriteRow, GateInv, WriteInv, Writing, Late
  <2> QED
    BY <1>8, <2>1, WriteEndKeeps, Zenon DEF WriteRow, Writing
<1>9. ASSUME NEW t \in Tasks, WriteFails(t) PROVE GateInv'
  BY <1>9, WriteEndKeeps, Zenon DEF WriteFails, Writing, store
<1>10. ASSUME pc[Remover] \in {"idle", "dropped"}, goto(Remover, "taken") \/ goto(Remover, "dropped"), removed',
              \A u \in Tasks : before'[u] \in {before[u], order},
              UNCHANGED <<order, changes, lock, last_ticket, pending, written_upto, failed_upto, io, active, row,
                          conversion, state, ticket, writing, ok>>
       PROVE  GateInv'
  <2>1. pc'[Remover] \in {"dropped", "taken"} /\ \A u \in Tasks : u # Remover => pc'[u] = pc[u]
    BY <1>0, <1>10, TaskFacts, Zenon DEF Facts, goto
  <2>2. LockInv'
    BY <1>10, <2>1, TaskFacts, ZenonT(40) DEF GateInv, LockInv, Writing
  <2>3. NewestInv'
    BY <1>10, Zenon DEF GateInv, NewestInv
  <2>4. ~Waiting(Remover) /\ ~Waiting(Remover)' /\ \A u \in Writers : Ok(u)' => Ok(u)
    BY <1>10, <2>1, TaskFacts, Zenon DEF Waiting, Writing, Ok
  <2> QED
    BY <1>10, <2>1, <2>2, <2>3, <2>4, QuietKeeps, TaskFacts, Zenon DEF OtherWritesKept
<1>11. CASE TakeOut \/ DropExpired \/ AlreadyDropped
  <2>1. AlreadyDropped => removed
    BY Zenon DEF AlreadyDropped, GateInv, LockInv
  <2>2. \A u \in Tasks : before'[u] \in {before[u], order}
    BY <1>0, <1>11, Zenon DEF Facts, TakeOut, DropExpired, AlreadyDropped, carried
  <2>3. /\ pc[Remover] \in {"idle", "dropped"} /\ removed'
        /\ goto(Remover, "taken") \/ goto(Remover, "dropped")
    BY <1>11, <2>1 DEF TakeOut, DropExpired, AlreadyDropped, mark_removed, gate
  <2>4. UNCHANGED <<order, changes, lock, last_ticket, pending, written_upto, failed_upto, io, active, row,
                    conversion, state, ticket, writing, ok>>
    BY Zenon, <1>11 DEF TakeOut, DropExpired, AlreadyDropped, mark_removed, gate, store, carried
  <2> QED
    BY <1>10, <2>2, <2>3, <2>4, Zenon
<1>12. CASE DeleteBegins /\ pending # NoPending
  BY <1>12, TakeKeeps, TaskFacts, Zenon DEF DeleteBegins, store
<1>13. ASSUME \/ pc[Remover] = "taken" /\ goto(Remover, "delete") /\ io = Free /\ io' = Remover
              \/ pc[Remover] = "save_entry" /\ goto(Remover, "gone") /\ io' = Free,
              OtherWritesKept(Remover),
              UNCHANGED <<order, changes, lock, gate, active, row, conversion, before, state, ticket, ok>>
       PROVE  GateInv'
  <2>1. /\ pc[Remover] = "taken" => pc'[Remover] = "delete"
        /\ pc[Remover] = "save_entry" => pc'[Remover] = "gone"
        /\ \A u \in Tasks : u # Remover => pc'[u] = pc[u]
    BY Zenon, <1>0, <1>13, TaskFacts DEF Facts, goto
  <2>2. UNCHANGED <<last_ticket, pending, written_upto, failed_upto, removed>>
    BY Zenon, <1>13 DEF gate
  <2>3. \A u \in Tasks : u # Remover => pc[u] \notin {"write", "write_row", "delete", "save_entry"}
    BY <1>13, TaskFacts, Zenon DEF GateInv, LockInv
  <2>4. LockInv'
    <3>1. \A u \in Tasks : io' = u <=> pc'[u] \in {"write", "write_row", "delete", "save_entry"}
      BY <1>13, <2>1, <2>3, TaskFacts, Zenon
    <3>2. /\ pc[Remover] \in {"taken", "save_entry"} /\ removed
          /\ pc'[Remover] \in {"delete", "gone"}
      BY <1>13, <2>1, Zenon DEF GateInv, LockInv
    <3>3. \A u \in Tasks : ~Writing(u)'
      BY Zenon, <2>1, <2>3, <3>2 DEF Writing
    <3> QED
      BY <1>13, <2>1, <2>2, <3>1, <3>2, <3>3, TaskFacts, ZenonT(40) DEF GateInv, LockInv
  <2>5. NewestInv'
    BY <1>13, <2>2, Zenon DEF GateInv, NewestInv
  <2>6. ~Waiting(Remover) /\ ~Waiting(Remover)' /\ \A u \in Writers : Ok(u)' => Ok(u)
    BY <1>13, <2>1, TaskFacts, Zenon DEF Waiting, Writing, Ok
  <2>7. UNCHANGED <<last_ticket, pending, written_upto, failed_upto, active, row, conversion, state, ticket>>
    BY Zenon, <1>13, <2>2
  <2>8. \A u \in Tasks : u # Remover => pc'[u] = pc[u]
    BY Zenon, <2>1
  <2>9. OtherWritesKept(Remover) /\ Remover \in Tasks /\ (removed => removed')
    BY Zenon, <1>13, <2>2, TaskFacts
  <2> QED
    BY ONLY GateTypeOK, GateInv, <2>4, <2>5, <2>6, <2>7, <2>8, <2>9, QuietKeeps, Zenon
<1>14. CASE DeleteBegins /\ pending = NoPending
  <2>1. OtherWritesKept(Remover)
    BY Zenon, <1>0, <1>14 DEF Facts, OtherWritesKept, DeleteBegins
  <2>2. pc[Remover] = "taken" /\ goto(Remover, "delete") /\ io = Free /\ io' = Remover
    BY Zenon, <1>14 DEF DeleteBegins
  <2>3. UNCHANGED <<order, changes, lock, gate, active, row, conversion, before, state, ticket, ok>>
    BY Zenon, <1>14 DEF DeleteBegins, store
  <2> QED
    BY Zenon, <1>13, <2>1, <2>2, <2>3
<1>15. CASE SaveEntry
  <2>1. OtherWritesKept(Remover)
    BY Zenon, <1>15 DEF OtherWritesKept, SaveEntry, carried
  <2> QED
    BY Zenon, <1>13, <1>15, <2>1 DEF SaveEntry, carried
<1>16. CASE UNCHANGED vars
  BY <1>16, ZenonT(40) DEF vars, gate, store, carried, GateInv, LockInv, NewestInv, TicketInv, WriteInv, CallerInv,
               Writing, Waiting, Told, Ok, Unwritten, Emptied, Late
<1>17. ASSUME NEW t \in Tasks, WriteActive(t) \/ WriteRow(t) \/ WriteFails(t) PROVE GateInv'
  BY Zenon, <1>7, <1>8, <1>9, <1>17, ActiveWrittenKeeps
<1>18. ASSUME NEW w \in Writers, GetOrder(w) \/ Steps(w) PROVE GateInv'
  BY Zenon, <1>1, <1>3, <1>4, <1>5, <1>6, <1>17, <1>18, ChangeKeeps, PublishKeeps, TaskFacts DEF Steps
<1>19. CASE Removal
  BY Zenon, <1>11, <1>12, <1>14, <1>15, <1>17, <1>19, DeleteKeeps, TaskFacts DEF Removal
<1> QED
  BY Zenon, <1>11, <1>16, <1>18, <1>19, SaveKeeps DEF Next

(* The gate's inductive invariant holds in every state: who holds the locks, that tickets and states are in the  *)
(* same order, and that a write under way is never older than what is stored.                                     *)
THEOREM GateInvariant == Spec => []GateInv
<1>1. ASSUME Init PROVE GateInv
  <2>1. \A t \in Tasks : /\ pc[t] = "idle" /\ ok[t] = FALSE /\ state[t] = 1 /\ before[t] = order
                         /\ ~Waiting(t) /\ ~Writing(t)
    BY Zenon, <1>1 DEF Init, Waiting, Writing, Created
  <2>2. order.v = 1 /\ ~Unwritten /\ pending.v = 0
    BY <1>1, Zenon DEF Init, Unwritten, NoPending, Absent, Created
  <2>3. /\ io = Free /\ removed = FALSE /\ active \in {0, 1} /\ row = 1 /\ changes = 1
    BY Zenon, <1>1 DEF Init, FirstRecord, Created, Absent
  <2>4. LockInv
    BY <2>1, <2>3, TaskFacts DEF LockInv
  <2>5. NewestInv
    BY <2>1, <2>2, <2>3 DEF NewestInv
  <2>6. TicketInv
    BY <1>1, <2>2 DEF Init, TicketInv
  <2>7. WriteInv /\ CallerInv
    BY <2>1, TaskFacts, Zenon DEF WriteInv, CallerInv, Told, Ok
  <2> QED
    BY Zenon, <2>4, <2>5, <2>6, <2>7 DEF GateInv
<1>2. GateTypeOK /\ GateInv /\ [Next]_vars => GateInv'
  BY Zenon, GateInvStep
<1> QED
  BY <1>1, <1>2, GateTypeCorrect, PTL DEF Spec

(* order_write_gate.rs: a caller that complete answers with Ok has its state, or a newer one, in the active record. *)
THEOREM OkStored == Spec => []OkMeansStored
<1>1. GateTypeOK /\ GateInv => OkMeansStored
  BY Zenon, TypeFacts, TaskFacts DEF Facts, GateInv, CallerInv, OkMeansStored
<1> QED
  BY <1>1, GateTypeCorrect, GateInvariant, PTL

(* order_write_gate.rs: no published state is lost between two completions; it is stored or its failure is kept. *)
THEOREM NoneForgotten == Spec => []NothingForgotten
<1>1. GateInv => NothingForgotten
  BY Zenon DEF GateInv, TicketInv, NothingForgotten, Waiting, Writing
<1> QED
  BY <1>1, GateInvariant, PTL

(* CRD ch.12 R7b item 1: the writes reach the active record and the history row in the order of the changes; the    *)
(* only step that puts an older state back is the late save of a converted order, which passes by the gate.          *)
THEOREM StoredInOrder == Spec => StoredNeverGoesBack
<1>1. GateTypeOK /\ GateInv /\ [Next]_vars
          => [(active' # Absent => active' >= active \/ SavesLate) /\ row' >= row]_vars
  <2> SUFFICES ASSUME GateTypeOK, GateInv, Next
               PROVE  (active' # Absent => active' >= active \/ SavesLate) /\ row' >= row
    BY Zenon
  <2>0. active \in Nat /\ row \in Nat
    BY Zenon, TypeFacts DEF Facts
  <2>1. ASSUME NEW t \in Tasks, WriteActive(t) \/ WriteRow(t)
        PROVE  active' >= active /\ row' >= row
    <3>1. Writing(t) /\ active <= writing[t].v /\ row <= writing[t].v
      BY <2>1, Zenon DEF WriteActive, WriteRow, GateInv, WriteInv, Writing
    <3>2. writing[t].v \in Nat
      BY Zenon, TypeFacts DEF Facts
    <3>3. active' \in {active, writing[t].v} /\ row' \in {row, writing[t].v}
      BY <2>1, Zenon DEF WriteActive, WriteRow
    <3> QED
      BY ONLY <2>0, <3>1, <3>2, <3>3
  <2>2. CASE UNCHANGED <<active, row>>
    BY ONLY <2>0, <2>2
  <2>3. CASE active' \in {Absent, active} /\ row' = row
    BY ONLY <2>0, <2>3
  <2>4. CASE SaveInTime
    <3>1. active = 0 /\ active' \in {0, 1} /\ row' = row
      BY Zenon, <2>4 DEF SaveInTime, InTime, Absent, Created
    <3> QED
      BY ONLY <2>0, <3>1
  <2>5. CASE SaveLate
    <3>1. SavesLate /\ row' = row
      BY <2>5, Zenon DEF SaveLate, SavesLate, Late
    <3> QED
      BY ONLY <2>0, <3>1
  <2>6. ASSUME NEW t \in Tasks, WriteFails(t) PROVE active' \in {Absent, active} /\ row' = row
    BY Zenon, <2>6 DEF WriteFails
  <2>7. CASE DeleteActive
    BY Zenon, <2>3, <2>7 DEF DeleteActive
  <2> QED
    BY <2>1, <2>2, <2>3, <2>4, <2>5, <2>6, <2>7, Zenon DEF Next, Steps, Removal, Tasks, store, GetOrder, LockAndLeave,
       LockAndChange, PublishState, CompleteOk, CompleteFailed, CompleteWrites, RollBack, TakeOut, DropExpired,
       AlreadyDropped, DeleteBegins, SaveEntry
<1> QED
  BY <1>1, GateTypeCorrect, GateInvariant, PTL DEF Spec, StoredNeverGoesBack

(* CRD ch.12 R7b item 2: no late completion recreates the active record of a removed order; the only step that does  *)
(* is the late save of a converted order, which passes by the gate.                                                  *)
THEOREM RemovedForGood == Spec => NeverRecreated
<1>1. GateTypeOK /\ GateInv /\ [Next]_vars
          => [pc[Remover] \in {"save_entry", "gone"} /\ active = Absent => active' = Absent \/ SavesLate]_vars
  <2> SUFFICES ASSUME GateTypeOK, GateInv, Next, pc[Remover] \in {"save_entry", "gone"}, active = Absent
               PROVE  active' = Absent \/ SavesLate
    BY Zenon
  <2>1. \A t \in Tasks : ~Writing(t)
    BY Zenon, TaskFacts DEF GateInv, LockInv, Writing
  <2>2. \A t \in Tasks : ~WriteActive(t) /\ ~WriteFails(t)
    BY <2>1, Zenon DEF WriteActive, WriteFails, Writing
  <2>3. ~DeleteActive
    BY Zenon DEF DeleteActive
  <2>4. ~SaveInTime
    BY Zenon, TaskFacts DEF SaveInTime, InTime, GateInv, LockInv
  <2>5. SaveLate => SavesLate
    BY Zenon DEF SaveLate, SavesLate, Late
  <2> QED
    BY <2>2, <2>3, <2>4, <2>5, Zenon DEF Next, Steps, Removal, Tasks, store, GetOrder, LockAndLeave, LockAndChange,
       PublishState, CompleteOk, CompleteFailed, CompleteWrites, WriteRow, RollBack, TakeOut, DropExpired,
       AlreadyDropped, DeleteBegins, SaveEntry
<1> QED
  BY <1>1, GateTypeCorrect, GateInvariant, PTL DEF Spec, NeverRecreated

-----------------------------------------------------------------------------
(* The entry of an order that is removed.                                     *)

(* The write under way carries the waiting state unless a newer one was       *)
(* published; the removal writes the last one.                                *)
TakenInv ==
    /\ \A t \in Tasks : Writing(t) /\ writing[t].ticket = pending.ticket => writing[t].v = pending.v
    /\ Writing(Remover) => writing[Remover].ticket = pending.ticket
    /\ pc[Remover] \in {"delete", "save_entry", "gone"} => ~Unwritten

(* While no write has failed, no update is taken back, so the order in memory *)
(* is the newest state.                                                       *)
FaultlessInv == failed_upto = 0 => order.v = changes /\ \A w \in Writers : pc[w] # "failed"

(* And the state of a caller that waits or was told Ok is, whatever the       *)
(* removal will save, no newer than that: the order it took out, or, unless a *)
(* late save went over it, the record it reads back.                          *)
CoveredByOrder(w) == pc[Remover] \notin {"idle", "dropped"} => state[w] <= before[Remover].v
CoveredByRecord(w) ==
    /\ active = Absent \/ state[w] <= active \/ Unwritten
    /\ pc[Remover] \in {"save_entry", "gone"} => state[w] <= state[Remover]

CoverInv ==
    failed_upto = 0 => \A w \in Writers : Told(w) => CoveredByOrder(w) /\ (Late \/ CoveredByRecord(w))

SavedInv == entry # Absent => pc[Remover] = "gone" /\ entry = state[Remover]

EntryInv == TakenInv /\ FaultlessInv /\ CoverInv /\ SavedInv

(* A step of a task changes what that task carries. *)
Own(t) ==
    \A u \in Tasks : u # t =>
        /\ pc'[u] = pc[u] /\ state'[u] = state[u] /\ ok'[u] = ok[u] /\ before'[u] = before[u]
        /\ ticket'[u] = ticket[u] /\ writing'[u] = writing[u]

(* What the steps do to what the removal saves. A caller comes, goes, or has  *)
(* its answer with nothing written.                                           *)
Leaves(w) ==
    /\ pc'[w] \notin {"published", "write", "write_row"} /\ state'[w] = state[w]
    /\ Ok(w)' => Told(w)
    /\ pc'[w] = "failed" => failed_upto # 0
    /\ failed_upto = 0 => order' = order
    /\ UNCHANGED <<changes, pending, failed_upto, active, entry, conversion>>

(* A caller changes the order. *)
Changes(w) ==
    /\ pc'[w] \in {"idle", "changed"} /\ ~ok'[w]
    /\ order'.v = changes'
    /\ UNCHANGED <<pending, failed_upto, active, entry, conversion>>

(* A caller publishes its state. *)
Publishes(w) ==
    /\ ~removed
    /\ pc'[w] = "published" /\ state'[w] = state[w] /\ state[w] = order.v /\ order.v = changes
    /\ pending'.ticket = last_ticket + 1 /\ pending'.v = order.v /\ ticket'[w] = last_ticket + 1
    /\ UNCHANGED <<order, changes, failed_upto, active, entry, conversion>>

(* A task begins the write of the waiting state. *)
Takes(t) ==
    /\ pc[t] = IF t = Remover THEN "taken" ELSE "published"
    /\ pc'[t] = "write" /\ writing'[t] = pending /\ state'[t] = state[t] /\ ticket'[t] = ticket[t]
    /\ before'[t] = before[t]
    /\ UNCHANGED <<order, changes, pending, failed_upto, active, entry, conversion>>

(* It has stored the active record, and the history row is to follow. *)
StoresFirst(t) ==
    /\ pc[t] = "write" /\ pc'[t] = "write_row" /\ active' = writing[t].v
    /\ writing'[t] = writing[t] /\ state'[t] = state[t] /\ ticket'[t] = ticket[t] /\ before'[t] = before[t]
    /\ UNCHANGED <<order, changes, pending, failed_upto, entry>>

(* The write ends. *)
Ends(t) ==
    /\ Writing(t) /\ state'[t] = state[t] /\ before'[t] = before[t]
    /\ IF t = Remover THEN pc'[t] = "delete" ELSE pc'[t] \in {"idle", "failed"}
    /\ pending' = IF pending.ticket = writing[t].ticket THEN NoPending ELSE pending
    /\ \/ (active' = writing[t].v \/ Late') /\ failed_upto' = failed_upto /\ pc'[t] # "failed"
       \/ failed_upto' = writing[t].ticket
    /\ UNCHANGED <<order, changes, entry>>

(* The removal goes on, with nothing to write. *)
Removes ==
    LET p == pc[Remover] q == pc'[Remover]
    IN  /\ \/ p = "idle" /\ q = "dropped" /\ UNCHANGED <<before, state, active, entry>>
           \/ p \in {"idle", "dropped"} /\ q = "taken" /\ before'[Remover] = order /\ UNCHANGED <<state, active, entry>>
           \/ p = "taken" /\ q = "delete" /\ pending = NoPending /\ UNCHANGED <<before, state, active, entry>>
           \/ /\ p = "delete" /\ q = "save_entry"
              /\ state'[Remover] = before[Remover].v \/ (active # Absent /\ state'[Remover] = active)
              /\ active' \in {Absent, active} /\ UNCHANGED <<before, entry>>
           \/ /\ p = "save_entry" /\ q = "gone" /\ entry' \in {entry, state[Remover]}
              /\ UNCHANGED <<before, state, active>>
        /\ UNCHANGED <<order, changes, pending, failed_upto, conversion>>

(* A converted order is saved outside the gate. *)
Saves ==
    /\ Late' \/ (written_upto = 0 /\ pc[Remover] \notin {"save_entry", "gone"})
    /\ UNCHANGED <<order, changes, pending, failed_upto, entry, pc, before, state, ticket, writing, ok>>

(* Every step of the gate's callers, of the removal and of the conversion is one of these. *)
LEMMA EntryCases ==
    ASSUME GateTypeOK, GateInv, TakenInv, FaultlessInv, Next
    PROVE  \/ \E w \in Writers : Own(w) /\ (Leaves(w) \/ Changes(w) \/ Publishes(w))
           \/ \E t \in Tasks : Own(t) /\ (Takes(t) \/ StoresFirst(t) \/ Ends(t))
           \/ Own(Remover) /\ Removes
           \/ Saves
<1>0. Facts
  BY Zenon, TypeFacts
<1>1. ASSUME NEW w \in Writers, GetOrder(w) PROVE Own(w) /\ Leaves(w)
  BY Zenon, <1>0, <1>1, TaskFacts DEF Facts, GetOrder, goto, Own, Leaves, Ok, gate, store
<1>2. ASSUME NEW w \in Writers, LockAndLeave(w) PROVE Own(w) /\ Leaves(w)
  <2>1. pc[w] = "has_order" /\ ~ok[w]
    BY Zenon, <1>0, <1>2, TaskFacts DEF Facts, LockAndLeave, GateInv, LockInv
  <2> QED
    BY Zenon, <1>0, <1>2, <2>1, TaskFacts DEF Facts, LockAndLeave, goto, Own, Leaves, Ok, gate, store, carried
<1>3. ASSUME NEW w \in Writers, LockAndChange(w) PROVE Own(w) /\ Changes(w)
  <2>1. pc[w] = "has_order" /\ ~ok[w]
    BY <1>0, <1>3, TaskFacts, ZenonT(40) DEF Facts, LockAndChange, GateInv, LockInv
  <2>2. UNCHANGED <<pending, failed_upto, active, entry, conversion, ok, before, ticket, writing>> /\ order'.v = changes'
    BY <1>3, Zenon DEF LockAndChange, gate, store
  <2>3. pc' = [pc EXCEPT ![w] = pc'[w]] /\ pc'[w] \in {"idle", "changed"} /\ state' = [state EXCEPT ![w] = changes + 1]
    BY <1>0, <1>3, TaskFacts, Zenon DEF Facts, LockAndChange, goto
  <2> QED
    BY Zenon, <1>0, <2>1, <2>2, <2>3, TaskFacts DEF Facts, Own, Changes
<1>4. ASSUME NEW w \in Writers, PublishState(w) PROVE Own(w) /\ (Leaves(w) \/ Publishes(w))
  <2>1. pc[w] = "changed" /\ ~ok[w] /\ state[w] = order.v /\ order.v = changes
    BY Zenon, <1>0, <1>4, TaskFacts DEF Facts, PublishState, GateInv, LockInv
  <2>2. CASE removed
    BY Zenon, <1>0, <1>4, <2>1, <2>2, TaskFacts DEF Facts, PublishState, goto, Own, Leaves, Ok, store
  <2>3. CASE ~removed
    <3>1. pending'.ticket = last_ticket + 1 /\ pending'.v = order.v
      <4> DEFINE h == kind[w] = "update" \/ pending.with_history
      <4>1. pending' = [ticket |-> last_ticket + 1, v |-> order.v, with_history |-> h]
        BY <1>4, <2>3, Zenon DEF PublishState, Publish
      <4> HIDE DEF h
      <4>2. QED
        BY Zenon, <4>1
    <3>2. /\ pc' = [pc EXCEPT ![w] = "published"] /\ ticket' = [ticket EXCEPT ![w] = last_ticket + 1]
          /\ UNCHANGED <<order, changes, failed_upto, active, entry, conversion, before, state, writing, ok>>
      BY Zenon, <1>4, <2>3 DEF PublishState, goto, store
    <3> QED
      BY Zenon, <1>0, <2>1, <2>3, <3>1, <3>2, TaskFacts DEF Facts, Own, Publishes
  <2> QED
    BY Zenon, <2>2, <2>3
<1>5. ASSUME NEW w \in Writers, CompleteOk(w) PROVE Own(w) /\ Leaves(w)
  BY Zenon, <1>0, <1>5, TaskFacts DEF Facts, CompleteOk, Return, goto, Own, Leaves, Told, Waiting, gate, store
<1>6. ASSUME NEW w \in Writers, CompleteFailed(w) PROVE Own(w) /\ Leaves(w)
  <2>1. failed_upto # 0
    <3>1. ticket[w] > 0 /\ failed_upto >= ticket[w]
      BY <1>6, Zenon DEF CompleteFailed, GateInv, CallerInv, Waiting
    <3> QED
      BY <1>0, <3>1, TaskFacts DEF Facts
  <2> QED
    BY Zenon, <1>0, <1>6, <2>1, TaskFacts DEF Facts, CompleteFailed, Return, goto, Own, Leaves, Told, Waiting, gate, store
<1>7. ASSUME NEW w \in Writers, RollBack(w) PROVE Own(w) /\ Leaves(w)
  <2>1. failed_upto # 0 /\ ~ok[w]
    BY Zenon, <1>0, <1>7, TaskFacts DEF Facts, RollBack, FaultlessInv, GateInv, LockInv
  <2> QED
    BY Zenon, <1>0, <1>7, <2>1, TaskFacts DEF Facts, RollBack, goto, Own, Leaves, Ok, gate, store, carried
<1>8. ASSUME NEW w \in Writers, CompleteWrites(w) PROVE Own(w) /\ Takes(w)
  BY Zenon, <1>0, <1>8, TaskFacts DEF Facts, CompleteWrites, goto, Own, Takes, Writing, gate, store
<1>9. ASSUME NEW t \in Tasks, WriteActive(t), writing[t].with_history PROVE Own(t) /\ StoresFirst(t)
  BY Zenon, <1>0, <1>9, TaskFacts DEF Facts, WriteActive, goto, Own, StoresFirst
<1>10. ASSUME NEW t \in Tasks, NEW res \in BOOLEAN, Writing(t), WriteEnds(t, res), res => active' = writing[t].v \/ Late',
              UNCHANGED <<order, changes, entry, before, state, ticket>>
       PROVE  Own(t) /\ Ends(t)
  <2>1. /\ pending' = IF pending.ticket = writing[t].ticket THEN NoPending ELSE pending
        /\ res => failed_upto' = failed_upto
        /\ ~res => failed_upto' = writing[t].ticket
    BY <1>10, Zenon DEF WriteEnds, Record
  <2>2. writing' = [writing EXCEPT ![t] = NoPending]
    BY <1>10, Zenon DEF WriteEnds
  <2>3. CASE t = Remover
    <3>1. pc' = [pc EXCEPT ![t] = "delete"] /\ ok' = ok
      BY <1>10, <2>3, Zenon DEF WriteEnds, goto
    <3>2. Own(t)
      BY Zenon, <1>0, <1>10, <2>2, <3>1 DEF Facts, Own
    <3>3. pc'[t] = "delete"
      BY Zenon, <1>0, <3>1 DEF Facts
    <3> QED
      BY <1>10, <2>1, <2>3, <3>2, <3>3, Zenon DEF Ends
  <2>4. CASE t # Remover
    <3>1. /\ pc' = [pc EXCEPT ![t] = IF ~res /\ kind[t] = "update" THEN "failed" ELSE "idle"]
          /\ ok' = [ok EXCEPT ![t] = res]
      BY <1>10, <2>4, Zenon DEF WriteEnds, Return, goto
    <3>2. Own(t)
      BY Zenon, <1>0, <1>10, <2>2, <3>1 DEF Facts, Own
    <3>3. pc'[t] \in {"idle", "failed"} /\ (res => pc'[t] # "failed")
      BY Zenon, <1>0, <3>1 DEF Facts
    <3> QED
      BY <1>10, <2>1, <2>4, <3>2, <3>3, Zenon DEF Ends
  <2> QED
    BY Zenon, <2>3, <2>4
<1>11. ASSUME NEW t \in Tasks, WriteActive(t) \/ WriteRow(t) \/ WriteFails(t)
       PROVE  Own(t) /\ (StoresFirst(t) \/ Ends(t))
  <2>1. CASE WriteActive(t) /\ ~writing[t].with_history
    BY <1>10, <2>1, Zenon DEF WriteActive, Writing
  <2>2. CASE WriteRow(t)
    <3>1. active' = writing[t].v \/ Late'
      BY <2>2, Zenon DEF WriteRow, GateInv, WriteInv, Writing, Late
    <3> QED
      BY <1>10, <2>2, <3>1, Zenon DEF WriteRow, Writing
  <2>3. CASE WriteFails(t)
    BY <1>10, <2>3, Zenon DEF WriteFails, Writing
  <2> QED
    BY <1>9, <1>11, <2>1, <2>2, <2>3, Zenon
<1>12. CASE TakeOut
  BY Zenon, <1>0, <1>12, TaskFacts DEF Facts, TakeOut, mark_removed, goto, Own, Removes, store
<1>13. CASE DropExpired
  BY Zenon, <1>0, <1>13, TaskFacts DEF Facts, DropExpired, mark_removed, goto, Own, Removes, store, carried
<1>14. CASE AlreadyDropped
  BY Zenon, <1>0, <1>14, TaskFacts DEF Facts, AlreadyDropped, goto, Own, Removes, gate, store
<1>15. CASE DeleteBegins
  <2>1. CASE pending = NoPending
    BY Zenon, <1>0, <1>15, <2>1, TaskFacts DEF Facts, DeleteBegins, goto, Own, Removes, gate, store
  <2>2. CASE pending # NoPending
    BY Zenon, <1>0, <1>15, <2>2, TaskFacts DEF Facts, DeleteBegins, goto, Own, Takes, Writing, gate, store
  <2> QED
    BY Zenon, <2>1, <2>2, TaskFacts
<1>16. CASE DeleteActive
  <2>2. /\ pc[Remover] = "delete" /\ pc' = [pc EXCEPT ![Remover] = "save_entry"]
        /\ UNCHANGED <<order, changes, pending, failed_upto, entry, conversion, before, ticket, writing, ok>>
    BY <1>16, Zenon DEF DeleteActive, goto, gate
  <2>3. \E v : /\ v = before[Remover].v \/ (active # Absent /\ v = active)
              /\ state' = [state EXCEPT ![Remover] = v]
    BY <1>16, Zenon DEF DeleteActive, OrderToSave
  <2>4. active' \in {Absent, active}
    BY ZenonT(40), <1>16 DEF DeleteActive
  <2> QED
    BY Zenon, <1>0, <2>2, <2>3, <2>4, TaskFacts DEF Facts, Own, Removes
<1>17. CASE SaveEntry
  BY Zenon, <1>0, <1>17, TaskFacts DEF Facts, SaveEntry, goto, Own, Removes, gate, carried
<1>20. CASE SaveInTime \/ SaveLate
  <2>1. UNCHANGED <<order, changes, pending, failed_upto, entry, pc, before, state, ticket, writing, ok>>
    BY Zenon, <1>20 DEF SaveInTime, SaveLate, gate, carried
  <2>2. SaveLate => Late'
    BY Zenon DEF SaveLate, Late
  <2>3. ASSUME SaveInTime PROVE written_upto = 0 /\ pc[Remover] \notin {"save_entry", "gone"}
    BY <2>3, TaskFacts, Zenon DEF SaveInTime, InTime, GateInv, LockInv
  <2> QED
    BY Zenon, <1>20, <2>1, <2>2, <2>3 DEF Saves
<1>18. ASSUME NEW w \in Writers, GetOrder(w) \/ Steps(w)
       PROVE  \/ Own(w) /\ (Leaves(w) \/ Changes(w) \/ Publishes(w))
              \/ w \in Tasks /\ Own(w) /\ (Takes(w) \/ StoresFirst(w) \/ Ends(w))
  BY <1>1, <1>2, <1>3, <1>4, <1>5, <1>6, <1>7, <1>8, <1>11, <1>18, TaskFacts, Zenon DEF Steps
<1>19. CASE Removal
  BY <1>11, <1>14, <1>15, <1>16, <1>17, <1>19, TaskFacts, Zenon DEF Removal
<1> QED
  BY <1>12, <1>13, <1>18, <1>19, <1>20, Zenon DEF Next

(* The state that waits is written by the removal at the latest, and a write  *)
(* under way keeps its ticket.                                                *)
LEMMA TakenStep == ASSUME GateTypeOK, GateInv, TakenInv, FaultlessInv, Next PROVE TakenInv'
<1>0. Facts
  BY TypeFacts
<1>1. ASSUME NEW w \in Writers, Own(w), Leaves(w) \/ Changes(w) PROVE TakenInv'
  <2>1. /\ ~Writing(w)' /\ pending' = pending
        /\ \A u \in Tasks : u # w => pc'[u] = pc[u] /\ writing'[u] = writing[u]
    BY <1>1, Zenon DEF Own, Leaves, Changes, Writing
  <2> QED
    BY <2>1, TaskFacts, ZenonT(40) DEF TakenInv, Writing, Unwritten
<1>2. ASSUME NEW w \in Writers, Own(w), Publishes(w) PROVE TakenInv'
  <2>1. pc'[Remover] = pc[Remover] /\ pc[Remover] = "idle"
    BY Zenon, <1>2, TaskFacts DEF Own, Publishes, GateInv, LockInv
  <2>2. ASSUME NEW t \in Tasks, Writing(t)' PROVE writing'[t].ticket # pending'.ticket
    <3>1. t # w /\ Writing(t) /\ writing'[t] = writing[t]
      BY Zenon, <1>2, <2>2 DEF Own, Publishes, Writing
    <3>2. writing[t].ticket <= last_ticket /\ writing[t].ticket \in Nat /\ last_ticket \in Nat
      BY <1>0, <3>1, Zenon DEF Facts, GateInv, WriteInv
    <3>3. pending'.ticket = last_ticket + 1
      BY <1>2, Zenon DEF Publishes
    <3> QED
      BY ONLY <3>1, <3>2, <3>3
  <2> QED
    BY <2>1, <2>2, Zenon DEF TakenInv, Writing
<1>3. ASSUME NEW t \in Tasks, Own(t), Takes(t) PROVE TakenInv'
  <2>1. pc'[t] = "write" /\ writing'[t] = pending /\ pending' = pending
    BY ZenonT(40), <1>3 DEF Takes
  <2>2. \A u \in Tasks : u # t => pc'[u] = pc[u] /\ writing'[u] = writing[u]
    BY Zenon, <1>3 DEF Own
  <2>4. \A u \in Tasks : Writing(u)' /\ writing'[u].ticket = pending'.ticket => writing'[u].v = pending'.v
    BY <2>1, <2>2, Zenon DEF TakenInv, Writing
  <2>5. /\ Writing(Remover)' => writing'[Remover].ticket = pending'.ticket
        /\ pc'[Remover] \in {"delete", "save_entry", "gone"} => ~Unwritten'
    BY Zenon, <2>1, <2>2, TaskFacts DEF TakenInv, Writing, Unwritten
  <2> QED
    BY <2>4, <2>5, Zenon DEF TakenInv
<1>4. ASSUME NEW t \in Tasks, Own(t), StoresFirst(t) PROVE TakenInv'
  <2>1. /\ pending' = pending /\ \A u \in Tasks : writing'[u] = writing[u]
        /\ pc[t] = "write" /\ pc'[t] = "write_row" /\ \A u \in Tasks : u # t => pc'[u] = pc[u]
    BY <1>4, Zenon DEF Own, StoresFirst
  <2>2. \A u \in Tasks : Writing(u)' <=> Writing(u)
    BY Zenon, <2>1 DEF Writing
  <2>3. pc'[Remover] \in {"delete", "save_entry", "gone"} => pc[Remover] \in {"delete", "save_entry", "gone"}
    BY Zenon, <2>1, TaskFacts
  <2> QED
    BY <2>1, <2>2, <2>3, TaskFacts, ZenonT(40) DEF TakenInv, Unwritten
<1>5. ASSUME NEW t \in Tasks, Own(t), Ends(t) PROVE TakenInv'
  <2>1. \A u \in Tasks : u # t => ~Writing(u) /\ pc[u] \notin {"delete", "save_entry"}
    BY Zenon, <1>5, TaskFacts DEF Ends, GateInv, LockInv, Writing
  <2>2. \A u \in Tasks : u # t => pc'[u] = pc[u]
    BY Zenon, <1>5 DEF Own
  <2>3. pc'[t] \in {"delete", "idle", "failed"}
    BY Zenon, <1>5 DEF Ends
  <2>4. \A u \in Tasks : ~Writing(u)'
    BY Zenon, <2>1, <2>2, <2>3 DEF Writing
  <2>6. pc'[Remover] \in {"delete", "save_entry", "gone"} => ~Unwritten'
    <3>1. CASE t = Remover
      <4>1. pending' = NoPending
        BY <1>5, <3>1, Zenon DEF Ends, TakenInv
      <4> QED
        BY Zenon, <4>1 DEF NoPending, Unwritten
    <3>2. CASE t # Remover
      <4>1. pc[Remover] # "gone"
        BY <1>5, Zenon DEF Ends, GateInv, LockInv
      <4> QED
        BY Zenon, <2>1, <2>2, <3>2, <4>1, TaskFacts
    <3> QED
      BY Zenon, <3>1, <3>2
  <2> QED
    BY <2>4, <2>6, TaskFacts, Zenon DEF TakenInv
<1>6. ASSUME Own(Remover), Removes PROVE TakenInv'
  <2>1. /\ pending' = pending
        /\ \A u \in Tasks : u # Remover => pc'[u] = pc[u] /\ writing'[u] = writing[u]
    BY Zenon, <1>6 DEF Own, Removes
  <2>2. /\ pc'[Remover] \in {"dropped", "taken", "delete", "save_entry", "gone"}
        /\ pc'[Remover] = "delete" => pending = NoPending
        /\ pc'[Remover] \in {"save_entry", "gone"} => pc[Remover] \in {"delete", "save_entry"}
    BY Zenon, <1>6 DEF Removes
  <2>3. ~Writing(Remover)'
    BY Zenon, <2>2 DEF Writing
  <2>4. pc'[Remover] \in {"delete", "save_entry", "gone"} => ~Unwritten'
    <3>1. pending = NoPending => ~Unwritten
      BY DEF Unwritten, NoPending
    <3>2. pc[Remover] \in {"delete", "save_entry"} => ~Unwritten
      BY Zenon DEF TakenInv
    <3>3. Unwritten' <=> Unwritten
      BY Zenon, <2>1 DEF Unwritten
    <3> QED
      BY Zenon, <2>2, <3>1, <3>2, <3>3
  <2>5. \A u \in Tasks : u # Remover => (Writing(u)' <=> Writing(u))
    BY Zenon, <2>1 DEF Writing
  <2> QED
    BY <2>1, <2>3, <2>4, <2>5, TaskFacts, Zenon DEF TakenInv
<1>7. CASE Saves
  BY <1>7, ZenonT(40) DEF Saves, TakenInv, Writing, Unwritten
<1> QED
  BY <1>1, <1>2, <1>3, <1>4, <1>5, <1>6, <1>7, EntryCases, Zenon

(* The order in memory falls behind the newest state only when a failed       *)
(* update is taken back.                                                      *)
LEMMA FaultlessStep == ASSUME GateTypeOK, GateInv, TakenInv, FaultlessInv, Next PROVE FaultlessInv'
<1>0. Facts
  BY TypeFacts
<1> SUFFICES ASSUME failed_upto' = 0 PROVE order'.v = changes' /\ \A w \in Writers : pc'[w] # "failed"
  BY Zenon DEF FaultlessInv
<1>1. ASSUME NEW w \in Writers, Own(w), Leaves(w) \/ Changes(w) \/ Publishes(w)
      PROVE  order'.v = changes' /\ \A u \in Writers : pc'[u] # "failed"
  <2>1. failed_upto = 0
    BY Zenon, <1>1 DEF Leaves, Changes, Publishes
  <2>2. order'.v = changes' /\ pc'[w] # "failed"
    BY Zenon, <1>1, <2>1 DEF FaultlessInv, Leaves, Changes, Publishes
  <2> QED
    BY <1>1, <2>1, <2>2, TaskFacts, Zenon DEF FaultlessInv, Own
<1>2. ASSUME NEW t \in Tasks, Own(t), Takes(t) \/ StoresFirst(t) \/ Ends(t)
      PROVE  order'.v = changes' /\ \A u \in Writers : pc'[u] # "failed"
  <2>1. Ends(t) => writing[t].ticket # 0
    <3>1. ASSUME Ends(t) PROVE writing[t].ticket > written_upto
      BY <3>1, Zenon DEF Ends, GateInv, WriteInv
    <3> QED
      BY <1>0, <3>1 DEF Facts
  <2>2. failed_upto = 0 /\ pc'[t] # "failed" /\ UNCHANGED <<order, changes>>
    BY Zenon, <1>2, <2>1 DEF Takes, StoresFirst, Ends
  <2> QED
    BY <1>2, <2>2, TaskFacts, Zenon DEF FaultlessInv, Own
<1>3. ASSUME Own(Remover), Removes PROVE order'.v = changes' /\ \A u \in Writers : pc'[u] # "failed"
  <2>1. failed_upto = 0 /\ UNCHANGED <<order, changes>>
    BY <1>3, Zenon DEF Removes
  <2> QED
    BY <1>3, <2>1, TaskFacts, ZenonT(40) DEF FaultlessInv, Own
<1>4. CASE Saves
  BY <1>4, Zenon DEF Saves, FaultlessInv
<1> QED
  BY <1>1, <1>2, <1>3, <1>4, EntryCases, Zenon

(* What the removal will save covers every caller that waits or was told Ok,  *)
(* step by step.                                                              *)
LEMMA CoverStep == ASSUME GateTypeOK, GateInv, EntryInv, Next PROVE CoverInv'
<1>0. Facts
  BY Zenon, TypeFacts
<1>1. SUFFICES ASSUME failed_upto' = 0, NEW w \in Writers, Told(w)'
               PROVE  CoveredByOrder(w)' /\ (Late' \/ CoveredByRecord(w)')
  BY Zenon DEF CoverInv
<1>2. w \in Tasks /\ Remover \in Tasks /\ w # Remover
  BY Zenon, TaskFacts
<1>3. failed_upto = 0 /\ Told(w) => CoveredByOrder(w) /\ (Late \/ CoveredByRecord(w))
  BY Zenon DEF EntryInv, CoverInv
<1>4. order.v = changes \/ failed_upto # 0
  BY Zenon DEF EntryInv, FaultlessInv
<1>5. state[w] \in Nat /\ state[w] <= changes
  BY Zenon, <1>0, <1>2 DEF Facts, GateInv, NewestInv
<1>6. ASSUME NEW v \in Writers, Own(v), Leaves(v) \/ Changes(v)
      PROVE  CoveredByOrder(w)' /\ (Late' \/ CoveredByRecord(w)')
  <2>1. failed_upto = 0 /\ UNCHANGED <<pending, active, conversion>>
    BY ZenonT(40), <1>1, <1>6 DEF Leaves, Changes
  <2>2. pc'[Remover] = pc[Remover] /\ state'[Remover] = state[Remover] /\ before'[Remover] = before[Remover]
    BY ZenonT(40), <1>2, <1>6, TaskFacts DEF Own
  <2>3. Told(w) /\ state'[w] = state[w]
    <3>1. CASE v = w
      BY Zenon, <1>1, <1>6, <3>1 DEF Leaves, Changes, Told, Waiting, Writing, Ok
    <3>2. CASE v # w
      BY <1>1, <1>2, <1>6, <3>2, Zenon DEF Own, Told, Waiting, Writing, Ok
    <3> QED
      BY ZenonT(40), <3>1, <3>2
  <2>4. (Unwritten' <=> Unwritten) /\ (Late' <=> Late)
    BY Zenon, <2>1 DEF Unwritten, Late
  <2> QED
    BY <1>3, <2>1, <2>2, <2>3, <2>4, Zenon DEF CoveredByOrder, CoveredByRecord
<1>7. ASSUME NEW v \in Writers, Own(v), Publishes(v) PROVE CoveredByOrder(w)' /\ CoveredByRecord(w)'
  <2>1. pc'[Remover] = "idle"
    BY Zenon, <1>2, <1>7, TaskFacts DEF Own, Publishes, GateInv, LockInv
  <2>2. Unwritten'
    <3>1. pending'.ticket = last_ticket + 1
      BY Zenon, <1>7 DEF Publishes
    <3> QED
      BY <1>0, <3>1 DEF Facts, Unwritten
  <2> QED
    BY Zenon, <2>1, <2>2 DEF CoveredByOrder, CoveredByRecord
<1>8. ASSUME NEW t \in Tasks, Own(t), Takes(t) \/ StoresFirst(t)
      PROVE  CoveredByOrder(w)' /\ (Late' \/ CoveredByRecord(w)')
  <2>1. /\ failed_upto = 0 /\ pending' = pending
        /\ state'[t] = state[t] /\ before'[t] = before[t]
        /\ (UNCHANGED <<active, conversion>>) \/ StoresFirst(t)
    BY <1>1, <1>8, Zenon DEF Takes, StoresFirst
  <2>2. \A u \in Tasks : state'[u] = state[u] /\ before'[u] = before[u]
    BY <1>8, <2>1, Zenon DEF Own
  <2>3. Told(w)
    <3>1. CASE t = w
      BY <1>2, <1>8, <3>1, Zenon DEF Takes, StoresFirst, Told, Waiting, Writing
    <3>2. CASE t # w
      BY <1>1, <1>2, <1>8, <3>2, Zenon DEF Own, Told, Waiting, Writing, Ok
    <3> QED
      BY Zenon, <3>1, <3>2
  <2>4. /\ pc'[Remover] \notin {"idle", "dropped"} => pc[Remover] \notin {"idle", "dropped"}
        /\ pc'[Remover] \in {"save_entry", "gone"} => pc[Remover] \in {"save_entry", "gone"}
    BY Zenon, <1>2, <1>8 DEF Own, Takes, StoresFirst
  <2>5. CoveredByOrder(w)'
    BY <1>2, <1>3, <2>1, <2>2, <2>3, <2>4, Zenon DEF CoveredByOrder
  <2>6. Unwritten' <=> Unwritten
    BY Zenon, <2>1 DEF Unwritten
  <2>7. CASE UNCHANGED <<active, conversion>>
    BY <1>2, <1>3, <2>1, <2>2, <2>3, <2>4, <2>5, <2>6, <2>7, Zenon DEF CoveredByRecord, Late
  <2>8. CASE StoresFirst(t)
    <3>1. Writing(t)
      BY Zenon, <2>8 DEF StoresFirst, Writing
    <3>2. Unwritten /\ pc[Remover] \notin {"save_entry", "gone"}
      BY <1>2, <3>1, Zenon DEF GateInv, WriteInv, LockInv, Writing
    <3> QED
      BY Zenon, <2>4, <2>5, <2>6, <3>2 DEF CoveredByRecord
  <2> QED
    BY Zenon, <2>1, <2>7, <2>8
<1>9. ASSUME NEW t \in Tasks, Own(t), Ends(t) PROVE CoveredByOrder(w)' /\ (Late' \/ CoveredByRecord(w)')
  <2>1. writing[t].ticket \in Nat /\ writing[t].v \in Nat /\ Writing(t) /\ writing[t].ticket > written_upto
    BY <1>0, <1>9, ZenonT(40) DEF Facts, Ends, GateInv, WriteInv
  <2>2. failed_upto = 0 /\ (active' = writing[t].v \/ Late')
    <3>1. writing[t].ticket # 0
      BY <1>0, <2>1 DEF Facts
    <3>2. QED
      BY <1>1, <1>9, <3>1, Zenon DEF Ends
  <2>3. \A u \in Tasks : state'[u] = state[u] /\ before'[u] = before[u]
    BY <1>9, Zenon DEF Own, Ends
  <2>4. Told(w)
    <3>1. CASE t = w
      BY Zenon, <2>1, <3>1 DEF Told, Waiting
    <3>2. CASE t # w
      BY <1>1, <1>2, <1>9, <3>2, Zenon DEF Own, Told, Waiting, Writing, Ok
    <3> QED
      BY <3>1, <3>2
  <2>5. pc'[Remover] \notin {"idle", "dropped"} => pc[Remover] \notin {"idle", "dropped"}
    <3>1. CASE t = Remover
      BY Zenon, <2>1, <3>1 DEF Writing
    <3>2. CASE t # Remover
      BY Zenon, <1>2, <1>9, <3>2 DEF Own
    <3> QED
      BY Zenon, <3>1, <3>2
  <2>6. pc'[Remover] \notin {"save_entry", "gone"}
    <3>1. CASE t = Remover
      BY Zenon, <1>9, <3>1 DEF Ends
    <3>2. CASE t # Remover
      <4>1. pc[Remover] \notin {"save_entry", "gone"}
        BY <1>2, <2>1, Zenon DEF GateInv, LockInv, Writing
      <4> QED
        BY Zenon, <1>2, <1>9, <3>2, <4>1 DEF Own
    <3> QED
      BY Zenon, <3>1, <3>2
  <2>7. CoveredByOrder(w)'
    BY <1>2, <1>3, <2>2, <2>3, <2>4, <2>5, Zenon DEF CoveredByOrder
  <2>8. state[w] <= writing[t].v \/ Unwritten'
    <3>1. Unwritten /\ state[w] <= pending.v
      BY <2>1, <2>4, Zenon DEF GateInv, WriteInv, CallerInv
    <3>2. CASE pending.ticket = writing[t].ticket
      <4>1. writing[t].v = pending.v
        BY <2>1, <3>2, Zenon DEF EntryInv, TakenInv
      <4> QED
        BY Zenon, <3>1, <4>1
    <3>3. CASE pending.ticket # writing[t].ticket
      <4>1. pending' = pending
        BY Zenon, <1>9, <3>3 DEF Ends
      <4> QED
        BY Zenon, <3>1, <4>1 DEF Unwritten
    <3> QED
      BY Zenon, <3>2, <3>3
  <2> QED
    BY <1>2, <2>2, <2>3, <2>6, <2>7, <2>8, Zenon DEF CoveredByRecord
<1>10. ASSUME Own(Remover), Removes PROVE CoveredByOrder(w)' /\ (Late' \/ CoveredByRecord(w)')
  <2>1. failed_upto = 0 /\ UNCHANGED <<order, changes, pending, conversion>>
    BY Zenon, <1>1, <1>10 DEF Removes
  <2>2. state'[w] = state[w] /\ Told(w)
    BY <1>1, <1>2, <1>10, Zenon DEF Own, Told, Waiting, Writing, Ok
  <2>3. CoveredByOrder(w) /\ (Late \/ CoveredByRecord(w)) /\ (Unwritten' <=> Unwritten) /\ (Late' <=> Late)
    BY Zenon, <1>3, <2>1, <2>2 DEF Unwritten, Late
  <2>4. CoveredByOrder(w)'
    <3>1. CASE pc'[Remover] = "taken" /\ before'[Remover] = order
      BY Zenon, <1>4, <1>5, <2>1, <2>2, <3>1 DEF CoveredByOrder
    <3>2. CASE before' = before /\ pc[Remover] \notin {"idle", "dropped"}
      BY Zenon, <2>2, <2>3, <3>2 DEF CoveredByOrder
    <3>3. CASE pc'[Remover] = "dropped"
      BY Zenon, <3>3 DEF CoveredByOrder
    <3> QED
      BY Zenon, <1>10, <3>1, <3>2, <3>3 DEF Removes
  <2>5. CASE CoveredByRecord(w)
    <3>1. active' = Absent \/ state[w] <= active' \/ Unwritten'
      BY <1>10, <2>3, <2>5, Zenon DEF Removes, CoveredByRecord
    <3>2. pc'[Remover] \in {"save_entry", "gone"} => state[w] <= state'[Remover]
      <4>1. CASE pc'[Remover] = "gone"
        BY Zenon, <1>10, <2>5, <4>1 DEF Removes, CoveredByRecord
      <4>2. CASE pc'[Remover] = "save_entry"
        <5>1. /\ pc[Remover] = "delete"
              /\ state'[Remover] = before[Remover].v \/ (active # Absent /\ state'[Remover] = active)
          BY Zenon, <1>10, <4>2 DEF Removes
        <5>2. ~Unwritten
          BY Zenon, <5>1 DEF EntryInv, TakenInv
        <5> QED
          BY Zenon, <2>3, <2>5, <5>1, <5>2 DEF CoveredByOrder, CoveredByRecord
      <4> QED
        BY Zenon, <4>1, <4>2
    <3> QED
      BY Zenon, <2>2, <2>4, <3>1, <3>2 DEF CoveredByRecord
  <2> QED
    BY Zenon, <2>3, <2>4, <2>5
<1>11. CASE Saves
  <2>1. failed_upto = 0 /\ Told(w) /\ state'[w] = state[w]
    BY Zenon, <1>1, <1>11 DEF Saves, Told, Waiting, Writing, Ok
  <2>2. CoveredByOrder(w)'
    BY Zenon, <1>3, <1>11, <2>1 DEF Saves, CoveredByOrder
  <2>3. CASE written_upto = 0 /\ pc[Remover] \notin {"save_entry", "gone"}
    <3>1. last_ticket > 0 /\ last_ticket \in Nat
      BY <1>0, <2>1, Zenon DEF Facts, GateInv, CallerInv
    <3>2. last_ticket # 0
      BY ONLY <3>1
    <3>3. Unwritten
      BY <2>1, <2>3, <3>2, Zenon DEF GateInv, TicketInv
    <3> QED
      BY Zenon, <1>11, <2>2, <2>3, <3>3 DEF Saves, CoveredByRecord, Unwritten
  <2> QED
    BY Zenon, <1>11, <2>2, <2>3 DEF Saves
<1> QED
  BY <1>6, <1>7, <1>8, <1>9, <1>10, <1>11, EntryCases, Zenon DEF EntryInv

(* The history entry is the state the removal carried to it. *)
LEMMA SavedStep == ASSUME GateTypeOK, GateInv, EntryInv, Next PROVE SavedInv'
<1>1. ASSUME NEW t \in Tasks, Own(t), entry' = entry, t # Remover \/ pc[t] # "gone" PROVE SavedInv'
  BY <1>1, TaskFacts, Zenon DEF EntryInv, SavedInv, Own
<1>2. ASSUME NEW w \in Writers, Own(w), Leaves(w) \/ Changes(w) \/ Publishes(w) PROVE SavedInv'
  BY Zenon, <1>1, <1>2, TaskFacts DEF Leaves, Changes, Publishes
<1>3. ASSUME NEW t \in Tasks, Own(t), Takes(t) \/ StoresFirst(t) \/ Ends(t) PROVE SavedInv'
  <2>1. entry' = entry
    BY ZenonT(40), <1>3 DEF Takes, StoresFirst, Ends
  <2>2. pc[t] # "gone"
    BY Zenon, <1>3 DEF Takes, StoresFirst, Ends, Writing
  <2> QED
    BY Zenon, <1>1, <1>3, <2>1, <2>2
<1>4. ASSUME Own(Remover), Removes PROVE SavedInv'
  BY <1>4, Zenon DEF Removes, EntryInv, SavedInv
<1>5. CASE Saves
  BY <1>5, Zenon DEF Saves, EntryInv, SavedInv
<1> QED
  BY <1>2, <1>3, <1>4, <1>5, EntryCases, Zenon DEF EntryInv

(* Why the history entry is no older than what was stored, in every state. *)
THEOREM EntryInvariant == Spec => []EntryInv
<1>1. ASSUME Init PROVE EntryInv
  <2>1. \A t \in Tasks : pc[t] = "idle" /\ ok[t] = FALSE
    BY Zenon, <1>1 DEF Init
  <2>2. /\ \A t \in Tasks : ~Waiting(t) /\ ~Writing(t) /\ ~Ok(t)
        /\ order.v = changes /\ entry = Absent
    BY Zenon, <1>1, <2>1 DEF Init, Waiting, Writing, Ok
  <2> QED
    BY <2>1, <2>2, TaskFacts, Zenon DEF EntryInv, TakenInv, FaultlessInv, CoverInv, SavedInv, Told
<1>2. ASSUME GateTypeOK, GateInv, EntryInv, [Next]_vars PROVE EntryInv'
  <2>1. CASE Next
    BY <2>1, <1>2, TakenStep, FaultlessStep, CoverStep, SavedStep, Zenon DEF EntryInv
  <2>2. CASE UNCHANGED vars
    BY <1>2, <2>2, Zenon DEF vars, gate, store, carried, EntryInv, TakenInv, FaultlessInv, CoverInv, SavedInv,
       CoveredByOrder, CoveredByRecord, Told, Waiting, Writing, Ok, Unwritten, Late
  <2> QED
    BY Zenon, <1>2, <2>1, <2>2
<1> QED
  BY <1>1, <1>2, GateTypeCorrect, GateInvariant, PTL DEF Spec

(* delete_my_maker_order: the history entry of a removal is no older than any *)
(* state whose writer was told it is stored, as long as no write has failed   *)
(* and no late save of a converted order is what the removal read back.       *)
THEOREM EntryIsNewest == Spec => []EntryKeepsStored
<1>1. GateTypeOK /\ EntryInv => EntryKeepsStored
  <2> SUFFICES ASSUME GateTypeOK, EntryInv, entry # Absent, failed_upto = 0, ~Late, NEW w \in Writers, Ok(w)
               PROVE  entry >= state[w]
    BY Zenon DEF EntryKeepsStored
  <2>1. CoveredByRecord(w) /\ pc[Remover] = "gone" /\ entry = state[Remover]
    BY Zenon DEF EntryInv, CoverInv, SavedInv, Told
  <2>2. state[w] \in Nat /\ entry \in Nat
    BY Zenon, TypeFacts, TaskFacts DEF Facts, GateTypeOK
  <2> QED
    BY Zenon, <2>1, <2>2 DEF CoveredByRecord
<1> QED
  BY <1>1, GateTypeCorrect, EntryInvariant, PTL

=============================================================================
