--------------------------- MODULE OrderWriteGate ---------------------------
(***************************************************************************)
(* The storage order of one maker order: the order's lock, its write gate  *)
(* (order_write_gate.rs), the tasks that change the order and the task     *)
(* that removes it from the container.                                     *)
(*                                                                         *)
(* The states of the order are numbered in the order of the changes made   *)
(* under its lock, so "newer" is "greater".  A task holds the lock, or the *)
(* gate's I/O lock, across several steps exactly where the code awaits     *)
(* with the guard alive.                                                   *)
(*                                                                         *)
(* One writer does not pass through the gate: handle_timed_out_taker_      *)
(* orders puts the maker order it made of a taker order into the container *)
(* and then saves the first state of that order, a clone it kept.          *)
(***************************************************************************)
EXTENDS Integers, FiniteSets

CONSTANTS
    Writers,        \* the tasks that change the order
    Remover,        \* the task that takes the order out of the container
    MaxChanges,     \* bound: changes that callers come to make
    StorageFails,   \* whether a call of the storage may return an error
    Expires         \* whether the order has a timeout

Free == "free"

ASSUME GateAssumption ==
    /\ Remover \notin Writers /\ Free \notin Writers /\ Free # Remover
    /\ MaxChanges \in Nat
    /\ StorageFails \in BOOLEAN /\ Expires \in BOOLEAN

VARIABLES
    order,          \* the order in memory: its state and was_updated()
    changes,        \* the number of the newest state
    lock,           \* the holder of the order's AsyncMutex, or Free
    \* GateState
    last_ticket, pending, written_upto, failed_upto, removed,
    io,             \* the holder of the gate's I/O lock, or Free
    \* the storage
    active,         \* the state in the active record; Absent when there is none that can be read
    row,            \* the state in the row of the history database
    entry,          \* the state in the history entry of the removal, or Absent
    conversion,     \* of a converted taker order: where the save outside the gate is
    \* each task: the step it is at, and what it carries across its awaits
    pc,
    kind,           \* the caller it is
    before,         \* order_before_update; for the remover, the order to delete
    state,          \* the state it made; for the remover, the state it saves
    ticket,         \* the ticket it was given
    writing,        \* the pending write it took out
    ok              \* whether its last call of complete returned Ok

gate == <<last_ticket, pending, written_upto, failed_upto, removed>>
store == <<active, row, entry, conversion>>
carried == <<kind, before, state, ticket, writing, ok>>
vars == <<order, changes, lock, gate, io, store, pc, carried>>

Absent == 0
Created == 1        \* the state the order is stored with when it is created
States == Nat \ {Absent}

Tasks == Writers \cup {Remover}

(***************************************************************************)
(* The callers.  "update" is update_maker_order, "negotiate" the two       *)
(* handlers of a taker's messages, "timeout" handle_timed_out_maker_       *)
(* matches and "balance" the balance_updated handler, which changes the    *)
(* order without storing it.                                               *)
(***************************************************************************)
Kinds == {"update", "negotiate", "timeout", "balance"}
Locations == {"idle", "has_order", "changed", "published", "write", "write_row",
              "failed", "dropped", "taken", "delete", "save_entry", "gone"}

(* "none": the order was created as a maker order.  "late": the save came after a write of the *)
(* gate, or after the deletion, and no write of the gate has followed it.                       *)
Conversions == {"none", "saving", "saved", "late"}

OrderState == [v : States, updated : BOOLEAN]
PendingWrite == [ticket : Nat, v : Nat, with_history : BOOLEAN]
NoPending == [ticket |-> 0, v |-> Absent, with_history |-> FALSE]

(* create_maker_order saves the record first, and only logs an error of it.  A converted order *)
(* is in the container before its record is.                                                   *)
FirstRecord ==
    \/ /\ conversion = "none"
       /\ active = Created \/ (StorageFails /\ active = Absent)
    \/ conversion = "saving" /\ active = Absent

Init ==
    /\ order = [v |-> Created, updated |-> FALSE]
    /\ changes = Created
    /\ lock = Free
    /\ last_ticket = 0 /\ pending = NoPending
    /\ written_upto = 0 /\ failed_upto = 0 /\ removed = FALSE
    /\ io = Free
    /\ FirstRecord /\ row = Created /\ entry = Absent
    /\ pc = [t \in Tasks |-> "idle"]
    /\ kind = [t \in Tasks |-> "update"]
    /\ before = [t \in Tasks |-> order]
    /\ state = [t \in Tasks |-> Created]
    /\ ticket = [t \in Tasks |-> 0]
    /\ writing = [t \in Tasks |-> NoPending]
    /\ ok = [t \in Tasks |-> FALSE]

goto(t, loc) == pc' = [pc EXCEPT ![t] = loc]

-----------------------------------------------------------------------------
(***************************************************************************)
(* Changing the order.  A writer first gets the order from the container   *)
(* and locks it later, so the order may have been removed in between:      *)
(* update_maker_order, which locked it a first time to compute the update, *)
(* looks again; the other paths do not.                                    *)
(***************************************************************************)
GetOrder(w) ==
    /\ pc[w] = "idle"
    /\ ~removed
    /\ changes + Cardinality({t \in Tasks : pc[t] = "has_order"}) < Created + MaxChanges
    /\ \E k \in Kinds : (k = "update" => lock = Free) /\ kind' = [kind EXCEPT ![w] = k]
    /\ before' = [before EXCEPT ![w] = order]
    /\ ok' = [ok EXCEPT ![w] = FALSE]
    /\ goto(w, "has_order")
    /\ UNCHANGED <<order, changes, lock, gate, io, store, state, ticket, writing>>

(* "Order state has changed after price/volume/balance checks", or "has been deleted" *)
UpdateRefused(w) == kind[w] = "update" /\ (order # before[w] \/ removed)

(* The other paths may find nothing to change: no match, nothing timed out, balance enough. *)
LockAndLeave(w) ==
    /\ pc[w] = "has_order" /\ lock = Free
    /\ UpdateRefused(w) \/ kind[w] # "update"
    /\ goto(w, "idle")
    /\ UNCHANGED <<order, changes, lock, gate, io, store, carried>>

(* The balance handler cuts the volume in memory and stores nothing. *)
InMemoryOnly(w) == kind[w] = "balance"

(* The lock is taken and the change is made. *)
LockAndChange(w) ==
    /\ pc[w] = "has_order" /\ lock = Free
    /\ ~UpdateRefused(w)
    /\ changes' = changes + 1
    /\ order' = [v |-> changes + 1, updated |-> order.updated \/ kind[w] = "update"]
    /\ state' = [state EXCEPT ![w] = changes + 1]
    /\ IF InMemoryOnly(w)
       THEN goto(w, "idle") /\ lock' = lock
       ELSE goto(w, "changed") /\ lock' = w
    /\ UNCHANGED <<gate, io, store, kind, before, ticket, writing, ok>>

(* OrderWriteGate::publish: the newest state replaces the one that waits, and keeps its flag. *)
Publish(w) ==
    /\ last_ticket' = last_ticket + 1
    /\ pending' = [ticket |-> last_ticket + 1, v |-> order.v,
                   with_history |-> kind[w] = "update" \/ pending.with_history]

(* The negotiation paths keep the order's lock while they complete the write. *)
KeepsLock(w) == kind[w] = "negotiate"

PublishState(w) ==
    /\ pc[w] = "changed"
    /\ \/ /\ removed
          /\ goto(w, "idle") /\ lock' = Free
          /\ UNCHANGED <<last_ticket, pending, ticket>>
       \/ /\ ~removed
          /\ Publish(w)
          /\ ticket' = [ticket EXCEPT ![w] = last_ticket + 1]
          /\ goto(w, "published")
          /\ lock' = IF KeepsLock(w) THEN lock ELSE Free
    /\ UNCHANGED <<order, changes, written_upto, failed_upto, removed, io, store,
                   kind, before, state, writing, ok>>

-----------------------------------------------------------------------------
(***************************************************************************)
(* Completing a ticket: OrderWriteGate::complete and write.                *)
(***************************************************************************)
(* The caller has its answer.  A failed update goes on to take its change back. *)
Return(w, res) ==
    /\ ok' = [ok EXCEPT ![w] = res]
    /\ lock' = IF lock = w THEN Free ELSE lock
    /\ goto(w, IF ~res /\ kind[w] = "update" THEN "failed" ELSE "idle")

(* The checks made under the I/O lock: stored already or the order is gone; or nothing waits. *)
Covered(w) == written_upto >= ticket[w] \/ removed
NothingWaits(w) == failed_upto < ticket[w] /\ pending = NoPending

CompleteOk(w) ==
    /\ pc[w] = "published" /\ io = Free
    /\ Covered(w) \/ NothingWaits(w)
    /\ Return(w, TRUE)
    /\ UNCHANGED <<order, changes, gate, io, store, kind, before, state, ticket, writing>>

CompleteFailed(w) ==
    /\ pc[w] = "published" /\ io = Free
    /\ ~Covered(w) /\ failed_upto >= ticket[w]
    /\ Return(w, FALSE)
    /\ UNCHANGED <<order, changes, gate, io, store, kind, before, state, ticket, writing>>

(* Slip: the I/O lock is not taken. *)
CompleteWritesUnlocked(w) ==
    /\ pc[w] = "published"
    /\ ~Covered(w) /\ failed_upto < ticket[w]
    /\ pending # NoPending
    /\ io' = w
    /\ writing' = [writing EXCEPT ![w] = pending]
    /\ goto(w, "write")
    /\ UNCHANGED <<order, changes, lock, gate, store, kind, before, state, ticket, ok>>

CompleteWrites(w) ==
    /\ pc[w] = "published" /\ io = Free
    /\ ~Covered(w) /\ failed_upto < ticket[w]
    /\ pending # NoPending
    /\ io' = w
    /\ writing' = [writing EXCEPT ![w] = pending]
    /\ goto(w, "write")
    /\ UNCHANGED <<order, changes, lock, gate, store, kind, before, state, ticket, ok>>

(* Slips: a failed write counts as written; a failed write leaves no trace. *)
RecordAlwaysWritten(p, res) ==
    /\ written_upto' = p.ticket
    /\ failed_upto' = IF res THEN failed_upto ELSE p.ticket
    /\ pending' = IF pending.ticket = p.ticket THEN NoPending ELSE pending

(* The end of OrderWriteGate::write: the outcome is recorded, a newer state stays pending. *)
Record(p, res) ==
    /\ written_upto' = IF res THEN p.ticket ELSE written_upto
    /\ failed_upto' = IF res THEN failed_upto ELSE p.ticket
    /\ pending' = IF pending.ticket = p.ticket THEN NoPending ELSE pending

(* The write of the remover is followed by the deletion, with the I/O lock still held. *)
WriteEnds(t, res) ==
    /\ Record(writing[t], res)
    /\ writing' = [writing EXCEPT ![t] = NoPending]
    /\ \/ t = Remover /\ goto(t, "delete") /\ UNCHANGED <<io, lock, ok>>
       \/ t # Remover /\ Return(t, res) /\ io' = Free

WriteActive(t) ==
    /\ pc[t] = "write"
    /\ active' = writing[t].v
    /\ conversion' = IF conversion = "late" THEN "saved" ELSE conversion
    /\ \/ /\ writing[t].with_history
          /\ goto(t, "write_row")
          /\ UNCHANGED <<lock, written_upto, failed_upto, pending, io, writing, ok>>
       \/ ~writing[t].with_history /\ WriteEnds(t, TRUE)
    /\ UNCHANGED <<order, changes, last_ticket, removed, row, entry, kind, before, state, ticket>>

WriteRow(t) ==
    /\ pc[t] = "write_row"
    /\ row' = writing[t].v
    /\ WriteEnds(t, TRUE)
    /\ UNCHANGED <<order, changes, last_ticket, removed, active, entry, conversion, kind, before, state, ticket>>

(* Either call of write_maker_order_state may fail.  The first one has emptied the file by then, *)
(* or not; what it stored stays when the second one fails.                                        *)
WriteFails(t) ==
    /\ StorageFails
    /\ pc[t] \in {"write", "write_row"}
    /\ active' = active \/ (pc[t] = "write" /\ active' = Absent)
    /\ WriteEnds(t, FALSE)
    /\ UNCHANGED <<order, changes, last_ticket, removed, row, entry, conversion, kind, before, state, ticket>>

(* update_maker_order: "Back to the state before the update, unless the order has changed again, *)
(* or been removed, since."                                                                       *)
RollBack(w) ==
    /\ pc[w] = "failed" /\ lock = Free
    /\ order' = IF order.v = state[w] /\ ~removed THEN before[w] ELSE order
    /\ goto(w, "idle")
    /\ UNCHANGED <<changes, lock, gate, io, store, carried>>

-----------------------------------------------------------------------------
(***************************************************************************)
(* Removing the order.                                                     *)
(***************************************************************************)
(* mark_removed, in the step in which the order leaves the container *)
mark_removed ==
    /\ removed' = TRUE
    /\ UNCHANGED <<last_ticket, pending, written_upto, failed_upto>>

(* RemovedMakerOrder::take_out, with the order's lock held *)
TakeOut ==
    /\ pc[Remover] = "idle" /\ lock = Free
    /\ mark_removed
    /\ before' = [before EXCEPT ![Remover] = order]
    /\ goto(Remover, "taken")
    /\ UNCHANGED <<order, changes, lock, io, store, kind, state, ticket, writing, ok>>

(* drop_expired takes the lock of the container only; the order is locked afterwards. *)
DropExpired ==
    /\ Expires
    /\ pc[Remover] = "idle"
    /\ mark_removed
    /\ goto(Remover, "dropped")
    /\ UNCHANGED <<order, changes, lock, io, store, carried>>

(* Slip: the I/O lock is taken here, and again by the deletion. *)
AlreadyDroppedLocksIo ==
    /\ pc[Remover] = "dropped" /\ lock = Free /\ io = Free
    /\ io' = Remover
    /\ before' = [before EXCEPT ![Remover] = order]
    /\ goto(Remover, "taken")
    /\ UNCHANGED <<order, changes, lock, gate, store, kind, state, ticket, writing, ok>>

AlreadyDropped ==
    /\ pc[Remover] = "dropped" /\ lock = Free
    /\ before' = [before EXCEPT ![Remover] = order]
    /\ goto(Remover, "taken")
    /\ UNCHANGED <<order, changes, lock, gate, io, store, kind, state, ticket, writing, ok>>

(* Slips: the write under way is not waited for; the unwritten state is not written. *)
DeleteBeginsUnlocked ==
    /\ pc[Remover] = "taken"
    /\ io' = Remover
    /\ writing' = [writing EXCEPT ![Remover] = pending]
    /\ goto(Remover, IF pending = NoPending THEN "delete" ELSE "write")
    /\ UNCHANGED <<order, changes, lock, gate, store, kind, before, state, ticket, ok>>

DeleteBeginsUnwritten ==
    /\ pc[Remover] = "taken" /\ io = Free
    /\ io' = Remover
    /\ goto(Remover, "delete")
    /\ UNCHANGED <<order, changes, lock, gate, store, carried>>

(* OrderWriteGate::delete: the state that is still unwritten goes first. *)
DeleteBegins ==
    /\ pc[Remover] = "taken" /\ io = Free
    /\ io' = Remover
    /\ writing' = [writing EXCEPT ![Remover] = pending]
    /\ goto(Remover, IF pending = NoPending THEN "delete" ELSE "write")
    /\ UNCHANGED <<order, changes, lock, gate, store, kind, before, state, ticket, ok>>

(* delete_my_maker_order: an updated order is read back from its active record. *)
OrderToSave ==
    IF before[Remover].updated /\ active # Absent THEN active ELSE before[Remover].v

DeleteActive ==
    /\ pc[Remover] = "delete"
    /\ \/ state' = [state EXCEPT ![Remover] = OrderToSave]
       \/ StorageFails /\ state' = [state EXCEPT ![Remover] = before[Remover].v]
    /\ active' = Absent \/ (StorageFails /\ active' = active)
    /\ goto(Remover, "save_entry")
    /\ UNCHANGED <<order, changes, lock, gate, io, row, entry, conversion, kind, before, ticket, writing, ok>>

SaveEntry ==
    /\ pc[Remover] = "save_entry"
    /\ entry' = state[Remover] \/ (StorageFails /\ entry' = entry)
    /\ io' = Free
    /\ goto(Remover, "gone")
    /\ UNCHANGED <<order, changes, lock, gate, active, row, conversion, carried>>

-----------------------------------------------------------------------------
(***************************************************************************)
(* The save of a converted order, under no lock of the order and outside   *)
(* its gate.  It is in time when neither a write of the gate nor the       *)
(* deletion came before it.                                                *)
(***************************************************************************)
InTime == io = Free /\ written_upto = 0 /\ active = Absent /\ pc[Remover] # "gone"

SaveInTime ==
    /\ conversion = "saving" /\ InTime
    /\ active' = Created \/ (StorageFails /\ active' = Absent)
    /\ conversion' = "saved"
    /\ UNCHANGED <<order, changes, lock, gate, io, row, entry, pc, carried>>

(* The first state goes over whatever is stored, or comes back after the deletion.  A save that *)
(* fails, or that overlaps a write of the same file, may leave it unreadable.                    *)
SaveLate ==
    /\ conversion = "saving" /\ ~InTime
    /\ active' = Created \/ ((StorageFails \/ io # Free) /\ active' \in {active, Absent})
    /\ conversion' = "late"
    /\ UNCHANGED <<order, changes, lock, gate, io, row, entry, pc, carried>>

-----------------------------------------------------------------------------
Steps(w) ==
    \/ LockAndLeave(w) \/ LockAndChange(w) \/ PublishState(w)
    \/ CompleteOk(w) \/ CompleteFailed(w) \/ CompleteWrites(w)
    \/ WriteActive(w) \/ WriteRow(w) \/ WriteFails(w) \/ RollBack(w)

Removal ==
    \/ AlreadyDropped \/ DeleteBegins
    \/ WriteActive(Remover) \/ WriteRow(Remover) \/ WriteFails(Remover)
    \/ DeleteActive \/ SaveEntry

Next ==
    \/ \E w \in Writers : GetOrder(w) \/ Steps(w)
    \/ TakeOut \/ DropExpired
    \/ Removal
    \/ SaveInTime \/ SaveLate

Spec == Init /\ [][Next]_vars

(* A task that was started is polled until it ends; nobody has to call update or cancel. *)
FairSpec == Spec /\ \A w \in Writers : WF_vars(Steps(w)) /\ WF_vars(Removal)

-----------------------------------------------------------------------------
(***************************************************************************)
(* Every variable has its type, and the remover, which takes the order out *)
(* under its lock, does not keep that lock.                                *)
(***************************************************************************)
GateTypeOK ==
    /\ order \in OrderState
    /\ changes \in States
    /\ lock \in Writers \cup {Free}
    /\ last_ticket \in Nat /\ pending \in PendingWrite
    /\ written_upto \in Nat /\ failed_upto \in Nat /\ removed \in BOOLEAN
    /\ io \in Tasks \cup {Free}
    /\ active \in Nat /\ row \in Nat /\ entry \in Nat /\ conversion \in Conversions
    /\ pc \in [Tasks -> Locations]
    /\ kind \in [Tasks -> Kinds]
    /\ before \in [Tasks -> OrderState]
    /\ state \in [Tasks -> States]
    /\ ticket \in [Tasks -> Nat]
    /\ writing \in [Tasks -> PendingWrite]
    /\ ok \in [Tasks -> BOOLEAN]

(* The save of a converted order has gone past the gate, and no write of the  *)
(* gate has replaced it since.                                                *)
Late == conversion = "late"
SavesLate == ~Late /\ Late'

(***************************************************************************)
(* CRD ch.12 R7b item 1: a write that carries an older state never         *)
(* replaces one that carries a newer state, in the active record and in    *)
(* the row of the history database, although the writes run with no order  *)
(* lock held.  The one step of the code that does it is the late save of   *)
(* a converted order, which "every storage write of an order passes        *)
(* through the order's gate" (order_write_gate.rs) leaves out.             *)
(***************************************************************************)
StoredNeverGoesBack ==
    [][/\ active' # Absent => active' >= active \/ SavesLate
       /\ row' >= row]_vars

(***************************************************************************)
(* R7b item 2: once the deletion has removed the active record, no late    *)
(* completion brings it back; again, only the late save of a converted     *)
(* order does.                                                             *)
(***************************************************************************)
NeverRecreated ==
    [][pc[Remover] \in {"save_entry", "gone"} /\ active = Absent
           => active' = Absent \/ SavesLate]_vars

\* The caller was told Ok.
Ok(w) == pc[w] = "idle" /\ ok[w]

(* A write that failed after the last one that succeeded has left the record unreadable. *)
Emptied == active = Absent /\ written_upto < failed_upto

(***************************************************************************)
(* A caller that is told Ok by complete, and whose order is still in the   *)
(* container, has its state in the active record, or a newer one, whoever  *)
(* wrote it, until a later write fails and empties the file, or the late   *)
(* save of a converted order goes over it.  The next write of the gate     *)
(* makes up for both.                                                      *)
(***************************************************************************)
OkMeansStored ==
    \A w \in Writers : Ok(w) /\ ~removed => active >= state[w] \/ Emptied \/ Late

(***************************************************************************)
(* No published state is forgotten: when every writer has its answer, the  *)
(* newest published state is stored or its failure was reported.           *)
(***************************************************************************)
NothingForgotten ==
    (\A w \in Writers : pc[w] \in {"idle", "has_order", "changed"}) /\ ~removed
        => last_ticket \in {written_upto, failed_upto}

(***************************************************************************)
(* R7b item 2, for what was published: the history entry of the removal is *)
(* no older than any state whose writer was told it is stored, as long as  *)
(* no write has failed and no late save of a converted order is what the   *)
(* removal reads back.                                                     *)
(***************************************************************************)
EntryKeepsStored ==
    entry # Absent /\ failed_upto = 0 /\ ~Late => \A w \in Writers : Ok(w) => entry >= state[w]

(***************************************************************************)
(* An update that was told Ok is in the row of the history database: the   *)
(* flag is "kept until written, even when a newer state that does not ask  *)
(* for it supersedes this one".                                            *)
(***************************************************************************)
UpdateReachesHistory ==
    \A w \in Writers : Ok(w) /\ kind[w] = "update" /\ ~removed => row >= state[w]

(***************************************************************************)
(* Every task that was started ends: the order's lock and the I/O lock are *)
(* never waited for in a circle, and a removal always reaches its end.     *)
(***************************************************************************)
TasksEnd ==
    /\ \A w \in Writers : pc[w] # "idle" ~> pc[w] = "idle"
    /\ removed ~> pc[Remover] = "gone"

(***************************************************************************)
(* Why the gate keeps the order: the inductive invariant.                  *)
(***************************************************************************)
Writing(t) == pc[t] \in {"write", "write_row"}
Waiting(w) == pc[w] = "published" \/ Writing(w)
Unwritten == pending.ticket # 0

(* Who holds what, and what a removal implies *)
LockInv ==
    /\ \A t \in Tasks :
          io = t <=> pc[t] \in {"write", "write_row", "delete", "save_entry"}
    /\ \A w \in Writers :
          /\ pc[w] \notin {"dropped", "taken", "delete", "save_entry", "gone"}
          /\ pc[w] = "changed" => lock = w /\ state[w] = order.v /\ order.v = changes
          /\ ok[w] => pc[w] = "idle"
    /\ pc[Remover] \in {"idle", "dropped", "taken", "write", "write_row",
                        "delete", "save_entry", "gone"}
    /\ removed <=> pc[Remover] # "idle"
    /\ pc[Remover] = "gone" => \A t \in Tasks : ~Writing(t)

(* No state is newer than the last change. *)
NewestInv ==
    /\ order.v <= changes /\ active <= changes /\ row <= changes
    /\ pending.v <= changes
    /\ \A t \in Tasks : state[t] <= changes /\ before[t].v <= changes

(* The tickets: the waiting state is the newest published one, nothing else is unaccounted for. *)
TicketInv ==
    /\ written_upto <= last_ticket /\ failed_upto <= last_ticket
    /\ Unwritten => /\ pending.ticket = last_ticket
                    /\ written_upto < last_ticket
                    /\ failed_upto < last_ticket
                    /\ pending.v # Absent
                    /\ active <= pending.v /\ row <= pending.v
    /\ ~Unwritten => /\ pending = NoPending
                     /\ last_ticket \in {written_upto, failed_upto}
    /\ Unwritten /\ ~removed =>
          \E w \in Writers : Waiting(w) /\ ticket[w] = last_ticket

(* The write under way carries a state no older than the stored one. *)
WriteInv ==
    \A t \in Tasks : Writing(t) =>
        /\ Unwritten
        /\ writing[t].ticket <= last_ticket
        /\ writing[t].v # Absent /\ writing[t].v <= pending.v
        /\ active <= writing[t].v /\ row <= writing[t].v
        /\ pc[t] = "write_row" => active = writing[t].v \/ Late
        /\ writing[t].ticket > written_upto
        /\ t \in Writers => ticket[t] <= writing[t].ticket

(* A caller that waits for its answer, or was told Ok *)
Told(w) == Waiting(w) \/ Ok(w)

(* Tickets and states are in the same order, for the callers that wait and those that were told Ok. *)
CallerInv ==
    \A w \in Writers :
        /\ Told(w) => last_ticket > 0 /\ (Unwritten => state[w] <= pending.v)
        /\ Waiting(w) =>
              /\ ticket[w] > 0 /\ ticket[w] <= last_ticket
              /\ \A t \in Tasks : Writing(t) /\ ticket[w] <= writing[t].ticket
                                      => state[w] <= writing[t].v
              /\ ticket[w] <= written_upto => removed \/ state[w] <= active \/ Emptied \/ Late
        /\ Ok(w) => \A t \in Tasks : Writing(t) => state[w] <= writing[t].v
        /\ Ok(w) /\ ~removed => written_upto > 0 /\ (state[w] <= active \/ Emptied \/ Late)

GateInv == LockInv /\ NewestInv /\ TicketInv /\ WriteInv /\ CallerInv
=============================================================================
