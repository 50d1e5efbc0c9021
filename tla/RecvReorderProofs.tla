------------------------- MODULE RecvReorderProofs -------------------------
(***************************************************************************)
(* Proof that a pending frame is never without a timer, for every sequence *)
(* space, window and number of inputs and with every event.                *)
(*                                                                         *)
(* PendingGuarded is not inductive.  recv_indicatepkt_reorder arms the     *)
(* timer only when bReorderWaiting is clear, so the flag must itself be    *)
(* guarded (WaitingGuarded); and the timer is cancelled after the lock was *)
(* released, so nothing may become pending in between (CancelsNothing).    *)
(***************************************************************************)
EXTENDS RecvReorder, TLAPS

Guarded == timer \/ handler

FlagTypes ==
    /\ timer \in BOOLEAN /\ handler \in BOOLEAN /\ bReorderWaiting \in BOOLEAN

\* The flag that keeps the receive path from arming the timer is set only
\* while the timer is armed or its handler is about to clear the flag.
WaitingGuarded == sta = "used" /\ bReorderWaiting => Guarded

\* Between the release of the lock and the cancellation there is no frame to
\* guard, and the receive path, which alone adds frames, is busy cancelling.
CancelsNothing == rpc = "cancel" => pending = <<>> /\ ~bReorderWaiting

GuardInv == FlagTypes /\ WaitingGuarded /\ CancelsNothing /\ PendingGuarded

guards == <<timer, handler, bReorderWaiting, sta, rpc, pending>>

\* A step that touches none of what GuardInv speaks of preserves it.
LEMMA GuardFrame ==
    ASSUME GuardInv, UNCHANGED guards PROVE GuardInv'
BY DEF GuardInv, FlagTypes, WaitingGuarded, CancelsNothing, PendingGuarded,
       Guarded, guards

\* recv_indicatepkt_reorder and the cancellation of the timer after it.
LEMMA ReceiveStep ==
    ASSUME GuardInv, Receive PROVE GuardInv'
<1> USE DEF GuardInv, FlagTypes, WaitingGuarded, CancelsNothing,
            PendingGuarded, Guarded
<1>1. CASE RxCheckEnable
    BY <1>1 DEF RxCheckEnable, ctrl, tmr
<1>2. CASE RxDirect
    BY <1>2 DEF RxDirect, tmr
<1>3. CASE RxDirectDone
    BY <1>3 DEF RxDirectDone, tmr
<1>4. CASE RxReorder
  <2>1. UNCHANGED <<handler, sta>>
      BY <1>4 DEF RxReorder
  <2>2. \/ UNCHANGED <<bReorderWaiting, pending, timer>> /\ rpc' = "idle"
        \/ /\ bReorderWaiting' = (pending' # <<>>)
           /\ timer' = (timer \/ (pending' # <<>> /\ ~bReorderWaiting))
           /\ rpc' = IF pending' # <<>> THEN "idle" ELSE "cancel"
      BY <1>4 DEF RxReorder
  <2>3. CASE UNCHANGED <<bReorderWaiting, pending, timer>> /\ rpc' = "idle"
      BY <2>1, <2>3
  <2>4. CASE /\ pending' = <<>>
             /\ bReorderWaiting' = FALSE /\ timer' = timer /\ rpc' = "cancel"
      BY <2>1, <2>4
  <2>5. CASE /\ pending' # <<>>
             /\ bReorderWaiting' = TRUE /\ timer' = (timer \/ ~bReorderWaiting)
             /\ rpc' = "idle"
    <3>1. sta' = "used" => timer' \/ handler'
        BY <2>1, <2>5
    <3> QED BY <2>1, <2>5, <3>1
  <2> QED BY <2>2, <2>3, <2>4, <2>5
<1>5. CASE RxCancelTimer
    BY <1>5 DEF RxCancelTimer, ctrl
<1> QED BY <1>1, <1>2, <1>3, <1>4, <1>5 DEF Receive

\* The timer: what is still pending when the handler ends has it armed again.
LEMMA TimerStep ==
    ASSUME GuardInv, TimerFires \/ timeout_handler PROVE GuardInv'
<1> USE DEF GuardInv, FlagTypes, WaitingGuarded, CancelsNothing,
            PendingGuarded, Guarded
<1>1. CASE TimerFires
    BY <1>1 DEF TimerFires, ctrl, recv
<1>2. CASE timeout_handler
  <2>1. /\ handler' = FALSE /\ bReorderWaiting' = FALSE
        /\ UNCHANGED <<sta, rpc>>
      BY <1>2 DEF timeout_handler, recv
  <2>2. CASE pending = <<>>
      BY <1>2, <2>1, <2>2 DEF timeout_handler
  <2>3. CASE pending # <<>>
    <3>1. timer' = (timer \/ pending' # <<>>)
        BY <1>2, <2>3 DEF timeout_handler
    <3>2. rpc # "cancel"
        BY <2>3
    <3> QED BY <2>1, <3>1, <3>2
  <2> QED BY <2>2, <2>3
<1> QED BY <1>1, <1>2

\* The command thread: sessions come and go without touching the timer, and a
\* station is cancelled, emptied and reset before it is used again.
LEMMA CommandStep ==
    ASSUME GuardInv, Command PROVE GuardInv'
<1> USE DEF GuardInv, FlagTypes, WaitingGuarded, CancelsNothing,
            PendingGuarded, Guarded
<1>1. ASSUME NEW accept \in BOOLEAN, NEW acked \in BOOLEAN,
             issue_addba_rsp(accept, acked)
      PROVE  GuardInv'
    BY <1>1, GuardFrame DEF issue_addba_rsp, guards, ctrl, tmr, recv
<1>2. CASE add_ba_rsp_hdl
    BY <1>2, GuardFrame DEF add_ba_rsp_hdl, guards, tmr, recv
<1>3. ASSUME NEW heard \in BOOLEAN, send_delba_sta_tid(heard) PROVE GuardInv'
    BY <1>3, GuardFrame DEF send_delba_sta_tid, guards, tmr, recv
<1>4. CASE rtw_joinbss_update_stainfo
    BY <1>4, GuardFrame DEF rtw_joinbss_update_stainfo, guards, tmr, recv
<1>5. CASE FreeCancel
    BY <1>5 DEF FreeCancel, recv
<1>6. CASE FreePending
    BY <1>6 DEF FreePending, tmr, recv
<1>7. CASE rtw_alloc_stainfo
    BY <1>7 DEF rtw_alloc_stainfo
<1> QED BY <1>1, <1>2, <1>3, <1>4, <1>5, <1>6, <1>7 DEF Command

\* Every step of every context preserves GuardInv.
LEMMA GuardStep == GuardInv /\ [Next]_vars => GuardInv'
<1> SUFFICES ASSUME GuardInv, [Next]_vars PROVE GuardInv'
    OBVIOUS
<1>1. CASE PeerAdvances
    BY <1>1, GuardFrame DEF PeerAdvances, guards, ctrl, tmr, recv
<1>2. ASSUME NEW n \in una .. una + W - 1, RxFrame(n) PROVE GuardInv'
    BY <1>2 DEF RxFrame, ctrl, tmr, GuardInv, FlagTypes, WaitingGuarded,
                CancelsNothing, PendingGuarded, Guarded
<1>3. CASE rtw_process_bar_frame
    BY <1>3, GuardFrame DEF rtw_process_bar_frame, guards, tmr, recv
<1>4. ASSUME NEW heard \in BOOLEAN, OnDelba(heard) PROVE GuardInv'
    BY <1>4, GuardFrame DEF OnDelba, guards, tmr, recv
<1>5. CASE Receive
    BY <1>5, ReceiveStep
<1>6. CASE TimerFires \/ timeout_handler
    BY <1>6, TimerStep
<1>7. CASE Command
    BY <1>7, CommandStep
<1>8. CASE UNCHANGED vars
    BY <1>8, GuardFrame DEF vars, guards, ctrl, tmr, recv
<1> QED BY <1>1, <1>2, <1>3, <1>4, <1>5, <1>6, <1>7, <1>8 DEF Next

\* A frame is never stuck in the reorder buffer: whoever handled the last
\* frame and however the lock-free cancellation fell, with BAR, DELBA, rejoin
\* and the freeing and reuse of the station at any moment, pending frames
\* have a timer or a handler that will pass them on.
THEOREM NeverStuck == Spec => []PendingGuarded
<1>1. Init => GuardInv
    BY DEF Init, GuardInv, FlagTypes, WaitingGuarded, CancelsNothing,
           PendingGuarded, Guarded
<1>2. GuardInv => PendingGuarded
    BY DEF GuardInv
<1> QED BY <1>1, <1>2, GuardStep, PTL DEF Spec
=============================================================================
