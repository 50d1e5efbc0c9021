-------------------------- MODULE CmdThreadProofs --------------------------
(***************************************************************************)
(* Proofs about the command thread and the power handshake, for any set of *)
(* clients and any bounds.                                                 *)
(*                                                                         *)
(* SctxLive and WaiterSafe are not inductive: whether the thread may write *)
(* through a command's pointer depends on where both the client and the    *)
(* thread are.  SctxInv says it: a pointer is set only while its client is *)
(* waiting on a context that is not yet completed, except between the two  *)
(* statements of post_process, and there the mutex keeps the client out.   *)
(* FirmwareAwake rests on WakeInv, what rpwm, cpwm, an unhandled CPWM and  *)
(* the firmware's state can be at the same time.  Much of it holds only    *)
(* while stale is FALSE; entering LPS at the low level with no answer      *)
(* outstanding establishes that part again.                                *)
(***************************************************************************)
EXTENDS CmdThread, SequenceTheorems, TLAPS

\* The program points at which the thread has a command in hand.
Hand == {"filter", "alive", "requeue", "execute", "post", "null", "free"}

HandInv ==
    /\ pcmd # 0 <=> tpc \in Hand
    /\ pcmd <= n
    /\ \A i \in 1 .. Len(queue) : queue[i] <= n

ClientInv ==
    \A k \in Clients : cpc[k] # "idle" =>
        /\ cur[k] \in 1 .. n
        /\ owner[cur[k]] = k
        /\ cpc[k] \in {"wait", "check"} => waits[k]
        /\ waits[k] /\ status[k] = "submitted" => sctx[cur[k]]

SctxInv ==
    /\ mutex <=> tpc = "null"
    /\ \A c \in Cmds : sctx[c] =>
        /\ c <= n /\ st[c] # "freed"
        /\ owner[c] \in Clients
        /\ cpc[owner[c]] # "idle" /\ cur[owner[c]] = c /\ waits[owner[c]]
        /\ status[owner[c]] # "submitted" <=> tpc = "null" /\ pcmd = c
    /\ tpc = "free" => ~sctx[pcmd]

\* The inductive invariant behind SctxLive and WaiterSafe.
IInv == TypeOK /\ HandInv /\ ClientInv /\ SctxInv

\* The inductive invariant behind FirmwareAwake: what holds always ...
LevelInv ==
    /\ bFwCurrentInPSMode => /\ hw_init_completed /\ ~bDriverStopped
                             /\ upc = "up" /\ rpwm # "zero"
    /\ ~bFwCurrentInPSMode => rpwm # "low"
    /\ upc = "up" <=> ~bDriverStopped
    /\ rpwm = "zero" => /\ cpwm = "high" /\ fw = "awake"
                        /\ ~cpwm_event /\ ~ackreq /\ ~stale
    /\ xbusy => "xmit" \in alives
    /\ tpc = "execute" /\ io[pcmd] => "cmd" \in alives

\* ... and while LPS was not entered with an answer outstanding.
AnswerInv ==
    ~stale =>
        /\ rpwm = "low" => cpwm = "low"
        /\ cpwm_event => rpwm = "high" /\ ~ackreq
        /\ cpwm = "high" => ~cpwm_event /\ ~ackreq
        /\ rpwm = "high" /\ ~ackreq /\ hw_init_completed => fw = "awake"
        /\ bFwCurrentInPSMode /\ InUse => rpwm = "high" /\ ~ackreq

WakeInv == LevelInv /\ AnswerInv

-----------------------------------------------------------------------------
(* Types                                                                   *)

\* What rtw_set_rpwm leaves behind are levels.
LEMMA RpwmType ==
    ASSUME PwrTypeOK, NEW pslv \in {"low", "high"}, rtw_set_rpwm(pslv)
    PROVE  /\ rpwm' \in {"zero", "low", "high"} /\ cpwm' \in {"low", "high"}
           /\ ackreq' \in BOOLEAN
BY DEF PwrTypeOK, rtw_set_rpwm, level

\* So do the register and unregister functions of the two threads.
LEMMA AliveType ==
    ASSUME PwrTypeOK, NEW t \in Tasks,
           register_task_alive(t) \/ unregister_task_alive(t)
    PROVE  /\ rpwm' \in {"zero", "low", "high"} /\ cpwm' \in {"low", "high"}
           /\ ackreq' \in BOOLEAN
           /\ alives' \subseteq Tasks
<1>1. alives' \subseteq Tasks
    BY DEF PwrTypeOK, register_task_alive, unregister_task_alive
<1>2. UNCHANGED level \/ rtw_set_rpwm("high") \/ rtw_set_rpwm("low")
    BY DEF register_task_alive, unregister_task_alive
<1> QED BY <1>1, <1>2, RpwmType DEF PwrTypeOK, level

\* The steps of the handshake keep the types of its variables.
LEMMA PwrTypeStep == ASSUME PwrTypeOK, PwrNext PROVE PwrTypeOK'
<1> USE PwrCtrlAssumption DEF PwrCtrlAssumption
<1>1. CASE EnterLps
    <2>1. stale' \in BOOLEAN
        BY <1>1, Zenon DEF EnterLps, PwrTypeOK
    <2>2. /\ rtw_set_rpwm("low") \/ rtw_set_rpwm("high")
          /\ bFwCurrentInPSMode' = TRUE
          /\ UNCHANGED <<alives, cpwm_event, flags, semas, xmit, fw, lost>>
        BY <1>1 DEF EnterLps
    <2> QED BY <2>1, <2>2, RpwmType DEF PwrTypeOK, flags, semas, xmit
<1>2. CASE LeaveLps
    BY <1>2, RpwmType DEF LeaveLps, PwrTypeOK, flags, semas, xmit
<1>3. CASE cpwm_int_hdl
    <2>1. cmd_queue_sema' \in Nat
        BY <1>3 DEF cpwm_int_hdl, UpIfAlive, PwrTypeOK
    <2>2. xmit_sema' \in 0 .. MaxSema
        BY <1>3 DEF cpwm_int_hdl, UpIfAlive, PwrTypeOK
    <2> QED BY <1>3, <2>1, <2>2 DEF cpwm_int_hdl, PwrTypeOK, flags, xmit
<1>4. CASE XmitEnqueue
    BY <1>4 DEF XmitEnqueue, PwrTypeOK, level, flags
<1>5. CASE XmitTake
    <2>1. /\ rpwm' \in {"zero", "low", "high"} /\ cpwm' \in {"low", "high"}
          /\ ackreq' \in BOOLEAN /\ alives' \subseteq Tasks
          /\ xbusy' \in BOOLEAN
        BY <1>5, AliveType DEF XmitTake, Tasks, Usable, PwrTypeOK, level
    <2> QED BY <1>5, <2>1 DEF XmitTake, PwrTypeOK, flags
<1>6. CASE XmitDone
    BY <1>6, AliveType DEF XmitDone, Tasks, PwrTypeOK, flags, semas
<1>7. CASE FwSleep
    BY <1>7 DEF FwSleep, PwrTypeOK, level, flags, semas, xmit
<1>8. ASSUME NEW heard \in BOOLEAN, FwWake(heard) PROVE PwrTypeOK'
    <2>1. cpwm_event' \in BOOLEAN
        BY <1>8, Zenon DEF FwWake, PwrTypeOK
    <2>2. lost' \in 0 .. MaxLost
        BY <1>8 DEF FwWake, PwrTypeOK
    <2>3. /\ UNCHANGED <<bFwCurrentInPSMode, rpwm, cpwm, alives, flags, semas,
                         xmit, stale>>
          /\ fw' = "awake" /\ ackreq' = FALSE
        BY <1>8 DEF FwWake
    <2> QED BY <2>1, <2>2, <2>3 DEF PwrTypeOK, flags, semas, xmit
<1> QED BY <1>1, <1>2, <1>3, <1>4, <1>5, <1>6, <1>7, <1>8 DEF PwrNext

\* Switching the chip off loses an answer at most.
LEMMA DeinitType ==
    ASSUME PwrTypeOK, rtw_hal_deinit
    PROVE  /\ hw_init_completed' \in BOOLEAN /\ ackreq' \in BOOLEAN
           /\ lost' \in 0 .. MaxLost
<1> USE PwrCtrlAssumption DEF PwrCtrlAssumption
<1>1. hw_init_completed' = FALSE /\ ackreq' = FALSE
    BY DEF rtw_hal_deinit
<1>2. lost' = lost \/ (lost < MaxLost /\ lost' = lost + 1)
    BY DEF rtw_hal_deinit
<1>3. lost' \in 0 .. MaxLost
    BY <1>2 DEF PwrTypeOK
<1> QED BY <1>1, <1>3

\* A step that leaves the handshake alone keeps its types.
LEMMA PwrSame == ASSUME PwrTypeOK, UNCHANGED pwrvars PROVE PwrTypeOK'
BY DEF PwrTypeOK, pwrvars, level, flags, semas, xmit

\* Every step keeps the types, given that the thread and the clients have a
\* command in hand where they use one.
LEMMA TypeStep == ASSUME TypeOK, HandInv, ClientInv, [Next]_vars PROVE TypeOK'
<1> USE CmdThreadAssumption, PwrCtrlAssumption
    DEF CmdThreadAssumption, PwrCtrlAssumption, Cmds
<1>0. PwrTypeOK
    BY DEF TypeOK
<1>1. CASE PwrNext /\ UNCHANGED <<cmdobj, queue, thread, client, intf, hist>>
    BY <1>0, <1>1, PwrTypeStep DEF TypeOK, cmdobj, thread, client, intf, hist, rest
<1>2. ASSUME NEW k \in Clients, NEW needsIo \in BOOLEAN, NEW wait \in BOOLEAN,
             Submit(k, needsIo, wait)
      PROVE  TypeOK'
    <2>1. PwrTypeOK'
        BY <1>0, <1>2, PwrSame DEF Submit
    <2>2. n' \in Cmds
        BY <1>2 DEF Submit, TypeOK
    <2>5. io' \in [Cmds -> BOOLEAN] /\ owner' \in [Cmds -> Clients \cup {0}]
        BY <1>2, <2>2 DEF Submit, TypeOK
    <2>3. CASE rtw_cmd_filter(needsIo)
        <3>1. /\ st' = [st EXCEPT ![n'] = "made"] /\ sctx' = [sctx EXCEPT ![n'] = wait]
              /\ cpc' = [cpc EXCEPT ![k] = "enqueue"] /\ cur' = [cur EXCEPT ![k] = n']
              /\ waits' = [waits EXCEPT ![k] = wait]
              /\ status' = [status EXCEPT ![k] = "submitted"]
            BY <1>2, <2>3 DEF Submit
        <3>2. waits' \in [Clients -> BOOLEAN] /\ sctx' \in [Cmds -> BOOLEAN]
            BY <2>2, <3>1, Zenon DEF TypeOK
        <3>3. st' \in [Cmds -> {"none", "made", "queued", "taken", "freed"}]
            BY <2>2, <3>1 DEF TypeOK
        <3>4. cpc' \in [Clients -> {"idle", "enqueue", "up", "wait", "check"}]
            BY <3>1 DEF TypeOK
        <3>5. cur' \in [Clients -> 0 .. MaxCmds]
            BY <2>2, <3>1 DEF TypeOK
        <3>6. status' \in [Clients -> {"none", "submitted", "done"}]
            BY <3>1 DEF TypeOK
        <3> QED BY <1>2, <2>1, <2>2, <2>5, <3>2, <3>3, <3>4, <3>5, <3>6
                DEF Submit, TypeOK, thread, intf, hist
    <2>4. CASE ~rtw_cmd_filter(needsIo)
        <3>1. st' = [st EXCEPT ![n'] = "freed"] /\ UNCHANGED <<sctx, client>>
            BY <1>2, <2>4 DEF Submit
        <3> QED BY <1>2, <2>1, <2>2, <2>5, <3>1
                DEF Submit, TypeOK, thread, client, intf, hist
    <2> QED BY <2>3, <2>4
<1>3. ASSUME NEW k \in Clients, ClientStep(k) PROVE TypeOK'
    <2>1. CASE _rtw_enqueue_cmd(k)
        <3>1. PwrTypeOK' 
            BY <1>0, <2>1, PwrSame DEF _rtw_enqueue_cmd
        <3>2. cur[k] \in Cmds
            BY <2>1 DEF _rtw_enqueue_cmd, ClientInv, TypeOK
        <3> QED BY <2>1, <3>1, <3>2 DEF _rtw_enqueue_cmd, TypeOK, thread, intf
    <2>2. CASE UpSema(k)
        <3>1. PwrTypeOK'
            BY <1>0, <2>2 DEF UpSema, PwrTypeOK, level, flags, xmit
        <3> QED BY <2>2, <3>1 DEF UpSema, TypeOK, cmdobj, thread, intf, hist
    <2>3. CASE rtw_sctx_wait(k)
        BY <1>0, <2>3, PwrSame DEF rtw_sctx_wait, TypeOK, cmdobj, thread, intf, hist
    <2>4. CASE ClearSctx(k)
        BY <1>0, <2>4, PwrSame DEF ClearSctx, TypeOK, thread, intf, hist
    <2> QED BY <1>3, <2>1, <2>2, <2>3, <2>4 DEF ClientStep
<1>4. CASE DownSema
    <2>1. PwrTypeOK'
        BY <1>0, <1>4 DEF DownSema, PwrTypeOK, level, flags, xmit
    <2> QED BY <1>4, <2>1 DEF DownSema, TypeOK, cmdobj, rest, client, intf, hist
<1>5. CASE Interrupted \/ Peek \/ Filter \/ Execute
    BY <1>0, <1>5, PwrSame
    DEF Interrupted, Peek, Filter, Execute, TypeOK, cmdobj, rest, client, intf, hist
<1>6. CASE Dequeue \/ Drain
    <2>1. queue # <<>> => Head(queue) \in Cmds /\ Tail(queue) \in Seq(Cmds)
        BY DEF TypeOK
    <2>2. PwrTypeOK'
        BY <1>0, <1>6, PwrSame DEF Dequeue, Drain
    <2>3. /\ queue' \in Seq(Cmds) /\ pcmd' \in 0 .. MaxCmds
          /\ st' \in [Cmds -> {"none", "made", "queued", "taken", "freed"}]
        <3>1. CASE UNCHANGED <<pcmd, queue, st>>
            BY <3>1 DEF TypeOK
        <3>2. CASE /\ pcmd' = Head(queue) /\ queue' = Tail(queue) /\ queue # <<>>
                   /\ st' = [st EXCEPT ![Head(queue)] = "taken"]
            BY <2>1, <3>2 DEF TypeOK
        <3> QED BY <1>6, <3>1, <3>2 DEF Dequeue, Drain
    <2> QED BY <1>6, <2>2, <2>3 DEF Dequeue, Drain, TypeOK, rest, client, intf, hist
<1>7. CASE WentEmpty \/ Leave
    <2>1. PwrTypeOK'
        BY <1>0, <1>7, AliveType
        DEF WentEmpty, Leave, Tasks, PwrTypeOK, flags, semas, xmit
    <2> QED BY <1>7, <2>1
            DEF WentEmpty, Leave, TypeOK, cmdobj, rest, client, intf, hist
<1>8. CASE Alive
    <2>1. register_task_alive("cmd") \/ unregister_task_alive("cmd")
        BY <1>8 DEF Alive
    <2>2. PwrTypeOK'
        BY <1>0, <1>8, <2>1, AliveType
        DEF Alive, Tasks, PwrTypeOK, flags, semas, xmit
    <2> QED BY <1>8, <2>2 DEF Alive, TypeOK, cmdobj, rest, client, intf, hist
<1>9. CASE Requeue
    <2>1. pcmd \in Cmds
        BY <1>9 DEF Requeue, HandInv, Hand, TypeOK
    <2>2. <<pcmd>> \o queue \in Seq(Cmds)
        BY <2>1 DEF TypeOK
    <2> QED BY <1>0, <1>9, <2>1, <2>2, PwrSame
            DEF Requeue, TypeOK, rest, client, intf, hist
<1>10. CASE Post
    <2>1. status' \in [Clients -> {"none", "submitted", "done"}]
        BY <1>10 DEF Post, TypeOK
    <2> QED BY <1>0, <1>10, <2>1, PwrSame DEF Post, TypeOK, cmdobj, intf, hist
<1>11. CASE NullSctx
    BY <1>0, <1>11, PwrSame DEF NullSctx, TypeOK, rest, client, intf, hist
<1>12. CASE rtw_free_cmd_obj
    <2>1. pcmd \in Cmds
        BY <1>12 DEF rtw_free_cmd_obj, HandInv, Hand, TypeOK
    <2> QED BY <1>0, <1>12, <2>1, PwrSame
            DEF rtw_free_cmd_obj, TypeOK, rest, client, intf
<1>13. CASE ClearRunning
    BY <1>0, <1>13, PwrSame DEF ClearRunning, TypeOK, cmdobj, rest, client, intf, hist
<1>14. CASE Interface
    <2>1. CASE StopDriver
        BY <1>0, <2>1 DEF StopDriver, power, kept, PwrTypeOK, TypeOK, level, xmit, cmdobj,
                          thread, client, hist
    <2>2. CASE rtw_stop_cmd_thread
        BY <1>0, <2>2 DEF rtw_stop_cmd_thread, power, kept, PwrTypeOK, TypeOK, level, flags,
                          xmit, cmdobj, thread, client, hist
    <2>3. CASE ThreadStopped
        <3>1. PwrTypeOK'
            BY <1>0, <2>3, DeinitType DEF ThreadStopped, kept, PwrTypeOK, xmit
        <3> QED BY <2>3, <3>1 DEF ThreadStopped, TypeOK, cmdobj, client, hist
    <2>4. CASE rtw_start_drv_threads
        <3>1. PwrTypeOK'
            BY <1>0, <2>4
            DEF rtw_start_drv_threads, rtw_hal_init, kept, PwrTypeOK, xmit
        <3> QED BY <2>4, <3>1 DEF rtw_start_drv_threads, TypeOK, cmdobj, client, hist
    <2>5. CASE IpsDown
        <3>1. PwrTypeOK'
            BY <1>0, <2>5, DeinitType DEF IpsDown, kept, PwrTypeOK, xmit
        <3> QED BY <2>5, <3>1 DEF IpsDown, TypeOK, cmdobj, thread, client, intf, hist
    <2>6. CASE IpsUp
        <3>1. PwrTypeOK'
            BY <1>0, <2>6 DEF IpsUp, rtw_hal_init, kept, PwrTypeOK, xmit
        <3> QED BY <2>6, <3>1 DEF IpsUp, TypeOK, cmdobj, thread, client, intf, hist
    <2> QED BY <1>14, <2>1, <2>2, <2>3, <2>4, <2>5, <2>6 DEF Interface
<1>15. CASE UNCHANGED vars
    BY <1>0, <1>15, PwrSame DEF vars, TypeOK, cmdobj, thread, client, intf, hist, rest
<1> QED BY <1>1, <1>2, <1>3, <1>4, <1>5, <1>6, <1>7, <1>8, <1>9, <1>10, <1>11,
           <1>12, <1>13, <1>14, <1>15 DEF Next, Thread

\* The command in hand, and every queued one, has been allocated.
LEMMA HandStep == ASSUME TypeOK, HandInv, ClientInv, [Next]_vars PROVE HandInv'
<1> USE CmdThreadAssumption DEF CmdThreadAssumption, Cmds
<1>0. /\ n \in Nat /\ pcmd \in Nat /\ queue \in Seq(Nat)
      /\ \A k \in Clients : cur[k] \in Nat
    BY DEF TypeOK
<1>1. CASE UNCHANGED <<pcmd, tpc, n, queue>>
    BY <1>1 DEF HandInv
<1>2. ASSUME NEW k \in Clients, NEW needsIo \in BOOLEAN, NEW wait \in BOOLEAN,
             Submit(k, needsIo, wait)
      PROVE  HandInv'
    <2>1. UNCHANGED <<pcmd, tpc, queue>> /\ n' = n + 1
        BY <1>2 DEF Submit, thread
    <2>2. \A i \in 1 .. Len(queue) : queue[i] \in Nat
        BY <1>0
    <2> QED BY <1>0, <2>1, <2>2 DEF HandInv
<1>3. ASSUME NEW k \in Clients, _rtw_enqueue_cmd(k) PROVE HandInv'
    <2>1. UNCHANGED <<pcmd, tpc, n>> /\ queue' = Append(queue, cur[k])
        BY <1>3 DEF _rtw_enqueue_cmd, thread
    <2>2. cur[k] <= n
        BY <1>3 DEF _rtw_enqueue_cmd, ClientInv
    <2> QED BY <1>0, <2>1, <2>2 DEF HandInv
<1>4. CASE Dequeue \/ Drain
    <2>1. CASE UNCHANGED <<pcmd, queue>>
        BY <1>4, <2>1 DEF Dequeue, Drain, HandInv, Hand, TypeOK
    <2>2. CASE pcmd' = Head(queue) /\ queue' = Tail(queue) /\ queue # <<>>
        <3>1. tpc' \in Hand /\ n' = n
            BY <1>4, <2>2 DEF Dequeue, Drain, Hand, HandInv
        <3>2. Head(queue) \in Cmds /\ Head(queue) = queue[1] /\ 1 <= Len(queue)
            BY <2>2 DEF TypeOK
        <3>3. \A i \in 1 .. Len(Tail(queue)) :
                Tail(queue)[i] = queue[i + 1] /\ i + 1 \in 1 .. Len(queue)
            BY <1>0, <2>2
        <3> QED BY <1>0, <2>2, <3>1, <3>2, <3>3 DEF HandInv
    <2> QED BY <1>4, <2>1, <2>2 DEF Dequeue, Drain
<1>5. CASE Requeue
    <2>1. pcmd' = 0 /\ tpc' = "sema" /\ n' = n /\ queue' = <<pcmd>> \o queue
        BY <1>5 DEF Requeue
    <2>2. \A i \in 1 .. Len(queue') : queue'[i] = IF i = 1 THEN pcmd ELSE queue[i - 1]
        BY <1>0, <2>1
    <2>3. Len(queue') = Len(queue) + 1
        BY <1>0, <2>1
    <2> QED BY <1>0, <2>1, <2>2, <2>3 DEF HandInv, Hand
<1>6. CASE rtw_free_cmd_obj
    BY <1>0, <1>6 DEF rtw_free_cmd_obj, HandInv, Hand
<1>7. CASE DownSema \/ Interrupted \/ Peek \/ WentEmpty \/ Leave \/ ClearRunning
           \/ ThreadStopped \/ rtw_start_drv_threads
    BY <1>7 DEF DownSema, Interrupted, Peek, WentEmpty, Leave, ClearRunning,
                ThreadStopped, rtw_start_drv_threads, HandInv, Hand, cmdobj, thread
<1>8. CASE Filter \/ Alive \/ Execute \/ Post \/ NullSctx
    BY <1>8 DEF Filter, Alive, Execute, Post, NullSctx, HandInv, Hand, cmdobj
<1>9. ASSUME NEW k \in Clients, UpSema(k) \/ rtw_sctx_wait(k) \/ ClearSctx(k)
      PROVE  UNCHANGED <<pcmd, tpc, n, queue>>
    BY <1>9 DEF UpSema, rtw_sctx_wait, ClearSctx, cmdobj, thread
<1>10. StopDriver \/ rtw_stop_cmd_thread \/ IpsDown \/ IpsUp
        => UNCHANGED <<pcmd, tpc, n, queue>>
    BY DEF StopDriver, rtw_stop_cmd_thread, IpsDown, IpsUp, cmdobj, thread
<1>11. (PwrNext /\ UNCHANGED <<cmdobj, queue, thread, client, intf, hist>>)
            \/ UNCHANGED vars
        => UNCHANGED <<pcmd, tpc, n, queue>>
    BY DEF vars, cmdobj, thread
<1> QED BY <1>1, <1>2, <1>3, <1>4, <1>5, <1>6, <1>7, <1>8, <1>9, <1>10, <1>11
        DEF Next, Thread, ClientStep, Interface

-----------------------------------------------------------------------------
(* The contexts on the clients' stacks                                     *)

\* A step that only moves the thread, outside post_process, or only makes a
\* command queued or taken, disturbs neither side.
LEMMA ElsewhereStep ==
    ASSUME IInv, UNCHANGED <<sctx, owner, n, cpc, cur, waits, status, mutex>>,
           tpc # "null", tpc' \notin {"null", "free"},
           \A c \in Cmds : st[c] # "freed" => st'[c] # "freed"
    PROVE  ClientInv' /\ SctxInv'
<1>1. ClientInv'
    BY DEF IInv, ClientInv
<1>2. SctxInv'
    BY DEF IInv, SctxInv
<1> QED BY <1>1, <1>2

\* Nor does one that touches none of these variables at all.
LEMMA IdleStep ==
    ASSUME IInv, UNCHANGED <<cmdobj, thread, client>>
    PROVE  ClientInv' /\ SctxInv'
BY DEF IInv, ClientInv, SctxInv, cmdobj, thread, client

\* A new command: its number was not in use.
LEMMA SubmitStep ==
    ASSUME IInv, NEW k \in Clients, NEW needsIo \in BOOLEAN, NEW wait \in BOOLEAN,
           Submit(k, needsIo, wait)
    PROVE  ClientInv' /\ SctxInv'
<1> USE CmdThreadAssumption DEF CmdThreadAssumption, Cmds
<1>1. /\ n' = n + 1 /\ n' \in Cmds /\ n \in Nat /\ cpc[k] = "idle"
      /\ UNCHANGED <<tpc, pcmd, mutex>>
      /\ owner' = [owner EXCEPT ![n'] = k]
    BY DEF Submit, IInv, TypeOK, thread
<1>2. ~sctx[n'] /\ pcmd # n'
    BY <1>1 DEF IInv, SctxInv, HandInv, TypeOK
<1>3. \A c \in Cmds : sctx[c] => owner[c] # k
    BY <1>1 DEF IInv, SctxInv
<1>4. \A c \in Cmds : c # n' => owner'[c] = owner[c]
    BY <1>1 DEF IInv, TypeOK
<1>5. owner'[n'] = k
    BY <1>1 DEF IInv, TypeOK
<1>6. CASE rtw_cmd_filter(needsIo)
    <2>1. /\ st' = [st EXCEPT ![n'] = "made"] /\ sctx' = [sctx EXCEPT ![n'] = wait]
          /\ cpc' = [cpc EXCEPT ![k] = "enqueue"] /\ cur' = [cur EXCEPT ![k] = n']
          /\ waits' = [waits EXCEPT ![k] = wait]
          /\ status' = [status EXCEPT ![k] = "submitted"]
        BY <1>6 DEF Submit
    <2>2. /\ cpc'[k] = "enqueue" /\ cur'[k] = n' /\ waits'[k] = wait
          /\ status'[k] = "submitted"
        BY <2>1 DEF IInv, TypeOK
    <2>3. \A j \in Clients : j # k =>
            /\ cpc'[j] = cpc[j] /\ cur'[j] = cur[j] /\ waits'[j] = waits[j]
            /\ status'[j] = status[j]
        BY <2>1 DEF IInv, TypeOK
    <2>4. /\ sctx'[n'] = wait /\ st'[n'] = "made"
          /\ \A c \in Cmds : c # n' => sctx'[c] = sctx[c] /\ st'[c] = st[c]
        BY <1>1, <2>1 DEF IInv, TypeOK
    <2>5. ClientInv'
        <3> SUFFICES ASSUME NEW j \in Clients, cpc'[j] # "idle"
                     PROVE  /\ cur'[j] \in 1 .. n'
                            /\ owner'[cur'[j]] = j
                            /\ cpc'[j] \in {"wait", "check"} => waits'[j]
                            /\ waits'[j] /\ status'[j] = "submitted" => sctx'[cur'[j]]
            BY DEF ClientInv
        <3>1. CASE j = k
            BY <1>1, <1>5, <2>2, <2>4, <3>1
        <3>2. CASE j # k
            <4>1. cur[j] \in 1 .. n /\ cur[j] \in Cmds /\ cur[j] # n'
                BY <1>1, <2>3, <3>2 DEF IInv, ClientInv, TypeOK
            <4> QED BY <1>1, <1>4, <2>3, <2>4, <3>2, <4>1 DEF IInv, ClientInv
        <3> QED BY <3>1, <3>2
    <2>6. SctxInv'
        <3>1. ASSUME NEW c \in Cmds, sctx'[c]
              PROVE  /\ c <= n' /\ st'[c] # "freed" /\ owner'[c] \in Clients
                     /\ cpc'[owner'[c]] # "idle" /\ cur'[owner'[c]] = c
                     /\ waits'[owner'[c]]
                     /\ status'[owner'[c]] # "submitted" <=> tpc' = "null" /\ pcmd' = c
            <4>1. CASE c = n'
                BY <1>1, <1>2, <1>5, <2>2, <2>4, <3>1, <4>1
            <4>2. CASE c # n'
                <5>1. sctx[c] /\ owner'[c] = owner[c] /\ owner[c] # k
                    BY <1>3, <1>4, <2>4, <3>1, <4>2
                <5> QED BY <1>1, <2>3, <2>4, <4>2, <5>1 DEF IInv, SctxInv
            <4> QED BY <4>1, <4>2
        <3>2. tpc' = "free" => ~sctx'[pcmd']
            <4>1. tpc = "free" => pcmd \in Cmds
                BY DEF IInv, HandInv, Hand, TypeOK
            <4> QED BY <1>1, <1>2, <2>4, <4>1 DEF IInv, SctxInv
        <3> QED BY <1>1, <3>1, <3>2 DEF IInv, SctxInv
    <2> QED BY <2>5, <2>6
<1>7. CASE ~rtw_cmd_filter(needsIo)
    <2>1. st' = [st EXCEPT ![n'] = "freed"] /\ UNCHANGED <<sctx, client>>
        BY <1>7 DEF Submit
    <2>2. \A c \in Cmds : c # n' => st'[c] = st[c]
        BY <1>1, <2>1 DEF IInv, TypeOK
    <2>3. ClientInv'
        BY <1>1, <1>4, <2>1 DEF IInv, ClientInv, TypeOK, client
    <2>4. SctxInv'
        BY <1>1, <1>2, <1>4, <2>1, <2>2 DEF IInv, SctxInv, client
    <2> QED BY <2>3, <2>4
<1> QED BY <1>6, <1>7

\* The rest of a client's call.
LEMMA ClientStepInv ==
    ASSUME IInv, NEW k \in Clients, ClientStep(k)
    PROVE  ClientInv' /\ SctxInv'
<1> USE CmdThreadAssumption DEF CmdThreadAssumption, Cmds
<1>1. CASE _rtw_enqueue_cmd(k)
    <2>1. /\ cpc[k] = "enqueue" /\ cpc' = [cpc EXCEPT ![k] = "up"]
          /\ st' = [st EXCEPT ![cur[k]] = "queued"]
          /\ UNCHANGED <<sctx, owner, n, tpc, pcmd, mutex, cur, waits, status>>
        BY <1>1 DEF _rtw_enqueue_cmd, thread
    <2>2. /\ cpc'[k] = "up"
          /\ \A j \in Clients : j # k => cpc'[j] = cpc[j]
          /\ \A c \in Cmds : st[c] # "freed" => st'[c] # "freed"
        BY <2>1 DEF IInv, TypeOK
    <2>3. ClientInv'
        BY <2>1, <2>2 DEF IInv, ClientInv
    <2>4. SctxInv'
        BY <2>1, <2>2 DEF IInv, SctxInv
    <2> QED BY <2>3, <2>4
<1>2. CASE UpSema(k)
    <2>1. /\ cpc[k] = "up" /\ cpc' = [cpc EXCEPT ![k] = IF waits[k] THEN "wait" ELSE "idle"]
          /\ UNCHANGED <<st, sctx, owner, n, tpc, pcmd, mutex, cur, waits, status>>
        BY <1>2 DEF UpSema, thread, cmdobj
    <2>2. /\ cpc'[k] = IF waits[k] THEN "wait" ELSE "idle"
          /\ \A j \in Clients : j # k => cpc'[j] = cpc[j]
        BY <2>1 DEF IInv, TypeOK
    <2>3. ClientInv'
        BY <2>1, <2>2 DEF IInv, ClientInv
    <2>4. SctxInv'
        BY <2>1, <2>2 DEF IInv, SctxInv
    <2> QED BY <2>3, <2>4
<1>3. CASE rtw_sctx_wait(k)
    <2>1. /\ cpc[k] = "wait" /\ cpc' = [cpc EXCEPT ![k] = "check"]
          /\ UNCHANGED <<st, sctx, owner, n, tpc, pcmd, mutex, cur, waits, status>>
        BY <1>3 DEF rtw_sctx_wait, thread, cmdobj
    <2>2. cpc'[k] = "check" /\ \A j \in Clients : j # k => cpc'[j] = cpc[j]
        BY <2>1 DEF IInv, TypeOK
    <2>3. ClientInv'
        BY <2>1, <2>2 DEF IInv, ClientInv
    <2>4. SctxInv'
        BY <2>1, <2>2 DEF IInv, SctxInv
    <2> QED BY <2>3, <2>4
<1>4. CASE ClearSctx(k)
    <2>1. /\ cpc[k] = "check" /\ cpc' = [cpc EXCEPT ![k] = "idle"]
          /\ ~mutex
          /\ sctx' = IF status[k] = "submitted"
                     THEN [sctx EXCEPT ![cur[k]] = FALSE] ELSE sctx
          /\ UNCHANGED <<st, owner, n, tpc, pcmd, mutex, cur, waits, status>>
        BY <1>4 DEF ClearSctx, thread
    <2>2. cpc'[k] = "idle" /\ \A j \in Clients : j # k => cpc'[j] = cpc[j]
        BY <2>1 DEF IInv, TypeOK
    <2>3. cur[k] \in Cmds /\ owner[cur[k]] = k
        BY <2>1 DEF IInv, ClientInv, TypeOK
    \* What the client owns and still has a pointer set is the command it clears.
    <2>4. \A c \in Cmds : sctx'[c] => sctx[c] /\ owner[c] # k
        BY <2>1, <2>3 DEF IInv, SctxInv, TypeOK
    <2>5. \A c \in Cmds : owner[c] # k => sctx'[c] = sctx[c]
        BY <2>1, <2>3 DEF IInv, TypeOK
    <2>6. ClientInv'
        <3> SUFFICES ASSUME NEW j \in Clients, cpc'[j] # "idle"
                     PROVE  /\ cur[j] \in 1 .. n /\ owner[cur[j]] = j
                            /\ cpc'[j] \in {"wait", "check"} => waits[j]
                            /\ waits[j] /\ status[j] = "submitted" => sctx'[cur[j]]
            BY <2>1 DEF ClientInv
        <3>1. j # k /\ cpc[j] # "idle" /\ cpc'[j] = cpc[j]
            BY <2>2
        <3>2. cur[j] \in Cmds /\ owner[cur[j]] # k
            BY <3>1 DEF IInv, ClientInv, TypeOK
        <3> QED BY <2>5, <3>1, <3>2 DEF IInv, ClientInv
    <2>7. SctxInv'
        <3>1. tpc = "free" => ~sctx'[pcmd]
            BY <2>4 DEF IInv, SctxInv, HandInv, Hand, TypeOK
        <3> QED BY <2>1, <2>2, <2>4, <3>1 DEF IInv, SctxInv
    <2> QED BY <2>6, <2>7
<1> QED BY <1>1, <1>2, <1>3, <1>4 DEF ClientStep

\* post_process: under the mutex the context is completed, then forgotten.
LEMMA PostStep == ASSUME IInv, Post PROVE ClientInv' /\ SctxInv'
<1> USE CmdThreadAssumption DEF CmdThreadAssumption, Cmds
<1>1. /\ tpc = "post" /\ tpc' = "null" /\ mutex' = TRUE
      /\ status' = IF sctx[pcmd] THEN [status EXCEPT ![owner[pcmd]] = "done"]
                   ELSE status
      /\ UNCHANGED <<st, sctx, owner, n, pcmd, cpc, cur, waits>>
    BY DEF Post, cmdobj
<1>2. pcmd \in Cmds
    BY <1>1 DEF IInv, HandInv, Hand, TypeOK
<1>3. \A c \in Cmds : sctx[c] => status[owner[c]] = "submitted" /\ owner[c] \in Clients
    BY <1>1 DEF IInv, SctxInv
<1>4. \A c \in Cmds : sctx[c] /\ c # pcmd /\ sctx[pcmd] => owner[c] # owner[pcmd]
    BY <1>2 DEF IInv, SctxInv
<1>5. \A c \in Cmds : sctx[c] => (status'[owner[c]] # "submitted" <=> c = pcmd)
    BY <1>1, <1>2, <1>3, <1>4 DEF IInv, TypeOK
<1>6. \A k \in Clients : status'[k] = "submitted" => status[k] = "submitted"
    BY <1>1, <1>2, <1>3 DEF IInv, TypeOK
<1>7. ClientInv'
    BY <1>1, <1>6 DEF IInv, ClientInv
<1>8. SctxInv'
    BY <1>1, <1>5 DEF IInv, SctxInv
<1> QED BY <1>7, <1>8

\* Forgetting the context ends the exception that post_process made.
LEMMA NullStep == ASSUME IInv, NullSctx PROVE ClientInv' /\ SctxInv'
<1> USE CmdThreadAssumption DEF CmdThreadAssumption, Cmds
<1>1. /\ tpc = "null" /\ tpc' = "free" /\ mutex' = FALSE
      /\ sctx' = [sctx EXCEPT ![pcmd] = FALSE]
      /\ UNCHANGED <<st, owner, n, pcmd, cpc, cur, waits, status>>
    BY DEF NullSctx, rest, client
<1>2. pcmd \in Cmds
    BY <1>1 DEF IInv, HandInv, Hand, TypeOK
<1>3. ~sctx'[pcmd] /\ \A c \in Cmds : c # pcmd => sctx'[c] = sctx[c]
    BY <1>1, <1>2 DEF IInv, TypeOK
<1>4. ClientInv'
    <2> SUFFICES ASSUME NEW k \in Clients, cpc[k] # "idle", waits[k],
                        status[k] = "submitted"
                 PROVE  sctx'[cur[k]]
        BY <1>1 DEF IInv, ClientInv
    <2>1. sctx[cur[k]] /\ cur[k] \in Cmds /\ owner[cur[k]] = k
        BY DEF IInv, ClientInv, TypeOK
    <2>2. cur[k] # pcmd
        BY <1>1, <2>1 DEF IInv, SctxInv
    <2> QED BY <1>3, <2>1, <2>2
<1>5. SctxInv'
    BY <1>1, <1>2, <1>3 DEF IInv, SctxInv
<1> QED BY <1>4, <1>5

\* By the time a command is freed nothing points at a context any more.
LEMMA FreeStep == ASSUME IInv, rtw_free_cmd_obj PROVE ClientInv' /\ SctxInv'
<1> USE CmdThreadAssumption DEF CmdThreadAssumption, Cmds
<1>1. /\ tpc = "free" /\ tpc' \in {"next", "drain"}
      /\ st' = [st EXCEPT ![pcmd] = "freed"]
      /\ UNCHANGED <<sctx, owner, n, cpc, cur, waits, status, mutex>>
    BY DEF rtw_free_cmd_obj, rest, client
<1>2. \A c \in Cmds : sctx[c] => c # pcmd /\ st'[c] = st[c]
    BY <1>1 DEF IInv, SctxInv, TypeOK
<1>3. ClientInv'
    BY <1>1 DEF IInv, ClientInv
<1>4. SctxInv'
    BY <1>1, <1>2 DEF IInv, SctxInv
<1> QED BY <1>3, <1>4

\* Every step of every context keeps both sides of the submit_ctx protocol.
LEMMA SctxStep == ASSUME IInv, [Next]_vars PROVE ClientInv' /\ SctxInv'
<1> USE DEF Cmds
<1>1. CASE Dequeue \/ Drain \/ Requeue
    <2>1. /\ UNCHANGED <<sctx, owner, n, cpc, cur, waits, status, mutex>>
          /\ tpc # "null" /\ tpc' \notin {"null", "free"}
        BY <1>1 DEF Dequeue, Drain, Requeue, rest, client
    <2>2. \A c \in Cmds : st[c] # "freed" => st'[c] # "freed"
        BY <1>1 DEF Dequeue, Drain, Requeue, IInv, TypeOK
    <2> QED BY <2>1, <2>2, ElsewhereStep
<1>2. CASE \/ DownSema \/ Interrupted \/ Peek \/ WentEmpty \/ Filter \/ Alive
           \/ Execute \/ Leave \/ ClearRunning
           \/ ThreadStopped \/ rtw_start_drv_threads
    <2>1. /\ UNCHANGED <<st, sctx, owner, n, cpc, cur, waits, status, mutex>>
          /\ tpc # "null" /\ tpc' \notin {"null", "free"}
        BY <1>2 DEF DownSema, Interrupted, Peek, WentEmpty, Filter, Alive, Execute,
                    Leave, ClearRunning, ThreadStopped, rtw_start_drv_threads,
                    rest, client, cmdobj
    <2> QED BY <2>1, ElsewhereStep
<1>3. CASE StopDriver \/ rtw_stop_cmd_thread \/ IpsDown \/ IpsUp
    BY <1>3, IdleStep DEF StopDriver, rtw_stop_cmd_thread, IpsDown, IpsUp
<1>4. CASE \/ PwrNext /\ UNCHANGED <<cmdobj, queue, thread, client, intf, hist>>
           \/ UNCHANGED vars
    BY <1>4, IdleStep DEF vars
<1> QED BY <1>1, <1>2, <1>3, <1>4, SubmitStep, ClientStepInv, PostStep, NullStep,
           FreeStep DEF Next, Thread, Interface

-----------------------------------------------------------------------------
\* A freshly opened interface satisfies the invariant.
LEMMA InitInv == ASSUME Init PROVE IInv
<1> USE CmdThreadAssumption, PwrCtrlAssumption
    DEF CmdThreadAssumption, PwrCtrlAssumption, Cmds
<1>1. PwrTypeOK
    <2>1. /\ cmd_queue_sema \in Nat /\ xmit_sema \in 0 .. MaxSema
          /\ lost \in 0 .. MaxLost
        BY DEF Init, PwrInit
    <2> QED BY <2>1, Zenon DEF Init, PwrInit, PwrTypeOK
<1>2. TypeOK
    <2>1. /\ queue \in Seq(Cmds) /\ order \in Seq(Cmds) /\ finished \in Seq(Cmds)
          /\ n \in 0 .. MaxCmds /\ pcmd \in 0 .. MaxCmds /\ stops \in 0 .. MaxStops
        BY DEF Init
    <2>2. /\ st \in [Cmds -> {"none", "made", "queued", "taken", "freed"}]
          /\ io \in [Cmds -> BOOLEAN] /\ sctx \in [Cmds -> BOOLEAN]
          /\ owner \in [Cmds -> Clients \cup {0}]
          /\ cpc \in [Clients -> {"idle", "enqueue", "up", "wait", "check"}]
          /\ waits \in [Clients -> BOOLEAN]
          /\ status \in [Clients -> {"none", "submitted", "done"}]
        BY Zenon DEF Init
    <2>3. cur \in [Clients -> 0 .. MaxCmds]
        BY DEF Init
    <2>4. cmdthd_running = TRUE /\ tpc = "sema" /\ mutex = FALSE /\ upc = "up"
        BY DEF Init
    <2> QED BY <1>1, <2>1, <2>2, <2>3, <2>4 DEF TypeOK
<1>3. HandInv
    <2>1. Len(queue) = 0 /\ n = 0 /\ pcmd = 0 /\ tpc = "sema"
        BY DEF Init
    <2> QED BY <2>1 DEF HandInv, Hand
<1>4. ClientInv
    BY DEF Init, ClientInv
<1>5. \A c \in Cmds : ~sctx[c]
    BY DEF Init
<1>6. tpc = "sema" /\ mutex = FALSE
    BY DEF Init
<1>7. SctxInv
    BY <1>5, <1>6 DEF SctxInv
<1> QED BY <1>2, <1>3, <1>4, <1>7 DEF IInv

\* The inductive invariant holds: thread, clients and commands always agree on
\* who may still touch which submit_ctx.
THEOREM Inductive == Spec => []IInv
<1>1. Init => IInv
    BY InitInv
<1>2. IInv /\ [Next]_vars => IInv'
    BY TypeStep, HandStep, SctxStep DEF IInv
<1> QED BY <1>1, <1>2, PTL DEF Spec

\* Every variable of the command thread and of the power handshake keeps its
\* type, whatever the number of clients, commands, stops and lost interrupts.
THEOREM TypeCorrect == Spec => []TypeOK
<1>1. IInv => TypeOK
    BY DEF IInv
<1> QED BY <1>1, Inductive, PTL

\* rtw_cmd_thread never completes a submit_ctx whose stack frame is gone, for
\* any number of clients and any interleaving of their timeouts with
\* post_process.
THEOREM SctxSafe == Spec => []SctxLive
<1>1. IInv => SctxLive
    BY DEF IInv, SctxInv, SctxLive
<1> QED BY <1>1, Inductive, PTL

\* A client whose wait timed out never clears the pointer of a command that
\* rtw_free_cmd_obj has already freed.
THEOREM WaiterSafety == Spec => []WaiterSafe
<1>1. IInv => WaiterSafe
    BY DEF IInv, ClientInv, SctxInv, WaiterSafe, TypeOK, Cmds
<1> QED BY <1>1, Inductive, PTL

-----------------------------------------------------------------------------
(* Order                                                                   *)

\* Appending to the second of two sequences appends to both.
LEMMA AppendConcat ==
    ASSUME NEW s \in Seq(Nat), NEW t \in Seq(Nat), NEW e \in Nat
    PROVE  Append(s \o t, e) = s \o Append(t, e)
<1>1. s \o t \in Seq(Nat) /\ <<e>> \in Seq(Nat)
    OBVIOUS
<1>2. Append(s \o t, e) = (s \o t) \o <<e>>
    BY <1>1, AppendIsConcat
<1>3. Append(t, e) = t \o <<e>>
    BY AppendIsConcat
<1>4. (s \o t) \o <<e>> = s \o (t \o <<e>>)
    BY <1>1, ConcatAssociative
<1> QED BY <1>2, <1>3, <1>4

\* An element between two sequences may be counted with either.
LEMMA ConcatMiddle ==
    ASSUME NEW s \in Seq(Nat), NEW t \in Seq(Nat), NEW e \in Nat
    PROVE  (s \o <<e>>) \o t = s \o (<<e>> \o t)
<1>1. <<e>> \in Seq(Nat)
    OBVIOUS
<1> QED BY <1>1, ConcatAssociative

\* The four steps that move a command keep the concatenation of what is done,
\* what is in hand and what is queued.
LEMMA FifoStep == ASSUME IInv, Fifo, [Next]_vars PROVE Fifo'
<1> USE CmdThreadAssumption DEF CmdThreadAssumption, Cmds
<1>0. /\ queue \in Seq(Nat) /\ order \in Seq(Nat) /\ finished \in Seq(Nat)
      /\ pcmd \in Nat
      /\ \A k \in Clients : cur[k] \in Nat
    BY DEF IInv, TypeOK
<1>1. CASE UNCHANGED <<order, finished, pcmd, queue>>
    BY <1>1 DEF Fifo, InHand
<1>2. ASSUME NEW k \in Clients, _rtw_enqueue_cmd(k) PROVE Fifo'
    <2>1. /\ queue' = Append(queue, cur[k]) /\ order' = Append(order, cur[k])
          /\ UNCHANGED <<finished, pcmd>>
        BY <1>2 DEF _rtw_enqueue_cmd, thread
    <2>2. InHand \in Seq(Nat) /\ InHand' = InHand
        BY <1>0, <2>1 DEF InHand
    <2>3. finished \o InHand \in Seq(Nat)
        BY <1>0, <2>2
    <2> QED BY <1>0, <2>1, <2>2, <2>3, AppendConcat DEF Fifo
<1>3. CASE Dequeue \/ Drain
    <2>1. CASE UNCHANGED <<pcmd, queue>>
        BY <1>1, <1>3, <2>1 DEF Dequeue, Drain, hist
    <2>2. CASE pcmd' = Head(queue) /\ queue' = Tail(queue) /\ queue # <<>>
        <3>1. pcmd = 0 /\ UNCHANGED <<order, finished>>
            BY <1>3 DEF Dequeue, Drain, IInv, HandInv, Hand, hist
        <3>2. Head(queue) # 0
            BY <2>2 DEF IInv, TypeOK
        <3>3. InHand = <<>> /\ InHand' = <<Head(queue)>>
            BY <2>2, <3>1, <3>2 DEF InHand
        <3>4. Head(queue) \in Nat /\ Tail(queue) \in Seq(Nat)
            BY <1>0, <2>2
        <3>5. queue = <<Head(queue)>> \o Tail(queue)
            BY <1>0, <2>2
        <3>6. finished \o <<>> = finished
            BY <1>0
        <3>7. (finished \o <<Head(queue)>>) \o Tail(queue)
                = finished \o (<<Head(queue)>> \o Tail(queue))
            BY <1>0, <3>4, ConcatMiddle
        <3> QED BY <2>2, <3>1, <3>3, <3>5, <3>6, <3>7 DEF Fifo
    <2> QED BY <1>3, <2>1, <2>2 DEF Dequeue, Drain
<1>4. CASE Requeue
    <2>1. pcmd # 0 /\ pcmd' = 0 /\ queue' = <<pcmd>> \o queue
          /\ UNCHANGED <<order, finished>>
        BY <1>4 DEF Requeue, IInv, HandInv, Hand, hist
    <2>2. InHand = <<pcmd>> /\ InHand' = <<>>
        BY <2>1 DEF InHand
    <2>3. finished \o <<>> = finished
        BY <1>0
    <2>4. (finished \o <<pcmd>>) \o queue = finished \o (<<pcmd>> \o queue)
        BY <1>0, ConcatMiddle
    <2> QED BY <2>1, <2>2, <2>3, <2>4 DEF Fifo
<1>5. CASE rtw_free_cmd_obj
    <2>1. pcmd # 0 /\ pcmd' = 0 /\ finished' = Append(finished, pcmd)
          /\ UNCHANGED <<order, queue>>
        BY <1>5 DEF rtw_free_cmd_obj, IInv, HandInv, Hand
    <2>2. InHand = <<pcmd>> /\ InHand' = <<>>
        BY <2>1 DEF InHand
    <2>3. Append(finished, pcmd) = finished \o <<pcmd>>
        BY <1>0
    <2>4. finished' \o <<>> = finished'
        BY <1>0, <2>1
    <2> QED BY <2>1, <2>2, <2>3, <2>4 DEF Fifo
<1>6. \A k \in Clients, needsIo, wait \in BOOLEAN : Submit(k, needsIo, wait)
        => UNCHANGED <<order, finished, pcmd, queue>>
    BY DEF Submit, hist, thread
<1>7. \A k \in Clients : UpSema(k) \/ rtw_sctx_wait(k) \/ ClearSctx(k)
        => UNCHANGED <<order, finished, pcmd, queue>>
    BY DEF UpSema, rtw_sctx_wait, ClearSctx, hist, thread
<1>8. \/ DownSema \/ Interrupted \/ Peek \/ WentEmpty \/ Filter \/ Alive \/ Execute
      \/ Post \/ NullSctx \/ Leave \/ ClearRunning \/ Interface
      => UNCHANGED <<order, finished, pcmd, queue>>
    BY DEF DownSema, Interrupted, Peek, WentEmpty, Filter, Alive, Execute, Post,
           NullSctx, Leave, ClearRunning, Interface, StopDriver,
           rtw_stop_cmd_thread, ThreadStopped, rtw_start_drv_threads, IpsDown,
           IpsUp, hist, thread
<1>9. \/ PwrNext /\ UNCHANGED <<cmdobj, queue, thread, client, intf, hist>>
      \/ UNCHANGED vars
      => UNCHANGED <<order, finished, pcmd, queue>>
    BY DEF vars, hist, thread
<1> QED BY <1>1, <1>2, <1>3, <1>4, <1>5, <1>6, <1>7, <1>8, <1>9
        DEF Next, Thread, ClientStep

\* The thread takes commands in the order they were queued, loses none and
\* executes none twice, even though rtw_register_cmd_alive may send one back
\* to the head of the queue and the drain of a stopping thread drops the rest.
THEOREM FifoOrder == Spec => []Fifo
<1>1. Init => Fifo
    <2> SUFFICES ASSUME Init PROVE Fifo
        OBVIOUS
    <2>1. order = <<>> /\ finished = <<>> /\ pcmd = 0 /\ queue = <<>>
        BY DEF Init
    <2>2. InHand = <<>>
        BY <2>1 DEF InHand
    <2> QED BY <2>1, <2>2 DEF Fifo
<1>2. IInv /\ Fifo /\ [Next]_vars => Fifo'
    BY FifoStep
<1> QED BY <1>1, <1>2, Inductive, PTL DEF Spec

-----------------------------------------------------------------------------
(* The handshake with the firmware                                         *)

\* What asking for a level leaves behind while the chip is on and the driver
\* is not stopped.
LEMMA RpwmSet ==
    ASSUME PwrTypeOK, NEW pslv \in {"low", "high"}, rtw_set_rpwm(pslv),
           hw_init_completed, ~bDriverStopped
    PROVE  /\ rpwm' = pslv
           /\ rpwm = pslv => cpwm' = cpwm /\ ackreq' = ackreq
           /\ rpwm # pslv => /\ ackreq' <=> cpwm = "low" /\ pslv = "high"
                             /\ cpwm' = IF cpwm = "low" THEN "low" ELSE pslv
BY DEF PwrTypeOK, rtw_set_rpwm, level

\* Entering LPS: while an answer is outstanding nothing is claimed, and
\* otherwise the level asked for is the level the driver believes in.
LEMMA EnterStep ==
    ASSUME IInv, WakeInv, EnterLps, UNCHANGED cmdvars
    PROVE  WakeInv'
<1> USE DEF WakeInv
<1>0. PwrTypeOK
    BY DEF IInv, TypeOK
<1> DEFINE pslv == IF alives = {} THEN "low" ELSE "high"
<1>1. /\ ~bFwCurrentInPSMode /\ ~bDriverStopped /\ hw_init_completed
      /\ bFwCurrentInPSMode' /\ rtw_set_rpwm(pslv) /\ pslv \in {"low", "high"}
      /\ stale' = (ackreq \/ cpwm_event \/ (stale /\ rpwm' = "high"))
      /\ UNCHANGED <<alives, cpwm_event, hw_init_completed, bDriverStopped,
                     xpending, xbusy, fw>>
      /\ UNCHANGED <<io, tpc, pcmd, upc>>
    BY DEF EnterLps, flags, xmit, cmdvars, cmdobj, thread, intf
<1> HIDE DEF pslv
<1>2. /\ rpwm' = pslv
      /\ rpwm = pslv => cpwm' = cpwm /\ ackreq' = ackreq
      /\ rpwm # pslv => /\ ackreq' <=> cpwm = "low" /\ pslv = "high"
                        /\ cpwm' = IF cpwm = "low" THEN "low" ELSE pslv
    BY <1>0, <1>1, RpwmSet
<1>3. LevelInv'
    BY <1>1, <1>2 DEF LevelInv
<1>4. rpwm # "low" /\ rpwm \in {"zero", "low", "high"} /\ cpwm \in {"low", "high"}
    BY <1>0, <1>1 DEF LevelInv, PwrTypeOK
<1>5. ASSUME ~stale' PROVE AnswerInv'
    <2>1. ~ackreq /\ ~cpwm_event /\ (stale => pslv = "low")
        BY <1>1, <1>2, <1>5
    <2>2. CASE pslv = "low"
        <3>1. rpwm' = "low" /\ cpwm' = "low" /\ ~ackreq'
            BY <1>2, <1>4, <2>2
        <3>2. alives = {}
            BY <2>2 DEF pslv
        <3>3. ~InUse'
            BY <1>1, <3>2 DEF LevelInv, InUse
        <3> QED BY <1>1, <2>1, <3>1, <3>3 DEF AnswerInv
    <2>3. CASE pslv = "high"
        <3>1. rpwm' = "high" /\ ~ackreq'
            BY <1>2, <1>4, <2>1, <2>3 DEF LevelInv
        <3>2. fw = "awake"
            BY <1>1, <1>4, <2>1, <2>3 DEF LevelInv, AnswerInv
        <3> QED BY <1>1, <2>1, <3>1, <3>2 DEF AnswerInv
    <2> QED BY <1>1, <2>2, <2>3
<1>6. stale' => AnswerInv'
    BY DEF AnswerInv
<1> QED BY <1>3, <1>5, <1>6

\* A thread that registers asks for the high level if the driver does not
\* believe in it, and uses the chip only if it does.
LEMMA WakeRegister ==
    ASSUME IInv, WakeInv, NEW t \in Tasks, register_task_alive(t),
           UNCHANGED <<bFwCurrentInPSMode, cpwm_event, hw_init_completed,
                       bDriverStopped, fw, stale, upc>>,
           xbusy' => xbusy \/ (t = "xmit" /\ Usable),
           tpc' = "execute" /\ io'[pcmd'] =>
                \/ tpc = "execute" /\ io[pcmd]
                \/ t = "cmd" /\ Usable
    PROVE  WakeInv'
<1> USE DEF WakeInv
<1>0. /\ PwrTypeOK
      /\ bFwCurrentInPSMode \in BOOLEAN /\ ackreq \in BOOLEAN
      /\ rpwm \in {"zero", "low", "high"} /\ cpwm \in {"low", "high"}
    BY DEF IInv, TypeOK, PwrTypeOK
<1>1. alives' = alives \cup {t}
    BY DEF register_task_alive
<1>2. InUse' => InUse \/ Usable
    BY DEF InUse
<1>3. CASE UNCHANGED level /\ (Usable \/ rpwm = "high")
    <2>1. LevelInv'
        BY <1>1, <1>3 DEF LevelInv, level, Tasks
    <2>2. AnswerInv'
        BY <1>0, <1>2, <1>3 DEF AnswerInv, LevelInv, Usable, level
    <2> QED BY <2>1, <2>2
<1>4. CASE ~Usable /\ rpwm # "high" /\ rtw_set_rpwm("high")
    <2>1. bFwCurrentInPSMode /\ cpwm = "low"
        BY <1>0, <1>4 DEF Usable
    <2>2. hw_init_completed /\ ~bDriverStopped
        BY <2>1 DEF LevelInv
    <2>3. rpwm' = "high" /\ ackreq' /\ cpwm' = "low"
        BY <1>0, <1>4, <2>1, <2>2, RpwmSet
    <2>4. LevelInv'
        BY <1>1, <1>4, <2>1, <2>3 DEF LevelInv, Tasks
    <2>5. AnswerInv'
        BY <1>0, <1>2, <1>4, <2>1, <2>3 DEF AnswerInv
    <2> QED BY <2>4, <2>5
<1> QED BY <1>3, <1>4 DEF register_task_alive

\* A thread that unregisters lets the firmware sleep only if the other one is
\* not registered, and so does not use the chip.
LEMMA WakeUnregister ==
    ASSUME IInv, WakeInv, NEW t \in Tasks, unregister_task_alive(t),
           UNCHANGED <<bFwCurrentInPSMode, cpwm_event, hw_init_completed,
                       bDriverStopped, fw, stale, upc>>,
           xbusy' => xbusy /\ t # "xmit",
           tpc' = "execute" /\ io'[pcmd'] =>
                tpc = "execute" /\ io[pcmd] /\ t # "cmd"
    PROVE  WakeInv'
<1> USE DEF WakeInv
<1>0. /\ PwrTypeOK
      /\ bFwCurrentInPSMode \in BOOLEAN /\ ackreq \in BOOLEAN
      /\ rpwm \in {"zero", "low", "high"} /\ cpwm \in {"low", "high"}
    BY DEF IInv, TypeOK, PwrTypeOK
<1>1. alives' = alives \ {t}
    BY DEF unregister_task_alive
<1>2. /\ xbusy' => "xmit" \in alives'
      /\ tpc' = "execute" /\ io'[pcmd'] => "cmd" \in alives'
    BY <1>1 DEF LevelInv
<1>3. InUse' => InUse /\ alives' # {}
    BY <1>2 DEF InUse
<1>4. CASE UNCHANGED level
    BY <1>0, <1>2, <1>3, <1>4 DEF LevelInv, AnswerInv, level
<1>5. CASE /\ bFwCurrentInPSMode /\ cpwm = "high" /\ alives' = {}
           /\ rtw_set_rpwm("low")
    <2>1. hw_init_completed /\ ~bDriverStopped
        BY <1>5 DEF LevelInv
    <2>2. /\ rpwm' = "low"
          /\ rpwm = "low" => cpwm' = cpwm /\ ackreq' = ackreq
          /\ rpwm # "low" => ~ackreq' /\ cpwm' = "low"
        BY <1>0, <1>5, <2>1, RpwmSet
    <2>3. LevelInv'
        BY <1>2, <1>5, <2>1, <2>2 DEF LevelInv
    <2>4. AnswerInv'
        BY <1>0, <1>3, <1>5, <2>2 DEF AnswerInv
    <2> QED BY <2>3, <2>4
<1> QED BY <1>4, <1>5 DEF unregister_task_alive

\* The steps of PwrCtrl.
LEMMA WakePwrStep ==
    ASSUME IInv, WakeInv, PwrNext, UNCHANGED cmdvars
    PROVE  WakeInv'
<1> USE DEF WakeInv
<1>0. /\ PwrTypeOK
      /\ bFwCurrentInPSMode \in BOOLEAN /\ ackreq \in BOOLEAN
      /\ rpwm \in {"zero", "low", "high"} /\ cpwm \in {"low", "high"}
      /\ UNCHANGED <<io, tpc, pcmd, upc>>
    BY DEF IInv, TypeOK, PwrTypeOK, cmdvars, cmdobj, thread, intf
<1>1. CASE EnterLps
    BY <1>1, EnterStep
<1>2. CASE LeaveLps
    <2>1. /\ bFwCurrentInPSMode /\ ~bFwCurrentInPSMode' /\ rtw_set_rpwm("high")
          /\ UNCHANGED <<alives, cpwm_event, hw_init_completed, bDriverStopped,
                         xpending, xbusy, fw, stale>>
        BY <1>2 DEF LeaveLps, flags, xmit
    <2>2. hw_init_completed /\ ~bDriverStopped /\ rpwm # "zero"
        BY <2>1 DEF LevelInv
    <2>3. /\ rpwm' = "high"
          /\ rpwm = "high" => cpwm' = cpwm /\ ackreq' = ackreq
          /\ rpwm # "high" => /\ ackreq' <=> cpwm = "low"
                              /\ cpwm' = IF cpwm = "low" THEN "low" ELSE "high"
        BY <1>0, <2>1, <2>2, RpwmSet
    <2>4. LevelInv'
        BY <1>0, <2>1, <2>3 DEF LevelInv
    <2>5. AnswerInv'
        BY <1>0, <2>1, <2>2, <2>3 DEF AnswerInv
    <2> QED BY <2>4, <2>5
<1>3. CASE cpwm_int_hdl
    <2>1. cpwm_event /\ ~cpwm_event'
          /\ (cpwm' = IF bDriverStopped THEN cpwm ELSE "high")
          /\ UNCHANGED <<bFwCurrentInPSMode, rpwm, ackreq, alives, flags, xmit,
                         fw, stale>>
        BY <1>3 DEF cpwm_int_hdl
    <2> QED BY <1>0, <2>1 DEF LevelInv, AnswerInv, InUse, flags, xmit
<1>4. CASE XmitEnqueue
    BY <1>0, <1>4 DEF XmitEnqueue, LevelInv, AnswerInv, InUse, level, flags
<1>5. CASE XmitTake
    <2>1. /\ ~xbusy
          /\ UNCHANGED <<bFwCurrentInPSMode, cpwm_event, hw_init_completed,
                         bDriverStopped, fw, stale>>
        BY <1>5 DEF XmitTake, flags
    <2>2. CASE UNCHANGED <<alives, level, xbusy>>
        BY <1>0, <2>1, <2>2 DEF LevelInv, AnswerInv, InUse, level
    <2>3. CASE register_task_alive("xmit") /\ xbusy' = Usable
        BY <1>0, <2>1, <2>3, WakeRegister DEF Tasks
    <2> QED BY <1>5, <2>2, <2>3 DEF XmitTake
<1>6. CASE XmitDone
    <2>1. /\ ~xbusy' /\ unregister_task_alive("xmit")
          /\ UNCHANGED <<bFwCurrentInPSMode, cpwm_event, hw_init_completed,
                         bDriverStopped, fw, stale>>
        BY <1>6 DEF XmitDone, flags
    <2> QED BY <1>0, <2>1, WakeUnregister DEF Tasks
<1>7. CASE FwSleep
    BY <1>0, <1>7 DEF FwSleep, LevelInv, AnswerInv, InUse, level, flags, xmit
<1>8. ASSUME NEW heard \in BOOLEAN, FwWake(heard) PROVE WakeInv'
    BY <1>0, <1>8 DEF FwWake, LevelInv, AnswerInv, InUse, flags, xmit
<1> QED BY <1>1, <1>2, <1>3, <1>4, <1>5, <1>6, <1>7, <1>8 DEF PwrNext

\* The thread's register and unregister, and the moments it starts and ends a
\* command.
LEMMA WakeStep == ASSUME IInv, WakeInv, [Next]_vars PROVE WakeInv'
<1> USE DEF WakeInv
<1>0. /\ bFwCurrentInPSMode \in BOOLEAN /\ ackreq \in BOOLEAN
      /\ rpwm \in {"zero", "low", "high"} /\ cpwm \in {"low", "high"}
    BY DEF IInv, TypeOK, PwrTypeOK
<1>1. CASE PwrNext /\ UNCHANGED <<cmdobj, queue, thread, client, intf, hist>>
    BY <1>1, WakePwrStep DEF cmdvars
<1>2. ASSUME UNCHANGED <<bFwCurrentInPSMode, level, alives, cpwm_event, flags,
                         xmit, fw, stale, upc>>,
             tpc' = "execute" /\ io'[pcmd'] => tpc = "execute" /\ io[pcmd]
      PROVE  WakeInv'
    <2>1. InUse' => InUse
        BY <1>2 DEF InUse, xmit
    <2>2. LevelInv'
        BY <1>2 DEF LevelInv, level, flags, xmit
    <2>3. AnswerInv'
        BY <1>2, <2>1 DEF AnswerInv, level, flags
    <2> QED BY <2>2, <2>3
<1>3. ASSUME NEW k \in Clients, NEW needsIo \in BOOLEAN, NEW wait \in BOOLEAN,
             Submit(k, needsIo, wait)
      PROVE  WakeInv'
    <2>1. UNCHANGED <<pwrvars, thread, intf>> /\ io' = [io EXCEPT ![n + 1] = needsIo]
        BY <1>3 DEF Submit
    <2>2. tpc = "execute" => pcmd # n + 1
        BY DEF IInv, HandInv, TypeOK
    <2>3. tpc = "execute" => io'[pcmd] = io[pcmd]
        BY <2>1, <2>2 DEF IInv, TypeOK, HandInv, Hand, Cmds
    <2> QED BY <1>2, <2>1, <2>3 DEF pwrvars, thread, intf
<1>4. ASSUME NEW k \in Clients, ClientStep(k) PROVE WakeInv'
    <2>1. /\ UNCHANGED <<bFwCurrentInPSMode, level, alives, cpwm_event, flags,
                         xmit, fw, stale, upc>>
          /\ UNCHANGED <<tpc, pcmd, io>>
        BY <1>4 DEF ClientStep, _rtw_enqueue_cmd, UpSema, rtw_sctx_wait, ClearSctx,
                    pwrvars, thread, intf, cmdobj
    <2> QED BY <1>2, <2>1
<1>5. CASE \/ DownSema \/ Interrupted \/ Peek \/ Dequeue \/ Filter \/ Requeue
           \/ Execute \/ Post \/ NullSctx \/ rtw_free_cmd_obj \/ ClearRunning \/ Drain
    <2>1. /\ UNCHANGED <<bFwCurrentInPSMode, level, alives, cpwm_event, flags,
                         xmit, fw, stale, upc>>
          /\ tpc' # "execute"
        BY <1>5 DEF DownSema, Interrupted, Peek, Dequeue, Filter, Requeue, Execute,
                    Post, NullSctx, rtw_free_cmd_obj, ClearRunning, Drain, pwrvars,
                    rest, intf
    <2> QED BY <1>2, <2>1
<1>6. CASE WentEmpty \/ Leave
    <2>1. /\ tpc' # "execute" /\ unregister_task_alive("cmd")
          /\ UNCHANGED <<bFwCurrentInPSMode, cpwm_event, hw_init_completed,
                         bDriverStopped, xbusy, fw, stale, upc>>
        BY <1>6 DEF WentEmpty, Leave, rest, intf, flags, xmit
    <2> QED BY <2>1, WakeUnregister DEF Tasks
<1>7. CASE Alive
    <2>1. /\ UNCHANGED <<bFwCurrentInPSMode, cpwm_event, hw_init_completed,
                         bDriverStopped, xbusy, fw, stale, upc, io, pcmd>>
          /\ tpc = "alive"
        BY <1>7 DEF Alive, rest, intf, cmdobj, flags, xmit
    <2>2. CASE io[pcmd]
        <3>1. /\ register_task_alive("cmd")
              /\ tpc' = IF Usable THEN "execute" ELSE "requeue"
            BY <1>7, <2>2 DEF Alive
        <3>2. tpc' = "execute" => Usable
            BY <3>1
        <3>3. xbusy' = xbusy
            BY <2>1
        <3> QED BY <2>1, <3>1, <3>2, <3>3, WakeRegister DEF Tasks
    <2>3. CASE ~io[pcmd]
        <3>1. unregister_task_alive("cmd")
            BY <1>7, <2>3 DEF Alive
        <3> QED BY <2>1, <2>3, <3>1, WakeUnregister DEF Tasks
    <2> QED BY <2>2, <2>3
<1>8. CASE StopDriver
    BY <1>8 DEF StopDriver, LevelInv, AnswerInv, InUse, power, kept, level, xmit,
                thread, cmdobj
<1>9. CASE rtw_stop_cmd_thread
    BY <1>9 DEF rtw_stop_cmd_thread, LevelInv, AnswerInv, InUse, power, kept,
                flags, xmit, thread, cmdobj
<1>10. CASE ThreadStopped
    BY <1>0, <1>10 DEF ThreadStopped, rtw_hal_deinit, LevelInv, AnswerInv, InUse,
                kept, xmit, cmdobj
<1>11. CASE rtw_start_drv_threads
    BY <1>0, <1>11 DEF rtw_start_drv_threads, rtw_hal_init, LevelInv, AnswerInv,
                InUse, kept, xmit, cmdobj
<1>12. CASE IpsDown
    BY <1>0, <1>12 DEF IpsDown, rtw_hal_deinit, LevelInv, AnswerInv, InUse, kept,
                xmit, thread, cmdobj, intf
<1>13. CASE IpsUp
    BY <1>0, <1>13 DEF IpsUp, rtw_hal_init, LevelInv, AnswerInv, InUse, kept,
                xmit, thread, cmdobj, intf
<1>14. CASE UNCHANGED vars
    BY <1>14, <1>2 DEF vars, pwrvars, thread, cmdobj, intf
<1> QED BY <1>1, <1>3, <1>4, <1>5, <1>6, <1>7, <1>8, <1>9, <1>10, <1>11, <1>12,
           <1>13, <1>14 DEF Next, Thread, Interface

\* A command that needs the chip, or a transmission, never meets a sleeping
\* firmware, for any number of clients, commands, restarts and lost CPWM
\* interrupts: only an entry into LPS that overtakes the answer to an earlier
\* wake-up defeats the handshake, and only until LPS is next entered at the
\* low level with no answer outstanding.
THEOREM FirmwareSafe == Spec => []FirmwareAwake
<1>1. Init => WakeInv
    BY DEF Init, PwrInit, WakeInv, LevelInv, AnswerInv, InUse
<1>2. IInv /\ WakeInv /\ [Next]_vars => WakeInv'
    BY WakeStep
<1>3. IInv /\ WakeInv => FirmwareAwake
    BY DEF IInv, TypeOK, PwrTypeOK, WakeInv, LevelInv, AnswerInv, FirmwareAwake
<1> QED BY <1>1, <1>2, <1>3, Inductive, PTL DEF Spec
=============================================================================
