----------------------------- MODULE CmdThread -----------------------------
(***************************************************************************)
(* The command queue of the RTL8189ES driver and its thread (core/         *)
(* rtw_cmd.c), composed with the power handshake of PwrCtrl.               *)
(*                                                                         *)
(* Clients (ioctl and cfg80211 handlers, timers) submit commands.  A       *)
(* client may wait for its command: it puts a submit_ctx on its own stack, *)
(* lets the command point at it, and after two seconds at most clears that *)
(* pointer again, under sctx_mutex, before its stack frame goes away.  The *)
(* thread takes commands off the queue, wakes the firmware, executes,      *)
(* reports through the context and frees the command.  A stopping driver   *)
(* makes the thread drop what is queued; the interface can be reopened.    *)
(*                                                                         *)
(* Commands are numbered in the order they are allocated and a number is   *)
(* never reused, so that an access to a freed command can be told.         *)
(***************************************************************************)
EXTENDS PwrCtrl, Sequences, FiniteSets

CONSTANTS
    Clients,
    MaxCmds,        \* bound: commands allocated
    MaxStops,       \* bound: times the interface goes down
    Ips,            \* may the chip be switched off while not connected?
    Signals         \* may somebody send the thread a SIGTERM?

ASSUME CmdThreadAssumption ==
    /\ MaxCmds \in Nat /\ MaxStops \in Nat
    /\ Ips \in BOOLEAN /\ Signals \in BOOLEAN

Cmds == 1 .. MaxCmds

VARIABLES
    st,             \* cmd_obj: "none", "made", "queued", "taken", "freed"
    io,             \* cmd_obj: ~no_io
    sctx,           \* cmd_obj: does it point at its client's submit_ctx?
    owner,          \* cmd_obj: the client that submitted it (0: nobody yet)
    n,              \* commands allocated
    queue,          \* cmd_queue
    cmdthd_running,
    tpc, pcmd,      \* thread: program point, command in hand (0: none)
    mutex,          \* sctx_mutex is held by the thread
    cpc,            \* client: program point
    cur,            \* client: its command
    waits,          \* client: RTW_CMDF_WAIT_ACK
    status,         \* client: submit_ctx.status on its stack
    upc,            \* interface: "up", "stopping", "joining", "down"
    stops,          \* times it went down
    order,          \* history: commands in the order they were queued
    finished        \* history: commands in the order they left the thread

cmdobj == <<st, io, sctx, owner, n>>
thread == <<cmdthd_running, tpc, pcmd, mutex>>
client == <<cpc, cur, waits, status>>
intf   == <<upc, stops>>
hist   == <<order, finished>>
vars   == <<pwrvars, cmdobj, queue, thread, client, intf, hist>>

Init ==
    /\ PwrInit
    /\ st = [c \in Cmds |-> "none"] /\ io = [c \in Cmds |-> FALSE]
    /\ sctx = [c \in Cmds |-> FALSE]
    /\ owner = [c \in Cmds |-> 0]
    /\ n = 0 /\ queue = <<>>
    /\ cmdthd_running = TRUE /\ tpc = "sema" /\ pcmd = 0 /\ mutex = FALSE
    /\ cpc = [k \in Clients |-> "idle"] /\ cur = [k \in Clients |-> 0]
    /\ waits = [k \in Clients |-> FALSE]
    /\ status = [k \in Clients |-> "none"]
    /\ upc = "up" /\ stops = 0
    /\ order = <<>> /\ finished = <<>>

\* RTW_CANNOT_RUN; the driver is stopped whenever the card counts as removed.
CannotRun == bDriverStopped

-----------------------------------------------------------------------------
(* Clients                                                                 *)

\* rtw_cmd_filter, with neither lock held
rtw_cmd_filter(needsIo) ==
    cmdthd_running /\ (hw_init_completed \/ ~needsIo)

\* Allocate and fill a command.  One that rtw_enqueue_cmd filters is freed
\* there and the call fails.
Submit(k, needsIo, wait) ==
    /\ cpc[k] = "idle" /\ n < MaxCmds
    /\ n' = n + 1
    /\ io' = [io EXCEPT ![n'] = needsIo]
    /\ owner' = [owner EXCEPT ![n'] = k]
    /\ IF rtw_cmd_filter(needsIo)
       THEN /\ st' = [st EXCEPT ![n'] = "made"]
            /\ sctx' = [sctx EXCEPT ![n'] = wait]
            /\ cpc' = [cpc EXCEPT ![k] = "enqueue"]
            /\ cur' = [cur EXCEPT ![k] = n']
            /\ waits' = [waits EXCEPT ![k] = wait]
            /\ status' = [status EXCEPT ![k] = "submitted"]
       ELSE /\ st' = [st EXCEPT ![n'] = "freed"]
            /\ UNCHANGED <<sctx, client>>
    /\ UNCHANGED <<pwrvars, queue, thread, intf, hist>>

_rtw_enqueue_cmd(k) ==
    /\ cpc[k] = "enqueue"
    /\ st' = [st EXCEPT ![cur[k]] = "queued"]
    /\ queue' = Append(queue, cur[k])
    /\ order' = Append(order, cur[k])
    /\ cpc' = [cpc EXCEPT ![k] = "up"]
    /\ UNCHANGED <<pwrvars, io, sctx, owner, n, thread, cur, waits, status,
                   intf, finished>>

\* Back in rtw_enqueue_cmd: _rtw_up_sema.  A caller that does not wait is done.
UpSema(k) ==
    /\ cpc[k] = "up" /\ cmd_queue_sema < MaxSema
    /\ cmd_queue_sema' = cmd_queue_sema + 1
    /\ cpc' = [cpc EXCEPT ![k] = IF waits[k] THEN "wait" ELSE "idle"]
    /\ UNCHANGED <<bFwCurrentInPSMode, level, alives, cpwm_event, flags,
                   xmit_sema, xmit, fw, lost, stale, cmdobj, queue, thread,
                   cur, waits, status, intf, hist>>

\* rtw_sctx_wait returns: completed, or after the timeout, whatever happened.
rtw_sctx_wait(k) ==
    /\ cpc[k] = "wait"
    /\ cpc' = [cpc EXCEPT ![k] = "check"]
    /\ UNCHANGED <<pwrvars, cmdobj, queue, thread, cur, waits, status, intf,
                   hist>>

ClearSctx_unchecked(k) ==
    /\ cpc[k] = "check"
    /\ sctx' = IF status[k] = "submitted"
               THEN [sctx EXCEPT ![cur[k]] = FALSE] ELSE sctx
    /\ cpc' = [cpc EXCEPT ![k] = "idle"]
    /\ UNCHANGED <<pwrvars, st, io, owner, n, queue, thread, cur, waits,
                   status, intf, hist>>

\* The caller, with sctx_mutex: a command still on its way must forget this
\* stack frame.
ClearSctx(k) ==
    /\ cpc[k] = "check" /\ ~mutex
    /\ sctx' = IF status[k] = "submitted"
               THEN [sctx EXCEPT ![cur[k]] = FALSE] ELSE sctx
    /\ cpc' = [cpc EXCEPT ![k] = "idle"]
    /\ UNCHANGED <<pwrvars, st, io, owner, n, queue, thread, cur, waits,
                   status, intf, hist>>

-----------------------------------------------------------------------------
(* rtw_cmd_thread                                                          *)

rest == <<client, intf>>

DownSema_nowait ==
    /\ tpc = "sema"
    /\ cmd_queue_sema' = cmd_queue_sema - 1
    /\ tpc' = IF CannotRun THEN "leave" ELSE "peek"
    /\ UNCHANGED <<bFwCurrentInPSMode, level, alives, cpwm_event, flags,
                   xmit_sema, xmit, fw, lost, stale, cmdobj, queue,
                   cmdthd_running, pcmd, mutex, rest, hist>>

\* _rtw_down_sema and the check behind it; a signal makes the down fail.
DownSema ==
    /\ tpc = "sema" /\ cmd_queue_sema > 0
    /\ cmd_queue_sema' = cmd_queue_sema - 1
    /\ tpc' = IF CannotRun THEN "leave" ELSE "peek"
    /\ UNCHANGED <<bFwCurrentInPSMode, level, alives, cpwm_event, flags,
                   xmit_sema, xmit, fw, lost, stale, cmdobj, queue,
                   cmdthd_running, pcmd, mutex, rest, hist>>

Interrupted ==
    /\ tpc = "sema" /\ Signals
    /\ tpc' = "leave"
    /\ UNCHANGED <<pwrvars, cmdobj, queue, cmdthd_running, pcmd, mutex, rest,
                   hist>>

Peek ==
    /\ tpc = "peek"
    /\ tpc' = IF queue = <<>> THEN "sema" ELSE "next"
    /\ UNCHANGED <<pwrvars, cmdobj, queue, cmdthd_running, pcmd, mutex, rest,
                   hist>>

\* _next: leave, or rtw_dequeue_cmd.
Dequeue ==
    /\ tpc = "next"
    /\ \/ /\ CannotRun /\ tpc' = "leave"
          /\ UNCHANGED <<pcmd, queue, st>>
       \/ /\ ~CannotRun /\ queue = <<>> /\ tpc' = "empty"
          /\ UNCHANGED <<pcmd, queue, st>>
       \/ /\ ~CannotRun /\ queue # <<>> /\ tpc' = "filter"
          /\ pcmd' = Head(queue) /\ queue' = Tail(queue)
          /\ st' = [st EXCEPT ![Head(queue)] = "taken"]
    /\ UNCHANGED <<pwrvars, io, sctx, owner, n, cmdthd_running, mutex, rest,
                   hist>>

\* Nothing left: rtw_unregister_cmd_alive, then wait for the next up.
WentEmpty ==
    /\ tpc = "empty" /\ tpc' = "sema"
    /\ unregister_task_alive("cmd")
    /\ UNCHANGED <<bFwCurrentInPSMode, cpwm_event, flags, semas, xmit, fw,
                   lost, stale, cmdobj, queue, cmdthd_running, pcmd, mutex,
                   rest, hist>>

\* The filter once more: a command that needs the hardware is dropped without
\* it (H2C_DROPPED, reported as an error).
Filter ==
    /\ tpc = "filter"
    /\ tpc' = IF rtw_cmd_filter(io[pcmd]) THEN "alive" ELSE "post"
    /\ UNCHANGED <<pwrvars, cmdobj, queue, cmdthd_running, pcmd, mutex, rest,
                   hist>>

\* no_io gives up CMD_ALIVE, anything else registers it.
Alive ==
    /\ tpc = "alive"
    /\ IF io[pcmd]
       THEN /\ register_task_alive("cmd")
            /\ tpc' = IF Usable THEN "execute" ELSE "requeue"
       ELSE /\ unregister_task_alive("cmd")
            /\ tpc' = "execute"
    /\ UNCHANGED <<bFwCurrentInPSMode, cpwm_event, flags, semas, xmit, fw,
                   lost, stale, cmdobj, queue, cmdthd_running, pcmd, mutex,
                   rest, hist>>

Requeue_tail ==
    /\ tpc = "requeue" /\ tpc' = "sema"
    /\ queue' = Append(queue, pcmd)
    /\ st' = [st EXCEPT ![pcmd] = "queued"]
    /\ pcmd' = 0
    /\ UNCHANGED <<pwrvars, io, sctx, owner, n, cmdthd_running, mutex, rest,
                   hist>>

\* H2C_ENQ_HEAD: back to the head, and wait for the CPWM to up the semaphore.
Requeue ==
    /\ tpc = "requeue" /\ tpc' = "sema"
    /\ queue' = <<pcmd>> \o queue
    /\ st' = [st EXCEPT ![pcmd] = "queued"]
    /\ pcmd' = 0
    /\ UNCHANGED <<pwrvars, io, sctx, owner, n, cmdthd_running, mutex, rest,
                   hist>>

\* cmd_hdl returns.
Execute ==
    /\ tpc = "execute" /\ tpc' = "post"
    /\ UNCHANGED <<pwrvars, cmdobj, queue, cmdthd_running, pcmd, mutex, rest,
                   hist>>

Post_silent ==
    /\ tpc = "post" /\ ~mutex
    /\ mutex' = TRUE /\ tpc' = "null"
    /\ UNCHANGED <<pwrvars, cmdobj, queue, cmdthd_running, pcmd, client, intf,
                   hist>>

\* post_process, with sctx_mutex: rtw_sctx_done_err completes the context ...
Post ==
    /\ tpc = "post" /\ ~mutex
    /\ mutex' = TRUE /\ tpc' = "null"
    /\ status' = IF sctx[pcmd] THEN [status EXCEPT ![owner[pcmd]] = "done"]
                 ELSE status
    /\ UNCHANGED <<pwrvars, cmdobj, queue, cmdthd_running, pcmd, cpc, cur,
                   waits, intf, hist>>

\* ... and forgets it.
NullSctx ==
    /\ tpc = "null"
    /\ sctx' = [sctx EXCEPT ![pcmd] = FALSE]
    /\ mutex' = FALSE /\ tpc' = "free"
    /\ UNCHANGED <<pwrvars, st, io, owner, n, queue, cmdthd_running, pcmd,
                   rest, hist>>

\* The callback or the thread frees the command; on to _next, or to the next
\* one to drop if the thread is leaving.
rtw_free_cmd_obj ==
    /\ tpc = "free"
    /\ st' = [st EXCEPT ![pcmd] = "freed"]
    /\ finished' = Append(finished, pcmd)
    /\ pcmd' = 0
    /\ tpc' = IF cmdthd_running THEN "next" ELSE "drain"
    /\ UNCHANGED <<pwrvars, io, sctx, owner, n, queue, cmdthd_running, mutex,
                   rest, order>>

\* Leaving: rtw_unregister_cmd_alive ...
Leave ==
    /\ tpc = "leave" /\ tpc' = "clear"
    /\ unregister_task_alive("cmd")
    /\ UNCHANGED <<bFwCurrentInPSMode, cpwm_event, flags, semas, xmit, fw,
                   lost, stale, cmdobj, queue, cmdthd_running, pcmd, mutex,
                   rest, hist>>

\* ... no new commands from here on ...
ClearRunning ==
    /\ tpc = "clear" /\ tpc' = "drain"
    /\ cmdthd_running' = FALSE
    /\ UNCHANGED <<pwrvars, cmdobj, queue, pcmd, mutex, rest, hist>>

Drain_silent ==
    /\ tpc = "drain"
    /\ IF queue = <<>>
       THEN tpc' = "parked" /\ UNCHANGED <<pcmd, queue, st>>
       ELSE /\ tpc' = "free"
            /\ pcmd' = Head(queue) /\ queue' = Tail(queue)
            /\ st' = [st EXCEPT ![Head(queue)] = "taken"]
    /\ UNCHANGED <<pwrvars, io, sctx, owner, n, cmdthd_running, mutex, rest,
                   hist>>

\* ... report every queued one as dropped and free it, then wait for
\* kthread_stop.
Drain ==
    /\ tpc = "drain"
    /\ IF queue = <<>>
       THEN tpc' = "parked" /\ UNCHANGED <<pcmd, queue, st>>
       ELSE /\ tpc' = "post"
            /\ pcmd' = Head(queue) /\ queue' = Tail(queue)
            /\ st' = [st EXCEPT ![Head(queue)] = "taken"]
    /\ UNCHANGED <<pwrvars, io, sctx, owner, n, cmdthd_running, mutex, rest,
                   hist>>

-----------------------------------------------------------------------------
(* The interface                                                           *)

kept  == <<bFwCurrentInPSMode, rpwm, cpwm, alives, cpwm_event, xmit_sema, xmit,
           stale>>
power == <<kept, ackreq, fw, lost>>

\* rtw_dev_unload: rtw_set_drv_stopped.  The station has left LPS by then.
StopDriver ==
    /\ upc = "up" /\ stops < MaxStops /\ ~bFwCurrentInPSMode
    /\ stops' = stops + 1
    /\ bDriverStopped' = TRUE /\ upc' = "stopping"
    /\ UNCHANGED <<power, hw_init_completed, cmd_queue_sema, cmdobj, queue,
                   thread, client, hist>>

rtw_stop_cmd_thread_noup ==
    /\ upc = "stopping" /\ cmd_queue_sema < MaxSema
    /\ upc' = "joining"
    /\ cmd_queue_sema' = cmd_queue_sema
    /\ UNCHANGED <<power, flags, cmdobj, queue, thread, client, stops, hist>>

\* rtw_stop_cmd_thread: up, and then kthread_stop until the thread is gone.
rtw_stop_cmd_thread ==
    /\ upc = "stopping" /\ cmd_queue_sema < MaxSema
    /\ upc' = "joining"
    /\ cmd_queue_sema' = cmd_queue_sema + 1
    /\ UNCHANGED <<power, flags, cmdobj, queue, thread, client, stops, hist>>

\* kthread_stop returns, rtw_hal_deinit and rtw_set_surprise_removed.
ThreadStopped ==
    /\ upc = "joining" /\ tpc = "parked"
    /\ tpc' = "off" /\ upc' = "down"
    /\ rtw_hal_deinit
    /\ UNCHANGED <<kept, fw, bDriverStopped, cmd_queue_sema, cmdobj, queue,
                   cmdthd_running, pcmd, mutex, client, stops, hist>>

\* _netdev_open: rtw_hal_init and rtw_start_drv_threads, which waits until the
\* new thread runs.  Queue and semaphore are as they were left.
rtw_start_drv_threads ==
    /\ upc = "down" /\ tpc = "off"
    /\ rtw_hal_init /\ bDriverStopped' = FALSE
    /\ tpc' = "sema" /\ cmdthd_running' = TRUE
    /\ upc' = "up"
    /\ UNCHANGED <<kept, ackreq, lost, cmd_queue_sema, cmdobj, queue, pcmd,
                   mutex, client, stops, hist>>

\* Inactive power save: rtw_ps_processor, a command's handler, switches the
\* chip off (rtw_ips_pwr_down, rtw_hal_deinit) ...
IpsDown ==
    /\ Ips /\ upc = "up" /\ ~bFwCurrentInPSMode
    /\ tpc = "execute" /\ io[pcmd]
    /\ hw_init_completed /\ rtw_hal_deinit
    /\ UNCHANGED <<kept, fw, bDriverStopped, cmd_queue_sema, cmdobj, queue,
                   thread, client, intf, hist>>

\* ... and rtw_pwr_wakeup, in any context, switches it on again.
IpsUp ==
    /\ upc = "up" /\ ~hw_init_completed /\ rtw_hal_init
    /\ UNCHANGED <<kept, ackreq, lost, bDriverStopped, cmd_queue_sema, cmdobj,
                   queue, thread, client, intf, hist>>

-----------------------------------------------------------------------------
ClientStep(k) ==
    \/ _rtw_enqueue_cmd(k) \/ UpSema(k) \/ rtw_sctx_wait(k) \/ ClearSctx(k)

Thread ==
    \/ DownSema \/ Peek \/ Dequeue \/ WentEmpty \/ Filter \/ Alive \/ Requeue
    \/ Execute \/ Post \/ NullSctx \/ rtw_free_cmd_obj
    \/ Leave \/ ClearRunning \/ Drain

Interface ==
    \/ StopDriver \/ rtw_stop_cmd_thread \/ ThreadStopped
    \/ rtw_start_drv_threads \/ IpsDown \/ IpsUp

Next ==
    \/ PwrNext /\ UNCHANGED <<cmdobj, queue, thread, client, intf, hist>>
    \/ \E k \in Clients, needsIo, wait \in BOOLEAN : Submit(k, needsIo, wait)
    \/ \E k \in Clients : ClientStep(k)
    \/ Thread \/ Interrupted
    \/ Interface

Spec == Init /\ [][Next]_vars

cmdvars == <<cmdobj, queue, thread, client, intf, hist>>

\* Threads and work items run, a client goes on after its timeout, and the
\* firmware follows RPWM and answers; nobody need submit, stop or use LPS.
FairSpec ==
    /\ Spec
    /\ WF_vars(Thread)
    /\ WF_vars(rtw_stop_cmd_thread \/ ThreadStopped)
    /\ \A k \in Clients : WF_vars(ClientStep(k))
    /\ WF_vars((XmitTake \/ XmitDone) /\ UNCHANGED cmdvars)
    /\ WF_vars(cpwm_int_hdl /\ UNCHANGED cmdvars)
    /\ WF_vars(FwWake(TRUE) /\ UNCHANGED cmdvars)

-----------------------------------------------------------------------------
(* Properties                                                              *)

\* Every variable has its type.
TypeOK ==
    /\ PwrTypeOK
    /\ st \in [Cmds -> {"none", "made", "queued", "taken", "freed"}]
    /\ io \in [Cmds -> BOOLEAN] /\ sctx \in [Cmds -> BOOLEAN]
    /\ owner \in [Cmds -> Clients \cup {0}]
    /\ n \in 0 .. MaxCmds
    /\ queue \in Seq(Cmds)
    /\ cmdthd_running \in BOOLEAN
    /\ tpc \in {"sema", "peek", "next", "empty", "filter", "alive", "requeue",
               "execute", "post", "null", "free", "leave", "clear", "drain",
               "parked", "off"}
    /\ pcmd \in 0 .. MaxCmds
    /\ mutex \in BOOLEAN
    /\ cpc \in [Clients -> {"idle", "enqueue", "up", "wait", "check"}]
    /\ cur \in [Clients -> 0 .. MaxCmds]
    /\ waits \in [Clients -> BOOLEAN]
    /\ status \in [Clients -> {"none", "submitted", "done"}]
    /\ upc \in {"up", "stopping", "joining", "down"}
    /\ stops \in 0 .. MaxStops
    /\ order \in Seq(Cmds) /\ finished \in Seq(Cmds)

\* The thread never writes through a pointer into a stack frame that is gone:
\* a command that still points at a submit_ctx belongs to a client that is
\* still inside the call that submitted it.
SctxLive ==
    \A c \in Cmds : sctx[c] =>
        /\ cpc[owner[c]] # "idle"
        /\ cur[owner[c]] = c

\* And the client never writes into a command that has been freed: while it
\* sees its context not completed, its command has not been freed.
WaiterSafe ==
    \A k \in Clients :
        cpc[k] = "check" /\ ~mutex /\ status[k] = "submitted"
            => st[cur[k]] # "freed"

\* Commands leave in the order they came in, and none is lost or executed
\* twice, although one that meets a sleeping firmware goes back to the queue.
InHand == IF pcmd = 0 THEN <<>> ELSE <<pcmd>>

Fifo == order = finished \o InHand \o queue

\* The thread implements the queue that its callers see (CmdQueue): whatever
\* timeouts, requeues, drops and restarts do, an answer reaches the caller it is
\* for, once, while it is still in the call, and no command is freed under a
\* caller that waits.  A command is pending from its enqueueing until
\* rtw_free_cmd_obj.
Q == INSTANCE CmdQueue WITH
        pending  <- InHand \o queue,
        phase    <- [k \in Clients |-> CASE cpc[k] = "idle" -> "out"
                                         [] cpc[k] = "enqueue" -> "asking"
                                         [] OTHER -> "in"],
        cmd      <- cur,
        wants    <- waits,
        answered <- [k \in Clients |-> status[k] = "done"]

ImplementsQueue == Q!Spec

\* A command that needs the chip is running, or buffers are transmitted.
InUse == xbusy \/ (tpc = "execute" /\ io[pcmd])

\* While LPS is on, the chip is never used after the firmware was told to
\* sleep: rtw_register_cmd_alive returns _SUCCESS to "issue cmds to firmware
\* afterwards".  (Violated: a CPWM that is handled after LPS was entered again
\* makes the driver believe in a firmware it has just told to sleep.)
WakeAsked == bFwCurrentInPSMode /\ InUse => rpwm = "high"

\* While LPS is on, the chip is used only with the firmware awake, however the
\* two threads register and unregister and LPS and IPS are entered and left
\* under them, a lost CPWM included: unless LPS was entered while the answer
\* to an earlier wake-up was outstanding.
FirmwareAwake == bFwCurrentInPSMode /\ InUse /\ ~stale => fw = "awake"

\* Every queued command is executed and freed: no up of the semaphore gets
\* lost between the thread, the clients and the CPWM work item.  (If a CPWM is
\* lost the thread waits until LPS is left and another command ups it.)
CommandsFinish ==
    \A c \in Cmds : (st[c] = "queued") ~> (st[c] = "freed" \/ lost > 0)

\* Taking the interface down always ends.
StopEnds == (upc = "stopping") ~> (upc = "down")

=============================================================================
