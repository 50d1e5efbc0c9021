------------------------------ MODULE PwrCtrl ------------------------------
(***************************************************************************)
(* Leisure power save with clock gating in the RTL8189ES driver            *)
(* (core/rtw_pwrctrl.c): how the command thread and the transmit thread    *)
(* wake the firmware before they use it and let it sleep afterwards.       *)
(*                                                                         *)
(* The driver asks for a power level by writing RPWM; when it asks a       *)
(* sleeping firmware to wake, the firmware answers with a CPWM interrupt,  *)
(* which a work item turns into cpwm := S2 and into one up of the          *)
(* semaphore of each thread that registered itself as alive.  All of the   *)
(* driver's part runs under pwrpriv->lock, so each function is one step.   *)
(*                                                                         *)
(* S0 and S1 are "low", S2 to S4 "high": no branch of the code tells the   *)
(* members of a class apart, because no P2P power save is active.          *)
(***************************************************************************)
EXTENDS Integers

CONSTANTS
    Lps,        \* power_mgnt and lps_level let the driver use LPS_LCLK
    MaxLost,    \* bound: CPWM interrupts that never arrive
    MaxSema     \* bound on the semaphores

Tasks == {"cmd", "xmit"}

ASSUME PwrCtrlAssumption ==
    /\ Lps \in BOOLEAN
    /\ MaxLost \in Nat /\ MaxSema \in Nat \ {0}

VARIABLES
    bFwCurrentInPSMode, \* and pwr_mode # PS_MODE_ACTIVE; the lock joins them
    rpwm,               \* level last asked for: "low", "high", or 0 at first
    cpwm,               \* level the driver believes in: "low" or "high"
    alives,             \* CMD_ALIVE, XMIT_ALIVE
    cpwm_event,         \* is the work item of the CPWM interrupt queued?
    hw_init_completed,
    bDriverStopped,
    cmd_queue_sema, xmit_sema,
    xpending,           \* transmit buffers wait for the transmit thread
    xbusy,              \* the transmit thread writes them to the chip
    fw,                 \* firmware: "awake" or "asleep"
    ackreq,             \* firmware: the last RPWM asked for an answer
    lost,               \* CPWM interrupts lost so far
    stale               \* history: LPS was entered while the answer to an
                        \* earlier wake-up was still to come or to be handled,
                        \* and not entered at a low level without one since

level  == <<rpwm, cpwm, ackreq>>
flags  == <<hw_init_completed, bDriverStopped>>
semas  == <<cmd_queue_sema, xmit_sema>>
xmit   == <<xpending, xbusy>>
pwrvars == <<bFwCurrentInPSMode, level, alives, cpwm_event, flags, semas, xmit,
             fw, lost, stale>>

\* rtw_init_pwrctrl_priv
PwrInit ==
    /\ bFwCurrentInPSMode = FALSE
    /\ rpwm = "zero" /\ cpwm = "high" /\ ackreq = FALSE
    /\ alives = {} /\ cpwm_event = FALSE
    /\ hw_init_completed = TRUE /\ bDriverStopped = FALSE
    /\ cmd_queue_sema = 0 /\ xmit_sema = 0
    /\ xpending = FALSE /\ xbusy = FALSE
    /\ fw = "awake" /\ lost = 0 /\ stale = FALSE

-----------------------------------------------------------------------------
(* Steps of the driver under pwrpriv->lock                                 *)

\* Ask for a level: nothing to do, no hardware, no more sleeping once the
\* driver stops, or a write.  Only the way up from low is answered.
rtw_set_rpwm(pslv) ==
    \/ /\ rpwm = pslv
       /\ UNCHANGED level
    \/ /\ rpwm # pslv /\ ~hw_init_completed
       /\ cpwm' = "high"
       /\ UNCHANGED <<rpwm, ackreq>>
    \/ /\ rpwm # pslv /\ hw_init_completed /\ bDriverStopped /\ pslv = "low"
       /\ UNCHANGED level
    \/ /\ rpwm # pslv /\ hw_init_completed
       /\ ~(bDriverStopped /\ pslv = "low")
       /\ rpwm' = pslv
       /\ ackreq' = (cpwm = "low" /\ pslv = "high")
       /\ cpwm' = IF ackreq' THEN cpwm ELSE pslv

\* rtw_register_cmd_alive and rtw_register_tx_alive; _SUCCESS is Usable.
Usable == ~bFwCurrentInPSMode \/ cpwm = "high"

register_task_alive(t) ==
    /\ alives' = alives \cup {t}
    /\ IF ~Usable /\ rpwm # "high"
       THEN rtw_set_rpwm("high")
       ELSE UNCHANGED level

\* rtw_unregister_cmd_alive and rtw_unregister_tx_alive: the last one out lets
\* the firmware sleep.
unregister_task_alive_early(t) ==
    /\ alives' = alives \ {t}
    /\ IF bFwCurrentInPSMode /\ cpwm = "high"
       THEN rtw_set_rpwm("low")
       ELSE UNCHANGED level

unregister_task_alive(t) ==
    /\ alives' = alives \ {t}
    /\ IF bFwCurrentInPSMode /\ cpwm = "high" /\ alives' = {}
       THEN rtw_set_rpwm("low")
       ELSE UNCHANGED level

\* rtw_set_ps_mode, called from LPS_Enter (any context) ...
EnterLps ==
    /\ Lps /\ ~bDriverStopped /\ hw_init_completed
    /\ ~bFwCurrentInPSMode
    /\ bFwCurrentInPSMode' = TRUE
    /\ rtw_set_rpwm(IF alives = {} THEN "low" ELSE "high")
    /\ stale' = (ackreq \/ cpwm_event \/ (stale /\ rpwm' = "high"))
    /\ UNCHANGED <<alives, cpwm_event, flags, semas, xmit, fw, lost>>

\* ... and from LPS_Leave, which polls the chip for at most 50 ms
\* (rtw_lps_state_chk) and goes on whatever it saw: it does not wait for the
\* CPWM.
LeaveLps ==
    /\ bFwCurrentInPSMode
    /\ bFwCurrentInPSMode' = FALSE
    /\ rtw_set_rpwm("high")
    /\ UNCHANGED <<alives, cpwm_event, flags, semas, xmit, fw, lost, stale>>

\* cpwm_event_callback and cpwm_int_hdl: believe the firmware awake and wake
\* the threads that wait for it.  A semaphore at its bound stays there: its
\* thread has passes enough to make.
UpIfAlive(sema, t) ==
    IF t \in alives /\ ~bDriverStopped /\ sema < MaxSema THEN sema + 1 ELSE sema

cpwm_int_hdl_onlyxmit ==
    /\ cpwm_event /\ cpwm_event' = FALSE
    /\ cpwm' = IF bDriverStopped THEN cpwm ELSE "high"
    /\ cmd_queue_sema' = cmd_queue_sema
    /\ xmit_sema' = UpIfAlive(xmit_sema, "xmit")
    /\ UNCHANGED <<bFwCurrentInPSMode, rpwm, ackreq, alives, flags, xmit, fw,
                   lost, stale>>

cpwm_int_hdl ==
    /\ cpwm_event /\ cpwm_event' = FALSE
    /\ cpwm' = IF bDriverStopped THEN cpwm ELSE "high"
    /\ cmd_queue_sema' = UpIfAlive(cmd_queue_sema, "cmd")
    /\ xmit_sema' = UpIfAlive(xmit_sema, "xmit")
    /\ UNCHANGED <<bFwCurrentInPSMode, rpwm, ackreq, alives, flags, xmit, fw,
                   lost, stale>>

\* The chip is switched on, which starts its firmware, ...
rtw_hal_init == hw_init_completed' = TRUE /\ fw' = "awake"

\* ... and off: an answer it owes is lost.
rtw_hal_deinit ==
    /\ hw_init_completed' = FALSE
    /\ ackreq => lost < MaxLost
    /\ ackreq' = FALSE
    /\ lost' = IF ackreq THEN lost + 1 ELSE lost

-----------------------------------------------------------------------------
(* The transmit thread                                                     *)

\* enqueue_pending_xmitbuf
XmitEnqueue ==
    /\ Lps /\ ~xpending /\ xmit_sema < MaxSema
    /\ xpending' = TRUE
    /\ xmit_sema' = xmit_sema + 1
    /\ UNCHANGED <<bFwCurrentInPSMode, level, alives, cpwm_event, flags,
                   cmd_queue_sema, xbusy, fw, lost, stale>>

\* rtl8188es_xmit_buf_handler: down, and if buffers wait, register; a refusal
\* ends this pass and the next up starts another.
XmitTake ==
    /\ ~xbusy /\ xmit_sema > 0
    /\ xmit_sema' = xmit_sema - 1
    /\ IF xpending /\ ~bDriverStopped
       THEN register_task_alive("xmit") /\ xbusy' = Usable
       ELSE UNCHANGED <<alives, level, xbusy>>
    /\ UNCHANGED <<bFwCurrentInPSMode, cpwm_event, flags, cmd_queue_sema,
                   xpending, fw, lost, stale>>

XmitDone ==
    /\ xbusy /\ xbusy' = FALSE
    /\ xpending' = FALSE
    /\ unregister_task_alive("xmit")
    /\ UNCHANGED <<bFwCurrentInPSMode, cpwm_event, flags, semas, fw, lost,
                   stale>>

-----------------------------------------------------------------------------
(* The firmware (external)                                                 *)

\* It follows what RPWM says, in its own time ...
FwSleep ==
    /\ rpwm = "low" /\ fw = "awake"
    /\ fw' = "asleep"
    /\ UNCHANGED <<bFwCurrentInPSMode, level, alives, cpwm_event, flags, semas,
                   xmit, lost, stale>>

\* ... and answers a wake-up that asked for it.  The answer can get lost.
FwWake(heard) ==
    /\ rpwm = "high" /\ (fw = "asleep" \/ ackreq)
    /\ ~heard => ackreq /\ lost < MaxLost
    /\ fw' = "awake" /\ ackreq' = FALSE
    /\ cpwm_event' = (cpwm_event \/ (ackreq /\ heard))
    /\ lost' = IF heard THEN lost ELSE lost + 1
    /\ UNCHANGED <<bFwCurrentInPSMode, rpwm, cpwm, alives, flags, semas, xmit,
                   stale>>

-----------------------------------------------------------------------------
PwrNext ==
    \/ EnterLps \/ LeaveLps \/ cpwm_int_hdl
    \/ XmitEnqueue \/ XmitTake \/ XmitDone
    \/ FwSleep
    \/ \E heard \in BOOLEAN : FwWake(heard)

PwrTypeOK ==
    /\ bFwCurrentInPSMode \in BOOLEAN
    /\ rpwm \in {"zero", "low", "high"}
    /\ cpwm \in {"low", "high"}
    /\ alives \subseteq Tasks
    /\ cpwm_event \in BOOLEAN
    /\ hw_init_completed \in BOOLEAN /\ bDriverStopped \in BOOLEAN
    /\ cmd_queue_sema \in Nat /\ xmit_sema \in 0 .. MaxSema
    /\ xpending \in BOOLEAN /\ xbusy \in BOOLEAN
    /\ fw \in {"awake", "asleep"}
    /\ ackreq \in BOOLEAN
    /\ lost \in 0 .. MaxLost
    /\ stale \in BOOLEAN
=============================================================================
