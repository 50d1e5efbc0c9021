---------------------------- MODULE RecvReorder ----------------------------
(***************************************************************************)
(* The A-MPDU receive reordering buffer of the RTL8189ES driver, for one   *)
(* station and one TID (core/rtw_recv.c, struct recv_reorder_ctrl).        *)
(*                                                                         *)
(* Three contexts share the buffer: the receive path, which handles one    *)
(* frame after another; the kernel timer that gives up on missing frames;  *)
(* and the command thread, which answers ADDBA requests, ends sessions and *)
(* frees stations.  Only the pending list is locked: enable, indicate_seq  *)
(* and rec_abba_rsp_ack are also written without the lock.                 *)
(*                                                                         *)
(* The peer is external.  It numbers its frames 0, 1, 2, ...; a frame      *)
(* carries its number modulo the sequence space.  The pending list holds   *)
(* the numbers, and the driver's code looks only at SN of them.            *)
(***************************************************************************)
EXTENDS Integers, Sequences, FiniteSets

CONSTANTS
    M,          \* sequence numbers, 4096 in the code
    W,          \* wsize_b, 64 in the code, and the peer's transmit window
    Start,      \* number of the peer's first frame
    Last,       \* bound: number of the peer's last frame
    Gap,        \* bound: frames in a row that the peer gives up on
    MaxInputs,  \* bound: frames received, ADDBA requests and Events
    Events      \* what may happen besides frames and ADDBA, see AllEvents

\* bar: block-ack requests; delba: a session ends; rejoin: a second join to the
\* same access point; free: the station is freed; early: the peer uses a session
\* before the driver has switched it on.
AllEvents == {"bar", "delba", "rejoin", "free", "early"}

ASSUME RecvReorderAssumption ==
    /\ M \in Nat /\ M % 2 = 0
    /\ W \in Nat \ {0}
    /\ Gap \in Nat /\ MaxInputs \in Nat
    /\ 2 * W + Gap <= M \div 2
    /\ Start \in Nat /\ Last \in Nat
    /\ Events \subseteq AllEvents

Unset == 16 * M - 1         \* 0xFFFF, which is no sequence number

VARIABLES
    una,                \* peer: the oldest frame it may still (re)transmit
    peerBA,             \* peer: it has a block-ack session, so may aggregate
    top,                \* history: highest frame number received
    indicate_seq,       \* WinStart, a sequence number or Unset
    enable,             \* the session is on
    rec_abba_rsp_ack,   \* bit RTW_RECV_ACK_OR_TIMEOUT
    bReorderWaiting,
    pending,            \* pending_recvframe_queue
    timer,              \* is reordering_ctrl_timer armed?
    handler,            \* is its handler running, before it has the lock?
    rpc, rxf, rxseq,    \* receive path: program point, frame, tid_rxseq
    addba,              \* command thread: ADDBA response sent, not yet applied
    sta,                \* station: "used", "freeing", "free"
    log,                \* history: frames passed to recv_process_mpdu
    inputs,             \* inputs so far, see MaxInputs
    loss                \* dbg_rx_ampdu_loss_count; below 0: it wrapped

peer  == <<una, peerBA>>
ctrl  == <<indicate_seq, enable, rec_abba_rsp_ack, bReorderWaiting, pending>>
tmr   == <<timer, handler>>
recv  == <<rpc, rxf, rxseq>>
vars  == <<peer, top, ctrl, tmr, recv, addba, sta, log, loss, inputs>>

-----------------------------------------------------------------------------
(* Sequence number arithmetic                                              *)

SN(n) == n % M

Minus(a, b) == IF a >= b THEN a - b ELSE a - b + M

SN_LESS(a, b) == Minus(a, b) >= M \div 2

Next_seq(s) == IF s + 1 = M THEN 0 ELSE s + 1

Input == inputs < MaxInputs /\ inputs' = inputs + 1

Init ==
    /\ una = Start /\ peerBA = FALSE /\ top = Start - 1
    /\ indicate_seq = Unset /\ enable = FALSE /\ rec_abba_rsp_ack = FALSE
    /\ bReorderWaiting = FALSE /\ pending = <<>>
    /\ timer = FALSE /\ handler = FALSE
    /\ rpc = "idle" /\ rxf = Start /\ rxseq = Unset
    /\ addba = "none"
    /\ sta = "used"
    /\ log = <<>> /\ loss = 0 /\ inputs = 0

-----------------------------------------------------------------------------
(* The peer (external)                                                     *)

\* What the peer may transmit now: one frame at a time until it has a
\* block-ack session, then any frame of its window, in any order.
Sendable == IF peerBA THEN una .. una + W - 1 ELSE {una}

\* The oldest frame was acknowledged, or the peer gives up on it.
PeerAdvances ==
    /\ una < Last
    /\ una <= top + Gap
    /\ una' = una + 1
    /\ UNCHANGED <<peerBA, top, ctrl, tmr, recv, addba, sta, log, loss, inputs>>

-----------------------------------------------------------------------------
(* The receive path                                                        *)

\* validate_recv_data_frame: find the station, drop a repetition of the last
\* frame (recv_decache) and point the frame at the station's reorder_ctrl.
RxFrame(n) ==
    /\ Input
    /\ rpc = "idle" /\ sta = "used"
    /\ n \in Sendable /\ n <= Last
    /\ SN(n) # rxseq
    /\ rxseq' = SN(n)
    /\ rxf' = n /\ rpc' = "post"
    /\ top' = IF n > top THEN n ELSE top
    /\ UNCHANGED <<peer, ctrl, tmr, addba, sta, log, loss>>

\* recv_func_posthandle, first look at enable, outside the lock.
RxCheckEnable ==
    /\ rpc = "post"
    /\ rpc' = IF enable THEN "reorder" ELSE "direct"
    /\ UNCHANGED <<peer, top, ctrl, tmr, rxf, rxseq, addba, sta, log, loss, inputs>>

\* No session: recv_set_iseq_before_mpdu_process, then recv_process_mpdu ...
RxDirect ==
    /\ rpc = "direct"
    /\ indicate_seq' = SN(rxf)
    /\ log' = Append(log, rxf)
    /\ rpc' = "after"
    /\ UNCHANGED <<peer, top, enable, rec_abba_rsp_ack, bReorderWaiting,
                   pending, tmr, rxf, rxseq, addba, sta, loss, inputs>>

\* ... and recv_set_iseq_after_mpdu_process, none of it under the lock.
RxDirectDone ==
    /\ rpc = "after"
    /\ indicate_seq' = (indicate_seq + 1) % M
    /\ rpc' = "idle"
    /\ UNCHANGED <<peer, top, enable, rec_abba_rsp_ack, bReorderWaiting,
                   pending, tmr, rxf, rxseq, addba, sta, log, loss, inputs>>

\* check_indicate_seq: WinStart w after frame s.  A frame behind the window
\* is refused; one beyond its end drags the window along.
Behind_unsigned(s, w) == s < w

Behind(s, w) == SN_LESS(s, w)

check_indicate_seq_nowrap(s, w) ==
    CASE s = w                                  -> w + 1
      [] s # w /\ SN_LESS((w + W - 1) % M, s)   -> Minus(s, W - 1)
      [] OTHER                                  -> w

check_indicate_seq_wide(s, w) ==
    CASE s = w                                  -> Next_seq(w)
      [] s # w /\ SN_LESS((w + W) % M, s)       -> Minus(s, W - 1)
      [] OTHER                                  -> w

check_indicate_seq(s, w) ==
    CASE s = w                                  -> Next_seq(w)
      [] s # w /\ SN_LESS((w + W - 1) % M, s)   -> Minus(s, W - 1)
      [] OTHER                                  -> w

\* enqueue_reorder_recvframe: how many pending frames stay before frame n, and
\* is a frame with its sequence number already there?
Before(q, n) ==
    CHOOSE k \in 0 .. Len(q) :
        /\ \A i \in 1 .. k : SN_LESS(SN(q[i]), SN(n))
        /\ k < Len(q) => ~SN_LESS(SN(q[k + 1]), SN(n))

Duplicate(q, n) ==
    Before(q, n) < Len(q) /\ SN(q[Before(q, n) + 1]) = SN(n)

Inserted_tail(q, n) == Append(q, n)

Inserted(q, n) ==
    SubSeq(q, 1, Before(q, n)) \o <<n>> \o SubSeq(q, Before(q, n) + 1, Len(q))

\* recv_indicatepkts_in_order, the loop: WinStart after the first i frames of
\* q were indicated, and how many frames the loop indicates.
WinAfter(q, w) ==
    LET win[i \in 0 .. Len(q)] ==
          IF i = 0 THEN w
          ELSE IF win[i - 1] = SN(q[i]) THEN Next_seq(win[i - 1])
          ELSE win[i - 1]
    IN  win

Indicated(q, w) ==
    CHOOSE k \in 0 .. Len(q) :
        /\ \A i \in 1 .. k : ~SN_LESS(WinAfter(q, w)[i - 1], SN(q[i]))
        /\ k < Len(q) => SN_LESS(WinAfter(q, w)[k], SN(q[k + 1]))

recv_indicatepkts_in_order(q, w) ==
    LET k == Indicated(q, w) IN
    /\ log' = log \o SubSeq(q, 1, k)
    /\ pending' = SubSeq(q, k + 1, Len(q))
    /\ indicate_seq' = WinAfter(q, w)[k]

\* recv_indicatepkt_reorder, the part under the lock.  An emptied list leaves
\* the timer to be cancelled after the lock is released.
RxReorder_rearm ==
    /\ rpc = "reorder"
    /\ LET s == SN(rxf)
           w == IF rec_abba_rsp_ack \/ indicate_seq = Unset
                THEN s ELSE indicate_seq
           v == check_indicate_seq(s, w)
       IN
         \/ /\ Behind(s, w)
            /\ indicate_seq' = w
            /\ rpc' = "idle"
            /\ UNCHANGED <<bReorderWaiting, pending, timer, log>>
         \/ /\ ~Behind(s, w) /\ Duplicate(pending, rxf)
            /\ indicate_seq' = v
            /\ rpc' = "idle"
            /\ UNCHANGED <<bReorderWaiting, pending, timer, log>>
         \/ /\ ~Behind(s, w) /\ ~Duplicate(pending, rxf)
            /\ recv_indicatepkts_in_order(Inserted(pending, rxf), v)
            /\ bReorderWaiting' = (pending' # <<>>)
            /\ timer' = timer
            /\ rpc' = IF pending' # <<>> THEN "idle" ELSE "cancel"
    /\ rec_abba_rsp_ack' = FALSE
    /\ UNCHANGED <<peer, top, enable, handler, rxf, rxseq, addba, sta, loss, inputs>>

RxReorder ==
    /\ rpc = "reorder"
    /\ LET s == SN(rxf)
           w == IF rec_abba_rsp_ack \/ indicate_seq = Unset
                THEN s ELSE indicate_seq
           v == check_indicate_seq(s, w)
       IN
         \/ /\ Behind(s, w)
            /\ indicate_seq' = w
            /\ rpc' = "idle"
            /\ UNCHANGED <<bReorderWaiting, pending, timer, log>>
         \/ /\ ~Behind(s, w) /\ Duplicate(pending, rxf)
            /\ indicate_seq' = v
            /\ rpc' = "idle"
            /\ UNCHANGED <<bReorderWaiting, pending, timer, log>>
         \/ /\ ~Behind(s, w) /\ ~Duplicate(pending, rxf)
            /\ recv_indicatepkts_in_order(Inserted(pending, rxf), v)
            /\ bReorderWaiting' = (pending' # <<>>)
            /\ timer' = (timer \/ (pending' # <<>> /\ ~bReorderWaiting))
            /\ rpc' = IF pending' # <<>> THEN "idle" ELSE "cancel"
    /\ rec_abba_rsp_ack' = FALSE
    /\ UNCHANGED <<peer, top, enable, handler, rxf, rxseq, addba, sta, loss, inputs>>

\* _cancel_timer_ex deletes the timer and waits for a running handler.
RxCancelTimer ==
    /\ rpc = "cancel" /\ ~handler
    /\ timer' = FALSE
    /\ rpc' = "idle"
    /\ UNCHANGED <<peer, top, ctrl, handler, rxf, rxseq, addba, sta, log, loss, inputs>>

\* rtw_process_bar_frame: a block-ack request moves WinStart, without the lock.
rtw_process_bar_frame ==
    /\ Input
    /\ "bar" \in Events /\ peerBA
    /\ rpc = "idle" /\ sta = "used"
    /\ indicate_seq' = SN(una)
    /\ UNCHANGED <<peer, top, enable, rec_abba_rsp_ack, bReorderWaiting,
                   pending, tmr, recv, addba, sta, log, loss>>

\* OnAction_back, DELBA from the originator, which may be lost.
OnDelba(heard) ==
    /\ Input
    /\ "delba" \in Events /\ peerBA
    /\ rpc = "idle" /\ sta = "used"
    /\ peerBA' = FALSE
    /\ enable' = (enable /\ ~heard)
    /\ UNCHANGED <<una, top, indicate_seq, rec_abba_rsp_ack, bReorderWaiting,
                   pending, tmr, recv, addba, sta, log, loss>>

-----------------------------------------------------------------------------
(* The timer                                                               *)

TimerFires ==
    /\ timer /\ ~handler
    /\ timer' = FALSE /\ handler' = TRUE
    /\ UNCHANGED <<peer, top, ctrl, recv, addba, sta, log, loss, inputs>>

\* recv_indicatepkts_pkt_loss_cnt
Lost_nowrap(prev, cur) == cur - prev

Lost(prev, cur) == IF cur < prev THEN M + cur - prev ELSE cur - prev

\* rtw_reordering_ctrl_timeout_handler: skip to the first pending frame, and
\* arm the timer again if frames remain -- or if there was none at all.  (It
\* returns at once when the driver is stopped, RTW_CANNOT_RUN; here it never is.)
timeout_handler ==
    /\ handler /\ handler' = FALSE
    /\ bReorderWaiting' = FALSE
    /\ IF pending = <<>>
       THEN timer' = TRUE /\ UNCHANGED <<indicate_seq, pending, log, loss>>
       ELSE /\ recv_indicatepkts_in_order(pending, SN(pending[1]))
            /\ loss' = loss + Lost(indicate_seq, SN(pending[1]))
            /\ timer' = (timer \/ pending' # <<>>)
    /\ UNCHANGED <<peer, top, enable, rec_abba_rsp_ack, recv, addba, sta, inputs>>

-----------------------------------------------------------------------------
(* The command thread                                                      *)

\* add_ba_rsp_hdl: the response is on the air and its ack awaited; the peer
\* may have it and, if "early", may use the session before the code goes on.
issue_addba_rsp(accept, acked) ==
    /\ Input
    /\ addba = "none" /\ sta = "used"
    /\ ~peerBA
    /\ accept \/ ~enable \/ "delba" \in Events
    /\ addba' = IF ~accept THEN "reject" ELSE IF acked THEN "accept" ELSE "unheard"
    /\ peerBA' = (accept /\ acked /\ "early" \in Events)
    /\ UNCHANGED <<una, top, ctrl, tmr, recv, sta, log, loss>>

\* The rest of add_ba_rsp_hdl: WinStart is to follow the next frame.
add_ba_rsp_hdl ==
    /\ addba # "none" /\ sta = "used"
    /\ rec_abba_rsp_ack' = TRUE
    /\ enable' = (addba # "reject")
    /\ peerBA' = (peerBA \/ addba = "accept")
    /\ addba' = "none"
    /\ UNCHANGED <<una, top, indicate_seq, bReorderWaiting, pending, tmr, recv,
                   sta, log, loss, inputs>>

\* _send_delba_sta_tid and rtw_delba_check; the peer may miss the DELBA.
send_delba_sta_tid(heard) ==
    /\ Input
    /\ "delba" \in Events
    /\ sta = "used" /\ addba = "none" /\ enable
    /\ enable' = FALSE
    /\ peerBA' = (peerBA /\ ~heard)
    /\ UNCHANGED <<una, top, indicate_seq, rec_abba_rsp_ack, bReorderWaiting,
                   pending, tmr, recv, addba, sta, log, loss>>

\* rtw_joinbss_update_stainfo finds the station still there (a join to the
\* same access point) and starts over without emptying the list.
rtw_joinbss_update_stainfo ==
    /\ Input
    /\ "rejoin" \in Events
    /\ sta = "used" /\ addba = "none"
    /\ enable' = FALSE /\ indicate_seq' = Unset /\ rec_abba_rsp_ack' = FALSE
    /\ peerBA' = FALSE
    /\ UNCHANGED <<una, top, bReorderWaiting, pending, tmr, recv, addba, sta,
                   log, loss>>

\* rtw_free_stainfo: unhash the station, clear the bit, cancel the timer ...
FreeCancel ==
    /\ Input
    /\ "free" \in Events
    /\ sta = "used" /\ addba = "none" /\ ~handler
    /\ sta' = "freeing"
    /\ rec_abba_rsp_ack' = FALSE
    /\ timer' = FALSE
    /\ peerBA' = FALSE
    /\ UNCHANGED <<una, top, indicate_seq, enable, bReorderWaiting, pending,
                   handler, recv, addba, log, loss>>

\* ... and drop the pending frames under the lock.
FreePending ==
    /\ sta = "freeing"
    /\ sta' = "free"
    /\ pending' = <<>>
    /\ UNCHANGED <<peer, top, indicate_seq, enable, rec_abba_rsp_ack,
                   bReorderWaiting, tmr, recv, addba, log, loss, inputs>>

\* rtw_alloc_stainfo: the same structure is used for a new station.
rtw_alloc_stainfo ==
    /\ sta = "free"
    /\ sta' = "used"
    /\ indicate_seq' = Unset /\ enable' = FALSE /\ rec_abba_rsp_ack' = FALSE
    /\ bReorderWaiting' = FALSE /\ pending' = <<>>
    /\ timer' = FALSE /\ handler' = FALSE
    /\ rxseq' = Unset
    /\ UNCHANGED <<peer, top, rpc, rxf, addba, log, loss, inputs>>

-----------------------------------------------------------------------------
Receive ==
    \/ RxCheckEnable \/ RxDirect \/ RxDirectDone \/ RxReorder \/ RxCancelTimer

Command ==
    \/ \E accept, acked \in BOOLEAN : issue_addba_rsp(accept, acked)
    \/ add_ba_rsp_hdl
    \/ \E heard \in BOOLEAN : send_delba_sta_tid(heard)
    \/ rtw_joinbss_update_stainfo
    \/ FreeCancel \/ FreePending \/ rtw_alloc_stainfo

Next ==
    \/ PeerAdvances
    \/ \E n \in una .. una + W - 1 : RxFrame(n)
    \/ rtw_process_bar_frame
    \/ \E heard \in BOOLEAN : OnDelba(heard)
    \/ Receive
    \/ TimerFires \/ timeout_handler
    \/ Command

Spec == Init /\ [][Next]_vars

\* The tasklet finishes the frame it has, and an armed timer expires and its
\* handler runs; the peer and the command thread owe nothing.
FairSpec ==
    Spec /\ WF_vars(Receive) /\ WF_vars(TimerFires) /\ WF_vars(timeout_handler)

-----------------------------------------------------------------------------
(* Properties                                                              *)

\* Every variable has its type; indicate_seq is a sequence number or 0xFFFF.
TypeOK ==
    /\ una \in Nat /\ top \in Int
    /\ peerBA \in BOOLEAN /\ enable \in BOOLEAN /\ bReorderWaiting \in BOOLEAN
    /\ rec_abba_rsp_ack \in BOOLEAN
    /\ timer \in BOOLEAN /\ handler \in BOOLEAN
    /\ indicate_seq \in (0 .. M - 1) \cup {Unset}
    /\ rxseq \in (0 .. M - 1) \cup {Unset}
    /\ pending \in Seq(Nat) /\ log \in Seq(Nat)
    /\ rpc \in {"idle", "post", "reorder", "direct", "after", "cancel"}
    /\ rxf \in Nat
    /\ addba \in {"none", "accept", "unheard", "reject"}
    /\ sta \in {"used", "freeing", "free"}
    /\ loss \in Int /\ inputs \in Nat

\* Frames reach the network stack in the order the peer numbered them, each
\* once, whatever the order they are received in and wherever the sequence
\* numbers wrap.
InOrder == \A i \in 1 .. Len(log) - 1 : log[i] < log[i + 1]

\* A frame is never stuck: while frames are pending the timer is armed or its
\* handler is about to run, whoever handled the last frame and however the
\* lock-free cancellation fell.
PendingGuarded == sta = "used" /\ pending # <<>> => timer \/ handler

\* The list is sorted and inside the window: every pending frame is ahead of
\* WinStart, by less than the window, and later than the frame before it.
PendingInWindow ==
    \A i \in 1 .. Len(pending) :
        /\ Minus(SN(pending[i]), indicate_seq) \in 1 .. W - 1
        /\ i > 1 => pending[i - 1] < pending[i]

\* The receive path refuses a frame only when it is stale: already passed on,
\* already pending, or so old that the window has left it behind.
DroppedIsStale ==
    [][RxReorder /\ rxf \notin {log'[i] : i \in 1 .. Len(log')}
                 /\ rxf \notin {pending'[i] : i \in 1 .. Len(pending')}
        => \/ rxf + W <= top
           \/ \E i \in 1 .. Len(log) : rxf < log[i]]_vars

\* The loss counter reports no more than the frames that really are missing.
LossBounded ==
    loss \in 0 .. Cardinality({n \in Start .. top :
                     /\ n \notin {log[i] : i \in 1 .. Len(log)}
                     /\ n \notin {pending[i] : i \in 1 .. Len(pending)}})

\* Every pending frame is eventually passed on, unless its station is freed:
\* whatever moved the window or ended the session under it.
PendingLeaves ==
    \A n \in Start .. Last :
        (n \in {pending[i] : i \in 1 .. Len(pending)})
            ~> (n \notin {pending[i] : i \in 1 .. Len(pending)} \/ sta # "used")
=============================================================================
