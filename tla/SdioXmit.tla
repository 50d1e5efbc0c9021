----------------------------- MODULE SdioXmit ------------------------------
(***************************************************************************)
(* The SDIO transmit path of the RTL8189ES driver, from the network stack  *)
(* to the chip's FIFO (core/rtw_xmit.c, os_dep/linux/xmit_linux.c and      *)
(* hal/rtl8188e/sdio/rtl8189es_xmit.c).                                    *)
(*                                                                         *)
(*   stack --_rtw_xmit_entry--> sta_pending --RTWHALXT thread--> pending   *)
(*   transmit buffers --RTW_XMIT_THREAD--> chip                            *)
(*                                                                         *)
(* A packet of the stack occupies one xmit_frame of a fixed pool until it  *)
(* is copied into a transmit buffer; the first frame of a buffer is kept   *)
(* until the buffer is full.  The RTWHALXT thread, "the aggregator", fills *)
(* buffers of a second pool under pxmitpriv->lock; the RTW_XMIT_THREAD,    *)
(* "the writer", writes them when the chip has pages.  Three semaphores    *)
(* and one interrupt keep the three running: what can go wrong is a lost   *)
(* wake-up, a lost frame, a wrong count.                                   *)
(*                                                                         *)
(* Every data and management frame takes one page.  A packet is its        *)
(* station and its number among those of its station and access category.  *)
(***************************************************************************)
EXTENDS Integers, Sequences, FiniteSets, SequencesExt

CONSTANTS
    Stations,
    Acs,            \* access categories in the order of hwxmits
    NrFrame,        \* NR_XMITFRAME
    NrBuf,          \* NR_XMITBUFF
    NrExt,          \* NR_XMIT_EXTBUFF
    StopAt,         \* a subqueue stops when this few frames are free (4)
    DedicatedPages, \* of each queue of the chip's FIFO
    PublicPages,    \* that all of them share
    DivNum,         \* SDIO_TX_DIV_NUM
    OqtMax,         \* SdioTxOQTMaxFreeSpace
    Busy,           \* LinkDetectInfo.bHigherBusyTxTraffic
    WaitBelow,      \* wait for more frames when fewer than this are queued (5)
    Lps,            \* may the firmware sleep?
    MaxPkt,         \* bound: packets of an access category
    MaxMgnt,        \* bound: management frames
    MaxScan,        \* bound: scans
    MaxFree,        \* bound: stations freed
    Unload          \* may the driver be unloaded?

PageQueues == {"H", "M", "L"}

\* Hal_MappingOutPipe with three pipes: VO and management high, VI middle.
PageIdx == [vo |-> "H", vi |-> "M", be |-> "L", bk |-> "L", mgnt |-> "H"]

\* rtw_hal_set_sdio_tx_max_length: what one transmit buffer may hold; also the
\* threshold of the interrupt.
MaxPages == (DedicatedPages + PublicPages) \div DivNum

ASSUME SdioXmitAssumption ==
    /\ IsFiniteSet(Stations) /\ "none" \notin Stations
    /\ Acs \in Seq({"vo", "vi", "be", "bk"}) /\ Acs # <<>>
    /\ NrFrame \in Nat \ {0} /\ NrBuf \in Nat \ {0} /\ NrExt \in Nat
    /\ StopAt \in Nat
    /\ DedicatedPages \in Nat /\ PublicPages \in Nat
    /\ DivNum \in Nat \ {0} /\ MaxPages >= 1
    /\ OqtMax \in Nat /\ OqtMax >= 2
    /\ Busy \in BOOLEAN /\ Lps \in BOOLEAN /\ Unload \in BOOLEAN
    /\ WaitBelow \in Nat /\ MaxPkt \in Nat /\ MaxMgnt \in Nat
    /\ MaxScan \in Nat /\ MaxFree \in Nat

VARIABLES
    (* stations and frames *)
    linked,             \* in the hash table and _FW_LINKED
    sta_queue,          \* of each hwxmit: stations with frames, in turn
    sta_pending,        \* of each category and station: numbers of packets
    free_xmitframe_cnt,
    entry,              \* of each subqueue: station of the packet in rtw_xmit
    stopped,            \* netif subqueues that are stopped
    npkt,               \* packets that entered sta_pending so far
    (* buffers *)
    free_xmitbuf_cnt, free_xmit_extbuf_cnt,
    pending_xmitbuf_queue,
    SdioXmitSema, xmit_sema, sdio_free_xmitbuf_sema,
    (* the aggregator *)
    apc, aidx, ret,     \* where it is, the category it serves, xmit_xmitframes'
                        \* err
    todo, single,       \* stations left, was there only one?
    abuf, consume,      \* the buffer it fills, semaphore counts it owes
    (* the writer *)
    wpc, wbuf, bUpdatePageNum,
    SdioTxFIFOFreePage, SdioTxOQTFreeSpace,
    sdio_avail_int_en_q,
    (* the chip (external) *)
    fifo,               \* written buffers that are not on the air yet
    freePage,           \* its free pages, "P" is public
    avail,              \* SDIO_HISR_AVAL
    (* everything else that acts on the path *)
    tx_alive, asleep, waking, \* XMIT_ALIVE; firmware asleep; CPWM awaited
    scanning, kick,     \* a scan blocks data; rtw_mi_os_xmit_schedule is due
    freeing,            \* stations between unlinking and flushing
    spc,                \* how far the driver is unloaded
    sent,               \* history: last number written of each packet flow
    nmgnt, nscan, nfree

frames  == <<linked, sta_queue, sta_pending, free_xmitframe_cnt, entry,
             stopped, npkt, freeing>>
pools   == <<free_xmitbuf_cnt, free_xmit_extbuf_cnt, sdio_free_xmitbuf_sema>>
aggr    == <<apc, aidx, ret, todo, single, abuf, consume>>
writer  == <<wpc, wbuf, bUpdatePageNum, SdioTxFIFOFreePage, SdioTxOQTFreeSpace,
             sdio_avail_int_en_q, sent>>
chip    == <<fifo, freePage, avail>>
power   == <<tx_alive, asleep, waking>>
scan    == <<scanning, kick>>
bounds  == <<nmgnt, nscan, nfree>>
vars    == <<frames, pools, pending_xmitbuf_queue, SdioXmitSema, xmit_sema,
             aggr, writer, chip, power, scan, spc, bounds>>

AcSet  == {Acs[i] : i \in DOMAIN Acs}
Pages  == PageQueues \cup {"P"}
NoBuf  == [tag |-> "none", ac |-> "mgnt", pkts |-> <<>>]
Data(ac, pkts) == [tag |-> "data", ac |-> ac, pkts |-> pkts]
Mgnt   == [tag |-> "mgnt", ac |-> "mgnt", pkts |-> <<>>]
agg_num(b) == IF b.tag = "mgnt" THEN 1 ELSE Len(b.pkts)
pg_num(b)  == agg_num(b)

Full == [q \in Pages |-> IF q = "P" THEN PublicPages ELSE DedicatedPages]
bDriverStopped == spc # "up"
lock_held == apc = "sta"       \* pxmitpriv->lock

Init ==
    /\ linked = Stations /\ freeing = {}
    /\ sta_queue = [ac \in AcSet |-> <<>>]
    /\ sta_pending = [ac \in AcSet |-> [s \in Stations |-> <<>>]]
    /\ free_xmitframe_cnt = NrFrame
    /\ entry = [ac \in AcSet |-> "none"]
    /\ stopped = {}
    /\ npkt = [ac \in AcSet |-> [s \in Stations |-> 0]]
    /\ free_xmitbuf_cnt = NrBuf /\ free_xmit_extbuf_cnt = NrExt
    /\ sdio_free_xmitbuf_sema = NrBuf
    /\ pending_xmitbuf_queue = <<>>
    /\ SdioXmitSema = 0 /\ xmit_sema = 0
    /\ apc = "wait" /\ aidx = 1 /\ ret = "ok" /\ todo = <<>> /\ single = TRUE
    /\ abuf = NoBuf /\ consume = 0
    /\ wpc = "wait" /\ wbuf = NoBuf /\ bUpdatePageNum = FALSE
    /\ SdioTxFIFOFreePage = Full /\ SdioTxOQTFreeSpace = OqtMax
    /\ sdio_avail_int_en_q = "none"
    /\ sent = [ac \in AcSet |-> [s \in Stations |-> 0]]
    /\ fifo = <<>> /\ freePage = Full /\ avail = FALSE
    /\ tx_alive = FALSE /\ asleep = FALSE /\ waking = FALSE
    /\ scanning = FALSE /\ kick = FALSE
    /\ spc = "up"
    /\ nmgnt = 0 /\ nscan = 0 /\ nfree = 0

-----------------------------------------------------------------------------
(* The network stack.  One packet of a subqueue is in the driver at a time. *)

\* _rtw_xmit_entry and rtw_xmit: rtw_check_xmit_resource, then a frame.  A
\* packet that gets none is completed at once and leaves no trace.
xmit_entry(ac, s) ==
    /\ entry[ac] = "none" /\ ac \notin stopped
    /\ SumFunction(npkt[ac]) < MaxPkt
    /\ ~bDriverStopped /\ s \in linked
    /\ free_xmitframe_cnt > 0
    /\ stopped' = IF free_xmitframe_cnt <= StopAt THEN stopped \cup {ac}
                                                  ELSE stopped
    /\ free_xmitframe_cnt' = free_xmitframe_cnt - 1
    /\ entry' = [entry EXCEPT ![ac] = s]
    /\ UNCHANGED <<linked, sta_queue, sta_pending, npkt, freeing, pools,
                   pending_xmitbuf_queue, SdioXmitSema, xmit_sema, aggr,
                   writer, chip, power, scan, spc, bounds>>

\* rtl8188es_hal_xmit and rtw_xmit_classifier, under pxmitpriv->lock; a station
\* that left in between has its packet completed, which wakes the subqueue.
hal_xmit(ac) ==
    /\ entry[ac] # "none" /\ ~lock_held
    /\ entry' = [entry EXCEPT ![ac] = "none"]
    /\ LET s == entry[ac] IN
       IF s \in linked
       THEN /\ npkt' = [npkt EXCEPT ![ac][s] = @ + 1]
            /\ sta_pending' = [sta_pending EXCEPT
                                 ![ac][s] = Append(@, npkt'[ac][s])]
            /\ sta_queue' = [sta_queue EXCEPT
                               ![ac] = IF Contains(@, s) THEN @
                                                         ELSE Append(@, s)]
            /\ SdioXmitSema' = SdioXmitSema + 1
            /\ UNCHANGED <<free_xmitframe_cnt, stopped>>
       ELSE /\ free_xmitframe_cnt' = free_xmitframe_cnt + 1
            /\ stopped' = stopped \ {ac}
            /\ UNCHANGED <<npkt, sta_pending, sta_queue, SdioXmitSema>>
    /\ UNCHANGED <<linked, freeing, pools, pending_xmitbuf_queue, xmit_sema,
                   aggr, writer, chip, power, scan, spc, bounds>>

\* rtl8188es_mgnt_xmit, with the frame and the buffer of the extension pools.
mgnt_xmit ==
    /\ nmgnt < MaxMgnt /\ nmgnt' = nmgnt + 1
    /\ ~bDriverStopped /\ free_xmit_extbuf_cnt > 0
    /\ free_xmit_extbuf_cnt' = free_xmit_extbuf_cnt - 1
    /\ pending_xmitbuf_queue' = Append(pending_xmitbuf_queue, Mgnt)
    /\ xmit_sema' = xmit_sema + 1
    /\ UNCHANGED <<frames, free_xmitbuf_cnt, sdio_free_xmitbuf_sema,
                   SdioXmitSema, aggr, writer, chip, power, scan, spc,
                   nscan, nfree>>

-----------------------------------------------------------------------------
(* The aggregator: rtl8188es_xmit_handler and xmit_xmitframes              *)

Ac == Acs[aidx]
accnt(ac) == SumFunction([s \in Stations |-> Len(sta_pending[ac][s])])
rtw_txframes_pending == \E ac \in AcSet : sta_queue[ac] # <<>>

\* Faulty: the packet is freed without rtw_os_pkt_complete.
enqueue_pending_xmitbuf_nowake ==
    /\ pending_xmitbuf_queue' = Append(pending_xmitbuf_queue, abuf)
    /\ xmit_sema' = xmit_sema + 1
    /\ free_xmitframe_cnt' = free_xmitframe_cnt + 1
    /\ UNCHANGED stopped

\* A buffer goes to the writer; its first frame, kept until now for the
\* descriptor, is freed and its packet completed.
enqueue_pending_xmitbuf ==
    /\ pending_xmitbuf_queue' = Append(pending_xmitbuf_queue, abuf)
    /\ xmit_sema' = xmit_sema + 1
    /\ free_xmitframe_cnt' = free_xmitframe_cnt + 1
    /\ stopped' = stopped \ {Ac}

\* Sleep until rtl8188es_hal_xmit queues a frame.
agg_wait ==
    /\ apc = "wait" /\ SdioXmitSema > 0
    /\ SdioXmitSema' = SdioXmitSema - 1
    /\ apc' = "next"
    /\ UNCHANGED <<frames, pools, pending_xmitbuf_queue, xmit_sema, aidx, ret,
                   todo, single, abuf, consume, writer, chip, power, scan, spc,
                   bounds>>

\* next: leave, go back to sleep, or serve the first category.
agg_next ==
    /\ apc = "next"
    /\ apc' = IF bDriverStopped THEN "exit"
              ELSE IF rtw_txframes_pending THEN "ac" ELSE "wait"
    /\ aidx' = 1 /\ ret' = "ok"
    /\ UNCHANGED <<frames, pools, pending_xmitbuf_queue, SdioXmitSema,
                   xmit_sema, todo, single, abuf, consume, writer, chip, power,
                   scan, spc, bounds>>

\* The next category: with a backlog, wait for more frames; else take the lock.
agg_ac ==
    /\ apc = "ac"
    /\ IF aidx > Len(Acs)
       THEN apc' = "ret" /\ UNCHANGED <<ret, todo, single, consume>>
       ELSE IF /\ pending_xmitbuf_queue # <<>> /\ Busy
               /\ accnt(Ac) > 0 /\ accnt(Ac) < WaitBelow
       THEN /\ apc' = "ret" /\ ret' = "RTW_TX_WAIT_MORE_FRAME"
            /\ UNCHANGED <<todo, single, consume>>
       ELSE /\ apc' = "sta" /\ consume' = 0
            /\ todo' = sta_queue[Ac] /\ single' = (Len(sta_queue[Ac]) <= 1)
            /\ UNCHANGED ret
    /\ UNCHANGED <<frames, pools, pending_xmitbuf_queue, SdioXmitSema,
                   xmit_sema, aidx, abuf, writer, chip, power, scan, spc,
                   bounds>>

\* rtw_list_delete: take a station out of the line, if it stands there.
list_delete(line, s) ==
    IF Contains(line, s)
    THEN RemoveAt(line, CHOOSE i \in 1 .. Len(line) : line[i] = s)
    ELSE line

\* Leave the loop over the stations of a category, and the lock; a station
\* that still has frames goes to the end of the line after RTW_TX_BALANCE.
leave_station(s, err) ==
    /\ todo' = <<>> /\ ret' = err /\ apc' = "down"
    /\ sta_queue' = IF err = "RTW_TX_BALANCE"
                    THEN [sta_queue EXCEPT ![Ac] = Append(list_delete(@, s), s)]
                    ELSE sta_queue

\* The first frame of the station at hand, which is Head(todo).
at_frame == apc = "sta" /\ todo # <<>> /\ sta_pending[Ac][Head(todo)] # <<>>

\* rtw_hal_busagg_qsel_check adds nothing: it fails only for the high queue of
\* an access point (group frames while a station sleeps), not modelled here.
no_room == \/ abuf = NoBuf
           \/ pg_num(abuf) + 1 > MaxPages
           \/ Len(abuf.pkts) >= OqtMax - 1

\* The buffer is full: hand it over, and with more than one station let the
\* others have their turn.
agg_full ==
    /\ at_frame /\ no_room /\ abuf # NoBuf
    /\ enqueue_pending_xmitbuf
    /\ abuf' = NoBuf
    /\ IF single THEN UNCHANGED <<todo, ret, apc, sta_queue>>
                 ELSE leave_station(Head(todo), "RTW_TX_BALANCE")
    /\ UNCHANGED <<linked, sta_pending, entry, npkt, freeing, pools,
                   SdioXmitSema, aidx, single, consume, writer, chip, power,
                   scan, spc, bounds>>

\* rtw_alloc_xmitbuf
agg_alloc ==
    /\ at_frame /\ abuf = NoBuf
    /\ IF free_xmitbuf_cnt > 0
       THEN /\ free_xmitbuf_cnt' = free_xmitbuf_cnt - 1
            /\ abuf' = Data(Ac, <<>>) /\ consume' = consume + 1
            /\ UNCHANGED <<todo, ret, apc, sta_queue>>
       ELSE /\ leave_station(Head(todo), "RTW_XBUF_UNAVAIL")
            /\ UNCHANGED <<free_xmitbuf_cnt, abuf, consume>>
    /\ UNCHANGED <<linked, sta_pending, free_xmitframe_cnt, entry, stopped,
                   npkt, freeing, free_xmit_extbuf_cnt,
                   sdio_free_xmitbuf_sema, pending_xmitbuf_queue, SdioXmitSema,
                   xmit_sema, aidx, single, writer, chip, power, scan, spc,
                   bounds>>

\* Faulty: the first two frames are kept.
keeps_two(b) == agg_num(b) \in {1, 2}

\* if (agg_num != 1) rtw_free_xmitframe: the buffer's first frame is kept.
keeps(b) == agg_num(b) = 1

\* Take the frame and copy its packet.  rtw_xmitframe_coalesce fails for a
\* station that has left.  The frame is freed if (agg_num != 1): kept as the
\* first of the buffer, and lost as the second that fails.
agg_coalesce ==
    /\ at_frame /\ ~no_room
    /\ LET s  == Head(todo)
           ok == s \in linked
           b  == IF ok THEN [abuf EXCEPT !.pkts =
                               Append(@, <<s, Head(sta_pending[Ac][s])>>)]
                       ELSE abuf
       IN  /\ sta_pending' = [sta_pending EXCEPT ![Ac][s] = Tail(@)]
           /\ abuf' = b
           /\ IF keeps(b)
              THEN UNCHANGED <<free_xmitframe_cnt, stopped>>
              ELSE /\ free_xmitframe_cnt' = free_xmitframe_cnt + 1
                   /\ stopped' = stopped \ {Ac}
    /\ UNCHANGED <<linked, sta_queue, entry, npkt, freeing, pools,
                   pending_xmitbuf_queue, SdioXmitSema, xmit_sema, apc, aidx,
                   ret, todo, single, consume, writer, chip, power, scan, spc,
                   bounds>>

\* No frame of the station is left, or no station: the lock is released.
agg_station_done ==
    /\ apc = "sta" /\ ~at_frame
    /\ IF todo = <<>>
       THEN apc' = "down" /\ UNCHANGED <<todo, sta_queue>>
       ELSE /\ sta_queue' = [sta_queue EXCEPT ![Ac] = list_delete(@, Head(todo))]
            /\ todo' = IF ret = "ok" THEN Tail(todo) ELSE <<>>
            /\ apc' = IF ret = "ok" THEN "sta" ELSE "down"
    /\ UNCHANGED <<linked, sta_pending, free_xmitframe_cnt, entry, stopped,
                   npkt, freeing, pools, pending_xmitbuf_queue, SdioXmitSema,
                   xmit_sema, aidx, ret, single, abuf, consume, writer, chip,
                   power, scan, spc, bounds>>

\* rtw_sdio_free_xmitbuf_sema_down, once for each buffer taken.
agg_sema_down ==
    /\ apc = "down" /\ consume > 0 /\ sdio_free_xmitbuf_sema > 0
    /\ sdio_free_xmitbuf_sema' = sdio_free_xmitbuf_sema - 1
    /\ consume' = consume - 1
    /\ UNCHANGED <<frames, free_xmitbuf_cnt, free_xmit_extbuf_cnt,
                   pending_xmitbuf_queue, SdioXmitSema, xmit_sema, apc, aidx,
                   ret, todo, single, abuf, writer, chip, power, scan, spc,
                   bounds>>

\* Faulty: the empty buffer is not counted.
free_empty_uncounted ==
    /\ free_xmitbuf_cnt' = free_xmitbuf_cnt + 1
    /\ UNCHANGED sdio_free_xmitbuf_sema

\* No frame could be copied: rtw_free_xmitbuf, and its count.
free_empty ==
    /\ free_xmitbuf_cnt' = free_xmitbuf_cnt + 1
    /\ sdio_free_xmitbuf_sema' = sdio_free_xmitbuf_sema + 1

\* Hand over the last buffer of the category, or give an empty one back.
agg_flush ==
    /\ apc = "down" /\ consume = 0
    /\ apc' = IF ret = "RTW_XBUF_UNAVAIL" THEN "ret" ELSE "ac"
    /\ aidx' = IF ret = "RTW_XBUF_UNAVAIL" THEN aidx ELSE aidx + 1
    /\ abuf' = NoBuf
    /\ CASE abuf = NoBuf ->
              UNCHANGED <<pending_xmitbuf_queue, xmit_sema, stopped,
                          free_xmitframe_cnt, free_xmitbuf_cnt,
                          sdio_free_xmitbuf_sema>>
         [] abuf # NoBuf /\ agg_num(abuf) > 0 ->
              /\ enqueue_pending_xmitbuf
              /\ UNCHANGED <<free_xmitbuf_cnt, sdio_free_xmitbuf_sema>>
         [] OTHER ->
              /\ free_empty
              /\ UNCHANGED <<pending_xmitbuf_queue, xmit_sema, stopped,
                             free_xmitframe_cnt>>
    /\ UNCHANGED <<linked, sta_queue, sta_pending, entry, npkt, freeing,
                   free_xmit_extbuf_cnt, SdioXmitSema, ret, todo, single,
                   consume, writer, chip, power, scan, spc, bounds>>

\* What rtl8188es_xmit_handler does with the result of xmit_xmitframes.
agg_return ==
    /\ apc = "ret"
    /\ apc' = CASE ret = "RTW_XBUF_UNAVAIL" -> "unavail"
                [] ret = "RTW_TX_WAIT_MORE_FRAME" -> "next"
                [] OTHER -> IF rtw_txframes_pending THEN "next" ELSE "wait"
    /\ UNCHANGED <<frames, pools, pending_xmitbuf_queue, SdioXmitSema,
                   xmit_sema, aidx, ret, todo, single, abuf, consume, writer,
                   chip, power, scan, spc, bounds>>

\* Without a buffer: down waits until the writer has freed one, up gives the
\* count back.  A semaphore serves its sleepers first.
agg_unavail ==
    /\ \/ /\ apc = "unavail"
          /\ IF sdio_free_xmitbuf_sema > 0
             THEN /\ sdio_free_xmitbuf_sema' = sdio_free_xmitbuf_sema - 1
                  /\ apc' = "give_back"
             ELSE apc' = "asleep" /\ UNCHANGED sdio_free_xmitbuf_sema
       \/ /\ apc = "give_back"
          /\ sdio_free_xmitbuf_sema' = sdio_free_xmitbuf_sema + 1
          /\ apc' = "next"
    /\ UNCHANGED <<frames, free_xmitbuf_cnt, free_xmit_extbuf_cnt,
                   pending_xmitbuf_queue, SdioXmitSema, xmit_sema, aidx, ret,
                   todo, single, abuf, consume, writer, chip, power, scan, spc,
                   bounds>>

\* rtw_sdio_free_xmitbuf_sema_up, by the writer and by the unloading thread.
rtw_sdio_free_xmitbuf_sema_up ==
    IF apc = "asleep"
    THEN apc' = "give_back" /\ UNCHANGED sdio_free_xmitbuf_sema
    ELSE /\ sdio_free_xmitbuf_sema' = sdio_free_xmitbuf_sema + 1
         /\ UNCHANGED apc

Aggregator ==
    \/ agg_wait \/ agg_next \/ agg_ac
    \/ agg_full \/ agg_alloc \/ agg_coalesce \/ agg_station_done
    \/ agg_sema_down \/ agg_flush \/ agg_return \/ agg_unavail

-----------------------------------------------------------------------------
(* The writer: rtl8188es_xmit_buf_handler and _dequeue_writeport           *)

\* Sleep; with buffers pending, register with the power save (PwrCtrl has the
\* whole of rtw_register_tx_alive).  A sleeping firmware ends the pass: its
\* CPWM starts the next.
writer_wait ==
    /\ wpc = "wait" /\ xmit_sema > 0
    /\ xmit_sema' = xmit_sema - 1
    /\ IF bDriverStopped
       THEN wpc' = "exit" /\ UNCHANGED power
       ELSE IF pending_xmitbuf_queue = <<>>
       THEN UNCHANGED <<wpc, power>>
       ELSE /\ tx_alive' = TRUE
            /\ waking' = (waking \/ asleep)
            /\ wpc' = IF asleep THEN "wait" ELSE "select"
            /\ UNCHANGED asleep
    /\ UNCHANGED <<frames, pools, pending_xmitbuf_queue, SdioXmitSema, aggr,
                   wbuf, bUpdatePageNum, SdioTxFIFOFreePage,
                   SdioTxOQTFreeSpace, sdio_avail_int_en_q, sent, chip, scan,
                   spc, bounds>>

\* rtw_mi_dequeue_writeport, which asks rtw_is_adapter_up, and
\* select_and_dequeue_pending_xmitbuf: management first, data unless a scan
\* blocks it; nothing ends the pass.
writer_select ==
    /\ wpc = "select"
    /\ bUpdatePageNum' = FALSE
    /\ LET q     == pending_xmitbuf_queue
           mgnts == {i \in 1 .. Len(q) : q[i].tag = "mgnt"}
           may   == IF mgnts # {} THEN mgnts
                    ELSE IF scanning THEN {} ELSE 1 .. Len(q)
           first == {i \in may : \A j \in may : i <= j}
       IN  IF first = {} \/ bDriverStopped
           THEN /\ wpc' = "wait" /\ tx_alive' = FALSE
                /\ UNCHANGED <<wbuf, pending_xmitbuf_queue>>
           ELSE \E i \in first :
                /\ wpc' = "pages" /\ wbuf' = q[i]
                /\ pending_xmitbuf_queue' = RemoveAt(q, i)
                /\ UNCHANGED tx_alive
    /\ UNCHANGED <<frames, pools, SdioXmitSema, xmit_sema, aggr,
                   SdioTxFIFOFreePage, SdioTxOQTFreeSpace, sdio_avail_int_en_q,
                   sent, chip, asleep, waking, scan, spc, bounds>>

\* Faulty: one page too few will do.
enough_short(pages, q, n) == pages[q] + pages["P"] + 1 >= n

\* rtw_hal_sdio_query_tx_freepage
enough(pages, q, n) == pages[q] + pages["P"] >= n

\* Give the buffer in hand back to its pool; a data buffer is counted next.
free_wbuf ==
    /\ wbuf' = NoBuf
    /\ IF wbuf.tag = "data"
       THEN /\ free_xmitbuf_cnt' = free_xmitbuf_cnt + 1
            /\ UNCHANGED free_xmit_extbuf_cnt
            /\ wpc' = "up"
       ELSE /\ free_xmit_extbuf_cnt' = free_xmit_extbuf_cnt + 1
            /\ UNCHANGED free_xmitbuf_cnt
            /\ wpc' = "select"

\* Faulty: the interrupt stays disabled.
avail_page_threshold_en_never(q) == UNCHANGED sdio_avail_int_en_q

\* rtw_hal_sdio_avail_page_threshold_en
avail_page_threshold_en(q) == sdio_avail_int_en_q' = q

\* Faulty: the buffer goes to the tail.
enqueue_pending_xmitbuf_to_head_tail(b) ==
    pending_xmitbuf_queue' = Append(pending_xmitbuf_queue, b)

enqueue_pending_xmitbuf_to_head(b) ==
    pending_xmitbuf_queue' = <<b>> \o pending_xmitbuf_queue

\* query_free_page: go on; or enable the interrupt of the queue and look
\* again; or put the buffer back in front and wait for the interrupt.
writer_pages ==
    /\ wpc = "pages"
    /\ LET q == PageIdx[wbuf.ac] IN
       IF enough(SdioTxFIFOFreePage, q, pg_num(wbuf))
       THEN /\ wpc' = "oqt"
            /\ UNCHANGED <<wbuf, pending_xmitbuf_queue, free_xmitbuf_cnt,
                           free_xmit_extbuf_cnt, sdio_avail_int_en_q, tx_alive>>
       ELSE IF bDriverStopped
       THEN /\ free_wbuf
            /\ UNCHANGED <<pending_xmitbuf_queue, sdio_avail_int_en_q,
                           tx_alive>>
       ELSE IF ~bUpdatePageNum
       THEN /\ wpc' = "refresh" /\ avail_page_threshold_en(q)
            /\ UNCHANGED <<wbuf, pending_xmitbuf_queue, free_xmitbuf_cnt,
                           free_xmit_extbuf_cnt, tx_alive>>
       ELSE /\ enqueue_pending_xmitbuf_to_head(wbuf)
            /\ wbuf' = NoBuf /\ wpc' = "wait" /\ tx_alive' = FALSE
            /\ UNCHANGED <<free_xmitbuf_cnt, free_xmit_extbuf_cnt,
                           sdio_avail_int_en_q>>
    /\ UNCHANGED <<frames, sdio_free_xmitbuf_sema, SdioXmitSema, xmit_sema,
                   aggr, bUpdatePageNum, SdioTxFIFOFreePage,
                   SdioTxOQTFreeSpace, sent, chip, asleep, waking, scan, spc,
                   bounds>>

\* HalQueryTxBufferStatus8189ESdio
writer_refresh ==
    /\ wpc = "refresh" /\ wpc' = "pages"
    /\ SdioTxFIFOFreePage' = freePage
    /\ bUpdatePageNum' = TRUE
    /\ UNCHANGED <<frames, pools, pending_xmitbuf_queue, SdioXmitSema,
                   xmit_sema, aggr, wbuf, SdioTxOQTFreeSpace,
                   sdio_avail_int_en_q, sent, chip, power, scan, spc, bounds>>

\* What the chip has accepted and not sent yet occupies its outstanding queue.
oqt_used == SumFunction([i \in DOMAIN fifo |-> fifo[i].agg])

\* A queue's own pages first, then public ones.
take(pages, q, n) ==
    LET own == IF n <= pages[q] THEN n ELSE pages[q]
    IN  [pages EXCEPT ![q] = @ - own, !["P"] = @ - (n - own)]

\* Faulty: the pages are not accounted for.
rtw_hal_sdio_update_tx_freepage_none(q, n) == UNCHANGED SdioTxFIFOFreePage

rtw_hal_sdio_update_tx_freepage(q, n) ==
    SdioTxFIFOFreePage' = take(SdioTxFIFOFreePage, q, n)

\* rtw_sdio_wait_enough_TxOQT_space asks the chip until there is room; then
\* rtw_write_port, rtw_hal_sdio_update_tx_freepage, rtw_free_xmitbuf.
writer_oqt ==
    /\ wpc = "oqt" /\ SdioTxOQTFreeSpace < agg_num(wbuf)
    /\ IF bDriverStopped
       THEN free_wbuf /\ UNCHANGED SdioTxOQTFreeSpace
       ELSE /\ SdioTxOQTFreeSpace' = OqtMax - oqt_used
            /\ UNCHANGED <<wpc, wbuf, free_xmitbuf_cnt, free_xmit_extbuf_cnt>>
    /\ UNCHANGED <<frames, sdio_free_xmitbuf_sema, pending_xmitbuf_queue,
                   SdioXmitSema, xmit_sema, aggr, bUpdatePageNum,
                   SdioTxFIFOFreePage, sdio_avail_int_en_q, sent, chip, power,
                   scan, spc, bounds>>

\* The last number of a flow in a buffer, or the last one written before.
last_sent(ac, s) ==
    LET mine == {i \in DOMAIN wbuf.pkts : wbuf.pkts[i][1] = s}
    IN  IF wbuf.ac # ac \/ mine = {} THEN sent[ac][s]
        ELSE wbuf.pkts[CHOOSE i \in mine : \A j \in mine : j <= i][2]

writer_write ==
    /\ wpc = "oqt" /\ SdioTxOQTFreeSpace >= agg_num(wbuf)
    /\ SdioTxOQTFreeSpace' = SdioTxOQTFreeSpace - agg_num(wbuf)
    /\ LET q == PageIdx[wbuf.ac]
           n == pg_num(wbuf)
       IN  /\ rtw_hal_sdio_update_tx_freepage(q, n)
           /\ freePage' = take(freePage, q, n)
           /\ fifo' = Append(fifo, [q |-> q, agg |-> agg_num(wbuf),
                                    own |-> freePage[q] - freePage'[q],
                                    pub |-> freePage["P"] - freePage'["P"]])
    /\ sent' = [ac \in AcSet |-> [s \in Stations |-> last_sent(ac, s)]]
    /\ free_wbuf
    /\ UNCHANGED <<frames, sdio_free_xmitbuf_sema, pending_xmitbuf_queue,
                   SdioXmitSema, xmit_sema, aggr, bUpdatePageNum,
                   sdio_avail_int_en_q, avail, power, scan, spc, bounds>>

\* The buffer is in the pool, now it is counted.
writer_sema_up ==
    /\ wpc = "up" /\ wpc' = "select"
    /\ rtw_sdio_free_xmitbuf_sema_up
    /\ UNCHANGED <<frames, free_xmitbuf_cnt, free_xmit_extbuf_cnt,
                   pending_xmitbuf_queue, SdioXmitSema, xmit_sema, aidx, ret,
                   todo, single, abuf, consume, wbuf, bUpdatePageNum,
                   SdioTxFIFOFreePage, SdioTxOQTFreeSpace,
                   sdio_avail_int_en_q, sent, chip, power, scan, spc, bounds>>

Writer ==
    \/ writer_wait \/ writer_select \/ writer_pages \/ writer_refresh
    \/ writer_oqt \/ writer_write \/ writer_sema_up

-----------------------------------------------------------------------------
(* The chip and its interrupts                                             *)

\* It sends the oldest buffer of a queue and returns the pages; when the queue
\* armed last rises to the threshold, it says so.
chip_send(i) ==
    /\ \A j \in DOMAIN fifo : j < i => fifo[j].q # fifo[i].q
    /\ freePage' = [freePage EXCEPT ![fifo[i].q] = @ + fifo[i].own,
                                    !["P"] = @ + fifo[i].pub]
    /\ fifo' = RemoveAt(fifo, i)
    /\ avail' = \/ avail
                \/ /\ sdio_avail_int_en_q # "none"
                   /\ ~enough(freePage, sdio_avail_int_en_q, MaxPages)
                   /\ enough(freePage', sdio_avail_int_en_q, MaxPages)
    /\ UNCHANGED <<frames, pools, pending_xmitbuf_queue, SdioXmitSema,
                   xmit_sema, aggr, writer, power, scan, spc, bounds>>

\* rtw_intf_stop disables them.
interrupts == spc \in {"up", "stopping"}

\* sd_int_dpc on SDIO_HISR_AVAL
sd_int_dpc ==
    /\ avail /\ avail' = FALSE /\ interrupts
    /\ xmit_sema' = xmit_sema + 1
    /\ UNCHANGED <<frames, pools, pending_xmitbuf_queue, SdioXmitSema, aggr,
                   writer, fifo, freePage, power, scan, spc, bounds>>

\* The firmware sleeps when nobody is alive, and answers a wake-up; cpwm_int_hdl
\* then wakes the writer.
fw_sleep ==
    /\ Lps /\ ~tx_alive /\ ~asleep /\ asleep' = TRUE
    /\ UNCHANGED <<frames, pools, pending_xmitbuf_queue, SdioXmitSema,
                   xmit_sema, aggr, writer, chip, tx_alive, waking, scan, spc,
                   bounds>>

cpwm_int_hdl ==
    /\ waking /\ waking' = FALSE /\ asleep' = FALSE /\ interrupts
    /\ xmit_sema' = IF tx_alive THEN xmit_sema + 1 ELSE xmit_sema
    /\ UNCHANGED <<frames, pools, pending_xmitbuf_queue, SdioXmitSema, aggr,
                   writer, chip, tx_alive, scan, spc, bounds>>

-----------------------------------------------------------------------------
(* Scans, stations that leave, and the end                                 *)

\* sitesurvey_cmd_hdl: off the channel no data is sent.
scan_start ==
    /\ ~scanning /\ ~kick /\ nscan < MaxScan /\ nscan' = nscan + 1
    /\ ~bDriverStopped
    /\ scanning' = TRUE
    /\ UNCHANGED <<frames, pools, pending_xmitbuf_queue, SdioXmitSema,
                   xmit_sema, aggr, writer, chip, power, kick, spc, nmgnt,
                   nfree>>

\* SCAN_COMPLETE: the state is reset, then the event is queued whose handler
\* calls rtw_mi_os_xmit_schedule.
scan_end ==
    /\ scanning /\ scanning' = FALSE /\ kick' = TRUE
    /\ UNCHANGED <<frames, pools, pending_xmitbuf_queue, SdioXmitSema,
                   xmit_sema, aggr, writer, chip, power, spc, bounds>>

rtw_os_xmit_schedule ==
    /\ kick /\ kick' = FALSE
    /\ xmit_sema' = IF pending_xmitbuf_queue # <<>> THEN xmit_sema + 1
                                                    ELSE xmit_sema
    /\ UNCHANGED <<frames, pools, pending_xmitbuf_queue, SdioXmitSema, aggr,
                   writer, chip, power, scanning, spc, bounds>>

\* rtw_free_stainfo, first part: out of the hash table, no longer _FW_LINKED,
\* none of it under pxmitpriv->lock.
rtw_free_stainfo(s) ==
    /\ s \in linked /\ nfree < MaxFree /\ nfree' = nfree + 1
    /\ linked' = linked \ {s} /\ freeing' = freeing \cup {s}
    /\ UNCHANGED <<sta_queue, sta_pending, free_xmitframe_cnt, entry, stopped,
                   npkt, pools, pending_xmitbuf_queue, SdioXmitSema, xmit_sema,
                   aggr, writer, chip, power, scan, spc, nmgnt, nscan>>

\* Second part, under the lock: its queues are emptied, the subqueues of what
\* was in them are woken.
free_xmitframe_queues(s) ==
    /\ s \in freeing /\ freeing' = freeing \ {s} /\ ~lock_held
    /\ sta_pending' = [ac \in AcSet |-> [sta_pending[ac] EXCEPT ![s] = <<>>]]
    /\ sta_queue' = [ac \in AcSet |-> list_delete(sta_queue[ac], s)]
    /\ free_xmitframe_cnt' = free_xmitframe_cnt +
         SumFunction([ac \in AcSet |-> Len(sta_pending[ac][s])])
    /\ stopped' = {ac \in stopped : sta_pending[ac][s] = <<>>}
    /\ UNCHANGED <<linked, entry, npkt, pools, pending_xmitbuf_queue,
                   SdioXmitSema, xmit_sema, aggr, writer, chip, power, scan,
                   spc, bounds>>

\* rtw_alloc_stainfo and the association.
rtw_alloc_stainfo(s) ==
    /\ s \notin linked \cup freeing /\ ~bDriverStopped
    /\ linked' = linked \cup {s}
    /\ UNCHANGED <<sta_queue, sta_pending, free_xmitframe_cnt, entry, stopped,
                   npkt, freeing, pools, pending_xmitbuf_queue, SdioXmitSema,
                   xmit_sema, aggr, writer, chip, power, scan, spc, bounds>>

\* rtw_dev_unload: the interface is closed and the stations are gone; then, in
\* rtw_stop_drv_threads, the writer is stopped and awaited; then, in
\* rtl8188e_stop_thread, an up and a down let the aggregator pass if it sleeps
\* for a buffer, and it is stopped and awaited.
rtw_dev_unload ==
    /\ Unload /\ spc = "up" /\ linked = {} /\ freeing = {}
    /\ \A ac \in AcSet : entry[ac] = "none"
    /\ spc' = "stopping"
    /\ UNCHANGED <<frames, pools, pending_xmitbuf_queue, SdioXmitSema,
                   xmit_sema, aggr, writer, chip, power, scan, bounds>>

stop_writer ==
    /\ spc = "stopping" /\ spc' = "writer"
    /\ xmit_sema' = xmit_sema + 1
    /\ UNCHANGED <<frames, pools, pending_xmitbuf_queue, SdioXmitSema, aggr,
                   writer, chip, power, scan, bounds>>

stop_up ==
    /\ spc = "writer" /\ wpc = "exit" /\ spc' = "down"
    /\ rtw_sdio_free_xmitbuf_sema_up
    /\ UNCHANGED <<frames, free_xmitbuf_cnt, free_xmit_extbuf_cnt,
                   pending_xmitbuf_queue, SdioXmitSema, xmit_sema, aidx, ret,
                   todo, single, abuf, consume, writer, chip, power, scan,
                   bounds>>

\* Faulty: the aggregator is not woken.
stop_down_silent ==
    /\ spc = "down" /\ sdio_free_xmitbuf_sema > 0 /\ spc' = "aggregator"
    /\ sdio_free_xmitbuf_sema' = sdio_free_xmitbuf_sema - 1
    /\ UNCHANGED <<frames, free_xmitbuf_cnt, free_xmit_extbuf_cnt,
                   pending_xmitbuf_queue, SdioXmitSema, xmit_sema, aggr,
                   writer, chip, power, scan, bounds>>

stop_down ==
    /\ spc = "down" /\ sdio_free_xmitbuf_sema > 0 /\ spc' = "aggregator"
    /\ sdio_free_xmitbuf_sema' = sdio_free_xmitbuf_sema - 1
    /\ SdioXmitSema' = SdioXmitSema + 1
    /\ UNCHANGED <<frames, free_xmitbuf_cnt, free_xmit_extbuf_cnt,
                   pending_xmitbuf_queue, xmit_sema, aggr, writer, chip, power,
                   scan, bounds>>

stop_done ==
    /\ spc = "aggregator" /\ apc = "exit" /\ spc' = "unloaded"
    /\ UNCHANGED <<frames, pools, pending_xmitbuf_queue, SdioXmitSema,
                   xmit_sema, aggr, writer, chip, power, scan, bounds>>

Stopping == stop_writer \/ stop_up \/ stop_down \/ stop_done

-----------------------------------------------------------------------------
Stack == \E ac \in AcSet : hal_xmit(ac) \/ \E s \in Stations : xmit_entry(ac, s)
Chip  == (\E i \in DOMAIN fifo : chip_send(i)) \/ sd_int_dpc \/ fw_sleep
         \/ cpwm_int_hdl
Scan  == scan_start \/ scan_end \/ rtw_os_xmit_schedule
Sta(s) == \/ rtw_free_stainfo(s) \/ free_xmitframe_queues(s)
          \/ rtw_alloc_stainfo(s)

Next ==
    \/ Stack \/ mgnt_xmit \/ Aggregator \/ Writer \/ Chip \/ Scan
    \/ (\E s \in Stations : Sta(s)) \/ rtw_dev_unload \/ Stopping

Spec == Init /\ [][Next]_vars

\* The scheduler runs every thread, the chip sends what it has, interrupts are
\* delivered, and a scan and a removal that began go on.  Nobody has to send,
\* scan, leave, sleep or unload.
Fairness ==
    /\ WF_vars(Aggregator) /\ WF_vars(Writer)
    /\ WF_vars(\E ac \in AcSet : hal_xmit(ac))
    /\ WF_vars(\E i \in DOMAIN fifo : chip_send(i))
    /\ WF_vars(sd_int_dpc) /\ WF_vars(cpwm_int_hdl)
    /\ WF_vars(scan_end \/ rtw_os_xmit_schedule)
    /\ WF_vars(\E s \in Stations : free_xmitframe_queues(s))
    /\ WF_vars(Stopping)

FairSpec == Spec /\ Fairness

-----------------------------------------------------------------------------
(* Properties                                                              *)

\* Every variable has its type; the counts stay between zero and their pools.
TypeOK ==
    /\ linked \subseteq Stations /\ freeing \subseteq Stations \ linked
    /\ sta_queue \in [AcSet -> Seq(Stations)]
    /\ sta_pending \in [AcSet -> [Stations -> Seq(1..MaxPkt)]]
    /\ free_xmitframe_cnt \in 0..NrFrame
    /\ entry \in [AcSet -> Stations \cup {"none"}]
    /\ stopped \subseteq AcSet
    /\ npkt \in [AcSet -> [Stations -> 0..MaxPkt]]
    /\ free_xmitbuf_cnt \in 0..NrBuf /\ free_xmit_extbuf_cnt \in 0..NrExt
    /\ \A i \in DOMAIN pending_xmitbuf_queue :
          pending_xmitbuf_queue[i].tag \in {"data", "mgnt"}
    /\ SdioXmitSema \in Nat /\ xmit_sema \in Nat
    /\ sdio_free_xmitbuf_sema \in Nat
    /\ apc \in {"wait", "next", "ac", "sta", "down", "ret", "unavail",
                "asleep", "give_back", "exit"}
    /\ aidx \in 1..Len(Acs) + 1
    /\ ret \in {"ok", "RTW_TX_BALANCE", "RTW_XBUF_UNAVAIL",
                "RTW_TX_WAIT_MORE_FRAME"}
    /\ todo \in Seq(Stations) /\ single \in BOOLEAN /\ consume \in Nat
    /\ wpc \in {"wait", "select", "pages", "refresh", "oqt", "up", "exit"}
    /\ bUpdatePageNum \in BOOLEAN
    /\ SdioTxFIFOFreePage \in [Pages -> Nat] /\ freePage \in [Pages -> Nat]
    /\ SdioTxOQTFreeSpace \in 0..OqtMax
    /\ sdio_avail_int_en_q \in PageQueues \cup {"none"}
    /\ {tx_alive, asleep, waking, scanning, kick, avail} \subseteq BOOLEAN
    /\ spc \in {"up", "stopping", "writer", "down", "aggregator", "unloaded"}
    /\ sent \in [AcSet -> [Stations -> 0..MaxPkt]]

\* The free count of buffers and the semaphore that counts them for the
\* aggregator (rtw_sdio_free_xmitbuf_sema_up and _down beside rtw_alloc_xmitbuf
\* and rtw_free_xmitbuf) differ by exactly what is under way: counts the
\* aggregator still owes, a buffer freed and not counted, a count borrowed.
uncounted == IF wpc = "up" THEN 1 ELSE 0
taken     == IF apc = "give_back" THEN 1 ELSE 0
borrowed  == IF spc = "down" THEN 1 ELSE 0
SemaMatches ==
    sdio_free_xmitbuf_sema =
        free_xmitbuf_cnt + consume - uncounted - taken + borrowed

\* The writer's copy of the free pages (rtw_hal_sdio_update_tx_freepage,
\* HalQueryTxBufferStatus8189ESdio) never promises a page the chip has not:
\* nothing is written into a full FIFO.
PagesCovered == \A q \in Pages : SdioTxFIFOFreePage[q] <= freePage[q]

\* Frames and buffers are neither lost nor freed twice on their way through
\* rtw_xmit, xmit_xmitframes and _dequeue_writeport.
b2n(b) == IF b THEN 1 ELSE 0
frames_held ==
    SumFunction([ac \in AcSet |-> accnt(ac) + b2n(entry[ac] # "none")])
        + b2n(Len(abuf.pkts) > 0)
bufs_held(tag) ==
    SumFunction([i \in DOMAIN pending_xmitbuf_queue |->
                   b2n(pending_xmitbuf_queue[i].tag = tag)])
        + b2n(wbuf.tag = tag) + b2n(abuf.tag = tag)
Conserved ==
    /\ free_xmitframe_cnt + frames_held = NrFrame
    /\ free_xmitbuf_cnt + bufs_held("data") = NrBuf
    /\ free_xmit_extbuf_cnt + bufs_held("mgnt") = NrExt

\* A stopped subqueue (rtw_check_xmit_resource) has a packet in the driver whose
\* completion wakes it; without one the stack would wait for ever.
StoppedHasPacket ==
    \A ac \in stopped :
       \/ entry[ac] # "none" \/ \E s \in Stations : sta_pending[ac][s] # <<>>
       \/ abuf.ac = ac /\ Len(abuf.pkts) > 0

\* The buffers that are not written yet, from the writer back to the
\* aggregator; the places of a flow's packets in a line of buffers, and their
\* numbers.
lane == <<wbuf>> \o pending_xmitbuf_queue \o <<abuf>>
places(line, ac, s) ==
    {p \in UNION {{i} \X DOMAIN line[i].pkts : i \in DOMAIN line} :
        line[p[1]].ac = ac /\ line[p[1]].pkts[p[2]][1] = s}
number(line, p) == line[p[1]].pkts[p[2]][2]
ahead(p, q) == p[1] < q[1] \/ (p[1] = q[1] /\ p[2] < q[2])

\* The packets of a station and access category are written in the order of
\* the stack, whatever is put back to the head of the pending queue, taken in
\* between or moved to the end of the line; none is skipped while the station
\* stays.
InOrder ==
    \A ac \in AcSet, s \in Stations :
       LET copied  == places(lane, ac, s)
           waiting == sta_pending[ac][s]
           unsent  == {number(lane, p) : p \in copied} \cup Range(waiting)
       IN
       /\ \A p, q \in copied : ahead(p, q) => number(lane, p) < number(lane, q)
       /\ \A p \in copied, n \in Range(waiting) : number(lane, p) < n
       /\ \A i, j \in DOMAIN waiting : i < j => waiting[i] < waiting[j]
       /\ \A n \in unsent : sent[ac][s] < n
       /\ nfree = 0 => unsent = sent[ac][s] + 1 .. npkt[ac][s]

\* Every packet the stack hands over is written and every frame and buffer is
\* free again, through missing pages, missing buffers, a sleeping firmware and
\* scans: no wake-up of the two threads is lost.
Drained ==
    /\ \A ac \in AcSet : entry[ac] = "none" /\ accnt(ac) = 0
    /\ pending_xmitbuf_queue = <<>> /\ wbuf = NoBuf /\ abuf = NoBuf
    /\ nfree = 0 => sent = npkt
Drains == <>[]Drained

\* rtw_dev_unload returns: both threads end and are seen to end.
StopEnds == (spc = "stopping") ~> (spc = "unloaded")

=============================================================================
