--------------------------- MODULE SdioXmitProofs ---------------------------
(***************************************************************************)
(* Proofs about the SDIO transmit path, for any number of stations, access *)
(* categories, frames, buffers and pages.                                  *)
(*                                                                         *)
(* FlowInv types what all theorems rest on and says where the aggregator   *)
(* may own a buffer: only between taking the lock and handing the buffer   *)
(* over, and only for the category it serves.  SemaInv, PageInv and        *)
(* StoppedInv belong to one theorem each.  PathInv says where every frame  *)
(* and every buffer is: the counts of a pool and of the places outside it  *)
(* add up, sums over sets and sequences that FiniteSums reasons about.     *)
(* OrderInv says that the packets of a flow keep the stack's order from    *)
(* the writer back to the stations' waiting lists.                         *)
(***************************************************************************)
EXTENDS SdioXmit, SequenceTheorems, FiniteSums, TLAPS

Bufs == [tag : {"none", "data", "mgnt"}, ac : DOMAIN PageIdx,
         pkts : Seq(Stations \X Nat)]

FlowTypes ==
    /\ linked \subseteq Stations
    /\ entry \in [AcSet -> Stations \cup {"none"}]
    /\ npkt \in [AcSet -> [Stations -> Nat]]
    /\ sta_pending \in [AcSet -> [Stations -> Seq(Nat)]]
    /\ sta_queue \in [AcSet -> Seq(Stations)]
    /\ todo \in Seq(Stations)
    /\ aidx \in Nat \ {0}
    /\ abuf \in Bufs /\ wbuf \in Bufs
    /\ pending_xmitbuf_queue \in Seq(Bufs)

\* Where the aggregator holds a buffer, and that it serves a category there.
AbufInv ==
    /\ apc \in {"sta", "down"} => aidx \in DOMAIN Acs
    /\ abuf # NoBuf => /\ apc \in {"sta", "down"}
                       /\ abuf.tag = "data" /\ abuf.ac = Ac

FlowInv == FlowTypes /\ AbufInv

flow == <<linked, entry, npkt, sta_pending, sta_queue, todo, aidx, apc, abuf,
          wbuf, pending_xmitbuf_queue>>

-----------------------------------------------------------------------------
(* Buffers and lines                                                       *)

\* An empty hand, a management frame and a new data buffer are buffers.
LEMMA BufTypes ==
    /\ NoBuf \in Bufs /\ Mgnt \in Bufs
    /\ \A ac \in AcSet : Data(ac, <<>>) \in Bufs /\ Data(ac, <<>>) # NoBuf
<1>1. AcSet \subseteq DOMAIN PageIdx
    BY SdioXmitAssumption DEF SdioXmitAssumption, AcSet, PageIdx
<1>2. "mgnt" \in DOMAIN PageIdx
    BY DEF PageIdx
<1>3. <<>> \in Seq(Stations \X Nat)
    OBVIOUS
<1> QED BY <1>1, <1>2, <1>3 DEF Bufs, NoBuf, Mgnt, Data

\* The category at hand is one of the configured ones.
LEMMA AcType == ASSUME aidx \in DOMAIN Acs PROVE Ac \in AcSet
BY DEF Ac, AcSet

\* A queue of pages for every access category.
LEMMA PageIdxType ==
    ASSUME NEW b \in Bufs
    PROVE  PageIdx[b.ac] \in PageQueues /\ pg_num(b) \in Nat
BY DEF Bufs, PageIdx, PageQueues, pg_num, agg_num

\* Taking one element out of a sequence leaves a sequence.
LEMMA RemoveAtType ==
    ASSUME NEW S, NEW s \in Seq(S), NEW i \in 1 .. Len(s)
    PROVE  RemoveAt(s, i) \in Seq(S)
<1>1. SubSeq(s, 1, i - 1) \in Seq(S)
    OBVIOUS
<1>2. SubSeq(s, i + 1, Len(s)) \in Seq(S)
    OBVIOUS
<1> QED BY <1>1, <1>2 DEF RemoveAt

\* Taking a station out of a line leaves a line.
LEMMA ListDeleteType ==
    ASSUME NEW line \in Seq(Stations), NEW s
    PROVE  list_delete(line, s) \in Seq(Stations)
<1>1. CASE Contains(line, s)
    <2>1. (CHOOSE i \in 1 .. Len(line) : line[i] = s) \in 1 .. Len(line)
        BY <1>1 DEF Contains
    <2> QED BY <1>1, <2>1, RemoveAtType DEF list_delete
<1>2. CASE ~Contains(line, s)
    BY <1>2 DEF list_delete
<1> QED BY <1>1, <1>2

-----------------------------------------------------------------------------
(* The flow of packets                                                     *)

\* Steps that move no packet and no buffer.
LEMMA FlowSame == ASSUME FlowInv, UNCHANGED flow PROVE FlowInv'
BY DEF FlowInv, FlowTypes, AbufInv, Ac, flow

\* The stack.
LEMMA StackFlow == ASSUME FlowInv, Stack PROVE FlowInv'
<1>1. ASSUME NEW ac \in AcSet, NEW s \in Stations, xmit_entry(ac, s)
      PROVE  FlowInv'
    <2>1. entry' \in [AcSet -> Stations \cup {"none"}]
        BY <1>1 DEF xmit_entry, FlowInv, FlowTypes
    <2>2. UNCHANGED <<linked, npkt, sta_pending, sta_queue, todo, aidx, apc,
                      abuf, wbuf, pending_xmitbuf_queue>>
        BY <1>1 DEF xmit_entry, aggr, writer
    <2> QED BY <2>1, <2>2 DEF FlowInv, FlowTypes, AbufInv, Ac
<1>2. ASSUME NEW ac \in AcSet, hal_xmit(ac)
      PROVE  FlowInv'
    <2>1. /\ entry' = [entry EXCEPT ![ac] = "none"]
          /\ UNCHANGED <<linked, todo, aidx, apc, abuf, wbuf,
                         pending_xmitbuf_queue>>
        BY <1>2 DEF hal_xmit, aggr, writer
    <2>2. entry' \in [AcSet -> Stations \cup {"none"}]
        BY <2>1 DEF FlowInv, FlowTypes
    <2>3. CASE entry[ac] \in linked
        <3>1. PICK s \in Stations : s = entry[ac]
            BY <2>3 DEF FlowInv, FlowTypes
        <3>2. /\ npkt' = [npkt EXCEPT ![ac][s] = @ + 1]
              /\ sta_pending' = [sta_pending EXCEPT
                                    ![ac][s] = Append(@, npkt'[ac][s])]
              /\ sta_queue' = [sta_queue EXCEPT
                                    ![ac] = IF Contains(@, s) THEN @
                                                              ELSE Append(@, s)]
            BY <1>2, <2>3, <3>1 DEF hal_xmit
        <3>3. npkt' \in [AcSet -> [Stations -> Nat]]
            BY <3>2 DEF FlowInv, FlowTypes
        <3>4. sta_pending' \in [AcSet -> [Stations -> Seq(Nat)]]
            BY <3>2, <3>3 DEF FlowInv, FlowTypes
        <3>5. sta_queue' \in [AcSet -> Seq(Stations)]
            BY <3>2 DEF FlowInv, FlowTypes
        <3> QED BY <2>1, <2>2, <3>3, <3>4, <3>5
                DEF FlowInv, FlowTypes, AbufInv, Ac
    <2>4. CASE entry[ac] \notin linked
        <3>1. UNCHANGED <<npkt, sta_pending, sta_queue>>
            BY <1>2, <2>4 DEF hal_xmit
        <3> QED BY <2>1, <2>2, <3>1 DEF FlowInv, FlowTypes, AbufInv, Ac
    <2> QED BY <2>3, <2>4
<1> QED BY <1>1, <1>2 DEF Stack

\* The writer, and a count it hands over.
LEMMA WriterFlow == ASSUME FlowInv, Writer \/ stop_up PROVE FlowInv'
<1>1. UNCHANGED <<linked, entry, npkt, sta_pending, sta_queue, todo, aidx, abuf>>
    BY DEF Writer, writer_wait, writer_select, writer_pages, writer_refresh,
           writer_oqt, writer_write, writer_sema_up, stop_up, frames, aggr
<1>2. apc' = apc \/ (apc = "asleep" /\ apc' = "give_back")
    BY DEF Writer, writer_wait, writer_select, writer_pages, writer_refresh,
           writer_oqt, writer_write, writer_sema_up, stop_up, aggr,
           rtw_sdio_free_xmitbuf_sema_up
<1>3. wbuf' \in Bufs /\ pending_xmitbuf_queue' \in Seq(Bufs)
    <2>1. CASE writer_select
        <3>1. CASE UNCHANGED <<wbuf, pending_xmitbuf_queue>>
            BY <3>1 DEF FlowInv, FlowTypes
        <3>2. CASE \E i \in 1 .. Len(pending_xmitbuf_queue) :
                      /\ wbuf' = pending_xmitbuf_queue[i]
                      /\ pending_xmitbuf_queue'
                            = RemoveAt(pending_xmitbuf_queue, i)
            BY <3>2, RemoveAtType DEF FlowInv, FlowTypes
        <3> DEFINE q     == pending_xmitbuf_queue
                   mgnts == {i \in 1 .. Len(q) : q[i].tag = "mgnt"}
                   may   == IF mgnts # {} THEN mgnts
                            ELSE IF scanning THEN {} ELSE 1 .. Len(q)
                   first == {i \in may : \A j \in may : i <= j}
        <3>3. first \subseteq 1 .. Len(q)
            OBVIOUS
        <3>4. \/ UNCHANGED <<wbuf, q>>
              \/ \E i \in first : wbuf' = q[i] /\ q' = RemoveAt(q, i)
            <4> HIDE DEF first
            <4> QED BY <2>1, Zenon DEF writer_select, first
        <3> QED BY <3>1, <3>2, <3>3, <3>4
    <2>2. CASE writer_pages
        <3>1. wbuf' \in {wbuf, NoBuf}
            BY <2>2 DEF writer_pages, free_wbuf
        <3>2. pending_xmitbuf_queue' = pending_xmitbuf_queue
              \/ pending_xmitbuf_queue' = <<wbuf>> \o pending_xmitbuf_queue
            BY <2>2 DEF writer_pages, enqueue_pending_xmitbuf_to_head
        <3>3. wbuf \in Bufs /\ NoBuf \in Bufs /\ pending_xmitbuf_queue \in Seq(Bufs)
            BY BufTypes DEF FlowInv, FlowTypes
        <3>4. <<wbuf>> \o pending_xmitbuf_queue \in Seq(Bufs)
            BY <3>3
        <3> QED BY <3>1, <3>2, <3>3, <3>4
    <2>3. CASE writer_oqt \/ writer_write
        BY <2>3, BufTypes
        DEF writer_oqt, writer_write, free_wbuf, FlowInv, FlowTypes
    <2>4. CASE writer_wait \/ writer_refresh \/ writer_sema_up \/ stop_up
        BY <2>4 DEF writer_wait, writer_refresh, writer_sema_up, stop_up,
                    writer, FlowInv, FlowTypes
    <2> QED BY <2>1, <2>2, <2>3, <2>4 DEF Writer
<1> QED BY <1>1, <1>2, <1>3 DEF FlowInv, FlowTypes, AbufInv, Ac

\* Steps of the aggregator that take no packet and own no buffer afterwards.
LEMMA AggIdleFlow ==
    ASSUME FlowInv, agg_wait \/ agg_next \/ agg_return \/ agg_unavail
    PROVE  FlowInv'
<1>1. UNCHANGED <<linked, entry, npkt, sta_pending, sta_queue, todo, abuf, wbuf,
                  pending_xmitbuf_queue>>
    BY DEF agg_wait, agg_next, agg_return, agg_unavail, frames, writer
<1>2. aidx' \in {aidx, 1}
    BY DEF agg_wait, agg_next, agg_return, agg_unavail
<1>3. apc \notin {"sta", "down"} /\ apc' \notin {"sta", "down"}
    BY DEF agg_wait, agg_next, agg_return, agg_unavail
<1> QED BY <1>1, <1>2, <1>3 DEF FlowInv, FlowTypes, AbufInv

\* The next category.
LEMMA AggAcFlow == ASSUME FlowInv, agg_ac PROVE FlowInv'
<1>1. /\ apc = "ac"
      /\ UNCHANGED <<linked, entry, npkt, sta_pending, sta_queue, aidx, abuf, wbuf,
                     pending_xmitbuf_queue>>
    BY DEF agg_ac, frames, writer
<1>2. abuf = NoBuf
    BY <1>1 DEF FlowInv, AbufInv
<1>3. CASE aidx > Len(Acs)
    BY <1>1, <1>2, <1>3 DEF agg_ac, FlowInv, FlowTypes, AbufInv
<1>4. CASE ~(aidx > Len(Acs))
    <2>1. aidx \in DOMAIN Acs
        BY <1>4, SdioXmitAssumption
        DEF SdioXmitAssumption, FlowInv, FlowTypes
    <2>2. Ac \in AcSet
        BY <2>1, AcType
    <2>3. todo' \in {todo, sta_queue[Ac]}
        BY <1>4, Zenon DEF agg_ac
    <2>4. todo' \in Seq(Stations)
        BY <2>2, <2>3 DEF FlowInv, FlowTypes
    <2> QED BY <1>1, <1>2, <2>1, <2>4 DEF FlowInv, FlowTypes, AbufInv
<1> QED BY <1>3, <1>4

\* Leaving the loop over the stations.
LEMMA LeaveFlow ==
    ASSUME FlowInv, apc = "sta", NEW s \in Stations, NEW err,
           leave_station(s, err)
    PROVE  /\ todo' \in Seq(Stations) /\ apc' = "down"
           /\ sta_queue' \in [AcSet -> Seq(Stations)]
<1>1. Ac \in AcSet
    BY AcType DEF FlowInv, AbufInv
<1>2. list_delete(sta_queue[Ac], s) \in Seq(Stations)
    BY <1>1, ListDeleteType DEF FlowInv, FlowTypes
<1>3. Append(list_delete(sta_queue[Ac], s), s) \in Seq(Stations)
    BY <1>2
<1>4. sta_queue' \in [AcSet -> Seq(Stations)]
    BY <1>1, <1>3 DEF leave_station, FlowInv, FlowTypes
<1> QED BY <1>4 DEF leave_station

\* The station at hand.
LEMMA AtFrame ==
    ASSUME FlowInv, at_frame
    PROVE  /\ apc = "sta" /\ Ac \in AcSet /\ Head(todo) \in Stations
           /\ sta_pending[Ac][Head(todo)] \in Seq(Nat)
           /\ sta_pending[Ac][Head(todo)] # <<>>
<1>1. Ac \in AcSet
    BY AcType DEF at_frame, FlowInv, AbufInv
<1>2. Head(todo) \in Stations
    BY DEF at_frame, FlowInv, FlowTypes
<1> QED BY <1>1, <1>2 DEF at_frame, FlowInv, FlowTypes

\* A full buffer is handed over, an empty one is taken, a packet is copied.
LEMMA AggCopyFlow ==
    ASSUME FlowInv, agg_full \/ agg_alloc \/ agg_coalesce
    PROVE  FlowInv'
<1>0. at_frame
    BY DEF agg_full, agg_alloc, agg_coalesce
<1>1. /\ apc = "sta" /\ Ac \in AcSet /\ Head(todo) \in Stations
      /\ sta_pending[Ac][Head(todo)] \in Seq(Nat)
      /\ sta_pending[Ac][Head(todo)] # <<>>
    BY <1>0, AtFrame
<1>2. UNCHANGED <<linked, entry, npkt, aidx, wbuf>>
    BY DEF agg_full, agg_alloc, agg_coalesce, writer
<1>3. CASE agg_full
    <2>1. abuf' = NoBuf /\ UNCHANGED sta_pending
          /\ pending_xmitbuf_queue' = Append(pending_xmitbuf_queue, abuf)
        BY <1>3 DEF agg_full, enqueue_pending_xmitbuf
    <2>2. /\ todo' \in Seq(Stations) /\ apc' \in {"sta", "down"}
          /\ sta_queue' \in [AcSet -> Seq(Stations)]
        BY <1>1, <1>3, LeaveFlow DEF agg_full, FlowInv, FlowTypes
    <2>3. abuf' \in Bufs /\ pending_xmitbuf_queue' \in Seq(Bufs)
        BY <2>1, BufTypes DEF FlowInv, FlowTypes
    <2>4. FlowTypes'
        BY <1>2, <2>1, <2>2, <2>3 DEF FlowInv, FlowTypes
    <2>5. AbufInv'
        BY <1>1, <1>2, <2>1 DEF FlowInv, AbufInv
    <2> QED BY <2>4, <2>5 DEF FlowInv
<1>4. CASE agg_alloc
    <2>1. UNCHANGED <<sta_pending, pending_xmitbuf_queue>>
        BY <1>4 DEF agg_alloc
    <2>2. /\ todo' \in Seq(Stations) /\ apc' \in {"sta", "down"}
          /\ sta_queue' \in [AcSet -> Seq(Stations)]
        BY <1>1, <1>4, LeaveFlow DEF agg_alloc, FlowInv, FlowTypes
    <2>3. abuf' \in {NoBuf, Data(Ac, <<>>)}
        BY <1>4 DEF agg_alloc
    <2>4. abuf' \in Bufs /\ (abuf' # NoBuf => abuf'.tag = "data" /\ abuf'.ac = Ac)
        BY <1>1, <2>3, BufTypes DEF Data
    <2>5. Ac' = Ac
        BY <1>2 DEF Ac
    <2> QED BY <1>1, <1>2, <2>1, <2>2, <2>4, <2>5 DEF FlowInv, FlowTypes, AbufInv
<1>5. CASE agg_coalesce
    <2> DEFINE s == Head(todo)
               p == <<s, Head(sta_pending[Ac][s])>>
    <2>1. /\ UNCHANGED <<sta_queue, todo, apc, pending_xmitbuf_queue>>
          /\ sta_pending' = [sta_pending EXCEPT ![Ac][s] = Tail(@)]
          /\ abuf' \in {abuf, [abuf EXCEPT !.pkts = Append(@, p)]}
          /\ abuf # NoBuf
        BY <1>5 DEF agg_coalesce, no_room
    <2>2. sta_pending' \in [AcSet -> [Stations -> Seq(Nat)]]
        BY <1>1, <2>1 DEF FlowInv, FlowTypes
    <2>3. Append(abuf.pkts, p) \in Seq(Stations \X Nat)
        BY <1>1 DEF FlowInv, FlowTypes, Bufs
    <2>4. abuf' \in Bufs /\ abuf'.tag = abuf.tag /\ abuf'.ac = abuf.ac
        <3> DEFINE b == [abuf EXCEPT !.pkts = Append(@, p)]
        <3>1. abuf \in Bufs
            BY DEF FlowInv, FlowTypes
        <3>2. b \in Bufs /\ b.tag = abuf.tag /\ b.ac = abuf.ac
            <4> HIDE DEF p
            <4> QED BY <2>3, <3>1 DEF Bufs
        <3> HIDE DEF b
        <3> QED BY <2>1, <3>1, <3>2 DEF b
    <2>5. Ac' = Ac
        BY <1>2 DEF Ac
    <2> QED BY <1>1, <1>2, <2>1, <2>2, <2>4, <2>5 DEF FlowInv, FlowTypes, AbufInv
<1> QED BY <1>3, <1>4, <1>5

\* The end of a station, of the lock and of a category.
LEMMA AggEndFlow ==
    ASSUME FlowInv, agg_station_done \/ agg_sema_down \/ agg_flush
    PROVE  FlowInv'
<1>1. /\ apc \in {"sta", "down"}
      /\ UNCHANGED <<linked, entry, npkt, sta_pending, wbuf>>
    BY DEF agg_station_done, agg_sema_down, agg_flush, frames, writer
<1>2. CASE agg_sema_down
    BY <1>2, FlowSame DEF agg_sema_down, flow, frames, writer
<1>3. CASE agg_station_done
    <2>1. Ac \in AcSet
        BY <1>1, AcType DEF FlowInv, AbufInv
    <2>2. UNCHANGED <<aidx, abuf, pending_xmitbuf_queue>>
          /\ apc' \in {"sta", "down"}
        BY <1>3 DEF agg_station_done
    <2>3. todo' \in Seq(Stations)
        <3>1. \/ todo' = todo \/ todo' = <<>>
              \/ todo # <<>> /\ todo' = Tail(todo)
            BY <1>3, Zenon DEF agg_station_done
        <3>2. todo \in Seq(Stations)
            BY DEF FlowInv, FlowTypes
        <3>3. /\ <<>> \in Seq(Stations)
              /\ todo # <<>> => Tail(todo) \in Seq(Stations)
            BY <3>2
        <3> QED BY <3>1, <3>2, <3>3
    <2>4. list_delete(sta_queue[Ac], Head(todo)) \in Seq(Stations)
        BY <2>1, ListDeleteType DEF FlowInv, FlowTypes
    <2>5. sta_queue' \in [AcSet -> Seq(Stations)]
        BY <1>3, <2>1, <2>4 DEF agg_station_done, FlowInv, FlowTypes
    <2> QED BY <1>1, <2>2, <2>3, <2>5 DEF FlowInv, FlowTypes, AbufInv, Ac
<1>4. CASE agg_flush
    <2>1. abuf' = NoBuf /\ UNCHANGED <<sta_queue, todo>>
          /\ apc' \in {"ret", "ac"} /\ aidx' \in {aidx, aidx + 1}
        BY <1>4 DEF agg_flush
    <2>2. pending_xmitbuf_queue' = pending_xmitbuf_queue
          \/ pending_xmitbuf_queue' = Append(pending_xmitbuf_queue, abuf)
        BY <1>4, Zenon DEF agg_flush, enqueue_pending_xmitbuf
    <2>3. pending_xmitbuf_queue' \in Seq(Bufs)
        <3>1. pending_xmitbuf_queue \in Seq(Bufs) /\ abuf \in Bufs
            BY DEF FlowInv, FlowTypes
        <3>2. Append(pending_xmitbuf_queue, abuf) \in Seq(Bufs)
            BY <3>1
        <3> QED BY <2>2, <3>1, <3>2
    <2>4. aidx' \in Nat \ {0}
        BY <2>1 DEF FlowInv, FlowTypes
    <2> QED BY <1>1, <2>1, <2>3, <2>4, BufTypes DEF FlowInv, FlowTypes, AbufInv
<1> QED BY <1>2, <1>3, <1>4

\* Stations that come and go.
LEMMA StaFlow == ASSUME FlowInv, NEW s \in Stations, Sta(s) PROVE FlowInv'
<1>1. UNCHANGED <<entry, npkt, todo, aidx, apc, abuf, wbuf,
                  pending_xmitbuf_queue>>
    BY DEF Sta, rtw_free_stainfo, free_xmitframe_queues, rtw_alloc_stainfo,
           aggr, writer
<1>2. linked' \subseteq Stations
    BY DEF Sta, rtw_free_stainfo, free_xmitframe_queues, rtw_alloc_stainfo,
           FlowInv, FlowTypes
<1>3. /\ sta_pending' \in [AcSet -> [Stations -> Seq(Nat)]]
      /\ sta_queue' \in [AcSet -> Seq(Stations)]
    <2>1. CASE free_xmitframe_queues(s)
        <3>1. sta_pending' \in [AcSet -> [Stations -> Seq(Nat)]]
            BY <2>1 DEF free_xmitframe_queues, FlowInv, FlowTypes
        <3>2. \A ac \in AcSet : list_delete(sta_queue[ac], s) \in Seq(Stations)
            BY ListDeleteType DEF FlowInv, FlowTypes
        <3> QED BY <2>1, <3>1, <3>2 DEF free_xmitframe_queues
    <2>2. CASE rtw_free_stainfo(s) \/ rtw_alloc_stainfo(s)
        BY <2>2 DEF rtw_free_stainfo, rtw_alloc_stainfo, FlowInv, FlowTypes
    <2> QED BY <2>1, <2>2 DEF Sta
<1> QED BY <1>1, <1>2, <1>3 DEF FlowInv, FlowTypes, AbufInv, Ac

\* Every step keeps the flow's invariant.
LEMMA FlowStep == ASSUME FlowInv, [Next]_vars PROVE FlowInv'
<1>1. CASE Aggregator
    BY <1>1, AggIdleFlow, AggAcFlow, AggCopyFlow, AggEndFlow DEF Aggregator
<1>2. CASE mgnt_xmit
    <2>1. UNCHANGED <<linked, entry, npkt, sta_pending, sta_queue, todo, aidx,
                      apc, abuf, wbuf>>
          /\ pending_xmitbuf_queue' = Append(pending_xmitbuf_queue, Mgnt)
        BY <1>2 DEF mgnt_xmit, frames, aggr, writer
    <2> QED BY <2>1, BufTypes DEF FlowInv, FlowTypes, AbufInv, Ac
<1>3. \/ Chip \/ Scan \/ rtw_dev_unload \/ stop_writer \/ stop_down \/ stop_done
      \/ UNCHANGED vars
      => UNCHANGED flow
    BY DEF Chip, chip_send, sd_int_dpc, fw_sleep, cpwm_int_hdl, Scan, scan_start,
           scan_end, rtw_os_xmit_schedule, rtw_dev_unload, stop_writer,
           stop_down, stop_done, vars, flow, frames, aggr, writer
<1> QED BY <1>1, <1>2, <1>3, StackFlow, WriterFlow, StaFlow, FlowSame
        DEF Next, Stopping

\* It holds of an interface that has just been opened.
LEMMA FlowInit == ASSUME Init PROVE FlowInv
<1>1. FlowTypes
    BY BufTypes DEF Init, FlowTypes
<1>2. AbufInv
    BY DEF Init, AbufInv
<1> QED BY <1>1, <1>2 DEF FlowInv

\* FlowInv is an invariant.
LEMMA FlowAlways == Spec => []FlowInv
<1>1. Init => FlowInv
    BY FlowInit
<1>2. FlowInv /\ [Next]_vars => FlowInv'
    BY FlowStep
<1> QED BY <1>1, <1>2, PTL DEF Spec

-----------------------------------------------------------------------------
(* Buffers and the semaphore that counts them                              *)

\* The aggregator owes counts only while it has the lock or pays them back.
SemaInv ==
    /\ free_xmitbuf_cnt \in Nat /\ consume \in Nat
    /\ sdio_free_xmitbuf_sema \in Nat
    /\ apc \notin {"sta", "down"} => consume = 0
    /\ SemaMatches

counted == <<free_xmitbuf_cnt, consume, sdio_free_xmitbuf_sema, apc, wpc, spc>>

\* What is under way between a pool and its semaphore.
Under == borrowed - uncounted - taken

\* The balance in one sum, here and in the next state.
LEMMA Balance ==
    ASSUME free_xmitbuf_cnt \in Nat, consume \in Nat,
           sdio_free_xmitbuf_sema \in Nat
    PROVE  /\ Under \in Int
           /\ SemaMatches <=>
                sdio_free_xmitbuf_sema = free_xmitbuf_cnt + consume + Under
BY DEF SemaMatches, Under, borrowed, uncounted, taken

\* It is enough to balance the next state.
LEMMA BalanceNext ==
    ASSUME free_xmitbuf_cnt' \in Nat, consume' \in Nat,
           sdio_free_xmitbuf_sema' \in Nat,
           sdio_free_xmitbuf_sema' = free_xmitbuf_cnt' + consume' + Under',
           apc' \notin {"sta", "down"} => consume' = 0
    PROVE  SemaInv'
<1>1. borrowed' \in Int /\ uncounted' \in Int /\ taken' \in Int
    BY DEF borrowed, uncounted, taken
<1>2. SemaMatches'
    BY <1>1 DEF SemaMatches, Under
<1> QED BY <1>2 DEF SemaInv

\* The aggregator takes, pays for and gives back counts.
LEMMA SemaAggregator == ASSUME SemaInv, Aggregator PROVE SemaInv'
<1>0. /\ free_xmitbuf_cnt \in Nat /\ consume \in Nat
      /\ sdio_free_xmitbuf_sema \in Nat
      /\ apc \notin {"sta", "down"} => consume = 0
      /\ Under \in Int
      /\ sdio_free_xmitbuf_sema = free_xmitbuf_cnt + consume + Under
    BY Balance DEF SemaInv
<1>1. UNCHANGED <<wpc, spc>>
    BY DEF Aggregator, agg_wait, agg_next, agg_ac, agg_full, agg_alloc,
           agg_coalesce, agg_station_done, agg_sema_down, agg_flush, agg_return,
           agg_unavail, writer
<1>2. apc # "give_back" /\ apc' # "give_back" => Under' = Under
    BY <1>1 DEF Under, borrowed, uncounted, taken
<1>3. CASE agg_wait \/ agg_next \/ agg_return
    <2>1. /\ UNCHANGED <<free_xmitbuf_cnt, consume, sdio_free_xmitbuf_sema>>
          /\ apc \in {"wait", "next", "ret"}
          /\ apc' \in {"next", "exit", "ac", "wait", "unavail"}
        BY <1>3 DEF agg_wait, agg_next, agg_return, pools
    <2> QED BY <1>0, <1>2, <2>1, BalanceNext
<1>4. CASE agg_ac
    <2>1. /\ UNCHANGED <<free_xmitbuf_cnt, sdio_free_xmitbuf_sema>>
          /\ apc = "ac" /\ apc' \in {"ret", "sta"} /\ consume' \in {consume, 0}
        BY <1>4 DEF agg_ac, pools
    <2> QED BY <1>0, <1>2, <2>1, BalanceNext
<1>5. CASE agg_full \/ agg_coalesce \/ agg_station_done
    <2>1. /\ UNCHANGED <<free_xmitbuf_cnt, consume, sdio_free_xmitbuf_sema>>
          /\ apc = "sta" /\ apc' \in {"sta", "down"}
        BY <1>5 DEF agg_full, agg_coalesce, agg_station_done, at_frame,
                    leave_station, pools
    <2> QED BY <1>0, <1>2, <2>1, BalanceNext
<1>6. CASE agg_alloc
    <2>1. /\ UNCHANGED sdio_free_xmitbuf_sema
          /\ apc = "sta" /\ apc' \in {"sta", "down"}
        BY <1>6 DEF agg_alloc, at_frame, leave_station
    <2>2. \/ /\ free_xmitbuf_cnt > 0
             /\ free_xmitbuf_cnt' = free_xmitbuf_cnt - 1
             /\ consume' = consume + 1
          \/ UNCHANGED <<free_xmitbuf_cnt, consume>>
        BY <1>6 DEF agg_alloc
    <2> QED BY <1>0, <1>2, <2>1, <2>2, BalanceNext
<1>7. CASE agg_sema_down
    <2>1. /\ apc = "down" /\ apc' = "down" /\ consume > 0
          /\ sdio_free_xmitbuf_sema > 0
          /\ sdio_free_xmitbuf_sema' = sdio_free_xmitbuf_sema - 1
          /\ consume' = consume - 1 /\ UNCHANGED free_xmitbuf_cnt
        BY <1>7 DEF agg_sema_down
    <2> QED BY <1>0, <1>2, <2>1, BalanceNext
<1>8. CASE agg_flush
    <2>1. /\ apc = "down" /\ apc' \in {"ret", "ac"} /\ consume = 0 /\ consume' = 0
        BY <1>8 DEF agg_flush
    <2>2. \/ UNCHANGED <<free_xmitbuf_cnt, sdio_free_xmitbuf_sema>>
          \/ /\ free_xmitbuf_cnt' = free_xmitbuf_cnt + 1
             /\ sdio_free_xmitbuf_sema' = sdio_free_xmitbuf_sema + 1
        BY <1>8 DEF agg_flush, free_empty
    <2>3. Under' = Under
        BY <1>2, <2>1
    <2> QED BY <1>0, <2>1, <2>2, <2>3, BalanceNext
<1>9. CASE agg_unavail
    <2>1. UNCHANGED <<free_xmitbuf_cnt, consume>>
        BY <1>9 DEF agg_unavail
    <2>2. CASE /\ apc = "unavail" /\ sdio_free_xmitbuf_sema > 0
               /\ sdio_free_xmitbuf_sema' = sdio_free_xmitbuf_sema - 1
               /\ apc' = "give_back"
        <3>1. Under' = Under - 1
            BY <1>1, <2>2 DEF Under, borrowed, uncounted, taken
        <3> QED BY <1>0, <2>1, <2>2, <3>1, BalanceNext
    <2>3. CASE /\ apc = "unavail" /\ apc' = "asleep"
               /\ UNCHANGED sdio_free_xmitbuf_sema
        BY <1>0, <1>2, <2>1, <2>3, BalanceNext
    <2>4. CASE /\ apc = "give_back" /\ apc' = "next"
               /\ sdio_free_xmitbuf_sema' = sdio_free_xmitbuf_sema + 1
        <3>1. Under' = Under + 1
            BY <1>1, <2>4 DEF Under, borrowed, uncounted, taken
        <3> QED BY <1>0, <2>1, <2>4, <3>1, BalanceNext
    <2> QED BY <1>9, <2>2, <2>3, <2>4 DEF agg_unavail
<1> QED BY <1>3, <1>4, <1>5, <1>6, <1>7, <1>8, <1>9 DEF Aggregator

\* An up is paid to the pool of counts or to the sleeping aggregator.
LEMMA SemaUp ==
    ASSUME SemaInv, rtw_sdio_free_xmitbuf_sema_up,
           UNCHANGED <<free_xmitbuf_cnt, consume>>,
           borrowed' - uncounted' = borrowed - uncounted + 1
    PROVE  SemaInv'
<1>0. /\ free_xmitbuf_cnt \in Nat /\ consume \in Nat
      /\ sdio_free_xmitbuf_sema \in Nat
      /\ apc \notin {"sta", "down"} => consume = 0
      /\ Under \in Int
      /\ sdio_free_xmitbuf_sema = free_xmitbuf_cnt + consume + Under
    BY Balance DEF SemaInv
<1>1. CASE apc = "asleep" /\ apc' = "give_back" /\ UNCHANGED sdio_free_xmitbuf_sema
    <2>1. Under' = Under
        BY <1>1 DEF Under, borrowed, uncounted, taken
    <2> QED BY <1>0, <1>1, <2>1, BalanceNext
<1>2. CASE /\ sdio_free_xmitbuf_sema' = sdio_free_xmitbuf_sema + 1
           /\ UNCHANGED apc
    <2>1. Under' = Under + 1
        BY <1>2 DEF Under, borrowed, uncounted, taken
    <2> QED BY <1>0, <1>2, <2>1, BalanceNext
<1> QED BY <1>1, <1>2 DEF rtw_sdio_free_xmitbuf_sema_up

\* The writer frees a buffer and then counts it.
LEMMA SemaWriter == ASSUME SemaInv, Writer PROVE SemaInv'
<1>0. /\ free_xmitbuf_cnt \in Nat /\ consume \in Nat
      /\ sdio_free_xmitbuf_sema \in Nat
      /\ apc \notin {"sta", "down"} => consume = 0
      /\ Under \in Int
      /\ sdio_free_xmitbuf_sema = free_xmitbuf_cnt + consume + Under
    BY Balance DEF SemaInv
<1>1. UNCHANGED <<consume, spc>>
    BY DEF Writer, writer_wait, writer_select, writer_pages, writer_refresh,
           writer_oqt, writer_write, writer_sema_up, aggr
<1>2. CASE writer_wait \/ writer_select \/ writer_refresh
    <2>1. /\ UNCHANGED <<free_xmitbuf_cnt, sdio_free_xmitbuf_sema, apc>>
          /\ wpc # "up" /\ wpc' # "up"
        BY <1>2 DEF writer_wait, writer_select, writer_refresh, pools, aggr
    <2>2. Under' = Under
        BY <1>1, <2>1 DEF Under, borrowed, uncounted, taken
    <2> QED BY <1>0, <1>1, <2>1, <2>2, BalanceNext
<1>3. CASE writer_pages \/ writer_oqt \/ writer_write
    <2>1. /\ UNCHANGED <<sdio_free_xmitbuf_sema, apc>> /\ wpc # "up"
          /\ \/ UNCHANGED free_xmitbuf_cnt /\ wpc' # "up"
             \/ free_xmitbuf_cnt' = free_xmitbuf_cnt + 1 /\ wpc' = "up"
        BY <1>3 DEF writer_pages, writer_oqt, writer_write, free_wbuf, aggr
    <2>2. CASE UNCHANGED free_xmitbuf_cnt /\ wpc' # "up"
        <3>1. Under' = Under
            BY <1>1, <2>1, <2>2 DEF Under, borrowed, uncounted, taken
        <3> QED BY <1>0, <1>1, <2>1, <2>2, <3>1, BalanceNext
    <2>3. CASE free_xmitbuf_cnt' = free_xmitbuf_cnt + 1 /\ wpc' = "up"
        <3>1. Under' = Under - 1
            BY <1>1, <2>1, <2>3 DEF Under, borrowed, uncounted, taken
        <3> QED BY <1>0, <1>1, <2>1, <2>3, <3>1, BalanceNext
    <2> QED BY <2>1, <2>2, <2>3
<1>4. CASE writer_sema_up
    <2>1. UNCHANGED free_xmitbuf_cnt /\ wpc = "up" /\ wpc' = "select"
          /\ rtw_sdio_free_xmitbuf_sema_up
        BY <1>4 DEF writer_sema_up
    <2>2. borrowed' - uncounted' = borrowed - uncounted + 1
        BY <1>1, <2>1 DEF borrowed, uncounted
    <2> QED BY <1>1, <2>1, <2>2, SemaUp
<1> QED BY <1>2, <1>3, <1>4 DEF Writer

\* Unloading borrows one count and takes it back.
LEMMA SemaStopping == ASSUME SemaInv, Stopping \/ rtw_dev_unload PROVE SemaInv'
<1>0. /\ free_xmitbuf_cnt \in Nat /\ consume \in Nat
      /\ sdio_free_xmitbuf_sema \in Nat
      /\ apc \notin {"sta", "down"} => consume = 0
      /\ Under \in Int
      /\ sdio_free_xmitbuf_sema = free_xmitbuf_cnt + consume + Under
    BY Balance DEF SemaInv
<1>1. UNCHANGED <<free_xmitbuf_cnt, consume, wpc>>
    BY DEF Stopping, stop_writer, stop_up, stop_down, stop_done,
           rtw_dev_unload, pools, aggr, writer
<1>2. CASE stop_writer \/ stop_done \/ rtw_dev_unload
    <2>1. /\ UNCHANGED <<sdio_free_xmitbuf_sema, apc>>
          /\ spc # "down" /\ spc' # "down"
        BY <1>2 DEF stop_writer, stop_done, rtw_dev_unload, pools, aggr
    <2>2. Under' = Under
        BY <1>1, <2>1 DEF Under, borrowed, uncounted, taken
    <2> QED BY <1>0, <1>1, <2>1, <2>2, BalanceNext
<1>3. CASE stop_up
    <2>1. spc = "writer" /\ spc' = "down" /\ rtw_sdio_free_xmitbuf_sema_up
        BY <1>3 DEF stop_up
    <2>2. borrowed' - uncounted' = borrowed - uncounted + 1
        BY <1>1, <2>1 DEF borrowed, uncounted
    <2> QED BY <1>1, <2>1, <2>2, SemaUp
<1>4. CASE stop_down
    <2>1. /\ spc = "down" /\ spc' = "aggregator" /\ UNCHANGED apc
          /\ sdio_free_xmitbuf_sema > 0
          /\ sdio_free_xmitbuf_sema' = sdio_free_xmitbuf_sema - 1
        BY <1>4 DEF stop_down, aggr
    <2>2. Under' = Under - 1
        BY <1>1, <2>1 DEF Under, borrowed, uncounted, taken
    <2> QED BY <1>0, <1>1, <2>1, <2>2, BalanceNext
<1> QED BY <1>2, <1>3, <1>4 DEF Stopping

\* Every step keeps the counts in balance.
LEMMA SemaStep == ASSUME SemaInv, [Next]_vars PROVE SemaInv'
<1>1. \/ Stack \/ mgnt_xmit \/ Chip \/ Scan \/ (\E s \in Stations : Sta(s))
      \/ UNCHANGED vars
      => UNCHANGED counted
    BY DEF Stack, xmit_entry, hal_xmit, mgnt_xmit, Chip, chip_send, sd_int_dpc,
           fw_sleep, cpwm_int_hdl, Scan, scan_start, scan_end,
           rtw_os_xmit_schedule, Sta, rtw_free_stainfo, free_xmitframe_queues,
           rtw_alloc_stainfo, vars, counted, pools, aggr, writer
<1>2. UNCHANGED counted => SemaInv'
    BY DEF SemaInv, SemaMatches, borrowed, uncounted, taken, counted
<1> QED BY <1>1, <1>2, SemaAggregator, SemaWriter, SemaStopping DEF Next

\* SemaInv is an invariant.
LEMMA SemaAlways == Spec => []SemaInv
<1>1. Init => SemaInv
    BY SdioXmitAssumption
    DEF SdioXmitAssumption, Init, SemaInv, SemaMatches, borrowed, uncounted, taken
<1>2. SemaInv /\ [Next]_vars => SemaInv'
    BY SemaStep
<1> QED BY <1>1, <1>2, PTL DEF Spec

\* For any number of buffers, the count of free ones and the semaphore the
\* aggregator sleeps on differ only by what is under way between
\* rtw_alloc_xmitbuf or rtw_free_xmitbuf and the matching down or up: it never
\* sleeps beside a free buffer for good, and never takes one that is not there.
THEOREM SemaphoreMatches == Spec => []SemaMatches
<1>1. SemaInv => SemaMatches
    BY DEF SemaInv
<1> QED BY <1>1, SemaAlways, PTL

-----------------------------------------------------------------------------
(* Pages                                                                   *)

Written == [q : PageQueues, agg : Nat, own : Nat, pub : Nat]

\* The writer's view and the chip's pages are natural numbers, the view
\* promises no more than there is, and a buffer about to be written fits.
PageInv ==
    /\ SdioTxFIFOFreePage \in [Pages -> Nat] /\ freePage \in [Pages -> Nat]
    /\ fifo \in Seq(Written)
    /\ PagesCovered
    /\ wpc = "oqt" => enough(SdioTxFIFOFreePage, PageIdx[wbuf.ac], pg_num(wbuf))

paged == <<SdioTxFIFOFreePage, freePage, fifo, wpc, wbuf>>

\* What take leaves, of the queue's own pages and of the public ones.
LEMMA TakeResult ==
    ASSUME NEW p \in [Pages -> Nat], NEW q \in PageQueues, NEW m \in Nat,
           enough(p, q, m)
    PROVE  /\ take(p, q, m) \in [Pages -> Nat]
           /\ \A r \in PageQueues : r # q => take(p, q, m)[r] = p[r]
           /\ take(p, q, m)[q] = IF m <= p[q] THEN p[q] - m ELSE 0
           /\ take(p, q, m)["P"] = IF m <= p[q] THEN p["P"]
                                               ELSE p["P"] - (m - p[q])
<1>1. q \in Pages /\ "P" \in Pages /\ q # "P" /\ PageQueues \subseteq Pages
    BY DEF Pages, PageQueues
<1>2. p[q] \in Nat /\ p["P"] \in Nat
    BY <1>1
<1>3. CASE m <= p[q]
    <2>1. take(p, q, m) = [p EXCEPT ![q] = @ - m, !["P"] = @ - (m - m)]
        BY <1>3 DEF take
    <2> QED BY <1>1, <1>2, <1>3, <2>1
<1>4. CASE ~(m <= p[q])
    <2>1. take(p, q, m) = [p EXCEPT ![q] = @ - p[q], !["P"] = @ - (m - p[q])]
        BY <1>4 DEF take
    <2>2. p["P"] - (m - p[q]) \in Nat
        BY <1>2, <1>4 DEF enough
    <2>3. PICK v \in Nat : v = p["P"] - (m - p[q])
        BY <2>2
    <2>4. p[q] - p[q] = 0
        BY <1>2
    <2>5. take(p, q, m) = [p EXCEPT ![q] = 0, !["P"] = v]
        BY <1>1, <2>1, <2>3, <2>4
    <2>6. take(p, q, m) \in [Pages -> Nat]
        BY <1>1, <2>5
    <2>7. /\ take(p, q, m)[q] = 0 /\ take(p, q, m)["P"] = v
          /\ \A r \in PageQueues : r # q => take(p, q, m)[r] = p[r]
        BY <1>1, <2>5 DEF PageQueues
    <2> QED BY <1>4, <2>3, <2>6, <2>7
<1> QED BY <1>3, <1>4

\* Taking the same pages from two views keeps one below the other.
LEMMA TakeMonotone ==
    ASSUME NEW p \in [Pages -> Nat], NEW f \in [Pages -> Nat],
           NEW q \in PageQueues, NEW m \in Nat,
           enough(p, q, m), \A r \in Pages : p[r] <= f[r]
    PROVE  /\ enough(f, q, m)
           /\ \A r \in Pages : take(p, q, m)[r] <= take(f, q, m)[r]
<1>1. q \in Pages /\ "P" \in Pages /\ Pages = PageQueues \cup {"P"}
    BY DEF Pages, PageQueues
<1>2. /\ p[q] \in Nat /\ p["P"] \in Nat /\ f[q] \in Nat /\ f["P"] \in Nat
      /\ p[q] <= f[q] /\ p["P"] <= f["P"]
    BY <1>1
<1>3. enough(f, q, m)
    BY <1>2 DEF enough
<1>4. take(p, q, m)[q] <= take(f, q, m)[q]
    BY <1>2, <1>3, TakeResult
<1>5. take(p, q, m)["P"] <= take(f, q, m)["P"]
    BY <1>2, <1>3, TakeResult
<1>6. \A r \in PageQueues : r # q => take(p, q, m)[r] <= take(f, q, m)[r]
    BY <1>1, <1>3, TakeResult
<1> QED BY <1>1, <1>3, <1>4, <1>5, <1>6

\* The writer takes pages it was shown, asks for new ones or does neither.
LEMMA PageWriter == ASSUME FlowInv, PageInv, Writer PROVE PageInv'
<1>1. CASE writer_wait \/ writer_select \/ writer_sema_up
    <2>1. UNCHANGED <<SdioTxFIFOFreePage, freePage, fifo>> /\ wpc' # "oqt"
        BY <1>1 DEF writer_wait, writer_select, writer_sema_up, chip
    <2> QED BY <2>1 DEF PageInv, PagesCovered
<1>2. CASE writer_refresh
    <2>1. UNCHANGED <<freePage, fifo>> /\ wpc' = "pages"
          /\ SdioTxFIFOFreePage' = freePage
        BY <1>2 DEF writer_refresh, chip
    <2>2. PagesCovered'
        BY <2>1 DEF PageInv, PagesCovered
    <2> QED BY <2>1, <2>2 DEF PageInv
<1>3. CASE writer_pages
    <2>1. UNCHANGED <<SdioTxFIFOFreePage, freePage, fifo>>
        BY <1>3 DEF writer_pages, chip
    <2>2. wpc' = "oqt" => /\ wbuf' = wbuf
                          /\ enough(SdioTxFIFOFreePage, PageIdx[wbuf.ac],
                                    pg_num(wbuf))
        BY <1>3 DEF writer_pages, free_wbuf
    <2> QED BY <2>1, <2>2 DEF PageInv, PagesCovered
<1>4. CASE writer_oqt
    <2>1. /\ UNCHANGED <<SdioTxFIFOFreePage, freePage, fifo>>
          /\ wpc = "oqt" /\ (wpc' = "oqt" => wbuf' = wbuf)
        BY <1>4 DEF writer_oqt, free_wbuf, chip
    <2> QED BY <2>1 DEF PageInv, PagesCovered
<1>5. CASE writer_write
    <2> DEFINE q == PageIdx[wbuf.ac]
               m == pg_num(wbuf)
    <2>1. /\ q \in PageQueues /\ m \in Nat /\ agg_num(wbuf) \in Nat
        BY PageIdxType DEF FlowInv, FlowTypes, pg_num
    <2>2. enough(SdioTxFIFOFreePage, q, m)
        BY <1>5 DEF writer_write, PageInv
    <2>3. /\ SdioTxFIFOFreePage' = take(SdioTxFIFOFreePage, q, m)
          /\ freePage' = take(freePage, q, m)
          /\ fifo' = Append(fifo, [q |-> q, agg |-> agg_num(wbuf),
                                   own |-> freePage[q] - freePage'[q],
                                   pub |-> freePage["P"] - freePage'["P"]])
          /\ wpc' # "oqt"
        BY <1>5 DEF writer_write, rtw_hal_sdio_update_tx_freepage, free_wbuf
    <2> HIDE DEF q, m
    <2>4. /\ SdioTxFIFOFreePage \in [Pages -> Nat]
          /\ freePage \in [Pages -> Nat] /\ fifo \in Seq(Written)
          /\ \A r \in Pages : SdioTxFIFOFreePage[r] <= freePage[r]
        BY DEF PageInv, PagesCovered
    <2>5. /\ enough(freePage, q, m)
          /\ \A r \in Pages : SdioTxFIFOFreePage'[r] <= freePage'[r]
        BY <2>1, <2>2, <2>3, <2>4, TakeMonotone
    <2>6. /\ SdioTxFIFOFreePage' \in [Pages -> Nat]
          /\ freePage' \in [Pages -> Nat]
        BY <2>1, <2>2, <2>3, <2>4, <2>5, TakeResult
    <2>7. /\ freePage[q] - freePage'[q] \in Nat
          /\ freePage["P"] - freePage'["P"] \in Nat
        <3>1. freePage[q] \in Nat /\ freePage["P"] \in Nat
            BY <2>1, <2>4 DEF Pages
        <3>2. /\ freePage'[q] = IF m <= freePage[q] THEN freePage[q] - m ELSE 0
              /\ freePage'["P"] = IF m <= freePage[q] THEN freePage["P"]
                                  ELSE freePage["P"] - (m - freePage[q])
            BY <2>1, <2>3, <2>4, <2>5, TakeResult
        <3>3. freePage[q] - freePage'[q] \in Nat
            BY <2>1, <3>1, <3>2
        <3>4. freePage["P"] - freePage'["P"] \in Nat
            BY <2>1, <3>1, <3>2
        <3> QED BY <3>3, <3>4
    <2>8. fifo' \in Seq(Written)
        BY <2>1, <2>3, <2>4, <2>7 DEF Written
    <2> QED BY <2>3, <2>5, <2>6, <2>8 DEF PageInv, PagesCovered
<1> QED BY <1>1, <1>2, <1>3, <1>4, <1>5 DEF Writer

\* The chip only gives pages back.
LEMMA PageChip ==
    ASSUME PageInv, NEW i \in DOMAIN fifo, chip_send(i)
    PROVE  PageInv'
<1>1. /\ UNCHANGED <<SdioTxFIFOFreePage, wpc, wbuf>>
      /\ freePage' = [freePage EXCEPT ![fifo[i].q] = @ + fifo[i].own,
                                      !["P"] = @ + fifo[i].pub]
      /\ fifo' = RemoveAt(fifo, i)
    BY DEF chip_send, writer
<1>2. fifo[i] \in Written /\ i \in 1 .. Len(fifo)
    BY DEF PageInv
<1>3. /\ fifo[i].q \in Pages /\ fifo[i].q # "P"
      /\ fifo[i].own \in Nat /\ fifo[i].pub \in Nat
    BY <1>2 DEF Written, Pages, PageQueues
<1>4. fifo' \in Seq(Written)
    BY <1>1, <1>2, RemoveAtType DEF PageInv
<1>5. /\ freePage' \in [Pages -> Nat]
      /\ \A r \in Pages : freePage[r] <= freePage'[r]
    <2>1. freePage \in [Pages -> Nat] /\ "P" \in Pages
        BY DEF PageInv, Pages
    <2>2. freePage' = [r \in Pages |->
                          IF r = fifo[i].q THEN freePage[r] + fifo[i].own
                          ELSE IF r = "P" THEN freePage[r] + fifo[i].pub
                          ELSE freePage[r]]
        BY <1>1, <1>3, <2>1
    <2>3. freePage' \in [Pages -> Nat]
        BY <1>3, <2>1, <2>2
    <2>4. \A r \in Pages : freePage[r] <= freePage'[r]
        BY <1>3, <2>1, <2>2
    <2> QED BY <2>3, <2>4
<1>6. PagesCovered'
    <2>1. ASSUME NEW r \in Pages PROVE SdioTxFIFOFreePage'[r] <= freePage'[r]
        <3>1. /\ SdioTxFIFOFreePage[r] \in Nat /\ freePage[r] \in Nat
              /\ freePage'[r] \in Nat /\ SdioTxFIFOFreePage[r] <= freePage[r]
            BY <1>5, <2>1 DEF PageInv, PagesCovered
        <3> QED BY <1>1, <1>5, <2>1, <3>1
    <2> QED BY <2>1 DEF PagesCovered
<1> QED BY <1>1, <1>4, <1>5, <1>6 DEF PageInv

\* Every step keeps the pages' invariant.
LEMMA PageStep == ASSUME FlowInv, PageInv, [Next]_vars PROVE PageInv'
<1>1. \/ Stack \/ mgnt_xmit \/ Aggregator \/ Scan
      \/ (\E s \in Stations : Sta(s)) \/ rtw_dev_unload \/ Stopping
      \/ sd_int_dpc \/ fw_sleep \/ cpwm_int_hdl \/ UNCHANGED vars
      => UNCHANGED paged
    BY DEF Stack, xmit_entry, hal_xmit, mgnt_xmit, Aggregator, agg_wait,
           agg_next, agg_ac, agg_full, agg_alloc, agg_coalesce,
           agg_station_done, agg_sema_down, agg_flush, agg_return, agg_unavail,
           sd_int_dpc, fw_sleep, cpwm_int_hdl, Scan, scan_start, scan_end,
           rtw_os_xmit_schedule, Sta, rtw_free_stainfo, free_xmitframe_queues,
           rtw_alloc_stainfo, rtw_dev_unload, Stopping, stop_writer, stop_up,
           stop_down, stop_done, vars, paged, writer, chip
<1>2. UNCHANGED paged => PageInv'
    BY DEF PageInv, PagesCovered, paged
<1> QED BY <1>1, <1>2, PageWriter, PageChip DEF Next, Chip

\* PageInv is an invariant.
LEMMA PageAlways == Spec => []PageInv
<1>1. Init => PageInv
    <2> SUFFICES ASSUME Init PROVE PageInv
        OBVIOUS
    <2>1. SdioTxFIFOFreePage = Full /\ freePage = Full /\ fifo = <<>>
          /\ wpc = "wait"
        BY DEF Init
    <2>2. Full \in [Pages -> Nat]
        BY SdioXmitAssumption DEF SdioXmitAssumption, Full
    <2> QED BY <2>1, <2>2 DEF PageInv, PagesCovered
<1>2. FlowInv /\ PageInv /\ [Next]_vars => PageInv'
    BY PageStep
<1> QED BY <1>1, <1>2, FlowAlways, PTL DEF Spec

\* For any FIFO layout, the pages the writer counts on
\* (rtw_hal_sdio_query_tx_freepage, rtw_hal_sdio_update_tx_freepage) are never
\* more than the chip has free: _dequeue_writeport never overfills the FIFO.
THEOREM PagesSuffice == Spec => []PagesCovered
<1>1. PageInv => PagesCovered
    BY DEF PageInv
<1> QED BY <1>1, PageAlways, PTL

-----------------------------------------------------------------------------
(* Stopped subqueues                                                       *)

\* A packet of the category is in the driver with its frame.
Copied(ac) == abuf.ac = ac /\ Len(abuf.pkts) > 0
Inside(ac) ==
    entry[ac] # "none" \/ (\E s \in Stations : sta_pending[ac][s] # <<>>)
        \/ Copied(ac)

StoppedInv == stopped \subseteq AcSet /\ \A ac \in stopped : Inside(ac)

\* The stack stops a subqueue with the packet that it takes, and passes a
\* packet on or wakes the subqueue.
LEMMA StoppedStack == ASSUME FlowInv, StoppedInv, Stack PROVE StoppedInv'
<1>1. ASSUME NEW ac \in AcSet, NEW s \in Stations, xmit_entry(ac, s)
      PROVE  StoppedInv'
    <2>1. /\ UNCHANGED <<sta_pending, abuf>> /\ stopped' \subseteq stopped \cup {ac}
          /\ entry' = [entry EXCEPT ![ac] = s] /\ s # "none"
        BY <1>1, SdioXmitAssumption DEF xmit_entry, aggr, SdioXmitAssumption
    <2>2. entry'[ac] # "none" /\ \A c \in AcSet : c # ac => entry'[c] = entry[c]
        BY <2>1 DEF FlowInv, FlowTypes
    <2> QED BY <2>1, <2>2 DEF StoppedInv, Inside, Copied
<1>2. ASSUME NEW ac \in AcSet, hal_xmit(ac)
      PROVE  StoppedInv'
    <2>1. UNCHANGED abuf /\ entry' = [entry EXCEPT ![ac] = "none"]
        BY <1>2 DEF hal_xmit, aggr
    <2>2. \A c \in AcSet : c # ac => entry'[c] = entry[c]
        BY <2>1 DEF FlowInv, FlowTypes
    <2>3. CASE entry[ac] \in linked
        <3>1. PICK s \in Stations : s = entry[ac]
            BY <2>3 DEF FlowInv, FlowTypes
        <3>2. /\ UNCHANGED stopped
              /\ sta_pending' = [sta_pending EXCEPT
                                    ![ac][s] = Append(@, npkt'[ac][s])]
            BY <1>2, <2>3, <3>1 DEF hal_xmit
        <3>3. sta_pending'[ac][s] = Append(sta_pending[ac][s], npkt'[ac][s])
              /\ \A c \in AcSet : c # ac => sta_pending'[c] = sta_pending[c]
            BY <3>2 DEF FlowInv, FlowTypes
        <3>4. sta_pending[ac][s] \in Seq(Nat)
            BY DEF FlowInv, FlowTypes
        <3>5. npkt'[ac][s] \in Nat
            BY <1>2, StackFlow DEF FlowInv, FlowTypes, Stack
        <3>6. sta_pending'[ac][s] # <<>>
            BY <3>3, <3>4, <3>5
        <3> QED BY <2>1, <2>2, <3>2, <3>3, <3>6 DEF StoppedInv, Inside, Copied
    <2>4. CASE entry[ac] \notin linked
        <3>1. UNCHANGED sta_pending /\ stopped' = stopped \ {ac}
            BY <1>2, <2>4 DEF hal_xmit
        <3> QED BY <2>1, <2>2, <3>1 DEF StoppedInv, Inside, Copied
    <2> QED BY <2>3, <2>4
<1> QED BY <1>1, <1>2 DEF Stack

\* A buffer holds packets of the category at hand only.
LEMMA CopiedHere ==
    ASSUME FlowInv, NEW ac, Copied(ac)
    PROVE  ac = Ac
<1>1. abuf # NoBuf
    BY DEF Copied, NoBuf
<1> QED BY <1>1 DEF FlowInv, AbufInv, Copied

\* A buffer that is handed over wakes the subqueue of its packets.
LEMMA StoppedHandOver ==
    ASSUME FlowInv, StoppedInv, UNCHANGED <<entry, sta_pending>>,
           \/ stopped' = stopped \ {Ac}
           \/ stopped' = stopped /\ ~Copied(Ac)
    PROVE  StoppedInv'
<1>1. ASSUME NEW ac \in stopped' PROVE Inside(ac)'
    <2>1. ac \in stopped /\ Inside(ac)
        BY <1>1 DEF StoppedInv
    <2>2. ~Copied(ac)
        BY <1>1, CopiedHere
    <2> QED BY <2>1, <2>2 DEF Inside
<1> QED BY <1>1 DEF StoppedInv

\* The copy of a packet keeps its frame, or frees it and wakes the subqueue.
LEMMA StoppedCoalesce ==
    ASSUME FlowInv, StoppedInv, agg_coalesce
    PROVE  StoppedInv'
<1>1. /\ apc = "sta" /\ Ac \in AcSet /\ Head(todo) \in Stations
      /\ abuf # NoBuf /\ UNCHANGED entry
    BY AtFrame DEF agg_coalesce, no_room
<1>2. abuf.ac = Ac /\ abuf.tag = "data" /\ abuf.pkts \in Seq(Stations \X Nat)
    BY <1>1 DEF FlowInv, FlowTypes, AbufInv, Bufs
<1>3. abuf' \in Bufs /\ abuf'.ac = Ac /\ abuf'.tag = "data"
    <2>1. abuf'.ac = abuf.ac /\ abuf'.tag = abuf.tag
        <3>1. abuf \in Bufs
            BY DEF FlowInv, FlowTypes
        <3>2. \/ abuf' = abuf
              \/ \E x : abuf' = [abuf EXCEPT !.pkts = x]
            BY DEF agg_coalesce
        <3> QED BY <3>1, <3>2 DEF Bufs
    <2>2. abuf' \in Bufs
        BY AggCopyFlow DEF FlowInv, FlowTypes
    <2> QED BY <1>2, <2>1, <2>2
<1>4. \A c \in AcSet : c # Ac => sta_pending'[c] = sta_pending[c]
    <2>1. sta_pending' = [sta_pending EXCEPT ![Ac][Head(todo)] = Tail(@)]
        BY DEF agg_coalesce
    <2> QED BY <1>1, <2>1 DEF FlowInv, FlowTypes
<1>5. CASE keeps(abuf')
    <2>1. UNCHANGED stopped
        BY <1>5 DEF agg_coalesce
    <2>2. abuf'.ac = Ac /\ Len(abuf'.pkts) > 0
        BY <1>3, <1>5 DEF keeps, agg_num
    <2>3. \A c \in AcSet : c # Ac => (Inside(c) => Inside(c)')
        BY <1>1, <1>4, CopiedHere DEF Inside
    <2>4. ASSUME NEW c \in stopped' PROVE Inside(c)'
        <3>1. c \in AcSet /\ Inside(c)
            BY <2>1, <2>4 DEF StoppedInv
        <3>2. CASE c = Ac
            BY <2>2, <3>2 DEF Inside, Copied
        <3>3. CASE c # Ac
            BY <2>3, <3>1, <3>3
        <3> QED BY <3>2, <3>3
    <2> QED BY <2>1, <2>4 DEF StoppedInv
<1>6. CASE ~keeps(abuf')
    <2>1. stopped' = stopped \ {Ac}
        BY <1>6 DEF agg_coalesce
    <2>2. \A c \in AcSet : c # Ac => (Inside(c) => Inside(c)')
        BY <1>1, <1>4, CopiedHere DEF Inside
    <2> QED BY <2>1, <2>2 DEF StoppedInv
<1> QED BY <1>5, <1>6

\* A station that is flushed wakes the subqueues of its packets.
LEMMA StoppedFlush ==
    ASSUME FlowInv, StoppedInv, NEW s \in Stations, free_xmitframe_queues(s)
    PROVE  StoppedInv'
<1>1. /\ UNCHANGED <<entry, abuf>>
      /\ stopped' = {ac \in stopped : sta_pending[ac][s] = <<>>}
      /\ sta_pending' = [ac \in AcSet |-> [sta_pending[ac] EXCEPT ![s] = <<>>]]
    BY DEF free_xmitframe_queues, aggr
<1>2. \A ac \in AcSet, t \in Stations :
         t # s => sta_pending'[ac][t] = sta_pending[ac][t]
    BY <1>1 DEF FlowInv, FlowTypes
<1>3. ASSUME NEW ac \in stopped' PROVE Inside(ac)'
    <2>1. ac \in AcSet /\ Inside(ac) /\ sta_pending[ac][s] = <<>>
        BY <1>1, <1>3 DEF StoppedInv
    <2>2. CASE \E t \in Stations : sta_pending[ac][t] # <<>>
        <3>1. PICK t \in Stations : sta_pending[ac][t] # <<>>
            BY <2>2
        <3>2. sta_pending'[ac][t] # <<>>
            BY <1>2, <2>1, <3>1
        <3> QED BY <3>2 DEF Inside
    <2>3. CASE entry[ac] # "none" \/ Copied(ac)
        BY <1>1, <2>3 DEF Inside, Copied
    <2> QED BY <2>1, <2>2, <2>3 DEF Inside
<1> QED BY <1>1, <1>3 DEF StoppedInv

held == <<stopped, entry, sta_pending, abuf>>

\* Every step keeps it.
LEMMA StoppedStep == ASSUME FlowInv, StoppedInv, [Next]_vars PROVE StoppedInv'
<1>1. ASSUME UNCHANGED held PROVE StoppedInv'
    BY <1>1 DEF StoppedInv, Inside, Copied, held
<1>2. CASE agg_full
    BY <1>2, StoppedHandOver DEF agg_full, enqueue_pending_xmitbuf
<1>3. CASE agg_alloc
    <2>1. ~Copied(Ac) /\ UNCHANGED <<stopped, entry, sta_pending>>
        BY <1>3 DEF agg_alloc, Copied, NoBuf
    <2> QED BY <2>1, StoppedHandOver
<1>4. CASE agg_flush
    <2>1. UNCHANGED <<entry, sta_pending>>
        BY <1>4 DEF agg_flush
    <2>2. \/ stopped' = stopped \ {Ac}
          \/ stopped' = stopped /\ ~Copied(Ac)
        <3>1. CASE abuf = NoBuf
            BY <1>4, <3>1 DEF agg_flush, Copied, NoBuf
        <3>2. CASE abuf # NoBuf /\ agg_num(abuf) > 0
            BY <1>4, <3>2 DEF agg_flush, enqueue_pending_xmitbuf
        <3>3. CASE abuf # NoBuf /\ ~(agg_num(abuf) > 0)
            <4>1. abuf.tag = "data"
                BY <3>3 DEF FlowInv, AbufInv
            <4>2. ~Copied(Ac)
                BY <3>3, <4>1 DEF agg_num, Copied
            <4> QED BY <1>4, <3>3, <4>2 DEF agg_flush
        <3> QED BY <3>1, <3>2, <3>3
    <2> QED BY <2>1, <2>2, StoppedHandOver
<1>5. \/ agg_wait \/ agg_next \/ agg_ac \/ agg_station_done \/ agg_sema_down
      \/ agg_return \/ agg_unavail
      => UNCHANGED held
    BY DEF agg_wait, agg_next, agg_ac, agg_station_done, agg_sema_down,
           agg_return, agg_unavail, held, frames
<1>6. \/ mgnt_xmit \/ Writer \/ Chip \/ Scan \/ rtw_dev_unload \/ Stopping
      \/ UNCHANGED vars
      => UNCHANGED held
    BY DEF mgnt_xmit, Writer, writer_wait, writer_select, writer_pages,
           writer_refresh, writer_oqt, writer_write, writer_sema_up, Chip,
           chip_send, sd_int_dpc, fw_sleep, cpwm_int_hdl, Scan, scan_start,
           scan_end, rtw_os_xmit_schedule, rtw_dev_unload, Stopping,
           stop_writer, stop_up, stop_down, stop_done, vars, held, frames, aggr
<1>7. \A s \in Stations : rtw_free_stainfo(s) \/ rtw_alloc_stainfo(s)
        => UNCHANGED held
    BY DEF rtw_free_stainfo, rtw_alloc_stainfo, held, aggr
<1> QED BY <1>1, <1>2, <1>3, <1>4, <1>5, <1>6, <1>7, StoppedStack,
           StoppedCoalesce, StoppedFlush DEF Next, Aggregator, Sta

\* StoppedInv is an invariant.
LEMMA StoppedAlways == Spec => []StoppedInv
<1>1. Init => StoppedInv
    BY DEF Init, StoppedInv
<1>2. FlowInv /\ StoppedInv /\ [Next]_vars => StoppedInv'
    BY StoppedStep
<1> QED BY <1>1, <1>2, FlowAlways, PTL DEF Spec

\* For any pool of frames and any threshold, a subqueue that
\* rtw_check_xmit_resource stopped has a packet in the driver whose completion
\* (rtw_os_pkt_complete) wakes it, also when a station leaves in between.
THEOREM StoppedIsWoken == Spec => []StoppedHasPacket
<1>1. StoppedInv => StoppedHasPacket
    BY DEF StoppedInv, Inside, Copied, StoppedHasPacket
<1> QED BY <1>1, StoppedAlways, PTL

-----------------------------------------------------------------------------
(* Counting frames and buffers                                             *)

\* The categories are finitely many, and so are the stations.
LEMMA Finite == IsFiniteSet(Stations) /\ IsFiniteSet(AcSet)
<1>1. IsFiniteSet(Stations)
    BY SdioXmitAssumption DEF SdioXmitAssumption
<1>2. IsFiniteSet({"vo", "vi", "be", "bk"})
  <2>1. IsFiniteSet({"vo"})
      BY FS_Singleton
  <2>2. IsFiniteSet({"vo"} \cup {"vi"})
      BY <2>1, FS_AddElement
  <2>3. IsFiniteSet(({"vo"} \cup {"vi"}) \cup {"be"})
      BY <2>2, FS_AddElement
  <2>4. IsFiniteSet((({"vo"} \cup {"vi"}) \cup {"be"}) \cup {"bk"})
      BY <2>3, FS_AddElement
  <2>5. {"vo", "vi", "be", "bk"} = (({"vo"} \cup {"vi"}) \cup {"be"}) \cup {"bk"}
      OBVIOUS
  <2> QED BY <2>4, <2>5
<1>3. AcSet \in SUBSET {"vo", "vi", "be", "bk"}
    BY SdioXmitAssumption DEF SdioXmitAssumption, AcSet
<1> QED BY <1>1, <1>2, <1>3, FS_Subset

\* Frames of the packets in the station queues p and in rtw_xmit, e.
queued(p, ac) == SumFunction([s \in Stations |-> Len(p[ac][s])])
waits(e, ac) == b2n(e[ac] # "none")
inside(p, e) == SumFunction([ac \in AcSet |-> queued(p, ac) + waits(e, ac)])

Queues == [AcSet -> [Stations -> Seq(Nat)]]

\* The sums are natural numbers.
LEMMA InsideType ==
    ASSUME NEW p \in Queues, NEW e
    PROVE  /\ \A ac \in AcSet : queued(p, ac) \in Nat
           /\ inside(p, e) \in Nat
<1>1. ASSUME NEW ac \in AcSet PROVE queued(p, ac) \in Nat
  <2> DEFINE f == [s \in Stations |-> Len(p[ac][s])]
  <2>1. \A s \in Stations : f[s] \in Nat
      BY DEF Queues
  <2>2. DOMAIN f = Stations
      OBVIOUS
  <2> HIDE DEF f
  <2>3. SumFunction(f) \in Nat
      BY <2>1, <2>2, Finite, SumInsert DEF SumFunction
  <2> QED BY <2>3 DEF f, queued
<1>2. inside(p, e) \in Nat
  <2> DEFINE f == [ac \in AcSet |-> queued(p, ac) + waits(e, ac)]
  <2>1. \A ac \in AcSet : f[ac] \in Nat
      BY <1>1 DEF waits, b2n
  <2>2. DOMAIN f = AcSet
      OBVIOUS
  <2> HIDE DEF f
  <2>3. SumFunction(f) \in Nat
      BY <2>1, <2>2, Finite, SumInsert DEF SumFunction
  <2> QED BY <2>3 DEF f, inside
<1> QED BY <1>1, <1>2

\* A packet enters or leaves the queue of station s or rtw_xmit.
LEMMA InsideChange ==
    ASSUME NEW p \in Queues, NEW r \in Queues, NEW e, NEW d,
           NEW ac \in AcSet, NEW s \in Stations,
           \A c \in AcSet : c # ac => r[c] = p[c] /\ d[c] = e[c],
           \A t \in Stations : t # s => r[ac][t] = p[ac][t]
    PROVE  inside(r, d) = inside(p, e)
             - Len(p[ac][s]) + Len(r[ac][s])
             - waits(e, ac) + waits(d, ac)
<1>1. Len(p[ac][s]) \in Nat /\ Len(r[ac][s]) \in Nat
    BY DEF Queues
<1>2. queued(r, ac) = queued(p, ac) - Len(p[ac][s]) + Len(r[ac][s])
  <2> DEFINE f == [t \in Stations |-> Len(p[ac][t])]
             g == [t \in Stations |-> Len(r[ac][t])]
  <2>1. \A t \in Stations : f[t] \in Nat /\ g[t] \in Nat /\ (t # s => g[t] = f[t])
      BY DEF Queues
  <2>2. DOMAIN f = Stations /\ DOMAIN g = Stations
        /\ f[s] = Len(p[ac][s]) /\ g[s] = Len(r[ac][s])
      OBVIOUS
  <2> HIDE DEF f, g
  <2>3. SumFunction(g) = SumFunction(f) - f[s] + g[s]
    <3>1. SumFunctionOnSet(g, Stations) =
            SumFunctionOnSet(f, Stations) - f[s] + g[s]
        BY <2>1, Finite, SumChange
    <3> QED BY <2>2, <3>1 DEF SumFunction
  <2> QED BY <2>2, <2>3 DEF f, g, queued
<1>3. \A c \in AcSet : c # ac => queued(r, c) = queued(p, c)
    BY DEF queued
<1> DEFINE f == [c \in AcSet |-> queued(p, c) + waits(e, c)]
           g == [c \in AcSet |-> queued(r, c) + waits(d, c)]
<1>4. \A c \in AcSet : f[c] \in Nat /\ g[c] \in Nat
    BY InsideType DEF waits, b2n
<1>5. \A c \in AcSet : c # ac => g[c] = f[c]
    BY <1>3 DEF waits
<1>6. DOMAIN f = AcSet /\ DOMAIN g = AcSet
      /\ f[ac] = queued(p, ac) + waits(e, ac)
      /\ g[ac] = queued(r, ac) + waits(d, ac)
    OBVIOUS
<1>7. inside(p, e) = SumFunction(f) /\ inside(r, d) = SumFunction(g)
    BY DEF inside
<1> HIDE DEF f, g
<1>8. /\ SumFunction(f) \in Nat
      /\ SumFunction(g) = SumFunction(f) - f[ac] + g[ac]
    BY <1>4, <1>5, <1>6, Finite, SumChange DEF SumFunction
<1>9. queued(p, ac) \in Nat /\ queued(r, ac) \in Nat
    BY InsideType
<1>10. PICK x \in Int : x = waits(e, ac)
    BY DEF waits, b2n
<1>11. PICK y \in Int : y = waits(d, ac)
    BY DEF waits, b2n
<1>12. f[ac] = queued(p, ac) + x /\ g[ac] = queued(r, ac) + y
    BY <1>6, <1>10, <1>11
<1>13. PICK l \in Nat, m \in Nat : l = Len(p[ac][s]) /\ m = Len(r[ac][s])
    BY <1>1
<1>14. PICK F, P, R \in Nat :
          F = SumFunction(f) /\ P = queued(p, ac) /\ R = queued(r, ac)
    BY <1>8, <1>9
<1>15. R = P - l + m
    BY <1>2, <1>13, <1>14
<1>16. SumFunction(g) = F - (P + x) + (R + y)
    BY <1>8, <1>12, <1>14
<1>17. F - (P + x) + (R + y) = F - l + m - x + y
    BY <1>15
<1> QED BY <1>7, <1>10, <1>11, <1>13, <1>14, <1>16, <1>17

flushed(p, s) == SumFunction([c \in AcSet |-> Len(p[c][s])])

\* A station's queues are emptied.
LEMMA InsideFlush ==
    ASSUME NEW p \in Queues, NEW r \in Queues, NEW e, NEW s \in Stations,
           \A c \in AcSet : r[c] = [p[c] EXCEPT ![s] = <<>>]
    PROVE  /\ flushed(p, s) \in Nat
           /\ inside(p, e) = inside(r, e) + flushed(p, s)
<1> DEFINE f == [c \in AcSet |-> queued(r, c) + waits(e, c)]
           g == [c \in AcSet |-> Len(p[c][s])]
           h == [c \in AcSet |-> queued(p, c) + waits(e, c)]
<1>1. ASSUME NEW c \in AcSet
      PROVE  queued(p, c) = queued(r, c) + Len(p[c][s]) /\ queued(r, c) \in Nat
             /\ Len(p[c][s]) \in Nat
  <2> DEFINE x == [t \in Stations |-> Len(p[c][t])]
             y == [t \in Stations |-> Len(r[c][t])]
  <2>1. \A t \in Stations : x[t] \in Nat /\ y[t] \in Nat /\ (t # s => y[t] = x[t])
      BY DEF Queues
  <2>2. DOMAIN x = Stations /\ DOMAIN y = Stations
        /\ x[s] = Len(p[c][s]) /\ y[s] = 0
      BY DEF Queues
  <2> HIDE DEF x, y
  <2>3. SumFunction(y) = SumFunction(x) - x[s] + y[s]
        /\ SumFunction(x) \in Nat /\ SumFunction(y) \in Nat
      BY <2>1, <2>2, Finite, SumChange DEF SumFunction
  <2>4. SumFunction(x) = SumFunction(y) + x[s]
      BY <2>1, <2>2, <2>3
  <2> QED BY <2>1, <2>2, <2>3, <2>4 DEF x, y, queued
<1>2. ASSUME NEW c \in AcSet
      PROVE  f[c] \in Nat /\ g[c] \in Nat /\ h[c] = f[c] + g[c]
  <2>1. waits(e, c) \in Nat
      BY DEF waits, b2n
  <2> QED BY <1>1, <2>1
<1>3. DOMAIN f = AcSet /\ DOMAIN g = AcSet /\ DOMAIN h = AcSet
      /\ inside(p, e) = SumFunction(h) /\ inside(r, e) = SumFunction(f)
    BY DEF inside
<1> HIDE DEF f, g, h
<1>4. SumFunction(h) = SumFunction(f) + SumFunction(g)
    BY <1>2, <1>3, Finite, SumPlus DEF SumFunction
<1>5. SumFunction(g) \in Nat
    BY <1>2, <1>3, Finite, SumInsert DEF SumFunction
<1> QED BY <1>3, <1>4, <1>5 DEF g, flushed

\* A sequence without its i-th element, place by place.
LEMMA RemoveAtPlaces ==
    ASSUME NEW S, NEW q \in Seq(S), NEW i \in 1 .. Len(q)
    PROVE  /\ RemoveAt(q, i) \in Seq(S) /\ Len(q) - 1 \in Nat
           /\ Len(RemoveAt(q, i)) = Len(q) - 1
           /\ \A k \in 1 .. Len(q) - 1 :
                 RemoveAt(q, i)[k] = IF k < i THEN q[k] ELSE q[k + 1]
<1> DEFINE a == SubSeq(q, 1, i - 1)
           b == SubSeq(q, i + 1, Len(q))
<1>1. Len(q) \in Nat /\ i \in Int /\ 1 <= i /\ i <= Len(q)
    OBVIOUS
<1>2. /\ a \in Seq(S) /\ Len(a) = i - 1
      /\ \A k \in 1 .. i - 1 : a[k] = q[k]
    BY <1>1
<1>3. /\ b \in Seq(S) /\ Len(b) = Len(q) - i
      /\ \A k \in 1 .. Len(q) - i : b[k] = q[i + k]
    BY <1>1
<1>4. RemoveAt(q, i) = a \o b
    BY DEF RemoveAt
<1> HIDE DEF a, b
<1> DEFINE r == a \o b
<1>5. /\ r \in Seq(S) /\ Len(r) = Len(a) + Len(b)
      /\ \A k \in 1 .. Len(a) : r[k] = a[k]
      /\ \A k \in 1 .. Len(b) : r[Len(a) + k] = b[k]
  <2>1. a \in Seq(S) /\ b \in Seq(S)
      BY <1>2, <1>3
  <2>2. r \in Seq(S) /\ Len(r) = Len(a) + Len(b)
      BY <2>1
  <2>3. \A k \in 1 .. Len(a) : r[k] = a[k]
      BY <2>1
  <2>4. ASSUME NEW k \in 1 .. Len(b) PROVE r[Len(a) + k] = b[k]
      BY <2>1
  <2> QED BY <2>2, <2>3, <2>4
<1> HIDE DEF r
<1>6. Len(r) = Len(q) - 1 /\ Len(q) - 1 \in Nat
    BY <1>1, <1>2, <1>3, <1>5
<1>7. ASSUME NEW k \in 1 .. Len(q) - 1
      PROVE  r[k] = IF k < i THEN q[k] ELSE q[k + 1]
  <2>1. CASE k < i
    <3>1. k \in 1 .. i - 1 /\ k \in 1 .. Len(a)
        BY <1>1, <1>2, <2>1
    <3> QED BY <1>2, <1>5, <2>1, <3>1
  <2>2. CASE k >= i
    <3> DEFINE j == k - (i - 1)
    <3>1. /\ j \in 1 .. Len(q) - i /\ j \in 1 .. Len(b)
          /\ Len(a) + j = k /\ i + j = k + 1 /\ ~(k < i)
        BY <1>1, <1>2, <1>3, <2>2
    <3> HIDE DEF j
    <3>2. r[k] = b[j]
        BY <1>5, <3>1
    <3>3. b[j] = q[k + 1]
        BY <1>3, <3>1
    <3> QED BY <3>1, <3>2, <3>3
  <2> QED BY <1>1, <2>1, <2>2
<1> QED BY <1>4, <1>5, <1>6, <1>7 DEF r

\* Buffers of a pool in a queue.
tagged(q, tag) == SumFunction([i \in DOMAIN q |-> b2n(q[i].tag = tag)])

\* One more at the tail.
LEMMA TaggedAppend ==
    ASSUME NEW S, NEW q \in Seq(S), NEW b \in S, NEW tag
    PROVE  /\ tagged(q, tag) \in Nat
           /\ tagged(Append(q, b), tag) = tagged(q, tag) + b2n(b.tag = tag)
<1> DEFINE r == Append(q, b)
           f == [i \in DOMAIN q |-> b2n(q[i].tag = tag)]
           g == [i \in DOMAIN r |-> b2n(r[i].tag = tag)]
           n == Len(q)
<1>1. /\ n \in Nat /\ DOMAIN q = 1 .. n /\ DOMAIN r = 1 .. n + 1
      /\ (\A i \in 1 .. n : r[i] = q[i]) /\ r[n + 1] = b
    OBVIOUS
<1> HIDE DEF r, n
<1>2. \A i \in 1 .. n + 1 : g[i] \in Nat
    BY <1>1 DEF b2n
<1>3. \A i \in 1 .. n : f[i] \in Nat /\ g[i] = f[i]
    BY <1>1 DEF b2n
<1>4. g[n + 1] = b2n(b.tag = tag)
    BY <1>1
<1>5. DOMAIN f = 1 .. n /\ DOMAIN g = 1 .. n + 1
    BY <1>1
<1>6. tagged(q, tag) = SumFunction(f) /\ tagged(r, tag) = SumFunction(g)
    BY DEF tagged
<1> HIDE DEF f, g
<1>7. /\ SumFunctionOnSet(g, 1 .. n) \in Nat
      /\ SumFunctionOnSet(g, 1 .. n + 1) = SumFunctionOnSet(g, 1 .. n) + g[n + 1]
    BY <1>1, <1>2, SumNext
<1>8. SumFunctionOnSet(g, 1 .. n) = SumFunctionOnSet(f, 1 .. n)
  <2>1. IsFiniteSet(1 .. n)
      BY <1>1, FS_Interval
  <2> QED BY <1>3, <2>1, SumSame
<1> QED BY <1>4, <1>5, <1>6, <1>7, <1>8 DEF SumFunction, r

\* One taken out, wherever it was.
LEMMA TaggedRemove ==
    ASSUME NEW S, NEW q \in Seq(S), NEW i \in 1 .. Len(q), NEW tag
    PROVE  /\ tagged(RemoveAt(q, i), tag) \in Nat /\ tagged(q, tag) \in Nat
           /\ tagged(RemoveAt(q, i), tag) + b2n(q[i].tag = tag) = tagged(q, tag)
<1> DEFINE r == RemoveAt(q, i)
           f == [k \in DOMAIN q |-> b2n(q[k].tag = tag)]
           g == [k \in DOMAIN r |-> b2n(r[k].tag = tag)]
<1>1. PICK m \in Nat : m = Len(q) - 1
    BY RemoveAtPlaces
<1>2. /\ DOMAIN q = 1 .. m + 1 /\ DOMAIN r = 1 .. m /\ i \in 1 .. m + 1
      /\ \A k \in 1 .. m : r[k] = IF k < i THEN q[k] ELSE q[k + 1]
  <2>1. Len(q) = m + 1 /\ DOMAIN q = 1 .. m + 1 /\ i \in 1 .. m + 1
      BY <1>1
  <2>2. /\ r \in Seq(S) /\ Len(r) = m
        /\ \A k \in 1 .. m : r[k] = IF k < i THEN q[k] ELSE q[k + 1]
      BY <1>1, RemoveAtPlaces
  <2> QED BY <2>1, <2>2
<1> HIDE DEF r
<1>3. \A k \in 1 .. m + 1 : f[k] \in Nat
    BY <1>2 DEF b2n
<1>4. \A k \in 1 .. m : g[k] = IF k < i THEN f[k] ELSE f[k + 1]
    BY <1>2 DEF b2n
<1>5. DOMAIN f = 1 .. m + 1 /\ DOMAIN g = 1 .. m /\ f[i] = b2n(q[i].tag = tag)
    BY <1>2
<1>6. tagged(q, tag) = SumFunction(f) /\ tagged(r, tag) = SumFunction(g)
    BY DEF tagged
<1> HIDE DEF f, g
<1>7. SumFunctionOnSet(g, 1 .. m) + f[i] = SumFunctionOnSet(f, 1 .. m + 1)
    BY <1>2, <1>3, <1>4, SumRemove
<1>8. SumFunctionOnSet(g, 1 .. m) \in Nat
      /\ SumFunctionOnSet(f, 1 .. m + 1) \in Nat
  <2>1. IsFiniteSet(1 .. m) /\ IsFiniteSet(1 .. m + 1)
      BY FS_Interval
  <2>2. \A k \in 1 .. m : g[k] \in Nat
      BY <1>3, <1>4
  <2> QED BY <1>3, <2>1, <2>2, SumInsert
<1> QED BY <1>5, <1>6, <1>7, <1>8 DEF SumFunction, r

\* One put back in front.
LEMMA TaggedToHead ==
    ASSUME NEW S, NEW q \in Seq(S), NEW b \in S, NEW tag
    PROVE  tagged(<<b>> \o q, tag) = tagged(q, tag) + b2n(b.tag = tag)
<1> DEFINE r == <<b>> \o q
           p == RemoveAt(r, 1)
<1>1. /\ r \in Seq(S) /\ Len(r) = Len(q) + 1 /\ Len(q) \in Nat /\ r[1] = b
      /\ \A k \in 1 .. Len(q) : r[k + 1] = q[k]
    OBVIOUS
<1> HIDE DEF r
<1>2. 1 \in 1 .. Len(r) /\ Len(r) - 1 = Len(q)
    BY <1>1
<1>3. /\ p \in Seq(S) /\ Len(p) = Len(q)
      /\ \A k \in 1 .. Len(q) : p[k] = IF k < 1 THEN r[k] ELSE r[k + 1]
    BY <1>1, <1>2, RemoveAtPlaces
<1> HIDE DEF p
<1>4. \A k \in 1 .. Len(q) : p[k] = q[k]
    BY <1>1, <1>3
<1>5. p = q
    BY <1>3, <1>4
<1>6. tagged(p, tag) + b2n(r[1].tag = tag) = tagged(r, tag)
    BY <1>1, <1>2, TaggedRemove DEF p
<1> QED BY <1>1, <1>5, <1>6 DEF r

\* The chip's outstanding queue.
outstanding(q) == SumFunction([i \in DOMAIN q |-> q[i].agg])

\* One more is written.
LEMMA OutstandingAppend ==
    ASSUME NEW q \in Seq(Written), NEW b \in Written
    PROVE  /\ outstanding(q) \in Nat
           /\ outstanding(Append(q, b)) = outstanding(q) + b.agg
<1> DEFINE r == Append(q, b)
           f == [i \in DOMAIN q |-> q[i].agg]
           g == [i \in DOMAIN r |-> r[i].agg]
           n == Len(q)
<1>1. /\ n \in Nat /\ DOMAIN q = 1 .. n /\ DOMAIN r = 1 .. n + 1
      /\ r \in Seq(Written) /\ Len(r) = n + 1
      /\ (\A i \in 1 .. n : r[i] = q[i]) /\ r[n + 1] = b
    OBVIOUS
<1> HIDE DEF r, n
<1>2. \A i \in 1 .. n + 1 : g[i] \in Nat
  <2>1. \A i \in 1 .. n + 1 : r[i] \in Written /\ g[i] = r[i].agg
      BY <1>1
  <2> HIDE DEF g
  <2> QED BY <2>1 DEF Written
<1>3. \A i \in 1 .. n : f[i] \in Nat /\ g[i] = f[i]
  <2>1. \A i \in 1 .. n : i \in 1 .. n + 1 /\ f[i] = q[i].agg /\ g[i] = r[i].agg
      BY <1>1
  <2>2. \A i \in 1 .. n : r[i] = q[i]
      BY <1>1
  <2> HIDE DEF f, g
  <2> QED BY <1>2, <2>1, <2>2
<1>4. g[n + 1] = b.agg
    BY <1>1
<1>5. DOMAIN f = 1 .. n /\ DOMAIN g = 1 .. n + 1
    BY <1>1
<1>6. outstanding(q) = SumFunction(f) /\ outstanding(r) = SumFunction(g)
    BY DEF outstanding
<1> HIDE DEF f, g
<1>7. /\ SumFunctionOnSet(g, 1 .. n) \in Nat
      /\ SumFunctionOnSet(g, 1 .. n + 1) = SumFunctionOnSet(g, 1 .. n) + g[n + 1]
    BY <1>1, <1>2, SumNext
<1>8. SumFunctionOnSet(g, 1 .. n) = SumFunctionOnSet(f, 1 .. n)
  <2>1. IsFiniteSet(1 .. n)
      BY <1>1, FS_Interval
  <2> QED BY <1>3, <2>1, SumSame
<1> QED BY <1>4, <1>5, <1>6, <1>7, <1>8 DEF SumFunction, r

\* One is sent.
LEMMA OutstandingRemove ==
    ASSUME NEW q \in Seq(Written), NEW i \in 1 .. Len(q)
    PROVE  /\ outstanding(RemoveAt(q, i)) \in Nat
           /\ outstanding(RemoveAt(q, i)) <= outstanding(q)
<1> DEFINE r == RemoveAt(q, i)
           f == [k \in DOMAIN q |-> q[k].agg]
           g == [k \in DOMAIN r |-> r[k].agg]
<1>1. PICK m \in Nat : m = Len(q) - 1
    BY RemoveAtPlaces
<1>2. /\ DOMAIN q = 1 .. m + 1 /\ DOMAIN r = 1 .. m /\ i \in 1 .. m + 1
      /\ \A k \in 1 .. m : r[k] = IF k < i THEN q[k] ELSE q[k + 1]
  <2>1. Len(q) = m + 1 /\ DOMAIN q = 1 .. m + 1 /\ i \in 1 .. m + 1
      BY <1>1
  <2>2. /\ r \in Seq(Written) /\ Len(r) = m
        /\ \A k \in 1 .. m : r[k] = IF k < i THEN q[k] ELSE q[k + 1]
      BY <1>1, RemoveAtPlaces
  <2> QED BY <2>1, <2>2
<1> HIDE DEF r
<1>3. \A k \in 1 .. m + 1 : f[k] \in Nat
  <2>1. \A k \in 1 .. m + 1 : q[k] \in Written /\ f[k] = q[k].agg
      BY <1>2
  <2> HIDE DEF f
  <2> QED BY <2>1 DEF Written
<1>4. ASSUME NEW k \in 1 .. m
      PROVE  g[k] = IF k < i THEN f[k] ELSE f[k + 1]
  <2>1. /\ k \in 1 .. m + 1 /\ k + 1 \in 1 .. m + 1 /\ g[k] = r[k].agg
        /\ f[k] = q[k].agg /\ f[k + 1] = q[k + 1].agg
      BY <1>2
  <2>2. r[k] = IF k < i THEN q[k] ELSE q[k + 1]
      BY <1>2
  <2> HIDE DEF f, g
  <2> QED BY <2>1, <2>2
<1>5. DOMAIN f = 1 .. m + 1 /\ DOMAIN g = 1 .. m
    BY <1>2
<1>6. outstanding(q) = SumFunction(f) /\ outstanding(r) = SumFunction(g)
    BY DEF outstanding
<1> HIDE DEF f, g
<1>7. SumFunctionOnSet(g, 1 .. m) + f[i] = SumFunctionOnSet(f, 1 .. m + 1)
    BY <1>2, <1>3, <1>4, SumRemove
<1>8. SumFunctionOnSet(g, 1 .. m) \in Nat /\ f[i] \in Nat
  <2>1. IsFiniteSet(1 .. m)
      BY FS_Interval
  <2>2. \A k \in 1 .. m : g[k] \in Nat
      BY <1>3, <1>4
  <2> QED BY <1>2, <1>3, <2>1, <2>2, SumInsert
<1> QED BY <1>5, <1>6, <1>7, <1>8 DEF SumFunction, r

-----------------------------------------------------------------------------
(* What is on its way                                                      *)

Number == 1 .. MaxPkt
FullBufs == [tag : {"data", "mgnt"}, ac : DOMAIN PageIdx,
             pkts : Seq(Stations \X Number)]
Holding == {"pages", "refresh", "oqt"}

\* A buffer that takes one more packet is a buffer of the same kind.
LEMMA BufGrows ==
    ASSUME NEW c \in FullBufs, NEW e \in Stations \X Number
    PROVE  [c EXCEPT !.pkts = Append(@, e)] \in FullBufs
<1> DEFINE P == Stations \X Number
           D == DOMAIN PageIdx
           T == {"data", "mgnt"}
           l == Append(c.pkts, e)
<1>1. c \in [tag : T, ac : D, pkts : Seq(P)] /\ e \in P
    BY DEF FullBufs
<1> HIDE DEF P, D, T
<1>2. l \in Seq(P)
  <2>1. c.pkts \in Seq(P)
      BY <1>1
  <2> QED BY <1>1, <2>1
<1> HIDE DEF l
<1>3. [c EXCEPT !.pkts = l] \in [tag : T, ac : D, pkts : Seq(P)]
    BY <1>1, <1>2
<1> QED BY <1>3 DEF FullBufs, P, D, T, l

\* Packets carry numbers that were given out; what the queue and the two threads
\* hold are data and management buffers, the writer's exactly where it works on
\* one.
CargoInv ==
    /\ sta_pending \in [AcSet -> [Stations -> Seq(Number)]]
    /\ pending_xmitbuf_queue \in Seq(FullBufs)
    /\ abuf # NoBuf => abuf \in FullBufs
    /\ wpc \in Holding => wbuf \in FullBufs
    /\ wpc \notin Holding => wbuf = NoBuf

cargo == <<sta_pending, pending_xmitbuf_queue, abuf, wpc, wbuf>>

\* Numbers are given out one by one, and no more than MaxPkt of a category.
NumberInv ==
    \A ac \in AcSet : SumFunction(npkt[ac]) + b2n(entry[ac] # "none") <= MaxPkt

\* The sum over a category's stations bounds each of them.
LEMMA Numbers ==
    ASSUME FlowInv, NEW ac \in AcSet
    PROVE  /\ SumFunction(npkt[ac]) \in Nat
           /\ \A s \in Stations : npkt[ac][s] \in Nat
                                   /\ npkt[ac][s] <= SumFunction(npkt[ac])
<1> DEFINE f == npkt[ac]
<1>1. DOMAIN f = Stations /\ \A s \in Stations : f[s] \in Nat
    BY DEF FlowInv, FlowTypes
<1> HIDE DEF f
<1>2. SumFunction(f) \in Nat
    BY <1>1, Finite, SumInsert DEF SumFunction
<1>3. \A s \in Stations : f[s] <= SumFunction(f)
    BY <1>1, Finite, SumBound DEF SumFunction
<1> QED BY <1>1, <1>2, <1>3 DEF f

\* A packet in rtw_xmit has a number left.
LEMMA NumberLeft ==
    ASSUME FlowInv, NumberInv, NEW ac \in AcSet, NEW s \in Stations,
           entry[ac] # "none"
    PROVE  npkt[ac][s] + 1 \in Number
<1>1. SumFunction(npkt[ac]) + 1 <= MaxPkt
    BY DEF NumberInv, b2n
<1>2. /\ SumFunction(npkt[ac]) \in Nat /\ npkt[ac][s] \in Nat
      /\ npkt[ac][s] <= SumFunction(npkt[ac])
    BY Numbers
<1>3. MaxPkt \in Nat
    BY SdioXmitAssumption DEF SdioXmitAssumption
<1> QED BY <1>1, <1>2, <1>3 DEF Number

\* The stack gives out numbers.
LEMMA NumberStep == ASSUME FlowInv, NumberInv, [Next]_vars PROVE NumberInv'
<1>1. UNCHANGED <<npkt, entry>> => NumberInv'
    BY DEF NumberInv
<1>2. ~Stack => UNCHANGED <<npkt, entry>>
    BY DEF Next, mgnt_xmit, Chip, chip_send, sd_int_dpc, fw_sleep, cpwm_int_hdl,
           Scan, scan_start, scan_end, rtw_os_xmit_schedule, Sta,
           rtw_free_stainfo, free_xmitframe_queues, rtw_alloc_stainfo,
           rtw_dev_unload, Stopping, stop_writer, stop_up, stop_down, stop_done,
           Aggregator, agg_wait, agg_next, agg_ac, agg_full, agg_alloc,
           agg_coalesce, agg_station_done, agg_sema_down, agg_flush, agg_return,
           agg_unavail, Writer, writer_wait, writer_select, writer_pages,
           writer_refresh, writer_oqt, writer_write, writer_sema_up, vars, frames
<1>3. ASSUME NEW ac \in AcSet, NEW s \in Stations, xmit_entry(ac, s)
      PROVE  NumberInv'
  <2>1. /\ UNCHANGED npkt /\ entry' = [entry EXCEPT ![ac] = s]
        /\ SumFunction(npkt[ac]) < MaxPkt
      BY <1>3 DEF xmit_entry
  <2>2. ASSUME NEW c \in AcSet
        PROVE  SumFunction(npkt[c]) + b2n(entry'[c] # "none") <= MaxPkt
    <3>1. CASE c = ac
      <4>1. SumFunction(npkt[ac]) \in Nat /\ MaxPkt \in Nat
          BY Numbers, SdioXmitAssumption DEF SdioXmitAssumption
      <4>2. PICK x \in 0 .. 1 : x = b2n(entry'[c] # "none")
          BY DEF b2n
      <4> QED BY <2>1, <3>1, <4>1, <4>2
    <3>2. CASE c # ac
      <4>1. entry'[c] = entry[c]
          BY <2>1, <3>2 DEF FlowInv, FlowTypes
      <4> QED BY <4>1 DEF NumberInv
    <3> QED BY <3>1, <3>2
  <2> QED BY <2>1, <2>2 DEF NumberInv
<1>4. ASSUME NEW ac \in AcSet, hal_xmit(ac)
      PROVE  NumberInv'
  <2>1. entry[ac] # "none" /\ entry' = [entry EXCEPT ![ac] = "none"]
      BY <1>4 DEF hal_xmit
  <2>2. entry'[ac] = "none" /\ \A c \in AcSet : c # ac => entry'[c] = entry[c]
      BY <2>1 DEF FlowInv, FlowTypes
  <2>3. SumFunction(npkt[ac]) \in Nat /\ SumFunction(npkt[ac]) + 1 <= MaxPkt
        /\ MaxPkt \in Nat
      BY <2>1, Numbers, SdioXmitAssumption DEF NumberInv, b2n, SdioXmitAssumption
  <2>4. /\ \A c \in AcSet : c # ac => npkt'[c] = npkt[c]
        /\ SumFunction(npkt'[ac]) \in Nat /\ SumFunction(npkt'[ac]) <= MaxPkt
    <3>1. CASE entry[ac] \in linked
      <4>1. PICK s \in Stations : s = entry[ac]
          BY <3>1 DEF FlowInv, FlowTypes
      <4>2. npkt' = [npkt EXCEPT ![ac][s] = @ + 1]
          BY <1>4, <3>1, <4>1 DEF hal_xmit
      <4> DEFINE f == npkt[ac]
                 g == npkt'[ac]
      <4>3. /\ DOMAIN f = Stations /\ DOMAIN g = Stations
            /\ \A t \in Stations : f[t] \in Nat
            /\ \A t \in Stations : g[t] = IF t = s THEN f[t] + 1 ELSE f[t]
          BY <4>2 DEF FlowInv, FlowTypes
      <4>4. \A c \in AcSet : c # ac => npkt'[c] = npkt[c]
          BY <4>2 DEF FlowInv, FlowTypes
      <4> HIDE DEF f, g
      <4>5. \A t \in Stations : f[t] \in Nat /\ g[t] \in Nat
                               /\ (t # s => g[t] = f[t])
          BY <4>3
      <4>6. /\ SumFunctionOnSet(g, Stations) \in Nat
            /\ SumFunctionOnSet(g, Stations)
                  = SumFunctionOnSet(f, Stations) - f[s] + g[s]
          BY <4>5, Finite, SumChange
      <4>7. SumFunction(g) = SumFunction(f) - f[s] + g[s] /\ SumFunction(g) \in Nat
          BY <4>3, <4>6 DEF SumFunction
      <4>8. SumFunction(g) = SumFunction(f) + 1
        <5>1. f[s] \in Nat /\ g[s] = f[s] + 1 /\ SumFunction(f) \in Nat
            BY <2>3, <4>3 DEF f
        <5> QED BY <4>7, <5>1
      <4> QED BY <2>3, <4>4, <4>7, <4>8 DEF f, g
    <3>2. CASE entry[ac] \notin linked
      <4>1. UNCHANGED npkt
          BY <1>4, <3>2 DEF hal_xmit
      <4> QED BY <2>3, <4>1
    <3> QED BY <3>1, <3>2
  <2>5. ASSUME NEW c \in AcSet
        PROVE  SumFunction(npkt'[c]) + b2n(entry'[c] # "none") <= MaxPkt
    <3>1. CASE c = ac
      <4>1. b2n(entry'[c] # "none") = 0
          BY <2>2, <3>1 DEF b2n
      <4> QED BY <2>4, <3>1, <4>1
    <3>2. CASE c # ac
        BY <2>2, <2>4, <3>2 DEF NumberInv
    <3> QED BY <3>1, <3>2
  <2> QED BY <2>5 DEF NumberInv
<1> QED BY <1>1, <1>2, <1>3, <1>4 DEF Stack

\* A full hand is never an empty one.
LEMMA FullTypes ==
    /\ Mgnt \in FullBufs /\ NoBuf \notin FullBufs
    /\ \A ac \in AcSet : Data(ac, <<>>) \in FullBufs
    /\ \A b \in FullBufs : b.tag \in {"data", "mgnt"} /\ b # NoBuf
<1>1. AcSet \subseteq DOMAIN PageIdx
    BY SdioXmitAssumption DEF SdioXmitAssumption, AcSet, PageIdx
<1>2. "mgnt" \in DOMAIN PageIdx
    BY DEF PageIdx
<1>3. <<>> \in Seq(Stations \X Number)
    OBVIOUS
<1>4. \A b \in FullBufs : b.tag \in {"data", "mgnt"}
    BY DEF FullBufs
<1>5. NoBuf.tag = "none"
    BY DEF NoBuf
<1> QED BY <1>1, <1>2, <1>3, <1>4, <1>5 DEF FullBufs, Mgnt, Data

\* Steps that move nothing.
LEMMA CargoSame == ASSUME CargoInv, UNCHANGED cargo PROVE CargoInv'
BY DEF CargoInv, cargo

\* The stack numbers a packet.
LEMMA CargoStack ==
    ASSUME FlowInv, NumberInv, CargoInv, NEW ac \in AcSet, hal_xmit(ac)
    PROVE  CargoInv'
<1>1. /\ UNCHANGED <<pending_xmitbuf_queue, abuf, wpc, wbuf>>
      /\ entry[ac] # "none"
    BY DEF hal_xmit, aggr, writer
<1>2. sta_pending' \in [AcSet -> [Stations -> Seq(Number)]]
  <2>1. CASE entry[ac] \in linked
    <3>1. PICK s \in Stations : s = entry[ac]
        BY <2>1 DEF FlowInv, FlowTypes
    <3>2. /\ npkt' = [npkt EXCEPT ![ac][s] = @ + 1]
          /\ sta_pending' = [sta_pending EXCEPT
                                ![ac][s] = Append(@, npkt'[ac][s])]
        BY <2>1, <3>1 DEF hal_xmit
    <3>3. npkt'[ac][s] = npkt[ac][s] + 1
        BY <3>2 DEF FlowInv, FlowTypes
    <3>4. npkt'[ac][s] \in Number
        BY <1>1, <3>3, NumberLeft
    <3>5. PICK n \in Number : n = npkt'[ac][s]
        BY <3>4
    <3>6. sta_pending' = [sta_pending EXCEPT ![ac][s] = Append(@, n)]
        BY <3>2, <3>5
    <3> QED BY <3>6 DEF CargoInv
  <2>2. CASE entry[ac] \notin linked
      BY <2>2 DEF hal_xmit, CargoInv
  <2> QED BY <2>1, <2>2
<1> QED BY <1>1, <1>2 DEF CargoInv

\* The writer takes a buffer, puts it back or frees it.
LEMMA CargoWriter == ASSUME FlowInv, CargoInv, Writer PROVE CargoInv'
<1>1. UNCHANGED <<sta_pending, abuf>>
    BY DEF Writer, writer_wait, writer_select, writer_pages, writer_refresh,
           writer_oqt, writer_write, writer_sema_up, frames, aggr
<1>2. CASE writer_wait \/ writer_refresh \/ writer_sema_up
  <2>1. /\ UNCHANGED <<pending_xmitbuf_queue, wbuf>>
        /\ wpc \in Holding <=> wpc' \in Holding
      BY <1>2 DEF writer_wait, writer_refresh, writer_sema_up, Holding
  <2> QED BY <1>1, <2>1 DEF CargoInv
<1>3. CASE writer_select
  <2> DEFINE q     == pending_xmitbuf_queue
             mgnts == {i \in 1 .. Len(q) : q[i].tag = "mgnt"}
             may   == IF mgnts # {} THEN mgnts
                      ELSE IF scanning THEN {} ELSE 1 .. Len(q)
             first == {i \in may : \A j \in may : i <= j}
  <2>1. first \subseteq 1 .. Len(q) /\ wpc \notin Holding
      BY <1>3 DEF writer_select, Holding
  <2>2. \/ UNCHANGED <<wbuf, q>> /\ wpc' = "wait"
        \/ \E i \in first : wpc' = "pages" /\ wbuf' = q[i] /\ q' = RemoveAt(q, i)
    <3> HIDE DEF first
    <3> QED BY <1>3, Zenon DEF writer_select, first
  <2>3. CASE UNCHANGED <<wbuf, q>> /\ wpc' = "wait"
      BY <1>1, <2>1, <2>3 DEF CargoInv, Holding
  <2>4. CASE \E i \in first : wpc' = "pages" /\ wbuf' = q[i]
                              /\ q' = RemoveAt(q, i)
    <3> HIDE DEF first
    <3>1. PICK i \in 1 .. Len(q) : wpc' = "pages" /\ wbuf' = q[i]
                                   /\ q' = RemoveAt(q, i)
        BY <2>1, <2>4
    <3>2. q \in Seq(FullBufs)
        BY DEF CargoInv
    <3>3. wbuf' \in FullBufs
        BY <3>1, <3>2
    <3>4. pending_xmitbuf_queue' \in Seq(FullBufs)
        BY <3>1, <3>2, RemoveAtType
    <3> QED BY <1>1, <3>1, <3>3, <3>4 DEF CargoInv, Holding
  <2> QED BY <2>2, <2>3, <2>4
<1>4. CASE writer_pages
  <2>1. /\ wpc = "pages" /\ wbuf \in FullBufs
        /\ pending_xmitbuf_queue \in Seq(FullBufs)
      BY <1>4 DEF writer_pages, CargoInv, Holding
  <2>2. \/ wpc' \in Holding /\ wbuf' = wbuf
        \/ wpc' \notin Holding /\ wbuf' = NoBuf
      BY <1>4 DEF writer_pages, free_wbuf, Holding
  <2>3. pending_xmitbuf_queue' = pending_xmitbuf_queue
        \/ pending_xmitbuf_queue' = <<wbuf>> \o pending_xmitbuf_queue
      BY <1>4 DEF writer_pages, enqueue_pending_xmitbuf_to_head
  <2>4. <<wbuf>> \o pending_xmitbuf_queue \in Seq(FullBufs)
      BY <2>1
  <2> QED BY <1>1, <2>1, <2>2, <2>3, <2>4 DEF CargoInv
<1>5. CASE writer_oqt \/ writer_write
  <2>1. /\ wpc = "oqt" /\ UNCHANGED pending_xmitbuf_queue
        /\ \/ UNCHANGED <<wpc, wbuf>>
           \/ wpc' \in {"up", "select"} /\ wbuf' = NoBuf
      BY <1>5 DEF writer_oqt, writer_write, free_wbuf
  <2> QED BY <1>1, <2>1 DEF CargoInv, Holding
<1> QED BY <1>2, <1>3, <1>4, <1>5 DEF Writer

\* The aggregator fills a buffer and hands it over.
LEMMA CargoAggregator ==
    ASSUME FlowInv, CargoInv, agg_full \/ agg_alloc \/ agg_coalesce \/ agg_flush
    PROVE  CargoInv'
<1>1. UNCHANGED <<wpc, wbuf>>
    BY DEF agg_full, agg_alloc, agg_coalesce, agg_flush, writer
<1>2. pending_xmitbuf_queue \in Seq(FullBufs)
      /\ (abuf # NoBuf => Append(pending_xmitbuf_queue, abuf) \in Seq(FullBufs))
    BY DEF CargoInv
<1>3. CASE agg_full \/ agg_flush
  <2>1. abuf' = NoBuf /\ UNCHANGED sta_pending
      BY <1>3 DEF agg_full, agg_flush
  <2>2. \/ pending_xmitbuf_queue' = pending_xmitbuf_queue
        \/ /\ abuf # NoBuf
           /\ pending_xmitbuf_queue' = Append(pending_xmitbuf_queue, abuf)
      BY <1>3, Zenon DEF agg_full, agg_flush, enqueue_pending_xmitbuf
  <2> QED BY <1>1, <1>2, <2>1, <2>2 DEF CargoInv
<1>4. CASE agg_alloc
  <2>1. Ac \in AcSet
      BY <1>4, AtFrame DEF agg_alloc
  <2>2. /\ UNCHANGED <<sta_pending, pending_xmitbuf_queue>>
        /\ abuf' \in {NoBuf, Data(Ac, <<>>)}
      BY <1>4 DEF agg_alloc
  <2> QED BY <1>1, <2>1, <2>2, FullTypes DEF CargoInv
<1>5. CASE agg_coalesce
  <2> DEFINE s == Head(todo)
             n == Head(sta_pending[Ac][s])
  <2>1. /\ Ac \in AcSet /\ s \in Stations /\ sta_pending[Ac][s] # <<>>
      BY <1>5, AtFrame DEF agg_coalesce
  <2>2. /\ UNCHANGED pending_xmitbuf_queue
        /\ sta_pending' = [sta_pending EXCEPT ![Ac][s] = Tail(@)]
        /\ abuf' \in {abuf, [abuf EXCEPT !.pkts = Append(@, <<s, n>>)]}
        /\ abuf # NoBuf
      BY <1>5 DEF agg_coalesce, no_room
  <2> HIDE DEF s
  <2>3. sta_pending[Ac][s] \in Seq(Number)
      BY <2>1 DEF CargoInv
  <2>4. n \in Number /\ Tail(sta_pending[Ac][s]) \in Seq(Number)
      BY <2>1, <2>3
  <2>5. sta_pending' \in [AcSet -> [Stations -> Seq(Number)]]
      BY <2>1, <2>2, <2>4 DEF CargoInv
  <2> HIDE DEF n
  <2>6. abuf' \in FullBufs
    <3> DEFINE e == <<s, n>>
               b == [abuf EXCEPT !.pkts = Append(@, e)]
    <3>1. abuf \in FullBufs
        BY <2>2 DEF CargoInv
    <3>2. e \in Stations \X Number
        BY <2>1, <2>4
    <3> HIDE DEF e
    <3>3. b \in FullBufs
        BY <3>1, <3>2, BufGrows, Zenon
    <3> HIDE DEF b
    <3> QED BY <2>2, <3>1, <3>3 DEF b, e
  <2> QED BY <1>1, <2>2, <2>5, <2>6 DEF CargoInv
<1> QED BY <1>3, <1>4, <1>5

\* Every step keeps the cargo's invariant.
LEMMA CargoStep ==
    ASSUME FlowInv, NumberInv, CargoInv, [Next]_vars
    PROVE  CargoInv'
<1>1. CASE mgnt_xmit
  <2>1. /\ UNCHANGED <<sta_pending, abuf, wpc, wbuf>>
        /\ pending_xmitbuf_queue' = Append(pending_xmitbuf_queue, Mgnt)
      BY <1>1 DEF mgnt_xmit, frames, aggr, writer
  <2> QED BY <2>1, FullTypes DEF CargoInv
<1>2. ASSUME NEW s \in Stations, free_xmitframe_queues(s) PROVE CargoInv'
  <2>1. /\ UNCHANGED <<pending_xmitbuf_queue, abuf, wpc, wbuf>>
        /\ sta_pending' = [ac \in AcSet |-> [sta_pending[ac] EXCEPT ![s] = <<>>]]
      BY <1>2 DEF free_xmitframe_queues, aggr, writer
  <2>2. sta_pending' \in [AcSet -> [Stations -> Seq(Number)]]
      BY <2>1 DEF CargoInv
  <2> QED BY <2>1, <2>2 DEF CargoInv
<1>3. \/ (\E ac \in AcSet, s \in Stations : xmit_entry(ac, s))
      \/ agg_wait \/ agg_next \/ agg_ac \/ agg_station_done \/ agg_sema_down
      \/ agg_return \/ agg_unavail
      => UNCHANGED cargo
    BY DEF xmit_entry, agg_wait, agg_next, agg_ac, agg_station_done,
           agg_sema_down, agg_return, agg_unavail, cargo, frames, aggr, writer
<1>4. \/ Chip \/ Scan \/ rtw_dev_unload \/ Stopping
      \/ (\E s \in Stations : rtw_free_stainfo(s) \/ rtw_alloc_stainfo(s))
      \/ UNCHANGED vars
      => UNCHANGED cargo
    BY DEF Chip, chip_send, sd_int_dpc, fw_sleep, cpwm_int_hdl, Scan, scan_start,
           scan_end, rtw_os_xmit_schedule, rtw_dev_unload, Stopping, stop_writer,
           stop_up, stop_down, stop_done, rtw_free_stainfo, rtw_alloc_stainfo,
           vars, cargo, frames, aggr, writer
<1> QED BY <1>1, <1>2, <1>3, <1>4, CargoSame, CargoStack, CargoWriter,
           CargoAggregator
        DEF Next, Stack, Aggregator, Sta

-----------------------------------------------------------------------------
(* No buffer is lost                                                       *)

Tags == {"data", "mgnt"}
pool(tag) == IF tag = "data" THEN free_xmitbuf_cnt ELSE free_xmit_extbuf_cnt
size(tag) == IF tag = "data" THEN NrBuf ELSE NrExt
is(b, tag) == b2n(b.tag = tag)

\* Free, queued, in the writer's hand or in the aggregator's.
total(tag) ==
    pool(tag) + tagged(pending_xmitbuf_queue, tag) + is(wbuf, tag) + is(abuf, tag)

BufInv ==
    /\ free_xmitbuf_cnt \in Nat /\ free_xmit_extbuf_cnt \in Nat
    /\ \A tag \in Tags : total(tag) = size(tag)

buffered == <<free_xmitbuf_cnt, free_xmit_extbuf_cnt, pending_xmitbuf_queue, wbuf,
              abuf>>

\* The four places are numbers.
LEMMA TotalType ==
    ASSUME FlowInv, BufInv, NEW tag \in Tags
    PROVE  /\ pool(tag) \in Nat /\ tagged(pending_xmitbuf_queue, tag) \in Nat
           /\ is(wbuf, tag) \in 0 .. 1 /\ is(abuf, tag) \in 0 .. 1
<1>1. tagged(pending_xmitbuf_queue, tag) \in Nat
    BY TaggedAppend, BufTypes DEF FlowInv, FlowTypes
<1>2. is(wbuf, tag) \in 0 .. 1 /\ is(abuf, tag) \in 0 .. 1
    BY DEF is, b2n
<1> QED BY <1>1, <1>2 DEF BufInv, pool

\* Which pool a buffer is of.
LEMMA IsTag ==
    /\ \A tag \in Tags : is(NoBuf, tag) = 0
    /\ is(Mgnt, "mgnt") = 1 /\ is(Mgnt, "data") = 0
    /\ \A b : b.tag = "data" => is(b, "data") = 1 /\ is(b, "mgnt") = 0
    /\ \A b : b.tag = "mgnt" => is(b, "data") = 0 /\ is(b, "mgnt") = 1
BY DEF Tags, is, b2n, NoBuf, Mgnt

\* It is enough that every pool's total stays.
LEMMA TotalStays ==
    ASSUME BufInv, free_xmitbuf_cnt' \in Nat, free_xmit_extbuf_cnt' \in Nat,
           \A tag \in Tags : total(tag)' = total(tag)
    PROVE  BufInv'
BY DEF BufInv, size

\* A management frame takes a buffer of the extension pool.
LEMMA BufMgnt == ASSUME FlowInv, BufInv, mgnt_xmit PROVE BufInv'
<1>1. /\ UNCHANGED <<free_xmitbuf_cnt, wbuf, abuf>> /\ free_xmit_extbuf_cnt > 0
      /\ free_xmit_extbuf_cnt' = free_xmit_extbuf_cnt - 1
      /\ pending_xmitbuf_queue' = Append(pending_xmitbuf_queue, Mgnt)
    BY DEF mgnt_xmit, writer, aggr
<1>2. ASSUME NEW tag \in Tags PROVE total(tag)' = total(tag)
  <2>1. tagged(pending_xmitbuf_queue', tag)
          = tagged(pending_xmitbuf_queue, tag) + is(Mgnt, tag)
      BY <1>1, TaggedAppend, BufTypes DEF FlowInv, FlowTypes, is
  <2>2. pool(tag)' = pool(tag) - is(Mgnt, tag) /\ is(Mgnt, tag) \in 0 .. 1
      BY <1>1, IsTag DEF pool, Tags, BufInv
  <2>3. is(wbuf, tag)' = is(wbuf, tag) /\ is(abuf, tag)' = is(abuf, tag)
      BY <1>1 DEF is
  <2>4. total(tag)' = pool(tag)' + tagged(pending_xmitbuf_queue', tag)
                        + is(wbuf, tag)' + is(abuf, tag)'
      BY DEF total, tagged
  <2> QED BY <2>1, <2>2, <2>3, <2>4, TotalType DEF total
<1>3. free_xmit_extbuf_cnt' \in Nat /\ free_xmitbuf_cnt' \in Nat
    BY <1>1 DEF BufInv
<1> QED BY <1>2, <1>3, TotalStays

\* The aggregator takes a buffer, fills it, hands it over or gives it back.
LEMMA BufAggregator ==
    ASSUME FlowInv, BufInv, agg_full \/ agg_alloc \/ agg_coalesce \/ agg_flush
    PROVE  BufInv'
<1>1. UNCHANGED <<free_xmit_extbuf_cnt, wbuf>>
    BY DEF agg_full, agg_alloc, agg_coalesce, agg_flush, writer, pools
<1>2. free_xmitbuf_cnt \in Nat /\ free_xmit_extbuf_cnt \in Nat
    BY DEF BufInv
<1>3. \A tag \in Tags :
         total(tag)' = pool(tag)' + tagged(pending_xmitbuf_queue', tag)
                        + is(wbuf, tag) + is(abuf', tag)
    BY <1>1 DEF total, tagged, is
<1>4. CASE /\ abuf # NoBuf /\ abuf' = NoBuf /\ UNCHANGED free_xmitbuf_cnt
           /\ pending_xmitbuf_queue' = Append(pending_xmitbuf_queue, abuf)
  <2>1. ASSUME NEW tag \in Tags PROVE total(tag)' = total(tag)
    <3>1. tagged(pending_xmitbuf_queue', tag)
            = tagged(pending_xmitbuf_queue, tag) + is(abuf, tag)
        BY <1>4, TaggedAppend DEF FlowInv, FlowTypes, is
    <3>2. pool(tag)' = pool(tag) /\ is(abuf', tag) = 0
        BY <1>1, <1>4, IsTag DEF pool
    <3> QED BY <1>3, <3>1, <3>2, TotalType DEF total
  <2> QED BY <1>1, <1>2, <1>4, <2>1, TotalStays
<1>5. CASE /\ abuf # NoBuf /\ abuf' = NoBuf /\ UNCHANGED pending_xmitbuf_queue
           /\ free_xmitbuf_cnt' = free_xmitbuf_cnt + 1
  <2>1. abuf.tag = "data"
      BY <1>5 DEF FlowInv, AbufInv
  <2>2. ASSUME NEW tag \in Tags PROVE total(tag)' = total(tag)
    <3>1. pool(tag)' = pool(tag) + is(abuf, tag) /\ is(abuf', tag) = 0
        BY <1>1, <1>2, <1>5, <2>1, IsTag DEF pool, Tags
    <3>2. tagged(pending_xmitbuf_queue', tag) = tagged(pending_xmitbuf_queue, tag)
        BY <1>5
    <3> QED BY <1>3, <3>1, <3>2, TotalType DEF total
  <2> QED BY <1>1, <1>2, <1>5, <2>2, TotalStays
<1>6. CASE /\ abuf = NoBuf /\ abuf' = Data(Ac, <<>>) /\ free_xmitbuf_cnt > 0
           /\ free_xmitbuf_cnt' = free_xmitbuf_cnt - 1
           /\ UNCHANGED pending_xmitbuf_queue
  <2>1. abuf'.tag = "data"
      BY <1>6 DEF Data
  <2>2. ASSUME NEW tag \in Tags PROVE total(tag)' = total(tag)
    <3>1. pool(tag)' = pool(tag) - is(abuf', tag) /\ is(abuf, tag) = 0
          /\ is(abuf', tag) \in 0 .. 1
        BY <1>1, <1>2, <1>6, <2>1, IsTag DEF pool, Tags
    <3>2. tagged(pending_xmitbuf_queue', tag) = tagged(pending_xmitbuf_queue, tag)
        BY <1>6
    <3> QED BY <1>3, <3>1, <3>2, TotalType DEF total
  <2> QED BY <1>1, <1>2, <1>6, <2>2, TotalStays
<1>7. CASE abuf'.tag = abuf.tag /\ UNCHANGED <<free_xmitbuf_cnt,
                                               pending_xmitbuf_queue>>
  <2>1. ASSUME NEW tag \in Tags PROVE total(tag)' = total(tag)
      BY <1>1, <1>3, <1>7 DEF total, pool, is
  <2> QED BY <1>1, <1>2, <1>7, <2>1, TotalStays
<1>8. CASE agg_full
    BY <1>4, <1>8 DEF agg_full, enqueue_pending_xmitbuf, pools
<1>9. CASE agg_alloc
    BY <1>6, <1>7, <1>9 DEF agg_alloc
<1>10. CASE agg_coalesce
  <2> DEFINE b == [abuf EXCEPT !.pkts =
                     Append(@, <<Head(todo), Head(sta_pending[Ac][Head(todo)])>>)]
  <2>1. abuf' \in {abuf, b} /\ UNCHANGED <<free_xmitbuf_cnt, pending_xmitbuf_queue>>
      BY <1>10 DEF agg_coalesce, pools
  <2>2. b.tag = abuf.tag
      BY DEF FlowInv, FlowTypes, Bufs
  <2> HIDE DEF b
  <2> QED BY <1>7, <2>1, <2>2
<1>11. CASE agg_flush
  <2>1. abuf' = NoBuf
      BY <1>11 DEF agg_flush
  <2>2. \/ abuf = NoBuf /\ UNCHANGED <<free_xmitbuf_cnt, pending_xmitbuf_queue>>
        \/ /\ abuf # NoBuf /\ UNCHANGED free_xmitbuf_cnt
           /\ pending_xmitbuf_queue' = Append(pending_xmitbuf_queue, abuf)
        \/ /\ abuf # NoBuf /\ UNCHANGED pending_xmitbuf_queue
           /\ free_xmitbuf_cnt' = free_xmitbuf_cnt + 1
      BY <1>11, Zenon DEF agg_flush, enqueue_pending_xmitbuf, free_empty
  <2> QED BY <1>4, <1>5, <1>7, <2>1, <2>2
<1> QED BY <1>8, <1>9, <1>10, <1>11

\* The writer takes a buffer, puts it back or frees it.
LEMMA BufWriter == ASSUME FlowInv, CargoInv, BufInv, Writer PROVE BufInv'
<1>1. UNCHANGED abuf
    BY DEF Writer, writer_wait, writer_select, writer_pages, writer_refresh,
           writer_oqt, writer_write, writer_sema_up, aggr
<1>2. free_xmitbuf_cnt \in Nat /\ free_xmit_extbuf_cnt \in Nat
    BY DEF BufInv
<1>3. \A tag \in Tags :
         total(tag)' = pool(tag)' + tagged(pending_xmitbuf_queue', tag)
                        + is(wbuf', tag) + is(abuf, tag)
    BY <1>1 DEF total, tagged, is
<1>4. CASE UNCHANGED <<free_xmitbuf_cnt, free_xmit_extbuf_cnt,
                       pending_xmitbuf_queue, wbuf>>
  <2>1. ASSUME NEW tag \in Tags PROVE total(tag)' = total(tag)
      BY <1>3, <1>4 DEF total, pool
  <2> QED BY <1>2, <1>4, <2>1, TotalStays
\* Into the hand.
<1>5. ASSUME NEW i \in 1 .. Len(pending_xmitbuf_queue), wbuf = NoBuf,
             wbuf' = pending_xmitbuf_queue[i],
             pending_xmitbuf_queue' = RemoveAt(pending_xmitbuf_queue, i),
             UNCHANGED <<free_xmitbuf_cnt, free_xmit_extbuf_cnt>>
      PROVE  BufInv'
  <2>1. ASSUME NEW tag \in Tags PROVE total(tag)' = total(tag)
    <3>1. /\ tagged(pending_xmitbuf_queue', tag) \in Nat
          /\ tagged(pending_xmitbuf_queue', tag) + is(wbuf', tag)
               = tagged(pending_xmitbuf_queue, tag)
        BY <1>5, TaggedRemove DEF FlowInv, FlowTypes, is
    <3>2. pool(tag)' = pool(tag) /\ is(wbuf, tag) = 0 /\ is(wbuf', tag) \in Nat
        BY <1>5, IsTag DEF pool, is, b2n
    <3> QED BY <1>3, <3>1, <3>2, TotalType DEF total
  <2> QED BY <1>2, <1>5, <2>1, TotalStays
\* Back to the head.
<1>6. CASE /\ wbuf' = NoBuf
           /\ pending_xmitbuf_queue' = <<wbuf>> \o pending_xmitbuf_queue
           /\ UNCHANGED <<free_xmitbuf_cnt, free_xmit_extbuf_cnt>>
  <2>1. ASSUME NEW tag \in Tags PROVE total(tag)' = total(tag)
    <3>1. tagged(pending_xmitbuf_queue', tag)
            = tagged(pending_xmitbuf_queue, tag) + is(wbuf, tag)
        BY <1>6, TaggedToHead DEF FlowInv, FlowTypes, is
    <3>2. pool(tag)' = pool(tag) /\ is(wbuf', tag) = 0
        BY <1>6, IsTag DEF pool
    <3> QED BY <1>3, <3>1, <3>2, TotalType DEF total
  <2> QED BY <1>2, <1>6, <2>1, TotalStays
\* Into its pool.
<1>7. CASE wpc \in Holding /\ free_wbuf /\ UNCHANGED pending_xmitbuf_queue
  <2>1. wbuf.tag \in {"data", "mgnt"}
      BY <1>7, FullTypes DEF CargoInv
  <2>2. /\ wbuf' = NoBuf
        /\ wbuf.tag = "data" => /\ free_xmitbuf_cnt' = free_xmitbuf_cnt + 1
                                /\ UNCHANGED free_xmit_extbuf_cnt
        /\ wbuf.tag = "mgnt" => /\ free_xmit_extbuf_cnt' = free_xmit_extbuf_cnt + 1
                                /\ UNCHANGED free_xmitbuf_cnt
      BY <1>7 DEF free_wbuf
  <2>3. ASSUME NEW tag \in Tags PROVE total(tag)' = total(tag)
    <3>1. pool(tag)' = pool(tag) + is(wbuf, tag)
      <4>1. CASE wbuf.tag = "data"
          BY <1>2, <2>2, <4>1, IsTag DEF pool, Tags
      <4>2. CASE wbuf.tag = "mgnt"
          BY <1>2, <2>2, <4>2, IsTag DEF pool, Tags
      <4> QED BY <2>1, <4>1, <4>2
    <3>2. tagged(pending_xmitbuf_queue', tag) = tagged(pending_xmitbuf_queue, tag)
          /\ is(wbuf', tag) = 0
        BY <1>7, <2>2, IsTag
    <3> QED BY <1>3, <3>1, <3>2, TotalType DEF total
  <2>4. free_xmitbuf_cnt' \in Nat /\ free_xmit_extbuf_cnt' \in Nat
      BY <1>2, <2>1, <2>2
  <2> QED BY <2>3, <2>4, TotalStays
<1>8. CASE writer_wait \/ writer_refresh \/ writer_sema_up
    BY <1>4, <1>8 DEF writer_wait, writer_refresh, writer_sema_up, pools
<1>9. CASE writer_select
  <2> DEFINE q     == pending_xmitbuf_queue
             mgnts == {i \in 1 .. Len(q) : q[i].tag = "mgnt"}
             may   == IF mgnts # {} THEN mgnts
                      ELSE IF scanning THEN {} ELSE 1 .. Len(q)
             first == {i \in may : \A j \in may : i <= j}
  <2>1. first \subseteq 1 .. Len(q)
      OBVIOUS
  <2>2. \/ UNCHANGED <<wbuf, q>>
        \/ \E i \in first : wbuf' = q[i] /\ q' = RemoveAt(q, i)
    <3> HIDE DEF first
    <3> QED BY <1>9, Zenon DEF writer_select, first
  <2>3. wbuf = NoBuf /\ UNCHANGED <<free_xmitbuf_cnt, free_xmit_extbuf_cnt>>
      BY <1>9 DEF writer_select, pools, CargoInv, Holding
  <2> HIDE DEF first
  <2> QED BY <1>4, <1>5, <2>1, <2>2, <2>3
<1>10. CASE writer_pages
  <2>1. wpc \in Holding
      BY <1>10 DEF writer_pages, Holding
  <2> QED BY <1>4, <1>6, <1>7, <1>10, <2>1
          DEF writer_pages, enqueue_pending_xmitbuf_to_head
<1>11. CASE writer_oqt \/ writer_write
  <2>1. wpc \in Holding
      BY <1>11 DEF writer_oqt, writer_write, Holding
  <2> QED BY <1>4, <1>7, <1>11, <2>1 DEF writer_oqt, writer_write
<1> QED BY <1>8, <1>9, <1>10, <1>11 DEF Writer

\* Every step keeps the buffers' invariant.
LEMMA BufStep ==
    ASSUME FlowInv, CargoInv, BufInv, [Next]_vars
    PROVE  BufInv'
<1>1. UNCHANGED buffered => BufInv'
    BY DEF BufInv, total, pool, size, is, tagged, buffered
<1>2. \/ Stack \/ (\E s \in Stations : Sta(s))
      \/ agg_wait \/ agg_next \/ agg_ac \/ agg_station_done \/ agg_sema_down
      \/ agg_return \/ agg_unavail
      => UNCHANGED buffered
    BY DEF Stack, xmit_entry, hal_xmit, Sta, rtw_free_stainfo,
           free_xmitframe_queues, rtw_alloc_stainfo, agg_wait, agg_next, agg_ac,
           agg_station_done, agg_sema_down, agg_return, agg_unavail, buffered,
           pools, aggr, writer
<1>3. \/ Chip \/ Scan \/ rtw_dev_unload \/ Stopping \/ UNCHANGED vars
      => UNCHANGED buffered
    BY DEF Chip, chip_send, sd_int_dpc, fw_sleep, cpwm_int_hdl, Scan, scan_start,
           scan_end, rtw_os_xmit_schedule, rtw_dev_unload, Stopping, stop_writer,
           stop_up, stop_down, stop_done, vars, buffered, pools, aggr, writer
<1> QED BY <1>1, <1>2, <1>3, BufMgnt, BufAggregator, BufWriter
        DEF Next, Aggregator

-----------------------------------------------------------------------------
(* No frame is freed twice                                                 *)

kept == b2n(Len(abuf.pkts) > 0)
accounted == free_xmitframe_cnt + inside(sta_pending, entry) + kept

\* Free frames, those of the packets in the driver, and the one the aggregator
\* keeps for its buffer are never more than the pool; while no station was
\* freed they are the pool.  After that a second packet that fails is lost.
FrameInv ==
    /\ free_xmitframe_cnt \in Nat /\ nfree \in Nat /\ nfree <= MaxFree
    /\ freeing \subseteq Stations \ linked
    /\ accounted <= NrFrame
    /\ nfree = 0 => linked = Stations /\ freeing = {} /\ accounted = NrFrame

framed == <<free_xmitframe_cnt, nfree, freeing, linked, sta_pending, entry, abuf>>

\* The three places are numbers.
LEMMA FrameType ==
    ASSUME FlowInv, FrameInv
    PROVE  /\ inside(sta_pending, entry) \in Nat /\ kept \in Nat
           /\ sta_pending \in Queues /\ NrFrame \in Nat
           /\ free_xmitframe_cnt \in Nat
<1>1. sta_pending \in Queues
    BY DEF Queues, FlowInv, FlowTypes
<1>2. kept \in Nat
    BY DEF kept, b2n
<1> QED BY <1>1, <1>2, InsideType, SdioXmitAssumption
        DEF SdioXmitAssumption, FrameInv

\* Steps after which as many frames are accounted for, or fewer once a station
\* was freed.
LEMMA FrameMove ==
    ASSUME FlowInv, FrameInv, UNCHANGED <<nfree, linked, freeing>>,
           free_xmitframe_cnt' \in Nat, inside(sta_pending', entry') \in Int,
           kept' \in Int,
           LET n == free_xmitframe_cnt' + inside(sta_pending', entry') + kept'
           IN  n = accounted \/ (nfree # 0 /\ n <= accounted)
    PROVE  FrameInv'
<1>1. accounted' = free_xmitframe_cnt' + inside(sta_pending', entry') + kept'
    BY DEF accounted, inside, queued, waits
<1>2. accounted \in Int /\ accounted' \in Int /\ NrFrame \in Nat
    BY <1>1, FrameType DEF accounted, FrameInv
<1> QED BY <1>1, <1>2 DEF FrameInv

\* The stack takes a frame, passes it on or frees it.
LEMMA FrameStack == ASSUME FlowInv, FrameInv, FlowInv', Stack PROVE FrameInv'
<1>1. free_xmitframe_cnt \in Nat /\ sta_pending \in Queues
    BY FrameType DEF FrameInv
<1>2. ASSUME NEW ac \in AcSet, NEW s \in Stations, xmit_entry(ac, s)
      PROVE  FrameInv'
  <2>1. /\ UNCHANGED <<nfree, linked, freeing, sta_pending, abuf>>
        /\ free_xmitframe_cnt > 0 /\ free_xmitframe_cnt' = free_xmitframe_cnt + -1
        /\ entry[ac] = "none" /\ entry' = [entry EXCEPT ![ac] = s] /\ s # "none"
      BY <1>2, SdioXmitAssumption DEF xmit_entry, aggr, bounds, SdioXmitAssumption
  <2>2. entry'[ac] = s /\ \A c \in AcSet : c # ac => entry'[c] = entry[c]
      BY <2>1 DEF FlowInv, FlowTypes
  <2>3. inside(sta_pending, entry') = inside(sta_pending, entry)
          - Len(sta_pending[ac][s]) + Len(sta_pending[ac][s])
          - waits(entry, ac) + waits(entry', ac)
      BY <1>1, <2>2, InsideChange
  <2>4. /\ waits(entry, ac) = 0 /\ waits(entry', ac) = 1
        /\ Len(sta_pending[ac][s]) \in Nat
      BY <1>1, <2>1, <2>2 DEF waits, b2n, Queues
  <2>5. inside(sta_pending', entry') = inside(sta_pending, entry) + 1
      BY <2>1, <2>3, <2>4, FrameType
  <2>6. kept' = kept + 0 /\ free_xmitframe_cnt' \in Nat
      BY <1>1, <2>1 DEF kept, b2n
  <2> QED BY <2>1, <2>5, <2>6, FrameMove, FrameType DEF accounted
<1>3. ASSUME NEW ac \in AcSet, hal_xmit(ac)
      PROVE  FrameInv'
  <2>1. /\ UNCHANGED <<nfree, linked, freeing, abuf>> /\ entry[ac] # "none"
        /\ entry' = [entry EXCEPT ![ac] = "none"]
      BY <1>3 DEF hal_xmit, aggr, bounds
  <2>2. PICK s \in Stations : s = entry[ac]
      BY <2>1 DEF FlowInv, FlowTypes
  <2>3. entry'[ac] = "none" /\ \A c \in AcSet : c # ac => entry'[c] = entry[c]
      BY <2>1 DEF FlowInv, FlowTypes
  <2>4. waits(entry, ac) = 1 /\ waits(entry', ac) = 0
      BY <2>1, <2>3 DEF waits, b2n
  <2>5. kept' = kept + 0
      BY <2>1 DEF kept, b2n
  <2>6. sta_pending' \in Queues
      BY DEF Queues, FlowInv, FlowTypes
  <2>7. CASE s \in linked
    <3>1. /\ sta_pending' = [sta_pending EXCEPT
                               ![ac][s] = Append(@, npkt'[ac][s])]
          /\ free_xmitframe_cnt' = free_xmitframe_cnt
        BY <1>3, <2>2, <2>7 DEF hal_xmit
    <3>2. /\ \A c \in AcSet : c # ac => sta_pending'[c] = sta_pending[c]
          /\ \A t \in Stations : t # s => sta_pending'[ac][t] = sta_pending[ac][t]
          /\ sta_pending'[ac][s] = Append(sta_pending[ac][s], npkt'[ac][s])
        BY <1>1, <3>1 DEF Queues
    <3>3. PICK l \in Nat : l = Len(sta_pending[ac][s])
        BY <1>1 DEF Queues
    <3>4. Len(sta_pending'[ac][s]) = l + 1
      <4>1. npkt'[ac][s] \in Nat /\ sta_pending[ac][s] \in Seq(Nat)
          BY <1>1 DEF Queues, FlowInv, FlowTypes
      <4> QED BY <3>2, <3>3, <4>1
    <3>5. inside(sta_pending', entry') = inside(sta_pending, entry)
            - Len(sta_pending[ac][s]) + Len(sta_pending'[ac][s])
            - waits(entry, ac) + waits(entry', ac)
        BY <1>1, <2>3, <2>6, <3>2, InsideChange
    <3>6. inside(sta_pending', entry')
            = inside(sta_pending, entry) - l + (l + 1) - 1 + 0
        BY <2>4, <3>3, <3>4, <3>5
    <3>7. inside(sta_pending', entry') = inside(sta_pending, entry) + 0
        BY <3>6, FrameType
    <3>8. /\ free_xmitframe_cnt' = free_xmitframe_cnt + 0
          /\ free_xmitframe_cnt' \in Nat
        BY <1>1, <3>1
    <3> QED BY <2>1, <2>5, <3>7, <3>8, FrameMove, FrameType DEF accounted
  <2>8. CASE s \notin linked
    <3>1. /\ UNCHANGED sta_pending /\ free_xmitframe_cnt' = free_xmitframe_cnt + 1
        BY <1>3, <2>2, <2>8 DEF hal_xmit
    <3>2. inside(sta_pending, entry') = inside(sta_pending, entry)
            - Len(sta_pending[ac][s]) + Len(sta_pending[ac][s])
            - waits(entry, ac) + waits(entry', ac)
        BY <1>1, <2>3, InsideChange
    <3>3. PICK l \in Nat : l = Len(sta_pending[ac][s])
        BY <1>1 DEF Queues
    <3>4. inside(sta_pending', entry') = inside(sta_pending, entry) - l + l - 1 + 0
        BY <2>4, <3>1, <3>2, <3>3
    <3>5. inside(sta_pending', entry') = inside(sta_pending, entry) + -1
        BY <3>4, FrameType
    <3>6. free_xmitframe_cnt' \in Nat
        BY <1>1, <3>1
    <3> QED BY <2>1, <2>5, <3>1, <3>5, <3>6, FrameMove, FrameType DEF accounted
  <2> QED BY <2>7, <2>8
<1> QED BY <1>2, <1>3 DEF Stack

\* A buffer that is handed over has a packet.
LEMMA HandedOver ==
    ASSUME FlowInv, abuf # NoBuf, agg_full \/ (agg_flush /\ agg_num(abuf) > 0)
    PROVE  Len(abuf.pkts) > 0
<1>1. abuf.tag = "data" /\ Len(abuf.pkts) \in Nat
    BY DEF FlowInv, FlowTypes, AbufInv, Bufs
<1>2. agg_num(abuf) = Len(abuf.pkts) /\ pg_num(abuf) = Len(abuf.pkts)
    BY <1>1 DEF agg_num, pg_num
<1>3. CASE agg_full
  <2>1. Len(abuf.pkts) + 1 > MaxPages \/ Len(abuf.pkts) >= OqtMax - 1
      BY <1>2, <1>3 DEF agg_full, no_room
  <2>2. MaxPages >= 1 /\ OqtMax \in Nat /\ OqtMax >= 2
      BY SdioXmitAssumption DEF SdioXmitAssumption
  <2>3. MaxPages \in Int
      BY SdioXmitAssumption DEF SdioXmitAssumption, MaxPages
  <2> HIDE DEF MaxPages
  <2> QED BY <1>1, <2>1, <2>2, <2>3
<1>4. CASE agg_num(abuf) > 0
    BY <1>2, <1>4
<1> QED BY <1>3, <1>4

\* Its frame is freed with the last packet of a buffer.
LEMMA FrameHandOver ==
    ASSUME FlowInv, FrameInv, agg_full \/ agg_flush PROVE FrameInv'
<1>1. UNCHANGED <<nfree, linked, freeing, sta_pending, entry>> /\ abuf' = NoBuf
    BY DEF agg_full, agg_flush, bounds
<1>2. inside(sta_pending', entry') = inside(sta_pending, entry) + 0
    BY <1>1, FrameType
<1>3. kept' = 0
    BY <1>1 DEF kept, b2n, NoBuf
<1>4. free_xmitframe_cnt \in Nat
    BY DEF FrameInv
<1>5. CASE Len(abuf.pkts) > 0 /\ free_xmitframe_cnt' = free_xmitframe_cnt + 1
  <2>1. kept = 1
      BY <1>5 DEF kept, b2n
  <2>2. kept' = kept + -1 /\ free_xmitframe_cnt' \in Nat
      BY <1>3, <1>4, <1>5, <2>1
  <2> QED BY <1>1, <1>2, <1>5, <2>2, FrameMove, FrameType DEF accounted
<1>6. CASE ~(Len(abuf.pkts) > 0) /\ UNCHANGED free_xmitframe_cnt
  <2>1. kept = 0
      BY <1>6 DEF kept, b2n
  <2>2. /\ kept' = kept + 0 /\ free_xmitframe_cnt' = free_xmitframe_cnt + 0
        /\ free_xmitframe_cnt' \in Nat
      BY <1>3, <1>4, <1>6, <2>1
  <2> QED BY <1>1, <1>2, <2>2, FrameMove, FrameType DEF accounted
<1>7. CASE agg_full
    BY <1>5, <1>7, HandedOver DEF agg_full, enqueue_pending_xmitbuf
<1>8. CASE agg_flush
  <2>1. \/ abuf = NoBuf /\ UNCHANGED free_xmitframe_cnt
        \/ /\ abuf # NoBuf /\ agg_num(abuf) > 0
           /\ free_xmitframe_cnt' = free_xmitframe_cnt + 1
        \/ /\ abuf # NoBuf /\ ~(agg_num(abuf) > 0) /\ UNCHANGED free_xmitframe_cnt
      BY <1>8, Zenon DEF agg_flush, enqueue_pending_xmitbuf
  <2>2. abuf = NoBuf => ~(Len(abuf.pkts) > 0)
      BY DEF NoBuf
  <2>3. abuf # NoBuf => agg_num(abuf) = Len(abuf.pkts)
      BY DEF FlowInv, AbufInv, agg_num
  <2> QED BY <1>5, <1>6, <2>1, <2>2, <2>3
<1> QED BY <1>7, <1>8

\* A packet is copied: the first of a buffer keeps its frame, the others free
\* theirs; of a station that left, the frame of the second is lost.
LEMMA FrameCoalesce ==
    ASSUME FlowInv, FrameInv, FlowInv', agg_coalesce PROVE FrameInv'
<1> DEFINE s == Head(todo)
           n == Head(sta_pending[Ac][s])
           c == [abuf EXCEPT !.pkts = Append(@, <<s, n>>)]
<1>1. /\ Ac \in AcSet /\ s \in Stations /\ sta_pending[Ac][s] # <<>>
      /\ sta_pending[Ac][s] \in Seq(Nat)
    BY AtFrame DEF agg_coalesce
<1>2. /\ UNCHANGED <<nfree, linked, freeing, entry>> /\ abuf # NoBuf
      /\ sta_pending' = [sta_pending EXCEPT ![Ac][s] = Tail(@)]
      /\ abuf' = IF s \in linked THEN c ELSE abuf
      /\ IF agg_num(abuf') = 1 THEN UNCHANGED free_xmitframe_cnt
                               ELSE free_xmitframe_cnt' = free_xmitframe_cnt + 1
    BY DEF agg_coalesce, no_room, keeps, bounds
<1>3. n \in Nat /\ <<s, n>> \in Stations \X Nat
    BY <1>1
<1> HIDE DEF s, n
<1>4. PICK L \in Nat : L = Len(abuf.pkts)
    BY DEF FlowInv, FlowTypes, Bufs
<1>5. c.tag = abuf.tag /\ Len(c.pkts) = L + 1
    BY <1>3, <1>4 DEF FlowInv, FlowTypes, Bufs
<1> HIDE DEF c
<1>6. abuf.tag = "data"
    BY <1>2 DEF FlowInv, AbufInv
<1>7. inside(sta_pending', entry') = inside(sta_pending, entry) + -1
  <2>1. sta_pending \in Queues /\ sta_pending' \in Queues
      BY DEF FlowInv, FlowTypes, Queues
  <2>2. PICK k \in AcSet : k = Ac
      BY <1>1
  <2>3. /\ \A a \in AcSet : a # k => sta_pending'[a] = sta_pending[a]
        /\ \A t \in Stations : t # s => sta_pending'[k][t] = sta_pending[k][t]
        /\ sta_pending'[k][s] = Tail(sta_pending[k][s])
      BY <1>1, <1>2, <2>1, <2>2 DEF Queues
  <2>4. /\ Len(sta_pending[k][s]) - 1 \in Nat /\ Len(sta_pending[k][s]) \in Nat
        /\ Len(sta_pending'[k][s]) = Len(sta_pending[k][s]) - 1
      BY <1>1, <2>2, <2>3
  <2>5. inside(sta_pending', entry) = inside(sta_pending, entry)
          - Len(sta_pending[k][s]) + Len(sta_pending'[k][s])
          - waits(entry, k) + waits(entry, k)
    <3>1. PICK u \in Stations : u = s
        BY <1>1
    <3>2. /\ \A a \in AcSet : a # k => sta_pending'[a] = sta_pending[a]
                                     /\ entry[a] = entry[a]
          /\ \A t \in Stations : t # u => sta_pending'[k][t] = sta_pending[k][t]
        BY <2>3, <3>1
    <3>3. inside(sta_pending', entry) = inside(sta_pending, entry)
            - Len(sta_pending[k][u]) + Len(sta_pending'[k][u])
            - waits(entry, k) + waits(entry, k)
        BY <2>1, <3>2, InsideChange
    <3> QED BY <3>1, <3>3
  <2>6. PICK l, x \in Nat : l = Len(sta_pending[k][s]) /\ x = waits(entry, k)
      BY <2>4 DEF waits, b2n
  <2>7. inside(sta_pending', entry)
          = inside(sta_pending, entry) - l + (l - 1) - x + x
      BY <2>4, <2>5, <2>6
  <2> QED BY <1>2, <2>7, FrameType
<1>8. free_xmitframe_cnt \in Nat
    BY DEF FrameInv
<1>9. kept = b2n(L > 0)
    BY <1>4 DEF kept
<1>10. CASE s \in linked
  <2>1. agg_num(abuf') = L + 1 /\ kept' = 1
    <3>1. Len(abuf'.pkts) = L + 1 /\ abuf'.tag = "data" /\ L + 1 > 0
        BY <1>2, <1>5, <1>6, <1>10
    <3> QED BY <3>1 DEF agg_num, kept, b2n
  <2>2. CASE L = 0
    <3>1. /\ free_xmitframe_cnt' = free_xmitframe_cnt + 0
          /\ free_xmitframe_cnt' \in Nat
        BY <1>2, <1>8, <2>1, <2>2
    <3>2. kept' = kept + 1
        BY <1>9, <2>1, <2>2 DEF b2n
    <3> QED BY <1>2, <1>7, <3>1, <3>2, FrameMove, FrameType DEF accounted
  <2>3. CASE L # 0
    <3>1. /\ free_xmitframe_cnt' = free_xmitframe_cnt + 1
          /\ free_xmitframe_cnt' \in Nat
        BY <1>2, <1>8, <2>1, <2>3
    <3>2. kept' = kept + 0
        BY <1>9, <2>1, <2>3 DEF b2n
    <3> QED BY <1>2, <1>7, <3>1, <3>2, FrameMove, FrameType DEF accounted
  <2> QED BY <2>2, <2>3
<1>11. CASE s \notin linked
  <2>1. agg_num(abuf') = L /\ kept' = kept + 0
      BY <1>2, <1>4, <1>6, <1>11 DEF agg_num, kept, b2n
  <2>2. nfree # 0
      BY <1>1, <1>11 DEF FrameInv
  <2>3. CASE L = 1
    <3>1. /\ free_xmitframe_cnt' = free_xmitframe_cnt + 0
          /\ free_xmitframe_cnt' \in Nat
        BY <1>2, <1>8, <2>1, <2>3
    <3> QED BY <1>2, <1>7, <2>1, <2>2, <3>1, FrameMove, FrameType DEF accounted
  <2>4. CASE L # 1
    <3>1. /\ free_xmitframe_cnt' = free_xmitframe_cnt + 1
          /\ free_xmitframe_cnt' \in Nat
        BY <1>2, <1>8, <2>1, <2>4
    <3> QED BY <1>2, <1>7, <2>1, <3>1, FrameMove, FrameType DEF accounted
  <2> QED BY <2>3, <2>4
<1> QED BY <1>10, <1>11

\* Stations that come and go.
LEMMA FrameSta ==
    ASSUME FlowInv, FrameInv, FlowInv', NEW s \in Stations, Sta(s)
    PROVE  FrameInv'
<1>1. UNCHANGED <<entry, abuf>> /\ kept' = kept
    BY DEF Sta, rtw_free_stainfo, free_xmitframe_queues, rtw_alloc_stainfo, aggr,
           kept
<1>2. CASE rtw_free_stainfo(s)
  <2>1. /\ UNCHANGED <<free_xmitframe_cnt, sta_pending>>
        /\ nfree < MaxFree /\ nfree' = nfree + 1
        /\ linked' = linked \ {s} /\ freeing' = freeing \cup {s}
      BY <1>2 DEF rtw_free_stainfo
  <2>2. nfree' \in Nat /\ nfree' # 0 /\ nfree' <= MaxFree
      BY <2>1, SdioXmitAssumption DEF FrameInv, SdioXmitAssumption
  <2>3. freeing' \subseteq Stations \ linked'
      BY <2>1 DEF FrameInv
  <2>4. inside(sta_pending, entry)' = inside(sta_pending, entry)
      BY <1>1, <2>1 DEF inside, queued, waits
  <2> QED BY <1>1, <2>1, <2>2, <2>3, <2>4 DEF FrameInv, accounted
<1>3. CASE rtw_alloc_stainfo(s)
  <2>1. /\ UNCHANGED <<free_xmitframe_cnt, sta_pending, nfree, freeing>>
        /\ linked' = linked \cup {s} /\ s \notin linked \cup freeing
      BY <1>3 DEF rtw_alloc_stainfo, bounds
  <2>2. nfree # 0 /\ freeing' \subseteq Stations \ linked'
      BY <2>1 DEF FrameInv
  <2>3. inside(sta_pending, entry)' = inside(sta_pending, entry)
      BY <1>1, <2>1 DEF inside, queued, waits
  <2> QED BY <1>1, <2>1, <2>2, <2>3 DEF FrameInv, accounted
<1>4. CASE free_xmitframe_queues(s)
  <2> DEFINE d == flushed(sta_pending, s)
  <2>1. /\ UNCHANGED <<nfree, linked>> /\ freeing' = freeing \ {s} /\ s \in freeing
        /\ sta_pending' = [ac \in AcSet |-> [sta_pending[ac] EXCEPT ![s] = <<>>]]
        /\ free_xmitframe_cnt' = free_xmitframe_cnt + d
      BY <1>4 DEF free_xmitframe_queues, bounds, flushed
  <2>2. sta_pending \in Queues /\ sta_pending' \in Queues
      BY DEF FlowInv, FlowTypes, Queues
  <2>3. \A c \in AcSet : sta_pending'[c] = [sta_pending[c] EXCEPT ![s] = <<>>]
      BY <2>1
  <2>4. d \in Nat /\ inside(sta_pending, entry) = inside(sta_pending', entry) + d
        /\ inside(sta_pending', entry) \in Nat
    <3>1. /\ d \in Nat
          /\ inside(sta_pending, entry) = inside(sta_pending', entry) + d
        BY <2>2, <2>3, InsideFlush
    <3> QED BY <2>2, <3>1, InsideType
  <2> HIDE DEF d
  <2>5. inside(sta_pending, entry)' = inside(sta_pending', entry)
      BY <1>1 DEF inside, queued, waits
  <2>6. nfree # 0 /\ freeing' \subseteq Stations \ linked'
      BY <2>1 DEF FrameInv
  <2>7. free_xmitframe_cnt \in Nat /\ free_xmitframe_cnt' \in Nat
      BY <2>1, <2>4 DEF FrameInv
  <2>8. free_xmitframe_cnt' + inside(sta_pending', entry) + kept
          = free_xmitframe_cnt + inside(sta_pending, entry) + kept
      BY <2>1, <2>4, <2>7, FrameType
  <2>9. accounted' <= NrFrame
      BY <1>1, <2>5, <2>8 DEF FrameInv, accounted
  <2> QED BY <2>1, <2>6, <2>7, <2>9 DEF FrameInv
<1> QED BY <1>2, <1>3, <1>4 DEF Sta

\* Every step keeps the frames' invariant.
LEMMA FrameStep ==
    ASSUME FlowInv, FrameInv, FlowInv', [Next]_vars PROVE FrameInv'
<1>1. UNCHANGED framed => FrameInv'
    BY DEF FrameInv, accounted, inside, queued, waits, kept, framed
<1>2. \/ mgnt_xmit \/ Writer \/ agg_wait \/ agg_next \/ agg_ac
      \/ agg_station_done \/ agg_sema_down \/ agg_return \/ agg_unavail
      => UNCHANGED framed
    BY DEF mgnt_xmit, Writer, writer_wait, writer_select, writer_pages,
           writer_refresh, writer_oqt, writer_write, writer_sema_up, agg_wait,
           agg_next, agg_ac, agg_station_done, agg_sema_down, agg_return,
           agg_unavail, framed, frames, aggr, bounds
<1>3. \/ Chip \/ Scan \/ rtw_dev_unload \/ Stopping \/ UNCHANGED vars
      => UNCHANGED framed
    BY DEF Chip, chip_send, sd_int_dpc, fw_sleep, cpwm_int_hdl, Scan, scan_start,
           scan_end, rtw_os_xmit_schedule, rtw_dev_unload, Stopping, stop_writer,
           stop_up, stop_down, stop_done, vars, framed, frames, aggr, bounds
\* An empty buffer keeps no frame.
<1>4. ASSUME agg_alloc PROVE FrameInv'
  <2>1. /\ UNCHANGED <<nfree, linked, freeing, sta_pending, entry,
                       free_xmitframe_cnt>>
        /\ abuf = NoBuf /\ abuf' \in {NoBuf, Data(Ac, <<>>)}
      BY <1>4 DEF agg_alloc, bounds
  <2>2. kept = 0 /\ kept' = 0
      BY <2>1 DEF kept, b2n, NoBuf, Data
  <2>3. inside(sta_pending, entry)' = inside(sta_pending, entry)
      BY <2>1 DEF inside, queued, waits
  <2> QED BY <2>1, <2>2, <2>3 DEF FrameInv, accounted
<1> QED BY <1>1, <1>2, <1>3, <1>4, FrameStack, FrameHandOver, FrameCoalesce,
           FrameSta
        DEF Next, Aggregator

-----------------------------------------------------------------------------
(* The chip's outstanding queue, and the rest of the types                 *)

\* The writer never counts on more room than the chip has.
OqtInv ==
    /\ SdioTxOQTFreeSpace \in Nat
    /\ SdioTxOQTFreeSpace + outstanding(fifo) <= OqtMax

\* Every step keeps the room's invariant.
LEMMA OqtStep ==
    ASSUME FlowInv, PageInv, PageInv', OqtInv, [Next]_vars PROVE OqtInv'
<1>1. UNCHANGED <<SdioTxOQTFreeSpace, fifo>> => OqtInv'
    BY DEF OqtInv, outstanding
<1>2. \/ Stack \/ mgnt_xmit \/ Aggregator \/ Scan
      \/ (\E s \in Stations : Sta(s)) \/ rtw_dev_unload \/ Stopping
      \/ sd_int_dpc \/ fw_sleep \/ cpwm_int_hdl \/ UNCHANGED vars
      => UNCHANGED <<SdioTxOQTFreeSpace, fifo>>
    BY DEF Stack, xmit_entry, hal_xmit, mgnt_xmit, Aggregator, agg_wait,
           agg_next, agg_ac, agg_full, agg_alloc, agg_coalesce,
           agg_station_done, agg_sema_down, agg_flush, agg_return, agg_unavail,
           sd_int_dpc, fw_sleep, cpwm_int_hdl, Scan, scan_start, scan_end,
           rtw_os_xmit_schedule, Sta, rtw_free_stainfo, free_xmitframe_queues,
           rtw_alloc_stainfo, rtw_dev_unload, Stopping, stop_writer, stop_up,
           stop_down, stop_done, vars, writer, chip
<1>3. /\ fifo \in Seq(Written) /\ OqtMax \in Nat /\ SdioTxOQTFreeSpace \in Nat
      /\ SdioTxOQTFreeSpace + outstanding(fifo) <= OqtMax
    BY SdioXmitAssumption DEF SdioXmitAssumption, PageInv, OqtInv
<1>4. outstanding(fifo) \in Nat
  <2> DEFINE w == [q |-> "H", agg |-> 0, own |-> 0, pub |-> 0]
  <2>1. w \in Written
      BY DEF Written, PageQueues
  <2> QED BY <1>3, <2>1, OutstandingAppend
<1>5. ASSUME NEW i \in DOMAIN fifo, chip_send(i) PROVE OqtInv'
  <2>1. i \in 1 .. Len(fifo) /\ fifo' = RemoveAt(fifo, i)
        /\ UNCHANGED SdioTxOQTFreeSpace
      BY <1>3, <1>5 DEF chip_send, writer
  <2>2. /\ outstanding(RemoveAt(fifo, i)) \in Nat
        /\ outstanding(RemoveAt(fifo, i)) <= outstanding(fifo)
      BY <1>3, <2>1, OutstandingRemove
  <2>3. outstanding(fifo)' = outstanding(RemoveAt(fifo, i))
      BY <2>1 DEF outstanding
  <2> QED BY <1>3, <1>4, <2>1, <2>2, <2>3 DEF OqtInv
<1>6. CASE Writer
  <2>1. CASE writer_wait \/ writer_select \/ writer_pages \/ writer_refresh
             \/ writer_sema_up
      BY <1>1, <2>1 DEF writer_wait, writer_select, writer_pages, writer_refresh,
                        writer_sema_up, chip
  <2>2. CASE writer_oqt
    <3>1. fifo' = fifo /\ SdioTxOQTFreeSpace' \in {SdioTxOQTFreeSpace,
                                                   OqtMax - outstanding(fifo)}
        BY <2>2 DEF writer_oqt, chip, oqt_used, outstanding
    <3>2. outstanding(fifo)' = outstanding(fifo)
        BY <3>1 DEF outstanding
    <3> QED BY <1>3, <1>4, <3>1, <3>2 DEF OqtInv
  <2>3. CASE writer_write
    <3>1. agg_num(wbuf) \in Nat
        BY PageIdxType DEF FlowInv, FlowTypes, pg_num
    <3>2. /\ SdioTxOQTFreeSpace >= agg_num(wbuf)
          /\ SdioTxOQTFreeSpace' = SdioTxOQTFreeSpace - agg_num(wbuf)
        BY <2>3 DEF writer_write
    <3> DEFINE w == [q |-> PageIdx[wbuf.ac], agg |-> agg_num(wbuf),
                     own |-> freePage[PageIdx[wbuf.ac]]
                               - freePage'[PageIdx[wbuf.ac]],
                     pub |-> freePage["P"] - freePage'["P"]]
    <3>3. fifo' = Append(fifo, w) /\ w.agg = agg_num(wbuf)
        BY <2>3 DEF writer_write
    <3> HIDE DEF w
    <3>4. w \in Written
      <4>1. fifo' \in Seq(Written) /\ Len(fifo) + 1 \in 1 .. Len(fifo')
            /\ fifo'[Len(fifo) + 1] = w
          BY <1>3, <3>3 DEF PageInv
      <4> QED BY <4>1
    <3>5. outstanding(Append(fifo, w)) = outstanding(fifo) + agg_num(wbuf)
        BY <1>3, <3>3, <3>4, OutstandingAppend
    <3>6. outstanding(fifo)' = outstanding(fifo) + agg_num(wbuf)
        BY <3>3, <3>5 DEF outstanding
    <3> QED BY <1>3, <1>4, <3>1, <3>2, <3>6 DEF OqtInv
  <2> QED BY <1>6, <2>1, <2>2, <2>3 DEF Writer
<1> QED BY <1>1, <1>2, <1>5, <1>6 DEF Next, Chip

\* Where the threads may be, and what they have counted.
ControlInv ==
    /\ SdioXmitSema \in Nat /\ xmit_sema \in Nat
    /\ apc \in {"wait", "next", "ac", "sta", "down", "ret", "unavail",
                "asleep", "give_back", "exit"}
    /\ aidx <= Len(Acs) + 1
    /\ ret \in {"ok", "RTW_TX_BALANCE", "RTW_XBUF_UNAVAIL",
                "RTW_TX_WAIT_MORE_FRAME"}
    /\ wpc \in {"wait", "select", "pages", "refresh", "oqt", "up", "exit"}
    /\ spc \in {"up", "stopping", "writer", "down", "aggregator", "unloaded"}

FlagInv ==
    /\ single \in BOOLEAN /\ bUpdatePageNum \in BOOLEAN
    /\ sdio_avail_int_en_q \in PageQueues \cup {"none"}
    /\ tx_alive \in BOOLEAN /\ asleep \in BOOLEAN /\ waking \in BOOLEAN
    /\ scanning \in BOOLEAN /\ kick \in BOOLEAN /\ avail \in BOOLEAN

SentInv == sent \in [AcSet -> [Stations -> 0 .. MaxPkt]]

\* Every step keeps the threads in their places.
LEMMA ControlStep ==
    ASSUME FlowInv, ControlInv, [Next]_vars PROVE ControlInv'
<1>1. CASE Stack \/ mgnt_xmit
    BY <1>1 DEF Stack, xmit_entry, hal_xmit, mgnt_xmit, aggr, writer, ControlInv
<1>2. CASE \/ agg_wait \/ agg_next \/ agg_ac \/ agg_return \/ agg_unavail
           \/ agg_sema_down
  <2>1. UNCHANGED <<xmit_sema, wpc, spc>> /\ SdioXmitSema' \in Nat
      BY <1>2 DEF agg_wait, agg_next, agg_ac, agg_return, agg_unavail,
                  agg_sema_down, writer, ControlInv
  <2>2. apc' \in {"wait", "next", "ac", "sta", "down", "ret", "unavail",
                  "asleep", "give_back", "exit"}
      BY <1>2 DEF agg_wait, agg_next, agg_ac, agg_return, agg_unavail,
                  agg_sema_down, ControlInv
  <2>3. ret' \in {ret, "ok", "RTW_TX_WAIT_MORE_FRAME"} /\ aidx' \in {aidx, 1}
      BY <1>2 DEF agg_wait, agg_next, agg_ac, agg_return, agg_unavail,
                  agg_sema_down
  <2>4. aidx' <= Len(Acs) + 1
      BY <2>3, SdioXmitAssumption DEF SdioXmitAssumption, ControlInv
  <2> QED BY <2>1, <2>2, <2>3, <2>4 DEF ControlInv
<1>3. CASE agg_full \/ agg_alloc \/ agg_coalesce \/ agg_station_done
  <2>1. /\ UNCHANGED <<SdioXmitSema, wpc, spc, aidx>>
        /\ xmit_sema' \in {xmit_sema, xmit_sema + 1}
      BY <1>3 DEF agg_full, agg_alloc, agg_coalesce, agg_station_done, writer,
                  enqueue_pending_xmitbuf
  <2>2. apc' \in {apc, "sta", "down"}
        /\ ret' \in {ret, "RTW_TX_BALANCE", "RTW_XBUF_UNAVAIL"}
      BY <1>3 DEF agg_full, agg_alloc, agg_coalesce, agg_station_done,
                  leave_station
  <2> QED BY <2>1, <2>2 DEF ControlInv
<1>4. CASE agg_flush
  <2>1. /\ UNCHANGED <<SdioXmitSema, wpc, spc, ret>> /\ apc = "down"
        /\ apc' \in {"ret", "ac"} /\ aidx' \in {aidx, aidx + 1}
      BY <1>4 DEF agg_flush, writer
  <2>2. xmit_sema' \in {xmit_sema, xmit_sema + 1}
      BY <1>4, Zenon DEF agg_flush, enqueue_pending_xmitbuf
  <2>3. aidx \in 1 .. Len(Acs) /\ Len(Acs) \in Nat
      BY <2>1, SdioXmitAssumption DEF FlowInv, AbufInv, SdioXmitAssumption
  <2>4. aidx' <= Len(Acs) + 1
      BY <2>1, <2>3
  <2> QED BY <2>1, <2>2, <2>4 DEF ControlInv
<1>5. CASE Writer
  <2>1. /\ UNCHANGED <<SdioXmitSema, spc, aidx, ret>>
        /\ apc' \in {apc, "give_back"} /\ xmit_sema' \in Nat
      BY <1>5 DEF Writer, writer_wait, writer_select, writer_pages,
                  writer_refresh, writer_oqt, writer_write, writer_sema_up, aggr,
                  rtw_sdio_free_xmitbuf_sema_up, ControlInv
  <2>2. wpc' \in {"wait", "select", "pages", "refresh", "oqt", "up", "exit"}
      BY <1>5 DEF Writer, writer_wait, writer_select, writer_pages,
                  writer_refresh, writer_oqt, writer_write, writer_sema_up,
                  free_wbuf, ControlInv
  <2> QED BY <2>1, <2>2 DEF ControlInv
<1>6. CASE Chip \/ Scan \/ (\E s \in Stations : Sta(s)) \/ UNCHANGED vars
  <2>1. /\ UNCHANGED <<SdioXmitSema, apc, aidx, ret, wpc, spc>>
        /\ xmit_sema' \in {xmit_sema, xmit_sema + 1}
      BY <1>6 DEF Chip, chip_send, sd_int_dpc, fw_sleep, cpwm_int_hdl, Scan,
                  scan_start, scan_end, rtw_os_xmit_schedule, Sta,
                  rtw_free_stainfo, free_xmitframe_queues, rtw_alloc_stainfo,
                  vars, aggr, writer
  <2> QED BY <2>1 DEF ControlInv
<1>7. CASE rtw_dev_unload \/ Stopping
    BY <1>7 DEF rtw_dev_unload, Stopping, stop_writer, stop_up, stop_down,
                stop_done, rtw_sdio_free_xmitbuf_sema_up, aggr, writer,
                ControlInv
<1> QED BY <1>1, <1>2, <1>3, <1>4, <1>5, <1>6, <1>7 DEF Next, Aggregator

\* Flags are flags.
LEMMA FlagStep ==
    ASSUME FlowInv, FlagInv, [Next]_vars PROVE FlagInv'
<1>1. single' \in BOOLEAN /\ bUpdatePageNum' \in BOOLEAN
  <2>1. CASE agg_ac
    <3>1. \/ single' = single \/ single' = (Len(sta_queue[Ac]) <= 1)
        BY <2>1, Zenon DEF agg_ac
    <3>2. bUpdatePageNum' = bUpdatePageNum
        BY <2>1 DEF agg_ac, writer
    <3>3. (Len(sta_queue[Ac]) <= 1) \in BOOLEAN
        OBVIOUS
    <3> QED BY <3>1, <3>2, <3>3, Zenon DEF FlagInv
  <2>2. CASE ~agg_ac
    <3>1. single' = single /\ bUpdatePageNum' \in {bUpdatePageNum, TRUE, FALSE}
        BY <2>2
        DEF Next, Stack, xmit_entry, hal_xmit, mgnt_xmit, Aggregator,
           agg_wait, agg_next, agg_full, agg_alloc, agg_coalesce,
           agg_station_done, agg_sema_down, agg_flush, agg_return, agg_unavail,
           Writer, writer_wait, writer_select, writer_pages, writer_refresh,
           writer_oqt, writer_write, writer_sema_up, Chip, chip_send, sd_int_dpc,
           fw_sleep, cpwm_int_hdl, Scan, scan_start, scan_end,
           rtw_os_xmit_schedule, Sta, rtw_free_stainfo, free_xmitframe_queues,
           rtw_alloc_stainfo, rtw_dev_unload, Stopping, stop_writer, stop_up,
           stop_down, stop_done, vars, aggr, writer
    <3> QED BY <3>1, Zenon DEF FlagInv
  <2> QED BY <2>1, <2>2
<1>2. sdio_avail_int_en_q' \in PageQueues \cup {"none"}
  <2>1. PageIdx[wbuf.ac] \in PageQueues
      BY PageIdxType DEF FlowInv, FlowTypes
  <2>2. sdio_avail_int_en_q' \in {sdio_avail_int_en_q, PageIdx[wbuf.ac]}
      BY DEF Next, Stack, xmit_entry, hal_xmit, mgnt_xmit, Aggregator,
           agg_wait, agg_next, agg_ac, agg_full, agg_alloc, agg_coalesce,
           agg_station_done, agg_sema_down, agg_flush, agg_return, agg_unavail,
           Writer, writer_wait, writer_select, writer_pages, writer_refresh,
           writer_oqt, writer_write, writer_sema_up, Chip, chip_send, sd_int_dpc,
           fw_sleep, cpwm_int_hdl, Scan, scan_start, scan_end,
           rtw_os_xmit_schedule, Sta, rtw_free_stainfo, free_xmitframe_queues,
           rtw_alloc_stainfo, rtw_dev_unload, Stopping, stop_writer, stop_up,
           stop_down, stop_done, vars, writer, avail_page_threshold_en
  <2> QED BY <2>1, <2>2 DEF FlagInv
<1>3. /\ tx_alive' \in BOOLEAN /\ asleep' \in BOOLEAN /\ waking' \in BOOLEAN
      /\ scanning' \in BOOLEAN /\ kick' \in BOOLEAN /\ avail' \in BOOLEAN
  <2>1. CASE Writer
    <3>1. CASE writer_wait
      <4>1. UNCHANGED <<asleep, scanning, kick, avail>>
          BY <3>1 DEF writer_wait, power, scan, chip
      <4>2. tx_alive' = tx_alive \/ tx_alive' = TRUE
          BY <3>1 DEF writer_wait, power
      <4>3. waking' = waking \/ waking' = (waking \/ asleep)
          BY <3>1, Zenon DEF writer_wait, power
      <4> QED BY <4>1, <4>2, <4>3, Zenon DEF FlagInv
    <3>2. CASE ~writer_wait
      <4>1. /\ UNCHANGED <<asleep, waking, scanning, kick, avail>>
            /\ tx_alive' = tx_alive \/ tx_alive' = FALSE
          BY <2>1, <3>2
          DEF Writer, writer_select, writer_pages, writer_refresh, writer_oqt,
              writer_write, writer_sema_up, power, scan, chip
      <4> QED BY <4>1, Zenon DEF FlagInv
    <3> QED BY <3>1, <3>2
  <2>2. CASE Chip \/ Scan
    <3>1. ASSUME NEW i \in DOMAIN fifo, chip_send(i)
          PROVE  UNCHANGED <<power, scan>> /\ avail' \in BOOLEAN
        BY <3>1, Zenon DEF chip_send
    <3>2. CASE ~\E i \in DOMAIN fifo : chip_send(i)
      <4>1. /\ UNCHANGED tx_alive /\ asleep' \in {asleep, TRUE, FALSE}
            /\ waking' \in {waking, FALSE} /\ scanning' \in {scanning, TRUE, FALSE}
            /\ kick' \in {kick, TRUE, FALSE} /\ avail' \in {avail, FALSE}
          BY <2>2, <3>2
          DEF Chip, sd_int_dpc, fw_sleep, cpwm_int_hdl, Scan, scan_start,
              scan_end, rtw_os_xmit_schedule, power, scan, chip
      <4> QED BY <4>1, Zenon DEF FlagInv
    <3> QED BY <3>1, <3>2, Zenon DEF FlagInv, power, scan
  <2>3. CASE Stack \/ mgnt_xmit \/ Aggregator \/ (\E s \in Stations : Sta(s))
             \/ rtw_dev_unload \/ Stopping \/ UNCHANGED vars
    <3>1. UNCHANGED <<tx_alive, asleep, waking, scanning, kick, avail>>
      <4>1. CASE Stack \/ mgnt_xmit \/ (\E s \in Stations : Sta(s))
          BY <4>1 DEF Stack, xmit_entry, hal_xmit, mgnt_xmit, Sta,
                      rtw_free_stainfo, free_xmitframe_queues,
                      rtw_alloc_stainfo, power, scan, chip
      <4>2. CASE Aggregator
          BY <4>2 DEF Aggregator, agg_wait, agg_next, agg_ac, agg_full,
                      agg_alloc, agg_coalesce, agg_station_done, agg_sema_down,
                      agg_flush, agg_return, agg_unavail, power, scan, chip
      <4>3. CASE rtw_dev_unload \/ Stopping \/ UNCHANGED vars
          BY <4>3 DEF rtw_dev_unload, Stopping, stop_writer, stop_up, stop_down,
                      stop_done, vars, power, scan, chip
      <4> QED BY <2>3, <4>1, <4>2, <4>3
    <3> QED BY <3>1, Zenon DEF FlagInv
  <2> QED BY <2>1, <2>2, <2>3 DEF Next
<1> QED BY <1>1, <1>2, <1>3 DEF FlagInv

\* A set of places of a sequence has a last one.
LEMMA LastOf ==
    ASSUME NEW S, NEW q \in Seq(S), NEW T \in SUBSET (DOMAIN q), T # {}
    PROVE  /\ (CHOOSE i \in T : \A j \in T : j <= i) \in T
           /\ \A j \in T : j <= (CHOOSE i \in T : \A l \in T : l <= i)
<1> DEFINE n == Len(q)
           D == {n - i : i \in T}
<1>1. n \in Nat /\ \A i \in T : i \in 1 .. n
    OBVIOUS
<1> HIDE DEF n
<1>2. D \subseteq Nat /\ D # {}
    BY <1>1
<1>3. PICK d \in D : \A e \in D : d <= e
  <2> HIDE DEF D
  <2> QED BY <1>2, LeastNat
<1>4. PICK k \in T : d = n - k
    BY <1>3
<1>5. ASSUME NEW j \in T PROVE j <= k
  <2>1. n - j \in D /\ d <= n - j
      BY <1>3
  <2>2. j \in Int /\ k \in Int
      BY <1>1
  <2> QED BY <1>1, <1>4, <2>1, <2>2
<1> QED BY <1>5

\* What is written carries numbers that were given out.
LEMMA SentStep ==
    ASSUME CargoInv, SentInv, [Next]_vars PROVE SentInv'
<1>1. CASE writer_write
  <2>1. sent' = [ac \in AcSet |-> [s \in Stations |-> last_sent(ac, s)]]
      BY <1>1 DEF writer_write
  <2>2. ASSUME NEW ac \in AcSet, NEW s \in Stations
        PROVE  last_sent(ac, s) \in 0 .. MaxPkt
    <3> DEFINE mine == {i \in DOMAIN wbuf.pkts : wbuf.pkts[i][1] = s}
               k == CHOOSE i \in mine : \A j \in mine : j <= i
    <3>1. last_sent(ac, s) \in {sent[ac][s]}
          \/ (mine # {} /\ last_sent(ac, s) = wbuf.pkts[k][2])
        BY DEF last_sent
    <3>2. sent[ac][s] \in 0 .. MaxPkt
        BY DEF SentInv
    <3>3. wbuf.pkts \in Seq(Stations \X Number)
        BY <1>1 DEF writer_write, CargoInv, Holding, FullBufs
    <3>4. mine # {} => k \in mine
        BY <3>3, LastOf
    <3>5. \A i \in mine : wbuf.pkts[i] \in Stations \X Number
        BY <3>3
    <3>6. \A e \in Stations \X Number : e[2] \in 0 .. MaxPkt
        BY DEF Number
    <3> HIDE DEF mine, k
    <3> QED BY <3>1, <3>2, <3>4, <3>5, <3>6
  <2> QED BY <2>1, <2>2 DEF SentInv
<1>2. ~writer_write => UNCHANGED sent
    BY DEF Next, Stack, xmit_entry, hal_xmit, mgnt_xmit, Aggregator,
           agg_wait, agg_next, agg_ac, agg_full, agg_alloc, agg_coalesce,
           agg_station_done, agg_sema_down, agg_flush, agg_return, agg_unavail,
           Writer, writer_wait, writer_select, writer_pages, writer_refresh,
           writer_oqt, writer_sema_up, Chip, chip_send, sd_int_dpc,
           fw_sleep, cpwm_int_hdl, Scan, scan_start, scan_end,
           rtw_os_xmit_schedule, Sta, rtw_free_stainfo, free_xmitframe_queues,
           rtw_alloc_stainfo, rtw_dev_unload, Stopping, stop_writer, stop_up,
           stop_down, stop_done, vars, writer
<1> QED BY <1>1, <1>2 DEF SentInv

-----------------------------------------------------------------------------
(* The theorems                                                            *)

\* Everything the conservation of frames and buffers rests on.
PathInv ==
    /\ NumberInv /\ CargoInv /\ BufInv /\ FrameInv /\ OqtInv
    /\ ControlInv /\ FlagInv /\ SentInv

\* It holds of an interface that has just been opened.
LEMMA PathInit == ASSUME Init PROVE PathInv
<1>0. FlowInv
    BY FlowInit
<1>1. NumberInv
  <2>1. ASSUME NEW ac \in AcSet
        PROVE  SumFunction(npkt[ac]) + b2n(entry[ac] # "none") <= MaxPkt
    <3> DEFINE f == npkt[ac]
    <3>1. DOMAIN f = Stations /\ \A s \in Stations : f[s] = 0
        BY DEF Init
    <3> HIDE DEF f
    <3>2. SumFunction(f) = 0
        BY <3>1, Finite, SumZero DEF SumFunction
    <3>3. b2n(entry[ac] # "none") = 0
        BY DEF Init, b2n
    <3> QED BY <3>2, <3>3, SdioXmitAssumption DEF SdioXmitAssumption, f
  <2> QED BY <2>1 DEF NumberInv
<1>2. CargoInv
    BY DEF Init, CargoInv, Holding
<1>3. BufInv
  <2>1. /\ free_xmitbuf_cnt = NrBuf /\ free_xmit_extbuf_cnt = NrExt
        /\ pending_xmitbuf_queue = <<>> /\ abuf = NoBuf /\ wbuf = NoBuf
        /\ NrBuf \in Nat /\ NrExt \in Nat
      BY SdioXmitAssumption DEF Init, SdioXmitAssumption
  <2>2. ASSUME NEW tag \in Tags PROVE total(tag) = size(tag)
    <3>1. is(wbuf, tag) = 0 /\ is(abuf, tag) = 0
        BY <2>1, IsTag
    <3>2. tagged(pending_xmitbuf_queue, tag) = 0
      <4> DEFINE f == [i \in DOMAIN pending_xmitbuf_queue |->
                         b2n(pending_xmitbuf_queue[i].tag = tag)]
      <4>1. DOMAIN f = {}
          BY <2>1
      <4> HIDE DEF f
      <4>2. SumFunction(f) = 0
          BY <4>1, FS_EmptySet, SumZero DEF SumFunction
      <4> QED BY <4>2 DEF tagged, f
    <3> QED BY <2>1, <3>1, <3>2 DEF total, size, pool
  <2> QED BY <2>1, <2>2 DEF BufInv
<1>4. FrameInv
  <2>1. /\ free_xmitframe_cnt = NrFrame /\ nfree = 0 /\ freeing = {}
        /\ linked = Stations /\ abuf = NoBuf
        /\ NrFrame \in Nat /\ MaxFree \in Nat
      BY SdioXmitAssumption DEF Init, SdioXmitAssumption
  <2>2. kept = 0
      BY <2>1 DEF kept, b2n, NoBuf
  <2>3. \A ac \in AcSet : waits(entry, ac) = 0
      BY DEF Init, waits, b2n
  <2>4. \A ac \in AcSet : queued(sta_pending, ac) = 0
    <3>1. SUFFICES ASSUME NEW ac \in AcSet PROVE queued(sta_pending, ac) = 0
        OBVIOUS
    <3> DEFINE f == [s \in Stations |-> Len(sta_pending[ac][s])]
    <3>2. DOMAIN f = Stations /\ \A s \in Stations : f[s] = 0
        BY DEF Init
    <3> HIDE DEF f
    <3>3. SumFunction(f) = 0
        BY <3>2, Finite, SumZero DEF SumFunction
    <3> QED BY <3>3 DEF queued, f
  <2>5. inside(sta_pending, entry) = 0
    <3> DEFINE f == [ac \in AcSet |-> queued(sta_pending, ac) + waits(entry, ac)]
    <3>1. DOMAIN f = AcSet /\ \A ac \in AcSet : f[ac] = 0
        BY <2>3, <2>4
    <3> HIDE DEF f
    <3>2. SumFunction(f) = 0
        BY <3>1, Finite, SumZero DEF SumFunction
    <3> QED BY <3>2 DEF inside, f
  <2> QED BY <2>1, <2>2, <2>5 DEF FrameInv, accounted
<1>5. OqtInv
  <2>1. SdioTxOQTFreeSpace = OqtMax /\ OqtMax \in Nat
      BY SdioXmitAssumption DEF Init, SdioXmitAssumption
  <2>2. outstanding(fifo) = 0
    <3> DEFINE f == [i \in DOMAIN fifo |-> fifo[i].agg]
    <3>1. DOMAIN f = {}
        BY DEF Init
    <3> HIDE DEF f
    <3>2. SumFunction(f) = 0
        BY <3>1, FS_EmptySet, SumZero DEF SumFunction
    <3> QED BY <3>2 DEF outstanding, f
  <2> QED BY <2>1, <2>2 DEF OqtInv
<1>6. ControlInv
  <2>1. Len(Acs) \in Nat
      BY SdioXmitAssumption DEF SdioXmitAssumption
  <2> QED BY <2>1 DEF Init, ControlInv
<1>7. FlagInv
    BY DEF Init, FlagInv
<1>8. SentInv
    BY SdioXmitAssumption DEF SdioXmitAssumption, Init, SentInv
<1> QED BY <1>1, <1>2, <1>3, <1>4, <1>5, <1>6, <1>7, <1>8 DEF PathInv

\* PathInv is an invariant.
LEMMA PathAlways == Spec => []PathInv
<1>1. Init => PathInv
    BY PathInit
<1>2. /\ FlowInv /\ FlowInv' /\ PageInv /\ PageInv' /\ PathInv /\ [Next]_vars
      => PathInv'
    BY NumberStep, CargoStep, BufStep, FrameStep, OqtStep, ControlStep, FlagStep,
       SentStep
    DEF PathInv
<1> QED BY <1>1, <1>2, FlowAlways, PageAlways, PTL DEF Spec

\* What the invariants say of the types.
LEMMA PathTypes ==
    ASSUME FlowInv, SemaInv, PageInv, StoppedInv, PathInv PROVE TypeOK
<1>1. /\ linked \subseteq Stations /\ freeing \subseteq Stations \ linked
      /\ sta_queue \in [AcSet -> Seq(Stations)]
      /\ entry \in [AcSet -> Stations \cup {"none"}]
      /\ stopped \subseteq AcSet /\ todo \in Seq(Stations)
    BY DEF FlowInv, FlowTypes, PathInv, FrameInv, StoppedInv
<1>2. sta_pending \in [AcSet -> [Stations -> Seq(1 .. MaxPkt)]]
    BY DEF PathInv, CargoInv, Number
<1>3. free_xmitframe_cnt \in 0 .. NrFrame
    BY FrameType DEF PathInv, FrameInv, accounted
<1>4. npkt \in [AcSet -> [Stations -> 0 .. MaxPkt]]
  <2>1. ASSUME NEW ac \in AcSet, NEW s \in Stations
        PROVE  npkt[ac][s] \in 0 .. MaxPkt
    <3>1. PICK x \in 0 .. 1 : x = b2n(entry[ac] # "none")
        BY DEF b2n
    <3>2. SumFunction(npkt[ac]) + x <= MaxPkt
        BY <3>1 DEF PathInv, NumberInv
    <3> QED BY <3>2, Numbers, SdioXmitAssumption DEF SdioXmitAssumption
  <2> QED BY <2>1 DEF FlowInv, FlowTypes
<1>5. free_xmitbuf_cnt \in 0 .. NrBuf /\ free_xmit_extbuf_cnt \in 0 .. NrExt
  <2>1. BufInv /\ NrBuf \in Nat /\ NrExt \in Nat
      BY SdioXmitAssumption DEF PathInv, SdioXmitAssumption
  <2>2. ASSUME NEW tag \in Tags PROVE pool(tag) <= size(tag)
      BY <2>1, TotalType DEF BufInv, total, size
  <2>3. pool("data") <= size("data") /\ pool("mgnt") <= size("mgnt")
      BY <2>2 DEF Tags
  <2> QED BY <2>1, <2>3 DEF BufInv, pool, size
<1>6. \A i \in DOMAIN pending_xmitbuf_queue :
         pending_xmitbuf_queue[i].tag \in {"data", "mgnt"}
  <2>1. \A i \in DOMAIN pending_xmitbuf_queue :
           pending_xmitbuf_queue[i] \in FullBufs
      BY DEF PathInv, CargoInv
  <2> QED BY <2>1, FullTypes
<1>7. /\ SdioXmitSema \in Nat /\ xmit_sema \in Nat
      /\ sdio_free_xmitbuf_sema \in Nat /\ consume \in Nat
      /\ SdioTxFIFOFreePage \in [Pages -> Nat] /\ freePage \in [Pages -> Nat]
    BY DEF PathInv, ControlInv, SemaInv, PageInv
<1>8. /\ apc \in {"wait", "next", "ac", "sta", "down", "ret", "unavail",
                  "asleep", "give_back", "exit"}
      /\ ret \in {"ok", "RTW_TX_BALANCE", "RTW_XBUF_UNAVAIL",
                  "RTW_TX_WAIT_MORE_FRAME"}
      /\ wpc \in {"wait", "select", "pages", "refresh", "oqt", "up", "exit"}
      /\ spc \in {"up", "stopping", "writer", "down", "aggregator", "unloaded"}
    BY DEF PathInv, ControlInv
<1>9. aidx \in 1 .. Len(Acs) + 1
    BY SdioXmitAssumption
    DEF SdioXmitAssumption, PathInv, ControlInv, FlowInv, FlowTypes
<1>10. SdioTxOQTFreeSpace \in 0 .. OqtMax
  <2>1. outstanding(fifo) \in Nat
    <3> DEFINE w == [q |-> "H", agg |-> 0, own |-> 0, pub |-> 0]
    <3>1. w \in Written
        BY DEF Written, PageQueues
    <3> QED BY <3>1, OutstandingAppend DEF PageInv
  <2> QED BY <2>1, SdioXmitAssumption DEF SdioXmitAssumption, PathInv, OqtInv
<1>11. /\ single \in BOOLEAN /\ bUpdatePageNum \in BOOLEAN
       /\ sdio_avail_int_en_q \in PageQueues \cup {"none"}
       /\ {tx_alive, asleep, waking, scanning, kick, avail} \subseteq BOOLEAN
    BY Zenon DEF PathInv, FlagInv
<1>12. sent \in [AcSet -> [Stations -> 0 .. MaxPkt]]
    BY DEF PathInv, SentInv
<1> QED BY <1>1, <1>2, <1>3, <1>4, <1>5, <1>6, <1>7, <1>8, <1>9, <1>10, <1>11,
           <1>12, Zenon
        DEF TypeOK

\* For any numbers of stations, frames and buffers, no count of the transmit path
\* leaves its range: no pool's count (rtw_alloc_xmitframe, rtw_free_xmitframe,
\* rtw_alloc_xmitbuf, rtw_free_xmitbuf) goes below zero or beyond its pool, and
\* the writer's room in the outstanding queue stays between zero and its size.
THEOREM TypeCorrect == Spec => []TypeOK
BY FlowAlways, SemaAlways, PageAlways, StoppedAlways, PathAlways, PathTypes, PTL

\* What the sums of the proof are in the specification.
LEMMA Sums ==
    /\ frames_held = inside(sta_pending, entry) + kept
    /\ \A tag : bufs_held(tag)
                 = tagged(pending_xmitbuf_queue, tag) + is(wbuf, tag)
                     + is(abuf, tag)
<1>1. frames_held = inside(sta_pending, entry) + kept
    BY DEF frames_held, inside, queued, waits, kept, accnt
<1>2. \A tag : bufs_held(tag)
                 = tagged(pending_xmitbuf_queue, tag) + is(wbuf, tag)
                     + is(abuf, tag)
    BY DEF bufs_held, tagged, is
<1> QED BY <1>1, <1>2

\* No buffer is ever lost or freed twice, whoever leaves; no frame is freed
\* twice; and no frame is lost before a station is freed.
PoolsKept ==
    /\ free_xmitbuf_cnt + bufs_held("data") = NrBuf
    /\ free_xmit_extbuf_cnt + bufs_held("mgnt") = NrExt
    /\ free_xmitframe_cnt + frames_held <= NrFrame
    /\ nfree = 0 => Conserved

\* The invariants say so.
LEMMA PathKeeps == ASSUME FlowInv, PathInv PROVE PoolsKept
<1>1. /\ free_xmitbuf_cnt + bufs_held("data") = NrBuf
      /\ free_xmit_extbuf_cnt + bufs_held("mgnt") = NrExt
  <2>1. BufInv /\ "data" \in Tags /\ "mgnt" \in Tags /\ "mgnt" # "data"
      BY DEF PathInv, Tags
  <2>2. /\ total("data") = NrBuf /\ pool("data") = free_xmitbuf_cnt
        /\ total("mgnt") = NrExt /\ pool("mgnt") = free_xmit_extbuf_cnt
      BY <2>1 DEF BufInv, size, pool
  <2>3. \A tag \in Tags : pool(tag) + bufs_held(tag) = total(tag)
    <3>1. SUFFICES ASSUME NEW tag \in Tags
                   PROVE  pool(tag) + bufs_held(tag) = total(tag)
        OBVIOUS
    <3> QED BY <2>1, TotalType, Sums DEF total
  <2> QED BY <2>1, <2>2, <2>3
<1>2. /\ free_xmitframe_cnt + frames_held <= NrFrame
      /\ nfree = 0 => free_xmitframe_cnt + frames_held = NrFrame
  <2>1. FrameInv
      BY DEF PathInv
  <2>2. free_xmitframe_cnt + frames_held = accounted
      BY <2>1, FrameType, Sums DEF accounted
  <2> QED BY <2>1, <2>2 DEF FrameInv
<1> QED BY <1>1, <1>2 DEF PoolsKept, Conserved

\* For any number of stations, frames and buffers and whatever the stack, the two
\* threads, the chip and the unloading do: rtw_alloc_xmitbuf and rtw_free_xmitbuf
\* lose and double no buffer, rtw_free_xmitframe frees no frame twice, and every
\* frame is accounted for until the first station is freed.
THEOREM PoolsAreKept == Spec => []PoolsKept
BY FlowAlways, PathAlways, PathKeeps, PTL

\* Where no station is freed, frames and buffers are conserved (the leak that
\* begins with a freed station is the finding of the leak run).
THEOREM FramesAndBuffersConserved ==
    ASSUME MaxFree = 0 PROVE Spec => []Conserved
<1>1. FlowInv /\ PathInv => Conserved
  <2> SUFFICES ASSUME FlowInv, PathInv PROVE Conserved
      OBVIOUS
  <2>1. nfree = 0
      BY DEF PathInv, FrameInv
  <2> QED BY <2>1, PathKeeps DEF PoolsKept
<1> QED BY <1>1, FlowAlways, PathAlways, PTL

-----------------------------------------------------------------------------
(* The order of packets                                                    *)

\* The k-th packet of the i-th buffer of a line belongs to a flow.
at(line, i, k, ac, s) ==
    /\ i \in DOMAIN line /\ k \in DOMAIN line[i].pkts
    /\ line[i].ac = ac /\ line[i].pkts[k][1] = s
num(line, i, k) == line[i].pkts[k][2]

\* The numbers of a flow in a line, and that they rise along it.
nums(line, ac, s) ==
    UNION {{num(line, i, k) : k \in {x \in DOMAIN line[i].pkts :
                                      at(line, i, x, ac, s)}} :
             i \in DOMAIN line}
sorted(line, ac, s) ==
    \A i, j, k, l :
       at(line, i, k, ac, s) /\ at(line, j, l, ac, s)
         /\ (i < j \/ (i = j /\ k < l))
       => num(line, i, k) < num(line, j, l)
rising(w) == \A i, j \in DOMAIN w : i < j => w[i] < w[j]

\* A flow is in order in line and behind it in w, between a, the last number
\* written, and n, the last given out; and nothing of it is missing.
Ordered(line, w, a, n, ac, s) ==
    /\ sorted(line, ac, s) /\ rising(w)
    /\ \A x \in nums(line, ac, s), y \in Range(w) : x < y
    /\ \A x \in nums(line, ac, s) \cup Range(w) : a < x /\ x <= n
    /\ a <= n
Whole(line, w, a, n, ac, s) == nums(line, ac, s) \cup Range(w) = a + 1 .. n

Lane(w, q, b) == <<w>> \o q \o <<b>>

\* A number of a flow is at a place.
LEMMA NumAt ==
    ASSUME NEW line, NEW ac, NEW s
    PROVE  \A x : x \in nums(line, ac, s)
                  <=> \E i, k : at(line, i, k, ac, s) /\ x = num(line, i, k)
BY DEF nums, at

\* The numbers of a flow are natural numbers.
LEMMA NumType ==
    ASSUME NEW line \in Seq(Bufs), NEW ac, NEW s
    PROVE  /\ \A i, k : at(line, i, k, ac, s) =>
                 num(line, i, k) \in Nat /\ i \in Nat /\ k \in Nat
           /\ \A x \in nums(line, ac, s) : x \in Nat
<1>1. ASSUME NEW i, NEW k, at(line, i, k, ac, s)
      PROVE  num(line, i, k) \in Nat /\ i \in Nat /\ k \in Nat
  <2>1. i \in DOMAIN line /\ k \in DOMAIN line[i].pkts
      BY <1>1 DEF at
  <2>2. line[i] \in Bufs
      BY <2>1
  <2>3. line[i].pkts \in Seq(Stations \X Nat)
      BY <2>2 DEF Bufs
  <2>4. line[i].pkts[k] \in Stations \X Nat
      BY <2>1, <2>3
  <2>5. line[i].pkts[k][2] \in Nat
      BY <2>4
  <2>6. i \in Nat /\ k \in Nat
      BY <2>1, <2>3
  <2> QED BY <2>5, <2>6 DEF num
<1> QED BY <1>1, NumAt

\* Buffers that keep their order keep the order of what they hold.
LEMMA Moved ==
    ASSUME NEW L \in Seq(Bufs), NEW K \in Seq(Bufs), NEW f,
           \A i \in DOMAIN K : K[i].pkts # <<>> =>
              f[i] \in DOMAIN L /\ K[i] = L[f[i]],
           \A i, j \in DOMAIN K : K[i].pkts # <<>> /\ K[j].pkts # <<>> /\ i < j =>
              f[i] < f[j],
           \A j \in DOMAIN L :
              L[j].pkts # <<>> => \E i \in DOMAIN K : K[i] = L[j],
           NEW ac, NEW s
    PROVE  /\ nums(K, ac, s) = nums(L, ac, s)
           /\ sorted(L, ac, s) => sorted(K, ac, s)
<1>1. ASSUME NEW i, NEW k, at(K, i, k, ac, s)
      PROVE  /\ i \in DOMAIN K /\ K[i].pkts # <<>>
             /\ at(L, f[i], k, ac, s) /\ num(K, i, k) = num(L, f[i], k)
  <2>1. i \in DOMAIN K /\ k \in DOMAIN K[i].pkts
      BY <1>1 DEF at
  <2>2. K[i].pkts # <<>>
      BY <2>1
  <2>3. f[i] \in DOMAIN L /\ K[i] = L[f[i]]
      BY <2>1, <2>2
  <2> QED BY <1>1, <2>1, <2>2, <2>3 DEF at, num
<1>2. ASSUME NEW j, NEW k, at(L, j, k, ac, s)
      PROVE  \E i : at(K, i, k, ac, s) /\ num(L, j, k) = num(K, i, k)
  <2>1. j \in DOMAIN L /\ k \in DOMAIN L[j].pkts
      BY <1>2 DEF at
  <2>2. L[j].pkts # <<>>
      BY <2>1
  <2>3. PICK i \in DOMAIN K : K[i] = L[j]
      BY <2>1, <2>2
  <2> QED BY <1>2, <2>3 DEF at, num
<1>3. nums(K, ac, s) = nums(L, ac, s)
  <2>1. ASSUME NEW x \in nums(K, ac, s) PROVE x \in nums(L, ac, s)
    <3>1. PICK i, k : at(K, i, k, ac, s) /\ x = num(K, i, k)
        BY <2>1, NumAt
    <3>2. at(L, f[i], k, ac, s) /\ x = num(L, f[i], k)
        BY <1>1, <3>1
    <3> QED BY <3>2, NumAt
  <2>2. ASSUME NEW x \in nums(L, ac, s) PROVE x \in nums(K, ac, s)
    <3>1. PICK i, k : at(L, i, k, ac, s) /\ x = num(L, i, k)
        BY <2>2, NumAt
    <3>2. \E j : at(K, j, k, ac, s) /\ x = num(K, j, k)
        BY <1>2, <3>1
    <3> QED BY <3>2, NumAt
  <2> QED BY <2>1, <2>2
<1>4. ASSUME sorted(L, ac, s) PROVE sorted(K, ac, s)
  <2>1. SUFFICES ASSUME NEW i, NEW j, NEW k, NEW l,
                        at(K, i, k, ac, s), at(K, j, l, ac, s),
                        i < j \/ (i = j /\ k < l)
                 PROVE  num(K, i, k) < num(K, j, l)
      BY DEF sorted
  <2>2. /\ at(L, f[i], k, ac, s) /\ num(K, i, k) = num(L, f[i], k)
        /\ at(L, f[j], l, ac, s) /\ num(K, j, l) = num(L, f[j], l)
        /\ i \in DOMAIN K /\ j \in DOMAIN K
        /\ K[i].pkts # <<>> /\ K[j].pkts # <<>>
      BY <1>1, <2>1
  <2>3. f[i] < f[j] \/ (f[i] = f[j] /\ k < l)
      BY <2>1, <2>2
  <2> QED BY <1>4, <2>2, <2>3 DEF sorted
<1> QED BY <1>3, <1>4

\* A lane, place by place.
IsLane(line, w, q, b) ==
    /\ line \in Seq(Bufs)
    /\ Len(q) \in Nat /\ DOMAIN line = 1 .. Len(q) + 2
    /\ line[1] = w
    /\ \A i \in 1 .. Len(q) : line[i + 1] = q[i]
    /\ line[Len(q) + 2] = b

\* The lane of a writer, a queue and an aggregator is one.
LEMMA LaneParts ==
    ASSUME NEW w \in Bufs, NEW q \in Seq(Bufs), NEW b \in Bufs
    PROVE  IsLane(Lane(w, q, b), w, q, b)
<1> DEFINE x == <<w>> \o q
<1>1. /\ x \in Seq(Bufs) /\ Len(x) = Len(q) + 1 /\ x[1] = w
      /\ \A i \in 1 .. Len(q) : x[i + 1] = q[i]
  <2>1. <<w>> \in Seq(Bufs) /\ Len(<<w>>) = 1 /\ <<w>>[1] = w
      OBVIOUS
  <2> QED BY <2>1
<1>2. Len(q) \in Nat
    OBVIOUS
<1> DEFINE y == Append(x, b)
<1> HIDE DEF x
<1>3. /\ y \in Seq(Bufs) /\ Len(y) = Len(q) + 2
      /\ \A i \in 1 .. Len(q) + 1 : y[i] = x[i]
      /\ y[Len(q) + 2] = b
    BY <1>1, <1>2
<1>4. x \o <<b>> = y
    BY <1>1
<1>5. Lane(w, q, b) = y
    BY <1>4 DEF Lane, x
<1> HIDE DEF y
<1>6. DOMAIN y = 1 .. Len(q) + 2
    BY <1>2, <1>3
<1>7. y[1] = w
    BY <1>1, <1>2, <1>3
<1>8. \A i \in 1 .. Len(q) : y[i + 1] = q[i]
    BY <1>1, <1>2, <1>3
<1> QED BY <1>2, <1>3, <1>5, <1>6, <1>7, <1>8 DEF IsLane

\* What two lanes have in common: the same packets of every flow, and the order.
Alike(L, K) ==
    \A ac, s : /\ nums(K, ac, s) = nums(L, ac, s)
               /\ sorted(L, ac, s) => sorted(K, ac, s)

\* A management frame queues up behind the data.
LEMMA LaneMgnt ==
    ASSUME NEW w \in Bufs, NEW q \in Seq(Bufs), NEW b \in Bufs, NEW m \in Bufs,
           m.pkts = <<>>
    PROVE  Alike(Lane(w, q, b), Lane(w, Append(q, m), b))
<1> DEFINE L == Lane(w, q, b)
           r == Append(q, m)
           K == Lane(w, r, b)
           n == Len(q)
           f == [i \in 1 .. n + 3 |-> IF i <= n + 1 THEN i ELSE n + 2]
<1>1. /\ r \in Seq(Bufs) /\ Len(r) = n + 1 /\ r[n + 1] = m
      /\ \A i \in 1 .. n : r[i] = q[i]
    OBVIOUS
<1>2. /\ L \in Seq(Bufs) /\ n \in Nat /\ DOMAIN L = 1 .. n + 2 /\ L[1] = w
      /\ \A i \in 1 .. n : L[i + 1] = q[i]
      /\ L[n + 2] = b
    BY LaneParts DEF IsLane
<1> HIDE DEF r, n
<1>3. /\ K \in Seq(Bufs) /\ DOMAIN K = 1 .. n + 3 /\ K[1] = w
      /\ \A i \in 1 .. n + 1 : K[i + 1] = r[i]
      /\ K[n + 3] = b
  <2>0. r \in Seq(Bufs)
      BY <1>1
  <2>1. /\ K \in Seq(Bufs) /\ DOMAIN K = 1 .. Len(r) + 2 /\ K[1] = w
        /\ \A i \in 1 .. Len(r) : K[i + 1] = r[i]
        /\ K[Len(r) + 2] = b
      BY <2>0, LaneParts DEF IsLane
  <2>2. Len(r) + 2 = n + 3 /\ Len(r) = n + 1
      BY <1>1, <1>2
  <2> HIDE DEF K
  <2> QED BY <2>1, <2>2, Zenon
<1> HIDE DEF K, L
<1>4. \A i \in 1 .. n + 1 : K[i] = L[i]
  <2>1. \A i \in 1 .. n : K[i + 1] = L[i + 1]
      BY <1>1, <1>2, <1>3
  <2>2. \A i \in 1 .. n + 1 : i = 1 \/ (i - 1 \in 1 .. n /\ (i - 1) + 1 = i)
      BY <1>2
  <2> QED BY <1>2, <1>3, <2>1, <2>2
<1>5. K[n + 2] = m /\ K[n + 3] = L[n + 2]
  <2>1. n + 1 \in 1 .. n + 1 /\ (n + 1) + 1 = n + 2
      BY <1>2
  <2> QED BY <1>1, <1>2, <1>3, <2>1
<1>6. \A i \in DOMAIN K : K[i].pkts # <<>> => f[i] \in DOMAIN L /\ K[i] = L[f[i]]
    BY <1>2, <1>3, <1>4, <1>5
<1>7. \A i, j \in DOMAIN K : K[i].pkts # <<>> /\ K[j].pkts # <<>> /\ i < j =>
         f[i] < f[j]
    BY <1>2, <1>3, <1>5
<1>8. \A j \in DOMAIN L : L[j].pkts # <<>> => \E i \in DOMAIN K : K[i] = L[j]
    BY <1>2, <1>3, <1>4, <1>5
<1> HIDE DEF f
<1>9. Alike(L, K)
    BY <1>2, <1>3, <1>6, <1>7, <1>8, Moved DEF Alike
<1> QED BY <1>9 DEF L, K, r

\* The aggregator's buffer changes hands; its own hand is empty.
LEMMA LaneHandOver ==
    ASSUME NEW w \in Bufs, NEW q \in Seq(Bufs), NEW b \in Bufs, NEW e \in Bufs,
           e.pkts = <<>>
    PROVE  Alike(Lane(w, q, b), Lane(w, Append(q, b), e))
<1> DEFINE L == Lane(w, q, b)
           r == Append(q, b)
           K == Lane(w, r, e)
           n == Len(q)
           f == [i \in 1 .. n + 3 |-> i]
<1>1. /\ r \in Seq(Bufs) /\ Len(r) = n + 1 /\ r[n + 1] = b
      /\ \A i \in 1 .. n : r[i] = q[i]
    OBVIOUS
<1>2. /\ L \in Seq(Bufs) /\ n \in Nat /\ DOMAIN L = 1 .. n + 2 /\ L[1] = w
      /\ \A i \in 1 .. n : L[i + 1] = q[i]
      /\ L[n + 2] = b
    BY LaneParts DEF IsLane
<1> HIDE DEF r, n
<1>3. /\ K \in Seq(Bufs) /\ DOMAIN K = 1 .. n + 3 /\ K[1] = w
      /\ \A i \in 1 .. n + 1 : K[i + 1] = r[i]
      /\ K[n + 3] = e
  <2>0. r \in Seq(Bufs)
      BY <1>1
  <2>1. /\ K \in Seq(Bufs) /\ DOMAIN K = 1 .. Len(r) + 2 /\ K[1] = w
        /\ \A i \in 1 .. Len(r) : K[i + 1] = r[i]
        /\ K[Len(r) + 2] = e
      BY <2>0, LaneParts DEF IsLane
  <2>2. Len(r) + 2 = n + 3 /\ Len(r) = n + 1
      BY <1>1, <1>2
  <2> HIDE DEF K
  <2> QED BY <2>1, <2>2, Zenon
<1> HIDE DEF K, L
<1>4. \A i \in 1 .. n + 1 : K[i] = L[i]
  <2>1. \A i \in 1 .. n : K[i + 1] = L[i + 1]
      BY <1>1, <1>2, <1>3
  <2>2. \A i \in 1 .. n + 1 : i = 1 \/ (i - 1 \in 1 .. n /\ (i - 1) + 1 = i)
      BY <1>2
  <2> QED BY <1>2, <1>3, <2>1, <2>2
<1>5. K[n + 2] = L[n + 2]
  <2>1. n + 1 \in 1 .. n + 1 /\ (n + 1) + 1 = n + 2
      BY <1>2
  <2> QED BY <1>1, <1>2, <1>3, <2>1
<1>6. \A i \in DOMAIN K : K[i].pkts # <<>> => f[i] \in DOMAIN L /\ K[i] = L[f[i]]
    BY <1>2, <1>3, <1>4, <1>5
<1>7. \A i, j \in DOMAIN K : K[i].pkts # <<>> /\ K[j].pkts # <<>> /\ i < j =>
         f[i] < f[j]
    BY <1>2, <1>3
<1>8. \A j \in DOMAIN L : L[j].pkts # <<>> => \E i \in DOMAIN K : K[i] = L[j]
    BY <1>2, <1>3, <1>4, <1>5
<1> HIDE DEF f
<1>9. Alike(L, K)
    BY <1>2, <1>3, <1>6, <1>7, <1>8, Moved DEF Alike
<1> QED BY <1>9 DEF L, K, r

\* An empty buffer is taken or given back.
LEMMA LaneEmpty ==
    ASSUME NEW w \in Bufs, NEW q \in Seq(Bufs), NEW b \in Bufs, NEW e \in Bufs,
           b.pkts = <<>>, e.pkts = <<>>
    PROVE  Alike(Lane(w, q, b), Lane(w, q, e))
<1> DEFINE L == Lane(w, q, b)
           K == Lane(w, q, e)
           n == Len(q)
           f == [i \in 1 .. n + 2 |-> i]
<1>1. /\ L \in Seq(Bufs) /\ n \in Nat /\ DOMAIN L = 1 .. n + 2 /\ L[1] = w
      /\ \A i \in 1 .. n : L[i + 1] = q[i]
      /\ L[n + 2] = b
    BY LaneParts DEF IsLane
<1>2. /\ K \in Seq(Bufs) /\ DOMAIN K = 1 .. n + 2 /\ K[1] = w
      /\ \A i \in 1 .. n : K[i + 1] = q[i]
      /\ K[n + 2] = e
    BY LaneParts DEF IsLane
<1> HIDE DEF K, L, n
<1>3. \A i \in 1 .. n + 1 : K[i] = L[i]
  <2>1. \A i \in 1 .. n : K[i + 1] = L[i + 1]
      BY <1>1, <1>2
  <2>2. \A i \in 1 .. n + 1 : i = 1 \/ (i - 1 \in 1 .. n /\ (i - 1) + 1 = i)
      BY <1>1
  <2> QED BY <1>1, <1>2, <2>1, <2>2
<1>4. \A i \in DOMAIN K : K[i].pkts # <<>> => f[i] \in DOMAIN L /\ K[i] = L[f[i]]
    BY <1>1, <1>2, <1>3
<1>5. \A i, j \in DOMAIN K : K[i].pkts # <<>> /\ K[j].pkts # <<>> /\ i < j =>
         f[i] < f[j]
    BY <1>1, <1>2
<1>6. \A j \in DOMAIN L : L[j].pkts # <<>> => \E i \in DOMAIN K : K[i] = L[j]
    BY <1>1, <1>2, <1>3
<1> HIDE DEF f
<1>7. Alike(L, K)
    BY <1>1, <1>2, <1>4, <1>5, <1>6, Moved DEF Alike
<1> QED BY <1>7 DEF L, K

\* The writer takes the first buffer, or an empty one from further back.
LEMMA LaneSelect ==
    ASSUME NEW w \in Bufs, NEW q \in Seq(Bufs), NEW b \in Bufs,
           w.pkts = <<>>, NEW t \in 1 .. Len(q), t = 1 \/ q[t].pkts = <<>>
    PROVE  Alike(Lane(w, q, b), Lane(q[t], RemoveAt(q, t), b))
<1> DEFINE L == Lane(w, q, b)
           r == RemoveAt(q, t)
           h == q[t]
           K == Lane(h, r, b)
           n == Len(q)
           f == [i \in 1 .. n + 1 |-> IF i = 1 THEN t + 1
                                      ELSE IF i <= t THEN i ELSE i + 1]
<1>1. /\ r \in Seq(Bufs) /\ Len(r) = n - 1 /\ h \in Bufs
      /\ \A i \in 1 .. n - 1 : r[i] = IF i < t THEN q[i] ELSE q[i + 1]
  <2>1. /\ RemoveAt(q, t) \in Seq(Bufs) /\ Len(RemoveAt(q, t)) = Len(q) - 1
        /\ \A i \in 1 .. Len(q) - 1 :
              RemoveAt(q, t)[i] = IF i < t THEN q[i] ELSE q[i + 1]
      BY RemoveAtPlaces, Zenon
  <2>2. q[t] \in Bufs
      OBVIOUS
  <2> QED BY <2>1, <2>2, Zenon
<1>2. /\ L \in Seq(Bufs) /\ n \in Nat /\ DOMAIN L = 1 .. n + 2 /\ L[1] = w
      /\ \A i \in 1 .. n : L[i + 1] = q[i]
      /\ L[n + 2] = b
    BY LaneParts DEF IsLane
<1>3. t \in Nat /\ 1 <= t /\ t <= n /\ n - 1 \in Nat /\ n \in Nat
    BY <1>2
<1> HIDE DEF r, n
<1>4. h = q[t] /\ (t = 1 \/ h.pkts = <<>>)
    OBVIOUS
<1> HIDE DEF h
<1>5. /\ K \in Seq(Bufs) /\ DOMAIN K = 1 .. n + 1 /\ K[1] = h
      /\ \A i \in 1 .. n - 1 : K[i + 1] = r[i]
      /\ K[n + 1] = b
  <2>0. r \in Seq(Bufs) /\ h \in Bufs
      BY <1>1
  <2>1. /\ K \in Seq(Bufs) /\ DOMAIN K = 1 .. Len(r) + 2 /\ K[1] = h
        /\ \A i \in 1 .. Len(r) : K[i + 1] = r[i]
        /\ K[Len(r) + 2] = b
      BY <2>0, LaneParts DEF IsLane
  <2>2. Len(r) + 2 = n + 1 /\ Len(r) = n - 1
      BY <1>1, <1>2
  <2> HIDE DEF K
  <2> QED BY <2>1, <2>2
<1> HIDE DEF K, L
<1>6. /\ K[1] = L[t + 1]
      /\ \A i \in 2 .. t : K[i] = L[i]
      /\ \A i \in t + 1 .. n + 1 : i > 1 => K[i] = L[i + 1]
  <2>1. K[1] = L[t + 1]
      BY <1>2, <1>3, <1>4, <1>5
  <2>2. ASSUME NEW i \in 2 .. t PROVE K[i] = L[i]
    <3>1. i - 1 \in 1 .. n - 1 /\ i - 1 \in 1 .. n /\ i - 1 < t /\ (i - 1) + 1 = i
        BY <1>3
    <3> QED BY <1>1, <1>2, <1>5, <3>1
  <2>3. ASSUME NEW i \in t + 1 .. n + 1 PROVE K[i] = L[i + 1]
    <3>1. CASE i = n + 1
        BY <1>2, <1>5, <3>1
    <3>2. CASE i # n + 1
      <4>1. /\ i - 1 \in 1 .. n - 1 /\ ~(i - 1 < t) /\ (i - 1) + 1 = i
            /\ i \in 1 .. n
          BY <1>3, <3>2
      <4> QED BY <1>1, <1>2, <1>5, <4>1
    <3> QED BY <3>1, <3>2
  <2> QED BY <2>1, <2>2, <2>3
<1>7. \A i \in DOMAIN K : f[i] \in DOMAIN L /\ K[i] = L[f[i]]
  <2>1. SUFFICES ASSUME NEW i \in 1 .. n + 1
                 PROVE  f[i] \in 1 .. n + 2 /\ K[i] = L[f[i]]
      BY <1>2, <1>5
  <2>2. CASE i = 1
      BY <1>3, <1>6, <2>2
  <2>3. CASE i # 1 /\ i <= t
      BY <1>3, <1>6, <2>3
  <2>4. CASE i # 1 /\ ~(i <= t)
      BY <1>3, <1>6, <2>4
  <2> QED BY <2>2, <2>3, <2>4
<1>8. \A i, j \in DOMAIN K : K[i].pkts # <<>> /\ K[j].pkts # <<>> /\ i < j =>
         f[i] < f[j]
  <2>1. SUFFICES ASSUME NEW i \in 1 .. n + 1, NEW j \in 1 .. n + 1, i < j,
                        K[i].pkts # <<>>
                 PROVE  f[i] < f[j]
      BY <1>5
  <2>2. i = 1 => t = 1
      BY <1>4, <1>5, <2>1
  <2> QED BY <1>3, <2>1, <2>2
<1>9. \A j \in DOMAIN L : L[j].pkts # <<>> => \E i \in DOMAIN K : K[i] = L[j]
  <2>1. SUFFICES ASSUME NEW j \in 1 .. n + 2, L[j].pkts # <<>>
                 PROVE  \E i \in 1 .. n + 1 : K[i] = L[j]
      BY <1>2, <1>5
  <2>2. j # 1
      BY <1>2, <2>1
  <2>3. CASE j = t + 1
      BY <1>3, <1>6, <2>3
  <2>4. CASE j <= t
    <3>1. j \in 2 .. t /\ j \in 1 .. n + 1
        BY <1>3, <2>2, <2>4
    <3> QED BY <1>6, <3>1
  <2>5. CASE j > t + 1
    <3>1. j - 1 \in t + 1 .. n + 1 /\ j - 1 > 1 /\ (j - 1) + 1 = j
          /\ j - 1 \in 1 .. n + 1
        BY <1>3, <2>5
    <3> QED BY <1>6, <3>1
  <2> QED BY <1>3, <2>3, <2>4, <2>5
<1> HIDE DEF f
<1>10. \A i \in DOMAIN K : K[i].pkts # <<>> =>
          f[i] \in DOMAIN L /\ K[i] = L[f[i]]
    BY <1>7
<1>11. Alike(L, K)
    BY <1>2, <1>5, <1>8, <1>9, <1>10, Moved DEF Alike
<1> QED BY <1>11 DEF L, K, r, h

\* The writer puts its buffer back in front.
LEMMA LanePutBack ==
    ASSUME NEW w \in Bufs, NEW q \in Seq(Bufs), NEW b \in Bufs, NEW e \in Bufs,
           e.pkts = <<>>
    PROVE  Alike(Lane(w, q, b), Lane(e, <<w>> \o q, b))
<1> DEFINE L == Lane(w, q, b)
           r == <<w>> \o q
           K == Lane(e, r, b)
           n == Len(q)
           f == [i \in 1 .. n + 3 |-> i - 1]
<1>1. /\ r \in Seq(Bufs) /\ Len(r) = n + 1 /\ r[1] = w
      /\ \A i \in 1 .. n : r[i + 1] = q[i]
  <2>1. <<w>> \in Seq(Bufs) /\ Len(<<w>>) = 1 /\ <<w>>[1] = w
      OBVIOUS
  <2> QED BY <2>1
<1>2. /\ L \in Seq(Bufs) /\ n \in Nat /\ DOMAIN L = 1 .. n + 2 /\ L[1] = w
      /\ \A i \in 1 .. n : L[i + 1] = q[i]
      /\ L[n + 2] = b
    BY LaneParts DEF IsLane
<1> HIDE DEF r, n
<1>3. /\ K \in Seq(Bufs) /\ DOMAIN K = 1 .. n + 3 /\ K[1] = e
      /\ \A i \in 1 .. n + 1 : K[i + 1] = r[i]
      /\ K[n + 3] = b
  <2>0. r \in Seq(Bufs)
      BY <1>1
  <2>1. /\ K \in Seq(Bufs) /\ DOMAIN K = 1 .. Len(r) + 2 /\ K[1] = e
        /\ \A i \in 1 .. Len(r) : K[i + 1] = r[i]
        /\ K[Len(r) + 2] = b
      BY <2>0, LaneParts DEF IsLane
  <2>2. Len(r) + 2 = n + 3 /\ Len(r) = n + 1
      BY <1>1, <1>2
  <2> HIDE DEF K
  <2> QED BY <2>1, <2>2, Zenon
<1> HIDE DEF K, L
<1>4. \A i \in 1 .. n + 2 : K[i + 1] = L[i]
  <2>1. SUFFICES ASSUME NEW i \in 1 .. n + 2 PROVE K[i + 1] = L[i]
      OBVIOUS
  <2>2. CASE i = 1
      BY <1>1, <1>2, <1>3, <2>2
  <2>3. CASE i = n + 2
      BY <1>2, <1>3, <2>3
  <2>4. CASE i # 1 /\ i # n + 2
    <3>1. i \in 1 .. n + 1 /\ i - 1 \in 1 .. n /\ (i - 1) + 1 = i
        BY <1>2, <2>4
    <3> QED BY <1>1, <1>2, <1>3, <3>1
  <2> QED BY <2>2, <2>3, <2>4
<1>5. \A i \in DOMAIN K : K[i].pkts # <<>> => f[i] \in DOMAIN L /\ K[i] = L[f[i]]
  <2>1. SUFFICES ASSUME NEW i \in 1 .. n + 3, K[i].pkts # <<>>
                 PROVE  i - 1 \in 1 .. n + 2 /\ K[i] = L[i - 1]
      BY <1>2, <1>3
  <2>2. i # 1
      BY <1>3, <2>1
  <2>3. i - 1 \in 1 .. n + 2 /\ (i - 1) + 1 = i
      BY <1>2, <2>2
  <2> QED BY <1>4, <2>3
<1>6. \A i, j \in DOMAIN K : K[i].pkts # <<>> /\ K[j].pkts # <<>> /\ i < j =>
         f[i] < f[j]
    BY <1>2, <1>3
<1>7. \A j \in DOMAIN L : L[j].pkts # <<>> => \E i \in DOMAIN K : K[i] = L[j]
  <2>1. \A j \in DOMAIN L : j + 1 \in DOMAIN K /\ K[j + 1] = L[j]
      BY <1>2, <1>3, <1>4
  <2> QED BY <2>1
<1> HIDE DEF f
<1>8. Alike(L, K)
    BY <1>2, <1>3, <1>5, <1>6, <1>7, Moved DEF Alike
<1> QED BY <1>8 DEF L, K, r

-----------------------------------------------------------------------------
(* What a step does to a flow                                              *)

\* A packet's number is one of the flow's.
LEMMA Listed ==
    ASSUME NEW w \in Seq(Nat)
    PROVE  /\ Range(w) \subseteq Nat
           /\ \A i \in DOMAIN w : w[i] \in Range(w)
           /\ \A y \in Range(w) : \E i \in DOMAIN w : y = w[i]
BY DEF Range

\* Lanes that are alike are in order alike.
LEMMA AlikeOrdered ==
    ASSUME NEW L, NEW K, Alike(L, K), NEW w, NEW a, NEW n, NEW ac, NEW s
    PROVE  /\ Ordered(L, w, a, n, ac, s) => Ordered(K, w, a, n, ac, s)
           /\ Whole(L, w, a, n, ac, s) => Whole(K, w, a, n, ac, s)
<1>1. nums(K, ac, s) = nums(L, ac, s) /\ (sorted(L, ac, s) => sorted(K, ac, s))
    BY DEF Alike
<1> QED BY <1>1 DEF Ordered, Whole

\* The stack hands over the next packet.
LEMMA FlowQueued ==
    ASSUME NEW L \in Seq(Bufs), NEW w \in Seq(Nat), NEW a \in Nat, NEW n \in Nat,
           NEW ac, NEW s, Ordered(L, w, a, n, ac, s)
    PROVE  /\ Ordered(L, Append(w, n + 1), a, n + 1, ac, s)
           /\ Whole(L, w, a, n, ac, s) =>
                 Whole(L, Append(w, n + 1), a, n + 1, ac, s)
<1> DEFINE v == Append(w, n + 1)
<1>1. /\ v \in Seq(Nat) /\ Len(v) = Len(w) + 1 /\ Len(w) \in Nat
      /\ DOMAIN v = 1 .. Len(w) + 1 /\ DOMAIN w = 1 .. Len(w)
      /\ \A i \in 1 .. Len(w) : v[i] = w[i]
      /\ v[Len(w) + 1] = n + 1
    OBVIOUS
<1> HIDE DEF v
<1>2. Range(v) = Range(w) \cup {n + 1}
  <2>1. ASSUME NEW y \in Range(v) PROVE y \in Range(w) \cup {n + 1}
    <3>1. PICK i \in DOMAIN v : y = v[i]
        BY <1>1, Listed
    <3>2. i \in 1 .. Len(w) \/ i = Len(w) + 1
        BY <1>1
    <3> QED BY <1>1, <3>1, <3>2, Listed
  <2>2. ASSUME NEW y \in Range(w) PROVE y \in Range(v)
    <3>1. PICK i \in DOMAIN w : y = w[i]
        BY Listed
    <3>2. i \in DOMAIN v /\ y = v[i]
        BY <1>1, <3>1
    <3> QED BY <1>1, <3>2, Listed
  <2>3. n + 1 \in Range(v)
    <3>1. Len(w) + 1 \in DOMAIN v
        BY <1>1
    <3> QED BY <1>1, <3>1, Listed
  <2> QED BY <2>1, <2>2, <2>3
<1>3. /\ Range(w) \subseteq Nat /\ nums(L, ac, s) \subseteq Nat
      /\ \A x \in nums(L, ac, s) \cup Range(w) : a < x /\ x <= n
      /\ sorted(L, ac, s) /\ rising(w) /\ a <= n
      /\ \A x \in nums(L, ac, s), y \in Range(w) : x < y
    BY Listed, NumType DEF Ordered
<1>4. rising(v)
  <2>1. SUFFICES ASSUME NEW i \in DOMAIN v, NEW j \in DOMAIN v, i < j
                 PROVE  v[i] < v[j]
      BY DEF rising
  <2>2. i \in DOMAIN w /\ v[i] = w[i] /\ w[i] \in Range(w) /\ w[i] \in Nat
      BY <1>1, <2>1, Listed
  <2>3. CASE j = Len(w) + 1
    <3>1. w[i] <= n /\ v[j] = n + 1
        BY <1>1, <1>3, <2>2, <2>3
    <3> QED BY <2>2, <3>1
  <2>4. CASE j # Len(w) + 1
    <3>1. j \in DOMAIN w /\ v[j] = w[j]
        BY <1>1, <2>4
    <3> QED BY <1>3, <2>1, <2>2, <3>1 DEF rising
  <2> QED BY <2>3, <2>4
<1>5. \A x \in nums(L, ac, s), y \in Range(v) : x < y
    BY <1>2, <1>3
<1>6. \A x \in nums(L, ac, s) \cup Range(v) : a < x /\ x <= n + 1
    BY <1>2, <1>3
<1>7. Ordered(L, v, a, n + 1, ac, s)
    BY <1>3, <1>4, <1>5, <1>6 DEF Ordered
<1>8. ASSUME Whole(L, w, a, n, ac, s) PROVE Whole(L, v, a, n + 1, ac, s)
  <2>1. nums(L, ac, s) \cup Range(v) = (a + 1 .. n) \cup {n + 1}
      BY <1>2, <1>8 DEF Whole
  <2>2. (a + 1 .. n) \cup {n + 1} = a + 1 .. n + 1
      BY <1>3
  <2> QED BY <2>1, <2>2 DEF Whole
<1> QED BY <1>7, <1>8 DEF v

\* The rest of a list that loses its first number.
LEMMA TailListed ==
    ASSUME NEW w \in Seq(Nat), w # <<>>
    PROVE  /\ Tail(w) \in Seq(Nat) /\ Head(w) \in Range(w)
           /\ Range(w) = {Head(w)} \cup Range(Tail(w))
           /\ rising(w) => /\ rising(Tail(w))
                           /\ \A y \in Range(Tail(w)) : Head(w) < y
<1> DEFINE v == Tail(w)
           h == Head(w)
<1>1. /\ v \in Seq(Nat) /\ Len(w) \in Nat \ {0} /\ h = w[1]
      /\ DOMAIN v = 1 .. Len(w) - 1 /\ DOMAIN w = 1 .. Len(w)
      /\ \A i \in 1 .. Len(w) - 1 : v[i] = w[i + 1]
    OBVIOUS
<1> HIDE DEF v, h
<1>2. h \in Range(w)
    BY <1>1, Listed
<1>3. ASSUME NEW y \in Range(v)
      PROVE  \E i \in DOMAIN w : i > 1 /\ y = w[i]
  <2>1. PICK i \in DOMAIN v : y = v[i]
      BY <1>1, Listed
  <2>2. i + 1 \in DOMAIN w /\ i + 1 > 1 /\ y = w[i + 1]
      BY <1>1, <2>1
  <2> QED BY <2>2
<1>4. ASSUME NEW y \in Range(w) PROVE y = h \/ y \in Range(v)
  <2>1. PICK i \in DOMAIN w : y = w[i]
      BY Listed
  <2>2. CASE i = 1
      BY <1>1, <2>1, <2>2
  <2>3. CASE i # 1
    <3>1. i - 1 \in DOMAIN v /\ (i - 1) + 1 = i
        BY <1>1, <2>3
    <3>2. v[i - 1] = y
        BY <1>1, <2>1, <3>1
    <3> QED BY <1>1, <3>1, <3>2, Listed
  <2> QED BY <2>2, <2>3
<1>5. Range(w) = {h} \cup Range(v)
  <2>1. \A y \in Range(v) : y \in Range(w)
      BY <1>3, Listed
  <2> QED BY <1>2, <1>4, <2>1
<1>6. ASSUME rising(w)
      PROVE  rising(v) /\ \A y \in Range(v) : h < y
  <2>1. ASSUME NEW i \in DOMAIN v, NEW j \in DOMAIN v, i < j PROVE v[i] < v[j]
    <3>0. /\ i \in 1 .. Len(w) - 1 /\ j \in 1 .. Len(w) - 1
          /\ v[i] = w[i + 1] /\ v[j] = w[j + 1]
        BY <1>1
    <3>1. i + 1 \in DOMAIN w /\ j + 1 \in DOMAIN w /\ i + 1 < j + 1
      <4>1. Len(w) \in Nat /\ DOMAIN w = 1 .. Len(w)
          BY <1>1
      <4> QED BY <2>1, <3>0, <4>1
    <3> QED BY <1>6, <3>0, <3>1 DEF rising
  <2>2. ASSUME NEW y \in Range(v) PROVE h < y
    <3>1. PICK i \in DOMAIN w : i > 1 /\ y = w[i]
        BY <1>3
    <3>2. 1 \in DOMAIN w /\ 1 < i
        BY <1>1, <3>1
    <3> QED BY <1>1, <1>6, <3>1, <3>2 DEF rising
  <2> QED BY <2>1, <2>2 DEF rising
<1> QED BY <1>1, <1>2, <1>5, <1>6 DEF v, h

\* A list that loses its head, or everything, keeps the order.
LEMMA FlowShorter ==
    ASSUME NEW L, NEW w \in Seq(Nat), NEW a, NEW n, NEW ac, NEW s,
           Ordered(L, w, a, n, ac, s)
    PROVE  /\ w # <<>> => Ordered(L, Tail(w), a, n, ac, s)
           /\ Ordered(L, <<>>, a, n, ac, s)
<1>1. Range(<<>>) = {} /\ rising(<<>>)
    BY DEF Range, rising
<1>2. Ordered(L, <<>>, a, n, ac, s)
    BY <1>1 DEF Ordered
<1>3. ASSUME w # <<>> PROVE Ordered(L, Tail(w), a, n, ac, s)
  <2>1. Range(Tail(w)) \subseteq Range(w) /\ rising(Tail(w))
      BY <1>3, TailListed DEF Ordered
  <2> QED BY <2>1 DEF Ordered
<1> QED BY <1>2, <1>3

\* The aggregator copies a packet behind everything else.
CopiedLast(L, K, h, ac, s) ==
    /\ \A x, y : x # ac \/ y # s =>
          nums(K, x, y) = nums(L, x, y) /\ (sorted(L, x, y) => sorted(K, x, y))
    /\ nums(K, ac, s) = nums(L, ac, s) \cup {h}
    /\ sorted(L, ac, s) /\ (\A x \in nums(L, ac, s) : x < h) =>
          sorted(K, ac, s)

\* agg_coalesce adds a packet to the last buffer of the lane.
LEMMA LaneCopy ==
    ASSUME NEW v \in Bufs, NEW q \in Seq(Bufs), NEW b \in Bufs, NEW c \in Bufs,
           NEW ac, NEW s, NEW h \in Nat,
           b.ac = ac, c.ac = ac, c.pkts = Append(b.pkts, <<s, h>>)
    PROVE  CopiedLast(Lane(v, q, b), Lane(v, q, c), h, ac, s)
<1> DEFINE L == Lane(v, q, b)
           K == Lane(v, q, c)
           n == Len(q)
           m == Len(b.pkts)
<1>0. IsLane(L, v, q, b) /\ IsLane(K, v, q, c)
  <2> HIDE DEF n, m
  <2> QED BY LaneParts
<1> HIDE DEF K, L
<1>1. /\ L \in Seq(Bufs) /\ n \in Nat /\ DOMAIN L = 1 .. n + 2 /\ L[1] = v
      /\ \A i \in 1 .. n : L[i + 1] = q[i]
      /\ L[n + 2] = b
    BY <1>0 DEF IsLane
<1>2. /\ K \in Seq(Bufs) /\ DOMAIN K = 1 .. n + 2 /\ K[1] = v
      /\ \A i \in 1 .. n : K[i + 1] = q[i]
      /\ K[n + 2] = c
    BY <1>0 DEF IsLane
<1>3. /\ m \in Nat /\ DOMAIN b.pkts = 1 .. m /\ DOMAIN c.pkts = 1 .. m + 1
      /\ \A k \in 1 .. m : c.pkts[k] = b.pkts[k]
      /\ c.pkts[m + 1] = <<s, h>>
  <2>1. b.pkts \in Seq(Stations \X Nat)
      BY DEF Bufs
  <2> DEFINE l == b.pkts
             e == <<s, h>>
  <2>2. l \in Seq(Stations \X Nat)
      BY <2>1
  <2> HIDE DEF l, e
  <2>3. /\ Len(l) \in Nat /\ DOMAIN l = 1 .. Len(l)
        /\ DOMAIN Append(l, e) = 1 .. Len(l) + 1
        /\ \A k \in 1 .. Len(l) : Append(l, e)[k] = l[k]
        /\ Append(l, e)[Len(l) + 1] = e
      BY <2>2
  <2> QED BY <2>3 DEF l, e
<1> HIDE DEF n, m
<1>4. \A i \in 1 .. n + 1 : K[i] = L[i]
  <2>1. \A i \in 1 .. n : K[i + 1] = L[i + 1]
      BY <1>1, <1>2
  <2>2. \A i \in 1 .. n + 1 : i = 1 \/ (i - 1 \in 1 .. n /\ (i - 1) + 1 = i)
      BY <1>1
  <2> QED BY <1>1, <1>2, <2>1, <2>2
<1>5. ASSUME NEW i, NEW k, NEW x, NEW y, at(L, i, k, x, y)
      PROVE  /\ at(K, i, k, x, y) /\ num(K, i, k) = num(L, i, k)
             /\ i \in 1 .. n + 2 /\ (i = n + 2 => k \in 1 .. m)
             /\ k \in Nat
  <2>1. i \in 1 .. n + 2 /\ k \in DOMAIN L[i].pkts /\ k \in Nat
      BY <1>1, <1>5, NumType DEF at
  <2>2. CASE i = n + 2
    <3>1. L[i] = b /\ K[i] = c
        BY <1>1, <1>2, <2>2
    <3>2. k \in 1 .. m /\ k \in 1 .. m + 1
        BY <1>3, <2>1, <3>1
    <3>3. c.pkts[k] = b.pkts[k] /\ k \in DOMAIN c.pkts
        BY <1>3, <3>2
    <3> QED BY <1>2, <1>5, <2>1, <3>1, <3>2, <3>3 DEF at, num
  <2>3. CASE i # n + 2
    <3>0. i \in 1 .. n + 1
        BY <1>1, <2>1, <2>3
    <3>1. K[i] = L[i]
        BY <1>4, <3>0
    <3> QED BY <1>1, <1>2, <1>5, <2>1, <2>3, <3>1 DEF at, num
  <2> QED BY <2>2, <2>3
<1>6. ASSUME NEW i, NEW k, NEW x, NEW y, at(K, i, k, x, y)
      PROVE  /\ i \in 1 .. n + 2 /\ k \in Nat /\ (i = n + 2 => k \in 1 .. m + 1)
             /\ \/ at(L, i, k, x, y) /\ num(K, i, k) = num(L, i, k)
                \/ /\ i = n + 2 /\ k = m + 1 /\ x = ac /\ y = s
                   /\ num(K, i, k) = h
  <2>1. i \in 1 .. n + 2 /\ k \in DOMAIN K[i].pkts /\ k \in Nat
      BY <1>2, <1>6, NumType DEF at
  <2>2. CASE i = n + 2
    <3>1. k \in 1 .. m + 1
        BY <1>2, <1>3, <2>1, <2>2
    <3>2. CASE k = m + 1
      <4>1. K[i].pkts[k] = <<s, h>> /\ K[i].ac = ac
          BY <1>2, <1>3, <2>2, <3>2
      <4> QED BY <1>6, <2>1, <2>2, <3>1, <3>2, <4>1 DEF at, num
    <3>3. CASE k # m + 1
      <4>1. k \in 1 .. m
          BY <1>3, <3>1, <3>3
      <4> QED BY <1>1, <1>2, <1>3, <1>6, <2>1, <2>2, <3>1, <4>1 DEF at, num
    <3> QED BY <3>2, <3>3
  <2>3. CASE i # n + 2
    <3>0. i \in 1 .. n + 1
        BY <1>1, <2>1, <2>3
    <3>1. K[i] = L[i]
        BY <1>4, <3>0
    <3> QED BY <1>1, <1>2, <1>6, <2>1, <2>3, <3>1 DEF at, num
  <2> QED BY <2>2, <2>3
<1>7. at(K, n + 2, m + 1, ac, s) /\ num(K, n + 2, m + 1) = h
    BY <1>1, <1>2, <1>3 DEF at, num
<1>8. ASSUME NEW x, NEW y
      PROVE  nums(L, x, y) \subseteq nums(K, x, y)
  <2>1. SUFFICES ASSUME NEW z \in nums(L, x, y) PROVE z \in nums(K, x, y)
      OBVIOUS
  <2>2. PICK i, k : at(L, i, k, x, y) /\ z = num(L, i, k)
      BY NumAt
  <2>3. at(K, i, k, x, y) /\ z = num(K, i, k)
      BY <1>5, <2>2
  <2> QED BY <2>3, NumAt
<1>9. ASSUME NEW x, NEW y, x # ac \/ y # s
      PROVE  /\ nums(K, x, y) = nums(L, x, y)
             /\ sorted(L, x, y) => sorted(K, x, y)
  <2>1. ASSUME NEW i, NEW k, at(K, i, k, x, y)
        PROVE  at(L, i, k, x, y) /\ num(K, i, k) = num(L, i, k)
      BY <1>6, <1>9, <2>1
  <2>2. nums(K, x, y) \subseteq nums(L, x, y)
    <3>1. SUFFICES ASSUME NEW z \in nums(K, x, y) PROVE z \in nums(L, x, y)
        OBVIOUS
    <3>2. PICK i, k : at(K, i, k, x, y) /\ z = num(K, i, k)
        BY NumAt
    <3>3. at(L, i, k, x, y) /\ z = num(L, i, k)
        BY <2>1, <3>2
    <3> QED BY <3>3, NumAt
  <2>3. sorted(L, x, y) => sorted(K, x, y)
      BY <2>1 DEF sorted
  <2> QED BY <1>8, <2>2, <2>3
<1>10. nums(K, ac, s) = nums(L, ac, s) \cup {h}
  <2>1. ASSUME NEW z \in nums(K, ac, s) PROVE z \in nums(L, ac, s) \cup {h}
    <3>1. PICK i, k : at(K, i, k, ac, s) /\ z = num(K, i, k)
        BY NumAt
    <3>2. CASE at(L, i, k, ac, s) /\ num(K, i, k) = num(L, i, k)
        BY <3>1, <3>2, NumAt
    <3>3. CASE num(K, i, k) = h
        BY <3>1, <3>3
    <3> QED BY <1>6, <3>1, <3>2, <3>3
  <2>2. h \in nums(K, ac, s)
      BY <1>7, NumAt
  <2> QED BY <1>8, <2>1, <2>2
<1>11. ASSUME sorted(L, ac, s), \A x \in nums(L, ac, s) : x < h
       PROVE  sorted(K, ac, s)
  <2>1. SUFFICES ASSUME NEW i, NEW j, NEW k, NEW l,
                        at(K, i, k, ac, s), at(K, j, l, ac, s),
                        i < j \/ (i = j /\ k < l)
                 PROVE  num(K, i, k) < num(K, j, l)
      BY DEF sorted
  <2>2. /\ i \in 1 .. n + 2 /\ k \in Nat /\ (i = n + 2 => k \in 1 .. m + 1)
        /\ j \in 1 .. n + 2 /\ l \in Nat /\ (j = n + 2 => l \in 1 .. m + 1)
      BY <1>6, <2>1
  <2>3. ~(i = n + 2 /\ k = m + 1)
      BY <1>1, <1>3, <2>1, <2>2
  <2>4. at(L, i, k, ac, s) /\ num(K, i, k) = num(L, i, k)
      BY <1>6, <2>1, <2>3
  <2>5. num(L, i, k) \in nums(L, ac, s)
      BY <2>4, NumAt
  <2>6. CASE at(L, j, l, ac, s) /\ num(K, j, l) = num(L, j, l)
      BY <1>11, <2>1, <2>4, <2>6 DEF sorted
  <2>7. CASE num(K, j, l) = h
      BY <1>11, <2>4, <2>5, <2>7
  <2> QED BY <1>6, <2>1, <2>6, <2>7
<1>12. CopiedLast(L, K, h, ac, s)
    BY <1>9, <1>10, <1>11 DEF CopiedLast
<1> QED BY <1>12 DEF L, K

\* A packet goes from the station's list into the aggregator's buffer.
LEMMA FlowCopied ==
    ASSUME NEW L, NEW K, NEW w \in Seq(Nat), w # <<>>, NEW a, NEW n,
           NEW ac, NEW s, Ordered(L, w, a, n, ac, s),
           nums(K, ac, s) = nums(L, ac, s) \cup {Head(w)},
           sorted(L, ac, s) /\ (\A x \in nums(L, ac, s) : x < Head(w)) =>
              sorted(K, ac, s)
    PROVE  /\ Ordered(K, Tail(w), a, n, ac, s)
           /\ Whole(L, w, a, n, ac, s) => Whole(K, Tail(w), a, n, ac, s)
<1> DEFINE h == Head(w)
           v == Tail(w)
           N == nums(L, ac, s)
<1>1. /\ sorted(L, ac, s) /\ rising(w) /\ a <= n
      /\ \A x \in N, y \in Range(w) : x < y
      /\ \A x \in N \cup Range(w) : a < x /\ x <= n
    BY DEF Ordered
<1>2. /\ h \in Range(w) /\ Range(w) = {h} \cup Range(v)
      /\ rising(v) /\ \A y \in Range(v) : h < y
    BY <1>1, TailListed
<1>3. nums(K, ac, s) = N \cup {h}
    OBVIOUS
<1>4. (\A x \in N : x < h) /\ sorted(K, ac, s)
    BY <1>1, <1>2
<1> HIDE DEF h, v, N
<1>5. \A x \in nums(K, ac, s), y \in Range(v) : x < y
    BY <1>1, <1>2, <1>3
<1>6. nums(K, ac, s) \cup Range(v) = N \cup Range(w)
    BY <1>2, <1>3
<1>7. Ordered(K, v, a, n, ac, s)
    BY <1>1, <1>2, <1>4, <1>5, <1>6 DEF Ordered
<1>8. Whole(L, w, a, n, ac, s) => Whole(K, v, a, n, ac, s)
    BY <1>6 DEF Whole, N
<1> QED BY <1>7, <1>8 DEF v

\* The buffer in the writer's hand leaves the lane.
FirstLeft(L, K, w, ac, s) ==
    /\ \A i, k : at(K, i, k, ac, s) =>
          at(L, i, k, ac, s) /\ i > 1 /\ num(K, i, k) = num(L, i, k)
    /\ \A i, k : at(L, i, k, ac, s) /\ i # 1 =>
          at(K, i, k, ac, s) /\ num(K, i, k) = num(L, i, k)
    /\ \A k : at(L, 1, k, ac, s) <=>
          k \in DOMAIN w.pkts /\ w.ac = ac /\ w.pkts[k][1] = s
    /\ \A k : num(L, 1, k) = w.pkts[k][2]
    /\ L \in Seq(Bufs) /\ K \in Seq(Bufs)

\* writer_write and free_wbuf empty the first place of the lane.
LEMMA LaneFirst ==
    ASSUME NEW w \in Bufs, NEW q \in Seq(Bufs), NEW b \in Bufs, NEW e \in Bufs,
           e.pkts = <<>>, NEW ac, NEW s
    PROVE  FirstLeft(Lane(w, q, b), Lane(e, q, b), w, ac, s)
<1> DEFINE L == Lane(w, q, b)
           K == Lane(e, q, b)
           n == Len(q)
<1>0. IsLane(L, w, q, b) /\ IsLane(K, e, q, b)
  <2> HIDE DEF n
  <2> QED BY LaneParts
<1> HIDE DEF K, L
<1>1. /\ L \in Seq(Bufs) /\ n \in Nat /\ DOMAIN L = 1 .. n + 2 /\ L[1] = w
      /\ \A i \in 1 .. n : L[i + 1] = q[i]
      /\ L[n + 2] = b
    BY <1>0 DEF IsLane
<1>2. /\ K \in Seq(Bufs) /\ DOMAIN K = 1 .. n + 2 /\ K[1] = e
      /\ \A i \in 1 .. n : K[i + 1] = q[i]
      /\ K[n + 2] = b
    BY <1>0 DEF IsLane
<1> HIDE DEF n
<1>3. \A i \in 2 .. n + 2 : K[i] = L[i]
  <2>1. \A i \in 1 .. n : K[i + 1] = L[i + 1]
      BY <1>1, <1>2
  <2>2. \A i \in 2 .. n + 2 : i = n + 2 \/ (i - 1 \in 1 .. n /\ (i - 1) + 1 = i)
      BY <1>1
  <2> QED BY <1>1, <1>2, <2>1, <2>2
<1>4. ASSUME NEW i, NEW k, at(K, i, k, ac, s)
      PROVE  at(L, i, k, ac, s) /\ i > 1 /\ num(K, i, k) = num(L, i, k)
  <2>1. i \in 1 .. n + 2 /\ k \in DOMAIN K[i].pkts
      BY <1>2, <1>4 DEF at
  <2>2. i # 1
      BY <1>2, <2>1
  <2>3. i \in 2 .. n + 2 /\ i > 1
      BY <1>1, <2>1, <2>2
  <2>4. K[i] = L[i] /\ i \in DOMAIN L
      BY <1>1, <1>3, <2>1, <2>3
  <2> QED BY <1>4, <2>3, <2>4 DEF at, num
<1>5. ASSUME NEW i, NEW k, at(L, i, k, ac, s), i # 1
      PROVE  at(K, i, k, ac, s) /\ num(K, i, k) = num(L, i, k)
  <2>1. i \in 1 .. n + 2
      BY <1>1, <1>5 DEF at
  <2>2. i \in 2 .. n + 2
      BY <1>1, <1>5, <2>1
  <2>3. K[i] = L[i] /\ i \in DOMAIN K
      BY <1>2, <1>3, <2>1, <2>2
  <2> QED BY <1>5, <2>3 DEF at, num
<1>6. ASSUME NEW k
      PROVE  at(L, 1, k, ac, s) <=>
                k \in DOMAIN w.pkts /\ w.ac = ac /\ w.pkts[k][1] = s
  <2>1. 1 \in DOMAIN L
      BY <1>1
  <2> QED BY <1>1, <2>1 DEF at
<1>7. \A k : num(L, 1, k) = w.pkts[k][2]
    BY <1>1 DEF num
<1>8. FirstLeft(L, K, w, ac, s)
    BY <1>1, <1>2, <1>4, <1>5, <1>6, <1>7 DEF FirstLeft
<1> QED BY <1>8 DEF L, K

\* A buffer that is thrown away leaves the rest in order.
LEMMA FlowDropped ==
    ASSUME NEW w \in Bufs, NEW q \in Seq(Bufs), NEW b \in Bufs, NEW e \in Bufs,
           e.pkts = <<>>, NEW ac, NEW s, NEW v, NEW a, NEW n,
           Ordered(Lane(w, q, b), v, a, n, ac, s)
    PROVE  /\ Ordered(Lane(e, q, b), v, a, n, ac, s)
           /\ nums(Lane(e, q, b), ac, s) \subseteq nums(Lane(w, q, b), ac, s)
<1> DEFINE L == Lane(w, q, b)
           K == Lane(e, q, b)
<1>0. FirstLeft(L, K, w, ac, s)
    BY LaneFirst
<1>1. \A i, k : at(K, i, k, ac, s) =>
                   at(L, i, k, ac, s) /\ num(K, i, k) = num(L, i, k)
    BY <1>0 DEF FirstLeft
<1>2. /\ sorted(L, ac, s) /\ rising(v) /\ a <= n
      /\ \A x \in nums(L, ac, s), y \in Range(v) : x < y
      /\ \A x \in nums(L, ac, s) \cup Range(v) : a < x /\ x <= n
    BY DEF Ordered
<1> HIDE DEF L, K
<1>3. nums(K, ac, s) \subseteq nums(L, ac, s)
  <2>1. SUFFICES ASSUME NEW z \in nums(K, ac, s) PROVE z \in nums(L, ac, s)
      OBVIOUS
  <2>2. PICK i, k : at(K, i, k, ac, s) /\ z = num(K, i, k)
      BY NumAt
  <2>3. at(L, i, k, ac, s) /\ z = num(L, i, k)
      BY <1>1, <2>2
  <2> QED BY <2>3, NumAt
<1>4. sorted(K, ac, s)
    BY <1>1, <1>2 DEF sorted
<1>5. Ordered(K, v, a, n, ac, s)
    BY <1>2, <1>3, <1>4 DEF Ordered
<1> QED BY <1>3, <1>5 DEF L, K

\* A buffer that is written: the last number in it is the last one written.
LEMMA FlowWritten ==
    ASSUME NEW w \in Bufs, NEW q \in Seq(Bufs), NEW b \in Bufs, NEW e \in Bufs,
           e.pkts = <<>>, NEW ac, NEW s, NEW v \in Seq(Nat),
           NEW a \in Nat, NEW n \in Nat, NEW t,
           t \in DOMAIN w.pkts, w.ac = ac, w.pkts[t][1] = s,
           \A j \in DOMAIN w.pkts : w.pkts[j][1] = s => j <= t,
           Ordered(Lane(w, q, b), v, a, n, ac, s)
    PROVE  /\ Ordered(Lane(e, q, b), v, w.pkts[t][2], n, ac, s)
           /\ Whole(Lane(w, q, b), v, a, n, ac, s) =>
                 Whole(Lane(e, q, b), v, w.pkts[t][2], n, ac, s)
<1> DEFINE L == Lane(w, q, b)
           K == Lane(e, q, b)
           z == w.pkts[t][2]
<1>0. FirstLeft(L, K, w, ac, s)
    BY LaneFirst
<1>1. /\ \A i, k : at(K, i, k, ac, s) =>
            at(L, i, k, ac, s) /\ i > 1 /\ num(K, i, k) = num(L, i, k)
      /\ \A i, k : at(L, i, k, ac, s) /\ i # 1 =>
            at(K, i, k, ac, s) /\ num(K, i, k) = num(L, i, k)
      /\ \A k : at(L, 1, k, ac, s) <=>
            k \in DOMAIN w.pkts /\ w.ac = ac /\ w.pkts[k][1] = s
      /\ \A k : num(L, 1, k) = w.pkts[k][2]
      /\ L \in Seq(Bufs) /\ K \in Seq(Bufs)
    BY <1>0 DEF FirstLeft
<1>2. /\ sorted(L, ac, s) /\ rising(v) /\ a <= n
      /\ \A x \in nums(L, ac, s), y \in Range(v) : x < y
      /\ \A x \in nums(L, ac, s) \cup Range(v) : a < x /\ x <= n
    BY DEF Ordered
<1>3. /\ Ordered(K, v, a, n, ac, s)
      /\ nums(K, ac, s) \subseteq nums(L, ac, s)
    BY FlowDropped
<1>4. at(L, 1, t, ac, s) /\ num(L, 1, t) = z
    BY <1>1
<1> HIDE DEF L, K, z
<1>5. z \in nums(L, ac, s) /\ z \in Nat /\ a < z /\ z <= n /\ t \in Nat
    BY <1>1, <1>2, <1>4, NumAt, NumType
<1>6. ASSUME NEW x \in nums(K, ac, s) PROVE z < x
  <2>1. PICK i, k : at(K, i, k, ac, s) /\ x = num(K, i, k)
      BY NumAt
  <2>2. at(L, i, k, ac, s) /\ i > 1 /\ x = num(L, i, k)
      BY <1>1, <2>1
  <2>3. 1 < i
      BY <1>1, <2>2, NumType
  <2> QED BY <1>2, <1>4, <2>2, <2>3 DEF sorted
<1>7. ASSUME NEW x \in nums(L, ac, s), x \notin nums(K, ac, s) PROVE x <= z
  <2>1. PICK i, k : at(L, i, k, ac, s) /\ x = num(L, i, k)
      BY NumAt
  <2>2. i = 1
    <3>1. ASSUME i # 1 PROVE FALSE
      <4>1. at(K, i, k, ac, s) /\ x = num(K, i, k)
          BY <1>1, <2>1, <3>1
      <4> QED BY <1>7, <4>1, NumAt
    <3> QED BY <3>1
  <2>3. k <= t /\ k \in Nat
      BY <1>1, <2>1, <2>2, NumType
  <2>4. CASE k = t
      BY <1>4, <1>5, <2>1, <2>2, <2>4
  <2>5. CASE k # t
    <3>1. k < t
        BY <1>5, <2>3, <2>5
    <3>2. num(L, 1, k) < num(L, 1, t)
        BY <1>2, <1>4, <2>1, <2>2, <3>1 DEF sorted
    <3>3. x \in Nat
        BY <1>1, NumType
    <3> QED BY <1>4, <1>5, <2>1, <2>2, <3>2, <3>3
  <2> QED BY <2>4, <2>5
<1>8. \A y \in Range(v) : z < y
    BY <1>2, <1>5
<1>9. Ordered(K, v, z, n, ac, s)
  <2>1. \A x \in nums(K, ac, s) \cup Range(v) : z < x /\ x <= n
      BY <1>2, <1>3, <1>6, <1>8
  <2> QED BY <1>3, <1>5, <2>1 DEF Ordered
<1>10. ASSUME Whole(L, v, a, n, ac, s) PROVE Whole(K, v, z, n, ac, s)
  <2>1. nums(L, ac, s) \cup Range(v) = a + 1 .. n
      BY <1>10 DEF Whole
  <2>2. ASSUME NEW x \in nums(K, ac, s) \cup Range(v) PROVE x \in z + 1 .. n
    <3>1. x \in a + 1 .. n /\ z < x
        BY <1>3, <1>6, <1>8, <2>1
    <3> QED BY <1>5, <3>1
  <2>3. ASSUME NEW x \in z + 1 .. n PROVE x \in nums(K, ac, s) \cup Range(v)
    <3>1. x \in a + 1 .. n /\ ~(x <= z)
        BY <1>5
    <3>2. x \in nums(L, ac, s) \cup Range(v)
        BY <2>1, <3>1
    <3> QED BY <1>7, <3>1, <3>2
  <2> QED BY <2>2, <2>3 DEF Whole
<1> QED BY <1>9, <1>10 DEF L, K, z

\* A buffer without packets of the flow makes no difference to it.
LEMMA FlowAbsent ==
    ASSUME NEW w \in Bufs, NEW q \in Seq(Bufs), NEW b \in Bufs, NEW e \in Bufs,
           e.pkts = <<>>, NEW ac, NEW s, NEW v, NEW a, NEW n,
           \A k \in DOMAIN w.pkts : w.ac # ac \/ w.pkts[k][1] # s,
           Ordered(Lane(w, q, b), v, a, n, ac, s)
    PROVE  /\ Ordered(Lane(e, q, b), v, a, n, ac, s)
           /\ Whole(Lane(w, q, b), v, a, n, ac, s) =>
                 Whole(Lane(e, q, b), v, a, n, ac, s)
<1> DEFINE L == Lane(w, q, b)
           K == Lane(e, q, b)
<1>0. FirstLeft(L, K, w, ac, s)
    BY LaneFirst
<1>1. Ordered(K, v, a, n, ac, s) /\ nums(K, ac, s) \subseteq nums(L, ac, s)
    BY FlowDropped
<1> HIDE DEF L, K
<1>2. ASSUME NEW x \in nums(L, ac, s) PROVE x \in nums(K, ac, s)
  <2>1. PICK i, k : at(L, i, k, ac, s) /\ x = num(L, i, k)
      BY NumAt
  <2>2. i # 1
      BY <1>0, <2>1 DEF FirstLeft
  <2>3. at(K, i, k, ac, s) /\ x = num(K, i, k)
      BY <1>0, <2>1, <2>2 DEF FirstLeft
  <2> QED BY <2>3, NumAt
<1>3. nums(K, ac, s) = nums(L, ac, s)
    BY <1>1, <1>2
<1> QED BY <1>1, <1>3 DEF Whole, L, K

-----------------------------------------------------------------------------
(* Every flow in order                                                     *)

\* Management buffers hold no packets of the stack; the driver is stopped only
\* when the stations are gone.
PlainInv ==
    /\ \A i \in DOMAIN pending_xmitbuf_queue :
          pending_xmitbuf_queue[i].tag = "mgnt" =>
             pending_xmitbuf_queue[i].pkts = <<>>
    /\ wbuf.tag = "mgnt" => wbuf.pkts = <<>>
StopInv == spc # "up" => linked = {}

FlowAt(ac, s) ==
    /\ Ordered(lane, sta_pending[ac][s], sent[ac][s], npkt[ac][s], ac, s)
    /\ nfree = 0 =>
          Whole(lane, sta_pending[ac][s], sent[ac][s], npkt[ac][s], ac, s)
OrderInv == \A ac \in AcSet, s \in Stations : FlowAt(ac, s)

\* Where nothing is queued, written or freed, the lane decides.
LEMMA OrderAlike ==
    ASSUME OrderInv, Alike(lane, lane'),
           UNCHANGED <<sta_pending, sent, npkt, nfree>>
    PROVE  OrderInv'
<1>1. SUFFICES ASSUME NEW ac \in AcSet, NEW s \in Stations PROVE FlowAt(ac, s)'
    BY DEF OrderInv
<1> DEFINE v == sta_pending[ac][s]
           a == sent[ac][s]
           n == npkt[ac][s]
<1>2. FlowAt(ac, s)
    BY DEF OrderInv
<1>3. v' = v /\ a' = a /\ n' = n /\ nfree' = nfree
    OBVIOUS
<1>4. /\ Ordered(lane, v, a, n, ac, s)
      /\ nfree = 0 => Whole(lane, v, a, n, ac, s)
    BY <1>2 DEF FlowAt
<1> HIDE DEF v, a, n
<1>5. /\ Ordered(lane', v, a, n, ac, s)
      /\ nfree = 0 => Whole(lane', v, a, n, ac, s)
    BY <1>4, AlikeOrdered
<1> QED BY <1>3, <1>5 DEF FlowAt, v, a, n

\* Steps that touch no packet.
LEMMA OrderSame ==
    ASSUME OrderInv, UNCHANGED <<wbuf, pending_xmitbuf_queue, abuf>>,
           UNCHANGED <<sta_pending, sent, npkt, nfree>>
    PROVE  OrderInv'
<1>1. lane' = lane
    BY DEF lane
<1>2. Alike(lane, lane')
    BY <1>1 DEF Alike
<1> QED BY <1>2, OrderAlike

\* The lane of the specification.
LEMMA LaneHere ==
    /\ lane = Lane(wbuf, pending_xmitbuf_queue, abuf)
    /\ lane' = Lane(wbuf', pending_xmitbuf_queue', abuf')
BY DEF lane, Lane

\* The types the flows have.
LEMMA FlowAtTypes ==
    ASSUME FlowInv, SentInv, NEW ac \in AcSet, NEW s \in Stations
    PROVE  /\ wbuf \in Bufs /\ abuf \in Bufs
           /\ pending_xmitbuf_queue \in Seq(Bufs)
           /\ sta_pending[ac][s] \in Seq(Nat)
           /\ sent[ac][s] \in Nat /\ npkt[ac][s] \in Nat
           /\ lane \in Seq(Bufs)
           /\ NoBuf \in Bufs /\ NoBuf.pkts = <<>>
<1>1. /\ wbuf \in Bufs /\ abuf \in Bufs /\ pending_xmitbuf_queue \in Seq(Bufs)
      /\ sta_pending[ac][s] \in Seq(Nat) /\ npkt[ac][s] \in Nat
    BY DEF FlowInv, FlowTypes
<1>2. sent[ac][s] \in Nat
    BY DEF SentInv
<1>3. lane \in Seq(Bufs)
    BY <1>1, LaneHere, LaneParts DEF IsLane
<1>4. NoBuf.pkts = <<>>
    BY DEF NoBuf
<1> QED BY <1>1, <1>2, <1>3, <1>4, BufTypes

\* A packet of the stack gets the next number of its flow.
LEMMA OrderStack ==
    ASSUME FlowInv, SentInv, OrderInv, NEW ac \in AcSet, hal_xmit(ac)
    PROVE  OrderInv'
<1>1. UNCHANGED <<wbuf, pending_xmitbuf_queue, abuf, sent, nfree>>
    BY DEF hal_xmit, aggr, writer, bounds
<1>2. CASE entry[ac] \notin linked
    BY <1>1, <1>2, OrderSame DEF hal_xmit
<1>3. CASE entry[ac] \in linked
  <2>1. PICK s \in Stations : s = entry[ac]
      BY <1>3 DEF FlowInv, FlowTypes
  <2>2. /\ npkt' = [npkt EXCEPT ![ac][s] = @ + 1]
        /\ sta_pending' = [sta_pending EXCEPT ![ac][s] = Append(@, npkt'[ac][s])]
      BY <1>3, <2>1 DEF hal_xmit
  <2>3. npkt'[ac][s] = npkt[ac][s] + 1
      BY <2>2 DEF FlowInv, FlowTypes
  <2>4. sta_pending'[ac][s] = Append(sta_pending[ac][s], npkt[ac][s] + 1)
      BY <2>2, <2>3 DEF FlowInv, FlowTypes
  <2>5. \A c \in AcSet, u \in Stations : c # ac \/ u # s =>
           npkt'[c][u] = npkt[c][u] /\ sta_pending'[c][u] = sta_pending[c][u]
      BY <2>2 DEF FlowInv, FlowTypes
  <2>6. lane' = lane
      BY <1>1 DEF lane
  <2>7. SUFFICES ASSUME NEW c \in AcSet, NEW u \in Stations PROVE FlowAt(c, u)'
      BY DEF OrderInv
  <2>8. FlowAt(c, u)
      BY DEF OrderInv
  <2>9. CASE c = ac /\ u = s
    <3>1. /\ lane \in Seq(Bufs) /\ sta_pending[ac][s] \in Seq(Nat)
          /\ sent[ac][s] \in Nat /\ npkt[ac][s] \in Nat
        BY FlowAtTypes
    <3> DEFINE v == sta_pending[ac][s]
               a == sent[ac][s]
               n == npkt[ac][s]
    <3>2. /\ Ordered(lane, v, a, n, ac, s)
          /\ nfree = 0 => Whole(lane, v, a, n, ac, s)
        BY <2>8, <2>9 DEF FlowAt
    <3>3. sta_pending'[ac][s] = Append(v, n + 1) /\ npkt'[ac][s] = n + 1
          /\ sent'[ac][s] = a
        BY <1>1, <2>3, <2>4
    <3> HIDE DEF v, a, n
    <3>4. /\ Ordered(lane, Append(v, n + 1), a, n + 1, ac, s)
          /\ nfree = 0 => Whole(lane, Append(v, n + 1), a, n + 1, ac, s)
        BY <3>1, <3>2, FlowQueued DEF v, a, n
    <3> QED BY <1>1, <2>6, <2>9, <3>3, <3>4 DEF FlowAt
  <2>10. CASE c # ac \/ u # s
      BY <1>1, <2>5, <2>6, <2>8, <2>10 DEF FlowAt
  <2> QED BY <2>9, <2>10
<1> QED BY <1>2, <1>3

\* Buffers are taken, handed over and given back.
LEMMA OrderHandOver ==
    ASSUME FlowInv, SentInv, OrderInv, agg_full \/ agg_flush \/ agg_alloc
    PROVE  OrderInv'
<1>1. /\ UNCHANGED <<sta_pending, sent, npkt, nfree>> /\ wbuf' = wbuf
    BY DEF agg_full, agg_flush, agg_alloc, writer, bounds
<1>2. /\ wbuf \in Bufs /\ abuf \in Bufs /\ pending_xmitbuf_queue \in Seq(Bufs)
      /\ NoBuf \in Bufs /\ NoBuf.pkts = <<>>
    BY BufTypes DEF FlowInv, FlowTypes, NoBuf
<1>3. CASE /\ pending_xmitbuf_queue' = Append(pending_xmitbuf_queue, abuf)
           /\ abuf' = NoBuf
  <2>1. Alike(lane, lane')
      BY <1>1, <1>2, <1>3, LaneHere, LaneHandOver
  <2> QED BY <1>1, <2>1, OrderAlike
<1>4. CASE /\ pending_xmitbuf_queue' = pending_xmitbuf_queue
           /\ abuf.pkts = <<>> /\ abuf' \in Bufs /\ abuf'.pkts = <<>>
  <2>1. Alike(lane, lane')
      BY <1>1, <1>2, <1>4, LaneHere, LaneEmpty
  <2> QED BY <1>1, <2>1, OrderAlike
<1>5. CASE agg_full
    BY <1>3, <1>5 DEF agg_full, enqueue_pending_xmitbuf
<1>6. CASE agg_alloc
  <2>1. Ac \in AcSet
      BY <1>6, AtFrame DEF agg_alloc
  <2>2. /\ pending_xmitbuf_queue' = pending_xmitbuf_queue
        /\ abuf = NoBuf /\ abuf' \in {NoBuf, Data(Ac, <<>>)}
      BY <1>6 DEF agg_alloc
  <2>3. Data(Ac, <<>>) \in Bufs /\ Data(Ac, <<>>).pkts = <<>>
      BY <2>1, BufTypes DEF Data
  <2> QED BY <1>2, <1>4, <2>2, <2>3
<1>7. CASE agg_flush
  <2>1. abuf' = NoBuf
      BY <1>7 DEF agg_flush
  <2>2. CASE abuf # NoBuf /\ agg_num(abuf) > 0
    <3>1. pending_xmitbuf_queue' = Append(pending_xmitbuf_queue, abuf)
        BY <1>7, <2>2 DEF agg_flush, enqueue_pending_xmitbuf
    <3> QED BY <1>3, <2>1, <3>1
  <2>3. CASE abuf = NoBuf
    <3>1. pending_xmitbuf_queue' = pending_xmitbuf_queue
        BY <1>7, <2>3 DEF agg_flush
    <3> QED BY <1>2, <1>4, <2>1, <2>3, <3>1
  <2>4. CASE abuf # NoBuf /\ ~(agg_num(abuf) > 0)
    <3>1. pending_xmitbuf_queue' = pending_xmitbuf_queue
        BY <1>7, <2>4 DEF agg_flush
    <3>2. abuf.tag = "data" /\ abuf.pkts \in Seq(Stations \X Nat)
        BY <1>2, <2>4 DEF FlowInv, AbufInv, Bufs
    <3>3. ~(Len(abuf.pkts) > 0)
        BY <2>4, <3>2 DEF agg_num
    <3>4. abuf.pkts = <<>>
        BY <3>2, <3>3
    <3> QED BY <1>2, <1>4, <2>1, <3>1, <3>4
  <2> QED BY <2>2, <2>3, <2>4
<1> QED BY <1>5, <1>6, <1>7

\* The first packet of the station at hand is copied, or dropped if the station
\* has left.
LEMMA OrderCoalesce ==
    ASSUME FlowInv, FrameInv, SentInv, OrderInv, FlowInv', agg_coalesce
    PROVE  OrderInv'
<1> DEFINE s == Head(todo)
           ac == Ac
           v == sta_pending[ac][s]
           h == Head(v)
<1>1. /\ UNCHANGED <<wbuf, pending_xmitbuf_queue, sent, npkt, nfree>>
      /\ sta_pending' = [sta_pending EXCEPT ![ac][s] = Tail(@)]
      /\ abuf # NoBuf /\ v # <<>>
      /\ s \in linked => abuf' = [abuf EXCEPT !.pkts = Append(@, <<s, h>>)]
      /\ s \notin linked => abuf' = abuf
    BY DEF agg_coalesce, at_frame, no_room, writer, bounds
<1>2. ac \in AcSet /\ s \in Stations
    BY AtFrame DEF agg_coalesce
<1>3. /\ wbuf \in Bufs /\ abuf \in Bufs /\ pending_xmitbuf_queue \in Seq(Bufs)
      /\ abuf' \in Bufs /\ v \in Seq(Nat) /\ abuf.ac = ac
    BY <1>1, <1>2 DEF FlowInv, FlowTypes, AbufInv
<1> HIDE DEF s, ac
<1>4. sta_pending'[ac][s] = Tail(v)
    BY <1>1, <1>2 DEF FlowInv, FlowTypes
<1>5. \A c \in AcSet, u \in Stations : c # ac \/ u # s =>
         sta_pending'[c][u] = sta_pending[c][u]
    BY <1>1, <1>2 DEF FlowInv, FlowTypes
<1>6. h \in Nat
    BY <1>1, <1>3
<1>7. SUFFICES ASSUME NEW c \in AcSet, NEW u \in Stations PROVE FlowAt(c, u)'
    BY DEF OrderInv
<1> DEFINE x == sta_pending[c][u]
           a == sent[c][u]
           n == npkt[c][u]
<1>8. sent'[c][u] = a /\ npkt'[c][u] = n /\ nfree' = nfree
    BY <1>1
<1>9. /\ Ordered(lane, x, a, n, c, u)
      /\ nfree = 0 => Whole(lane, x, a, n, c, u)
    BY DEF OrderInv, FlowAt
<1> HIDE DEF a, n
<1>10. CASE s \in linked
  <2>1. abuf'.ac = ac /\ abuf'.pkts = Append(abuf.pkts, <<s, h>>)
    <3> HIDE DEF h
    <3> QED BY <1>1, <1>3, <1>10 DEF Bufs
  <2> HIDE DEF h
  <2>2. CopiedLast(lane, lane', h, ac, s)
    <3>1. CopiedLast(Lane(wbuf, pending_xmitbuf_queue, abuf),
                     Lane(wbuf, pending_xmitbuf_queue, abuf'), h, ac, s)
        BY <1>3, <1>6, <2>1, LaneCopy
    <3>2. lane' = Lane(wbuf, pending_xmitbuf_queue, abuf')
        BY <1>1, LaneHere
    <3> QED BY <3>1, <3>2, LaneHere
  <2>3. CASE c = ac /\ u = s
    <3>1. x = v
        BY <2>3
    <3>2. /\ nums(lane', ac, s) = nums(lane, ac, s) \cup {Head(v)}
          /\ sorted(lane, ac, s) /\ (\A y \in nums(lane, ac, s) : y < Head(v)) =>
                sorted(lane', ac, s)
        BY <2>2 DEF CopiedLast, h
    <3>3. /\ Ordered(lane, v, a, n, ac, s)
          /\ nfree = 0 => Whole(lane, v, a, n, ac, s)
        BY <1>9, <2>3, <3>1
    <3>4. v \in Seq(Nat) /\ v # <<>>
        BY <1>1, <1>3
    <3> HIDE DEF v
    <3>5. /\ Ordered(lane', Tail(v), a, n, ac, s)
          /\ nfree = 0 => Whole(lane', Tail(v), a, n, ac, s)
        BY <3>2, <3>3, <3>4, FlowCopied
    <3> QED BY <1>4, <1>8, <2>3, <3>5 DEF FlowAt
  <2>4. CASE c # ac \/ u # s
    <3>1. /\ nums(lane', c, u) = nums(lane, c, u)
          /\ sorted(lane, c, u) => sorted(lane', c, u)
        BY <2>2, <2>4 DEF CopiedLast
    <3>2. sta_pending'[c][u] = x
        BY <1>5, <2>4
    <3> HIDE DEF x
    <3>3. /\ Ordered(lane', x, a, n, c, u)
          /\ nfree = 0 => Whole(lane', x, a, n, c, u)
        BY <1>9, <3>1 DEF Ordered, Whole
    <3> QED BY <1>8, <3>2, <3>3 DEF FlowAt
  <2> QED BY <2>3, <2>4
<1>11. CASE s \notin linked
  <2>1. lane' = lane
      BY <1>1, <1>11 DEF lane
  <2>2. nfree # 0
      BY <1>2, <1>11 DEF FrameInv
  <2>3. CASE c = ac /\ u = s
    <3>1. Ordered(lane, Tail(v), a, n, ac, s)
        BY <1>1, <1>3, <1>9, <2>3, FlowShorter
    <3> QED BY <1>4, <1>8, <2>1, <2>2, <2>3, <3>1 DEF FlowAt
  <2>4. CASE c # ac \/ u # s
    <3>1. sta_pending'[c][u] = x
        BY <1>5, <2>4
    <3> QED BY <1>8, <1>9, <2>1, <3>1 DEF FlowAt
  <2> QED BY <2>3, <2>4
<1> QED BY <1>10, <1>11

\* A station's lists are emptied.
LEMMA OrderSta ==
    ASSUME FlowInv, FrameInv, SentInv, OrderInv, NEW s \in Stations,
           rtw_free_stainfo(s) \/ free_xmitframe_queues(s)
    PROVE  OrderInv'
<1>1. /\ UNCHANGED <<wbuf, pending_xmitbuf_queue, abuf, sent, npkt>>
      /\ nfree' # 0
  <2>1. CASE rtw_free_stainfo(s)
      BY <2>1 DEF rtw_free_stainfo, writer, aggr, FrameInv
  <2>2. CASE free_xmitframe_queues(s)
      BY <2>2 DEF free_xmitframe_queues, writer, aggr, bounds, FrameInv
  <2> QED BY <2>1, <2>2
<1>2. lane' = lane
    BY <1>1 DEF lane
<1>3. \A c \in AcSet, u \in Stations :
         sta_pending'[c][u] \in {sta_pending[c][u], <<>>}
  <2>1. CASE rtw_free_stainfo(s)
      BY <2>1 DEF rtw_free_stainfo
  <2>2. CASE free_xmitframe_queues(s)
    <3>1. sta_pending' = [c \in AcSet |-> [sta_pending[c] EXCEPT ![s] = <<>>]]
        BY <2>2 DEF free_xmitframe_queues
    <3> QED BY <3>1 DEF FlowInv, FlowTypes
  <2> QED BY <2>1, <2>2
<1>4. SUFFICES ASSUME NEW c \in AcSet, NEW u \in Stations PROVE FlowAt(c, u)'
    BY DEF OrderInv
<1> DEFINE x == sta_pending[c][u]
           a == sent[c][u]
           n == npkt[c][u]
<1>5. Ordered(lane, x, a, n, c, u) /\ x \in Seq(Nat)
    BY FlowAtTypes DEF OrderInv, FlowAt
<1>6. sent'[c][u] = a /\ npkt'[c][u] = n
    BY <1>1
<1>7. sta_pending'[c][u] \in {x, <<>>}
    BY <1>3
<1> HIDE DEF x, a, n
<1>8. Ordered(lane, <<>>, a, n, c, u)
    BY <1>5, FlowShorter
<1>9. Ordered(lane', sta_pending'[c][u], a, n, c, u)
    BY <1>2, <1>5, <1>7, <1>8
<1> QED BY <1>1, <1>6, <1>9 DEF FlowAt

\* The buffer in hand is thrown away: only when the driver is stopped, and then
\* every station has left.
LEMMA OrderDrop ==
    ASSUME FlowInv, FrameInv, SentInv, StopInv, OrderInv, bDriverStopped,
           wbuf' = NoBuf, UNCHANGED <<pending_xmitbuf_queue, abuf>>,
           UNCHANGED <<sta_pending, sent, npkt, nfree>>
    PROVE  OrderInv'
<1>1. SUFFICES ASSUME NEW c \in AcSet, NEW u \in Stations PROVE FlowAt(c, u)'
    BY DEF OrderInv
<1>2. nfree # 0
    BY DEF FrameInv, StopInv, bDriverStopped
<1> DEFINE x == sta_pending[c][u]
           a == sent[c][u]
           n == npkt[c][u]
<1>3. Ordered(lane, x, a, n, c, u)
    BY DEF OrderInv, FlowAt
<1>4. /\ wbuf \in Bufs /\ abuf \in Bufs /\ pending_xmitbuf_queue \in Seq(Bufs)
      /\ NoBuf \in Bufs /\ NoBuf.pkts = <<>>
    BY FlowAtTypes
<1>5. sent'[c][u] = a /\ npkt'[c][u] = n /\ sta_pending'[c][u] = x
    OBVIOUS
<1>6. lane' = Lane(NoBuf, pending_xmitbuf_queue, abuf)
    BY LaneHere
<1>7. Ordered(Lane(wbuf, pending_xmitbuf_queue, abuf), x, a, n, c, u)
    BY <1>3, LaneHere
<1> HIDE DEF x, a, n
<1>8. Ordered(lane', x, a, n, c, u)
    BY <1>4, <1>6, <1>7, FlowDropped
<1> QED BY <1>2, <1>5, <1>8 DEF FlowAt

\* The buffer in hand is written.
LEMMA OrderWrite ==
    ASSUME FlowInv, SentInv, OrderInv, writer_write
    PROVE  OrderInv'
<1>1. /\ UNCHANGED <<pending_xmitbuf_queue, abuf, sta_pending, npkt, nfree>>
      /\ wbuf' = NoBuf
      /\ sent' = [ac \in AcSet |-> [s \in Stations |-> last_sent(ac, s)]]
    BY DEF writer_write, free_wbuf, frames, aggr, bounds
<1>2. SUFFICES ASSUME NEW c \in AcSet, NEW u \in Stations PROVE FlowAt(c, u)'
    BY DEF OrderInv
<1> DEFINE x == sta_pending[c][u]
           a == sent[c][u]
           n == npkt[c][u]
           mine == {i \in DOMAIN wbuf.pkts : wbuf.pkts[i][1] = u}
           t == CHOOSE i \in mine : \A j \in mine : j <= i
           L == Lane(wbuf, pending_xmitbuf_queue, abuf)
           K == Lane(NoBuf, pending_xmitbuf_queue, abuf)
<1>3. lane = L /\ lane' = K
    BY <1>1, LaneHere
<1>4. /\ Ordered(L, x, a, n, c, u)
      /\ nfree = 0 => Whole(L, x, a, n, c, u)
  <2>1. FlowAt(c, u)
      BY DEF OrderInv
  <2> HIDE DEF L
  <2> QED BY <1>3, <2>1 DEF FlowAt
<1>5. /\ wbuf \in Bufs /\ abuf \in Bufs /\ pending_xmitbuf_queue \in Seq(Bufs)
      /\ NoBuf \in Bufs /\ NoBuf.pkts = <<>>
      /\ x \in Seq(Nat) /\ a \in Nat /\ n \in Nat
    BY FlowAtTypes
<1>6. npkt'[c][u] = n /\ sta_pending'[c][u] = x /\ sent'[c][u] = last_sent(c, u)
      /\ nfree' = nfree
    BY <1>1
<1>7. CASE wbuf.ac # c \/ mine = {}
  <2>1. last_sent(c, u) = a
      BY <1>7 DEF last_sent
  <2>2. \A k \in DOMAIN wbuf.pkts : wbuf.ac # c \/ wbuf.pkts[k][1] # u
      BY <1>7
  <2> HIDE DEF x, a, n, mine, t
  <2>3. /\ Ordered(K, x, a, n, c, u)
        /\ nfree = 0 => Whole(K, x, a, n, c, u)
      BY <1>4, <1>5, <2>2, FlowAbsent
  <2> HIDE DEF K
  <2> QED BY <1>3, <1>6, <2>1, <2>3 DEF FlowAt
<1>8. CASE wbuf.ac = c /\ mine # {}
  <2>1. last_sent(c, u) = wbuf.pkts[t][2]
      BY <1>8 DEF last_sent
  <2>2. wbuf.pkts \in Seq(Stations \X Nat)
      BY <1>5 DEF Bufs
  <2>3. t \in mine /\ \A j \in mine : j <= t
    <3>1. mine \in SUBSET (DOMAIN wbuf.pkts)
        OBVIOUS
    <3> HIDE DEF mine
    <3> QED BY <1>8, <2>2, <3>1, LastOf
  <2> HIDE DEF x, a, n, t
  <2>4. /\ t \in DOMAIN wbuf.pkts /\ wbuf.pkts[t][1] = u
        /\ \A j \in DOMAIN wbuf.pkts : wbuf.pkts[j][1] = u => j <= t
      BY <2>3
  <2> HIDE DEF mine
  <2>5. /\ Ordered(K, x, wbuf.pkts[t][2], n, c, u)
        /\ nfree = 0 => Whole(K, x, wbuf.pkts[t][2], n, c, u)
      BY <1>4, <1>5, <1>8, <2>4, FlowWritten
  <2> HIDE DEF K
  <2> QED BY <1>3, <1>6, <2>1, <2>5 DEF FlowAt
<1> QED BY <1>7, <1>8

\* The writer takes a buffer, puts it back, throws it away or writes it.
LEMMA OrderWriter ==
    ASSUME FlowInv, CargoInv, FrameInv, SentInv, PlainInv, StopInv, OrderInv,
           Writer
    PROVE  OrderInv'
<1>1. /\ wbuf \in Bufs /\ abuf \in Bufs /\ pending_xmitbuf_queue \in Seq(Bufs)
      /\ NoBuf \in Bufs /\ NoBuf.pkts = <<>>
    BY BufTypes DEF FlowInv, FlowTypes, NoBuf
<1>2. UNCHANGED <<sta_pending, abuf, npkt, nfree>>
    BY DEF Writer, writer_wait, writer_select, writer_pages, writer_refresh,
           writer_oqt, writer_write, writer_sema_up, frames, aggr, bounds
<1>3. CASE writer_wait \/ writer_refresh \/ writer_sema_up
  <2>1. UNCHANGED <<pending_xmitbuf_queue, wbuf, sent>>
      BY <1>3 DEF writer_wait, writer_refresh, writer_sema_up
  <2> QED BY <1>2, <2>1, OrderSame
<1>4. CASE writer_select
  <2> DEFINE q     == pending_xmitbuf_queue
             mgnts == {i \in 1 .. Len(q) : q[i].tag = "mgnt"}
             may   == IF mgnts # {} THEN mgnts
                      ELSE IF scanning THEN {} ELSE 1 .. Len(q)
             first == {i \in may : \A j \in may : i <= j}
  <2>1. sent' = sent /\ wpc \notin Holding
      BY <1>4 DEF writer_select, Holding
  <2>2. wbuf = NoBuf
      BY <2>1 DEF CargoInv
  <2>3. ASSUME NEW i \in first
        PROVE  i \in 1 .. Len(q) /\ (i = 1 \/ q[i].pkts = <<>>)
    <3>1. i \in may /\ may \subseteq 1 .. Len(q) /\ \A j \in may : i <= j
        OBVIOUS
    <3>2. CASE mgnts # {}
      <4>1. i \in mgnts
          BY <3>1, <3>2
      <4>2. i \in DOMAIN q /\ q[i].tag = "mgnt"
          BY <1>1, <4>1
      <4> QED BY <3>1, <4>2 DEF PlainInv
    <3>3. CASE mgnts = {}
      <4>1. may = 1 .. Len(q)
          BY <3>1, <3>3
      <4>2. i \in 1 .. Len(q) /\ 1 \in 1 .. Len(q)
          BY <3>1, <4>1
      <4>3. i <= 1
          BY <3>1, <4>1, <4>2
      <4> QED BY <4>2, <4>3
    <3> QED BY <3>2, <3>3
  <2>4. \/ UNCHANGED <<wbuf, q>>
        \/ \E i \in first : wbuf' = q[i] /\ q' = RemoveAt(q, i)
    <3> HIDE DEF first
    <3> QED BY <1>4, Zenon DEF writer_select, first
  <2>5. CASE UNCHANGED <<wbuf, q>>
      BY <1>2, <2>1, <2>5, OrderSame
  <2>6. CASE \E i \in first : wbuf' = q[i] /\ q' = RemoveAt(q, i)
    <3> HIDE DEF first
    <3>1. PICK i \in first : wbuf' = q[i] /\ q' = RemoveAt(q, i)
        BY <2>6
    <3>2. i \in 1 .. Len(q) /\ (i = 1 \/ q[i].pkts = <<>>)
        BY <2>3
    <3>3. wbuf.pkts = <<>>
        BY <1>1, <2>2
    <3>4. Alike(Lane(wbuf, q, abuf), Lane(q[i], RemoveAt(q, i), abuf))
        BY <1>1, <3>2, <3>3, LaneSelect
    <3>5. Alike(lane, lane')
        BY <1>2, <3>1, <3>4, LaneHere
    <3> QED BY <1>2, <2>1, <3>5, OrderAlike
  <2> QED BY <2>4, <2>5, <2>6
<1>5. CASE writer_pages
  <2>1. sent' = sent
      BY <1>5 DEF writer_pages
  <2>2. \/ UNCHANGED <<wbuf, pending_xmitbuf_queue>>
        \/ bDriverStopped /\ wbuf' = NoBuf /\ UNCHANGED pending_xmitbuf_queue
        \/ /\ wbuf' = NoBuf
           /\ pending_xmitbuf_queue' = <<wbuf>> \o pending_xmitbuf_queue
      BY <1>5 DEF writer_pages, free_wbuf, enqueue_pending_xmitbuf_to_head
  <2>3. CASE UNCHANGED <<wbuf, pending_xmitbuf_queue>>
      BY <1>2, <2>1, <2>3, OrderSame
  <2>4. CASE bDriverStopped /\ wbuf' = NoBuf /\ UNCHANGED pending_xmitbuf_queue
      BY <1>2, <2>1, <2>4, OrderDrop
  <2>5. CASE wbuf' = NoBuf
             /\ pending_xmitbuf_queue' = <<wbuf>> \o pending_xmitbuf_queue
    <3>1. Alike(Lane(wbuf, pending_xmitbuf_queue, abuf),
                Lane(NoBuf, <<wbuf>> \o pending_xmitbuf_queue, abuf))
        BY <1>1, LanePutBack
    <3>2. Alike(lane, lane')
        BY <1>2, <2>5, <3>1, LaneHere
    <3> QED BY <1>2, <2>1, <3>2, OrderAlike
  <2> QED BY <2>2, <2>3, <2>4, <2>5
<1>6. CASE writer_oqt
  <2>1. /\ sent' = sent /\ UNCHANGED pending_xmitbuf_queue
        /\ UNCHANGED wbuf \/ (bDriverStopped /\ wbuf' = NoBuf)
      BY <1>6 DEF writer_oqt, free_wbuf
  <2> QED BY <1>2, <2>1, OrderSame, OrderDrop
<1> QED BY <1>3, <1>4, <1>5, <1>6, OrderWrite DEF Writer

\* Management buffers stay empty.
LEMMA PlainStep ==
    ASSUME FlowInv, CargoInv, PlainInv, [Next]_vars PROVE PlainInv'
<1>1. /\ pending_xmitbuf_queue \in Seq(Bufs) /\ wbuf \in Bufs /\ abuf \in Bufs
      /\ NoBuf.tag # "mgnt" /\ Mgnt.pkts = <<>> /\ Mgnt \in Bufs
    BY BufTypes DEF FlowInv, FlowTypes, NoBuf, Mgnt
<1>2. ASSUME UNCHANGED wbuf, NEW b \in Bufs, b.tag = "mgnt" => b.pkts = <<>>,
             pending_xmitbuf_queue' = Append(pending_xmitbuf_queue, b)
      PROVE  PlainInv'
  <2>1. \A i \in DOMAIN pending_xmitbuf_queue' :
           \/ pending_xmitbuf_queue'[i] = b
           \/ /\ i \in DOMAIN pending_xmitbuf_queue
              /\ pending_xmitbuf_queue'[i] = pending_xmitbuf_queue[i]
      BY <1>1, <1>2
  <2> QED BY <1>2, <2>1 DEF PlainInv
<1>3. UNCHANGED <<wbuf, pending_xmitbuf_queue>> => PlainInv'
    BY DEF PlainInv
<1>4. CASE mgnt_xmit
  <2>1. /\ UNCHANGED wbuf
        /\ pending_xmitbuf_queue' = Append(pending_xmitbuf_queue, Mgnt)
      BY <1>4 DEF mgnt_xmit, writer
  <2> QED BY <1>1, <1>2, <2>1
<1>5. CASE agg_full \/ agg_flush
  <2>1. UNCHANGED wbuf
      BY <1>5 DEF agg_full, agg_flush, writer
  <2>2. \/ pending_xmitbuf_queue' = pending_xmitbuf_queue
        \/ /\ abuf # NoBuf
           /\ pending_xmitbuf_queue' = Append(pending_xmitbuf_queue, abuf)
      BY <1>5, Zenon DEF agg_full, agg_flush, enqueue_pending_xmitbuf
  <2>3. abuf # NoBuf => abuf.tag # "mgnt"
      BY DEF FlowInv, AbufInv
  <2> QED BY <1>1, <1>2, <1>3, <2>1, <2>2, <2>3
<1>6. CASE writer_select
  <2> DEFINE q     == pending_xmitbuf_queue
             mgnts == {i \in 1 .. Len(q) : q[i].tag = "mgnt"}
             may   == IF mgnts # {} THEN mgnts
                      ELSE IF scanning THEN {} ELSE 1 .. Len(q)
             first == {i \in may : \A j \in may : i <= j}
  <2>1. first \subseteq 1 .. Len(q)
      OBVIOUS
  <2>2. \/ UNCHANGED <<wbuf, q>>
        \/ \E i \in first : wbuf' = q[i] /\ q' = RemoveAt(q, i)
    <3> HIDE DEF first
    <3> QED BY <1>6, Zenon DEF writer_select, first
  <2>3. CASE \E i \in first : wbuf' = q[i] /\ q' = RemoveAt(q, i)
    <3> HIDE DEF first
    <3>1. PICK i \in 1 .. Len(q) : wbuf' = q[i] /\ q' = RemoveAt(q, i)
        BY <2>1, <2>3
    <3>2. q \in Seq(Bufs) /\ i \in DOMAIN q
        BY <1>1
    <3> DEFINE r == RemoveAt(q, i)
    <3>3. \A k \in DOMAIN r : \E j \in DOMAIN q : r[k] = q[j]
      <4>0. q \in Seq(Bufs) /\ i \in 1 .. Len(q) /\ Len(q) \in Nat
          BY <1>1
      <4> HIDE DEF q
      <4>1. /\ r \in Seq(Bufs) /\ Len(r) = Len(q) - 1
            /\ \A k \in 1 .. Len(q) - 1 :
                  r[k] = IF k < i THEN q[k] ELSE q[k + 1]
          BY <4>0, RemoveAtPlaces
      <4> HIDE DEF r
      <4>2. SUFFICES ASSUME NEW k \in 1 .. Len(q) - 1
                     PROVE  \E j \in DOMAIN q : r[k] = q[j]
          BY <4>1
      <4>3. k \in DOMAIN q /\ k + 1 \in DOMAIN q
          BY <4>0
      <4> QED BY <4>1, <4>3
    <3>4. pending_xmitbuf_queue' = r
        BY <3>1
    <3> HIDE DEF r
    <3> QED BY <3>1, <3>2, <3>3, <3>4 DEF PlainInv
  <2> QED BY <1>3, <2>2, <2>3
<1>7. CASE writer_pages
  <2>1. \/ UNCHANGED <<wbuf, pending_xmitbuf_queue>>
        \/ wbuf' = NoBuf /\ UNCHANGED pending_xmitbuf_queue
        \/ /\ wbuf' = NoBuf
           /\ pending_xmitbuf_queue' = <<wbuf>> \o pending_xmitbuf_queue
      BY <1>7 DEF writer_pages, free_wbuf, enqueue_pending_xmitbuf_to_head
  <2>2. CASE wbuf' = NoBuf /\ UNCHANGED pending_xmitbuf_queue
      BY <1>1, <2>2 DEF PlainInv
  <2>3. CASE wbuf' = NoBuf
             /\ pending_xmitbuf_queue' = <<wbuf>> \o pending_xmitbuf_queue
    <3> DEFINE q == pending_xmitbuf_queue
               r == <<wbuf>> \o q
    <3>1. \A i \in DOMAIN r : r[i] = wbuf \/ \E j \in DOMAIN q : r[i] = q[j]
      <4>1. q \in Seq(Bufs) /\ wbuf \in Bufs
          BY <1>1
      <4>2. /\ Len(q) \in Nat /\ DOMAIN q = 1 .. Len(q)
            /\ DOMAIN r = 1 .. Len(q) + 1 /\ r[1] = wbuf
            /\ \A i \in 1 .. Len(q) : r[i + 1] = q[i]
          BY <4>1
      <4> HIDE DEF q, r
      <4>3. SUFFICES ASSUME NEW i \in 1 .. Len(q) + 1, i # 1
                     PROVE  \E j \in 1 .. Len(q) : r[i] = q[j]
          BY <4>2
      <4>4. i - 1 \in 1 .. Len(q) /\ (i - 1) + 1 = i
          BY <4>2, <4>3
      <4> QED BY <4>2, <4>4
    <3>2. pending_xmitbuf_queue' = r
        BY <2>3
    <3> HIDE DEF r
    <3> QED BY <1>1, <2>3, <3>1, <3>2 DEF PlainInv
  <2> QED BY <1>3, <2>1, <2>2, <2>3
<1>8. CASE writer_oqt \/ writer_write
  <2>1. /\ UNCHANGED pending_xmitbuf_queue /\ wbuf' \in {wbuf, NoBuf}
      BY <1>8 DEF writer_oqt, writer_write, free_wbuf
  <2> QED BY <1>1, <2>1 DEF PlainInv
<1>9. \/ Stack \/ agg_wait \/ agg_next \/ agg_ac \/ agg_station_done
      \/ agg_sema_down \/ agg_return \/ agg_unavail \/ agg_alloc \/ agg_coalesce
      \/ writer_wait \/ writer_refresh \/ writer_sema_up
      => UNCHANGED <<wbuf, pending_xmitbuf_queue>>
    BY DEF Stack, xmit_entry, hal_xmit, agg_wait, agg_next, agg_ac,
           agg_station_done, agg_sema_down, agg_return, agg_unavail, agg_alloc,
           agg_coalesce, writer_wait, writer_refresh, writer_sema_up, writer
<1>10. \/ Chip \/ Scan \/ rtw_dev_unload \/ Stopping
       \/ (\E s \in Stations : Sta(s)) \/ UNCHANGED vars
       => UNCHANGED <<wbuf, pending_xmitbuf_queue>>
    BY DEF Chip, chip_send, sd_int_dpc, fw_sleep, cpwm_int_hdl, Scan, scan_start,
           scan_end, rtw_os_xmit_schedule, rtw_dev_unload, Stopping, stop_writer,
           stop_up, stop_down, stop_done, Sta, rtw_free_stainfo,
           rtw_alloc_stainfo, free_xmitframe_queues, vars, writer
<1> QED BY <1>3, <1>4, <1>5, <1>6, <1>7, <1>8, <1>9, <1>10
        DEF Next, Aggregator, Writer

\* The stations are gone before the driver is stopped, and none comes back.
LEMMA StopStep == ASSUME StopInv, [Next]_vars PROVE StopInv'
<1>1. CASE \E s \in Stations : Sta(s)
    BY <1>1 DEF Sta, rtw_free_stainfo, free_xmitframe_queues, rtw_alloc_stainfo,
                bDriverStopped, StopInv
<1>2. CASE rtw_dev_unload \/ Stopping
    BY <1>2 DEF rtw_dev_unload, Stopping, stop_writer, stop_up, stop_down,
                stop_done, frames, StopInv
<1>3. CASE Stack \/ mgnt_xmit \/ Aggregator \/ Writer
  <2>1. UNCHANGED <<linked, spc>>
      BY <1>3
      DEF Stack, xmit_entry, hal_xmit, mgnt_xmit, Aggregator, agg_wait, agg_next,
          agg_ac, agg_full, agg_alloc, agg_coalesce, agg_station_done,
          agg_sema_down, agg_flush, agg_return, agg_unavail, Writer,
          writer_wait, writer_select, writer_pages, writer_refresh, writer_oqt,
          writer_write, writer_sema_up, frames
  <2> QED BY <2>1 DEF StopInv
<1>4. CASE Chip \/ Scan \/ UNCHANGED vars
  <2>1. UNCHANGED <<linked, spc>>
      BY <1>4 DEF Chip, chip_send, sd_int_dpc, fw_sleep, cpwm_int_hdl, Scan,
                  scan_start, scan_end, rtw_os_xmit_schedule, vars, frames
  <2> QED BY <2>1 DEF StopInv
<1> QED BY <1>1, <1>2, <1>3, <1>4 DEF Next

\* Every step keeps every flow in order.
LEMMA OrderStep ==
    ASSUME FlowInv, FlowInv', CargoInv, FrameInv, SentInv, PlainInv, StopInv,
           OrderInv, [Next]_vars
    PROVE  OrderInv'
<1>1. CASE mgnt_xmit
  <2>1. /\ UNCHANGED <<sta_pending, abuf, wbuf, sent, npkt, nfree>>
        /\ pending_xmitbuf_queue' = Append(pending_xmitbuf_queue, Mgnt)
      BY <1>1 DEF mgnt_xmit, frames, aggr, writer
  <2>2. /\ wbuf \in Bufs /\ abuf \in Bufs /\ pending_xmitbuf_queue \in Seq(Bufs)
        /\ Mgnt \in Bufs /\ Mgnt.pkts = <<>>
      BY BufTypes DEF FlowInv, FlowTypes, Mgnt
  <2>3. Alike(lane, lane')
      BY <2>1, <2>2, LaneHere, LaneMgnt
  <2> QED BY <2>1, <2>3, OrderAlike
<1>2. CASE \/ (\E ac \in AcSet, s \in Stations : xmit_entry(ac, s))
           \/ agg_wait \/ agg_next \/ agg_ac \/ agg_station_done
           \/ agg_sema_down \/ agg_return \/ agg_unavail
  <2>1. /\ UNCHANGED <<wbuf, pending_xmitbuf_queue, abuf>>
        /\ UNCHANGED <<sta_pending, sent, npkt, nfree>>
      BY <1>2 DEF xmit_entry, agg_wait, agg_next, agg_ac, agg_station_done,
                  agg_sema_down, agg_return, agg_unavail, frames, aggr, writer,
                  bounds
  <2> QED BY <2>1, OrderSame
<1>3. CASE \/ Chip \/ Scan \/ rtw_dev_unload \/ Stopping
           \/ (\E s \in Stations : rtw_alloc_stainfo(s)) \/ UNCHANGED vars
  <2>1. /\ UNCHANGED <<wbuf, pending_xmitbuf_queue, abuf>>
        /\ UNCHANGED <<sta_pending, sent, npkt, nfree>>
      BY <1>3 DEF Chip, chip_send, sd_int_dpc, fw_sleep, cpwm_int_hdl, Scan,
                  scan_start, scan_end, rtw_os_xmit_schedule, rtw_dev_unload,
                  Stopping, stop_writer, stop_up, stop_down, stop_done,
                  rtw_alloc_stainfo, vars, frames, aggr, writer, bounds
  <2> QED BY <2>1, OrderSame
<1> QED BY <1>1, <1>2, <1>3, OrderStack, OrderHandOver, OrderCoalesce, OrderSta,
           OrderWriter
        DEF Next, Stack, Aggregator, Sta

\* At first there is nothing to be in order.
LEMMA OrderInit == ASSUME Init PROVE PlainInv /\ StopInv /\ OrderInv
<1>1. /\ wbuf = NoBuf /\ abuf = NoBuf /\ pending_xmitbuf_queue = <<>>
      /\ spc = "up" /\ NoBuf.pkts = <<>> /\ NoBuf \in Bufs
    BY BufTypes DEF Init, NoBuf
<1>2. PlainInv /\ StopInv
    BY <1>1 DEF PlainInv, StopInv
<1>3. SUFFICES ASSUME NEW c \in AcSet, NEW u \in Stations PROVE FlowAt(c, u)
    BY <1>2 DEF OrderInv
<1>4. sta_pending[c][u] = <<>> /\ sent[c][u] = 0 /\ npkt[c][u] = 0
    BY DEF Init
<1>5. \A i, k : ~at(lane, i, k, c, u)
  <2>0. <<>> \in Seq(Bufs) /\ lane = Lane(NoBuf, <<>>, NoBuf)
      BY <1>1, LaneHere
  <2>1. IsLane(Lane(NoBuf, <<>>, NoBuf), NoBuf, <<>>, NoBuf)
      BY <1>1, <2>0, LaneParts
  <2>2. DOMAIN lane = 1 .. 2 /\ lane[1] = NoBuf /\ lane[2] = NoBuf
      BY <2>0, <2>1 DEF IsLane
  <2>3. \A i \in DOMAIN lane : lane[i].pkts = <<>>
      BY <1>1, <2>2
  <2> QED BY <2>3 DEF at
<1>6. nums(lane, c, u) = {} /\ sorted(lane, c, u)
    BY <1>5, NumAt DEF sorted
<1>7. Range(<<>>) = {} /\ rising(<<>>)
    BY DEF Range, rising
<1>8. Ordered(lane, <<>>, 0, 0, c, u) /\ Whole(lane, <<>>, 0, 0, c, u)
    BY <1>6, <1>7 DEF Ordered, Whole
<1> QED BY <1>4, <1>8 DEF FlowAt

\* What the specification says of a flow.
LEMMA OrderMeans == ASSUME OrderInv PROVE InOrder
<1>1. SUFFICES ASSUME NEW ac \in AcSet, NEW s \in Stations
      PROVE  LET copied  == places(lane, ac, s)
                 waiting == sta_pending[ac][s]
                 unsent  == {number(lane, p) : p \in copied} \cup Range(waiting)
             IN
             /\ \A p, q \in copied :
                   ahead(p, q) => number(lane, p) < number(lane, q)
             /\ \A p \in copied, n \in Range(waiting) : number(lane, p) < n
             /\ \A i, j \in DOMAIN waiting : i < j => waiting[i] < waiting[j]
             /\ \A n \in unsent : sent[ac][s] < n
             /\ nfree = 0 => unsent = sent[ac][s] + 1 .. npkt[ac][s]
    BY DEF InOrder
<1> DEFINE copied  == places(lane, ac, s)
           waiting == sta_pending[ac][s]
           unsent  == {number(lane, p) : p \in copied} \cup Range(waiting)
<1>2. /\ Ordered(lane, waiting, sent[ac][s], npkt[ac][s], ac, s)
      /\ nfree = 0 => Whole(lane, waiting, sent[ac][s], npkt[ac][s], ac, s)
    BY DEF OrderInv, FlowAt
<1>3. ASSUME NEW p \in copied
      PROVE  /\ at(lane, p[1], p[2], ac, s)
             /\ number(lane, p) = num(lane, p[1], p[2])
  <2>1. PICK i \in DOMAIN lane : p \in {i} \X DOMAIN lane[i].pkts
      BY <1>3 DEF places
  <2>2. p[1] = i /\ p[2] \in DOMAIN lane[i].pkts
      BY <2>1
  <2>3. lane[p[1]].ac = ac /\ lane[p[1]].pkts[p[2]][1] = s
      BY <1>3 DEF places
  <2> QED BY <2>2, <2>3 DEF at, num, number
<1>4. ASSUME NEW i, NEW k, at(lane, i, k, ac, s)
      PROVE  <<i, k>> \in copied /\ number(lane, <<i, k>>) = num(lane, i, k)
  <2>1. /\ i \in DOMAIN lane /\ k \in DOMAIN lane[i].pkts
        /\ lane[i].ac = ac /\ lane[i].pkts[k][1] = s
      BY <1>4 DEF at
  <2>2. <<i, k>> \in {i} \X DOMAIN lane[i].pkts
      BY <2>1
  <2>3. <<i, k>> \in UNION {{j} \X DOMAIN lane[j].pkts : j \in DOMAIN lane}
      BY <2>1, <2>2
  <2> QED BY <2>1, <2>3 DEF places, number, num
<1> HIDE DEF copied
<1>5. {number(lane, p) : p \in copied} = nums(lane, ac, s)
  <2>1. ASSUME NEW p \in copied PROVE number(lane, p) \in nums(lane, ac, s)
      BY <1>3, NumAt
  <2>2. ASSUME NEW x \in nums(lane, ac, s)
        PROVE  \E p \in copied : x = number(lane, p)
    <3>1. PICK i, k : at(lane, i, k, ac, s) /\ x = num(lane, i, k)
        BY NumAt
    <3> QED BY <1>4, <3>1
  <2> QED BY <2>1, <2>2
<1>6. \A p, q \in copied : ahead(p, q) => number(lane, p) < number(lane, q)
  <2>1. SUFFICES ASSUME NEW p \in copied, NEW q \in copied, ahead(p, q)
                 PROVE  number(lane, p) < number(lane, q)
      OBVIOUS
  <2>2. /\ at(lane, p[1], p[2], ac, s) /\ number(lane, p) = num(lane, p[1], p[2])
        /\ at(lane, q[1], q[2], ac, s) /\ number(lane, q) = num(lane, q[1], q[2])
      BY <1>3
  <2>3. p[1] < q[1] \/ (p[1] = q[1] /\ p[2] < q[2])
      BY <2>1 DEF ahead
  <2>4. sorted(lane, ac, s)
      BY <1>2 DEF Ordered
  <2> QED BY <2>2, <2>3, <2>4 DEF sorted
<1>7. \A p \in copied, n \in Range(waiting) : number(lane, p) < n
  <2>1. \A p \in copied : number(lane, p) \in nums(lane, ac, s)
      BY <1>5
  <2> QED BY <1>2, <2>1 DEF Ordered
<1>8. unsent = nums(lane, ac, s) \cup Range(waiting)
    BY <1>5
<1>9. /\ \A i, j \in DOMAIN waiting : i < j => waiting[i] < waiting[j]
      /\ \A n \in unsent : sent[ac][s] < n
      /\ nfree = 0 => unsent = sent[ac][s] + 1 .. npkt[ac][s]
  <2> HIDE DEF unsent, waiting
  <2> QED BY <1>2, <1>8 DEF Ordered, Whole, rising
<1> HIDE DEF unsent, waiting
<1> QED BY <1>6, <1>7, <1>9 DEF copied, unsent, waiting

\* For any number of stations, categories, buffers and pages: the packets of a
\* station and category are written in the order xmit_xmitframes took them,
\* whatever rtw_hal_sdio_query_tx_freepage sends back to the head of the queue
\* and whatever management frame overtakes them, and while no station is freed
\* the driver skips and repeats none.
THEOREM PacketsInOrder == Spec => []InOrder
<1>1. Init => PlainInv /\ StopInv /\ OrderInv
    BY OrderInit
<1>2. /\ FlowInv /\ FlowInv' /\ PathInv
      /\ PlainInv /\ StopInv /\ OrderInv /\ [Next]_vars
      => PlainInv' /\ StopInv' /\ OrderInv'
    BY PlainStep, StopStep, OrderStep DEF PathInv
<1>3. OrderInv => InOrder
    BY OrderMeans
<1> QED BY <1>1, <1>2, <1>3, FlowAlways, PathAlways, PTL DEF Spec
=============================================================================
