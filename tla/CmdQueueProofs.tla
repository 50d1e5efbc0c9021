--------------------------- MODULE CmdQueueProofs ---------------------------
(***************************************************************************)
(* The command thread implements CmdQueue, for any set of clients and any  *)
(* bounds: initial states map to initial states, and every step maps to a  *)
(* step of the abstract queue or to a stutter.  The simulation needs the   *)
(* inductive invariant of CmdThreadProofs: post_process answers the right  *)
(* caller because a pointer to a submit_ctx is set only while its client   *)
(* waits, and rtw_free_cmd_obj is an abstract Finish because it comes      *)
(* after the pointer was cleared.                                          *)
(***************************************************************************)
EXTENDS CmdThreadProofs

\* The refinement mapping of Q, by name.
Pending  == InHand \o queue
Phase    == [k \in Clients |-> CASE cpc[k] = "idle" -> "out"
                                 [] cpc[k] = "enqueue" -> "asking"
                                 [] OTHER -> "in"]
Answered == [k \in Clients |-> status[k] = "done"]

\* What the abstract queue sees of a state.
View == <<n, Pending, finished, Phase, cur, waits, Answered>>

\* A context is initialised before its client is anywhere in the call.
CalledInv == \A k \in Clients : cpc[k] # "idle" => status[k] # "none"

\* A step that changes none of it is a stutter.
LEMMA Stutter == ASSUME UNCHANGED View PROVE UNCHANGED Q!vars
BY DEF View, Pending, Phase, Answered, Q!vars, Q!calls

\* Most steps of the thread and all of the interface, of the handshake and of
\* a client's wait touch nothing the abstract queue sees.
LEMMA UnseenStep ==
    ASSUME UNCHANGED <<n, pcmd, queue, finished, cpc, cur, waits, status>>
    PROVE  UNCHANGED Q!vars
<1>1. UNCHANGED <<Pending, Phase, Answered>>
    BY DEF Pending, InHand, Phase, Answered
<1> QED BY <1>1, Stutter DEF View

\* Taking the head of the queue into the hand, or putting it back, leaves the
\* pending commands as they were.
LEMMA MoveStep ==
    ASSUME IInv, Dequeue \/ Drain \/ Requeue
    PROVE  UNCHANGED Q!vars
<1> USE CmdThreadAssumption DEF CmdThreadAssumption, Cmds
<1>0. queue \in Seq(Nat) /\ pcmd \in Nat
    BY DEF IInv, TypeOK
<1>1. UNCHANGED <<n, finished, cpc, cur, waits, status>>
    BY DEF Dequeue, Drain, Requeue, hist, rest, client
<1>2. UNCHANGED <<Phase, Answered>>
    BY <1>1 DEF Phase, Answered
<1>3. CASE UNCHANGED <<pcmd, queue>>
    BY <1>1, <1>3, UnseenStep
<1>4. CASE pcmd = 0 /\ queue # <<>> /\ pcmd' = Head(queue) /\ queue' = Tail(queue)
    <2>1. Head(queue) # 0
        BY <1>4 DEF IInv, TypeOK
    <2>2. Pending = <<>> \o queue /\ Pending' = <<Head(queue)>> \o Tail(queue)
        BY <1>4, <2>1 DEF Pending, InHand
    <2>3. <<>> \o queue = queue /\ <<Head(queue)>> \o Tail(queue) = queue
        BY <1>0, <1>4
    <2> QED BY <1>1, <1>2, <2>2, <2>3, Stutter DEF View
<1>5. CASE pcmd # 0 /\ pcmd' = 0 /\ queue' = <<pcmd>> \o queue
    <2>1. Pending = <<pcmd>> \o queue /\ Pending' = <<>> \o (<<pcmd>> \o queue)
        BY <1>5 DEF Pending, InHand
    <2>2. <<>> \o (<<pcmd>> \o queue) = <<pcmd>> \o queue
        BY <1>0
    <2> QED BY <1>1, <1>2, <2>1, <2>2, Stutter DEF View
<1>6. Requeue => pcmd # 0 /\ pcmd' = 0 /\ queue' = <<pcmd>> \o queue
    BY DEF Requeue, IInv, HandInv, Hand
<1>7. Dequeue \/ Drain =>
        \/ UNCHANGED <<pcmd, queue>>
        \/ pcmd = 0 /\ queue # <<>> /\ pcmd' = Head(queue) /\ queue' = Tail(queue)
    BY DEF Dequeue, Drain, IInv, HandInv, Hand
<1> QED BY <1>3, <1>4, <1>5, <1>6, <1>7

\* A submission is a call or a rejection.
LEMMA SubmitMaps ==
    ASSUME IInv, NEW k \in Clients, NEW needsIo \in BOOLEAN,
           NEW wait \in BOOLEAN, Submit(k, needsIo, wait)
    PROVE  Q!Reject(k) \/ Q!Call(k, wait)
<1>1. /\ Phase[k] = "out" /\ n' = n + 1 /\ UNCHANGED <<finished, Pending>>
    BY DEF Submit, Phase, Pending, InHand, hist, thread
<1>2. CASE rtw_cmd_filter(needsIo)
    <2>1. /\ cpc' = [cpc EXCEPT ![k] = "enqueue"]
          /\ cur' = [cur EXCEPT ![k] = n']
          /\ waits' = [waits EXCEPT ![k] = wait]
          /\ status' = [status EXCEPT ![k] = "submitted"]
        BY <1>2 DEF Submit
    <2>2. Phase' = [Phase EXCEPT ![k] = "asking"]
        BY <2>1 DEF Phase, IInv, TypeOK
    <2>3. Answered' = [Answered EXCEPT ![k] = FALSE]
        BY <2>1 DEF Answered, IInv, TypeOK
    <2>4. Q!Call(k, wait)
        BY <1>1, <2>1, <2>2, <2>3 DEF Q!Call, Phase, Answered, Pending
    <2> QED BY <2>4
<1>3. CASE ~rtw_cmd_filter(needsIo)
    <2>1. UNCHANGED <<cpc, cur, waits, status>>
        BY <1>3 DEF Submit, client
    <2>2. UNCHANGED <<Phase, Answered>>
        BY <2>1 DEF Phase, Answered
    <2>3. Q!Reject(k)
        BY <1>1, <2>1, <2>2 DEF Q!Reject, Q!calls, Phase, Answered, Pending
    <2> QED BY <2>3
<1> QED BY <1>2, <1>3

\* _rtw_enqueue_cmd accepts the command.
LEMMA EnqueueMaps ==
    ASSUME IInv, NEW k \in Clients, _rtw_enqueue_cmd(k)
    PROVE  Q!Accept(k)
<1> USE CmdThreadAssumption DEF CmdThreadAssumption, Cmds
<1>1. /\ cpc[k] = "enqueue" /\ cpc' = [cpc EXCEPT ![k] = "up"]
      /\ queue' = Append(queue, cur[k])
      /\ UNCHANGED <<n, pcmd, finished, cur, waits, status>>
    BY DEF _rtw_enqueue_cmd, thread
<1>2. Phase[k] = "asking" /\ Phase' = [Phase EXCEPT ![k] = "in"]
    BY <1>1 DEF Phase, IInv, TypeOK
<1>3. queue \in Seq(Nat) /\ InHand \in Seq(Nat) /\ cur[k] \in Nat
    BY DEF IInv, TypeOK, InHand
<1>4. Pending' = Append(Pending, cur[k])
    BY <1>1, <1>3, AppendConcat DEF Pending, InHand
<1>5. Answered' = Answered
    BY <1>1 DEF Answered
<1> QED BY <1>1, <1>2, <1>4, <1>5 DEF Q!Accept, Phase, Pending, Answered

\* A caller that does not wait returns after the up, one that waits after it
\* has looked at its context; anything in between is invisible.
LEMMA ReturnMaps ==
    ASSUME IInv, NEW k \in Clients, UpSema(k) \/ rtw_sctx_wait(k) \/ ClearSctx(k)
    PROVE  Q!Return(k) \/ UNCHANGED Q!vars
<1>1. /\ UNCHANGED <<n, pcmd, queue, finished, cur, waits, status>>
      /\ cpc[k] \in {"up", "wait", "check"}
      /\ \E x \in {"wait", "check", "idle"} : cpc' = [cpc EXCEPT ![k] = x]
    BY DEF UpSema, rtw_sctx_wait, ClearSctx, thread, hist, cmdobj
<1>2. UNCHANGED <<Pending, Answered>>
    BY <1>1 DEF Pending, InHand, Answered
<1>3. CASE cpc' = [cpc EXCEPT ![k] = "idle"]
    <2>1. Phase[k] = "in" /\ Phase' = [Phase EXCEPT ![k] = "out"]
        BY <1>1, <1>3 DEF Phase, IInv, TypeOK
    <2>2. Q!Return(k)
        BY <1>1, <1>2, <2>1 DEF Q!Return, Phase, Pending, Answered
    <2> QED BY <2>2
<1>4. CASE cpc' = [cpc EXCEPT ![k] = "wait"] \/ cpc' = [cpc EXCEPT ![k] = "check"]
    <2>1. Phase' = Phase
        BY <1>1, <1>4 DEF Phase, IInv, TypeOK
    <2> QED BY <1>1, <1>2, <2>1, Stutter DEF View
<1> QED BY <1>1, <1>3, <1>4

\* The command in hand is the oldest pending one.
LEMMA HandIsHead ==
    ASSUME IInv, tpc \in Hand
    PROVE  /\ Pending # <<>> /\ Head(Pending) = pcmd /\ Tail(Pending) = queue
           /\ pcmd \in Cmds
<1> USE CmdThreadAssumption DEF CmdThreadAssumption, Cmds
<1>1. pcmd \in Cmds /\ pcmd \in Nat /\ queue \in Seq(Nat)
    BY DEF IInv, TypeOK, HandInv
<1>2. Pending = <<pcmd>> \o queue
    BY <1>1 DEF Pending, InHand
<1> QED BY <1>1, <1>2

\* post_process answers the client the command points at, which waits for
\* this command and no other and has no answer yet.
LEMMA PostMaps ==
    ASSUME IInv, Post
    PROVE  (\E k \in Clients : Q!Answer(k)) \/ UNCHANGED Q!vars
<1> USE CmdThreadAssumption DEF CmdThreadAssumption
<1>1. /\ tpc = "post" /\ UNCHANGED <<n, pcmd, queue, finished, cpc, cur, waits>>
    BY DEF Post, hist, cmdobj
<1>2. Pending # <<>> /\ Head(Pending) = pcmd /\ pcmd \in Cmds
    BY <1>1, HandIsHead DEF Hand
<1>3. UNCHANGED <<Pending, Phase>>
    BY <1>1 DEF Pending, InHand, Phase
<1>4. CASE ~sctx[pcmd]
    BY <1>1, <1>4, UnseenStep DEF Post
<1>5. CASE sctx[pcmd]
    <2>0. PICK k \in Clients : k = owner[pcmd]
        BY <1>2, <1>5 DEF IInv, SctxInv
    <2>1. /\ cpc[k] # "idle" /\ cur[k] = pcmd /\ waits[k]
          /\ status[k] = "submitted"
        BY <1>1, <1>2, <1>5, <2>0 DEF IInv, SctxInv
    <2>2. status' = [status EXCEPT ![k] = "done"]
        BY <1>5, <2>0 DEF Post
    <2>3. Answered' = [Answered EXCEPT ![k] = TRUE] /\ ~Answered[k]
        BY <2>1, <2>2 DEF Answered, IInv, TypeOK
    <2>4. Phase[k] # "out"
        BY <2>1 DEF Phase
    <2>5. Q!WaitsFor(k, Head(Pending))
        BY <1>2, <2>1, <2>3, <2>4 DEF Q!WaitsFor, Phase, Answered
    <2>6. Q!Answer(k)
        BY <1>1, <1>2, <1>3, <2>3, <2>5 DEF Q!Answer, Phase, Answered, Pending
    <2> QED BY <2>6
<1> QED BY <1>4, <1>5

\* rtw_free_cmd_obj finishes the oldest command, for which nobody waits any
\* longer: a client that waited has its answer or has cleared the pointer.
LEMMA FreeMaps == ASSUME IInv, CalledInv, rtw_free_cmd_obj PROVE Q!Finish
<1> USE CmdThreadAssumption DEF CmdThreadAssumption
<1>1. /\ tpc = "free" /\ pcmd' = 0 /\ finished' = Append(finished, pcmd)
      /\ UNCHANGED <<n, queue, cpc, cur, waits, status>>
    BY DEF rtw_free_cmd_obj, rest, client
<1>2. /\ Pending # <<>> /\ Head(Pending) = pcmd /\ Tail(Pending) = queue
      /\ pcmd \in Cmds
    BY <1>1, HandIsHead DEF Hand
<1>3. Pending' = queue
    <2>1. Pending' = <<>> \o queue
        BY <1>1 DEF Pending, InHand
    <2> QED BY <2>1 DEF IInv, TypeOK
<1>4. UNCHANGED <<Phase, Answered>>
    BY <1>1 DEF Phase, Answered
<1>5. ~sctx[pcmd]
    BY <1>1 DEF IInv, SctxInv
<1>6. ASSUME NEW k \in Clients PROVE ~Q!WaitsFor(k, Head(Pending))
    <2> SUFFICES ASSUME Phase[k] # "out", cur[k] = pcmd, waits[k], ~Answered[k]
                 PROVE  FALSE
        BY <1>2 DEF Q!WaitsFor, Phase, Answered
    <2>1. cpc[k] # "idle" /\ status[k] # "done"
        BY DEF Phase, Answered
    <2>2. status[k] # "submitted"
        BY <1>5, <2>1 DEF IInv, ClientInv
    <2>3. status[k] \in {"none", "submitted", "done"}
        BY DEF IInv, TypeOK
    <2> QED BY <2>1, <2>2, <2>3 DEF CalledInv
<1> QED BY <1>1, <1>2, <1>3, <1>4, <1>6
        DEF Q!Finish, Q!calls, Phase, Answered, Pending

\* Every step of the driver is a step of the abstract queue or a stutter.
LEMMA QueueStep ==
    ASSUME IInv, CalledInv, [Next]_vars
    PROVE  [Q!Next]_(Q!vars)
<1>1. ASSUME NEW k \in Clients, NEW needsIo \in BOOLEAN, NEW wait \in BOOLEAN,
             Submit(k, needsIo, wait)
      PROVE  Q!Next
    BY <1>1, SubmitMaps DEF Q!Next
<1>2. ASSUME NEW k \in Clients, _rtw_enqueue_cmd(k)
      PROVE  Q!Next
    BY <1>2, EnqueueMaps DEF Q!Next
<1>3. ASSUME NEW k \in Clients, UpSema(k) \/ rtw_sctx_wait(k) \/ ClearSctx(k)
      PROVE  Q!Next \/ UNCHANGED Q!vars
    BY <1>3, ReturnMaps DEF Q!Next
<1>4. Post => Q!Next \/ UNCHANGED Q!vars
    BY PostMaps DEF Q!Next
<1>5. rtw_free_cmd_obj => Q!Next
    BY FreeMaps DEF Q!Next
<1>6. Dequeue \/ Drain \/ Requeue => UNCHANGED Q!vars
    BY MoveStep
<1>7. \/ DownSema \/ Interrupted \/ Peek \/ WentEmpty \/ Filter \/ Alive
      \/ Execute \/ NullSctx \/ Leave \/ ClearRunning \/ Interface
      => UNCHANGED Q!vars
    <2>1. \/ DownSema \/ Interrupted \/ Peek \/ WentEmpty \/ Filter \/ Alive
          \/ Execute \/ NullSctx \/ Leave \/ ClearRunning
          => UNCHANGED <<n, pcmd, queue, finished, cpc, cur, waits, status>>
        BY DEF DownSema, Interrupted, Peek, WentEmpty, Filter, Alive, Execute,
               NullSctx, Leave, ClearRunning, cmdobj, rest, client, hist
    <2>2. Interface
          => UNCHANGED <<n, pcmd, queue, finished, cpc, cur, waits, status>>
        BY DEF Interface, StopDriver, rtw_stop_cmd_thread, ThreadStopped,
               rtw_start_drv_threads, IpsDown, IpsUp, cmdobj, thread, client,
               hist
    <2> QED BY <2>1, <2>2, UnseenStep
<1>8. \/ PwrNext /\ UNCHANGED <<cmdobj, queue, thread, client, intf, hist>>
      \/ UNCHANGED vars
      => UNCHANGED Q!vars
    BY UnseenStep DEF vars, cmdobj, thread, client, hist
<1> QED BY <1>1, <1>2, <1>3, <1>4, <1>5, <1>6, <1>7, <1>8
        DEF Next, Thread, ClientStep

\* Only Submit, the end of a call and post_process touch what CalledInv is
\* about.
LEMMA CalledStep == ASSUME TypeOK, CalledInv, [Next]_vars PROVE CalledInv'
<1>1. ASSUME NEW k \in Clients, NEW needsIo \in BOOLEAN, NEW wait \in BOOLEAN,
             Submit(k, needsIo, wait)
      PROVE  CalledInv'
    <2>1. CASE UNCHANGED client
        BY <2>1 DEF CalledInv, client
    <2>2. CASE /\ cpc' = [cpc EXCEPT ![k] = "enqueue"]
               /\ status' = [status EXCEPT ![k] = "submitted"]
        BY <2>2 DEF CalledInv, TypeOK
    <2> QED BY <1>1, <2>1, <2>2 DEF Submit
<1>2. ASSUME NEW k \in Clients, ClientStep(k)
      PROVE  CalledInv'
    <2>1. status' = status /\ cpc[k] # "idle"
        BY <1>2 DEF ClientStep, _rtw_enqueue_cmd, UpSema, rtw_sctx_wait,
                    ClearSctx
    <2>2. \A j \in Clients : j # k => cpc'[j] = cpc[j]
        BY <1>2 DEF ClientStep, _rtw_enqueue_cmd, UpSema, rtw_sctx_wait,
                    ClearSctx, TypeOK
    <2> QED BY <2>1, <2>2 DEF CalledInv
<1>3. CASE Post
    <2>1. UNCHANGED cpc /\ \A k \in Clients : status'[k] \in {status[k], "done"}
        BY <1>3 DEF Post, TypeOK
    <2> QED BY <2>1 DEF CalledInv
<1>4. (Thread /\ ~Post) \/ Interrupted => UNCHANGED <<cpc, status>>
    BY DEF Thread, DownSema, Interrupted, Peek, Dequeue, WentEmpty, Filter,
           Alive, Requeue, Execute, NullSctx, rtw_free_cmd_obj, Leave,
           ClearRunning, Drain, rest, client
<1>5. Interface => UNCHANGED <<cpc, status>>
    BY DEF Interface, StopDriver, rtw_stop_cmd_thread, ThreadStopped,
           rtw_start_drv_threads, IpsDown, IpsUp, client
<1>6. \/ PwrNext /\ UNCHANGED <<cmdobj, queue, thread, client, intf, hist>>
      \/ UNCHANGED vars
      => UNCHANGED <<cpc, status>>
    BY DEF vars, client
<1>7. UNCHANGED <<cpc, status>> => CalledInv'
    BY DEF CalledInv
<1> QED BY <1>1, <1>2, <1>3, <1>4, <1>5, <1>6, <1>7 DEF Next

\* rtw_cmd_thread, its clients and the interface together implement the
\* abstract command queue, for any number of clients, commands and restarts:
\* order, at most one answer per call and only to the caller still in it, and
\* no command freed under a caller that waits.
THEOREM Implements == Spec => ImplementsQueue
<1>1. Init => CalledInv
    BY DEF Init, CalledInv
<1>2. Spec => []CalledInv
    <2>1. IInv /\ CalledInv /\ [Next]_vars => CalledInv'
        BY CalledStep DEF IInv
    <2> QED BY <1>1, <2>1, Inductive, PTL DEF Spec
<1>3. Init => Q!Init
    <2> SUFFICES ASSUME Init PROVE Q!Init
        OBVIOUS
    <2>1. /\ n = 0 /\ Pending = <<>> /\ finished = <<>>
          /\ cur = [k \in Clients |-> 0] /\ waits = [k \in Clients |-> FALSE]
        BY DEF Init, Pending, InHand
    <2>2. Phase = [k \in Clients |-> "out"] /\ Answered = [k \in Clients |-> FALSE]
        BY DEF Init, Phase, Answered
    <2> QED BY <2>1, <2>2 DEF Q!Init, Pending, Phase, Answered
<1>4. IInv /\ CalledInv /\ [Next]_vars => [Q!Next]_(Q!vars)
    BY QueueStep
<1> QED BY <1>2, <1>3, <1>4, Inductive, PTL DEF Spec, ImplementsQueue, Q!Spec
=============================================================================
