--------------------------- MODULE StaMlmeProofs ---------------------------
(***************************************************************************)
(* Proofs about joining and leaving a network, for any retry limits, any   *)
(* roaming budget and any number of calls, frames and losses.              *)
(*                                                                         *)
(* LinkingGuarded needs LockInv: the one place that stops assoc_timer      *)
(* without an attempt having ended does so under the lock, after the       *)
(* attempt was declared a success.  BeliefBacked needs that a roaming      *)
(* cfg80211 was not told of always has somebody who will end it (RoamInv). *)
(* Both speak of runs in which nobody has interfered with the unlocked     *)
(* rtw_indicate_disconnect of the user thread; what the thread has loaded  *)
(* and told in such a run stays true until it uses it (ClearInv).          *)
(***************************************************************************)
EXTENDS StaMlme, SequenceTheorems, TLAPS

SetTypes ==
  /\ fw \in SUBSET Flags
  /\ loaded \in SUBSET Flags
  /\ state \in SUBSET Bits

FlagTypes ==
  /\ to_join \in BOOLEAN
  /\ scanned \in BOOLEAN
  /\ cur \in BOOLEAN
  /\ sta \in BOOLEAN
  /\ connect_req \in BOOLEAN
  /\ join_abort \in BOOLEAN
  /\ link \in BOOLEAN
  /\ assoc \in BOOLEAN
  /\ scan \in BOOLEAN
  /\ not_indic_disco \in BOOLEAN

NameTypes ==
  /\ told \in {"up", "down", "error"}
  /\ hw \in {"off", "joining", "on"}
  /\ lh \in {"idle", "fail", "enqueue"}
  /\ ah \in {"idle", "lock", "roam", "try"}
  /\ lock \in {"none", "rx", "assoc"}
  /\ rx \in {"idle", "auth", "assoc", "accept", "reject", "ok", "fail",
             "indicate", "cancel", "enqueue_ok", "enqueue_fail", "drop_fail",
             "drop_enqueue", "drop_clear"}
  /\ cmd \in {"idle", "stadel", "stadel_roam", "surveydone"}
  /\ user \in {"idle", "abort", "wait", "disc", "disc_ack", "free", "free_ack",
               "indicate", "indicate2", "silent", "leave", "leave2", "ask",
               "tell", "drop", "drop2", "abort2", "wait2", "connect", "request"}
  /\ goal \in {"connect", "disconnect"}

CountTypes ==
  /\ reauth_count \in 0 .. ReauthLimit + 1
  /\ reassoc_count \in 0 .. ReassocLimit + 1
  /\ connects \in 0 .. MaxConnect
  /\ disconnects \in 0 .. MaxDisconnect
  /\ drops \in 0 .. MaxDrop

\* What the steps that run rtw_do_join rely on.
Types == /\ SetTypes
         /\ FlagTypes
         /\ NameTypes
         /\ to_roam \in 0 .. 255
         /\ queue \in Seq(Ops)
         /\ crossed \in BOOLEAN

-----------------------------------------------------------------------------
(* What rtw_do_join comes to                                               *)

\* An attempt is started from the flags f.
Started(f, roam) ==
  /\ fw' = (f \ {"linked"}) \cup {"linking"}
  /\ to_join' = FALSE
  /\ assoc' = TRUE
  /\ queue' \in Seq(Ops)
  /\ rtw_cfg80211_indicate_disconnect(~ ("linked" \in f /\ roam = 0))

\* A survey is to come first.
Surveying(f) ==
  /\ fw' = (f \ {"linking"}) \cup {"survey"}
  /\ to_join' = TRUE
  /\ queue' = Append(queue, "survey")
  /\ UNCHANGED <<assoc, connect_req, told>>

\* Neither is possible.
GivenUp(f) ==
  /\ fw' = f \ {"linking"}
  /\ to_join' = FALSE
  /\ UNCHANGED <<queue, assoc, connect_req, told>>

\* The three outcomes of rtw_do_join.
Joins(j, f, roam) ==
  /\ j.ok = TRUE /\ j.timer = TRUE /\ j.to_join = FALSE
  /\ j.fw = (f \ {"linked"}) \cup {"linking"}
  /\ j.left = ("linked" \in f /\ roam = 0)

Scans(j, f) ==
  /\ j.ok = TRUE /\ j.timer = FALSE /\ j.to_join = TRUE
  /\ j.fw = (f \ {"linking"}) \cup {"survey"}
  /\ j.left = FALSE /\ j.ops = <<"survey">>

Fails(j, f) ==
  /\ j.ok = FALSE /\ j.timer = FALSE /\ j.to_join = FALSE
  /\ j.fw = f \ {"linking"}
  /\ j.left = FALSE /\ j.ops = << >>

\* rtw_do_join has no other outcome.
LEMMA JoinOutcomes ==
  ASSUME NEW f, NEW s, NEW roam, NEW j \in rtw_do_join(f, s, roam)
  PROVE  /\ j.ops \in Seq(Ops)
         /\ Joins(j, f, roam) \/ Scans(j, f) \/ Fails(j, f)
<1>1. CASE j = JoinNow(f, roam)
  <2>1. /\ <<"disc", "free">> \in Seq(Ops)
        /\ << >> \in Seq(Ops)
        /\ <<"join">> \in Seq(Ops)
    BY DEF Ops
  <2>2. j.ops \in Seq(Ops)
    BY <1>1, <2>1 DEF JoinNow
  <2> QED BY <1>1, <2>2 DEF JoinNow, Joins
<1>2. CASE j = ScanFirst(f)
  <2>1. <<"survey">> \in Seq(Ops)
    BY DEF Ops
  <2> QED BY <1>2, <2>1 DEF ScanFirst, Scans
<1>3. CASE j = Refused(f)
  BY <1>3 DEF Refused, Fails
<1> QED BY <1>1, <1>2, <1>3 DEF rtw_do_join

\* Applying an outcome is one of the three effects.
LEMMA ApplyEffect ==
  ASSUME Types, NEW f \in SUBSET Flags, NEW s, NEW roam,
         NEW j \in rtw_do_join(f, s, roam), Apply(j)
  PROVE  \/ j.ok = TRUE /\ Started(f, roam)
         \/ j.ok = TRUE /\ Surveying(f)
         \/ j.ok = FALSE /\ GivenUp(f)
<1>1. CASE Joins(j, f, roam)
  <2>1. queue' = queue \o j.ops /\ j.ops \in Seq(Ops)
    BY JoinOutcomes DEF Apply
  <2>2. queue' \in Seq(Ops)
    BY <2>1 DEF Types
  <2>3. assoc' = TRUE
    BY <1>1 DEF Apply, Joins
  <2> QED BY <1>1, <2>2, <2>3 DEF Apply, Started, Joins
<1>2. CASE Scans(j, f)
  <2>1. queue' = Append(queue, "survey")
    BY <1>2 DEF Apply, Types, Ops, Scans
  <2>2. assoc' = assoc /\ connect_req' = connect_req /\ told' = told
    BY <1>2 DEF Apply, Types, FlagTypes, rtw_cfg80211_indicate_disconnect, Scans
  <2> QED BY <1>2, <2>1, <2>2 DEF Apply, Surveying, Scans
<1>3. CASE Fails(j, f)
  <2>1. queue' = queue
    BY <1>3 DEF Apply, Types, Fails
  <2>2. assoc' = assoc /\ connect_req' = connect_req /\ told' = told
    BY <1>3 DEF Apply, Types, FlagTypes, rtw_cfg80211_indicate_disconnect, Fails
  <2> QED BY <1>3, <2>1, <2>2 DEF Apply, GivenUp, Fails
<1>4. Joins(j, f, roam) \/ Scans(j, f) \/ Fails(j, f)
  BY JoinOutcomes
<1> QED BY <1>1, <1>2, <1>3, <1>4

\* rtw_set_802_11_connect leaves the join to others, starts it, or fails.
LEMMA ConnectEffect ==
  ASSUME Types, rtw_set_802_11_connect
  PROVE  \/ /\ user' = "request" /\ not_indic_disco' = not_indic_disco
            /\ to_join' = TRUE \/ to_join' = to_join
            /\ UNCHANGED <<fw, queue, assoc, connect_req, told>>
         \/ /\ user' = "request" /\ not_indic_disco' = not_indic_disco
            /\ Started(fw, to_roam) \/ Surveying(fw)
         \/ /\ user' = "idle" /\ told' = "error" /\ not_indic_disco' = FALSE
            /\ fw' = fw \ {"linking"}
            /\ to_join' = FALSE
            /\ UNCHANGED <<queue, assoc, connect_req>>
<1>1. CASE fw \cap {"survey", "linking"} = {}
  <2>1. PICK j \in rtw_do_join(fw, scanned, to_roam) :
          \/ j.ok /\ Apply(j) /\ user' = "request" /\ UNCHANGED not_indic_disco
          \/ /\ ~ j.ok /\ fw' = j.fw /\ to_join' = j.to_join /\ user' = "idle"
             /\ told' = "error" /\ not_indic_disco' = FALSE
             /\ UNCHANGED <<queue, assoc, connect_req>>
    BY <1>1 DEF rtw_set_802_11_connect
  <2>2. fw \in SUBSET Flags
    BY DEF Types, SetTypes
  <2>3. CASE j.ok /\ Apply(j) /\ user' = "request" /\ UNCHANGED not_indic_disco
    BY <2>2, <2>3, ApplyEffect
  <2>4. CASE /\ ~ j.ok /\ fw' = j.fw /\ to_join' = j.to_join /\ user' = "idle"
             /\ told' = "error" /\ not_indic_disco' = FALSE
             /\ UNCHANGED <<queue, assoc, connect_req>>
    <3>1. Joins(j, fw, to_roam) \/ Scans(j, fw) \/ Fails(j, fw)
      BY JoinOutcomes
    <3>2. j.fw = fw \ {"linking"} /\ j.to_join = FALSE
      BY <2>4, <3>1 DEF Joins, Scans, Fails
    <3> QED BY <2>4, <3>2
  <2> QED BY <2>1, <2>3, <2>4
<1>2. CASE fw \cap {"survey", "linking"} # {}
  BY <1>2 DEF rtw_set_802_11_connect
<1> QED BY <1>1, <1>2

\* The second half of rtw_surveydone_event_callback.
LEMMA SurveyDoneEffect ==
  ASSUME Types, rtw_surveydone_event_callback
  PROVE  \/ /\ ~ to_join
            /\ UNCHANGED <<fw, to_join, to_roam, scanned, sta, connect_req,
                           told, queue, assoc>>
         \/ /\ Started(fw, to_roam)
            /\ UNCHANGED <<to_roam, scanned, sta>>
         \/ /\ to_join' = FALSE
            /\ to_roam' = 0
            /\ rtw_indicate_disconnect(fw, 0)
            /\ scanned' \in BOOLEAN /\ sta' \in BOOLEAN
            /\ UNCHANGED <<queue, assoc>>
<1>1. CASE to_join /\ scanned
  <2>1. Apply(JoinNow(fw, to_roam)) /\ UNCHANGED <<to_roam, scanned, sta>>
    BY <1>1 DEF rtw_surveydone_event_callback
  <2>2. JoinNow(fw, to_roam) \in rtw_do_join(fw, TRUE, to_roam)
    BY DEF rtw_do_join
  <2>3. fw \in SUBSET Flags
    BY DEF Types, SetTypes
  <2>4. JoinNow(fw, to_roam).timer = TRUE
    BY DEF JoinNow
  <2>5. Started(fw, to_roam)
    <3> DEFINE j == JoinNow(fw, to_roam)
    <3>1. j.ops \in Seq(Ops)
      BY <2>2, JoinOutcomes
    <3>2. queue' \in Seq(Ops)
      BY <2>1, <3>1 DEF Apply, Types
    <3> QED BY <2>1, <3>2 DEF Apply, Started, JoinNow
  <2> QED BY <2>1, <2>5
<1>2. CASE ~ to_join
  BY <1>2 DEF rtw_surveydone_event_callback
<1>3. CASE to_join /\ ~ scanned
  <2>1. /\ to_join' = FALSE /\ to_roam' = 0
        /\ rtw_indicate_disconnect(fw, 0)
        /\ UNCHANGED <<queue, assoc>>
    BY <1>3 DEF rtw_surveydone_event_callback
  <2>2. scanned' \in BOOLEAN /\ sta' \in BOOLEAN
    BY <1>3
    DEF rtw_surveydone_event_callback, rtw_free_assoc_resources, Types, FlagTypes
  <2> QED BY <2>1, <2>2
<1> QED BY <1>1, <1>2, <1>3

\* One attempt less is still a u8.
LEMMA DecRoam ==
  ASSUME NEW r \in 0 .. 255
  PROVE  rtw_dec_to_roam(r) \in 0 .. 255
BY DEF rtw_dec_to_roam

\* rtw_stadel_event_callback says that the connection is gone, or roams with
\* what is left of the budget.
LEMMA StadelEffect ==
  ASSUME Types, rtw_stadel_event_callback
  PROVE  \/ /\ to_roam' = 0
            /\ to_join' \in BOOLEAN
            /\ rtw_indicate_disconnect(fw, 0)
            /\ UNCHANGED <<queue, assoc>>
         \/ /\ to_roam' \in 1 .. 255
            /\ \/ \E roam \in 1 .. 255 : Started(fw \ {"linked", "linking"}, roam)
               \/ Surveying(fw \ {"linked", "linking"})
<1> DEFINE f == fw \ {"linked", "linking"}
<1>1. RoamBudget \in 0 .. 255
  <2>1. to_roam \in 0 .. 255
    BY DEF Types
  <2>2. rtw_dec_to_roam(to_roam) \in 0 .. 255
    BY <2>1, DecRoam
  <2> QED BY <2>1, <2>2, RoamAssumption DEF RoamAssumption, RoamBudget
<1>2. CASE RoamBudget = 0
  <2>1. /\ to_roam' = 0
        /\ to_join' = (to_join /\ cmd # "stadel" /\ to_roam > 0)
        /\ rtw_indicate_disconnect(fw, 0)
        /\ UNCHANGED <<queue, assoc>>
    BY <1>2 DEF rtw_stadel_event_callback
  <2>2. to_join' \in BOOLEAN
    BY <2>1 DEF Types, FlagTypes
  <2> QED BY <2>1, <2>2
<1>3. CASE RoamBudget > 0
  <2>1. PICK j \in rtw_do_join(f, scanned', RoamBudget) :
          \/ /\ j.ok
             /\ to_roam' \in IF scanned' THEN {RoamBudget} ELSE 1 .. RoamBudget
             /\ Apply(j)
          \/ /\ ~ j.ok
             /\ to_roam' = 0
             /\ to_join' = FALSE
             /\ rtw_indicate_disconnect(fw, 0)
             /\ UNCHANGED <<queue, assoc>>
    BY <1>3 DEF rtw_stadel_event_callback
  <2>2. CASE /\ j.ok
             /\ to_roam' \in IF scanned' THEN {RoamBudget} ELSE 1 .. RoamBudget
             /\ Apply(j)
    <3>1. to_roam' \in 1 .. 255
      BY <1>1, <1>3, <2>2
    <3>2. f \in SUBSET Flags
      BY DEF Types, SetTypes
    <3>3. Started(f, RoamBudget) \/ Surveying(f)
      BY <2>2, <3>2, ApplyEffect
    <3> QED BY <1>1, <1>3, <3>1, <3>3
  <2> QED BY <2>1, <2>2
<1> QED BY <1>1, <1>2, <1>3

\* The end of a turn of the loop of rtw_join_timeout_handler.
LEMMA RoamEffect ==
  ASSUME Types, Roam
  PROVE  \/ /\ to_roam = 0 /\ ah' = "idle" /\ lock' = "none"
            /\ rtw_indicate_disconnect(fw, 0)
            /\ UNCHANGED <<to_join, queue, assoc>>
         \/ /\ to_roam # 0 /\ ah' = "idle" /\ lock' = "none"
            /\ Started(fw, to_roam) \/ Surveying(fw)
         \/ /\ to_roam # 0 /\ ah' = "roam" /\ lock' = lock
            /\ GivenUp(fw)
<1>1. CASE to_roam = 0
  BY <1>1 DEF Roam
<1>2. CASE to_roam # 0
  <2>1. PICK j \in rtw_do_join(fw, scanned, to_roam) :
          /\ Apply(j)
          /\ ah' = IF j.ok THEN "idle" ELSE "roam"
          /\ lock' = IF j.ok THEN "none" ELSE lock
    BY <1>2 DEF Roam
  <2>2. fw \in SUBSET Flags
    BY DEF Types, SetTypes
  <2>3. \/ j.ok = TRUE /\ Started(fw, to_roam)
        \/ j.ok = TRUE /\ Surveying(fw)
        \/ j.ok = FALSE /\ GivenUp(fw)
    BY <2>1, <2>2, ApplyEffect
  <2> QED BY <1>2, <2>1, <2>3
<1> QED BY <1>1, <1>2

-----------------------------------------------------------------------------
(* Types                                                                   *)

\* Every step keeps the names, the flags and the queue typed.
LEMMA TypesStep == Types /\ [Next]_vars => Types'
<1> SUFFICES ASSUME Types, [Next]_vars PROVE Types'
  OBVIOUS
<1>0. crossed' \in BOOLEAN
  BY DEF Types, Next, vars
<1> USE DEF upper, lower, timers, thread, caller
<1>1. CASE cfg80211_rtw_connect
  <2>1. FlagTypes'
    BY <1>1 DEF Types, FlagTypes, cfg80211_rtw_connect
  <2>2. NameTypes'
    BY <1>1 DEF Types, NameTypes, cfg80211_rtw_connect
  <2>3. SetTypes'
    BY <1>1 DEF Types, SetTypes, cfg80211_rtw_connect, Flags, Bits
  <2>4. to_roam' \in 0 .. 255 /\ queue' \in Seq(Ops)
    BY <1>1 DEF Types, Ops, cfg80211_rtw_connect
  <2> QED BY <1>0, <2>1, <2>2, <2>3, <2>4 DEF Types
<1>2. CASE cfg80211_rtw_disconnect
  <2>1. FlagTypes'
    BY <1>2 DEF Types, FlagTypes, cfg80211_rtw_disconnect
  <2>2. NameTypes'
    BY <1>2 DEF Types, NameTypes, cfg80211_rtw_disconnect
  <2>3. SetTypes'
    BY <1>2 DEF Types, SetTypes, cfg80211_rtw_disconnect, Flags, Bits
  <2>4. to_roam' \in 0 .. 255 /\ queue' \in Seq(Ops)
    BY <1>2 DEF Types, Ops, cfg80211_rtw_disconnect
  <2> QED BY <1>0, <2>1, <2>2, <2>3, <2>4 DEF Types
<1>3. CASE rtw_join_abort
  <2>1. FlagTypes'
    BY <1>3 DEF Types, FlagTypes, rtw_join_abort
  <2>2. NameTypes'
    BY <1>3 DEF Types, NameTypes, rtw_join_abort
  <2>3. SetTypes'
    BY <1>3 DEF Types, SetTypes, rtw_join_abort, Flags, Bits
  <2>4. to_roam' \in 0 .. 255 /\ queue' \in Seq(Ops)
    BY <1>3 DEF Types, Ops, rtw_join_abort
  <2> QED BY <1>0, <2>1, <2>2, <2>3, <2>4 DEF Types
<1>4. CASE rtw_join_abort_done
  <2>1. /\ user' \in {"disc", "connect", "idle"}
        /\ told' \in {"up", "down", "error"}
        /\ not_indic_disco' \in BOOLEAN
    BY <1>4, RaceAssumption
    DEF RaceAssumption, Types, FlagTypes, NameTypes, rtw_join_abort_done
  <2>2. FlagTypes'
    BY <1>4, <2>1 DEF Types, FlagTypes, rtw_join_abort_done
  <2>3. NameTypes'
    BY <1>4, <2>1 DEF Types, NameTypes, rtw_join_abort_done
  <2>4. SetTypes' /\ to_roam' \in 0 .. 255 /\ queue' \in Seq(Ops)
    BY <1>4 DEF Types, SetTypes, rtw_join_abort_done
  <2> QED BY <1>0, <2>2, <2>3, <2>4 DEF Types
<1>5. CASE rtw_disassoc_cmd
  <2>1. FlagTypes'
    BY <1>5 DEF Types, FlagTypes, rtw_disassoc_cmd
  <2>2. NameTypes'
    BY <1>5 DEF Types, NameTypes, rtw_disassoc_cmd
  <2>3. SetTypes'
    BY <1>5 DEF Types, SetTypes, rtw_disassoc_cmd, Flags, Bits
  <2>4. to_roam' \in 0 .. 255 /\ queue' \in Seq(Ops)
    BY <1>5 DEF Types, Ops, rtw_disassoc_cmd
  <2> QED BY <1>0, <2>1, <2>2, <2>3, <2>4 DEF Types
<1>6. CASE ClearLoad
  <2>1. FlagTypes'
    BY <1>6 DEF Types, FlagTypes, ClearLoad
  <2>2. NameTypes'
    BY <1>6 DEF Types, NameTypes, ClearLoad
  <2>3. SetTypes'
    BY <1>6 DEF Types, SetTypes, ClearLoad, Flags, Bits
  <2>4. to_roam' \in 0 .. 255 /\ queue' \in Seq(Ops)
    BY <1>6 DEF Types, Ops, ClearLoad
  <2> QED BY <1>0, <2>1, <2>2, <2>3, <2>4 DEF Types
<1>7. CASE ClearStore
  <2>1. FlagTypes'
    BY <1>7 DEF Types, FlagTypes, ClearStore, AfterDisconnect
  <2>2. NameTypes'
    BY <1>7 DEF Types, NameTypes, ClearStore, AfterDisconnect
  <2>3. SetTypes'
    BY <1>7 DEF Types, SetTypes, ClearStore, AfterDisconnect, Flags, Bits
  <2>4. to_roam' \in 0 .. 255 /\ queue' \in Seq(Ops)
    BY <1>7 DEF Types, Ops, ClearStore, AfterDisconnect
  <2> QED BY <1>0, <2>1, <2>2, <2>3, <2>4 DEF Types
<1>8. CASE IndicateRoaming
  <2>1. FlagTypes'
    BY <1>8 DEF Types, FlagTypes, IndicateRoaming
  <2>2. NameTypes'
    BY <1>8 DEF Types, NameTypes, IndicateRoaming
  <2>3. SetTypes'
    BY <1>8 DEF Types, SetTypes, IndicateRoaming, Flags, Bits
  <2>4. to_roam' \in 0 .. 255 /\ queue' \in Seq(Ops)
    BY <1>8 DEF Types, Ops, IndicateRoaming
  <2> QED BY <1>0, <2>1, <2>2, <2>3, <2>4 DEF Types
<1>9. CASE IndicateAsk
  <2>1. FlagTypes'
    BY <1>9 DEF Types, FlagTypes, IndicateAsk, AfterDisconnect
  <2>2. NameTypes'
    BY <1>9 DEF Types, NameTypes, IndicateAsk, AfterDisconnect
  <2>3. SetTypes'
    BY <1>9 DEF Types, SetTypes, IndicateAsk, AfterDisconnect, Flags, Bits
  <2>4. to_roam' \in 0 .. 255 /\ queue' \in Seq(Ops)
    BY <1>9 DEF Types, Ops, IndicateAsk, AfterDisconnect
  <2> QED BY <1>0, <2>1, <2>2, <2>3, <2>4 DEF Types
<1>10. CASE IndicateTell
  <2>1. FlagTypes'
    BY <1>10 DEF Types, FlagTypes, IndicateTell, rtw_cfg80211_indicate_disconnect
  <2>2. NameTypes'
    BY <1>10 DEF Types, NameTypes, IndicateTell, rtw_cfg80211_indicate_disconnect
  <2>3. SetTypes'
    BY <1>10 DEF Types, SetTypes, IndicateTell, rtw_cfg80211_indicate_disconnect, Flags, Bits
  <2>4. to_roam' \in 0 .. 255 /\ queue' \in Seq(Ops)
    BY <1>10 DEF Types, Ops, IndicateTell, rtw_cfg80211_indicate_disconnect
  <2> QED BY <1>0, <2>1, <2>2, <2>3, <2>4 DEF Types
<1>11. CASE rtw_set_802_11_connect
  <2>1. fw' \in SUBSET Flags
    BY <1>11, ConnectEffect
    DEF Types, SetTypes, Flags, Started, Surveying, GivenUp,
        rtw_indicate_disconnect
  <2>2. /\ to_join' \in BOOLEAN /\ connect_req' \in BOOLEAN
        /\ assoc' \in BOOLEAN
    BY <1>11, ConnectEffect
    DEF Types, FlagTypes, Started, Surveying, GivenUp, rtw_indicate_disconnect,
        rtw_cfg80211_indicate_disconnect
  <2>3. told' \in {"up", "down", "error"}
    BY <1>11, ConnectEffect
    DEF Types, NameTypes, Started, Surveying, GivenUp, rtw_indicate_disconnect,
        rtw_cfg80211_indicate_disconnect
  <2>4. queue' \in Seq(Ops)
    <3>1. \/ queue' \in Seq(Ops)
          \/ queue' = Append(queue, "survey")
          \/ queue' = queue
      BY <1>11, ConnectEffect DEF Started, Surveying, GivenUp
    <3> QED BY <3>1 DEF Types, Ops
  <2>5. to_roam' \in 0 .. 255
    BY <1>11, ConnectEffect DEF Types, rtw_set_802_11_connect
  <2>6. FlagTypes'
    BY <1>11, ConnectEffect, <2>2
    DEF Types, FlagTypes, rtw_set_802_11_connect, rtw_free_assoc_resources
  <2>7. NameTypes'
    BY <1>11, ConnectEffect, <2>3 DEF Types, NameTypes, rtw_set_802_11_connect
  <2>8. SetTypes'
    BY <1>11, <2>1 DEF Types, SetTypes, rtw_set_802_11_connect
  <2> QED BY <1>0, <2>4, <2>5, <2>6, <2>7, <2>8 DEF Types
<1>12. CASE RecordRequest
  <2>1. FlagTypes'
    BY <1>12 DEF Types, FlagTypes, RecordRequest
  <2>2. NameTypes'
    BY <1>12 DEF Types, NameTypes, RecordRequest
  <2>3. SetTypes'
    BY <1>12 DEF Types, SetTypes, RecordRequest, Flags, Bits
  <2>4. to_roam' \in 0 .. 255 /\ queue' \in Seq(Ops)
    BY <1>12 DEF Types, Ops, RecordRequest
  <2> QED BY <1>0, <2>1, <2>2, <2>3, <2>4 DEF Types
<1>13. CASE join_cmd_hdl
  <2>1. FlagTypes'
    BY <1>13 DEF Types, FlagTypes, join_cmd_hdl, Pop
  <2>2. NameTypes'
    BY <1>13 DEF Types, NameTypes, join_cmd_hdl, Pop
  <2>3. SetTypes'
    BY <1>13 DEF Types, SetTypes, join_cmd_hdl, Pop, Flags, Bits
  <2>4. to_roam' \in 0 .. 255 /\ queue' \in Seq(Ops)
    BY <1>13 DEF Types, Ops, join_cmd_hdl, Pop
  <2> QED BY <1>0, <2>1, <2>2, <2>3, <2>4 DEF Types
<1>14. CASE disconnect_hdl
  <2>1. FlagTypes'
    BY <1>14 DEF Types, FlagTypes, disconnect_hdl, Pop, rtw_mlmeext_disconnect
  <2>2. NameTypes'
    BY <1>14 DEF Types, NameTypes, disconnect_hdl, Pop, rtw_mlmeext_disconnect
  <2>3. SetTypes'
    BY <1>14
    DEF Types, SetTypes, disconnect_hdl, Pop, rtw_mlmeext_disconnect, Flags,
        Bits
  <2>4. to_roam' \in 0 .. 255 /\ queue' \in Seq(Ops)
    BY <1>14 DEF Types, Ops, disconnect_hdl, Pop, rtw_mlmeext_disconnect
  <2> QED BY <1>0, <2>1, <2>2, <2>3, <2>4 DEF Types
<1>15. CASE free_assoc_resources_hdl
  <2>1. FlagTypes'
    BY <1>15
    DEF Types, FlagTypes, free_assoc_resources_hdl, Pop,
        rtw_free_assoc_resources
  <2>2. NameTypes'
    BY <1>15
    DEF Types, NameTypes, free_assoc_resources_hdl, Pop,
        rtw_free_assoc_resources
  <2>3. SetTypes'
    BY <1>15
    DEF Types, SetTypes, free_assoc_resources_hdl, Pop,
        rtw_free_assoc_resources, Flags, Bits
  <2>4. to_roam' \in 0 .. 255 /\ queue' \in Seq(Ops)
    BY <1>15
    DEF Types, Ops, free_assoc_resources_hdl, Pop, rtw_free_assoc_resources
  <2> QED BY <1>0, <2>1, <2>2, <2>3, <2>4 DEF Types
<1>16. CASE sitesurvey_cmd_hdl
  <2>1. FlagTypes'
    BY <1>16 DEF Types, FlagTypes, sitesurvey_cmd_hdl, Pop
  <2>2. NameTypes'
    BY <1>16 DEF Types, NameTypes, sitesurvey_cmd_hdl, Pop
  <2>3. SetTypes'
    BY <1>16 DEF Types, SetTypes, sitesurvey_cmd_hdl, Pop, Flags, Bits
  <2>4. to_roam' \in 0 .. 255 /\ queue' \in Seq(Ops)
    BY <1>16 DEF Types, Ops, sitesurvey_cmd_hdl, Pop
  <2> QED BY <1>0, <2>1, <2>2, <2>3, <2>4 DEF Types
<1>17. CASE SurveyOver
  <2>1. FlagTypes'
    BY <1>17 DEF Types, FlagTypes, SurveyOver, Pop
  <2>2. NameTypes'
    BY <1>17 DEF Types, NameTypes, SurveyOver, Pop
  <2>3. SetTypes'
    BY <1>17 DEF Types, SetTypes, SurveyOver, Pop, Flags, Bits
  <2>4. to_roam' \in 0 .. 255 /\ queue' \in Seq(Ops)
    BY <1>17 DEF Types, Ops, SurveyOver, Pop
  <2> QED BY <1>0, <2>1, <2>2, <2>3, <2>4 DEF Types
<1>18. CASE rtw_surveydone_event_callback
  <2>1. fw' \in SUBSET Flags
    BY <1>18, SurveyDoneEffect
    DEF Types, SetTypes, Flags, Started, Surveying, GivenUp,
        rtw_indicate_disconnect
  <2>2. /\ to_join' \in BOOLEAN /\ connect_req' \in BOOLEAN
        /\ assoc' \in BOOLEAN
    BY <1>18, SurveyDoneEffect
    DEF Types, FlagTypes, Started, Surveying, GivenUp, rtw_indicate_disconnect,
        rtw_cfg80211_indicate_disconnect
  <2>3. told' \in {"up", "down", "error"}
    BY <1>18, SurveyDoneEffect
    DEF Types, NameTypes, Started, Surveying, GivenUp, rtw_indicate_disconnect,
        rtw_cfg80211_indicate_disconnect
  <2>4. queue' \in Seq(Ops)
    <3>1. \/ queue' \in Seq(Ops)
          \/ queue' = Append(queue, "survey")
          \/ queue' = queue
      BY <1>18, SurveyDoneEffect DEF Started, Surveying, GivenUp
    <3> QED BY <3>1 DEF Types, Ops
  <2>5. to_roam' \in 0 .. 255
    <3>1. to_roam' = to_roam \/ to_roam' = 0 \/ to_roam' \in 1 .. 255
      BY <1>18, SurveyDoneEffect
    <3>2. to_roam \in 0 .. 255
      BY DEF Types
    <3> QED BY <3>1, <3>2
  <2>6. FlagTypes'
    BY <1>18, SurveyDoneEffect, <2>2
    DEF Types, FlagTypes, rtw_surveydone_event_callback,
        rtw_free_assoc_resources
  <2>7. NameTypes'
    BY <1>18, SurveyDoneEffect, <2>3
    DEF Types, NameTypes, rtw_surveydone_event_callback
  <2>8. SetTypes'
    BY <1>18, <2>1 DEF Types, SetTypes, rtw_surveydone_event_callback
  <2> QED BY <1>0, <2>4, <2>5, <2>6, <2>7, <2>8 DEF Types
<1>19. CASE rtw_joinbss_event_callback
  <2>1. FlagTypes'
    BY <1>19 DEF Types, FlagTypes, rtw_joinbss_event_callback, Pop
  <2>2. NameTypes'
    BY <1>19 DEF Types, NameTypes, rtw_joinbss_event_callback, Pop
  <2>3. SetTypes'
    BY <1>19 DEF Types, SetTypes, rtw_joinbss_event_callback, Pop, Flags, Bits
  <2>4. to_roam' \in 0 .. 255 /\ queue' \in Seq(Ops)
    BY <1>19 DEF Types, Ops, rtw_joinbss_event_callback, Pop
  <2> QED BY <1>0, <2>1, <2>2, <2>3, <2>4 DEF Types
<1>20. CASE mlmeext_sta_del_event_callback
  <2>1. FlagTypes'
    BY <1>20
    DEF Types, FlagTypes, mlmeext_sta_del_event_callback, Pop,
        rtw_mlmeext_disconnect
  <2>2. NameTypes'
    BY <1>20
    DEF Types, NameTypes, mlmeext_sta_del_event_callback, Pop,
        rtw_mlmeext_disconnect
  <2>3. SetTypes'
    BY <1>20
    DEF Types, SetTypes, mlmeext_sta_del_event_callback, Pop,
        rtw_mlmeext_disconnect, Flags, Bits
  <2>4. to_roam' \in 0 .. 255 /\ queue' \in Seq(Ops)
    BY <1>20
    DEF Types, Ops, mlmeext_sta_del_event_callback, Pop, rtw_mlmeext_disconnect
  <2> QED BY <1>0, <2>1, <2>2, <2>3, <2>4 DEF Types
<1>21. CASE rtw_stadel_event_callback
  <2>1. fw' \in SUBSET Flags
    BY <1>21, StadelEffect
    DEF Types, SetTypes, Flags, Started, Surveying, GivenUp,
        rtw_indicate_disconnect
  <2>2. /\ to_join' \in BOOLEAN /\ connect_req' \in BOOLEAN
        /\ assoc' \in BOOLEAN
    BY <1>21, StadelEffect
    DEF Types, FlagTypes, Started, Surveying, GivenUp, rtw_indicate_disconnect,
        rtw_cfg80211_indicate_disconnect
  <2>3. told' \in {"up", "down", "error"}
    BY <1>21, StadelEffect
    DEF Types, NameTypes, Started, Surveying, GivenUp, rtw_indicate_disconnect,
        rtw_cfg80211_indicate_disconnect
  <2>4. queue' \in Seq(Ops)
    <3>1. \/ queue' \in Seq(Ops)
          \/ queue' = Append(queue, "survey")
          \/ queue' = queue
      BY <1>21, StadelEffect DEF Started, Surveying, GivenUp
    <3> QED BY <3>1 DEF Types, Ops
  <2>5. to_roam' \in 0 .. 255
    <3>1. to_roam' = to_roam \/ to_roam' = 0 \/ to_roam' \in 1 .. 255
      BY <1>21, StadelEffect
    <3>2. to_roam \in 0 .. 255
      BY DEF Types
    <3> QED BY <3>1, <3>2
  <2>6. FlagTypes'
    BY <1>21, StadelEffect, <2>2
    DEF Types, FlagTypes, rtw_stadel_event_callback, rtw_free_assoc_resources
  <2>7. NameTypes'
    BY <1>21, StadelEffect, <2>3
    DEF Types, NameTypes, rtw_stadel_event_callback
  <2>8. SetTypes'
    BY <1>21, <2>1 DEF Types, SetTypes, rtw_stadel_event_callback
  <2> QED BY <1>0, <2>4, <2>5, <2>6, <2>7, <2>8 DEF Types
<1>22. CASE linked_status_chk
  <2>1. FlagTypes'
    BY <1>22 DEF Types, FlagTypes, linked_status_chk
  <2>2. NameTypes'
    BY <1>22 DEF Types, NameTypes, linked_status_chk
  <2>3. SetTypes'
    BY <1>22 DEF Types, SetTypes, linked_status_chk, Flags, Bits
  <2>4. to_roam' \in 0 .. 255 /\ queue' \in Seq(Ops)
    BY <1>22 DEF Types, Ops, linked_status_chk
  <2> QED BY <1>0, <2>1, <2>2, <2>3, <2>4 DEF Types
<1>23. CASE report_surveydone_event
  <2>1. FlagTypes'
    BY <1>23 DEF Types, FlagTypes, report_surveydone_event
  <2>2. NameTypes'
    BY <1>23 DEF Types, NameTypes, report_surveydone_event
  <2>3. SetTypes'
    BY <1>23 DEF Types, SetTypes, report_surveydone_event, Flags, Bits
  <2>4. to_roam' \in 0 .. 255 /\ queue' \in Seq(Ops)
    BY <1>23 DEF Types, Ops, report_surveydone_event
  <2> QED BY <1>0, <2>1, <2>2, <2>3, <2>4 DEF Types
<1>24. CASE OnBeacon
  <2>1. FlagTypes'
    BY <1>24 DEF Types, FlagTypes, OnBeacon
  <2>2. NameTypes'
    BY <1>24 DEF Types, NameTypes, OnBeacon
  <2>3. SetTypes'
    BY <1>24 DEF Types, SetTypes, OnBeacon, Flags, Bits
  <2>4. to_roam' \in 0 .. 255 /\ queue' \in Seq(Ops)
    BY <1>24 DEF Types, Ops, OnBeacon
  <2> QED BY <1>0, <2>1, <2>2, <2>3, <2>4 DEF Types
<1>25. CASE OnAuthClient
  <2>1. FlagTypes'
    BY <1>25 DEF Types, FlagTypes, OnAuthClient
  <2>2. NameTypes'
    BY <1>25 DEF Types, NameTypes, OnAuthClient
  <2>3. SetTypes'
    BY <1>25 DEF Types, SetTypes, OnAuthClient, Flags, Bits
  <2>4. to_roam' \in 0 .. 255 /\ queue' \in Seq(Ops)
    BY <1>25 DEF Types, Ops, OnAuthClient
  <2> QED BY <1>0, <2>1, <2>2, <2>3, <2>4 DEF Types
<1>26. CASE OnAssocRsp
  <2>1. FlagTypes'
    BY <1>26 DEF Types, FlagTypes, OnAssocRsp
  <2>2. NameTypes'
    BY <1>26 DEF Types, NameTypes, OnAssocRsp
  <2>3. SetTypes'
    BY <1>26 DEF Types, SetTypes, OnAssocRsp, Flags, Bits
  <2>4. to_roam' \in 0 .. 255 /\ queue' \in Seq(Ops)
    BY <1>26 DEF Types, Ops, OnAssocRsp
  <2> QED BY <1>0, <2>1, <2>2, <2>3, <2>4 DEF Types
<1>27. CASE OnDeAuth
  <2>1. FlagTypes'
    BY <1>27 DEF Types, FlagTypes, OnDeAuth
  <2>2. NameTypes'
    BY <1>27 DEF Types, NameTypes, OnDeAuth
  <2>3. SetTypes'
    BY <1>27 DEF Types, SetTypes, OnDeAuth, Flags, Bits
  <2>4. to_roam' \in 0 .. 255 /\ queue' \in Seq(Ops)
    BY <1>27 DEF Types, Ops, OnDeAuth
  <2> QED BY <1>0, <2>1, <2>2, <2>3, <2>4 DEF Types
<1>28. CASE start_clnt_auth
  <2>1. FlagTypes'
    BY <1>28 DEF Types, FlagTypes, start_clnt_auth
  <2>2. NameTypes'
    BY <1>28 DEF Types, NameTypes, start_clnt_auth
  <2>3. SetTypes'
    BY <1>28 DEF Types, SetTypes, start_clnt_auth, Flags, Bits
  <2>4. to_roam' \in 0 .. 255 /\ queue' \in Seq(Ops)
    BY <1>28 DEF Types, Ops, start_clnt_auth
  <2> QED BY <1>0, <2>1, <2>2, <2>3, <2>4 DEF Types
<1>29. CASE start_clnt_assoc
  <2>1. FlagTypes'
    BY <1>29 DEF Types, FlagTypes, start_clnt_assoc
  <2>2. NameTypes'
    BY <1>29 DEF Types, NameTypes, start_clnt_assoc
  <2>3. SetTypes'
    BY <1>29 DEF Types, SetTypes, start_clnt_assoc, Flags, Bits
  <2>4. to_roam' \in 0 .. 255 /\ queue' \in Seq(Ops)
    BY <1>29 DEF Types, Ops, start_clnt_assoc
  <2> QED BY <1>0, <2>1, <2>2, <2>3, <2>4 DEF Types
<1>30. CASE AssocResult
  <2>1. FlagTypes'
    BY <1>30 DEF Types, FlagTypes, AssocResult
  <2>2. NameTypes'
    BY <1>30 DEF Types, NameTypes, AssocResult
  <2>3. SetTypes'
    BY <1>30 DEF Types, SetTypes, AssocResult, Flags, Bits
  <2>4. to_roam' \in 0 .. 255 /\ queue' \in Seq(Ops)
    BY <1>30 DEF Types, Ops, AssocResult
  <2> QED BY <1>0, <2>1, <2>2, <2>3, <2>4 DEF Types
<1>31. CASE rtw_joinbss_event_prehandle
  <2>1. FlagTypes'
    BY <1>31 DEF Types, FlagTypes, rtw_joinbss_event_prehandle
  <2>2. NameTypes'
    BY <1>31 DEF Types, NameTypes, rtw_joinbss_event_prehandle
  <2>3. SetTypes'
    BY <1>31 DEF Types, SetTypes, rtw_joinbss_event_prehandle, Flags, Bits
  <2>4. to_roam' \in 0 .. 255 /\ queue' \in Seq(Ops)
    BY <1>31 DEF Types, Ops, rtw_joinbss_event_prehandle
  <2> QED BY <1>0, <2>1, <2>2, <2>3, <2>4 DEF Types
<1>32. CASE rtw_indicate_connect
  <2>1. FlagTypes'
    BY <1>32 DEF Types, FlagTypes, rtw_indicate_connect
  <2>2. NameTypes'
    BY <1>32 DEF Types, NameTypes, rtw_indicate_connect
  <2>3. SetTypes'
    BY <1>32 DEF Types, SetTypes, rtw_indicate_connect, Flags, Bits
  <2>4. to_roam' \in 0 .. 255 /\ queue' \in Seq(Ops)
    BY <1>32 DEF Types, Ops, rtw_indicate_connect
  <2> QED BY <1>0, <2>1, <2>2, <2>3, <2>4 DEF Types
<1>33. CASE CancelAssocTimer
  <2>1. FlagTypes'
    BY <1>33 DEF Types, FlagTypes, CancelAssocTimer
  <2>2. NameTypes'
    BY <1>33 DEF Types, NameTypes, CancelAssocTimer
  <2>3. SetTypes'
    BY <1>33 DEF Types, SetTypes, CancelAssocTimer, Flags, Bits
  <2>4. to_roam' \in 0 .. 255 /\ queue' \in Seq(Ops)
    BY <1>33 DEF Types, Ops, CancelAssocTimer
  <2> QED BY <1>0, <2>1, <2>2, <2>3, <2>4 DEF Types
<1>34. CASE PrehandleReject
  <2>1. FlagTypes'
    BY <1>34 DEF Types, FlagTypes, PrehandleReject, PrehandleFailure
  <2>2. NameTypes'
    BY <1>34 DEF Types, NameTypes, PrehandleReject, PrehandleFailure
  <2>3. SetTypes'
    BY <1>34
    DEF Types, SetTypes, PrehandleReject, PrehandleFailure, Flags, Bits
  <2>4. to_roam' \in 0 .. 255 /\ queue' \in Seq(Ops)
    BY <1>34 DEF Types, Ops, PrehandleReject, PrehandleFailure
  <2> QED BY <1>0, <2>1, <2>2, <2>3, <2>4 DEF Types
<1>35. CASE report_join_res
  <2>1. FlagTypes'
    BY <1>35 DEF Types, FlagTypes, report_join_res
  <2>2. NameTypes'
    BY <1>35 DEF Types, NameTypes, report_join_res
  <2>3. SetTypes'
    BY <1>35 DEF Types, SetTypes, report_join_res, Flags, Bits
  <2>4. to_roam' \in 0 .. 255 /\ queue' \in Seq(Ops)
    BY <1>35 DEF Types, Ops, report_join_res
  <2> QED BY <1>0, <2>1, <2>2, <2>3, <2>4 DEF Types
<1>36. CASE ClearState
  <2>1. FlagTypes'
    BY <1>36 DEF Types, FlagTypes, ClearState
  <2>2. NameTypes'
    BY <1>36 DEF Types, NameTypes, ClearState
  <2>3. SetTypes'
    BY <1>36 DEF Types, SetTypes, ClearState, Flags, Bits
  <2>4. to_roam' \in 0 .. 255 /\ queue' \in Seq(Ops)
    BY <1>36 DEF Types, Ops, ClearState
  <2> QED BY <1>0, <2>1, <2>2, <2>3, <2>4 DEF Types
<1>37. CASE link_timer_hdl
  <2>1. FlagTypes'
    BY <1>37 DEF Types, FlagTypes, link_timer_hdl
  <2>2. NameTypes'
    BY <1>37 DEF Types, NameTypes, link_timer_hdl
  <2>3. SetTypes'
    BY <1>37 DEF Types, SetTypes, link_timer_hdl, Flags, Bits
  <2>4. to_roam' \in 0 .. 255 /\ queue' \in Seq(Ops)
    BY <1>37 DEF Types, Ops, link_timer_hdl
  <2> QED BY <1>0, <2>1, <2>2, <2>3, <2>4 DEF Types
<1>38. CASE LinkFailure
  <2>1. FlagTypes'
    BY <1>38 DEF Types, FlagTypes, LinkFailure, PrehandleFailure
  <2>2. NameTypes'
    BY <1>38 DEF Types, NameTypes, LinkFailure, PrehandleFailure
  <2>3. SetTypes'
    BY <1>38 DEF Types, SetTypes, LinkFailure, PrehandleFailure, Flags, Bits
  <2>4. to_roam' \in 0 .. 255 /\ queue' \in Seq(Ops)
    BY <1>38 DEF Types, Ops, LinkFailure, PrehandleFailure
  <2> QED BY <1>0, <2>1, <2>2, <2>3, <2>4 DEF Types
<1>39. CASE LinkReport
  <2>1. FlagTypes'
    BY <1>39 DEF Types, FlagTypes, LinkReport
  <2>2. NameTypes'
    BY <1>39 DEF Types, NameTypes, LinkReport
  <2>3. SetTypes'
    BY <1>39 DEF Types, SetTypes, LinkReport, Flags, Bits
  <2>4. to_roam' \in 0 .. 255 /\ queue' \in Seq(Ops)
    BY <1>39 DEF Types, Ops, LinkReport
  <2> QED BY <1>0, <2>1, <2>2, <2>3, <2>4 DEF Types
<1>40. CASE AssocExpires
  <2>1. FlagTypes'
    BY <1>40 DEF Types, FlagTypes, AssocExpires
  <2>2. NameTypes'
    BY <1>40 DEF Types, NameTypes, AssocExpires
  <2>3. SetTypes'
    BY <1>40 DEF Types, SetTypes, AssocExpires, Flags, Bits
  <2>4. to_roam' \in 0 .. 255 /\ queue' \in Seq(Ops)
    BY <1>40 DEF Types, Ops, AssocExpires
  <2> QED BY <1>0, <2>1, <2>2, <2>3, <2>4 DEF Types
<1>41. CASE rtw_join_timeout_handler
  <2>1. FlagTypes'
    BY <1>41
    DEF Types, FlagTypes, rtw_join_timeout_handler, rtw_indicate_disconnect,
        rtw_cfg80211_indicate_disconnect
  <2>2. NameTypes'
    BY <1>41
    DEF Types, NameTypes, rtw_join_timeout_handler, rtw_indicate_disconnect,
        rtw_cfg80211_indicate_disconnect
  <2>3. SetTypes'
    BY <1>41
    DEF Types, SetTypes, rtw_join_timeout_handler, rtw_indicate_disconnect,
        rtw_cfg80211_indicate_disconnect, Flags, Bits
  <2>4. to_roam' \in 0 .. 255 /\ queue' \in Seq(Ops)
    BY <1>41
    DEF Types, Ops, rtw_join_timeout_handler, rtw_indicate_disconnect,
        rtw_cfg80211_indicate_disconnect
  <2> QED BY <1>0, <2>1, <2>2, <2>3, <2>4 DEF Types
<1>42. CASE SpendRoam
  <2>1. FlagTypes'
    BY <1>42 DEF Types, FlagTypes, SpendRoam
  <2>2. NameTypes'
    BY <1>42 DEF Types, NameTypes, SpendRoam
  <2>3. SetTypes'
    BY <1>42 DEF Types, SetTypes, SpendRoam, Flags, Bits
  <2>4. to_roam' \in 0 .. 255 /\ queue' \in Seq(Ops)
    BY <1>42, DecRoam DEF Types, Ops, SpendRoam
  <2> QED BY <1>0, <2>1, <2>2, <2>3, <2>4 DEF Types
<1>43. CASE Roam
  <2>1. fw' \in SUBSET Flags
    BY <1>43, RoamEffect
    DEF Types, SetTypes, Flags, Started, Surveying, GivenUp,
        rtw_indicate_disconnect
  <2>2. /\ to_join' \in BOOLEAN /\ connect_req' \in BOOLEAN
        /\ assoc' \in BOOLEAN
    BY <1>43, RoamEffect
    DEF Types, FlagTypes, Started, Surveying, GivenUp, rtw_indicate_disconnect,
        rtw_cfg80211_indicate_disconnect
  <2>3. told' \in {"up", "down", "error"}
    BY <1>43, RoamEffect
    DEF Types, NameTypes, Started, Surveying, GivenUp, rtw_indicate_disconnect,
        rtw_cfg80211_indicate_disconnect
  <2>4. queue' \in Seq(Ops)
    <3>1. \/ queue' \in Seq(Ops)
          \/ queue' = Append(queue, "survey")
          \/ queue' = queue
      BY <1>43, RoamEffect DEF Started, Surveying, GivenUp
    <3> QED BY <3>1 DEF Types, Ops
  <2>5. to_roam' \in 0 .. 255
    BY <1>43, RoamEffect DEF Types, Roam
  <2>6. FlagTypes'
    BY <1>43, RoamEffect, <2>2
    DEF Types, FlagTypes, Roam, rtw_free_assoc_resources
  <2>7. NameTypes'
    BY <1>43, RoamEffect, <2>3 DEF Types, NameTypes, Roam
  <2>8. SetTypes'
    BY <1>43, <2>1 DEF Types, SetTypes, Roam
  <2> QED BY <1>0, <2>4, <2>5, <2>6, <2>7, <2>8 DEF Types
<1>44. CASE UNCHANGED vars
  BY <1>44 DEF vars, system, Types, FlagTypes, NameTypes, SetTypes
<1> QED BY <1>1, <1>2, <1>3, <1>4, <1>5, <1>6, <1>7, <1>8, <1>9, <1>10, <1>11,
       <1>12, <1>13, <1>14, <1>15, <1>16, <1>17, <1>18, <1>19, <1>20, <1>21,
       <1>22, <1>23, <1>24, <1>25, <1>26, <1>27, <1>28, <1>29, <1>30, <1>31,
       <1>32, <1>33, <1>34, <1>35, <1>36, <1>37, <1>38, <1>39, <1>40, <1>41,
       <1>42, <1>43, <1>44
       DEF Next, Step, User, Command, Tasklet, Frame, Timer, vars, system

-----------------------------------------------------------------------------
(* Counters                                                                *)

Counting == CountTypes /\ CountInv

\* Every step keeps the counters within their limits.
LEMMA CountStep == Counting /\ [Next]_vars => Counting'
<1> SUFFICES ASSUME Counting, [Next]_vars PROVE Counting'
  OBVIOUS
<1> USE LimitAssumption, BoundAssumption
    DEF Counting, CountTypes, CountInv, LimitAssumption, BoundAssumption,
        upper, lower, timers, thread, caller
<1>1. CASE cfg80211_rtw_connect
  BY <1>1 DEF cfg80211_rtw_connect
<1>2. CASE cfg80211_rtw_disconnect
  BY <1>2 DEF cfg80211_rtw_disconnect
<1>3. CASE rtw_join_abort
  BY <1>3 DEF rtw_join_abort
<1>4. CASE rtw_join_abort_done
  BY <1>4 DEF rtw_join_abort_done
<1>5. CASE rtw_disassoc_cmd
  BY <1>5 DEF rtw_disassoc_cmd
<1>6. CASE ClearLoad
  BY <1>6 DEF ClearLoad
<1>7. CASE ClearStore
  BY <1>7 DEF ClearStore
<1>8. CASE IndicateRoaming
  BY <1>8 DEF IndicateRoaming
<1>9. CASE IndicateAsk
  BY <1>9 DEF IndicateAsk
<1>10. CASE IndicateTell
  BY <1>10 DEF IndicateTell
<1>11. CASE rtw_set_802_11_connect
  BY <1>11 DEF rtw_set_802_11_connect
<1>12. CASE RecordRequest
  BY <1>12 DEF RecordRequest
<1>13. CASE join_cmd_hdl
  BY <1>13 DEF join_cmd_hdl, Pop
<1>14. CASE disconnect_hdl
  BY <1>14 DEF disconnect_hdl, Pop, rtw_mlmeext_disconnect
<1>15. CASE free_assoc_resources_hdl
  BY <1>15 DEF free_assoc_resources_hdl, Pop
<1>16. CASE sitesurvey_cmd_hdl
  BY <1>16 DEF sitesurvey_cmd_hdl, Pop
<1>17. CASE SurveyOver
  BY <1>17 DEF SurveyOver, Pop
<1>18. CASE rtw_surveydone_event_callback
  BY <1>18 DEF rtw_surveydone_event_callback
<1>19. CASE rtw_joinbss_event_callback
  BY <1>19 DEF rtw_joinbss_event_callback, Pop
<1>20. CASE mlmeext_sta_del_event_callback
  BY <1>20 DEF mlmeext_sta_del_event_callback, Pop, rtw_mlmeext_disconnect
<1>21. CASE rtw_stadel_event_callback
  BY <1>21 DEF rtw_stadel_event_callback
<1>22. CASE linked_status_chk
  BY <1>22 DEF linked_status_chk
<1>23. CASE report_surveydone_event
  BY <1>23 DEF report_surveydone_event
<1>24. CASE OnBeacon
  BY <1>24 DEF OnBeacon
<1>25. CASE OnAuthClient
  BY <1>25 DEF OnAuthClient
<1>26. CASE OnAssocRsp
  BY <1>26 DEF OnAssocRsp
<1>27. CASE OnDeAuth
  BY <1>27 DEF OnDeAuth
<1>28. CASE start_clnt_auth
  BY <1>28 DEF start_clnt_auth
<1>29. CASE start_clnt_assoc
  BY <1>29 DEF start_clnt_assoc
<1>30. CASE AssocResult
  BY <1>30 DEF AssocResult
<1>31. CASE rtw_joinbss_event_prehandle
  BY <1>31 DEF rtw_joinbss_event_prehandle
<1>32. CASE rtw_indicate_connect
  BY <1>32 DEF rtw_indicate_connect
<1>33. CASE CancelAssocTimer
  BY <1>33 DEF CancelAssocTimer
<1>34. CASE PrehandleReject
  BY <1>34 DEF PrehandleReject
<1>35. CASE report_join_res
  BY <1>35 DEF report_join_res
<1>36. CASE ClearState
  BY <1>36 DEF ClearState
<1>37. CASE link_timer_hdl
  <2>1. /\ reauth_count' \in {reauth_count, reauth_count + 1}
        /\ reassoc_count' \in {reassoc_count, reassoc_count + 1}
        /\ reauth_count' = reauth_count + 1 => "auth" \in state
        /\ reassoc_count' = reassoc_count + 1 => "assoc" \in state
        /\ UNCHANGED <<rx, connects, disconnects, drops>>
    BY <1>37 DEF link_timer_hdl
  <2>2. CountTypes'
    BY <2>1
  <2>3. CASE state' = {}
    BY <2>1, <2>2, <2>3
  <2>4. CASE state' = state
    <3>1. /\ "auth" \in state => reauth_count' <= ReauthLimit
          /\ "assoc" \in state => reassoc_count' <= ReassocLimit
      BY <1>37, <2>3, <2>4 DEF link_timer_hdl, Spent
    <3> QED BY <2>1, <2>2, <2>4, <3>1
  <2> QED BY <1>37, <2>3, <2>4 DEF link_timer_hdl
<1>38. CASE LinkFailure
  BY <1>38 DEF LinkFailure
<1>39. CASE LinkReport
  BY <1>39 DEF LinkReport
<1>40. CASE AssocExpires
  BY <1>40 DEF AssocExpires
<1>41. CASE rtw_join_timeout_handler
  BY <1>41 DEF rtw_join_timeout_handler
<1>42. CASE SpendRoam
  BY <1>42 DEF SpendRoam
<1>43. CASE Roam
  BY <1>43 DEF Roam
<1>44. CASE UNCHANGED vars
  BY <1>44 DEF vars, system
<1> QED BY <1>1, <1>2, <1>3, <1>4, <1>5, <1>6, <1>7, <1>8, <1>9, <1>10, <1>11,
       <1>12, <1>13, <1>14, <1>15, <1>16, <1>17, <1>18, <1>19, <1>20, <1>21,
       <1>22, <1>23, <1>24, <1>25, <1>26, <1>27, <1>28, <1>29, <1>30, <1>31,
       <1>32, <1>33, <1>34, <1>35, <1>36, <1>37, <1>38, <1>39, <1>40, <1>41,
       <1>42, <1>43, <1>44
       DEF Next, Step, User, Command, Tasklet, Frame, Timer, vars, system

-----------------------------------------------------------------------------
(* The lock and assoc_timer                                                *)

\* An attempt leaves the old link first, and a success ends it.
OneFlag == ~ crossed => ~ ({"linked", "linking"} \subseteq fw)

Guarding == LockInv /\ LinkingGuarded /\ ClearInv /\ OneFlag

\* As long as nobody has interfered with the user thread's unlocked section,
\* nobody does.
LEMMA Uncrossed ==
  ASSUME Types, [Next]_vars, ~ crossed'
  PROVE  /\ ~ crossed
         /\ Indicating /\ user' = user => fw' = fw /\ told' = told
<1>1. CASE Next
  BY <1>1 DEF Next, Types
<1>2. CASE UNCHANGED vars
  BY <1>2 DEF vars, system, upper
<1> QED BY <1>1, <1>2

\* While nobody interferes, what the user thread has loaded and what it has
\* told stay true until it uses them.
LEMMA ClearStep == Types /\ ClearInv /\ [Next]_vars => ClearInv'
<1> SUFFICES ASSUME Types, ClearInv, [Next]_vars, ~ crossed'
             PROVE  ClearInv'
  BY DEF ClearInv
<1>0. /\ ~ crossed
      /\ Indicating /\ user' = user => fw' = fw /\ told' = told
  BY Uncrossed
<1> USE <1>0 DEF ClearInv, Indicating, upper, lower, timers, thread, caller
<1>1. CASE cfg80211_rtw_connect
  BY <1>1 DEF cfg80211_rtw_connect
<1>2. CASE cfg80211_rtw_disconnect
  BY <1>2 DEF cfg80211_rtw_disconnect
<1>3. CASE rtw_join_abort
  BY <1>3 DEF rtw_join_abort
<1>4. CASE rtw_join_abort_done
  BY <1>4 DEF rtw_join_abort_done
<1>5. CASE rtw_disassoc_cmd
  BY <1>5 DEF rtw_disassoc_cmd
<1>6. CASE ClearLoad
  BY <1>6 DEF ClearLoad
<1>7. CASE ClearStore
  BY <1>7 DEF ClearStore, AfterDisconnect
<1>8. CASE IndicateRoaming
  BY <1>8 DEF IndicateRoaming
<1>9. CASE IndicateAsk
  BY <1>9 DEF IndicateAsk, AfterDisconnect
<1>10. CASE IndicateTell
  BY <1>10 DEF IndicateTell, rtw_cfg80211_indicate_disconnect, Types, FlagTypes
<1>11. CASE rtw_set_802_11_connect
  BY <1>11 DEF rtw_set_802_11_connect
<1>12. CASE RecordRequest
  BY <1>12 DEF RecordRequest
<1>13. CASE join_cmd_hdl
  BY <1>13 DEF join_cmd_hdl, Pop
<1>14. CASE disconnect_hdl
  BY <1>14 DEF disconnect_hdl, Pop
<1>15. CASE free_assoc_resources_hdl
  BY <1>15 DEF free_assoc_resources_hdl, Pop
<1>16. CASE sitesurvey_cmd_hdl
  BY <1>16 DEF sitesurvey_cmd_hdl, Pop
<1>17. CASE SurveyOver
  BY <1>17 DEF SurveyOver, Pop
<1>18. CASE rtw_surveydone_event_callback
  BY <1>18 DEF rtw_surveydone_event_callback
<1>19. CASE rtw_joinbss_event_callback
  BY <1>19 DEF rtw_joinbss_event_callback, Pop
<1>20. CASE mlmeext_sta_del_event_callback
  BY <1>20 DEF mlmeext_sta_del_event_callback, Pop
<1>21. CASE rtw_stadel_event_callback
  BY <1>21 DEF rtw_stadel_event_callback
<1>22. CASE linked_status_chk
  BY <1>22 DEF linked_status_chk
<1>23. CASE report_surveydone_event
  BY <1>23 DEF report_surveydone_event
<1>24. CASE OnBeacon
  BY <1>24 DEF OnBeacon
<1>25. CASE OnAuthClient
  BY <1>25 DEF OnAuthClient
<1>26. CASE OnAssocRsp
  BY <1>26 DEF OnAssocRsp
<1>27. CASE OnDeAuth
  BY <1>27 DEF OnDeAuth
<1>28. CASE start_clnt_auth
  BY <1>28 DEF start_clnt_auth
<1>29. CASE start_clnt_assoc
  BY <1>29 DEF start_clnt_assoc
<1>30. CASE AssocResult
  BY <1>30 DEF AssocResult
<1>31. CASE rtw_joinbss_event_prehandle
  BY <1>31 DEF rtw_joinbss_event_prehandle
<1>32. CASE rtw_indicate_connect
  BY <1>32 DEF rtw_indicate_connect
<1>33. CASE CancelAssocTimer
  BY <1>33 DEF CancelAssocTimer
<1>34. CASE PrehandleReject
  BY <1>34 DEF PrehandleReject
<1>35. CASE report_join_res
  BY <1>35 DEF report_join_res
<1>36. CASE ClearState
  BY <1>36 DEF ClearState
<1>37. CASE link_timer_hdl
  BY <1>37 DEF link_timer_hdl
<1>38. CASE LinkFailure
  BY <1>38 DEF LinkFailure
<1>39. CASE LinkReport
  BY <1>39 DEF LinkReport
<1>40. CASE AssocExpires
  BY <1>40 DEF AssocExpires
<1>41. CASE rtw_join_timeout_handler
  BY <1>41 DEF rtw_join_timeout_handler
<1>42. CASE SpendRoam
  BY <1>42 DEF SpendRoam
<1>43. CASE Roam
  BY <1>43 DEF Roam
<1>44. CASE UNCHANGED vars
  BY <1>44 DEF vars, system
<1> QED BY <1>1, <1>2, <1>3, <1>4, <1>5, <1>6, <1>7, <1>8, <1>9, <1>10, <1>11,
       <1>12, <1>13, <1>14, <1>15, <1>16, <1>17, <1>18, <1>19, <1>20, <1>21,
       <1>22, <1>23, <1>24, <1>25, <1>26, <1>27, <1>28, <1>29, <1>30, <1>31,
       <1>32, <1>33, <1>34, <1>35, <1>36, <1>37, <1>38, <1>39, <1>40, <1>41,
       <1>42, <1>43, <1>44
       DEF Next, Step, User, Command, Tasklet, Frame, Timer, vars, system

\* Every step keeps an attempt under way guarded by assoc_timer.
LEMMA GuardStep == Types /\ Guarding /\ [Next]_vars => Guarding'
<1> SUFFICES ASSUME Types, Guarding, [Next]_vars PROVE Guarding'
  OBVIOUS
<1>0. /\ ~ crossed' => ~ crossed
      /\ ClearInv'
  BY Uncrossed, ClearStep DEF Guarding
<1> USE <1>0 DEF Guarding, LockInv, LinkingGuarded, OneFlag, upper, lower,
                timers, thread, caller
<1>1. CASE cfg80211_rtw_connect
  BY <1>1 DEF cfg80211_rtw_connect
<1>2. CASE cfg80211_rtw_disconnect
  BY <1>2 DEF cfg80211_rtw_disconnect
<1>3. CASE rtw_join_abort
  BY <1>3 DEF rtw_join_abort
<1>4. CASE rtw_join_abort_done
  BY <1>4 DEF rtw_join_abort_done
<1>5. CASE rtw_disassoc_cmd
  BY <1>5 DEF rtw_disassoc_cmd
<1>6. CASE ClearLoad
  BY <1>6 DEF ClearLoad
<1>7. CASE ClearStore
  BY <1>7 DEF ClearStore, ClearInv
<1>8. CASE IndicateRoaming
  BY <1>8 DEF IndicateRoaming
<1>9. CASE IndicateAsk
  BY <1>9 DEF IndicateAsk
<1>10. CASE IndicateTell
  BY <1>10 DEF IndicateTell
<1>11. CASE rtw_set_802_11_connect
  BY <1>11, ConnectEffect
  DEF rtw_set_802_11_connect, Started, Surveying, GivenUp,
      rtw_indicate_disconnect
<1>12. CASE RecordRequest
  BY <1>12 DEF RecordRequest
<1>13. CASE join_cmd_hdl
  BY <1>13 DEF join_cmd_hdl, Pop
<1>14. CASE disconnect_hdl
  BY <1>14 DEF disconnect_hdl, Pop, rtw_mlmeext_disconnect
<1>15. CASE free_assoc_resources_hdl
  BY <1>15 DEF free_assoc_resources_hdl, Pop
<1>16. CASE sitesurvey_cmd_hdl
  BY <1>16 DEF sitesurvey_cmd_hdl, Pop
<1>17. CASE SurveyOver
  BY <1>17 DEF SurveyOver, Pop
<1>18. CASE rtw_surveydone_event_callback
  <2>1. lock = "none" /\ UNCHANGED <<ah, lock, rx>>
    BY <1>18 DEF rtw_surveydone_event_callback
  <2>2. \/ UNCHANGED <<fw, assoc>>
        \/ assoc' = TRUE /\ "linked" \notin fw'
        \/ "linking" \notin fw'
    BY <1>18, SurveyDoneEffect DEF Started, rtw_indicate_disconnect
  <2> QED BY <2>1, <2>2
<1>19. CASE rtw_joinbss_event_callback
  BY <1>19 DEF rtw_joinbss_event_callback, Pop
<1>20. CASE mlmeext_sta_del_event_callback
  BY <1>20 DEF mlmeext_sta_del_event_callback, Pop, rtw_mlmeext_disconnect
<1>21. CASE rtw_stadel_event_callback
  BY <1>21, StadelEffect
  DEF rtw_stadel_event_callback, Started, Surveying, GivenUp,
      rtw_indicate_disconnect
<1>22. CASE linked_status_chk
  BY <1>22 DEF linked_status_chk
<1>23. CASE report_surveydone_event
  BY <1>23 DEF report_surveydone_event
<1>24. CASE OnBeacon
  BY <1>24 DEF OnBeacon
<1>25. CASE OnAuthClient
  BY <1>25 DEF OnAuthClient
<1>26. CASE OnAssocRsp
  BY <1>26 DEF OnAssocRsp
<1>27. CASE OnDeAuth
  BY <1>27 DEF OnDeAuth
<1>28. CASE start_clnt_auth
  BY <1>28 DEF start_clnt_auth
<1>29. CASE start_clnt_assoc
  BY <1>29 DEF start_clnt_assoc
<1>30. CASE AssocResult
  BY <1>30 DEF AssocResult
<1>31. CASE rtw_joinbss_event_prehandle
  BY <1>31 DEF rtw_joinbss_event_prehandle
<1>32. CASE rtw_indicate_connect
  BY <1>32 DEF rtw_indicate_connect
<1>33. CASE CancelAssocTimer
  BY <1>33 DEF CancelAssocTimer
<1>34. CASE PrehandleReject
  BY <1>34 DEF PrehandleReject, PrehandleFailure
<1>35. CASE report_join_res
  BY <1>35 DEF report_join_res
<1>36. CASE ClearState
  BY <1>36 DEF ClearState
<1>37. CASE link_timer_hdl
  BY <1>37 DEF link_timer_hdl
<1>38. CASE LinkFailure
  BY <1>38 DEF LinkFailure, PrehandleFailure
<1>39. CASE LinkReport
  BY <1>39 DEF LinkReport
<1>40. CASE AssocExpires
  BY <1>40 DEF AssocExpires
<1>41. CASE rtw_join_timeout_handler
  BY <1>41 DEF rtw_join_timeout_handler, rtw_indicate_disconnect
<1>42. CASE SpendRoam
  BY <1>42 DEF SpendRoam
<1>43. CASE Roam
  BY <1>43, RoamEffect
  DEF Roam, Started, Surveying, GivenUp, rtw_indicate_disconnect
<1>44. CASE UNCHANGED vars
  BY <1>44 DEF vars, system
<1> QED BY <1>1, <1>2, <1>3, <1>4, <1>5, <1>6, <1>7, <1>8, <1>9, <1>10, <1>11,
       <1>12, <1>13, <1>14, <1>15, <1>16, <1>17, <1>18, <1>19, <1>20, <1>21,
       <1>22, <1>23, <1>24, <1>25, <1>26, <1>27, <1>28, <1>29, <1>30, <1>31,
       <1>32, <1>33, <1>34, <1>35, <1>36, <1>37, <1>38, <1>39, <1>40, <1>41,
       <1>42, <1>43, <1>44
       DEF Next, Step, User, Command, Tasklet, Frame, Timer, vars, system

-----------------------------------------------------------------------------
(* What cfg80211 believes                                                  *)

\* A survey that is queued stays queued until the command thread takes it.
LEMMA QueuedStays ==
  ASSUME NEW q \in Seq(Ops)
  PROVE  /\ \A x \in Ops : SurveyQueued(q) => SurveyQueued(Append(q, x))
         /\ SurveyQueued(Append(q, "survey"))
         /\ SurveyQueued(Append(q, "surveydone"))
         /\ q # << >> /\ Head(q) \notin {"survey", "surveydone"} /\ SurveyQueued(q)
              => SurveyQueued(Tail(q))
<1>1. \A x \in Ops : SurveyQueued(q) => SurveyQueued(Append(q, x))
  BY DEF SurveyQueued
<1>2. ASSUME NEW x \in {"survey", "surveydone"}
      PROVE  SurveyQueued(Append(q, x))
  <2>1. /\ Len(q) + 1 \in 1 .. Len(Append(q, x))
        /\ Append(q, x)[Len(q) + 1] = x
    BY DEF Ops
  <2> QED BY <2>1 DEF SurveyQueued
<1>3. ASSUME q # << >>, Head(q) \notin {"survey", "surveydone"}, SurveyQueued(q)
      PROVE  SurveyQueued(Tail(q))
  <2>1. PICK i \in 1 .. Len(q) : q[i] \in {"survey", "surveydone"}
    BY <1>3 DEF SurveyQueued
  <2>2. i # 1
    BY <1>3, <2>1
  <2>3. i - 1 \in 1 .. Len(Tail(q)) /\ Tail(q)[i - 1] = q[i]
    BY <1>3, <2>1, <2>2
  <2> QED BY <2>1, <2>3 DEF SurveyQueued
<1> QED BY <1>1, <1>2, <1>3

\* A roaming cfg80211 was not told of is never forgotten.
LEMMA RoamStep == Types /\ Guarding /\ RoamInv /\ [Next]_vars => RoamInv'
<1> SUFFICES ASSUME Types, Guarding, RoamInv, [Next]_vars PROVE RoamInv'
  OBVIOUS
<1> USE DEF RoamInv, RoamAhead, upper, lower, timers, thread, caller
<1>1. CASE cfg80211_rtw_connect
  BY <1>1 DEF Types, Guarding, LockInv, cfg80211_rtw_connect
<1>2. CASE cfg80211_rtw_disconnect
  BY <1>2 DEF Types, Guarding, LockInv, cfg80211_rtw_disconnect
<1>3. CASE rtw_join_abort
  BY <1>3 DEF Types, Guarding, LockInv, rtw_join_abort
<1>4. CASE rtw_join_abort_done
  BY <1>4 DEF Types, Guarding, LockInv, rtw_join_abort_done
<1>5. CASE rtw_disassoc_cmd
  BY <1>5, QueuedStays DEF Types, Ops, rtw_disassoc_cmd
<1>6. CASE ClearLoad
  BY <1>6 DEF Types, Guarding, LockInv, ClearLoad
<1>7. CASE ClearStore
  BY <1>7 DEF Types, Guarding, LockInv, ClearStore
<1>8. CASE IndicateRoaming
  BY <1>8 DEF Types, Guarding, LockInv, IndicateRoaming
<1>9. CASE IndicateAsk
  BY <1>9 DEF Types, Guarding, LockInv, IndicateAsk
<1>10. CASE IndicateTell
  BY <1>10 DEF Types, Guarding, LockInv, IndicateTell, rtw_cfg80211_indicate_disconnect
<1>11. CASE rtw_set_802_11_connect
  BY <1>11, ConnectEffect, QueuedStays
  DEF Types, rtw_set_802_11_connect, Started, Surveying, GivenUp,
      rtw_indicate_disconnect, rtw_cfg80211_indicate_disconnect
<1>12. CASE RecordRequest
  BY <1>12 DEF Types, Guarding, LockInv, RecordRequest
<1>13. CASE join_cmd_hdl
  BY <1>13, QueuedStays DEF Types, Ops, join_cmd_hdl, Pop
<1>14. CASE disconnect_hdl
  BY <1>14, QueuedStays DEF Types, Ops, disconnect_hdl, Pop
<1>15. CASE free_assoc_resources_hdl
  BY <1>15, QueuedStays DEF Types, Ops, free_assoc_resources_hdl, Pop
<1>16. CASE sitesurvey_cmd_hdl
  BY <1>16, QueuedStays DEF Types, Ops, sitesurvey_cmd_hdl, Pop
<1>17. CASE SurveyOver
  BY <1>17, QueuedStays DEF Types, Ops, SurveyOver, Pop
<1>18. CASE rtw_surveydone_event_callback
  <2>1. UNCHANGED <<ah, scan>>
    BY <1>18 DEF rtw_surveydone_event_callback
  <2>2. \/ ~ to_join /\ UNCHANGED <<told, to_roam, assoc>>
        \/ assoc' = TRUE
        \/ to_roam' = 0
    BY <1>18, SurveyDoneEffect DEF Started
  <2>3. CASE ~ to_join /\ UNCHANGED <<told, to_roam, assoc>>
    BY <2>1, <2>3
  <2> QED BY <2>2, <2>3
<1>19. CASE rtw_joinbss_event_callback
  BY <1>19, QueuedStays DEF Types, Ops, rtw_joinbss_event_callback, Pop
<1>20. CASE mlmeext_sta_del_event_callback
  BY <1>20, QueuedStays DEF Types, Ops, mlmeext_sta_del_event_callback, Pop
<1>21. CASE rtw_stadel_event_callback
  <2>1. \/ to_roam' = 0
        \/ assoc' = TRUE
        \/ to_join' = TRUE /\ queue' = Append(queue, "survey")
    BY <1>21, StadelEffect DEF Started, Surveying
  <2>2. CASE to_join' = TRUE /\ queue' = Append(queue, "survey")
    <3>1. SurveyQueued(Append(queue, "survey"))
      BY QueuedStays DEF Types
    <3>2. SurveyQueued(queue')
      BY <2>2, <3>1
    <3>3. RoamAhead'
      BY <2>2, <3>2
    <3> QED BY <3>3
  <2>3. CASE to_roam' = 0
    BY <2>3
  <2> QED BY <2>1, <2>2, <2>3
<1>22. CASE linked_status_chk
  BY <1>22, QueuedStays DEF Types, Ops, linked_status_chk
<1>23. CASE report_surveydone_event
  BY <1>23, QueuedStays DEF Types, Ops, report_surveydone_event
<1>24. CASE OnBeacon
  BY <1>24 DEF Types, Guarding, LockInv, OnBeacon
<1>25. CASE OnAuthClient
  BY <1>25 DEF Types, Guarding, LockInv, OnAuthClient
<1>26. CASE OnAssocRsp
  BY <1>26 DEF Types, Guarding, LockInv, OnAssocRsp
<1>27. CASE OnDeAuth
  BY <1>27, QueuedStays DEF Types, Ops, OnDeAuth
<1>28. CASE start_clnt_auth
  BY <1>28 DEF Types, Guarding, LockInv, start_clnt_auth
<1>29. CASE start_clnt_assoc
  BY <1>29 DEF Types, Guarding, LockInv, start_clnt_assoc
<1>30. CASE AssocResult
  BY <1>30 DEF Types, Guarding, LockInv, AssocResult
<1>31. CASE rtw_joinbss_event_prehandle
  BY <1>31 DEF Types, Guarding, LockInv, rtw_joinbss_event_prehandle
<1>32. CASE rtw_indicate_connect
  BY <1>32 DEF Types, Guarding, LockInv, rtw_indicate_connect
<1>33. CASE CancelAssocTimer
  BY <1>33 DEF Types, Guarding, LockInv, CancelAssocTimer
<1>34. CASE PrehandleReject
  BY <1>34
  DEF Types, Guarding, LockInv, PrehandleReject, PrehandleFailure
<1>35. CASE report_join_res
  BY <1>35, QueuedStays DEF Types, Ops, report_join_res
<1>36. CASE ClearState
  BY <1>36 DEF Types, Guarding, LockInv, ClearState
<1>37. CASE link_timer_hdl
  BY <1>37 DEF Types, Guarding, LockInv, link_timer_hdl
<1>38. CASE LinkFailure
  BY <1>38
  DEF Types, Guarding, LockInv, LinkFailure, PrehandleFailure
<1>39. CASE LinkReport
  BY <1>39, QueuedStays DEF Types, Ops, LinkReport
<1>40. CASE AssocExpires
  BY <1>40 DEF Types, Guarding, LockInv, AssocExpires
<1>41. CASE rtw_join_timeout_handler
  BY <1>41
  DEF Types, Guarding, LockInv, rtw_join_timeout_handler, Roaming,
      rtw_indicate_disconnect, rtw_cfg80211_indicate_disconnect
<1>42. CASE SpendRoam
  BY <1>42 DEF Types, Guarding, LockInv, SpendRoam
<1>43. CASE Roam
  <2>1. \/ to_roam' = 0
        \/ assoc' = TRUE
        \/ to_join' = TRUE /\ queue' = Append(queue, "survey")
        \/ ah' = "roam"
    BY <1>43, RoamEffect DEF Roam, Started, Surveying
  <2>2. CASE to_join' = TRUE /\ queue' = Append(queue, "survey")
    <3>1. SurveyQueued(Append(queue, "survey"))
      BY QueuedStays DEF Types
    <3>2. SurveyQueued(queue')
      BY <2>2, <3>1
    <3>3. RoamAhead'
      BY <2>2, <3>2
    <3> QED BY <3>3
  <2>3. CASE to_roam' = 0
    BY <2>3
  <2> QED BY <2>1, <2>2, <2>3
<1>44. CASE UNCHANGED vars
  BY <1>44 DEF vars, system
<1> QED BY <1>1, <1>2, <1>3, <1>4, <1>5, <1>6, <1>7, <1>8, <1>9, <1>10, <1>11,
       <1>12, <1>13, <1>14, <1>15, <1>16, <1>17, <1>18, <1>19, <1>20, <1>21,
       <1>22, <1>23, <1>24, <1>25, <1>26, <1>27, <1>28, <1>29, <1>30, <1>31,
       <1>32, <1>33, <1>34, <1>35, <1>36, <1>37, <1>38, <1>39, <1>40, <1>41,
       <1>42, <1>43, <1>44
       DEF Next, Step, User, Command, Tasklet, Frame, Timer, vars, system

\* While nobody interferes with the user thread's unlocked section, every way
\* to lose the link tells cfg80211, happens inside a call, or leaves a roaming
\* behind.
LEMMA BeliefStep == Types /\ Guarding /\ BeliefInv /\ [Next]_vars => BeliefInv'
<1> SUFFICES ASSUME Types, Guarding, BeliefInv, [Next]_vars, ~ crossed'
             PROVE  BeliefInv'
  BY DEF BeliefInv
<1>0. ~ crossed
  BY Uncrossed
<1> USE <1>0 DEF BeliefInv, upper, lower, timers, thread, caller
<1>1. CASE cfg80211_rtw_connect
  BY <1>1 DEF cfg80211_rtw_connect
<1>2. CASE cfg80211_rtw_disconnect
  BY <1>2 DEF cfg80211_rtw_disconnect
<1>3. CASE rtw_join_abort
  BY <1>3 DEF rtw_join_abort
<1>4. CASE rtw_join_abort_done
  BY <1>4 DEF rtw_join_abort_done
<1>5. CASE rtw_disassoc_cmd
  BY <1>5 DEF rtw_disassoc_cmd
<1>6. CASE ClearLoad
  BY <1>6 DEF ClearLoad
<1>7. CASE ClearStore
  BY <1>7 DEF ClearStore, AfterDisconnect, Guarding, ClearInv
<1>8. CASE IndicateRoaming
  BY <1>8 DEF IndicateRoaming
<1>9. CASE IndicateAsk
  BY <1>9 DEF IndicateAsk, AfterDisconnect, Types
<1>10. CASE IndicateTell
  BY <1>10 DEF IndicateTell
<1>11. CASE rtw_set_802_11_connect
  BY <1>11, ConnectEffect
  DEF Types, FlagTypes, rtw_set_802_11_connect, Started, Surveying, GivenUp,
      rtw_indicate_disconnect, rtw_cfg80211_indicate_disconnect
<1>12. CASE RecordRequest
  BY <1>12 DEF RecordRequest
<1>13. CASE join_cmd_hdl
  BY <1>13 DEF join_cmd_hdl, Pop
<1>14. CASE disconnect_hdl
  BY <1>14 DEF disconnect_hdl, Pop
<1>15. CASE free_assoc_resources_hdl
  BY <1>15 DEF free_assoc_resources_hdl, Pop
<1>16. CASE sitesurvey_cmd_hdl
  BY <1>16 DEF sitesurvey_cmd_hdl, Pop
<1>17. CASE SurveyOver
  BY <1>17 DEF SurveyOver, Pop
<1>18. CASE rtw_surveydone_event_callback
  <2>1. UNCHANGED <<user, ah, not_indic_disco>> /\ to_roam \in 0 .. 255
    BY <1>18 DEF rtw_surveydone_event_callback, Types
  <2>2. CASE UNCHANGED <<fw, to_roam, connect_req, told>>
    BY <2>1, <2>2
  <2>3. CASE Started(fw, to_roam) /\ to_roam' = to_roam
    BY <2>1, <2>3
    DEF Started, rtw_cfg80211_indicate_disconnect, Types, FlagTypes
  <2>4. CASE rtw_indicate_disconnect(fw, 0)
    BY <2>1, <2>4
    DEF rtw_indicate_disconnect, rtw_cfg80211_indicate_disconnect
  <2> QED BY <1>18, <2>2, <2>3, <2>4, SurveyDoneEffect
<1>19. CASE rtw_joinbss_event_callback
  BY <1>19 DEF rtw_joinbss_event_callback, Pop
<1>20. CASE mlmeext_sta_del_event_callback
  BY <1>20 DEF mlmeext_sta_del_event_callback, Pop
<1>21. CASE rtw_stadel_event_callback
  BY <1>21, StadelEffect
  DEF Types, FlagTypes, rtw_stadel_event_callback, Started, Surveying, GivenUp,
      rtw_indicate_disconnect, rtw_cfg80211_indicate_disconnect
<1>22. CASE linked_status_chk
  BY <1>22 DEF linked_status_chk
<1>23. CASE report_surveydone_event
  BY <1>23 DEF report_surveydone_event
<1>24. CASE OnBeacon
  BY <1>24 DEF OnBeacon
<1>25. CASE OnAuthClient
  BY <1>25 DEF OnAuthClient
<1>26. CASE OnAssocRsp
  BY <1>26 DEF OnAssocRsp
<1>27. CASE OnDeAuth
  BY <1>27 DEF OnDeAuth
<1>28. CASE start_clnt_auth
  BY <1>28 DEF start_clnt_auth
<1>29. CASE start_clnt_assoc
  BY <1>29 DEF start_clnt_assoc
<1>30. CASE AssocResult
  BY <1>30 DEF AssocResult
<1>31. CASE rtw_joinbss_event_prehandle
  BY <1>31 DEF rtw_joinbss_event_prehandle, Guarding, OneFlag
<1>32. CASE rtw_indicate_connect
  BY <1>32 DEF rtw_indicate_connect
<1>33. CASE CancelAssocTimer
  BY <1>33 DEF CancelAssocTimer
<1>34. CASE PrehandleReject
  BY <1>34 DEF PrehandleReject, PrehandleFailure
<1>35. CASE report_join_res
  BY <1>35 DEF report_join_res
<1>36. CASE ClearState
  BY <1>36 DEF ClearState
<1>37. CASE link_timer_hdl
  BY <1>37 DEF link_timer_hdl
<1>38. CASE LinkFailure
  BY <1>38 DEF LinkFailure, PrehandleFailure
<1>39. CASE LinkReport
  BY <1>39 DEF LinkReport
<1>40. CASE AssocExpires
  BY <1>40 DEF AssocExpires
<1>41. CASE rtw_join_timeout_handler
  BY <1>41
  DEF Types, FlagTypes, rtw_join_timeout_handler, rtw_indicate_disconnect,
      rtw_cfg80211_indicate_disconnect
<1>42. CASE SpendRoam
  BY <1>42 DEF SpendRoam
<1>43. CASE Roam
  BY <1>43, RoamEffect
  DEF Types, FlagTypes, Roam, Started, Surveying, GivenUp,
      rtw_indicate_disconnect, rtw_cfg80211_indicate_disconnect
<1>44. CASE UNCHANGED vars
  BY <1>44 DEF vars, system
<1> QED BY <1>1, <1>2, <1>3, <1>4, <1>5, <1>6, <1>7, <1>8, <1>9, <1>10, <1>11,
       <1>12, <1>13, <1>14, <1>15, <1>16, <1>17, <1>18, <1>19, <1>20, <1>21,
       <1>22, <1>23, <1>24, <1>25, <1>26, <1>27, <1>28, <1>29, <1>30, <1>31,
       <1>32, <1>33, <1>34, <1>35, <1>36, <1>37, <1>38, <1>39, <1>40, <1>41,
       <1>42, <1>43, <1>44
       DEF Next, Step, User, Command, Tasklet, Frame, Timer, vars, system

-----------------------------------------------------------------------------
(* Theorems                                                                *)

\* The driver starts in a state that has all the invariants.
LEMMA InitHolds ==
  Init => Types /\ Counting /\ Guarding /\ RoamInv /\ BeliefInv
<1> SUFFICES ASSUME Init
             PROVE  Types /\ Counting /\ Guarding /\ RoamInv /\ BeliefInv
  OBVIOUS
<1>1. SetTypes /\ FlagTypes /\ NameTypes
  BY DEF Init, SetTypes, FlagTypes, NameTypes
<1>2. to_roam \in 0 .. 255
  BY DEF Init
<1>3. queue \in Seq(Ops)
  BY DEF Init
<1>4. Counting
  BY LimitAssumption, BoundAssumption
  DEF Init, Counting, CountTypes, CountInv, LimitAssumption, BoundAssumption
<1>5. Guarding /\ RoamInv /\ BeliefInv
  BY DEF Init, Guarding, LockInv, LinkingGuarded, ClearInv, OneFlag, RoamInv,
         BeliefInv
<1>6. crossed \in BOOLEAN
  BY DEF Init
<1> QED BY <1>1, <1>2, <1>3, <1>4, <1>5, <1>6 DEF Types

\* The names, the flags, the lock and the timer are as they should be.
LEMMA GuardAlways == Spec => [](Types /\ Guarding)
<1>1. Init => Types /\ Guarding
  BY InitHolds
<1>2. Types /\ Guarding /\ [Next]_vars => (Types /\ Guarding)'
  BY TypesStep, GuardStep
<1> QED BY <1>1, <1>2, PTL DEF Spec

\* Every variable keeps its type: in particular link_timer_hdl never counts a
\* repetition beyond the one that ends the attempt, although the frames of the
\* access point and an abort change the state between two of its runs.
THEOREM TypeCorrect == Spec => []TypeOK
<1>1. Init => Counting
  BY InitHolds
<1>2. Counting /\ [Next]_vars => Counting'
  BY CountStep
<1>3. Types /\ Counting => TypeOK
  BY DEF Types, Counting, SetTypes, FlagTypes, NameTypes, CountTypes, TypeOK
<1> QED BY <1>1, <1>2, <1>3, GuardAlways, PTL DEF Spec

\* For any number of calls, frames and roaming attempts, and also while
\* assoc_timer expires during a success, _FW_UNDER_LINKING is never set
\* without assoc_timer or its handler to take it back, until another context
\* interferes with an unlocked rtw_indicate_disconnect.
THEOREM AttemptGuarded == Spec => []LinkingGuarded
<1>1. Types /\ Guarding => LinkingGuarded
  BY DEF Guarding
<1> QED BY <1>1, GuardAlways, PTL

\* cfg80211 is never left believing in a connection that the driver has lost,
\* for any number of calls, frames and roaming attempts and every interleaving
\* in which nobody interferes with an unlocked rtw_indicate_disconnect: the
\* indication reaches it, or the call that lost the connection, a connect that
\* is owed an answer, or a roaming with somebody to end it is still there, or
\* not_indic_disco holds the indication back.
THEOREM BeliefSound == Spec => []BeliefBacked
<1>1. Init => RoamInv /\ BeliefInv
  BY InitHolds
<1>2. Types /\ Guarding /\ RoamInv /\ [Next]_vars => RoamInv'
  BY RoamStep
<1>3. Types /\ Guarding /\ BeliefInv /\ [Next]_vars => BeliefInv'
  BY BeliefStep
<1>4. RoamInv /\ BeliefInv => BeliefBacked
  BY DEF RoamInv, BeliefInv, BeliefBacked, Backed
<1> QED BY <1>1, <1>2, <1>3, <1>4, GuardAlways, PTL DEF Spec
=============================================================================
