------------------------------ MODULE StaMlme ------------------------------
(***************************************************************************)
(* Joining a network as a station, and leaving it: core/rtw_mlme.c (the    *)
(* upper half: fw_state, assoc_timer, roaming), core/rtw_mlme_ext.c (the   *)
(* lower half: pmlmeinfo->state, link_timer, the management frames) and    *)
(* the cfg80211 handlers that start and end a connection.                  *)
(*                                                                         *)
(* Five contexts run at once.  The USER thread is in cfg80211_rtw_connect  *)
(* or cfg80211_rtw_disconnect; the COMMAND thread takes commands and       *)
(* events from one queue; the receive TASKLET handles the frames of the    *)
(* access point; the LINK timer repeats authentication and association     *)
(* frames; the ASSOC timer bounds a whole attempt.  The upper half is      *)
(* changed under mlme_priv.lock (with exceptions), the lower half without  *)
(* a lock.  _cancel_timer_ex is del_timer_sync: it also waits for a        *)
(* handler that is running.                                                *)
(*                                                                         *)
(* There is one access point, one interface and open authentication.  A    *)
(* section under the lock is one step, but for the two whose middle other  *)
(* contexts can see: the success of rtw_joinbss_event_prehandle, and the   *)
(* roaming loop of rtw_join_timeout_handler.  What the user thread does to *)
(* fw_state and to_roam without the lock is taken apart: every load, test, *)
(* report and store of the rtw_indicate_disconnect at the end of           *)
(* _rtw_disconnect is a step of its own.                                   *)
(***************************************************************************)
EXTENDS Integers, Sequences, FiniteSets

CONSTANTS
  ReauthLimit,    \* REAUTH_LIMIT: repeats of an authentication frame
  ReassocLimit,   \* REASSOC_LIMIT: repeats of an association request
  MaxRoam,        \* registrypriv.max_roaming_times
  MaxConnect,     \* bound: calls of cfg80211_rtw_connect
  MaxDisconnect,  \* bound: calls of cfg80211_rtw_disconnect
  MaxDrop,        \* bound: associations the access point ends or lets expire
  TimerRace,      \* assoc_timer may expire while a success is being applied
  SlowCaller      \* the result may come before connect_req is recorded

ASSUME LimitAssumption == ReauthLimit \in Nat /\ ReassocLimit \in Nat
ASSUME RoamAssumption == MaxRoam \in 0 .. 255
ASSUME BoundAssumption == MaxConnect \in Nat /\ MaxDisconnect \in Nat
                          /\ MaxDrop \in Nat
ASSUME RaceAssumption == {TimerRace, SlowCaller} \subseteq BOOLEAN

VARIABLES
  fw,             \* fw_state: _FW_LINKED, _FW_UNDER_LINKING, _FW_UNDER_SURVEY
  to_join,        \* join when the survey is done
  to_roam,        \* u8: roaming attempts left
  scanned,        \* the network is in scanned_queue
  cur,            \* cur_network names the access point
  sta,            \* the access point has a sta_info
  connect_req,    \* pwdev_priv->connect_req: cfg80211 waits for a result
  told,           \* what cfg80211 was told last: a connection is "up", it
                  \* is "down", or connect ended in an "error"
  state,          \* pmlmeinfo->state: its WIFI_FW_* bits
  reauth_count,
  reassoc_count,
  join_abort,
  hw,             \* HW_VAR_MLME_JOIN: "off", "joining" or "on"
  link,           \* link_timer is pending
  lh,             \* where its handler is
  assoc,          \* assoc_timer is pending
  ah,             \* where its handler is
  lock,           \* who holds mlme_priv.lock between two steps
  rx,             \* where the receive tasklet is
  queue,          \* cmd_queue: commands and events
  cmd,            \* the event whose second half the command thread owes
  scan,           \* the survey state machine is scanning
  user,           \* where the user thread is
  goal,           \* what the user thread came for
  loaded,         \* fw_state as the user thread has loaded it
  not_indic_disco, \* while connect runs, no end of a connection is told
  connects, disconnects, drops,
  crossed         \* history: while the user thread was inside its unlocked
                  \* rtw_indicate_disconnect, another context has changed
                  \* what that works on

upper == <<fw, to_join, to_roam, scanned, cur, sta, connect_req, told>>
lower == <<state, reauth_count, reassoc_count, join_abort, hw>>
timers == <<link, lh, assoc, ah, lock>>
thread == <<queue, cmd, scan>>
caller == <<user, goal, loaded, not_indic_disco, connects, disconnects>>
system == <<upper, lower, timers, rx, thread, caller, drops>>
vars == <<system, crossed>>

Bits == {"station", "auth_null", "auth", "auth_success", "assoc",
         "assoc_success"}

Flags == {"linked", "linking", "survey"}

Ops == {"join", "disc", "disc_ack", "free", "free_ack", "survey",
        "surveydone", "join_ok", "join_fail", "stadel", "stadel_roam"}

TypeOK ==
  /\ fw \subseteq Flags
  /\ to_join \in BOOLEAN
  /\ to_roam \in 0 .. 255
  /\ scanned \in BOOLEAN
  /\ cur \in BOOLEAN
  /\ sta \in BOOLEAN
  /\ connect_req \in BOOLEAN
  /\ told \in {"up", "down", "error"}
  /\ state \subseteq Bits
  /\ reauth_count \in 0 .. ReauthLimit + 1
  /\ reassoc_count \in 0 .. ReassocLimit + 1
  /\ join_abort \in BOOLEAN
  /\ hw \in {"off", "joining", "on"}
  /\ link \in BOOLEAN
  /\ lh \in {"idle", "fail", "enqueue"}
  /\ assoc \in BOOLEAN
  /\ ah \in {"idle", "lock", "roam", "try"}
  /\ lock \in {"none", "rx", "assoc"}
  /\ rx \in {"idle", "auth", "assoc", "accept", "reject", "ok", "fail",
             "indicate", "cancel", "enqueue_ok", "enqueue_fail", "drop_fail",
             "drop_enqueue", "drop_clear"}
  /\ queue \in Seq(Ops)
  /\ cmd \in {"idle", "stadel", "stadel_roam", "surveydone"}
  /\ scan \in BOOLEAN
  /\ user \in {"idle", "abort", "wait", "disc", "disc_ack", "free", "free_ack",
               "indicate", "indicate2", "silent", "leave", "leave2", "ask",
               "tell", "drop", "drop2", "abort2", "wait2", "connect", "request"}
  /\ goal \in {"connect", "disconnect"}
  /\ loaded \subseteq Flags
  /\ not_indic_disco \in BOOLEAN
  /\ connects \in 0 .. MaxConnect
  /\ disconnects \in 0 .. MaxDisconnect
  /\ drops \in 0 .. MaxDrop
  /\ crossed \in BOOLEAN

Init ==
  /\ fw = {}
  /\ to_join = FALSE
  /\ to_roam = 0
  /\ scanned \in BOOLEAN
  /\ cur = FALSE
  /\ sta = FALSE
  /\ connect_req = FALSE
  /\ told = "down"
  /\ state = {}
  /\ reauth_count = 0
  /\ reassoc_count = 0
  /\ join_abort = FALSE
  /\ hw = "off"
  /\ link = FALSE
  /\ lh = "idle"
  /\ assoc = FALSE
  /\ ah = "idle"
  /\ lock = "none"
  /\ rx = "idle"
  /\ queue = <<>>
  /\ cmd = "idle"
  /\ scan = FALSE
  /\ user = "idle"
  /\ goal = "disconnect"
  /\ loaded = {}
  /\ not_indic_disco = FALSE
  /\ connects = 0
  /\ disconnects = 0
  /\ drops = 0
  /\ crossed = FALSE

----------------------------------------------------------------------------
(* Parts that several contexts call.                                       *)

\* is_client_associated_to_ap
Associated == {"station", "assoc_success"} \subseteq state

\* rtw_dec_to_roam, on a u8.
rtw_dec_to_roam(roam) == (roam + 255) % 256

\* What join_timeout finds to do: another attempt of a roaming.
Roaming == to_roam > 0

\* Faulty: it tells only who waits for a result.
rtw_cfg80211_indicate_disconnect_unasked(silent) ==
  /\ connect_req' = (connect_req /\ silent)
  /\ told' = IF silent \/ not_indic_disco \/ ~ connect_req THEN told
                                                          ELSE "down"

\* rtw_cfg80211_indicate_disconnect, unless the driver keeps silent.  With
\* not_indic_disco, connect_req is dropped all the same.
rtw_cfg80211_indicate_disconnect(silent) ==
  /\ connect_req' = (connect_req /\ silent)
  /\ told' = IF silent \/ not_indic_disco THEN told ELSE "down"

\* Faulty: it looks at a budget that is still to be cleared.
rtw_indicate_disconnect_early(f, roam) ==
  /\ fw' = f \ {"linked", "linking"}
  /\ rtw_cfg80211_indicate_disconnect(to_roam > 0)

\* rtw_indicate_disconnect, from a fw_state and a roaming budget: cfg80211
\* hears nothing while the driver roams.
rtw_indicate_disconnect(f, roam) ==
  /\ fw' = f \ {"linked", "linking"}
  /\ rtw_cfg80211_indicate_disconnect(roam > 0)

\* Faulty: assoc_timer is not started.
JoinNow_untimed(f, roam) ==
  [ok |-> TRUE, fw |-> (f \ {"linked"}) \cup {"linking"}, to_join |-> FALSE,
   ops |-> (IF "linked" \in f THEN <<"disc", "free">> ELSE <<>>) \o <<"join">>,
   timer |-> FALSE, left |-> "linked" \in f /\ roam = 0]

\* What rtw_do_join can come to, from a fw_state, a scanned queue and a
\* roaming budget.  With a candidate, a linked station is told to leave
\* first.  Without one, the survey may be refused (scan_deny, busy traffic)
\* and is refused when one is under way.
JoinNow(f, roam) ==
  [ok |-> TRUE, fw |-> (f \ {"linked"}) \cup {"linking"}, to_join |-> FALSE,
   ops |-> (IF "linked" \in f THEN <<"disc", "free">> ELSE <<>>) \o <<"join">>,
   timer |-> TRUE, left |-> "linked" \in f /\ roam = 0]

\* Faulty: to_join is not set for the end of the survey.
ScanFirst_forgets(f) ==
  [ok |-> TRUE, fw |-> (f \ {"linking"}) \cup {"survey"}, to_join |-> FALSE,
   ops |-> <<"survey">>, timer |-> FALSE, left |-> FALSE]

ScanFirst(f) ==
  [ok |-> TRUE, fw |-> (f \ {"linking"}) \cup {"survey"}, to_join |-> TRUE,
   ops |-> <<"survey">>, timer |-> FALSE, left |-> FALSE]

Refused(f) ==
  [ok |-> FALSE, fw |-> f \ {"linking"}, to_join |-> FALSE,
   ops |-> <<>>, timer |-> FALSE, left |-> FALSE]

rtw_do_join(f, s, roam) ==
  IF s THEN {JoinNow(f, roam)}
  ELSE {Refused(f)} \cup (IF "survey" \in f THEN {} ELSE {ScanFirst(f)})

\* The outcome j of rtw_do_join applied to what is shared.
Apply(j) ==
  /\ fw' = j.fw
  /\ to_join' = j.to_join
  /\ queue' = queue \o j.ops
  /\ assoc' = (assoc \/ j.timer)
  /\ rtw_cfg80211_indicate_disconnect(~ j.left)

\* rtw_joinbss_event_prehandle of a failure: the attempt is over and
\* assoc_timer is to say so at once.
PrehandleFailure ==
  /\ lock = "none"
  /\ assoc' = TRUE
  /\ fw' = fw \ {"linking"}

\* Results wait for the request they answer, but for a SlowCaller.
Recorded == SlowCaller \/ user # "request"

----------------------------------------------------------------------------
(* The user thread.                                                        *)

\* cfg80211_rtw_connect, up to its first wait: a station that is linked or
\* linking goes through _rtw_disconnect first.
cfg80211_rtw_connect ==
  /\ user = "idle"
  /\ connects < MaxConnect
  /\ connects' = connects + 1
  /\ goal' = "connect"
  /\ not_indic_disco' = TRUE
  /\ user' = IF fw \cap {"linked", "linking"} # {} THEN "abort" ELSE "abort2"
  /\ UNCHANGED <<upper, lower, timers, rx, thread, loaded, disconnects, drops>>

\* cfg80211_rtw_disconnect: rtw_set_to_roam(0), which holds no lock.  A timer
\* handler that is about to spend an attempt may have loaded the count: then
\* its store comes last.
cfg80211_rtw_disconnect ==
  /\ user = "idle"
  /\ disconnects < MaxDisconnect
  /\ disconnects' = disconnects + 1
  /\ goal' = "disconnect"
  /\ user' = "abort"
  /\ to_roam' \in {0} \cup (IF ah = "roam" THEN {to_roam} ELSE {})
  /\ to_join' = FALSE
  /\ UNCHANGED <<fw, scanned, cur, sta, connect_req, told, lower, timers, rx,
                 thread, loaded, not_indic_disco, connects, drops>>

\* _rtw_wait_join_done starts: join_abort, and the link timer in a moment.
rtw_join_abort ==
  /\ user \in {"abort", "abort2"}
  /\ user' = IF user = "abort" THEN "wait" ELSE "wait2"
  /\ join_abort' = TRUE
  /\ link' = TRUE
  /\ UNCHANGED <<upper, state, reauth_count, reassoc_count, hw, lh, assoc, ah,
                 lock, rx, thread, goal, loaded, not_indic_disco, connects,
                 disconnects, drops>>

\* It ends when nothing is joining, or after 300 ms: at any time.  Before and
\* after it cfg80211_rtw_connect may refuse its parameters; for the group
\* cipher it then returns without taking not_indic_disco back.
rtw_join_abort_done ==
  /\ \/ /\ user = "wait"
        /\ user' = "disc"
        /\ UNCHANGED <<told, not_indic_disco>>
     \/ /\ user = "wait2"
        /\ user' = "connect"
        /\ UNCHANGED <<told, not_indic_disco>>
     \/ /\ user \in {"abort2", "wait2"}
        /\ user' = "idle"
        /\ told' = "error"
        /\ not_indic_disco' \in {FALSE, user = "wait2"}
  /\ join_abort' = FALSE
  /\ UNCHANGED <<fw, to_join, to_roam, scanned, cur, sta, connect_req, state,
                 reauth_count, reassoc_count, hw, timers, rx, thread, goal,
                 loaded, connects, disconnects, drops>>

\* rtw_disassoc_cmd and rtw_free_assoc_resources_cmd with RTW_CMDF_WAIT_ACK.
rtw_disassoc_cmd ==
  /\ user \in {"disc", "free"}
  /\ user' = IF user = "disc" THEN "disc_ack" ELSE "free_ack"
  /\ queue' = Append(queue, IF user = "disc" THEN "disc_ack" ELSE "free_ack")
  /\ UNCHANGED <<upper, lower, timers, rx, cmd, scan, goal, loaded,
                 not_indic_disco, connects, disconnects, drops>>

\* The end of _rtw_disconnect is rtw_indicate_disconnect without the lock.
\* Each of its _clr_fwstate_ is a load, a mask and a store: first of
\* _FW_UNDER_LINKING, ...
ClearLoad ==
  /\ user \in {"indicate", "leave", "drop"}
  /\ user' = CASE user = "indicate" -> "indicate2"
               [] user = "leave" -> "leave2"
               [] user = "drop" -> "drop2"
  /\ loaded' = fw
  /\ UNCHANGED <<upper, lower, timers, rx, thread, goal, not_indic_disco,
                 connects, disconnects, drops>>

\* Where the user thread goes when its disconnect is over.
AfterDisconnect == IF goal = "connect" THEN "abort2" ELSE "idle"

ClearStore ==
  /\ user \in {"indicate2", "leave2", "drop2"}
  /\ user' = CASE user = "indicate2" -> "silent"
               [] user = "leave2" -> "ask"
               [] user = "drop2" -> AfterDisconnect
  /\ fw' = loaded \ {IF user = "indicate2" THEN "linking" ELSE "linked"}
  /\ loaded' = {}
  /\ UNCHANGED <<to_join, to_roam, scanned, cur, sta, connect_req, told, lower,
                 timers, rx, thread, goal, not_indic_disco, connects,
                 disconnects, drops>>

\* ... then of _FW_LINKED, before the test when the driver roams, ...
IndicateRoaming ==
  /\ user = "silent"
  /\ user' = IF to_roam > 0 THEN "leave" ELSE "ask"
  /\ UNCHANGED <<upper, lower, timers, rx, thread, goal, loaded,
                 not_indic_disco, connects, disconnects, drops>>

IndicateAsk ==
  /\ user = "ask"
  /\ user' = IF "linked" \in fw \/ to_roam = 0 THEN "tell" ELSE AfterDisconnect
  /\ UNCHANGED <<upper, lower, timers, rx, thread, goal, loaded,
                 not_indic_disco, connects, disconnects, drops>>

\* ... and, when it does not, after the report.
IndicateTell ==
  /\ user = "tell"
  /\ user' = "drop"
  /\ rtw_cfg80211_indicate_disconnect(FALSE)
  /\ UNCHANGED <<fw, to_join, to_roam, scanned, cur, sta, lower, timers, rx,
                 thread, goal, loaded, not_indic_disco, connects, disconnects,
                 drops>>

\* rtw_set_802_11_connect.  Under a survey the join is left to its end; an
\* attempt under way is left alone, and the caller does not learn of it.
rtw_set_802_11_connect ==
  /\ user = "connect"
  /\ lock = "none"
  /\ \/ /\ "survey" \in fw
        /\ to_join' = TRUE
        /\ user' = "request"
        /\ UNCHANGED <<fw, queue, assoc, connect_req, told, not_indic_disco>>
     \/ /\ "survey" \notin fw
        /\ "linking" \in fw
        /\ user' = "request"
        /\ UNCHANGED <<fw, to_join, queue, assoc, connect_req, told,
                       not_indic_disco>>
     \/ /\ fw \cap {"survey", "linking"} = {}
        /\ \E j \in rtw_do_join(fw, scanned, to_roam) :
             \/ /\ j.ok
                /\ Apply(j)
                /\ user' = "request"
                /\ UNCHANGED not_indic_disco
             \/ /\ ~ j.ok
                /\ fw' = j.fw
                /\ to_join' = j.to_join
                /\ user' = "idle"
                /\ told' = "error"
                /\ not_indic_disco' = FALSE
                /\ UNCHANGED <<queue, assoc, connect_req>>
  /\ UNCHANGED <<to_roam, scanned, cur, sta, lower, link, lh, ah, lock, rx,
                 cmd, scan, goal, loaded, connects, disconnects, drops>>

\* connect_req is recorded after the attempt was started; connect is done.
RecordRequest ==
  /\ user = "request"
  /\ user' = "idle"
  /\ connect_req' = TRUE
  /\ not_indic_disco' = FALSE
  /\ UNCHANGED <<fw, to_join, to_roam, scanned, cur, sta, told, lower, timers,
                 rx, thread, goal, loaded, connects, disconnects, drops>>

User ==
  \/ rtw_join_abort
  \/ rtw_join_abort_done
  \/ rtw_disassoc_cmd
  \/ ClearLoad
  \/ ClearStore
  \/ IndicateRoaming
  \/ IndicateAsk
  \/ IndicateTell
  \/ rtw_set_802_11_connect
  \/ RecordRequest

----------------------------------------------------------------------------
(* The command thread.                                                     *)

Pop(op) == /\ cmd = "idle"
           /\ queue # <<>>
           /\ Head(queue) = op

\* rtw_mlmeext_disconnect: it waits for the handler of the link timer.
rtw_mlmeext_disconnect ==
  /\ lh = "idle"
  /\ link' = FALSE
  /\ state' = {}
  /\ hw' = "off"

\* join_cmd_hdl and start_clnt_join: what was associated is dropped, and the
\* beacon of the network is awaited.  (The information elements come from a
\* scanned network and have a legal length, so it does not fail.)
join_cmd_hdl ==
  /\ Pop("join")
  /\ lh = "idle"
  /\ queue' = Tail(queue)
  /\ state' = {"auth_null", "station"}
  /\ hw' = "joining"
  /\ link' = TRUE
  /\ assoc' = TRUE
  /\ UNCHANGED <<upper, reauth_count, reassoc_count, join_abort, lh, ah, lock,
                 rx, cmd, scan, caller, drops>>

disconnect_hdl ==
  /\ \E op \in {"disc", "disc_ack"} :
       /\ Pop(op)
       /\ user' = IF op = "disc_ack" THEN "free" ELSE user
  /\ queue' = Tail(queue)
  /\ rtw_mlmeext_disconnect
  /\ UNCHANGED <<upper, reauth_count, reassoc_count, join_abort, lh, assoc, ah,
                 lock, rx, cmd, scan, goal, loaded, not_indic_disco, connects,
                 disconnects, drops>>

\* rtw_free_assoc_resources: the station and the scanned network go.
rtw_free_assoc_resources ==
  /\ sta' = (sta /\ ~ cur)
  /\ scanned' = (scanned /\ ~ cur)

free_assoc_resources_hdl ==
  /\ \E op \in {"free", "free_ack"} :
       /\ Pop(op)
       /\ user' = IF op = "free_ack" THEN "indicate" ELSE user
  /\ queue' = Tail(queue)
  /\ rtw_free_assoc_resources
  /\ UNCHANGED <<fw, to_join, to_roam, cur, connect_req, told, lower, timers,
                 rx, cmd, scan, goal, loaded, not_indic_disco, connects,
                 disconnects, drops>>

sitesurvey_cmd_hdl ==
  /\ Pop("survey")
  /\ queue' = Tail(queue)
  /\ scan' = TRUE
  /\ UNCHANGED <<upper, lower, timers, rx, cmd, caller, drops>>

\* The scan is over, whether or not it met the network.
report_surveydone_event ==
  /\ scan
  /\ scan' = FALSE
  /\ queue' = Append(queue, "surveydone")
  /\ scanned' \in {TRUE, scanned}
  /\ UNCHANGED <<fw, to_join, to_roam, cur, sta, connect_req, told, lower,
                 timers, rx, cmd, caller, drops>>

\* rtw_surveydone_event_callback takes the lock twice: the survey is over,
\* and, when scan_to_timer is cancelled, the join that waited for it.
SurveyOver ==
  /\ Pop("surveydone")
  /\ lock = "none"
  /\ queue' = Tail(queue)
  /\ cmd' = "surveydone"
  /\ fw' = fw \ {"survey"}
  /\ UNCHANGED <<to_join, to_roam, scanned, cur, sta, connect_req, told, lower,
                 timers, rx, scan, caller, drops>>

\* _FW_UNDER_LINKING is set before the queue is searched, so the survey that
\* would retry a roaming is always refused by rtw_sitesurvey_condition_check,
\* and the roaming ends here.
rtw_surveydone_event_callback ==
  /\ cmd = "surveydone"
  /\ lock = "none"
  /\ Recorded
  /\ cmd' = "idle"
  /\ \/ /\ ~ to_join
        /\ UNCHANGED <<fw, to_join, to_roam, scanned, sta, connect_req, told,
                       queue, assoc>>
     \/ /\ to_join
        /\ scanned
        /\ Apply(JoinNow(fw, to_roam))
        /\ UNCHANGED <<to_roam, scanned, sta>>
     \/ /\ to_join
        /\ ~ scanned
        /\ to_join' = FALSE
        /\ to_roam' = 0
        /\ rtw_indicate_disconnect(fw, 0)
        /\ IF to_roam # 0 THEN rtw_free_assoc_resources
                          ELSE UNCHANGED <<sta, scanned>>
        /\ UNCHANGED <<queue, assoc>>
  /\ UNCHANGED <<cur, lower, link, lh, ah, lock, rx, scan, caller, drops>>

\* mlmeext_joinbss_event_callback tells the hardware how the join ended.
rtw_joinbss_event_callback ==
  /\ \E op \in {"join_ok", "join_fail"} :
       /\ Pop(op)
       /\ hw' = IF op = "join_ok" THEN "on" ELSE "off"
  /\ queue' = Tail(queue)
  /\ UNCHANGED <<upper, state, reauth_count, reassoc_count, join_abort, timers,
                 rx, cmd, scan, caller, drops>>

\* rtw_stadel_event_callback, before it takes the lock.
mlmeext_sta_del_event_callback ==
  /\ \E op \in {"stadel", "stadel_roam"} :
       /\ Pop(op)
       /\ cmd' = op
  /\ queue' = Tail(queue)
  /\ IF Associated THEN rtw_mlmeext_disconnect
                   ELSE UNCHANGED <<link, state, hw>>
  /\ UNCHANGED <<upper, reauth_count, reassoc_count, join_abort, lh, assoc, ah,
                 lock, rx, scan, caller, drops>>

\* The attempts rtw_stadel_event_callback gives a roaming: one less of those
\* that are left, or a new budget when no roaming is under way.
RoamBudget ==
  IF cmd = "stadel" THEN 0
  ELSE IF to_roam > 0 THEN rtw_dec_to_roam(to_roam) ELSE MaxRoam

\* And under it: the roaming budget, the resources, the indication, and
\* _rtw_roaming, which spends an attempt on every refusal of rtw_do_join.
rtw_stadel_event_callback ==
  /\ cmd \in {"stadel", "stadel_roam"}
  /\ lock = "none"
  /\ Recorded
  /\ cmd' = "idle"
  /\ rtw_free_assoc_resources
  /\ \/ /\ RoamBudget = 0
        /\ to_roam' = 0
        /\ to_join' = (to_join /\ cmd # "stadel" /\ to_roam > 0)
        /\ rtw_indicate_disconnect(fw, 0)
        /\ UNCHANGED <<queue, assoc>>
     \/ /\ RoamBudget > 0
        /\ \E j \in rtw_do_join(fw \ {"linked", "linking"}, scanned',
                                RoamBudget) :
             \/ /\ j.ok
                /\ to_roam' \in IF scanned' THEN {RoamBudget}
                                            ELSE 1 .. RoamBudget
                /\ Apply(j)
             \/ /\ ~ j.ok
                /\ to_roam' = 0
                /\ to_join' = FALSE
                /\ rtw_indicate_disconnect(fw, 0)
                /\ UNCHANGED <<queue, assoc>>
  /\ UNCHANGED <<cur, lower, link, lh, ah, lock, rx, scan, caller, drops>>

\* Faulty: the state is cleared and no event is sent.
linked_status_chk_silent ==
  /\ cmd = "idle"
  /\ drops < MaxDrop
  /\ Associated
  /\ sta
  /\ drops' = drops + 1
  /\ state' = {}
  /\ UNCHANGED <<upper, reauth_count, reassoc_count, join_abort, hw, timers, rx,
                 thread, caller>>

\* linked_status_chk runs in this thread: the access point is not heard any
\* more, and receive_disconnect asks for roaming.
linked_status_chk ==
  /\ cmd = "idle"
  /\ drops < MaxDrop
  /\ Associated
  /\ sta
  /\ drops' = drops + 1
  /\ queue' = Append(queue, "stadel_roam")
  /\ state' = {}
  /\ UNCHANGED <<upper, reauth_count, reassoc_count, join_abort, hw, timers, rx,
                 cmd, scan, caller>>

Command ==
  \/ join_cmd_hdl
  \/ disconnect_hdl
  \/ free_assoc_resources_hdl
  \/ sitesurvey_cmd_hdl
  \/ SurveyOver
  \/ rtw_surveydone_event_callback
  \/ rtw_joinbss_event_callback
  \/ mlmeext_sta_del_event_callback
  \/ rtw_stadel_event_callback

----------------------------------------------------------------------------
(* The receive tasklet.  A frame is looked at in one step and acted upon   *)
(* in the next, after _cancel_timer_ex has waited for the link timer.      *)

OnBeacon ==
  /\ rx = "idle"
  /\ "auth_null" \in state
  /\ \/ /\ join_abort
        /\ link' = TRUE
        /\ UNCHANGED rx
     \/ /\ ~ join_abort
        /\ rx' = "auth"
        /\ UNCHANGED link
  /\ UNCHANGED <<upper, lower, lh, assoc, ah, lock, thread, caller, drops>>

start_clnt_auth ==
  /\ rx = "auth"
  /\ lh = "idle"
  /\ rx' = "idle"
  /\ state' = (state \ {"auth_null"}) \cup {"auth"}
  /\ reauth_count' = 0
  /\ reassoc_count' = 0
  /\ link' = TRUE
  /\ UNCHANGED <<upper, join_abort, hw, lh, assoc, ah, lock, thread, caller,
                 drops>>

\* A refusal, or a challenge, is answered when the link timer expires.
OnAuthClient ==
  /\ rx = "idle"
  /\ "auth" \in state
  /\ ~ join_abort
  /\ \/ /\ link' = TRUE
        /\ UNCHANGED rx
     \/ /\ rx' = "assoc"
        /\ UNCHANGED link
  /\ UNCHANGED <<upper, lower, lh, assoc, ah, lock, thread, caller, drops>>

start_clnt_assoc ==
  /\ rx = "assoc"
  /\ lh = "idle"
  /\ rx' = "idle"
  /\ state' = (state \ {"auth_null", "auth"}) \cup {"auth_success", "assoc"}
  /\ link' = TRUE
  /\ UNCHANGED <<upper, reauth_count, reassoc_count, join_abort, hw, lh, assoc,
                 ah, lock, thread, caller, drops>>

OnAssocRsp ==
  /\ rx = "idle"
  /\ state \cap {"auth_success", "assoc"} # {}
  /\ ~ join_abort
  /\ "assoc_success" \notin state
  /\ rx' \in {"accept", "reject"}
  /\ UNCHANGED <<upper, lower, timers, thread, caller, drops>>

\* The rest of OnAssocRsp, from _cancel_timer_ex to report_join_res.
AssocResult ==
  /\ rx \in {"accept", "reject"}
  /\ lh = "idle"
  /\ link' = FALSE
  /\ state' = IF rx = "accept" THEN (state \ {"assoc"}) \cup {"assoc_success"}
                               ELSE {}
  /\ rx' = IF rx = "accept" THEN "ok" ELSE "fail"
  /\ UNCHANGED <<upper, reauth_count, reassoc_count, join_abort, hw, lh, assoc,
                 ah, lock, thread, caller, drops>>

\* rtw_joinbss_event_prehandle of a success.  Nothing is applied when no
\* attempt is under way or its network is gone.  Else the lock is kept until
\* assoc_timer is cancelled, and rtw_joinbss_update_network assigns fw_state
\* anew, which ends the attempt.
rtw_joinbss_event_prehandle ==
  /\ rx = "ok"
  /\ lock = "none"
  /\ Recorded
  /\ \/ /\ ~ ("linking" \in fw /\ scanned)
        /\ rx' = "enqueue_ok"
        /\ UNCHANGED <<upper, lock>>
     \/ /\ "linking" \in fw
        /\ scanned
        /\ TimerRace \/ ah = "idle"
        /\ rx' = "indicate"
        /\ lock' = "rx"
        /\ fw' = {}
        /\ cur' = TRUE
        /\ sta' = TRUE
        /\ UNCHANGED <<to_join, to_roam, scanned, connect_req, told>>
  /\ UNCHANGED <<lower, link, lh, assoc, ah, thread, caller, drops>>

\* s4: cfg80211 is told unless _FW_LINKED is set, which under the lock only
\* the store of an unlocked clearing can do.
rtw_indicate_connect ==
  /\ rx = "indicate"
  /\ rx' = "cancel"
  /\ to_join' = FALSE
  /\ to_roam' = 0
  /\ fw' = fw \cup {"linked"}
  /\ connect_req' = (connect_req /\ "linked" \in fw)
  /\ told' = IF "linked" \in fw THEN told ELSE "up"
  /\ UNCHANGED <<scanned, cur, sta, lower, timers, thread, caller, drops>>

\* s5: _cancel_timer_ex waits for a handler that is running.
CancelAssocTimer ==
  /\ rx = "cancel"
  /\ ah = "idle"
  /\ rx' = "enqueue_ok"
  /\ lock' = "none"
  /\ assoc' = FALSE
  /\ UNCHANGED <<upper, lower, link, lh, ah, thread, caller, drops>>

\* The same for a failure: a rejected request, or a frame of the access
\* point that ends an attempt.
PrehandleReject ==
  /\ rx \in {"fail", "drop_fail"}
  /\ rx' = IF rx = "fail" THEN "enqueue_fail" ELSE "drop_enqueue"
  /\ PrehandleFailure
  /\ UNCHANGED <<to_join, to_roam, scanned, cur, sta, connect_req, told, lower,
                 link, lh, ah, lock, thread, caller, drops>>

\* Faulty: the event of a success is lost.
report_join_res_lost ==
  /\ rx \in {"enqueue_ok", "enqueue_fail", "drop_enqueue"}
  /\ queue' = IF rx = "enqueue_ok" THEN queue ELSE Append(queue, "join_fail")
  /\ rx' = IF rx = "drop_enqueue" THEN "drop_clear" ELSE "idle"
  /\ UNCHANGED <<upper, lower, timers, cmd, scan, caller, drops>>

\* The end of report_join_res: the event, for the command thread.
report_join_res ==
  /\ rx \in {"enqueue_ok", "enqueue_fail", "drop_enqueue"}
  /\ queue' = Append(queue,
                     IF rx = "enqueue_ok" THEN "join_ok" ELSE "join_fail")
  /\ rx' = IF rx = "drop_enqueue" THEN "drop_clear" ELSE "idle"
  /\ UNCHANGED <<upper, lower, timers, cmd, scan, caller, drops>>

\* OnDeAuth and OnDisassoc: receive_disconnect reports first and clears the
\* state afterwards.
OnDeAuth ==
  /\ rx = "idle"
  /\ drops < MaxDrop
  /\ "station" \in state
  /\ drops' = drops + 1
  /\ \/ /\ "assoc_success" \in state
        /\ queue' = Append(queue, "stadel")
        /\ rx' = "drop_clear"
     \/ /\ "assoc_success" \notin state
        /\ rx' = "drop_fail"
        /\ UNCHANGED queue
  /\ UNCHANGED <<upper, lower, timers, cmd, scan, caller>>

ClearState ==
  /\ rx = "drop_clear"
  /\ rx' = "idle"
  /\ state' = {}
  /\ UNCHANGED <<upper, reauth_count, reassoc_count, join_abort, hw, timers,
                 thread, caller, drops>>

Tasklet ==
  \/ start_clnt_auth
  \/ start_clnt_assoc
  \/ AssocResult
  \/ rtw_joinbss_event_prehandle
  \/ rtw_indicate_connect
  \/ CancelAssocTimer
  \/ PrehandleReject
  \/ report_join_res
  \/ ClearState

Frame == OnBeacon \/ OnAuthClient \/ OnAssocRsp \/ OnDeAuth

----------------------------------------------------------------------------
(* The timers.                                                             *)

\* Faulty: the limit is looked at before the count is raised.
Spent_late(count, limit) == count > limit

\* ++count > LIMIT
Spent(count, limit) == count + 1 > limit

\* link_timer_hdl: give up, or send the frame again and start over.
link_timer_hdl ==
  /\ link
  /\ lh = "idle"
  /\ LET abort == join_abort /\ state # {}
         beacon == "auth_null" \in state
         reauth == ~ beacon /\ "auth" \in state
         reassoc == ~ beacon /\ ~ reauth /\ "assoc" \in state
         last == \/ reauth /\ Spent(reauth_count, ReauthLimit)
                 \/ reassoc /\ Spent(reassoc_count, ReassocLimit)
         count(c, on) == IF on /\ ~ abort THEN c + 1 ELSE c
     IN /\ reauth_count' = count(reauth_count, reauth)
        /\ reassoc_count' = count(reassoc_count, reassoc)
        /\ \/ /\ abort \/ beacon \/ last
              /\ state' = {}
              /\ lh' = "fail"
              /\ link' = FALSE
           \/ /\ ~ (abort \/ beacon \/ last)
              /\ link' = (reauth \/ reassoc)
              /\ UNCHANGED <<state, lh>>
  /\ UNCHANGED <<upper, join_abort, hw, assoc, ah, lock, rx, thread, caller,
                 drops>>

\* Its report_join_res.
LinkFailure ==
  /\ lh = "fail"
  /\ lh' = "enqueue"
  /\ PrehandleFailure
  /\ UNCHANGED <<to_join, to_roam, scanned, cur, sta, connect_req, told, lower,
                 link, ah, lock, rx, thread, caller, drops>>

LinkReport ==
  /\ lh = "enqueue"
  /\ lh' = "idle"
  /\ queue' = Append(queue, "join_fail")
  /\ UNCHANGED <<upper, lower, link, assoc, ah, lock, rx, cmd, scan, caller,
                 drops>>

\* assoc_timer expires; its handler still has to take the lock.
AssocExpires ==
  /\ assoc
  /\ ah = "idle"
  /\ TimerRace \/ rx \notin {"indicate", "cancel"}
  /\ assoc' = FALSE
  /\ ah' = "lock"
  /\ UNCHANGED <<upper, lower, link, lh, lock, rx, thread, caller, drops>>

\* rtw_join_timeout_handler.  Unless it is roaming, it tells cfg80211 in any
\* case and forgets every scanned network.
rtw_join_timeout_handler ==
  /\ ah = "lock"
  /\ lock = "none"
  /\ Recorded
  /\ \/ /\ Roaming
        /\ ah' = "roam"
        /\ lock' = "assoc"
        /\ UNCHANGED upper
     \/ /\ ~ Roaming
        /\ ah' = "idle"
        /\ rtw_indicate_disconnect(fw, 0)
        /\ scanned' = FALSE
        /\ UNCHANGED <<to_join, to_roam, cur, sta, lock>>
  /\ UNCHANGED <<lower, link, lh, assoc, rx, thread, caller, drops>>

\* A turn of its loop spends an attempt first.  to_roam is a u8.
SpendRoam ==
  /\ ah = "roam"
  /\ ah' = "try"
  /\ to_roam' = rtw_dec_to_roam(to_roam)
  /\ UNCHANGED <<fw, to_join, scanned, cur, sta, connect_req, told, lower, link,
                 lh, assoc, lock, rx, thread, caller, drops>>

\* The rest of the turn: none is left, or the next attempt is started.
Roam ==
  /\ ah = "try"
  /\ \/ /\ to_roam = 0
        /\ ah' = "idle"
        /\ lock' = "none"
        /\ rtw_indicate_disconnect(fw, 0)
        /\ UNCHANGED <<to_join, queue, assoc>>
     \/ /\ to_roam # 0
        /\ \E j \in rtw_do_join(fw, scanned, to_roam) :
             /\ Apply(j)
             /\ ah' = IF j.ok THEN "idle" ELSE "roam"
             /\ lock' = IF j.ok THEN "none" ELSE lock
  /\ UNCHANGED <<to_roam, scanned, cur, sta, lower, link, lh, rx, cmd, scan,
                 caller, drops>>

Timer ==
  \/ link_timer_hdl
  \/ LinkFailure
  \/ LinkReport
  \/ AssocExpires
  \/ rtw_join_timeout_handler
  \/ SpendRoam
  \/ Roam

----------------------------------------------------------------------------
Step ==
  \/ cfg80211_rtw_connect
  \/ cfg80211_rtw_disconnect
  \/ User
  \/ Command
  \/ linked_status_chk
  \/ report_surveydone_event
  \/ Frame
  \/ Tasklet
  \/ Timer

\* The user thread is inside its rtw_indicate_disconnect.
Indicating == user \in {"indicate2", "silent", "leave", "leave2", "ask", "tell",
                       "drop", "drop2"}

Next ==
  /\ Step
  /\ crossed' = (crossed \/ /\ Indicating
                            /\ user' = user
                            /\ <<fw', told'>> # <<fw, told>>)

\* The threads, the tasklet once it has a frame, the timers and the scan go
\* on; the user and the access point owe nothing.
Fairness ==
  /\ WF_system(User)
  /\ WF_system(Command)
  /\ WF_system(report_surveydone_event)
  /\ WF_system(Tasklet)
  /\ WF_system(link_timer_hdl \/ LinkFailure \/ LinkReport)
  /\ WF_system(AssocExpires \/ rtw_join_timeout_handler \/ SpendRoam
               \/ Roam)

Spec == Init /\ [][Next]_vars /\ Fairness

----------------------------------------------------------------------------
(* What has to hold.                                                       *)

\* An attempt never waits for ever: while _FW_UNDER_LINKING is set, either
\* assoc_timer is pending or its handler has started.  (A stale store of the
\* user thread can set the flag again when the attempt is over: crossed.)
LinkingGuarded == ~ crossed /\ "linking" \in fw => assoc \/ ah # "idle"

\* A survey is queued, or its end.
SurveyQueued(q) == \E i \in 1 .. Len(q) : q[i] \in {"survey", "surveydone"}

\* What can still end a roaming or finish it: assoc_timer, or a survey that
\* is to be followed by a join.
RoamAhead ==
  \/ assoc
  \/ ah # "idle"
  \/ to_join /\ (scan \/ cmd = "surveydone" \/ SurveyQueued(queue))

\* cfg80211 believes in a connection only while the driver is linked, is
\* being called, owes it the result of a connect, is roaming, or keeps silent
\* since a refused connect; and a roaming is never forgotten: its end is
\* ahead, or is about to be told.  This is what the lock of fw_state is there
\* for; the unlocked end of _rtw_disconnect breaks it.
Backed ==
  told = "up" => \/ "linked" \in fw
                 \/ user # "idle"
                 \/ connect_req
                 \/ not_indic_disco
                 \/ ah = "try"
                 \/ to_roam > 0 /\ RoamAhead

\* It is kept, over any number of connects, disconnects and drops, until
\* another context changes fw_state or reports to cfg80211 in the middle of
\* that unlocked section.
BeliefBacked == ~ crossed => Backed

\* A link never outlives its association for good: when the lower half has
\* given the association up and the upper half is still linked, the two
\* agree again.
LinkSettles ==
  ("linked" \in fw /\ ~ Associated) ~> ("linked" \notin fw \/ Associated)

\* The hardware follows: a link that lasts is one it was told of last.
LinkUsable == <>[]("linked" \in fw) => <>[](hw = "on")

\* Every connect that was accepted is answered, unless a later connect of
\* the same caller has failed in the meantime.
Answered == connect_req ~> (~ connect_req \/ told = "error")

\* The lock is given back (TimerRace).
LockReleased == lock = "rx" ~> lock # "rx"

\* The driver never has more roaming attempts than it was configured with
\* (violated: disconnect clears the count while the timer handler spends it).
RoamBounded == to_roam <= MaxRoam

----------------------------------------------------------------------------
(* What makes these inductive.                                             *)

\* Who holds mlme_priv.lock between two steps, and what it then relies on.
LockInv ==
  /\ lock = "rx" <=> rx \in {"indicate", "cancel"}
  /\ lock = "assoc" <=> ah \in {"roam", "try"}
  /\ rx \in {"indicate", "cancel"} /\ ~ crossed => "linking" \notin fw
  /\ rx = "cancel" => to_roam = 0

\* The user thread between the load and the store of fw_state, and after it
\* has told cfg80211.
ClearInv ==
  ~ crossed => /\ user \in {"indicate2", "leave2", "drop2"} => loaded = fw
               /\ user \in {"drop", "drop2"} => told # "up" \/ not_indic_disco

\* A request is counted only in the state it belongs to.
CountInv ==
  /\ "assoc" \in state => state \cap {"auth_null", "auth"} = {}
  /\ "auth" \in state => /\ reauth_count <= ReauthLimit
                         /\ reassoc_count <= ReassocLimit
  /\ "assoc" \in state => reassoc_count <= ReassocLimit
  /\ rx = "auth" => "assoc" \notin state
  /\ rx = "assoc" => "assoc" \notin state /\ reassoc_count <= ReassocLimit

\* A roaming cfg80211 does not know of is never forgotten.
RoamInv == told = "up" /\ to_roam > 0 => RoamAhead

\* Without it nobody would ever say that the connection is gone.
BeliefInv ==
  ~ crossed /\ told = "up" =>
    \/ "linked" \in fw \/ user # "idle" \/ connect_req \/ not_indic_disco
    \/ ah = "try" \/ to_roam > 0
=============================================================================
