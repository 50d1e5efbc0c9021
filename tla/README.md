# TLA+ models of the X96 mini board support

The repository turns an X96 mini TV box (fake S905L3) into an Armbian machine.
Its own logic is in two places: the shell scripts that install things on a live
board (`scripts/`, `artifacts/`), and the out-of-tree Wi-Fi driver
`src/rtl8189ES_linux/`, which is where everything concurrent happens. This
directory holds TLA+ models of five parts of it, the TLC runs that check them,
and TLAPS proofs about each of them. Source paths below are relative to the
repository root; `core/`, `hal/` and `os_dep/` are directories of the driver.

## 1. Inventory

| Component | State | Operations | Talks to |
|---|---|---|---|
| HDMI test boot installer, `scripts/install-hdmi-test-boot.sh` | boot files, backup directories, state file, confirm file, rollback unit | install, `--confirm`, `--rollback`, `--service-rollback` | systemd, the boot loader, the operator |
| A-MPDU receive reordering, `core/rtw_recv.c` | `recv_reorder_ctrl`: window start, pending list, timer, enable | receive a frame, time out, ADDBA, DELBA, BAR, rejoin, free | receive tasklet, timer, command thread, peer |
| Command queue and thread, `core/rtw_cmd.c` | queue, semaphore, commands, `submit_ctx` on callers' stacks | submit, wait, take, execute, report, free, drain, stop, restart | ioctl and cfg80211 handlers, power handshake |
| LPS power handshake, `core/rtw_pwrctrl.c` | rpwm, cpwm, alives, LPS mode | register, unregister, enter and leave LPS, CPWM interrupt | command thread, transmit thread, firmware |
| SDIO transmit path, `core/rtw_xmit.c`, `os_dep/linux/xmit_linux.c`, `hal/rtl8188e/sdio/` | pools of frames and buffers, stopped subqueues, the threads' semaphores, free pages of the chip and the driver's copy of them | queue, aggregate, write, release, free a station, unload | network stack, two threads, chip, scan, power handshake |
| Scan, join, authentication, `core/rtw_mlme.c`, `core/rtw_mlme_ext.c`, `os_dep/linux/ioctl_cfg80211.c` | link state of an upper and a lower half, two timers, roaming budget, the pending request of cfg80211 | connect, survey, authenticate, associate, lose the access point, roam, disconnect | command thread, receive tasklet, timers, cfg80211, access point |
| OS-disk installer, `scripts/install-hdmi-test-os-disk.sh` | files of an unmounted disk | mount, check, copy, verify | operator |
| eMMC queue limits, `scripts/install-emmc-queue-limits.sh` | sysfs limits, a unit | install, apply at boot | systemd |
| Wi-Fi module installer, board installer, builders | files | straight-line copies, calls of make, dtc, git | operator |
| AP, P2P, mesh, PHY tuning, efuse, firmware images | - | - | not used by the board, or numeric and hardware-bound |

What is hard, and what correctness means there:

- **Installer.** Power can fail and copies can fail between any two commands,
  and the rollback service runs beside the operator's shell. A test boot must
  never be without a rollback that restores exactly what was accepted, and a
  confirmation must stand.
- **Reordering.** The receive path, a timer and the command thread share a
  structure of which only the list is locked, and numbers wrap. Frames must
  leave in order, once, and none may be stuck.
- **Command thread.** A caller's timeout races the thread's report through a
  pointer into the caller's stack; commands go back to the queue when the
  firmware sleeps; the thread is stopped while others submit. No access to a
  dead stack frame or a freed command, no reordering, no lost wake-up, and a
  stop that ends.
- **Power.** Two threads and a work item agree with the firmware through two
  registers, and an answer can be late or lost. Nothing may be sent to a
  sleeping firmware.
- **Transmission.** The stack, two threads and the chip wait for one another
  through semaphores, an interrupt that is armed for one queue at a time,
  and counts that are taken before or after the resource they count. Nothing may
  be lost, reordered or left waiting, also when a station leaves, and unloading
  must end.
- **Joining.** Five contexts change the state of a connection, not
  all of them under the lock that protects it, and each can end an attempt. An attempt must
  end, its caller must hear of it, and cfg80211, the upper half, the lower half
  and the hardware must agree in the end.

`PROJECT.json` lists each hazard at its line with the properties aimed at it.

## 2. Modules

| Module | What it is |
|---|---|
| `HdmiTestBoot` | the installer, the service, the board and its faults |
| `RecvReorder` | one station's and one TID's reorder buffer, with its peer |
| `PwrCtrl` | RPWM/CPWM handshake, transmit thread, firmware (no `Spec` of its own) |
| `CmdThread` | EXTENDS `PwrCtrl`: clients, command thread, interface; the composed `Spec` |
| `CmdQueue` | abstract specification of the command service: calls, answers, order |
| `SdioXmit` | stack, aggregator, writer, chip, scan, stations, unloading |
| `StaMlme` | a station joins, roams and leaves: user, command thread, tasklet, two timers |
| `HdmiTestBootProofs`, `RecvReorderProofs`, `CmdThreadProofs`, `CmdQueueProofs`, `SdioXmitProofs`, `StaMlmeProofs` | theorems about the module of that name; `CmdQueueProofs` shows that `CmdThread` implements `CmdQueue` |
| `RecvWindowProofs` | theorems about the window arithmetic and the order of frames in `RecvReorder` |
| `FiniteSums` | lemmas about least elements, induction over finite sets and `SumFunction`, for the two modules that need them |
| `MC*` | instances for TLC; the `.cfg` files give the bounds |

Operators whose name ends in `_unguarded`, `_nowait` and the like are faulty
variants of the operator that follows them. They are used nowhere; they show
that a property can fail.

### HdmiTestBoot

Every command of the script that changes a file is one action: the operator's
script walks through `opc` and `oi`, the service through `spc` and `si`. A
file's content is the number of the installation that provided it (0: the
original). `good` and `accepted` are history: what the operator last accepted.
The order backup, state file, service, copy, sync is the script's. A power cut
(`PowerCut`) ends both processes and may leave the file being written `Torn`;
with `WriteBack` it may also lose anything written since the last `sync`. A
failed `cp` (`InstallCopyFails`, `ServiceCopyFails`) truncates its target and
ends that script, as `set -e` does. `Boot` starts the service when the unit is
enabled; a test version may also fail to boot (`"dead"`), which the script does
not claim to handle. `--rollback-delay` is an arbitrary delay.

Three assumptions about the operator are constants: `AllowForce`, `AllowLate`
(a `--confirm` after the delay has expired) and `Resumes` (a command that was
interrupted is repeated before a new installation is started).

### RecvReorder

One action per critical section or unlocked access. `RxCheckEnable` and
`RxReorder` are `recv_func_posthandle` and the locked part of
`recv_indicatepkt_reorder`; the timer is cancelled only after the lock is
released (`RxCancelTimer`), and cancelling waits for a running handler. An
expired timer is `handler`, then `timeout_handler` under the lock.
`add_ba_rsp_hdl` is split where the response is on the air. Frames have true
numbers; the driver's operators see only `SN(n) = n % M`, so the properties can
speak of the real order. The peer is external: it sends within its window of
`W` frames, gives up on at most `Gap` in a row, and aggregates only when it has
a session. `Events` chooses what else may happen.

### PwrCtrl and CmdThread

All of the driver's handshake runs under `pwrpriv->lock`, so each function is
one step. S0 and S1 are `"low"`, S2 to S4 `"high"`; no branch that is compiled
and reachable without P2P power save tells the members apart. The board's
module options (`scripts/install-8189es-module.sh:28`) switch LPS and IPS off;
the models cover both settings through `Lps` and `Ips`. LPS may be entered again
while the answer to an earlier wake-up is outstanding, since the code does not
forbid it; the history variable `stale` remembers such a period. An answer that the
chip owes when it is switched off (`rtw_hal_deinit`, for IPS or a stop) counts as
lost.

`CmdThread` gives `rtw_cmd_thread` one action per statement that others can
see. A waiting client's `submit_ctx` is `status[k]`, a command's pointer to it
`sctx[c]`; `ClearSctx` is what the caller does after `rtw_sctx_wait`, under
`sctx_mutex`; `Post` and `NullSctx` are the two halves of the thread's report.
A wait may time out at any moment. What a command's handler does is left out,
except that it may switch the chip off (`IpsDown`). Command numbers are never
reused, so that an access to a freed command can be told.

### CmdQueue

What a caller may rely on: an accepted command finishes in turn, a caller that
wants an answer gets it at most once, during that very call, and a command never
finishes under a caller that still waits for it. `CmdThread` implements it
(`ImplementsQueue`) with `pending <- InHand \o queue`: `Submit` is `Call` or
`Reject`, `_rtw_enqueue_cmd` is `Accept`, `Post` is `Answer`,
`rtw_free_cmd_obj` is `Finish`, the end of `rtw_enqueue_cmd` or `ClearSctx` is
`Return`, and every other step of the thread (taking a command, putting it back
and draining included), the power handshake and the interface stutters.

### SdioXmit

| Actor | Actions |
|---|---|
| network stack | `xmit_entry`, `hal_xmit` (one subqueue at a time), `mgnt_xmit` |
| aggregator, RTWHALXT | `agg_*`: wait, choose a category, take a station's frames, allocate, copy, put in the queue |
| writer, RTW_XMIT_THREAD | `writer_*`: wait and register, select, compare pages, arm the interrupt and look again, wait for the outstanding queue, write, count the buffer |
| chip (external) | `chip_send`, `fw_sleep`; the driver answers with `sd_int_dpc` and `cpwm_int_hdl` |
| scan | `scan_start`, `scan_end`, `rtw_os_xmit_schedule` |
| stations | `rtw_free_stainfo` (unlink), `free_xmitframe_queues` (flush), `rtw_alloc_stainfo` |
| unloading | `rtw_dev_unload`, `stop_writer`, `stop_up`, `stop_down`, `stop_done` |

A section under `pxmitpriv->lock` is one step; what a thread does after it has
given the lock back (counting a buffer, asking for pages) is another. A packet
is its station and its number among the packets of that station and category; a
frame takes one page. A Linux semaphore serves a sleeper before a thread that
comes later. Assumed: `wifi_spec = 0`, one interface, no signals to the threads,
a threshold interrupt that is raised when enough pages become free while it is
armed, and unloading after the interface was closed and the stations are gone.
LPS is reduced to asleep, waking and awake; its handshake is `PwrCtrl`.

### StaMlme

`fw`, `to_join`, `to_roam`, `scanned`, `cur`, `sta` are the upper half
(`mlme_priv`), `state`, the two counters, `join_abort` and `hw` the lower half
(`mlme_ext_info` and the join register of the chip); `connect_req` and `told` are
what cfg80211 waits for and what it was told last.

| Context | Actions |
|---|---|
| user thread, in `cfg80211_rtw_connect` or `_disconnect` | start, `rtw_join_abort` and its end, the two commands with their acknowledgement, the unlocked `rtw_indicate_disconnect` (`ClearLoad`, `ClearStore`, `IndicateRoaming`, `IndicateAsk`, `IndicateTell`), `rtw_set_802_11_connect`, `RecordRequest` |
| command thread | `join_cmd_hdl`, `disconnect_hdl`, `free_assoc_resources_hdl`, `sitesurvey_cmd_hdl`, the events for a survey, a join and a lost station, `linked_status_chk` |
| receive tasklet | `OnBeacon`, `OnAuthClient`, `OnAssocRsp`, `OnDeAuth` (also for `OnDisassoc`), and what each does after waiting for the link timer; `rtw_joinbss_event_prehandle`, `rtw_indicate_connect`, `CancelAssocTimer` for a success |
| link timer | `link_timer_hdl`, `LinkFailure`, `LinkReport` |
| assoc timer | `AssocExpires`, `rtw_join_timeout_handler`, `SpendRoam`, `Roam` |

A handler is split where it releases or waits for something. A section under
`mlme_priv.lock` is one step, except for the two whose middle others see: the
success that is applied, told to cfg80211 and then cancels `assoc_timer` under the
lock, and the roaming loop of the timer handler, while `cfg80211_rtw_disconnect`
clears `to_roam` without the lock.

The other exception to the lock is the end of `_rtw_disconnect`
(`os_dep/linux/ioctl_cfg80211.c:3857`), which calls `rtw_indicate_disconnect`
without it although the comment above that function asks for it. There each
`_clr_fwstate_` is a load and a store, and each test and the report to cfg80211 are
steps of their own, beside the tasklet, the timers and the command thread. The
history variable `crossed` becomes true when one of them changes `fw_state` or
tells cfg80211 something in the meantime. Two finer overlaps are not enumerated: a
load and a store of the user thread that both fall inside one locked section that
is a single step here (which would lose one or the other's flags, a crossing like
those that are enumerated), and the clearing of `to_roam` inside
`rtw_stadel_event_callback`.

`_cancel_timer_ex` is `del_timer_sync`, so the step that follows it has the
handler at rest as a guard. The build is the repository's: layer-2 roaming on,
wake-on-WLAN off, and a kernel for which `not_indic_disco` is set during `connect`
only. The aborts of a survey in connect and disconnect wait for at most 200 ms; the
model does not wait, which adds behaviour and removes none.

Two races of the code are constants, so that each can be looked at by itself:
`TimerRace` (the attempt's timer expires while its success is applied) and
`SlowCaller` (the result of an attempt arrives before connect has recorded that it
wants one). All others are always allowed.

## 3. Runs

Passing runs. The safety and liveness properties of a system are checked
together, under its fair specification.

| Run | Bounds | Shows |
|---|---|---|
| `hdmi_faults` | 2 installations, 2 faults, no initrd beforehand | `TestArmed`, `BackupHoldsAccepted`: a test is never unguarded and its backup is the accepted set; `ConfirmedKept`: a confirmation stands; `RollbackHappens`: an unconfirmed test that comes up is rolled back |
| `reorder` | M=16, W=3, frames 13 to 20, gaps of 2, 9 inputs, no events | `InOrder`, `PendingInWindow`, `LossBounded`, `DroppedIsStale` across the wrap |
| `reorder_events` | M=16, W=3, frames 13 to 16, all events, 6 inputs | `PendingGuarded`: a timer guards pending frames through BAR, DELBA, rejoin, free and reuse; `PendingLeaves`: none is stuck |
| `cmd_power` | 1 client, 2 commands, LPS, IPS | `SctxLive`, `WaiterSafe`, `Fifo`, `ImplementsQueue`; `FirmwareAwake`: the two threads, LPS and IPS never let a sleeping firmware be used, unless LPS was entered with an answer outstanding; `CommandsFinish`: no wake-up is lost by the driver, an answer that comes in a later LPS period included |
| `cmd_stop` | 2 clients, 2 commands, 2 stops, IPS, signals | `SctxLive`, `WaiterSafe`, `ImplementsQueue` through stop, drain and reopening; `StopEnds`: taking the interface down ends |
| `sdio_xmit` | 2 stations, 1 category, 3 packets, 2 frames, 1 buffer, 1 dedicated and 1 public page, 1 scan, LPS, busy traffic | `Conserved`: no frame or buffer is lost or freed twice; `StoppedHasPacket`: a stopped subqueue will be woken; `Drains`: everything is written in the end |
| `sdio_churn` | 1 station that leaves once, 2 packets, 2 frames, 2 buffers, 1 management frame, 1 public page, LPS, unloading | `SemaMatches`: semaphore and pool agree but for what is under way; `PagesCovered`: nothing is written into a full FIFO; `InOrder`; `StopEnds`: unloading ends |
| `join_calls` | 2 connects, 1 disconnect, 1 roaming attempt, no repeats of a frame | `LinkingGuarded`: an attempt always has its timer; `BeliefBacked`: cfg80211 believes in a connection only while something will tell it otherwise; both until a crossing (section 2) |
| `join_roam` | 1 connect, 1 lost association, 2 roaming attempts, 1 repeat of an authentication | `BeliefBacked`; `Answered`: a connect is answered; `LinkSettles`: a link does not outlive its association; `LinkUsable`: a lasting link is one the hardware was told of |

Runs that show a disagreement between the code and its own text (the quotations
are in `PROJECT.json`, `findings`):

| Run | Property | What happens |
|---|---|---|
| `hdmi_power_loss` | `BackupHoldsAccepted` | the only `sync` follows the copy, so the cache can lose the backup first |
| `join_deadlock` | `LockReleased` | `assoc_timer` expires while a success is applied: the tasklet waits under `mlme_priv.lock` for a handler that waits for that lock |
| `join_unlocked` | `Backed` | while the unlocked end of `_rtw_disconnect` runs, the tasklet applies a success and tells cfg80211; the last `_clr_fwstate_` then clears `_FW_LINKED`, and nobody will tell cfg80211 that the connection is gone |

Other values of the constants lead to further behaviour that the passing runs
therefore exclude, each seen as a counterexample:

- `AllowForce = TRUE` violates `TestArmed`: `--force` records the files of an
  unconfirmed test as the previous ones.
- `Events = {"bar"}` and `{"rejoin"}` violate `LossBounded`: the window moves
  past pending frames, or becomes 0xFFFF, and the loss counter is off by almost a
  sequence space.
- `Events = {"delba"}` violates `InOrder`: frames that are pending when a session
  ends come after later ones.
- `Events = {"bar"}` also violates `InOrder`: a BAR moves the window past pending
  frames (`core/rtw_wlan_util.c:3568`), and later frames overtake them.
- `AllowLate = TRUE` violates `ConfirmedKept`: the service looks for the
  confirmation once and goes on to restore (`scripts/install-hdmi-test-boot.sh:113`).
- `Resumes = FALSE` violates `BackupHoldsAccepted` (section 5).
- `MaxFree = 1` violates `Conserved`: a station leaves while its packets are copied,
  `rtw_xmitframe_coalesce` fails for a frame that is not the first of its buffer, and
  `hal/rtl8188e/sdio/rtl8189es_xmit.c:1222` neither sends nor frees it, although
  `core/rtw_xmit.c:2799` speaks of dropping the packet. Its subqueue is not woken by it
  either.
- `MaxFree = 1` with `Unload` and fewer buffers than packets violates `StopEnds`
  of `SdioXmit`: an aggregator that reaches the buffer semaphore after
  `rtl8188e_stop_thread` has taken its count back sleeps for ever.
- `WakeAsked` (a chip in use was not told to sleep) fails in the run `cmd_power`: LPS
  is left and entered again before a CPWM is handled, `cpwm_int_hdl` believes it
  (`core/rtw_pwrctrl.c:1550`; the check for a redundant one is not compiled), and a
  thread is let through while RPWM asks for sleep. `FirmwareAwake` excepts the LPS
  periods that begin this way.
- `RoamBounded` fails with `MaxRoam`, `MaxConnect`, `MaxDisconnect` and `MaxDrop` at 1:
  disconnect clears `to_roam` (`os_dep/linux/ioctl_cfg80211.c:4176`) between the look
  and the decrement of the timer handler (`core/rtw_mlme.c:3015-3017`), and the u8
  wraps to 255 attempts.
- A disconnect beside the tasklet violates `LinkSettles`: when the access point accepts
  the attempt that is being given up, the upper half can end linked above a lower half
  that was reset, which is why `join_roam` has no disconnect.
- `SlowCaller = TRUE` violates `Answered`: a result that comes before
  `connect_req` is recorded finds nobody to answer.

Behaviour that no property excludes, because nothing in the code says that it
should not happen: the state file survives a rollback and blocks the next
installation until `--force` or a confirmation; a file that the test added to the
boot directory stays after a rollback (`TestArmed` and `BackupHoldsAccepted` leave
out files that the accepted set did not have); a frame in flight arms the timer of
a station that is being freed; a command that passed the filter before the drain
is queued after it and waits for the next opening of the interface
(`core/rtw_cmd.c:450`); the access point's acceptance of an attempt that was just
given up leaves the lower half associated while the upper half is not linked (the
converse of `LinkSettles`); a connect whose group cipher is refused leaves
`not_indic_disco` set (`return ret` at `os_dep/linux/ioctl_cfg80211.c:4099`), so that
the end of the next connection is not told until a later connect clears it (`Backed`
excepts that time); a connect that is refused between the two locked parts
of a survey's end also cancels the join that the survey was for.

**Why the bounds are enough.** Two installations are the least that let one test's
files become another's backup, and two faults let a repair be interrupted. In
`RecvReorder` the sequence space need only be large enough that the window
arithmetic has the shape it has with 4096 and 64, which is the assumption `2 * W +
Gap <= M \div 2`; starting at 13 of 16 makes a handful of frames cross the wrap,
and `Gap` 2 with `W` 3 lets a frame arrive beyond the window's end and drag it.
Six inputs are an ADDBA, two frames that leave a gap, and three more frames or
events. One client suffices for the handshake, since it may submit a second
command while its first is under way; two let one client time out while the thread
reports to the other. No CPWM is lost in the runs (`MaxLost` 0), since a loss stalls
commands (section 5); the proofs below allow it and remove the bounds of
`CmdThread`. In `SdioXmit` one buffer and two frames for three packets make every pool run out,
two stations make the round robin matter, and a page fewer than a buffer may need
makes the writer wait; `sdio_churn` has a buffer for every packet, since
`StopEnds` needs it. Two access categories, and a station that leaves with one
buffer, were checked as instances of their own. In `StaMlme` two connects and a
disconnect are the least that let a call meet an attempt, a link and the abort of
another call; two roaming attempts let one fail and another follow; one repeat of
a frame suffices for a counter at its limit. The invariants of the proof were also
checked with `TimerRace` and `SlowCaller` at once. `MaxSema` caps the semaphores:
a CPWM at the cap adds nothing, since the thread has passes enough to make, while
a client or a stop waits for room, which is why `cmd_stop` has room for both
commands and both stops.

**Deadlock** is not checked: each of the systems may come to rest (the operator
starts nothing, the peer is silent, no client submits), and bounded inputs run
out. What must not come to rest is stated as a liveness property.

**Fairness.** `HdmiTestBoot`: a started script runs on, systemd runs the
service, the boot loader boots. The operator owes nothing. `RecvReorder`: the
receive path finishes the frame it has, an armed timer expires and its handler
runs. The peer and the command thread owe nothing. `CmdThread`: kernel threads
and work items are scheduled, `kthread_stop` goes on when the thread is parked,
a client goes on (its wait has a timeout), and the firmware answers a wake-up.
Nobody need submit, stop, or enter or leave LPS. `SdioXmit`: both threads, the
interrupt's work and the unloading go on, the chip sends what it was given, a scan
ends. The stack, the stations and the firmware's sleep owe nothing. `StaMlme`: a
call that has begun goes on (each of its waits has a timeout), the command thread
takes what is queued, the tasklet finishes a frame, armed timers expire and their
handlers run, a scan ends (it has its own timer). The user and the access point
owe nothing: no frame need ever arrive. All of it is weak fairness.

## 4. Proofs

Every theorem holds for all values of the constants that satisfy the named
assumptions of its module, which only type them and say that pools are not empty
(`HdmiAssumption`, `RecvReorderAssumption`, `PwrCtrlAssumption`,
`CmdThreadAssumption`, `SdioXmitAssumption`, and the four of `StaMlme`). Three say
more: `RecvReorderAssumption` has an even sequence space of which a window, the
peer's window and its gap fill at most half (the code has 4096 and windows of at
most 64), and in `SdioXmitAssumption` the stations are finitely many and the
outstanding queue has room for two.

| Module | Theorem | Statement |
|---|---|---|
| `HdmiTestBootProofs` | `TypeCorrect` | `Spec => []TypeOK` |
| | `TestGuarded` | `Careful => (Spec => []TestArmed)` |
| | `BackupSound` | `Careful => (Spec => []BackupHoldsAccepted)` |
| | `ConfirmationStands` | `Careful => (Spec => ConfirmedKept)` |
| `RecvReorderProofs` | `NeverStuck` | `Spec => []PendingGuarded` |
| `RecvWindowProofs` | `RecvTypeCorrect` | `Spec => []TypeOK` |
| | `WindowCorrect` | `Events = {} => (Spec => [](InOrder /\ PendingInWindow /\ LossBounded))` |
| | `FramesInOrder`, `PendingStaysInWindow`, `LossIsBounded` | its three parts |
| | `OnlyStaleDropped` | `Events = {} => (Spec => DroppedIsStale)` |
| `CmdThreadProofs` | `TypeCorrect` | `Spec => []TypeOK` |
| | `SctxSafe` | `Spec => []SctxLive` |
| | `WaiterSafety` | `Spec => []WaiterSafe` |
| | `FifoOrder` | `Spec => []Fifo` |
| | `FirmwareSafe` | `Spec => []FirmwareAwake` |
| `CmdQueueProofs` | `Implements` | `Spec => ImplementsQueue` |
| `SdioXmitProofs` | `SemaphoreMatches` | `Spec => []SemaMatches` |
| | `PagesSuffice` | `Spec => []PagesCovered` |
| | `StoppedIsWoken` | `Spec => []StoppedHasPacket` |
| | `TypeCorrect` | `Spec => []TypeOK` |
| | `PoolsAreKept` | `Spec => []PoolsKept` |
| | `FramesAndBuffersConserved` | `MaxFree = 0 => (Spec => []Conserved)` |
| | `PacketsInOrder` | `Spec => []InOrder` |
| `StaMlmeProofs` | `TypeCorrect` | `Spec => []TypeOK` |
| | `AttemptGuarded` | `Spec => []LinkingGuarded` |
| | `BeliefSound` | `Spec => []BeliefBacked` |

**HdmiTestBoot.** `Careful` is the operator of run `hdmi_faults`: no `--force`, no
late confirmation, interrupted commands are repeated, and no write-back cache. The
invariant `CInv` adds to `TestArmed` where each process can be (`ProcInv`), what
the state file names (`StateInv`), what was accepted (`AcceptInv`), what is booted
(`BootInv`), what each backup holds (`BackupInv`, `Recoverable`) and what an
interrupted command leaves (`UndoneInv`). `TestArmed` alone is not inductive: that
an untried file is guarded during a copy follows from the order in which the
commands before it ran. Types need no hypothesis (`TInv`).

**RecvReorder.** `GuardInv`: besides `PendingGuarded`, the flag that keeps the
receive path from arming the timer is set only while the timer is armed or its
handler is about to clear the flag (`WaitingGuarded`), and a receive path about to
cancel the timer left nothing pending (`CancelsNothing`). The proof does not
depend on the window arithmetic.

The window is another matter (`RecvWindowProofs`). The driver compares sequence
numbers, the properties speak of frames, and the two agree only for frames less
than half a sequence space apart. The proof has three layers. Arithmetic
(`LessIsBefore` to `CheckIsWindow`): on such frames `SN_LESS`, `Minus` and
`check_indicate_seq` do what `<`, `-` and a sliding window do. Loops
(`InsertSorted`, `IndicateSorted`, `Deliver`): on a sorted list
`enqueue_reorder_recvframe` inserts, and `recv_indicatepkts_in_order` delivers
exactly the frames before the new start of the window. Invariant: `WindowInv` adds
to `TypeOK` who may hold a frame of the session (`Session`, `Received`), what the
peer may still send (`PeerInv`), and `Window`: either nothing of the session has
been seen, or `indicate_seq` stands for a frame `v` with everything passed on
before it, everything pending after it, and the loss counter covered by the gaps
below it. None of the properties is inductive without `v`. `Events = {}` is a
session that nothing disturbs, as in run `reorder`; with a DELBA, a new ADDBA or a
freed station the driver promises no order. Type correctness holds with all
events.

**CmdThread.** The first three theorems follow from the inductive invariant
`IInv`, whose parts are
`TypeOK`; `HandInv` (the thread has a command exactly at the points of `Hand`,
and only allocated ones are queued); `ClientInv` (a client inside a call owns
its command, and while its context is not completed the command points at it);
and `SctxInv` (a command points at a context only while its client is in the
call and the context is not completed, with one exception: between the two
halves of `post_process`, where the mutex is held). Neither `SctxLive` nor
`WaiterSafe` is inductive, because what the thread may do depends on where the
client is and the other way round; the exception is exactly what `sctx_mutex` is
for. `Fifo` is inductive relative to `IInv`: only four kinds of step move a
command (queue, take, put back, free), and each keeps
`finished \o InHand \o queue`. `FirmwareAwake` follows from `WakeInv`. Its first
half, `LevelInv`, holds always: what rpwm, cpwm and the registrations can be
together. Its second, `AnswerInv`, says what a wake-up that is still to be answered
or handled implies: the driver asked for "high", and a CPWM that waits was sent by a
firmware that is awake. It holds until LPS is entered with an answer outstanding,
and again once LPS was entered at a low level without one; `stale` is exactly that,
and the theorem needs no hypothesis on how the driver is used. Without the
exception the property is false (section 3).

**CmdQueue.** One lemma per kind of step shows that it is a step of `CmdQueue` or
a stutter under the mapping of section 2. It needs `IInv` and `CalledInv` (a
command belongs to the last call of one client).

**SdioXmit.** `FlowInv` (types of what the counts depend on, and what buffer the
aggregator has at which point) and `SemaInv` (counts are owed only while the
aggregator serves a category) give `SemaMatches`. `PageInv` adds that
a buffer about to be written fits into the writer's copy; only the writer takes
pages.  `StoppedInv` is `StoppedHasPacket` with the type of
`stopped`, and `FlowInv` makes it inductive: the packet that stops a subqueue is
itself inside, and the last one to leave wakes it.

`PathInv` follows what the path carries: numbers given out (`NumberInv`), what lies
in each queue (`CargoInv`), the two sums of the pools (`BufInv`, `FrameInv`), the
outstanding queue (`OqtInv`), and the ranges of the rest (`ControlInv`, `FlagInv`,
`SentInv`). With `FlowInv`, `SemaInv`, `PageInv` and `StoppedInv` it is
inductive. `TypeOK` needs the sums: that a pool is not larger than it was follows
from what is out of it, and that a packet's number stays below its bound from the
sum over the stations. `PoolsKept` is what remains of `Conserved` when stations
leave: buffers always add up; frames never multiply, and add up until the first
station has left. The rest of `Conserved` is false then, as section 3 says; `MaxFree = 0` is exactly that no station leaves.

`OrderInv` gives `InOrder`. The buffers that are not written yet form one `lane`
from the writer's hand over the queue to the aggregator's hand. For each station
and category (`FlowAt`) the packet numbers rise along the lane and then along the
station's waiting list, between the last one written and the last one given out
(`Ordered`), and while no station has been freed none of them is missing (`Whole`).
A buffer that finds no pages goes back to the place in the lane from which it
came, so the lemmas are about lanes whose buffers keep their order (`Moved`,
`Alike`). Two facts allow the steps that do not keep it: management buffers, the
only ones taken out of turn, carry no packets (`PlainInv`), and once the driver is
stopping, when buffers are thrown away, the stations have been freed (`StopInv`).
The theorem needs no hypothesis: freed stations and unloading are included.

**StaMlme.** Five invariants on one another: `Types`; `Counting` (a request is
counted only in the state it belongs to, without which the counters would pass
their limits); `Guarding` (`LockInv`: who holds the lock between two steps and what
it then relies on; `ClearInv`: what the user thread has loaded is still `fw_state`,
and what it has told is still what cfg80211 believes; `LinkingGuarded`); `RoamInv` (a
roaming that cfg80211 does not know of always has something ahead of it that ends
it); `BeliefInv` (otherwise the link, the caller or the request backs its belief).
`BeliefBacked` itself is not inductive: it says nothing of a roaming while the
driver is still linked, or while a call is under way, from which the bad state is
one step away. `RoamInv` and the types hold whatever crosses; the others are stated
until a crossing, and `ClearInv` is what makes the five unlocked steps as good as
one step until then. The effects of the functions that several contexts call are
lemmas (`JoinOutcomes`, `ApplyEffect`, `ConnectEffect`, `SurveyDoneEffect`,
`StadelEffect`, `RoamEffect`), and the cases of `Next` cite them.

**Recursion and sums.** The loops of `RecvReorder` are recursive functions and the
sums of `SdioXmit` are `SumFunction` of the community modules, itself one. What
they compute is proved from their defining equations: `LeastNat` gives every
non-empty set of naturals a least element, and an induction is an argument about
the least number outside the set of those that have the property. `SumIsCells`
shows that the number of cells `{x} \X (1 .. f[x])` solves the equation of the
sum and is its only solution; sums then change, grow and shrink as
cardinalities do (`SumChange`, `SumNext`, `SumRemove`, `SumPlus`).

Only model-checked: the liveness properties (out of the prover's reach) and the
disagreements.

## 5. Limits

- `FirmwareAwake` speaks of the time LPS is on. After `LPS_Leave` the driver
  counts the chip as usable at once; the code polls it for at most 50 ms and
  goes on. `ps_deny`, WoWLAN and suspend are left out.
- After a lost CPWM commands wait until LPS is left: RPWM is already "high" and
  is not written again, since the RPWM timer is not compiled in.
  `CommandsFinish` excepts that case.
- `hdmi_faults` assumes an operator who repeats an interrupted command (`Resumes`). Otherwise a `--confirm` cut between touching the file and
  disabling the unit, followed by a new installation, lets the old service
  restore from the new state file.
- Half a sequence space of frames in a row given up by the peer is excluded by
  `Gap`: the arithmetic cannot tell such a frame from a stale one.
- One TID of one station: the code keeps a separate buffer, timer and lock for
  each.
- `SdioXmit`: queues for sleeping stations, TDLS, mesh, channel switches, silent
  reset and the return to the operating channel during a scan are left out.
- `StaMlme`: one access point and one interface, open authentication. Acknowledged
  commands are always acknowledged (the code gives up after two seconds), allocations
  do not fail, and `join_cmd_hdl` does not refuse a network whose information
  elements are too long.
- `RecvReorder`: the driver is not stopped, so the handler of the timer never
  returns at `RTW_CANNOT_RUN` (`core/rtw_recv.c:3481`), which would leave frames
  pending until the station is freed.
- `SdioXmit`: `rtw_hal_busagg_qsel_check`, which on an access point keeps some
  frames out of a shared buffer, always agrees.

## 6. Not modelled

The driver has some 418 000 lines, and the models map about one in sixty of
them. Most of the rest is not logic a model could check: generated firmware
images, register and calibration tables, rate and gain control (`hal/phydm`,
`hal/hal_com.c`), debug output (`core/rtw_debug.c`), and code for other chips and
buses, none of which keeps a protocol with another thread. Access point, P2P,
mesh and TDLS modes do, but the board runs the driver as a station.

Within reach and left out, in the order in which they would be worth adding:

1. Scans that the user starts, their timeout and their abort, beside a join.
2. The acknowledgement of a command that times out while the command is under
   way, composed from `CmdThread` and `StaMlme`.
3. SAE and 802.11r, which replace the authentication of `StaMlme`.
4. `ps_deny` and suspend, which stop `PwrCtrl`, `SdioXmit` and `StaMlme` together.

The other scripts have no behaviour that a test would hardly reach:
`scripts/install-hdmi-test-os-disk.sh` is a straight line run by one operator on
an unmounted disk (backup, move, unpack, copy, and a trap that unmounts);
`scripts/install-emmc-queue-limits.sh` writes four sysfs values and may be run
any number of times; the module and board installers copy files; the builders
call make, dtc and git on a build machine.
