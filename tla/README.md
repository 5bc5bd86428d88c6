# Verification of the STM32F7 embedded shell firmware

TLA+ specifications of the firmware in `src/`, the TLC configurations that
model-check them on small instances, and proofs checked by TLAPS.

## 1. The system

The firmware runs on a NUCLEO-F767ZI under FreeRTOS, with lwIP over the STM32
Ethernet HAL. `main()` initialises the hardware, creates the tasks and starts
the scheduler. There are no interrupts except SysTick: everything else is
polled by tasks of fixed priority.

| task | priority | does |
|---|---|---|
| `eth_poll` (Network.cpp) | 6 | every 5 ms reads frames from the DMA; every 2 s asks for the link |
| `tcp/ip` (lwIP) | 5 | handles frames, callbacks and timers |
| `dhcp` (Network.cpp) | 4 | waits for the link, starts DHCP, falls back to a static address |
| `tcp_srv` (TcpServer.cpp) | 4 | TCP echo server on port 7 |
| LED tasks (main.cpp) | 1 | toggle one pin each |

### Inventory

**Logger** (`src/src/Logger.cpp`). State: a 4 KB ring buffer, write and read
position, `m_bufferFull`. Operations: `log` and four levels, `flush` (dump to
the UART), `clear`, `getUnreadCount`. Called from the shell and the
filesystem. Hard: the wrap at the end of the buffer, full and empty with equal
positions, the order of a dump after an overwrite, NULs inside the data.
Correct when no pending byte is lost before the buffer is full, the newest
bytes survive, and a dump shows the pending bytes.

**Ethernet receive path** (`ethernetif.c`, `Network.cpp`, lwIP's `pbuf.c` and
`tcpip.c`). State: DMA descriptors and buffers, `RxBufInUse`, the HAL's
descriptor list, the pbuf pool, `tcpip_mbox`. Operations: the poll loop, the
callbacks the HAL makes into `ethernetif.c`, posting to the mailbox, the tcpip
thread's loop. Hard: the DMA runs concurrently, buffers are released before
they are copied, pools and mailbox run out, `eth_poll` starves the rest.
Correct when no buffer is shared, none is lost, no pbuf leaks or is freed
twice, reception goes on.

**Network: address configuration** (`Network.cpp`, lwIP's `dhcp.c`). State:
`tries`, `s_dhcp_up`, the address of the interface, `struct dhcp`, the shared
PCB. Operations: `dhcpTask`, the handlers of DHCP messages and timers. Hard:
`dhcp_start()` and `dhcp_stop()` are called outside the tcpip thread without
the core lock; check-then-act; late replies and timers of an old lease.
Correct when the client is off before the static address is set, the static
address stays, and the interface always gets some address.

**PHY and link state** (`EthernetIF.cpp`, `lan8742.c`). State: the PHY's
registers, `DevAddr`, the MAC's MDIO data register. Operations: the scan for
the PHY, `LAN8742_GetLinkState`, `ETH_IsLinkUp`; callers are `main`,
`dhcpTask` and `eth_poll`. Hard: the link changes between reads, BSR latches,
reads fail, the bus has no lock. Correct when the answer reflects the link
during the call and the scan finds the PHY.

**TCP echo server** (`TcpServer.cpp` on lwIP's netconn API: `api_lib.c`,
`api_msg.c`, `tcp.c`, `tcp_in.c`). State: the server task's place, the accept
mailbox, and per connection the pcb of the stack and the netconn of the API,
which point at each other. Operations: the API calls of the task, the
callbacks `recv_tcp`, `sent_tcp`, `poll_tcp`, `err_tcp` and `accept_function`
that the tcpip thread makes, segments, resets and timers. Hard: a connection
dies while the task is anywhere in a call; mailboxes and pools are full;
writes end in another thread; one silent client blocks the rest. Correct when
no callback and no call reaches a record that is gone, the task never waits
for something that cannot come, and the echo is what the client sent.

**Address resolution** (lwIP's `etharp.c`). State: a table of entries with
state, age and one queued packet each, and the index of the entry used last.
Operations: sending, ARP messages, the one-second timer, the DHCP client's
probe. Users: the tcpip thread, the TCP server's task under the core lock, and
`dhcpTask` without it. Hard: entries are recycled under pressure while packets
wait on them, TCP sends the same segment again, the remembered index is stale,
the tcpip thread preempts `dhcpTask` between two accesses. Correct when packets
go to the right host, no reference is lost and entries in use live.

**FreeRTOS kernel and lwIP system layer** (`tasks.c`, `queue.c`, `list.c`,
`sys_arch.c`). State: ready, delayed and event lists, the tick count, the
queues. Operations: post, fetch, lock, unlock, delay, the tick, PendSV. Hard:
the windows between the critical sections of one blocking call, the wrap of
the tick count, events while the scheduler is suspended, priority inheritance
over nested mutexes. Correct when a mailbox is a FIFO, nobody oversleeps or
misses a wakeup, and the highest ready task runs.

**Ethernet transmit path** (`low_level_output`): at most five buffers per
frame, handed to `HAL_ETH_Transmit`; called from the tcpip thread and, without
the core lock, from `dhcpTask`.

**Debug UART** (`Uart.hpp`): blocking transmissions from several tasks through
one HAL handle; `HAL_BUSY` is ignored.

**Shell** (`Shell.cpp`) and **filesystem** (`Filesystem.hpp`): commands,
mount or format, files, the flash block device. LittleFS itself is not in the
repository; at this commit nothing calls `parse_cmd` or creates a
`Filesystem`.

**Boot, LEDs, the rest of lwIP, the STM32 HAL**: start-up order, GPIO
output and third-party code.

`PROJECT.json` lists all components with their status and every hazard at its
line.

### How the modelled parts interact

`PhyLink` answers the question `Network` starts with (its variable `link`).
`EthRx` delivers the frames whose DHCP content drives `Network`'s handlers;
`Network` abstracts delivery to "a reply may be handled whenever the client
waits for one", which covers every loss and delay `EthRx` can cause;
`TcpServer` treats segments the same way. `Kernel` implements `Mailbox`, the
bounded FIFO that `EthRx` uses as `tcpip_mbox` and `TcpServer` as `recvmbox`
and `acceptmbox`; its mutex is the core lock under which `TcpServer` makes a
whole callback or API function one action. That is an assumption of
`TcpServer`: `dhcpTask` calls `netif_set_addr()` without the lock
(`Network.cpp:70`, and in `dhcp_stop()`), which reaches
`tcp_netif_ip_addr_changed()` and aborts the connections of the old address.
`TcpServer` has such an abort (a reset or `tcp_abandon()` at any time), but as
one step, not in the middle of another thread's. `Arp` stands below `TcpServer`: it
decides where a segment that was written goes, and holds a second reference
to it meanwhile. The `Logger` is used by the shell and the filesystem only.

## 2. Modules

### Logger

Variables are the static members of the class plus history: `total` bytes
stored and `mark` (total at the last flush or clear). The k-th byte is the
number k, so a cell tells which byte it holds. `Log(t)` stands for `log()` and
the four levels: formatting is reduced to the length of the text. `flush` and
`clear` follow the functions; `FlushOrder` is the order in which the three
loops of `flush()` visit the buffer. What `Uart::print()` makes of those bytes
is left out; no property is about it.

### EthRx

The DMA (`DmaReceive`), `eth_poll` (from `PollWake` to `InputFailed`, one
action per step that another party can observe), the tcpip thread and the
application. `LinkAlloc` and `LinkTake` are the two halves of
`HAL_ETH_RxLinkCallback`: the DMA buffer is back in the pool between them.
`HAL_ETH_ReadData` and `ETH_UpdateDescriptor` are external and modelled from
how the callbacks are used. pbufs have reference counts; `pbuf_free` and
`pbuf_chain` follow `pbuf.c`. `PBUF_POOL_IS_EMPTY` queues the callback that
frees out-of-sequence segments. The tcpip thread and the application step
only while `eth_poll` sleeps, because their priority is lower and `eth_poll`
never blocks in between. lwIP is built with `LWIP_TCPIP_CORE_LOCKING`, so API
calls do not use the mailbox.

### Network

`dhcpTask` with `dhcp_start()` and `dhcp_stop()` cut at the statements between
which the tcpip thread may preempt it, and every handler of `dhcp.c` as one
action. Timers are armed or not. The states
INIT and REBOOTING cannot occur: `dhcp_start()` is only called after
`netif_set_link_up()`, and nothing calls `netif_set_link_down()`. The exits of
`dhcp_start()` for lack of memory are not modelled: at that moment the
interface has just come up and DHCP is the only user of UDP PCBs.

### PhyLink

The scan of `LAN8742_Init()`, the end of `ETH_Init()`, and
`LAN8742_GetLinkState()` one register read at a time, each read in two steps
(`Ask`: the MDIO transfer; `Take`: the data register). Registers are sets of
bits. `eth_poll` may come between the two steps of `dhcpTask`. An address
nobody answers reads as ones, as the pull-up of MDIO makes it. The other
functions of the driver have no caller and are left out.

### Kernel and Mailbox

`Kernel` is `queue.c` and `tasks.c` under the calls of `sys_arch.c`. The record
`k` holds the variables of `tasks.c`; a ready list is a set, a delayed list a
set with wake times, an event list a sequence in priority order. One action is
one critical section, or one step with the scheduler suspended: a blocking
call walks through `TrySend`/`TryReceive`/`TryTake`, `Suspend`, `prvLockQueue`,
`xTaskCheckForTimeOut`, `TestQueue`, `Place`, `prvUnlockQueue`, `Resume` and
`Recheck`, and between any two of them `Tick`, `IsrPost` or `vTaskSwitchContext`
may come. `IsrPost` is `sys_mbox_trypost_fromisr()`, which the port offers and
no interrupt of this board calls today. Ticks and `xNumOfOverflows` wrap at
`TICKS` and `OVERFLOWS`. `FreeRTOSConfig.h` leaves `INCLUDE_vTaskSuspend` at 0,
so "for ever" is a timeout of `portMAX_DELAY` like any other.

`Mailbox` says what `sys_arch.h` promises: a bounded FIFO whose calls take
effect at one moment, and fail only if the mailbox is full (empty) at that
moment. `Kernel` instantiates it with the ring buffer read in order as `box`,
and `ImplementsMailbox` is `Mailbox`'s specification under that mapping.

### TcpServer

A connection is a pcb record and a netconn record. What a locked section does
to both is a function on a pair of them (`recv_tcp`, `err_tcp`,
`lwip_netconn_do_writemore`, `tcp_close` ... named as in the code); the actions
are the sections. What the server task does without the lock is separate: the
test in `netconn_recv`, the `Fetch`, `handle_fin`'s read of `conn->pcb`. Lack of
memory and of a route are choices (`mem`, `route`). A segment that reaches the
stack is the next one in order; others are dropped or queued by `tcp_receive`
and sent again, so sequence numbers are left out. Bytes are numbered per
client, which makes the echo comparable with what was sent. A pbuf chain is the
byte it starts after and the byte each of its pbufs ends with: `tot_len`,
`netbuf_data` and `netbuf_next` read it as in the code. A connection is
used once, so pools are counts and a stale reference cannot hide behind a
reused record.

### Arp, ArpTasks

`Arp` is `etharp.c` as it is configured: one queued packet per entry, no
static entries. An operation of it is one step, which is what the tcpip thread
does: it has priority 5 and no other user of the table can preempt it.

`ArpTasks` has the users of priority 4, which send in their own context and
read and write the table access by access (`cached`, `search`, `scan`, `mark`,
`put` ...). The TCP server's task holds the core lock meanwhile, so the tcpip
thread waits (`CoreLocked`). `dhcpTask` does not: it sends its RELEASE through
`dhcp_stop()` (`Network.cpp:65`, `dhcp.c:1361`) and changes the gateway
(`Network.cpp:70`) although `etharp.c:797` asserts the lock, so the tcpip
thread may run between any two of its accesses, and so may the other task. A
step stands for several accesses only where they touch nothing but the entry in
hand, and any change of that entry by another thread between two steps counts
as a disturbance (`Disturbed`), as does one of the table while
`etharp_find_entry()` scans it, of the gateway a call points to, or a second
entry for the address a call makes one for. `raced` remembers it. After that the
code may do anything the model does not follow in detail (`scan` ends up
anywhere), and only `TypeOK` is claimed.

pbufs have reference counts; a TCP segment may be sent again when only TCP
holds it (`tcp_output_segment_busy`), which is how a packet gets onto the table
twice in its life. `heard`, `sent`, `hop` and `use` are history for the
properties. Broadcast and multicast packets touch no table state; in the tcpip
thread a query with a packet for a stable entry cannot happen, because
`etharp_output()` uses the entry; for a preempted task it can.

### LoggerProofs, EthRxProofs, NetworkProofs, PhyLinkProofs, ArpProofs, TcpServerProofs, KernelProofs, KernelWakeProofs

The theorems, see section 4. `KernelWakeProofs` continues `KernelProofs`.

## 3. Runs

| run | shows |
|---|---|
| `logger` | no pending byte is lost before an overwrite, the newest bytes survive, "no logs" is right |
| `eth_rx` | with the size relation of `lwipopts.h`: no pbuf is lost, descriptors are recycled, the mailbox is served under a flood of frames |
| `eth_rx_frags` | frames over two descriptors and a mailbox that overflows: no shared buffer, no missing buffer, no mixed frame, no use after free |
| `eth_rx_leak` | *violated*: a frame over two descriptors leaks a pbuf |
| `network` | PCB count, complete fallback, final static address; an interface without an address gets one |
| `network_race` | *violated*: a lease bound during the fallback is discarded |
| `phy_link` | no phantom link, no stale link-down |
| `kernel_mailbox` | one state list per task, nobody oversleeps over the wrap, no lost wakeup, the highest ready task runs; the queue implements `Mailbox` |
| `kernel_mutex` | exact ready bitmap, one owner, no priority inversion over nested mutexes; the highest task gets its mutex |
| `tcp_server` | pcb and netconn own each other, the server is woken from every wait, the echo is in order, unread data means a reset, everyone accepted is served |
| `tcp_fin` | *violated*: a FIN that finds the recvmbox full is forgotten |
| `arp` | until a preempted call of `dhcpTask` is disturbed: packets go to the right host, no reference is lost, entries in steady use are asked for again before they expire |

`FrameIntact` in `eth_rx_frags` says that what reaches the stack are fragments of
one frame, beginning with the first, in order. It does not say all of them: if
`pbuf_alloc()` fails for a fragment and the pool is refilled before the next
poll, the rest of the frame is chained behind the gap.

A violated run checks one sentence of a comment or header against what the
code does; `findings` in `PROJECT.json` quotes it.

`tcp_fin` at the board's sizes: a client waits in the accept mailbox and sends
eight small segments, the last with its FIN. The eighth message fills the
`recvmbox` (8), and the FIN of the same segment finds it full. The pool has
the eight pbufs this takes. The client has sent everything and been
acknowledged, so nothing arrives any more, and no keepalive is configured:
the server waits in `netconn_recv()` until the client resets. `EveryoneServed`
therefore says "served, or a FIN was lost".

Smaller disagreements the models show, or that reading the code for them did,
but no run is kept for:

* `flush()` after an overwrite starts at `m_readPos`, which is no longer the
  oldest byte: newer bytes come first. `Logger.hpp:53` says "Dump all pending
  logs". A message that fills its buffer is stored with its NUL, and `flush()`
  prints that chunk only up to it. `getUnreadCount()` answers the buffer size
  after any wrap.
* `tries` in `dhcpTask` is never reset by a lease, so the fallback may come
  much earlier than the "~10 s" of its comment. `Network_IsUp()` answers true
  after the static fallback (nobody calls it). `dhcp_supplied_address()`
  answers 1 without an address when T1 or T2 of a lost lease fires in
  REQUESTING.
* `ETH_IsLinkUp()` counts `AUTONEGO_NOTDONE` as up, which its header excludes.
  `LAN8742_Init()` never returns `LAN8742_STATUS_READ_ERROR`, and after a failed
  read at the PHY's address it accepts the last address, where an undriven bus
  reads as ones.
* `sys.h:333` says "0 = wait forever"; the wait ends after 2^32 ms, and
  `sys_mutex_lock()` then returns without the mutex. If waits for a mutex may
  expire (`MUTEX_EXPIRES`), `vTaskPriorityDisinheritAfterTimeout()` resets the
  ready bit of the wrong priority and `TopReadyExact` fails. At 49 days per
  wait, the runs leave that out.
* With a mailbox smaller than the pbuf pool `MailboxServed` fails: `eth_poll`
  loops on frames it drops and never sleeps. The sizes in `lwipopts.h` are what
  makes it hold.
* The server ignores a failure of `netconn_listen()` and then asks for a
  connection every 100 ms for ever.
* `RightHost` and `NoPbufLeak` of `ArpTasks` are false without their condition
  `~raced`: TLC finds that in a few states if it is removed. In one trace
  `dhcpTask` finds the stable entry of its server, the tcpip thread recycles
  that entry for another host, and `dhcpTask` sends its RELEASE to whatever
  hardware address the entry has then. In the other `dhcpTask` sees a packet
  queued on the pending entry of its server (`etharp.c:1068`), the ARP reply
  comes and the tcpip thread sends and frees that packet; `dhcpTask` frees it
  again and leaves its own on the entry, now stable, where nobody sends or frees
  it (`etharp.c:1072`). Taking the core lock in `dhcpTask` would rule both out
  (`LockSuffices`, section 4). It takes a lease bound during the fallback, as
  `network_race` shows, for a RELEASE to be sent at all.
* `etharp.c:64` says a used entry is asked for again "1 minute before" it
  expires; the constants make it 30 seconds. `etharp.c:983` says "We don't
  re-send arp request in etharp_tmr", which `etharp_tmr()` does.

### Bounds

* Logger: a buffer of 8 bytes with messages of up to 5 (the code: 4096 and
  256) and 32 bytes between two `clear()`s, so the buffer wraps several times
  and writes end before, at and after its end from every position. A text may
  not exceed `MAX_LOG_MSG`, beyond which the code's `snprintf` size is
  negative and the behaviour undefined.
* EthRx: 3 or 4 descriptors, 2 or 3 pbufs, frames of one or two fragments,
  enough for an empty pool, a full mailbox, a wrap of the descriptor ring and
  a frame split over two polls. `eth_rx` keeps the relation of `lwipopts.h`
  (mailbox larger than the pool, at least as many messages as pbufs);
  `eth_rx_frags` has one message for two pbufs, so that `netif->input()` also
  fails. Frame numbers wrap at `FRAME_IDS`; three numbers tell the frames apart
  that two pbufs can hold.
* Network: `MAX_TRIES` 3 for 50, `REQUEST_TRIES` 2 for 5, `TRIES_CAP` 4 for
  255: each limit is reached and passed. The theorems hold for all values.
* PhyLink: addresses 0 to 3 with the PHY at 1, so that there are addresses
  before and after it and the last one reads as itself. All straps and modes.
* Kernel: 3 values of the tick count and 2 of the overflow count, so both wrap
  during one wait; a timeout of 1 tick against `portMAX_DELAY` of 2; one pended
  tick. `kernel_mailbox`: a poster above a fetcher, an interrupt, a mailbox of
  2, two messages (so order shows). `kernel_mutex`: three priorities and two
  mutexes, the least for an inversion with a task in between and for giving
  mutexes back in the wrong order; mutexes are taken in a fixed order, as lwIP
  does.
* TcpServer: three clients for two pcbs, three netconns (the listening one
  included) and an accept mailbox of 1, so every pool is exhausted; one client
  sends up to three bytes in segments of one byte and chains of two pbufs, with
  a window of 4, a recvmbox of 2 and a send buffer of 1 byte, so data is
  refused and writes wait. `tcp_fin` uses two clients and a recvmbox of 1.
* Arp: three hosts (one of them the gateway at times), two entries, two
  hardware addresses, two packets. Ages are scaled: expiry at 4 for 300,
  rerequests from 0 and 2 for 270 and 285, pending for 2 instead of 5; the
  last stretch still has room for a unicast and a broadcast rerequest, which is
  what `SteadyUse` counts (tries count, also those without memory for the
  request). The DHCP server is the host that may be the gateway, the TCP client
  is beyond it. TLC stops at a race, where the properties end. Hosts other than the gateway, hardware addresses and
  packets are symmetric; no liveness is checked there.

### Fairness

* EthRx: weak fairness of `eth_poll`, whose delay ends after 5 ms and which
  has the highest priority; strong fairness of the tcpip thread, whose steps
  are interrupted by `eth_poll` but continue where they stopped. Nothing is
  assumed of the network or the application.
* Network: weak fairness of `dhcpTask` (its delays end, and the tasks above
  it sleep) and of the expiry of a lease while the interface has no address:
  the coarse timer counts on and only a new binding resets it. Nothing is
  assumed of the server. The run excludes infinite leases, for which no
  expiry ends the renewal of a lease that was lost; the theorems about the
  safety properties include them.

* Kernel (`kernel_mutex`): the processor executes steps, PendSV and ticks come,
  and a task that holds a mutex gives it back after finitely many calls, as
  every user of the core lock does. The first and last are written out as
  "infinitely often possible implies infinitely often done".
* TcpServer: the server task runs (the tasks above it sleep), `tcp_fasttmr` and
  `poll_tcp` tick, a write finds memory and a route some day, a client
  acknowledges what it is sent or `tcp_slowtmr` gives it up, and it ends its
  stream or resets. The last is an assumption on the clients: a client that
  stays silent does block the server, as the code has no timeout for it.

Deadlock is checked in every run but `tcp_server` and `tcp_fin`, where the
number of connections is bounded and the system stops when all are used.

## 4. Proofs

All theorems hold for every value of the constants that satisfies the named
assumption of the module.

**LoggerProofs** (`LoggerAssumption`: a message fits into the buffer, a chunk
holds a character). The invariant relates every cell to the serial number of
the byte it holds. Without division or modulo, it says how far `total` is
ahead of `mark` in terms of the two positions: exactly their difference while
`m_bufferFull` is clear; one buffer more, or at least two buffers more, once it
is set. `total - m_writePos` is 0 or at least one buffer; a cell below the write
position holds a byte of the current lap and one at or above it, once a lap has
ended, a byte of the previous lap. From it follow
`PendingKeptAlways`, `NewestKeptAlways`, `NoLogsAlways` and `TypeCorrect`.

**EthRxProofs** (`EthRxAssumption`: positive sizes). The invariant describes
the window of descriptors the CPU has and has not given back (`Window`), that
exactly the attached buffers are in use and attached once (`Attached`), and
that the buffer released during a copy stays attached until the copy is over
(`Linking`). `NoSharedBufferAlways` follows at once; `AllocNeverFailsAlways`
by counting: with one descriptor unattached, the attached buffers cannot be
all (pigeonhole).

For the frames, on top of the buffers, there are three invariants.

* `OInv`: every pbuf has at most one owner among the frame being assembled, the
  chain being handed over, the mailbox, the tcpip thread and the application, and
  what is owned is allocated. It gives `NoUseAfterFreeAlways` without a word about
  exact counts, which do go wrong when a chain leaks.
* `SInv`, for frames that fit one descriptor: every chain has length 1, so a pbuf
  with an owner has count 1 and one without has count 0. `NoPbufLeakAlways` has
  this hypothesis (`MAX_FRAGS = 1`) because the code needs it: the board's buffers
  of `ETH_MAX_PACKET_SIZE` hold any Ethernet frame, and `eth_rx_leak` shows the leak for
  frames that do not fit.
* `CInv`: the filled descriptors the CPU has not read hold consecutive fragments,
  and the frame being assembled stops before the first of them. That is what makes
  `FrameIntactAlways` inductive: the next fragment that `HAL_ETH_ReadData`
  passes continues the frame, or begins a new one.

`TypeCorrect` comes last, as the bounds of the mailbox and of the counts follow from
the owners.

**NetworkProofs** (`NetworkAssumption`). `Progress` states what `dhcpTask`
knows at each of its lines. The key lemma, `TcpipEffect`, says that a handler
acts only on a running client and leaves it running with its PCB; so what
`dhcpTask` knows about "off" survives every preemption. Results:
`PcbAlways`, `FallbackAlways`, `StaticForever`, `TypeCorrect`.

**PhyLinkProofs** (`PhyLinkAssumption`: the PHY has an address on the bus). The
register of the MAC is shared, so what is in it matters to every caller that
waits for it, whoever asked. `Seen`: bit 2 in it implies a link during the call of each
waiting caller; it needs `Nested`, that a call of `eth_poll` within one of
`dhcpTask` began later. `Fresh`: while the link stays up, the latch of BSR is clear
after the first read; it holds for `main` and `eth_poll` only, which nobody
interrupts (`Turns`). Results: `UpWasSeenAlways`, `NoFalseDownAlways`,
`TypeCorrect`.

**ArpProofs** (`ArpAssumption`: a table with an entry, the ages in order;
`PeersAssumption`: whom the tasks send to). An entry in use has a host of its own,
a stable one the address that host told last; a packet waits on one pending entry
at most, that of its next hop; its count is the sender's reference plus the
table's. None of these is inductive without the others: a packet that TCP sends
again is known not to wait already only by its count. `Calls` adds what a task
between two accesses relies on: its entry is still what it saw, and its packet has
one reference and is in no entry. All this holds until `raced`, so `RightHostAlways`,
`NoPbufLeakAlways` and the action property `SteadyUseAlways` do; the last has an
invariant that counts rerequests against the age of an entry: one in every two
seconds, with what the last one still accounts for (`Covered`). `TypeCorrect` has no
condition: its own invariant keeps the table, the counts and the ages in bounds
also after a race. `LockSuffices` says where races come from: no step disturbs a
call while `dhcpTask` is outside its unlocked `etharp_output()` and the gateway
stays.

**TcpServerProofs** (`SizesAssumption`: positive sizes, chains without empty pbufs). The invariant `Good` speaks of
one connection, its bytes received, taken and echoed, and the place of the server
task if it serves this one. The functions of the module preserve it one by one
(`recv_tcp`, `err_tcp`, `tcp_recved`, `lwip_netconn_do_writemore` ...), the actions
put them together; `Tables`, `Task`, `Waiting` and `Pools` relate the
connections to the accept mailbox, the task and the pools. What it has beyond the properties:

* pcb and netconn point at each other, the recv callback is registered exactly
  while there is a recvmbox, and a netconn that lost its pcb is marked closed
  (for `NetconnOwnedAlways` and `ServerWokenAlways`);
* the messages in the mailbox and the refused data join up, from the byte the
  server took last to the byte received last (for `EchoInOrderAlways`);
* the receive window is smaller by at least what is unread, a FIN that waits behind
  refused data, and what is taken but not yet told to `tcp_recved`. So a window that
  is fully open means that nothing is unread: `tcp_close()` tests the window
  beside the refused data (for `UnreadMeansResetAlways`).

The proof covers every number of connections, all sizes, and every way to cut the
data into segments and pbufs.

**KernelProofs** (`KernelAssumption`: finitely many tasks, the idle task below all
others, positive sizes). It starts with the functions of `tasks.c`, one lemma or two for each:
what it does to every list, and what it preserves. Two of them loop, over the ticks
pended while the scheduler was suspended (`CatchUp`) and over the posts counted in a
locked queue (`WakeReceivers`), and a third walks through an event list (`Kept`); they are
recursive functions, whose existence and effect are proved by an induction over their
index that uses the well-foundedness of the naturals (`UpTo`, `Recursion`). The invariant
has layers, two of them in this module.

* `KernelInv` holds without further assumption. `Walk` says what is known at each step of a
  blocking call: the result is pending until the return, the steps between `Suspend` and
  `Place` have time left and a time-out state, `sys_mbox_post()` never looks a last time.
  `Scheduler` and `Locks`: only the running task can have the scheduler suspended or a
  queue locked, and a locked queue counts at most as many posts as it holds messages, which is
  why `prvUnlockQueue` terminates within the mailbox's length. `Ring`: the write position
  follows from the read position and the count. `Holders`, `Counts`: a mutex is free exactly
  if it has no holder, and the kernel's count for a task is the number of mutexes it holds. It gives
  `TypeCorrect`.
* `ListInv` needs that no wait for a mutex lasts `portMAX_DELAY` ticks (`MUTEX_EXPIRES =
  FALSE`, 49 days on the board): what the code does then breaks `TopReadyExact` and
  `MutualExclusion`, see section 3. `Sound` is `OneStateList`, `NoOversleep` and `TopReadyExact` together
  with `Listed`: a task in an event list or in the pending list sleeps, and is in only one of
  the two. `Running`: the running task is ready, unless it has put itself to
  sleep and not yet yielded. `Patient`: no wait for a mutex has expired. This
  relates the tick count, the pended ticks and the time-out state over the wrap of both counters.
  `Owners`: who thinks it holds a mutex is its holder. Results: `OneStateListAlways`,
  `NoOversleepAlways`, `TopReadyExactAlways`, `MutualExclusionAlways`.

`ImplementsMailboxAlways` is the refinement of `Mailbox`, from `KernelInv` alone. The messages
in the ring buffer, read from `pcReadFrom` on, are the abstract `box`. `TrySend` is a `Post`, `TryReceive` a
`Fetch`, `IsrPost` an `Interrupt`; `Refuse` without time left and `Recheck` of an empty queue are a
`Fail`; `Begin` and `Return` are themselves; the rest stutters, and so do calls on mutexes
and delays. That `sys_mbox_post()` cannot fail comes from `Walk`.

The proof of the tick found a quantifier in `xTaskIncrementTick` whose scope took in
the rest of a disjunction, so that the switch was missed if no task was due; the model was corrected.

**KernelWakeProofs** adds the layer `WakeInv`, for `NoLostWakeupAlways`, again without waits
for a mutex that expire. `NoLostWakeup` as it stands is not inductive: it says nothing of a locked queue, and
nothing of the task that has tested a queue and is about to sleep.

* `ServeInv` counts for each side of each queue. `Calling` are the tasks in a call that is
  not yet served, `Waiting` those of them in the event list; every waiter is calling. `Owed` is what the
  queue has for them: its free slots, or its messages without those posts that `cTxLock` has counted and
  for which nobody was woken yet. If anyone waits, at least `Owed` callers are awake.
* `Tested`: from the test in `TestQueue` until the sleep in `Place` nothing is owed to the running
  task. An interrupt may post in between, but then the queue is locked and the post is counted.
* `NoGivers`: nobody waits to give a mutex.

A step that serves a caller takes one item and one awake caller; a step that adds an item
wakes a waiter, if there is one; a timeout makes callers awake and never the opposite; `prvUnlockQueue`
adds to `Owed` what it had counted, and wakes as many.

`HeldInv` is the fourth layer, for any number of mutexes: `Known` (a holder owns its mutex in the
eyes of its task, or is about to), `Alarms` and `Timed` (who sleeps for a mutex wakes when its wait
ends, so without expiry only with the mutex) and `OwnPriority`. From it comes `OwnPriorityAlways`.

`PrioInv` is the fifth, for any number of mutexes, with `HighestReadyRunsAlways` and
`NoPriorityInversionAlways`:

* `Led`: nobody awake outranks the current task, or PendSV is pending, or the scheduler is
  suspended and either `xYieldPending` is set or the task has just put itself to sleep. The last
  case is why `HighestReadyRuns` is not inductive: it says nothing of the suspended scheduler.
* The waiters of a mutex are sorted by priority, so the one woken is the highest.
* `Boosted`: a holder is at least at the priority of everybody who waits for a mutex of its.
* `Heir`: while tasks wait for a mutex nobody holds, a task that none of them outranks is awake to
  take it. It is what the next holder gets its rank from.

Both theorems have one exception, the step `ForgetsSwitch`, and without it they are false. Let two of
three tasks have equal priority, and the third, high one wait for one of the two mutexes that a low task
holds. The low task gives that one, and keeps the inherited priority because it still holds the other; the
high task is woken at an equal priority, so without a switch. Then the low task gives the other mutex, for
which a task of its own priority waits. It drops to its base, but `xQueueGenericSend()` looks at the result
of `xTaskPriorityDisinherit()` (`xYieldRequired`, queue.c:840-866) only if nobody waits, and the high task
stays ready, not running, until the next tick. With a fourth task above these, `NoPriorityInversion` fails
as well. The theorems say that this is the only way: until the kernel forgets a switch like this, both
properties hold, for every number of tasks and mutexes, any priorities and any nesting. TLC agrees, outside
the listed runs, for tied priorities with three and four tasks (96,920 and 945,641 states).

The firmware nests two mutexes, `lock_tcpip_core` (tcpip.c:612) and within it `mem_mutex` (mem.c:542). To
forget a switch there, a task that holds both would have to inherit through `mem_mutex` from a task above
it; but the tcpip thread, the only user of the heap above priority 4, asks for the core lock first and
waits for that. In the configuration of `kernel_mutex`, with its three distinct priorities, TLC finds that
`ForgetsSwitch` never happens, so the theorems cover that run and `kernel_mailbox`.

Only model-checked: liveness (`DescRecycled`, `MailboxServed`, `EveryoneServed`,
`TopTaskGetsMutex` and the others), which is out of reach of the prover.

## 5. Not modelled, and the plan

The firmware's own network code is modelled but for the transmit path. Every invariant
and every action property that a passing run checks is stated by a theorem, and so is the refinement of
`Mailbox`; the conditions are named in section 4. Two extensions are open:

* what is true after a forgotten switch: it is made up for at the next tick;
* waits for a mutex that expire, beyond `KernelInv`: the counterexample of section 3 is in
  the way of `ListInv`, so the layers above it would have to be stated anew.

Left out for good, with the reason: the transmit path and the UART (each is one
call into the STM32 HAL, which is not in the repository and holds the shared
state); the shell and the filesystem (no caller at this commit, and all state
is in LittleFS, also not in the repository); LED tasks and pin or clock set-up
(register output without state); TCP's sequence numbers, retransmission and
congestion control, IP, UDP and ICMP, IPv6, the socket API and lwIP's
applications (third-party, and unused or below what the firmware's logic
depends on); FreeRTOS's timers, event groups, notifications and queue sets
(unused). These vendored files are the larger part of the repository's lines.
