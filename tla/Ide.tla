-------------------------------- MODULE Ide --------------------------------
(***************************************************************************)
(* devices/ide.c: one ATA channel with two devices.  The channels share no *)
(* state.  Threads drive the controller under the channel's lock and wait  *)
(* for its interrupt on completion_wait; at boot ide_init() does so        *)
(* without the lock.  The controller itself is not part of the repository: *)
(* it is modelled as the driver and the ATA standard use it.               *)
(***************************************************************************)
EXTENDS Integers, FiniteSets

CONSTANTS
  Thread, NULL,
  Main,          \* the thread that boots
  Sector, Data,  \* sectors of a disk, and what they may hold
  Signatures,    \* what devices may show after a reset: [error, drdy, bsy, lba]
  Capacity,      \* answers to IDENTIFY DEVICE: "small", "large", "abort"
  MaxSpurious,   \* bound on interrupts nobody asked for
  LateSpurious   \* whether they may also come once the driver is in use

Dev == {0, 1}

VARIABLES
  \* struct channel and struct ata_disk
  lock, expecting_interrupt, completion_wait, is_ata,
  registered,  \* disks known to the block layer
  call,        \* what each thread does in the driver, or NULL
  boot,        \* <<phase, device>> of ide_init()
  panicked,
  \* the controller
  signature, capacity, disk,
  bsy, drq,    \* status register
  regs,        \* selected device and sector
  cmd,         \* command in progress, or NULL
  buffer,      \* the sector buffer behind the data register
  irq,         \* the interrupt line
  spurious     \* interrupts raised out of turn so far

driver   == <<lock, expecting_interrupt, completion_wait, is_ata, registered, call, boot, panicked>>
hardware == <<signature, capacity, disk, bsy, drq, regs, cmd, buffer, irq, spurious>>
vars     == <<driver, hardware>>

Init ==
  /\ lock = NULL /\ expecting_interrupt = FALSE /\ completion_wait = 0
  /\ is_ata = [d \in Dev |-> FALSE] /\ registered = {}
  /\ call = [t \in Thread |-> NULL] /\ boot = <<"check", 0>> /\ panicked = FALSE
  /\ signature \in [Dev -> Signatures] /\ capacity \in [Dev -> Capacity]
  /\ disk \in [Dev \X Sector -> Data]
  /\ bsy = FALSE /\ drq = FALSE /\ regs = <<0, NULL>> /\ cmd = NULL /\ buffer = NULL
  /\ irq = FALSE /\ spurious = 0

Idle == ~bsy /\ ~drq
At(t, at) == call[t] # NULL /\ call[t].at = at
Go(t, at) == call' = [call EXCEPT ![t].at = at]
Call(op, at, dev, sec, data) == [op |-> op, at |-> at, dev |-> dev, sec |-> sec, data |-> data]
-----------------------------------------------------------------------------
(* The controller.  It interrupts when data is ready for a read and when   *)
(* the data of a write is on the disk; an aborted command has no data.     *)
Ready ==
  /\ bsy
  /\ bsy' = FALSE /\ UNCHANGED <<signature, capacity, regs, spurious, driver>>
  /\ CASE cmd = "read" -> drq' = TRUE /\ buffer' = disk[regs] /\ irq' = TRUE /\ cmd' = NULL
                            /\ UNCHANGED disk
       [] cmd = "identify" -> drq' = (capacity[regs[1]] # "abort") /\ buffer' = capacity[regs[1]]
                            /\ irq' = TRUE /\ cmd' = NULL /\ UNCHANGED disk
       [] cmd = "write" /\ buffer = NULL -> drq' = TRUE /\ UNCHANGED <<disk, buffer, irq, cmd>>
       [] cmd = "write" /\ buffer # NULL -> drq' = FALSE /\ disk' = [disk EXCEPT ![regs] = buffer]
                            /\ irq' = TRUE /\ cmd' = NULL /\ buffer' = NULL

Spurious ==
  /\ spurious < MaxSpurious /\ ~irq /\ (expecting_interrupt => LateSpurious)
  /\ irq' = TRUE /\ spurious' = spurious + 1
  /\ UNCHANGED <<signature, capacity, disk, bsy, drq, regs, cmd, buffer, driver>>

(* interrupt_handler(): reading the status register takes the line down;   *)
(* an interrupt nobody expects is reported and dropped.                    *)
interrupt_handler ==
  /\ irq /\ irq' = FALSE
  /\ completion_wait' = completion_wait + IF expecting_interrupt THEN 1 ELSE 0
  /\ UNCHANGED <<lock, expecting_interrupt, is_ata, registered, call, boot, panicked>>
  /\ UNCHANGED <<signature, capacity, disk, bsy, drq, regs, cmd, buffer, spurious>>
-----------------------------------------------------------------------------
(* check_device_type(): whether the device is a disk, and whether there    *)
(* may be a slave behind it.                                               *)
check_device_type(dev, s) ==
  IF (s.error # 1 /\ (s.error # 129 \/ dev = 1)) \/ ~s.drdy \/ s.bsy
  THEN [is_ata |-> FALSE, more |-> s.error # 129]
  ELSE [is_ata |-> s.lba \in {"pata", "sata"}, more |-> TRUE]

\* ide_init() after reset_channel(): the master, then perhaps the slave.
CheckDevices ==
  LET first == check_device_type(0, signature[0])
      second == check_device_type(1, signature[1])
  IN  /\ boot = <<"check", 0>>
      /\ is_ata' = [d \in Dev |-> IF d = 0 THEN first.is_ata ELSE first.more /\ second.is_ata]
      /\ boot' = <<"identify", 0>>
      /\ UNCHANGED <<lock, expecting_interrupt, completion_wait, registered, call, panicked, hardware>>

\* identify_ata_device() of each disk.
Identify ==
  /\ boot[1] = "identify" /\ boot[2] \in Dev /\ call[Main] = NULL
  /\ IF is_ata[boot[2]]
     THEN call' = [call EXCEPT ![Main] = Call("identify", "select", boot[2], NULL, NULL)]
     ELSE UNCHANGED call
  /\ boot' = <<"identify", boot[2] + 1>>
  /\ UNCHANGED <<lock, expecting_interrupt, completion_wait, is_ata, registered, panicked, hardware>>

Booted == boot[2] \notin Dev /\ call[Main] = NULL

\* The end of identify_ata_device(); partition_scan() reads sectors.
Identified(t) ==
  LET c == call[t] IN
  /\ At(t, "identified")
  /\ IF c.data = "small"
     THEN /\ registered' = registered \cup {c.dev}
          /\ \E s \in Sector : call' = [call EXCEPT ![t] = Call("read", "acquire", c.dev, s, NULL)]
          /\ UNCHANGED is_ata
     ELSE /\ is_ata' = [is_ata EXCEPT ![c.dev] = FALSE]
          /\ call' = [call EXCEPT ![t] = NULL]
          /\ UNCHANGED registered
  /\ UNCHANGED <<lock, expecting_interrupt, completion_wait, boot, panicked, hardware>>
-----------------------------------------------------------------------------
\* ide_read() and ide_write(), of registered disks only.
ide_call(t, op, dev, sec, data) ==
  /\ Booted /\ call[t] = NULL /\ dev \in registered
  /\ call' = [call EXCEPT ![t] = Call(op, "acquire", dev, sec, data)]
  /\ UNCHANGED <<lock, expecting_interrupt, completion_wait, is_ata, registered, boot, panicked, hardware>>

ide_read(t, dev, sec)        == ide_call(t, "read", dev, sec, NULL)
ide_write(t, dev, sec, data) == ide_call(t, "write", dev, sec, data)

Acquire(t) ==
  /\ At(t, "acquire") /\ lock = NULL
  /\ lock' = t /\ Go(t, "select")
  /\ UNCHANGED <<expecting_interrupt, completion_wait, is_ata, registered, boot, panicked, hardware>>

(* select_sector() or select_device_wait(): wait_until_idle() gives up     *)
(* after a while and goes on; a busy controller ignores the registers.     *)
Select(t) ==
  /\ At(t, "select")
  /\ regs' = IF Idle THEN <<call[t].dev, call[t].sec>> ELSE regs
  /\ irq' = FALSE
  /\ Go(t, "issue")
  /\ UNCHANGED <<lock, expecting_interrupt, completion_wait, is_ata, registered, boot, panicked>>
  /\ UNCHANGED <<signature, capacity, disk, bsy, drq, cmd, buffer, spurious>>

(* issue_pio_command().  ide_write() goes on to poll, the others wait.     *)
issue_pio_command(t) ==
  /\ At(t, "issue")
  /\ expecting_interrupt' = TRUE
  /\ IF Idle THEN bsy' = TRUE /\ cmd' = call[t].op /\ buffer' = NULL /\ irq' = FALSE
             ELSE UNCHANGED <<bsy, cmd, buffer, irq>>
  /\ Go(t, IF call[t].op = "write" THEN "poll" ELSE "wait")
  /\ UNCHANGED <<lock, completion_wait, is_ata, registered, boot, panicked>>
  /\ UNCHANGED <<signature, capacity, disk, drq, regs, spurious>>

\* Faulty: a write does not wait for its interrupt.
WaitReadsOnly(t) ==
  /\ At(t, "wait") /\ (call[t].op = "write" \/ completion_wait > 0)
  /\ completion_wait' = IF call[t].op = "write" THEN completion_wait ELSE completion_wait - 1
  /\ Go(t, IF call[t].op = "write" THEN "release" ELSE "poll")
  /\ UNCHANGED <<lock, expecting_interrupt, is_ata, registered, boot, panicked, hardware>>

\* sema_down (&c->completion_wait).
Wait(t) ==
  /\ At(t, "wait") /\ completion_wait > 0
  /\ completion_wait' = completion_wait - 1
  /\ Go(t, IF call[t].op = "write" THEN "release" ELSE "poll")
  /\ UNCHANGED <<lock, expecting_interrupt, is_ata, registered, boot, panicked, hardware>>

(* wait_while_busy() and the transfer.  Without data after it, reads and   *)
(* writes panic and a device that was to identify itself is no disk.       *)
Transfer(t) ==
  LET c == call[t] IN
  /\ At(t, "poll") /\ ~bsy
  /\ IF ~drq
     THEN /\ panicked' = (c.op # "identify")
          /\ call' = [call EXCEPT ![t].at = "identified", ![t].data = "abort"]
          /\ UNCHANGED <<bsy, drq, buffer>>
     ELSE /\ drq' = FALSE
          /\ IF c.op = "write"
             THEN bsy' = TRUE /\ buffer' = c.data /\ Go(t, "wait")
             ELSE /\ call' = [call EXCEPT ![t].data = buffer,
                                          ![t].at = IF c.op = "read" THEN "release" ELSE "identified"]
                  /\ UNCHANGED <<bsy, buffer>>
          /\ UNCHANGED panicked
  /\ UNCHANGED <<lock, expecting_interrupt, completion_wait, is_ata, registered, boot>>
  /\ UNCHANGED <<signature, capacity, disk, regs, cmd, irq, spurious>>

Release(t) ==
  /\ At(t, "release")
  /\ lock' = NULL /\ call' = [call EXCEPT ![t] = NULL]
  /\ UNCHANGED <<expecting_interrupt, completion_wait, is_ata, registered, boot, panicked, hardware>>

Step(t) ==
  ~panicked /\ (\/ Acquire(t) \/ Select(t) \/ issue_pio_command(t) \/ Wait(t) \/ Transfer(t)
                \/ Release(t) \/ Identified(t))

Boot == CheckDevices \/ Identify

Next ==
  /\ ~panicked
  /\ \/ Ready \/ Spurious \/ interrupt_handler \/ Boot
     \/ \E t \in Thread :
          \/ \E dev \in Dev, sec \in Sector : ide_read(t, dev, sec)
          \/ \E dev \in Dev, sec \in Sector, data \in Data : ide_write(t, dev, sec, data)
          \/ Step(t)

Spec == Init /\ [][Next]_vars
-----------------------------------------------------------------------------
(* When ide_read() is about to return, its buffer holds the sector it was  *)
(* asked for; "Returns after the disk has acknowledged receiving the       *)
(* data": when ide_write() is about to return, the sector holds its data.  *)
TransferDone ==
  \A t \in Thread : At(t, "release") => disk[<<call[t].dev, call[t].sec>>] = call[t].data

(* Between requests the channel is quiet: the controller is idle, every    *)
(* interrupt has been taken, and every up of completion_wait has met its   *)
(* down.                                                                   *)
QuietWhenFree ==
  Booted /\ lock = NULL => Idle /\ cmd = NULL /\ ~irq /\ completion_wait = 0

(* No transfer fails: a disk that was registered answers every command.    *)
NoPanic == ~panicked
=============================================================================
