-------------------------------- MODULE Ide --------------------------------
(***************************************************************************)
(* The ATA driver (ide.c) for one channel: detection of its two devices,   *)
(* sector reads and writes by several threads under the channel's lock,    *)
(* and the completion interrupt.  The drives are external: a drive is      *)
(* ready, busy, or waits for data to be transferred (DRQ).  Drives answer  *)
(* within the time wait_until_idle and wait_while_busy allow them.         *)
(***************************************************************************)
EXTENDS Integers, FiniteSets, Sequences

CONSTANTS
  IdeThread,    \* threads that use the disks
  DiskSector, DiskData,
  DiskDiagnosis,        \* what a device may report after a reset
  MaxCapacity,  \* sectors of a 1 GB disk
  MaxStrays     \* interrupts a drive did not mean as a completion

VARIABLES
  device,       \* the two devices of the channel
  is_ata, registered,
  channel,      \* lock holder, expecting_interrupt, completion_wait, and selection
  drive,        \* status of the selected drive, and its command
  irq,          \* an interrupt is pending
  media,        \* the sectors of both devices
  boot,         \* where ide_init is
  request,      \* what every thread does
  strays, down,  \* strays taken as completions; PANIC
  acknowledged  \* contents of the sectors, by the writes that returned

bootVars == <<device, is_ata, registered, boot>>
driveVars == <<drive, irq, media>>
otherVars == <<strays, down, acknowledged>>
ideVars == <<bootVars, channel, driveVars, request, otherVars>>

Dev == {0, 1}
Nobody == "nobody"
Booting == "boot"     \* the thread that runs ide_init
User == IdeThread \cup {Booting}

ASSUME IdeAssumption ==
  /\ Nobody \notin User /\ Booting \notin IdeThread
  /\ 0 \in DiskData
  /\ DiskDiagnosis \subseteq [error : Nat, ready : BOOLEAN, ata : BOOLEAN, capacity : Nat]
  /\ DiskDiagnosis # {} /\ MaxCapacity \in Nat /\ MaxStrays \in Nat

NoRequest == [pc |-> "none", kind |-> "none", dev |-> 0, sector |-> 0, data |-> 0]
Ready == [state |-> "ready", kind |-> "none", dev |-> 0, sector |-> 0, data |-> 0]

IdeInit ==
  /\ device = [d \in Dev |-> CHOOSE x \in DiskDiagnosis : TRUE]
  /\ is_ata = [d \in Dev |-> FALSE] /\ registered = {}
  /\ channel = [holder |-> Nobody, expecting_interrupt |-> FALSE, completion_wait |-> 0,
                dev |-> 0, sector |-> 0]
  /\ drive = Ready /\ irq = FALSE
  /\ media = [d \in Dev |-> [s \in DiskSector |-> 0]]
  /\ boot = "reset"
  /\ request = [t \in User |-> NoRequest]
  /\ strays = 0 /\ down = FALSE
  /\ acknowledged = media

\* Where ide_init goes on after device d.
Identified(d) == IF d = 0 THEN "second" ELSE "up"

-----------------------------------------------------------------------------
(* The drives. *)

\* The drive has found the sector, or failed to: then it sets no DRQ.  It asks
\* for the data of a write without an interrupt.
DriveAnswers ==
  /\ drive.state = "busy"
  /\ \E ok \in BOOLEAN :
       /\ drive' = [drive EXCEPT !.state = IF ok THEN "drq" ELSE "ready"]
       /\ irq' = (drive.kind # "write" \/ ~ok \/ irq)
  /\ UNCHANGED <<bootVars, otherVars, channel, media, request>>

\* The sector handed over is on the medium.
DriveStores ==
  /\ drive.state = "storing"
  /\ media' = [media EXCEPT ![drive.dev][drive.sector] = drive.data]
  /\ drive' = Ready
  /\ irq' = TRUE
  /\ UNCHANGED <<bootVars, otherVars, channel, request>>

\* Variant of Completion: the semaphore is up'd by every interrupt.
CompletionAlways(c) == [c EXCEPT !.completion_wait = @ + 1]

\* interrupt_handler ups completion_wait if an interrupt is expected.
Completion(c) == IF c.expecting_interrupt THEN [c EXCEPT !.completion_wait = @ + 1] ELSE c

interrupt_handler ==
  /\ irq /\ ~down
  /\ irq' = FALSE
  /\ channel' = Completion(channel)
  /\ UNCHANGED <<bootVars, otherVars, drive, media, request>>

\* An interrupt no drive meant as a completion.
StrayInterrupt ==
  /\ strays < MaxStrays /\ ~down
  /\ channel' = Completion(channel)
  /\ strays' = IF channel.expecting_interrupt THEN strays + 1 ELSE strays
  /\ UNCHANGED <<bootVars, driveVars, request, down, acknowledged>>

-----------------------------------------------------------------------------
(* Requests. *)

RequestAt(t, pc) == request[t].pc = pc /\ ~down
Go(t, pc) == request' = [request EXCEPT ![t].pc = pc]

\* The channel's lock admits one thread; ide_init does without it.
lock_acquire(t) ==
  /\ RequestAt(t, "acquire") /\ channel.holder = Nobody
  /\ channel' = [channel EXCEPT !.holder = t]
  /\ Go(t, "select")
  /\ UNCHANGED <<bootVars, driveVars, otherVars>>

\* Waits until the drive is idle; reading the status clears a pending interrupt.
select_sector(t) ==
  /\ RequestAt(t, "select") /\ drive.state = "ready"
  /\ channel' = [channel EXCEPT !.dev = request[t].dev, !.sector = request[t].sector]
  /\ irq' = FALSE
  /\ Go(t, "issue")
  /\ UNCHANGED <<bootVars, otherVars, drive, media>>

\* Variant of Expecting: the flag is left as it was.
ExpectingAsBefore(c) == c

Expecting(c) == [c EXCEPT !.expecting_interrupt = TRUE]

\* A write waits for the drive to take its data, anything else for the interrupt.
issue_pio_command(t) ==
  /\ RequestAt(t, "issue")
  /\ channel' = Expecting(channel)
  /\ drive' = [state |-> "busy", kind |-> request[t].kind,
               dev |-> channel.dev, sector |-> channel.sector, data |-> 0]
  /\ Go(t, IF request[t].kind = "write" THEN "ready" ELSE "wait")
  /\ UNCHANGED <<bootVars, otherVars, irq, media>>

\* sema_down (&c->completion_wait).
WaitCompletion(t) ==
  /\ RequestAt(t, "wait") /\ channel.completion_wait > 0
  /\ channel' = [channel EXCEPT !.completion_wait = @ - 1]
  /\ Go(t, IF request[t].kind = "write" THEN "release" ELSE "ready")
  /\ UNCHANGED <<bootVars, driveVars, otherVars>>

\* wait_while_busy: without DRQ a read or write is a PANIC, and a device that does
\* not identify itself is no disk.
wait_while_busy(t) ==
  /\ RequestAt(t, "ready") /\ drive.state \in {"ready", "drq"}
  /\ \/ /\ drive.state = "drq" /\ Go(t, "transfer")
        /\ UNCHANGED <<is_ata, boot, down>>
     \/ /\ drive.state = "ready" /\ request[t].kind # "identify"
        /\ down' = TRUE
        /\ UNCHANGED <<is_ata, boot, request>>
     \/ /\ drive.state = "ready" /\ request[t].kind = "identify"
        /\ is_ata' = [is_ata EXCEPT ![request[t].dev] = FALSE]
        /\ request' = [request EXCEPT ![t] = NoRequest]
        /\ boot' = Identified(request[t].dev)
        /\ UNCHANGED down
  /\ UNCHANGED <<driveVars, device, registered, channel, strays, acknowledged>>

\* input_sector of a read.
input_sector(t) ==
  /\ RequestAt(t, "transfer") /\ request[t].kind = "read"
  /\ request' = [request EXCEPT ![t].pc = "release",
                                ![t].data = media[drive.dev][drive.sector]]
  /\ drive' = Ready
  /\ UNCHANGED <<bootVars, otherVars, channel, irq, media>>

output_sector(t) ==
  /\ RequestAt(t, "transfer") /\ request[t].kind = "write"
  /\ drive' = [drive EXCEPT !.state = "storing", !.data = request[t].data]
  /\ Go(t, "wait")
  /\ UNCHANGED <<bootVars, otherVars, channel, irq, media>>

lock_release(t) ==
  /\ RequestAt(t, "release")
  /\ channel' = [channel EXCEPT !.holder = Nobody]
  /\ request' = [request EXCEPT ![t] = NoRequest]
  /\ acknowledged' = IF request[t].kind = "read" THEN acknowledged
                     ELSE [acknowledged EXCEPT ![request[t].dev][request[t].sector] =
                             request[t].data]
  /\ UNCHANGED <<bootVars, driveVars, strays, down>>

\* ide_read and ide_write are called on registered disks, once ide_init is done.
ide_read(t) ==
  /\ RequestAt(t, "none") /\ boot = "up"
  /\ \E d \in registered, s \in DiskSector :
       request' = [request EXCEPT ![t] = [pc |-> "acquire", kind |-> "read", dev |-> d,
                                          sector |-> s, data |-> 0]]
  /\ UNCHANGED <<bootVars, driveVars, otherVars, channel>>

ide_write(t) ==
  /\ RequestAt(t, "none") /\ boot = "up"
  /\ \E d \in registered, s \in DiskSector, x \in DiskData :
       request' = [request EXCEPT ![t] = [pc |-> "acquire", kind |-> "write", dev |-> d,
                                          sector |-> s, data |-> x]]
  /\ UNCHANGED <<bootVars, driveVars, otherVars, channel>>

-----------------------------------------------------------------------------
(* ide_init *)

\* reset_channel: the devices found are ready.
reset_channel ==
  /\ boot = "reset"
  /\ device' \in [Dev -> DiskDiagnosis]
  /\ boot' = "type"
  /\ UNCHANGED <<driveVars, otherVars, is_ata, registered, channel, request>>

\* check_device_type of device d: whether it is an ATA disk, and whether there may
\* be a slave.
Faulty(d) ==
  \/ device[d].error # 1 /\ (device[d].error # 129 \/ d = 1)
  \/ ~device[d].ready

check_device_type ==
  /\ boot = "type"
  /\ is_ata' = [d \in Dev |->
                  /\ ~Faulty(d) /\ device[d].ata
                  /\ d = 1 => ~Faulty(0) \/ device[0].error # 129]
  /\ boot' = "first"
  /\ UNCHANGED <<driveVars, otherVars, device, registered, channel, request>>

\* identify_ata_device, if the device is a disk.
StartIdentify ==
  /\ boot \in {"first", "second"} /\ request[Booting] = NoRequest /\ ~down
  /\ LET d == IF boot = "first" THEN 0 ELSE 1
     IN  IF is_ata[d]
           THEN /\ request' = [request EXCEPT ![Booting] =
                                 [NoRequest EXCEPT !.pc = "select", !.kind = "identify", !.dev = d]]
                /\ UNCHANGED boot
           ELSE boot' = Identified(d) /\ UNCHANGED request
  /\ UNCHANGED <<driveVars, otherVars, device, is_ata, registered, channel>>

\* A disk of 1 GB or more is left alone.
identify_ata_device ==
  /\ RequestAt(Booting, "transfer")
  /\ \E d \in {request[Booting].dev} :
       /\ is_ata' = [is_ata EXCEPT ![d] = device[d].capacity < MaxCapacity]
       /\ registered' = IF is_ata'[d] THEN registered \cup {d} ELSE registered
       /\ boot' = Identified(d)
  /\ drive' = Ready
  /\ request' = [request EXCEPT ![Booting] = NoRequest]
  /\ UNCHANGED <<otherVars, device, channel, irq, media>>

IdeNext ==
  \/ DriveAnswers \/ DriveStores \/ interrupt_handler \/ StrayInterrupt
  \/ reset_channel \/ check_device_type \/ StartIdentify \/ identify_ata_device
  \/ \E t \in User :
       \/ select_sector(t) \/ issue_pio_command(t) \/ WaitCompletion(t) \/ wait_while_busy(t)
  \/ \E t \in IdeThread :
       \/ ide_read(t) \/ ide_write(t) \/ lock_acquire(t) \/ input_sector(t)
       \/ output_sector(t) \/ lock_release(t)

-----------------------------------------------------------------------------
\* A read returns what was last written, by any thread, to that sector of that
\* disk, even after a stray interrupt was taken for a completion.  Unless one was,
\* a write returns only once its data is on the medium, and no up of
\* completion_wait is left over for the next command.
IdeDataExact ==
  \A t \in IdeThread :
    request[t].pc = "release" =>
      /\ request[t].kind = "read" =>
           request[t].data = acknowledged[request[t].dev][request[t].sector]
      /\ strays = 0 => /\ media[request[t].dev][request[t].sector] = request[t].data
                       /\ channel.completion_wait = 0 /\ ~irq

\* A thread that waits for the completion of its command is woken: the interrupt
\* is recorded, pending or still to come from the drive.  A disk is used only if it
\* was identified, is smaller than 1 GB, and reported itself as an ATA disk.
IdeCompletes ==
  /\ \A t \in User :
       request[t].pc = "wait" =>
         channel.completion_wait > 0 \/ irq \/ drive.state \in {"busy", "storing"}
  /\ \A d \in registered :
       is_ata[d] /\ device[d].ata /\ device[d].ready /\ device[d].capacity < MaxCapacity
=============================================================================
