----------------------------- MODULE IdeProofs ------------------------------
(***************************************************************************)
(* Proofs about ide.c for any threads, sectors and data: reads return what *)
(* was written, and no thread waits for a command that is over.            *)
(***************************************************************************)
EXTENDS Ide, TLAPS

Command == [pc : {"none", "acquire", "select", "issue", "wait", "ready", "transfer", "release"},
            kind : {"none", "read", "write", "identify"}, dev : Dev,
            sector : DiskSector \cup {0}, data : DiskData]
DriveState == [state : {"ready", "busy", "drq", "storing"},
               kind : {"none", "read", "write", "identify"}, dev : Dev,
               sector : DiskSector \cup {0}, data : DiskData]
Channel == [holder : User \cup {Nobody}, expecting_interrupt : BOOLEAN, completion_wait : Nat,
            dev : Dev, sector : DiskSector \cup {0}]
Contents == [Dev -> [DiskSector -> DiskData]]

IdeTypes ==
  /\ device \in [Dev -> DiskDiagnosis] /\ is_ata \in [Dev -> BOOLEAN] /\ registered \subseteq Dev
  /\ channel \in Channel /\ drive \in DriveState /\ irq \in BOOLEAN
  /\ media \in Contents /\ acknowledged \in Contents
  /\ boot \in {"reset", "type", "first", "second", "up"}
  /\ request \in [User -> Command]
  /\ strays \in Nat /\ down \in BOOLEAN

\* The pcs of a thread that uses the channel.
InChannel == {"select", "issue", "wait", "ready", "transfer", "release"}

\* The device ide_init is at.
BootDev == IF boot = "first" THEN 0 ELSE 1

\* One thread uses the channel: ide_init while the kernel boots, then the lock's holder.
OneUser ==
  /\ \A t \in IdeThread :
       /\ request[t].pc # "none" =>
            /\ boot = "up"
            /\ request[t].kind \in {"read", "write"} /\ request[t].sector \in DiskSector
       /\ request[t].pc \in InChannel => channel.holder = t
  /\ request[Booting].pc = "none" => request[Booting] = NoRequest
  /\ request[Booting].pc # "none" =>
       /\ boot \in {"first", "second"}
       /\ request[Booting].pc \notin {"acquire", "release"}
       /\ request[Booting].kind = "identify" /\ request[Booting].dev = BootDev
       /\ is_ata[BootDev]

\* The drive works on the command of the thread that uses the channel, and whoever
\* waits for the completion has it recorded, pending or to come.
Working(t) ==
  /\ request[t].pc = "issue" =>
       /\ drive.state = "ready" /\ ~irq
       /\ channel.dev = request[t].dev /\ channel.sector = request[t].sector
  /\ request[t].pc \in {"wait", "ready", "transfer"} =>
       /\ channel.expecting_interrupt
       /\ drive.state # "ready" =>
            /\ drive.kind = request[t].kind
            /\ drive.dev = request[t].dev /\ drive.sector = request[t].sector
  /\ request[t].pc = "wait" =>
       /\ channel.completion_wait > 0 \/ irq \/ drive.state \in {"busy", "storing"}
       /\ request[t].kind = "write" =>
            drive.state = "ready" \/ (drive.state = "storing" /\ drive.data = request[t].data)
       /\ request[t].kind # "write" => drive.state # "storing"
  /\ request[t].pc = "ready" => drive.state # "storing"
  /\ request[t].pc = "transfer" => drive.state = "drq"

\* A drive at work without a thread that waits for it: a write that a stray
\* interrupt ended before the drive was done.
Abandoned ==
  (\A t \in User : request[t].pc \notin {"wait", "ready", "transfer"}) =>
    drive.state \in {"ready", "storing"}

\* No stray interrupt: the semaphore and the interrupt line count the one completion
\* of the command at work.
Unstrayed ==
  strays = 0 =>
    /\ (\A t \in User : request[t].pc \notin {"wait", "ready"}) =>
         channel.completion_wait = 0 /\ ~irq /\ drive.state # "storing"
    /\ \A t \in User :
         /\ request[t].pc = "wait" =>
              \/ channel.completion_wait = 0 /\ irq /\ drive.state \notin {"busy", "storing"}
              \/ channel.completion_wait = 1 /\ ~irq /\ drive.state \notin {"busy", "storing"}
              \/ channel.completion_wait = 0 /\ ~irq /\ drive.state \in {"busy", "storing"}
         /\ request[t].pc = "ready" /\ request[t].kind # "write" =>
              channel.completion_wait = 0 /\ ~irq /\ drive.state # "busy"
         /\ request[t].pc = "ready" /\ drive.state # "ready" =>
              channel.completion_wait = 0 /\ ~irq

\* The contents of the sectors once the drive is done, and once the thread that
\* has handed over its data returns.
Stored(d, s) ==
  IF drive.state = "storing" /\ drive.dev = d /\ drive.sector = s THEN drive.data
  ELSE media[d][s]
HandedOver(t) == request[t].pc \in {"wait", "release"} /\ request[t].kind = "write"
Written(t, d, s) == HandedOver(t) /\ request[t].dev = d /\ request[t].sector = s
DataKept ==
  /\ drive.state = "storing" => drive.sector \in DiskSector
  /\ \A d \in Dev, s \in DiskSector :
       /\ (\A t \in IdeThread : ~Written(t, d, s)) => Stored(d, s) = acknowledged[d][s]
       /\ \A t \in IdeThread : Written(t, d, s) => Stored(d, s) = request[t].data
  /\ \A t \in IdeThread :
       request[t].pc = "release" /\ request[t].kind = "read" =>
         request[t].data = acknowledged[request[t].dev][request[t].sector]

\* The disks are those that were identified.
Identity ==
  /\ boot \in {"reset", "type", "first"} => registered = {}
  /\ boot = "second" => registered \subseteq {0}
  /\ boot \notin {"reset", "type"} =>
       \A d \in Dev : is_ata[d] => device[d].ata /\ device[d].ready
  /\ \A d \in registered : is_ata[d] /\ device[d].capacity < MaxCapacity

IdeInv ==
  /\ IdeTypes /\ OneUser /\ (\A t \in User : Working(t)) /\ Abandoned /\ Unstrayed
  /\ DataKept /\ Identity

IdeSpec == IdeInit /\ [][IdeNext]_ideVars

\* Nobody else uses the channel.
LEMMA AloneInChannel ==
  ASSUME IdeInv, NEW t \in User, request[t].pc \in InChannel,
         NEW u \in User, u # t
  PROVE  request[u].pc \notin InChannel
<1>1. CASE t = Booting
  BY Zenon, <1>1, IdeAssumption DEF IdeInv, IdeTypes, OneUser, InChannel, User
<1>2. CASE u = Booting
  BY Zenon, <1>2, IdeAssumption DEF IdeInv, IdeTypes, OneUser, InChannel, User
<1>3. CASE t \in IdeThread /\ u \in IdeThread
  BY Zenon, <1>3 DEF IdeInv, OneUser
<1> QED
  BY Zenon, <1>1, <1>2, <1>3 DEF User

\* The channel starts idle.
LEMMA IdeInvInit == IdeInit => IdeInv
<1> SUFFICES ASSUME IdeInit PROVE IdeInv
  OBVIOUS
<1> USE IdeAssumption DEF IdeInit
<1>1. \A t \in User : request[t] = NoRequest
  BY Zenon DEF User
<1>2. IdeTypes
  <2>1. (CHOOSE x \in DiskDiagnosis : TRUE) \in DiskDiagnosis
    OBVIOUS
  <2>2. NoRequest \in Command /\ Ready \in DriveState /\ channel \in Channel
    BY Zenon DEF NoRequest, Ready, Command, DriveState, Channel, Dev
  <2>3. media \in Contents
    BY Zenon DEF Contents
  <2> QED
    BY <2>1, <2>2, <2>3, Zenon DEF IdeTypes
<1>3. OneUser
  BY Zenon, <1>1 DEF OneUser, NoRequest, InChannel, User
<1>4. \A t \in User : Working(t)
  BY Zenon, <1>1 DEF Working, NoRequest
<1>5. Abandoned /\ Unstrayed
  BY Zenon, <1>1 DEF Abandoned, Unstrayed, NoRequest, Ready
<1>6. DataKept
  <2>1. \A t \in IdeThread : request[t].pc = "none"
    BY Zenon, <1>1 DEF User, NoRequest
  <2> QED
    BY Zenon, <2>1 DEF DataKept, Stored, Written, HandedOver, Ready
<1>7. Identity
  BY Zenon DEF Identity
<1> QED
  BY Zenon, <1>2, <1>3, <1>4, <1>5, <1>6, <1>7 DEF IdeInv

\* The drive answers the command it was given.
LEMMA DriveAnswersKeeps == IdeInv /\ DriveAnswers => IdeInv'
<1> SUFFICES ASSUME IdeInv, DriveAnswers PROVE IdeInv'
  OBVIOUS
<1> USE DEF bootVars, otherVars
<1>1. PICK ok \in BOOLEAN :
        /\ drive.state = "busy"
        /\ drive' = [drive EXCEPT !.state = IF ok THEN "drq" ELSE "ready"]
        /\ irq' = (drive.kind # "write" \/ ~ok \/ irq)
  BY Zenon DEF DriveAnswers
<1>2. /\ drive' \in DriveState /\ drive'.state = (IF ok THEN "drq" ELSE "ready")
      /\ drive'.kind = drive.kind /\ drive'.dev = drive.dev /\ drive'.sector = drive.sector
      /\ drive'.data = drive.data
  BY Zenon, <1>1 DEF IdeInv, IdeTypes, DriveState
<1>3. /\ UNCHANGED <<device, is_ata, registered, boot, strays, down, acknowledged>>
      /\ UNCHANGED <<channel, media, request>>
  BY Zenon DEF DriveAnswers
<1>4. PICK t \in User : request[t].pc \in {"wait", "ready"}
  BY Zenon, <1>1 DEF IdeInv, Abandoned, Working
<1>5. \A u \in User : u # t => request[u].pc \notin InChannel
  BY Zenon, <1>4, AloneInChannel DEF InChannel
<1> DEFINE tells == drive.kind # "write" \/ ~ok
<1>irq. irq' \in BOOLEAN /\ (irq' <=> tells \/ irq)
  BY <1>1, Zenon
<1> HIDE DEF tells
<1>6. IdeTypes'
  BY Zenon, <1>irq, <1>2, <1>3 DEF IdeInv, IdeTypes
<1>7. OneUser' /\ Identity'
  BY Zenon, <1>3 DEF IdeInv, OneUser, Identity, BootDev
<1>8. \A u \in User : Working(u)'
  BY <1>1, <1>2, <1>3, <1>irq DEF IdeInv, Working, tells
<1>9. Abandoned'
  BY Zenon, <1>3, <1>4 DEF Abandoned
<1>10. Unstrayed'
  BY <1>1, <1>2, <1>3, <1>4, <1>5, <1>irq DEF IdeInv, Unstrayed, Working, InChannel, tells
<1>11. DataKept'
  BY <1>1, <1>2, <1>3 DEF IdeInv, DataKept, Stored, Written, HandedOver
<1> QED
  BY Zenon, <1>6, <1>7, <1>8, <1>9, <1>10, <1>11 DEF IdeInv

\* The drive has stored a sector.
LEMMA DriveStoresKeeps == IdeInv /\ DriveStores => IdeInv'
<1> SUFFICES ASSUME IdeInv, DriveStores PROVE IdeInv'
  OBVIOUS
<1> USE DEF bootVars, otherVars
<1>1. /\ drive.state = "storing" /\ drive.sector \in DiskSector
      /\ media' = [media EXCEPT ![drive.dev][drive.sector] = drive.data]
      /\ drive' = Ready /\ irq' = TRUE
      /\ UNCHANGED <<device, is_ata, registered, boot, strays, down, acknowledged>>
      /\ UNCHANGED <<channel, request>>
  BY Zenon DEF DriveStores, IdeInv, DataKept
<1>2. drive.dev \in Dev /\ drive.data \in DiskData /\ Ready \in DriveState /\ Ready.state = "ready"
  BY Zenon, IdeAssumption DEF IdeInv, IdeTypes, DriveState, Ready, Dev
<1>3. media' \in Contents
  BY Zenon, <1>1, <1>2 DEF IdeInv, IdeTypes, Contents
<1>4. \A d \in Dev, s \in DiskSector : Stored(d, s)' = Stored(d, s)
  BY Zenon, <1>1, <1>2 DEF IdeInv, IdeTypes, Contents, Stored
<1>5. IdeTypes'
  BY Zenon, <1>1, <1>2, <1>3 DEF IdeInv, IdeTypes
<1>6. OneUser' /\ Identity'
  BY Zenon, <1>1 DEF IdeInv, OneUser, Identity, BootDev
<1>7. \A u \in User : Working(u)'
  BY Zenon, <1>1, <1>2 DEF IdeInv, Working
<1>8. Abandoned'
  BY Zenon, <1>1, <1>2 DEF Abandoned
<1>9. Unstrayed'
  <2>1. CASE \E t \in User : request[t].pc = "wait"
    <3>1. PICK t \in User : request[t].pc = "wait"
      BY Zenon, <2>1
    <3>2. \A u \in User : u # t => request[u].pc \notin InChannel
      BY Zenon, <3>1, AloneInChannel DEF InChannel
    <3> QED
      BY Zenon, <1>1, <1>2, <3>1, <3>2 DEF IdeInv, Unstrayed, InChannel
  <2>2. CASE ~ \E t \in User : request[t].pc = "wait"
    BY Zenon, <1>1, <1>2, <2>2 DEF IdeInv, Unstrayed, Working
  <2> QED
    BY Zenon, <2>1, <2>2
<1>10. DataKept'
  BY SMTT(30), <1>1, <1>2, <1>4 DEF IdeInv, DataKept, Written, HandedOver
<1> QED
  BY Zenon, <1>5, <1>6, <1>7, <1>8, <1>9, <1>10 DEF IdeInv

\* An interrupt, meant as a completion or not.
LEMMA InterruptKeeps ==
  ASSUME IdeInv, interrupt_handler \/ StrayInterrupt
  PROVE  IdeInv'
<1> USE DEF bootVars, otherVars, driveVars
<1>1. /\ channel' = Completion(channel)
      /\ UNCHANGED <<device, is_ata, registered, boot, drive, media, request, down, acknowledged>>
  BY Zenon DEF interrupt_handler, StrayInterrupt
<1>2. /\ channel' \in Channel /\ channel'.holder = channel.holder
      /\ channel'.expecting_interrupt = channel.expecting_interrupt
      /\ channel'.dev = channel.dev /\ channel'.sector = channel.sector
      /\ channel'.completion_wait = IF channel.expecting_interrupt
                                    THEN channel.completion_wait + 1 ELSE channel.completion_wait
      /\ channel.completion_wait \in Nat
  BY <1>1 DEF Completion, IdeInv, IdeTypes, Channel
<1>3. \/ irq /\ irq' = FALSE /\ strays' = strays
      \/ /\ irq' = irq
         /\ strays' = IF channel.expecting_interrupt THEN strays + 1 ELSE strays
  BY Zenon DEF interrupt_handler, StrayInterrupt
<1>irq. irq' \in BOOLEAN
  BY <1>3, Zenon DEF IdeInv, IdeTypes
<1>4. IdeTypes'
  BY <1>irq, <1>1, <1>2, <1>3 DEF IdeInv, IdeTypes
<1>5. OneUser' /\ Identity' /\ Abandoned' /\ DataKept'
  BY SMTT(30), <1>1, <1>2 DEF IdeInv, OneUser, Identity, BootDev, Abandoned, DataKept, Stored, Written,
                    HandedOver
<1>6. \A u \in User : Working(u)'
  BY SMTT(30), <1>1, <1>2, <1>3 DEF IdeInv, IdeTypes, Working
<1>7. Unstrayed'
  BY SMTT(30), <1>1, <1>2, <1>3 DEF IdeInv, IdeTypes, Working, Unstrayed
<1> QED
  BY Zenon, <1>4, <1>5, <1>6, <1>7 DEF IdeInv

\* A thread goes on with its command.
LEMMA GoesOn ==
  ASSUME IdeTypes, NEW t \in User, NEW p \in InChannel, Go(t, p)
  PROVE  /\ request' \in [User -> Command]
         /\ request'[t].pc = p /\ request'[t].kind = request[t].kind
         /\ request'[t].dev = request[t].dev /\ request'[t].sector = request[t].sector
         /\ request'[t].data = request[t].data
         /\ \A u \in User : u # t => request'[u] = request[u]
<1>1. request[t] \in Command /\ request \in [User -> Command]
  BY Zenon DEF IdeTypes
<1>2. [request[t] EXCEPT !.pc = p] \in Command
  BY Zenon, <1>1 DEF Command, InChannel
<1>3. request' = [request EXCEPT ![t] = [request[t] EXCEPT !.pc = p]]
  BY Zenon, <1>1 DEF Go
<1> HIDE DEF Command
<1>4. request' \in [User -> Command] /\ request'[t] = [request[t] EXCEPT !.pc = p]
  BY Zenon, <1>1, <1>2, <1>3
<1>5. \A u \in User : u # t => request'[u] = request[u]
  BY Zenon, <1>1, <1>3
<1> QED
  BY Zenon, <1>1, <1>4, <1>5 DEF Command

\* A thread takes the channel.
LEMMA AcquireKeeps ==
  ASSUME IdeInv, NEW t \in IdeThread, lock_acquire(t)
  PROVE  IdeInv'
<1> USE DEF bootVars, otherVars, driveVars
<1>1. /\ request[t].pc = "acquire" /\ channel.holder = Nobody
      /\ channel' = [channel EXCEPT !.holder = t]
      /\ Go(t, "select")
      /\ UNCHANGED <<device, is_ata, registered, boot, drive, irq, media, strays, down,
                     acknowledged>>
  BY Zenon DEF lock_acquire, RequestAt
<1>2. t \in User /\ IdeTypes /\ t # Booting
  BY Zenon, IdeAssumption DEF User, IdeInv
<1>3. /\ channel' \in Channel /\ channel'.holder = t
      /\ channel'.expecting_interrupt = channel.expecting_interrupt
      /\ channel'.completion_wait = channel.completion_wait
      /\ channel'.dev = channel.dev /\ channel'.sector = channel.sector
  BY Zenon, <1>1, <1>2 DEF IdeTypes, Channel
<1>4. /\ request' \in [User -> Command]
      /\ request'[t].pc = "select" /\ request'[t].kind = request[t].kind
      /\ request'[t].dev = request[t].dev /\ request'[t].sector = request[t].sector
      /\ request'[t].data = request[t].data
      /\ \A u \in User : u # t => request'[u] = request[u]
  BY Zenon, <1>1, <1>2, GoesOn DEF InChannel
<1>5. \A u \in IdeThread : request[u].pc \notin InChannel
  BY Zenon, <1>1, IdeAssumption DEF IdeInv, OneUser, User
<1>6. boot = "up" /\ request[Booting].pc = "none"
  BY Zenon, <1>1 DEF IdeInv, OneUser
<1>7. IdeTypes'
  BY Zenon, <1>1, <1>3, <1>4 DEF IdeInv, IdeTypes
<1>8. OneUser' /\ Identity'
  BY <1>1, <1>2, <1>3, <1>4, <1>5, <1>6
     DEF IdeInv, OneUser, Identity, BootDev, User, InChannel
<1>9. (\A u \in User : Working(u)') /\ Abandoned' /\ Unstrayed'
  BY SMTT(30), <1>1, <1>2, <1>3, <1>4 DEF IdeInv, Working, Abandoned, Unstrayed
<1>10. DataKept'
  BY SMTT(30), <1>1, <1>2, <1>4, <1>5 DEF IdeInv, DataKept, Stored, Written, HandedOver, User, InChannel
<1> QED
  BY Zenon, <1>7, <1>8, <1>9, <1>10 DEF IdeInv

\* A thread selects a sector of the idle drive.
LEMMA SelectKeeps ==
  ASSUME IdeInv, NEW t \in User, select_sector(t)
  PROVE  IdeInv'
<1> USE DEF bootVars, otherVars
<1>1. /\ request[t].pc = "select" /\ drive.state = "ready"
      /\ channel' = [channel EXCEPT !.dev = request[t].dev, !.sector = request[t].sector]
      /\ irq' = FALSE
      /\ Go(t, "issue")
      /\ UNCHANGED <<device, is_ata, registered, boot, drive, media, strays, down, acknowledged>>
  BY Zenon DEF select_sector, RequestAt
<1>2. IdeTypes /\ request[t].dev \in Dev /\ request[t].sector \in DiskSector \cup {0}
  BY Zenon DEF IdeInv, IdeTypes, Command
<1>3. /\ channel' \in Channel /\ channel'.holder = channel.holder
      /\ channel'.expecting_interrupt = channel.expecting_interrupt
      /\ channel'.completion_wait = channel.completion_wait
      /\ channel'.dev = request[t].dev /\ channel'.sector = request[t].sector
  BY <1>1, <1>2, Zenon DEF IdeTypes, Channel
<1>4. /\ request' \in [User -> Command]
      /\ request'[t].pc = "issue" /\ request'[t].kind = request[t].kind
      /\ request'[t].dev = request[t].dev /\ request'[t].sector = request[t].sector
      /\ request'[t].data = request[t].data
      /\ \A u \in User : u # t => request'[u] = request[u]
  BY Zenon, <1>1, <1>2, GoesOn DEF InChannel
<1>5. \A u \in User : u # t => request[u].pc \notin InChannel
  BY Zenon, <1>1, AloneInChannel DEF InChannel
<1>6. irq' \in BOOLEAN /\ ~irq'
  BY <1>1, Zenon
<1>7. IdeTypes'
  BY Zenon, <1>1, <1>3, <1>4, <1>6 DEF IdeTypes, IdeInv
<1>8. OneUser' /\ Identity'
  BY <1>1, <1>3, <1>4 DEF IdeInv, OneUser, Identity, BootDev, User, InChannel
<1>9. (\A u \in User : Working(u)') /\ Abandoned' /\ Unstrayed'
  BY SMTT(30), <1>1, <1>3, <1>4, <1>5, <1>6 DEF IdeInv, Working, Abandoned, Unstrayed, InChannel
<1>10. DataKept'
  BY SMTT(30), <1>1, <1>4 DEF IdeInv, DataKept, Stored, Written, HandedOver, User
<1> QED
  BY Zenon, <1>7, <1>8, <1>9, <1>10 DEF IdeInv

\* A thread gives the drive its command.
LEMMA IssueKeeps ==
  ASSUME IdeInv, NEW t \in User, issue_pio_command(t)
  PROVE  IdeInv'
<1> USE DEF bootVars, otherVars
<1> DEFINE p == IF request[t].kind = "write" THEN "ready" ELSE "wait"
<1>1. /\ request[t].pc = "issue"
      /\ channel' = [channel EXCEPT !.expecting_interrupt = TRUE]
      /\ drive' = [state |-> "busy", kind |-> request[t].kind,
                   dev |-> channel.dev, sector |-> channel.sector, data |-> 0]
      /\ Go(t, p)
      /\ UNCHANGED <<device, is_ata, registered, boot, irq, media, strays, down, acknowledged>>
  BY Zenon DEF issue_pio_command, RequestAt, Expecting
<1>2. IdeTypes /\ request[t] \in Command /\ channel \in Channel
  BY Zenon DEF IdeInv, IdeTypes
<1>3. channel'.expecting_interrupt /\ channel' \in Channel
  BY <1>1, <1>2, Zenon DEF Channel
<1>4. /\ channel'.holder = channel.holder
      /\ channel'.completion_wait = channel.completion_wait
      /\ channel'.dev = channel.dev /\ channel'.sector = channel.sector
  BY Zenon, <1>1, <1>2 DEF Channel
<1>5. /\ drive' \in DriveState /\ drive'.state = "busy"
      /\ drive'.kind = request[t].kind
      /\ drive'.dev = request[t].dev /\ drive'.sector = request[t].sector
  BY Zenon, <1>1, <1>2, IdeAssumption DEF DriveState, Command, Channel, IdeInv, Working
<1>6. drive.state = "ready" /\ ~irq
  BY Zenon, <1>1 DEF IdeInv, Working
<1>7. /\ request' \in [User -> Command]
      /\ request'[t].pc = p /\ request'[t].kind = request[t].kind
      /\ request'[t].dev = request[t].dev /\ request'[t].sector = request[t].sector
      /\ request'[t].data = request[t].data
      /\ \A u \in User : u # t => request'[u] = request[u]
  BY Zenon, <1>1, <1>2, GoesOn DEF InChannel
<1>8. \A u \in User : u # t => request[u].pc \notin InChannel
  BY Zenon, <1>1, AloneInChannel DEF InChannel
<1>9. IdeTypes'
  BY Zenon, <1>1, <1>3, <1>5, <1>7 DEF IdeTypes, IdeInv
<1>10. OneUser' /\ Identity'
  BY <1>1, <1>4, <1>7 DEF IdeInv, OneUser, Identity, BootDev, User, InChannel
<1>11. (\A u \in User : Working(u)') /\ Abandoned'
  BY <1>1, <1>3, <1>5, <1>7, <1>8 DEF Working, Abandoned, InChannel
<1>12. Unstrayed'
  BY Zenon, <1>1, <1>4, <1>5, <1>6, <1>7, <1>8 DEF IdeInv, Unstrayed, InChannel
<1>13. DataKept'
  BY SMTT(30), <1>1, <1>5, <1>6, <1>7 DEF IdeInv, DataKept, Stored, Written, HandedOver, User
<1> QED
  BY Zenon, <1>9, <1>10, <1>11, <1>12, <1>13 DEF IdeInv

\* A thread is told that its command is complete.
LEMMA CompletedKeeps ==
  ASSUME IdeInv, NEW t \in User, WaitCompletion(t)
  PROVE  IdeInv'
<1> USE DEF bootVars, otherVars, driveVars
<1> DEFINE p == IF request[t].kind = "write" THEN "release" ELSE "ready"
<1>1. /\ request[t].pc = "wait" /\ channel.completion_wait > 0
      /\ channel' = [channel EXCEPT !.completion_wait = @ - 1]
      /\ Go(t, p)
      /\ UNCHANGED <<device, is_ata, registered, boot, drive, irq, media, strays, down,
                     acknowledged>>
  BY Zenon DEF WaitCompletion, RequestAt
<1>2. IdeTypes /\ request[t] \in Command /\ channel \in Channel
  BY Zenon DEF IdeInv, IdeTypes
<1>3. /\ channel' \in Channel /\ channel'.holder = channel.holder
      /\ channel'.expecting_interrupt = channel.expecting_interrupt
      /\ channel'.completion_wait = channel.completion_wait - 1
      /\ channel'.dev = channel.dev /\ channel'.sector = channel.sector
  BY <1>1, <1>2 DEF Channel
<1>4. /\ request' \in [User -> Command]
      /\ request'[t].pc = p /\ request'[t].kind = request[t].kind
      /\ request'[t].dev = request[t].dev /\ request'[t].sector = request[t].sector
      /\ request'[t].data = request[t].data
      /\ \A u \in User : u # t => request'[u] = request[u]
  BY Zenon, <1>1, <1>2, GoesOn DEF InChannel
<1>5. \A u \in User : u # t => request[u].pc \notin InChannel
  BY Zenon, <1>1, AloneInChannel DEF InChannel
<1>6. IdeTypes'
  BY Zenon, <1>1, <1>3, <1>4 DEF IdeTypes, IdeInv
<1>7. OneUser' /\ Identity'
  BY <1>1, <1>3, <1>4 DEF IdeInv, OneUser, Identity, BootDev, User, InChannel
<1>8. (\A u \in User : Working(u)') /\ Abandoned'
  BY <1>1, <1>3, <1>4, <1>5 DEF IdeInv, Working, Abandoned, InChannel
<1>9. Unstrayed'
  BY <1>1, <1>3, <1>4, <1>5 DEF IdeInv, Working, Unstrayed, InChannel
<1>10. DataKept'
  BY SMTT(30), <1>1, <1>4 DEF IdeInv, DataKept, Stored, Written, HandedOver, User
<1> QED
  BY Zenon, <1>6, <1>7, <1>8, <1>9, <1>10 DEF IdeInv

\* Only a thread's own command ends.
LEMMA Ends ==
  ASSUME IdeTypes, NEW t \in User, request' = [request EXCEPT ![t] = NoRequest]
  PROVE  /\ request' \in [User -> Command] /\ request'[t] = NoRequest /\ request'[t].pc = "none"
         /\ \A u \in User : u # t => request'[u] = request[u]
<1>1. NoRequest \in Command /\ NoRequest.pc = "none"
  BY Zenon, IdeAssumption DEF NoRequest, Command, Dev
<1> QED
  BY Zenon, <1>1 DEF IdeTypes

\* A thread sees whether the drive has its data.
LEMMA WaitWhileBusyKeeps ==
  ASSUME IdeInv, NEW t \in User, wait_while_busy(t)
  PROVE  IdeInv'
<1> USE DEF driveVars
<1>1. /\ request[t].pc = "ready" /\ drive.state \in {"ready", "drq"} /\ IdeTypes
      /\ UNCHANGED <<drive, irq, media, device, registered, channel, strays, acknowledged>>
  BY Zenon DEF wait_while_busy, RequestAt, IdeInv
<1>2. \A u \in User : u # t => request[u].pc \notin InChannel
  BY Zenon, <1>1, AloneInChannel DEF InChannel
<1>3. CASE drive.state = "drq" /\ Go(t, "transfer") /\ UNCHANGED <<is_ata, boot, down>>
  <2>1. /\ request' \in [User -> Command]
        /\ request'[t].pc = "transfer" /\ request'[t].kind = request[t].kind
        /\ request'[t].dev = request[t].dev /\ request'[t].sector = request[t].sector
        /\ request'[t].data = request[t].data
        /\ \A u \in User : u # t => request'[u] = request[u]
    BY Zenon, <1>1, <1>3, GoesOn DEF InChannel
  <2>2. IdeTypes'
    BY Zenon, <1>1, <1>3, <2>1 DEF IdeTypes
  <2>3. OneUser' /\ Identity'
    BY SMTT(30), <1>1, <1>3, <2>1 DEF IdeInv, OneUser, Identity, BootDev, User, InChannel
  <2>4. (\A u \in User : Working(u)') /\ Abandoned' /\ Unstrayed'
    BY SMTT(30), <1>1, <1>2, <1>3, <2>1 DEF IdeInv, Working, Abandoned, Unstrayed, InChannel
  <2>5. DataKept'
    BY SMTT(30), <1>1, <2>1 DEF IdeInv, DataKept, Stored, Written, HandedOver, User
  <2> QED
    BY Zenon, <2>2, <2>3, <2>4, <2>5 DEF IdeInv
<1>4. CASE down' = TRUE /\ UNCHANGED <<is_ata, boot, request>>
  <2>1. down' \in BOOLEAN
    BY <1>4, Zenon
  <2>2. IdeTypes'
    BY Zenon, <1>1, <1>4, <2>1 DEF IdeTypes
  <2>3. OneUser' /\ Identity' /\ Abandoned'
    BY Zenon, <1>1, <1>4 DEF IdeInv, OneUser, Identity, BootDev, Abandoned
  <2>4. (\A u \in User : Working(u)') /\ Unstrayed'
    BY Zenon, <1>1, <1>4 DEF IdeInv, Working, Unstrayed
  <2>5. DataKept'
    BY SMTT(30), <1>1, <1>4 DEF IdeInv, DataKept, Stored, Written, HandedOver
  <2> QED
    BY Zenon, <2>2, <2>3, <2>4, <2>5 DEF IdeInv
<1>5. CASE /\ drive.state = "ready" /\ request[t].kind = "identify"
           /\ is_ata' = [is_ata EXCEPT ![request[t].dev] = FALSE]
           /\ request' = [request EXCEPT ![t] = NoRequest]
           /\ boot' = Identified(request[t].dev)
           /\ UNCHANGED down
  <2>1. /\ request' \in [User -> Command] /\ request'[t] = NoRequest /\ request'[t].pc = "none"
        /\ \A u \in User : u # t => request'[u] = request[u]
    BY <1>1, <1>5, Ends, Zenon
  <2>2. t = Booting
    BY Zenon, <1>1, <1>5 DEF IdeInv, OneUser, User
  <2>3. boot \in {"first", "second"} /\ request[t].dev = BootDev
    BY Zenon, <1>1, <2>2 DEF IdeInv, OneUser
  <2>4. boot' = (IF boot = "first" THEN "second" ELSE "up")
    BY <1>5, <2>3 DEF Identified, BootDev
  <2>5. is_ata' \in [Dev -> BOOLEAN] /\ ~is_ata'[BootDev]
    BY Zenon, <1>1, <1>5, <2>3 DEF IdeTypes, BootDev, Dev
  <2>6. \A d \in Dev : d # BootDev => is_ata'[d] = is_ata[d]
    BY Zenon, <1>1, <1>5, <2>3 DEF IdeTypes
  <2>7. IdeTypes'
    BY Zenon, <1>1, <1>5, <2>1, <2>4, <2>5 DEF IdeTypes
  <2>8. \A u \in IdeThread : request[u].pc = "none" /\ request'[u].pc = "none"
    BY Zenon, <2>1, <2>2, <2>3, IdeAssumption DEF IdeInv, OneUser, User
  <2>9. OneUser'
    BY Zenon, <2>1, <2>2, <2>8 DEF OneUser, InChannel
  <2>10. Identity'
    BY <1>1, <2>3, <2>4, <2>5, <2>6 DEF IdeInv, Identity, BootDev, IdeTypes, Dev
  <2>11. (\A u \in User : Working(u)') /\ Abandoned' /\ Unstrayed'
    BY Zenon, <1>1, <1>2, <1>5, <2>1 DEF IdeInv, Working, Abandoned, Unstrayed, InChannel
  <2>12. DataKept'
    BY SMTT(30), <1>1, <2>8 DEF IdeInv, DataKept, Stored, Written, HandedOver
  <2> QED
    BY Zenon, <2>7, <2>9, <2>10, <2>11, <2>12 DEF IdeInv
<1> QED
  BY <1>3, <1>4, <1>5, Zenon DEF wait_while_busy

\* A read takes its data from the drive.
LEMMA InputKeeps ==
  ASSUME IdeInv, NEW t \in IdeThread, input_sector(t)
  PROVE  IdeInv'
<1> USE DEF bootVars, otherVars
<1> DEFINE x == media[drive.dev][drive.sector]
<1>1. /\ request[t].pc = "transfer" /\ request[t].kind = "read" /\ t \in User /\ IdeTypes
      /\ request' = [request EXCEPT ![t].pc = "release", ![t].data = x]
      /\ drive' = Ready
      /\ UNCHANGED <<device, is_ata, registered, boot, channel, irq, media, strays, down,
                     acknowledged>>
  BY Zenon DEF input_sector, RequestAt, IdeInv, User
<1>2. /\ drive.state = "drq" /\ drive.dev = request[t].dev /\ drive.sector = request[t].sector
      /\ request[t].sector \in DiskSector /\ request[t].dev \in Dev /\ x \in DiskData
  <2>1. drive.state = "drq"
    BY Zenon, <1>1 DEF IdeInv, Working
  <2>2. drive.dev = request[t].dev /\ drive.sector = request[t].sector
    BY Zenon, <1>1, <2>1 DEF IdeInv, Working
  <2>3. request[t].sector \in DiskSector /\ request[t].dev \in Dev
    BY Zenon, <1>1 DEF IdeInv, OneUser, IdeTypes, Command
  <2> QED
    BY Zenon, <1>1, <2>1, <2>2, <2>3 DEF IdeTypes, Contents
<1>3. x = acknowledged[request[t].dev][request[t].sector]
  <2>1. \A u \in IdeThread : ~HandedOver(u)
    BY Zenon, <1>1, AloneInChannel DEF HandedOver, InChannel, User
  <2> QED
    BY SMTT(30), <1>2, <2>1 DEF IdeInv, DataKept, Written, Stored
<1> HIDE DEF x
<1>4. /\ request' \in [User -> Command]
      /\ request'[t].pc = "release" /\ request'[t].kind = "read"
      /\ request'[t].dev = request[t].dev /\ request'[t].sector = request[t].sector
      /\ request'[t].data = x
      /\ \A u \in User : u # t => request'[u] = request[u]
  <2>1. request[t] \in Command /\ request \in [User -> Command]
    BY Zenon, <1>1 DEF IdeTypes
  <2> DEFINE r == [pc |-> "release", kind |-> "read", dev |-> request[t].dev,
                   sector |-> request[t].sector, data |-> x]
  <2>2. r \in Command
    BY Zenon, <1>2, <2>1 DEF Command
  <2>3. request' = [request EXCEPT ![t] = r]
    <3>1. PICK a, b, c, d, e :
            request[t] = [pc |-> a, kind |-> b, dev |-> c, sector |-> d, data |-> e]
      BY <2>1, Zenon DEF Command
    <3>2. b = "read" /\ c = request[t].dev /\ d = request[t].sector
      BY <1>1, <3>1
    <3> DEFINE q == [request EXCEPT ![t].pc = "release"]
    <3>3. q = [request EXCEPT ![t] = [pc |-> "release", kind |-> b, dev |-> c, sector |-> d,
                                      data |-> e]]
      <4>1. [request[t] EXCEPT !.pc = "release"] =
              [pc |-> "release", kind |-> b, dev |-> c, sector |-> d, data |-> e]
        BY <3>1
      <4> QED
        BY <4>1, Zenon
    <3>4. q[t] = [pc |-> "release", kind |-> b, dev |-> c, sector |-> d, data |-> e]
          /\ q \in [User -> Command]
      BY Zenon, <1>1, <2>1, <2>2, <3>1, <3>3 DEF Command
    <3>5. request' = [q EXCEPT ![t].data = x]
      BY Zenon, <1>1
    <3> HIDE DEF q
    <3>6. request' = [q EXCEPT ![t] = [pc |-> "release", kind |-> b, dev |-> c, sector |-> d,
                                       data |-> x]]
      <4>1. [q[t] EXCEPT !.data = x] =
              [pc |-> "release", kind |-> b, dev |-> c, sector |-> d, data |-> x]
        BY <3>4
      <4> QED
        BY <3>5, <4>1, Zenon
    <3>7. request' = [q EXCEPT ![t] = r]
      BY Zenon, <3>2, <3>6
    <3> HIDE DEF r
    <3> QED
      BY <1>1, <2>1, <3>3, <3>7, Zenon
  <2>4. r.pc = "release" /\ r.kind = "read" /\ r.dev = request[t].dev
        /\ r.sector = request[t].sector /\ r.data = x
    OBVIOUS
  <2> HIDE DEF r
  <2> QED
    BY <1>1, <2>1, <2>2, <2>3, <2>4, ZenonT(30)
<1>5. \A u \in User : u # t => request[u].pc \notin InChannel
  BY Zenon, <1>1, AloneInChannel DEF InChannel
<1>6. Ready \in DriveState /\ drive'.state = "ready"
  BY Zenon, <1>1, IdeAssumption DEF DriveState, Ready, Dev
<1>7. IdeTypes'
  BY Zenon, <1>1, <1>4, <1>6 DEF IdeTypes
<1>8. OneUser' /\ Identity'
  BY SMTT(30), <1>1, <1>4, IdeAssumption DEF IdeInv, OneUser, Identity, BootDev, User, InChannel
<1>9. (\A u \in User : Working(u)') /\ Abandoned' /\ Unstrayed'
  BY ZenonT(30), <1>1, <1>2, <1>4, <1>5, <1>6 DEF IdeInv, Working, Abandoned, Unstrayed, InChannel
<1>10. DataKept'
  <2>1. \A u \in IdeThread, d \in Dev, i \in DiskSector : Written(u, d, i)' <=> Written(u, d, i)
    BY ZenonT(30), <1>1, <1>4 DEF Written, HandedOver, User
  <2>2. \A u \in IdeThread, d \in Dev, i \in DiskSector :
          Written(u, d, i) => request'[u].data = request[u].data
    BY Zenon, <1>1, <1>4 DEF Written, HandedOver, User
  <2>3. \A d \in Dev, i \in DiskSector : Stored(d, i)' = Stored(d, i)
    BY Zenon, <1>1, <1>2, <1>6 DEF Stored
  <2>4. \A u \in IdeThread :
          (request[u].pc = "release" /\ request[u].kind = "read")' =>
            request'[u].data = acknowledged'[request'[u].dev][request'[u].sector]
    BY Zenon, <1>1, <1>3, <1>4 DEF IdeInv, DataKept, User
  <2>5. \A d \in Dev, i \in DiskSector :
          (\A u \in IdeThread : ~Written(u, d, i)') => Stored(d, i)' = acknowledged'[d][i]
    BY <1>1, <2>1, <2>3 DEF IdeInv, DataKept
  <2>6. \A d \in Dev, i \in DiskSector, u \in IdeThread :
          Written(u, d, i)' => Stored(d, i)' = request'[u].data
    BY SMTT(30), <2>1, <2>2, <2>3 DEF IdeInv, DataKept
  <2> QED
    BY <1>1, <1>6, <2>4, <2>5, <2>6, Zenon DEF DataKept
<1> QED
  BY Zenon, <1>7, <1>8, <1>9, <1>10 DEF IdeInv

\* A write hands its data to the drive.
LEMMA OutputKeeps ==
  ASSUME IdeInv, NEW t \in IdeThread, output_sector(t)
  PROVE  IdeInv'
<1> USE DEF bootVars, otherVars
<1>1. /\ request[t].pc = "transfer" /\ request[t].kind = "write" /\ t \in User /\ IdeTypes
      /\ drive' = [drive EXCEPT !.state = "storing", !.data = request[t].data]
      /\ Go(t, "wait")
      /\ UNCHANGED <<device, is_ata, registered, boot, channel, irq, media, strays, down,
                     acknowledged>>
  BY Zenon DEF output_sector, RequestAt, IdeInv, User
<1>2. drive.state = "drq" /\ channel.expecting_interrupt
  BY Zenon, <1>1 DEF IdeInv, Working
<1>3. /\ drive.dev = request[t].dev /\ drive.sector = request[t].sector
      /\ drive.kind = request[t].kind /\ request[t].sector \in DiskSector
  BY Zenon, <1>1, <1>2 DEF IdeInv, Working, OneUser
<1>4. /\ drive' \in DriveState /\ drive'.state = "storing" /\ drive'.data = request[t].data
      /\ drive'.kind = drive.kind /\ drive'.dev = drive.dev /\ drive'.sector = drive.sector
  <2>1. request[t].data \in DiskData /\ drive \in DriveState
    BY Zenon, <1>1 DEF IdeTypes, Command
  <2> QED
    BY <1>1, <2>1, Zenon DEF DriveState
<1>5. /\ request' \in [User -> Command]
      /\ request'[t].pc = "wait" /\ request'[t].kind = request[t].kind
      /\ request'[t].dev = request[t].dev /\ request'[t].sector = request[t].sector
      /\ request'[t].data = request[t].data
      /\ \A u \in User : u # t => request'[u] = request[u]
  BY Zenon, <1>1, GoesOn DEF InChannel
<1>6. \A u \in User : u # t => request[u].pc \notin InChannel
  BY Zenon, <1>1, AloneInChannel DEF InChannel
<1>7. IdeTypes'
  BY Zenon, <1>1, <1>4, <1>5 DEF IdeTypes
<1>8. OneUser' /\ Identity'
  BY <1>1, <1>5, IdeAssumption DEF IdeInv, OneUser, Identity, BootDev, User, InChannel
<1>9. (\A u \in User : Working(u)') /\ Abandoned' /\ Unstrayed'
  BY <1>1, <1>2, <1>3, <1>4, <1>5, <1>6 DEF IdeInv, Working, Abandoned, Unstrayed, InChannel
<1>10. DataKept'
  <2>1. \A u \in IdeThread : ~HandedOver(u)
    BY Zenon, <1>1, <1>6 DEF HandedOver, InChannel, User
  <2>2. \A u \in IdeThread : u # t => ~HandedOver(u)'
    BY Zenon, <1>5, <1>6 DEF HandedOver, InChannel, User
  <2>3. \A d \in Dev, i \in DiskSector : Stored(d, i) = acknowledged[d][i]
    BY Zenon, <2>1 DEF IdeInv, DataKept, Written
  <2>4. \A d \in Dev, i \in DiskSector :
          Stored(d, i)' = IF Written(t, d, i)' THEN request'[t].data ELSE Stored(d, i)
    BY <1>1, <1>2, <1>3, <1>4, <1>5 DEF Stored, Written, HandedOver
  <2>5. \A u \in IdeThread :
          (request[u].pc = "release" /\ request[u].kind = "read")' =>
            request'[u].data = acknowledged'[request'[u].dev][request'[u].sector]
    BY <1>1, <1>5 DEF IdeInv, DataKept, User
  <2>6. \A u \in IdeThread, d \in Dev, i \in DiskSector : Written(u, d, i)' => u = t
    BY Zenon, <2>2 DEF Written
  <2> QED
    BY ZenonT(30), <1>1, <1>3, <1>4, <2>3, <2>4, <2>5, <2>6 DEF DataKept
<1> QED
  BY Zenon, <1>7, <1>8, <1>9, <1>10 DEF IdeInv

\* A thread gives the channel up, and its call returns.
LEMMA ReleaseChannelKeeps ==
  ASSUME IdeInv, NEW t \in IdeThread, lock_release(t)
  PROVE  IdeInv'
<1> USE DEF bootVars, otherVars, driveVars
<1> DEFINE r == request[t]
<1>1. /\ r.pc = "release" /\ t \in User /\ IdeTypes /\ t # Booting
      /\ channel' = [channel EXCEPT !.holder = Nobody]
      /\ request' = [request EXCEPT ![t] = NoRequest]
      /\ acknowledged' = IF r.kind = "read" THEN acknowledged
                         ELSE [acknowledged EXCEPT ![r.dev][r.sector] = r.data]
      /\ UNCHANGED <<device, is_ata, registered, boot, drive, irq, media, strays, down>>
  BY Zenon, IdeAssumption DEF lock_release, RequestAt, IdeInv, User
<1>2. /\ channel' \in Channel
      /\ channel'.expecting_interrupt = channel.expecting_interrupt
      /\ channel'.completion_wait = channel.completion_wait
      /\ channel'.dev = channel.dev /\ channel'.sector = channel.sector
  BY Zenon, <1>1 DEF IdeTypes, Channel
<1>3. /\ request' \in [User -> Command] /\ request'[t] = NoRequest /\ request'[t].pc = "none"
      /\ \A u \in User : u # t => request'[u] = request[u]
  BY <1>1, Ends, Zenon
<1>4. /\ r.kind \in {"read", "write"} /\ r.dev \in Dev /\ r.sector \in DiskSector
      /\ r.data \in DiskData
  BY Zenon, <1>1 DEF IdeInv, OneUser, IdeTypes, Command
<1>5. \A u \in User : u # t => request[u].pc \notin InChannel
  BY Zenon, <1>1, AloneInChannel DEF InChannel
<1> DEFINE Ack(d, s) == IF r.kind = "write" /\ r.dev = d /\ r.sector = s THEN r.data
                        ELSE acknowledged[d][s]
<1>6. /\ acknowledged' \in Contents
      /\ \A d \in Dev, s \in DiskSector : acknowledged'[d][s] = Ack(d, s)
  <2>1. CASE r.kind = "read"
    BY Zenon, <1>1, <2>1 DEF IdeTypes
  <2>2. CASE r.kind = "write"
    <3>1. acknowledged \in Contents
      BY Zenon, <1>1 DEF IdeTypes
    <3>2. acknowledged' = [acknowledged EXCEPT ![r.dev][r.sector] = r.data]
      BY Zenon, <1>1, <2>2
    <3> HIDE DEF r
    <3> QED
      BY Zenon, <1>4, <2>2, <3>1, <3>2 DEF Contents
  <2> QED
    BY Zenon, <1>4, <2>1, <2>2
<1>7. IdeTypes'
  BY Zenon, <1>1, <1>2, <1>3, <1>6 DEF IdeTypes
<1>8. OneUser' /\ Identity'
  BY Zenon, <1>1, <1>3, <1>5 DEF IdeInv, OneUser, Identity, BootDev, User, InChannel
<1>9. (\A u \in User : Working(u)') /\ Abandoned' /\ Unstrayed'
  BY Zenon, <1>1, <1>2, <1>3, <1>5 DEF IdeInv, Working, Abandoned, Unstrayed, InChannel
<1>10. DataKept'
  <2>1. \A u \in IdeThread : request'[u].pc \notin InChannel
    BY Zenon, <1>3, <1>5 DEF InChannel, User
  <2>2. \A u \in IdeThread, d \in Dev, s \in DiskSector :
          Written(u, d, s) <=> u = t /\ r.kind = "write" /\ r.dev = d /\ r.sector = s
    BY Zenon, <1>1, <1>5 DEF Written, HandedOver, InChannel, User
  <2>3. \A d \in Dev, s \in DiskSector : Stored(d, s) = Ack(d, s)
    BY SMTT(30), <2>2 DEF IdeInv, DataKept
  <2>4. \A d \in Dev, s \in DiskSector : Stored(d, s)' = Stored(d, s)
    BY Zenon, <1>1 DEF Stored
  <2>5. \A u \in IdeThread, d \in Dev, s \in DiskSector : ~Written(u, d, s)'
    BY Zenon, <2>1 DEF Written, HandedOver, InChannel
  <2>6. \A d \in Dev, s \in DiskSector : Stored(d, s)' = acknowledged'[d][s]
    BY <1>6, <2>3, <2>4
  <2>7. drive'.state = "storing" => drive'.sector \in DiskSector
    BY Zenon, <1>1 DEF IdeInv, DataKept
  <2> QED
    BY Zenon, <2>1, <2>5, <2>6, <2>7 DEF DataKept, InChannel
<1> QED
  BY Zenon, <1>7, <1>8, <1>9, <1>10 DEF IdeInv

\* A thread calls ide_read or ide_write.
LEMMA CallKeeps ==
  ASSUME IdeInv, NEW t \in IdeThread, ide_read(t) \/ ide_write(t)
  PROVE  IdeInv'
<1> USE DEF bootVars, otherVars, driveVars
<1>1. PICK d \in registered, s \in DiskSector, x \in DiskData, k \in {"read", "write"} :
        request' = [request EXCEPT ![t] = [pc |-> "acquire", kind |-> k, dev |-> d,
                                           sector |-> s, data |-> x]]
  BY Zenon, IdeAssumption DEF ide_read, ide_write
<1>2. /\ request[t].pc = "none" /\ boot = "up" /\ t \in User /\ IdeTypes /\ t # Booting
      /\ UNCHANGED <<device, is_ata, registered, boot, channel, drive, irq, media, strays, down,
                     acknowledged>>
  BY Zenon, IdeAssumption DEF ide_read, ide_write, RequestAt, IdeInv, User
<1> DEFINE r == [pc |-> "acquire", kind |-> k, dev |-> d, sector |-> s, data |-> x]
<1>3. r \in Command /\ r.pc = "acquire" /\ r.kind = k /\ r.sector = s
  BY Zenon, <1>2 DEF Command, IdeTypes
<1> HIDE DEF r
<1>4. /\ request' \in [User -> Command] /\ request'[t] = r
      /\ \A u \in User : u # t => request'[u] = request[u]
  BY Zenon, <1>1, <1>2, <1>3 DEF IdeTypes, r
<1>5. IdeTypes'
  BY Zenon, <1>2, <1>4 DEF IdeTypes
<1>6. OneUser' /\ Identity'
  BY Zenon, <1>2, <1>3, <1>4 DEF IdeInv, OneUser, Identity, BootDev, User, InChannel
<1>7. (\A u \in User : Working(u)') /\ Abandoned' /\ Unstrayed'
  BY SMTT(30), <1>2, <1>3, <1>4 DEF IdeInv, Working, Abandoned, Unstrayed
<1>8. DataKept'
  <2>1. \A u \in IdeThread, e \in Dev, i \in DiskSector : Written(u, e, i)' <=> Written(u, e, i)
    BY Zenon, <1>2, <1>3, <1>4 DEF Written, HandedOver, User
  <2>2. \A u \in IdeThread, e \in Dev, i \in DiskSector :
          Written(u, e, i) => request'[u].data = request[u].data
    BY Zenon, <1>2, <1>4 DEF Written, HandedOver, User
  <2>3. \A e \in Dev, i \in DiskSector : Stored(e, i)' = Stored(e, i)
    BY Zenon, <1>2 DEF Stored
  <2>4. \A u \in IdeThread :
          (request[u].pc = "release" /\ request[u].kind = "read")' =>
            request'[u].data = acknowledged'[request'[u].dev][request'[u].sector]
    BY SMTT(30), <1>2, <1>3, <1>4 DEF IdeInv, DataKept, User
  <2>5. \A e \in Dev, i \in DiskSector :
          (\A u \in IdeThread : ~Written(u, e, i)') => Stored(e, i)' = acknowledged'[e][i]
    BY SMTT(30), <1>2, <2>1, <2>3 DEF IdeInv, DataKept
  <2>6. \A e \in Dev, i \in DiskSector, u \in IdeThread :
          Written(u, e, i)' => Stored(e, i)' = request'[u].data
    BY SMTT(30), <2>1, <2>2, <2>3 DEF IdeInv, DataKept
  <2>7. drive'.state = "storing" => drive'.sector \in DiskSector
    BY Zenon, <1>2 DEF IdeInv, DataKept
  <2> QED
    BY Zenon, <2>4, <2>5, <2>6, <2>7 DEF DataKept
<1> QED
  BY Zenon, <1>5, <1>6, <1>7, <1>8 DEF IdeInv

\* ide_init before it identifies the disks.
LEMMA DetectKeeps ==
  ASSUME IdeInv, reset_channel \/ check_device_type
  PROVE  IdeInv'
<1> USE DEF otherVars, driveVars
<1>1. UNCHANGED <<registered, channel, request, drive, irq, media, strays, down, acknowledged>>
  BY Zenon DEF reset_channel, check_device_type
<1>2. \A t \in User : request[t].pc = "none"
  BY Zenon DEF IdeInv, OneUser, User, reset_channel, check_device_type
<1>3. IdeTypes'
  <2>1. CASE reset_channel
    BY Zenon, <1>1, <2>1 DEF reset_channel, IdeInv, IdeTypes
  <2>2. CASE check_device_type
    <3>1. is_ata' \in [Dev -> BOOLEAN]
      BY <2>2, Zenon DEF check_device_type
    <3> QED
      BY Zenon, <1>1, <2>2, <3>1 DEF check_device_type, IdeInv, IdeTypes
  <2> QED
    BY Zenon, <2>1, <2>2
<1>4. OneUser'
  BY Zenon, <1>1, <1>2 DEF OneUser, IdeInv, User, InChannel
<1>5. (\A u \in User : Working(u)') /\ Abandoned' /\ Unstrayed'
  BY Zenon, <1>1, <1>2 DEF IdeInv, Working, Abandoned, Unstrayed
<1>6. DataKept'
  BY SMTT(30), <1>1, <1>2 DEF IdeInv, DataKept, Stored, Written, HandedOver, User
<1>7. Identity'
  <2>1. registered' = {}
    BY Zenon, <1>1 DEF IdeInv, Identity, reset_channel, check_device_type
  <2>2. CASE reset_channel
    BY Zenon, <2>1, <2>2 DEF reset_channel, Identity
  <2>3. CASE check_device_type
    BY Zenon, <2>1, <2>3 DEF check_device_type, Identity, Faulty
  <2> QED
    BY Zenon, <2>2, <2>3
<1> QED
  BY Zenon, <1>3, <1>4, <1>5, <1>6, <1>7 DEF IdeInv

\* ide_init starts to identify a disk, or goes on without one.
LEMMA StartIdentifyKeeps == IdeInv /\ StartIdentify => IdeInv'
<1> SUFFICES ASSUME IdeInv, StartIdentify PROVE IdeInv'
  OBVIOUS
<1> USE DEF otherVars, driveVars
<1>1. /\ boot \in {"first", "second"} /\ request[Booting] = NoRequest /\ IdeTypes
      /\ UNCHANGED <<device, is_ata, registered, channel, drive, irq, media, strays, down,
                     acknowledged>>
  BY Zenon DEF StartIdentify, IdeInv
<1>2. \A t \in User : request[t].pc = "none"
  BY SMTT(30), <1>1 DEF IdeInv, OneUser, User, NoRequest
<1> DEFINE r == [NoRequest EXCEPT !.pc = "select", !.kind = "identify", !.dev = BootDev]
<1>3. /\ r \in Command /\ r.pc = "select" /\ r.kind = "identify" /\ r.dev = BootDev
      /\ BootDev \in Dev
  BY IdeAssumption, Zenon DEF Command, NoRequest, BootDev, Dev
<1>4. \/ /\ is_ata[BootDev] /\ request' = [request EXCEPT ![Booting] = r] /\ boot' = boot
      \/ ~is_ata[BootDev] /\ request' = request /\ boot' = Identified(BootDev)
  BY Zenon DEF StartIdentify, BootDev
<1> HIDE DEF r
<1>5. /\ request' \in [User -> Command]
      /\ \A u \in IdeThread : request'[u] = request[u] /\ request'[u].pc = "none"
      /\ request'[Booting] = NoRequest \/ request'[Booting] = r
      /\ request'[Booting] = r => boot' = boot /\ is_ata[BootDev]
  BY Zenon, <1>1, <1>2, <1>3, <1>4, IdeAssumption DEF IdeTypes, User, NoRequest
<1>6. \A u \in User : request'[u].pc \in {"none", "select"}
  BY SMTT(30), <1>3, <1>5 DEF User, NoRequest
<1>7. boot' \in {"first", "second", "up"} /\ (boot' = "first" => boot = "first")
      /\ (boot' = "second" /\ boot = "first" => request' = request)
  BY Zenon, <1>1, <1>4 DEF Identified, BootDev
<1>8. IdeTypes'
  BY Zenon, <1>1, <1>5, <1>7 DEF IdeTypes
<1>9. OneUser'
  BY SMTT(30), <1>1, <1>3, <1>5 DEF OneUser, InChannel, BootDev, NoRequest
<1>10. Identity'
  BY Zenon, <1>1, <1>7 DEF IdeInv, Identity, IdeTypes, Dev
<1>11. (\A u \in User : Working(u)') /\ Abandoned' /\ Unstrayed'
  BY Zenon, <1>1, <1>2, <1>6 DEF IdeInv, Working, Abandoned, Unstrayed
<1>12. DataKept'
  BY SMTT(30), <1>1, <1>2, <1>5 DEF IdeInv, DataKept, Stored, Written, HandedOver, User
<1> QED
  BY Zenon, <1>8, <1>9, <1>10, <1>11, <1>12 DEF IdeInv

\* A disk has identified itself.
LEMMA IdentifyKeeps == IdeInv /\ identify_ata_device => IdeInv'
<1> SUFFICES ASSUME IdeInv, identify_ata_device PROVE IdeInv'
  OBVIOUS
<1> USE DEF otherVars
<1>1. /\ request[Booting].pc = "transfer" /\ Booting \in User /\ IdeTypes
      /\ request' = [request EXCEPT ![Booting] = NoRequest]
      /\ drive' = Ready
      /\ UNCHANGED <<device, channel, irq, media, strays, down, acknowledged>>
  BY Zenon DEF identify_ata_device, RequestAt, User, IdeInv
<1>2. /\ boot \in {"first", "second"} /\ request[Booting].dev = BootDev /\ BootDev \in Dev
      /\ is_ata[BootDev]
  BY Zenon, <1>1 DEF IdeInv, OneUser, BootDev, Dev
<1>3. /\ is_ata' = [is_ata EXCEPT ![BootDev] = device[BootDev].capacity < MaxCapacity]
      /\ registered' = IF is_ata'[BootDev] THEN registered \cup {BootDev} ELSE registered
      /\ boot' = Identified(BootDev)
  BY Zenon, <1>2 DEF identify_ata_device
<1>4. /\ request' \in [User -> Command]
      /\ request'[Booting] = NoRequest /\ request'[Booting].pc = "none"
      /\ \A u \in User : u # Booting => request'[u] = request[u]
  BY <1>1, Ends, Zenon
<1>5. \A u \in User : request'[u].pc = "none"
  BY Zenon, <1>2, <1>4 DEF IdeInv, OneUser, User
<1>6. boot' = (IF boot = "first" THEN "second" ELSE "up")
  BY <1>2, <1>3 DEF Identified, BootDev
<1>7. /\ is_ata' \in [Dev -> BOOLEAN]
      /\ is_ata'[BootDev] <=> device[BootDev].capacity < MaxCapacity
      /\ \A d \in Dev : d # BootDev => is_ata'[d] = is_ata[d]
  <2> DEFINE small == device[BootDev].capacity < MaxCapacity
  <2>1. device[BootDev].capacity \in Nat
    BY <1>1, <1>2, IdeAssumption DEF IdeTypes
  <2>2. is_ata' = [is_ata EXCEPT ![BootDev] = small]
    BY <1>3, Zenon
  <2>3. small \in BOOLEAN
    BY <2>1, IdeAssumption, SMT
  <2>4. is_ata \in [Dev -> BOOLEAN]
    BY Zenon, <1>1 DEF IdeTypes
  <2> HIDE DEF small
  <2>5. /\ is_ata' \in [Dev -> BOOLEAN] /\ is_ata'[BootDev] = small
        /\ \A d \in Dev : d # BootDev => is_ata'[d] = is_ata[d]
    BY <1>2, <2>2, <2>3, <2>4, Zenon
  <2> QED
    BY <2>5, Zenon DEF small
<1>8. Ready \in DriveState /\ drive'.state = "ready"
  BY Zenon, <1>1, IdeAssumption DEF DriveState, Ready, Dev
<1>9. IdeTypes'
  BY Zenon, <1>1, <1>2, <1>3, <1>4, <1>6, <1>7, <1>8 DEF IdeTypes
<1>10. OneUser'
  BY Zenon, <1>4, <1>5 DEF OneUser, InChannel, User
<1>11. Identity'
  BY Zenon, <1>1, <1>2, <1>3, <1>6, <1>7 DEF IdeInv, Identity, IdeTypes, BootDev, Dev
<1>12. \A u \in User : u # Booting => request[u].pc \notin InChannel
  BY Zenon, <1>1, AloneInChannel DEF InChannel
<1>13. drive.state = "drq" /\ (\A u \in User : Working(u)') /\ Abandoned'
  BY Zenon, <1>1, <1>5, <1>8 DEF IdeInv, Working, Abandoned
<1>14. Unstrayed'
  BY Zenon, <1>1, <1>5, <1>8, <1>12 DEF IdeInv, Unstrayed, InChannel
<1>15. DataKept'
  BY SMTT(30), <1>1, <1>2, <1>5, <1>8, <1>13 DEF IdeInv, OneUser, DataKept, Stored, Written, HandedOver, User
<1> QED
  BY Zenon, <1>9, <1>10, <1>11, <1>13, <1>14, <1>15 DEF IdeInv

\* Every step of the driver and of the drive keeps the invariant.
LEMMA IdeInvNext == IdeInv /\ [IdeNext]_ideVars => IdeInv'
<1> SUFFICES ASSUME IdeInv, [IdeNext]_ideVars PROVE IdeInv'
  OBVIOUS
<1>1. CASE UNCHANGED ideVars
  <2>1. UNCHANGED <<device, is_ata, registered, boot, channel, drive, irq, media, request, strays,
                    down, acknowledged>>
    BY Zenon, <1>1 DEF ideVars, bootVars, driveVars, otherVars
  <2>2. IdeTypes' /\ OneUser' /\ Identity'
    BY Zenon, <2>1 DEF IdeInv, IdeTypes, OneUser, BootDev, Identity
  <2>3. (\A t \in User : Working(t)') /\ Abandoned' /\ Unstrayed'
    BY SMTT(30), <2>1 DEF IdeInv, Working, Abandoned, Unstrayed
  <2>4. DataKept'
    BY SMTT(30), <2>1 DEF IdeInv, DataKept, Stored, Written, HandedOver
  <2> QED
    BY Zenon, <2>2, <2>3, <2>4 DEF IdeInv
<1>2. IdeThread \subseteq User
  BY Zenon DEF User
<1> QED
  BY Zenon, <1>1, <1>2, DriveAnswersKeeps, DriveStoresKeeps, InterruptKeeps, AcquireKeeps, SelectKeeps,
     IssueKeeps, CompletedKeeps, WaitWhileBusyKeeps, InputKeeps, OutputKeeps,
     ReleaseChannelKeeps, CallKeeps, DetectKeeps, StartIdentifyKeeps, IdentifyKeeps
     DEF IdeNext

\* The invariant implies both properties.
LEMMA IdeInvImplies == IdeInv => IdeDataExact /\ IdeCompletes
<1> SUFFICES ASSUME IdeInv PROVE IdeDataExact /\ IdeCompletes
  OBVIOUS
<1>1. IdeDataExact
  <2> SUFFICES ASSUME NEW t \in IdeThread, request[t].pc = "release"
               PROVE  /\ request[t].kind = "read" =>
                           request[t].data = acknowledged[request[t].dev][request[t].sector]
                      /\ strays = 0 =>
                           /\ media[request[t].dev][request[t].sector] = request[t].data
                           /\ channel.completion_wait = 0 /\ ~irq
    BY Zenon DEF IdeDataExact
  <2>1. /\ request[t].dev \in Dev /\ request[t].sector \in DiskSector /\ t \in User
        /\ request[t].kind \in {"read", "write"}
    BY Zenon DEF IdeInv, IdeTypes, OneUser, Command, User
  <2>2. \A u \in User : u # t => request[u].pc \notin InChannel
    BY Zenon, <2>1, AloneInChannel DEF InChannel
  <2>3. request[t].kind = "read" =>
          request[t].data = acknowledged[request[t].dev][request[t].sector]
    BY Zenon DEF IdeInv, DataKept
  <2>4. ASSUME strays = 0
        PROVE  channel.completion_wait = 0 /\ ~irq /\ drive.state # "storing"
    BY Zenon, <2>1, <2>2, <2>4 DEF IdeInv, Unstrayed, InChannel
  <2>5. Stored(request[t].dev, request[t].sector) = request[t].data
    <3>1. CASE request[t].kind = "write"
      BY Zenon, <2>1, <3>1 DEF IdeInv, DataKept, Written, HandedOver
    <3>2. CASE request[t].kind = "read"
      BY SMTT(30), <2>1, <2>2, <2>3, <3>2 DEF IdeInv, DataKept, Written, HandedOver, User, InChannel
    <3> QED
      BY Zenon, <2>1, <3>1, <3>2
  <2> QED
    BY Zenon, <2>3, <2>4, <2>5 DEF Stored
<1>2. IdeCompletes
  BY Zenon DEF IdeCompletes, IdeInv, IdeTypes, Working, Identity
<1> QED
  BY Zenon, <1>1, <1>2

\* ide.c: for any threads, disks, sectors and number of stray interrupts, a read returns
\* what was last written, a write that no stray interrupt ended is on the medium when it
\* returns, and whoever waits for a completion is woken.
THEOREM IdeExact == IdeSpec => [](IdeDataExact /\ IdeCompletes)
<1> QED
  BY IdeInvInit, IdeInvNext, IdeInvImplies, PTL DEF IdeSpec
=============================================================================
