--------------------------- MODULE KbdQueueProofs ----------------------------
(***************************************************************************)
(* For every queue length, every set of keys and any number of inputs and  *)
(* resets: the tail waits only behind a full queue, the last report queued *)
(* is the last report shown, and queue and tail implement KbdFifo.         *)
(***************************************************************************)
EXTENDS MCKbdQueue, SequenceTheorems, TLAPS

(* What LastReportShown needs to be inductive: no reports are taken before *)
(* the first mount or while unmounting, and a host that is being mounted   *)
(* has seen nothing yet.                                                   *)
SessionStarts ==
  /\ usb \in {"boot", "unmounting"} => ~connected
  /\ usb = "mounting" => host = AllUp /\ (queue = <<>> => latest = AllUp)

KbdIInv == KbdTypeOK /\ TailBehindFullQueue /\ LastReportShown /\ SessionStarts

(* The queue itself: everything the two critical sections of the queue     *)
(* (adding a report, and the reset) must keep.                             *)
QueueOK == /\ queue \in Seq(Report) /\ Len(queue) <= Cap
           /\ latest \in Report /\ pending \in BOOLEAN
           /\ TailBehindFullQueue
           /\ queue # <<>> /\ ~pending => queue[Len(queue)] = latest

(* A combined report is a report. *)
LEMMA CombinedType == ASSUME KbdTypeOK PROVE Combined \in Report
BY DEF KbdTypeOK, Combined, Report, Keys, AllUp

(* The lock chord and the all-up report are reports. *)
LEMMA ConstantReports == {Lock} \in Report /\ AllUp \in Report
BY DEF Report, Keys, AllUp

(* queue_kbd_report_locked keeps the queue in order, and leaves something  *)
(* to deliver when the host is connected.                                  *)
LEMMA EnqueueOK ==
  ASSUME QueueOK, connected \in BOOLEAN, NEW r \in Report, Enqueue(r)
  PROVE  QueueOK' /\ (connected => queue' # <<>>)
                  /\ (~connected => UNCHANGED <<queue, latest, pending>>)
<1>1. CASE ~connected
  BY <1>1 DEF Enqueue, QueueOK, TailBehindFullQueue
<1>2. CASE connected /\ (pending \/ Len(queue) = Cap)
  <2>1. queue' = queue /\ pending' = TRUE /\ latest' = r
    BY <1>2 DEF Enqueue
  <2>2. Len(queue) = Cap
    BY <1>2 DEF QueueOK, TailBehindFullQueue
  <2> QED BY <1>2, <2>1, <2>2, CapAssumption DEF QueueOK, TailBehindFullQueue
<1>3. CASE connected /\ ~(pending \/ Len(queue) = Cap)
  <2>1. queue' = Append(queue, r) /\ pending' = FALSE /\ latest' = r
    BY <1>3 DEF Enqueue, QueueOK
  <2>2. /\ queue' \in Seq(Report)
        /\ Len(queue') = Len(queue) + 1
        /\ queue'[Len(queue')] = r
    BY <2>1 DEF QueueOK
  <2>3. Len(queue') <= Cap
    BY <1>3, <2>2, CapAssumption DEF QueueOK
  <2>4. queue' # <<>>  BY <2>1 DEF QueueOK
  <2>5. TailBehindFullQueue'  BY <2>1 DEF TailBehindFullQueue
  <2>6. queue'[Len(queue')] = latest'  BY <2>1, <2>2
  <2>7. pending' \in BOOLEAN /\ latest' \in Report  BY <2>1
  <2> QED BY <1>3, <2>2, <2>3, <2>4, <2>5, <2>6, <2>7 DEF QueueOK
<1> QED BY <1>1, <1>2, <1>3

(* keyboard_host_reset leaves an empty queue. *)
LEMMA HostResetOK ==
  ASSUME HostReset
  PROVE  QueueOK' /\ queue' = <<>> /\ latest' = AllUp
<1>1. queue' = <<>> /\ pending' = FALSE /\ latest' = AllUp
  BY DEF HostReset
<1>2. <<>> \in Seq(Report) /\ Len(<<>>) = 0  OBVIOUS
<1>3. queue' \in Seq(Report) /\ Len(queue') <= Cap
  BY <1>1, <1>2, CapAssumption
<1>4. latest' \in Report /\ pending' \in BOOLEAN
  BY <1>1, ConstantReports
<1>5. TailBehindFullQueue'  BY <1>1 DEF TailBehindFullQueue
<1> QED BY <1>1, <1>3, <1>4, <1>5 DEF QueueOK

(* The invariant contains what the queue needs. *)
LEMMA IInvQueue == KbdIInv => QueueOK
BY DEF KbdIInv, KbdTypeOK, LastReportShown, QueueOK

(* A board that boots satisfies the invariant ... *)
LEMMA InitKbdIInv == Init => KbdIInv
<1> SUFFICES ASSUME Init PROVE KbdIInv  OBVIOUS
<1>1. <<>> \in Seq(Report) /\ Len(<<>>) = 0  OBVIOUS
<1>2. KbdTypeOK
  <2>1. queue \in Seq(Report) /\ Len(queue) <= Cap
    BY <1>1, CapAssumption DEF Init
  <2>2. latest \in Report /\ host \in Report
    BY ConstantReports DEF Init
  <2>3. inputs \in 0 .. MaxInputs /\ resets \in 0 .. MaxResets
    BY KbdBoundAssumption DEF Init
  <2>4. core1 \in Core1 /\ usb \in Usb
    BY DEF Init, Core1, Usb
  <2>5. pending \in BOOLEAN /\ connected \in BOOLEAN /\ active \in BOOLEAN
        /\ synthetic \in BOOLEAN
    BY DEF Init
  <2> QED BY <2>1, <2>2, <2>3, <2>4, <2>5 DEF Init, KbdTypeOK, AllUp
<1> QED
  BY <1>2 DEF Init, KbdIInv, TailBehindFullQueue, LastReportShown, SessionStarts

(* A step that touches neither the queue nor what the host has seen. *)
LEMMA QuietStep ==
  ASSUME KbdIInv, KbdTypeOK', UNCHANGED <<queue, latest, pending, host, usb, connected>>,
         Refocusing => Refocusing'
  PROVE  KbdIInv'
BY DEF KbdIInv, TailBehindFullQueue, LastReportShown, SessionStarts

(* A step that queues a report. *)
LEMMA QueueStep ==
  ASSUME KbdIInv, KbdTypeOK', NEW r \in Report, Enqueue(r),
         UNCHANGED <<host, usb, connected>>
  PROVE  KbdIInv'
<1>1. QueueOK' /\ (connected => queue' # <<>>)
               /\ (~connected => UNCHANGED <<queue, latest, pending>>)
  BY IInvQueue, EnqueueOK DEF KbdIInv, KbdTypeOK
<1>2. TailBehindFullQueue'  BY <1>1 DEF QueueOK
<1>3. LastReportShown'  BY <1>1 DEF QueueOK, LastReportShown
<1>4. SessionStarts'  BY <1>1 DEF KbdIInv, SessionStarts
<1> QED BY <1>2, <1>3, <1>4 DEF KbdIInv

(* Actions that queue nothing. *)
LEMMA QuietActions ==
  ASSUME KbdIInv,
         \/ \E r \in SUBSET LocalKeys : KeyReport(r)
         \/ \E r \in SUBSET PeerKeys : PeerAccept(r)
         \/ PeerExpire \/ PublishPeer \/ SyncGeneration \/ SyncClear
         \/ SwitchOutput \/ ReleaseAllKeys
  PROVE  KbdIInv'
<1>0. KbdTypeOK  BY DEF KbdIInv
<1>1. CASE \E r \in SUBSET LocalKeys : KeyReport(r)
  <2>1. KbdTypeOK'
    BY <1>0, <1>1, KbdBoundAssumption DEF KeyReport, Input, KbdTypeOK, Core1, AllUp
  <2>2. /\ UNCHANGED <<queue, latest, pending, host, usb, connected>>
        /\ Refocusing => Refocusing'
    BY <1>1 DEF KeyReport, Refocusing
  <2> QED BY <2>1, <2>2, QuietStep
<1>2. CASE \E r \in SUBSET PeerKeys : PeerAccept(r)
  <2>1. KbdTypeOK'
    BY <1>0, <1>2, KbdBoundAssumption DEF PeerAccept, Input, KbdTypeOK, Core1, AllUp
  <2>2. /\ UNCHANGED <<queue, latest, pending, host, usb, connected>>
        /\ Refocusing => Refocusing'
    BY <1>2 DEF PeerAccept, Refocusing
  <2> QED BY <2>1, <2>2, QuietStep
<1>3. CASE PeerExpire
  <2>1. KbdTypeOK'
    BY <1>0, <1>3, KbdBoundAssumption DEF PeerExpire, KbdTypeOK, Core1, AllUp
  <2>2. /\ UNCHANGED <<queue, latest, pending, host, usb, connected>>
        /\ Refocusing => Refocusing'
    BY <1>3 DEF PeerExpire, Refocusing
  <2> QED BY <2>1, <2>2, QuietStep
<1>4. CASE PublishPeer
  <2>1. KbdTypeOK'
    BY <1>0, <1>4, KbdBoundAssumption DEF PublishPeer, KbdTypeOK, Core1, AllUp
  <2>2. /\ UNCHANGED <<queue, latest, pending, host, usb, connected>>
        /\ Refocusing => Refocusing'
    BY <1>4 DEF PublishPeer, Refocusing
  <2> QED BY <2>1, <2>2, QuietStep
<1>5. CASE SyncGeneration
  <2>1. KbdTypeOK'
    BY <1>0, <1>5, KbdBoundAssumption DEF SyncGeneration, KbdTypeOK, Core1, AllUp
  <2>2. /\ UNCHANGED <<queue, latest, pending, host, usb, connected>>
        /\ Refocusing => Refocusing'
    BY <1>5 DEF SyncGeneration, Refocusing
  <2> QED BY <2>1, <2>2, QuietStep
<1>6. CASE SyncClear
  <2>1. KbdTypeOK'
    BY <1>0, <1>6, KbdBoundAssumption DEF SyncClear, KbdTypeOK, Core1, AllUp
  <2>2. /\ UNCHANGED <<queue, latest, pending, host, usb, connected>>
        /\ Refocusing => Refocusing'
    BY <1>6 DEF SyncClear, Refocusing
  <2> QED BY <2>1, <2>2, QuietStep
<1>7. CASE SwitchOutput
  <2>1. KbdTypeOK'
    BY <1>0, <1>7, KbdBoundAssumption DEF SwitchOutput, Reset, KbdTypeOK, Core1, AllUp
  <2>2. /\ UNCHANGED <<queue, latest, pending, host, usb, connected>>
        /\ Refocusing => Refocusing'
    BY <1>7 DEF SwitchOutput, Refocusing
  <2> QED BY <2>1, <2>2, QuietStep
<1>8. CASE ReleaseAllKeys
  <2>1. KbdTypeOK'
    BY <1>0, <1>8, KbdBoundAssumption DEF ReleaseAllKeys, KbdTypeOK, Core1, AllUp
  <2>2. /\ UNCHANGED <<queue, latest, pending, host, usb, connected>>
        /\ Refocusing => Refocusing'
    BY <1>8 DEF ReleaseAllKeys, Refocusing
  <2> QED BY <2>1, <2>2, QuietStep
<1> QED BY <1>1, <1>2, <1>3, <1>4, <1>5, <1>6, <1>7, <1>8

(* Actions that queue one report, or in one case perhaps none. *)
LEMMA QueueActions ==
  ASSUME KbdIInv,
         \/ QueueCurrent \/ SyncReconcile \/ QueueAllUp \/ ScreenLock
         \/ SyntheticReceive \/ SyntheticRelease
  PROVE  KbdIInv'
<1>0. /\ KbdTypeOK /\ QueueOK /\ Combined \in Report
      /\ {Lock} \in Report /\ AllUp \in Report
  BY IInvQueue, CombinedType, ConstantReports DEF KbdIInv
<1>t. ASSUME NEW r \in Report, Enqueue(r)
      PROVE  /\ queue' \in Seq(Report) /\ Len(queue') <= Cap
             /\ latest' \in Report /\ pending' \in BOOLEAN
  BY <1>0, <1>t, EnqueueOK DEF KbdTypeOK, QueueOK
<1>1. CASE QueueCurrent
  <2>1. Enqueue(Combined) /\ UNCHANGED <<host, usb, connected>>
    BY <1>1 DEF QueueCurrent
  <2>2. KbdTypeOK'
    BY <1>0, <1>t, <1>1, <2>1, KbdBoundAssumption DEF QueueCurrent, KbdTypeOK, Core1
  <2> QED BY <1>0, <2>1, <2>2, QueueStep
<1>2. CASE QueueAllUp
  <2>1. Enqueue(AllUp) /\ UNCHANGED <<host, usb, connected>>
    BY <1>2 DEF QueueAllUp
  <2>2. KbdTypeOK'
    BY <1>0, <1>t, <1>2, <2>1, KbdBoundAssumption DEF QueueAllUp, KbdTypeOK, Core1
  <2> QED BY <1>0, <2>1, <2>2, QueueStep
<1>3. CASE ScreenLock
  <2>1. Enqueue({Lock}) /\ UNCHANGED <<host, usb, connected>>
    BY <1>3 DEF ScreenLock
  <2>2. KbdTypeOK'
    BY <1>0, <1>t, <1>3, <2>1, KbdBoundAssumption DEF ScreenLock, Input, KbdTypeOK, Core1
  <2> QED BY <1>0, <2>1, <2>2, QueueStep
<1>4. CASE SyntheticReceive
  <2>1. Enqueue({Lock}) /\ UNCHANGED <<host, usb, connected>>
    BY <1>4 DEF SyntheticReceive
  <2>2. KbdTypeOK'
    BY <1>0, <1>t, <1>4, <2>1, KbdBoundAssumption DEF SyntheticReceive, Input, KbdTypeOK, Core1
  <2> QED BY <1>0, <2>1, <2>2, QueueStep
<1>5. CASE SyntheticRelease
  <2> DEFINE r == IF active THEN Combined ELSE AllUp
  <2>1. Enqueue(r) /\ r \in Report /\ UNCHANGED <<host, usb, connected>>
    BY <1>0, <1>5 DEF SyntheticRelease
  <2>2. KbdTypeOK'
    <3> HIDE DEF r
    <3> QED BY <1>0, <1>t, <1>5, <2>1 DEF SyntheticRelease, KbdTypeOK, Core1
  <2> HIDE DEF r
  <2> QED BY <2>1, <2>2, QueueStep
<1>6. CASE SyncReconcile
  <2>1. \/ Enqueue(Combined)
        \/ UNCHANGED <<queue, latest, pending>> /\ ~Refocusing
    BY <1>6 DEF SyncReconcile, Refocusing
  <2>2. UNCHANGED <<host, usb, connected>>
    BY <1>6 DEF SyncReconcile
  <2>3. KbdTypeOK'
    BY <1>0, <1>t, <1>6, <2>1 DEF SyncReconcile, KbdTypeOK, Core1
  <2> QED BY <1>0, <2>1, <2>2, <2>3, QueueStep, QuietStep
<1> QED BY <1>1, <1>2, <1>3, <1>4, <1>5, <1>6

(* Actions that reset the host session, and the two that open and close it. *)
LEMMA SessionActions ==
  ASSUME KbdIInv, FocusReset \/ Announce \/ Mount \/ Mounted \/ Unmount \/ Unmounted
  PROVE  KbdIInv'
<1>0. KbdTypeOK /\ AllUp \in Report  BY ConstantReports DEF KbdIInv
<1>h. ASSUME HostReset
      PROVE  /\ QueueOK' /\ queue' = <<>> /\ latest' = AllUp
             /\ queue' \in Seq(Report) /\ Len(queue') <= Cap
             /\ latest' \in Report /\ pending' \in BOOLEAN /\ gen' \in Nat
  <2>1. QueueOK' /\ queue' = <<>> /\ latest' = AllUp  BY <1>h, HostResetOK
  <2>2. gen' \in Nat  BY <1>0, <1>h DEF HostReset, KbdTypeOK
  <2> QED BY <2>1, <2>2 DEF QueueOK
<1>1. CASE FocusReset
  <2>1. HostReset  BY <1>1 DEF FocusReset
  <2>2. KbdTypeOK'
    BY <1>0, <1>h, <1>1, <2>1, KbdBoundAssumption
    DEF FocusReset, KbdTypeOK, Core1, Usb
  <2>3. TailBehindFullQueue'  BY <1>h, <2>1 DEF QueueOK
  <2>4. LastReportShown'
    BY <1>h, <1>1, <2>1
    DEF FocusReset, KbdIInv, LastReportShown, SessionStarts, Refocusing
  <2>5. SessionStarts'
    BY <1>h, <1>1, <2>1 DEF FocusReset, KbdIInv, SessionStarts
  <2> QED BY <2>2, <2>3, <2>4, <2>5 DEF KbdIInv
<1>2. CASE Announce
  <2>1. HostReset  BY <1>2 DEF Announce
  <2>2. KbdTypeOK'
    BY <1>0, <1>h, <1>2, <2>1, KbdBoundAssumption
    DEF Announce, KbdTypeOK, Core1, Usb
  <2>3. TailBehindFullQueue'  BY <1>h, <2>1 DEF QueueOK
  <2>4. LastReportShown'
    BY <1>h, <1>2, <2>1
    DEF Announce, KbdIInv, LastReportShown, SessionStarts, Refocusing
  <2>5. SessionStarts'
    BY <1>h, <1>2, <2>1 DEF Announce, KbdIInv, SessionStarts
  <2> QED BY <2>2, <2>3, <2>4, <2>5 DEF KbdIInv
<1>3. CASE Mount
  <2>1. HostReset  BY <1>3 DEF Mount
  <2>2. KbdTypeOK'
    BY <1>0, <1>h, <1>3, <2>1, KbdBoundAssumption
    DEF Mount, Reset, KbdTypeOK, Core1, Usb
  <2>3. TailBehindFullQueue'  BY <1>h, <2>1 DEF QueueOK
  <2>4. LastReportShown'
    BY <1>h, <1>3, <2>1
    DEF Mount, KbdIInv, LastReportShown, SessionStarts, Refocusing
  <2>5. SessionStarts'
    BY <1>h, <1>3, <2>1 DEF Mount, KbdIInv, SessionStarts
  <2> QED BY <2>2, <2>3, <2>4, <2>5 DEF KbdIInv
<1>4. CASE Unmounted
  <2>1. HostReset  BY <1>4 DEF Unmounted
  <2>2. KbdTypeOK'
    BY <1>0, <1>h, <1>4, <2>1, KbdBoundAssumption
    DEF Unmounted, KbdTypeOK, Core1, Usb
  <2>3. TailBehindFullQueue'  BY <1>h, <2>1 DEF QueueOK
  <2>4. LastReportShown'
    BY <1>h, <1>4, <2>1
    DEF Unmounted, KbdIInv, LastReportShown, SessionStarts, Refocusing
  <2>5. SessionStarts'
    BY <1>h, <1>4, <2>1 DEF Unmounted, KbdIInv, SessionStarts
  <2> QED BY <2>2, <2>3, <2>4, <2>5 DEF KbdIInv
<1>5. CASE Mounted
  <2>1. KbdTypeOK'  BY <1>0, <1>5 DEF Mounted, KbdTypeOK, Usb
  <2>2. TailBehindFullQueue' /\ SessionStarts'
    BY <1>5 DEF Mounted, KbdIInv, TailBehindFullQueue, SessionStarts
  <2>3. LastReportShown'
    BY <1>5 DEF Mounted, KbdIInv, LastReportShown, SessionStarts
  <2> QED BY <2>1, <2>2, <2>3 DEF KbdIInv
<1>6. CASE Unmount
  <2>1. KbdTypeOK'
    <3>1. host' \in Report /\ connected' \in BOOLEAN
      BY <1>0, <1>6 DEF Unmount
    <3>2. resets' \in 0 .. MaxResets
      BY <1>0, <1>6, KbdBoundAssumption DEF Unmount, Reset, KbdTypeOK
    <3> QED BY <1>0, <1>6, <3>1, <3>2 DEF Unmount, KbdTypeOK, Usb
  <2>2. TailBehindFullQueue' /\ SessionStarts'
    BY <1>6 DEF Unmount, KbdIInv, TailBehindFullQueue, SessionStarts
  <2>3. LastReportShown'
    BY <1>6 DEF Unmount, KbdIInv, LastReportShown
  <2> QED BY <2>1, <2>2, <2>3 DEF KbdIInv
<1> QED BY <1>1, <1>2, <1>3, <1>4, <1>5, <1>6

(* process_kbd_queue_task *)
LEMMA SubmitStep ==
  ASSUME KbdIInv, NEW sent \in BOOLEAN, Submit(sent)
  PROVE  KbdIInv'
<1> DEFINE rest == IF sent THEN Tail(queue) ELSE queue
<1>0. KbdTypeOK /\ QueueOK /\ queue # <<>> /\ connected /\ usb = "idle"
  BY IInvQueue DEF KbdIInv, Submit
<1>1. /\ queue' = IF pending /\ Len(rest) < Cap THEN Append(rest, latest) ELSE rest
      /\ pending' = (pending /\ ~(Len(rest) < Cap))
      /\ host' = IF sent THEN Head(queue) ELSE host
      /\ latest' = latest
  BY DEF Submit
<1>2. /\ queue \in Seq(Report) /\ Len(queue) > 0 /\ Len(queue) <= Cap
      /\ Head(queue) \in Report
  BY <1>0 DEF QueueOK
<1>3. /\ rest \in Seq(Report) /\ Len(rest) <= Cap
      /\ Len(rest) = IF sent THEN Len(queue) - 1 ELSE Len(queue)
  <2>1. CASE ~sent  BY <1>2, <2>1
  <2>2. CASE sent
    <3>1. Tail(queue) \in Seq(Report) /\ Len(Tail(queue)) = Len(queue) - 1
      BY <1>2
    <3>2. Len(queue) - 1 <= Cap  BY <1>2, CapAssumption
    <3> QED BY <2>2, <3>1, <3>2
  <2> QED BY <2>1, <2>2
<1>4. rest # <<>> => rest[Len(rest)] = queue[Len(queue)]
  <2>1. CASE ~sent  BY <2>1
  <2>2. CASE sent /\ Tail(queue) # <<>>
    <3>1. Len(Tail(queue)) = Len(queue) - 1 /\ Tail(queue) \in Seq(Report)
      BY <1>2
    <3>2. Len(Tail(queue)) > 0  BY <2>2, <3>1
    <3>3. \A i \in 1 .. Len(Tail(queue)) : Tail(queue)[i] = queue[i + 1]
      BY <1>2
    <3>4. Tail(queue)[Len(queue) - 1] = queue[Len(queue) - 1 + 1]
      BY <1>2, <3>1, <3>2, <3>3
    <3> QED BY <1>2, <2>2, <3>1, <3>4
  <2> QED BY <2>1, <2>2
<1>5. rest = <<>> => Len(queue) = 1 /\ sent /\ Head(queue) = queue[Len(queue)]
  <2>1. rest = <<>> => sent  BY <1>0
  <2>2. rest = <<>> => Len(queue) = 1
    <3>1. rest = <<>> => Len(rest) = 0  OBVIOUS
    <3> QED BY <1>2, <1>3, <2>1, <3>1
  <2>3. Head(queue) = queue[1]  BY <1>2
  <2> QED BY <2>1, <2>2, <2>3
<1>6. sent => Len(rest) < Cap
  <2>1. sent => Len(rest) = Len(queue) - 1  BY <1>3
  <2>2. Len(queue) \in Nat /\ Len(queue) - 1 < Cap  BY <1>2, CapAssumption
  <2> QED BY <2>1, <2>2
<1>7. pending /\ ~sent => Len(rest) = Cap
  BY <1>0, <1>3 DEF QueueOK, TailBehindFullQueue
<1> HIDE DEF rest
<1>8. CASE pending /\ sent
  <2>1. queue' = Append(rest, latest) /\ pending' = FALSE
    BY <1>1, <1>6, <1>8
  <2>2. /\ queue' \in Seq(Report) /\ Len(queue') <= Cap /\ queue' # <<>>
        /\ queue'[Len(queue')] = latest
    BY <1>0, <1>3, <1>6, <1>8, <2>1, CapAssumption DEF QueueOK
  <2>3. host' = Head(queue)  BY <1>1, <1>8
  <2>4. KbdTypeOK'
    BY <1>0, <1>2, <2>1, <2>2, <2>3 DEF Submit, KbdTypeOK
  <2>5. TailBehindFullQueue'  BY <2>1 DEF TailBehindFullQueue
  <2>6. LastReportShown'  BY <1>1, <2>2 DEF LastReportShown
  <2>7. SessionStarts'  BY <1>0 DEF Submit, SessionStarts
  <2> QED BY <2>4, <2>5, <2>6, <2>7 DEF KbdIInv
<1>9. CASE ~pending
  <2>1. queue' = rest /\ pending' = FALSE  BY <1>1, <1>9
  <2>2. host' \in Report  BY <1>0, <1>1, <1>2 DEF KbdTypeOK
  <2>3. KbdTypeOK'
    BY <1>0, <1>3, <2>1, <2>2 DEF Submit, KbdTypeOK
  <2>4. TailBehindFullQueue'  BY <2>1 DEF TailBehindFullQueue
  <2>5. LastReportShown'
    BY <1>0, <1>1, <1>4, <1>5, <1>9, <2>1 DEF QueueOK, LastReportShown
  <2>6. SessionStarts'  BY <1>0 DEF Submit, SessionStarts
  <2> QED BY <2>3, <2>4, <2>5, <2>6 DEF KbdIInv
<1>10. CASE pending /\ ~sent
  <2>1. UNCHANGED <<queue, latest, host>> /\ pending'
    <3>1. rest = queue  BY <1>10 DEF rest
    <3>2. ~(Len(rest) < Cap)  BY <1>3, <1>7, <1>10, CapAssumption
    <3> QED BY <1>1, <1>10, <3>1, <3>2
  <2>2. pending' = pending /\ pending' \in BOOLEAN
    BY <1>0, <1>10, <2>1 DEF QueueOK, Submit
  <2>3. KbdTypeOK'  BY <1>0, <2>1, <2>2 DEF Submit, KbdTypeOK
  <2>4. UNCHANGED <<usb, connected>> /\ (Refocusing => Refocusing')
    BY DEF Submit, Refocusing
  <2> QED BY <2>1, <2>2, <2>3, <2>4, QuietStep
<1> QED BY <1>8, <1>9, <1>10

(* ... and every step of either core keeps it. *)
LEMMA KbdStep == KbdIInv /\ [Next]_vars => KbdIInv'
<1> SUFFICES ASSUME KbdIInv, [Next]_vars PROVE KbdIInv'  OBVIOUS
<1>1. CASE UNCHANGED vars
  BY <1>1 DEF vars, KbdIInv, KbdTypeOK, TailBehindFullQueue, LastReportShown,
              SessionStarts, Refocusing
<1>2. CASE Next
  BY <1>2, QuietActions, QueueActions, SessionActions, SubmitStep DEF Next
<1> QED BY <1>1, <1>2

(* The inductive invariant holds in every reachable state. *)
THEOREM KbdInvariance == Spec => []KbdIInv
<1>1. Init => KbdIInv  BY InitKbdIInv
<1>2. KbdIInv /\ [Next]_vars => KbdIInv'  BY KbdStep
<1> QED BY <1>1, <1>2, PTL DEF Spec

(* Type correctness: the queue never holds more than its slots. *)
THEOREM KbdTypeCorrect == Spec => []KbdTypeOK
<1>1. KbdIInv => KbdTypeOK  BY DEF KbdIInv
<1> QED BY <1>1, KbdInvariance, PTL

(* The durable tail is never stranded behind an empty queue. *)
THEOREM TailIsReachable == Spec => []TailBehindFullQueue
<1>1. KbdIInv => TailBehindFullQueue  BY DEF KbdIInv
<1> QED BY <1>1, KbdInvariance, PTL

(* Whatever overflowed, the last report queued is the last report shown. *)
THEOREM LastReportIsNeverLost == Spec => []LastReportShown
<1>1. KbdIInv => LastReportShown  BY DEF KbdIInv
<1> QED BY <1>1, KbdInvariance, PTL

-----------------------------------------------------------------------------
(* The refinement. *)

Backlog == IF pending THEN Append(queue, latest) ELSE queue

(* Adding a report is a Put or an Overwrite of the abstract backlog. *)
LEMMA EnqueueRefines ==
  ASSUME QueueOK, NEW r \in Report, Enqueue(r), UNCHANGED host
  PROVE  [Fifo!FifoNext]_(Fifo!fifoVars)
<1>0. queue \in Seq(Report) /\ latest \in Report /\ Len(queue) <= Cap
  BY DEF QueueOK
<1>1. CASE ~connected
  BY <1>1 DEF Enqueue, Fifo!fifoVars
<1>2. CASE connected /\ ~pending
  <2>1. Backlog = queue /\ Len(Backlog) <= Cap
    BY <1>0, <1>2 DEF Backlog
  <2>2. Backlog' = Append(queue, r)
    BY <1>2 DEF Enqueue, Backlog
  <2>3. Fifo!Put(r)  BY <2>1, <2>2 DEF Fifo!Put, Backlog
  <2> QED BY <2>3 DEF Fifo!FifoNext
<1>3. CASE connected /\ pending
  <2>1. Len(queue) = Cap  BY <1>3 DEF QueueOK, TailBehindFullQueue
  <2>2. Backlog = Append(queue, latest) /\ Backlog' = Append(queue, r)
    BY <1>3 DEF Enqueue, Backlog
  <2>3. Len(Backlog) = Cap + 1  BY <1>0, <2>1, <2>2
  <2>4. [Append(queue, latest) EXCEPT ![Cap + 1] = r] = Append(queue, r)
    <3> DEFINE old == Append(queue, latest)
               new == Append(queue, r)
    <3>1. old \in Seq(Report) /\ new \in Seq(Report)
      BY <1>0
    <3>2. Len(old) = Cap + 1 /\ Len(new) = Cap + 1
      BY <1>0, <2>1
    <3>3. DOMAIN old = 1 .. Cap + 1 /\ DOMAIN new = 1 .. Cap + 1
      BY <3>1, <3>2
    <3>4. \A i \in 1 .. Cap + 1 : i # Cap + 1 => old[i] = queue[i] /\ new[i] = queue[i]
      BY <1>0, <2>1, CapAssumption
    <3>5. new[Cap + 1] = r
      BY <1>0, <2>1
    <3> HIDE DEF old, new
    <3>6. new = [i \in DOMAIN new |-> new[i]]
      <4>1. new \in [1 .. Len(new) -> Report]  BY <3>1, LenProperties
      <4> QED BY <4>1
    <3>7. [old EXCEPT ![Cap + 1] = r] = new
      <4>1. [old EXCEPT ![Cap + 1] = r]
              = [i \in DOMAIN old |-> IF i = Cap + 1 THEN r ELSE old[i]]
        OBVIOUS
      <4>2. \A i \in DOMAIN new : new[i] = IF i = Cap + 1 THEN r ELSE old[i]
        BY <3>3, <3>4, <3>5
      <4>3. [i \in DOMAIN old |-> IF i = Cap + 1 THEN r ELSE old[i]]
              = [i \in DOMAIN new |-> new[i]]
        BY <3>3, <4>2
      <4> QED BY <3>6, <4>1, <4>3
    <3> QED BY <3>7 DEF old, new
  <2>5. Fifo!Overwrite(r)
    BY <2>2, <2>3, <2>4 DEF Fifo!Overwrite, Backlog
  <2> QED BY <2>5 DEF Fifo!FifoNext
<1> QED BY <1>1, <1>2, <1>3

(* Submitting a report is a Deliver, a refusal stutters. *)
LEMMA SubmitRefines ==
  ASSUME QueueOK, NEW sent \in BOOLEAN, Submit(sent)
  PROVE  [Fifo!FifoNext]_(Fifo!fifoVars)
<1>0. /\ queue \in Seq(Report) /\ latest \in Report /\ queue # <<>>
      /\ Len(queue) <= Cap /\ Len(queue) > 0 /\ latest' = latest
  BY DEF QueueOK, Submit
<1>1. CASE ~sent
  <2>1. pending => ~(Len(queue) < Cap)
    BY <1>0, CapAssumption DEF QueueOK, TailBehindFullQueue
  <2>2. queue' = queue /\ (pending' <=> pending) /\ host' = host
    BY <1>1, <2>1 DEF Submit
  <2>3. Backlog' = Backlog  BY <1>0, <2>2 DEF Backlog
  <2> QED BY <2>2, <2>3 DEF Fifo!fifoVars, Backlog
<1>2. CASE sent
  <2>1. /\ Tail(queue) \in Seq(Report) /\ Len(Tail(queue)) < Cap
    BY <1>0, CapAssumption
  <2>2. /\ queue' = IF pending THEN Append(Tail(queue), latest) ELSE Tail(queue)
        /\ ~pending' /\ host' = Head(queue)
    BY <1>2, <2>1 DEF Submit
  <2>3. Backlog' = queue'  BY <2>2 DEF Backlog
  <2>4. /\ Backlog # <<>> /\ Head(Backlog) = Head(queue)
        /\ Tail(Backlog) = IF pending THEN Append(Tail(queue), latest) ELSE Tail(queue)
    <3>1. CASE ~pending  BY <1>0, <3>1 DEF Backlog
    <3>2. CASE pending
      <4>1. Backlog = Append(queue, latest)  BY <3>2 DEF Backlog
      <4>2. Append(queue, latest) # <<>> /\ Head(Append(queue, latest)) = Head(queue)
        BY <1>0
      <4>3. Tail(Append(queue, latest)) = Append(Tail(queue), latest)
        BY <1>0
      <4> QED BY <3>2, <4>1, <4>2, <4>3
    <3> QED BY <3>1, <3>2
  <2>5. Fifo!Deliver
    BY <2>2, <2>3, <2>4 DEF Fifo!Deliver, Backlog
  <2> QED BY <2>5 DEF Fifo!FifoNext
<1> QED BY <1>1, <1>2

(* A reset forgets the whole backlog. *)
LEMMA ResetRefines ==
  ASSUME HostReset, host' = host \/ host' = AllUp
  PROVE  [Fifo!FifoNext]_(Fifo!fifoVars)
<1>1. Backlog' = <<>>  BY DEF HostReset, Backlog
<1>2. Fifo!Forget  BY <1>1 DEF Fifo!Forget, Backlog
<1> QED BY <1>2 DEF Fifo!FifoNext

(* A step that leaves the queue alone stutters, or pulls the cable. *)
LEMMA QuietRefines ==
  ASSUME UNCHANGED <<queue, latest, pending>>, host' = host \/ host' = AllUp
  PROVE  [Fifo!FifoNext]_(Fifo!fifoVars)
<1>1. Backlog' = Backlog  BY DEF Backlog
<1>2. CASE host' = host  BY <1>1, <1>2 DEF Fifo!fifoVars, Backlog
<1>3. CASE host' = AllUp
  <2>1. Fifo!Unplug  BY <1>1, <1>3 DEF Fifo!Unplug, Backlog
  <2> QED BY <2>1 DEF Fifo!FifoNext
<1> QED BY <1>2, <1>3

(* Every step of the board is a step of KbdFifo, or leaves it alone. *)
LEMMA StepRefines == KbdIInv /\ [Next]_vars => [Fifo!FifoNext]_(Fifo!fifoVars)
<1> SUFFICES ASSUME KbdIInv, [Next]_vars PROVE [Fifo!FifoNext]_(Fifo!fifoVars)
  OBVIOUS
<1>0. /\ QueueOK /\ KbdTypeOK /\ Combined \in Report
      /\ {Lock} \in Report /\ AllUp \in Report
  BY IInvQueue, CombinedType, ConstantReports DEF KbdIInv
<1>1. CASE UNCHANGED vars  BY <1>1, QuietRefines DEF vars
<1>2. CASE \/ \E r \in SUBSET LocalKeys : KeyReport(r)
           \/ \E r \in SUBSET PeerKeys : PeerAccept(r)
           \/ PeerExpire \/ PublishPeer \/ SyncGeneration \/ SyncClear
           \/ SwitchOutput \/ ReleaseAllKeys \/ Mounted \/ Unmount
  BY <1>2, QuietRefines
  DEF KeyReport, PeerAccept, PeerExpire, PublishPeer, SyncGeneration, SyncClear,
      SwitchOutput, ReleaseAllKeys, Mounted, Unmount
<1>3. CASE FocusReset \/ Announce \/ Mount \/ Unmounted
  BY <1>3, ResetRefines DEF FocusReset, Announce, Mount, Unmounted
<1>4. CASE QueueCurrent \/ QueueAllUp \/ ScreenLock \/ SyntheticReceive
  BY <1>0, <1>4, EnqueueRefines
  DEF QueueCurrent, QueueAllUp, ScreenLock, SyntheticReceive
<1>5. CASE SyntheticRelease
  <2>1. PICK r \in Report : Enqueue(r)  BY <1>0, <1>5 DEF SyntheticRelease
  <2> QED BY <1>0, <1>5, <2>1, EnqueueRefines DEF SyntheticRelease
<1>6. CASE SyncReconcile
  <2>1. Enqueue(Combined) \/ UNCHANGED <<queue, latest, pending>>
    BY <1>6 DEF SyncReconcile
  <2>2. host' = host  BY <1>6 DEF SyncReconcile
  <2> QED BY <1>0, <2>1, <2>2, EnqueueRefines, QuietRefines
<1>7. CASE \E sent \in BOOLEAN : Submit(sent)
  BY <1>0, <1>7, SubmitRefines
<1> QED BY <1>1, <1>2, <1>3, <1>4, <1>5, <1>6, <1>7 DEF Next

(* queue_kbd_report_locked, process_kbd_queue_task and keyboard_host_reset *)
(* together implement the in-order, overwrite-only-the-newest backlog of   *)
(* KbdFifo, whatever the two cores' interleaving.                          *)
THEOREM QueueImplementsFifo == Spec => RefinesFifo
<1>1. Init => Fifo!FifoInit
  BY DEF Init, Fifo!FifoInit
<1>2. KbdIInv /\ [Next]_vars => [Fifo!FifoNext]_(Fifo!fifoVars)
  BY StepRefines
<1> QED BY <1>1, <1>2, KbdInvariance, PTL DEF Spec, RefinesFifo, Fifo!FifoSpec

-----------------------------------------------------------------------------
(* The peer's keys and the host session. *)

(* What PeerKeysAreVouched needs to be inductive: the generations core 1   *)
(* works with are not ahead of the host's, and what is stored or about to  *)
(* be stored for the current session was accepted in it.                   *)
VouchIInv ==
  /\ KbdIInv
  /\ vouched \subseteq PeerKeys
  /\ remoteGen <= gen /\ syncGen <= gen
  /\ remoteGen = gen => remote \subseteq vouched
  /\ syncGen = gen => offered \subseteq vouched
  /\ core1 # "publish" => offered = AllUp
  /\ PeerKeysAreVouched

(* What may be queued holds no peer key of another session. *)
LEMMA CombinedIsVouched ==
  ASSUME VouchIInv
  PROVE  Combined \cap PeerKeys \subseteq vouched
<1>1. local \cap PeerKeys = {}
  BY KeysAssumption DEF VouchIInv, KbdIInv, KbdTypeOK
<1>2. QED
  BY <1>1 DEF VouchIInv, Combined, AllUp

LEMMA ConstantsAreVouched ==
  {Lock} \cap PeerKeys \subseteq vouched /\ AllUp \cap PeerKeys \subseteq vouched
  BY KeysAssumption DEF AllUp

(* queue_kbd_report_locked lets nothing else in. *)
LEMMA EnqueueVouched ==
  ASSUME VouchIInv, NEW r, r \cap PeerKeys \subseteq vouched, Enqueue(r),
         vouched \subseteq vouched'
  PROVE  PeerKeysAreVouched'
<1>1. queue \in Seq(Report) /\ PeerKeysAreVouched
  BY DEF VouchIInv, KbdIInv, KbdTypeOK
<1>2. latest' \in {latest, r}
  BY DEF Enqueue
<1>3. queue' = queue \/ queue' = Append(queue, r)
  BY DEF Enqueue
<1>4. ASSUME NEW i \in 1 .. Len(queue') PROVE queue'[i] \in Waiting \cup {r}
  <2>1. CASE queue' = queue
    BY <2>1, <1>4 DEF Waiting
  <2>2. CASE queue' = Append(queue, r)
    <3>1. Len(queue') = Len(queue) + 1 /\ Len(queue) \in Nat
      BY <1>1, <2>2
    <3>2. CASE i \in 1 .. Len(queue)
      BY <1>1, <2>2, <3>2 DEF Waiting
    <3>3. CASE i = Len(queue) + 1
      BY <1>1, <2>2, <3>3
    <3>4. QED
      BY <1>4, <3>1, <3>2, <3>3
  <2>3. QED
    BY <1>3, <2>1, <2>2
<1>5. latest' \in Waiting \cup {r}
  BY <1>2 DEF Waiting
<1>6. Waiting' \subseteq Waiting \cup {r}
  BY <1>4, <1>5 DEF Waiting
<1>7. QED
  BY <1>1, <1>6 DEF PeerKeysAreVouched

(* process_kbd_queue_task moves reports, it makes none. *)
LEMMA SubmitVouched ==
  ASSUME VouchIInv, NEW sent \in BOOLEAN, Submit(sent), vouched \subseteq vouched'
  PROVE  PeerKeysAreVouched'
<1> DEFINE rest == IF sent THEN Tail(queue) ELSE queue
<1>1. queue \in Seq(Report) /\ queue # <<>> /\ PeerKeysAreVouched /\ latest \in Report
  BY DEF VouchIInv, KbdIInv, KbdTypeOK, Submit
<1>2. rest \in Seq(Report) /\ \A i \in 1 .. Len(rest) : rest[i] \in Waiting
  <2>1. CASE ~sent
    BY <1>1, <2>1 DEF Waiting
  <2>2. CASE sent
    <3>1. Tail(queue) \in Seq(Report) /\ Len(Tail(queue)) = Len(queue) - 1
      BY <1>1
    <3>2. \A i \in 1 .. Len(Tail(queue)) : Tail(queue)[i] = queue[i + 1]
      BY <1>1
    <3>3. ASSUME NEW i \in 1 .. Len(Tail(queue)) PROVE Tail(queue)[i] \in Waiting
      <4>1. i + 1 \in 1 .. Len(queue)
        BY <1>1, <3>1
      <4>2. QED
        BY <3>2, <4>1 DEF Waiting
    <3>4. QED
      BY <2>2, <3>1, <3>3
  <2>3. QED
    BY <2>1, <2>2
<1>3. queue' = rest \/ queue' = Append(rest, latest)
  BY DEF Submit
<1> HIDE DEF rest
<1>4. ASSUME NEW i \in 1 .. Len(queue') PROVE queue'[i] \in Waiting
  <2>1. CASE queue' = rest
    BY <1>2, <1>4, <2>1
  <2>2. CASE queue' = Append(rest, latest)
    <3>1. Len(queue') = Len(rest) + 1 /\ Len(rest) \in Nat
      BY <1>2, <2>2
    <3>2. CASE i \in 1 .. Len(rest)
      BY <1>2, <2>2, <3>2
    <3>3. CASE i = Len(rest) + 1
      BY <1>2, <2>2, <3>3 DEF Waiting
    <3>4. QED
      BY <1>4, <3>1, <3>2, <3>3
  <2>3. QED
    BY <1>3, <2>1, <2>2
<1>5. latest' \in Waiting
  BY DEF Submit, Waiting
<1>6. Waiting' \subseteq Waiting
  BY <1>4, <1>5 DEF Waiting
<1>7. QED
  BY <1>1, <1>6 DEF PeerKeysAreVouched

(* A new session starts with nothing queued and nothing vouched for. *)
LEMMA ResetVouched ==
  ASSUME VouchIInv, KbdIInv', HostReset, MCNext,
         UNCHANGED <<remote, remoteGen, syncGen, offered>>,
         core1' # "publish" \/ core1' = core1, core1 = "publish" => core1' = core1
  PROVE  VouchIInv'
<1>1. queue' = <<>> /\ latest' = AllUp /\ gen' = gen + 1 /\ gen \in Nat
  BY DEF HostReset, VouchIInv, KbdIInv, KbdTypeOK
<1>2. vouched' = AllUp
  BY <1>1 DEF MCNext
<1>3. \A i \in 1 .. Len(queue') : FALSE
  BY <1>1
<1>4. PeerKeysAreVouched'
  BY <1>1, <1>3 DEF PeerKeysAreVouched, Waiting, AllUp
<1>5. remoteGen \in Nat /\ syncGen \in Nat /\ remoteGen <= gen /\ syncGen <= gen
  BY DEF VouchIInv, KbdIInv, KbdTypeOK
<1>6. remoteGen' < gen' /\ syncGen' < gen'
  BY <1>1, <1>5
<1>7. core1' # "publish" => offered' = AllUp
  BY DEF VouchIInv
<1>8. QED
  BY <1>1, <1>2, <1>4, <1>5, <1>6, <1>7 DEF VouchIInv, AllUp

(* A step within a session: what was vouched for stays so. *)
LEMMA WithinSession ==
  ASSUME VouchIInv, KbdIInv', MCNext, gen' = gen, PeerKeysAreVouched',
         remoteGen' <= gen /\ syncGen' <= gen,
         remoteGen' = gen => remote' \subseteq vouched \cup offered',
         core1' # "publish" => offered' = AllUp
  PROVE  VouchIInv'
<1>1. vouched' = vouched \cup offered'
  BY DEF MCNext
<1>2. vouched' \subseteq PeerKeys
  BY <1>1 DEF VouchIInv, KbdIInv, KbdTypeOK
<1>3. QED
  BY <1>1, <1>2 DEF VouchIInv

LEMMA MoreVouched ==
  ASSUME MCNext, gen' = gen
  PROVE  vouched \subseteq vouched'
  BY DEF MCNext

LEMMA SameQueueVouched ==
  ASSUME VouchIInv, MCNext, gen' = gen, UNCHANGED <<queue, latest>>
  PROVE  PeerKeysAreVouched'
<1>1. PeerKeysAreVouched
  BY DEF VouchIInv
<1>2. QED
  BY <1>1, MoreVouched DEF PeerKeysAreVouched, Waiting

(* Everything core 1 queues was typed here or vouched for. *)
LEMMA VouchQueues ==
  ASSUME VouchIInv, KbdIInv', MCNext,
         \/ QueueCurrent \/ SyncReconcile \/ QueueAllUp
         \/ ScreenLock \/ SyntheticReceive \/ SyntheticRelease
  PROVE  VouchIInv'
<1>1. UNCHANGED <<remote, remoteGen, gen, syncGen, offered>> /\ core1 # "publish"
  BY DEF QueueCurrent, SyncReconcile, QueueAllUp, ScreenLock, SyntheticReceive,
         SyntheticRelease
<1>2. \/ \E r \in {Combined, {Lock}, AllUp} : Enqueue(r)
      \/ UNCHANGED <<queue, latest>>
  BY DEF QueueCurrent, SyncReconcile, QueueAllUp, ScreenLock, SyntheticReceive,
         SyntheticRelease
<1>3. ASSUME NEW r \in {Combined, {Lock}, AllUp}, Enqueue(r) PROVE PeerKeysAreVouched'
  <2>1. r \cap PeerKeys \subseteq vouched
    BY <1>3, CombinedIsVouched, ConstantsAreVouched
  <2>2. vouched \subseteq vouched'
    BY <1>1, MoreVouched
  <2>3. QED
    BY <1>3, <2>1, <2>2, EnqueueVouched
<1>4. PeerKeysAreVouched'
  BY <1>1, <1>2, <1>3, SameQueueVouched
<1>5. QED
  BY <1>1, <1>4, WithinSession DEF VouchIInv

(* What arrives from the peer, and the reconciliation. *)
LEMMA VouchQuiet ==
  ASSUME VouchIInv, KbdIInv', MCNext,
         \/ \E r \in SUBSET LocalKeys : KeyReport(r)
         \/ \E r \in SUBSET PeerKeys : PeerAccept(r)
         \/ PeerExpire \/ PublishPeer \/ SyncGeneration \/ SyncClear
         \/ SwitchOutput \/ ReleaseAllKeys \/ Mounted \/ Unmount
  PROVE  VouchIInv'
<1>1. UNCHANGED <<queue, latest, gen>>
  BY DEF KeyReport, PeerAccept, PeerExpire, PublishPeer, SyncGeneration, SyncClear,
         SwitchOutput, ReleaseAllKeys, Mounted, Unmount
<1>2. PeerKeysAreVouched'
  BY <1>1, SameQueueVouched
<1>3. gen \in Nat /\ remoteGen <= gen /\ syncGen <= gen
  BY DEF VouchIInv, KbdIInv, KbdTypeOK
<1>4. CASE PublishPeer
  <2>1. remote' = offered /\ remoteGen' = syncGen /\ offered' = AllUp /\ syncGen' = syncGen
    BY <1>4 DEF PublishPeer
  <2>2. syncGen = gen => offered \subseteq vouched
    BY DEF VouchIInv
  <2>3. QED
    BY <1>1, <1>2, <1>3, <2>1, <2>2, WithinSession
<1>5. CASE SyncGeneration
  <2>1. /\ syncGen' = gen /\ core1' = "clear" /\ core1 = "idle"
        /\ UNCHANGED <<remote, remoteGen, offered>>
    BY <1>5 DEF SyncGeneration
  <2>2. QED
    BY <1>1, <1>2, <1>3, <2>1, WithinSession DEF VouchIInv
<1>6. CASE SyncClear
  <2>1. /\ remote' = AllUp /\ remoteGen' = syncGen /\ core1' = "reconcile"
        /\ core1 = "clear" /\ UNCHANGED <<syncGen, offered>>
    BY <1>6 DEF SyncClear
  <2>2. QED
    BY <1>1, <1>2, <1>3, <2>1, WithinSession DEF VouchIInv, AllUp
<1>7. CASE \/ \E r \in SUBSET PeerKeys : PeerAccept(r)
           \/ PeerExpire
  <2>1. core1' = "publish" /\ UNCHANGED <<remote, remoteGen, syncGen>>
    BY <1>7 DEF PeerAccept, PeerExpire
  <2>2. QED
    BY <1>1, <1>2, <1>3, <2>1, WithinSession DEF VouchIInv
<1>8. CASE ReleaseAllKeys
  <2>1. /\ remote' = AllUp /\ core1 = "release" /\ core1' = "empty"
        /\ UNCHANGED <<remoteGen, syncGen, offered>>
    BY <1>8 DEF ReleaseAllKeys
  <2>2. QED
    BY <1>1, <1>2, <1>3, <2>1, WithinSession DEF VouchIInv, AllUp
<1>9. CASE \/ \E r \in SUBSET LocalKeys : KeyReport(r)
           \/ SwitchOutput \/ Mounted \/ Unmount
  <2>1. /\ core1 = "idle" \/ core1' = core1
        /\ UNCHANGED <<remote, remoteGen, syncGen, offered>>
    BY <1>9 DEF KeyReport, SwitchOutput, Mounted, Unmount
  <2>2. QED
    BY <1>1, <1>2, <1>3, <2>1, WithinSession DEF VouchIInv
<1>10. QED
  BY <1>4, <1>5, <1>6, <1>7, <1>8, <1>9

LEMMA VouchStep == VouchIInv /\ [MCNext]_<<vars, vouched>> => VouchIInv'
<1>1. SUFFICES ASSUME VouchIInv, [MCNext]_<<vars, vouched>> PROVE VouchIInv'
  OBVIOUS
<1>2. CASE UNCHANGED <<vars, vouched>>
  <2>1. KbdIInv'
    BY <1>1, <1>2, KbdStep DEF VouchIInv
  <2>2. QED
    BY <1>1, <1>2, <2>1 DEF vars, VouchIInv, PeerKeysAreVouched, Waiting
<1>3. CASE MCNext
  <2>1. Next /\ KbdIInv'
    BY <1>1, <1>3, KbdStep DEF MCNext, VouchIInv
  <2>2. CASE FocusReset \/ Announce \/ Mount \/ Unmounted
    <3>1. /\ HostReset /\ UNCHANGED <<remote, remoteGen, syncGen, offered>>
          /\ core1' # "publish" \/ core1' = core1
          /\ core1 = "publish" => core1' = core1
      BY <2>2 DEF FocusReset, Announce, Mount, Unmounted
    <3>2. QED
      BY <1>1, <1>3, <2>1, <3>1, ResetVouched
  <2>3. ASSUME NEW sent \in BOOLEAN, Submit(sent) PROVE VouchIInv'
    <3>1. UNCHANGED <<remote, remoteGen, gen, syncGen, offered, core1>>
      BY <2>3 DEF Submit
    <3>2. PeerKeysAreVouched'
      BY <1>1, <1>3, <2>3, <3>1, SubmitVouched, MoreVouched
    <3>3. QED
      BY <1>1, <1>3, <2>1, <3>1, <3>2, WithinSession DEF VouchIInv
  <2>4. QED
    BY <1>1, <1>3, <2>1, <2>2, <2>3, VouchQueues, VouchQuiet DEF Next
<1>4. QED
  BY <1>1, <1>2, <1>3

(* A peer key accepted in another host session never reaches this one's    *)
(* queue or its tail, however core 0's resets fall between core 1's check, *)
(* its publication and its reconciliation.                                 *)
THEOREM OtherSessionsKeysStayOut == MCSpec => []PeerKeysAreVouched
<1>1. MCInit => VouchIInv
  <2>1. SUFFICES ASSUME MCInit PROVE VouchIInv
    OBVIOUS
  <2>2. KbdIInv
    BY <2>1, InitKbdIInv DEF MCInit
  <2>3. \A r \in Waiting : r = AllUp
    BY <2>1 DEF MCInit, Init, Waiting
  <2>4. PeerKeysAreVouched
    BY <2>3 DEF PeerKeysAreVouched, AllUp
  <2>5. QED
    BY <2>1, <2>2, <2>4 DEF MCInit, Init, VouchIInv, AllUp
<1>2. VouchIInv => PeerKeysAreVouched
  BY DEF VouchIInv
<1>3. QED
  BY <1>1, <1>2, VouchStep, PTL DEF MCSpec

=============================================================================
