---------------------------- MODULE MonitorProofs ----------------------------
(***************************************************************************)
(* Proofs about the Monitors of the three ports, for any number of peers:  *)
(* nobody sleeps on beside a state to report, and every step is one of the *)
(* sticky Monitor.  The owner of a macOS Monitor does not defer            *)
(* interruptions: otherwise neither holds.                                 *)
(***************************************************************************)
EXTENDS Monitors, TLAPS

Reportable == Pending(pending, mask, ANYTHING)

\* posix: _waitLock is held where the code says, and what has become of the
\* sleep fits the state that is pending.
PosixInv ==
  /\ TypeOK
  /\ \A t \in Peers : op[t] \in PeerOps \cup {"none"}
  /\ \A t \in Threads : pc[t] \in {"body", "leave"} => waitLock = t
  /\ pc[Owner] \in {"w_test", "w_skip", "w_block", "w_next", "w_unlock"}
       => waitLock = Owner
  /\ pc[Owner] = "w_blocked" => cond # "none" /\ waiting
  /\ pc[Owner] = "w_next" => cond \notin {"none", "blocked"}
  /\ pc[Owner] \notin {"w_blocked", "w_next"} => cond = "none"
  /\ pc[Owner] = "w_block" \/ cond = "blocked" => ~Reportable
  /\ cond = "signaled" => Reportable
  /\ cond = "spurious" => Spurious
  /\ cond = "timedout" => timed
  /\ timed /\ pc[Owner] \in Waiting => mask = ANYTHING

\* win32: the event is set exactly if a sleeping owner has something to report.
Win32Inv ==
  /\ Win32!TypeOK
  /\ waiting <=> pc[Owner] \in {"asleep", "late"}
  /\ pc[Owner] = "asleep" => (signaled <=> Reportable)
  /\ signaled => waiting
  /\ pc[Owner] = "late" => mask = ANYTHING
  /\ timed /\ pc[Owner] = "asleep" => mask = ANYTHING

\* macos: there is one signal for the semaphore, or none; it has been given or
\* somebody is about to give it, and it is for the wait that is under way.
Signaling(t) == pc[t] \in {"signal", "wake"}

MacInv ==
  /\ Mac!TypeOK
  /\ mask = ANYTHING
  /\ waiting <=> pc[Owner] \in {"asleep", "late"}
  /\ pc[Owner] = "asleep" => (told <=> Reportable)
  /\ told => pc[Owner] \in {"asleep", "late", "absorb"}
  /\ told <=> signaled \/ \E t \in Threads : Signaling(t)
  /\ signaled => \A t \in Threads : ~Signaling(t)
  /\ \A s, t \in Threads : Signaling(s) /\ Signaling(t) => s = t

PortsInv ==
  /\ port \in {"posix", "win32", "macos"}
  /\ port = "posix" => PosixInv
  /\ port = "win32" => Win32Inv
  /\ port = "macos" => MacInv

-----------------------------------------------------------------------------
(* The operators of Status, and that each Monitor has the same.            *)

LEMMA SamePort ==
  \A p, m, i :
    /\ Win32!Flags = Flags /\ Win32!Masks = Masks /\ Win32!States = States
    /\ Win32!ANYTHING = ANYTHING
    /\ Win32!Pending(p, m, i) = Pending(p, m, i)
    /\ Win32!NextState(p, m) = NextState(p, m)
    /\ Win32!AfterNext(p, m) = AfterNext(p, m)
BY DEF Win32!Flags, Win32!Masks, Win32!States, Win32!ANYTHING, Win32!Pending,
       Win32!NextState, Win32!AfterNext, Win32!INVALID, Win32!SIGNALED,
       Win32!INTERRUPTED, Win32!TIMEDOUT, Win32!CANCELED,
       Flags, Masks, States, ANYTHING, Pending, NextState, AfterNext,
       INVALID, SIGNALED, INTERRUPTED, TIMEDOUT, CANCELED

LEMMA SameMac ==
  \A p, m, i :
    /\ Mac!Flags = Flags /\ Mac!Masks = Masks /\ Mac!States = States
    /\ Mac!ANYTHING = ANYTHING
    /\ Mac!Pending(p, m, i) = Pending(p, m, i)
    /\ Mac!NextState(p, m) = NextState(p, m)
    /\ Mac!AfterNext(p, m) = AfterNext(p, m)
BY DEF Mac!Flags, Mac!Masks, Mac!States, Mac!ANYTHING, Mac!Pending,
       Mac!NextState, Mac!AfterNext, Mac!INVALID, Mac!SIGNALED,
       Mac!INTERRUPTED, Mac!TIMEDOUT, Mac!CANCELED,
       Flags, Masks, States, ANYTHING, Pending, NextState, AfterNext,
       INVALID, SIGNALED, INTERRUPTED, TIMEDOUT, CANCELED

\* next() keeps the words in their types,
LEMMA NextTypes ==
  ASSUME NEW p \in SUBSET Flags, NEW m \in Masks
  PROVE  NextState(p, m) \in States /\ AfterNext(p, m) \in SUBSET Flags
BY DEF Masks, States, Flags, NextState, AfterNext, INVALID, SIGNALED,
       INTERRUPTED, TIMEDOUT, CANCELED

\* reports a state that is pending, of interest, and not outranked,
LEMMA NextReports ==
  ASSUME NEW p \in SUBSET Flags, NEW m \in Masks, Pending(p, m, ANYTHING)
  PROVE  LET flag == NextState(p, m) IN
           /\ flag \in p \cap m \cap ANYTHING
           /\ (p \cap m \cap ANYTHING) \cap Sticky!Outranked(flag) = {}
           /\ AfterNext(p, m)
                = (p \ {flag}) \ (IF flag = SIGNALED THEN {TIMEDOUT} ELSE {})
<1>1. p \subseteq {"SIGNALED", "INTERRUPTED", "TIMEDOUT", "CANCELED"}
  BY DEF Flags, SIGNALED, INTERRUPTED, TIMEDOUT, CANCELED
<1>2. CASE "SIGNALED" \in p \cap m
  BY <1>1, <1>2
  DEF Masks, Flags, ANYTHING, NextState, AfterNext, INVALID, SIGNALED,
      INTERRUPTED, TIMEDOUT, CANCELED, Sticky!Outranked, Sticky!SIGNALED,
      Sticky!TIMEDOUT, Sticky!INTERRUPTED
<1>3. CASE "SIGNALED" \notin p \cap m /\ "TIMEDOUT" \in p \cap m
  BY <1>1, <1>3
  DEF Masks, Flags, ANYTHING, NextState, AfterNext, INVALID, SIGNALED,
      INTERRUPTED, TIMEDOUT, CANCELED, Sticky!Outranked, Sticky!SIGNALED,
      Sticky!TIMEDOUT, Sticky!INTERRUPTED
<1>4. CASE "SIGNALED" \notin p \cap m /\ "TIMEDOUT" \notin p \cap m
  <2>1. p \cap m \cap ANYTHING = {"INTERRUPTED"}
    BY <1>1, <1>4
    DEF Pending, Masks, Flags, ANYTHING, SIGNALED, INTERRUPTED, TIMEDOUT, CANCELED
  <2> QED
    BY <1>1, <1>4, <2>1
    DEF NextState, AfterNext, INVALID, SIGNALED,
        INTERRUPTED, TIMEDOUT, CANCELED, Sticky!Outranked, Sticky!SIGNALED,
        Sticky!TIMEDOUT, Sticky!INTERRUPTED
<1> QED
  BY <1>2, <1>3, <1>4

\* and otherwise nothing.
LEMMA NextReportsNothing ==
  ASSUME NEW p \in SUBSET Flags, NEW m \in Masks, ~Pending(p, m, ANYTHING)
  PROVE  NextState(p, m) = INVALID /\ AfterNext(p, m) = p
BY DEF Pending, Masks, Flags, ANYTHING, NextState, AfterNext, INVALID, SIGNALED,
       INTERRUPTED, TIMEDOUT, CANCELED

\* A signal is always of interest; an interruption unless it is masked.
LEMMA NotifyPends ==
  ASSUME NEW p \in SUBSET Flags, NEW m \in Masks
  PROVE  /\ AfterNotify(p, m) \in SUBSET Flags
         /\ Pending(AfterNotify(p, m), m, ANYTHING)
         /\ Notifiable(p, m) <=> INTERRUPTED \notin p \cap m \cap ANYTHING
         /\ AfterNotify(p, m) = IF Notifiable(p, m) THEN p \cup {SIGNALED} ELSE p
BY DEF Pending, Masks, Flags, ANYTHING, AfterNotify, Notifiable, SIGNALED,
       INTERRUPTED, TIMEDOUT, CANCELED

LEMMA InterruptPends ==
  ASSUME NEW p \in SUBSET Flags, NEW m \in Masks,
         NEW q \in {AfterInterrupt(p, m), AfterCancel(p, m)}
  PROVE  /\ q \in SUBSET Flags
         /\ Pending(p, m, ANYTHING) => Pending(q, m, ANYTHING)
         /\ ~Interruptible(p, m) => Pending(p, m, ANYTHING)
         /\ Masked(m, INTERRUPTED)
              => Interruptible(p, m)
                   /\ (Pending(q, m, ANYTHING) <=> Pending(p, m, ANYTHING))
         /\ ~Masked(m, INTERRUPTED) => Pending(q, m, ANYTHING)
BY DEF Pending, Masked, Masks, Flags, ANYTHING, AfterInterrupt, AfterCancel,
       Interruptible, SIGNALED, INTERRUPTED, TIMEDOUT, CANCELED

\* Whatever is set, what was pending and of interest is so still.
LEMMA SetPends ==
  ASSUME NEW p \in SUBSET Flags, NEW m \in Masks,
         NEW q \in {AfterNotify(p, m), AfterInterrupt(p, m), AfterCancel(p, m)}
  PROVE  /\ q \in SUBSET Flags
         /\ Pending(p, m, ANYTHING) => Pending(q, m, ANYTHING)
<1>1. CASE q = AfterNotify(p, m)
  BY <1>1, NotifyPends
<1>2. CASE q \in {AfterInterrupt(p, m), AfterCancel(p, m)}
  BY <1>2, InterruptPends
<1> QED
  BY <1>1, <1>2

LEMMA InterruptAdds ==
  ASSUME NEW p \in SUBSET Flags, NEW m \in Masks
  PROVE  /\ AfterInterrupt(p, m) = p \cup {INTERRUPTED}
         /\ AfterCancel(p, m) = p \cup {CANCELED, INTERRUPTED}
BY DEF Pending, Masked, Masks, Flags, ANYTHING, AfterInterrupt, AfterCancel,
       Interruptible, SIGNALED, INTERRUPTED, TIMEDOUT, CANCELED

-----------------------------------------------------------------------------
(* What steps of any Monitor are to the sticky one.                        *)

LEMMA SameSticky ==
  /\ Sticky!Flags = Flags /\ Sticky!Masks = Masks /\ Sticky!States = States
  /\ Sticky!ANYTHING = ANYTHING /\ Sticky!INVALID = INVALID
  /\ Sticky!SIGNALED = SIGNALED /\ Sticky!INTERRUPTED = INTERRUPTED
  /\ Sticky!TIMEDOUT = TIMEDOUT /\ Sticky!CANCELED = CANCELED
BY DEF Sticky!Flags, Sticky!Masks, Sticky!States, Sticky!ANYTHING, Sticky!INVALID,
       Sticky!SIGNALED, Sticky!INTERRUPTED, Sticky!TIMEDOUT, Sticky!CANCELED,
       Flags, Masks, States, ANYTHING, INVALID, SIGNALED, INTERRUPTED, TIMEDOUT,
       CANCELED

LEMMA ReportMaps ==
  ASSUME mask \in Masks, NEW p \in SUBSET Flags, Pending(p, mask, ANYTHING),
         state' = NextState(p, mask), pending' = AfterNext(p, mask), mask' = mask
  PROVE  Sticky!Report(p)
<1> DEFINE flag == NextState(p, mask)
<1>1. /\ flag \in p \cap mask \cap ANYTHING
      /\ (p \cap mask \cap ANYTHING) \cap Sticky!Outranked(flag) = {}
      /\ pending' = (p \ {flag}) \ (IF flag = SIGNALED THEN {TIMEDOUT} ELSE {})
  BY NextReports
<1> QED
  BY <1>1, SameSticky DEF Sticky!Report, Sticky!Visible

\* Others set states; the owner may be anywhere.
LEMMA SetMaps ==
  ASSUME pending \in SUBSET Flags, mask \in Masks,
         UNCHANGED <<mask, state>>, Phase' = Phase,
         \/ pending' = AfterNotify(pending, mask)
         \/ pending' = AfterInterrupt(pending, mask)
         \/ pending' = AfterCancel(pending, mask)
  PROVE  [Sticky!Next]_(Sticky!vars)
<1>1. CASE pending' = AfterNotify(pending, mask)
  BY <1>1, NotifyPends, SameSticky
  DEF Sticky!Next, Sticky!Notify, Sticky!Visible, Sticky!vars
<1>2. CASE pending' = AfterInterrupt(pending, mask)
  BY <1>2, InterruptAdds, SameSticky DEF Sticky!Next, Sticky!Interrupt
<1>3. CASE pending' = AfterCancel(pending, mask)
  BY <1>3, InterruptAdds, SameSticky DEF Sticky!Next, Sticky!Cancel
<1> QED
  BY <1>1, <1>2, <1>3

\* The owner clears an interruption, or does not.
LEMMA ClearMaps ==
  ASSUME UNCHANGED <<mask, state>>, Phase = "running", Phase' = "running",
         pending' = pending \/ pending' = pending \ {INTERRUPTED}
  PROVE  [Sticky!Next]_(Sticky!vars)
BY SameSticky DEF Sticky!Next, Sticky!ClearInterrupted, Sticky!vars

\* The steps of wait(): it reports at once, goes to sleep, ends, and returns.
LEMMA SkipMaps ==
  ASSUME pending \in SUBSET Flags, mask \in Masks, Pending(pending, mask, ANYTHING),
         state' = NextState(pending, mask), pending' = AfterNext(pending, mask),
         mask' = mask, Phase = "running", Phase' = "running"
  PROVE  Sticky!Next
BY ReportMaps DEF Sticky!Next, Sticky!WaitWithoutBlocking

LEMMA BlockMaps ==
  ASSUME ~Pending(pending, mask, ANYTHING), UNCHANGED <<pending, mask, state>>,
         Phase = "running", Phase' = "waiting"
  PROVE  Sticky!Next
BY SameSticky DEF Sticky!Next, Sticky!Block, Sticky!Visible, Pending

LEMMA WakeMaps ==
  ASSUME pending \in SUBSET Flags, mask \in Masks, Pending(pending, mask, ANYTHING),
         state' = NextState(pending, mask), pending' = AfterNext(pending, mask),
         mask' = mask, Phase = "waiting", Phase' = "returning"
  PROVE  Sticky!Next
BY ReportMaps DEF Sticky!Next, Sticky!Wake

LEMMA ExpireMaps ==
  ASSUME pending \in SUBSET Flags, mask = ANYTHING,
         state' = NextState(pending \cup {TIMEDOUT}, mask),
         pending' = AfterNext(pending \cup {TIMEDOUT}, mask),
         mask' = mask, Phase = "waiting", Phase' = "returning"
  PROVE  Sticky!Next
<1>1. /\ pending \cup {TIMEDOUT} \in SUBSET Flags /\ mask \in Masks
      /\ Pending(pending \cup {TIMEDOUT}, mask, ANYTHING)
  BY DEF Flags, Masks, Pending, ANYTHING, SIGNALED, INTERRUPTED, TIMEDOUT, CANCELED
<1>2. Sticky!Report(pending \cup {TIMEDOUT})
  BY <1>1, ReportMaps
<1> QED
  BY <1>2, SameSticky DEF Sticky!Next, Sticky!Expire

LEMMA ReturnMaps ==
  ASSUME UNCHANGED <<pending, mask, state>>, Phase = "returning", Phase' = "running"
  PROVE  Sticky!Next
BY DEF Sticky!Next, Sticky!Return

LEMMA StutterMaps ==
  ASSUME UNCHANGED <<pending, mask, state>>, Phase' = Phase
  PROVE  UNCHANGED Sticky!vars
BY DEF Sticky!vars

-----------------------------------------------------------------------------
(* posix *)

LEMMA PosixInitInv == Init => PosixInv
BY MonitorAssumption
DEF Init, PosixInv, TypeOK, Threads, Flags, Masks, States, Reportable, Pending, Waiting

LEMMA PosixStep ==
  ASSUME PosixInv, Next
  PROVE  PosixInv'
<1> USE MonitorAssumption DEF Threads
<1> DEFINE Labels == {"idle", "held"} \cup Calling \cup Waiting
           Fields == <<pending, mask, waiting, owned, cond, timed, state>>
<1>t. /\ pending \in SUBSET Flags /\ mask \in Masks
      /\ pc \in [Threads -> Labels] /\ waitLock \in Threads \cup {None}
  BY DEF PosixInv, TypeOK
<1>1. ASSUME NEW t \in Threads, Acquire(t) PROVE PosixInv'
  BY <1>1 DEF Acquire, Goto, status, PosixInv, TypeOK, Reportable, Waiting, Calling
<1>2. ASSUME NEW t \in Threads, Release(t) PROVE PosixInv'
  BY <1>2 DEF Release, Goto, status, PosixInv, TypeOK, Reportable, Waiting, Calling
<1>3. ASSUME NEW t \in Threads, NEW o \in PeerOps \cup OwnerOps, Call(t, o)
      PROVE PosixInv'
  BY <1>3 DEF Call, Goto, status, PosixInv, TypeOK, Reportable, Waiting, Calling
<1>4. ASSUME NEW t \in Threads, Enter(t) PROVE PosixInv'
  BY <1>4 DEF Enter, Goto, status, PosixInv, TypeOK, Reportable, Waiting, Calling
<1>6. ASSUME NEW t \in Threads, Leave(t) PROVE PosixInv'
  BY <1>6 DEF Leave, Goto, status, PosixInv, TypeOK, Reportable, Waiting, Calling
<1>7. ASSUME NEW m \in Masks, Interest(m) PROVE PosixInv'
  BY <1>7 DEF Interest, PosixInv, TypeOK, Reportable, Waiting, Calling
<1>8. CASE \E t \in BOOLEAN : WaitCall(t)
  BY <1>8 DEF WaitCall, Goto, PosixInv, TypeOK, Reportable, Waiting, Calling
<1>9. CASE WaitEnter
  BY <1>9 DEF WaitEnter, Goto, status, PosixInv, TypeOK, Reportable, Waiting, Calling
<1>10. CASE WaitSkip
  BY <1>10, NextTypes
  DEF WaitSkip, Goto, PosixInv, TypeOK, Reportable, Waiting, Calling
<1>11. CASE WaitSkipUnlock
  BY <1>11 DEF WaitSkipUnlock, Goto, status, PosixInv, TypeOK, Reportable, Waiting, Calling
<1>12. CASE WaitRelease
  BY <1>12 DEF WaitRelease, Goto, status, PosixInv, TypeOK, Reportable, Waiting, Calling
<1>13. CASE WaitBlock
  BY <1>13 DEF WaitBlock, Goto, PosixInv, TypeOK, Reportable, Waiting, Calling
<1>14. CASE CondTimeout
  BY <1>14 DEF CondTimeout, PosixInv, TypeOK, Reportable, Waiting, Calling
<1>15. CASE CondSpurious
  BY <1>15 DEF CondSpurious, PosixInv, TypeOK, Reportable, Waiting, Calling
<1>16. CASE WaitResume
  BY <1>16 DEF WaitResume, Goto, status, PosixInv, TypeOK, Reportable, Waiting, Calling
<1>18. CASE WaitUnlock
  BY <1>18 DEF WaitUnlock, Goto, status, PosixInv, TypeOK, Reportable, Waiting, Calling
<1>19. CASE WaitRelock
  BY <1>19 DEF WaitRelock, Goto, status, PosixInv, TypeOK, Reportable, Waiting, Calling
<1>20. CASE WaitNext
  <2>1. Woken \in SUBSET Flags
    BY <1>t DEF Woken, Flags
  <2> QED
    BY <1>20, <2>1, <1>t, NextTypes
    DEF WaitNext, Goto, PosixInv, TypeOK, Reportable, Waiting, Calling
<1>21. ASSUME NEW t \in Threads, Body(t) PROVE PosixInv'
  <2> DEFINE Told == /\ pending' \in SUBSET Flags
                     /\ \/ cond' = cond
                        \/ cond = "blocked" /\ cond' = "signaled"
                     /\ cond # "none" /\ Reportable => Reportable'
                     /\ cond # "none" /\ cond' = "signaled" => Reportable'
                     /\ cond' = "blocked" => ~Reportable'
  <2>1. /\ pc[t] = "body" /\ mask' = mask /\ waitLock = t
        /\ cond # "none" => t # Owner /\ op[t] \in {"notify", "interrupt", "cancel"}
        /\ cond = "blocked" => waiting /\ ~Reportable
        /\ cond = "signaled" => Reportable
    BY <1>21, <1>t DEF Body, PosixInv, TypeOK, PeerOps, OwnerOps
  <2>2. ASSUME op[t] = "notify" PROVE Told
    <3>1. pending' = AfterNotify(pending, mask) /\ Reportable'
      BY <1>21, <1>t, <2>1, <2>2, NotifyPends DEF Body, Reportable
    <3>2. cond' = IF Notifiable(pending, mask) /\ waiting THEN Signaled ELSE cond
      BY <1>21, <2>2 DEF Body
    <3>3. cond = "blocked" => Notifiable(pending, mask)
      BY <1>t, <2>1, NotifyPends
      DEF Reportable, Notifiable, Pending, ANYTHING, Flags, INTERRUPTED, CANCELED
    <3> QED
      BY <1>t, <2>1, <3>1, <3>2, <3>3, NotifyPends DEF Signaled
  <2>3. ASSUME op[t] \in {"interrupt", "cancel"} PROVE Told
    <3>1. pending' \in {AfterInterrupt(pending, mask), AfterCancel(pending, mask)}
      BY <1>21, <2>3 DEF Body
    <3>2. cond' = IF Interruptible(pending, mask) /\ InterruptWakes
                  THEN Signaled ELSE cond
      BY <1>21, <2>3 DEF Body
    <3>3. /\ pending' \in SUBSET Flags
          /\ Reportable => Reportable'
          /\ ~Interruptible(pending, mask) => Reportable
          /\ Masked(mask, INTERRUPTED) => (Reportable' <=> Reportable)
          /\ ~Masked(mask, INTERRUPTED) => Reportable'
      BY <1>t, <2>1, <3>1, InterruptPends DEF Reportable
    <3> QED
      BY <2>1, <3>2, <3>3 DEF Signaled, InterruptWakes
  <2>4. ASSUME op[t] \in {"isInterrupted", "isCanceled"} PROVE Told
    BY <1>21, <1>t, <2>1, <2>4
    DEF Body, AfterIsInterrupted, AfterIsCanceled
  <2>5. Told
    BY <1>21, <2>2, <2>3, <2>4 DEF Body
  <2>6. /\ pc' = [pc EXCEPT ![t] = "leave"]
        /\ UNCHANGED <<lock, waitLock, mask, waiting, owned, timed, state, op>>
    BY <1>21 DEF Body, Goto
  <2> HIDE DEF Told
  <2>7. TypeOK'
    BY <2>5, <2>6 DEF Told, PosixInv, TypeOK, Waiting, Calling
  <2> QED
    BY <2>1, <2>5, <2>6, <2>7, <1>t
    DEF Told, PosixInv, Waiting, Calling
<1> QED
  BY <1>1, <1>2, <1>3, <1>4, <1>6, <1>7, <1>8, <1>9, <1>10, <1>11, <1>12,
     <1>13, <1>14, <1>15, <1>16, <1>18, <1>19, <1>20, <1>21
  DEF Next, Wait

LEMMA PosixMaps ==
  ASSUME PosixInv, Next
  PROVE  [Sticky!Next]_(Sticky!vars)
<1> DEFINE Maps == [Sticky!Next]_(Sticky!vars)
<1> SUFFICES Maps
  OBVIOUS
<1> USE MonitorAssumption DEF Threads
<1> HIDE DEF Maps
<1>t. /\ pending \in SUBSET Flags /\ mask \in Masks
      /\ pc \in [Threads -> {"idle", "held"} \cup Calling \cup Waiting]
  BY DEF PosixInv, TypeOK
<1>s. ASSUME UNCHANGED <<pending, mask, state>>, Phase' = Phase PROVE Maps
  BY <1>s, StutterMaps DEF Maps
<1>1. ASSUME NEW t \in Threads,
             \/ Acquire(t) \/ Release(t) \/ Enter(t) \/ Leave(t)
             \/ \E o \in PeerOps \cup OwnerOps : Call(t, o)
      PROVE  Maps
  BY <1>1, <1>t, <1>s
  DEF Acquire, Release, Enter, Leave, Call, Goto, status, Phase, Calling, Waiting
<1>2. ASSUME NEW m \in Masks, Interest(m) PROVE Maps
  <2>1. Phase = "running" /\ Phase' = "running"
    BY <1>2 DEF Interest, Phase
  <2> QED
    BY <1>2, <2>1, SameSticky DEF Interest, Maps, Sticky!Next, Sticky!SetInterest
<1>3. CASE \/ \E t \in BOOLEAN : WaitCall(t)
           \/ WaitEnter \/ WaitSkipUnlock \/ WaitRelease
           \/ WaitResume \/ WaitUnlock \/ CondTimeout \/ CondSpurious
  BY <1>3, <1>t, <1>s
  DEF WaitCall, WaitEnter, WaitSkipUnlock, WaitRelease, WaitResume, WaitUnlock,
      CondTimeout, CondSpurious, Goto, status, Phase
<1>4. CASE WaitSkip
  <2>1. Phase = "running" /\ Phase' = "running"
    BY <1>4, <1>t DEF WaitSkip, Goto, Phase
  <2> QED
    BY <1>4, <1>t, <2>1, SkipMaps DEF WaitSkip, Maps
<1>5. CASE WaitBlock
  <2>1. Phase = "running" /\ Phase' = "waiting"
    BY <1>5, <1>t DEF WaitBlock, Goto, Phase
  <2> QED
    BY <1>5, <2>1, BlockMaps DEF WaitBlock, PosixInv, Reportable, Maps
<1>6. CASE WaitNext
  <2>1. Phase = "waiting" /\ Phase' = "returning"
    BY <1>6, <1>t DEF WaitNext, Goto, Phase
  <2>2. CASE cond = "timedout"
    BY <1>6, <1>t, <2>1, <2>2, ExpireMaps
    DEF WaitNext, Woken, PosixInv, Waiting, Maps
  <2>3. CASE cond # "timedout" /\ Reportable
    BY <1>6, <1>t, <2>1, <2>3, WakeMaps DEF WaitNext, Woken, Reportable, Maps
  <2>4. CASE cond # "timedout" /\ ~Reportable
    <3>1. Spurious
      BY <1>6, <2>4 DEF WaitNext, PosixInv, TypeOK
    <3>2. state' = INVALID /\ UNCHANGED <<pending, mask>>
      BY <1>6, <1>t, <2>4, NextReportsNothing DEF WaitNext, Woken, Reportable
    <3> QED
      BY <2>1, <2>4, <3>1, <3>2, SameSticky
      DEF Maps, Sticky!Next, Sticky!WakeForNothing, Sticky!Visible, Reportable, Pending
  <2> QED
    BY <2>2, <2>3, <2>4
<1>7. CASE WaitRelock
  <2>1. Phase = "returning" /\ Phase' = "running"
    BY <1>7, <1>t DEF WaitRelock, Goto, Phase
  <2> QED
    BY <1>7, <2>1, ReturnMaps DEF WaitRelock, status, Maps
<1>8. ASSUME NEW t \in Threads, Body(t) PROVE Maps
  <2>1. UNCHANGED <<mask, state>> /\ Phase' = Phase
    BY <1>8, <1>t DEF Body, Goto, Phase, Calling
  <2>2. CASE op[t] \in {"notify", "interrupt", "cancel"}
    BY <1>8, <1>t, <2>1, <2>2, SetMaps DEF Body, Maps
  <2>3. CASE op[t] \in {"isInterrupted", "isCanceled"}
    <3>1. Phase = "running"
      BY <1>8, <1>t, <2>3 DEF Body, Phase, PosixInv, PeerOps
    <3> QED
      BY <1>8, <2>1, <2>3, <3>1, ClearMaps
      DEF Body, Maps, AfterIsInterrupted, AfterIsCanceled
  <2> QED
    BY <1>8, <2>2, <2>3 DEF Body
<1> QED
  BY <1>1, <1>2, <1>3, <1>4, <1>5, <1>6, <1>7, <1>8 DEF Next, Wait

-----------------------------------------------------------------------------
(* win32 *)

\* The operators of Status that have a name of their own in the instance.
LEMMA Win32Words ==
  ASSUME NEW p, NEW m
  PROVE  /\ Win32!AfterNotify(p, m) = AfterNotify(p, m)
         /\ Win32!AfterInterrupt(p, m) = AfterInterrupt(p, m)
         /\ Win32!AfterCancel(p, m) = AfterCancel(p, m)
         /\ Win32!Notifiable(p, m) <=> Notifiable(p, m)
         /\ Win32!Interruptible(p, m) <=> Interruptible(p, m)
         /\ Win32!AfterIsInterrupted(p) = p \ {INTERRUPTED}
         /\ \A b \in BOOLEAN : Win32!AfterIsCanceled(p, b) \in {p, p \ {INTERRUPTED}}
         /\ Win32!Masked(m, Win32!INTERRUPTED) <=> Masked(m, INTERRUPTED)
         /\ Win32!TIMEDOUT = TIMEDOUT
BY DEF Win32!AfterNotify, Win32!AfterInterrupt, Win32!AfterCancel,
       Win32!Notifiable, Win32!Interruptible, Win32!AfterIsInterrupted,
       Win32!AfterIsCanceled, Win32!Masked, Win32!Pending,
       AfterNotify, AfterInterrupt, AfterCancel, Notifiable, Interruptible, Masked,
       Pending, Win32!SIGNALED, Win32!INTERRUPTED, Win32!CANCELED, Win32!TIMEDOUT,
       SIGNALED, INTERRUPTED, CANCELED, TIMEDOUT

LEMMA Win32InitInv == Win32!Init => Win32Inv
BY MonitorAssumption, SamePort
DEF Win32!Init, Win32!PortInit, Win32Inv, Win32!TypeOK, Win32!PortTypeOK, Reportable,
    Pending, Flags, Masks, States, Win32!INVALID, INVALID

LEMMA Win32Step ==
  ASSUME Win32Inv, Win32!Next
  PROVE  Win32Inv' /\ [Sticky!Next]_(Sticky!vars)
<1> DEFINE Good == Win32Inv' /\ [Sticky!Next]_(Sticky!vars)
<1> SUFFICES Good
  OBVIOUS
<1> USE MonitorAssumption, SamePort
<1> HIDE DEF Good
<1>t. /\ pending \in SUBSET Flags /\ mask \in Masks /\ owned \in BOOLEAN
      /\ pc \in [Threads -> {"idle", "held", "asleep", "late", "relock"}]
  BY DEF Win32Inv, Win32!TypeOK, Win32!PortTypeOK, Threads
<1>s. ASSUME Win32Inv', UNCHANGED <<pending, mask, state>>, Phase' = Phase PROVE Good
  BY <1>s, StutterMaps DEF Good
<1>1. ASSUME NEW t \in Threads, Win32!Acquire(t) \/ Win32!Release(t) PROVE Good
  <2>1. Win32Inv'
    BY <1>1
    DEF Win32!Acquire, Win32!Release, Win32!Goto, Threads, Win32Inv, Win32!TypeOK,
        Win32!PortTypeOK, Reportable
  <2> QED
    BY <1>1, <1>t, <1>s, <2>1 DEF Win32!Acquire, Win32!Release, Win32!Goto, Phase, Threads
<1>2. ASSUME NEW t \in Threads,
             Win32!Notify(t) \/ Win32!Interrupt(t) \/ Win32!Cancel(t)
      PROVE  Good
  <2>1. /\ UNCHANGED <<lock, mask, waiting, owned, timed, state, pc>>
        /\ \/ pending' = AfterNotify(pending, mask)
           \/ pending' = AfterInterrupt(pending, mask)
           \/ pending' = AfterCancel(pending, mask)
    BY <1>2, Win32Words DEF Win32!Notify, Win32!Interrupt, Win32!Cancel
  <2>2. pending' \in SUBSET Flags /\ (Reportable => Reportable')
    BY <1>t, <2>1, SetPends DEF Reportable
  <2>3. signaled' \in BOOLEAN /\ (signaled' => waiting)
    BY <1>2
    DEF Win32!Notify, Win32!Interrupt, Win32!Cancel, Win32!Set, Win32!SetUnlessMasked,
        Win32Inv, Win32!TypeOK, Win32!PortTypeOK
  <2>4. waiting /\ pc[Owner] = "asleep" => (signaled' <=> Reportable')
    <3>1. CASE Win32!Notify(t)
      <4>1. pending' = AfterNotify(pending, mask)
        BY <3>1, Win32Words DEF Win32!Notify
      <4>2. Reportable'
        BY <1>t, <2>1, <4>1, NotifyPends DEF Reportable
      <4> QED
        BY <3>1, <4>2 DEF Win32!Notify, Win32!Set
    <3>2. CASE Win32!Interrupt(t) \/ Win32!Cancel(t)
      <4>1. pending' \in {AfterInterrupt(pending, mask), AfterCancel(pending, mask)}
        BY <3>2, Win32Words DEF Win32!Interrupt, Win32!Cancel
      <4>2. /\ ~Interruptible(pending, mask) => Reportable
            /\ Masked(mask, INTERRUPTED) => (Reportable' <=> Reportable)
            /\ ~Masked(mask, INTERRUPTED) => Reportable'
        BY <1>t, <2>1, <4>1, InterruptPends DEF Reportable
      <4>3. signaled' = IF /\ Interruptible(pending, mask)
                           /\ ~Masked(mask, INTERRUPTED)
                        THEN signaled \/ waiting ELSE signaled
        BY <3>2, Win32Words
        DEF Win32!Interrupt, Win32!Cancel, Win32!Set, Win32!SetUnlessMasked
      <4> QED
        BY <2>2, <4>2, <4>3 DEF Win32Inv
    <3> QED
      BY <1>2, <3>1, <3>2
  <2>5. Win32Inv'
    BY <2>1, <2>2, <2>3, <2>4
    DEF Win32Inv, Win32!TypeOK, Win32!PortTypeOK
  <2>6. Phase' = Phase
    BY <2>1 DEF Phase
  <2> QED
    BY <1>t, <2>1, <2>5, <2>6, SetMaps DEF Good
<1>3. ASSUME NEW m \in Masks, Win32!Interest(m) PROVE Good
  <2>1. Win32Inv'
    BY <1>3 DEF Win32!Interest, Win32!Awake, Win32!Running, Win32Inv, Win32!TypeOK,
                Win32!PortTypeOK
  <2>2. Phase = "running" /\ Phase' = "running"
    BY <1>3 DEF Win32!Interest, Win32!Awake, Win32!Running, Phase
  <2> QED
    BY <1>3, <2>1, <2>2, SameSticky
    DEF Win32!Interest, Good, Sticky!Next, Sticky!SetInterest
<1>4. CASE Win32!Looks
  <2>1. /\ pending' \in {pending, pending \ {INTERRUPTED}}
        /\ UNCHANGED <<lock, mask, waiting, owned, timed, state, pc, signaled>>
        /\ pc[Owner] \in {"idle", "held"}
    BY <1>4, <1>t, Win32Words
    DEF Win32!Looks, Win32!IsInterrupted, Win32!IsCanceled, Win32!Awake, Win32!Running
  <2>2. Win32Inv'
    BY <1>t, <2>1 DEF Win32Inv, Win32!TypeOK, Win32!PortTypeOK
  <2>3. Phase = "running" /\ Phase' = "running"
    BY <2>1 DEF Phase
  <2> QED
    BY <2>1, <2>2, <2>3, ClearMaps DEF Good
<1>5. ASSUME NEW t \in BOOLEAN, Win32!WaitSkip(t) PROVE Good
  <2>1. /\ Pending(pending, mask, ANYTHING)
        /\ state' = NextState(pending, mask) /\ pending' = AfterNext(pending, mask)
        /\ UNCHANGED <<lock, mask, waiting, pc, signaled>>
        /\ pc[Owner] = "held" /\ owned' = TRUE /\ timed' = t
    BY <1>5 DEF Win32!WaitSkip, Win32!WaitCall
  <2>2. Win32Inv'
    BY <1>t, <2>1, NextTypes DEF Win32Inv, Win32!TypeOK, Win32!PortTypeOK
  <2>3. Phase = "running" /\ Phase' = "running"
    BY <2>1 DEF Phase
  <2> QED
    BY <1>t, <2>1, <2>2, <2>3, SkipMaps DEF Good
<1>6. ASSUME NEW t \in BOOLEAN, Win32!WaitSleep(t) PROVE Good
  <2>1. Win32Inv'
    BY <1>6, <1>t
    DEF Win32!WaitSleep, Win32!WaitCall, Win32!Goto, Threads, Win32Inv, Win32!TypeOK,
        Win32!PortTypeOK, Reportable
  <2>2. Phase = "running" /\ Phase' = "waiting"
    BY <1>6, <1>t DEF Win32!WaitSleep, Win32!WaitCall, Win32!Goto, Phase, Threads
  <2> QED
    BY <1>6, <2>1, <2>2, BlockMaps DEF Win32!WaitSleep, Good
<1>7. CASE Win32!Expire
  <2>1. Win32Inv'
    BY <1>7, <1>t
    DEF Win32!Expire, Win32!Goto, Threads, Win32Inv, Win32!TypeOK, Win32!PortTypeOK
  <2> QED
    BY <1>7, <1>t, <1>s, <2>1 DEF Win32!Expire, Win32!Goto, Phase, Threads
<1>8. CASE Win32!WaitEnd
  <2> DEFINE p == IF pc[Owner] = "late" THEN pending \cup {TIMEDOUT} ELSE pending
  <2>1. /\ state' = NextState(p, mask) /\ pending' = AfterNext(p, mask)
        /\ waiting' = FALSE /\ signaled' = FALSE
        /\ pc' = [pc EXCEPT ![Owner] = "relock"]
        /\ UNCHANGED <<lock, mask, owned, timed>>
    BY <1>8, Win32Words DEF Win32!WaitEnd, Win32!Report, Win32!Goto
  <2>2. p \in SUBSET Flags
    BY <1>t DEF Flags
  <2>3. state' \in States /\ pending' \in SUBSET Flags
    BY <1>t, <2>1, <2>2, NextTypes
  <2>4. Win32Inv'
    BY <1>t, <2>1, <2>3 DEF Win32Inv, Win32!TypeOK, Win32!PortTypeOK, Threads
  <2>5. Phase = "waiting" /\ Phase' = "returning"
    BY <1>8, <1>t, <2>1 DEF Win32!WaitEnd, Phase, Threads
  <2>6. CASE pc[Owner] = "late"
    BY <1>t, <2>1, <2>4, <2>5, <2>6, ExpireMaps DEF Win32Inv, Good
  <2>7. CASE pc[Owner] # "late" /\ Reportable
    BY <1>t, <2>1, <2>4, <2>5, <2>7, WakeMaps DEF Reportable, Good
  <2> QED
    BY <1>8, <2>6, <2>7 DEF Win32!WaitEnd, Win32Inv
<1>9. CASE Win32!Relock
  <2>1. Win32Inv'
    BY <1>9, <1>t
    DEF Win32!Relock, Win32!Goto, Threads, Win32Inv, Win32!TypeOK, Win32!PortTypeOK
  <2>2. Phase = "returning" /\ Phase' = "running"
    BY <1>9, <1>t DEF Win32!Relock, Win32!Goto, Phase, Threads
  <2> QED
    BY <1>9, <2>1, <2>2, ReturnMaps DEF Win32!Relock, Good
<1> QED
  BY <1>1, <1>2, <1>3, <1>4, <1>5, <1>6, <1>7, <1>8, <1>9
  DEF Win32!Next, Win32!Skips, Threads

-----------------------------------------------------------------------------
(* macos *)

LEMMA MacWords ==
  ASSUME NEW p, NEW m
  PROVE  /\ Mac!AfterNotify(p, m) = AfterNotify(p, m)
         /\ Mac!AfterInterrupt(p, m) = AfterInterrupt(p, m)
         /\ Mac!AfterCancel(p, m) = AfterCancel(p, m)
         /\ Mac!Notifiable(p, m) <=> Notifiable(p, m)
         /\ Mac!Interruptible(p, m) <=> Interruptible(p, m)
         /\ Mac!AfterIsInterrupted(p) = p \ {INTERRUPTED}
         /\ \A b \in BOOLEAN : Mac!AfterIsCanceled(p, b) \in {p, p \ {INTERRUPTED}}
         /\ Mac!TIMEDOUT = TIMEDOUT
BY DEF Mac!AfterNotify, Mac!AfterInterrupt, Mac!AfterCancel,
       Mac!Notifiable, Mac!Interruptible, Mac!AfterIsInterrupted,
       Mac!AfterIsCanceled, Mac!Pending,
       AfterNotify, AfterInterrupt, AfterCancel, Notifiable, Interruptible, Pending,
       Mac!SIGNALED, Mac!INTERRUPTED, Mac!CANCELED, Mac!TIMEDOUT,
       SIGNALED, INTERRUPTED, CANCELED, TIMEDOUT

\* Without deferred interruptions no interruption is masked.
LEMMA MacUnmasked == ~Mac!Masked(ANYTHING, Mac!INTERRUPTED)
BY DEF Mac!Masked, ANYTHING, Flags, Mac!INTERRUPTED, SIGNALED, INTERRUPTED, TIMEDOUT,
       CANCELED

\* Whatever is set with the mask ANYTHING, there is something to report then.
LEMMA AnyPends ==
  ASSUME NEW p \in SUBSET Flags,
         NEW q \in {AfterNotify(p, ANYTHING), AfterInterrupt(p, ANYTHING),
                    AfterCancel(p, ANYTHING)}
  PROVE  /\ q \in SUBSET Flags /\ Pending(q, ANYTHING, ANYTHING)
         /\ ~Interruptible(p, ANYTHING) => Pending(p, ANYTHING, ANYTHING)
<1>1. ANYTHING \in Masks /\ ~Masked(ANYTHING, INTERRUPTED)
  BY DEF Masks, Masked, ANYTHING, Flags, SIGNALED, INTERRUPTED, TIMEDOUT, CANCELED
<1>2. ~Interruptible(p, ANYTHING) => Pending(p, ANYTHING, ANYTHING)
  BY <1>1, InterruptPends
<1>3. CASE q = AfterNotify(p, ANYTHING)
  BY <1>1, <1>2, <1>3, NotifyPends
<1>4. CASE q \in {AfterInterrupt(p, ANYTHING), AfterCancel(p, ANYTHING)}
  BY <1>1, <1>2, <1>4, InterruptPends
<1> QED
  BY <1>3, <1>4

LEMMA MacInitInv == Mac!Init => MacInv
BY MonitorAssumption, SameMac
DEF Mac!Init, Mac!PortInit, MacInv, Mac!TypeOK, Mac!PortTypeOK, Reportable, Signaling,
    Threads, Pending, Flags, Masks, States, ANYTHING, Mac!INVALID, INVALID

LEMMA MacStep ==
  ASSUME MacInv, Mac!Next, mask' = mask
  PROVE  MacInv' /\ [Sticky!Next]_(Sticky!vars)
<1> DEFINE Good == MacInv' /\ [Sticky!Next]_(Sticky!vars)
<1> SUFFICES Good
  OBVIOUS
<1> USE MonitorAssumption, SameMac DEF Threads
<1> HIDE DEF Good
<1>t. /\ pending \in SUBSET Flags /\ mask = ANYTHING /\ mask \in Masks
      /\ owned \in BOOLEAN /\ told \in BOOLEAN /\ signaled \in BOOLEAN
      /\ pc \in [Threads -> {"idle", "held", "asleep", "late", "absorb", "relock",
                             "signal", "wake"}]
  BY DEF MacInv, Mac!TypeOK, Mac!PortTypeOK
<1>s. ASSUME MacInv', UNCHANGED <<pending, mask, state>>, Phase' = Phase PROVE Good
  BY <1>s, StutterMaps DEF Good
<1>1. ASSUME NEW t \in Threads, Mac!Acquire(t) \/ Mac!Release(t), UNCHANGED told
      PROVE  Good
  <2>1. MacInv'
    BY <1>1, <1>t
    DEF Mac!Acquire, Mac!Release, Mac!Goto, MacInv, Mac!TypeOK, Mac!PortTypeOK,
        Reportable, Signaling
  <2> QED
    BY <1>1, <1>t, <1>s, <2>1 DEF Mac!Acquire, Mac!Release, Mac!Goto, Phase
<1>2. ASSUME NEW t \in Threads, Mac!Notify(t) \/ Mac!Interrupt(t) \/ Mac!Cancel(t)
      PROVE  Good
  <2>1. /\ UNCHANGED <<lock, mask, waiting, owned, timed, state, signaled>>
        /\ pc[t] \in {"idle", "held"}
        /\ \/ pending' = AfterNotify(pending, mask)
           \/ pending' = AfterInterrupt(pending, mask)
           \/ pending' = AfterCancel(pending, mask)
    BY <1>2, MacWords DEF Mac!Notify, Mac!Interrupt, Mac!Cancel, Mac!Running
  <2>2. /\ pending' \in SUBSET Flags /\ Reportable'
        /\ ~Interruptible(pending, mask) => Reportable
    BY <1>t, <2>1, AnyPends DEF Reportable
  <2>3. \/ Mac!Tell(t, "wake") \/ Mac!Tell(t, "signal")
        \/ ~Interruptible(pending, mask) /\ UNCHANGED <<told, pc>>
    BY <1>2, MacWords DEF Mac!Notify, Mac!Interrupt, Mac!Cancel
  <2>4. \/ /\ waiting /\ ~told /\ told' = TRUE
           /\ \E how \in {"wake", "signal"} : pc' = [pc EXCEPT ![t] = how]
        \/ (~waiting \/ told \/ Reportable) /\ UNCHANGED <<told, pc>>
    BY <2>2, <2>3 DEF Mac!Tell, Mac!Goto
  <2>5. CASE /\ waiting /\ ~told /\ told' = TRUE
             /\ \E how \in {"wake", "signal"} : pc' = [pc EXCEPT ![t] = how]
    <3>1. t # Owner /\ pc'[Owner] = pc[Owner]
      BY <1>t, <2>1, <2>5 DEF MacInv
    <3>2. PICK how \in {"wake", "signal"} : pc' = [pc EXCEPT ![t] = how]
      BY <2>5
    <3>3. \A s \in Threads : Signaling(s)' <=> s = t
      BY <1>t, <2>5, <3>2 DEF MacInv, Signaling
    <3>4. Mac!TypeOK'
      BY <1>t, <2>1, <2>2, <2>5, <3>2 DEF MacInv, Mac!TypeOK, Mac!PortTypeOK
    <3>5. MacInv'
      BY <1>t, <2>1, <2>2, <2>5, <3>1, <3>3, <3>4 DEF MacInv
    <3>6. Phase' = Phase
      BY <3>1 DEF Phase
    <3> QED
      BY <1>t, <2>1, <3>5, <3>6, SetMaps DEF Good
  <2>6. CASE (~waiting \/ told \/ Reportable) /\ UNCHANGED <<told, pc>>
    <3>1. Mac!TypeOK'
      BY <1>t, <2>1, <2>2, <2>6 DEF MacInv, Mac!TypeOK, Mac!PortTypeOK
    <3>2. MacInv'
      BY <1>t, <2>1, <2>2, <2>6, <3>1 DEF MacInv, Signaling
    <3>3. Phase' = Phase
      BY <2>6 DEF Phase
    <3> QED
      BY <1>t, <2>1, <3>2, <3>3, SetMaps DEF Good
  <2> QED
    BY <2>4, <2>5, <2>6
<1>3. ASSUME NEW m \in Masks, Mac!Interest(m), UNCHANGED told PROVE Good
  <2>1. MacInv' /\ Phase' = Phase
    BY <1>3, <1>t
    DEF Mac!Interest, MacInv, Mac!TypeOK, Mac!PortTypeOK, Reportable, Signaling, Phase
  <2> QED
    BY <1>3, <1>s, <2>1 DEF Mac!Interest
<1>4. CASE Mac!Looks
  <2>1. /\ pending' \in {pending, pending \ {INTERRUPTED}}
        /\ UNCHANGED <<lock, mask, waiting, owned, timed, state, pc, signaled, told>>
        /\ pc[Owner] \in {"idle", "held"}
    BY <1>4, <1>t, MacWords
    DEF Mac!Looks, Mac!IsInterrupted, Mac!IsCanceled, Mac!Awake, Mac!Running
  <2>2. MacInv'
    BY <1>t, <2>1 DEF MacInv, Mac!TypeOK, Mac!PortTypeOK, Signaling
  <2>3. Phase = "running" /\ Phase' = "running"
    BY <2>1 DEF Phase
  <2> QED
    BY <2>1, <2>2, <2>3, ClearMaps DEF Good
<1>5. ASSUME NEW t \in BOOLEAN, Mac!WaitSkip(t), UNCHANGED told PROVE Good
  <2>1. /\ Pending(pending, mask, ANYTHING)
        /\ state' = NextState(pending, mask) /\ pending' = AfterNext(pending, mask)
        /\ UNCHANGED <<lock, mask, waiting, pc, signaled, told>>
        /\ pc[Owner] = "held" /\ owned' = TRUE /\ timed' = t
    BY <1>5 DEF Mac!WaitSkip, Mac!WaitCall
  <2>2. MacInv'
    BY <1>t, <2>1, NextTypes DEF MacInv, Mac!TypeOK, Mac!PortTypeOK, Signaling
  <2>3. Phase = "running" /\ Phase' = "running"
    BY <2>1 DEF Phase
  <2> QED
    BY <1>t, <2>1, <2>2, <2>3, SkipMaps DEF Good
<1>6. ASSUME NEW t \in BOOLEAN, Mac!WaitSleep(t), UNCHANGED told PROVE Good
  <2>1. MacInv'
    BY <1>6, <1>t
    DEF Mac!WaitSleep, Mac!WaitCall, Mac!Goto, MacInv, Mac!TypeOK, Mac!PortTypeOK,
        Reportable, Signaling
  <2>2. Phase = "running" /\ Phase' = "waiting"
    BY <1>6, <1>t DEF Mac!WaitSleep, Mac!WaitCall, Mac!Goto, Phase
  <2> QED
    BY <1>6, <2>1, <2>2, BlockMaps DEF Mac!WaitSleep, Good
<1>7. CASE Mac!Expire /\ UNCHANGED told
  <2>1. MacInv'
    BY <1>7, <1>t
    DEF Mac!Expire, Mac!Goto, MacInv, Mac!TypeOK, Mac!PortTypeOK, Reportable, Signaling
  <2> QED
    BY <1>7, <1>t, <1>s, <2>1 DEF Mac!Expire, Mac!Goto, Phase
<1>8. CASE Mac!WaitWoken
  <2>1. /\ state' = NextState(pending, mask) /\ pending' = AfterNext(pending, mask)
        /\ UNCHANGED <<lock, mask, owned, timed>>
        /\ waiting' = FALSE /\ signaled' = FALSE /\ told' = FALSE
        /\ pc[Owner] = "asleep" /\ signaled
        /\ pc' = [pc EXCEPT ![Owner] = "relock"]
    BY <1>8 DEF Mac!WaitWoken, Mac!Report, Mac!Goto
  <2>2. MacInv'
    BY <1>t, <2>1, NextTypes DEF MacInv, Mac!TypeOK, Mac!PortTypeOK, Signaling
  <2>3. Phase = "waiting" /\ Phase' = "returning"
    BY <1>t, <2>1 DEF Phase
  <2> QED
    BY <1>t, <2>1, <2>2, <2>3, WakeMaps DEF MacInv, Reportable, Good
<1>9. CASE Mac!WaitLate
  <2>1. /\ state' = NextState(pending \cup {TIMEDOUT}, mask)
        /\ pending' = AfterNext(pending \cup {TIMEDOUT}, mask)
        /\ UNCHANGED <<lock, mask, owned, timed, signaled, told>>
        /\ waiting' = FALSE /\ pc[Owner] = "late"
        /\ pc' = [pc EXCEPT ![Owner] = IF told THEN "absorb" ELSE "relock"]
    BY <1>9, MacWords DEF Mac!WaitLate, Mac!Report, Mac!Goto
  <2>2. state' \in States /\ pending' \in SUBSET Flags
    <3>1. pending \cup {TIMEDOUT} \in SUBSET Flags
      BY <1>t DEF Flags
    <3> QED
      BY <1>t, <2>1, <3>1, NextTypes
  <2>3. MacInv'
    BY <1>t, <2>1, <2>2 DEF MacInv, Mac!TypeOK, Mac!PortTypeOK, Signaling
  <2>4. Phase = "waiting" /\ Phase' = "returning"
    BY <1>t, <2>1 DEF Phase
  <2> QED
    BY <1>t, <2>1, <2>3, <2>4, ExpireMaps DEF Good
<1>10. CASE Mac!WaitAbsorb
  <2>1. MacInv'
    BY <1>10, <1>t
    DEF Mac!WaitAbsorb, Mac!Goto, MacInv, Mac!TypeOK, Mac!PortTypeOK, Signaling
  <2> QED
    BY <1>10, <1>t, <1>s, <2>1 DEF Mac!WaitAbsorb, Mac!Goto, Phase
<1>11. CASE Mac!Relock /\ UNCHANGED told
  <2>1. MacInv'
    BY <1>11, <1>t
    DEF Mac!Relock, Mac!Goto, MacInv, Mac!TypeOK, Mac!PortTypeOK, Reportable, Signaling
  <2>2. Phase = "returning" /\ Phase' = "running"
    BY <1>11, <1>t DEF Mac!Relock, Mac!Goto, Phase
  <2> QED
    BY <1>11, <2>1, <2>2, ReturnMaps DEF Mac!Relock, Good
<1>12. ASSUME NEW t \in Threads, Mac!Signal(t) PROVE Good
  <2>1. /\ UNCHANGED <<lock, pending, mask, waiting, owned, timed, state, told>>
        /\ Signaling(t) /\ signaled' = TRUE
        /\ \E l \in {"held", "idle"} : pc' = [pc EXCEPT ![t] = l]
    BY <1>12, <1>t, MacUnmasked DEF Mac!Signal, Mac!Goto, Signaling
  <2>2. t # Owner /\ pc'[Owner] = pc[Owner]
    BY <1>t, <2>1 DEF MacInv, Signaling
  <2>3. MacInv'
    BY <1>t, <2>1, <2>2
    DEF MacInv, Mac!TypeOK, Mac!PortTypeOK, Reportable, Signaling
  <2> QED
    BY <1>s, <2>1, <2>2, <2>3 DEF Phase
<1> QED
  BY <1>1, <1>2, <1>3, <1>4, <1>5, <1>6, <1>7, <1>8, <1>9, <1>10, <1>11, <1>12
  DEF Mac!Next, Mac!Skips, Mac!WaitEnd

-----------------------------------------------------------------------------
(* The three ports together: from here on, what the specification does.    *)

LEMMA PortsInitInv == PortsInit => PortsInv
BY PortsAssumption, PosixInitInv, Win32InitInv, MacInitInv DEF PortsInit, PortsInv

LEMMA PortsStutter ==
  ASSUME PortsInv, UNCHANGED allVars
  PROVE  PortsInv' /\ UNCHANGED Sticky!vars
<1>1. UNCHANGED <<lock, waitLock, pending, mask, waiting, owned, cond, timed, state,
                  pc, op, port, signaled, told>>
  BY DEF allVars, vars, sleeper
<1> QED
  BY <1>1
  DEF PortsInv, PosixInv, Win32Inv, MacInv, TypeOK, Win32!TypeOK, Win32!PortTypeOK,
      Mac!TypeOK, Mac!PortTypeOK, Reportable, Signaling, Sticky!vars, Phase

LEMMA PortsStep ==
  ASSUME "macos" \notin Deferring, PortsInv, PortsNext
  PROVE  PortsInv' /\ [Sticky!Next]_(Sticky!vars)
<1>1. CASE OfPosix(Next)
  <2>1. PosixInv' /\ [Sticky!Next]_(Sticky!vars)
    BY <1>1, PosixStep, PosixMaps DEF OfPosix, PortsInv
  <2> QED
    BY <1>1, <2>1 DEF OfPosix, PortsInv
<1>2. CASE OfWin32(Win32!Next)
  <2>1. Win32Inv' /\ [Sticky!Next]_(Sticky!vars)
    BY <1>2, Win32Step DEF OfWin32, PortsInv
  <2> QED
    BY <1>2, <2>1 DEF OfWin32, PortsInv
<1>3. CASE OfMac(Mac!Next)
  <2>1. MacInv' /\ [Sticky!Next]_(Sticky!vars)
    BY <1>3, MacStep DEF OfMac, PortsInv, PortsNext
  <2> QED
    BY <1>3, <2>1 DEF OfMac, PortsInv
<1> QED
  BY <1>1, <1>2, <1>3 DEF PortsNext

\* The invariant holds of each port, for any number of peers, whenever the owner
\* of a macOS Monitor does not defer interruptions.
THEOREM PortsKept ==
  ASSUME "macos" \notin Deferring
  PROVE  PortsSpec => []PortsInv
<1>1. PortsInv /\ [PortsNext]_allVars => PortsInv'
  BY PortsStep, PortsStutter
<1> QED
  BY <1>1, PortsInitInv, PTL DEF PortsSpec

\* The variables of the chosen Monitor keep their types.
THEOREM PortsTypes ==
  ASSUME "macos" \notin Deferring
  PROVE  PortsSpec => []PortsTypeOK
<1>1. PortsInv => PortsTypeOK
  BY DEF PortsInv, PortsTypeOK, PosixInv, Win32Inv, MacInv
<1> QED
  BY <1>1, PortsKept, PTL

\* notify(), interrupt() and cancel() wake the thread that sleeps: nobody is asleep
\* with no signal on its way while there is a state to report (Monitor::notify(),
\* Monitor::interrupt() and Monitor::cancel() of each port).
THEOREM WakeupsKept ==
  ASSUME "macos" \notin Deferring
  PROVE  PortsSpec => []NotifyReleases
<1>1. PortsInv => NotifyReleases
  <2> SUFFICES ASSUME PortsInv, Unsignaled PROVE ~Reportable
    BY DEF NotifyReleases, Reportable
  <2>1. CASE port = "posix"
    BY <2>1 DEF PortsInv, PosixInv, Unsignaled
  <2>2. CASE port = "win32"
    BY <2>2 DEF PortsInv, Win32Inv, Unsignaled
  <2>3. CASE port = "macos"
    BY <2>3 DEF PortsInv, MacInv, Unsignaled, Signaling
  <2> QED
    BY <2>1, <2>2, <2>3 DEF PortsInv
<1> QED
  BY <1>1, PortsKept, PTL

\* Every step of a Monitor is one of the sticky Monitor or changes nothing that can
\* be seen of it: the safety half of ImplementsSticky.
THEOREM StickySteps ==
  ASSUME "macos" \notin Deferring
  PROVE  PortsSpec => Sticky!Init /\ [][Sticky!Next]_(Sticky!vars)
<1>1. PortsInit => Sticky!Init
  BY MonitorAssumption, SameSticky
  DEF PortsInit, Init, Sticky!Init, Phase, Threads
<1>2. PortsInv /\ [PortsNext]_allVars => [Sticky!Next]_(Sticky!vars)
  BY PortsStep, PortsStutter
<1> QED
  BY <1>1, <1>2, PortsKept, PTL DEF PortsSpec

-----------------------------------------------------------------------------
(* What single steps may do.                                               *)

\* next() takes away what it reports, or a timeout.
LEMMA NextTakes ==
  ASSUME NEW p \in SUBSET Flags, NEW m \in Masks
  PROVE  /\ INTERRUPTED \in p \ AfterNext(p, m) => NextState(p, m) = INTERRUPTED
         /\ SIGNALED \in p \ AfterNext(p, m) => NextState(p, m) = SIGNALED
<1>1. CASE Pending(p, m, ANYTHING)
  <2>1. AfterNext(p, m) = (p \ {NextState(p, m)}) \
                            (IF NextState(p, m) = SIGNALED THEN {TIMEDOUT} ELSE {})
    BY <1>1, NextReports
  <2> QED
    BY <2>1 DEF SIGNALED, INTERRUPTED, TIMEDOUT
<1>2. CASE ~Pending(p, m, ANYTHING)
  BY <1>2, NextReportsNothing
<1> QED
  BY <1>1, <1>2

\* A step that reports does so by next(), of the word with or without a TIMEDOUT.
LEMMA ReportsNext ==
  ASSUME PortsInv, PortsNext, Reports
  PROVE  /\ pending \in SUBSET Flags /\ mask \in Masks
         /\ \E p \in {pending, pending \cup {TIMEDOUT}} :
              /\ state' = NextState(p, mask) /\ pending' = AfterNext(p, mask)
              /\ cond # "spurious" => Pending(p, mask, ANYTHING)
<1> USE SamePort, SameMac DEF Reportable
<1>t. ANYTHING \in Masks /\ Pending(pending \cup {TIMEDOUT}, ANYTHING, ANYTHING)
  BY DEF Masks, Pending, ANYTHING, Flags, SIGNALED, INTERRUPTED, TIMEDOUT, CANCELED
<1>1. CASE port = "posix"
  <2>1. PosixInv /\ (WaitSkip \/ WaitNext)
    BY <1>1 DEF PortsInv, Reports
  <2>2. cond = "timedout" /\ pc[Owner] = "w_next" => mask = ANYTHING
    BY <2>1 DEF PosixInv, Waiting
  <2>3. CASE WaitSkip
    BY <2>1, <2>3 DEF WaitSkip, PosixInv, TypeOK
  <2>4. CASE WaitNext
    BY <1>t, <2>1, <2>2, <2>4 DEF WaitNext, Woken, PosixInv, TypeOK
  <2> QED
    BY <2>1, <2>3, <2>4
<1>2. CASE port = "win32"
  <2>1. Win32Inv /\ (Win32!Skips \/ Win32!WaitEnd)
    BY <1>2 DEF PortsInv, Reports
  <2> QED
    BY <1>t, <2>1, Win32Words
    DEF Win32!Skips, Win32!WaitSkip, Win32!WaitEnd, Win32!Report, Win32Inv,
        Win32!TypeOK, Win32!PortTypeOK
<1>3. CASE port = "macos"
  <2>1. MacInv /\ (Mac!Skips \/ Mac!WaitWoken \/ Mac!WaitLate)
    BY <1>3 DEF PortsInv, Reports
  <2> QED
    BY <1>t, <2>1, MacWords
    DEF Mac!Skips, Mac!WaitSkip, Mac!WaitWoken, Mac!WaitLate, Mac!Report, MacInv,
        Mac!TypeOK, Mac!PortTypeOK
<1> QED
  BY <1>1, <1>2, <1>3 DEF PortsInv

\* wait() reports a state that its owner is interested in, and so no interruption it
\* has deferred (Status::next(), Status.h:170), unless a posix sleep ended for no
\* reason.
THEOREM ReportsWanted ==
  ASSUME "macos" \notin Deferring
  PROVE  PortsSpec => WaitReports
<1> DEFINE Wanted == Reports /\ cond # "spurious" => state' \in mask
<1>1. ASSUME PortsInv, PortsNext PROVE Wanted
  <2> SUFFICES ASSUME Reports, cond # "spurious" PROVE state' \in mask
    OBVIOUS
  <2>1. PICK p \in {pending, pending \cup {TIMEDOUT}} :
          state' = NextState(p, mask) /\ Pending(p, mask, ANYTHING)
    BY <1>1, ReportsNext
  <2>2. p \in SUBSET Flags /\ mask \in Masks
    BY <1>1, ReportsNext DEF Flags
  <2> QED
    BY <2>1, <2>2, NextReports
<1>2. PortsInv /\ [PortsNext]_allVars
        => [Reports /\ cond # "spurious" => state' \in mask]_allVars
  BY <1>1
<1> QED
  BY <1>2, PortsKept, PTL DEF PortsSpec, WaitReports

\* No interruption and no signal disappears but by being told to the owner.
THEOREM NothingDropped ==
  ASSUME "macos" \notin Deferring
  PROVE  PortsSpec => NothingLost
<1>1. ASSUME PortsInv, PortsNext, Reports
      PROVE  /\ INTERRUPTED \in pending \ pending' => state' = INTERRUPTED
             /\ SIGNALED \in pending \ pending' => state' = SIGNALED
  <2>1. PICK p \in {pending, pending \cup {TIMEDOUT}} :
          state' = NextState(p, mask) /\ pending' = AfterNext(p, mask)
    BY <1>1, ReportsNext
  <2>2. p \in SUBSET Flags /\ mask \in Masks /\ pending \subseteq p
    BY <1>1, ReportsNext DEF Flags
  <2> QED
    BY <2>1, <2>2, NextTakes
<1>2. ASSUME PortsInv, PortsNext, ~Reports
      PROVE  /\ INTERRUPTED \in pending \ pending' => Looks
             /\ SIGNALED \notin pending \ pending'
  <2>t. owned \in BOOLEAN
    BY <1>2
    DEF PortsInv, PosixInv, Win32Inv, MacInv, TypeOK, Win32!TypeOK, Win32!PortTypeOK,
        Mac!TypeOK, Mac!PortTypeOK
  <2>n. INTERRUPTED # SIGNALED
    BY DEF INTERRUPTED, SIGNALED
  <2>s. \A p, m : /\ p \subseteq AfterNotify(p, m) /\ p \subseteq AfterInterrupt(p, m)
                  /\ p \subseteq AfterCancel(p, m)
    BY DEF AfterNotify, AfterInterrupt, AfterCancel
  <2>1. CASE OfPosix(Next)
    <3>1. PosixInv /\ Next /\ ~WaitSkip /\ ~WaitNext
      BY <1>2, <2>1 DEF OfPosix, PortsInv, Reports
    <3>2. ASSUME NEW t \in Threads, Body(t), pending \ pending' # {}
          PROVE  Body(Owner) /\ op[Owner] \in {"isInterrupted", "isCanceled"}
      <4>1. op[t] \in {"isInterrupted", "isCanceled"}
        BY <2>s, <3>2 DEF Body
      <4> QED
        BY <3>1, <3>2, <4>1 DEF PosixInv, PeerOps, Threads
    <3>3. ASSUME NEW t \in Threads, Body(t) PROVE SIGNALED \notin pending \ pending'
      BY <2>n, <2>s, <3>3 DEF Body, AfterIsInterrupted, AfterIsCanceled
    <3>4. CASE \E t \in Threads : Body(t)
      BY <2>1, <3>2, <3>3, <3>4 DEF OfPosix, Looks
    <3>5. CASE ~\E t \in Threads : Body(t)
      BY <3>1, <3>5
      DEF Next, Wait, Acquire, Release, Call, Enter, Leave, Interest, WaitCall,
          WaitEnter, WaitSkipUnlock, WaitRelease, WaitBlock, WaitResume, WaitUnlock,
          WaitRelock, CondTimeout, CondSpurious, status
    <3> QED
      BY <3>4, <3>5
  <2>2. CASE OfWin32(Win32!Next)
    <3>1. Win32!Next /\ ~Win32!Skips /\ ~Win32!WaitEnd
      BY <1>2, <2>2 DEF OfWin32, PortsInv, Reports
    <3>2. CASE Win32!Looks
      <4>1. pending' \in {pending, pending \ {INTERRUPTED}}
        BY <3>2, Win32Words, <2>t DEF Win32!Looks, Win32!IsInterrupted, Win32!IsCanceled
      <4> QED
        BY <2>2, <2>n, <3>2, <4>1 DEF OfWin32, Looks
    <3>3. CASE ~Win32!Looks
      <4>1. pending \subseteq pending'
        BY <2>s, <3>1, <3>3, Win32Words
        DEF Win32!Next, Win32!Acquire, Win32!Release, Win32!Notify, Win32!Interrupt,
            Win32!Cancel, Win32!Interest, Win32!WaitSleep, Win32!Expire, Win32!Relock
      <4> QED
        BY <4>1
    <3> QED
      BY <3>2, <3>3
  <2>3. CASE OfMac(Mac!Next)
    <3>1. Mac!Next /\ ~Mac!Skips /\ ~Mac!WaitWoken /\ ~Mac!WaitLate
      BY <1>2, <2>3 DEF OfMac, PortsInv, Reports
    <3>2. CASE Mac!Looks
      <4>1. pending' \in {pending, pending \ {INTERRUPTED}}
        BY <3>2, MacWords, <2>t DEF Mac!Looks, Mac!IsInterrupted, Mac!IsCanceled
      <4> QED
        BY <2>3, <2>n, <3>2, <4>1 DEF OfMac, Looks
    <3>3. CASE ~Mac!Looks
      <4>1. pending \subseteq pending'
        BY <2>s, <3>1, <3>3, MacWords
        DEF Mac!Next, Mac!Acquire, Mac!Release, Mac!Notify, Mac!Interrupt, Mac!Cancel,
            Mac!Interest, Mac!WaitSleep, Mac!Expire, Mac!Relock, Mac!Signal,
            Mac!WaitEnd, Mac!WaitAbsorb
      <4> QED
        BY <4>1
    <3> QED
      BY <3>2, <3>3
  <2> QED
    BY <1>2, <2>1, <2>2, <2>3 DEF PortsNext
<1>3. PortsInv /\ [PortsNext]_allVars
        => [/\ INTERRUPTED \in pending \ pending' =>
                 Looks \/ (Reports /\ state' = INTERRUPTED)
            /\ SIGNALED \in pending \ pending' => Reports /\ state' = SIGNALED]_allVars
  BY <1>1, <1>2
<1> QED
  BY <1>3, PortsKept, PTL DEF PortsSpec, NothingLost

=============================================================================
