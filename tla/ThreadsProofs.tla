---------------------------- MODULE ThreadsProofs ----------------------------
(***************************************************************************)
(* For any number of threads, whoever creates them: the references to a    *)
(* thread are counted exactly, a join() that no signal left over from an   *)
(* earlier one ends means that the task is over, and the program does not  *)
(* end before the tasks have.                                              *)
(***************************************************************************)
EXTENDS Threads, FiniteSetTheorems, WellFoundedInduction, SequenceTheorems, TLAPS

Labels == {"unborn", "born", "task", "d_lock"} \cup Starting \cup Joining
            \cup Ending \cup Leaving

\* Where a thread is on no list of user threads: not yet, or no longer.
Out == {"unborn", "d_push", "d_drop", "gone"}

AllOut == \A i \in Impls : pc[i] \in Out

Distinct(q) == \A i, j \in DOMAIN q : q[i] = q[j] => i = j

Types ==
  /\ userThreads \subseteq Impls /\ pendingThreads \in Seq(Impls) /\ handles \subseteq Impls
  /\ lifecycle \in [Threads -> {"REFERENCE", "IDLE", "STARTING", "RUNNING", "JOINED"}]
  /\ count \in [Threads -> Int]
  /\ mlock \in [Threads -> Threads \cup {None}]
  /\ pending \in [Threads -> SUBSET Flags]
  /\ target \in [Threads -> Threads]
  /\ cursor \in [Threads -> Nat]
  /\ pc \in [Threads -> Labels]
  /\ pc[Main] \in {"task"} \cup Starting \cup Joining \cup Leaving
  /\ \A i \in Impls : pc[i] \notin Leaving

\* Threads are created one after the other; a thread that creates or joins another
\* is the older one.
Order ==
  /\ \A i, j \in Impls : i < j /\ pc[i] = "unborn" => pc[j] = "unborn"
  /\ \A t \in Threads : pc[t] \in Starting \cup Joining =>
       target[t] \in Impls /\ t < target[t] /\ pc[target[t]] # "unborn"
  /\ \A i \in handles : pc[i] # "unborn"

\* Who creates a thread is the only one that does, has the lock of its Monitor until
\* it is inserted, and has not got a Thread object for it yet.
Creating ==
  \A t \in Threads : pc[t] \in Starting =>
    /\ \A u \in Threads : pc[u] \in Starting /\ target[u] = target[t] => u = t
    /\ target[t] \notin handles
    /\ pc[t] # "s_handle" => mlock[target[t]] = t /\ pc[target[t]] \notin Ending

\* The lock of its own Monitor; that of Main nobody else takes.
OwnLocked ==
  /\ mlock[Main] \in {None, Main}
  /\ \A t \in Threads :
       pc[t] \in {"j_wait", "j_back", "d_easy", "d_rest"} => mlock[t] = t

\* The list of threads to be reclaimed.
PendingsExact ==
  /\ Distinct(pendingThreads)
  /\ \A i \in ToSet(pendingThreads) : pc[i] \in {"d_drop", "gone"}
  /\ \A i \in Impls : pc[i] = "d_drop" => i \in ToSet(pendingThreads)

ReferencesInv ==
  Types /\ Order /\ Creating /\ OwnLocked /\ PendingsExact /\ ReferencesExact

\* Who is not on the list of user threads is being inserted.
UsersExact ==
  \A i \in Impls : pc[i] \notin Out =>
    \/ i \in userThreads
    \/ \E t \in Threads : pc[t] = "s_insert" /\ target[t] = i

StatesExact ==
  /\ \A i \in Impls : lifecycle[i] = "JOINED" <=> pc[i] \in Ending
  /\ waiter = "main" <=> pc[Main] \in Leaving

JoinersExact ==
  /\ joiners \in [Threads -> Seq(Threads)]
  /\ \A i \in Threads :
       /\ Distinct(joiners[i])
       /\ \A u \in ToSet(joiners[i]) :
            target[u] = i /\ pc[u] \in Joining \ {"j_enter"}

\* What a signal means to a thread that has not been excused: the thread that it joins
\* is over or, to Main that leaves, all are.
Back == {"j_woken", "j_back"}

Meant(t) ==
  /\ pc[t] \in Joining /\ (SIGNALED \in pending[t] \/ pc[t] \in Back)
       => pc[target[t]] \in Ending
  /\ t = Main /\ pc[Main] \in Leaving /\ SIGNALED \in pending[Main] => AllOut

SignalsMean == \A t \in Threads \ excused : Meant(t)

\* What Main has found when it is past its wait.
EndFound ==
  /\ pc[Main] \in Leaving /\ ~found.waiting => AllOut
  /\ pc[Main] \in Leaving \ {"x_tasks"} => found.tasks \subseteq ran
  /\ Main \notin excused /\ pc[Main] = "x_woken" => AllOut
  /\ Main \notin excused /\ pc[Main] \in {"x_poll", "x_done"} /\ found.required => AllOut

ThreadsInv ==
  /\ ReferencesInv /\ UsersExact /\ StatesExact /\ JoinersExact
  /\ SignalsMean /\ EndFound

-----------------------------------------------------------------------------
(* Lists of threads. *)

\* A list without the thread at place k has the others, each once.
LEMMA RemoveAtList ==
  ASSUME NEW S, NEW q \in Seq(S), NEW k \in 1 .. Len(q), Distinct(q)
  PROVE  /\ RemoveAt(q, k) \in Seq(S)
         /\ ToSet(RemoveAt(q, k)) = ToSet(q) \ {q[k]}
         /\ Distinct(RemoveAt(q, k))
<1> DEFINE r == RemoveAt(q, k)
           t == q[k]
<1>1. Len(q) \in Nat /\ DOMAIN q = 1 .. Len(q)
  OBVIOUS
<1>2. k \in 1 .. Len(q) /\ q[k] = t
  OBVIOUS
<1>5. r = RemoveAt(q, k)
  OBVIOUS
<1> HIDE DEF r, t
<1>6. /\ r \in Seq(S) /\ Len(r) = Len(q) - 1
      /\ \A i \in 1 .. Len(q) - 1 : r[i] = IF i < k THEN q[i] ELSE q[i + 1]
  <2> DEFINE front == SubSeq(q, 1, k - 1)
             back  == SubSeq(q, k + 1, Len(q))
  <2>1. /\ front \in Seq(S) /\ Len(front) = k - 1
        /\ \A i \in 1 .. k - 1 : front[i] = q[i]
    BY <1>1, <1>2
  <2>2. /\ back \in Seq(S) /\ Len(back) = Len(q) - k
        /\ \A i \in 1 .. Len(q) - k : back[i] = q[k + i]
    OBVIOUS
  <2>3. r = front \o back
    BY <1>5 DEF RemoveAt
  <2> HIDE DEF front, back
  <2>4. /\ r \in Seq(S) /\ Len(r) = Len(q) - 1
        /\ \A i \in 1 .. Len(q) - 1 :
             r[i] = IF i <= k - 1 THEN front[i] ELSE back[i - (k - 1)]
    <3>1. /\ front \o back \in Seq(S)
          /\ Len(front \o back) = Len(front) + Len(back)
          /\ \A i \in 1 .. Len(front) + Len(back) :
               (front \o back)[i] =
                 IF i <= Len(front) THEN front[i] ELSE back[i - Len(front)]
      BY <2>1, <2>2, ConcatProperties, Zenon
    <3> QED BY <1>1, <1>2, <2>1, <2>2, <2>3, <3>1
  <2> QED BY <1>1, <1>2, <2>1, <2>2, <2>4
<1>7. DOMAIN r = 1 .. Len(q) - 1
  BY <1>1, <1>6
<1>8. \A m, n \in 1 .. Len(q) : q[m] = q[n] => m = n
  BY <1>1 DEF Distinct
<1>9. ToSet(r) = ToSet(q) \ {t}
  <2>1. ASSUME NEW x \in ToSet(r) PROVE x \in ToSet(q) \ {t}
    <3>1. PICK i \in 1 .. Len(q) - 1 : x = r[i]
      BY <1>7, <2>1 DEF ToSet
    <3>2. \E m \in 1 .. Len(q) : m # k /\ x = q[m]
      BY <1>1, <1>2, <1>6, <3>1
    <3> QED BY <1>1, <1>2, <1>8, <3>2 DEF ToSet
  <2>2. ASSUME NEW x \in ToSet(q) \ {t} PROVE x \in ToSet(r)
    <3>1. PICK m \in 1 .. Len(q) : x = q[m] /\ m # k
      BY <1>1, <1>2, <2>2 DEF ToSet
    <3>2. \E i \in 1 .. Len(q) - 1 : x = r[i]
      <4>1. CASE m < k
        BY <1>1, <1>2, <1>6, <3>1, <4>1
      <4>2. CASE m > k
        <5>1. m - 1 \in 1 .. Len(q) - 1 /\ r[m - 1] = q[m]
          BY <1>1, <1>2, <1>6, <3>1, <4>2
        <5> QED BY <3>1, <5>1
      <4> QED BY <1>1, <1>2, <3>1, <4>1, <4>2
    <3> QED BY <1>7, <3>2 DEF ToSet
  <2> QED BY <2>1, <2>2
<1>10. Distinct(r)
  <2>1. SUFFICES ASSUME NEW i \in 1 .. Len(q) - 1, NEW j \in 1 .. Len(q) - 1,
                        r[i] = r[j]
                 PROVE  i = j
    BY <1>7 DEF Distinct
  <2>2. \A m \in 1 .. Len(q) - 1 :
          LET n == IF m < k THEN m ELSE m + 1 IN n \in 1 .. Len(q) /\ r[m] = q[n]
    BY <1>1, <1>2, <1>6
  <2>3. (IF i < k THEN i ELSE i + 1) = (IF j < k THEN j ELSE j + 1)
    BY <1>8, <2>1, <2>2
  <2> QED
    BY <1>1, <1>2, <2>1, <2>3
<1> QED
  BY <1>2, <1>6, <1>9, <1>10 DEF r

\* So does one without a thread that was listed once.
LEMMA RemoveFirstList ==
  ASSUME NEW S, NEW q \in Seq(S), NEW t \in ToSet(q), Distinct(q)
  PROVE  /\ RemoveFirst(q, t) \in Seq(S)
         /\ ToSet(RemoveFirst(q, t)) = ToSet(q) \ {t}
         /\ Distinct(RemoveFirst(q, t))
<1>1. Len(q) \in Nat /\ DOMAIN q = 1 .. Len(q)
  OBVIOUS
<1>2. PICK k \in 1 .. Len(q) : q[k] = t
  BY <1>1 DEF ToSet
<1>3. {i \in 1 .. Len(q) : q[i] = t} = {k}
  BY <1>1, <1>2 DEF Distinct
<1>4. SelectInSeq(q, LAMBDA v : v = t) = k
  BY <1>2, <1>3 DEF SelectInSeq, Min
<1>5. RemoveFirst(q, t) = RemoveAt(q, k)
  BY <1>2, <1>4 DEF RemoveFirst
<1> QED
  BY <1>2, <1>5, RemoveAtList

\* A list without its head.
LEMMA TailList ==
  ASSUME NEW S, NEW q \in Seq(S), q # <<>>, Distinct(q)
  PROVE  /\ Head(q) \in S /\ Head(q) \in ToSet(q)
         /\ Tail(q) \in Seq(S)
         /\ ToSet(Tail(q)) = ToSet(q) \ {Head(q)}
         /\ Distinct(Tail(q))
<1>1. Len(q) \in Nat /\ 1 \in 1 .. Len(q) /\ Head(q) = q[1] /\ DOMAIN q = 1 .. Len(q)
  BY EmptySeq
<1>2. SubSeq(q, 1, 0) = <<>> /\ Tail(q) = SubSeq(q, 2, Len(q)) /\ Tail(q) \in Seq(S)
  BY TailIsSubSeq, HeadTailProperties, SubSeqEmpty
<1>3. RemoveAt(q, 1) = <<>> \o Tail(q)
  BY <1>2 DEF RemoveAt
<1>4. RemoveAt(q, 1) = Tail(q)
  BY <1>2, <1>3, ConcatEmptySeq
<1>5. /\ RemoveAt(q, 1) \in Seq(S)
      /\ ToSet(RemoveAt(q, 1)) = ToSet(q) \ {q[1]}
      /\ Distinct(RemoveAt(q, 1))
  BY <1>1, RemoveAtList
<1>6. q[1] \in S /\ q[1] \in ToSet(q)
  BY <1>1 DEF ToSet
<1> QED BY <1>1, <1>4, <1>5, <1>6

\* push_back() lists the newcomer behind the others.
LEMMA AppendList ==
  ASSUME NEW S, NEW q \in Seq(S), NEW t \in S
  PROVE  /\ Append(q, t) \in Seq(S)
         /\ ToSet(Append(q, t)) = ToSet(q) \cup {t}
         /\ t \notin ToSet(q) /\ Distinct(q) => Distinct(Append(q, t))
<1> DEFINE r == Append(q, t)
<1>1. /\ r \in Seq(S) /\ Len(q) \in Nat
      /\ DOMAIN q = 1 .. Len(q) /\ DOMAIN r = 1 .. Len(q) + 1
      /\ r[Len(q) + 1] = t /\ \A i \in 1 .. Len(q) : r[i] = q[i]
  OBVIOUS
<1> HIDE DEF r
<1>2. ToSet(r) = ToSet(q) \cup {t}
  <2>1. ASSUME NEW x \in ToSet(r) PROVE x \in ToSet(q) \cup {t}
    <3>1. PICK i \in 1 .. Len(q) + 1 : x = r[i]
      BY <1>1, <2>1 DEF ToSet
    <3>2. i \in 1 .. Len(q) \/ i = Len(q) + 1
      BY <1>1
    <3> QED BY <1>1, <3>1, <3>2 DEF ToSet
  <2>2. ASSUME NEW x \in ToSet(q) PROVE x \in ToSet(r)
    <3>1. PICK i \in 1 .. Len(q) : x = q[i]
      BY <1>1, <2>2 DEF ToSet
    <3>2. i \in DOMAIN r /\ r[i] = x
      BY <1>1, <3>1
    <3> QED BY <3>2 DEF ToSet
  <2>3. t \in ToSet(r)
    <3>1. Len(q) + 1 \in DOMAIN r
      BY <1>1
    <3> QED BY <1>1, <3>1 DEF ToSet
  <2> QED BY <2>1, <2>2, <2>3
<1>3. t \notin ToSet(q) /\ Distinct(q) => Distinct(r)
  <2>1. SUFFICES ASSUME t \notin ToSet(q), Distinct(q),
                        NEW i \in 1 .. Len(q) + 1, NEW j \in 1 .. Len(q) + 1,
                        r[i] = r[j]
                 PROVE  i = j
    BY <1>1 DEF Distinct
  <2>2. \A m \in 1 .. Len(q) : q[m] # t
    BY <1>1, <2>1 DEF ToSet
  <2>3. \A m, n \in 1 .. Len(q) : q[m] = q[n] => m = n
    BY <1>1, <2>1 DEF Distinct
  <2> QED
    BY <1>1, <2>1, <2>2, <2>3
<1> QED
  BY <1>1, <1>2, <1>3 DEF r

-----------------------------------------------------------------------------
(* Types. *)

LEMMA Numbers ==
  /\ Main \in Threads /\ Main \notin Impls /\ Threads = {Main} \cup Impls
  /\ \A t \in Threads : t \in Nat /\ t \in Int /\ (t \in Impls <=> t > Main)
  /\ Creators \subseteq Threads /\ AutoCancel \subseteq Impls /\ None \notin Threads
BY ThreadQueueAssumption, ThreadImplAssumption DEF Main, Impls, Threads

LEMMA Words ==
  ASSUME NEW p \in SUBSET Flags, NEW m
  PROVE  /\ AfterNext(p, m) \subseteq Flags /\ AfterNotify(p, m) \subseteq Flags
         /\ AfterInterrupt(p, m) \subseteq Flags /\ AfterCancel(p, m) \subseteq Flags
BY DEF AfterNext, AfterNotify, AfterInterrupt, AfterCancel, Flags,
       SIGNALED, INTERRUPTED, TIMEDOUT, CANCELED

LEMMA NotifiedType ==
  ASSUME Types, NEW u
  PROVE  Notified(u) \in [Threads -> SUBSET Flags]
<1>1. \A x \in Threads : AfterNotify(pending[x], Mask(u)) \in SUBSET Flags
  BY Words DEF Types
<1> QED
  BY <1>1, Zenon DEF Notified, Types

\* The steps of a thread that leave the references alone.
Moving(t) ==
  \/ JoinAtOnce(t) \/ JoinEnlist(t) \/ OwnLock(t)
  \/ WaitSkip(t) \/ WaitSleep(t) \/ WaitWake(t) \/ WaitExpire(t) \/ JoinReturn(t)
  \/ SetRunning(t) \/ TaskEnds(t) \/ SetJoined(t)
  \/ NotifyEasy(t) \/ EasyDone(t) \/ NotifyRest(t) \/ RestDone(t)
  \/ LeaveUsers(t) \/ Interrupt(t)

Unloading(t) ==
  t = Main /\ (UnloadBegin \/ UnloadTasks \/ UnloadSkip \/ UnloadSleep \/ UnloadDone)

LEMMA TypesStart == Init => Types
<1> SUFFICES ASSUME Init PROVE Types
  OBVIOUS
<1>1. Main \in Threads /\ Main \notin Impls
  BY Numbers
<1>2. pc[Main] = "task" /\ \A t \in Threads \ {Main} : pc[t] = "unborn"
  BY <1>1 DEF Init, ImplInit
<1>3. pc \in [Threads -> Labels]
  BY DEF Init, ImplInit, Labels
<1>4. \A i \in Impls : pc[i] \notin Leaving
  BY <1>1, <1>2, Numbers DEF Leaving
<1>5. pendingThreads \in Seq(Impls)
  BY EmptySeq DEF Init, QueueInit
<1>6. pending \in [Threads -> SUBSET Flags]
  BY DEF Init, ImplInit
<1> QED
  BY <1>2, <1>3, <1>4, <1>5, <1>6, SMTT(30) DEF Init, QueueInit, ImplInit, Types

LEMMA TypesMoving ==
  ASSUME Types, NEW t \in Threads, Moving(t), UNCHANGED <<handles, ran, found>>
  PROVE  Types'
<1> USE Numbers
<1> DEFINE Goal == Types'
<1>1. ASSUME JoinAtOnce(t) PROVE Goal
  BY <1>1 DEF JoinAtOnce, Return, Goto, queueVars, Types, Labels, Starting, Joining, Ending, Leaving
<1>2. ASSUME JoinEnlist(t) PROVE Goal
  BY <1>2 DEF JoinEnlist, Goto, queueVars, Types, Labels, Starting, Joining, Ending, Leaving
<1>3. ASSUME OwnLock(t) PROVE Goal
  <2>1. PICK label \in {"j_wait", "j_back", "x_wait", "x_poll"} :
          /\ pc' = [pc EXCEPT ![t] = label]
          /\ label \in {"x_wait", "x_poll"} => t = Main
    BY <1>3 DEF OwnLock, Goto, Types, Leaving, Starting, Joining
  <2>2. pc' \in [Threads -> Labels]
    BY <2>1 DEF Types, Labels, Joining, Leaving
  <2> QED
    BY <1>3, <2>1, <2>2 DEF OwnLock, Lock, queueVars, Types, Joining, Leaving
<1>4. ASSUME WaitSkip(t) PROVE Goal
  <2>1. pending' \in [Threads -> SUBSET Flags]
    BY <1>4, Words DEF WaitSkip, Report, Types
  <2> QED
    BY <1>4, <2>1 DEF WaitSkip, Report, Goto, queueVars, Types, Labels, Starting, Joining, Ending, Leaving
<1>5. ASSUME WaitSleep(t) PROVE Goal
  BY <1>5 DEF WaitSleep, Goto, Unlock, queueVars, Types, Labels, Starting, Joining, Ending, Leaving
<1>6. ASSUME WaitWake(t) PROVE Goal
  <2>1. PICK label \in {"j_woken", "x_woken"} :
          Report(t, pending[t], label) /\ (label = "x_woken" => t = Main)
    BY <1>6 DEF WaitWake, Types, Leaving
  <2>2. pending' \in [Threads -> SUBSET Flags]
    BY <2>1, Words DEF Report, Types
  <2>3. pc' \in [Threads -> Labels]
    BY <2>1 DEF Report, Goto, Types, Labels, Joining, Leaving
  <2> QED
    BY <1>6, <2>1, <2>2, <2>3
    DEF WaitWake, Report, Goto, queueVars, Types, Joining, Leaving
<1>7. ASSUME WaitExpire(t) PROVE Goal
  <2>1. pending' \in [Threads -> SUBSET Flags]
    <3>1. pending[t] \cup {TIMEDOUT} \in SUBSET Flags
      BY DEF TIMEDOUT, Flags, Types
    <3> QED
      BY <1>7, <3>1, Words DEF WaitExpire, Report, Types
  <2> QED
    BY <1>7, <2>1 DEF WaitExpire, Report, Goto, queueVars, Types, Labels, Starting, Joining, Ending, Leaving
<1>8. ASSUME JoinReturn(t) PROVE Goal
  BY <1>8 DEF JoinReturn, Return, Goto, Unlock, queueVars, Types, Labels, Starting, Joining, Ending, Leaving
<1>9. ASSUME SetRunning(t) PROVE Goal
  BY <1>9 DEF SetRunning, Goto, queueVars, Types, Labels, Starting, Joining, Ending, Leaving
<1>10. ASSUME TaskEnds(t) PROVE Goal
  BY <1>10 DEF TaskEnds, Goto, queueVars, Types, Labels, Starting, Joining, Ending, Leaving
<1>11. ASSUME SetJoined(t) PROVE Goal
  BY <1>11 DEF SetJoined, Goto, Lock, queueVars, Types, Labels, Starting, Joining, Ending, Leaving
<1>12. ASSUME NotifyEasy(t) PROVE Goal
  <2>1. pending' \in [Threads -> SUBSET Flags]
    <3>1. PICK u : pending' = Notified(u) \/ pending' = pending
      BY <1>12 DEF NotifyEasy
    <3> QED
      BY <3>1, NotifiedType DEF Types
  <2>2. cursor' \in [Threads -> Nat]
    BY <1>12 DEF NotifyEasy, Types
  <2>3. /\ UNCHANGED <<lifecycle, count, mlock, target, pc, handles>>
        /\ UNCHANGED <<userThreads, pendingThreads>>
    BY <1>12 DEF NotifyEasy, queueVars
  <2> QED
    BY <2>1, <2>2, <2>3 DEF Types
<1>13. ASSUME EasyDone(t) PROVE Goal
  BY <1>13 DEF EasyDone, Goto, queueVars, Types, Labels, Starting, Joining, Ending, Leaving
<1>14. ASSUME NotifyRest(t) PROVE Goal
  <2>1. pending' \in [Threads -> SUBSET Flags]
    BY <1>14, NotifiedType DEF NotifyRest
  <2> QED
    BY <1>14, <2>1 DEF NotifyRest, Notified, queueVars, Types, Labels, Starting, Joining, Ending, Leaving
<1>15. ASSUME RestDone(t) PROVE Goal
  BY <1>15 DEF RestDone, Goto, Unlock, queueVars, Types, Labels, Starting, Joining, Ending, Leaving
<1>16. ASSUME LeaveUsers(t) PROVE Goal
  BY <1>16 DEF LeaveUsers, RemoveUser, Goto, queueVars, Types, Labels, Starting, Joining, Ending, Leaving
<1>17. ASSUME Interrupt(t) PROVE Goal
  <2>1. pending' \in [Threads -> SUBSET Flags]
    BY <1>17, Words DEF Interrupt, Types
  <2> QED
    BY <1>17, <2>1 DEF Interrupt, queueVars, Types
<1> QED
  BY <1>1, <1>2, <1>3, <1>4, <1>5, <1>6, <1>7, <1>8, <1>9, <1>10, <1>11, <1>12, <1>13, <1>14, <1>15, <1>16, <1>17 DEF Moving

LEMMA TypesUnloading ==
  ASSUME Types, NEW t \in Threads, Unloading(t)
  PROVE  Types'
<1> USE Numbers
<1> DEFINE Goal == Types'
<1>0. t = Main
  BY DEF Unloading
<1>1. ASSUME UnloadBegin PROVE Goal
  <2>1. pending' \in [Threads -> SUBSET Flags]
    <3>1. \A x \in Threads : AfterCancel(pending[x], ANYTHING) \in SUBSET Flags
      BY Words DEF Types
    <3> QED
      BY <1>1, <3>1, Zenon DEF UnloadBegin, Types
  <2> QED
    BY <1>1, <2>1 DEF UnloadBegin, Unload, Goto, Types, Labels, Leaving
<1>2. ASSUME UnloadTasks PROVE Goal
  <2>1. PICK label \in {"x_lock", "x_poll"} : pc' = [pc EXCEPT ![Main] = label]
    BY <1>2 DEF UnloadTasks, Goto
  <2> QED
    BY <1>2, <2>1 DEF UnloadTasks, queueVars, Types, Labels, Leaving
<1>3. ASSUME UnloadSkip PROVE Goal
  <2>1. pending' \in [Threads -> SUBSET Flags]
    <3>1. \/ pending' = pending
          \/ pending' = [pending EXCEPT ![Main] = AfterNext(@, Mask(Main))]
      BY <1>3 DEF UnloadSkip
    <3>2. AfterNext(pending[Main], Mask(Main)) \in SUBSET Flags
      BY Words DEF Types
    <3> QED
      BY <3>1, <3>2 DEF Types
  <2>2. pc' = [pc EXCEPT ![Main] = "x_poll"]
    BY <1>3 DEF UnloadSkip, Goto
  <2> QED
    BY <1>3, <2>1, <2>2 DEF UnloadSkip, queueVars, Types, Labels, Leaving
<1>4. ASSUME UnloadSleep PROVE Goal
  BY <1>4 DEF UnloadSleep, Goto, Unlock, queueVars, Types, Labels, Leaving
<1>5. ASSUME UnloadDone PROVE Goal
  BY <1>5 DEF UnloadDone, Goto, Unlock, Del, queueVars, Types, Labels, Leaving
<1> QED
  BY <1>1, <1>2, <1>3, <1>4, <1>5 DEF Unloading

\* The steps that count references.
Counting(t) ==
  \/ /\ \/ \E i \in Impls : Spawn(t, i)
        \/ Insert(t) \/ Reclaim(t) \/ Inserted(t) \/ BecomePending(t) \/ Exit(t)
     /\ UNCHANGED <<handles, ran, found>>
  \/ Handle(t)
  \/ \E i \in Impls : Drop(t, i) \/ Join(t, i)
  \/ \E k \in Tasks : AddTask(t, k) \/ RemoveTask(t, k)

LEMMA StepKinds ==
  ASSUME Next
  PROVE  \E t \in Threads :
           \/ Moving(t) /\ UNCHANGED <<handles, ran, found>>
           \/ Unloading(t)
           \/ Counting(t)
BY Zenon DEF Next, Progress, Choose, Moving, Unloading, Counting

LEMMA TypesCounting ==
  ASSUME Types, Order, NEW t \in Threads, Counting(t)
  PROVE  Types'
<1> USE Numbers
<1> DEFINE Goal == Types'
<1>1. ASSUME NEW i \in Impls, Spawn(t, i), UNCHANGED handles PROVE Goal
  <2>1. i # Main /\ pc' = [pc EXCEPT ![t] = "s_insert", ![i] = "born"]
    BY <1>1 DEF Spawn
  <2>2. /\ pc' \in [Threads -> Labels]
        /\ pc'[Main] \in {"task"} \cup Starting \cup Joining \cup Leaving
        /\ \A u \in Impls : pc'[u] \notin Leaving
    BY <2>1 DEF Types, Labels, Starting, Leaving
  <2>3. /\ lifecycle' \in [Threads -> {"REFERENCE", "IDLE", "STARTING", "RUNNING", "JOINED"}]
        /\ count' \in [Threads -> Int]
        /\ mlock' \in [Threads -> Threads \cup {None}]
        /\ target' \in [Threads -> Threads]
    BY <1>1 DEF Spawn, Lock, Types
  <2>4. UNCHANGED <<userThreads, pendingThreads, handles, pending, cursor>>
    BY <1>1 DEF Spawn, queueVars
  <2> QED
    BY <2>2, <2>3, <2>4 DEF Types
<1>2. ASSUME Insert(t), UNCHANGED handles PROVE Goal
  <2>1. target[t] \in Impls
    BY <1>2 DEF Insert, Order, Starting
  <2> QED
    BY <1>2, <2>1 DEF Insert, InsertUser, Add, Goto, Types, Labels, Starting, Leaving
<1>3. ASSUME Reclaim(t), UNCHANGED handles PROVE Goal
  <2>1. Head(pendingThreads) \in Impls /\ Tail(pendingThreads) \in Seq(Impls)
    BY <1>3, HeadTailProperties DEF Reclaim, TakePending, Types
  <2> QED
    BY <1>3, <2>1, SMTT(30) DEF Reclaim, TakePending, Del, Types
<1>4. ASSUME Inserted(t), UNCHANGED handles PROVE Goal
  <2>1. pending' \in [Threads -> SUBSET Flags]
    <3>1. \A x \in Threads : AfterCancel(pending[x], ANYTHING) \in SUBSET Flags
      BY Words DEF Types
    <3> QED
      BY <1>4, <3>1 DEF Inserted, Types
  <2> QED
    BY <1>4, <2>1 DEF Inserted, UserInserted, Unlock, Goto, Types, Labels, Starting, Leaving
<1>5. ASSUME BecomePending(t), UNCHANGED handles PROVE Goal
  <2>1. pending' \in [Threads -> SUBSET Flags]
    BY <1>5, NotifiedType DEF BecomePending, Types
  <2>2. t \in Impls
    BY <1>5 DEF BecomePending, Types, Starting, Joining, Leaving
  <2>3. pendingThreads' \in Seq(Impls)
    BY <1>5, <2>2, AppendProperties DEF BecomePending, AddPending, Types
  <2> QED
    BY <1>5, <2>1, <2>2, <2>3
    DEF BecomePending, AddPending, Goto, Types, Labels, Ending, Leaving
<1>6. ASSUME Exit(t), UNCHANGED handles PROVE Goal
  BY <1>6, SMTT(30) DEF Exit, Del, Goto, queueVars, Types, Labels, Starting, Joining, Ending, Leaving
<1>7. ASSUME Handle(t) PROVE Goal
  <2>1. target[t] \in Impls
    BY <1>7 DEF Handle, Order, Starting
  <2> QED
    BY <1>7, <2>1 DEF Handle, Add, Return, Goto, queueVars, Types, Labels, Leaving
<1>8. ASSUME NEW i \in Impls, Drop(t, i) PROVE Goal
  BY <1>8 DEF Drop, Del, queueVars, Types
<1>9. ASSUME NEW i \in Impls, Join(t, i) PROVE Goal
  BY <1>9 DEF Join, Goto, queueVars, Types, Labels, Joining, Leaving
<1>10. ASSUME NEW k \in Tasks, AddTask(t, k) \/ RemoveTask(t, k) PROVE Goal
  BY <1>10 DEF AddTask, RemoveTask, InsertShutdownTask, RemoveShutdownTask, implVars, Types
<1> QED
  BY <1>1, <1>2, <1>3, <1>4, <1>5, <1>6, <1>7, <1>8, <1>9, <1>10 DEF Counting

-----------------------------------------------------------------------------
(* References. *)

refVars == <<count, mlock, target, pc, handles, pendingThreads>>

\* t alone moves, and not where references are counted; of the locks it takes or gives
\* up at most its own.
Still == {"unborn", "d_drop", "gone"} \cup Starting

Moves(t) ==
  /\ \A u \in Threads \ {t} :
       pc'[u] = pc[u] /\ target'[u] = target[u] /\ mlock'[u] = mlock[u]
  /\ pc[t] \notin Still /\ pc'[t] \notin Still
  /\ pc'[t] \in Joining => pc[t] \in Joining /\ target'[t] = target[t]
  /\ mlock'[t] # mlock[t] => mlock[t] \in {None, t} /\ mlock'[t] \in {None, t}
  /\ pc'[t] \in {"j_wait", "j_back", "d_easy", "d_rest"} => mlock'[t] = t
  /\ pc'[t] \in Ending => pc[t] \in Ending \/ mlock[t] = None
  /\ \A i \in Impls : count'[i] = count[i]
  /\ UNCHANGED <<handles, pendingThreads>>

LEMMA MovingMoves ==
  ASSUME Types, OwnLocked, NEW t \in Threads, Moving(t), UNCHANGED handles
  PROVE  UNCHANGED refVars \/ Moves(t)
<1> USE Numbers DEF Still, Starting, Joining, Ending
<1> DEFINE Goal == UNCHANGED refVars \/ Moves(t)
<1>1. ASSUME JoinAtOnce(t) PROVE Goal
  BY <1>1 DEF JoinAtOnce, Return, Goto, queueVars, Types, Moves
<1>2. ASSUME JoinEnlist(t) PROVE Goal
  BY <1>2 DEF JoinEnlist, Goto, queueVars, Types, Moves
<1>3. ASSUME OwnLock(t) PROVE Goal
  <2>1. PICK label \in {"j_wait", "j_back", "x_wait", "x_poll"} :
          /\ pc' = [pc EXCEPT ![t] = label]
          /\ pc[t] \in {"j_own", "j_woken", "x_lock", "x_woken"}
          /\ label \in {"x_wait", "x_poll"} \/ pc[t] \in {"j_own", "j_woken"}
    BY <1>3 DEF OwnLock, Goto
  <2> QED
    BY <1>3, <2>1 DEF OwnLock, Lock, queueVars, Types, Moves
<1>4. ASSUME WaitSkip(t) PROVE Goal
  BY <1>4 DEF WaitSkip, Report, Goto, OwnLocked, queueVars, Types, Moves
<1>5. ASSUME WaitSleep(t) PROVE Goal
  BY <1>5 DEF WaitSleep, Goto, Unlock, OwnLocked, queueVars, Types, Moves
<1>6. ASSUME WaitWake(t) PROVE Goal
  <2>1. PICK label \in {"j_woken", "x_woken"} :
          /\ Report(t, pending[t], label)
          /\ pc[t] \in {"j_sleep", "x_sleep"}
          /\ label = "x_woken" \/ pc[t] = "j_sleep"
    BY <1>6 DEF WaitWake
  <2> QED
    BY <1>6, <2>1 DEF WaitWake, Report, Goto, queueVars, Types, Moves
<1>7. ASSUME WaitExpire(t) PROVE Goal
  BY <1>7 DEF WaitExpire, Report, Goto, queueVars, Types, Moves
<1>8. ASSUME JoinReturn(t) PROVE Goal
  BY <1>8 DEF JoinReturn, Return, Goto, Unlock, OwnLocked, queueVars, Types, Moves
<1>9. ASSUME SetRunning(t) PROVE Goal
  BY <1>9 DEF SetRunning, Goto, queueVars, Types, Moves
<1>10. ASSUME TaskEnds(t) PROVE Goal
  BY <1>10 DEF TaskEnds, Goto, queueVars, Types, Moves
<1>11. ASSUME SetJoined(t) PROVE Goal
  BY <1>11 DEF SetJoined, Goto, Lock, queueVars, Types, Moves
<1>12. ASSUME NotifyEasy(t) PROVE Goal
  BY <1>12 DEF NotifyEasy, queueVars, refVars
<1>13. ASSUME EasyDone(t) PROVE Goal
  BY <1>13 DEF EasyDone, Goto, OwnLocked, queueVars, Types, Moves
<1>14. ASSUME NotifyRest(t) PROVE Goal
  BY <1>14 DEF NotifyRest, queueVars, refVars
<1>15. ASSUME RestDone(t) PROVE Goal
  BY <1>15 DEF RestDone, Goto, Unlock, OwnLocked, queueVars, Types, Moves
<1>16. ASSUME LeaveUsers(t) PROVE Goal
  BY <1>16 DEF LeaveUsers, RemoveUser, Goto, queueVars, Types, Moves
<1>17. ASSUME Interrupt(t) PROVE Goal
  BY <1>17 DEF Interrupt, queueVars, refVars
<1> QED
  BY <1>1, <1>2, <1>3, <1>4, <1>5, <1>6, <1>7, <1>8, <1>9, <1>10, <1>11, <1>12, <1>13,
     <1>14, <1>15, <1>16, <1>17 DEF Moving

LEMMA UnloadingMoves ==
  ASSUME Types, OwnLocked, NEW t \in Threads, Unloading(t)
  PROVE  Moves(t)
<1> USE Numbers DEF Still, Starting, Joining, Ending
<1> DEFINE Goal == Moves(t)
<1>0. t = Main
  BY DEF Unloading
<1>1. ASSUME UnloadBegin PROVE Goal
  BY <1>0, <1>1 DEF UnloadBegin, Unload, Goto, Types, Moves
<1>2. ASSUME UnloadTasks PROVE Goal
  BY <1>0, <1>2 DEF UnloadTasks, Goto, queueVars, Types, Moves
<1>3. ASSUME UnloadSkip PROVE Goal
  <2>1. pc' = [pc EXCEPT ![Main] = "x_poll"]
    BY <1>3 DEF UnloadSkip, Goto
  <2> QED
    BY <1>0, <1>3, <2>1 DEF UnloadSkip, queueVars, Types, Moves
<1>4. ASSUME UnloadSleep PROVE Goal
  BY <1>0, <1>4 DEF UnloadSleep, Goto, Unlock, OwnLocked, queueVars, Types, Moves
<1>5. ASSUME UnloadDone PROVE Goal
  BY <1>0, <1>5 DEF UnloadDone, Goto, Unlock, Del, OwnLocked, queueVars, Types, Moves
<1> QED
  BY <1>1, <1>2, <1>3, <1>4, <1>5 DEF Unloading

LEMMA Moved ==
  ASSUME ReferencesInv, Types', NEW t \in Threads, Moves(t)
  PROVE  ReferencesInv'
<1> USE Numbers
<1>1. \A u \in Threads \ {t} :
        pc'[u] = pc[u] /\ target'[u] = target[u] /\ mlock'[u] = mlock[u]
  BY DEF Moves
<1>2. pc[t] \notin Still /\ pc'[t] \notin Still
  BY DEF Moves
<1>3. UNCHANGED <<handles, pendingThreads>>
  BY DEF Moves
<1>4. Order'
  <2>1. \A u \in Threads : pc'[u] = "unborn" <=> pc[u] = "unborn"
    BY <1>1, <1>2 DEF Still
  <2>2. \A u \in Threads : pc'[u] \in Starting \cup Joining
          => pc[u] \in Starting \cup Joining /\ target'[u] = target[u]
    BY <1>1, <1>2 DEF Moves, Still
  <2>3. \A i, j \in Impls : i < j /\ pc'[i] = "unborn" => pc'[j] = "unborn"
    BY <2>1 DEF ReferencesInv, Order
  <2>4. \A u \in Threads : pc'[u] \in Starting \cup Joining =>
          target'[u] \in Impls /\ u < target'[u] /\ pc'[target'[u]] # "unborn"
    BY <2>1, <2>2 DEF ReferencesInv, Order
  <2>5. \A i \in handles' : pc'[i] # "unborn"
    BY <1>3, <2>1 DEF ReferencesInv, Order, Types
  <2> QED
    BY <2>3, <2>4, <2>5 DEF Order
<1>5. \A u \in Threads : pc'[u] \in Starting <=> pc[u] \in Starting
  BY <1>1, <1>2 DEF Still
<1>6. \A u \in Threads : pc[u] \in Starting => u # t /\ target'[u] = target[u]
  BY <1>1, <1>2 DEF Still
<1>7. Creating'
  <2>1. SUFFICES ASSUME NEW w \in Threads, pc[w] \in Starting
                 PROVE  /\ \A u \in Threads : pc[u] \in Starting /\ target[u] = target[w] => u = w
                        /\ target[w] \notin handles
                        /\ pc[w] # "s_handle" => mlock'[target[w]] = w /\ pc'[target[w]] \notin Ending
    BY <1>1, <1>3, <1>5, <1>6 DEF Creating
  <2>2. /\ \A u \in Threads : pc[u] \in Starting /\ target[u] = target[w] => u = w
        /\ target[w] \notin handles
        /\ pc[w] # "s_handle" => mlock[target[w]] = w /\ pc[target[w]] \notin Ending
        /\ w < target[w] /\ target[w] \in Threads /\ w # None
    BY <2>1 DEF ReferencesInv, Creating, Order
  <2>3. CASE target[w] # t
    BY <1>1, <2>2, <2>3
  <2>4. CASE target[w] = t
    <3>1. ASSUME mlock[t] = w, pc[t] \notin Ending
          PROVE  mlock'[t] = w /\ pc'[t] \notin Ending
      BY <2>2, <2>4, <3>1 DEF Moves
    <3> QED BY <2>2, <2>4, <3>1
  <2> QED BY <2>3, <2>4
<1>8. OwnLocked'
  <2>1. mlock'[Main] \in {None, Main}
    <3>1. CASE t = Main
      BY <3>1 DEF Moves, Types, ReferencesInv, OwnLocked
    <3>2. CASE t # Main
      BY <1>1, <3>2 DEF ReferencesInv, OwnLocked
    <3> QED BY <3>1, <3>2
  <2> QED
    BY <1>1, <2>1 DEF Moves, ReferencesInv, OwnLocked
<1>9. PendingsExact'
  <2>1. ToSet(pendingThreads)' = ToSet(pendingThreads)
    BY <1>3 DEF ToSet
  <2>2. ToSet(pendingThreads) \subseteq Impls
    BY DEF ReferencesInv, Types, ToSet
  <2>3. Distinct(pendingThreads)'
    BY <1>3 DEF ReferencesInv, PendingsExact, Distinct
  <2>4. \A i \in Impls : /\ pc'[i] = "d_drop" <=> pc[i] = "d_drop"
                         /\ pc'[i] = "gone" <=> pc[i] = "gone"
    BY <1>1, <1>2 DEF Still
  <2> QED
    BY <2>1, <2>2, <2>3, <2>4 DEF ReferencesInv, PendingsExact
<1>10. ReferencesExact'
  <2>1. \A i \in Impls : count'[i] = count[i]
    BY DEF Moves
  <2>2. \A u \in Threads : /\ pc'[u] = "unborn" <=> pc[u] = "unborn"
                           /\ pc'[u] = "gone" <=> pc[u] = "gone"
    BY <1>1, <1>2 DEF Still
  <2>3. \A u \in Threads, i \in Impls :
          pc'[u] = "s_insert" /\ target'[u] = i <=> pc[u] = "s_insert" /\ target[u] = i
    BY <1>1, <1>2 DEF Still, Starting
  <2> QED
    BY <1>3, <2>1, <2>2, <2>3 DEF ReferencesInv, ReferencesExact
<1> QED
  BY <1>4, <1>7, <1>8, <1>9, <1>10 DEF ReferencesInv

LEMMA Unmoved ==
  ASSUME ReferencesInv, Types', UNCHANGED refVars
  PROVE  ReferencesInv'
<1>1. Order' /\ Creating' /\ OwnLocked'
  BY DEF ReferencesInv, Order, Creating, OwnLocked, refVars
<1>2. PendingsExact' /\ ReferencesExact'
  BY DEF ReferencesInv, PendingsExact, ReferencesExact, Distinct, ToSet, refVars
<1> QED
  BY <1>1, <1>2 DEF ReferencesInv

\* Who is not inserted yet counts one reference less.
Inserting(i) == \E t \in Threads : pc[t] = "s_insert" /\ target[t] = i

ListRef(i)   == IF pc[i] = "gone" /\ i \notin ToSet(pendingThreads) THEN 0 ELSE 1
OwnRef(i)    == IF pc[i] = "gone" \/ Inserting(i) THEN 0 ELSE 1
ObjectRef(i) == IF i \in handles THEN 1 ELSE 0
Counted(i)   == pc[i] # "unborn" => count[i] = ListRef(i) + OwnRef(i) + ObjectRef(i)

LEMMA CountedExact == ReferencesExact <=> \A i \in Impls : Counted(i)
BY DEF ReferencesExact, Counted, ListRef, OwnRef, ObjectRef, Inserting

LEMMA SpawnKeeps ==
  ASSUME ReferencesInv, Types', NEW t \in Threads, NEW i \in Impls, Spawn(t, i),
         UNCHANGED handles
  PROVE  ReferencesInv'
<1> USE Numbers
<1>1. /\ pc[t] = "task" /\ pc[i] = "unborn" /\ i # t /\ i \in Threads
      /\ \A u \in Impls : u < i => pc[u] # "unborn"
  BY DEF Spawn, Unborn
<1>2. /\ pc'[t] = "s_insert" /\ pc'[i] = "born"
      /\ \A u \in Threads \ {t, i} : pc'[u] = pc[u]
  BY <1>1 DEF Spawn, ReferencesInv, Types
<1>3. target'[t] = i /\ \A u \in Threads \ {t} : target'[u] = target[u]
  BY DEF Spawn, ReferencesInv, Types
<1>4. mlock'[i] = t /\ \A u \in Threads \ {i} : mlock'[u] = mlock[u]
  BY <1>1 DEF Spawn, Lock, ReferencesInv, Types
<1>5. count'[i] = 1 /\ \A u \in Threads \ {i} : count'[u] = count[u]
  BY <1>1 DEF Spawn, ReferencesInv, Types
<1>6. UNCHANGED <<handles, pendingThreads>>
  BY DEF Spawn, queueVars
<1>7. /\ i \notin handles /\ i \notin ToSet(pendingThreads)
      /\ \A u \in Threads : pc[u] \in Starting \cup Joining => target[u] # i
  BY <1>1 DEF ReferencesInv, Order, PendingsExact
<1>8. t < i
  BY <1>1 DEF ReferencesInv, Order
<1>9. Order'
  <2>1. \A a, b \in Impls : a < b /\ pc'[a] = "unborn" => pc'[b] = "unborn"
    BY <1>1, <1>2 DEF ReferencesInv, Order
  <2>2. \A u \in Threads : pc'[u] \in Starting \cup Joining =>
          target'[u] \in Impls /\ u < target'[u] /\ pc'[target'[u]] # "unborn"
    BY <1>1, <1>2, <1>3, <1>8 DEF ReferencesInv, Order, Starting, Joining
  <2>3. \A x \in handles' : pc'[x] # "unborn"
    <3>1. handles' \subseteq Impls /\ \A x \in handles' : pc[x] # "unborn"
      BY <1>6 DEF ReferencesInv, Order, Types
    <3> QED BY <1>1, <1>2, <3>1
  <2> QED BY <2>1, <2>2, <2>3 DEF Order
<1>10. Creating'
  <2>1. \A u \in Threads \ {t} : pc'[u] \in Starting =>
          pc[u] \in Starting /\ target'[u] = target[u] /\ target[u] \in Impls \ {i}
    BY <1>1, <1>2, <1>3, <1>7 DEF ReferencesInv, Order, Starting
  <2>2. \A u \in Threads \ {t} : pc'[u] \in Starting /\ pc'[u] # "s_handle" =>
          mlock'[target[u]] = u /\ pc'[target[u]] \notin Ending
    BY <1>1, <1>2, <1>4, <2>1 DEF ReferencesInv, Creating, Starting, Ending
  <2>3. \A u \in Threads \ {t} : pc'[u] \in Starting =>
          /\ \A w \in Threads : pc'[w] \in Starting /\ target'[w] = target'[u] => w = u
          /\ target'[u] \notin handles'
    BY <1>3, <1>6, <2>1 DEF ReferencesInv, Creating
  <2>4. /\ \A w \in Threads : pc'[w] \in Starting /\ target'[w] = target'[t] => w = t
        /\ target'[t] \notin handles'
        /\ mlock'[target'[t]] = t /\ pc'[target'[t]] \notin Ending
    BY <1>2, <1>3, <1>4, <1>6, <1>7, <2>1 DEF Ending
  <2> QED BY <2>1, <2>2, <2>3, <2>4 DEF Creating
<1>11. OwnLocked'
  BY <1>1, <1>2, <1>4 DEF ReferencesInv, OwnLocked
<1>12. PendingsExact'
  <2>1. ToSet(pendingThreads)' = ToSet(pendingThreads) /\ ToSet(pendingThreads) \subseteq Impls
    BY <1>6 DEF ToSet, ReferencesInv, Types
  <2>2. Distinct(pendingThreads)'
    BY <1>6 DEF ReferencesInv, PendingsExact, Distinct
  <2> QED
    BY <1>1, <1>2, <2>1, <2>2 DEF ReferencesInv, PendingsExact
<1>13. ReferencesExact'
  <2>1. ToSet(pendingThreads)' = ToSet(pendingThreads)
    BY <1>6 DEF ToSet
  <2>2. \A j \in Impls \ {i} : Inserting(j)' <=> Inserting(j)
    BY <1>1, <1>2, <1>3 DEF Inserting
  <2>3. Inserting(i)'
    BY <1>2, <1>3 DEF Inserting
  <2>4. ASSUME NEW j \in Impls PROVE Counted(j)'
    <3>1. CASE j = i
      BY <1>2, <1>5, <1>6, <1>7, <2>3, <3>1 DEF Counted, ListRef, OwnRef, ObjectRef
    <3>2. CASE j # i
      <4>1. pc'[j] = "gone" <=> pc[j] = "gone"
        BY <1>1, <1>2, <3>2
      <4>2. pc'[j] # "unborn" => pc[j] # "unborn"
        BY <1>1, <1>2, <3>2
      <4>3. count'[j] = count[j] /\ handles' = handles
        BY <1>5, <1>6, <3>2
      <4>4. Counted(j)
        BY CountedExact DEF ReferencesInv
      <4> QED
        BY <2>1, <2>2, <3>2, <4>1, <4>2, <4>3, <4>4 DEF Counted, ListRef, OwnRef, ObjectRef
    <3> QED BY <3>1, <3>2
  <2>5. (\A j \in Impls : Counted(j))'
    BY <2>4
  <2> QED
    BY <2>5 DEF ReferencesExact, Counted, ListRef, OwnRef, ObjectRef, Inserting
<1> QED
  BY <1>9, <1>10, <1>11, <1>12, <1>13 DEF ReferencesInv

\* For the others only t moves, on from where it has been.
Others(t) == \A u \in Threads \ {t} : pc'[u] = pc[u] /\ target'[u] = target[u]

LEMMA OrderKept ==
  ASSUME Types, Order, NEW t \in Threads, Others(t),
         pc[t] # "unborn" /\ pc'[t] # "unborn",
         pc'[t] \in Starting \cup Joining =>
           target'[t] \in Impls /\ t < target'[t] /\ pc[target'[t]] # "unborn",
         handles' \subseteq Impls, \A i \in handles' : pc[i] # "unborn"
  PROVE  Order'
<1> USE Numbers
<1>1. \A u \in Threads : pc'[u] = "unborn" <=> pc[u] = "unborn"
  BY DEF Others
<1>2. \A i, j \in Impls : i < j /\ pc'[i] = "unborn" => pc'[j] = "unborn"
  BY <1>1 DEF Order
<1>3. \A u \in Threads : pc'[u] \in Starting \cup Joining =>
        target'[u] \in Impls /\ u < target'[u] /\ pc[target'[u]] # "unborn"
  BY DEF Others, Order
<1>4. \A u \in Threads : pc'[u] \in Starting \cup Joining => pc'[target'[u]] # "unborn"
  BY <1>1, <1>3
<1>5. \A i \in handles' : pc'[i] # "unborn"
  BY <1>1
<1> QED
  BY <1>2, <1>3, <1>4, <1>5 DEF Order

LEMMA CreatingKept ==
  ASSUME Types, Order, Creating, NEW t \in Threads, Others(t),
         \A u \in Threads : pc'[u] \in Starting =>
           /\ pc[u] \in Starting /\ target'[u] = target[u] /\ target[u] \notin handles'
           /\ pc'[u] # "s_handle" =>
                pc[u] # "s_handle" /\ mlock'[target[u]] = mlock[target[u]],
         pc'[t] \in Ending => pc[t] \in Ending
  PROVE  Creating'
<1> USE Numbers
<1>1. \A u \in Threads : pc'[u] \in Ending => pc[u] \in Ending
  BY DEF Others
<1>2. \A w \in Threads : pc'[w] \in Starting => target[w] \in Threads
  BY DEF Order
<1>3. \A w \in Threads : pc'[w] \in Starting =>
        \A u \in Threads : pc'[u] \in Starting /\ target'[u] = target'[w] => u = w
  BY DEF Creating
<1>4. \A w \in Threads : pc'[w] \in Starting /\ pc'[w] # "s_handle" =>
        mlock'[target'[w]] = w /\ pc'[target'[w]] \notin Ending
  BY <1>1, <1>2 DEF Creating
<1> QED
  BY <1>3, <1>4 DEF Creating

LEMMA OwnLockedKept ==
  ASSUME Types, OwnLocked, NEW t \in Threads, Others(t),
         pc'[t] \notin {"j_wait", "j_back", "d_easy", "d_rest"},
         mlock'[Main] = mlock[Main],
         \A u \in Threads : pc[u] \in {"j_wait", "j_back", "d_easy", "d_rest"}
                              => mlock'[u] = mlock[u]
  PROVE  OwnLocked'
BY DEF OwnLocked, Others

LEMMA PendingsKept ==
  ASSUME Types, PendingsExact, NEW t \in Threads, Others(t),
         UNCHANGED pendingThreads,
         pc[t] \notin {"d_drop", "gone"}, pc'[t] \notin {"d_drop", "gone"}
  PROVE  PendingsExact'
<1>1. ToSet(pendingThreads)' = ToSet(pendingThreads) /\ ToSet(pendingThreads) \subseteq Impls
  BY DEF ToSet, Types
<1>2. Distinct(pendingThreads)'
  BY DEF PendingsExact, Distinct
<1>3. \A u \in Impls : /\ pc'[u] = "d_drop" <=> pc[u] = "d_drop"
                       /\ pc'[u] = "gone" <=> pc[u] = "gone"
  BY Numbers DEF Others
<1> QED
  BY <1>1, <1>2, <1>3 DEF PendingsExact

\* The references to i have changed, those to the other threads have not.
LEMMA CountsKept ==
  ASSUME Types, ReferencesExact, NEW t \in Threads, Others(t), NEW i \in Threads,
         pc[t] # "unborn" /\ pc'[t] # "unborn",
         \A j \in Impls \ {i} :
           /\ count'[j] = count[j]
           /\ j \in handles' <=> j \in handles
           /\ j \in ToSet(pendingThreads)' <=> j \in ToSet(pendingThreads)
           /\ pc'[j] = "gone" <=> pc[j] = "gone"
           /\ Inserting(j)' <=> Inserting(j),
         i \in Impls => Counted(i)'
  PROVE  ReferencesExact'
<1>1. ASSUME NEW j \in Impls PROVE Counted(j)'
  <2>1. CASE j = i
    BY <2>1
  <2>2. CASE j # i
    <3>1. pc'[j] # "unborn" => pc[j] # "unborn"
      BY Numbers DEF Others
    <3>2. Counted(j)
      BY CountedExact
    <3> QED
      BY <2>2, <3>1, <3>2 DEF Counted, ListRef, OwnRef, ObjectRef
  <2> QED BY <2>1, <2>2
<1> QED
  BY <1>1 DEF ReferencesExact, Counted, ListRef, OwnRef, ObjectRef, Inserting

LEMMA InsertKeeps ==
  ASSUME ReferencesInv, Types', NEW t \in Threads, Insert(t), UNCHANGED handles
  PROVE  ReferencesInv'
<1> USE Numbers
<1>1. /\ pc[t] = "s_insert" /\ pc'[t] = "s_poll" /\ Others(t)
      /\ UNCHANGED <<target, mlock, handles, pendingThreads>>
  BY DEF Insert, InsertUser, Goto, Others, ReferencesInv, Types
<1>2. PICK i \in Impls :
        i = target[t] /\ i \in Threads /\ t < i /\ pc[i] # "unborn" /\ i # t
  BY <1>1 DEF ReferencesInv, Order, Starting
<1>3. count'[i] = count[i] + 1 /\ \A j \in Threads \ {i} : count'[j] = count[j]
  BY <1>2 DEF Insert, Add, ReferencesInv, Types
<1>4. /\ \A u \in Threads : pc[u] \in Starting /\ target[u] = i => u = t
      /\ i \notin handles /\ pc[i] \notin Ending
  BY <1>1, <1>2 DEF ReferencesInv, Creating, Starting
<1>5. pc'[i] = pc[i]
  BY <1>1, <1>2 DEF Others
<1>6. Order'
  <2>1. target'[t] \in Impls /\ t < target'[t] /\ pc[target'[t]] # "unborn"
    BY <1>1, <1>2
  <2>2. handles' \subseteq Impls /\ \A x \in handles' : pc[x] # "unborn"
    BY <1>1 DEF ReferencesInv, Types, Order
  <2> QED BY <1>1, <2>1, <2>2, OrderKept DEF ReferencesInv
<1>7. Creating'
  <2>1. \A u \in Threads : pc'[u] \in Starting => pc[u] \in Starting
    BY <1>1 DEF Others, Starting
  <2>2. \A u \in Threads : pc'[u] \in Starting /\ pc'[u] # "s_handle" => pc[u] # "s_handle"
    BY <1>1 DEF Others
  <2>3. \A u \in Threads : pc[u] \in Starting => target[u] \notin handles'
    BY <1>1 DEF ReferencesInv, Creating
  <2>4. pc'[t] \notin Ending
    BY <1>1 DEF Ending
  <2> QED BY <1>1, <2>1, <2>2, <2>3, <2>4, CreatingKept DEF ReferencesInv
<1>8. OwnLocked'
  BY <1>1, OwnLockedKept DEF ReferencesInv
<1>9. PendingsExact'
  BY <1>1, PendingsKept DEF ReferencesInv
<1>10. ReferencesExact'
  <2>1. ToSet(pendingThreads)' = ToSet(pendingThreads)
    BY <1>1 DEF ToSet
  <2>2. \A j \in Impls \ {i} : Inserting(j)' <=> Inserting(j)
    BY <1>1, <1>2 DEF Inserting, Others
  <2>3. \A j \in Impls : pc'[j] = "gone" <=> pc[j] = "gone"
    BY <1>1 DEF Others
  <2>4. Inserting(i) /\ ~Inserting(i)'
    <3>1. Inserting(i)
      BY <1>1, <1>2 DEF Inserting
    <3>2. ~Inserting(i)'
      BY <1>1, <1>4 DEF Inserting, Others, Starting
    <3> QED BY <3>1, <3>2
  <2>5. Counted(i)'
    <3>1. Counted(i)
      BY <1>2, CountedExact DEF ReferencesInv
    <3>2. ListRef(i)' = ListRef(i) /\ ObjectRef(i)' = ObjectRef(i)
      BY <1>1, <1>2, <2>1, <2>3 DEF ListRef, ObjectRef
    <3>3. OwnRef(i) = 0 /\ OwnRef(i)' = 1
      BY <1>4, <1>5, <2>4 DEF OwnRef, Ending
    <3>4. ListRef(i) \in {0, 1} /\ ObjectRef(i) \in {0, 1}
      BY DEF ListRef, ObjectRef
    <3> QED BY <1>2, <1>3, <3>1, <3>2, <3>3, <3>4 DEF Counted
  <2> QED
    BY <1>1, <1>2, <1>3, <2>1, <2>2, <2>3, <2>5, CountsKept DEF ReferencesInv
<1> QED
  BY <1>6, <1>7, <1>8, <1>9, <1>10 DEF ReferencesInv

LEMMA InsertedKeeps ==
  ASSUME ReferencesInv, Types', NEW t \in Threads, Inserted(t), UNCHANGED handles
  PROVE  ReferencesInv'
<1> USE Numbers
<1>1. /\ pc[t] = "s_poll" /\ pc'[t] = "s_handle" /\ Others(t)
      /\ UNCHANGED <<target, count, handles, pendingThreads>>
  BY DEF Inserted, UserInserted, Goto, Others, ReferencesInv, Types
<1>2. PICK i \in Impls :
        i = target[t] /\ i \in Threads /\ t < i /\ pc[i] # "unborn" /\ i # t
  BY <1>1 DEF ReferencesInv, Order, Starting
<1>3. \A u \in Threads \ {i} : mlock'[u] = mlock[u]
  BY <1>2 DEF Inserted, Unlock, ReferencesInv, Types
<1>4. /\ \A u \in Threads : pc[u] \in Starting /\ target[u] = i => u = t
      /\ mlock[i] = t
  BY <1>1, <1>2 DEF ReferencesInv, Creating, Starting
<1>5. Order'
  <2>1. target'[t] \in Impls /\ t < target'[t] /\ pc[target'[t]] # "unborn"
    BY <1>1, <1>2
  <2>2. handles' \subseteq Impls /\ \A x \in handles' : pc[x] # "unborn"
    BY <1>1 DEF ReferencesInv, Types, Order
  <2> QED BY <1>1, <2>1, <2>2, OrderKept DEF ReferencesInv
<1>6. Creating'
  <2>1. \A u \in Threads : pc'[u] \in Starting => pc[u] \in Starting
    BY <1>1 DEF Others, Starting
  <2>2. \A u \in Threads : pc'[u] \in Starting /\ pc'[u] # "s_handle" =>
          pc[u] # "s_handle" /\ target[u] \in Threads /\ target[u] # i
    BY <1>1, <1>4, <2>1 DEF Others, ReferencesInv, Order
  <2>3. \A u \in Threads : pc[u] \in Starting => target[u] \notin handles'
    BY <1>1 DEF ReferencesInv, Creating
  <2>4. pc'[t] \notin Ending
    BY <1>1 DEF Ending
  <2> QED BY <1>1, <1>3, <2>1, <2>2, <2>3, <2>4, CreatingKept DEF ReferencesInv
<1>7. OwnLocked'
  <2>1. \A u \in Threads : pc[u] \in {"j_wait", "j_back", "d_easy", "d_rest"} => u # i
    BY <1>2, <1>4 DEF ReferencesInv, OwnLocked
  <2>2. mlock'[Main] = mlock[Main]
    BY <1>2, <1>3
  <2> QED BY <1>1, <1>3, <2>1, <2>2, OwnLockedKept DEF ReferencesInv
<1>8. PendingsExact'
  BY <1>1, PendingsKept DEF ReferencesInv
<1>9. ReferencesExact'
  <2>1. ToSet(pendingThreads)' = ToSet(pendingThreads)
    BY <1>1 DEF ToSet
  <2>2. \A j \in Impls : Inserting(j)' <=> Inserting(j)
    BY <1>1 DEF Inserting, Others
  <2>3. \A j \in Impls : pc'[j] = "gone" <=> pc[j] = "gone"
    BY <1>1 DEF Others
  <2> QED
    BY <1>1, <2>1, <2>2, <2>3, CountsKept DEF ReferencesInv
<1> QED
  BY <1>5, <1>6, <1>7, <1>8, <1>9 DEF ReferencesInv

LEMMA HandleKeeps ==
  ASSUME ReferencesInv, Types', NEW t \in Threads, Handle(t)
  PROVE  ReferencesInv'
<1> USE Numbers
<1>1. /\ pc[t] = "s_handle" /\ pc'[t] = "task" /\ Others(t)
      /\ UNCHANGED <<mlock, pendingThreads>>
  BY DEF Handle, Return, Goto, queueVars, Others, ReferencesInv, Types
<1>2. PICK i \in Impls :
        i = target[t] /\ i \in Threads /\ t < i /\ pc[i] # "unborn" /\ i # t
  BY <1>1 DEF ReferencesInv, Order, Starting
<1>3. /\ count'[i] = count[i] + 1 /\ \A j \in Threads \ {i} : count'[j] = count[j]
      /\ handles' = handles \cup {i}
  BY <1>2 DEF Handle, Add, ReferencesInv, Types
<1>4. /\ \A u \in Threads : pc[u] \in Starting /\ target[u] = i => u = t
      /\ i \notin handles
  BY <1>1, <1>2 DEF ReferencesInv, Creating, Starting
<1>5. Order'
  <2>1. pc'[t] \notin Starting \cup Joining
    BY <1>1 DEF Starting, Joining
  <2>2. handles' \subseteq Impls /\ \A x \in handles' : pc[x] # "unborn"
    BY <1>2, <1>3 DEF ReferencesInv, Types, Order
  <2> QED BY <1>1, <2>1, <2>2, OrderKept DEF ReferencesInv
<1>6. Creating'
  <2>1. \A u \in Threads : pc'[u] \in Starting => pc[u] \in Starting /\ u # t
    BY <1>1 DEF Others, Starting
  <2>2. \A u \in Threads : pc'[u] \in Starting =>
          pc'[u] = pc[u] /\ target'[u] = target[u]
    BY <1>1, <2>1 DEF Others
  <2>3. \A u \in Threads : pc'[u] \in Starting => target[u] \notin handles'
    BY <1>3, <1>4, <2>1 DEF ReferencesInv, Creating
  <2>4. pc'[t] \notin Ending
    BY <1>1 DEF Ending
  <2> QED BY <1>1, <2>1, <2>2, <2>3, <2>4, CreatingKept DEF ReferencesInv
<1>7. OwnLocked'
  BY <1>1, OwnLockedKept DEF ReferencesInv
<1>8. PendingsExact'
  BY <1>1, PendingsKept DEF ReferencesInv
<1>9. ReferencesExact'
  <2>1. ToSet(pendingThreads)' = ToSet(pendingThreads)
    BY <1>1 DEF ToSet
  <2>2. \A j \in Impls : Inserting(j)' <=> Inserting(j)
    BY <1>1 DEF Inserting, Others
  <2>3. \A j \in Impls : pc'[j] = "gone" <=> pc[j] = "gone"
    BY <1>1 DEF Others
  <2>4. Counted(i)'
    <3>1. Counted(i)
      BY <1>2, CountedExact DEF ReferencesInv
    <3>2. ListRef(i)' = ListRef(i) /\ OwnRef(i)' = OwnRef(i)
      BY <2>1, <2>2, <2>3 DEF ListRef, OwnRef
    <3>3. ObjectRef(i) = 0 /\ ObjectRef(i)' = 1
      BY <1>3, <1>4 DEF ObjectRef
    <3>4. ListRef(i) \in {0, 1} /\ OwnRef(i) \in {0, 1}
      BY DEF ListRef, OwnRef
    <3> QED BY <1>2, <1>3, <3>1, <3>2, <3>3, <3>4 DEF Counted
  <2> QED
    BY <1>1, <1>2, <1>3, <2>1, <2>2, <2>3, <2>4, CountsKept DEF ReferencesInv
<1> QED
  BY <1>5, <1>6, <1>7, <1>8, <1>9 DEF ReferencesInv

LEMMA DropKeeps ==
  ASSUME ReferencesInv, Types', NEW t \in Threads, NEW i \in Impls, Drop(t, i)
  PROVE  ReferencesInv'
<1> USE Numbers
<1>1. /\ pc[t] = "task" /\ UNCHANGED <<pc, target, mlock, pendingThreads>> /\ Others(t)
      /\ i \in handles /\ i \in Threads
  BY DEF Drop, queueVars, Others
<1>2. /\ count'[i] = count[i] - 1 /\ \A j \in Threads \ {i} : count'[j] = count[j]
      /\ handles' = handles \ {i}
  BY <1>1 DEF Drop, Del, ReferencesInv, Types
<1>3. Order'
  <2>1. pc'[t] \notin Starting \cup Joining
    BY <1>1 DEF Starting, Joining
  <2>2. handles' \subseteq Impls /\ \A x \in handles' : pc[x] # "unborn"
    BY <1>2 DEF ReferencesInv, Types, Order
  <2> QED BY <1>1, <2>1, <2>2, OrderKept DEF ReferencesInv
<1>4. Creating'
  <2>1. \A u \in Threads : pc[u] \in Starting => target[u] \notin handles'
    BY <1>2 DEF ReferencesInv, Creating
  <2>2. pc'[t] \notin Ending
    BY <1>1 DEF Ending
  <2> QED BY <1>1, <2>1, <2>2, CreatingKept DEF ReferencesInv
<1>5. OwnLocked'
  BY <1>1, OwnLockedKept DEF ReferencesInv
<1>6. PendingsExact'
  BY <1>1, PendingsKept DEF ReferencesInv
<1>7. ReferencesExact'
  <2>1. ToSet(pendingThreads)' = ToSet(pendingThreads)
    BY <1>1 DEF ToSet
  <2>2. \A j \in Impls : Inserting(j)' <=> Inserting(j)
    BY <1>1 DEF Inserting
  <2>3. Counted(i)'
    <3>1. Counted(i)
      BY CountedExact DEF ReferencesInv
    <3>2. ListRef(i)' = ListRef(i) /\ OwnRef(i)' = OwnRef(i)
      BY <1>1, <2>1, <2>2 DEF ListRef, OwnRef
    <3>3. ObjectRef(i) = 1 /\ ObjectRef(i)' = 0
      BY <1>1, <1>2 DEF ObjectRef
    <3>4. ListRef(i) \in {0, 1} /\ OwnRef(i) \in {0, 1}
      BY DEF ListRef, OwnRef
    <3> QED BY <1>1, <1>2, <3>1, <3>2, <3>3, <3>4 DEF Counted
  <2> QED
    BY <1>1, <1>2, <2>1, <2>2, <2>3, CountsKept DEF ReferencesInv
<1> QED
  BY <1>3, <1>4, <1>5, <1>6, <1>7 DEF ReferencesInv

LEMMA JoinKeeps ==
  ASSUME ReferencesInv, Types', NEW t \in Threads, NEW i \in Impls, Join(t, i)
  PROVE  ReferencesInv'
<1> USE Numbers
<1>1. /\ pc[t] = "task" /\ pc'[t] = "j_enter" /\ Others(t) /\ target'[t] = i
      /\ UNCHANGED <<mlock, count, handles, pendingThreads>> /\ i \in handles /\ t < i
  BY DEF Join, Goto, queueVars, Others, ReferencesInv, Types
<1>2. Order'
  <2>1. target'[t] \in Impls /\ t < target'[t] /\ pc[target'[t]] # "unborn"
    BY <1>1 DEF ReferencesInv, Order
  <2>2. handles' \subseteq Impls /\ \A x \in handles' : pc[x] # "unborn"
    BY <1>1 DEF ReferencesInv, Types, Order
  <2> QED BY <1>1, <2>1, <2>2, OrderKept DEF ReferencesInv
<1>3. Creating'
  <2>1. \A u \in Threads : pc'[u] \in Starting =>
          pc[u] \in Starting /\ pc'[u] = pc[u] /\ target'[u] = target[u]
    BY <1>1 DEF Others, Starting
  <2>2. \A u \in Threads : pc[u] \in Starting => target[u] \notin handles'
    BY <1>1 DEF ReferencesInv, Creating
  <2>3. pc'[t] \notin Ending
    BY <1>1 DEF Ending
  <2> QED BY <1>1, <2>1, <2>2, <2>3, CreatingKept DEF ReferencesInv
<1>4. OwnLocked'
  BY <1>1, OwnLockedKept DEF ReferencesInv
<1>5. PendingsExact'
  BY <1>1, PendingsKept DEF ReferencesInv
<1>6. ReferencesExact'
  <2>1. ToSet(pendingThreads)' = ToSet(pendingThreads)
    BY <1>1 DEF ToSet
  <2>2. \A j \in Impls : Inserting(j)' <=> Inserting(j)
    BY <1>1 DEF Inserting, Others
  <2>3. \A j \in Impls : pc'[j] = "gone" <=> pc[j] = "gone"
    BY <1>1 DEF Others
  <2> QED
    BY <1>1, <2>1, <2>2, <2>3, CountsKept DEF ReferencesInv
<1> QED
  BY <1>2, <1>3, <1>4, <1>5, <1>6 DEF ReferencesInv

LEMMA ExitKeeps ==
  ASSUME ReferencesInv, Types', NEW t \in Threads, Exit(t), UNCHANGED handles
  PROVE  ReferencesInv'
<1> USE Numbers
<1>1. /\ pc[t] = "d_drop" /\ pc'[t] = "gone" /\ Others(t)
      /\ UNCHANGED <<target, mlock, handles, pendingThreads>>
  BY DEF Exit, Goto, queueVars, Others, ReferencesInv, Types
<1>2. t \in Impls
  BY <1>1 DEF ReferencesInv, Types, Starting, Joining, Leaving
<1>3. count'[t] = count[t] - 1 /\ \A j \in Threads \ {t} : count'[j] = count[j]
  BY DEF Exit, Del, ReferencesInv, Types
<1>4. ToSet(pendingThreads)' = ToSet(pendingThreads)
  BY <1>1 DEF ToSet
<1>5. t \in ToSet(pendingThreads) /\ Distinct(pendingThreads)'
  BY <1>1, <1>2 DEF ReferencesInv, PendingsExact, Distinct
<1>6. Order'
  <2>1. pc'[t] \notin Starting \cup Joining
    BY <1>1 DEF Starting, Joining
  <2>2. handles' \subseteq Impls /\ \A x \in handles' : pc[x] # "unborn"
    BY <1>1 DEF ReferencesInv, Types, Order
  <2> QED BY <1>1, <2>1, <2>2, OrderKept DEF ReferencesInv
<1>7. Creating'
  <2>1. \A u \in Threads : pc'[u] \in Starting =>
          pc[u] \in Starting /\ pc'[u] = pc[u] /\ target'[u] = target[u]
    BY <1>1 DEF Others, Starting
  <2>2. \A u \in Threads : pc[u] \in Starting => target[u] \notin handles'
    BY <1>1 DEF ReferencesInv, Creating
  <2>3. pc[t] \in Ending
    BY <1>1 DEF Ending
  <2> QED BY <1>1, <2>1, <2>2, <2>3, CreatingKept DEF ReferencesInv
<1>8. OwnLocked'
  BY <1>1, OwnLockedKept DEF ReferencesInv
<1>9. PendingsExact'
  <2>1. \A i \in Impls : i # t => pc'[i] = pc[i]
    BY <1>1 DEF Others
  <2>2. ToSet(pendingThreads) \subseteq Impls
    BY DEF ReferencesInv, Types, ToSet
  <2> QED
    BY <1>1, <1>4, <1>5, <2>1, <2>2 DEF ReferencesInv, PendingsExact
<1>10. ReferencesExact'
  <2>1. \A j \in Impls : Inserting(j)' <=> Inserting(j)
    BY <1>1 DEF Inserting, Others
  <2>2. \A j \in Impls \ {t} : pc'[j] = "gone" <=> pc[j] = "gone"
    BY <1>1 DEF Others
  <2>3. Counted(t)'
    <3>1. Counted(t)
      BY <1>2, CountedExact DEF ReferencesInv
    <3>2. ListRef(t)' = ListRef(t) /\ ObjectRef(t)' = ObjectRef(t)
      BY <1>1, <1>4, <1>5 DEF ListRef, ObjectRef
    <3>3. OwnRef(t) = 1 /\ OwnRef(t)' = 0
      <4>1. ~Inserting(t)
        BY <1>1 DEF Inserting, ReferencesInv, Creating, Starting, Ending
      <4> QED BY <1>1, <4>1 DEF OwnRef
    <3>4. ListRef(t) \in {0, 1} /\ ObjectRef(t) \in {0, 1}
      BY DEF ListRef, ObjectRef
    <3> QED BY <1>1, <1>3, <3>1, <3>2, <3>3, <3>4 DEF Counted
  <2> QED
    BY <1>1, <1>3, <1>4, <2>1, <2>2, <2>3, CountsKept DEF ReferencesInv
<1> QED
  BY <1>6, <1>7, <1>8, <1>9, <1>10 DEF ReferencesInv

LEMMA BecomePendingKeeps ==
  ASSUME ReferencesInv, Types', NEW t \in Threads, BecomePending(t), UNCHANGED handles
  PROVE  ReferencesInv'
<1> USE Numbers
<1>1. /\ pc[t] = "d_push" /\ pc'[t] = "d_drop" /\ Others(t)
      /\ UNCHANGED <<target, mlock, count, handles>>
  BY DEF BecomePending, AddPending, Goto, Others, ReferencesInv, Types
<1>2. t \in Impls /\ pendingThreads' = Append(pendingThreads, t)
  BY <1>1 DEF BecomePending, AddPending, ReferencesInv, Types, Starting, Joining, Leaving
<1>3. t \notin ToSet(pendingThreads)
  BY <1>1 DEF ReferencesInv, PendingsExact
<1>4. /\ ToSet(pendingThreads') = ToSet(pendingThreads) \cup {t}
      /\ Distinct(pendingThreads')
  BY <1>2, <1>3, AppendList DEF ReferencesInv, PendingsExact, Types
<1>5. ToSet(pendingThreads)' = ToSet(pendingThreads')
  BY DEF ToSet
<1>6. Order'
  <2>1. pc'[t] \notin Starting \cup Joining
    BY <1>1 DEF Starting, Joining
  <2>2. handles' \subseteq Impls /\ \A x \in handles' : pc[x] # "unborn"
    BY <1>1 DEF ReferencesInv, Types, Order
  <2> QED BY <1>1, <2>1, <2>2, OrderKept DEF ReferencesInv
<1>7. Creating'
  <2>1. \A u \in Threads : pc'[u] \in Starting =>
          pc[u] \in Starting /\ pc'[u] = pc[u] /\ target'[u] = target[u]
    BY <1>1 DEF Others, Starting
  <2>2. \A u \in Threads : pc[u] \in Starting => target[u] \notin handles'
    BY <1>1 DEF ReferencesInv, Creating
  <2>3. pc[t] \in Ending
    BY <1>1 DEF Ending
  <2> QED BY <1>1, <2>1, <2>2, <2>3, CreatingKept DEF ReferencesInv
<1>8. OwnLocked'
  BY <1>1, OwnLockedKept DEF ReferencesInv
<1>9. PendingsExact'
  <2>1. \A i \in Impls : i # t => pc'[i] = pc[i]
    BY <1>1 DEF Others
  <2>2. ToSet(pendingThreads) \subseteq Impls
    BY DEF ReferencesInv, Types, ToSet
  <2>3. Distinct(pendingThreads)'
    BY <1>4 DEF Distinct
  <2> QED
    BY <1>1, <1>2, <1>4, <1>5, <2>1, <2>2, <2>3 DEF ReferencesInv, PendingsExact
<1>10. ReferencesExact'
  <2>1. \A j \in Impls : Inserting(j)' <=> Inserting(j)
    BY <1>1 DEF Inserting, Others
  <2>2. \A j \in Impls : pc'[j] = "gone" <=> pc[j] = "gone"
    BY <1>1 DEF Others
  <2>3. Counted(t)'
    <3>1. Counted(t)
      BY <1>2, CountedExact DEF ReferencesInv
    <3>2. ListRef(t)' = ListRef(t)
      BY <1>1, <2>2 DEF ListRef
    <3>3. OwnRef(t)' = OwnRef(t) /\ ObjectRef(t)' = ObjectRef(t)
      BY <1>1, <1>2, <2>1, <2>2 DEF OwnRef, ObjectRef
    <3> QED BY <1>1, <3>1, <3>2, <3>3 DEF Counted
  <2> QED
    BY <1>1, <1>4, <1>5, <2>1, <2>2, <2>3, CountsKept DEF ReferencesInv
<1> QED
  BY <1>6, <1>7, <1>8, <1>9, <1>10 DEF ReferencesInv

LEMMA ReclaimKeeps ==
  ASSUME ReferencesInv, Types', NEW t \in Threads, Reclaim(t), UNCHANGED handles
  PROVE  ReferencesInv'
<1> USE Numbers
<1>1. /\ pc[t] \in {"s_poll", "x_poll"} /\ pendingThreads # <<>>
      /\ UNCHANGED <<pc, target, mlock, handles>> /\ Others(t)
      /\ pendingThreads' = Tail(pendingThreads)
  BY DEF Reclaim, TakePending, Others
<1>2. PICK i \in Impls :
        /\ i = Head(pendingThreads) /\ i \in ToSet(pendingThreads)
        /\ ToSet(Tail(pendingThreads)) = ToSet(pendingThreads) \ {i}
        /\ Distinct(Tail(pendingThreads))
  BY <1>1, TailList DEF ReferencesInv, PendingsExact, Types
<1>3. pc[i] = "gone" /\ i \in Threads
  BY <1>2 DEF Reclaim
<1>4. count'[i] = count[i] - 1 /\ \A j \in Threads \ {i} : count'[j] = count[j]
  BY <1>2, <1>3 DEF Reclaim, Del, ReferencesInv, Types
<1>5. ToSet(pendingThreads)' = ToSet(pendingThreads) \ {i}
  BY <1>1, <1>2 DEF ToSet
<1>6. Order'
  <2>1. handles' \subseteq Impls /\ \A x \in handles' : pc[x] # "unborn"
    BY <1>1 DEF ReferencesInv, Types, Order
  <2>2. pc[t] # "unborn" /\ pc'[t] # "unborn"
    BY <1>1
  <2>3. pc'[t] \in Starting \cup Joining =>
           target'[t] \in Impls /\ t < target'[t] /\ pc[target'[t]] # "unborn"
    BY <1>1 DEF ReferencesInv, Order
  <2> QED BY <1>1, <2>1, <2>2, <2>3, OrderKept DEF ReferencesInv
<1>7. Creating'
  <2>1. \A u \in Threads : pc[u] \in Starting => target[u] \notin handles'
    BY <1>1 DEF ReferencesInv, Creating
  <2> QED BY <1>1, <2>1, CreatingKept DEF ReferencesInv
<1>8. OwnLocked'
  BY <1>1, OwnLockedKept DEF ReferencesInv
<1>9. PendingsExact'
  <2>1. Distinct(pendingThreads)'
    BY <1>1, <1>2 DEF Distinct
  <2> QED
    BY <1>1, <1>3, <1>5, <2>1 DEF ReferencesInv, PendingsExact
<1>10. ReferencesExact'
  <2>1. \A j \in Impls : Inserting(j)' <=> Inserting(j)
    BY <1>1 DEF Inserting
  <2>2. Counted(i)'
    <3>1. Counted(i)
      BY CountedExact DEF ReferencesInv
    <3>2. ListRef(i) = 1 /\ ListRef(i)' = 0
      BY <1>1, <1>2, <1>3, <1>5 DEF ListRef
    <3>3. OwnRef(i)' = OwnRef(i) /\ ObjectRef(i)' = ObjectRef(i)
      BY <1>1, <2>1 DEF OwnRef, ObjectRef
    <3>4. OwnRef(i) \in {0, 1} /\ ObjectRef(i) \in {0, 1}
      BY DEF OwnRef, ObjectRef
    <3> QED BY <1>1, <1>3, <1>4, <3>1, <3>2, <3>3, <3>4 DEF Counted
  <2>3. pc[t] # "unborn" /\ pc'[t] # "unborn"
    BY <1>1
  <2> QED
    BY <1>1, <1>3, <1>4, <1>5, <2>1, <2>2, <2>3, CountsKept DEF ReferencesInv
<1> QED
  BY <1>6, <1>7, <1>8, <1>9, <1>10 DEF ReferencesInv

LEMMA ReferencesStart == Init => ReferencesInv
<1> SUFFICES ASSUME Init PROVE ReferencesInv
  OBVIOUS
<1>1. pc[Main] = "task" /\ \A i \in Impls : pc[i] = "unborn"
  BY Numbers DEF Init, ImplInit
<1>2. pc[Main] \notin Starting \cup Joining /\ \A i \in Impls : pc[i] \notin Starting \cup Joining
  BY <1>1 DEF Starting, Joining
<1>3. Order
  BY <1>1, <1>2, Numbers DEF Order, Init
<1>4. Creating
  BY <1>2, Numbers DEF Creating
<1>5. OwnLocked
  BY <1>1, Numbers DEF OwnLocked, Init, ImplInit
<1>6. PendingsExact
  BY <1>1 DEF PendingsExact, Distinct, ToSet, Init, QueueInit
<1>7. ReferencesExact
  BY <1>1 DEF ReferencesExact
<1> QED
  BY <1>3, <1>4, <1>5, <1>6, <1>7, TypesStart DEF ReferencesInv

LEMMA ReferencesStep ==
  ASSUME ReferencesInv, [Next]_vars
  PROVE  ReferencesInv'
<1>1. CASE UNCHANGED vars
  <2>1. Types' /\ UNCHANGED refVars
    BY <1>1 DEF vars, queueVars, implVars, refVars, ReferencesInv, Types
  <2> QED BY <2>1, Unmoved
<1>2. CASE Next
  <2>1. PICK t \in Threads :
           \/ Moving(t) /\ UNCHANGED <<handles, ran, found>>
           \/ Unloading(t)
           \/ Counting(t)
    BY <1>2, StepKinds
  <2>2. Types'
    BY <2>1, TypesMoving, TypesUnloading, TypesCounting DEF ReferencesInv
  <2>3. CASE Moving(t) /\ UNCHANGED <<handles, ran, found>>
    BY <2>2, <2>3, MovingMoves, Moved, Unmoved DEF ReferencesInv
  <2>4. CASE Unloading(t)
    BY <2>2, <2>4, UnloadingMoves, Moved DEF ReferencesInv
  <2>5. CASE Counting(t)
    <3>1. ASSUME NEW i \in Impls, Spawn(t, i), UNCHANGED handles PROVE ReferencesInv'
      BY <2>2, <3>1, SpawnKeeps
    <3>2. ASSUME NEW k \in Tasks, AddTask(t, k) \/ RemoveTask(t, k) PROVE ReferencesInv'
      <4>1. UNCHANGED refVars
        BY <3>2 DEF AddTask, RemoveTask, InsertShutdownTask, RemoveShutdownTask,
                    implVars, refVars
      <4> QED BY <2>2, <4>1, Unmoved
    <3>3. ASSUME UNCHANGED handles,
                 Insert(t) \/ Reclaim(t) \/ Inserted(t) \/ BecomePending(t) \/ Exit(t)
          PROVE  ReferencesInv'
      BY <2>2, <3>3, InsertKeeps, ReclaimKeeps, InsertedKeeps, BecomePendingKeeps, ExitKeeps
    <3>4. ASSUME NEW i \in Impls, Drop(t, i) \/ Join(t, i) PROVE ReferencesInv'
      BY <2>2, <3>4, DropKeeps, JoinKeeps
    <3> QED
      BY <2>2, <2>5, <3>1, <3>2, <3>3, <3>4, HandleKeeps DEF Counting
  <2> QED BY <2>1, <2>3, <2>4, <2>5
<1> QED
  BY <1>1, <1>2

LEMMA References == Spec => []ReferencesInv
<1>1. Init => ReferencesInv
  BY ReferencesStart
<1>2. ReferencesInv /\ [Next]_vars => ReferencesInv'
  BY ReferencesStep
<1> QED
  BY <1>1, <1>2, PTL DEF Spec

\* A ThreadImpl is counted as often as it is referred to: by the lists, by its thread
\* and by the Thread object (IntrusivePtr.h); who uses it holds one of these.
THEOREM ReferencesCounted == Spec => []ReferencesExact
<1>1. ReferencesInv => ReferencesExact
  BY DEF ReferencesInv
<1> QED
  BY <1>1, References, PTL

-----------------------------------------------------------------------------
(* The list of user threads, and the states. *)

\* Where the threads go, and that only Spawn brings one into being.
LEMMA MovingUsers ==
  ASSUME Types, NEW t \in Threads, Moving(t)
  PROVE  /\ UNCHANGED pc \/ pc[t] # "d_push"
         /\ UNCHANGED userThreads \/ (userThreads' = userThreads \ {t} /\ pc'[t] = "d_push")
<1> DEFINE Goal ==
             /\ UNCHANGED pc \/ pc[t] # "d_push"
             /\ UNCHANGED userThreads \/ (userThreads' = userThreads \ {t} /\ pc'[t] = "d_push")
<1>1. ASSUME JoinAtOnce(t) PROVE Goal
  BY <1>1 DEF JoinAtOnce, Return, Goto, queueVars, Types
<1>2. ASSUME JoinEnlist(t) PROVE Goal
  BY <1>2 DEF JoinEnlist, Goto, queueVars, Types
<1>3. ASSUME OwnLock(t) PROVE Goal
  BY <1>3 DEF OwnLock, Goto, Lock, queueVars, Types
<1>4. ASSUME WaitSkip(t) PROVE Goal
  BY <1>4 DEF WaitSkip, Report, Goto, queueVars, Types
<1>5. ASSUME WaitSleep(t) PROVE Goal
  BY <1>5 DEF WaitSleep, Goto, Unlock, queueVars, Types
<1>6. ASSUME WaitWake(t) PROVE Goal
  BY <1>6 DEF WaitWake, Report, Goto, queueVars, Types
<1>7. ASSUME WaitExpire(t) PROVE Goal
  BY <1>7 DEF WaitExpire, Report, Goto, queueVars, Types
<1>8. ASSUME JoinReturn(t) PROVE Goal
  BY <1>8 DEF JoinReturn, Return, Goto, Unlock, queueVars, Types
<1>9. ASSUME SetRunning(t) PROVE Goal
  BY <1>9 DEF SetRunning, Goto, queueVars, Types
<1>10. ASSUME TaskEnds(t) PROVE Goal
  BY <1>10 DEF TaskEnds, Goto, queueVars, Types
<1>11. ASSUME SetJoined(t) PROVE Goal
  BY <1>11 DEF SetJoined, Goto, Lock, queueVars, Types
<1>12. ASSUME NotifyEasy(t) PROVE Goal
  BY <1>12 DEF NotifyEasy, Notified, queueVars, Types
<1>13. ASSUME EasyDone(t) PROVE Goal
  BY <1>13 DEF EasyDone, Goto, queueVars, Types
<1>14. ASSUME NotifyRest(t) PROVE Goal
  BY <1>14 DEF NotifyRest, Notified, queueVars, Types
<1>15. ASSUME RestDone(t) PROVE Goal
  BY <1>15 DEF RestDone, Goto, Unlock, queueVars, Types
<1>16. ASSUME LeaveUsers(t) PROVE Goal
  BY <1>16 DEF LeaveUsers, RemoveUser, Goto, queueVars, Types
<1>17. ASSUME Interrupt(t) PROVE Goal
  BY <1>17 DEF Interrupt, queueVars, Types
<1> QED
  BY <1>1, <1>2, <1>3, <1>4, <1>5, <1>6, <1>7, <1>8, <1>9, <1>10, <1>11, <1>12, <1>13,
      <1>14, <1>15, <1>16, <1>17 DEF Moving

LEMMA UsersMoving ==
  ASSUME ReferencesInv, UsersExact, NEW t \in Threads,
         \/ Moving(t) /\ UNCHANGED <<handles, ran, found>>
         \/ Unloading(t)
  PROVE  UsersExact'
<1> USE Numbers
<1>1. UNCHANGED refVars \/ Moves(t)
  BY MovingMoves, UnloadingMoves DEF ReferencesInv
<1>2. \A i \in Impls : Inserting(i) => Inserting(i)'
  BY <1>1 DEF refVars, Moves, Still, Starting, Inserting
<1>3. \A i \in Impls : pc'[i] \notin Out => pc[i] \notin Out /\ (i \in userThreads => i \in userThreads')
  <2>1. CASE Moving(t)
    <3>1. /\ UNCHANGED pc \/ pc[t] # "d_push"
          /\ UNCHANGED userThreads \/ (userThreads' = userThreads \ {t} /\ pc'[t] = "d_push")
      BY <2>1, MovingUsers DEF ReferencesInv
    <3> QED BY <1>1, <3>1 DEF refVars, Moves, Still, Out
  <2>2. CASE Unloading(t)
    <3>1. UNCHANGED userThreads
      BY <2>2 DEF Unloading, UnloadBegin, Unload, UnloadTasks, UnloadSkip, UnloadSleep,
                  UnloadDone, queueVars
    <3>2. t = Main
      BY <2>2 DEF Unloading
    <3> QED BY <1>1, <3>1, <3>2 DEF refVars, Moves
  <2> QED BY <2>1, <2>2
<1> QED
  BY <1>2, <1>3 DEF UsersExact, Inserting

LEMMA UsersCounting ==
  ASSUME ReferencesInv, UsersExact, NEW t \in Threads, Counting(t)
  PROVE  UsersExact'
<1> USE Numbers
<1> DEFINE Goal == UsersExact'
<1>0. ASSUME \A i \in Impls : pc'[i] \notin Out => pc[i] \notin Out,
             \A i \in Impls : Inserting(i) => Inserting(i)' \/ i \in userThreads',
             userThreads \subseteq userThreads'
      PROVE  Goal
  BY <1>0 DEF UsersExact, Inserting
<1>1. ASSUME NEW i \in Impls, Spawn(t, i) PROVE Goal
  <2>1. /\ pc[t] = "task" /\ i # t /\ pc'[t] = "s_insert" /\ target'[t] = i
        /\ \A u \in Threads \ {t, i} : pc'[u] = pc[u]
        /\ \A u \in Threads \ {t} : target'[u] = target[u]
        /\ pc[i] = "unborn" /\ userThreads' = userThreads
    BY <1>1 DEF Spawn, Unborn, ReferencesInv, Types, queueVars
  <2>2. Inserting(i)'
    BY <2>1 DEF Inserting
  <2>3. \A j \in Impls : Inserting(j) => Inserting(j)'
    BY <2>1 DEF Inserting
  <2>4. \A j \in Impls \ {i} : pc'[j] \notin Out => pc[j] \notin Out
    BY <2>1 DEF Out
  <2> QED BY <2>1, <2>2, <2>3, <2>4 DEF UsersExact, Inserting
<1>2. ASSUME Insert(t) PROVE Goal
  <2>1. /\ pc[t] = "s_insert" /\ pc'[t] = "s_poll" /\ Others(t) /\ UNCHANGED target
        /\ userThreads' = userThreads \cup {target[t]}
    BY <1>2 DEF Insert, InsertUser, Goto, Others, ReferencesInv, Types
  <2>2. \A j \in Impls : Inserting(j) => Inserting(j)' \/ j \in userThreads'
    BY <2>1 DEF Inserting, Others
  <2>3. \A j \in Impls : pc'[j] \notin Out => pc[j] \notin Out
    BY <2>1 DEF Others, Out
  <2> QED BY <1>0, <2>1, <2>2, <2>3
<1>3. ASSUME pc[t] # "s_insert", Others(t), UNCHANGED userThreads,
             pc'[t] \notin Out => pc[t] \notin Out
      PROVE  Goal
  BY <1>0, <1>3 DEF Others, Inserting
<1>4. ASSUME Reclaim(t) \/ Inserted(t) \/ BecomePending(t) \/ Exit(t) PROVE Goal
  <2>1. /\ pc[t] # "s_insert" /\ UNCHANGED userThreads /\ Others(t)
        /\ pc'[t] \notin Out => pc[t] \notin Out
    BY <1>4 DEF Reclaim, TakePending, Inserted, UserInserted, BecomePending, AddPending,
                Exit, Goto, queueVars, Others, Out, ReferencesInv, Types
  <2> QED BY <1>3, <2>1
<1>5. ASSUME Handle(t) \/ \E i \in Impls : Drop(t, i) \/ Join(t, i) PROVE Goal
  <2>1. /\ pc[t] # "s_insert" /\ UNCHANGED userThreads /\ Others(t)
        /\ pc'[t] \notin Out => pc[t] \notin Out
    BY <1>5 DEF Handle, Drop, Join, Return, Goto, queueVars, Others, Out, ReferencesInv, Types
  <2> QED BY <1>3, <2>1
<1>6. ASSUME NEW k \in Tasks, AddTask(t, k) \/ RemoveTask(t, k) PROVE Goal
  <2>1. /\ pc[t] # "s_insert" /\ UNCHANGED userThreads /\ Others(t) /\ UNCHANGED pc
    BY <1>6 DEF AddTask, RemoveTask, InsertShutdownTask, RemoveShutdownTask, implVars, Others
  <2> QED BY <1>3, <2>1
<1> QED
  BY <1>1, <1>2, <1>4, <1>5, <1>6 DEF Counting

LEMMA StatesMoving ==
  ASSUME Types, StatesExact, NEW t \in Threads, Moving(t)
  PROVE  StatesExact'
<1> USE Numbers
<1> DEFINE Goal == StatesExact'
<1>1. ASSUME JoinAtOnce(t) PROVE Goal
  BY <1>1 DEF JoinAtOnce, Return, Goto, queueVars, Types, StatesExact, Joining, Ending,
      Leaving
<1>2. ASSUME JoinEnlist(t) PROVE Goal
  BY <1>2 DEF JoinEnlist, Goto, queueVars, Types, StatesExact, Joining, Ending, Leaving
<1>3. ASSUME OwnLock(t) PROVE Goal
  <2>1. PICK label \in {"j_wait", "j_back", "x_wait", "x_poll"} :
          /\ pc' = [pc EXCEPT ![t] = label]
          /\ pc[t] \notin Ending
          /\ label \in Leaving <=> pc[t] \in Leaving
    BY <1>3 DEF OwnLock, Goto, Ending, Leaving
  <2>2. UNCHANGED <<lifecycle, waiter>>
    BY <1>3 DEF OwnLock, queueVars
  <2> QED
    BY <2>1, <2>2 DEF Types, StatesExact, Ending
<1>4. ASSUME WaitSkip(t) PROVE Goal
  BY <1>4 DEF WaitSkip, Report, Goto, queueVars, Types, StatesExact, Joining, Ending,
      Leaving
<1>5. ASSUME WaitSleep(t) PROVE Goal
  BY <1>5 DEF WaitSleep, Goto, Unlock, queueVars, Types, StatesExact, Joining, Ending,
      Leaving
<1>6. ASSUME WaitWake(t) PROVE Goal
  <2>1. PICK label \in {"j_woken", "x_woken"} :
          /\ Report(t, pending[t], label)
          /\ pc[t] \notin Ending
          /\ label \in Leaving <=> pc[t] \in Leaving
    BY <1>6 DEF WaitWake, Ending, Leaving
  <2> QED
    BY <2>1 DEF Report, Goto, queueVars, Types, StatesExact, Ending
<1>7. ASSUME WaitExpire(t) PROVE Goal
  BY <1>7 DEF WaitExpire, Report, Goto, queueVars, Types, StatesExact, Joining, Ending,
      Leaving
<1>8. ASSUME JoinReturn(t) PROVE Goal
  BY <1>8 DEF JoinReturn, Return, Goto, Unlock, queueVars, Types, StatesExact, Joining,
      Ending, Leaving
<1>9. ASSUME SetRunning(t) PROVE Goal
  BY <1>9 DEF SetRunning, Goto, queueVars, Types, StatesExact, Joining, Ending, Leaving
<1>10. ASSUME TaskEnds(t) PROVE Goal
  BY <1>10 DEF TaskEnds, Goto, queueVars, Types, StatesExact, Joining, Ending, Leaving
<1>11. ASSUME SetJoined(t) PROVE Goal
  BY <1>11 DEF SetJoined, Goto, Lock, queueVars, Types, StatesExact, Joining, Ending,
      Leaving
<1>12. ASSUME NotifyEasy(t) PROVE Goal
  BY <1>12 DEF NotifyEasy, Notified, queueVars, Types, StatesExact, Joining, Ending, Leaving
<1>13. ASSUME EasyDone(t) PROVE Goal
  BY <1>13 DEF EasyDone, Goto, queueVars, Types, StatesExact, Joining, Ending, Leaving
<1>14. ASSUME NotifyRest(t) PROVE Goal
  BY <1>14 DEF NotifyRest, Notified, queueVars, Types, StatesExact, Joining, Ending, Leaving
<1>15. ASSUME RestDone(t) PROVE Goal
  BY <1>15 DEF RestDone, Goto, Unlock, queueVars, Types, StatesExact, Joining, Ending,
      Leaving
<1>16. ASSUME LeaveUsers(t) PROVE Goal
  BY <1>16 DEF LeaveUsers, RemoveUser, Goto, queueVars, Types, StatesExact, Joining, Ending,
      Leaving
<1>17. ASSUME Interrupt(t) PROVE Goal
  BY <1>17 DEF Interrupt, queueVars, Types, StatesExact, Joining, Ending, Leaving
<1> QED
  BY <1>1, <1>2, <1>3, <1>4, <1>5, <1>6, <1>7, <1>8, <1>9, <1>10, <1>11, <1>12, <1>13,
      <1>14, <1>15, <1>16, <1>17 DEF Moving

LEMMA StatesUnloading ==
  ASSUME Types, StatesExact, NEW t \in Threads, Unloading(t)
  PROVE  StatesExact'
<1> USE Numbers
<1> DEFINE Goal == StatesExact'
<1>0. t = Main
  BY DEF Unloading
<1>1. ASSUME UnloadBegin PROVE Goal
  BY <1>0, <1>1 DEF UnloadBegin, Unload, Goto, Types, StatesExact, Ending, Leaving
<1>2. ASSUME UnloadTasks PROVE Goal
  BY <1>0, <1>2 DEF UnloadTasks, Goto, queueVars, Types, StatesExact, Ending, Leaving
<1>3. ASSUME UnloadSkip PROVE Goal
  <2>1. pc' = [pc EXCEPT ![Main] = "x_poll"] /\ pc[Main] = "x_wait"
    BY <1>3 DEF UnloadSkip, Goto
  <2>2. UNCHANGED <<lifecycle, waiter>>
    BY <1>3 DEF UnloadSkip, queueVars
  <2> QED
    BY <2>1, <2>2 DEF Types, StatesExact, Ending, Leaving
<1>4. ASSUME UnloadSleep PROVE Goal
  BY <1>0, <1>4 DEF UnloadSleep, Goto, Unlock, queueVars, Types, StatesExact, Ending,
      Leaving
<1>5. ASSUME UnloadDone PROVE Goal
  BY <1>0, <1>5 DEF UnloadDone, Goto, Unlock, Del, queueVars, Types, StatesExact, Ending,
      Leaving
<1> QED
  BY <1>1, <1>2, <1>3, <1>4, <1>5 DEF Unloading

LEMMA StatesCounting ==
  ASSUME ReferencesInv, StatesExact, NEW t \in Threads, Counting(t)
  PROVE  StatesExact'
<1> USE Numbers
<1> DEFINE Goal == StatesExact'
<1>0. ASSUME \A u \in Threads : /\ pc'[u] \in Ending <=> pc[u] \in Ending
                                /\ pc'[u] \in Leaving <=> pc[u] \in Leaving,
             \A u \in Impls : lifecycle'[u] = "JOINED" <=> lifecycle[u] = "JOINED",
             waiter' = "main" <=> waiter = "main"
      PROVE  Goal
  BY <1>0 DEF StatesExact
<1>1. ASSUME NEW i \in Impls, Spawn(t, i) PROVE Goal
  <2>1. /\ pc[t] = "task" /\ i # t /\ pc'[t] = "s_insert"
        /\ \A u \in Threads \ {t, i} : pc'[u] = pc[u]
        /\ pc[i] = "unborn" /\ pc'[i] = "born" /\ UNCHANGED waiter
        /\ lifecycle'[i] = "STARTING"
        /\ \A u \in Threads \ {i} : lifecycle'[u] = lifecycle[u]
    BY <1>1 DEF Spawn, Unborn, ReferencesInv, Types, queueVars
  <2> QED BY <2>1 DEF StatesExact, Ending, Leaving
<1>2. ASSUME UNCHANGED lifecycle, waiter' = "main" <=> waiter = "main",
             \A u \in Threads \ {t} : pc'[u] = pc[u],
             /\ pc'[t] \in Ending <=> pc[t] \in Ending
             /\ pc'[t] \in Leaving <=> pc[t] \in Leaving
      PROVE  Goal
  BY <1>0, <1>2
<1>3. ASSUME Insert(t) PROVE Goal
  BY <1>2, <1>3 DEF Insert, InsertUser, Goto, ReferencesInv, Types, Ending, Leaving
<1>4. ASSUME Reclaim(t) \/ Inserted(t) PROVE Goal
  BY <1>2, <1>4 DEF Reclaim, TakePending, Inserted, UserInserted, Goto, ReferencesInv,
                    Types, Ending, Leaving
<1>5. ASSUME BecomePending(t) PROVE Goal
  <2>1. waiter' = "main" <=> waiter = "main"
    BY <1>5 DEF BecomePending, AddPending
  <2>2. UNCHANGED lifecycle /\ pc' = [pc EXCEPT ![t] = "d_drop"] /\ pc[t] = "d_push"
    BY <1>5 DEF BecomePending, Goto
  <2> QED BY <1>2, <2>1, <2>2 DEF ReferencesInv, Types, Ending, Leaving
<1>6. ASSUME Exit(t) PROVE Goal
  BY <1>2, <1>6 DEF Exit, Goto, queueVars, ReferencesInv, Types, Ending, Leaving
<1>7. ASSUME Handle(t) PROVE Goal
  BY <1>2, <1>7 DEF Handle, Return, Goto, queueVars, ReferencesInv, Types, Ending, Leaving
<1>8. ASSUME NEW i \in Impls, Drop(t, i) \/ Join(t, i) PROVE Goal
  BY <1>2, <1>8 DEF Drop, Join, Goto, queueVars, ReferencesInv, Types, Ending, Leaving
<1>9. ASSUME NEW k \in Tasks, AddTask(t, k) \/ RemoveTask(t, k) PROVE Goal
  BY <1>2, <1>9 DEF AddTask, RemoveTask, InsertShutdownTask, RemoveShutdownTask, implVars
<1> QED
  BY <1>1, <1>3, <1>4, <1>5, <1>6, <1>7, <1>8, <1>9 DEF Counting

LEMMA StatesStep ==
  ASSUME ReferencesInv, UsersExact, StatesExact, [Next]_vars
  PROVE  UsersExact' /\ StatesExact'
<1>1. CASE UNCHANGED vars
  BY <1>1 DEF vars, queueVars, implVars, UsersExact, StatesExact
<1>2. CASE Next
  <2>1. PICK t \in Threads :
           \/ Moving(t) /\ UNCHANGED <<handles, ran, found>>
           \/ Unloading(t)
           \/ Counting(t)
    BY <1>2, StepKinds
  <2> QED
    BY <2>1, UsersMoving, UsersCounting, StatesMoving, StatesUnloading, StatesCounting
    DEF ReferencesInv
<1> QED
  BY <1>1, <1>2

\* The list of user threads is empty, and Main inserts nobody: all are out.  A thread
\* that is not listed is being inserted by an older one, which is not out either.
LEMMA NobodyLeft ==
  ASSUME Types, Order, UsersExact, userThreads = {}, pc[Main] # "s_insert"
  PROVE  AllOut
<1> USE Numbers
<1> DEFINE S == {i \in Impls : pc[i] \notin Out}
<1>1. ASSUME S # {} PROVE FALSE
  <2>1. S \subseteq Nat
    OBVIOUS
  <2> HIDE DEF S
  <2>2. PICK i \in S : \A j \in S : ~(<<j, i>> \in OpToRel(<, Nat))
    BY <1>1, <2>1, NatLessThanWellFounded, WFMin
  <2>3. i \in Impls /\ pc[i] \notin Out
    BY DEF S
  <2>4. PICK t \in Threads : pc[t] = "s_insert" /\ target[t] = i
    BY <2>3 DEF UsersExact
  <2>5. t \in S /\ t < i
    BY <2>4 DEF S, Out, Order, Starting
  <2>6. <<t, i>> \in OpToRel(<, Nat)
    BY <2>1, <2>5 DEF OpToRel
  <2> QED BY <2>2, <2>5, <2>6
<1> QED
  BY <1>1 DEF AllOut

\* Where a thread is, it does not go back: t is the one that takes the step.
Forth(a, b) ==
  /\ a \in Ending => b \in Ending
  /\ a \in Leaving => b \in Leaving
  /\ a \in Out => b \in Out
  /\ a \in Joining => b \in Joining \cup {"task"}

LEMMA MovingForth ==
  ASSUME Types, NEW t \in Threads, Moving(t)
  PROVE  UNCHANGED <<pc, target>> \/ (Others(t) /\ Forth(pc[t], pc'[t]) /\ pc[t] \notin Out)
<1> USE Numbers
<1> DEFINE Goal == UNCHANGED <<pc, target>>
                     \/ (Others(t) /\ Forth(pc[t], pc'[t]) /\ pc[t] \notin Out)
<1>1. ASSUME JoinAtOnce(t) PROVE Goal
  BY <1>1 DEF JoinAtOnce, Return, Goto, queueVars, Others, Forth, Types, Out, Joining,
      Ending, Leaving
<1>2. ASSUME JoinEnlist(t) PROVE Goal
  BY <1>2 DEF JoinEnlist, Goto, queueVars, Others, Forth, Types, Out, Joining, Ending,
      Leaving
<1>3. ASSUME OwnLock(t) PROVE Goal
  <2>1. PICK label \in {"j_wait", "j_back", "x_wait", "x_poll"} :
          /\ pc' = [pc EXCEPT ![t] = label]
          /\ Forth(pc[t], label) /\ pc[t] \notin Out
    BY <1>3 DEF OwnLock, Goto, Forth, Out, Joining, Ending, Leaving
  <2>2. UNCHANGED target
    BY <1>3 DEF OwnLock
  <2> QED
    BY <2>1, <2>2 DEF Types, Others
<1>4. ASSUME WaitSkip(t) PROVE Goal
  BY <1>4 DEF WaitSkip, Report, Goto, queueVars, Others, Forth, Types, Out, Joining, Ending,
      Leaving
<1>5. ASSUME WaitSleep(t) PROVE Goal
  BY <1>5 DEF WaitSleep, Goto, Unlock, queueVars, Others, Forth, Types, Out, Joining,
      Ending, Leaving
<1>6. ASSUME WaitWake(t) PROVE Goal
  <2>1. PICK label \in {"j_woken", "x_woken"} :
          Report(t, pending[t], label) /\ Forth(pc[t], label) /\ pc[t] \notin Out
    BY <1>6 DEF WaitWake, Forth, Out, Joining, Ending, Leaving
  <2> QED
    BY <2>1 DEF Report, Goto, Types, Others
<1>7. ASSUME WaitExpire(t) PROVE Goal
  BY <1>7 DEF WaitExpire, Report, Goto, queueVars, Others, Forth, Types, Out, Joining,
      Ending, Leaving
<1>8. ASSUME JoinReturn(t) PROVE Goal
  BY <1>8 DEF JoinReturn, Return, Goto, Unlock, queueVars, Others, Forth, Types, Out,
      Joining, Ending, Leaving
<1>9. ASSUME SetRunning(t) PROVE Goal
  BY <1>9 DEF SetRunning, Goto, queueVars, Others, Forth, Types, Out, Joining, Ending,
      Leaving
<1>10. ASSUME TaskEnds(t) PROVE Goal
  BY <1>10 DEF TaskEnds, Goto, queueVars, Others, Forth, Types, Out, Joining, Ending,
      Leaving
<1>11. ASSUME SetJoined(t) PROVE Goal
  BY <1>11 DEF SetJoined, Goto, Lock, queueVars, Others, Forth, Types, Out, Joining, Ending,
      Leaving
<1>12. ASSUME NotifyEasy(t) PROVE Goal
  BY <1>12 DEF NotifyEasy, Notified, queueVars, Others, Forth, Types, Out, Joining, Ending,
      Leaving
<1>13. ASSUME EasyDone(t) PROVE Goal
  BY <1>13 DEF EasyDone, Goto, queueVars, Others, Forth, Types, Out, Joining, Ending,
      Leaving
<1>14. ASSUME NotifyRest(t) PROVE Goal
  BY <1>14 DEF NotifyRest, Notified, queueVars, Others, Forth, Types, Out, Joining, Ending,
      Leaving
<1>15. ASSUME RestDone(t) PROVE Goal
  BY <1>15 DEF RestDone, Goto, Unlock, queueVars, Others, Forth, Types, Out, Joining,
      Ending, Leaving
<1>16. ASSUME LeaveUsers(t) PROVE Goal
  BY <1>16 DEF LeaveUsers, RemoveUser, Goto, queueVars, Others, Forth, Types, Out, Joining,
      Ending, Leaving
<1>17. ASSUME Interrupt(t) PROVE Goal
  BY <1>17 DEF Interrupt, queueVars, Others, Forth, Types, Out, Joining, Ending, Leaving
<1> QED
  BY <1>1, <1>2, <1>3, <1>4, <1>5, <1>6, <1>7, <1>8, <1>9, <1>10, <1>11, <1>12, <1>13,
      <1>14, <1>15, <1>16, <1>17 DEF Moving

LEMMA UnloadingForth ==
  ASSUME Types, NEW t \in Threads, Unloading(t)
  PROVE  t = Main /\ UNCHANGED target /\ Others(t) /\ Forth(pc[t], pc'[t])
           /\ pc[t] \notin Joining \cup Ending
<1> USE Numbers
<1> DEFINE Goal == UNCHANGED target /\ Others(t) /\ Forth(pc[t], pc'[t])
                     /\ pc[t] \notin Joining \cup Ending
<1>0. t = Main
  BY DEF Unloading
<1>1. ASSUME UnloadBegin PROVE Goal
  BY <1>0, <1>1 DEF UnloadBegin, Unload, Goto, Others, Forth, Types, Out, Joining, Ending,
      Leaving
<1>2. ASSUME UnloadTasks PROVE Goal
  BY <1>0, <1>2 DEF UnloadTasks, Goto, queueVars, Others, Forth, Types, Out, Joining,
      Ending, Leaving
<1>3. ASSUME UnloadSkip PROVE Goal
  <2>1. pc' = [pc EXCEPT ![Main] = "x_poll"] /\ pc[Main] = "x_wait" /\ UNCHANGED target
    BY <1>3 DEF UnloadSkip, Goto
  <2> QED
    BY <1>0, <2>1 DEF Types, Others, Forth, Out, Joining, Ending, Leaving
<1>4. ASSUME UnloadSleep PROVE Goal
  BY <1>0, <1>4 DEF UnloadSleep, Goto, Unlock, queueVars, Others, Forth, Types, Out,
      Joining, Ending, Leaving
<1>5. ASSUME UnloadDone PROVE Goal
  BY <1>0, <1>5 DEF UnloadDone, Goto, Unlock, Del, queueVars, Others, Forth, Types, Out,
      Joining, Ending, Leaving
<1> QED
  BY <1>0, <1>1, <1>2, <1>3, <1>4, <1>5 DEF Unloading

LEMMA CountingForth ==
  ASSUME ReferencesInv, NEW t \in Threads, Counting(t)
  PROVE  \/ Others(t) /\ Forth(pc[t], pc'[t])
              /\ (pc'[t] \in Joining \ {"j_enter"} => UNCHANGED <<pc, target>>)
         \/ \E i \in Impls : Spawn(t, i)
<1> USE Numbers
<1> DEFINE Kept == Others(t) /\ Forth(pc[t], pc'[t])
                     /\ (pc'[t] \in Joining \ {"j_enter"} => UNCHANGED <<pc, target>>)
<1>1. ASSUME Insert(t) PROVE Kept
  BY <1>1 DEF Insert, Goto, ReferencesInv, Types, Others, Forth, Out, Joining, Ending, Leaving
<1>2. ASSUME Reclaim(t) PROVE Kept
  BY <1>2 DEF Reclaim, Others, Forth
<1>3. ASSUME Inserted(t) PROVE Kept
  BY <1>3 DEF Inserted, Goto, ReferencesInv, Types, Others, Forth, Out, Joining, Ending, Leaving
<1>4. ASSUME BecomePending(t) PROVE Kept
  <2>1. pc' = [pc EXCEPT ![t] = "d_drop"] /\ pc[t] = "d_push" /\ UNCHANGED target
    BY <1>4 DEF BecomePending, Goto
  <2> QED
    BY <2>1 DEF ReferencesInv, Types, Others, Forth, Out, Joining, Ending, Leaving
<1>5. ASSUME Exit(t) PROVE Kept
  BY <1>5 DEF Exit, Goto, ReferencesInv, Types, Others, Forth, Out, Joining, Ending, Leaving
<1>6. ASSUME Handle(t) PROVE Kept
  BY <1>6 DEF Handle, Return, Goto, ReferencesInv, Types, Others, Forth, Out, Joining,
              Ending, Leaving
<1>7. ASSUME NEW i \in Impls, Drop(t, i) PROVE Kept
  BY <1>7 DEF Drop, Others, Forth
<1>8. ASSUME NEW i \in Impls, Join(t, i) PROVE Kept
  BY <1>8 DEF Join, Goto, ReferencesInv, Types, Others, Forth, Out, Joining, Ending, Leaving
<1>9. ASSUME NEW k \in Tasks, AddTask(t, k) \/ RemoveTask(t, k) PROVE Kept
  BY <1>9 DEF AddTask, RemoveTask, implVars, Others, Forth
<1> QED
  BY <1>1, <1>2, <1>3, <1>4, <1>5, <1>6, <1>7, <1>8, <1>9 DEF Counting

-----------------------------------------------------------------------------
(* The joiners. *)

Enlisted == Joining \ {"j_enter"}

LEMMA MovingJoins ==
  ASSUME Types, NEW t \in Threads, Moving(t)
  PROVE  \/ JoinEnlist(t) \/ JoinReturn(t) \/ NotifyEasy(t)
         \/ /\ UNCHANGED joiners
            /\ pc[t] \in Enlisted => pc'[t] \in Enlisted /\ target'[t] = target[t]
<1> DEFINE Goal ==
             \/ JoinEnlist(t) \/ JoinReturn(t) \/ NotifyEasy(t)
             \/ /\ UNCHANGED joiners
                /\ pc[t] \in Enlisted => pc'[t] \in Enlisted /\ target'[t] = target[t]
<1>1. ASSUME JoinAtOnce(t) PROVE Goal
  BY <1>1 DEF JoinAtOnce, Return, Goto, queueVars, Types, Enlisted, Joining
<1>2. ASSUME JoinEnlist(t) PROVE Goal
  BY <1>2
<1>3. ASSUME OwnLock(t) PROVE Goal
  <2>1. PICK label \in {"j_wait", "j_back", "x_wait", "x_poll"} :
          /\ pc' = [pc EXCEPT ![t] = label]
          /\ pc[t] \in Joining => label \in Enlisted
    BY <1>3 DEF OwnLock, Goto, Enlisted, Joining
  <2>2. UNCHANGED <<target, joiners>>
    BY <1>3 DEF OwnLock
  <2> QED
    BY <2>1, <2>2 DEF Types, Enlisted
<1>4. ASSUME WaitSkip(t) PROVE Goal
  BY <1>4 DEF WaitSkip, Report, Goto, queueVars, Types, Enlisted, Joining
<1>5. ASSUME WaitSleep(t) PROVE Goal
  BY <1>5 DEF WaitSleep, Goto, Unlock, queueVars, Types, Enlisted, Joining
<1>6. ASSUME WaitWake(t) PROVE Goal
  <2>1. PICK label \in {"j_woken", "x_woken"} :
          Report(t, pending[t], label) /\ (pc[t] \in Joining => label \in Enlisted)
    BY <1>6 DEF WaitWake, Enlisted, Joining
  <2> QED
    BY <2>1 DEF Report, Goto, Types, Enlisted
<1>7. ASSUME WaitExpire(t) PROVE Goal
  BY <1>7 DEF WaitExpire, Report, Goto, queueVars, Types, Enlisted, Joining
<1>8. ASSUME JoinReturn(t) PROVE Goal
  BY <1>8
<1>9. ASSUME SetRunning(t) PROVE Goal
  BY <1>9 DEF SetRunning, Goto, queueVars, Types, Enlisted, Joining
<1>10. ASSUME TaskEnds(t) PROVE Goal
  BY <1>10 DEF TaskEnds, Goto, queueVars, Types, Enlisted, Joining
<1>11. ASSUME SetJoined(t) PROVE Goal
  BY <1>11 DEF SetJoined, Goto, Lock, queueVars, Types, Enlisted, Joining
<1>12. ASSUME NotifyEasy(t) PROVE Goal
  BY <1>12
<1>13. ASSUME EasyDone(t) PROVE Goal
  BY <1>13 DEF EasyDone, Goto, queueVars, Types, Enlisted, Joining
<1>14. ASSUME NotifyRest(t) PROVE Goal
  BY <1>14 DEF NotifyRest, Notified, queueVars, Types, Enlisted, Joining
<1>15. ASSUME RestDone(t) PROVE Goal
  BY <1>15 DEF RestDone, Goto, Unlock, queueVars, Types, Enlisted, Joining
<1>16. ASSUME LeaveUsers(t) PROVE Goal
  BY <1>16 DEF LeaveUsers, RemoveUser, Goto, queueVars, Types, Enlisted, Joining
<1>17. ASSUME Interrupt(t) PROVE Goal
  BY <1>17 DEF Interrupt, queueVars, Types, Enlisted, Joining
<1> QED
  BY <1>1, <1>2, <1>3, <1>4, <1>5, <1>6, <1>7, <1>8, <1>9, <1>10, <1>11, <1>12, <1>13,
      <1>14, <1>15, <1>16, <1>17 DEF Moving

LEMMA JoinersKept ==
  ASSUME JoinersExact, UNCHANGED joiners,
         \A u \in Threads : pc[u] \in Enlisted => pc'[u] \in Enlisted /\ target'[u] = target[u]
  PROVE  JoinersExact'
<1>1. \A i \in Threads : /\ ToSet(joiners[i])' = ToSet(joiners[i])
                         /\ ToSet(joiners[i]) \subseteq Threads
                         /\ Distinct(joiners[i])' <=> Distinct(joiners[i])
  BY DEF JoinersExact, ToSet, Distinct
<1> QED
  BY <1>1 DEF JoinersExact, Enlisted

\* The joiners of i change, those of the other threads do not.
LEMMA JoinersChanged ==
  ASSUME Types, JoinersExact, NEW i \in Threads, NEW q \in Seq(Threads), Distinct(q),
         joiners' = [joiners EXCEPT ![i] = q],
         \A u \in Threads : pc[u] \in Enlisted =>
           (pc'[u] \in Enlisted /\ target'[u] = target[u]) \/ target[u] = i,
         \A u \in ToSet(q) : target'[u] = i /\ pc'[u] \in Enlisted
  PROVE  JoinersExact'
<1>1. joiners' \in [Threads -> Seq(Threads)] /\ joiners'[i] = q
  BY DEF JoinersExact
<1>2. Distinct(joiners'[i]) /\ ToSet(joiners'[i]) = ToSet(q)
  BY <1>1
<1>3. \A j \in Threads \ {i} : joiners'[j] = joiners[j]
  BY DEF JoinersExact
<1>4. \A j \in Threads \ {i} : \A u \in ToSet(joiners[j]) :
        u \in Threads /\ target'[u] = j /\ pc'[u] \in Enlisted
  <2>1. \A j \in Threads : ToSet(joiners[j]) \subseteq Threads
    BY DEF JoinersExact, ToSet
  <2> QED BY <2>1, ZenonT(40) DEF JoinersExact, Enlisted
<1>5. \A j \in Threads : Distinct(joiners'[j]) /\ ToSet(joiners[j])' = ToSet(joiners'[j])
  BY <1>2, <1>3 DEF JoinersExact, ToSet
<1>6. \A j \in Threads : \A u \in ToSet(joiners'[j]) : target'[u] = j /\ pc'[u] \in Enlisted
  BY <1>2, <1>3, <1>4
<1>7. \A j \in Threads : Distinct(joiners[j])'
  BY <1>5 DEF Distinct
<1> QED
  BY <1>1, <1>5, <1>6, <1>7 DEF JoinersExact, Enlisted

LEMMA JoinersEnlist ==
  ASSUME ReferencesInv, JoinersExact, NEW t \in Threads, JoinEnlist(t)
  PROVE  /\ JoinersExact'
         /\ ToSet(joiners'[target[t]]) = ToSet(joiners[target[t]]) \cup {t}
<1> USE Numbers
<1>1. PICK i \in Impls : i = target[t] /\ i \in Threads
  BY DEF JoinEnlist, ReferencesInv, Order, Joining
<1>2. /\ pc[t] = "j_enter" /\ pc'[t] = "j_own" /\ Others(t) /\ UNCHANGED target
      /\ joiners' = [joiners EXCEPT ![i] = Append(joiners[i], t)]
  BY <1>1 DEF JoinEnlist, Goto, Others, ReferencesInv, Types, JoinersExact
<1>3. t \notin ToSet(joiners[i])
  BY <1>1, <1>2 DEF JoinersExact
<1>4. /\ Append(joiners[i], t) \in Seq(Threads) /\ Distinct(Append(joiners[i], t))
      /\ ToSet(Append(joiners[i], t)) = ToSet(joiners[i]) \cup {t}
  <2>1. joiners[i] \in Seq(Threads) /\ Distinct(joiners[i])
    BY <1>1 DEF JoinersExact
  <2> QED BY <1>3, <2>1, AppendList
<1>5. \A u \in Threads : pc[u] \in Enlisted => pc'[u] \in Enlisted /\ target'[u] = target[u]
  BY <1>2 DEF Others, Enlisted
<1>6. \A u \in ToSet(joiners[i]) \cup {t} : target'[u] = i /\ pc'[u] \in Enlisted
  <2>1. ToSet(joiners[i]) \subseteq Threads
    BY <1>1 DEF JoinersExact, ToSet
  <2>2. \A u \in ToSet(joiners[i]) : target[u] = i /\ pc[u] \in Enlisted
    BY <1>1 DEF JoinersExact, Enlisted
  <2> QED BY <1>1, <1>2, <1>5, <2>1, <2>2 DEF Enlisted, Joining
<1>7. JoinersExact'
  <2> DEFINE q == Append(joiners[i], t)
  <2>1. /\ Types /\ JoinersExact /\ i \in Threads /\ q \in Seq(Threads) /\ Distinct(q)
        /\ joiners' = [joiners EXCEPT ![i] = q]
    BY <1>1, <1>2, <1>4 DEF ReferencesInv
  <2>2. /\ \A u \in Threads : pc[u] \in Enlisted =>
             (pc'[u] \in Enlisted /\ target'[u] = target[u]) \/ target[u] = i
        /\ \A u \in ToSet(q) : target'[u] = i /\ pc'[u] \in Enlisted
    BY <1>4, <1>5, <1>6
  <2> HIDE DEF q
  <2> QED BY <2>1, <2>2, JoinersChanged
<1> QED
  BY <1>1, <1>2, <1>4, <1>7 DEF JoinersExact

LEMMA JoinersReturned ==
  ASSUME ReferencesInv, JoinersExact, NEW t \in Threads, JoinReturn(t)
  PROVE  /\ JoinersExact'
         /\ ToSet(joiners'[target[t]]) \subseteq ToSet(joiners[target[t]]) \ {t}
<1> USE Numbers
<1>1. PICK i \in Impls : i = target[t] /\ i \in Threads
  BY DEF JoinReturn, ReferencesInv, Order, Joining
<1>2. /\ pc[t] = "j_back" /\ pc'[t] = "task" /\ Others(t)
      /\ joiners' = [joiners EXCEPT ![i] = RemoveFirst(joiners[i], t)]
  BY <1>1 DEF JoinReturn, Return, Goto, Others, ReferencesInv, Types, JoinersExact
<1> DEFINE q == RemoveFirst(joiners[i], t)
<1>3. q \in Seq(Threads) /\ Distinct(q) /\ ToSet(q) = ToSet(joiners[i]) \ {t}
  <2>1. joiners[i] \in Seq(Threads) /\ Distinct(joiners[i])
    BY <1>1 DEF JoinersExact
  <2>2. CASE t \in ToSet(joiners[i])
    BY <2>1, <2>2, RemoveFirstList
  <2>3. CASE t \notin ToSet(joiners[i])
    <3>1. ~ \E k \in 1 .. Len(joiners[i]) : joiners[i][k] = t
      BY <2>1, <2>3 DEF ToSet
    <3>2. q = joiners[i]
      BY <3>1 DEF RemoveFirst
    <3> QED BY <2>1, <2>3, <3>2
  <2> QED BY <2>2, <2>3
<1> HIDE DEF q
<1>4. \A u \in Threads : pc[u] \in Enlisted =>
        (pc'[u] \in Enlisted /\ target'[u] = target[u]) \/ target[u] = i
  BY <1>1, <1>2 DEF Others
<1>5. \A u \in ToSet(q) : target'[u] = i /\ pc'[u] \in Enlisted
  <2>1. ToSet(joiners[i]) \subseteq Threads
    BY <1>1 DEF JoinersExact, ToSet
  <2>2. \A u \in ToSet(joiners[i]) : target[u] = i /\ pc[u] \in Enlisted
    BY <1>1 DEF JoinersExact, Enlisted
  <2> QED BY <1>2, <1>3, <2>1, <2>2 DEF Others
<1>6. joiners' = [joiners EXCEPT ![i] = q]
  BY <1>2 DEF q
<1>7. JoinersExact'
  BY <1>1, <1>3, <1>4, <1>5, <1>6, JoinersChanged DEF ReferencesInv
<1> QED
  BY <1>1, <1>3, <1>6, <1>7 DEF JoinersExact

LEMMA JoinersNotified ==
  ASSUME ReferencesInv, JoinersExact, NEW i \in Threads, NotifyEasy(i)
  PROVE  /\ JoinersExact'
         /\ LET u == joiners[i][cursor[i]] IN
              /\ u \in ToSet(joiners[i])
              /\ IF mlock[u] = None THEN ToSet(joiners'[i]) = ToSet(joiners[i]) \ {u}
                                    ELSE joiners' = joiners
<1> USE Numbers
<1>1. PICK u \in Threads : u = joiners[i][cursor[i]] /\ u \in ToSet(joiners[i])
  BY DEF NotifyEasy, JoinersExact, ToSet
<1>2. UNCHANGED <<pc, target>>
  BY DEF NotifyEasy
<1>3. CASE mlock[u] # None
  <2>1. UNCHANGED joiners
    BY <1>1, <1>3 DEF NotifyEasy
  <2>2. JoinersExact'
    BY <1>2, <2>1, JoinersKept
  <2> QED BY <1>1, <1>3, <2>1, <2>2
<1>4. CASE mlock[u] = None
  <2> DEFINE q == RemoveAt(joiners[i], cursor[i])
  <2>1. joiners' = [joiners EXCEPT ![i] = q]
    BY <1>1, <1>4 DEF NotifyEasy, JoinersExact
  <2>2. q \in Seq(Threads) /\ Distinct(q) /\ ToSet(q) = ToSet(joiners[i]) \ {u}
    <3>1. joiners[i] \in Seq(Threads) /\ Distinct(joiners[i])
      BY DEF JoinersExact
    <3>2. cursor[i] \in 1 .. Len(joiners[i])
      BY <3>1 DEF NotifyEasy
    <3> QED BY <1>1, <3>1, <3>2, RemoveAtList
  <2> HIDE DEF q
  <2>3. \A w \in ToSet(q) : target'[w] = i /\ pc'[w] \in Enlisted
    BY <1>2, <2>2 DEF JoinersExact, Enlisted
  <2>4. JoinersExact'
    BY <1>2, <2>1, <2>2, <2>3, JoinersChanged DEF ReferencesInv
  <2>5. joiners'[i] = q
    BY <2>1 DEF JoinersExact
  <2> QED BY <1>1, <1>4, <2>2, <2>4, <2>5
<1> QED BY <1>3, <1>4

LEMMA JoinersStep ==
  ASSUME ReferencesInv, JoinersExact, [Next]_vars
  PROVE  JoinersExact'
<1> USE Numbers
<1>1. CASE UNCHANGED vars
  BY <1>1, JoinersKept DEF vars, implVars
<1>2. CASE Next
  <2>1. PICK t \in Threads :
           \/ Moving(t) /\ UNCHANGED <<handles, ran, found>>
           \/ Unloading(t)
           \/ Counting(t)
    BY <1>2, StepKinds
  <2>2. CASE Moving(t)
    <3>1. ASSUME UNCHANGED joiners,
                 pc[t] \in Enlisted => pc'[t] \in Enlisted /\ target'[t] = target[t]
          PROVE  JoinersExact'
      <4>1. UNCHANGED <<pc, target>> \/ Others(t)
        BY <2>2, MovingForth DEF ReferencesInv
      <4> QED BY <3>1, <4>1, JoinersKept DEF Others
    <3> QED
      BY <2>2, <3>1, MovingJoins, JoinersEnlist, JoinersReturned, JoinersNotified
      DEF ReferencesInv
  <2>3. CASE Unloading(t)
    <3>1. UNCHANGED joiners
      BY <2>3 DEF Unloading, UnloadBegin, UnloadTasks, UnloadSkip, UnloadSleep, UnloadDone
    <3>2. UNCHANGED target /\ Others(t) /\ pc[t] \notin Joining
      BY <2>3, UnloadingForth DEF ReferencesInv
    <3> QED BY <3>1, <3>2, JoinersKept DEF Others, Enlisted
  <2>4. CASE Counting(t)
    <3>1. UNCHANGED joiners
      BY <2>4 DEF Counting, Spawn, Insert, Reclaim, Inserted, BecomePending, Exit, Handle,
                  Drop, Join, AddTask, RemoveTask, implVars
    <3>2. ASSUME NEW u \in Threads, pc[u] \in Enlisted
          PROVE  pc'[u] \in Enlisted /\ target'[u] = target[u]
      <4>1. pc[t] \notin Enlisted \/ UNCHANGED <<pc, target>>
        BY <2>4 DEF Counting, Spawn, Insert, Reclaim, Inserted, BecomePending, Exit, Handle,
                    Drop, Join, AddTask, RemoveTask, implVars, Enlisted, Joining
      <4>2. CASE Others(t)
        BY <3>2, <4>1, <4>2 DEF Others
      <4>3. ASSUME NEW i \in Impls, Spawn(t, i)
            PROVE  pc'[u] \in Enlisted /\ target'[u] = target[u]
        BY <3>2, <4>3 DEF Spawn, Unborn, ReferencesInv, Types, Enlisted, Joining
      <4> QED BY <2>4, <4>2, <4>3, CountingForth
    <3> QED BY <3>1, <3>2, JoinersKept
  <2> QED BY <2>1, <2>2, <2>3, <2>4
<1> QED
  BY <1>1, <1>2

-----------------------------------------------------------------------------
(* Signals, and the end of the program. *)

\* next() takes a signal before anything else.
LEMMA SignalTaken ==
  ASSUME NEW p, NEW m, NextState(p, m) = SIGNALED
  PROVE  SIGNALED \in p /\ SIGNALED \notin AfterNext(p, m)
<1>1. SIGNALED \in p
  BY DEF NextState, SIGNALED, TIMEDOUT, INTERRUPTED, INVALID
<1>2. AfterNext(p, m) = p \ {SIGNALED, TIMEDOUT}
  BY DEF AfterNext, SIGNALED, INVALID
<1> QED BY <1>1, <1>2

\* What is over stays over, and when all are out while Main leaves they stay out.
Lasting ==
  /\ \A u \in Threads : pc[u] \in Ending => pc'[u] \in Ending
  /\ pc[Main] \in Leaving => pc'[Main] \in Leaving
  /\ pc[Main] \in Leaving /\ AllOut => AllOut'

LEMMA StepLasts ==
  ASSUME ReferencesInv, NEW t \in Threads, Moving(t) \/ Unloading(t) \/ Counting(t)
  PROVE  Lasting
<1> USE Numbers
<1>1. CASE UNCHANGED pc
  BY <1>1 DEF Lasting, AllOut
<1>2. CASE Others(t) /\ Forth(pc[t], pc'[t])
  BY <1>2 DEF Others, Forth, Lasting, AllOut
<1>3. ASSUME NEW i \in Impls, Spawn(t, i) PROVE Lasting
  <2>1. /\ pc[t] = "task" /\ i # t /\ pc[i] = "unborn"
        /\ \A u \in Threads \ {t, i} : pc'[u] = pc[u]
    BY <1>3 DEF Spawn, Unborn, ReferencesInv, Types
  <2>2. ~(pc[Main] \in Leaving /\ AllOut)
    BY <2>1 DEF AllOut, Out, Leaving
  <2>3. i # Main
    OBVIOUS
  <2> QED BY <2>1, <2>2, <2>3 DEF Lasting, Ending, Leaving
<1> QED
  BY <1>1, <1>2, <1>3, MovingForth, UnloadingForth, CountingForth DEF ReferencesInv

\* u gets no signal, begins no call, and goes on in one only with the signal that it had.
NoNews(u) ==
  /\ SIGNALED \in pending'[u] => SIGNALED \in pending[u]
  /\ pc'[u] \in Joining => pc[u] \in Joining /\ target'[u] = target[u]
  /\ pc'[u] \in Back => pc[u] \in Back \/ SIGNALED \in pending[u]
  /\ u = Main /\ pc'[u] \in Leaving => pc[u] \in Leaving

LEMMA MeaningStays ==
  ASSUME ReferencesInv, Lasting, NEW u \in Threads, Meant(u), NoNews(u)
  PROVE  Meant(u)'
<1>1. target[u] \in Threads
  BY DEF ReferencesInv, Types
<1>2. ASSUME pc'[u] \in Joining, SIGNALED \in pending'[u] \/ pc'[u] \in Back
      PROVE  pc'[target'[u]] \in Ending
  BY <1>1, <1>2 DEF Meant, NoNews, Lasting
<1>3. ASSUME u = Main, pc'[Main] \in Leaving, SIGNALED \in pending'[Main] PROVE AllOut'
  BY <1>3 DEF Meant, NoNews, Lasting
<1> QED
  BY <1>2, <1>3 DEF Meant

\* In its task a thread has nothing to do with a signal.
LEMMA TaskMeans ==
  ASSUME NEW u \in Threads, pc'[u] = "task"
  PROVE  Meant(u)'
BY DEF Meant, Joining, Leaving

\* Whoever waits either takes the signal or has been cut short.
LEMMA ReportSilent ==
  ASSUME Types, NEW t \in Threads, NEW p, NEW label \in {"j_back", "j_woken", "x_woken"},
         Report(t, p, label), SIGNALED \in p => SIGNALED \in pending[t],
         IF label = "x_woken" THEN pc[t] = "x_sleep" ELSE pc[t] \in {"j_wait", "j_sleep"}
  PROVE  NoNews(t) \/ t \in excused'
<1>1. SUFFICES ASSUME t \notin excused' PROVE NoNews(t)
  OBVIOUS
<1>2. NextState(p, Mask(t)) = SIGNALED
  BY <1>1 DEF Report
<1>3. SIGNALED \in pending[t] /\ SIGNALED \notin AfterNext(p, Mask(t))
  BY <1>2, SignalTaken
<1>4. pending'[t] = AfterNext(p, Mask(t)) /\ pc'[t] = label /\ UNCHANGED target
  BY DEF Report, Goto, Types
<1> QED
  BY <1>3, <1>4 DEF NoNews, Joining, Back, Leaving

LEMMA MovingSilent ==
  ASSUME Types, NEW t \in Threads, Moving(t)
  PROVE  \/ NotifyEasy(t) \/ NotifyRest(t)
         \/ /\ \A u \in Threads \ {t} : pending'[u] = pending[u]
            /\ NoNews(t) \/ t \in excused' \/ pc'[t] = "task"
<1> USE Numbers
<1> DEFINE Goal == \/ NotifyEasy(t) \/ NotifyRest(t)
                   \/ /\ \A u \in Threads \ {t} : pending'[u] = pending[u]
                      /\ NoNews(t) \/ t \in excused' \/ pc'[t] = "task"
<1>1. ASSUME JoinAtOnce(t) PROVE Goal
  BY <1>1 DEF JoinAtOnce, Return, Goto, Types
<1>2. ASSUME JoinEnlist(t) PROVE Goal
  BY <1>2 DEF JoinEnlist, Goto, Types, NoNews, Joining, Back, Leaving
<1>3. ASSUME OwnLock(t) PROVE Goal
  <2>1. PICK label \in {"j_wait", "j_back", "x_wait", "x_poll"} :
          /\ pc' = [pc EXCEPT ![t] = label]
          /\ label \in Joining => pc[t] \in Joining
          /\ label \in Back => pc[t] \in Back
          /\ label \in Leaving => pc[t] \in Leaving
    BY <1>3 DEF OwnLock, Goto, Joining, Back, Leaving
  <2>2. UNCHANGED <<target, pending>>
    BY <1>3 DEF OwnLock
  <2> QED
    BY <2>1, <2>2 DEF Types, NoNews
<1>4. ASSUME WaitSkip(t) PROVE Goal
  <2>1. NoNews(t) \/ t \in excused'
    BY <1>4, ReportSilent DEF WaitSkip
  <2> QED BY <1>4, <2>1 DEF WaitSkip, Report, Types
<1>5. ASSUME WaitSleep(t) PROVE Goal
  BY <1>5 DEF WaitSleep, Goto, Types, NoNews, Joining, Back, Leaving
<1>6. ASSUME WaitWake(t) PROVE Goal
  <2>1. NoNews(t) \/ t \in excused'
    BY <1>6, ReportSilent DEF WaitWake
  <2> QED BY <1>6, <2>1 DEF WaitWake, Report, Types
<1>7. ASSUME WaitExpire(t) PROVE Goal
  <2>1. SIGNALED \in pending[t] \cup {TIMEDOUT} => SIGNALED \in pending[t]
    BY DEF SIGNALED, TIMEDOUT
  <2>2. NoNews(t) \/ t \in excused'
    BY <1>7, <2>1, ReportSilent DEF WaitExpire
  <2> QED BY <1>7, <2>2 DEF WaitExpire, Report, Types
<1>8. ASSUME JoinReturn(t) PROVE Goal
  BY <1>8 DEF JoinReturn, Return, Goto, Types
<1>9. ASSUME SetRunning(t) PROVE Goal
  BY <1>9 DEF SetRunning, Goto, Types
<1>10. ASSUME TaskEnds(t) PROVE Goal
  BY <1>10 DEF TaskEnds, Goto, Types, NoNews, Joining, Back, Leaving
<1>11. ASSUME SetJoined(t) PROVE Goal
  BY <1>11 DEF SetJoined, Goto, Types, NoNews, Joining, Back, Leaving
<1>12. ASSUME NotifyEasy(t) \/ NotifyRest(t) PROVE Goal
  BY <1>12
<1>13. ASSUME EasyDone(t) PROVE Goal
  BY <1>13 DEF EasyDone, Goto, Types, NoNews, Joining, Back, Leaving
<1>14. ASSUME RestDone(t) PROVE Goal
  BY <1>14 DEF RestDone, Goto, Types, NoNews, Joining, Back, Leaving
<1>15. ASSUME LeaveUsers(t) PROVE Goal
  BY <1>15 DEF LeaveUsers, Goto, Types, NoNews, Joining, Back, Leaving
<1>16. ASSUME Interrupt(t) PROVE Goal
  <2>1. SIGNALED \in AfterInterrupt(pending[t], Mask(t)) => SIGNALED \in pending[t]
    BY DEF AfterInterrupt, SIGNALED, INTERRUPTED
  <2> QED BY <1>16, <2>1 DEF Interrupt, Types, NoNews
<1> QED
  BY <1>1, <1>2, <1>3, <1>4, <1>5, <1>6, <1>7, <1>8, <1>9, <1>10, <1>11, <1>12, <1>13,
      <1>14, <1>15, <1>16 DEF Moving

\* To cancel a thread is no signal to it.
LEMMA CancelSilent ==
  ASSUME NEW p, NEW m
  PROVE  SIGNALED \in AfterCancel(p, m) <=> SIGNALED \in p
BY DEF AfterCancel, AfterInterrupt, SIGNALED, INTERRUPTED, CANCELED

\* ~ThreadQueue() cancels only, and takes the signal of Main.  What was left over when it
\* began counts for nothing.
LEMMA UnloadingSilent ==
  ASSUME Types, NEW t \in Threads, Unloading(t)
  PROVE  /\ t = Main
         /\ \A u \in Threads \ {t} : SIGNALED \in pending'[u] => SIGNALED \in pending[u]
         /\ NoNews(t) \/ t \in excused' \/ Meant(t)'
<1> USE Numbers
<1> DEFINE Goal ==
      /\ \A u \in Threads \ {t} : SIGNALED \in pending'[u] => SIGNALED \in pending[u]
      /\ NoNews(t) \/ t \in excused' \/ Meant(t)'
<1>0. t = Main
  BY DEF Unloading
<1>1. ASSUME UnloadBegin PROVE Goal
  <2>1. \A u \in Threads : SIGNALED \in pending'[u] => SIGNALED \in pending[u]
    BY <1>1, CancelSilent DEF UnloadBegin, Types
  <2>2. SIGNALED \in pending[Main] => Main \in excused'
    BY <1>1 DEF UnloadBegin, LeftOver
  <2>3. pc'[Main] = "x_tasks"
    BY <1>1 DEF UnloadBegin, Goto, Types
  <2> QED
    BY <1>0, <2>1, <2>2, <2>3 DEF Meant, Joining
<1>2. ASSUME UnloadTasks PROVE Goal
  BY <1>0, <1>2 DEF UnloadTasks, Goto, Types, NoNews, Joining, Back, Leaving
<1>3. ASSUME UnloadSkip PROVE Goal
  <2>1. pc[Main] = "x_wait" /\ pc'[Main] = "x_poll"
    BY <1>3 DEF UnloadSkip, Goto, Types
  <2>2. \A u \in Threads : SIGNALED \in pending'[u] => SIGNALED \in pending[u]
    <3>1. CASE UNCHANGED pending
      BY <3>1
    <3>2. CASE pending' = [pending EXCEPT ![Main] = AfterNext(@, Mask(Main))]
      <4>1. AfterNext(pending[Main], Mask(Main)) \subseteq pending[Main]
        BY DEF AfterNext
      <4> QED BY <3>2, <4>1 DEF Types
    <3> QED BY <1>3, <3>1, <3>2 DEF UnloadSkip
  <2> QED
    BY <1>0, <2>1, <2>2 DEF NoNews, Joining, Back, Leaving
<1>4. ASSUME UnloadSleep PROVE Goal
  BY <1>0, <1>4 DEF UnloadSleep, Goto, Types, NoNews, Joining, Back, Leaving
<1>5. ASSUME UnloadDone PROVE Goal
  BY <1>0, <1>5 DEF UnloadDone, Goto, Types, NoNews, Joining, Back, Leaving
<1> QED
  BY <1>0, <1>1, <1>2, <1>3, <1>4, <1>5 DEF Unloading

\* Those that count references signal nobody but Main, when the last thread is out; a
\* join() begins without a signal, or what was left over counts for nothing.
LEMMA CountingSilent ==
  ASSUME Types, NEW t \in Threads, Counting(t), ~BecomePending(t)
  PROVE  /\ \A u \in Threads : SIGNALED \in pending'[u] => SIGNALED \in pending[u]
         /\ \A u \in Threads : NoNews(u) \/ u \in excused' \/ Meant(u)'
<1> USE Numbers
<1>1. \A u \in Threads : SIGNALED \in pending'[u] => SIGNALED \in pending[u]
  <2>1. CASE Inserted(t)
    BY <2>1, CancelSilent DEF Inserted, Types
  <2>2. CASE ~Inserted(t)
    BY <2>2 DEF Counting, Spawn, Insert, Reclaim, Exit, Handle, Drop, Join, AddTask,
        RemoveTask, implVars
  <2> QED BY <2>1, <2>2
<1>2. ASSUME UNCHANGED <<pc, target>>, NEW u \in Threads PROVE NoNews(u)
  BY <1>1, <1>2 DEF NoNews
<1>3. ASSUME Others(t), pc'[t] \notin Joining \cup Leaving, NEW u \in Threads PROVE NoNews(u)
  <2>1. CASE u = t
    BY <1>1, <1>3, <2>1 DEF NoNews, Joining, Back
  <2>2. CASE u # t
    BY <1>1, <1>3, <2>2 DEF NoNews, Others
  <2> QED BY <2>1, <2>2
<1>4. CASE \E i \in Impls : Spawn(t, i)
  <2>1. PICK i \in Impls : Spawn(t, i)
    BY <1>4
  <2>2. /\ i # t /\ pc'[i] = "born" /\ pc'[t] = "s_insert"
        /\ \A w \in Threads \ {t, i} : pc'[w] = pc[w]
        /\ \A w \in Threads \ {t} : target'[w] = target[w]
    BY <2>1 DEF Spawn, Unborn, Types
  <2> QED BY <1>1, <2>2 DEF NoNews, Joining, Back, Leaving
<1>5. CASE Insert(t) \/ Inserted(t) \/ Exit(t) \/ Handle(t)
  <2>1. Others(t) /\ pc'[t] \notin Joining \cup Leaving
    BY <1>5 DEF Insert, Inserted, Exit, Handle, Return, Goto, Others, Types, Joining, Leaving
  <2> QED BY <1>1, <1>3, <2>1
<1>6. CASE Reclaim(t) \/ \E k \in Tasks : AddTask(t, k) \/ RemoveTask(t, k)
  <2>1. UNCHANGED <<pc, target>>
    BY <1>6 DEF Reclaim, AddTask, RemoveTask, implVars
  <2> QED BY <1>1, <1>2, <2>1
<1>7. ASSUME NEW i \in Impls, Drop(t, i) PROVE UNCHANGED <<pc, target>>
  BY <1>7 DEF Drop
<1>8. ASSUME NEW i \in Impls, Join(t, i), NEW u \in Threads
      PROVE  NoNews(u) \/ u \in excused' \/ Meant(u)'
  <2>1. /\ Others(t) /\ pc'[t] = "j_enter" /\ UNCHANGED pending
        /\ SIGNALED \in pending[t] => t \in excused'
    BY <1>8 DEF Join, LeftOver, Goto, Others, Types
  <2>2. CASE u = t
    BY <2>1, <2>2 DEF Meant, Joining, Back, Leaving
  <2>3. CASE u # t
    BY <2>1, <2>3 DEF NoNews, Others
  <2> QED BY <2>2, <2>3
<1> QED
  BY <1>1, <1>2, <1>4, <1>5, <1>6, <1>7, <1>8 DEF Counting

\* dispatch() notifies those who join its thread, which is over.
LEMMA NotifyMeans ==
  ASSUME ReferencesInv, JoinersExact, Lasting, NEW i \in Threads, NotifyEasy(i) \/ NotifyRest(i),
         NEW u \in Threads, Meant(u)
  PROVE  Meant(u)'
<1> USE Numbers
<1>1. pc[i] \in Ending /\ UNCHANGED <<pc, target>>
  BY DEF NotifyEasy, NotifyRest, Ending
<1>2. PICK w \in Threads : w = joiners[i][cursor[i]] /\ w \in ToSet(joiners[i])
  BY DEF NotifyEasy, NotifyRest, JoinersExact, ToSet
<1>3. UNCHANGED pending \/ pending' = Notified(w)
  BY <1>2 DEF NotifyEasy, NotifyRest
<1>4. CASE u # w \/ UNCHANGED pending
  <2>1. pending'[u] = pending[u]
    BY <1>3, <1>4 DEF Notified, ReferencesInv, Types
  <2> QED BY <1>1, <2>1, MeaningStays DEF NoNews
<1>5. CASE u = w
  <2>1. target[w] = i /\ pc[w] \in Joining
    BY <1>2 DEF JoinersExact
  <2> QED BY <1>1, <1>5, <2>1 DEF Meant, Joining, Leaving
<1> QED BY <1>3, <1>4, <1>5

\* The last thread tells Main that all are out.
LEMMA DrainedMeans ==
  ASSUME ReferencesInv, UsersExact, StatesExact, Lasting,
         NEW t \in Threads, BecomePending(t), NEW u \in Threads, Meant(u)
  PROVE  Meant(u)'
<1> USE Numbers
<1>1. Others(t) /\ UNCHANGED target /\ pc[t] = "d_push" /\ pc'[t] = "d_drop"
  BY DEF BecomePending, Goto, Others, ReferencesInv, Types
<1>2. CASE pending'[u] = pending[u]
  <2>1. NoNews(u)
    BY <1>1, <1>2 DEF NoNews, Others, Joining, Back, Leaving
  <2> QED BY <2>1, MeaningStays
<1>3. CASE pending'[u] # pending[u]
  <2>1. u = Main /\ userThreads = {} /\ waiter = "main"
    BY <1>3 DEF BecomePending, Drained, Notified, ReferencesInv, Types
  <2>2. pc[Main] \in Leaving
    BY <2>1 DEF StatesExact
  <2>3. AllOut
    BY <2>1, <2>2, NobodyLeft DEF ReferencesInv, Leaving
  <2>4. AllOut' /\ pc'[Main] \in Leaving
    BY <2>2, <2>3 DEF Lasting
  <2> QED
    BY <2>1, <2>4 DEF Meant, Joining, Leaving
<1> QED BY <1>2, <1>3

\* Whoever has been excused is so until the call returns.
LEMMA ExcusedKept ==
  ASSUME Types, NEW t \in Threads, Moving(t) \/ Unloading(t) \/ Counting(t),
         NEW u \in Threads, u \in excused, u \notin excused'
  PROVE  pc'[u] = "task"
<1>1. JoinAtOnce(t) \/ JoinReturn(t) \/ Handle(t)
  BY DEF Moving, Unloading, Counting, JoinEnlist, OwnLock, WaitSkip, WaitSleep,
     WaitWake, WaitExpire, SetRunning, TaskEnds, SetJoined, NotifyEasy, EasyDone, NotifyRest,
     RestDone, LeaveUsers, Interrupt, Report, UnloadBegin, UnloadTasks, UnloadSkip, LeftOver,
     UnloadSleep, UnloadDone, Spawn, Insert, Reclaim, Inserted, BecomePending, Exit,
     Drop, Join, AddTask, RemoveTask, implVars
<1>2. Return(t)
  BY <1>1 DEF JoinAtOnce, JoinReturn, Handle
<1> QED
  BY <1>2 DEF Return, Goto, Types

LEMMA SignalsStep ==
  ASSUME ReferencesInv, UsersExact, StatesExact, JoinersExact, SignalsMean,
         NEW t \in Threads, Moving(t) \/ Unloading(t) \/ Counting(t)
  PROVE  SignalsMean'
<1> USE Numbers
<1>1. SUFFICES ASSUME NEW u \in Threads, u \notin excused' PROVE Meant(u)'
  BY DEF SignalsMean
<1>2. CASE pc'[u] = "task"
  BY <1>2, TaskMeans
<1>3. CASE pc'[u] # "task"
  <2>1. Meant(u) /\ Lasting
    BY <1>1, <1>3, ExcusedKept, StepLasts DEF SignalsMean, ReferencesInv
  <2>2. SUFFICES ASSUME ~NoNews(u) PROVE Meant(u)'
    BY <2>1, MeaningStays
  <2>3. CASE Moving(t)
    <3>1. CASE NotifyEasy(t) \/ NotifyRest(t)
      BY <2>1, <3>1, NotifyMeans
    <3>2. CASE ~(NotifyEasy(t) \/ NotifyRest(t))
      <4>1. u # t /\ pending'[u] = pending[u]
        BY <1>1, <1>3, <2>2, <2>3, <3>2, MovingSilent DEF ReferencesInv
      <4>2. pc'[u] = pc[u] /\ target'[u] = target[u]
        BY <2>3, <4>1, MovingForth DEF Others, ReferencesInv
      <4> QED BY <2>2, <4>1, <4>2 DEF NoNews
    <3> QED BY <3>1, <3>2
  <2>4. CASE Unloading(t)
    <3>1. CASE u = t
      BY <1>1, <2>2, <2>4, <3>1, UnloadingSilent DEF ReferencesInv
    <3>2. CASE u # t
      <4>1. SIGNALED \in pending'[u] => SIGNALED \in pending[u]
        BY <2>4, <3>2, UnloadingSilent DEF ReferencesInv
      <4>2. pc'[u] = pc[u] /\ target'[u] = target[u]
        BY <2>4, <3>2, UnloadingForth DEF Others, ReferencesInv
      <4> QED BY <2>2, <4>1, <4>2 DEF NoNews
    <3> QED BY <3>1, <3>2
  <2>5. CASE BecomePending(t)
    BY <2>1, <2>5, DrainedMeans
  <2>6. CASE Counting(t) /\ ~BecomePending(t)
    BY <1>1, <2>2, <2>6, CountingSilent DEF ReferencesInv
  <2> QED BY <2>3, <2>4, <2>5, <2>6
<1> QED BY <1>2, <1>3

\* What Main has found stays true wherever it is on its way out.
LEMMA FoundKept ==
  ASSUME EndFound, Lasting, UNCHANGED found, ran \subseteq ran',
         pc'[Main] \in Leaving =>
           pc'[Main] = pc[Main] /\ (Main \in excused => Main \in excused')
  PROVE  EndFound'
BY DEF EndFound, Lasting, Leaving

LEMMA MovingFound ==
  ASSUME ReferencesInv, SignalsMean, EndFound, Lasting, NEW t \in Threads, Moving(t),
         UNCHANGED <<found, ran>>
  PROVE  EndFound'
<1> USE Numbers
<1>1. pc'[Main] \in Leaving => pc[Main] \in Leaving
  <2>1. CASE t # Main
    BY <2>1, MovingForth DEF Others, ReferencesInv
  <2>2. CASE OwnLock(t) \/ WaitSkip(t) \/ WaitSleep(t) \/ WaitWake(t)
    BY <2>2 DEF OwnLock, WaitSkip, WaitSleep, WaitWake, Report, Goto, Leaving, ReferencesInv, Types
  <2>3. CASE JoinAtOnce(t) \/ JoinEnlist(t) \/ WaitExpire(t) \/ JoinReturn(t)
    BY <2>3 DEF JoinAtOnce, JoinEnlist, WaitExpire, JoinReturn, Report, Goto, Return, Leaving,
       ReferencesInv, Types
  <2>4. CASE SetRunning(t) \/ TaskEnds(t) \/ SetJoined(t) \/ LeaveUsers(t) \/ Interrupt(t)
    BY <2>4 DEF SetRunning, TaskEnds, SetJoined, LeaveUsers, Interrupt, Report, Goto, Leaving,
       ReferencesInv, Types
  <2>5. CASE NotifyEasy(t) \/ EasyDone(t) \/ NotifyRest(t) \/ RestDone(t)
    BY <2>5 DEF NotifyEasy, EasyDone, NotifyRest, RestDone, Goto, Leaving, ReferencesInv, Types
  <2> QED
    BY <2>1, <2>2, <2>3, <2>4, <2>5 DEF Moving
<1>2. CASE pc'[Main] = pc[Main] \/ pc[Main] \notin Leaving
  <2>1. pc'[Main] \in Leaving => (Main \in excused => Main \in excused')
    BY ExcusedKept DEF ReferencesInv, Leaving
  <2> QED BY <1>1, <1>2, <2>1, FoundKept
<1>3. CASE pc'[Main] # pc[Main] /\ pc[Main] \in Leaving
  <2>1. t = Main /\ (OwnLock(Main) \/ WaitWake(Main))
    BY <1>3, MovingForth DEF Others, Moving, JoinAtOnce, JoinEnlist, WaitSkip, WaitSleep,
       WaitExpire, JoinReturn, SetRunning, TaskEnds, SetJoined, NotifyEasy, EasyDone,
       NotifyRest, RestDone, LeaveUsers, Interrupt, Leaving, ReferencesInv
  <2>2. CASE OwnLock(Main)
    <3>1. \/ pc[Main] = "x_lock" /\ pc'[Main] = "x_wait"
          \/ pc[Main] = "x_woken" /\ pc'[Main] = "x_poll"
      BY <1>3, <2>2 DEF OwnLock, Goto, Leaving, ReferencesInv, Types
    <3>2. UNCHANGED excused
      BY <2>2 DEF OwnLock
    <3> QED BY <3>1, <3>2 DEF EndFound, Lasting, Leaving
  <2>3. CASE WaitWake(Main)
    <3>1. /\ pc[Main] = "x_sleep" /\ pc'[Main] = "x_woken"
          /\ Pending(pending[Main], Mask(Main), ANYTHING)
      BY <1>3, <2>3 DEF WaitWake, Report, Goto, Leaving, ReferencesInv, Types
    <3>2. Main \notin excused' => AllOut
      <4>1. SUFFICES ASSUME Main \notin excused' PROVE AllOut
        OBVIOUS
      <4>2. Meant(Main)
        BY <2>3, <4>1 DEF WaitWake, Report, SignalsMean
      <4>3. SIGNALED \in pending[Main]
        BY <3>1 DEF Pending, Mask
      <4> QED BY <3>1, <4>2, <4>3 DEF Meant, Leaving
    <3> QED BY <3>1, <3>2 DEF EndFound, Lasting, Leaving
  <2> QED BY <2>1, <2>2, <2>3
<1> QED BY <1>2, <1>3

LEMMA UnloadingFound ==
  ASSUME ReferencesInv, UsersExact, SignalsMean, EndFound, Lasting,
         NEW t \in Threads, Unloading(t)
  PROVE  EndFound'
<1> USE Numbers
<1>1. CASE UnloadBegin
  <2>1. pc[Main] = "task" /\ pc'[Main] = "x_tasks"
    BY <1>1 DEF UnloadBegin, Goto, ReferencesInv, Types
  <2>2. ~found'.waiting => AllOut
    <3>1. ~found'.waiting => userThreads = {}
      BY <1>1 DEF UnloadBegin
    <3> QED BY <2>1, <3>1, NobodyLeft DEF ReferencesInv
  <2>3. AllOut => AllOut'
    <3>1. \A i \in Impls : pc'[i] = pc[i]
      BY <1>1 DEF UnloadBegin, Goto, ReferencesInv, Types
    <3> QED BY <3>1 DEF AllOut
  <2> QED BY <2>1, <2>2, <2>3 DEF EndFound, Leaving
<1>2. CASE UnloadTasks
  <2>1. /\ pc[Main] = "x_tasks" /\ ran' = ran \cup found.tasks /\ UNCHANGED <<excused, found>>
        /\ pc'[Main] = IF found.waiting THEN "x_lock" ELSE "x_poll"
    BY <1>2 DEF UnloadTasks, Goto, ReferencesInv, Types
  <2> QED BY <2>1 DEF EndFound, Lasting, Leaving
<1>3. CASE UnloadSkip
  <2>1. /\ pc[Main] = "x_wait" /\ pc'[Main] = "x_poll" /\ UNCHANGED <<excused, found, ran>>
        /\ ~MustWait \/ Pending(pending[Main], Mask(Main), ANYTHING)
    BY <1>3 DEF UnloadSkip, Goto, ReferencesInv, Types
  <2>2. Main \notin excused /\ found.required => AllOut
    <3>1. CASE ~MustWait
      BY <2>1, <3>1, NobodyLeft DEF MustWait, ReferencesInv
    <3>2. CASE Main \notin excused /\ Pending(pending[Main], Mask(Main), ANYTHING)
      <4>1. Meant(Main)
        BY <3>2 DEF SignalsMean
      <4>2. SIGNALED \in pending[Main]
        BY <2>1, <3>2 DEF Pending, Mask
      <4> QED BY <2>1, <4>1, <4>2 DEF Meant, Leaving
    <3> QED BY <2>1, <3>1, <3>2
  <2> QED BY <2>1, <2>2 DEF EndFound, Lasting, Leaving
<1>4. CASE UnloadSleep
  <2>1. pc[Main] = "x_wait" /\ pc'[Main] = "x_sleep" /\ UNCHANGED <<excused, found, ran>>
    BY <1>4 DEF UnloadSleep, Goto, ReferencesInv, Types
  <2> QED BY <2>1 DEF EndFound, Lasting, Leaving
<1>5. CASE UnloadDone
  <2>1. pc[Main] = "x_poll" /\ pc'[Main] = "x_done" /\ UNCHANGED <<excused, found, ran>>
    BY <1>5 DEF UnloadDone, Goto, ReferencesInv, Types
  <2> QED BY <2>1 DEF EndFound, Lasting, Leaving
<1> QED BY <1>1, <1>2, <1>3, <1>4, <1>5 DEF Unloading

LEMMA CountingFound ==
  ASSUME ReferencesInv, EndFound, Lasting, NEW t \in Threads, Counting(t)
  PROVE  EndFound'
<1> USE Numbers
<1>1. UNCHANGED found /\ ran \subseteq ran'
  BY DEF Counting, Spawn, Insert, Reclaim, Inserted, BecomePending, Exit, Handle, Drop, Join,
     AddTask, RemoveTask, implVars
<1>2. pc'[Main] \in Leaving => pc'[Main] = pc[Main]
  BY DEF Counting, Spawn, Unborn, Insert, Reclaim, Inserted, BecomePending, Exit, Handle, Return,
     Drop, Join, AddTask, RemoveTask, implVars, Goto, Leaving, ReferencesInv, Types
<1>3. pc'[Main] \in Leaving => (Main \in excused => Main \in excused')
  BY ExcusedKept DEF ReferencesInv, Leaving
<1> QED BY <1>1, <1>2, <1>3, FoundKept

-----------------------------------------------------------------------------
LEMMA Start == Init => ThreadsInv
<1> USE Numbers
<1> SUFFICES ASSUME Init PROVE ThreadsInv
  OBVIOUS
<1>1. pc[Main] = "task" /\ \A i \in Impls : pc[i] = "unborn"
  BY DEF Init, ImplInit
<1>2. ReferencesInv /\ UsersExact
  BY <1>1, ReferencesStart DEF UsersExact, Out
<1>3. StatesExact
  BY <1>1 DEF StatesExact, Init, ImplInit, QueueInit, Ending, Leaving
<1>4. /\ joiners = [t \in Threads |-> <<>>]
      /\ \A t \in Threads : ToSet(joiners[t]) = {} /\ Distinct(joiners[t])
      /\ <<>> \in Seq(Threads)
  BY DEF Init, ImplInit, ToSet, Distinct
<1>5. JoinersExact
  BY <1>4 DEF JoinersExact
<1>6. SignalsMean
  <2>1. \A t \in Threads : pending[t] = {} /\ pc[t] \notin Joining
    BY <1>1 DEF Init, ImplInit, Joining
  <2> QED BY <2>1 DEF SignalsMean, Meant
<1>7. EndFound
  BY <1>1 DEF EndFound, Leaving
<1> QED
  BY <1>2, <1>3, <1>5, <1>6, <1>7 DEF ThreadsInv

LEMMA Step == ThreadsInv /\ [Next]_vars => ThreadsInv'
<1> SUFFICES ASSUME ThreadsInv, [Next]_vars PROVE ThreadsInv'
  OBVIOUS
<1>1. ReferencesInv' /\ UsersExact' /\ StatesExact' /\ JoinersExact'
  BY ReferencesStep, StatesStep, JoinersStep DEF ThreadsInv
<1>2. SignalsMean' /\ EndFound'
  <2>1. CASE UNCHANGED vars
    <3>1. UNCHANGED <<excused, found, ran, pc, pending, target>>
      BY <2>1 DEF vars, implVars
    <3>2. AllOut' = AllOut
      BY <3>1 DEF AllOut
    <3>3. \A t \in Threads : Meant(t) => Meant(t)'
      BY <3>1, <3>2 DEF Meant
    <3> QED BY <3>1, <3>2, <3>3 DEF ThreadsInv, SignalsMean, EndFound
  <2>2. CASE Next
    <3>1. PICK t \in Threads :
             \/ Moving(t) /\ UNCHANGED <<handles, ran, found>>
             \/ Unloading(t)
             \/ Counting(t)
      BY <2>2, StepKinds
    <3>2. SignalsMean' /\ Lasting
      BY <3>1, SignalsStep, StepLasts DEF ThreadsInv
    <3> QED
      BY <3>1, <3>2, MovingFound, UnloadingFound, CountingFound DEF ThreadsInv
  <2> QED BY <2>1, <2>2
<1> QED
  BY <1>1, <1>2 DEF ThreadsInv

LEMMA Kept == Spec => []ThreadsInv
  BY Start, Step, PTL DEF Spec

\* The program does not end while a task runs or has not been canceled yet
\* (ThreadQueue.cxx, ~ThreadQueue()), if it did not find _waiter at 1 and Main began it
\* without a signal left over from an earlier join(); its shutdown tasks have run.
THEOREM ProgramEndsLast == Spec => []EndWaits
<1>1. ThreadsInv => EndWaits
  BY DEF ThreadsInv, EndFound, EndWaits, AllOut, Out, Leaving
<1> QED
  BY <1>1, Kept, PTL

\* join() returns without an exception and in time only when the task is over, unless it
\* began with a signal left over: the one that it takes comes from dispatch() of the thread
\* that it joins.
THEOREM JoinedTaskIsOver == Spec => JoinMeansEnded
<1>1. ThreadsInv /\ [Next]_vars =>
        [\A t \in Threads \ excused :
           pc[t] \in {"j_enter", "j_back"} /\ pc'[t] = "task"
             => pc[target[t]] \in Ending]_vars
  <2> USE Numbers
  <2> SUFFICES ASSUME ThreadsInv, Next, NEW t \in Threads \ excused,
                      pc[t] \in {"j_enter", "j_back"}, pc'[t] = "task"
               PROVE  pc[target[t]] \in Ending
    OBVIOUS
  <2>1. CASE pc[t] = "j_back"
    BY <2>1 DEF ThreadsInv, SignalsMean, Meant, Joining, Back
  <2>2. CASE pc[t] = "j_enter"
    <3>1. PICK u \in Threads :
             \/ Moving(u) /\ UNCHANGED <<handles, ran, found>>
             \/ Unloading(u)
             \/ Counting(u)
      BY StepKinds
    <3>2. u = t
      <4>1. ASSUME NEW i \in Impls, Spawn(u, i) PROVE u = t
        BY <2>2, <4>1 DEF Spawn, Unborn, ThreadsInv, ReferencesInv, Types
      <4> QED
        BY <2>2, <3>1, <4>1, MovingForth, UnloadingForth, CountingForth
        DEF Others, ThreadsInv, ReferencesInv
    <3>3. JoinAtOnce(t)
      BY <2>2, <3>1, <3>2, MovingForth, UnloadingForth
      DEF Moving, Counting, JoinEnlist, OwnLock, WaitSkip, WaitSleep, WaitWake, WaitExpire,
          JoinReturn, SetRunning, TaskEnds, SetJoined, NotifyEasy, EasyDone, NotifyRest,
          RestDone, LeaveUsers, Interrupt, Spawn, Insert, Reclaim, Inserted, BecomePending,
          Exit, Handle, Drop, Join, AddTask, RemoveTask, Goto, implVars, Joining,
          ThreadsInv, ReferencesInv, Types
    <3>4. target[t] \in Impls
      BY <2>2 DEF ThreadsInv, ReferencesInv, Order, Joining
    <3> QED
      BY <3>3, <3>4 DEF JoinAtOnce, IsJoined, ThreadsInv, StatesExact
  <2> QED BY <2>1, <2>2
<1> QED
  BY <1>1, Kept, PTL DEF Spec, JoinMeansEnded

=============================================================================
