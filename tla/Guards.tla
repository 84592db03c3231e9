-------------------------------- MODULE Guards --------------------------------
(***************************************************************************)
(* src/include/zthread/Guard.h: objects that lock something when they are  *)
(* made and undo it when they are destroyed, according to a policy.  The   *)
(* Guards of a thread are nested, as the blocks they live in are.  A Guard *)
(* can take over from another one: it may give up the other's lock for     *)
(* its own lifetime (UnlockedScope), or acquire a further lock and release *)
(* the other's before its time (OverlappedScope).                          *)
(*                                                                         *)
(* A Guard whose constructor throws, because the lock is interrupted or    *)
(* its time is over (TimedLockedScope), has never been: no step.  What the *)
(* destructor's lock operation throws is ignored.                          *)
(***************************************************************************)
EXTENDS Naturals, SequencesExt

CONSTANTS
  Threads, None,
  Locks,      \* plain exclusive locks, not recursive
  Checked,    \* those that can be interrupted and refuse a release() by others
  MaxGuards   \* bound of the model: how deep Guards are nested

\* What a user of this module assumes of its constants.
GuardsAssumption == None \notin Threads /\ Checked \subseteq Locks /\ MaxGuards \in Nat

VARIABLES
  guards,     \* each thread's Guards, from the outermost to the innermost
  holders,    \* the holder of each lock
  passing,    \* the thread's OverlappedScope has its own lock and has still to
              \* release that of this Guard, or 0
  unguarded   \* the threads that an UnlockedScope has left without the lock

vars == <<guards, holders, passing, unguarded>>

Policies == {"LockedScope", "UnlockedScope", "OverlappedScope"}
GuardOf(l, policy) == [lock |-> l, policy |-> policy, enabled |-> TRUE]

TypeOK ==
  /\ \A t \in Threads :
       /\ guards[t] \in Seq([lock : Locks, policy : Policies, enabled : BOOLEAN])
       /\ Len(guards[t]) <= MaxGuards
  /\ holders \in [Locks -> Threads \cup {None}]
  /\ passing \in [Threads -> 0 .. MaxGuards]
  /\ unguarded \subseteq Threads

Init ==
  /\ guards = [t \in Threads |-> <<>>]
  /\ holders = [l \in Locks |-> None]
  /\ passing = [t \in Threads |-> 0]
  /\ unguarded = {}

\* The enabled Guards of t for l, and whether t is to have l by the innermost.
GuardsFor(t, l) == {i \in DOMAIN guards[t] :
                      guards[t][i].lock = l /\ guards[t][i].enabled}
Innermost(t, l, i) == i \in GuardsFor(t, l) /\ \A j \in GuardsFor(t, l) : j <= i
Guarded(t, l) ==
  \E i \in GuardsFor(t, l) :
    Innermost(t, l, i) /\ guards[t][i].policy # "UnlockedScope"

Released(t, l) ==
  [holders EXCEPT ![l] = IF l \in Checked /\ @ # t THEN @ ELSE None]

\* t is in the body of its innermost Guard and may begin another block.
May(t) == passing[t] = 0 /\ Len(guards[t]) < MaxGuards

-----------------------------------------------------------------------------
\* Guard(lock), Guard(lock, timeout): by a thread that has not locked it yet.
Create(t, l) ==
  /\ May(t) /\ ~Guarded(t, l)
  /\ holders[l] = None
  /\ holders' = [holders EXCEPT ![l] = t]
  /\ guards' = [guards EXCEPT ![t] = Append(@, GuardOf(l, "LockedScope"))]
  /\ UNCHANGED <<passing, unguarded>>

\* Guard(g) with an UnlockedScope: shares the lock of an enabled Guard.
Share(t, i) ==
  /\ May(t) /\ i \in DOMAIN guards[t] /\ guards[t][i].enabled
  /\ LET l == guards[t][i].lock IN
       /\ Guarded(t, l)
       /\ holders' = Released(t, l)
       /\ guards' = [guards EXCEPT ![t] = Append(@, GuardOf(l, "UnlockedScope"))]
  /\ UNCHANGED <<passing, unguarded>>

\* Guard(g, lock) with an OverlappedScope, of the Guard g by which the thread has g's
\* lock now: acquires its own lock,
Transfer(t, i, l) ==
  /\ May(t) /\ i \in DOMAIN guards[t]
  /\ Innermost(t, guards[t][i].lock, i) /\ guards[t][i].policy # "UnlockedScope"
  /\ ~Guarded(t, l)
  /\ holders[l] = None
  /\ holders' = [holders EXCEPT ![l] = t]
  /\ passing' = [passing EXCEPT ![t] = i]
  /\ UNCHANGED <<guards, unguarded>>

\* Wrong on purpose: the Guard that has given up its lock still undoes it.
Pass_Enabled(t, l) ==
  /\ passing[t] # 0 /\ holders[l] = t /\ ~Guarded(t, l)
  /\ holders' = Released(t, guards[t][passing[t]].lock)
  /\ guards' = [guards EXCEPT ![t] = Append(@, GuardOf(l, "OverlappedScope"))]
  /\ passing' = [passing EXCEPT ![t] = 0]
  /\ UNCHANGED unguarded

\* and then releases and disables the other.
Pass(t, l) ==
  /\ passing[t] # 0 /\ holders[l] = t /\ ~Guarded(t, l)
  /\ holders' = Released(t, guards[t][passing[t]].lock)
  /\ guards' = [guards EXCEPT ![t] =
                  Append([@ EXCEPT ![passing[t]].enabled = FALSE],
                         GuardOf(l, "OverlappedScope"))]
  /\ passing' = [passing EXCEPT ![t] = 0]
  /\ UNCHANGED unguarded

-----------------------------------------------------------------------------
\* ~Guard(): a disabled Guard does nothing, a LockedScope or OverlappedScope
\* releases, and an UnlockedScope acquires the lock again,
Ends(t, g) ==
  /\ passing[t] = 0 /\ guards[t] # <<>>
  /\ g = Last(guards[t])
  /\ guards' = [guards EXCEPT ![t] = Front(@)]
  /\ UNCHANGED passing

Destroy(t) ==
  \E g \in {Last(guards[t])} :
    /\ Ends(t, g)
    /\ holders' = IF g.enabled THEN Released(t, g.lock) ELSE holders
    /\ g.policy # "UnlockedScope"
    /\ UNCHANGED unguarded

Relock(t) ==
  \E g \in {Last(guards[t])} :
    /\ Ends(t, g)
    /\ g.policy = "UnlockedScope" /\ holders[g.lock] = None
    /\ holders' = [holders EXCEPT ![g.lock] = t]
    /\ UNCHANGED unguarded

\* unless that is interrupted: the thread goes on without the lock.
RelockInterrupted(t) ==
  \E g \in {Last(guards[t])} :
    /\ Ends(t, g)
    /\ g.policy = "UnlockedScope" /\ g.lock \in Checked
    /\ unguarded' = unguarded \cup {t}
    /\ UNCHANGED holders

Next ==
  \E t \in Threads :
    \/ \E l \in Locks : Create(t, l) \/ Pass(t, l)
    \/ \E i \in 1 .. MaxGuards :
         Share(t, i) \/ \E l \in Locks : Transfer(t, i, l)
    \/ guards[t] # <<>> /\ (Destroy(t) \/ Relock(t) \/ RelockInterrupted(t))

-----------------------------------------------------------------------------
\* In every block a thread has the locks that its Guards say it has, and no
\* others, however they are nested and passed on; but for a thread that an
\* interruption has once left without.
HeldAsGuarded ==
  \A t \in Threads \ unguarded, l \in Locks :
    passing[t] = 0 => (holders[l] = t <=> Guarded(t, l))

=============================================================================
