------------------------------ MODULE Monitors ------------------------------
(***************************************************************************)
(* The Monitors of the three ports.  A behaviour is about one of them,     *)
(* chosen at the start; all have to keep the promise of StickyMonitor.     *)
(***************************************************************************)
EXTENDS Monitor

CONSTANTS
  Ports,     \* a subset of {"posix", "win32", "macos"}
  Deferring  \* the ports whose owner uses DeferredInterruptionScopes

ASSUME PortsAssumption ==
  /\ Ports \subseteq {"posix", "win32", "macos"}
  /\ Deferring \subseteq Ports

VARIABLES port, signaled, told

sleeper == <<signaled, told>>
allVars == <<vars, port, sleeper>>

Win32 == INSTANCE Win32Monitor
Mac   == INSTANCE MacMonitor

PortsInit ==
  /\ port \in Ports
  /\ Init /\ Win32!Init /\ Mac!Init

\* What a step of the port's own Monitor leaves alone of the others'.
OfPosix(A) == port = "posix" /\ A /\ UNCHANGED <<port, sleeper>>
OfWin32(A) == port = "win32" /\ A /\ UNCHANGED <<port, told, waitLock, cond, op>>
OfMac(A)   == port = "macos" /\ A /\ UNCHANGED <<port, waitLock, cond, op>>

PortsNext ==
  /\ \/ OfPosix(Next)
     \/ OfWin32(Win32!Next)
     \/ OfMac(Mac!Next)
  /\ port \notin Deferring => mask' = mask

\* A thread goes on with what it has begun and gives up the external lock.
PortStep(t) ==
  \/ OfPosix(Step(t))
  \/ t = Owner /\ OfWin32(Win32!WaitEnd \/ Win32!Relock)
  \/ OfMac(Mac!Signal(t))
  \/ t = Owner /\ OfMac(Mac!WaitEnd)
  \/ t = Owner /\ OfMac(Mac!Relock /\ UNCHANGED told)

PortRelease(t) ==
  \/ OfPosix(Release(t))
  \/ OfWin32(Win32!Release(t))
  \/ OfMac(Mac!Release(t) /\ UNCHANGED told)

PortsSpec ==
  /\ PortsInit /\ [][PortsNext]_allVars
  /\ \A t \in Threads : SF_allVars(PortRelease(t)) /\ SF_allVars(PortStep(t))

-----------------------------------------------------------------------------
\* Where the owner stands, seen from outside.
Phase ==
  CASE pc[Owner] \in {"w_blocked", "w_next", "asleep", "late"} -> "waiting"
    [] pc[Owner] \in {"w_unlock", "w_relock", "absorb", "relock"} -> "returning"
    [] OTHER -> "running"

\* The Monitor of each port implements the sticky Monitor its clients rely on.
Sticky == INSTANCE StickyMonitor WITH phase <- Phase, result <- state

ImplementsSticky == Sticky!Spec

\* The variables of the chosen Monitor keep their types.
PortsTypeOK ==
  CASE port = "posix" -> TypeOK
    [] port = "win32" -> Win32!TypeOK
    [] port = "macos" -> Mac!TypeOK

\* notify() releases a thread that is blocked (macos/Monitor.h:122): whatever the
\* order in which notify(), interrupt() and cancel() meet the steps of wait(),
\* nobody sleeps, with no signal on its way, while there is a state to report.
Unsignaled ==
  CASE port = "posix" -> cond = "blocked"
    [] port = "win32" -> pc[Owner] = "asleep" /\ ~signaled
    [] port = "macos" -> /\ pc[Owner] = "asleep" /\ ~signaled
                         /\ \A t \in Threads : pc[t] \notin {"signal", "wake"}

NotifyReleases == Unsignaled => ~Pending(pending, mask, ANYTHING)

\* A wait() fixes its result, or its owner asks whether it is interrupted.
Reports ==
  CASE port = "posix" -> WaitSkip \/ WaitNext
    [] port = "win32" -> Win32!Skips \/ Win32!WaitEnd
    [] port = "macos" -> Mac!Skips \/ Mac!WaitWoken \/ Mac!WaitLate

Looks ==
  CASE port = "posix" -> Body(Owner) /\ op[Owner] \in {"isInterrupted", "isCanceled"}
    [] port = "win32" -> Win32!Looks
    [] port = "macos" -> Mac!Looks

\* A wait() has a state to report that its owner is interested in, so that next()
\* never finds nothing (Status.h:170 asserts it) and a deferred interruption never
\* ends a wait - unless the sleep of a posix Monitor ended for no reason.
WaitReports == [][Reports /\ cond # "spurious" => state' \in mask]_allVars

\* An interruption disappears only by being told to the owner: as the result
\* of a wait(), or through interrupted() or canceled(); a signal only as the
\* result of a wait(), which then reports SIGNALED.
NothingLost ==
  [][/\ INTERRUPTED \in pending \ pending' =>
          Looks \/ (Reports /\ state' = INTERRUPTED)
     /\ SIGNALED \in pending \ pending' => Reports /\ state' = SIGNALED]_allVars

=============================================================================
