------------------------ MODULE BoxLifecycle_proofs ------------------------
(***************************************************************************)
(* Proofs about BoxLifecycle for every set of boxes, threads and every     *)
(* bound on the calls: who holds which lock, what the main instance and a  *)
(* closed box may look like, that nothing of a closed box is left behind,  *)
(* that the locks never deadlock, and that box.go implements GuardedBoxes. *)
(***************************************************************************)
EXTENDS BoxLifecycle, TLAPS

-----------------------------------------------------------------------------
(* The inductive invariant. *)

UsingStep == {"publish", "serve", "stats", "starting", "body"}
ClosingStep == {"clearing", "clear", "core_close"}
Holding == UsingStep \cup ClosingStep
RunStep == {"init", "inited", "guard", "publish_enter", "publish", "serve", "stats_enter",
            "stats", "guard2", "start_enter", "starting", "spawn"}
KillStep == {"kill", "kill_cancel", "cas", "stop_read"}

\* A step belongs to the call that has it, and works on a box.
StepInv ==
  \A t \in Thread :
    /\ at[t] \notin {"idle", "main"} => arg[t] \in Box
    /\ at[t] \in RunStep => call[t] = "run"
    /\ at[t] \in KillStep => call[t] = "close"
    /\ at[t] \in ClosingStep \cup {"close_enter"} => call[t] \in {"run", "close"}
    /\ at[t] \in {"swap", "main"} => call[t] \notin {"run", "close"}

\* A lock is held by the thread whose step is inside it, and by no other.
LockInv ==
  /\ \A t \in Thread, b \in Box : access[b] = t <=> arg[t] = b /\ at[t] \in Holding
  /\ \A t \in Thread : mainInstanceAccess = t <=> at[t] \in {"serve", "clear"}

\* Inside access a box is open, but for the thread that closes it.
OpenInv ==
  \A t \in Thread :
    /\ at[t] \in UsingStep => state[arg[t]] # "boxClosed"
    /\ at[t] \in ClosingStep => state[arg[t]] = "boxClosed"

\* A closed main instance is about to be cleared by the thread inside its box.
MainInv ==
  /\ protect => mainInstance # None
  /\ mainInstance # None =>
       /\ core[mainInstance] # "none"
       /\ state[mainInstance] = "boxClosed" =>
            /\ access[mainInstance] \in Thread
            /\ at[access[mainInstance]] \in {"clearing", "clear"}

\* init() and launch() run at most once for a box, and before its traffic loop.
RunInv ==
  /\ \A t \in Thread : call[t] = "run" /\ arg[t] \in Box =>
       begun[arg[t]] /\ block[arg[t]] = "none" /\ job[arg[t]] = "none"
  /\ \A t, u \in Thread : call[t] = "run" /\ call[u] = "run" /\ arg[t] = arg[u] => t = u
  /\ \A b \in Box : ~begun[b] =>
       core[b] = "none" /\ block[b] = "none" /\ job[b] = "none"

\* The core exists from init on; a box that is closed has no core, or the thread that
\* is closing it is inside.
CoreInv ==
  /\ \A t \in Thread :
       /\ at[t] = "init" => core[arg[t]] = "none"
       /\ at[t] \in RunStep \ {"init", "inited"} => core[arg[t]] # "none"
       /\ at[t] \in ClosingStep \cup {"close_enter"} => core[arg[t]] # "none"
  /\ \A b \in Box :
       /\ core[b] = "none" => state[b] = "boxNew"
       /\ state[b] = "boxClosed" /\ core[b] # "closed" =>
            access[b] \in Thread /\ at[access[b]] \in ClosingStep

\* A box whose owner is closed is on its way to BoxInstance.Close.
CloseInv ==
  \A b \in Box : closed[b] /\ core[b] # "none" /\ state[b] # "boxClosed" =>
    \E t \in Thread : arg[t] = b /\ at[t] \in {"inited", "close_enter"}

\* The one thread that got past the flag of the owner's close(), until it has read
\* the looper.
PastFlag(t, b) ==
  arg[t] = b /\ call[t] = "close" /\ at[t] \in ClosingStep \cup {"close_enter", "stop_read"}

FlagInv ==
  /\ \A t \in Thread, b \in Box : PastFlag(t, b) => closed[b] /\ stopper[b] = "none"
  /\ \A t, u \in Thread, b \in Box : PastFlag(t, b) /\ PastFlag(u, b) => t = u
  /\ \A b \in Box : ~closed[b] => stopper[b] = "none"

\* A traffic loop that runs can be found by close() until close() was called; then
\* somebody is bound to stop it, and whoever stopped it to cancel it.
LoopInv ==
  \A b \in Box :
    /\ (block[b] \in {"start", "launch"} \/ job[b] # "none") /\ ~closed[b] => looper[b]
    /\ job[b] = "running" /\ stopped[b] =>
         \/ block[b] \in {"recancel", "cancel"}
         \/ stopper[b] = "cancel"
         \/ \E t \in Thread : arg[t] = b /\ at[t] = "kill_cancel"
    /\ job[b] = "running" /\ closed[b] /\ ~stopped[b] =>
         \/ block[b] \in {"recancel", "recheck", "cas"}
         \/ stopper[b] = "cas"
         \/ looper[b] /\ \E t \in Thread : PastFlag(t, b)

IInv ==
  /\ TypeOK
  /\ StepInv
  /\ LockInv
  /\ OpenInv
  /\ MainInv
  /\ RunInv
  /\ CoreInv
  /\ CloseInv
  /\ FlagInv
  /\ LoopInv

-----------------------------------------------------------------------------
(* Every step preserves the invariant. *)

\* A step of the traffic loop leaves the locks, the boxes and the calls alone.
LEMMA LoopFrame ==
  ASSUME NEW b \in Box, LoopStep(b)
  PROVE  UNCHANGED <<goVars, closed, begun, call, at, arg, calls>>
BY DEF LoopStep, BlockCheck, BlockWrite, LooperStart, LooperLaunch, LooperRecancel,
   BlockRecheck, BlockStopLoop, StopLoop

\* Types.
LEMMA TypeOKStep ==
  ASSUME IInv, [Next]_vars
  PROVE  TypeOK'
<1> USE BoxAssumption, MaxCallsAssumption DEF TypeOK, StepInv, UsingStep, ClosingStep, Holding,
       RunStep, KillStep, Call, Label, goVars, ktVars
<1>0. TypeOK /\ StepInv
  BY DEF IInv
<1>1. CASE UNCHANGED vars
  BY <1>0, <1>1 DEF vars
<1>2. ASSUME NEW t \in Thread, Caller(t) PROVE TypeOK'
  <2>1. ASSUME NEW b \in Box, Run(t, b) PROVE TypeOK'
    BY <1>0, <2>1 DEF Run, Invoke
  <2>2. ASSUME NEW b \in Box, Close(t, b) PROVE TypeOK'
    BY <1>0, <2>2 DEF Close, Invoke
  <2>3. ASSUME NEW b \in Box, SelectOutbound(t, b) PROVE TypeOK'
    BY <1>0, <2>3 DEF SelectOutbound, Invoke
  <2>4. ASSUME NEW b \in Box, Use(t, b) PROVE TypeOK'
    BY <1>0, <2>4 DEF Use, Invoke, built
  <2>5. CASE ResetAllConnections(t)
    BY <1>0, <2>5 DEF ResetAllConnections, Invoke
  <2>6. CASE UrlTest(t)
    BY <1>0, <2>6 DEF UrlTest, Invoke
  <2> QED BY <1>2, <2>1, <2>2, <2>3, <2>4, <2>5, <2>6 DEF Caller, Sleep, Wake, QueryStats,
             newProxyHttpClient
<1>3. ASSUME NEW t \in Thread, ThreadStep(t) PROVE TypeOK'
  <2>1. CASE NewSingBoxInstance(t)
    BY <1>0, <2>1 DEF NewSingBoxInstance, To
  <2>2. CASE AfterInit(t)
    BY <1>0, <2>2 DEF AfterInit, To
  <2>3. CASE Guard(t)
    BY <1>0, <2>3 DEF Guard, To
  <2>4. CASE SetAsMain(t)
    BY <1>0, <2>4 DEF SetAsMain, To, lockIfOpen, isOpen
  <2>5. CASE SetAsMainLock(t)
    BY <1>0, <2>5 DEF SetAsMainLock, To, LockMain
  <2>6. CASE SetAsMainServe(t)
    BY <1>0, <2>6 DEF SetAsMainServe, To, Unlock, goServeProtect
  <2>7. CASE SetV2rayStatsLock(t)
    BY <1>0, <2>7 DEF SetV2rayStatsLock, To, lockIfOpen, isOpen
  <2>8. CASE SetV2rayStats(t)
    BY <1>0, <2>8 DEF SetV2rayStats, To, Unlock
  <2>9. CASE GuardStart(t)
    BY <1>0, <2>9 DEF GuardStart, To
  <2>10. CASE Start(t)
    BY <1>0, <2>10 DEF Start, To
  <2>11. CASE BoxStart(t)
    BY <1>0, <2>11 DEF BoxStart, To, Unlock
  <2>12. CASE Spawn(t)
    BY <1>0, <2>12 DEF Spawn, To
  <2>13. CASE KillLoop(t)
    BY <1>0, <2>13 DEF KillLoop, To
  <2>14. CASE KillCancel(t)
    BY <1>0, <2>14 DEF KillCancel, To, cancel
  <2>15. CASE CloseOwner(t)
    BY <1>0, <2>15 DEF CloseOwner, To
  <2>16. CASE CloseBox(t)
    BY <1>0, <2>16 DEF CloseBox, To, isOpen, closeReturn
  <2>17. CASE CloseLockMain(t)
    BY <1>0, <2>17 DEF CloseLockMain, To, LockMain
  <2>18. CASE CloseClearMain(t)
    BY <1>0, <2>18 DEF CloseClearMain, To, wasMain, goServeProtect
  <2>19. CASE CloseCore(t)
    BY <1>0, <2>19 DEF CloseCore, To, Unlock, closeReturn
  <2>20. CASE CloseLooper(t)
    BY <1>0, <2>20 DEF CloseLooper, To
  <2>21. CASE Swap(t)
    BY <1>0, <2>21 DEF Swap, To
  <2>22. CASE getMainInstance(t)
    BY <1>0, <2>22 DEF getMainInstance
  <2>23. CASE UseLock(t)
    BY <1>0, <2>23 DEF UseLock, To, lockIfOpen, isOpen
  <2>24. CASE UseDone(t)
    BY <1>0, <2>24 DEF UseDone, To, Unlock
  <2> QED BY <1>3, <2>1, <2>2, <2>3, <2>4, <2>5, <2>6, <2>7, <2>8, <2>9, <2>10, <2>11, <2>12,
             <2>13, <2>14, <2>15, <2>16, <2>17, <2>18, <2>19, <2>20, <2>21, <2>22, <2>23, <2>24
             DEF ThreadStep
<1>4. ASSUME NEW b \in Box, LoopStep(b) PROVE TypeOK'
  <2>1. CASE BlockCheck(b)
    BY <1>0, <2>1 DEF BlockCheck
  <2>2. CASE BlockWrite(b)
    BY <1>0, <2>2 DEF BlockWrite
  <2>3. CASE LooperStart(b)
    BY <1>0, <2>3 DEF LooperStart
  <2>4. CASE LooperLaunch(b)
    BY <1>0, <2>4 DEF LooperLaunch
  <2>5. CASE LooperRecancel(b)
    BY <1>0, <2>5 DEF LooperRecancel, cancel
  <2>6. CASE BlockRecheck(b)
    BY <1>0, <2>6 DEF BlockRecheck
  <2>7. CASE BlockStopLoop(b)
    <3>1. job' \in [Box -> {"none", "running", "cancelled"}]
      BY <1>0, <2>7 DEF BlockStopLoop, cancel
    <3>2. block' \in [Box -> {"none", "check", "write", "start", "launch", "recancel",
                              "recheck", "cas", "cancel"}]
      BY <1>0, <2>7 DEF BlockStopLoop
    <3>3. stopped' \in [Box -> BOOLEAN]
      BY <1>0, <2>7 DEF BlockStopLoop
    <3> QED BY <1>0, <2>7, <3>1, <3>2, <3>3 DEF BlockStopLoop
  <2>8. CASE StopLoop(b)
    <3>1. job' \in [Box -> {"none", "running", "cancelled"}]
      BY <1>0, <2>8 DEF StopLoop, cancel
    <3>2. stopper' \in [Box -> {"none", "cas", "cancel"}]
      BY <1>0, <2>8 DEF StopLoop
    <3>3. stopped' \in [Box -> BOOLEAN]
      BY <1>0, <2>8 DEF StopLoop
    <3> QED BY <1>0, <2>8, <3>1, <3>2, <3>3 DEF StopLoop
  <2> QED BY <1>4, <2>1, <2>2, <2>3, <2>4, <2>5, <2>6, <2>7, <2>8 DEF LoopStep
<1> QED BY <1>0, <1>1, <1>2, <1>3, <1>4 DEF Next

\* A call goes from step to step of its own, on its box; only getMainInstance changes the
\* box, to the main instance.
LEMMA StepInvStep ==
  ASSUME IInv, [Next]_vars
  PROVE  StepInv'
<1> USE BoxAssumption DEF TypeOK, StepInv, UsingStep, ClosingStep, Holding, RunStep, KillStep,
       Call, Label, goVars, ktVars
<1>0. TypeOK /\ StepInv
  BY DEF IInv
<1>1. CASE UNCHANGED vars
  BY <1>0, <1>1 DEF vars
<1>2. ASSUME NEW t \in Thread, Caller(t) PROVE StepInv'
  <2>1. ASSUME NEW b \in Box, Run(t, b) PROVE StepInv'
    BY <1>0, <2>1 DEF Run, Invoke
  <2>2. ASSUME NEW b \in Box, Close(t, b) PROVE StepInv'
    BY <1>0, <2>2 DEF Close, Invoke
  <2>3. ASSUME NEW b \in Box, SelectOutbound(t, b) PROVE StepInv'
    BY <1>0, <2>3 DEF SelectOutbound, Invoke
  <2>4. ASSUME NEW b \in Box, Use(t, b) PROVE StepInv'
    BY <1>0, <2>4 DEF Use, Invoke, built
  <2>5. CASE ResetAllConnections(t)
    BY <1>0, <2>5 DEF ResetAllConnections, Invoke
  <2>6. CASE UrlTest(t)
    BY <1>0, <2>6 DEF UrlTest, Invoke
  <2> QED BY <1>2, <2>1, <2>2, <2>3, <2>4, <2>5, <2>6 DEF Caller, Sleep, Wake, QueryStats,
             newProxyHttpClient
<1>3. ASSUME NEW t \in Thread, ThreadStep(t) PROVE StepInv'
  <2>1. CASE NewSingBoxInstance(t)
    BY <1>0, <2>1 DEF NewSingBoxInstance, To
  <2>2. CASE AfterInit(t)
    BY <1>0, <2>2 DEF AfterInit, To
  <2>3. CASE Guard(t)
    BY <1>0, <2>3 DEF Guard, To
  <2>4. CASE SetAsMain(t)
    BY <1>0, <2>4 DEF SetAsMain, To, lockIfOpen, isOpen
  <2>5. CASE SetAsMainLock(t)
    BY <1>0, <2>5 DEF SetAsMainLock, To, LockMain
  <2>6. CASE SetAsMainServe(t)
    BY <1>0, <2>6 DEF SetAsMainServe, To, Unlock, goServeProtect
  <2>7. CASE SetV2rayStatsLock(t)
    BY <1>0, <2>7 DEF SetV2rayStatsLock, To, lockIfOpen, isOpen
  <2>8. CASE SetV2rayStats(t)
    BY <1>0, <2>8 DEF SetV2rayStats, To, Unlock
  <2>9. CASE GuardStart(t)
    BY <1>0, <2>9 DEF GuardStart, To
  <2>10. CASE Start(t)
    BY <1>0, <2>10 DEF Start, To
  <2>11. CASE BoxStart(t)
    BY <1>0, <2>11 DEF BoxStart, To, Unlock
  <2>12. CASE Spawn(t)
    BY <1>0, <2>12 DEF Spawn, To
  <2>13. CASE KillLoop(t)
    BY <1>0, <2>13 DEF KillLoop, To
  <2>14. CASE KillCancel(t)
    BY <1>0, <2>14 DEF KillCancel, To, cancel
  <2>15. CASE CloseOwner(t)
    BY <1>0, <2>15 DEF CloseOwner, To
  <2>16. CASE CloseBox(t)
    BY <1>0, <2>16 DEF CloseBox, To, isOpen, closeReturn
  <2>17. CASE CloseLockMain(t)
    BY <1>0, <2>17 DEF CloseLockMain, To, LockMain
  <2>18. CASE CloseClearMain(t)
    BY <1>0, <2>18 DEF CloseClearMain, To, wasMain, goServeProtect
  <2>19. CASE CloseCore(t)
    BY <1>0, <2>19 DEF CloseCore, To, Unlock, closeReturn
  <2>20. CASE CloseLooper(t)
    BY <1>0, <2>20 DEF CloseLooper, To
  <2>21. CASE Swap(t)
    BY <1>0, <2>21 DEF Swap, To
  <2>22. CASE getMainInstance(t)
    BY <1>0, <2>22 DEF getMainInstance
  <2>23. CASE UseLock(t)
    BY <1>0, <2>23 DEF UseLock, To, lockIfOpen, isOpen
  <2>24. CASE UseDone(t)
    BY <1>0, <2>24 DEF UseDone, To, Unlock
  <2> QED BY <1>3, <2>1, <2>2, <2>3, <2>4, <2>5, <2>6, <2>7, <2>8, <2>9, <2>10, <2>11, <2>12,
             <2>13, <2>14, <2>15, <2>16, <2>17, <2>18, <2>19, <2>20, <2>21, <2>22, <2>23, <2>24
             DEF ThreadStep
<1>4. ASSUME NEW b \in Box, LoopStep(b) PROVE StepInv'
  BY <1>0, <1>4, LoopFrame
<1> QED BY <1>0, <1>1, <1>2, <1>3, <1>4 DEF Next

\* access is taken on entry to a holding step and given back on leaving it; so is
\* mainInstanceAccess.
LEMMA LockInvStep ==
  ASSUME IInv, [Next]_vars
  PROVE  LockInv'
<1> USE BoxAssumption DEF TypeOK, StepInv, LockInv, UsingStep, ClosingStep, Holding, RunStep,
       KillStep, Call, Label, goVars, ktVars
<1>0. TypeOK /\ StepInv /\ LockInv
  BY DEF IInv
<1>1. CASE UNCHANGED vars
  BY <1>0, <1>1 DEF vars
<1>2. ASSUME NEW t \in Thread, Caller(t) PROVE LockInv'
  <2>1. ASSUME NEW b \in Box, Run(t, b) PROVE LockInv'
    BY <1>0, <2>1 DEF Run, Invoke
  <2>2. ASSUME NEW b \in Box, Close(t, b) PROVE LockInv'
    BY <1>0, <2>2 DEF Close, Invoke
  <2>3. ASSUME NEW b \in Box, SelectOutbound(t, b) PROVE LockInv'
    BY <1>0, <2>3 DEF SelectOutbound, Invoke
  <2>4. ASSUME NEW b \in Box, Use(t, b) PROVE LockInv'
    BY <1>0, <2>4 DEF Use, Invoke, built
  <2>5. CASE ResetAllConnections(t)
    BY <1>0, <2>5 DEF ResetAllConnections, Invoke
  <2>6. CASE UrlTest(t)
    BY <1>0, <2>6 DEF UrlTest, Invoke
  <2> QED BY <1>2, <2>1, <2>2, <2>3, <2>4, <2>5, <2>6 DEF Caller, Sleep, Wake, QueryStats,
             newProxyHttpClient
<1>3. ASSUME NEW t \in Thread, ThreadStep(t) PROVE LockInv'
  <2>1. CASE NewSingBoxInstance(t)
    BY <1>0, <2>1 DEF NewSingBoxInstance, To
  <2>2. CASE AfterInit(t)
    BY <1>0, <2>2 DEF AfterInit, To
  <2>3. CASE Guard(t)
    BY <1>0, <2>3 DEF Guard, To
  <2>4. CASE SetAsMain(t)
    BY <1>0, <2>4 DEF SetAsMain, To, lockIfOpen, isOpen
  <2>5. CASE SetAsMainLock(t)
    BY <1>0, <2>5 DEF SetAsMainLock, To, LockMain
  <2>6. CASE SetAsMainServe(t)
    BY <1>0, <2>6 DEF SetAsMainServe, To, Unlock, goServeProtect
  <2>7. CASE SetV2rayStatsLock(t)
    BY <1>0, <2>7 DEF SetV2rayStatsLock, To, lockIfOpen, isOpen
  <2>8. CASE SetV2rayStats(t)
    BY <1>0, <2>8 DEF SetV2rayStats, To, Unlock
  <2>9. CASE GuardStart(t)
    BY <1>0, <2>9 DEF GuardStart, To
  <2>10. CASE Start(t)
    BY <1>0, <2>10 DEF Start, To
  <2>11. CASE BoxStart(t)
    BY <1>0, <2>11 DEF BoxStart, To, Unlock
  <2>12. CASE Spawn(t)
    BY <1>0, <2>12 DEF Spawn, To
  <2>13. CASE KillLoop(t)
    BY <1>0, <2>13 DEF KillLoop, To
  <2>14. CASE KillCancel(t)
    BY <1>0, <2>14 DEF KillCancel, To, cancel
  <2>15. CASE CloseOwner(t)
    BY <1>0, <2>15 DEF CloseOwner, To
  <2>16. CASE CloseBox(t)
    BY <1>0, <2>16 DEF CloseBox, To, isOpen, closeReturn
  <2>17. CASE CloseLockMain(t)
    BY <1>0, <2>17 DEF CloseLockMain, To, LockMain
  <2>18. CASE CloseClearMain(t)
    BY <1>0, <2>18 DEF CloseClearMain, To, wasMain, goServeProtect
  <2>19. CASE CloseCore(t)
    BY <1>0, <2>19 DEF CloseCore, To, Unlock, closeReturn
  <2>20. CASE CloseLooper(t)
    BY <1>0, <2>20 DEF CloseLooper, To
  <2>21. CASE Swap(t)
    BY <1>0, <2>21 DEF Swap, To
  <2>22. CASE getMainInstance(t)
    BY <1>0, <2>22 DEF getMainInstance
  <2>23. CASE UseLock(t)
    BY <1>0, <2>23 DEF UseLock, To, lockIfOpen, isOpen
  <2>24. CASE UseDone(t)
    BY <1>0, <2>24 DEF UseDone, To, Unlock
  <2> QED BY <1>3, <2>1, <2>2, <2>3, <2>4, <2>5, <2>6, <2>7, <2>8, <2>9, <2>10, <2>11, <2>12,
             <2>13, <2>14, <2>15, <2>16, <2>17, <2>18, <2>19, <2>20, <2>21, <2>22, <2>23, <2>24
             DEF ThreadStep
<1>4. ASSUME NEW b \in Box, LoopStep(b) PROVE LockInv'
  BY <1>0, <1>4, LoopFrame
<1> QED BY <1>0, <1>1, <1>2, <1>3, <1>4 DEF Next

\* Only the holder of access changes the state of a box, so what a thread saw when it
\* entered is still so.
LEMMA OpenInvStep ==
  ASSUME IInv, [Next]_vars
  PROVE  OpenInv'
<1> USE BoxAssumption DEF TypeOK, StepInv, LockInv, OpenInv, UsingStep, ClosingStep, Holding,
       RunStep, KillStep, Call, Label, goVars, ktVars
<1>0. TypeOK /\ StepInv /\ LockInv /\ OpenInv
  BY DEF IInv
<1>1. CASE UNCHANGED vars
  BY <1>0, <1>1 DEF vars
<1>2. ASSUME NEW t \in Thread, Caller(t) PROVE OpenInv'
  <2>1. ASSUME NEW b \in Box, Run(t, b) PROVE OpenInv'
    BY <1>0, <2>1 DEF Run, Invoke
  <2>2. ASSUME NEW b \in Box, Close(t, b) PROVE OpenInv'
    BY <1>0, <2>2 DEF Close, Invoke
  <2>3. ASSUME NEW b \in Box, SelectOutbound(t, b) PROVE OpenInv'
    BY <1>0, <2>3 DEF SelectOutbound, Invoke
  <2>4. ASSUME NEW b \in Box, Use(t, b) PROVE OpenInv'
    BY <1>0, <2>4 DEF Use, Invoke, built
  <2>5. CASE ResetAllConnections(t)
    BY <1>0, <2>5 DEF ResetAllConnections, Invoke
  <2>6. CASE UrlTest(t)
    BY <1>0, <2>6 DEF UrlTest, Invoke
  <2> QED BY <1>2, <2>1, <2>2, <2>3, <2>4, <2>5, <2>6 DEF Caller, Sleep, Wake, QueryStats,
             newProxyHttpClient
<1>3. ASSUME NEW t \in Thread, ThreadStep(t) PROVE OpenInv'
  <2>1. CASE NewSingBoxInstance(t)
    BY <1>0, <2>1 DEF NewSingBoxInstance, To
  <2>2. CASE AfterInit(t)
    BY <1>0, <2>2 DEF AfterInit, To
  <2>3. CASE Guard(t)
    BY <1>0, <2>3 DEF Guard, To
  <2>4. CASE SetAsMain(t)
    BY <1>0, <2>4 DEF SetAsMain, To, lockIfOpen, isOpen
  <2>5. CASE SetAsMainLock(t)
    BY <1>0, <2>5 DEF SetAsMainLock, To, LockMain
  <2>6. CASE SetAsMainServe(t)
    BY <1>0, <2>6 DEF SetAsMainServe, To, Unlock, goServeProtect
  <2>7. CASE SetV2rayStatsLock(t)
    BY <1>0, <2>7 DEF SetV2rayStatsLock, To, lockIfOpen, isOpen
  <2>8. CASE SetV2rayStats(t)
    BY <1>0, <2>8 DEF SetV2rayStats, To, Unlock
  <2>9. CASE GuardStart(t)
    BY <1>0, <2>9 DEF GuardStart, To
  <2>10. CASE Start(t)
    BY <1>0, <2>10 DEF Start, To
  <2>11. CASE BoxStart(t)
    BY <1>0, <2>11 DEF BoxStart, To, Unlock
  <2>12. CASE Spawn(t)
    BY <1>0, <2>12 DEF Spawn, To
  <2>13. CASE KillLoop(t)
    BY <1>0, <2>13 DEF KillLoop, To
  <2>14. CASE KillCancel(t)
    BY <1>0, <2>14 DEF KillCancel, To, cancel
  <2>15. CASE CloseOwner(t)
    BY <1>0, <2>15 DEF CloseOwner, To
  <2>16. CASE CloseBox(t)
    BY <1>0, <2>16 DEF CloseBox, To, isOpen, closeReturn
  <2>17. CASE CloseLockMain(t)
    BY <1>0, <2>17 DEF CloseLockMain, To, LockMain
  <2>18. CASE CloseClearMain(t)
    BY <1>0, <2>18 DEF CloseClearMain, To, wasMain, goServeProtect
  <2>19. CASE CloseCore(t)
    BY <1>0, <2>19 DEF CloseCore, To, Unlock, closeReturn
  <2>20. CASE CloseLooper(t)
    BY <1>0, <2>20 DEF CloseLooper, To
  <2>21. CASE Swap(t)
    BY <1>0, <2>21 DEF Swap, To
  <2>22. CASE getMainInstance(t)
    BY <1>0, <2>22 DEF getMainInstance
  <2>23. CASE UseLock(t)
    BY <1>0, <2>23 DEF UseLock, To, lockIfOpen, isOpen
  <2>24. CASE UseDone(t)
    BY <1>0, <2>24 DEF UseDone, To, Unlock
  <2> QED BY <1>3, <2>1, <2>2, <2>3, <2>4, <2>5, <2>6, <2>7, <2>8, <2>9, <2>10, <2>11, <2>12,
             <2>13, <2>14, <2>15, <2>16, <2>17, <2>18, <2>19, <2>20, <2>21, <2>22, <2>23, <2>24
             DEF ThreadStep
<1>4. ASSUME NEW b \in Box, LoopStep(b) PROVE OpenInv'
  BY <1>0, <1>4, LoopFrame
<1> QED BY <1>0, <1>1, <1>2, <1>3, <1>4 DEF Next

\* A box becomes the main instance while it is open and its holder keeps Close out; a box
\* is closed by the thread that then clears the main instance.
LEMMA MainInvStep ==
  ASSUME IInv, [Next]_vars
  PROVE  MainInv'
<1> USE BoxAssumption DEF TypeOK, StepInv, LockInv, OpenInv, CoreInv, MainInv, UsingStep,
       ClosingStep, Holding, RunStep, KillStep, Call, Label, goVars, ktVars
<1>0. TypeOK /\ StepInv /\ LockInv /\ OpenInv /\ CoreInv /\ MainInv
  BY DEF IInv
<1>1. CASE UNCHANGED vars
  BY <1>0, <1>1 DEF vars
<1>2. ASSUME NEW t \in Thread, Caller(t) PROVE MainInv'
  <2>1. ASSUME NEW b \in Box, Run(t, b) PROVE MainInv'
    BY <1>0, <2>1 DEF Run, Invoke
  <2>2. ASSUME NEW b \in Box, Close(t, b) PROVE MainInv'
    BY <1>0, <2>2 DEF Close, Invoke
  <2>3. ASSUME NEW b \in Box, SelectOutbound(t, b) PROVE MainInv'
    BY <1>0, <2>3 DEF SelectOutbound, Invoke
  <2>4. ASSUME NEW b \in Box, Use(t, b) PROVE MainInv'
    BY <1>0, <2>4 DEF Use, Invoke, built
  <2>5. CASE ResetAllConnections(t)
    BY <1>0, <2>5 DEF ResetAllConnections, Invoke
  <2>6. CASE UrlTest(t)
    BY <1>0, <2>6 DEF UrlTest, Invoke
  <2> QED BY <1>2, <2>1, <2>2, <2>3, <2>4, <2>5, <2>6 DEF Caller, Sleep, Wake, QueryStats,
             newProxyHttpClient
<1>3. ASSUME NEW t \in Thread, ThreadStep(t) PROVE MainInv'
  <2>1. CASE NewSingBoxInstance(t)
    BY <1>0, <2>1 DEF NewSingBoxInstance, To
  <2>2. CASE AfterInit(t)
    BY <1>0, <2>2 DEF AfterInit, To
  <2>3. CASE Guard(t)
    BY <1>0, <2>3 DEF Guard, To
  <2>4. CASE SetAsMain(t)
    BY <1>0, <2>4 DEF SetAsMain, To, lockIfOpen, isOpen
  <2>5. CASE SetAsMainLock(t)
    BY <1>0, <2>5 DEF SetAsMainLock, To, LockMain
  <2>6. CASE SetAsMainServe(t)
    BY <1>0, <2>6 DEF SetAsMainServe, To, Unlock, goServeProtect
  <2>7. CASE SetV2rayStatsLock(t)
    BY <1>0, <2>7 DEF SetV2rayStatsLock, To, lockIfOpen, isOpen
  <2>8. CASE SetV2rayStats(t)
    BY <1>0, <2>8 DEF SetV2rayStats, To, Unlock
  <2>9. CASE GuardStart(t)
    BY <1>0, <2>9 DEF GuardStart, To
  <2>10. CASE Start(t)
    BY <1>0, <2>10 DEF Start, To
  <2>11. CASE BoxStart(t)
    BY <1>0, <2>11 DEF BoxStart, To, Unlock
  <2>12. CASE Spawn(t)
    BY <1>0, <2>12 DEF Spawn, To
  <2>13. CASE KillLoop(t)
    BY <1>0, <2>13 DEF KillLoop, To
  <2>14. CASE KillCancel(t)
    BY <1>0, <2>14 DEF KillCancel, To, cancel
  <2>15. CASE CloseOwner(t)
    BY <1>0, <2>15 DEF CloseOwner, To
  <2>16. CASE CloseBox(t)
    BY <1>0, <2>16 DEF CloseBox, To, isOpen, closeReturn
  <2>17. CASE CloseLockMain(t)
    BY <1>0, <2>17 DEF CloseLockMain, To, LockMain
  <2>18. CASE CloseClearMain(t)
    <3>1. CASE mainInstance = arg[t]
      BY <1>0, <2>18, <3>1 DEF CloseClearMain, wasMain, goServeProtect, To
    <3>2. CASE mainInstance # arg[t]
      <4>1. /\ UNCHANGED <<mainInstance, protect>>
            /\ UNCHANGED <<state, access, core>>
        BY <2>18, <3>2 DEF CloseClearMain, wasMain
      <4>3. \A u \in Thread \ {t} : at'[u] = at[u]
        BY <1>0, <2>18 DEF CloseClearMain, To
      <4>2. mainInstance # None => access[mainInstance] # t
        BY <1>0, <2>18, <3>2 DEF CloseClearMain
      <4> QED BY <1>0, <4>1, <4>2, <4>3
    <3> QED BY <3>1, <3>2
  <2>19. CASE CloseCore(t)
    BY <1>0, <2>19 DEF CloseCore, To, Unlock, closeReturn
  <2>20. CASE CloseLooper(t)
    BY <1>0, <2>20 DEF CloseLooper, To
  <2>21. CASE Swap(t)
    BY <1>0, <2>21 DEF Swap, To
  <2>22. CASE getMainInstance(t)
    BY <1>0, <2>22 DEF getMainInstance
  <2>23. CASE UseLock(t)
    BY <1>0, <2>23 DEF UseLock, To, lockIfOpen, isOpen
  <2>24. CASE UseDone(t)
    BY <1>0, <2>24 DEF UseDone, To, Unlock
  <2> QED BY <1>3, <2>1, <2>2, <2>3, <2>4, <2>5, <2>6, <2>7, <2>8, <2>9, <2>10, <2>11, <2>12,
             <2>13, <2>14, <2>15, <2>16, <2>17, <2>18, <2>19, <2>20, <2>21, <2>22, <2>23, <2>24
             DEF ThreadStep
<1>4. ASSUME NEW b \in Box, LoopStep(b) PROVE MainInv'
  BY <1>0, <1>4, LoopFrame
<1> QED BY <1>0, <1>1, <1>2, <1>3, <1>4 DEF Next

\* begun lets one thread through to init(), and launch() ends by handing out the block.
LEMMA RunInvStep ==
  ASSUME IInv, [Next]_vars
  PROVE  RunInv'
<1> USE BoxAssumption DEF TypeOK, StepInv, CoreInv, RunInv, UsingStep, ClosingStep, Holding,
       RunStep, KillStep, Call, Label, goVars, ktVars
<1>0. TypeOK /\ StepInv /\ CoreInv /\ RunInv
  BY DEF IInv
<1>1. CASE UNCHANGED vars
  BY <1>0, <1>1 DEF vars
<1>2. ASSUME NEW t \in Thread, Caller(t) PROVE RunInv'
  <2>1. ASSUME NEW b \in Box, Run(t, b) PROVE RunInv'
    BY <1>0, <2>1 DEF Run, Invoke
  <2>2. ASSUME NEW b \in Box, Close(t, b) PROVE RunInv'
    BY <1>0, <2>2 DEF Close, Invoke
  <2>3. ASSUME NEW b \in Box, SelectOutbound(t, b) PROVE RunInv'
    BY <1>0, <2>3 DEF SelectOutbound, Invoke
  <2>4. ASSUME NEW b \in Box, Use(t, b) PROVE RunInv'
    BY <1>0, <2>4 DEF Use, Invoke, built
  <2>5. CASE ResetAllConnections(t)
    BY <1>0, <2>5 DEF ResetAllConnections, Invoke
  <2>6. CASE UrlTest(t)
    BY <1>0, <2>6 DEF UrlTest, Invoke
  <2> QED BY <1>2, <2>1, <2>2, <2>3, <2>4, <2>5, <2>6 DEF Caller, Sleep, Wake, QueryStats,
             newProxyHttpClient
<1>3. ASSUME NEW t \in Thread, ThreadStep(t) PROVE RunInv'
  <2>1. CASE NewSingBoxInstance(t)
    BY <1>0, <2>1 DEF NewSingBoxInstance, To
  <2>2. CASE AfterInit(t)
    BY <1>0, <2>2 DEF AfterInit, To
  <2>3. CASE Guard(t)
    BY <1>0, <2>3 DEF Guard, To
  <2>4. CASE SetAsMain(t)
    BY <1>0, <2>4 DEF SetAsMain, To, lockIfOpen, isOpen
  <2>5. CASE SetAsMainLock(t)
    BY <1>0, <2>5 DEF SetAsMainLock, To, LockMain
  <2>6. CASE SetAsMainServe(t)
    BY <1>0, <2>6 DEF SetAsMainServe, To, Unlock, goServeProtect
  <2>7. CASE SetV2rayStatsLock(t)
    BY <1>0, <2>7 DEF SetV2rayStatsLock, To, lockIfOpen, isOpen
  <2>8. CASE SetV2rayStats(t)
    BY <1>0, <2>8 DEF SetV2rayStats, To, Unlock
  <2>9. CASE GuardStart(t)
    BY <1>0, <2>9 DEF GuardStart, To
  <2>10. CASE Start(t)
    BY <1>0, <2>10 DEF Start, To
  <2>11. CASE BoxStart(t)
    BY <1>0, <2>11 DEF BoxStart, To, Unlock
  <2>12. CASE Spawn(t)
    BY <1>0, <2>12 DEF Spawn, To
  <2>13. CASE KillLoop(t)
    BY <1>0, <2>13 DEF KillLoop, To
  <2>14. CASE KillCancel(t)
    BY <1>0, <2>14 DEF KillCancel, To, cancel
  <2>15. CASE CloseOwner(t)
    BY <1>0, <2>15 DEF CloseOwner, To
  <2>16. CASE CloseBox(t)
    BY <1>0, <2>16 DEF CloseBox, To, isOpen, closeReturn
  <2>17. CASE CloseLockMain(t)
    BY <1>0, <2>17 DEF CloseLockMain, To, LockMain
  <2>18. CASE CloseClearMain(t)
    BY <1>0, <2>18 DEF CloseClearMain, To, wasMain, goServeProtect
  <2>19. CASE CloseCore(t)
    BY <1>0, <2>19 DEF CloseCore, To, Unlock, closeReturn
  <2>20. CASE CloseLooper(t)
    BY <1>0, <2>20 DEF CloseLooper, To
  <2>21. CASE Swap(t)
    BY <1>0, <2>21 DEF Swap, To
  <2>22. CASE getMainInstance(t)
    BY <1>0, <2>22 DEF getMainInstance
  <2>23. CASE UseLock(t)
    BY <1>0, <2>23 DEF UseLock, To, lockIfOpen, isOpen
  <2>24. CASE UseDone(t)
    BY <1>0, <2>24 DEF UseDone, To, Unlock
  <2> QED BY <1>3, <2>1, <2>2, <2>3, <2>4, <2>5, <2>6, <2>7, <2>8, <2>9, <2>10, <2>11, <2>12,
             <2>13, <2>14, <2>15, <2>16, <2>17, <2>18, <2>19, <2>20, <2>21, <2>22, <2>23, <2>24
             DEF ThreadStep
<1>4. ASSUME NEW b \in Box, LoopStep(b) PROVE RunInv'
  <2>1. CASE BlockCheck(b)
    BY <1>0, <2>1 DEF BlockCheck
  <2>2. CASE BlockWrite(b)
    BY <1>0, <2>2 DEF BlockWrite
  <2>3. CASE LooperStart(b)
    BY <1>0, <2>3 DEF LooperStart
  <2>4. CASE LooperLaunch(b)
    BY <1>0, <2>4 DEF LooperLaunch
  <2>5. CASE LooperRecancel(b)
    BY <1>0, <2>5 DEF LooperRecancel, cancel
  <2>6. CASE BlockRecheck(b)
    BY <1>0, <2>6 DEF BlockRecheck
  <2>7. CASE BlockStopLoop(b)
    BY <1>0, <2>7 DEF BlockStopLoop, cancel
  <2>8. CASE StopLoop(b)
    BY <1>0, <2>8 DEF StopLoop, cancel
  <2> QED BY <1>4, <2>1, <2>2, <2>3, <2>4, <2>5, <2>6, <2>7, <2>8 DEF LoopStep
<1> QED BY <1>0, <1>1, <1>2, <1>3, <1>4 DEF Next

\* The core is made once, by init; the closing thread gives access back when it is closed.
LEMMA CoreInvStep ==
  ASSUME IInv, [Next]_vars
  PROVE  CoreInv'
<1> USE BoxAssumption DEF TypeOK, StepInv, LockInv, OpenInv, RunInv, CoreInv, UsingStep,
       ClosingStep, Holding, RunStep, KillStep, Call, Label, goVars, ktVars
<1>0. TypeOK /\ StepInv /\ LockInv /\ OpenInv /\ RunInv /\ CoreInv
  BY DEF IInv
<1>1. CASE UNCHANGED vars
  BY <1>0, <1>1 DEF vars
<1>2. ASSUME NEW t \in Thread, Caller(t) PROVE CoreInv'
  <2>1. ASSUME NEW b \in Box, Run(t, b) PROVE CoreInv'
    BY <1>0, <2>1 DEF Run, Invoke
  <2>2. ASSUME NEW b \in Box, Close(t, b) PROVE CoreInv'
    BY <1>0, <2>2 DEF Close, Invoke
  <2>3. ASSUME NEW b \in Box, SelectOutbound(t, b) PROVE CoreInv'
    BY <1>0, <2>3 DEF SelectOutbound, Invoke
  <2>4. ASSUME NEW b \in Box, Use(t, b) PROVE CoreInv'
    BY <1>0, <2>4 DEF Use, Invoke, built
  <2>5. CASE ResetAllConnections(t)
    BY <1>0, <2>5 DEF ResetAllConnections, Invoke
  <2>6. CASE UrlTest(t)
    BY <1>0, <2>6 DEF UrlTest, Invoke
  <2> QED BY <1>2, <2>1, <2>2, <2>3, <2>4, <2>5, <2>6 DEF Caller, Sleep, Wake, QueryStats,
             newProxyHttpClient
<1>3. ASSUME NEW t \in Thread, ThreadStep(t) PROVE CoreInv'
  <2>1. CASE NewSingBoxInstance(t)
    BY <1>0, <2>1 DEF NewSingBoxInstance, To
  <2>2. CASE AfterInit(t)
    BY <1>0, <2>2 DEF AfterInit, To
  <2>3. CASE Guard(t)
    BY <1>0, <2>3 DEF Guard, To
  <2>4. CASE SetAsMain(t)
    BY <1>0, <2>4 DEF SetAsMain, To, lockIfOpen, isOpen
  <2>5. CASE SetAsMainLock(t)
    BY <1>0, <2>5 DEF SetAsMainLock, To, LockMain
  <2>6. CASE SetAsMainServe(t)
    BY <1>0, <2>6 DEF SetAsMainServe, To, Unlock, goServeProtect
  <2>7. CASE SetV2rayStatsLock(t)
    BY <1>0, <2>7 DEF SetV2rayStatsLock, To, lockIfOpen, isOpen
  <2>8. CASE SetV2rayStats(t)
    BY <1>0, <2>8 DEF SetV2rayStats, To, Unlock
  <2>9. CASE GuardStart(t)
    BY <1>0, <2>9 DEF GuardStart, To
  <2>10. CASE Start(t)
    BY <1>0, <2>10 DEF Start, To
  <2>11. CASE BoxStart(t)
    <3>1. /\ arg[t] \in Box /\ state' = state
          /\ core'[arg[t]] \in {"running", "closed"}
          /\ \A b \in Box \ {arg[t]} : core'[b] = core[b] /\ access'[b] = access[b] /\ access[b] # t
          /\ \A u \in Thread \ {t} : at'[u] = at[u] /\ arg'[u] = arg[u]
          /\ at'[t] \in {"spawn", "idle"}
          /\ at'[t] = "spawn" => arg'[t] = arg[t]
      BY <1>0, <2>11 DEF BoxStart, To, Unlock
    <3>2. state[arg[t]] # "boxClosed"
      BY <1>0, <2>11 DEF BoxStart
    <3>3. \A u \in Thread \ {t} : arg[u] = arg[t] => at[u] # "init"
      BY <1>0, <2>11 DEF BoxStart
    <3> QED BY <1>0, <3>1, <3>2, <3>3
  <2>12. CASE Spawn(t)
    BY <1>0, <2>12 DEF Spawn, To
  <2>13. CASE KillLoop(t)
    BY <1>0, <2>13 DEF KillLoop, To
  <2>14. CASE KillCancel(t)
    BY <1>0, <2>14 DEF KillCancel, To, cancel
  <2>15. CASE CloseOwner(t)
    BY <1>0, <2>15 DEF CloseOwner, To
  <2>16. CASE CloseBox(t)
    BY <1>0, <2>16 DEF CloseBox, To, isOpen, closeReturn
  <2>17. CASE CloseLockMain(t)
    BY <1>0, <2>17 DEF CloseLockMain, To, LockMain
  <2>18. CASE CloseClearMain(t)
    BY <1>0, <2>18 DEF CloseClearMain, To, wasMain, goServeProtect
  <2>19. CASE CloseCore(t)
    BY <1>0, <2>19 DEF CloseCore, To, Unlock, closeReturn
  <2>20. CASE CloseLooper(t)
    BY <1>0, <2>20 DEF CloseLooper, To
  <2>21. CASE Swap(t)
    BY <1>0, <2>21 DEF Swap, To
  <2>22. CASE getMainInstance(t)
    BY <1>0, <2>22 DEF getMainInstance
  <2>23. CASE UseLock(t)
    BY <1>0, <2>23 DEF UseLock, To, lockIfOpen, isOpen
  <2>24. CASE UseDone(t)
    BY <1>0, <2>24 DEF UseDone, To, Unlock
  <2> QED BY <1>3, <2>1, <2>2, <2>3, <2>4, <2>5, <2>6, <2>7, <2>8, <2>9, <2>10, <2>11, <2>12,
             <2>13, <2>14, <2>15, <2>16, <2>17, <2>18, <2>19, <2>20, <2>21, <2>22, <2>23, <2>24
             DEF ThreadStep
<1>4. ASSUME NEW b \in Box, LoopStep(b) PROVE CoreInv'
  BY <1>0, <1>4, LoopFrame
<1> QED BY <1>0, <1>1, <1>2, <1>3, <1>4 DEF Next

\* close() that finds a core goes on to BoxInstance.Close; one that comes before the core
\* leaves it to the end of init.
LEMMA CloseInvStep ==
  ASSUME IInv, [Next]_vars
  PROVE  CloseInv'
<1> USE BoxAssumption DEF TypeOK, StepInv, CoreInv, CloseInv, UsingStep, ClosingStep, Holding,
       RunStep, KillStep, Call, Label, goVars, ktVars
<1>0. TypeOK /\ StepInv /\ CoreInv /\ CloseInv
  BY DEF IInv
<1>1. CASE UNCHANGED vars
  BY <1>0, <1>1 DEF vars
<1>2. ASSUME NEW t \in Thread, Caller(t) PROVE CloseInv'
  <2>1. ASSUME NEW b \in Box, Run(t, b) PROVE CloseInv'
    BY <1>0, <2>1 DEF Run, Invoke
  <2>2. ASSUME NEW b \in Box, Close(t, b) PROVE CloseInv'
    BY <1>0, <2>2 DEF Close, Invoke
  <2>3. ASSUME NEW b \in Box, SelectOutbound(t, b) PROVE CloseInv'
    BY <1>0, <2>3 DEF SelectOutbound, Invoke
  <2>4. ASSUME NEW b \in Box, Use(t, b) PROVE CloseInv'
    BY <1>0, <2>4 DEF Use, Invoke, built
  <2>5. CASE ResetAllConnections(t)
    BY <1>0, <2>5 DEF ResetAllConnections, Invoke
  <2>6. CASE UrlTest(t)
    BY <1>0, <2>6 DEF UrlTest, Invoke
  <2> QED BY <1>2, <2>1, <2>2, <2>3, <2>4, <2>5, <2>6 DEF Caller, Sleep, Wake, QueryStats,
             newProxyHttpClient
<1>3. ASSUME NEW t \in Thread, ThreadStep(t) PROVE CloseInv'
  <2>1. CASE NewSingBoxInstance(t)
    BY <1>0, <2>1 DEF NewSingBoxInstance, To
  <2>2. CASE AfterInit(t)
    BY <1>0, <2>2 DEF AfterInit, To
  <2>3. CASE Guard(t)
    BY <1>0, <2>3 DEF Guard, To
  <2>4. CASE SetAsMain(t)
    BY <1>0, <2>4 DEF SetAsMain, To, lockIfOpen, isOpen
  <2>5. CASE SetAsMainLock(t)
    BY <1>0, <2>5 DEF SetAsMainLock, To, LockMain
  <2>6. CASE SetAsMainServe(t)
    BY <1>0, <2>6 DEF SetAsMainServe, To, Unlock, goServeProtect
  <2>7. CASE SetV2rayStatsLock(t)
    BY <1>0, <2>7 DEF SetV2rayStatsLock, To, lockIfOpen, isOpen
  <2>8. CASE SetV2rayStats(t)
    BY <1>0, <2>8 DEF SetV2rayStats, To, Unlock
  <2>9. CASE GuardStart(t)
    BY <1>0, <2>9 DEF GuardStart, To
  <2>10. CASE Start(t)
    BY <1>0, <2>10 DEF Start, To
  <2>11. CASE BoxStart(t)
    BY <1>0, <2>11 DEF BoxStart, To, Unlock
  <2>12. CASE Spawn(t)
    BY <1>0, <2>12 DEF Spawn, To
  <2>13. CASE KillLoop(t)
    BY <1>0, <2>13 DEF KillLoop, To
  <2>14. CASE KillCancel(t)
    BY <1>0, <2>14 DEF KillCancel, To, cancel
  <2>15. CASE CloseOwner(t)
    BY <1>0, <2>15 DEF CloseOwner, To
  <2>16. CASE CloseBox(t)
    BY <1>0, <2>16 DEF CloseBox, To, isOpen, closeReturn
  <2>17. CASE CloseLockMain(t)
    BY <1>0, <2>17 DEF CloseLockMain, To, LockMain
  <2>18. CASE CloseClearMain(t)
    BY <1>0, <2>18 DEF CloseClearMain, To, wasMain, goServeProtect
  <2>19. CASE CloseCore(t)
    BY <1>0, <2>19 DEF CloseCore, To, Unlock, closeReturn
  <2>20. CASE CloseLooper(t)
    BY <1>0, <2>20 DEF CloseLooper, To
  <2>21. CASE Swap(t)
    BY <1>0, <2>21 DEF Swap, To
  <2>22. CASE getMainInstance(t)
    BY <1>0, <2>22 DEF getMainInstance
  <2>23. CASE UseLock(t)
    BY <1>0, <2>23 DEF UseLock, To, lockIfOpen, isOpen
  <2>24. CASE UseDone(t)
    BY <1>0, <2>24 DEF UseDone, To, Unlock
  <2> QED BY <1>3, <2>1, <2>2, <2>3, <2>4, <2>5, <2>6, <2>7, <2>8, <2>9, <2>10, <2>11, <2>12,
             <2>13, <2>14, <2>15, <2>16, <2>17, <2>18, <2>19, <2>20, <2>21, <2>22, <2>23, <2>24
             DEF ThreadStep
<1>4. ASSUME NEW b \in Box, LoopStep(b) PROVE CloseInv'
  BY <1>0, <1>4, LoopFrame
<1> QED BY <1>0, <1>1, <1>2, <1>3, <1>4 DEF Next

\* The flag of close() lets one thread through, which hands out at most one stop.
LEMMA FlagInvStep ==
  ASSUME IInv, [Next]_vars
  PROVE  FlagInv'
<1> USE BoxAssumption DEF TypeOK, StepInv, FlagInv, PastFlag, UsingStep, ClosingStep, Holding,
       RunStep, KillStep, Call, Label, goVars, ktVars
<1>0. TypeOK /\ StepInv /\ FlagInv
  BY DEF IInv
<1>1. CASE UNCHANGED vars
  BY <1>0, <1>1 DEF vars
<1>2. ASSUME NEW t \in Thread, Caller(t) PROVE FlagInv'
  <2>1. ASSUME NEW b \in Box, Run(t, b) PROVE FlagInv'
    BY <1>0, <2>1 DEF Run, Invoke
  <2>2. ASSUME NEW b \in Box, Close(t, b) PROVE FlagInv'
    BY <1>0, <2>2 DEF Close, Invoke
  <2>3. ASSUME NEW b \in Box, SelectOutbound(t, b) PROVE FlagInv'
    BY <1>0, <2>3 DEF SelectOutbound, Invoke
  <2>4. ASSUME NEW b \in Box, Use(t, b) PROVE FlagInv'
    BY <1>0, <2>4 DEF Use, Invoke, built
  <2>5. CASE ResetAllConnections(t)
    BY <1>0, <2>5 DEF ResetAllConnections, Invoke
  <2>6. CASE UrlTest(t)
    BY <1>0, <2>6 DEF UrlTest, Invoke
  <2> QED BY <1>2, <2>1, <2>2, <2>3, <2>4, <2>5, <2>6 DEF Caller, Sleep, Wake, QueryStats,
             newProxyHttpClient
<1>3. ASSUME NEW t \in Thread, ThreadStep(t) PROVE FlagInv'
  <2>1. CASE NewSingBoxInstance(t)
    BY <1>0, <2>1 DEF NewSingBoxInstance, To
  <2>2. CASE AfterInit(t)
    BY <1>0, <2>2 DEF AfterInit, To
  <2>3. CASE Guard(t)
    BY <1>0, <2>3 DEF Guard, To
  <2>4. CASE SetAsMain(t)
    BY <1>0, <2>4 DEF SetAsMain, To, lockIfOpen, isOpen
  <2>5. CASE SetAsMainLock(t)
    BY <1>0, <2>5 DEF SetAsMainLock, To, LockMain
  <2>6. CASE SetAsMainServe(t)
    BY <1>0, <2>6 DEF SetAsMainServe, To, Unlock, goServeProtect
  <2>7. CASE SetV2rayStatsLock(t)
    BY <1>0, <2>7 DEF SetV2rayStatsLock, To, lockIfOpen, isOpen
  <2>8. CASE SetV2rayStats(t)
    BY <1>0, <2>8 DEF SetV2rayStats, To, Unlock
  <2>9. CASE GuardStart(t)
    BY <1>0, <2>9 DEF GuardStart, To
  <2>10. CASE Start(t)
    BY <1>0, <2>10 DEF Start, To
  <2>11. CASE BoxStart(t)
    BY <1>0, <2>11 DEF BoxStart, To, Unlock
  <2>12. CASE Spawn(t)
    BY <1>0, <2>12 DEF Spawn, To
  <2>13. CASE KillLoop(t)
    BY <1>0, <2>13 DEF KillLoop, To
  <2>14. CASE KillCancel(t)
    BY <1>0, <2>14 DEF KillCancel, To, cancel
  <2>15. CASE CloseOwner(t)
    BY <1>0, <2>15 DEF CloseOwner, To
  <2>16. CASE CloseBox(t)
    BY <1>0, <2>16 DEF CloseBox, To, isOpen, closeReturn
  <2>17. CASE CloseLockMain(t)
    BY <1>0, <2>17 DEF CloseLockMain, To, LockMain
  <2>18. CASE CloseClearMain(t)
    BY <1>0, <2>18 DEF CloseClearMain, To, wasMain, goServeProtect
  <2>19. CASE CloseCore(t)
    BY <1>0, <2>19 DEF CloseCore, To, Unlock, closeReturn
  <2>20. CASE CloseLooper(t)
    BY <1>0, <2>20 DEF CloseLooper, To
  <2>21. CASE Swap(t)
    BY <1>0, <2>21 DEF Swap, To
  <2>22. CASE getMainInstance(t)
    BY <1>0, <2>22 DEF getMainInstance
  <2>23. CASE UseLock(t)
    BY <1>0, <2>23 DEF UseLock, To, lockIfOpen, isOpen
  <2>24. CASE UseDone(t)
    BY <1>0, <2>24 DEF UseDone, To, Unlock
  <2> QED BY <1>3, <2>1, <2>2, <2>3, <2>4, <2>5, <2>6, <2>7, <2>8, <2>9, <2>10, <2>11, <2>12,
             <2>13, <2>14, <2>15, <2>16, <2>17, <2>18, <2>19, <2>20, <2>21, <2>22, <2>23, <2>24
             DEF ThreadStep
<1>4. ASSUME NEW b \in Box, LoopStep(b) PROVE FlagInv'
  <2>1. CASE BlockCheck(b)
    BY <1>0, <2>1 DEF BlockCheck
  <2>2. CASE BlockWrite(b)
    BY <1>0, <2>2 DEF BlockWrite
  <2>3. CASE LooperStart(b)
    BY <1>0, <2>3 DEF LooperStart
  <2>4. CASE LooperLaunch(b)
    BY <1>0, <2>4 DEF LooperLaunch
  <2>5. CASE LooperRecancel(b)
    BY <1>0, <2>5 DEF LooperRecancel, cancel
  <2>6. CASE BlockRecheck(b)
    BY <1>0, <2>6 DEF BlockRecheck
  <2>7. CASE BlockStopLoop(b)
    BY <1>0, <2>7 DEF BlockStopLoop, cancel
  <2>8. CASE StopLoop(b)
    BY <1>0, <2>8 DEF StopLoop, cancel
  <2> QED BY <1>4, <2>1, <2>2, <2>3, <2>4, <2>5, <2>6, <2>7, <2>8 DEF LoopStep
<1> QED BY <1>0, <1>1, <1>2, <1>3, <1>4 DEF Next

\* The block publishes the looper before it looks at the flag again, close() sets the flag
\* before it reads the looper: one of the two stops the loop.
LEMMA LoopInvStep ==
  ASSUME IInv, [Next]_vars
  PROVE  LoopInv'
<1> USE BoxAssumption DEF TypeOK, StepInv, RunInv, FlagInv, LoopInv, PastFlag, UsingStep,
       ClosingStep, Holding, RunStep, KillStep, Call, Label, goVars, ktVars
<1>0. TypeOK /\ StepInv /\ RunInv /\ FlagInv /\ LoopInv
  BY DEF IInv
<1>1. CASE UNCHANGED vars
  BY <1>0, <1>1 DEF vars
<1>2. ASSUME NEW t \in Thread, Caller(t) PROVE LoopInv'
  <2>1. ASSUME NEW b \in Box, Run(t, b) PROVE LoopInv'
    BY <1>0, <2>1 DEF Run, Invoke
  <2>2. ASSUME NEW b \in Box, Close(t, b) PROVE LoopInv'
    BY <1>0, <2>2 DEF Close, Invoke
  <2>3. ASSUME NEW b \in Box, SelectOutbound(t, b) PROVE LoopInv'
    BY <1>0, <2>3 DEF SelectOutbound, Invoke
  <2>4. ASSUME NEW b \in Box, Use(t, b) PROVE LoopInv'
    BY <1>0, <2>4 DEF Use, Invoke, built
  <2>5. CASE ResetAllConnections(t)
    BY <1>0, <2>5 DEF ResetAllConnections, Invoke
  <2>6. CASE UrlTest(t)
    BY <1>0, <2>6 DEF UrlTest, Invoke
  <2> QED BY <1>2, <2>1, <2>2, <2>3, <2>4, <2>5, <2>6 DEF Caller, Sleep, Wake, QueryStats,
             newProxyHttpClient
<1>3. ASSUME NEW t \in Thread, ThreadStep(t) PROVE LoopInv'
  <2>1. CASE NewSingBoxInstance(t)
    <3>1. \A u \in Thread, b \in Box :
             /\ PastFlag(u, b) => PastFlag(u, b)'
             /\ arg[u] = b /\ at[u] = "kill_cancel" => arg'[u] = b /\ at'[u] = "kill_cancel"
      BY <1>0, <2>1 DEF NewSingBoxInstance, To
    <3> QED BY <1>0, <2>1, <3>1 DEF NewSingBoxInstance
  <2>2. CASE AfterInit(t)
    <3>1. \A u \in Thread, b \in Box :
             /\ PastFlag(u, b) => PastFlag(u, b)'
             /\ arg[u] = b /\ at[u] = "kill_cancel" => arg'[u] = b /\ at'[u] = "kill_cancel"
      BY <1>0, <2>2 DEF AfterInit, To
    <3> QED BY <1>0, <2>2, <3>1 DEF AfterInit
  <2>3. CASE Guard(t)
    <3>1. \A u \in Thread, b \in Box :
             /\ PastFlag(u, b) => PastFlag(u, b)'
             /\ arg[u] = b /\ at[u] = "kill_cancel" => arg'[u] = b /\ at'[u] = "kill_cancel"
      BY <1>0, <2>3 DEF Guard, To
    <3> QED BY <1>0, <2>3, <3>1 DEF Guard
  <2>4. CASE SetAsMain(t)
    <3>1. \A u \in Thread, b \in Box :
             /\ PastFlag(u, b) => PastFlag(u, b)'
             /\ arg[u] = b /\ at[u] = "kill_cancel" => arg'[u] = b /\ at'[u] = "kill_cancel"
      BY <1>0, <2>4 DEF SetAsMain, To, lockIfOpen, isOpen
    <3> QED BY <1>0, <2>4, <3>1 DEF SetAsMain
  <2>5. CASE SetAsMainLock(t)
    <3>1. \A u \in Thread, b \in Box :
             /\ PastFlag(u, b) => PastFlag(u, b)'
             /\ arg[u] = b /\ at[u] = "kill_cancel" => arg'[u] = b /\ at'[u] = "kill_cancel"
      BY <1>0, <2>5 DEF SetAsMainLock, To, LockMain
    <3> QED BY <1>0, <2>5, <3>1 DEF SetAsMainLock
  <2>6. CASE SetAsMainServe(t)
    <3>1. \A u \in Thread, b \in Box :
             /\ PastFlag(u, b) => PastFlag(u, b)'
             /\ arg[u] = b /\ at[u] = "kill_cancel" => arg'[u] = b /\ at'[u] = "kill_cancel"
      BY <1>0, <2>6 DEF SetAsMainServe, To, Unlock, goServeProtect
    <3> QED BY <1>0, <2>6, <3>1 DEF SetAsMainServe
  <2>7. CASE SetV2rayStatsLock(t)
    <3>1. \A u \in Thread, b \in Box :
             /\ PastFlag(u, b) => PastFlag(u, b)'
             /\ arg[u] = b /\ at[u] = "kill_cancel" => arg'[u] = b /\ at'[u] = "kill_cancel"
      BY <1>0, <2>7 DEF SetV2rayStatsLock, To, lockIfOpen, isOpen
    <3> QED BY <1>0, <2>7, <3>1 DEF SetV2rayStatsLock
  <2>8. CASE SetV2rayStats(t)
    <3>1. \A u \in Thread, b \in Box :
             /\ PastFlag(u, b) => PastFlag(u, b)'
             /\ arg[u] = b /\ at[u] = "kill_cancel" => arg'[u] = b /\ at'[u] = "kill_cancel"
      BY <1>0, <2>8 DEF SetV2rayStats, To, Unlock
    <3> QED BY <1>0, <2>8, <3>1 DEF SetV2rayStats
  <2>9. CASE GuardStart(t)
    <3>1. \A u \in Thread, b \in Box :
             /\ PastFlag(u, b) => PastFlag(u, b)'
             /\ arg[u] = b /\ at[u] = "kill_cancel" => arg'[u] = b /\ at'[u] = "kill_cancel"
      BY <1>0, <2>9 DEF GuardStart, To
    <3> QED BY <1>0, <2>9, <3>1 DEF GuardStart
  <2>10. CASE Start(t)
    <3>1. \A u \in Thread, b \in Box :
             /\ PastFlag(u, b) => PastFlag(u, b)'
             /\ arg[u] = b /\ at[u] = "kill_cancel" => arg'[u] = b /\ at'[u] = "kill_cancel"
      BY <1>0, <2>10 DEF Start, To
    <3> QED BY <1>0, <2>10, <3>1 DEF Start
  <2>11. CASE BoxStart(t)
    <3>1. \A u \in Thread, b \in Box :
             /\ PastFlag(u, b) => PastFlag(u, b)'
             /\ arg[u] = b /\ at[u] = "kill_cancel" => arg'[u] = b /\ at'[u] = "kill_cancel"
      BY <1>0, <2>11 DEF BoxStart, To, Unlock
    <3> QED BY <1>0, <2>11, <3>1 DEF BoxStart
  <2>12. CASE Spawn(t)
    BY <1>0, <2>12 DEF Spawn, To
  <2>13. CASE KillLoop(t)
    BY <1>0, <2>13 DEF KillLoop, To
  <2>14. CASE KillCancel(t)
    BY <1>0, <2>14 DEF KillCancel, To, cancel
  <2>15. CASE CloseOwner(t)
    BY <1>0, <2>15 DEF CloseOwner, To
  <2>16. CASE CloseBox(t)
    <3>1. \A u \in Thread, b \in Box :
             /\ PastFlag(u, b) => PastFlag(u, b)'
             /\ arg[u] = b /\ at[u] = "kill_cancel" => arg'[u] = b /\ at'[u] = "kill_cancel"
      BY <1>0, <2>16 DEF CloseBox, To, isOpen, closeReturn
    <3> QED BY <1>0, <2>16, <3>1 DEF CloseBox
  <2>17. CASE CloseLockMain(t)
    <3>1. \A u \in Thread, b \in Box :
             /\ PastFlag(u, b) => PastFlag(u, b)'
             /\ arg[u] = b /\ at[u] = "kill_cancel" => arg'[u] = b /\ at'[u] = "kill_cancel"
      BY <1>0, <2>17 DEF CloseLockMain, To, LockMain
    <3> QED BY <1>0, <2>17, <3>1 DEF CloseLockMain
  <2>18. CASE CloseClearMain(t)
    <3>1. \A u \in Thread, b \in Box :
             /\ PastFlag(u, b) => PastFlag(u, b)'
             /\ arg[u] = b /\ at[u] = "kill_cancel" => arg'[u] = b /\ at'[u] = "kill_cancel"
      BY <1>0, <2>18 DEF CloseClearMain, To, wasMain, goServeProtect
    <3> QED BY <1>0, <2>18, <3>1 DEF CloseClearMain
  <2>19. CASE CloseCore(t)
    <3>1. \A u \in Thread, b \in Box :
             /\ PastFlag(u, b) => PastFlag(u, b)'
             /\ arg[u] = b /\ at[u] = "kill_cancel" => arg'[u] = b /\ at'[u] = "kill_cancel"
      BY <1>0, <2>19 DEF CloseCore, To, Unlock, closeReturn
    <3> QED BY <1>0, <2>19, <3>1 DEF CloseCore
  <2>20. CASE CloseLooper(t)
    BY <1>0, <2>20 DEF CloseLooper, To
  <2>21. CASE Swap(t)
    <3>1. \A u \in Thread, b \in Box :
             /\ PastFlag(u, b) => PastFlag(u, b)'
             /\ arg[u] = b /\ at[u] = "kill_cancel" => arg'[u] = b /\ at'[u] = "kill_cancel"
      BY <1>0, <2>21 DEF Swap, To
    <3> QED BY <1>0, <2>21, <3>1 DEF Swap
  <2>22. CASE getMainInstance(t)
    <3>1. \A u \in Thread, b \in Box :
             /\ PastFlag(u, b) => PastFlag(u, b)'
             /\ arg[u] = b /\ at[u] = "kill_cancel" => arg'[u] = b /\ at'[u] = "kill_cancel"
      BY <1>0, <2>22 DEF getMainInstance
    <3> QED BY <1>0, <2>22, <3>1 DEF getMainInstance
  <2>23. CASE UseLock(t)
    <3>1. \A u \in Thread, b \in Box :
             /\ PastFlag(u, b) => PastFlag(u, b)'
             /\ arg[u] = b /\ at[u] = "kill_cancel" => arg'[u] = b /\ at'[u] = "kill_cancel"
      BY <1>0, <2>23 DEF UseLock, To, lockIfOpen, isOpen
    <3> QED BY <1>0, <2>23, <3>1 DEF UseLock
  <2>24. CASE UseDone(t)
    <3>1. \A u \in Thread, b \in Box :
             /\ PastFlag(u, b) => PastFlag(u, b)'
             /\ arg[u] = b /\ at[u] = "kill_cancel" => arg'[u] = b /\ at'[u] = "kill_cancel"
      BY <1>0, <2>24 DEF UseDone, To, Unlock
    <3> QED BY <1>0, <2>24, <3>1 DEF UseDone
  <2> QED BY <1>3, <2>1, <2>2, <2>3, <2>4, <2>5, <2>6, <2>7, <2>8, <2>9, <2>10, <2>11, <2>12,
             <2>13, <2>14, <2>15, <2>16, <2>17, <2>18, <2>19, <2>20, <2>21, <2>22, <2>23, <2>24
             DEF ThreadStep
<1>4. ASSUME NEW b \in Box, LoopStep(b) PROVE LoopInv'
  <2>1. CASE BlockCheck(b)
    BY <1>0, <2>1 DEF BlockCheck
  <2>2. CASE BlockWrite(b)
    BY <1>0, <2>2 DEF BlockWrite
  <2>3. CASE LooperStart(b)
    BY <1>0, <2>3 DEF LooperStart
  <2>4. CASE LooperLaunch(b)
    BY <1>0, <2>4 DEF LooperLaunch
  <2>5. CASE LooperRecancel(b)
    BY <1>0, <2>5 DEF LooperRecancel, cancel
  <2>6. CASE BlockRecheck(b)
    BY <1>0, <2>6 DEF BlockRecheck
  <2>7. CASE BlockStopLoop(b)
    BY <1>0, <2>7 DEF BlockStopLoop, cancel
  <2>8. CASE StopLoop(b)
    BY <1>0, <2>8 DEF StopLoop, cancel
  <2> QED BY <1>4, <2>1, <2>2, <2>3, <2>4, <2>5, <2>6, <2>7, <2>8 DEF LoopStep
<1> QED BY <1>0, <1>1, <1>2, <1>3, <1>4 DEF Next

-----------------------------------------------------------------------------
(* Theorems. *)

\* The inductive invariant holds of the initial state.
LEMMA InitIInv == Init => IInv
<1> SUFFICES ASSUME Init PROVE IInv
  OBVIOUS
<1> USE BoxAssumption DEF Init, UsingStep, ClosingStep, Holding, RunStep, KillStep
<1>1. TypeOK
  <2>1. /\ state \in [Box -> {"boxNew", "boxStarted", "boxClosed"}]
        /\ access \in [Box -> Thread \cup {None}]
        /\ core \in [Box -> {"none", "built", "starting", "running", "closed"}]
    OBVIOUS
  <2>2. /\ closed \in [Box -> BOOLEAN]
        /\ begun \in [Box -> BOOLEAN]
        /\ looper \in [Box -> BOOLEAN]
        /\ stopped \in [Box -> BOOLEAN]
    OBVIOUS
  <2>3. /\ mainInstance \in Box \cup {None} /\ mainInstanceAccess \in Thread \cup {None}
        /\ protect \in BOOLEAN
    OBVIOUS
  <2>4. calls \in 0..MaxCalls
    BY MaxCallsAssumption
  <2> QED BY <2>1, <2>2, <2>3, <2>4 DEF TypeOK, Call, Label
<1>2. StepInv /\ LockInv /\ OpenInv
  BY DEF StepInv, LockInv, OpenInv
<1>3. MainInv /\ RunInv /\ CoreInv /\ CloseInv
  BY DEF MainInv, RunInv, CoreInv, CloseInv
<1>4. FlagInv /\ LoopInv
  BY DEF FlagInv, LoopInv, PastFlag
<1> QED BY <1>1, <1>2, <1>3, <1>4 DEF IInv

\* Every reachable state satisfies the inductive invariant, whatever threads call in
\* and however their calls interleave.
THEOREM Invariance == Spec => []IInv
<1>1. Init => IInv
  BY InitIInv
<1>2. IInv /\ [Next]_vars => IInv'
  BY TypeOKStep, StepInvStep, LockInvStep, OpenInvStep, MainInvStep, RunInvStep,
     CoreInvStep, CloseInvStep, FlagInvStep, LoopInvStep DEF IInv
<1> QED BY <1>1, <1>2, PTL DEF Spec

\* The variables keep their types.
THEOREM TypeCorrect == Spec => []TypeOK
<1>1. IInv => TypeOK
  BY DEF IInv
<1> QED BY <1>1, Invariance, PTL

\* box.go SetAsMain and Close: the main instance is open whenever nobody is inside it,
\* and the protect server runs only for a main instance.
THEOREM MainInstanceIsOpen == Spec => []MainIsOpen
<1>1. IInv => MainIsOpen
  BY BoxAssumption DEF IInv, TypeOK, MainInv, MainIsOpen, isOpen
<1> QED BY <1>1, Invariance, PTL

\* The lock order of box.go: while a call is under way, some call can go on.
THEOREM DeadlockFree == Spec => []NoDeadlock
<1>1. IInv => NoDeadlock
  <2> SUFFICES ASSUME IInv, NEW t \in Thread, at[t] # "idle"
               PROVE  \E u \in Thread : at[u] # "idle" /\ ~blocked(u)
    BY DEF NoDeadlock
  <2> USE DEF blocked, waitsForBox, waitsForMain
  <2>1. CASE mainInstanceAccess # None
    <3>1. mainInstanceAccess \in Thread /\ at[mainInstanceAccess] \in {"serve", "clear"}
      BY <2>1 DEF IInv, TypeOK, LockInv
    <3> QED BY <3>1
  <2>2. CASE mainInstanceAccess = None /\ waitsForBox(t) /\ access[arg[t]] # None
    <3> DEFINE u == access[arg[t]]
    <3>1. arg[t] \in Box
      BY <2>2 DEF IInv, StepInv
    <3>2. u \in Thread /\ at[u] \in Holding
      BY <2>2, <3>1 DEF IInv, TypeOK, LockInv
    <3> QED BY <2>2, <3>2 DEF Holding, UsingStep, ClosingStep
  <2>3. CASE mainInstanceAccess = None /\ ~(waitsForBox(t) /\ access[arg[t]] # None)
    BY <2>3
  <2> QED BY <2>1, <2>2, <2>3
<1> QED BY <1>1, Invariance, PTL

\* ProxyInstance.close and BoxInstance.close: once everything under way for a closed
\* box has ended there is no core, no main instance and no traffic loop left of it.
THEOREM NothingIsLeft == Spec => []ClosedLeavesNothing
<1>1. IInv => ClosedLeavesNothing
  <2> SUFFICES ASSUME IInv, NEW b \in Box, closed[b], quiet(b)
               PROVE  core[b] \in {"none", "closed"} /\ mainInstance # b /\ job[b] # "running"
    BY DEF ClosedLeavesNothing
  <2>1. \A t \in Thread : access[b] # t
    BY DEF IInv, LockInv, quiet
  <2>2. core[b] # "none" => state[b] = "boxClosed"
    BY DEF IInv, CloseInv, quiet
  <2>3. core[b] \in {"none", "closed"}
    BY <2>1, <2>2 DEF IInv, CoreInv
  <2>4. mainInstance # b
    BY <2>1, <2>2, BoxAssumption DEF IInv, MainInv
  <2>5. job[b] # "running"
    BY DEF IInv, LoopInv, PastFlag, quiet
  <2> QED BY <2>3, <2>4, <2>5
<1> QED BY <1>1, Invariance, PTL

-----------------------------------------------------------------------------
(* box.go implements GuardedBoxes. *)

Open == [b \in Box |-> isOpen(b)]
User == [b \in Box |-> IF isOpen(b) THEN access[b] ELSE None]
Owner == IF mainInstance = None \/ isOpen(mainInstance) THEN mainInstance ELSE None

\* A step that leaves the states, the locks and the main instance alone is none of the
\* abstract specification's.
LEMMA Stutters ==
  ASSUME UNCHANGED <<state, access, mainInstance>>
  PROVE  UNCHANGED <<Open, User, Owner>>
BY DEF Open, User, Owner, isOpen

\* Taking the lock of an open box is Enter, with the box's state open before and after.
LEMMA Enters ==
  ASSUME TypeOK, NEW t \in Thread, NEW b \in Box,
         state[b] # "boxClosed", access[b] = None,
         access' = [access EXCEPT ![b] = t],
         \A c \in Box : state'[c] = "boxClosed" <=> state[c] = "boxClosed",
         mainInstance' = mainInstance
  PROVE  Guarded!Enter(t, b)
<1>1. Open' = Open
  BY DEF Open, isOpen
<1>2. Owner' = Owner
  BY DEF Owner, isOpen, TypeOK
<1>3. User' = [User EXCEPT ![b] = t]
  BY DEF User, isOpen, TypeOK
<1>4. Open[b] /\ User[b] = None
  BY DEF Open, User, isOpen
<1> QED BY <1>1, <1>2, <1>3, <1>4 DEF Guarded!Enter, Open, User, Owner

\* Releasing it is Leave.
LEMMA Leaves ==
  ASSUME TypeOK, NEW t \in Thread, NEW b \in Box,
         state[b] # "boxClosed", access[b] = t,
         access' = [access EXCEPT ![b] = None],
         state' = state, mainInstance' = mainInstance
  PROVE  Guarded!Leave(t, b)
<1>1. Open' = Open
  BY DEF Open, isOpen
<1>2. Owner' = Owner
  BY DEF Owner, isOpen, TypeOK
<1>3. User' = [User EXCEPT ![b] = None]
  BY DEF User, isOpen, TypeOK
<1>4. User[b] = t
  BY DEF User, isOpen
<1> QED BY <1>1, <1>2, <1>3, <1>4 DEF Guarded!Leave, Open, User, Owner

\* SetAsMain's last step is Adopt, whatever box was the main instance before.
LEMMA Adopts ==
  ASSUME IInv, NEW t \in Thread, NEW b \in Box, arg[t] = b, SetAsMainServe(t)
  PROVE  Guarded!Adopt(t, b)
<1>1. state[b] # "boxClosed" /\ access[b] = t
  BY DEF IInv, StepInv, OpenInv, LockInv, SetAsMainServe, UsingStep, Holding
<1>2. state' = state /\ mainInstance' = b /\ access' = [access EXCEPT ![b] = None]
  BY DEF SetAsMainServe, Unlock
<1>3. Open' = Open
  BY <1>2 DEF Open, isOpen
<1>4. Owner' = b
  BY <1>1, <1>2 DEF Owner, isOpen
<1>5. User' = [User EXCEPT ![b] = None]
  BY <1>1, <1>2 DEF IInv, User, isOpen, TypeOK
<1>6. User[b] = t
  BY <1>1 DEF User, isOpen
<1> QED BY <1>3, <1>4, <1>5, <1>6 DEF Guarded!Adopt, Open, User, Owner

\* The first step of BoxInstance.Close on an open box is Retire: the main instance is
\* cleared later, but nobody sees it in between.
LEMMA Retires ==
  ASSUME IInv, NEW t \in Thread, NEW b \in Box, access[b] = None,
         isOpen(b), state' = [state EXCEPT ![b] = "boxClosed"],
         access' = [access EXCEPT ![b] = t], mainInstance' = mainInstance
  PROVE  Guarded!Retire(b)
<1>2. Open[b] /\ User[b] = None
  BY DEF Open, User
<1>3. Open' = [Open EXCEPT ![b] = FALSE]
  BY DEF IInv, TypeOK, Open, isOpen
<1>4. User' = User
  BY DEF IInv, TypeOK, User, isOpen
<1>5. Owner' = IF Owner = b THEN None ELSE Owner
  BY BoxAssumption DEF IInv, TypeOK, Owner, isOpen
<1> QED BY <1>2, <1>3, <1>4, <1>5 DEF Guarded!Retire, Open, User, Owner

\* Clearing the main instance of a closed box, and giving the lock back, show nothing.
LEMMA ClosesUnseen ==
  ASSUME IInv, NEW t \in Thread, CloseClearMain(t) \/ CloseCore(t)
  PROVE  UNCHANGED <<Open, User, Owner>>
<1>1. arg[t] \in Box /\ state[arg[t]] = "boxClosed" /\ state' = state
  BY DEF IInv, StepInv, OpenInv, CloseClearMain, CloseCore, ClosingStep
<1>2. CASE CloseClearMain(t)
  <2>1. UNCHANGED <<state, access>>
    BY <1>2 DEF CloseClearMain
  <2>2. Open' = Open /\ User' = User
    BY <2>1 DEF Open, User, isOpen
  <2>3. mainInstance' = IF mainInstance = arg[t] THEN None ELSE mainInstance
    BY <1>2 DEF CloseClearMain, wasMain
  <2>4. Owner' = Owner
    BY <1>1, <2>1, <2>3 DEF Owner, isOpen
  <2> QED BY <2>2, <2>4
<1>3. CASE CloseCore(t)
  <2>1. mainInstance' = mainInstance /\ access' = [access EXCEPT ![arg[t]] = None]
    BY <1>3 DEF CloseCore, Unlock
  <2>2. User' = User
    BY <1>1, <2>1 DEF IInv, TypeOK, User, isOpen
  <2> QED BY <1>1, <2>1, <2>2 DEF Open, Owner, isOpen
<1> QED BY <1>2, <1>3

\* Every step of the program is a step of the abstract specification, or none.
LEMMA StepSimulation ==
  ASSUME IInv, [Next]_vars
  PROVE  [Guarded!Next]_<<Open, User, Owner>>
<1> DEFINE Sim == [Guarded!Next]_<<Open, User, Owner>>
<1>0. TypeOK
  BY DEF IInv
<1>a. \A t \in Thread, b \in Box :
        Guarded!Enter(t, b) \/ Guarded!Leave(t, b) \/ Guarded!Adopt(t, b) \/ Guarded!Retire(b)
          => Sim
  BY DEF Guarded!Next
<1>b. UNCHANGED <<state, access, mainInstance>> => Sim
  BY Stutters
<1> SUFFICES Sim
  OBVIOUS
<1> HIDE DEF Sim
<1>1. CASE UNCHANGED vars
  <2>1. UNCHANGED <<state, access, mainInstance>>
    BY <1>1 DEF vars, goVars
  <2> QED BY <1>b, <2>1
<1>2. ASSUME NEW t \in Thread, Caller(t) PROVE Sim
  BY <1>2, <1>b DEF Caller, Run, Close, SelectOutbound, Sleep, Wake, QueryStats,
     newProxyHttpClient, Use, ResetAllConnections, UrlTest, goVars
<1>3. ASSUME NEW t \in Thread, NEW b \in Box, arg[t] = b, ThreadStep(t) PROVE Sim
  <2>1. CASE SetAsMain(t) \/ SetV2rayStatsLock(t) \/ UseLock(t)
    <3>1. /\ UNCHANGED <<state, mainInstance>>
          /\ \/ UNCHANGED access
             \/ /\ access[b] = None /\ state[b] # "boxClosed"
                /\ access' = [access EXCEPT ![b] = t]
      BY <1>3, <2>1 DEF SetAsMain, SetV2rayStatsLock, UseLock, lockIfOpen, isOpen
    <3>2. CASE UNCHANGED access
      BY <1>b, <3>1, <3>2
    <3>3. CASE ~UNCHANGED access
      <4>1. Guarded!Enter(t, b)
        BY <1>0, <3>1, <3>3, Enters
      <4> QED BY <1>a, <4>1
    <3> QED BY <3>2, <3>3
  <2>2. CASE Start(t)
    <3>1. CASE state[b] = "boxNew"
      <4>1. /\ state[b] # "boxClosed" /\ access[b] = None
            /\ access' = [access EXCEPT ![b] = t] /\ mainInstance' = mainInstance
        BY <1>3, <2>2, <3>1 DEF Start
      <4>2. \A c \in Box : state'[c] = "boxClosed" <=> state[c] = "boxClosed"
        BY <1>0, <1>3, <2>2, <3>1 DEF Start, TypeOK
      <4>3. Guarded!Enter(t, b)
        BY <1>0, <4>1, <4>2, Enters
      <4> QED BY <1>a, <4>3
    <3>2. CASE state[b] # "boxNew"
      BY <1>b, <1>3, <2>2, <3>2 DEF Start
    <3> QED BY <3>1, <3>2
  <2>3. CASE SetV2rayStats(t) \/ BoxStart(t) \/ UseDone(t)
    <3>1. /\ UNCHANGED <<state, mainInstance>>
          /\ access' = [access EXCEPT ![b] = None]
          /\ at[t] \in UsingStep
      BY <1>3, <2>3 DEF SetV2rayStats, BoxStart, UseDone, Unlock, UsingStep
    <3>2. access[b] = t /\ state[b] # "boxClosed"
      BY <1>3, <3>1 DEF IInv, LockInv, OpenInv, Holding
    <3>3. Guarded!Leave(t, b)
      BY <1>0, <3>1, <3>2, Leaves
    <3> QED BY <1>a, <3>3
  <2>4. CASE SetAsMainServe(t)
    <3>1. Guarded!Adopt(t, b)
      BY <1>3, <2>4, Adopts
    <3> QED BY <1>a, <3>1
  <2>5. CASE CloseBox(t)
    <3>1. CASE isOpen(b)
      <4>1. Guarded!Retire(b)
        BY <1>3, <2>5, <3>1, Retires DEF CloseBox
      <4> QED BY <1>a, <4>1
    <3>2. CASE ~isOpen(b)
      BY <1>b, <1>3, <2>5, <3>2 DEF CloseBox
    <3> QED BY <3>1, <3>2
  <2>6. CASE CloseClearMain(t) \/ CloseCore(t)
    BY <2>6, ClosesUnseen DEF Sim
  <2>7. CASE NewSingBoxInstance(t) \/ AfterInit(t) \/ Guard(t) \/ SetAsMainLock(t) \/ GuardStart(t)
             \/ Spawn(t) \/ KillLoop(t) \/ KillCancel(t) \/ CloseOwner(t) \/ CloseLockMain(t)
             \/ CloseLooper(t) \/ Swap(t) \/ getMainInstance(t)
    BY <1>b, <2>7 DEF NewSingBoxInstance, AfterInit, Guard, SetAsMainLock, GuardStart, Spawn,
       KillLoop, KillCancel, CloseOwner, CloseLockMain, CloseLooper, Swap, getMainInstance, goVars
  <2> QED BY <1>3, <2>1, <2>2, <2>3, <2>4, <2>5, <2>6, <2>7 DEF ThreadStep
<1>4. ASSUME NEW t \in Thread, ThreadStep(t), arg[t] \notin Box PROVE Sim
  <2>1. at[t] \in {"idle", "main"}
    BY <1>4 DEF IInv, StepInv
  <2>2. getMainInstance(t)
    BY <1>4, <2>1 DEF ThreadStep, NewSingBoxInstance, AfterInit, Guard, SetAsMain,
       SetAsMainLock,
       SetAsMainServe, SetV2rayStatsLock, SetV2rayStats, GuardStart, Start, BoxStart, Spawn,
       KillLoop, KillCancel, CloseOwner, CloseBox, CloseLockMain, CloseClearMain, CloseCore,
       CloseLooper, Swap, UseLock, UseDone
  <2> QED BY <1>b, <2>2 DEF getMainInstance, goVars
<1>5. ASSUME NEW b \in Box, LoopStep(b) PROVE Sim
  BY <1>5, <1>b, LoopFrame DEF goVars
<1> QED BY <1>1, <1>2, <1>3, <1>4, <1>5 DEF Next

\* The locking of box.go implements boxes that are used by one caller at a time, only
\* while open, and that stop being the main instance in the instant they close.
THEOREM Refinement == Spec => ImplementsGuardedBoxes
<1>1. Init => Guarded!Init
  BY DEF Init, Guarded!Init, isOpen
<1>2. IInv /\ [Next]_vars => [Guarded!Next]_<<Open, User, Owner>>
  BY StepSimulation
<1> QED BY <1>1, <1>2, Invariance, PTL DEF Spec, ImplementsGuardedBoxes, Guarded!Spec, Open,
           User, Owner

=============================================================================
