---------------------------- MODULE BoxLifecycle ----------------------------
(***************************************************************************)
(* libcore's BoxInstance (box.go), the process-wide main instance with its *)
(* protect server (protect.go), and the Kotlin ProxyInstance / TestInstance*)
(* object that owns a box: building it, launching it, starting its traffic *)
(* loop and closing it, each on a thread of its own choosing.              *)
(*                                                                         *)
(* Any Thread may make any call at any time.  A call is a sequence of      *)
(* steps; a step ends where the thread takes a lock, releases one, or      *)
(* reads or writes a field another thread shares.                          *)
(***************************************************************************)
EXTENDS Naturals

CONSTANTS Box,      \* the BoxInstance objects, each with its Kotlin owner
          Proxy,    \* those owned by a ProxyInstance; the others by a TestInstance
          Thread,   \* threads that call in: IO, Default, main, Go threads
          None,
          MaxCalls  \* bound on the calls of one behaviour

ASSUME BoxAssumption == Proxy \subseteq Box /\ None \notin Box /\ None \notin Thread
ASSUME MaxCallsAssumption == MaxCalls \in Nat

VARIABLES state,      \* BoxInstance.state
          access,     \* BoxInstance.access: the thread that holds it
          core,       \* the sing-box Box below it
          mainInstance, mainInstanceAccess,
          protect,    \* protectCloser is set
          closed,     \* Kotlin BoxInstance.closed
          begun,      \* the owner's init has been called
          looper,     \* ProxyInstance.looper is set
          stopped,    \* TrafficLooper.stopped
          job,        \* TrafficLooper.job
          block,      \* the block launch() hands to the Default dispatcher
          stopper,    \* the stopLoop close() hands to the Default dispatcher
          call, at, arg, \* per thread: its call, the next step, the box
          calls

goVars == <<state, access, core, mainInstance, mainInstanceAccess, protect>>
ktVars == <<closed, begun, looper, stopped, job, block, stopper>>
vars == <<goVars, ktVars, call, at, arg, calls>>

Call == {"none", "run", "close", "use", "reset", "select"}
Label == {"idle", "init", "inited", "guard", "publish_enter", "publish", "serve",
          "stats_enter", "stats", "guard2", "start_enter", "starting", "spawn",
          "kill", "kill_cancel", "cas", "close_enter", "clearing",
          "clear", "core_close", "stop_read", "swap", "main", "enter", "body"}

TypeOK ==
  /\ state \in [Box -> {"boxNew", "boxStarted", "boxClosed"}]
  /\ access \in [Box -> Thread \cup {None}]
  /\ core \in [Box -> {"none", "built", "starting", "running", "closed"}]
  /\ mainInstance \in Box \cup {None}
  /\ mainInstanceAccess \in Thread \cup {None}
  /\ protect \in BOOLEAN
  /\ closed \in [Box -> BOOLEAN]
  /\ begun \in [Box -> BOOLEAN]
  /\ looper \in [Box -> BOOLEAN]
  /\ stopped \in [Box -> BOOLEAN]
  /\ job \in [Box -> {"none", "running", "cancelled"}]
  /\ block \in [Box -> {"none", "check", "write", "start", "launch", "recancel",
                        "recheck", "cas", "cancel"}]
  /\ stopper \in [Box -> {"none", "cas", "cancel"}]
  /\ call \in [Thread -> Call]
  /\ at \in [Thread -> Label]
  /\ arg \in [Thread -> Box \cup {None}]
  /\ calls \in 0..MaxCalls

Init ==
  /\ state = [b \in Box |-> "boxNew"]
  /\ access = [b \in Box |-> None]
  /\ core = [b \in Box |-> "none"]
  /\ mainInstance = None
  /\ mainInstanceAccess = None
  /\ protect = FALSE
  /\ closed = [b \in Box |-> FALSE]
  /\ begun = [b \in Box |-> FALSE]
  /\ looper = [b \in Box |-> FALSE]
  /\ stopped = [b \in Box |-> FALSE]
  /\ job = [b \in Box |-> "none"]
  /\ block = [b \in Box |-> "none"]
  /\ stopper = [b \in Box |-> "none"]
  /\ call = [t \in Thread |-> "none"]
  /\ at = [t \in Thread |-> "idle"]
  /\ arg = [t \in Thread |-> None]
  /\ calls = 0

-----------------------------------------------------------------------------
(* Steps of a thread. *)

\* The next step of the call; "idle" is its return.
To(t, l) ==
  /\ at' = [at EXCEPT ![t] = l]
  /\ call' = [call EXCEPT ![t] = IF l = "idle" THEN "none" ELSE @]
  /\ arg' = [arg EXCEPT ![t] = IF l = "idle" THEN None ELSE @]
  /\ UNCHANGED calls

Invoke(t, c, l, b) ==
  /\ at[t] = "idle"
  /\ calls < MaxCalls
  /\ calls' = calls + 1
  /\ call' = [call EXCEPT ![t] = c]
  /\ at' = [at EXCEPT ![t] = l]
  /\ arg' = [arg EXCEPT ![t] = b]

\* Mutant: the lock is taken without a look at the state.
isOpen_unchecked(b) == TRUE

isOpen(b) == state[b] # "boxClosed"

\* lockIfOpen, with the step that follows when it returns true and when not.
lockIfOpen(t, b, then, else) ==
  /\ access[b] = None
  /\ \/ isOpen(b) /\ access' = [access EXCEPT ![b] = t] /\ To(t, then)
     \/ ~isOpen(b) /\ UNCHANGED access /\ To(t, else)

Unlock(b) == access' = [access EXCEPT ![b] = None]
LockMain(t) == mainInstanceAccess = None /\ mainInstanceAccess' = t

-----------------------------------------------------------------------------
(* The owner's init() and launch(), run by one coroutine. *)

Run(t, b) ==
  /\ Invoke(t, "run", "init", b)
  /\ ~begun[b]
  /\ begun' = [begun EXCEPT ![b] = TRUE]
  /\ UNCHANGED <<goVars, closed, looper, stopped, job, block, stopper>>

\* NewSingBoxInstance: the box comes to exist, or the config is refused.
NewSingBoxInstance(t) ==
  /\ at[t] = "init"
  /\ core' \in {core, [core EXCEPT ![arg[t]] = "built"]}
  /\ To(t, "inited")
  /\ UNCHANGED <<state, access, mainInstance, mainInstanceAccess, protect, ktVars>>

\* Mutant: init does not look for a close() that came too early.
AfterInit_blind(t) ==
  /\ at[t] = "inited"
  /\ To(t, IF core[arg[t]] = "none" THEN "idle" ELSE "guard")
  /\ UNCHANGED <<goVars, ktVars>>

\* The finally of init: a close() that found no box left it to be closed here
\* (closeAfterLateInit).  Without a box init has thrown; with one, the check of
\* the external cores may still throw, which leaves the box to the owner's close().
AfterInit(t) ==
  /\ at[t] = "inited"
  /\ \/ core[arg[t]] # "none" /\ closed[arg[t]] /\ To(t, "close_enter")
     \/ core[arg[t]] # "none" /\ ~closed[arg[t]] /\ To(t, "guard")
     \/ (core[arg[t]] = "none" \/ ~closed[arg[t]]) /\ To(t, "idle")
  /\ UNCHANGED <<goVars, ktVars>>

\* ProxyInstance.launch and BoxInstance.launch: a closed owner launches nothing.
\* The statistics are installed only when they are enabled.
Guard(t) ==
  /\ at[t] = "guard"
  /\ To(t, IF closed[arg[t]] THEN "idle"
           ELSE IF arg[t] \in Proxy THEN "publish_enter" ELSE "guard2")
  /\ UNCHANGED <<goVars, ktVars>>

SetAsMain(t) ==
  /\ \E l \in {"stats_enter", "guard2"} :
       /\ at[t] = "publish_enter"
       /\ lockIfOpen(t, arg[t], "publish", l)
  /\ UNCHANGED <<state, core, mainInstance, mainInstanceAccess, protect, ktVars>>

SetAsMainLock(t) ==
  /\ at[t] = "publish"
  /\ LockMain(t)
  /\ To(t, "serve")
  /\ UNCHANGED <<state, access, core, mainInstance, protect, ktVars>>

\* Mutant: a new listener is added to the old one, which nobody closes.
goServeProtect_kept(start) == protect' \in {protect, TRUE}

\* The old listener is closed; the new one may fail to start.
goServeProtect(start) == protect' \in (IF start THEN BOOLEAN ELSE {FALSE})

SetAsMainServe(t) ==
  /\ at[t] = "serve"
  /\ mainInstance' = arg[t]
  /\ goServeProtect(TRUE)
  /\ mainInstanceAccess' = None
  /\ Unlock(arg[t])
  /\ \E l \in {"stats_enter", "guard2"} : To(t, l)
  /\ UNCHANGED <<state, core, ktVars>>

SetV2rayStatsLock(t) ==
  /\ at[t] = "stats_enter"
  /\ lockIfOpen(t, arg[t], "stats", "guard2")
  /\ UNCHANGED <<state, core, mainInstance, mainInstanceAccess, protect, ktVars>>

\* The tracker is installed under access, before Start and at most once; its counters
\* are TrafficAccounting's.
SetV2rayStats(t) ==
  /\ at[t] = "stats"
  /\ Unlock(arg[t])
  /\ To(t, "guard2")
  /\ UNCHANGED <<state, core, mainInstance, mainInstanceAccess, protect, ktVars>>

\* After the external cores are up: a second look before the box starts.  A core
\* that does not come up makes launch throw.
GuardStart(t) ==
  /\ at[t] = "guard2"
  /\ \/ ~closed[arg[t]] /\ To(t, "start_enter")
     \/ To(t, "idle")
  /\ UNCHANGED <<goVars, ktVars>>

\* BoxInstance.Start holds access while the core starts; a box that is not new
\* (a close() got in between) is an error and launch throws.
Start(t) ==
  /\ at[t] = "start_enter"
  /\ access[arg[t]] = None
  /\ \/ /\ state[arg[t]] = "boxNew"
        /\ state' = [state EXCEPT ![arg[t]] = "boxStarted"]
        /\ core' = [core EXCEPT ![arg[t]] = "starting"]
        /\ access' = [access EXCEPT ![arg[t]] = t]
        /\ To(t, "starting")
     \/ /\ state[arg[t]] # "boxNew"
        /\ UNCHANGED <<state, core, access>>
        /\ To(t, "idle")
  /\ UNCHANGED <<mainInstance, mainInstanceAccess, protect, ktVars>>

\* Box.Start closes what it started when it fails; the state stays boxStarted.
BoxStart(t) ==
  /\ at[t] = "starting"
  /\ \/ /\ core' = [core EXCEPT ![arg[t]] = "running"]
        /\ To(t, IF arg[t] \in Proxy THEN "spawn" ELSE "idle")
     \/ /\ core' = [core EXCEPT ![arg[t]] = "closed"]
        /\ To(t, "idle")
  /\ Unlock(arg[t])
  /\ UNCHANGED <<state, mainInstance, mainInstanceAccess, protect, ktVars>>

\* launch() hands the start of the traffic loop to the Default dispatcher.
Spawn(t) ==
  /\ at[t] = "spawn"
  /\ block' = [block EXCEPT ![arg[t]] = "check"]
  /\ To(t, "idle")
  /\ UNCHANGED <<goVars, closed, begun, looper, stopped, job, stopper>>

-----------------------------------------------------------------------------
(* The traffic loop of a ProxyInstance. *)

\* The block on the Default dispatcher: nothing to start for a closed owner,
BlockCheck(b) ==
  /\ block[b] = "check"
  /\ block' = [block EXCEPT ![b] = IF closed[b] THEN "none" ELSE "write"]
  /\ UNCHANGED <<goVars, closed, begun, looper, stopped, job, stopper, call, at, arg, calls>>

\* else the looper is published before it is started.
BlockWrite(b) ==
  /\ block[b] = "write"
  /\ looper' = [looper EXCEPT ![b] = TRUE]
  /\ block' = [block EXCEPT ![b] = "start"]
  /\ UNCHANGED <<goVars, closed, begun, stopped, job, stopper, call, at, arg, calls>>

\* TrafficLooper.start: not after a stopLoop() that already won,
LooperStart(b) ==
  /\ block[b] = "start"
  /\ block' = [block EXCEPT ![b] = IF stopped[b] THEN "recheck" ELSE "launch"]
  /\ UNCHANGED <<goVars, closed, begun, looper, stopped, job, stopper, call, at, arg, calls>>

LooperLaunch(b) ==
  /\ block[b] = "launch"
  /\ job' = [job EXCEPT ![b] = "running"]
  /\ block' = [block EXCEPT ![b] = "recancel"]
  /\ UNCHANGED <<goVars, closed, begun, looper, stopped, stopper, call, at, arg, calls>>

cancel(b) == job' = [job EXCEPT ![b] = IF @ = "running" THEN "cancelled" ELSE @]

\* ... and one that won in between saw no job, so it is cancelled here.
LooperRecancel(b) ==
  /\ block[b] = "recancel"
  /\ IF stopped[b] THEN cancel(b) ELSE UNCHANGED job
  /\ block' = [block EXCEPT ![b] = "recheck"]
  /\ UNCHANGED <<goVars, closed, begun, looper, stopped, stopper, call, at, arg, calls>>

\* Back in the block: close() may have run since the first look.
BlockRecheck(b) ==
  /\ block[b] = "recheck"
  /\ block' = [block EXCEPT ![b] = IF closed[b] THEN "cas" ELSE "none"]
  /\ looper' = [looper EXCEPT ![b] = @ /\ ~closed[b]]
  /\ UNCHANGED <<goVars, closed, begun, stopped, job, stopper, call, at, arg, calls>>

\* TrafficLooper.stopLoop: the first caller wins the flag and cancels the job it
\* sees.  Run by the block, by what close() handed out, and by killProcesses.
BlockStopLoop(b) ==
  /\ \/ /\ block[b] = "cas"
        /\ block' = [block EXCEPT ![b] = IF stopped[b] THEN "none" ELSE "cancel"]
        /\ stopped' = [stopped EXCEPT ![b] = TRUE]
        /\ UNCHANGED job
     \/ /\ block[b] = "cancel"
        /\ block' = [block EXCEPT ![b] = "none"]
        /\ cancel(b)
        /\ UNCHANGED stopped
  /\ UNCHANGED <<goVars, closed, begun, looper, stopper, call, at, arg, calls>>

StopLoop(b) ==
  /\ \/ /\ stopper[b] = "cas"
        /\ stopper' = [stopper EXCEPT ![b] = IF stopped[b] THEN "none" ELSE "cancel"]
        /\ stopped' = [stopped EXCEPT ![b] = TRUE]
        /\ UNCHANGED job
     \/ /\ stopper[b] = "cancel"
        /\ stopper' = [stopper EXCEPT ![b] = "none"]
        /\ cancel(b)
        /\ UNCHANGED stopped
  /\ UNCHANGED <<goVars, closed, begun, looper, block, call, at, arg, calls>>

-----------------------------------------------------------------------------
(* Closing: killProcesses / destroyRunner, or the end of a TestInstance. *)

Close(t, b) ==
  /\ begun[b]
  /\ Invoke(t, "close", IF b \in Proxy THEN "kill" ELSE "cas", b)
  /\ UNCHANGED <<goVars, ktVars>>

\* killProcesses stops the loop it sees, before the box.
KillLoop(t) ==
  /\ at[t] = "kill"
  /\ To(t, IF looper[arg[t]] /\ ~stopped[arg[t]] THEN "kill_cancel" ELSE "cas")
  /\ stopped' = [stopped EXCEPT ![arg[t]] = @ \/ looper[arg[t]]]
  /\ UNCHANGED <<goVars, closed, begun, looper, job, block, stopper>>

KillCancel(t) ==
  /\ at[t] = "kill_cancel"
  /\ cancel(arg[t])
  /\ To(t, "cas")
  /\ UNCHANGED <<goVars, closed, begun, looper, stopped, block, stopper>>

\* Kotlin close(): one caller gets past the flag; a box that init has not made
\* yet is skipped.
CloseOwner(t) ==
  /\ at[t] = "cas"
  /\ closed' = [closed EXCEPT ![arg[t]] = TRUE]
  /\ To(t, IF closed[arg[t]] THEN "idle"
           ELSE IF core[arg[t]] = "none" THEN "stop_read" ELSE "close_enter")
  /\ UNCHANGED <<goVars, begun, looper, stopped, job, block, stopper>>

\* Where close() of the box returns to: ProxyInstance.close or init.
closeReturn(t) == IF call[t] = "run" THEN "idle" ELSE "stop_read"

\* BoxInstance.Close: no double close; the state goes first,
CloseBox(t) ==
  /\ at[t] = "close_enter"
  /\ access[arg[t]] = None
  /\ \/ /\ isOpen(arg[t])
        /\ state' = [state EXCEPT ![arg[t]] = "boxClosed"]
        /\ access' = [access EXCEPT ![arg[t]] = t]
        /\ To(t, "clearing")
     \/ /\ ~isOpen(arg[t])
        /\ UNCHANGED <<state, access>>
        /\ To(t, closeReturn(t))
  /\ UNCHANGED <<core, mainInstance, mainInstanceAccess, protect, ktVars>>

CloseLockMain(t) ==
  /\ at[t] = "clearing"
  /\ LockMain(t)
  /\ To(t, "clear")
  /\ UNCHANGED <<state, access, core, mainInstance, protect, ktVars>>

wasMain(b) == mainInstance = b

\* then the main instance and its protect server, if they are this box's,
CloseClearMain(t) ==
  /\ at[t] = "clear"
  /\ \/ /\ wasMain(arg[t])
        /\ mainInstance' = None
        /\ goServeProtect(FALSE)
     \/ /\ ~wasMain(arg[t])
        /\ UNCHANGED <<mainInstance, protect>>
  /\ mainInstanceAccess' = None
  /\ To(t, "core_close")
  /\ UNCHANGED <<state, access, core, ktVars>>

\* and the core last, still under access.
CloseCore(t) ==
  /\ at[t] = "core_close"
  /\ core' = [core EXCEPT ![arg[t]] = "closed"]
  /\ Unlock(arg[t])
  /\ To(t, closeReturn(t))
  /\ UNCHANGED <<state, mainInstance, mainInstanceAccess, protect, ktVars>>

\* ProxyInstance.close reads the looper after the flag is set, in the opposite
\* order to the block, and leaves the stop to a coroutine.
CloseLooper(t) ==
  /\ at[t] = "stop_read"
  /\ stopper' = [stopper EXCEPT ![arg[t]] = IF looper[arg[t]] THEN "cas" ELSE @]
  /\ looper' = [looper EXCEPT ![arg[t]] = FALSE]
  /\ To(t, "idle")
  /\ UNCHANGED <<goVars, closed, begun, stopped, job, block>>

-----------------------------------------------------------------------------
(* Calls that use a box: Sleep, Wake, QueryStats and UrlTest of a given box,*)
(* ResetAllConnections and UrlTest of the main instance, SelectOutbound.    *)

built(b) == core[b] # "none"

Use(t, b) ==
  /\ built(b)
  /\ Invoke(t, "use", "enter", b)
  /\ UNCHANGED <<goVars, ktVars>>

\* They differ in what they do while they hold access: pause or wake the core,
\* read a counter, build an HTTP client that dials through it.
Sleep(t, b) == Use(t, b)
Wake(t, b) == Use(t, b)
QueryStats(t, b) == Use(t, b)
newProxyHttpClient(t, b) == Use(t, b)

ResetAllConnections(t) ==
  /\ Invoke(t, "reset", "main", None)
  /\ UNCHANGED <<goVars, ktVars>>

\* UrlTest without an instance: the main one, or a direct dial when there is none.
UrlTest(t) ==
  /\ Invoke(t, "use", "main", None)
  /\ UNCHANGED <<goVars, ktVars>>

\* SelectOutbound takes no lock: a switch calls back into Kotlin, which calls
\* ResetAllConnections on this thread.  Before Start the selector has no members.
SelectOutbound(t, b) ==
  /\ core[b] = "running"
  /\ Invoke(t, "select", "swap", b)
  /\ UNCHANGED <<goVars, ktVars>>

\* Mutant: the switch runs under the instance's lock.
Swap_locked(t) ==
  /\ at[t] = "swap"
  /\ access[arg[t]] = None
  /\ access' = [access EXCEPT ![arg[t]] = t]
  /\ To(t, "main")
  /\ UNCHANGED <<state, core, mainInstance, mainInstanceAccess, protect, ktVars>>

Swap(t) ==
  /\ at[t] = "swap"
  /\ \E l \in {"idle", "main"} : To(t, l)
  /\ UNCHANGED <<goVars, ktVars>>

\* getMainInstance releases mainInstanceAccess before the caller goes on.
getMainInstance(t) ==
  /\ at[t] = "main"
  /\ mainInstanceAccess = None
  /\ at' = [at EXCEPT ![t] = IF mainInstance = None THEN "idle" ELSE "enter"]
  /\ call' = [call EXCEPT ![t] = IF mainInstance = None THEN "none" ELSE @]
  /\ arg' = [arg EXCEPT ![t] = mainInstance]
  /\ UNCHANGED <<goVars, ktVars, calls>>

UseLock(t) ==
  /\ at[t] = "enter"
  /\ lockIfOpen(t, arg[t], "body", "idle")
  /\ UNCHANGED <<state, core, mainInstance, mainInstanceAccess, protect, ktVars>>

UseDone(t) ==
  /\ at[t] = "body"
  /\ Unlock(arg[t])
  /\ To(t, "idle")
  /\ UNCHANGED <<state, core, mainInstance, mainInstanceAccess, protect, ktVars>>

-----------------------------------------------------------------------------
ThreadStep(t) ==
  \/ NewSingBoxInstance(t) \/ AfterInit(t) \/ Guard(t) \/ SetAsMain(t) \/ SetAsMainLock(t)
  \/ SetAsMainServe(t) \/ SetV2rayStatsLock(t) \/ SetV2rayStats(t) \/ GuardStart(t)
  \/ Start(t) \/ BoxStart(t) \/ Spawn(t)
  \/ KillLoop(t) \/ KillCancel(t) \/ CloseOwner(t) \/ CloseBox(t) \/ CloseLockMain(t)
  \/ CloseClearMain(t) \/ CloseCore(t) \/ CloseLooper(t)
  \/ Swap(t) \/ getMainInstance(t) \/ UseLock(t) \/ UseDone(t)

LoopStep(b) ==
  \/ BlockCheck(b) \/ BlockWrite(b) \/ LooperStart(b) \/ LooperLaunch(b)
  \/ LooperRecancel(b) \/ BlockRecheck(b) \/ BlockStopLoop(b) \/ StopLoop(b)

Caller(t) ==
  \/ \E b \in Box : Run(t, b) \/ Close(t, b) \/ SelectOutbound(t, b)
  \/ \E b \in Box : Sleep(t, b) \/ Wake(t, b) \/ QueryStats(t, b) \/ newProxyHttpClient(t, b)
  \/ ResetAllConnections(t)
  \/ UrlTest(t)

Next ==
  \/ \E t \in Thread : Caller(t) \/ ThreadStep(t)
  \/ \E b \in Box : LoopStep(b)

Spec == Init /\ [][Next]_vars

-----------------------------------------------------------------------------
(* Properties. *)

\* Nobody can reach a closed box through the main instance, and the protect
\* server runs only for a main instance: whenever the lock that guards them is
\* free (box.go SetAsMain / Close, protect.go protectCloser).
MainIsOpen ==
  /\ mainInstance # None /\ access[mainInstance] = None => isOpen(mainInstance)
  /\ protect /\ mainInstanceAccess = None => mainInstance # None

quiet(b) == block[b] = "none" /\ stopper[b] = "none" /\ \A t \in Thread : arg[t] # b

\* Once close() was called and everything under way for the box has ended, nothing
\* of it is left: no core, no main instance, no traffic loop, however launch(),
\* its block and close() interleaved (ProxyInstance.launch / close, BoxInstance.init).
ClosedLeavesNothing ==
  \A b \in Box :
    closed[b] /\ quiet(b) => /\ core[b] \in {"none", "closed"}
                             /\ mainInstance # b
                             /\ job[b] # "running"

waitsForBox(t) == at[t] \in {"publish_enter", "stats_enter", "start_enter", "close_enter", "enter"}
waitsForMain(t) == at[t] \in {"publish", "clearing", "main"}
blocked(t) ==
  \/ waitsForBox(t) /\ access[arg[t]] # None
  \/ waitsForMain(t) /\ mainInstanceAccess # None

\* While a call is under way some call can go on: the two locks and the selector's
\* callback into ResetAllConnections never close a cycle (box.go, lock order of
\* Close, SetAsMain, ResetAllConnections and SelectOutbound).
NoDeadlock ==
  (\E t \in Thread : at[t] # "idle") => \E t \in Thread : at[t] # "idle" /\ ~blocked(t)

\* ResetNetwork is not run on a core that is closed.
ResetOnOpenCore ==
  \A t \in Thread : at[t] = "body" /\ call[t] = "reset" => core[arg[t]] # "closed"

Guarded == INSTANCE GuardedBoxes WITH
  open <- [b \in Box |-> isOpen(b)],
  user <- [b \in Box |-> IF isOpen(b) THEN access[b] ELSE None],
  owner <- IF mainInstance = None \/ isOpen(mainInstance) THEN mainInstance ELSE None

\* The locking of box.go implements boxes that are used by one caller at a time,
\* only while open, and that stop being the main instance in the instant they close.
ImplementsGuardedBoxes == Guarded!Spec
=============================================================================
