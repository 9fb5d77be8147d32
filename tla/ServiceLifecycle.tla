-------------------------- MODULE ServiceLifecycle --------------------------
(***************************************************************************)
(* The life of the proxy service in the :bg process: BaseService.Interface *)
(* (start, stop, reload, destroy), its two implementations VpnService and  *)
(* ProxyService, and the process-wide ServiceRegistry they share.          *)
(*                                                                         *)
(* An element of Instance is one Service OBJECT.  The framework keeps at   *)
(* most one live object per class and never revives a destroyed one.  All  *)
(* methods run on the single main thread of :bg, so a method body up to    *)
(* its next suspension point is one step; what runs elsewhere (the IO      *)
(* dispatcher, the Go threads of box.start) interleaves with it.           *)
(* destroyRunner is the one body that is cut further, because a Go thread  *)
(* inside VpnService.startVpn runs concurrently with it.                   *)
(***************************************************************************)
EXTENDS Naturals, FiniteSets

CONSTANTS Instance,   \* the Service objects that may come to exist
          VpnInstance,\* those of class VpnService; the others are ProxyService
          None,       \* the null reference
          MaxEvents   \* bound on what users and framework do in one behaviour

ASSUME InstanceAssumption == VpnInstance \subseteq Instance
ASSUME NoneAssumption == None \notin Instance \cup (Instance \X {"release", "teardown"})
ASSUME MaxEventsAssumption == MaxEvents \in Nat

VARIABLES mode,       \* DataStore.serviceMode
          svc,        \* per object: BaseService.Data, its proxy and coroutines
          reg,        \* the ServiceRegistry object
          requests,   \* classes with an undelivered startForegroundService
          main,       \* who is inside destroyRunner, and how far (or None)
          events,     \* user and framework events so far
          owed        \* history: objects with a start that came while they were
                      \* Stopping and has been neither sent on nor refused

vars == <<mode, svc, reg, requests, main, events, owed>>

Class == {"vpn", "proxy"}
classOf(i) == IF i \in VpnInstance THEN "vpn" ELSE "proxy"

State == {"Idle", "Connecting", "Connected", "Stopping", "Stopped"}
started(s) == s \in {"Connecting", "Connected"}
canStop(s) == s \in {"Connecting", "Connected"}

\* Stages of connectingJob.  A stage names the suspension the job is in; the
\* stages in Io are code running on the IO dispatcher, which a cancellation
\* does not interrupt; the others wait for the main thread to resume the job.
Io == {"reading", "killing", "init", "loaded", "launch", "prestart", "starting",
       "establishing", "tun", "up"}
Resuming == {"read", "killed", "inited", "launched"}
Stage == {"none"} \cup Io \cup Resuming

Record == [ life      : {"unborn", "live", "destroyed"},
            requested : BOOLEAN,          \* started in the framework's eyes
            state     : State,            \* Data.state
            job       : Stage,            \* Data.connectingJob
            ok        : BOOLEAN,          \* outcome the job resumes with
            cancelled : BOOLEAN,
            proxy     : BOOLEAN,          \* Data.proxy is set
            closed    : BOOLEAN,          \* BoxInstance.closed
            box       : {"none", "new", "starting", "started", "closed"},
            conn      : BOOLEAN,          \* VpnService.conn is set
            fd        : BOOLEAN,          \* a tun descriptor is open
            receiver  : BOOLEAN,          \* closeReceiverRegistered
            listener  : BOOLEAN,          \* registered with DefaultNetworkListener
            wakeLock  : BOOLEAN,
            pendingStart : BOOLEAN,
            stopper   : {"none", "joining", "closing", "boxClosing", "closedBox"},
            closer    : {"none", "closing", "boxClosing", "settling", "done"},
            settle    : BOOLEAN,          \* destroyRunner: not alreadyStopped
            reloading : BOOLEAN ]         \* a reload coroutine is on its way to main

Fresh == [ life |-> "unborn", requested |-> FALSE, state |-> "Stopped", job |-> "none",
           ok |-> TRUE, cancelled |-> FALSE, proxy |-> FALSE, closed |-> FALSE,
           box |-> "none", conn |-> FALSE, fd |-> FALSE, receiver |-> FALSE,
           listener |-> FALSE, wakeLock |-> FALSE, pendingStart |-> FALSE,
           stopper |-> "none", closer |-> "none", settle |-> FALSE, reloading |-> FALSE ]

Registry == [base : Instance \cup {None}, vpn : Instance \cup {None}, state : State]

TypeOK ==
  /\ mode \in Class
  /\ svc \in [Instance -> Record]
  /\ reg \in Registry
  /\ requests \in SUBSET Class
  /\ main \in (Instance \X {"release", "teardown"}) \cup {None}
  /\ events \in 0..MaxEvents
  /\ owed \subseteq Instance

Init ==
  /\ mode \in Class
  /\ svc = [i \in Instance |-> Fresh]
  /\ reg = [base |-> None, vpn |-> None, state |-> "Idle"]
  /\ requests = {}
  /\ main = None
  /\ events = 0
  /\ owed = {}

-----------------------------------------------------------------------------
(* ServiceRegistry *)

releasedBy(current, owner) == IF current = owner THEN None ELSE current

\* Mutant: every object writes the shared state.
mayWriteState_always(registered, owner) == TRUE

mayWriteState(registered, owner) == registered \in {None, owner}

claimBase(g, i)   == [g EXCEPT !.base = i]
\* Mutant: the base entry is left behind.
releaseBase_forgotten(g, i) == g

releaseBase(g, i) == [g EXCEPT !.base = releasedBy(@, i)]
claimVpn(g, i)    == [g EXCEPT !.vpn = i]
releaseVpn(g, i)  == [g EXCEPT !.vpn = releasedBy(@, i)]

setState(g, i, s) == IF mayWriteState(g.base, i) THEN [g EXCEPT !.state = s] ELSE g

settleStoppedIfUnclaimed(g) ==
  IF g.base = None /\ g.state = "Stopping" THEN [g EXCEPT !.state = "Stopped"] ELSE g

\* Data.changeState as seen by the registry: nothing is written when the state
\* does not change and there is no message.
changeState(g, i, r, s, msg) == IF r.state = s /\ ~msg THEN g ELSE setState(g, i, s)

-----------------------------------------------------------------------------
(* Pieces of BaseService shared by several handlers. *)

MainFree == main = None

\* An event from outside: a user's request or a decision of the framework.
Event == events < MaxEvents /\ events' = events + 1

\* SagerConnection.serviceClass: the class startRunner and the UI start.
serviceClass == mode

\* VpnService.releaseSubclassResources run while no startVpn is in progress.
releaseSubclassResources(r) ==
  [r EXCEPT !.fd = IF r.conn THEN FALSE ELSE @, !.conn = FALSE]

\* killProcesses up to the point where it hands proxy.close to the IO
\* dispatcher; without a proxy it never suspends (see StopFinish).
beginKill(r) == [releaseSubclassResources(r) EXCEPT !.stopper = "closing"]

\* Mutant: a later stop takes back the restart.
stopRunner_overwrites(r, restart) ==
  LET q == [r EXCEPT !.pendingStart = restart]
  IN  IF r.state = "Stopping" THEN q
      ELSE IF r.job = "none" THEN beginKill([q EXCEPT !.state = "Stopping"])
           ELSE [q EXCEPT !.state = "Stopping", !.cancelled = TRUE, !.stopper = "joining"]

\* The record after stopRunner(restart) of an object that is doing something: a
\* second call while Stopping leaves only the restart intent.  Otherwise the
\* stop coroutine cancels the connecting job and joins it; without one it
\* goes straight on.
stopRunner(r, restart) ==
  LET q == [r EXCEPT !.pendingStart = @ \/ restart]
  IN  IF r.state = "Stopping" THEN q
      ELSE IF r.job = "none" THEN beginKill([q EXCEPT !.state = "Stopping"])
           ELSE [q EXCEPT !.state = "Stopping", !.cancelled = TRUE, !.stopper = "joining"]

stopRunnerReg(g, i, r) ==
  changeState(releaseVpn(releaseBase(g, i), i), i, r, "Stopping", FALSE)

\* stopRunner called by the connecting job itself, whose finally then clears
\* connectingJob; the joining coroutine finds the job finished.
StopRunnerFromJob(i, r) ==
  /\ svc' = [svc EXCEPT ![i] = [stopRunner(r, FALSE) EXCEPT !.job = "none", !.ok = TRUE, !.cancelled = FALSE]]
  /\ reg' = stopRunnerReg(reg, i, r)
  /\ UNCHANGED <<mode, requests, main, events, owed>>

-----------------------------------------------------------------------------
(* The framework and the user. *)

\* SagerNet.startService, or any other sender of startForegroundService.
UserStart ==
  /\ Event
  /\ requests' = requests \cup {serviceClass}
  /\ UNCHANGED <<mode, svc, reg, main, owed>>

\* The settings page writes the new mode whether or not a service runs.
ChangeMode ==
  /\ Event
  /\ mode' \in Class \ {mode}
  /\ UNCHANGED <<svc, reg, requests, main, owed>>

\* The mode guards of VpnService.onStartCommand and ProxyService.onStartCommand;
\* the VPN permission may have been revoked as well.
modeAllows(i) == mode = classOf(i)
cannotRun(i) == ~modeAllows(i) \/ i \in VpnInstance

\* onStartCommand of the live object of class c, created first if need be.
\* The mode guard (and, for the VPN, a revoked permission) turns the start
\* into a stopRunner, which on an idle object runs to its end (stopSelf) without
\* suspending; a start that finds the object Stopping is recorded.
OnStartCommand(i) ==
  /\ MainFree
  /\ classOf(i) \in requests
  /\ \/ svc[i].life = "live"
     \/ /\ svc[i].life = "unborn"
        /\ \A k \in Instance : classOf(k) = classOf(i) => svc[k].life # "live"
  /\ requests' = requests \ {classOf(i)}
  /\ UNCHANGED <<mode, main, events>>
  /\ LET r == [svc[i] EXCEPT !.life = "live", !.requested = TRUE]
         idle == r.state = "Stopped" /\ r.job = "none"
     IN  \/ /\ modeAllows(i)
            /\ reg' = claimBase(reg, i)
            /\ svc' = [svc EXCEPT ![i] =
                         IF idle THEN [r EXCEPT !.job = "reading"]
                         ELSE [r EXCEPT !.pendingStart = @ \/ r.state = "Stopping"]]
            /\ owed' = IF r.state = "Stopping" THEN owed \cup {i} ELSE owed
         \/ /\ cannotRun(i)
            /\ ~idle
            /\ reg' = stopRunnerReg(reg, i, r)
            /\ svc' = [svc EXCEPT ![i] = stopRunner(r, FALSE)]
            /\ owed' = owed
         \/ /\ cannotRun(i)
            /\ idle
            /\ reg' = setState(stopRunnerReg(reg, i, r), i, "Stopped")
            /\ svc' = [svc EXCEPT ![i] = [r EXCEPT !.requested = FALSE]]
            /\ owed' = owed

\* Whatever stops a running service: the CLOSE broadcast, a reload with no
\* profile selected, VpnService.onRevoke, a fatal plugin process.  All need
\* the run that registered the receiver.
Close(i) ==
  /\ Event
  /\ MainFree
  /\ svc[i].receiver
  /\ svc' = [svc EXCEPT ![i] = stopRunner(@, FALSE)]
  /\ reg' = stopRunnerReg(reg, i, svc[i])
  /\ UNCHANGED <<mode, requests, main, owed>>

\* The RELOAD broadcast: the decision is taken on the Default dispatcher ...
Reload(i) ==
  /\ Event
  /\ MainFree
  /\ svc[i].receiver
  /\ ~svc[i].reloading
  /\ svc' = [svc EXCEPT ![i].reloading = TRUE]
  /\ UNCHANGED <<mode, reg, requests, main, owed>>

\* ... where a selector group switches its outbound in place,
ReloadSelector(i) ==
  /\ svc[i].reloading
  /\ svc[i].state = "Connected"
  /\ svc' = [svc EXCEPT ![i].reloading = FALSE]
  /\ UNCHANGED <<mode, reg, requests, main, events, owed>>

\* Mutant: the object of the old mode stays started.
startRunner_lingers(r, i, accepted) == r

\* startRunner: the start goes to the class of the CURRENT mode; when that is
\* another class this object stops itself.  The framework may refuse.
startRunner(r, i, accepted) ==
  [r EXCEPT !.requested = @ /\ ~(accepted /\ serviceClass # classOf(i))]

startRunnerRequests(accepted) ==
  IF accepted THEN requests \cup {serviceClass} ELSE requests

\* ... or comes back to the main thread, by then in any state.  (A reload that finds the
\* object destroyed while its box is closing may set pendingStart with no stop to read it:
\* the service it would have restarted is gone, so that one is not owed.)
ReloadMain(i) ==
  /\ MainFree
  /\ svc[i].reloading
  /\ LET r == [svc[i] EXCEPT !.reloading = FALSE]
     IN  \/ /\ r.state = "Stopped"
            /\ \E accepted \in BOOLEAN :
                 /\ svc' = [svc EXCEPT ![i] = startRunner(r, i, accepted)]
                 /\ requests' = startRunnerRequests(accepted)
            /\ UNCHANGED <<mode, reg, main, events, owed>>
         \/ /\ canStop(r.state) \/ r.state = "Stopping"
            /\ svc' = [svc EXCEPT ![i] = stopRunner(r, TRUE)]
            /\ reg' = stopRunnerReg(reg, i, r)
            /\ owed' = IF r.life = "live" THEN owed \cup {i} ELSE owed
            /\ UNCHANGED <<mode, requests, main, events>>

-----------------------------------------------------------------------------
(* connectingJob: onStartCommand's coroutine and startConnecting. *)

Job(i, r) ==
  /\ svc' = [svc EXCEPT ![i] = r]
  /\ UNCHANGED <<mode, reg, requests, main, events, owed>>

\* A blocking part on the IO dispatcher ends; the job waits for the main thread.
IoReturn(i) ==
  \/ /\ svc[i].job = "reading"
     /\ \E ok \in BOOLEAN : Job(i, [svc[i] EXCEPT !.job = "read", !.ok = ok])
  \/ /\ svc[i].job = "killing"
     /\ Job(i, [svc[i] EXCEPT !.job = "killed"])

\* A job cancelled by stopRunner or destroyRunner ends where it is resumed, unless
\* the blocking call it waited for threw: that exception wins over the cancellation.
JobCancelled(i) ==
  /\ MainFree
  /\ svc[i].job \in Resuming
  /\ svc[i].cancelled
  /\ svc[i].ok \/ svc[i].job = "read"
  /\ Job(i, [svc[i] EXCEPT !.job = "none", !.ok = TRUE, !.cancelled = FALSE])

\* Database unreadable, restore pending, no profile, init or launch failed.
JobFailed(i) ==
  /\ MainFree
  /\ svc[i].job \in {"read", "inited", "launched"}
  /\ ~svc[i].ok
  /\ StopRunnerFromJob(i, svc[i])

\* startConnecting: a new ProxyInstance, the receiver, state Connecting.
StartConnecting(i) ==
  /\ MainFree
  /\ svc[i].job = "read"
  /\ ~svc[i].cancelled
  /\ svc[i].ok
  /\ svc' = [svc EXCEPT ![i] = [@ EXCEPT !.proxy = TRUE, !.closed = FALSE, !.box = "none",
                                        !.receiver = TRUE, !.state = "Connecting",
                                        !.job = "killing"]]
  /\ reg' = changeState(reg, i, svc[i], "Connecting", FALSE)
  /\ UNCHANGED <<mode, requests, main, events, owed>>

\* preInit, then proxy.init on the IO dispatcher.
PreInit(i) ==
  /\ MainFree
  /\ svc[i].job = "killed"
  /\ ~svc[i].cancelled
  /\ Job(i, [svc[i] EXCEPT !.listener = TRUE, !.job = "init"])

\* Mutant: init does not look at closed again.
closeAfterLateInit_skipped(r) == r

\* BoxInstance.closeAfterLateInit: a close that came before the box existed is
\* made up for.
closeAfterLateInit(r) == [r EXCEPT !.box = IF r.closed THEN "closed" ELSE @]

\* proxy.init: loadConfig creates the box; whatever happens, a close that came
\* meanwhile and missed the box is made up for in the finally.
ProxyInit(i) ==
  \/ /\ svc[i].job = "init"
     /\ \/ Job(i, [svc[i] EXCEPT !.box = "new", !.job = "loaded"])
        \/ Job(i, [svc[i] EXCEPT !.job = "inited", !.ok = FALSE])
  \/ /\ svc[i].job = "loaded"
     /\ \E ok \in BOOLEAN :
          Job(i, [closeAfterLateInit(svc[i]) EXCEPT !.job = "inited", !.ok = ok])

\* startProcesses: VpnService registers itself before it launches the proxy.
StartProcesses(i) ==
  /\ MainFree
  /\ svc[i].job = "inited"
  /\ ~svc[i].cancelled
  /\ svc[i].ok
  /\ svc' = [svc EXCEPT ![i].job = "launch"]
  /\ reg' = IF i \in VpnInstance THEN claimVpn(reg, i) ELSE reg
  /\ UNCHANGED <<mode, requests, main, events, owed>>

\* proxy.launch up to box.start.  A closed proxy returns without starting; a
\* close between the check and box.start makes box.start fail.
ProxyLaunch(i) ==
  \/ /\ svc[i].job = "launch"
     /\ Job(i, [svc[i] EXCEPT !.job = IF svc[i].closed THEN "launched" ELSE "prestart"])
  \/ /\ svc[i].job = "prestart"
     /\ \/ Job(i, [svc[i] EXCEPT !.job = "launched", !.ok = FALSE])
        \/ /\ svc[i].closed
           /\ Job(i, [svc[i] EXCEPT !.job = "launched"])
        \/ /\ svc[i].box = "new"
           /\ Job(i, [svc[i] EXCEPT !.job = "starting", !.box = "starting"])

\* NativeInterface.openTun and VpnService.startVpn, called back from box.start on a
\* Go thread while Go holds the lock of the box: somebody must be registered; read
\* data.proxy, establish, publish conn, and only then look at the state again.
StartVpn(i) ==
  /\ i \in VpnInstance
  /\ \/ /\ svc[i].job = "starting"
        /\ Job(i, IF reg.vpn # None /\ svc[i].proxy
                  THEN [svc[i] EXCEPT !.job = "establishing"]
                  ELSE [svc[i] EXCEPT !.job = "up", !.ok = FALSE])
     \/ /\ svc[i].job = "establishing"
        /\ \/ Job(i, [svc[i] EXCEPT !.job = "up", !.ok = FALSE])
           \/ Job(i, [svc[i] EXCEPT !.conn = TRUE, !.fd = TRUE, !.job = "tun"])
     \/ /\ svc[i].job = "tun"
        /\ Job(i, IF started(svc[i].state)
                  THEN [svc[i] EXCEPT !.job = "up"]
                  ELSE [svc[i] EXCEPT !.fd = FALSE, !.conn = FALSE, !.job = "up", !.ok = FALSE])

\* Mutant: a failed start returns with the lock of the box held.
BoxStarted_lockHeld(i) ==
  /\ svc[i].job = IF i \in VpnInstance THEN "up" ELSE "starting"
  /\ \E ok \in BOOLEAN :
       Job(i, [svc[i] EXCEPT !.box = IF svc[i].ok /\ ok THEN "started" ELSE @,
                             !.job = "launched", !.ok = @ /\ ok])

BoxStarted(i) ==
  /\ svc[i].job = IF i \in VpnInstance THEN "up" ELSE "starting"
  /\ \E ok \in BOOLEAN :
       Job(i, [svc[i] EXCEPT !.box = "started", !.job = "launched", !.ok = @ /\ ok])

\* changeState(Connected) and lateInit, with DataStore.acquireWakeLock on.
Connected(i) ==
  /\ MainFree
  /\ svc[i].job = "launched"
  /\ ~svc[i].cancelled
  /\ svc[i].ok
  /\ svc' = [svc EXCEPT ![i] = [@ EXCEPT !.state = "Connected", !.wakeLock = TRUE, !.job = "none"]]
  /\ reg' = changeState(reg, i, svc[i], "Connected", FALSE)
  /\ UNCHANGED <<mode, requests, main, events, owed>>

-----------------------------------------------------------------------------
(* The coroutine stopRunner launches. *)

\* cancelAndJoin returned: killProcesses.
StopJoined(i) ==
  /\ MainFree
  /\ svc[i].stopper = "joining"
  /\ svc[i].job = "none"
  /\ svc[i].proxy
  /\ Job(i, beginKill(svc[i]))

\* proxy.close on the IO dispatcher: the compare-and-set decides who closes the
\* box; Go's Close waits for a Start in progress.
StopClose(i) ==
  \/ /\ svc[i].stopper = "closing"
     /\ Job(i, IF ~svc[i].proxy \/ svc[i].closed
               THEN [svc[i] EXCEPT !.stopper = "closedBox"]
               ELSE [svc[i] EXCEPT !.closed = TRUE,
                       !.stopper = IF svc[i].box = "none" THEN "closedBox" ELSE "boxClosing"])
  \/ /\ svc[i].stopper = "boxClosing"
     /\ svc[i].box # "starting"
     /\ Job(i, [svc[i] EXCEPT !.box = "closed", !.stopper = "closedBox"])

\* The tail of stopRunner: release, report Stopped, replay a recorded start.
\* Reached at once when the joined job left no proxy to close.
StopFinish(i) ==
  /\ MainFree
  /\ \/ svc[i].stopper = "closedBox"
     \/ svc[i].stopper = "joining" /\ svc[i].job = "none" /\ ~svc[i].proxy
  /\ LET r == [svc[i] EXCEPT !.wakeLock = FALSE, !.listener = FALSE, !.receiver = FALSE,
                             !.proxy = FALSE, !.state = "Stopped", !.pendingStart = FALSE,
                             !.stopper = "none"]
     IN  \E granted, msg \in BOOLEAN :
           LET accepted == svc[i].pendingStart /\ granted
           IN  /\ svc' = [svc EXCEPT ![i] = IF accepted THEN startRunner(r, i, TRUE)
                                            ELSE [r EXCEPT !.requested = FALSE]]
               /\ requests' = startRunnerRequests(accepted)
               /\ reg' = changeState(reg, i, svc[i], "Stopped", msg)
               /\ owed' = IF svc[i].pendingStart /\ (granted => serviceClass \in requests')
                          THEN owed \ {i} ELSE owed
  /\ UNCHANGED <<mode, main, events>>

-----------------------------------------------------------------------------
(* onDestroy and destroyRunner, at any moment of a live object's life. *)

\* releaseSubclassResources closes the descriptor it finds in conn ...
DestroyRelease(i) ==
  /\ Event
  /\ MainFree
  /\ svc[i].life = "live"
  /\ svc' = [svc EXCEPT ![i] = [@ EXCEPT !.life = "destroyed", !.requested = FALSE,
                                        !.fd = IF svc[i].conn THEN FALSE ELSE svc[i].fd]]
  /\ reg' = IF i \in VpnInstance THEN releaseVpn(reg, i) ELSE reg
  /\ main' = <<i, "release">>
  /\ UNCHANGED <<mode, requests, owed>>

\* ... then clears conn; the registration, the job and the receiver follow.
DestroyDetach(i) ==
  /\ main = <<i, "release">>
  /\ svc' = [svc EXCEPT ![i] = [@ EXCEPT !.conn = FALSE, !.receiver = FALSE,
                                        !.cancelled = svc[i].cancelled \/ svc[i].job # "none"]]
  /\ reg' = releaseBase(reg, i)
  /\ main' = <<i, "teardown">>
  /\ UNCHANGED <<mode, requests, events, owed>>

\* The proxy is handed to a background close; without one the object is done.
DestroyTeardown(i) ==
  /\ main = <<i, "teardown">>
  /\ LET r == svc[i]
         next == IF r.proxy /\ r.state # "Stopped" THEN "Stopping" ELSE "Stopped"
     IN  /\ svc' = [svc EXCEPT ![i] =
                      [r EXCEPT !.proxy = FALSE, !.state = next, !.settle = r.state # "Stopped",
                                !.closer = IF r.proxy THEN "closing" ELSE "none",
                                !.listener = FALSE, !.wakeLock = FALSE]]
         /\ reg' = changeState(reg, i, r, next, FALSE)
  /\ main' = None
  /\ UNCHANGED <<mode, requests, events, owed>>

\* The background close: proxy.close, the second release, the settling.
CloserClose(i) ==
  \/ /\ svc[i].closer = "closing"
     /\ Job(i, [svc[i] EXCEPT !.closed = TRUE,
                  !.closer = IF svc[i].closed \/ svc[i].box = "none"
                             THEN "settling" ELSE "boxClosing"])
  \/ /\ svc[i].closer = "boxClosing"
     /\ svc[i].box # "starting"
     /\ Job(i, [svc[i] EXCEPT !.box = "closed", !.closer = "settling"])

CloserSettle(i) ==
  /\ svc[i].closer = "settling"
  /\ svc' = [svc EXCEPT ![i] = [releaseSubclassResources(@) EXCEPT !.closer = "done"]]
  /\ reg' = IF svc[i].settle THEN settleStoppedIfUnclaimed(reg) ELSE reg
  /\ UNCHANGED <<mode, requests, main, events, owed>>

-----------------------------------------------------------------------------

JobStep(i) ==
  \/ IoReturn(i) \/ JobCancelled(i) \/ JobFailed(i) \/ StartConnecting(i) \/ PreInit(i)
  \/ ProxyInit(i) \/ StartProcesses(i) \/ ProxyLaunch(i) \/ StartVpn(i) \/ BoxStarted(i)
  \/ Connected(i)

StopStep(i) == StopJoined(i) \/ StopClose(i) \/ StopFinish(i)

DestroyStep(i) == DestroyDetach(i) \/ DestroyTeardown(i) \/ CloserClose(i) \/ CloserSettle(i)

Environment(i) == OnStartCommand(i) \/ Close(i) \/ Reload(i) \/ DestroyRelease(i)

ReloadStep(i) == ReloadSelector(i) \/ ReloadMain(i)

Next ==
  \/ UserStart
  \/ ChangeMode
  \/ \E i \in Instance : Environment(i) \/ ReloadStep(i) \/ JobStep(i) \/ StopStep(i) \/ DestroyStep(i)

\* The dispatchers run what is posted to them and blocking calls return; the
\* user and the framework owe nothing.
Fairness ==
  \A i \in Instance : WF_vars(JobStep(i)) /\ WF_vars(StopStep(i)) /\ WF_vars(DestroyStep(i))

Spec == Init /\ [][Next]_vars /\ Fairness

-----------------------------------------------------------------------------
(* Properties *)

\* Nothing the object started is still under way.
AtRest(i) ==
  /\ svc[i].job = "none"
  /\ svc[i].stopper = "none"
  /\ svc[i].closer \in {"none", "done"}
  /\ main \notin {<<i, "release">>, <<i, "teardown">>}

\* Whatever order start, stop, reload and a framework destroy come in, an object
\* that is Stopped or destroyed with nothing under way holds no open box, network
\* listener, wake lock or receiver; one that is still alive holds no tun
\* descriptor either (killProcesses, destroyRunner, the finally of init).
ReleasedAtRest ==
  \A i \in Instance :
    AtRest(i) /\ (svc[i].state = "Stopped" \/ svc[i].life = "destroyed") =>
      /\ svc[i].box \in {"none", "closed"}
      /\ ~svc[i].listener /\ ~svc[i].wakeLock /\ ~svc[i].receiver /\ ~svc[i].proxy
      /\ svc[i].life = "live" => ~svc[i].fd

\* destroyRunner's comment about its second releaseSubclassResources: a tun
\* descriptor that startVpn opens behind the first release is closed by the
\* second, so a destroyed VpnService at rest has none open.
TunReleasedAfterDestroy ==
  \A i \in Instance : AtRest(i) /\ svc[i].life = "destroyed" => ~svc[i].fd

\* The registry never hands out a destroyed service, and the registered
\* VpnService is one that is connecting or connected (releaseBase / releaseVpn
\* on both ways out, the claims of jobs that were cancelled in between).
RegisteredIsAlive ==
  \A i \in Instance :
    /\ reg.base = i => svc[i].life = "live" \/ main = <<i, "release">>
    /\ reg.vpn = i => svc[i].life = "live" /\ started(svc[i].state)

\* The registry belongs to the newest owner, whatever older objects still do. As long as
\* an object is registered, the state only ever changes to that object's own (setState,
\* settleStoppedIfUnclaimed); and one that is starting or running loses its registration
\* only to a later start or to its own destruction (releasedBy).
RegistryIsOwners ==
  [][ \A j \in Instance : reg.base = j =>
        /\ reg'.base = j /\ reg'.state # reg.state => reg'.state = svc'[j].state
        /\ reg'.base = None /\ svc'[j].life = "live" =>
             ~started(svc'[j].state) /\ (svc'[j].job # "none" => svc'[j].state = "Stopping") ]_vars

\* No start is forgotten (the comment on Data.pendingStart: starts and reloads that came
\* while Stopping were once dropped, and the user had to tap again). Whatever comes
\* between, a second stop, a failed job, a change of mode, the destruction of the object:
\* when nothing of it is under way any more, each start it took while Stopping and each
\* reload that stopped it has been sent to the class of the mode, or was refused.
StartsAreAnswered == \A i \in Instance : AtRest(i) => i \notin owed

\* A live object that has stopped does not linger as a started, empty service:
\* either it called stopSelf or a start for its class is on the way.
NoStartedEmptyService ==
  \A i \in Instance :
    svc[i].life = "live" /\ AtRest(i) /\ svc[i].state = "Stopped" /\ svc[i].requested =>
      classOf(i) \in requests

\* settleStoppedIfUnclaimed's comment: if a new service came up while the
\* destroyed one was closing, its state is not overwritten.  (A live object of
\* the destroyed object's class was created after the destruction.)
SettlingSparesNewService ==
  [][ \A i \in Instance :
        svc[i].closer = "settling" /\ svc'[i].closer = "done" /\ reg'.state # reg.state =>
          \A k \in Instance \ {i} :
            classOf(k) = classOf(i) /\ svc[k].life = "live" => svc[k].state = "Stopped" ]_vars

\* Nothing in a teardown waits for ever: a stop completes, and what a destroyed object left
\* running in the background comes to an end.
TeardownCompletes ==
  \A i \in Instance :
    /\ svc[i].state = "Stopping" /\ svc[i].life = "live" ~>
         svc[i].state = "Stopped" \/ svc[i].life = "destroyed"
    /\ svc[i].life = "destroyed" ~> AtRest(i)

=============================================================================
