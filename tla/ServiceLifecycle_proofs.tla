----------------------- MODULE ServiceLifecycle_proofs -----------------------
(***************************************************************************)
(* Proofs about ServiceLifecycle for any number of Service objects and of  *)
(* events: what an object has taken it gives back on every way out, the    *)
(* registry hands out no dead service and belongs to its newest owner.     *)
(***************************************************************************)
EXTENDS ServiceLifecycle, TLAPS

-----------------------------------------------------------------------------
(* The inductive invariant: what holds of one object, its record r and     *)
(* where in its destruction the main thread is, and what the objects have  *)
(* in common.                                                              *)

At(i) == IF main = <<i, "release">> THEN "release"
         ELSE IF main = <<i, "teardown">> THEN "teardown" ELSE "free"

\* Stages of a job that has a proxy, and those inside box.start.
Begun(job) == job \notin {"none", "reading", "read"}
InStart(job) == job \in {"starting", "establishing", "tun", "up"}
Killing(stopper) == stopper \in {"closing", "boxClosing", "closedBox"}

\* An object that is being destroyed has lost its receiver before its job is cancelled,
\* and everything else when the main thread leaves it.
LifeOK(r, at) ==
  /\ r.life = "unborn" => r = Fresh
  /\ at # "free" => r.life = "destroyed"
  /\ r.closer # "none" => r.life = "destroyed" /\ at = "free"
  /\ r.life = "destroyed" /\ at # "release" => ~r.receiver /\ (r.job # "none" => r.cancelled)
  /\ r.life = "destroyed" /\ at = "free" =>
       ~r.proxy /\ ~r.listener /\ ~r.wakeLock /\ ~started(r.state)

\* The stop of a live object waits for its job, which it has cancelled, and only then
\* takes the proxy from under it.
JobOK(r, at) ==
  /\ r.state # "Idle"
  /\ r.job = "none" => ~r.cancelled
  /\ Killing(r.stopper) => r.job = "none"
  /\ r.life = "live" =>
       /\ r.stopper # "none" <=> r.state = "Stopping"
       /\ r.job # "none" => (r.cancelled <=> r.stopper = "joining")
  /\ r.life = "live" \/ at # "free" =>
       /\ r.job \in {"reading", "read"} => ~r.proxy
       /\ Begun(r.job) => r.proxy

\* What an object holds it holds with its proxy, and not when it is Stopped.
HeldOK(r, at) ==
  /\ r.life = "live" \/ at # "free" =>
       /\ r.receiver \/ r.listener \/ r.wakeLock => r.proxy
       /\ r.proxy => r.state # "Stopped"
  /\ r.life = "live" =>
       /\ r.fd => r.conn
       /\ r.conn => r.proxy /\ ~Killing(r.stopper)

\* An open box is one somebody will close: who has the proxy, who is closing it, or the
\* init that created it after the close (closeAfterLateInit).
BoxOK(r) ==
  /\ InStart(r.job) => r.box = "starting"
  /\ r.stopper = "boxClosing" => r.closed
  /\ r.stopper = "closedBox" /\ r.proxy => r.closed
  /\ Begun(r.job) /\ ~r.closed => r.proxy \/ r.closer = "closing"
  /\ r.box \notin {"none", "closed"} =>
       IF r.closed THEN r.stopper = "boxClosing" \/ r.closer = "boxClosing" \/ r.job = "loaded"
       ELSE r.proxy \/ r.closer = "closing"

ObjectOK(r, at) == LifeOK(r, at) /\ JobOK(r, at) /\ HeldOK(r, at) /\ BoxOK(r)

ObjectInv == \A i \in Instance : ObjectOK(svc[i], At(i))

\* The framework has one live object of a class, and the registry no other.
OneLive ==
  \A i, k \in Instance :
    svc[i].life = "live" /\ svc[k].life = "live" /\ classOf(i) = classOf(k) => i = k

RegistryInv ==
  \A i \in Instance :
    /\ reg.base = i => svc[i].life = "live" \/ At(i) = "release"
    /\ reg.vpn = i => svc[i].life = "live" /\ started(svc[i].state) /\ i \in VpnInstance

\* A Stopped object with nothing under way has called stopSelf, or is started again.
Resting(r) == r.life = "live" /\ r.job = "none" /\ r.state = "Stopped" /\ r.requested

RequestInv == \A i \in Instance : Resting(svc[i]) => classOf(i) \in requests

\* A start that is owed is recorded where the stop that is under way will read it.
OwedInv == \A i \in owed : svc[i].pendingStart /\ svc[i].stopper # "none"

IInv == TypeOK /\ ObjectInv /\ OneLive /\ RegistryInv /\ RequestInv /\ OwedInv

-----------------------------------------------------------------------------
(* What each handler makes of the record of its object. *)

Position == {"free", "release", "teardown"}

\* A field of a record is set.
LEMMA Setters ==
  ASSUME NEW r \in Record
  PROVE  /\ \A v \in {"unborn", "live", "destroyed"} : [r EXCEPT !.life = v] \in Record
         /\ \A v \in State : [r EXCEPT !.state = v] \in Record
         /\ \A v \in Stage : [r EXCEPT !.job = v] \in Record
         /\ \A v \in {"none", "new", "starting", "started", "closed"} :
              [r EXCEPT !.box = v] \in Record
         /\ \A v \in {"none", "joining", "closing", "boxClosing", "closedBox"} :
              [r EXCEPT !.stopper = v] \in Record
         /\ \A v \in {"none", "closing", "boxClosing", "settling", "done"} :
              [r EXCEPT !.closer = v] \in Record
<1>1. \A v \in {"unborn", "live", "destroyed"} : [r EXCEPT !.life = v] \in Record
  BY DEF Record
<1>2. \A v \in State : [r EXCEPT !.state = v] \in Record
  BY DEF Record
<1>3. \A v \in Stage : [r EXCEPT !.job = v] \in Record
  BY DEF Record
<1>4. \A v \in {"none", "new", "starting", "started", "closed"} : [r EXCEPT !.box = v] \in Record
  BY DEF Record
<1>5. \A v \in {"none", "joining", "closing", "boxClosing", "closedBox"} :
        [r EXCEPT !.stopper = v] \in Record
  BY DEF Record
<1>6. \A v \in {"none", "closing", "boxClosing", "settling", "done"} :
        [r EXCEPT !.closer = v] \in Record
  BY DEF Record
<1> QED BY <1>1, <1>2, <1>3, <1>4, <1>5, <1>6

\* A flag of a record is set.
LEMMA FlagSetters ==
  ASSUME NEW r \in Record, NEW v \in BOOLEAN
  PROVE  /\ [r EXCEPT !.requested = v] \in Record /\ [r EXCEPT !.ok = v] \in Record
         /\ [r EXCEPT !.cancelled = v] \in Record /\ [r EXCEPT !.proxy = v] \in Record
         /\ [r EXCEPT !.closed = v] \in Record /\ [r EXCEPT !.conn = v] \in Record
         /\ [r EXCEPT !.fd = v] \in Record /\ [r EXCEPT !.receiver = v] \in Record
         /\ [r EXCEPT !.listener = v] \in Record /\ [r EXCEPT !.wakeLock = v] \in Record
         /\ [r EXCEPT !.pendingStart = v] \in Record /\ [r EXCEPT !.settle = v] \in Record
         /\ [r EXCEPT !.reloading = v] \in Record
<1>1. /\ [r EXCEPT !.requested = v] \in Record /\ [r EXCEPT !.ok = v] \in Record
      /\ [r EXCEPT !.cancelled = v] \in Record
  BY DEF Record
<1>2. /\ [r EXCEPT !.proxy = v] \in Record /\ [r EXCEPT !.closed = v] \in Record
      /\ [r EXCEPT !.conn = v] \in Record
  BY DEF Record
<1>3. /\ [r EXCEPT !.fd = v] \in Record /\ [r EXCEPT !.receiver = v] \in Record
      /\ [r EXCEPT !.listener = v] \in Record
  BY DEF Record
<1>4. /\ [r EXCEPT !.wakeLock = v] \in Record /\ [r EXCEPT !.pendingStart = v] \in Record
  BY DEF Record
<1>5. /\ [r EXCEPT !.settle = v] \in Record /\ [r EXCEPT !.reloading = v] \in Record
  BY DEF Record
<1> QED BY <1>1, <1>2, <1>3, <1>4, <1>5

\* A start is asked for or taken back, ...
LEMMA RequestedKeeps ==
  ASSUME NEW r \in Record, NEW at \in Position, ObjectOK(r, at),
         r.life # "unborn", NEW v \in BOOLEAN
  PROVE  /\ [r EXCEPT !.requested = v] \in Record
         /\ ObjectOK([r EXCEPT !.requested = v], at)
<1>1. [r EXCEPT !.requested = v] \in Record
  BY FlagSetters
<1>2. ObjectOK([r EXCEPT !.requested = v], at)
  BY DEF Record, State, Stage, Io, Resuming, ObjectOK, LifeOK, JobOK, HeldOK, BoxOK, Begun,
     InStart, Killing, started, Fresh, Position
<1> QED BY <1>1, <1>2

\* ... a reload is on its way, ...
LEMMA ReloadingKeeps ==
  ASSUME NEW r \in Record, NEW at \in Position, ObjectOK(r, at),
         r.life # "unborn", NEW v \in BOOLEAN
  PROVE  /\ [r EXCEPT !.reloading = v] \in Record
         /\ ObjectOK([r EXCEPT !.reloading = v], at)
<1>1. [r EXCEPT !.reloading = v] \in Record
  BY FlagSetters
<1>2. ObjectOK([r EXCEPT !.reloading = v], at)
  BY DEF Record, State, Stage, Io, Resuming, ObjectOK, LifeOK, JobOK, HeldOK, BoxOK, Begun,
     InStart, Killing, started, Fresh, Position
<1> QED BY <1>1, <1>2

\* ... a start is recorded for after the stop.
LEMMA PendingKeeps ==
  ASSUME NEW r \in Record, NEW at \in Position, ObjectOK(r, at),
         r.life # "unborn", NEW v \in BOOLEAN
  PROVE  /\ [r EXCEPT !.pendingStart = v] \in Record
         /\ ObjectOK([r EXCEPT !.pendingStart = v], at)
<1>1. [r EXCEPT !.pendingStart = v] \in Record
  BY FlagSetters
<1>2. ObjectOK([r EXCEPT !.pendingStart = v], at)
  BY DEF Record, State, Stage, Io, Resuming, ObjectOK, LifeOK, JobOK, HeldOK, BoxOK, Begun,
     InStart, Killing, started, Fresh, Position
<1> QED BY <1>1, <1>2

\* The framework creates an object, or finds it.
LEMMA BornKeeps ==
  ASSUME NEW r \in Record, ObjectOK(r, "free"),
         r.life # "destroyed"
  PROVE  /\ [r EXCEPT !.life = "live", !.requested = TRUE] \in Record
         /\ ObjectOK([r EXCEPT !.life = "live", !.requested = TRUE], "free")
<1> DEFINE a == [r EXCEPT !.life = "live"]
<1>1. a \in Record
  BY Setters
<1> HIDE DEF a
<1>2. [a EXCEPT !.requested = TRUE] \in Record
  BY <1>1, FlagSetters
<1>3. ObjectOK([r EXCEPT !.life = "live", !.requested = TRUE], "free")
  BY DEF Record, State, Stage, Io, Resuming, ObjectOK, LifeOK, JobOK, HeldOK, BoxOK, Begun,
     InStart, Killing, started, Fresh, Position
<1> QED BY <1>2, <1>3 DEF a

\* onStartCommand launches the connecting job of an idle object.
LEMMA ReadingKeeps ==
  ASSUME NEW r \in Record, ObjectOK(r, "free"),
         r.life = "live", r.state = "Stopped", r.job = "none"
  PROVE  /\ [r EXCEPT !.job = "reading"] \in Record
         /\ ObjectOK([r EXCEPT !.job = "reading"], "free")
<1>1. [r EXCEPT !.job = "reading"] \in Record
  BY Setters DEF Stage, Io, Resuming
<1>2. ObjectOK([r EXCEPT !.job = "reading"], "free")
  BY DEF Record, State, Stage, Io, Resuming, ObjectOK, LifeOK, JobOK, HeldOK, BoxOK, Begun,
     InStart, Killing, started, Fresh, Position
<1> QED BY <1>1, <1>2

\* The job goes on without touching the box, ...
LEMMA StageKeeps ==
  ASSUME NEW r \in Record, NEW at \in Position, ObjectOK(r, at),
         Begun(r.job), r.job # "loaded", NEW s \in Stage, Begun(s), ~InStart(s), s # "loaded"
  PROVE  /\ [r EXCEPT !.job = s] \in Record
         /\ ObjectOK([r EXCEPT !.job = s], at)
<1>1. [r EXCEPT !.job = s] \in Record
  BY Setters
<1>2. ObjectOK([r EXCEPT !.job = s], at)
  BY DEF Record, State, Stage, Io, Resuming, ObjectOK, LifeOK, JobOK, HeldOK, BoxOK, Begun,
     InStart, Killing, started, Fresh, Position
<1> QED BY <1>1, <1>2

\* ... or fails.
LEMMA StageOkKeeps ==
  ASSUME NEW r \in Record, NEW at \in Position, ObjectOK(r, at),
         Begun(r.job), r.job # "loaded", NEW s \in Stage, Begun(s), ~InStart(s), s # "loaded", 
         NEW o \in BOOLEAN
  PROVE  /\ [r EXCEPT !.job = s, !.ok = o] \in Record
         /\ ObjectOK([r EXCEPT !.job = s, !.ok = o], at)
<1> DEFINE a == [r EXCEPT !.job = s]
<1>1. a \in Record
  BY Setters
<1> HIDE DEF a
<1>2. [a EXCEPT !.ok = o] \in Record
  BY <1>1, FlagSetters
<1>3. ObjectOK([r EXCEPT !.job = s, !.ok = o], at)
  BY DEF Record, State, Stage, Io, Resuming, ObjectOK, LifeOK, JobOK, HeldOK, BoxOK, Begun,
     InStart, Killing, started, Fresh, Position
<1> QED BY <1>2, <1>3 DEF a

\* The profile has been read, or could not be.
LEMMA ReadKeeps ==
  ASSUME NEW r \in Record, NEW at \in Position, ObjectOK(r, at),
         r.job = "reading", NEW o \in BOOLEAN
  PROVE  /\ [r EXCEPT !.job = "read", !.ok = o] \in Record
         /\ ObjectOK([r EXCEPT !.job = "read", !.ok = o], at)
<1> DEFINE a == [r EXCEPT !.job = "read"]
<1>1. a \in Record
  BY Setters DEF Stage, Io, Resuming
<1> HIDE DEF a
<1>2. [a EXCEPT !.ok = o] \in Record
  BY <1>1, FlagSetters
<1>3. ObjectOK([r EXCEPT !.job = "read", !.ok = o], at)
  BY DEF Record, State, Stage, Io, Resuming, ObjectOK, LifeOK, JobOK, HeldOK, BoxOK, Begun,
     InStart, Killing, started, Fresh, Position
<1> QED BY <1>2, <1>3 DEF a

\* A cancelled job ends where it is resumed.
LEMMA EndKeeps ==
  ASSUME NEW r \in Record, ObjectOK(r, "free"),
         r.job \in Resuming, r.cancelled \/ r.state = "Stopping"
  PROVE  /\ [r EXCEPT !.job = "none", !.ok = TRUE, !.cancelled = FALSE] \in Record
         /\ ObjectOK([r EXCEPT !.job = "none", !.ok = TRUE, !.cancelled = FALSE], "free")
<1> DEFINE a == [r EXCEPT !.job = "none"]
<1>1. a \in Record
  BY Setters DEF Stage, Io, Resuming
<1> HIDE DEF a
<1> DEFINE b == [a EXCEPT !.ok = TRUE]
<1>2. b \in Record
  BY <1>1, FlagSetters
<1> HIDE DEF b
<1>3. [b EXCEPT !.cancelled = FALSE] \in Record
  BY <1>2, FlagSetters
<1>4. ObjectOK([r EXCEPT !.job = "none", !.ok = TRUE, !.cancelled = FALSE], "free")
  BY DEF Record, State, Stage, Io, Resuming, ObjectOK, LifeOK, JobOK, HeldOK, BoxOK, Begun,
     InStart, Killing, started, Fresh, Position
<1> QED BY <1>3, <1>4 DEF a, b

\* startConnecting.
LEMMA ConnectingKeeps ==
  ASSUME NEW r \in Record, ObjectOK(r, "free"),
         r.job = "read", ~r.cancelled
  PROVE  /\ [r EXCEPT !.proxy = TRUE, !.closed = FALSE, !.box = "none", !.receiver = TRUE,
                     !.state = "Connecting", !.job = "killing"] \in Record
         /\ ObjectOK([r EXCEPT !.proxy = TRUE, !.closed = FALSE, !.box = "none",
                               !.receiver = TRUE, !.state = "Connecting", !.job = "killing"], "free")
<1> DEFINE a == [r EXCEPT !.proxy = TRUE]
<1>1. a \in Record
  BY FlagSetters
<1> HIDE DEF a
<1> DEFINE b == [a EXCEPT !.closed = FALSE]
<1>2. b \in Record
  BY <1>1, FlagSetters
<1> HIDE DEF b
<1> DEFINE c == [b EXCEPT !.box = "none"]
<1>3. c \in Record
  BY <1>2, Setters
<1> HIDE DEF c
<1> DEFINE d == [c EXCEPT !.receiver = TRUE]
<1>4. d \in Record
  BY <1>3, FlagSetters
<1> HIDE DEF d
<1> DEFINE e == [d EXCEPT !.state = "Connecting"]
<1>5. e \in Record
  BY <1>4, Setters DEF State
<1> HIDE DEF e
<1>6. [e EXCEPT !.job = "killing"] \in Record
  BY <1>5, Setters DEF Stage, Io, Resuming
<1>7. ObjectOK([r EXCEPT !.proxy = TRUE, !.closed = FALSE, !.box = "none", !.receiver = TRUE,
                         !.state = "Connecting", !.job = "killing"], "free")
  BY DEF Record, State, Stage, Io, Resuming, ObjectOK, LifeOK, JobOK, HeldOK, BoxOK, Begun,
     InStart, Killing, started, Fresh, Position
<1> QED BY <1>6, <1>7 DEF a, b, c, d, e

\* preInit.
LEMMA PreInitKeeps ==
  ASSUME NEW r \in Record, ObjectOK(r, "free"),
         r.job = "killed", ~r.cancelled
  PROVE  /\ [r EXCEPT !.listener = TRUE, !.job = "init"] \in Record
         /\ ObjectOK([r EXCEPT !.listener = TRUE, !.job = "init"], "free")
<1> DEFINE a == [r EXCEPT !.listener = TRUE]
<1>1. a \in Record
  BY FlagSetters
<1> HIDE DEF a
<1>2. [a EXCEPT !.job = "init"] \in Record
  BY <1>1, Setters DEF Stage, Io, Resuming
<1>3. ObjectOK([r EXCEPT !.listener = TRUE, !.job = "init"], "free")
  BY DEF Record, State, Stage, Io, Resuming, ObjectOK, LifeOK, JobOK, HeldOK, BoxOK, Begun,
     InStart, Killing, started, Fresh, Position
<1> QED BY <1>2, <1>3 DEF a

\* proxy.init creates the box, which may be closed already.
LEMMA LoadedKeeps ==
  ASSUME NEW r \in Record, NEW at \in Position, ObjectOK(r, at),
         r.job = "init"
  PROVE  /\ [r EXCEPT !.box = "new", !.job = "loaded"] \in Record
         /\ ObjectOK([r EXCEPT !.box = "new", !.job = "loaded"], at)
<1> DEFINE a == [r EXCEPT !.box = "new"]
<1>1. a \in Record
  BY Setters
<1> HIDE DEF a
<1>2. [a EXCEPT !.job = "loaded"] \in Record
  BY <1>1, Setters DEF Stage, Io, Resuming
<1>3. ObjectOK([r EXCEPT !.box = "new", !.job = "loaded"], at)
  BY DEF Record, State, Stage, Io, Resuming, ObjectOK, LifeOK, JobOK, HeldOK, BoxOK, Begun,
     InStart, Killing, started, Fresh, Position
<1> QED BY <1>2, <1>3 DEF a

\* closeAfterLateInit.
LEMMA InitedKeeps ==
  ASSUME NEW r \in Record, NEW at \in Position, ObjectOK(r, at),
         r.job = "loaded", NEW o \in BOOLEAN
  PROVE  /\ [r EXCEPT !.box = IF r.closed THEN "closed" ELSE r.box, !.job = "inited", !.ok = o] \in Record
         /\ ObjectOK([r EXCEPT !.box = IF r.closed THEN "closed" ELSE r.box, !.job = "inited",
                               !.ok = o], at)
<1>1. (IF r.closed THEN "closed" ELSE r.box) \in {"none", "new", "starting", "started", "closed"}
  BY DEF Record, State, Stage, Io, Resuming
<1> DEFINE a == [r EXCEPT !.box = IF r.closed THEN "closed" ELSE r.box]
<1>2. a \in Record
  BY <1>1, Setters
<1> HIDE DEF a
<1> DEFINE b == [a EXCEPT !.job = "inited"]
<1>3. b \in Record
  BY <1>2, Setters DEF Stage, Io, Resuming
<1> HIDE DEF b
<1>4. [b EXCEPT !.ok = o] \in Record
  BY <1>3, FlagSetters
<1>5. ObjectOK([r EXCEPT !.box = IF r.closed THEN "closed" ELSE r.box, !.job = "inited",
                         !.ok = o], at)
  BY DEF Record, State, Stage, Io, Resuming, ObjectOK, LifeOK, JobOK, HeldOK, BoxOK, Begun,
     InStart, Killing, started, Fresh, Position
<1> QED BY <1>4, <1>5 DEF a, b

\* box.start takes the lock of the box.
LEMMA StartingKeeps ==
  ASSUME NEW r \in Record, NEW at \in Position, ObjectOK(r, at),
         r.job = "prestart", r.box = "new"
  PROVE  /\ [r EXCEPT !.job = "starting", !.box = "starting"] \in Record
         /\ ObjectOK([r EXCEPT !.job = "starting", !.box = "starting"], at)
<1> DEFINE a == [r EXCEPT !.job = "starting"]
<1>1. a \in Record
  BY Setters DEF Stage, Io, Resuming
<1> HIDE DEF a
<1>2. [a EXCEPT !.box = "starting"] \in Record
  BY <1>1, Setters
<1>3. ObjectOK([r EXCEPT !.job = "starting", !.box = "starting"], at)
  BY DEF Record, State, Stage, Io, Resuming, ObjectOK, LifeOK, JobOK, HeldOK, BoxOK, Begun,
     InStart, Killing, started, Fresh, Position
<1> QED BY <1>2, <1>3 DEF a

\* startVpn goes on inside box.start, ...
LEMMA InStartKeeps ==
  ASSUME NEW r \in Record, NEW at \in Position, ObjectOK(r, at),
         InStart(r.job), NEW s \in Stage, InStart(s)
  PROVE  /\ [r EXCEPT !.job = s] \in Record
         /\ ObjectOK([r EXCEPT !.job = s], at)
<1>1. [r EXCEPT !.job = s] \in Record
  BY Setters
<1>2. ObjectOK([r EXCEPT !.job = s], at)
  BY DEF Record, State, Stage, Io, Resuming, ObjectOK, LifeOK, JobOK, HeldOK, BoxOK, Begun,
     InStart, Killing, started, Fresh, Position
<1> QED BY <1>1, <1>2

\* ... or fails.
LEMMA InStartOkKeeps ==
  ASSUME NEW r \in Record, NEW at \in Position, ObjectOK(r, at),
         InStart(r.job), NEW s \in Stage, InStart(s), NEW o \in BOOLEAN
  PROVE  /\ [r EXCEPT !.job = s, !.ok = o] \in Record
         /\ ObjectOK([r EXCEPT !.job = s, !.ok = o], at)
<1> DEFINE a == [r EXCEPT !.job = s]
<1>1. a \in Record
  BY Setters
<1> HIDE DEF a
<1>2. [a EXCEPT !.ok = o] \in Record
  BY <1>1, FlagSetters
<1>3. ObjectOK([r EXCEPT !.job = s, !.ok = o], at)
  BY DEF Record, State, Stage, Io, Resuming, ObjectOK, LifeOK, JobOK, HeldOK, BoxOK, Begun,
     InStart, Killing, started, Fresh, Position
<1> QED BY <1>2, <1>3 DEF a

\* startVpn publishes the descriptor.
LEMMA TunKeeps ==
  ASSUME NEW r \in Record, NEW at \in Position, ObjectOK(r, at),
         r.job = "establishing"
  PROVE  /\ [r EXCEPT !.conn = TRUE, !.fd = TRUE, !.job = "tun"] \in Record
         /\ ObjectOK([r EXCEPT !.conn = TRUE, !.fd = TRUE, !.job = "tun"], at)
<1> DEFINE a == [r EXCEPT !.conn = TRUE]
<1>1. a \in Record
  BY FlagSetters
<1> HIDE DEF a
<1> DEFINE b == [a EXCEPT !.fd = TRUE]
<1>2. b \in Record
  BY <1>1, FlagSetters
<1> HIDE DEF b
<1>3. [b EXCEPT !.job = "tun"] \in Record
  BY <1>2, Setters DEF Stage, Io, Resuming
<1>4. ObjectOK([r EXCEPT !.conn = TRUE, !.fd = TRUE, !.job = "tun"], at)
  BY DEF Record, State, Stage, Io, Resuming, ObjectOK, LifeOK, JobOK, HeldOK, BoxOK, Begun,
     InStart, Killing, started, Fresh, Position
<1> QED BY <1>3, <1>4 DEF a, b

\* startVpn closes it again, the service having stopped meanwhile.
LEMMA UntunKeeps ==
  ASSUME NEW r \in Record, NEW at \in Position, ObjectOK(r, at),
         r.job = "tun"
  PROVE  /\ [r EXCEPT !.fd = FALSE, !.conn = FALSE, !.job = "up", !.ok = FALSE] \in Record
         /\ ObjectOK([r EXCEPT !.fd = FALSE, !.conn = FALSE, !.job = "up", !.ok = FALSE], at)
<1> DEFINE a == [r EXCEPT !.fd = FALSE]
<1>1. a \in Record
  BY FlagSetters
<1> HIDE DEF a
<1> DEFINE b == [a EXCEPT !.conn = FALSE]
<1>2. b \in Record
  BY <1>1, FlagSetters
<1> HIDE DEF b
<1> DEFINE c == [b EXCEPT !.job = "up"]
<1>3. c \in Record
  BY <1>2, Setters DEF Stage, Io, Resuming
<1> HIDE DEF c
<1>4. [c EXCEPT !.ok = FALSE] \in Record
  BY <1>3, FlagSetters
<1>5. ObjectOK([r EXCEPT !.fd = FALSE, !.conn = FALSE, !.job = "up", !.ok = FALSE], at)
  BY DEF Record, State, Stage, Io, Resuming, ObjectOK, LifeOK, JobOK, HeldOK, BoxOK, Begun,
     InStart, Killing, started, Fresh, Position
<1> QED BY <1>4, <1>5 DEF a, b, c

\* box.start returns.
LEMMA StartedKeeps ==
  ASSUME NEW r \in Record, NEW at \in Position, ObjectOK(r, at),
         InStart(r.job), NEW o \in BOOLEAN
  PROVE  /\ [r EXCEPT !.box = "started", !.job = "launched", !.ok = o] \in Record
         /\ ObjectOK([r EXCEPT !.box = "started", !.job = "launched", !.ok = o], at)
<1> DEFINE a == [r EXCEPT !.box = "started"]
<1>1. a \in Record
  BY Setters
<1> HIDE DEF a
<1> DEFINE b == [a EXCEPT !.job = "launched"]
<1>2. b \in Record
  BY <1>1, Setters DEF Stage, Io, Resuming
<1> HIDE DEF b
<1>3. [b EXCEPT !.ok = o] \in Record
  BY <1>2, FlagSetters
<1>4. ObjectOK([r EXCEPT !.box = "started", !.job = "launched", !.ok = o], at)
  BY DEF Record, State, Stage, Io, Resuming, ObjectOK, LifeOK, JobOK, HeldOK, BoxOK, Begun,
     InStart, Killing, started, Fresh, Position
<1> QED BY <1>3, <1>4 DEF a, b

\* The service is connected.
LEMMA ConnectedKeeps ==
  ASSUME NEW r \in Record, ObjectOK(r, "free"),
         r.job = "launched", ~r.cancelled
  PROVE  /\ [r EXCEPT !.state = "Connected", !.wakeLock = TRUE, !.job = "none"] \in Record
         /\ ObjectOK([r EXCEPT !.state = "Connected", !.wakeLock = TRUE, !.job = "none"], "free")
<1> DEFINE a == [r EXCEPT !.state = "Connected"]
<1>1. a \in Record
  BY Setters DEF State
<1> HIDE DEF a
<1> DEFINE b == [a EXCEPT !.wakeLock = TRUE]
<1>2. b \in Record
  BY <1>1, FlagSetters
<1> HIDE DEF b
<1>3. [b EXCEPT !.job = "none"] \in Record
  BY <1>2, Setters DEF Stage, Io, Resuming
<1>4. ObjectOK([r EXCEPT !.state = "Connected", !.wakeLock = TRUE, !.job = "none"], "free")
  BY DEF Record, State, Stage, Io, Resuming, ObjectOK, LifeOK, JobOK, HeldOK, BoxOK, Begun,
     InStart, Killing, started, Fresh, Position
<1> QED BY <1>3, <1>4 DEF a, b

\* killProcesses of an object whose stop has joined its job.
LEMMA KillKeeps ==
  ASSUME NEW r \in Record, ObjectOK(r, "free"),
         r.stopper = "joining", r.job = "none", r.proxy
  PROVE  /\ [r EXCEPT !.fd = IF r.conn THEN FALSE ELSE r.fd, !.conn = FALSE,
                     !.stopper = "closing"] \in Record
         /\ ObjectOK([r EXCEPT !.fd = IF r.conn THEN FALSE ELSE r.fd, !.conn = FALSE,
                               !.stopper = "closing"], "free")
<1>1. (IF r.conn THEN FALSE ELSE r.fd) \in BOOLEAN
  BY DEF Record, State, Stage, Io, Resuming
<1> DEFINE a == [r EXCEPT !.fd = IF r.conn THEN FALSE ELSE r.fd]
<1>2. a \in Record
  BY <1>1, FlagSetters
<1> HIDE DEF a
<1> DEFINE b == [a EXCEPT !.conn = FALSE]
<1>3. b \in Record
  BY <1>2, FlagSetters
<1> HIDE DEF b
<1>4. [b EXCEPT !.stopper = "closing"] \in Record
  BY <1>3, Setters
<1>5. ObjectOK([r EXCEPT !.fd = IF r.conn THEN FALSE ELSE r.fd, !.conn = FALSE,
                         !.stopper = "closing"], "free")
  BY DEF Record, State, Stage, Io, Resuming, ObjectOK, LifeOK, JobOK, HeldOK, BoxOK, Begun,
     InStart, Killing, started, Fresh, Position
<1> QED BY <1>4, <1>5 DEF a, b

\* proxy.close finds nothing to close, or no box yet.
LEMMA SkipCloseKeeps ==
  ASSUME NEW r \in Record, NEW at \in Position, ObjectOK(r, at),
         r.stopper = "closing", ~r.proxy \/ r.closed
  PROVE  /\ [r EXCEPT !.stopper = "closedBox"] \in Record
         /\ ObjectOK([r EXCEPT !.stopper = "closedBox"], at)
<1>1. [r EXCEPT !.stopper = "closedBox"] \in Record
  BY Setters
<1>2. ObjectOK([r EXCEPT !.stopper = "closedBox"], at)
  BY DEF Record, State, Stage, Io, Resuming, ObjectOK, LifeOK, JobOK, HeldOK, BoxOK, Begun,
     InStart, Killing, started, Fresh, Position
<1> QED BY <1>1, <1>2

\* proxy.close: the compare-and-set decides.
LEMMA CloseKeeps ==
  ASSUME NEW r \in Record, NEW at \in Position, ObjectOK(r, at),
         r.stopper = "closing"
  PROVE  /\ [r EXCEPT !.closed = TRUE,
                     !.stopper = IF r.box = "none" THEN "closedBox" ELSE "boxClosing"] \in Record
         /\ ObjectOK([r EXCEPT !.closed = TRUE,
                               !.stopper = IF r.box = "none" THEN "closedBox" ELSE "boxClosing"], at)
<1> DEFINE a == [r EXCEPT !.closed = TRUE]
<1>1. a \in Record
  BY FlagSetters
<1> HIDE DEF a
<1>2. (IF r.box = "none" THEN "closedBox" ELSE "boxClosing") \in {"none", "joining", "closing", "boxClosing", "closedBox"}
  BY DEF Record, State, Stage, Io, Resuming
<1>3. [a EXCEPT !.stopper = IF r.box = "none" THEN "closedBox" ELSE "boxClosing"] \in Record
  BY <1>1, <1>2, Setters
<1>4. ObjectOK([r EXCEPT !.closed = TRUE,
                         !.stopper = IF r.box = "none" THEN "closedBox" ELSE "boxClosing"], at)
  BY DEF Record, State, Stage, Io, Resuming, ObjectOK, LifeOK, JobOK, HeldOK, BoxOK, Begun,
     InStart, Killing, started, Fresh, Position
<1> QED BY <1>3, <1>4 DEF a

\* The box is closed by the stop,
LEMMA BoxClosedKeeps ==
  ASSUME NEW r \in Record, NEW at \in Position, ObjectOK(r, at),
         r.stopper = "boxClosing", r.box # "starting"
  PROVE  /\ [r EXCEPT !.box = "closed", !.stopper = "closedBox"] \in Record
         /\ ObjectOK([r EXCEPT !.box = "closed", !.stopper = "closedBox"], at)
<1> DEFINE a == [r EXCEPT !.box = "closed"]
<1>1. a \in Record
  BY Setters
<1> HIDE DEF a
<1>2. [a EXCEPT !.stopper = "closedBox"] \in Record
  BY <1>1, Setters
<1>3. ObjectOK([r EXCEPT !.box = "closed", !.stopper = "closedBox"], at)
  BY DEF Record, State, Stage, Io, Resuming, ObjectOK, LifeOK, JobOK, HeldOK, BoxOK, Begun,
     InStart, Killing, started, Fresh, Position
<1> QED BY <1>2, <1>3 DEF a

\* The tail of stopRunner.
LEMMA FinishKeeps ==
  ASSUME NEW r \in Record, ObjectOK(r, "free"),
         r.stopper = "closedBox" \/ (r.stopper = "joining" /\ r.job = "none" /\ ~r.proxy)
  PROVE  /\ [r EXCEPT !.wakeLock = FALSE, !.listener = FALSE, !.receiver = FALSE, !.proxy = FALSE,
                     !.state = "Stopped", !.pendingStart = FALSE, !.stopper = "none"] \in Record
         /\ ObjectOK([r EXCEPT !.wakeLock = FALSE, !.listener = FALSE, !.receiver = FALSE,
                               !.proxy = FALSE, !.state = "Stopped", !.pendingStart = FALSE,
                               !.stopper = "none"], "free")
<1> DEFINE a == [r EXCEPT !.wakeLock = FALSE]
<1>1. a \in Record
  BY FlagSetters
<1> HIDE DEF a
<1> DEFINE b == [a EXCEPT !.listener = FALSE]
<1>2. b \in Record
  BY <1>1, FlagSetters
<1> HIDE DEF b
<1> DEFINE c == [b EXCEPT !.receiver = FALSE]
<1>3. c \in Record
  BY <1>2, FlagSetters
<1> HIDE DEF c
<1> DEFINE d == [c EXCEPT !.proxy = FALSE]
<1>4. d \in Record
  BY <1>3, FlagSetters
<1> HIDE DEF d
<1> DEFINE e == [d EXCEPT !.state = "Stopped"]
<1>5. e \in Record
  BY <1>4, Setters DEF State
<1> HIDE DEF e
<1> DEFINE f == [e EXCEPT !.pendingStart = FALSE]
<1>6. f \in Record
  BY <1>5, FlagSetters
<1> HIDE DEF f
<1>7. [f EXCEPT !.stopper = "none"] \in Record
  BY <1>6, Setters
<1>8. ObjectOK([r EXCEPT !.wakeLock = FALSE, !.listener = FALSE, !.receiver = FALSE,
                         !.proxy = FALSE, !.state = "Stopped", !.pendingStart = FALSE,
                         !.stopper = "none"], "free")
  BY DEF Record, State, Stage, Io, Resuming, ObjectOK, LifeOK, JobOK, HeldOK, BoxOK, Begun,
     InStart, Killing, started, Fresh, Position
<1> QED BY <1>7, <1>8 DEF a, b, c, d, e, f

\* destroyRunner: the descriptor, ...
LEMMA ReleaseKeeps ==
  ASSUME NEW r \in Record, ObjectOK(r, "free"),
         r.life = "live"
  PROVE  /\ [r EXCEPT !.life = "destroyed", !.requested = FALSE,
                     !.fd = IF r.conn THEN FALSE ELSE r.fd] \in Record
         /\ ObjectOK([r EXCEPT !.life = "destroyed", !.requested = FALSE,
                               !.fd = IF r.conn THEN FALSE ELSE r.fd], "release")
<1> DEFINE a == [r EXCEPT !.life = "destroyed"]
<1>1. a \in Record
  BY Setters
<1> HIDE DEF a
<1> DEFINE b == [a EXCEPT !.requested = FALSE]
<1>2. b \in Record
  BY <1>1, FlagSetters
<1> HIDE DEF b
<1>3. (IF r.conn THEN FALSE ELSE r.fd) \in BOOLEAN
  BY DEF Record, State, Stage, Io, Resuming
<1>4. [b EXCEPT !.fd = IF r.conn THEN FALSE ELSE r.fd] \in Record
  BY <1>2, <1>3, FlagSetters
<1>5. ObjectOK([r EXCEPT !.life = "destroyed", !.requested = FALSE,
                         !.fd = IF r.conn THEN FALSE ELSE r.fd], "release")
  BY DEF Record, State, Stage, Io, Resuming, ObjectOK, LifeOK, JobOK, HeldOK, BoxOK, Begun,
     InStart, Killing, started, Fresh, Position
<1> QED BY <1>4, <1>5 DEF a, b

\* ... the job and the receiver, ...
LEMMA DetachKeeps ==
  ASSUME NEW r \in Record, ObjectOK(r, "release")
  PROVE  /\ [r EXCEPT !.conn = FALSE, !.receiver = FALSE,
                     !.cancelled = r.cancelled \/ r.job # "none"] \in Record
         /\ ObjectOK([r EXCEPT !.conn = FALSE, !.receiver = FALSE,
                               !.cancelled = r.cancelled \/ r.job # "none"], "teardown")
<1> DEFINE a == [r EXCEPT !.conn = FALSE]
<1>1. a \in Record
  BY FlagSetters
<1> HIDE DEF a
<1> DEFINE b == [a EXCEPT !.receiver = FALSE]
<1>2. b \in Record
  BY <1>1, FlagSetters
<1> HIDE DEF b
<1>3. (r.cancelled \/ r.job # "none") \in BOOLEAN
  BY DEF Record, State, Stage, Io, Resuming
<1>4. [b EXCEPT !.cancelled = r.cancelled \/ r.job # "none"] \in Record
  BY <1>2, <1>3, FlagSetters
<1> DEFINE s == [r EXCEPT !.conn = FALSE, !.receiver = FALSE,
                            !.cancelled = r.cancelled \/ r.job # "none"]
<1>5. LifeOK(s, "teardown")
  BY DEF Record, ObjectOK, LifeOK, Fresh, started
<1>6. JobOK(s, "teardown")
  BY DEF Record, ObjectOK, LifeOK, JobOK, Begun, Killing
<1>7. HeldOK(s, "teardown") /\ BoxOK(s)
  BY DEF Record, ObjectOK, LifeOK, HeldOK, BoxOK, Begun, InStart, Killing
<1> QED BY <1>4, <1>5, <1>6, <1>7 DEF a, b, ObjectOK

\* ... and the proxy, which is handed to the background close.
LEMMA TeardownKeeps ==
  ASSUME NEW r \in Record, ObjectOK(r, "teardown")
  PROVE  /\ [r EXCEPT !.proxy = FALSE,
                     !.state = IF r.proxy /\ r.state # "Stopped" THEN "Stopping" ELSE "Stopped",
                     !.settle = r.state # "Stopped",
                     !.closer = IF r.proxy THEN "closing" ELSE "none", !.listener = FALSE,
                     !.wakeLock = FALSE] \in Record
         /\ ObjectOK([r EXCEPT !.proxy = FALSE,
                               !.state = IF r.proxy /\ r.state # "Stopped" THEN "Stopping" ELSE "Stopped",
                               !.settle = r.state # "Stopped",
                               !.closer = IF r.proxy THEN "closing" ELSE "none",
                               !.listener = FALSE, !.wakeLock = FALSE], "free")
<1> DEFINE a == [r EXCEPT !.proxy = FALSE]
<1>1. a \in Record
  BY FlagSetters
<1> HIDE DEF a
<1>2. (IF r.proxy /\ r.state # "Stopped" THEN "Stopping" ELSE "Stopped") \in State
  BY DEF Record, State, Stage, Io, Resuming
<1> DEFINE b == [a EXCEPT !.state = IF r.proxy /\ r.state # "Stopped" THEN "Stopping" ELSE "Stopped"]
<1>3. b \in Record
  BY <1>1, <1>2, Setters DEF State
<1> HIDE DEF b
<1>4. (r.state # "Stopped") \in BOOLEAN
  BY DEF Record, State, Stage, Io, Resuming
<1> DEFINE c == [b EXCEPT !.settle = r.state # "Stopped"]
<1>5. c \in Record
  BY <1>3, <1>4, FlagSetters
<1> HIDE DEF c
<1>6. (IF r.proxy THEN "closing" ELSE "none") \in {"none", "closing", "boxClosing", "settling", "done"}
  BY DEF Record, State, Stage, Io, Resuming
<1> DEFINE d == [c EXCEPT !.closer = IF r.proxy THEN "closing" ELSE "none"]
<1>7. d \in Record
  BY <1>5, <1>6, Setters
<1> HIDE DEF d
<1> DEFINE e == [d EXCEPT !.listener = FALSE]
<1>8. e \in Record
  BY <1>7, FlagSetters
<1> HIDE DEF e
<1>9. [e EXCEPT !.wakeLock = FALSE] \in Record
  BY <1>8, FlagSetters
<1>10. ObjectOK([r EXCEPT !.proxy = FALSE,
                         !.state = IF r.proxy /\ r.state # "Stopped" THEN "Stopping" ELSE "Stopped",
                         !.settle = r.state # "Stopped",
                         !.closer = IF r.proxy THEN "closing" ELSE "none", !.listener = FALSE,
                         !.wakeLock = FALSE], "free")
  BY DEF Record, State, Stage, Io, Resuming, ObjectOK, LifeOK, JobOK, HeldOK, BoxOK, Begun,
     InStart, Killing, started, Fresh, Position
<1> QED BY <1>9, <1>10 DEF a, b, c, d, e

\* The background close finds the box, or that it is being closed, or none yet.
LEMMA CloserKeeps ==
  ASSUME NEW r \in Record, NEW at \in Position, ObjectOK(r, at),
         r.closer = "closing"
  PROVE  /\ [r EXCEPT !.closed = TRUE,
                     !.closer = IF r.closed \/ r.box = "none" THEN "settling" ELSE "boxClosing"] \in Record
         /\ ObjectOK([r EXCEPT !.closed = TRUE,
                               !.closer = IF r.closed \/ r.box = "none" THEN "settling" ELSE "boxClosing"], at)
<1> DEFINE a == [r EXCEPT !.closed = TRUE]
<1>1. a \in Record
  BY FlagSetters
<1> HIDE DEF a
<1>2. (IF r.closed \/ r.box = "none" THEN "settling" ELSE "boxClosing") \in {"none", "closing", "boxClosing", "settling", "done"}
  BY DEF Record, State, Stage, Io, Resuming
<1>3. [a EXCEPT !.closer = IF r.closed \/ r.box = "none" THEN "settling" ELSE "boxClosing"] \in Record
  BY <1>1, <1>2, Setters
<1>4. ObjectOK([r EXCEPT !.closed = TRUE,
                         !.closer = IF r.closed \/ r.box = "none" THEN "settling" ELSE "boxClosing"], at)
  BY DEF Record, State, Stage, Io, Resuming, ObjectOK, LifeOK, JobOK, HeldOK, BoxOK, Begun,
     InStart, Killing, started, Fresh, Position
<1> QED BY <1>3, <1>4 DEF a

\* The box is closed by the background close.
LEMMA CloserBoxKeeps ==
  ASSUME NEW r \in Record, NEW at \in Position, ObjectOK(r, at),
         r.closer = "boxClosing", r.box # "starting"
  PROVE  /\ [r EXCEPT !.box = "closed", !.closer = "settling"] \in Record
         /\ ObjectOK([r EXCEPT !.box = "closed", !.closer = "settling"], at)
<1> DEFINE a == [r EXCEPT !.box = "closed"]
<1>1. a \in Record
  BY Setters
<1> HIDE DEF a
<1>2. [a EXCEPT !.closer = "settling"] \in Record
  BY <1>1, Setters
<1>3. ObjectOK([r EXCEPT !.box = "closed", !.closer = "settling"], at)
  BY DEF Record, State, Stage, Io, Resuming, ObjectOK, LifeOK, JobOK, HeldOK, BoxOK, Begun,
     InStart, Killing, started, Fresh, Position
<1> QED BY <1>2, <1>3 DEF a

\* The second releaseSubclassResources.
LEMMA SettleKeeps ==
  ASSUME NEW r \in Record, NEW at \in Position, ObjectOK(r, at),
         r.closer = "settling"
  PROVE  /\ [r EXCEPT !.fd = IF r.conn THEN FALSE ELSE r.fd, !.conn = FALSE, !.closer = "done"] \in Record
         /\ ObjectOK([r EXCEPT !.fd = IF r.conn THEN FALSE ELSE r.fd, !.conn = FALSE,
                               !.closer = "done"], at)
<1>1. (IF r.conn THEN FALSE ELSE r.fd) \in BOOLEAN
  BY DEF Record, State, Stage, Io, Resuming
<1> DEFINE a == [r EXCEPT !.fd = IF r.conn THEN FALSE ELSE r.fd]
<1>2. a \in Record
  BY <1>1, FlagSetters
<1> HIDE DEF a
<1> DEFINE b == [a EXCEPT !.conn = FALSE]
<1>3. b \in Record
  BY <1>2, FlagSetters
<1> HIDE DEF b
<1>4. [b EXCEPT !.closer = "done"] \in Record
  BY <1>3, Setters
<1>5. ObjectOK([r EXCEPT !.fd = IF r.conn THEN FALSE ELSE r.fd, !.conn = FALSE,
                         !.closer = "done"], at)
  BY DEF Record, State, Stage, Io, Resuming, ObjectOK, LifeOK, JobOK, HeldOK, BoxOK, Begun,
     InStart, Killing, started, Fresh, Position
<1> QED BY <1>4, <1>5 DEF a, b

\* stopRunner of an object without a job.
LEMMA StopKillKeeps ==
  ASSUME NEW r \in Record, ObjectOK(r, "free"),
         r.life = "live", r.job = "none", r.state \notin {"Stopped", "Stopping"}
  PROVE  /\ [r EXCEPT !.state = "Stopping", !.fd = IF r.conn THEN FALSE ELSE r.fd, !.conn = FALSE,
                     !.stopper = "closing"] \in Record
         /\ ObjectOK([r EXCEPT !.state = "Stopping", !.fd = IF r.conn THEN FALSE ELSE r.fd,
                               !.conn = FALSE, !.stopper = "closing"], "free")
<1> DEFINE a == [r EXCEPT !.state = "Stopping"]
<1>1. a \in Record
  BY Setters DEF State
<1> HIDE DEF a
<1>2. (IF r.conn THEN FALSE ELSE r.fd) \in BOOLEAN
  BY DEF Record, State, Stage, Io, Resuming
<1> DEFINE b == [a EXCEPT !.fd = IF r.conn THEN FALSE ELSE r.fd]
<1>3. b \in Record
  BY <1>1, <1>2, FlagSetters
<1> HIDE DEF b
<1> DEFINE c == [b EXCEPT !.conn = FALSE]
<1>4. c \in Record
  BY <1>3, FlagSetters
<1> HIDE DEF c
<1>5. [c EXCEPT !.stopper = "closing"] \in Record
  BY <1>4, Setters
<1>6. ObjectOK([r EXCEPT !.state = "Stopping", !.fd = IF r.conn THEN FALSE ELSE r.fd,
                         !.conn = FALSE, !.stopper = "closing"], "free")
  BY DEF Record, State, Stage, Io, Resuming, ObjectOK, LifeOK, JobOK, HeldOK, BoxOK, Begun,
     InStart, Killing, started, Fresh, Position
<1> QED BY <1>5, <1>6 DEF a, b, c

\* stopRunner of an object with one, which it cancels and joins.
LEMMA StopJoinKeeps ==
  ASSUME NEW r \in Record, ObjectOK(r, "free"),
         r.life = "live", r.job # "none", r.state # "Stopping"
  PROVE  /\ [r EXCEPT !.state = "Stopping", !.cancelled = TRUE, !.stopper = "joining"] \in Record
         /\ ObjectOK([r EXCEPT !.state = "Stopping", !.cancelled = TRUE, !.stopper = "joining"], "free")
<1> DEFINE a == [r EXCEPT !.state = "Stopping"]
<1>1. a \in Record
  BY Setters DEF State
<1> HIDE DEF a
<1> DEFINE b == [a EXCEPT !.cancelled = TRUE]
<1>2. b \in Record
  BY <1>1, FlagSetters
<1> HIDE DEF b
<1>3. [b EXCEPT !.stopper = "joining"] \in Record
  BY <1>2, Setters
<1>4. ObjectOK([r EXCEPT !.state = "Stopping", !.cancelled = TRUE, !.stopper = "joining"], "free")
  BY DEF Record, State, Stage, Io, Resuming, ObjectOK, LifeOK, JobOK, HeldOK, BoxOK, Begun,
     InStart, Killing, started, Fresh, Position
<1> QED BY <1>3, <1>4 DEF a, b

\* stopRunner called by the job itself, which ends.
LEMMA StopSelfKeeps ==
  ASSUME NEW r \in Record, ObjectOK(r, "free"),
         r.job \in Resuming, r.state # "Stopping"
  PROVE  /\ [r EXCEPT !.state = "Stopping", !.cancelled = FALSE, !.stopper = "joining",
                     !.job = "none", !.ok = TRUE] \in Record
         /\ ObjectOK([r EXCEPT !.state = "Stopping", !.cancelled = FALSE, !.stopper = "joining",
                               !.job = "none", !.ok = TRUE], "free")
<1> DEFINE a == [r EXCEPT !.state = "Stopping"]
<1>1. a \in Record
  BY Setters DEF State
<1> HIDE DEF a
<1> DEFINE b == [a EXCEPT !.cancelled = FALSE]
<1>2. b \in Record
  BY <1>1, FlagSetters
<1> HIDE DEF b
<1> DEFINE c == [b EXCEPT !.stopper = "joining"]
<1>3. c \in Record
  BY <1>2, Setters
<1> HIDE DEF c
<1> DEFINE d == [c EXCEPT !.job = "none"]
<1>4. d \in Record
  BY <1>3, Setters DEF Stage, Io, Resuming
<1> HIDE DEF d
<1>5. [d EXCEPT !.ok = TRUE] \in Record
  BY <1>4, FlagSetters
<1>6. ObjectOK([r EXCEPT !.state = "Stopping", !.cancelled = FALSE, !.stopper = "joining",
                         !.job = "none", !.ok = TRUE], "free")
  BY DEF Record, State, Stage, Io, Resuming, ObjectOK, LifeOK, JobOK, HeldOK, BoxOK, Begun,
     InStart, Killing, started, Fresh, Position
<1> QED BY <1>5, <1>6 DEF a, b, c, d

\* stopRunner of an object that is doing something.
LEMMA StopRunnerKeeps ==
  ASSUME NEW r \in Record, ObjectOK(r, "free"), NEW restart \in BOOLEAN,
         r.state = "Stopping" \/ (r.life = "live" /\ (r.state # "Stopped" \/ r.job # "none"))
  PROVE  /\ stopRunner(r, restart) \in Record /\ ObjectOK(stopRunner(r, restart), "free")
         /\ stopRunner(r, restart).state = "Stopping" /\ stopRunner(r, restart).life = r.life
         /\ r.pendingStart \/ restart => stopRunner(r, restart).pendingStart
         /\ r.life = "live" \/ r.stopper # "none" => stopRunner(r, restart).stopper # "none"
<1> DEFINE q == [r EXCEPT !.pendingStart = r.pendingStart \/ restart]
<1>1. r.life # "unborn" /\ (r.pendingStart \/ restart) \in BOOLEAN
  BY DEF ObjectOK, LifeOK, Fresh, Record
<1>2. q \in Record /\ ObjectOK(q, "free")
  BY <1>1, PendingKeeps DEF Position
<1>3. /\ q.state = r.state /\ q.life = r.life /\ q.job = r.job /\ q.stopper = r.stopper
      /\ r.pendingStart \/ restart => q.pendingStart
  BY DEF Record
<1>4. stopRunner(r, restart) =
        IF r.state = "Stopping" THEN q
        ELSE IF r.job = "none" THEN beginKill([q EXCEPT !.state = "Stopping"])
             ELSE [q EXCEPT !.state = "Stopping", !.cancelled = TRUE, !.stopper = "joining"]
  BY DEF stopRunner
<1> HIDE DEF q
<1>5. CASE r.state = "Stopping"
  <2>1. r.life = "live" => r.stopper # "none"
    BY <1>5 DEF ObjectOK, JobOK
  <2> QED BY <1>2, <1>3, <1>4, <1>5, <2>1
<1>6. CASE r.state # "Stopping" /\ r.job = "none"
  <2> DEFINE s == [q EXCEPT !.state = "Stopping", !.fd = IF q.conn THEN FALSE ELSE q.fd,
                            !.conn = FALSE, !.stopper = "closing"]
  <2>1. s = beginKill([q EXCEPT !.state = "Stopping"])
    BY <1>2 DEF beginKill, releaseSubclassResources, Record
  <2>2. s \in Record /\ ObjectOK(s, "free")
    BY <1>2, <1>3, <1>6, StopKillKeeps
  <2>3. /\ s.state = "Stopping" /\ s.life = q.life /\ s.pendingStart = q.pendingStart
        /\ s.stopper = "closing"
    BY <1>2 DEF Record
  <2> QED BY <1>3, <1>4, <1>6, <2>1, <2>2, <2>3
<1>7. CASE r.state # "Stopping" /\ r.job # "none"
  <2> DEFINE s == [q EXCEPT !.state = "Stopping", !.cancelled = TRUE, !.stopper = "joining"]
  <2>1. s \in Record /\ ObjectOK(s, "free")
    BY <1>2, <1>3, <1>7, StopJoinKeeps
  <2>2. /\ s.state = "Stopping" /\ s.life = q.life /\ s.pendingStart = q.pendingStart
        /\ s.stopper = "joining"
    BY <1>2 DEF Record
  <2> QED BY <1>3, <1>4, <1>7, <2>1, <2>2
<1> QED BY <1>5, <1>6, <1>7

\* stopRunner called by the connecting job.
LEMMA FromJobKeeps ==
  ASSUME NEW r \in Record, ObjectOK(r, "free"), r.job \in Resuming
  PROVE  LET s == [stopRunner(r, FALSE) EXCEPT !.job = "none", !.ok = TRUE, !.cancelled = FALSE]
         IN  /\ s \in Record /\ ObjectOK(s, "free")
             /\ s.state = "Stopping" /\ s.life = r.life /\ (r.pendingStart => s.pendingStart)
             /\ r.stopper # "none" => s.stopper # "none"
<1> DEFINE q == [r EXCEPT !.pendingStart = r.pendingStart \/ FALSE]
<1>1. r.life # "unborn" /\ (r.pendingStart \/ FALSE) \in BOOLEAN
  BY DEF ObjectOK, LifeOK, Fresh, Record, Resuming
<1>2. q \in Record /\ ObjectOK(q, "free")
  BY <1>1, PendingKeeps DEF Position
<1>3. /\ q.state = r.state /\ q.life = r.life /\ q.job = r.job /\ q.stopper = r.stopper
      /\ r.pendingStart => q.pendingStart
  BY DEF Record
<1>4. stopRunner(r, FALSE) =
        IF r.state = "Stopping" THEN q
        ELSE [q EXCEPT !.state = "Stopping", !.cancelled = TRUE, !.stopper = "joining"]
  BY DEF stopRunner, Resuming
<1> HIDE DEF q
<1>5. CASE r.state = "Stopping"
  <2> DEFINE s == [q EXCEPT !.job = "none", !.ok = TRUE, !.cancelled = FALSE]
  <2>1. s \in Record /\ ObjectOK(s, "free")
    BY <1>2, <1>3, <1>5, EndKeeps
  <2>2. /\ s.state = "Stopping" /\ s.life = q.life /\ s.pendingStart = q.pendingStart
        /\ s.stopper = q.stopper
    BY <1>2, <1>3, <1>5 DEF Record
  <2> QED BY <1>3, <1>4, <1>5, <2>1, <2>2
<1>6. CASE r.state # "Stopping"
  <2> DEFINE s == [q EXCEPT !.state = "Stopping", !.cancelled = FALSE, !.stopper = "joining",
                            !.job = "none", !.ok = TRUE]
             t == [q EXCEPT !.state = "Stopping", !.cancelled = TRUE, !.stopper = "joining"]
  <2>1. s \in Record /\ ObjectOK(s, "free")
    BY <1>2, <1>3, <1>6, StopSelfKeeps DEF Resuming
  <2>2. /\ s.state = "Stopping" /\ s.life = q.life /\ s.pendingStart = q.pendingStart
        /\ s.stopper = "joining"
    BY <1>2 DEF Record
  <2>3. s = [t EXCEPT !.job = "none", !.ok = TRUE, !.cancelled = FALSE]
    BY <1>2 DEF Record
  <2> QED BY <1>3, <1>4, <1>6, <2>1, <2>2, <2>3
<1> QED BY <1>5, <1>6

-----------------------------------------------------------------------------
(* Every step preserves what holds of the objects. *)

\* A step of an object leaves it in order, and changes no other.
Kept(i) == \E r \in Record : svc' = [svc EXCEPT ![i] = r] /\ ObjectOK(r, At(i)')

\* The main thread is inside one destroyRunner at most.
LEMMA AtPosition ==
  ASSUME NEW i \in Instance
  PROVE  /\ At(i) \in Position
         /\ MainFree => At(i) = "free"
         /\ main = <<i, "release">> => At(i) = "release"
         /\ main = <<i, "teardown">> => At(i) = "teardown"
BY NoneAssumption DEF At, Position, MainFree

\* A handler of one object that keeps it in order disturbs no other object.
LEMMA Lift ==
  ASSUME TypeOK, ObjectInv, NEW i \in Instance, Kept(i),
         \A j \in Instance \ {i} : At(j)' = At(j)
  PROVE  svc' \in [Instance -> Record] /\ ObjectInv'
<1>1. PICK r \in Record : svc' = [svc EXCEPT ![i] = r] /\ ObjectOK(r, At(i)')
  BY DEF Kept
<1>2. svc' \in [Instance -> Record] /\ svc'[i] = r /\ \A j \in Instance \ {i} : svc'[j] = svc[j]
  BY <1>1 DEF TypeOK
<1>3. ASSUME NEW j \in Instance PROVE ObjectOK(svc'[j], At(j)')
  <2>1. CASE j = i
    BY <1>1, <1>2, <2>1
  <2>2. CASE j # i
    BY <1>2, <2>2 DEF ObjectInv
  <2> QED BY <2>1, <2>2
<1> QED BY <1>2, <1>3 DEF ObjectInv

\* What a step that is no start and no stop leaves alone in a record.
Alike(r, s) ==
  /\ s.life = r.life /\ s.state = r.state
  /\ s.requested = r.requested /\ s.pendingStart = r.pendingStart
  /\ s.stopper = "none" => r.stopper = "none"
  /\ s.job = "none" => r.job = "none"

\* The coroutines at work, between a start and a stop, and after a stop.
Works(i) ==
  Reload(i) \/ ReloadSelector(i) \/ IoReturn(i) \/ PreInit(i) \/ ProxyInit(i) \/ ProxyLaunch(i)
    \/ StartVpn(i) \/ StopClose(i) \/ CloserClose(i)

\* They keep the object in order.
LEMMA WorkKeeps ==
  ASSUME IInv, NEW o \in Instance, Works(o)
  PROVE  Kept(o) /\ Alike(svc[o], svc'[o])
<1> DEFINE Goal(i) == Kept(i) /\ Alike(svc[i], svc'[i])
<1>0. /\ svc \in [Instance -> Record]
      /\ \A i \in Instance : svc[i] \in Record /\ At(i) \in Position /\ ObjectOK(svc[i], At(i))
  BY AtPosition DEF IInv, TypeOK, ObjectInv
<1>1. ASSUME NEW r \in Record, NEW at \in Position, ObjectOK(r, at), r.reloading \/ r.receiver
      PROVE  r.life # "unborn"
  BY <1>1 DEF ObjectOK, LifeOK, Fresh
<1>2. ASSUME NEW i \in Instance, Reload(i) PROVE Goal(i)
  <2>1. At(i) = "free" /\ At(i)' = "free"
    BY <1>2, AtPosition DEF Reload, Job, At
  <2>2. PICK r \in Record : r = svc[i] /\ ObjectOK(r, "free")
    BY <1>0, <2>1
  <2> DEFINE s == [r EXCEPT !.reloading = TRUE]
  <2>3. r.receiver /\ svc' = [svc EXCEPT ![i] = s]
    BY <1>2, <2>2 DEF Reload, Job
  <2>4. s \in Record /\ ObjectOK(s, "free")
    BY <2>2, <2>3, <1>1, ReloadingKeeps DEF Position
  <2>5. Alike(r, s)
    BY <2>2, <2>3 DEF Alike, Record
  <2> QED BY <1>0, <2>1, <2>2, <2>3, <2>4, <2>5 DEF Kept
<1>3. ASSUME NEW i \in Instance, ReloadSelector(i) PROVE Goal(i)
  <2>1. PICK at \in Position : at = At(i) /\ at = At(i)'
    BY <1>0, <1>3 DEF ReloadSelector, Job, At
  <2>2. PICK r \in Record : r = svc[i] /\ ObjectOK(r, at)
    BY <1>0, <2>1
  <2> DEFINE s == [r EXCEPT !.reloading = FALSE]
  <2>3. r.state = "Connected" /\ r.reloading /\ svc' = [svc EXCEPT ![i] = s]
    BY <1>3, <2>2 DEF ReloadSelector, Job
  <2>4. s \in Record /\ ObjectOK(s, at)
    BY <2>2, <2>3, <1>1, ReloadingKeeps
  <2>5. Alike(r, s)
    BY <2>2, <2>3 DEF Alike, Record
  <2> QED BY <1>0, <2>1, <2>2, <2>3, <2>4, <2>5 DEF Kept
<1>4. ASSUME NEW i \in Instance, IoReturn(i) PROVE Goal(i)
  <2>1. PICK at \in Position : at = At(i) /\ at = At(i)'
    BY <1>0, <1>4 DEF IoReturn, Job, At
  <2>2. PICK r \in Record : r = svc[i] /\ ObjectOK(r, at)
    BY <1>0, <2>1
  <2>3. \/ \E b \in BOOLEAN :
             r.job = "reading" /\ svc' = [svc EXCEPT ![i] = [r EXCEPT !.job = "read", !.ok = b]]
        \/ r.job = "killing" /\ svc' = [svc EXCEPT ![i] = [r EXCEPT !.job = "killed"]]
    BY <1>4, <2>2 DEF IoReturn, Job
  <2>4. ASSUME NEW b \in BOOLEAN, r.job = "reading",
               svc' = [svc EXCEPT ![i] = [r EXCEPT !.job = "read", !.ok = b]]
        PROVE  Goal(i)
    <3> DEFINE s == [r EXCEPT !.job = "read", !.ok = b]
    <3>1. s \in Record /\ ObjectOK(s, at)
      BY <2>2, <2>4, ReadKeeps
    <3>2. Alike(r, s)
      BY <2>2, <2>4 DEF Alike, Record
    <3> QED BY <1>0, <2>1, <2>2, <2>4, <3>1, <3>2 DEF Kept
  <2>5. ASSUME r.job = "killing",
               svc' = [svc EXCEPT ![i] = [r EXCEPT !.job = "killed"]]
        PROVE  Goal(i)
    <3> DEFINE s == [r EXCEPT !.job = "killed"]
    <3>1. s \in Record /\ ObjectOK(s, at)
      BY <2>2, <2>5, StageKeeps DEF Begun, InStart, Stage, Io, Resuming
    <3>2. Alike(r, s)
      BY <2>2, <2>5 DEF Alike, Record
    <3> QED BY <1>0, <2>1, <2>2, <2>5, <3>1, <3>2 DEF Kept
  <2> QED BY <2>3, <2>4, <2>5
<1>5. ASSUME NEW i \in Instance, PreInit(i) PROVE Goal(i)
  <2>1. At(i) = "free" /\ At(i)' = "free"
    BY <1>5, AtPosition DEF PreInit, Job, At
  <2>2. PICK r \in Record : r = svc[i] /\ ObjectOK(r, "free")
    BY <1>0, <2>1
  <2> DEFINE s == [r EXCEPT !.listener = TRUE, !.job = "init"]
  <2>3. r.job = "killed" /\ ~r.cancelled /\ svc' = [svc EXCEPT ![i] = s]
    BY <1>5, <2>2 DEF PreInit, Job
  <2>4. s \in Record /\ ObjectOK(s, "free")
    BY <2>2, <2>3, PreInitKeeps
  <2>5. Alike(r, s)
    BY <2>2, <2>3 DEF Alike, Record
  <2> QED BY <1>0, <2>1, <2>2, <2>3, <2>4, <2>5 DEF Kept
<1>6. ASSUME NEW i \in Instance, ProxyInit(i) PROVE Goal(i)
  <2>1. PICK at \in Position : at = At(i) /\ at = At(i)'
    BY <1>0, <1>6 DEF ProxyInit, Job, At
  <2>2. PICK r \in Record : r = svc[i] /\ ObjectOK(r, at)
    BY <1>0, <2>1
  <2>3. \/ /\ r.job = "init"
           /\ svc' = [svc EXCEPT ![i] =
                [r EXCEPT !.box = "new", !.job = "loaded"]]
        \/ /\ r.job = "init"
           /\ svc' = [svc EXCEPT ![i] =
                [r EXCEPT !.job = "inited", !.ok = FALSE]]
        \/ \E b \in BOOLEAN :
             /\ r.job = "loaded"
             /\ svc' = [svc EXCEPT ![i] =
                  [r EXCEPT !.box = IF r.closed THEN "closed" ELSE r.box, !.job = "inited",
                            !.ok = b]]
    BY <1>6, <2>2 DEF ProxyInit, Job, closeAfterLateInit
  <2>4. ASSUME r.job = "init",
               svc' = [svc EXCEPT ![i] = [r EXCEPT !.box = "new", !.job = "loaded"]]
        PROVE  Goal(i)
    <3> DEFINE s == [r EXCEPT !.box = "new", !.job = "loaded"]
    <3>1. s \in Record /\ ObjectOK(s, at)
      BY <2>2, <2>4, LoadedKeeps
    <3>2. Alike(r, s)
      BY <2>2, <2>4 DEF Alike, Record
    <3> QED BY <1>0, <2>1, <2>2, <2>4, <3>1, <3>2 DEF Kept
  <2>5. ASSUME r.job = "init",
               svc' = [svc EXCEPT ![i] = [r EXCEPT !.job = "inited", !.ok = FALSE]]
        PROVE  Goal(i)
    <3> DEFINE s == [r EXCEPT !.job = "inited", !.ok = FALSE]
    <3>1. s \in Record /\ ObjectOK(s, at)
      BY <2>2, <2>5, StageOkKeeps DEF Begun, InStart, Stage, Io, Resuming
    <3>2. Alike(r, s)
      BY <2>2, <2>5 DEF Alike, Record
    <3> QED BY <1>0, <2>1, <2>2, <2>5, <3>1, <3>2 DEF Kept
  <2>6. ASSUME NEW b \in BOOLEAN, r.job = "loaded",
               svc' = [svc EXCEPT ![i] =
                 [r EXCEPT !.box = IF r.closed THEN "closed" ELSE r.box, !.job = "inited",
                           !.ok = b]]
        PROVE  Goal(i)
    <3> DEFINE s == [r EXCEPT !.box = IF r.closed THEN "closed" ELSE r.box, !.job = "inited",
                              !.ok = b]
    <3>1. s \in Record /\ ObjectOK(s, at)
      BY <2>2, <2>6, InitedKeeps
    <3>2. Alike(r, s)
      BY <2>2, <2>6 DEF Alike, Record
    <3> QED BY <1>0, <2>1, <2>2, <2>6, <3>1, <3>2 DEF Kept
  <2> QED BY <2>3, <2>4, <2>5, <2>6
<1>7. ASSUME NEW i \in Instance, ProxyLaunch(i) PROVE Goal(i)
  <2>1. PICK at \in Position : at = At(i) /\ at = At(i)'
    BY <1>0, <1>7 DEF ProxyLaunch, Job, At
  <2>2. PICK r \in Record : r = svc[i] /\ ObjectOK(r, at)
    BY <1>0, <2>1
  <2>3. \/ r.job = "launch" /\ svc' = [svc EXCEPT ![i] = [r EXCEPT !.job = "launched"]]
        \/ r.job = "launch" /\ svc' = [svc EXCEPT ![i] = [r EXCEPT !.job = "prestart"]]
        \/ /\ r.job = "prestart"
           /\ svc' = [svc EXCEPT ![i] =
                [r EXCEPT !.job = "launched", !.ok = FALSE]]
        \/ r.job = "prestart" /\ svc' = [svc EXCEPT ![i] = [r EXCEPT !.job = "launched"]]
        \/ /\ r.job = "prestart" /\ r.box = "new"
           /\ svc' = [svc EXCEPT ![i] =
                [r EXCEPT !.job = "starting", !.box = "starting"]]
    BY <1>7, <2>2 DEF ProxyLaunch, Job
  <2>4. ASSUME r.job = "launch",
               svc' = [svc EXCEPT ![i] = [r EXCEPT !.job = "launched"]]
        PROVE  Goal(i)
    <3> DEFINE s == [r EXCEPT !.job = "launched"]
    <3>1. s \in Record /\ ObjectOK(s, at)
      BY <2>2, <2>4, StageKeeps DEF Begun, InStart, Stage, Io, Resuming
    <3>2. Alike(r, s)
      BY <2>2, <2>4 DEF Alike, Record
    <3> QED BY <1>0, <2>1, <2>2, <2>4, <3>1, <3>2 DEF Kept
  <2>5. ASSUME r.job = "launch",
               svc' = [svc EXCEPT ![i] = [r EXCEPT !.job = "prestart"]]
        PROVE  Goal(i)
    <3> DEFINE s == [r EXCEPT !.job = "prestart"]
    <3>1. s \in Record /\ ObjectOK(s, at)
      BY <2>2, <2>5, StageKeeps DEF Begun, InStart, Stage, Io, Resuming
    <3>2. Alike(r, s)
      BY <2>2, <2>5 DEF Alike, Record
    <3> QED BY <1>0, <2>1, <2>2, <2>5, <3>1, <3>2 DEF Kept
  <2>6. ASSUME r.job = "prestart",
               svc' = [svc EXCEPT ![i] = [r EXCEPT !.job = "launched", !.ok = FALSE]]
        PROVE  Goal(i)
    <3> DEFINE s == [r EXCEPT !.job = "launched", !.ok = FALSE]
    <3>1. s \in Record /\ ObjectOK(s, at)
      BY <2>2, <2>6, StageOkKeeps DEF Begun, InStart, Stage, Io, Resuming
    <3>2. Alike(r, s)
      BY <2>2, <2>6 DEF Alike, Record
    <3> QED BY <1>0, <2>1, <2>2, <2>6, <3>1, <3>2 DEF Kept
  <2>7. ASSUME r.job = "prestart",
               svc' = [svc EXCEPT ![i] = [r EXCEPT !.job = "launched"]]
        PROVE  Goal(i)
    <3> DEFINE s == [r EXCEPT !.job = "launched"]
    <3>1. s \in Record /\ ObjectOK(s, at)
      BY <2>2, <2>7, StageKeeps DEF Begun, InStart, Stage, Io, Resuming
    <3>2. Alike(r, s)
      BY <2>2, <2>7 DEF Alike, Record
    <3> QED BY <1>0, <2>1, <2>2, <2>7, <3>1, <3>2 DEF Kept
  <2>8. ASSUME r.job = "prestart", r.box = "new",
               svc' = [svc EXCEPT ![i] = [r EXCEPT !.job = "starting", !.box = "starting"]]
        PROVE  Goal(i)
    <3> DEFINE s == [r EXCEPT !.job = "starting", !.box = "starting"]
    <3>1. s \in Record /\ ObjectOK(s, at)
      BY <2>2, <2>8, StartingKeeps
    <3>2. Alike(r, s)
      BY <2>2, <2>8 DEF Alike, Record
    <3> QED BY <1>0, <2>1, <2>2, <2>8, <3>1, <3>2 DEF Kept
  <2> QED BY <2>3, <2>4, <2>5, <2>6, <2>7, <2>8
<1>8. ASSUME NEW i \in Instance, StartVpn(i) PROVE Goal(i)
  <2>1. PICK at \in Position : at = At(i) /\ at = At(i)'
    BY <1>0, <1>8 DEF StartVpn, Job, At
  <2>2. PICK r \in Record : r = svc[i] /\ ObjectOK(r, at)
    BY <1>0, <2>1
  <2>3. \/ r.job = "starting" /\ svc' = [svc EXCEPT ![i] = [r EXCEPT !.job = "establishing"]]
        \/ /\ r.job \in {"starting", "establishing"}
           /\ svc' = [svc EXCEPT ![i] =
                [r EXCEPT !.job = "up", !.ok = FALSE]]
        \/ /\ r.job = "establishing"
           /\ svc' = [svc EXCEPT ![i] =
                [r EXCEPT !.conn = TRUE, !.fd = TRUE, !.job = "tun"]]
        \/ r.job = "tun" /\ svc' = [svc EXCEPT ![i] = [r EXCEPT !.job = "up"]]
        \/ /\ r.job = "tun"
           /\ svc' = [svc EXCEPT ![i] =
                [r EXCEPT !.fd = FALSE, !.conn = FALSE, !.job = "up", !.ok = FALSE]]
    BY <1>8, <2>2 DEF StartVpn, Job
  <2>4. ASSUME r.job = "starting",
               svc' = [svc EXCEPT ![i] = [r EXCEPT !.job = "establishing"]]
        PROVE  Goal(i)
    <3> DEFINE s == [r EXCEPT !.job = "establishing"]
    <3>1. s \in Record /\ ObjectOK(s, at)
      BY <2>2, <2>4, InStartKeeps DEF Begun, InStart, Stage, Io, Resuming
    <3>2. Alike(r, s)
      BY <2>2, <2>4 DEF Alike, Record
    <3> QED BY <1>0, <2>1, <2>2, <2>4, <3>1, <3>2 DEF Kept
  <2>5. ASSUME r.job \in {"starting", "establishing"},
               svc' = [svc EXCEPT ![i] = [r EXCEPT !.job = "up", !.ok = FALSE]]
        PROVE  Goal(i)
    <3> DEFINE s == [r EXCEPT !.job = "up", !.ok = FALSE]
    <3>1. s \in Record /\ ObjectOK(s, at)
      BY <2>2, <2>5, InStartOkKeeps DEF Begun, InStart, Stage, Io, Resuming
    <3>2. Alike(r, s)
      BY <2>2, <2>5 DEF Alike, Record
    <3> QED BY <1>0, <2>1, <2>2, <2>5, <3>1, <3>2 DEF Kept
  <2>6. ASSUME r.job = "establishing",
               svc' = [svc EXCEPT ![i] = [r EXCEPT !.conn = TRUE, !.fd = TRUE, !.job = "tun"]]
        PROVE  Goal(i)
    <3> DEFINE s == [r EXCEPT !.conn = TRUE, !.fd = TRUE, !.job = "tun"]
    <3>1. s \in Record /\ ObjectOK(s, at)
      BY <2>2, <2>6, TunKeeps
    <3>2. Alike(r, s)
      BY <2>2, <2>6 DEF Alike, Record
    <3> QED BY <1>0, <2>1, <2>2, <2>6, <3>1, <3>2 DEF Kept
  <2>7. ASSUME r.job = "tun",
               svc' = [svc EXCEPT ![i] = [r EXCEPT !.job = "up"]]
        PROVE  Goal(i)
    <3> DEFINE s == [r EXCEPT !.job = "up"]
    <3>1. s \in Record /\ ObjectOK(s, at)
      BY <2>2, <2>7, InStartKeeps DEF Begun, InStart, Stage, Io, Resuming
    <3>2. Alike(r, s)
      BY <2>2, <2>7 DEF Alike, Record
    <3> QED BY <1>0, <2>1, <2>2, <2>7, <3>1, <3>2 DEF Kept
  <2>8. ASSUME r.job = "tun",
               svc' = [svc EXCEPT ![i] =
                 [r EXCEPT !.fd = FALSE, !.conn = FALSE, !.job = "up", !.ok = FALSE]]
        PROVE  Goal(i)
    <3> DEFINE s == [r EXCEPT !.fd = FALSE, !.conn = FALSE, !.job = "up", !.ok = FALSE]
    <3>1. s \in Record /\ ObjectOK(s, at)
      BY <2>2, <2>8, UntunKeeps
    <3>2. Alike(r, s)
      BY <2>2, <2>8 DEF Alike, Record
    <3> QED BY <1>0, <2>1, <2>2, <2>8, <3>1, <3>2 DEF Kept
  <2> QED BY <2>3, <2>4, <2>5, <2>6, <2>7, <2>8
<1>9. ASSUME NEW i \in Instance, StopClose(i) PROVE Goal(i)
  <2>1. PICK at \in Position : at = At(i) /\ at = At(i)'
    BY <1>0, <1>9 DEF StopClose, Job, At
  <2>2. PICK r \in Record : r = svc[i] /\ ObjectOK(r, at)
    BY <1>0, <2>1
  <2>3. \/ /\ r.stopper = "closing" /\ (~r.proxy \/ r.closed)
           /\ svc' = [svc EXCEPT ![i] =
                [r EXCEPT !.stopper = "closedBox"]]
        \/ /\ r.stopper = "closing"
           /\ svc' = [svc EXCEPT ![i] =
                [r EXCEPT !.closed = TRUE,
                          !.stopper = IF r.box = "none" THEN "closedBox" ELSE "boxClosing"]]
        \/ /\ r.stopper = "boxClosing" /\ r.box # "starting"
           /\ svc' = [svc EXCEPT ![i] =
                [r EXCEPT !.box = "closed", !.stopper = "closedBox"]]
    BY <1>9, <2>2 DEF StopClose, Job
  <2>4. ASSUME r.stopper = "closing", (~r.proxy \/ r.closed),
               svc' = [svc EXCEPT ![i] = [r EXCEPT !.stopper = "closedBox"]]
        PROVE  Goal(i)
    <3> DEFINE s == [r EXCEPT !.stopper = "closedBox"]
    <3>1. s \in Record /\ ObjectOK(s, at)
      BY <2>2, <2>4, SkipCloseKeeps
    <3>2. Alike(r, s)
      BY <2>2, <2>4 DEF Alike, Record
    <3> QED BY <1>0, <2>1, <2>2, <2>4, <3>1, <3>2 DEF Kept
  <2>5. ASSUME r.stopper = "closing",
               svc' = [svc EXCEPT ![i] =
                 [r EXCEPT !.closed = TRUE,
                           !.stopper = IF r.box = "none" THEN "closedBox" ELSE "boxClosing"]]
        PROVE  Goal(i)
    <3> DEFINE s == [r EXCEPT !.closed = TRUE,
                              !.stopper = IF r.box = "none" THEN "closedBox" ELSE "boxClosing"]
    <3>1. s \in Record /\ ObjectOK(s, at)
      BY <2>2, <2>5, CloseKeeps
    <3>2. Alike(r, s)
      BY <2>2, <2>5 DEF Alike, Record
    <3> QED BY <1>0, <2>1, <2>2, <2>5, <3>1, <3>2 DEF Kept
  <2>6. ASSUME r.stopper = "boxClosing", r.box # "starting",
               svc' = [svc EXCEPT ![i] = [r EXCEPT !.box = "closed", !.stopper = "closedBox"]]
        PROVE  Goal(i)
    <3> DEFINE s == [r EXCEPT !.box = "closed", !.stopper = "closedBox"]
    <3>1. s \in Record /\ ObjectOK(s, at)
      BY <2>2, <2>6, BoxClosedKeeps
    <3>2. Alike(r, s)
      BY <2>2, <2>6 DEF Alike, Record
    <3> QED BY <1>0, <2>1, <2>2, <2>6, <3>1, <3>2 DEF Kept
  <2> QED BY <2>3, <2>4, <2>5, <2>6
<1>10. ASSUME NEW i \in Instance, CloserClose(i) PROVE Goal(i)
  <2>1. PICK at \in Position : at = At(i) /\ at = At(i)'
    BY <1>0, <1>10 DEF CloserClose, Job, At
  <2>2. PICK r \in Record : r = svc[i] /\ ObjectOK(r, at)
    BY <1>0, <2>1
  <2>3. \/ /\ r.closer = "closing"
           /\ svc' = [svc EXCEPT ![i] =
                [r EXCEPT !.closed = TRUE,
                          !.closer = IF r.closed \/ r.box = "none" THEN "settling" ELSE "boxClosing"]]
        \/ /\ r.closer = "boxClosing" /\ r.box # "starting"
           /\ svc' = [svc EXCEPT ![i] =
                [r EXCEPT !.box = "closed", !.closer = "settling"]]
    BY <1>10, <2>2 DEF CloserClose, Job
  <2>4. ASSUME r.closer = "closing",
               svc' = [svc EXCEPT ![i] =
                 [r EXCEPT !.closed = TRUE,
                           !.closer = IF r.closed \/ r.box = "none" THEN "settling" ELSE "boxClosing"]]
        PROVE  Goal(i)
    <3> DEFINE s == [r EXCEPT !.closed = TRUE,
                              !.closer = IF r.closed \/ r.box = "none" THEN "settling" ELSE "boxClosing"]
    <3>1. s \in Record /\ ObjectOK(s, at)
      BY <2>2, <2>4, CloserKeeps
    <3>2. Alike(r, s)
      BY <2>2, <2>4 DEF Alike, Record
    <3> QED BY <1>0, <2>1, <2>2, <2>4, <3>1, <3>2 DEF Kept
  <2>5. ASSUME r.closer = "boxClosing", r.box # "starting",
               svc' = [svc EXCEPT ![i] = [r EXCEPT !.box = "closed", !.closer = "settling"]]
        PROVE  Goal(i)
    <3> DEFINE s == [r EXCEPT !.box = "closed", !.closer = "settling"]
    <3>1. s \in Record /\ ObjectOK(s, at)
      BY <2>2, <2>5, CloserBoxKeeps
    <3>2. Alike(r, s)
      BY <2>2, <2>5 DEF Alike, Record
    <3> QED BY <1>0, <2>1, <2>2, <2>5, <3>1, <3>2 DEF Kept
  <2> QED BY <2>3, <2>4, <2>5
<1> QED BY <1>2, <1>3, <1>4, <1>5, <1>6, <1>7, <1>8, <1>9, <1>10 DEF Works

\* A handler or a step of a coroutine of one object.
Handles(i) == Environment(i) \/ ReloadStep(i) \/ JobStep(i) \/ StopStep(i) \/ DestroyStep(i)

\* It keeps the object in order.
LEMMA HandlerKeeps ==
  ASSUME IInv, NEW o \in Instance, Handles(o)
  PROVE  Kept(o) /\ \A j \in Instance \ {o} : At(j)' = At(j)
<1>0. /\ TypeOK /\ ObjectInv
      /\ \A i \in Instance : svc[i] \in Record /\ At(i) \in Position /\ ObjectOK(svc[i], At(i))
  BY AtPosition DEF IInv, TypeOK, ObjectInv
<1>1. ASSUME NEW i \in Instance, MainFree, main' = main
      PROVE  At(i) = "free" /\ At(i)' = "free"
  BY <1>1, AtPosition DEF At
<1>2. ASSUME NEW r \in Record, ObjectOK(r, "free"), r.receiver
      PROVE  r.life = "live" /\ r.state # "Stopped"
  BY <1>2 DEF ObjectOK, LifeOK, HeldOK, Fresh, Record
<1>3. ASSUME NEW i \in Instance, Close(i) PROVE Kept(i)
  <2>1. At(i) = "free" /\ At(i)' = "free"
    BY <1>1, <1>3 DEF Close
  <2>2. PICK r \in Record : r = svc[i] /\ ObjectOK(r, "free")
    BY <1>0, <2>1
  <2>3. r.receiver /\ svc' = [svc EXCEPT ![i] = stopRunner(r, FALSE)]
    BY <1>3, <2>2 DEF Close
  <2>4. stopRunner(r, FALSE) \in Record /\ ObjectOK(stopRunner(r, FALSE), "free")
    BY <1>2, <2>2, <2>3, StopRunnerKeeps
  <2> QED BY <2>1, <2>3, <2>4 DEF Kept
<1>4. ASSUME NEW i \in Instance, OnStartCommand(i) PROVE Kept(i)
  <2>1. At(i) = "free" /\ At(i)' = "free"
    BY <1>1, <1>4 DEF OnStartCommand
  <2>2. PICK s \in Record : s = svc[i] /\ ObjectOK(s, "free")
    BY <1>0, <2>1
  <2> DEFINE r == [s EXCEPT !.life = "live", !.requested = TRUE]
             idle == r.state = "Stopped" /\ r.job = "none"
  <2>3. /\ s.life # "destroyed"
        /\ \/ idle /\ svc' = [svc EXCEPT ![i] = [r EXCEPT !.job = "reading"]]
           \/ svc' = [svc EXCEPT ![i] =
                [r EXCEPT !.pendingStart = r.pendingStart \/ r.state = "Stopping"]]
           \/ ~idle /\ svc' = [svc EXCEPT ![i] = stopRunner(r, FALSE)]
           \/ svc' = [svc EXCEPT ![i] = [r EXCEPT !.requested = FALSE]]
    BY <1>4, <2>2 DEF OnStartCommand
  <2>4. r \in Record /\ ObjectOK(r, "free")
    BY <2>2, <2>3, BornKeeps
  <2>5. r.life = "live" /\ (r.pendingStart \/ r.state = "Stopping") \in BOOLEAN
    BY <2>2 DEF Record
  <2> HIDE DEF r
  <2>6. CASE idle /\ svc' = [svc EXCEPT ![i] = [r EXCEPT !.job = "reading"]]
    <3>1. [r EXCEPT !.job = "reading"] \in Record /\ ObjectOK([r EXCEPT !.job = "reading"], "free")
      BY <2>4, <2>5, <2>6, ReadingKeeps
    <3> QED BY <2>1, <2>6, <3>1 DEF Kept
  <2>7. CASE svc' = [svc EXCEPT ![i] =
               [r EXCEPT !.pendingStart = r.pendingStart \/ r.state = "Stopping"]]
    <3> DEFINE t == [r EXCEPT !.pendingStart = r.pendingStart \/ r.state = "Stopping"]
    <3>1. t \in Record /\ ObjectOK(t, "free")
      BY <2>4, <2>5, PendingKeeps DEF Position
    <3> QED BY <2>1, <2>7, <3>1 DEF Kept
  <2>8. CASE ~idle /\ svc' = [svc EXCEPT ![i] = stopRunner(r, FALSE)]
    <3>1. stopRunner(r, FALSE) \in Record /\ ObjectOK(stopRunner(r, FALSE), "free")
      BY <2>4, <2>5, <2>8, StopRunnerKeeps
    <3> QED BY <2>1, <2>8, <3>1 DEF Kept
  <2>9. CASE svc' = [svc EXCEPT ![i] = [r EXCEPT !.requested = FALSE]]
    <3>1. [r EXCEPT !.requested = FALSE] \in Record /\ ObjectOK([r EXCEPT !.requested = FALSE], "free")
      BY <2>4, <2>5, RequestedKeeps DEF Position
    <3> QED BY <2>1, <2>9, <3>1 DEF Kept
  <2> QED BY <2>3, <2>6, <2>7, <2>8, <2>9
<1>5. ASSUME NEW r \in Record, NEW at \in Position, ObjectOK(r, at), r.reloading
      PROVE  r.life # "unborn" /\ (at = "free" /\ r.state # "Stopping" /\ r.state # "Stopped" => r.life = "live")
  BY <1>5 DEF ObjectOK, LifeOK, JobOK, Fresh, started, Record, State
<1>6. ASSUME NEW i \in Instance, ReloadMain(i) PROVE Kept(i)
  <2>1. At(i) = "free" /\ At(i)' = "free"
    BY <1>1, <1>6 DEF ReloadMain
  <2>2. PICK s \in Record : s = svc[i] /\ ObjectOK(s, "free")
    BY <1>0, <2>1
  <2> DEFINE r == [s EXCEPT !.reloading = FALSE]
  <2>3. /\ s.reloading
        /\ \/ \E v \in BOOLEAN : svc' = [svc EXCEPT ![i] = [r EXCEPT !.requested = r.requested /\ v]]
           \/ r.state \in {"Connecting", "Connected", "Stopping"}
              /\ svc' = [svc EXCEPT ![i] = stopRunner(r, TRUE)]
    <3>0. r.state = s.state
      BY <2>2 DEF Record
    <3>1. CASE s.state # "Stopped"
      BY <1>6, <2>2, <3>0, <3>1 DEF ReloadMain, canStop
    <3>2. CASE s.state = "Stopped"
      <4>1. PICK accepted \in BOOLEAN : svc' = [svc EXCEPT ![i] = startRunner(r, i, accepted)]
        BY <1>6, <2>2, <3>0, <3>2 DEF ReloadMain, canStop
      <4>2. PICK v \in BOOLEAN : v = ~(accepted /\ serviceClass # classOf(i))
        OBVIOUS
      <4>3. startRunner(r, i, accepted) = [r EXCEPT !.requested = r.requested /\ v]
        BY <4>2 DEF startRunner
      <4> QED BY <1>6, <2>2, <4>1, <4>3 DEF ReloadMain
    <3> QED BY <3>1, <3>2
  <2>4. s.life # "unborn" /\ (s.state # "Stopping" /\ s.state # "Stopped" => s.life = "live")
    BY <1>5, <2>2, <2>3 DEF Position
  <2>5. r \in Record /\ ObjectOK(r, "free")
    BY <2>2, <2>4, ReloadingKeeps DEF Position
  <2>6. r.life = s.life /\ r.state = s.state /\ \A v \in BOOLEAN : (r.requested /\ v) \in BOOLEAN
    BY <2>2 DEF Record
  <2> HIDE DEF r
  <2>7. ASSUME NEW v \in BOOLEAN, svc' = [svc EXCEPT ![i] = [r EXCEPT !.requested = r.requested /\ v]]
        PROVE  Kept(i)
    <3> DEFINE t == [r EXCEPT !.requested = r.requested /\ v]
    <3>1. t \in Record /\ ObjectOK(t, "free")
      BY <2>4, <2>5, <2>6, RequestedKeeps DEF Position
    <3> QED BY <2>1, <2>7, <3>1 DEF Kept
  <2>8. CASE r.state \in {"Connecting", "Connected", "Stopping"}
             /\ svc' = [svc EXCEPT ![i] = stopRunner(r, TRUE)]
    <3>1. stopRunner(r, TRUE) \in Record /\ ObjectOK(stopRunner(r, TRUE), "free")
      BY <2>4, <2>5, <2>6, <2>8, StopRunnerKeeps
    <3> QED BY <2>1, <2>8, <3>1 DEF Kept
  <2> QED BY <2>3, <2>7, <2>8
<1>7. ASSUME NEW i \in Instance, JobFailed(i) PROVE Kept(i)
  <2>1. At(i) = "free" /\ At(i)' = "free"
    BY <1>1, <1>7 DEF JobFailed, StopRunnerFromJob
  <2>2. PICK r \in Record : r = svc[i] /\ ObjectOK(r, "free")
    BY <1>0, <2>1
  <2> DEFINE s == [stopRunner(r, FALSE) EXCEPT !.job = "none", !.ok = TRUE, !.cancelled = FALSE]
  <2>3. r.job \in Resuming /\ svc' = [svc EXCEPT ![i] = s]
    BY <1>7, <2>2 DEF JobFailed, StopRunnerFromJob, Resuming
  <2>4. s \in Record /\ ObjectOK(s, "free")
    BY <2>2, <2>3, FromJobKeeps
  <2> QED BY <2>1, <2>3, <2>4 DEF Kept
<1>8. ASSUME NEW i \in Instance, StopFinish(i) PROVE Kept(i)
  <2>1. At(i) = "free" /\ At(i)' = "free"
    BY <1>1, <1>8 DEF StopFinish
  <2>2. PICK s \in Record : s = svc[i] /\ ObjectOK(s, "free")
    BY <1>0, <2>1
  <2> DEFINE r == [s EXCEPT !.wakeLock = FALSE, !.listener = FALSE, !.receiver = FALSE,
                            !.proxy = FALSE, !.state = "Stopped", !.pendingStart = FALSE,
                            !.stopper = "none"]
  <2>3. PICK accepted \in BOOLEAN :
          /\ s.stopper = "closedBox" \/ (s.stopper = "joining" /\ s.job = "none" /\ ~s.proxy)
          /\ svc' = [svc EXCEPT ![i] = IF accepted THEN startRunner(r, i, TRUE)
                                       ELSE [r EXCEPT !.requested = FALSE]]
    BY <1>8, <2>2 DEF StopFinish
  <2>4. r \in Record /\ ObjectOK(r, "free")
    BY <2>2, <2>3, FinishKeeps
  <2>5. r.life = s.life /\ r.requested \in BOOLEAN
    BY <2>2 DEF Record
  <2>6. s.life # "unborn"
    BY <2>2, <2>3 DEF ObjectOK, LifeOK, Fresh
  <2> HIDE DEF r
  <2>7. PICK v \in BOOLEAN : svc' = [svc EXCEPT ![i] = [r EXCEPT !.requested = v]]
    <3>1. CASE accepted
      <4>1. PICK v \in BOOLEAN : v = (r.requested /\ ~(serviceClass # classOf(i)))
        BY <2>5
      <4> QED BY <2>3, <3>1, <4>1 DEF startRunner
    <3> QED BY <2>3, <3>1
  <2>8. [r EXCEPT !.requested = v] \in Record /\ ObjectOK([r EXCEPT !.requested = v], "free")
    BY <2>4, <2>5, <2>6, RequestedKeeps DEF Position
  <2> QED BY <2>1, <2>7, <2>8 DEF Kept
<1>9. ASSUME NEW i \in Instance, DestroyRelease(i) PROVE Kept(i)
  <2>1. At(i) = "free" /\ At(i)' = "release"
    BY <1>9, AtPosition DEF DestroyRelease, At
  <2>2. PICK r \in Record : r = svc[i] /\ ObjectOK(r, "free")
    BY <1>0, <2>1
  <2> DEFINE s == [r EXCEPT !.life = "destroyed", !.requested = FALSE,
                            !.fd = IF r.conn THEN FALSE ELSE r.fd]
  <2>3. r.life = "live" /\ svc' = [svc EXCEPT ![i] = s]
    <3>1. svc[i].life = "live" /\ svc' = [svc EXCEPT ![i] =
            [svc[i] EXCEPT !.life = "destroyed", !.requested = FALSE,
                           !.fd = IF svc[i].conn THEN FALSE ELSE svc[i].fd]]
      BY <1>9 DEF DestroyRelease
    <3> QED BY <2>2, <3>1
  <2>4. s \in Record /\ ObjectOK(s, "release")
    BY <2>2, <2>3, ReleaseKeeps
  <2> QED BY <2>1, <2>3, <2>4 DEF Kept
<1>10. ASSUME NEW i \in Instance, DestroyDetach(i) PROVE Kept(i)
  <2>1. At(i) = "release" /\ At(i)' = "teardown"
    BY <1>10, AtPosition DEF DestroyDetach, At
  <2>2. PICK r \in Record : r = svc[i] /\ ObjectOK(r, "release")
    BY <1>0, <2>1
  <2> DEFINE s == [r EXCEPT !.conn = FALSE, !.receiver = FALSE,
                            !.cancelled = r.cancelled \/ r.job # "none"]
  <2>3. svc' = [svc EXCEPT ![i] = s]
    BY <1>10, <2>2 DEF DestroyDetach
  <2>4. s \in Record /\ ObjectOK(s, "teardown")
    BY <2>2, <2>3, DetachKeeps
  <2> QED BY <2>1, <2>3, <2>4 DEF Kept
<1>11. ASSUME NEW i \in Instance, DestroyTeardown(i) PROVE Kept(i)
  <2>1. At(i) = "teardown" /\ At(i)' = "free"
    BY <1>11, AtPosition, NoneAssumption DEF DestroyTeardown, At
  <2>2. PICK r \in Record : r = svc[i] /\ ObjectOK(r, "teardown")
    BY <1>0, <2>1
  <2> DEFINE s == [r EXCEPT !.proxy = FALSE,
                            !.state = IF r.proxy /\ r.state # "Stopped" THEN "Stopping" ELSE "Stopped",
                            !.settle = r.state # "Stopped",
                            !.closer = IF r.proxy THEN "closing" ELSE "none",
                            !.listener = FALSE, !.wakeLock = FALSE]
  <2>3. svc' = [svc EXCEPT ![i] = s]
    BY <1>11, <2>2 DEF DestroyTeardown
  <2>4. s \in Record /\ ObjectOK(s, "free")
    BY <2>2, <2>3, TeardownKeeps
  <2> QED BY <2>1, <2>3, <2>4 DEF Kept
<1>12. ASSUME NEW i \in Instance, BoxStarted(i) PROVE Kept(i)
  <2>1. PICK at \in Position : at = At(i) /\ at = At(i)'
    BY <1>0, <1>12 DEF BoxStarted, Job, At
  <2>2. PICK r \in Record : r = svc[i] /\ ObjectOK(r, at)
    BY <1>0, <2>1
  <2>3. PICK b \in BOOLEAN :
          InStart(r.job) /\ svc' = [svc EXCEPT ![i] =
            [r EXCEPT !.box = "started", !.job = "launched", !.ok = r.ok /\ b]]
    BY <1>12, <2>2 DEF BoxStarted, Job, InStart
  <2>4. PICK v \in BOOLEAN : v = (r.ok /\ b)
    BY DEF Record
  <2> DEFINE s == [r EXCEPT !.box = "started", !.job = "launched", !.ok = v]
  <2>5. svc' = [svc EXCEPT ![i] = s]
    BY <2>3, <2>4
  <2>6. s \in Record /\ ObjectOK(s, at)
    BY <2>2, <2>3, StartedKeeps
  <2> QED BY <2>1, <2>5, <2>6 DEF Kept
<1>13. ASSUME NEW i \in Instance, JobCancelled(i) PROVE Kept(i)
  <2>1. At(i) = "free" /\ At(i)' = "free"
    BY <1>13, AtPosition DEF JobCancelled, Job, At
  <2>2. PICK r \in Record : r = svc[i] /\ ObjectOK(r, "free")
    BY <1>0, <2>1
  <2> DEFINE s == [r EXCEPT !.job = "none", !.ok = TRUE, !.cancelled = FALSE]
  <2>3. r.job \in Resuming /\ r.cancelled /\ svc' = [svc EXCEPT ![i] = s]
    BY <1>13, <2>2 DEF JobCancelled, Job
  <2>4. s \in Record /\ ObjectOK(s, "free")
    BY <2>2, <2>3, EndKeeps
  <2> QED BY <2>1, <2>3, <2>4 DEF Kept
<1>14. ASSUME NEW i \in Instance, StartConnecting(i) PROVE Kept(i)
  <2>1. At(i) = "free" /\ At(i)' = "free"
    BY <1>14, AtPosition DEF StartConnecting, Job, At
  <2>2. PICK r \in Record : r = svc[i] /\ ObjectOK(r, "free")
    BY <1>0, <2>1
  <2> DEFINE s == [r EXCEPT !.proxy = TRUE, !.closed = FALSE, !.box = "none", !.receiver = TRUE,
                            !.state = "Connecting", !.job = "killing"]
  <2>3. r.job = "read" /\ ~r.cancelled /\ svc' = [svc EXCEPT ![i] = s]
    BY <1>14, <2>2 DEF StartConnecting, Job
  <2>4. s \in Record /\ ObjectOK(s, "free")
    BY <2>2, <2>3, ConnectingKeeps
  <2> QED BY <2>1, <2>3, <2>4 DEF Kept
<1>15. ASSUME NEW i \in Instance, StartProcesses(i) PROVE Kept(i)
  <2>1. At(i) = "free" /\ At(i)' = "free"
    BY <1>15, AtPosition DEF StartProcesses, Job, At
  <2>2. PICK r \in Record : r = svc[i] /\ ObjectOK(r, "free")
    BY <1>0, <2>1
  <2> DEFINE s == [r EXCEPT !.job = "launch"]
  <2>3. r.job = "inited" /\ svc' = [svc EXCEPT ![i] = s]
    BY <1>15, <2>2 DEF StartProcesses, Job
  <2>4. s \in Record /\ ObjectOK(s, "free")
    BY <2>2, <2>3, StageKeeps DEF Begun, InStart, Stage, Io, Resuming, Position
  <2> QED BY <2>1, <2>3, <2>4 DEF Kept
<1>16. ASSUME NEW i \in Instance, Connected(i) PROVE Kept(i)
  <2>1. At(i) = "free" /\ At(i)' = "free"
    BY <1>16, AtPosition DEF Connected, Job, At
  <2>2. PICK r \in Record : r = svc[i] /\ ObjectOK(r, "free")
    BY <1>0, <2>1
  <2> DEFINE s == [r EXCEPT !.state = "Connected", !.wakeLock = TRUE, !.job = "none"]
  <2>3. r.job = "launched" /\ ~r.cancelled /\ svc' = [svc EXCEPT ![i] = s]
    BY <1>16, <2>2 DEF Connected, Job
  <2>4. s \in Record /\ ObjectOK(s, "free")
    BY <2>2, <2>3, ConnectedKeeps
  <2> QED BY <2>1, <2>3, <2>4 DEF Kept
<1>17. ASSUME NEW i \in Instance, StopJoined(i) PROVE Kept(i)
  <2>1. At(i) = "free" /\ At(i)' = "free"
    BY <1>17, AtPosition DEF StopJoined, Job, At
  <2>2. PICK r \in Record : r = svc[i] /\ ObjectOK(r, "free")
    BY <1>0, <2>1
  <2> DEFINE s == [r EXCEPT !.fd = IF r.conn THEN FALSE ELSE r.fd, !.conn = FALSE,
                            !.stopper = "closing"]
  <2>3. r.stopper = "joining" /\ r.job = "none" /\ r.proxy /\ svc' = [svc EXCEPT ![i] = s]
    BY <1>17, <2>2 DEF StopJoined, Job, beginKill, releaseSubclassResources
  <2>4. s \in Record /\ ObjectOK(s, "free")
    BY <2>2, <2>3, KillKeeps
  <2> QED BY <2>1, <2>3, <2>4 DEF Kept
<1>18. ASSUME NEW i \in Instance, CloserSettle(i) PROVE Kept(i)
  <2>1. PICK at \in Position : at = At(i) /\ at = At(i)'
    BY <1>0, <1>18 DEF CloserSettle, Job, At
  <2>2. PICK r \in Record : r = svc[i] /\ ObjectOK(r, at)
    BY <1>0, <2>1
  <2> DEFINE s == [r EXCEPT !.fd = IF r.conn THEN FALSE ELSE r.fd, !.conn = FALSE,
                            !.closer = "done"]
  <2>3. r.closer = "settling" /\ svc' = [svc EXCEPT ![i] = s]
    BY <1>18, <2>2 DEF CloserSettle, Job, releaseSubclassResources
  <2>4. s \in Record /\ ObjectOK(s, at)
    BY <2>2, <2>3, SettleKeeps
  <2> QED BY <2>1, <2>3, <2>4 DEF Kept
<1>19. Kept(o)
  BY <1>3, <1>4, <1>6, <1>7, <1>8, <1>9, <1>10, <1>11, <1>12, <1>13, <1>14, <1>15, <1>16, <1>17,
     <1>18, WorkKeeps
     DEF Handles, Works, Environment, ReloadStep, JobStep, StopStep, DestroyStep
<1>20. main' = main \/ {main, main'} \subseteq {None, <<o, "release">>, <<o, "teardown">>}
  BY DEF Handles, Environment, ReloadStep, JobStep, StopStep, DestroyStep, OnStartCommand,
     Close, Reload, DestroyRelease, ReloadSelector, ReloadMain, IoReturn, JobCancelled,
     JobFailed, StopRunnerFromJob, StartConnecting, PreInit, ProxyInit, StartProcesses,
     ProxyLaunch, StartVpn, BoxStarted, Connected, StopJoined, StopClose, StopFinish,
     DestroyDetach, DestroyTeardown, CloserClose, CloserSettle, Job, MainFree
<1>21. \A j \in Instance \ {o} : At(j)' = At(j)
  BY <1>20, NoneAssumption DEF At
<1> QED BY <1>19, <1>21

-----------------------------------------------------------------------------
(* Every step preserves what the objects have in common. *)

\* The operations of the registry.
LEMMA RegistryEffect ==
  ASSUME NEW g \in Registry, NEW i \in Instance
  PROVE  /\ claimBase(g, i) \in Registry
         /\ claimBase(g, i).base = i /\ claimBase(g, i).vpn = g.vpn
         /\ claimBase(g, i).state = g.state
         /\ claimVpn(g, i) \in Registry
         /\ claimVpn(g, i).base = g.base /\ claimVpn(g, i).vpn = i
         /\ claimVpn(g, i).state = g.state
         /\ releaseBase(g, i) \in Registry
         /\ releaseBase(g, i).base = IF g.base = i THEN None ELSE g.base
         /\ releaseBase(g, i).vpn = g.vpn /\ releaseBase(g, i).state = g.state
         /\ releaseVpn(g, i) \in Registry
         /\ releaseVpn(g, i).vpn \in {g.vpn, None} \ {i}
         /\ releaseVpn(g, i).base = g.base /\ releaseVpn(g, i).state = g.state
         /\ settleStoppedIfUnclaimed(g) \in Registry
         /\ settleStoppedIfUnclaimed(g).base = g.base /\ settleStoppedIfUnclaimed(g).vpn = g.vpn
         /\ g.base # None => settleStoppedIfUnclaimed(g).state = g.state
<1> USE NoneAssumption DEF Registry, State
<1>1. /\ claimBase(g, i) \in Registry
      /\ claimBase(g, i).base = i /\ claimBase(g, i).vpn = g.vpn
      /\ claimBase(g, i).state = g.state
  BY DEF claimBase
<1>2. /\ claimVpn(g, i) \in Registry
      /\ claimVpn(g, i).base = g.base /\ claimVpn(g, i).vpn = i
      /\ claimVpn(g, i).state = g.state
  BY DEF claimVpn
<1>3. /\ releaseBase(g, i) \in Registry
      /\ releaseBase(g, i).base = IF g.base = i THEN None ELSE g.base
      /\ releaseBase(g, i).vpn = g.vpn /\ releaseBase(g, i).state = g.state
  BY DEF releaseBase, releasedBy
<1>4. /\ releaseVpn(g, i) \in Registry
      /\ releaseVpn(g, i).vpn \in {g.vpn, None} \ {i}
      /\ releaseVpn(g, i).base = g.base /\ releaseVpn(g, i).state = g.state
  BY DEF releaseVpn, releasedBy
<1>5. /\ settleStoppedIfUnclaimed(g) \in Registry
      /\ settleStoppedIfUnclaimed(g).base = g.base /\ settleStoppedIfUnclaimed(g).vpn = g.vpn
      /\ g.base # None => settleStoppedIfUnclaimed(g).state = g.state
  BY DEF settleStoppedIfUnclaimed
<1> QED BY <1>1, <1>2, <1>3, <1>4, <1>5

\* Writing the state leaves the registrations alone, and the state of another owner.
LEMMA StateEffect ==
  ASSUME NEW g \in Registry, NEW i \in Instance, NEW s \in State,
         NEW h \in {g, setState(g, i, s)}
  PROVE  /\ h \in Registry /\ h.base = g.base /\ h.vpn = g.vpn
         /\ h.state \in {g.state, s}
         /\ g.base \notin {None, i} => h.state = g.state
BY DEF setState, mayWriteState, Registry

\* stopRunner gives both registrations of its object up.
LEMMA StopEffect ==
  ASSUME NEW g \in Registry, NEW i \in Instance, NEW r
  PROVE  /\ stopRunnerReg(g, i, r) \in Registry
         /\ stopRunnerReg(g, i, r).base = IF g.base = i THEN None ELSE g.base
         /\ stopRunnerReg(g, i, r).vpn \in {g.vpn, None} \ {i}
         /\ g.base \notin {None, i} => stopRunnerReg(g, i, r).state = g.state
<1> DEFINE b == releaseBase(g, i)
           v == releaseVpn(b, i)
<1>1. /\ b \in Registry /\ b.base = IF g.base = i THEN None ELSE g.base
      /\ b.vpn = g.vpn /\ b.state = g.state
  BY RegistryEffect
<1> HIDE DEF b
<1>2. v \in Registry /\ v.base = b.base /\ v.vpn \in {g.vpn, None} \ {i} /\ v.state = b.state
  BY <1>1, RegistryEffect
<1> HIDE DEF v
<1>3. stopRunnerReg(g, i, r) = changeState(v, i, r, "Stopping", FALSE)
  BY DEF stopRunnerReg, v, b
<1>4. "Stopping" \in State
  BY DEF State
<1> DEFINE c == changeState(v, i, r, "Stopping", FALSE)
<1>5. /\ c \in Registry /\ c.base = v.base /\ c.vpn = v.vpn
      /\ v.base \notin {None, i} => c.state = v.state
  <2>1. c \in {v, setState(v, i, "Stopping")}
    BY DEF changeState
  <2> HIDE DEF c
  <2> QED BY <1>2, <1>4, <2>1, StateEffect
<1> QED BY <1>1, <1>2, <1>3, <1>5

\* What a handler does to the shared state: another owner keeps its registration and its
\* state, and gives them up only to a claim; its own it writes with its own state.
Owns(i) ==
  /\ reg.base \notin {None, i} =>
       reg'.base # None /\ (reg'.base = reg.base => reg'.state = reg.state)
  /\ reg.base = i /\ reg'.base = i => reg'.state \in {reg.state, svc'[i].state}
  /\ reg.base = i /\ reg'.base = None /\ svc'[i].life = "live" =>
       svc'[i].state = "Stopping" \/ (svc'[i].state = "Stopped" /\ svc'[i].job = "none")

\* A start that is still owed after the step is recorded, with a stop under way.
Remembers(i) ==
  /\ owed' \subseteq owed \cup {i}
  /\ i \in owed' => svc'[i].pendingStart /\ svc'[i].stopper # "none"

\* What a handler of an object owes to the others: it registers only its own object, alive,
\* and a start it takes from the framework is one for its class.
Sound(i) ==
  /\ Owns(i) /\ Remembers(i)
  /\ reg' \in Registry /\ reg'.base \in {reg.base, None, i} /\ reg'.vpn \in {reg.vpn, None, i}
  /\ reg'.base = i => svc'[i].life = "live" \/ At(i)' = "release"
  /\ reg'.vpn = i => svc'[i].life = "live" /\ started(svc'[i].state) /\ i \in VpnInstance
  /\ svc'[i].life = "live" /\ svc[i].life # "live" =>
       \A k \in Instance : classOf(k) = classOf(i) => svc[k].life # "live"
  /\ \/ requests \subseteq requests' /\ requests' \subseteq requests \cup Class
     \/ requests' = requests \ {classOf(i)} /\ svc'[i].life = "live"
  /\ Resting(svc'[i]) => classOf(i) \in requests'

\* That is enough.
LEMMA SoundLift ==
  ASSUME IInv, NEW i \in Instance, Kept(i), Sound(i),
         \A j \in Instance \ {i} : At(j)' = At(j)
  PROVE  OneLive' /\ RegistryInv' /\ RequestInv' /\ OwedInv'
<1>1. \A j \in Instance \ {i} : svc'[j] = svc[j]
  BY DEF Kept, IInv, TypeOK
<1>2. OneLive'
  BY <1>1 DEF Sound, IInv, OneLive
<1>3. RegistryInv'
  BY <1>1, NoneAssumption DEF Sound, IInv, RegistryInv
<1>4. RequestInv'
  <2> SUFFICES ASSUME NEW j \in Instance, Resting(svc'[j]) PROVE classOf(j) \in requests'
    BY DEF RequestInv
  <2>1. CASE j = i
    BY <2>1 DEF Sound
  <2>2. CASE j # i
    <3>1. Resting(svc[j]) /\ classOf(j) \in requests
      BY <1>1, <2>2 DEF IInv, RequestInv
    <3>2. svc'[i].life = "live" => classOf(i) # classOf(j)
      BY <1>1, <1>2, <2>2, <3>1 DEF OneLive, Resting
    <3> QED BY <3>1, <3>2 DEF Sound
  <2> QED BY <2>1, <2>2
<1>5. OwedInv'
  BY <1>1 DEF Sound, Remembers, IInv, TypeOK, OwedInv
<1> QED BY <1>2, <1>3, <1>4, <1>5

\* The steps that touch neither the registry nor the requests, and change no state.
Quiet(i) ==
  /\ reg' = reg /\ requests' = requests /\ owed' = owed /\ At(i)' = At(i)
  /\ svc'[i].life = svc[i].life /\ svc'[i].state = svc[i].state
  /\ svc'[i].pendingStart = svc[i].pendingStart
  /\ svc'[i].stopper = "none" => svc[i].stopper = "none"
  /\ Resting(svc'[i]) => Resting(svc[i])

LEMMA QuietIsSound ==
  ASSUME IInv, NEW i \in Instance, Quiet(i)
  PROVE  Sound(i)
BY NoneAssumption DEF Quiet, Sound, Owns, Remembers, IInv, TypeOK, RegistryInv, RequestInv,
   OwedInv

\* Every handler is sound.
LEMMA HandlerSound ==
  ASSUME IInv, NEW o \in Instance, Handles(o)
  PROVE  Sound(o)
<1>0. /\ \A i \in Instance : svc[i] \in Record /\ ObjectOK(svc[i], At(i))
      /\ svc \in [Instance -> Record] /\ reg \in Registry /\ requests \subseteq Class
      /\ mode \in Class /\ RegistryInv /\ RequestInv
  BY DEF IInv, TypeOK, ObjectInv
\* Steps that leave the starts alone.
<1>a. ASSUME NEW i \in Instance, owed' = owed, svc[i].pendingStart => svc'[i].pendingStart,
             svc[i].stopper # "none" => svc'[i].stopper # "none"
      PROVE  Remembers(i)
  BY <1>a DEF IInv, OwedInv, Remembers
\* Steps of a job that write a state in which the object is started.
<1>1. ASSUME NEW i \in Instance, NEW s \in State, started(s), reg' \in {reg, setState(reg, i, s)},
             svc'[i].life = svc[i].life, svc'[i].state = s,
             Remembers(i), requests' = requests, At(i)' = At(i)
      PROVE  Sound(i)
  <2>1. /\ reg' \in Registry /\ reg'.base = reg.base /\ reg'.vpn = reg.vpn
        /\ reg'.state \in {reg.state, s}
        /\ reg.base \notin {None, i} => reg'.state = reg.state
    BY <1>0, <1>1, StateEffect
  <2> QED BY <1>0, <1>1, <2>1, NoneAssumption
      DEF Sound, Owns, RegistryInv, started, Resting
\* Steps that stop the object.
<1>2. ASSUME NEW i \in Instance, NEW r, reg' = stopRunnerReg(reg, i, r),
             svc'[i].life = svc[i].life, svc'[i].state = "Stopping",
             Remembers(i),
             requests' = requests \/ (requests' = requests \ {classOf(i)} /\ svc'[i].life = "live")
      PROVE  Sound(i)
  <2>1. /\ reg' \in Registry /\ reg'.base = (IF reg.base = i THEN None ELSE reg.base)
        /\ reg'.vpn \in {reg.vpn, None} \ {i}
        /\ reg.base \notin {None, i} => reg'.state = reg.state
    BY <1>0, <1>2, StopEffect
  <2> QED BY <1>2, <2>1, NoneAssumption DEF Sound, Owns, Resting
<1>3. ASSUME NEW i \in Instance, JobCancelled(i) PROVE Sound(i)
  <2>1. Quiet(i)
    BY <1>0, <1>3 DEF JobCancelled, Job, Quiet, At, Resting, Record, ObjectOK, JobOK, Resuming
  <2> QED BY <2>1, QuietIsSound
<1>4. ASSUME NEW i \in Instance, BoxStarted(i) PROVE Sound(i)
  <2>1. Quiet(i)
    BY <1>0, <1>4 DEF BoxStarted, Job, Quiet, At, Resting, Record
  <2> QED BY <2>1, QuietIsSound
<1>5. ASSUME NEW i \in Instance, StopJoined(i) PROVE Sound(i)
  <2>1. Quiet(i)
    BY <1>0, <1>5 DEF StopJoined, beginKill, releaseSubclassResources, Job, Quiet, At, Resting,
       Record
  <2> QED BY <2>1, QuietIsSound
<1>6. ASSUME NEW i \in Instance, Works(i) PROVE Sound(i)
  <2>1. Alike(svc[i], svc'[i])
    BY <1>6, WorkKeeps
  <2>2. UNCHANGED <<reg, requests, main, owed>>
    BY <1>6 DEF Works, Reload, ReloadSelector, IoReturn, PreInit, ProxyInit, ProxyLaunch,
       StartVpn, StopClose, CloserClose, Job
  <2>3. Quiet(i)
    BY <2>1, <2>2 DEF Quiet, Alike, Resting, At
  <2> QED BY <2>3, QuietIsSound
<1>7. ASSUME NEW i \in Instance, StartConnecting(i) PROVE Sound(i)
  <2>1. PICK r \in Record : r = svc[i] /\ ObjectOK(r, "free")
    BY <1>0, <1>7, AtPosition DEF StartConnecting
  <2>2. svc'[i] = [r EXCEPT !.proxy = TRUE, !.closed = FALSE, !.box = "none", !.receiver = TRUE,
                            !.state = "Connecting", !.job = "killing"]
    BY <1>0, <1>7, <2>1 DEF StartConnecting
  <2>3. /\ svc'[i].life = r.life /\ svc'[i].state = "Connecting" /\ svc'[i].job = "killing"
        /\ svc'[i].pendingStart = r.pendingStart /\ svc'[i].stopper = r.stopper
    BY <2>2 DEF Record
  <2>4. reg' \in {reg, setState(reg, i, "Connecting")} /\ "Connecting" \in State
    BY <1>7 DEF StartConnecting, changeState, State
  <2>5. requests' = requests /\ owed' = owed /\ At(i)' = At(i)
    BY <1>7 DEF StartConnecting, At
  <2>6. Remembers(i)
    BY <1>a, <2>1, <2>3, <2>5
  <2> QED BY <1>1, <2>1, <2>3, <2>4, <2>5, <2>6 DEF started
<1>8. ASSUME NEW i \in Instance, Connected(i) PROVE Sound(i)
  <2>1. PICK r \in Record : r = svc[i] /\ ObjectOK(r, "free")
    BY <1>0, <1>8, AtPosition DEF Connected
  <2>2. svc'[i] = [r EXCEPT !.state = "Connected", !.wakeLock = TRUE, !.job = "none"]
    BY <1>0, <1>8, <2>1 DEF Connected
  <2>3. /\ svc'[i].life = r.life /\ svc'[i].state = "Connected"
        /\ svc'[i].pendingStart = r.pendingStart /\ svc'[i].stopper = r.stopper
    BY <2>2 DEF Record
  <2>4. reg' \in {reg, setState(reg, i, "Connected")} /\ "Connected" \in State
    BY <1>8 DEF Connected, changeState, State
  <2>5. requests' = requests /\ owed' = owed /\ At(i)' = At(i)
    BY <1>8 DEF Connected, At
  <2>6. Remembers(i)
    BY <1>a, <2>1, <2>3, <2>5
  <2> QED BY <1>1, <2>1, <2>3, <2>4, <2>5, <2>6 DEF started
<1>9. ASSUME NEW i \in Instance, StartProcesses(i) PROVE Sound(i)
  <2>1. PICK r \in Record : r = svc[i] /\ ObjectOK(r, "free")
    BY <1>0, <1>9, AtPosition DEF StartProcesses
  <2>2. svc'[i] = [r EXCEPT !.job = "launch"] /\ r.job = "inited" /\ ~r.cancelled
    BY <1>0, <1>9, <2>1 DEF StartProcesses
  <2>3. /\ svc'[i].life = r.life /\ svc'[i].state = r.state /\ svc'[i].job = "launch"
        /\ svc'[i].pendingStart = r.pendingStart /\ svc'[i].stopper = r.stopper
    BY <2>2 DEF Record
  <2>4. r.life = "live" /\ started(r.state)
    BY <2>1, <2>2 DEF ObjectOK, LifeOK, JobOK, HeldOK, Begun, Killing, Fresh, started, Record,
       State
  <2>5. /\ reg' \in Registry /\ reg'.base = reg.base /\ reg'.state = reg.state
        /\ reg'.vpn = reg.vpn \/ (reg'.vpn = i /\ i \in VpnInstance)
    <3>1. reg' = IF i \in VpnInstance THEN claimVpn(reg, i) ELSE reg
      BY <1>9 DEF StartProcesses
    <3>2. /\ claimVpn(reg, i) \in Registry /\ claimVpn(reg, i).base = reg.base
          /\ claimVpn(reg, i).vpn = i /\ claimVpn(reg, i).state = reg.state
      BY <1>0, RegistryEffect
    <3>3. CASE i \in VpnInstance
      BY <3>1, <3>2, <3>3
    <3>4. CASE i \notin VpnInstance
      BY <1>0, <3>1, <3>4
    <3> QED BY <3>3, <3>4
  <2>6. requests' = requests /\ owed' = owed /\ At(i)' = At(i)
    BY <1>9 DEF StartProcesses, At
  <2>7. Remembers(i)
    BY <1>a, <2>1, <2>3, <2>6
  <2> QED BY <1>0, <2>1, <2>3, <2>4, <2>5, <2>6, <2>7, NoneAssumption
      DEF Sound, Owns, RegistryInv, Resting
<1>10. ASSUME NEW i \in Instance, Close(i) PROVE Sound(i)
  <2>1. PICK r \in Record : r = svc[i] /\ ObjectOK(r, "free")
    BY <1>0, <1>10, AtPosition DEF Close
  <2>2. r.receiver /\ svc'[i] = stopRunner(r, FALSE)
    BY <1>0, <1>10, <2>1 DEF Close
  <2>3. r.life = "live" /\ r.state # "Stopped"
    BY <2>1, <2>2 DEF ObjectOK, LifeOK, HeldOK, Fresh, Record
  <2>4. /\ svc'[i].life = r.life /\ svc'[i].state = "Stopping"
        /\ r.pendingStart => svc'[i].pendingStart
        /\ svc'[i].stopper # "none"
    BY <2>1, <2>2, <2>3, StopRunnerKeeps
  <2>5. reg' = stopRunnerReg(reg, i, r) /\ requests' = requests /\ owed' = owed
    BY <1>10, <2>1 DEF Close
  <2>6. Remembers(i)
    BY <1>a, <2>1, <2>4, <2>5
  <2> QED BY <1>2, <2>1, <2>3, <2>4, <2>5, <2>6
<1>11. ASSUME NEW i \in Instance, JobFailed(i) PROVE Sound(i)
  <2>1. PICK r \in Record : r = svc[i] /\ ObjectOK(r, "free")
    BY <1>0, <1>11, AtPosition DEF JobFailed
  <2> DEFINE s == [stopRunner(r, FALSE) EXCEPT !.job = "none", !.ok = TRUE, !.cancelled = FALSE]
  <2>2. r.job \in Resuming /\ svc'[i] = s
    BY <1>0, <1>11, <2>1 DEF JobFailed, StopRunnerFromJob, Resuming
  <2>3. /\ s.life = r.life /\ s.state = "Stopping" /\ (r.pendingStart => s.pendingStart)
        /\ r.stopper # "none" => s.stopper # "none"
    BY <2>1, <2>2, FromJobKeeps
  <2>4. reg' = stopRunnerReg(reg, i, r) /\ requests' = requests /\ owed' = owed
    BY <1>11, <2>1 DEF JobFailed, StopRunnerFromJob
  <2> HIDE DEF s
  <2>5. Remembers(i)
    BY <1>a, <2>1, <2>2, <2>3, <2>4
  <2> QED BY <1>2, <2>1, <2>2, <2>3, <2>4, <2>5
<1>12. ASSUME NEW i \in Instance, ReloadMain(i) PROVE Sound(i)
  <2>1. PICK q \in Record : q = svc[i] /\ ObjectOK(q, "free")
    BY <1>0, <1>12, AtPosition DEF ReloadMain
  <2> DEFINE r == [q EXCEPT !.reloading = FALSE]
  <2>2. /\ r.life = q.life /\ r.state = q.state /\ r.pendingStart = q.pendingStart
        /\ r.job = q.job /\ r.requested = q.requested /\ r.stopper = q.stopper /\ r \in Record
    BY <2>1 DEF Record
  <2>3. q.reloading /\ q.life # "unborn"
    BY <1>12, <2>1 DEF ReloadMain, ObjectOK, LifeOK, Fresh
  <2>4. CASE q.state = "Stopped"
    <3>1. PICK accepted \in BOOLEAN :
            /\ svc'[i] = startRunner(r, i, accepted)
            /\ requests' = startRunnerRequests(accepted)
            /\ reg' = reg /\ main' = main /\ owed' = owed
      BY <1>0, <1>12, <2>1, <2>2, <2>4 DEF ReloadMain, canStop
    <3> HIDE DEF r
    <3>2. /\ svc'[i].life = q.life /\ svc'[i].state = q.state /\ svc'[i].job = q.job
          /\ svc'[i].pendingStart = q.pendingStart /\ svc'[i].stopper = q.stopper
          /\ svc'[i].requested => q.requested /\ (accepted => serviceClass = classOf(i))
      <4>1. svc'[i] = [r EXCEPT !.requested =
                         r.requested /\ ~(accepted /\ serviceClass # classOf(i))]
        BY <3>1 DEF startRunner
      <4>2. /\ svc'[i].life = r.life /\ svc'[i].state = r.state /\ svc'[i].job = r.job
            /\ svc'[i].pendingStart = r.pendingStart /\ svc'[i].stopper = r.stopper
            /\ svc'[i].requested = (r.requested /\ ~(accepted /\ serviceClass # classOf(i)))
        BY <2>2, <4>1 DEF Record
      <4> QED BY <2>2, <4>2
    <3>3. /\ requests \subseteq requests' /\ requests' \subseteq requests \cup Class
          /\ accepted => serviceClass \in requests'
      BY <3>1, <1>0 DEF startRunnerRequests, serviceClass
    <3>4. Resting(svc'[i]) => classOf(i) \in requests'
      BY <1>0, <2>1, <3>2, <3>3 DEF Resting, RequestInv
    <3>5. At(i)' = At(i)
      BY <3>1 DEF At
    <3>6. Remembers(i)
      BY <1>a, <2>1, <3>1, <3>2
    <3> QED BY <1>0, <2>1, <3>1, <3>2, <3>3, <3>4, <3>5, <3>6, NoneAssumption
        DEF Sound, Owns, RegistryInv
  <2>5. CASE q.state # "Stopped"
    <3>1. /\ r.state \in {"Connecting", "Connected", "Stopping"} /\ requests' = requests
          /\ svc'[i] = stopRunner(r, TRUE) /\ reg' = stopRunnerReg(reg, i, r)
          /\ owed' = IF r.life = "live" THEN owed \cup {i} ELSE owed
      BY <1>0, <1>12, <2>1, <2>2, <2>5 DEF ReloadMain, canStop
    <3>2. q.state = "Stopping" \/ q.life = "live"
      BY <2>1, <2>2, <2>3, <3>1 DEF ObjectOK, LifeOK, started, Record
    <3>3. ObjectOK(r, "free")
      BY <2>1, <2>3, ReloadingKeeps DEF Position
    <3> HIDE DEF r
    <3>4. /\ svc'[i].life = q.life /\ svc'[i].state = "Stopping"
          /\ svc'[i].pendingStart
          /\ q.life = "live" \/ q.stopper # "none" => svc'[i].stopper # "none"
      <4>1. r.state = "Stopping" \/ (r.life = "live" /\ (r.state # "Stopped" \/ r.job # "none"))
        BY <2>2, <3>1, <3>2
      <4>2. /\ stopRunner(r, TRUE).state = "Stopping" /\ stopRunner(r, TRUE).life = r.life
            /\ stopRunner(r, TRUE).pendingStart
            /\ r.life = "live" \/ r.stopper # "none" => stopRunner(r, TRUE).stopper # "none"
        BY <2>2, <3>3, <4>1, StopRunnerKeeps
      <4> QED BY <2>2, <3>1, <4>2
    <3>5. Remembers(i)
      BY <2>1, <2>2, <3>1, <3>4 DEF Remembers, IInv, OwedInv
    <3> QED BY <1>2, <2>1, <3>1, <3>4, <3>5
  <2> QED BY <2>4, <2>5
<1>13. ASSUME NEW i \in Instance, OnStartCommand(i) PROVE Sound(i)
  <2>1. PICK q \in Record : q = svc[i] /\ ObjectOK(q, "free")
    BY <1>0, <1>13, AtPosition DEF OnStartCommand
  <2> DEFINE r == [q EXCEPT !.life = "live", !.requested = TRUE]
             idle == r.state = "Stopped" /\ r.job = "none"
             t == [r EXCEPT !.pendingStart = r.pendingStart \/ r.state = "Stopping"]
  <2>2. /\ q.life \in {"live", "unborn"} /\ requests' = requests \ {classOf(i)}
        /\ q.life = "unborn" => \A k \in Instance : classOf(k) = classOf(i) => svc[k].life # "live"
    BY <1>13, <2>1 DEF OnStartCommand
  <2>3. r \in Record /\ ObjectOK(r, "free")
    BY <2>1, <2>2, BornKeeps
  <2>4. /\ r.life = "live" /\ r.state = q.state /\ r.job = q.job /\ r.pendingStart = q.pendingStart
        /\ r.stopper = q.stopper /\ (q.life = "live" \/ idle)
    BY <2>1, <2>2 DEF ObjectOK, LifeOK, Fresh, Record
  <2>5. \/ /\ reg' = claimBase(reg, i)
           /\ svc'[i] = IF idle THEN [r EXCEPT !.job = "reading"] ELSE t
           /\ owed' = IF r.state = "Stopping" THEN owed \cup {i} ELSE owed
        \/ /\ ~idle /\ reg' = stopRunnerReg(reg, i, r) /\ svc'[i] = stopRunner(r, FALSE)
           /\ owed' = owed
        \/ /\ idle /\ reg' = setState(stopRunnerReg(reg, i, r), i, "Stopped")
           /\ svc'[i] = [r EXCEPT !.requested = FALSE] /\ owed' = owed
    BY <1>0, <1>13, <2>1 DEF OnStartCommand
  <2> HIDE DEF r
  <2>6. CASE /\ reg' = claimBase(reg, i)
             /\ svc'[i] = IF idle THEN [r EXCEPT !.job = "reading"] ELSE t
             /\ owed' = IF r.state = "Stopping" THEN owed \cup {i} ELSE owed
    <3>1. /\ svc'[i].life = "live" /\ svc'[i].state = r.state
          /\ r.pendingStart \/ r.state = "Stopping" => svc'[i].pendingStart
          /\ svc'[i].stopper = r.stopper
          /\ svc'[i].state = "Stopped" => svc'[i].job # "none"
      BY <2>3, <2>4, <2>6 DEF Record
    <3>2. /\ reg' \in Registry /\ reg'.base = i /\ reg'.vpn = reg.vpn /\ reg'.state = reg.state
      BY <1>0, <2>6, RegistryEffect
    <3>3. reg.vpn = i => started(r.state) /\ i \in VpnInstance
      BY <1>0, <2>1, <2>4 DEF RegistryInv
    <3>4. r.state = "Stopping" => r.stopper # "none"
      BY <2>3, <2>4 DEF ObjectOK, JobOK
    <3>5. Remembers(i)
      BY <2>1, <2>4, <2>6, <3>1, <3>4 DEF Remembers, IInv, OwedInv
    <3> QED BY <2>1, <2>2, <2>4, <3>1, <3>2, <3>3, <3>5, NoneAssumption DEF Sound, Owns,
               Resting
  <2>7. CASE /\ ~idle /\ reg' = stopRunnerReg(reg, i, r) /\ svc'[i] = stopRunner(r, FALSE)
             /\ owed' = owed
    <3>1. /\ svc'[i].life = "live" /\ svc'[i].state = "Stopping"
          /\ r.pendingStart => svc'[i].pendingStart
          /\ svc'[i].stopper # "none"
      <4>1. r.state = "Stopping" \/ (r.life = "live" /\ (r.state # "Stopped" \/ r.job # "none"))
        BY <2>4, <2>7
      <4>2. /\ stopRunner(r, FALSE).state = "Stopping" /\ stopRunner(r, FALSE).life = r.life
            /\ r.pendingStart => stopRunner(r, FALSE).pendingStart
            /\ r.life = "live" => stopRunner(r, FALSE).stopper # "none"
        BY <2>3, <4>1, StopRunnerKeeps
      <4> QED BY <2>4, <2>7, <4>2
    <3>2. q.life = "live"
      BY <2>4, <2>7
    <3>3. Remembers(i)
      BY <1>a, <2>1, <2>4, <2>7, <3>1
    <3> QED BY <1>2, <2>1, <2>2, <2>4, <2>7, <3>1, <3>2, <3>3
  <2>8. CASE /\ idle /\ reg' = setState(stopRunnerReg(reg, i, r), i, "Stopped")
             /\ svc'[i] = [r EXCEPT !.requested = FALSE] /\ owed' = owed
    <3>1. /\ svc'[i].life = "live" /\ svc'[i].state = "Stopped" /\ svc'[i].job = "none"
          /\ svc'[i].pendingStart = r.pendingStart /\ svc'[i].stopper = r.stopper
          /\ ~svc'[i].requested
      BY <2>3, <2>4, <2>8 DEF Record
    <3>2. PICK g : g = stopRunnerReg(reg, i, r)
      OBVIOUS
    <3>3. /\ g \in Registry /\ g.base = (IF reg.base = i THEN None ELSE reg.base)
          /\ g.vpn \in {reg.vpn, None} \ {i} /\ (reg.base \notin {None, i} => g.state = reg.state)
      BY <1>0, <3>2, StopEffect
    <3>4. "Stopped" \in State /\ reg' \in {g, setState(g, i, "Stopped")}
      BY <2>8, <3>2 DEF State
    <3>5. /\ reg' \in Registry /\ reg'.base = g.base /\ reg'.vpn = g.vpn
          /\ g.base \notin {None, i} => reg'.state = g.state
      BY <3>3, <3>4, StateEffect
    <3>6. Remembers(i)
      BY <1>a, <2>1, <2>4, <2>8, <3>1
    <3> QED BY <2>1, <2>2, <2>4, <3>1, <3>3, <3>5, <3>6, NoneAssumption DEF Sound, Owns,
               Resting
  <2> QED BY <2>5, <2>6, <2>7, <2>8
<1>14. ASSUME NEW i \in Instance, StopFinish(i) PROVE Sound(i)
  <2>1. PICK q \in Record : q = svc[i] /\ ObjectOK(q, "free")
    BY <1>0, <1>14, AtPosition DEF StopFinish
  <2> DEFINE r == [q EXCEPT !.wakeLock = FALSE, !.listener = FALSE, !.receiver = FALSE,
                            !.proxy = FALSE, !.state = "Stopped", !.pendingStart = FALSE,
                            !.stopper = "none"]
  <2>2. PICK accepted \in BOOLEAN, msg \in BOOLEAN :
          /\ svc'[i] = IF accepted THEN startRunner(r, i, TRUE) ELSE [r EXCEPT !.requested = FALSE]
          /\ requests' = startRunnerRequests(accepted)
          /\ reg' = changeState(reg, i, q, "Stopped", msg)
    BY <1>0, <1>14, <2>1 DEF StopFinish
  <2>3. r.life = q.life /\ r.state = "Stopped" /\ r.job = q.job /\ r.requested = q.requested
    BY <2>1 DEF Record
  <2>4. r \in Record
    <3>1. q.stopper = "closedBox" \/ (q.stopper = "joining" /\ q.job = "none" /\ ~q.proxy)
      BY <1>14, <2>1 DEF StopFinish
    <3> QED BY <2>1, <3>1, FinishKeeps
  <2> HIDE DEF r
  <2>5. /\ svc'[i].life = q.life /\ svc'[i].state = "Stopped" /\ svc'[i].job = q.job
        /\ svc'[i].requested => accepted /\ serviceClass = classOf(i)
    BY <2>2, <2>3, <2>4 DEF startRunner, Record
  <2>6. q.stopper # "none" /\ (q.life = "live" => q.state = "Stopping")
    BY <1>14, <2>1 DEF StopFinish, ObjectOK, JobOK
  <2>7. reg' \in {reg, setState(reg, i, "Stopped")} /\ "Stopped" \in State
    BY <2>2 DEF changeState, State
  <2>8. /\ reg' \in Registry /\ reg'.base = reg.base /\ reg'.vpn = reg.vpn
        /\ reg'.state \in {reg.state, "Stopped"}
        /\ reg.base \notin {None, i} => reg'.state = reg.state
    BY <1>0, <2>7, StateEffect
  <2>9. /\ requests \subseteq requests' /\ requests' \subseteq requests \cup Class
        /\ accepted => serviceClass \in requests'
        /\ ~accepted => requests' = requests
    BY <2>2, <1>0 DEF startRunnerRequests, serviceClass
  <2>10. At(i)' = At(i) /\ reg.vpn # i
    BY <1>0, <1>14, <2>1, <2>6 DEF StopFinish, At, RegistryInv, started
  <2>11. Remembers(i)
    <3>1. PICK granted \in BOOLEAN :
            /\ requests' = startRunnerRequests(q.pendingStart /\ granted)
            /\ owed' = IF q.pendingStart /\ (granted => serviceClass \in requests')
                       THEN owed \ {i} ELSE owed
      BY <1>14, <2>1 DEF StopFinish
    <3>2. i \in owed => q.pendingStart
      BY <2>1 DEF IInv, OwedInv
    <3>3. q.pendingStart /\ granted => serviceClass \in requests'
      BY <3>1 DEF startRunnerRequests
    <3> QED BY <3>1, <3>2, <3>3 DEF Remembers
  <2> QED BY <1>0, <2>1, <2>5, <2>8, <2>9, <2>10, <2>11, NoneAssumption
      DEF Sound, Owns, RegistryInv, Resting
<1>15. ASSUME NEW i \in Instance, DestroyRelease(i) PROVE Sound(i)
  <2>1. PICK r \in Record : r = svc[i]
    BY <1>0
  <2>2. r.life = "live" /\ svc'[i] = [r EXCEPT !.life = "destroyed", !.requested = FALSE,
                                               !.fd = IF r.conn THEN FALSE ELSE r.fd]
    BY <1>0, <1>15, <2>1 DEF DestroyRelease
  <2>3. /\ svc'[i].life = "destroyed" /\ svc'[i].pendingStart = r.pendingStart
        /\ svc'[i].stopper = r.stopper
    BY <2>2 DEF Record
  <2>4. reg' \in Registry /\ reg'.base = reg.base /\ reg'.state = reg.state
    BY <1>0, <1>15, RegistryEffect DEF DestroyRelease
  <2>5. reg'.vpn \in {reg.vpn, None} \ {i}
    BY <1>0, <1>15, RegistryEffect DEF DestroyRelease, RegistryInv
  <2>6. requests' = requests /\ owed' = owed /\ At(i)' = "release"
    BY <1>15 DEF DestroyRelease, At
  <2>7. Remembers(i)
    BY <1>a, <2>1, <2>3, <2>6
  <2> QED BY <2>1, <2>3, <2>4, <2>5, <2>6, <2>7 DEF Sound, Owns, Resting
<1>16. ASSUME NEW i \in Instance, DestroyDetach(i) PROVE Sound(i)
  <2>1. PICK r \in Record : r = svc[i] /\ ObjectOK(r, "release")
    BY <1>0, <1>16, AtPosition DEF DestroyDetach
  <2>2. svc'[i] = [r EXCEPT !.conn = FALSE, !.receiver = FALSE,
                            !.cancelled = r.cancelled \/ r.job # "none"]
    BY <1>0, <1>16, <2>1 DEF DestroyDetach
  <2>3. /\ r.life = "destroyed" /\ svc'[i].life = r.life /\ svc'[i].pendingStart = r.pendingStart
        /\ svc'[i].stopper = r.stopper
    BY <2>1, <2>2 DEF Record, ObjectOK, LifeOK
  <2>4. /\ reg' \in Registry /\ reg'.base = (IF reg.base = i THEN None ELSE reg.base)
        /\ reg'.vpn = reg.vpn /\ reg'.state = reg.state
    BY <1>0, <1>16, RegistryEffect DEF DestroyDetach
  <2>5. requests' = requests /\ owed' = owed /\ reg.vpn # i
    BY <1>0, <1>16, <2>1, <2>3 DEF DestroyDetach, RegistryInv
  <2>6. Remembers(i)
    BY <1>a, <2>1, <2>3, <2>5
  <2> QED BY <2>1, <2>3, <2>4, <2>5, <2>6, NoneAssumption DEF Sound, Owns, Resting
<1>17. ASSUME NEW i \in Instance, DestroyTeardown(i) PROVE Sound(i)
  <2>1. PICK r \in Record : r = svc[i] /\ ObjectOK(r, "teardown") /\ At(i) = "teardown"
    BY <1>0, <1>17, AtPosition DEF DestroyTeardown
  <2>2. PICK next \in {"Stopping", "Stopped"} :
          /\ svc'[i] = [r EXCEPT !.proxy = FALSE, !.state = next, !.settle = r.state # "Stopped",
                                 !.closer = IF r.proxy THEN "closing" ELSE "none",
                                 !.listener = FALSE, !.wakeLock = FALSE]
          /\ reg' = changeState(reg, i, r, next, FALSE)
    BY <1>0, <1>17, <2>1 DEF DestroyTeardown
  <2>3. /\ r.life = "destroyed" /\ svc'[i].life = r.life /\ svc'[i].pendingStart = r.pendingStart
        /\ svc'[i].stopper = r.stopper
    BY <2>1, <2>2 DEF Record, ObjectOK, LifeOK
  <2>4. reg' \in {reg, setState(reg, i, next)} /\ next \in State
    BY <2>2 DEF changeState, State
  <2>5. /\ reg' \in Registry /\ reg'.base = reg.base /\ reg'.vpn = reg.vpn
        /\ reg.base \notin {None, i} => reg'.state = reg.state
    BY <1>0, <2>4, StateEffect
  <2>6. requests' = requests /\ owed' = owed /\ reg.vpn # i /\ reg.base # i
    BY <1>0, <1>17, <2>1, <2>3 DEF DestroyTeardown, RegistryInv
  <2>7. Remembers(i)
    BY <1>a, <2>1, <2>3, <2>6
  <2> QED BY <2>1, <2>3, <2>5, <2>6, <2>7, NoneAssumption DEF Sound, Owns, Resting
<1>18. ASSUME NEW i \in Instance, CloserSettle(i) PROVE Sound(i)
  <2>1. PICK r \in Record : r = svc[i] /\ r.closer = "settling" /\ ObjectOK(r, At(i))
    BY <1>0, <1>18 DEF CloserSettle
  <2>2. svc'[i] = [r EXCEPT !.fd = IF r.conn THEN FALSE ELSE r.fd, !.conn = FALSE, !.closer = "done"]
    BY <1>0, <1>18, <2>1 DEF CloserSettle, releaseSubclassResources
  <2>3. /\ r.life = "destroyed" /\ At(i) = "free"
        /\ svc'[i].life = r.life /\ svc'[i].pendingStart = r.pendingStart
        /\ svc'[i].stopper = r.stopper
    BY <2>1, <2>2 DEF Record, ObjectOK, LifeOK
  <2>4. /\ reg' \in Registry /\ reg'.base = reg.base /\ reg'.vpn = reg.vpn
        /\ reg.base # None => reg'.state = reg.state
    BY <1>0, <1>18, RegistryEffect DEF CloserSettle
  <2>5. requests' = requests /\ owed' = owed /\ reg.vpn # i /\ reg.base # i
    BY <1>0, <1>18, <2>1, <2>3 DEF CloserSettle, RegistryInv
  <2>6. Remembers(i)
    BY <1>a, <2>1, <2>3, <2>5
  <2> QED BY <2>1, <2>3, <2>4, <2>5, <2>6, NoneAssumption DEF Sound, Owns, Resting
<1> QED BY <1>3, <1>4, <1>5, <1>6, <1>7, <1>8, <1>9, <1>10, <1>11, <1>12, <1>13, <1>14, <1>15,
           <1>16, <1>17, <1>18
        DEF Handles, Works, Environment, ReloadStep, JobStep, StopStep, DestroyStep

-----------------------------------------------------------------------------
(* The invariant and what follows from it. *)

\* What a handler leaves alone.
LEMMA HandlerFrame ==
  ASSUME NEW o \in Instance, Handles(o)
  PROVE  /\ mode' = mode
         /\ main' \in {main, None, <<o, "release">>, <<o, "teardown">>}
         /\ events' = events \/ (events < MaxEvents /\ events' = events + 1)
<1> USE DEF Handles, Environment, ReloadStep, JobStep, StopStep, DestroyStep, OnStartCommand,
       Close, Reload, DestroyRelease, ReloadSelector, ReloadMain, IoReturn, JobCancelled,
       JobFailed, StopRunnerFromJob, StartConnecting, PreInit, ProxyInit, StartProcesses,
       ProxyLaunch, StartVpn, BoxStarted, Connected, StopJoined, StopClose, StopFinish,
       DestroyDetach, DestroyTeardown, CloserClose, CloserSettle, Job, Event
<1>1. mode' = mode
  OBVIOUS
<1>2. main' \in {main, None, <<o, "release">>, <<o, "teardown">>}
  OBVIOUS
<1>3. events' = events \/ (events < MaxEvents /\ events' = events + 1)
  OBVIOUS
<1> QED BY <1>1, <1>2, <1>3

LEMMA InitIInv == Init => IInv
<1> SUFFICES ASSUME Init PROVE IInv
  OBVIOUS
<1>1. Fresh \in Record /\ ObjectOK(Fresh, "free")
  BY DEF Fresh, Record, State, Stage, Io, Resuming, ObjectOK, LifeOK, JobOK, HeldOK, BoxOK,
     Begun, InStart, Killing, started
<1>2. svc \in [Instance -> Record] /\ \A i \in Instance : svc[i] = Fresh
  BY <1>1 DEF Init
<1>3. TypeOK
  BY <1>2, MaxEventsAssumption DEF Init, TypeOK, Registry, State, Class
<1>4. ObjectInv
  BY <1>1, <1>2, AtPosition DEF Init, ObjectInv, MainFree
<1>5. OneLive /\ RequestInv /\ OwedInv
  BY <1>2 DEF OneLive, RequestInv, Resting, Fresh, OwedInv, Init
<1>6. RegistryInv
  BY NoneAssumption DEF Init, RegistryInv
<1> QED BY <1>3, <1>4, <1>5, <1>6 DEF IInv

\* Users and stuttering leave the objects and the registry alone.
LEMMA OthersIInv ==
  ASSUME IInv, UserStart \/ ChangeMode \/ UNCHANGED vars
  PROVE  /\ IInv'
         /\ svc' = svc /\ reg' = reg
<1>1. /\ svc' = svc /\ reg' = reg /\ main' = main /\ owed' = owed
      /\ mode' \in Class /\ requests \subseteq requests' /\ requests' \subseteq Class
      /\ events' \in 0..MaxEvents
  <2>1. CASE UserStart
    BY <2>1, MaxEventsAssumption DEF UserStart, Event, IInv, TypeOK, serviceClass
  <2>2. CASE ChangeMode
    BY <2>2, MaxEventsAssumption DEF ChangeMode, Event, IInv, TypeOK
  <2>3. CASE UNCHANGED vars
    BY <2>3 DEF vars, IInv, TypeOK
  <2> QED BY <2>1, <2>2, <2>3
<1>2. \A i \in Instance : At(i)' = At(i)
  BY <1>1 DEF At
<1>3. TypeOK'
  BY <1>1 DEF IInv, TypeOK
<1>4. ObjectInv' /\ OneLive' /\ RegistryInv' /\ RequestInv' /\ OwedInv'
  BY <1>1, <1>2 DEF IInv, ObjectInv, OneLive, RegistryInv, RequestInv, OwedInv
<1> QED BY <1>1, <1>3, <1>4 DEF IInv

LEMMA HandlerIInv ==
  ASSUME IInv, NEW o \in Instance, Handles(o)
  PROVE  IInv' /\ Sound(o) /\ \A j \in Instance \ {o} : svc'[j] = svc[j]
<1>1. Kept(o) /\ \A j \in Instance \ {o} : At(j)' = At(j)
  BY HandlerKeeps
<1>2. Sound(o)
  BY HandlerSound
<1>3. svc' \in [Instance -> Record] /\ ObjectInv'
  BY <1>1, Lift DEF IInv
<1>4. OneLive' /\ RegistryInv' /\ RequestInv' /\ OwedInv'
  BY <1>1, <1>2, SoundLift
<1>5. TypeOK'
  <2>1. mode' \in Class /\ main' \in (Instance \X {"release", "teardown"}) \cup {None}
    BY HandlerFrame DEF IInv, TypeOK
  <2>2. events' \in 0..MaxEvents
    BY HandlerFrame, MaxEventsAssumption DEF IInv, TypeOK
  <2>3. reg' \in Registry /\ requests' \subseteq Class
    BY <1>2 DEF Sound, IInv, TypeOK
  <2>4. owed' \subseteq Instance
    BY <1>2 DEF Sound, Remembers, IInv, TypeOK
  <2> QED BY <1>3, <2>1, <2>2, <2>3, <2>4 DEF TypeOK
<1>6. \A j \in Instance \ {o} : svc'[j] = svc[j]
  BY <1>1 DEF Kept, IInv, TypeOK
<1> QED BY <1>2, <1>3, <1>4, <1>5, <1>6 DEF IInv

\* A step is a handler of one object, or leaves all of them alone.
LEMMA NextCases ==
  ASSUME [Next]_vars
  PROVE  (UserStart \/ ChangeMode \/ UNCHANGED vars) \/ \E o \in Instance : Handles(o)
BY DEF Next, Handles

\* IInv is an invariant: whatever order the main thread, the IO dispatcher, the Go threads and
\* the framework come in, every object is in order (its box has somebody to close it, what it
\* holds it holds with its proxy), the registry knows none that is not alive, and a start that is
\* owed is recorded with a stop under way.
THEOREM Invariance == Spec => []IInv
<1>1. IInv /\ [Next]_vars => IInv'
  BY NextCases, OthersIInv, HandlerIInv
<1> QED BY <1>1, InitIInv, PTL DEF Spec

\* The variables keep their types: the record of an object, the registry, the pending starts.
THEOREM TypeCorrect == Spec => []TypeOK
<1>1. IInv => TypeOK
  BY DEF IInv
<1> QED BY <1>1, Invariance, PTL

\* ReleasedAtRest for any number of objects: an object that is Stopped or destroyed with nothing
\* under way holds no open box, listener, wake lock, receiver or proxy, and a live one no tun
\* descriptor (killProcesses, destroyRunner, closeAfterLateInit).
THEOREM NothingIsHeldAtRest == Spec => []ReleasedAtRest
<1>1. IInv => ReleasedAtRest
  <2> SUFFICES ASSUME IInv, NEW i \in Instance, AtRest(i),
                      svc[i].state = "Stopped" \/ svc[i].life = "destroyed"
               PROVE  /\ svc[i].box \in {"none", "closed"}
                      /\ ~svc[i].listener /\ ~svc[i].wakeLock /\ ~svc[i].receiver /\ ~svc[i].proxy
                      /\ svc[i].life = "live" => ~svc[i].fd
    BY DEF ReleasedAtRest
  <2>1. At(i) = "free"
    BY DEF AtRest, At
  <2>2. PICK r \in Record : r = svc[i] /\ ObjectOK(r, "free")
    BY <2>1 DEF IInv, TypeOK, ObjectInv
  <2>3. /\ r.job = "none" /\ r.stopper = "none" /\ r.closer \in {"none", "done"}
        /\ r.state = "Stopped" \/ r.life = "destroyed"
    BY <2>2 DEF AtRest
  <2>4. CASE r.life = "unborn"
    BY <2>2, <2>4 DEF ObjectOK, LifeOK, Fresh
  <2>5. CASE r.life # "unborn"
    <3>1. ~r.proxy /\ ~r.listener /\ ~r.wakeLock /\ ~r.receiver
      BY <2>2, <2>3, <2>5 DEF ObjectOK, LifeOK, HeldOK, Record
    <3>2. r.box \in {"none", "closed"}
      BY <2>2, <2>3, <3>1 DEF ObjectOK, BoxOK
    <3>3. r.life = "live" => ~r.fd
      BY <2>2, <3>1 DEF ObjectOK, HeldOK
    <3> QED BY <2>2, <3>1, <3>2, <3>3
  <2> QED BY <2>4, <2>5
<1> QED BY <1>1, Invariance, PTL

\* RegisteredIsAlive for any number of objects: the registry hands out no destroyed service
\* (ServiceRegistry.base, .vpn), and a VpnService only while it is connecting or connected.
THEOREM RegistryIsAlive == Spec => []RegisteredIsAlive
<1>1. IInv => RegisteredIsAlive
  BY DEF IInv, RegistryInv, RegisteredIsAlive, At
<1> QED BY <1>1, Invariance, PTL

\* NoStartedEmptyService for any number of objects: a live object that has stopped has called
\* stopSelf, or a start of its class is on its way (stopRunner, startRunner).
THEOREM StoppedIsNotStarted == Spec => []NoStartedEmptyService
<1>1. IInv => NoStartedEmptyService
  BY DEF IInv, RequestInv, Resting, NoStartedEmptyService, AtRest
<1> QED BY <1>1, Invariance, PTL

\* RegistryIsOwners: while an object is registered no other object writes the shared state or
\* releases the registration (mayWriteState, releasedBy); it loses it to a claim, to its own
\* stop, or to its destruction.
THEOREM RegistryBelongsToItsOwner == Spec => RegistryIsOwners
<1> DEFINE P(j) == reg.base = j =>
        /\ reg'.base = j /\ reg'.state # reg.state => reg'.state = svc'[j].state
        /\ reg'.base = None /\ svc'[j].life = "live" =>
             ~started(svc'[j].state) /\ (svc'[j].job # "none" => svc'[j].state = "Stopping")
<1>1. IInv /\ [Next]_vars => [\A j \in Instance : P(j)]_vars
  <2> SUFFICES ASSUME IInv, [Next]_vars, NEW j \in Instance PROVE P(j)
    OBVIOUS
  <2>1. CASE UserStart \/ ChangeMode \/ UNCHANGED vars
    BY <2>1, OthersIInv, NoneAssumption
  <2>2. ASSUME NEW o \in Instance, Handles(o) PROVE P(j)
    <3>1. Owns(o)
      BY <2>2, HandlerIInv DEF Sound
    <3>2. CASE j = o
      BY <3>1, <3>2 DEF Owns, started
    <3>3. CASE j # o
      BY <3>1, <3>3, NoneAssumption DEF Owns
    <3> QED BY <3>2, <3>3
  <2> QED BY <2>1, <2>2, NextCases
<1> QED BY <1>1, Invariance, PTL DEF Spec, RegistryIsOwners

\* StartsAreAnswered for any number of objects: no start that came while Stopping, and no reload
\* that stopped the service, is forgotten.  From the moment it is owed it is recorded and a stop
\* that will read the record is under way (OwedInv); neither a second stop nor the destruction
\* of the object takes either away, and the end of the stop answers it (pendingStart, stopRunner).
THEOREM StartsReachTheFramework == Spec => []StartsAreAnswered
<1>1. IInv => StartsAreAnswered
  BY DEF IInv, OwedInv, StartsAreAnswered, AtRest
<1> QED BY <1>1, Invariance, PTL

=============================================================================
