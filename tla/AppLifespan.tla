---------------------------- MODULE AppLifespan ----------------------------
(***************************************************************************)
(* Boot, service and shutdown of the served application (main.py): the     *)
(* checks a deployment must pass, the resources the lifespan opens in      *)
(* order on one AsyncExitStack, and their teardown, newest first, after a  *)
(* shutdown or a boot that failed halfway.  Several apps may live in one   *)
(* process and share the registered audit sink, the Redis pool and the     *)
(* proactive store.                                                        *)
(***************************************************************************)
EXTENDS Naturals, Sequences, FiniteSets

CONSTANTS
    Apps,        \* applications of this process
    Deployments, \* Deployments[a]: what app a may be configured as
    Malformed,   \* ids that are no runtime id (_validate_runtime_id refuses)
    NoApp,       \* nobody holds a process-wide slot
    MaxBoots     \* bound: MaxBoots[a] is how often app a is started

ASSUME LifespanAssumption == MaxBoots \in [Apps -> Nat] /\ NoApp \notin Apps

VARIABLES
    phase,    \* where app a's lifespan stands
    cfg,      \* the deployment it was started with
    stack,    \* callbacks pushed on the exit stack, last pushed first
    open,     \* resources open for app a
    runtimes, \* runtime ids built so far
    reports,  \* run_report is bound to the BI engine
    bound,    \* the app's own registry already holds live stores
    boots,    \* times the app was started
    current,  \* the app whose sink takes the process's events
    redis,    \* the process's Redis pool is open
    proactive \* the app whose database the proactive store is bound to

app == <<phase, cfg, stack, open, runtimes, reports, bound, boots>>
lifespanVars == <<app, current, redis, proactive>>

-----------------------------------------------------------------------------
(* What a deployment says.  agents: runtime id -> kind; the other fields    *)
(* are the ids a setting names, or a yes/no fact about the whole.           *)

Registered(c) == DOMAIN c.agents
ChannelIds(c) == {c.channels[n] : n \in DOMAIN c.channels}

ClientsFit(c) ==
    /\ c.clients \subseteq Registered(c)
    /\ \A id \in c.clients : c.agents[id] = "role"

ClientsNamed(c) == "client name" \notin c.flaws
IdsFit(c) == Registered(c) \cap Malformed = {}

KeyedByAgents(c) ==
    /\ c.keyed /= {} => c.passed
    /\ "grants" \in c.keyed => c.granted \subseteq Registered(c)

FoldersInside(c) == \A id \in Registered(c) : c.agents[id] = "folder" =>
                        ~c.passed /\ "folder" \notin c.flaws

Accepted(c) ==
    /\ "grant shape" \notin c.flaws
    /\ KeyedByAgents(c)
    /\ IdsFit(c)
    /\ FoldersInside(c)
    /\ ClientsFit(c) /\ ClientsNamed(c)
    /\ (ChannelIds(c) \cup c.adapter \cup c.limited \cup c.named) \subseteq Registered(c)
    /\ "limits" \notin c.flaws

-----------------------------------------------------------------------------
Push(a, callbacks, resources) ==
    /\ stack' = [stack EXCEPT ![a] = callbacks \o @]
    /\ open' = [open EXCEPT ![a] = @ \cup resources]

Goto(a, p) == phase' = [phase EXCEPT ![a] = p]
Raise(a) == Goto(a, "unwinding")

LifespanInit ==
    /\ phase = [a \in Apps |-> "down"]
    /\ cfg \in {f \in [Apps -> UNION {Deployments[a] : a \in Apps}] :
                  \A a \in Apps : f[a] \in Deployments[a]}
    /\ stack = [a \in Apps |-> <<>>]
    /\ open = [a \in Apps |-> {}]
    /\ runtimes = [a \in Apps |-> {}]
    /\ reports = [a \in Apps |-> FALSE]
    /\ bound = [a \in Apps |-> FALSE]
    /\ boots = [a \in Apps |-> 0]
    /\ current = NoApp /\ redis = FALSE /\ proactive = NoApp

\* A bad registration is refused here, before any resource exists.
Plan(a) ==
    /\ phase[a] = "down" /\ boots[a] < MaxBoots[a]
    /\ boots' = [boots EXCEPT ![a] = @ + 1]
    /\ IF Accepted(cfg[a]) THEN Goto(a, "engine") ELSE UNCHANGED phase
    /\ UNCHANGED <<cfg, stack, open, runtimes, reports, bound, current, redis, proactive>>

OpenEngine(a) ==
    /\ phase[a] = "engine"
    /\ Push(a, <<"engine">>, {"engine"})
    /\ Goto(a, "scope")
    /\ UNCHANGED <<cfg, runtimes, reports, bound, boots, current, redis, proactive>>

\* The provider's role check passed (Fail: it did not); the process-wide
\* proactive store now points at this app's database.
BindScope(a) ==
    /\ phase[a] = "scope"
    /\ proactive' = IF cfg[a].provider = "postgres" THEN a ELSE proactive
    /\ Goto(a, "stores")
    /\ UNCHANGED <<cfg, stack, open, runtimes, reports, bound, boots, current, redis>>

\* A cap that is none, infinite, no number, or under an unknown key is refused.
BudgetsParse(c) == "budget shape" \notin c.flaws

StoresBind(a) ==
    IF cfg[a].provider = "none" THEN cfg[a].budgets = {} ELSE ~bound[a]

BindStores(a) ==
    /\ phase[a] = "stores"
    /\ IF BudgetsParse(cfg[a]) /\ StoresBind(a)
                        THEN /\ bound' = [bound EXCEPT ![a] = cfg[a].provider /= "none"]
                             /\ Goto(a, "sink")
                        ELSE Raise(a) /\ UNCHANGED bound
    /\ UNCHANGED <<cfg, stack, open, runtimes, reports, boots, current, redis, proactive>>

StartSink(a) ==
    /\ phase[a] = "sink"
    /\ Push(a, <<"sink", "current">>, {"sink"})
    /\ current' = a
    /\ Goto(a, "clients")
    /\ UNCHANGED <<cfg, runtimes, reports, bound, boots, redis, proactive>>

OpenClients(a) ==
    /\ phase[a] = "clients"
    /\ Push(a, <<"redis", "whatsapp">>, {"whatsapp"})
    /\ Goto(a, IF Registered(cfg[a]) = {} THEN "worker" ELSE "reports")
    /\ UNCHANGED <<cfg, runtimes, reports, bound, boots, current, redis, proactive>>

\* What the database may answer about the BI role: the truth, or nothing.
RoleAnswers(c) == {"unknown", c.bi}
BindsReports(answer) == answer /= "writable"

OpenReports(a) ==
    /\ phase[a] = "reports"
    /\ IF cfg[a].bi = "none"
         THEN UNCHANGED <<stack, open, reports>>
         ELSE /\ Push(a, <<"bi">>, {"bi"})
              /\ \E answer \in RoleAnswers(cfg[a]) :
                    reports' = [reports EXCEPT ![a] = BindsReports(answer)]
    /\ IF "default tool" \in cfg[a].flaws THEN Raise(a) ELSE Goto(a, "saver")
    /\ UNCHANGED <<cfg, runtimes, bound, boots, current, redis, proactive>>

SaverCallbacks(c) == IF c.saver = "postgres" THEN <<"purger", "saver">> ELSE <<"saver">>

OpenSaver(a) ==
    /\ phase[a] = "saver"
    /\ IF cfg[a].saver = "none"
         THEN UNCHANGED <<stack, open>>
         ELSE LET pushed == SaverCallbacks(cfg[a])
              IN Push(a, pushed, {pushed[i] : i \in DOMAIN pushed})
    /\ Goto(a, "retention")
    /\ UNCHANGED <<cfg, runtimes, reports, bound, boots, current, redis, proactive>>

MarginCovers(c) ==
    c.channels /= <<>> /\ c.saver /= "none" => "thin margin" \notin c.flaws

StartPurger(a) ==
    /\ phase[a] = "retention"
    /\ IF cfg[a].retention = "known" THEN Push(a, <<"retention">>, {"retention"})
                                     ELSE UNCHANGED <<stack, open>>
    /\ IF cfg[a].retention = "unknown" \/ ~MarginCovers(cfg[a])
         THEN Raise(a) ELSE Goto(a, "runtimes")
    /\ UNCHANGED <<cfg, runtimes, reports, bound, boots, current, redis, proactive>>

NarrowedAsAsked(c, id) == id \in c.clients => c.roots /\ id \in c.deployed
UntrustedOnly(c, id) == id \in ChannelIds(c) => id \in c.untrusted
SafeForChannels(c, id) == id \in ChannelIds(c) => id \in c.untrusted /\ id \in c.fits

RuntimeBuilds(c, id) ==
    /\ NarrowedAsAsked(c, id)
    /\ id \in c.limited => id \in c.fits
    /\ SafeForChannels(c, id)
    /\ id \in c.granted
    /\ id \in c.equips

BuildRuntime(a) ==
    /\ phase[a] = "runtimes"
    /\ \E id \in Registered(cfg[a]) \ runtimes[a] :
          IF RuntimeBuilds(cfg[a], id)
            THEN runtimes' = [runtimes EXCEPT ![a] = @ \cup {id}] /\ UNCHANGED phase
            ELSE Raise(a) /\ UNCHANGED runtimes
    /\ UNCHANGED <<cfg, stack, open, reports, bound, boots, current, redis, proactive>>

RuntimesBuilt(a) ==
    /\ phase[a] = "runtimes" /\ runtimes[a] = Registered(cfg[a])
    /\ IF cfg[a].budgets \subseteq runtimes[a] THEN Goto(a, "worker") ELSE Raise(a)
    /\ UNCHANGED <<cfg, stack, open, runtimes, reports, bound, boots, current, redis, proactive>>

\* WhatsApp able to receive and reply needs a runtime; a channel of the
\* deployment's own needs a directory that is told the channel.
WorkerFits(c) ==
    /\ c.creds => "whatsapp" \in DOMAIN c.channels
    /\ DOMAIN c.channels \ {"whatsapp"} /= {} => "plain directory" \notin c.flaws

StartWorker(a) ==
    /\ phase[a] = "worker"
    /\ IF ~WorkerFits(cfg[a])
         THEN Raise(a) /\ UNCHANGED <<stack, open>>
         ELSE /\ IF DOMAIN cfg[a].channels = {}
                   THEN UNCHANGED <<stack, open>>
                   ELSE Push(a, <<"worker">>, {"worker"})
              /\ Goto(a, "serving")
    /\ UNCHANGED <<cfg, runtimes, reports, bound, boots, current, redis, proactive>>

\* An await of the boot raises, or is cancelled: the role check, an import,
\* the checkpointer's pool and schema, the provider of a model.
Fail(a) ==
    /\ phase[a] \in {"engine", "scope", "stores", "reports", "saver", "runtimes"}
    /\ Raise(a)
    /\ UNCHANGED <<cfg, stack, open, runtimes, reports, bound, boots, current, redis, proactive>>

\* GET /health takes a client from the process's pool, opening it.
UseRedis(a) ==
    /\ phase[a] = "serving"
    /\ redis' = TRUE
    /\ UNCHANGED <<app, current, proactive>>

Stop(a) ==
    /\ phase[a] = "serving"
    /\ Raise(a)
    /\ UNCHANGED <<cfg, stack, open, runtimes, reports, bound, boots, current, redis, proactive>>

\* A callback that raises does not keep the older ones from running.
StopAtRaise(callbacks, raised) == IF raised THEN <<>> ELSE Tail(callbacks)
AfterCallback(callbacks, raised) == Tail(callbacks)

ClearCurrent(a) == IF current = a THEN NoApp ELSE current

Unwind(a) ==
    /\ phase[a] = "unwinding" /\ stack[a] /= <<>>
    /\ \E raised \in BOOLEAN : stack' = [stack EXCEPT ![a] = AfterCallback(@, raised)]
    /\ open' = [open EXCEPT ![a] = @ \ {Head(stack[a])}]
    /\ current' = IF Head(stack[a]) = "current" THEN ClearCurrent(a) ELSE current
    /\ redis' = (redis /\ Head(stack[a]) /= "redis")
    /\ UNCHANGED <<phase, cfg, runtimes, reports, bound, boots, proactive>>

Ended(a) ==
    /\ phase[a] = "unwinding" /\ stack[a] = <<>>
    /\ Goto(a, "down")
    /\ runtimes' = [runtimes EXCEPT ![a] = {}]
    /\ reports' = [reports EXCEPT ![a] = FALSE]
    /\ UNCHANGED <<cfg, stack, open, bound, boots, current, redis, proactive>>

BootStep(a) ==
    \/ OpenEngine(a) \/ BindScope(a) \/ BindStores(a) \/ StartSink(a) \/ OpenClients(a)
    \/ OpenReports(a) \/ OpenSaver(a) \/ StartPurger(a) \/ BuildRuntime(a)
    \/ RuntimesBuilt(a) \/ StartWorker(a)

LifespanStep ==
    \E a \in Apps : Plan(a) \/ BootStep(a) \/ Fail(a) \/ UseRedis(a) \/ Stop(a)
                        \/ Unwind(a) \/ Ended(a)

LifespanSpec == LifespanInit /\ [][LifespanStep]_lifespanVars

-----------------------------------------------------------------------------
LifespanTypeOK ==
    /\ \A a \in Apps : /\ open[a] \subseteq {"engine", "sink", "whatsapp", "bi", "saver",
                                             "purger", "retention", "worker"}
                       /\ runtimes[a] \subseteq Registered(cfg[a])
                       /\ boots[a] \in 0..MaxBoots[a]
    /\ current \in Apps \cup {NoApp} /\ proactive \in Apps \cup {NoApp}
    /\ redis \in BOOLEAN

(* What each resource still needs to be open while it is.                   *)
Needs(r) ==
    CASE r = "worker"    -> {"engine", "sink", "whatsapp"}
      [] r = "purger"    -> {"saver"}
      [] r = "retention" -> {"engine"}
      [] r = "sink"      -> {"engine"}
      [] OTHER           -> {}

(* Teardown runs newest first and to the end: nothing is closed while what  *)
(* uses it is up, and an app that is down holds nothing -- no resource, no  *)
(* pool, and no stopped sink left taking the process's events.              *)
UsersGoFirst ==
    \A a \in Apps : \A r \in open[a] :
        /\ Needs(r) \subseteq open[a]
        /\ r = "worker" /\ cfg[a].saver /= "none" => "saver" \in open[a]
NothingLeaks ==
    /\ \A a \in Apps : phase[a] = "down" => open[a] = {} /\ current /= a
    /\ (\A a \in Apps : phase[a] = "down") => ~redis
TeardownOrdered == UsersGoFirst /\ NothingLeaks

(* An app that serves was checked: each channel has a running worker and a  *)
(* built runtime that takes untrusted input and fits the lease, WhatsApp    *)
(* that can receive and reply is answered, every published id exists, an    *)
(* asked-for narrowing is there, every runtime was granted explicitly, and  *)
(* what budgets count against exists -- in an app that builds any runtime:  *)
(* without one the names of its budgets are never looked at.                *)
ServedIsChecked ==
    \A a \in Apps : phase[a] = "serving" =>
        LET c == cfg[a] IN
        /\ \A n \in DOMAIN c.channels : /\ "worker" \in open[a]
                                        /\ c.channels[n] \in runtimes[a]
                                        /\ c.channels[n] \in c.untrusted \cap c.fits
        /\ c.creds => "worker" \in open[a]
        /\ c.adapter \subseteq runtimes[a]
        /\ \A id \in runtimes[a] : id \in c.granted /\ (id \in c.clients => id \in c.deployed)
        /\ (Registered(c) /= {} => c.budgets \subseteq runtimes[a])
        /\ (c.budgets /= {} => c.provider /= "none")

(* The life of an application as a whole: what it serves was checked, and   *)
(* what it opened is closed in order.                                       *)
LifespanSafe == TeardownOrdered /\ ServedIsChecked
=============================================================================
