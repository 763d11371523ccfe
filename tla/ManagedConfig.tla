---------------------------- MODULE ManagedConfig ----------------------------
(***************************************************************************)
(* The configuration of one managed limiter: the two Redis hashes          *)
(* rl:registry:configs and rl:registry:versions, the instance every        *)
(* process keeps, and create, get, update and refresh_config, which read   *)
(* and write the two hashes one after the other, without a transaction.    *)
(* A process has two threads: one calls create, get and update, the drain  *)
(* loop calls refresh_config.  Any call may fail, before or after it took  *)
(* effect, or be sent again by the client; a process may die.              *)
(*                                                                         *)
(* A configuration is a function from fields to values.  To compare the    *)
(* age of configurations the model numbers the HSETs.                      *)
(***************************************************************************)
EXTENDS Naturals, Sequences

CONSTANTS
    Procs,
    Loaded,         \* processes that have an up-to-date instance at the start
    Updaters,       \* processes that call create and update
    Pollers,        \* processes that drain, and so call refresh_config
    Fields, Values,
    Default,        \* the configuration at the start, and the one create() is given
    MaxUpdates, MaxFaults   \* bounds: create and update calls; failures and deaths

ASSUME ConfigConstants ==
    /\ Loaded \subseteq Procs /\ Updaters \subseteq Procs /\ Pollers \subseteq Procs
    /\ Default \in [Fields -> Values]
    /\ {MaxUpdates, MaxFaults} \subseteq Nat

Configs == [Fields -> Values]

VARIABLES
    stored,     \* the persisted configuration
    stores,     \* the number of its HSET
    announced,  \* for every version, the number of the HSET it was to announce
    loaded,     \* processes with an instance
    config,     \* process -> configuration of its instance
    fresh,      \* process -> number of the HSET it comes from
    seen,       \* process -> _config_version of its instance
    viaGet,     \* processes whose configuration and version come from get()
    api,        \* process -> where its create, get or update is
    poll,       \* process -> where its refresh_config is
    updates, faults     \* how many there were

redisVars == <<stored, stores, announced>>
instVars == <<loaded, config, fresh, seen, viaGet>>
configVars == <<redisVars, instVars, api, poll, updates, faults>>

\* The version counter.
version == Len(announced)
Announced(v) == IF v = 0 THEN 0 ELSE announced[v]

\* fields: what the caller asked to change; config, stamp and version: what was
\* persisted, the number of that HSET, and the version it got.
Calling(at, fields, c, n, v) ==
    [at |-> at, fields |-> fields, config |-> c, stamp |-> n, version |-> v]
NoCall == Calling("idle", {}, Default, 0, 0)

Polling(at, v, c, n) == [at |-> at, version |-> v, config |-> c, stamp |-> n]
NoPoll == Polling("idle", 0, Default, 0)

ConfigInit ==
    /\ stored = Default /\ stores = 1 /\ announced = <<1>>
    /\ loaded = Loaded
    /\ config = [p \in Procs |-> Default]
    /\ fresh = [p \in Procs |-> IF p \in Loaded THEN 1 ELSE 0]
    /\ seen = [p \in Procs |-> IF p \in Loaded THEN 1 ELSE 0]
    /\ viaGet = {}
    /\ api = [p \in Procs |-> NoCall] /\ poll = [p \in Procs |-> NoPoll]
    /\ updates = 0 /\ faults = 0

-----------------------------------------------------------------------------
(***************************************************************************)
(* create, get and update                                                  *)
(***************************************************************************)

\* A create() or update() call of p is under way, and is to persist the fields.
Begins(p, fields) ==
    /\ api[p].at = "idle"
    /\ updates < MaxUpdates /\ updates' = updates + 1
    /\ api' = [api EXCEPT ![p] = Calling("building", fields, Default, 0, 0)]
    /\ UNCHANGED <<redisVars, faults>>

\* A new instance of p, with version 0.
NewInstance(p, c) ==
    /\ loaded' = loaded \cup {p}
    /\ config' = [config EXCEPT ![p] = c]
    /\ fresh' = [fresh EXCEPT ![p] = 0]
    /\ seen' = [seen EXCEPT ![p] = 0]
    /\ viaGet' = viaGet \ {p}
    /\ poll' = [poll EXCEPT ![p] = NoPoll]

\* create(): a new instance goes into the cache and is then persisted.
Create(p) ==
    /\ p \notin loaded
    /\ Begins(p, Fields)
    /\ NewInstance(p, Default)

\* create(override=True): a new instance takes the place of the one in the cache.
\* (The old one is not shut down; what its loop still does is not followed here.)
Replace(p, c) ==
    /\ p \in loaded
    /\ Begins(p, Fields)
    /\ NewInstance(p, c)

\* create(persist=False): the first refresh_config brings the persisted configuration.
CreateLocal(p) ==
    /\ api[p].at = "idle"
    /\ p \in Pollers \ loaded
    /\ NewInstance(p, Default)
    /\ UNCHANGED <<redisVars, api, updates, faults>>

\* get() without an instance: HGET of the configuration.
HydrateConfig(p) ==
    /\ api[p].at = "idle"
    /\ p \notin loaded
    /\ config' = [config EXCEPT ![p] = stored]
    /\ fresh' = [fresh EXCEPT ![p] = stores]
    /\ api' = [api EXCEPT ![p] = Calling("hydrating", {}, Default, 0, 0)]
    /\ UNCHANGED <<redisVars, loaded, seen, viaGet, poll, updates, faults>>

\* HGET of the version; the instance goes into the cache.
HydrateVersion(p) ==
    /\ api[p].at = "hydrating"
    /\ seen' = [seen EXCEPT ![p] = version]
    /\ loaded' = loaded \cup {p}
    /\ viaGet' = viaGet \cup {p}
    /\ api' = [api EXCEPT ![p] = NoCall]
    /\ UNCHANGED <<redisVars, config, fresh, poll, updates, faults>>

\* update() of one field: the override is applied to the local instance, which
\* is not refreshed first.
Update(p, f, v) ==
    /\ p \in loaded
    /\ Begins(p, {f})
    /\ config' = [config EXCEPT ![p] = [@ EXCEPT ![f] = v]]
    /\ UNCHANGED <<loaded, fresh, seen, viaGet, poll>>

\* _build_persist_config: the instance's whole configuration.
BuildConfig(p) ==
    /\ api[p].at = "building"
    /\ api' = [api EXCEPT ![p] = Calling("storing", @.fields, config[p], 0, 0)]
    /\ UNCHANGED <<redisVars, instVars, poll, updates, faults>>

\* What becomes of a call that took effect: the reply arrives, or it is lost and
\* the client sends the call again, or it is lost and the call raises.
After(p, at, to) ==
    /\ api[p].at = at
    /\ IF to \in {at, "idle"} THEN faults < MaxFaults /\ faults' = faults + 1
                              ELSE UNCHANGED faults

\* _persist_config: HSET.
StoreConfig(p, to) ==
    /\ After(p, "storing", to)
    /\ stored' = api[p].config /\ stores' = stores + 1
    /\ fresh' = [fresh EXCEPT ![p] = stores + 1]
    /\ api' = [api EXCEPT ![p] = IF to = "idle" THEN NoCall
                                 ELSE Calling(to, @.fields, @.config, stores + 1, 0)]
    /\ UNCHANGED <<announced, loaded, config, seen, viaGet, poll, updates>>

\* _persist_config: HINCRBY of the version.
BumpVersion(p, to) ==
    /\ After(p, "bumping", to)
    /\ announced' = Append(announced, api[p].stamp)
    /\ api' = [api EXCEPT ![p] = IF to = "idle" THEN NoCall
                                 ELSE Calling(to, @.fields, @.config, @.stamp, version + 1)]
    /\ UNCHANGED <<stored, stores, instVars, poll, updates>>

\* The reply arrives, and the instance takes the new version over.
TakeVersion(p) ==
    /\ api[p].at = "bumped"
    /\ seen' = [seen EXCEPT ![p] = api[p].version]
    /\ viaGet' = viaGet \ {p}
    /\ api' = [api EXCEPT ![p] = NoCall]
    /\ UNCHANGED <<redisVars, loaded, config, fresh, poll, updates, faults>>

\* A call raises and did not take effect: nothing of what went before is undone.
CallFails(p) ==
    /\ api[p].at \in {"hydrating", "storing", "bumping"}
    /\ faults < MaxFaults /\ faults' = faults + 1
    /\ api' = [api EXCEPT ![p] = NoCall]
    /\ UNCHANGED <<redisVars, instVars, poll, updates>>

\* The process dies; another one may start in its place.
Dies(p) ==
    /\ p \in loaded \/ api[p].at # "idle"
    /\ faults < MaxFaults /\ faults' = faults + 1
    /\ loaded' = loaded \ {p} /\ viaGet' = viaGet \ {p}
    /\ seen' = [seen EXCEPT ![p] = 0]
    /\ api' = [api EXCEPT ![p] = NoCall] /\ poll' = [poll EXCEPT ![p] = NoPoll]
    /\ UNCHANGED <<redisVars, config, fresh, updates>>

-----------------------------------------------------------------------------
(***************************************************************************)
(* refresh_config, called by drain()                                       *)
(***************************************************************************)

\* Mutant: a difference of one does not count.
PollVersionOffByOne(p) ==
    /\ p \in Pollers \cap loaded /\ poll[p].at = "idle"
    /\ version > seen[p] + 1
    /\ poll' = [poll EXCEPT ![p] = Polling("newer", version, Default, 0)]
    /\ UNCHANGED <<redisVars, instVars, api, updates, faults>>

\* The version is newer than the instance's.
PollVersion(p) ==
    /\ p \in Pollers \cap loaded /\ poll[p].at = "idle"
    /\ version > seen[p]
    /\ poll' = [poll EXCEPT ![p] = Polling("newer", version, Default, 0)]
    /\ UNCHANGED <<redisVars, instVars, api, updates, faults>>

\* The configuration is read, later than the version.
PollConfig(p) ==
    /\ poll[p].at = "newer"
    /\ poll' = [poll EXCEPT ![p] = Polling("read", @.version, stored, stores)]
    /\ UNCHANGED <<redisVars, instVars, api, updates, faults>>

\* Mutant: the version is read again instead of the one read first.
PollApplyLatest(p) ==
    /\ poll[p].at = "read"
    /\ config' = [config EXCEPT ![p] = poll[p].config]
    /\ fresh' = [fresh EXCEPT ![p] = poll[p].stamp]
    /\ seen' = [seen EXCEPT ![p] = version]
    /\ viaGet' = viaGet \ {p}
    /\ poll' = [poll EXCEPT ![p] = NoPoll]
    /\ UNCHANGED <<redisVars, loaded, api, updates, faults>>

\* Configuration and version are put into the instance.
PollApply(p) ==
    /\ poll[p].at = "read"
    /\ config' = [config EXCEPT ![p] = poll[p].config]
    /\ fresh' = [fresh EXCEPT ![p] = poll[p].stamp]
    /\ seen' = [seen EXCEPT ![p] = poll[p].version]
    /\ viaGet' = viaGet \ {p}
    /\ poll' = [poll EXCEPT ![p] = NoPoll]
    /\ UNCHANGED <<redisVars, loaded, api, updates, faults>>

\* The second HGET raises, and with it the drain, or its answer cannot be parsed.
PollFails(p) ==
    /\ poll[p].at = "newer"
    /\ faults < MaxFaults /\ faults' = faults + 1
    /\ poll' = [poll EXCEPT ![p] = NoPoll]
    /\ UNCHANGED <<redisVars, instVars, api, updates>>

ApiStep(p) ==
    \/ HydrateVersion(p) \/ BuildConfig(p)
    \/ \E to \in {"bumping", "storing", "idle"} : StoreConfig(p, to)
    \/ \E to \in {"bumped", "bumping", "idle"} : BumpVersion(p, to)
    \/ TakeVersion(p) \/ CallFails(p)

PollStep(p) == PollVersion(p) \/ PollConfig(p) \/ PollApply(p)

ConfigNext ==
    \/ \E p \in Updaters :
        \/ Create(p)
        \/ \E c \in Configs : Replace(p, c)
        \/ \E f \in Fields, v \in Values : Update(p, f, v)
    \/ \E p \in Procs : CreateLocal(p) \/ HydrateConfig(p)
    \/ \E p \in Procs : ApiStep(p) \/ PollStep(p) \/ PollFails(p) \/ Dies(p)

(***************************************************************************)
(* Fairness: a running drain loop keeps polling, since its watchdog calls  *)
(* drain() again and again.  Nothing is assumed of create, get and update: *)
(* a call that has started may never come to its end.                      *)
(***************************************************************************)
ConfigSpec ==
    /\ ConfigInit /\ [][ConfigNext]_configVars
    /\ \A p \in Procs : WF_configVars(PollStep(p))

-----------------------------------------------------------------------------
(***************************************************************************)
(* Properties                                                              *)
(***************************************************************************)

\* The type invariant.
ConfigTypeOK ==
    /\ stored \in Configs /\ stores \in Nat /\ announced \in Seq(Nat)
    /\ \A v \in 1 .. version : announced[v] <= stores
    /\ loaded \subseteq Procs /\ viaGet \subseteq Procs
    /\ config \in [Procs -> Configs]
    /\ fresh \in [Procs -> Nat] /\ seen \in [Procs -> Nat]
    /\ api \in [Procs -> [at : {"idle", "hydrating", "building", "storing", "bumping", "bumped"},
                          fields : SUBSET Fields, config : Configs, stamp : Nat, version : Nat]]
    /\ poll \in [Procs -> [at : {"idle", "newer", "read"}, version : Nat, config : Configs,
                           stamp : Nat]]
    /\ \A p \in Procs : seen[p] <= version /\ api[p].stamp <= stores
    /\ updates \in Nat /\ faults \in Nat

\* The instances whose version can be relied upon.  Of the others there are two
\* sorts: what get() has hydrated and nobody has refreshed since, and the instance
\* of a process that persists and drains at the same time, where refresh_config
\* may put back what it has read before an update.
Reliable == {p \in loaded : p \notin viaGet /\ p \notin Updaters \cap Pollers}

\* A version is a promise: whoever has it has the configuration whose HSET
\* preceded that HINCRBY, or a later one, however the calls of several updaters
\* and readers interleave, fail half-way or are sent twice.
AsNewAsVersion == \A p \in Reliable : fresh[p] >= Announced(seen[p])

\* What an HINCRBY has announced reaches every process that only drains, although
\* calls fail and processes die: in the end each has that configuration or a later one.
Converges == <>[](\A p \in Reliable \cap Pollers : fresh[p] >= Announced(version))

Persisting == {p \in Procs : api[p].at \in {"building", "storing", "bumping", "bumped"}}

\* An instance that has nothing left to poll holds the persisted configuration.
\* managed.py:34: "All workers sharing the same limiter ID read from this
\* authoritative store, and configuration updates (via ``update()``) are propagated
\* automatically through a Redis-backed version counter".
CurrentIsStored ==
    \A p \in loaded \cap Pollers :
        (seen[p] = version /\ poll[p].at = "idle" /\ Persisting = {}) => config[p] = stored

\* A persisted value is replaced only by a process that was asked to change that
\* field.  managed.py:339 says of update(): "overrides: The configuration fields to
\* change".
UpdatesKept ==
    [][\A f \in Fields : stored'[f] # stored[f] =>
        \E p \in Procs : api[p].at = "storing" /\ f \in api[p].fields]_configVars
=============================================================================
