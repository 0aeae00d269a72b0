------------------------------ MODULE AdminSync ------------------------------
(***************************************************************************)
(* The admin handlers that change configuration: internal/admin, with the  *)
(* tables of internal/store behind them.  The database is the source of    *)
(* truth, and the process keeps copies of it: the engine's topology and    *)
(* tunables, the server's current tunables and the settings snapshot.  A   *)
(* handler writes the database and then brings its copy up to date, in     *)
(* several steps and without a lock around them.                           *)
(*                                                                         *)
(* A statement fails when Postgres is down, its 5 s are over or the        *)
(* browser has gone; a write that fails may have been committed.  What the *)
(* engine does with a topology is in PresenceEngine.  A removed entity is  *)
(* only handed over here: Publisher has the queue, and what becomes of it. *)
(***************************************************************************)
EXTENDS Integers, FiniteSets

CONSTANTS
    Beacons, Names, APs, Labels,  \* valid identities, names, MACs and labels
    Tunables, Settings,           \* valid documents and settings
    Requests,                     \* the request goroutines
    MaxRequests,                  \* bound: how many requests are made
    None, Blank                   \* absent; an empty or malformed form value

ASSUME BoundAssumption == MaxRequests \in Nat

ASSUME AbsentAssumption ==
    /\ None \notin Names \cup Labels
    /\ Blank \notin Beacons \cup Names \cup APs \cup Labels \cup Tunables \cup Settings

VARIABLES
    store,      \* the tables beacons, zones, tunables_* and settings
    engine,     \* the topology and the tunables the engine holds
    current,    \* Server.current
    snap,       \* SettingsSnapshot
    req,        \* the request each goroutine is serving
    requests,   \* how many were made
    doubt,      \* history: copies last touched by a request that overlapped
                \* another one
    told        \* history: the copies whose failure an operator was shown

vars == <<store, engine, current, snap, req, requests, doubt, told>>

-----------------------------------------------------------------------------
(* Tables.                                                                 *)

Tracked(beacons) == {b \in Beacons : beacons[b] # None}

\* NewTopology refuses a name that two beacons share.
ValidBeacons(beacons) ==
    \A b, c \in Tracked(beacons) : beacons[b] = beacons[c] => b = c

\* The rows of beacons, as ListBeacons returns them.
Lists == [Beacons -> Names \cup {None}]

Topologies == [beacons : Lists, zones : [APs -> Labels \cup {None}]]

Tables == [beacons : Lists, zones : [APs -> Labels \cup {None}],
           tunables : Tunables, settings : Settings]

Topology(tables) == [beacons |-> tables.beacons, zones |-> tables.zones]

\* The form values of a request, as its handler finds them.
Form == [op : {"promote"}, b : Beacons \cup {Blank}, n : Names \cup {Blank}]
        \cup [op : {"demote"}, b : Beacons \cup {Blank}]
        \cup [op : {"upsert"}, a : APs \cup {Blank}, l : Labels \cup {Blank}]
        \cup [op : {"delete"}, a : APs \cup {Blank}]
        \cup [op : {"refresh"}]
        \cup [op : {"tunables"}, t : Tunables \cup {Blank}]
        \cup [op : {"settings"}, s : Settings \cup {Blank}]

\* Variant of Validated with a bug: a zone's label is not checked.
ValidatedLabelless(f) ==
    /\ f.op = "promote" => f.b # Blank /\ f.n # Blank
    /\ f.op = "demote" => f.b # Blank
    /\ f.op = "upsert" => f.a # Blank
    /\ f.op = "delete" => f.a # Blank
    /\ f.op = "tunables" => f.t # Blank
    /\ f.op = "settings" => f.s # Blank

\* The checks a handler makes before it touches the database: ParseSlug,
\* NewBeacon, NewAPMAC, NewZoneLabel, Tunables.Validate, NewSettings.
Validated(f) ==
    /\ f.op = "promote" => f.b # Blank /\ f.n # Blank
    /\ f.op = "demote" => f.b # Blank
    /\ f.op = "upsert" => f.a # Blank /\ f.l # Blank
    /\ f.op = "delete" => f.a # Blank
    /\ f.op = "tunables" => f.t # Blank
    /\ f.op = "settings" => f.s # Blank

\* Variant of PromoteConflict with a bug: names need not be unique.
PromoteConflictKeyOnly(b, n) == store.beacons[b] # None

\* PromoteBeacon: the primary key and the unique name.
PromoteConflict(b, n) ==
    store.beacons[b] # None \/ \E c \in Beacons : store.beacons[c] = n

\* ErrConflict and ErrNotFound: the statement changes nothing.
Refused(f) ==
    \/ f.op = "promote" /\ PromoteConflict(f.b, f.n)
    \/ f.op = "demote" /\ store.beacons[f.b] = None
    \/ f.op = "delete" /\ store.zones[f.a] = None

\* The tables after the statement of a request.
Written(f) ==
    CASE f.op = "promote"  -> [store EXCEPT !.beacons[f.b] = f.n]
      [] f.op = "demote"   -> [store EXCEPT !.beacons[f.b] = None]
      [] f.op = "upsert"   -> [store EXCEPT !.zones[f.a] = f.l]
      [] f.op = "delete"   -> [store EXCEPT !.zones[f.a] = None]
      [] f.op = "tunables" -> [store EXCEPT !.tunables = f.t]
      [] f.op = "settings" -> [store EXCEPT !.settings = f.s]

-----------------------------------------------------------------------------
(* Requests.                                                               *)

NoForm == [op |-> None]

\* read holds what rebuildEngineTopology has listed; alone says that the request
\* has not overlapped another one.
Idle == [pc |-> "idle", form |-> NoForm, read |-> None, alone |-> TRUE]

Quiet == \A r \in Requests : req[r].pc = "idle"

\* Where the handler goes after its write: zone and device changes rebuild the
\* engine's topology, the others hand their document over.
AfterWrite(f) ==
    CASE f.op = "tunables" -> "applyTunables"
      [] f.op = "settings" -> "replaceSnap"
      [] OTHER             -> "listBeacons"

\* The copies a request leaves right when it succeeds on its own.
Settles(f) ==
    CASE f.op = "tunables" -> {"tunables", "current"}
      [] f.op = "settings" -> {"settings"}
      [] OTHER             -> {"topology"}

Goto(r, pc) == req' = [req EXCEPT ![r].pc = pc]

\* The request ends with the redirect its handler sends on success.
Succeed(r) ==
    LET f == req[r].form IN
    /\ req' = [req EXCEPT ![r] = Idle]
    /\ IF req[r].alone
       THEN doubt' = doubt \ Settles(f) /\ told' = told \ Settles(f)
       ELSE doubt' = doubt \cup Settles(f) /\ UNCHANGED told

\* The request ends with an error page.  A refresh that fails on its own has
\* changed nothing for the worse.
Fail(r) ==
    LET f == req[r].form IN
    /\ req' = [req EXCEPT ![r] = Idle]
    /\ doubt' = IF req[r].alone THEN doubt ELSE doubt \cup Settles(f)
    /\ told' = IF req[r].alone /\ f.op = "refresh" THEN told ELSE told \cup Settles(f)

\* The request ends and has changed nothing.
Refuse(r) ==
    /\ req' = [req EXCEPT ![r] = Idle]
    /\ UNCHANGED <<doubt, told>>

-----------------------------------------------------------------------------
(* Steps of the handlers.                                                  *)

\* A POST arrives.  From here on it overlaps the ones in progress.
Begin(r) ==
    /\ req[r].pc = "idle" /\ requests < MaxRequests
    /\ \E f \in Form :
         /\ Validated(f)
         /\ req' = [q \in Requests |->
                      IF q = r
                      THEN [Idle EXCEPT !.pc = IF f.op = "refresh" THEN "listBeacons"
                                               ELSE "write",
                                        !.form = f, !.alone = Quiet]
                      ELSE [req[q] EXCEPT !.alone = req[q].pc = "idle"]]
    /\ requests' = requests + 1
    /\ UNCHANGED <<store, engine, current, snap, doubt, told>>

\* PromoteBeacon, DemoteBeacon, UpsertZone, DeleteZone, SaveAll, SaveSettings:
\* one statement or one transaction.  (SaveSettings comes after a LoadSettings
\* whose failure ends the request as well.)
Write(r) ==
    /\ req[r].pc = "write"
    /\ UNCHANGED <<engine, current, snap, requests>>
    /\ LET f == req[r].form IN
       \/ Refused(f) /\ Refuse(r) /\ UNCHANGED store
       \/ ~Refused(f) /\ store' = Written(f) /\ Goto(r, AfterWrite(f))
          /\ UNCHANGED <<doubt, told>>
       \/ Fail(r) /\ UNCHANGED store
       \/ ~Refused(f) /\ store' = Written(f) /\ Fail(r)

\* rebuildEngineTopology, first query.
ListBeacons(r) ==
    /\ req[r].pc = "listBeacons"
    /\ UNCHANGED <<store, engine, current, snap, requests>>
    /\ \/ /\ req' = [req EXCEPT ![r].pc = "listZones", ![r].read = store.beacons]
          /\ UNCHANGED <<doubt, told>>
       \/ Fail(r)

\* Variant of ListZones with a bug: its error is logged and not returned, so the
\* operator is redirected as if the engine had the change.
ListZonesSwallowed(r) ==
    /\ req[r].pc = "listZones"
    /\ UNCHANGED <<store, engine, current, snap, requests>>
    /\ \/ /\ ValidBeacons(req[r].read)
          /\ req' = [req EXCEPT ![r].pc = "apply",
                       ![r].read = [beacons |-> req[r].read, zones |-> store.zones]]
          /\ UNCHANGED <<doubt, told>>
       \/ Succeed(r)

\* Second query and NewTopology on what the two have read.
ListZones(r) ==
    /\ req[r].pc = "listZones"
    /\ UNCHANGED <<store, engine, current, snap, requests>>
    /\ \/ /\ ValidBeacons(req[r].read)
          /\ req' = [req EXCEPT ![r].pc = "apply",
                       ![r].read = [beacons |-> req[r].read, zones |-> store.zones]]
          /\ UNCHANGED <<doubt, told>>
       \/ Fail(r)

\* The engine takes the topology.  A demotion goes on with the entity, a refresh
\* with the orphans; the other handlers are done.
ApplyTopology(r) ==
    /\ req[r].pc = "apply"
    /\ engine' = [engine EXCEPT !.topology = req[r].read]
    /\ UNCHANGED <<store, current, snap, requests>>
    /\ CASE req[r].form.op = "demote"  -> Goto(r, "remove") /\ UNCHANGED <<doubt, told>>
         [] req[r].form.op = "refresh" -> Goto(r, "listKnown") /\ UNCHANGED <<doubt, told>>
         [] OTHER                      -> Succeed(r)

\* RemoveMQTTEntity: the remove is in the publisher's queue, or was refused.
RemoveEntity(r) ==
    /\ req[r].pc = "remove"
    /\ UNCHANGED <<store, engine, current, snap, requests>>
    /\ Succeed(r) \/ Fail(r)

\* reconcileOrphans: the allowlist is listed again.
ListKnown(r) ==
    /\ req[r].pc = "listKnown"
    /\ UNCHANGED <<store, engine, current, snap, requests>>
    /\ \/ Goto(r, "reconcile") /\ UNCHANGED <<doubt, told>>
       \/ Fail(r)

\* RepublishOrphans has queued a remove for every orphan, or not for all.
Reconcile(r) ==
    /\ req[r].pc = "reconcile"
    /\ UNCHANGED <<store, engine, current, snap, requests>>
    /\ Succeed(r) \/ Fail(r)

\* Variant of ApplyTunables with a bug: the server keeps its old document.
ApplyTunablesOnly(r) ==
    /\ req[r].pc = "applyTunables"
    /\ engine' = [engine EXCEPT !.tunables = req[r].form.t]
    /\ Succeed(r)
    /\ UNCHANGED <<store, current, snap, requests>>

\* The two copies of the tunables, one after the other.
ApplyTunables(r) ==
    /\ req[r].pc = "applyTunables"
    /\ engine' = [engine EXCEPT !.tunables = req[r].form.t]
    /\ Goto(r, "replaceCurrent")
    /\ UNCHANGED <<store, current, snap, requests, doubt, told>>

ReplaceCurrent(r) ==
    /\ req[r].pc = "replaceCurrent"
    /\ current' = req[r].form.t
    /\ Succeed(r)
    /\ UNCHANGED <<store, engine, snap, requests>>

\* SettingsSnapshot.Replace.
ReplaceSnap(r) ==
    /\ req[r].pc = "replaceSnap"
    /\ snap' = req[r].form.s
    /\ Succeed(r)
    /\ UNCHANGED <<store, engine, current, requests>>

-----------------------------------------------------------------------------
(* The rest of the process.                                                *)

\* What boot loads from the tables.
Boot(tables) ==
    /\ engine' = [topology |-> Topology(tables), tunables |-> tables.tunables]
    /\ current' = tables.tunables
    /\ snap' = tables.settings

\* The process dies, with the requests it was serving, and starts again.
Restart ==
    /\ ~Quiet
    /\ Boot(store)
    /\ req' = [r \in Requests |-> Idle]
    /\ doubt' = {} /\ told' = {}
    /\ UNCHANGED <<store, requests>>

\* A process that has just started on the tables as it finds them.
Init ==
    /\ store \in {s \in Tables : ValidBeacons(s.beacons)}
    /\ engine = [topology |-> Topology(store), tunables |-> store.tunables]
    /\ current = store.tunables
    /\ snap = store.settings
    /\ req = [r \in Requests |-> Idle]
    /\ requests = 0
    /\ doubt = {} /\ told = {}

Next ==
    \/ \E r \in Requests :
         \/ Begin(r) \/ Write(r) \/ ListBeacons(r) \/ ListZones(r)
         \/ ApplyTopology(r) \/ RemoveEntity(r) \/ ListKnown(r) \/ Reconcile(r)
         \/ ApplyTunables(r) \/ ReplaceCurrent(r) \/ ReplaceSnap(r)
    \/ Restart

Spec == Init /\ [][Next]_vars

-----------------------------------------------------------------------------
(* Properties.                                                             *)

Copies == {"topology", "tunables", "current", "settings"}

Steps == {"idle", "write", "listBeacons", "listZones", "apply", "remove", "listKnown",
          "reconcile", "applyTunables", "replaceCurrent", "replaceSnap"}

\* What a request has read, at the points where it uses it.
ReadOK(q) ==
    /\ q.pc = "listZones" => q.read \in Lists
    /\ q.pc = "apply" => q.read \in Topologies

\* The steps a kind of request goes through.
FormOK(q) ==
    /\ q.pc # "idle" => q.form \in Form /\ Validated(q.form)
    /\ q.pc = "write" => q.form.op # "refresh"
    /\ q.pc \in {"listBeacons", "listZones", "apply"} =>
         q.form.op \notin {"tunables", "settings"}
    /\ q.pc = "remove" => q.form.op = "demote"
    /\ q.pc \in {"listKnown", "reconcile"} => q.form.op = "refresh"
    /\ q.pc \in {"applyTunables", "replaceCurrent"} => q.form.op = "tunables"
    /\ q.pc = "replaceSnap" => q.form.op = "settings"

\* The requests, without what they have read.
RequestsOK ==
    /\ DOMAIN req = Requests
    /\ \A r \in Requests :
         /\ DOMAIN req[r] = {"pc", "form", "read", "alone"}
         /\ req[r].pc \in Steps /\ req[r].alone \in BOOLEAN
         /\ FormOK(req[r])

\* Only valid rows reach the tables, and only valid values their copies, whatever
\* the forms held.
TypeOK ==
    /\ store \in Tables
    /\ engine \in [topology : Topologies, tunables : Tunables]
    /\ current \in Tunables /\ snap \in Settings
    /\ RequestsOK
    /\ \A r \in Requests : ReadOK(req[r])
    /\ requests \in 0..MaxRequests
    /\ doubt \subseteq Copies /\ told \subseteq Copies

\* No sequence of promotions and demotions, however they interleave, leaves a
\* table, or a list of it on its way to the engine, that NewTopology refuses:
\* every rebuild would fail from then on.
NeverBricked ==
    /\ ValidBeacons(store.beacons)
    /\ ValidBeacons(engine.topology.beacons)
    /\ \A r \in Requests : req[r].pc = "listZones" => ValidBeacons(req[r].read)

\* The copies that may differ from the tables: an operator has been told, or two
\* requests have overlapped, and no request has put them right since.
Excused == doubt \cup told

\* With no request in progress the engine has the topology of the tables, unless
\* requests overlapped or the last change ended on an error page: a rebuild that
\* fails after the commit, or a commit whose answer is lost, never passes as a
\* success.  The next promotion, zone change or refresh that runs alone and
\* succeeds puts the engine right, whatever went wrong before.
EngineFollowsStore ==
    Quiet /\ "topology" \notin Excused => engine.topology = Topology(store)

\* The same for the tunables, of which the engine and the admin server each hold
\* a copy, and for the settings that ingest and retention read.
DocumentsFollowStore ==
    Quiet =>
    /\ "tunables" \notin Excused => engine.tunables = store.tunables
    /\ "current" \notin Excused => current = store.tunables
    /\ "settings" \notin Excused => snap = store.settings

\* "promote/demote take effect immediately": once every request has ended and
\* none has reported a failure, the engine tracks what the table lists.
TakesEffect ==
    Quiet /\ "topology" \notin told =>
        Tracked(engine.topology.beacons) = Tracked(store.beacons)

=============================================================================
