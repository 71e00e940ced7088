----------------------------- MODULE Attachment -----------------------------
(***************************************************************************)
(* A remote is attached: radio controller (wch_central.c), GATT client,    *)
(* adapter and cache store together, against a remote that may change its  *)
(* attribute database and a link, an SDK, an EEPROM and a power supply     *)
(* that may fail.                                                          *)
(*                                                                         *)
(* A GATT message is the sequence of events wch_gatt_on_msg hands to the   *)
(* adapter.  An event is [t, v, op, bump]: op is what cur_op becomes just  *)
(* before the call ("same": no change) and bump what it adds to the        *)
(* generation; the sequence is abandoned once the generation has moved.    *)
(***************************************************************************)
EXTENDS RemoteAdapter

CONSTANTS
    Databases,    \* attribute databases a remote may have, by name
    Budgets       \* what may happen in one behaviour, each as often as its field says:
                  \*   faults   refused submissions, error answers, timeouts, failed writes
                  \*   drops    lost links
                  \*   cuts     power cuts
                  \*   changes  new databases or new remotes
                  \*   peers    pairings

VARIABLES
    a,        \* the adapter
    g,        \* the GATT client: [op, found, off, sdk, commanded]
    ln,       \* the radio: [wc, enc, started, synced, pairing]
    bound,    \* the bonded peer, 0 without one
    counter,  \* the peer counter of the bond journal
    store,    \* the EEPROM copy of the cache
    dev,      \* the remote: [db, ver, mode, subs, reps, notice]
    obs,      \* observers: [confirmed, doubt, lost, misled, blamed]
    left      \* what is left of the budget

vars == <<a, g, ln, bound, counter, store, dev, obs, left>>

-----------------------------------------------------------------------------
\* What a handler works on: see GattClient.  c says what goes wrong in it.
Fine == <<<<>>, "ok">>
World(c) ==
    [op |-> g.op, found |-> g.found, off |-> g.off, sdk |-> g.sdk, commanded |-> g.commanded,
     gen |-> 0, rcs |-> c[1], a |-> a, go |-> FALSE, wc |-> ln.wc, bound |-> bound,
     store |-> store, end |-> c[2], confirmed |-> obs.confirmed, doubt |-> obs.doubt,
     misled |-> obs.misled, blamed |-> obs.blamed \/ "reject" \in Range(c[1])]

Ev(t, v, op, bump) == [t |-> t, v |-> v, op |-> op, bump |-> bump]
Item(t, v) == Ev(t, v, "same", 0)
Done == Ev("PROC_DONE", "", "NONE", 1)                      \* emit_done
ProcError(code) == Ev("PROC_ERROR", code, "NONE", 1)        \* emit_error
BearerFailed(code) == Ev("BEARER_FAILED", code, "FAILED", 1)  \* bearer_failed
Start == Ev("START", counter, "same", 0)                    \* start_encrypted_adapter
TickDue(due) == Ev("TICK", due, "same", 0)

Prepared(w, e) ==
    [w EXCEPT !.op = IF e.op = "same" THEN @ ELSE e.op, !.gen = @ + e.bump,
              !.found = @ \/ e.t = "SERVICE_FOUND",
              !.off = IF e.t = "READ_RSP" /\ w.op = "LONG" THEN e.v.off + e.v.len ELSE @]

\* An event of the adapter and everything it submits in answer.
Answered(w, e) ==
    Settled(CASE e.t = "START" -> start_bound(w, IF ln.pairing THEN 0 ELSE e.v, dev.ver)
              [] e.t = "TICK" -> rc003_adapter_tick(w, e.v)
              [] OTHER -> on_gatt(w, e))

\* Observed: a procedure's event moved an adapter whose own submission was refused.
Watched(v, w, e) ==
    [v EXCEPT !.misled = @ \/ (e.t = "PROC_DONE" /\ w.a.retry /\ v.a.st # w.a.st)]

Call(w, e) == Watched(Answered(Prepared(w, e), e), w, e)

\* Mutant of Heard: the generation is not looked at.
HeardAlways(w, e) == Call(w, e)

\* wch_gatt_on_msg: every event, until one of them has moved the generation.
Heard(w, e) == IF w.gen = 0 \/ e.t = "NOTIFY" THEN Call(w, e) ELSE w
Run(w, events) ==
    LET after[n \in 0..Len(events)] == IF n = 0 THEN w ELSE Heard(after[n - 1], events[n])
    IN  after[Len(events)]

-----------------------------------------------------------------------------
\* What the environment may do to one handler.
Refusals == {<<>>, <<"retry">>, <<"reject">>, <<"ok", "retry">>, <<"ok", "reject">>,
             <<"retry", "retry">>, <<"reject", "retry">>, <<"reject", "reject">>}

Cost(c) == Len(SelectSeq(c[1], LAMBDA r : r # "ok")) + IF c[2] = "ok" THEN 0 ELSE 1

Faulty(cost) ==
    {c \in Refusals \X WriteEnds : /\ Cost(c) + cost <= left.faults
                                   /\ c[2] = "ok" \/ a.peer # 0 \/ a.ready}

Paid(cost) == [left EXCEPT !.faults = @ - cost]

\* The remote after the handler: the Write Command of SET_PROTOCOL_MODE has arrived,
\* unless this remote does not act on it ("stuck").
Remote(w, d) ==
    [d EXCEPT !.mode = IF a.st # "VERIFY_PROTOCOL_MODE" /\ w.a.st = "VERIFY_PROTOCOL_MODE"
                          /\ @ = "boot" THEN "report" ELSE @]

\* The handler ends: every fault chosen for it was met, and is paid for.
Ends(w, l, d, rest) ==
    /\ w.rcs = <<>>
    /\ w.end # "ok" => w.doubt
    /\ a' = w.a
    /\ ln' = [l EXCEPT !.wc = w.wc]
    /\ bound' = w.bound
    /\ g' = [op |-> w.op, found |-> w.found, off |-> w.off, sdk |-> w.sdk,
             commanded |-> w.commanded]
    /\ store' = w.store
    /\ obs' = [obs EXCEPT !.confirmed = w.confirmed, !.doubt = w.doubt, !.misled = w.misled,
                          !.blamed = w.blamed]
    /\ dev' = Remote(w, d)
    /\ left' = rest

\* A call of the adapter: its events, and what goes with them: the procedures the SDK
\* still has, the remote and the link after it, whether the remote is to blame for what
\* follows, whether it was told that its news has arrived, and what the fault costs.
Input(events) ==
    [events |-> events, sdk |-> g.sdk, dev |-> dev, ln |-> ln, blamed |-> FALSE,
     confirmed |-> FALSE, cost |-> 0]

Given(w, i) ==
    [w EXCEPT !.sdk = i.sdk, !.blamed = @ \/ i.blamed, !.confirmed = @ \/ i.confirmed]

-----------------------------------------------------------------------------
\* The remote's answers.  CCCD is the characteristic whose descriptor is meant.
CCCD == [SUB_CHANGED |-> "changed", SUBSCRIBE_BATTERY |-> "level", SUBSCRIBE_CTL |-> "ctl",
         SUBSCRIBE_AUDIO |-> "audio", UNICOM_SUB |-> "fd"]

Times(n, x) == [i \in 1..n |-> x]

ReportDescs(r, last) ==
    Times(IF r.ref THEN 1 ELSE 0, Item("DESC_FOUND", "ref"))
    \o Times(IF r.cccd THEN 1 ELSE 0, Item("DESC_FOUND", "cccd"))
    \o <<Item("DESC_FOUND", "decl")>>
    \o Times(IF last THEN 1 ELSE 0, Item("DESC_FOUND", "cccd"))

\* What a discovery procedure finds.
Discovered(p, db) ==
    CASE p.op = "SVC" -> Times(IF Looks[p.st] \in db.has THEN 1 ELSE 0, Item("SERVICE_FOUND", TRUE))
      [] p.st = "ENUM_REPORT_CHARS" ->
            [i \in DOMAIN db.reports |-> Item("CHARS_FOUND", [room |-> db.reports[i].room,
                                                              fit |-> db.reports[i].fit])]
      [] p.op = "CHARS" ->
            Times(IF Looks[p.st] \notin db.has THEN 0 ELSE IF Looks[p.st] \in db.twice THEN 2 ELSE 1,
                  Item("CHARS_FOUND", Looks[p.st] \notin db.odd))
      [] p.st = "DISC_DESCS" ->
            IF a.cur > Len(db.reports) THEN <<>>
            ELSE ReportDescs(db.reports[a.cur], a.cur = Len(a.chars))
      [] OTHER -> Times(IF Looks[p.st] \in db.has THEN 1 ELSE 0, Item("DESC_FOUND", "cccd"))
                  \o <<Item("DESC_FOUND", "decl"), Item("DESC_FOUND", "cccd")>>

\* The end of a search the remote answers with ATTR_NOT_FOUND.
NotFound(p) ==
    IF p.op = "SVC" /\ ~ g.found THEN <<Ev("SERVICE_NOT_FOUND", "", "NONE", 0)>> ELSE <<Done>>

\* What a read returns.
Read(st, db) ==
    CASE st = "READ_MAP" -> [off |-> 0, len |-> 1, more |-> db.chunks > 1 \/ db.exact, map |-> db.map]
      [] st \in {"READ_PROTOCOL_MODE", "VERIFY_PROTOCOL_MODE"} ->
            IF dev.mode = "stuck" THEN "boot" ELSE dev.mode
      [] st = "READ_REPORT_REF" ->
            IF a.cur > Len(db.reports) THEN [ok |-> FALSE]
            ELSE [ok |-> TRUE, id |-> db.reports[a.cur].id, type |-> db.reports[a.cur].type]
      [] OTHER -> "ok"

Blob(db) ==
    [off |-> g.off, len |-> IF g.off < db.chunks THEN 1 ELSE 0, map |-> db.map,
     more |-> g.off + 1 < db.chunks \/ (g.off < db.chunks /\ db.exact)]

\* The messages that answer a procedure: [events, part], part for one that more follow.
Answers(p, db) ==
    CASE p.op \in {"SVC", "CHARS", "DESCS"} ->
            IF p.part \/ Discovered(p, db) = <<>> THEN {[events |-> NotFound(p), part |-> FALSE]}
            ELSE {[events |-> Discovered(p, db) \o <<Done>>, part |-> FALSE],
                  [events |-> Discovered(p, db), part |-> TRUE]}
      [] p.op = "MTU" -> {[events |-> <<Ev("MTU_UPDATED", "", "NONE", 0), Done>>, part |-> FALSE]}
      [] p.op = "WRITE" -> {[events |-> <<Ev("WRITE_DONE", "", "NONE", 0), Done>>, part |-> FALSE]}
      [] p.op = "READ" -> {[events |-> <<Ev("READ_RSP", Read(p.st, db), "NONE", 0)>>, part |-> FALSE]}
      [] OTHER -> {[events |-> <<Ev("READ_RSP", Blob(db), IF Blob(db).more THEN "same" ELSE "NONE", 0)>>,
                    part |-> Blob(db).more]}

\* The remote stores what a Write Request to a CCCD said.
Written(p, d) ==
    IF p.op # "WRITE" \/ a.ver # d.ver THEN d
    ELSE IF p.st = "SUBSCRIBE_REPORT" THEN [d EXCEPT !.reps = @ \cup {a.cur}]
    ELSE [d EXCEPT !.subs = @ \cup {CCCD[p.st]}]

\* The SDK delivers an answer of the remote and forgets the procedure after the last one.
Replies ==
    UNION {{[Input(m.events) EXCEPT !.sdk = IF m.part THEN {[p EXCEPT !.part = TRUE]} ELSE {},
                                    !.dev = Written(p, dev),
                                    !.blamed = a.ver # dev.ver \/ dev.mode = "stuck"] :
              m \in Answers(p, Databases[dev.db])} : p \in g.sdk}

\* An error response of the remote to this procedure; an error to an earlier Write Command,
\* a timeout, a message that is not well formed or a flow control violation, all of which
\* end the bearer.
Complaints ==
    {[Input(<<ProcError(code)>>) EXCEPT !.sdk = {}, !.blamed = TRUE, !.cost = 1] :
        code \in IF g.sdk = {} THEN {} ELSE {"err", "sync"}}
    \cup {[Input(<<BearerFailed("other")>>) EXCEPT !.sdk = {}, !.cost = 1]}
    \cup {[Input(<<BearerFailed("sync")>>) EXCEPT !.sdk = {}, !.blamed = TRUE, !.cost = 1] :
            x \in {TRUE} \cap {g.commanded}}

\* process: the adapter is started as soon as the link is encrypted, before a message
\* is looked at.
MayStart == ~ ln.started /\ ln.enc # "no"
Starting == IF MayStart THEN <<Start>> ELSE <<>>
Started == IF MayStart THEN [ln EXCEPT !.started = TRUE, !.synced = FALSE] ELSE ln

\* A notification the remote sends because a CCCD is set; one that makes no sense is a fault.
Notified ==
    (IF "ctl" \in dev.subs THEN {"caps", "badcaps"} ELSE {})
    \cup (IF "fd" \in dev.subs THEN {"hello", "badhello"} ELSE {})

Notifications ==
    {[Input(Starting \o <<Item("NOTIFY", v)>>) EXCEPT
         !.ln = Started, !.blamed = v \in {"badcaps", "badhello"},
         !.cost = IF v \in {"badcaps", "badhello"} THEN 1 ELSE 0] : v \in Notified}

\* The Service Changed indication; the confirmation goes out before the adapter hears.
\* An SDK that refuses the confirmation lets the remote repeat the indication.
Indications ==
    {[Input(<<Item("NOTIFY", "changed")>>) EXCEPT
         !.blamed = TRUE, !.dev.notice = ~ cfm, !.cost = IF cfm THEN 0 ELSE 1,
         !.confirmed = cfm /\ board_cache_load(store, bound) # Tombstone] :
            cfm \in IF dev.notice THEN BOOLEAN ELSE {}}

\* wch_gatt_on_msg: what reaches it, unless the bearer has failed.
Messages ==
    IF g.op = "FAILED" THEN {}
    ELSE Replies \cup Complaints \cup IF ln.enc = "no" THEN {} ELSE Notifications \cup Indications

\* rc003_adapter_tick.  A wait for a notification that will not come ends for free.
Silent ==
    \/ a.st = "UNICOM_WAIT"
    \/ a.st = "PREHANDSHAKE" /\ ~ a.retry /\ (a.caps \/ "ctl" \notin dev.subs)

Ticks ==
    {[Input(<<TickDue(due)>>) EXCEPT !.cost = IF due = "none" \/ Silent THEN 0 ELSE 1] :
        due \in {d \in {"none", "step", "attempt"} :
                    /\ Running(a)
                    /\ d = "none" => a.retry \/ (a.st = "UNICOM_WAIT" /\ a.hello)}}

\* poll and process: start_encrypted_adapter.
Starts == {[Input(<<Start>>) EXCEPT !.ln = Started] : x \in {TRUE} \cap {MayStart}}

\* Everything that calls the adapter on an established link.
Adapter ==
    \E i \in Messages \cup Ticks \cup Starts :
      \E c \in Faulty(i.cost) :
        /\ ln.wc = "CONNECTED"
        /\ Ends(Run(Given(World(c), i), i.events), i.ln, i.dev, Paid(Cost(c) + i.cost))
        /\ UNCHANGED counter

-----------------------------------------------------------------------------
\* GAP_LINK_ESTABLISHED_EVENT: to the bonded remote, or to one that is to be bonded.
LinkUp ==
    \E mode \in {"boot", "report", "stuck"} :
        /\ ln.wc = "IDLE"
        /\ bound # 0 \/ left.peers > 0
        /\ counter' = IF bound = 0 THEN counter + 1 ELSE counter
        /\ Ends([set_conn(World(Fine), TRUE) EXCEPT !.wc = "CONNECTED", !.blamed = FALSE],
                [ln EXCEPT !.enc = "no", !.started = FALSE, !.pairing = (bound = 0)],
                [dev EXCEPT !.mode = mode],
                [Paid(IF mode = "stuck" THEN 1 ELSE 0) EXCEPT !.peers = IF bound = 0 THEN @ - 1 ELSE @])
        /\ mode = "report" \/ "mode" \in Databases[dev.db].has
        /\ left.faults > 0 \/ mode # "stuck"

\* SDK: the link is encrypted; with a pairing, the bond is saved later.  (Nothing asks for
\* the bond before the adapter is ready, so it comes after that.)
Secured ==
    /\ ln.wc = "CONNECTED"
    /\ ln.enc = "no" \/ (ln.pairing /\ ln.enc = "enc" /\ a.ready)
    /\ ln' = [ln EXCEPT !.enc = IF @ = "no" THEN "enc" ELSE "bond"]
    /\ UNCHANGED <<a, g, bound, counter, store, dev, obs, left>>

\* poll on an established link whose adapter was started: commit the bond (stored says
\* whether the journal could be written), give up after the deadline, save the cache once.
Paired == ln.pairing /\ ln.enc = "bond" /\ a.ready
Overdue == ~ ln.started \/ (ln.pairing /\ ln.enc # "bond")

finish_pair(w, stored) ==
    IF stored THEN [w EXCEPT !.a = commit_bond(@, counter), !.bound = counter] ELSE rb_disconnect(w)

Polled(w, late, stored) ==
    CASE Paired -> finish_pair(w, stored)
      [] late -> rb_disconnect(w)
      [] OTHER -> w

Saved(w, pairing) == IF w.a.ready /\ ~ ln.synced /\ ~ pairing THEN sync_gatt_cache(w) ELSE w

Poll ==
    \E c \in Faulty(0), late \in {FALSE, Overdue}, stored \in {TRUE, ~ Paired} :
      \E w \in {Polled(World(c), late, stored)} :
        /\ ln.wc = "CONNECTED" /\ ~ MayStart
        /\ Paired \/ late \/ (a.ready /\ ~ ln.synced /\ ~ ln.pairing)
        /\ Cost(c) + (IF late \/ ~ stored THEN 1 ELSE 0) <= left.faults
        /\ Ends(Saved(w, ln.pairing /\ ~ Paired),
                [ln EXCEPT !.synced = @ \/ (w.a.ready /\ (Paired \/ ~ ln.pairing)),
                           !.pairing = @ /\ ~ Paired /\ ~ late],
                dev, Paid(Cost(c) + IF late \/ ~ stored THEN 1 ELSE 0))
        /\ UNCHANGED counter

\* GAP_LINK_TERMINATED_EVENT.
Unbonded(d, b) == IF b # 0 THEN d ELSE [d EXCEPT !.subs = {}, !.reps = {}, !.notice = FALSE]

Lost == IF ln.wc = "CONNECTED" THEN 1 ELSE 0

LinkDown ==
    \E c \in Faulty(0) :
      LET w == sync_gatt_cache(set_conn([World(c) EXCEPT !.wc = "IDLE"], FALSE))
      IN  /\ ln.wc \in {"CONNECTED", "DISCONNECTING"} /\ Lost <= left.drops
          /\ Ends([w EXCEPT !.a = rc003_adapter_detach(@)],
                  [ln EXCEPT !.enc = "no", !.started = FALSE, !.pairing = FALSE],
                  Unbonded(dev, bound), [Paid(Cost(c)) EXCEPT !.drops = @ - Lost])
          /\ UNCHANGED counter

\* rb_forget_peer, once the journal has the intent; the recovery that follows erases
\* the bond before the radio is used again.
Forget ==
    /\ bound # 0 /\ left.peers > 0
    /\ Ends(rb_disconnect([World(Fine) EXCEPT !.bound = 0]), ln,
            IF ln.wc = "IDLE" THEN Unbonded(dev, 0) ELSE dev, left)
    /\ UNCHANGED counter

-----------------------------------------------------------------------------
\* Power fails and comes back: wch_central_init.  A cache it cannot use is deleted.
PowerCut ==
    \E c \in {r \in Faulty(0) : r[1] = <<>>} :
      LET s == Loaded(store.slots)
          data == board_cache_load(s, bound)
          bad == data # Tombstone /\ ~ Importable(data)
      IN  /\ left.cuts > 0
          /\ c[2] # "ok" => bad
          /\ a' = IF data # Tombstone /\ ~ bad THEN rc003_adapter_cache_import(data, bound) ELSE Blank
          /\ store' = IF bad THEN board_cache_save(s, bound, Tombstone, bound, c[2]) ELSE s
          /\ g' = [op |-> "FAILED", found |-> FALSE, off |-> 0, sdk |-> {}, commanded |-> FALSE]
          /\ ln' = [wc |-> "IDLE", enc |-> "no", started |-> FALSE, synced |-> FALSE, pairing |-> FALSE]
          /\ obs' = [obs EXCEPT !.lost = @ \/ obs.confirmed \/ obs.doubt, !.confirmed = FALSE,
                                !.doubt = @ \/ (bad /\ c[2] # "ok"), !.blamed = FALSE]
          /\ dev' = Unbonded(dev, bound)
          /\ left' = [left EXCEPT !.cuts = @ - 1, !.faults = @ - Cost(c)]
          /\ UNCHANGED <<bound, counter>>

\* The remote gets a new database.  With a Service Changed characteristic it tells the
\* clients that subscribed to it; without one its database never changes.
DatabaseChanges ==
    \E db \in DOMAIN Databases :
        /\ bound # 0 \/ ln.wc = "CONNECTED"
        /\ left.changes > 0
        /\ \A x \in {dev.db, db} : "changed" \in Databases[x].has \ Databases[x].odd
        /\ ln.wc = "IDLE" \/ "changed" \in dev.subs
        /\ dev' = [dev EXCEPT !.db = db, !.ver = @ + 1, !.subs = @ \cap {"changed"}, !.reps = {},
                              !.notice = "changed" \in dev.subs]
        /\ left' = [left EXCEPT !.changes = @ - 1]
        /\ UNCHANGED <<a, g, ln, bound, counter, store, obs>>

\* Another remote is there to be paired.
AnotherRemote ==
    \E db \in DOMAIN Databases :
        /\ bound = 0 /\ ln.wc = "IDLE" /\ counter > 0
        /\ left.changes > 0 /\ left.peers > 0
        /\ dev' = [Unbonded(dev, 0) EXCEPT !.db = db, !.ver = @ + 1]
        /\ left' = [left EXCEPT !.changes = @ - 1]
        /\ UNCHANGED <<a, g, ln, bound, counter, store, obs>>

Init ==
    /\ a = Blank
    /\ g = [op |-> "FAILED", found |-> FALSE, off |-> 0, sdk |-> {}, commanded |-> FALSE]
    /\ ln = [wc |-> "IDLE", enc |-> "no", started |-> FALSE, synced |-> FALSE, pairing |-> FALSE]
    /\ bound = 0 /\ counter = 0
    /\ store = Loaded([i \in 0..1 |-> NoPage])
    /\ dev \in [db : DOMAIN Databases, ver : {1}, mode : {"report"}, subs : {{}}, reps : {{}}, notice : {FALSE}]
    /\ obs = [confirmed |-> FALSE, doubt |-> FALSE, lost |-> FALSE, misled |-> FALSE, blamed |-> FALSE]
    /\ left \in Budgets

\* The bridge or the SDK has something to do, or the remote to answer.
Busy ==
    \/ ln.wc = "IDLE" /\ (bound # 0 \/ left.peers > 0)
    \/ ln.wc = "DISCONNECTING"
    \/ ln.wc = "CONNECTED" /\ (ln.enc = "no" \/ ~ ln.started \/ Running(a))

\* Nothing is left to do.  (Anything else that cannot move on is a deadlock.)
Rest == ~ Busy /\ UNCHANGED vars

Next ==
    \/ Adapter \/ LinkUp \/ Secured \/ Poll
    \/ LinkDown \/ Forget \/ PowerCut
    \/ DatabaseChanges \/ AnotherRemote
    \/ Rest

Spec == Init /\ [][Next]_vars

\* The remote can send its Service Changed indication.
Reachable == ln.wc = "CONNECTED" /\ ln.enc # "no" /\ g.op # "FAILED"

\* The main loop and TMOS serve polls, ticks and messages for ever, the SDK ends a link it
\* was told to end, and the remote answers: as long as there is something to do, something
\* is done.  What may go wrong is bounded, so no fault can take its place for ever.  And a
\* remote with news does not withhold it on one link after the other.
FairSpec ==
    /\ Spec
    /\ []<>~ Busy \/ []<><<TRUE>>_vars
    /\ []<>~ dev.notice \/ <>[]~ Reachable

-----------------------------------------------------------------------------
\* The type invariant: the records of the model and, with them, the SDK's limit of one
\* procedure at a time, asked for by the adapter's present state (gatt_client.h).
TypeOK ==
    /\ ln.wc \in {"IDLE", "CONNECTED", "DISCONNECTING"} /\ ln.enc \in {"no", "enc", "bond"}
    /\ bound \in {0, counter} /\ counter \in Nat
    /\ DOMAIN a = DOMAIN Blank
    /\ a.cur \in 1..(Len(a.chars) + 1) /\ Len(a.chars) <= MaxReports /\ a.mapLen <= MaxMap
    /\ store.cur \in -1..1 /\ store.gen \in 0..MaxGeneration
    /\ \A k \in DOMAIN left : left[k] \in Nat

\* The SDK has at most one procedure outstanding, and it is the one the client and the
\* adapter wait for: an answer can never be taken for the answer to another question
\* (wch_gatt.c cur_op, rc003_adapter.c state).
OneProcedure ==
    /\ Cardinality(g.sdk) <= 1
    /\ g.op \in Procedures <=> (g.sdk # {} /\ g.op # "FAILED")
    /\ g.op \in Procedures =>
         \A p \in g.sdk : p.op = g.op /\ p.st = a.st /\ ProcedureOf(a.st) = g.op /\ ~ a.retry

\* wch_gatt.c, rc003_adapter.c: the records keep their shape, and no answer can go to the
\* wrong question.
AttachInv == TypeOK /\ OneProcedure

\* A copy of an old attribute database, in RAM or as the record a boot would load, is kept
\* only while the remote still has to tell that it changed - or after a failed EEPROM
\* write, or a power cut between the confirmation and the tombstone.
Copies ==
    (IF a.valid THEN {a.ver} ELSE {})
    \cup IF board_cache_load(Loaded(store.slots), bound) = Tombstone
            \/ (obs.confirmed /\ ln.wc # "IDLE") THEN {}
         ELSE {board_cache_load(Loaded(store.slots), bound).ver}
StaleIsAnnounced ==
    bound # 0 => \A v \in Copies : v = dev.ver \/ dev.notice \/ obs.doubt \/ obs.lost

\* What a remote needs to be attached: the reference for the whole discovery.
Subscribable(db, id) ==
    \E i \in DOMAIN db.reports : i <= MaxReports /\ db.reports[i].id = id /\ db.reports[i].type = 1
        /\ db.reports[i].ref /\ db.reports[i].cccd /\ db.reports[i].room
Supported(db) ==
    /\ {"hid", "hidInfo", "map"} \subseteq db.has
    /\ "hidInfo" \notin db.odd \cup db.twice
    /\ "mode" \in db.has => "mode" \notin db.odd
    /\ db.map.kind # "other" /\ db.chunks <= MaxMap /\ db.map.inputs # {}
    /\ \A id \in db.map.inputs : Subscribable(db, id)
    /\ db.map.kind = "unicom" =>
         {"fd00", "fd", "fdCccd"} \subseteq db.has \ (db.odd \cup db.twice)

\* READY tells the truth about the remote: it is one the bridge supports, it is in report
\* protocol mode, every mapped input report and the voice characteristics notify - also
\* when the attributes come from a cache and the CCCDs from an earlier link.
ReadyMeansAttached ==
    a.st = "DONE" /\ a.ver = dev.ver =>
        /\ Supported(Databases[dev.db])
        /\ "mode" \in Databases[dev.db].has => dev.mode = "report"
        /\ \A id \in a.inputs : \E i \in dev.reps : a.chars[i].id = id
        /\ a.voice = "READY" => (IF a.sel THEN {"fd"} ELSE {"ctl", "audio"}) \subseteq dev.subs

\* A cache that was written can be read again: discovery and import agree on what a
\* complete database is.  (A report without a Report Reference is the exception.)
StoredCacheImports ==
    \A i \in 0..1 :
        store.slots[i] # NoPage /\ store.slots[i].data # Tombstone =>
            \/ Importable(store.slots[i].data)
            \/ \E c \in Range(store.slots[i].data.chars) : c.type = 0

\* cache_store.inc, rb_disconnect: what is kept of a database can be used again and is
\* not out of date unannounced.
CacheIsSound == StoredCacheImports /\ StaleIsAnnounced

\* "Transport loss closes this attempt, not the bonded attribute database"
\* (rc003_adapter.c:76): the database of a bonded remote is dropped only for something the
\* remote said or the SDK refused on this link, for a Unicom remote without a hello, or
\* for a bearer that had failed before the adapter was started on it.
TransportKeepsCache ==
    [][a.valid /\ ~ a'.valid /\ bound # 0 /\ bound' = bound =>
          \/ obs'.blamed \/ left'.cuts # left.cuts
          \/ g.op = "FAILED" /\ ~ ln.started
          \/ a'.sel /\ a'.voice = "UNSUPPORTED"]_vars

\* A submission refused with RETRY is repeated before the adapter moves on
\* (gatt_client.h:19 "Retry only that submission").
RefusedIsRepeated == ~ obs.misled

\* However the links failed, a supported remote is attached in the end, unless a failed
\* EEPROM write or a power cut has left a cache that the remote will not correct.
Attaches ==
    []<>(\/ a.st = "DONE" \/ ~ Supported(Databases[dev.db]) \/ obs.doubt \/ obs.lost
         \/ bound = 0 /\ left.peers = 0)
=============================================================================
