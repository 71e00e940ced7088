--------------------------- MODULE RemoteAdapter ---------------------------
(***************************************************************************)
(* Attachment of a remote (rc003_adapter.c): the discovery state machine,  *)
(* its restoration from a cache and the cache's import and export.         *)
(*                                                                         *)
(* A handle the adapter holds is the name of the attribute it belongs to,  *)
(* and ver says from which version of the remote's database the handles    *)
(* come.  A report characteristic is [id, type, ref, cccd, room, fit,      *)
(* sub]: fit says that its properties suit its use, id and type are 0      *)
(* until its Report Reference was read.  Lengths and offsets of the Report *)
(* Map count responses.                                                    *)
(*                                                                         *)
(* begin_next ends by calling itself or handle_op_failure, always as the   *)
(* last thing it does: w.go says that begin_next has yet to be called, and *)
(* Settled runs it until nothing is left to call.                          *)
(***************************************************************************)
EXTENDS GattClient, GattCacheStore, SequencesExt

CONSTANTS
    MaxReports,      \* RC003_MAX_REPORT_CHARS
    MaxMap,          \* HOGP_MAX_MAP_SIZE, in responses
    UnicomInputs,    \* report ids of the measured Unicom layout: keys and audio
    UnicomOutputs    \* and its command reports

\* The state of an adapter without a link, without a database and without a cache.
Blank ==
    [st |-> "IDLE", retry |-> FALSE, restoring |-> FALSE, ready |-> FALSE,
     voice |-> "NONE", caps |-> FALSE, capsReq |-> FALSE, sel |-> FALSE, hello |-> FALSE,
     safe |-> FALSE, valid |-> FALSE, peer |-> 0, h |-> {}, edge |-> FALSE,
     mapLen |-> 0, mapLong |-> FALSE, inputs |-> {}, chars |-> <<>>, cur |-> 1, ver |-> 0]

\* The attribute a discovery state looks for ...
Looks ==
    [FIND_GATT_SVC |-> "gatt", FIND_CHANGED_CHAR |-> "changed",
     DISC_CHANGED_DESC |-> "changedCccd", FIND_HID_SVC |-> "hid",
     FIND_HID_INFO |-> "hidInfo", FIND_PROTOCOL_MODE |-> "mode", FIND_MAP_CHAR |-> "map",
     FIND_BAT_SVC |-> "bat", FIND_BAT_CHAR |-> "level", DISC_BAT_DESCS |-> "levelCccd",
     FIND_ATVV_SVC |-> "atvv", FIND_ATVV_TX |-> "tx", FIND_ATVV_CTL |-> "ctl",
     DISC_CTL_DESC |-> "ctlCccd", FIND_ATVV_AUDIO |-> "audio",
     DISC_AUDIO_DESC |-> "audioCccd", UNICOM_SERVICE |-> "fd00", UNICOM_CHAR |-> "fd",
     UNICOM_DESC |-> "fdCccd"]

\* ... and the state that follows once it is found.
After ==
    [FIND_GATT_SVC |-> "FIND_CHANGED_CHAR", FIND_CHANGED_CHAR |-> "DISC_CHANGED_DESC",
     DISC_CHANGED_DESC |-> "SUB_CHANGED", FIND_HID_SVC |-> "FIND_HID_INFO",
     FIND_HID_INFO |-> "READ_HID_INFO", FIND_PROTOCOL_MODE |-> "READ_PROTOCOL_MODE",
     FIND_MAP_CHAR |-> "READ_MAP", FIND_BAT_SVC |-> "FIND_BAT_CHAR",
     FIND_BAT_CHAR |-> "DISC_BAT_DESCS", DISC_BAT_DESCS |-> "READ_BATTERY",
     FIND_ATVV_SVC |-> "FIND_ATVV_TX", FIND_ATVV_TX |-> "FIND_ATVV_CTL",
     FIND_ATVV_CTL |-> "DISC_CTL_DESC", DISC_CTL_DESC |-> "SUBSCRIBE_CTL",
     FIND_ATVV_AUDIO |-> "DISC_AUDIO_DESC", DISC_AUDIO_DESC |-> "SUBSCRIBE_AUDIO",
     UNICOM_SERVICE |-> "UNICOM_CHAR", UNICOM_CHAR |-> "UNICOM_DESC",
     UNICOM_DESC |-> "UNICOM_SUB"]

FindStates == DOMAIN Looks
Services == {"gatt", "hid", "bat", "atvv", "fd00"}
Descriptors == {"changedCccd", "levelCccd", "ctlCccd", "audioCccd", "fdCccd"}
UnicomStates == {"UNICOM_SERVICE", "UNICOM_CHAR", "UNICOM_DESC", "UNICOM_SUB"}

\* The procedure begin_next submits in a state.
ProcedureOf(s) ==
    CASE s = "MTU" -> "MTU"
      [] s \in FindStates -> IF Looks[s] \in Services THEN "SVC"
                             ELSE IF Looks[s] \in Descriptors THEN "DESCS" ELSE "CHARS"
      [] s = "ENUM_REPORT_CHARS" -> "CHARS"
      [] s = "DISC_DESCS" -> "DESCS"
      [] s = "READ_MAP_CONT" -> "LONG"
      [] s \in {"READ_HID_INFO", "READ_PROTOCOL_MODE", "VERIFY_PROTOCOL_MODE", "READ_MAP",
                "READ_REPORT_REF", "READ_BATTERY"} -> "READ"
      [] OTHER -> "WRITE"

-----------------------------------------------------------------------------
\* The handles rc003_adapter_cache_export writes; service ranges are not among them.
Persisted == {"mode", "hidInfo", "map", "level", "levelCccd", "tx", "ctl", "ctlCccd",
              "audio", "audioCccd", "changed", "changedCccd", "fd", "fdCccd", "atvv"}

rc003_adapter_cache_export(a) ==
    IF a.valid /\ a.safe /\ a.peer # 0 /\ a.chars # <<>>
    THEN [sel |-> a.sel, h |-> a.h \cap Persisted, inputs |-> a.inputs,
          chars |-> a.chars, ver |-> a.ver]
    ELSE Tombstone

\* unicom_reports: every report of the measured layout exactly once, inputs subscribed.
unicom_reports(chars) ==
    /\ Len(chars) = Cardinality(UnicomInputs \cup UnicomOutputs)
    /\ \A id \in UnicomInputs \cup UnicomOutputs :
         \E i \in DOMAIN chars :
            /\ chars[i].id = id
            /\ chars[i].type = IF id \in UnicomOutputs THEN 2 ELSE 1
            /\ chars[i].fit
            /\ id \in UnicomOutputs \/ chars[i].sub
            /\ \A j \in DOMAIN chars \ {i} : chars[j].id # id

\* rc003_adapter_cache_import: what a stored cache has to satisfy.
Importable(c) ==
    /\ \A i \in DOMAIN c.chars :
         /\ c.chars[i].type \in 1..3
         /\ c.chars[i].sub => c.chars[i].cccd
    /\ IF c.sel THEN {"fd", "fdCccd"} \subseteq c.h /\ unicom_reports(c.chars)
       ELSE {"atvv", "tx", "ctl", "ctlCccd", "audio", "audioCccd"} \subseteq c.h
    /\ "changed" \in c.h => "changedCccd" \in c.h

rc003_adapter_cache_import(c, peer) ==
    [Blank EXCEPT !.sel = c.sel, !.h = c.h, !.inputs = c.inputs, !.chars = c.chars,
                  !.ver = c.ver, !.peer = peer, !.safe = TRUE, !.valid = TRUE]

-----------------------------------------------------------------------------
\* rc003_adapter_detach: a valid database survives the link, nothing else does.
\* (The service range stays too, but start_op clears it before it is read.)
rc003_adapter_detach(a) ==
    IF a.valid
    THEN [a EXCEPT !.st = "IDLE", !.h = @ \cap Persisted, !.retry = FALSE, !.ready = FALSE, !.voice = "NONE",
                   !.restoring = FALSE, !.caps = FALSE, !.capsReq = FALSE, !.hello = FALSE]
    ELSE Blank

\* sync_gatt_cache: the RAM database, or a tombstone for the peer it was of.  The
\* observer doubt stands from a save that failed to the next one that writes.
sync_gatt_cache(w) ==
    IF \/ w.bound = 0 \/ w.a.peer = 0
       \/ w.a.valid /\ rc003_adapter_cache_export(w.a) = Tombstone
    THEN w
    ELSE [w EXCEPT
            !.store = board_cache_save(@, w.a.peer, rc003_adapter_cache_export(w.a),
                                       w.bound, w.end),
            !.confirmed = FALSE,
            !.doubt = IF ~ SaveAllowed(w.store, w.a.peer, w.bound) \/ w.end = "unread" THEN TRUE
                      ELSE IF ~ SaveNeeded(w.store, w.a.peer, rc003_adapter_cache_export(w.a))
                      THEN @ ELSE w.end # "ok"]

\* Mutant of rb_disconnect: the cache is left to the end of the link.
DisconnectUnsaved(w) ==
    IF w.wc # "CONNECTED" THEN w
    ELSE [wch_gatt_quiesce(w) EXCEPT !.a = rc003_adapter_detach(@), !.wc = "DISCONNECTING",
                                     !.go = FALSE]

\* rb_disconnect on an established link.
rb_disconnect(w) ==
    IF w.wc # "CONNECTED" THEN w
    ELSE LET q == sync_gatt_cache(wch_gatt_quiesce(w))
         IN  [q EXCEPT !.a = rc003_adapter_detach(@), !.wc = "DISCONNECTING", !.go = FALSE]

\* fail_init with rbp_server_adapter_failed: the link is given up.
fail_init(w, invalidate) ==
    rb_disconnect([w EXCEPT !.a.st = "FAILED", !.go = FALSE,
                            !.a.valid = @ /\ ~ invalidate, !.a.safe = @ /\ ~ invalidate])

fail_initialization(w) == fail_init(w, TRUE)

\* Mutant of fail_transport: every failure costs the database.
FailTransportDrops(w) == fail_init(w, TRUE)

fail_transport(w) == fail_init(w, FALSE)

\* start_op, and the begin_next that follows it.
start_op(w, s) ==
    LET t == IF s = "FIND_ATVV_SVC" /\ w.a.sel THEN "UNICOM_SERVICE" ELSE s
    IN  [w EXCEPT !.a.st = t, !.a.retry = FALSE, !.go = TRUE,
                  !.a.h = IF t \in FindStates /\ Looks[t] \in Services \ {"atvv"}
                          THEN @ \ {Looks[t]} ELSE @,
                  !.a.edge = @ /\ t # "DISC_DESCS" /\ (t \in FindStates => Looks[t] \notin Descriptors),
                  !.a.capsReq = @ /\ t # "PREHANDSHAKE"]

\* What a restored attachment does after the Service Changed subscription and after
\* the protocol mode.
RestoreVoice(a) ==
    IF a.sel THEN "UNICOM_SUB" ELSE IF "level" \in a.h THEN "READ_BATTERY" ELSE "SUBSCRIBE_CTL"
RestoreMode(a) == IF "mode" \in a.h THEN "READ_PROTOCOL_MODE" ELSE RestoreVoice(a)
RestoreFirst(a) == IF "changedCccd" \in a.h THEN "SUB_CHANGED" ELSE RestoreMode(a)

\* rc003_adapter_start_bound, for RBP_ATT_MTU = 23.
start_bound(w, peer, ver) ==
    IF peer # 0 /\ w.a.valid /\ w.a.peer = peer
    THEN start_op([w EXCEPT !.a.restoring = TRUE], IF w.a.sel THEN RestoreFirst(w.a) ELSE "MTU")
    ELSE start_op([w EXCEPT !.a = [Blank EXCEPT !.peer = peer, !.ver = ver]], "MTU")

\* rc003_adapter_commit_bond.
commit_bond(a, peer) ==
    IF ~ a.ready THEN a
    ELSE [a EXCEPT !.peer = peer, !.valid = a.safe /\ a.voice = "READY"]

\* Mutant of finish_voice_ready: a restored attachment waits for something else.
FinishFreshOnly(w) ==
    IF w.a.st = "PREHANDSHAKE" /\ w.a.caps /\ "atvv" \in w.a.h /\ w.a.capsReq /\ ~ w.a.restoring
    THEN [w EXCEPT !.a.voice = "READY", !.a.st = "DONE", !.a.ready = TRUE, !.a.retry = FALSE,
                   !.a.valid = w.a.safe /\ w.a.peer # 0]
    ELSE w

\* finish_voice_ready: CAPS were asked for and came, in either order.
finish_voice_ready(w) ==
    IF w.a.st = "PREHANDSHAKE" /\ w.a.caps /\ "atvv" \in w.a.h /\ w.a.capsReq
    THEN [w EXCEPT !.a.voice = "READY", !.a.st = "DONE", !.a.ready = TRUE, !.a.retry = FALSE,
                   !.a.valid = w.a.safe /\ w.a.peer # 0, !.a.restoring = FALSE]
    ELSE w

\* unicom_ready: without the remote's hello the keys work and voice does not.
unicom_ready(w) ==
    [w EXCEPT !.a.st = "DONE", !.a.ready = TRUE, !.a.retry = FALSE,
              !.a.voice = IF w.a.hello THEN "READY" ELSE "UNSUPPORTED",
              !.a.valid = w.a.safe /\ w.a.peer # 0 /\ w.a.hello, !.a.restoring = FALSE]

-----------------------------------------------------------------------------
\* No voice service, or one that failed: the keys stay usable (handle_op_failure).
KeysOnly(w, voice) ==
    [w EXCEPT !.a.st = "DONE", !.a.ready = TRUE, !.a.retry = FALSE,
              !.a.h = @ \ {"atvv"}, !.a.voice = voice]

\* handle_op_failure: what is optional is skipped, anything else ends the attempt.
\* A restored attachment has nothing optional.
handle_op_failure(w) ==
    CASE w.a.restoring -> fail_initialization(w)
      [] w.a.st \in {"FIND_GATT_SVC", "FIND_CHANGED_CHAR", "DISC_CHANGED_DESC", "SUB_CHANGED"} ->
            start_op([w EXCEPT !.a.h = @ \ {"changed"}], "FIND_HID_SVC")
      [] w.a.st \in {"FIND_BAT_SVC", "FIND_BAT_CHAR", "DISC_BAT_DESCS", "READ_BATTERY",
                     "SUBSCRIBE_BATTERY"} ->
            start_op([w EXCEPT !.a.h = @ \ {"level"}], "FIND_ATVV_SVC")
      [] w.a.st = "FIND_ATVV_SVC" -> KeysOnly(w, "UNSUPPORTED")
      [] w.a.st \in {"FIND_ATVV_TX", "FIND_ATVV_CTL", "FIND_ATVV_AUDIO", "DISC_CTL_DESC",
                     "DISC_AUDIO_DESC", "SUBSCRIBE_CTL", "SUBSCRIBE_AUDIO", "PREHANDSHAKE"} ->
            KeysOnly(w, "FAILED")
      [] OTHER -> fail_initialization(w)

\* The next report characteristic, or the battery after the last one.
NextReport(w) ==
    IF w.a.cur < Len(w.a.chars)
    THEN start_op([w EXCEPT !.a.cur = @ + 1], "DISC_DESCS")
    ELSE start_op(w, "FIND_BAT_SVC")

Report(a) == a.chars[a.cur]

\* Does begin_next subscribe to this report?
Wanted(a) ==
    Report(a).cccd /\ Report(a).type = 1 /\ (a.sel \/ Report(a).id \in a.inputs)

\* Is every input of the Report Map subscribed (begin_next, ST_FIND_BAT_SVC)?
InputsSubscribed(a) ==
    /\ a.inputs # {}
    /\ \A id \in a.inputs : \E i \in DOMAIN a.chars : a.chars[i].sub /\ a.chars[i].id = id

\* The end of begin_next: a refused submission is repeated by the tick.
Concluded(w, rc) ==
    CASE rc = "retry" -> [w EXCEPT !.a.retry = TRUE]
      [] rc = "ok" -> [w EXCEPT !.a.retry = FALSE]
      [] OTHER -> handle_op_failure([w EXCEPT !.a.retry = FALSE])

begin_next(w) ==
    LET v == [w EXCEPT !.go = FALSE]
    IN  CASE w.a.st = "SET_PROTOCOL_MODE" ->
                IF result(v) = "ok" THEN start_op(op_command(v), "VERIFY_PROTOCOL_MODE")
                ELSE Concluded(op_command(v), result(v))
          [] w.a.st = "PREHANDSHAKE" ->
                IF result(v) = "ok"
                THEN finish_voice_ready([op_command(v) EXCEPT !.a.capsReq = TRUE, !.a.retry = FALSE])
                ELSE Concluded(op_command(v), result(v))
          [] w.a.st = "DISC_DESCS" /\ ~ Report(w.a).room -> NextReport(v)
          [] w.a.st = "SUBSCRIBE_REPORT" /\ ~ Wanted(w.a) -> NextReport(v)
          [] w.a.st = "FIND_BAT_SVC" /\ w.a.sel /\ ~ unicom_reports(w.a.chars) ->
                fail_initialization(v)
          [] w.a.st = "FIND_BAT_SVC" /\ ~ InputsSubscribed(w.a) -> fail_transport(v)
          [] w.a.st = "READ_MAP" ->
                Concluded(Submitted([v EXCEPT !.a.mapLen = 0, !.a.mapLong = FALSE], "READ"), result(v))
          [] OTHER -> Concluded(Submitted(v, ProcedureOf(w.a.st)), result(v))

\* Every begin_next of one handler: at most one per report, and the few that skip.
Continued(w) == IF w.go THEN begin_next(w) ELSE w
Settled(w) ==
    LET after[n \in 0..(MaxReports + 4)] == IF n = 0 THEN w ELSE Continued(after[n - 1])
    IN  after[MaxReports + 4]

-----------------------------------------------------------------------------
\* rc003_adapter_on_gatt, state by state.  An event is [t, v].
unicom_bad(w) == fail_initialization(w)

Refuse(w) == IF w.a.st \in UnicomStates THEN unicom_bad(w) ELSE handle_op_failure(w)

\* Attributes whose properties are checked as soon as they are found; other
\* characteristics without the needed property are passed over.
Strict == {"hidInfo", "mode", "fd"}

\* Mutant of Belongs: descriptors behind the next declaration are taken too.
BelongsAlways(a) == TRUE

\* A descriptor belongs to the characteristic until the next declaration.
Belongs(a) == ~ a.edge

Hold(w) == [w EXCEPT !.a.h = @ \cup {Looks[w.a.st]}]

Found(w, e) ==
    CASE e.t = "DESC_FOUND" ->
            IF e.v = "decl" THEN [w EXCEPT !.a.edge = TRUE]
            ELSE IF e.v = "cccd" /\ Belongs(w.a) THEN Hold(w) ELSE w
      [] e.t = "CHARS_FOUND" /\ Looks[w.a.st] \in Strict ->
            IF ~ e.v \/ (w.a.st # "FIND_PROTOCOL_MODE" /\ Looks[w.a.st] \in w.a.h)
            THEN Refuse(w) ELSE Hold(w)
      [] e.t = "CHARS_FOUND" ->
            IF e.v \/ w.a.st \in {"FIND_MAP_CHAR", "FIND_BAT_CHAR"} THEN Hold(w) ELSE w
      [] OTHER -> Hold(w)

Exhausted(w) ==
    CASE Looks[w.a.st] \in w.a.h -> start_op(w, After[w.a.st])
      [] w.a.st = "FIND_PROTOCOL_MODE" -> start_op(w, "FIND_MAP_CHAR")
      [] w.a.st = "DISC_BAT_DESCS" -> start_op(w, "READ_BATTERY")
      [] w.a.st = "FIND_CHANGED_CHAR" -> handle_op_failure([w EXCEPT !.a.safe = TRUE])
      [] OTHER -> Refuse(w)

OnFind(w, e) ==
    CASE e.t \in {"SERVICE_FOUND", "CHARS_FOUND", "DESC_FOUND"} -> Found(w, e)
      [] e.t = "PROC_DONE" -> Exhausted(w)
      [] e.t = "SERVICE_NOT_FOUND" ->
            Refuse(IF w.a.st = "FIND_GATT_SVC" THEN [w EXCEPT !.a.safe = TRUE] ELSE w)
      [] e.t = "PROC_ERROR" ->
            IF w.a.st = "DISC_BAT_DESCS" THEN start_op(w, "FIND_ATVV_SVC")
            ELSE Refuse(w)
      [] OTHER -> w

\* ST_READ_MAP, ST_READ_MAP_CONT: v is [off, more, map], map the layout once complete.
MapRead(w, v) ==
    IF w.a.mapLen + v.len > MaxMap \/ v.off # w.a.mapLen THEN handle_op_failure(w)
    ELSE LET r == [w EXCEPT !.a.mapLen = @ + v.len]
         IN  CASE v.more /\ w.a.mapLong -> r
               [] v.more -> start_op([r EXCEPT !.a.mapLong = TRUE], "READ_MAP_CONT")
               [] v.map.kind = "other" -> fail_initialization([r EXCEPT !.a.sel = FALSE])
               [] OTHER -> start_op([r EXCEPT !.a.sel = (v.map.kind = "unicom"),
                                              !.a.inputs = IF v.map.kind = "unicom" THEN UnicomInputs
                                                           ELSE v.map.inputs],
                                    "ENUM_REPORT_CHARS")

OnRead(w, v) ==
    CASE w.a.st = "READ_HID_INFO" ->
            IF v = "ok" THEN start_op(w, "FIND_PROTOCOL_MODE") ELSE handle_op_failure(w)
      [] w.a.st \in {"READ_PROTOCOL_MODE", "VERIFY_PROTOCOL_MODE"} ->
            IF v \notin {"boot", "report"} \/ (w.a.st = "VERIFY_PROTOCOL_MODE" /\ v # "report")
            THEN fail_initialization(w)
            ELSE start_op(w, IF v = "boot" THEN "SET_PROTOCOL_MODE"
                             ELSE IF w.a.restoring THEN RestoreVoice(w.a) ELSE "FIND_MAP_CHAR")
      [] w.a.st \in {"READ_MAP", "READ_MAP_CONT"} -> MapRead(w, v)
      [] w.a.st = "READ_REPORT_REF" ->
            IF ~ v.ok THEN handle_op_failure(w)
            ELSE start_op([w EXCEPT !.a.chars[w.a.cur].id = v.id, !.a.chars[w.a.cur].type = v.type],
                          "SUBSCRIBE_REPORT")
      [] w.a.st = "READ_BATTERY" ->
            IF w.a.restoring THEN IF v = "ok" THEN start_op(w, "SUBSCRIBE_CTL") ELSE handle_op_failure(w)
            ELSE start_op(w, IF v = "ok" /\ "levelCccd" \in w.a.h THEN "SUBSCRIBE_BATTERY"
                             ELSE "FIND_ATVV_SVC")
      [] OTHER -> w

OnWritten(w) ==
    CASE w.a.st = "SUB_CHANGED" ->
            start_op([w EXCEPT !.a.safe = TRUE],
                     IF w.a.restoring THEN RestoreMode(w.a) ELSE "FIND_HID_SVC")
      [] w.a.st = "SUBSCRIBE_REPORT" -> NextReport([w EXCEPT !.a.chars[w.a.cur].sub = TRUE])
      [] w.a.st = "SUBSCRIBE_BATTERY" -> start_op(w, "FIND_ATVV_SVC")
      [] w.a.st = "SUBSCRIBE_CTL" ->
            start_op(w, IF w.a.restoring THEN "SUBSCRIBE_AUDIO" ELSE "FIND_ATVV_AUDIO")
      [] w.a.st = "SUBSCRIBE_AUDIO" -> start_op(w, "PREHANDSHAKE")
      [] w.a.st = "UNICOM_SUB" ->
            IF w.a.hello THEN unicom_ready(w)
            ELSE [start_op(w, "UNICOM_WAIT") EXCEPT !.go = FALSE]
      [] OTHER -> w

\* PROC_ERROR outside the states of OnFind.
OnError(w) ==
    CASE w.a.st = "MTU" -> start_op(w, IF w.a.restoring THEN RestoreFirst(w.a) ELSE "FIND_GATT_SVC")
      [] w.a.st \in {"READ_BATTERY", "SUBSCRIBE_BATTERY"} /\ ~ w.a.restoring ->
            start_op(w, "FIND_ATVV_SVC")
      [] w.a.st \in {"SET_PROTOCOL_MODE", "UNICOM_WAIT", "DONE"} -> w
      [] OTHER -> Refuse(w)

\* The table of report characteristics.
HasRoom(a) == Len(a.chars) < MaxReports

\* ST_ENUM_REPORT_CHARS: v is [room, fit], room for descriptors before the next one.
OnEnum(w, e) ==
    CASE e.t = "CHARS_FOUND" ->
            IF HasRoom(w.a)
            THEN [w EXCEPT !.a.chars = Append(@, [id |-> 0, type |-> 0, ref |-> FALSE,
                                                  cccd |-> FALSE, room |-> e.v.room,
                                                  fit |-> e.v.fit, sub |-> FALSE])]
            ELSE IF w.a.sel THEN fail_initialization(w) ELSE w
      [] e.t = "PROC_DONE" ->
            IF w.a.chars = <<>> THEN handle_op_failure(w)
            ELSE start_op([w EXCEPT !.a.cur = 1], "DISC_DESCS")
      [] e.t = "PROC_ERROR" -> handle_op_failure(w)
      [] OTHER -> w

\* ST_DISC_DESCS: descriptors behind the next declaration belong to another report.
OnDescs(w, e) ==
    CASE e.t = "DESC_FOUND" /\ e.v = "decl" -> [w EXCEPT !.a.edge = TRUE]
      [] e.t = "DESC_FOUND" /\ Belongs(w.a) ->
            IF e.v = "ref" THEN [w EXCEPT !.a.chars[w.a.cur].ref = TRUE]
            ELSE [w EXCEPT !.a.chars[w.a.cur].cccd = TRUE]
      [] e.t = "PROC_DONE" ->
            IF Report(w.a).ref THEN start_op(w, "READ_REPORT_REF") ELSE NextReport(w)
      [] e.t = "PROC_ERROR" -> handle_op_failure(w)
      [] OTHER -> w

\* Notifications that matter to the attachment: the answer to GET_CAPS on the ATVV
\* control characteristic and the hello of a Unicom remote.
OnNotify(w, v) ==
    CASE w.a.sel /\ v = "hello" /\ "fd" \in w.a.h ->
            IF ~ w.a.hello /\ w.a.st \in {"UNICOM_WAIT", "DONE"}
            THEN unicom_ready([w EXCEPT !.a.hello = TRUE]) ELSE [w EXCEPT !.a.hello = TRUE]
      [] w.a.sel /\ v = "badhello" /\ "fd" \in w.a.h -> unicom_bad(w)
      [] ~ w.a.sel /\ v = "caps" /\ {"atvv", "ctl"} \subseteq w.a.h ->
            finish_voice_ready([w EXCEPT !.a.caps = TRUE])
      [] ~ w.a.sel /\ v = "badcaps" /\ {"atvv", "ctl"} \subseteq w.a.h /\ w.a.st = "PREHANDSHAKE" ->
            handle_op_failure(w)
      [] OTHER -> w

on_gatt(w, e) ==
    CASE e.t = "NOTIFY" /\ e.v = "changed" /\ "changed" \in w.a.h ->
            IF w.a.st \in {"IDLE", "FAILED"} THEN [w EXCEPT !.a.valid = FALSE, !.a.safe = FALSE]
            ELSE fail_initialization(w)
      [] w.a.st \in {"IDLE", "FAILED"} -> w
      [] e.t \in {"BEARER_FAILED", "PROC_ERROR"} /\ e.v = "sync" -> fail_initialization(w)
      [] e.t = "BEARER_FAILED" -> fail_transport(w)
      [] e.t = "NOTIFY" -> OnNotify(w, e.v)
      [] w.a.st \in FindStates -> OnFind(w, e)
      [] w.a.st = "ENUM_REPORT_CHARS" -> OnEnum(w, e)
      [] w.a.st = "DISC_DESCS" -> OnDescs(w, e)
      [] e.t = "READ_RSP" -> OnRead(w, e.v)
      [] e.t = "WRITE_DONE" -> OnWritten(w)
      [] e.t = "PROC_ERROR" \/ (e.t = "MTU_UPDATED" /\ w.a.st = "MTU") -> OnError(w)
      [] OTHER -> w

\* rc003_adapter_tick; due is what has run out: nothing, the step or the attempt.
Running(a) == a.st \notin {"IDLE", "DONE", "FAILED"}

rc003_adapter_tick(w, due) ==
    CASE ~ Running(w.a) -> w
      [] w.a.sel /\ w.a.st = "UNICOM_WAIT" ->
            IF w.a.hello \/ due = "step" THEN unicom_ready(w) ELSE w
      [] due = "attempt" -> fail_transport(w)
      [] due = "step" -> IF w.a.st = "PREHANDSHAKE" /\ ~ w.a.restoring THEN handle_op_failure(w)
                         ELSE fail_transport(w)
      [] w.a.retry -> [w EXCEPT !.go = TRUE]
      [] OTHER -> w
=============================================================================
