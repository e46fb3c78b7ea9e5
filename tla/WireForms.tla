------------------------------- MODULE WireForms -------------------------------
(***************************************************************************)
(* What crosses the IPC directory (reaper-ipc: plan.rs, envelope.rs,       *)
(* protocol.rs, error.rs, snapshot.rs, hash.rs, and the bridge of          *)
(* testing.rs): the wire form of an edit plan, a request through the       *)
(* gauntlet of checks and back as a result, and a snapshot with its        *)
(* hashes.  Texts that name an instant are in Times; a hash is named by    *)
(* the canonical form it was taken of.                                     *)
(***************************************************************************)
EXTENDS Records, FiniteSets

CONSTANTS SafeIds,           \* the ids of the wire pattern
          MaxRequestBytes, MaxResultBytes, MaxCommandsPerTick

WireInputs ==
  /\ "" \notin SafeIds
  /\ MaxRequestBytes \in Nat /\ MaxResultBytes \in Nat /\ MaxCommandsPerTick \in Nat \ {0}

ClockSkew == 5
Protocol == "qlabs-reaper-ipc/1"
Times == ("t0" :> 0) @@ ("t60" :> 60)
Commands == {"commit_candidate", "discard_candidate", "inspect_selection", "ping",
             "stage_candidate", "status", "undo_last_generation"}

(* A text member: absent when it is null or something else. *)
TextOf(json, key) ==
  IF Has(json, key) /\ json[2][key][1] = "str" THEN {json[2][key][2]} ELSE {}
TextOr(json, key, default) == IF TextOf(json, key) = {} THEN default ELSE The(TextOf(json, key))
Member(json, key) == IF Has(json, key) THEN json[2][key] ELSE Null
Plus(json, more) == Obj(more @@ json[2])

(* An object without its null members. *)
Sent(members) == Obj([k \in {k \in DOMAIN members : members[k] # Null} |-> members[k]])

---------------------------------------------------------------------------
(* Errors and outcomes. *)

\* Mutant: details that are no object are kept as they are.
IpcError_Flat(code, details) == [code |-> code, details |-> details]

IpcError(code, details) ==
  [code |-> code, details |-> IF IsObj(details) THEN details ELSE Obj("value" :> details)]
NoError == [code |-> "", details |-> Null]
Success(value) == [ok |-> TRUE, value |-> value, error |-> NoError]
Failure(error) == [ok |-> FALSE, value |-> Null, error |-> error]
Refusal(code) == Failure(IpcError(code, Obj(Nothing)))

ErrorJson(error) ==
  Obj([code |-> Str(error.code), message |-> Str("why"), details |-> error.details])
FromWire(json) ==
  IF ~IsObj(json) THEN IpcError("INTERNAL_BRIDGE_ERROR", json)
  ELSE IpcError(TextOr(json, "code", "INTERNAL_BRIDGE_ERROR"),
                IF Member(json, "details") = Null THEN Obj(Nothing) ELSE json[2]["details"])

(* The first of the faults that is there decides. *)
Fault(there, code) == [there |-> there, code |-> code]
Judged(faults, value) ==
  IF \A i \in DOMAIN faults : ~faults[i].there THEN Success(value)
  ELSE Refusal(faults[CHOOSE i \in DOMAIN faults :
                        faults[i].there /\ \A j \in 1..(i - 1) : ~faults[j].there].code)

---------------------------------------------------------------------------
(* The wire form of an edit plan. *)

TagKeys == {"QLABS_CANDIDATE_ID", "QLABS_COMMITTED_AT", "QLABS_CREATED_AT",
            "QLABS_KNOWLEDGE_VERSION", "QLABS_OBJECT_KIND", "QLABS_OWNER", "QLABS_PLAN_ID",
            "QLABS_PREVIEW_MUTED", "QLABS_ROLE", "QLABS_SOURCE_SNAPSHOT", "QLABS_STATUS",
            "QLABS_TEMP_ID", "QLABS_TRANSACTION_ID", "QLABS_UNDO_LABEL"}
MaxTags == 16

\* Some order of the members of a set.
RECURSIVE InOrder(_)
InOrder(set) ==
  IF set = {} THEN <<>>
  ELSE <<CHOOSE x \in set : TRUE>> \o InOrder(set \ {CHOOSE x \in set : TRUE})

Pairs(tags) == [i \in DOMAIN InOrder(DOMAIN tags) |->
                  Arr(<<Str(InOrder(DOMAIN tags)[i]), tags[InOrder(DOMAIN tags)[i]]>>)]

\* Mutant: only the ends of items and regions are made numbers.
OnWire_Outer(members) ==
  Sent([k \in DOMAIN members |->
          CASE k \in {"start_qn", "end_qn"} /\ members[k][1] = "str" -> Halves(BeatNames[members[k][2]])
            [] k = "tags" -> Arr(Pairs(members[k][2]))
            [] OTHER -> members[k]])

(* Positions are numbers, tags are pairs, what is not set is left out. *)
OnWire(members) ==
  Sent([k \in DOMAIN members |->
          CASE k \in {"start_qn", "end_qn"} /\ members[k][1] = "str" -> Halves(BeatNames[members[k][2]])
            [] k = "tags" -> Arr(Pairs(members[k][2]))
            [] k = "notes" ->
                 Arr([i \in DOMAIN members[k][2] |->
                        Obj([f \in DOMAIN members[k][2][i][2] |->
                          IF f \in {"start_qn", "end_qn"} THEN Halves(BeatNames[members[k][2][i][2][f][2]])
                          ELSE members[k][2][i][2][f]])])
            [] OTHER -> members[k]])

PreconditionToWire(members) ==
  Obj([k \in (DOMAIN members \ {"kind"}) \cup {"type"} |->
         IF k = "type" THEN members["kind"] ELSE members[k]])

PlanToWire(plan) ==
  Obj([k \in DOMAIN plan[2] |->
         CASE k \in {"operations", "expected_outputs"} ->
                Arr([i \in DOMAIN plan[2][k][2] |-> OnWire(plan[2][k][2][i][2])])
           [] k = "preconditions" ->
                Arr([i \in DOMAIN plan[2][k][2] |-> PreconditionToWire(plan[2][k][2][i][2])])
           [] OTHER -> plan[2][k]])

\* Mutant: the type is taken even where there is a kind.
NormalizePrecondition_Type(json) ==
  IF TextOf(json, "type") = {} THEN json ELSE Plus(json, "kind" :> json[2]["type"])

NormalizePrecondition(json) ==
  IF TextOf(json, "type") = {} \/ Has(json, "kind") THEN json
  ELSE Plus(json, "kind" :> json[2]["type"])

(* One entry of a list of tags: its key and value, or none. *)
TagOf(entry) ==
  CASE entry[1] = "arr" /\ Len(entry[2]) = 2 /\ entry[2][1][1] = "str" /\ entry[2][2][1] = "str" ->
         {<<entry[2][1][2], entry[2][2]>>}
    [] TextOf(entry, "key") # {} /\ TextOf(entry, "value") # {} ->
         {<<entry[2]["key"][2], entry[2]["value"]>>}
    [] OTHER -> {}

Tags(op) == IF Has(op, "tags") /\ op[2]["tags"][1] = "arr" THEN op[2]["tags"][2] ELSE <<>>
TagsBroken(op) == \E i \in DOMAIN Tags(op) : TagOf(Tags(op)[i]) = {}

\* Mutant: the first of two tags of a key counts.
TagMap_First(entries) ==
  [k \in {e[1] : e \in UNION {TagOf(entries[i]) : i \in DOMAIN entries}} |->
     The(TagOf(entries[CHOOSE i \in DOMAIN entries :
       /\ \E e \in TagOf(entries[i]) : e[1] = k
       /\ \A j \in 1..(i - 1) : \A e \in TagOf(entries[j]) : e[1] # k]))[2]]

(* The last of two tags of a key counts. *)
TagMap(entries) ==
  [k \in {e[1] : e \in UNION {TagOf(entries[i]) : i \in DOMAIN entries}} |->
     The(TagOf(entries[CHOOSE i \in DOMAIN entries :
       /\ \E e \in TagOf(entries[i]) : e[1] = k
       /\ \A j \in (i + 1)..Len(entries) : \A e \in TagOf(entries[j]) : e[1] # k]))[2]]

NormalizeTags(op) ==
  IF Has(op, "tags") /\ op[2]["tags"][1] = "arr" THEN Plus(op, "tags" :> Obj(TagMap(Tags(op)))) ELSE op

ItemsOf(json, key) == IF Has(json, key) /\ json[2][key][1] = "arr" THEN json[2][key][2] ELSE <<>>
Normalized(json) ==
  IF ~IsObj(json) THEN json
  ELSE Obj([k \in DOMAIN json[2] |->
    CASE k = "preconditions" /\ json[2][k][1] = "arr" ->
           Arr([i \in DOMAIN json[2][k][2] |-> NormalizePrecondition(json[2][k][2][i])])
      [] k = "operations" /\ json[2][k][1] = "arr" ->
           Arr([i \in DOMAIN json[2][k][2] |-> NormalizeTags(json[2][k][2][i])])
      [] OTHER -> json[2][k]])

PlanFromWire(json) ==
  IF \E i \in DOMAIN ItemsOf(json, "operations") : TagsBroken(ItemsOf(json, "operations")[i])
  THEN Bad(<<"tags">>)
  ELSE FromJson("EditPlan", Normalized(json))

(* Values of tags: too long for the wire, with a tab, with another control character. *)
TooLong == {"long"}
Tabbed == {"tab"}
Garbled == {"bell"}

\* Mutant: only the keys are looked at.
CheckTagKeys_KeysOnly(plan) ==
  \A i \in DOMAIN plan[2]["operations"][2] :
    \A tags \in {Member(plan[2]["operations"][2][i], "tags")} \ {Null} : DOMAIN tags[2] \subseteq TagKeys

(* check_tag_keys: what the client lets through. *)
CheckTagKeys(plan) ==
  \A i \in DOMAIN plan[2]["operations"][2] :
    \A tags \in {Member(plan[2]["operations"][2][i], "tags")} \ {Null} :
      /\ Cardinality(DOMAIN tags[2]) <= MaxTags
      /\ DOMAIN tags[2] \subseteq TagKeys
      /\ \A k \in DOMAIN tags[2] : tags[2][k][2] \notin TooLong \cup Tabbed \cup Garbled

(* What the bridge lets through of the same: check_qn, check_tags, the      *)
(* handles and discriminators of validate_plan.                            *)
NumberAt(json, key) == ~Has(json, key) \/ HalvesOf(json[2][key]) # {}
TagTaken(entry) ==
  \E tag \in TagOf(entry) : tag[1] \in TagKeys /\ tag[2][2] \notin TooLong \cup Garbled
OperationTaken(op) ==
  /\ NumberAt(op, "start_qn") /\ NumberAt(op, "end_qn")
  /\ Member(op, "temp_id") # Str("")
  /\ Member(op, "tags") # Null =>
       op[2]["tags"][1] = "arr" /\ Len(Tags(op)) <= MaxTags /\ \A i \in DOMAIN Tags(op) : TagTaken(Tags(op)[i])
  /\ \A i \in DOMAIN ItemsOf(op, "notes") :
       NumberAt(op[2]["notes"][2][i], "start_qn") /\ NumberAt(op[2]["notes"][2][i], "end_qn")
WireTaken(wire) ==
  /\ \A i \in DOMAIN wire[2]["operations"][2] : OperationTaken(wire[2]["operations"][2][i])
  /\ \A i \in DOMAIN wire[2]["preconditions"][2] :
       TextOf(wire[2]["preconditions"][2][i], "type") \cap DOMAIN Preconditions # {}

---------------------------------------------------------------------------
(* Requests. *)

ExpectedProject ==
  Type(<<Lax("project_uuid", Text, Null), Lax("state_change_count", Whole, Null)>>
       \o [i \in 1..5 |-> Lax(<<"source_item_guid", "source_take_guid", "midi_hash",
                                "tempo_map_hash", "snapshot_hash">>[i], Text, Null)])
ReadExpected(json) == Read(Rec(ExpectedProject), json).value
Empty(expected) == Sent(expected[2]) = Obj(Nothing)

Stamp(time) == Str(CHOOSE t \in DOMAIN Times : Times[t] = time)

(* RequestEnvelope::build and to_json.  A request that expects nothing of   *)
(* the project has no such block.                                          *)
Build(ask) ==
  Judged(<<Fault(ask.id \notin SafeIds, "MALFORMED_REQUEST"),
           Fault(ask.command \notin Commands, "UNKNOWN_COMMAND"),
           Fault(ask.token = "", "INVALID_INSTANCE_TOKEN"),
           Fault(ask.payload # Null /\ ~IsObj(ask.payload), "MALFORMED_REQUEST")>>,
         Sent([protocol_version |-> Str(Protocol), request_id |-> Str(ask.id),
               instance_token |-> Str(ask.token), created_at |-> Stamp(ask.created),
               expires_at |-> Stamp(ask.expires), command |-> Str(ask.command),
               require_bridge_version |-> ask.pin,
               expected_project |->
                 IF ask.expected = Null \/ Empty(ask.expected) THEN Null ELSE Sent(ask.expected[2]),
               payload |-> IF ask.payload = Null THEN Obj(Nothing) ELSE ask.payload]))

(* The bridge: its token, version and clock, the ids it has seen, what it   *)
(* answers with, its counters, and the results it has published.           *)
ValidRequest(request) ==
  [id |-> The(TextOf(request, "request_id")), command |-> The(TextOf(request, "command")),
   payload |-> IF Member(request, "payload") = Null THEN Obj(Nothing) ELSE request[2]["payload"],
   expected |-> Member(request, "expected_project"),
   needsProject |-> TextOf(request, "command") \cap {"ping", "status"} = {}]

Opening(request, size, bridge) ==
  <<Fault(size > MaxRequestBytes, "PAYLOAD_TOO_LARGE"),
    Fault(~IsObj(request), "MALFORMED_REQUEST"),
    Fault(TextOf(request, "protocol_version") # {Protocol}, "IPC_PROTOCOL_MISMATCH"),
    Fault(TextOf(request, "require_bridge_version") \ {bridge.version} # {}, "BRIDGE_VERSION_MISMATCH"),
    Fault(bridge.token = "" \/ TextOf(request, "instance_token") # {bridge.token},
          "INVALID_INSTANCE_TOKEN")>>

\* Mutant: a request may lie in any file.
Identity_AnyFile(id, stem, seen) ==
  <<Fault(id \cap SafeIds = {}, "MALFORMED_REQUEST"), Fault(id \cap seen # {}, "DUPLICATE_REQUEST")>>

Identity(id, stem, seen) ==
  <<Fault(id \cap SafeIds = {}, "MALFORMED_REQUEST"), Fault(id # {stem}, "MALFORMED_REQUEST"),
    Fault(id \cap seen # {}, "DUPLICATE_REQUEST")>>

Timing(expires, created, now) ==
  <<Fault(expires \cap DOMAIN Times = {}, "MALFORMED_REQUEST"),
    Fault(\E t \in expires \cap DOMAIN Times : now > Times[t] + ClockSkew, "EXPIRED_REQUEST"),
    Fault(~(created \subseteq DOMAIN Times), "MALFORMED_REQUEST")>>

Content(command, payload, expected) ==
  <<Fault(command = {}, "MALFORMED_REQUEST"), Fault(command \cap Commands = {}, "UNKNOWN_COMMAND"),
    Fault(payload # Null /\ ~IsObj(payload), "MALFORMED_REQUEST"),
    Fault(expected # Null /\ ~IsObj(expected), "MALFORMED_REQUEST")>>

(* The gauntlet, in its order. *)
ValidateEnvelope(request, size, stem, bridge) ==
  Judged(Opening(request, size, bridge)
         \o Identity(TextOf(request, "request_id"), stem, bridge.seen)
         \o Timing(TextOf(request, "expires_at"), TextOf(request, "created_at"), bridge.now)
         \o Content(TextOf(request, "command"), Member(request, "payload"),
                    Member(request, "expected_project")),
         request)

(* default_responder, or whatever was set up instead. *)
Respond(request, bridge) ==
  CASE bridge.responder = "default" ->
         Success(IF request.needsProject
                 THEN Obj([echo_command |-> Str(request.command), echo_payload |-> request.payload])
                 ELSE Obj("bridge_version" :> Str(bridge.version)))
    [] bridge.responder = "failing" -> Failure(IpcError("NO_ACTIVE_PROJECT", Str("closed")))
    [] OTHER -> Success(Obj(Nothing))

TransactionOf(payload) ==
  IF TextOf(payload, "transaction_id") # {} THEN payload[2]["transaction_id"]
  ELSE IF TextOf(Member(payload, "plan"), "transaction_id") # {}
  THEN payload[2]["plan"][2]["transaction_id"] ELSE Null

MakeResult(stem, command, outcome, transaction, bridge) ==
  Obj([protocol_version |-> Str(Protocol), request_id |-> Str(stem), command |-> command,
       ok |-> <<"bool", outcome.ok>>, result |-> outcome.value,
       error |-> IF outcome.ok THEN Null ELSE ErrorJson(outcome.error),
       transaction_id |-> transaction, bridge_version |-> Str(bridge.version),
       warnings |-> Arr(<<>>)])

\* Mutant: what is too large is published.
Published_Large(stem, command, outcome, transaction, bridge) ==
  MakeResult(stem, command, outcome, transaction, bridge)

(* write_result: what is too large is replaced. *)
Published(stem, command, outcome, transaction, bridge) ==
  IF outcome.ok /\ bridge.resultSize > MaxResultBytes
  THEN MakeResult(stem, command, Refusal("RESULT_TOO_LARGE"), Null, bridge)
  ELSE MakeResult(stem, command, outcome, transaction, bridge)

(* The bridge once it has an outcome for a file. *)
Finished(bridge, file, command, outcome, transaction) ==
  [bridge EXCEPT !.results = (file.stem :> Published(file.stem, command, outcome, transaction, bridge)) @@ @,
                 !.failed = IF outcome.ok THEN @ ELSE @ + 1,
                 !.processed = IF outcome.ok THEN @ + 1 ELSE @]

\* Mutant: a request is not noted before it is carried out.
Carried_Unseen(bridge, file, request) ==
  IF bridge.responder = "silent" THEN bridge
  ELSE Finished([bridge EXCEPT !.calls = Append(@, request)], file, Str(request.command),
                Respond(request, bridge), TransactionOf(request.payload))

(* A valid request: noted, carried out and, unless nothing is to be heard,  *)
(* answered.                                                               *)
Carried(bridge, file, request) ==
  IF bridge.responder = "silent" THEN [bridge EXCEPT !.seen = @ \cup {request.id}]
  ELSE Finished([bridge EXCEPT !.seen = @ \cup {request.id}, !.calls = Append(@, request)],
                file, Str(request.command), Respond(request, bridge), TransactionOf(request.payload))

Claimed(bridge, file, judged) ==
  IF judged.ok THEN Carried(bridge, file, ValidRequest(judged.value))
  ELSE Finished(bridge, file, Null, judged, Null)

(* process_one: a file is its stem, its size and its content. *)
ProcessOne(bridge, file) ==
  IF file.stem \notin SafeIds THEN [bridge EXCEPT !.quarantined = Append(@, file.stem)]
  ELSE Claimed([bridge EXCEPT !.claimed = @ + 1], file,
               CASE file.body[1] # "garbage" -> ValidateEnvelope(file.body, file.size, file.stem, bridge)
                 [] OTHER -> Refusal(IF file.size > MaxRequestBytes THEN "PAYLOAD_TOO_LARGE"
                                     ELSE "MALFORMED_REQUEST"))

RECURSIVE Pump(_, _, _)
Pump(bridge, files, handled) ==
  IF files = <<>> \/ handled >= MaxCommandsPerTick THEN [bridge |-> bridge, left |-> files]
  ELSE Pump(ProcessOne(bridge, files[1]), Tail(files), handled + 1)

---------------------------------------------------------------------------
(* Results. *)

\* Mutant: ok decides alone.
Parse_OkAlone(json) ==
  Judged(<<Fault(~IsObj(json), "INTERNAL_BRIDGE_ERROR"),
           Fault(TextOf(json, "protocol_version") # {Protocol}, "IPC_PROTOCOL_MISMATCH"),
           Fault(Member(json, "ok")[1] # "bool", "INTERNAL_BRIDGE_ERROR")>>, json)

(* ResultEnvelope::parse: one that is refused is itself an error. *)
Parse(json) ==
  Judged(<<Fault(~IsObj(json), "INTERNAL_BRIDGE_ERROR"),
           Fault(TextOf(json, "protocol_version") # {Protocol}, "IPC_PROTOCOL_MISMATCH"),
           Fault(Member(json, "ok")[1] # "bool", "INTERNAL_BRIDGE_ERROR"),
           Fault(Member(json, "ok") = <<"bool", TRUE>> /\ Member(json, "error") # Null,
                 "INTERNAL_BRIDGE_ERROR"),
           Fault(Member(json, "ok") = <<"bool", FALSE>>
                   /\ (Member(json, "error") = Null \/ Member(json, "result") # Null),
                 "INTERNAL_BRIDGE_ERROR")>>, json)

(* into_outcome. *)
Outcome(parsed) ==
  IF ~parsed.ok THEN parsed
  ELSE IF parsed.value[2]["ok"][2]
  THEN Success(IF Member(parsed.value, "result") = Null THEN Obj(Nothing) ELSE parsed.value[2]["result"])
  ELSE Failure(FromWire(parsed.value[2]["error"]))

---------------------------------------------------------------------------
(* Snapshots. *)

Numerals(keys, as) == [i \in DOMAIN keys |-> Required(keys[i], as)]
SnapshotNote ==
  Type(Numerals(<<"index", "source_index">>, Whole)
       \o Numerals(<<"start_ppq", "end_ppq", "start_qn", "end_qn", "duration_qn",
                  "item_relative_start_qn", "item_relative_end_qn", "start_seconds", "end_seconds">>, Number)
       \o Numerals(<<"pitch", "velocity", "channel">>, Whole)
       \o <<Lax("muted", Flag, Off), Lax("selected", Flag, Off)>>)
SnapshotTempoMarker ==
  Type(Numerals(<<"index">>, Whole) \o Numerals(<<"time_seconds", "qn", "bpm">>, Number)
       \o Numerals(<<"timesig_num", "timesig_den">>, Whole)
       \o <<Lax("linear", Flag, Off), Lax("synthetic", Flag, Off)>>)

LaxNames(keys) == [i \in DOMAIN keys |-> Lax(keys[i], Text, Null)]
Hashes == {"midi_hash", "note_selection_hash", "tempo_map_hash", "timesig_map_hash",
           "note_list_hash", "snapshot_hash"}
Snapshot ==
  [Type(<<Lax("notes", ListOf(Rec(SnapshotNote)), Arr(<<>>)),
          Lax("tempo_markers", ListOf(Rec(SnapshotTempoMarker)), Arr(<<>>)),
          Lax("selection_assumptions", PickOf(Text), Arr(<<>>)),
          Lax("warnings", ListOf(Whatever), Arr(<<>>)),
          Lax("snapshot_id", Text, Str("")), Lax("project_state_change_count", Whole, Num(0))>>
        \o LaxNames(<<"project_uuid", "track_guid", "item_guid", "take_guid">>)
        \o Numerals(<<"item_position_seconds", "item_length_seconds", "item_position_qn", "item_end_qn",
                   "item_length_qn">>, Number)
        \o <<Lax("is_loop_source", Flag, Off), Lax("extraction_channel", Whole, Null)>>
        \o LaxNames(<<"note_scope", "extraction_mode", "resolved_by", "midi_hash",
                      "note_selection_hash", "tempo_map_hash", "timesig_map_hash", "note_list_hash",
                      "snapshot_hash">>)
        \o <<Required("note_count", Whole), Lax("source_note_count", Whole, Num(-1))>>)
     EXCEPT !.solid = TRUE]

\* Mutant: the take is checked where notes were left out.
IsUnfiltered_Not(s) == s["source_note_count"] # s["note_count"]

IsUnfiltered(s) ==
  s["source_note_count"] = s["note_count"] /\ s["note_count"] = Num(Len(s["notes"][2]))

(* The canonical forms: what each hash is taken of. *)
Rows(list, keys) == [i \in DOMAIN list |-> [k \in keys |-> list[i][2][k]]]
TakeNote == {"start_ppq", "end_ppq", "channel", "pitch", "velocity", "muted"}

\* Mutant: the list of notes is hashed like the take, without the selection.
ListNote_Take == {"start_qn", "end_qn", "channel", "pitch", "velocity", "muted"}

ListNote == {"start_qn", "end_qn", "channel", "pitch", "velocity", "muted", "selected"}
TempoMarker == {"time_seconds", "qn", "bpm", "timesig_num", "timesig_den", "linear"}
InMetre(marker) == marker[2]["timesig_num"][2] > 0 /\ marker[2]["timesig_den"][2] > 0

\* What is absent and what is empty are hashed alike.
TextOrNull(value) == IF value = Str("") THEN Null ELSE value
SnapshotTexts == {"project_uuid", "track_guid", "item_guid", "take_guid", "note_scope",
                  "extraction_mode"} \cup (Hashes \ {"snapshot_hash"})
SnapshotNumbers == {"item_position_seconds", "item_length_seconds", "item_position_qn",
                    "item_length_qn", "is_loop_source", "note_count"}

Canonical(hash, s) ==
  CASE hash = "note_list_hash" -> Rows(s["notes"][2], ListNote)
    [] hash = "midi_hash" -> Rows(s["notes"][2], TakeNote)
    [] hash = "note_selection_hash" -> Rows(s["notes"][2], {"selected"})
    [] hash = "tempo_map_hash" -> Rows(s["tempo_markers"][2], TempoMarker)
    [] hash = "timesig_map_hash" ->
         Rows(SelectSeq(s["tempo_markers"][2], InMetre), {"qn", "timesig_num", "timesig_den"})
    [] hash = "snapshot_hash" ->
         [k \in SnapshotTexts \cup SnapshotNumbers \cup {"extraction_channel"} |->
            CASE k \in SnapshotTexts -> TextOrNull(s[k])
              [] k \in SnapshotNumbers -> s[k]
              [] OTHER -> IF s[k] = Null THEN Num(-1) ELSE s[k]]

(* The hashes that can be checked, of those that are there. *)
Checkable(s) ==
  {h \in Hashes : s[h] # Null
     /\ (h \in {"tempo_map_hash", "timesig_map_hash"} => s["tempo_markers"][2] # <<>>)
     /\ (h \in {"midi_hash", "note_selection_hash"} => IsUnfiltered(s))}

(* verify: the hashes it checked, if each is what the sender took of the    *)
(* same canonical form.                                                    *)
Verify(s, origin) ==
  IF \A h \in Checkable(s) : s[h] = origin[h] /\ Canonical(h, s) = Canonical(h, origin)
  THEN [ok |-> TRUE, checked |-> Checkable(s)] ELSE [ok |-> FALSE, checked |-> {}]

(* expected_project: what pins the snapshot for a later call. *)
ExpectedOf(s) ==
  Obj([project_uuid |-> s["project_uuid"], state_change_count |-> Null,
       source_item_guid |-> s["item_guid"], source_take_guid |-> s["take_guid"],
       midi_hash |-> s["midi_hash"], tempo_map_hash |-> s["tempo_map_hash"],
       snapshot_hash |-> s["snapshot_hash"]])
=============================================================================
