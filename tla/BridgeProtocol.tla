---------------------------- MODULE BridgeProtocol ----------------------------
(***************************************************************************)
(* What travels over the control socket: the requests SocketBackend writes *)
(* (sdk/socket_backend.cpp), how SocketBridgeServer::handle_client takes   *)
(* them apart (bridge/socket_server.cpp), and the answers protocol.cpp     *)
(* encodes at one end and decodes at the other.  Both ends list the fields *)
(* of each line on their own, by position, and a connection may end in the *)
(* middle of any line.  ControlSocket has the queueing and the timeouts.   *)
(*                                                                         *)
(* A line is a sequence of fields, and a field on the wire a pair: how it  *)
(* is written (a text in hexadecimal, which has no separators, a number, a *)
(* word) and what it says.  A text is empty or told apart by the field it  *)
(* belongs to; a number or an identifier is one of two.                    *)
(***************************************************************************)
EXTENDS Naturals, Sequences, SequencesExt, TLC

CONSTANTS
    MaxRows        \* bound: the rows of a list in an answer, the fields of an event

ASSUME ProtocolBound == MaxRows \in Nat

\* std::to_string writes no number as one of the words, or as the name of a field.
ASSUME Numerals ==
    \A n \in 0 .. MaxRows : ToString(n) \notin {"true", "false", "none", "count"}

VARIABLES
    exchange,      \* the exchange of one ts process, from request to result
    executed       \* history: what the backend was asked to do in it

protocolVars == <<exchange, executed>>

-----------------------------------------------------------------------------
(* Fields                                                                  *)

Hex(name) == [name |-> name, as |-> "hex", says |-> <<name, "">>]
Num(name) == [name |-> name, as |-> "num", says |-> <<"1", "0">>]
Bool(name) == [name |-> name, as |-> "num", says |-> <<"false", "true">>]
Channel(name) == [name |-> name, as |-> "num", says |-> <<"1", "none">>]
Word(name, words) == [name |-> name, as |-> "word", says |-> words]
Id(name) == [name |-> name, as |-> "hex", says |-> <<"1", "0">>]    \* a number in hexadecimal

\* How a value is written: encode_bool, std::to_string, "0" for no channel.
Put(f, v) ==
    <<f.as, CASE v = "true" -> "1" [] v \in {"false", "none"} -> "0" [] OTHER -> v>>

\* What a field on the wire is read as: any text, or one of the values that are
\* written so; nothing if it cannot be read.
Get(f, w) ==
    IF f.says[1] = f.name THEN {v \in {w[2]} : w[1] = f.as}
    ELSE {v \in ToSet(f.says) : Put(f, v) = w}

FieldNames(fields) == {fields[i].name : i \in DOMAIN fields}
FieldOf(fields, name) == fields[CHOOSE i \in DOMAIN fields : fields[i].name = name]

\* The records with these fields: the plain one, and those with one other value.
Plain(fields) == [name \in FieldNames(fields) |-> FieldOf(fields, name).says[1]]
Records(fields) ==
    {Plain(fields)} \cup UNION {{[Plain(fields) EXCEPT ![f.name] = v] : v \in ToSet(f.says)} :
                                f \in ToSet(fields)}

\* join_fields: the fields of a record in this order.
Line(fields, record) == [i \in DOMAIN fields |-> Put(fields[i], record[fields[i].name])]

\* split_fields and the reading of each field at its place: the record a line
\* holds, or none when a field cannot be read.
FieldsRead(fields, line) ==
    LET At(name) == CHOOSE i \in DOMAIN fields : fields[i].name = name
    IN  IF \A i \in DOMAIN fields : Get(fields[i], line[i]) # {}
        THEN {[name \in FieldNames(fields) |-> CHOOSE v \in Get(FieldOf(fields, name), line[At(name)]) : TRUE]}
        ELSE {}

-----------------------------------------------------------------------------
(* Verbs, as SocketBackend writes them and as handle_client takes them  *)
(* apart.  apply_server_group by database id is an entry of its own.       *)

ConnectionSends ==
    [connect |-> <<Hex("host"), Num("port"), Hex("nickname"), Hex("identity"),
                   Hex("server_password"), Hex("channel_password"), Hex("default_channel"),
                   Hex("profile_name")>>,
     disconnect |-> <<Hex("reason")>>,
     plugin_info |-> <<>>, connection_state |-> <<>>, server_info |-> <<>>,
     list_channels |-> <<>>, list_clients |-> <<>>]

ChannelSends ==
    [get_channel |-> <<Hex("selector")>>, get_client |-> <<Hex("selector")>>,
     join_channel |-> <<Hex("selector")>>,
     rename_channel |-> <<Hex("selector"), Hex("name")>>]

SelfSends ==
    [set_self_muted |-> <<Bool("muted")>>, set_self_speakers_muted |-> <<Bool("muted")>>,
     set_self_away |-> <<Bool("away"), Hex("message")>>,
     send_message |-> <<Word("target_kind", <<"client", "channel">>), Hex("target"), Hex("text")>>]

GroupSends ==
    [apply_server_group |-> <<Hex("group"), Word("kind", <<"client">>), Hex("target")>>,
     apply_by_database_id |-> <<Hex("group"), Word("kind", <<"client_database_id">>), Id("target")>>,
     next_event |-> <<Num("timeout_ms")>>]

\* Two tables as one.
Both(f, g) == [c \in DOMAIN f \cup DOMAIN g |-> IF c \in DOMAIN f THEN f[c] ELSE g[c]]

Sends == Both(Both(ConnectionSends, ChannelSends), Both(SelfSends, GroupSends))
Verbs == DOMAIN Sends
Verb(command) == <<"word", IF command = "apply_by_database_id" THEN "apply_server_group" ELSE command>>

ConnectionTakes ==
    [connect |-> <<Hex("host"), Num("port"), Hex("nickname"), Hex("identity"),
                   Hex("server_password"), Hex("channel_password"), Hex("default_channel"),
                   Hex("profile_name")>>,
     disconnect |-> <<Hex("reason")>>,
     plugin_info |-> <<>>, connection_state |-> <<>>, server_info |-> <<>>]

ChannelTakes ==
    [list_channels |-> <<>>, get_channel |-> <<Hex("selector")>>,
     join_channel |-> <<Hex("selector")>>,
     rename_channel |-> <<Hex("selector"), Hex("name")>>]

SelfTakes ==
    [set_self_muted |-> <<Bool("muted")>>, set_self_speakers_muted |-> <<Bool("muted")>>,
     set_self_away |-> <<Bool("away"), Hex("message")>>]

PeopleTakes ==
    [list_clients |-> <<>>, get_client |-> <<Hex("selector")>>,
     send_message |-> <<Word("target_kind", <<"client", "channel">>), Hex("target"), Hex("text")>>,
     apply_server_group |-> <<Hex("group"), Word("kind", <<"client">>), Hex("target")>>,
     apply_by_database_id |-> <<Hex("group"), Word("kind", <<"client_database_id">>), Id("target")>>,
     next_event |-> <<Num("timeout_ms")>>]

Takes == Both(Both(ConnectionTakes, ChannelTakes), Both(SelfTakes, PeopleTakes))

\* The commands that check the number of their fields; the others look at those
\* they need.  A disconnect may come without a reason.
Counted == {"connect", "rename_channel", "set_self_muted", "set_self_speakers_muted",
            "set_self_away", "send_message", "apply_server_group", "apply_by_database_id"}

kMagic == <<"word", "tscli1">>

RequestLine(command, request) ==
    <<kMagic, Verb(command)>> \o Line(Sends[command], request)

\* What handle_client makes of a line: the calls of the backend it stands for.
Understood(line) ==
    LET given == SubSeq(line, 3, Len(line))
        Fits(c) == /\ Verb(c) = line[2]
                   /\ Len(given) >= Len(Takes[c])
                   /\ c \in Counted => Len(given) = Len(Takes[c])
        ByDefault == {[command |-> "disconnect", request |-> [reason |-> "ts disconnect"]] :
                        c \in {d \in {"disconnect"} : given = <<>> /\ line[2] = Verb(d)}}
    IN  IF Len(line) < 2 \/ line[1] # kMagic THEN {}
        ELSE ByDefault \cup
             UNION {{[command |-> c, request |-> r] : r \in FieldsRead(Takes[c], given)} :
                    c \in {d \in Verbs : Fits(d)}}

-----------------------------------------------------------------------------
(* Answers, as protocol.cpp encodes them and decodes them.  A value is a    *)
(* sequence of rows; the fields of an event are rows that share its line.   *)

Capture == <<Bool("capture_known"), Hex("capture_mode"), Hex("capture_device"), Bool("capture_default")>>
Playback == <<Bool("playback_known"), Hex("playback_mode"), Hex("playback_device"), Bool("playback_default")>>

PluginInfoEncodes ==
    <<Hex("backend"), Hex("transport"), Hex("plugin_name"), Hex("plugin_version"),
      Bool("plugin_available"), Hex("socket_path"), Hex("media_transport"),
      Hex("media_socket_path"), Hex("media_format"), Hex("note")>>
    \o Capture \o Playback \o
    <<Hex("pulse_sink"), Hex("pulse_source"), Bool("pulse_source_is_monitor"),
      Bool("consumer_connected"), Bool("playback_active"), Num("queued_playback_samples"),
      Num("active_speaker_count"), Num("dropped_audio_chunks"), Num("dropped_playback_chunks"),
      Hex("last_error"), Bool("custom_capture_device_registered"),
      Hex("custom_capture_device_id"), Hex("custom_capture_device_name"),
      Bool("custom_capture_path_available"), Bool("injected_playback_attached_to_capture"),
      Bool("captured_voice_edit_attached"), Bool("transmit_path_ready"), Hex("transmit_path")>>

\* Mutant: the decoder is one field behind the encoder.
PluginInfoDecodesOld ==
    <<Hex("backend"), Hex("transport"), Hex("plugin_name"), Hex("plugin_version"),
      Bool("plugin_available"), Hex("socket_path"), Hex("media_transport"),
      Hex("media_socket_path"), Hex("media_format")>>

PluginInfoDecodes ==
    <<Hex("backend"), Hex("transport"), Hex("plugin_name"), Hex("plugin_version"),
      Bool("plugin_available"), Hex("socket_path"), Hex("media_transport"),
      Hex("media_socket_path"), Hex("media_format"), Hex("note")>>

DiagnosticsDecodes ==
    Capture \o Playback \o
    <<Hex("pulse_sink"), Hex("pulse_source"), Bool("pulse_source_is_monitor"),
      Bool("consumer_connected"), Bool("playback_active"), Num("queued_playback_samples"),
      Num("active_speaker_count"), Num("dropped_audio_chunks"), Num("dropped_playback_chunks"),
      Hex("last_error"), Bool("custom_capture_device_registered"),
      Hex("custom_capture_device_id"), Hex("custom_capture_device_name"),
      Bool("custom_capture_path_available"), Bool("injected_playback_attached_to_capture"),
      Bool("captured_voice_edit_attached"), Bool("transmit_path_ready"), Hex("transmit_path")>>

Phases == <<"disconnected", "connecting", "connected">>

ConnectionStateEncodes ==
    <<Word("phase", Phases), Hex("backend"), Num("connection"), Hex("server"), Num("port"),
      Hex("nickname"), Hex("identity"), Hex("profile"), Hex("mode")>>
ConnectionStateDecodes ==
    <<Word("phase", Phases), Hex("backend"), Num("connection"), Hex("server"), Num("port"),
      Hex("nickname"), Hex("identity"), Hex("profile"), Hex("mode")>>

ServerInfoEncodes ==
    <<Hex("name"), Hex("host"), Num("port"), Hex("backend"), Channel("current_channel"),
      Num("channel_count"), Num("client_count")>>
ServerInfoDecodes ==
    <<Hex("name"), Hex("host"), Num("port"), Hex("backend"), Channel("current_channel"),
      Num("channel_count"), Num("client_count")>>

ChannelEncodes ==
    <<Num("id"), Hex("name"), Channel("parent_id"), Num("client_count"), Bool("is_default"),
      Bool("subscribed")>>
ChannelDecodes ==
    <<Num("id"), Hex("name"), Channel("parent_id"), Num("client_count"), Bool("is_default"),
      Bool("subscribed")>>

ClientEncodes ==
    <<Num("id"), Hex("nickname"), Hex("unique_identity"), Channel("channel_id"), Bool("self"),
      Bool("talking")>>
ClientDecodes ==
    <<Num("id"), Hex("nickname"), Hex("unique_identity"), Channel("channel_id"), Bool("self"),
      Bool("talking")>>

ApplicationEncodes == <<Num("id"), Hex("name"), Num("client_database_id"), Bool("client_present")>>
ApplicationDecodes == <<Num("id"), Hex("name"), Num("client_database_id"), Bool("client_present")>>

Counts == [i \in 1 .. MaxRows + 1 |-> ToString(i - 1)]
EventEncodes == <<Hex("type"), Hex("summary"), Num("at"), [Num("count") EXCEPT !.says = Counts]>>
EventDecodes == <<Hex("type"), Hex("summary"), Num("at"), [Num("count") EXCEPT !.says = Counts]>>
Pair == <<Hex("key"), Hex("value")>>

Encodes ==
    [plugin_info |-> PluginInfoEncodes, connection_state |-> ConnectionStateEncodes,
     server_info |-> ServerInfoEncodes, channel |-> ChannelEncodes, client |-> ClientEncodes,
     server_group_application |-> ApplicationEncodes, event |-> EventEncodes]
Decodes ==
    [plugin_info |-> PluginInfoDecodes \o DiagnosticsDecodes,
     connection_state |-> ConnectionStateDecodes, server_info |-> ServerInfoDecodes,
     channel |-> ChannelDecodes, client |-> ClientDecodes,
     server_group_application |-> ApplicationDecodes, event |-> EventDecodes]

\* The type handle_client answers a command with, and the one SocketBackend
\* expects.
Answers ==
    [c \in Verbs |->
        CASE c \in {"plugin_info", "connection_state", "server_info"} -> c
          [] c = "list_channels" -> "channels"
          [] c = "list_clients" -> "clients"
          [] c \in {"get_channel", "rename_channel"} -> "channel"
          [] c = "get_client" -> "client"
          [] c = "next_event" -> "event"
          [] c \in {"apply_server_group", "apply_by_database_id"} -> "server_group_application"
          [] OTHER -> "void"]
Expects ==
    [c \in Verbs |->
        CASE c = "plugin_info" -> "plugin_info"
          [] c = "connection_state" -> "connection_state"
          [] c = "server_info" -> "server_info"
          [] c = "list_channels" -> "channels"
          [] c = "get_channel" -> "channel"
          [] c = "rename_channel" -> "channel"
          [] c = "list_clients" -> "clients"
          [] c = "get_client" -> "client"
          [] c \in {"apply_server_group", "apply_by_database_id"} -> "server_group_application"
          [] c = "next_event" -> "event"
          [] OTHER -> "void"]

\* What the backend may return for an answer of this type.
Returned(type) ==
    LET Lists(fields) == UNION {[1 .. n -> Records(fields)] : n \in 0 .. MaxRows}
        Present(a, is) == [a EXCEPT !.client_present = is]
        Pairs(e) == {<<[e EXCEPT !.count = ToString(Len(s))]>> \o s : s \in Lists(Pair)}
    IN  CASE type = "void" -> {<<>>}
          [] type = "channels" -> Lists(ChannelEncodes)
          [] type = "clients" -> Lists(ClientEncodes)
          [] type = "event" -> {<<>>} \cup UNION {Pairs(e) : e \in Records(EventEncodes)}
          [] type = "server_group_application" ->
                UNION {{<<Present(a, "false")>>}
                       \cup {<<Present(a, "true"), c>> : c \in Records(ClientEncodes)} :
                       a \in Records(ApplicationEncodes)}
          [] OTHER -> {<<r>> : r \in Records(Encodes[type])}

Head1(word) == <<<<"word", word>>>>

EncodedRow(kind, record) == Head1(kind) \o Line(Encodes[kind], record)

\* encode, encode_channels, encode_clients, encode_event: the payload.
Encoded(type, value) ==
    CASE type = "void" -> <<>>
      [] type = "channels" -> [i \in DOMAIN value |-> EncodedRow("channel", value[i])]
      [] type = "clients" -> [i \in DOMAIN value |-> EncodedRow("client", value[i])]
      [] type = "event" ->
            IF value = <<>> THEN <<Head1("no_event")>>
            ELSE <<EncodedRow("event", value[1])
                   \o FlattenSeq([i \in 1 .. Len(value) - 1 |-> Line(Pair, value[i + 1])])>>
      [] type = "server_group_application" ->
            [i \in DOMAIN value |-> EncodedRow(IF i = 1 THEN type ELSE "client", value[i])]
      [] OTHER -> <<EncodedRow(type, value[1])>>

DecodedRow(kind, line) ==
    IF Len(line) = 1 + Len(Decodes[kind]) /\ line[1] = <<"word", kind>>
    THEN FieldsRead(Decodes[kind], Tail(line)) ELSE {}

\* decode_channels, decode_clients: one line that is wrong makes all of them so.
DecodedRows(kind, lines) ==
    IF \E i \in DOMAIN lines : DecodedRow(kind, lines[i]) = {} THEN {}
    ELSE {[i \in DOMAIN lines |-> CHOOSE r \in DecodedRow(kind, lines[i]) : TRUE]}

\* decode_server_group_application: a row of the client exactly when announced.
DecodedApplication(lines) ==
    IF Len(lines) \notin {1, 2} THEN {}
    ELSE {<<a>> \o cs : a \in {b \in DecodedRow("server_group_application", lines[1]) :
                                 (b.client_present = "true") = (Len(lines) = 2)},
                        cs \in DecodedRows("client", Tail(lines))}

\* decode_event: as many pairs as the line announces.
DecodedEvent(lines) ==
    LET line == lines[1]
        Rest(i) == SubSeq(line, 4 + 2 * i, 5 + 2 * i)
    IN  IF Len(lines) # 1 THEN {}
        ELSE IF line = Head1("no_event") THEN {<<>>}
        ELSE IF Len(line) < 5 \/ line[1] # <<"word", "event">> THEN {}
        ELSE {<<e>> \o [i \in 1 .. (Len(line) - 5) \div 2 |->
                          CHOOSE p \in FieldsRead(Pair, Rest(i)) : TRUE] :
               e \in {h \in FieldsRead(EventDecodes, SubSeq(line, 2, 5)) :
                        /\ \E n \in 0 .. MaxRows : h.count = ToString(n) /\ Len(line) = 5 + 2 * n
                        /\ \A i \in 1 .. (Len(line) - 5) \div 2 : FieldsRead(Pair, Rest(i)) # {}}}

\* What a payload is read as.  get_channel, rename_channel and get_client take
\* the first of the rows.
Decoded(type, lines) ==
    CASE type = "void" -> {<<>>}
      [] type = "channels" -> DecodedRows("channel", lines)
      [] type = "clients" -> DecodedRows("client", lines)
      [] type \in {"channel", "client"} -> {<<rows[1]>> : rows \in DecodedRows(type, lines)}
      [] type = "event" -> DecodedEvent(lines)
      [] type = "server_group_application" -> DecodedApplication(lines)
      [] OTHER -> IF Len(lines) = 1 THEN {<<r>> : r \in DecodedRow(type, lines[1])} ELSE {}

-----------------------------------------------------------------------------
(* One exchange: a connection that carries a request and its answer.       *)

Idle == [step |-> "idle", command |-> "plugin_info", request |-> <<>>, line |-> <<>>,
         whole |-> FALSE, value |-> <<>>, answer |-> <<>>, result |-> {}]

ProtocolInit == exchange = Idle /\ executed = <<>>

\* SocketBackend::exchange writes its request; the connection may end before the
\* line does: a write that times out, a process that is killed.
Asks ==
    /\ exchange.step = "idle"
    /\ \E c \in Verbs : \E r \in Records(Sends[c]) :
            LET line == RequestLine(c, r)
            IN  \E n \in 0 .. Len(line), whole \in BOOLEAN :
                    /\ whole => n = Len(line)
                    /\ exchange' = [exchange EXCEPT !.step = "asked", !.command = c, !.request = r,
                                                    !.line = SubSeq(line, 1, n), !.whole = whole]
    /\ UNCHANGED executed

\* There is nobody to connect to.  Only plugin_info makes an answer of that.
Unreached ==
    /\ exchange.step = "idle"
    /\ \E c \in Verbs :
            exchange' = [exchange EXCEPT !.step = "done", !.command = c,
                            !.result = IF c # "plugin_info" THEN {}
                                       ELSE {<<[Plain(PluginInfoDecodes \o DiagnosticsDecodes)
                                                EXCEPT !.plugin_version = "unavailable"]>>}]
    /\ UNCHANGED executed

\* Mutant: what was read before the connection ended counts as a line.
read_line_any == Len(exchange.line) > 0

\* read_line: only what ends in a line break is a line.
read_line == exchange.whole

\* handle_client: nothing is made of a line that did not arrive, and an error
\* answers one that is not understood or a call that failed.
Serves ==
    /\ exchange.step = "asked"
    /\ LET calls == IF read_line THEN Understood(exchange.line) ELSE {}
           Answer(lines) == [exchange EXCEPT !.step = "answered", !.answer = lines]
           Failed == <<Head1("error"), Head1("end")>>
       IN  \/ /\ calls = {}
              /\ exchange' = Answer(IF read_line THEN Failed ELSE <<>>)
              /\ UNCHANGED executed
           \/ \E call \in calls :
                /\ executed' = Append(executed, call)
                /\ \/ exchange' = Answer(Failed)
                   \/ LET type == Answers[call.command]
                      IN  \E v \in Returned(type) :
                            exchange' = [Answer(<<Head1("ok") \o Head1(type)>>
                                                \o Encoded(type, v) \o <<Head1("end")>>)
                                         EXCEPT !.value = v]

\* Mutant: an answer that breaks off is taken for what arrived of it.
AnswerReadBrokenOff(command, lines) ==
    IF Len(lines) = 0 THEN {}
    ELSE IF lines[1] # Head1("ok") \o Head1(Expects[command]) THEN {}
    ELSE Decoded(Expects[command], SelectSeq(Tail(lines), LAMBDA l : l # Head1("end")))

\* SocketBackend::exchange and expect_type on the lines that arrived: an error
\* for any header but the expected one, and for an answer without its end.
AnswerRead(command, lines) ==
    IF Len(lines) < 2 THEN {}
    ELSE IF lines[1] # Head1("ok") \o Head1(Expects[command]) \/ Last(lines) # Head1("end") THEN {}
    ELSE Decoded(Expects[command], SubSeq(lines, 2, Len(lines) - 1))

\* The process reads until the end, or until the connection ends: the plugin
\* unloads, a write or a read times out.
Receives ==
    /\ exchange.step = "answered"
    /\ \E n \in 0 .. Len(exchange.answer) :
            exchange' = [exchange EXCEPT !.step = "done",
                            !.result = AnswerRead(exchange.command, SubSeq(exchange.answer, 1, n))]
    /\ UNCHANGED executed

\* The next process asks.
Over ==
    /\ exchange.step = "done"
    /\ exchange' = Idle
    /\ executed' = <<>>

ProtocolNext == Asks \/ Unreached \/ Serves \/ Receives \/ Over

ProtocolSpec == ProtocolInit /\ [][ProtocolNext]_protocolVars

-----------------------------------------------------------------------------
(* Properties                                                              *)

\* The backend is called once, for a request that arrived whole, with the very
\* fields the command was given: both ends agree on every field of every request,
\* and a line that broke off, a disconnect without its reason say, does nothing.
ExecutedAsAsked ==
    /\ Len(executed) <= 1
    /\ \A i \in DOMAIN executed :
          /\ exchange.whole
          /\ executed[i] = [command |-> exchange.command, request |-> exchange.request]

\* What a command reports is what the backend returned to it, in every field and
\* every row, or that there is no plugin; wherever the connection ends.
AnswerIsBackends ==
    exchange.step = "done" /\ exchange.result # {} =>
        \/ executed # <<>> /\ exchange.result = {exchange.value}
        \/ executed = <<>> /\ exchange.command = "plugin_info"

\* A request that arrived is not refused for its form, and an answer that arrived
\* is understood: an error means that the backend failed or the connection ended.
WholeIsUnderstood ==
    /\ exchange.step = "answered" /\ exchange.whole => executed # <<>>
    /\ exchange.step = "answered" /\ exchange.answer # <<>> /\ Head1("error") # exchange.answer[1] =>
          AnswerRead(exchange.command, exchange.answer) = {exchange.value}
==============================================================================
