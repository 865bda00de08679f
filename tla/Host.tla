-------------------------------- MODULE Host --------------------------------
(***************************************************************************)
(* The monitor on the host, src/host/apps/home_security: main receives     *)
(* MQTT messages one by one, process_message picks the uplinks,            *)
(* message_parse walks their YAML tokens and leaves what it understands in *)
(* the one event of event.c, and event_process prints that event.          *)
(*                                                                         *)
(* The scanner of libyaml may give up anywhere in a payload; the code then *)
(* prints what it has.  A receive may time out, or fail.  The texts fit    *)
(* the buffers they are copied to.                                         *)
(***************************************************************************)
EXTENDS Base64, SequencesExt

CONSTANTS
    Ports,       \* the LoRaWAN ports of uplinks; 0 stands for none
    Payloads,    \* the bytes sent in uplinks
    Junk,        \* the bytes malloc may leave in the memory it returns
    Receives     \* how often main receives before it exits (24 * 60 * 60)

ASSUME HostConstants ==
    /\ Ports \subseteq Nat
    /\ Payloads \subseteq Seq(Byte)
    /\ Junk \subseteq Byte
    /\ Receives \in Nat

(* What a broker delivers: a topic and a document.  A document is a        *)
(* sequence of members with different names; "fPort" and "data" are plain  *)
(* members of the network server's document, and the other members, of any *)
(* shape, have no member of either name inside.                            *)
Plain(text)  == [shape |-> "plain", items |-> <<text>>]
Others       == {Plain("other"), [shape |-> "list", items |-> <<"other", "other">>],
                 [shape |-> "map", items |-> <<"other", "other">>]}
Members      == {[name |-> "fPort", value |-> Plain(p)] : p \in Ports}
                \cup {[name |-> "data", value |-> Plain(d)] : d \in Payloads}
                \cup {[name |-> "rxInfo", value |-> v] : v \in Others}
Documents    == {doc \in BoundedSeq(Members, 3) :
                    \A i, j \in DOMAIN doc : doc[i].name = doc[j].name => i = j}
Messages     == [topic : {"up"}, doc : Documents]
                \cup [topic : {"application", "elsewhere"}, doc : {<<m>> : m \in Members}]

(* The tokens of a member: brackets are all alike to message_parse.  The   *)
(* network server writes data in standard base64, a port as its number.    *)
Token(type, text) == [type |-> type, text |-> text]
Key     == Token("key", "none")
Value   == Token("value", "none")
Bracket == Token("bracket", "none")
Scalar(text) == Token("scalar", text)

Written(member) ==
    IF member.name = "data" THEN Standard(member.value.items[1]) ELSE member.value.items[1]

ValueTokens(member) ==
    LET value == member.value
    IN  CASE value.shape = "plain" -> <<Scalar(Written(member))>>
          [] value.shape = "list"  -> <<Bracket, Scalar(value.items[1]), Bracket,
                                        Scalar(value.items[2]), Bracket>>
          [] value.shape = "map"   -> <<Bracket, Key, Scalar(value.items[1]), Value,
                                        Scalar(value.items[2]), Bracket>>

MemberTokens(member) == <<Key, Scalar(member.name), Value>> \o ValueTokens(member)

VARIABLES
    phase,       \* "waiting" in MQTTClient_receive, "parsing", "stopped"
    seconds,     \* main's loop counter
    unread,      \* the members the scanner has not come to
    tokens,      \* what it has left of the present member
    key, last_token_type,  \* locals of message_parse
    event,       \* the event of event.c
    lines,       \* what was printed for the current message: at most one line
    message,     \* history: the message received last
    malloced     \* what decoding_table holds for characters it was not built for

parser == <<unread, tokens, key, last_token_type>>
vars   == <<phase, seconds, parser, event, lines, message, malloced>>

NoEvent == [f_port |-> 0, payload |-> <<>>]

Init == /\ phase \in {"waiting", "stopped"}     \* connected and subscribed, or not
        /\ seconds = 0
        /\ unread = <<>> /\ tokens = <<>>
        /\ key = "" /\ last_token_type = "none"
        /\ event = NoEvent
        /\ lines = <<>>
        /\ message = [topic |-> "elsewhere", doc |-> <<>>]
        /\ malloced \in Leftovers(Junk)     \* of the first decode, which builds it

\* A parse that would start with the event of the message before.
message_parse_Stale(doc) ==
    /\ phase' = "parsing"
    /\ unread' = doc /\ tokens' = <<>>
    /\ last_token_type' = "none"
    /\ UNCHANGED <<event, key>>

message_parse(doc) ==
    /\ phase' = "parsing"
    /\ event' = NoEvent
    /\ unread' = doc /\ tokens' = <<>>
    /\ last_token_type' = "none"
    /\ UNCHANGED key

\* A loop that would count its timeouts only.
Counted_Timeouts(received) == IF received THEN seconds ELSE seconds + 1

\* Every turn of main's loop counts, with a message or without.
Counted(received) == seconds + 1

(* A message: process_message wants an uplink with a payload.              *)
Receive(m) ==
    /\ phase = "waiting" /\ seconds < Receives
    /\ seconds' = Counted(TRUE)
    /\ message' = m
    /\ lines' = <<>>
    /\ IF m.topic = "up" /\ m.doc # <<>>
       THEN message_parse(m.doc)
       ELSE UNCHANGED <<phase, parser, event>>
    /\ UNCHANGED malloced

ReceiveTimesOut ==
    /\ phase = "waiting" /\ seconds < Receives
    /\ seconds' = Counted(FALSE)
    /\ UNCHANGED <<phase, parser, event, lines, message, malloced>>

ReceiveFails ==
    /\ phase = "waiting" /\ seconds < Receives
    /\ phase' = "stopped"
    /\ UNCHANGED <<seconds, parser, event, lines, message, malloced>>

LoopEnds ==
    /\ phase = "waiting" /\ seconds = Receives
    /\ phase' = "stopped"
    /\ UNCHANGED <<seconds, parser, event, lines, message, malloced>>

\* Data that would start the event over.
event_key_value_StartsOver(name, value) ==
    event' = IF name = "data" /\ value # <<>>
             THEN [NoEvent EXCEPT !.payload = base64_decode(malloced, value)]
             ELSE [event EXCEPT !.f_port = IF name = "fPort" THEN value ELSE @]

(* What is said under other names is dropped.                              *)
event_key_value(name, value) ==
    event' = [f_port  |-> IF name = "fPort" THEN value ELSE event.f_port,
              payload |-> IF name # "data" THEN event.payload
                          ELSE IF value = <<>> THEN <<>> ELSE base64_decode(malloced, value)]

(* One turn of message_parse's loop.  Only a scalar right after a key or a *)
(* value, brackets aside, counts.                                          *)
ScanToken ==
    /\ phase = "parsing" /\ (tokens # <<>> \/ unread # <<>>)
    /\ LET upcoming == IF tokens # <<>> THEN tokens ELSE MemberTokens(Head(unread))
           token == Head(upcoming)
       IN  /\ tokens' = Tail(upcoming)
           /\ unread' = IF tokens # <<>> THEN unread ELSE Tail(unread)
           /\ last_token_type' = CASE token.type = "scalar" -> "none"
                                   [] token.type = "bracket" -> last_token_type
                                   [] OTHER -> token.type
           /\ key' = IF token.type = "scalar" /\ last_token_type = "key"
                     THEN token.text ELSE key
           /\ IF token.type = "scalar" /\ last_token_type = "value"
              THEN event_key_value(key, token.text)
              ELSE UNCHANGED event
    /\ UNCHANGED <<phase, seconds, lines, message, malloced>>

\* printf's %s stops at the first zero.
AsString(bytes) ==
    LET zeros == {i \in DOMAIN bytes : bytes[i] = 0}
    IN  SubSeq(bytes, 1, IF zeros = {} THEN Len(bytes)
                         ELSE (CHOOSE i \in zeros : \A j \in zeros : i <= j) - 1)

(* What event_process prints: the data of the two ports it knows.          *)
Line(f_port, payload) ==
    CASE f_port = 60 -> [label |-> "PIR", text |-> AsString(payload)]
      [] f_port = 70 -> [label |-> "DRIVEWAY_SENSOR", text |-> AsString(payload)]
      [] OTHER -> [label |-> "Unknown fport", text |-> <<>>]

(* The scanner has come to the end, or has given up: event_process.        *)
ParseEnds ==
    /\ phase = "parsing"
    /\ phase' = "waiting"
    /\ lines' = IF event.f_port = 0 THEN <<>> ELSE <<Line(event.f_port, event.payload)>>
    /\ unread' = <<>> /\ tokens' = <<>>
    /\ UNCHANGED <<seconds, key, last_token_type, event, message, malloced>>

Next == \/ \E m \in Messages : Receive(m)
        \/ ReceiveTimesOut
        \/ ReceiveFails
        \/ LoopEnds
        \/ ScanToken
        \/ ParseEnds

Spec == Init /\ [][Next]_vars

(* A receive that gets nothing returns within a second, and the rest of    *)
(* main waits for nobody.  Nothing is assumed of what is published.        *)
FairSpec == /\ Spec
            /\ WF_vars(ReceiveTimesOut)
            /\ WF_vars(LoopEnds)
            /\ WF_vars(ScanToken)
            /\ WF_vars(ParseEnds)

-----------------------------------------------------------------------------
(* What the document says under a name, at its top level.                  *)
Said(doc, name, otherwise) ==
    IF \E i \in DOMAIN doc : doc[i].name = name
    THEN doc[CHOOSE i \in DOMAIN doc : doc[i].name = name].value.items[1]
    ELSE otherwise

SaidPort == Said(message.doc, "fPort", 0)
SaidData == Said(message.doc, "data", <<>>)

(* A line is printed for an uplink only, with this uplink's port and the   *)
(* bytes the decoder left in the event: none if the scanner gave up before *)
(* the data, else as many as were sent, and those that were sent, but in   *)
(* the groups where the server writes '+' or '/', letters base64.c does    *)
(* not know.  They are never those of another message, although all share  *)
(* one event, nor another member's, and the memory that malloc returned    *)
(* shows nowhere else.                                                     *)
PrintsThisUplink ==
    \A i \in DOMAIN lines :
        /\ message.topic = "up" /\ SaidPort # 0
        /\ lines[i] = Line(SaidPort, event.payload)
        /\ event.payload = <<>> \/ Reads(event.payload, SaidData)

(* An uplink that was scanned to its end is printed, with all it says, if  *)
(* it has a port: data without '+' and '/' as they were sent.              *)
PrintsEveryUplink ==
    [][phase = "parsing" /\ phase' = "waiting" /\ unread = <<>> /\ tokens = <<>>
       /\ SaidPort # 0
       => /\ lines' = <<Line(SaidPort, event.payload)>>
          /\ Reads(event.payload, SaidData)
          /\ Clear(SaidData) => lines' = <<Line(SaidPort, SaidData)>>]_vars

(* main returns in the end, so that its executable can be replaced,        *)
(* whatever is published and wherever a parse gives up                     *)
(* (home_security.c:97, "Exit every 24 hours").                            *)
MainReturns == <>(phase = "stopped")

=============================================================================
