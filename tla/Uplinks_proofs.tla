--------------------------- MODULE Uplinks_proofs ---------------------------
(***************************************************************************)
(* Theorems about Uplinks, for every clear payload, number of alarms and   *)
(* number of slots.  First the node's part, which uses nothing of the      *)
(* monitor; then that Uplinks implements Delivery, where what the monitor  *)
(* prints of an uplink is taken from Host_proofs, whose invariant holds on *)
(* the steps Uplinks lets it take.                                         *)
(***************************************************************************)
EXTENDS Uplinks, SequenceTheorems, TLAPS

LEMMA NodeTypes == Spec => []TypeOK
<1>1. Init => TypeOK
  BY UplinksConstants DEF Init, TypeOK, Senders
<1>2. TypeOK /\ [Next]_vars => TypeOK'
  <2> SUFFICES ASSUME TypeOK, [Next]_vars
               PROVE  TypeOK'
    OBVIOUS
  <2> USE UplinksConstants DEF TypeOK
  <2>1. ASSUME NEW s \in Senders, RequestUplink(s)
        PROVE  TypeOK'
    <3>1. modem' \in Seq(Senders) /\ Len(modem') <= Slots
      <4>1. CASE Len(modem) < Slots /\ modem' = Append(modem, s)
        <5>1. modem' \in Seq(Senders) /\ Len(modem') = Len(modem) + 1
          BY <4>1
        <5> QED BY <4>1, <5>1
      <4>2. CASE UNCHANGED modem
        BY <4>2
      <4> QED BY <2>1, <4>1, <4>2 DEF RequestUplink
    <3>2. pc' \in [Senders -> {"idle", "requested"}] /\ sent' \in [Senders -> Nat]
      BY <2>1 DEF RequestUplink
    <3> QED BY <2>1, <3>1, <3>2 DEF RequestUplink
  <2>2. ASSUME NEW s \in Senders, WakeTracker(s)
        PROVE  TypeOK'
    BY <2>2 DEF WakeTracker
  <2>3. CASE TimerWakes
    BY <2>3 DEF TimerWakes
  <2>4. CASE FallAsleep
    BY <2>4 DEF FallAsleep
  <2>5. CASE Transmit
    <3>1. Head(modem) \in Senders /\ Tail(modem) \in Seq(Senders)
          /\ Len(Tail(modem)) <= Slots
      BY <2>5 DEF Transmit
    <3>2. transit' \in Seq(Senders)
      <4>1. CASE transit' = Append(transit, Head(modem))
        BY <3>1, <4>1
      <4>2. CASE UNCHANGED transit
        BY <4>2
      <4> QED BY <2>5, <4>1, <4>2 DEF Transmit
    <3> QED BY <2>5, <3>1, <3>2 DEF Transmit
  <2>6. CASE Lose
    <3>1. PICK i \in DOMAIN transit : transit' = RemoveAt(transit, i)
      BY <2>6 DEF Lose
    <3>2. i \in 1 .. Len(transit)
      BY <3>1
    <3>3. SubSeq(transit, 1, i - 1) \in Seq(Senders)
          /\ SubSeq(transit, i + 1, Len(transit)) \in Seq(Senders)
      <4>1. Len(transit) \in Nat /\ i \in Nat
        BY <3>2
      <4>2. \A j \in 1 .. Len(transit) : transit[j] \in Senders
        OBVIOUS
      <4>3. \A j \in 1 .. i - 1 : transit[j] \in Senders
        BY <3>2, <4>1, <4>2
      <4>4. \A j \in i + 1 .. Len(transit) : transit[j] \in Senders
        BY <3>2, <4>1, <4>2
      <4> QED BY <4>1, <4>3, <4>4, SubSeqProperties
    <3>4. transit' \in Seq(Senders)
      BY <3>1, <3>3, ConcatProperties DEF RemoveAt
    <3> QED BY <2>6, <3>4 DEF Lose, node
  <2>7. CASE Arrive
    <3>1. transit' \in Seq(Senders)
      BY <2>7 DEF Arrive
    <3> QED BY <2>7, <3>1 DEF Arrive, node
  <2>8. CASE OtherArrives
    BY <2>8 DEF OtherArrives, node
  <2>9. CASE MonitorRuns
    BY <2>9 DEF MonitorRuns, node
  <2>10. CASE UNCHANGED vars
    BY <2>10 DEF vars, node
  <2> QED BY <2>1, <2>2, <2>3, <2>4, <2>5, <2>6, <2>7, <2>8, <2>9, <2>10 DEF Next
<1> QED BY <1>1, <1>2, PTL DEF Spec

(* The alarms of the sensors never wait in a sleeping modem, unless the    *)
(* sensor's own wake-up is still to come: requests that are refused, other *)
(* senders and a radio that falls asleep in between change nothing of it.  *)
THEOREM AlarmsAreWoken == Spec => []AlarmsWakeTheRadio
<1>1. Init => AlarmsWakeTheRadio
  BY DEF Init, AlarmsWakeTheRadio, Holds
<1>2. TypeOK /\ AlarmsWakeTheRadio /\ [Next]_vars => AlarmsWakeTheRadio'
  <2> SUFFICES ASSUME TypeOK, AlarmsWakeTheRadio, [Next]_vars,
                      NEW t \in Sensors, radio' = "asleep", Holds(t)'
               PROVE  pc'[t] = "requested"
    BY DEF AlarmsWakeTheRadio
  <2> USE DEF AlarmsWakeTheRadio
  <2>0. t \in Senders
    BY DEF Sensors, Senders
  <2>1. ASSUME NEW s \in Senders, RequestUplink(s)
        PROVE  pc'[t] = "requested"
    <3>1. CASE s = t
      BY <2>1, <2>0, <3>1 DEF RequestUplink, TypeOK, WakesAfter, Sensors
    <3>2. CASE s # t
      <4>1. Holds(t)
        <5>1. CASE modem' = Append(modem, s)
          <6>1. PICK i \in DOMAIN modem' : modem'[i] = t
            BY DEF Holds
          <6>2. i \in DOMAIN modem /\ modem[i] = t
            BY <5>1, <6>1, <3>2 DEF TypeOK
          <6> QED BY <6>2 DEF Holds
        <5>2. CASE UNCHANGED modem
          BY <5>2 DEF Holds
        <5> QED BY <2>1, <5>1, <5>2 DEF RequestUplink
      <4>2. radio = "asleep" /\ pc'[t] = pc[t]
        BY <2>0, <2>1, <3>2 DEF RequestUplink, TypeOK
      <4> QED BY <4>1, <4>2
    <3> QED BY <3>1, <3>2
  <2>2. ASSUME NEW s \in Senders, WakeTracker(s)
        PROVE  pc'[t] = "requested"
    BY <2>2 DEF WakeTracker
  <2>3. CASE TimerWakes
    BY <2>3 DEF TimerWakes
  <2>4. CASE FallAsleep
    BY <2>4 DEF FallAsleep, Holds
  <2>5. CASE Transmit
    BY <2>5 DEF Transmit
  <2>6. CASE UNCHANGED node
    BY <2>6 DEF node, Holds
  <2> QED BY <2>1, <2>2, <2>3, <2>4, <2>5, <2>6
          DEF Next, Lose, Arrive, OtherArrives, MonitorRuns, vars
<1> QED BY <1>1, <1>2, NodeTypes, PTL DEF Spec

-----------------------------------------------------------------------------
(* The monitor's part                                                      *)

HostPart == INSTANCE Host_proofs WITH
    Ports <- {0} \cup {Port(s) : s \in Senders},
    Payloads <- {<<>>} \cup {Payload[s] : s \in Senders}

\* The senders use different ports.
LEMMA PortsDiffer ==
  /\ Port("pir") = 60 /\ Port("driveway") = 70 /\ Port("accel") = 111
  /\ \A s, t \in Senders : Port(s) = Port(t) => s = t
  /\ \A s \in Senders : Port(s) \in Nat \ {0}
<1>1. Port("pir") = 60 /\ Port("driveway") = 70 /\ Port("accel") = 111
  BY Zenon DEF Port
<1> QED BY <1>1 DEF Senders

\* Host's assumption holds of its instance.
LEMMA HostAssumed == HostPart!HostConstants
<1>1. {0} \cup {Port(s) : s \in Senders} \subseteq Nat
  BY PortsDiffer
<1>2. {<<>>} \cup {Payload[s] : s \in Senders} \subseteq Seq(0 .. 255)
  <2>1. \A s \in Senders : Payload[s] \in Seq(0 .. 255)
    BY UplinksConstants
  <2>2. <<>> \in Seq(0 .. 255)
    OBVIOUS
  <2> QED BY <2>1, <2>2
<1>3. Receives \in Nat /\ Junk \subseteq 0 .. 255
  BY UplinksConstants
<1> QED BY <1>1, <1>2, <1>3 DEF HostPart!HostConstants, HostPart!Byte

LEMMA SamePadded ==
  \A s : HostPart!Padded(s) = Monitor!Padded(s)
  BY SMT DEF HostPart!Padded, HostPart!EncodedLength, HostPart!Fillers, HostPart!mod_table, HostPart!Pad,
         HostPart!Sextets, HostPart!TripleOfBytes, HostPart!Octet,
         Monitor!Padded, Monitor!EncodedLength, Monitor!Fillers, Monitor!mod_table, Monitor!Pad,
         Monitor!Sextets, Monitor!TripleOfBytes, Monitor!Octet

\* What is read of a sender's payload is the payload.
LEMMA PayloadsAreRead ==
  ASSUME NEW s \in Senders, NEW bytes, HostPart!Reads(bytes, Payload[s])
  PROVE  bytes = Payload[s]
<1>1. Payload[s] \in Seq(HostPart!Byte)
  BY UplinksConstants DEF HostPart!Byte
<1>2. HostPart!Clear(Payload[s])
  BY PayloadsAreClear, SamePadded, Zenon DEF HostPart!Clear, Monitor!Clear,
     HostPart!Unharmed, Monitor!Unharmed
<1> QED BY <1>1, <1>2, HostAssumed, HostPart!ClearIsRead

\* The two instances of Host take the same steps.
LEMMA SameSteps ==
  /\ \A m : HostPart!Receive(m) <=> Monitor!Receive(m)
  /\ HostPart!ReceiveTimesOut <=> Monitor!ReceiveTimesOut
  /\ HostPart!ReceiveFails <=> Monitor!ReceiveFails
  /\ HostPart!LoopEnds <=> Monitor!LoopEnds
  /\ HostPart!ScanToken <=> Monitor!ScanToken
  /\ HostPart!ParseEnds <=> Monitor!ParseEnds
<1>1. \A m : HostPart!Receive(m) <=> Monitor!Receive(m)
  BY Zenon DEF HostPart!Receive, Monitor!Receive, HostPart!message_parse, Monitor!message_parse,
     HostPart!Counted, Monitor!Counted, HostPart!NoEvent, Monitor!NoEvent, HostPart!parser, Monitor!parser
<1>2. HostPart!ReceiveTimesOut <=> Monitor!ReceiveTimesOut
  BY Zenon DEF HostPart!ReceiveTimesOut, Monitor!ReceiveTimesOut, HostPart!Counted, Monitor!Counted,
     HostPart!parser, Monitor!parser
<1>3. /\ HostPart!ReceiveFails <=> Monitor!ReceiveFails
      /\ HostPart!LoopEnds <=> Monitor!LoopEnds
  BY Zenon DEF HostPart!ReceiveFails, Monitor!ReceiveFails, HostPart!LoopEnds, Monitor!LoopEnds,
     HostPart!parser, Monitor!parser
<1>4. HostPart!ScanToken <=> Monitor!ScanToken
  <2>1. \A s : HostPart!Standard(s) = Monitor!Standard(s)
    BY SamePadded, Zenon DEF HostPart!Standard, Monitor!Standard, HostPart!Plus, Monitor!Plus,
       HostPart!Slash, Monitor!Slash
  <2>2. \A l, t : HostPart!base64_decode(l, t) = Monitor!base64_decode(l, t)
    <3>1. \A l, t, i : HostPart!Sextet(l, t, i) = Monitor!Sextet(l, t, i)
      BY Zenon DEF HostPart!Sextet, Monitor!Sextet, HostPart!Pad, Monitor!Pad,
         HostPart!Plus, Monitor!Plus, HostPart!Slash, Monitor!Slash
    <3>2. \A l, t, g : HostPart!TripleOfText(l, t, g) = Monitor!TripleOfText(l, t, g)
      BY <3>1, SMT DEF HostPart!TripleOfText, Monitor!TripleOfText
    <3>3. \A x : HostPart!BytesOf(x) = Monitor!BytesOf(x)
      BY SMT DEF HostPart!BytesOf, Monitor!BytesOf
    <3>4. \A t : HostPart!DecodedLength(t) = Monitor!DecodedLength(t)
      BY SMT DEF HostPart!DecodedLength, Monitor!DecodedLength, HostPart!Pad, Monitor!Pad
    <3> QED BY <3>2, <3>3, <3>4, Zenon DEF HostPart!base64_decode, Monitor!base64_decode
  <2>3. /\ HostPart!Key = Monitor!Key /\ HostPart!Value = Monitor!Value
        /\ HostPart!Bracket = Monitor!Bracket
        /\ \A x : HostPart!Scalar(x) = Monitor!Scalar(x)
    BY Zenon DEF HostPart!Key, HostPart!Value, HostPart!Bracket, HostPart!Scalar, HostPart!Token,
           Monitor!Key, Monitor!Value, Monitor!Bracket, Monitor!Scalar, Monitor!Token
  <2>4. \A m : HostPart!Written(m) = Monitor!Written(m)
    BY <2>1, Zenon DEF HostPart!Written, Monitor!Written
  <2>5. \A m : HostPart!ValueTokens(m) = Monitor!ValueTokens(m)
    BY <2>3, <2>4, Zenon DEF HostPart!ValueTokens, Monitor!ValueTokens
  <2>6. \A m : HostPart!MemberTokens(m) = Monitor!MemberTokens(m)
    BY <2>3, <2>5, Zenon DEF HostPart!MemberTokens, Monitor!MemberTokens
  <2>7. \A n, v : HostPart!event_key_value(n, v) <=> Monitor!event_key_value(n, v)
    BY <2>2 DEF HostPart!event_key_value, Monitor!event_key_value
  <2> QED BY <2>6, <2>7, Zenon DEF HostPart!ScanToken, Monitor!ScanToken
<1>5. HostPart!ParseEnds <=> Monitor!ParseEnds
  BY Zenon DEF HostPart!ParseEnds, Monitor!ParseEnds, HostPart!Line, Monitor!Line,
     HostPart!AsString, Monitor!AsString
<1> QED BY <1>1, <1>2, <1>3, <1>4, <1>5


\* What the network server sends for an uplink says its port and its payload.
LEMMA UplinkSays ==
  ASSUME NEW s \in Senders
  PROVE  /\ UplinkMessage(s) \in HostPart!Messages
         /\ UplinkMessage(s).topic = "up"
         /\ HostPart!Said(UplinkMessage(s).doc, "fPort", 0) = Port(s)
         /\ HostPart!Said(UplinkMessage(s).doc, "data", <<>>) = Payload[s]
         /\ SenderOf(UplinkMessage(s)) = s
<1> DEFINE doc == UplinkMessage(s).doc
           port == [name |-> "fPort", value |-> Monitor!Plain(Port(s))]
           other == [name |-> "rxInfo", value |-> Monitor!Plain("other")]
           data == [name |-> "data", value |-> Monitor!Plain(Payload[s])]
<1>1. doc = <<port, other, data>> /\ UplinkMessage(s).topic = "up"
  BY DEF UplinkMessage
<1>2. {port, other, data} \subseteq HostPart!Members
  <2>1. \A x : HostPart!Plain(x) = Monitor!Plain(x)
    BY DEF HostPart!Plain, Monitor!Plain
  <2> QED BY <2>1 DEF HostPart!Members, HostPart!Others
<1>3. /\ port.name = "fPort" /\ other.name = "rxInfo" /\ data.name = "data"
      /\ port.value.items[1] = Port(s) /\ data.value.items[1] = Payload[s]
  BY DEF Monitor!Plain
<1> HIDE DEF port, other, data
<1>4. /\ DOMAIN doc = 1 .. 3 /\ doc[1] = port /\ doc[2] = other /\ doc[3] = data
      /\ doc \in [1 .. 3 -> HostPart!Members]
  BY <1>1, <1>2
<1> HIDE DEF doc
<1>5. \A i, j \in DOMAIN doc : doc[i].name = doc[j].name => i = j
  BY <1>3, <1>4
<1>6. doc \in HostPart!Documents
  <2>1. doc \in UNION {[1 .. n -> HostPart!Members] : n \in 0 .. 3}
    BY <1>4
  <2>2. doc \in HostPart!BoundedSeq(HostPart!Members, 3)
    BY <2>1, Zenon DEF HostPart!BoundedSeq, HostPart!SeqOf
  <2> QED BY <1>5, <2>2 DEF HostPart!Documents
<1>7. UplinkMessage(s) \in HostPart!Messages
  <2>1. UplinkMessage(s) = [topic |-> "up", doc |-> doc]
    BY DEF doc, UplinkMessage
  <2> QED BY <1>6, <2>1 DEF HostPart!Messages
<1>8. /\ HostPart!Said(doc, "fPort", 0) = Port(s)
      /\ HostPart!Said(doc, "data", <<>>) = Payload[s]
  <2>1. \A i \in DOMAIN doc : /\ HostPart!Said(doc, doc[i].name, 0) = doc[i].value.items[1]
                              /\ HostPart!Said(doc, doc[i].name, <<>>) = doc[i].value.items[1]
    BY <1>6, HostAssumed, HostPart!OneMemberSays
  <2>2. 1 \in DOMAIN doc /\ 3 \in DOMAIN doc
    BY <1>4
  <2> QED BY <1>3, <1>4, <2>1, <2>2
<1>9. SenderOf(UplinkMessage(s)) = s
  <2>1. UplinkMessage(s).doc[1].value.items[1] = Port(s)
    BY <1>3, <1>4 DEF doc
  <2> QED BY <2>1, PortsDiffer DEF SenderOf
<1> QED BY <1>1, <1>7, <1>8, <1>9 DEF doc

\* What the monitor parses is an uplink of a sender, and is not shown yet.
Way ==
  /\ HostPart!Parsing
  /\ phase = "parsing" => lines = <<>> /\ \E s \in Senders : message = UplinkMessage(s)

\* Every step keeps it.
LEMMA StepKeepsWay ==
  ASSUME TypeOK, Way, [Next]_vars
  PROVE  Way'
<1>1. CASE UNCHANGED monitor
  <2>1. HostPart!Parsing'
    BY <1>1, HostAssumed, HostPart!StepKeepsParsing DEF Way, monitor, HostPart!vars, HostPart!parser
  <2> QED BY <1>1, <2>1 DEF Way, monitor
<1>2. CASE Arrive
  <2>1. PICK s \in Senders : Monitor!Receive(UplinkMessage(s))
    <3>1. Head(transit) \in Senders
      BY <1>2 DEF TypeOK, Arrive
    <3> QED BY <1>2, <3>1 DEF Arrive
  <2>2. HostPart!Parsing'
    BY <2>1, HostAssumed, HostPart!StepKeepsParsing, SameSteps, UplinkSays DEF Way, HostPart!Next
  <2>3. lines' = <<>> /\ message' = UplinkMessage(s)
    BY <2>1 DEF Monitor!Receive
  <2> QED BY <2>2, <2>3 DEF Way
<1>3. CASE OtherArrives
  <2>1. phase' # "parsing" /\ malloced' = malloced
    BY <1>3 DEF OtherArrives, OtherMessage, UplinkMessage, Monitor!Receive
  <2> QED BY <2>1 DEF Way, HostPart!Parsing
<1>4. CASE MonitorRuns
  <2>1. HostPart!Parsing'
    BY <1>4, HostAssumed, HostPart!StepKeepsParsing, SameSteps DEF Way, HostPart!Next, MonitorRuns
  <2>2. CASE phase' = "parsing"
    <3>1. phase = "parsing" /\ UNCHANGED <<lines, message>>
      BY <1>4, <2>2 DEF MonitorRuns, Monitor!ReceiveTimesOut, Monitor!ReceiveFails,
                        Monitor!LoopEnds, Monitor!ScanToken, Monitor!ParseEnds
    <3> QED BY <2>1, <3>1 DEF Way
  <2> QED BY <2>1, <2>2 DEF Way
<1> QED BY <1>1, <1>2, <1>3, <1>4
        DEF Next, vars, RequestUplink, WakeTracker, TimerWakes, FallAsleep, Transmit, Lose

-----------------------------------------------------------------------------
(* Sequences                                                               *)

\* What RemoveAt keeps.
LEMMA RemoveAtElements ==
  ASSUME NEW S, NEW s \in Seq(S), NEW i \in DOMAIN s
  PROVE  /\ RemoveAt(s, i) \in Seq(S)
         /\ Len(RemoveAt(s, i)) = Len(s) - 1
         /\ \A k \in 1 .. Len(s) - 1 : RemoveAt(s, i)[k] = IF k < i THEN s[k] ELSE s[k + 1]
<1> DEFINE before == SubSeq(s, 1, i - 1)
           after == SubSeq(s, i + 1, Len(s))
<1>1. i \in 1 .. Len(s) /\ Len(s) \in Nat
  OBVIOUS
<1>2. /\ before \in Seq(S) /\ Len(before) = i - 1
      /\ \A k \in 1 .. i - 1 : before[k] = s[k]
  BY <1>1
<1>3. /\ after \in Seq(S) /\ Len(after) = Len(s) - i
      /\ \A k \in 1 .. Len(s) - i : after[k] = s[i + k]
  BY <1>1
<1>4. RemoveAt(s, i) = before \o after
  BY Zenon DEF RemoveAt
<1> HIDE DEF before, after
<1>5. /\ before \o after \in Seq(S)
      /\ Len(before \o after) = Len(s) - 1
      /\ \A k \in 1 .. Len(s) - 1 : (before \o after)[k] = IF k < i THEN s[k] ELSE s[k + 1]
  <2>1. /\ before \o after \in Seq(S)
        /\ Len(before \o after) = Len(s) - 1
        /\ \A k \in 1 .. Len(s) - 1 :
             (before \o after)[k] = IF k <= i - 1 THEN before[k] ELSE after[k - (i - 1)]
    BY <1>1, <1>2, <1>3, ConcatProperties
  <2>2. \A k \in 1 .. Len(s) - 1 : k < i => k \in 1 .. i - 1 /\ k <= i - 1
    BY <1>1
  <2>3. \A k \in 1 .. Len(s) - 1 : ~(k < i) =>
          k - (i - 1) \in 1 .. Len(s) - i /\ i + (k - (i - 1)) = k + 1 /\ ~(k <= i - 1)
    BY <1>1
  <2> QED BY <1>2, <1>3, <2>1, <2>2, <2>3
<1> QED BY <1>4, <1>5

\* Without its first entry, a sequence is its tail.
LEMMA FirstRemoved ==
  ASSUME NEW S, NEW s \in Seq(S), s # <<>>
  PROVE  1 \in DOMAIN s /\ RemoveAt(s, 1) = Tail(s)
<1>1. 1 \in DOMAIN s /\ Len(s) \in Nat
  OBVIOUS
<1> DEFINE cut == RemoveAt(s, 1)
           rest == Tail(s)
<1>2. /\ cut \in Seq(S) /\ Len(cut) = Len(s) - 1
      /\ \A k \in 1 .. Len(s) - 1 : cut[k] = IF k < 1 THEN s[k] ELSE s[k + 1]
  BY <1>1, RemoveAtElements
<1>3. /\ rest \in Seq(S) /\ Len(rest) = Len(s) - 1
      /\ \A k \in 1 .. Len(s) - 1 : rest[k] = s[k + 1]
  OBVIOUS
<1> HIDE DEF cut, rest
<1>4. \A k \in 1 .. Len(s) - 1 : cut[k] = rest[k]
  BY <1>1, <1>2, <1>3
<1>5. cut = rest
  BY <1>2, <1>3, <1>4, SeqEqual
<1> QED BY <1>1, <1>5 DEF cut, rest

\* Where the entries of three sequences are.
LEMMA ThreeParts ==
  ASSUME NEW S, NEW p \in Seq(S), NEW q \in Seq(S), NEW r \in Seq(S)
  PROVE  /\ p \o q \o r \in Seq(S)
         /\ Len(p \o q \o r) = Len(p) + Len(q) + Len(r)
         /\ \A k \in 1 .. Len(p) + Len(q) + Len(r) :
              (p \o q \o r)[k] = IF k <= Len(p) THEN p[k]
                                 ELSE IF k <= Len(p) + Len(q) THEN q[k - Len(p)]
                                 ELSE r[k - (Len(p) + Len(q))]
<1> DEFINE front == p \o q
<1>1. /\ front \in Seq(S) /\ Len(front) = Len(p) + Len(q)
      /\ \A k \in 1 .. Len(p) + Len(q) : front[k] = IF k <= Len(p) THEN p[k] ELSE q[k - Len(p)]
  BY ConcatProperties
<1>2. Len(p) \in Nat /\ Len(q) \in Nat /\ Len(r) \in Nat
  OBVIOUS
<1> HIDE DEF front
<1>3. /\ front \o r \in Seq(S) /\ Len(front \o r) = Len(front) + Len(r)
      /\ \A k \in 1 .. Len(front) + Len(r) :
           (front \o r)[k] = IF k <= Len(front) THEN front[k] ELSE r[k - Len(front)]
  <2>1. front \in Seq(S)
    BY <1>1
  <2> QED BY <2>1, ConcatProperties
<1>4. \A k \in 1 .. Len(front) + Len(r) : k <= Len(front) => k \in 1 .. Len(p) + Len(q)
  BY <1>1, <1>2
<1>5. \A k \in 1 .. Len(p) + Len(q) + Len(r) :
        (front \o r)[k] = IF k <= Len(p) THEN p[k]
                          ELSE IF k <= Len(p) + Len(q) THEN q[k - Len(p)]
                          ELSE r[k - (Len(p) + Len(q))]
  <2> TAKE k \in 1 .. Len(p) + Len(q) + Len(r)
  <2>1. k \in 1 .. Len(front) + Len(r)
    BY <1>1
  <2>2. k <= Len(p) => k <= Len(p) + Len(q)
    BY <1>2
  <2> QED BY <1>1, <1>3, <1>4, <2>1, <2>2
<1> QED BY <1>1, <1>3, <1>5 DEF front

\* What is in the monitor's hands, on the way and in the modem.
Queue(p, q, r) == p \o q \o r

\* The oldest uplink of the modem goes on its way.
LEMMA HeadMoves ==
  ASSUME NEW S, NEW p \in Seq(S), NEW q \in Seq(S), NEW r \in Seq(S), r # <<>>
  PROVE  Queue(p, Append(q, Head(r)), Tail(r)) = Queue(p, q, r)
<1> DEFINE last == Append(q, Head(r))
           rest == Tail(r)
<1>1. /\ last \in Seq(S) /\ Len(last) = Len(q) + 1
      /\ \A k \in 1 .. Len(q) : last[k] = q[k]
      /\ last[Len(q) + 1] = r[1]
  OBVIOUS
<1>2. /\ rest \in Seq(S) /\ Len(rest) = Len(r) - 1
      /\ \A k \in 1 .. Len(r) - 1 : rest[k] = r[k + 1]
  OBVIOUS
<1>3. Len(p) \in Nat /\ Len(q) \in Nat /\ Len(r) \in Nat \ {0}
  OBVIOUS
<1> HIDE DEF last, rest
<1>4. /\ p \o last \o rest \in Seq(S) /\ p \o q \o r \in Seq(S)
      /\ Len(p \o last \o rest) = Len(p \o q \o r)
      /\ Len(p \o q \o r) = Len(p) + Len(q) + Len(r)
  <2>1. last \in Seq(S) /\ rest \in Seq(S)
    BY <1>1, <1>2
  <2>2. /\ p \o last \o rest \in Seq(S)
        /\ Len(p \o last \o rest) = Len(p) + Len(last) + Len(rest)
    BY <2>1, ThreeParts
  <2>3. p \o q \o r \in Seq(S) /\ Len(p \o q \o r) = Len(p) + Len(q) + Len(r)
    BY ThreeParts
  <2>4. Len(p) + Len(last) + Len(rest) = Len(p) + Len(q) + Len(r)
    BY <1>1, <1>2, <1>3
  <2> QED BY <2>2, <2>3, <2>4
<1>5. ASSUME NEW k \in 1 .. Len(p) + Len(q) + Len(r)
      PROVE  (p \o last \o rest)[k] = (p \o q \o r)[k]
  <2>1. (p \o q \o r)[k] = IF k <= Len(p) THEN p[k]
                           ELSE IF k <= Len(p) + Len(q) THEN q[k - Len(p)]
                           ELSE r[k - (Len(p) + Len(q))]
    BY ThreeParts
  <2>2. (p \o last \o rest)[k] = IF k <= Len(p) THEN p[k]
                                 ELSE IF k <= Len(p) + Len(last) THEN last[k - Len(p)]
                                 ELSE rest[k - (Len(p) + Len(last))]
    <3>1. k \in 1 .. Len(p) + Len(last) + Len(rest)
      BY <1>1, <1>2, <1>3
    <3>2. last \in Seq(S) /\ rest \in Seq(S)
      BY <1>1, <1>2
    <3>3. \A j \in 1 .. Len(p) + Len(last) + Len(rest) :
            (p \o last \o rest)[j] = IF j <= Len(p) THEN p[j]
                                     ELSE IF j <= Len(p) + Len(last) THEN last[j - Len(p)]
                                     ELSE rest[j - (Len(p) + Len(last))]
      BY <3>2, ThreeParts
    <3> QED BY <3>1, <3>3, Zenon
  <2>3. CASE k <= Len(p)
    BY <2>1, <2>2, <2>3
  <2>4. CASE ~(k <= Len(p)) /\ k <= Len(p) + Len(q)
    <3>1. k - Len(p) \in 1 .. Len(q) /\ k <= Len(p) + Len(last)
      BY <1>1, <1>3, <2>4
    <3> QED BY <1>1, <2>1, <2>2, <2>4, <3>1
  <2>5. CASE k = Len(p) + Len(q) + 1
    <3>1. /\ ~(k <= Len(p)) /\ ~(k <= Len(p) + Len(q)) /\ k <= Len(p) + Len(last)
          /\ k - Len(p) = Len(q) + 1 /\ k - (Len(p) + Len(q)) = 1
      BY <1>1, <1>3, <2>5
    <3> QED BY <1>1, <2>1, <2>2, <3>1
  <2>6. CASE k > Len(p) + Len(q) + 1
    <3>1. /\ ~(k <= Len(p)) /\ ~(k <= Len(p) + Len(q)) /\ ~(k <= Len(p) + Len(last))
          /\ k - (Len(p) + Len(last)) \in 1 .. Len(r) - 1
          /\ k - (Len(p) + Len(last)) + 1 = k - (Len(p) + Len(q))
      BY <1>1, <1>3, <2>6
    <3> QED BY <1>2, <2>1, <2>2, <3>1
  <2>7. \/ k <= Len(p)
        \/ ~(k <= Len(p)) /\ k <= Len(p) + Len(q)
        \/ k = Len(p) + Len(q) + 1
        \/ k > Len(p) + Len(q) + 1
    BY <1>3
  <2> QED BY <2>3, <2>4, <2>5, <2>6, <2>7, Zenon
<1>6. p \o last \o rest = p \o q \o r
  BY <1>3, <1>4, <1>5, SeqEqual
<1> QED BY <1>6, Zenon DEF Queue, last, rest

\* An uplink that the modem takes is the last of all.
LEMMA LastAppended ==
  ASSUME NEW S, NEW p \in Seq(S), NEW q \in Seq(S), NEW r \in Seq(S), NEW x \in S
  PROVE  p \o q \o Append(r, x) = Append(p \o q \o r, x)
<1>1. /\ <<x>> \in Seq(S) /\ p \o q \in Seq(S) /\ p \o q \o r \in Seq(S)
  OBVIOUS
<1>2. Append(r, x) = r \o <<x>> /\ Append(p \o q \o r, x) = (p \o q \o r) \o <<x>>
  BY <1>1, AppendIsConcat, Zenon
<1>3. (p \o q \o r) \o <<x>> = (p \o q) \o (r \o <<x>>)
  <2> DEFINE front == p \o q
             one == <<x>>
  <2>1. front \in Seq(S) /\ one \in Seq(S)
    BY <1>1
  <2> HIDE DEF front, one
  <2>2. (front \o r) \o one = front \o (r \o one)
    BY <2>1, ConcatAssociative
  <2> QED BY <2>2 DEF front, one
<1> QED BY <1>2, <1>3, Zenon

\* An uplink that arrives.
LEMMA FirstTaken ==
  ASSUME NEW S, NEW q \in Seq(S), NEW r \in Seq(S), q # <<>>
  PROVE  <<Head(q)>> \o Tail(q) \o r = <<>> \o q \o r
<1>1. <<Head(q)>> \o Tail(q) = q
  BY HeadTailProperties
<1>2. <<>> \o q = q
  BY ConcatEmptySeq
<1> QED BY <1>1, <1>2, Zenon

\* The uplink in the monitor's hands is the first of all.
LEMMA FirstDropped ==
  ASSUME NEW S, NEW x \in S, NEW q \in Seq(S), NEW r \in Seq(S)
  PROVE  /\ Queue(<<x>>, q, r) \in Seq(S) /\ Queue(<<x>>, q, r) # <<>>
         /\ Head(Queue(<<x>>, q, r)) = x
         /\ Tail(Queue(<<x>>, q, r)) = Queue(<<>>, q, r)
<1> DEFINE all == Queue(<<x>>, q, r)
<1>1. <<x>> \in Seq(S) /\ q \o r \in Seq(S)
  OBVIOUS
<1>2. all = <<x>> \o (q \o r)
  <2> DEFINE one == <<x>>
  <2>1. one \in Seq(S)
    BY <1>1
  <2> HIDE DEF one
  <2>2. (one \o q) \o r = one \o (q \o r)
    BY <2>1, ConcatAssociative
  <2> QED BY <2>2, Zenon DEF one, Queue
<1>3. <<>> \o q \o r = q \o r
  BY ConcatEmptySeq
<1> DEFINE rest == q \o r
<1>4. <<x>> \o rest \in Seq(S) /\ <<x>> \o rest # <<>> /\ Head(<<x>> \o rest) = x
      /\ Tail(<<x>> \o rest) = rest
  <2> HIDE DEF rest
  <2>1. rest \in Seq(S)
    BY <1>1 DEF rest
  <2> QED BY <2>1
<1>5. Queue(<<>>, q, r) = rest
  BY <1>3, Zenon DEF Queue
<1> HIDE DEF all, rest
<1>6. all \in Seq(S) /\ all # <<>> /\ Head(all) = x /\ Tail(all) = rest
  BY <1>2, <1>4, Zenon DEF rest
<1> QED BY <1>5, <1>6, Zenon DEF all

\* What is left of s when one of its entries is removed.
Loses(s, t) == \E i \in DOMAIN s : t = RemoveAt(s, i)

\* An entry of the middle of three sequences is one of the whole.
LEMMA RemoveInside ==
  ASSUME NEW S, NEW p \in Seq(S), NEW q \in Seq(S), NEW r \in Seq(S), NEW i \in DOMAIN q
  PROVE  Loses(p \o q \o r, p \o RemoveAt(q, i) \o r)
<1> DEFINE all == p \o q \o r
           cut == RemoveAt(q, i)
           kept == p \o cut \o r
           n == Len(p)
<1>1. i \in 1 .. Len(q) /\ Len(q) \in Nat /\ n \in Nat /\ Len(r) \in Nat
  OBVIOUS
<1>2. /\ all \in Seq(S) /\ Len(all) = n + Len(q) + Len(r)
      /\ \A k \in 1 .. Len(all) : all[k] = IF k <= n THEN p[k]
                                            ELSE IF k <= n + Len(q) THEN q[k - n]
                                            ELSE r[k - (n + Len(q))]
  BY ThreeParts
<1>3. /\ cut \in Seq(S) /\ Len(cut) = Len(q) - 1
      /\ \A k \in 1 .. Len(q) - 1 : cut[k] = IF k < i THEN q[k] ELSE q[k + 1]
  BY RemoveAtElements
<1> HIDE DEF cut
<1>4. /\ kept \in Seq(S) /\ Len(kept) = n + Len(cut) + Len(r)
      /\ \A k \in 1 .. Len(kept) : kept[k] = IF k <= n THEN p[k]
                                            ELSE IF k <= n + Len(cut) THEN cut[k - n]
                                            ELSE r[k - (n + Len(cut))]
  <2>1. cut \in Seq(S)
    BY <1>3
  <2> QED BY <2>1, ThreeParts
<1> HIDE DEF all, kept
<1>5. n + i \in DOMAIN all
  BY <1>1, <1>2
<1>6. /\ RemoveAt(all, n + i) \in Seq(S) /\ Len(RemoveAt(all, n + i)) = Len(all) - 1
      /\ \A k \in 1 .. Len(all) - 1 : RemoveAt(all, n + i)[k] = IF k < n + i THEN all[k] ELSE all[k + 1]
  BY <1>2, <1>5, RemoveAtElements
<1>7. Len(kept) = Len(all) - 1
  BY <1>1, <1>2, <1>3, <1>4
<1>8. ASSUME NEW k \in 1 .. Len(kept)
      PROVE  kept[k] = RemoveAt(all, n + i)[k]
  <2> HIDE DEF n
  <2>1. CASE k < n + i
    <3>1. CASE k <= n
      <4>1. kept[k] = p[k] /\ k \in 1 .. Len(all) - 1 /\ all[k] = p[k]
        BY <1>1, <1>2, <1>4, <1>7, <3>1
      <4> QED BY <1>6, <2>1, <4>1
    <3>2. CASE ~(k <= n)
      <4>1. kept[k] = cut[k - n] /\ all[k] = q[k - n] /\ k - n \in 1 .. Len(q) - 1 /\ k - n < i
        BY <1>1, <1>2, <1>3, <1>4, <1>7, <2>1, <3>2
      <4>2. RemoveAt(all, n + i)[k] = all[k]
        BY <1>6, <1>7, <2>1
      <4> QED BY <1>3, <4>1, <4>2
    <3> QED BY <3>1, <3>2
  <2>2. CASE ~(k < n + i)
    <3>1. RemoveAt(all, n + i)[k] = all[k + 1]
      BY <1>6, <1>7, <2>2
    <3>2. CASE k <= n + Len(cut)
      <4>1. kept[k] = cut[k - n] /\ all[k + 1] = q[k + 1 - n] /\ k - n \in 1 .. Len(q) - 1
            /\ ~(k - n < i) /\ k + 1 - n = k - n + 1
        BY <1>1, <1>2, <1>3, <1>4, <1>7, <2>2, <3>2
      <4> QED BY <1>3, <3>1, <4>1
    <3>3. CASE ~(k <= n + Len(cut))
      <4>0. n + Len(cut) = n + Len(q) - 1
        BY <1>1, <1>3
      <4>1. kept[k] = r[k - (n + Len(cut))]
        BY <1>1, <1>3, <1>4, <3>3, <4>0
      <4>2. all[k + 1] = r[(k + 1) - (n + Len(q))]
        <5> DEFINE j == k + 1
        <5>1. j \in 1 .. Len(all) /\ ~(j <= n) /\ ~(j <= n + Len(q))
          BY <1>1, <1>2, <1>7, <3>3, <4>0
        <5> HIDE DEF j
        <5>2. all[j] = r[j - (n + Len(q))]
          BY <1>2, <5>1
        <5> QED BY <5>2, Zenon DEF j
      <4>3. k - (n + Len(cut)) = (k + 1) - (n + Len(q))
        BY <1>1, <4>0
      <4> QED BY <3>1, <4>1, <4>2, <4>3
    <3> QED BY <3>2, <3>3
  <2> QED BY <2>1, <2>2
<1>9. RemoveAt(all, n + i) = kept
  BY <1>4, <1>6, <1>7, <1>8, SeqEqual
<1>10. Loses(all, kept)
  BY <1>5, <1>9 DEF Loses
<1> QED BY <1>10 DEF all, kept, cut
-----------------------------------------------------------------------------
(* The refinement                                                          *)

\* Way is an invariant.
LEMMA MonitorOnItsWay == Spec => [](TypeOK /\ Way)
<1>1. Init => Way
  <2>1. Junk \subseteq HostPart!Byte
    BY UplinksConstants DEF HostPart!Byte
  <2> QED BY <2>1 DEF Init, Monitor!Init, Way, HostPart!Parsing, Monitor!Leftovers,
          HostPart!Leftovers, Monitor!Plus, HostPart!Plus, Monitor!Slash, HostPart!Slash
<1>2. TypeOK /\ Way /\ [Next]_vars => Way'
  BY StepKeepsWay
<1> QED BY <1>1, <1>2, NodeTypes, PTL DEF Spec

\* What is owed are senders.
LEMMA OwedOfSenders ==
  ASSUME TypeOK, Way
  PROVE  InHand \in Seq(Senders) /\ Owed \in Seq(Senders)
<1>1. InHand \in Seq(Senders)
  <2>1. CASE phase = "parsing"
    <3>1. SenderOf(message) \in Senders
      BY <2>1, UplinkSays DEF Way
    <3> QED BY <2>1, <3>1 DEF InHand
  <2>2. CASE phase # "parsing"
    BY <2>2 DEF InHand
  <2> QED BY <2>1, <2>2
<1> QED BY <1>1, ThreeParts DEF TypeOK, Owed

\* Removing an entry of what is owed is the loss of an alarm.
LEMMA OwedLost ==
  ASSUME Loses(Owed, Owed'), lines' = lines
  PROVE  \E i \in DOMAIN Owed : Abstract!Lose(i)
BY Zenon DEF Loses, Abstract!Lose, Abstract!RemoveAt, RemoveAt

\* What the node does: an alarm is promised, or lost, or goes on its way.
LEMMA NodePromises ==
  ASSUME TypeOK, Way, UNCHANGED monitor,
         \/ \E s \in Senders : RequestUplink(s) \/ WakeTracker(s)
         \/ TimerWakes \/ FallAsleep \/ Transmit
  PROVE  \/ \E s \in Senders : Abstract!Promise(s)
         \/ \E i \in DOMAIN Owed : Abstract!Lose(i)
         \/ UNCHANGED <<Owed, lines>>
<1> USE DEF TypeOK
<1>1. InHand' = InHand /\ lines' = lines /\ InHand \in Seq(Senders)
  BY OwedOfSenders DEF InHand, SenderOf, monitor
<1>2. ASSUME NEW s \in Senders, RequestUplink(s), modem' = Append(modem, s)
      PROVE  Abstract!Promise(s)
  <2>1. Owed' = Append(Owed, s)
    BY <1>1, <1>2, LastAppended DEF Owed, RequestUplink
  <2> QED BY <1>1, <2>1 DEF Abstract!Promise
<1>3. CASE UNCHANGED <<transit, modem>>
  BY <1>1, <1>3 DEF Owed
<1>4. CASE Transmit /\ transit' = Append(transit, Head(modem))
  <2>1. InHand \in Seq(Senders) /\ transit \in Seq(Senders) /\ modem \in Seq(Senders)
    BY <1>1
  <2>2. modem # <<>> /\ transit' = Append(transit, Head(modem)) /\ modem' = Tail(modem)
    BY <1>4 DEF Transmit
  <2>3. Queue(InHand, Append(transit, Head(modem)), Tail(modem)) = Queue(InHand, transit, modem)
    BY <2>1, <2>2, HeadMoves
  <2>4. Owed' = Owed
    BY <1>1, <2>2, <2>3, Zenon DEF Owed, Queue
  <2> QED BY <1>1, <2>4
<1>5. CASE Transmit /\ UNCHANGED transit
  <2> DEFINE p == InHand \o transit
  <2>1. p \in Seq(Senders) /\ 1 \in DOMAIN modem /\ modem # <<>> /\ modem' = Tail(modem)
    BY <1>1, <1>5 DEF Transmit
  <2>2. RemoveAt(modem, 1) = modem'
    BY <2>1, FirstRemoved
  <2> HIDE DEF p
  <2>3. Loses(p \o modem \o <<>>, p \o modem' \o <<>>)
    <3> DEFINE none == <<>>
    <3>1. none \in Seq(Senders)
      OBVIOUS
    <3> HIDE DEF none
    <3>2. Loses(p \o modem \o none, p \o RemoveAt(modem, 1) \o none)
      BY <2>1, <3>1, RemoveInside, Zenon
    <3> QED BY <2>2, <3>2 DEF none
  <2>4. p \o modem \o <<>> = p \o modem /\ p \o modem' \o <<>> = p \o modem'
    <3>1. p \o modem \in Seq(Senders) /\ p \o modem' \in Seq(Senders)
      BY <2>1
    <3> QED BY <3>1, ConcatEmptySeq, Zenon
  <2>5. Owed = p \o modem /\ Owed' = p \o modem'
    BY <1>1, <1>5 DEF Owed, p
  <2>6. Loses(Owed, Owed')
    BY <2>3, <2>4, <2>5, Zenon
  <2> QED BY <1>1, <2>6, OwedLost, Zenon
<1> QED BY <1>2, <1>3, <1>4, <1>5 DEF RequestUplink, WakeTracker, TimerWakes, FallAsleep, Transmit

\* An uplink lost behind the gateway.
LEMMA LossIsLoss ==
  ASSUME TypeOK, Way, Lose
  PROVE  \E i \in DOMAIN Owed : Abstract!Lose(i)
<1>1. PICK i \in DOMAIN transit : transit' = RemoveAt(transit, i)
  BY DEF Lose
<1>2. InHand' = InHand /\ lines' = lines /\ modem' = modem
  BY DEF InHand, SenderOf, Lose, monitor, node
<1>3. Loses(InHand \o transit \o modem, InHand \o RemoveAt(transit, i) \o modem)
  <2>1. InHand \in Seq(Senders) /\ transit \in Seq(Senders) /\ modem \in Seq(Senders)
    BY OwedOfSenders DEF TypeOK
  <2> QED BY <1>1, <2>1, RemoveInside, Zenon
<1>4. Loses(Owed, Owed')
  BY <1>1, <1>2, <1>3, Zenon DEF Owed
<1> QED BY <1>2, <1>4, OwedLost, Zenon

\* An uplink that arrives is still owed; the line of the last one goes.
LEMMA ArrivalClears ==
  ASSUME TypeOK, Way, Arrive \/ OtherArrives
  PROVE  Abstract!Clear
<1> USE DEF TypeOK
<1>1. CASE Arrive
  <2> DEFINE s == Head(transit)
  <2>1. s \in Senders /\ transit # <<>> /\ transit' = Tail(transit) /\ modem' = modem
    BY <1>1 DEF Arrive, node
  <2>2. Monitor!Receive(UplinkMessage(s))
    BY <1>1 DEF Arrive
  <2>3. phase = "waiting" /\ phase' = "parsing" /\ message' = UplinkMessage(s) /\ lines' = <<>>
    BY <2>2 DEF Monitor!Receive, UplinkMessage, Monitor!message_parse
  <2>4. InHand = <<>> /\ InHand' = <<s>>
    BY <2>1, <2>3, UplinkSays DEF InHand, SenderOf
  <2>5. Owed' = Owed
    BY <2>1, <2>4, FirstTaken DEF Owed
  <2> QED BY <2>3, <2>5 DEF Abstract!Clear
<1>2. CASE OtherArrives
  <2>1. phase = "waiting" /\ phase' = "waiting" /\ lines' = <<>>
        /\ transit' = transit /\ modem' = modem
    BY <1>2 DEF OtherArrives, OtherMessage, UplinkMessage, Monitor!Receive, node
  <2>2. Owed' = Owed
    BY <2>1 DEF Owed, InHand
  <2> QED BY <2>1, <2>2 DEF Abstract!Clear
<1> QED BY <1>1, <1>2

\* The line that is printed is one of the alarm that is owed first.
LEMMA ParseShows ==
  ASSUME TypeOK, Way, MonitorRuns
  PROVE  \/ Abstract!Show
         \/ \E i \in DOMAIN Owed : Abstract!Lose(i)
         \/ UNCHANGED <<Owed, lines>>
<1> USE DEF TypeOK
<1>0. transit' = transit /\ modem' = modem
  BY DEF MonitorRuns, node
<1>1. CASE Monitor!ScanToken
  <2>1. UNCHANGED <<phase, message, lines>>
    BY <1>1 DEF Monitor!ScanToken
  <2> QED BY <1>0, <2>1 DEF Owed, InHand, SenderOf
<1>2. CASE Monitor!ReceiveTimesOut \/ Monitor!ReceiveFails \/ Monitor!LoopEnds
  <2>1. phase # "parsing" /\ phase' # "parsing" /\ lines' = lines
    BY <1>2 DEF Monitor!ReceiveTimesOut, Monitor!ReceiveFails, Monitor!LoopEnds
  <2> QED BY <1>0, <2>1 DEF Owed, InHand
<1>3. CASE Monitor!ParseEnds
  <2>1. /\ phase = "parsing" /\ phase' # "parsing" /\ lines = <<>>
        /\ lines' = IF event.f_port = 0 THEN <<>>
                    ELSE <<Monitor!Line(event.f_port, event.payload)>>
    BY <1>3 DEF Monitor!ParseEnds, Way
  <2>2. PICK s \in Senders : message = UplinkMessage(s)
    BY <2>1 DEF Way
  <2>3. /\ event.f_port \in {0, Port(s)}
        /\ event.payload \in {<<>>, Payload[s]}
    <3>1. /\ event.f_port \in {0, Port(s)}
          /\ event.payload = <<>> \/ HostPart!Reads(event.payload, Payload[s])
      BY <2>1, <2>2, UplinkSays
         DEF Way, HostPart!Parsing, HostPart!Faithful, HostPart!SaidPort, HostPart!SaidData
    <3> QED BY <3>1, PayloadsAreRead
  <2>4. InHand = <<s>> /\ InHand' = <<>>
    BY <2>1, <2>2, UplinkSays DEF InHand
  <2>5. Owed \in Seq(Senders) /\ Owed # <<>> /\ Head(Owed) = s /\ Owed' = Tail(Owed)
    <3>1. transit \in Seq(Senders) /\ modem \in Seq(Senders)
      OBVIOUS
    <3>2. Owed = Queue(<<s>>, transit, modem) /\ Owed' = Queue(<<>>, transit, modem)
      BY <1>0, <2>4, Zenon DEF Owed, Queue
    <3>3. /\ Owed \in Seq(Senders) /\ Owed # <<>> /\ Head(Owed) = s
          /\ Tail(Owed) = Queue(<<>>, transit, modem)
      BY <3>1, <3>2, FirstDropped
    <3> QED BY <3>2, <3>3, Zenon
  <2>6. CASE event.f_port = 0
    <3>1. Loses(Owed, Owed')
      <4>1. 1 \in DOMAIN Owed /\ RemoveAt(Owed, 1) = Owed'
        BY <2>5, FirstRemoved
      <4> QED BY <4>1 DEF Loses
    <3>2. lines' = lines
      BY <2>1, <2>6
    <3> QED BY <3>1, <3>2, OwedLost, Zenon
  <2>7. CASE event.f_port # 0
    <3>1. /\ lines' = <<Monitor!Line(event.f_port, event.payload)>>
          /\ event.f_port = Port(s)
      BY <2>1, <2>3, <2>7
    <3>2. Monitor!Line(event.f_port, event.payload) \in MayShow(s)
      BY <2>3, <3>1, Zenon DEF MayShow
    <3>3. \E line \in MayShow(Head(Owed)) : lines' = <<line>>
      BY <2>5, <3>1, <3>2
    <3> QED BY <2>5, <3>3 DEF Abstract!Show
  <2> QED BY <2>6, <2>7
<1> QED BY <1>1, <1>2, <1>3 DEF MonitorRuns

(* Node, network and monitor keep Delivery's promise, however many uplinks *)
(* there are and whatever they carry, as long as their standard base64 has *)
(* no '+' and no '/' (PayloadsAreClear; AsciiIsClear names such texts): a  *)
(* line on the host is that of an alarm the modem accepted, once, and in   *)
(* their order.                                                            *)
THEOREM UplinksImplementDelivery == Spec => ImplementsDelivery
<1>1. Init => Abstract!Init
  <2> SUFFICES ASSUME Init
               PROVE  Abstract!Init
    OBVIOUS
  <2>1. InHand = <<>> /\ transit = <<>> /\ modem = <<>> /\ lines = <<>>
    BY DEF Init, Monitor!Init, InHand
  <2>2. <<>> \o <<>> \o <<>> = <<>>
    BY ConcatEmptySeq
  <2> QED BY <2>1, <2>2, Zenon DEF Abstract!Init, Owed
<1>2. TypeOK /\ Way /\ [Next]_vars => [Abstract!Next]_(Abstract!vars)
  <2> SUFFICES ASSUME TypeOK, Way, [Next]_vars
               PROVE  Abstract!Next \/ UNCHANGED <<Owed, lines>>
    BY DEF Abstract!vars
  <2>1. CASE UNCHANGED vars
    BY <2>1 DEF vars, node, monitor, Owed, InHand, SenderOf
  <2>2. CASE /\ UNCHANGED monitor
             /\ \/ \E s \in Senders : RequestUplink(s) \/ WakeTracker(s)
                \/ TimerWakes \/ FallAsleep \/ Transmit
    BY <2>2, NodePromises DEF Abstract!Next
  <2>3. CASE Lose
    BY <2>3, LossIsLoss DEF Abstract!Next
  <2>4. CASE Arrive \/ OtherArrives
    BY <2>4, ArrivalClears DEF Abstract!Next
  <2>5. CASE MonitorRuns
    BY <2>5, ParseShows DEF Abstract!Next
  <2>6. \A s \in Senders : RequestUplink(s) \/ WakeTracker(s) => UNCHANGED monitor
    BY DEF RequestUplink, WakeTracker
  <2>7. TimerWakes \/ FallAsleep \/ Transmit => UNCHANGED monitor
    BY DEF TimerWakes, FallAsleep, Transmit
  <2> QED BY <2>1, <2>2, <2>3, <2>4, <2>5, <2>6, <2>7, Zenon DEF Next
<1> QED BY <1>1, <1>2, MonitorOnItsWay, PTL DEF Spec, ImplementsDelivery, Abstract!Spec

=============================================================================
