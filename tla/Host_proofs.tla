----------------------------- MODULE Host_proofs -----------------------------
(***************************************************************************)
(* Theorems about Host, for every set of ports and payloads, and every     *)
(* number of receives: what is printed is the uplink's own, and complete   *)
(* when the scan was.                                                      *)
(***************************************************************************)
EXTENDS Host, Base64_proofs, SequenceTheorems

Wanted == {"fPort", "data"}

\* The members of the present document.
Own == {message.doc[i] : i \in DOMAIN message.doc}

-----------------------------------------------------------------------------
(* The inductive invariant                                                 *)

\* The scanner is before the name, the value token, or the value of a member.
At(m) ==
    \/ tokens = <<Scalar(m.name), Value>> \o ValueTokens(m) /\ last_token_type = "key"
    \/ tokens = <<Value>> \o ValueTokens(m) /\ last_token_type = "none" /\ key = m.name
    \/ tokens = ValueTokens(m) /\ last_token_type = "value" /\ key = m.name

\* What the other members have in their values.
InnerTokens == {Key, Value, Bracket, Scalar("other")}

\* It is in the value of a member whose name is not wanted.
Inside == tokens \in Seq(InnerTokens) /\ key \notin Wanted

Scanning == tokens = <<>> \/ Inside \/ \E m \in Own : At(m)

\* A member of this name is still to be scanned.
Waits(name) ==
    \E m \in Own : m.name = name /\ (At(m) \/ \E i \in DOMAIN unread : unread[i] = m)

\* The event has what the document says, or nothing as long as that waits.
Faithful ==
    /\ event.f_port \in {0, SaidPort}
    /\ event.payload = <<>> \/ Reads(event.payload, SaidData)
    /\ event.f_port = SaidPort \/ Waits("fPort")
    /\ Reads(event.payload, SaidData) \/ Waits("data")

Parsing ==
    /\ malloced \in Leftovers(Byte)
    /\ phase = "parsing" =>
        /\ lines = <<>>
        /\ message \in Messages /\ message.topic = "up"
        /\ unread \in Seq(Own)
        /\ Scanning
        /\ Faithful

-----------------------------------------------------------------------------
(* Documents and their tokens                                              *)

\* The shapes a member of an uplink may have.
LEMMA MemberShapes ==
  ASSUME NEW m \in Members
  PROVE  /\ m.name \in {"fPort", "data", "rxInfo"}
         /\ m.name = "fPort" => m.value = Plain(m.value.items[1])
         /\ m.name = "data" => m.value = Plain(m.value.items[1])
                               /\ m.value.items[1] \in Seq(Byte)
         /\ m.name = "rxInfo" => m.value \in Others
<1>1. CASE \E p \in Ports : m = [name |-> "fPort", value |-> Plain(p)]
  BY <1>1 DEF Plain
<1>2. CASE \E d \in Payloads : m = [name |-> "data", value |-> Plain(d)]
  BY <1>2, HostConstants DEF Plain
<1>3. CASE \E v \in Others : m = [name |-> "rxInfo", value |-> v]
  BY <1>3
<1> QED BY <1>1, <1>2, <1>3 DEF Members

\* The tokens of a wanted value are one scalar.
LEMMA WantedTokens ==
  ASSUME NEW m \in Members, m.name \in Wanted
  PROVE  ValueTokens(m) = <<Scalar(Written(m))>>
<1>1. PICK text : m.value = Plain(text)
  BY MemberShapes DEF Wanted
<1>2. m.value.shape = "plain"
  BY <1>1 DEF Plain
<1> QED BY <1>2, Zenon DEF ValueTokens

\* The tokens of any other value hold no text but "other".
LEMMA OtherTokens ==
  ASSUME NEW m \in Members, m.name \notin Wanted
  PROVE  ValueTokens(m) \in Seq(InnerTokens) /\ ValueTokens(m) # <<>>
<1>1. m.name = "rxInfo" /\ m.value \in Others
  BY MemberShapes DEF Wanted
<1>2. CASE m.value = Plain("other")
  <2>1. m.value.shape = "plain" /\ m.value.items[1] = "other"
    BY <1>2 DEF Plain
  <2>2. Written(m) = "other"
    BY <1>1, <2>1 DEF Written
  <2>3. ValueTokens(m) = <<Scalar("other")>>
    BY <2>1, <2>2, Zenon DEF ValueTokens
  <2> QED BY <2>3 DEF InnerTokens
<1>3. CASE m.value = [shape |-> "list", items |-> <<"other", "other">>]
  <2>1. /\ m.value.shape = "list"
        /\ m.value.items[1] = "other" /\ m.value.items[2] = "other"
    BY <1>3
  <2>2. ValueTokens(m) = <<Bracket, Scalar("other"), Bracket, Scalar("other"), Bracket>>
    BY <2>1, Zenon DEF ValueTokens
  <2> QED BY <2>2 DEF InnerTokens
<1>4. CASE m.value = [shape |-> "map", items |-> <<"other", "other">>]
  <2>1. /\ m.value.shape = "map"
        /\ m.value.items[1] = "other" /\ m.value.items[2] = "other"
    BY <1>4
  <2>2. ValueTokens(m) = <<Bracket, Key, Scalar("other"), Value, Scalar("other"), Bracket>>
    BY <2>1, Zenon DEF ValueTokens
  <2> QED BY <2>2 DEF InnerTokens
<1> QED BY <1>1, <1>2, <1>3, <1>4 DEF Others

LEMMA SomeTokens ==
  ASSUME NEW m \in Members
  PROVE  \E S : ValueTokens(m) \in Seq(S)
<1>1. CASE m.name \in Wanted
  <2>1. PICK x : ValueTokens(m) = <<x>>
    BY <1>1, WantedTokens
  <2>2. <<x>> \in Seq({x})
    OBVIOUS
  <2> QED BY <2>1, <2>2
<1>2. CASE m.name \notin Wanted
  BY <1>2, OtherTokens
<1> QED BY <1>1, <1>2

\* Names are different: what is said under a name is what its member says.
LEMMA OneMemberSays ==
  ASSUME NEW doc \in Documents, NEW i \in DOMAIN doc, NEW otherwise
  PROVE  Said(doc, doc[i].name, otherwise) = doc[i].value.items[1]
<1> DEFINE j == CHOOSE k \in DOMAIN doc : doc[k].name = doc[i].name
<1>1. j \in DOMAIN doc /\ doc[j].name = doc[i].name
  OBVIOUS
<1>2. j = i
  BY <1>1 DEF Documents
<1> QED BY <1>2 DEF Said

LEMMA DocumentMembers ==
  ASSUME NEW doc \in Documents
  PROVE  doc \in Seq(Members)
<1>1. PICK n \in 0 .. 3 : doc \in [1 .. n -> Members]
  BY Zenon DEF Documents, BoundedSeq, SeqOf
<1> QED BY <1>1

LEMMA NothingReads == Reads(<<>>, <<>>)
<1>1. DOMAIN <<>> = {}
  OBVIOUS
<1>2. <<>> \in [{} -> Byte]
  OBVIOUS
<1> QED BY <1>1, <1>2 DEF Reads

\* What the decoder makes of what the server wrote.
LEMMA DecodesWritten ==
  ASSUME NEW s \in Seq(Byte), NEW left \in Leftovers(Byte)
  PROVE  Reads(IF Standard(s) = <<>> THEN <<>> ELSE base64_decode(left, Standard(s)), s)
<1>1. CASE s = <<>>
  <2>1. EncodedLength(Len(s)) = 0
    BY <1>1 DEF EncodedLength
  <2>2. Standard(s) \in Seq(Letter \cup {Pad, Plus, Slash}) /\ Len(Standard(s)) = 0
    BY <2>1, StandardText DEF Text
  <2>3. Standard(s) = <<>>
    BY <2>2
  <2> QED BY <1>1, <2>3, NothingReads
<1>2. CASE s # <<>>
  <2>1. Len(s) \in Nat \ {0}
    BY <1>2
  <2>2. EncodedLength(Len(s)) # 0
    BY <2>1 DEF EncodedLength
  <2>3. Standard(s) # <<>>
    BY <2>2, StandardText
  <2> QED BY <1>2, <2>3, DecodeReadsStandard
<1> QED BY <1>1, <1>2

-----------------------------------------------------------------------------
(* Steps of the scanner                                                    *)

LEMMA HeadAndTail ==
  ASSUME NEW S, NEW v \in Seq(S), NEW a, NEW b, NEW c
  PROVE  /\ <<a>> \o v # <<>> /\ Head(<<a>> \o v) = a /\ Tail(<<a>> \o v) = v
         /\ <<a, b>> \o v # <<>> /\ Head(<<a, b>> \o v) = a
         /\ Tail(<<a, b>> \o v) = <<b>> \o v
         /\ Head(<<a, b, c>> \o v) = a /\ Tail(<<a, b, c>> \o v) = <<b, c>> \o v
<1> DEFINE T == S \cup {a, b, c}
<1>1. v \in Seq(T) /\ a \in T /\ b \in T /\ c \in T
  OBVIOUS
<1> HIDE DEF T
<1>2. <<a>> \o v # <<>> /\ Head(<<a>> \o v) = a /\ Tail(<<a>> \o v) = v
  BY <1>1
<1>3. <<a, b>> \o v # <<>> /\ Head(<<a, b>> \o v) = a /\ Tail(<<a, b>> \o v) = <<b>> \o v
  BY <1>1
<1>4. Head(<<a, b, c>> \o v) = a /\ Tail(<<a, b, c>> \o v) = <<b, c>> \o v
  BY <1>1
<1> QED BY <1>2, <1>3, <1>4

\* What a token does while tokens of a member are left.
LEMMA TokenStep ==
  ASSUME ScanToken, tokens # <<>>
  PROVE  LET token == Head(tokens)
         IN  /\ tokens' = Tail(tokens) /\ unread' = unread
             /\ token.type = "scalar" => last_token_type' = "none"
             /\ token.type = "bracket" => last_token_type' = last_token_type
             /\ token.type \in {"key", "value"} => last_token_type' = token.type
             /\ key' = IF token.type = "scalar" /\ last_token_type = "key"
                       THEN token.text ELSE key
             /\ IF token.type = "scalar" /\ last_token_type = "value"
                THEN event_key_value(key, token.text) ELSE event' = event
<1> DEFINE token == Head(tokens)
<1>1. last_token_type' = CASE token.type = "scalar" -> "none"
                           [] token.type = "bracket" -> last_token_type
                           [] OTHER -> token.type
  BY DEF ScanToken
<1>2. token.type = "scalar" => last_token_type' = "none"
  <2> HIDE DEF token
  <2> QED BY <1>1, Zenon
<1>3. token.type = "bracket" => last_token_type' = last_token_type
  <2> HIDE DEF token
  <2> QED BY <1>1, Zenon
<1>4. token.type \in {"key", "value"} => last_token_type' = token.type
  <2> HIDE DEF token
  <2> QED BY <1>1, Zenon
<1> QED BY <1>2, <1>3, <1>4 DEF ScanToken

\* A step that leaves what is printed.
Kept == event'.f_port = event.f_port /\ event'.payload = event.payload

\* In the value of another member nothing is taken for a wanted one.
LEMMA InsideStep ==
  ASSUME Inside, tokens # <<>>, ScanToken
  PROVE  Inside' /\ Kept /\ unread' = unread
<1> DEFINE token == Head(tokens)
<1>1. token \in InnerTokens /\ Tail(tokens) \in Seq(InnerTokens)
  BY DEF Inside
<1>2. token.type = "scalar" => token.text = "other"
  BY <1>1 DEF InnerTokens, Key, Value, Bracket, Scalar, Token
<1>3. key' \notin Wanted
  BY <1>2, TokenStep DEF Inside, Wanted
<1>4. Kept
  <2>1. CASE event_key_value(key, token.text)
    BY <2>1 DEF event_key_value, Kept, Inside, Wanted
  <2>2. CASE event' = event
    BY <2>2 DEF Kept
  <2> QED BY <2>1, <2>2, TokenStep
<1> QED BY <1>1, <1>3, <1>4, TokenStep DEF Inside

\* A member is scanned token by token, and a wanted value is taken with its
\* own name.
LEMMA AtStep ==
  ASSUME NEW m \in Members, At(m), ScanToken
  PROVE  /\ tokens # <<>> /\ unread' = unread
         /\ \/ At(m)' /\ Kept
            \/ m.name \notin Wanted /\ Inside' /\ Kept
            \/ m.name \in Wanted /\ tokens' = <<>> /\ event_key_value(m.name, Written(m))
<1>0. PICK S : ValueTokens(m) \in Seq(S)
  BY SomeTokens
<1>1. CASE tokens = <<Scalar(m.name), Value>> \o ValueTokens(m) /\ last_token_type = "key"
  <2>1. /\ tokens # <<>> /\ Head(tokens) = Scalar(m.name)
        /\ Tail(tokens) = <<Value>> \o ValueTokens(m)
    BY <1>0, <1>1, HeadAndTail
  <2>2. Head(tokens).type = "scalar" /\ Head(tokens).text = m.name
    BY <2>1 DEF Scalar, Token
  <2>3. last_token_type' = "none" /\ key' = m.name /\ event' = event
    BY <1>1, <2>1, <2>2, TokenStep
  <2> QED BY <2>1, <2>3, TokenStep DEF At, Kept
<1>2. CASE tokens = <<Value>> \o ValueTokens(m) /\ last_token_type = "none" /\ key = m.name
  <2>1. /\ tokens # <<>> /\ Head(tokens) = Value /\ Tail(tokens) = ValueTokens(m)
    BY <1>0, <1>2, HeadAndTail
  <2>2. Head(tokens).type = "value"
    BY <2>1 DEF Value, Token
  <2>3. last_token_type' = "value" /\ key' = key /\ event' = event
    BY <2>1, <2>2, TokenStep
  <2> QED BY <1>2, <2>1, <2>3, TokenStep DEF At, Kept
<1>3. CASE tokens = ValueTokens(m) /\ last_token_type = "value" /\ key = m.name
  <2>1. CASE m.name \in Wanted
    <3>1. tokens = <<Scalar(Written(m))>>
      BY <1>3, <2>1, WantedTokens
    <3>2. tokens # <<>> /\ Head(tokens) = Scalar(Written(m)) /\ Tail(tokens) = <<>>
      BY <3>1
    <3>3. Head(tokens).type = "scalar" /\ Head(tokens).text = Written(m)
      BY <3>2 DEF Scalar, Token
    <3>4. event_key_value(m.name, Written(m))
      BY <1>3, <3>2, <3>3, TokenStep
    <3> QED BY <2>1, <3>2, <3>4, TokenStep
  <2>2. CASE m.name \notin Wanted
    <3>1. Inside /\ tokens # <<>>
      BY <1>3, <2>2, OtherTokens DEF Inside
    <3> QED BY <2>2, <3>1, InsideStep
  <2> QED BY <2>1, <2>2
<1> QED BY <1>1, <1>2, <1>3 DEF At

\* The next member starts before its name.
LEMMA StartStep ==
  ASSUME tokens = <<>>, ScanToken, NEW S, unread \in Seq(S), S \subseteq Members
  PROVE  /\ unread # <<>> /\ Head(unread) \in S /\ unread' = Tail(unread)
         /\ \A m : m = Head(unread) => At(m)'
         /\ Kept
<1>1. unread # <<>> /\ Head(unread) \in S /\ unread' = Tail(unread)
  BY DEF ScanToken
<1>2. ASSUME NEW m, m = Head(unread)
      PROVE  At(m)' /\ Kept
  <2> DEFINE up == <<Key, Scalar(m.name), Value>> \o ValueTokens(m)
  <2>0. PICK T : ValueTokens(m) \in Seq(T)
    BY <1>1, <1>2, SomeTokens
  <2>1. Head(up) = Key /\ Tail(up) = <<Scalar(m.name), Value>> \o ValueTokens(m)
    BY <2>0, HeadAndTail
  <2>2. Head(up).type = "key"
    BY <2>1 DEF Key, Token
  <2>3. up = MemberTokens(Head(unread))
    BY <1>2 DEF MemberTokens
  <2> HIDE DEF up
  <2>4. last_token_type' = CASE Head(up).type = "scalar" -> "none"
                             [] Head(up).type = "bracket" -> last_token_type
                             [] OTHER -> Head(up).type
    BY <2>3 DEF ScanToken
  <2>5. last_token_type' = "key"
    BY <2>2, <2>4, Zenon
  <2>6. tokens' = Tail(up) /\ event' = event
    BY <2>2, <2>3 DEF ScanToken
  <2> QED BY <2>1, <2>5, <2>6 DEF At, Kept
<1> QED BY <1>1, <1>2

-----------------------------------------------------------------------------
(* The invariant                                                           *)

LEMMA OwnMembers ==
  ASSUME message \in Messages, message.topic = "up"
  PROVE  /\ message.doc \in Seq(Own) /\ Own \subseteq Members
         /\ \A m \in Own : /\ m.name = "fPort" => m.value.items[1] = SaidPort
                           /\ m.name = "data" => m.value.items[1] = SaidData
<1>1. message.doc \in Documents
  BY DEF Messages
<1>2. message.doc \in Seq(Members)
  BY <1>1, DocumentMembers
<1>3. message.doc \in Seq(Own) /\ Own \subseteq Members
  BY <1>2 DEF Own
<1>4. ASSUME NEW m \in Own
      PROVE  /\ m.name = "fPort" => m.value.items[1] = SaidPort
             /\ m.name = "data" => m.value.items[1] = SaidData
  <2>1. PICK i \in DOMAIN message.doc : m = message.doc[i]
    BY DEF Own
  <2> QED BY <1>1, <2>1, OneMemberSays DEF SaidPort, SaidData
<1> QED BY <1>3, <1>4

\* The data of an uplink is bytes, or nothing.
LEMMA SaidDataIsBytes ==
  ASSUME message \in Messages, message.topic = "up"
  PROVE  SaidData \in Seq(Byte)
<1>1. CASE \E i \in DOMAIN message.doc : message.doc[i].name = "data"
  <2>1. PICK i \in DOMAIN message.doc : message.doc[i].name = "data"
    BY <1>1
  <2>2. message.doc[i] \in Own
    BY <2>1 DEF Own
  <2>3. message.doc[i] \in Members /\ message.doc[i].value.items[1] = SaidData
    BY <2>1, <2>2, OwnMembers
  <2> QED BY <2>1, <2>3, MemberShapes
<1>2. CASE ~ \E i \in DOMAIN message.doc : message.doc[i].name = "data"
  BY <1>2 DEF SaidData, Said
<1> QED BY <1>1, <1>2

\* What is taken with its own name is what the document says under it.
LEMMA TakesItsOwn ==
  ASSUME message \in Messages, message.topic = "up", malloced \in Leftovers(Byte),
         NEW m \in Own, event_key_value(m.name, Written(m))
  PROVE  /\ m.name = "fPort" => event'.f_port = SaidPort /\ event'.payload = event.payload
         /\ m.name = "data" => event'.f_port = event.f_port
                              /\ Reads(event'.payload, SaidData)
<1>1. m \in Members /\ m.name = "fPort" => m.value.items[1] = SaidPort
  BY OwnMembers
<1>2. CASE m.name = "fPort"
  <2>1. Written(m) = SaidPort
    BY <1>2, OwnMembers DEF Written
  <2> QED BY <1>2, <2>1 DEF event_key_value
<1>3. CASE m.name = "data"
  <2>1. SaidData \in Seq(Byte) /\ Written(m) = Standard(SaidData)
    BY <1>3, OwnMembers, MemberShapes DEF Written
  <2>2. event'.payload = IF Written(m) = <<>> THEN <<>> ELSE base64_decode(malloced, Written(m))
    BY <1>3 DEF event_key_value
  <2>3. event'.f_port = event.f_port
    BY <1>3 DEF event_key_value
  <2>4. Reads(event'.payload, SaidData)
    BY <2>1, <2>2, DecodesWritten
  <2> QED BY <1>3, <2>3, <2>4
<1> QED BY <1>2, <1>3

LEMMA ScanKeepsParsing ==
  ASSUME Parsing, ScanToken
  PROVE  Parsing'
<1>1. /\ message \in Messages /\ message.topic = "up" /\ unread \in Seq(Own)
      /\ Scanning /\ Faithful /\ phase' = phase /\ message' = message
      /\ malloced \in Leftovers(Byte) /\ malloced' = malloced
      /\ lines = <<>> /\ lines' = lines
  BY DEF Parsing, ScanToken
<1>2. Own' = Own /\ SaidPort' = SaidPort /\ SaidData' = SaidData
  BY <1>1 DEF Own, SaidPort, SaidData
<1>3. Own \subseteq Members
  BY <1>1, OwnMembers
\* What the step does to the tokens, and to what is printed.
<1>4. /\ unread' \in Seq(Own) /\ Scanning'
      /\ event'.f_port \in {event.f_port, SaidPort}
      /\ event'.payload = event.payload \/ Reads(event'.payload, SaidData)
  <2>1. CASE tokens = <<>>
    <3>1. PICK h \in Own : h = Head(unread)
      BY <1>1, <1>3, <2>1, StartStep
    <3>2. unread' = Tail(unread) /\ unread # <<>> /\ At(h)' /\ Kept
      BY <1>1, <1>3, <2>1, <3>1, StartStep
    <3>3. unread' \in Seq(Own)
      BY <1>1, <3>2
    <3> QED BY <1>2, <3>2, <3>3 DEF Kept, Scanning
  <2>2. CASE tokens # <<>> /\ Inside
    BY <1>1, <2>2, InsideStep DEF Kept, Scanning
  <2>3. CASE \E m \in Own : At(m)
    <3>1. PICK m \in Own : At(m)
      BY <2>3
    <3>2. unread' = unread
      BY <1>3, <3>1, AtStep
    <3>3. CASE At(m)' /\ Kept
      BY <1>1, <1>2, <3>2, <3>3 DEF Kept, Scanning
    <3>4. CASE Inside' /\ Kept
      BY <1>1, <3>2, <3>4 DEF Kept, Scanning
    <3>5. CASE m.name \in Wanted /\ tokens' = <<>> /\ event_key_value(m.name, Written(m))
      BY <1>1, <3>2, <3>5, TakesItsOwn DEF Scanning, Wanted
    <3> QED BY <1>3, <3>1, <3>3, <3>4, <3>5, AtStep
  <2> QED BY <1>1, <2>1, <2>2, <2>3 DEF Scanning
\* A member that waits goes on waiting, or is taken.
<1>5. ASSUME NEW name \in Wanted, Waits(name)
      PROVE  \/ Waits(name)'
             \/ \E m \in Own : m.name = name /\ event_key_value(name, Written(m))
  <2>1. PICK m \in Own : m.name = name /\ (At(m) \/ \E i \in DOMAIN unread : unread[i] = m)
    BY <1>5 DEF Waits
  <2>2. CASE At(m)
    <3>1. CASE At(m)'
      BY <1>2, <2>1, <3>1 DEF Waits
    <3> QED BY <1>3, <2>1, <2>2, <3>1, AtStep
  <2>3. CASE tokens = <<>> /\ \E i \in DOMAIN unread : unread[i] = m
    <3>1. unread # <<>> /\ unread' = Tail(unread)
      BY <1>1, <1>3, <2>3, StartStep
    <3>2. PICK i \in DOMAIN unread : unread[i] = m
      BY <2>3
    <3>3. CASE i = 1
      <4>1. At(m)'
        BY <1>1, <1>3, <2>3, <3>2, <3>3, StartStep
      <4> QED BY <1>2, <2>1, <4>1 DEF Waits
    <3>4. CASE i # 1
      <4>1. i - 1 \in DOMAIN unread' /\ unread'[i - 1] = m
        BY <1>1, <3>1, <3>2, <3>4
      <4> QED BY <1>2, <2>1, <4>1 DEF Waits
    <3> QED BY <3>3, <3>4
  <2>4. CASE tokens # <<>> /\ \E i \in DOMAIN unread : unread[i] = m
    <3>1. unread' = unread
      BY <2>4, TokenStep
    <3> QED BY <1>2, <2>1, <2>4, <3>1 DEF Waits
  <2> QED BY <2>1, <2>2, <2>3, <2>4
<1>6. Faithful'
  <2>1. /\ event'.f_port \in {0, SaidPort}
        /\ event'.payload = <<>> \/ Reads(event'.payload, SaidData)
    BY <1>1, <1>4 DEF Faithful
  <2>2. event'.f_port = SaidPort \/ Waits("fPort")'
    <3>1. CASE event.f_port = SaidPort
      BY <1>4, <3>1
    <3>2. CASE Waits("fPort")
      BY <1>1, <1>5, <3>2, TakesItsOwn DEF Wanted
    <3> QED BY <1>1, <3>1, <3>2 DEF Faithful
  <2>3. Reads(event'.payload, SaidData) \/ Waits("data")'
    <3>1. CASE Reads(event.payload, SaidData)
      BY <1>4, <3>1
    <3>2. CASE Waits("data")
      BY <1>1, <1>5, <3>2, TakesItsOwn DEF Wanted
    <3> QED BY <1>1, <3>1, <3>2 DEF Faithful
  <2> QED BY <1>2, <2>1, <2>2, <2>3 DEF Faithful
<1> QED BY <1>1, <1>2, <1>4, <1>6 DEF Parsing

\* A parse starts with an empty event, and all members wait.
LEMMA ReceiveStarts ==
  ASSUME Parsing, NEW m \in Messages, Receive(m)
  PROVE  Parsing' /\ lines' = <<>>
<1>1. CASE m.topic = "up" /\ m.doc # <<>>
  <2>1. /\ phase' = "parsing" /\ message' = m /\ event' = NoEvent
        /\ unread' = m.doc /\ tokens' = <<>>
    BY <1>1 DEF Receive, message_parse
  <2>2. message' \in Messages /\ message'.topic = "up"
    BY <1>1, <2>1
  <2>3. m.doc \in Documents
    BY <1>1 DEF Messages
  <2>4. Own' = {m.doc[i] : i \in DOMAIN m.doc}
    BY <2>1 DEF Own
  <2>5. unread' \in Seq(Own')
    BY <2>1, <2>3, <2>4, DocumentMembers
  <2>6. event'.f_port = 0 /\ event'.payload = <<>>
    BY <2>1 DEF NoEvent
  <2>7. ASSUME NEW name, NEW otherwise, Said(m.doc, name, otherwise) # otherwise
        PROVE  Waits(name)'
    <3>1. PICK i \in DOMAIN m.doc : m.doc[i].name = name
      BY <2>7 DEF Said
    <3> QED BY <2>1, <2>4, <3>1 DEF Waits
  <2>8. SaidPort' = Said(m.doc, "fPort", 0) /\ SaidData' = Said(m.doc, "data", <<>>)
    BY <2>1 DEF SaidPort, SaidData
  <2>9. Faithful'
    BY <2>6, <2>7, <2>8, NothingReads DEF Faithful
  <2> QED BY <1>1, <2>1, <2>2, <2>5, <2>9 DEF Parsing, Scanning, Receive
<1>2. CASE ~(m.topic = "up" /\ m.doc # <<>>)
  BY <1>2 DEF Receive, Parsing
<1> QED BY <1>1, <1>2

LEMMA StepKeepsParsing ==
  ASSUME Parsing, [Next]_vars
  PROVE  Parsing'
<1>1. ASSUME NEW m \in Messages, Receive(m)
      PROVE  Parsing'
  BY <1>1, ReceiveStarts
<1>2. CASE ReceiveTimesOut
  BY <1>2 DEF ReceiveTimesOut, Parsing
<1>3. CASE ReceiveFails
  BY <1>3 DEF ReceiveFails, Parsing
<1>4. CASE LoopEnds
  BY <1>4 DEF LoopEnds, Parsing
<1>5. CASE ScanToken
  BY <1>5, ScanKeepsParsing
<1>6. CASE ParseEnds
  BY <1>6 DEF ParseEnds, Parsing
<1>7. CASE UNCHANGED vars
  BY <1>7 DEF vars, parser, Parsing, Scanning, Faithful, Inside, At, Waits, Own,
              SaidPort, SaidData
<1> QED BY <1>1, <1>2, <1>3, <1>4, <1>5, <1>6, <1>7 DEF Next

THEOREM ParsingIsFaithful == Spec => []Parsing
<1>1. Init => Parsing
  BY HostConstants DEF Init, Parsing, Leftovers
<1>2. Parsing /\ [Next]_vars => Parsing'
  BY StepKeepsParsing
<1> QED BY <1>1, <1>2, PTL DEF Spec

(* A printed line is the present uplink's own: its port, and the bytes in  *)
(* the event, which are none or as many as were sent, right wherever their *)
(* standard base64 has no '+' and no '/', whatever members surround them,  *)
(* wherever the scanner gives up, whatever was parsed before and whatever  *)
(* malloc left in the decoder's table.                                     *)
THEOREM LinesAreThisUplinks == Spec => []PrintsThisUplink
<1>1. Init => PrintsThisUplink
  <2>1. Init => lines = <<>>
    BY DEF Init
  <2> QED BY <2>1 DEF PrintsThisUplink
<1>2. Parsing /\ PrintsThisUplink /\ [Next]_vars => PrintsThisUplink'
  <2> SUFFICES ASSUME Parsing, PrintsThisUplink, [Next]_vars
               PROVE  PrintsThisUplink'
    OBVIOUS
  <2>1. ASSUME NEW m \in Messages, Receive(m)
        PROVE  PrintsThisUplink'
    BY <2>1, ReceiveStarts DEF PrintsThisUplink
  <2>2. CASE ParseEnds
    <3>1. /\ message.topic = "up" /\ message' = message /\ event' = event
          /\ event.f_port \in {0, SaidPort}
          /\ event.payload = <<>> \/ Reads(event.payload, SaidData)
      BY <2>2 DEF ParseEnds, Parsing, Faithful
    <3>2. SaidPort' = SaidPort /\ SaidData' = SaidData
      BY <3>1 DEF SaidPort, SaidData
    <3>3. CASE event.f_port = 0
      BY <2>2, <3>3 DEF ParseEnds, PrintsThisUplink
    <3>4. CASE event.f_port # 0
      <4>1. SaidPort # 0 /\ lines' = <<Line(SaidPort, event.payload)>>
        BY <2>2, <3>1, <3>4 DEF ParseEnds
      <4>2. \A i \in DOMAIN lines' : lines'[i] = Line(SaidPort, event.payload)
        BY <4>1
      <4> QED BY <3>1, <3>2, <4>1, <4>2 DEF PrintsThisUplink
    <3> QED BY <3>3, <3>4
  <2>3. CASE ReceiveTimesOut \/ ReceiveFails \/ LoopEnds \/ UNCHANGED vars
    <3>1. UNCHANGED <<lines, message, event>>
      BY <2>3 DEF ReceiveTimesOut, ReceiveFails, LoopEnds, vars, parser
    <3> QED BY <3>1 DEF PrintsThisUplink, SaidPort, SaidData
  <2>4. CASE ScanToken
    <3>1. lines' = <<>>
      BY <2>4 DEF Parsing, ScanToken
    <3> QED BY <3>1 DEF PrintsThisUplink
  <2> QED BY <2>1, <2>2, <2>3, <2>4 DEF Next
<1> QED BY <1>1, <1>2, ParsingIsFaithful, PTL DEF Spec

(* An uplink with a port that was scanned to its end is printed with all   *)
(* it says: no order of members and no shape of the others hides a port or *)
(* data.  Data without '+' and '/' are printed as they were sent.          *)
THEOREM UplinksArePrinted == Spec => PrintsEveryUplink
<1>1. ASSUME Parsing, [Next]_vars, phase = "parsing", phase' = "waiting",
             unread = <<>>, tokens = <<>>, SaidPort # 0
      PROVE  /\ lines' = <<Line(SaidPort, event.payload)>>
             /\ Reads(event.payload, SaidData)
             /\ Clear(SaidData) => lines' = <<Line(SaidPort, SaidData)>>
  <2>1. ParseEnds
    BY <1>1 DEF Next, Receive, ReceiveTimesOut, ReceiveFails, LoopEnds, ScanToken, vars
  <2>2. Own \subseteq Members /\ Faithful
    BY <1>1, OwnMembers DEF Parsing
  <2>3. ASSUME NEW m \in Own
        PROVE  ~At(m)
    <3>1. PICK S : ValueTokens(m) \in Seq(S)
      BY <2>2, SomeTokens
    <3>2. ValueTokens(m) # <<>>
      BY <2>2, WantedTokens, OtherTokens
    <3>3. <<Scalar(m.name), Value>> \o ValueTokens(m) # <<>>
      BY <3>1, HeadAndTail
    <3>4. <<Value>> \o ValueTokens(m) # <<>>
      BY <3>1, HeadAndTail
    <3> QED BY <1>1, <3>2, <3>3, <3>4 DEF At
  <2>4. ~Waits("fPort") /\ ~Waits("data")
    BY <1>1, <2>3 DEF Waits
  <2>5. event.f_port = SaidPort /\ Reads(event.payload, SaidData)
    BY <2>2, <2>4 DEF Faithful
  <2>6. lines' = <<Line(SaidPort, event.payload)>>
    BY <1>1, <2>1, <2>5 DEF ParseEnds
  <2>7. Clear(SaidData) => event.payload = SaidData
    BY <1>1, <2>5, ClearIsRead, SaidDataIsBytes DEF Parsing
  <2> QED BY <2>5, <2>6, <2>7
<1>2. Parsing /\ [Next]_vars =>
        [phase = "parsing" /\ phase' = "waiting" /\ unread = <<>> /\ tokens = <<>>
         /\ SaidPort # 0
         => /\ lines' = <<Line(SaidPort, event.payload)>>
            /\ Reads(event.payload, SaidData)
            /\ Clear(SaidData) => lines' = <<Line(SaidPort, SaidData)>>]_vars
  BY <1>1
<1> QED BY <1>2, ParsingIsFaithful, PTL DEF Spec, PrintsEveryUplink

=============================================================================
