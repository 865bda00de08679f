----------------------------- MODULE Led_proofs -----------------------------
(***************************************************************************)
(* Theorems about Led, for every set of LEDs, callers and messages, every  *)
(* queue length and all periods.  What is said of the time at which a LED  *)
(* changes assumes NoWrap; what is said of the queue does not.             *)
(***************************************************************************)
EXTENDS Led, SequenceTheorems, FiniteSetTheorems, WellFoundedInduction, TLAPS

\* A LED that blinks is on or off, so that value ^ 1 is again a value.
BlinksOnOff == \A l \in Leds : leds[l].state # "IDLE" => leds[l].value \in {0, 1}

-----------------------------------------------------------------------------
(* Sequences *)

\* t is the line s with call at place k.
Joined(s, t, call, k) ==
  /\ k \in 1..(Len(s) + 1)
  /\ t \in Seq(Calls) /\ Len(t) = Len(s) + 1
  /\ \A i \in 1..(Len(s) + 1) :
       t[i] = IF i < k THEN s[i] ELSE IF i = k THEN call ELSE s[i - 1]

\* InsertAt, which puts a blocked caller among the others, puts it at place k.
LEMMA InsertedJoins ==
  ASSUME NEW s \in Seq(Calls), NEW call \in Calls, NEW k \in 1..(Len(s) + 1)
  PROVE  Joined(s, InsertAt(s, k, call), call, k)
<1> DEFINE front == SubSeq(s, 1, k - 1)
           back  == SubSeq(s, k, Len(s))
<1>1. Len(s) \in Nat /\ k \in Nat /\ k >= 1
  OBVIOUS
<1>2. /\ front \in Seq(Calls) /\ Len(front) = k - 1
      /\ \A i \in 1..(k - 1) : front[i] = s[i]
  BY <1>1
<1>3. /\ back \in Seq(Calls) /\ Len(back) = Len(s) - k + 1
      /\ \A i \in 1..(Len(s) - k + 1) : back[i] = s[k + i - 1]
  BY <1>1
<1>4. InsertAt(s, k, call) = (front \o <<call>>) \o back
  BY DEF InsertAt
<1> HIDE DEF front, back
<1>5. /\ front \o <<call>> \in Seq(Calls) /\ Len(front \o <<call>>) = k
      /\ \A i \in 1..(k - 1) : (front \o <<call>>)[i] = s[i]
      /\ (front \o <<call>>)[k] = call
  BY <1>1, <1>2
<1> DEFINE fe == front \o <<call>>
<1> HIDE DEF fe
<1>6. /\ fe \in Seq(Calls) /\ Len(fe) = k
      /\ \A i \in 1..(k - 1) : fe[i] = s[i]
      /\ fe[k] = call
  BY <1>5 DEF fe
<1>7. /\ fe \o back \in Seq(Calls) /\ Len(fe \o back) = Len(s) + 1
      /\ \A i \in 1..(Len(s) + 1) :
           (fe \o back)[i] = IF i <= k THEN fe[i] ELSE back[i - k]
  BY <1>1, <1>3, <1>6
<1>8. InsertAt(s, k, call) = fe \o back
  BY <1>4 DEF fe
<1>9. ASSUME NEW i \in 1..(Len(s) + 1)
      PROVE  (fe \o back)[i] = IF i < k THEN s[i] ELSE IF i = k THEN call ELSE s[i - 1]
  <2>1. CASE i <= k
    BY <1>1, <1>6, <1>7, <2>1
  <2>2. CASE i > k
    <3>1. (fe \o back)[i] = back[i - k] /\ i - k \in 1..(Len(s) - k + 1)
      BY <1>1, <1>7, <2>2
    <3>2. back[i - k] = s[k + (i - k) - 1] /\ k + (i - k) - 1 = i - 1
      BY <1>1, <1>3, <3>1
    <3> QED BY <1>1, <2>2, <3>1, <3>2
  <2>3. i <= k \/ i > k
    BY <1>1
  <2> QED BY <2>1, <2>2, <2>3, Zenon
<1>10. Joined(s, fe \o back, call, k)
  BY <1>7, <1>9, Zenon DEF Joined
<1> QED BY <1>8, <1>10, Zenon

-----------------------------------------------------------------------------
(* Types *)

\* At the start the types hold and no LED blinks.
LEMMA InitTypeOK == Init => TypeOK /\ BlinksOnOff
BY LedConstants DEF Init, TypeOK, BlinksOnOff, Led, States

\* k_msgq_get keeps the types of the queue, whatever the LEDs do meanwhile.
LEMMA GetTypes ==
  ASSUME TypeOK, k_msgq_get
  PROVE  /\ led_msgq' \in Seq(Calls) /\ Len(led_msgq') <= QueueLen
         /\ pending' \in Seq(Calls)
         /\ pc' \in {"waiting", "message"}
         /\ received' \in Seq(Calls)
         /\ Len(received') = (IF pc' = "message" THEN 1 ELSE 0)
         /\ since' = uptime
<1>1. /\ led_msgq \in Seq(Calls) /\ Len(led_msgq) <= QueueLen
      /\ QueueLen \in Nat /\ QueueLen >= 1
      /\ pending \in Seq(Calls)
  BY LedConstants DEF TypeOK
<1>2. since' = uptime
  BY DEF k_msgq_get
<1>3. CASE led_msgq = << >>
  BY <1>1, <1>2, <1>3 DEF k_msgq_get
<1>4. CASE led_msgq # << >>
  <2>1. /\ Head(led_msgq) \in Calls
        /\ Tail(led_msgq) \in Seq(Calls) /\ Len(Tail(led_msgq)) = Len(led_msgq) - 1
    BY <1>1, <1>4
  <2>2. pc' = "message" /\ received' = <<Head(led_msgq)>>
    BY <1>4 DEF k_msgq_get
  <2>3. CASE pending = << >>
    <3>1. led_msgq' = Tail(led_msgq) /\ pending' = pending
      BY <1>4, <2>3 DEF k_msgq_get
    <3> QED BY <1>1, <1>2, <2>1, <2>2, <3>1
  <2>4. CASE pending # << >>
    <3>1. led_msgq' = Append(Tail(led_msgq), Head(pending)) /\ pending' = Tail(pending)
      BY <1>4, <2>4 DEF k_msgq_get
    <3>2. Head(pending) \in Calls /\ Tail(pending) \in Seq(Calls)
      BY <1>1, <2>4
    <3> QED BY <1>1, <1>2, <2>1, <2>2, <3>1, <3>2
  <2> QED BY <2>3, <2>4
<1> QED BY <1>3, <1>4

\* led_set, handle_msg and handle_timeout return LEDs.
LEMMA LedSetType ==
  ASSUME TypeOK, NEW led \in Led, NEW value \in Nat, NEW duration \in Nat
  PROVE  /\ led_set(led, value, duration) \in Led
         /\ led_set(led, value, duration).state = led.state
         /\ led_set(led, value, duration).blink_rate = led.blink_rate
         /\ led_set(led, value, duration).value = value
         /\ led_set(led, value, duration).timeout = (uptime + duration) % Modulus
         /\ led_set(led, value, duration).due = uptime + duration
<1> DEFINE due     == uptime + duration
           timeout == due % Modulus
           lit     == value # 0
<1>1. due \in Nat /\ timeout \in Nat
  BY LedConstants DEF TypeOK
<1>2. lit \in BOOLEAN
  OBVIOUS
<1>3. led_set(led, value, duration) =
        [led EXCEPT !.value = value, !.lit = lit, !.timeout = timeout, !.due = due]
  BY DEF led_set
<1> HIDE DEF due, timeout, lit
<1>4. led_set(led, value, duration) \in Led
  BY <1>1, <1>2, <1>3 DEF Led
<1>5. /\ led_set(led, value, duration).state = led.state
      /\ led_set(led, value, duration).blink_rate = led.blink_rate
      /\ led_set(led, value, duration).value = value
      /\ led_set(led, value, duration).timeout = timeout
      /\ led_set(led, value, duration).due = due
  BY <1>3 DEF Led
<1> QED BY <1>4, <1>5 DEF due, timeout

\* LED to is LED from after led_set(from, value, duration).
SetFrom(from, value, duration, to) ==
  /\ to \in Led
  /\ to.state = from.state /\ to.blink_rate = from.blink_rate /\ to.value = value
  /\ to.timeout = (uptime + duration) % Modulus /\ to.due = uptime + duration

LEMMA LedSets ==
  ASSUME TypeOK, NEW led \in Led, NEW value \in Nat, NEW duration \in Nat
  PROVE  SetFrom(led, value, duration, led_set(led, value, duration))
BY LedSetType, Zenon DEF SetFrom

\* A command leaves a LED of its type (handle_msg).
LEMMA HandleMsgType ==
  ASSUME TypeOK, NEW call \in Calls, NEW led \in Led
  PROVE  /\ handle_msg(call.msg, led) \in Led
         /\ handle_msg(call.msg, led).state # "IDLE" =>
              handle_msg(call.msg, led).value \in {0, 1}
<1> DEFINE msg == call.msg
           blink == [led EXCEPT !.state = "BLINK", !.blink_rate = msg.arg]
           once  == [led EXCEPT !.state = "BLINK_ONCE"]
           idle  == [led EXCEPT !.state = "IDLE"]
<1>1. msg.cmd \in Commands /\ msg.arg \in Nat /\ 0 \in Nat /\ 1 \in Nat
  BY LedConstants
<1>2. blink \in Led /\ once \in Led /\ idle \in Led /\ idle.state = "IDLE"
  BY <1>1 DEF Led, States
<1>3. /\ msg.cmd = "BLINK" => handle_msg(msg, led) = led_set(blink, 1, msg.arg)
      /\ msg.cmd = "BLINK_ONCE" => handle_msg(msg, led) = led_set(once, 1, msg.arg)
      /\ msg.cmd = "SET" => handle_msg(msg, led) = led_set(idle, msg.arg, 0)
  BY DEF handle_msg
<1> HIDE DEF msg, blink, once, idle
<1>4. handle_msg(msg, led) \in Led /\
        (handle_msg(msg, led).state # "IDLE" => handle_msg(msg, led).value \in {0, 1})
  <2> DEFINE after == handle_msg(msg, led)
  <2>1. CASE msg.cmd = "BLINK"
    <3>1. SetFrom(blink, 1, msg.arg, after)
      BY <1>1, <1>2, <1>3, <2>1, LedSets, Zenon
    <3> HIDE DEF after
    <3>2. after \in Led /\ (after.state # "IDLE" => after.value \in {0, 1})
      BY <3>1 DEF SetFrom
    <3> QED BY <3>2 DEF after
  <2>2. CASE msg.cmd = "BLINK_ONCE"
    <3>1. SetFrom(once, 1, msg.arg, after)
      BY <1>1, <1>2, <1>3, <2>2, LedSets, Zenon
    <3> HIDE DEF after
    <3>2. after \in Led /\ (after.state # "IDLE" => after.value \in {0, 1})
      BY <3>1 DEF SetFrom
    <3> QED BY <3>2 DEF after
  <2>3. CASE msg.cmd = "SET"
    <3>1. SetFrom(idle, msg.arg, 0, after)
      BY <1>1, <1>2, <1>3, <2>3, LedSets, Zenon
    <3> HIDE DEF after
    <3>2. after \in Led /\ (after.state # "IDLE" => after.value \in {0, 1})
      BY <1>2, <3>1 DEF SetFrom
    <3> QED BY <3>2 DEF after
  <2> HIDE DEF after
  <2> QED BY <1>1, <2>1, <2>2, <2>3 DEF Commands
<1> QED BY <1>4 DEF msg

\* So does a timeout (handle_timeout).
LEMMA HandleTimeoutType ==
  ASSUME TypeOK, NEW led \in Led, led.state # "IDLE" => led.value \in {0, 1}
  PROVE  /\ handle_timeout(led) \in Led
         /\ handle_timeout(led).state # "IDLE" => handle_timeout(led).value \in {0, 1}
<1> DEFINE idle == [led EXCEPT !.state = "IDLE"]
<1>1. idle \in Led /\ idle.state = "IDLE"
  BY DEF Led, States
<1>2. CASE ~TimedOut(led)
  BY <1>2 DEF handle_timeout
<1>3. CASE TimedOut(led) /\ led.state = "BLINK"
  <2>1. 1 - led.value \in {0, 1} /\ led.blink_rate \in Nat
    BY <1>3 DEF TimedOut, Led
  <2>2. handle_timeout(led) = led_set(led, 1 - led.value, led.blink_rate)
    BY <1>3 DEF handle_timeout
  <2> DEFINE value == 1 - led.value
             after == led_set(led, value, led.blink_rate)
  <2> HIDE DEF value
  <2>3. value \in Nat /\ value \in {0, 1}
    BY <2>1 DEF value
  <2>4. SetFrom(led, value, led.blink_rate, after)
    BY <2>1, <2>3, LedSets, Zenon
  <2>5. after \in Led /\ after.value = value
    <3> HIDE DEF after
    <3> QED BY <2>4 DEF SetFrom
  <2>6. handle_timeout(led) = after
    BY <2>2 DEF value
  <2> HIDE DEF after
  <2> QED BY <2>3, <2>5, <2>6
<1>4. CASE TimedOut(led) /\ led.state # "BLINK"
  <2>1. handle_timeout(led) = led_set(idle, 0, 0)
    BY <1>4 DEF handle_timeout
  <2> HIDE DEF idle
  <2> DEFINE after == led_set(idle, 0, 0)
  <2>2. 0 \in Nat
    OBVIOUS
  <2>3. SetFrom(idle, 0, 0, after)
    BY <1>1, <2>2, LedSets, Zenon
  <2>4. after \in Led /\ after.state = "IDLE"
    <3> HIDE DEF after
    <3> QED BY <1>1, <2>3 DEF SetFrom
  <2> QED BY <2>1, <2>4
<1> QED BY <1>2, <1>3, <1>4

\* Every step keeps the types.
LEMMA StepTypeOK == TypeOK /\ BlinksOnOff /\ [Next]_vars => TypeOK' /\ BlinksOnOff'
<1> SUFFICES ASSUME TypeOK, BlinksOnOff, [Next]_vars
             PROVE  TypeOK' /\ BlinksOnOff'
  OBVIOUS
<1>1. ASSUME NEW call \in Calls, led_command(call)
      PROVE  TypeOK' /\ BlinksOnOff'
  <2>1. UNCHANGED <<uptime, leds, lastMsg>>
    BY <1>1 DEF led_command
  <2>2. CASE PutWakes(call)
    BY <2>1, <2>2 DEF PutWakes, TypeOK, BlinksOnOff
  <2>3. CASE PutStores(call)
    BY <2>1, <2>3, LedConstants DEF PutStores, TypeOK, BlinksOnOff
  <2>4. CASE PutBlocks(call)
    <3>1. pending' \in Seq(Calls)
      <4>1. PICK k \in 1..(Len(pending) + 1) : pending' = InsertAt(pending, k, call)
        BY <2>4 DEF PutBlocks
      <4>2. pending \in Seq(Calls)
        BY DEF TypeOK
      <4>3. Joined(pending, pending', call, k)
        BY <4>1, <4>2, InsertedJoins, Zenon
      <4> QED BY <4>3 DEF Joined
    <3> QED BY <2>1, <2>4, <3>1 DEF PutBlocks, TypeOK, BlinksOnOff
  <2> QED BY <1>1, <2>2, <2>3, <2>4 DEF led_command
<1>2. CASE LedStart
  <2>1. leds' \in [Leds -> Led] /\ BlinksOnOff'
    BY <1>2 DEF LedStart, TypeOK, BlinksOnOff, Led
  <2>2. k_msgq_get /\ UNCHANGED <<uptime, lastMsg>>
    BY <1>2 DEF LedStart
  <2> QED BY <2>1, <2>2, GetTypes DEF TypeOK
<1>3. CASE LedMessage
  <2> DEFINE call == Head(received)
             id == call.msg.id
  <2>1. call \in Calls /\ id \in Leds
    <3>1. received \in Seq(Calls) /\ Len(received) = 1
      BY <1>3 DEF LedMessage, TypeOK
    <3>2. call \in Calls
      BY <3>1
    <3> QED BY <3>2, LedConstants
  <2>2. leds' = [leds EXCEPT ![id] = handle_msg(call.msg, leds[id])]
    BY <1>3 DEF LedMessage
  <2>3. leds[id] \in Led
    BY <2>1 DEF TypeOK
  <2> DEFINE after == handle_msg(call.msg, leds[id])
  <2>4. after \in Led /\ (after.state # "IDLE" => after.value \in {0, 1})
    BY <2>1, <2>3, HandleMsgType
  <2> HIDE DEF after, id
  <2>5. leds' \in [Leds -> Led] /\ BlinksOnOff'
    BY <2>1, <2>2, <2>4 DEF TypeOK, BlinksOnOff, after
  <2>6. k_msgq_get /\ uptime' = uptime /\ lastMsg' = uptime
    BY <1>3 DEF LedMessage
  <2> QED BY <2>5, <2>6, GetTypes DEF TypeOK
<1>4. CASE GetTimesOut
  BY <1>4 DEF GetTimesOut, TypeOK, BlinksOnOff
<1>5. CASE LedTimeout
  <2>1. leds' = [l \in Leds |-> handle_timeout(leds[l])]
    BY <1>5 DEF LedTimeout
  <2>2. ASSUME NEW l \in Leds
        PROVE  leds'[l] \in Led /\ (leds'[l].state # "IDLE" => leds'[l].value \in {0, 1})
    BY <2>1, HandleTimeoutType DEF TypeOK, BlinksOnOff
  <2>3. leds' \in [Leds -> Led] /\ BlinksOnOff'
    BY <2>1, <2>2 DEF BlinksOnOff
  <2>4. k_msgq_get /\ UNCHANGED <<uptime, lastMsg>>
    BY <1>5 DEF LedTimeout
  <2> QED BY <2>3, <2>4, GetTypes DEF TypeOK
<1>6. CASE Tick
  BY <1>6, LedConstants DEF Tick, TypeOK, BlinksOnOff
<1>7. CASE UNCHANGED vars
  BY <1>7 DEF vars, TypeOK, BlinksOnOff
<1> QED BY <1>1, <1>2, <1>3, <1>4, <1>5, <1>6, <1>7 DEF Next, LedThread

\* The types hold throughout, with what handle_timeout's value ^ 1 needs: a LED
\* that blinks is on or off.
THEOREM TypeInvariant == Spec => [](TypeOK /\ BlinksOnOff)
BY InitTypeOK, StepTypeOK, PTL DEF Spec

\* The state of the LED service keeps its types, and the queue its length.
THEOREM TypeCorrect == Spec => []TypeOK
BY TypeInvariant, PTL

-----------------------------------------------------------------------------
(* The queue *)

\* The order of the blocked callers: none twice, the most urgent in front.
InOrder(s) ==
  \A i, j \in DOMAIN s : i < j =>
    s[i].client # s[j].client /\ Rank[s[i].client] <= Rank[s[j].client]

\* A released caller leaves the others in the order of their urgency.
LEMMA TailInOrder ==
  ASSUME NEW s \in Seq(Calls), s # << >>, InOrder(s)
  PROVE  InOrder(Tail(s))
<1>1. /\ Len(s) \in Nat /\ DOMAIN s = 1..Len(s)
      /\ DOMAIN Tail(s) = 1..(Len(s) - 1)
      /\ \A i \in 1..(Len(s) - 1) : Tail(s)[i] = s[i + 1]
  OBVIOUS
<1> SUFFICES ASSUME NEW i \in DOMAIN Tail(s), NEW j \in DOMAIN Tail(s), i < j
             PROVE  /\ Tail(s)[i].client # Tail(s)[j].client
                    /\ Rank[Tail(s)[i].client] <= Rank[Tail(s)[j].client]
  BY DEF InOrder
<1>2. i + 1 \in DOMAIN s /\ j + 1 \in DOMAIN s /\ i + 1 < j + 1
  BY <1>1
<1>3. Tail(s)[i] = s[i + 1] /\ Tail(s)[j] = s[j + 1]
  BY <1>1
<1> QED BY <1>2, <1>3 DEF InOrder

\* A caller that blocks keeps the waiters in the order of their urgency.
LEMMA InsertInOrder ==
  ASSUME NEW s \in Seq(Calls), InOrder(s), NEW call \in Calls,
         \A i \in DOMAIN s : s[i].client # call.client,
         NEW k \in 1..(Len(s) + 1),
         \A i \in DOMAIN s : i < k <=> Rank[s[i].client] <= Rank[call.client]
  PROVE  InOrder(InsertAt(s, k, call))
<1> DEFINE t == InsertAt(s, k, call)
<1>0. Joined(s, t, call, k)
  BY InsertedJoins, Zenon
<1> HIDE DEF t
<1>1. /\ Len(s) \in Nat /\ DOMAIN s = 1..Len(s) /\ DOMAIN t = 1..(Len(s) + 1)
      /\ \A i \in 1..(Len(s) + 1) :
           t[i] = IF i < k THEN s[i] ELSE IF i = k THEN call ELSE s[i - 1]
  BY <1>0 DEF Joined
<1>2. \A c \in Calls : Rank[c.client] \in Int
  BY LedConstants
<1> HIDE DEF t
<1> SUFFICES ASSUME NEW i \in DOMAIN t, NEW j \in DOMAIN t, i < j
             PROVE  /\ t[i].client # t[j].client
                    /\ Rank[t[i].client] <= Rank[t[j].client]
  BY DEF InOrder, t
<1>3. CASE j < k
  <2>1. t[i] = s[i] /\ t[j] = s[j] /\ i \in DOMAIN s /\ j \in DOMAIN s
    BY <1>1, <1>3
  <2> QED BY <2>1 DEF InOrder
<1>4. CASE j = k
  <2>1. t[i] = s[i] /\ t[j] = call /\ i \in DOMAIN s /\ i < k
    BY <1>1, <1>4
  <2> QED BY <2>1
<1>5. CASE i = k
  <2>1. t[i] = call /\ t[j] = s[j - 1] /\ j - 1 \in DOMAIN s /\ ~(j - 1 < k)
    BY <1>1, <1>5
  <2>2. s[j - 1] \in Calls
    BY <2>1
  <2>3. ~(Rank[s[j - 1].client] <= Rank[call.client])
    BY <2>1
  <2> QED BY <1>2, <2>1, <2>2, <2>3
<1>6. CASE i < k /\ k < j
  <2>1. t[i] = s[i] /\ t[j] = s[j - 1] /\ i \in DOMAIN s /\ j - 1 \in DOMAIN s /\ i < j - 1
    BY <1>1, <1>6
  <2> QED BY <2>1 DEF InOrder
<1>7. CASE k < i
  <2>1. /\ t[i] = s[i - 1] /\ t[j] = s[j - 1]
        /\ i - 1 \in DOMAIN s /\ j - 1 \in DOMAIN s /\ i - 1 < j - 1
    BY <1>1, <1>7
  <2> QED BY <2>1 DEF InOrder
<1> QED BY <1>1, <1>3, <1>4, <1>5, <1>6, <1>7

\* k_msgq_get keeps the queue full while callers are blocked.
LEMMA GetDiscipline ==
  ASSUME TypeOK, QueueDiscipline, k_msgq_get
  PROVE  QueueDiscipline'
<1>1. /\ led_msgq \in Seq(Calls) /\ pending \in Seq(Calls)
      /\ QueueLen \in Nat /\ QueueLen >= 1
  BY LedConstants DEF TypeOK
<1>2. InOrder(pending) /\ (pending # << >> => Len(led_msgq) = QueueLen)
  BY DEF QueueDiscipline, InOrder
<1>3. CASE led_msgq = << >>
  <2>1. pending = << >>
    BY <1>1, <1>2, <1>3
  <2> QED BY <1>3, <2>1 DEF k_msgq_get, QueueDiscipline
<1>4. CASE led_msgq # << >> /\ pending = << >>
  BY <1>4 DEF k_msgq_get, QueueDiscipline
<1>5. CASE led_msgq # << >> /\ pending # << >>
  <2>1. /\ pc' = "message" /\ pending' = Tail(pending)
        /\ led_msgq' = Append(Tail(led_msgq), Head(pending))
    BY <1>5 DEF k_msgq_get
  <2>2. Len(led_msgq') = QueueLen
    <3>1. Tail(led_msgq) \in Seq(Calls) /\ Len(Tail(led_msgq)) = Len(led_msgq) - 1
      BY <1>1, <1>5
    <3>2. Head(pending) \in Calls
      BY <1>1, <1>5
    <3> QED BY <1>1, <1>2, <1>5, <2>1, <3>1, <3>2
  <2>3. InOrder(pending)'
    <3>1. InOrder(Tail(pending))
      BY <1>1, <1>2, <1>5, TailInOrder
    <3> QED BY <2>1, <3>1 DEF InOrder
  <2> QED BY <2>1, <2>2, <2>3 DEF QueueDiscipline, InOrder
<1> QED BY <1>3, <1>4, <1>5

\* Every step keeps the discipline of the queue.
LEMMA StepDiscipline == TypeOK /\ QueueDiscipline /\ [Next]_vars => QueueDiscipline'
<1> SUFFICES ASSUME TypeOK, QueueDiscipline, [Next]_vars PROVE QueueDiscipline'
  OBVIOUS
<1>1. ASSUME NEW call \in Calls, led_command(call) PROVE QueueDiscipline'
  <2>1. CASE PutWakes(call)
    BY <2>1 DEF PutWakes, QueueDiscipline
  <2>2. CASE PutStores(call)
    <3>1. pending = << >> /\ pending' = << >> /\ pc' # "waiting"
      BY <2>2, LedConstants DEF PutStores, QueueDiscipline, TypeOK
    <3> QED BY <3>1 DEF QueueDiscipline
  <2>3. CASE PutBlocks(call)
    <3>1. PICK k \in 1..(Len(pending) + 1) :
            /\ \A i \in DOMAIN pending :
                 i < k <=> Rank[pending[i].client] <= Rank[call.client]
            /\ pending' = InsertAt(pending, k, call)
      BY <2>3 DEF PutBlocks
    <3>2. \A i \in DOMAIN pending : pending[i].client # call.client
      BY <1>1 DEF led_command, Blocked
    <3>3. InOrder(pending) /\ pending \in Seq(Calls)
      BY DEF QueueDiscipline, InOrder, TypeOK
    <3>4. InOrder(InsertAt(pending, k, call))
      BY <3>1, <3>2, <3>3, InsertInOrder
    <3>5. InOrder(pending)'
      BY <3>1, <3>4 DEF InOrder
    <3>6. pc' # "waiting" /\ Len(led_msgq') = QueueLen
      BY <2>3, LedConstants DEF PutBlocks, TypeOK
    <3> QED BY <3>5, <3>6 DEF QueueDiscipline, InOrder
  <2> QED BY <1>1, <2>1, <2>2, <2>3 DEF led_command
<1>2. CASE LedStart \/ LedMessage \/ LedTimeout
  <2>1. k_msgq_get
    BY <1>2 DEF LedStart, LedMessage, LedTimeout
  <2> QED BY <2>1, GetDiscipline
<1>3. CASE GetTimesOut
  BY <1>3 DEF GetTimesOut, QueueDiscipline
<1>4. CASE Tick
  BY <1>4 DEF Tick, QueueDiscipline
<1>5. CASE UNCHANGED vars
  BY <1>5 DEF vars, QueueDiscipline
<1> QED BY <1>1, <1>2, <1>3, <1>4, <1>5 DEF Next, LedThread

\* Whatever the callers do, nobody waits for a message that is already there,
\* nobody is blocked while there is room, and urgency decides who is next.
THEOREM QueueIsDisciplined == Spec => []QueueDiscipline
<1>1. Init => QueueDiscipline
  BY DEF Init, QueueDiscipline
<1>2. TypeOK /\ QueueDiscipline /\ [Next]_vars => QueueDiscipline'
  BY StepDiscipline
<1> QED BY <1>1, <1>2, TypeCorrect, PTL DEF Spec

-----------------------------------------------------------------------------
(* The line of calls on their way to the LEDs                              *)

LEMMA LineType ==
  ASSUME TypeOK
  PROVE  /\ received \o led_msgq \in Seq(Calls)
         /\ Line = (received \o led_msgq) \o pending
         /\ Line \in Seq(Calls)
BY DEF TypeOK, Line

\* A line is its first call and the rest.
LEMMA FirstAndRest ==
  ASSUME NEW s \in Seq(Calls), s # << >>
  PROVE  <<Head(s)>> \o Tail(s) = s
<1>1. Head(s) \in Calls /\ Tail(s) \in Seq(Calls) /\ Len(s) \in Nat /\ Len(Tail(s)) = Len(s) - 1
  OBVIOUS
<1> DEFINE t == <<Head(s)>> \o Tail(s)
<1>2. t \in Seq(Calls) /\ Len(t) = Len(s)
  BY <1>1
<1>3. \A i \in 1..Len(s) : t[i] = s[i]
  BY <1>1
<1> HIDE DEF t
<1>4. t = s
  BY <1>2, <1>3, SeqEqual
<1> QED BY <1>4 DEF t

\* Moving messages along a line changes nothing in it.
LEMMA MovingUp ==
  ASSUME NEW q \in Seq(Calls), NEW p \in Seq(Calls), q # << >>
  PROVE  /\ <<Head(q)>> \o Tail(q) \o p = q \o p
         /\ p # << >> => <<Head(q)>> \o Append(Tail(q), Head(p)) \o Tail(p) = q \o p
<1>1. <<Head(q)>> \o Tail(q) = q
  BY FirstAndRest
<1>2. ASSUME p # << >>
      PROVE  <<Head(q)>> \o Append(Tail(q), Head(p)) \o Tail(p) = q \o p
  <2> DEFINE q1 == <<Head(q)>>
             q2 == Tail(q)
             p1 == <<Head(p)>>
             p2 == Tail(p)
  <2>1. /\ q1 \in Seq(Calls) /\ q2 \in Seq(Calls)
        /\ p1 \in Seq(Calls) /\ p2 \in Seq(Calls)
    BY <1>2
  <2>2. Append(q2, Head(p)) = q2 \o p1
    BY <1>2, <2>1, AppendIsConcat
  <2>3. q1 \o q2 = q /\ p1 \o p2 = p
    BY <1>1, <1>2, FirstAndRest
  <2> HIDE DEF q1, q2, p1, p2
  <2>4. \A x, y, z \in Seq(Calls) : (x \o y) \o z = x \o (y \o z)
    BY ConcatAssociative
  <2>5. (q1 \o q2) \o p1 = q1 \o (q2 \o p1)
    <3>1. \A z \in Seq(Calls) : (q1 \o q2) \o z = q1 \o (q2 \o z)
      BY <2>1, <2>4, Zenon
    <3>2. p1 \in Seq(Calls)
      BY <2>1, Zenon
    <3> QED BY <3>1, <3>2, Zenon
  <2>6. (q \o p1) \o p2 = q \o (p1 \o p2)
    BY <2>1, <2>4, Zenon
  <2> QED BY <2>2, <2>3, <2>5, <2>6 DEF q1, q2, p1, p2
<1> QED BY <1>1, <1>2

\* k_msgq_get moves messages along the line, but changes nothing in it.
LEMMA GetKeepsLine ==
  ASSUME TypeOK, QueueDiscipline, k_msgq_get
  PROVE  Line' = led_msgq \o pending
<1>1. led_msgq \in Seq(Calls) /\ pending \in Seq(Calls)
  BY DEF TypeOK
<1>2. Line' = received' \o led_msgq' \o pending'
  BY DEF Line
<1>3. CASE led_msgq = << >>
  <2>1. received' = << >> /\ UNCHANGED <<led_msgq, pending>>
    BY <1>3 DEF k_msgq_get
  <2> QED BY <1>2, <1>3, <2>1
<1>4. CASE led_msgq # << >> /\ pending = << >>
  <2>1. received' = <<Head(led_msgq)>> /\ led_msgq' = Tail(led_msgq) /\ pending' = pending
    BY <1>4 DEF k_msgq_get
  <2> QED BY <1>1, <1>2, <1>4, <2>1, MovingUp
<1>5. CASE led_msgq # << >> /\ pending # << >>
  <2>1. /\ received' = <<Head(led_msgq)>> /\ led_msgq' = Append(Tail(led_msgq), Head(pending))
        /\ pending' = Tail(pending)
    BY <1>5 DEF k_msgq_get
  <2> QED BY <1>1, <1>2, <1>5, <2>1, MovingUp
<1> QED BY <1>3, <1>4, <1>5

\* A turn that got a message takes the first call out of the line, and the other
\* steps of the thread leave it alone.
LEMMA ThreadTakesFirst ==
  ASSUME TypeOK, QueueDiscipline, LedThread
  PROVE  /\ pc = "message" => /\ LedMessage
                              /\ Line # << >> /\ Line[1] = Head(received)
                              /\ Line' = Tail(Line)
         /\ pc # "message" => ~LedMessage /\ Line' = Line
<1>1. /\ led_msgq \in Seq(Calls) /\ pending \in Seq(Calls) /\ received \in Seq(Calls)
      /\ Len(received) = (IF pc = "message" THEN 1 ELSE 0)
  BY DEF TypeOK
<1>2. CASE pc = "message"
  <2>1. LedMessage
    BY <1>2 DEF LedThread, LedStart, GetTimesOut, LedTimeout
  <2>2. Line' = led_msgq \o pending
    BY <2>1, GetKeepsLine DEF LedMessage
  <2> DEFINE first == <<Head(received)>>
  <2>3. received = first /\ first \in Seq(Calls) /\ Len(first) = 1 /\ first[1] = Head(received)
    <3>1. received # << >> /\ Tail(received) = << >> /\ Head(received) \in Calls
      <4>1. Len(received) = 1
        BY <1>1, <1>2
      <4>2. received # << >>
        BY <4>1
      <4>3. Tail(received) \in Seq(Calls) /\ Len(Tail(received)) = 0 /\ Head(received) \in Calls
        BY <1>1, <4>1, <4>2, HeadTailProperties
      <4>4. Tail(received) = << >>
        BY <4>3, EmptySeq
      <4> QED BY <4>2, <4>3, <4>4
    <3>2. <<Head(received)>> \o << >> = received
      BY <1>1, <3>1, FirstAndRest
    <3>3. <<Head(received)>> \in Seq(Calls)
      BY <3>1
    <3> QED BY <3>2, <3>3
  <2> DEFINE rest == led_msgq \o pending
  <2>4. rest \in Seq(Calls)
    BY <1>1
  <2>5. Line = first \o rest
    <3> HIDE DEF first
    <3>1. (first \o led_msgq) \o pending = first \o (led_msgq \o pending)
      BY <1>1, <2>3, ConcatAssociative
    <3> QED BY <2>3, <3>1 DEF Line
  <2>6. Line # << >> /\ Line[1] = Head(received) /\ Tail(Line) = rest
    <3> HIDE DEF rest
    <3>1. Head(received) \in Calls
      BY <2>3
    <3> QED BY <2>4, <2>5, <3>1
  <2> QED BY <1>2, <2>1, <2>2, <2>6
<1>3. CASE pc # "message"
  <2>1. received = << >>
    BY <1>1, <1>3
  <2>2. Line = led_msgq \o pending
    BY <1>1, <2>1 DEF Line
  <2>3. CASE GetTimesOut
    BY <1>3, <2>3 DEF GetTimesOut, LedMessage, Line
  <2>4. CASE LedStart \/ LedTimeout
    <3>1. k_msgq_get
      BY <2>4 DEF LedStart, LedTimeout
    <3> QED BY <2>2, <3>1, GetKeepsLine, <1>3 DEF LedMessage
  <2> QED BY <1>3, <2>3, <2>4 DEF LedThread, LedMessage
<1> QED BY <1>2, <1>3

\* A call that joins the end of a line joins the line.
LEMMA JoinedBehind ==
  ASSUME NEW f \in Seq(Calls), NEW s \in Seq(Calls), NEW t \in Seq(Calls),
         NEW call \in Calls, NEW k, Joined(s, t, call, k)
  PROVE  Joined(f \o s, f \o t, call, Len(f) + k)
<1>1. /\ Len(f) \in Nat /\ Len(s) \in Nat /\ k \in 1..(Len(s) + 1) /\ Len(t) = Len(s) + 1
      /\ \A i \in 1..(Len(s) + 1) :
           t[i] = IF i < k THEN s[i] ELSE IF i = k THEN call ELSE s[i - 1]
  BY DEF Joined
<1> DEFINE fs == f \o s
           ft == f \o t
<1>2. /\ fs \in Seq(Calls) /\ Len(fs) = Len(f) + Len(s)
      /\ \A i \in 1..(Len(f) + Len(s)) : fs[i] = IF i <= Len(f) THEN f[i] ELSE s[i - Len(f)]
  BY ConcatProperties
<1>3. /\ ft \in Seq(Calls) /\ Len(ft) = Len(f) + Len(t)
      /\ \A i \in 1..(Len(f) + Len(t)) : ft[i] = IF i <= Len(f) THEN f[i] ELSE t[i - Len(f)]
  BY ConcatProperties
<1> HIDE DEF fs, ft
<1>4. ASSUME NEW i \in 1..(Len(fs) + 1)
      PROVE  ft[i] = IF i < Len(f) + k THEN fs[i] ELSE IF i = Len(f) + k THEN call ELSE fs[i - 1]
  <2>1. CASE i <= Len(f)
    <3>1. i \in 1..(Len(f) + Len(s)) /\ i \in 1..(Len(f) + Len(t)) /\ i < Len(f) + k
      BY <1>1, <2>1
    <3>2. fs[i] = f[i] /\ ft[i] = f[i]
      BY <1>2, <1>3, <2>1, <3>1
    <3> QED BY <3>1, <3>2
  <2>2. CASE i > Len(f)
    <3> DEFINE j == i - Len(f)
    <3>1. j \in 1..(Len(s) + 1) /\ i \in 1..(Len(f) + Len(t))
      BY <1>1, <1>2, <2>2
    <3>2. ft[i] = t[j]
      BY <1>1, <1>3, <2>2, <3>1
    <3>3. t[j] = IF j < k THEN s[j] ELSE IF j = k THEN call ELSE s[j - 1]
      BY <1>1, <3>1
    <3>4. CASE j < k
      <4>1. j \in 1..Len(s) /\ i \in 1..(Len(f) + Len(s)) /\ i < Len(f) + k
        BY <1>1, <2>2, <3>1, <3>4
      <4> QED BY <1>1, <1>2, <2>2, <3>2, <3>3, <3>4, <4>1
    <3>5. CASE j = k
      BY <1>1, <3>1, <3>2, <3>3, <3>5
    <3>6. CASE j > k
      <4>1. /\ j - 1 \in 1..Len(s) /\ i - 1 \in 1..(Len(f) + Len(s)) /\ i > Len(f) + k
            /\ ~(i - 1 <= Len(f)) /\ (i - 1) - Len(f) = j - 1 /\ i # Len(f) + k
            /\ ~(i < Len(f) + k) /\ ~(j < k) /\ j # k
        BY <1>1, <2>2, <3>1, <3>6
      <4> HIDE DEF j
      <4>2. fs[i - 1] = IF i - 1 <= Len(f) THEN f[i - 1] ELSE s[(i - 1) - Len(f)]
        BY <1>2, <4>1
      <4>3. ft[i] = s[j - 1]
        BY <3>2, <3>3, <4>1
      <4>4. fs[i - 1] = s[j - 1]
        BY <4>1, <4>2
      <4>5. ft[i] = fs[i - 1]
        BY <4>3, <4>4, Zenon
      <4> QED BY <4>1, <4>5
    <3>7. j < k \/ j = k \/ j > k
      <4>1. j \in Int /\ k \in Int
        BY <1>1, <3>1
      <4> QED BY <4>1
    <3> QED BY <3>4, <3>5, <3>6, <3>7, Zenon
  <2> QED BY <1>1, <1>2, <2>1, <2>2
<1>5. Len(f) + k \in 1..(Len(fs) + 1) /\ Len(ft) = Len(fs) + 1
  BY <1>1, <1>2, <1>3
<1> QED BY <1>2, <1>3, <1>4, <1>5 DEF fs, ft, Joined

\* Appending is joining at the end.
LEMMA JoinedAtEnd ==
  ASSUME NEW s \in Seq(Calls), NEW call \in Calls
  PROVE  Joined(s, Append(s, call), call, Len(s) + 1)
BY DEF Joined

\* A call joins the line behind every other call of its client and every call
\* that is as urgent.
LEMMA CallJoins ==
  ASSUME TypeOK, QueueDiscipline, NEW call \in Calls, led_command(call)
  PROVE  \E k \in 1..(Len(Line) + 1) :
           /\ Joined(Line, Line', call, k)
           /\ \A i \in k..Len(Line) : /\ Line[i].client # call.client
                                      /\ Rank[call.client] < Rank[Line[i].client]
<1>1. /\ led_msgq \in Seq(Calls) /\ pending \in Seq(Calls) /\ received \in Seq(Calls)
      /\ Len(received) = (IF pc = "message" THEN 1 ELSE 0)
      /\ QueueLen \in Nat
  BY LedConstants DEF TypeOK
<1>2. Line \in Seq(Calls) /\ Len(Line) \in Nat
  BY LineType
<1>3. ASSUME Line' = Append(Line, call)
      PROVE  \E k \in 1..(Len(Line) + 1) :
               /\ Joined(Line, Line', call, k)
               /\ \A i \in k..Len(Line) : /\ Line[i].client # call.client
                                          /\ Rank[call.client] < Rank[Line[i].client]
  <2>1. Joined(Line, Line', call, Len(Line) + 1)
    BY <1>2, <1>3, JoinedAtEnd
  <2>2. Len(Line) + 1 \in 1..(Len(Line) + 1) /\ (Len(Line) + 1)..Len(Line) = {}
    BY <1>2
  <2> QED BY <2>1, <2>2
<1>4. CASE PutWakes(call)
  <2>1. received = << >> /\ led_msgq = << >> /\ pending = << >>
    BY <1>1, <1>4 DEF PutWakes, QueueDiscipline
  <2>2. received' = <<call>> /\ led_msgq' = << >> /\ pending' = << >>
    BY <1>4, <2>1 DEF PutWakes
  <2>3. Line = << >> /\ Line' = <<call>>
    BY <2>1, <2>2 DEF Line
  <2> QED BY <1>3, <2>3
<1>5. CASE PutStores(call)
  <2>1. pending = << >> /\ pending' = << >> /\ received' = received
    BY <1>1, <1>5 DEF PutStores, QueueDiscipline
  <2>2. led_msgq' = Append(led_msgq, call)
    BY <1>5 DEF PutStores
  <2>3. Line = received \o led_msgq /\ Line' = received \o Append(led_msgq, call)
    BY <1>1, <2>1, <2>2 DEF Line
  <2>4. received \o Append(led_msgq, call) = Append(received \o led_msgq, call)
    BY <1>1
  <2> QED BY <1>3, <2>3, <2>4
<1>6. CASE PutBlocks(call)
  <2>1. PICK k \in 1..(Len(pending) + 1) :
          /\ \A i \in DOMAIN pending : i < k <=> Rank[pending[i].client] <= Rank[call.client]
          /\ pending' = InsertAt(pending, k, call)
    BY <1>6 DEF PutBlocks
  <2>2. received' = received /\ led_msgq' = led_msgq
    BY <1>6 DEF PutBlocks
  <2> DEFINE f == received \o led_msgq
  <2>3. f \in Seq(Calls) /\ Len(f) \in Nat /\ Line = f \o pending /\ Line' = f \o pending'
    BY <1>1, <2>2, LineType DEF Line
  <2>4. Joined(pending, pending', call, k)
    <3>1. Joined(pending, InsertAt(pending, k, call), call, k)
      <4>1. pending \in Seq(Calls) /\ call \in Calls /\ k \in 1..(Len(pending) + 1)
        BY <1>1
      <4> QED BY <4>1, InsertedJoins, Zenon
    <3> QED BY <2>1, <3>1
  <2>5. pending' \in Seq(Calls)
    BY <2>4 DEF Joined
  <2> HIDE DEF f
  <2>6. Joined(Line, Line', call, Len(f) + k)
    BY <1>1, <2>3, <2>4, <2>5, JoinedBehind
  <2>7. ASSUME NEW i \in (Len(f) + k)..Len(Line)
        PROVE  Line[i].client # call.client /\ Rank[call.client] < Rank[Line[i].client]
    <3> DEFINE j == i - Len(f)
    <3>1. j \in k..Len(pending) /\ j \in DOMAIN pending /\ Line[i] = pending[j]
      <4>1. Len(Line) = Len(f) + Len(pending)
        BY <1>1, <2>3
      <4>2. i \in 1..(Len(f) + Len(pending)) /\ i > Len(f)
        BY <1>1, <2>3, <4>1
      <4>3. Line[i] = pending[j]
        BY <1>1, <2>3, <4>2, ConcatProperties
      <4> QED BY <1>1, <2>3, <4>1, <4>3
    <3>2. pending[j] \in Calls /\ ~(j < k)
      BY <1>1, <2>1, <3>1
    <3> HIDE DEF j
    <3>3. pending[j].client # call.client
      BY <3>1 DEF led_command, Blocked
    <3>4. ~(Rank[pending[j].client] <= Rank[call.client])
      BY <2>1, <3>1, <3>2
    <3>5. Rank[pending[j].client] \in Int /\ Rank[call.client] \in Int
      BY <3>2, LedConstants
    <3> QED BY <3>1, <3>3, <3>4, <3>5
  <2>8. Len(f) + k \in 1..(Len(Line) + 1)
    BY <2>6 DEF Joined
  <2> QED BY <2>6, <2>7, <2>8
<1> QED BY <1>4, <1>5, <1>6 DEF led_command

-----------------------------------------------------------------------------
(* The messages of one client                                              *)

Places(line, c) == {i \in DOMAIN line : line[i].client = c}

Nth(places, n) == CHOOSE i \in places : Cardinality({j \in places : j <= i}) = n

\* e lists the members of a set of places, first to last.
Lists(e, places) ==
  /\ e \in Seq(Nat)
  /\ \A i \in 1..Len(e) : e[i] \in places
  /\ \A p \in places : \E i \in 1..Len(e) : e[i] = p
  /\ \A i, j \in 1..Len(e) : i < j => e[i] < e[j]

\* The n-th place is the n-th of the list.
LEMMA ListIsNth ==
  ASSUME NEW places, NEW e, Lists(e, places)
  PROVE  /\ Cardinality(places) = Len(e)
         /\ \A n \in 1..Len(e) : Nth(places, n) = e[n]
<1>1. /\ e \in Seq(Nat) /\ Len(e) \in Nat
      /\ \A i \in 1..Len(e) : e[i] \in places /\ e[i] \in Nat
      /\ \A p \in places : \E i \in 1..Len(e) : e[i] = p
      /\ \A i, j \in 1..Len(e) : i < j => e[i] < e[j]
  BY DEF Lists
<1> DEFINE First(n) == {e[i] : i \in 1..n}
<1>2. ASSUME NEW n \in 0..Len(e)
      PROVE  Cardinality(First(n)) = n
  <2> DEFINE f == [i \in 1..n |-> e[i]]
  <2>1. f \in Bijection(1..n, First(n))
    <3>1. f \in [1..n -> First(n)]
      OBVIOUS
    <3>2. \A i, j \in 1..n : i # j => f[i] # f[j]
      <4> SUFFICES ASSUME NEW i \in 1..n, NEW j \in 1..n, i # j
                   PROVE  e[i] # e[j]
        OBVIOUS
      <4>1. i \in 1..Len(e) /\ j \in 1..Len(e) /\ (i < j \/ j < i)
        BY <1>1
      <4>2. e[i] < e[j] \/ e[j] < e[i]
        BY <1>1, <4>1
      <4> QED BY <1>1, <4>1, <4>2
    <3>3. \A p \in First(n) : \E i \in 1..n : f[i] = p
      OBVIOUS
    <3> QED BY <3>1, <3>2, <3>3 DEF Bijection, Injection, Surjection, IsInjective
  <2>2. ExistsBijection(1..n, First(n))
    BY <2>1 DEF ExistsBijection
  <2>3. IsFiniteSet(1..n) /\ Cardinality(1..n) = n
    BY <1>1, FS_Interval
  <2> HIDE DEF First
  <2> QED BY <2>2, <2>3, FS_Bijection
<1>3. places = First(Len(e))
  BY <1>1
<1>4. ASSUME NEW n \in 1..Len(e)
      PROVE  {j \in places : j <= e[n]} = First(n)
  <2>1. ASSUME NEW j \in places, j <= e[n]
        PROVE  j \in First(n)
    <3>1. PICK m \in 1..Len(e) : e[m] = j
      BY <1>1
    <3>2. ~(n < m)
      BY <1>1, <2>1, <3>1
    <3> QED BY <1>1, <3>1, <3>2
  <2>2. ASSUME NEW m \in 1..n
        PROVE  e[m] \in places /\ e[m] <= e[n]
    <3>1. m \in 1..Len(e) /\ (m < n \/ m = n)
      BY <1>1
    <3> QED BY <1>1, <3>1
  <2> QED BY <2>1, <2>2
<1> HIDE DEF First
<1>5. Cardinality(places) = Len(e)
  <2>1. Len(e) \in 0..Len(e)
    BY <1>1
  <2> QED BY <1>2, <1>3, <2>1
<1>6. ASSUME NEW n \in 1..Len(e)
      PROVE  Nth(places, n) = e[n]
  <2>1. Cardinality({j \in places : j <= e[n]}) = n
    <3>1. n \in 0..Len(e)
      BY <1>1
    <3> QED BY <1>2, <1>4, <3>1
  <2>2. ASSUME NEW i \in places, Cardinality({j \in places : j <= i}) = n
        PROVE  i = e[n]
    <3>1. PICK m \in 1..Len(e) : e[m] = i
      BY <1>1
    <3>2. Cardinality({j \in places : j <= e[m]}) = m
      <4>1. m \in 0..Len(e)
        BY <1>1
      <4> QED BY <1>2, <1>4, <4>1
    <3> QED BY <2>2, <3>1, <3>2
  <2>3. e[n] \in places
    BY <1>1
  <2> QED BY <2>1, <2>2, <2>3 DEF Nth
<1> QED BY <1>5, <1>6

\* The places of a client can be listed: a list of those before place n goes on
\* with place n, or not.
LEMMA ListExists ==
  ASSUME NEW s \in Seq(Calls), NEW c
  PROVE  \E e : Lists(e, Places(s, c))
<1> DEFINE Before(n) == {i \in 1..n : s[i].client = c}
           Bad == {n \in 0..Len(s) : ~\E e : Lists(e, Before(n))}
<1>1. Len(s) \in Nat /\ DOMAIN s = 1..Len(s)
  OBVIOUS
<1>2. ASSUME Bad # {}
      PROVE  FALSE
  <2>1. Bad \subseteq Nat
    BY <1>1
  <2>2. PICK n \in Bad : \A m \in Bad : ~(<<m, n>> \in OpToRel(<, Nat))
    BY <1>2, <2>1, WFMin, NatLessThanWellFounded
  <2>3. n \in 0..Len(s) /\ n \in Nat /\ ~\E e : Lists(e, Before(n))
    <3> HIDE DEF Before
    <3>1. n \in 0..Len(s) /\ ~\E e : Lists(e, Before(n))
      OBVIOUS
    <3> QED BY <1>1, <3>1
  <2>4. n # 0
    <3>1. << >> \in Seq(Nat) /\ Len(<< >>) = 0 /\ Before(0) = {}
      OBVIOUS
    <3>2. Lists(<< >>, Before(0))
      BY <3>1 DEF Lists
    <3> HIDE DEF Before, Bad
    <3> QED BY <2>3, <3>2
  <2>5. n - 1 \in 0..Len(s) /\ n - 1 \in Nat /\ n - 1 < n
    BY <2>3, <2>4
  <2>6. n - 1 \notin Bad
    BY <2>2, <2>3, <2>5 DEF OpToRel
  <2>7. PICK e : Lists(e, Before(n - 1))
    BY <2>5, <2>6
  <2>8. /\ e \in Seq(Nat) /\ Len(e) \in Nat
        /\ \A i \in 1..Len(e) : e[i] \in Before(n - 1)
        /\ \A p \in Before(n - 1) : \E i \in 1..Len(e) : e[i] = p
        /\ \A i, j \in 1..Len(e) : i < j => e[i] < e[j]
    BY <2>7 DEF Lists
  <2>9. CASE s[n].client # c
    <3>1. Before(n) = Before(n - 1)
      BY <2>3, <2>4, <2>9
    <3> HIDE DEF Before
    <3> QED BY <2>3, <2>7, <3>1
  <2>10. CASE s[n].client = c
    <3> DEFINE f == Append(e, n)
    <3>1. /\ f \in Seq(Nat) /\ Len(f) = Len(e) + 1
          /\ \A i \in 1..Len(e) : f[i] = e[i]
          /\ f[Len(e) + 1] = n
      BY <2>3, <2>8, AppendProperties
    <3>2. Before(n) = Before(n - 1) \cup {n}
      BY <2>3, <2>4, <2>10
    <3>3. \A p \in Before(n - 1) : p < n /\ p \in Nat
      BY <2>3
    <3> HIDE DEF f, Before
    <3>4. \A i \in 1..Len(f) : f[i] \in Before(n)
      <4> SUFFICES ASSUME NEW i \in 1..Len(f)
                   PROVE  f[i] \in Before(n)
        OBVIOUS
      <4>1. i \in 1..Len(e) \/ i = Len(e) + 1
        BY <2>8, <3>1
      <4> QED BY <2>8, <3>1, <3>2, <4>1
    <3>5. \A p \in Before(n) : \E i \in 1..Len(f) : f[i] = p
      <4>1. ASSUME NEW p \in Before(n - 1)
            PROVE  \E i \in 1..Len(f) : f[i] = p
        <5>1. PICK i \in 1..Len(e) : e[i] = p
          BY <2>8
        <5>2. i \in 1..Len(f)
          BY <2>8, <3>1
        <5>3. f[i] = p
          BY <3>1, <5>1
        <5> QED BY <5>2, <5>3
      <4>2. Len(e) + 1 \in 1..Len(f)
        BY <2>8, <3>1
      <4> QED BY <3>1, <3>2, <4>1, <4>2
    <3>6. \A i, j \in 1..Len(f) : i < j => f[i] < f[j]
      <4> SUFFICES ASSUME NEW i \in 1..Len(f), NEW j \in 1..Len(f), i < j
                   PROVE  f[i] < f[j]
        OBVIOUS
      <4>1. i \in 1..Len(e) /\ (j \in 1..Len(e) \/ j = Len(e) + 1)
        <5>1. Len(e) \in Nat /\ Len(f) = Len(e) + 1
          BY <2>8, <3>1
        <5> QED BY <5>1
      <4> QED BY <2>8, <3>1, <3>3, <4>1
    <3> QED BY <2>3, <3>1, <3>4, <3>5, <3>6 DEF Lists
  <2> QED BY <2>9, <2>10
<1>3. Len(s) \notin Bad
  BY <1>2
<1>4. Before(Len(s)) = Places(s, c)
  BY <1>1 DEF Places
<1> HIDE DEF Before
<1>5. \E e : Lists(e, Before(Len(s)))
  <2>1. Len(s) \in 0..Len(s)
    BY <1>1
  <2> QED BY <1>3, <2>1
<1> QED BY <1>4, <1>5

\* The messages of a client, by a list of its places.
LEMMA MessagesAre ==
  ASSUME NEW s, NEW c, NEW e, Lists(e, Places(s, c))
  PROVE  Messages(s, c) = [n \in 1..Len(e) |-> s[e[n]].msg]
<1>1. Messages(s, c) = [n \in 1..Cardinality(Places(s, c)) |-> s[Nth(Places(s, c), n)].msg]
  BY Zenon DEF Messages, Places, Nth
<1>2. Cardinality(Places(s, c)) = Len(e)
  BY ListIsNth
<1>3. \A n \in 1..Len(e) : Nth(Places(s, c), n) = e[n]
  BY ListIsNth
<1> QED BY <1>1, <1>2, <1>3

\* A function on places is a sequence.
LEMMA FunctionIsSeq ==
  ASSUME NEW n \in Nat, NEW S, NEW f \in [1..n -> S]
  PROVE  f \in Seq(S) /\ Len(f) = n
OBVIOUS

\* The calls of s stand in t in the same order, at the places g says, and all
\* calls of client c in t are among them.
Moves(g, s, t, c) ==
  /\ \A i \in 1..Len(s) : g[i] \in 1..Len(t) /\ t[g[i]] = s[i]
  /\ \A i, j \in 1..Len(s) : i < j => g[i] < g[j]
  /\ \A p \in Places(t, c) : \E i \in 1..Len(s) : g[i] = p

\* Calls that move together leave the messages of a client as they are.
LEMMA Relocated ==
  ASSUME NEW s \in Seq(Calls), NEW t \in Seq(Calls), NEW c, NEW g, Moves(g, s, t, c)
  PROVE  Messages(t, c) = Messages(s, c)
<1> USE DEF Moves
<1>1. PICK e : Lists(e, Places(s, c))
  BY ListExists
<1>2. /\ e \in Seq(Nat) /\ Len(e) \in Nat
      /\ \A n \in 1..Len(e) : e[n] \in 1..Len(s) /\ s[e[n]].client = c
      /\ \A i \in 1..Len(s) : s[i].client = c => \E n \in 1..Len(e) : e[n] = i
      /\ \A i, j \in 1..Len(e) : i < j => e[i] < e[j]
  BY <1>1 DEF Lists, Places
<1> DEFINE f == [n \in 1..Len(e) |-> g[e[n]]]
<1>3. \A n \in 1..Len(e) : g[e[n]] \in 1..Len(t) /\ t[g[e[n]]] = s[e[n]]
  BY <1>2
<1>4. /\ f \in Seq(Nat) /\ Len(f) = Len(e)
      /\ \A n \in 1..Len(e) : f[n] = g[e[n]]
  <2>1. f \in [1..Len(e) -> Nat]
    BY <1>3
  <2> QED BY <1>2, <2>1
<1> HIDE DEF f
<1>5. Lists(f, Places(t, c))
  <2>1. \A n \in 1..Len(f) : f[n] \in Places(t, c)
    <3> SUFFICES ASSUME NEW n \in 1..Len(e)
                 PROVE  f[n] \in Places(t, c)
      BY <1>4
    <3>1. f[n] = g[e[n]] /\ s[e[n]].client = c
      BY <1>2, <1>4
    <3>2. g[e[n]] \in 1..Len(t) /\ t[g[e[n]]] = s[e[n]]
      BY <1>3
    <3>3. DOMAIN t = 1..Len(t)
      OBVIOUS
    <3> QED BY <3>1, <3>2, <3>3 DEF Places
  <2>2. ASSUME NEW p \in Places(t, c)
        PROVE  \E n \in 1..Len(f) : f[n] = p
    <3>1. PICK i \in 1..Len(s) : g[i] = p
      OBVIOUS
    <3>2. s[i].client = c
      BY <3>1 DEF Places
    <3>3. PICK n \in 1..Len(e) : e[n] = i
      BY <1>2, <3>2
    <3> QED BY <1>4, <3>1, <3>3
  <2>3. \A i, j \in 1..Len(f) : i < j => f[i] < f[j]
    <3> SUFFICES ASSUME NEW i \in 1..Len(e), NEW j \in 1..Len(e), i < j
                 PROVE  f[i] < f[j]
      BY <1>4
    <3>1. e[i] \in 1..Len(s) /\ e[j] \in 1..Len(s) /\ e[i] < e[j]
      BY <1>2
    <3> QED BY <1>4, <3>1
  <2> QED BY <1>4, <2>1, <2>2, <2>3 DEF Lists
<1>6. Messages(s, c) = [n \in 1..Len(e) |-> s[e[n]].msg]
  BY <1>1, MessagesAre
<1>7. Messages(t, c) = [n \in 1..Len(f) |-> t[f[n]].msg]
  BY <1>5, MessagesAre
<1> QED BY <1>3, <1>4, <1>6, <1>7

\* A call leaves the messages of the other clients as they are.
LEMMA JoinedByOther ==
  ASSUME NEW s \in Seq(Calls), NEW t, NEW call \in Calls, NEW k, Joined(s, t, call, k),
         NEW c, c # call.client
  PROVE  Messages(t, c) = Messages(s, c)
<1>1. /\ k \in 1..(Len(s) + 1) /\ t \in Seq(Calls) /\ Len(t) = Len(s) + 1 /\ Len(s) \in Nat
      /\ DOMAIN t = 1..(Len(s) + 1)
      /\ \A i \in 1..(Len(s) + 1) :
           t[i] = IF i < k THEN s[i] ELSE IF i = k THEN call ELSE s[i - 1]
  BY DEF Joined
<1> DEFINE g == [i \in 1..Len(s) |-> IF i < k THEN i ELSE i + 1]
<1>2. \A i \in 1..Len(s) : g[i] = IF i < k THEN i ELSE i + 1
  OBVIOUS
<1> HIDE DEF g
<1>3. ASSUME NEW i \in 1..Len(s)
      PROVE  g[i] \in 1..Len(t) /\ t[g[i]] = s[i]
  <2>1. CASE i < k
    <3>1. i \in 1..(Len(s) + 1) /\ g[i] = i
      BY <1>1, <1>2, <2>1
    <3> QED BY <1>1, <2>1, <3>1
  <2>2. CASE ~(i < k)
    <3>1. /\ i + 1 \in 1..(Len(s) + 1) /\ g[i] = i + 1
          /\ ~(i + 1 < k) /\ i + 1 # k /\ (i + 1) - 1 = i
      BY <1>1, <1>2, <2>2
    <3> QED BY <1>1, <3>1
  <2> QED BY <2>1, <2>2
<1>4. \A i, j \in 1..Len(s) : i < j => g[i] < g[j]
  BY <1>1, <1>2
<1>5. ASSUME NEW p \in Places(t, c)
      PROVE  \E i \in 1..Len(s) : g[i] = p
  <2>1. p \in 1..(Len(s) + 1) /\ p # k
    BY <1>1 DEF Places
  <2>2. CASE p < k
    <3>1. p \in 1..Len(s) /\ g[p] = p
      BY <1>1, <1>2, <2>1, <2>2
    <3> QED BY <3>1
  <2>3. CASE p > k
    <3>1. p - 1 \in 1..Len(s) /\ g[p - 1] = p
      BY <1>1, <1>2, <2>1, <2>3
    <3> QED BY <3>1
  <2> QED BY <1>1, <2>1, <2>2, <2>3
<1>6. Moves(g, s, t, c)
  BY <1>3, <1>4, <1>5 DEF Moves
<1> QED BY <1>1, <1>6, Relocated

\* A call that stands behind the others of its client is the client's last.
LEMMA JoinedByOwn ==
  ASSUME NEW s \in Seq(Calls), NEW t, NEW call \in Calls, NEW k, Joined(s, t, call, k),
         \A i \in k..Len(s) : s[i].client # call.client
  PROVE  Messages(t, call.client) = Append(Messages(s, call.client), call.msg)
<1> DEFINE c == call.client
<1>1. /\ k \in 1..(Len(s) + 1) /\ t \in Seq(Calls) /\ Len(t) = Len(s) + 1 /\ Len(s) \in Nat
      /\ DOMAIN t = 1..(Len(s) + 1) /\ DOMAIN s = 1..Len(s)
      /\ \A i \in 1..(Len(s) + 1) :
           t[i] = IF i < k THEN s[i] ELSE IF i = k THEN call ELSE s[i - 1]
  BY DEF Joined
<1>2. PICK e : Lists(e, Places(s, c))
  BY ListExists
<1>3. /\ e \in Seq(Nat) /\ Len(e) \in Nat
      /\ \A n \in 1..Len(e) : e[n] \in 1..Len(s) /\ s[e[n]].client = c
      /\ \A i \in 1..Len(s) : s[i].client = c => \E n \in 1..Len(e) : e[n] = i
      /\ \A i, j \in 1..Len(e) : i < j => e[i] < e[j]
  BY <1>2 DEF Lists, Places
<1>4. \A n \in 1..Len(e) : e[n] < k /\ t[e[n]] = s[e[n]]
  <2> SUFFICES ASSUME NEW n \in 1..Len(e)
               PROVE  e[n] < k /\ t[e[n]] = s[e[n]]
    OBVIOUS
  <2>1. e[n] \in 1..Len(s) /\ e[n] \notin k..Len(s) /\ e[n] \in 1..(Len(s) + 1)
    BY <1>1, <1>3
  <2>2. e[n] < k
    BY <1>1, <2>1
  <2> QED BY <1>1, <2>1, <2>2
<1> DEFINE f == Append(e, k)
<1>5. /\ f \in Seq(Nat) /\ Len(f) = Len(e) + 1
      /\ \A n \in 1..Len(e) : f[n] = e[n]
      /\ f[Len(e) + 1] = k
  <2>1. k \in Nat
    BY <1>1
  <2> QED BY <1>3, <2>1, AppendProperties
<1>6. t[k] = call
  BY <1>1
<1> HIDE DEF f
<1>7. Lists(f, Places(t, c))
  <2>1. \A n \in 1..Len(f) : f[n] \in Places(t, c)
    <3> SUFFICES ASSUME NEW n \in 1..Len(f)
                 PROVE  f[n] \in Places(t, c)
      OBVIOUS
    <3>1. CASE n \in 1..Len(e)
      <4>1. e[n] \in 1..(Len(s) + 1) /\ t[e[n]].client = c
        BY <1>1, <1>3, <1>4, <3>1
      <4> QED BY <1>1, <1>5, <3>1, <4>1 DEF Places
    <3>2. CASE n = Len(e) + 1
      BY <1>1, <1>5, <1>6, <3>2 DEF Places
    <3> QED BY <1>3, <1>5, <3>1, <3>2
  <2>2. ASSUME NEW p \in Places(t, c)
        PROVE  \E n \in 1..Len(f) : f[n] = p
    <3>1. p \in 1..(Len(s) + 1) /\ t[p].client = c
      BY <1>1 DEF Places
    <3>2. CASE p < k
      <4>1. p \in 1..Len(s) /\ s[p].client = c
        BY <1>1, <3>1, <3>2
      <4>2. PICK n \in 1..Len(e) : e[n] = p
        BY <1>3, <4>1
      <4>3. n \in 1..Len(f)
        BY <1>3, <1>5
      <4> QED BY <1>5, <4>2, <4>3
    <3>3. CASE p = k
      <4>1. Len(e) + 1 \in 1..Len(f)
        BY <1>3, <1>5
      <4> QED BY <1>5, <3>3, <4>1
    <3>4. CASE p > k
      <4>1. p - 1 \in k..Len(s) /\ t[p] = s[p - 1]
        BY <1>1, <3>1, <3>4
      <4> QED BY <3>1, <4>1
    <3> QED BY <1>1, <3>1, <3>2, <3>3, <3>4
  <2>3. \A i, j \in 1..Len(f) : i < j => f[i] < f[j]
    <3> SUFFICES ASSUME NEW i \in 1..Len(f), NEW j \in 1..Len(f), i < j
                 PROVE  f[i] < f[j]
      OBVIOUS
    <3>1. i \in 1..Len(e) /\ (j \in 1..Len(e) \/ j = Len(e) + 1)
      <4>1. Len(e) \in Nat /\ Len(f) = Len(e) + 1
        BY <1>3, <1>5
      <4> QED BY <4>1
    <3>2. CASE j \in 1..Len(e)
      BY <1>3, <1>5, <3>1, <3>2
    <3>3. CASE j = Len(e) + 1
      BY <1>4, <1>5, <3>1, <3>3
    <3> QED BY <3>1, <3>2, <3>3
  <2> QED BY <1>5, <2>1, <2>2, <2>3 DEF Lists
<1> DEFINE before == [n \in 1..Len(e) |-> s[e[n]].msg]
           after == [n \in 1..Len(f) |-> t[f[n]].msg]
<1>8. Messages(s, c) = before /\ Messages(t, c) = after
  <2>1. Messages(s, c) = before
    BY <1>2, MessagesAre
  <2>2. Messages(t, c) = after
    BY <1>7, MessagesAre
  <2> QED BY <2>1, <2>2
<1>9. after = Append(before, call.msg)
  <2>1. /\ before \in Seq(Range(before)) /\ Len(before) = Len(e)
    <3>1. before \in [1..Len(e) -> Range(before)]
      BY DEF Range
    <3> HIDE DEF before
    <3> QED BY <1>3, <3>1, FunctionIsSeq
  <2>2. Append(before, call.msg) = [n \in 1..(Len(e) + 1) |->
                                    IF n = Len(e) + 1 THEN call.msg ELSE before[n]]
    BY <1>3, <2>1
  <2>3. ASSUME NEW n \in 1..(Len(e) + 1)
        PROVE  t[f[n]].msg = IF n = Len(e) + 1 THEN call.msg ELSE before[n]
    <3>1. n \in 1..Len(e) \/ n = Len(e) + 1
      BY <1>3
    <3>2. CASE n \in 1..Len(e)
      <4>1. f[n] = e[n] /\ t[e[n]] = s[e[n]] /\ n # Len(e) + 1
        BY <1>3, <1>4, <1>5, <3>2
      <4> QED BY <3>2, <4>1
    <3>3. CASE n = Len(e) + 1
      BY <1>5, <1>6, <3>3
    <3> QED BY <3>1, <3>2, <3>3
  <2> QED BY <1>5, <2>2, <2>3
<1> QED BY <1>8, <1>9

\* Taking the first call leaves the messages of the other clients as they are.
LEMMA TakenFromOther ==
  ASSUME NEW s \in Seq(Calls), s # << >>, NEW c, s[1].client # c
  PROVE  Messages(Tail(s), c) = Messages(s, c)
<1> DEFINE t == Tail(s)
           g == [i \in 1..Len(t) |-> i + 1]
<1>1. /\ t \in Seq(Calls) /\ Len(t) = Len(s) - 1 /\ Len(s) \in Nat /\ Len(t) \in Nat
      /\ DOMAIN s = 1..Len(s)
      /\ \A i \in 1..Len(t) : t[i] = s[i + 1]
  BY HeadTailProperties
<1>2. \A i \in 1..Len(t) : g[i] = i + 1
  OBVIOUS
<1> HIDE DEF t, g
<1>3. \A i \in 1..Len(t) : g[i] \in 1..Len(s) /\ s[g[i]] = t[i]
  BY <1>1, <1>2
<1>4. \A i, j \in 1..Len(t) : i < j => g[i] < g[j]
  BY <1>2
<1>5. ASSUME NEW p \in Places(s, c)
      PROVE  \E i \in 1..Len(t) : g[i] = p
  <2>1. p \in 1..Len(s) /\ p # 1
    BY <1>1 DEF Places
  <2>2. p - 1 \in 1..Len(t) /\ g[p - 1] = p
    BY <1>1, <1>2, <2>1
  <2> QED BY <2>2
<1>6. Moves(g, t, s, c)
  BY <1>3, <1>4, <1>5 DEF Moves
<1>7. Messages(s, c) = Messages(t, c)
  BY <1>1, <1>6, Relocated
<1> QED BY <1>7 DEF t

\* The first call of the line is the first message of its client.
LEMMA TakenFromOwn ==
  ASSUME NEW s \in Seq(Calls), s # << >>, NEW c, s[1].client = c
  PROVE  /\ Messages(s, c) # << >>
         /\ Head(Messages(s, c)) = s[1].msg
         /\ Messages(Tail(s), c) = Tail(Messages(s, c))
<1> DEFINE t == Tail(s)
<1>1. /\ t \in Seq(Calls) /\ Len(t) = Len(s) - 1 /\ Len(s) \in Nat /\ Len(t) \in Nat
      /\ DOMAIN s = 1..Len(s) /\ DOMAIN t = 1..Len(t)
      /\ \A i \in 1..Len(t) : t[i] = s[i + 1]
      /\ 1 \in 1..Len(s)
  BY HeadTailProperties
<1> HIDE DEF t
<1>2. PICK e : Lists(e, Places(s, c))
  BY ListExists
<1>3. /\ e \in Seq(Nat) /\ Len(e) \in Nat
      /\ \A n \in 1..Len(e) : e[n] \in 1..Len(s) /\ s[e[n]].client = c
      /\ \A i \in 1..Len(s) : s[i].client = c => \E n \in 1..Len(e) : e[n] = i
      /\ \A i, j \in 1..Len(e) : i < j => e[i] < e[j]
  BY <1>1, <1>2 DEF Lists, Places
<1>4. Len(e) >= 1 /\ 1 \in 1..Len(e) /\ e[1] = 1
  <2>1. PICK n \in 1..Len(e) : e[n] = 1
    BY <1>1, <1>3
  <2>2. 1 \in 1..Len(e)
    BY <1>3
  <2>3. e[1] \in 1..Len(s) /\ (1 < n => e[1] < e[n])
    BY <1>3, <2>2
  <2> QED BY <1>1, <1>3, <2>1, <2>2, <2>3
<1> DEFINE f == [n \in 1..(Len(e) - 1) |-> e[n + 1] - 1]
<1>5. \A n \in 1..(Len(e) - 1) : n + 1 \in 1..Len(e) /\ e[n + 1] > 1 /\ e[n + 1] \in 1..Len(s)
  BY <1>3, <1>4
<1>6. /\ f \in Seq(Nat) /\ Len(f) = Len(e) - 1
      /\ \A n \in 1..Len(f) : f[n] = e[n + 1] - 1
  <2>1. f \in [1..(Len(e) - 1) -> Nat]
    BY <1>5
  <2>2. Len(e) - 1 \in Nat
    BY <1>3, <1>4
  <2>3. \A n \in 1..(Len(e) - 1) : f[n] = e[n + 1] - 1
    OBVIOUS
  <2> HIDE DEF f
  <2> DEFINE m == Len(e) - 1
  <2> HIDE DEF m
  <2>4. f \in Seq(Nat) /\ Len(f) = m
    BY <2>1, <2>2, FunctionIsSeq DEF m
  <2> QED BY <2>3, <2>4 DEF m
<1> HIDE DEF f
<1>7. \A n \in 1..Len(f) : f[n] \in 1..Len(t) /\ t[f[n]] = s[e[n + 1]]
  BY <1>1, <1>5, <1>6
<1>8. Lists(f, Places(t, c))
  <2>1. \A n \in 1..Len(f) : f[n] \in Places(t, c)
    <3> SUFFICES ASSUME NEW n \in 1..Len(f)
                 PROVE  f[n] \in Places(t, c)
      OBVIOUS
    <3>1. n + 1 \in 1..Len(e)
      BY <1>5, <1>6
    <3>2. s[e[n + 1]].client = c
      BY <1>3, <3>1
    <3> QED BY <1>1, <1>7, <3>2 DEF Places
  <2>2. ASSUME NEW p \in Places(t, c)
        PROVE  \E n \in 1..Len(f) : f[n] = p
    <3>1. p \in 1..Len(t) /\ p + 1 \in 1..Len(s) /\ s[p + 1].client = c
      BY <1>1 DEF Places
    <3>2. PICK m \in 1..Len(e) : e[m] = p + 1
      BY <1>3, <3>1
    <3>3. m # 1
      BY <1>4, <3>1, <3>2
    <3>4. m - 1 \in 1..Len(f) /\ (m - 1) + 1 = m
      BY <1>3, <1>6, <3>2, <3>3
    <3>5. f[m - 1] = e[(m - 1) + 1] - 1
      BY <1>6, <3>4
    <3>6. f[m - 1] = p
      BY <3>1, <3>2, <3>4, <3>5
    <3> QED BY <3>4, <3>6
  <2>3. \A i, j \in 1..Len(f) : i < j => f[i] < f[j]
    <3> SUFFICES ASSUME NEW i \in 1..Len(f), NEW j \in 1..Len(f), i < j
                 PROVE  f[i] < f[j]
      OBVIOUS
    <3>1. i + 1 \in 1..Len(e) /\ j + 1 \in 1..Len(e) /\ i + 1 < j + 1
      BY <1>5, <1>6
    <3>2. e[i + 1] < e[j + 1] /\ e[i + 1] \in Nat /\ e[j + 1] \in Nat
      BY <1>3, <3>1
    <3> QED BY <1>6, <3>2
  <2> QED BY <1>6, <2>1, <2>2, <2>3 DEF Lists
<1> DEFINE before == [n \in 1..Len(e) |-> s[e[n]].msg]
           after == [n \in 1..Len(f) |-> t[f[n]].msg]
<1>9. Messages(s, c) = before /\ Messages(t, c) = after
  BY <1>2, <1>8, MessagesAre
<1>10. /\ before \in Seq(Range(before)) /\ Len(before) = Len(e)
  <2>1. before \in [1..Len(e) -> Range(before)]
    BY DEF Range
  <2> HIDE DEF before
  <2> QED BY <1>3, <2>1, FunctionIsSeq
<1>11. before # << >> /\ Head(before) = s[1].msg
  BY <1>4, <1>10
<1>12. after = Tail(before)
  <2>1. Tail(before) = [n \in 1..(Len(e) - 1) |-> before[n + 1]]
    BY <1>4, <1>10
  <2>2. \A n \in 1..(Len(e) - 1) : before[n + 1] = t[f[n]].msg
    BY <1>5, <1>6, <1>7
  <2> QED BY <1>6, <2>1, <2>2
<1> QED BY <1>9, <1>11, <1>12 DEF t

-----------------------------------------------------------------------------
(* Led implements LedService                                               *)

Shown(led) == [state |-> led.state, value |-> led.value]

\* What a LED shows after a command is what the service promises.
LEMMA CommandShows ==
  ASSUME TypeOK, NEW call \in Calls, NEW led \in Led
  PROVE  Shown(handle_msg(call.msg, led)) = Service!Obeyed(call.msg)
<1> DEFINE msg == call.msg
           blink == [led EXCEPT !.state = "BLINK", !.blink_rate = msg.arg]
           once  == [led EXCEPT !.state = "BLINK_ONCE"]
           idle  == [led EXCEPT !.state = "IDLE"]
<1>1. msg.cmd \in Commands /\ msg.arg \in Nat /\ 0 \in Nat /\ 1 \in Nat
  BY LedConstants
<1>2. /\ blink \in Led /\ once \in Led /\ idle \in Led
      /\ blink.state = "BLINK" /\ once.state = "BLINK_ONCE" /\ idle.state = "IDLE"
  BY <1>1 DEF Led, States
<1>3. /\ msg.cmd = "BLINK" => handle_msg(msg, led) = led_set(blink, 1, msg.arg)
      /\ msg.cmd = "BLINK_ONCE" => handle_msg(msg, led) = led_set(once, 1, msg.arg)
      /\ msg.cmd = "SET" => handle_msg(msg, led) = led_set(idle, msg.arg, 0)
  BY DEF handle_msg
<1>4. /\ msg.cmd = "SET" => Service!Obeyed(msg) = [state |-> "IDLE", value |-> msg.arg]
      /\ msg.cmd # "SET" => Service!Obeyed(msg) = [state |-> msg.cmd, value |-> 1]
  BY DEF Service!Obeyed
<1> HIDE DEF msg, blink, once, idle
<1> DEFINE after == handle_msg(msg, led)
<1>5. CASE msg.cmd = "BLINK"
  <2>1. SetFrom(blink, 1, msg.arg, after)
    BY <1>1, <1>2, <1>3, <1>5, LedSets, Zenon
  <2> HIDE DEF after
  <2>2. Shown(after) = [state |-> "BLINK", value |-> 1]
    BY <1>2, <2>1 DEF SetFrom, Shown
  <2> QED BY <1>4, <1>5, <2>2 DEF after, msg
<1>6. CASE msg.cmd = "BLINK_ONCE"
  <2>1. SetFrom(once, 1, msg.arg, after)
    BY <1>1, <1>2, <1>3, <1>6, LedSets, Zenon
  <2> HIDE DEF after
  <2>2. Shown(after) = [state |-> "BLINK_ONCE", value |-> 1]
    BY <1>2, <2>1 DEF SetFrom, Shown
  <2> QED BY <1>4, <1>6, <2>2 DEF after, msg
<1>7. CASE msg.cmd = "SET"
  <2>1. SetFrom(idle, msg.arg, 0, after)
    BY <1>1, <1>2, <1>3, <1>7, LedSets, Zenon
  <2> HIDE DEF after
  <2>2. Shown(after) = [state |-> "IDLE", value |-> msg.arg]
    BY <1>2, <2>1 DEF SetFrom, Shown
  <2> QED BY <1>4, <1>7, <2>2 DEF after, msg
<1> QED BY <1>1, <1>5, <1>6, <1>7 DEF Commands, msg

\* A LED that is due shows its next phase.
LEMMA TimeoutShows ==
  ASSUME TypeOK, NEW led \in Led, led.state # "IDLE" => led.value \in {0, 1}
  PROVE  Shown(handle_timeout(led)) =
           IF TimedOut(led) THEN Service!NextPhase(Shown(led)) ELSE Shown(led)
<1> DEFINE idle == [led EXCEPT !.state = "IDLE"]
<1>1. idle \in Led /\ idle.state = "IDLE"
  BY DEF Led, States
<1>2. CASE ~TimedOut(led)
  BY <1>2 DEF handle_timeout
<1>3. CASE TimedOut(led) /\ led.state = "BLINK"
  <2> DEFINE value == 1 - led.value
             after == led_set(led, value, led.blink_rate)
  <2>1. value \in Nat /\ led.blink_rate \in Nat
    BY <1>3 DEF TimedOut, Led
  <2>2. handle_timeout(led) = after
    BY <1>3 DEF handle_timeout
  <2> HIDE DEF value
  <2>3. SetFrom(led, value, led.blink_rate, after)
    BY <2>1, LedSets, Zenon
  <2> HIDE DEF after
  <2>5. Shown(after) = [state |-> "BLINK", value |-> value]
    BY <1>3, <2>3 DEF SetFrom, Shown
  <2>6. Service!NextPhase(Shown(led)) = [state |-> "BLINK", value |-> 1 - led.value]
    BY <1>3 DEF Shown, Service!NextPhase
  <2> QED BY <1>3, <2>2, <2>5, <2>6 DEF value
<1>4. CASE TimedOut(led) /\ led.state # "BLINK"
  <2> DEFINE after == led_set(idle, 0, 0)
  <2>1. handle_timeout(led) = after
    BY <1>4 DEF handle_timeout
  <2> HIDE DEF idle
  <2>2. 0 \in Nat
    OBVIOUS
  <2>3. SetFrom(idle, 0, 0, after)
    BY <1>1, <2>2, LedSets, Zenon
  <2> HIDE DEF after
  <2>4. Service!NextPhase(Shown(led)) = [state |-> "IDLE", value |-> 0]
    BY <1>4 DEF Shown, Service!NextPhase
  <2> QED BY <1>1, <1>4, <2>1, <2>3, <2>4 DEF SetFrom, Shown
<1> QED BY <1>2, <1>3, <1>4

\* The service starts with nothing to obey.
LEMMA InitImplements == Init => Service!Init
<1> SUFFICES ASSUME Init PROVE Service!Init
  OBVIOUS
<1>1. Line = << >>
  BY DEF Init, Line
<1>2. ASSUME NEW c \in Clients
      PROVE  OnTheWay(c) = << >>
  <2>1. << >> \in Seq(Nat) /\ Len(<< >>) = 0 /\ Places(<< >>, c) = {}
    BY DEF Places
  <2>2. Lists(<< >>, Places(<< >>, c))
    BY <2>1 DEF Lists
  <2>3. Messages(<< >>, c) = [n \in 1..Len(<< >>) |-> << >>[<< >>[n]].msg]
    BY <2>2, MessagesAre
  <2>4. Messages(<< >>, c) = << >>
    BY <2>1, <2>3
  <2> QED BY <1>1, <2>4 DEF OnTheWay
<1>3. \A l \in Leds : leds[l].state = "IDLE" /\ leds[l].value = 0
  BY DEF Init
<1> QED BY <1>2, <1>3 DEF Service!Init

\* Every step is a step of the service or changes nothing of it.
LEMMA StepImplements ==
  ASSUME TypeOK, BlinksOnOff, QueueDiscipline, [Next]_vars
  PROVE  [Service!Next]_(Service!vars)
<1> DEFINE out   == [c \in Clients |-> OnTheWay(c)]
           shown == [l \in Leds |-> [state |-> leds[l].state, value |-> leds[l].value]]
<1>1. Line \in Seq(Calls) /\ \A call \in Calls : call.client \in Clients
  BY LineType, LedConstants
<1>2. Line' = Line => out' = out
  BY DEF OnTheWay
<1>3. leds' = leds => shown' = shown
  OBVIOUS
<1>4. ASSUME NEW call \in Calls, led_command(call)
      PROVE  Service!Send(call)
  <2>1. PICK k \in 1..(Len(Line) + 1) :
          /\ Joined(Line, Line', call, k)
          /\ \A i \in k..Len(Line) : Line[i].client # call.client
    BY <1>4, CallJoins
  <2>2. Messages(Line', call.client) = Append(Messages(Line, call.client), call.msg)
    BY <1>1, <2>1, JoinedByOwn
  <2>3. \A c \in Clients : c # call.client => Messages(Line', c) = Messages(Line, c)
    BY <1>1, <2>1, JoinedByOther
  <2>4. out' = [out EXCEPT ![call.client] = Append(@, call.msg)]
    BY <1>1, <2>2, <2>3 DEF OnTheWay
  <2>5. shown' = shown
    BY <1>4 DEF led_command
  <2> QED BY <2>4, <2>5 DEF Service!Send
<1>5. CASE LedMessage
  <2> PICK call \in Calls : call = Head(received)
    <3>1. received \in Seq(Calls) /\ Len(received) = 1
      BY <1>5 DEF LedMessage, TypeOK
    <3> QED BY <3>1
  <2> DEFINE c == call.client
             id == call.msg.id
  <2>1. call \in Calls /\ id \in Leds /\ c \in Clients
    BY LedConstants
  <2>2. Line # << >> /\ Line[1] = call /\ Line' = Tail(Line)
    BY <1>5, ThreadTakesFirst DEF LedThread, LedMessage
  <2>3. leds' = [leds EXCEPT ![id] = handle_msg(call.msg, leds[id])]
    BY <1>5 DEF LedMessage
  <2>4. leds[id] \in Led /\ leds \in [Leds -> Led]
    BY <2>1 DEF TypeOK
  <2>5. Shown(handle_msg(call.msg, leds[id])) = Service!Obeyed(call.msg)
    BY <2>1, <2>4, CommandShows
  <2>6. /\ Messages(Line, c) # << >>
        /\ Head(Messages(Line, c)) = call.msg
        /\ Messages(Line', c) = Tail(Messages(Line, c))
    BY <1>1, <2>2, TakenFromOwn
  <2>7. \A d \in Clients : d # c => Messages(Line', d) = Messages(Line, d)
    BY <1>1, <2>2, TakenFromOther
  <2>8. out[c] # << >> /\ Head(out[c]) = call.msg
    BY <2>1, <2>6 DEF OnTheWay
  <2>9. out' = [out EXCEPT ![c] = Tail(@)]
    BY <2>1, <2>6, <2>7 DEF OnTheWay
  <2>10. shown' = [shown EXCEPT ![id] = Service!Obeyed(call.msg)]
    BY <2>1, <2>3, <2>4, <2>5 DEF Shown
  <2>11. Service!Obey(c)
    BY <2>8, <2>9, <2>10 DEF Service!Obey
  <2> QED BY <2>1, <2>11 DEF Service!Next
<1>6. CASE LedTimeout
  <2> PICK due \in SUBSET Leds : due = {l \in Leds : TimedOut(leds[l])}
    OBVIOUS
  <2>1. leds' = [l \in Leds |-> handle_timeout(leds[l])]
    BY <1>6 DEF LedTimeout
  <2>2. ASSUME NEW l \in Leds
        PROVE  shown'[l] = IF l \in due THEN Service!NextPhase(shown[l]) ELSE shown[l]
    <3>1. leds[l] \in Led /\ (leds[l].state # "IDLE" => leds[l].value \in {0, 1})
      BY DEF TypeOK, BlinksOnOff
    <3>2. Shown(handle_timeout(leds[l])) =
            IF TimedOut(leds[l]) THEN Service!NextPhase(Shown(leds[l])) ELSE Shown(leds[l])
      BY <3>1, TimeoutShows
    <3>3. shown[l] = Shown(leds[l]) /\ shown'[l] = Shown(handle_timeout(leds[l]))
      BY <2>1 DEF Shown
    <3> QED BY <3>2, <3>3
  <2>3. shown' = [l \in Leds |-> IF l \in due THEN Service!NextPhase(shown[l]) ELSE shown[l]]
    BY <2>2
  <2>4. \A l \in due : shown[l].state # "IDLE"
    BY DEF TimedOut
  <2>5. Line' = Line
    BY <1>6, ThreadTakesFirst DEF LedThread, LedTimeout
  <2>6. Service!Elapse(due)
    BY <1>2, <2>3, <2>4, <2>5 DEF Service!Elapse
  <2> QED BY <2>6 DEF Service!Next
<1>7. CASE LedStart
  <2>1. Line' = Line
    BY <1>7, ThreadTakesFirst DEF LedThread, LedStart
  <2>2. \A l \in Leds : leds'[l].state = leds[l].state /\ leds'[l].value = leds[l].value
    BY <1>7 DEF LedStart, TypeOK, Led
  <2>3. shown' = shown
    BY <2>2
  <2> QED BY <1>2, <2>1, <2>3 DEF Service!vars
<1>8. CASE GetTimesOut
  BY <1>2, <1>3, <1>8 DEF GetTimesOut, Line, Service!vars
<1>9. CASE Tick \/ UNCHANGED vars
  BY <1>2, <1>3, <1>9 DEF Tick, vars, Line, Service!vars
<1> QED BY <1>4, <1>5, <1>6, <1>7, <1>8, <1>9 DEF Next, LedThread, Service!Next

\* For every queue, set of callers and of messages: a command is obeyed exactly
\* once and in the order of its caller, and no LED changes that was not told to.
THEOREM LedImplementsService == Spec => ImplementsService
<1>1. TypeOK /\ BlinksOnOff /\ QueueDiscipline /\ [Next]_vars => [Service!Next]_(Service!vars)
  BY StepImplements
<1> QED BY <1>1, InitImplements, TypeInvariant, QueueIsDisciplined, PTL
        DEF Spec, ImplementsService, Service!Spec

-----------------------------------------------------------------------------
(* Time *)

\* No timeout was truncated, nor will the next one be.
Untruncated ==
  \A l \in Leds : leds[l].timeout = leds[l].due /\ MaxUptime + leds[l].blink_rate < Modulus

\* The thread does what it has to do in time.
Prompt ==
  /\ pc = "waiting" => uptime <= since + GetTimeout
  /\ pc # "waiting" => uptime <= since + Latency

\* A LED that blinks was not yet due when the wait began, or else the wait
\* followed a message.
WaitBeganBeforeDue ==
  /\ pc = "start" => \A l \in Leds : leds[l].state = "IDLE"
  /\ \A l \in Leds : leds[l].state # "IDLE" =>
       /\ pc = "waiting" => since <= leds[l].due \/ since <= lastMsg
       /\ pc # "waiting" => since <= leds[l].due + GetTimeout \/ since <= lastMsg + GetTimeout

\* Below Modulus, truncation is the identity.
LEMMA NotTruncated ==
  ASSUME NEW n \in Nat, n < Modulus
  PROVE  n % Modulus = n
BY LedConstants

\* What a command does to the due time of a LED.
LEMMA HandleMsgTime ==
  ASSUME NoWrap, TypeOK, NEW call \in Calls, NEW led \in Led,
         MaxUptime + led.blink_rate < Modulus
  PROVE  LET after == handle_msg(call.msg, led)
         IN  after.timeout = after.due /\ MaxUptime + after.blink_rate < Modulus
<1> DEFINE msg == call.msg
           blink == [led EXCEPT !.state = "BLINK", !.blink_rate = msg.arg]
           once  == [led EXCEPT !.state = "BLINK_ONCE"]
           idle  == [led EXCEPT !.state = "IDLE"]
<1>1. /\ msg.cmd \in Commands /\ msg.arg \in Nat
      /\ MaxUptime + msg.arg < Modulus /\ MaxUptime + 0 < Modulus
      /\ uptime \in Nat /\ uptime <= MaxUptime /\ MaxUptime \in Nat /\ Modulus \in Nat
  BY LedConstants DEF NoWrap, TypeOK
<1>2. /\ blink \in Led /\ once \in Led /\ idle \in Led
      /\ blink.blink_rate = msg.arg
      /\ once.blink_rate = led.blink_rate /\ idle.blink_rate = led.blink_rate
  BY <1>1 DEF Led, States
<1>3. /\ msg.cmd = "BLINK" => handle_msg(msg, led) = led_set(blink, 1, msg.arg)
      /\ msg.cmd = "BLINK_ONCE" => handle_msg(msg, led) = led_set(once, 1, msg.arg)
      /\ msg.cmd = "SET" => handle_msg(msg, led) = led_set(idle, msg.arg, 0)
  BY DEF handle_msg
<1> HIDE DEF msg, blink, once, idle
<1>4. ASSUME NEW before \in Led, MaxUptime + before.blink_rate < Modulus,
             NEW value \in Nat, NEW duration \in Nat, MaxUptime + duration < Modulus
      PROVE  /\ led_set(before, value, duration).timeout = led_set(before, value, duration).due
             /\ MaxUptime + led_set(before, value, duration).blink_rate < Modulus
  <2>1. (uptime + duration) % Modulus = uptime + duration
    BY <1>1, <1>4, NotTruncated
  <2> DEFINE after == led_set(before, value, duration)
  <2>2. SetFrom(before, value, duration, after)
    BY <1>4, LedSets, Zenon
  <2> HIDE DEF after
  <2>3. after.timeout = after.due /\ MaxUptime + after.blink_rate < Modulus
    BY <1>4, <2>1, <2>2 DEF SetFrom
  <2> QED BY <2>3 DEF after
<1>5. LET after == handle_msg(msg, led)
      IN  after.timeout = after.due /\ MaxUptime + after.blink_rate < Modulus
  <2>1. CASE msg.cmd = "BLINK"
    BY <1>1, <1>2, <1>3, <1>4, <2>1
  <2>2. CASE msg.cmd = "BLINK_ONCE"
    BY <1>1, <1>2, <1>3, <1>4, <2>2
  <2>3. CASE msg.cmd = "SET"
    BY <1>1, <1>2, <1>3, <1>4, <2>3
  <2> QED BY <1>1, <2>1, <2>2, <2>3 DEF Commands
<1> QED BY <1>5 DEF msg

\* What a timeout does to the due time of a LED.
LEMMA HandleTimeoutTime ==
  ASSUME NoWrap, TypeOK, NEW led \in Led, led.state # "IDLE" => led.value \in {0, 1},
         led.timeout = led.due, MaxUptime + led.blink_rate < Modulus
  PROVE  LET after == handle_timeout(led)
         IN  /\ after.timeout = after.due
             /\ MaxUptime + after.blink_rate < Modulus
             /\ after.state # "IDLE" => uptime <= after.due /\ led.state # "IDLE"
             /\ after.value # led.value => uptime >= led.due
<1> DEFINE idle == [led EXCEPT !.state = "IDLE"]
<1>1. /\ uptime \in Nat /\ uptime <= MaxUptime /\ MaxUptime \in Nat /\ Modulus \in Nat
      /\ uptime < Modulus /\ led.blink_rate \in Nat /\ led.due \in Nat
  BY LedConstants DEF NoWrap, TypeOK, Led
<1>2. uptime % Modulus = uptime
  BY <1>1, NotTruncated
<1>3. CASE ~TimedOut(led)
  <2>1. led.state # "IDLE" => uptime <= led.due
    BY <1>1, <1>2, <1>3 DEF TimedOut
  <2>2. handle_timeout(led) = led
    BY <1>3 DEF handle_timeout
  <2> QED BY <2>1, <2>2
<1>4. CASE TimedOut(led) /\ led.state = "BLINK"
  <2> DEFINE value == 1 - led.value
             rate  == led.blink_rate
             after == led_set(led, value, rate)
  <2>1. value \in Nat /\ rate \in Nat /\ MaxUptime + rate < Modulus
    BY <1>1, <1>4
  <2>2. uptime >= led.due
    BY <1>2, <1>4 DEF TimedOut
  <2>3. handle_timeout(led) = after
    BY <1>4 DEF handle_timeout
  <2>4. uptime + rate \in Nat /\ (uptime + rate) % Modulus = uptime + rate
    BY <1>1, <2>1, NotTruncated
  <2> HIDE DEF value
  <2>5. SetFrom(led, value, rate, after)
    BY <2>1, LedSets, Zenon
  <2> HIDE DEF after, rate
  <2>6. after.timeout = (uptime + rate) % Modulus /\ after.due = uptime + rate
    BY <2>5 DEF SetFrom
  <2>7. after.blink_rate = rate
    BY <2>5 DEF SetFrom, rate
  <2> QED BY <1>1, <1>4, <2>1, <2>2, <2>3, <2>4, <2>6, <2>7
<1>5. CASE TimedOut(led) /\ led.state # "BLINK"
  <2> DEFINE after == led_set(idle, 0, 0)
  <2>1. /\ idle \in Led /\ idle.state = "IDLE" /\ idle.blink_rate = led.blink_rate
        /\ 0 \in Nat
    BY DEF Led, States
  <2>2. uptime >= led.due
    BY <1>2, <1>5 DEF TimedOut
  <2>3. handle_timeout(led) = after
    BY <1>5 DEF handle_timeout
  <2> HIDE DEF idle
  <2>4. SetFrom(idle, 0, 0, after)
    BY <2>1, LedSets, Zenon
  <2> HIDE DEF after
  <2>5. after.timeout = (uptime + 0) % Modulus /\ after.due = uptime + 0
    BY <2>4 DEF SetFrom
  <2>6. after.blink_rate = led.blink_rate
    BY <2>1, <2>4 DEF SetFrom
  <2>7. after.state = "IDLE"
    BY <2>1, <2>4 DEF SetFrom
  <2> QED BY <1>1, <1>2, <2>2, <2>3, <2>5, <2>6, <2>7
<1> QED BY <1>3, <1>4, <1>5

TimeInv == Untruncated /\ Prompt /\ WaitBeganBeforeDue

\* The timing invariant holds at the start.
LEMMA InitTimeInv == NoWrap /\ Init => TimeInv
<1> SUFFICES ASSUME NoWrap, Init PROVE TimeInv
  OBVIOUS
<1>1. \A l \in Leds : leds[l].state = "IDLE" /\ leds[l].timeout = leds[l].due
                      /\ leds[l].blink_rate = 0
  BY DEF Init
<1>2. Untruncated
  BY <1>1, LedConstants DEF NoWrap, Untruncated
<1> QED BY <1>1, <1>2, LedConstants DEF Init, TimeInv, Prompt, WaitBeganBeforeDue

\* Every step keeps the LED thread prompt: Tick stops where it must act.
LEMMA StepPrompt == TypeOK /\ Prompt /\ [Next]_vars => Prompt'
<1> SUFFICES ASSUME TypeOK, Prompt, [Next]_vars PROVE Prompt'
  OBVIOUS
<1>1. /\ uptime \in Nat /\ since \in Nat
      /\ GetTimeout \in Nat /\ Latency \in Nat
  BY LedConstants DEF TypeOK
<1>2. CASE LedStart \/ LedMessage \/ LedTimeout
  <2>1. since' = uptime /\ uptime' = uptime
    BY <1>2 DEF LedStart, LedMessage, LedTimeout, k_msgq_get
  <2> QED BY <1>1, <2>1 DEF Prompt
<1>3. ASSUME NEW call \in Calls, led_command(call) PROVE Prompt'
  <2>1. uptime' = uptime
    BY <1>3 DEF led_command
  <2>2. CASE PutWakes(call)
    BY <1>1, <2>1, <2>2 DEF PutWakes, Prompt
  <2>3. CASE PutStores(call) \/ PutBlocks(call)
    BY <2>1, <2>3 DEF PutStores, PutBlocks, Prompt
  <2> QED BY <1>3, <2>2, <2>3 DEF led_command
<1>4. CASE GetTimesOut
  BY <1>1, <1>4 DEF GetTimesOut, Prompt
<1>5. CASE Tick
  BY <1>1, <1>5 DEF Tick, InTime, Prompt
<1>6. CASE UNCHANGED vars
  BY <1>6 DEF vars, Prompt
<1> QED BY <1>2, <1>3, <1>4, <1>5, <1>6 DEF Next, LedThread

\* Every step keeps what is said of due times.
LEMMA StepTimeInv ==
  ASSUME NoWrap, TypeOK, TypeOK', BlinksOnOff, TimeInv, [Next]_vars
  PROVE  Untruncated' /\ WaitBeganBeforeDue'
<1> USE DEF TimeInv
<1>1. /\ uptime \in Nat /\ since \in Nat /\ lastMsg \in Nat
      /\ GetTimeout \in Nat /\ Latency \in Nat
      /\ \A l \in Leds : leds[l] \in Led /\ leds[l].due \in Nat
      /\ \A l \in Leds : leds'[l] \in Led /\ leds'[l].due \in Nat
  <2>1. \A led \in Led : led.due \in Nat
    BY DEF Led
  <2>2. leds \in [Leds -> Led] /\ leds' \in [Leds -> Led]
    BY DEF TypeOK
  <2> QED BY <2>1, <2>2, LedConstants DEF TypeOK
<1>2. ASSUME NEW call \in Calls, led_command(call)
      PROVE  Untruncated' /\ WaitBeganBeforeDue'
  <2>1. UNCHANGED <<uptime, leds, lastMsg>>
    BY <1>2 DEF led_command
  <2>2. Untruncated'
    BY <2>1 DEF Untruncated
  <2>3. CASE PutWakes(call)
    <3>1. pc = "waiting" /\ pc' = "message" /\ since' = uptime
      BY <2>3 DEF PutWakes
    <3>2. uptime <= since + GetTimeout
      BY <3>1 DEF Prompt
    <3>3. ASSUME NEW l \in Leds, leds[l].state # "IDLE"
          PROVE  since' <= leds[l].due + GetTimeout \/ since' <= lastMsg + GetTimeout
      <4>1. since <= leds[l].due \/ since <= lastMsg
        BY <3>1, <3>3 DEF WaitBeganBeforeDue
      <4> QED BY <1>1, <3>1, <3>2, <4>1
    <3>4. WaitBeganBeforeDue'
      BY <2>1, <3>1, <3>3 DEF WaitBeganBeforeDue
    <3> QED BY <2>2, <3>4
  <2>4. CASE PutStores(call) \/ PutBlocks(call)
    <3>1. UNCHANGED <<pc, since>>
      BY <2>4 DEF PutStores, PutBlocks
    <3> QED BY <2>1, <2>2, <3>1 DEF WaitBeganBeforeDue
  <2> QED BY <1>2, <2>3, <2>4 DEF led_command
<1>3. CASE LedStart
  <2>1. \A l \in Leds : /\ leds'[l].state = leds[l].state /\ leds'[l].timeout = leds[l].timeout
                        /\ leds'[l].due = leds[l].due
                        /\ leds'[l].blink_rate = leds[l].blink_rate
    BY <1>1, <1>3 DEF LedStart, Led
  <2>2. Untruncated'
    BY <2>1 DEF Untruncated
  <2>3. \A l \in Leds : leds'[l].state = "IDLE"
    BY <1>3, <2>1 DEF LedStart, WaitBeganBeforeDue
  <2> QED BY <2>2, <2>3 DEF WaitBeganBeforeDue
<1>4. CASE LedMessage
  <2> DEFINE call == Head(received)
             id == call.msg.id
             after == handle_msg(call.msg, leds[id])
  <2>1. call \in Calls /\ id \in Leds
    <3>1. received \in Seq(Calls) /\ Len(received) = 1
      BY <1>4 DEF LedMessage, TypeOK
    <3>2. call \in Calls
      BY <3>1
    <3> QED BY <3>2, LedConstants
  <2>2. leds' = [leds EXCEPT ![id] = after]
    BY <1>4 DEF LedMessage
  <2>3. after.timeout = after.due /\ MaxUptime + after.blink_rate < Modulus
    BY <1>1, <2>1, HandleMsgTime DEF Untruncated
  <2> HIDE DEF after, id
  <2>4. Untruncated'
    BY <2>1, <2>2, <2>3 DEF Untruncated, TypeOK
  <2>5. since' = uptime /\ lastMsg' = uptime /\ pc' # "start"
    BY <1>4 DEF LedMessage, k_msgq_get
  <2>6. WaitBeganBeforeDue'
    BY <1>1, <2>5 DEF WaitBeganBeforeDue
  <2> QED BY <2>4, <2>6
<1>5. CASE GetTimesOut
  <2>1. /\ UNCHANGED <<uptime, leds, lastMsg>>
        /\ pc = "waiting" /\ pc' = "timeout" /\ since' = since + GetTimeout
    BY <1>5 DEF GetTimesOut
  <2>2. Untruncated'
    BY <2>1 DEF Untruncated
  <2>3. ASSUME NEW l \in Leds, leds[l].state # "IDLE"
        PROVE  since' <= leds[l].due + GetTimeout \/ since' <= lastMsg + GetTimeout
    <3>1. since <= leds[l].due \/ since <= lastMsg
      BY <2>1, <2>3 DEF WaitBeganBeforeDue
    <3> QED BY <1>1, <2>1, <3>1
  <2>4. WaitBeganBeforeDue'
    BY <2>1, <2>3 DEF WaitBeganBeforeDue
  <2> QED BY <2>2, <2>4
<1>6. CASE LedTimeout
  <2>1. leds' = [l \in Leds |-> handle_timeout(leds[l])]
    BY <1>6 DEF LedTimeout
  <2>2. since' = uptime /\ pc' # "start"
    BY <1>6 DEF LedTimeout, k_msgq_get
  <2>3. ASSUME NEW l \in Leds
        PROVE  /\ leds'[l].timeout = leds'[l].due
               /\ MaxUptime + leds'[l].blink_rate < Modulus
               /\ leds'[l].state # "IDLE" => uptime <= leds'[l].due
    BY <1>1, <2>1, HandleTimeoutTime DEF Untruncated, BlinksOnOff
  <2>4. Untruncated'
    BY <2>3 DEF Untruncated
  <2>5. WaitBeganBeforeDue'
    BY <1>1, <2>2, <2>3 DEF WaitBeganBeforeDue
  <2> QED BY <2>4, <2>5
<1>7. CASE Tick
  BY <1>7 DEF Tick, Untruncated, WaitBeganBeforeDue
<1>8. CASE UNCHANGED vars
  BY <1>8 DEF vars, Untruncated, WaitBeganBeforeDue
<1> QED BY <1>2, <1>3, <1>4, <1>5, <1>6, <1>7, <1>8 DEF Next, LedThread

\* As long as the clock has not wrapped, no LED is overdue by more than one turn
\* of led_thread that got no message.
THEOREM TimeInvHolds == ASSUME NoWrap PROVE Spec => []TimeInv
<1>1. Init => TimeInv
  BY InitTimeInv
<1>2. TypeOK /\ TypeOK' /\ BlinksOnOff /\ TimeInv /\ [Next]_vars => TimeInv'
  BY StepPrompt, StepTimeInv DEF TimeInv
<1> QED BY <1>1, <1>2, TypeInvariant, PTL DEF Spec

\* The skew that led_thread's comment accepts is bounded, as long as no message
\* comes, by one wait of k_msgq_get and one latency.
THEOREM BlinkingIsPunctual == ASSUME NoWrap PROVE Spec => []PunctualWhenQuiet
<1>1. TypeOK /\ TimeInv => PunctualWhenQuiet
  <2> SUFFICES ASSUME TypeOK, TimeInv, NEW l \in Leds, leds[l].state # "IDLE"
               PROVE  \/ uptime <= leds[l].due + GetTimeout + Latency
                      \/ uptime <= lastMsg + GetTimeout + Latency
    BY DEF PunctualWhenQuiet
  <2>1. /\ uptime \in Nat /\ since \in Nat /\ lastMsg \in Nat
        /\ GetTimeout \in Nat /\ Latency \in Nat /\ leds[l].due \in Nat
    BY LedConstants DEF TypeOK, Led
  <2>2. CASE pc = "waiting"
    BY <2>1, <2>2 DEF TimeInv, Prompt, WaitBeganBeforeDue
  <2>3. CASE pc # "waiting"
    BY <2>1, <2>3 DEF TimeInv, Prompt, WaitBeganBeforeDue
  <2> QED BY <2>2, <2>3
<1> QED BY <1>1, TypeCorrect, TimeInvHolds, PTL

=============================================================================
