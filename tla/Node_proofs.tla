---------------------------- MODULE Node_proofs ----------------------------
(***************************************************************************)
(* Theorems about Node, for every queue length, all periods and whatever   *)
(* set of sensors is active.  What they need of the LED service is taken   *)
(* from Led_proofs: every step of Node is a step of Led, or none.          *)
(***************************************************************************)
EXTENDS Node, SequenceTheorems, TLAPS

LedPart == INSTANCE Led_proofs WITH
  Leds <- {Red, Green}, Clients <- Threads, Rank <- ThreadRank,
  Calls <- AllCalls, pc <- ledPc

-----------------------------------------------------------------------------
(* The LED service in Node                                                 *)

\* The calls of the source, by the LED they command.
LEMMA CallFacts ==
  /\ AllCalls \subseteq [client : Threads,
       msg : [id : {Red, Green}, cmd : {"BLINK", "BLINK_ONCE", "SET"}, arg : Nat]]
  /\ \A call \in AllCalls : call.msg.id = Red <=> call.client \in {"pir", "driveway"}
  /\ \A call \in AllCalls : call.msg.id = Green =>
       call.client = "accel" \/ call.msg.cmd = "BLINK"
  /\ MainCall.client = "main" /\ AccelCall.client = "accel"
  /\ \A v : PirCall(v).client = "pir" /\ DrivewayCall(v).client = "driveway"
<1>1. GreenRate \in Nat /\ RedRate \in Nat /\ HalfSecond \in Nat
  BY NodeConstants
<1>2. Red # Green
  BY DEF Red, Green
<1> QED BY <1>1, <1>2
        DEF AllCalls, Threads, MainCall, AccelCall, PirCall, DrivewayCall, Call

\* Led's assumption holds of its instance.
LEMMA LedAssumed == LedPart!LedConstants
<1>1. ThreadRank \in [Threads -> Int]
  BY DEF ThreadRank
<1> QED BY <1>1, CallFacts, NodeConstants DEF LedPart!LedConstants, LedPart!Commands

\* The two instances of Led take the same steps.
LEMMA SameSteps ==
  /\ LedService!Init <=> LedPart!Init
  /\ \A call : LedService!led_command(call) <=> LedPart!led_command(call)
  /\ LedService!LedThread <=> LedPart!LedThread
  /\ LedService!Tick <=> LedPart!Tick
  /\ \A c : LedService!Blocked(c) <=> LedPart!Blocked(c)
  /\ LedService!InTime <=> LedPart!InTime
<1>1. LedService!Init <=> LedPart!Init
  BY Zenon DEF LedService!Init, LedPart!Init
<1>2. \A c : LedService!Blocked(c) <=> LedPart!Blocked(c)
  BY Zenon DEF LedService!Blocked, LedPart!Blocked
<1>3. \A call : LedService!led_command(call) <=> LedPart!led_command(call)
  <2>1. \A s, k, e : LedService!InsertAt(s, k, e) = LedPart!InsertAt(s, k, e)
    BY Zenon DEF LedService!InsertAt, LedPart!InsertAt
  <2>2. \A call : LedService!PutBlocks(call) <=> LedPart!PutBlocks(call)
    BY <2>1, Zenon DEF LedService!PutBlocks, LedPart!PutBlocks
  <2>3. \A call : LedService!PutWakes(call) <=> LedPart!PutWakes(call)
    BY Zenon DEF LedService!PutWakes, LedPart!PutWakes
  <2>4. \A call : LedService!PutStores(call) <=> LedPart!PutStores(call)
    BY Zenon DEF LedService!PutStores, LedPart!PutStores
  <2> QED BY <1>2, <2>2, <2>3, <2>4, Zenon DEF LedService!led_command, LedPart!led_command
<1>4. LedService!LedThread <=> LedPart!LedThread
  <2>1. LedService!k_msgq_get <=> LedPart!k_msgq_get
    BY Zenon DEF LedService!k_msgq_get, LedPart!k_msgq_get
  <2>2. \A led, value, duration :
          LedService!led_set(led, value, duration) = LedPart!led_set(led, value, duration)
    BY Zenon DEF LedService!led_set, LedPart!led_set
  <2>3. \A msg, led : LedService!handle_msg(msg, led) = LedPart!handle_msg(msg, led)
    BY <2>2, Zenon DEF LedService!handle_msg, LedPart!handle_msg
  <2>4. \A led : LedService!handle_timeout(led) = LedPart!handle_timeout(led)
    <3>1. \A led : LedService!TimedOut(led) <=> LedPart!TimedOut(led)
      BY Zenon DEF LedService!TimedOut, LedPart!TimedOut
    <3> QED BY <2>2, <3>1, Zenon DEF LedService!handle_timeout, LedPart!handle_timeout
  <2>5. LedService!LedStart <=> LedPart!LedStart
    BY <2>1, Zenon DEF LedService!LedStart, LedPart!LedStart
  <2>6. LedService!LedMessage <=> LedPart!LedMessage
    BY <2>1, <2>3, Zenon DEF LedService!LedMessage, LedPart!LedMessage
  <2>7. LedService!LedTimeout <=> LedPart!LedTimeout
    BY <2>1, <2>4, Zenon DEF LedService!LedTimeout, LedPart!LedTimeout
  <2>8. LedService!GetTimesOut <=> LedPart!GetTimesOut
    BY Zenon DEF LedService!GetTimesOut, LedPart!GetTimesOut
  <2> QED BY <2>5, <2>6, <2>7, <2>8, Zenon DEF LedService!LedThread, LedPart!LedThread
<1>5. LedService!InTime <=> LedPart!InTime
  BY Zenon DEF LedService!InTime, LedPart!InTime
<1>6. LedService!Tick <=> LedPart!Tick
  BY <1>5, Zenon DEF LedService!Tick, LedPart!Tick
<1> QED BY <1>1, <1>2, <1>3, <1>4, <1>5, <1>6

\* What the sensors may have seen.
Seen ==
  /\ pir \in {0, 1} /\ last_pir \in {0, 1, 2}
  /\ ds \in {0, 1} /\ last_ds \in {0, 1} /\ dsSeen \in BOOLEAN

\* The sensors have seen nothing strange at the start, nor after any step.
LEMMA InitSeen == Init => Seen
BY DEF Init, Seen, Pir!Init, Driveway!Init, Pir!Levels, Driveway!Levels

LEMMA StepSeen == Seen /\ [Next]_vars => Seen'
<1> SUFFICES ASSUME Seen, [Next]_vars PROVE Seen'
  OBVIOUS
<1> USE DEF Seen
<1>1. CASE CtMainStarts \/ CtMainEnds
  BY <1>1 DEF CtMainStarts, CtMainEnds, Driveway!Start, Pir!Start, pirVars, dsVars
<1>2. CASE PirMovesPin \/ PirSampleSame \/ PirSampleEdge \/ PirReport
  BY <1>2 DEF PirMovesPin, PirSampleSame, PirSampleEdge, PirReport, dsVars,
              Pir!PinChange, Pir!SampleSame, Pir!SampleEdge, Pir!Report
<1>3. CASE DrivewayMovesPin \/ DrivewaySampleSame \/ DrivewayReport
  BY <1>3 DEF DrivewayMovesPin, DrivewaySampleSame, DrivewayReport, pirVars,
              Driveway!PinChange, Driveway!SampleSame, Driveway!Report
<1>4. CASE DrivewaySampleEdge
  <2>1. dsSeen' = TRUE /\ UNCHANGED <<pir, last_pir, ds>> /\ last_ds' = ds
    BY <1>4 DEF DrivewaySampleEdge, pirVars, Driveway!SampleEdge
  <2> QED BY <2>1
<1>5. CASE AccelStarts \/ AccelMoved \/ AccelUplink \/ HasMoved
  BY <1>5 DEF AccelStarts, AccelMoved, AccelUplink, HasMoved, pirVars, dsVars
<1>6. CASE LedRuns \/ Tick \/ TimeIsOver \/ UNCHANGED vars
  BY <1>6 DEF LedRuns, Tick, TimeIsOver, vars, pirVars, dsVars
<1> QED BY <1>1, <1>2, <1>3, <1>4, <1>5, <1>6 DEF Next

\* A call of a sensor says which level it sees now and did not see before.
SaysWhatItSees(call) ==
  /\ IF call.client = "pir"
     THEN pir # last_pir /\ last_pir' = pir /\ call = PirCall(pir)
     ELSE last_pir' = last_pir
  /\ IF call.client = "driveway"
     THEN ds # last_ds /\ last_ds' = ds /\ dsSeen' = TRUE /\ call = DrivewayCall(ds)
     ELSE last_ds' = last_ds /\ dsSeen' = dsSeen

\* What a step does to the LED service, and what it has to do with the sensors:
\* a sensor that has seen a level says so in the same step.
LEMMA StepOfLed ==
  ASSUME Seen, [Next]_vars
  PROVE  \/ \E call \in AllCalls :
              /\ LedPart!led_command(call)
              /\ SaysWhatItSees(call)
         \/ LedPart!LedThread /\ UNCHANGED <<last_pir, last_ds, dsSeen>>
         \/ (LedPart!Tick \/ UNCHANGED LedPart!vars) /\ UNCHANGED <<last_pir, last_ds, dsSeen>>
<1>1. /\ MainCall \in AllCalls /\ AccelCall \in AllCalls
      /\ PirCall(pir) \in AllCalls /\ DrivewayCall(ds) \in AllCalls
  BY DEF AllCalls, Seen
<1>2. CASE CtMainEnds
  <2>1. UNCHANGED <<last_pir, last_ds, dsSeen>>
    BY <1>2 DEF CtMainEnds, Pir!Start, dsVars
  <2>2. LedPart!led_command(MainCall)
    BY <1>2, SameSteps DEF CtMainEnds
  <2> QED BY <1>1, <2>1, <2>2, CallFacts DEF SaysWhatItSees
<1>3. CASE PirSampleEdge
  <2>1. pir # last_pir /\ last_pir' = pir /\ UNCHANGED <<last_ds, dsSeen>>
    BY <1>3 DEF PirSampleEdge, Pir!SampleEdge, dsVars
  <2>2. PICK call \in AllCalls : call = PirCall(pir)
    BY <1>1
  <2>3. LedPart!led_command(call)
    BY <1>3, <2>2, SameSteps DEF PirSampleEdge
  <2>4. call.client = "pir"
    BY <2>2, CallFacts
  <2> QED BY <2>1, <2>2, <2>3, <2>4 DEF SaysWhatItSees
<1>4. CASE DrivewaySampleEdge
  <2>1. ds # last_ds /\ last_ds' = ds /\ dsSeen' = TRUE /\ last_pir' = last_pir
    BY <1>4 DEF DrivewaySampleEdge, Driveway!SampleEdge, pirVars
  <2>2. PICK call \in AllCalls : call = DrivewayCall(ds)
    BY <1>1
  <2>3. LedPart!led_command(call)
    BY <1>4, <2>2, SameSteps DEF DrivewaySampleEdge
  <2>4. call.client = "driveway"
    BY <2>2, CallFacts
  <2> QED BY <2>1, <2>2, <2>3, <2>4 DEF SaysWhatItSees
<1>5. CASE AccelMoved
  <2>1. UNCHANGED <<last_pir, last_ds, dsSeen>>
    BY <1>5 DEF AccelMoved, pirVars, dsVars
  <2>2. LedPart!led_command(AccelCall)
    BY <1>5, SameSteps DEF AccelMoved
  <2> QED BY <1>1, <2>1, <2>2, CallFacts DEF SaysWhatItSees
<1>6. CASE LedRuns
  BY <1>6, SameSteps DEF LedRuns, pirVars, dsVars
<1>7. CASE Tick
  <2>1. LedPart!Tick
    <3>1. LedService!Tick
      BY <1>7 DEF Tick, ledVars, LedService!Tick
    <3> QED BY <3>1, SameSteps
  <2> QED BY <1>7, <2>1 DEF Tick, pirVars, dsVars
<1>8. CASE CtMainStarts
  BY <1>8 DEF CtMainStarts, Driveway!Start, pirVars, ledVars, LedPart!vars
<1>9. CASE PirMovesPin \/ PirSampleSame \/ PirReport
  BY <1>9 DEF PirMovesPin, PirSampleSame, PirReport, dsVars, ledVars, LedPart!vars,
              Pir!PinChange, Pir!SampleSame, Pir!Report
<1>10. CASE DrivewayMovesPin \/ DrivewaySampleSame \/ DrivewayReport
  BY <1>10 DEF DrivewayMovesPin, DrivewaySampleSame, DrivewayReport, pirVars, ledVars,
               LedPart!vars, Driveway!PinChange, Driveway!SampleSame, Driveway!Report
<1>11. CASE AccelStarts \/ AccelUplink \/ HasMoved
  BY <1>11 DEF AccelStarts, AccelUplink, HasMoved, pirVars, dsVars, ledVars, LedPart!vars
<1>12. CASE TimeIsOver \/ UNCHANGED vars
  BY <1>12 DEF TimeIsOver, vars, pirVars, dsVars, ledVars, LedPart!vars
<1> QED BY <1>2, <1>3, <1>4, <1>5, <1>6, <1>7, <1>8, <1>9, <1>10, <1>11, <1>12 DEF Next

\* What Led_proofs knows of every state of the LED service.
LedInv == LedPart!TypeOK /\ LedPart!BlinksOnOff /\ LedPart!QueueDiscipline

LEMMA InitLedInv == Init => LedInv
<1> SUFFICES ASSUME Init PROVE LedInv
  OBVIOUS
<1>1. LedPart!Init
  BY SameSteps DEF Init
<1>2. LedPart!TypeOK /\ LedPart!BlinksOnOff
  BY <1>1, LedAssumed, LedPart!InitTypeOK
<1>3. LedPart!QueueDiscipline
  BY <1>1 DEF LedPart!Init, LedPart!QueueDiscipline
<1> QED BY <1>2, <1>3 DEF LedInv

LEMMA StepOfNodeIsOfLed == Seen /\ [Next]_vars => [LedPart!Next]_(LedPart!vars)
<1> SUFFICES ASSUME Seen, [Next]_vars PROVE [LedPart!Next]_(LedPart!vars)
  OBVIOUS
<1> QED BY StepOfLed DEF LedPart!Next

LEMMA StepLedInv == Seen /\ LedInv /\ [Next]_vars => LedInv'
<1> SUFFICES ASSUME Seen, LedInv, [Next]_vars PROVE LedInv'
  OBVIOUS
<1>1. [LedPart!Next]_(LedPart!vars)
  BY StepOfNodeIsOfLed
<1>2. LedPart!TypeOK' /\ LedPart!BlinksOnOff'
  BY <1>1, LedAssumed, LedPart!StepTypeOK DEF LedInv
<1>3. LedPart!QueueDiscipline'
  BY <1>1, LedAssumed, LedPart!StepDiscipline DEF LedInv
<1> QED BY <1>2, <1>3 DEF LedInv

LEMMA LedInvHolds == Spec => [](Seen /\ LedInv)
BY InitSeen, StepSeen, InitLedInv, StepLedInv, PTL DEF Spec

\* In the firmware the LED service runs as Led says: what is proved of Led holds
\* of it, with the callers of the source and for every queue length.
THEOREM LedAsSpecified == Spec => LedService!Spec
<1>1. LedPart!vars = LedService!vars /\ (LedPart!Next <=> LedService!Next)
  BY SameSteps, Zenon DEF LedPart!vars, LedService!vars, LedPart!Next, LedService!Next
<1>2. ASSUME Seen, [Next]_vars PROVE [LedService!Next]_(LedService!vars)
  <2>1. [LedPart!Next]_(LedPart!vars)
    BY <1>2, StepOfNodeIsOfLed
  <2>2. CASE LedPart!Next
    BY <1>1, <2>2
  <2>3. CASE UNCHANGED LedPart!vars
    BY <2>3 DEF LedPart!vars, LedService!vars
  <2> QED BY <2>1, <2>2, <2>3
<1>3. Init => LedService!Init
  BY DEF Init
<1> QED BY <1>2, <1>3, LedInvHolds, PTL DEF Spec, LedService!Spec

-----------------------------------------------------------------------------
(* The red LED                                                             *)

Line == LedPart!Line

\* Place i holds the last call of client c in a line.
IsLast(line, c, i) ==
  /\ line[i].client = c
  /\ \A j \in DOMAIN line : line[j].client = c => j <= i

\* A call that joins behind the others of its client is the client's last, and
\* leaves the last calls of the others what they are.
LEMMA JoinedIsLast ==
  ASSUME NEW s \in Seq(AllCalls), NEW t, NEW call \in AllCalls, NEW k,
         LedPart!Joined(s, t, call, k),
         \A i \in k..Len(s) : s[i].client # call.client,
         NEW c, NEW p \in DOMAIN t, IsLast(t, c, p)
  PROVE  IF c = call.client THEN t[p] = call
         ELSE \E q \in DOMAIN s : IsLast(s, c, q) /\ s[q] = t[p]
<1>1. /\ k \in 1..(Len(s) + 1) /\ Len(s) \in Nat
      /\ DOMAIN t = 1..(Len(s) + 1) /\ DOMAIN s = 1..Len(s)
      /\ \A i \in 1..(Len(s) + 1) :
           t[i] = IF i < k THEN s[i] ELSE IF i = k THEN call ELSE s[i - 1]
  BY DEF LedPart!Joined
<1>2. t[k] = call
  BY <1>1
<1>3. CASE c = call.client
  <2>1. k <= p
    BY <1>1, <1>2, <1>3 DEF IsLast
  <2>2. CASE k < p
    <3>1. t[p] = s[p - 1] /\ p - 1 \in k..Len(s)
      BY <1>1, <2>2
    <3> QED BY <1>3, <3>1 DEF IsLast
  <2> QED BY <1>1, <1>2, <1>3, <2>1, <2>2
<1>4. CASE c # call.client
  <2>1. p # k
    BY <1>2, <1>4 DEF IsLast
  <2> DEFINE q == IF p < k THEN p ELSE p - 1
  <2>2. q \in DOMAIN s /\ s[q] = t[p]
    BY <1>1, <2>1
  <2>3. ASSUME NEW j \in DOMAIN s, s[j].client = c PROVE j <= q
    <3> DEFINE i == IF j < k THEN j ELSE j + 1
    <3>1. i \in DOMAIN t /\ t[i] = s[j]
      BY <1>1, <2>3
    <3>2. i <= p
      BY <2>3, <3>1 DEF IsLast
    <3> QED BY <1>1, <2>1, <3>2
  <2>4. s[q].client = c
    BY <2>2 DEF IsLast
  <2> HIDE DEF q
  <2>5. IsLast(s, c, q)
    BY <2>3, <2>4 DEF IsLast
  <2> QED BY <1>4, <2>2, <2>5
<1> QED BY <1>3, <1>4

\* Taking the first call of a line leaves the last calls what they are.
LEMMA TailIsLast ==
  ASSUME NEW s \in Seq(AllCalls), s # << >>, NEW c,
         NEW p \in DOMAIN Tail(s), IsLast(Tail(s), c, p)
  PROVE  p + 1 \in DOMAIN s /\ IsLast(s, c, p + 1) /\ s[p + 1] = Tail(s)[p]
<1>1. /\ Len(s) \in Nat /\ DOMAIN s = 1..Len(s) /\ DOMAIN Tail(s) = 1..(Len(s) - 1)
      /\ \A i \in 1..(Len(s) - 1) : Tail(s)[i] = s[i + 1]
  OBVIOUS
<1>2. ASSUME NEW j \in DOMAIN s, s[j].client = c PROVE j <= p + 1
  <2>1. CASE j = 1
    BY <1>1, <2>1
  <2>2. CASE j # 1
    <3>1. j - 1 \in DOMAIN Tail(s) /\ Tail(s)[j - 1] = s[j]
      BY <1>1, <2>2
    <3>2. j - 1 <= p
      BY <1>2, <3>1 DEF IsLast
    <3> QED BY <1>1, <3>2
  <2> QED BY <2>1, <2>2
<1>3. p + 1 \in DOMAIN s /\ s[p + 1] = Tail(s)[p]
  BY <1>1
<1> QED BY <1>2, <1>3 DEF IsLast

\* Whatever is in a line stays in it when a call joins, and the call is in it.
LEMMA JoinedKeeps ==
  ASSUME NEW s \in Seq(AllCalls), NEW t, NEW call \in AllCalls, NEW k,
         LedPart!Joined(s, t, call, k)
  PROVE  /\ \E p \in DOMAIN t : t[p] = call
         /\ \A i \in DOMAIN s : \E p \in DOMAIN t : t[p] = s[i]
<1>1. /\ k \in 1..(Len(s) + 1) /\ Len(s) \in Nat
      /\ DOMAIN t = 1..(Len(s) + 1) /\ DOMAIN s = 1..Len(s)
      /\ \A i \in 1..(Len(s) + 1) :
           t[i] = IF i < k THEN s[i] ELSE IF i = k THEN call ELSE s[i - 1]
  BY DEF LedPart!Joined
<1>2. t[k] = call /\ k \in DOMAIN t
  BY <1>1
<1>3. ASSUME NEW i \in DOMAIN s PROVE \E p \in DOMAIN t : t[p] = s[i]
  <2> DEFINE p == IF i < k THEN i ELSE i + 1
  <2>1. p \in DOMAIN t /\ t[p] = s[i]
    BY <1>1
  <2> HIDE DEF p
  <2> QED BY <2>1
<1> QED BY <1>2, <1>3

\* The last call of each sensor in the line says what the sensor last saw.
UpToDate ==
  /\ \A i \in DOMAIN Line :
       IsLast(Line, "pir", i) => last_pir # 2 /\ Line[i] = PirCall(last_pir)
  /\ \A i \in DOMAIN Line :
       IsLast(Line, "driveway", i) => dsSeen /\ Line[i] = DrivewayCall(last_ds)

\* What a step of Node does to the line and to what the sensors have seen.
LineStep ==
  \/ \E call \in AllCalls, k \in 1..(Len(Line) + 1) :
       /\ LedPart!led_command(call)
       /\ LedPart!Joined(Line, Line', call, k)
       /\ \A i \in k..Len(Line) : Line[i].client # call.client
       /\ SaysWhatItSees(call)
  \/ /\ LedPart!LedMessage
     /\ Line # << >> /\ Line[1] = Head(received) /\ Line' = Tail(Line)
     /\ UNCHANGED <<last_pir, last_ds, dsSeen>>
  \/ /\ LedPart!LedThread /\ ~LedPart!LedMessage
     /\ UNCHANGED <<Line, last_pir, last_ds, dsSeen>>
  \/ UNCHANGED <<leds, received, ledPc, Line, last_pir, last_ds, dsSeen>>

LEMMA StepIsLineStep ==
  ASSUME Seen, LedInv, [Next]_vars
  PROVE  Line \in Seq(AllCalls) /\ LineStep
<1>1. Line \in Seq(AllCalls)
  BY LedAssumed, LedPart!LineType DEF LedInv, Line
<1>2. ASSUME NEW call \in AllCalls,
             LedPart!led_command(call),
             SaysWhatItSees(call)
      PROVE  LineStep
  <2>1. PICK k \in 1..(Len(Line) + 1) :
          /\ LedPart!Joined(Line, Line', call, k)
          /\ \A i \in k..Len(Line) : Line[i].client # call.client
    BY <1>2, LedAssumed, LedPart!CallJoins DEF LedInv, Line
  <2> QED BY <1>2, <2>1 DEF LineStep
<1>3. ASSUME LedPart!LedThread, UNCHANGED <<last_pir, last_ds, dsSeen>> PROVE LineStep
  <2>1. /\ ledPc = "message" => /\ LedPart!LedMessage
                                /\ Line # << >> /\ Line[1] = Head(received)
                                /\ Line' = Tail(Line)
        /\ ledPc # "message" => ~LedPart!LedMessage /\ Line' = Line
    BY <1>3, LedAssumed, LedPart!ThreadTakesFirst DEF LedInv, Line
  <2> QED BY <1>3, <2>1 DEF LineStep
<1>4. ASSUME LedPart!Tick \/ UNCHANGED LedPart!vars, UNCHANGED <<last_pir, last_ds, dsSeen>>
      PROVE  LineStep
  <2>1. UNCHANGED <<received, ledPc, led_msgq, pending, leds>>
    BY <1>4 DEF LedPart!Tick, LedPart!vars
  <2> QED BY <1>4, <2>1 DEF LineStep, Line, LedPart!Line
<1> QED BY <1>1, <1>2, <1>3, <1>4, StepOfLed

LEMMA InitUpToDate == Init => UpToDate
<1> SUFFICES ASSUME Init PROVE UpToDate
  OBVIOUS
<1>1. Line = << >>
  BY SameSteps DEF Init, LedPart!Init, Line, LedPart!Line
<1> QED BY <1>1 DEF UpToDate

LEMMA StepUpToDate ==
  ASSUME Seen, LedInv, UpToDate, [Next]_vars
  PROVE  UpToDate'
<1>1. Line \in Seq(AllCalls) /\ LineStep
  BY StepIsLineStep
<1>2. ASSUME NEW call \in AllCalls, NEW k \in 1..(Len(Line) + 1),
             LedPart!Joined(Line, Line', call, k),
             \A i \in k..Len(Line) : Line[i].client # call.client,
             SaysWhatItSees(call)
      PROVE  UpToDate'
  <2>1. ASSUME NEW i \in DOMAIN Line', IsLast(Line', "pir", i)
        PROVE  last_pir' # 2 /\ Line'[i] = PirCall(last_pir')
    <3>1. IF "pir" = call.client THEN Line'[i] = call
          ELSE \E q \in DOMAIN Line : IsLast(Line, "pir", q) /\ Line[q] = Line'[i]
      BY <1>1, <1>2, <2>1, JoinedIsLast
    <3>2. CASE "pir" = call.client
      BY <1>2, <3>1, <3>2 DEF Seen, SaysWhatItSees
    <3>3. CASE "pir" # call.client
      BY <1>2, <3>1, <3>3 DEF UpToDate, SaysWhatItSees
    <3> QED BY <3>2, <3>3
  <2>2. ASSUME NEW i \in DOMAIN Line', IsLast(Line', "driveway", i)
        PROVE  dsSeen' /\ Line'[i] = DrivewayCall(last_ds')
    <3>1. IF "driveway" = call.client THEN Line'[i] = call
          ELSE \E q \in DOMAIN Line : IsLast(Line, "driveway", q) /\ Line[q] = Line'[i]
      BY <1>1, <1>2, <2>2, JoinedIsLast
    <3>2. CASE "driveway" = call.client
      BY <1>2, <3>1, <3>2 DEF SaysWhatItSees
    <3>3. CASE "driveway" # call.client
      BY <1>2, <3>1, <3>3 DEF UpToDate, SaysWhatItSees
    <3> QED BY <3>2, <3>3
  <2> QED BY <2>1, <2>2 DEF UpToDate, IsLast
<1>3. ASSUME Line # << >>, Line' = Tail(Line), UNCHANGED <<last_pir, last_ds, dsSeen>>
      PROVE  UpToDate'
  <2>1. ASSUME NEW c, NEW i \in DOMAIN Line', IsLast(Line', c, i)
        PROVE  i + 1 \in DOMAIN Line /\ IsLast(Line, c, i + 1) /\ Line[i + 1] = Line'[i]
    BY <1>1, <1>3, <2>1, TailIsLast
  <2>2. ASSUME NEW i \in DOMAIN Line', IsLast(Line', "pir", i)
        PROVE  last_pir' # 2 /\ Line'[i] = PirCall(last_pir')
    BY <1>3, <2>1, <2>2 DEF UpToDate
  <2>3. ASSUME NEW i \in DOMAIN Line', IsLast(Line', "driveway", i)
        PROVE  dsSeen' /\ Line'[i] = DrivewayCall(last_ds')
    BY <1>3, <2>1, <2>3 DEF UpToDate
  <2> QED BY <2>2, <2>3 DEF UpToDate, IsLast
<1>4. ASSUME UNCHANGED <<Line, last_pir, last_ds, dsSeen>> PROVE UpToDate'
  BY <1>4 DEF UpToDate, IsLast
<1> QED BY <1>1, <1>2, <1>3, <1>4 DEF LineStep

\* Nothing is on its way to the red LED.
RedSettled == Settled(Red)

\* The same, said of the line.
LEMMA SettledLine ==
  LedPart!TypeOK => (RedSettled <=> \A i \in DOMAIN Line : Line[i].msg.id # Red)
<1> SUFFICES ASSUME LedPart!TypeOK
             PROVE  RedSettled <=> \A i \in DOMAIN Line : Line[i].msg.id # Red
  OBVIOUS
<1>1. /\ received \in Seq(AllCalls) /\ led_msgq \in Seq(AllCalls) /\ pending \in Seq(AllCalls)
      /\ Line = (received \o led_msgq) \o pending
  BY LedPart!LineType, LedAssumed DEF LedPart!TypeOK, Line
<1> DEFINE a == Len(received)
           b == Len(led_msgq)
           n == Len(pending)
<1>2. /\ a \in Nat /\ b \in Nat /\ n \in Nat
      /\ DOMAIN received = 1..a /\ DOMAIN led_msgq = 1..b /\ DOMAIN pending = 1..n
      /\ DOMAIN Line = 1..(a + b + n)
      /\ \A i \in 1..a : Line[i] = received[i]
      /\ \A i \in 1..b : Line[a + i] = led_msgq[i]
      /\ \A i \in 1..n : Line[a + b + i] = pending[i]
  BY <1>1
<1> HIDE DEF a, b, n
<1>3. ASSUME RedSettled, NEW i \in DOMAIN Line PROVE Line[i].msg.id # Red
  <2>1. CASE i <= a
    BY <1>2, <1>3, <2>1 DEF RedSettled, Settled
  <2>2. CASE a < i /\ i <= a + b
    <3>1. i - a \in 1..b /\ Line[a + (i - a)] = led_msgq[i - a] /\ a + (i - a) = i
      BY <1>2, <2>2
    <3> QED BY <1>2, <1>3, <3>1 DEF RedSettled, Settled
  <2>3. CASE a + b < i
    <3>1. /\ i - a - b \in 1..n /\ Line[a + b + (i - a - b)] = pending[i - a - b]
          /\ a + b + (i - a - b) = i
      BY <1>2, <2>3
    <3> QED BY <1>2, <1>3, <3>1 DEF RedSettled, Settled
  <2> QED BY <1>2, <2>1, <2>2, <2>3
<1>4. ASSUME \A i \in DOMAIN Line : Line[i].msg.id # Red PROVE RedSettled
  <2>1. \A i \in 1..a : i \in 1..(a + b + n)
    BY <1>2
  <2>2. \A i \in 1..b : a + i \in 1..(a + b + n)
    BY <1>2
  <2>3. \A i \in 1..n : a + b + i \in 1..(a + b + n)
    BY <1>2
  <2> QED BY <1>2, <1>4, <2>1, <2>2, <2>3 DEF RedSettled, Settled
<1> QED BY <1>3, <1>4

LEMMA SettledLineNext ==
  (LedPart!TypeOK => (RedSettled <=> \A i \in DOMAIN Line : Line[i].msg.id # Red))'
BY SettledLine, PTL

\* What the red LED shows of each sensor.
ShowsPir == last_pir # 2 /\ Steady(Red, last_pir = 0)
ShowsDriveway ==
  \/ dsSeen /\ last_ds = 0 /\ leds[Red].state = "BLINK"
  \/ dsSeen /\ last_ds = 1 /\ Steady(Red, FALSE)

\* A LED goes on showing what it shows, but for the phase of its blinking, and
\* for gpio_configure, which lights it before the loop of the LED thread.
SameShown(l) ==
  /\ leds'[l].state = leds[l].state
  /\ leds[l].state = "IDLE" /\ ledPc # "start" => (leds'[l].lit <=> leds[l].lit)

\* What the LED thread leaves of a LED it has no message for.
LEMMA TurnWithoutMessage ==
  ASSUME LedPart!TypeOK, LedPart!LedThread, ~LedPart!LedMessage,
         NEW l \in {Red, Green}, leds[l].state # "BLINK_ONCE"
  PROVE  SameShown(l)
<1>1. leds \in [{Red, Green} -> LedPart!Led] /\ leds[l] \in LedPart!Led
  BY DEF LedPart!TypeOK
<1>2. CASE LedPart!LedStart
  <2>1. leds'[l] = [leds[l] EXCEPT !.lit = TRUE] /\ ledPc = "start"
    BY <1>2 DEF LedPart!LedStart
  <2> QED BY <1>1, <2>1 DEF SameShown, LedPart!Led
<1>3. CASE LedPart!GetTimesOut
  BY <1>3 DEF LedPart!GetTimesOut, SameShown
<1>4. CASE LedPart!LedTimeout
  <2>1. leds'[l] = LedPart!handle_timeout(leds[l])
    BY <1>4 DEF LedPart!LedTimeout
  <2>2. CASE ~LedPart!TimedOut(leds[l])
    BY <2>1, <2>2 DEF LedPart!handle_timeout, SameShown
  <2>3. CASE LedPart!TimedOut(leds[l])
    <3>1. leds[l].state = "BLINK"
      BY <1>1, <2>3 DEF LedPart!TimedOut, LedPart!Led, LedPart!States
    <3>2. leds'[l] = LedPart!led_set(leds[l], 1 - leds[l].value, leds[l].blink_rate)
      BY <2>1, <2>3, <3>1 DEF LedPart!handle_timeout
    <3>3. leds'[l].state = "BLINK"
      BY <1>1, <3>1, <3>2 DEF LedPart!led_set, LedPart!Led
    <3> QED BY <3>1, <3>3 DEF SameShown
  <2> QED BY <2>2, <2>3
<1> QED BY <1>2, <1>3, <1>4 DEF LedPart!LedThread

\* How a LED obeys.
LEMMA Obeys ==
  ASSUME LedPart!TypeOK, NEW call \in AllCalls, NEW led \in LedPart!Led
  PROVE  LET after == LedPart!handle_msg(call.msg, led)
         IN  /\ call.msg.cmd = "SET" => after.state = "IDLE" /\ (after.lit <=> call.msg.arg # 0)
             /\ call.msg.cmd = "BLINK" => after.state = "BLINK"
BY DEF LedPart!handle_msg, LedPart!led_set, LedPart!Led

\* What a turn with a message does to each LED.
LEMMA TurnWithMessage ==
  ASSUME LedPart!TypeOK, LedPart!LedMessage, Line # << >>, Line[1] = Head(received),
         Line \in Seq(AllCalls), NEW l \in {Red, Green}
  PROVE  /\ Line[1] \in AllCalls
         /\ Line[1].msg.id # l => leds'[l] = leds[l]
         /\ Line[1].msg.id = l =>
              /\ Line[1].msg.cmd = "SET" =>
                   leds'[l].state = "IDLE" /\ (leds'[l].lit <=> Line[1].msg.arg # 0)
              /\ Line[1].msg.cmd = "BLINK" => leds'[l].state = "BLINK"
<1>1. leds \in [{Red, Green} -> LedPart!Led] /\ leds[l] \in LedPart!Led
  BY DEF LedPart!TypeOK
<1>2. PICK call \in AllCalls : call = Line[1]
  OBVIOUS
<1>3. leds' = [leds EXCEPT ![call.msg.id] = LedPart!handle_msg(call.msg, leds[call.msg.id])]
  BY <1>2 DEF LedPart!LedMessage
<1>4. call.msg.id = l => leds'[l] = LedPart!handle_msg(call.msg, leds[l])
  BY <1>1, <1>3
<1>5. call.msg.id # l => leds'[l] = leds[l]
  BY <1>1, <1>3
<1> QED BY <1>1, <1>2, <1>4, <1>5, Obeys

\* Where a step leaves the red LED settled, it was settled before and shows the
\* same, or it has just obeyed the last call of one of the sensors.
LEMMA RedStep ==
  ASSUME Seen, LedInv, UpToDate, [Next]_vars, RedSettled',
         RedSettled => leds[Red].state # "BLINK_ONCE"
  PROVE  \/ /\ RedSettled /\ SameShown(Red) /\ UNCHANGED <<last_pir, last_ds, dsSeen>>
            /\ ledPc' = "start" => ledPc = "start"
         \/ ShowsPir' /\ ledPc' # "start"
         \/ ShowsDriveway' /\ ledPc' # "start" /\ \E i \in DOMAIN Line : Line[i].client = "driveway"
<1>1. Line \in Seq(AllCalls) /\ LineStep
  BY StepIsLineStep
<1>2. LedPart!TypeOK /\ LedPart!TypeOK'
  BY StepLedInv DEF LedInv
<1>3. RedSettled <=> \A i \in DOMAIN Line : Line[i].msg.id # Red
  BY <1>2, SettledLine
<1>4. \A i \in DOMAIN Line' : Line'[i].msg.id # Red
  BY <1>2, SettledLineNext
<1>5. ASSUME NEW call \in AllCalls, NEW k \in 1..(Len(Line) + 1),
             LedPart!led_command(call),
             LedPart!Joined(Line, Line', call, k),
             SaysWhatItSees(call)
      PROVE  /\ RedSettled /\ SameShown(Red) /\ UNCHANGED <<last_pir, last_ds, dsSeen>>
             /\ ledPc' = "start" => ledPc = "start"
  <2>1. /\ \E p \in DOMAIN Line' : Line'[p] = call
        /\ \A i \in DOMAIN Line : \E p \in DOMAIN Line' : Line'[p] = Line[i]
    <3>1. LedPart!Joined(Line, Line', call, k)
      BY <1>5
    <3>2. Line \in Seq(AllCalls)
      BY <1>1
    <3> QED BY <3>1, <3>2, JoinedKeeps
  <2>2. call.msg.id # Red /\ \A i \in DOMAIN Line : Line[i].msg.id # Red
    BY <1>4, <2>1
  <2>3. call.client \notin {"pir", "driveway"}
    BY <2>2, CallFacts
  <2>4. leds' = leds /\ (ledPc' = "start" => ledPc = "start")
    BY <1>5 DEF LedPart!led_command, LedPart!PutWakes, LedPart!PutStores, LedPart!PutBlocks
  <2> QED BY <1>3, <1>5, <2>2, <2>3, <2>4 DEF SameShown, SaysWhatItSees
<1>6. ASSUME LedPart!LedMessage, Line # << >>, Line[1] = Head(received),
             Line' = Tail(Line), UNCHANGED <<last_pir, last_ds, dsSeen>>
      PROVE  /\ ledPc' # "start"
             /\ \/ RedSettled /\ SameShown(Red)
                \/ ShowsPir'
                \/ ShowsDriveway' /\ \E i \in DOMAIN Line : Line[i].client = "driveway"
  <2>0. ledPc' # "start"
    BY <1>6 DEF LedPart!LedMessage, LedPart!k_msgq_get
  <2>1. /\ DOMAIN Line = 1..Len(Line) /\ Len(Line) \in Nat /\ 1 \in DOMAIN Line
        /\ Line[1] \in AllCalls
        /\ \A i \in DOMAIN Line : Line[i] \in AllCalls
    BY <1>1, <1>6
  <2>2. ASSUME NEW i \in DOMAIN Line, i # 1 PROVE Line[i].msg.id # Red
    <3>1. i - 1 \in DOMAIN Line' /\ Line'[i - 1] = Line[i]
      BY <1>1, <1>6, <2>2
    <3> QED BY <1>4, <3>1
  <2>3. /\ Line[1].msg.id # Red => leds'[Red] = leds[Red]
        /\ Line[1].msg.id = Red /\ Line[1].msg.cmd = "SET" =>
             leds'[Red].state = "IDLE" /\ (leds'[Red].lit <=> Line[1].msg.arg # 0)
        /\ Line[1].msg.id = Red /\ Line[1].msg.cmd = "BLINK" => leds'[Red].state = "BLINK"
    BY <1>1, <1>2, <1>6, TurnWithMessage
  <2>4. CASE Line[1].msg.id # Red
    BY <1>3, <2>0, <2>2, <2>3, <2>4 DEF SameShown
  <2>5. CASE Line[1].msg.id = Red
    <3>1. Line[1].client \in {"pir", "driveway"}
      BY <2>1, <2>5, CallFacts
    <3>2. ASSUME NEW i \in DOMAIN Line, Line[i].client \in {"pir", "driveway"} PROVE i = 1
      BY <2>1, <2>2, <3>2, CallFacts
    <3>3. CASE Line[1].client = "pir"
      <4>1. IsLast(Line, "pir", 1)
        BY <2>1, <3>2, <3>3 DEF IsLast
      <4>2. last_pir # 2 /\ Line[1] = PirCall(last_pir)
        BY <2>1, <4>1 DEF UpToDate
      <4>3. last_pir \in {0, 1}
        BY <4>2 DEF Seen
      <4>4. leds'[Red].state = "IDLE" /\ (leds'[Red].lit <=> 1 - last_pir # 0)
        BY <2>3, <2>5, <4>2 DEF PirCall, Call
      <4>5. 1 - last_pir # 0 <=> last_pir = 0
        BY <4>3
      <4>6. ShowsPir'
        BY <1>6, <4>2, <4>4, <4>5 DEF ShowsPir, Steady
      <4> QED BY <2>0, <4>6
    <3>4. CASE Line[1].client = "driveway"
      <4>1. IsLast(Line, "driveway", 1)
        BY <2>1, <3>2, <3>4 DEF IsLast
      <4>2. dsSeen /\ Line[1] = DrivewayCall(last_ds)
        BY <2>1, <4>1 DEF UpToDate
      <4>3. last_ds \in {0, 1}
        BY DEF Seen
      <4>4. ShowsDriveway'
        BY <1>6, <2>3, <2>5, <4>2, <4>3 DEF ShowsDriveway, Steady, DrivewayCall, Call
      <4> QED BY <2>0, <2>1, <3>4, <4>4
    <3> QED BY <3>1, <3>3, <3>4
  <2> QED BY <2>4, <2>5
<1>7. ASSUME LedPart!LedThread, ~LedPart!LedMessage, UNCHANGED <<Line, last_pir, last_ds, dsSeen>>
      PROVE  /\ RedSettled /\ SameShown(Red)
             /\ ledPc' = "start" => ledPc = "start"
  <2>1. RedSettled
    BY <1>3, <1>4, <1>7
  <2>2. ledPc' # "start"
    BY <1>7 DEF LedPart!LedThread, LedPart!LedStart, LedPart!LedTimeout, LedPart!GetTimesOut,
                LedPart!k_msgq_get
  <2> QED BY <1>2, <1>7, <2>1, <2>2, TurnWithoutMessage
<1>8. ASSUME UNCHANGED <<leds, received, ledPc, Line, last_pir, last_ds, dsSeen>>
      PROVE  /\ RedSettled /\ SameShown(Red)
             /\ ledPc' = "start" => ledPc = "start"
  BY <1>3, <1>4, <1>8 DEF SameShown
<1> QED BY <1>1, <1>5, <1>6, <1>7, <1>8 DEF LineStep

\* Before its sensors have seen anything the settled red LED is idle, and before
\* the loop of the LED thread it is settled only as long as they have not.
Said == last_pir # 2 \/ dsSeen
BeforeTheFirstWord ==
  /\ RedSettled /\ ~Said => leds[Red].state = "IDLE"
  /\ ledPc = "start" /\ RedSettled => ~Said

RedInv == RedShowsASensor /\ BeforeTheFirstWord

LEMMA InitRedInv == Init => RedInv
<1> SUFFICES ASSUME Init PROVE RedInv
  OBVIOUS
<1>1. leds = [l \in {Red, Green} |-> [state |-> "IDLE", blink_rate |-> 0, timeout |-> 0,
                           value |-> 0, lit |-> FALSE, due |-> 0]]
  BY SameSteps DEF Init, LedPart!Init
<1>2. ~Said
  BY DEF Init, Pir!Init, Said
<1> QED BY <1>1, <1>2 DEF RedInv, RedShowsASensor, BeforeTheFirstWord, Said

LEMMA StepRedInv ==
  ASSUME Seen, LedInv, UpToDate, RedInv, [Next]_vars
  PROVE  RedInv'
<1>1. RedSettled /\ Said => ShowsPir \/ ShowsDriveway
  BY DEF RedInv, RedShowsASensor, RedSettled, Said, ShowsPir, ShowsDriveway
<1>2. RedSettled => leds[Red].state # "BLINK_ONCE"
  BY <1>1 DEF RedInv, BeforeTheFirstWord, ShowsPir, ShowsDriveway, Steady
<1>3. ASSUME RedSettled'
      PROVE  /\ Said' => ShowsPir' \/ ShowsDriveway'
             /\ ~Said' => leds'[Red].state = "IDLE"
             /\ ledPc' = "start" => ~Said'
  <2>1. CASE /\ RedSettled /\ SameShown(Red) /\ UNCHANGED <<last_pir, last_ds, dsSeen>>
             /\ ledPc' = "start" => ledPc = "start"
    <3>1. Said' <=> Said
      BY <2>1 DEF Said
    <3>2. ledPc = "start" => ~Said
      BY <2>1 DEF RedInv, BeforeTheFirstWord
    <3>3. ASSUME Said PROVE ShowsPir' \/ ShowsDriveway'
      BY <1>1, <2>1, <3>2, <3>3 DEF ShowsPir, ShowsDriveway, Steady, SameShown
    <3>4. ~Said => leds'[Red].state = "IDLE"
      BY <2>1 DEF RedInv, BeforeTheFirstWord, SameShown
    <3> QED BY <2>1, <3>1, <3>2, <3>3, <3>4
  <2>2. CASE (ShowsPir' \/ ShowsDriveway') /\ ledPc' # "start"
    BY <2>2 DEF ShowsPir, ShowsDriveway, Said
  <2> QED BY <1>2, <1>3, <2>1, <2>2, RedStep
<1>4. RedShowsASensor'
  BY <1>3 DEF RedShowsASensor, RedSettled, Said, ShowsPir, ShowsDriveway
<1>5. BeforeTheFirstWord'
  BY <1>3 DEF BeforeTheFirstWord
<1> QED BY <1>4, <1>5 DEF RedInv

\* Once one of its sensors has seen an edge, a settled red LED shows on its pin
\* what one of them last saw, whatever the length of the queue, the periods and
\* the order of the threads: pir.c:40 and driveway_sensor.c, whose commands meet
\* in led_msgq.
THEOREM SettledRedShowsASensor == Spec => []RedShowsASensor
<1>1. RedInv => RedShowsASensor
  BY DEF RedInv
<1> QED BY <1>1, InitRedInv, StepRedInv, InitUpToDate, StepUpToDate, LedInvHolds, PTL DEF Spec

\* The driveway sensor has seen nothing and said nothing.
DrivewaySilent ==
  /\ ds = 1 /\ last_ds = 1
  /\ \A i \in DOMAIN Line : Line[i].client # "driveway"

LEMMA StepDrivewaySilent ==
  ASSUME "driveway" \notin Active, Seen, LedInv, DrivewaySilent, [Next]_vars
  PROVE  DrivewaySilent'
<1>1. Line \in Seq(AllCalls) /\ LineStep
  BY StepIsLineStep
<1>2. ds' = 1
  <2> USE DEF DrivewaySilent
  <2>1. CASE CtMainStarts \/ CtMainEnds
    BY <2>1 DEF CtMainStarts, CtMainEnds, Driveway!Start, dsVars
  <2>2. CASE PirMovesPin \/ PirSampleSame \/ PirSampleEdge \/ PirReport
    BY <2>2 DEF PirMovesPin, PirSampleSame, PirSampleEdge, PirReport, dsVars
  <2>3. CASE DrivewayMovesPin \/ DrivewaySampleSame \/ DrivewaySampleEdge \/ DrivewayReport
    BY <2>3 DEF DrivewayMovesPin, DrivewaySampleSame, DrivewaySampleEdge, DrivewayReport,
                Driveway!SampleSame, Driveway!SampleEdge, Driveway!Report
  <2>4. CASE AccelStarts \/ AccelMoved \/ AccelUplink \/ HasMoved
    BY <2>4 DEF AccelStarts, AccelMoved, AccelUplink, HasMoved, dsVars
  <2>5. CASE LedRuns \/ Tick \/ TimeIsOver \/ UNCHANGED vars
    BY <2>5 DEF LedRuns, Tick, TimeIsOver, vars, dsVars
  <2> QED BY <2>1, <2>2, <2>3, <2>4, <2>5 DEF Next
<1>3. ASSUME NEW call \in AllCalls, NEW k \in 1..(Len(Line) + 1),
             LedPart!Joined(Line, Line', call, k),
             SaysWhatItSees(call)
      PROVE  DrivewaySilent'
  <2>1. call.client # "driveway" /\ last_ds' = 1
    BY <1>3 DEF DrivewaySilent, SaysWhatItSees
  <2>2. /\ DOMAIN Line = 1..Len(Line) /\ Len(Line) \in Nat
        /\ DOMAIN Line' = 1..(Len(Line) + 1)
        /\ \A i \in 1..(Len(Line) + 1) :
             Line'[i] = IF i < k THEN Line[i] ELSE IF i = k THEN call ELSE Line[i - 1]
    BY <1>1, <1>3 DEF LedPart!Joined
  <2>3. ASSUME NEW i \in 1..(Len(Line) + 1) PROVE Line'[i].client # "driveway"
    <3>1. CASE i < k
      BY <2>2, <3>1 DEF DrivewaySilent
    <3>2. CASE i = k
      BY <2>1, <2>2, <3>2
    <3>3. CASE i > k
      <4>1. i - 1 \in DOMAIN Line /\ Line'[i] = Line[i - 1]
        BY <2>2, <3>3
      <4> QED BY <4>1 DEF DrivewaySilent
    <3> QED BY <2>2, <3>1, <3>2, <3>3
  <2> QED BY <1>2, <2>1, <2>2, <2>3 DEF DrivewaySilent
<1>4. ASSUME Line # << >>, Line' = Tail(Line), last_ds' = last_ds PROVE DrivewaySilent'
  <2>1. ASSUME NEW i \in DOMAIN Line' PROVE Line'[i].client # "driveway"
    <3>1. i + 1 \in DOMAIN Line /\ Line'[i] = Line[i + 1]
      BY <1>1, <1>4
    <3> QED BY <3>1 DEF DrivewaySilent
  <2> QED BY <1>2, <1>4, <2>1 DEF DrivewaySilent
<1>5. ASSUME Line' = Line, last_ds' = last_ds PROVE DrivewaySilent'
  BY <1>2, <1>5 DEF DrivewaySilent
<1> QED BY <1>1, <1>3, <1>4, <1>5 DEF LineStep

\* pir.c:40, "Always keep the LED up to date", where the PIR sensor has the red
\* LED to itself: run node_red shows that the hypothesis cannot be dropped.
THEOREM PirKeepsLedUpToDate ==
  ASSUME "driveway" \notin Active
  PROVE  Spec => []PirLedUpToDate
<1>1. Init => DrivewaySilent /\ PirLedUpToDate
  <2> SUFFICES ASSUME Init PROVE DrivewaySilent /\ PirLedUpToDate
    OBVIOUS
  <2>1. Line = << >>
    BY SameSteps DEF Init, LedPart!Init, Line, LedPart!Line
  <2> QED BY <2>1 DEF Init, Driveway!Init, Pir!Init, DrivewaySilent, PirLedUpToDate
<1>2. ASSUME Seen, LedInv, UpToDate, RedInv, DrivewaySilent, PirLedUpToDate, [Next]_vars
      PROVE  PirLedUpToDate'
  <2> SUFFICES ASSUME last_pir' # 2, RedSettled' PROVE ShowsPir'
    BY DEF PirLedUpToDate, ShowsPir, RedSettled
  <2>1. RedSettled => leds[Red].state # "BLINK_ONCE"
    BY <1>2 DEF RedInv, RedShowsASensor, BeforeTheFirstWord, RedSettled, Said, Steady
  <2>2. ASSUME RedSettled, SameShown(Red), UNCHANGED <<last_pir, last_ds, dsSeen>>
        PROVE  ShowsPir'
    <3>1. ledPc # "start"
      BY <1>2, <2>2 DEF RedInv, BeforeTheFirstWord, Said
    <3> QED BY <1>2, <2>2, <3>1 DEF PirLedUpToDate, RedSettled, ShowsPir, Steady, SameShown
  <2>3. ~\E i \in DOMAIN Line : Line[i].client = "driveway"
    BY <1>2 DEF DrivewaySilent
  <2> QED BY <1>2, <2>1, <2>2, <2>3, RedStep
<1>3. ASSUME Seen, LedInv, UpToDate, RedInv, [Next]_vars PROVE RedInv'
  BY <1>3, StepRedInv
<1> QED BY <1>1, <1>2, <1>3, InitRedInv, InitUpToDate, StepUpToDate, StepDrivewaySilent,
           LedInvHolds, PTL DEF Spec

-----------------------------------------------------------------------------
(* The green LED and the accelerometer                                     *)

\* ct_main.c:48, "Make the green LED blink until further notice.": only a
\* command of accel_callback, when the LED thread obeys it, ends the blinking.
THEOREM OnlyMovementEndsBlinking == Spec => GreenBlinksUntilMovement
<1>1. ASSUME Seen, LedInv, [Next]_vars,
             leds[Green].state = "BLINK", leds'[Green].state # "BLINK"
      PROVE  received # << >> /\ Head(received).client = "accel"
  <2>1. Line \in Seq(AllCalls) /\ LineStep
    BY <1>1, StepIsLineStep
  <2>2. LedPart!TypeOK
    BY <1>1 DEF LedInv
  <2>3. CASE LedPart!LedThread /\ ~LedPart!LedMessage
    <3>1. SameShown(Green)
      BY <1>1, <2>2, <2>3, TurnWithoutMessage
    <3> QED BY <1>1, <3>1 DEF SameShown
  <2>4. CASE LedPart!LedMessage /\ Line # << >> /\ Line[1] = Head(received)
    <3>1. /\ Line[1] \in AllCalls
          /\ Line[1].msg.id = Green
          /\ Line[1].msg.cmd # "BLINK"
      BY <1>1, <2>1, <2>2, <2>4, TurnWithMessage
    <3>2. Line[1].client = "accel"
      BY <3>1, CallFacts
    <3>3. received # << >>
      <4>1. received \in Seq(AllCalls) /\ Len(received) = 1
        BY <2>2, <2>4 DEF LedPart!TypeOK, LedPart!LedMessage
      <4> QED BY <4>1
    <3> QED BY <2>4, <3>2, <3>3
  <2>5. CASE UNCHANGED leds
    BY <1>1, <2>5
  <2> QED BY <2>1, <2>3, <2>4, <2>5 DEF LineStep, LedPart!led_command
<1>2. ASSUME Seen, LedInv, [Next]_vars
      PROVE  [leds[Green].state = "BLINK" /\ leds'[Green].state # "BLINK"
               => received # <<>> /\ Head(received).client = "accel"]_vars
  BY <1>1, <1>2
<1> QED BY <1>2, LedInvHolds, PTL DEF Spec, GreenBlinksUntilMovement

\* Between two calls of accel_has_moved, a flag that is set is a movement that
\* was not read.
FlagIsUnread == reader = "idle" /\ accel_has_called_back = 1 => unread

\* accel_has_moved reports a movement once, wherever the callback interrupts it.
THEOREM ReportsMovementOnce == Spec => MovementReportedOnce
<1>1. Init => FlagIsUnread
  BY DEF Init, Accelerometer!Init, FlagIsUnread
<1>2. [Next]_vars => Accelerometer!Next \/ UNCHANGED Accelerometer!vars
  <2> SUFFICES ASSUME [Next]_vars PROVE Accelerometer!Next \/ UNCHANGED Accelerometer!vars
    OBVIOUS
  <2> USE DEF Accelerometer!vars, accelVars
  <2>1. CASE CtMainStarts \/ CtMainEnds
    BY <2>1 DEF CtMainStarts, CtMainEnds
  <2>2. CASE PirMovesPin \/ PirSampleSame \/ PirSampleEdge \/ PirReport
    BY <2>2 DEF PirMovesPin, PirSampleSame, PirSampleEdge, PirReport
  <2>3. CASE DrivewayMovesPin \/ DrivewaySampleSame \/ DrivewaySampleEdge \/ DrivewayReport
    BY <2>3 DEF DrivewayMovesPin, DrivewaySampleSame, DrivewaySampleEdge, DrivewayReport
  <2>4. CASE AccelStarts \/ AccelMoved \/ AccelUplink \/ HasMoved
    BY <2>4 DEF AccelStarts, AccelMoved, AccelUplink, HasMoved, Accelerometer!Next
  <2>5. CASE LedRuns \/ Tick \/ TimeIsOver \/ UNCHANGED vars
    BY <2>5 DEF LedRuns, Tick, TimeIsOver, vars
  <2> QED BY <2>1, <2>2, <2>3, <2>4, <2>5 DEF Next
<1>3. FlagIsUnread /\ [Next]_vars => FlagIsUnread'
  BY <1>2 DEF FlagIsUnread, Accelerometer!Next, Accelerometer!vars, Accelerometer!AccelThread,
              Accelerometer!Moved, Accelerometer!Uplink, Accelerometer!ReadFlag,
              Accelerometer!ClearFlag
<1>4. FlagIsUnread /\ [Next]_vars =>
        [reader = "idle" /\ reader' = "read" /\ rc' = 1 => unread]_(Accelerometer!vars)
  BY <1>2 DEF FlagIsUnread, Accelerometer!Next, Accelerometer!vars, Accelerometer!AccelThread,
              Accelerometer!Moved, Accelerometer!Uplink, Accelerometer!ReadFlag,
              Accelerometer!ClearFlag
<1> QED BY <1>1, <1>3, <1>4, PTL
        DEF Spec, MovementReportedOnce, Accelerometer!ReportedOnce

-----------------------------------------------------------------------------
(* How long a caller is blocked                                            *)

\* What the sensors need: time for one turn of the LED thread for each of the
\* four callers, and an accelerometer that does not call back twice meanwhile.
Timing == 4 * Latency <= MaxBlock /\ 4 * Latency < AccelPeriod

\* The time of n turns of the LED thread.
Turns(n) == n * Latency

\* ct_main has one command to give, and may still overtake with it.
ToCome == IF main = "done" THEN 0 ELSE 1

\* The latest instant at which the caller in place k is released: the LED thread
\* has a turn for each caller before it, for ct_main if it is yet to come, and
\* for the callback if it may come until then.
WaitEnds(k) ==
  LET end == since + Turns(k + ToCome)
  IN  end + (IF accelNext <= end THEN Latency ELSE 0)

\* Client c, whose last sleep ended at wake, is released in time.
OnTime(c, wake) ==
  \A k \in DOMAIN pending : pending[k].client = c => WaitEnds(k) <= wake + Latency + MaxBlock

\* Where the threads are, before and after ct_main has started them all.
Started ==
  /\ main \in {"init", "bt", "done"}
  /\ pirPc \in {"off", "asleep", "led"} /\ dsPc \in {"off", "asleep", "led"}
  /\ accelNext \in Nat /\ pirWake \in Nat /\ dsWake \in Nat
  /\ main # "done" => /\ pirPc = "off" /\ trigger = "unset" /\ accelNext = 0
                      /\ \A i \in DOMAIN pending : pending[i].client = "driveway"
  /\ \A i \in DOMAIN pending : pending[i].client = "pir" => pirPc = "led"
  /\ \A i \in DOMAIN pending : pending[i].client = "driveway" => dsPc = "led"

\* A sensor that sleeps wakes in time.
WakesInTime ==
  /\ pirPc = "asleep" => uptime <= pirWake + Latency
  /\ dsPc = "asleep" => uptime <= dsWake + Latency

\* The callback, when it is blocked, has come in this turn of the LED thread.
CallbackSpaced ==
  \A i \in DOMAIN pending : pending[i].client = "accel" => accelNext >= since + AccelPeriod

LEMMA TurnsFacts ==
  /\ Latency \in Nat /\ Latency >= 1
  /\ \A n \in Nat : Turns(n) \in Nat /\ Turns(n + 1) = Turns(n) + Latency
  /\ Turns(0) = 0 /\ Turns(1) = Latency /\ Turns(4) = 4 * Latency
  /\ \A n \in 1..4 : Latency <= Turns(n) /\ Turns(n) <= 4 * Latency
  /\ \A n \in 1..3 : Turns(n) + Latency <= 4 * Latency
<1>1. Latency \in Nat /\ Latency >= 1
  BY NodeConstants
<1>2. \A n \in Nat : Turns(n) \in Nat /\ Turns(n + 1) = Turns(n) + Latency
  BY <1>1 DEF Turns
<1>3. /\ Turns(0) = 0 /\ Turns(1) = Latency
      /\ Turns(2) = 2 * Latency /\ Turns(3) = 3 * Latency /\ Turns(4) = 4 * Latency
  BY <1>1 DEF Turns
<1>4. \A n \in 1..4 : n = 1 \/ n = 2 \/ n = 3 \/ n = 4
  OBVIOUS
<1>5. \A n \in 1..3 : n = 1 \/ n = 2 \/ n = 3
  OBVIOUS
<1> QED BY <1>1, <1>2, <1>3, <1>4, <1>5

LEMMA RankFacts ==
  /\ \A d \in Threads : /\ ThreadRank[d] \in Int
                        /\ ThreadRank[d] <= ThreadRank["pir"]
                        /\ ThreadRank[d] <= ThreadRank["driveway"]
  /\ \A d \in Threads : d # "accel" => ThreadRank["accel"] < ThreadRank[d]
BY DEF ThreadRank, Threads

\* What QueueDiscipline says of the callers of Node.
LEMMA PendingFacts ==
  ASSUME LedInv
  PROVE  /\ uptime \in Nat /\ since \in Nat /\ since <= uptime
         /\ pending \in Seq(AllCalls) /\ Len(pending) \in Nat
         /\ DOMAIN pending = 1..Len(pending)
         /\ \A i \in DOMAIN pending : pending[i] \in AllCalls /\ pending[i].client \in Threads
         /\ \A i, j \in DOMAIN pending : i < j =>
              /\ pending[i].client # pending[j].client
              /\ ThreadRank[pending[i].client] <= ThreadRank[pending[j].client]
         /\ ledPc = "waiting" => pending = << >>
         /\ pending # << >> => Len(led_msgq) = QueueLen
<1>1. /\ uptime \in Nat /\ since \in Nat /\ since <= uptime
      /\ pending \in Seq(AllCalls)
  BY NodeConstants DEF LedInv, LedPart!TypeOK
<1>2. \A call \in AllCalls : call.client \in Threads
  BY CallFacts
<1> QED BY <1>1, <1>2 DEF LedInv, LedPart!QueueDiscipline

\* No two places belong to one client: there are at most four.
LEMMA FewWait ==
  ASSUME LedInv
  PROVE  /\ Len(pending) <= 4
         /\ \A c \in Threads : (\A i \in DOMAIN pending : pending[i].client # c)
              => Len(pending) <= 3
         /\ \A c, d \in Threads :
              c # d /\ (\A i \in DOMAIN pending : pending[i].client \notin {c, d})
              => Len(pending) <= 2
<1>1. /\ Len(pending) \in Nat /\ DOMAIN pending = 1..Len(pending)
      /\ \A i \in DOMAIN pending : pending[i].client \in Threads
      /\ \A i, j \in DOMAIN pending : i < j => pending[i].client # pending[j].client
  BY PendingFacts
<1> DEFINE who(i) == pending[i].client
<1>2. ASSUME Len(pending) >= 3
      PROVE  /\ who(1) \in Threads /\ who(2) \in Threads /\ who(3) \in Threads
             /\ who(1) # who(2) /\ who(1) # who(3) /\ who(2) # who(3)
             /\ {1, 2, 3} \subseteq DOMAIN pending
  BY <1>1, <1>2
<1>3. ASSUME Len(pending) >= 4
      PROVE  /\ who(4) \in Threads /\ 4 \in DOMAIN pending
             /\ who(1) # who(4) /\ who(2) # who(4) /\ who(3) # who(4)
  BY <1>1, <1>3
<1>4. ASSUME Len(pending) >= 5
      PROVE  /\ who(5) \in Threads
             /\ who(1) # who(5) /\ who(2) # who(5) /\ who(3) # who(5) /\ who(4) # who(5)
  BY <1>1, <1>4
<1>5. Len(pending) <= 4
  <2> SUFFICES ASSUME Len(pending) >= 5 PROVE FALSE
    BY <1>1
  <2> QED BY <1>1, <1>2, <1>3, <1>4 DEF Threads
<1>6. ASSUME NEW c \in Threads, \A i \in DOMAIN pending : pending[i].client # c
      PROVE  Len(pending) <= 3
  <2> SUFFICES ASSUME Len(pending) >= 4 PROVE FALSE
    BY <1>1
  <2> QED BY <1>1, <1>2, <1>3, <1>6 DEF Threads
<1>7. ASSUME NEW c \in Threads, NEW d \in Threads, c # d,
             \A i \in DOMAIN pending : pending[i].client \notin {c, d}
      PROVE  Len(pending) <= 2
  <2> SUFFICES ASSUME Len(pending) >= 3 PROVE FALSE
    BY <1>1
  <2> QED BY <1>1, <1>2, <1>7 DEF Threads
<1> QED BY <1>5, <1>6, <1>7

\* A call takes place k among the blocked callers.
Waits(call, k) ==
  /\ LedPart!Joined(pending, pending', call, k)
  /\ \A i \in DOMAIN pending :
       i < k <=> ThreadRank[pending[i].client] <= ThreadRank[call.client]

\* A command blocks its caller, or nobody is blocked.
LEMMA CommandWaits ==
  ASSUME LedInv, NEW call \in AllCalls, LedPart!led_command(call)
  PROVE  /\ uptime' = uptime
         /\ \A i \in DOMAIN pending : pending[i].client # call.client
         /\ \/ pending = << >> /\ pending' = << >>
            \/ /\ since' = since /\ ledPc # "waiting"
               /\ \E k \in 1..(Len(pending) + 1) : Waits(call, k)
<1>1. uptime' = uptime /\ \A i \in DOMAIN pending : pending[i].client # call.client
  BY DEF LedPart!led_command, LedPart!Blocked
<1>2. CASE LedPart!PutWakes(call)
  BY <1>1, <1>2, PendingFacts DEF LedPart!PutWakes
<1>3. CASE LedPart!PutStores(call)
  <2>1. Len(led_msgq) # QueueLen
    BY <1>3, NodeConstants DEF LedPart!PutStores, LedInv, LedPart!TypeOK
  <2> QED BY <1>1, <1>3, <2>1, PendingFacts DEF LedPart!PutStores
<1>4. CASE LedPart!PutBlocks(call)
  <2>1. since' = since /\ ledPc # "waiting"
    BY <1>4 DEF LedPart!PutBlocks
  <2>2. PICK k \in 1..(Len(pending) + 1) :
          /\ \A i \in DOMAIN pending :
               i < k <=> ThreadRank[pending[i].client] <= ThreadRank[call.client]
          /\ pending' = LedPart!InsertAt(pending, k, call)
    BY <1>4 DEF LedPart!PutBlocks
  <2>3. LedPart!Joined(pending, pending', call, k)
    <3>1. pending \in Seq(AllCalls)
      BY PendingFacts
    <3>2. LedPart!Joined(pending, LedPart!InsertAt(pending, k, call), call, k)
      BY <3>1, LedAssumed, LedPart!InsertedJoins, Zenon
    <3> QED BY <2>2, <3>2
  <2> QED BY <1>1, <2>1, <2>2, <2>3 DEF Waits
<1> QED BY <1>2, <1>3, <1>4 DEF LedPart!led_command

\* Whoever is blocked after a command gives it, or was blocked before, at the same
\* place or at the place before it.
LEMMA WaitsPlaces ==
  ASSUME LedInv, NEW call \in AllCalls, NEW k \in 1..(Len(pending) + 1), Waits(call, k),
         NEW p \in DOMAIN pending'
  PROVE  /\ p \in 1..(Len(pending) + 1)
         /\ \/ p = k /\ pending'[p] = call
            \/ \E q \in DOMAIN pending : /\ pending'[p] = pending[q]
                                         /\ q = p \/ (q = p - 1 /\ k < p)
<1>1. /\ Len(pending) \in Nat /\ DOMAIN pending = 1..Len(pending)
      /\ DOMAIN pending' = 1..(Len(pending) + 1)
      /\ \A i \in 1..(Len(pending) + 1) :
           pending'[i] = IF i < k THEN pending[i] ELSE IF i = k THEN call ELSE pending[i - 1]
  BY PendingFacts DEF Waits, LedPart!Joined
<1>2. CASE p < k
  BY <1>1, <1>2
<1>3. CASE p = k
  BY <1>1, <1>3
<1>4. CASE p > k
  <2>1. p - 1 \in DOMAIN pending /\ pending'[p] = pending[p - 1]
    BY <1>1, <1>4
  <2> QED BY <1>1, <1>4, <2>1
<1> QED BY <1>1, <1>2, <1>3, <1>4

\* Nobody is less urgent than a sensor: it waits behind all that are blocked.
LEMMA SensorsWaitBehind ==
  ASSUME LedInv, NEW call \in AllCalls, NEW k \in 1..(Len(pending) + 1), Waits(call, k),
         call.client \in {"pir", "driveway"}
  PROVE  k = Len(pending) + 1
<1>1. \A i \in DOMAIN pending : i < k
  BY PendingFacts, RankFacts DEF Waits
<1>2. Len(pending) \in Nat /\ DOMAIN pending = 1..Len(pending)
  BY PendingFacts
<1>3. CASE Len(pending) = 0
  BY <1>2, <1>3
<1>4. CASE Len(pending) # 0
  <2>1. Len(pending) \in DOMAIN pending
    BY <1>2, <1>4
  <2> QED BY <1>1, <1>2, <2>1
<1> QED BY <1>3, <1>4

\* A turn of the LED thread releases the first blocked caller, if there is one.
LEMMA ThreadReleases ==
  ASSUME LedInv, LedPart!LedThread
  PROVE  /\ uptime' = uptime /\ since' = uptime
         /\ pending = << >> => pending' = << >>
         /\ pending # << >> => ledPc # "waiting" /\ pending' = Tail(pending)
         /\ \A p \in DOMAIN pending' :
              p + 1 \in DOMAIN pending /\ pending'[p] = pending[p + 1]
<1>1. uptime' = uptime /\ since' = uptime
  BY DEF LedPart!LedThread, LedPart!LedStart, LedPart!LedMessage, LedPart!LedTimeout,
         LedPart!GetTimesOut, LedPart!k_msgq_get
<1>2. ASSUME LedPart!k_msgq_get, ledPc # "waiting"
      PROVE  /\ pending = << >> => pending' = << >>
             /\ pending # << >> => pending' = Tail(pending)
  <2>1. pending # << >> => led_msgq # << >>
    BY PendingFacts, NodeConstants
  <2> QED BY <1>2, <2>1 DEF LedPart!k_msgq_get
<1>3. ASSUME LedPart!GetTimesOut PROVE pending = << >> /\ pending' = << >>
  BY <1>3, PendingFacts DEF LedPart!GetTimesOut
<1>4. ASSUME LedPart!LedStart \/ LedPart!LedMessage \/ LedPart!LedTimeout
      PROVE  LedPart!k_msgq_get /\ ledPc # "waiting"
  BY <1>4 DEF LedPart!LedStart, LedPart!LedMessage, LedPart!LedTimeout
<1>5. /\ pending = << >> => pending' = << >>
      /\ pending # << >> => ledPc # "waiting" /\ pending' = Tail(pending)
  BY <1>2, <1>3, <1>4 DEF LedPart!LedThread
<1>6. ASSUME NEW p \in DOMAIN pending'
      PROVE  p + 1 \in DOMAIN pending /\ pending'[p] = pending[p + 1]
  <2>1. pending # << >> /\ pending' = Tail(pending) /\ pending \in Seq(AllCalls)
    BY <1>5, <1>6, PendingFacts
  <2> QED BY <1>6, <2>1
<1> QED BY <1>1, <1>5, <1>6

\* Everybody but client who is released no later than before.
NotLater(who) ==
  \A p \in DOMAIN pending' :
    \/ pending'[p].client = who
    \/ \E q \in DOMAIN pending : pending'[p] = pending[q] /\ WaitEnds(p)' <= WaitEnds(q)

\* What WaitEnds is made of.
LEMMA WaitEndsIs ==
  ASSUME Started, LedInv, NEW k \in Nat
  PROVE  /\ ToCome \in {0, 1} /\ Turns(k + ToCome) \in Nat
         /\ WaitEnds(k) = IF accelNext <= since + Turns(k + ToCome)
                          THEN since + Turns(k + ToCome) + Latency
                          ELSE since + Turns(k + ToCome)
         /\ WaitEnds(k) \in Nat
<1>1. ToCome \in {0, 1}
  BY DEF ToCome
<1>2. k + ToCome \in Nat
  BY <1>1
<1>3. Turns(k + ToCome) \in Nat
  BY <1>2, TurnsFacts
<1>4. since \in Nat /\ accelNext \in Nat /\ Latency \in Nat
  BY PendingFacts, TurnsFacts DEF Started
<1> QED BY <1>1, <1>3, <1>4 DEF WaitEnds

\* Where neither the queue nor what may overtake changes, nobody waits longer.
LEMMA SameWait ==
  ASSUME Started, LedInv, UNCHANGED <<since, accelNext, ToCome>>, NEW p \in Nat
  PROVE  WaitEnds(p)' <= WaitEnds(p)
<1>1. WaitEnds(p)' = WaitEnds(p)
  BY DEF WaitEnds
<1> QED BY <1>1, WaitEndsIs

\* A turn of the LED thread brings everybody one place nearer.
LEMMA ThreadNotLater ==
  ASSUME Started, LedInv, LedPart!Prompt, LedPart!LedThread, UNCHANGED <<accelNext, main>>
  PROVE  NotLater("nobody")
<1> SUFFICES ASSUME NEW p \in DOMAIN pending'
             PROVE  \E q \in DOMAIN pending :
                      pending'[p] = pending[q] /\ WaitEnds(p)' <= WaitEnds(q)
  BY DEF NotLater
<1>1. p + 1 \in DOMAIN pending /\ pending'[p] = pending[p + 1]
  BY ThreadReleases
<1>2. pending # << >>
  BY <1>1
<1>3. ledPc # "waiting" /\ since' = uptime /\ pending' = Tail(pending)
  BY <1>2, ThreadReleases
<1>4. uptime <= since + Latency /\ uptime \in Nat /\ since \in Nat
  BY <1>3, PendingFacts DEF LedPart!Prompt
<1>5. p \in Nat
  BY <1>3, PendingFacts
<1> DEFINE n == p + ToCome
<1>6. n \in Nat /\ (p + 1) + ToCome = n + 1 /\ ToCome' = ToCome
  BY <1>5 DEF ToCome
<1>7. Turns(n) \in Nat /\ Turns(n + 1) = Turns(n) + Latency /\ Latency \in Nat
  BY <1>6, TurnsFacts
<1>8. WaitEnds(p)' = IF accelNext <= uptime + Turns(n)
                     THEN uptime + Turns(n) + Latency ELSE uptime + Turns(n)
  <2>1. WaitEnds(p)' = since' + Turns(p + ToCome')
                       + (IF accelNext <= since' + Turns(p + ToCome') THEN Latency ELSE 0)
    BY DEF WaitEnds
  <2> QED BY <1>3, <1>4, <1>6, <1>7, <2>1
<1>9. WaitEnds(p + 1) = IF accelNext <= since + Turns(n + 1)
                        THEN since + Turns(n + 1) + Latency ELSE since + Turns(n + 1)
  BY <1>5, <1>6, WaitEndsIs
<1> HIDE DEF n
<1>10. accelNext \in Nat
  BY DEF Started
<1>11. WaitEnds(p)' <= WaitEnds(p + 1)
  BY <1>4, <1>7, <1>8, <1>9, <1>10
<1> QED BY <1>1, <1>11

\* A caller that overtakes was reckoned with: ct_main once, the callback when
\* its next movement may come.
LEMMA OvertakenNotLater ==
  ASSUME Timing, Started, LedInv, LedPart!Prompt,
         NEW call \in AllCalls, LedPart!led_command(call),
         \/ main # "done" /\ main' = "done" /\ accelNext' = uptime
         \/ /\ call.client = "accel" /\ uptime >= accelNext
            /\ main = "done" /\ main' = "done" /\ accelNext' = uptime + AccelPeriod
  PROVE  NotLater(call.client)
<1>1. CASE pending' = << >>
  BY <1>1 DEF NotLater
<1>2. CASE pending' # << >>
  <2>1. since' = since /\ ledPc # "waiting"
    BY <1>2, CommandWaits
  <2>2. PICK k \in 1..(Len(pending) + 1) : Waits(call, k)
    BY <1>2, CommandWaits
  <2>3. /\ uptime \in Nat /\ since \in Nat /\ since <= uptime /\ uptime <= since + Latency
        /\ accelNext \in Nat /\ Latency \in Nat /\ AccelPeriod \in Nat
        /\ DOMAIN pending = 1..Len(pending) /\ Len(pending) \in Nat
    BY <2>1, PendingFacts, NodeConstants DEF Started, LedPart!Prompt
  <2>4. ASSUME NEW p \in 1..(Len(pending) + 1), NEW q \in DOMAIN pending, q = p \/ q = p - 1
        PROVE  WaitEnds(p)' <= WaitEnds(q)
    <3>1. /\ p \in Nat /\ q \in Nat /\ q \in 1..4
      BY <2>3, <2>4, FewWait
    <3>2. /\ Turns(p) \in Nat /\ Turns(q) \in Nat /\ Turns(q + 1) = Turns(q) + Latency
          /\ Turns(p) = Turns(q) \/ Turns(p) = Turns(q) + Latency
          /\ Turns(q) >= Latency
      <4>1. Turns(p) \in Nat /\ Turns(q) \in Nat /\ Turns(q + 1) = Turns(q) + Latency
        BY <3>1, TurnsFacts
      <4>2. p = q \/ p = q + 1
        BY <2>4, <3>1
      <4>3. Turns(q) >= Latency
        BY <3>1, TurnsFacts
      <4> QED BY <4>1, <4>2, <4>3
    <3>3. WaitEnds(p)' = IF accelNext' <= since + Turns(p)
                         THEN since + Turns(p) + Latency ELSE since + Turns(p)
      <4>1. ToCome' = 0
        BY DEF ToCome
      <4>2. p + 0 = p
        BY <3>1
      <4>3. WaitEnds(p)' = since' + Turns(p + ToCome')
                           + (IF accelNext' <= since' + Turns(p + ToCome') THEN Latency ELSE 0)
        BY DEF WaitEnds
      <4> QED BY <2>1, <2>3, <3>2, <4>1, <4>2, <4>3
    <3>4. CASE main # "done"
      <4>1. ToCome = 1 /\ accelNext = 0
        BY <3>4 DEF ToCome, Started
      <4>2. WaitEnds(q) = since + Turns(q + 1) + Latency
        BY <2>3, <3>1, <3>2, <4>1, WaitEndsIs
      <4> QED BY <2>3, <3>2, <3>3, <4>2
    <3>5. CASE main = "done"
      <4>1. ToCome = 0 /\ q + 0 = q
        BY <3>1, <3>5 DEF ToCome
      <4>2. uptime >= accelNext /\ accelNext' = uptime + AccelPeriod
        BY <3>5
      <4>3. WaitEnds(q) = since + Turns(q) + Latency
        <5>1. WaitEnds(q) = IF accelNext <= since + Turns(q)
                            THEN since + Turns(q) + Latency ELSE since + Turns(q)
          BY <3>1, <4>1, WaitEndsIs
        <5>2. accelNext <= since + Turns(q)
          BY <2>3, <3>2, <4>2
        <5> QED BY <5>1, <5>2
      <4>4. Len(pending) <= 3
        <5>1. \A i \in DOMAIN pending : pending[i].client # "accel"
          BY <3>5, CommandWaits
        <5> QED BY <5>1, FewWait DEF Threads
      <4>5. p \in 1..4
        BY <2>3, <2>4, <4>4
      <4>6. Turns(p) <= 4 * Latency
        BY <4>5, TurnsFacts
      <4>7. accelNext' > since + Turns(p)
        BY <2>3, <3>2, <4>2, <4>6 DEF Timing
      <4> QED BY <2>3, <3>2, <3>3, <4>2, <4>3, <4>7
    <3> QED BY <3>4, <3>5
  <2>5. ASSUME NEW p \in DOMAIN pending'
        PROVE  \/ pending'[p].client = call.client
               \/ \E q \in DOMAIN pending :
                    pending'[p] = pending[q] /\ WaitEnds(p)' <= WaitEnds(q)
    BY <2>2, <2>4, WaitsPlaces
  <2> QED BY <2>5 DEF NotLater
<1> QED BY <1>1, <1>2

\* A sensor waits behind the others.
LEMMA BehindNotLater ==
  ASSUME Started, LedInv, NEW call \in AllCalls, LedPart!led_command(call),
         call.client \in {"pir", "driveway"}, UNCHANGED <<accelNext, main>>
  PROVE  NotLater(call.client)
<1>1. CASE pending' = << >>
  BY <1>1 DEF NotLater
<1>2. CASE pending' # << >>
  <2>1. since' = since /\ ToCome' = ToCome
    BY <1>2, CommandWaits DEF ToCome
  <2>2. PICK k \in 1..(Len(pending) + 1) : Waits(call, k)
    BY <1>2, CommandWaits
  <2>3. k = Len(pending) + 1
    BY <2>2, SensorsWaitBehind
  <2>4. Len(pending) \in Nat /\ DOMAIN pending = 1..Len(pending)
    BY PendingFacts
  <2>5. ASSUME NEW p \in DOMAIN pending'
        PROVE  \/ pending'[p].client = call.client
               \/ \E q \in DOMAIN pending :
                    pending'[p] = pending[q] /\ WaitEnds(p)' <= WaitEnds(q)
    <3>1. /\ p \in 1..(Len(pending) + 1)
          /\ \/ p = k /\ pending'[p] = call
             \/ \E q \in DOMAIN pending : /\ pending'[p] = pending[q]
                                          /\ q = p \/ (q = p - 1 /\ k < p)
      BY <2>2, WaitsPlaces
    <3>2. p \in Nat /\ ~(k < p)
      BY <2>3, <2>4, <3>1
    <3>3. WaitEnds(p)' <= WaitEnds(p)
      BY <2>1, <3>2, SameWait
    <3> QED BY <3>1, <3>2, <3>3
  <2> QED BY <2>5 DEF NotLater
<1> QED BY <1>1, <1>2

\* The sensor itself is released in time.
LEMMA OwnWait ==
  ASSUME Timing, Started, CallbackSpaced, LedInv,
         NEW call \in AllCalls, LedPart!led_command(call),
         call.client \in {"pir", "driveway"}, call.client = "pir" => main = "done",
         UNCHANGED <<accelNext, main>>,
         NEW wake \in Nat, uptime <= wake + Latency,
         NEW p \in DOMAIN pending', pending'[p].client = call.client
  PROVE  WaitEnds(p)' <= wake + Latency + MaxBlock
<1>1. pending' # << >>
  OBVIOUS
<1>2. since' = since /\ ToCome' = ToCome
  BY <1>1, CommandWaits DEF ToCome
<1>3. PICK k \in 1..(Len(pending) + 1) : Waits(call, k)
  BY <1>1, CommandWaits
<1>4. k = Len(pending) + 1
  BY <1>3, SensorsWaitBehind
<1>5. /\ Len(pending) \in Nat /\ DOMAIN pending = 1..Len(pending)
      /\ uptime \in Nat /\ since \in Nat /\ since <= uptime /\ accelNext \in Nat
      /\ Latency \in Nat /\ AccelPeriod \in Nat /\ MaxBlock \in Nat
  BY PendingFacts, NodeConstants DEF Started
<1>6. \A i \in DOMAIN pending : pending[i].client # call.client
  BY CommandWaits
<1>7. p = k
  BY <1>3, <1>6, WaitsPlaces
<1>8. WaitEnds(p)' = WaitEnds(k)
  BY <1>2, <1>7 DEF WaitEnds
<1>9. CASE main # "done"
  <2>1. call.client = "driveway" /\ accelNext = 0 /\ ToCome = 1
        /\ \A i \in DOMAIN pending : pending[i].client = "driveway"
    BY <1>9 DEF Started, ToCome
  <2>2. k = 1
    <3>1. \A i \in DOMAIN pending : FALSE
      BY <1>6, <2>1
    <3>2. Len(pending) = 0
      <4>1. CASE Len(pending) # 0
        <5>1. 1 \in DOMAIN pending
          BY <1>5, <4>1
        <5> QED BY <3>1, <5>1
      <4> QED BY <4>1
    <3> QED BY <1>4, <3>2
  <2>3. Turns(k + ToCome) = 2 * Latency
    BY <1>5, <2>1, <2>2 DEF Turns
  <2>4. WaitEnds(k) = since + 3 * Latency
    <3>1. WaitEnds(k) = IF accelNext <= since + Turns(k + ToCome)
                        THEN since + Turns(k + ToCome) + Latency
                        ELSE since + Turns(k + ToCome)
      BY <2>2, WaitEndsIs
    <3>2. accelNext <= since + Turns(k + ToCome)
      BY <1>5, <2>1, <2>3
    <3> QED BY <1>5, <2>3, <3>1, <3>2
  <2> QED BY <1>5, <1>8, <2>4 DEF Timing
<1>10. CASE main = "done"
  <2>1. ToCome = 0 /\ k + 0 = k
    BY <1>4, <1>5, <1>10 DEF ToCome
  <2>2. k \in 1..4 /\ k \in Nat
    <3>1. call.client \in Threads
      BY DEF Threads
    <3>2. Len(pending) <= 3
      BY <1>6, <3>1, FewWait
    <3> QED BY <1>4, <1>5, <3>2
  <2>3. Turns(k) \in Nat /\ Turns(k) <= 4 * Latency
    BY <2>2, TurnsFacts
  <2>4. WaitEnds(k) = IF accelNext <= since + Turns(k)
                      THEN since + Turns(k) + Latency ELSE since + Turns(k)
    BY <2>1, <2>2, WaitEndsIs
  <2>5. CASE \E i \in DOMAIN pending : pending[i].client = "accel"
    <3>1. accelNext >= since + AccelPeriod
      BY <2>5 DEF CallbackSpaced
    <3>2. WaitEnds(k) = since + Turns(k)
      BY <1>5, <2>3, <2>4, <3>1 DEF Timing
    <3> QED BY <1>5, <1>8, <2>3, <3>2 DEF Timing
  <2>6. CASE ~\E i \in DOMAIN pending : pending[i].client = "accel"
    <3>1. Len(pending) <= 2
      <4>1. call.client \in Threads /\ "accel" \in Threads /\ call.client # "accel"
        BY DEF Threads
      <4>2. \A i \in DOMAIN pending : pending[i].client \notin {call.client, "accel"}
        BY <1>6, <2>6
      <4> QED BY <4>1, <4>2, FewWait
    <3>2. k \in 1..3
      BY <1>4, <1>5, <3>1
    <3>3. Turns(k) + Latency <= 4 * Latency
      BY <3>2, TurnsFacts
    <3> QED BY <1>5, <1>8, <2>3, <2>4, <3>3 DEF Timing
  <2> QED BY <2>5, <2>6
<1> QED BY <1>9, <1>10

\* The calls of the sensors.
LEMMA SensorCalls ==
  ASSUME Seen
  PROVE  /\ \E call \in AllCalls : call = PirCall(pir) /\ call.client = "pir"
         /\ \E call \in AllCalls : call = DrivewayCall(ds) /\ call.client = "driveway"
<1>1. PirCall(pir) \in AllCalls /\ DrivewayCall(ds) \in AllCalls
  BY DEF AllCalls, Seen
<1>2. PICK call \in AllCalls : call = PirCall(pir)
  BY <1>1
<1>3. PICK other \in AllCalls : other = DrivewayCall(ds)
  BY <1>1
<1> QED BY <1>2, <1>3, CallFacts

\* The steps that are not a command nor the LED thread's leave the queue alone.
Quiet ==
  \/ CtMainStarts
  \/ PirMovesPin \/ PirSampleSame \/ PirReport
  \/ DrivewayMovesPin \/ DrivewaySampleSame \/ DrivewayReport
  \/ AccelStarts \/ AccelUplink \/ HasMoved
  \/ Tick \/ TimeIsOver \/ UNCHANGED vars

LEMMA QuietStep == Quiet => UNCHANGED <<pending, since, accelNext, ToCome>>
BY DEF Quiet, CtMainStarts, PirMovesPin, PirSampleSame, PirReport, DrivewayMovesPin,
       DrivewaySampleSame, DrivewayReport, AccelStarts, AccelUplink, HasMoved,
       Tick, TimeIsOver, vars, ledVars, accelVars, ToCome

\* Whom a step may let wait longer than it had to: its own caller.
LEMMA StepNotLater ==
  ASSUME Timing, Seen, Started, LedInv, LedPart!Prompt, [Next]_vars
  PROVE  /\ CtMainEnds => NotLater("main")
         /\ PirSampleEdge => NotLater("pir")
         /\ DrivewaySampleEdge => NotLater("driveway")
         /\ AccelMoved => NotLater("accel")
         /\ LedRuns \/ Quiet => NotLater("nobody")
<1>1. ASSUME CtMainEnds PROVE NotLater("main")
  <2>1. PICK call \in AllCalls : call = MainCall
    BY DEF AllCalls
  <2>2. LedPart!led_command(call)
    BY <1>1, <2>1, SameSteps DEF CtMainEnds
  <2>3. main # "done" /\ main' = "done" /\ accelNext' = uptime /\ call.client = "main"
    BY <1>1, <2>1, CallFacts DEF CtMainEnds
  <2> QED BY <2>2, <2>3, OvertakenNotLater
<1>2. ASSUME PirSampleEdge PROVE NotLater("pir")
  <2>1. PICK call \in AllCalls : call = PirCall(pir) /\ call.client = "pir"
    BY SensorCalls
  <2>2. LedPart!led_command(call)
    BY <1>2, <2>1, SameSteps DEF PirSampleEdge
  <2>3. UNCHANGED <<accelNext, main>>
    BY <1>2 DEF PirSampleEdge, accelVars
  <2> QED BY <2>1, <2>2, <2>3, BehindNotLater
<1>3. ASSUME DrivewaySampleEdge PROVE NotLater("driveway")
  <2>1. PICK call \in AllCalls : call = DrivewayCall(ds) /\ call.client = "driveway"
    BY SensorCalls
  <2>2. LedPart!led_command(call)
    BY <1>3, <2>1, SameSteps DEF DrivewaySampleEdge
  <2>3. UNCHANGED <<accelNext, main>>
    BY <1>3 DEF DrivewaySampleEdge, accelVars
  <2> QED BY <2>1, <2>2, <2>3, BehindNotLater
<1>4. ASSUME AccelMoved PROVE NotLater("accel")
  <2>1. PICK call \in AllCalls : call = AccelCall
    BY DEF AllCalls
  <2>2. LedPart!led_command(call)
    BY <1>4, <2>1, SameSteps DEF AccelMoved
  <2>3. trigger = "set" /\ uptime >= accelNext /\ accelNext' = uptime + AccelPeriod
        /\ main' = main /\ call.client = "accel"
    BY <1>4, <2>1, CallFacts DEF AccelMoved, Accelerometer!Moved
  <2>4. main = "done"
    BY <2>3 DEF Started
  <2> QED BY <2>2, <2>3, <2>4, OvertakenNotLater
<1>5. ASSUME LedRuns PROVE NotLater("nobody")
  BY <1>5, SameSteps, ThreadNotLater DEF LedRuns, accelVars
<1>6. ASSUME UNCHANGED <<pending, since, accelNext, ToCome>> PROVE NotLater("nobody")
  <2>1. ASSUME NEW p \in DOMAIN pending' PROVE WaitEnds(p)' <= WaitEnds(p)
    BY <1>6, <2>1, PendingFacts, SameWait
  <2> QED BY <1>6, <2>1 DEF NotLater
<1> QED BY <1>1, <1>2, <1>3, <1>4, <1>5, <1>6, QuietStep

LEMMA PendingClients == LedInv => \A p \in DOMAIN pending : pending[p].client \in Threads
BY PendingFacts

LEMMA PendingClientsNext ==
  (LedInv => \A p \in DOMAIN pending : pending[p].client \in Threads)'
BY PendingClients, PTL

\* Who was not blocked and is not the caller is not blocked.
LEMMA WhoIsBlocked ==
  ASSUME NEW who, NotLater(who), NEW c, c # who,
         \A q \in DOMAIN pending : pending[q].client # c
  PROVE  \A p \in DOMAIN pending' : pending'[p].client # c
BY DEF NotLater

LEMMA InitStarted ==
  Init => /\ Started /\ WakesInTime /\ CallbackSpaced
          /\ OnTime("pir", pirWake) /\ OnTime("driveway", dsWake)
          /\ LedPart!Prompt
<1> SUFFICES ASSUME Init
             PROVE  /\ Started /\ WakesInTime /\ CallbackSpaced
                    /\ OnTime("pir", pirWake) /\ OnTime("driveway", dsWake)
                    /\ LedPart!Prompt
  OBVIOUS
<1>1. pending = << >> /\ uptime = 0 /\ since = 0 /\ ledPc = "start"
  BY SameSteps DEF Init, LedPart!Init
<1>2. /\ pirPc = "off" /\ dsPc = "off" /\ pirWake = 0 /\ dsWake = 0 /\ accelNext = 0
      /\ trigger = "unset" /\ main = "init"
  BY DEF Init, Pir!Init, Driveway!Init, Accelerometer!Init
<1>3. LedPart!Prompt
  BY <1>1, NodeConstants DEF LedPart!Prompt
<1> QED BY <1>1, <1>2, <1>3 DEF Started, WakesInTime, CallbackSpaced, OnTime

LEMMA StepStarted ==
  ASSUME Timing, Seen, Started, LedInv, LedPart!Prompt, [Next]_vars
  PROVE  Started'
<1>1. uptime \in Nat /\ PollPeriod \in Nat /\ AccelPeriod \in Nat
  BY PendingFacts, NodeConstants
<1>2. \A p \in DOMAIN pending' : pending'[p].client \in Threads
  BY StepLedInv, PendingClientsNext
<1>3. "nobody" \notin Threads
  BY DEF Threads
<1>4. ASSUME NEW who, NotLater(who), who \notin {"pir", "driveway"},
             UNCHANGED <<main, pirPc, dsPc, pirWake, dsWake>>, accelNext' \in Nat,
             main # "done" => who = "nobody" /\ UNCHANGED <<accelNext, trigger>>
      PROVE  Started'
  <2>1. ASSUME NEW p \in DOMAIN pending', pending'[p].client # who
        PROVE  \E q \in DOMAIN pending : pending'[p] = pending[q]
    BY <1>4, <2>1 DEF NotLater
  <2>2. main # "done" => \A p \in DOMAIN pending' : pending'[p].client = "driveway"
    BY <1>2, <1>3, <1>4, <2>1 DEF Started
  <2>3. \A p \in DOMAIN pending' : pending'[p].client = "pir" => pirPc' = "led"
    BY <1>4, <2>1 DEF Started
  <2>4. \A p \in DOMAIN pending' : pending'[p].client = "driveway" => dsPc' = "led"
    BY <1>4, <2>1 DEF Started
  <2> QED BY <1>4, <2>2, <2>3, <2>4 DEF Started
<1>5. CASE AccelMoved
  <2>1. NotLater("accel")
    BY <1>5, StepNotLater
  <2>2. /\ UNCHANGED <<main, pirPc, dsPc, pirWake, dsWake>>
        /\ accelNext' = uptime + AccelPeriod /\ trigger = "set"
    BY <1>5 DEF AccelMoved, Accelerometer!Moved, pirVars, dsVars
  <2> QED BY <1>1, <1>4, <2>1, <2>2 DEF Started
<1>6. CASE \/ LedRuns \/ PirMovesPin \/ DrivewayMovesPin \/ AccelStarts \/ AccelUplink
           \/ HasMoved \/ Tick \/ TimeIsOver \/ UNCHANGED vars
  <2>1. NotLater("nobody")
    BY <1>6, StepNotLater DEF Quiet
  <2>2. /\ UNCHANGED <<main, pirPc, dsPc, pirWake, dsWake, accelNext>>
        /\ main # "done" => trigger' = trigger
    BY <1>6 DEF LedRuns, PirMovesPin, DrivewayMovesPin, AccelStarts, AccelUplink, HasMoved,
                Tick, TimeIsOver, vars, pirVars, dsVars, accelVars, Pir!PinChange,
                Driveway!PinChange, Accelerometer!Uplink, Accelerometer!ReadFlag,
                Accelerometer!ClearFlag
  <2> QED BY <1>4, <2>1, <2>2 DEF Started
<1>7. CASE CtMainStarts
  <2>1. /\ dsPc = "off" /\ dsPc' = "asleep" /\ dsWake' = uptime + 1 /\ main = "init"
        /\ main' = "bt" /\ UNCHANGED <<pending, pirPc, pirWake, trigger, accelNext>>
    BY <1>7 DEF CtMainStarts, Driveway!Start, ledVars, pirVars, accelVars
  <2> QED BY <1>1, <2>1 DEF Started
<1>8. CASE CtMainEnds
  <2>1. NotLater("main")
    BY <1>8, StepNotLater
  <2>2. /\ main = "bt" /\ main' = "done" /\ pirPc' = "asleep" /\ pirWake' = uptime + 0
        /\ accelNext' = uptime /\ UNCHANGED <<dsPc, dsWake>>
    BY <1>8 DEF CtMainEnds, Pir!Start, dsVars
  <2>3. \A q \in DOMAIN pending : pending[q].client # "pir"
    BY <2>2 DEF Started
  <2>4. \A p \in DOMAIN pending' : pending'[p].client # "pir"
    BY <2>1, <2>3, WhoIsBlocked
  <2>5. \A p \in DOMAIN pending' : pending'[p].client = "driveway" => dsPc' = "led"
    BY <2>1, <2>2 DEF NotLater, Started
  <2> QED BY <1>1, <2>2, <2>4, <2>5 DEF Started
<1>9. CASE PirSampleSame \/ PirReport
  <2>1. /\ pirPc # "off" /\ pirPc' = "asleep" /\ pirWake' = uptime + PollPeriod
        /\ UNCHANGED <<main, dsPc, dsWake, pending, accelNext, trigger>>
    BY <1>9 DEF PirSampleSame, PirReport, Pir!SampleSame, Pir!Report, ledVars, dsVars, accelVars
  <2>2. \A q \in DOMAIN pending : pending[q].client # "pir"
    BY <1>9, SameSteps DEF PirSampleSame, PirReport, Pir!SampleSame, Started, LedPart!Blocked
  <2> QED BY <1>1, <2>1, <2>2 DEF Started
<1>10. CASE PirSampleEdge
  <2>1. NotLater("pir")
    BY <1>10, StepNotLater
  <2>2. /\ pirPc = "asleep" /\ pirPc' = "led"
        /\ UNCHANGED <<main, pirWake, dsPc, dsWake, accelNext, trigger>>
    BY <1>10 DEF PirSampleEdge, Pir!SampleEdge, dsVars, accelVars
  <2>3. main = "done"
    BY <2>2 DEF Started
  <2>4. \A p \in DOMAIN pending' : pending'[p].client = "driveway" => dsPc' = "led"
    BY <2>1, <2>2 DEF NotLater, Started
  <2> QED BY <2>2, <2>3, <2>4 DEF Started
<1>11. CASE DrivewaySampleSame \/ DrivewayReport
  <2>1. /\ dsPc' = "asleep" /\ dsWake' = uptime + PollPeriod
        /\ UNCHANGED <<main, pirPc, pirWake, pending, accelNext, trigger>>
    BY <1>11 DEF DrivewaySampleSame, DrivewayReport, Driveway!SampleSame, Driveway!Report,
                 ledVars, pirVars, accelVars
  <2>2. \A q \in DOMAIN pending : pending[q].client # "driveway"
    BY <1>11, SameSteps DEF DrivewaySampleSame, DrivewayReport, Driveway!SampleSame, Started,
                            LedPart!Blocked
  <2> QED BY <1>1, <2>1, <2>2 DEF Started
<1>12. CASE DrivewaySampleEdge
  <2>1. NotLater("driveway")
    BY <1>12, StepNotLater
  <2>2. /\ dsPc' = "led"
        /\ UNCHANGED <<main, pirPc, pirWake, dsWake, accelNext, trigger>>
    BY <1>12 DEF DrivewaySampleEdge, Driveway!SampleEdge, pirVars, accelVars
  <2>3. \A p \in DOMAIN pending' : pending'[p].client = "pir" => pirPc' = "led"
    BY <2>1, <2>2 DEF NotLater, Started
  <2>4. main # "done" => \A p \in DOMAIN pending' : pending'[p].client = "driveway"
    BY <2>1 DEF NotLater, Started
  <2> QED BY <2>2, <2>3, <2>4 DEF Started
<1> QED BY <1>5, <1>6, <1>7, <1>8, <1>9, <1>10, <1>11, <1>12 DEF Next

LEMMA StepWakesInTime ==
  ASSUME Started, WakesInTime, LedInv, [Next]_vars
  PROVE  WakesInTime'
<1>1. /\ uptime \in Nat /\ PollPeriod \in Nat /\ Latency \in Nat
      /\ pirWake \in Nat /\ dsWake \in Nat
  BY PendingFacts, NodeConstants DEF Started
<1> USE DEF WakesInTime
<1>2. CASE Tick
  <2>1. pirPc = "asleep" => uptime < pirWake + Latency
    BY <1>2 DEF Tick, Pir!InTime
  <2>2. dsPc = "asleep" => uptime < dsWake + Latency
    BY <1>2 DEF Tick, Driveway!InTime
  <2> QED BY <1>1, <1>2, <2>1, <2>2 DEF Tick, pirVars, dsVars
<1>3. CASE CtMainStarts
  BY <1>1, <1>3 DEF CtMainStarts, Driveway!Start, pirVars
<1>4. CASE CtMainEnds
  BY <1>1, <1>4 DEF CtMainEnds, Pir!Start, dsVars
<1>5. CASE PirMovesPin \/ PirSampleSame \/ PirSampleEdge \/ PirReport
  BY <1>1, <1>5 DEF PirMovesPin, PirSampleSame, PirSampleEdge, PirReport, dsVars,
                    Pir!PinChange, Pir!SampleSame, Pir!SampleEdge, Pir!Report
<1>6. CASE DrivewayMovesPin \/ DrivewaySampleSame \/ DrivewaySampleEdge \/ DrivewayReport
  BY <1>1, <1>6 DEF DrivewayMovesPin, DrivewaySampleSame, DrivewaySampleEdge, DrivewayReport,
                    pirVars, Driveway!PinChange, Driveway!SampleSame, Driveway!SampleEdge,
                    Driveway!Report
<1>7. CASE AccelStarts \/ AccelMoved \/ AccelUplink \/ HasMoved \/ LedRuns \/ TimeIsOver
           \/ UNCHANGED vars
  <2>1. uptime' = uptime
    <3>1. CASE AccelMoved
      BY <1>7, <3>1, SameSteps DEF AccelMoved, LedService!led_command
    <3>2. CASE LedRuns
      BY <3>2, SameSteps, ThreadReleases DEF LedRuns
    <3> QED BY <1>7, <3>1, <3>2 DEF AccelStarts, AccelUplink, HasMoved, TimeIsOver, vars
  <2>2. UNCHANGED <<pirPc, dsPc, pirWake, dsWake>>
    BY <1>7 DEF AccelStarts, AccelMoved, AccelUplink, HasMoved, LedRuns, TimeIsOver,
                pirVars, dsVars, vars
  <2> QED BY <2>1, <2>2
<1> QED BY <1>2, <1>3, <1>4, <1>5, <1>6, <1>7 DEF Next

LEMMA StepCallbackSpaced ==
  ASSUME Timing, Seen, Started, CallbackSpaced, LedInv, LedPart!Prompt, [Next]_vars
  PROVE  CallbackSpaced'
<1> SUFFICES ASSUME NEW p \in DOMAIN pending', pending'[p].client = "accel"
             PROVE  accelNext' >= since' + AccelPeriod
  BY DEF CallbackSpaced
<1>1. /\ uptime \in Nat /\ since \in Nat /\ since <= uptime /\ AccelPeriod \in Nat
      /\ accelNext \in Nat
  BY PendingFacts, NodeConstants DEF Started
<1>2. ASSUME NEW who, NotLater(who), who # "accel"
      PROVE  \E q \in DOMAIN pending : pending[q].client = "accel"
  BY <1>2 DEF NotLater
<1>3. CASE CtMainEnds
  <2>1. \A q \in DOMAIN pending : pending[q].client = "driveway"
    BY <1>3 DEF CtMainEnds, Started
  <2>2. NotLater("main")
    BY <1>3, StepNotLater
  <2> QED BY <1>2, <2>1, <2>2
<1>4. CASE PirSampleEdge \/ DrivewaySampleEdge
  <2>1. \E call \in AllCalls : LedPart!led_command(call)
    <3>1. PICK call \in AllCalls : call = PirCall(pir)
      BY SensorCalls
    <3>2. PICK other \in AllCalls : other = DrivewayCall(ds)
      BY SensorCalls
    <3>3. LedPart!led_command(call) \/ LedPart!led_command(other)
      BY <1>4, <3>1, <3>2, SameSteps DEF PirSampleEdge, DrivewaySampleEdge
    <3> QED BY <3>3
  <2>2. since' = since
    BY <2>1, CommandWaits
  <2>3. accelNext' = accelNext
    BY <1>4 DEF PirSampleEdge, DrivewaySampleEdge, accelVars
  <2>4. \E q \in DOMAIN pending : pending[q].client = "accel"
    BY <1>2, <1>4, StepNotLater
  <2> QED BY <2>2, <2>3, <2>4 DEF CallbackSpaced
<1>5. CASE AccelMoved
  <2>1. PICK call \in AllCalls : LedPart!led_command(call)
    <3>1. PICK call \in AllCalls : call = AccelCall
      BY DEF AllCalls
    <3> QED BY <1>5, <3>1, SameSteps DEF AccelMoved
  <2>2. since' = since
    BY <2>1, CommandWaits
  <2>3. accelNext' = uptime + AccelPeriod
    BY <1>5 DEF AccelMoved
  <2> QED BY <1>1, <2>2, <2>3
<1>6. CASE LedRuns
  <2>1. p + 1 \in DOMAIN pending /\ pending[p + 1].client = "accel" /\ pending' = Tail(pending)
    BY <1>6, SameSteps, ThreadReleases DEF LedRuns
  <2>2. 1 \in DOMAIN pending /\ 1 < p + 1 /\ pending \in Seq(AllCalls)
    BY <2>1, PendingFacts
  <2>3. /\ pending[1].client \in Threads /\ pending[1].client # "accel"
        /\ ThreadRank[pending[1].client] <= ThreadRank["accel"]
    BY <2>1, <2>2, PendingFacts
  <2>4. ThreadRank["accel"] < ThreadRank[pending[1].client]
    BY <2>3, RankFacts
  <2>5. ThreadRank[pending[1].client] \in Int /\ ThreadRank["accel"] \in Int
    BY <2>3, RankFacts DEF Threads
  <2> QED BY <2>3, <2>4, <2>5
<1>7. CASE Quiet
  BY <1>7, QuietStep DEF CallbackSpaced
<1> QED BY <1>3, <1>4, <1>5, <1>6, <1>7 DEF Next, Quiet

LEMMA WaitEndsNat == Started /\ LedInv => \A k \in DOMAIN pending : WaitEnds(k) \in Nat
BY PendingFacts, WaitEndsIs

LEMMA WaitEndsNatNext ==
  (Started /\ LedInv => \A k \in DOMAIN pending : WaitEnds(k) \in Nat)'
BY WaitEndsNat, PTL

LEMMA StepOnTime ==
  ASSUME Timing, Seen, Started, WakesInTime, CallbackSpaced, LedInv, LedPart!Prompt,
         OnTime("pir", pirWake), OnTime("driveway", dsWake), [Next]_vars
  PROVE  OnTime("pir", pirWake)' /\ OnTime("driveway", dsWake)'
<1>1. /\ \A k \in DOMAIN pending : WaitEnds(k) \in Nat
      /\ \A k \in DOMAIN pending' : WaitEnds(k)' \in Nat
  BY StepStarted, StepLedInv, WaitEndsNat, WaitEndsNatNext
<1>2. pirWake \in Nat /\ dsWake \in Nat /\ Latency \in Nat /\ MaxBlock \in Nat
  BY NodeConstants DEF Started
<1>3. ASSUME NEW who, NotLater(who), who # "pir", pirWake' = pirWake
      PROVE  OnTime("pir", pirWake)'
  <2>1. ASSUME NEW p \in DOMAIN pending', pending'[p].client = "pir"
        PROVE  WaitEnds(p)' <= pirWake + Latency + MaxBlock
    <3>1. PICK q \in DOMAIN pending : pending'[p] = pending[q] /\ WaitEnds(p)' <= WaitEnds(q)
      BY <1>3, <2>1 DEF NotLater
    <3>2. WaitEnds(q) <= pirWake + Latency + MaxBlock
      BY <2>1, <3>1 DEF OnTime
    <3> QED BY <1>1, <1>2, <3>1, <3>2
  <2> QED BY <1>3, <2>1 DEF OnTime
<1>4. ASSUME NEW who, NotLater(who), who # "driveway", dsWake' = dsWake
      PROVE  OnTime("driveway", dsWake)'
  <2>1. ASSUME NEW p \in DOMAIN pending', pending'[p].client = "driveway"
        PROVE  WaitEnds(p)' <= dsWake + Latency + MaxBlock
    <3>1. PICK q \in DOMAIN pending : pending'[p] = pending[q] /\ WaitEnds(p)' <= WaitEnds(q)
      BY <1>4, <2>1 DEF NotLater
    <3>2. WaitEnds(q) <= dsWake + Latency + MaxBlock
      BY <2>1, <3>1 DEF OnTime
    <3> QED BY <1>1, <1>2, <3>1, <3>2
  <2> QED BY <1>4, <2>1 DEF OnTime
<1>5. ASSUME NEW who, NotLater(who), who # "pir", pirPc # "led" \/ ~LedPart!Blocked("pir")
      PROVE  OnTime("pir", pirWake)'
  <2>1. \A q \in DOMAIN pending : pending[q].client # "pir"
    BY <1>5 DEF Started, LedPart!Blocked
  <2>2. \A p \in DOMAIN pending' : pending'[p].client # "pir"
    BY <1>5, <2>1, WhoIsBlocked
  <2> QED BY <2>2 DEF OnTime
<1>6. ASSUME NEW who, NotLater(who), who # "driveway",
             dsPc # "led" \/ ~LedPart!Blocked("driveway")
      PROVE  OnTime("driveway", dsWake)'
  <2>1. \A q \in DOMAIN pending : pending[q].client # "driveway"
    BY <1>6 DEF Started, LedPart!Blocked
  <2>2. \A p \in DOMAIN pending' : pending'[p].client # "driveway"
    BY <1>6, <2>1, WhoIsBlocked
  <2> QED BY <2>2 DEF OnTime
<1>7. CASE CtMainEnds
  <2>1. NotLater("main") /\ pirPc # "led" /\ dsWake' = dsWake
    BY <1>7, StepNotLater DEF CtMainEnds, Pir!Start, dsVars
  <2> QED BY <1>4, <1>5, <2>1
<1>8. CASE PirSampleEdge
  <2>1. /\ pirPc = "asleep" /\ uptime <= pirWake + Latency /\ main = "done"
        /\ UNCHANGED <<accelNext, main, pirWake, dsWake>>
    BY <1>8 DEF PirSampleEdge, Pir!SampleEdge, WakesInTime, Started, dsVars, accelVars
  <2>2. PICK call \in AllCalls : call = PirCall(pir) /\ call.client = "pir"
    BY SensorCalls
  <2>3. LedPart!led_command(call)
    BY <1>8, <2>2, SameSteps DEF PirSampleEdge
  <2>4. PICK wake \in Nat : wake = pirWake
    BY <1>2
  <2>5. \A p \in DOMAIN pending' : pending'[p].client = "pir" =>
          WaitEnds(p)' <= wake + Latency + MaxBlock
    BY <2>1, <2>2, <2>3, <2>4, OwnWait
  <2>6. OnTime("pir", pirWake)'
    BY <2>1, <2>4, <2>5 DEF OnTime
  <2>7. OnTime("driveway", dsWake)'
    BY <1>4, <1>8, <2>1, StepNotLater
  <2> QED BY <2>6, <2>7
<1>9. CASE DrivewaySampleEdge
  <2>1. /\ dsPc = "asleep" /\ uptime <= dsWake + Latency
        /\ UNCHANGED <<accelNext, main, pirWake, dsWake>>
    BY <1>9 DEF DrivewaySampleEdge, Driveway!SampleEdge, WakesInTime, pirVars, accelVars
  <2>2. PICK call \in AllCalls : call = DrivewayCall(ds) /\ call.client = "driveway"
    BY SensorCalls
  <2>3. LedPart!led_command(call)
    BY <1>9, <2>2, SameSteps DEF DrivewaySampleEdge
  <2>4. PICK wake \in Nat : wake = dsWake
    BY <1>2
  <2>5. \A p \in DOMAIN pending' : pending'[p].client = "driveway" =>
          WaitEnds(p)' <= wake + Latency + MaxBlock
    BY <2>1, <2>2, <2>3, <2>4, OwnWait
  <2>6. OnTime("driveway", dsWake)'
    BY <2>1, <2>4, <2>5 DEF OnTime
  <2>7. OnTime("pir", pirWake)'
    BY <1>3, <1>9, <2>1, StepNotLater
  <2> QED BY <2>6, <2>7
<1>10. CASE AccelMoved
  <2>1. NotLater("accel") /\ UNCHANGED <<pirWake, dsWake>>
    BY <1>10, StepNotLater DEF AccelMoved, pirVars, dsVars
  <2> QED BY <1>3, <1>4, <2>1
<1>11. CASE CtMainStarts
  <2>1. NotLater("nobody") /\ pirWake' = pirWake /\ dsPc # "led"
    BY <1>11, StepNotLater DEF Quiet, CtMainStarts, Driveway!Start, pirVars
  <2> QED BY <1>3, <1>6, <2>1
<1>12. CASE PirSampleSame \/ PirReport
  <2>1. NotLater("nobody") /\ dsWake' = dsWake
    BY <1>12, StepNotLater DEF Quiet, PirSampleSame, PirReport, dsVars
  <2>2. pirPc # "led" \/ ~LedPart!Blocked("pir")
    BY <1>12, SameSteps DEF PirSampleSame, PirReport, Pir!SampleSame
  <2> QED BY <1>4, <1>5, <2>1, <2>2
<1>13. CASE DrivewaySampleSame \/ DrivewayReport
  <2>1. NotLater("nobody") /\ pirWake' = pirWake
    BY <1>13, StepNotLater DEF Quiet, DrivewaySampleSame, DrivewayReport, pirVars
  <2>2. dsPc # "led" \/ ~LedPart!Blocked("driveway")
    BY <1>13, SameSteps DEF DrivewaySampleSame, DrivewayReport, Driveway!SampleSame
  <2> QED BY <1>3, <1>6, <2>1, <2>2
<1>14. CASE \/ LedRuns \/ PirMovesPin \/ DrivewayMovesPin \/ AccelStarts \/ AccelUplink
            \/ HasMoved \/ Tick \/ TimeIsOver \/ UNCHANGED vars
  <2>1. NotLater("nobody")
    BY <1>14, StepNotLater DEF Quiet
  <2>2. UNCHANGED <<pirWake, dsWake>>
    BY <1>14 DEF LedRuns, PirMovesPin, DrivewayMovesPin, AccelStarts, AccelUplink, HasMoved,
                 Tick, TimeIsOver, vars, pirVars, dsVars, Pir!PinChange, Driveway!PinChange
  <2> QED BY <1>3, <1>4, <2>1, <2>2
<1> QED BY <1>7, <1>8, <1>9, <1>10, <1>11, <1>12, <1>13, <1>14 DEF Next

\* No delay of Node is longer than AlarmSensor allows.
BlocksInTime ==
  /\ Seen /\ LedInv /\ LedPart!Prompt
  /\ Started /\ WakesInTime /\ CallbackSpaced
  /\ OnTime("pir", pirWake) /\ OnTime("driveway", dsWake)

LEMMA BlocksInTimeHolds ==
  ASSUME Timing
  PROVE  Spec => []BlocksInTime
<1>1. Init => BlocksInTime
  BY InitSeen, InitLedInv, InitStarted DEF BlocksInTime
<1>2. ASSUME BlocksInTime, [Next]_vars PROVE BlocksInTime'
  <2> USE DEF BlocksInTime
  <2>1. Seen' /\ LedInv'
    BY <1>2, StepSeen, StepLedInv
  <2>2. LedPart!Prompt'
    BY <1>2, StepOfNodeIsOfLed, LedAssumed, LedPart!StepPrompt DEF LedInv
  <2>3. Started' /\ WakesInTime' /\ CallbackSpaced'
    BY <1>2, StepStarted, StepWakesInTime, StepCallbackSpaced
  <2>4. OnTime("pir", pirWake)' /\ OnTime("driveway", dsWake)'
    BY <1>2, StepOnTime
  <2> QED BY <2>1, <2>2, <2>3, <2>4
<1> QED BY <1>1, <1>2, PTL DEF Spec

\* The clock does not pass the instant by which a blocked caller is released.
LEMMA TickInTime ==
  ASSUME BlocksInTime, Tick
  PROVE  /\ pirPc = "led" => uptime < pirWake + Latency + MaxBlock
         /\ dsPc = "led" => uptime < dsWake + Latency + MaxBlock
<1> USE DEF BlocksInTime
<1>1. /\ uptime \in Nat /\ since \in Nat /\ Latency \in Nat /\ MaxBlock \in Nat
      /\ pirWake \in Nat /\ dsWake \in Nat /\ accelNext \in Nat
  BY PendingFacts, NodeConstants DEF Started
<1>2. ASSUME NEW k \in DOMAIN pending PROVE uptime < WaitEnds(k) /\ WaitEnds(k) \in Nat
  <2>1. ledPc # "waiting"
    BY <1>2, PendingFacts
  <2>2. uptime < since + Latency
    <3>1. LedPart!InTime
      BY SameSteps DEF Tick
    <3> QED BY <2>1, <3>1 DEF LedPart!InTime
  <2>3. k \in 1..4 /\ k \in Nat
    BY <1>2, PendingFacts, FewWait
  <2>4. ToCome \in {0, 1} /\ k + ToCome \in Nat
    BY <2>3 DEF ToCome
  <2>5. Turns(k + ToCome) >= Latency /\ Turns(k + ToCome) \in Nat
    <3>1. Turns(k) >= Latency /\ Turns(k) \in Nat
      BY <2>3, TurnsFacts
    <3>2. Turns(k + 1) = Turns(k) + Latency
      BY <2>3, TurnsFacts
    <3>3. k + ToCome = k \/ k + ToCome = k + 1
      BY <2>3, <2>4
    <3> QED BY <1>1, <3>1, <3>2, <3>3
  <2>6. WaitEnds(k) >= since + Turns(k + ToCome) /\ WaitEnds(k) \in Nat
    BY <1>1, <2>3, <2>5, WaitEndsIs
  <2> QED BY <1>1, <2>2, <2>5, <2>6
<1>3. ASSUME pirPc = "led" PROVE uptime < pirWake + Latency + MaxBlock
  <2>1. LedPart!Blocked("pir")
    BY <1>3, SameSteps DEF Tick, Released
  <2>2. PICK k \in DOMAIN pending : pending[k].client = "pir"
    BY <2>1 DEF LedPart!Blocked
  <2> QED BY <1>1, <1>2, <2>2 DEF OnTime
<1>4. ASSUME dsPc = "led" PROVE uptime < dsWake + Latency + MaxBlock
  <2>1. LedPart!Blocked("driveway")
    BY <1>4, SameSteps DEF Tick, Released
  <2>2. PICK k \in DOMAIN pending : pending[k].client = "driveway"
    BY <2>1 DEF LedPart!Blocked
  <2> QED BY <1>1, <1>2, <2>2 DEF OnTime
<1> QED BY <1>3, <1>4

\* What a step of Node is to the clock and to the sensor that does not take it.
LEMMA CommandKeepsTime ==
  /\ \A call : LedPart!led_command(call) => uptime' = uptime
  /\ LedPart!LedThread => uptime' = uptime
BY DEF LedPart!led_command, LedPart!LedThread, LedPart!LedStart, LedPart!LedMessage,
       LedPart!LedTimeout, LedPart!GetTimesOut

\* The threads of both sensors make the steps of AlarmSensor, and no others.
LEMMA StepOfSensors ==
  ASSUME BlocksInTime, [Next]_vars
  PROVE  [Pir!Next]_(Pir!vars) /\ [Driveway!Next]_(Driveway!vars)
<1> USE DEF Pir!vars, Driveway!vars, pirVars, dsVars
<1>1. CASE CtMainStarts
  BY <1>1 DEF CtMainStarts, Driveway!Next, Driveway!Start
<1>2. CASE CtMainEnds
  BY <1>2 DEF CtMainEnds, Pir!Next, Pir!Start
<1>3. CASE PirMovesPin
  BY <1>3 DEF PirMovesPin, Pir!Next, Pir!PinChange
<1>4. CASE PirSampleSame
  BY <1>4 DEF PirSampleSame, Pir!Next, Pir!SampleSame
<1>5. CASE PirSampleEdge
  BY <1>5 DEF PirSampleEdge, Pir!Next, Pir!SampleEdge
<1>6. CASE PirReport
  BY <1>6 DEF PirReport, Pir!Next, Pir!Report
<1>7. CASE DrivewayMovesPin
  BY <1>7 DEF DrivewayMovesPin, Driveway!Next, Driveway!PinChange
<1>8. CASE DrivewaySampleSame
  BY <1>8 DEF DrivewaySampleSame, Driveway!Next, Driveway!SampleSame
<1>9. CASE DrivewaySampleEdge
  BY <1>9 DEF DrivewaySampleEdge, Driveway!Next, Driveway!SampleEdge
<1>10. CASE DrivewayReport
  BY <1>10 DEF DrivewayReport, Driveway!Next, Driveway!Report
<1>11. CASE AccelMoved \/ LedRuns
  <2>1. uptime' = uptime
    BY <1>11, SameSteps, CommandKeepsTime DEF AccelMoved, LedRuns
  <2> QED BY <1>11, <2>1 DEF AccelMoved, LedRuns
<1>12. CASE AccelStarts \/ AccelUplink \/ HasMoved \/ TimeIsOver \/ UNCHANGED vars
  BY <1>12 DEF AccelStarts, AccelUplink, HasMoved, TimeIsOver, vars
<1>13. CASE Tick
  <2>1. /\ uptime < MaxUptime /\ uptime' = uptime + 1
        /\ UNCHANGED <<pirVars, dsVars>>
        /\ pirPc = "asleep" => Pir!InTime
        /\ dsPc = "asleep" => Driveway!InTime
    BY <1>13 DEF Tick
  <2>2. /\ pirPc = "led" => uptime < pirWake + Latency + MaxBlock
        /\ dsPc = "led" => uptime < dsWake + Latency + MaxBlock
    BY <1>13, TickInTime
  <2>3. pirPc \in {"off", "asleep", "led"} /\ dsPc \in {"off", "asleep", "led"}
    BY DEF BlocksInTime, Started
  <2>4. Pir!InTime
    BY <2>1, <2>2, <2>3 DEF Pir!InTime
  <2>5. Driveway!InTime
    BY <2>1, <2>2, <2>3 DEF Driveway!InTime
  <2> QED BY <2>1, <2>4, <2>5 DEF Pir!Next, Pir!Tick, Driveway!Next, Driveway!Tick
<1> QED BY <1>1, <1>2, <1>3, <1>4, <1>5, <1>6, <1>7, <1>8, <1>9, <1>10, <1>11, <1>12, <1>13
        DEF Next

\* AlarmSensor assumes that led_command blocks a sensor for at most MaxBlock.
\* With four turns of the LED thread for MaxBlock, and an accelerometer that is
\* slower than that, it does: pir_thread is a sensor of AlarmSensor.
THEOREM PirIsAsSpecified ==
  ASSUME Timing
  PROVE  Spec => PirAsSpecified
<1>1. Init => Pir!Init
  BY DEF Init
<1> QED BY <1>1, StepOfSensors, BlocksInTimeHolds, PTL DEF Spec, PirAsSpecified, Pir!Spec

\* So is driveway_sensor_thread.
THEOREM DrivewayIsAsSpecified ==
  ASSUME Timing
  PROVE  Spec => DrivewayAsSpecified
<1>1. Init => Driveway!Init
  BY DEF Init
<1> QED BY <1>1, StepOfSensors, BlocksInTimeHolds, PTL
        DEF Spec, DrivewayAsSpecified, Driveway!Spec

-----------------------------------------------------------------------------
(* What the sensors promise, on the real queue                             *)

PirPart == INSTANCE AlarmSensor_proofs WITH
  InitialLast <- 2, AlarmLevel <- 1, FirstPoll <- 0,
  pin <- pir, pc <- pirPc, last <- last_pir, last_msg <- pirMsg,
  wakeAt <- pirWake, uplinks <- pirUplinks, pinSince <- pirSince,
  lastEdge <- pirEdge

DrivewayPart == INSTANCE AlarmSensor_proofs WITH
  InitialLast <- 1, AlarmLevel <- 0, FirstPoll <- 1,
  pin <- ds, pc <- dsPc, last <- last_ds, last_msg <- dsMsg,
  wakeAt <- dsWake, uplinks <- dsUplinks, pinSince <- dsSince,
  lastEdge <- dsEdge

LEMMA SensorsAssumed == PirPart!AlarmSensorConstants /\ DrivewayPart!AlarmSensorConstants
BY NodeConstants DEF PirPart!AlarmSensorConstants, DrivewayPart!AlarmSensorConstants,
                     PirPart!Levels, DrivewayPart!Levels

\* The two instances of AlarmSensor for the PIR take the same steps, and so do
\* those for the driveway sensor.
LEMMA SameSensors ==
  /\ Pir!Init => PirPart!Init
  /\ [Pir!Next]_(Pir!vars) => [PirPart!Next]_(PirPart!vars)
  /\ Driveway!Init => DrivewayPart!Init
  /\ [Driveway!Next]_(Driveway!vars) => [DrivewayPart!Next]_(DrivewayPart!vars)
<1>1. Pir!Init => PirPart!Init
  BY DEF Pir!Init, PirPart!Init, Pir!Levels, PirPart!Levels
<1>2. Driveway!Init => DrivewayPart!Init
  BY DEF Driveway!Init, DrivewayPart!Init, Driveway!Levels, DrivewayPart!Levels
<1>3. Pir!Next => PirPart!Next
  BY Zenon DEF Pir!Next, Pir!Start, Pir!PinChange, Pir!SampleSame, Pir!SampleEdge, Pir!Report,
         Pir!LimiterOpen, Pir!Secs, Pir!Tick, Pir!InTime,
         PirPart!Next, PirPart!Start, PirPart!PinChange, PirPart!SampleSame,
         PirPart!SampleEdge, PirPart!Report, PirPart!LimiterOpen, PirPart!Secs,
         PirPart!Tick, PirPart!InTime
<1>4. Driveway!Next => DrivewayPart!Next
  BY Zenon DEF Driveway!Next, Driveway!Start, Driveway!PinChange, Driveway!SampleSame,
         Driveway!SampleEdge, Driveway!Report, Driveway!LimiterOpen, Driveway!Secs,
         Driveway!Tick, Driveway!InTime,
         DrivewayPart!Next, DrivewayPart!Start, DrivewayPart!PinChange,
         DrivewayPart!SampleSame, DrivewayPart!SampleEdge, DrivewayPart!Report,
         DrivewayPart!LimiterOpen, DrivewayPart!Secs, DrivewayPart!Tick, DrivewayPart!InTime
<1>5. Pir!vars = PirPart!vars /\ (Pir!vars)' = (PirPart!vars)'
  BY DEF Pir!vars, PirPart!vars
<1>6. Driveway!vars = DrivewayPart!vars /\ (Driveway!vars)' = (DrivewayPart!vars)'
  BY DEF Driveway!vars, DrivewayPart!vars
<1> QED BY <1>1, <1>2, <1>3, <1>4, <1>5, <1>6

\* The invariants of AlarmSensor hold of both sensors.
LEMMA SensorsInvHolds ==
  ASSUME Timing
  PROVE  Spec => [](PirPart!IInv /\ DrivewayPart!IInv)
<1>1. /\ Init => PirPart!IInv /\ DrivewayPart!IInv
      /\ PirPart!IInv /\ [PirPart!Next]_(PirPart!vars) => PirPart!IInv'
      /\ DrivewayPart!IInv /\ [DrivewayPart!Next]_(DrivewayPart!vars) => DrivewayPart!IInv'
  BY SensorsAssumed, SameSensors, PirPart!InitIInv, PirPart!StepIInv,
     DrivewayPart!InitIInv, DrivewayPart!StepIInv DEF Init
<1>2. BlocksInTime /\ [Next]_vars =>
        [PirPart!Next]_(PirPart!vars) /\ [DrivewayPart!Next]_(DrivewayPart!vars)
  BY StepOfSensors, SameSensors
<1> QED BY <1>1, <1>2, BlocksInTimeHolds, PTL DEF Spec

\* In the firmware, with the delays that the queue causes and pins that move
\* whenever they like, also while led_command blocks their threads, no level goes
\* unnoticed that lasts longer than LevelNoticed says, and the modem is asked for
\* no two uplinks of a sensor within MinGap seconds.
THEOREM SensorsNoticeAndSpace ==
  ASSUME Timing
  PROVE  Spec => [](/\ Pir!LevelNoticed /\ Pir!AlarmsSpaced
                    /\ Driveway!LevelNoticed /\ Driveway!AlarmsSpaced)
<1>1. PirPart!IInv => Pir!LevelNoticed /\ Pir!AlarmsSpaced
  BY SensorsAssumed, PirPart!IInvNotices
     DEF PirPart!IInv, PirPart!LevelNoticed, Pir!LevelNoticed, PirPart!AlarmsSpaced,
         Pir!AlarmsSpaced
<1>2. DrivewayPart!IInv => Driveway!LevelNoticed /\ Driveway!AlarmsSpaced
  BY SensorsAssumed, DrivewayPart!IInvNotices
     DEF DrivewayPart!IInv, DrivewayPart!LevelNoticed, Driveway!LevelNoticed,
         DrivewayPart!AlarmsSpaced, Driveway!AlarmsSpaced
<1> QED BY <1>1, <1>2, SensorsInvHolds, PTL

\* In the firmware an alarm edge after a calm of more than MinGap seconds is never
\* suppressed, whoever else is on the queue.
THEOREM SensorsSendAfterCalm ==
  ASSUME Timing
  PROVE  Spec => Pir!SteadyEdgeAlarms /\ Driveway!SteadyEdgeAlarms
<1>1. BlocksInTime /\ PirPart!IInv /\ [Next]_vars => [PirPart!CalmEdgeSends]_(Pir!vars)
  <2>1. [Pir!Next]_(Pir!vars) => [PirPart!Next]_(PirPart!vars)
    BY SameSensors
  <2>2. PirPart!IInv /\ [PirPart!Next]_(PirPart!vars) => [PirPart!CalmEdgeSends]_(PirPart!vars)
    BY SensorsAssumed, PirPart!StepSends
  <2> QED BY <2>1, <2>2, StepOfSensors DEF PirPart!vars, Pir!vars
<1>2. BlocksInTime /\ DrivewayPart!IInv /\ [Next]_vars =>
        [DrivewayPart!CalmEdgeSends]_(Driveway!vars)
  <2>1. [Driveway!Next]_(Driveway!vars) => [DrivewayPart!Next]_(DrivewayPart!vars)
    BY SameSensors
  <2>2. DrivewayPart!IInv /\ [DrivewayPart!Next]_(DrivewayPart!vars) =>
          [DrivewayPart!CalmEdgeSends]_(DrivewayPart!vars)
    BY SensorsAssumed, DrivewayPart!StepSends
  <2> QED BY <2>1, <2>2, StepOfSensors DEF DrivewayPart!vars, Driveway!vars
<1> QED BY <1>1, <1>2, BlocksInTimeHolds, SensorsInvHolds, PTL
        DEF Spec, Pir!SteadyEdgeAlarms, Driveway!SteadyEdgeAlarms,
            PirPart!CalmEdgeSends, DrivewayPart!CalmEdgeSends,
            Pir!Secs, PirPart!Secs, Driveway!Secs, DrivewayPart!Secs

=============================================================================
