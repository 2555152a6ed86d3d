------------------------- MODULE ServiceCalls_proofs -------------------------
(* A call is always at one place: not made, on its way to the core, routed,  *)
(* on its way to the callee, answered, passed on, or in its placeholder.     *)
(* CallInv says so, call by call; everything else follows from it.           *)
EXTENDS ServiceCalls, TLAPS

ReplyTo(c, v) == ReplyPacket(IF v = "error" THEN "error" ELSE "callback", uniqId(c),
                             [of |-> c, verdict |-> v])
PassedOn(c, v) == ToMaker(IF v = "error" THEN "fault" ELSE "result", c,
                          [of |-> c, verdict |-> v])

Known(m) == \E c \in Call : \/ m = CallPacket(c)
                            \/ m = ExecPacket(c)
                            \/ \E v \in Verdict : m = ReplyTo(c, v)
                            \/ \E v \in Verdict : m = PassedOn(c, v) /\ Caller[c] \in Service

(* A call that did not run yet.                                              *)
UnderWay(c) ==
    /\ CallPacket(c) \in net => /\ pc[c] = "waiting"
                                /\ ran[c] = Nothing
                                /\ c \notin routing
                                /\ ExecPacket(c) \notin net
    /\ c \in routing => /\ pc[c] = "waiting"
                        /\ ran[c] = Nothing
                        /\ ExecPacket(c) \notin net
    /\ ExecPacket(c) \in net => pc[c] = "waiting" /\ ran[c] = Nothing
    /\ pc[c] \in {"new", "refused"} => ran[c] = Nothing

(* A call that ran: its answer is in one place and it is its own.            *)
Replied(c) ==
    /\ ran[c] = Nothing => /\ ~box[c].set
                           /\ c \notin writing
    /\ \A v \in Verdict : ReplyTo(c, v) \in net =>
            /\ v = ran[c]
            /\ ~box[c].set
            /\ \A w \in Verdict : PassedOn(c, w) \notin net
    /\ \A v \in Verdict : PassedOn(c, v) \in net =>
            /\ v = ran[c]
            /\ ~box[c].set
            /\ Caller[c] \in Service

(* The placeholder.                                                          *)
Boxed(c) ==
    /\ box[c].data # Nothing => box[c].data = [of |-> c, verdict |-> ran[c]]
    /\ box[c].set /\ box[c].data = Nothing => Caller[c] = Core /\ ran[c] = "error"
    /\ box[c].isException => ran[c] = "error"
    /\ box[c].set /\ ran[c] = "error" /\ Caller[c] \in Service =>
            box[c].isException \/ c \in writing
    /\ c \in writing => /\ ran[c] = "error"
                        /\ box[c].set
                        /\ Caller[c] \in Service => pc[c] \in {"waiting", "copied"}

(* What the maker has taken from it.                                         *)
Taken(c) ==
    /\ pc[c] \in {"new", "waiting", "refused"} => got[c] = Nothing
    /\ pc[c] \in {"copied", "returned", "raised"} =>
            /\ box[c].set
            /\ got[c] # Nothing => got[c] = [of |-> c, verdict |-> ran[c]]
            /\ got[c] = Nothing => Caller[c] = Core /\ ran[c] = "error"
    /\ pc[c] \in {"copied", "raised"} => Caller[c] \in Service
    /\ pc[c] = "returned" /\ Caller[c] \in Service => ran[c] # "error"
    /\ pc[c] = "raised" => ran[c] = "error"

CallInv(c) == UnderWay(c) /\ Replied(c) /\ Boxed(c) /\ Taken(c)

CheckInv(c) == (ExecPacket(c) \in net \/ ran[c] # Nothing) =>
                    Check[c] \in {k \in Call : ran[k] = "yes"} \cup {NoCheck}

Inv == /\ TypeOK
       /\ \A m \in net : Known(m)
       /\ \A c \in Call : CallInv(c)
       /\ \A c \in Call : CheckInv(c)
-----------------------------------------------------------------------------
(* The four packets of a call are distinct, and no other call has them.      *)
LEMMA PacketsDiffer ==
  ASSUME NEW c \in Call, NEW d \in Call, NEW v \in Verdict, NEW w \in Verdict
  PROVE  /\ CallPacket(c) = CallPacket(d) => c = d
         /\ ExecPacket(c) = ExecPacket(d) => c = d
         /\ ReplyTo(c, v) = ReplyTo(d, w) => c = d /\ v = w
         /\ PassedOn(c, v) = PassedOn(d, w) => c = d /\ v = w
         /\ CallPacket(c) # ExecPacket(d)
         /\ CallPacket(c) # ReplyTo(d, w)
         /\ CallPacket(c) # PassedOn(d, w)
         /\ ExecPacket(c) # ReplyTo(d, w)
         /\ ExecPacket(c) # PassedOn(d, w)
         /\ ReplyTo(c, v) # PassedOn(d, w)
<1>1. /\ CallPacket(c).type = "call"
      /\ CallPacket(c).call = c
      /\ CallPacket(d).call = d
  BY DEF CallPacket
<1>2. /\ ExecPacket(c).type = "exec" /\ ExecPacket(d).type = "exec"
      /\ ExecPacket(c).call = c /\ ExecPacket(d).call = d
  BY DEF ExecPacket
<1>3. /\ ReplyTo(c, v).type \in {"error", "callback"}
      /\ ReplyTo(d, w).type \in {"error", "callback"}
      /\ ReplyTo(c, v).answer = [of |-> c, verdict |-> v]
      /\ ReplyTo(d, w).answer = [of |-> d, verdict |-> w]
  BY DEF ReplyTo, ReplyPacket
<1>4. /\ PassedOn(c, v).type \in {"fault", "result"}
      /\ PassedOn(d, w).type \in {"fault", "result"}
      /\ PassedOn(c, v).answer = [of |-> c, verdict |-> v]
      /\ PassedOn(d, w).answer = [of |-> d, verdict |-> w]
  BY DEF PassedOn, ToMaker
<1>5. [of |-> c, verdict |-> v] = [of |-> d, verdict |-> w] => c = d /\ v = w
  OBVIOUS
<1> QED
  BY <1>1, <1>2, <1>3, <1>4, <1>5

(* uniqId() tells calls apart.                                               *)
LEMMA KeysDiffer ==
  ASSUME NEW c \in Call, NEW d \in Call, uniqId(c) = uniqId(d)
  PROVE  c = d
BY IdentityAssumption DEF uniqId

(* Packets are what Packet says.                                             *)
LEMMA KnownIsPacket ==
  ASSUME NEW m, Known(m)
  PROVE  m \in Packet
<1>1. PICK c \in Call : \/ m = CallPacket(c)
                        \/ m = ExecPacket(c)
                        \/ \E v \in Verdict : m = ReplyTo(c, v)
                        \/ \E v \in Verdict : m = PassedOn(c, v) /\ Caller[c] \in Service
  BY DEF Known
<1>2. CASE m = CallPacket(c)
  BY <1>2 DEF CallPacket, Packet
<1>3. CASE m = ExecPacket(c)
  BY <1>3 DEF ExecPacket, Packet
<1>4. ASSUME NEW v \in Verdict, m = ReplyTo(c, v)
      PROVE  m \in Packet
  BY <1>4 DEF ReplyTo, ReplyPacket, Packet, Answer
<1>5. ASSUME NEW v \in Verdict, m = PassedOn(c, v), Caller[c] \in Service
      PROVE  m \in Packet
  BY <1>5 DEF PassedOn, ToMaker, Packet, Answer
<1> QED
  BY <1>1, <1>2, <1>3, <1>4, <1>5

(* The answer that a callee has sent, as the core reads it.                  *)
LEMMA ReadReply ==
  ASSUME NEW m, Known(m), m.type \in {"callback", "error"}, NEW c \in Call, uniqId(c) = m.id
  PROVE  \E v \in Verdict : /\ m = ReplyTo(c, v)
                            /\ m.answer = [of |-> c, verdict |-> v]
                            /\ m.type = "error" <=> v = "error"
<1>1. PICK d \in Call, v \in Verdict : m = ReplyTo(d, v)
  BY DEF Known, CallPacket, ExecPacket, PassedOn, ToMaker
<1>2. m.id = uniqId(d) /\ m.answer = [of |-> d, verdict |-> v] /\ (m.type = "error" <=> v = "error")
  BY <1>1 DEF ReplyTo, ReplyPacket
<1>3. d = c
  BY <1>2, KeysDiffer
<1> QED
  BY <1>1, <1>2, <1>3

(* The answer that the core has passed on, as the maker reads it.            *)
LEMMA ReadPassedOn ==
  ASSUME NEW m, Known(m), m.type \in {"result", "fault"}, NEW c \in Call, Addressee(m, c)
  PROVE  \E v \in Verdict : /\ m = PassedOn(c, v)
                            /\ m.answer = [of |-> c, verdict |-> v]
                            /\ m.type = "fault" <=> v = "error"
<1>1. PICK d \in Call, v \in Verdict : m = PassedOn(d, v)
  BY DEF Known, CallPacket, ExecPacket, ReplyTo, ReplyPacket
<1>2. /\ m.maker = Caller[d] /\ m.id = Identity[d] /\ m.answer = [of |-> d, verdict |-> v]
      /\ m.type = "fault" <=> v = "error"
  BY <1>1 DEF PassedOn, ToMaker
<1>3. d = c
  BY <1>2, IdentityAssumption DEF Addressee
<1> QED
  BY <1>1, <1>2, <1>3
-----------------------------------------------------------------------------
(* What a step leaves alone about a call.                                    *)
SameMaker(d) ==
  /\ pc'[d] = pc[d] /\ box'[d] = box[d] /\ got'[d] = got[d] /\ ran'[d] = ran[d]
  /\ d \in writing' <=> d \in writing

NoNewAnswer(d) ==
  \A v \in Verdict :
      /\ ReplyTo(d, v) \in net' => ReplyTo(d, v) \in net
      /\ PassedOn(d, v) \in net' => PassedOn(d, v) \in net

NoNewPacket(d) ==
  /\ d \in routing' => d \in routing
  /\ CallPacket(d) \in net' => CallPacket(d) \in net
  /\ ExecPacket(d) \in net' => ExecPacket(d) \in net
  /\ NoNewAnswer(d)

LEMMA AnswersUntouched ==
  ASSUME NEW d \in Call, CallInv(d), box'[d] = box[d], ran'[d] = ran[d],
         d \in writing' <=> d \in writing, NoNewAnswer(d)
  PROVE  Replied(d)'
<1>1. Replied(d)
  BY DEF CallInv
<1>2. ran'[d] = Nothing => ~box'[d].set /\ d \notin writing'
  BY <1>1 DEF Replied
<1>3. ASSUME NEW v \in Verdict, ReplyTo(d, v) \in net'
      PROVE  v = ran'[d] /\ ~box'[d].set /\ \A w \in Verdict : PassedOn(d, w) \notin net'
  BY <1>1, <1>3 DEF Replied, NoNewAnswer
<1>4. ASSUME NEW v \in Verdict, PassedOn(d, v) \in net'
      PROVE  v = ran'[d] /\ ~box'[d].set /\ Caller[d] \in Service
  BY <1>1, <1>4 DEF Replied, NoNewAnswer
<1> QED
  BY <1>2, <1>3, <1>4 DEF Replied

LEMMA Untouched ==
  ASSUME NEW d \in Call, CallInv(d), SameMaker(d), NoNewPacket(d)
  PROVE  CallInv(d)'
<1>1. UnderWay(d)'
  BY DEF CallInv, UnderWay, SameMaker, NoNewPacket
<1>2. Replied(d)'
  BY AnswersUntouched DEF SameMaker, NoNewPacket
<1>3. Boxed(d)'
  BY DEF CallInv, Boxed, SameMaker
<1>4. Taken(d)'
  BY DEF CallInv, Taken, SameMaker
<1> QED
  BY <1>1, <1>2, <1>3, <1>4 DEF CallInv

(* Packets that only disappear, and one new packet of call c.                *)
LEMMA FewerPackets ==
  ASSUME net' \subseteq net, routing' \subseteq routing, NEW d \in Call
  PROVE  NoNewPacket(d)
BY DEF NoNewPacket, NoNewAnswer

LEMMA OnePacketMore ==
  ASSUME NEW c \in Call, NEW d \in Call, d # c, routing' \subseteq routing \cup {c}, NEW v \in Verdict,
         net' \subseteq net \cup {CallPacket(c), ExecPacket(c), ReplyTo(c, v), PassedOn(c, v)}
  PROVE  NoNewPacket(d)
<1>1. ASSUME NEW w \in Verdict
      PROVE  /\ {CallPacket(d), ExecPacket(d), ReplyTo(d, w), PassedOn(d, w)}
                \cap {CallPacket(c), ExecPacket(c), ReplyTo(c, v), PassedOn(c, v)} = {}
  BY PacketsDiffer
<1> QED
  BY <1>1 DEF NoNewPacket, NoNewAnswer

LEMMA KnownPackets ==
  ASSUME NEW c \in Call, NEW v \in Verdict
  PROVE  /\ Known(CallPacket(c))
         /\ Known(ExecPacket(c))
         /\ Known(ReplyTo(c, v))
         /\ Caller[c] \in Service => Known(PassedOn(c, v))
BY DEF Known

LEMMA KnownIsNet ==
  ASSUME NEW S, \A m \in S : Known(m)
  PROVE  S \in SUBSET Packet
BY KnownIsPacket
-----------------------------------------------------------------------------
(* The steps of a call, one lemma each.                                      *)
Safe == /\ \A m \in net : Known(m)
        /\ \A c \in Call : CallInv(c)
        /\ \A c \in Call : CheckInv(c)

LEMMA ChecksKept ==
  ASSUME \A d \in Call : CheckInv(d), ran' = ran,
         \A d \in Call : ExecPacket(d) \in net' => ExecPacket(d) \in net
  PROVE  \A d \in Call : CheckInv(d)'
BY DEF CheckInv

(* A step about call c touches no other call and adds no packet of another.  *)
StepOf(c, v) ==
  /\ pc' = pc \/ /\ pc' = [pc EXCEPT ![c] = pc'[c]]
                 /\ pc'[c] \in {"waiting", "copied", "returned", "raised", "refused"}
  /\ box' = box \/ /\ box' = [box EXCEPT ![c] = box'[c]]
                   /\ box'[c] \in [set : BOOLEAN, data : Answer \cup {Nothing},
                                   isException : BOOLEAN]
  /\ got' = got \/ /\ got' = [got EXCEPT ![c] = got'[c]]
                   /\ got'[c] \in Answer \cup {Nothing}
  /\ ran' = ran \/ /\ ran' = [ran EXCEPT ![c] = ran'[c]]
                   /\ ran'[c] \in Verdict
  /\ writing' \subseteq writing \cup {c} /\ writing \subseteq writing' \cup {c}
  /\ routing' \subseteq routing \cup {c}
  /\ net' \subseteq net \cup {CallPacket(c), ExecPacket(c), ReplyTo(c, v), PassedOn(c, v)}
  /\ PassedOn(c, v) \in net' => PassedOn(c, v) \in net \/ Caller[c] \in Service
  /\ online' = online /\ commandList' = commandList
  /\ idList' \in SUBSET Call /\ callbackList' \in SUBSET Call /\ disturbed' \in SUBSET Call

LEMMA StepOfOneCall ==
  ASSUME TypeOK, Safe, NEW c \in Call, NEW v \in Verdict, StepOf(c, v),
         CallInv(c)', \A d \in Call : CheckInv(d)'
  PROVE  TypeOK' /\ Safe'
<1>1. \A m \in net' : Known(m)
  BY KnownPackets DEF Safe, StepOf
<1>2. TypeOK'
  <2>1. pc' \in [Call -> {"new", "waiting", "copied", "returned", "raised", "refused"}]
    BY DEF TypeOK, StepOf
  <2>2. box' \in [Call -> [set : BOOLEAN, data : Answer \cup {Nothing}, isException : BOOLEAN]]
    BY DEF TypeOK, StepOf
  <2>3. got' \in [Call -> Answer \cup {Nothing}] /\ ran' \in [Call -> Verdict \cup {Nothing}]
    BY DEF TypeOK, StepOf
  <2> QED
    BY <1>1, <2>1, <2>2, <2>3, KnownIsNet DEF TypeOK, StepOf
<1>3. ASSUME NEW d \in Call, d # c
      PROVE  CallInv(d)'
  <2>1. SameMaker(d)
    BY <1>3 DEF TypeOK, SameMaker, StepOf
  <2>2. NoNewPacket(d)
    BY <1>3, OnePacketMore DEF StepOf
  <2> QED
    BY <2>1, <2>2, Untouched DEF Safe
<1> QED
  BY <1>1, <1>2, <1>3 DEF Safe

(* The maker makes the call.                                                 *)
LEMMA RunCommandSync ==
  ASSUME TypeOK, Safe, NEW c \in Call, runCommandSync(c)
  PROVE  TypeOK' /\ Safe'
<1>1. /\ UNCHANGED <<box, got, writing, online, commandList, callbackList, routing, ran>>
      /\ pc[c] = "new" /\ Caller[c] \in Service
      /\ net' \subseteq net \cup {CallPacket(c)}
      /\ idList' \in SUBSET Call /\ disturbed' \in SUBSET Call
  BY DEF runCommandSync, coreVars, TypeOK
<1>2. /\ pc' = [pc EXCEPT ![c] = pc'[c]]
      /\ \/ pc'[c] = "waiting"
         \/ pc'[c] = "refused" /\ net' = net
  BY DEF runCommandSync, TypeOK
<1>3. /\ CallInv(c) /\ ran[c] = Nothing /\ got[c] = Nothing
      /\ CallPacket(c) \notin net /\ ExecPacket(c) \notin net /\ c \notin routing
  BY <1>1 DEF Safe, CallInv, UnderWay, Taken
<1>4. StepOf(c, "yes")
  BY <1>1, <1>2, PacketsDiffer DEF StepOf, TypeOK, Verdict
<1>5. CallInv(c)'
  <2>1. ExecPacket(c) \notin net' /\ (pc'[c] = "refused" => CallPacket(c) \notin net')
    BY <1>1, <1>2, <1>3, PacketsDiffer DEF Verdict
  <2>2. UnderWay(c)'
    BY <2>1, <1>1, <1>2, <1>3 DEF UnderWay
  <2>3. NoNewAnswer(c)
    BY <1>1, PacketsDiffer DEF NoNewAnswer
  <2>4. Replied(c)'
    BY <1>1, <1>3, <2>3, AnswersUntouched
  <2>5. Boxed(c)'
    BY <1>1, <1>3 DEF CallInv, Boxed, Replied
  <2>6. Taken(c)'
    BY <1>1, <1>2, <1>3 DEF Taken
  <2> QED
    BY <2>2, <2>4, <2>5, <2>6 DEF CallInv
<1>6. \A d \in Call : CheckInv(d)'
  <2>1. \A d \in Call : ExecPacket(d) \in net' => ExecPacket(d) \in net
    BY <1>1, PacketsDiffer DEF Verdict
  <2> QED
    BY <2>1, <1>1, ChecksKept DEF Safe
<1> QED
  BY <1>4, <1>5, <1>6, StepOfOneCall DEF Verdict

(* The maker copies the data of its placeholder.                             *)
LEMMA CopyDataKeeps ==
  ASSUME TypeOK, Safe, NEW c \in Call, CopyData(c)
  PROVE  TypeOK' /\ Safe'
<1>1. /\ UNCHANGED <<box, idList, writing, online, commandList, callbackList, routing, net, ran,
                     disturbed>>
      /\ pc[c] = "waiting" /\ Caller[c] \in Service /\ box[c].set
      /\ pc' = [pc EXCEPT ![c] = pc'[c]] /\ pc'[c] = "copied"
      /\ got' = [got EXCEPT ![c] = got'[c]] /\ got'[c] = box[c].data
  BY DEF CopyData, coreVars, TypeOK
<1>2. CallInv(c) /\ ran[c] # Nothing
  BY <1>1 DEF Safe, CallInv, Replied
<1>3. StepOf(c, "yes")
  BY <1>1 DEF StepOf, TypeOK, Safe, Known
<1>4. CallInv(c)'
  <2>1. UnderWay(c)'
    BY <1>1, <1>2 DEF CallInv, UnderWay
  <2>2. Replied(c)'
    BY <1>1, <1>2, AnswersUntouched DEF NoNewAnswer
  <2>3. Boxed(c)'
    BY <1>1, <1>2 DEF CallInv, Boxed
  <2>4. Taken(c)'
    BY <1>1, <1>2, CallsAssumption DEF CallInv, Boxed, Taken
  <2> QED
    BY <2>1, <2>2, <2>3, <2>4 DEF CallInv
<1>5. \A d \in Call : CheckInv(d)'
  BY <1>1, ChecksKept DEF Safe
<1> QED
  BY <1>3, <1>4, <1>5, StepOfOneCall DEF Verdict

(* It erases its placeholder and returns or raises.                          *)
LEMMA FinishCallKeeps ==
  ASSUME TypeOK, Safe, NEW c \in Call, FinishCall(c)
  PROVE  TypeOK' /\ Safe'
<1>1. /\ UNCHANGED <<box, got, writing, online, commandList, callbackList, routing, net, ran,
                     disturbed>>
      /\ pc[c] = "copied" /\ c \notin writing
      /\ idList' \in SUBSET Call
      /\ pc' = [pc EXCEPT ![c] = pc'[c]]
      /\ pc'[c] = IF box[c].isException THEN "raised" ELSE "returned"
  BY DEF FinishCall, IdListFree, coreVars, TypeOK
<1>2. CallInv(c) /\ ran[c] # Nothing
  BY <1>1 DEF Safe, CallInv, Replied, Taken
<1>3. StepOf(c, "yes")
  BY <1>1 DEF StepOf, TypeOK, Safe, Known
<1>4. CallInv(c)'
  <2>1. UnderWay(c)'
    BY <1>1, <1>2 DEF CallInv, UnderWay
  <2>2. Replied(c)'
    BY <1>1, <1>2, AnswersUntouched DEF NoNewAnswer
  <2>3. Boxed(c)'
    BY <1>1, <1>2 DEF CallInv, Boxed
  <2>4. Taken(c)'
    BY <1>1, <1>2 DEF CallInv, Boxed, Taken
  <2> QED
    BY <2>1, <2>2, <2>3, <2>4 DEF CallInv
<1>5. \A d \in Call : CheckInv(d)'
  BY <1>1, ChecksKept DEF Safe
<1> QED
  BY <1>3, <1>4, <1>5, StepOfOneCall DEF Verdict

(* The core stores the callback.                                             *)
LEMMA CallCommandKeeps ==
  ASSUME TypeOK, Safe, NEW c \in Call, callCommand(c)
  PROVE  TypeOK' /\ Safe'
<1>1. /\ UNCHANGED <<pc, box, got, idList, writing, online, commandList, ran>>
      /\ CallPacket(c) \in net
      /\ net' = net \ {CallPacket(c)}
      /\ callbackList' \in SUBSET Call /\ disturbed' \in SUBSET Call
      /\ routing' \subseteq routing \cup {c}
  BY DEF callCommand, makerVars, Stored, Refused, TypeOK
<1>2. CallInv(c) /\ pc[c] = "waiting" /\ ran[c] = Nothing /\ ExecPacket(c) \notin net
  BY <1>1 DEF Safe, CallInv, UnderWay
<1>3. StepOf(c, "yes")
  BY <1>1 DEF StepOf, TypeOK
<1>4. CallInv(c)'
  <2>1. UnderWay(c)'
    BY <1>1, <1>2 DEF UnderWay
  <2>2. Replied(c)'
    BY <1>1, <1>2, AnswersUntouched DEF NoNewAnswer
  <2>3. Boxed(c)' /\ Taken(c)'
    BY <1>1, <1>2 DEF CallInv, Boxed, Taken
  <2> QED
    BY <2>1, <2>2, <2>3 DEF CallInv
<1>5. \A d \in Call : CheckInv(d)'
  BY <1>1, ChecksKept DEF Safe
<1> QED
  BY <1>3, <1>4, <1>5, StepOfOneCall DEF Verdict

(* The core forwards the call if its permission check came to a yes.         *)
LEMMA SendMessageKeeps ==
  ASSUME TypeOK, Safe, NEW c \in Call, sendMessage(c)
  PROVE  TypeOK' /\ Safe'
<1>1. /\ UNCHANGED <<pc, box, got, idList, writing, online, commandList, callbackList, ran>>
      /\ c \in routing
      /\ routing' = routing \ {c}
      /\ net' \subseteq net \cup {ExecPacket(c)}
      /\ disturbed' \in SUBSET Call
      /\ Checked(c) \/ net' = net
  BY DEF sendMessage, makerVars, Refused, Send, TypeOK
<1>2. /\ CallInv(c) /\ pc[c] = "waiting" /\ ran[c] = Nothing
      /\ CallPacket(c) \notin net /\ ExecPacket(c) \notin net
  BY <1>1 DEF Safe, CallInv, UnderWay
<1>3. StepOf(c, "yes")
  BY <1>1, PacketsDiffer DEF StepOf, TypeOK, Verdict
<1>4. CallInv(c)'
  <2>1. CallPacket(c) \notin net'
    BY <1>1, <1>2, PacketsDiffer DEF Verdict
  <2>2. UnderWay(c)'
    BY <1>1, <1>2, <2>1 DEF UnderWay
  <2>3. NoNewAnswer(c)
    BY <1>1, PacketsDiffer DEF NoNewAnswer
  <2>4. Replied(c)'
    BY <1>1, <1>2, <2>3, AnswersUntouched
  <2>5. Boxed(c)' /\ Taken(c)'
    BY <1>1, <1>2 DEF CallInv, Boxed, Taken
  <2> QED
    BY <2>2, <2>4, <2>5 DEF CallInv
<1>5. Checked(c) => Check[c] \in {k \in Call : ran[k] = "yes"} \cup {NoCheck}
  <2>1. ASSUME NEW k \in Call, pc[k] = "returned", got[k] # Nothing, got[k].verdict = "yes"
        PROVE  ran[k] = "yes"
    <3>1. Taken(k)
      BY DEF Safe, CallInv
    <3>2. got[k] = [of |-> k, verdict |-> ran[k]]
      BY <2>1, <3>1 DEF Taken
    <3> QED
      BY <2>1, <3>2
  <2> QED
    BY <2>1 DEF Checked, Granted
<1>6. \A d \in Call : CheckInv(d)'
  <2>1. \A d \in Call : d # c => (ExecPacket(d) \in net' => ExecPacket(d) \in net)
    BY <1>1, PacketsDiffer DEF Verdict
  <2> QED
    BY <1>1, <1>2, <1>5, <2>1 DEF Safe, CheckInv
<1> QED
  BY <1>3, <1>4, <1>6, StepOfOneCall DEF Verdict

(* The core makes a call of its own.                                         *)
LEMMA CallCommandSyncKeeps ==
  ASSUME TypeOK, Safe, NEW c \in Call, callCommandSync(c)
  PROVE  TypeOK' /\ Safe'
<1>1. /\ UNCHANGED <<box, got, writing, online, commandList, net, ran>>
      /\ pc[c] = "new" /\ disturbed' = disturbed
      /\ callbackList' \in SUBSET Call /\ idList' \in SUBSET Call
      /\ pc' = [pc EXCEPT ![c] = pc'[c]]
      /\ \/ pc'[c] = "waiting" /\ routing' = routing \cup {c}
         \/ pc'[c] = "refused" /\ routing' = routing
  BY DEF callCommandSync, Stored, TypeOK
<1>2. /\ CallInv(c) /\ ran[c] = Nothing /\ got[c] = Nothing
      /\ CallPacket(c) \notin net /\ ExecPacket(c) \notin net /\ c \notin routing
  BY <1>1 DEF Safe, CallInv, UnderWay, Taken
<1>3. StepOf(c, "yes")
  BY <1>1 DEF StepOf, TypeOK
<1>4. CallInv(c)'
  <2>1. UnderWay(c)'
    BY <1>1, <1>2 DEF UnderWay
  <2>2. Replied(c)'
    BY <1>1, <1>2, AnswersUntouched DEF NoNewAnswer
  <2>3. Boxed(c)'
    BY <1>1, <1>2 DEF CallInv, Boxed, Replied
  <2>4. Taken(c)'
    BY <1>1, <1>2 DEF Taken
  <2> QED
    BY <2>1, <2>2, <2>3, <2>4 DEF CallInv
<1>5. \A d \in Call : CheckInv(d)'
  BY <1>1, ChecksKept DEF Safe
<1> QED
  BY <1>3, <1>4, <1>5, StepOfOneCall DEF Verdict

(* The spin of a call of the core ends.                                      *)
LEMMA ReturnCoreCallKeeps ==
  ASSUME TypeOK, Safe, NEW c \in Call, ReturnCoreCall(c)
  PROVE  TypeOK' /\ Safe'
<1>1. /\ UNCHANGED <<box, idList, writing, online, commandList, callbackList, routing, net, ran,
                     disturbed>>
      /\ pc[c] = "waiting" /\ Caller[c] = Core /\ box[c].set
      /\ pc' = [pc EXCEPT ![c] = pc'[c]] /\ pc'[c] = "returned"
      /\ got' = [got EXCEPT ![c] = got'[c]] /\ got'[c] = box[c].data
  BY DEF ReturnCoreCall, CoreCalls, coreVars, TypeOK
<1>2. CallInv(c) /\ ran[c] # Nothing /\ Caller[c] \notin Service
  BY <1>1, CallsAssumption DEF Safe, CallInv, Replied
<1>3. StepOf(c, "yes")
  BY <1>1 DEF StepOf, TypeOK, Safe, Known
<1>4. CallInv(c)'
  <2>1. UnderWay(c)'
    BY <1>1, <1>2 DEF CallInv, UnderWay
  <2>2. Replied(c)'
    BY <1>1, <1>2, AnswersUntouched DEF NoNewAnswer
  <2>3. Boxed(c)'
    BY <1>1, <1>2 DEF CallInv, Boxed
  <2>4. Taken(c)'
    BY <1>1, <1>2 DEF CallInv, Boxed, Taken
  <2> QED
    BY <2>1, <2>2, <2>3, <2>4 DEF CallInv
<1>5. \A d \in Call : CheckInv(d)'
  BY <1>1, ChecksKept DEF Safe
<1> QED
  BY <1>3, <1>4, <1>5, StepOfOneCall DEF Verdict

(* The command runs and the callee answers.                                  *)
LEMMA DatareceiveKeeps ==
  ASSUME TypeOK, Safe, NEW c \in Call, datareceive(c)
  PROVE  TypeOK' /\ Safe'
<1>0. ExecPacket(c).id = uniqId(c)
  BY DEF ExecPacket
<1>1. PICK v \in Verdict :
        /\ ran' = [ran EXCEPT ![c] = v]
        /\ net' = (net \ {ExecPacket(c)}) \cup
                  (IF Callee[c] \in online THEN {ReplyTo(c, v)} ELSE {})
  BY <1>0 DEF datareceive, ReplyTo
<1>2. /\ UNCHANGED <<pc, box, got, idList, writing, online, commandList, callbackList, routing>>
      /\ ExecPacket(c) \in net /\ disturbed' \in SUBSET Call /\ ran'[c] = v
  BY <1>1 DEF datareceive, makerVars, coreVars, TypeOK
<1>3. /\ net' \subseteq net \cup {ReplyTo(c, v)} /\ ExecPacket(c) \notin net'
  BY <1>1, PacketsDiffer
<1>4. /\ CallInv(c) /\ ran[c] = Nothing /\ pc[c] = "waiting" /\ v # Nothing
      /\ CallPacket(c) \notin net /\ c \notin routing
      /\ ~box[c].set /\ c \notin writing
  BY <1>2, CallsAssumption DEF Safe, CallInv, UnderWay, Replied
<1>5. \A w \in Verdict : PassedOn(c, w) \notin net /\ ReplyTo(c, w) \notin net
  BY <1>4, CallsAssumption DEF CallInv, Replied
<1>6. StepOf(c, v)
  BY <1>1, <1>2, <1>3, PacketsDiffer DEF StepOf, TypeOK
<1>7. CallInv(c)'
  <2>1. UnderWay(c)'
    BY <1>2, <1>3, <1>4, PacketsDiffer DEF UnderWay
  <2>2. Replied(c)'
    BY <1>2, <1>3, <1>4, <1>5, PacketsDiffer DEF Replied
  <2>3. box[c].data = Nothing
    <3>1. box[c].data \in Answer \cup {Nothing}
      BY DEF TypeOK
    <3>2. box[c].data # Nothing => box[c].data.verdict = Nothing
      BY <1>4 DEF CallInv, Boxed
    <3> QED
      BY <3>1, <3>2, CallsAssumption DEF Answer
  <2>4. Boxed(c)' /\ Taken(c)'
    <3>1. ~box[c].isException
      BY <1>4, CallsAssumption DEF CallInv, Boxed, Verdict
    <3>2. Boxed(c)'
      BY <1>2, <1>4, <2>3, <3>1 DEF Boxed
    <3>3. Taken(c)'
      BY <1>2, <1>4 DEF CallInv, Taken
    <3> QED
      BY <3>2, <3>3
  <2> QED
    BY <2>1, <2>2, <2>4 DEF CallInv
<1>8. ASSUME NEW d \in Call
      PROVE  CheckInv(d)'
  <2>1. ExecPacket(d) \in net' => ExecPacket(d) \in net
    BY <1>3, PacketsDiffer
  <2>2. d # c => ran'[d] = ran[d]
    BY <1>1 DEF TypeOK
  <2>3. \A k \in Call : ran[k] = "yes" => ran'[k] = "yes"
    BY <1>1, <1>4, CallsAssumption DEF TypeOK, Verdict
  <2> QED
    BY <1>2, <2>1, <2>2, <2>3 DEF Safe, CheckInv
<1> QED
  BY <1>6, <1>7, <1>8, StepOfOneCall

(* The placeholder of c is filled.                                           *)
LEMMA FilledBox ==
  ASSUME TypeOK, NEW c \in Call, NEW a \in Answer, NEW exc \in BOOLEAN, box' = Given(c, a, exc)
  PROVE  /\ box' = [box EXCEPT ![c] = box'[c]]
         /\ box'[c] = [set |-> TRUE, data |-> a, isException |-> exc]
         /\ box'[c] \in [set : BOOLEAN, data : Answer \cup {Nothing}, isException : BOOLEAN]
<1>1. box'[c] = [set |-> TRUE, data |-> a, isException |-> exc]
  BY DEF Given, TypeOK
<1>2. box' = [box EXCEPT ![c] = box'[c]]
  BY <1>1 DEF Given
<1>3. box'[c] \in [set : BOOLEAN, data : Answer \cup {Nothing}, isException : BOOLEAN]
  BY <1>1
<1> QED
  BY <1>1, <1>2, <1>3

(* The core hands the answer to its placeholder or passes it on.             *)
LEMMA CallCallbackKeeps ==
  ASSUME TypeOK, Safe, NEW c \in Call, NEW m \in net, callCallback(m, c)
  PROVE  TypeOK' /\ Safe'
<1>1. PICK v \in Verdict : /\ m = ReplyTo(c, v)
                           /\ m.answer = [of |-> c, verdict |-> v]
                           /\ v # "error"
  BY ReadReply DEF Safe, callCallback
<1>2. /\ CallInv(c) /\ v = ran[c] /\ ~box[c].set /\ \A w \in Verdict : PassedOn(c, w) \notin net
      /\ ran[c] # Nothing
  BY <1>1, CallsAssumption DEF Safe, CallInv, Replied
<1>3. PassedOn(c, v) = ToMaker("result", c, m.answer)
  BY <1>1 DEF PassedOn
<1>4. /\ UNCHANGED <<pc, got, idList, writing, online, commandList, routing, ran, disturbed>>
      /\ callbackList' \in SUBSET Call
      /\ net' \subseteq net \cup {PassedOn(c, v)}
      /\ \/ /\ Caller[c] = Core /\ box' = Given(c, m.answer, FALSE) /\ net' = net \ {m}
         \/ /\ Caller[c] \in Service /\ box' = box
            /\ net' \subseteq (net \ {m}) \cup {PassedOn(c, v)}
  BY <1>3 DEF callCallback, CoreCalls, TypeOK
<1>5. box'[c] = [set |-> TRUE, data |-> m.answer, isException |-> FALSE] \/ box' = box
  BY <1>4 DEF Given, TypeOK
<1>6. StepOf(c, v)
  <2>1. box' = box \/ /\ box' = [box EXCEPT ![c] = box'[c]]
                      /\ box'[c] \in [set : BOOLEAN, data : Answer \cup {Nothing},
                                      isException : BOOLEAN]
    <3>1. m.answer \in Answer
      BY <1>1 DEF Answer
    <3>2. CASE box' = box
      BY <3>2
    <3>3. CASE box' = Given(c, m.answer, FALSE)
      BY <3>1, <3>3, FilledBox
    <3> QED
      BY <1>4, <3>2, <3>3
  <2> QED
    BY <1>4, <2>1 DEF StepOf, TypeOK
<1>7. CallInv(c)'
  <2>1. UnderWay(c)'
    BY <1>2, <1>4, PacketsDiffer DEF CallInv, UnderWay
  <2>2. ASSUME NEW w \in Verdict
        PROVE  ReplyTo(c, w) \notin net'
    <3>1. ReplyTo(c, w) \in net => w = v
      BY <1>2 DEF CallInv, Replied
    <3>2. ReplyTo(c, w) # PassedOn(c, v)
      BY PacketsDiffer
    <3> QED
      BY <1>1, <1>4, <3>1, <3>2
  <2>3. CASE Caller[c] = Core /\ net' = net \ {m}
    <3>1. \A w \in Verdict : PassedOn(c, w) \notin net'
      BY <1>2, <2>3
    <3>2. Replied(c)'
      BY <1>2, <1>4, <2>2, <3>1 DEF Replied
    <3>3. Boxed(c)' /\ Taken(c)'
      BY <1>1, <1>2, <1>4, <1>5, <2>3, CallsAssumption DEF CallInv, Boxed, Taken, Answer
    <3> QED
      BY <2>1, <3>2, <3>3 DEF CallInv
  <2>4. CASE Caller[c] \in Service /\ box' = box /\ net' \subseteq (net \ {m}) \cup {PassedOn(c, v)}
    <3>1. Replied(c)'
      BY <1>2, <1>4, <2>2, <2>4, PacketsDiffer DEF Replied
    <3>2. Boxed(c)' /\ Taken(c)'
      BY <1>2, <1>4, <2>4 DEF CallInv, Boxed, Taken
    <3> QED
      BY <2>1, <3>1, <3>2 DEF CallInv
  <2> QED
    BY <1>4, <2>3, <2>4
<1>8. \A d \in Call : CheckInv(d)'
  <2>1. \A d \in Call : ExecPacket(d) \in net' => ExecPacket(d) \in net
    BY <1>4, PacketsDiffer
  <2> QED
    BY <1>4, <2>1, ChecksKept DEF Safe
<1> QED
  BY <1>6, <1>7, <1>8, StepOfOneCall

(* The core starts to fill its placeholder with an error or passes it on.    *)
LEMMA CallCallbackErrorKeeps ==
  ASSUME TypeOK, Safe, NEW c \in Call, NEW m \in net, callCallbackError(m, c)
  PROVE  TypeOK' /\ Safe'
<1>1. PICK v \in Verdict : /\ m = ReplyTo(c, v)
                           /\ m.answer = [of |-> c, verdict |-> v]
                           /\ v = "error"
  BY ReadReply DEF Safe, callCallbackError
<1>2. /\ CallInv(c) /\ v = ran[c] /\ ~box[c].set /\ \A w \in Verdict : PassedOn(c, w) \notin net
      /\ ran[c] # Nothing
  BY <1>1, CallsAssumption DEF Safe, CallInv, Replied
<1>3. PassedOn(c, v) = ToMaker("fault", c, m.answer)
  BY <1>1 DEF PassedOn
<1>4. /\ UNCHANGED <<pc, got, idList, online, commandList, routing, ran, disturbed>>
      /\ callbackList' \in SUBSET Call
      /\ net' \subseteq net \cup {PassedOn(c, v)}
      /\ \/ /\ Caller[c] = Core /\ box' = [box EXCEPT ![c].set = TRUE]
            /\ writing' = writing \cup {c} /\ net' = net \ {m}
         \/ /\ Caller[c] \in Service /\ box' = box /\ writing' = writing
            /\ net' \subseteq (net \ {m}) \cup {PassedOn(c, v)}
  BY <1>3 DEF callCallbackError, CoreCalls, TypeOK
<1>5. StepOf(c, v)
  <2>1. box' = box \/ /\ box' = [box EXCEPT ![c] = box'[c]]
                      /\ box'[c] \in [set : BOOLEAN, data : Answer \cup {Nothing},
                                      isException : BOOLEAN]
    <3>1. CASE box' = box
      BY <3>1
    <3>2. CASE box' = [box EXCEPT ![c].set = TRUE]
      <4>1. box[c] \in [set : BOOLEAN, data : Answer \cup {Nothing}, isException : BOOLEAN]
        BY DEF TypeOK
      <4>2. box'[c] = [box[c] EXCEPT !.set = TRUE]
        BY <3>2 DEF TypeOK
      <4>3. box' = [box EXCEPT ![c] = box'[c]]
        BY <3>2, <4>2
      <4>4. box'[c] \in [set : BOOLEAN, data : Answer \cup {Nothing}, isException : BOOLEAN]
        BY <4>1, <4>2
      <4> QED
        BY <4>3, <4>4
    <3> QED
      BY <1>4, <3>1, <3>2
  <2> QED
    BY <1>4, <2>1 DEF StepOf, TypeOK
<1>6. CallInv(c)'
  <2>1. UnderWay(c)'
    BY <1>2, <1>4, PacketsDiffer DEF CallInv, UnderWay
  <2>2. ASSUME NEW w \in Verdict
        PROVE  ReplyTo(c, w) \notin net'
    <3>1. ReplyTo(c, w) \in net => w = v
      BY <1>2 DEF CallInv, Replied
    <3>2. ReplyTo(c, w) # PassedOn(c, v)
      BY PacketsDiffer
    <3> QED
      BY <1>1, <1>4, <3>1, <3>2
  <2>3. CASE /\ Caller[c] = Core /\ box' = [box EXCEPT ![c].set = TRUE]
             /\ writing' = writing \cup {c} /\ net' = net \ {m}
    <3>1. \A w \in Verdict : PassedOn(c, w) \notin net'
      BY <1>2, <2>3
    <3>2. Replied(c)'
      BY <1>2, <1>4, <2>2, <3>1 DEF Replied
    <3>3. /\ box'[c].set /\ box'[c].data = box[c].data
          /\ box'[c].isException = box[c].isException /\ Caller[c] \notin Service
      BY <2>3, CallsAssumption DEF TypeOK
    <3>4. Boxed(c)'
      BY <1>1, <1>2, <1>4, <2>3, <3>3 DEF CallInv, Boxed
    <3>5. Taken(c)'
      BY <1>2, <1>4, <3>3 DEF CallInv, Taken
    <3> QED
      BY <2>1, <3>2, <3>4, <3>5 DEF CallInv
  <2>4. CASE /\ Caller[c] \in Service /\ box' = box /\ writing' = writing
             /\ net' \subseteq (net \ {m}) \cup {PassedOn(c, v)}
    <3>1. Replied(c)'
      BY <1>2, <1>4, <2>2, <2>4, PacketsDiffer DEF Replied
    <3>2. Boxed(c)' /\ Taken(c)'
      BY <1>2, <1>4, <2>4 DEF CallInv, Boxed, Taken
    <3> QED
      BY <2>1, <3>1, <3>2 DEF CallInv
  <2> QED
    BY <1>4, <2>3, <2>4
<1>7. \A d \in Call : CheckInv(d)'
  <2>1. \A d \in Call : ExecPacket(d) \in net' => ExecPacket(d) \in net
    BY <1>4, PacketsDiffer
  <2> QED
    BY <1>4, <2>1, ChecksKept DEF Safe
<1> QED
  BY <1>5, <1>6, <1>7, StepOfOneCall

(* The error text of a call of the core is written.                          *)
LEMMA WriteErrorTextKeeps ==
  ASSUME TypeOK, Safe, NEW c \in Call, WriteErrorText(c)
  PROVE  TypeOK' /\ Safe'
<1>1. /\ UNCHANGED <<pc, got, idList, online, commandList, callbackList, routing, net, ran,
                     disturbed>>
      /\ c \in writing /\ writing' = writing \ {c} /\ Caller[c] = Core
      /\ box' = [box EXCEPT ![c].data = [of |-> c, verdict |-> ran[c]]]
  BY DEF WriteErrorText, CoreCalls, coreVars
<1>2. CallInv(c) /\ ran[c] # Nothing /\ Caller[c] \notin Service
  BY <1>1, CallsAssumption DEF Safe, CallInv, Replied
<1>3. /\ box'[c].set = box[c].set
      /\ box'[c].data = [of |-> c, verdict |-> ran[c]]
      /\ box'[c].isException = box[c].isException
      /\ box' = [box EXCEPT ![c] = box'[c]]
      /\ box'[c] \in [set : BOOLEAN, data : Answer \cup {Nothing}, isException : BOOLEAN]
  <2>1. [of |-> c, verdict |-> ran[c]] \in Answer
    BY <1>2 DEF TypeOK, Answer
  <2> QED
    BY <1>1, <2>1 DEF TypeOK
<1>4. StepOf(c, "yes")
  BY <1>1, <1>3 DEF StepOf, TypeOK, Safe, Known
<1>5. CallInv(c)'
  <2>1. UnderWay(c)'
    BY <1>1, <1>2 DEF CallInv, UnderWay
  <2>2. Replied(c)'
    BY <1>1, <1>2, <1>3 DEF CallInv, Replied
  <2>3. Boxed(c)'
    BY <1>1, <1>2, <1>3, CallsAssumption DEF CallInv, Boxed, Answer
  <2>4. Taken(c)'
    BY <1>1, <1>2, <1>3 DEF CallInv, Taken
  <2> QED
    BY <2>1, <2>2, <2>3, <2>4 DEF CallInv
<1>6. \A d \in Call : CheckInv(d)'
  BY <1>1, ChecksKept DEF Safe
<1> QED
  BY <1>4, <1>5, <1>6, StepOfOneCall DEF Verdict

(* The maker receives a result.                                              *)
LEMMA DataReceiveKeeps ==
  ASSUME TypeOK, Safe, NEW c \in Call, NEW m \in net, dataReceive(m, c)
  PROVE  TypeOK' /\ Safe'
<1>1. PICK v \in Verdict : /\ m = PassedOn(c, v)
                           /\ m.answer = [of |-> c, verdict |-> v]
                           /\ v # "error"
  BY ReadPassedOn DEF Safe, dataReceive
<1>2. /\ CallInv(c) /\ v = ran[c] /\ ~box[c].set /\ Caller[c] \in Service
      /\ ran[c] # Nothing /\ ~box[c].isException /\ m.answer \in Answer
  BY <1>1, CallsAssumption DEF Safe, CallInv, Replied, Boxed, Answer
<1>3. /\ UNCHANGED <<pc, got, idList, writing, online, commandList, callbackList, routing, ran,
                     disturbed>>
      /\ net' = net \ {m}
      /\ box' = Given(c, m.answer, box[c].isException) /\ box[c].isException \in BOOLEAN
  BY DEF dataReceive, coreVars, TypeOK
<1>4. /\ box' = [box EXCEPT ![c] = box'[c]]
      /\ box'[c] = [set |-> TRUE, data |-> m.answer, isException |-> box[c].isException]
      /\ box'[c] \in [set : BOOLEAN, data : Answer \cup {Nothing}, isException : BOOLEAN]
  BY <1>2, <1>3, FilledBox
<1>5. StepOf(c, v)
  BY <1>3, <1>4 DEF StepOf, TypeOK
<1>6. CallInv(c)'
  <2>1. UnderWay(c)'
    BY <1>2, <1>3 DEF CallInv, UnderWay
  <2>2. ASSUME NEW w \in Verdict
        PROVE  ReplyTo(c, w) \notin net' /\ PassedOn(c, w) \notin net'
    BY <1>1, <1>2, <1>3 DEF CallInv, Replied
  <2>3. Replied(c)'
    BY <1>2, <1>3, <2>2 DEF Replied
  <2>4. box'[c].set /\ box'[c].data = m.answer /\ box'[c].isException = box[c].isException
    BY <1>4
  <2>5. Boxed(c)'
    BY <1>1, <1>2, <1>3, <2>4, CallsAssumption DEF CallInv, Boxed
  <2>6. Taken(c)'
    BY <1>2, <1>3, <2>4 DEF CallInv, Taken
  <2> QED
    BY <2>1, <2>3, <2>5, <2>6 DEF CallInv
<1>7. \A d \in Call : CheckInv(d)'
  BY <1>3, ChecksKept DEF Safe
<1> QED
  BY <1>5, <1>6, <1>7, StepOfOneCall

(* The maker receives an error; isException is still to come.                *)
LEMMA ErrorReceiveKeeps ==
  ASSUME TypeOK, Safe, NEW c \in Call, NEW m \in net, errorReceive(m, c)
  PROVE  TypeOK' /\ Safe'
<1>1. PICK v \in Verdict : /\ m = PassedOn(c, v)
                           /\ m.answer = [of |-> c, verdict |-> v]
                           /\ v = "error"
  BY ReadPassedOn DEF Safe, errorReceive
<1>2. /\ CallInv(c) /\ v = ran[c] /\ ~box[c].set /\ Caller[c] \in Service
      /\ ran[c] # Nothing /\ m.answer \in Answer
  <2>1. CallInv(c) /\ m.answer \in Answer
    BY <1>1 DEF Safe, Answer
  <2> QED
    BY <1>1, <2>1, CallsAssumption DEF CallInv, Replied
<1>3. /\ UNCHANGED <<pc, got, idList, online, commandList, callbackList, routing, ran,
                     disturbed>>
      /\ writing' = writing \cup {c}
      /\ net' = net \ {m}
      /\ box' = Given(c, m.answer, box[c].isException) /\ box[c].isException \in BOOLEAN
  BY DEF errorReceive, coreVars, TypeOK
<1>4. /\ box' = [box EXCEPT ![c] = box'[c]]
      /\ box'[c] = [set |-> TRUE, data |-> m.answer, isException |-> box[c].isException]
      /\ box'[c] \in [set : BOOLEAN, data : Answer \cup {Nothing}, isException : BOOLEAN]
  BY <1>2, <1>3, FilledBox
<1>5. pc[c] = "waiting"
  BY <1>2 DEF CallInv, Taken, UnderWay, TypeOK
<1>6. StepOf(c, v)
  BY <1>3, <1>4 DEF StepOf, TypeOK
<1>7. CallInv(c)'
  <2>1. UnderWay(c)'
    BY <1>2, <1>3 DEF CallInv, UnderWay
  <2>2. ASSUME NEW w \in Verdict
        PROVE  ReplyTo(c, w) \notin net' /\ PassedOn(c, w) \notin net'
    BY <1>1, <1>2, <1>3 DEF CallInv, Replied
  <2>3. Replied(c)'
    BY <1>2, <1>3, <2>2 DEF Replied
  <2>4. box'[c].set /\ box'[c].data = m.answer /\ box'[c].isException = box[c].isException
    BY <1>4
  <2>5. Boxed(c)'
    BY <1>1, <1>2, <1>3, <1>5, <2>4, CallsAssumption DEF CallInv, Boxed
  <2>6. Taken(c)'
    BY <1>2, <1>3, <2>4 DEF CallInv, Taken
  <2> QED
    BY <2>1, <2>3, <2>5, <2>6 DEF CallInv
<1>8. \A d \in Call : CheckInv(d)'
  BY <1>3, ChecksKept DEF Safe
<1> QED
  BY <1>6, <1>7, <1>8, StepOfOneCall

(* isException is written.                                                   *)
LEMMA MarkExceptionKeeps ==
  ASSUME TypeOK, Safe, NEW c \in Call, MarkException(c)
  PROVE  TypeOK' /\ Safe'
<1>1. /\ UNCHANGED <<pc, got, idList, online, commandList, callbackList, routing, net, ran,
                     disturbed>>
      /\ c \in writing /\ writing' = writing \ {c}
      /\ box' = [box EXCEPT ![c].isException = TRUE]
  BY DEF MarkException, coreVars
<1>2. CallInv(c) /\ ran[c] # Nothing /\ ran[c] = "error"
  BY <1>1 DEF Safe, CallInv, Replied, Boxed
<1>3. /\ box'[c].set = box[c].set
      /\ box'[c].data = box[c].data
      /\ box'[c].isException
      /\ box' = [box EXCEPT ![c] = box'[c]]
      /\ box'[c] \in [set : BOOLEAN, data : Answer \cup {Nothing}, isException : BOOLEAN]
  BY <1>1 DEF TypeOK
<1>4. StepOf(c, "yes")
  BY <1>1, <1>3 DEF StepOf, TypeOK, Safe, Known
<1>5. CallInv(c)'
  <2>1. UnderWay(c)'
    BY <1>1, <1>2 DEF CallInv, UnderWay
  <2>2. Replied(c)'
    BY <1>1, <1>2, <1>3 DEF CallInv, Replied
  <2>3. Boxed(c)'
    BY <1>1, <1>2, <1>3 DEF CallInv, Boxed
  <2>4. Taken(c)'
    BY <1>1, <1>2, <1>3 DEF CallInv, Taken
  <2> QED
    BY <2>1, <2>2, <2>3, <2>4 DEF CallInv
<1>6. \A d \in Call : CheckInv(d)'
  BY <1>1, ChecksKept DEF Safe
<1> QED
  BY <1>4, <1>5, <1>6, StepOfOneCall DEF Verdict

(* Packets are lost or ignored, services come and go.                        *)
LEMMA QuietStep ==
  ASSUME TypeOK, Safe, UNCHANGED <<pc, box, got, idList, writing, routing, ran>>,
         net' \subseteq net, online' \in SUBSET Service, commandList' \in SUBSET Service,
         callbackList' \in SUBSET Call, disturbed' \in SUBSET Call
  PROVE  TypeOK' /\ Safe'
<1>1. TypeOK'
  BY DEF TypeOK
<1>2. ASSUME NEW d \in Call
      PROVE  CallInv(d)'
  <2>1. SameMaker(d)
    BY DEF SameMaker
  <2> QED
    BY <2>1, FewerPackets, Untouched DEF Safe
<1>3. \A d \in Call : CheckInv(d)'
  BY ChecksKept DEF Safe
<1> QED
  BY <1>1, <1>2, <1>3 DEF Safe

LEMMA IgnorePacketKeeps ==
  ASSUME TypeOK, Safe, NEW m \in net, IgnorePacket(m)
  PROVE  TypeOK' /\ Safe'
BY QuietStep DEF IgnorePacket, makerVars, coreVars, TypeOK

LEMMA ServiceStepKeeps ==
  ASSUME TypeOK, Safe, NEW s \in Service, ServiceStep(s)
  PROVE  TypeOK' /\ Safe'
<1>1. CASE Connect(s)
  BY <1>1, QuietStep DEF Connect, makerVars, TypeOK
<1>2. CASE registerCommand(s)
  BY <1>2, QuietStep DEF registerCommand, makerVars, TypeOK
<1>3. CASE disableService(s)
  BY <1>3, QuietStep DEF disableService, makerVars, TypeOK, cleanup, Disturb
<1>4. CASE onClientDisconnect(s)
  BY <1>4, QuietStep DEF onClientDisconnect, makerVars, TypeOK, cleanup, Disturb
<1>5. CASE removeCommand(s)
  BY <1>5, QuietStep DEF removeCommand, makerVars, TypeOK
<1> QED
  BY <1>1, <1>2, <1>3, <1>4, <1>5 DEF ServiceStep
-----------------------------------------------------------------------------
LEMMA InitInv == Init => TypeOK /\ Safe
<1> SUFFICES ASSUME Init
             PROVE  TypeOK /\ Safe
  OBVIOUS
<1>1. TypeOK
  BY DEF Init, TypeOK, EmptyBox
<1>2. ASSUME NEW c \in Call
      PROVE  CallInv(c) /\ CheckInv(c)
  BY DEF Init, EmptyBox, CallInv, CheckInv, UnderWay, Replied, Boxed, Taken
<1> QED
  BY <1>1, <1>2 DEF Init, Safe

LEMMA NextInv == TypeOK /\ Safe /\ [Next]_vars => TypeOK' /\ Safe'
<1> SUFFICES ASSUME TypeOK, Safe, [Next]_vars
             PROVE  TypeOK' /\ Safe'
  OBVIOUS
<1>1. CASE UNCHANGED vars
  BY <1>1, QuietStep DEF vars, TypeOK
<1>2. ASSUME NEW s \in Service, ServiceStep(s)
      PROVE  TypeOK' /\ Safe'
  BY <1>2, ServiceStepKeeps
<1>3. ASSUME NEW c \in Call, runCommandSync(c) \/ callCommandSync(c)
      PROVE  TypeOK' /\ Safe'
  BY <1>3, RunCommandSync, CallCommandSyncKeeps
<1>4. ASSUME NEW c \in Call, CallStep(c)
      PROVE  TypeOK' /\ Safe'
  BY <1>4, CopyDataKeeps, FinishCallKeeps, CallCommandKeeps, SendMessageKeeps, ReturnCoreCallKeeps,
     DatareceiveKeeps, WriteErrorTextKeeps, MarkExceptionKeeps DEF CallStep
<1>5. ASSUME NEW c \in Call, Answering(c)
      PROVE  TypeOK' /\ Safe'
  BY <1>5, CallCallbackKeeps, CallCallbackErrorKeeps, DataReceiveKeeps, ErrorReceiveKeeps
     DEF Answering
<1>6. ASSUME NEW m \in net, IgnorePacket(m)
      PROVE  TypeOK' /\ Safe'
  BY <1>6, IgnorePacketKeeps
<1> QED
  BY <1>1, <1>2, <1>3, <1>4, <1>5, <1>6 DEF Next

LEMMA AlwaysSafe == Spec => [](TypeOK /\ Safe)
<1> QED
  BY InitInv, NextInv, PTL DEF Spec

(* Every variable has its type.                                              *)
THEOREM TypeCorrect == Spec => []TypeOK
BY AlwaysSafe, PTL

(* No command runs for a session that the user manager did not say yes to.   *)
THEOREM OnlyCheckedCallsRun == Spec => []CheckedBeforeRun
<1>1. Safe => CheckedBeforeRun
  BY DEF Safe, CheckInv, CheckedBeforeRun
<1> QED
  BY <1>1, AlwaysSafe, PTL

(* A receive thread never writes to the frame of a call that has returned.   *)
THEOREM NoWriteToDeadFrame == Spec => []FrameIsAlive
<1>1. TypeOK /\ Safe => FrameIsAlive
  <2> SUFFICES ASSUME TypeOK, Safe, NEW c \in Call \ CoreCalls,
                      c \in writing \/ \E m \in net : m.type \in {"result", "fault"} /\ Addressee(m, c)
               PROVE  pc[c] \in {"waiting", "copied"}
    BY DEF FrameIsAlive
  <2>1. CallInv(c) /\ Caller[c] \in Service
    BY CallsAssumption DEF Safe, CoreCalls
  <2>2. CASE c \in writing
    BY <2>1, <2>2 DEF CallInv, Boxed
  <2>3. ASSUME NEW m \in net, m.type \in {"result", "fault"}, Addressee(m, c)
        PROVE  pc[c] \in {"waiting", "copied"}
    <3>1. PICK v \in Verdict : m = PassedOn(c, v)
      BY <2>3, ReadPassedOn DEF Safe
    <3>2. v = ran[c] /\ ~box[c].set /\ ran[c] # Nothing
      BY <2>1, <3>1, CallsAssumption DEF CallInv, Replied
    <3> QED
      BY <2>1, <3>2 DEF CallInv, UnderWay, Taken, TypeOK
  <2> QED
    BY <2>2, <2>3
<1> QED
  BY <1>1, AlwaysSafe, PTL
-----------------------------------------------------------------------------
(* The refinement.  What a step about call c does to the mapped variables.   *)
Made == {c \in Call : pc[c] # "new"}
Outcomes == [c \in Call |-> OutcomeOf(c)]

LEMMA MappedStep ==
  ASSUME TypeOK, NEW c \in Call,
         pc' = [pc EXCEPT ![c] = pc'[c]],
         got' = got \/ got' = [got EXCEPT ![c] = got'[c]]
  PROVE  /\ Outcomes' = [Outcomes EXCEPT ![c] = OutcomeOf(c)']
         /\ pc'[c] # "new" => Made' = Made \cup {c}
         /\ Outcomes[c] = OutcomeOf(c)
         /\ OutcomeOf(c)' = OutcomeOf(c) => Outcomes' = Outcomes
<1>1. ASSUME NEW d \in Call, d # c
      PROVE  OutcomeOf(d)' = OutcomeOf(d) /\ pc'[d] = pc[d]
  BY <1>1 DEF OutcomeOf, TypeOK
<1>2. Outcomes' = [Outcomes EXCEPT ![c] = OutcomeOf(c)']
  BY <1>1 DEF Outcomes
<1>3. pc'[c] # "new" => Made' = Made \cup {c}
  BY <1>1 DEF Made
<1>4. OutcomeOf(c)' = OutcomeOf(c) => Outcomes' = Outcomes
  BY <1>1 DEF Outcomes
<1> QED
  BY <1>2, <1>3, <1>4 DEF Outcomes

LEMMA MapOfMaking ==
  ASSUME TypeOK, Safe, NEW c \in Call, runCommandSync(c) \/ callCommandSync(c)
  PROVE  Promise!Make(c) \/ Promise!Refuse(c)
<1>1. /\ pc[c] = "new" /\ got' = got /\ ran' = ran
      /\ pc' = [pc EXCEPT ![c] = pc'[c]]
      /\ pc'[c] \in {"waiting", "refused"}
  BY DEF runCommandSync, callCommandSync, TypeOK
<1>2. got[c] = Nothing
  BY <1>1 DEF Safe, CallInv, Taken
<1>3. /\ c \notin Made /\ Made' = Made \cup {c}
      /\ Outcomes' = [Outcomes EXCEPT ![c] = OutcomeOf(c)']
      /\ OutcomeOf(c)' = OutcomeOf(c) => Outcomes' = Outcomes
  BY <1>1, MappedStep DEF Made
<1>4. CASE pc'[c] = "waiting"
  <2>1. OutcomeOf(c) = Nothing /\ OutcomeOf(c)' = Nothing
    BY <1>1, <1>4 DEF OutcomeOf
  <2> QED
    BY <1>1, <1>3, <2>1 DEF Promise!Make, Made, Outcomes
<1>5. CASE pc'[c] = "refused"
  <2>1. OutcomeOf(c)' = [how |-> "refused", answer |-> Nothing]
    BY <1>1, <1>2, <1>5 DEF OutcomeOf
  <2> QED
    BY <1>1, <1>3, <2>1 DEF Promise!Refuse, Made, Outcomes
<1> QED
  BY <1>1, <1>4, <1>5

LEMMA MapOfRunning ==
  ASSUME TypeOK, Safe, NEW c \in Call, datareceive(c)
  PROVE  Promise!Run(c)
<1>1. /\ pc' = pc /\ got' = got /\ ExecPacket(c) \in net
      /\ \E v \in Verdict : ran' = [ran EXCEPT ![c] = v]
  BY DEF datareceive, makerVars
<1>2. pc[c] = "waiting" /\ ran[c] = Nothing
  BY <1>1 DEF Safe, CallInv, UnderWay
<1>3. c \in Made /\ Outcomes[c] = Nothing /\ Made' = Made /\ Outcomes' = Outcomes
  BY <1>1, <1>2 DEF Made, Outcomes, OutcomeOf
<1> QED
  BY <1>1, <1>2, <1>3 DEF Promise!Run, Promise!Verdict, Verdict, Made, Outcomes

LEMMA MapOfEnding ==
  ASSUME TypeOK, Safe, NEW c \in Call, FinishCall(c) \/ ReturnCoreCall(c)
  PROVE  Promise!End(c)
<1>1. /\ pc[c] \in {"waiting", "copied"} /\ ran' = ran
      /\ pc' = [pc EXCEPT ![c] = pc'[c]]
      /\ pc'[c] \in {"returned", "raised"}
      /\ got' = got \/ got' = [got EXCEPT ![c] = got'[c]]
  BY DEF FinishCall, ReturnCoreCall, TypeOK
<1>2. /\ c \in Made /\ Made' = Made /\ Outcomes[c] = Nothing
      /\ Outcomes' = [Outcomes EXCEPT ![c] = [how |-> pc'[c], answer |-> got'[c]]]
  BY <1>1, MappedStep DEF Made, OutcomeOf
<1>3. CASE FinishCall(c)
  <2>1. /\ CallInv(c) /\ Caller[c] \in Service /\ got' = got /\ c \notin writing
        /\ pc[c] = "copied"
        /\ pc'[c] = IF box[c].isException THEN "raised" ELSE "returned"
    BY <1>3 DEF FinishCall, Safe, CallInv, Taken, IdListFree, TypeOK
  <2>2. ran[c] # Nothing /\ (box[c].isException <=> ran[c] = "error")
    BY <2>1 DEF CallInv, Taken, Replied, Boxed
  <2>3. got[c] = [of |-> c, verdict |-> ran[c]] /\ c \notin CoreCalls
    BY <2>1, CallsAssumption DEF CallInv, Taken, CoreCalls
  <2>4. [how |-> pc'[c], answer |-> got'[c]] = Promise!Result(c)
    BY <2>1, <2>2, <2>3 DEF Promise!Result
  <2> QED
    BY <1>1, <1>2, <2>2, <2>4 DEF Promise!End, Made, Outcomes
<1>4. CASE ReturnCoreCall(c)
  <2>1. /\ CallInv(c) /\ c \in CoreCalls /\ Caller[c] = Core /\ box[c].set
        /\ pc'[c] = "returned" /\ got'[c] = box[c].data
    BY <1>4 DEF ReturnCoreCall, Safe, CoreCalls, TypeOK
  <2>2. ran[c] # Nothing
    BY <2>1 DEF CallInv, Replied
  <2>3. CASE box[c].data = Nothing
    <3>1. ran[c] = "error"
      BY <2>1, <2>3 DEF CallInv, Boxed
    <3> QED
      BY <1>1, <1>2, <2>1, <2>2, <2>3, <3>1 DEF Promise!End, Made, Outcomes
  <2>4. CASE box[c].data # Nothing
    <3>1. box[c].data = [of |-> c, verdict |-> ran[c]]
      BY <2>1, <2>4 DEF CallInv, Boxed
    <3>2. [how |-> pc'[c], answer |-> got'[c]] = Promise!Result(c)
      BY <2>1, <3>1 DEF Promise!Result
    <3> QED
      BY <1>1, <1>2, <2>2, <3>2 DEF Promise!End, Made, Outcomes
  <2> QED
    BY <2>3, <2>4
<1> QED
  BY <1>3, <1>4

LEMMA MapOfCopying ==
  ASSUME TypeOK, Safe, NEW c \in Call, CopyData(c)
  PROVE  UNCHANGED Promise!vars
<1>1. /\ pc[c] = "waiting" /\ ran' = ran
      /\ pc' = [pc EXCEPT ![c] = pc'[c]]
      /\ pc'[c] = "copied"
      /\ got' = [got EXCEPT ![c] = got'[c]]
  BY DEF CopyData, TypeOK
<1>2. OutcomeOf(c) = Nothing /\ OutcomeOf(c)' = Nothing
  BY <1>1 DEF OutcomeOf
<1>3. Made' = Made \cup {c} /\ c \in Made /\ Outcomes' = Outcomes
  BY <1>1, <1>2, MappedStep DEF Made
<1> QED
  BY <1>1, <1>3 DEF Promise!vars, Made, Outcomes

LEMMA MapOfNothing ==
  ASSUME pc' = pc, got' = got, ran' = ran
  PROVE  UNCHANGED Promise!vars
BY DEF Promise!vars, OutcomeOf

LEMMA PromiseStep == TypeOK /\ Safe /\ [Next]_vars => [Promise!Next]_(Promise!vars)
<1> SUFFICES ASSUME TypeOK, Safe, [Next]_vars
             PROVE  Promise!Next \/ UNCHANGED Promise!vars
  OBVIOUS
<1>1. CASE UNCHANGED vars
  BY <1>1, MapOfNothing DEF vars
<1>2. ASSUME NEW s \in Service, ServiceStep(s)
      PROVE  UNCHANGED Promise!vars
  BY <1>2, MapOfNothing
     DEF ServiceStep, Connect, registerCommand, removeCommand, disableService,
         onClientDisconnect, makerVars
<1>3. ASSUME NEW c \in Call, runCommandSync(c) \/ callCommandSync(c)
      PROVE  Promise!Next
  BY <1>3, MapOfMaking DEF Promise!Next
<1>4. ASSUME NEW c \in Call, CallStep(c)
      PROVE  Promise!Next \/ UNCHANGED Promise!vars
  <2>1. CASE CopyData(c)
    BY <2>1, MapOfCopying
  <2>2. CASE FinishCall(c) \/ ReturnCoreCall(c)
    BY <2>2, MapOfEnding DEF Promise!Next
  <2>3. CASE datareceive(c)
    BY <2>3, MapOfRunning DEF Promise!Next
  <2>4. CASE callCommand(c) \/ sendMessage(c) \/ WriteErrorText(c) \/ MarkException(c)
    BY <2>4, MapOfNothing DEF callCommand, sendMessage, WriteErrorText, MarkException, makerVars
  <2> QED
    BY <1>4, <2>1, <2>2, <2>3, <2>4 DEF CallStep
<1>5. ASSUME NEW c \in Call, Answering(c)
      PROVE  UNCHANGED Promise!vars
  BY <1>5, MapOfNothing
     DEF Answering, callCallback, callCallbackError, dataReceive, errorReceive
<1>6. ASSUME NEW m \in net, IgnorePacket(m)
      PROVE  UNCHANGED Promise!vars
  BY <1>6, MapOfNothing DEF IgnorePacket, makerVars
<1> QED
  BY <1>1, <1>2, <1>3, <1>4, <1>5, <1>6 DEF Next

(* The calls of the services, through the core, implement module Calls.      *)
THEOREM CallsKeepTheirPromise == Spec => KeepsPromise
<1>1. Init => Promise!Init
  BY DEF Init, Promise!Init, OutcomeOf
<1> QED
  BY <1>1, AlwaysSafe, PromiseStep, PTL DEF Spec, KeepsPromise
=============================================================================
