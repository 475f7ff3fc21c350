------------------------ MODULE Commissioning_proofs ------------------------
(***************************************************************************)
(* Proofs about Commissioning, for any objects, blocks, writes and pages:   *)
(* the frame of a block, the choice of a configuration, the inspection.     *)
(***************************************************************************)
EXTENDS Commissioning, DataStorage_proofs

-----------------------------------------------------------------------------
(* The inductive invariant.                                                *)

\* What the application may write: a block or a value of its own.
Sendable(object, data) ==
    /\ object \in Parameters \ {DirectParameters}
    /\ data \in Seq(Nat) /\ Kept(object, data) \subseteq Seq(Nat)

IsChannel(c) ==
    /\ {"op", "object", "data", "made", "value", "result", "answer"}
         \subseteq DOMAIN c
    /\ c.op \in {"none", "read", "write"}
    /\ c.result \in {"none", "OK", "error"}
    /\ c.op = "none" => c.result = "none"
    /\ c.op = "read" => c.object \in Parameters
    /\ c.op = "write" => c.object = SystemCommand \/ Sendable(c.object, c.data)

IsBlock(b) ==
    /\ {"step", "object", "data"} \subseteq DOMAIN b
    /\ b.step \in {"none", "begin", "write", "end", "verify"}
    /\ b.step # "none" => Sendable(b.object, b.data)

\* A system command is in progress or waits to be collected.
Commands(c) == c.op # "none" /\ c.object = SystemCommand

\* The command is the block's own, and the device has followed it.
OwnCommand(c, data, t, followed) ==
    Commands(c) =>
        /\ c.op = "write" /\ c.data = data
        /\ c.result = "OK" => t = followed

\* How far the device has followed a block of which step is due.
Follows(c, b, t) ==
    /\ b.step = "begin" => OwnCommand(c, DownloadStart, t, "started")
    /\ b.step = "write" =>
         /\ ~Commands(c)
         /\ t \in {"started", "written"}
         /\ c.op = "write" /\ c.object = b.object /\ c.result = "OK"
              => t = "written"
    /\ b.step = "end" =>
         /\ t \in {"written", "ended"}
         /\ OwnCommand(c, DownloadEnd, t, "ended")
    /\ b.step = "verify" => ~Commands(c) /\ t = "ended"

FrameInv ==
    /\ IsChannel(channel) /\ IsBlock(block)
    /\ mixed \/ Follows(channel, block, trail)

\* An answer is what the device holds: it has executed nothing since.
StoreInv ==
    /\ store \in [Parameters -> Seq(Nat)]
    /\ channel.op = "read" /\ channel.result = "OK"
         => channel.answer = store[channel.object]

IsConfig(c) ==
    /\ {"type", "min_cycle_time", "pd_in_len", "pd_out_len"} \subseteq DOMAIN c
    /\ c.min_cycle_time \in 0..255

\* A configuration says of the device what the device says of itself.
ChosenFor(c, i) ==
    /\ c.type = TypeFromCode(i)
    /\ c.min_cycle_time = IF i.min_cycle_time > 255 THEN 255 ELSE i.min_cycle_time
    /\ c.pd_in_len = i.pd_in_len /\ c.pd_out_len = i.pd_out_len

\* What the port knows of the device, and what was chosen for it, is what its
\* page says.
PageInv ==
    /\ IsPage(Page)
    /\ info = NoInfo \/ (ParseError(Page) = "OK" /\ info = Parsed(Page))
    /\ IsConfig(config) /\ IsConfig(draft)
    /\ chosen =>
         /\ ParseError(Page) = "OK" /\ Selectable(Parsed(Page))
         /\ ChosenFor(draft, Parsed(Page))

\* A verdict is on the page of the device: it does not parse, or it does and
\* was compared with the configuration.
VerdictInv ==
    \/ verdict \in {"none", "PENDING", "BUSY", "error"}
    \/ verdict = ParseError(Page) /\ verdict # "OK"
    \/ /\ ParseError(Page) = "OK" /\ info = Parsed(Page)
       /\ verdict = Validate(info, config)

-----------------------------------------------------------------------------
(* Calls on the channel.                                                   *)

\* A call starts a service on a free channel, finds one under way, or takes the
\* result of its own.
LEMMA Calls ==
    ASSUME NEW c, IsChannel(c), NEW op \in {"read", "write"}, NEW o, NEW d
    PROVE  LET r == Service!Call(c, op, o, d)
           IN  \/ /\ c.op = "none"
                  /\ r.channel = Service!Begun(op, o, d) /\ r.ret = "PENDING"
               \/ /\ c.op # "none"
                  /\ r.channel = c /\ r.ret \in {"PENDING", "BUSY"}
               \/ /\ c.op = op /\ c.object = o /\ c.result = r.ret
                  /\ r.channel = Service!Idle /\ r.ret \in {"OK", "error"}
BY DEF IsChannel, Service!Call

\* What they leave is a channel.
LEMMA ChannelsStay ==
    ASSUME NEW c, IsChannel(c), NEW op \in {"read", "write"}, NEW o, NEW d,
           op = "read" => o \in Parameters,
           op = "write" => o = SystemCommand \/ Sendable(o, d)
    PROVE  IsChannel(Service!Call(c, op, o, d).channel)
<1>1. IsChannel(Service!Idle)
  BY DEF IsChannel, Service!Idle
<1>2. IsChannel(Service!Begun(op, o, d))
  BY <1>1 DEF IsChannel, Service!Begun, Service!Idle
<1> QED
  BY <1>1, <1>2, Calls

\* A channel that is free takes the service.
LEMMA FreeCalls ==
    ASSUME NEW op \in {"read", "write"}, NEW o, NEW d
    PROVE  Service!Call(Service!Idle, op, o, d)
             = [channel |-> Service!Begun(op, o, d), ret |-> "PENDING"]
BY DEF Service!Call, Service!Idle

\* A free channel is no command, and neither is one of another object.
LEMMA BegunFields ==
    ASSUME NEW op, NEW o, NEW d
    PROVE  /\ Service!Begun(op, o, d).op = op
           /\ Service!Begun(op, o, d).object = o
           /\ Service!Begun(op, o, d).data = d
           /\ Service!Begun(op, o, d).result = "none"
           /\ Service!Idle.op = "none" /\ Service!Idle.result = "none"
BY DEF Service!Begun, Service!Idle

-----------------------------------------------------------------------------
(* A call for a block.                                                     *)

\* A write of the block whose step is due: what it sends, and that the device
\* followed it when it is taken for done.
LEMMA StepsFollow ==
    ASSUME NEW p, IsChannel(p.channel), IsBlock(p.block), NEW t,
           NEW step \in {"begin", "write", "end"}, NEW object, NEW data, NEW next,
           object = SystemCommand \/ Sendable(object, data),
           \/ /\ step = "begin" /\ next = "write"
              /\ object = SystemCommand /\ data = DownloadStart
           \/ /\ step = "write" /\ next = "end"
              /\ object = p.block.object /\ data = p.block.data
              /\ object # SystemCommand
           \/ /\ step = "end" /\ next = "verify"
              /\ object = SystemCommand /\ data = DownloadEnd
    PROVE  LET q == BlockStep(p, step, object, data, next)
           IN  /\ IsChannel(q.channel) /\ IsBlock(q.block)
               /\ Follows(p.channel, p.block, t) => Follows(q.channel, q.block, t)
               /\ q.block.object = p.block.object /\ q.block.data = p.block.data
               /\ p.block.step # "none" => q.block.step # "none"
               /\ q.channel.result # "none" => q.channel = p.channel
               /\ p.ret # "VERIFY_FAILED" => q.ret # "VERIFY_FAILED"
               /\ q.ret = "OK" =>
                    /\ p.ret = "OK"
                    /\ \/ q.block.step = next
                       \/ p.block.step # step /\ q.block.step = p.block.step
<1> DEFINE r == Service!Call(p.channel, "write", object, data)
           q == BlockStep(p, step, object, data, next)
           moved == [p.block EXCEPT !.step = next]
<1>1. CASE p.ret # "OK" \/ p.block.step # step
  <2>1. q = p
    BY <1>1 DEF BlockStep
  <2> QED
    BY <1>1, <2>1
<1>2. CASE p.ret = "OK" /\ p.block.step = step
  <2>1. q = [channel |-> r.channel, ret |-> r.ret,
             block |-> IF r.ret = "OK" THEN moved ELSE p.block]
    BY <1>2 DEF BlockStep
  <2>2. /\ q.channel = r.channel /\ q.ret = r.ret
        /\ q.block = IF r.ret = "OK" THEN moved ELSE p.block
    BY <2>1
  <2>3. IsChannel(r.channel)
    BY ChannelsStay
  <2>4. /\ IsBlock(moved) /\ moved.step = next /\ moved.object = p.block.object
        /\ moved.data = p.block.data
    BY <1>2 DEF IsBlock
  <2> HIDE DEF r, moved
  <2>5. CASE p.channel.op = "none"
    <3>1. r.channel = Service!Begun("write", object, data) /\ r.ret = "PENDING"
      BY <2>5, Calls DEF r
    <3>2. Follows(p.channel, p.block, t) => Follows(r.channel, p.block, t)
      BY <3>1, <1>2, BegunFields DEF Follows, OwnCommand, Commands
    <3> QED
      BY <3>1, <3>2, <2>2, <2>3, <1>2, BegunFields
  <2>6. CASE r.channel = p.channel /\ r.ret \in {"PENDING", "BUSY"}
    BY <2>6, <2>2, <1>2
  <2>7. CASE /\ p.channel.op = "write" /\ p.channel.object = object
             /\ p.channel.result = r.ret /\ r.channel = Service!Idle
             /\ r.ret \in {"OK", "error"}
    <3>1. CASE r.ret = "OK"
      <4>1. Follows(p.channel, p.block, t) => Follows(r.channel, moved, t)
        BY <3>1, <2>7, <2>4, <1>2, BegunFields
        DEF Follows, OwnCommand, Commands
      <4> QED
        BY <4>1, <3>1, <2>2, <2>3, <2>4, <2>7, <1>2, BegunFields
    <3>2. CASE r.ret = "error"
      <4>1. Follows(p.channel, p.block, t) => Follows(r.channel, p.block, t)
        BY <2>7, BegunFields DEF Follows, OwnCommand, Commands
      <4> QED
        BY <4>1, <3>2, <2>2, <2>3, <2>7, <1>2, BegunFields
    <3> QED
      BY <2>7, <3>1, <3>2
  <2> QED
    BY <2>5, <2>6, <2>7, Calls DEF r
<1> QED
  BY <1>1, <1>2


\* A call goes through the writes as far as their results are there; it gets to
\* the readback only behind all of them.
LEMMA DownloadsFollow ==
    ASSUME NEW p, IsChannel(p.channel), IsBlock(p.block), p.block.step # "none",
           NEW t
    PROVE  LET q == Downloaded(p)
           IN  /\ IsChannel(q.channel) /\ IsBlock(q.block)
               /\ Follows(p.channel, p.block, t) => Follows(q.channel, q.block, t)
               /\ q.block.object = p.block.object /\ q.block.data = p.block.data
               /\ q.block.step # "none"
               /\ q.channel.result # "none" => q.channel = p.channel
               /\ q.ret = "OK" => q.block.step = "verify"
               /\ p.ret = "OK" => q.ret # "VERIFY_FAILED"
<1> DEFINE b == p.block
           p1 == BlockStep(p, "begin", SystemCommand, DownloadStart, "write")
           p2 == BlockStep(p1, "write", b.object, b.data, "end")
           p3 == BlockStep(p2, "end", SystemCommand, DownloadEnd, "verify")
<1>1. b.object # SystemCommand /\ Sendable(b.object, b.data)
  BY ObjectsAssumption DEF IsBlock, Sendable
<1>2. Downloaded(p) = p3
  BY DEF Downloaded
<1>3. /\ IsChannel(p1.channel) /\ IsBlock(p1.block)
      /\ Follows(p.channel, p.block, t) => Follows(p1.channel, p1.block, t)
      /\ p1.block.object = b.object /\ p1.block.data = b.data
      /\ p1.block.step # "none"
      /\ p1.channel.result # "none" => p1.channel = p.channel
      /\ p.ret # "VERIFY_FAILED" => p1.ret # "VERIFY_FAILED"
      /\ p1.ret = "OK" => p1.block.step # "begin"
  BY <1>1, StepsFollow
<1> HIDE DEF p1
<1>4. /\ IsChannel(p2.channel) /\ IsBlock(p2.block)
      /\ Follows(p1.channel, p1.block, t) => Follows(p2.channel, p2.block, t)
      /\ p2.block.object = b.object /\ p2.block.data = b.data
      /\ p2.block.step # "none"
      /\ p2.channel.result # "none" => p2.channel = p1.channel
      /\ p1.ret # "VERIFY_FAILED" => p2.ret # "VERIFY_FAILED"
      /\ p2.ret = "OK" => p2.block.step \notin {"begin", "write"}
  BY <1>1, <1>3, StepsFollow
<1> HIDE DEF p2
<1>5. /\ IsChannel(p3.channel) /\ IsBlock(p3.block)
      /\ Follows(p2.channel, p2.block, t) => Follows(p3.channel, p3.block, t)
      /\ p3.block.object = b.object /\ p3.block.data = b.data
      /\ p3.block.step # "none"
      /\ p3.channel.result # "none" => p3.channel = p2.channel
      /\ p2.ret # "VERIFY_FAILED" => p3.ret # "VERIFY_FAILED"
      /\ p3.ret = "OK" => p3.block.step \notin {"begin", "write", "end"}
  <2>1. /\ IsChannel(p3.channel) /\ IsBlock(p3.block)
        /\ Follows(p2.channel, p2.block, t) => Follows(p3.channel, p3.block, t)
        /\ p3.block.object = p2.block.object /\ p3.block.data = p2.block.data
        /\ p2.block.step # "none" => p3.block.step # "none"
        /\ p3.channel.result # "none" => p3.channel = p2.channel
        /\ p2.ret # "VERIFY_FAILED" => p3.ret # "VERIFY_FAILED"
        /\ p3.ret = "OK" =>
             /\ p2.ret = "OK"
             /\ \/ p3.block.step = "verify"
                \/ p2.block.step # "end" /\ p3.block.step = p2.block.step
    BY <1>4, StepsFollow
  <2> HIDE DEF p3
  <2> QED
    BY <1>4, <2>1
<1>6. p3.ret = "OK" => p3.block.step = "verify"
  BY <1>5 DEF IsBlock
<1> HIDE DEF p3
<1> QED
  BY <1>2, <1>3, <1>4, <1>5, <1>6

\* The readback: it is the last step, and a positive or a negative verdict
\* compares what the channel was answered.
LEMMA ReadbackFollows ==
    ASSUME NEW p, IsChannel(p.channel), IsBlock(p.block), NEW t,
           p.block.step # "none", p.ret = "OK" => p.block.step = "verify"
    PROVE  LET q == BlockVerify(p)
           IN  /\ IsChannel(q.channel) /\ IsBlock(q.block)
               /\ Follows(p.channel, p.block, t) => Follows(q.channel, q.block, t)
               /\ q.channel.result # "none" => q.channel = p.channel
               /\ q.ret = "OK" => p.ret = "OK" /\ p.block.step = "verify"
               /\ q.ret \in {"OK", "VERIFY_FAILED"} =>
                    \/ p.ret = "VERIFY_FAILED"
                    \/ /\ p.channel.op = "read" /\ p.channel.object = p.block.object
                       /\ p.channel.result = "OK"
                       /\ q.ret = "OK" <=>
                            Verified(p.block.object, p.channel.answer, p.block.data)
<1> DEFINE b == p.block
           r == Service!Call(p.channel, "read", b.object, <<>>)
           agrees == Verified(b.object, p.channel.answer, b.data)
           ret == IF r.ret = "OK" /\ ~agrees THEN "VERIFY_FAILED" ELSE r.ret
           q == BlockVerify(p)
<1>1. CASE p.ret # "OK"
  <2>1. q = p
    BY <1>1 DEF BlockVerify
  <2> QED
    BY <1>1, <2>1
<1>2. CASE p.ret = "OK"
  <2>1. q = [channel |-> r.channel, ret |-> ret,
             block |-> IF ret = "PENDING" THEN b ELSE NoBlock]
    BY <1>2 DEF BlockVerify
  <2>2. /\ q.channel = r.channel /\ q.ret = ret
        /\ q.block = IF ret = "PENDING" THEN b ELSE NoBlock
    BY <2>1
  <2>3. IsChannel(r.channel)
    BY ChannelsStay DEF IsBlock, Sendable
  <2>4. IsBlock(NoBlock) /\ NoBlock.step = "none"
    BY DEF IsBlock, NoBlock
  <2>5. b.object # SystemCommand /\ b.object \in Parameters
    BY ObjectsAssumption DEF IsBlock, Sendable
  <2>6. Follows(r.channel, NoBlock, t)
    BY <2>4 DEF Follows
  <2> HIDE DEF r, agrees
  <2>7. CASE p.channel.op = "none"
    <3>1. r.channel = Service!Begun("read", b.object, <<>>) /\ r.ret = "PENDING"
      BY <2>7, Calls DEF r
    <3>2. Follows(p.channel, p.block, t) => Follows(r.channel, p.block, t)
      BY <3>1, <2>5, <1>2, BegunFields DEF Follows, OwnCommand, Commands
    <3> QED
      BY <3>1, <3>2, <2>2, <2>3, <1>2, BegunFields
  <2>8. CASE r.channel = p.channel /\ r.ret \in {"PENDING", "BUSY"}
    BY <2>8, <2>2, <2>3, <2>4, <2>6, <1>2
  <2>9. CASE /\ p.channel.op = "read" /\ p.channel.object = b.object
             /\ p.channel.result = r.ret /\ r.channel = Service!Idle
             /\ r.ret \in {"OK", "error"}
    <3>1. q.block = NoBlock /\ q.channel = Service!Idle
      BY <2>9, <2>2
    <3>2. q.ret \in {"OK", "VERIFY_FAILED"} => r.ret = "OK"
      BY <2>9, <2>2
    <3>3. r.ret = "OK" => (q.ret = "OK" <=> agrees)
      BY <2>2
    <3> QED
      BY <3>1, <3>2, <3>3, <2>9, <2>3, <2>4, <2>6, <1>2, BegunFields DEF agrees
  <2> QED
    BY <2>7, <2>8, <2>9, Calls DEF r
<1> QED
  BY <1>1, <1>2


\* A whole call of write_parameter_block, on a block it starts or goes on with.
\* Kept to the frame, it ends the block well only behind the last command; its
\* verdict compares the data with the answer on the channel.
LEMMA BlockCalls ==
    ASSUME NEW c, IsChannel(c), NEW b, IsBlock(b), NEW t,
           NEW object, NEW data, Sendable(object, data)
    PROVE  LET p == WriteParameterBlock(c, b, object, data)
               starts == b.step = "none"
               u == IF starts THEN "none" ELSE t
               framed == IF starts THEN c.object # SystemCommand
                         ELSE Follows(c, b, t)
           IN  /\ IsChannel(p.channel) /\ IsBlock(p.block)
               /\ p.channel.result # "none" => p.channel = c
               /\ framed => Follows(p.channel, p.block, u)
               /\ framed /\ p.ret = "OK" => u = "ended"
               /\ p.ret \in {"OK", "VERIFY_FAILED"} =>
                    /\ c.op = "read" /\ c.object = object /\ c.result = "OK"
                    /\ p.ret = "OK" <=> Verified(object, c.answer, data)
<1> DEFINE p == WriteParameterBlock(c, b, object, data)
           starts == b.step = "none"
           u == IF starts THEN "none" ELSE t
           framed == IF starts THEN c.object # SystemCommand ELSE Follows(c, b, t)
           latched == [step |-> "begin", object |-> object, data |-> data]
           first == [channel |-> c, ret |-> "OK",
                     block |-> IF starts THEN latched ELSE b]
           down == Downloaded(first)
<1>1. CASE b.step # "none" /\ ~BlockMatches(b, object, data)
  <2>1. p = [channel |-> c, block |-> b, ret |-> "BUSY"]
    BY <1>1 DEF WriteParameterBlock
  <2> QED
    BY <1>1, <2>1
<1>2. CASE ~(b.step # "none" /\ ~BlockMatches(b, object, data))
  <2>1. p = BlockVerify(down)
    BY <1>2 DEF WriteParameterBlock
  <2>2. /\ first.channel = c /\ first.ret = "OK" /\ IsBlock(first.block)
        /\ first.block.step # "none"
        /\ first.block.object = object /\ first.block.data = data
    BY <1>2 DEF IsBlock, BlockMatches
  <2>3. framed => Follows(c, first.block, u)
    BY DEF Follows, OwnCommand, Commands
  <2> HIDE DEF first
  <2>4. /\ IsChannel(down.channel) /\ IsBlock(down.block)
        /\ Follows(c, first.block, u) => Follows(down.channel, down.block, u)
        /\ down.block.object = object /\ down.block.data = data
        /\ down.block.step # "none"
        /\ down.channel.result # "none" => down.channel = c
        /\ down.ret = "OK" => down.block.step = "verify"
        /\ down.ret # "VERIFY_FAILED"
    BY <2>2, DownloadsFollow
  <2> HIDE DEF down
  <2>5. /\ IsChannel(p.channel) /\ IsBlock(p.block)
        /\ Follows(down.channel, down.block, u) => Follows(p.channel, p.block, u)
        /\ p.channel.result # "none" => p.channel = down.channel
        /\ p.ret = "OK" => down.block.step = "verify"
        /\ p.ret \in {"OK", "VERIFY_FAILED"} =>
             /\ down.channel.op = "read" /\ down.channel.object = object
             /\ down.channel.result = "OK"
             /\ p.ret = "OK" <=> Verified(object, down.channel.answer, data)
    BY <2>1, <2>4, ReadbackFollows
  <2> HIDE DEF p
  <2>6. framed /\ p.ret = "OK" => u = "ended"
    BY <2>3, <2>4, <2>5 DEF Follows
  <2>7. p.ret \in {"OK", "VERIFY_FAILED"} => down.channel = c
    BY <2>4, <2>5
  <2> HIDE DEF u, framed
  <2> QED
    BY <2>3, <2>4, <2>5, <2>6, <2>7 DEF p, u, framed
<1> QED
  BY <1>1, <1>2


-----------------------------------------------------------------------------
(* The steps of the application and of the device.                         *)

\* What the application may write is what it is assumed to write.
LEMMA WritesSendable ==
    ASSUME NEW b \in Blocks \cup Writes
    PROVE  Sendable(b[1], b[2])
BY ObjectsAssumption, PagesAssumption DEF Sendable

\* The comparison of the code is right about what the device holds.
LEMMA VerifiedHolds ==
    ASSUME NEW object, NEW actual \in Seq(Nat), NEW expected \in Seq(Nat)
    PROVE  Verified(object, actual, expected) <=> Holds(actual, object, expected)
BY ImagesCompared DEF Verified, Holds

LEMMA InitInv ==
    ASSUME CInit
    PROVE  /\ FrameInv /\ StoreInv /\ PageInv /\ VerdictInv
           /\ BlockFramed /\ VerifyExact
<1> USE DEF CInit, Init
<1>1. FrameInv
  <2>1. IsChannel(channel) /\ IsBlock(block) /\ block.step = "none"
    BY DEF IsChannel, IsBlock, NoBlock, Service!Idle
  <2> QED
    BY <2>1 DEF FrameInv, Follows
<1>2. StoreInv
  BY ObjectsAssumption DEF StoreInv, Service!Idle
<1>3. PageInv
  BY PagesAssumption, ConfigsAssumption
  DEF PageInv, Page, IsConfig, Configurations
<1>4. VerdictInv
  BY DEF VerdictInv
<1>5. BlockFramed /\ VerifyExact
  BY DEF BlockFramed, VerifyExact, NotTold
<1> QED
  BY <1>1, <1>2, <1>3, <1>4, <1>5

\* A call for a block.
LEMMA CallBlockStep ==
    ASSUME FrameInv, StoreInv, NEW object, NEW data, Sendable(object, data),
           CallBlock(object, data)
    PROVE  /\ FrameInv' /\ StoreInv' /\ BlockFramed' /\ VerifyExact'
           /\ UNCHANGED store
<1> DEFINE p == WriteParameterBlock(channel, block, object, data)
           starts == block.step = "none"
           u == IF starts THEN "none" ELSE trail
           framed == IF starts THEN channel.object # SystemCommand
                     ELSE Follows(channel, block, trail)
<1>1. /\ channel' = p.channel /\ block' = p.block /\ store' = store
      /\ told' = [ret |-> p.ret, object |-> object, data |-> data]
      /\ trail' = u
      /\ mixed' = IF starts THEN channel.object = SystemCommand ELSE mixed
  BY DEF CallBlock
<1>2. /\ IsChannel(p.channel) /\ IsBlock(p.block)
      /\ p.channel.result # "none" => p.channel = channel
      /\ framed => Follows(p.channel, p.block, u)
      /\ framed /\ p.ret = "OK" => u = "ended"
      /\ p.ret \in {"OK", "VERIFY_FAILED"} =>
           /\ channel.op = "read" /\ channel.object = object
           /\ channel.result = "OK"
           /\ p.ret = "OK" <=> Verified(object, channel.answer, data)
  BY BlockCalls DEF FrameInv
<1>3. mixed' \/ framed
  BY <1>1 DEF FrameInv
<1> HIDE DEF p, u, framed
<1>4. FrameInv'
  BY <1>1, <1>2, <1>3 DEF FrameInv
<1>5. StoreInv'
  BY <1>1, <1>2 DEF StoreInv
<1>6. BlockFramed'
  BY <1>1, <1>2, <1>3 DEF BlockFramed
<1>7. VerifyExact'
  <2>1. SUFFICES ASSUME p.ret \in {"OK", "VERIFY_FAILED"}
                 PROVE  p.ret = "OK" <=> Holds(store[object], object, data)
    BY <1>1 DEF VerifyExact
  <2>2. channel.answer = store[object]
    BY <1>2, <2>1 DEF StoreInv
  <2>3. store[object] \in Seq(Nat) /\ data \in Seq(Nat)
    BY DEF StoreInv, Sendable
  <2> QED
    BY <1>2, <2>1, <2>2, <2>3, VerifiedHolds
<1> QED
  BY <1>1, <1>4, <1>5, <1>6, <1>7

\* A service of the application's own: a system command takes the block out of
\* its frame, nothing else does.
LEMMA CallServiceStep ==
    ASSUME FrameInv, StoreInv, NEW op \in {"read", "write"}, NEW object, NEW data,
           op = "read" => object \in Parameters,
           op = "write" => object = SystemCommand \/ Sendable(object, data),
           CallService(op, object, data)
    PROVE  /\ FrameInv' /\ StoreInv' /\ BlockFramed' /\ VerifyExact'
           /\ UNCHANGED store
<1> DEFINE r == Service!Call(channel, op, object, data)
<1>1. /\ channel' = r.channel /\ told' = NotTold /\ UNCHANGED <<store, block, trail>>
      /\ mixed' = (block.step # "none" /\ (mixed \/ object = SystemCommand))
  BY DEF CallService
<1>2. IsChannel(r.channel)
  BY ChannelsStay DEF FrameInv
<1>3. \/ r.channel = channel
      \/ /\ r.channel.result = "none"
         /\ \/ r.channel.op = "none"
            \/ r.channel.op = op /\ r.channel.object = object
  BY Calls, BegunFields DEF FrameInv
<1> HIDE DEF r
<1>4. FrameInv'
  <2>1. SUFFICES ASSUME ~mixed' PROVE Follows(r.channel, block, trail)
    BY <1>1, <1>2, <2>1 DEF FrameInv
  <2>2. CASE block.step = "none"
    BY <2>2 DEF Follows
  <2>3. CASE block.step # "none"
    BY <2>1, <2>3, <1>1, <1>3
    DEF FrameInv, Follows, OwnCommand, Commands
  <2> QED
    BY <2>2, <2>3
<1>5. StoreInv'
  BY <1>1, <1>3 DEF StoreInv
<1>6. BlockFramed' /\ VerifyExact'
  BY <1>1 DEF BlockFramed, VerifyExact, NotTold
<1> QED
  BY <1>1, <1>4, <1>5, <1>6

\* The device executes the service: an answer is what it holds, and it follows
\* the block one step further.
LEMMA AcceptStep ==
    ASSUME FrameInv, StoreInv, Accept
    PROVE  /\ FrameInv' /\ StoreInv' /\ BlockFramed' /\ VerifyExact'
           /\ Page' = Page
<1> DEFINE done == [Service!Executed(store, channel) EXCEPT !.result = "OK"]
<1>1. /\ channel' = [done EXCEPT !.answer = done.value]
      /\ trail' = Trailed(channel) /\ told' = NotTold /\ UNCHANGED <<block, mixed>>
      /\ Service!Underway(channel)
  BY DEF Accept
<1>2. /\ IsChannel(channel')
      /\ channel'.op = channel.op /\ channel'.object = channel.object
      /\ channel'.data = channel.data /\ channel'.result = "OK"
      /\ channel.op = "read" => channel'.answer = store[channel.object]
  <2> DEFINE c1 == [channel EXCEPT !.made = "executed"]
             c2 == [c1 EXCEPT !.value = IF channel.op = "read"
                                        THEN store[channel.object]
                                        ELSE Service!NoValue]
             c3 == [c2 EXCEPT !.result = "OK"]
             c4 == [c3 EXCEPT !.answer = c3.value]
  <2>1. channel' = c4
    BY <1>1 DEF Service!Executed
  <2>2. IsChannel(c1) /\ \A f \in {"op", "object", "data"} : c1[f] = channel[f]
    BY DEF FrameInv, IsChannel
  <2> HIDE DEF c1
  <2>3. /\ IsChannel(c2) /\ \A f \in {"op", "object", "data"} : c2[f] = c1[f]
        /\ channel.op = "read" => c2.value = store[channel.object]
    BY <2>2 DEF IsChannel
  <2> HIDE DEF c2
  <2>4. /\ IsChannel(c3) /\ c3.result = "OK"
        /\ \A f \in {"op", "object", "data", "value"} : c3[f] = c2[f]
    BY <1>1, <2>2, <2>3 DEF IsChannel, Service!Underway
  <2> HIDE DEF c3
  <2>5. /\ IsChannel(c4) /\ c4.answer = c3.value
        /\ \A f \in {"op", "object", "data", "result"} : c4[f] = c3[f]
    BY <2>4 DEF IsChannel
  <2> HIDE DEF c4
  <2> QED
    BY <2>1, <2>2, <2>3, <2>4, <2>5
<1>3. /\ store' \in [Parameters -> Seq(Nat)] /\ Page' = Page
      /\ channel.op = "read" => store' = store
  BY <1>2, PagesAssumption, ObjectsAssumption
  DEF Accept, FrameInv, IsChannel, StoreInv, Sendable, Page
<1>4. FrameInv'
  <2>1. IsBlock(block)
    BY DEF FrameInv
  <2>2. block.step # "none" => block.object # SystemCommand
    BY <2>1, ObjectsAssumption DEF IsBlock, Sendable
  <2>3. SUFFICES ASSUME Follows(channel, block, trail)
                 PROVE  Follows(channel', block, Trailed(channel))
    BY <1>1, <1>2, <2>3 DEF FrameInv
  <2>4. DownloadStart # DownloadEnd
    BY DEF DownloadStart, DownloadEnd
  <2> QED
    BY <1>1, <1>2, <2>2, <2>3, <2>4
    DEF Follows, OwnCommand, Commands, Trailed, Service!Underway
<1>5. StoreInv'
  BY <1>2, <1>3 DEF StoreInv
<1>6. BlockFramed' /\ VerifyExact'
  BY <1>1 DEF BlockFramed, VerifyExact, NotTold
<1> QED
  BY <1>3, <1>4, <1>5, <1>6

\* The device refuses it.
LEMMA RefuseStep ==
    ASSUME FrameInv, StoreInv, Refuse
    PROVE  /\ FrameInv' /\ StoreInv' /\ BlockFramed' /\ VerifyExact'
           /\ UNCHANGED store
<1>1. /\ channel' = [channel EXCEPT !.made = "refused", !.result = "error"]
      /\ told' = NotTold /\ UNCHANGED <<store, block, trail, mixed>>
      /\ Service!Underway(channel)
  BY DEF Refuse
<1>2. /\ IsChannel(channel')
      /\ channel'.op = channel.op /\ channel'.object = channel.object
      /\ channel'.data = channel.data /\ channel'.result = "error"
  BY <1>1 DEF FrameInv, IsChannel, Service!Underway
<1>3. FrameInv'
  BY <1>1, <1>2 DEF FrameInv, Follows, OwnCommand, Commands
<1>4. StoreInv'
  BY <1>1, <1>2 DEF StoreInv
<1>5. BlockFramed' /\ VerifyExact'
  BY <1>1 DEF BlockFramed, VerifyExact, NotTold
<1> QED
  BY <1>1, <1>3, <1>4, <1>5


-----------------------------------------------------------------------------
(* The page.                                                               *)

\* The recursive definition of Table B.3 defines something: its closed form
\* solves it.
LEMMA TableB3Equation ==
    TableB3 = [n \in 0..191 |->
        IF n = 0 THEN 0
        ELSE TableB3[n - 1] + (IF n <= 64 THEN 1 ELSE IF n <= 128 THEN 4 ELSE 16)]
<1> DEFINE Step(f) == [n \in 0..191 |->
        IF n = 0 THEN 0
        ELSE f[n - 1] + (IF n <= 64 THEN 1 ELSE IF n <= 128 THEN 4 ELSE 16)]
           closed == [n \in 0..191 |-> DecodeMinCycleTime(n)]
<1>1. \A n \in 0..191 :
        DecodeMinCycleTime(n) = IF n < 64 THEN n
                                ELSE IF n < 128 THEN 64 + (n - 64) * 4
                                ELSE 320 + (n - 128) * 16
  BY DEF DecodeMinCycleTime
<1>2. closed = Step(closed)
  BY <1>1
<1>3. \E f : f = Step(f)
  BY <1>2
<1> QED
  BY <1>3 DEF TableB3

\* The octet of a page is decoded as the table says.
LEMMA CycleTimesDecoded ==
    \A n \in 0..191 : TableB3[n] = DecodeMinCycleTime(n)
<1>1. \A n \in 0..191 :
        DecodeMinCycleTime(n) = IF n < 64 THEN n
                                ELSE IF n < 128 THEN 64 + (n - 64) * 4
                                ELSE 320 + (n - 128) * 16
  BY DEF DecodeMinCycleTime
<1> DEFINE Wrong == {n \in 0..191 : TableB3[n] # DecodeMinCycleTime(n)}
<1>2. SUFFICES ASSUME Wrong # {} PROVE FALSE
  OBVIOUS
<1>3. Wrong \subseteq Nat
  OBVIOUS
<1>4. PICK n \in Wrong : \A k \in Wrong : n <= k
  <2> HIDE DEF Wrong
  <2> QED
    BY <1>2, <1>3, LeastNumber
<1>5. \A k \in 0..191 : k < n => TableB3[k] = DecodeMinCycleTime(k)
  BY <1>4
<1>6. n \in 0..191 /\ TableB3[n] # DecodeMinCycleTime(n)
  OBVIOUS
<1>7. CASE n = 0
  BY <1>1, <1>6, <1>7, TableB3Equation
<1>8. CASE n # 0
  <2>1. TableB3[n - 1] = DecodeMinCycleTime(n - 1)
    BY <1>5, <1>6, <1>8
  <2>2. TableB3[n] = TableB3[n - 1]
                     + (IF n <= 64 THEN 1 ELSE IF n <= 128 THEN 4 ELSE 16)
    <3> DEFINE g(i) == TableB3[i - 1]
                       + (IF i <= 64 THEN 1 ELSE IF i <= 128 THEN 4 ELSE 16)
    <3>1. TableB3 = [i \in 0..191 |-> IF i = 0 THEN 0 ELSE g(i)]
      BY TableB3Equation
    <3> HIDE DEF g
    <3>2. TableB3[n] = g(n)
      BY <1>6, <1>8, <3>1, Zenon
    <3> QED
      BY <3>2 DEF g
  <2> QED
    BY <1>1, <1>6, <1>8, <2>1, <2>2
<1> QED
  BY <1>7, <1>8

\* So are the process data descriptors, except for the reserved ones.
LEMMA DescriptorsDecoded ==
    ASSUME NEW d \in 0..255
    PROVE  /\ ~PdDescriptorIsReserved(d) => TableB6(d) = DecodePdDescriptor(d)
           /\ DecodePdDescriptor(d) \in 0..32
<1>1. d % 32 \in 0..31
  OBVIOUS
<1>2. DecodePdDescriptor(d) \in 0..32
  BY <1>1 DEF DecodePdDescriptor
<1>3. CASE d >= 128
  BY <1>1, <1>3 DEF TableB6, DecodePdDescriptor
<1>4. CASE d < 128
  <2>1. DecodePdDescriptor(d) = ((d % 32) + 7) \div 8
    BY <1>4 DEF DecodePdDescriptor
  <2>2. \A k \in 0..32 :
           k * 8 \in (d % 32)..((d % 32) + 7) <=> k = ((d % 32) + 7) \div 8
    BY <1>1
  <2> QED
    BY <1>2, <1>4, <2>1, <2>2 DEF TableB6
<1> QED
  BY <1>2, <1>3, <1>4

\* What a page that parses yields.
LEMMA ParsedFields ==
    ASSUME NEW page, IsPage(page), ParseError(page) = "OK"
    PROVE  /\ page[1] \in 0..255 /\ page[2] \in 0..255 /\ page[3] \in 0..255
           /\ page[4] \in 0..255 /\ page[5] \in 0..255 /\ page[6] \in Nat
           /\ ~PdDescriptorIsReserved(page[4]) /\ ~PdDescriptorIsReserved(page[5])
           /\ Parsed(page).valid /\ Parsed(page).min_cycle_time \in Nat
           /\ Parsed(page).operate_mseq_code \in 0..7
           /\ Parsed(page).isdu_supported \in BOOLEAN
           /\ Parsed(page).revision = page[3] /\ Parsed(page).id = page[6]
           /\ Parsed(page).pd_in_len \in 0..32 /\ Parsed(page).pd_out_len \in 0..32
<1>1. Len(page) \in Nat /\ ~(Len(page) < 6)
      /\ ~PdDescriptorIsReserved(page[4]) /\ ~PdDescriptorIsReserved(page[5])
  <2>1. Len(page) \in Nat
    BY DEF IsPage
  <2>2. ~(Len(page) < PageLen) /\ ~PdDescriptorIsReserved(page[4])
        /\ ~PdDescriptorIsReserved(page[5])
    <3>1. ~(Len(page) < PageLen)
      BY <2>1, SMT DEF ParseError, PageLen
    <3>2. Len(page) >= PageLen
      BY <2>1, <3>1, SMT DEF PageLen
    <3>3. ParseError(page) = IF PdDescriptorIsReserved(page[4])
                                  \/ PdDescriptorIsReserved(page[5])
                             THEN "PD_DESCRIPTOR" ELSE "OK"
      BY <3>1, <3>2, Zenon DEF ParseError
    <3> QED
      BY <3>1, <3>3
  <2> QED
    BY <2>1, <2>2 DEF PageLen
<1>2. /\ page[1] \in 0..255 /\ page[2] \in 0..255 /\ page[3] \in 0..255
      /\ page[4] \in 0..255 /\ page[5] \in 0..255
  <2>1. \A i \in 1..5 : i <= Len(page) => page[i] \in 0..255
    <3>1. PageLen - 1 = 5
      BY DEF PageLen
    <3> QED
      BY <3>1, Zenon DEF IsPage
  <2>2. \A i \in 1..5 : i <= Len(page)
    BY <1>1
  <2> QED
    BY <2>1, <2>2
<1>3. page[6] \in Nat
  BY <1>1 DEF IsPage
<1>4. DecodeMinCycleTime(page[1]) \in Nat
  BY <1>2 DEF DecodeMinCycleTime
<1>5. (page[2] \div 2) % 8 \in 0..7
  BY <1>2
<1>6. /\ DecodePdDescriptor(page[4]) \in 0..32
      /\ DecodePdDescriptor(page[5]) \in 0..32
  BY <1>2, DescriptorsDecoded
<1> QED
  BY <1>1, <1>2, <1>3, <1>4, <1>5, <1>6 DEF Parsed


-----------------------------------------------------------------------------
(* The inspection and the choice of a configuration.                       *)

\* The type chosen for a device has its capability code.
LEMMA TypesFit ==
    ASSUME NEW i, i.operate_mseq_code \in 0..7, TypeFromCode(i) # "none"
    PROVE  /\ TypeFromCode(i) \in {"TYPE_0", "TYPE_1_1", "TYPE_1_2", "TYPE_2_1",
                                   "TYPE_2_2", "TYPE_2_V"}
           /\ CodeCompatible(TypeFromCode(i), i.operate_mseq_code)
           /\ TypeFromCode(i) = "TYPE_0" => i.pd_in_len = 0 /\ i.pd_out_len = 0
<1>1. CASE i.operate_mseq_code = 0
  BY <1>1 DEF TypeFromCode, CodeCompatible
<1>2. CASE i.operate_mseq_code = 1
  <2>1. TypeFromCode(i) \in {"TYPE_1_1", "TYPE_1_2"}
    BY <1>2 DEF TypeFromCode
  <2> QED
    BY <1>2, <2>1 DEF CodeCompatible
<1>3. CASE i.operate_mseq_code \in 4..7
  <2>1. TypeFromCode(i) = "TYPE_2_V"
    BY <1>3 DEF TypeFromCode
  <2> QED
    BY <1>3, <2>1 DEF CodeCompatible
<1>4. CASE i.operate_mseq_code \in {2, 3}
  BY <1>4 DEF TypeFromCode
<1> QED
  BY <1>1, <1>2, <1>3, <1>4

\* Choosing a configuration for a device.
LEMMA SelectedConfig ==
    ASSUME NEW i, i.min_cycle_time \in Nat, NEW c, IsConfig(c)
    PROVE  IsConfig(SelectConfig(i, c)) /\ ChosenFor(SelectConfig(i, c), i)
BY DEF SelectConfig, IsConfig, ChosenFor


\* read_device_info: the page that is applied and judged is the device's.
LEMMA ReadDeviceInfoStep ==
    ASSUME FrameInv, StoreInv, PageInv, ReadDeviceInfo
    PROVE  /\ FrameInv' /\ StoreInv' /\ BlockFramed' /\ VerifyExact'
           /\ PageInv' /\ VerdictInv'
<1> DEFINE r == Service!Call(channel, "read", DirectParameters, <<>>)
           page == channel.answer
           parses == r.ret = "OK" /\ ParseError(page) = "OK"
<1>1. /\ CallService("read", DirectParameters, <<>>)
      /\ info' = IF parses THEN Parsed(page) ELSE info
      /\ verdict' = IF parses THEN Validate(info', config)
                    ELSE IF r.ret = "OK" THEN ParseError(page) ELSE r.ret
      /\ UNCHANGED <<config, draft, chosen>>
  BY DEF ReadDeviceInfo
<1>2. FrameInv' /\ StoreInv' /\ BlockFramed' /\ VerifyExact' /\ UNCHANGED store
  <2>1. DirectParameters \in Parameters
    BY PagesAssumption
  <2> QED
    BY <1>1, <2>1, CallServiceStep
<1>3. r.ret = "OK" => page = Page
  BY Calls DEF FrameInv, StoreInv, Page
<1>4. r.ret \in {"PENDING", "BUSY", "OK", "error"}
  BY Calls DEF FrameInv
<1>5. Page' = Page
  BY <1>2 DEF Page
<1> HIDE DEF r, page
<1>6. PageInv'
  BY <1>1, <1>3, <1>5 DEF PageInv
<1>7. VerdictInv'
  <2>1. CASE parses
    BY <1>1, <1>3, <1>5, <2>1 DEF VerdictInv
  <2>2. CASE ~parses /\ r.ret = "OK"
    BY <1>1, <1>3, <1>5, <2>2 DEF VerdictInv
  <2>3. CASE r.ret # "OK"
    BY <1>1, <1>4, <2>3 DEF VerdictInv
  <2> QED
    BY <2>1, <2>2, <2>3
<1> QED
  BY <1>2, <1>6, <1>7

\* select_config_from_device_info, from what was read.
LEMMA SelectStep ==
    ASSUME PageInv, Select
    PROVE  PageInv' /\ VerdictInv'
<1>1. /\ Selectable(info) /\ draft' = SelectConfig(info, draft)
      /\ verdict' = "none" /\ UNCHANGED <<store, info, config>>
  BY DEF Select, vars
<1>2. Page' = Page
  BY <1>1 DEF Page
<1>3. ParseError(Page) = "OK" /\ info = Parsed(Page)
  BY <1>1 DEF PageInv, Selectable, NoInfo
<1>4. info.min_cycle_time \in Nat
  BY <1>3, ParsedFields DEF PageInv
<1>5. IsConfig(draft') /\ ChosenFor(draft', info)
  BY <1>1, <1>4, SelectedConfig DEF PageInv
<1>6. PageInv'
  BY <1>1, <1>2, <1>3, <1>5 DEF PageInv
<1> QED
  BY <1>1, <1>6 DEF VerdictInv

\* iolink_master_init with the draft.
LEMMA InitialiseStep ==
    ASSUME StoreInv, PageInv, Initialise
    PROVE  /\ FrameInv' /\ StoreInv' /\ BlockFramed' /\ VerifyExact'
           /\ PageInv' /\ VerdictInv'
<1>1. /\ config' = draft /\ info' = NoInfo /\ verdict' = "none"
      /\ channel' = Service!Idle /\ block' = NoBlock /\ told' = NotTold
      /\ UNCHANGED <<store, draft, chosen>>
  BY DEF Initialise
<1>2. FrameInv'
  <2>1. IsChannel(channel') /\ IsBlock(block') /\ block'.step = "none"
    BY <1>1 DEF IsChannel, IsBlock, NoBlock, Service!Idle
  <2> QED
    BY <2>1 DEF FrameInv, Follows
<1>3. StoreInv'
  BY <1>1 DEF StoreInv, Service!Idle
<1>4. Page' = Page
  BY <1>1 DEF Page
<1>5. PageInv'
  BY <1>1, <1>4 DEF PageInv
<1> QED
  BY <1>1, <1>2, <1>3, <1>5
  DEF VerdictInv, BlockFramed, VerifyExact, NotTold

-----------------------------------------------------------------------------
(* The theorems.                                                           *)

Inv == FrameInv /\ StoreInv /\ PageInv /\ VerdictInv /\ BlockFramed /\ VerifyExact

LEMMA NextInv ==
    ASSUME Inv, [CNext]_cvars
    PROVE  Inv'
<1> USE DEF Inv
<1>1. ASSUME verdict' = "none", UNCHANGED <<info, config, draft, chosen>>,
             Page' = Page
      PROVE  PageInv' /\ VerdictInv'
  BY <1>1 DEF PageInv, VerdictInv
<1>2. CASE ReadDeviceInfo
  BY <1>2, ReadDeviceInfoStep
<1>3. CASE Select
  <2>1. UNCHANGED vars
    BY <1>3 DEF Select
  <2>2. FrameInv' /\ StoreInv' /\ BlockFramed' /\ VerifyExact'
    BY <2>1 DEF vars, FrameInv, StoreInv, BlockFramed, VerifyExact
  <2> QED
    BY <1>3, <2>2, SelectStep
<1>4. CASE Initialise
  BY <1>4, InitialiseStep
<1>5. CASE Beside(Accept)
  BY <1>1, <1>5, AcceptStep DEF Beside
<1>6. CASE Beside(Refuse)
  BY <1>1, <1>6, RefuseStep DEF Beside, Page
<1>7. CASE Beside(\E b \in Blocks : CallBlock(b[1], b[2]))
  <2>1. PICK b \in Blocks : CallBlock(b[1], b[2])
    BY <1>7 DEF Beside
  <2>2. Sendable(b[1], b[2])
    BY WritesSendable
  <2>3. FrameInv' /\ StoreInv' /\ BlockFramed' /\ VerifyExact' /\ UNCHANGED store
    BY <2>1, <2>2, CallBlockStep
  <2> QED
    BY <1>1, <1>7, <2>3 DEF Beside, Page
<1>8. CASE Beside(OwnService)
  <2>1. FrameInv' /\ StoreInv' /\ BlockFramed' /\ VerifyExact' /\ UNCHANGED store
    <3>1. CASE \E o \in Parameters : CallService("read", o, <<>>)
      BY <3>1, CallServiceStep
    <3>2. CASE \E w \in Writes : CallService("write", w[1], w[2])
      <4>1. PICK w \in Writes : CallService("write", w[1], w[2])
        BY <3>2
      <4>2. Sendable(w[1], w[2])
        BY WritesSendable
      <4> QED
        BY <4>1, <4>2, CallServiceStep
    <3>3. CASE CallService("write", SystemCommand, DownloadStore)
      BY <3>3, CallServiceStep
    <3> QED
      BY <1>8, <3>1, <3>2, <3>3 DEF Beside, OwnService
  <2> QED
    BY <1>1, <1>8, <2>1 DEF Beside, Page
<1>9. CASE UNCHANGED cvars
  BY <1>9 DEF cvars, vars, FrameInv, StoreInv, PageInv, VerdictInv, BlockFramed,
              VerifyExact, Page
<1> QED
  BY <1>2, <1>3, <1>4, <1>5, <1>6, <1>7, <1>8, <1>9 DEF CNext

LEMMA SpecInv == CFairSpec => []Inv
<1>1. CInit => Inv
  BY InitInv DEF Inv
<1>2. Inv /\ [CNext]_cvars => Inv'
  BY NextInv
<1> QED
  BY <1>1, <1>2, PTL DEF CFairSpec


\* For any blocks and any services of the application's own: a block reported as
\* written went between ParamDownloadStart and ParamDownloadEnd
\* (write_parameter_block), whatever the device refused.
THEOREM BlocksFramed == CFairSpec => []BlockFramed
<1>1. Inv => BlockFramed
  BY DEF Inv
<1> QED
  BY <1>1, SpecInv, PTL

\* For any objects, data and devices: the verdict on a block is right both ways
\* (the readback of write_parameter_block and the walk over the records of a Data
\* Storage image, whatever the device kept).
THEOREM VerdictsExact == CFairSpec => []VerifyExact
<1>1. Inv => VerifyExact
  BY DEF Inv
<1> QED
  BY <1>1, SpecInv, PTL

\* For every page: a device that read_device_info accepts allows the port's cycle
\* time (Table B.3), has the port's process data lengths (Table B.6) and, where
\* that is inspected, the expected identity.
THEOREM InspectionsSound == CFairSpec => []InspectionSound
<1>1. ASSUME Inv PROVE InspectionSound
  <2>1. SUFFICES ASSUME verdict = "OK"
                 PROVE  /\ Page[1] \in DOMAIN TableB3 =>
                             config.min_cycle_time >= TableB3[Page[1]]
                        /\ config.pd_in_len = TableB6(Page[4])
                        /\ config.pd_out_len = TableB6(Page[5])
                        /\ config.inspection => config.expected_id = Page[6]
    BY DEF InspectionSound
  <2>2. ParseError(Page) = "OK" /\ info = Parsed(Page)
        /\ Validate(info, config) = "OK"
    BY <1>1, <2>1 DEF Inv, VerdictInv
  <2>3. IsPage(Page) /\ config.min_cycle_time \in 0..255
    BY <1>1 DEF Inv, PageInv, IsConfig
  <2>4. /\ Page[1] \in 0..255 /\ Page[4] \in 0..255 /\ Page[5] \in 0..255
        /\ ~PdDescriptorIsReserved(Page[4]) /\ ~PdDescriptorIsReserved(Page[5])
        /\ info.min_cycle_time \in Nat
    BY <2>2, <2>3, ParsedFields
  <2>5. /\ ~(config.min_cycle_time < info.min_cycle_time)
        /\ <<config.pd_in_len, config.pd_out_len>>
             = <<info.pd_in_len, info.pd_out_len>>
        /\ config.inspection => config.expected_id = info.id
    BY <2>2 DEF Validate
  <2>6. /\ info.min_cycle_time = DecodeMinCycleTime(Page[1])
        /\ info.pd_in_len = DecodePdDescriptor(Page[4])
        /\ info.pd_out_len = DecodePdDescriptor(Page[5]) /\ info.id = Page[6]
    BY <2>2 DEF Parsed
  <2>7. ASSUME Page[1] \in DOMAIN TableB3
        PROVE  config.min_cycle_time >= TableB3[Page[1]]
    <3>1. DOMAIN TableB3 = 0..191
      BY TableB3Equation
    <3>2. TableB3[Page[1]] = info.min_cycle_time
      BY <2>6, <2>7, <3>1, CycleTimesDecoded
    <3> QED
      BY <2>3, <2>4, <2>5, <3>2
  <2>8. /\ config.pd_in_len = TableB6(Page[4])
        /\ config.pd_out_len = TableB6(Page[5])
    BY <2>4, <2>5, <2>6, DescriptorsDecoded
  <2> QED
    BY <2>5, <2>6, <2>7, <2>8
<1> QED
  BY <1>1, SpecInv, PTL

\* For every page, if the port has room for the process data of any device
\* (IOLINK_PD_IN_MAX_SIZE, IOLINK_PD_OUT_MAX_SIZE at least 32): the configuration
\* chosen by select_config_from_device_info is accepted by init and by the
\* inspection of the same device, except for what it cannot express.
THEOREM SelectionsWork ==
    ASSUME PdMax >= 32
    PROVE  CFairSpec => []SelectionWorks
<1>1. ASSUME Inv PROVE SelectionWorks
  <2> DEFINE i == Parsed(Page)
  <2>1. SUFFICES ASSUME chosen
                 PROVE  /\ InitAccepts(draft)
                        /\ config = draft =>
                             /\ verdict \notin {"PD_SIZE", "M_SEQUENCE", "TOO_SHORT",
                                                "PD_DESCRIPTOR"}
                             /\ verdict = "CYCLE_TIME" => info.min_cycle_time > 255
                             /\ verdict = "REVISION" => Page[3] \notin Revisions
    BY DEF SelectionWorks
  <2>2. /\ IsPage(Page) /\ ParseError(Page) = "OK" /\ Selectable(i)
        /\ ChosenFor(draft, i)
    BY <1>1, <2>1 DEF Inv, PageInv
  <2>3. /\ i.pd_in_len \in 0..32 /\ i.pd_out_len \in 0..32
        /\ i.operate_mseq_code \in 0..7 /\ i.min_cycle_time \in Nat
        /\ i.revision = Page[3] /\ i.valid
    BY <2>2, ParsedFields
  <2>4. TypeFromCode(i) # "none"
    BY <2>2 DEF Selectable
  <2>5. VerdictInv
    BY <1>1 DEF Inv
  <2> HIDE DEF i
  <2>6. /\ CodeCompatible(TypeFromCode(i), i.operate_mseq_code)
        /\ TypeFromCode(i) = "TYPE_0" => i.pd_in_len = 0 /\ i.pd_out_len = 0
    BY <2>3, <2>4, TypesFit
  <2>7. InitAccepts(draft)
    BY <2>2, <2>3, <2>6, PdMaxAssumption DEF InitAccepts, ChosenFor
  <2>8. ASSUME config = draft
        PROVE  /\ Validate(i, config) \notin {"PD_SIZE", "M_SEQUENCE"}
               /\ Validate(i, config) = "CYCLE_TIME" => i.min_cycle_time > 255
               /\ Validate(i, config) = "REVISION" => i.revision \notin Revisions
               /\ Validate(i, config) \notin {"TOO_SHORT", "PD_DESCRIPTOR"}
    <3>1. /\ config.type = TypeFromCode(i)
          /\ config.min_cycle_time = IF i.min_cycle_time > 255 THEN 255
                                     ELSE i.min_cycle_time
          /\ <<config.pd_in_len, config.pd_out_len>> = <<i.pd_in_len, i.pd_out_len>>
      BY <2>2, <2>8 DEF ChosenFor
    <3>2. config.min_cycle_time < i.min_cycle_time => i.min_cycle_time > 255
      BY <2>3, <3>1
    <3> QED
      BY <2>3, <2>6, <3>1, <3>2 DEF Validate
  <2>9. \/ verdict \in {"none", "PENDING", "BUSY", "error"}
        \/ info = i /\ verdict = Validate(i, config)
    BY <2>2, <2>5 DEF VerdictInv, i
  <2> QED
    BY <2>3, <2>7, <2>8, <2>9
<1> QED
  BY <1>1, SpecInv, PTL

=============================================================================
