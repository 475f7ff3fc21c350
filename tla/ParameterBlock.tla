--------------------------- MODULE ParameterBlock ---------------------------
(***************************************************************************)
(* Block parameterization (iolink_master_write_parameter_block and, on top  *)
(* of it, iolink_master_restore_data_storage): ParamDownloadStart, the      *)
(* write, ParamDownloadEnd and a readback, each of them an ISDU service on  *)
(* the one channel of the port, which the application uses for services of  *)
(* its own between the calls.                                               *)
(*                                                                          *)
(* The channel is that of IsduChannel: a service is matched to a caller by  *)
(* operation and object, not by its data.                                   *)
(***************************************************************************)
EXTENDS DataStorage

CONSTANTS
    Parameters,       \* objects that hold parameters
    SystemCommand,    \* the object that takes system commands
    Storage,          \* the object that holds the Data Storage image
    Stores,           \* what the objects of a device may hold at first
    Blocks,           \* blocks the application writes: <<object, data>>
    Writes,           \* single writes of the application: <<object, data>>
    Kept(_, _),       \* what the device may keep of a value written to an object
    MaxAppServices,   \* bound: services the application starts during blocks
    MaxRefusals       \* bound: services the device refuses

DownloadStart == <<3>>     \* IOLINK_CMD_PARAM_DOWNLOAD_START
DownloadEnd == <<4>>       \* IOLINK_CMD_PARAM_DOWNLOAD_END
DownloadStore == <<5>>     \* IOLINK_CMD_PARAM_DOWNLOAD_STORE

ASSUME ObjectsAssumption ==
    /\ Storage \in Parameters /\ SystemCommand \notin Parameters
    /\ Stores \subseteq [Parameters -> Seq(Nat)]
    /\ \A b \in Blocks \cup Writes :
          /\ b[1] \in Parameters /\ b[2] \in Seq(Nat)
          /\ Kept(b[1], b[2]) \subseteq Seq(Nat)

VARIABLES
    channel,     \* the ISDU service in progress
    store,       \* the parameters of the device
    block,       \* iolink_master_block_state_t
    told,        \* what the last call for a block returned
    trail,       \* how far the device has followed the block
    mixed,       \* an application's system command met the block
    own,         \* the service in progress is the application's own
    left         \* services and refusals left

vars == <<channel, store, block, told, trail, mixed, own, left>>

Service == INSTANCE IsduChannel WITH
    Objects <- Parameters \cup {SystemCommand}, Values <- Seq(Nat),
    Writable <- Seq(Nat)

NoBlock == [step |-> "none", object |-> <<>>, data |-> <<>>]
NotTold == [ret |-> "none", object |-> <<>>, data |-> <<>>]

-----------------------------------------------------------------------------
(* The block.  A progress record p collects the channel, the block and what *)
(* the call has come to so far.                                             *)

BlockMatches(b, object, data) == b.object = object /\ b.data = data

\* One of the writes.  A refusal leaves the step as it is.
BlockStep(p, step, object, data, next) ==
    LET r == Service!Call(p.channel, "write", object, data)
    IN  IF p.ret # "OK" \/ p.block.step # step THEN p
        ELSE [channel |-> r.channel, ret |-> r.ret,
              block |-> IF r.ret = "OK" THEN [p.block EXCEPT !.step = next]
                        ELSE p.block]

\* verify_data_storage, verify_isdu.
Verified(object, actual, expected) ==
    IF object = Storage THEN ImagesAgree(actual, expected)
    ELSE actual = expected

\* fault: a failed readback leaves the block in place.
BlockVerifyKeeps(p) ==
    LET b == p.block
        r == Service!Call(p.channel, "read", b.object, <<>>)
        ret == IF r.ret = "OK" /\ ~Verified(b.object, p.channel.answer, b.data)
               THEN "VERIFY_FAILED" ELSE r.ret
    IN  IF p.ret # "OK" THEN p
        ELSE [channel |-> r.channel, ret |-> ret,
              block |-> IF ret = "OK" THEN NoBlock ELSE b]

\* The readback; any outcome but PENDING ends the block.
BlockVerify(p) ==
    LET b == p.block
        r == Service!Call(p.channel, "read", b.object, <<>>)
        ret == IF r.ret = "OK" /\ ~Verified(b.object, p.channel.answer, b.data)
               THEN "VERIFY_FAILED" ELSE r.ret
    IN  IF p.ret # "OK" THEN p
        ELSE [channel |-> r.channel, ret |-> ret,
              block |-> IF ret = "PENDING" THEN b ELSE NoBlock]

\* fault: the END of the download is left out.
DownloadedUnended(p) ==
    LET b == p.block
        p1 == BlockStep(p, "begin", SystemCommand, DownloadStart, "write")
    IN  BlockStep(p1, "write", b.object, b.data, "verify")

\* The three writes, each going on to the next in the same call.
Downloaded(p) ==
    LET b == p.block
        p1 == BlockStep(p, "begin", SystemCommand, DownloadStart, "write")
        p2 == BlockStep(p1, "write", b.object, b.data, "end")
    IN  BlockStep(p2, "end", SystemCommand, DownloadEnd, "verify")

WriteParameterBlock(ch, b, object, data) ==
    LET latched == [step |-> "begin", object |-> object, data |-> data]
        p == [channel |-> ch, ret |-> "OK",
              block |-> IF b.step = "none" THEN latched ELSE b]
    IN  IF b.step # "none" /\ ~BlockMatches(b, object, data)
        THEN [channel |-> ch, block |-> b, ret |-> "BUSY"]
        ELSE BlockVerify(Downloaded(p))

-----------------------------------------------------------------------------
(* The application.                                                        *)

CallBlock(object, data) ==
    LET p == WriteParameterBlock(channel, block, object, data)
        starts == block.step = "none"
    IN  /\ channel' = p.channel /\ block' = p.block
        /\ told' = [ret |-> p.ret, object |-> object, data |-> data]
        /\ trail' = IF starts THEN "none" ELSE trail
        /\ mixed' = IF starts THEN channel.object = SystemCommand ELSE mixed
        /\ own' = (own /\ p.channel = channel)
        /\ UNCHANGED <<store, left>>

\* A service of its own: read_isdu, write_isdu, read_data_storage,
\* write_data_storage, read_detailed_device_status, store_parameter_download.
CallService(op, object, data) ==
    LET r == Service!Call(channel, op, object, data)
        begins == r.channel # channel /\ ~own
        meddles == begins /\ block.step # "none"
    IN  /\ meddles => left.services > 0
        /\ channel' = r.channel
        /\ told' = NotTold
        /\ mixed' = (block.step # "none" /\ (mixed \/ object = SystemCommand))
        /\ own' = (channel'.op # "none" /\ (own \/ begins))
        /\ left' = IF meddles THEN [left EXCEPT !.services = @ - 1] ELSE left
        /\ UNCHANGED <<store, block, trail>>

OwnService ==
    \/ \E o \in Parameters : CallService("read", o, <<>>)
    \/ \E w \in Writes : CallService("write", w[1], w[2])
    \/ CallService("write", SystemCommand, DownloadStore)

\* It calls again for a service of its own that is done.
Collect ==
    /\ own /\ channel.result # "none"
    /\ CallService(channel.op, channel.object, channel.data)

-----------------------------------------------------------------------------
(* The device.                                                             *)

Trailed(c) ==
    CASE block.step = "none" -> "none"
      [] c.object = SystemCommand /\ c.data = DownloadStart -> "started"
      [] c.op = "write" /\ c.object = block.object /\ trail = "started" -> "written"
      [] c.object = SystemCommand /\ c.data = DownloadEnd /\ trail = "written" ->
           "ended"
      [] OTHER -> trail

Accept ==
    LET done == [Service!Executed(store, channel) EXCEPT !.result = "OK"]
    IN  /\ Service!Underway(channel)
        /\ channel' = [done EXCEPT !.answer = done.value]
        /\ store' \in IF channel.op = "write" /\ channel.object \in Parameters
                      THEN {[store EXCEPT ![channel.object] = v] :
                               v \in Kept(channel.object, channel.data)}
                      ELSE {store}
        /\ trail' = Trailed(channel)
        /\ told' = NotTold
        /\ UNCHANGED <<block, mixed, own, left>>

Refuse ==
    /\ Service!Underway(channel)
    /\ left.refusals > 0
    /\ channel' = [channel EXCEPT !.made = "refused", !.result = "error"]
    /\ left' = [left EXCEPT !.refusals = @ - 1]
    /\ told' = NotTold
    /\ UNCHANGED <<store, block, trail, mixed, own>>

-----------------------------------------------------------------------------
Init ==
    /\ channel = Service!Idle /\ store \in Stores /\ block = NoBlock
    /\ told = NotTold /\ trail = "none" /\ mixed = FALSE
    /\ own = FALSE
    /\ left = [services |-> MaxAppServices, refusals |-> MaxRefusals]

\* The application goes on calling for the block it has started.
CallAgain ==
    /\ block.step # "none"
    /\ CallBlock(block.object, block.data)

-----------------------------------------------------------------------------

Holds(held, object, data) ==
    \/ held = data
    \/ /\ object = Storage
       /\ \E wanted \in RecordSets(data), there \in RecordSets(held) :
             wanted \subseteq there

\* The verdict on a block is right both ways, whatever the device refused,
\* altered or reordered and whatever else used the channel: a block reported
\* as written is in the device, and one whose readback is reported to differ is
\* not (the readback of write_parameter_block; for Data Storage the walk over
\* the records of two images, well-formed or not).
VerifyExact ==
    told.ret \in {"OK", "VERIFY_FAILED"} =>
        (told.ret = "OK" <=> Holds(store[told.object], told.object, told.data))

\* A block that is reported as written went to the device between a
\* ParamDownloadStart and a ParamDownloadEnd, in this order, as long as the
\* application gives no system command meanwhile.
BlockFramed == told.ret = "OK" /\ ~mixed => trail = "ended"

\* A block comes to an end, written or failed, although the device may refuse
\* any of its services and the application uses the channel between its calls
\* (a refused write keeps the step and is repeated, a failed readback clears
\* the block).
BlockEnds == block.step # "none" ~> block.step = "none"

=============================================================================
