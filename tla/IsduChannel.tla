---------------------------- MODULE IsduChannel ----------------------------
(***************************************************************************)
(* What an ISDU service promises its caller, without octets, segments or    *)
(* frames: one service at a time; the device executes it at most once, or   *)
(* refuses it; a result is only reported after that, and a positive result  *)
(* means that the device did it and, for a read, gives the value the device *)
(* had.  A service whose response lost a segment on the way is worth an     *)
(* error; where it yields a value none the less, nothing is promised of it. *)
(***************************************************************************)
CONSTANTS
    Objects,      \* what can be read and written
    Values,       \* what an object holds
    Writable      \* what the application writes

NoObject == <<>>
NoValue == <<>>

Idle == [op |-> "none", object |-> NoObject, data |-> NoValue,
         made |-> "nothing", value |-> NoValue, lossy |-> FALSE,
         result |-> "none", answer |-> NoValue]

Channels == [op : {"none", "read", "write"},
             object : Objects \cup {NoObject},
             data : Writable \cup {NoValue},
             made : {"nothing", "executed", "refused"},
             value : Values \cup {NoValue},
             lossy : BOOLEAN,
             result : {"none", "OK", "error"},
             answer : Values \cup {NoValue}]

Begun(op, object, data) ==
    [Idle EXCEPT !.op = op, !.object = object, !.data = data]

Underway(c) == c.op # "none" /\ c.result = "none"

\* What a call on object o returns, and the channel it leaves.
Call(c, op, o, data) ==
    LET mine == c.op = op /\ c.object = o
    IN  IF c.op = "none"
        THEN [channel |-> Begun(op, o, data), ret |-> "PENDING"]
        ELSE IF c.result = "none"
        THEN [channel |-> c, ret |-> IF mine THEN "PENDING" ELSE "BUSY"]
        ELSE IF mine THEN [channel |-> Idle, ret |-> c.result]
        ELSE [channel |-> c, ret |-> "BUSY"]

\* The device's part: the store after the service of c, and c with the value
\* the device answers.
Stored(store, c) ==
    IF c.op = "write" THEN [store EXCEPT ![c.object] = c.data] ELSE store

Executed(store, c) ==
    [c EXCEPT !.made = "executed",
              !.value = IF c.op = "read" THEN store[c.object] ELSE NoValue]

-----------------------------------------------------------------------------
VARIABLES
    channel,      \* the service in progress
    store         \* the parameters of the device

vars == <<channel, store>>

Init == channel = Idle /\ store \in [Objects -> Values]

Begin ==
    /\ channel.op = "none"
    /\ \E o \in Objects :
          \/ channel' = Begun("read", o, NoValue)
          \/ \E d \in Writable : channel' = Begun("write", o, d)
    /\ UNCHANGED store

Execute ==
    /\ channel.op # "none" /\ channel.made = "nothing"
    /\ \/ /\ channel' = Executed(store, channel)
          /\ store' = Stored(store, channel)
       \/ /\ channel' = [channel EXCEPT !.made = "refused"]
          /\ UNCHANGED store

Lose ==
    /\ Underway(channel)
    /\ channel' = [channel EXCEPT !.lossy = TRUE]
    /\ UNCHANGED store

Complete ==
    /\ channel.made # "nothing" /\ channel.result = "none"
    /\ \/ /\ channel.made = "executed"
          /\ channel' = [channel EXCEPT
                !.result = "OK",
                !.answer = IF channel.lossy THEN NoValue ELSE channel.value]
       \/ channel' = [channel EXCEPT !.result = "error"]
    /\ UNCHANGED store

Collect ==
    /\ channel.result # "none"
    /\ channel' = Idle
    /\ UNCHANGED store

\* The port is initialised again.
Abandon == channel' = Idle /\ UNCHANGED store

Next == Begin \/ Execute \/ Lose \/ Complete \/ Collect \/ Abandon

Spec == Init /\ [][Next]_vars

=============================================================================
