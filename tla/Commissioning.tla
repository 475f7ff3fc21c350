--------------------------- MODULE Commissioning ---------------------------
(***************************************************************************)
(* Commissioning a port: the application reads Direct Parameter page 1      *)
(* (read_device_info), lets a configuration be chosen for the device,       *)
(* initialises the port with it and inspects the device again, while        *)
(* parameter blocks and services of its own use the same ISDU channel.      *)
(***************************************************************************)
EXTENDS ParameterBlock, DeviceParameters

CONSTANTS
    DirectParameters, \* the object that holds Direct Parameter page 1
    BlockPages,       \* bound: the pages with which blocks are explored
    Configs           \* configurations the port may have at first

ASSUME PagesAssumption ==
    /\ DirectParameters \in Parameters \ {Storage}
    /\ \A s \in Stores : IsPage(s[DirectParameters])
    /\ \A b \in Blocks \cup Writes : b[1] # DirectParameters   \* read-only

ASSUME ConfigsAssumption == Configs \subseteq Configurations

VARIABLES
    info,         \* device_info of the port
    config,       \* the configuration of the port
    draft,        \* the configuration the application works on
    chosen,       \* draft was chosen for the device
    verdict       \* what read_device_info returned, if that was the last call

cvars == <<vars, info, config, draft, chosen, verdict>>

Page == store[DirectParameters]

\* iolink_master_read_device_info: the page is applied and validated; a page
\* that does not parse leaves the information as it was.
ReadDeviceInfo ==
    LET r == Service!Call(channel, "read", DirectParameters, <<>>)
        page == channel.answer
        parses == r.ret = "OK" /\ ParseError(page) = "OK"
    IN  /\ CallService("read", DirectParameters, <<>>)
        /\ info' = IF parses THEN Parsed(page) ELSE info
        /\ verdict' = IF parses THEN Validate(info', config)
                      ELSE IF r.ret = "OK" THEN ParseError(page) ELSE r.ret
        /\ UNCHANGED <<config, draft, chosen>>

\* iolink_master_select_config_from_device_info.
Select ==
    /\ Selectable(info)
    /\ draft' = SelectConfig(info, draft) /\ chosen' = TRUE
    /\ verdict' = "none"
    /\ UNCHANGED <<vars, info, config>>

\* iolink_master_init with the new configuration: all the port knew is gone.
Initialise ==
    /\ draft # config /\ InitAccepts(draft)
    /\ config' = draft /\ info' = NoInfo /\ verdict' = "none"
    /\ channel' = Service!Idle /\ block' = NoBlock /\ told' = NotTold
    /\ own' = FALSE
    /\ UNCHANGED <<store, trail, mixed, left, draft, chosen>>

\* Everything that leaves the inspection alone.
Beside(Action) ==
    /\ Action
    /\ verdict' = "none"
    /\ UNCHANGED <<info, config, draft, chosen>>

-----------------------------------------------------------------------------
CInit ==
    /\ Init
    /\ info = NoInfo /\ config \in Configs /\ draft = config
    /\ chosen = FALSE /\ verdict = "none"

CNext ==
    \/ ReadDeviceInfo
    \/ Select
    \/ Initialise
    \/ Beside(Accept)
    \/ Beside(Refuse)
    \/ Page \in BlockPages /\ Beside(\E b \in Blocks : CallBlock(b[1], b[2]))
    \/ Page \in BlockPages /\ Beside(OwnService)

\* The application that started a block goes on calling for it, it collects
\* the results of its services, and the device answers.  This is weak fairness,
\* with the enabling conditions written out: the call changes something when
\* the channel is free or has the block's result.
CFairness ==
    /\ \/ []<>(block.step = "none" \/ own \/ Service!Underway(channel))
       \/ []<><<Beside(CallAgain)>>_cvars
    /\ \/ []<>~(own /\ channel.result # "none")
       \/ []<><<Beside(Collect)>>_cvars
    /\ \/ []<>~Service!Underway(channel)
       \/ []<><<Beside(Accept)>>_cvars

CFairSpec == CInit /\ [][CNext]_cvars /\ CFairness

-----------------------------------------------------------------------------

\* A configuration chosen for a device can be used: iolink_master_init takes it,
\* and a port initialised with it accepts the device, unless the configuration
\* cannot express the device's minimum cycle time (25.5 ms is the longest), the
\* revision is not supported or the identity is not the expected one.
SelectionWorks ==
    /\ chosen => InitAccepts(draft)
    /\ chosen /\ config = draft =>
         /\ verdict \notin {"PD_SIZE", "M_SEQUENCE", "TOO_SHORT", "PD_DESCRIPTOR"}
         /\ verdict = "CYCLE_TIME" => info.min_cycle_time > 255
         /\ verdict = "REVISION" => Page[3] \notin Revisions

\* A device that passes the inspection is one the port can talk to: it is not
\* polled faster than it allows (Table B.3; the reserved codes have no time),
\* and both sides expect the same number of process data octets (Table B.6).
InspectionSound ==
    verdict = "OK" =>
        /\ Page[1] \in DOMAIN TableB3 => config.min_cycle_time >= TableB3[Page[1]]
        /\ config.pd_in_len = TableB6(Page[4])
        /\ config.pd_out_len = TableB6(Page[5])
        /\ config.inspection => config.expected_id = Page[6]

=============================================================================
