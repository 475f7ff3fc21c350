-------------------------- MODULE DeviceParameters --------------------------
(***************************************************************************)
(* Direct Parameter page 1 and the choice of a port configuration           *)
(* (src/master_parameters.c).  A page is the sequence of its fields:        *)
(* MinCycleTime, M-sequence capability, RevisionID, the two process data    *)
(* descriptors (octets all of them) and the identity (VendorID, DeviceID).  *)
(***************************************************************************)
EXTENDS Naturals, Sequences

CONSTANTS
    PdMax             \* IOLINK_PD_IN_MAX_SIZE, IOLINK_PD_OUT_MAX_SIZE

ASSUME PdMaxAssumption == PdMax \in 1..255

PageLen == 6          \* IOLINK_MASTER_DPP1_LEN, in fields
Revisions == {16, 17} \* IOLINK_MASTER_REVISION_1_0, _1_1

\* What a device may answer: its own identity, and octets before it.
IsPage(page) ==
    /\ page \in Seq(Nat)
    /\ \A i \in 1..(PageLen - 1) : i <= Len(page) => page[i] \in 0..255

\* fault: the second range is taken to start where its multiplier says.
DecodeMinCycleTimeFlat(octet) ==
    LET base == octet \div 64
        multiplier == octet % 64
    IN  CASE base = 0 -> multiplier
          [] base = 1 -> multiplier * 4
          [] base = 2 -> 320 + multiplier * 16
          [] OTHER -> octet

\* In units of 100 us.
DecodeMinCycleTime(octet) ==
    LET base == octet \div 64
        multiplier == octet % 64
    IN  CASE base = 0 -> multiplier
          [] base = 1 -> 64 + multiplier * 4
          [] base = 2 -> 320 + multiplier * 16
          [] OTHER -> octet

\* The length in octets, and the reserved combinations of BYTE and Length.
DecodePdDescriptor(d) ==
    IF d >= 128 THEN (d % 32) + 1 ELSE ((d % 32) + 7) \div 8

PdDescriptorIsReserved(d) ==
    IF d >= 128 THEN d % 32 < 2 ELSE d % 32 >= 17

\* parse_direct_parameter_page1.
ParseError(page) ==
    CASE Len(page) < PageLen -> "TOO_SHORT"
      [] Len(page) >= PageLen ->
           IF PdDescriptorIsReserved(page[4]) \/ PdDescriptorIsReserved(page[5])
           THEN "PD_DESCRIPTOR" ELSE "OK"

NoInfo == [valid |-> FALSE, min_cycle_time |-> 0, isdu_supported |-> FALSE,
           operate_mseq_code |-> 0, revision |-> 0, pd_in_len |-> 0,
           pd_out_len |-> 0, id |-> 0]

Parsed(page) ==
    [valid |-> TRUE,
     min_cycle_time |-> DecodeMinCycleTime(page[1]),
     isdu_supported |-> page[2] % 2 = 1,
     operate_mseq_code |-> (page[2] \div 2) % 8,
     revision |-> page[3],
     pd_in_len |-> DecodePdDescriptor(page[4]),
     pd_out_len |-> DecodePdDescriptor(page[5]),
     id |-> page[6]]

-----------------------------------------------------------------------------
(* M-sequence types and capability codes.                                  *)

CodeCompatible(type, code) ==
    CASE type \in {"TYPE_1_1", "TYPE_1_2"} -> code \in {0, 1}
      [] type \in {"TYPE_0", "TYPE_2_1", "TYPE_2_2"} -> code = 0
      [] type = "TYPE_1_V" -> code \in {6, 7}
      [] type = "TYPE_2_V" -> code \in 4..7

\* fault: process data do not keep a device from TYPE_0.
TypeFromCodePlain(info) ==
    CASE info.operate_mseq_code = 0 -> "TYPE_0"
      [] info.operate_mseq_code = 1 ->
           IF info.isdu_supported THEN "TYPE_1_2" ELSE "TYPE_1_1"
      [] info.operate_mseq_code \in 4..7 -> "TYPE_2_V"
      [] OTHER -> "none"

TypeFromCode(info) ==
    CASE info.operate_mseq_code = 0 ->
           IF info.pd_in_len = 0 /\ info.pd_out_len = 0 THEN "TYPE_0"
           ELSE IF info.isdu_supported THEN "TYPE_2_2" ELSE "TYPE_2_1"
      [] info.operate_mseq_code = 1 ->
           IF info.isdu_supported THEN "TYPE_1_2" ELSE "TYPE_1_1"
      [] info.operate_mseq_code \in 4..7 -> "TYPE_2_V"
      [] OTHER -> "none"

-----------------------------------------------------------------------------
(* Configurations: what iolink_master_init demands of one, whether one fits *)
(* a device, and the one chosen for a device.                               *)

Configurations ==
    [type : {"TYPE_0", "TYPE_1_1", "TYPE_1_2", "TYPE_1_V", "TYPE_2_1",
             "TYPE_2_2", "TYPE_2_V"},
     min_cycle_time : 0..255, pd_in_len : 0..255, pd_out_len : 0..255,
     inspection : BOOLEAN, expected_id : Nat]

InitAccepts(config) ==
    /\ config.pd_in_len <= PdMax /\ config.pd_out_len <= PdMax
    /\ config.type = "TYPE_0" => config.pd_in_len = 0 /\ config.pd_out_len = 0

\* validate_config_against_device_info.
Validate(info, config) ==
    IF ~info.valid THEN "PENDING"
    ELSE IF info.revision \notin Revisions THEN "REVISION"
    ELSE IF config.min_cycle_time < info.min_cycle_time THEN "CYCLE_TIME"
    ELSE IF <<config.pd_in_len, config.pd_out_len>>
            # <<info.pd_in_len, info.pd_out_len>> THEN "PD_SIZE"
    ELSE IF ~CodeCompatible(config.type, info.operate_mseq_code)
    THEN "M_SEQUENCE"
    ELSE IF config.inspection /\ config.expected_id # info.id THEN "ID"
    ELSE "OK"

\* select_config_from_device_info, for a valid info whose code has a type.
Selectable(info) == info.valid /\ TypeFromCode(info) # "none"

SelectConfig(info, config) ==
    [config EXCEPT
       !.type = TypeFromCode(info),
       !.min_cycle_time = IF info.min_cycle_time > 255 THEN 255
                          ELSE info.min_cycle_time,
       !.pd_in_len = info.pd_in_len, !.pd_out_len = info.pd_out_len]

-----------------------------------------------------------------------------
(* What a page says, read from the tables of the standard instead.          *)

\* Table B.3 by its steps: 0.1 ms up to 6.4 ms, then 0.4 ms, then 1.6 ms.
TableB3 ==
    LET time[n \in 0..191] ==
          IF n = 0 THEN 0
          ELSE time[n - 1] + (IF n <= 64 THEN 1 ELSE IF n <= 128 THEN 4 ELSE 16)
    IN  time

\* Table B.6, for the descriptors that are not reserved: a number of bits, or
\* one less than a number of octets.
TableB6(d) ==
    CHOOSE octets \in 0..32 :
        IF d \in 128..255 THEN octets = (d % 32) + 1
        ELSE octets * 8 \in (d % 32)..((d % 32) + 7)

=============================================================================
