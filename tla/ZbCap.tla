------------------------------- MODULE ZbCap -------------------------------
(***************************************************************************)
(* The capability layer (zb_cap.c, zb_cap_clusters.c): which clusters can  *)
(* be set and read, and how a reported attribute becomes a typed value.    *)
(* The bytes of a value are the number they say, lowest byte first.        *)
(***************************************************************************)
EXTENDS Integers, Sequences, FiniteSets

\* ZCL data types and how many bytes they take; 0 is a type the parser of
\* reports does not know.
TypeSize ==
    [boolean |-> 1, bitmap8 |-> 1, bitmap16 |-> 2, uint8 |-> 1, uint16 |-> 2,
     uint24 |-> 3, uint32 |-> 4, uint48 |-> 6, int8 |-> 1, int16 |-> 2,
     int24 |-> 3, int32 |-> 4, int48 |-> 6, float32 |-> 4, enum8 |-> 0,
     string |-> 0]

\* A record of a report.
Attribute(a, t, v) == [attr |-> a, dtype |-> t, value |-> v]
Attributes == [attr : STRING, dtype : DOMAIN TypeSize, value : Nat]

\* Numbers of one, two and three bytes.
Span == <<256, 65536, 16777216>>

\* A device sends as many bytes as the type takes, and 0 or 1 for a boolean.
Fits(r) ==
    /\ r.dtype = "boolean" => r.value <= 1
    /\ TypeSize[r.dtype] \in 1 .. 3 => r.value < Span[TypeSize[r.dtype]]

-----------------------------------------------------------------------------
(* translate_to_typed() *)

AnyAttr == "any attribute"

\* Attribute attr of a cluster, if its value takes at least least bytes, is
\* stored in field, from its lowest bytes, as a number or a flag.
Row(c, a, n, b, k, f) ==
    [cluster |-> c, attr |-> a, least |-> n, bytes |-> b, kind |-> k, field |-> f]

Translation == {
    Row("OnOff", AnyAttr, 0, 1, "flag", "on_off"),
    Row("LevelControl", AnyAttr, 0, 1, "unsigned", "level"),
    Row("ColorControl", "0003", 2, 2, "unsigned", "x"),
    Row("ColorControl", "0004", 2, 2, "unsigned", "y"),
    Row("Temperature", AnyAttr, 2, 2, "signed", "temperature_hundredths"),
    Row("Humidity", AnyAttr, 2, 2, "unsigned", "humidity_hundredths"),
    Row("Illuminance", AnyAttr, 2, 2, "unsigned", "illuminance_lux"),
    Row("Pressure", "0000", 2, 2, "signed", "pressure_hpa"),
    Row("Occupancy", "0000", 1, 1, "bit", "occupancy"),
    Row("IASZone", "0000", 1, 1, "unsigned", "zone_state"),
    Row("IASZone", "0001", 2, 2, "unsigned", "zone_type"),
    Row("IASZone", "0002", 2, 2, "unsigned", "zone_status"),
    Row("Metering", "0000", 6, 6, "unsigned", "summation_delivered"),
    Row("Metering", "0001", 6, 6, "unsigned", "summation_received"),
    Row("Metering", "0400", 3, 3, "signed", "instantaneous_demand"),
    Row("Electrical", "0505", 2, 2, "unsigned", "rms_voltage"),
    Row("Electrical", "0508", 2, 2, "unsigned", "rms_current"),
    Row("Electrical", "050B", 2, 2, "signed", "active_power"),
    Row("Electrical", "0510", 2, 1, "signed", "power_factor"),
    Row("AnalogInput", "0055", 4, 4, "unsigned", "analog_input"),
    Row("BinaryInput", "0055", 1, 1, "flag", "binary_input"),
    Row("BinaryOutput", "0055", 1, 1, "flag", "binary_output")}

\* The lowest bytes of a number; what more than three hold is not cut.
Low(v, bytes) == IF bytes <= 3 THEN v % Span[bytes] ELSE v
AsSigned(v, bytes) ==
    IF bytes <= 3 /\ v >= Span[bytes] \div 2 THEN v - Span[bytes] ELSE v

Convert(row, v) ==
    LET n == Low(v, row.bytes)
    IN  CASE row.kind = "flag" -> IF n # 0 THEN 1 ELSE 0
          [] row.kind = "bit" -> n % 2
          [] row.kind = "signed" -> AsSigned(n, row.bytes)
          [] row.kind = "unsigned" -> n

\* A typed value: the one field that is set, the others are 0. Clusters that
\* are not known keep their bytes.
Typed(f, v) == [field |-> f, value |-> v]
Nothing == Typed("none", 0)
Translate(cluster, r) ==
    LET rows == {row \in Translation : row.cluster = cluster}
        fits(row) == row.attr \in {AnyAttr, r.attr} /\ TypeSize[r.dtype] >= row.least
    IN  IF rows = {} THEN Typed("raw", r.value)
        ELSE IF ~ \E row \in rows : fits(row) THEN Nothing
        ELSE LET row == CHOOSE row \in rows : fits(row)
             IN  Typed(row.field, Convert(row, r.value))

\* zb_cap_dispatch_ias_status_change(): the command's first two bytes.
StatusChange(v) == Typed("zone_status", Low(v, 2))

\* What an event says, and what a subscriber reads in a field of it.
CapEvent(c, t) == [cluster |-> c, field |-> t.field, value |-> t.value]
Reads(d, f) == IF d.field = f THEN d.value ELSE 0

-----------------------------------------------------------------------------
(* The schema table *)

Schema(c, s, g) == [cluster |-> c, set |-> s, get |-> g]

\* Clusters, whether they can be set, and the attributes that get() asks for.
FirstSchemas == {
    Schema("OnOff", TRUE, <<"0000">>), Schema("LevelControl", TRUE, <<"0000">>),
    Schema("ColorControl", TRUE, <<>>), Schema("Temperature", FALSE, <<"0000">>),
    Schema("Humidity", FALSE, <<"0000">>), Schema("Illuminance", FALSE, <<"0000">>)}

ZhaSchemas == {
    Schema("Pressure", FALSE, <<"0000">>), Schema("Occupancy", FALSE, <<"0000">>),
    Schema("IASZone", FALSE, <<"0000", "0001", "0002">>),
    Schema("Metering", FALSE, <<"0000", "0001", "0400", "0301", "0302">>),
    Schema("Electrical", FALSE, <<"0505", "0508", "050B", "0510">>),
    Schema("AnalogInput", FALSE, <<"0055">>),
    Schema("BinaryInput", FALSE, <<"0055">>), Schema("BinaryOutput", TRUE, <<"0055">>)}

Schemas == FirstSchemas \cup ZhaSchemas

\* zb_cap_get() and zb_cap_set() succeed.
Gettable(c) == \E s \in Schemas : s.cluster = c /\ s.get # <<>>
Settable(c) == \E s \in Schemas : s.cluster = c /\ s.set

-----------------------------------------------------------------------------
(* The meaning of the standard attributes, by their ZCL data types *)

Standard == {
    <<"OnOff", "0000", "boolean", "on_off">>,
    <<"LevelControl", "0000", "uint8", "level">>,
    <<"ColorControl", "0003", "uint16", "x">>, <<"ColorControl", "0004", "uint16", "y">>,
    <<"Temperature", "0000", "int16", "temperature_hundredths">>,
    <<"Humidity", "0000", "uint16", "humidity_hundredths">>,
    <<"Illuminance", "0000", "uint16", "illuminance_lux">>,
    <<"Pressure", "0000", "int16", "pressure_hpa">>,
    <<"Occupancy", "0000", "bitmap8", "occupancy">>,
    <<"IASZone", "0002", "bitmap16", "zone_status">>,
    <<"Metering", "0000", "uint48", "summation_delivered">>,
    <<"Metering", "0001", "uint48", "summation_received">>,
    <<"Metering", "0400", "int24", "instantaneous_demand">>,
    <<"Electrical", "0505", "uint16", "rms_voltage">>,
    <<"Electrical", "0508", "uint16", "rms_current">>,
    <<"Electrical", "050B", "int16", "active_power">>,
    <<"AnalogInput", "0055", "float32", "analog_input">>,
    <<"BinaryInput", "0055", "boolean", "binary_input">>,
    <<"BinaryOutput", "0055", "boolean", "binary_output">>}

\* PowerFactor is an int8, less than the two bytes its cluster must have.
PowerFactor == <<"Electrical", "0510", "int8", "power_factor">>

Meaning(dtype, v) ==
    IF dtype \in {"int8", "int16", "int24"} THEN AsSigned(v, TypeSize[dtype]) ELSE v

\* The field an attribute is meant for tells its value.
Tells(s, v) == Translate(s[1], Attribute(s[2], s[3], v)) = Typed(s[4], Meaning(s[3], v))
=============================================================================
