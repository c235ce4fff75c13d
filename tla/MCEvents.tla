------------------------------ MODULE MCEvents ------------------------------
(* Small instances of HubEvents for TLC. *)
EXTENDS HubEvents

CONSTANTS onNetwork, onCap, guest

MCTypes == {"READY", "LOST", "JOINED", "LEFT", "CAP"}
MCCallbacks == {onNetwork, onCap, guest}

\* A value and its change, a negative one, and a report that the parser leaves at
\* a type it does not know, with an attribute that is not the one shown.
MCReports == {
    <<"OnOff", <<Attribute("0000", "boolean", 1), Attribute("0000", "boolean", 0)>> >>,
    <<"Temperature", <<Attribute("0000", "int16", 65535)>> >>,
    <<"OnOff", <<Attribute("4000", "boolean", 1), Attribute("4003", "enum8", 1)>> >>}

\* The table of the capability layer agrees with the ZCL data types, and one
\* attribute that it lists is never decoded.
ASSUME TranslationAssumption ==
    /\ \A s \in Standard : \A v \in {0, 1} : Tells(s, v)
    /\ \A s \in {x \in Standard : x[3] \in {"int16", "uint16"}} :
           \A v \in {255, 32767, 32768, 65535} : Tells(s, v)
    /\ ~ Tells(PowerFactor, 1)
=============================================================================
