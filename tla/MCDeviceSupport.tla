--------------------------- MODULE MCDeviceSupport ---------------------------
(***************************************************************************)
(* One port of the driver and one of another driver; records with good     *)
(* addresses, and with one for each way of failing.                        *)
(***************************************************************************)
EXTENDS DeviceSupport

MCPorts == {<<"plc">>}
MCForeignPorts == {<<"serial">>}
MCGroupNames == {<<"default">>, <<"fast">>}

MCWords == {"plc", "serial", "none", "PG", "DLV", "DHV", "fast", "default", "100", "FW0", "F1.5"}
             \union PlcDataTypes

MCSpelling(w) ==
  CASE w = "FW0" -> <<Letter("F"), Letter("W"), Digits(0)>>
    [] w = "F1.5" -> <<Letter("F"), Digits(1), Dot, Digits(5)>>
    [] w \in {"100"} -> <<Digits(100)>>
    [] OTHER -> <<>>
MCPlcAddressWords == {"FW0", "F1.5"}

Configuration(recordType, address) ==
  [recordType |-> recordType, ftvl |-> "SHORT", instIo |-> TRUE, address |-> address]

On(port, parameters, rest) == <<port>> \o parameters \o <<"space">> \o rest
InGroup == <<"(", "PG", "=", "fast", ")">>
Limits == <<"(", "DLV", "=", "100", ",", "PG", "=", "fast", ",", "DHV", "=", "100", ")">>

MCConfigurations ==
  {Configuration("ai", On("plc", Limits, <<"FW0">>)),
   Configuration("bi", On("plc", <<>>, <<"F1.5">>)),
   Configuration("ao", On("plc", InGroup, <<"FW0">>)),              \* PG is unknown to outputs
   Configuration("bo", On("plc", <<>>, <<"F1.5", "space", "bool">>)),
   Configuration("ai", On("plc", <<"(", "DLV", "=", "100", ")">>, <<"FW0">>)),  \* no DHV
   Configuration("longin", On("plc", <<>>, <<"FW0", "space", "int8">>)),  \* another size
   Configuration("aai", On("serial", <<>>, <<"FW0">>)),             \* another driver
   Configuration("stringin", On("plc", InGroup, <<"FW0">>)),        \* no strings of words
   [Configuration("mbbi", On("plc", <<>>, <<"FW0">>)) EXCEPT !.instIo = FALSE]}
=============================================================================
